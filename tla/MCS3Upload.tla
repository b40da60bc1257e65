------------------------------ MODULE MCS3Upload ------------------------------
(***************************************************************************)
(* S3Upload for every payload of up to MaxLength units.                    *)
(***************************************************************************)
EXTENDS S3Upload

CONSTANT MaxLength

MCLengths == 0..MaxLength
===============================================================================
