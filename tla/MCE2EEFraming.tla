---------------------------- MODULE MCE2EEFraming ----------------------------
(***************************************************************************)
(* E2EEFraming for every payload of up to MaxLength units.                 *)
(***************************************************************************)
EXTENDS E2EEFraming

CONSTANT MaxLength

MCLengths == 0..MaxLength
=============================================================================
