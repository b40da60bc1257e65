-------------------------- MODULE MCStreamedUpload --------------------------
(***************************************************************************)
(* StreamedUpload with buffers of two or three units and every source of   *)
(* up to MaxLength units, cut into chunks in every way.                    *)
(***************************************************************************)
EXTENDS StreamedUpload

CONSTANT MaxLength

MCLengths == 0..MaxLength
=============================================================================
