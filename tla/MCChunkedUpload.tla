--------------------------- MODULE MCChunkedUpload ---------------------------
(***************************************************************************)
(* ChunkedUpload for every payload of up to MaxLength units.               *)
(***************************************************************************)
EXTENDS ChunkedUpload

CONSTANT MaxLength

MCLengths == 0..MaxLength
=============================================================================
