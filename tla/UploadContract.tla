--------------------------- MODULE UploadContract ---------------------------
(***************************************************************************)
(* What an upload promises, however its bytes travel: the object appears   *)
(* once and whole, and an upload that succeeds has put it there.  An       *)
(* upload may fail after the object appeared: the last answer got lost.    *)
(***************************************************************************)
CONSTANT Absent

VARIABLES
  payload,  \* the bytes to upload
  object,   \* what the storage holds: Absent or the payload
  outcome   \* "pending", "done" or "failed"

uvars == <<payload, object, outcome>>

UInit == object = Absent /\ outcome = "pending"

Publish ==
  /\ object = Absent /\ outcome = "pending"
  /\ object' = payload
  /\ UNCHANGED <<payload, outcome>>

Succeed ==
  /\ outcome = "pending" /\ object = payload
  /\ outcome' = "done"
  /\ UNCHANGED <<payload, object>>

GiveUp ==
  /\ outcome = "pending"
  /\ outcome' = "failed"
  /\ UNCHANGED <<payload, object>>

UNext == Publish \/ Succeed \/ GiveUp

USpec == UInit /\ [][UNext]_uvars

=============================================================================
