---------------------------- MODULE DriveSession ----------------------------
(***************************************************************************)
(* The resumable session that Google Drive keeps for one upload, as the    *)
(* two uploaders of packages/google-drive/src/api/resumable.ts use it: the *)
(* server is not part of the repository.  The bytes of the payload are     *)
(* numbered 1, 2, ... (one number stands for one alignment unit of         *)
(* 256 KiB), so what the session stored tells which bytes it holds.        *)
(***************************************************************************)
EXTENDS Naturals, Sequences

CONSTANT PartialCommits  \* TRUE: the server may keep only the start of a body

ASSUME PartialAssumption == PartialCommits \in BOOLEAN

VARIABLES
  stored,    \* the bytes the session holds
  finished,  \* the session became a file of the user's Drive
  reply      \* the answer to the request under way

sessionVars == <<stored, finished, reply>>

NoReply       == [status |-> "none", range |-> 0]
Failure       == [status |-> "error", range |-> 0]
Created       == [status |-> "created", range |-> 0]
\* 308, with the number of bytes its Range header names; 0: no such header.
Incomplete(c) == [status |-> "incomplete", range |-> c]

Replies == [status : {"none", "error", "created", "incomplete"}, range : Nat]

Payload(n) == [i \in 1..n |-> i]

SessionInit == stored = <<>> /\ finished = FALSE /\ reply = NoReply

\* The answer, unless it is lost on its way.
Respond(answer) == reply' \in {answer, Failure}

\* How far the session may get with a body that ends at byte last.
Reach(last) ==
  IF last <= Len(stored) THEN {Len(stored)}
  ELSE IF PartialCommits THEN Len(stored)..last
  ELSE {last}

\* Content-Range "bytes first-.../total", with total = {} for "*": bytes the
\* session has are passed over, and the declared total closes it.
Commit(first, body, total) ==
  LET last == first + Len(body) IN
  /\ ~finished
  /\ first <= Len(stored)
  /\ \A t \in total : last <= t
  /\ \E c \in Reach(last) :
       /\ stored' = stored \o SubSeq(body, Len(stored) - first + 1, c - first)
       /\ finished' = (c \in total)
       /\ Respond(IF c \in total THEN Created ELSE Incomplete(c))

\* A finished session answers every request with its file.
Replay == finished /\ Respond(Created) /\ UNCHANGED <<stored, finished>>

\* A gap, an overrun, a throttled or failing server, a request that is lost.
Refuse == reply' = Failure /\ UNCHANGED <<stored, finished>>

Put(first, body, total) == Commit(first, body, total) \/ Replay \/ Refuse

=============================================================================
