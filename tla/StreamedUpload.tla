--------------------------- MODULE StreamedUpload ---------------------------
(***************************************************************************)
(* ResumableUploader.uploadStream of packages/google-drive/src/api/        *)
(* resumable.ts (stream_chunks of python/src/byoc/providers/gdrive/        *)
(* _http.py is the same loop): a source of unknown length is copied into   *)
(* two alternating buffers, and a full one is held back until it is known  *)
(* whether more data follows.  Each await is a step boundary: of the       *)
(* source, or of a PUT to the session.                                     *)
(***************************************************************************)
EXTENDS DriveSession

CONSTANTS
  Aligned,  \* the size of a buffer, in units of the alignment
  Lengths   \* the lengths the source may turn out to have

ASSUME AlignedAssumption == Aligned \in Nat \ {0}
ASSUME LengthsAssumption == Lengths \subseteq Nat

VARIABLES
  length,    \* the number of bytes the source will yield
  consumed,  \* how many of them were copied into a buffer
  rest,      \* bytes of the chunk at hand that are still to be copied
  buffers,   \* the two arrays
  current,   \* the one being filled
  filled,    \* up to where
  held,      \* the full one that waits to be classified, or "none"
  offset,    \* what the client believes the session holds
  resource,  \* finalResource was returned
  request,   \* the PUT under way
  pc

clientVars ==
  <<length, consumed, rest, buffers, current, filled, held, offset, resource,
    request, pc>>
vars == <<stored, finished, reply, length, consumed, rest, buffers, current,
          filled, held, offset, resource, request, pc>>

Buffer   == {"A", "B"}
Other(b) == IF b = "A" THEN "B" ELSE "A"
Sending  == {"rotate", "tail", "last"}
PC       == {"open", "read", "fill", "done", "failed"} \cup Sending

Init ==
  /\ SessionInit
  /\ length \in Lengths
  /\ consumed = 0 /\ rest = 0
  /\ buffers = [b \in Buffer |-> [i \in 1..Aligned |-> 0]]
  /\ current = "A" /\ filled = 0 /\ held = "none"
  /\ offset = 0 /\ resource = FALSE
  /\ request = [buffer |-> "A", length |-> 0, first |-> 0, total |-> {}]
  /\ pc = "open"

-----------------------------------------------------------------------------
(* Helpers.                                                                *)

\* The body is a view of the buffer, not a copy of it.
Body == SubSeq(buffers[request.buffer], 1, request.length)

Send(b, len, first, total, label) ==
  /\ request' = [buffer |-> b, length |-> len, first |-> first, total |-> total]
  /\ reply' = NoReply
  /\ pc' = label

Resume(left) == pc' = IF left = 0 THEN "read" ELSE "fill"

Rotate == held' = current /\ current' = Other(current) /\ filled' = 0

\* Mutant: the last byte that Range names is taken for a count.
AdvanceInclusiveMutant ==
  /\ reply.status \in {"created", "incomplete"}
  /\ offset' = IF reply.range > 0 THEN reply.range - 1 ELSE offset + request.length
  /\ resource' = (resource \/ reply.status = "created")

\* Mutant: the length is added to the server's committed range.
AdvanceTwiceMutant ==
  /\ reply.status \in {"created", "incomplete"}
  /\ offset' = reply.range + request.length
  /\ resource' = (resource \/ reply.status = "created")

\* "Trust the server's committed range over our own bookkeeping."
Advance ==
  /\ reply.status \in {"created", "incomplete"}
  /\ offset' = IF reply.range > 0 THEN reply.range ELSE offset + request.length
  /\ resource' = (resource \/ reply.status = "created")

-----------------------------------------------------------------------------
(* The client.                                                             *)

OpenSession ==
  /\ pc = "open"
  /\ pc' \in {"read", "failed"}
  /\ UNCHANGED <<sessionVars, length, consumed, rest, buffers, current, filled,
                 held, offset, resource, request>>

\* A chunk of any size arrives (an empty one changes nothing).
Pull ==
  /\ pc = "read"
  /\ rest' \in 1..(length - consumed)
  /\ pc' = "fill"
  /\ UNCHANGED <<sessionVars, length, consumed, buffers, current, filled, held,
                 offset, resource, request>>

Copied(take) ==
  [buffers EXCEPT ![current] =
     [i \in 1..Aligned |->
        IF i \in (filled + 1)..(filled + take) THEN consumed + i - filled
        ELSE buffers[current][i]]]

Fill ==
  LET take == IF rest < Aligned - filled THEN rest ELSE Aligned - filled IN
  /\ pc = "fill"
  /\ buffers' = Copied(take)
  /\ consumed' = consumed + take
  /\ rest' = rest - take
  /\ \/ /\ filled + take < Aligned
        /\ filled' = filled + take
        /\ Resume(rest')
        /\ UNCHANGED <<current, held, request, reply>>
     \/ /\ filled + take = Aligned /\ held = "none"
        /\ Rotate
        /\ Resume(rest')
        /\ UNCHANGED <<request, reply>>
     \/ /\ filled + take = Aligned /\ held # "none"
        /\ filled' = Aligned
        /\ Send(held, Aligned, offset, {}, "rotate")
        /\ UNCHANGED <<current, held>>
  /\ UNCHANGED <<stored, finished, length, offset, resource>>

\* Mutant: the current buffer is not swapped when it becomes the held one.
OnRotatedSameBufferMutant ==
  /\ pc = "rotate"
  /\ Advance
  /\ held' = current /\ filled' = 0
  /\ Resume(rest)
  /\ UNCHANGED <<sessionVars, length, consumed, rest, buffers, current, request>>

OnRotated ==
  /\ pc = "rotate"
  /\ Advance
  /\ Rotate
  /\ Resume(rest)
  /\ UNCHANGED <<sessionVars, length, consumed, rest, buffers, request>>

\* Mutant: a full held buffer is taken for the end of the stream.
ExhaustedEarlyMutant ==
  /\ pc = "read"
  /\ consumed = length
  /\ IF held # "none" THEN Send(held, Aligned, offset, {offset + Aligned}, "last")
                      ELSE Send(current, filled, offset, {filled}, "last")
  /\ UNCHANGED <<stored, finished, length, consumed, rest, buffers, current,
                 filled, held, offset, resource>>

\* "The stream is exhausted, so whatever remains is genuinely final."
Exhausted ==
  /\ pc = "read"
  /\ consumed = length
  /\ \/ /\ held # "none" /\ filled = 0
        /\ Send(held, Aligned, offset, {offset + Aligned}, "last")
     \/ /\ held # "none" /\ filled > 0
        /\ Send(held, Aligned, offset, {}, "tail")
     \/ /\ held = "none"
        /\ Send(current, filled, offset, {filled}, "last")
  /\ UNCHANGED <<stored, finished, length, consumed, rest, buffers, current,
                 filled, held, offset, resource>>

OnTail ==
  /\ pc = "tail"
  /\ Advance
  /\ Send(current, filled, offset', {offset' + filled}, "last")
  /\ UNCHANGED <<stored, finished, length, consumed, rest, buffers, current,
                 filled, held>>

\* Mutant: the last answer is not looked at.
OnLastUncheckedMutant ==
  /\ pc = "last"
  /\ reply.status # "none"
  /\ pc' = "done"
  /\ UNCHANGED <<sessionVars, length, consumed, rest, buffers, current, filled,
                 held, offset, resource, request>>

OnLast ==
  /\ pc = "last"
  /\ Advance
  /\ pc' = IF resource' THEN "done" ELSE "failed"
  /\ UNCHANGED <<sessionVars, length, consumed, rest, buffers, current, filled,
                 held, request>>

\* Mutant: a refusal in the middle of the stream is never noticed.
GiveUpLateMutant ==
  /\ pc = "last" /\ reply.status # "none"
  /\ pc' = "failed"
  /\ UNCHANGED <<sessionVars, length, consumed, rest, buffers, current, filled,
                 held, offset, resource, request>>

\* The source throws; a PUT is refused or lost, which is not retried; the body
\* of an answer cannot be parsed; or onProgress throws.
GiveUp ==
  /\ pc = "read" \/ (pc \in Sending /\ reply.status # "none")
  /\ pc' = "failed"
  /\ UNCHANGED <<sessionVars, length, consumed, rest, buffers, current, filled,
                 held, offset, resource, request>>

\* The server, at any moment between the request and its answer.
Serve ==
  /\ pc \in Sending /\ reply = NoReply
  /\ Put(request.first, Body, request.total)
  /\ UNCHANGED clientVars

Client ==
  \/ OpenSession
  \/ Pull
  \/ Fill
  \/ OnRotated
  \/ Exhausted
  \/ OnTail
  \/ OnLast
  \/ GiveUp

Next == Client \/ Serve

Spec == Init /\ [][Next]_vars

\* The event loop runs every continuation, the source yields its next chunk or
\* ends, and each PUT is answered or fails.
FairSpec == Spec /\ WF_vars(Client) /\ WF_vars(Serve)

-----------------------------------------------------------------------------
(* Properties.                                                             *)

\* The shape of the uploader's state.
TypeOK ==
  /\ stored \in Seq(Nat) /\ finished \in BOOLEAN /\ reply \in Replies
  /\ length \in Lengths
  /\ consumed \in 0..length /\ rest \in 0..(length - consumed)
  /\ buffers \in [Buffer -> [1..Aligned -> 0..length]]
  /\ current \in Buffer /\ held \in Buffer \cup {"none"}
  /\ filled \in 0..Aligned
  /\ offset \in 0..length /\ resource \in BOOLEAN
  /\ request \in [buffer : Buffer, length : 0..Aligned, first : 0..length,
                  total : {{}} \cup {{n} : n \in 0..length}]
  /\ pc \in PC

\* "Transport shape must not change stored bytes": a session that became a
\* file holds exactly the bytes the source yields, all of them, in order.
WholeObject == finished => stored = Payload(length)

BytesIn(b, n) == {buffers[b][i] : i \in 1..n}

\* Two buffers suffice: until the upload ended, every byte that was taken from
\* the source is in the session, in the held buffer or in the filled part of
\* the current one, which are two different buffers.
NothingDropped ==
  ~PartialCommits /\ pc \notin {"done", "failed"} =>
    /\ held # current
    /\ 1..consumed \subseteq
         {stored[i] : i \in DOMAIN stored}
           \cup BytesIn(current, filled)
           \cup (IF held = "none" THEN {} ELSE BytesIn(held, Aligned))

\* The client's offset is the server's: a request never leaves a gap and never
\* repeats what the session has, though no PUT is ever checked against it.
InStep ==
  ~PartialCommits /\ pc \in Sending /\ reply = NoReply =>
    /\ request.first = Len(stored)
    /\ request.total = {} => request.length = Aligned

\* uploadStream settles for every finite source and every server.
Settles == <>(pc \in {"done", "failed"})

Contract == INSTANCE UploadContract WITH
  Absent  <- {},
  payload <- {Payload(length)},
  object  <- IF finished THEN {stored} ELSE {},
  outcome <- IF pc \in {"done", "failed"} THEN pc ELSE "pending"

\* The uploader keeps the contract of an upload when the server keeps whole
\* bodies: the object appears whole, and before success is reported.
ImplementsContract == Contract!USpec

=============================================================================
