---------------------------- MODULE ChunkedUpload ----------------------------
(***************************************************************************)
(* ResumableUploader.upload and transmitChunks of packages/google-drive/   *)
(* src/api/resumable.ts: a payload of known length goes to the session in  *)
(* chunks, and a PUT whose answer is an error or never comes is sent again *)
(* with the range it had, whatever the session kept of it.                 *)
(***************************************************************************)
EXTENDS DriveSession

CONSTANTS
  ChunkSize,   \* in units of the alignment
  MaxRetries,  \* of one PUT: 3 in the code
  Lengths      \* the lengths of the payloads under study

ASSUME ChunkSizeAssumption == ChunkSize \in Nat \ {0}
ASSUME RetriesAssumption == MaxRetries \in Nat
ASSUME LengthsAssumption == Lengths \subseteq Nat

VARIABLES
  length,   \* totalBytes
  offset,   \* where the next chunk starts
  request,  \* the range of the PUT under way: first (inclusive) to end
  attempt,  \* of this PUT
  pc

clientVars == <<length, offset, request, attempt, pc>>
vars == <<stored, finished, reply, length, offset, request, attempt, pc>>

PC == {"open", "next", "empty", "wait", "done", "failed"}

Init ==
  /\ SessionInit
  /\ length \in Lengths
  /\ offset = 0 /\ attempt = 0
  /\ request = [first |-> 0, end |-> 0]
  /\ pc = "open"

-----------------------------------------------------------------------------
(* The client.                                                             *)

\* Mutant: the body is cut at multiples of the chunk size, not at the offset.
BodyByNumberMutant ==
  SubSeq(Payload(length), (request.first \div ChunkSize) * ChunkSize + 1, request.end)

Body == SubSeq(Payload(length), request.first + 1, request.end)

Try(range, n) == request' = range /\ attempt' = n /\ reply' = NoReply

\* initiateSession, with retries of its own; a session nobody uses is harmless.
OpenSession ==
  /\ pc = "open"
  /\ pc' \in {"next", "failed"}
  /\ UNCHANGED <<sessionVars, length, offset, request, attempt>>

NextChunk ==
  /\ pc = "next" /\ offset < length
  /\ Try([first |-> offset,
          end |-> IF offset + ChunkSize < length THEN offset + ChunkSize ELSE length], 1)
  /\ pc' = "wait"
  /\ UNCHANGED <<stored, finished, length, offset>>

\* Mutant: the loop's end is taken for success.
LoopEndsWellMutant ==
  /\ pc = "next" /\ length > 0 /\ offset >= length
  /\ pc' = "done"
  /\ UNCHANGED <<sessionVars, length, offset, request, attempt>>

\* "Loop terminated without receiving final completion resource."
LoopEnds ==
  /\ pc = "next" /\ length > 0 /\ offset >= length
  /\ pc' = "failed"
  /\ UNCHANGED <<sessionVars, length, offset, request, attempt>>

\* The empty payload: one PUT of "bytes */0", outside withRetry.
PutEmpty ==
  /\ pc = "next" /\ length = 0
  /\ Try([first |-> 0, end |-> 0], 1)
  /\ pc' = "empty"
  /\ UNCHANGED <<stored, finished, length, offset>>

\* Its status is not looked at: an error whose body is JSON is a success.
OnEmpty ==
  /\ pc = "empty" /\ reply # NoReply
  /\ pc' \in {"done", "failed"}
  /\ UNCHANGED <<sessionVars, length, offset, request, attempt>>

\* Mutant: the last byte that Range names is taken for a count.
OnIncompleteInclusiveMutant ==
  /\ pc = "wait" /\ reply.status = "incomplete"
  /\ offset' = IF reply.range > 0 THEN reply.range - 1 ELSE request.end
  /\ pc' = "next"
  /\ UNCHANGED <<sessionVars, length, request, attempt>>

\* 308.  Without a Range header the whole chunk is taken to be saved.
OnIncomplete ==
  /\ pc = "wait" /\ reply.status = "incomplete"
  /\ offset' = IF reply.range > 0 THEN reply.range ELSE request.end
  /\ pc' \in {"next", "failed"}  \* failed: onProgress threw
  /\ UNCHANGED <<sessionVars, length, request, attempt>>

\* 200 or 201: the file is assembled.
OnCreated ==
  /\ pc = "wait" /\ reply.status = "created"
  /\ offset' = length
  /\ pc' \in {"done", "failed"}  \* failed: onProgress threw
  /\ UNCHANGED <<sessionVars, length, request, attempt>>

\* Mutant: each retry is counted as the first one.
RetryUncountedMutant ==
  /\ pc = "wait" /\ reply.status = "error"
  /\ Try(request, 1)
  /\ UNCHANGED <<stored, finished, length, offset, pc>>

\* Mutant: one attempt more than maxRetries allows.
RetryOnceMoreMutant ==
  /\ pc = "wait" /\ reply.status = "error"
  /\ attempt <= MaxRetries + 1
  /\ Try(request, attempt + 1)
  /\ UNCHANGED <<stored, finished, length, offset, pc>>

\* withRetry: any error is retried, with the Content-Range computed before.
Retry ==
  /\ pc = "wait" /\ reply.status = "error"
  /\ attempt <= MaxRetries
  /\ Try(request, attempt + 1)
  /\ UNCHANGED <<stored, finished, length, offset, pc>>

\* Mutant: the last error of a PUT is swallowed.
GiveUpQuietlyMutant ==
  /\ pc = "wait" /\ reply.status = "error"
  /\ attempt > MaxRetries
  /\ pc' = "done"
  /\ UNCHANGED <<sessionVars, length, offset, request, attempt>>

GiveUp ==
  /\ pc = "wait" /\ reply.status = "error"
  /\ attempt > MaxRetries
  /\ pc' = "failed"
  /\ UNCHANGED <<sessionVars, length, offset, request, attempt>>

Serve ==
  /\ pc \in {"empty", "wait"} /\ reply = NoReply
  /\ Put(request.first, Body, {length})
  /\ UNCHANGED clientVars

Client ==
  \/ OpenSession
  \/ NextChunk
  \/ LoopEnds
  \/ PutEmpty
  \/ OnEmpty
  \/ OnIncomplete
  \/ OnCreated
  \/ Retry
  \/ GiveUp

Next == Client \/ Serve

Spec == Init /\ [][Next]_vars

\* Besides the event loop and the answers: a server that is asked again and
\* again in the end keeps something more.  Nothing in the loop counts rounds.
FairSpec ==
  /\ Spec
  /\ WF_vars(Client) /\ WF_vars(Serve)
  /\ SF_vars(Serve /\ stored' # stored)

-----------------------------------------------------------------------------
(* Properties.                                                             *)

\* The shape of the uploader's state; no PUT is sent more than MaxRetries
\* times again.
TypeOK ==
  /\ stored \in Seq(Nat) /\ finished \in BOOLEAN /\ reply \in Replies
  /\ length \in Lengths
  /\ offset \in 0..length
  /\ request \in [first : 0..length, end : 0..length]
  /\ attempt \in 0..(MaxRetries + 1)
  /\ pc \in PC

\* Whatever the session kept of a PUT whose answer was lost, sending its range
\* again neither repeats nor skips a byte: the session always holds a prefix
\* of the payload, and the file is the payload.
PrefixOnly ==
  /\ stored = Payload(Len(stored))
  /\ finished => Len(stored) = length

\* After every detour of partial commits, lost answers and retries a new chunk
\* starts where the session ends; only a session that holds nothing, and sends
\* no Range, may be mistaken for one that kept the chunk.
InStep ==
  pc = "wait" /\ reply = NoReply /\ attempt = 1 =>
    request.first = Len(stored) \/ stored = <<>>

\* The upload settles once the server keeps making progress.
Settles == <>(pc \in {"done", "failed"})

Contract == INSTANCE UploadContract WITH
  Absent  <- {},
  payload <- {Payload(length)},
  object  <- IF finished THEN {stored} ELSE {},
  outcome <- IF pc \in {"done", "failed"} THEN pc ELSE "pending"

\* An upload that is not empty keeps the contract of an upload, with partial
\* commits, lost answers and retries.
KeepsContract ==
  /\ Contract!UInit
  /\ [][length > 0 => Contract!UNext \/ UNCHANGED Contract!uvars]_vars

=============================================================================
