------------------------------- MODULE S3Upload -------------------------------
(***************************************************************************)
(* Uploads to a bucket: putObject of packages/s3-compatible/src/api/       *)
(* client.ts with its multipart form, putObjectStreaming, and uploadSingle *)
(* of packages/browser/src/upload.ts, which PUTs to a presigned URL.  The  *)
(* bucket is not part of the repository: it may apply a request and lose   *)
(* the answer, or refuse it.                                               *)
(***************************************************************************)
EXTENDS Naturals, FiniteSets, SequencesExt

CONSTANTS
  PartSize,    \* MULTIPART_PART_SIZE
  MaxRetries,  \* of one request of the client: 3 in the code
  MaxAttempts, \* of uploadSingle: 3 in the code
  Lengths,     \* lengths of the payloads under study
  ChunkSizes   \* of the chunks of a source

ASSUME PartAssumption == PartSize \in Nat \ {0}
ASSUME RetriesAssumption == MaxRetries \in Nat /\ MaxAttempts \in Nat \ {0}
ASSUME LengthsAssumption == Lengths \subseteq Nat
ASSUME ChunksAssumption == ChunkSizes \subseteq Nat \ {0}

VARIABLES
  length,   \* of the payload
  body,     \* what kind of body it is
  taken,    \* how much of it the source has handed over
  chunk,    \* what is left of the last chunk
  buffer,   \* the filled part of the one buffer that all parts share
  parts,    \* S3UploadPart[]: an ETag stands for the bytes it was made of
  upload,   \* uploadId, 0: none
  attempt,  \* of the request under way
  pc,
  reply,    \* the answer to it
  object,   \* what the bucket holds under the key
  pending,  \* the multipart uploads that are open: their parts by number
  created   \* how many uploads the bucket has opened

client == <<length, body, taken, chunk, buffer, parts, upload>>
bucket == <<object, pending, created>>
vars == <<client, attempt, pc, reply, bucket>>

Replies == {"none", "ok", "unavailable", "refused"}
Bodies == {"buffered", "sized", "unsized", "granted"}

Old == <<0>>
Payload == [i \in 1..length |-> i]

Init ==
  /\ length \in Lengths /\ body \in Bodies
  /\ taken = 0 /\ chunk = <<>> /\ buffer = <<>> /\ parts = <<>> /\ upload = 0
  /\ attempt = 1 /\ reply = "none"
  /\ pc = IF body = "unsized" THEN "create" ELSE "put"
  /\ object = Old /\ pending = <<>> /\ created = 0

-----------------------------------------------------------------------------
(* The client: pc names the request it awaits, or what it does instead.    *)

Request == {"put", "create", "part", "complete", "abort"}

Goto(label) == pc' = label /\ attempt' = 1 /\ reply' = "none"

\* "A stream is a one-shot body."
RetriesOf ==
  CASE pc = "put" /\ body = "sized" -> 0
    [] pc = "put" /\ body = "granted" -> MaxAttempts - 1
    [] OTHER -> MaxRetries

\* withRetry: only a StorageError that says so is retried, not a lost fetch.
Retry ==
  /\ pc \in Request
  /\ reply = "unavailable" /\ attempt <= RetriesOf
  /\ attempt' = attempt + 1 /\ reply' = "none"
  /\ UNCHANGED <<client, pc, bucket>>

GivenUp == reply = "refused" \/ (reply = "unavailable" /\ attempt > RetriesOf)

OnPut ==
  /\ pc = "put" /\ reply = "ok"
  /\ Goto("done")
  /\ UNCHANGED <<client, bucket>>

OnCreated ==
  /\ pc = "create" /\ reply = "ok"
  /\ upload' = created
  /\ Goto("read")
  /\ UNCHANGED <<length, body, taken, chunk, buffer, parts, bucket>>

\* A request before any part: nothing to discard.
Reject ==
  /\ pc \in {"put", "create"} /\ GivenUp
  /\ Goto("failed")
  /\ UNCHANGED <<client, bucket>>

Pull ==
  /\ pc = "read" /\ chunk = <<>> /\ taken < length
  /\ \E k \in ChunkSizes :
       /\ taken + k <= length
       /\ chunk' = SubSeq(Payload, taken + 1, taken + k)
       /\ taken' = taken + k
  /\ UNCHANGED <<length, body, buffer, parts, upload, attempt, pc, reply, bucket>>

\* Mutant: the part is on its way while the next one fills the buffer.
CopyUnawaitedMutant ==
  /\ pc \in {"read", "part"} /\ chunk # <<>>
  /\ LET room == IF pc = "part" THEN PartSize ELSE PartSize - Len(buffer)
         take == IF room < Len(chunk) THEN room ELSE Len(chunk)
         more == (IF pc = "part" THEN <<>> ELSE buffer) \o SubSeq(chunk, 1, take)
     IN  /\ buffer' = more
         /\ chunk' = SubSeq(chunk, take + 1, Len(chunk))
         /\ IF pc = "read" /\ Len(more) = PartSize THEN Goto("part")
            ELSE UNCHANGED <<attempt, pc, reply>>
  /\ UNCHANGED <<length, body, taken, parts, upload, bucket>>

Copy ==
  /\ pc = "read" /\ chunk # <<>>
  /\ LET room == PartSize - Len(buffer)
         take == IF room < Len(chunk) THEN room ELSE Len(chunk)
     IN  /\ buffer' = buffer \o SubSeq(chunk, 1, take)
         /\ chunk' = SubSeq(chunk, take + 1, Len(chunk))
         /\ IF take = room THEN Goto("part") ELSE UNCHANGED <<attempt, pc, reply>>
  /\ UNCHANGED <<length, body, taken, parts, upload, bucket>>

\* "An empty stream still needs one part."
LastPart ==
  /\ pc = "read" /\ chunk = <<>> /\ taken = length
  /\ buffer # <<>> \/ parts = <<>>
  /\ Goto("part")
  /\ UNCHANGED <<client, bucket>>

\* uploadPart returns the ETag of what was sent; the buffer is free again.
OnPart ==
  /\ pc = "part" /\ reply = "ok"
  /\ parts' = Append(parts, buffer) /\ buffer' = <<>>
  /\ Goto("read")
  /\ UNCHANGED <<length, body, taken, chunk, upload, bucket>>

Complete ==
  /\ pc = "read" /\ chunk = <<>> /\ taken = length
  /\ buffer = <<>> /\ parts # <<>>
  /\ Goto("complete")
  /\ UNCHANGED <<client, bucket>>

OnComplete ==
  /\ pc = "complete" /\ reply = "ok"
  /\ Goto("done")
  /\ UNCHANGED <<client, bucket>>

\* Mutant: a part that fails ends the upload at once.
DiscardNoAbortMutant ==
  /\ \/ pc \in {"part", "complete"} /\ GivenUp
     \/ pc = "read"
  /\ Goto("failed")
  /\ UNCHANGED <<client, bucket>>

\* The catch block: the source or onProgress threw, a part or the completion
\* failed.
Discard ==
  /\ \/ pc \in {"part", "complete"} /\ GivenUp
     \/ pc = "read"
  /\ Goto("abort")
  /\ UNCHANGED <<client, bucket>>

\* Mutant: an abort that fails is tried until it does not.
OnAbortPersistsMutant ==
  /\ pc = "abort"
  /\ \/ reply = "ok" /\ pc' = "failed" /\ UNCHANGED <<attempt, reply>>
     \/ GivenUp /\ Goto("abort")
  /\ UNCHANGED <<client, bucket>>

\* "The original failure is what the caller needs, not an abort failure."
OnAbort ==
  /\ pc = "abort" /\ (reply = "ok" \/ GivenUp)
  /\ pc' = "failed"
  /\ UNCHANGED <<client, attempt, reply, bucket>>

-----------------------------------------------------------------------------
(* The bucket.                                                             *)

Open == upload \in DOMAIN pending

\* The answer of a request that took effect.
Respond == reply' \in {"ok", "unavailable", "refused"}

ServePut ==
  /\ pc = "put"
  /\ object' = Payload
  /\ Respond /\ UNCHANGED <<pending, created>>

ServeCreate ==
  /\ pc = "create"
  /\ created' = created + 1
  /\ pending' = [u \in DOMAIN pending \cup {created'} |->
                   IF u = created' THEN <<>> ELSE pending[u]]
  /\ Respond /\ UNCHANGED object

\* The body is the buffer as it is when the request is sent.
ServePart ==
  /\ pc = "part" /\ Open
  /\ pending' = [pending EXCEPT ![upload] =
       IF Len(parts) < Len(@) THEN ReplaceAt(@, Len(parts) + 1, buffer)
       ELSE Append(@, buffer)]
  /\ Respond /\ UNCHANGED <<object, created>>

Without(u) == [v \in DOMAIN pending \ {u} |-> pending[v]]

\* Every ETag must match, and only the last part may be short.
ServeComplete ==
  /\ pc = "complete" /\ Open
  /\ parts = pending[upload]
  /\ \A i \in 1..(Len(parts) - 1) : Len(parts[i]) = PartSize
  /\ object' = FlattenSeq(parts)
  /\ pending' = Without(upload)
  /\ Respond /\ UNCHANGED created

\* Aborting an upload that is gone answers 404, which abort takes for success.
ServeAbort ==
  /\ pc = "abort"
  /\ pending' = Without(upload)
  /\ Respond /\ UNCHANGED <<object, created>>

Refuse == reply' \in {"unavailable", "refused"} /\ UNCHANGED bucket

Serve ==
  /\ pc \in Request /\ reply = "none"
  /\ ServePut \/ ServeCreate \/ ServePart \/ ServeComplete \/ ServeAbort \/ Refuse
  /\ UNCHANGED <<client, attempt, pc>>

Client ==
  \/ Retry
  \/ OnPut
  \/ OnCreated
  \/ Reject
  \/ Pull
  \/ Copy
  \/ LastPart
  \/ OnPart
  \/ Complete
  \/ OnComplete
  \/ Discard
  \/ OnAbort

Next == Client \/ Serve

Spec == Init /\ [][Next]_vars

\* The event loop runs, and every request is answered or fails.
FairSpec == Spec /\ WF_vars(Client) /\ WF_vars(Serve)

-----------------------------------------------------------------------------
(* Properties.                                                             *)

Contract == INSTANCE UploadContract WITH
  Absent  <- {Old},
  payload <- {Payload},
  object  <- {object},
  outcome <- IF pc \in {"done", "failed"} THEN pc ELSE "pending"

\* However the body is cut into parts and requests are lost, refused and sent
\* again, the key holds the old object or the whole new one, and an upload
\* that succeeds has replaced it.
ImplementsContract == Contract!USpec

\* A settled upload leaves no parts behind, unless the abort itself got no
\* good answer, or an answer to the creation was lost: one upload for each.
Tidy ==
  pc \in {"done", "failed"} =>
    /\ upload \in DOMAIN pending => pc = "failed" /\ GivenUp
    /\ Cardinality(DOMAIN pending) <= MaxRetries + 1
    /\ upload # 0 => \A u \in DOMAIN pending : u <= upload

\* Every upload settles: the retries of each request are counted.
Settles == <>(pc \in {"done", "failed"})

===============================================================================
