------------------------- MODULE ChunkedUploadProofs -------------------------
(***************************************************************************)
(* ChunkedUpload keeps to the bytes of its payload and to UploadContract,  *)
(* for every payload, chunk size, number of retries, and server.           *)
(***************************************************************************)
EXTENDS ChunkedUpload, SequenceTheorems, TLAPS

USE ChunkSizeAssumption, RetriesAssumption, LengthsAssumption, PartialAssumption

-----------------------------------------------------------------------------
(* What a PUT whose body is a run of consecutive bytes does to a session   *)
(* that holds a prefix of the payload.                                     *)

\* A body that holds the bytes first+1, first+2, ... of the payload.
Consecutive(body, first) ==
  body \in Seq(Nat) /\ \A i \in 1..Len(body) : body[i] = first + i

\* The payload is its own numbering.
LEMMA PayloadFacts ==
  ASSUME NEW n \in Nat
  PROVE  /\ Payload(n) \in Seq(Nat)
         /\ Len(Payload(n)) = n
         /\ \A i \in 1..n : Payload(n)[i] = i
<1>1. Payload(n) \in [1..n -> Nat]
  BY DEF Payload
<1>2. Payload(n) \in Seq(Nat)
  BY <1>1
<1>3. DOMAIN Payload(n) = 1..n
  BY DEF Payload
<1>4. Len(Payload(n)) = n
  BY <1>2, <1>3, LenProperties
<1> QED  BY <1>2, <1>4 DEF Payload

\* A slice of the payload is such a body.
LEMMA Slice ==
  ASSUME NEW n \in Nat, NEW first \in 0..n, NEW end \in first..n
  PROVE  /\ Consecutive(SubSeq(Payload(n), first + 1, end), first)
         /\ Len(SubSeq(Payload(n), first + 1, end)) = end - first
<1> DEFINE body == SubSeq(Payload(n), first + 1, end)
<1>1. \A i \in (first + 1)..end : Payload(n)[i] = i /\ Payload(n)[i] \in Nat
  BY PayloadFacts
<1>2. /\ body \in Seq(Nat)
      /\ Len(body) = IF first + 1 <= end THEN end - (first + 1) + 1 ELSE 0
      /\ \A i \in 1..(end - (first + 1) + 1) :
           body[i] = Payload(n)[(first + 1) + i - 1]
  <2> HIDE DEF body
  <2>1. first + 1 \in Int /\ end \in Int
    OBVIOUS
  <2> QED  BY ONLY <1>1, <2>1, SubSeqProperties DEF body
<1>3. Len(body) = end - first
  BY <1>2
<1>4. \A i \in 1..Len(body) : body[i] = first + i
  <2> TAKE i \in 1..Len(body)
  <2>1. body[i] = Payload(n)[(first + 1) + i - 1]
    BY <1>2, <1>3
  <2>2. (first + 1) + i - 1 = first + i /\ first + i \in (first + 1)..end
    BY <1>3
  <2> QED  BY <1>1, <2>1, <2>2
<1> QED  BY <1>2, <1>3, <1>4 DEF Consecutive

\* What the session has of a body is passed over, the rest is appended.
LEMMA Splice ==
  ASSUME NEW s \in Nat, NEW first \in 0..s, NEW body, Consecutive(body, first),
         NEW c \in s..(IF first + Len(body) > s THEN first + Len(body) ELSE s)
  PROVE  Payload(s) \o SubSeq(body, s - first + 1, c - first) = Payload(c)
<1> DEFINE tail == SubSeq(body, s - first + 1, c - first)
<1>0. Len(body) \in Nat
  BY LenProperties DEF Consecutive
<1>1. CASE c = s
  <2>1. tail = <<>>
    <3>1. s - first + 1 \in Int /\ c - first \in Int /\ c - first < s - first + 1
      BY <1>1
    <3> QED  BY ONLY <3>1, SubSeqEmpty
  <2> QED  BY <1>1, <2>1, PayloadFacts, ConcatEmptySeq
<1>2. CASE c > s
  <2>1. c \in Nat /\ c <= first + Len(body)
    BY <1>0, <1>2
  <2>2. \A i \in (s - first + 1)..(c - first) :
          i \in 1..Len(body) /\ body[i] = first + i /\ body[i] \in Nat
    BY <1>0, <2>1 DEF Consecutive
  <2>3. /\ tail \in Seq(Nat)
        /\ Len(tail) = c - s
        /\ \A i \in 1..(c - s) : tail[i] = s + i
    <3>1. /\ s - first + 1 \in Int /\ c - first \in Int
          /\ \A i \in (s - first + 1)..(c - first) : body[i] \in Nat
      BY <2>1, <2>2
    <3>2. PICK lo \in Int, hi \in Int : lo = s - first + 1 /\ hi = c - first
      BY <3>1
    <3>3. tail = SubSeq(body, lo, hi)
      BY <3>2
    <3>4. \A i \in lo..hi : body[i] = first + i /\ body[i] \in Nat
      BY <2>2, <3>2
    <3> HIDE DEF tail
    <3>5. /\ SubSeq(body, lo, hi) \in Seq(Nat)
          /\ Len(SubSeq(body, lo, hi)) = IF lo <= hi THEN hi - lo + 1 ELSE 0
          /\ \A i \in 1..(hi - lo + 1) : SubSeq(body, lo, hi)[i] = body[lo + i - 1]
      BY ONLY <3>4, SubSeqProperties
    <3>6. lo <= hi /\ hi - lo + 1 = c - s
      BY <1>2, <2>1, <3>2
    <3>7. ASSUME NEW i \in 1..(c - s)  PROVE tail[i] = s + i
      <4>1. lo + i - 1 \in lo..hi /\ first + (lo + i - 1) = s + i
        BY <2>1, <3>2, <3>6
      <4>2. tail[i] = body[lo + i - 1]
        BY <3>3, <3>5, <3>6
      <4> QED  BY <3>4, <4>1, <4>2
    <3>8. tail \in Seq(Nat) /\ Len(tail) = c - s
      BY <3>3, <3>5, <3>6
    <3> QED  BY <3>7, <3>8
  <2> HIDE DEF tail
  <2> DEFINE head  == Payload(s)
             whole == head \o tail
  <2>4. /\ whole \in Seq(Nat)
        /\ Len(whole) = c
        /\ \A i \in 1..c : whole[i] = IF i <= s THEN i ELSE tail[i - s]
    <3>1. head \in Seq(Nat) /\ Len(head) = s /\ \A i \in 1..s : head[i] = i
      BY PayloadFacts
    <3>2. s + (c - s) = c
      BY <2>1
    <3>3. tail \in Seq(Nat)
      BY <2>3
    <3> HIDE DEF head
    <3>4. /\ whole \in Seq(Nat)
          /\ Len(whole) = Len(head) + Len(tail)
          /\ \A i \in 1..(Len(head) + Len(tail)) :
               whole[i] = IF i <= Len(head) THEN head[i] ELSE tail[i - Len(head)]
      BY ONLY <3>1, <3>3, ConcatProperties
    <3>5. Len(head) + Len(tail) = c
      BY <2>3, <3>1, <3>2
    <3> HIDE DEF whole
    <3> QED  BY <2>1, <3>1, <3>4, <3>5
  <2>5. \A i \in 1..c : whole[i] = i
    <3> HIDE DEF whole
    <3> TAKE i \in 1..c
    <3>1. CASE i <= s
      BY <2>4, <3>1
    <3>2. CASE i > s
      <4>1. i - s \in 1..(c - s) /\ s + (i - s) = i
        BY <2>1, <3>2
      <4> QED  BY <2>3, <2>4, <3>2, <4>1
    <3> QED  BY <2>1, <3>1, <3>2
  <2>6. Payload(c) \in Seq(Nat) /\ Len(Payload(c)) = c /\ \A i \in 1..c : Payload(c)[i] = i
    BY <2>1, PayloadFacts
  <2> HIDE DEF whole
  <2>7. whole = Payload(c)
    BY <2>4, <2>5, <2>6, SeqEqual
  <2> QED  BY <2>7 DEF whole, tail
<1>3. c = s \/ c > s
  BY <1>0
<1> HIDE DEF tail
<1> QED  BY <1>1, <1>2, <1>3 DEF tail

\* What a PUT of consecutive bytes can do to a session that holds a prefix.
LEMMA CommitPrefix ==
  ASSUME NEW first \in Nat, NEW body, Consecutive(body, first), NEW total,
         Len(stored) \in Nat, stored = Payload(Len(stored)),
         Commit(first, body, total)
  PROVE  \E c \in Nat :
           /\ Len(stored) <= c
           /\ c <= Len(stored) \/ c <= first + Len(body)
           /\ ~PartialCommits => c = Len(stored) \/ c = first + Len(body)
           /\ ~PartialCommits => first + Len(body) <= c
           /\ stored' = Payload(c) /\ Len(stored') = c
           /\ finished' = (c \in total)
           /\ reply' \in {IF c \in total THEN Created ELSE Incomplete(c), Failure}
<1>0. Len(body) \in Nat
  BY LenProperties DEF Consecutive
<1>1. first <= Len(stored)
  BY DEF Commit
<1>2. PICK c \in Reach(first + Len(body)) :
        /\ stored' = stored \o SubSeq(body, Len(stored) - first + 1, c - first)
        /\ finished' = (c \in total)
        /\ Respond(IF c \in total THEN Created ELSE Incomplete(c))
  BY DEF Commit
<1>3. /\ c \in Nat /\ Len(stored) <= c
      /\ c <= Len(stored) \/ c <= first + Len(body)
      /\ ~PartialCommits => c = Len(stored) \/ c = first + Len(body)
      /\ ~PartialCommits => first + Len(body) <= c
  BY <1>0, <1>2 DEF Reach
<1>4. c \in Len(stored)..(IF first + Len(body) > Len(stored)
                            THEN first + Len(body) ELSE Len(stored))
  BY <1>0, <1>3
<1>5. first \in 0..Len(stored)
  BY <1>1
<1>6. Payload(Len(stored)) \o SubSeq(body, Len(stored) - first + 1, c - first) = Payload(c)
  BY <1>4, <1>5, Splice
<1>7. stored' = Payload(c) /\ Len(stored') = c
  BY <1>2, <1>3, <1>6, PayloadFacts
<1> QED  BY <1>2, <1>3, <1>7 DEF Respond

-----------------------------------------------------------------------------
(* The invariant and its steps.                                            *)

\* An answer that has arrived still describes the session.
AnswerInv ==
  /\ reply.status = "incomplete" => reply.range = Len(stored)
  /\ reply.status = "created" => finished

\* Where the client believes the session is.
RequestInv ==
  /\ pc = "open" => stored = <<>> /\ offset = 0
  /\ pc = "next" => offset = Len(stored) \/ stored = <<>>
  /\ pc = "empty" => length = 0
  /\ pc = "wait" => request.first <= request.end /\ attempt > 0

IInv ==
  /\ TypeOK
  /\ PrefixOnly
  /\ Len(stored) \in 0..length
  /\ AnswerInv
  /\ RequestInv
  /\ InStep

LEMMA EmptyPayload == Payload(0) = <<>> /\ Len(<<>>) = 0
<1>1. Payload(0) \in Seq(Nat) /\ Len(Payload(0)) = 0
  BY PayloadFacts
<1> QED  BY <1>1, EmptySeq

LEMMA InitIInv == Init => IInv
<1> SUFFICES ASSUME Init PROVE IInv
  OBVIOUS
<1> USE DEF Init, SessionInit
<1>1. length \in Nat /\ stored = <<>> /\ Len(stored) = 0 /\ stored = Payload(0)
  BY EmptyPayload
<1>2. TypeOK
  <2>0. finished \in BOOLEAN
    OBVIOUS
  <2>1. stored \in Seq(Nat)
    BY <1>1, PayloadFacts
  <2>2. reply \in Replies
    BY DEF NoReply, Replies
  <2>3. request \in [first : 0..length, end : 0..length] /\ offset \in 0..length
    BY <1>1
  <2>4. length \in Lengths /\ attempt \in 0..(MaxRetries + 1) /\ pc \in PC
    BY DEF PC
  <2> QED  BY <2>0, <2>1, <2>2, <2>3, <2>4 DEF TypeOK
<1>3. PrefixOnly /\ InStep
  BY <1>1 DEF PrefixOnly, InStep
<1>4. AnswerInv /\ RequestInv
  BY DEF AnswerInv, RequestInv, NoReply
<1> QED  BY <1>1, <1>2, <1>3, <1>4 DEF IInv

-----------------------------------------------------------------------------
(* The server's step.                                                      *)

\* The session grows, within the request, and what it answers is so.
LEMMA ServeEffect ==
  ASSUME IInv, Serve
  PROVE  /\ stored' = Payload(Len(stored'))
         /\ Len(stored') \in Len(stored)..length
         /\ finished \in BOOLEAN /\ finished' \in BOOLEAN
         /\ finished => finished' /\ stored' = stored
         /\ finished' => Len(stored') = length
         /\ reply' \in {Failure, Created, Incomplete(Len(stored'))}
         /\ reply' = Created => finished'
<1> USE DEF IInv, TypeOK
<1>0. length \in Nat /\ Len(stored) \in Nat /\ Len(stored) <= length
  OBVIOUS
<1>1. request.first \in 0..length /\ request.end \in request.first..length
  BY <1>0 DEF Serve, RequestInv
<1>2. Consecutive(Body, request.first) /\ Len(Body) = request.end - request.first
  BY <1>0, <1>1, Slice DEF Body
<1>3. request.first + Len(Body) = request.end
  BY <1>0, <1>1, <1>2
<1>4. CASE Commit(request.first, Body, {length})
  <2>1. stored = Payload(Len(stored)) /\ request.first \in Nat
    BY <1>1 DEF PrefixOnly
  <2>2. PICK c \in Nat :
          /\ Len(stored) <= c
          /\ c <= Len(stored) \/ c <= request.first + Len(Body)
          /\ stored' = Payload(c) /\ Len(stored') = c
          /\ finished' = (c \in {length})
          /\ reply' \in {IF c \in {length} THEN Created ELSE Incomplete(c), Failure}
    BY <1>0, <1>2, <1>4, <2>1, CommitPrefix
  <2>3. c <= length
    BY <1>0, <1>1, <1>3, <2>2
  <2>4. ~finished
    BY <1>4 DEF Commit
  <2>5. Created # Incomplete(c) /\ Created # Failure
    BY DEF Created, Incomplete, Failure
  <2>6. reply' = Created => finished'
    BY <2>2, <2>5
  <2> QED  BY <1>0, <2>2, <2>3, <2>4, <2>6
<1>5. CASE Replay
  BY <1>0, <1>5 DEF Replay, Respond, PrefixOnly
<1>6. CASE Refuse
  BY <1>0, <1>6 DEF Refuse, PrefixOnly, Created, Failure
<1> QED  BY <1>4, <1>5, <1>6 DEF Serve, Put

LEMMA ServeStep ==
  ASSUME IInv, Serve
  PROVE  IInv'
<1> USE DEF IInv
<1>0. /\ pc \in {"empty", "wait"}
      /\ UNCHANGED <<length, offset, request, attempt, pc>>
      /\ length \in Nat
  BY DEF Serve, clientVars, TypeOK
<1>1. Len(stored') \in Nat /\ Len(stored') \in 0..length
  BY <1>0, ServeEffect
<1>2. stored' \in Seq(Nat) /\ reply' \in Replies /\ reply' # NoReply
  BY <1>1, ServeEffect, PayloadFacts
     DEF Replies, Failure, Created, Incomplete, NoReply
<1>3. TypeOK'
  BY <1>0, <1>2, ServeEffect DEF TypeOK
<1>4. PrefixOnly' /\ InStep'
  BY <1>0, <1>2, ServeEffect DEF PrefixOnly, InStep
<1>5. AnswerInv'
  BY ServeEffect DEF AnswerInv, Failure, Created, Incomplete
<1>6. RequestInv'
  BY <1>0 DEF RequestInv
<1> QED  BY <1>0, <1>1, <1>3, <1>4, <1>5, <1>6

-----------------------------------------------------------------------------
(* The client's steps.                                                     *)

\* A step that neither touches the session nor sends a PUT.
LEMMA QuietStep ==
  ASSUME IInv, UNCHANGED <<sessionVars, length, request, attempt>>,
         pc' \in {"next", "done", "failed"}, offset' \in 0..length,
         pc' = "next" => offset' = Len(stored) \/ stored = <<>>
  PROVE  IInv'
<1> USE DEF IInv, sessionVars
<1>1. TypeOK'
  BY DEF TypeOK, PC
<1>2. PrefixOnly' /\ AnswerInv'
  BY DEF PrefixOnly, AnswerInv
<1>3. RequestInv' /\ InStep'
  BY DEF RequestInv, InStep
<1> QED  BY <1>1, <1>2, <1>3

\* A step that sends a PUT.
LEMMA SendStep ==
  ASSUME IInv, UNCHANGED <<stored, finished, length, offset>>,
         NEW first \in 0..length, NEW end \in first..length,
         NEW n \in 1..(MaxRetries + 1), Try([first |-> first, end |-> end], n),
         pc' \in {"empty", "wait"},
         pc' = "empty" => length = 0,
         n = 1 => first = Len(stored) \/ stored = <<>>
  PROVE  IInv'
<1> USE DEF IInv, Try
<1>0. length \in Nat
  BY DEF TypeOK
<1>1. TypeOK'
  BY <1>0 DEF TypeOK, PC, NoReply, Replies
<1>2. PrefixOnly' /\ AnswerInv'
  BY DEF PrefixOnly, AnswerInv, NoReply
<1>3. RequestInv' /\ InStep'
  BY DEF RequestInv, InStep
<1> QED  BY <1>1, <1>2, <1>3

LEMMA ClientStep ==
  ASSUME IInv, Client
  PROVE  IInv'
<1>0. length \in Nat /\ offset \in 0..length /\ Len(stored) \in 0..length
  BY DEF IInv, TypeOK
<1>1. CASE OpenSession
  BY <1>0, <1>1, QuietStep DEF OpenSession, IInv, RequestInv
<1>2. CASE NextChunk
  <2> DEFINE end == IF offset + ChunkSize < length THEN offset + ChunkSize ELSE length
  <2>1. end \in offset..length
    BY <1>0, <1>2 DEF NextChunk
  <2>2. offset = Len(stored) \/ stored = <<>>
    BY <1>2 DEF NextChunk, IInv, RequestInv
  <2>3. 1 \in 1..(MaxRetries + 1)
    OBVIOUS
  <2>4. Try([first |-> offset, end |-> end], 1) /\ pc' = "wait"
        /\ UNCHANGED <<stored, finished, length, offset>>
    BY <1>2 DEF NextChunk
  <2> HIDE DEF end
  <2> QED  BY <1>0, <2>1, <2>2, <2>3, <2>4, SendStep
<1>3. CASE LoopEnds
  BY <1>0, <1>3, QuietStep DEF LoopEnds
<1>4. CASE PutEmpty
  <2>1. 0 \in 0..length /\ 0 \in 0..0 /\ length = 0 /\ 1 \in 1..(MaxRetries + 1)
    BY <1>0, <1>4 DEF PutEmpty
  <2>2. stored = <<>>
    BY <1>0, <2>1, EmptyPayload DEF IInv, PrefixOnly
  <2>3. Try([first |-> 0, end |-> 0], 1) /\ pc' = "empty"
        /\ UNCHANGED <<stored, finished, length, offset>>
    BY <1>4 DEF PutEmpty
  <2> QED  BY <2>1, <2>2, <2>3, SendStep
<1>5. CASE OnEmpty
  BY <1>0, <1>5, QuietStep DEF OnEmpty
<1>6. CASE OnIncomplete
  <2>1. reply.range = Len(stored)
    BY <1>6 DEF OnIncomplete, IInv, AnswerInv
  <2>2. request.end \in 0..length
    BY DEF IInv, TypeOK
  <2>3. offset' = IF reply.range > 0 THEN reply.range ELSE request.end
    BY <1>6 DEF OnIncomplete
  <2>4. Len(stored) = 0 => stored = <<>>
    BY EmptyPayload DEF IInv, PrefixOnly
  <2>5. offset' \in 0..length /\ (offset' = Len(stored) \/ stored = <<>>)
    BY <1>0, <2>1, <2>2, <2>3, <2>4
  <2> QED  BY <1>6, <2>5, QuietStep DEF OnIncomplete
<1>7. CASE OnCreated
  BY <1>0, <1>7, QuietStep DEF OnCreated
<1>8. CASE Retry
  <2>1. /\ request = [first |-> request.first, end |-> request.end]
        /\ request.first \in 0..length /\ request.end \in 0..length
        /\ attempt \in Nat
    BY <1>0 DEF IInv, TypeOK
  <2>2. request.end \in request.first..length /\ attempt > 0
    BY <1>0, <1>8, <2>1 DEF Retry, IInv, RequestInv
  <2>3. attempt + 1 \in 1..(MaxRetries + 1) /\ attempt + 1 # 1
    BY <1>8, <2>1, <2>2 DEF Retry
  <2>4. /\ Try([first |-> request.first, end |-> request.end], attempt + 1)
        /\ pc' = "wait" /\ UNCHANGED <<stored, finished, length, offset>>
    BY <1>8, <2>1 DEF Retry
  <2> QED  BY <2>1, <2>2, <2>3, <2>4, SendStep
<1>9. CASE GiveUp
  BY <1>0, <1>9, QuietStep DEF GiveUp
<1> QED
  BY <1>1, <1>2, <1>3, <1>4, <1>5, <1>6, <1>7, <1>8, <1>9 DEF Client

LEMMA Inductive == Spec => []IInv
<1>1. IInv /\ [Next]_vars => IInv'
  <2> SUFFICES ASSUME IInv, [Next]_vars PROVE IInv'
    OBVIOUS
  <2>1. CASE Client
    BY <2>1, ClientStep
  <2>2. CASE Serve
    BY <2>2, ServeStep
  <2>3. CASE UNCHANGED vars
    BY <2>3 DEF vars, IInv, TypeOK, PrefixOnly, AnswerInv, RequestInv, InStep
  <2> QED  BY <2>1, <2>2, <2>3 DEF Next
<1> QED  BY InitIInv, <1>1, PTL DEF Spec

-----------------------------------------------------------------------------
(* The results.                                                            *)

\* The uploader's state keeps its shape, and no PUT is sent more than
\* MaxRetries times again.
THEOREM ChunkedTypeOK == Spec => []TypeOK
<1>1. IInv => TypeOK
  BY DEF IInv
<1> QED  BY <1>1, Inductive, PTL

\* Sending a range again never corrupts the session: it holds a prefix of the
\* payload, and the file is the payload.
THEOREM ChunkedPrefixOnly == Spec => []PrefixOnly
<1>1. IInv => PrefixOnly
  BY DEF IInv
<1> QED  BY <1>1, Inductive, PTL

\* The first PUT of a chunk starts where the session ends, unless the session
\* holds nothing.
THEOREM ChunkedInStep == Spec => []InStep
<1>1. IInv => InStep
  BY DEF IInv
<1> QED  BY <1>1, Inductive, PTL

\* The file appears once and whole, and an upload that is not empty succeeds
\* only with it there.
THEOREM ChunkedKeepsContract == Spec => KeepsContract
<1>1. Init => Contract!UInit
  BY DEF Init, SessionInit, Contract!UInit
<1>2. IInv /\ [Next]_vars
        => [length > 0 => Contract!UNext \/ UNCHANGED Contract!uvars]_vars
  <2> SUFFICES ASSUME IInv, Next, length > 0
               PROVE  Contract!UNext \/ UNCHANGED Contract!uvars
    OBVIOUS
  <2> USE DEF Contract!UNext, Contract!uvars
  <2>1. CASE UNCHANGED <<length, stored, finished>> /\ pc \notin {"done", "failed"}
             /\ pc' \notin {"done", "failed"}
    BY <2>1
  <2>2. CASE UNCHANGED <<length, stored, finished>> /\ pc \notin {"done", "failed"}
             /\ pc' = "failed"
    BY <2>2 DEF Contract!GiveUp
  <2>3. CASE OnCreated /\ pc' = "done"
    <3>1. finished /\ stored = Payload(length)
      BY <2>3 DEF OnCreated, IInv, AnswerInv, PrefixOnly
    <3>2. UNCHANGED <<length, stored, finished>> /\ pc = "wait"
      BY <2>3 DEF OnCreated, sessionVars
    <3> QED  BY <2>3, <3>1, <3>2 DEF Contract!Succeed
  <2>4. CASE Serve
    <3>1. length' = length /\ pc' = pc /\ pc \notin {"done", "failed"}
      BY <2>4 DEF Serve, clientVars
    <3>2. CASE ~finished /\ finished'
      <4>1. stored' = Payload(length)
        BY <2>4, <3>2, ServeEffect
      <4> QED  BY <3>1, <3>2, <4>1 DEF Contract!Publish
    <3>3. CASE finished \/ ~finished'
      <4>1. (finished /\ finished' /\ stored' = stored) \/ (~finished /\ ~finished')
        BY <2>4, <3>3, ServeEffect
      <4> QED  BY <3>1, <4>1
    <3> QED  BY <3>2, <3>3
  <2>5. CASE Client
    <3>1. ~PutEmpty /\ ~OnEmpty
      BY DEF PutEmpty, OnEmpty, IInv, RequestInv
    <3> USE DEF sessionVars
    <3>2. CASE OpenSession
      BY <2>1, <2>2, <3>2 DEF OpenSession
    <3>3. CASE NextChunk
      BY <2>1, <3>3 DEF NextChunk
    <3>4. CASE LoopEnds
      BY <2>2, <3>4 DEF LoopEnds
    <3>5. CASE OnIncomplete
      BY <2>1, <2>2, <3>5 DEF OnIncomplete
    <3>6. CASE OnCreated
      BY <2>2, <2>3, <3>6 DEF OnCreated
    <3>7. CASE Retry
      BY <2>1, <3>7 DEF Retry
    <3>8. CASE GiveUp
      BY <2>2, <3>8 DEF GiveUp
    <3> QED  BY <2>5, <3>1, <3>2, <3>3, <3>4, <3>5, <3>6, <3>7, <3>8 DEF Client
  <2> QED  BY <2>4, <2>5 DEF Next
<1> QED
  BY <1>1, <1>2, Inductive, PTL DEF KeepsContract, Spec

=============================================================================
