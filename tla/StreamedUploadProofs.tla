------------------------ MODULE StreamedUploadProofs ------------------------
(***************************************************************************)
(* StreamedUpload brings every byte of its source to a server that keeps   *)
(* whole bodies, for every source, however it is cut, and every size of    *)
(* the buffers.                                                            *)
(***************************************************************************)
EXTENDS StreamedUpload, SequenceTheorems, TLAPS

USE AlignedAssumption, LengthsAssumption, PartialAssumption

-----------------------------------------------------------------------------
(* What a PUT whose body is a run of consecutive bytes does to a session   *)
(* that holds a prefix of the payload.                                     *)

\* A body that holds the bytes first+1, first+2, ... of the payload.
Consecutive(body, first) ==
  body \in Seq(Nat) /\ \A i \in 1..Len(body) : body[i] = first + i

\* The payload is its own numbering.
LEMMA PayloadFacts ==
  ASSUME NEW n \in Nat
  PROVE  /\ Payload(n) \in Seq(Nat)
         /\ Len(Payload(n)) = n
         /\ \A i \in 1..n : Payload(n)[i] = i
<1>1. Payload(n) \in [1..n -> Nat]
  BY DEF Payload
<1>2. Payload(n) \in Seq(Nat)
  BY <1>1
<1>3. DOMAIN Payload(n) = 1..n
  BY DEF Payload
<1>4. Len(Payload(n)) = n
  BY <1>2, <1>3, LenProperties
<1> QED  BY <1>2, <1>4 DEF Payload

\* What the session has of a body is passed over, the rest is appended.
LEMMA Splice ==
  ASSUME NEW s \in Nat, NEW first \in 0..s, NEW body, Consecutive(body, first),
         NEW c \in s..(IF first + Len(body) > s THEN first + Len(body) ELSE s)
  PROVE  Payload(s) \o SubSeq(body, s - first + 1, c - first) = Payload(c)
<1> DEFINE tail == SubSeq(body, s - first + 1, c - first)
<1>0. Len(body) \in Nat
  BY LenProperties DEF Consecutive
<1>1. CASE c = s
  <2>1. tail = <<>>
    <3>1. s - first + 1 \in Int /\ c - first \in Int /\ c - first < s - first + 1
      BY <1>1
    <3> QED  BY ONLY <3>1, SubSeqEmpty
  <2> QED  BY <1>1, <2>1, PayloadFacts, ConcatEmptySeq
<1>2. CASE c > s
  <2>1. c \in Nat /\ c <= first + Len(body)
    BY <1>0, <1>2
  <2>2. \A i \in (s - first + 1)..(c - first) :
          i \in 1..Len(body) /\ body[i] = first + i /\ body[i] \in Nat
    BY <1>0, <2>1 DEF Consecutive
  <2>3. /\ tail \in Seq(Nat)
        /\ Len(tail) = c - s
        /\ \A i \in 1..(c - s) : tail[i] = s + i
    <3>1. /\ s - first + 1 \in Int /\ c - first \in Int
          /\ \A i \in (s - first + 1)..(c - first) : body[i] \in Nat
      BY <2>1, <2>2
    <3>2. PICK lo \in Int, hi \in Int : lo = s - first + 1 /\ hi = c - first
      BY <3>1
    <3>3. tail = SubSeq(body, lo, hi)
      BY <3>2
    <3>4. \A i \in lo..hi : body[i] = first + i /\ body[i] \in Nat
      BY <2>2, <3>2
    <3> HIDE DEF tail
    <3>5. /\ SubSeq(body, lo, hi) \in Seq(Nat)
          /\ Len(SubSeq(body, lo, hi)) = IF lo <= hi THEN hi - lo + 1 ELSE 0
          /\ \A i \in 1..(hi - lo + 1) : SubSeq(body, lo, hi)[i] = body[lo + i - 1]
      BY ONLY <3>4, SubSeqProperties
    <3>6. lo <= hi /\ hi - lo + 1 = c - s
      BY <1>2, <2>1, <3>2
    <3>7. ASSUME NEW i \in 1..(c - s)  PROVE tail[i] = s + i
      <4>1. lo + i - 1 \in lo..hi /\ first + (lo + i - 1) = s + i
        BY <2>1, <3>2, <3>6
      <4>2. tail[i] = body[lo + i - 1]
        BY <3>3, <3>5, <3>6
      <4> QED  BY <3>4, <4>1, <4>2
    <3>8. tail \in Seq(Nat) /\ Len(tail) = c - s
      BY <3>3, <3>5, <3>6
    <3> QED  BY <3>7, <3>8
  <2> HIDE DEF tail
  <2> DEFINE head  == Payload(s)
             whole == head \o tail
  <2>4. /\ whole \in Seq(Nat)
        /\ Len(whole) = c
        /\ \A i \in 1..c : whole[i] = IF i <= s THEN i ELSE tail[i - s]
    <3>1. head \in Seq(Nat) /\ Len(head) = s /\ \A i \in 1..s : head[i] = i
      BY PayloadFacts
    <3>2. s + (c - s) = c
      BY <2>1
    <3>3. tail \in Seq(Nat)
      BY <2>3
    <3> HIDE DEF head
    <3>4. /\ whole \in Seq(Nat)
          /\ Len(whole) = Len(head) + Len(tail)
          /\ \A i \in 1..(Len(head) + Len(tail)) :
               whole[i] = IF i <= Len(head) THEN head[i] ELSE tail[i - Len(head)]
      BY ONLY <3>1, <3>3, ConcatProperties
    <3>5. Len(head) + Len(tail) = c
      BY <2>3, <3>1, <3>2
    <3> HIDE DEF whole
    <3> QED  BY <2>1, <3>1, <3>4, <3>5
  <2>5. \A i \in 1..c : whole[i] = i
    <3> HIDE DEF whole
    <3> TAKE i \in 1..c
    <3>1. CASE i <= s
      BY <2>4, <3>1
    <3>2. CASE i > s
      <4>1. i - s \in 1..(c - s) /\ s + (i - s) = i
        BY <2>1, <3>2
      <4> QED  BY <2>3, <2>4, <3>2, <4>1
    <3> QED  BY <2>1, <3>1, <3>2
  <2>6. Payload(c) \in Seq(Nat) /\ Len(Payload(c)) = c /\ \A i \in 1..c : Payload(c)[i] = i
    BY <2>1, PayloadFacts
  <2> HIDE DEF whole
  <2>7. whole = Payload(c)
    BY <2>4, <2>5, <2>6, SeqEqual
  <2> QED  BY <2>7 DEF whole, tail
<1>3. c = s \/ c > s
  BY <1>0
<1> HIDE DEF tail
<1> QED  BY <1>1, <1>2, <1>3 DEF tail

\* What a PUT of consecutive bytes can do to a session that holds a prefix.
LEMMA CommitPrefix ==
  ASSUME NEW first \in Nat, NEW body, Consecutive(body, first), NEW total,
         Len(stored) \in Nat, stored = Payload(Len(stored)),
         Commit(first, body, total)
  PROVE  \E c \in Nat :
           /\ Len(stored) <= c
           /\ c <= Len(stored) \/ c <= first + Len(body)
           /\ ~PartialCommits => c = Len(stored) \/ c = first + Len(body)
           /\ ~PartialCommits => first + Len(body) <= c
           /\ stored' = Payload(c) /\ Len(stored') = c
           /\ finished' = (c \in total)
           /\ reply' \in {IF c \in total THEN Created ELSE Incomplete(c), Failure}
<1>0. Len(body) \in Nat
  BY LenProperties DEF Consecutive
<1>1. first <= Len(stored)
  BY DEF Commit
<1>2. PICK c \in Reach(first + Len(body)) :
        /\ stored' = stored \o SubSeq(body, Len(stored) - first + 1, c - first)
        /\ finished' = (c \in total)
        /\ Respond(IF c \in total THEN Created ELSE Incomplete(c))
  BY DEF Commit
<1>3. /\ c \in Nat /\ Len(stored) <= c
      /\ c <= Len(stored) \/ c <= first + Len(body)
      /\ ~PartialCommits => c = Len(stored) \/ c = first + Len(body)
      /\ ~PartialCommits => first + Len(body) <= c
  BY <1>0, <1>2 DEF Reach
<1>4. c \in Len(stored)..(IF first + Len(body) > Len(stored)
                            THEN first + Len(body) ELSE Len(stored))
  BY <1>0, <1>3
<1>5. first \in 0..Len(stored)
  BY <1>1
<1>6. Payload(Len(stored)) \o SubSeq(body, Len(stored) - first + 1, c - first) = Payload(c)
  BY <1>4, <1>5, Splice
<1>7. stored' = Payload(c) /\ Len(stored') = c
  BY <1>2, <1>3, <1>6, PayloadFacts
<1> QED  BY <1>2, <1>3, <1>7 DEF Respond

-----------------------------------------------------------------------------
(* The invariant and its steps.                                            *)

\* The first n bytes of a buffer are those of the source after from.
Run(b, n, from) == \A i \in 1..n : buffers[b][i] = from + i

HeldLength == IF held = "none" THEN 0 ELSE Aligned

\* The session holds a prefix, and only the last PUT makes it a file.
SessionInv ==
  /\ stored = Payload(Len(stored)) /\ Len(stored) \in 0..length
  /\ finished => Len(stored) = length /\ pc \in {"last", "done", "failed"}
  /\ resource => finished
  /\ pc = "done" => finished

\* What was taken from the source and not yet acknowledged is in the held
\* buffer and, behind it, in the current one.
BufferInv ==
  pc \notin {"last", "done", "failed"} =>
    /\ held # current
    /\ consumed = offset + HeldLength + filled
    /\ Run(current, filled, offset + HeldLength)
    /\ held # "none" => Run(held, Aligned, offset)
    /\ held = "none" => offset = 0
    /\ pc \in {"open", "read", "fill"} => offset = Len(stored) /\ filled < Aligned

\* A PUT starts where the session ended when it was sent, and a good answer
\* means that the session has its body.
RequestInv ==
  pc \in Sending =>
    /\ request.first = offset
    /\ Run(request.buffer, request.length, offset)
    /\ Len(stored) \in {offset, offset + request.length}
    /\ reply = NoReply => Len(stored) = offset /\ ~finished
    /\ reply.status \in {"created", "incomplete"} =>
         Len(stored) = offset + request.length /\ reply.range \in {0, Len(stored)}
    /\ reply.status = "created" => finished

\* A PUT of the held buffer while there is more to send.
MiddleInv ==
  pc \in {"rotate", "tail"} =>
    /\ held # "none" /\ request.buffer = held
    /\ request.length = Aligned /\ request.total = {}
    /\ pc = "rotate" => filled = Aligned
    /\ pc = "tail" => consumed = length

\* The PUT that closes the session.
LastInv ==
  pc = "last" =>
    /\ held # current /\ consumed = length
    /\ request.total = {length} /\ offset + request.length = length
    /\ \/ request.buffer = held /\ request.length = Aligned
       \/ request.buffer = current /\ request.length = filled

IInv == TypeOK /\ SessionInv /\ BufferInv /\ RequestInv /\ MiddleInv /\ LastInv

\* The arithmetic facts that most steps need.
LEMMA Bounds ==
  ASSUME IInv
  PROVE  /\ length \in Nat /\ consumed \in Nat /\ consumed <= length
         /\ rest \in Nat /\ consumed + rest <= length
         /\ offset \in Nat /\ offset <= length /\ filled \in Nat /\ filled <= Aligned
         /\ Len(stored) \in Nat /\ Len(stored) <= length
         /\ request.length \in Nat /\ request.first \in Nat
         /\ request.length <= Aligned
  BY DEF IInv, TypeOK, SessionInv

LEMMA InitIInv == Init => IInv
<1> SUFFICES ASSUME Init  PROVE IInv
  OBVIOUS
<1> USE DEF Init, SessionInit
<1>0. length \in Nat
  OBVIOUS
<1>1. stored = Payload(0) /\ Len(stored) = 0 /\ stored \in Seq(Nat)
  <2>1. Payload(0) \in Seq(Nat) /\ Len(Payload(0)) = 0
    BY PayloadFacts
  <2> QED  BY <2>1, EmptySeq
<1>2. TypeOK
  <2>1. reply \in Replies /\ finished \in BOOLEAN /\ resource \in BOOLEAN
    BY DEF NoReply, Replies
  <2>2. buffers \in [Buffer -> [1..Aligned -> 0..length]]
    BY <1>0
  <2>3. request \in [buffer : Buffer, length : 0..Aligned, first : 0..length,
                     total : {{}} \cup {{n} : n \in 0..length}]
    BY <1>0 DEF Buffer
  <2> QED  BY <1>0, <1>1, <2>1, <2>2, <2>3 DEF TypeOK, Buffer, PC
<1>3. SessionInv
  BY <1>0, <1>1 DEF SessionInv
<1>4. BufferInv
  BY <1>1 DEF BufferInv, HeldLength, Run
<1>5. RequestInv /\ MiddleInv /\ LastInv
  BY DEF RequestInv, MiddleInv, LastInv, Sending
<1> QED  BY <1>2, <1>3, <1>4, <1>5 DEF IInv

-----------------------------------------------------------------------------
(* The server's step.                                                      *)

\* The body of a PUT is the next piece of the payload.
LEMMA BodyFacts ==
  ASSUME IInv, pc \in Sending
  PROVE  Consecutive(Body, request.first) /\ Len(Body) = request.length
<1> DEFINE array == buffers[request.buffer]
<1>1. /\ request.length \in 0..Aligned /\ request.buffer \in Buffer /\ length \in Nat
      /\ array \in [1..Aligned -> 0..length]
  BY DEF IInv, TypeOK
<1>2. \A i \in 1..request.length : array[i] = request.first + i /\ array[i] \in Nat
  BY <1>1 DEF IInv, RequestInv, Run
<1>3. PICK hi \in Int : hi = request.length /\ hi \in Nat
  BY <1>1
<1>4. \A i \in 1..hi : array[i] \in Nat
  BY <1>2, <1>3
<1> HIDE DEF array
<1>5. /\ SubSeq(array, 1, hi) \in Seq(Nat)
      /\ Len(SubSeq(array, 1, hi)) = IF 1 <= hi THEN hi - 1 + 1 ELSE 0
      /\ \A i \in 1..(hi - 1 + 1) : SubSeq(array, 1, hi)[i] = array[1 + i - 1]
  BY ONLY <1>3, <1>4, SubSeqProperties
<1>6. Body = SubSeq(array, 1, hi)
  BY <1>3 DEF Body, array
<1>7. Len(Body) = hi
  BY <1>3, <1>5, <1>6
<1>8. \A i \in 1..hi : Body[i] = request.first + i
  <2> TAKE i \in 1..hi
  <2>1. 1 + i - 1 = i /\ i \in 1..(hi - 1 + 1)
    BY <1>3
  <2> QED  BY <1>2, <1>3, <1>5, <1>6, <2>1
<1> QED  BY <1>3, <1>5, <1>6, <1>7, <1>8 DEF Consecutive

\* The session takes the whole body or none of it, and what it answers is so.
LEMMA ServeEffect ==
  ASSUME IInv, Serve, ~PartialCommits
  PROVE  /\ stored' = Payload(Len(stored'))
         /\ Len(stored') \in {offset, offset + request.length}
         /\ reply' \in Replies /\ reply' # NoReply
         /\ reply'.status \in {"created", "incomplete"} =>
              Len(stored') = offset + request.length /\ reply'.range \in {0, Len(stored')}
         /\ reply'.status = "created" => finished'
         /\ finished' => Len(stored') \in request.total
         /\ ~finished /\ finished' \in BOOLEAN
<1>0. pc \in Sending /\ reply = NoReply /\ Put(request.first, Body, request.total)
  BY DEF Serve
<1>1. /\ request.first = offset /\ Len(stored) = offset /\ ~finished
      /\ stored = Payload(Len(stored))
  BY <1>0 DEF IInv, RequestInv, SessionInv
<1>2. Consecutive(Body, request.first) /\ Len(Body) = request.length
  BY <1>0, BodyFacts
<1>3. offset \in Nat /\ request.length \in Nat /\ request.first \in Nat
  BY Bounds
<1> USE DEF NoReply, Failure, Created, Incomplete, Replies
<1>4. CASE Commit(request.first, Body, request.total)
  <2>1. Len(stored) \in Nat
    BY <1>1, <1>3
  <2>2. PICK c \in Nat :
          /\ Len(stored) <= c
          /\ c <= Len(stored) \/ c <= request.first + Len(Body)
          /\ ~PartialCommits => c = Len(stored) \/ c = request.first + Len(Body)
          /\ ~PartialCommits => request.first + Len(Body) <= c
          /\ stored' = Payload(c) /\ Len(stored') = c
          /\ finished' = (c \in request.total)
          /\ reply' \in {IF c \in request.total THEN Created ELSE Incomplete(c), Failure}
    BY <1>1, <1>2, <1>3, <1>4, <2>1, CommitPrefix
  <2>3. c = offset + request.length
    BY <1>1, <1>2, <1>3, <2>2
  <2>4. finished' \in BOOLEAN
    BY <2>2
  <2>5. /\ reply' \in Replies /\ reply' # NoReply /\ reply'.range \in {0, c}
        /\ reply'.status = "created" => c \in request.total
    BY <2>2
  <2>6. reply'.status = "created" => finished'
    BY <2>2, <2>5
  <2>7. finished' => Len(stored') \in request.total
    BY <2>2
  <2>8. Len(stored') = c /\ stored' = Payload(Len(stored'))
    BY <2>2
  <2> QED  BY ONLY <1>1, <2>3, <2>4, <2>5, <2>6, <2>7, <2>8
<1>5. CASE Refuse
  <2>1. reply' = Failure /\ stored' = stored /\ finished' = finished
    BY <1>5 DEF Refuse
  <2>2. finished' \in BOOLEAN
    BY <2>1 DEF IInv, TypeOK
  <2>3. reply' \in Replies /\ reply' # NoReply /\ reply'.status = "error"
    BY <2>1
  <2> QED  BY <1>1, <2>1, <2>2, <2>3
<1>6. ~Replay
  BY <1>1 DEF Replay
<1> QED  BY <1>0, <1>4, <1>5, <1>6 DEF Put

LEMMA ServeStep ==
  ASSUME IInv, Serve, ~PartialCommits
  PROVE  IInv'
<1>0. pc \in Sending /\ UNCHANGED clientVars
  BY DEF Serve
<1> USE DEF clientVars
<1>1. Len(stored') \in 0..length /\ stored' \in Seq(Nat)
  <2>1. offset + request.length <= length
    <3>1. CASE pc = "last"
      BY <3>1, Bounds DEF IInv, LastInv
    <3>2. CASE pc \in {"rotate", "tail"}
      <4>1. request.length = Aligned /\ consumed = offset + Aligned + filled
        BY <3>2 DEF IInv, MiddleInv, BufferInv, HeldLength
      <4>2. /\ consumed \in Nat /\ length \in Nat /\ consumed <= length
            /\ offset \in Nat /\ filled \in Nat /\ Aligned \in Nat
        BY Bounds
      <4> QED  BY ONLY <4>1, <4>2
    <3> QED  BY <1>0, <3>1, <3>2 DEF Sending
  <2>2. Len(stored') \in 0..length
    <3>1. offset \in Nat /\ request.length \in Nat /\ length \in Nat
      BY Bounds
    <3>2. Len(stored') \in {offset, offset + request.length}
      BY ServeEffect
    <3> QED  BY ONLY <2>1, <3>1, <3>2
  <2> QED  BY <2>2, Bounds, ServeEffect, PayloadFacts
<1>2. finished' => pc = "last" /\ Len(stored') = length
  BY <1>0, ServeEffect DEF IInv, MiddleInv, LastInv, Sending
<1>3. TypeOK'
  BY <1>0, <1>1, ServeEffect DEF IInv, TypeOK
<1>4. SessionInv'
  <2>1. resource' => finished'
    BY <1>0, ServeEffect DEF IInv, SessionInv
  <2> QED  BY <1>0, <1>1, <1>2, <2>1, ServeEffect DEF SessionInv, Sending
<1>5. BufferInv'
  BY <1>0 DEF IInv, BufferInv, HeldLength, Run, Sending
<1>6. RequestInv'
  BY <1>0, ServeEffect DEF IInv, RequestInv, Run
<1>7. MiddleInv' /\ LastInv'
  BY <1>0 DEF IInv, MiddleInv, LastInv
<1> QED  BY <1>3, <1>4, <1>5, <1>6, <1>7 DEF IInv

-----------------------------------------------------------------------------
(* The client's steps.                                                     *)

\* A good answer brings the offset to the end of the session.
LEMMA AdvanceEffect ==
  ASSUME IInv, pc \in Sending, Advance
  PROVE  /\ offset' = offset + request.length /\ offset' = Len(stored)
         /\ resource' \in BOOLEAN /\ (resource' => finished)
<1>1. /\ Len(stored) = offset + request.length
      /\ reply.range \in {0, Len(stored)}
      /\ reply.status = "created" => finished
  BY DEF Advance, IInv, RequestInv
<1>2. offset' = offset + request.length
  BY <1>1, Bounds DEF Advance
<1>3. resource' = (resource \/ reply.status = "created")
  BY DEF Advance
<1>4. resource' => finished
  BY <1>1, <1>3 DEF IInv, SessionInv
<1>5. resource' \in BOOLEAN
  BY <1>3
<1> QED  BY <1>1, <1>2, <1>4, <1>5

\* The upload ends.
LEMMA EndStep ==
  ASSUME IInv, pc' \in {"done", "failed"}, pc' = "done" => finished,
         UNCHANGED <<sessionVars, length, consumed, rest, buffers, current, filled,
                     held, request>>,
         offset' \in 0..length, resource' \in BOOLEAN, resource' => finished
  PROVE  IInv'
<1> USE DEF sessionVars
<1>1. TypeOK'
  BY DEF IInv, TypeOK, PC
<1>2. SessionInv'
  BY DEF IInv, SessionInv
<1> QED
  BY <1>1, <1>2 DEF IInv, BufferInv, RequestInv, MiddleInv, LastInv, Sending

\* The PUT that closes the session is sent.
LEMMA CloseStep ==
  ASSUME IInv, NEW b \in Buffer, NEW len \in 0..Aligned,
         UNCHANGED <<stored, finished, length, consumed, rest, buffers, current,
                     filled, held>>,
         offset' = Len(stored), resource' \in BOOLEAN, resource' => finished,
         Send(b, len, offset', {length}, "last"),
         ~finished, held # current, consumed = length, offset' + len = length,
         Run(b, len, offset'),
         (b = held /\ len = Aligned) \/ (b = current /\ len = filled)
  PROVE  IInv'
<1> USE DEF Send, NoReply
<1>1. TypeOK'
  <2>1. length \in Nat /\ offset' \in 0..length
    BY Bounds
  <2>2. request' \in [buffer : Buffer, length : 0..Aligned, first : 0..length,
                      total : {{}} \cup {{n} : n \in 0..length}]
    BY <2>1
  <2>3. reply' \in Replies
    BY DEF Replies
  <2> QED  BY <2>1, <2>2, <2>3 DEF IInv, TypeOK, PC, Sending
<1>2. SessionInv'
  BY DEF IInv, SessionInv
<1>3. RequestInv' /\ LastInv'
  BY DEF RequestInv, LastInv, Run
<1> QED
  BY <1>1, <1>2, <1>3 DEF IInv, BufferInv, MiddleInv

\* The source yields a chunk, or the session was opened.
LEMMA ReadStep ==
  ASSUME IInv, UNCHANGED <<sessionVars, length, consumed, buffers, current, filled,
                           held, offset, resource, request>>,
         pc \in {"open", "read"}, pc' \in {"read", "fill"},
         rest' \in 0..(length - consumed)
  PROVE  IInv'
<1> USE DEF sessionVars
<1>1. TypeOK'
  BY DEF IInv, TypeOK, PC
<1>2. SessionInv' /\ BufferInv'
  BY DEF IInv, SessionInv, BufferInv, Run, HeldLength
<1> QED
  BY <1>1, <1>2 DEF IInv, RequestInv, MiddleInv, LastInv, Sending

\* What the copy loop does to the buffers.
LEMMA CopyEffect ==
  ASSUME IInv, pc = "fill", NEW take \in 0..rest, filled + take <= Aligned,
         buffers' = Copied(take)
  PROVE  /\ buffers' \in [Buffer -> [1..Aligned -> 0..length]]
         /\ \A i \in 1..(filled + take) : buffers'[current][i] = offset + HeldLength + i
         /\ held # "none" => \A i \in 1..Aligned : buffers'[held][i] = offset + i
         /\ take \in Nat /\ consumed + take \in 0..length
         /\ rest - take \in 0..(length - (consumed + take))
<1> DEFINE array == [i \in 1..Aligned |->
                       IF i \in (filled + 1)..(filled + take) THEN consumed + i - filled
                       ELSE buffers[current][i]]
<1>0. /\ current \in Buffer /\ buffers \in [Buffer -> [1..Aligned -> 0..length]]
      /\ held \in Buffer \cup {"none"}
  BY DEF IInv, TypeOK
<1>1. /\ held # current /\ consumed = offset + HeldLength + filled
      /\ Run(current, filled, offset + HeldLength)
      /\ held # "none" => Run(held, Aligned, offset)
  BY DEF IInv, BufferInv
<1>2. /\ take \in Nat /\ consumed + take \in 0..length
      /\ rest - take \in 0..(length - (consumed + take))
  <2>1. rest \in Nat /\ consumed \in Nat /\ length \in Nat /\ consumed + rest <= length
    BY Bounds
  <2> QED  BY ONLY <2>1, take \in 0..rest
<1>3. buffers' = [buffers EXCEPT ![current] = array]
  BY DEF Copied
<1>4. array \in [1..Aligned -> 0..length]
  <2>1. ASSUME NEW i \in 1..Aligned  PROVE array[i] \in 0..length
    <3>1. buffers[current][i] \in 0..length
      BY <1>0
    <3>2. i \in (filled + 1)..(filled + take) => consumed + i - filled \in 0..length
      <4>1. consumed \in Nat /\ filled \in Nat /\ length \in Nat /\ i \in Nat
        BY Bounds
      <4>2. take \in Nat /\ consumed + take <= length
        BY <1>2, <4>1
      <4> QED  BY ONLY <4>1, <4>2
    <3> QED  BY <3>1, <3>2
  <2> QED  BY <2>1
<1>5. ASSUME NEW i \in 1..(filled + take)  PROVE array[i] = offset + HeldLength + i
  <2>0. /\ filled \in Nat /\ take \in Nat /\ Aligned \in Nat /\ filled + take <= Aligned
        /\ offset \in Nat /\ HeldLength \in Nat
    BY <1>2, Bounds DEF HeldLength
  <2>1. i \in 1..Aligned
    BY <2>0
  <2>2. CASE i \in (filled + 1)..(filled + take)
    <3>1. array[i] = consumed + i - filled
      BY <2>1, <2>2
    <3>2. /\ consumed = offset + HeldLength + filled /\ HeldLength \in Nat
          /\ i \in Nat /\ offset \in Nat /\ filled \in Nat
      BY <1>1, <2>0
    <3> HIDE DEF array
    <3> QED  BY ONLY <3>1, <3>2
  <2>3. CASE i \in 1..filled
    <3>1. array[i] = buffers[current][i]
      BY <2>0, <2>1, <2>3
    <3>2. buffers[current][i] = offset + HeldLength + i
      <4>1. Run(current, filled, offset + HeldLength)
        BY <1>1
      <4> QED  BY ONLY <2>3, <4>1 DEF Run
    <3> HIDE DEF array
    <3> QED  BY ONLY <3>1, <3>2
  <2> QED  BY <2>0, <2>2, <2>3
<1> HIDE DEF array
<1>6. /\ buffers' \in [Buffer -> [1..Aligned -> 0..length]]
      /\ buffers'[current] = array
      /\ held # "none" => buffers'[held] = buffers[held]
  BY <1>0, <1>1, <1>3, <1>4
<1>7. held # "none" => \A i \in 1..Aligned : buffers'[held][i] = offset + i
  BY <1>1, <1>6 DEF Run
<1> QED  BY <1>2, <1>5, <1>6, <1>7

LEMMA FillStep ==
  ASSUME IInv, Fill  PROVE IInv'
<1> DEFINE take == IF rest < Aligned - filled THEN rest ELSE Aligned - filled
<1>1. /\ pc = "fill" /\ buffers' = Copied(take) /\ consumed' = consumed + take
      /\ rest' = rest - take
      /\ UNCHANGED <<stored, finished, length, offset, resource>>
  BY DEF Fill
<1>2. take \in 0..rest /\ filled + take <= Aligned /\ take \in Nat
  <2>1. rest \in Nat /\ filled \in Nat /\ Aligned \in Nat /\ filled <= Aligned
    BY Bounds
  <2> QED  BY ONLY <2>1
<1>6. /\ HeldLength \in Nat /\ consumed = offset + HeldLength + filled
      /\ consumed \in Nat /\ offset \in Nat /\ filled \in Nat
  BY <1>1, Bounds DEF IInv, BufferInv, HeldLength
<1>3. CASE /\ filled + take < Aligned /\ filled' = filled + take
           /\ Resume(rest') /\ UNCHANGED <<current, held, request, reply>>
  <2> HIDE DEF take
  <2>1. TypeOK'
    <3>1. /\ buffers' \in [Buffer -> [1..Aligned -> 0..length]]
          /\ consumed' \in 0..length /\ rest' \in 0..(length - consumed')
      BY <1>1, <1>2, CopyEffect
    <3>2. pc' \in PC /\ filled' \in 0..Aligned
      BY <1>2, <1>3, <1>6 DEF Resume, PC
    <3> QED
      BY <1>1, <1>3, <3>1, <3>2 DEF IInv, TypeOK
  <2>2. SessionInv'
    BY <1>1, <1>3 DEF IInv, SessionInv, Resume
  <2>3. BufferInv'
    <3>1. held' # current' /\ (held' = "none" => offset' = 0) /\ offset' = Len(stored')
      BY <1>1, <1>3 DEF IInv, BufferInv
    <3>2. consumed' = offset' + HeldLength' + filled' /\ filled' < Aligned
      <4>1. HeldLength' = HeldLength /\ offset' = offset /\ consumed' = consumed + take
        BY <1>1, <1>3 DEF HeldLength
      <4> QED  BY <1>2, <1>3, <1>6, <4>1
    <3>3. /\ Run(current, filled, offset + HeldLength)'
          /\ held' # "none" => Run(held, Aligned, offset)'
      BY <1>1, <1>2, <1>3, CopyEffect DEF Run, HeldLength
    <3> QED  BY <3>1, <3>2, <3>3 DEF BufferInv
  <2> QED
    BY <1>3, <2>1, <2>2, <2>3 DEF IInv, RequestInv, MiddleInv, LastInv, Resume, Sending
<1>4. CASE /\ filled + take = Aligned /\ held = "none"
           /\ Rotate /\ Resume(rest') /\ UNCHANGED <<request, reply>>
  <2> HIDE DEF take
  <2>0. held' = current /\ current' = Other(current) /\ filled' = 0
    BY <1>4 DEF Rotate
  <2>1. current \in Buffer /\ current' \in Buffer /\ held' # current' /\ held' # "none"
    BY <2>0 DEF IInv, TypeOK, Buffer, Other
  <2>2. TypeOK'
    <3>1. /\ buffers' \in [Buffer -> [1..Aligned -> 0..length]]
          /\ consumed' \in 0..length /\ rest' \in 0..(length - consumed')
      BY <1>1, <1>2, CopyEffect
    <3>2. pc' \in PC /\ filled' \in 0..Aligned
      BY <1>4, <2>0 DEF Resume, PC
    <3> QED
      BY <1>1, <1>4, <2>0, <2>1, <3>1, <3>2 DEF IInv, TypeOK
  <2>3. SessionInv'
    BY <1>1, <1>4 DEF IInv, SessionInv, Resume
  <2>4. BufferInv'
    <3>1. offset' = Len(stored') /\ offset = 0 /\ consumed = offset + filled
      BY <1>1, <1>4, <1>6 DEF IInv, BufferInv, HeldLength
    <3>2. consumed' = offset' + HeldLength' + filled' /\ filled' < Aligned
      <4>1. HeldLength' = Aligned /\ filled' = 0
        BY <2>0, <2>1 DEF HeldLength
      <4>2. consumed' = consumed + take /\ offset' = 0
        BY <1>1, <3>1
      <4> QED  BY <1>2, <1>4, <1>6, <3>1, <4>1, <4>2
    <3>3. Run(held, Aligned, offset)'
      <4>1. \A i \in 1..(filled + take) : buffers'[current][i] = offset + HeldLength + i
        BY <1>1, <1>2, CopyEffect
      <4>2. HeldLength = 0 /\ filled + take = Aligned
        BY <1>4 DEF HeldLength
      <4>3. held' = current /\ offset' = offset
        BY <1>1, <2>0
      <4> QED  BY <3>1, <4>1, <4>2, <4>3 DEF Run
    <3>4. Run(current, filled, offset + HeldLength)'
      BY <2>0 DEF Run
    <3> QED  BY <2>1, <3>1, <3>2, <3>3, <3>4 DEF BufferInv
  <2> QED
    BY <1>4, <2>2, <2>3, <2>4 DEF IInv, RequestInv, MiddleInv, LastInv, Resume, Sending
<1>5. CASE /\ filled + take = Aligned /\ held # "none" /\ filled' = Aligned
           /\ Send(held, Aligned, offset, {}, "rotate") /\ UNCHANGED <<current, held>>
  <2> HIDE DEF take
  <2>0. /\ pc' = "rotate" /\ reply' = NoReply
        /\ request' = [buffer |-> held, length |-> Aligned, first |-> offset, total |-> {}]
    BY <1>5 DEF Send
  <2>1. held \in Buffer /\ offset = Len(stored) /\ ~finished /\ held # current
    BY <1>1, <1>5 DEF IInv, TypeOK, BufferInv, SessionInv
  <2>2. TypeOK'
    <3>1. request' \in [buffer : Buffer, length : 0..Aligned, first : 0..length,
                        total : {{}} \cup {{n} : n \in 0..length}]
      BY <2>0, <2>1, Bounds
    <3>2. reply' \in Replies
      BY <2>0 DEF Replies, NoReply
    <3> QED
      BY <1>1, <1>2, <1>5, <2>0, <3>1, <3>2, CopyEffect DEF IInv, TypeOK, PC, Sending
  <2>3. SessionInv'
    BY <1>1, <2>0, <2>1 DEF IInv, SessionInv
  <2>4. consumed' = offset' + HeldLength' + filled'
    <3>1. HeldLength' = HeldLength /\ offset' = offset /\ consumed' = consumed + take
      BY <1>1, <1>5 DEF HeldLength
    <3> QED  BY <1>2, <1>5, <1>6, <3>1
  <2>5. /\ Run(current, filled, offset + HeldLength)'
        /\ Run(held, Aligned, offset)'
    BY <1>1, <1>2, <1>5, CopyEffect DEF Run, HeldLength
  <2>6. BufferInv'
    BY <1>5, <2>0, <2>1, <2>4, <2>5 DEF BufferInv
  <2>7. RequestInv'
    BY <1>1, <1>5, <2>0, <2>1, <2>5 DEF RequestInv, Run, NoReply
  <2>8. MiddleInv' /\ LastInv'
    BY <1>5, <2>0 DEF MiddleInv, LastInv
  <2> QED  BY <2>2, <2>3, <2>6, <2>7, <2>8 DEF IInv
<1> QED
  BY <1>3, <1>4, <1>5 DEF Fill

\* The held buffer was taken, and the full one takes its place.
LEMMA RotatedStep ==
  ASSUME IInv, OnRotated  PROVE IInv'
<1>1. /\ pc = "rotate" /\ held' = current /\ current' = Other(current) /\ filled' = 0
      /\ UNCHANGED <<stored, finished, reply, length, consumed, rest, buffers, request>>
      /\ pc' \in {"read", "fill"}
  BY DEF OnRotated, Rotate, Resume, sessionVars
<1>2. /\ current \in Buffer /\ current' \in Buffer /\ held' # current' /\ held' # "none"
  BY <1>1 DEF IInv, TypeOK, Buffer, Other
<1>3. /\ offset' = offset + Aligned /\ offset' = Len(stored)
      /\ resource' \in BOOLEAN /\ (resource' => finished)
  <2>1. request.length = Aligned /\ pc \in Sending /\ Advance
    BY <1>1 DEF OnRotated, IInv, MiddleInv, Sending
  <2> QED  BY <2>1, AdvanceEffect
<1>4. /\ consumed = offset + Aligned + Aligned
      /\ Run(current, Aligned, offset + Aligned)
  BY <1>1 DEF IInv, BufferInv, MiddleInv, HeldLength
<1>5. TypeOK'
  <2>1. offset' \in 0..length' /\ filled' \in 0..Aligned
    BY <1>1, <1>3, Bounds
  <2>2. pc' \in PC /\ current' \in Buffer /\ held' \in Buffer \cup {"none"}
    BY <1>1, <1>2 DEF PC
  <2>3. resource' \in BOOLEAN
    BY <1>3
  <2> QED  BY <1>1, <2>1, <2>2, <2>3 DEF IInv, TypeOK
<1>6. SessionInv'
  BY <1>1, <1>3 DEF IInv, SessionInv
<1>7. BufferInv'
  <2>1. HeldLength' = Aligned /\ consumed' = offset' + HeldLength' + filled'
    BY <1>1, <1>2, <1>3, <1>4, Bounds DEF HeldLength
  <2>2. Run(held, Aligned, offset)' /\ Run(current, filled, offset + HeldLength)'
    BY <1>1, <1>3, <1>4 DEF Run
  <2> QED  BY <1>1, <1>2, <1>3, <2>1, <2>2 DEF BufferInv
<1> QED
  BY <1>1, <1>5, <1>6, <1>7 DEF IInv, RequestInv, MiddleInv, LastInv, Sending

\* The source has ended: one PUT closes the session, or one more goes before.
LEMMA ExhaustedStep ==
  ASSUME IInv, Exhausted  PROVE IInv'
<1>1. /\ pc = "read" /\ consumed = length
      /\ UNCHANGED <<stored, finished, length, consumed, rest, buffers, current,
                     filled, held, offset, resource>>
  BY DEF Exhausted
<1>2. /\ held # current /\ offset = Len(stored)
      /\ consumed = offset + HeldLength + filled
      /\ Run(current, filled, offset + HeldLength)
      /\ held # "none" => Run(held, Aligned, offset)
      /\ held = "none" => offset = 0
  BY <1>1 DEF IInv, BufferInv
<1>3. /\ ~finished /\ resource \in BOOLEAN /\ (resource => finished)
      /\ current \in Buffer /\ held \in Buffer \cup {"none"}
      /\ filled \in 0..Aligned /\ Aligned \in 0..Aligned
  BY <1>1 DEF IInv, TypeOK, SessionInv
<1>4. CASE held # "none" /\ filled = 0 /\ Send(held, Aligned, offset, {offset + Aligned}, "last")
  <2>1. offset + Aligned = length
    BY <1>1, <1>2, <1>4, Bounds DEF HeldLength
  <2>2. Send(held, Aligned, offset', {length}, "last") /\ held \in Buffer
    BY <1>1, <1>3, <1>4, <2>1
  <2>3. Run(held, Aligned, offset')
    BY <1>1, <1>2, <1>4
  <2> QED  BY <1>1, <1>2, <1>3, <2>1, <2>2, <2>3, CloseStep
<1>5. CASE held = "none" /\ Send(current, filled, offset, {filled}, "last")
  <2>1. filled = length /\ offset + filled = length
    BY <1>1, <1>2, <1>5, Bounds DEF HeldLength
  <2>2. Send(current, filled, offset', {length}, "last")
    BY <1>1, <1>5, <2>1
  <2>3. Run(current, filled, offset')
    BY <1>1, <1>2, <1>5, Bounds DEF Run, HeldLength
  <2> QED  BY <1>1, <1>2, <1>3, <2>1, <2>2, <2>3, CloseStep
<1>6. CASE held # "none" /\ filled > 0 /\ Send(held, Aligned, offset, {}, "tail")
  <2>1. /\ pc' = "tail" /\ reply' = NoReply /\ held \in Buffer
        /\ request' = [buffer |-> held, length |-> Aligned, first |-> offset, total |-> {}]
    BY <1>3, <1>6 DEF Send
  <2>2. TypeOK'
    <3>1. request' \in [buffer : Buffer, length : 0..Aligned, first : 0..length,
                        total : {{}} \cup {{n} : n \in 0..length}]
      BY <1>3, <2>1, Bounds
    <3>2. reply' \in Replies
      BY <2>1 DEF Replies, NoReply
    <3> QED  BY <1>1, <2>1, <3>1, <3>2 DEF IInv, TypeOK, PC, Sending
  <2>3. SessionInv'
    BY <1>1, <1>3, <2>1 DEF IInv, SessionInv
  <2>4. BufferInv'
    BY <1>1, <1>2, <2>1 DEF BufferInv, Run, HeldLength
  <2>5. RequestInv'
    BY <1>1, <1>2, <1>3, <1>6, <2>1 DEF RequestInv, Run, NoReply
  <2>6. MiddleInv' /\ LastInv'
    BY <1>1, <1>6, <2>1 DEF MiddleInv, LastInv
  <2> QED  BY <2>2, <2>3, <2>4, <2>5, <2>6 DEF IInv
<1> QED
  BY <1>4, <1>5, <1>6 DEF Exhausted

\* The held buffer was taken, and what is in the current one closes the session.
LEMMA TailStep ==
  ASSUME IInv, OnTail  PROVE IInv'
<1>1. /\ pc = "tail" /\ pc \in Sending /\ Advance
      /\ Send(current, filled, offset', {offset' + filled}, "last")
      /\ UNCHANGED <<stored, finished, length, consumed, rest, buffers, current,
                     filled, held>>
  BY DEF OnTail, Sending
<1>2. /\ held # "none" /\ request.length = Aligned /\ consumed = length
      /\ held # current /\ consumed = offset + HeldLength + filled
      /\ Run(current, filled, offset + HeldLength)
  BY <1>1 DEF IInv, MiddleInv, BufferInv
<1>3. /\ offset' = offset + Aligned /\ offset' = Len(stored)
      /\ resource' \in BOOLEAN /\ (resource' => finished)
  <2>1. pc \in Sending /\ Advance /\ request.length = Aligned
    BY <1>1, <1>2
  <2> QED  BY <2>1, AdvanceEffect
<1>4. current \in Buffer /\ filled \in 0..Aligned /\ ~finished
  BY <1>1 DEF IInv, TypeOK, SessionInv
<1>5. offset' + filled = length
  BY <1>2, <1>3, Bounds DEF HeldLength
<1>6. Send(current, filled, offset', {length}, "last")
  BY <1>1, <1>5
<1>7. Run(current, filled, offset')
  BY <1>2, <1>3 DEF HeldLength
<1> QED
  BY <1>1, <1>2, <1>3, <1>4, <1>5, <1>6, <1>7, CloseStep

LEMMA ClientStep ==
  ASSUME IInv, Client  PROVE IInv'
<1>0. /\ offset \in 0..length /\ resource \in BOOLEAN /\ (resource => finished)
      /\ rest \in 0..(length - consumed)
  BY DEF IInv, TypeOK, SessionInv
<1>1. CASE OpenSession
  <2>1. CASE pc' = "read"
    BY <1>0, <1>1, <2>1, ReadStep DEF OpenSession
  <2>2. CASE pc' = "failed"
    BY <1>0, <1>1, <2>2, EndStep DEF OpenSession
  <2> QED  BY <1>1, <2>1, <2>2 DEF OpenSession
<1>2. CASE Pull
  <2>1. rest' \in 0..(length - consumed)
    BY <1>2, Bounds DEF Pull
  <2> QED  BY <1>2, <2>1, ReadStep DEF Pull
<1>3. CASE OnLast
  <2>1. /\ pc \in Sending /\ Advance /\ pc' = IF resource' THEN "done" ELSE "failed"
        /\ UNCHANGED <<sessionVars, length, consumed, rest, buffers, current, filled,
                       held, request>>
    BY <1>3 DEF OnLast, Sending
  <2>2. offset' \in 0..length /\ resource' \in BOOLEAN /\ (resource' => finished)
    <3>1. /\ offset' = Len(stored)
          /\ resource' \in BOOLEAN /\ (resource' => finished)
      <4>1. pc \in Sending /\ Advance
        BY <2>1
      <4> QED  BY <4>1, AdvanceEffect
    <3>2. Len(stored) \in 0..length
      BY Bounds
    <3> QED  BY <3>1, <3>2
  <2> QED  BY <2>1, <2>2, EndStep
<1>4. CASE GiveUp
  BY <1>0, <1>4, EndStep DEF GiveUp
<1> QED
  BY <1>1, <1>2, <1>3, <1>4, FillStep, RotatedStep, ExhaustedStep, TailStep DEF Client

-----------------------------------------------------------------------------
(* The results.                                                            *)

\* The invariant that the theorems below rest on, for a server that keeps
\* every body it acknowledges.
LEMMA Inductive ==
  ASSUME ~PartialCommits  PROVE Spec => []IInv
<1>1. IInv /\ [Next]_vars => IInv'
  <2> SUFFICES ASSUME IInv, [Next]_vars  PROVE IInv'
    OBVIOUS
  <2>1. CASE UNCHANGED vars
    <3>1. TypeOK'
      BY <2>1 DEF vars, IInv, TypeOK
    <3>2. SessionInv' /\ MiddleInv' /\ LastInv'
      BY <2>1 DEF vars, IInv, SessionInv, MiddleInv, LastInv
    <3>3. BufferInv' /\ RequestInv'
      BY <2>1 DEF vars, IInv, BufferInv, RequestInv, Run, HeldLength
    <3> QED  BY <3>1, <3>2, <3>3 DEF IInv
  <2> QED  BY <2>1, ClientStep, ServeStep DEF Next
<1> QED  BY InitIInv, <1>1, PTL DEF Spec

\* Such an upload keeps its shape: among others, the offset never exceeds what
\* the source has.
THEOREM StreamedTypeOK ==
  ASSUME ~PartialCommits  PROVE Spec => []TypeOK
<1>1. IInv => TypeOK
  BY DEF IInv
<1> QED  BY <1>1, Inductive, PTL

\* A file that appears holds what the source yields, all of it, in order.
THEOREM StreamedWholeObject ==
  ASSUME ~PartialCommits  PROVE Spec => []WholeObject
<1>1. IInv => WholeObject
  BY DEF IInv, SessionInv, WholeObject
<1> QED  BY <1>1, Inductive, PTL

\* Two alternating buffers suffice.
THEOREM StreamedNothingDropped ==
  Spec => []NothingDropped
<1>1. CASE ~PartialCommits
  <2>1. ASSUME IInv, pc \notin {"done", "failed"}
        PROVE  NothingDropped
    <3> DEFINE has == {stored[i] : i \in DOMAIN stored}
    <3>1. held # current
      BY <2>1 DEF IInv, BufferInv, LastInv
    <3>2. ASSUME NEW i \in 1..consumed, i <= Len(stored)  PROVE i \in has
      <4>1. i \in DOMAIN stored /\ stored[i] = i
        <5>1. stored = Payload(Len(stored)) /\ Len(stored) \in Nat /\ stored \in Seq(Nat)
          BY <2>1, Bounds DEF IInv, SessionInv, TypeOK
        <5>2. i \in 1..Len(stored) /\ DOMAIN stored = 1..Len(stored)
          BY <3>2, <5>1
        <5> QED  BY <5>1, <5>2, PayloadFacts
      <4> QED  BY <4>1
    <3>3. ASSUME NEW i \in 1..consumed, i > Len(stored)
          PROVE  \/ i \in BytesIn(current, filled)
                 \/ held # "none" /\ i \in BytesIn(held, Aligned)
      <4>1. i \in Nat /\ offset \in Nat /\ filled \in Nat /\ offset < i
        <5>1. /\ i \in Nat /\ offset \in Nat /\ filled \in Nat
              /\ Len(stored) \in Nat /\ request.length \in Nat
          BY <2>1, <3>3, Bounds
        <5>2. CASE pc \in Sending
          BY <2>1, <3>3, <5>1, <5>2 DEF IInv, RequestInv
        <5>3. CASE pc \in {"open", "read", "fill"}
          BY <2>1, <3>3, <5>1, <5>3 DEF IInv, BufferInv
        <5> QED  BY <2>1, <5>2, <5>3 DEF IInv, TypeOK, PC
      <4>2. CASE pc = "last"
        <5>1. i - offset \in 1..request.length /\ buffers[request.buffer][i - offset] = i
          BY <2>1, <4>1, <4>2, Bounds DEF IInv, LastInv, RequestInv, Run, Sending
        <5>2. i \in BytesIn(request.buffer, request.length)
          BY <5>1 DEF BytesIn
        <5>3. request.buffer # "none"
          BY <2>1 DEF IInv, TypeOK, Buffer
        <5> QED  BY <2>1, <4>2, <5>2, <5>3 DEF IInv, LastInv
      <4>3. CASE pc # "last" /\ i <= offset + HeldLength
        <5>1. held # "none" /\ i - offset \in 1..Aligned
          BY <4>1, <4>3 DEF HeldLength
        <5>2. buffers[held][i - offset] = i
          BY <2>1, <4>1, <4>3, <5>1 DEF IInv, BufferInv, Run
        <5> QED  BY <5>1, <5>2 DEF BytesIn
      <4>4. CASE pc # "last" /\ i > offset + HeldLength
        <5>1. /\ HeldLength \in Nat /\ consumed = offset + HeldLength + filled
              /\ Run(current, filled, offset + HeldLength)
          BY <2>1, <4>4 DEF IInv, BufferInv, HeldLength
        <5>2. i - (offset + HeldLength) \in 1..filled
          BY <4>1, <4>4, <5>1
        <5>3. buffers[current][i - (offset + HeldLength)] = i
          BY <4>1, <5>1, <5>2 DEF Run
        <5> QED  BY <5>2, <5>3 DEF BytesIn
      <4>5. HeldLength \in Nat
        BY DEF HeldLength
      <4> QED  BY <4>1, <4>2, <4>3, <4>4, <4>5
    <3>4. consumed \in Nat /\ Len(stored) \in Nat
      BY <2>1, Bounds
    <3>5. 1..consumed \subseteq
            has \cup BytesIn(current, filled)
              \cup (IF held = "none" THEN {} ELSE BytesIn(held, Aligned))
      <4> SUFFICES ASSUME NEW i \in 1..consumed
                   PROVE  \/ i \in has \/ i \in BytesIn(current, filled)
                          \/ held # "none" /\ i \in BytesIn(held, Aligned)
        OBVIOUS
      <4> HIDE DEF has
      <4>1. i <= Len(stored) \/ i > Len(stored)
        BY <3>4
      <4> QED  BY <3>2, <3>3, <4>1
    <3> QED  BY <3>1, <3>5 DEF NothingDropped
  <2>2. IInv => NothingDropped
    BY <2>1 DEF NothingDropped
  <2> QED  BY <1>1, <2>2, Inductive, PTL
<1>2. CASE PartialCommits
  <2>1. NothingDropped
    BY <1>2 DEF NothingDropped
  <2> QED  BY <2>1, PTL
<1> QED  BY <1>1, <1>2

\* No PUT leaves a gap or repeats what the session has.
THEOREM StreamedInStep ==
  Spec => []InStep
<1>1. CASE ~PartialCommits
  <2>1. IInv => InStep
    BY DEF IInv, RequestInv, MiddleInv, LastInv, InStep, Sending
  <2> QED  BY <1>1, <2>1, Inductive, PTL
<1>2. CASE PartialCommits
  <2>1. InStep
    BY <1>2 DEF InStep
  <2> QED  BY <2>1, PTL
<1> QED  BY <1>1, <1>2

\* The file appears once and whole, and before success is reported.
THEOREM StreamedKeepsContract ==
  ASSUME ~PartialCommits  PROVE Spec => ImplementsContract
<1>1. Init => Contract!UInit
  BY DEF Init, SessionInit, Contract!UInit
<1>2. IInv /\ [Next]_vars => [Contract!UNext]_(Contract!uvars)
  <2> SUFFICES ASSUME IInv, [Next]_vars
               PROVE  Contract!UNext \/ UNCHANGED Contract!uvars
    OBVIOUS
  <2> USE DEF Contract!UNext, Contract!uvars
  <2>1. CASE UNCHANGED <<length, stored, finished>> /\ pc \notin {"done", "failed"}
             /\ pc' \notin {"done", "failed"}
    BY <2>1
  <2>2. CASE UNCHANGED <<length, stored, finished>> /\ pc \notin {"done", "failed"}
             /\ pc' = "failed"
    BY <2>2 DEF Contract!GiveUp
  <2>3. CASE OnLast /\ pc' = "done"
    <3>1. finished
      <4>1. pc \in Sending /\ Advance /\ resource'
        BY <2>3 DEF OnLast, Sending
      <4> QED  BY <4>1, AdvanceEffect
    <3>2. stored = Payload(length)
      BY <3>1 DEF IInv, SessionInv
    <3>3. UNCHANGED <<length, stored, finished>> /\ pc = "last"
      BY <2>3 DEF OnLast, sessionVars
    <3> QED  BY <2>3, <3>1, <3>2, <3>3 DEF Contract!Succeed
  <2>4. CASE Serve
    <3>1. /\ length' = length /\ pc' = pc /\ pc \notin {"done", "failed"}
      BY <2>4 DEF Serve, clientVars, Sending
    <3>2. CASE finished'
      <4>1. ~finished /\ stored' = Payload(Len(stored'))
        BY <2>4, ServeEffect
      <4>2. Len(stored') = length
        BY <2>4, <3>1, <3>2, ServeStep DEF IInv, SessionInv
      <4> QED  BY <3>1, <3>2, <4>1, <4>2 DEF Contract!Publish
    <3>3. CASE ~finished'
      BY <2>4, <3>1, <3>3, ServeEffect
    <3> QED  BY <3>2, <3>3
  <2>5. CASE Client
    <3> USE DEF sessionVars
    <3>1. CASE OpenSession
      BY <2>1, <2>2, <3>1 DEF OpenSession
    <3>2. CASE Pull
      BY <2>1, <3>2 DEF Pull
    <3>3. CASE Fill
      BY <2>1, <3>3 DEF Fill, Resume, Send
    <3>4. CASE OnRotated
      BY <2>1, <3>4 DEF OnRotated, Resume
    <3>5. CASE Exhausted
      BY <2>1, <3>5 DEF Exhausted, Send
    <3>6. CASE OnTail
      BY <2>1, <3>6 DEF OnTail, Send
    <3>7. CASE OnLast
      BY <2>2, <2>3, <3>7 DEF OnLast
    <3>8. CASE GiveUp
      BY <2>2, <3>8 DEF GiveUp, Sending
    <3> QED  BY <2>5, <3>1, <3>2, <3>3, <3>4, <3>5, <3>6, <3>7, <3>8 DEF Client
  <2>6. CASE UNCHANGED vars
    BY <2>6 DEF vars
  <2> QED  BY <2>4, <2>5, <2>6 DEF Next
<1> QED
  BY <1>1, <1>2, Inductive, PTL DEF ImplementsContract, Contract!USpec, Spec

=============================================================================
