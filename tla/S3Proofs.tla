------------------------------ MODULE S3Proofs ------------------------------
(***************************************************************************)
(* What an upload puts and leaves in the bucket, for any payload, part     *)
(* size and number of retries.                                             *)
(***************************************************************************)
EXTENDS S3Upload, FiniteSetTheorems, SequenceTheorems, WellFoundedInduction, TLAPS

Settled == {"done", "failed"}

ControlOK ==
  /\ pc \in Request \cup Settled \cup {"read"}
  /\ reply \in Replies
  /\ attempt \in Nat /\ created \in Nat

\* Each attempt at a creation opens one upload at most.
CreateInv ==
  /\ created <= MaxRetries + 1
  /\ pc = "create" => attempt <= MaxRetries + 1
  /\ pc = "create" => created <= (IF reply = "none" THEN attempt - 1 ELSE attempt)

\* Only the last upload that was opened is in use, and there is none before
\* the creation is answered.
UploadInv ==
  /\ upload \in {0, created}
  /\ pc \in {"put", "create"} => upload = 0
  /\ DOMAIN pending \subseteq 1..created

\* The upload is closed once the bucket says so, or the abort was given up.
ClosedInv ==
  /\ pc \in {"complete", "abort"} /\ reply = "ok" => ~Open
  /\ pc = "done" => ~Open
  /\ pc = "failed" /\ Open => GivenUp

IInv == ControlOK /\ CreateInv /\ UploadInv /\ ClosedInv

-----------------------------------------------------------------------------
\* The first request is awaited, and no upload is open.
LEMMA InitInv ==
  Init => IInv
<1> SUFFICES ASSUME Init  PROVE IInv
  OBVIOUS
<1>1. DOMAIN pending = {}
  BY DEF Init
<1>2. pc \in {"put", "create"} /\ attempt = 1 /\ reply = "none" /\ created = 0 /\ upload = 0
  BY DEF Init
<1> QED
  BY <1>1, <1>2, RetriesAssumption
     DEF IInv, ControlOK, CreateInv, UploadInv, ClosedInv, Open, Request, Settled, Replies

\* The client changes no upload in the bucket. It leaves "create" for good,
\* with the upload that was opened last, and settles when its upload is closed.
LEMMA ClientStep ==
  ASSUME IInv, Client  PROVE IInv'
<1> USE DEF IInv, ControlOK, CreateInv, UploadInv, ClosedInv, Open, GivenUp, RetriesOf,
            Request, Settled, Replies, client, bucket
<1>0. UNCHANGED bucket
  BY DEF Client, Retry, OnPut, OnCreated, Reject, Pull, Copy, LastPart, OnPart, Complete,
         OnComplete, Discard, OnAbort
<1>1. CASE Retry
  BY <1>0, <1>1, RetriesAssumption DEF Retry
<1>2. CASE OnPut
  BY <1>0, <1>2 DEF OnPut, Goto
<1>3. CASE OnCreated
  BY <1>0, <1>3 DEF OnCreated, Goto
<1>4. CASE Reject
  BY <1>0, <1>4 DEF Reject, Goto
<1>5. CASE Pull
  BY <1>0, <1>5 DEF Pull
<1>6. CASE Copy
  BY <1>0, <1>6 DEF Copy, Goto
<1>7. CASE LastPart \/ Complete
  BY <1>0, <1>7 DEF LastPart, Complete, Goto
<1>8. CASE OnPart
  BY <1>0, <1>8 DEF OnPart, Goto
<1>9. CASE OnComplete
  BY <1>0, <1>9 DEF OnComplete, Goto
<1>10. CASE Discard
  BY <1>0, <1>10 DEF Discard, Goto
<1>11. CASE OnAbort
  BY <1>0, <1>11, RetriesAssumption DEF OnAbort
<1> QED
  BY <1>1, <1>2, <1>3, <1>4, <1>5, <1>6, <1>7, <1>8, <1>9, <1>10, <1>11 DEF Client

\* The bucket answers, and only a creation opens an upload.
LEMMA ServeStep ==
  ASSUME IInv, Serve  PROVE IInv'
<1> USE DEF IInv, ControlOK, CreateInv, UploadInv, ClosedInv, Open, Request, Settled, Replies
<1>1. /\ reply = "none" /\ pc \in Request
      /\ UNCHANGED <<attempt, pc, upload>>
  BY DEF Serve, client
<1>2. CASE ServePut
  BY <1>1, <1>2 DEF ServePut, Respond
<1>3. CASE ServeCreate
  <2>1. created' = created + 1 /\ DOMAIN pending' = DOMAIN pending \cup {created'}
    BY <1>3 DEF ServeCreate
  <2>2. reply' \in Replies \ {"none"} /\ pc = "create"
    BY <1>3 DEF ServeCreate, Respond
  <2> QED
    BY <1>1, <2>1, <2>2, RetriesAssumption
<1>4. CASE ServePart
  <2>1. DOMAIN pending' = DOMAIN pending /\ created' = created
    BY <1>4 DEF ServePart
  <2> QED
    BY <1>1, <1>4, <2>1 DEF ServePart, Respond
<1>5. CASE ServeComplete \/ ServeAbort
  <2>1. DOMAIN pending' = DOMAIN pending \ {upload} /\ created' = created
    BY <1>5 DEF ServeComplete, ServeAbort, Without
  <2> QED
    BY <1>1, <1>5, <2>1 DEF ServeComplete, ServeAbort, Respond
<1>6. CASE Refuse
  BY <1>1, <1>6 DEF Refuse, bucket
<1> QED
  BY <1>2, <1>3, <1>4, <1>5, <1>6 DEF Serve

\* The invariant that the theorem below rests on.
THEOREM Inductive ==
  Spec => []IInv
<1>1. IInv /\ UNCHANGED vars => IInv'
  BY DEF IInv, ControlOK, CreateInv, UploadInv, ClosedInv, Open, GivenUp, RetriesOf,
         vars, client, bucket
<1>2. IInv /\ [Next]_vars => IInv'
  BY <1>1, ClientStep, ServeStep DEF Next
<1> QED
  BY InitInv, <1>2, PTL DEF Spec

\* A settled putObject leaves no upload open but those whose creation lost its
\* answer, at most one for each attempt, and its own if the abort was given up.
THEOREM LeavesNoParts ==
  Spec => []Tidy
<1>1. ASSUME IInv  PROVE Tidy
  <2> SUFFICES ASSUME pc \in Settled
               PROVE  /\ Open => pc = "failed" /\ GivenUp
                      /\ Cardinality(DOMAIN pending) <= MaxRetries + 1
                      /\ upload # 0 => \A u \in DOMAIN pending : u <= upload
    BY DEF Tidy, Settled, Open
  <2>1. Open => pc = "failed" /\ GivenUp
    BY <1>1 DEF IInv, ClosedInv, Settled
  <2>2. DOMAIN pending \subseteq 1..created /\ created \in Nat
    BY <1>1 DEF IInv, UploadInv, ControlOK
  <2>3. IsFiniteSet(1..created) /\ Cardinality(1..created) = created
    BY <2>2, FS_Interval
  <2>4. Cardinality(DOMAIN pending) <= created /\ Cardinality(DOMAIN pending) \in Nat
    BY <2>2, <2>3, FS_Subset, FS_CardinalityType
  <2>5. Cardinality(DOMAIN pending) <= MaxRetries + 1
    BY <1>1, <2>2, <2>4, RetriesAssumption DEF IInv, CreateInv
  <2>6. upload # 0 => \A u \in DOMAIN pending : u <= upload
    BY <1>1, <2>2 DEF IInv, UploadInv
  <2> QED
    BY <2>1, <2>5, <2>6
<1> QED
  BY <1>1, Inductive, PTL

-----------------------------------------------------------------------------
(* Induction, as the least element of the set of counterexamples.          *)

\* A non-empty set of natural numbers has a least element.
LEMMA LeastElement ==
  ASSUME NEW T \in SUBSET Nat, T # {}
  PROVE  \E x \in T : \A y \in T : x <= y
<1> DEFINE R == {ss \in Nat \X Nat : ss[1] < ss[2]}
<1>1. IsWellFoundedOn(R, Nat)
  BY NatLessThanWellFounded DEF OpToRel
<1>2. \E x \in T : \A y \in T : ~ (<<y, x>> \in R)
  <2> HIDE DEF R
  <2> QED BY <1>1, WFMin, Zenon
<1>3. PICK x \in T : \A y \in T : ~ (<<y, x>> \in R)
  BY <1>2
<1>4. ASSUME NEW y \in T PROVE x <= y
  <2>1. x \in Nat /\ y \in Nat
    OBVIOUS
  <2>2. y < x => <<y, x>> \in R
    BY <2>1
  <2>3. ~ (y < x)
    BY <1>3, <2>2
  <2> HIDE DEF R
  <2> QED BY <2>1, <2>3
<1> QED BY <1>4

\* A set that holds 1, and i + 1 whenever it holds i < n, holds all of 1..n.
LEMMA Climb ==
  ASSUME NEW n \in Nat, NEW Good, 1 \in Good,
         \A i \in 1..n : i \in Good /\ i < n => i + 1 \in Good
  PROVE  1..n \subseteq Good
<1> DEFINE T == (1..n) \ Good
<1> SUFFICES ASSUME T # {} PROVE FALSE
  OBVIOUS
<1>1. T \in SUBSET Nat
  OBVIOUS
<1>2. PICK x \in T : \A y \in T : x <= y
  BY <1>1, LeastElement
<1>3. x \in 2..n
  OBVIOUS
<1>4. x - 1 \in 1..n /\ x - 1 \notin T
  BY <1>2, <1>3
<1> QED BY <1>3, <1>4

-----------------------------------------------------------------------------
(* Concatenation of a sequence of sequences.                               *)

\* f is the running concatenation of the first n elements of seqs.
Running(f, seqs, n) ==
  f = [i \in 1..n |-> IF i = 1 THEN seqs[i] ELSE f[i - 1] \o seqs[i]]

\* Every sequence of sequences has one.
LEMMA RunningExists ==
  ASSUME NEW n \in Nat \ {0}, NEW seqs
  PROVE  \E f : Running(f, seqs, n)
<1> DEFINE Good == {i \in Nat : \E f : Running(f, seqs, i)}
<1>1. 1 \in Good
  <2> DEFINE f == [i \in 1..1 |-> seqs[i]]
  <2> Running(f, seqs, 1)
    BY DEF Running
  <2> QED OBVIOUS
<1>2. ASSUME NEW i \in 1..n, i \in Good PROVE i + 1 \in Good
  <2>1. PICK f : Running(f, seqs, i)
    BY <1>2
  <2> DEFINE g == [j \in 1..(i + 1) |-> IF j = i + 1 THEN f[i] \o seqs[i + 1] ELSE f[j]]
  <2>2. ASSUME NEW j \in 1..(i + 1)
        PROVE  g[j] = IF j = 1 THEN seqs[j] ELSE g[j - 1] \o seqs[j]
    <3>1. CASE j = i + 1
      <4>1. j # 1 /\ j - 1 = i
        BY <3>1
      <4>3. g[j] = f[i] \o seqs[j]
        BY <3>1
      <4>2. g[i] = f[i]
        OBVIOUS
      <4> HIDE DEF g
      <4> QED BY <4>1, <4>2, <4>3
    <3>2. CASE j # i + 1
      <4>1. j \in 1..i /\ g[j] = f[j] /\ (j # 1 => g[j - 1] = f[j - 1])
        BY <3>2
      <4>2. f[j] = IF j = 1 THEN seqs[j] ELSE f[j - 1] \o seqs[j]
        BY <2>1, <4>1 DEF Running
      <4> QED BY <4>1, <4>2
    <3> QED BY <3>1, <3>2
  <2>3. Running(g, seqs, i + 1)
    <3>1. g = [j \in 1..(i + 1) |-> g[j]]
      OBVIOUS
    <3> HIDE DEF g
    <3> QED BY <2>2, <3>1 DEF Running
  <2> QED BY <2>3
<1>3. 1..n \subseteq Good
  <2> HIDE DEF Good
  <2> QED BY <1>1, <1>2, Climb
<1> QED BY <1>3

\* FlattenSeq returns the last element of a running concatenation.
LEMMA FlattenRuns ==
  ASSUME NEW n \in Nat \ {0}, NEW seqs, Len(seqs) = n
  PROVE  \E f : Running(f, seqs, n) /\ FlattenSeq(seqs) = f[n]
<1> DEFINE f == CHOOSE g : g = [i \in 1..n |-> IF i = 1 THEN seqs[i] ELSE g[i - 1] \o seqs[i]]
<1>1. Running(f, seqs, n)
  BY RunningExists DEF Running
<1>2. FlattenSeq(seqs) = f[n]
  BY DEF FlattenSeq
<1> QED BY <1>1, <1>2

\* One part more is appended to what the others hold.
LEMMA FlattenAppend ==
  ASSUME NEW S, NEW seqs \in Seq(Seq(S)), NEW last \in Seq(S)
  PROVE  FlattenSeq(Append(seqs, last)) = FlattenSeq(seqs) \o last
<1> DEFINE n == Len(seqs)
           more == Append(seqs, last)
<1>1. /\ n \in Nat /\ Len(more) = n + 1 /\ more[n + 1] = last
      /\ \A i \in 1..n : more[i] = seqs[i]
  BY LenProperties, AppendProperties
<1> HIDE DEF more
<1>2. PICK g : Running(g, more, n + 1) /\ FlattenSeq(more) = g[n + 1]
  BY <1>1, FlattenRuns
<1>3. CASE n = 0
  <2>1. seqs = <<>>
    BY <1>3, EmptySeq
  <2>2. FlattenSeq(seqs) = <<>>
    BY <2>1 DEF FlattenSeq
  <2>3. g[1] = more[1]
    BY <1>2, <1>3 DEF Running
  <2>4. <<>> \o last = last
    BY ConcatEmptySeq
  <2> QED BY <1>1, <1>2, <1>3, <2>2, <2>3, <2>4 DEF more
<1>4. CASE n # 0
  <2>1. PICK f : Running(f, seqs, n) /\ FlattenSeq(seqs) = f[n]
    BY <1>1, <1>4, FlattenRuns
  <2> DEFINE Good == {i \in 1..n : f[i] = g[i]}
  <2>2. 1 \in Good
    <3>1. 1 \in 1..n /\ 1 \in 1..(n + 1)
      BY <1>1, <1>4
    <3>2. f[1] = seqs[1] /\ g[1] = more[1]
      BY <1>2, <2>1, <3>1 DEF Running
    <3> QED BY <1>1, <3>1, <3>2
  <2>3. ASSUME NEW i \in 1..n, i \in Good, i < n PROVE i + 1 \in Good
    <3>1. /\ i + 1 \in 1..n /\ i + 1 \in 1..(n + 1) /\ i + 1 # 1 /\ (i + 1) - 1 = i
      BY <1>1, <2>3
    <3>2. f[i + 1] = f[(i + 1) - 1] \o seqs[i + 1]
      BY <2>1, <3>1 DEF Running
    <3>3. g[i + 1] = g[(i + 1) - 1] \o more[i + 1]
      BY <1>2, <3>1 DEF Running
    <3>4. f[i] = g[i] /\ seqs[i + 1] = more[i + 1]
      BY <1>1, <2>3, <3>1
    <3> QED BY <3>1, <3>2, <3>3, <3>4
  <2>4. f[n] = g[n]
    <3>1. 1..n \subseteq Good
      <4> HIDE DEF Good
      <4> QED BY <1>1, <2>2, <2>3, Climb
    <3>2. n \in 1..n
      BY <1>1, <1>4
    <3> QED BY <3>1, <3>2
  <2>5. g[n + 1] = g[(n + 1) - 1] \o more[n + 1]
    <3>1. n + 1 \in 1..(n + 1) /\ n + 1 # 1
      BY <1>1, <1>4
    <3>2. Running(g, more, n + 1)
      BY <1>2
    <3> HIDE DEF n
    <3> QED BY ONLY <3>1, <3>2 DEF Running
  <2>6. (n + 1) - 1 = n
    BY <1>1
  <2> QED BY <1>1, <1>2, <2>1, <2>4, <2>5, <2>6 DEF more
<1> QED BY <1>3, <1>4

-----------------------------------------------------------------------------
(* Pieces of the payload.                                                  *)

\* The bytes behind the first a, up to the b-th.
Piece(a, b) == [i \in 1..(b - a) |-> a + i]

\* A piece is as long as its bounds say.
LEMMA PieceIs ==
  ASSUME NEW a \in Nat, NEW b \in Nat, a <= b
  PROVE  /\ Piece(a, b) \in Seq(Nat) /\ Len(Piece(a, b)) = b - a
         /\ \A i \in 1..(b - a) : Piece(a, b)[i] = a + i
<1>1. Piece(a, b) \in [1..(b - a) -> Nat]
  BY DEF Piece
<1>2. Piece(a, b) \in Seq(Nat)
  BY <1>1
<1>3. DOMAIN Piece(a, b) = 1..(b - a)
  BY DEF Piece
<1>4. Len(Piece(a, b)) = b - a
  BY <1>2, <1>3, LenProperties
<1> QED BY <1>2, <1>4 DEF Piece

\* What has the length and the elements of a piece is that piece.
LEMMA IsPiece ==
  ASSUME NEW a \in Nat, NEW b \in Nat, a <= b, NEW s \in Seq(Nat), Len(s) = b - a,
         \A i \in 1..(b - a) : s[i] = a + i
  PROVE  s = Piece(a, b)
<1> DEFINE p == Piece(a, b)
<1>1. /\ p \in Seq(Nat) /\ Len(p) = b - a
      /\ \A i \in 1..(b - a) : p[i] = a + i
  BY PieceIs
<1> HIDE DEF p
<1>2. Len(s) = Len(p) /\ \A i \in 1..Len(s) : s[i] = p[i]
  BY <1>1
<1>3. s = p
  BY <1>1, <1>2, SeqEqual
<1> QED BY <1>3 DEF p

\* Of a piece, the elements between two places are a piece.
LEMMA PieceSub ==
  ASSUME NEW a \in Nat, NEW b \in Nat, a <= b, NEW j \in 0..(b - a), NEW i \in 0..j
  PROVE  SubSeq(Piece(a, b), i + 1, j) = Piece(a + i, a + j)
<1> DEFINE p == Piece(a, b)
           r == SubSeq(p, i + 1, j)
<1>1. /\ p \in Seq(Nat) /\ Len(p) = b - a
      /\ \A x \in 1..(b - a) : p[x] = a + x
  BY PieceIs
<1> HIDE DEF p
<1>2. PICK lo \in Int, hi \in Int : lo = i + 1 /\ hi = j
  OBVIOUS
<1>3. \A x \in lo..hi : x \in 1..(b - a) /\ p[x] = a + x /\ p[x] \in Nat
  BY <1>1, <1>2
<1>4. /\ SubSeq(p, lo, hi) \in Seq(Nat)
      /\ Len(SubSeq(p, lo, hi)) = IF lo <= hi THEN hi - lo + 1 ELSE 0
      /\ \A x \in 1..(hi - lo + 1) : SubSeq(p, lo, hi)[x] = p[lo + x - 1]
  BY ONLY <1>3, SubSeqProperties
<1>5. r = SubSeq(p, lo, hi)
  BY <1>2
<1> HIDE DEF r
<1>6. r \in Seq(Nat) /\ Len(r) = (a + j) - (a + i)
  BY <1>2, <1>4, <1>5
<1>7. ASSUME NEW x \in 1..((a + j) - (a + i)) PROVE r[x] = (a + i) + x
  <2>1. x \in 1..(hi - lo + 1) /\ lo + x - 1 \in lo..hi /\ a + (lo + x - 1) = (a + i) + x
    BY <1>2
  <2> QED BY <1>3, <1>4, <1>5, <2>1
<1>8. a + i \in Nat /\ a + j \in Nat /\ a + i <= a + j
  OBVIOUS
<1> QED BY <1>6, <1>7, <1>8, IsPiece DEF r, p

\* Adjacent pieces make one.
LEMMA PieceJoin ==
  ASSUME NEW a \in Nat, NEW b \in Nat, NEW c \in Nat, a <= b, b <= c
  PROVE  Piece(a, b) \o Piece(b, c) = Piece(a, c)
<1> DEFINE p == Piece(a, b)
           q == Piece(b, c)
           r == p \o q
<1>1. /\ p \in Seq(Nat) /\ Len(p) = b - a
      /\ \A x \in 1..(b - a) : p[x] = a + x
  BY PieceIs
<1>2. /\ q \in Seq(Nat) /\ Len(q) = c - b
      /\ \A x \in 1..(c - b) : q[x] = b + x
  BY PieceIs
<1> HIDE DEF p, q
<1>3. /\ r \in Seq(Nat) /\ Len(r) = Len(p) + Len(q)
      /\ \A x \in 1..(Len(p) + Len(q)) : r[x] = IF x <= Len(p) THEN p[x] ELSE q[x - Len(p)]
  BY <1>1, <1>2, ConcatProperties
<1> HIDE DEF r
<1>4. Len(r) = c - a
  BY <1>1, <1>2, <1>3
<1>5. ASSUME NEW x \in 1..(c - a) PROVE r[x] = a + x
  <2>1. r[x] = IF x <= b - a THEN p[x] ELSE q[x - (b - a)]
    BY <1>1, <1>2, <1>3
  <2>2. CASE x <= b - a
    BY <1>1, <2>1, <2>2
  <2>3. CASE ~(x <= b - a)
    <3>1. x - (b - a) \in 1..(c - b) /\ b + (x - (b - a)) = a + x
      BY <2>3
    <3> QED BY <1>2, <2>1, <2>3, <3>1
  <2> QED BY <2>2, <2>3
<1>6. a <= c
  OBVIOUS
<1> QED BY <1>3, <1>4, <1>5, <1>6, IsPiece DEF r, p, q

\* No bytes at all.
LEMMA PieceEmpty ==
  ASSUME NEW a \in Nat
  PROVE  Piece(a, a) = <<>>
<1>1. Piece(a, a) \in Seq(Nat) /\ Len(Piece(a, a)) = 0
  BY PieceIs
<1> QED BY <1>1, EmptySeq

-----------------------------------------------------------------------------
(* Where the bytes are.                                                    *)

\* The source is read up to At behind what is left of the last chunk; the
\* parts hold everything up to Behind, the buffer what lies between.
At == taken - Len(chunk)
Behind == At - Len(buffer)

HeldInv ==
  /\ length \in Nat /\ taken \in 0..length
  /\ Len(chunk) \in 0..taken /\ chunk = Piece(At, taken)
  /\ Len(buffer) \in 0..At /\ buffer = Piece(Behind, At)
  /\ parts \in Seq(Seq(Nat)) /\ FlattenSeq(parts) = Piece(0, Behind)
  /\ pc \in {"create", "read"} => Len(buffer) < PartSize
  /\ pc = "complete" => Behind = length

\* An answer that is not an error means that the object is there.
ObjectInv ==
  /\ object \in {Old, Payload}
  /\ pc \in {"put", "complete"} /\ reply = "ok" => object = Payload
  /\ pc = "done" => object = Payload

BytesInv == HeldInv /\ ObjectInv

\* The payload is one piece.
LEMMA PayloadIs ==
  ASSUME length \in Nat
  PROVE  Payload = Piece(0, length)
BY DEF Payload, Piece

\* What the places mean, in numbers.
LEMMA Places ==
  ASSUME HeldInv
  PROVE  /\ At \in Nat /\ Behind \in Nat /\ taken \in Nat
         /\ Behind <= At /\ At <= taken /\ taken <= length
         /\ Len(chunk) = taken - At /\ Len(buffer) = At - Behind
         /\ chunk \in Seq(Nat) /\ buffer \in Seq(Nat)
<1>1. /\ taken \in Nat /\ length \in Nat /\ taken <= length
      /\ Len(chunk) \in 0..taken /\ Len(buffer) \in 0..(taken - Len(chunk))
  BY DEF HeldInv, At
<1>2. /\ At \in Nat /\ Behind \in Nat /\ Behind <= At /\ At <= taken
      /\ Len(chunk) = taken - At /\ Len(buffer) = At - Behind
  BY <1>1 DEF At, Behind
<1>3. chunk = Piece(At, taken) /\ buffer = Piece(Behind, At)
  BY DEF HeldInv
<1>4. chunk \in Seq(Nat) /\ buffer \in Seq(Nat)
  BY <1>1, <1>2, <1>3, PieceIs
<1> QED BY <1>1, <1>2, <1>4

\* Nothing was read, and the old object is there.
LEMMA InitBytes ==
  Init => BytesInv
<1> SUFFICES ASSUME Init PROVE BytesInv
  OBVIOUS
<1>1. /\ length \in Nat /\ taken = 0 /\ chunk = <<>> /\ buffer = <<>> /\ parts = <<>>
      /\ pc \in {"create", "put"} /\ reply = "none" /\ object = Old
  BY LengthsAssumption DEF Init
<1>2. Len(chunk) = 0 /\ Len(buffer) = 0 /\ At = 0 /\ Behind = 0
  <2>1. Len(<<>>) = 0
    BY EmptySeq
  <2>2. Len(chunk) = 0 /\ Len(buffer) = 0
    BY <1>1, <2>1
  <2>3. taken = 0
    BY <1>1
  <2>4. At = 0
    BY ONLY <2>2, <2>3 DEF At
  <2>5. Behind = 0
    BY ONLY <2>2, <2>4 DEF Behind
  <2> QED BY <2>2, <2>4, <2>5
<1>3. Piece(0, 0) = <<>> /\ FlattenSeq(parts) = <<>> /\ parts \in Seq(Seq(Nat))
  BY <1>1, PieceEmpty DEF FlattenSeq
<1> QED BY <1>1, <1>2, <1>3, PartAssumption DEF BytesInv, HeldInv, ObjectInv

\* A step that holds all bytes where they were.
LEMMA HeldStep ==
  ASSUME HeldInv, UNCHANGED <<length, taken, chunk, buffer, parts>>,
         pc' \in {"create", "read"} => Len(buffer) < PartSize,
         pc' = "complete" => Behind = length
  PROVE  HeldInv'
<1>1. At' = At /\ Behind' = Behind
  BY DEF At, Behind
<1> QED BY <1>1 DEF HeldInv

\* The source hands over the next bytes.
LEMMA PullHeld ==
  ASSUME HeldInv, Pull
  PROVE  HeldInv'
<1>1. PICK k \in ChunkSizes : taken + k <= length
                              /\ chunk' = SubSeq(Payload, taken + 1, taken + k)
                              /\ taken' = taken + k
  BY DEF Pull
<1>2. /\ chunk = <<>> /\ pc = "read" /\ pc' = pc
      /\ length' = length /\ buffer' = buffer /\ parts' = parts
  BY DEF Pull
<1>3. k \in Nat \ {0} /\ length \in Nat /\ taken \in Nat
  BY ChunksAssumption, Places DEF HeldInv
<1>4. At = taken /\ Len(buffer) \in 0..At /\ Behind = At - Len(buffer)
  BY <1>2, <1>3, Places DEF Behind
<1>5. chunk' = Piece(taken, taken + k)
  <2>1. /\ taken + k \in 0..(length - 0) /\ taken \in 0..(taken + k)
        /\ 0 \in Nat /\ 0 <= length
    BY <1>1, <1>3
  <2>2. SubSeq(Piece(0, length), taken + 1, taken + k) = Piece(0 + taken, 0 + (taken + k))
    BY <1>3, <2>1, PieceSub
  <2>3. 0 + taken = taken /\ 0 + (taken + k) = taken + k
    BY <1>3
  <2> QED BY <1>1, <1>3, <2>2, <2>3, PayloadIs
<1>6. Len(chunk') = k
  <2>1. Len(chunk') = (taken + k) - taken
    BY <1>3, <1>5, PieceIs
  <2> QED BY <1>3, <2>1
<1>7. At' = At /\ Behind' = Behind
  BY <1>1, <1>2, <1>3, <1>4, <1>6 DEF At, Behind
<1> QED BY <1>1, <1>2, <1>3, <1>4, <1>5, <1>6, <1>7 DEF HeldInv

\* Bytes go from the chunk to the buffer, as many as fit.
LEMMA CopyHeld ==
  ASSUME HeldInv, Copy
  PROVE  HeldInv'
<1> DEFINE room == PartSize - Len(buffer)
           take == IF room < Len(chunk) THEN room ELSE Len(chunk)
<1>1. /\ pc = "read" /\ chunk # <<>>
      /\ buffer' = buffer \o SubSeq(chunk, 1, take)
      /\ chunk' = SubSeq(chunk, take + 1, Len(chunk))
      /\ pc' = IF take = room THEN "part" ELSE "read"
      /\ length' = length /\ taken' = taken /\ parts' = parts
  BY DEF Copy, Goto
<1>2. /\ At \in Nat /\ Behind \in Nat /\ taken \in Nat
      /\ Behind <= At /\ At <= taken /\ taken <= length
      /\ Len(chunk) = taken - At /\ Len(buffer) = At - Behind
      /\ chunk = Piece(At, taken) /\ buffer = Piece(Behind, At)
  BY Places DEF HeldInv
<1>3. room \in Nat \ {0} /\ take \in 0..(taken - At) /\ take <= room
      /\ (take # room => take < room)
  <2>1. Len(buffer) < PartSize /\ Len(buffer) \in Nat /\ Len(chunk) \in Nat /\ PartSize \in Nat
    BY <1>1, <1>2, PartAssumption DEF HeldInv
  <2> QED BY <1>2, <2>1
<1> HIDE DEF take, room
<1>4. SubSeq(chunk, 1, take) = Piece(At, At + take)
  <2>1. SubSeq(Piece(At, taken), 0 + 1, take) = Piece(At + 0, At + take)
    <3>1. take \in 0..(taken - At) /\ 0 \in 0..take
      BY <1>3
    <3> QED BY ONLY <1>2, <3>1, PieceSub
  <2>2. 0 + 1 = 1 /\ At + 0 = At
    BY <1>2
  <2> QED BY <1>2, <2>1, <2>2
<1>5. chunk' = Piece(At + take, taken)
  <2>1. taken - At \in 0..(taken - At)
    BY <1>2
  <2>2. SubSeq(Piece(At, taken), take + 1, taken - At) = Piece(At + take, At + (taken - At))
    BY <1>2, <1>3, <2>1, PieceSub
  <2>3. At + (taken - At) = taken
    BY <1>2
  <2> QED BY <1>1, <1>2, <2>2, <2>3
<1>6. buffer' = Piece(Behind, At + take)
  <2>1. Behind <= At /\ At <= At + take /\ At + take \in Nat
    BY <1>2, <1>3
  <2>2. Piece(Behind, At) \o Piece(At, At + take) = Piece(Behind, At + take)
    BY <1>2, <2>1, PieceJoin
  <2> QED BY <1>1, <1>2, <1>4, <2>2
<1>7. Len(chunk') = taken - (At + take) /\ Len(buffer') = (At + take) - Behind
  <2>1. At + take \in Nat /\ At + take <= taken /\ Behind <= At + take
    BY <1>2, <1>3
  <2> QED BY <1>2, <1>5, <1>6, <2>1, PieceIs
<1>8. At' = At + take /\ Behind' = Behind
  <2>1. At' = taken - Len(chunk')
    BY <1>1 DEF At
  <2>2. At' = At + take
    BY <1>2, <1>3, <1>7, <2>1
  <2>3. Behind' = At' - Len(buffer')
    BY DEF Behind
  <2> QED BY <1>2, <1>3, <1>7, <2>2, <2>3
<1>9. pc' = "read" => Len(buffer') < PartSize
  <2> HAVE pc' = "read"
  <2>1. take < room
    BY <1>1, <1>3
  <2>2. room = PartSize - (At - Behind) /\ PartSize \in Nat
    BY <1>2, PartAssumption DEF room
  <2> QED BY <1>2, <1>3, <1>7, <2>1, <2>2
<1>10. /\ length' \in Nat /\ taken' \in 0..length'
       /\ Len(chunk') \in 0..taken' /\ Len(buffer') \in 0..At'
  BY <1>1, <1>2, <1>3, <1>7, <1>8 DEF HeldInv
<1>11. parts' \in Seq(Seq(Nat)) /\ FlattenSeq(parts') = Piece(0, Behind')
  BY <1>1, <1>8 DEF HeldInv
<1>12. pc' \in {"part", "read"}
  BY <1>1
<1> QED BY <1>1, <1>5, <1>6, <1>8, <1>9, <1>10, <1>11, <1>12 DEF HeldInv

\* The part that was sent is the next one.
LEMMA PartHeld ==
  ASSUME HeldInv, OnPart
  PROVE  HeldInv'
<1>1. /\ parts' = Append(parts, buffer) /\ buffer' = <<>> /\ pc' = "read"
      /\ length' = length /\ taken' = taken /\ chunk' = chunk
  BY DEF OnPart, Goto
<1>2. /\ At \in Nat /\ Behind \in Nat /\ Behind <= At
      /\ buffer = Piece(Behind, At) /\ buffer \in Seq(Nat)
      /\ parts \in Seq(Seq(Nat)) /\ FlattenSeq(parts) = Piece(0, Behind)
  BY Places DEF HeldInv
<1>3. Len(buffer') = 0 /\ At' = At /\ Behind' = At
  BY <1>1, <1>2 DEF At, Behind
<1>4. buffer' = Piece(Behind', At')
  BY <1>1, <1>2, <1>3, PieceEmpty
<1>5. FlattenSeq(parts') = Piece(0, At)
  <2>1. FlattenSeq(Append(parts, buffer)) = FlattenSeq(parts) \o buffer
    BY <1>2, FlattenAppend
  <2>2. Piece(0, Behind) \o Piece(Behind, At) = Piece(0, At)
    <3>1. 0 \in Nat /\ 0 <= Behind
      BY <1>2
    <3> QED BY ONLY <1>2, <3>1, PieceJoin
  <2> QED BY <1>1, <1>2, <2>1, <2>2
<1>6. parts' \in Seq(Seq(Nat))
  BY <1>1, <1>2, AppendProperties
<1> QED BY <1>1, <1>2, <1>3, <1>4, <1>5, <1>6, PartAssumption DEF HeldInv

\* Everything that was read is in the parts.
LEMMA CompleteHeld ==
  ASSUME HeldInv, Complete
  PROVE  HeldInv'
<1>1. /\ chunk = <<>> /\ taken = length /\ buffer = <<>> /\ pc' = "complete"
      /\ UNCHANGED <<length, taken, chunk, buffer, parts>>
  BY DEF Complete, Goto, client
<1>2. Len(chunk) = 0 /\ Len(buffer) = 0 /\ length \in Nat
  BY <1>1 DEF HeldInv
<1>3. Behind = length
  BY <1>1, <1>2 DEF At, Behind
<1> QED BY <1>1, <1>3, HeldStep

\* The client moves bytes from one place to the next.
LEMMA ClientHeld ==
  ASSUME HeldInv, Client
  PROVE  HeldInv'
<1> USE DEF Goto, client
<1>1. CASE Retry
  <2>1. pc' = pc /\ UNCHANGED <<length, taken, chunk, buffer, parts>>
    BY <1>1 DEF Retry
  <2> QED BY <2>1, HeldStep DEF HeldInv
<1>2. CASE OnPut \/ Reject \/ LastPart \/ OnComplete \/ Discard \/ OnAbort
  <2>1. /\ pc' \in {"done", "failed", "part", "abort"}
        /\ UNCHANGED <<length, taken, chunk, buffer, parts>>
    BY <1>2 DEF OnPut, Reject, LastPart, OnComplete, Discard, OnAbort
  <2> QED BY <2>1, HeldStep
<1>3. CASE OnCreated
  <2>1. /\ pc = "create" /\ pc' = "read"
        /\ UNCHANGED <<length, taken, chunk, buffer, parts>>
    BY <1>3 DEF OnCreated
  <2> QED BY <2>1, HeldStep DEF HeldInv
<1> QED
  BY <1>1, <1>2, <1>3, PullHeld, CopyHeld, PartHeld, CompleteHeld DEF Client

\* The bucket takes the whole payload or leaves what is there.
LEMMA ServeObject ==
  ASSUME BytesInv, Serve
  PROVE  /\ UNCHANGED <<length, taken, chunk, buffer, parts, pc>>
         /\ object' \in {object, Payload}
         /\ pc \in {"put", "complete"} /\ reply' = "ok" => object' = Payload
         /\ pc \in Request
<1>1. UNCHANGED <<length, taken, chunk, buffer, parts, pc>> /\ pc \in Request
  BY DEF Serve, client
<1>2. CASE ServePut
  BY <1>1, <1>2 DEF ServePut
<1>3. CASE ServeCreate \/ ServePart \/ ServeAbort
  BY <1>1, <1>3 DEF ServeCreate, ServePart, ServeAbort
<1>4. CASE ServeComplete
  <2>1. object' = FlattenSeq(parts) /\ pc = "complete"
    BY <1>4 DEF ServeComplete
  <2>2. FlattenSeq(parts) = Piece(0, length) /\ length \in Nat
    BY <2>1 DEF BytesInv, HeldInv
  <2>3. object' = Payload
    BY <2>1, <2>2, PayloadIs
  <2> QED BY <1>1, <2>3
<1>5. CASE Refuse
  BY <1>1, <1>5 DEF Refuse, bucket
<1> QED BY <1>2, <1>3, <1>4, <1>5 DEF Serve

\* The client believes an answer only.
LEMMA ClientObject ==
  ASSUME BytesInv, Client
  PROVE  ObjectInv' /\ UNCHANGED <<length, object>> /\ Payload' = Payload
<1>1. UNCHANGED <<length, object>>
  BY DEF Client, Retry, OnPut, OnCreated, Reject, Pull, Copy, LastPart, OnPart, Complete,
         OnComplete, Discard, OnAbort, client, bucket
<1>2. Payload' = Payload /\ Old' = Old
  BY <1>1 DEF Payload, Old
<1>3. object' \in {Old, Payload'}
  BY <1>1, <1>2 DEF BytesInv, ObjectInv
<1>4. CASE OnPut \/ OnComplete
  <2>1. object = Payload /\ reply' = "none"
    BY <1>4 DEF OnPut, OnComplete, Goto, BytesInv, ObjectInv
  <2> QED BY <1>1, <1>2, <1>3, <2>1 DEF ObjectInv
<1>5. CASE Retry \/ OnCreated \/ Reject \/ LastPart \/ OnPart \/ Complete \/ Discard
  <2>1. reply' = "none" /\ pc' # "done"
    BY <1>5 DEF Retry, OnCreated, Reject, LastPart, OnPart, Complete, Discard, Goto, Request
  <2> QED BY <1>1, <1>2, <1>3, <2>1 DEF ObjectInv
<1>6. CASE Pull \/ Copy \/ OnAbort
  <2>1. pc' \in {"read", "part", "failed"}
    BY <1>6 DEF Pull, Copy, OnAbort, Goto
  <2> QED BY <1>1, <1>2, <1>3, <2>1 DEF ObjectInv
<1> QED BY <1>1, <1>2, <1>4, <1>5, <1>6 DEF Client

\* The invariant that the refinement rests on.
LEMMA BytesStep ==
  ASSUME BytesInv, Next
  PROVE  BytesInv'
<1>1. CASE Client
  BY <1>1, ClientHeld, ClientObject DEF BytesInv
<1>2. CASE Serve
  <2>1. HeldInv'
    BY <1>2, ServeObject, HeldStep DEF BytesInv, HeldInv
  <2>2. Payload' = Payload /\ Old' = Old
    BY <1>2, ServeObject DEF Payload, Old
  <2>3. ObjectInv'
    <3>1. pc # "done"
      BY <1>2 DEF Serve, Request
    <3> QED BY <1>2, <2>2, <3>1, ServeObject DEF BytesInv, ObjectInv
  <2> QED BY <2>1, <2>3 DEF BytesInv
<1> QED BY <1>1, <1>2 DEF Next

\* The object is the old one or the whole payload, the parts are the beginning of
\* the payload, and a good answer means that the object is there: for every
\* payload, cut of the source, part size, and course of requests.
THEOREM BytesKept ==
  Spec => []BytesInv
<1>1. BytesInv /\ UNCHANGED vars => BytesInv'
  BY DEF BytesInv, HeldInv, ObjectInv, At, Behind, Payload, Old, vars, client, bucket
<1>2. BytesInv /\ [Next]_vars => BytesInv'
  BY <1>1, BytesStep
<1> QED
  BY InitBytes, <1>2, PTL DEF Spec

\* Each step of an upload publishes the whole object, succeeds with it there,
\* gives up, or is not seen.
LEMMA StepKeeps ==
  ASSUME BytesInv, Next
  PROVE  Contract!UNext \/ UNCHANGED Contract!uvars
<1> USE DEF Contract!UNext, Contract!uvars
<1>1. CASE Serve
  <2>1. /\ pc' = pc /\ pc \notin {"done", "failed"} /\ length' = length
        /\ object' \in {object, Payload}
    BY <1>1, ServeObject DEF Request
  <2>2. Payload' = Payload
    BY <2>1 DEF Payload
  <2>3. object \in {Old, Payload}
    BY DEF BytesInv, ObjectInv
  <2>4. CASE object' = object
    BY <2>1, <2>2, <2>4
  <2>5. CASE object' # object
    <3>1. object = Old /\ object' = Payload
      BY <2>1, <2>3, <2>5
    <3> QED BY <2>1, <2>2, <3>1 DEF Contract!Publish
  <2> QED BY <2>4, <2>5
<1>2. CASE Client
  <2>1. object' = object /\ Payload' = Payload
    BY <1>2, ClientObject
  <2>2. CASE OnPut \/ OnComplete
    <3>1. pc \in {"put", "complete"} /\ reply = "ok" /\ pc' = "done"
      BY <2>2 DEF OnPut, OnComplete, Goto
    <3>2. object = Payload
      BY <3>1 DEF BytesInv, ObjectInv
    <3> QED BY <2>1, <3>1, <3>2 DEF Contract!Succeed
  <2>3. CASE Reject \/ OnAbort
    <3>1. pc \in {"put", "create", "abort"} /\ pc' = "failed"
      BY <2>3 DEF Reject, OnAbort, Goto
    <3> QED BY <2>1, <3>1 DEF Contract!GiveUp
  <2>4. CASE Retry \/ OnCreated \/ Pull \/ Copy \/ LastPart \/ OnPart \/ Complete \/ Discard
    <3>1. pc \notin {"done", "failed"} /\ pc' \notin {"done", "failed"}
      BY <2>4 DEF Retry, OnCreated, Pull, Copy, LastPart, OnPart, Complete, Discard, Goto,
                  Request
    <3> QED BY <2>1, <3>1
  <2> QED BY <1>2, <2>2, <2>3, <2>4 DEF Client
<1> QED BY <1>1, <1>2 DEF Next

\* An upload to a bucket does what every upload promises: however the body is cut
\* into parts and requests are lost, refused and sent again, the key holds the
\* old object or the whole new one, and success means that it is replaced.
THEOREM BucketKeepsContract ==
  Spec => ImplementsContract
<1>1. Init => Contract!UInit
  BY DEF Init, Contract!UInit
<1>2. BytesInv /\ [Next]_vars => [Contract!UNext]_(Contract!uvars)
  <2>1. UNCHANGED vars => UNCHANGED Contract!uvars
    BY DEF vars, client, bucket, Contract!uvars, Payload
  <2> QED BY <2>1, StepKeeps
<1> QED
  BY <1>1, <1>2, BytesKept, PTL DEF Spec, ImplementsContract, Contract!USpec

=============================================================================
