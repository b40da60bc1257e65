------------------------------ MODULE E2EEProofs ------------------------------
(***************************************************************************)
(* Proofs about E2EEFraming.                                               *)
(***************************************************************************)
EXTENDS E2EEFraming, SequenceTheorems, WellFoundedInduction, TLAPS

-----------------------------------------------------------------------------
(* Induction, as the least element of the set of counterexamples.          *)

\* A non-empty set of natural numbers has a least element.
LEMMA LeastElement ==
  ASSUME NEW T \in SUBSET Nat, T # {}
  PROVE  \E x \in T : \A y \in T : x <= y
<1> DEFINE R == {ss \in Nat \X Nat : ss[1] < ss[2]}
<1>1. IsWellFoundedOn(R, Nat)
  BY NatLessThanWellFounded DEF OpToRel
<1>2. \E x \in T : \A y \in T : ~ (<<y, x>> \in R)
  <2> HIDE DEF R
  <2> QED BY <1>1, WFMin, Zenon
<1>3. PICK x \in T : \A y \in T : ~ (<<y, x>> \in R)
  BY <1>2
<1>4. ASSUME NEW y \in T PROVE x <= y
  <2>1. x \in Nat /\ y \in Nat
    OBVIOUS
  <2>2. y < x => <<y, x>> \in R
    BY <2>1
  <2>3. ~ (y < x)
    BY <1>3, <2>2
  <2> HIDE DEF R
  <2> QED BY <2>1, <2>3
<1> QED BY <1>4

\* A set that holds 1, and i + 1 whenever it holds i < n, holds all of 1..n.
LEMMA Climb ==
  ASSUME NEW n \in Nat, NEW Good, 1 \in Good,
         \A i \in 1..n : i \in Good /\ i < n => i + 1 \in Good
  PROVE  1..n \subseteq Good
<1> DEFINE T == (1..n) \ Good
<1> SUFFICES ASSUME T # {} PROVE FALSE
  OBVIOUS
<1>1. T \in SUBSET Nat
  OBVIOUS
<1>2. PICK x \in T : \A y \in T : x <= y
  BY <1>1, LeastElement
<1>3. x \in 2..n
  OBVIOUS
<1>4. x - 1 \in 1..n /\ x - 1 \notin T
  BY <1>2, <1>3
<1> QED BY <1>3, <1>4

-----------------------------------------------------------------------------
(* Concatenation of a sequence of sequences.                               *)

\* f is the running concatenation of the first n elements of seqs.
Running(f, seqs, n) ==
  f = [i \in 1..n |-> IF i = 1 THEN seqs[i] ELSE f[i - 1] \o seqs[i]]

\* Every sequence of sequences has one.
LEMMA RunningExists ==
  ASSUME NEW n \in Nat \ {0}, NEW seqs
  PROVE  \E f : Running(f, seqs, n)
<1> DEFINE Good == {i \in Nat : \E f : Running(f, seqs, i)}
<1>1. 1 \in Good
  <2> DEFINE f == [i \in 1..1 |-> seqs[i]]
  <2> Running(f, seqs, 1)
    BY DEF Running
  <2> QED OBVIOUS
<1>2. ASSUME NEW i \in 1..n, i \in Good PROVE i + 1 \in Good
  <2>1. PICK f : Running(f, seqs, i)
    BY <1>2
  <2> DEFINE g == [j \in 1..(i + 1) |-> IF j = i + 1 THEN f[i] \o seqs[i + 1] ELSE f[j]]
  <2>2. ASSUME NEW j \in 1..(i + 1)
        PROVE  g[j] = IF j = 1 THEN seqs[j] ELSE g[j - 1] \o seqs[j]
    <3>1. CASE j = i + 1
      <4>1. j # 1 /\ j - 1 = i
        BY <3>1
      <4>3. g[j] = f[i] \o seqs[j]
        BY <3>1
      <4>2. g[i] = f[i]
        OBVIOUS
      <4> HIDE DEF g
      <4> QED BY <4>1, <4>2, <4>3
    <3>2. CASE j # i + 1
      <4>1. j \in 1..i /\ g[j] = f[j] /\ (j # 1 => g[j - 1] = f[j - 1])
        BY <3>2
      <4>2. f[j] = IF j = 1 THEN seqs[j] ELSE f[j - 1] \o seqs[j]
        BY <2>1, <4>1 DEF Running
      <4> QED BY <4>1, <4>2
    <3> QED BY <3>1, <3>2
  <2>3. Running(g, seqs, i + 1)
    <3>1. g = [j \in 1..(i + 1) |-> g[j]]
      OBVIOUS
    <3> HIDE DEF g
    <3> QED BY <2>2, <3>1 DEF Running
  <2> QED BY <2>3
<1>3. 1..n \subseteq Good
  <2> HIDE DEF Good
  <2> QED BY <1>1, <1>2, Climb
<1> QED BY <1>3

\* FlattenSeq returns the last element of a running concatenation.
LEMMA FlattenRuns ==
  ASSUME NEW n \in Nat \ {0}, NEW seqs, Len(seqs) = n
  PROVE  \E f : Running(f, seqs, n) /\ FlattenSeq(seqs) = f[n]
<1> DEFINE f == CHOOSE g : g = [i \in 1..n |-> IF i = 1 THEN seqs[i] ELSE g[i - 1] \o seqs[i]]
<1>1. Running(f, seqs, n)
  BY RunningExists DEF Running
<1>2. FlattenSeq(seqs) = f[n]
  BY DEF FlattenSeq
<1> QED BY <1>1, <1>2

-----------------------------------------------------------------------------
(* Where frames begin and end.                                             *)

Cut(n, k) == IF k * FrameSize < n THEN k * FrameSize ELSE n

Part(bytes, k) == SubSeq(bytes, (k - 1) * FrameSize + 1, Cut(Len(bytes), k))

\* Frames are of one size, so that a later frame begins further on.
LEMMA Later ==
  ASSUME NEW a \in Nat, NEW b \in Nat, a < b
  PROVE  /\ a * FrameSize \in Nat /\ b * FrameSize \in Nat
         /\ (a + 1) * FrameSize = a * FrameSize + FrameSize
         /\ (a + 1) * FrameSize <= b * FrameSize
<1>1. FrameSize \in Nat \ {0}
  BY FrameAssumption
<1>2. a * FrameSize \in Nat /\ b * FrameSize \in Nat
  BY <1>1
<1>3. (a + 1) * FrameSize = a * FrameSize + FrameSize
  BY <1>1
<1>4. (a + 1) * FrameSize <= b * FrameSize
  <2> DEFINE d == b - (a + 1)
  <2>1. d \in Nat /\ b = (a + 1) + d
    OBVIOUS
  <2>2. d * FrameSize \in Nat
    BY <1>1, <2>1
  <2>3. b * FrameSize = (a + 1) * FrameSize + d * FrameSize
    BY ONLY <1>1, <2>1
  <2>4. (a + 1) * FrameSize \in Nat
    BY <1>1
  <2> HIDE DEF d
  <2> QED BY <2>2, <2>3, <2>4
<1> QED BY <1>2, <1>3, <1>4

\* The frame that holds the last byte is the last frame.
LEMMA LastFrame ==
  ASSUME NEW n \in Nat, NEW k \in Nat,
         k * FrameSize < n \/ (k = 0 /\ n = 0),
         n <= (k + 1) * FrameSize
  PROVE  FrameCount(n) = k + 1
<1>1. FrameSize \in Nat \ {0}
  BY FrameAssumption
<1>2. CASE n = 0
  BY <1>1, <1>2 DEF FrameCount
<1>3. CASE n # 0
  <2> DEFINE q == (n + FrameSize - 1) \div FrameSize
  <2>1. q \in Nat /\ q * FrameSize <= n + FrameSize - 1 /\ n + FrameSize - 1 < q * FrameSize + FrameSize
    BY <1>1
  <2>2. FrameCount(n) = q
    BY <1>3 DEF FrameCount
  <2> HIDE DEF q
  <2>3. k * FrameSize \in Nat /\ (k + 1) * FrameSize = k * FrameSize + FrameSize
        /\ q * FrameSize \in Nat
    BY <1>1, <2>1, Later
  <2>4. ~ (q < k + 1)
    <3> SUFFICES ASSUME q < k + 1 PROVE FALSE
      OBVIOUS
    <3>1. (q + 1) * FrameSize = q * FrameSize + FrameSize /\ (q + 1) * FrameSize <= (k + 1) * FrameSize
      BY <2>1, Later
    <3> QED BY <1>1, <1>3, <2>1, <2>3, <3>1
  <2>5. ~ (k + 1 < q)
    <3> SUFFICES ASSUME k + 1 < q PROVE FALSE
      OBVIOUS
    <3>1. ((k + 1) + 1) * FrameSize = (k + 1) * FrameSize + FrameSize
          /\ ((k + 1) + 1) * FrameSize <= q * FrameSize
      BY <2>1, Later
    <3> QED BY <1>1, <2>1, <2>3, <3>1
  <2> QED BY <2>1, <2>2, <2>4, <2>5
<1> QED BY <1>2, <1>3

\* Every payload has a last frame.
LEMMA FrameCountFits ==
  ASSUME NEW n \in Nat
  PROVE  /\ FrameCount(n) \in Nat \ {0}
         /\ n <= FrameCount(n) * FrameSize
         /\ (FrameCount(n) - 1) * FrameSize < n \/ (n = 0 /\ FrameCount(n) = 1)
<1>1. FrameSize \in Nat \ {0}
  BY FrameAssumption
<1>2. CASE n = 0
  BY <1>1, <1>2 DEF FrameCount
<1>3. CASE n # 0
  <2> DEFINE q == (n + FrameSize - 1) \div FrameSize
  <2>1. q \in Nat /\ q * FrameSize <= n + FrameSize - 1 /\ n + FrameSize - 1 < q * FrameSize + FrameSize
    BY <1>1
  <2>2. FrameCount(n) = q
    BY <1>3 DEF FrameCount
  <2> HIDE DEF q
  <2>3. q * FrameSize \in Nat
    BY <1>1, <2>1
  <2>4. q # 0
    BY <1>1, <1>3, <2>1
  <2>5. (q - 1) * FrameSize = q * FrameSize - FrameSize
    BY <1>1, <2>1
  <2> QED BY <1>1, <1>3, <2>1, <2>2, <2>3, <2>4, <2>5
<1> QED BY <1>2, <1>3

\* A frame before the last one is full, and there is more behind it.
LEMMA InnerFrame ==
  ASSUME NEW n \in Nat, NEW k \in Nat, k + 1 < FrameCount(n)
  PROVE  /\ k * FrameSize \in Nat
         /\ (k + 1) * FrameSize = k * FrameSize + FrameSize
         /\ (k + 1) * FrameSize < n
<1> DEFINE c == FrameCount(n)
<1>1. c \in Nat \ {0} /\ (c - 1) * FrameSize < n
  BY FrameCountFits
<1>2. FrameSize \in Nat \ {0}
  BY FrameAssumption
<1> HIDE DEF c
<1>3. k + 1 < c
  BY DEF c
<1>4. c - 1 \in Nat /\ (k + 1 < c - 1 \/ k + 1 = c - 1)
  BY <1>1, <1>3
<1>5. (k + 1) * FrameSize <= (c - 1) * FrameSize
  <2>1. CASE k + 1 = c - 1
    <3>1. (c - 1) * FrameSize \in Int
      BY <1>2, <1>4
    <3> QED BY <2>1, <3>1
  <2>2. CASE k + 1 < c - 1
    BY <1>2, <1>4, <2>2, Later
  <2> QED BY <1>4, <2>1, <2>2
<1>6. k * FrameSize \in Nat /\ (k + 1) * FrameSize = k * FrameSize + FrameSize
      /\ (c - 1) * FrameSize \in Nat
  BY <1>2, <1>4, Later
<1> QED BY <1>1, <1>2, <1>5, <1>6

-----------------------------------------------------------------------------
(* The frames of a payload.                                                *)

\* Where the k-th frame lies in its payload.
LEMMA PartBounds ==
  ASSUME NEW bytes \in Seq(Int), NEW k \in 1..FrameCount(Len(bytes))
  PROVE  /\ Len(bytes) \in Nat /\ k - 1 \in Nat
         /\ FrameCount(Len(bytes)) \in Nat \ {0}
         /\ (k - 1) * FrameSize \in 0..Len(bytes)
         /\ Cut(Len(bytes), k) \in ((k - 1) * FrameSize)..Len(bytes)
         /\ Part(bytes, k) \in Seq(Int)
         /\ Len(Part(bytes, k)) = Cut(Len(bytes), k) - (k - 1) * FrameSize
         /\ Len(Part(bytes, k)) \in 0..FrameSize
         /\ k = FrameCount(Len(bytes)) => Cut(Len(bytes), k) = Len(bytes)
         /\ k < FrameCount(Len(bytes)) =>
              /\ Cut(Len(bytes), k) = k * FrameSize /\ k * FrameSize < Len(bytes)
              /\ k * FrameSize = (k - 1) * FrameSize + FrameSize
<1> DEFINE n == Len(bytes)
           c == FrameCount(n)
           a == (k - 1) * FrameSize
           z == Cut(n, k)
<1>1. n \in Nat
  BY LenProperties
<1>2. /\ c \in Nat \ {0} /\ n <= c * FrameSize
      /\ (c - 1) * FrameSize < n \/ (n = 0 /\ c = 1)
  BY <1>1, FrameCountFits
<1>3. FrameSize \in Nat \ {0}
  BY FrameAssumption
<1>4. k - 1 \in Nat /\ k \in Nat /\ k <= c
  BY <1>2
<1>5. a \in Nat /\ k * FrameSize = a + FrameSize
  <2>1. ((k - 1) + 1) * FrameSize = a + FrameSize /\ a \in Nat
    BY <1>4, Later
  <2>2. (k - 1) + 1 = k
    BY <1>4
  <2> QED BY <2>1, <2>2
<1>6. k < c => k * FrameSize < n
  <2> HAVE k < c
  <2>1. (k - 1) + 1 = k
    BY <1>4
  <2> QED BY <1>1, <1>4, <2>1, InnerFrame
<1>7. k = c => a <= n /\ n <= k * FrameSize
  <2> HAVE k = c
  <2>1. n <= k * FrameSize
    BY <1>2
  <2>2. a < n \/ (n = 0 /\ k = 1)
    BY <1>2
  <2>3. k = 1 => a = 0
    BY <1>3
  <2> QED BY <1>1, <1>5, <2>1, <2>2, <2>3
<1>8. a \in 0..n /\ z \in a..n /\ z - a \in 0..FrameSize
  <2> HIDE DEF a, n, c
  <2> QED BY <1>1, <1>2, <1>3, <1>4, <1>5, <1>6, <1>7 DEF Cut
<1>9. (k = c => z = n) /\ (k < c => z = k * FrameSize)
  <2> HIDE DEF a, n, c
  <2> QED BY <1>1, <1>3, <1>5, <1>6, <1>7 DEF Cut
<1>10. Part(bytes, k) \in Seq(Int) /\ Len(Part(bytes, k)) = z - a
  <2>1. \A i \in (a + 1)..z : bytes[i] \in Int
    BY <1>8, ElementOfSeq
  <2>2. a + 1 \in Int /\ z \in Int /\ (a + 1 <= z \/ z = a)
    <3> HIDE DEF a, n, z
    <3> QED BY <1>1, <1>8
  <2> HIDE DEF a, n, z
  <2>3. /\ SubSeq(bytes, a + 1, z) \in Seq(Int)
        /\ Len(SubSeq(bytes, a + 1, z)) = IF a + 1 <= z THEN z - (a + 1) + 1 ELSE 0
    BY <2>1, <2>2, SubSeqProperties
  <2>4. Part(bytes, k) = SubSeq(bytes, a + 1, z)
    BY DEF Part, a, n, z
  <2> QED BY <1>1, <1>8, <2>2, <2>3, <2>4
<1> HIDE DEF a, n, c, z
<1>11. /\ Len(Part(bytes, k)) \in 0..FrameSize
       /\ k < c => k * FrameSize = a + FrameSize
  BY <1>5, <1>8, <1>10
<1> QED BY <1>1, <1>2, <1>4, <1>6, <1>8, <1>9, <1>10, <1>11 DEF a, n, c, z

\* A frame continues what the frames before it hold; after the last one that is
\* all.
LEMMA Opening ==
  ASSUME NEW bytes \in Seq(Int), NEW i \in Nat, i + 1 <= FrameCount(Len(bytes))
  PROVE  /\ SubSeq(bytes, 1, i * FrameSize) \o Part(bytes, i + 1)
              = SubSeq(bytes, 1, Cut(Len(bytes), i + 1))
         /\ i + 1 = FrameCount(Len(bytes)) =>
              SubSeq(bytes, 1, i * FrameSize) \o Part(bytes, i + 1) = bytes
<1> DEFINE a == i * FrameSize
           z == Cut(Len(bytes), i + 1)
<1>1. Len(bytes) \in Nat
  BY LenProperties
<1>2. i + 1 \in 1..FrameCount(Len(bytes)) /\ (i + 1) - 1 = i
  BY <1>1, FrameCountFits
<1>3. /\ a \in 0..Len(bytes) /\ z \in a..Len(bytes)
      /\ i + 1 = FrameCount(Len(bytes)) => z = Len(bytes)
  BY <1>2, PartBounds
<1>4. Part(bytes, i + 1) = SubSeq(bytes, a + 1, z)
  BY <1>2 DEF Part
<1> HIDE DEF a, z
<1>5. SubSeq(bytes, 1, a) \o SubSeq(bytes, a + 1, z) = SubSeq(bytes, 1, z)
  <2>1. 1 \in 1..(Len(bytes) + 1) /\ a \in (1 - 1)..Len(bytes)
    BY <1>1, <1>3
  <2> QED BY <1>3, <2>1, ConcatAdjacentSubSeq
<1>6. SubSeq(bytes, 1, Len(bytes)) = bytes
  BY SubSeqFull
<1> QED BY <1>3, <1>4, <1>5, <1>6 DEF a, z

-----------------------------------------------------------------------------
(* What an envelope is made of.                                            *)

\* The tags that one upload may carry, framed or in one piece: each vouches for
\* what its number and its finality say it vouches for.
Vouched(of, bytes) ==
  {Tag(of, k - 1, k = FrameCount(Len(bytes)), Part(bytes, k)) : k \in 1..FrameCount(Len(bytes))}
  \cup {Tag(of, 0, TRUE, bytes)}

Units(of, bytes) ==
  {Magic(version) : version \in {"V2", "V3"}} \cup {Params(of), Junk}
  \cup {Size(n) : n \in Nat} \cup Vouched(of, bytes)
  \cup {Cipher(of, x[1], x[2]) : x \in Nat \X Int}

PartFrame(of, bytes, k) ==
  EncryptFrame(of, k - 1, k = FrameCount(Len(bytes)), Part(bytes, k))

\* The envelope up to its k-th frame.
Begun(of, bytes) ==
  LET f[k \in 0..FrameCount(Len(bytes))] ==
        IF k = 0 THEN Header("V3", of) ELSE f[k - 1] \o PartFrame(of, bytes, k)
  IN  f

\* And what comes after that.
Rest(of, bytes, k) ==
  SubSeq(WholeEnvelope(of, bytes), Len(Begun(of, bytes)[k]) + 1, Len(WholeEnvelope(of, bytes)))

\* The ciphertext is one unit for each byte.
LEMMA SealedUnits ==
  ASSUME NEW of, NEW all, NEW bytes \in Seq(Int), NEW i \in Nat
  PROVE  /\ Sealed(of, i, bytes) \in Seq(Units(of, all))
         /\ Len(Sealed(of, i, bytes)) = Len(bytes)
<1>1. Len(bytes) \in Nat /\ \A k \in 1..Len(bytes) : bytes[k] \in Int
  BY LenProperties, ElementOfSeq
<1>2. ASSUME NEW k \in 1..Len(bytes)
      PROVE  Cipher(of, i, bytes[k]) \in Units(of, all)
  <2> DEFINE x == <<i, bytes[k]>>
  <2>1. x \in Nat \X Int /\ x[1] = i /\ x[2] = bytes[k]
    BY <1>1
  <2>2. Cipher(of, x[1], x[2]) \in {Cipher(of, y[1], y[2]) : y \in Nat \X Int}
    BY <2>1
  <2>3. Cipher(of, i, bytes[k]) \in {Cipher(of, y[1], y[2]) : y \in Nat \X Int}
    BY <2>1, <2>2
  <2> QED BY <2>3, Zenon DEF Units
<1>3. Sealed(of, i, bytes) = [k \in 1..Len(bytes) |-> Cipher(of, i, bytes[k])]
  BY DEF Sealed
<1> DEFINE S == Units(of, all)
           e(k) == Cipher(of, i, bytes[k])
<1>4. \A k \in 1..Len(bytes) : e(k) \in S
  BY <1>2
<1> HIDE DEF S, e
<1>5. [k \in 1..Len(bytes) |-> e(k)] \in Seq(S) /\ Len([k \in 1..Len(bytes) |-> e(k)]) = Len(bytes)
  BY <1>1, <1>4
<1> QED BY <1>3, <1>5 DEF S, e

\* A frame's length, its tag and its ciphertext.
LEMMA PartFrameUnits ==
  ASSUME NEW of, NEW bytes \in Seq(Int), NEW k \in 1..FrameCount(Len(bytes))
  PROVE  LET part == Part(bytes, k)
             tag  == Tag(of, k - 1, k = FrameCount(Len(bytes)), part)
         IN  /\ PartFrame(of, bytes, k) = <<Size(Len(part)), tag>> \o Sealed(of, k - 1, part)
             /\ <<Size(Len(part)), tag>> \in Seq(Units(of, bytes))
             /\ Sealed(of, k - 1, part) \in Seq(Units(of, bytes))
             /\ Len(Sealed(of, k - 1, part)) = Len(part)
             /\ PartFrame(of, bytes, k) \in Seq(Units(of, bytes))
             /\ Len(PartFrame(of, bytes, k)) = 2 + Len(part)
<1> DEFINE part == Part(bytes, k)
           tag  == Tag(of, k - 1, k = FrameCount(Len(bytes)), part)
           U    == Units(of, bytes)
<1>1. part \in Seq(Int) /\ Len(part) \in Nat /\ k - 1 \in Nat
  BY PartBounds, FrameAssumption, LenProperties
<1>2. PartFrame(of, bytes, k) = <<Size(Len(part)), tag>> \o Sealed(of, k - 1, part)
  BY DEF PartFrame, EncryptFrame
<1>3. tag \in U
  BY Zenon DEF Units, Vouched
<1>4. Size(Len(part)) \in U
  <2>1. Size(Len(part)) \in {Size(n) : n \in Nat}
    BY <1>1
  <2> QED BY <2>1, Zenon DEF Units
<1>5. Sealed(of, k - 1, part) \in Seq(U) /\ Len(Sealed(of, k - 1, part)) = Len(part)
  BY <1>1, SealedUnits
<1> HIDE DEF U, part, tag
<1>6. <<Size(Len(part)), tag>> \in Seq(U) /\ Len(<<Size(Len(part)), tag>>) = 2
  BY <1>3, <1>4
<1>7. /\ <<Size(Len(part)), tag>> \o Sealed(of, k - 1, part) \in Seq(U)
      /\ Len(<<Size(Len(part)), tag>> \o Sealed(of, k - 1, part)) = 2 + Len(part)
  BY <1>5, <1>6, ConcatProperties
<1> QED BY <1>2, <1>5, <1>6, <1>7 DEF U, part, tag

\* A pair is one element and another.
LEMMA PairOfTwo ==
  ASSUME NEW S, NEW x \in S, NEW y \in S
  PROVE  <<x, y>> \in Seq(S) /\ Len(<<x, y>>) = 2 /\ <<x, y>> = <<x>> \o <<y>>
<1>1. <<x>> \in Seq(S) /\ <<y>> \in Seq(S) /\ Len(<<x>>) = 1 /\ Len(<<y>>) = 1
  OBVIOUS
<1>2. <<x, y>> \in Seq(S) /\ Len(<<x, y>>) = 2 /\ <<x, y>>[1] = x /\ <<x, y>>[2] = y
  OBVIOUS
<1>3. /\ <<x>> \o <<y>> \in Seq(S) /\ Len(<<x>> \o <<y>>) = 1 + 1
      /\ \A i \in 1..(1 + 1) : (<<x>> \o <<y>>)[i] = IF i <= 1 THEN <<x>>[i] ELSE <<y>>[i - 1]
  BY <1>1, ConcatProperties
<1>4. <<x>>[1] = x /\ <<y>>[1] = y
  OBVIOUS
<1> DEFINE p == <<x, y>>
           q == <<x>> \o <<y>>
<1>5. q[1] = x /\ q[2] = y
  <2>1. q[1] = <<x>>[1]
    BY <1>3
  <2>2. q[2] = <<y>>[2 - 1]
    BY <1>3
  <2> QED BY <1>4, <2>1, <2>2
<1>6. p \in Seq(S) /\ q \in Seq(S) /\ Len(p) = 2 /\ Len(q) = 2 /\ p[1] = q[1] /\ p[2] = q[2]
  BY <1>2, <1>3, <1>5
<1>7. p = q
  <2> HIDE DEF p, q
  <2>1. \A i \in 1..Len(p) : p[i] = q[i]
    BY <1>6
  <2> QED BY <1>6, <2>1, SeqEqual
<1> QED BY <1>2, <1>7

\* The header is two units.
LEMMA HeaderUnits ==
  ASSUME NEW of, NEW bytes, NEW version \in {"V2", "V3"}
  PROVE  /\ Header(version, of) \in Seq(Units(of, bytes))
         /\ Len(Header(version, of)) = 2
         /\ Header(version, of) = <<Magic(version)>> \o <<Params(of)>>
<1> DEFINE m == Magic(version)
           t == Params(of)
           U == Units(of, bytes)
<1>1. m \in U /\ t \in U
  BY Zenon DEF Units
<1>2. Header(version, of) = <<m, t>>
  BY DEF Header
<1> HIDE DEF m, t, U
<1>3. <<m, t>> \in Seq(U) /\ Len(<<m, t>>) = 2 /\ <<m, t>> = <<m>> \o <<t>>
  BY <1>1, PairOfTwo
<1> QED BY <1>2, <1>3 DEF m, t, U

-----------------------------------------------------------------------------
(* The envelope, frame by frame.                                           *)

\* A running concatenation of sequences over U consists of sequences over U.
LEMMA RunningTyped ==
  ASSUME NEW U, NEW n \in Nat \ {0}, NEW s \in [1..n -> Seq(U)], NEW f, Running(f, s, n)
  PROVE  \A k \in 1..n : f[k] \in Seq(U)
<1>1. \A k \in 1..n : f[k] = IF k = 1 THEN s[k] ELSE f[k - 1] \o s[k]
  BY DEF Running
<1> DEFINE Good == {k \in 1..n : f[k] \in Seq(U)}
<1>2. 1 \in Good
  BY <1>1
<1>3. ASSUME NEW k \in 1..n, k \in Good, k < n PROVE k + 1 \in Good
  <2>1. k + 1 \in 1..n /\ k + 1 # 1 /\ (k + 1) - 1 = k
    BY <1>3
  <2>2. f[k + 1] = f[k] \o s[k + 1]
    BY <1>1, <2>1
  <2>3. f[k] \in Seq(U) /\ s[k + 1] \in Seq(U)
    BY <1>3, <2>1
  <2>4. f[k] \o s[k + 1] \in Seq(U)
    BY <2>3, ConcatProperties
  <2> QED BY <2>1, <2>2, <2>4
<1>4. 1..n \subseteq Good
  <2> HIDE DEF Good
  <2> QED BY <1>2, <1>3, Climb
<1> QED BY <1>4

\* b begins with h and goes on with the elements of s.
Behind(b, h, s, n) ==
  b = [k \in 0..n |-> IF k = 0 THEN h ELSE b[k - 1] \o s[k]]

SequencesOver(U, h, s, n) ==
  n \in Nat \ {0} /\ s \in [1..n -> Seq(U)] /\ h \in Seq(U)

\* What is put before the running concatenation can be put before its parts.
Associates(h, f, s, n) == \A k \in 2..n : (h \o f[k - 1]) \o s[k] = h \o f[k]

\* b adds up what f adds up, behind h.
AddsUp(b, h, f, s, n) ==
  /\ b[0] = h
  /\ \A k \in 1..n : b[k] = b[k - 1] \o s[k]
  /\ \A k \in 1..n : b[k] = h \o f[k]

\* Three sequences one behind the other, whichever two are joined first.
Joins(a, b, d) == (a \o b) \o d = a \o (b \o d)

\* It does not matter which two are joined first.
LEMMA Joined ==
  ASSUME NEW S, NEW a \in Seq(S), NEW b \in Seq(S), NEW d \in Seq(S)
  PROVE  Joins(a, b, d)
BY ConcatAssociative DEF Joins

\* To put h before what was concatenated and to go on is to go on and put h
\* before all of it.
LEMMA RunningStep ==
  ASSUME NEW U, NEW n, NEW s, NEW h, SequencesOver(U, h, s, n), NEW f, Running(f, s, n)
  PROVE  Associates(h, f, s, n)
<1> SUFFICES ASSUME NEW k \in 2..n
             PROVE  (h \o f[k - 1]) \o s[k] = h \o f[k]
  BY DEF Associates
<1> USE DEF SequencesOver
<1>1. k \in 1..n /\ k - 1 \in 1..n /\ k # 1
  OBVIOUS
<1> DEFINE x == f[k - 1]
           y == s[k]
<1>2. x \in Seq(U) /\ y \in Seq(U)
  BY <1>1, RunningTyped
<1>3. f[k] = x \o y
  BY <1>1 DEF Running
<1> HIDE DEF x, y
<1>4. (h \o x) \o y = h \o (x \o y)
  <2>1. h \in Seq(U)
    OBVIOUS
  <2>2. Joins(h, x, y)
    BY <1>2, <2>1, Joined
  <2> QED BY ONLY <2>2 DEF Joins
<1> QED BY <1>3, <1>4 DEF x, y

\* There is one that begins with h and goes on with the elements of s.
LEMMA BehindExists ==
  ASSUME NEW U, NEW n, NEW s, NEW h, SequencesOver(U, h, s, n), NEW f, Running(f, s, n)
  PROVE  \E b : Behind(b, h, s, n)
<1>0. n \in Nat \ {0} /\ s \in [1..n -> Seq(U)] /\ h \in Seq(U)
  BY DEF SequencesOver
<1>1. \A k \in 1..n : f[k] = IF k = 1 THEN s[k] ELSE f[k - 1] \o s[k]
  BY DEF Running
<1>2a. Associates(h, f, s, n)
  BY RunningStep
<1>3. \A k \in 2..n : (h \o f[k - 1]) \o s[k] = h \o f[k]
  BY <1>2a DEF Associates
<1> DEFINE g == [k \in 0..n |-> IF k = 0 THEN h ELSE h \o f[k]]
<1>4. ASSUME NEW k \in 0..n
      PROVE  g[k] = IF k = 0 THEN h ELSE g[k - 1] \o s[k]
  <2>1. CASE k = 0
    BY <1>0, <2>1
  <2>2. CASE k = 1
    <3>1. 1 \in 0..n /\ 0 \in 0..n /\ 1 \in 1..n /\ 1 - 1 = 0
      BY <1>0
    <3>2. g[1] = h \o f[1] /\ g[0] = h /\ f[1] = s[1]
      BY <1>1, <3>1
    <3> HIDE DEF g
    <3> QED BY <2>2, <3>1, <3>2
  <2>3. CASE k \in 2..n
    <3>1. k - 1 \in 0..n /\ k - 1 # 0 /\ k # 0
      BY <1>0, <2>3
    <3>2. g[k] = h \o f[k] /\ g[k - 1] = h \o f[k - 1]
      BY <1>0, <3>1
    <3> HIDE DEF g
    <3> QED BY <1>3, <2>3, <3>1, <3>2
  <2> QED BY <1>0, <2>1, <2>2, <2>3
<1>5. g = [k \in 0..n |-> IF k = 0 THEN h ELSE g[k - 1] \o s[k]]
  <2>1. g = [k \in 0..n |-> g[k]]
    BY <1>0
  <2> HIDE DEF g
  <2> QED BY <1>4, <2>1
<1> HIDE DEF g
<1> QED BY <1>5 DEF Behind

\* It is h and then the running concatenation of s.
LEMMA BehindIs ==
  ASSUME NEW U, NEW n, NEW s, NEW h, SequencesOver(U, h, s, n), NEW f, Running(f, s, n),
         NEW b, Behind(b, h, s, n)
  PROVE  AddsUp(b, h, f, s, n)
<1>0. n \in Nat \ {0} /\ s \in [1..n -> Seq(U)] /\ h \in Seq(U)
  BY DEF SequencesOver
<1>1. \A k \in 1..n : f[k] = IF k = 1 THEN s[k] ELSE f[k - 1] \o s[k]
  BY DEF Running
<1>2a. Associates(h, f, s, n)
  BY RunningStep
<1>3. \A k \in 2..n : (h \o f[k - 1]) \o s[k] = h \o f[k]
  BY <1>2a DEF Associates
<1>7. b[0] = h /\ \A k \in 1..n : b[k] = b[k - 1] \o s[k]
  <2>1. 0 \in 0..n /\ \A k \in 1..n : k \in 0..n /\ k # 0
    BY <1>0
  <2>2. \A k \in 0..n : b[k] = IF k = 0 THEN h ELSE b[k - 1] \o s[k]
    BY DEF Behind
  <2> QED BY <2>1, <2>2
<1> DEFINE Good == {k \in 1..n : b[k] = h \o f[k]}
<1>8. 1 \in Good
  <2>1. 1 \in 1..n /\ 1 - 1 = 0
    BY <1>0
  <2>2. b[1] = b[0] \o s[1] /\ f[1] = s[1]
    BY <1>1, <1>7, <2>1
  <2> QED BY <1>7, <2>1, <2>2
<1>9. ASSUME NEW k \in 1..n, k \in Good, k < n PROVE k + 1 \in Good
  <2>1. k + 1 \in 1..n /\ k + 1 \in 2..n /\ (k + 1) - 1 = k
    BY <1>0, <1>9
  <2>2. b[k + 1] = b[k] \o s[k + 1] /\ b[k] = h \o f[k]
    BY <1>7, <1>9, <2>1
  <2>3. (h \o f[k]) \o s[k + 1] = h \o f[k + 1]
    BY <1>3, <2>1
  <2> QED BY <1>0, <2>1, <2>2, <2>3
<1>10. 1..n \subseteq Good
  <2> HIDE DEF Good
  <2> QED BY <1>0, <1>8, <1>9, Climb
<1> QED BY <1>7, <1>10 DEF AddsUp

\* The envelope is what Begun adds up, frame by frame.
LEMMA BegunSteps ==
  ASSUME NEW of, NEW bytes \in Seq(Int)
  PROVE  LET c == FrameCount(Len(bytes))
             b == Begun(of, bytes)
         IN  /\ c \in Nat \ {0}
             /\ b[0] = Header("V3", of)
             /\ \A k \in 1..c : b[k] = b[k - 1] \o PartFrame(of, bytes, k)
             /\ \A k \in 0..c : b[k] \in Seq(Units(of, bytes))
             /\ b[c] = WholeEnvelope(of, bytes)
<1> DEFINE U == Units(of, bytes)
           h == Header("V3", of)
           c == FrameCount(Len(bytes))
           s == [k \in 1..c |-> PartFrame(of, bytes, k)]
           b == Begun(of, bytes)
<1>1. c \in Nat \ {0}
  BY LenProperties, FrameCountFits
<1>2. h \in Seq(U)
  BY HeaderUnits
<1>3. s \in [1..c -> Seq(U)]
  <2>1. ASSUME NEW k \in 1..c PROVE PartFrame(of, bytes, k) \in Seq(U)
    BY <2>1, PartFrameUnits
  <2> HIDE DEF c, U
  <2> QED BY <2>1
<1>15. SequencesOver(U, h, s, c)
  <2> HIDE DEF s, c, h, U
  <2> QED BY <1>1, <1>2, <1>3 DEF SequencesOver
<1>4. s \in Seq(Seq(U)) /\ Len(s) = c
  <2> HIDE DEF s, c, U
  <2> QED BY <1>1, <1>3
<1>5. PICK f : Running(f, s, c) /\ FlattenSeq(s) = f[c]
  <2> HIDE DEF s, c
  <2> QED BY <1>1, <1>4, FlattenRuns
<1>6. WholeEnvelope(of, bytes) = h \o FlattenSeq(s)
  BY DEF WholeEnvelope, PartFrame, Part, Cut
<1>7. Behind(b, h, s, c)
  <2>1. \A k \in 0..c : k # 0 => s[k] = PartFrame(of, bytes, k)
    <3> HIDE DEF c
    <3> QED BY <1>1
  <2>2. ASSUME NEW e
        PROVE  [k \in 0..c |-> IF k = 0 THEN h ELSE e[k - 1] \o PartFrame(of, bytes, k)]
                 = [k \in 0..c |-> IF k = 0 THEN h ELSE e[k - 1] \o s[k]]
    <3> HIDE DEF s, c, h
    <3> QED BY <2>1
  <2>3. PICK e : Behind(e, h, s, c)
    <3> HIDE DEF s, c, h, b, U
    <3> QED BY <1>5, <1>15, BehindExists
  <2>4. e = [k \in 0..c |-> IF k = 0 THEN h ELSE e[k - 1] \o PartFrame(of, bytes, k)]
    <3> HIDE DEF s, c, h
    <3> QED BY <2>2, <2>3 DEF Behind
  <2>5. b = [k \in 0..c |-> IF k = 0 THEN h ELSE b[k - 1] \o PartFrame(of, bytes, k)]
    BY <2>4 DEF Begun
  <2> HIDE DEF s, c, h, b
  <2> QED BY <2>2, <2>5 DEF Behind
<1>8. /\ b[0] = h
      /\ \A k \in 1..c : b[k] = b[k - 1] \o s[k]
      /\ \A k \in 1..c : b[k] = h \o f[k]
  <2> HIDE DEF s, c, h, b, U
  <2>1. AddsUp(b, h, f, s, c)
    BY <1>5, <1>7, <1>15, BehindIs
  <2> QED BY <2>1 DEF AddsUp
<1>9. \A k \in 1..c : f[k] \in Seq(U)
  <2> HIDE DEF s, c, U
  <2> QED BY <1>1, <1>3, <1>5, RunningTyped
<1>10. \A k \in 1..c : s[k] = PartFrame(of, bytes, k)
  <2> HIDE DEF c
  <2> QED OBVIOUS
<1>11. ASSUME NEW k \in 0..c PROVE b[k] \in Seq(U)
  <2> HIDE DEF s, c, h, b, U
  <2>1. CASE k = 0
    BY <1>2, <1>8, <2>1
  <2>2. CASE k # 0
    <3>1. k \in 1..c
      BY <1>1, <2>2
    <3>2. f[k] \in Seq(U)
      BY <1>9, <3>1
    <3>3. h \o f[k] \in Seq(U)
      BY <1>2, <3>2, ConcatProperties
    <3> QED BY <1>8, <3>1, <3>3
  <2> QED BY <2>1, <2>2
<1>12. b[c] = WholeEnvelope(of, bytes)
  <2> HIDE DEF s, c, h, b
  <2>1. c \in 1..c
    BY <1>1
  <2> QED BY <1>5, <1>6, <1>8, <2>1
<1>13. \A k \in 1..c : b[k] = b[k - 1] \o PartFrame(of, bytes, k)
  <2> HIDE DEF s, c, h, b
  <2> QED BY <1>8, <1>10
<1> HIDE DEF s, U
<1> QED BY <1>1, <1>8, <1>11, <1>12, <1>13 DEF U

\* A sequence that is put together can be taken apart.
LEMMA Apart ==
  ASSUME NEW S, NEW s \in Seq(S), NEW r \in Seq(S)
  PROVE  /\ s \o r \in Seq(S)
         /\ Len(s) \in Nat /\ Len(r) \in Nat /\ Len(s \o r) = Len(s) + Len(r)
         /\ SubSeq(s \o r, 1, Len(s)) = s
         /\ SubSeq(s \o r, Len(s) + 1, Len(s \o r)) = r
<1> DEFINE w == s \o r
           m == Len(s)
           n == Len(r)
<1>1. m \in Nat /\ n \in Nat
  BY LenProperties
<1>2. /\ w \in Seq(S) /\ Len(w) = m + n
      /\ \A i \in 1..(m + n) : w[i] = IF i <= m THEN s[i] ELSE r[i - m]
  BY ConcatProperties
<1> HIDE DEF w, m, n
<1>3. \A i \in 1..(m + n) : w[i] \in S
  BY <1>2, ElementOfSeq
<1>4. /\ SubSeq(w, 1, m) \in Seq(S) /\ Len(SubSeq(w, 1, m)) = m
      /\ \A i \in 1..m : SubSeq(w, 1, m)[i] = w[i]
  <2>1. \A i \in 1..m : w[i] \in S
    BY <1>1, <1>3
  <2>2. /\ SubSeq(w, 1, m) \in Seq(S) /\ Len(SubSeq(w, 1, m)) = (IF 1 <= m THEN m - 1 + 1 ELSE 0)
        /\ \A i \in 1..(m - 1 + 1) : SubSeq(w, 1, m)[i] = w[1 + i - 1]
    BY <1>1, <2>1, SubSeqProperties
  <2>3. m - 1 + 1 = m /\ \A i \in 1..m : 1 + i - 1 = i
    BY <1>1
  <2> QED BY <1>1, <2>2, <2>3
<1>5. SubSeq(w, 1, m) = s
  <2>1. s \in Seq(S) /\ Len(s) = m
    BY DEF m
  <2>2. \A i \in 1..m : SubSeq(w, 1, m)[i] = s[i]
    BY <1>1, <1>2, <1>4
  <2> QED BY <1>4, <2>1, <2>2, SeqEqual
<1>6. /\ SubSeq(w, m + 1, m + n) \in Seq(S) /\ Len(SubSeq(w, m + 1, m + n)) = n
      /\ \A i \in 1..n : SubSeq(w, m + 1, m + n)[i] = w[m + i]
  <2>1. \A i \in (m + 1)..(m + n) : w[i] \in S
    BY <1>1, <1>3
  <2>2. /\ SubSeq(w, m + 1, m + n) \in Seq(S)
        /\ Len(SubSeq(w, m + 1, m + n)) = (IF m + 1 <= m + n THEN (m + n) - (m + 1) + 1 ELSE 0)
        /\ \A i \in 1..((m + n) - (m + 1) + 1) : SubSeq(w, m + 1, m + n)[i] = w[(m + 1) + i - 1]
    BY <1>1, <2>1, SubSeqProperties
  <2>3. (m + n) - (m + 1) + 1 = n /\ \A i \in 1..n : (m + 1) + i - 1 = m + i
    BY <1>1
  <2> QED BY <1>1, <2>2, <2>3
<1>7. SubSeq(w, m + 1, m + n) = r
  <2>1. r \in Seq(S) /\ Len(r) = n
    BY DEF n
  <2>2. ASSUME NEW i \in 1..n PROVE SubSeq(w, m + 1, m + n)[i] = r[i]
    <3>1. m + i \in 1..(m + n) /\ ~ (m + i <= m) /\ (m + i) - m = i
      BY <1>1
    <3> QED BY <1>2, <1>6, <3>1
  <2> QED BY <1>6, <2>1, <2>2, SeqEqual
<1> QED BY <1>1, <1>2, <1>5, <1>7 DEF w, m, n

\* Behind its first k frames the envelope goes on with the frame after them.
LEMMA RestSteps ==
  ASSUME NEW of, NEW bytes \in Seq(Int), NEW k \in 0..FrameCount(Len(bytes))
  PROVE  /\ WholeEnvelope(of, bytes) \in Seq(Units(of, bytes))
         /\ Begun(of, bytes)[k] \in Seq(Units(of, bytes))
         /\ Rest(of, bytes, k) \in Seq(Units(of, bytes))
         /\ WholeEnvelope(of, bytes) = Begun(of, bytes)[k] \o Rest(of, bytes, k)
<1> DEFINE U == Units(of, bytes)
           c == FrameCount(Len(bytes))
           b == Begun(of, bytes)
           w == WholeEnvelope(of, bytes)
           p(j) == PartFrame(of, bytes, j)
           Good == {j \in 1..c : k <= j => \E r \in Seq(U) : b[j] = b[k] \o r}
<1>1. /\ c \in Nat \ {0}
      /\ \A j \in 1..c : b[j] = b[j - 1] \o p(j)
      /\ \A j \in 0..c : b[j] \in Seq(U)
      /\ b[c] = w
  BY BegunSteps
<1>2. \A j \in 1..c : p(j) \in Seq(U)
  BY PartFrameUnits
<1> HIDE DEF U, c, b, w, p
<1>3. k \in 0..c /\ b[k] \in Seq(U)
  BY <1>1 DEF c
<1>4. b[k] = b[k] \o <<>> /\ <<>> \in Seq(U)
  <2> DEFINE x == b[k]
  <2>1. x \in Seq(U)
    BY <1>3
  <2> HIDE DEF x
  <2>2. x \o <<>> = x
    BY <2>1, ConcatEmptySeq
  <2> QED BY <2>2 DEF x
<1>5. 1 \in Good
  <2>1. 1 \in 1..c
    BY <1>1
  <2>2. CASE k = 1
    BY <1>4, <2>1, <2>2
  <2>3. CASE k = 0
    <3>1. b[1] = b[k] \o p(1) /\ p(1) \in Seq(U)
      BY <1>1, <1>2, <2>1, <2>3
    <3> QED BY <2>1, <3>1
  <2>4. CASE k > 1
    BY <1>3, <2>1, <2>4
  <2> HIDE DEF Good
  <2> QED BY <1>1, <1>3, <2>2, <2>3, <2>4
<1>6. ASSUME NEW j \in 1..c, j \in Good, j < c PROVE j + 1 \in Good
  <2>1. j + 1 \in 1..c /\ (j + 1) - 1 = j
    BY <1>1, <1>6
  <2>2. CASE k = j + 1
    BY <1>4, <2>1, <2>2
  <2>3. CASE k <= j
    <3>1. PICK r \in Seq(U) : b[j] = b[k] \o r
      BY <1>6, <2>3
    <3> DEFINE x == b[k]
               y == p(j + 1)
    <3>2. x \in Seq(U) /\ y \in Seq(U)
      BY <1>2, <1>3, <2>1
    <3>3. b[j + 1] = (x \o r) \o y
      BY <1>1, <2>1, <3>1
    <3> HIDE DEF x, y
    <3>4. (x \o r) \o y = x \o (r \o y) /\ r \o y \in Seq(U)
      <4>1. Joins(x, r, y)
        BY <3>2, Joined
      <4>2. r \o y \in Seq(U)
        BY ONLY r \in Seq(U), <3>2, ConcatProperties
      <4> QED BY ONLY <4>1, <4>2 DEF Joins
    <3>5. \E t \in Seq(U) : b[j + 1] = x \o t
      BY <3>3, <3>4
    <3> QED BY <2>1, <3>5 DEF x
  <2>4. CASE k > j + 1
    BY <1>1, <1>3, <2>1, <2>4
  <2> HIDE DEF Good
  <2> QED BY <1>1, <1>3, <2>2, <2>3, <2>4
<1>7. 1..c \subseteq Good
  <2> HIDE DEF Good
  <2> QED BY <1>1, <1>5, <1>6, Climb
<1>8. PICK r \in Seq(U) : w = b[k] \o r
  <2> HIDE DEF Good
  <2>1. c \in Good /\ k <= c
    BY <1>1, <1>3, <1>7
  <2>2. \E r \in Seq(U) : b[c] = b[k] \o r
    BY <2>1 DEF Good
  <2> QED BY <1>1, <2>2
<1>9. /\ w \in Seq(U)
      /\ SubSeq(w, Len(b[k]) + 1, Len(w)) = r
  <2> DEFINE x == b[k]
  <2>1. x \in Seq(U) /\ w = x \o r
    BY <1>3, <1>8
  <2> HIDE DEF x
  <2>2. w \in Seq(U) /\ SubSeq(w, Len(x) + 1, Len(w)) = r
    BY <2>1, Apart
  <2> QED BY <2>2 DEF x
<1>10. Rest(of, bytes, k) = r
  BY <1>9 DEF Rest, b, w
<1> QED BY <1>3, <1>8, <1>9, <1>10 DEF U, b, w

\* After the first k frames the next one comes first.
LEMMA RestNext ==
  ASSUME NEW of, NEW bytes \in Seq(Int), NEW k \in 0..FrameCount(Len(bytes)),
         k < FrameCount(Len(bytes))
  PROVE  Rest(of, bytes, k) = PartFrame(of, bytes, k + 1) \o Rest(of, bytes, k + 1)
<1> DEFINE U == Units(of, bytes)
           c == FrameCount(Len(bytes))
           x == Begun(of, bytes)[k]
           y == PartFrame(of, bytes, k + 1)
           w == WholeEnvelope(of, bytes)
           r == Rest(of, bytes, k)
           t == Rest(of, bytes, k + 1)
<1>1. c \in Nat \ {0} /\ k \in 0..c /\ k + 1 \in 1..c /\ k + 1 \in 0..c /\ (k + 1) - 1 = k
  <2>1. c \in Nat \ {0}
    BY LenProperties, FrameCountFits
  <2> HIDE DEF c
  <2>2. k \in 0..c /\ k < c
    BY DEF c
  <2> QED BY <2>1, <2>2
<1>2. Begun(of, bytes)[k + 1] = x \o y
  <2> DEFINE b == Begun(of, bytes)
  <2>1. \A j \in 1..c : b[j] = b[j - 1] \o PartFrame(of, bytes, j)
    BY BegunSteps
  <2> HIDE DEF b, c
  <2>2. b[k + 1] = b[k] \o PartFrame(of, bytes, k + 1)
    BY <1>1, <2>1
  <2> QED BY <2>2 DEF b
<1>3. y \in Seq(U)
  BY <1>1, PartFrameUnits
<1>4. x \in Seq(U) /\ r \in Seq(U) /\ w = x \o r
  BY <1>1, RestSteps
<1>5. t \in Seq(U) /\ w = (x \o y) \o t
  <2> DEFINE z == Begun(of, bytes)[k + 1]
  <2>1. t \in Seq(U) /\ w = z \o t
    BY <1>1, RestSteps
  <2>2. z = x \o y
    BY <1>2
  <2> HIDE DEF z, x, y, t, w, U
  <2> QED BY <2>1, <2>2
<1> HIDE DEF x, y, w, r, t, U
<1>6. (x \o y) \o t = x \o (y \o t) /\ y \o t \in Seq(U)
  <2>1. x \in Seq(U) /\ y \in Seq(U) /\ t \in Seq(U)
    BY <1>3, <1>4, <1>5
  <2>2. (x \o y) \o t = x \o (y \o t)
    <3>1. Joins(x, y, t)
      BY <2>1, Joined
    <3> QED BY ONLY <3>1 DEF Joins
  <2>3. y \o t \in Seq(U)
    BY ONLY <2>1, ConcatProperties
  <2> QED BY <2>2, <2>3
<1>7. SubSeq(x \o r, Len(x) + 1, Len(x \o r)) = r
  BY <1>4, Apart
<1> DEFINE v == y \o t
<1>8. v \in Seq(U) /\ w = x \o v
  BY <1>5, <1>6
<1> HIDE DEF v
<1>9. SubSeq(x \o v, Len(x) + 1, Len(x \o v)) = v
  BY <1>4, <1>8, Apart
<1>10. r = v
  BY <1>4, <1>7, <1>8, <1>9
<1> QED BY <1>10 DEF v, r, y, t

\* Behind the last frame there is nothing.
LEMMA RestEnds ==
  ASSUME NEW of, NEW bytes \in Seq(Int)
  PROVE  Rest(of, bytes, FrameCount(Len(bytes))) = <<>>
<1> DEFINE c == FrameCount(Len(bytes))
           w == WholeEnvelope(of, bytes)
           U == Units(of, bytes)
<1>1. c \in Nat \ {0} /\ Begun(of, bytes)[c] = w
  BY BegunSteps
<1>2. c \in 0..c
  <2> HIDE DEF c
  <2> QED BY <1>1
<1>3. w \in Seq(U)
  BY <1>2, RestSteps
<1>4. Rest(of, bytes, c) = SubSeq(w, Len(w) + 1, Len(w))
  BY <1>1 DEF Rest
<1> HIDE DEF w, U
<1>5. Len(w) \in Nat
  BY <1>3, LenProperties
<1>6. Len(w) \in Int /\ Len(w) + 1 \in Int /\ Len(w) < Len(w) + 1
  BY <1>5
<1>7. SubSeq(w, Len(w) + 1, Len(w)) = <<>>
  BY <1>6, SubSeqEmpty
<1> QED BY <1>4, <1>7

\* The envelope is as long as encryptedSize says.
LEMMA EnvelopeLength ==
  ASSUME NEW of, NEW bytes \in Seq(Int)
  PROVE  Len(WholeEnvelope(of, bytes)) = 2 + Len(bytes) + 2 * FrameCount(Len(bytes))
<1> DEFINE U == Units(of, bytes)
           n == Len(bytes)
           c == FrameCount(n)
           b == Begun(of, bytes)
           p(j) == PartFrame(of, bytes, j)
           Good == {j \in 1..c : Len(b[j]) = 2 + 2 * j + Cut(n, j)}
<1>1. /\ c \in Nat \ {0}
      /\ b[0] = Header("V3", of)
      /\ \A j \in 1..c : b[j] = b[j - 1] \o p(j)
      /\ \A j \in 0..c : b[j] \in Seq(U)
      /\ b[c] = WholeEnvelope(of, bytes)
  BY BegunSteps
<1>2. ASSUME NEW j \in 1..c
      PROVE  /\ p(j) \in Seq(U)
             /\ Len(p(j)) = 2 + (Cut(n, j) - (j - 1) * FrameSize)
             /\ j < c => Cut(n, j) = j * FrameSize
             /\ j = c => Cut(n, j) = n
             /\ Cut(n, j) \in Nat /\ (j - 1) * FrameSize \in Nat /\ n \in Nat
  <2>1. p(j) \in Seq(U) /\ Len(p(j)) = 2 + Len(Part(bytes, j))
    BY PartFrameUnits
  <2>2. /\ Len(Part(bytes, j)) = Cut(n, j) - (j - 1) * FrameSize
        /\ n \in Nat
        /\ (j - 1) * FrameSize \in 0..n
        /\ Cut(n, j) \in ((j - 1) * FrameSize)..n
        /\ j < c => Cut(n, j) = j * FrameSize
        /\ j = c => Cut(n, j) = n
    BY PartBounds
  <2> DEFINE a == (j - 1) * FrameSize
  <2> HIDE DEF n, c, a, p, U
  <2>3. Cut(n, j) \in Nat /\ a \in Nat
    BY <2>2 DEF a
  <2> QED BY <2>1, <2>2, <2>3 DEF a
<1> HIDE DEF U, n, c, b, p
<1>3. ASSUME NEW j \in 1..c
      PROVE  Len(b[j]) = Len(b[j - 1]) + Len(p(j))
  <2> DEFINE x == b[j - 1]
             y == p(j)
  <2>1. j - 1 \in 0..c
    BY <1>1
  <2>2. x \in Seq(U) /\ y \in Seq(U) /\ b[j] = x \o y
    BY <1>1, <1>2, <2>1
  <2> HIDE DEF x, y
  <2>3. Len(x \o y) = Len(x) + Len(y)
    BY <2>2, ConcatProperties
  <2> QED BY <2>2, <2>3 DEF x, y
<1>4. Len(b[0]) = 2
  BY <1>1, HeaderUnits
<1>5. 1 \in Good
  <2>1. 1 \in 1..c /\ 1 - 1 = 0
    BY <1>1
  <2>2. Len(b[1]) = Len(b[0]) + Len(p(1))
    BY <1>3, <2>1
  <2>3. Len(p(1)) = 2 + (Cut(n, 1) - 0) /\ Cut(n, 1) \in Nat
    <3>1. 0 * FrameSize = 0
      BY FrameAssumption
    <3> QED BY <1>2, <2>1, <3>1
  <2> QED BY <1>4, <2>1, <2>2, <2>3
<1>6. ASSUME NEW j \in 1..c, j \in Good, j < c PROVE j + 1 \in Good
  <2>1. j + 1 \in 1..c /\ (j + 1) - 1 = j
    BY <1>1, <1>6
  <2>2. Len(b[j + 1]) = Len(b[j]) + Len(p(j + 1))
    BY <1>3, <2>1
  <2>3. Len(p(j + 1)) = 2 + (Cut(n, j + 1) - j * FrameSize) /\ j * FrameSize \in Nat
    BY <1>2, <2>1
  <2>4. Len(b[j]) = 2 + 2 * j + Cut(n, j) /\ Cut(n, j) = j * FrameSize
    BY <1>2, <1>6
  <2>5. Cut(n, j + 1) \in Nat
    BY <1>2, <2>1
  <2> DEFINE a == j * FrameSize
             z == Cut(n, j + 1)
  <2>6. a \in Nat /\ z \in Nat /\ j \in Int /\ Len(b[j + 1]) = (2 + 2 * j + a) + (2 + (z - a))
    BY <1>1, <2>2, <2>3, <2>4, <2>5
  <2> HIDE DEF a, z
  <2>7. Len(b[j + 1]) = 2 + 2 * (j + 1) + z
    BY <2>6
  <2> QED BY <2>1, <2>7 DEF z
<1>7. 1..c \subseteq Good
  <2> HIDE DEF Good
  <2> QED BY <1>1, <1>5, <1>6, Climb
<1>8. c \in 1..c
  BY <1>1
<1>9. Len(b[c]) = 2 + 2 * c + n /\ n \in Nat
  BY <1>2, <1>7, <1>8
<1> QED BY <1>1, <1>9 DEF n, c

-----------------------------------------------------------------------------
(* The inductive invariant.                                                *)

\* What is between two places of a sequence.
Slice(s, a, b) == SubSeq(s, a + 1, b)

Payload(of) == IF of = "new" THEN Plain ELSE Old

AllUnits == Units("new", Plain) \cup Units("old", Old)

\* encryptStream holds, one behind the other, the frame that is held back, the
\* frame being filled and the rest of the chunk, and has sent the frames before.
WriterOK ==
  LET at   == taken - Len(chunk)
      from == index * FrameSize
      to   == from + Len(pending)
  IN
  /\ taken \in 0..length /\ index \in Nat /\ index < FrameCount(length)
  /\ Len(chunk) \in 0..taken /\ chunk = Slice(Plain, at, taken)
  /\ at = to + Len(frame) /\ Len(frame) \in 0..(FrameSize - 1)
  /\ pending = Slice(Plain, from, to) /\ frame = Slice(Plain, to, at)
  /\ \/ pending = <<>> /\ index = 0
     \/ Len(pending) = FrameSize
     \/ Len(pending) \in 1..FrameSize /\ frame = <<>> /\ chunk = <<>> /\ taken = length
  /\ envelope = Begun("new", Plain)[index]

\* The reader has released the frames before this one, of one payload.
Released ==
  \/ index = 0 /\ output = <<>>
  \/ \E of \in {"new", "old"} :
       /\ current.of = Params(of)
       /\ index < FrameCount(Len(Payload(of)))
       /\ output = SubSeq(Payload(of), 1, index * FrameSize)

ReaderOK ==
  /\ pc \in {"magic", "tail", "legacy"} => index = 0 /\ output = <<>>
  /\ pc \in {"first", "frame", "next"} => index \in Nat /\ Released
  /\ pc = "frame" => current.size \in 0..FrameSize
  /\ pc = "next" => current.tag \in AllUnits

E2EEInv ==
  /\ length \in Nat /\ older \in {"V2", "V3"}
  /\ pc \in {"encrypt", "store", "broken", "magic", "tail", "first", "frame", "next",
             "legacy", "failed", "lost", "done"}
  /\ envelope \in Seq(AllUnits) /\ input \in Seq(AllUnits) /\ buffered \in Seq(AllUnits)
  /\ pc \in {"encrypt", "store", "broken"} =>
       input = <<>> /\ buffered = <<>> /\ output = <<>> /\ ended = FALSE
  /\ pc = "encrypt" => WriterOK
  /\ SameEnvelope
  /\ ReaderOK
  /\ WholeOrFailed

\* The frame that is being opened is the one that was sealed.
Sent(k) == Tag("new", k - 1, k = FrameCount(length), Part(Plain, k))

\* What is still to be read of an envelope that comes back as it was.
Unread ==
  CASE pc = "magic" -> Header("V3", "new") \o Rest("new", Plain, 0)
    [] pc = "tail"  -> <<Params("new")>> \o Rest("new", Plain, 0)
    [] pc = "first" -> Rest("new", Plain, index)
    [] pc = "frame" -> <<Sent(index + 1)>> \o Sealed("new", index, Part(Plain, index + 1))
                         \o Rest("new", Plain, index + 1)
    [] pc = "next"  -> Rest("new", Plain, index + 1)

\* The reader is at the next frame that was sent, and has released the ones
\* before it.
Echo ==
  /\ pc \notin {"legacy", "failed"}
  /\ FrameCount(length) <= MaxFrames
  /\ ended => input = <<>>
  /\ pc \in {"magic", "tail", "first", "frame", "next"} => buffered \o input = Unread
  /\ pc \in {"first", "frame", "next"} =>
       /\ current.of = Params("new") /\ index \in Nat /\ index < FrameCount(length)
       /\ output = SubSeq(Plain, 1, index * FrameSize)
  /\ pc = "frame" => current.size = Len(Part(Plain, index + 1))
  /\ pc = "next" => /\ current.tag = Sent(index + 1)
                    /\ current.cipher = Sealed("new", index, Part(Plain, index + 1))
  /\ pc = "done" => output = Plain

EchoInv == intact /\ pc \notin {"encrypt", "store", "broken"} => Echo

-----------------------------------------------------------------------------
(* Slices.                                                                 *)

\* A slice is as long as its bounds say.
LEMMA SliceFacts ==
  ASSUME NEW S, NEW s \in Seq(S), NEW b \in 0..Len(s), NEW a \in 0..b
  PROVE  Slice(s, a, b) \in Seq(S) /\ Len(Slice(s, a, b)) = b - a
<1>1. Len(s) \in Nat
  BY LenProperties
<1>2. \A i \in (a + 1)..b : s[i] \in S
  BY <1>1, ElementOfSeq
<1>3. /\ SubSeq(s, a + 1, b) \in Seq(S)
      /\ Len(SubSeq(s, a + 1, b)) = IF a + 1 <= b THEN b - (a + 1) + 1 ELSE 0
  BY <1>1, <1>2, SubSeqProperties
<1>4. (IF a + 1 <= b THEN b - (a + 1) + 1 ELSE 0) = b - a
  BY <1>1
<1> QED BY <1>3, <1>4 DEF Slice

\* Two slices that meet are one.
LEMMA SliceJoin ==
  ASSUME NEW S, NEW s \in Seq(S), NEW c \in 0..Len(s), NEW b \in 0..c, NEW a \in 0..b
  PROVE  Slice(s, a, b) \o Slice(s, b, c) = Slice(s, a, c)
<1>1. Len(s) \in Nat
  BY LenProperties
<1>2. a + 1 \in 1..(Len(s) + 1) /\ b \in ((a + 1) - 1)..Len(s) /\ c \in b..Len(s)
  BY <1>1
<1>3. SubSeq(s, a + 1, b) \o SubSeq(s, b + 1, c) = SubSeq(s, a + 1, c)
  BY <1>2, ConcatAdjacentSubSeq
<1> QED BY <1>3 DEF Slice

\* A slice of a slice is a slice.
LEMMA SliceOfSlice ==
  ASSUME NEW S, NEW s \in Seq(S), NEW b \in 0..Len(s), NEW a \in 0..b,
         NEW n \in 0..(b - a), NEW m \in 0..n
  PROVE  Slice(Slice(s, a, b), m, n) = Slice(s, a + m, a + n)
<1>1. Len(s) \in Nat
  BY LenProperties
<1>2. a \in Nat /\ b \in Nat /\ m \in Nat /\ n \in Nat /\ a + n <= b /\ m <= n /\ b <= Len(s)
  BY <1>1
<1>3. CASE m = n
  <2>1. SubSeq(Slice(s, a, b), m + 1, n) = <<>>
    BY <1>2, <1>3, SubSeqEmpty
  <2>2. SubSeq(s, (a + m) + 1, a + n) = <<>>
    BY <1>2, <1>3, SubSeqEmpty
  <2> QED BY <2>1, <2>2 DEF Slice
<1>4. CASE m < n
  <2> DEFINE i == a + 1
  <2>1. i \in 1..Len(s) /\ b \in 1..Len(s) /\ m + 1 \in 1..(b - i + 1) /\ n \in 1..(b - i + 1)
    BY <1>2, <1>4
  <2>2. i + (m + 1) - 1 = (a + m) + 1 /\ i + n - 1 = a + n
    BY <1>2
  <2> HIDE DEF i
  <2>3. SubSeq(SubSeq(s, i, b), m + 1, n) = SubSeq(s, i + (m + 1) - 1, i + n - 1)
    BY <2>1, SubSeqOfSubSeq
  <2> QED BY <2>2, <2>3 DEF Slice, i
<1> QED BY <1>2, <1>3, <1>4

\* A place before the end lies in one of the frames.
LEMMA Inside ==
  ASSUME NEW n \in Nat, NEW k \in Nat, k * FrameSize < n
  PROVE  k < FrameCount(n)
<1> DEFINE c == FrameCount(n)
<1>1. c \in Nat \ {0} /\ n <= c * FrameSize
  BY FrameCountFits
<1>2. FrameSize \in Nat \ {0}
  BY FrameAssumption
<1> HIDE DEF c
<1>3. k * FrameSize \in Nat /\ c * FrameSize \in Nat
  BY <1>1, <1>2
<1>4. ~ (c < k)
  <2> SUFFICES ASSUME c < k PROVE FALSE
    OBVIOUS
  <2>1. (c + 1) * FrameSize = c * FrameSize + FrameSize /\ (c + 1) * FrameSize <= k * FrameSize
    BY <1>1, Later
  <2> QED BY <1>1, <1>2, <1>3, <2>1
<1>5. c # k
  BY <1>1, <1>3
<1> QED BY <1>1, <1>4, <1>5 DEF c

\* The payloads.
LEMMA Payloads ==
  ASSUME length \in Nat
  PROVE  /\ Plain \in Seq(Int) /\ Len(Plain) = length
         /\ Old \in Seq(Int)
         /\ \A of : Payload(of) \in Seq(Int)
<1>1. FrameSize \in Nat
  BY FrameAssumption
<1>2. Plain \in Seq(Int) /\ Len(Plain) = length
  BY DEF Plain
<1>3. Old \in Seq(Int)
  BY <1>1 DEF Old
<1> QED BY <1>2, <1>3 DEF Payload

-----------------------------------------------------------------------------
(* Sealing.                                                                *)

\* To seal a full frame that has more behind it continues the envelope.
LEMMA SealInner ==
  ASSUME length \in Nat, index \in Nat, (index + 1) * FrameSize < length,
         pending = Slice(Plain, index * FrameSize, (index + 1) * FrameSize),
         envelope = Begun("new", Plain)[index]
  PROVE  /\ index + 1 < FrameCount(length)
         /\ envelope \o EncryptFrame("new", index, FALSE, pending) = Begun("new", Plain)[index + 1]
<1>1. Plain \in Seq(Int) /\ Len(Plain) = length
  BY Payloads
<1>2. index + 1 < FrameCount(length)
  BY Inside
<1>3. Part(Plain, index + 1) = pending
  <2>1. (index + 1) - 1 = index
    OBVIOUS
  <2>2. Cut(length, index + 1) = (index + 1) * FrameSize
    BY DEF Cut
  <2> QED BY <1>1, <2>1, <2>2 DEF Part, Slice
<1>4. PartFrame("new", Plain, index + 1) = EncryptFrame("new", index, FALSE, pending)
  <2>1. (index + 1) - 1 = index
    OBVIOUS
  <2>2. (index + 1 = FrameCount(Len(Plain))) = FALSE
    BY <1>1, <1>2
  <2> QED BY <1>3, <2>1, <2>2 DEF PartFrame
<1>5. Begun("new", Plain)[index + 1] = envelope \o PartFrame("new", Plain, index + 1)
  <2> DEFINE b == Begun("new", Plain)
             c == FrameCount(Len(Plain))
  <2>1. c \in Nat \ {0} /\ \A k \in 1..c : b[k] = b[k - 1] \o PartFrame("new", Plain, k)
    BY <1>1, BegunSteps
  <2>2. index + 1 < c
    BY <1>1, <1>2
  <2> HIDE DEF b, c
  <2>3. index + 1 \in 1..c /\ (index + 1) - 1 = index
    BY <2>1, <2>2
  <2>4. b[index + 1] = b[index] \o PartFrame("new", Plain, index + 1)
    BY <2>1, <2>3
  <2> QED BY <2>4 DEF b
<1> QED BY <1>2, <1>4, <1>5

\* To seal what is left as the last frame completes it.
LEMMA SealFinal ==
  ASSUME length \in Nat, index \in Nat,
         index * FrameSize < length \/ (index = 0 /\ length = 0),
         length <= (index + 1) * FrameSize,
         pending = Slice(Plain, index * FrameSize, length),
         envelope = Begun("new", Plain)[index]
  PROVE  /\ FrameCount(length) = index + 1
         /\ envelope \o EncryptFrame("new", index, TRUE, pending) = WholeEnvelope("new", Plain)
<1>1. Plain \in Seq(Int) /\ Len(Plain) = length
  BY Payloads
<1>2. FrameCount(length) = index + 1
  BY LastFrame
<1>3. Part(Plain, index + 1) = pending
  <2>1. (index + 1) - 1 = index
    OBVIOUS
  <2>2. index + 1 \in 1..FrameCount(Len(Plain)) /\ index + 1 = FrameCount(Len(Plain))
    BY <1>1, <1>2
  <2>3. Cut(length, index + 1) = length
    BY <1>1, <2>2, PartBounds
  <2> QED BY <1>1, <2>1, <2>3 DEF Part, Slice
<1>4. PartFrame("new", Plain, index + 1) = EncryptFrame("new", index, TRUE, pending)
  <2>1. (index + 1) - 1 = index
    OBVIOUS
  <2>2. (index + 1 = FrameCount(Len(Plain))) = TRUE
    BY <1>1, <1>2
  <2> QED BY <1>3, <2>1, <2>2 DEF PartFrame
<1>5. WholeEnvelope("new", Plain) = envelope \o PartFrame("new", Plain, index + 1)
  <2> DEFINE b == Begun("new", Plain)
             c == FrameCount(Len(Plain))
  <2>1. /\ c \in Nat \ {0} /\ \A k \in 1..c : b[k] = b[k - 1] \o PartFrame("new", Plain, k)
        /\ b[c] = WholeEnvelope("new", Plain)
    BY <1>1, BegunSteps
  <2>2. index + 1 = c
    BY <1>1, <1>2
  <2> HIDE DEF b, c
  <2>3. index + 1 \in 1..c /\ (index + 1) - 1 = index
    BY <2>1, <2>2
  <2>4. b[index + 1] = b[index] \o PartFrame("new", Plain, index + 1)
    BY <2>1, <2>3
  <2> QED BY <2>1, <2>2, <2>4 DEF b
<1> QED BY <1>2, <1>4, <1>5

\* What Yield does to a frame that follows the one held back.
LEMMA YieldSends ==
  ASSUME length \in Nat, index \in Nat, index < FrameCount(length),
         NEW full, NEW z \in 0..length, Len(full) \in 1..FrameSize,
         z = index * FrameSize + Len(pending) + Len(full),
         full = Slice(Plain, index * FrameSize + Len(pending), z),
         pending = Slice(Plain, index * FrameSize, index * FrameSize + Len(pending)),
         (pending = <<>> /\ index = 0) \/ Len(pending) = FrameSize,
         envelope = Begun("new", Plain)[index],
         Yield(full)
  PROVE  /\ index' \in Nat /\ index' < FrameCount(length)
         /\ frame' = <<>> /\ pending' = full
         /\ z = index' * FrameSize + Len(full)
         /\ full = Slice(Plain, index' * FrameSize, z)
         /\ envelope' = Begun("new", Plain)[index']
<1>1. FrameSize \in Nat \ {0}
  BY FrameAssumption
<1>2. frame' = <<>> /\ pending' = full
  BY DEF Yield
<1>3. CASE pending = <<>>
  <2>1. index' = index /\ envelope' = envelope /\ Len(pending) = 0
    BY <1>3 DEF Yield
  <2>2. index * FrameSize \in Nat
    BY <1>1
  <2>3. index * FrameSize + Len(pending) = index * FrameSize
    BY <2>1, <2>2
  <2> QED BY <1>2, <2>1, <2>2, <2>3
<1>4. CASE pending # <<>>
  <2>1. /\ index' = index + 1 /\ Len(pending) = FrameSize
        /\ envelope' = envelope \o EncryptFrame("new", index, FALSE, pending)
    BY <1>4 DEF Yield
  <2>2. index * FrameSize \in Nat /\ (index + 1) * FrameSize = index * FrameSize + FrameSize
    BY <1>1
  <2>3. index * FrameSize + Len(pending) = (index + 1) * FrameSize
    BY <2>1, <2>2
  <2>4. z = (index + 1) * FrameSize + Len(full) /\ full = Slice(Plain, (index + 1) * FrameSize, z)
    BY <2>3
  <2>5. (index + 1) * FrameSize < length
    <3>1. (index + 1) * FrameSize \in Nat
      BY <1>1, <2>2
    <3> QED BY <2>4, <3>1
  <2>6. pending = Slice(Plain, index * FrameSize, (index + 1) * FrameSize)
    BY <2>3
  <2>7. /\ index + 1 < FrameCount(length)
        /\ envelope' = Begun("new", Plain)[index + 1]
    BY <2>1, <2>5, <2>6, SealInner
  <2>8. index' \in Nat /\ index' < FrameCount(length)
    BY <2>1, <2>7
  <2>9. z = index' * FrameSize + Len(full) /\ full = Slice(Plain, index' * FrameSize, z)
    BY <2>1, <2>4
  <2>10. envelope' = Begun("new", Plain)[index']
    BY <2>1, <2>7
  <2> QED BY <1>2, <2>8, <2>9, <2>10
<1> QED BY <1>3, <1>4

\* What depends on the payloads alone does not change.
LEMMA Steady ==
  ASSUME UNCHANGED <<length, older>>
  PROVE  /\ Plain' = Plain /\ AllUnits' = AllUnits /\ OldEnvelope' = OldEnvelope
         /\ \A of : Payload(of)' = Payload(of)
<1>1. Plain' = Plain
  BY DEF Plain
<1>2. AllUnits' = AllUnits
  BY <1>1 DEF AllUnits
<1>3. OldEnvelope' = OldEnvelope
  BY DEF OldEnvelope
<1>4. \A of : Payload(of)' = Payload(of)
  BY <1>1 DEF Payload
<1> QED BY <1>1, <1>2, <1>3, <1>4

\* A chunk that is handed over continues what the writer holds.
LEMMA PullWrites ==
  ASSUME length \in Nat, WriterOK, Pull
  PROVE  WriterOK'
<1>1. /\ chunk = <<>> /\ taken < length /\ taken \in 0..length
      /\ UNCHANGED <<length, older, frame, pending, index, envelope>>
  BY DEF Pull, WriterOK
<1>2. PICK k \in ChunkSizes :
        /\ taken + k <= length
        /\ chunk' = SubSeq(Plain, taken + 1, taken + k)
        /\ taken' = taken + k
  BY DEF Pull
<1>3. k \in Nat \ {0}
  BY ChunksAssumption
<1>4. Plain \in Seq(Int) /\ Len(Plain) = length /\ Plain' = Plain
  BY <1>1, Payloads, Steady
<1>5. chunk' = Slice(Plain, taken, taken') /\ Len(chunk') = k
  <2>1. taken + k \in 0..Len(Plain) /\ taken \in 0..(taken + k)
    BY <1>1, <1>2, <1>3, <1>4
  <2>2. Len(Slice(Plain, taken, taken + k)) = (taken + k) - taken
    BY <1>4, <2>1, SliceFacts
  <2>3. chunk' = Slice(Plain, taken, taken + k)
    BY <1>2 DEF Slice
  <2> QED BY <1>1, <1>2, <1>3, <2>2, <2>3
<1>6. taken' - Len(chunk') = taken /\ taken' \in 0..length /\ Len(chunk') \in 0..taken'
  BY <1>1, <1>2, <1>3, <1>5
<1>7. taken - Len(chunk) = taken
  BY <1>1
<1>8. chunk' = Slice(Plain, taken' - Len(chunk'), taken')
  BY <1>5, <1>6
<1>9. /\ index \in Nat /\ index < FrameCount(length)
      /\ taken = index * FrameSize + Len(pending) + Len(frame) /\ Len(frame) \in 0..(FrameSize - 1)
      /\ pending = Slice(Plain, index * FrameSize, index * FrameSize + Len(pending))
      /\ frame = Slice(Plain, index * FrameSize + Len(pending), taken)
      /\ (pending = <<>> /\ index = 0) \/ Len(pending) = FrameSize
      /\ envelope = Begun("new", Plain)[index]
  BY <1>1, <1>7 DEF WriterOK
<1> QED BY <1>1, <1>4, <1>6, <1>8, <1>9 DEF WriterOK

\* So does what is taken from it into the frame, which may send the one before.
LEMMA FillWrites ==
  ASSUME length \in Nat, WriterOK, Fill
  PROVE  WriterOK'
<1> DEFINE at   == taken - Len(chunk)
           to   == index * FrameSize + Len(pending)
           room == FrameSize - Len(frame)
           take == IF room < Len(chunk) THEN room ELSE Len(chunk)
           more == frame \o SubSeq(chunk, 1, take)
           z    == at + take
<1>1. /\ taken \in 0..length /\ index \in Nat /\ index < FrameCount(length)
      /\ Len(chunk) \in 0..taken /\ chunk = Slice(Plain, at, taken)
      /\ at = to + Len(frame) /\ Len(frame) \in 0..(FrameSize - 1)
      /\ pending = Slice(Plain, index * FrameSize, to) /\ frame = Slice(Plain, to, at)
      /\ \/ pending = <<>> /\ index = 0
         \/ Len(pending) = FrameSize
         \/ Len(pending) \in 1..FrameSize /\ frame = <<>> /\ chunk = <<>> /\ taken = length
      /\ envelope = Begun("new", Plain)[index]
  BY DEF WriterOK
<1>2. /\ chunk # <<>> /\ UNCHANGED <<length, older, taken>>
      /\ chunk' = SubSeq(chunk, take + 1, Len(chunk))
      /\ IF Len(more) = FrameSize THEN Yield(more)
         ELSE frame' = more /\ UNCHANGED <<pending, index, envelope>>
  BY DEF Fill
<1>3. Plain \in Seq(Int) /\ Len(Plain) = length /\ Plain' = Plain
  BY <1>2, Payloads, Steady
<1>4. FrameSize \in Nat \ {0}
  BY FrameAssumption
<1>5. chunk \in Seq(Int) /\ Len(chunk) \in Nat \ {0} /\ Len(chunk) = taken - at
  <2>1. taken \in 0..Len(Plain) /\ at \in 0..taken
    BY <1>1, <1>3
  <2>2. chunk \in Seq(Int) /\ Len(chunk) = taken - at
    <3> HIDE DEF at
    <3>1. chunk = Slice(Plain, at, taken)
      BY <1>1
    <3> QED BY <1>3, <2>1, <3>1, SliceFacts
  <2> QED BY <1>1, <1>2, <2>2, EmptySeq
<1>6. to \in Nat /\ at \in 0..length /\ to \in 0..at
  <2>1. index * FrameSize \in Nat
    BY <1>1, <1>4
  <2>2. Len(pending) \in Nat
    <3>1. Len(<<>>) = 0
      OBVIOUS
    <3> QED BY <1>1, <1>4, <3>1
  <2>3. to \in Nat
    BY <2>1, <2>2
  <2>4. Len(frame) \in Nat /\ Len(chunk) \in Nat /\ at = to + Len(frame)
    BY <1>1, <1>4, <1>5
  <2>5. at = taken - Len(chunk) /\ taken \in 0..length
    BY <1>1
  <2> HIDE DEF to, at
  <2> QED BY <2>3, <2>4, <2>5
<1>7. /\ take \in 1..Len(chunk) /\ Len(frame) + take \in 1..FrameSize
      /\ Len(frame) + take < FrameSize => take = Len(chunk)
      /\ z \in at..taken /\ z \in 0..length /\ Len(frame) \in Nat
  <2> DEFINE L == Len(chunk)
             F == Len(frame)
  <2>1. /\ L \in Nat \ {0} /\ F \in 0..(FrameSize - 1) /\ taken \in 0..length /\ at \in 0..length
        /\ L = taken - at /\ room = FrameSize - F /\ take = IF room < L THEN room ELSE L
        /\ z = at + take
    BY <1>1, <1>5, <1>6
  <2> HIDE DEF L, F, at, room, take, z
  <2>2. /\ take \in 1..L /\ F + take \in 1..FrameSize /\ (F + take < FrameSize => take = L)
        /\ z \in at..taken /\ z \in 0..length /\ F \in Nat
    BY <1>4, <2>1
  <2> QED BY <2>2 DEF L, F
<1>8. (pending = <<>> /\ index = 0) \/ Len(pending) = FrameSize
  BY <1>1, <1>2
<1> HIDE DEF at, to, room, take, z, more
<1>9. Slice(chunk, 0, take) = Slice(Plain, at, z) /\ Slice(chunk, take, Len(chunk)) = Slice(Plain, z, taken)
  <2>1. taken \in 0..Len(Plain) /\ at \in 0..taken /\ take \in 0..(taken - at) /\ 0 \in 0..take
        /\ taken - at \in 0..(taken - at) /\ at + 0 = at /\ at + (taken - at) = taken
    <3>1. taken \in Nat /\ at \in Nat /\ at <= taken /\ take \in Nat /\ take <= taken - at
          /\ taken <= length
      <4>1. at \in 0..length /\ at \in 0..taken
        <5>1. Len(chunk) = taken - at /\ Len(chunk) \in Nat
          BY <1>5
        <5> QED BY <1>1, <1>6, <5>1
      <4>2. take \in 1..Len(chunk) /\ Len(chunk) = taken - at /\ taken \in 0..length
        BY <1>1, <1>5, <1>7
      <4> QED BY <4>1, <4>2
    <3> QED BY <1>3, <3>1
  <2>2. Slice(Slice(Plain, at, taken), 0, take) = Slice(Plain, at + 0, at + take)
    BY <1>3, <2>1, SliceOfSlice
  <2>3. Slice(Slice(Plain, at, taken), take, taken - at) = Slice(Plain, at + take, at + (taken - at))
    BY <1>3, <2>1, SliceOfSlice
  <2> QED BY <1>1, <1>5, <2>1, <2>2, <2>3 DEF z
<1>10. more = Slice(Plain, to, z) /\ Len(more) = Len(frame) + take
  <2>1. z \in 0..Len(Plain) /\ at \in 0..z /\ to \in 0..at /\ to \in 0..z
    BY <1>3, <1>6, <1>7
  <2>2. Slice(Plain, to, at) \o Slice(Plain, at, z) = Slice(Plain, to, z)
    BY <1>3, <2>1, SliceJoin
  <2>3. Len(Slice(Plain, to, z)) = z - to
    BY <1>3, <2>1, SliceFacts
  <2>4. more = Slice(Plain, to, at) \o Slice(Plain, at, z)
    <3>1. SubSeq(chunk, 1, take) = Slice(Plain, at, z)
      <4>1. Slice(chunk, 0, take) = SubSeq(chunk, 1, take)
        BY DEF Slice
      <4> QED BY <1>9, <4>1
    <3>2. frame = Slice(Plain, to, at)
      BY <1>1
    <3> QED BY <3>1, <3>2 DEF more
  <2>5. z - to = Len(frame) + take
    BY <1>1, <1>6, <1>7 DEF z
  <2> QED BY <2>2, <2>3, <2>4, <2>5
<1>11. chunk' = Slice(Plain, z, taken) /\ Len(chunk') = taken - z /\ chunk' = Slice(chunk, take, Len(chunk))
  <2>1. taken \in 0..Len(Plain) /\ z \in 0..taken
    <3>1. taken \in 0..length /\ z \in at..taken /\ at \in 0..length
      BY <1>1, <1>6, <1>7
    <3>2. taken \in 0..length /\ z \in 0..taken
      BY <3>1
    <3> QED BY <1>3, <3>2
  <2>2. Len(Slice(Plain, z, taken)) = taken - z
    BY <1>3, <2>1, SliceFacts
  <2> QED BY <1>2, <1>9, <2>2 DEF Slice
<1>12. taken' = taken /\ taken' - Len(chunk') = z /\ Len(chunk') \in 0..taken'
  <2>1. taken \in 0..length /\ z \in at..taken /\ at \in 0..length /\ taken' = taken
    BY <1>1, <1>2, <1>6, <1>7
  <2>2. Len(chunk') = taken - z
    BY <1>11
  <2> QED BY <2>1, <2>2
<1>13. CASE Len(more) = FrameSize
  <2>1. Yield(more)
    BY <1>2, <1>13
  <2>2. Len(more) \in 1..FrameSize /\ z = index * FrameSize + Len(pending) + Len(more)
    <3>1. z = to + Len(more)
      <4>1. at = to + Len(frame) /\ to \in Nat /\ Len(frame) \in Nat /\ take \in Int
        BY <1>1, <1>5, <1>6, <1>7
      <4>2. Len(more) = Len(frame) + take /\ z = at + take
        BY <1>10 DEF z
      <4> QED BY <4>1, <4>2
    <3> QED BY <1>4, <1>13, <3>1 DEF to
  <2>3. more = Slice(Plain, index * FrameSize + Len(pending), z)
        /\ pending = Slice(Plain, index * FrameSize, index * FrameSize + Len(pending))
    BY <1>1, <1>10 DEF to
  <2>4. /\ index' \in Nat /\ index' < FrameCount(length)
        /\ frame' = <<>> /\ pending' = more
        /\ z = index' * FrameSize + Len(more)
        /\ more = Slice(Plain, index' * FrameSize, z)
        /\ envelope' = Begun("new", Plain)[index']
    BY <1>1, <1>7, <1>8, <2>1, <2>2, <2>3, YieldSends
  <2>5. frame' = Slice(Plain, z, z) /\ Len(frame') = 0
    <3>1. z \in Int /\ z + 1 \in Int /\ z < z + 1
      BY <1>7
    <3>2. SubSeq(Plain, z + 1, z) = <<>>
      BY <3>1, SubSeqEmpty
    <3> QED BY <2>4, <3>2 DEF Slice
  <2> DEFINE from == index' * FrameSize
  <2>6. /\ Len(pending') = FrameSize /\ from + Len(pending') = z
        /\ pending' = Slice(Plain, from, from + Len(pending'))
    BY <1>13, <2>4
  <2>7. z = z + Len(frame') /\ Len(frame') \in 0..(FrameSize - 1)
    BY <1>4, <1>7, <2>5
  <2> HIDE DEF from
  <2>8. /\ chunk' = Slice(Plain, taken' - Len(chunk'), taken')
        /\ taken' - Len(chunk') = (from + Len(pending')) + Len(frame')
        /\ frame' = Slice(Plain, from + Len(pending'), taken' - Len(chunk'))
    BY <1>11, <1>12, <2>5, <2>6, <2>7
  <2> QED BY <1>1, <1>2, <1>3, <1>12, <2>4, <2>6, <2>7, <2>8 DEF WriterOK, from
<1>14. CASE Len(more) # FrameSize
  <2>1. frame' = more /\ UNCHANGED <<pending, index, envelope>>
    BY <1>2, <1>14
  <2>2. Len(frame') \in 0..(FrameSize - 1) /\ z = to + Len(frame')
    <3>1. Len(frame') = Len(frame) + take
      BY <1>10, <2>1
    <3>2. Len(frame') \in 1..FrameSize /\ Len(frame') # FrameSize
      BY <1>7, <1>14, <2>1, <3>1
    <3>3. z = to + Len(frame')
      BY <1>1, <1>6, <1>7, <3>1 DEF z
    <3> QED BY <1>4, <3>2, <3>3
  <2>3. frame' = Slice(Plain, to, z)
    BY <1>10, <2>1
  <2>4. chunk' = Slice(Plain, taken' - Len(chunk'), taken')
    BY <1>11, <1>12
  <2> QED BY <1>1, <1>2, <1>3, <1>8, <1>12, <2>1, <2>2, <2>3, <2>4 DEF WriterOK, to
<1> QED BY <1>13, <1>14

\* And the last, short frame.
LEMMA RemainderWrites ==
  ASSUME length \in Nat, WriterOK, Remainder
  PROVE  WriterOK'
<1> DEFINE to == index * FrameSize + Len(pending)
<1>1. /\ chunk = <<>> /\ taken = length /\ frame # <<>> /\ Yield(frame)
      /\ UNCHANGED <<length, older, taken, chunk>>
  BY DEF Remainder
<1>2. /\ index \in Nat /\ index < FrameCount(length)
      /\ length = to + Len(frame) /\ Len(frame) \in 0..(FrameSize - 1)
      /\ pending = Slice(Plain, index * FrameSize, to) /\ frame = Slice(Plain, to, length)
      /\ (pending = <<>> /\ index = 0) \/ Len(pending) = FrameSize
      /\ envelope = Begun("new", Plain)[index]
      /\ chunk = Slice(Plain, length, length)
  BY <1>1 DEF WriterOK
<1>3. Plain \in Seq(Int) /\ Len(Plain) = length /\ Plain' = Plain
  BY <1>1, Payloads, Steady
<1>4. FrameSize \in Nat \ {0}
  BY FrameAssumption
<1>5. to \in 0..length
  <2>1. index * FrameSize \in Nat
    BY <1>2, <1>4
  <2>2. Len(pending) \in Nat
    <3>1. Len(<<>>) = 0
      OBVIOUS
    <3> QED BY <1>2, <1>4, <3>1
  <2>3. to \in Nat
    BY <2>1, <2>2
  <2>4. length = to + Len(frame) /\ Len(frame) \in Nat
    BY <1>2, <1>4
  <2> HIDE DEF to
  <2> QED BY <2>3, <2>4
<1>6. Len(frame) \in 1..FrameSize
  <2>1. frame \in Seq(Int)
    <3> HIDE DEF to
    <3>1. length \in 0..Len(Plain) /\ frame = Slice(Plain, to, length)
      <4>1. length \in 0..Len(Plain)
        BY ONLY length \in Nat, <1>3
      <4> QED BY <1>2, <4>1
    <3>2. Slice(Plain, to, length) \in Seq(Int)
      BY <1>3, <1>5, <3>1, SliceFacts
    <3> QED BY <3>1, <3>2
  <2>2. Len(frame) # 0
    BY <1>1, <2>1, EmptySeq
  <2> QED BY <1>2, <1>4, <2>2
<1>7. /\ index' \in Nat /\ index' < FrameCount(length)
      /\ frame' = <<>> /\ pending' = frame
      /\ length = index' * FrameSize + Len(frame)
      /\ frame = Slice(Plain, index' * FrameSize, length)
      /\ envelope' = Begun("new", Plain)[index']
  <2>1. length \in 0..length
    OBVIOUS
  <2> QED BY <1>1, <1>2, <1>6, <2>1, YieldSends
<1>8. frame' = Slice(Plain, length, length) /\ Len(frame') = 0 /\ Len(frame') \in 0..(FrameSize - 1)
  <2>1. Len(chunk) = 0
    BY <1>1
  <2> QED BY <1>1, <1>2, <1>4, <1>7, <2>1
<1> DEFINE from == index' * FrameSize
<1>9. /\ Len(pending') \in 1..FrameSize /\ from + Len(pending') = length
      /\ pending' = Slice(Plain, from, from + Len(pending'))
  BY <1>6, <1>7
<1>10. taken' = length /\ Len(chunk') = 0 /\ taken' - Len(chunk') = length /\ chunk' = <<>>
  BY <1>1
<1> HIDE DEF from, to
<1>11. /\ chunk' = Slice(Plain, taken' - Len(chunk'), taken')
       /\ taken' - Len(chunk') = (from + Len(pending')) + Len(frame')
       /\ frame' = Slice(Plain, from + Len(pending'), taken' - Len(chunk'))
  BY <1>1, <1>2, <1>8, <1>9, <1>10
<1>12. taken' \in 0..length /\ Len(chunk') \in 0..taken'
  BY <1>10
<1> QED BY <1>1, <1>3, <1>7, <1>8, <1>9, <1>10, <1>11, <1>12 DEF WriterOK, from

\* The last frame completes the documented envelope, within the counter.
LEMMA SealLastWrites ==
  ASSUME length \in Nat, WriterOK, SealLast
  PROVE  SameEnvelope'
<1>1. /\ chunk = <<>> /\ taken = length /\ frame = <<>> /\ index < MaxFrames
      /\ envelope' = envelope \o EncryptFrame("new", index, TRUE, pending)
      /\ UNCHANGED <<length, older>>
  BY DEF SealLast
<1>2. FrameSize \in Nat \ {0} /\ MaxFrames \in Nat \ {0}
  BY FrameAssumption
<1>3. Plain \in Seq(Int) /\ Len(Plain) = length /\ Plain' = Plain
  BY <1>1, Payloads, Steady
<1>4. /\ index \in Nat
      /\ length = index * FrameSize + Len(pending)
      /\ pending = Slice(Plain, index * FrameSize, index * FrameSize + Len(pending))
      /\ (pending = <<>> /\ index = 0) \/ Len(pending) \in 1..FrameSize
      /\ envelope = Begun("new", Plain)[index]
  <2>1. taken - Len(chunk) = length /\ Len(frame) = 0
    BY <1>1
  <2>2. /\ index \in Nat
        /\ length = index * FrameSize + Len(pending) + Len(frame)
        /\ pending = Slice(Plain, index * FrameSize, index * FrameSize + Len(pending))
        /\ (pending = <<>> /\ index = 0) \/ Len(pending) \in 1..FrameSize
        /\ envelope = Begun("new", Plain)[index]
    BY <1>2, <2>1 DEF WriterOK
  <2>3. index * FrameSize \in Nat /\ Len(pending) \in Nat
    BY <1>2, <2>2
  <2> QED BY <2>1, <2>2, <2>3
<1>5. /\ index * FrameSize < length \/ (index = 0 /\ length = 0)
      /\ length <= (index + 1) * FrameSize
  <2>1. index * FrameSize \in Nat /\ (index + 1) * FrameSize = index * FrameSize + FrameSize
    BY <1>2, <1>4
  <2>2. CASE pending = <<>> /\ index = 0
    <3>1. Len(pending) = 0 /\ index * FrameSize = 0
      BY <1>2, <2>2
    <3> QED BY <1>2, <1>4, <2>1, <2>2, <3>1
  <2>3. CASE Len(pending) \in 1..FrameSize
    BY <1>2, <1>4, <2>1, <2>3
  <2> QED BY <1>4, <2>2, <2>3
<1>6. pending = Slice(Plain, index * FrameSize, length)
  BY <1>4
<1>7. FrameCount(length) = index + 1 /\ envelope' = WholeEnvelope("new", Plain)
  BY <1>1, <1>4, <1>5, <1>6, SealFinal
<1>8. Len(envelope') = 2 + length + 2 * FrameCount(length)
  BY <1>3, <1>7, EnvelopeLength
<1>9. Len(envelope') \in EncryptedSizes(length)
  <2>1. ~ (FrameCount(length) > MaxFrames)
    BY <1>1, <1>2, <1>4, <1>7
  <2> QED BY <1>8, <2>1 DEF EncryptedSizes
<1> QED BY <1>1, <1>3, <1>7, <1>9 DEF SameEnvelope

-----------------------------------------------------------------------------
(* The units of what is stored and read.                                   *)

\* A part of a sequence over U is a sequence over U.
LEMMA PartOver ==
  ASSUME NEW U, NEW s \in Seq(U), NEW a \in Nat \ {0}, NEW b \in Int, b <= Len(s)
  PROVE  SubSeq(s, a, b) \in Seq(U)
<1>1. Len(s) \in Nat
  BY LenProperties
<1>2. \A i \in a..b : s[i] \in U
  BY <1>1, ElementOfSeq
<1> QED BY <1>2, SubSeqProperties

\* So is a sequence that is the one up to some place and another from some
\* place on.
LEMMA SpliceOver ==
  ASSUME NEW U, NEW s \in Seq(U), NEW t \in Seq(U), NEW r \in Splices(s, t)
  PROVE  r \in Seq(U)
<1>1. Len(s) \in Nat /\ Len(t) \in Nat
  BY LenProperties
<1> DEFINE e(i, j) == SubSeq(s, 1, i) \o SubSeq(t, j, Len(t))
<1>2. ASSUME NEW i \in 0..Len(s), NEW j \in 1..(Len(t) + 1)
      PROVE  e(i, j) \in Seq(U)
  <2>1. i \in Int /\ i <= Len(s) /\ j \in Nat \ {0} /\ 1 \in Nat \ {0} /\ Len(t) \in Int /\ Len(t) <= Len(t)
    BY <1>1
  <2>2. SubSeq(s, 1, i) \in Seq(U) /\ SubSeq(t, j, Len(t)) \in Seq(U)
    BY <2>1, PartOver
  <2> QED BY <2>2, ConcatProperties
<1>3. Splices(s, t) = {e(i, j) : i \in 0..Len(s), j \in 1..(Len(t) + 1)}
  BY DEF Splices
<1> HIDE DEF e
<1> QED BY <1>2, <1>3

\* And one with two of its runs exchanged.
LEMMA ExchangeOver ==
  ASSUME NEW U, NEW s \in Seq(U), NEW i \in 0..Len(s), NEW j \in 1..Len(s), NEW k \in 2..Len(s)
  PROVE  Exchanged(s, i, j, k) \in Seq(U)
<1>1. Len(s) \in Nat
  BY LenProperties
<1>2. /\ i \in Int /\ i <= Len(s) /\ j \in Int /\ j <= Len(s) /\ k \in Int /\ k <= Len(s)
      /\ 1 \in Nat \ {0} /\ i + 1 \in Nat \ {0} /\ j + 1 \in Nat \ {0} /\ k + 1 \in Nat \ {0}
      /\ Len(s) \in Int /\ Len(s) <= Len(s)
  BY <1>1
<1> DEFINE a == SubSeq(s, 1, i)
           b == SubSeq(s, j + 1, k)
           c == SubSeq(s, i + 1, j)
           d == SubSeq(s, k + 1, Len(s))
<1>3. a \in Seq(U) /\ b \in Seq(U) /\ c \in Seq(U) /\ d \in Seq(U)
  BY <1>2, PartOver
<1>4. Exchanged(s, i, j, k) = a \o b \o c \o d
  BY DEF Exchanged
<1> HIDE DEF a, b, c, d
<1>5. a \o b \in Seq(U)
  BY <1>3, ConcatProperties
<1>6. a \o b \o c \in Seq(U)
  BY <1>3, <1>5, ConcatProperties
<1>7. a \o b \o c \o d \in Seq(U)
  BY <1>3, <1>6, ConcatProperties
<1> QED BY <1>4, <1>7

\* What the path held before is made of the units of that upload.
LEMMA OldUnits ==
  ASSUME length \in Nat
  PROVE  OldEnvelope \in Seq(Units("old", Old))
<1> DEFINE U == Units("old", Old)
<1>1. Old \in Seq(Int)
  BY Payloads
<1>2. WholeEnvelope("old", Old) \in Seq(U)
  <2>1. FrameCount(Len(Old)) \in Nat
    BY <1>1, BegunSteps
  <2>2. 0 \in 0..FrameCount(Len(Old))
    BY <2>1
  <2> QED BY <1>1, <2>2, RestSteps
<1>3. LegacyEnvelope("old", Old) \in Seq(U)
  <2> DEFINE h == Header("V2", "old")
             t == Tag("old", 0, TRUE, Old)
             b == Sealed("old", 0, Old)
  <2>1. h \in Seq(U)
    BY HeaderUnits
  <2>2. t \in U
    BY Zenon DEF Units, Vouched
  <2>3. b \in Seq(U)
    BY <1>1, SealedUnits
  <2>4. LegacyEnvelope("old", Old) = h \o <<t>> \o b
    BY DEF LegacyEnvelope
  <2> HIDE DEF h, t, b, U
  <2>5. <<t>> \in Seq(U)
    BY <2>2
  <2>6. h \o <<t>> \in Seq(U)
    BY <2>1, <2>5, ConcatProperties
  <2>7. h \o <<t>> \o b \in Seq(U)
    BY <2>3, <2>6, ConcatProperties
  <2> QED BY <2>4, <2>7
<1> QED BY <1>2, <1>3 DEF OldEnvelope

\* Whatever the storage gives back is made of the units of the two uploads and
\* of junk.
LEMMA StoredUnits ==
  ASSUME length \in Nat, envelope \in Seq(AllUnits), NEW r \in {envelope} \cup Damaged
  PROVE  r \in Seq(AllUnits)
<1> DEFINE U == AllUnits
<1>1. OldEnvelope \in Seq(U)
  <2>1. Units("old", Old) \subseteq U
    BY DEF AllUnits
  <2> QED BY <2>1, OldUnits, SeqMonotonic
<1>2. Junk \in U
  BY Zenon DEF AllUnits, Units
<1>3. envelope \in Seq(U) /\ Len(envelope) \in Nat
  BY LenProperties
<1> HIDE DEF U
<1>4. CASE r \in Splices(envelope, envelope) \cup Splices(envelope, OldEnvelope)
                   \cup Splices(OldEnvelope, envelope)
  <2>1. r \in Seq(U)
    BY <1>1, <1>3, <1>4, SpliceOver
  <2> QED BY <2>1 DEF U
<1>5. CASE r \in {ReplaceAt(envelope, i, Junk) : i \in 1..Len(envelope)}
  <2>1. PICK i \in 1..Len(envelope) : r = [envelope EXCEPT ![i] = Junk]
    BY <1>5 DEF ReplaceAt
  <2>2. r \in Seq(U)
    BY <1>2, <1>3, <2>1, ExceptSeq
  <2> QED BY <2>2 DEF U
<1>6. CASE r \in {Exchanged(envelope, i, j, k) :
                    i \in 0..Len(envelope), j \in 1..Len(envelope), k \in 2..Len(envelope)}
  <2>1. r \in Seq(U)
    BY <1>3, <1>6, ExchangeOver
  <2> QED BY <2>1 DEF U
<1> QED BY <1>4, <1>5, <1>6 DEF Damaged

-----------------------------------------------------------------------------
(* Opening.                                                                *)

\* A tag that is read was made for one of the two uploads.
LEMMA Vouching ==
  ASSUME NEW tag \in AllUnits, tag.what = "tag"
  PROVE  \E of \in {"new", "old"} : tag \in Vouched(of, Payload(of)) /\ tag.of = of
<1>1. PICK of \in {"new", "old"} : tag \in Units(of, Payload(of))
  BY DEF AllUnits, Payload
<1>2. tag \in Vouched(of, Payload(of))
  BY <1>1 DEF Units, Magic, Params, Junk, Size, Cipher
<1>3. tag.of = of
  BY <1>2 DEF Vouched, Tag
<1> QED BY <1>2, <1>3

\* The bytes of the tag come right after the first i frames.
Continues(bytes, tag, i) ==
  /\ tag.final = TRUE => SubSeq(bytes, 1, i * FrameSize) \o tag.bytes = bytes
  /\ tag.final = TRUE /\ i = 0 => tag.bytes = bytes
  /\ tag.final # TRUE =>
       /\ i + 1 < FrameCount(Len(bytes))
       /\ SubSeq(bytes, 1, i * FrameSize) \o tag.bytes = SubSeq(bytes, 1, (i + 1) * FrameSize)

\* What a tag vouches for continues what the frames before it hold, and is the
\* end of it if it says so.
LEMMA OpensTo ==
  ASSUME NEW of, NEW bytes \in Seq(Int), NEW tag \in Vouched(of, bytes), NEW i \in Nat,
         tag.index = i, i < FrameCount(Len(bytes))
  PROVE  Continues(bytes, tag, i)
<1> USE DEF Continues
<1> DEFINE c == FrameCount(Len(bytes))
<1>1. /\ c \in Nat \ {0} /\ i + 1 \in 1..c /\ i + 1 <= c /\ (i + 1) - 1 = i
  <2>1. c \in Nat \ {0}
    BY LenProperties, FrameCountFits
  <2> HIDE DEF c
  <2>2. i < c
    BY DEF c
  <2> QED BY <2>1, <2>2
<1>2. SubSeq(bytes, 1, 0 * FrameSize) = <<>> /\ \A s \in Seq(Int) : <<>> \o s = s
  <2>1. 0 * FrameSize = 0
    BY FrameAssumption
  <2>2. SubSeq(bytes, 1, 0) = <<>>
    BY SubSeqEmpty
  <2> QED BY <2>1, <2>2, ConcatEmptySeq
<1>3. CASE tag = Tag(of, 0, TRUE, bytes)
  <2>1. tag.index = 0 /\ tag.final = TRUE /\ tag.bytes = bytes
    BY <1>3 DEF Tag
  <2>2. i = 0
    BY <2>1
  <2>3. SubSeq(bytes, 1, i * FrameSize) \o tag.bytes = bytes
    BY <1>2, <2>1, <2>2
  <2> QED BY <2>1, <2>3
<1>4. CASE tag \in {Tag(of, k - 1, k = c, Part(bytes, k)) : k \in 1..c}
  <2> HIDE DEF c
  <2>1. PICK k \in 1..c : tag = Tag(of, k - 1, k = c, Part(bytes, k))
    BY <1>4
  <2>2. tag.index = k - 1 /\ tag.final = (k = c) /\ tag.bytes = Part(bytes, k)
    BY <2>1 DEF Tag
  <2>3. k = i + 1
    BY <1>1, <2>2
  <2>4. tag.bytes = Part(bytes, i + 1)
    BY <2>2, <2>3
  <2>5. /\ SubSeq(bytes, 1, i * FrameSize) \o tag.bytes = SubSeq(bytes, 1, Cut(Len(bytes), i + 1))
        /\ i + 1 = c => SubSeq(bytes, 1, i * FrameSize) \o tag.bytes = bytes
    BY <1>1, <2>4, Opening DEF c
  <2>6. CASE i + 1 = c
    <3>1. tag.final = TRUE
      BY <2>2, <2>3, <2>6
    <3>2. SubSeq(bytes, 1, i * FrameSize) \o tag.bytes = bytes
      BY <2>5, <2>6
    <3>3. i = 0 => tag.bytes = bytes
      <4> HAVE i = 0
      <4>1. tag.bytes \in Seq(Int)
        BY <1>1, <2>4, PartBounds DEF c
      <4> QED BY <1>2, <3>2, <4>1
    <3> QED BY <3>1, <3>2, <3>3 DEF c
  <2>7. CASE i + 1 < c
    <3>1. tag.final # TRUE
      <4>1. k # c
        BY <1>1, <2>3, <2>7
      <4>2. (k = c) = FALSE
        BY <4>1
      <4>3. tag.final = FALSE
        BY <2>2, <4>2, Zenon
      <4> QED BY <4>3
    <3>2. Cut(Len(bytes), i + 1) = (i + 1) * FrameSize
      BY <1>1, <2>7, PartBounds DEF c
    <3> QED BY <2>5, <2>7, <3>1, <3>2 DEF c
  <2>8. i + 1 = c \/ i + 1 < c
    BY <1>1
  <2> QED BY <2>6, <2>7, <2>8, Zenon
<1>5. tag \in {Tag(of, k - 1, k = c, Part(bytes, k)) : k \in 1..c} \/ tag = Tag(of, 0, TRUE, bytes)
  BY DEF Vouched
<1> QED BY <1>3, <1>4, <1>5

\* The beginning of a payload.
LEMMA Beginning ==
  ASSUME NEW bytes \in Seq(Int), NEW k \in Nat, k < FrameCount(Len(bytes))
  PROVE  /\ IsPrefix(SubSeq(bytes, 1, k * FrameSize), bytes)
         /\ IsPrefix(bytes, bytes) /\ IsPrefix(<<>>, bytes)
<1> DEFINE z == k * FrameSize
           c == FrameCount(Len(bytes))
<1>1. Len(bytes) \in Nat /\ z \in 0..Len(bytes)
  <2>1. c \in Nat \ {0}
    BY LenProperties, FrameCountFits
  <2>2. k + 1 \in 1..c /\ (k + 1) - 1 = k
    <3>1. k < c
      OBVIOUS
    <3> HIDE DEF c
    <3> QED BY <2>1, <3>1
  <2> QED BY <2>2, PartBounds
<1> HIDE DEF z
<1>2. SubSeq(bytes, 1, z) \in Seq(Int) /\ Len(SubSeq(bytes, 1, z)) = z
  <2>1. Slice(bytes, 0, z) \in Seq(Int) /\ Len(Slice(bytes, 0, z)) = z - 0
    BY <1>1, SliceFacts
  <2>2. Slice(bytes, 0, z) = SubSeq(bytes, 1, z)
    BY DEF Slice
  <2> QED BY <1>1, <2>1, <2>2
<1> DEFINE s == SubSeq(bytes, 1, z)
<1>3. SubSeq(s, 1, Len(s)) = s
  BY <1>2, SubSeqFull
<1>4. IsPrefix(s, bytes)
  <2>1. Len(s) = z /\ s = SubSeq(bytes, 1, z)
    BY <1>2
  <2> HIDE DEF s
  <2> QED BY <1>1, <1>3, <2>1 DEF IsPrefix
<1>5. IsPrefix(bytes, bytes)
  BY <1>1 DEF IsPrefix
<1>6. IsPrefix(<<>>, bytes)
  <2>1. Len(<<>>) = 0 /\ SubSeq(<<>>, 1, 0) = <<>> /\ SubSeq(bytes, 1, 0) = <<>>
    BY SubSeqEmpty
  <2> QED BY <1>1, <2>1 DEF IsPrefix
<1> QED BY <1>4, <1>5, <1>6 DEF z

-----------------------------------------------------------------------------
(* The reader's steps keep the invariant.                                  *)

ReaderPcs == {"magic", "tail", "first", "frame", "next", "legacy", "failed", "lost", "done"}

\* What a step of the reader has to show.
LEMMA ReaderStep ==
  ASSUME E2EEInv, UNCHANGED <<length, older, envelope>>, pc' \in ReaderPcs,
         input' \in Seq(AllUnits), buffered' \in Seq(AllUnits), ReaderOK', WholeOrFailed'
  PROVE  E2EEInv'
<1>1. AllUnits' = AllUnits
  BY Steady
<1>2. /\ length' \in Nat /\ older' \in {"V2", "V3"}
      /\ envelope' \in Seq(AllUnits') /\ input' \in Seq(AllUnits') /\ buffered' \in Seq(AllUnits')
  BY <1>1 DEF E2EEInv
<1>3. pc' \notin {"encrypt", "store", "broken"}
  BY DEF ReaderPcs
<1>4. SameEnvelope'
  BY <1>3 DEF SameEnvelope
<1> QED BY <1>2, <1>3, <1>4 DEF E2EEInv, ReaderPcs

\* What a step that releases nothing has to show.
LEMMA NothingReleased ==
  ASSUME WholeOrFailed, UNCHANGED <<length, older, output>>, pc' # "done"
  PROVE  WholeOrFailed'
<1>1. Plain' = Plain
  BY Steady
<1> QED BY <1>1 DEF WholeOrFailed, Old

\* What is released stays released while the reader stays at its frame.
LEMMA StillReleased ==
  ASSUME Released, UNCHANGED <<length, older, index, output>>, current'.of = current.of
  PROVE  Released'
<1>1. \A of : Payload(of)' = Payload(of)
  BY Steady
<1> QED BY <1>1 DEF Released

\* What the reader holds is made of units, and so is what it drops to.
LEMMA Dropped ==
  ASSUME E2EEInv, NEW n \in Nat
  PROVE  SubSeq(buffered, n + 1, Len(buffered)) \in Seq(AllUnits)
<1>1. buffered \in Seq(AllUnits) /\ Len(buffered) \in Nat
  BY LenProperties DEF E2EEInv
<1>2. n + 1 \in Nat \ {0} /\ Len(buffered) \in Int /\ Len(buffered) <= Len(buffered)
  BY <1>1
<1> QED BY <1>1, <1>2, PartOver

\* Reading on changes nothing but where the units are.
LEMMA ReadKeeps ==
  ASSUME E2EEInv, Read, pc \in ReaderPcs
  PROVE  E2EEInv'
<1>1. UNCHANGED <<length, older, envelope, index, current, output, pc>>
  BY DEF Read, writer
<1>2. /\ input \in Seq(AllUnits) /\ buffered \in Seq(AllUnits) /\ Len(input) \in Nat
      /\ WholeOrFailed /\ ReaderOK
  BY LenProperties DEF E2EEInv
<1>3. input' \in Seq(AllUnits) /\ buffered' \in Seq(AllUnits)
  <2>1. CASE UNCHANGED <<input, buffered>>
    BY <1>2, <2>1
  <2>2. ASSUME NEW k \in ChunkSizes, k <= Len(input),
               buffered' = buffered \o SubSeq(input, 1, k),
               input' = SubSeq(input, k + 1, Len(input))
        PROVE  input' \in Seq(AllUnits) /\ buffered' \in Seq(AllUnits)
    <3>1. /\ k \in Nat \ {0} /\ k \in Int /\ k + 1 \in Nat \ {0} /\ 1 \in Nat \ {0}
          /\ Len(input) \in Int /\ Len(input) <= Len(input)
      BY <1>2, ChunksAssumption
    <3>2. SubSeq(input, 1, k) \in Seq(AllUnits) /\ SubSeq(input, k + 1, Len(input)) \in Seq(AllUnits)
      BY <1>2, <2>2, <3>1, PartOver
    <3>3. buffered \o SubSeq(input, 1, k) \in Seq(AllUnits)
      BY <1>2, <3>2, ConcatProperties
    <3> QED BY <2>2, <3>2, <3>3
  <2> QED BY <2>1, <2>2 DEF Read
<1>4. WholeOrFailed'
  <2>1. Plain' = Plain
    BY <1>1, Steady
  <2> QED BY <1>1, <1>2, <2>1 DEF WholeOrFailed, Old
<1>5. ReaderOK'
  <2>1. AllUnits' = AllUnits
    BY <1>1, Steady
  <2>2. Released => Released'
    BY <1>1, StillReleased
  <2> QED BY <1>1, <1>2, <2>1, <2>2 DEF ReaderOK
<1> QED BY <1>1, <1>3, <1>4, <1>5, ReaderStep

\* A step that ends the reading with an error.
LEMMA FailKeeps ==
  ASSUME E2EEInv, Idle, UNCHANGED <<index, buffered, current, output>>,
         pc' \in {"failed", "lost"}
  PROVE  E2EEInv'
<1>1. UNCHANGED <<length, older, envelope, input, output, buffered>>
  BY DEF Idle, writer
<1>2. /\ input' \in Seq(AllUnits) /\ buffered' \in Seq(AllUnits) /\ WholeOrFailed
  BY <1>1 DEF E2EEInv
<1>3. WholeOrFailed'
  BY <1>1, <1>2, NothingReleased
<1>4. ReaderOK'
  BY DEF ReaderOK
<1>5. pc' \in ReaderPcs
  BY DEF ReaderPcs
<1> QED BY <1>1, <1>2, <1>3, <1>4, <1>5, ReaderStep

\* The first unit decides which reader it is.
LEMMA MagicKeeps ==
  ASSUME E2EEInv, OnMagic
  PROVE  E2EEInv'
<1>1. /\ pc = "magic" /\ pc' \in {"tail", "legacy"}
      /\ buffered' = buffered \/ Drop(1)
      /\ UNCHANGED <<length, older, envelope, input, index, current, output>>
  BY DEF OnMagic, Idle, writer
<1>2. input' \in Seq(AllUnits) /\ buffered' \in Seq(AllUnits)
  BY <1>1, Dropped DEF E2EEInv, Drop
<1>3. WholeOrFailed'
  BY <1>1, NothingReleased DEF E2EEInv
<1>4. ReaderOK'
  BY <1>1 DEF E2EEInv, ReaderOK
<1>5. pc' \in ReaderPcs
  BY <1>1 DEF ReaderPcs
<1> QED BY <1>1, <1>2, <1>3, <1>4, <1>5, ReaderStep

\* The header is taken as it is: only a tag vouches for it.
LEMMA TailKeeps ==
  ASSUME E2EEInv, OnTail
  PROVE  E2EEInv'
<1>1. CASE Fail
  BY <1>1, FailKeeps DEF OnTail, Fail
<1>2. CASE ~ Fail
  <2>1. /\ pc = "tail" /\ pc' = "first" /\ Drop(1)
        /\ UNCHANGED <<length, older, envelope, input, index, output>>
    BY <1>2 DEF OnTail, Idle, writer
  <2>2. input' \in Seq(AllUnits) /\ buffered' \in Seq(AllUnits)
    BY <2>1, Dropped DEF E2EEInv, Drop
  <2>3. WholeOrFailed'
    BY <2>1, NothingReleased DEF E2EEInv
  <2>4. ReaderOK'
    BY <2>1 DEF E2EEInv, ReaderOK, Released
  <2>5. pc' \in ReaderPcs
    BY <2>1 DEF ReaderPcs
  <2> QED BY <2>1, <2>2, <2>3, <2>4, <2>5, ReaderStep
<1> QED BY <1>1, <1>2

\* A length is taken for what it says, up to that of a full frame.
LEMMA FirstKeeps ==
  ASSUME E2EEInv, OnFirst
  PROVE  E2EEInv'
<1>0. /\ pc = "first" /\ Idle /\ BeginFrame /\ buffered # <<>> /\ buffered \in Seq(AllUnits)
      /\ UNCHANGED <<length, older, envelope, input>>
  BY DEF OnFirst, Idle, writer, E2EEInv
<1>1. PICK n \in LengthsOf(buffered[1]) :
        IF n > FrameSize THEN Fail
        ELSE /\ current' = [of |-> current.of, size |-> n]
             /\ pc' = "frame" /\ Drop(1)
             /\ UNCHANGED <<index, output>>
  BY <1>0 DEF BeginFrame
<1>2. CASE n > FrameSize
  BY <1>0, <1>1, <1>2, FailKeeps DEF Fail
<1>3. CASE ~ (n > FrameSize)
  <2>1. /\ current' = [of |-> current.of, size |-> n] /\ pc' = "frame" /\ Drop(1)
        /\ UNCHANGED <<index, output>>
    BY <1>1, <1>3
  <2>2. n \in Nat
    <3>1. buffered[1] \in AllUnits
      <4>1. Len(buffered) \in Nat /\ Len(buffered) # 0
        BY <1>0, LenProperties, EmptySeq
      <4> QED BY <1>0, <4>1, ElementOfSeq
    <3>2. CASE buffered[1].what = "size"
      <4>1. buffered[1] \in {Size(m) : m \in Nat}
        BY <3>1, <3>2 DEF AllUnits, Units, Vouched, Magic, Params, Junk, Cipher, Tag
      <4>2. buffered[1].n \in Nat
        BY <4>1 DEF Size
      <4> QED BY <3>2, <4>2 DEF LengthsOf
    <3>3. CASE buffered[1].what # "size"
      BY <3>3, FrameAssumption DEF LengthsOf
    <3> QED BY <3>2, <3>3
  <2>3. input' \in Seq(AllUnits) /\ buffered' \in Seq(AllUnits)
    BY <1>0, <2>1, Dropped DEF E2EEInv, Drop
  <2>4. WholeOrFailed'
    BY <1>0, <2>1, NothingReleased DEF E2EEInv
  <2>5. ReaderOK'
    <3>1. index \in Nat /\ Released
      BY <1>0 DEF E2EEInv, ReaderOK
    <3>2. current'.of = current.of /\ current'.size = n
      BY <2>1
    <3>3. Released'
      BY <1>0, <2>1, <3>1, <3>2, StillReleased
    <3>4. n \in 0..FrameSize
      BY <1>3, <2>2, FrameAssumption
    <3> QED BY <2>1, <3>1, <3>2, <3>3, <3>4 DEF ReaderOK
  <2>6. pc' \in ReaderPcs
    BY <2>1 DEF ReaderPcs
  <2> QED BY <1>0, <2>1, <2>3, <2>4, <2>5, <2>6, ReaderStep
<1> QED BY <1>2, <1>3

\* A frame is read before it is opened.
LEMMA FrameKeeps ==
  ASSUME E2EEInv, OnFrame
  PROVE  E2EEInv'
<1>1. /\ pc = "frame" /\ pc' = "next" /\ Len(buffered) >= Wanted /\ Drop(Wanted)
      /\ current' = [of |-> current.of, tag |-> buffered[1], cipher |-> SubSeq(buffered, 2, Wanted)]
      /\ UNCHANGED <<length, older, envelope, input, index, output>>
  BY DEF OnFrame, Idle, writer
<1>2. Wanted = 1 + current.size /\ current.size \in Nat
  BY <1>1, FrameAssumption DEF Wanted, E2EEInv, ReaderOK
<1>3. Wanted \in Nat /\ Wanted >= 1
  BY <1>2
<1>4. buffered[1] \in AllUnits
  <2>1. buffered \in Seq(AllUnits) /\ Len(buffered) \in Nat
    BY LenProperties DEF E2EEInv
  <2>2. 1 \in 1..Len(buffered)
    BY <1>1, <1>3, <2>1
  <2> QED BY <2>1, <2>2, ElementOfSeq
<1>5. input' \in Seq(AllUnits) /\ buffered' \in Seq(AllUnits)
  BY <1>1, <1>3, Dropped DEF E2EEInv, Drop
<1>6. WholeOrFailed'
  BY <1>1, NothingReleased DEF E2EEInv
<1>7. ReaderOK'
  <2>1. index \in Nat /\ Released
    BY <1>1 DEF E2EEInv, ReaderOK
  <2>2. current'.of = current.of /\ current'.tag = buffered[1]
    BY <1>1
  <2>3. Released'
    BY <1>1, <2>1, <2>2, StillReleased
  <2>4. AllUnits' = AllUnits
    BY <1>1, Steady
  <2> QED BY <1>1, <1>4, <2>1, <2>2, <2>3, <2>4 DEF ReaderOK
<1>8. pc' \in ReaderPcs
  BY <1>1 DEF ReaderPcs
<1> QED BY <1>1, <1>5, <1>6, <1>7, <1>8, ReaderStep

\* A frame that opens is of the payload whose header was read, and is its next
\* one.
LEMMA OpenedNext ==
  ASSUME E2EEInv, pc = "next", NEW final \in BOOLEAN,
         Open(current.of, index, final, current.tag, current.cipher) # {}
  PROVE  \E of \in {"new", "old"} :
           /\ Open(current.of, index, final, current.tag, current.cipher) = {current.tag.bytes}
           /\ current.of = Params(of) /\ index \in Nat
           /\ index < FrameCount(Len(Payload(of)))
           /\ output = SubSeq(Payload(of), 1, index * FrameSize)
           /\ current.tag \in Vouched(of, Payload(of))
           /\ current.tag.index = index /\ current.tag.final = final
<1>1. index \in Nat /\ Released /\ current.tag \in AllUnits
  BY DEF E2EEInv, ReaderOK
<1>2. /\ current.tag.what = "tag" /\ Params(current.tag.of) = current.of
      /\ current.tag.index = index /\ current.tag.final = final
      /\ Open(current.of, index, final, current.tag, current.cipher) = {current.tag.bytes}
  BY DEF Open
<1>3. PICK of \in {"new", "old"} :
        current.tag \in Vouched(of, Payload(of)) /\ current.tag.of = of
  BY <1>1, <1>2, Vouching
<1>4. current.of = Params(of)
  BY <1>2, <1>3
<1>5. /\ index < FrameCount(Len(Payload(of)))
      /\ output = SubSeq(Payload(of), 1, index * FrameSize)
  <2>1. CASE index = 0 /\ output = <<>>
    <3>1. Len(Payload(of)) \in Nat
      BY Payloads, LenProperties DEF E2EEInv
    <3>2. FrameCount(Len(Payload(of))) \in Nat \ {0}
      BY <3>1, FrameCountFits
    <3>3. 0 * FrameSize = 0 /\ SubSeq(Payload(of), 1, 0) = <<>>
      BY FrameAssumption, SubSeqEmpty
    <3> QED BY <2>1, <3>2, <3>3
  <2>2. CASE ~ (index = 0 /\ output = <<>>)
    <3>1. PICK f \in {"new", "old"} :
            /\ current.of = Params(f)
            /\ index < FrameCount(Len(Payload(f)))
            /\ output = SubSeq(Payload(f), 1, index * FrameSize)
      BY <1>1, <2>2 DEF Released
    <3>2. f = of
      BY <1>4, <3>1 DEF Params
    <3> QED BY <3>1, <3>2
  <2> QED BY <2>1, <2>2
<1> QED BY <1>1, <1>2, <1>3, <1>4, <1>5

\* What a frame releases continues its payload, and the last one ends it.
LEMMA NextKeeps ==
  ASSUME E2EEInv, OnNext
  PROVE  E2EEInv'
<1> DEFINE final == buffered = <<>>
<1>1. /\ pc = "next" /\ Idle /\ Deliver(final) /\ final \in BOOLEAN
      /\ UNCHANGED <<length, older, envelope, input>>
  BY DEF OnNext, Idle, writer
<1> HIDE DEF final
<1>2. CASE Fail
  BY <1>1, <1>2, FailKeeps DEF Fail
<1>3. CASE ~ Fail
  <2> DEFINE opened == Open(current.of, index, final, current.tag, current.cipher)
  <2>1. /\ opened # {}
        /\ output' = output \o CHOOSE bytes \in opened : TRUE
        /\ UNCHANGED <<buffered, current>>
        /\ \/ final /\ pc' = "done"
           \/ ~ final /\ pc' = "first" /\ index' = index + 1
    BY <1>1, <1>3 DEF Deliver
  <2>2. PICK of \in {"new", "old"} :
          /\ opened = {current.tag.bytes}
          /\ current.of = Params(of) /\ index \in Nat
          /\ index < FrameCount(Len(Payload(of)))
          /\ output = SubSeq(Payload(of), 1, index * FrameSize)
          /\ current.tag \in Vouched(of, Payload(of))
          /\ current.tag.index = index /\ current.tag.final = final
    BY <1>1, <2>1, OpenedNext
  <2> DEFINE bytes == Payload(of)
             i == index
  <2>3. output' = output \o current.tag.bytes
    <3>1. (CHOOSE b \in opened : TRUE) = current.tag.bytes
      BY <2>2
    <3> QED BY <2>1, <3>1
  <2>4. /\ bytes \in Seq(Int) /\ bytes' = bytes
        /\ Plain' = Plain /\ Old' = Old
        /\ bytes \in {Plain, Old}
    BY <1>1, Payloads, Steady DEF E2EEInv, Payload, Old
  <2>5. /\ current.tag.final = TRUE => SubSeq(bytes, 1, i * FrameSize) \o current.tag.bytes = bytes
        /\ current.tag.final # TRUE =>
             /\ i + 1 < FrameCount(Len(bytes))
             /\ SubSeq(bytes, 1, i * FrameSize) \o current.tag.bytes
                  = SubSeq(bytes, 1, (i + 1) * FrameSize)
    <3> HIDE DEF bytes
    <3>1. i \in Nat /\ current.tag \in Vouched(of, bytes) /\ current.tag.index = i
          /\ i < FrameCount(Len(bytes))
      BY <2>2 DEF bytes
    <3>2. bytes \in Seq(Int)
      BY <2>4 DEF bytes
    <3> DEFINE tag == current.tag
    <3>3. tag \in Vouched(of, bytes) /\ tag.index = i
      BY <3>1
    <3> HIDE DEF i, tag
    <3>4. Continues(bytes, tag, i)
      BY <3>1, <3>2, <3>3, OpensTo
    <3> QED BY <3>4 DEF Continues, tag
  <2>6. input' \in Seq(AllUnits) /\ buffered' \in Seq(AllUnits)
    BY <1>1, <2>1 DEF E2EEInv
  <2>7. CASE final /\ pc' = "done"
    <3>1. output' = bytes
      BY <2>2, <2>3, <2>5, <2>7
    <3>2. WholeOrFailed'
      <4>1. IsPrefix(bytes, bytes)
        <5>1. 0 \in Nat /\ 0 < FrameCount(Len(bytes))
          BY <2>4, LenProperties, FrameCountFits
        <5> QED BY <2>4, <5>1, Beginning
      <4> QED BY <2>4, <3>1, <4>1 DEF WholeOrFailed
    <3>3. ReaderOK' /\ pc' \in ReaderPcs
      BY <2>7 DEF ReaderOK, ReaderPcs
    <3> QED BY <1>1, <2>6, <3>2, <3>3, ReaderStep
  <2>8. CASE ~ final /\ pc' = "first" /\ index' = index + 1
    <3>1. current.tag.final # TRUE
      BY <2>2, <2>8
    <3>2. /\ i + 1 < FrameCount(Len(bytes)) /\ i + 1 \in Nat
          /\ output' = SubSeq(bytes, 1, (i + 1) * FrameSize)
      <4>1. i \in Nat /\ output = SubSeq(bytes, 1, i * FrameSize)
        BY <2>2
      <4> HIDE DEF i, bytes
      <4>2. /\ i + 1 < FrameCount(Len(bytes))
            /\ SubSeq(bytes, 1, i * FrameSize) \o current.tag.bytes
                 = SubSeq(bytes, 1, (i + 1) * FrameSize)
        BY <2>5, <3>1, Zenon
      <4>3. i + 1 \in Nat
        BY <4>1
      <4> QED BY <2>3, <4>1, <4>2, <4>3, Zenon
    <3>3. WholeOrFailed'
      <4>1. IsPrefix(output', bytes)
        <5> DEFINE j == i + 1
        <5>1. j \in Nat /\ j < FrameCount(Len(bytes))
          BY <3>2
        <5>2. output' = SubSeq(bytes, 1, j * FrameSize)
          BY <3>2
        <5> HIDE DEF j, bytes
        <5>3. IsPrefix(SubSeq(bytes, 1, j * FrameSize), bytes)
          BY <2>4, <5>1, Beginning
        <5> QED BY <5>2, <5>3
      <4> QED BY <2>4, <2>8, <4>1 DEF WholeOrFailed
    <3>4. ReaderOK'
      <4>1. index' = i + 1 /\ current' = current
        BY <2>1, <2>8
      <4>2. Payload(of)' = bytes
        BY <2>4
      <4>3. index' \in Nat /\ index' < FrameCount(Len(Payload(of)'))
            /\ output' = SubSeq(Payload(of)', 1, index' * FrameSize)
        BY <3>2, <4>1, <4>2
      <4>4. Released'
        BY <2>2, <4>1, <4>3 DEF Released
      <4> QED BY <2>8, <4>3, <4>4 DEF ReaderOK
    <3>5. pc' \in ReaderPcs
      BY <2>8 DEF ReaderPcs
    <3> QED BY <1>1, <2>6, <3>3, <3>4, <3>5, ReaderStep
  <2> QED BY <2>1, <2>7, <2>8
<1> QED BY <1>2, <1>3

\* One tag over everything opens to one payload or to nothing.
LEMMA LegacyKeeps ==
  ASSUME E2EEInv, OnLegacy
  PROVE  E2EEInv'
<1>1. /\ pc = "legacy" /\ Idle /\ UNCHANGED <<length, older, envelope, input>>
  BY DEF OnLegacy, Idle, writer
<1>2. CASE Fail
  BY <1>1, <1>2, FailKeeps DEF Fail
<1>3. CASE ~ Fail
  <2>1. /\ Len(buffered) >= 3
        /\ Open(buffered[2], 0, TRUE, buffered[3], SubSeq(buffered, 4, Len(buffered))) # {}
        /\ output' = buffered[3].bytes /\ pc' = "done"
        /\ UNCHANGED <<index, buffered, current>>
    BY <1>3 DEF OnLegacy
  <2> DEFINE tag == buffered[3]
  <2>2. tag \in AllUnits
    <3>1. buffered \in Seq(AllUnits) /\ Len(buffered) \in Nat
      BY LenProperties DEF E2EEInv
    <3>2. 3 \in 1..Len(buffered)
      BY <2>1, <3>1
    <3> QED BY <3>1, <3>2, ElementOfSeq
  <2>3. tag.what = "tag" /\ tag.index = 0 /\ tag.final = TRUE
    BY <2>1 DEF Open
  <2> HIDE DEF tag
  <2>4. PICK of \in {"new", "old"} : tag \in Vouched(of, Payload(of))
    BY <2>2, <2>3, Vouching
  <2> DEFINE bytes == Payload(of)
  <2>5. bytes \in Seq(Int) /\ Plain' = Plain /\ Old' = Old /\ bytes \in {Plain, Old}
    BY <1>1, Payloads, Steady DEF E2EEInv, Payload, Old
  <2>6. 0 \in Nat /\ 0 < FrameCount(Len(bytes))
    BY <2>5, LenProperties, FrameCountFits
  <2> HIDE DEF bytes
  <2>7. tag \in Vouched(of, bytes)
    BY <2>4 DEF bytes
  <2>8. tag.bytes = bytes
    <3>1. Continues(bytes, tag, 0)
      BY <2>3, <2>5, <2>6, <2>7, OpensTo
    <3> QED BY <2>3, <3>1 DEF Continues
  <2>9. output' = bytes
    BY <2>1, <2>8 DEF tag
  <2>10. WholeOrFailed'
    <3>1. IsPrefix(bytes, bytes)
      BY <2>5, <2>6, Beginning
    <3> QED BY <2>5, <2>9, <3>1 DEF WholeOrFailed
  <2>11. ReaderOK' /\ pc' \in ReaderPcs
    BY <2>1 DEF ReaderOK, ReaderPcs
  <2>12. input' \in Seq(AllUnits) /\ buffered' \in Seq(AllUnits)
    BY <1>1, <2>1 DEF E2EEInv
  <2> QED BY <1>1, <2>10, <2>11, <2>12, ReaderStep
<1> QED BY <1>2, <1>3

-----------------------------------------------------------------------------
(* The writer's steps keep the invariant.                                  *)

\* What was sent is made of the units of the new upload.
LEMMA WrittenUnits ==
  ASSUME length \in Nat, WriterOK
  PROVE  envelope \in Seq(AllUnits)
<1>1. Plain \in Seq(Int) /\ Len(Plain) = length
  BY Payloads
<1>2. index \in Nat /\ index < FrameCount(length) /\ envelope = Begun("new", Plain)[index]
  BY DEF WriterOK
<1> DEFINE U == Units("new", Plain)
           c == FrameCount(length)
           b == Begun("new", Plain)
<1>3. c \in Nat /\ \A k \in 0..c : b[k] \in Seq(U)
  BY <1>1, BegunSteps
<1>4. U \subseteq AllUnits
  BY DEF AllUnits
<1> HIDE DEF U, c, b
<1>5. index \in 0..c /\ envelope = b[index]
  BY <1>2, <1>3 DEF b, c
<1>6. envelope \in Seq(U)
  BY <1>3, <1>5
<1> QED BY <1>4, <1>6, SeqMonotonic

\* What a step that goes on with the encryption has to show.
LEMMA WriterStep ==
  ASSUME E2EEInv, pc = "encrypt", UNCHANGED <<length, older, reader, pc>>, WriterOK'
  PROVE  E2EEInv'
<1>1. /\ length \in Nat /\ older \in {"V2", "V3"} /\ input \in Seq(AllUnits)
      /\ buffered \in Seq(AllUnits) /\ input = <<>> /\ buffered = <<>> /\ output = <<>>
      /\ ended = FALSE /\ WholeOrFailed
  BY DEF E2EEInv
<1>2. UNCHANGED <<length, older, input, ended, buffered, output, pc>>
  BY DEF reader
<1>3. AllUnits' = AllUnits
  BY <1>2, Steady
<1>4. (envelope \in Seq(AllUnits))'
  <2>1. (length \in Nat)'
    BY <1>1, <1>2
  <2> QED BY <2>1, WrittenUnits, PTL
<1>5. WholeOrFailed'
  BY <1>1, <1>2, NothingReleased
<1>6. SameEnvelope' /\ ReaderOK'
  BY <1>2 DEF SameEnvelope, ReaderOK
<1> QED BY <1>1, <1>2, <1>3, <1>4, <1>5, <1>6 DEF E2EEInv

\* encryptStream keeps the invariant.
LEMMA EncryptKeeps ==
  ASSUME E2EEInv, Encrypt
  PROVE  E2EEInv'
<1>0. pc = "encrypt" /\ WriterOK /\ length \in Nat
  <2>1. pc = "encrypt"
    BY DEF Encrypt, Pull, Fill, Remainder, SealLast, EncryptFails
  <2> QED BY <2>1 DEF E2EEInv
<1>1. CASE Pull
  <2>1. WriterOK'
    BY <1>0, <1>1, PullWrites
  <2> QED BY <1>0, <1>1, <2>1, WriterStep DEF Pull
<1>2. CASE Fill
  <2>1. WriterOK'
    BY <1>0, <1>2, FillWrites
  <2> QED BY <1>0, <1>2, <2>1, WriterStep DEF Fill
<1>3. CASE Remainder
  <2>1. WriterOK'
    BY <1>0, <1>3, RemainderWrites
  <2> QED BY <1>0, <1>3, <2>1, WriterStep DEF Remainder
<1>4. CASE SealLast \/ EncryptFails
  <2>1. /\ UNCHANGED <<length, older, input, ended, buffered, output>>
        /\ pc' \in {"store", "broken"}
    BY <1>4 DEF SealLast, EncryptFails, reader
  <2>2. AllUnits' = AllUnits /\ Plain' = Plain
    BY <2>1, Steady
  <2>3. SameEnvelope'
    <3>1. CASE SealLast
      BY <1>0, <3>1, SealLastWrites
    <3>2. CASE EncryptFails
      BY <3>2 DEF EncryptFails, SameEnvelope
    <3> QED BY <1>4, <3>1, <3>2
  <2>4. envelope' \in Seq(AllUnits)
    <3>1. CASE SealLast
      <4>1. envelope' = WholeEnvelope("new", Plain)
        BY <2>2, <2>3, <3>1 DEF SameEnvelope, SealLast
      <4>2. Plain \in Seq(Int)
        BY <1>0, Payloads
      <4>3. WholeEnvelope("new", Plain) \in Seq(Units("new", Plain))
        <5>1. FrameCount(Len(Plain)) \in Nat
          BY <4>2, BegunSteps
        <5>2. 0 \in 0..FrameCount(Len(Plain))
          BY <5>1
        <5> QED BY <4>2, <5>2, RestSteps
      <4>4. Units("new", Plain) \subseteq AllUnits
        BY DEF AllUnits
      <4> QED BY <4>1, <4>3, <4>4, SeqMonotonic
    <3>2. CASE EncryptFails
      <4>1. envelope' = envelope
        BY <3>2 DEF EncryptFails, writer
      <4> QED BY <4>1 DEF E2EEInv
    <3> QED BY <1>4, <3>1, <3>2
  <2>5. WholeOrFailed'
    BY <2>1, NothingReleased DEF E2EEInv
  <2>6. ReaderOK'
    BY <2>1 DEF ReaderOK
  <2> QED BY <1>0, <2>1, <2>2, <2>3, <2>4, <2>5, <2>6 DEF E2EEInv
<1> QED BY <1>1, <1>2, <1>3, <1>4 DEF Encrypt

\* Whatever the storage gives back, the reader begins with nothing released.
LEMMA KeepKeeps ==
  ASSUME E2EEInv, Keep
  PROVE  E2EEInv'
<1>1. /\ pc \in {"store", "broken"} /\ pc' = "magic" /\ index' = 0
      /\ input' \in {envelope} \cup Damaged
      /\ UNCHANGED <<length, older, envelope, ended, buffered, output>>
  BY DEF Keep, writer
<1>2. /\ length \in Nat /\ envelope \in Seq(AllUnits) /\ buffered \in Seq(AllUnits)
      /\ output = <<>> /\ WholeOrFailed
  BY <1>1 DEF E2EEInv
<1>3. input' \in Seq(AllUnits) /\ buffered' \in Seq(AllUnits)
  <2>1. input' \in Seq(AllUnits)
    BY <1>1, <1>2, StoredUnits
  <2> QED BY <1>1, <1>2, <2>1
<1>4. WholeOrFailed'
  BY <1>1, <1>2, NothingReleased
<1>5. ReaderOK' /\ pc' \in ReaderPcs
  BY <1>1, <1>2 DEF ReaderOK, ReaderPcs
<1> QED BY <1>1, <1>3, <1>4, <1>5, ReaderStep

\* decryptStream keeps the invariant.
LEMMA DecryptKeeps ==
  ASSUME E2EEInv, Decrypt
  PROVE  E2EEInv'
<1>1. CASE Read
  <2>1. pc \in ReaderPcs
    BY <1>1 DEF Read, Wanted, ReaderPcs, E2EEInv
  <2> QED BY <1>1, <2>1, ReadKeeps
<1>2. CASE Break
  BY <1>2, FailKeeps DEF Break
<1>3. CASE Truncated
  BY <1>3, FailKeeps DEF Truncated, Fail
<1> QED BY <1>1, <1>2, <1>3, MagicKeeps, TailKeeps, FirstKeeps, FrameKeeps, NextKeeps, LegacyKeeps
        DEF Decrypt

\* A step that changes nothing keeps the invariant.
LEMMA StutterKeeps ==
  ASSUME E2EEInv, UNCHANGED vars
  PROVE  E2EEInv'
<1>1. /\ UNCHANGED <<length, older, taken, chunk, frame, pending, index, envelope>>
      /\ UNCHANGED <<input, ended, buffered, current, output, pc>>
  BY DEF vars, writer, reader
<1>2. AllUnits' = AllUnits /\ Plain' = Plain /\ Old' = Old /\ \A of : Payload(of)' = Payload(of)
  BY <1>1, Steady DEF Old
<1>3. WriterOK => WriterOK'
  BY <1>1, <1>2 DEF WriterOK
<1>4. Released => Released'
  BY <1>1, StillReleased
<1>5. ReaderOK => ReaderOK'
  BY <1>1, <1>2, <1>4 DEF ReaderOK
<1>6. (SameEnvelope => SameEnvelope') /\ (WholeOrFailed => WholeOrFailed')
  BY <1>1, <1>2 DEF SameEnvelope, WholeOrFailed
<1> QED BY <1>1, <1>2, <1>3, <1>5, <1>6 DEF E2EEInv

\* In the beginning only the header is sent.
LEMMA BeginsOK ==
  ASSUME Init
  PROVE  E2EEInv
<1>1. /\ length \in Nat /\ older \in {"V2", "V3"} /\ pc = "encrypt"
      /\ taken = 0 /\ chunk = <<>> /\ frame = <<>> /\ pending = <<>> /\ index = 0
      /\ envelope = Header("V3", "new")
      /\ input = <<>> /\ ended = FALSE /\ buffered = <<>> /\ output = <<>>
  BY LengthsAssumption DEF Init
<1>2. WriterOK
  <2>1. Plain \in Seq(Int) /\ Len(Plain) = length
    BY <1>1, Payloads
  <2>2. FrameCount(length) \in Nat \ {0}
    BY <1>1, FrameCountFits
  <2>3. Begun("new", Plain)[0] = envelope
    BY <1>1, <2>1, BegunSteps
  <2>4. FrameSize \in Nat \ {0} /\ 0 * FrameSize = 0 /\ Len(<<>>) = 0
    BY FrameAssumption
  <2>5. Slice(Plain, 0, 0) = <<>>
    BY SubSeqEmpty DEF Slice
  <2> QED BY <1>1, <2>2, <2>3, <2>4, <2>5 DEF WriterOK
<1>3. envelope \in Seq(AllUnits)
  BY <1>1, <1>2, WrittenUnits
<1>4. WholeOrFailed
  <2>1. Plain \in Seq(Int) /\ Len(Plain) = length
    BY <1>1, Payloads
  <2>2. 0 \in Nat /\ 0 < FrameCount(Len(Plain))
    BY <1>1, <2>1, FrameCountFits
  <2>3. IsPrefix(<<>>, Plain)
    BY <2>1, <2>2, Beginning
  <2> QED BY <1>1, <2>3 DEF WholeOrFailed
<1>5. input \in Seq(AllUnits) /\ buffered \in Seq(AllUnits)
  BY <1>1
<1> QED BY <1>1, <1>2, <1>3, <1>4, <1>5 DEF E2EEInv, SameEnvelope, ReaderOK

-----------------------------------------------------------------------------
(* What holds of every upload and every download.                          *)

\* The inductive invariant of encryptStream and decryptStream: the frames that
\* were sent are the beginning of the documented envelope, what the writer still
\* holds comes right after them, and what the reader has released is the
\* beginning of one payload, up to the frame it is at.
THEOREM EnvelopeInvariant == Spec => []E2EEInv
<1>1. Init => E2EEInv
  BY BeginsOK
<1>2. E2EEInv /\ [Next]_vars => E2EEInv'
  <2> SUFFICES ASSUME E2EEInv, [Next]_vars PROVE E2EEInv'
    OBVIOUS
  <2> QED BY EncryptKeeps, KeepKeeps, DecryptKeeps, StutterKeeps DEF Next
<1> QED BY <1>1, <1>2, PTL DEF Spec

\* However the source cuts a payload of any length into chunks of any size, the
\* envelope that encryptStream completes is the documented one, of the size that
\* encryptedSize announced.
THEOREM OneEnvelope == Spec => []SameEnvelope
<1>1. E2EEInv => SameEnvelope
  BY DEF E2EEInv
<1> QED BY <1>1, EnvelopeInvariant, PTL

\* Of two uploads to one path, spliced, cut off, repeated, spoilt or exchanged
\* in any way Damaged describes, decryptStream releases the beginning of one
\* payload and ends without an error only after all of it.
THEOREM NothingMixed == Spec => []WholeOrFailed
<1>1. E2EEInv => WholeOrFailed
  BY DEF E2EEInv
<1> QED BY <1>1, EnvelopeInvariant, PTL

-----------------------------------------------------------------------------
(* An envelope that comes back as it was.                                  *)

\* What is at the front of what the reader holds is at the front of what is
\* still to be read.
LEMMA TakeFront ==
  ASSUME NEW S, NEW b \in Seq(S), NEW i \in Seq(S), NEW h \in Seq(S), NEW r \in Seq(S),
         b \o i = h \o r, Len(h) <= Len(b)
  PROVE  /\ SubSeq(b, 1, Len(h)) = h
         /\ SubSeq(b, Len(h) + 1, Len(b)) \o i = r
<1> DEFINE n == Len(h)
           f == SubSeq(b, 1, n)
           t == SubSeq(b, n + 1, Len(b))
           w == b \o i
<1>1. Len(b) \in Nat /\ n \in 0..Len(b)
  BY LenProperties
<1>2. f \in Seq(S) /\ Len(f) = n /\ t \in Seq(S) /\ f \o t = b
  <2> DEFINE m == Len(b)
  <2>0. m \in Nat /\ m \in 0..m /\ n \in 0..m /\ 0 \in 0..n /\ n \in Nat
    BY <1>1
  <2> HIDE DEF n, m
  <2>1. Slice(b, 0, n) \in Seq(S) /\ Len(Slice(b, 0, n)) = n - 0
    BY <2>0, SliceFacts DEF m
  <2>2. Slice(b, n, m) \in Seq(S)
    BY <2>0, SliceFacts DEF m
  <2>3. Slice(b, 0, n) \o Slice(b, n, m) = Slice(b, 0, m)
    <3>1. m \in 0..Len(b)
      BY <2>0 DEF m
    <3> QED BY ONLY b \in Seq(S), <2>0, <3>1, SliceJoin
  <2>4. Slice(b, 0, n) = SubSeq(b, 1, n) /\ Slice(b, n, m) = SubSeq(b, n + 1, m)
        /\ Slice(b, 0, m) = SubSeq(b, 1, m)
    BY DEF Slice
  <2>5. SubSeq(b, 1, m) = b
    BY SubSeqFull DEF m
  <2>6. n - 0 = n
    BY <2>0
  <2> QED BY <2>1, <2>2, <2>3, <2>4, <2>5, <2>6 DEF m
<1>3. SubSeq(w, 1, n) = h /\ SubSeq(w, n + 1, Len(w)) = r
  BY Apart
<1> HIDE DEF f, t, n
<1>4. w = f \o (t \o i) /\ t \o i \in Seq(S)
  <2>1. t \in Seq(S) /\ f \in Seq(S) /\ i \in Seq(S)
    BY <1>2
  <2>2. (f \o t) \o i = f \o (t \o i)
    <3>1. Joins(f, t, i)
      BY <2>1, Joined
    <3> QED BY ONLY <3>1 DEF Joins
  <2>3. t \o i \in Seq(S)
    BY <2>1, ConcatProperties
  <2> QED BY <1>2, <2>2, <2>3
<1> HIDE DEF w
<1> DEFINE q == t \o i
<1>5. w = f \o q /\ q \in Seq(S)
  BY <1>4
<1> HIDE DEF q
<1>6. SubSeq(w, 1, Len(f)) = f /\ SubSeq(w, Len(f) + 1, Len(w)) = q
  <2>1. f \in Seq(S) /\ q \in Seq(S)
    BY <1>2, <1>5
  <2>2. SubSeq(f \o q, 1, Len(f)) = f /\ SubSeq(f \o q, Len(f) + 1, Len(f \o q)) = q
    BY <2>1, Apart
  <2> QED BY <1>5, <2>2
<1>7. f = h /\ q = r
  BY <1>2, <1>3, <1>6
<1> QED BY <1>7 DEF q, f, t, n

\* Of b and i together, x comes first and r after it.
Begins(b, i, x, r) == b[1] = x /\ SubSeq(b, 1 + 1, Len(b)) \o i = r

\* The same for the first unit.
LEMMA TakeOne ==
  ASSUME NEW S, NEW b \in Seq(S), NEW i \in Seq(S), NEW x \in S, NEW r \in Seq(S),
         b \o i = <<x>> \o r, b # <<>>
  PROVE  Begins(b, i, x, r)
<1> DEFINE h == <<x>>
<1>1. h \in Seq(S) /\ Len(h) = 1 /\ h[1] = x
  OBVIOUS
<1>2. Len(b) \in Nat /\ Len(b) # 0
  BY LenProperties, EmptySeq
<1> HIDE DEF h
<1>3. b \o i = h \o r
  BY DEF h
<1>4. Len(h) <= Len(b)
  BY <1>1, <1>2
<1>5. SubSeq(b, 1, Len(h)) = h /\ SubSeq(b, Len(h) + 1, Len(b)) \o i = r
  BY <1>1, <1>3, <1>4, TakeFront
<1>6. b[1] = x
  <2>1. SubSeq(b, 1, 1)[1] = b[1]
    BY <1>2, SubSeqProperties
  <2> QED BY <1>1, <1>5, <2>1
<1> QED BY <1>1, <1>5, <1>6 DEF Begins

\* The next frame of what is still to be read, unit by unit.
LEMMA EchoUnits ==
  ASSUME length \in Nat, NEW k \in Nat, k < FrameCount(length)
  PROVE  LET part == Part(Plain, k + 1) IN
         /\ Len(part) \in 0..FrameSize
         /\ Size(Len(part)) \in AllUnits /\ Sent(k + 1) \in AllUnits
         /\ Sealed("new", k, part) \in Seq(AllUnits)
         /\ Len(Sealed("new", k, part)) = Len(part)
         /\ Rest("new", Plain, k) \in Seq(AllUnits)
         /\ Rest("new", Plain, k + 1) \in Seq(AllUnits)
         /\ Rest("new", Plain, k)
              = <<Size(Len(part))>>
                  \o ((<<Sent(k + 1)>> \o Sealed("new", k, part)) \o Rest("new", Plain, k + 1))
<1> DEFINE part == Part(Plain, k + 1)
           U == Units("new", Plain)
           c == FrameCount(length)
           n == Size(Len(part))
           t == Sent(k + 1)
           s == Sealed("new", k, part)
           r == Rest("new", Plain, k + 1)
<1>1. Plain \in Seq(Int) /\ Len(Plain) = length
  BY Payloads
<1>2. c \in Nat \ {0}
  BY FrameCountFits
<1>3. k \in 0..c /\ k + 1 \in 0..c /\ k + 1 \in 1..c /\ (k + 1) - 1 = k
  <2>1. k < c
    OBVIOUS
  <2> HIDE DEF c
  <2> QED BY <1>2, <2>1
<1>4. Len(part) \in 0..FrameSize
  BY <1>1, <1>3, PartBounds, FrameAssumption
<1>5. /\ PartFrame("new", Plain, k + 1) = <<n, t>> \o s
      /\ s \in Seq(U) /\ Len(s) = Len(part)
  <2>1. k + 1 \in 1..FrameCount(Len(Plain))
    BY <1>1, <1>3
  <2>2. PartFrame("new", Plain, k + 1)
          = <<n, Tag("new", (k + 1) - 1, k + 1 = FrameCount(Len(Plain)), part)>>
              \o Sealed("new", (k + 1) - 1, part)
        /\ Sealed("new", (k + 1) - 1, part) \in Seq(U)
        /\ Len(Sealed("new", (k + 1) - 1, part)) = Len(part)
    BY <1>1, <2>1, PartFrameUnits
  <2>3. t = Tag("new", (k + 1) - 1, k + 1 = FrameCount(Len(Plain)), part)
    BY <1>1 DEF Sent
  <2> QED BY <1>3, <2>2, <2>3
<1>6. Rest("new", Plain, k) \in Seq(U) /\ r \in Seq(U)
  BY <1>1, <1>3, RestSteps
<1>7. Rest("new", Plain, k) = (<<n, t>> \o s) \o r
  BY <1>1, <1>3, <1>5, RestNext
<1>8. n \in U /\ t \in U
  <2>1. n \in {Size(m) : m \in Nat}
    BY <1>4
  <2>2. t = Tag("new", (k + 1) - 1, (k + 1) = FrameCount(Len(Plain)), Part(Plain, k + 1))
    BY <1>1 DEF Sent
  <2>3. t \in Vouched("new", Plain)
    BY <1>1, <1>3, <2>2, Zenon DEF Vouched
  <2> QED BY <2>1, <2>3, Zenon DEF Units
<1>9. U \subseteq AllUnits
  BY DEF AllUnits
<1> HIDE DEF n, t, s, r, U
<1>10. (<<n, t>> \o s) \o r = <<n>> \o ((<<t>> \o s) \o r)
  <2> DEFINE n1 == <<n>>
             t1 == <<t>>
             ts == t1 \o s
  <2>1. n1 \in Seq(U) /\ t1 \in Seq(U) /\ s \in Seq(U) /\ r \in Seq(U) /\ ts \in Seq(U)
    BY <1>5, <1>6, <1>8, ConcatProperties
  <2>2. <<n, t>> = n1 \o t1
    BY <1>8, PairOfTwo
  <2> HIDE DEF n1, t1
  <2>3. (n1 \o t1) \o s = n1 \o ts
    <3>1. Joins(n1, t1, s)
      BY <2>1, Joined
    <3> QED BY ONLY <3>1 DEF Joins, ts
  <2> HIDE DEF ts
  <2>4. (n1 \o ts) \o r = n1 \o (ts \o r)
    <3>1. Joins(n1, ts, r)
      BY <2>1, Joined
    <3> QED BY ONLY <3>1 DEF Joins
  <2> QED BY <2>2, <2>3, <2>4 DEF n1, t1, ts
<1>11. s \in Seq(AllUnits) /\ r \in Seq(AllUnits) /\ Rest("new", Plain, k) \in Seq(AllUnits)
       /\ n \in AllUnits /\ t \in AllUnits
  BY <1>5, <1>6, <1>8, <1>9, SeqMonotonic
<1> QED BY <1>4, <1>5, <1>7, <1>10, <1>11 DEF n, t, s, r, part

\* What was sent does not change while it is read.
LEMMA SentSteady ==
  ASSUME UNCHANGED <<length, older>>
  PROVE  /\ Plain' = Plain /\ FrameCount(length)' = FrameCount(length)
         /\ \A k : Sent(k)' = Sent(k)
         /\ UNCHANGED <<pc, index>> => Unread' = Unread
<1>1. Plain' = Plain
  BY Steady
<1>2. \A k : Sent(k)' = Sent(k)
  BY <1>1 DEF Sent
<1>3. UNCHANGED <<pc, index>> => Unread' = Unread
  BY <1>1, <1>2 DEF Unread
<1> QED BY <1>1, <1>2, <1>3

\* What is still to be read at each point of the reader, unit by unit.
LEMMA UnreadForms ==
  ASSUME E2EEInv, Echo
  PROVE  /\ Rest("new", Plain, 0) \in Seq(AllUnits)
         /\ Magic("V3") \in AllUnits /\ Params("new") \in AllUnits
         /\ <<Params("new")>> \o Rest("new", Plain, 0) \in Seq(AllUnits)
         /\ pc = "magic" => Unread = <<Magic("V3")>> \o (<<Params("new")>> \o Rest("new", Plain, 0))
         /\ pc = "tail" => Unread = <<Params("new")>> \o Rest("new", Plain, 0)
         /\ pc = "first" => Unread = Rest("new", Plain, index)
         /\ pc = "frame" => Unread = (<<Sent(index + 1)>> \o Sealed("new", index, Part(Plain, index + 1)))
                                       \o Rest("new", Plain, index + 1)
         /\ pc = "next" => Unread = Rest("new", Plain, index + 1)
<1> DEFINE U == Units("new", Plain)
           r == Rest("new", Plain, 0)
           m == Magic("V3")
           t == Params("new")
<1>1. Plain \in Seq(Int) /\ Len(Plain) = length
  BY Payloads DEF E2EEInv
<1>2. r \in Seq(U)
  <2>1. FrameCount(Len(Plain)) \in Nat
    BY <1>1, BegunSteps
  <2>2. 0 \in 0..FrameCount(Len(Plain))
    BY <2>1
  <2> QED BY <1>1, <2>2, RestSteps
<1>3. m \in U /\ t \in U
  BY Zenon DEF Units
<1>4. U \subseteq AllUnits
  BY DEF AllUnits
<1>5. Header("V3", "new") = <<m>> \o <<t>>
  BY HeaderUnits
<1> HIDE DEF U, r, m, t
<1>6. <<t>> \o r \in Seq(U) /\ (<<m>> \o <<t>>) \o r = <<m>> \o (<<t>> \o r)
  <2> DEFINE m1 == <<m>>
             t1 == <<t>>
  <2>1. m1 \in Seq(U) /\ t1 \in Seq(U) /\ r \in Seq(U)
    BY <1>2, <1>3
  <2> HIDE DEF m1, t1
  <2>2. t1 \o r \in Seq(U)
    BY <2>1, ConcatProperties
  <2>3. (m1 \o t1) \o r = m1 \o (t1 \o r)
    <3>1. Joins(m1, t1, r)
      BY <2>1, Joined
    <3> QED BY ONLY <3>1 DEF Joins
  <2> QED BY <2>2, <2>3 DEF m1, t1
<1>7. r \in Seq(AllUnits) /\ <<t>> \o r \in Seq(AllUnits) /\ m \in AllUnits /\ t \in AllUnits
  BY <1>2, <1>3, <1>4, <1>6, SeqMonotonic
<1>8. pc = "magic" => Unread = <<m>> \o (<<t>> \o r)
  <2> HAVE pc = "magic"
  <2>1. Unread = Header("V3", "new") \o r
    BY DEF Unread, r
  <2> QED BY <1>5, <1>6, <2>1
<1>9. /\ pc = "tail" => Unread = <<t>> \o r
      /\ pc = "first" => Unread = Rest("new", Plain, index)
      /\ pc = "frame" => Unread = (<<Sent(index + 1)>> \o Sealed("new", index, Part(Plain, index + 1)))
                                    \o Rest("new", Plain, index + 1)
      /\ pc = "next" => Unread = Rest("new", Plain, index + 1)
  BY DEF Unread, r, t
<1> QED BY <1>7, <1>8, <1>9 DEF r, m, t

\* An envelope that is complete is read from its header on.
LEMMA KeepEchoes ==
  ASSUME E2EEInv, Keep, intact'
  PROVE  Echo'
<1>1. /\ pc = "store" /\ input' = envelope /\ pc' = "magic" /\ index' = 0
      /\ UNCHANGED <<length, older, ended, buffered>>
  BY DEF Keep, writer
<1>2. /\ length \in Nat /\ buffered = <<>> /\ ended = FALSE /\ envelope \in Seq(AllUnits)
      /\ envelope = WholeEnvelope("new", Plain) /\ Len(envelope) \in EncryptedSizes(length)
  BY <1>1 DEF E2EEInv, SameEnvelope
<1>3. FrameCount(length) <= MaxFrames
  <2>1. ~ (FrameCount(length) > MaxFrames)
    BY <1>2 DEF EncryptedSizes
  <2>2. FrameCount(length) \in Nat
    BY <1>2, FrameCountFits
  <2> QED BY <2>1, <2>2, FrameAssumption
<1>4. envelope = Header("V3", "new") \o Rest("new", Plain, 0)
  <2>1. Plain \in Seq(Int)
    BY <1>2, Payloads
  <2>2. FrameCount(Len(Plain)) \in Nat /\ Begun("new", Plain)[0] = Header("V3", "new")
    BY <2>1, BegunSteps
  <2>3. 0 \in 0..FrameCount(Len(Plain))
    BY <2>2
  <2>4. WholeEnvelope("new", Plain) = Begun("new", Plain)[0] \o Rest("new", Plain, 0)
    BY <2>1, <2>3, RestSteps
  <2> QED BY <1>2, <2>2, <2>4
<1>5. Plain' = Plain /\ FrameCount(length)' = FrameCount(length)
  BY <1>1, SentSteady
<1>6. buffered' \o input' = envelope
  <2>1. <<>> \o envelope = envelope
    BY <1>2, ConcatEmptySeq
  <2> QED BY <1>1, <1>2, <2>1
<1>7. Unread' = envelope
  BY <1>1, <1>4, <1>5 DEF Unread
<1> QED BY <1>1, <1>2, <1>3, <1>5, <1>6, <1>7 DEF Echo

\* Reading on leaves what is still to be read as it is.
LEMMA ReadEchoes ==
  ASSUME E2EEInv, Echo, Read, pc \in ReaderPcs
  PROVE  Echo'
<1>1. UNCHANGED <<length, older, index, current, output, pc>>
  BY DEF Read
<1>2. /\ input \in Seq(AllUnits) /\ buffered \in Seq(AllUnits) /\ Len(input) \in Nat
  BY LenProperties DEF E2EEInv
<1>3. ended' => input' = <<>>
  BY DEF Read
<1>4. buffered' \o input' = buffered \o input
  <2>1. CASE UNCHANGED <<input, buffered>>
    BY <2>1
  <2>2. ASSUME NEW k \in ChunkSizes, k <= Len(input),
               buffered' = buffered \o SubSeq(input, 1, k),
               input' = SubSeq(input, k + 1, Len(input))
        PROVE  buffered' \o input' = buffered \o input
    <3> DEFINE n == Len(input)
               f == Slice(input, 0, k)
               t == Slice(input, k, n)
    <3>1. n \in Nat /\ k \in 0..n /\ n \in 0..n /\ 0 \in 0..k
      BY <1>2, <2>2, ChunksAssumption
    <3>2. f = SubSeq(input, 1, k) /\ t = SubSeq(input, k + 1, n) /\ SubSeq(input, 1, n) = input
      <4>1. Slice(input, 0, k) = SubSeq(input, 0 + 1, k) /\ 0 + 1 = 1
        BY DEF Slice
      <4>2. SubSeq(input, 1, n) = input
        BY <1>2, SubSeqFull
      <4>3. Slice(input, k, n) = SubSeq(input, k + 1, n)
        BY DEF Slice
      <4> QED BY <4>1, <4>2, <4>3
    <3>3. f \o t = input
      <4>1. Slice(input, 0, k) \o Slice(input, k, n) = Slice(input, 0, n)
        <5> HIDE DEF n
        <5>1. n \in 0..Len(input)
          BY <3>1 DEF n
        <5> QED BY ONLY <1>2, <3>1, <5>1, SliceJoin
      <4>2. Slice(input, 0, n) = SubSeq(input, 1, n)
        BY DEF Slice
      <4> QED BY <3>2, <4>1, <4>2
    <3>4. f \in Seq(AllUnits) /\ t \in Seq(AllUnits)
      <4> HIDE DEF n
      <4>1. n \in 0..Len(input) /\ k \in 0..Len(input)
        BY <3>1 DEF n
      <4> QED BY <1>2, <3>1, <4>1, SliceFacts
    <3> HIDE DEF f, t
    <3>5. (buffered \o f) \o t = buffered \o (f \o t)
      <4>1. Joins(buffered, f, t)
        BY <1>2, <3>4, Joined
      <4> QED BY ONLY <4>1 DEF Joins
    <3> QED BY <2>2, <3>2, <3>3, <3>5
  <2> QED BY <2>1, <2>2 DEF Read
<1>5. Unread' = Unread /\ Plain' = Plain /\ FrameCount(length)' = FrameCount(length)
      /\ \A k : Sent(k)' = Sent(k)
  BY <1>1, SentSteady
<1> QED BY <1>1, <1>3, <1>4, <1>5 DEF Echo

\* As long as a unit is wanted, one is there.
LEMMA Holds ==
  ASSUME NEW S, NEW b \in Seq(S), NEW h \in Seq(S), NEW r \in Seq(S), b = h \o r
  PROVE  Len(b) \in Nat /\ Len(h) \in Nat /\ Len(h) <= Len(b)
<1>1. Len(h) \in Nat /\ Len(r) \in Nat /\ Len(h \o r) = Len(h) + Len(r)
  BY LenProperties, ConcatProperties
<1> QED BY <1>1

\* An envelope that comes back as it was is not found too short.
LEMMA NotTruncated ==
  ASSUME E2EEInv, Echo, Truncated
  PROVE  FALSE
<1>1. /\ pc \in {"magic", "tail", "first", "frame"} /\ ended /\ Len(buffered) < Wanted
  BY DEF Truncated
<1>2. /\ buffered \in Seq(AllUnits) /\ length \in Nat
  BY DEF E2EEInv
<1>3. buffered = Unread
  <2>1. input = <<>> /\ buffered \o input = Unread
    BY <1>1 DEF Echo
  <2> QED BY <1>2, <2>1, ConcatEmptySeq
<1> DEFINE r == Rest("new", Plain, 0)
           m == Magic("V3")
           t == Params("new")
<1>4. r \in Seq(AllUnits) /\ <<t>> \o r \in Seq(AllUnits) /\ m \in AllUnits /\ t \in AllUnits
      /\ <<m>> \in Seq(AllUnits) /\ <<t>> \in Seq(AllUnits) /\ Len(<<m>>) = 1 /\ Len(<<t>>) = 1
  BY UnreadForms
<1>5. CASE pc = "magic"
  <2>1. buffered = <<m>> \o (<<t>> \o r)
    BY <1>3, <1>5, UnreadForms
  <2> HIDE DEF r, m, t
  <2>2. Len(buffered) \in Nat /\ 1 <= Len(buffered)
    BY <1>2, <1>4, <2>1, Holds
  <2> QED BY <1>1, <1>5, <2>2 DEF Wanted
<1>6. CASE pc = "tail"
  <2>1. buffered = <<t>> \o r
    BY <1>3, <1>6, UnreadForms
  <2> HIDE DEF r, m, t
  <2>2. Len(buffered) \in Nat /\ 1 <= Len(buffered)
    BY <1>2, <1>4, <2>1, Holds
  <2> QED BY <1>1, <1>6, <2>2 DEF Wanted
<1>7. CASE pc \in {"first", "frame"}
  <2> DEFINE part == Part(Plain, index + 1)
             n == Size(Len(part))
             s == Sent(index + 1)
             e == Sealed("new", index, part)
             q == Rest("new", Plain, index + 1)
  <2>1. index \in Nat /\ index < FrameCount(length)
    BY <1>7 DEF Echo
  <2>2. /\ Len(part) \in 0..FrameSize /\ n \in AllUnits /\ s \in AllUnits
        /\ e \in Seq(AllUnits) /\ Len(e) = Len(part) /\ q \in Seq(AllUnits)
        /\ Rest("new", Plain, index) = <<n>> \o ((<<s>> \o e) \o q)
    BY <1>2, <2>1, EchoUnits
  <2>3. CASE pc = "first"
    <3>1. buffered = <<n>> \o ((<<s>> \o e) \o q)
      BY <1>3, <2>2, <2>3, UnreadForms
    <3> HIDE DEF n, s, e, q, part
    <3>2. (<<s>> \o e) \o q \in Seq(AllUnits)
      <4>1. <<s>> \in Seq(AllUnits)
        BY <2>2
      <4>2. <<s>> \o e \in Seq(AllUnits)
        BY <2>2, <4>1, ConcatProperties
      <4> QED BY <2>2, <4>2, ConcatProperties
    <3>3. <<n>> \in Seq(AllUnits) /\ Len(<<n>>) = 1
      BY <2>2
    <3>4. Len(buffered) \in Nat /\ 1 <= Len(buffered)
      BY <1>2, <3>1, <3>2, <3>3, Holds
    <3> QED BY <1>1, <2>3, <3>4 DEF Wanted
  <2>4. CASE pc = "frame"
    <3>1. buffered = (<<s>> \o e) \o q
      BY <1>3, <2>4, UnreadForms
    <3>2. Wanted = 1 + Len(part)
      BY <2>4 DEF Wanted, Echo
    <3> HIDE DEF n, s, e, q, part
    <3>3. <<s>> \in Seq(AllUnits) /\ Len(<<s>>) = 1
      BY <2>2
    <3>4. <<s>> \o e \in Seq(AllUnits) /\ Len(<<s>> \o e) = 1 + Len(e)
      BY <2>2, <3>3, ConcatProperties
    <3>5. Len(buffered) \in Nat /\ Len(<<s>> \o e) <= Len(buffered)
      BY <1>2, <2>2, <3>1, <3>4, Holds
    <3>6. Len(part) \in Nat
      BY <2>2, FrameAssumption
    <3> QED BY <1>1, <2>2, <3>2, <3>4, <3>5, <3>6
  <2> QED BY <1>7, <2>3, <2>4
<1> QED BY <1>1, <1>5, <1>6, <1>7

\* A download that breaks off ends without an answer.
LEMMA BreakEchoes ==
  ASSUME E2EEInv, Echo, Break
  PROVE  Echo'
<1>1. pc' = "lost" /\ UNCHANGED <<length, older, input, ended>>
  BY DEF Break, Idle
<1>2. FrameCount(length)' = FrameCount(length)
  BY <1>1, SentSteady
<1> QED BY <1>1, <1>2 DEF Echo

\* The magic is found, and the header of the new upload after it.
LEMMA MagicEchoes ==
  ASSUME E2EEInv, Echo, OnMagic
  PROVE  Echo'
<1> DEFINE r == Rest("new", Plain, 0)
           m == Magic("V3")
           t == Params("new")
           q == <<t>> \o r
<1>1. /\ pc = "magic" /\ buffered # <<>>
      /\ IF buffered[1] = m THEN pc' = "tail" /\ Drop(1)
         ELSE pc' = "legacy" /\ UNCHANGED buffered
      /\ UNCHANGED <<length, older, input, ended, index>>
  BY DEF OnMagic, Idle
<1>2. buffered \in Seq(AllUnits) /\ input \in Seq(AllUnits)
  BY DEF E2EEInv
<1>3. m \in AllUnits /\ q \in Seq(AllUnits) /\ buffered \o input = <<m>> \o q
  BY <1>1, UnreadForms DEF Echo
<1>4. buffered[1] = m /\ SubSeq(buffered, 1 + 1, Len(buffered)) \o input = q
  <2> HIDE DEF m, q
  <2>1. Begins(buffered, input, m, q)
    BY <1>1, <1>2, <1>3, TakeOne
  <2> QED BY <2>1 DEF Begins
<1>5. pc' = "tail" /\ buffered' \o input' = q
  BY <1>1, <1>4 DEF Drop
<1>6. Plain' = Plain /\ FrameCount(length)' = FrameCount(length)
  BY <1>1, SentSteady
<1>7. Unread' = q
  BY <1>5, <1>6 DEF Unread
<1> QED BY <1>1, <1>5, <1>6, <1>7 DEF Echo

\* Its parameters are in range.
LEMMA TailEchoes ==
  ASSUME E2EEInv, Echo, OnTail
  PROVE  Echo'
<1> DEFINE r == Rest("new", Plain, 0)
           t == Params("new")
<1>1. /\ pc = "tail" /\ buffered # <<>>
      /\ UNCHANGED <<length, older, input, ended>>
  BY DEF OnTail, Idle
<1>2. buffered \in Seq(AllUnits) /\ input \in Seq(AllUnits) /\ length \in Nat
      /\ index = 0 /\ output = <<>>
  BY <1>1 DEF E2EEInv, ReaderOK
<1>3. t \in AllUnits /\ r \in Seq(AllUnits) /\ buffered \o input = <<t>> \o r
  BY <1>1, UnreadForms DEF Echo
<1>4. buffered[1] = t /\ SubSeq(buffered, 1 + 1, Len(buffered)) \o input = r
  <2> HIDE DEF t, r
  <2>1. Begins(buffered, input, t, r)
    BY <1>1, <1>2, <1>3, TakeOne
  <2> QED BY <2>1 DEF Begins
<1>5. buffered[1].what = "tail"
  BY <1>4 DEF Params
<1>6. /\ current' = [of |-> t] /\ pc' = "first" /\ Drop(1) /\ UNCHANGED <<index, output>>
  BY <1>4, <1>5 DEF OnTail
<1>7. buffered' \o input' = r
  BY <1>1, <1>4, <1>6 DEF Drop
<1>8. Plain' = Plain /\ FrameCount(length)' = FrameCount(length)
  BY <1>1, SentSteady
<1>9. Unread' = r
  BY <1>2, <1>6, <1>8 DEF Unread
<1>10. /\ current'.of = t /\ index' \in Nat /\ index' < FrameCount(length)
       /\ output' = SubSeq(Plain, 1, index' * FrameSize)
  <2>1. FrameCount(length) \in Nat \ {0}
    BY <1>2, FrameCountFits
  <2>2. 0 * FrameSize = 0 /\ SubSeq(Plain, 1, 0) = <<>>
    BY FrameAssumption, SubSeqEmpty
  <2> QED BY <1>2, <1>6, <2>1, <2>2
<1> QED BY <1>1, <1>6, <1>7, <1>8, <1>9, <1>10 DEF Echo

\* The length that is found is that of the next frame.
LEMMA FirstEchoes ==
  ASSUME E2EEInv, Echo, OnFirst
  PROVE  Echo'
<1> DEFINE part == Part(Plain, index + 1)
           n == Size(Len(part))
           s == Sent(index + 1)
           e == Sealed("new", index, part)
           q == Rest("new", Plain, index + 1)
           r == (<<s>> \o e) \o q
<1>1. /\ pc = "first" /\ buffered # <<>> /\ BeginFrame
      /\ UNCHANGED <<length, older, input, ended>>
  BY DEF OnFirst, Idle
<1>2. buffered \in Seq(AllUnits) /\ input \in Seq(AllUnits) /\ length \in Nat
  BY DEF E2EEInv
<1>3. /\ index \in Nat /\ index < FrameCount(length) /\ current.of = Params("new")
      /\ output = SubSeq(Plain, 1, index * FrameSize)
  BY <1>1 DEF Echo
<1>4. /\ Len(part) \in 0..FrameSize /\ n \in AllUnits /\ s \in AllUnits
      /\ e \in Seq(AllUnits) /\ q \in Seq(AllUnits)
      /\ Rest("new", Plain, index) = <<n>> \o r
  BY <1>2, <1>3, EchoUnits
<1>5. buffered \o input = <<n>> \o r
  BY <1>1, <1>4, UnreadForms DEF Echo
<1>6. r \in Seq(AllUnits)
  <2> HIDE DEF s, e, q
  <2>1. <<s>> \in Seq(AllUnits)
    BY <1>4
  <2>2. <<s>> \o e \in Seq(AllUnits)
    BY <1>4, <2>1, ConcatProperties
  <2> QED BY <1>4, <2>2, ConcatProperties
<1>7. buffered[1] = n /\ SubSeq(buffered, 1 + 1, Len(buffered)) \o input = r
  <2> HIDE DEF n, r
  <2>1. Begins(buffered, input, n, r)
    BY <1>1, <1>2, <1>4, <1>5, <1>6, TakeOne
  <2> QED BY <2>1 DEF Begins
<1>8. /\ current' = [of |-> current.of, size |-> Len(part)]
      /\ pc' = "frame" /\ Drop(1) /\ UNCHANGED <<index, output>>
  <2>1. LengthsOf(buffered[1]) = {Len(part)}
    BY <1>7 DEF LengthsOf, Size
  <2>2. ~ (Len(part) > FrameSize)
    <3> HIDE DEF part
    <3> QED BY <1>4, FrameAssumption
  <2> HIDE DEF part
  <2> QED BY <1>1, <2>1, <2>2 DEF BeginFrame
<1>9. buffered' \o input' = r
  BY <1>1, <1>7, <1>8 DEF Drop
<1>10. Plain' = Plain /\ FrameCount(length)' = FrameCount(length) /\ \A k : Sent(k)' = Sent(k)
  BY <1>1, SentSteady
<1>11. Unread' = r
  BY <1>8, <1>10 DEF Unread
<1>12. current'.of = Params("new") /\ current'.size = Len(part)
  BY <1>3, <1>8
<1> QED BY <1>1, <1>3, <1>8, <1>9, <1>10, <1>11, <1>12 DEF Echo

\* The tag and the ciphertext that are read are those that were sent.
LEMMA FrameEchoes ==
  ASSUME E2EEInv, Echo, OnFrame
  PROVE  Echo'
<1> DEFINE part == Part(Plain, index + 1)
           s == Sent(index + 1)
           e == Sealed("new", index, part)
           q == Rest("new", Plain, index + 1)
           h == <<s>> \o e
<1>1. /\ pc = "frame" /\ Len(buffered) >= Wanted /\ pc' = "next" /\ Drop(Wanted)
      /\ current' = [of |-> current.of, tag |-> buffered[1], cipher |-> SubSeq(buffered, 2, Wanted)]
      /\ UNCHANGED <<length, older, input, ended, index, output>>
  BY DEF OnFrame, Idle
<1>2. buffered \in Seq(AllUnits) /\ input \in Seq(AllUnits) /\ length \in Nat
      /\ Len(buffered) \in Nat
  BY LenProperties DEF E2EEInv
<1>3. /\ index \in Nat /\ index < FrameCount(length) /\ current.of = Params("new")
      /\ output = SubSeq(Plain, 1, index * FrameSize) /\ current.size = Len(part)
  BY <1>1 DEF Echo
<1>4. /\ Len(part) \in Nat /\ s \in AllUnits
      /\ e \in Seq(AllUnits) /\ Len(e) = Len(part) /\ q \in Seq(AllUnits)
  <2>1. /\ Len(part) \in 0..FrameSize /\ s \in AllUnits
        /\ e \in Seq(AllUnits) /\ Len(e) = Len(part) /\ q \in Seq(AllUnits)
    BY <1>2, <1>3, EchoUnits
  <2> HIDE DEF part, s, e, q
  <2> QED BY <2>1, FrameAssumption
<1>5. buffered \o input = h \o q
  BY <1>1, UnreadForms DEF Echo
<1>6. Wanted = 1 + Len(part)
  BY <1>1, <1>3 DEF Wanted
<1>7. /\ h \in Seq(AllUnits) /\ Len(h) = 1 + Len(e)
      /\ h[1] = s /\ SubSeq(h, 1 + 1, Len(h)) = e
  <2> DEFINE one == <<s>>
  <2>1. one \in Seq(AllUnits) /\ Len(one) = 1 /\ one[1] = s
    BY <1>4
  <2> HIDE DEF one, s, e
  <2>2. /\ one \o e \in Seq(AllUnits) /\ Len(one \o e) = Len(one) + Len(e)
        /\ SubSeq(one \o e, Len(one) + 1, Len(one \o e)) = e
    <3>1. one \in Seq(AllUnits) /\ e \in Seq(AllUnits)
      BY <1>4, <2>1
    <3> QED BY ONLY <3>1, Apart
  <2>3. (one \o e)[1] = one[1]
    BY <1>4, <2>1, ConcatProperties
  <2> QED BY <2>1, <2>2, <2>3 DEF one
<1> HIDE DEF h, s, e, q, part
<1>8. Len(h) = Wanted /\ Len(h) <= Len(buffered) /\ Len(h) \in Nat /\ 1 <= Len(h)
  BY <1>1, <1>2, <1>4, <1>6, <1>7
<1>9. SubSeq(buffered, 1, Len(h)) = h /\ SubSeq(buffered, Len(h) + 1, Len(buffered)) \o input = q
  BY <1>2, <1>4, <1>5, <1>7, <1>8, TakeFront
<1>10. buffered[1] = s
  <2> DEFINE n == Len(h)
             f == SubSeq(buffered, 1, n)
  <2>1. n \in Nat /\ 1 <= n /\ n <= Len(buffered)
    BY <1>8
  <2> HIDE DEF n
  <2>2. f[1] = buffered[1]
    BY <1>2, <2>1, SubSeqProperties
  <2> QED BY <1>7, <1>9, <2>2 DEF n
<1>11. SubSeq(buffered, 2, Wanted) = e
  <2> DEFINE n == Len(h)
  <2>1. n \in Nat /\ 1 <= n /\ n <= Len(buffered) /\ n = Wanted
    BY <1>8
  <2>2. SubSeq(buffered, 1, n) = h
    BY <1>9
  <2> HIDE DEF n
  <2>3. Slice(Slice(buffered, 0, n), 1, n) = Slice(buffered, 0 + 1, 0 + n)
    <3>1. n \in 0..Len(buffered) /\ 0 \in 0..n /\ n \in 0..(n - 0) /\ 1 \in 0..n
      BY <1>2, <2>1
    <3> QED BY ONLY <1>2, <3>1, SliceOfSlice
  <2>4. Slice(buffered, 0, n) = h
    BY <2>2 DEF Slice
  <2>5. 0 + 1 = 1 /\ 0 + n = n /\ 1 + 1 = 2
    BY <2>1
  <2>6. SubSeq(h, 2, n) = SubSeq(buffered, 2, n)
    BY <2>3, <2>4, <2>5 DEF Slice
  <2> QED BY <1>7, <2>1, <2>5, <2>6 DEF n
<1>12. buffered' \o input' = q
  BY <1>1, <1>8, <1>9 DEF Drop
<1>13. Plain' = Plain /\ FrameCount(length)' = FrameCount(length) /\ \A k : Sent(k)' = Sent(k)
  BY <1>1, SentSteady
<1>14. Unread' = q
  BY <1>1, <1>13 DEF Unread, q
<1>15. current'.of = Params("new") /\ current'.tag = s /\ current'.cipher = e
  BY <1>1, <1>3, <1>10, <1>11
<1> QED BY <1>1, <1>3, <1>12, <1>13, <1>14, <1>15 DEF Echo, s, e, part

\* A frame that was sent opens at its place, as the last one if it was sealed
\* as the last one, and is released.
LEMMA NextEchoes ==
  ASSUME E2EEInv, Echo, OnNext
  PROVE  Echo'
<1> DEFINE part == Part(Plain, index + 1)
           s == Sent(index + 1)
           c == FrameCount(length)
           q == Rest("new", Plain, index + 1)
           final == buffered = <<>>
<1>1. /\ pc = "next" /\ (buffered # <<>> \/ ended) /\ Deliver(final) /\ final \in BOOLEAN
      /\ UNCHANGED <<length, older, input, ended>>
  BY DEF OnNext, Idle
<1>2. buffered \in Seq(AllUnits) /\ input \in Seq(AllUnits) /\ length \in Nat
  BY DEF E2EEInv
<1>3. /\ index \in Nat /\ index < c /\ current.of = Params("new") /\ c <= MaxFrames
      /\ output = SubSeq(Plain, 1, index * FrameSize)
      /\ current.tag = s /\ current.cipher = Sealed("new", index, part)
      /\ buffered \o input = q /\ (ended => input = <<>>)
  BY <1>1, UnreadForms DEF Echo
<1>4. Plain \in Seq(Int) /\ Len(Plain) = length /\ c \in Nat \ {0}
  BY <1>2, Payloads, FrameCountFits
<1>5. final = (index + 1 = c)
  <2>1. CASE index + 1 = c
    <3>1. q = <<>>
      BY <1>4, <2>1, RestEnds
    <3>2. buffered = <<>>
      <4>1. Len(buffered) \in Nat /\ Len(input) \in Nat
            /\ Len(buffered \o input) = Len(buffered) + Len(input) /\ Len(<<>>) = 0
        BY <1>2, LenProperties, ConcatProperties
      <4>2. Len(buffered) = 0
        BY <1>3, <3>1, <4>1
      <4> QED BY <1>2, <4>2, EmptySeq
    <3> QED BY <2>1, <3>2
  <2>2. CASE index + 1 # c
    <3> DEFINE k == index + 1
               p2 == Part(Plain, k + 1)
               n2 == Size(Len(p2))
               r2 == (<<Sent(k + 1)>> \o Sealed("new", k, p2)) \o Rest("new", Plain, k + 1)
    <3>1. k \in Nat /\ k < c
      <4> HIDE DEF c
      <4> QED BY <1>3, <1>4, <2>2
    <3>2. /\ n2 \in AllUnits /\ Sent(k + 1) \in AllUnits
          /\ Sealed("new", k, p2) \in Seq(AllUnits) /\ Rest("new", Plain, k + 1) \in Seq(AllUnits)
          /\ q = <<n2>> \o r2
      <4> HIDE DEF k
      <4>1. /\ n2 \in AllUnits /\ Sent(k + 1) \in AllUnits
            /\ Sealed("new", k, p2) \in Seq(AllUnits) /\ Rest("new", Plain, k + 1) \in Seq(AllUnits)
            /\ Rest("new", Plain, k) = <<n2>> \o r2
        BY <1>2, <3>1, EchoUnits
      <4>2. q = Rest("new", Plain, k)
        BY DEF k
      <4> QED BY <4>1, <4>2
    <3>3. r2 \in Seq(AllUnits)
      <4> DEFINE x == Sent(k + 1)
                 y == Sealed("new", k, p2)
                 z == Rest("new", Plain, k + 1)
      <4> HIDE DEF x, y, z
      <4>1. x \in AllUnits /\ y \in Seq(AllUnits) /\ z \in Seq(AllUnits)
        BY <3>2 DEF x, y, z
      <4>2. <<x>> \in Seq(AllUnits)
        BY <4>1
      <4>3. <<x>> \o y \in Seq(AllUnits)
        BY <4>1, <4>2, ConcatProperties
      <4>4. (<<x>> \o y) \o z \in Seq(AllUnits)
        BY <4>1, <4>3, ConcatProperties
      <4> QED BY <4>4 DEF x, y, z
    <3>4. buffered # <<>>
      <4> SUFFICES ASSUME buffered = <<>> PROVE FALSE
        OBVIOUS
      <4>1. input = <<>>
        BY <1>1, <1>3
      <4>2. q = <<>>
        BY <1>3, <4>1, ConcatEmptySeq
      <4> HIDE DEF q, n2, r2
      <4>3. <<n2>> \in Seq(AllUnits) /\ Len(<<n2>>) = 1
        BY <3>2
      <4>4. Len(<<n2>> \o r2) = 1 + Len(r2) /\ Len(r2) \in Nat
        BY <3>3, <4>3, ConcatProperties, LenProperties
      <4>5. Len(<<>>) = 0
        OBVIOUS
      <4> QED BY <3>2, <4>2, <4>4, <4>5
    <3> QED BY <2>2, <3>4
  <2> QED BY <2>1, <2>2
<1>6. /\ s.what = "tag" /\ s.of = "new" /\ s.index = index /\ s.bytes = part
      /\ s.final = (index + 1 = c)
  BY <1>3 DEF Sent, Tag
<1>7. Open(current.of, index, final, current.tag, current.cipher) = {part}
  <2>1. s.final = final
    BY <1>5, <1>6, Zenon
  <2> HIDE DEF s, part, final
  <2>2. Params(s.of) = current.of /\ current.cipher = Sealed(s.of, index, s.bytes)
    BY <1>3, <1>6
  <2> QED BY <1>3, <1>6, <2>1, <2>2 DEF Open
<1>8. index < MaxFrames
  <2> HIDE DEF c
  <2> QED BY <1>3, <1>4, FrameAssumption
<1> HIDE DEF final, part
<1>9. /\ output' = output \o part
      /\ IF final THEN pc' = "done" /\ UNCHANGED <<index, buffered, current>>
         ELSE pc' = "first" /\ index' = index + 1 /\ UNCHANGED <<buffered, current>>
  <2>1. (CHOOSE bytes \in {part} : TRUE) = part
    OBVIOUS
  <2>2. ~ (index >= MaxFrames)
    BY <1>3, <1>8, FrameAssumption
  <2>3. {part} # {}
    OBVIOUS
  <2> QED BY <1>1, <1>7, <2>1, <2>2, <2>3 DEF Deliver
<1>10. Plain' = Plain /\ FrameCount(length)' = FrameCount(length) /\ \A k : Sent(k)' = Sent(k)
  BY <1>1, SentSteady
<1>11. /\ output' = SubSeq(Plain, 1, Cut(length, index + 1))
       /\ index + 1 = c => output' = Plain
  <2>1. index + 1 <= FrameCount(Len(Plain))
    <3> HIDE DEF c
    <3>1. index + 1 <= c
      BY <1>3, <1>4
    <3> QED BY <1>4, <3>1 DEF c
  <2>2. /\ SubSeq(Plain, 1, index * FrameSize) \o Part(Plain, index + 1)
             = SubSeq(Plain, 1, Cut(Len(Plain), index + 1))
        /\ index + 1 = FrameCount(Len(Plain)) =>
             SubSeq(Plain, 1, index * FrameSize) \o Part(Plain, index + 1) = Plain
    BY <1>3, <1>4, <2>1, Opening
  <2> QED BY <1>3, <1>4, <1>9, <2>2 DEF part
<1>12. CASE final
  <2>1. pc' = "done"
    BY <1>9, <1>12
  <2>2. output' = Plain
    BY <1>5, <1>11, <1>12
  <2> QED BY <1>1, <1>3, <1>10, <2>1, <2>2 DEF Echo
<1>13. CASE ~ final
  <2>1. pc' = "first" /\ index' = index + 1 /\ UNCHANGED <<buffered, current>>
    BY <1>9, <1>13
  <2>2. index + 1 \in Nat /\ index + 1 < c
    <3>1. index + 1 # c
      BY <1>5, <1>13
    <3> HIDE DEF c
    <3> QED BY <1>3, <1>4, <3>1
  <2>3. Cut(length, index + 1) = (index + 1) * FrameSize
    <3>1. index + 1 \in 1..FrameCount(Len(Plain)) /\ index + 1 < FrameCount(Len(Plain))
      <4> HIDE DEF c
      <4>1. index + 1 \in 1..c
        BY <1>3, <1>4, <2>2
      <4> QED BY <1>4, <2>2, <4>1 DEF c
    <3> QED BY <1>4, <3>1, PartBounds
  <2>4. index' \in Nat /\ index' < c
    BY <2>1, <2>2
  <2>5. output' = SubSeq(Plain, 1, index' * FrameSize)
    BY <1>11, <2>1, <2>3
  <2>6. Unread' = q
    BY <1>10, <2>1 DEF Unread
  <2>7. buffered' \o input' = q
    BY <1>1, <1>3, <2>1
  <2> QED BY <1>1, <1>3, <1>10, <2>1, <2>4, <2>5, <2>6, <2>7 DEF Echo
<1> QED BY <1>12, <1>13

\* Every step keeps an envelope that comes back as it was readable.
LEMMA EchoKeeps ==
  ASSUME E2EEInv, EchoInv, [Next]_vars
  PROVE  EchoInv'
<1>1. CASE Encrypt
  <2>1. pc' \in {"encrypt", "store", "broken"}
    BY <1>1 DEF Encrypt, Pull, Fill, Remainder, SealLast, EncryptFails
  <2> QED BY <2>1 DEF EchoInv
<1>2. CASE Keep
  BY <1>2, KeepEchoes DEF EchoInv
<1>3. CASE Decrypt
  <2>1. pc \in ReaderPcs /\ intact' = intact
    <3>1. CASE Read
      BY <3>1 DEF Read, Wanted, ReaderPcs, E2EEInv
    <3>2. CASE Decrypt /\ ~ Read
      BY <3>2 DEF Decrypt, Break, Truncated, OnMagic, OnTail, OnFirst, OnFrame, OnNext, OnLegacy,
                  Idle, ReaderPcs
    <3> QED BY <1>3, <3>1, <3>2
  <2> SUFFICES ASSUME intact PROVE Echo'
    BY <2>1 DEF EchoInv
  <2>2. Echo
    BY <2>1 DEF EchoInv, ReaderPcs
  <2>3. ~ Truncated
    BY <2>2, NotTruncated
  <2>4. ~ OnLegacy
    BY <2>2 DEF Echo, OnLegacy
  <2> QED BY <1>3, <2>1, <2>2, <2>3, <2>4, ReadEchoes, BreakEchoes, MagicEchoes, TailEchoes,
             FirstEchoes, FrameEchoes, NextEchoes DEF Decrypt
<1>4. CASE UNCHANGED vars
  <2>1. /\ UNCHANGED <<length, older, index, input, ended, buffered, current, output, pc>>
        /\ UNCHANGED intact
    BY <1>4 DEF vars, reader
  <2>2. Unread' = Unread /\ Plain' = Plain /\ FrameCount(length)' = FrameCount(length)
        /\ \A k : Sent(k)' = Sent(k)
    BY <2>1, SentSteady
  <2> QED BY <2>1, <2>2 DEF EchoInv, Echo
<1> QED BY <1>1, <1>2, <1>3, <1>4 DEF Next

\* An envelope that comes back as it was is never rejected, whatever the length
\* of the payload and however its units are cut into chunks on either side, and
\* decryptStream ends with the payload.
THEOREM RoundTrips == Spec => []RoundTrip
<1>1. Init => EchoInv
  BY DEF Init, EchoInv
<1>2. E2EEInv /\ EchoInv /\ [Next]_vars => EchoInv'
  BY EchoKeeps
<1>3. EchoInv => RoundTrip
  <2> SUFFICES ASSUME EchoInv, intact
               PROVE  pc # "failed" /\ (pc = "done" => output = Plain)
    BY DEF RoundTrip
  <2>1. CASE pc \in {"encrypt", "store", "broken"}
    BY <2>1
  <2>2. CASE pc \notin {"encrypt", "store", "broken"}
    BY <2>2 DEF EchoInv, Echo
  <2> QED BY <2>1, <2>2
<1> QED BY <1>1, <1>2, <1>3, EnvelopeInvariant, PTL DEF Spec

=============================================================================
