-------------------------- MODULE DrivePathsProofs --------------------------
(***************************************************************************)
(* Proofs about DrivePaths, for any paths and callers, and however many    *)
(* nodes, calls and events.                                                *)
(***************************************************************************)
EXTENDS DrivePaths, SequenceTheorems, FiniteSetTheorems, WellFoundedInduction, TLAPS

-----------------------------------------------------------------------------
(* Induction, as the least element of the set of counterexamples.          *)

\* A non-empty set of natural numbers has a least element.
LEMMA LeastElement ==
  ASSUME NEW T \in SUBSET Nat, T # {}
  PROVE  \E x \in T : \A y \in T : x <= y
<1> DEFINE R == {ss \in Nat \X Nat : ss[1] < ss[2]}
<1>1. IsWellFoundedOn(R, Nat)
  BY NatLessThanWellFounded DEF OpToRel
<1>2. \E x \in T : \A y \in T : ~ (<<y, x>> \in R)
  <2> HIDE DEF R
  <2> QED BY <1>1, WFMin, Zenon
<1>3. PICK x \in T : \A y \in T : ~ (<<y, x>> \in R)
  BY <1>2
<1>4. ASSUME NEW y \in T PROVE x <= y
  <2>1. x \in Nat /\ y \in Nat
    OBVIOUS
  <2>2. y < x => <<y, x>> \in R
    BY <2>1
  <2>3. ~ (y < x)
    BY <1>3, <2>2
  <2> HIDE DEF R
  <2> QED BY <2>1, <2>3
<1> QED BY <1>4

\* A set that holds 0, and i + 1 whenever it holds i < n, holds all of 0..n.
LEMMA Climb ==
  ASSUME NEW n \in Nat, NEW Good, 0 \in Good,
         \A i \in 0..n : i \in Good /\ i < n => i + 1 \in Good
  PROVE  0..n \subseteq Good
<1> DEFINE T == (0..n) \ Good
<1> SUFFICES ASSUME T # {} PROVE FALSE
  OBVIOUS
<1>1. T \in SUBSET Nat
  OBVIOUS
<1>2. PICK x \in T : \A y \in T : x <= y
  BY <1>1, LeastElement
<1>3. x \in 1..n
  OBVIOUS
<1>4. x - 1 \in 0..n /\ x - 1 \notin T
  BY <1>2, <1>3
<1> QED BY <1>3, <1>4

-----------------------------------------------------------------------------
(* Paths.                                                                  *)

\* The beginning of a sequence, element by element.
LEMMA PrefixIs ==
  ASSUME NEW S, NEW p \in Seq(S), NEW k \in 0..Len(p)
  PROVE  /\ Prefix(p, k) \in Seq(S) /\ Len(Prefix(p, k)) = k
         /\ \A i \in 1..k : Prefix(p, k)[i] = p[i]
<1>1. Len(p) \in Nat
  BY LenProperties
<1>2. \A i \in 1..k : p[i] \in S
  BY <1>1, ElementOfSeq
<1>3. /\ SubSeq(p, 1, k) \in Seq(S)
      /\ Len(SubSeq(p, 1, k)) = IF 1 <= k THEN k - 1 + 1 ELSE 0
      /\ \A i \in 1..(k - 1 + 1) : SubSeq(p, 1, k)[i] = p[1 + i - 1]
  <2>1. 1 \in Int /\ k \in Int
    OBVIOUS
  <2> QED BY ONLY <1>2, <2>1, SubSeqProperties
<1> QED BY <1>1, <1>3 DEF Prefix

\* What agrees with the beginning is the beginning.
LEMMA IsThePrefix ==
  ASSUME NEW S, NEW p \in Seq(S), NEW k \in 0..Len(p), NEW q \in Seq(S), Len(q) = k,
         \A i \in 1..k : q[i] = p[i]
  PROVE  q = Prefix(p, k)
<1>1. /\ Prefix(p, k) \in Seq(S) /\ Len(Prefix(p, k)) = k
      /\ \A i \in 1..k : Prefix(p, k)[i] = p[i]
  BY PrefixIs
<1>2. Len(q) = Len(Prefix(p, k)) /\ \A i \in 1..Len(q) : q[i] = Prefix(p, k)[i]
  BY <1>1
<1> QED BY <1>1, <1>2, SeqEqual

\* Beginnings of beginnings.
LEMMA PrefixOfPrefix ==
  ASSUME NEW S, NEW p \in Seq(S), NEW k \in 0..Len(p), NEW j \in 0..k
  PROVE  /\ Prefix(Prefix(p, k), j) = Prefix(p, j)
         /\ Prefix(p, Len(p)) = p
         /\ Prefix(p, 0) = <<>>
         /\ k > 0 => Front(Prefix(p, k)) = Prefix(p, k - 1)
<1>1. Len(p) \in Nat /\ j \in 0..Len(p)
  BY LenProperties
<1>2. /\ Prefix(p, k) \in Seq(S) /\ Len(Prefix(p, k)) = k
      /\ \A i \in 1..k : Prefix(p, k)[i] = p[i]
  BY PrefixIs
<1>3. ASSUME NEW m \in 0..k PROVE Prefix(Prefix(p, k), m) = Prefix(p, m)
  <2> DEFINE q == Prefix(Prefix(p, k), m)
  <2>1. /\ q \in Seq(S) /\ Len(q) = m
        /\ \A i \in 1..m : q[i] = Prefix(p, k)[i]
    BY <1>2, PrefixIs
  <2> HIDE DEF q
  <2>2. m \in 0..Len(p) /\ \A i \in 1..m : q[i] = p[i]
    BY <1>1, <1>2, <2>1
  <2>3. q = Prefix(p, m)
    BY <2>1, <2>2, IsThePrefix
  <2> QED BY <2>3 DEF q
<1>4. Prefix(p, Len(p)) = p
  BY SubSeqFull DEF Prefix
<1>5. Prefix(p, 0) = <<>>
  <2>1. Prefix(p, 0) \in Seq(S) /\ Len(Prefix(p, 0)) = 0
    BY <1>1, PrefixIs
  <2> QED BY <2>1, EmptySeq
<1>6. k > 0 => Front(Prefix(p, k)) = Prefix(p, k - 1)
  <2> HAVE k > 0
  <2>1. k - 1 \in 0..k
    BY <1>1
  <2>2. Front(Prefix(p, k)) = Prefix(Prefix(p, k), k - 1)
    BY <1>2 DEF Front, Prefix
  <2> QED BY <1>3, <2>1, <2>2
<1> QED BY <1>3, <1>4, <1>5, <1>6

\* A path is the path above it and its name.
LEMMA FrontIs ==
  ASSUME NEW S, NEW p \in Seq(S), p # <<>>
  PROVE  /\ Len(p) \in Nat \ {0}
         /\ Front(p) \in Seq(S) /\ Len(Front(p)) = Len(p) - 1
         /\ Front(p) = Prefix(p, Len(p) - 1)
         /\ \A i \in 1..(Len(p) - 1) : Front(p)[i] = p[i]
         /\ Name(p) \in S
<1>1. Len(p) \in Nat \ {0}
  BY EmptySeq
<1>2. Front(p) = Prefix(p, Len(p) - 1) /\ Len(p) - 1 \in 0..Len(p)
  BY <1>1 DEF Front, Prefix
<1>3. Len(p) \in 1..Len(p)
  BY <1>1
<1>4. Name(p) \in S
  BY <1>3, ElementOfSeq DEF Name
<1> QED BY <1>1, <1>2, <1>4, PrefixIs

\* Two paths of one name in one place are the same.
LEMMA SamePath ==
  ASSUME NEW S, NEW p \in Seq(S), NEW q \in Seq(S), p # <<>>, q # <<>>,
         Front(p) = Front(q), Name(p) = Name(q)
  PROVE  p = q
<1>1. /\ Len(p) \in Nat \ {0} /\ Len(Front(p)) = Len(p) - 1
      /\ \A i \in 1..(Len(p) - 1) : Front(p)[i] = p[i]
  BY FrontIs
<1>2. /\ Len(q) \in Nat \ {0} /\ Len(Front(q)) = Len(q) - 1
      /\ \A i \in 1..(Len(q) - 1) : Front(q)[i] = q[i]
  BY FrontIs
<1>3. Len(p) = Len(q)
  BY <1>1, <1>2
<1>4. \A i \in 1..Len(p) : p[i] = q[i]
  BY <1>1, <1>2, <1>3 DEF Name
<1> QED BY <1>3, <1>4, SeqEqual

\* Paths begin at the application's folder.
LEMMA PathsAre ==
  ASSUME NEW p \in Paths
  PROVE  /\ p \in Seq(Names) /\ p # <<>> /\ Len(p) \in Nat \ {0}
         /\ Len(p) > 1 => Front(p) \in Paths
         /\ Len(p) = 1 => p = <<Root>>
         /\ p # <<Root>> => Len(p) > 1
         /\ Name(p) \in Names
         /\ <<Root>> \in Paths /\ Len(<<Root>>) = 1
<1>1. /\ p \in Seq(Names) /\ p # <<>> /\ p[1] = Root
      /\ Len(p) > 1 => Front(p) \in Paths
      /\ <<Root>> \in Paths
  BY PathsAssumption
<1>2. Len(p) \in Nat \ {0} /\ Name(p) \in Names
  BY <1>1, FrontIs
<1>3. <<Root>> \in Seq(Names) /\ Len(<<Root>>) = 1 /\ <<Root>>[1] = Root
  BY <1>1, PathsAssumption
<1>4. ASSUME Len(p) = 1 PROVE p = <<Root>>
  <2>1. \A i \in 1..Len(p) : p[i] = <<Root>>[i]
    BY <1>1, <1>3, <1>4
  <2> QED BY <1>1, <1>3, <1>4, <2>1, SeqEqual
<1> QED BY <1>1, <1>2, <1>3, <1>4

\* Every beginning of a path is a path.
LEMMA PathsAbove ==
  ASSUME NEW p \in Paths, NEW k \in 1..Len(p)
  PROVE  /\ Prefix(p, k) \in Paths /\ Len(Prefix(p, k)) = k
         /\ Prefix(p, k) # <<>>
         /\ k = 1 => Prefix(p, k) = <<Root>>
         /\ Name(Prefix(p, k)) = p[k]
<1>1. p \in Seq(Names) /\ Len(p) \in Nat \ {0}
  BY PathsAre
<1> DEFINE Good == {i \in Nat : i < Len(p) => Prefix(p, Len(p) - i) \in Paths}
<1>2. 0 \in Good
  <2>1. Len(p) - 0 = Len(p) /\ Len(p) \in 0..Len(p) /\ 0 \in 0..Len(p)
    BY <1>1
  <2> QED BY <1>1, <2>1, PrefixOfPrefix
<1>3. ASSUME NEW i \in 0..(Len(p) - 1), i \in Good, i < Len(p) - 1 PROVE i + 1 \in Good
  <2> DEFINE m == Len(p) - i
  <2>1. m \in 2..Len(p) /\ m - 1 = Len(p) - (i + 1) /\ m \in 0..Len(p) /\ 0 \in 0..m
    BY <1>1, <1>3
  <2>2. Prefix(p, m) \in Paths
    BY <1>1, <1>3
  <2> HIDE DEF m
  <2>3. Len(Prefix(p, m)) = m /\ Front(Prefix(p, m)) = Prefix(p, m - 1)
    BY <1>1, <2>1, PrefixIs, PrefixOfPrefix
  <2>4. Prefix(p, m - 1) \in Paths
    BY <2>1, <2>2, <2>3, PathsAre
  <2> QED BY <1>1, <2>1, <2>4
<1>4. 0..(Len(p) - 1) \subseteq Good
  <2>1. Len(p) - 1 \in Nat
    BY <1>1
  <2> HIDE DEF Good
  <2> QED BY <1>2, <1>3, <2>1, Climb
<1>5. Prefix(p, k) \in Paths
  <2>1. Len(p) - k \in 0..(Len(p) - 1) /\ Len(p) - (Len(p) - k) = k
    BY <1>1
  <2>2. Len(p) - k \in Good
    BY <1>4, <2>1
  <2> QED BY <1>1, <2>1, <2>2
<1>6. k \in 0..Len(p) /\ k \in 1..k
  BY <1>1
<1>7. Len(Prefix(p, k)) = k /\ Prefix(p, k)[k] = p[k]
  BY <1>1, <1>6, PrefixIs
<1> QED BY <1>5, <1>7, PathsAre DEF Name

-----------------------------------------------------------------------------
(* The tree of files and folders, as a function of the sequence of nodes,  *)
(* so that the same facts serve before and after a step.                   *)

\* A file or a folder, of a Drive of any size.
Thing == [name : Names, parent : Nat, folder : BOOLEAN, state : {"live", "trashed", "gone"}]

\* What is inside something is inside a folder.
Kin(ns) ==
  /\ ns \in Seq(Thing)
  /\ \A n \in 1..Len(ns) : /\ ns[n].parent \in 0..Len(ns)
                           /\ ns[n].parent # 0 => ns[ns[n].parent].folder

\* Visible, Below, Search and At of any nodes.
Seen(ns, n) ==
  LET up[m \in 0..Len(ns)] ==
        m = 0 \/ (ns[m].state = "live" /\ up[ns[m].parent])
  IN  up[n]

Under(ns, n) ==
  LET down[m \in 0..Len(ns)] == m # 0 /\ (m = n \/ down[ns[m].parent])
  IN  {m \in 1..Len(ns) : down[m]}

Hits(ns, parent, name, foldersOnly) ==
  {n \in 1..Len(ns) : /\ ns[n].parent = parent /\ ns[n].name = name /\ Seen(ns, n)
                      /\ foldersOnly => ns[n].folder}

Lead(ns, path) ==
  LET reach[k \in 0..Len(path)] ==
        IF k = 0 THEN {0}
        ELSE UNION {Hits(ns, n, path[k], k < Len(path)) : n \in reach[k - 1]}
  IN  reach[Len(path)]

\* These are the operators of DrivePaths, for the nodes of a state.
LEMMA TreeNow ==
  /\ \A n : Visible(n) = Seen(nodes, n)
  /\ \A n : Below(n) = Under(nodes, n)
  /\ \A p, x, f : Search(p, x, f) = Hits(nodes, p, x, f)
  /\ \A path : At(path) = Lead(nodes, path)
<1>1. ASSUME NEW n PROVE Visible(n) = Seen(nodes, n)
  BY DEF Visible, Seen
<1>2. ASSUME NEW n PROVE Below(n) = Under(nodes, n)
  BY DEF Below, Under, Ids
<1>3. ASSUME NEW p, NEW x, NEW f PROVE Search(p, x, f) = Hits(nodes, p, x, f)
  BY <1>1 DEF Search, Hits, Ids
<1>4. ASSUME NEW path PROVE At(path) = Lead(nodes, path)
  BY DEF At, Lead, Search, Hits, Visible, Seen, Ids
<1> QED BY <1>1, <1>2, <1>3, <1>4

\* The least set that holds B, and each member of C whose parent it holds.
LEMMA Closure ==
  ASSUME NEW N \in Nat, NEW B \in SUBSET (0..N), NEW C \in SUBSET (0..N), NEW par
  PROVE  \E U \in SUBSET (0..N) :
           \A m \in 0..N : m \in U <=> m \in B \/ (m \in C /\ par[m] \in U)
<1> DEFINE Closed(S) == \A m \in 0..N : m \in B \/ (m \in C /\ par[m] \in S) => m \in S
           U == {m \in 0..N : \A S \in SUBSET (0..N) : Closed(S) => m \in S}
<1>1. U \in SUBSET (0..N) /\ Closed(U)
  OBVIOUS
<1>2. ASSUME NEW m \in U, ~ (m \in B \/ (m \in C /\ par[m] \in U)) PROVE FALSE
  <2> DEFINE V == U \ {m}
  <2>1. V \in SUBSET (0..N)
    BY <1>1
  <2>2. ASSUME NEW k \in 0..N, k \in B \/ (k \in C /\ par[k] \in V) PROVE k \in V
    <3>1. k \in U
      BY <1>1, <2>2
    <3>2. k # m
      BY <1>2, <2>2
    <3> QED BY <3>1, <3>2
  <2>3. Closed(V)
    BY <2>2
  <2>4. m \in V
    BY <2>1, <2>3
  <2> QED BY <2>4
<1>3. \A m \in 0..N : m \in U <=> m \in B \/ (m \in C /\ par[m] \in U)
  <2>1. \A m \in 0..N : m \in B \/ (m \in C /\ par[m] \in U) => m \in U
    BY <1>1
  <2> HIDE DEF U
  <2> QED BY <1>1, <1>2, <2>1
<1> HIDE DEF U
<1> QED BY <1>1, <1>3

\* What is visible is live, in something visible.
LEMMA SeenIs ==
  ASSUME NEW ns, Kin(ns)
  PROVE  Seen(ns, 0) /\ \A m \in 1..Len(ns) : Seen(ns, m) <=> ns[m].state = "live" /\ Seen(ns, ns[m].parent)
<1> DEFINE N == Len(ns)
           Up(f) == f = [m \in 0..N |-> m = 0 \/ (ns[m].state = "live" /\ f[ns[m].parent])]
           up == CHOOSE f : Up(f)
<1>1. N \in Nat /\ \A m \in 1..N : ns[m].parent \in 0..N
  BY LenProperties DEF Kin
<1>2. \E U \in SUBSET (0..N) : \A m \in 0..N :
        m \in U <=> m = 0 \/ (m \in 1..N /\ ns[m].state = "live" /\ ns[m].parent \in U)
  <2> DEFINE C == {k \in 1..N : ns[k].state = "live"}
             par == [k \in 1..N |-> ns[k].parent]
  <2>1. {0} \in SUBSET (0..N) /\ C \in SUBSET (0..N)
    BY <1>1
  <2>2. \A m : m \in C => par[m] = ns[m].parent
    OBVIOUS
  <2>3. \A m : m \in C <=> m \in 1..N /\ ns[m].state = "live"
    OBVIOUS
  <2> HIDE DEF N, C, par
  <2>4. \E U \in SUBSET (0..N) : \A m \in 0..N : m \in U <=> m \in {0} \/ (m \in C /\ par[m] \in U)
    BY <1>1, <2>1, Closure
  <2> QED BY <2>2, <2>3, <2>4
<1>3. PICK U \in SUBSET (0..N) : \A m \in 0..N :
        m \in U <=> m = 0 \/ (m \in 1..N /\ ns[m].state = "live" /\ ns[m].parent \in U)
  BY <1>2
<1>4. Up([m \in 0..N |-> m \in U])
  <2>1. ASSUME NEW m \in 0..N
        PROVE  (m \in U) <=> (m = 0 \/ (ns[m].state = "live" /\ [k \in 0..N |-> k \in U][ns[m].parent]))
    <3>1. CASE m = 0
      BY <1>3, <3>1
    <3>2. CASE m # 0
      <4>1. m \in 1..N /\ ns[m].parent \in 0..N
        BY <1>1, <3>2
      <4>2. [k \in 0..N |-> k \in U][ns[m].parent] = (ns[m].parent \in U)
        BY <4>1
      <4> QED BY <1>3, <3>2, <4>1, <4>2
    <3> QED BY <3>1, <3>2
  <2> HIDE DEF N
  <2> QED BY <2>1
<1>5. Up(up)
  BY <1>4
<1>6. \A n : Seen(ns, n) = up[n]
  BY DEF Seen
<1> HIDE DEF up
<1>7. \A m \in 0..N : up[m] = (m = 0 \/ (ns[m].state = "live" /\ up[ns[m].parent]))
  BY <1>5
<1>8. Seen(ns, 0)
  <2>1. 0 \in 0..N
    BY <1>1
  <2>2. up[0]
    BY <1>7, <2>1
  <2> QED BY <1>6, <2>2
<1>9. ASSUME NEW m \in 1..N PROVE Seen(ns, m) <=> ns[m].state = "live" /\ Seen(ns, ns[m].parent)
  <2>1. m \in 0..N /\ m # 0
    BY <1>1
  <2>2. up[m] = (ns[m].state = "live" /\ up[ns[m].parent])
    BY <1>7, <2>1
  <2> QED BY <1>6, <2>2
<1> QED BY <1>8, <1>9

\* What is below a node is the node and what is in something below it.
LEMMA UnderIs ==
  ASSUME NEW ns, Kin(ns), NEW n \in 1..Len(ns)
  PROVE  /\ Under(ns, n) \subseteq 1..Len(ns) /\ n \in Under(ns, n)
         /\ \A m \in 1..Len(ns) : m \in Under(ns, n) <=> m = n \/ ns[m].parent \in Under(ns, n)
<1> DEFINE N == Len(ns)
           Down(f) == f = [m \in 0..N |-> m # 0 /\ (m = n \/ f[ns[m].parent])]
           down == CHOOSE f : Down(f)
<1>1. N \in Nat /\ n \in 1..N /\ \A m \in 1..N : ns[m].parent \in 0..N
  BY LenProperties DEF Kin
<1>2. \E U \in SUBSET (0..N) : \A m \in 0..N :
        m \in U <=> m = n \/ (m \in 1..N /\ ns[m].parent \in U)
  <2> DEFINE C == 1..N
             par == [k \in 1..N |-> ns[k].parent]
  <2>1. {n} \in SUBSET (0..N) /\ C \in SUBSET (0..N)
    BY <1>1
  <2>2. \A m : m \in C => par[m] = ns[m].parent
    OBVIOUS
  <2>3. \A m : m \in C <=> m \in 1..N
    OBVIOUS
  <2> HIDE DEF N, C, par
  <2>4. \E U \in SUBSET (0..N) : \A m \in 0..N : m \in U <=> m \in {n} \/ (m \in C /\ par[m] \in U)
    BY <1>1, <2>1, Closure
  <2> QED BY <2>2, <2>3, <2>4
<1>3. PICK U \in SUBSET (0..N) : \A m \in 0..N :
        m \in U <=> m = n \/ (m \in 1..N /\ ns[m].parent \in U)
  BY <1>2
<1>4. Down([m \in 0..N |-> m \in U])
  <2>1. ASSUME NEW m \in 0..N
        PROVE  (m \in U) <=> (m # 0 /\ (m = n \/ [k \in 0..N |-> k \in U][ns[m].parent]))
    <3>1. CASE m = 0
      <4>1. m # n /\ m \notin 1..N
        BY <1>1, <3>1
      <4> QED BY <1>3, <3>1, <4>1
    <3>2. CASE m # 0
      <4>1. m \in 1..N /\ ns[m].parent \in 0..N
        BY <1>1, <3>2
      <4>2. [k \in 0..N |-> k \in U][ns[m].parent] = (ns[m].parent \in U)
        BY <4>1
      <4> QED BY <1>3, <3>2, <4>1, <4>2
    <3> QED BY <3>1, <3>2
  <2> HIDE DEF N
  <2> QED BY <2>1
<1>5. Down(down)
  BY <1>4
<1>6. Under(ns, n) = {m \in 1..N : down[m]}
  BY DEF Under
<1> HIDE DEF down
<1>7. \A m \in 0..N : down[m] = (m # 0 /\ (m = n \/ down[ns[m].parent]))
  BY <1>5
<1>8. ASSUME NEW m \in 1..N PROVE m \in Under(ns, n) <=> m = n \/ ns[m].parent \in Under(ns, n)
  <2>1. m \in 0..N /\ m # 0
    BY <1>1
  <2>2. down[m] = (m = n \/ down[ns[m].parent])
    BY <1>7, <2>1
  <2>3. down[ns[m].parent] => ns[m].parent \in 1..N
    <3>1. CASE ns[m].parent = 0
      <4>1. 0 \in 0..N
        BY <1>1
      <4>2. ~down[0]
        BY <1>7, <4>1
      <4> QED BY <3>1, <4>2
    <3>2. CASE ns[m].parent # 0
      BY <1>1, <3>2
    <3> QED BY <3>1, <3>2
  <2>4. m \in Under(ns, n) <=> down[m]
    BY <1>6
  <2>5. ns[m].parent \in Under(ns, n) <=> down[ns[m].parent]
    BY <1>6, <2>3
  <2> QED BY <2>2, <2>4, <2>5
<1>9. Under(ns, n) \subseteq 1..N
  BY <1>6
<1> HIDE DEF N
<1> QED BY <1>1, <1>8, <1>9 DEF N

\* The folders that a path leads through are counted one by one.
LEMMA ReachIs ==
  ASSUME NEW ns, NEW path \in Seq(Names)
  PROVE  \E reach :
           /\ Lead(ns, path) = reach[Len(path)]
           /\ reach[0] = {0}
           /\ \A k \in 1..Len(path) : \A m : m \in reach[k] <=>
                /\ m \in 1..Len(ns) /\ ns[m].parent \in reach[k - 1] /\ ns[m].name = path[k]
                /\ Seen(ns, m) /\ (k < Len(path) => ns[m].folder)
<1> DEFINE L == Len(path)
           More(k, S) == UNION {Hits(ns, n, path[k], k < L) : n \in S}
           Trail(f) == f = [k \in 0..L |-> IF k = 0 THEN {0} ELSE More(k, f[k - 1])]
           reach == CHOOSE f : Trail(f)
           Good == {k \in Nat : k <= L =>
                      \E g : /\ g = [i \in 0..k |-> g[i]] /\ g[0] = {0}
                             /\ \A i \in 1..k : g[i] = More(i, g[i - 1])}
<1>1. L \in Nat
  BY LenProperties
<1> HIDE DEF More
<1>2. 0 \in Good
  <2> DEFINE h == [i \in 0..0 |-> {0}]
  <2>1. h = [i \in 0..0 |-> h[i]] /\ h[0] = {0} /\ \A i \in 1..0 : h[i] = More(i, h[i - 1])
    OBVIOUS
  <2> HIDE DEF h
  <2>2. \E g : g = [i \in 0..0 |-> g[i]] /\ g[0] = {0} /\ \A i \in 1..0 : g[i] = More(i, g[i - 1])
    BY <2>1, Zenon
  <2> QED BY <2>2
<1>3. ASSUME NEW k \in 0..L, k \in Good, k < L PROVE k + 1 \in Good
  <2>1. PICK g : /\ g = [i \in 0..k |-> g[i]] /\ g[0] = {0}
                 /\ \A i \in 1..k : g[i] = More(i, g[i - 1])
    BY <1>3
  <2> DEFINE h == [i \in 0..(k + 1) |-> IF i <= k THEN g[i] ELSE More(i, g[i - 1])]
  <2>2. h[0] = {0}
    BY <1>1, <2>1
  <2>3. ASSUME NEW i \in 1..(k + 1) PROVE h[i] = More(i, h[i - 1])
    <3>1. i \in 0..(k + 1) /\ i - 1 \in 0..(k + 1) /\ i - 1 <= k
      BY <1>1
    <3>2. h[i - 1] = g[i - 1]
      BY <3>1
    <3>3. CASE i <= k
      BY <2>1, <3>1, <3>2, <3>3
    <3>4. CASE ~ (i <= k)
      BY <3>1, <3>2, <3>4
    <3> QED BY <3>3, <3>4
  <2>4. h = [i \in 0..(k + 1) |-> h[i]]
    OBVIOUS
  <2> HIDE DEF h
  <2>5. \E f : /\ f = [i \in 0..(k + 1) |-> f[i]] /\ f[0] = {0}
               /\ \A i \in 1..(k + 1) : f[i] = More(i, f[i - 1])
    BY <2>2, <2>3, <2>4, Zenon
  <2>6. k + 1 \in Nat
    OBVIOUS
  <2> QED BY <2>5, <2>6, Zenon
<1>4. L \in Good
  <2> HIDE DEF Good
  <2>1. 0..L \subseteq Good
    BY <1>1, <1>2, <1>3, Climb
  <2> QED BY <1>1, <2>1
<1>5. \E f : Trail(f)
  <2>1. PICK g : /\ g = [i \in 0..L |-> g[i]] /\ g[0] = {0}
                 /\ \A i \in 1..L : g[i] = More(i, g[i - 1])
    BY <1>1, <1>4
  <2>2. \A i \in 0..L : g[i] = IF i = 0 THEN {0} ELSE More(i, g[i - 1])
    BY <1>1, <2>1
  <2>3. g = [i \in 0..L |-> IF i = 0 THEN {0} ELSE More(i, g[i - 1])]
    BY <2>1, <2>2
  <2> QED BY <2>3
<1>6. Trail(reach)
  BY <1>5
<1>7. Lead(ns, path) = reach[L]
  BY DEF Lead, More
<1> HIDE DEF reach
<1>8. \A k \in 0..L : reach[k] = IF k = 0 THEN {0} ELSE More(k, reach[k - 1])
  BY <1>6, Zenon
<1>9. reach[0] = {0} /\ \A k \in 1..L : reach[k] = More(k, reach[k - 1])
  BY <1>1, <1>8
<1>10. ASSUME NEW k \in 1..L, NEW m
       PROVE  m \in reach[k] <=> /\ m \in 1..Len(ns) /\ ns[m].parent \in reach[k - 1] /\ ns[m].name = path[k]
                                 /\ Seen(ns, m) /\ (k < L => ns[m].folder)
  <2>1. m \in reach[k] <=> \E n \in reach[k - 1] : m \in Hits(ns, n, path[k], k < L)
    BY <1>9 DEF More
  <2>2. \A p, x, f : m \in Hits(ns, p, x, f) <=>
          m \in 1..Len(ns) /\ ns[m].parent = p /\ ns[m].name = x /\ Seen(ns, m) /\ (f => ns[m].folder)
    BY DEF Hits
  <2> QED BY <2>1, <2>2
<1> QED BY <1>7, <1>9, <1>10, Zenon

\* A path leads to the visible nodes of its name in what the path above it
\* leads to.
LEMMA LeadStep ==
  ASSUME NEW ns, Kin(ns), NEW path \in Seq(Names), path # <<>>
  PROVE  \A n : n \in Lead(ns, path) <=>
           /\ n \in 1..Len(ns) /\ ns[n].name = Name(path) /\ Seen(ns, n)
           /\ ns[n].parent \in Lead(ns, Front(path))
<1> DEFINE L == Len(path)
           up == Front(path)
<1>1. /\ L \in Nat \ {0} /\ up \in Seq(Names) /\ Len(up) = L - 1
      /\ \A i \in 1..(L - 1) : up[i] = path[i]
  BY FrontIs
<1>2. PICK r :
        /\ Lead(ns, path) = r[Len(path)] /\ r[0] = {0}
        /\ \A k \in 1..Len(path) : \A m : m \in r[k] <=>
             /\ m \in 1..Len(ns) /\ ns[m].parent \in r[k - 1] /\ ns[m].name = path[k]
             /\ Seen(ns, m) /\ (k < Len(path) => ns[m].folder)
  BY ReachIs, Zenon
<1>3. PICK s :
        /\ Lead(ns, Front(path)) = s[Len(Front(path))] /\ s[0] = {0}
        /\ \A k \in 1..Len(Front(path)) : \A m : m \in s[k] <=>
             /\ m \in 1..Len(ns) /\ ns[m].parent \in s[k - 1] /\ ns[m].name = Front(path)[k]
             /\ Seen(ns, m) /\ (k < Len(Front(path)) => ns[m].folder)
  <2>1. Front(path) \in Seq(Names)
    BY <1>1
  <2> QED BY <2>1, ReachIs, Zenon
<1> HIDE DEF up, L
<1>4. Len(path) = L /\ Len(Front(path)) = L - 1 /\ \A i \in 1..(L - 1) : Front(path)[i] = path[i]
  BY <1>1 DEF L, up
<1>5. ASSUME NEW k \in 1..L, NEW m
      PROVE  m \in r[k] <=> /\ m \in 1..Len(ns) /\ ns[m].parent \in r[k - 1] /\ ns[m].name = path[k]
                            /\ Seen(ns, m) /\ (k < L => ns[m].folder)
  BY <1>2, <1>4
<1>6. ASSUME NEW k \in 1..(L - 1), NEW m
      PROVE  m \in s[k] <=> /\ m \in 1..Len(ns) /\ ns[m].parent \in s[k - 1] /\ ns[m].name = path[k]
                            /\ Seen(ns, m) /\ (k < L - 1 => ns[m].folder)
  BY <1>3, <1>4
<1> DEFINE Good == {k \in Nat : k < L - 1 => \A m : m \in r[k] <=> m \in s[k]}
<1>7. 0 \in Good
  BY <1>2, <1>3
<1>8. ASSUME NEW k \in 0..L, k \in Good, k < L PROVE k + 1 \in Good
  <2> SUFFICES ASSUME k + 1 < L - 1, NEW m PROVE m \in r[k + 1] <=> m \in s[k + 1]
    BY <1>1
  <2>1. k + 1 \in 1..L /\ k + 1 \in 1..(L - 1) /\ (k + 1) - 1 = k /\ k + 1 < L
    BY <1>1, <1>8
  <2>2. ns[m].parent \in r[k] <=> ns[m].parent \in s[k]
    BY <1>1, <1>8
  <2> QED BY <1>5, <1>6, <2>1, <2>2
<1>9. 0..L \subseteq Good
  <2> HIDE DEF Good
  <2> QED BY <1>1, <1>7, <1>8, Climb
<1>10. ASSUME NEW n \in 1..Len(ns) PROVE ns[n].parent \in r[L - 1] <=> ns[n].parent \in s[L - 1]
  <2>1. ns[n].parent # 0 => ns[ns[n].parent].folder
    BY DEF Kin
  <2>2. CASE L = 1
    BY <1>2, <1>3, <2>2
  <2>3. CASE L # 1
    <3>1. L - 1 \in 1..L /\ L - 1 \in 1..(L - 1) /\ L - 1 < L /\ (L - 1) - 1 \in 0..L /\ (L - 1) - 1 < L - 1
      BY <1>1, <2>3
    <3>2. \A m : m \in r[(L - 1) - 1] <=> m \in s[(L - 1) - 1]
      BY <1>9, <3>1
    <3>3. ns[n].parent \in 1..Len(ns) => ns[n].parent # 0
      BY LenProperties DEF Kin
    <3> QED BY <1>5, <1>6, <2>1, <3>1, <3>2, <3>3
  <2> QED BY <2>2, <2>3
<1>11. L \in 1..L /\ ~ (L < L)
  BY <1>1
<1> QED BY <1>2, <1>3, <1>4, <1>5, <1>10, <1>11 DEF Name

\* The empty path leads to the top of the Drive.
LEMMA LeadTop ==
  ASSUME NEW ns
  PROVE  Lead(ns, <<>>) = {0}
<1>1. <<>> \in Seq(Names) /\ Len(<<>>) = 0
  BY EmptySeq
<1> DEFINE top == <<>>
<1>2. top \in Seq(Names)
  BY <1>1
<1> HIDE DEF top
<1>3. PICK r :
        /\ Lead(ns, top) = r[Len(top)] /\ r[0] = {0}
        /\ \A k \in 1..Len(top) : \A m : m \in r[k] <=>
             /\ m \in 1..Len(ns) /\ ns[m].parent \in r[k - 1] /\ ns[m].name = top[k]
             /\ Seen(ns, m) /\ (k < Len(top) => ns[m].folder)
  BY <1>2, ReachIs, Zenon
<1> QED BY <1>1, <1>3 DEF top

\* Where a path leads to, by the state, the name and the place of a node.
LEMMA LeadIs ==
  ASSUME NEW ns, Kin(ns), NEW path \in Seq(Names), path # <<>>
  PROVE  /\ Lead(ns, path) \subseteq 1..Len(ns) /\ 0 \notin Lead(ns, path)
         /\ \A n \in 1..Len(ns) : n \in Lead(ns, path) <=>
              /\ ns[n].state = "live" /\ ns[n].name = Name(path)
              /\ ns[n].parent \in Lead(ns, Front(path))
         /\ \A n \in Lead(ns, path) : Seen(ns, n)
<1>1. \A n : n \in Lead(ns, path) <=>
        /\ n \in 1..Len(ns) /\ ns[n].name = Name(path) /\ Seen(ns, n)
        /\ ns[n].parent \in Lead(ns, Front(path))
  BY LeadStep
<1>2. Seen(ns, 0) /\ \A m \in 1..Len(ns) : Seen(ns, m) <=> ns[m].state = "live" /\ Seen(ns, ns[m].parent)
  BY SeenIs
<1>3. \A m \in Lead(ns, Front(path)) : Seen(ns, m)
  <2>1. CASE Front(path) = <<>>
    BY <1>2, <2>1, LeadTop
  <2>2. CASE Front(path) # <<>>
    <3>1. Front(path) \in Seq(Names)
      BY FrontIs
    <3> QED BY <2>2, <3>1, LeadStep
  <2> QED BY <2>1, <2>2
<1>4. 0 \notin 1..Len(ns)
  BY LenProperties DEF Kin
<1> QED BY <1>1, <1>2, <1>3, <1>4

\* A node is where one path leads to.
LEMMA LeadUnique ==
  ASSUME NEW ns, Kin(ns), NEW p \in Seq(Names), NEW q \in Seq(Names), NEW n,
         n \in Lead(ns, p), n \in Lead(ns, q)
  PROVE  p = q
<1> DEFINE Good == {k \in Nat : \A a, b \in Seq(Names), m \in 0..Len(ns) :
                      Len(a) = k /\ m \in Lead(ns, a) /\ m \in Lead(ns, b) => a = b}
<1>1. 0 \in Good
  <2> SUFFICES ASSUME NEW a \in Seq(Names), NEW b \in Seq(Names), NEW m, Len(a) = 0,
                      m \in Lead(ns, a), m \in Lead(ns, b)
               PROVE  a = b
    OBVIOUS
  <2>1. a = <<>>
    BY EmptySeq
  <2>2. m = 0
    BY <2>1, LeadTop
  <2>3. b = <<>>
    BY <2>2, LeadIs
  <2> QED BY <2>1, <2>3
<1>2. ASSUME NEW k \in 0..Len(p), k \in Good, k < Len(p) PROVE k + 1 \in Good
  <2> SUFFICES ASSUME NEW a \in Seq(Names), NEW b \in Seq(Names), NEW m \in 0..Len(ns), Len(a) = k + 1,
                      m \in Lead(ns, a), m \in Lead(ns, b)
               PROVE  a = b
    OBVIOUS
  <2>1. a # <<>>
    BY EmptySeq
  <2>2. m \in 1..Len(ns) /\ m # 0
    BY <2>1, LeadIs
  <2>3. b # <<>>
    BY <2>2, LeadTop
  <2>4. /\ Name(a) = ns[m].name /\ ns[m].parent \in Lead(ns, Front(a))
        /\ Name(b) = ns[m].name /\ ns[m].parent \in Lead(ns, Front(b))
    BY <2>1, <2>2, <2>3, LeadIs
  <2>5. Front(a) \in Seq(Names) /\ Front(b) \in Seq(Names) /\ Len(Front(a)) = k
    <3>1. Front(a) \in Seq(Names) /\ Len(Front(a)) = Len(a) - 1
      BY <2>1, FrontIs
    <3>2. Front(b) \in Seq(Names)
      BY <2>3, FrontIs
    <3> QED BY <3>1, <3>2
  <2>6. ns[m].parent \in 0..Len(ns)
    BY <2>2 DEF Kin
  <2>7. Front(a) = Front(b)
    BY <1>2, <2>4, <2>5, <2>6
  <2> QED BY <2>1, <2>3, <2>4, <2>7, SamePath
<1>3. Len(p) \in Nat
  BY LenProperties
<1>4. Len(p) \in Good
  <2> HIDE DEF Good
  <2>1. 0..Len(p) \subseteq Good
    BY <1>1, <1>2, <1>3, Climb
  <2> QED BY <1>3, <2>1
<1>5. n \in 0..Len(ns)
  <2>1. CASE p = <<>>
    BY <2>1, LeadTop, LenProperties DEF Kin
  <2>2. CASE p # <<>>
    BY <2>2, LeadIs
  <2> QED BY <2>1, <2>2
<1> QED BY <1>4, <1>5

\* One node at most, and one folder at most, has this path.
Unique(ns, path) == \A m, n \in Lead(ns, path) : m = n
Sole(ns, path) == \A m, n \in Lead(ns, path) : ns[m].folder /\ ns[n].folder => m = n

\* Where no visible nodes share place and name, a path leads to one node.
LEMMA WithoutTwins ==
  ASSUME NEW ns, Kin(ns), NEW path \in Seq(Names),
         \A m, n \in 1..Len(ns) :
           Seen(ns, m) /\ Seen(ns, n) /\ ns[m].parent = ns[n].parent /\ ns[m].name = ns[n].name => m = n
  PROVE  Unique(ns, path) /\ Sole(ns, path)
<1> DEFINE Good == {k \in Nat : \A p \in Seq(Names) : Len(p) = k => Unique(ns, p)}
<1>1. 0 \in Good
  <2>1. \A p \in Seq(Names) : Len(p) = 0 => p = <<>>
    BY EmptySeq
  <2> QED BY <2>1, LeadTop DEF Unique
<1>2. ASSUME NEW k \in 0..Len(path), k \in Good, k < Len(path) PROVE k + 1 \in Good
  <2> SUFFICES ASSUME NEW p \in Seq(Names), Len(p) = k + 1, NEW m \in Lead(ns, p), NEW n \in Lead(ns, p)
               PROVE  m = n
    BY DEF Unique
  <2>1. p # <<>>
    BY EmptySeq
  <2>2. Front(p) \in Seq(Names) /\ Len(Front(p)) = k
    <3>1. Front(p) \in Seq(Names) /\ Len(Front(p)) = Len(p) - 1
      BY <2>1, FrontIs
    <3> QED BY <3>1
  <2>3. m \in 1..Len(ns) /\ n \in 1..Len(ns) /\ Seen(ns, m) /\ Seen(ns, n)
    BY <2>1, LeadIs
  <2>4. /\ ns[m].name = Name(p) /\ ns[m].parent \in Lead(ns, Front(p))
        /\ ns[n].name = Name(p) /\ ns[n].parent \in Lead(ns, Front(p))
    BY <2>1, <2>3, LeadIs
  <2>5. Unique(ns, Front(p))
    BY <1>2, <2>2
  <2>6. ns[m].parent = ns[n].parent
    BY <2>4, <2>5 DEF Unique
  <2> QED BY <2>3, <2>4, <2>6
<1>3. Len(path) \in Nat
  BY LenProperties
<1>4. 0..Len(path) \subseteq Good
  <2> HIDE DEF Good
  <2> QED BY <1>1, <1>2, <1>3, Climb
<1>5. Unique(ns, path)
  BY <1>3, <1>4
<1> QED BY <1>5 DEF Unique, Sole

\* What a change leaves alone, up to the top, is where it was.
LEMMA LeadsAgree ==
  ASSUME NEW ns, NEW ms, Kin(ns), Kin(ms), NEW C, 0 \in C,
         \A m \in C : m # 0 =>
           /\ m \in 1..Len(ns) /\ m \in 1..Len(ms) /\ ms[m].state = ns[m].state
           /\ ms[m].name = ns[m].name /\ ms[m].parent = ns[m].parent /\ ns[m].parent \in C,
         NEW path \in Seq(Names)
  PROVE  \A m \in C : m \in Lead(ms, path) <=> m \in Lead(ns, path)
<1> DEFINE Good == {k \in Nat : \A p \in Seq(Names) : Len(p) = k =>
                      \A m \in C : m \in Lead(ms, p) <=> m \in Lead(ns, p)}
<1>1. 0 \in Good
  <2>1. \A p \in Seq(Names) : Len(p) = 0 => p = <<>>
    BY EmptySeq
  <2> QED BY <2>1, LeadTop
<1>2. ASSUME NEW k \in 0..Len(path), k \in Good, k < Len(path) PROVE k + 1 \in Good
  <2> SUFFICES ASSUME NEW p \in Seq(Names), Len(p) = k + 1, NEW m \in C
               PROVE  m \in Lead(ms, p) <=> m \in Lead(ns, p)
    OBVIOUS
  <2>1. p # <<>>
    BY EmptySeq
  <2>2. Front(p) \in Seq(Names) /\ Len(Front(p)) = k
    <3>1. Front(p) \in Seq(Names) /\ Len(Front(p)) = Len(p) - 1
      BY <2>1, FrontIs
    <3> QED BY <3>1
  <2>3. CASE m = 0
    <3>1. 0 \notin Lead(ms, p)
      BY <2>1, LeadIs
    <3>2. 0 \notin Lead(ns, p)
      BY <2>1, LeadIs
    <3> QED BY <2>3, <3>1, <3>2
  <2>4. CASE m # 0
    <3>1. m \in Lead(ns, p) <=> ns[m].state = "live" /\ ns[m].name = Name(p) /\ ns[m].parent \in Lead(ns, Front(p))
      BY <2>1, <2>4, LeadIs
    <3>2. m \in Lead(ms, p) <=> ms[m].state = "live" /\ ms[m].name = Name(p) /\ ms[m].parent \in Lead(ms, Front(p))
      BY <2>1, <2>4, LeadIs
    <3>3. ns[m].parent \in Lead(ms, Front(p)) <=> ns[m].parent \in Lead(ns, Front(p))
      BY <1>2, <2>2, <2>4
    <3> QED BY <2>4, <3>1, <3>2, <3>3
  <2> QED BY <2>3, <2>4
<1>3. Len(path) \in Nat
  BY LenProperties
<1>4. 0..Len(path) \subseteq Good
  <2> HIDE DEF Good
  <2> QED BY <1>1, <1>2, <1>3, Climb
<1> QED BY <1>3, <1>4

\* What is below a node is where a path goes on from the node's.
LEMMA BelowIsBeyond ==
  ASSUME NEW ns, Kin(ns), NEW n \in 1..Len(ns), NEW p \in Seq(Names), n \in Lead(ns, p),
         NEW q \in Seq(Names), NEW m \in Under(ns, n), m \in Lead(ns, q)
  PROVE  IsPrefix(p, q)
<1> DEFINE Good == {k \in Nat : \A b \in Seq(Names), i \in Under(ns, n) :
                      Len(b) = k /\ i \in Lead(ns, b) => Len(p) <= k /\ p = Prefix(b, Len(p))}
<1>0. Len(p) \in Nat /\ Len(q) \in Nat /\ Len(ns) \in Nat
  BY LenProperties DEF Kin
<1>1. /\ Under(ns, n) \subseteq 1..Len(ns)
      /\ \A i \in 1..Len(ns) : i \in Under(ns, n) <=> i = n \/ ns[i].parent \in Under(ns, n)
  BY UnderIs
<1>2. 0 \in Good
  <2> SUFFICES ASSUME NEW b \in Seq(Names), NEW i \in Under(ns, n), Len(b) = 0, i \in Lead(ns, b)
               PROVE  FALSE
    OBVIOUS
  <2>1. b = <<>>
    BY EmptySeq
  <2>2. i = 0
    BY <2>1, LeadTop
  <2> QED BY <1>0, <1>1, <2>2
<1>3. ASSUME NEW k \in 0..Len(q), k \in Good, k < Len(q) PROVE k + 1 \in Good
  <2> SUFFICES ASSUME NEW b \in Seq(Names), NEW i \in Under(ns, n), Len(b) = k + 1, i \in Lead(ns, b)
               PROVE  Len(p) <= k + 1 /\ p = Prefix(b, Len(p))
    OBVIOUS
  <2>1. b # <<>>
    BY EmptySeq
  <2>2. k + 1 \in 0..Len(b) /\ 0 \in 0..(k + 1)
    OBVIOUS
  <2>3. CASE i = n
    <3>1. b = p
      BY <2>3, LeadUnique
    <3>2. Prefix(b, Len(b)) = b
      BY <2>2, PrefixOfPrefix
    <3> QED BY <3>1, <3>2
  <2>4. CASE i # n
    <3>1. ns[i].parent \in Under(ns, n)
      BY <1>1, <2>4
    <3>2. ns[i].parent \in Lead(ns, Front(b))
      BY <1>1, <2>1, LeadIs
    <3>3. Front(b) \in Seq(Names) /\ Len(Front(b)) = k /\ Front(b) = Prefix(b, k)
      <4>1. Front(b) \in Seq(Names) /\ Len(Front(b)) = Len(b) - 1 /\ Front(b) = Prefix(b, Len(b) - 1)
        BY <2>1, FrontIs
      <4>2. Len(b) - 1 = k
        OBVIOUS
      <4> QED BY <4>1, <4>2
    <3>4. Len(p) <= k /\ p = Prefix(Front(b), Len(p))
      BY <1>3, <3>1, <3>2, <3>3
    <3>5. Len(p) \in 0..k /\ k \in 0..Len(b)
      BY <1>0, <3>4
    <3>6. Prefix(Prefix(b, k), Len(p)) = Prefix(b, Len(p))
      BY <3>5, PrefixOfPrefix
    <3> QED BY <3>3, <3>4, <3>6
  <2> QED BY <2>3, <2>4
<1>4. Len(q) \in Good
  <2> HIDE DEF Good
  <2>1. 0..Len(q) \subseteq Good
    BY <1>0, <1>2, <1>3, Climb
  <2> QED BY <1>0, <2>1
<1>5. Len(p) <= Len(q) /\ p = Prefix(q, Len(p))
  BY <1>4
<1>6. SubSeq(p, 1, Len(p)) = p
  BY SubSeqFull
<1> QED BY <1>5, <1>6 DEF IsPrefix, Prefix

\* A function on 1..n is a sequence of that length.
LEMMA FunctionIsSeq ==
  ASSUME NEW S, NEW n \in Nat, NEW f \in [1..n -> S]
  PROVE  f \in Seq(S) /\ Len(f) = n
<1>1. f \in UNION {[1..k -> S] : k \in Nat}
  OBVIOUS
<1>2. f \in Seq(S)
  BY <1>1, SeqDef
<1>3. Len(f) \in Nat /\ DOMAIN f = 1..Len(f) /\ DOMAIN f = 1..n
  BY <1>2, LenProperties
<1>4. Len(f) = n
  <2> DEFINE L == Len(f)
  <2>1. L \in Nat /\ 1..L = 1..n
    BY <1>3
  <2> HIDE DEF L
  <2>2. \A i \in Nat : i \in 1..L <=> i \in 1..n
    BY <2>1
  <2>3. L = n
    BY <2>1, <2>2
  <2> QED BY <2>3 DEF L
<1> QED BY <1>2, <1>4

\* A new node: what was found stays found, and the node is found at one path.
LEMMA Grown ==
  ASSUME NEW ns, Kin(ns), NEW thing \in Thing, thing.parent \in 0..Len(ns),
         thing.parent # 0 => ns[thing.parent].folder
  PROVE  LET N == Len(ns)
             ms == Append(ns, thing)
         IN  /\ Kin(ms) /\ Len(ms) = N + 1 /\ N \in Nat
             /\ ms[N + 1] = thing /\ \A m \in 1..N : ms[m] = ns[m]
             /\ \A path \in Seq(Names) :
                  /\ Lead(ns, path) \subseteq Lead(ms, path)
                  /\ Lead(ms, path) \subseteq Lead(ns, path) \cup {N + 1}
                  /\ path # <<>> =>
                       (N + 1 \in Lead(ms, path) <=>
                          thing.state = "live" /\ thing.name = Name(path) /\ thing.parent \in Lead(ns, Front(path)))
<1> DEFINE N == Len(ns)
           ms == Append(ns, thing)
<1>1. /\ ms \in Seq(Thing) /\ Len(ms) = N + 1 /\ N \in Nat
      /\ ms[N + 1] = thing /\ \A m \in 1..N : ms[m] = ns[m]
  <2>1. ns \in Seq(Thing)
    BY DEF Kin
  <2>2. ms \in Seq(Thing) /\ Len(ms) = N + 1 /\ (\A m \in 1..N : ms[m] = ns[m]) /\ ms[N + 1] = thing
    BY <2>1, AppendProperties
  <2> QED BY <2>1, <2>2, LenProperties
<1>2. \A m \in 1..N : ns[m].parent \in 0..N /\ (ns[m].parent # 0 => ns[ns[m].parent].folder)
  BY DEF Kin
<1>3. thing.parent \in 0..N /\ (thing.parent # 0 => ns[thing.parent].folder)
  OBVIOUS
<1> HIDE DEF N, ms
<1>4. Kin(ms)
  <2> SUFFICES ASSUME NEW m \in 1..(N + 1)
               PROVE  ms[m].parent \in 0..(N + 1) /\ (ms[m].parent # 0 => ms[ms[m].parent].folder)
    BY <1>1 DEF Kin
  <2>1. m \in 1..N \/ m = N + 1
    BY <1>1
  <2>2. ms[m].parent \in 0..N /\ (ms[m].parent # 0 => ns[ms[m].parent].folder)
    BY <1>1, <1>2, <1>3, <2>1
  <2>3. ms[m].parent # 0 => ms[m].parent \in 1..N
    BY <1>1, <2>2
  <2> QED BY <1>1, <2>2, <2>3
<1>5. ASSUME NEW path \in Seq(Names), NEW m \in 0..N PROVE m \in Lead(ms, path) <=> m \in Lead(ns, path)
  <2> DEFINE C == 0..N
  <2>1. 0 \in C
    BY <1>1
  <2>2. \A k \in C : k # 0 =>
          /\ k \in 1..Len(ns) /\ k \in 1..Len(ms) /\ ms[k].state = ns[k].state
          /\ ms[k].name = ns[k].name /\ ms[k].parent = ns[k].parent /\ ns[k].parent \in C
    BY <1>1, <1>2 DEF N
  <2>3. m \in C
    OBVIOUS
  <2> HIDE DEF C
  <2> QED BY <1>4, <2>1, <2>2, <2>3, LeadsAgree
<1>6. ASSUME NEW path \in Seq(Names)
      PROVE  /\ Lead(ns, path) \subseteq 0..N
             /\ Lead(ms, path) \subseteq 0..(N + 1)
  <2>1. CASE path = <<>>
    BY <1>1, <2>1, LeadTop
  <2>2. CASE path # <<>>
    <3>1. Lead(ns, path) \subseteq 1..N
      BY <2>2, LeadIs DEF N
    <3>2. Lead(ms, path) \subseteq 1..(N + 1)
      BY <1>1, <1>4, <2>2, LeadIs
    <3> QED BY <3>1, <3>2
  <2> QED BY <2>1, <2>2
<1>7. ASSUME NEW path \in Seq(Names)
      PROVE  Lead(ns, path) \subseteq Lead(ms, path) /\ Lead(ms, path) \subseteq Lead(ns, path) \cup {N + 1}
  <2>1. \A m \in 0..(N + 1) : m \in 0..N \/ m = N + 1
    BY <1>1
  <2> QED BY <1>5, <1>6, <2>1
<1>8. ASSUME NEW path \in Seq(Names), path # <<>>
      PROVE  N + 1 \in Lead(ms, path) <=>
               thing.state = "live" /\ thing.name = Name(path) /\ thing.parent \in Lead(ns, Front(path))
  <2>1. N + 1 \in 1..Len(ms)
    BY <1>1
  <2>2. N + 1 \in Lead(ms, path) <=>
          ms[N + 1].state = "live" /\ ms[N + 1].name = Name(path) /\ ms[N + 1].parent \in Lead(ms, Front(path))
    BY <1>4, <1>8, <2>1, LeadIs
  <2>3. Front(path) \in Seq(Names)
    BY <1>8, FrontIs
  <2> QED BY <1>1, <1>3, <1>5, <2>2, <2>3
<1> QED BY <1>1, <1>4, <1>7, <1>8 DEF N, ms

\* A node that is no longer live takes what is below it along, and nothing else.
LEMMA Pruned ==
  ASSUME NEW ns, Kin(ns), NEW n \in 1..Len(ns), NEW ms \in Seq(Thing), Len(ms) = Len(ns),
         ms[n].state # "live",
         \A m \in 1..Len(ns) : /\ ms[m].name = ns[m].name /\ ms[m].parent = ns[m].parent
                               /\ ms[m].folder = ns[m].folder
                               /\ m \notin Under(ns, n) => ms[m].state = ns[m].state
  PROVE  /\ Kin(ms)
         /\ \A path \in Seq(Names) : Lead(ms, path) = Lead(ns, path) \ Under(ns, n)
<1> DEFINE N == Len(ns)
<1>0. N \in Nat /\ Len(ms) = N
  BY LenProperties DEF Kin
<1>1. \A m \in 1..N : ns[m].parent \in 0..N /\ (ns[m].parent # 0 => ns[ns[m].parent].folder)
  BY DEF Kin
<1>2. Kin(ms)
  <2> SUFFICES ASSUME NEW m \in 1..N
               PROVE  ms[m].parent \in 0..N /\ (ms[m].parent # 0 => ms[ms[m].parent].folder)
    BY <1>0 DEF Kin
  <2>1. ms[m].parent \in 0..N /\ (ms[m].parent # 0 => ns[ms[m].parent].folder)
    BY <1>1
  <2>2. ms[m].parent # 0 => ms[m].parent \in 1..N
    BY <1>0, <2>1
  <2> QED BY <2>1, <2>2
<1>3. /\ Under(ns, n) \subseteq 1..N /\ n \in Under(ns, n)
      /\ \A m \in 1..N : m \in Under(ns, n) <=> m = n \/ ns[m].parent \in Under(ns, n)
  BY UnderIs
<1>4. ASSUME NEW path \in Seq(Names), NEW m \in (0..N) \ Under(ns, n)
      PROVE  m \in Lead(ms, path) <=> m \in Lead(ns, path)
  <2> DEFINE C == (0..N) \ Under(ns, n)
  <2>1. 0 \in C
    BY <1>0, <1>3
  <2>2. \A k \in C : k # 0 =>
          /\ k \in 1..Len(ns) /\ k \in 1..Len(ms) /\ ms[k].state = ns[k].state
          /\ ms[k].name = ns[k].name /\ ms[k].parent = ns[k].parent /\ ns[k].parent \in C
    BY <1>0, <1>1, <1>3
  <2>3. m \in C
    OBVIOUS
  <2> HIDE DEF C
  <2> QED BY <1>2, <2>1, <2>2, <2>3, LeadsAgree
<1>5. ASSUME NEW path \in Seq(Names), NEW m \in Under(ns, n), m \in Lead(ms, path) PROVE FALSE
  <2> DEFINE Good == {k \in Nat : \A p \in Seq(Names) : Len(p) = k =>
                        \A i \in Under(ns, n) : i \notin Lead(ms, p)}
  <2>1. 0 \in Good
    <3>1. \A p \in Seq(Names) : Len(p) = 0 => p = <<>>
      BY EmptySeq
    <3>2. 0 \notin Under(ns, n)
      BY <1>0, <1>3
    <3> QED BY <3>1, <3>2, LeadTop
  <2>2. ASSUME NEW k \in 0..Len(path), k \in Good, k < Len(path) PROVE k + 1 \in Good
    <3> SUFFICES ASSUME NEW p \in Seq(Names), Len(p) = k + 1, NEW i \in Under(ns, n), i \in Lead(ms, p)
                 PROVE  FALSE
      OBVIOUS
    <3>1. p # <<>>
      BY EmptySeq
    <3>2. Front(p) \in Seq(Names) /\ Len(Front(p)) = k
      <4>1. Front(p) \in Seq(Names) /\ Len(Front(p)) = Len(p) - 1
        BY <3>1, FrontIs
      <4> QED BY <4>1
    <3>3. i \in 1..Len(ms) /\ i \in 1..N
      BY <1>0, <1>3
    <3>4. ms[i].state = "live" /\ ms[i].parent \in Lead(ms, Front(p))
      BY <1>2, <3>1, <3>3, LeadIs
    <3>5. ns[i].parent \in Under(ns, n)
      BY <1>3, <3>3, <3>4
    <3>6. ns[i].parent \notin Lead(ms, Front(p))
      BY <2>2, <3>2, <3>5
    <3> QED BY <3>3, <3>4, <3>6
  <2>3. Len(path) \in Nat
    BY LenProperties
  <2>4. 0..Len(path) \subseteq Good
    <3> HIDE DEF Good
    <3> QED BY <2>1, <2>2, <2>3, Climb
  <2>5. Len(path) \in Good
    BY <2>3, <2>4
  <2> QED BY <1>5, <2>5
<1>6. ASSUME NEW path \in Seq(Names)
      PROVE  Lead(ns, path) \subseteq 0..N /\ Lead(ms, path) \subseteq 0..N
  <2>1. CASE path = <<>>
    BY <1>0, <2>1, LeadTop
  <2>2. CASE path # <<>>
    <3>1. Lead(ns, path) \subseteq 1..N
      BY <2>2, LeadIs
    <3>2. Lead(ms, path) \subseteq 1..N
      BY <1>0, <1>2, <2>2, LeadIs
    <3> QED BY <3>1, <3>2
  <2> QED BY <2>1, <2>2
<1>7. ASSUME NEW path \in Seq(Names) PROVE Lead(ms, path) = Lead(ns, path) \ Under(ns, n)
  <2> HIDE DEF N
  <2>1. \A m \in 0..N : m \in Lead(ms, path) <=> m \in Lead(ns, path) \ Under(ns, n)
    BY <1>4, <1>5
  <2> QED BY <1>6, <2>1
<1> QED BY <1>2, <1>7

\* A node that is moved out of its own reach takes what is below it along.
LEMMA Transplanted ==
  ASSUME NEW ns, Kin(ns), NEW n \in 1..Len(ns), NEW t \in 1..Len(ns), t \notin Under(ns, n),
         ns[t].folder, NEW x \in Names
  PROVE  LET ms == [ns EXCEPT ![n].parent = t, ![n].name = x]
         IN  /\ Kin(ms) /\ Len(ms) = Len(ns)
             /\ \A path \in Seq(Names) :
                  /\ \A m \in 1..Len(ns) : m \notin Under(ns, n) =>
                       (m \in Lead(ms, path) <=> m \in Lead(ns, path))
                  /\ path # <<>> =>
                       (n \in Lead(ms, path) <=>
                          ns[n].state = "live" /\ x = Name(path) /\ t \in Lead(ns, Front(path)))
<1> DEFINE N == Len(ns)
           ms == [ns EXCEPT ![n].parent = t, ![n].name = x]
<1>1. /\ N \in Nat /\ ns \in Seq(Thing) /\ ns \in [1..N -> Thing]
      /\ \A m \in 1..N : ns[m].parent \in 0..N /\ (ns[m].parent # 0 => ns[ns[m].parent].folder)
  BY LenProperties DEF Kin
<1>2. ns[n] \in Thing /\ t \in Nat
  BY <1>1
<1>3. /\ ms \in [1..N -> Thing]
      /\ ms[n] = [ns[n] EXCEPT !.parent = t, !.name = x]
      /\ \A m \in 1..N : m # n => ms[m] = ns[m]
  BY <1>1, <1>2 DEF Thing
<1> HIDE DEF ms
<1>4. ms \in Seq(Thing) /\ Len(ms) = N
  BY <1>1, <1>3, FunctionIsSeq
<1>5. /\ ms[n].parent = t /\ ms[n].name = x /\ ms[n].folder = ns[n].folder /\ ms[n].state = ns[n].state
  BY <1>2, <1>3 DEF Thing
<1>6. \A m \in 1..N : ms[m].folder = ns[m].folder
  BY <1>3, <1>5
<1>7. Kin(ms)
  <2> SUFFICES ASSUME NEW m \in 1..N
               PROVE  ms[m].parent \in 0..N /\ (ms[m].parent # 0 => ms[ms[m].parent].folder)
    BY <1>4 DEF Kin
  <2>1. ms[m].parent \in 0..N /\ (ms[m].parent # 0 => ns[ms[m].parent].folder)
    <3>1. CASE m = n
      BY <1>1, <1>5, <3>1
    <3>2. CASE m # n
      BY <1>1, <1>3, <3>2
    <3> QED BY <3>1, <3>2
  <2>2. ms[m].parent # 0 => ms[m].parent \in 1..N
    BY <1>1, <2>1
  <2> QED BY <1>6, <2>1, <2>2
<1>8. /\ Under(ns, n) \subseteq 1..N /\ n \in Under(ns, n)
      /\ \A m \in 1..N : m \in Under(ns, n) <=> m = n \/ ns[m].parent \in Under(ns, n)
  BY UnderIs
<1>9. ASSUME NEW path \in Seq(Names), NEW m \in (0..N) \ Under(ns, n)
      PROVE  m \in Lead(ms, path) <=> m \in Lead(ns, path)
  <2> DEFINE C == (0..N) \ Under(ns, n)
  <2>1. 0 \in C
    BY <1>1, <1>8
  <2>2. \A k \in C : k # 0 =>
          /\ k \in 1..Len(ns) /\ k \in 1..Len(ms) /\ ms[k].state = ns[k].state
          /\ ms[k].name = ns[k].name /\ ms[k].parent = ns[k].parent /\ ns[k].parent \in C
    BY <1>1, <1>3, <1>4, <1>8
  <2>3. m \in C
    OBVIOUS
  <2> HIDE DEF C
  <2> QED BY <1>7, <2>1, <2>2, <2>3, LeadsAgree
<1>10. ASSUME NEW path \in Seq(Names), path # <<>>
       PROVE  n \in Lead(ms, path) <=>
                ns[n].state = "live" /\ x = Name(path) /\ t \in Lead(ns, Front(path))
  <2>1. n \in 1..Len(ms)
    BY <1>4
  <2>2. n \in Lead(ms, path) <=>
          ms[n].state = "live" /\ ms[n].name = Name(path) /\ ms[n].parent \in Lead(ms, Front(path))
    BY <1>7, <1>10, <2>1, LeadIs
  <2>3. Front(path) \in Seq(Names)
    BY <1>10, FrontIs
  <2>4. t \in (0..N) \ Under(ns, n)
    BY <1>1
  <2>5. t \in Lead(ms, Front(path)) <=> t \in Lead(ns, Front(path))
    BY <1>9, <2>3, <2>4
  <2> QED BY <1>5, <2>2, <2>5
<1>11. \A m \in 1..N : m \in 0..N
  BY <1>1
<1> QED BY <1>4, <1>7, <1>9, <1>10, <1>11 DEF ms

-----------------------------------------------------------------------------
(* The record of a call, and what the resolver makes of it.                *)

\* What a call is made of.
Goals == [kind : {"file", "folder", "fresh"}, path : Paths]
Replies == [status : {"none", "ok", "missing", "refused", "unavailable"}, ids : SUBSET Nat]
Calls ==
  [op : Ops, path : Paths, to : Paths, plan : Seq(Goals), look : Seq(Names), under : Nat,
   ids : Seq(Nat), healed : BOOLEAN, pc : {"idle", "resolve", "search", "create", "act", "done"},
   attempt : Nat, reply : Replies, result : {"none", "ok", "missing", "error"}, alone : BOOLEAN]

\* The same call, further on.
SameCall(r, rec) ==
  /\ r.op = rec.op /\ r.path = rec.path /\ r.to = rec.to /\ r.healed = rec.healed
  /\ r.result = rec.result /\ r.alone = rec.alone

\* A call in use names no path but below the application's folder.
Named(rec) ==
  /\ Len(rec.path) > 1 /\ Len(rec.to) > 1 /\ (rec.op \notin {"copy", "move"} => rec.to = rec.path)
  /\ rec.healed => rec.op = "download"

\* The goals a call began with, and the folder that each of them is in.
FullPlan(rec) ==
  IF rec.healed THEN <<Goal("fresh", rec.path)>> ELSE Plan(rec.op, rec.path, rec.to)

FolderIn(goal) == IF goal.kind = "folder" THEN goal.path ELSE Front(goal.path)

\* A plan names one file at most, its path, and that one first.
LEMMA PlanIs ==
  ASSUME NEW rec \in Calls, Named(rec)
  PROVE  /\ FullPlan(rec) \in Seq(Goals) /\ Len(FullPlan(rec)) \in 1..3
         /\ \A i \in 1..Len(FullPlan(rec)) :
              /\ FullPlan(rec)[i] \in Goals
              /\ FullPlan(rec)[i].kind # "folder" => i = 1 /\ FullPlan(rec)[i].path = rec.path
<1>1. rec.path \in Paths /\ rec.to \in Paths /\ rec.op \in Ops
  BY DEF Calls
<1>2. Len(rec.path) > 1 /\ Len(rec.to) > 1
  BY DEF Named
<1>3. Front(rec.path) \in Paths /\ Front(rec.to) \in Paths
  BY <1>1, <1>2, PathsAssumption
<1>4. /\ Goal("file", rec.path) \in Goals /\ Goal("fresh", rec.path) \in Goals
      /\ Goal("folder", rec.path) \in Goals
      /\ FolderOf(rec.path) \in Goals /\ FolderOf(rec.to) \in Goals
      /\ FolderOf(rec.path).kind = "folder" /\ FolderOf(rec.to).kind = "folder"
      /\ Goal("folder", rec.path).kind = "folder"
      /\ Goal("file", rec.path).path = rec.path /\ Goal("fresh", rec.path).path = rec.path
  BY <1>1, <1>2, <1>3 DEF Goals, Goal, FolderOf
<1>5. \/ FullPlan(rec) = <<Goal("fresh", rec.path)>>
      \/ FullPlan(rec) = <<FolderOf(rec.path)>>
      \/ FullPlan(rec) = <<Goal("folder", rec.path)>>
      \/ FullPlan(rec) = <<Goal("file", rec.path), FolderOf(rec.to)>>
      \/ FullPlan(rec) = <<Goal("file", rec.path), FolderOf(rec.path), FolderOf(rec.to)>>
      \/ FullPlan(rec) = <<Goal("file", rec.path)>>
  BY DEF FullPlan, Plan
<1>6. ASSUME NEW g \in Goals, g.kind # "folder" => g.path = rec.path, FullPlan(rec) = <<g>>
      PROVE  /\ FullPlan(rec) \in Seq(Goals) /\ Len(FullPlan(rec)) \in 1..3
             /\ \A i \in 1..Len(FullPlan(rec)) :
                  /\ FullPlan(rec)[i] \in Goals
                  /\ FullPlan(rec)[i].kind # "folder" => i = 1 /\ FullPlan(rec)[i].path = rec.path
  <2>1. <<g>> \in Seq(Goals) /\ Len(<<g>>) = 1 /\ <<g>>[1] = g
    OBVIOUS
  <2>2. \A i \in 1..1 : i = 1
    OBVIOUS
  <2> QED BY <1>6, <2>1, <2>2
<1>7. ASSUME NEW g \in Goals, g.kind # "folder" => g.path = rec.path,
             NEW h \in Goals, h.kind = "folder", FullPlan(rec) = <<g, h>>
      PROVE  /\ FullPlan(rec) \in Seq(Goals) /\ Len(FullPlan(rec)) \in 1..3
             /\ \A i \in 1..Len(FullPlan(rec)) :
                  /\ FullPlan(rec)[i] \in Goals
                  /\ FullPlan(rec)[i].kind # "folder" => i = 1 /\ FullPlan(rec)[i].path = rec.path
  <2>1. <<g, h>> \in Seq(Goals) /\ Len(<<g, h>>) = 2 /\ <<g, h>>[1] = g /\ <<g, h>>[2] = h
    OBVIOUS
  <2>2. \A i \in 1..2 : i = 1 \/ i = 2
    OBVIOUS
  <2> QED BY <1>7, <2>1, <2>2
<1>8. ASSUME NEW g \in Goals, g.kind # "folder" => g.path = rec.path,
             NEW h \in Goals, h.kind = "folder", NEW k \in Goals, k.kind = "folder",
             FullPlan(rec) = <<g, h, k>>
      PROVE  /\ FullPlan(rec) \in Seq(Goals) /\ Len(FullPlan(rec)) \in 1..3
             /\ \A i \in 1..Len(FullPlan(rec)) :
                  /\ FullPlan(rec)[i] \in Goals
                  /\ FullPlan(rec)[i].kind # "folder" => i = 1 /\ FullPlan(rec)[i].path = rec.path
  <2>1. /\ <<g, h, k>> \in Seq(Goals) /\ Len(<<g, h, k>>) = 3
        /\ <<g, h, k>>[1] = g /\ <<g, h, k>>[2] = h /\ <<g, h, k>>[3] = k
    OBVIOUS
  <2>2. \A i \in 1..3 : i = 1 \/ i = 2 \/ i = 3
    OBVIOUS
  <2> QED BY <1>8, <2>1, <2>2
<1> QED BY <1>4, <1>5, <1>6, <1>7, <1>8, Zenon

\* A goal is behind the call.
LEMMA ReachedIs ==
  ASSUME NEW rec \in Calls, NEW id \in Nat, rec.plan # <<>>
  PROVE  LET r == Reached(rec, id)
         IN  /\ r \in Calls /\ SameCall(r, rec) /\ r.pc = "resolve" /\ r.look = <<>> /\ r.under = 0
             /\ r.reply = rec.reply /\ r.attempt = rec.attempt
             /\ Len(r.ids) = Len(rec.ids) + 1 /\ Len(rec.ids) \in Nat
             /\ \A i \in 1..Len(rec.ids) : r.ids[i] = rec.ids[i]
             /\ r.ids[Len(rec.ids) + 1] = id
             /\ Len(r.plan) = Len(rec.plan) - 1 /\ Len(rec.plan) \in Nat \ {0}
             /\ \A i \in 1..Len(r.plan) : r.plan[i] = rec.plan[i + 1]
<1> DEFINE ids == Append(rec.ids, id)
           plan == SubSeq(rec.plan, 2, Len(rec.plan))
<1>1. rec.ids \in Seq(Nat) /\ rec.plan \in Seq(Goals)
  BY DEF Calls
<1>2. Len(rec.ids) \in Nat /\ Len(rec.plan) \in Nat \ {0}
  BY <1>1, LenProperties, EmptySeq
<1>3. ids \in Seq(Nat) /\ Len(ids) = Len(rec.ids) + 1
      /\ (\A i \in 1..Len(rec.ids) : ids[i] = rec.ids[i]) /\ ids[Len(rec.ids) + 1] = id
  BY <1>1, AppendProperties
<1>4. /\ plan \in Seq(Goals)
      /\ Len(plan) = IF 2 <= Len(rec.plan) THEN Len(rec.plan) - 2 + 1 ELSE 0
      /\ \A i \in 1..(Len(rec.plan) - 2 + 1) : plan[i] = rec.plan[2 + i - 1]
  <2>1. 2 \in Int /\ Len(rec.plan) \in Int
    BY <1>2
  <2>2. \A i \in 2..Len(rec.plan) : rec.plan[i] \in Goals
    <3>1. \A i \in 2..Len(rec.plan) : i \in 1..Len(rec.plan)
      OBVIOUS
    <3> QED BY <1>1, <3>1, ElementOfSeq
  <2> QED BY ONLY <2>1, <2>2, SubSeqProperties
<1>5. Len(plan) = Len(rec.plan) - 1 /\ \A i \in 1..Len(plan) : plan[i] = rec.plan[i + 1]
  <2>1. Len(plan) = Len(rec.plan) - 1
    BY <1>2, <1>4
  <2>2. ASSUME NEW i \in 1..Len(plan) PROVE plan[i] = rec.plan[i + 1]
    <3>1. i \in 1..(Len(rec.plan) - 2 + 1) /\ 2 + i - 1 = i + 1
      BY <1>2, <2>1
    <3> HIDE DEF plan
    <3> QED BY <1>4, <3>1
  <2> QED BY <2>1, <2>2
<1> HIDE DEF ids, plan
<1>6. Reached(rec, id) = [rec EXCEPT !.ids = ids, !.plan = plan, !.look = <<>>, !.under = 0, !.pc = "resolve"]
  BY DEF Reached, ids, plan
<1>7. <<>> \in Seq(Names)
  BY EmptySeq
<1>8. /\ Reached(rec, id) \in Calls /\ Reached(rec, id).ids = ids /\ Reached(rec, id).plan = plan
      /\ Reached(rec, id).pc = "resolve" /\ Reached(rec, id).look = <<>> /\ Reached(rec, id).under = 0
      /\ Reached(rec, id).reply = rec.reply /\ Reached(rec, id).attempt = rec.attempt
  <2> DEFINE look == <<>>
  <2>1. Reached(rec, id) = [rec EXCEPT !.ids = ids, !.plan = plan, !.look = look, !.under = 0, !.pc = "resolve"]
    BY <1>6
  <2>2. look \in Seq(Names) /\ ids \in Seq(Nat) /\ plan \in Seq(Goals)
    BY <1>3, <1>4, <1>7
  <2> HIDE DEF look
  <2>3. Reached(rec, id) \in Calls
    <3>1. [rec EXCEPT !.ids = ids, !.plan = plan, !.look = look, !.under = 0, !.pc = "resolve"] \in Calls
      BY <2>2 DEF Calls
    <3> QED BY <2>1, <3>1
  <2>4. /\ Reached(rec, id).ids = ids /\ Reached(rec, id).plan = plan
        /\ Reached(rec, id).pc = "resolve" /\ Reached(rec, id).look = look /\ Reached(rec, id).under = 0
        /\ Reached(rec, id).reply = rec.reply /\ Reached(rec, id).attempt = rec.attempt
    BY <2>1 DEF Calls
  <2> QED BY <2>3, <2>4 DEF look
<1>9. SameCall(Reached(rec, id), rec)
  BY <1>6 DEF SameCall, Calls
<1> QED BY <1>2, <1>3, <1>5, <1>8, <1>9

\* A request is due.
LEMMA AskIs ==
  ASSUME NEW rec \in Calls, NEW label \in {"search", "create", "act"}
  PROVE  LET r == Ask(rec, label)
         IN  /\ r \in Calls /\ SameCall(r, rec) /\ r.pc = label /\ r.reply = NoReply
             /\ r.plan = rec.plan /\ r.look = rec.look /\ r.under = rec.under /\ r.ids = rec.ids
<1>1. NoReply \in Replies
  BY DEF NoReply, Replies
<1> QED BY <1>1 DEF Ask, Calls, SameCall

\* A call is over.
LEMMA EndIs ==
  ASSUME NEW rec \in Calls, NEW result \in {"ok", "missing", "error"}
  PROVE  LET r == End(rec, result)
         IN  /\ r \in Calls /\ r.op = rec.op /\ r.path = rec.path /\ r.to = rec.to /\ r.ids = rec.ids
             /\ r.pc = "done" /\ r.result = result /\ r.alone = rec.alone /\ ~r.healed
             /\ r.reply = NoReply
<1>1. <<Root>> \in Paths /\ <<>> \in Seq(Goals) /\ <<>> \in Seq(Names) /\ <<>> \in Seq(Nat)
  BY PathsAssumption, EmptySeq
<1>2. Idle \in Calls
  BY <1>1 DEF Idle, Calls, NoReply, Replies, Ops
<1> QED BY <1>2 DEF End, Calls, Idle

\* How far a call is on the way to its first goal.
Walked(lead, rec) ==
  /\ Len(rec.look) <= Len(FolderIn(rec.plan[1]))
  /\ rec.look = Prefix(FolderIn(rec.plan[1]), Len(rec.look))
  /\ IF rec.look = <<>> THEN rec.under = 0 ELSE rec.under \in lead[rec.look]

\* The same call, with a search for what is next below look.
Searching(rec, look, id) == Ask([rec EXCEPT !.look = look, !.under = id], "search")

\* What the cache holds is among what lead allows for each path.
Led(lead, entries, id) ==
  /\ entries \in [Paths -> Nat] /\ id \in Nat
  /\ \A q \in Paths : entries[q] = 0 \/ entries[q] \in lead[q]
  /\ id = 0 \/ id \in lead[<<Root>>]

\* A goal is reached, or a search is due below the last folder that is known.
LEMMA PursueIs ==
  ASSUME NEW lead, \A q \in Paths : lead[q] \subseteq Nat,
         NEW entries, NEW s, s = [call |-> s.call, memo |-> s.memo], Led(lead, entries, s.memo),
         s.call \in Calls, s.call.plan # <<>>,
         s.call.plan[1].kind # "folder" => Len(s.call.plan[1].path) > 1,
         Walked(lead, s.call)
  PROVE  LET rec == s.call
             goal == rec.plan[1]
             folder == FolderIn(goal)
             out == Pursue(s, entries)
         IN  /\ out = [call |-> out.call, memo |-> out.memo]
             /\ out.memo \in Nat /\ (out.memo = 0 \/ out.memo \in lead[<<Root>>])
             /\ \/ \E n \in lead[goal.path] : out.call = Reached(rec, n)
                \/ \E d \in Len(rec.look)..Len(folder), u \in Nat :
                     /\ out.call = Searching(rec, Prefix(folder, d), u)
                     /\ d < Len(goal.path)
                     /\ IF d = Len(rec.look) THEN u = rec.under ELSE u \in lead[Prefix(folder, d)]
<1> DEFINE rec == s.call
           id == s.memo
           goal == rec.plan[1]
           folder == FolderIn(goal)
           root == IF id # 0 THEN id ELSE entries[<<Root>>]
           known == [entries EXCEPT ![<<Root>>] = root]
           whole == rec.look = <<>> /\ known[folder] # 0
           Deepest(k) == IF whole THEN k = Len(folder)
                         ELSE /\ \A i \in (Len(rec.look) + 1)..k : known[Prefix(folder, i)] # 0
                              /\ k < Len(folder) => known[Prefix(folder, k + 1)] = 0
           depth == CHOOSE k \in Len(rec.look)..Len(folder) : Deepest(k)
           under == IF depth > Len(rec.look) THEN known[Prefix(folder, depth)] ELSE rec.under
           out == Pursue(s, entries)
<1>1. /\ rec.plan \in Seq(Goals) /\ rec.look \in Seq(Names) /\ rec.under \in Nat
      /\ Len(rec.look) \in Nat /\ Len(rec.plan) \in Nat \ {0}
  BY LenProperties, EmptySeq DEF Calls
<1>2. goal \in Goals
  <2>1. 1 \in 1..Len(rec.plan)
    BY <1>1
  <2> QED BY <1>1, <2>1, ElementOfSeq
<1>3. /\ folder \in Paths /\ goal.path \in Paths
      /\ goal.kind = "folder" => folder = goal.path
      /\ goal.kind # "folder" => Len(folder) = Len(goal.path) - 1 /\ folder = Front(goal.path)
  <2>1. goal.path \in Paths /\ goal.kind \in {"file", "folder", "fresh"}
    BY <1>2 DEF Goals
  <2>2. CASE goal.kind = "folder"
    BY <2>1, <2>2 DEF FolderIn
  <2>3. CASE goal.kind # "folder"
    <3>1. folder = Front(goal.path) /\ Len(goal.path) > 1
      BY <2>3 DEF FolderIn
    <3>2. goal.path \in Seq(Names) /\ goal.path # <<>> /\ Front(goal.path) \in Paths
      BY <2>1, <3>1, PathsAssumption
    <3>3. Len(Front(goal.path)) = Len(goal.path) - 1
      BY <3>2, FrontIs
    <3> QED BY <2>1, <2>3, <3>1, <3>2, <3>3
  <2> QED BY <2>2, <2>3
<1>4. folder \in Seq(Names) /\ Len(folder) \in Nat \ {0} /\ Len(goal.path) \in Nat \ {0} /\ <<Root>> \in Paths
  BY <1>3, PathsAre
<1>5. /\ Led(lead, entries, id) /\ rec \in Calls /\ s = [call |-> rec, memo |-> id]
      /\ Len(rec.look) <= Len(folder) /\ rec.look = Prefix(folder, Len(rec.look))
      /\ IF rec.look = <<>> THEN rec.under = 0 ELSE rec.under \in lead[rec.look]
  BY DEF Walked
<1>6. /\ known \in [Paths -> Nat] /\ root \in Nat
      /\ \A q \in Paths : known[q] = 0 \/ known[q] \in lead[q]
      /\ root = 0 \/ root \in lead[<<Root>>]
  BY <1>4, <1>5 DEF Led
<1>7. Pursue(s, entries) =
        IF goal.kind = "file" /\ rec.look = <<>> /\ entries[goal.path] # 0
        THEN [s EXCEPT !.call = Reached(rec, entries[goal.path])]
        ELSE [call |-> IF depth = Len(folder) /\ goal.kind = "folder" THEN Reached(rec, under)
                       ELSE Ask([rec EXCEPT !.look = Prefix(folder, depth), !.under = under], "search"),
              memo |-> IF rec.look = <<>> /\ (Len(folder) = 1 \/ ~whole) THEN root ELSE id]
  BY DEF Pursue, FolderIn
<1> HIDE DEF rec, id, goal, folder, root, known
<1>8. \E k \in Len(rec.look)..Len(folder) : Deepest(k)
  <2>1. CASE whole
    <3>1. Len(folder) \in Len(rec.look)..Len(folder)
      BY <1>1, <1>4, <1>5
    <3> QED BY <2>1, <3>1
  <2>2. CASE ~whole
    <3> DEFINE T == {k \in Nat : /\ k >= Len(rec.look)
                                 /\ k < Len(folder) => known[Prefix(folder, k + 1)] = 0}
    <3>1. Len(folder) \in T
      BY <1>1, <1>4, <1>5
    <3>2. PICK k \in T : \A y \in T : k <= y
      <4>1. T \in SUBSET Nat /\ T # {}
        BY <3>1
      <4> HIDE DEF T
      <4> QED BY <4>1, LeastElement
    <3>3. k \in Len(rec.look)..Len(folder)
      BY <1>1, <1>4, <3>1, <3>2
    <3>4. ASSUME NEW i \in (Len(rec.look) + 1)..k PROVE known[Prefix(folder, i)] # 0
      <4>1. i - 1 \in Nat /\ i - 1 >= Len(rec.look) /\ i - 1 < k /\ (i - 1) + 1 = i
        BY <1>1, <3>3
      <4>2. i - 1 \notin T
        BY <3>2, <4>1
      <4> QED BY <4>1, <4>2
    <3> QED BY <2>2, <3>2, <3>3, <3>4
  <2> QED BY <2>1, <2>2
<1>9. depth \in Len(rec.look)..Len(folder) /\ Deepest(depth)
  <2> HIDE DEF Deepest
  <2> QED BY <1>8
<1> HIDE DEF depth
<1>10. depth \in Nat
  BY <1>1, <1>4, <1>9
<1>11. ASSUME depth > Len(rec.look) PROVE Prefix(folder, depth) \in Paths /\ under \in lead[Prefix(folder, depth)]
  <2>1. depth \in 1..Len(folder)
    BY <1>1, <1>4, <1>9, <1>11
  <2>2. Prefix(folder, depth) \in Paths
    BY <1>3, <2>1, PathsAbove
  <2>3. known[Prefix(folder, depth)] # 0
    <3>1. CASE whole
      <4>1. depth = Len(folder) /\ Len(folder) \in 0..Len(folder) /\ 0 \in 0..Len(folder)
        BY <1>4, <1>9, <3>1
      <4>2. Prefix(folder, depth) = folder
        BY <1>4, <4>1, PrefixOfPrefix
      <4> QED BY <3>1, <4>2
    <3>2. CASE ~whole
      <4>1. depth \in (Len(rec.look) + 1)..depth
        BY <1>1, <1>10, <1>11
      <4> QED BY <1>9, <3>2, <4>1
    <3> QED BY <3>1, <3>2
  <2>4. known[Prefix(folder, depth)] \in lead[Prefix(folder, depth)]
    BY <1>6, <2>2, <2>3
  <2> QED BY <1>11, <2>2, <2>4
<1>12. under \in Nat
  BY <1>1, <1>11
<1>13. out = [call |-> out.call, memo |-> out.memo] /\ out.memo \in Nat /\ (out.memo = 0 \/ out.memo \in lead[<<Root>>])
  <2>1. out = [call |-> out.call, memo |-> out.memo] /\ out.memo \in {id, root}
    <3> HIDE DEF depth, whole, under
    <3> QED BY <1>5, <1>7
  <2> HIDE DEF out
  <2> QED BY <1>5, <1>6, <2>1 DEF Led
<1>14. CASE goal.kind = "file" /\ rec.look = <<>> /\ entries[goal.path] # 0
  <2>1. out.call = Reached(rec, entries[goal.path])
    <3> HIDE DEF whole, under
    <3> QED BY <1>5, <1>7, <1>14
  <2>2. entries[goal.path] \in lead[goal.path]
    BY <1>3, <1>5, <1>14 DEF Led
  <2> HIDE DEF out
  <2> QED BY <1>13, <2>1, <2>2 DEF goal, rec, id, out
<1>15. CASE ~ (goal.kind = "file" /\ rec.look = <<>> /\ entries[goal.path] # 0) /\ depth = Len(folder) /\ goal.kind = "folder"
  <2>1. out.call = Reached(rec, under)
    <3> HIDE DEF under, whole
    <3> QED BY <1>7, <1>15
  <2>2. under \in lead[goal.path]
    <3>0. Prefix(folder, depth) = folder /\ folder = goal.path
      <4>1. Len(folder) \in 0..Len(folder) /\ 0 \in 0..Len(folder)
        BY <1>4
      <4>2. Prefix(folder, Len(folder)) = folder
        BY <1>4, <4>1, PrefixOfPrefix
      <4> QED BY <1>3, <1>15, <4>2
    <3>1. CASE depth > Len(rec.look)
      BY <1>11, <3>0, <3>1
    <3>2. CASE ~ (depth > Len(rec.look))
      <4>1. depth = Len(rec.look)
        BY <1>1, <1>9, <1>10, <3>2
      <4>2. rec.look = folder
        BY <1>5, <3>0, <4>1
      <4>3. rec.look # <<>>
        BY <1>4, <4>2, PathsAre, <1>3
      <4> QED BY <1>5, <3>0, <3>2, <4>2, <4>3
    <3> QED BY <3>1, <3>2
  <2> HIDE DEF under, out
  <2> QED BY <1>13, <2>1, <2>2 DEF goal, rec, id, out
<1>16. CASE ~ (goal.kind = "file" /\ rec.look = <<>> /\ entries[goal.path] # 0) /\ ~ (depth = Len(folder) /\ goal.kind = "folder")
  <2>1. out.call = Searching(rec, Prefix(folder, depth), under)
    <3> HIDE DEF under, whole
    <3> QED BY <1>7, <1>16 DEF Searching
  <2>2. depth < Len(goal.path)
    BY <1>3, <1>4, <1>9, <1>10, <1>16
  <2>3. IF depth = Len(rec.look) THEN under = rec.under ELSE under \in lead[Prefix(folder, depth)]
    <3>1. depth # Len(rec.look) => depth > Len(rec.look)
      BY <1>1, <1>9, <1>10
    <3>2. depth = Len(rec.look) => ~ (depth > Len(rec.look))
      BY <1>1
    <3>3. ~ (depth > Len(rec.look)) => under = rec.under
      OBVIOUS
    <3> HIDE DEF under
    <3> QED BY <1>11, <3>1, <3>2, <3>3
  <2> HIDE DEF under, out
  <2>4. \E d \in Len(rec.look)..Len(folder), u \in Nat :
          /\ out.call = Searching(rec, Prefix(folder, d), u)
          /\ d < Len(goal.path)
          /\ IF d = Len(rec.look) THEN u = rec.under ELSE u \in lead[Prefix(folder, d)]
    BY <1>9, <1>12, <2>1, <2>2, <2>3, Zenon
  <2> QED BY <1>13, <2>4 DEF goal, folder, out, rec, id
<1> QED BY <1>14, <1>15, <1>16

\* How many goals of its plan a call reached, and how many are left.
Done(rec) == Len(rec.ids)
Left(rec) == Len(rec.plan)

\* A call that follows its plan: the goals behind it are reached, each at an id
\* that lead allows, and it is on the way to the next.
Grounded(lead, rec) ==
  /\ Named(rec)
  /\ Done(rec) + Left(rec) = Len(FullPlan(rec))
  /\ \A i \in 1..Left(rec) : rec.plan[i] = FullPlan(rec)[Done(rec) + i]
  /\ \A i \in 1..Done(rec) : rec.ids[i] \in lead[FullPlan(rec)[i].path]
  /\ rec.plan # <<>> => Walked(lead, rec)

\* What is still to be looked for.
Looking(rec) == rec.plan # <<>> /\ Len(rec.look) < Len(rec.plan[1].path)

\* The same call, on the same way or at a later goal.
Further(rec, r) ==
  /\ SameCall(r, rec)
  /\ Done(rec) <= Done(r)
  /\ Done(rec) = Done(r) /\ r.plan # <<>> =>
       /\ Len(rec.look) <= Len(r.look)
       /\ Len(rec.look) = Len(r.look) => r.under = rec.under

\* The plan of a call depends on what it was called with.
LEMMA SamePlan ==
  ASSUME NEW rec, NEW r, SameCall(r, rec)
  PROVE  FullPlan(r) = FullPlan(rec) /\ (Named(r) <=> Named(rec))
BY DEF SameCall, FullPlan, Named

\* The goals that are left are goals of the plan.
LEMMA GoalsLeft ==
  ASSUME NEW lead, NEW rec \in Calls, Grounded(lead, rec)
  PROVE  /\ Done(rec) \in Nat /\ Left(rec) \in Nat /\ Len(rec.look) \in Nat
         /\ rec.plan = <<>> <=> Left(rec) = 0
         /\ rec.plan # <<>> =>
              /\ rec.plan[1] = FullPlan(rec)[Done(rec) + 1]
              /\ Done(rec) + 1 \in 1..Len(FullPlan(rec))
              /\ rec.plan[1] \in Goals
              /\ rec.plan[1].kind # "folder" =>
                   /\ Done(rec) = 0 /\ rec.plan[1].path = rec.path
                   /\ Len(rec.path) > 1 /\ Front(rec.path) \in Paths
<1>1. /\ rec.ids \in Seq(Nat) /\ rec.plan \in Seq(Goals) /\ rec.look \in Seq(Names) /\ rec.path \in Paths
  BY DEF Calls
<1>2. Done(rec) \in Nat /\ Left(rec) \in Nat /\ Len(rec.look) \in Nat
  BY <1>1, LenProperties DEF Done, Left
<1>3. rec.plan = <<>> <=> Left(rec) = 0
  <2>1. Left(rec) = 0 => rec.plan = <<>>
    BY <1>1, EmptySeq DEF Left
  <2> QED BY <2>1, EmptySeq DEF Left
<1>4. ASSUME rec.plan # <<>>
      PROVE  /\ rec.plan[1] = FullPlan(rec)[Done(rec) + 1]
             /\ Done(rec) + 1 \in 1..Len(FullPlan(rec))
             /\ rec.plan[1] \in Goals
             /\ rec.plan[1].kind # "folder" =>
                  /\ Done(rec) = 0 /\ rec.plan[1].path = rec.path
                  /\ Len(rec.path) > 1 /\ Front(rec.path) \in Paths
  <2>1. Left(rec) >= 1 /\ 1 \in 1..Left(rec)
    BY <1>2, <1>3, <1>4
  <2>2. Named(rec) /\ Len(rec.path) > 1
    BY DEF Grounded, Named
  <2>3. rec.plan[1] = FullPlan(rec)[Done(rec) + 1]
    BY <2>1 DEF Grounded
  <2>4. Len(FullPlan(rec)) \in 1..3
    BY <2>2, PlanIs
  <2>a. Done(rec) + Left(rec) = Len(FullPlan(rec))
    BY DEF Grounded
  <2>5. Done(rec) + 1 \in 1..Len(FullPlan(rec))
    BY ONLY <1>2, <2>1, <2>4, <2>a
  <2>6. /\ FullPlan(rec)[Done(rec) + 1] \in Goals
        /\ FullPlan(rec)[Done(rec) + 1].kind # "folder" =>
             Done(rec) + 1 = 1 /\ FullPlan(rec)[Done(rec) + 1].path = rec.path
    BY <2>2, <2>5, PlanIs
  <2>7. Front(rec.path) \in Paths
    BY <1>1, <2>2, PathsAssumption
  <2>8. Done(rec) + 1 = 1 => Done(rec) = 0
    BY ONLY <1>2
  <2>9. rec.plan[1] \in Goals /\ (rec.plan[1].kind # "folder" => Done(rec) = 0 /\ rec.plan[1].path = rec.path)
    BY ONLY <2>3, <2>6, <2>8, Zenon
  <2> QED BY ONLY <2>2, <2>3, <2>5, <2>7, <2>9, Zenon
<1> QED BY <1>2, <1>3, <1>4

\* A goal was reached: on to the next.
LEMMA ReachedGrounded ==
  ASSUME NEW lead, NEW rec \in Calls, Grounded(lead, rec), rec.plan # <<>>,
         NEW id \in Nat, id \in lead[rec.plan[1].path]
  PROVE  /\ Reached(rec, id) \in Calls /\ Grounded(lead, Reached(rec, id))
         /\ Further(rec, Reached(rec, id))
         /\ Reached(rec, id).pc = "resolve"
         /\ Done(Reached(rec, id)) = Done(rec) + 1
         /\ Left(Reached(rec, id)) = Left(rec) - 1
<1> DEFINE r == Reached(rec, id)
           full == FullPlan(rec)
<1>1. /\ r \in Calls /\ SameCall(r, rec) /\ r.pc = "resolve" /\ r.look = <<>> /\ r.under = 0
      /\ Done(r) = Done(rec) + 1 /\ Done(rec) \in Nat
      /\ \A i \in 1..Done(rec) : r.ids[i] = rec.ids[i]
      /\ r.ids[Done(rec) + 1] = id
      /\ Left(r) = Left(rec) - 1 /\ Left(rec) \in Nat \ {0}
      /\ \A i \in 1..Left(r) : r.plan[i] = rec.plan[i + 1]
  BY ReachedIs DEF Done, Left
<1> HIDE DEF r
<1>2. FullPlan(r) = full /\ Named(r)
  BY <1>1, SamePlan DEF Grounded
<1>3. rec.plan[1] = full[Done(rec) + 1]
  BY GoalsLeft
<1>4. Done(r) + Left(r) = Len(full)
  <2>1. Done(rec) + Left(rec) = Len(full)
    BY DEF Grounded
  <2>2. /\ Done(r) = Done(rec) + 1 /\ Done(rec) \in Nat
        /\ Left(r) = Left(rec) - 1 /\ Left(rec) \in Nat \ {0}
    BY <1>1
  <2> QED BY ONLY <2>1, <2>2
<1>5. ASSUME NEW i \in 1..Left(r) PROVE r.plan[i] = full[Done(r) + i]
  <2>1. i + 1 \in 1..Left(rec) /\ Done(rec) + (i + 1) = Done(r) + i
    <3>1. /\ Done(r) = Done(rec) + 1 /\ Done(rec) \in Nat
          /\ Left(r) = Left(rec) - 1 /\ Left(rec) \in Nat \ {0} /\ i \in 1..Left(r)
      BY <1>1
    <3> QED BY ONLY <3>1
  <2>2. rec.plan[i + 1] = full[Done(rec) + (i + 1)]
    BY <2>1 DEF Grounded
  <2> QED BY <1>1, <2>1, <2>2
<1>6. ASSUME NEW i \in 1..Done(r) PROVE r.ids[i] \in lead[full[i].path]
  <2>1. CASE i = Done(rec) + 1
    BY <1>1, <1>3, <2>1
  <2>2. CASE i # Done(rec) + 1
    <3>1. i \in 1..Done(rec)
      BY <1>1, <2>2
    <3> QED BY <1>1, <3>1 DEF Grounded
  <2> QED BY <2>1, <2>2
<1>7. r.plan # <<>> => Walked(lead, r)
  <2> SUFFICES ASSUME r.plan # <<>> PROVE Walked(lead, r)
    OBVIOUS
  <2>1. Left(r) # 0
    BY <1>1, EmptySeq DEF Calls, Left
  <2>2. 1 \in 1..Left(r)
    BY <1>1, <2>1
  <2>3. r.plan[1] \in Goals
    BY <1>1, <2>2, ElementOfSeq DEF Calls, Left
  <2>4. r.plan[1] = full[Done(r) + 1] /\ Done(r) + 1 \in 1..Len(full)
    <3>1. r.plan[1] = full[Done(r) + 1]
      BY <1>5, <2>2
    <3>2. /\ Done(r) = Done(rec) + 1 /\ Done(rec) \in Nat
          /\ Left(r) = Left(rec) - 1 /\ Left(rec) \in Nat \ {0} /\ 1 \in 1..Left(r)
      BY <1>1, <2>2
    <3>3. Done(r) + 1 \in 1..Len(full)
      BY ONLY <1>4, <3>2
    <3> QED BY <3>1, <3>3
  <2>5. full[Done(r) + 1].kind # "folder" => Done(r) + 1 = 1
    BY <2>4, PlanIs DEF Grounded
  <2>6. r.plan[1].kind = "folder" /\ r.plan[1].path \in Paths
    BY <1>1, <2>3, <2>4, <2>5 DEF Goals
  <2>7. FolderIn(r.plan[1]) \in Seq(Names) /\ Len(FolderIn(r.plan[1])) \in Nat
    BY <2>6, PathsAre DEF FolderIn
  <2>8. Prefix(FolderIn(r.plan[1]), 0) = <<>>
    <3>1. 0 \in 0..Len(FolderIn(r.plan[1])) /\ 0 \in 0..0
      BY <2>7
    <3> QED BY <2>7, <3>1, PrefixOfPrefix
  <2>9. Len(<<>>) = 0
    BY EmptySeq
  <2> QED BY <1>1, <2>7, <2>8, <2>9 DEF Walked
<1>8. Grounded(lead, r)
  BY <1>2, <1>4, <1>5, <1>6, <1>7 DEF Grounded
<1>9. Further(rec, r)
  <2>1. Done(r) = Done(rec) + 1 /\ Done(rec) \in Nat
    BY <1>1
  <2>2. Done(rec) <= Done(r) /\ Done(rec) # Done(r)
    BY ONLY <2>1
  <2> QED BY <1>1, <2>2 DEF Further
<1> QED BY <1>1, <1>8, <1>9 DEF r

\* A search is due: as far on the way as d, at an id that lead allows.
LEMMA SearchGrounded ==
  ASSUME NEW lead, NEW rec \in Calls, Grounded(lead, rec), rec.plan # <<>>,
         NEW d \in Len(rec.look)..Len(FolderIn(rec.plan[1])), NEW u \in Nat, d < Len(rec.plan[1].path),
         d = Len(rec.look) => u = rec.under,
         d # Len(rec.look) => u \in lead[Prefix(FolderIn(rec.plan[1]), d)],
         NEW r, r = Searching(rec, Prefix(FolderIn(rec.plan[1]), d), u)
  PROVE  /\ r \in Calls /\ Grounded(lead, r) /\ Further(rec, r) /\ Looking(r)
         /\ r.pc = "search" /\ r.reply = NoReply
<1> DEFINE folder == FolderIn(rec.plan[1])
           look == Prefix(folder, d)
           q == [rec EXCEPT !.look = look, !.under = u]
<1>1. /\ Done(rec) \in Nat /\ Len(rec.look) \in Nat /\ rec.plan[1] \in Goals
      /\ rec.plan[1].kind # "folder" =>
                   /\ Done(rec) = 0 /\ rec.plan[1].path = rec.path
                   /\ Len(rec.path) > 1 /\ Front(rec.path) \in Paths
  BY GoalsLeft
<1>2. folder \in Paths
  BY <1>1 DEF FolderIn, Goals
<1>3. folder \in Seq(Names) /\ Len(folder) \in Nat
  BY <1>2, PathsAre
<1>4. d \in 0..Len(folder) /\ 0 \in 0..d
  BY <1>1, <1>3
<1>5. look \in Seq(Names) /\ Len(look) = d /\ Prefix(folder, 0) = <<>>
  BY <1>3, <1>4, PrefixIs, PrefixOfPrefix
<1> HIDE DEF look
<1>6. /\ q \in Calls /\ SameCall(q, rec) /\ q.pc = rec.pc /\ q.reply = rec.reply
      /\ q.plan = rec.plan /\ q.look = look /\ q.under = u /\ q.ids = rec.ids
  <2>1. q \in Calls
    BY <1>5 DEF Calls
  <2>2. /\ SameCall(q, rec) /\ q.pc = rec.pc /\ q.reply = rec.reply
        /\ q.plan = rec.plan /\ q.look = look /\ q.under = u /\ q.ids = rec.ids
    BY DEF Calls, SameCall
  <2> QED BY <2>1, <2>2
<1> HIDE DEF q
<1>7. /\ r \in Calls /\ SameCall(r, q) /\ r.pc = "search" /\ r.reply = NoReply
      /\ r.plan = q.plan /\ r.look = q.look /\ r.under = q.under /\ r.ids = q.ids
  <2>1. r = Ask(q, "search")
    BY DEF q, look, Searching
  <2> QED BY <1>6, <2>1, AskIs
<1>8. SameCall(r, rec)
  BY <1>6, <1>7 DEF SameCall
<1>9. FullPlan(r) = FullPlan(rec) /\ (Named(r) <=> Named(rec))
  BY <1>8, SamePlan
<1>10. Walked(lead, r)
  <2>1. Len(r.look) <= Len(FolderIn(r.plan[1])) /\ r.look = Prefix(FolderIn(r.plan[1]), Len(r.look))
    BY <1>4, <1>5, <1>6, <1>7 DEF look
  <2>2. Walked(lead, rec)
    BY DEF Grounded
  <2>3. rec.look = <<>> => Len(rec.look) = 0
    BY EmptySeq
  <2>4. IF r.look = <<>> THEN r.under = 0 ELSE r.under \in lead[r.look]
    <3>1. CASE d = Len(rec.look)
      <4>1. look = rec.look
        BY <2>2, <3>1 DEF Walked, look
      <4> QED BY <1>6, <1>7, <2>2, <3>1, <4>1 DEF Walked
    <3>2. CASE d # Len(rec.look)
      <4>1. look # <<>>
        <5>1. d # 0
          BY <1>1, <1>4, <3>2
        <5> QED BY <1>5, <5>1, EmptySeq
      <4>2. u \in lead[look]
        BY <3>2 DEF look
      <4> QED BY <1>6, <1>7, <4>1, <4>2
    <3> QED BY <3>1, <3>2
  <2> QED BY <2>1, <2>4 DEF Walked
<1>11. Grounded(lead, r)
  <2>1. Done(r) = Done(rec) /\ Left(r) = Left(rec) /\ r.plan = rec.plan /\ r.ids = rec.ids
    BY <1>6, <1>7 DEF Done, Left
  <2> QED BY <1>9, <1>10, <2>1 DEF Grounded
<1>12. Further(rec, r)
  <2>1. Done(r) = Done(rec)
    BY <1>6, <1>7 DEF Done
  <2>2. Done(rec) <= Done(r)
    BY <1>1, <2>1
  <2>3. Len(rec.look) <= Len(r.look) /\ (Len(rec.look) = Len(r.look) => r.under = rec.under)
    BY <1>1, <1>4, <1>5, <1>6, <1>7
  <2> QED BY <1>8, <2>2, <2>3 DEF Further
<1>13. Looking(r)
  BY <1>5, <1>6, <1>7 DEF Looking
<1> QED BY <1>7, <1>11, <1>12, <1>13

\* After k goals, or before: where a call is that had to resolve rec.
Travelled(lead, entries, rec, s, k) ==
  /\ s = [call |-> s.call, memo |-> s.memo] /\ Led(lead, entries, s.memo)
  /\ s.call \in Calls /\ Grounded(lead, s.call) /\ Further(rec, s.call)
  /\ \/ s.call.pc = "resolve" /\ Left(s.call) + k = Left(rec)
     \/ s.call.pc = "search" /\ Looking(s.call) /\ s.call.reply = NoReply

\* One more goal.
LEMMA OnwardIs ==
  ASSUME NEW lead, \A q \in Paths : lead[q] \subseteq Nat,
         NEW entries, NEW rec \in Calls, Grounded(lead, rec),
         NEW k \in Nat, k < Left(rec), NEW s, Travelled(lead, entries, rec, s, k)
  PROVE  Travelled(lead, entries, rec, Onward(s, entries), k + 1)
<1>1. CASE s.call.pc # "resolve"
  <2>1. Onward(s, entries) = s
    BY <1>1 DEF Onward
  <2> QED BY <1>1, <2>1 DEF Travelled
<1>2. CASE s.call.pc = "resolve"
  <2> DEFINE c == s.call
             out == Pursue(s, entries)
  <2>1. Onward(s, entries) = out
    BY <1>2 DEF Onward
  <2>2. /\ s = [call |-> c, memo |-> s.memo] /\ Led(lead, entries, s.memo)
        /\ c \in Calls /\ Grounded(lead, c) /\ Further(rec, c) /\ Left(c) + k = Left(rec)
    BY <1>2 DEF Travelled
  <2>3. /\ Done(c) \in Nat /\ Left(c) \in Nat /\ Len(c.look) \in Nat
        /\ (c.plan = <<>> <=> Left(c) = 0)
        /\ c.plan # <<>> =>
             (c.plan[1].kind # "folder" => c.plan[1].path = c.path /\ Len(c.path) > 1)
    BY <2>2, GoalsLeft
  <2>4. Left(c) # 0 /\ Left(rec) \in Nat
    <3>1. Left(rec) \in Nat
      BY GoalsLeft
    <3> QED BY ONLY <2>2, <2>3, <3>1, k \in Nat, k < Left(rec)
  <2>5. c.plan # <<>> /\ Walked(lead, c)
    BY <2>2, <2>3, <2>4 DEF Grounded
  <2>6. /\ out = [call |-> out.call, memo |-> out.memo]
        /\ out.memo \in Nat /\ (out.memo = 0 \/ out.memo \in lead[<<Root>>])
        /\ \/ \E n \in lead[c.plan[1].path] : out.call = Reached(c, n)
           \/ \E d \in Len(c.look)..Len(FolderIn(c.plan[1])), u \in Nat :
                /\ out.call = Searching(c, Prefix(FolderIn(c.plan[1]), d), u)
                /\ d < Len(c.plan[1].path)
                /\ IF d = Len(c.look) THEN u = c.under ELSE u \in lead[Prefix(FolderIn(c.plan[1]), d)]
    <3>1. c.plan[1].kind # "folder" => Len(c.plan[1].path) > 1
      BY <2>3, <2>5
    <3> QED BY <2>2, <2>5, <3>1, PursueIs
  <2> HIDE DEF out, c
  <2>7. Led(lead, entries, out.memo)
    BY <2>2, <2>6 DEF Led
  <2>8. /\ out.call \in Calls /\ Grounded(lead, out.call) /\ Further(c, out.call)
        /\ \/ out.call.pc = "resolve" /\ Left(out.call) = Left(c) - 1
           \/ out.call.pc = "search" /\ Looking(out.call) /\ out.call.reply = NoReply
    <3>1. CASE \E n \in lead[c.plan[1].path] : out.call = Reached(c, n)
      <4>1. PICK n \in lead[c.plan[1].path] : out.call = Reached(c, n)
        BY <3>1
      <4>2. c.plan[1].path \in Paths
        BY <2>2, <2>5, GoalsLeft DEF Goals
      <4>3. n \in Nat
        BY <4>2
      <4> QED BY <2>2, <2>5, <4>1, <4>3, ReachedGrounded
    <3>2. CASE \E d \in Len(c.look)..Len(FolderIn(c.plan[1])), u \in Nat :
                 /\ out.call = Searching(c, Prefix(FolderIn(c.plan[1]), d), u)
                 /\ d < Len(c.plan[1].path)
                 /\ IF d = Len(c.look) THEN u = c.under ELSE u \in lead[Prefix(FolderIn(c.plan[1]), d)]
      <4>1. PICK d \in Len(c.look)..Len(FolderIn(c.plan[1])), u \in Nat :
                 /\ out.call = Searching(c, Prefix(FolderIn(c.plan[1]), d), u)
                 /\ d < Len(c.plan[1].path)
                 /\ IF d = Len(c.look) THEN u = c.under ELSE u \in lead[Prefix(FolderIn(c.plan[1]), d)]
        BY <3>2
      <4>2. /\ d = Len(c.look) => u = c.under
            /\ d # Len(c.look) => u \in lead[Prefix(FolderIn(c.plan[1]), d)]
        BY <4>1
      <4>3. /\ c \in Calls /\ Grounded(lead, c) /\ c.plan # <<>>
            /\ d \in Len(c.look)..Len(FolderIn(c.plan[1])) /\ u \in Nat /\ d < Len(c.plan[1].path)
            /\ out.call = Searching(c, Prefix(FolderIn(c.plan[1]), d), u)
        BY <2>2, <2>5, <4>1
      <4> QED BY ONLY <4>2, <4>3, SearchGrounded
    <3> QED BY <2>6, <3>1, <3>2
  <2>9. Further(rec, out.call)
    <3>1. Done(rec) \in Nat /\ Len(rec.look) \in Nat
      BY GoalsLeft
    <3>2. Done(out.call) \in Nat /\ Len(out.call.look) \in Nat
      BY <2>8, GoalsLeft
    <3>3. Done(rec) <= Done(c) /\ Done(c) <= Done(out.call)
      BY <2>2, <2>8 DEF Further
    <3>4. Done(rec) <= Done(out.call)
      BY ONLY <2>3, <3>1, <3>2, <3>3
    <3>5. ASSUME Done(rec) = Done(out.call), out.call.plan # <<>>
          PROVE  /\ Len(rec.look) <= Len(out.call.look)
                 /\ Len(rec.look) = Len(out.call.look) => out.call.under = rec.under
      <4>1. Done(rec) = Done(c) /\ Done(c) = Done(out.call)
        BY ONLY <2>3, <3>1, <3>2, <3>3, <3>5
      <4>2. /\ Len(rec.look) <= Len(c.look)
            /\ Len(rec.look) = Len(c.look) => c.under = rec.under
        BY <2>2, <2>5, <4>1 DEF Further
      <4>3. /\ Len(c.look) <= Len(out.call.look)
            /\ Len(c.look) = Len(out.call.look) => out.call.under = c.under
        BY <2>8, <3>5, <4>1 DEF Further
      <4> DEFINE x == Len(rec.look)
                 y == Len(c.look)
                 z == Len(out.call.look)
      <4>4. x \in Nat /\ y \in Nat /\ z \in Nat /\ x <= y /\ y <= z
        BY <2>3, <3>1, <3>2, <4>2, <4>3
      <4> HIDE DEF x, y, z
      <4>5. x <= z /\ (x = z => x = y /\ y = z)
        BY <4>4
      <4> QED BY <4>2, <4>3, <4>5 DEF x, y, z
    <3>6. SameCall(out.call, rec)
      BY <2>2, <2>8 DEF Further, SameCall
    <3> QED BY <3>4, <3>5, <3>6 DEF Further
  <2>10. out.call.pc = "resolve" => Left(out.call) + (k + 1) = Left(rec)
    <3> SUFFICES ASSUME out.call.pc = "resolve" PROVE Left(out.call) + (k + 1) = Left(rec)
      OBVIOUS
    <3>1. Left(out.call) = Left(c) - 1
      BY <2>8
    <3>2. Left(c) + k = Left(rec)
      BY <2>2
    <3> QED BY ONLY <2>3, <2>4, <3>1, <3>2, k \in Nat
  <2> QED BY <2>1, <2>6, <2>7, <2>8, <2>9, <2>10 DEF Travelled
<1> QED BY <1>1, <1>2

\* To the first request, or to the end of the plan.
LEMMA ResolveIs ==
  ASSUME NEW lead, \A q \in Paths : lead[q] \subseteq Nat,
         NEW entries, NEW id, Led(lead, entries, id),
         NEW rec \in Calls, Grounded(lead, rec), rec.pc = "resolve"
  PROVE  LET out == Resolve(rec, entries, id)
         IN  /\ Led(lead, entries, out.memo)
             /\ out.call \in Calls /\ Grounded(lead, out.call) /\ Further(rec, out.call)
             /\ \/ out.call.pc = "resolve" /\ out.call.plan = <<>>
                \/ out.call.pc = "search" /\ Looking(out.call) /\ out.call.reply = NoReply
<1> DEFINE L == Left(rec)
           first == [call |-> rec, memo |-> id]
           Trail(f) == f = [k \in 0..L |-> IF k = 0 THEN first ELSE Onward(f[k - 1], entries)]
           far == CHOOSE f : Trail(f)
           Good == {k \in Nat : k <= L =>
                      \E g : /\ g = [i \in 0..k |-> g[i]] /\ g[0] = first
                             /\ \A i \in 1..k : g[i] = Onward(g[i - 1], entries)}
<1>1. L \in Nat /\ Done(rec) \in Nat /\ Len(rec.look) \in Nat
  BY GoalsLeft
<1>2. Resolve(rec, entries, id) = far[L]
  BY DEF Resolve, Left
<1> HIDE DEF first, L
<1>3. 0 \in Good
  <2> DEFINE h == [i \in 0..0 |-> first]
  <2>1. h = [i \in 0..0 |-> h[i]] /\ h[0] = first /\ \A i \in 1..0 : h[i] = Onward(h[i - 1], entries)
    OBVIOUS
  <2> HIDE DEF h
  <2>2. \E g : g = [i \in 0..0 |-> g[i]] /\ g[0] = first /\ \A i \in 1..0 : g[i] = Onward(g[i - 1], entries)
    BY <2>1, Zenon
  <2> QED BY <2>2
<1>4. ASSUME NEW k \in 0..L, k \in Good, k < L PROVE k + 1 \in Good
  <2>1. PICK g : /\ g = [i \in 0..k |-> g[i]] /\ g[0] = first
                 /\ \A i \in 1..k : g[i] = Onward(g[i - 1], entries)
    BY <1>4
  <2> DEFINE h == [i \in 0..(k + 1) |-> IF i <= k THEN g[i] ELSE Onward(g[i - 1], entries)]
  <2>2. h[0] = first
    BY <1>1, <2>1
  <2>3. ASSUME NEW i \in 1..(k + 1) PROVE h[i] = Onward(h[i - 1], entries)
    <3>1. i \in 0..(k + 1) /\ i - 1 \in 0..(k + 1) /\ i - 1 <= k
      BY <1>1
    <3>2. h[i - 1] = g[i - 1]
      BY <3>1
    <3>3. CASE i <= k
      <4>1. i \in 1..k
        BY <3>3
      <4>2. g[i] = Onward(g[i - 1], entries)
        BY <2>1, <4>1
      <4>3. h[i] = g[i]
        BY <3>1, <3>3
      <4> QED BY <3>2, <4>2, <4>3
    <3>4. CASE ~ (i <= k)
      BY <3>1, <3>2, <3>4
    <3> QED BY <3>3, <3>4
  <2>4. h = [i \in 0..(k + 1) |-> h[i]]
    OBVIOUS
  <2> HIDE DEF h
  <2>5. \E f : /\ f = [i \in 0..(k + 1) |-> f[i]] /\ f[0] = first
               /\ \A i \in 1..(k + 1) : f[i] = Onward(f[i - 1], entries)
    BY <2>2, <2>3, <2>4, Zenon
  <2>6. k + 1 \in Nat
    OBVIOUS
  <2> QED BY <2>5, <2>6, Zenon
<1>5. L \in Good
  <2> HIDE DEF Good
  <2>1. 0..L \subseteq Good
    BY <1>1, <1>3, <1>4, Climb
  <2> QED BY <1>1, <2>1
<1>6. \E f : Trail(f)
  <2>1. PICK g : /\ g = [i \in 0..L |-> g[i]] /\ g[0] = first
                 /\ \A i \in 1..L : g[i] = Onward(g[i - 1], entries)
    BY <1>1, <1>5
  <2>2. \A i \in 0..L : g[i] = IF i = 0 THEN first ELSE Onward(g[i - 1], entries)
    BY <1>1, <2>1
  <2>3. g = [i \in 0..L |-> IF i = 0 THEN first ELSE Onward(g[i - 1], entries)]
    BY <2>1, <2>2
  <2> QED BY <2>3
<1>7. Trail(far)
  BY <1>6
<1> HIDE DEF far, Good
<1>8. \A k \in 0..L : far[k] = IF k = 0 THEN first ELSE Onward(far[k - 1], entries)
  BY <1>7, Zenon
<1> DEFINE Fine == {k \in Nat : k <= L => Travelled(lead, entries, rec, far[k], k)}
<1>9. 0 \in Fine
  <2>1. far[0] = first
    BY <1>1, <1>8
  <2>2. first = [call |-> rec, memo |-> id] /\ first.call = rec /\ first.memo = id
    BY DEF first
  <2>3. Further(rec, rec)
    BY <1>1 DEF Further, SameCall
  <2>4. Left(rec) + 0 = Left(rec)
    BY <1>1 DEF L
  <2> QED BY <2>1, <2>2, <2>3, <2>4 DEF Travelled
<1>10. ASSUME NEW k \in 0..L, k \in Fine, k < L PROVE k + 1 \in Fine
  <2>1. Travelled(lead, entries, rec, far[k], k) /\ k \in Nat /\ k < Left(rec)
    BY <1>1, <1>10 DEF L
  <2>2. far[k + 1] = Onward(far[k], entries)
    BY <1>1, <1>8, <1>10
  <2> HIDE DEF Fine
  <2>3. Travelled(lead, entries, rec, Onward(far[k], entries), k + 1)
    BY <2>1, OnwardIs
  <2> QED BY <2>1, <2>2, <2>3 DEF Fine
<1>11. Travelled(lead, entries, rec, far[L], L)
  <2>1. 0..L \subseteq Fine
    <3> HIDE DEF Fine
    <3> QED BY <1>1, <1>9, <1>10, Climb
  <2> QED BY <1>1, <2>1
<1> DEFINE out == Resolve(rec, entries, id)
<1>12. Travelled(lead, entries, rec, out, L)
  BY <1>2, <1>11
<1> HIDE DEF out
<1>13. ASSUME out.call.pc = "resolve" PROVE out.call.plan = <<>>
  <2>1. out.call \in Calls /\ Grounded(lead, out.call) /\ Left(out.call) + L = L
    BY <1>12, <1>13 DEF Travelled, L
  <2>2. Left(out.call) \in Nat /\ (out.call.plan = <<>> <=> Left(out.call) = 0)
    BY <2>1, GoalsLeft
  <2>3. Left(out.call) = 0
    BY ONLY <1>1, <2>1, <2>2
  <2> QED BY <2>2, <2>3
<1> QED BY <1>12, <1>13 DEF Travelled, out

-----------------------------------------------------------------------------
(* The inductive invariant.  A call that is alone, and every call as long  *)
(* as nothing was removed or moved, knows only ids to which its paths lead,*)
(* and so does the cache.                                                  *)

\* The nodes of each path, and all nodes, as what a call may know of its paths.
Leads(ns) == [q \in Paths |-> Lead(ns, q)]
Everywhere(ns) == [q \in Paths |-> 1..Len(ns)]

\* A call that waits for an answer, and one that takes something away.
Active(rec) == rec.pc \in {"search", "create", "act"}
Killing(rec) == rec.op \in {"delete", "trash", "move"}

\* Its deletion or its move took effect, and the call does not know yet.
Struck(rec) == rec.pc = "act" /\ rec.reply.status = "ok" /\ Killing(rec)

\* A download that asks for a file that is gone, for which it heals.
Lost(ns, rec) ==
  rec.op = "download" /\ ~rec.healed /\ rec.pc = "act" /\ ns[rec.ids[1]].state = "gone"

\* What every call keeps to, whoever else changes the Drive.
Shape(ns, removed, rec) ==
  /\ rec.pc # "resolve"
  /\ rec.pc # "idle" => Named(rec)
  /\ rec.pc = "idle" => ~rec.alone
  /\ rec.pc \in {"idle", "done"} => rec.reply = NoReply
  /\ Active(rec) => Grounded(Everywhere(ns), rec)
  /\ rec.pc \in {"search", "create"} => Looking(rec)
  /\ rec.pc = "create" => SeeksFolder(rec)
  /\ rec.pc = "act" => rec.plan = <<>> /\ rec.op # "exists"
  /\ rec.pc = "act" /\ rec.reply.status = "ok" => \E x \in 1..Len(ns) : rec.reply.ids = {x}
  /\ rec.reply.ids \subseteq 1..Len(ns)
  /\ rec.reply.status # "ok" => rec.reply.ids = {}
  /\ Killing(rec) /\ (Struck(rec) \/ (rec.pc = "done" /\ rec.result = "ok")) => removed

\* What a request of the adapter did, once it is answered.
Effect(ns, rec) ==
  /\ rec.op \in {"upload", "copy"} => rec.reply.ids \subseteq Lead(ns, rec.to)
  /\ rec.op \in {"download", "read", "createFolder"} => rec.reply.ids \subseteq Lead(ns, rec.path)
  /\ rec.op \in {"delete", "trash"} => Lead(ns, rec.path) = {}
  /\ rec.op = "move" => rec.reply.ids = {rec.ids[1]} /\ rec.ids[1] \in Lead(ns, rec.to)

\* All that a call knows of ids is right.
Sound(ns, rec) ==
  /\ Struck(rec) \/ Lost(ns, rec) \/ Grounded(Leads(ns), rec)
  /\ rec.pc \in {"search", "create"} /\ rec.reply.status = "ok" => rec.reply.ids \subseteq Lead(ns, Sought(rec))
  /\ rec.pc = "act" /\ rec.reply.status = "ok" => Effect(ns, rec)

\* A call that looks for a file finds it if it is there: only a folder on the
\* way that it created itself may share its path, with a file.
Deep(rec) ==
  IF rec.pc = "create" /\ rec.reply.status = "ok" THEN Len(rec.look) + 1 ELSE Len(rec.look)

Clear(ns, rec) ==
  /\ \A q \in Paths : Sole(ns, q) /\ (Len(q) > Deep(rec) => Unique(ns, q))
  /\ rec.look # <<>> => ns[rec.under].folder \/ Unique(ns, rec.look)
  /\ rec.pc = "search" /\ rec.reply.status = "ok" =>
       rec.reply.ids = Hits(ns, rec.under, Name(Sought(rec)), SeeksFolder(rec))
  /\ rec.pc = "create" => IF rec.reply.status = "ok" THEN \A n \in rec.reply.ids : ns[n].folder
                          ELSE \A n \in Lead(ns, Sought(rec)) : ~ns[n].folder

\* What a call that is alone may conclude from finding nothing.
Sharp(ns, rec) ==
  /\ rec.pc \in {"search", "create"} /\ rec.plan[1].kind # "folder" =>
       Lead(ns, rec.path) = {} \/ Clear(ns, rec)
  /\ Lost(ns, rec) => rec.reply.status # "ok" /\ \A q \in Paths : Sole(ns, q) /\ Unique(ns, q)
  /\ rec.pc = "act" /\ rec.op \in {"delete", "trash"} /\ rec.reply.status # "ok" => Unique(ns, rec.path)
  /\ rec.reply.status = "missing" => Lost(ns, rec)

\* What the result of a call claims.
Truth(ns, rec) ==
  LET found == ToSet(rec.ids) IN
  /\ rec.result = "missing" => Lead(ns, rec.path) = {}
  /\ rec.result = "ok" =>
       /\ rec.op \in {"upload", "copy", "createFolder"} => found # {} /\ found \subseteq Lead(ns, rec.to)
       /\ rec.op \in {"delete", "trash"} => Lead(ns, rec.path) = {}
       /\ rec.op = "move" => found \subseteq Lead(ns, rec.to) /\ (rec.path # rec.to => found \cap Lead(ns, rec.path) = {})
       /\ rec.op \in {"download", "exists", "read"} => found # {} /\ found \subseteq Lead(ns, rec.path)

\* RightEntry, for any nodes and cache.
Right(ns, entries, q) == entries[q] = 0 \/ entries[q] \in Lead(ns, q)

\* A call that is alone, and the cache beside it.
AloneInv(ns, entries, id, rec) ==
  /\ Active(rec) => Sound(ns, rec) /\ Sharp(ns, rec)
  /\ Active(rec) /\ ~Struck(rec) =>
       \/ Led(Leads(ns), entries, id)
       \/ Lost(ns, rec) /\ Led(Leads(ns), [entries EXCEPT ![rec.path] = 0], id)
  /\ Struck(rec) => \A q \in Paths : Right(ns, entries, q) \/ IsPrefix(rec.path, q)
  /\ rec.pc = "done" => Truth(ns, rec)
  /\ rec.pc = "done" /\ rec.result # "error" =>
       \A q \in Paths : Right(ns, entries, q) \/ (Killing(rec) /\ IsStrictPrefix(rec.path, q))

\* The cache, and a call, as long as nothing was removed or moved.
Calm(ns, entries, id) ==
  Led(Leads(ns), entries, id) /\ \A n \in 1..Len(ns) : ns[n].state = "live"

CalmCall(ns, rec) ==
  /\ Active(rec) => Sound(ns, rec)
  /\ rec.pc = "done" /\ rec.result = "ok" => Truth(ns, rec)

\* The inductive invariant.
IInv ==
  /\ Kin(nodes) /\ Led(Everywhere(nodes), cache, memo) /\ moved \in BOOLEAN
  /\ call \in [Caller -> Calls]
  /\ \A c \in Caller : /\ Shape(nodes, moved, call[c])
                       /\ call[c].alone => AloneInv(nodes, cache, memo, call[c])
                       /\ ~moved => CalmCall(nodes, call[c])
  /\ ~moved => Calm(nodes, cache, memo)

\* What the ids are taken from.
LEMMA LeadsAre ==
  ASSUME NEW ns, Kin(ns)
  PROVE  /\ Len(ns) \in Nat
         /\ \A q \in Paths : /\ Leads(ns)[q] = Lead(ns, q) /\ Leads(ns)[q] \subseteq Nat
                             /\ Lead(ns, q) \subseteq 1..Len(ns)
                             /\ Everywhere(ns)[q] = 1..Len(ns) /\ Everywhere(ns)[q] \subseteq Nat
                             /\ Leads(ns)[q] \subseteq Everywhere(ns)[q]
                             /\ \A n \in Lead(ns, q) : ns[n].state = "live"
<1>1. Len(ns) \in Nat
  BY LenProperties DEF Kin
<1>2. ASSUME NEW q \in Paths
      PROVE  Lead(ns, q) \subseteq 1..Len(ns) /\ \A n \in Lead(ns, q) : ns[n].state = "live"
  <2>1. q \in Seq(Names) /\ q # <<>>
    BY PathsAre
  <2> QED BY <2>1, LeadIs
<1> QED BY <1>1, <1>2 DEF Leads, Everywhere

\* The path that is on the way to a goal.
LEMMA LookIs ==
  ASSUME NEW lead, NEW rec \in Calls, Grounded(lead, rec), rec.plan # <<>>
  PROVE  /\ FolderIn(rec.plan[1]) \in Paths /\ rec.plan[1].path \in Paths
         /\ Len(rec.look) \in Nat /\ Len(rec.look) <= Len(FolderIn(rec.plan[1]))
         /\ rec.look = Prefix(FolderIn(rec.plan[1]), Len(rec.look))
         /\ rec.look # <<>> => rec.look \in Paths
         /\ rec.look = <<>> <=> Len(rec.look) = 0
         /\ IF rec.plan[1].kind = "folder" THEN FolderIn(rec.plan[1]) = rec.plan[1].path
            ELSE /\ FolderIn(rec.plan[1]) = Front(rec.plan[1].path)
                 /\ Len(FolderIn(rec.plan[1])) = Len(rec.plan[1].path) - 1
<1> DEFINE folder == FolderIn(rec.plan[1])
<1>1. /\ Len(rec.look) \in Nat /\ rec.plan[1] \in Goals
      /\ rec.plan[1].kind # "folder" => rec.plan[1].path = rec.path /\ Len(rec.path) > 1 /\ Front(rec.path) \in Paths
  BY GoalsLeft
<1>2. folder \in Paths /\ rec.plan[1].path \in Paths
  BY <1>1 DEF FolderIn, Goals
<1>3. Walked(lead, rec)
  BY DEF Grounded
<1>4. Len(rec.look) <= Len(folder) /\ rec.look = Prefix(folder, Len(rec.look))
  BY <1>3 DEF Walked
<1>5. rec.look = <<>> <=> Len(rec.look) = 0
  <2>1. rec.look \in Seq(Names)
    BY DEF Calls
  <2> QED BY <2>1, EmptySeq
<1>6. ASSUME rec.look # <<>> PROVE rec.look \in Paths
  <2>1. Len(rec.look) # 0 /\ Len(folder) \in Nat
    BY <1>2, <1>5, <1>6, PathsAre
  <2> DEFINE k == Len(rec.look)
  <2>2. k \in 1..Len(folder) /\ rec.look = Prefix(folder, k)
    BY <1>1, <1>4, <2>1
  <2> HIDE DEF k
  <2>3. Prefix(folder, k) \in Paths
    BY <1>2, <2>2, PathsAbove
  <2> QED BY <2>2, <2>3
<1>7. IF rec.plan[1].kind = "folder" THEN folder = rec.plan[1].path
      ELSE folder = Front(rec.plan[1].path) /\ Len(folder) = Len(rec.plan[1].path) - 1
  <2>1. rec.plan[1].path \in Seq(Names) /\ rec.plan[1].path # <<>>
    BY <1>2, PathsAre
  <2>2. Len(Front(rec.plan[1].path)) = Len(rec.plan[1].path) - 1
    BY <2>1, FrontIs
  <2> QED BY <2>2 DEF FolderIn
<1> QED BY <1>1, <1>2, <1>4, <1>5, <1>6, <1>7

\* Where more is allowed, what was right stays right.
LEMMA GroundedMore ==
  ASSUME NEW lead, NEW more, \A q \in Paths : lead[q] \subseteq more[q]
  PROVE  /\ \A rec \in Calls : Grounded(lead, rec) => Grounded(more, rec)
         /\ \A entries, id : Led(lead, entries, id) => Led(more, entries, id)
<1>1. ASSUME NEW rec \in Calls, Grounded(lead, rec) PROVE Grounded(more, rec)
  <2>1. Named(rec)
    BY <1>1 DEF Grounded
  <2>2. /\ Done(rec) \in Nat /\ Left(rec) \in Nat /\ Len(FullPlan(rec)) \in Nat
        /\ Done(rec) + Left(rec) = Len(FullPlan(rec))
    <3>1. Done(rec) \in Nat /\ Left(rec) \in Nat
      BY <1>1, GoalsLeft
    <3>2. Len(FullPlan(rec)) \in Nat
      <4>1. Len(FullPlan(rec)) \in 1..3
        BY <2>1, PlanIs
      <4> QED BY ONLY <4>1
    <3>3. Done(rec) + Left(rec) = Len(FullPlan(rec))
      BY <1>1 DEF Grounded
    <3> QED BY <3>1, <3>2, <3>3
  <2>3. \A i \in 1..Done(rec) : i \in 1..Len(FullPlan(rec))
    BY ONLY <2>2
  <2>4. ASSUME NEW i \in 1..Done(rec) PROVE rec.ids[i] \in more[FullPlan(rec)[i].path]
    <3>1. FullPlan(rec)[i].path \in Paths
      BY <2>1, <2>3, PlanIs DEF Goals
    <3>2. rec.ids[i] \in lead[FullPlan(rec)[i].path]
      BY <1>1 DEF Grounded
    <3> QED BY <3>1, <3>2
  <2>5. rec.plan # <<>> => Walked(more, rec)
    <3> SUFFICES ASSUME rec.plan # <<>> PROVE Walked(more, rec)
      OBVIOUS
    <3>1. Walked(lead, rec) /\ (rec.look # <<>> => rec.look \in Paths)
      BY <1>1, LookIs DEF Grounded
    <3> QED BY <3>1 DEF Walked
  <2> QED BY <1>1, <2>4, <2>5 DEF Grounded
<1>2. ASSUME NEW entries, NEW id, Led(lead, entries, id) PROVE Led(more, entries, id)
  <2>1. <<Root>> \in Paths
    BY PathsAssumption
  <2> QED BY <1>2, <2>1 DEF Led
<1> QED BY <1>1, <1>2

-----------------------------------------------------------------------------
(* The calls that a step is not about.                                     *)

\* Calls that go the same way; what was answered may differ.
SameWay(r, rec) ==
  /\ r.op = rec.op /\ r.path = rec.path /\ r.to = rec.to /\ r.healed = rec.healed
  /\ r.plan = rec.plan /\ r.look = rec.look /\ r.under = rec.under /\ r.ids = rec.ids

\* A call after a step of somebody else.
Muted(rec) == [rec EXCEPT !.alone = FALSE]

\* What does not depend on the answer.
LEMMA SameWayIs ==
  ASSUME NEW rec, NEW r, SameWay(r, rec)
  PROVE  /\ FullPlan(r) = FullPlan(rec) /\ (Named(r) <=> Named(rec)) /\ (Killing(r) <=> Killing(rec))
         /\ Done(r) = Done(rec) /\ Left(r) = Left(rec)
         /\ \A lead : Walked(lead, r) <=> Walked(lead, rec)
         /\ \A lead : Grounded(lead, r) <=> Grounded(lead, rec)
         /\ Looking(r) <=> Looking(rec)
         /\ Sought(r) = Sought(rec) /\ (SeeksFolder(r) <=> SeeksFolder(rec))
<1>1. FullPlan(r) = FullPlan(rec) /\ (Named(r) <=> Named(rec))
  BY DEF SameWay, FullPlan, Named
<1>2. Done(r) = Done(rec) /\ Left(r) = Left(rec) /\ (Killing(r) <=> Killing(rec))
  BY DEF SameWay, Done, Left, Killing
<1>3. ASSUME NEW lead PROVE Walked(lead, r) <=> Walked(lead, rec)
  BY DEF SameWay, Walked
<1>4. ASSUME NEW lead PROVE Grounded(lead, r) <=> Grounded(lead, rec)
  <2>1. r.plan = rec.plan /\ r.ids = rec.ids
    BY DEF SameWay
  <2> QED BY <1>1, <1>2, <1>3, <2>1 DEF Grounded
<1>5. Looking(r) <=> Looking(rec)
  BY DEF SameWay, Looking
<1>6. Sought(r) = Sought(rec) /\ (SeeksFolder(r) <=> SeeksFolder(rec))
  BY DEF SameWay, Sought, SeeksFolder
<1> QED BY <1>1, <1>2, <1>3, <1>4, <1>5, <1>6

\* A call that no longer has the Drive to itself.
LEMMA MutedIs ==
  ASSUME NEW rec \in Calls
  PROVE  LET r == Muted(rec)
         IN  /\ r \in Calls /\ SameWay(r, rec) /\ ~r.alone
             /\ r.pc = rec.pc /\ r.reply = rec.reply /\ r.result = rec.result
<1>1. Muted(rec) \in Calls
  <2>1. [rec EXCEPT !.alone = FALSE] \in Calls
    BY DEF Calls
  <2> QED BY <2>1 DEF Muted
<1>2. /\ SameWay(Muted(rec), rec) /\ ~Muted(rec).alone
      /\ Muted(rec).pc = rec.pc /\ Muted(rec).reply = rec.reply /\ Muted(rec).result = rec.result
  BY DEF Muted, SameWay, Calls
<1> QED BY <1>1, <1>2

\* A call that acts on what it resolved: the ids are those of its plan.
LEMMA ActingIs ==
  ASSUME NEW lead, NEW rec \in Calls, Grounded(lead, rec), rec.plan = <<>>
  PROVE  /\ rec.op = "upload" => rec.ids[1] \in lead[FolderOf(rec.to).path]
         /\ rec.op \in {"copy", "move", "download", "read", "delete", "trash", "createFolder", "exists"} =>
              rec.ids[1] \in lead[rec.path]
         /\ rec.op = "copy" => rec.ids[2] \in lead[FolderOf(rec.to).path]
         /\ rec.op = "move" => rec.ids[3] \in lead[FolderOf(rec.to).path]
         /\ FolderOf(rec.to).path = Front(rec.to) /\ Front(rec.to) \in Paths
<1>1. Named(rec) /\ rec.path \in Paths /\ rec.to \in Paths /\ Len(rec.to) > 1
  BY DEF Grounded, Named, Calls
<1>2. FolderOf(rec.to).path = Front(rec.to) /\ Front(rec.to) \in Paths
  BY <1>1, PathsAssumption DEF FolderOf, Goal
<1>3. Done(rec) = Len(FullPlan(rec))
  <2>1. Done(rec) \in Nat /\ Left(rec) = 0
    BY GoalsLeft
  <2>2. Done(rec) + Left(rec) = Len(FullPlan(rec))
    BY DEF Grounded
  <2> QED BY ONLY <2>1, <2>2
<1>4. \A i \in 1..Len(FullPlan(rec)) : rec.ids[i] \in lead[FullPlan(rec)[i].path]
  BY <1>3 DEF Grounded
<1>5. rec.healed => rec.op = "download"
  BY <1>1 DEF Named
<1>6. CASE rec.op = "upload"
  <2>1. FullPlan(rec) = <<FolderOf(rec.path)>> /\ rec.path = rec.to
    BY <1>1, <1>5, <1>6 DEF FullPlan, Plan, Named
  <2>2. Len(FullPlan(rec)) = 1 /\ FullPlan(rec)[1] = FolderOf(rec.to) /\ 1 \in 1..1
    BY <2>1
  <2>3. rec.ids[1] \in lead[FolderOf(rec.to).path]
    BY <1>4, <2>2
  <2> QED BY <1>2, <1>6, <2>3
<1>7. CASE rec.op = "copy"
  <2>1. FullPlan(rec) = <<Goal("file", rec.path), FolderOf(rec.to)>>
    BY <1>5, <1>7 DEF FullPlan, Plan
  <2>2. /\ Len(FullPlan(rec)) = 2 /\ 1 \in 1..2 /\ 2 \in 1..2
        /\ FullPlan(rec)[1] = Goal("file", rec.path) /\ FullPlan(rec)[2] = FolderOf(rec.to)
    BY <2>1
  <2>3. rec.ids[1] \in lead[Goal("file", rec.path).path] /\ rec.ids[2] \in lead[FolderOf(rec.to).path]
    BY <1>4, <2>2
  <2> QED BY <1>2, <1>7, <2>3 DEF Goal
<1>8. CASE rec.op = "move"
  <2>1. FullPlan(rec) = <<Goal("file", rec.path), FolderOf(rec.path), FolderOf(rec.to)>>
    BY <1>5, <1>8 DEF FullPlan, Plan
  <2>2. /\ Len(FullPlan(rec)) = 3 /\ 1 \in 1..3 /\ 3 \in 1..3
        /\ FullPlan(rec)[1] = Goal("file", rec.path) /\ FullPlan(rec)[3] = FolderOf(rec.to)
    BY <2>1
  <2>3. rec.ids[1] \in lead[Goal("file", rec.path).path] /\ rec.ids[3] \in lead[FolderOf(rec.to).path]
    BY <1>4, <2>2
  <2> QED BY <1>2, <1>8, <2>3 DEF Goal
<1>9. CASE rec.op \in {"download", "read", "delete", "trash", "createFolder", "exists"}
  <2>1. \E kind \in {"file", "fresh", "folder"} : FullPlan(rec) = <<Goal(kind, rec.path)>>
    BY <1>9 DEF FullPlan, Plan
  <2>2. PICK kind \in {"file", "fresh", "folder"} : FullPlan(rec) = <<Goal(kind, rec.path)>>
    BY <2>1
  <2>3. Len(FullPlan(rec)) = 1 /\ FullPlan(rec)[1] = Goal(kind, rec.path) /\ 1 \in 1..1
    BY <2>2
  <2>4. rec.ids[1] \in lead[Goal(kind, rec.path).path]
    BY <1>4, <2>3
  <2> QED BY <1>2, <1>9, <2>4 DEF Goal
<1>10. rec.op \in Ops
  BY DEF Calls
<1> QED BY <1>2, <1>6, <1>7, <1>8, <1>9, <1>10 DEF Ops

\* As long as nothing was removed, no call lost or removed anything.
LEMMA CalmIs ==
  ASSUME NEW ns, Kin(ns), \A n \in 1..Len(ns) : ns[n].state = "live",
         NEW rec \in Calls, Shape(ns, FALSE, rec)
  PROVE  ~Struck(rec) /\ ~Lost(ns, rec)
<1>1. ~Struck(rec)
  BY DEF Shape, Struck
<1>2. ASSUME Lost(ns, rec) PROVE FALSE
  <2>1. rec.op = "download" /\ rec.pc = "act" /\ rec.plan = <<>> /\ Grounded(Everywhere(ns), rec)
    BY <1>2 DEF Lost, Shape, Active
  <2>2. rec.ids[1] \in Everywhere(ns)[rec.path] /\ rec.path \in Paths
    BY <2>1, ActingIs DEF Calls
  <2>3. rec.ids[1] \in 1..Len(ns)
    BY <2>2, LeadsAre
  <2> QED BY <1>2, <2>3 DEF Lost
<1> QED BY <1>1, <1>2

\* Where a search or a creation is about to look.
LEMMA SoughtIs ==
  ASSUME NEW lead, NEW rec \in Calls, Grounded(lead, rec), Looking(rec)
  PROVE  LET goal == rec.plan[1]
         IN  /\ goal \in Goals /\ goal.path \in Paths /\ FolderIn(goal) \in Paths
             /\ Len(rec.look) \in Nat /\ Len(rec.look) + 1 \in 1..Len(goal.path) /\ Len(goal.path) \in Nat
             /\ Sought(rec) \in Paths /\ Sought(rec) # <<>> /\ Sought(rec) \in Seq(Names)
             /\ Len(Sought(rec)) = Len(rec.look) + 1
             /\ Front(Sought(rec)) = rec.look /\ rec.look \in Seq(Names)
             /\ IF rec.look = <<>> THEN rec.under = 0 ELSE rec.look \in Paths /\ rec.under \in lead[rec.look]
             /\ SeeksFolder(rec) => Sought(rec) = Prefix(FolderIn(goal), Len(rec.look) + 1) /\ Len(rec.look) < Len(FolderIn(goal))
             /\ ~SeeksFolder(rec) => goal.kind # "folder" /\ Sought(rec) = goal.path /\ goal.path = rec.path
                                     /\ Len(rec.look) > 0
<1> DEFINE goal == rec.plan[1]
           folder == FolderIn(goal)
           k == Len(rec.look)
<1>1. rec.plan # <<>> /\ k < Len(goal.path)
  BY DEF Looking
<1>2. /\ k \in Nat /\ goal \in Goals
      /\ goal.kind # "folder" => goal.path = rec.path /\ Len(rec.path) > 1
  BY <1>1, GoalsLeft
<1>3. /\ folder \in Paths /\ goal.path \in Paths /\ k <= Len(folder)
      /\ rec.look = Prefix(folder, k) /\ (rec.look # <<>> => rec.look \in Paths)
      /\ (rec.look = <<>> <=> k = 0)
      /\ IF goal.kind = "folder" THEN folder = goal.path
         ELSE folder = Front(goal.path) /\ Len(folder) = Len(goal.path) - 1
  BY <1>1, LookIs
<1>4. Walked(lead, rec)
  BY <1>1 DEF Grounded
<1>5. /\ goal.path \in Seq(Names) /\ goal.path # <<>> /\ Len(goal.path) \in Nat \ {0}
      /\ folder \in Seq(Names) /\ Len(folder) \in Nat \ {0}
  BY <1>3, PathsAre
<1>6. rec.look \in Seq(Names)
  BY DEF Calls
<1>7. Sought(rec) = Prefix(goal.path, k + 1)
  BY DEF Sought
<1> HIDE DEF goal, k
<1>8. k + 1 \in 1..Len(goal.path) /\ k + 1 > 0 /\ (k + 1) - 1 = k
  BY <1>1, <1>2, <1>5
<1>9. Sought(rec) \in Paths /\ Len(Sought(rec)) = k + 1 /\ Sought(rec) # <<>>
  BY <1>3, <1>7, <1>8, PathsAbove
<1>10. Sought(rec) \in Seq(Names)
  BY <1>9, PathsAre
<1>11. Prefix(folder, k) = Prefix(goal.path, k)
  <2>1. CASE goal.kind = "folder"
    BY <1>3, <2>1
  <2>2. CASE goal.kind # "folder"
    <3>1. folder = Prefix(goal.path, Len(goal.path) - 1)
      BY <1>3, <1>5, <2>2, FrontIs
    <3>2. Len(goal.path) - 1 \in 0..Len(goal.path) /\ k \in 0..(Len(goal.path) - 1)
      BY <1>2, <1>3, <1>5, <2>2
    <3>3. Prefix(Prefix(goal.path, Len(goal.path) - 1), k) = Prefix(goal.path, k)
      BY <1>5, <3>2, PrefixOfPrefix
    <3> QED BY <3>1, <3>3
  <2> QED BY <2>1, <2>2
<1>12. Front(Sought(rec)) = rec.look
  <2>1. k + 1 \in 0..Len(goal.path) /\ 0 \in 0..(k + 1)
    BY <1>2, <1>8
  <2>2. Front(Prefix(goal.path, k + 1)) = Prefix(goal.path, (k + 1) - 1)
    BY <1>5, <1>8, <2>1, PrefixOfPrefix
  <2> QED BY <1>3, <1>7, <1>8, <1>11, <2>2
<1>13. IF rec.look = <<>> THEN rec.under = 0 ELSE rec.look \in Paths /\ rec.under \in lead[rec.look]
  BY <1>3, <1>4 DEF Walked
<1>14. ASSUME SeeksFolder(rec)
       PROVE  Sought(rec) = Prefix(folder, k + 1) /\ k < Len(folder)
  <2>1. CASE goal.kind = "folder"
    BY <1>1, <1>3, <1>7, <2>1
  <2>2. CASE goal.kind # "folder"
    <3>1. Sought(rec) # goal.path
      BY <1>14, <2>2 DEF SeeksFolder, goal
    <3>2. k + 1 # Len(goal.path)
      <4>1. Len(goal.path) \in 0..Len(goal.path) /\ 0 \in 0..Len(goal.path)
        BY <1>5
      <4>2. Prefix(goal.path, Len(goal.path)) = goal.path
        BY <1>5, <4>1, PrefixOfPrefix
      <4> QED BY <1>7, <3>1, <4>2
    <3>3. Len(folder) = Len(goal.path) - 1
      BY <1>3, <2>2
    <3>4. k < Len(folder) /\ k + 1 \in 0..Len(folder) /\ Len(goal.path) - 1 \in 0..Len(goal.path)
      BY <1>2, <1>5, <1>8, <3>2, <3>3
    <3>5. folder = Prefix(goal.path, Len(goal.path) - 1)
      BY <1>3, <1>5, <2>2, FrontIs
    <3>6. Prefix(Prefix(goal.path, Len(goal.path) - 1), k + 1) = Prefix(goal.path, k + 1)
      <4>1. k + 1 \in 0..(Len(goal.path) - 1)
        BY <3>3, <3>4
      <4> QED BY <1>5, <3>4, <4>1, PrefixOfPrefix
    <3> QED BY <1>7, <3>4, <3>5, <3>6
  <2> QED BY <2>1, <2>2
<1>15. ASSUME ~SeeksFolder(rec)
       PROVE  goal.kind # "folder" /\ Sought(rec) = goal.path /\ goal.path = rec.path /\ k > 0
  <2>1. goal.kind # "folder" /\ Sought(rec) = goal.path
    BY <1>15 DEF SeeksFolder, goal
  <2>2. Len(goal.path) > 1 /\ Len(goal.path) = k + 1
    BY <1>2, <1>9, <2>1
  <2>3. k > 0
    BY <1>2, <2>2
  <2> QED BY <1>2, <2>1, <2>3
<1> QED BY <1>1, <1>2, <1>3, <1>6, <1>8, <1>9, <1>10, <1>12, <1>13, <1>14, <1>15, <1>5 DEF goal, k

\* Such a call keeps its shape, whatever happens to the Drive.
LEMMA ShapeKept ==
  ASSUME NEW ns, NEW ms, Kin(ns), Kin(ms), Len(ns) <= Len(ms), NEW removed, NEW gone, removed => gone,
         NEW rec \in Calls, Shape(ns, removed, rec),
         NEW r \in Calls, SameWay(r, rec), ~r.alone, r.pc = rec.pc, r.reply = rec.reply, r.result = rec.result
  PROVE  Shape(ms, gone, r)
<1>1. /\ Named(r) <=> Named(rec)
      /\ \A lead : Grounded(lead, r) <=> Grounded(lead, rec)
      /\ Looking(r) <=> Looking(rec)
      /\ SeeksFolder(r) <=> SeeksFolder(rec)
      /\ Killing(r) <=> Killing(rec)
  BY SameWayIs, Zenon
<1>2. r.op = rec.op /\ r.plan = rec.plan
  BY DEF SameWay
<1>3. (Active(r) <=> Active(rec)) /\ (Struck(r) <=> Struck(rec))
  BY <1>1 DEF Active, Struck
<1>4. 1..Len(ns) \subseteq 1..Len(ms)
  <2>1. Len(ns) \in Nat /\ Len(ms) \in Nat
    BY LeadsAre
  <2> QED BY <2>1
<1>5. Grounded(Everywhere(ns), rec) => Grounded(Everywhere(ms), rec)
  <2>1. \A q \in Paths : Everywhere(ns)[q] \subseteq Everywhere(ms)[q]
    BY <1>4 DEF Everywhere
  <2> QED BY <2>1, GroundedMore
<1>6. Active(r) => Grounded(Everywhere(ms), r)
  BY <1>1, <1>3, <1>5 DEF Shape
<1>7. r.pc = "act" /\ r.reply.status = "ok" => \E x \in 1..Len(ms) : r.reply.ids = {x}
  BY <1>4 DEF Shape
<1> QED BY <1>1, <1>2, <1>3, <1>4, <1>6, <1>7 DEF Shape

\* What is right stays right where paths only lead to more.
LEMMA CalmKept ==
  ASSUME NEW ns, NEW ms, Kin(ns), Kin(ms), \A n \in 1..Len(ns) : ns[n].state = "live",
         \A q \in Paths : Lead(ns, q) \subseteq Lead(ms, q),
         NEW rec \in Calls, Shape(ns, FALSE, rec), CalmCall(ns, rec),
         NEW r \in Calls, SameWay(r, rec), r.pc = rec.pc, r.reply = rec.reply, r.result = rec.result
  PROVE  CalmCall(ms, r)
<1>1. ~Struck(rec) /\ ~Lost(ns, rec)
  BY CalmIs
<1>2. /\ \A lead : Grounded(lead, r) <=> Grounded(lead, rec)
      /\ Sought(r) = Sought(rec) /\ (SeeksFolder(r) <=> SeeksFolder(rec))
      /\ (Killing(r) <=> Killing(rec)) /\ (Looking(r) <=> Looking(rec))
  BY SameWayIs, Zenon
<1>3. /\ r.op = rec.op /\ r.path = rec.path /\ r.to = rec.to /\ r.ids = rec.ids
      /\ rec.path \in Paths /\ rec.to \in Paths
  BY DEF SameWay, Calls
<1>4. Active(r) <=> Active(rec)
  BY DEF Active
<1>5. ASSUME Active(r) PROVE Sound(ms, r)
  <2>1. Sound(ns, rec)
    BY <1>4, <1>5 DEF CalmCall
  <2>2. Grounded(Leads(ns), rec)
    BY <1>1, <2>1 DEF Sound
  <2>3. Grounded(Leads(ms), r)
    <3>1. \A q \in Paths : Leads(ns)[q] \subseteq Leads(ms)[q]
      BY DEF Leads
    <3> QED BY <1>2, <2>2, <3>1, GroundedMore
  <2>4. ASSUME r.pc \in {"search", "create"}, r.reply.status = "ok" PROVE r.reply.ids \subseteq Lead(ms, Sought(r))
    <3>1. rec.reply.ids \subseteq Lead(ns, Sought(rec))
      BY <2>1, <2>4 DEF Sound
    <3>2. Looking(rec)
      BY <2>4 DEF Shape
    <3>3. Sought(rec) \in Paths
      BY <2>2, <3>2, SoughtIs
    <3> QED BY <1>2, <3>1, <3>3
  <2>5. ASSUME r.pc = "act", r.reply.status = "ok" PROVE Effect(ms, r)
    <3>1. Effect(ns, rec)
      BY <2>1, <2>5 DEF Sound
    <3>2. ~Killing(rec)
      BY <1>1, <2>5 DEF Struck
    <3> QED BY <1>3, <3>1, <3>2 DEF Effect, Killing
  <2> QED BY <2>3, <2>4, <2>5 DEF Sound
<1>6. ASSUME r.pc = "done", r.result = "ok" PROVE Truth(ms, r)
  <2>1. Truth(ns, rec)
    BY <1>6 DEF CalmCall
  <2>2. ~Killing(rec)
    BY <1>6 DEF Shape
  <2>3. /\ rec.op \in {"upload", "copy", "createFolder"} =>
             ToSet(rec.ids) # {} /\ ToSet(rec.ids) \subseteq Lead(ns, rec.to)
        /\ rec.op \in {"download", "exists", "read"} =>
             ToSet(rec.ids) # {} /\ ToSet(rec.ids) \subseteq Lead(ns, rec.path)
    BY <1>6, <2>1, <2>2 DEF Truth, Killing
  <2>4. /\ r.op \in {"upload", "copy", "createFolder"} =>
             ToSet(r.ids) # {} /\ ToSet(r.ids) \subseteq Lead(ms, r.to)
        /\ r.op \in {"download", "exists", "read"} =>
             ToSet(r.ids) # {} /\ ToSet(r.ids) \subseteq Lead(ms, r.path)
    BY <1>3, <2>3
  <2>5. r.op \notin {"delete", "trash", "move"}
    BY <1>3, <2>2 DEF Killing
  <2> QED BY <1>6, <2>4, <2>5 DEF Truth
<1> QED BY <1>5, <1>6 DEF CalmCall

\* The other callers, after a step that none of them took.
LEMMA OthersKept ==
  ASSUME IInv, NEW d \in Caller, Kin(nodes'), Len(nodes) <= Len(nodes'), moved => moved',
         ~moved' => \A q \in Paths : Lead(nodes, q) \subseteq Lead(nodes', q),
         NEW r, r = [call[d] EXCEPT !.alone = FALSE]
  PROVE  /\ r \in Calls /\ Shape(nodes', moved', r) /\ ~r.alone
         /\ ~moved' => CalmCall(nodes', r)
<1> DEFINE rec == call[d]
<1>1. rec \in Calls /\ Shape(nodes, moved, rec) /\ Kin(nodes) /\ (~moved => CalmCall(nodes, rec))
  BY DEF IInv
<1>2. r = Muted(rec)
  BY DEF Muted
<1> HIDE DEF rec
<1>3. /\ r \in Calls /\ SameWay(r, rec) /\ ~r.alone
      /\ r.pc = rec.pc /\ r.reply = rec.reply /\ r.result = rec.result
  BY <1>1, <1>2, MutedIs, Zenon
<1>4. Shape(nodes', moved', r)
  BY <1>1, <1>3, ShapeKept
<1>5. ASSUME ~moved' PROVE CalmCall(nodes', r)
  <2>1. ~moved /\ Calm(nodes, cache, memo) /\ moved \in BOOLEAN
    BY <1>5 DEF IInv
  <2>2. \A n \in 1..Len(nodes) : nodes[n].state = "live"
    BY <2>1 DEF Calm
  <2>3. moved = FALSE
    BY <2>1
  <2>4. Shape(nodes, FALSE, rec)
    BY <1>1, <2>3
  <2> QED BY <1>1, <1>3, <1>5, <2>1, <2>2, <2>4, CalmKept
<1> QED BY <1>3, <1>4, <1>5

\* A step of one call keeps the invariant if that call and the state do.
LEMMA Frame ==
  ASSUME IInv, NEW c \in Caller, NEW next \in Calls, Become(c, next),
         Kin(nodes'), Len(nodes) <= Len(nodes'), Led(Everywhere(nodes'), cache', memo'),
         moved' \in BOOLEAN, moved => moved',
         Shape(nodes', moved', next),
         next.alone => AloneInv(nodes', cache', memo', next),
         ~moved' => /\ Calm(nodes', cache', memo') /\ CalmCall(nodes', next)
                    /\ \A q \in Paths : Lead(nodes, q) \subseteq Lead(nodes', q)
  PROVE  IInv'
<1>1. ASSUME NEW d \in Caller
      PROVE  /\ call'[d] \in Calls /\ Shape(nodes', moved', call'[d])
             /\ call'[d].alone => AloneInv(nodes', cache', memo', call'[d])
             /\ ~moved' => CalmCall(nodes', call'[d])
  <2>1. CASE d = c
    <3>1. call'[d] = next
      BY <2>1 DEF Become
    <3> QED BY <3>1
  <2>2. CASE d # c
    <3>1. call'[d] = [call[d] EXCEPT !.alone = FALSE]
      BY <2>2 DEF Become
    <3>2. /\ call'[d] \in Calls /\ Shape(nodes', moved', call'[d]) /\ ~call'[d].alone
          /\ ~moved' => CalmCall(nodes', call'[d])
      BY <3>1, OthersKept
    <3> QED BY <3>2
  <2> QED BY <2>1, <2>2
<1>2. call' \in [Caller -> Calls]
  <2>1. call' = [d \in Caller |-> call'[d]]
    BY DEF Become
  <2> QED BY <1>1, <2>1
<1> QED BY <1>1, <1>2 DEF IInv

-----------------------------------------------------------------------------
(* A call that goes on to its next request.                                *)

\* What Proceed makes of a call, once its goals are resolved as far as they can.
Onto(rec, far) ==
  IF far.call.pc # "resolve" THEN far.call
  ELSE IF rec.op = "exists" THEN End(far.call, "ok")
  ELSE Ask(far.call, "act")

\* It searches, or makes its own request, or is an exists that is done.
LEMMA OntoIs ==
  ASSUME NEW lead, \A q \in Paths : lead[q] \subseteq Nat,
         NEW entries, NEW id, Led(lead, entries, id),
         NEW rec \in Calls, Grounded(lead, rec), rec.pc = "resolve",
         NEW far, far = Resolve(rec, entries, id), NEW next, next = Onto(rec, far)
  PROVE  /\ Led(lead, entries, far.memo)
         /\ next \in Calls /\ next.reply = NoReply /\ next.alone = rec.alone
         /\ next.op = rec.op /\ next.path = rec.path /\ next.to = rec.to
         /\ \/ next.pc = "search" /\ Grounded(lead, next) /\ Looking(next) /\ Further(rec, next)
            \/ /\ next.pc = "act" /\ Grounded(lead, next) /\ next.plan = <<>> /\ Further(rec, next)
               /\ next.op # "exists"
            \/ /\ next.pc = "done" /\ next.op = "exists" /\ next.result = "ok"
               /\ ToSet(next.ids) # {} /\ ToSet(next.ids) \subseteq lead[next.path]
<1> DEFINE r == far.call
<1>1. /\ Led(lead, entries, far.memo)
      /\ r \in Calls /\ Grounded(lead, r) /\ Further(rec, r)
      /\ \/ r.pc = "resolve" /\ r.plan = <<>>
         \/ r.pc = "search" /\ Looking(r) /\ r.reply = NoReply
  BY ResolveIs
<1>2. SameCall(r, rec)
  BY <1>1 DEF Further
<1>3. CASE r.pc # "resolve"
  <2>1. next = r
    BY <1>3 DEF Onto
  <2> QED BY <1>1, <1>2, <1>3, <2>1 DEF SameCall
<1>4. CASE r.pc = "resolve" /\ rec.op # "exists"
  <2>1. next = Ask(r, "act")
    BY <1>4 DEF Onto
  <2> HIDE DEF r
  <2>2. /\ next \in Calls /\ SameCall(next, r) /\ next.pc = "act" /\ next.reply = NoReply
        /\ next.plan = r.plan /\ next.look = r.look /\ next.under = r.under /\ next.ids = r.ids
    BY <1>1, <2>1, AskIs
  <2>3. SameWay(next, r) /\ SameCall(next, rec) /\ r.plan = <<>>
    BY <1>1, <1>2, <1>4, <2>2 DEF SameCall, SameWay
  <2>4. Grounded(lead, next)
    BY <1>1, <2>3, SameWayIs
  <2>5. Further(rec, next)
    BY <1>1, <2>2, <2>3 DEF Further, Done
  <2> QED BY <1>1, <1>4, <2>2, <2>3, <2>4, <2>5 DEF SameCall
<1>5. CASE r.pc = "resolve" /\ rec.op = "exists"
  <2>1. next = End(r, "ok")
    BY <1>5 DEF Onto
  <2> HIDE DEF r
  <2>2. /\ next \in Calls /\ next.op = r.op /\ next.path = r.path /\ next.to = r.to /\ next.ids = r.ids
        /\ next.pc = "done" /\ next.result = "ok" /\ next.alone = r.alone
        /\ next.reply = NoReply
    BY <1>1, <2>1, EndIs
  <2>3. r.op = "exists" /\ r.path = rec.path /\ r.to = rec.to /\ r.alone = rec.alone /\ r.plan = <<>>
    BY <1>1, <1>2, <1>5 DEF SameCall
  <2>4. r.ids[1] \in lead[r.path]
    BY <1>1, <2>3, ActingIs
  <2>5. Done(r) = 1
    <3>1. Named(r)
      BY <1>1 DEF Grounded
    <3>2. ~r.healed
      BY <2>3, <3>1 DEF Named
    <3>3. FullPlan(r) = <<Goal("file", r.path)>>
      BY <2>3, <3>2 DEF FullPlan, Plan
    <3>4. Len(FullPlan(r)) = 1
      BY <3>3
    <3>5. Done(r) + Left(r) = Len(FullPlan(r))
      BY <1>1 DEF Grounded
    <3>6. Done(r) \in Nat /\ Left(r) = 0
      BY <1>1, <2>3, GoalsLeft
    <3> QED BY ONLY <3>4, <3>5, <3>6
  <2>6. ToSet(r.ids) = {r.ids[1]}
    <3>1. r.ids \in Seq(Nat) /\ Len(r.ids) = 1
      BY <1>1, <2>5 DEF Calls, Done
    <3>2. DOMAIN r.ids = 1..1
      BY <3>1
    <3> QED BY <3>2 DEF ToSet
  <2> QED BY <1>1, <1>5, <2>2, <2>3, <2>4, <2>6
<1> QED BY <1>3, <1>4, <1>5

\* Whatever the ids are worth, the call is in shape.
LEMMA OntoShape ==
  ASSUME NEW ns, Kin(ns), NEW removed,
         NEW entries, NEW id, Led(Everywhere(ns), entries, id),
         NEW rec \in Calls, Grounded(Everywhere(ns), rec), rec.pc = "resolve",
         NEW far, far = Resolve(rec, entries, id), NEW next, next = Onto(rec, far)
  PROVE  /\ Led(Everywhere(ns), entries, far.memo)
         /\ next \in Calls /\ next.alone = rec.alone /\ Shape(ns, removed, next)
<1>1. \A q \in Paths : Everywhere(ns)[q] \subseteq Nat
  BY LeadsAre
<1>2. /\ Led(Everywhere(ns), entries, far.memo)
      /\ next \in Calls /\ next.reply = NoReply /\ next.alone = rec.alone
      /\ next.op = rec.op /\ next.path = rec.path /\ next.to = rec.to
      /\ \/ next.pc = "search" /\ Grounded(Everywhere(ns), next) /\ Looking(next)
         \/ next.pc = "act" /\ Grounded(Everywhere(ns), next) /\ next.plan = <<>> /\ next.op # "exists"
         \/ next.pc = "done" /\ next.op = "exists" /\ next.result = "ok"
  BY <1>1, OntoIs
<1>3. Named(rec)
  BY DEF Grounded
<1>4. next.pc \in {"search", "act"} => Named(next)
  BY <1>2 DEF Grounded
<1>5. next.reply.ids = {} /\ next.reply.status = "none"
  BY <1>2 DEF NoReply
<1>6. next.op = "exists" => ~Killing(next)
  BY DEF Killing
<1>7. next.pc = "done" => Named(next)
  <2> SUFFICES ASSUME next.pc = "done" PROVE Named(next)
    OBVIOUS
  <2>1. next.op = "exists"
    BY <1>2
  <2>2. next.healed = FALSE
    <3>1. far.call.pc = "resolve" /\ next = End(far.call, "ok") /\ far.call \in Calls
      BY <1>1, <1>2, ResolveIs DEF Onto, Ask, Calls
    <3>2. ~End(far.call, "ok").healed
      BY <3>1, EndIs
    <3> QED BY <1>2, <3>1, <3>2 DEF Calls
  <2> QED BY <1>2, <1>3, <2>1, <2>2 DEF Named
<1>8. Shape(ns, removed, next)
  BY <1>2, <1>4, <1>5, <1>6, <1>7 DEF Shape, Active, Struck
<1> QED BY <1>2, <1>8

\* Where the cache is right and so is the call, both stay right.
LEMMA OntoCalm ==
  ASSUME NEW ns, Kin(ns),
         NEW entries, NEW id, Led(Leads(ns), entries, id),
         NEW rec \in Calls, Grounded(Leads(ns), rec), rec.pc = "resolve",
         NEW far, far = Resolve(rec, entries, id), NEW next, next = Onto(rec, far)
  PROVE  /\ Led(Leads(ns), entries, far.memo)
         /\ CalmCall(ns, next)
<1>1. \A q \in Paths : Leads(ns)[q] \subseteq Nat /\ Leads(ns)[q] = Lead(ns, q)
  BY LeadsAre
<1>2. /\ Led(Leads(ns), entries, far.memo)
      /\ next \in Calls /\ next.reply = NoReply
      /\ \/ next.pc = "search" /\ Grounded(Leads(ns), next)
         \/ next.pc = "act" /\ Grounded(Leads(ns), next)
         \/ /\ next.pc = "done" /\ next.op = "exists" /\ next.result = "ok"
            /\ ToSet(next.ids) # {} /\ ToSet(next.ids) \subseteq Leads(ns)[next.path]
  BY <1>1, OntoIs
<1>3. next.reply.status = "none"
  BY <1>2 DEF NoReply
<1>4. Active(next) => Sound(ns, next)
  BY <1>2, <1>3 DEF Active, Sound
<1>5. next.pc = "done" => Truth(ns, next)
  <2> SUFFICES ASSUME next.pc = "done" PROVE Truth(ns, next)
    OBVIOUS
  <2>1. next.path \in Paths
    BY <1>2 DEF Calls
  <2>2. next.op = "exists" /\ next.result = "ok"
        /\ ToSet(next.ids) # {} /\ ToSet(next.ids) \subseteq Lead(ns, next.path)
    BY <1>1, <1>2, <2>1
  <2> QED BY <2>2 DEF Truth
<1> QED BY <1>2, <1>4, <1>5 DEF CalmCall

\* What makes a call, on its way to a file, find it if it is there.
Open(ns, rec) ==
  /\ rec.plan # <<>> /\ rec.plan[1].kind # "folder" /\ Lead(ns, rec.path) # {} =>
       /\ \A q \in Paths : Sole(ns, q) /\ (Len(q) > Len(rec.look) => Unique(ns, q))
       /\ rec.look # <<>> => ns[rec.under].folder \/ Unique(ns, rec.look)
  /\ rec.plan = <<>> /\ rec.op \in {"delete", "trash"} => Unique(ns, rec.path)

\* Such a call stays as good, to its next request.
LEMMA OntoAlone ==
  ASSUME NEW ns, Kin(ns),
         NEW entries, NEW id, Led(Leads(ns), entries, id),
         NEW rec \in Calls, Grounded(Leads(ns), rec), rec.pc = "resolve", Open(ns, rec),
         NEW far, far = Resolve(rec, entries, id), NEW next, next = Onto(rec, far)
  PROVE  AloneInv(ns, entries, far.memo, next)
<1>1. \A q \in Paths : Leads(ns)[q] \subseteq Nat /\ Leads(ns)[q] = Lead(ns, q)
  BY LeadsAre
<1>2. /\ Led(Leads(ns), entries, far.memo)
      /\ next \in Calls /\ next.reply = NoReply
      /\ next.op = rec.op /\ next.path = rec.path
      /\ \/ next.pc = "search" /\ Grounded(Leads(ns), next) /\ Looking(next) /\ Further(rec, next)
         \/ next.pc = "act" /\ Grounded(Leads(ns), next) /\ next.plan = <<>> /\ Further(rec, next)
         \/ next.pc = "done" /\ next.op = "exists" /\ next.result = "ok"
  BY <1>1, OntoIs
<1>3. CalmCall(ns, next)
  BY OntoCalm
<1>4. next.reply.status = "none" /\ ~Struck(next)
  BY <1>2 DEF NoReply, Struck
<1>5. rec.path \in Paths /\ rec.path # <<>> /\ rec.path \in Seq(Names)
  BY PathsAre DEF Calls
<1>6. ~Lost(ns, next)
  <2> SUFFICES ASSUME Lost(ns, next) PROVE FALSE
    OBVIOUS
  <2>1. next.op = "download" /\ Grounded(Leads(ns), next) /\ next.plan = <<>>
    BY <1>2 DEF Lost
  <2>2. next.ids[1] \in Lead(ns, next.path) /\ next.path \in Paths
    BY <1>1, <1>2, <1>5, <2>1, ActingIs
  <2>3. ns[next.ids[1]].state = "live"
    BY <2>2, LeadsAre
  <2> QED BY <2>3 DEF Lost
<1>7. ASSUME next.pc = "search", next.plan[1].kind # "folder", Lead(ns, next.path) # {}
      PROVE  Clear(ns, next)
  <2>1. Grounded(Leads(ns), next) /\ Further(rec, next) /\ next.plan # <<>>
    BY <1>2, <1>7 DEF Looking
  <2>2. /\ Done(next) = 0 /\ next.plan[1] = FullPlan(next)[Done(next) + 1]
        /\ Len(next.look) \in Nat /\ next.plan[1].path = next.path
    BY <1>2, <1>7, <2>1, GoalsLeft
  <2>3. Done(rec) \in Nat /\ Left(rec) \in Nat /\ Len(rec.look) \in Nat
    BY GoalsLeft
  <2>4. Done(rec) <= Done(next)
    BY <2>1 DEF Further
  <2>5. Done(rec) = 0
    BY ONLY <2>2, <2>3, <2>4
  <2>6. /\ Len(rec.look) <= Len(next.look)
        /\ Len(rec.look) = Len(next.look) => next.under = rec.under
    BY <2>1, <2>2, <2>5 DEF Further
  <2>7. FullPlan(next) = FullPlan(rec)
    BY <2>1, SamePlan DEF Further
  <2>8. rec.plan # <<>> /\ rec.plan[1] = next.plan[1]
    <3>1. Named(rec) /\ Done(rec) + Left(rec) = Len(FullPlan(rec))
      BY DEF Grounded
    <3>2. Len(FullPlan(rec)) \in 1..3
      BY <3>1, PlanIs
    <3>3. Left(rec) # 0
      <4> DEFINE x == Left(rec)
                 y == Done(rec)
                 z == Len(FullPlan(rec))
      <4>1. x \in Nat /\ y = 0 /\ y + x = z /\ z \in 1..3
        BY <2>3, <2>5, <3>1, <3>2
      <4> HIDE DEF x, y, z
      <4>2. x # 0
        BY <4>1
      <4> QED BY <4>2 DEF x
    <3>4. rec.plan # <<>> /\ rec.plan[1] = FullPlan(rec)[Done(rec) + 1]
      BY <3>3, GoalsLeft
    <3> QED BY <2>2, <2>5, <2>7, <3>4
  <2>9. /\ \A q \in Paths : Sole(ns, q) /\ (Len(q) > Len(rec.look) => Unique(ns, q))
        /\ rec.look # <<>> => ns[rec.under].folder \/ Unique(ns, rec.look)
    BY <1>2, <1>7, <2>8 DEF Open
  <2>10. \A q \in Paths : Sole(ns, q) /\ (Len(q) > Len(next.look) => Unique(ns, q))
    <3> SUFFICES ASSUME NEW q \in Paths, Len(q) > Len(next.look) PROVE Unique(ns, q)
      BY <2>9
    <3>1. Len(q) \in Nat
      BY PathsAre
    <3> DEFINE x == Len(rec.look)
               y == Len(next.look)
               z == Len(q)
    <3>2. x \in Nat /\ y \in Nat /\ z \in Nat /\ x <= y /\ z > y
      BY <2>2, <2>3, <2>6, <3>1
    <3> HIDE DEF x, y, z
    <3>3. z > x
      BY <3>2
    <3> QED BY <2>9, <3>3 DEF x, z
  <2>11. next.look # <<>> => ns[next.under].folder \/ Unique(ns, next.look)
    <3> SUFFICES ASSUME next.look # <<>> PROVE ns[next.under].folder \/ Unique(ns, next.look)
      OBVIOUS
    <3>1. /\ next.look \in Paths /\ next.look = Prefix(FolderIn(next.plan[1]), Len(next.look))
      BY <1>2, <2>1, LookIs
    <3>2. rec.look = Prefix(FolderIn(rec.plan[1]), Len(rec.look))
      BY <2>8, LookIs
    <3>3. CASE Len(rec.look) = Len(next.look)
      <4>1. rec.look = next.look /\ next.under = rec.under
        BY <2>6, <2>8, <3>1, <3>2, <3>3
      <4> QED BY <2>9, <4>1
    <3>4. CASE Len(rec.look) # Len(next.look)
      <4> DEFINE x == Len(rec.look)
                 y == Len(next.look)
      <4>1. x \in Nat /\ y \in Nat /\ x <= y /\ x # y
        BY <2>2, <2>3, <2>6, <3>4
      <4> HIDE DEF x, y
      <4>2. y > x
        BY <4>1
      <4> QED BY <2>9, <3>1, <4>2 DEF x, y
    <3> QED BY <3>3, <3>4
  <2> QED BY <1>4, <1>7, <2>10, <2>11 DEF Clear, Deep
<1>8. ASSUME next.pc = "act", next.op \in {"delete", "trash"} PROVE Unique(ns, next.path)
  <2>1. CASE rec.plan = <<>>
    BY <1>2, <1>8, <2>1 DEF Open
  <2>2. CASE rec.plan # <<>>
    <3>1. Named(rec) /\ ~rec.healed
      BY <1>2, <1>8 DEF Grounded, Named
    <3>2. FullPlan(rec) = <<Goal("file", rec.path)>>
      BY <1>2, <1>8, <3>1 DEF FullPlan, Plan
    <3>3. Len(FullPlan(rec)) = 1 /\ FullPlan(rec)[1].kind = "file"
      BY <3>2 DEF Goal
    <3>4. /\ rec.plan[1] = FullPlan(rec)[Done(rec) + 1] /\ Done(rec) \in Nat
          /\ Done(rec) + 1 \in 1..Len(FullPlan(rec))
      BY <2>2, GoalsLeft
    <3>5. Done(rec) + 1 = 1
      BY ONLY <3>3, <3>4
    <3>6. rec.plan[1].kind # "folder"
      BY <3>3, <3>4, <3>5
    <3>7. CASE Lead(ns, rec.path) = {}
      BY <1>2, <3>7 DEF Unique
    <3>8. CASE Lead(ns, rec.path) # {}
      <4>1. \A q \in Paths : Len(q) > Len(rec.look) => Unique(ns, q)
        BY <2>2, <3>6, <3>8 DEF Open
      <4>2. /\ Len(rec.look) \in Nat /\ Len(rec.look) <= Len(FolderIn(rec.plan[1]))
            /\ Len(FolderIn(rec.plan[1])) = Len(rec.plan[1].path) - 1
        BY <2>2, <3>6, LookIs
      <4>3. rec.plan[1].path = rec.path
        BY <2>2, <3>6, GoalsLeft
      <4>4. Len(rec.path) \in Nat
        BY <1>5
      <4> DEFINE x == Len(rec.look)
                 y == Len(FolderIn(rec.plan[1]))
                 z == Len(rec.path)
      <4>5. x \in Nat /\ z \in Nat /\ x <= y /\ y = z - 1
        BY <4>2, <4>3, <4>4
      <4> HIDE DEF x, y, z
      <4>6. z > x
        BY <4>5
      <4> QED BY <1>2, <1>5, <4>1, <4>6 DEF x, z
    <3> QED BY <3>7, <3>8
  <2> QED BY <2>1, <2>2
<1>9. Sharp(ns, next)
  <2>1. next.pc # "create" /\ next.reply.status # "missing"
    BY <1>2, <1>4
  <2> QED BY <1>6, <1>7, <1>8, <2>1 DEF Sharp
<1>10. \A q \in Paths : Right(ns, entries, q)
  BY <1>1 DEF Led, Right
<1> QED BY <1>2, <1>3, <1>4, <1>9, <1>10 DEF AloneInv, CalmCall

\* A step that only resolves keeps the invariant.
LEMMA Proceeding ==
  ASSUME IInv, NEW c \in Caller, NEW rec \in Calls, NEW entries, NEW id,
         Proceed(c, rec, entries, id), nodes' = nodes, moved' = moved,
         Led(Everywhere(nodes), entries, id), Grounded(Everywhere(nodes), rec), rec.pc = "resolve",
         ~moved => Led(Leads(nodes), entries, id) /\ Grounded(Leads(nodes), rec),
         NEW far, far = Resolve(rec, entries, id),
         rec.alone => AloneInv(nodes, entries, far.memo, Onto(rec, far))
  PROVE  IInv'
<1> DEFINE next == Onto(rec, far)
<1>1. cache' = entries /\ memo' = far.memo /\ Become(c, next)
  BY DEF Proceed, Onto
<1>2. Kin(nodes) /\ moved \in BOOLEAN
  BY DEF IInv
<1>3. /\ Led(Everywhere(nodes), entries, far.memo)
      /\ next \in Calls /\ next.alone = rec.alone /\ Shape(nodes, moved, next)
  BY <1>2, OntoShape
<1>4. ASSUME ~moved PROVE Calm(nodes, entries, far.memo) /\ CalmCall(nodes, next)
  <2>1. Led(Leads(nodes), entries, far.memo) /\ CalmCall(nodes, next)
    BY <1>2, <1>4, OntoCalm
  <2>2. \A n \in 1..Len(nodes) : nodes[n].state = "live"
    BY <1>4 DEF IInv, Calm
  <2> QED BY <2>1, <2>2 DEF Calm
<1> HIDE DEF next
<1>5. Len(nodes) <= Len(nodes)
  <2>1. Len(nodes) \in Nat
    BY <1>2, LeadsAre
  <2> QED BY <2>1
<1>6. /\ Kin(nodes') /\ Len(nodes) <= Len(nodes') /\ Led(Everywhere(nodes'), cache', memo')
      /\ moved' \in BOOLEAN /\ Shape(nodes', moved', next)
  BY <1>1, <1>2, <1>3, <1>5
<1>7. next.alone => AloneInv(nodes', cache', memo', next)
  BY <1>1, <1>3 DEF next
<1>8. ~moved' => /\ Calm(nodes', cache', memo') /\ CalmCall(nodes', next)
                 /\ \A q \in Paths : Lead(nodes, q) \subseteq Lead(nodes', q)
  BY <1>1, <1>4
<1> QED BY <1>1, <1>3, <1>6, <1>7, <1>8, Frame

\* The way goes on below what was found, or the goal is reached.
LEMMA TakenIs ==
  ASSUME NEW lead, NEW rec \in Calls, Grounded(lead, rec), Looking(rec),
         NEW id \in Nat, id \in lead[Sought(rec)], NEW r, r = Taken(rec, id)
  PROVE  /\ r \in Calls /\ Grounded(lead, r) /\ r.pc = "resolve" /\ SameCall(r, rec)
         /\ SeeksFolder(rec) => r.plan = rec.plan /\ r.look = Sought(rec) /\ r.under = id
         /\ ~SeeksFolder(rec) => r = Reached(rec, id)
<1>1. /\ rec.plan # <<>> /\ Sought(rec) \in Paths /\ Sought(rec) # <<>> /\ Sought(rec) \in Seq(Names)
      /\ Len(Sought(rec)) = Len(rec.look) + 1 /\ Len(rec.look) \in Nat
      /\ SeeksFolder(rec) => Sought(rec) = Prefix(FolderIn(rec.plan[1]), Len(rec.look) + 1)
                             /\ Len(rec.look) < Len(FolderIn(rec.plan[1]))
      /\ ~SeeksFolder(rec) => Sought(rec) = rec.plan[1].path
      /\ FolderIn(rec.plan[1]) \in Paths
  BY SoughtIs DEF Looking
<1>2. CASE SeeksFolder(rec)
  <2>1. r = [rec EXCEPT !.look = Sought(rec), !.under = id, !.pc = "resolve"]
    BY <1>2 DEF Taken
  <2> DEFINE look == Sought(rec)
  <2>2. look \in Seq(Names)
    BY <1>1
  <2> HIDE DEF look
  <2>3. [rec EXCEPT !.look = look, !.under = id, !.pc = "resolve"] \in Calls
    BY <2>2 DEF Calls
  <2>4. r \in Calls
    BY <2>1, <2>3 DEF look
  <2>5. /\ r.pc = "resolve" /\ SameCall(r, rec) /\ r.plan = rec.plan /\ r.look = look /\ r.under = id
        /\ r.ids = rec.ids
    <3>1. r = [rec EXCEPT !.look = look, !.under = id, !.pc = "resolve"]
      BY <2>1 DEF look
    <3> QED BY <3>1 DEF Calls, SameCall
  <2>6. FullPlan(r) = FullPlan(rec) /\ Done(r) = Done(rec) /\ Left(r) = Left(rec) /\ (Named(r) <=> Named(rec))
    BY <2>5, SamePlan DEF Done, Left
  <2>7. Walked(lead, r)
    <3>1. Len(r.look) <= Len(FolderIn(r.plan[1]))
      <4>1. Len(FolderIn(rec.plan[1])) \in Nat
        BY <1>1, PathsAre
      <4> QED BY <1>1, <1>2, <2>5, <4>1 DEF look
    <3>2. r.look = Prefix(FolderIn(r.plan[1]), Len(r.look))
      BY <1>1, <1>2, <2>5 DEF look
    <3> QED BY <1>1, <2>5, <3>1, <3>2 DEF Walked, look
  <2>8. Grounded(lead, r)
    BY <2>5, <2>6, <2>7 DEF Grounded
  <2> QED BY <1>2, <2>4, <2>5, <2>8 DEF look
<1>3. CASE ~SeeksFolder(rec)
  <2>1. r = Reached(rec, id)
    BY <1>3 DEF Taken
  <2>2. id \in lead[rec.plan[1].path]
    BY <1>1, <1>3
  <2>3. r \in Calls /\ Grounded(lead, r) /\ Further(rec, r) /\ r.pc = "resolve"
    BY <1>1, <2>1, <2>2, ReachedGrounded
  <2> QED BY <1>3, <2>1, <2>3 DEF Further
<1> QED BY <1>2, <1>3

\* What was found is cached.
LEMMA Cached ==
  ASSUME NEW lead, NEW entries, NEW id, Led(lead, entries, id),
         NEW p \in Paths, NEW n \in Nat, n = 0 \/ n \in lead[p], NEW rid, rid \in {id, n}, rid = n => p = <<Root>> \/ n = id
  PROVE  Led(lead, [entries EXCEPT ![p] = n], rid)
<1> DEFINE e == [entries EXCEPT ![p] = n]
<1>1. entries \in [Paths -> Nat] /\ id \in Nat
  BY DEF Led
<1>2. e \in [Paths -> Nat]
  BY <1>1
<1>3. ASSUME NEW q \in Paths PROVE e[q] = 0 \/ e[q] \in lead[q]
  <2>1. CASE q = p
    BY <1>1, <2>1
  <2>2. CASE q # p
    BY <1>1, <2>2 DEF Led
  <2> QED BY <2>1, <2>2
<1>4. rid \in Nat /\ (rid = 0 \/ rid \in lead[<<Root>>])
  BY <1>1 DEF Led
<1> HIDE DEF e
<1>5. Led(lead, e, rid)
  BY <1>2, <1>3, <1>4 DEF Led
<1> QED BY <1>5 DEF e

\* The cache knows the file: the call goes on with that id.
LEMMA CachedFile ==
  ASSUME NEW entries, NEW id, NEW rec, NEW p, rec.plan = <<Goal("file", p)>>, rec.look = <<>>,
         rec.pc = "resolve", entries[p] # 0
  PROVE  Resolve(rec, entries, id) = [call |-> Reached(rec, entries[p]), memo |-> id]
<1> DEFINE first == [call |-> rec, memo |-> id]
           Trail(f) == f = [k \in 0..1 |-> IF k = 0 THEN first ELSE Onward(f[k - 1], entries)]
           far == CHOOSE f : Trail(f)
           g == [k \in 0..1 |-> IF k = 0 THEN first ELSE Onward(first, entries)]
<1>1. Len(rec.plan) = 1 /\ rec.plan[1] = Goal("file", p)
  OBVIOUS
<1>2. Resolve(rec, entries, id) = far[1]
  BY <1>1 DEF Resolve
<1>3. Onward(first, entries) = [call |-> Reached(rec, entries[p]), memo |-> id]
  <2>1. first.call = rec /\ first.call.pc = "resolve"
    OBVIOUS
  <2>2. Onward(first, entries) = Pursue(first, entries)
    BY <2>1 DEF Onward
  <2>3. Goal("file", p).kind = "file" /\ Goal("file", p).path = p
    BY DEF Goal
  <2>4. Pursue(first, entries) = [first EXCEPT !.call = Reached(rec, entries[p])]
    BY <1>1, <2>1, <2>3 DEF Pursue
  <2> QED BY <2>2, <2>4
<1> HIDE DEF first
<1>4. Trail(g)
  <2>1. \A k \in 0..1 : g[k] = IF k = 0 THEN first ELSE Onward(g[k - 1], entries)
    OBVIOUS
  <2>2. g = [k \in 0..1 |-> g[k]]
    OBVIOUS
  <2> HIDE DEF g
  <2> QED BY <2>1, <2>2
<1> HIDE DEF g
<1>5. Trail(far)
  BY <1>4
<1> HIDE DEF far
<1>6. far[0] = first /\ far[1] = Onward(far[0], entries)
  BY <1>5
<1> QED BY <1>2, <1>3, <1>6

-----------------------------------------------------------------------------
(* The steps of a caller.                                                  *)

\* What the invariant says of one call.
LEMMA CallIs ==
  ASSUME IInv, NEW c \in Caller
  PROVE  LET rec == call[c]
         IN  /\ rec \in Calls /\ rec.path \in Paths /\ rec.to \in Paths
             /\ Shape(nodes, moved, rec) /\ Kin(nodes) /\ Led(Everywhere(nodes), cache, memo)
             /\ moved \in BOOLEAN
             /\ rec.alone => AloneInv(nodes, cache, memo, rec)
             /\ ~moved => /\ Calm(nodes, cache, memo) /\ CalmCall(nodes, rec) /\ ~Struck(rec) /\ ~Lost(nodes, rec)
                          /\ Active(rec) => Sound(nodes, rec) /\ Grounded(Leads(nodes), rec)
<1> DEFINE rec == call[c]
<1>1. /\ rec \in Calls
      /\ Shape(nodes, moved, rec) /\ Kin(nodes) /\ Led(Everywhere(nodes), cache, memo)
      /\ moved \in BOOLEAN
      /\ rec.alone => AloneInv(nodes, cache, memo, rec)
      /\ ~moved => Calm(nodes, cache, memo) /\ CalmCall(nodes, rec)
  BY DEF IInv
<1> HIDE DEF rec
<1>2. rec.path \in Paths /\ rec.to \in Paths
  BY <1>1 DEF Calls
<1>3. ASSUME ~moved
      PROVE  /\ ~Struck(rec) /\ ~Lost(nodes, rec)
             /\ Active(rec) => Sound(nodes, rec) /\ Grounded(Leads(nodes), rec)
  <2>1. moved = FALSE
    BY <1>1, <1>3
  <2>2. Shape(nodes, FALSE, rec)
    BY <1>1, <2>1
  <2>3. \A n \in 1..Len(nodes) : nodes[n].state = "live"
    BY <1>1, <1>3 DEF Calm
  <2>4. ~Struck(rec) /\ ~Lost(nodes, rec)
    BY <1>1, <2>2, <2>3, CalmIs
  <2> QED BY <1>1, <1>3, <2>4 DEF CalmCall, Sound
<1> QED BY <1>1, <1>2, <1>3 DEF rec

\* Where all that a call knows is right, it may go on from what was found.
LEMMA TakenOpen ==
  ASSUME NEW ns, Kin(ns), NEW removed, NEW rec \in Calls, Shape(ns, removed, rec), Grounded(Leads(ns), rec),
         rec.pc \in {"search", "create"}, rec.reply.status = "ok", Sharp(ns, rec),
         NEW id \in rec.reply.ids, id \in Lead(ns, Sought(rec)), NEW r, r = Taken(rec, id)
  PROVE  Open(ns, r)
<1>1. Looking(rec) /\ id \in Nat
  BY DEF Shape, Calls, Replies
<1>2. /\ Sought(rec) \in Paths /\ Sought(rec) # <<>>
      /\ Len(Sought(rec)) = Len(rec.look) + 1 /\ Len(rec.look) \in Nat
      /\ ~SeeksFolder(rec) => rec.plan[1].kind # "folder" /\ Sought(rec) = rec.path
      /\ rec.plan # <<>>
  BY <1>1, SoughtIs DEF Looking
<1>3. id \in Leads(ns)[Sought(rec)]
  BY <1>2, LeadsAre
<1>4. /\ r \in Calls /\ Grounded(Leads(ns), r) /\ SameCall(r, rec)
      /\ SeeksFolder(rec) => r.plan = rec.plan /\ r.look = Sought(rec) /\ r.under = id
      /\ ~SeeksFolder(rec) => r = Reached(rec, id)
  BY <1>1, <1>3, TakenIs
<1>5. r.op = rec.op /\ r.path = rec.path
  BY <1>4 DEF SameCall
<1>6. ~SeeksFolder(rec) => rec.pc = "search"
  BY DEF Shape
<1>7. ~SeeksFolder(rec) => Done(r) = Done(rec) + 1 /\ Done(rec) \in Nat
  <2> SUFFICES ASSUME ~SeeksFolder(rec) PROVE Done(r) = Done(rec) + 1 /\ Done(rec) \in Nat
    OBVIOUS
  <2>1. id \in Leads(ns)[rec.plan[1].path]
    BY <1>2, <1>3 DEF SeeksFolder
  <2>2. Done(rec) \in Nat
    BY GoalsLeft
  <2> QED BY <1>1, <1>2, <1>4, <2>1, <2>2, ReachedGrounded
<1>8. ASSUME r.plan # <<>>, r.plan[1].kind # "folder", Lead(ns, r.path) # {}
      PROVE  /\ \A q \in Paths : Sole(ns, q) /\ (Len(q) > Len(r.look) => Unique(ns, q))
             /\ r.look # <<>> => ns[r.under].folder \/ Unique(ns, r.look)
  <2>1. Done(r) = 0
    BY <1>4, <1>8, GoalsLeft
  <2>2. SeeksFolder(rec)
    BY <1>7, <2>1
  <2>3. Clear(ns, rec)
    BY <1>2, <1>4, <1>5, <1>8, <2>2 DEF Sharp
  <2>4. ns[id].folder
    <3>1. CASE rec.pc = "search"
      BY <2>2, <2>3, <3>1 DEF Clear, Hits
    <3>2. CASE rec.pc = "create"
      BY <2>3, <3>2 DEF Clear
    <3> QED BY <3>1, <3>2
  <2>5. ASSUME NEW q \in Paths, Len(q) > Len(r.look) PROVE Unique(ns, q)
    <3>1. Len(q) \in Nat
      BY PathsAre
    <3> DEFINE x == Len(rec.look)
               z == Len(q)
    <3>2. x \in Nat /\ z \in Nat /\ z > x + 1 /\ Deep(rec) \in {x, x + 1}
      BY <1>2, <1>4, <2>2, <2>5, <3>1 DEF Deep
    <3> HIDE DEF x, z
    <3>3. z > Deep(rec)
      BY <3>2
    <3> QED BY <2>3, <3>3 DEF Clear, z
  <2>6. \A q \in Paths : Sole(ns, q)
    BY <2>3 DEF Clear
  <2> QED BY <1>4, <2>2, <2>4, <2>5, <2>6
<1>9. ASSUME r.plan = <<>>, r.op \in {"delete", "trash"} PROVE Unique(ns, r.path)
  <2>1. ~SeeksFolder(rec)
    BY <1>2, <1>4, <1>9
  <2>2. Lead(ns, rec.path) = {} \/ Clear(ns, rec)
    BY <1>2, <2>1 DEF Sharp
  <2>3. CASE Lead(ns, rec.path) = {}
    BY <1>5, <2>3 DEF Unique
  <2>4. CASE Clear(ns, rec)
    <3>1. Deep(rec) = Len(rec.look) /\ Len(rec.path) = Len(rec.look) + 1
      BY <1>2, <1>6, <2>1 DEF Deep
    <3> DEFINE x == Len(rec.look)
               z == Len(rec.path)
    <3>2. x \in Nat /\ z = x + 1 /\ Deep(rec) = x
      BY <1>2, <3>1
    <3> HIDE DEF x, z
    <3>3. z > Deep(rec)
      BY <3>2
    <3> QED BY <1>2, <1>5, <2>1, <2>4, <3>3 DEF Clear, z
  <2> QED BY <2>2, <2>3, <2>4
<1> QED BY <1>8, <1>9 DEF Open

\* OnFound and OnFolder.
LEMMA Settled ==
  ASSUME IInv, NEW c \in Caller, call[c].pc \in {"search", "create"}, call[c].reply.status = "ok",
         NEW id \in call[c].reply.ids, Settle(c, id), UNCHANGED <<nodes, moved>>
  PROVE  IInv'
<1> DEFINE rec == call[c]
           r == Taken(rec, id)
           entries == [cache EXCEPT ![Sought(rec)] = id]
           rid == RootId(rec, id)
           far == Resolve(r, entries, rid)
<1>1. /\ rec \in Calls /\ Shape(nodes, moved, rec) /\ Kin(nodes) /\ Led(Everywhere(nodes), cache, memo)
      /\ rec.alone => AloneInv(nodes, cache, memo, rec)
      /\ ~moved => /\ Calm(nodes, cache, memo)
                   /\ Active(rec) => Sound(nodes, rec) /\ Grounded(Leads(nodes), rec)
  BY CallIs
<1>2. Proceed(c, r, entries, rid) /\ nodes' = nodes /\ moved' = moved
  BY DEF Settle
<1>3. /\ rec.pc \in {"search", "create"} /\ rec.reply.status = "ok" /\ id \in rec.reply.ids
      /\ Active(rec) /\ ~Struck(rec) /\ ~Lost(nodes, rec)
  BY DEF Active, Struck, Lost
<1>4. rid \in {memo, id} /\ (rid = id => Sought(rec) = <<Root>> \/ id = memo)
  BY DEF RootId
<1> HIDE DEF rec, r, entries, rid
<1>5. /\ Looking(rec) /\ Grounded(Everywhere(nodes), rec) /\ id \in 1..Len(nodes) /\ id \in Nat
  BY <1>1, <1>3 DEF Shape, Calls, Replies
<1>6. Sought(rec) \in Paths
  BY <1>1, <1>5, SoughtIs
<1>7. ASSUME NEW lead, Grounded(lead, rec), id \in lead[Sought(rec)], Led(lead, cache, memo)
      PROVE  /\ Led(lead, entries, rid)
             /\ r \in Calls /\ Grounded(lead, r) /\ r.pc = "resolve" /\ SameCall(r, rec)
  <2>1. Led(lead, entries, rid)
    BY <1>4, <1>5, <1>6, <1>7, Cached DEF entries
  <2>2. r \in Calls /\ Grounded(lead, r) /\ r.pc = "resolve" /\ SameCall(r, rec)
    BY <1>1, <1>5, <1>7, TakenIs DEF r
  <2> QED BY <2>1, <2>2
<1>8. /\ Led(Everywhere(nodes), entries, rid)
      /\ r \in Calls /\ Grounded(Everywhere(nodes), r) /\ r.pc = "resolve" /\ r.alone = rec.alone
  <2>1. id \in Everywhere(nodes)[Sought(rec)]
    BY <1>1, <1>5, <1>6, LeadsAre
  <2> QED BY <1>1, <1>5, <1>7, <2>1 DEF SameCall
<1>9. ASSUME Sound(nodes, rec) PROVE Grounded(Leads(nodes), rec) /\ id \in Lead(nodes, Sought(rec))
                                     /\ id \in Leads(nodes)[Sought(rec)]
  <2>1. Grounded(Leads(nodes), rec) /\ id \in Lead(nodes, Sought(rec))
    BY <1>3, <1>9 DEF Sound
  <2> QED BY <1>1, <1>6, <2>1, LeadsAre
<1>10. ~moved => Led(Leads(nodes), entries, rid) /\ Grounded(Leads(nodes), r)
  BY <1>1, <1>3, <1>7, <1>9 DEF Calm
<1>11. ASSUME r.alone PROVE AloneInv(nodes, entries, far.memo, Onto(r, far))
  <2>1. AloneInv(nodes, cache, memo, rec)
    BY <1>1, <1>8, <1>11
  <2>2. Sound(nodes, rec) /\ Sharp(nodes, rec) /\ Led(Leads(nodes), cache, memo)
    BY <1>3, <2>1 DEF AloneInv
  <2>3. Led(Leads(nodes), entries, rid) /\ Grounded(Leads(nodes), r)
    BY <1>7, <1>9, <2>2
  <2>4. Open(nodes, r)
    BY <1>1, <1>3, <1>9, <2>2, TakenOpen DEF r
  <2> QED BY <1>1, <1>8, <2>3, <2>4, OntoAlone
<1> QED BY <1>2, <1>8, <1>10, <1>11, Proceeding

\* A call that has just begun.
Begun(op, p, q, alone) ==
  [Idle EXCEPT !.op = op, !.path = p, !.to = q, !.plan = Plan(op, p, q), !.pc = "resolve", !.alone = alone]

\* It has its plan before it, and no ids.
LEMMA StartIs ==
  ASSUME NEW op \in Ops, NEW p \in Paths, NEW q \in Paths, p # <<Root>>, q # <<Root>>,
         op \notin {"copy", "move"} => q = p, NEW alone \in BOOLEAN,
         NEW r, r = Begun(op, p, q, alone)
  PROVE  /\ r \in Calls /\ r.op = op /\ r.path = p /\ r.to = q /\ r.plan = Plan(op, p, q)
         /\ r.look = <<>> /\ r.under = 0 /\ r.ids = <<>> /\ ~r.healed
         /\ r.pc = "resolve" /\ r.reply = NoReply /\ r.alone = alone
         /\ r.plan # <<>> /\ \A lead : Grounded(lead, r)
<1>1. <<Root>> \in Paths /\ <<>> \in Seq(Goals) /\ <<>> \in Seq(Names) /\ <<>> \in Seq(Nat)
  BY PathsAssumption, EmptySeq
<1>2. Idle \in Calls
  BY <1>1 DEF Idle, Calls, NoReply, Replies, Ops
<1> DEFINE s == [Idle EXCEPT !.op = op, !.path = p, !.to = q]
           plan == Plan(op, p, q)
<1>3. s \in Calls /\ s.op = op /\ s.path = p /\ s.to = q /\ ~s.healed
  BY <1>2 DEF Calls, Idle
<1> HIDE DEF s
<1>4. Len(p) > 1 /\ Len(q) > 1
  BY PathsAre
<1>5. Named(s) /\ FullPlan(s) = plan
  BY <1>3, <1>4 DEF Named, FullPlan
<1>6. plan \in Seq(Goals) /\ Len(plan) \in 1..3
  BY <1>3, <1>5, PlanIs
<1> HIDE DEF plan
<1>a. 1 \in 1..Len(plan)
  <2>1. Len(plan) \in 1..3
    BY <1>6
  <2> QED BY ONLY <2>1
<1>7. r = [Idle EXCEPT !.op = op, !.path = p, !.to = q, !.plan = plan, !.pc = "resolve", !.alone = alone]
  BY DEF plan, Begun
<1>8. r \in Calls
  <2>1. [Idle EXCEPT !.op = op, !.path = p, !.to = q, !.plan = plan, !.pc = "resolve", !.alone = alone] \in Calls
    BY <1>2, <1>6 DEF Calls
  <2> QED BY <1>7, <2>1
<1>9. /\ r.op = op /\ r.path = p /\ r.to = q /\ r.plan = plan
      /\ r.look = <<>> /\ r.under = 0 /\ r.ids = <<>> /\ ~r.healed
      /\ r.pc = "resolve" /\ r.reply = NoReply /\ r.alone = alone
  BY <1>2, <1>7 DEF Calls, Idle
<1>10. Named(r) /\ FullPlan(r) = plan
  BY <1>4, <1>9 DEF Named, FullPlan, plan
<1>11. Done(r) = 0 /\ Left(r) = Len(plan) /\ plan # <<>>
  <2>1. Len(<<>>) = 0
    BY EmptySeq
  <2>2. plan # <<>>
    BY <1>6, <2>1
  <2> QED BY <1>9, <2>1, <2>2 DEF Done, Left
<1>12. ASSUME NEW lead PROVE Grounded(lead, r)
  <2>1. Done(r) + Left(r) = Len(FullPlan(r))
    BY <1>6, <1>10, <1>11
  <2>2. \A i \in 1..Left(r) : r.plan[i] = FullPlan(r)[Done(r) + i]
    <3>1. \A i \in 1..Len(plan) : 0 + i = i
      BY <1>6
    <3> QED BY <1>9, <1>10, <1>11, <3>1
  <2>3. \A i \in 1..Done(r) : FALSE
    BY <1>11
  <2>4. Walked(lead, r)
    <3>1. plan[1] \in Goals /\ plan[1].kind # "folder" => Len(plan[1].path) > 1
      <4>1. 1 \in 1..Len(FullPlan(s))
        BY <1>5, <1>a
      <4>2. FullPlan(s)[1] \in Goals /\ (FullPlan(s)[1].kind # "folder" => FullPlan(s)[1].path = s.path)
        BY <1>3, <1>5, <4>1, PlanIs
      <4> QED BY <1>3, <1>4, <1>5, <4>2
    <3>2. plan[1] \in Goals
      <4>1. 1 \in 1..Len(FullPlan(s))
        BY <1>5, <1>a
      <4> QED BY <1>3, <1>5, <4>1, PlanIs
    <3>3. FolderIn(plan[1]) \in Paths
      <4>1. plan[1].path \in Paths
        BY <3>2 DEF Goals
      <4> QED BY <3>1, <3>2, <4>1, PathsAssumption DEF FolderIn
    <3>4. FolderIn(plan[1]) \in Seq(Names) /\ Len(FolderIn(plan[1])) \in Nat
      BY <3>3, PathsAre
    <3>5. Prefix(FolderIn(plan[1]), 0) = <<>>
      <4>1. 0 \in 0..Len(FolderIn(plan[1])) /\ 0 \in 0..0
        BY <3>4
      <4> QED BY <3>4, <4>1, PrefixOfPrefix
    <3>6. Len(<<>>) = 0
      BY EmptySeq
    <3> QED BY <1>9, <3>4, <3>5, <3>6 DEF Walked
  <2> QED BY <1>10, <2>1, <2>2, <2>3, <2>4 DEF Grounded
<1> QED BY <1>8, <1>9, <1>11, <1>12 DEF plan

\* A tree without twins.
LEMMA NoTwins ==
  ASSUME Kin(nodes), ~Twins
  PROVE  \A q \in Paths : Unique(nodes, q) /\ Sole(nodes, q)
<1>1. ASSUME NEW m \in 1..Len(nodes), NEW n \in 1..Len(nodes), Seen(nodes, m), Seen(nodes, n),
             nodes[m].parent = nodes[n].parent, nodes[m].name = nodes[n].name
      PROVE  m = n
  <2>1. n \in Hits(nodes, nodes[m].parent, nodes[m].name, FALSE)
    BY <1>1 DEF Hits
  <2>2. Visible(m) /\ n \in Search(nodes[m].parent, nodes[m].name, FALSE)
    BY <1>1, <2>1, TreeNow
  <2> QED BY <2>2 DEF Twins, Ids
<1>2. ASSUME NEW q \in Paths PROVE Unique(nodes, q) /\ Sole(nodes, q)
  <2>1. q \in Seq(Names)
    BY PathsAre
  <2> QED BY <1>1, <2>1, WithoutTwins
<1> QED BY <1>2

\* What the guard of a lonely call says of the cache.
LEMMA RightIs ==
  ASSUME Kin(nodes), Led(Everywhere(nodes), cache, memo), NEW op \in Ops, NEW p \in Paths, RightFor(op, p)
  PROVE  \/ Led(Leads(nodes), cache, memo)
         \/ /\ op = "download" /\ cache[p] # 0 /\ nodes[cache[p]].state = "gone"
            /\ Led(Leads(nodes), [cache EXCEPT ![p] = 0], memo)
<1>1. /\ \A q \in Paths : At(q) = Lead(nodes, q) /\ Leads(nodes)[q] = Lead(nodes, q)
      /\ <<Root>> \in Paths
  BY TreeNow, LeadsAre, PathsAssumption
<1>2. /\ memo = 0 \/ memo \in Leads(nodes)[<<Root>>]
      /\ cache \in [Paths -> Nat] /\ memo \in Nat
  BY <1>1 DEF RightFor, Led
<1>3. \A q \in Paths : RightEntry(q) <=> cache[q] = 0 \/ cache[q] \in Leads(nodes)[q]
  BY <1>1 DEF RightEntry
<1>4. CASE \A q \in Paths : RightEntry(q)
  BY <1>2, <1>3, <1>4 DEF Led
<1>5. CASE ~ (\A q \in Paths : RightEntry(q))
  <2>1. PICK q \in Paths : ~RightEntry(q)
    BY <1>5
  <2>2. op = "download" /\ q = p /\ nodes[cache[p]].state = "gone"
    BY <2>1 DEF RightFor
  <2>3. cache[p] # 0
    BY <1>3, <2>1, <2>2
  <2> DEFINE e == [cache EXCEPT ![p] = 0]
  <2>4. e \in [Paths -> Nat] /\ e[p] = 0 /\ \A x \in Paths : x # p => e[x] = cache[x]
    BY <1>2
  <2>5. \A x \in Paths : x # p => cache[x] = 0 \/ cache[x] \in Leads(nodes)[x]
    BY <1>3 DEF RightFor
  <2> HIDE DEF e
  <2>6. Led(Leads(nodes), e, memo)
    BY <1>2, <2>4, <2>5 DEF Led
  <2> QED BY <2>2, <2>3, <2>6 DEF e
<1> QED BY <1>4, <1>5

\* A download whose file is gone finds that out.
LEMMA StaleDownload ==
  ASSUME NEW ns, Kin(ns), NEW entries, NEW id, NEW rec \in Calls, NEW p \in Paths,
         rec.op = "download", rec.path = p, rec.plan = <<Goal("file", p)>>, rec.look = <<>>, rec.ids = <<>>,
         rec.pc = "resolve", ~rec.healed,
         entries \in [Paths -> Nat], entries[p] # 0, ns[entries[p]].state = "gone",
         Led(Leads(ns), [entries EXCEPT ![p] = 0], id),
         \A q \in Paths : Unique(ns, q) /\ Sole(ns, q),
         NEW far, far = Resolve(rec, entries, id)
  PROVE  AloneInv(ns, entries, far.memo, Onto(rec, far))
<1> DEFINE n == entries[p]
           r == Reached(rec, n)
           next == Onto(rec, far)
<1>1. far.call = r /\ far.memo = id
  <2>1. far = [call |-> r, memo |-> id]
    BY CachedFile
  <2> QED BY <2>1
<1>2. n \in Nat
  OBVIOUS
<1>3. rec.plan # <<>> /\ Len(<<>>) = 0
  BY EmptySeq
<1> HIDE DEF n
<1>4. /\ r \in Calls /\ SameCall(r, rec) /\ r.pc = "resolve"
      /\ r.ids[Len(rec.ids) + 1] = n
  BY <1>2, <1>3, ReachedIs
<1>5. r.ids[1] = n
  BY <1>3, <1>4
<1> HIDE DEF r
<1>6. next = Ask(r, "act")
  BY <1>1, <1>4 DEF Onto
<1> HIDE DEF next
<1>7. /\ next \in Calls /\ SameCall(next, r) /\ next.pc = "act" /\ next.reply = NoReply /\ next.ids = r.ids
  BY <1>4, <1>6, AskIs
<1>8. next.op = "download" /\ ~next.healed /\ next.path = p /\ next.ids[1] = n
  BY <1>4, <1>5, <1>7 DEF SameCall
<1>9. Lost(ns, next)
  BY <1>7, <1>8 DEF Lost, n
<1>10. next.reply.status = "none" /\ ~Struck(next)
  BY <1>7 DEF NoReply, Struck
<1>11. Sound(ns, next)
  BY <1>7, <1>9, <1>10 DEF Sound
<1>12. Sharp(ns, next)
  BY <1>7, <1>8, <1>9, <1>10 DEF Sharp
<1>13. AloneInv(ns, entries, far.memo, next)
  BY <1>1, <1>7, <1>8, <1>9, <1>10, <1>11, <1>12 DEF AloneInv
<1> QED BY <1>13 DEF next

\* A call begins.
LEMMA Started ==
  ASSUME IInv, NEW c \in Caller, Start(c)
  PROVE  IInv'
<1>1. PICK op \in Ops, p \in Paths \ {<<Root>>} :
        \E q \in IF op \in {"copy", "move"} THEN Paths \ {<<Root>>} ELSE {p} :
          Proceed(c, [Idle EXCEPT !.op = op, !.path = p, !.to = q, !.plan = Plan(op, p, q),
                       !.pc = "resolve",
                       !.alone = /\ \A d \in Caller : call[d].pc \in {"idle", "done"}
                                 /\ RightFor(op, p) /\ ~Twins], cache, memo)
  BY DEF Start
<1> DEFINE alone == /\ \A d \in Caller : call[d].pc \in {"idle", "done"}
                    /\ RightFor(op, p) /\ ~Twins
           First(q) == [Idle EXCEPT !.op = op, !.path = p, !.to = q, !.plan = Plan(op, p, q),
                                    !.pc = "resolve", !.alone = alone]
<1>2. PICK q \in IF op \in {"copy", "move"} THEN Paths \ {<<Root>>} ELSE {p} : Proceed(c, First(q), cache, memo)
  BY <1>1
<1> DEFINE rec == First(q)
           far == Resolve(rec, cache, memo)
<1>3. nodes' = nodes /\ moved' = moved
  BY DEF Start
<1>4. q \in Paths /\ q # <<Root>> /\ p # <<Root>> /\ (op \notin {"copy", "move"} => q = p) /\ alone \in BOOLEAN
  OBVIOUS
<1>5. /\ rec \in Calls /\ rec.op = op /\ rec.path = p /\ rec.to = q /\ rec.plan = Plan(op, p, q)
      /\ rec.look = <<>> /\ rec.under = 0 /\ rec.ids = <<>> /\ ~rec.healed
      /\ rec.pc = "resolve" /\ rec.reply = NoReply /\ rec.alone = alone
      /\ rec.plan # <<>> /\ \A lead : Grounded(lead, rec)
  <2>1. rec = Begun(op, p, q, alone)
    BY DEF Begun
  <2>2. op \in Ops /\ p \in Paths
    OBVIOUS
  <2> HIDE DEF alone, rec
  <2> QED BY <1>4, <2>1, <2>2, StartIs
<1>6. /\ Kin(nodes) /\ Led(Everywhere(nodes), cache, memo) /\ (~moved => Calm(nodes, cache, memo))
      /\ cache \in [Paths -> Nat]
  BY DEF IInv, Led
<1> HIDE DEF First, far
<1>7. ASSUME rec.alone PROVE AloneInv(nodes, cache, far.memo, Onto(rec, far))
  <2>1. RightFor(op, p) /\ ~Twins
    BY <1>5, <1>7
  <2>2. \A x \in Paths : Unique(nodes, x) /\ Sole(nodes, x)
    BY <1>6, <2>1, NoTwins
  <2>3. CASE Led(Leads(nodes), cache, memo)
    <3>1. Open(nodes, rec)
      BY <1>5, <2>2 DEF Open
    <3> QED BY <1>5, <1>6, <2>3, <3>1, OntoAlone DEF far
  <2>4. CASE /\ op = "download" /\ cache[p] # 0 /\ nodes[cache[p]].state = "gone"
             /\ Led(Leads(nodes), [cache EXCEPT ![p] = 0], memo)
    <3>1. rec.plan = <<Goal("file", p)>>
      BY <1>5, <2>4 DEF Plan
    <3> QED BY <1>5, <1>6, <2>2, <2>4, <3>1, StaleDownload DEF far
  <2> QED BY <1>6, <2>1, <2>3, <2>4, RightIs
<1>8. ~moved => Led(Leads(nodes), cache, memo)
  BY <1>6 DEF Calm
<1> QED BY <1>2, <1>3, <1>5, <1>6, <1>7, <1>8, Proceeding DEF far

\* Whatever is at the path that is sought is under the id that the call has.
LEMMA UnderIt ==
  ASSUME NEW ns, Kin(ns), NEW rec \in Calls, Grounded(Leads(ns), rec), Looking(rec),
         \A q \in Paths : Sole(ns, q), rec.look # <<>> => ns[rec.under].folder \/ Unique(ns, rec.look)
  PROVE  \A n \in Lead(ns, Sought(rec)) :
           /\ n \in 1..Len(ns) /\ ns[n].parent = rec.under /\ ns[n].name = Name(Sought(rec)) /\ Seen(ns, n)
<1>1. /\ Sought(rec) # <<>> /\ Sought(rec) \in Seq(Names) /\ Front(Sought(rec)) = rec.look
      /\ IF rec.look = <<>> THEN rec.under = 0 ELSE rec.look \in Paths /\ rec.under \in Leads(ns)[rec.look]
  BY SoughtIs
<1> SUFFICES ASSUME NEW n \in Lead(ns, Sought(rec))
             PROVE  /\ n \in 1..Len(ns) /\ ns[n].parent = rec.under /\ ns[n].name = Name(Sought(rec)) /\ Seen(ns, n)
  OBVIOUS
<1>2. /\ n \in 1..Len(ns) /\ ns[n].name = Name(Sought(rec)) /\ Seen(ns, n)
      /\ ns[n].parent \in Lead(ns, rec.look)
  BY <1>1, LeadIs
<1>3. CASE rec.look = <<>>
  BY <1>1, <1>2, <1>3, LeadTop
<1>4. CASE rec.look # <<>>
  <2>1. rec.look \in Paths /\ rec.under \in Lead(ns, rec.look) /\ rec.look \in Seq(Names)
    BY <1>1, <1>4, LeadsAre, PathsAre
  <2>2. ns[n].parent # 0
    BY <1>2, <1>4, <2>1, LeadIs
  <2>3. ns[ns[n].parent].folder
    BY <1>2, <2>2 DEF Kin
  <2>4. Sole(ns, rec.look)
    BY <2>1
  <2>5. ns[n].parent = rec.under
    BY <1>2, <1>4, <2>1, <2>3, <2>4 DEF Sole, Unique
  <2> QED BY <1>2, <2>5
<1> QED BY <1>3, <1>4

\* A search that found nothing says what is not there.
LEMMA NoneThere ==
  ASSUME NEW ns, Kin(ns), NEW rec \in Calls, Grounded(Leads(ns), rec), Looking(rec), Clear(ns, rec),
         rec.pc = "search", rec.reply = Answer("ok", {})
  PROVE  /\ ~SeeksFolder(rec) => Lead(ns, Sought(rec)) = {}
         /\ \A n \in Lead(ns, Sought(rec)) : ~ns[n].folder
<1>1. Hits(ns, rec.under, Name(Sought(rec)), SeeksFolder(rec)) = {}
  BY DEF Clear, Answer
<1>2. \A n \in Lead(ns, Sought(rec)) :
           /\ n \in 1..Len(ns) /\ ns[n].parent = rec.under /\ ns[n].name = Name(Sought(rec)) /\ Seen(ns, n)
  BY UnderIt DEF Clear
<1>3. \A n \in Lead(ns, Sought(rec)) : SeeksFolder(rec) /\ ~ns[n].folder
  BY <1>1, <1>2 DEF Hits
<1> QED BY <1>3

\* Heal's call.
LEMMA HealIs ==
  ASSUME NEW rec \in Calls, Named(rec), rec.op = "download",
         NEW r, r = [Fresh(rec) EXCEPT !.healed = TRUE]
  PROVE  /\ r \in Calls /\ r.op = "download" /\ r.path = rec.path /\ r.alone = rec.alone
         /\ r.plan = <<Goal("fresh", rec.path)>> /\ r.look = <<>> /\ r.pc = "resolve"
         /\ \A lead : Grounded(lead, r)
<1> DEFINE plan == <<Goal("fresh", rec.path)>>
           none == <<>>
<1>1. /\ rec.path \in Paths /\ none \in Seq(Names) /\ none \in Seq(Nat)
      /\ Len(rec.path) > 1 /\ rec.to = rec.path /\ rec.path \in Seq(Names)
  BY EmptySeq, PathsAre DEF Calls, Named
<1>2. Goal("fresh", rec.path) \in Goals
  BY <1>1 DEF Goal, Goals
<1>3. plan \in Seq(Goals) /\ Len(plan) = 1 /\ plan[1] = Goal("fresh", rec.path)
  BY <1>2
<1>4. r = [rec EXCEPT !.plan = plan, !.ids = none, !.look = none, !.under = 0, !.pc = "resolve", !.healed = TRUE]
  BY DEF Fresh, Calls
<1> HIDE DEF plan, none
<1>5. r \in Calls
  <2>1. [rec EXCEPT !.plan = plan, !.ids = none, !.look = none, !.under = 0, !.pc = "resolve", !.healed = TRUE] \in Calls
    BY <1>1, <1>3 DEF Calls
  <2> QED BY <1>4, <2>1
<1>6. /\ r.op = rec.op /\ r.path = rec.path /\ r.to = rec.to /\ r.plan = plan /\ r.ids = none
      /\ r.look = none /\ r.under = 0 /\ r.pc = "resolve" /\ r.healed /\ r.alone = rec.alone
  BY <1>4 DEF Calls
<1>7. Named(r) /\ FullPlan(r) = plan
  BY <1>1, <1>6 DEF Named, FullPlan, plan
<1>8. Done(r) = 0 /\ Left(r) = 1
  <2>1. Len(none) = 0
    BY EmptySeq DEF none
  <2> QED BY <1>3, <1>6, <2>1 DEF Done, Left
<1>9. ASSUME NEW lead PROVE Grounded(lead, r)
  <2>1. \A i \in 1..Left(r) : r.plan[i] = FullPlan(r)[Done(r) + i]
    <3>1. \A i \in 1..1 : 0 + i = i
      OBVIOUS
    <3> QED BY <1>6, <1>7, <1>8, <3>1
  <2>2. \A i \in 1..Done(r) : FALSE
    BY <1>8
  <2>3. Done(r) + Left(r) = Len(FullPlan(r))
    BY <1>3, <1>7, <1>8
  <2>4. Walked(lead, r)
    <3>1. FolderIn(plan[1]) = Front(rec.path)
      BY <1>3 DEF FolderIn, Goal
    <3>2. Front(rec.path) \in Paths
      BY <1>1, PathsAssumption
    <3>3. Front(rec.path) \in Seq(Names) /\ Len(Front(rec.path)) \in Nat
      BY <3>2, PathsAre
    <3>4. Prefix(Front(rec.path), 0) = <<>>
      <4>1. 0 \in 0..Len(Front(rec.path)) /\ 0 \in 0..0
        BY <3>3
      <4> QED BY <3>3, <4>1, PrefixOfPrefix
    <3>5. Len(none) = 0 /\ none = <<>>
      BY EmptySeq DEF none
    <3> QED BY <1>6, <3>1, <3>3, <3>4, <3>5 DEF Walked
  <2> QED BY <1>7, <2>1, <2>2, <2>3, <2>4 DEF Grounded
<1> QED BY <1>5, <1>6, <1>9 DEF plan, none

\* A download that did not find its file looks for it once more.
LEMMA Healed ==
  ASSUME IInv, NEW c \in Caller, Heal(c)
  PROVE  IInv'
<1> DEFINE rec == call[c]
           r == [Fresh(rec) EXCEPT !.healed = TRUE]
           entries == [cache EXCEPT ![rec.path] = 0]
           far == Resolve(r, entries, memo)
<1>1. /\ rec \in Calls /\ rec.path \in Paths
      /\ Shape(nodes, moved, rec) /\ Kin(nodes) /\ Led(Everywhere(nodes), cache, memo)
      /\ rec.alone => AloneInv(nodes, cache, memo, rec)
      /\ ~moved => Calm(nodes, cache, memo)
  BY CallIs
<1>2. /\ rec.op = "download" /\ ~rec.healed /\ NotFound(rec) /\ Proceed(c, r, entries, memo)
      /\ nodes' = nodes /\ moved' = moved
  BY DEF Heal
<1> HIDE DEF rec, r, entries, far
<1>3. /\ rec.pc \in {"search", "create", "act"} /\ Active(rec) /\ Named(rec)
      /\ rec.reply.status = "missing" \/ (rec.pc = "search" /\ rec.reply = Answer("ok", {}) /\ ~SeeksFolder(rec))
  <2>1. rec.reply.status = "missing" \/ (rec.pc = "search" /\ rec.reply = Answer("ok", {}) /\ ~SeeksFolder(rec))
    BY <1>2 DEF NotFound
  <2>2. rec.pc \notin {"idle", "done"}
    BY <1>1, <2>1 DEF Shape, NoReply
  <2> QED BY <1>1, <2>1, <2>2 DEF Shape, Active, Calls
<1>4. /\ r \in Calls /\ r.op = "download" /\ r.path = rec.path /\ r.alone = rec.alone
      /\ r.plan = <<Goal("fresh", rec.path)>> /\ r.look = <<>> /\ r.pc = "resolve"
      /\ \A lead : Grounded(lead, r)
  BY <1>1, <1>2, <1>3, HealIs DEF r
<1>5. ASSUME NEW lead, Led(lead, cache, memo) PROVE Led(lead, entries, memo)
  <2>1. memo = 0 => 0 = memo
    OBVIOUS
  <2>2. memo \in {memo, 0} /\ 0 \in Nat /\ 0 = 0
    OBVIOUS
  <2>3. memo = 0 => rec.path = <<Root>> \/ 0 = memo
    OBVIOUS
  <2> QED BY <1>1, <1>5, <2>2, <2>3, Cached DEF entries
<1>6. ASSUME r.alone PROVE AloneInv(nodes, entries, far.memo, Onto(r, far))
  <2>1. AloneInv(nodes, cache, memo, rec)
    BY <1>1, <1>4, <1>6
  <2>2. ~Struck(rec)
    BY <1>2 DEF Struck, Killing
  <2>3. Led(Leads(nodes), entries, memo)
    BY <1>3, <1>5, <2>1, <2>2 DEF AloneInv, entries
  <2>4. Sharp(nodes, rec) /\ Sound(nodes, rec)
    BY <1>3, <2>1 DEF AloneInv
  <2>5. Lead(nodes, rec.path) = {} \/ \A q \in Paths : Sole(nodes, q) /\ Unique(nodes, q)
    <3>1. CASE rec.reply.status = "missing"
      BY <2>4, <3>1 DEF Sharp
    <3>2. CASE rec.pc = "search" /\ rec.reply = Answer("ok", {}) /\ ~SeeksFolder(rec)
      <4>1. Looking(rec) /\ Grounded(Leads(nodes), rec)
        BY <1>1, <2>2, <2>4, <3>2 DEF Shape, Sound, Lost
      <4>2. Sought(rec) = rec.path /\ rec.plan[1].kind # "folder"
        BY <1>1, <3>2, <4>1, SoughtIs
      <4>3. Lead(nodes, rec.path) = {} \/ Clear(nodes, rec)
        BY <2>4, <3>2, <4>2 DEF Sharp
      <4> QED BY <1>1, <3>2, <4>1, <4>2, <4>3, NoneThere
    <3> QED BY <1>3, <3>1, <3>2
  <2>6. Open(nodes, r)
    <3>1. r.plan # <<>>
      BY <1>4
    <3> QED BY <1>4, <2>5, <3>1 DEF Open
  <2> QED BY <1>1, <1>4, <2>3, <2>6, OntoAlone DEF far
<1>7. ~moved => Led(Leads(nodes), entries, memo)
  BY <1>1, <1>5 DEF Calm
<1> QED BY <1>1, <1>2, <1>4, <1>5, <1>6, <1>7, Proceeding DEF far

\* A folder that was not found is created.
LEMMA Creating ==
  ASSUME IInv, NEW c \in Caller, CreateFolder(c)
  PROVE  IInv'
<1> DEFINE rec == call[c]
           next == Ask(rec, "create")
<1>1. /\ rec \in Calls
      /\ Shape(nodes, moved, rec) /\ Kin(nodes) /\ Led(Everywhere(nodes), cache, memo) /\ moved \in BOOLEAN
      /\ rec.alone => AloneInv(nodes, cache, memo, rec)
      /\ ~moved => /\ Calm(nodes, cache, memo)
                   /\ Active(rec) => Sound(nodes, rec) /\ Grounded(Leads(nodes), rec)
  BY CallIs
<1>2. /\ rec.pc = "search" /\ rec.reply = Answer("ok", {}) /\ SeeksFolder(rec) /\ Become(c, next)
      /\ nodes' = nodes /\ moved' = moved /\ cache' = cache /\ memo' = memo
  BY DEF CreateFolder
<1> HIDE DEF rec
<1>3. /\ next \in Calls /\ SameCall(next, rec) /\ next.pc = "create" /\ next.reply = NoReply
      /\ next.plan = rec.plan /\ next.look = rec.look /\ next.under = rec.under /\ next.ids = rec.ids
  BY <1>1, AskIs
<1> HIDE DEF next
<1>4. SameWay(next, rec) /\ next.alone = rec.alone
  BY <1>3 DEF SameWay, SameCall
<1>5. /\ \A lead : Grounded(lead, next) <=> Grounded(lead, rec)
      /\ Looking(next) <=> Looking(rec)
      /\ Sought(next) = Sought(rec) /\ (SeeksFolder(next) <=> SeeksFolder(rec))
      /\ Named(next) <=> Named(rec)
  BY <1>4, SameWayIs, Zenon
<1>6. next.reply.ids = {} /\ next.reply.status = "none"
  BY <1>3 DEF NoReply
<1>7. Active(rec) /\ Grounded(Everywhere(nodes), rec) /\ Looking(rec) /\ Named(rec) /\ rec.reply.status = "ok"
  BY <1>1, <1>2 DEF Active, Shape, Answer
<1>8. Shape(nodes, moved, next)
  BY <1>2, <1>3, <1>5, <1>6, <1>7 DEF Shape, Struck
<1>9. ASSUME Grounded(Leads(nodes), rec) PROVE Sound(nodes, next)
  BY <1>3, <1>5, <1>6, <1>9 DEF Sound
<1>10. ASSUME next.alone PROVE AloneInv(nodes, cache, memo, next)
  <2>1. AloneInv(nodes, cache, memo, rec) /\ ~Struck(rec) /\ ~Lost(nodes, rec)
    BY <1>1, <1>2, <1>4, <1>10 DEF Struck, Lost
  <2>2. Sound(nodes, rec) /\ Sharp(nodes, rec) /\ Led(Leads(nodes), cache, memo) /\ Grounded(Leads(nodes), rec)
    BY <1>7, <2>1 DEF AloneInv, Sound
  <2>3. ~Lost(nodes, next) /\ ~Struck(next)
    BY <1>3 DEF Lost, Struck
  <2>4. ASSUME next.plan[1].kind # "folder" PROVE Lead(nodes, next.path) = {} \/ Clear(nodes, next)
    <3>1. Lead(nodes, rec.path) = {} \/ Clear(nodes, rec)
      BY <1>2, <1>3, <2>2, <2>4 DEF Sharp
    <3>2. next.path = rec.path
      BY <1>3 DEF SameCall
    <3>3. ASSUME Clear(nodes, rec) PROVE Clear(nodes, next)
      <4>1. \A n \in Lead(nodes, Sought(next)) : ~nodes[n].folder
        BY <1>1, <1>2, <1>5, <1>7, <2>2, <3>3, NoneThere
      <4>2. Deep(next) = Deep(rec)
        BY <1>2, <1>3, <1>6 DEF Deep
      <4> QED BY <1>3, <1>6, <3>3, <4>1, <4>2 DEF Clear
    <3> QED BY <3>1, <3>2, <3>3
  <2>5. Sharp(nodes, next)
    BY <1>3, <1>6, <2>3, <2>4 DEF Sharp
  <2> QED BY <1>3, <1>9, <2>2, <2>3, <2>5 DEF AloneInv
<1>11. ASSUME ~moved PROVE Calm(nodes, cache, memo) /\ CalmCall(nodes, next)
  BY <1>1, <1>3, <1>7, <1>9, <1>11 DEF CalmCall
<1>12. Len(nodes) <= Len(nodes)
  <2>1. Len(nodes) \in Nat
    BY <1>1, LeadsAre
  <2> QED BY <2>1
<1> QED BY <1>1, <1>2, <1>3, <1>8, <1>10, <1>11, <1>12, Frame

\* A set of one, as a sequence and as a number.
LEMMA OneOf ==
  ASSUME NEW x \in Nat
  PROVE  /\ SetToSeq({x}) \in Seq(Nat) /\ ToSet(SetToSeq({x})) = {x}
         /\ Max({x}) = x
<1> DEFINE Fits(f) == f \in [1..1 -> {x}] /\ IsInjective(f)
           g == [i \in 1..1 |-> x]
           s == CHOOSE f : Fits(f)
<1>1. Cardinality({x}) = 1
  BY FS_Singleton
<1>2. SetToSeq({x}) = CHOOSE f \in [1..1 -> {x}] : IsInjective(f)
  BY <1>1 DEF SetToSeq
<1>3. \A a, b \in 1..1 : a = b
  OBVIOUS
<1>4. Fits(g)
  <2>1. g \in [1..1 -> {x}] /\ DOMAIN g = 1..1
    OBVIOUS
  <2> HIDE DEF g
  <2> QED BY <1>3, <2>1 DEF IsInjective
<1>5. SetToSeq({x}) \in [1..1 -> {x}]
  <2> DEFINE t == CHOOSE f \in [1..1 -> {x}] : IsInjective(f)
  <2>1. \E f \in [1..1 -> {x}] : IsInjective(f)
    <3> HIDE DEF g
    <3> QED BY <1>4
  <2>2. t \in [1..1 -> {x}]
    BY <2>1
  <2> QED BY <1>2, <2>2
<1>6. SetToSeq({x}) \in Seq(Nat)
  <2>1. SetToSeq({x}) \in [1..1 -> Nat]
    BY <1>5
  <2> QED BY <2>1, FunctionIsSeq
<1>7. ToSet(SetToSeq({x})) = {x}
  <2> DEFINE t == SetToSeq({x})
  <2>1. DOMAIN t = 1..1 /\ t[1] = x /\ 1 \in 1..1
    BY <1>5
  <2> HIDE DEF t
  <2>2. {t[i] : i \in DOMAIN t} = {x}
    BY <1>3, <2>1
  <2> QED BY <2>2 DEF ToSet, t
<1>8. Max({x}) = x
  <2>1. \A y \in {x} : x >= y
    OBVIOUS
  <2> QED BY <2>1 DEF Max
<1> QED BY <1>6, <1>7, <1>8

\* A call that is over is in shape.
LEMMA EndShape ==
  ASSUME NEW ns, NEW removed, NEW rec \in Calls, Named(rec), NEW result \in {"ok", "missing", "error"},
         Killing(rec) /\ result = "ok" => removed, NEW next, next = End(rec, result)
  PROVE  /\ next \in Calls /\ Shape(ns, removed, next)
         /\ next.op = rec.op /\ next.path = rec.path /\ next.to = rec.to /\ next.ids = rec.ids
         /\ next.pc = "done" /\ next.result = result /\ next.alone = rec.alone
<1>1. /\ next \in Calls /\ next.op = rec.op /\ next.path = rec.path /\ next.to = rec.to /\ next.ids = rec.ids
      /\ next.pc = "done" /\ next.result = result /\ next.alone = rec.alone /\ ~next.healed
      /\ next.reply = NoReply
  BY EndIs
<1>2. Named(next) /\ (Killing(next) <=> Killing(rec))
  BY <1>1 DEF Named, Killing
<1>3. next.reply.ids = {} /\ next.reply.status = "none"
  BY <1>1 DEF NoReply
<1> QED BY <1>1, <1>2, <1>3 DEF Shape, Active, Struck

\* The nodes stay as they are.
LEMMA SameNodes ==
  ASSUME IInv, nodes' = nodes, moved' = moved
  PROVE  /\ Kin(nodes') /\ Len(nodes) <= Len(nodes') /\ moved' \in BOOLEAN /\ (moved => moved')
         /\ \A q \in Paths : Lead(nodes, q) \subseteq Lead(nodes', q)
<1>1. Kin(nodes) /\ moved \in BOOLEAN
  BY DEF IInv
<1>2. Len(nodes) \in Nat
  BY <1>1, LeadsAre
<1>3. Len(nodes) <= Len(nodes)
  BY <1>2
<1> QED BY <1>1, <1>3

\* The path is not there, and the call says so.
LEMMA RejectedMissing ==
  ASSUME IInv, NEW c \in Caller, RejectMissing(c)
  PROVE  IInv'
<1> DEFINE rec == call[c]
           next == End(rec, "missing")
           entries == Forgotten(rec)
<1>1. /\ rec \in Calls /\ rec.path \in Paths
      /\ Shape(nodes, moved, rec) /\ Kin(nodes) /\ Led(Everywhere(nodes), cache, memo)
      /\ rec.alone => AloneInv(nodes, cache, memo, rec)
      /\ ~moved => Calm(nodes, cache, memo)
  BY CallIs
<1>2. /\ rec.op = "download" => rec.healed
      /\ NotFound(rec) /\ Become(c, next)
      /\ nodes' = nodes /\ moved' = moved /\ cache' = entries /\ memo' = memo
  BY DEF RejectMissing
<1> HIDE DEF rec
<1>3. /\ Active(rec) /\ Named(rec) /\ rec.reply.status \in {"missing", "ok"}
      /\ rec.reply.status = "missing" \/ (rec.pc = "search" /\ rec.reply = Answer("ok", {}) /\ ~SeeksFolder(rec))
  <2>1. rec.reply.status = "missing" \/ (rec.pc = "search" /\ rec.reply = Answer("ok", {}) /\ ~SeeksFolder(rec))
    BY <1>2 DEF NotFound
  <2>2. rec.pc \notin {"idle", "done"}
    BY <1>1, <2>1 DEF Shape, NoReply
  <2> QED BY <1>1, <2>1, <2>2 DEF Shape, Active, Calls, Answer
<1>4. /\ next \in Calls /\ Shape(nodes, moved, next)
      /\ next.op = rec.op /\ next.path = rec.path
      /\ next.pc = "done" /\ next.result = "missing" /\ next.alone = rec.alone
  BY <1>1, <1>3, EndShape
<1> HIDE DEF next
<1>5. ASSUME NEW lead, Led(lead, cache, memo) PROVE Led(lead, entries, memo)
  <2>1. entries \in {cache, [cache EXCEPT ![rec.path] = 0]}
    BY DEF Forgotten
  <2>2. Led(lead, [cache EXCEPT ![rec.path] = 0], memo)
    <3>1. memo \in {memo, 0} /\ 0 \in Nat /\ 0 = 0
      OBVIOUS
    <3>2. memo = 0 => rec.path = <<Root>> \/ 0 = memo
      OBVIOUS
    <3> QED BY <1>1, <1>5, <3>1, <3>2, Cached
  <2> QED BY <1>5, <2>1, <2>2
<1> HIDE DEF entries
<1>6. ASSUME next.alone PROVE AloneInv(nodes, entries, memo, next)
  <2>1. AloneInv(nodes, cache, memo, rec)
    BY <1>1, <1>4, <1>6
  <2>2. Sound(nodes, rec) /\ Sharp(nodes, rec)
    BY <1>3, <2>1 DEF AloneInv
  <2>3. rec.pc = "search" /\ rec.reply = Answer("ok", {}) /\ ~SeeksFolder(rec)
    BY <1>2, <1>3, <2>2 DEF Sharp, Lost
  <2>4. ~Struck(rec) /\ ~Lost(nodes, rec)
    BY <2>3 DEF Struck, Lost
  <2>5. Led(Leads(nodes), entries, memo)
    BY <1>3, <1>5, <2>1, <2>4 DEF AloneInv
  <2>6. Looking(rec) /\ Grounded(Leads(nodes), rec)
    BY <1>1, <2>2, <2>3, <2>4 DEF Shape, Sound
  <2>7. Sought(rec) = rec.path /\ rec.plan[1].kind # "folder"
    BY <1>1, <2>3, <2>6, SoughtIs
  <2>8. Lead(nodes, rec.path) = {} \/ Clear(nodes, rec)
    BY <2>2, <2>3, <2>7 DEF Sharp
  <2>9. Lead(nodes, rec.path) = {}
    BY <1>1, <2>3, <2>6, <2>7, <2>8, NoneThere
  <2>10. Truth(nodes, next)
    BY <1>4, <2>9 DEF Truth
  <2>11. \A q \in Paths : Right(nodes, entries, q)
    BY <1>1, <2>5, LeadsAre DEF Led, Right
  <2> QED BY <1>4, <2>10, <2>11 DEF AloneInv, Active, Struck
<1>7. ASSUME ~moved PROVE Calm(nodes, entries, memo) /\ CalmCall(nodes, next)
  BY <1>1, <1>4, <1>5, <1>7 DEF Calm, CalmCall, Active
<1>8. /\ Kin(nodes') /\ Len(nodes) <= Len(nodes') /\ moved' \in BOOLEAN /\ (moved => moved')
      /\ \A q \in Paths : Lead(nodes, q) \subseteq Lead(nodes', q)
  BY <1>2, SameNodes
<1>9. Led(Everywhere(nodes), entries, memo)
  BY <1>1, <1>5
<1> QED BY <1>2, <1>4, <1>6, <1>7, <1>8, <1>9, Frame

\* A request is refused for good.
LEMMA Rejected ==
  ASSUME IInv, NEW c \in Caller, Reject(c)
  PROVE  IInv'
<1> DEFINE rec == call[c]
           next == End(rec, "error")
<1>1. /\ rec \in Calls
      /\ Shape(nodes, moved, rec) /\ Kin(nodes) /\ Led(Everywhere(nodes), cache, memo)
      /\ ~moved => Calm(nodes, cache, memo)
  BY CallIs
<1>2. /\ rec.reply.status \in {"refused", "unavailable"} /\ Become(c, next)
      /\ nodes' = nodes /\ moved' = moved /\ cache' = cache /\ memo' = memo
  BY DEF Reject
<1> HIDE DEF rec
<1>3. Named(rec)
  BY <1>1, <1>2 DEF Shape, NoReply
<1>4. /\ next \in Calls /\ Shape(nodes, moved, next) /\ next.pc = "done" /\ next.result = "error"
  BY <1>1, <1>3, EndShape
<1> HIDE DEF next
<1>5. AloneInv(nodes, cache, memo, next) /\ CalmCall(nodes, next)
  BY <1>4 DEF AloneInv, CalmCall, Active, Struck, Truth
<1>6. /\ Kin(nodes') /\ Len(nodes) <= Len(nodes') /\ moved' \in BOOLEAN /\ (moved => moved')
      /\ \A q \in Paths : Lead(nodes, q) \subseteq Lead(nodes', q)
  BY <1>2, SameNodes
<1> QED BY <1>1, <1>2, <1>4, <1>5, <1>6, Frame

\* A request is made once more.
LEMMA Retried ==
  ASSUME IInv, NEW c \in Caller, Retry(c)
  PROVE  IInv'
<1> DEFINE rec == call[c]
           next == [rec EXCEPT !.attempt = @ + 1, !.reply = NoReply, !.alone = FALSE]
<1>1. /\ rec \in Calls
      /\ Shape(nodes, moved, rec) /\ Kin(nodes) /\ Led(Everywhere(nodes), cache, memo)
      /\ ~moved => /\ Calm(nodes, cache, memo)
                   /\ Active(rec) => Sound(nodes, rec) /\ Grounded(Leads(nodes), rec)
  BY CallIs
<1>2. /\ rec.reply.status = "unavailable" /\ Become(c, next)
      /\ nodes' = nodes /\ moved' = moved /\ cache' = cache /\ memo' = memo
  BY DEF Retry
<1> HIDE DEF rec
<1>3. NoReply \in Replies /\ NoReply.status = "none" /\ NoReply.ids = {}
  BY DEF NoReply, Replies
<1>4. next \in Calls
  <2>1. rec.attempt + 1 \in Nat
    BY <1>1 DEF Calls
  <2>2. [rec EXCEPT !.attempt = rec.attempt + 1, !.reply = NoReply, !.alone = FALSE] \in Calls
    BY <1>1, <1>3, <2>1 DEF Calls
  <2> QED BY <2>2
<1>5. SameWay(next, rec) /\ next.pc = rec.pc /\ next.reply = NoReply /\ ~next.alone /\ next.result = rec.result
  BY <1>1 DEF Calls, SameWay
<1> HIDE DEF next
<1>6. /\ \A lead : Grounded(lead, next) <=> Grounded(lead, rec)
      /\ Looking(next) <=> Looking(rec)
      /\ Sought(next) = Sought(rec) /\ (SeeksFolder(next) <=> SeeksFolder(rec))
      /\ Named(next) <=> Named(rec)
  BY <1>5, SameWayIs, Zenon
<1>7. Active(rec) /\ Active(next) /\ rec.pc # "done" /\ next.plan = rec.plan /\ next.op = rec.op
  BY <1>1, <1>2, <1>3, <1>5 DEF Shape, Active, Calls, SameWay
<1>8. Shape(nodes, moved, next)
  BY <1>1, <1>3, <1>5, <1>6, <1>7 DEF Shape, Struck
<1>9. ~moved => CalmCall(nodes, next)
  <2> SUFFICES ASSUME ~moved PROVE CalmCall(nodes, next)
    OBVIOUS
  <2>1. Grounded(Leads(nodes), next)
    BY <1>1, <1>6, <1>7
  <2> QED BY <1>3, <1>5, <1>7, <2>1 DEF CalmCall, Sound
<1>10. /\ Kin(nodes') /\ Len(nodes) <= Len(nodes') /\ moved' \in BOOLEAN /\ (moved => moved')
       /\ \A q \in Paths : Lead(nodes, q) \subseteq Lead(nodes', q)
  BY <1>2, SameNodes
<1> QED BY <1>1, <1>2, <1>4, <1>5, <1>8, <1>9, <1>10, Frame

\* What OnActed leaves in the cache.
Entries(rec, x) ==
  CASE rec.op \in {"upload", "copy"} -> [cache EXCEPT ![rec.to] = x]
    [] rec.op \in {"delete", "trash"} -> [cache EXCEPT ![rec.path] = 0]
    [] rec.op = "move" -> [cache EXCEPT ![rec.path] = 0, ![rec.to] = rec.ids[1]]
    [] OTHER -> cache

\* The same, entry by entry.
LEMMA EntriesAre ==
  ASSUME NEW rec, NEW x \in Nat, cache \in [Paths -> Nat], rec.path \in Paths, rec.to \in Paths,
         rec.op = "move" => rec.ids[1] \in Nat, NEW e, e = Entries(rec, x)
  PROVE  /\ e \in [Paths -> Nat]
         /\ rec.op \in {"upload", "copy"} =>
              e[rec.to] = x /\ \A q \in Paths : q # rec.to => e[q] = cache[q]
         /\ rec.op \in {"delete", "trash"} =>
              e[rec.path] = 0 /\ \A q \in Paths : q # rec.path => e[q] = cache[q]
         /\ rec.op = "move" =>
              /\ e[rec.to] = rec.ids[1]
              /\ rec.path # rec.to => e[rec.path] = 0
              /\ \A q \in Paths : q # rec.path /\ q # rec.to => e[q] = cache[q]
         /\ rec.op \notin {"upload", "copy", "delete", "trash", "move"} => e = cache
<1>1. CASE rec.op \in {"upload", "copy"}
  <2>1. e = [cache EXCEPT ![rec.to] = x]
    BY <1>1 DEF Entries
  <2> QED BY <1>1, <2>1
<1>2. CASE rec.op \in {"delete", "trash"}
  <2>1. e = [cache EXCEPT ![rec.path] = 0]
    BY <1>2 DEF Entries
  <2> QED BY <1>2, <2>1
<1>3. CASE rec.op = "move"
  <2> DEFINE p == rec.path
             t == rec.to
             n == rec.ids[1]
  <2>1. e = [cache EXCEPT ![p] = 0, ![t] = n]
    BY <1>3 DEF Entries
  <2>2. p \in Paths /\ t \in Paths /\ n \in Nat
    BY <1>3
  <2> HIDE DEF p, t, n
  <2>3. e \in [Paths -> Nat] /\ e[t] = n /\ (p # t => e[p] = 0) /\ \A q \in Paths : q # p /\ q # t => e[q] = cache[q]
    BY <2>1, <2>2
  <2> QED BY <1>3, <2>3 DEF p, t, n
<1>4. CASE rec.op \notin {"upload", "copy", "delete", "trash", "move"}
  <2>1. e = cache
    BY <1>4 DEF Entries
  <2> QED BY <1>4, <2>1
<1> QED BY <1>1, <1>2, <1>3, <1>4

\* The adapter's request was answered.
LEMMA Acted ==
  ASSUME IInv, NEW c \in Caller, OnActed(c)
  PROVE  IInv'
<1> DEFINE rec == call[c]
           x == CHOOSE y \in rec.reply.ids : TRUE
           last == [rec EXCEPT !.ids = SetToSeq(rec.reply.ids)]
           next == End(last, "ok")
           entries == Entries(rec, x)
<1>1. /\ rec \in Calls /\ rec.path \in Paths /\ rec.to \in Paths
      /\ Shape(nodes, moved, rec) /\ Kin(nodes) /\ Led(Everywhere(nodes), cache, memo)
      /\ rec.alone => AloneInv(nodes, cache, memo, rec)
      /\ ~moved => Calm(nodes, cache, memo) /\ ~Struck(rec) /\ (Active(rec) => Sound(nodes, rec))
  BY CallIs
<1>2. /\ rec.pc = "act" /\ rec.reply.status = "ok" /\ Become(c, next)
      /\ nodes' = nodes /\ moved' = moved /\ memo' = memo
      /\ cache' = CASE rec.op \in {"upload", "copy"} -> [cache EXCEPT ![rec.to] = Max(rec.reply.ids)]
                    [] rec.op \in {"delete", "trash"} -> [cache EXCEPT ![rec.path] = 0]
                    [] rec.op = "move" -> [cache EXCEPT ![rec.path] = 0, ![rec.to] = rec.ids[1]]
                    [] OTHER -> cache
  BY DEF OnActed
<1> HIDE DEF rec
<1>3. /\ Active(rec) /\ Named(rec) /\ rec.plan = <<>> /\ rec.op # "exists"
      /\ Grounded(Everywhere(nodes), rec) /\ (Struck(rec) <=> Killing(rec)) /\ (Killing(rec) => moved)
      /\ \E y \in 1..Len(nodes) : rec.reply.ids = {y}
  BY <1>1, <1>2 DEF Active, Shape, Struck
<1>4. rec.reply.ids = {x} /\ x \in 1..Len(nodes) /\ x \in Nat
  BY <1>3
<1> HIDE DEF x
<1>5. cache' = entries
  <2>1. Max(rec.reply.ids) = x
    BY <1>4, OneOf
  <2> QED BY <1>2, <2>1 DEF Entries
<1>6. /\ last \in Calls /\ ToSet(last.ids) = {x}
      /\ last.op = rec.op /\ last.path = rec.path /\ last.to = rec.to /\ last.healed = rec.healed
      /\ last.alone = rec.alone
  <2> DEFINE ids == SetToSeq(rec.reply.ids)
  <2>1. ids \in Seq(Nat) /\ ToSet(ids) = {x}
    BY <1>4, OneOf
  <2> HIDE DEF ids
  <2>2. [rec EXCEPT !.ids = ids] \in Calls
    BY <1>1, <2>1 DEF Calls
  <2>3. last = [rec EXCEPT !.ids = ids]
    BY DEF ids
  <2> HIDE DEF last
  <2>4. last.ids = ids
    BY <1>1, <2>3 DEF Calls
  <2>5. /\ last.op = rec.op /\ last.path = rec.path /\ last.to = rec.to /\ last.healed = rec.healed
        /\ last.alone = rec.alone
    BY <1>1, <2>3 DEF Calls
  <2> QED BY <2>1, <2>2, <2>3, <2>4, <2>5
<1> HIDE DEF last
<1>7. Named(last) /\ (Killing(last) <=> Killing(rec))
  BY <1>3, <1>6 DEF Named, Killing
<1>8. /\ next \in Calls /\ Shape(nodes, moved, next)
      /\ next.op = rec.op /\ next.path = rec.path /\ next.to = rec.to /\ ToSet(next.ids) = {x}
      /\ next.pc = "done" /\ next.result = "ok" /\ next.alone = rec.alone
  <2>1. /\ last \in Calls /\ Named(last) /\ "ok" \in {"ok", "missing", "error"}
        /\ Killing(last) /\ "ok" = "ok" => moved
    BY <1>3, <1>6, <1>7
  <2>2. next = End(last, "ok")
    OBVIOUS
  <2> HIDE DEF next
  <2>3. /\ next \in Calls /\ Shape(nodes, moved, next)
        /\ next.op = last.op /\ next.path = last.path /\ next.to = last.to /\ next.ids = last.ids
        /\ next.pc = "done" /\ next.result = "ok" /\ next.alone = last.alone
    BY <2>1, <2>2, EndShape
  <2> QED BY <1>6, <2>3
<1> HIDE DEF next
<1>9. cache \in [Paths -> Nat] /\ memo \in Nat
  BY <1>1 DEF Led
<1>10. rec.op = "move" => rec.ids[1] \in 1..Len(nodes) /\ rec.ids[1] \in Nat
  BY <1>1, <1>3, ActingIs, LeadsAre
<1>11. /\ entries \in [Paths -> Nat]
       /\ rec.op \in {"upload", "copy"} =>
            entries[rec.to] = x /\ \A q \in Paths : q # rec.to => entries[q] = cache[q]
       /\ rec.op \in {"delete", "trash"} =>
            entries[rec.path] = 0 /\ \A q \in Paths : q # rec.path => entries[q] = cache[q]
       /\ rec.op = "move" =>
            /\ entries[rec.to] = rec.ids[1]
            /\ rec.path # rec.to => entries[rec.path] = 0
            /\ \A q \in Paths : q # rec.path /\ q # rec.to => entries[q] = cache[q]
       /\ rec.op \notin {"upload", "copy", "delete", "trash", "move"} => entries = cache
  BY <1>1, <1>4, <1>9, <1>10, EntriesAre
<1> HIDE DEF entries
<1>12. Led(Everywhere(nodes), entries, memo)
  <2>1. ASSUME NEW q \in Paths PROVE entries[q] = 0 \/ entries[q] \in Everywhere(nodes)[q]
    <3>1. Everywhere(nodes)[q] = 1..Len(nodes) /\ (cache[q] = 0 \/ cache[q] \in Everywhere(nodes)[q])
      BY <1>1, LeadsAre DEF Led
    <3>2. entries[q] \in {0, x, cache[q]} \/ (rec.op = "move" /\ entries[q] = rec.ids[1])
      BY <1>11
    <3> QED BY <1>4, <1>10, <3>1, <3>2
  <2> QED BY <1>1, <1>11, <2>1 DEF Led
<1>13. ASSUME Effect(nodes, rec) PROVE Truth(nodes, next)
  <2>1. rec.op \in Ops /\ (rec.op \notin {"copy", "move"} => rec.to = rec.path)
    BY <1>1, <1>3 DEF Calls, Named
  <2>2. CASE rec.op \in {"upload", "copy", "createFolder"}
    <3>1. x \in Lead(nodes, rec.to)
      BY <1>4, <1>13, <2>1, <2>2 DEF Effect
    <3> QED BY <1>8, <2>2, <3>1 DEF Truth
  <2>3. CASE rec.op \in {"delete", "trash"}
    BY <1>8, <1>13, <2>3 DEF Truth, Effect
  <2>4. CASE rec.op = "move"
    <3>1. x = rec.ids[1] /\ x \in Lead(nodes, rec.to)
      BY <1>4, <1>13, <2>4 DEF Effect
    <3>2. rec.path # rec.to => x \notin Lead(nodes, rec.path)
      <4>1. rec.path \in Seq(Names) /\ rec.to \in Seq(Names)
        BY <1>1, PathsAre
      <4> QED BY <1>1, <3>1, <4>1, LeadUnique
    <3> QED BY <1>8, <2>4, <3>1, <3>2 DEF Truth
  <2>5. CASE rec.op \in {"download", "read", "exists"}
    <3>1. x \in Lead(nodes, rec.path)
      BY <1>3, <1>4, <1>13, <2>5 DEF Effect
    <3> QED BY <1>8, <2>5, <3>1 DEF Truth
  <2> QED BY <2>1, <2>2, <2>3, <2>4, <2>5 DEF Ops
<1>14. ASSUME Effect(nodes, rec), NEW q \in Paths, Right(nodes, cache, q) \/ (Killing(rec) /\ IsPrefix(rec.path, q))
       PROVE  Right(nodes, entries, q) \/ (Killing(rec) /\ IsStrictPrefix(rec.path, q))
  <2>1. CASE rec.op \in {"upload", "copy"}
    <3>1. x \in Lead(nodes, rec.to) /\ ~Killing(rec)
      BY <1>4, <1>14, <2>1 DEF Effect, Killing
    <3> QED BY <1>11, <1>14, <2>1, <3>1 DEF Right
  <2>2. CASE rec.op \in {"delete", "trash"}
    BY <1>11, <1>14, <2>2 DEF Right, IsStrictPrefix
  <2>3. CASE rec.op = "move"
    <3>1. rec.ids[1] \in Lead(nodes, rec.to)
      BY <1>14, <2>3 DEF Effect
    <3> QED BY <1>11, <1>14, <2>3, <3>1 DEF Right, IsStrictPrefix
  <2>4. CASE rec.op \notin {"upload", "copy", "delete", "trash", "move"}
    BY <1>11, <1>14, <2>4 DEF Right, Killing
  <2> QED BY <2>1, <2>2, <2>3, <2>4
<1>15. ASSUME next.alone PROVE AloneInv(nodes, entries, memo, next)
  <2>1. AloneInv(nodes, cache, memo, rec)
    BY <1>1, <1>8, <1>15
  <2>2. Sound(nodes, rec) /\ Sharp(nodes, rec)
    BY <1>3, <2>1 DEF AloneInv
  <2>3. Effect(nodes, rec) /\ ~Lost(nodes, rec)
    BY <1>2, <2>2 DEF Sound, Sharp
  <2>4. \A q \in Paths : Right(nodes, cache, q) \/ (Killing(rec) /\ IsPrefix(rec.path, q))
    <3>1. CASE Struck(rec)
      BY <1>3, <2>1, <3>1 DEF AloneInv
    <3>2. CASE ~Struck(rec)
      <4>1. Led(Leads(nodes), cache, memo)
        BY <1>3, <2>1, <2>3, <3>2 DEF AloneInv
      <4> QED BY <1>1, <4>1, LeadsAre DEF Led, Right
    <3> QED BY <3>1, <3>2
  <2>5. Killing(next) <=> Killing(rec)
    BY <1>8 DEF Killing
  <2>6. \A q \in Paths : Right(nodes, entries, q) \/ (Killing(next) /\ IsStrictPrefix(next.path, q))
    BY <1>8, <1>14, <2>3, <2>4, <2>5
  <2> QED BY <1>8, <1>13, <2>3, <2>6 DEF AloneInv, Active, Struck
<1>16. ASSUME ~moved PROVE Calm(nodes, entries, memo) /\ CalmCall(nodes, next)
  <2>1. Effect(nodes, rec) /\ ~Killing(rec)
    BY <1>1, <1>2, <1>3, <1>16 DEF Sound
  <2>2. Led(Leads(nodes), cache, memo)
    BY <1>1, <1>16 DEF Calm
  <2>3. \A q \in Paths : Right(nodes, cache, q) /\ Lead(nodes, q) = Leads(nodes)[q]
    BY <1>1, <2>2, LeadsAre DEF Led, Right
  <2>4. \A q \in Paths : Right(nodes, entries, q)
    BY <1>14, <2>1, <2>3
  <2>5. Led(Leads(nodes), entries, memo)
    BY <1>11, <2>2, <2>3, <2>4 DEF Led, Right
  <2> QED BY <1>1, <1>8, <1>13, <1>16, <2>1, <2>5 DEF Calm, CalmCall, Active
<1>17. /\ Kin(nodes') /\ Len(nodes) <= Len(nodes') /\ moved' \in BOOLEAN /\ (moved => moved')
       /\ \A q \in Paths : Lead(nodes, q) \subseteq Lead(nodes', q)
  BY <1>2, SameNodes
<1> QED BY <1>2, <1>5, <1>8, <1>12, <1>15, <1>16, <1>17, Frame

-----------------------------------------------------------------------------
(* The steps of Drive.                                                     *)

\* An answer changes nothing else of a call, but a lost one its solitude.
LEMMA AnswerIs ==
  ASSUME NEW rec \in Calls, NEW answer \in Replies
  PROVE  /\ LET r == [rec EXCEPT !.reply = answer]
            IN  /\ r \in Calls /\ SameWay(r, rec) /\ r.pc = rec.pc /\ r.reply = answer
                /\ r.alone = rec.alone /\ r.result = rec.result
         /\ LET r == [rec EXCEPT !.reply = answer, !.alone = FALSE]
            IN  /\ r \in Calls /\ SameWay(r, rec) /\ r.pc = rec.pc /\ r.reply = answer
                /\ ~r.alone /\ r.result = rec.result
<1>1. [rec EXCEPT !.reply = answer] \in Calls /\ [rec EXCEPT !.reply = answer, !.alone = FALSE] \in Calls
  BY DEF Calls
<1> DEFINE r == [rec EXCEPT !.reply = answer]
           s == [rec EXCEPT !.reply = answer, !.alone = FALSE]
<1>2. SameWay(r, rec) /\ r.pc = rec.pc /\ r.reply = answer /\ r.alone = rec.alone /\ r.result = rec.result
  BY DEF Calls, SameWay
<1>3. SameWay(s, rec) /\ s.pc = rec.pc /\ s.reply = answer /\ ~s.alone /\ s.result = rec.result
  BY DEF Calls, SameWay
<1> QED BY <1>1, <1>2, <1>3

\* A call that waits for its answer keeps its shape when the answer comes.
LEMMA AnswerShape ==
  ASSUME NEW ns, NEW ms, Kin(ns), Kin(ms), Len(ns) <= Len(ms), NEW removed, NEW gone,
         NEW rec \in Calls, Shape(ns, removed, rec), Active(rec),
         NEW answer \in Replies, answer.ids \subseteq 1..Len(ms), answer.status # "ok" => answer.ids = {},
         rec.pc = "act" /\ answer.status = "ok" => \E x \in 1..Len(ms) : answer.ids = {x},
         rec.pc = "act" /\ answer.status = "ok" /\ Killing(rec) => gone,
         NEW r \in Calls, SameWay(r, rec), r.pc = rec.pc, r.reply = answer
  PROVE  Shape(ms, gone, r)
<1>1. /\ Named(r) <=> Named(rec)
      /\ \A lead : Grounded(lead, r) <=> Grounded(lead, rec)
      /\ Looking(r) <=> Looking(rec)
      /\ SeeksFolder(r) <=> SeeksFolder(rec)
      /\ Killing(r) <=> Killing(rec)
  BY SameWayIs, Zenon
<1>2. r.op = rec.op /\ r.plan = rec.plan
  BY DEF SameWay
<1>3. Active(r) /\ rec.pc \notin {"idle", "resolve", "done"}
  BY DEF Active
<1>4. Grounded(Everywhere(ns), rec) /\ Named(rec)
  BY <1>3 DEF Shape
<1>5. Grounded(Everywhere(ms), r)
  <2>1. 1..Len(ns) \subseteq 1..Len(ms)
    <3>1. Len(ns) \in Nat /\ Len(ms) \in Nat
      BY LeadsAre
    <3> QED BY <3>1
  <2>2. \A q \in Paths : Everywhere(ns)[q] \subseteq Everywhere(ms)[q]
    BY <2>1 DEF Everywhere
  <2> QED BY <1>1, <1>4, <2>2, GroundedMore
<1>6. r.pc \in {"search", "create"} => Looking(r)
  BY <1>1 DEF Shape
<1>7. r.pc = "create" => SeeksFolder(r)
  BY <1>1 DEF Shape
<1>8. r.pc = "act" => r.plan = <<>> /\ r.op # "exists"
  BY <1>2 DEF Shape
<1>9. Killing(r) /\ Struck(r) => gone
  BY <1>1 DEF Struck
<1> QED BY <1>1, <1>3, <1>4, <1>5, <1>6, <1>7, <1>8, <1>9 DEF Shape

\* A request is answered, or its answer is lost.
LEMMA Responded ==
  ASSUME IInv, NEW c \in Caller, NEW rec, rec = call[c], Active(rec), NEW answer \in Replies,
         \/ Become(c, [rec EXCEPT !.reply = answer])
         \/ \E status \in {"unavailable", "refused"} :
              Become(c, [rec EXCEPT !.reply = Answer(status, {}), !.alone = FALSE]),
         cache' = cache, memo' = memo, Kin(nodes'), Len(nodes) <= Len(nodes'),
         moved' \in BOOLEAN, moved => moved',
         answer.ids \subseteq 1..Len(nodes'), answer.status # "ok" => answer.ids = {},
         rec.pc = "act" /\ answer.status = "ok" => \E x \in 1..Len(nodes') : answer.ids = {x},
         rec.pc = "act" /\ answer.status = "ok" /\ Killing(rec) => moved',
         NEW r, r = [rec EXCEPT !.reply = answer],
         r.alone => AloneInv(nodes', cache, memo, r),
         ~moved' => /\ \A n \in 1..Len(nodes') : nodes'[n].state = "live"
                    /\ \A q \in Paths : Lead(nodes, q) \subseteq Lead(nodes', q)
                    /\ CalmCall(nodes', r)
  PROVE  IInv'
<1>1. /\ rec \in Calls
      /\ Shape(nodes, moved, rec) /\ Kin(nodes) /\ Led(Everywhere(nodes), cache, memo)
      /\ ~moved => /\ Calm(nodes, cache, memo)
                   /\ Active(rec) => Sound(nodes, rec) /\ Grounded(Leads(nodes), rec)
  BY CallIs
<1>2. 1..Len(nodes) \subseteq 1..Len(nodes')
  <2>1. Len(nodes) \in Nat /\ Len(nodes') \in Nat
    BY <1>1, LeadsAre
  <2> QED BY <2>1
<1>3. Led(Everywhere(nodes'), cache', memo')
  <2>1. \A q \in Paths : Everywhere(nodes)[q] \subseteq Everywhere(nodes')[q]
    BY <1>2 DEF Everywhere
  <2>2. Led(Everywhere(nodes'), cache, memo)
    BY <1>1, <2>1, GroundedMore
  <2> QED BY <2>2
<1>4. ASSUME ~moved' PROVE Calm(nodes', cache', memo') /\ \A q \in Paths : Leads(nodes)[q] \subseteq Leads(nodes')[q]
  <2>1. \A q \in Paths : Leads(nodes)[q] \subseteq Leads(nodes')[q]
    BY <1>4 DEF Leads
  <2>2. Led(Leads(nodes), cache, memo)
    BY <1>1, <1>4 DEF Calm
  <2>3. Led(Leads(nodes'), cache, memo)
    BY <2>1, <2>2, GroundedMore
  <2> QED BY <1>4, <2>1, <2>3 DEF Calm
<1>5. CASE Become(c, [rec EXCEPT !.reply = answer])
  <2>1. /\ r \in Calls /\ SameWay(r, rec) /\ r.pc = rec.pc /\ r.reply = answer
        /\ r.alone = rec.alone /\ r.result = rec.result
    BY <1>1, AnswerIs
  <2>2. Become(c, r)
    BY <1>5
  <2>3. Shape(nodes', moved', r)
    BY <1>1, <2>1, AnswerShape
  <2>4. r.alone => AloneInv(nodes', cache', memo', r)
    OBVIOUS
  <2>5. ~moved' => /\ Calm(nodes', cache', memo') /\ CalmCall(nodes', r)
                   /\ \A q \in Paths : Lead(nodes, q) \subseteq Lead(nodes', q)
    BY <1>4
  <2> QED BY <1>3, <2>1, <2>2, <2>3, <2>4, <2>5, Frame
<1>6. CASE \E status \in {"unavailable", "refused"} :
             Become(c, [rec EXCEPT !.reply = Answer(status, {}), !.alone = FALSE])
  <2>1. PICK status \in {"unavailable", "refused"} :
          Become(c, [rec EXCEPT !.reply = Answer(status, {}), !.alone = FALSE])
    BY <1>6
  <2> DEFINE none == Answer(status, {})
             next == [rec EXCEPT !.reply = none, !.alone = FALSE]
  <2>2. none \in Replies /\ none.status # "ok" /\ none.status = status /\ none.ids = {} /\ none.ids \subseteq 1..Len(nodes')
    BY DEF Answer, Replies
  <2> HIDE DEF none
  <2>3. /\ next \in Calls /\ SameWay(next, rec) /\ next.pc = rec.pc /\ next.reply = none
        /\ ~next.alone /\ next.result = rec.result
    BY <1>1, <2>2, AnswerIs
  <2>4. Become(c, next)
    BY <2>1 DEF none
  <2> HIDE DEF next
  <2>5. Shape(nodes', moved', next)
    BY <1>1, <2>2, <2>3, AnswerShape
  <2>6. ASSUME ~moved' PROVE CalmCall(nodes', next)
    <3>1. Grounded(Leads(nodes), rec) /\ Active(rec)
      BY <1>1, <2>6
    <3>2. Grounded(Leads(nodes'), rec)
      BY <1>1, <1>4, <2>6, <3>1, GroundedMore
    <3>3. Grounded(Leads(nodes'), next)
      BY <2>3, <3>2, SameWayIs
    <3>4. Sound(nodes', next)
      BY <2>2, <2>3, <3>3 DEF Sound
    <3>5. next.pc # "done"
      BY <2>3 DEF Active
    <3> QED BY <3>4, <3>5 DEF CalmCall
  <2>7. ~moved' => /\ Calm(nodes', cache', memo') /\ CalmCall(nodes', next)
                   /\ \A q \in Paths : Lead(nodes, q) \subseteq Lead(nodes', q)
    BY <1>4, <2>6
  <2> QED BY <1>3, <2>3, <2>4, <2>5, <2>7, Frame
<1> QED BY <1>5, <1>6

\* An answer that says that nothing was done.
LEMMA Unserved ==
  ASSUME IInv, NEW c \in Caller, Active(call[c]), call[c].reply = NoReply,
         NEW status \in {"missing", "refused"},
         status = "missing" /\ call[c].alone => Lost(nodes, call[c]),
         \/ Become(c, [call[c] EXCEPT !.reply = Answer(status, {})])
         \/ \E s \in {"unavailable", "refused"} :
              Become(c, [call[c] EXCEPT !.reply = Answer(s, {}), !.alone = FALSE]),
         nodes' = nodes, moved' = moved, cache' = cache, memo' = memo
  PROVE  IInv'
<1> DEFINE rec == call[c]
           none == Answer(status, {})
           r == [rec EXCEPT !.reply = none]
<1>1. /\ rec \in Calls
      /\ Shape(nodes, moved, rec) /\ Kin(nodes)
      /\ rec.alone => AloneInv(nodes, cache, memo, rec)
      /\ ~moved => /\ Calm(nodes, cache, memo)
                   /\ Active(rec) => Sound(nodes, rec) /\ Grounded(Leads(nodes), rec)
  BY CallIs
<1>2. none \in Replies /\ none.status # "ok" /\ none.status = status /\ none.ids = {}
  BY DEF Answer, Replies
<1>3. rec.reply.status = "none" /\ Active(rec) /\ (status = "missing" /\ rec.alone => Lost(nodes, rec))
  BY DEF NoReply
<1>4. \/ Become(c, [rec EXCEPT !.reply = none])
      \/ \E s \in {"unavailable", "refused"} :
           Become(c, [rec EXCEPT !.reply = Answer(s, {}), !.alone = FALSE])
  OBVIOUS
<1> HIDE DEF rec, none
<1>5. /\ r \in Calls /\ SameWay(r, rec) /\ r.pc = rec.pc /\ r.reply = none
      /\ r.alone = rec.alone /\ r.result = rec.result
  BY <1>1, <1>2, AnswerIs
<1> HIDE DEF r
<1>6. /\ r.op = rec.op /\ r.path = rec.path /\ r.plan = rec.plan /\ r.look = rec.look /\ r.under = rec.under
      /\ r.ids = rec.ids /\ r.healed = rec.healed
  BY <1>5 DEF SameWay
<1>7. /\ \A lead : Grounded(lead, r) <=> Grounded(lead, rec)
      /\ Sought(r) = Sought(rec)
  BY <1>5, SameWayIs, Zenon
<1>8. (Active(r) <=> Active(rec)) /\ ~Struck(r) /\ ~Struck(rec) /\ (Lost(nodes, r) <=> Lost(nodes, rec))
  BY <1>2, <1>3, <1>5, <1>6 DEF Active, Struck, Lost
<1>9. ASSUME r.alone PROVE AloneInv(nodes, cache, memo, r)
  <2>1. AloneInv(nodes, cache, memo, rec)
    BY <1>1, <1>5, <1>9
  <2>2. Sound(nodes, rec) /\ Sharp(nodes, rec)
    BY <1>3, <2>1 DEF AloneInv
  <2>3. Sound(nodes, r)
    BY <1>2, <1>5, <1>7, <1>8, <2>2 DEF Sound
  <2>4. ASSUME Clear(nodes, rec) PROVE Clear(nodes, r)
    <3>1. Deep(r) = Deep(rec)
      BY <1>2, <1>3, <1>5, <1>6 DEF Deep
    <3> QED BY <1>2, <1>3, <1>5, <1>6, <1>7, <2>4, <3>1 DEF Clear
  <2>5. Sharp(nodes, r)
    BY <1>2, <1>3, <1>5, <1>6, <1>8, <1>9, <2>2, <2>4 DEF Sharp
  <2>6. r.pc # "done"
    BY <1>3, <1>5 DEF Active
  <2> QED BY <1>3, <1>6, <1>8, <2>1, <2>3, <2>5, <2>6 DEF AloneInv
<1>10. ASSUME ~moved PROVE CalmCall(nodes, r)
  <2>1. Grounded(Leads(nodes), r)
    BY <1>1, <1>3, <1>7, <1>10
  <2>2. Sound(nodes, r)
    BY <1>2, <1>5, <2>1 DEF Sound
  <2>3. r.pc # "done"
    BY <1>3, <1>5 DEF Active
  <2> QED BY <2>2, <2>3 DEF CalmCall
<1>11. /\ Kin(nodes') /\ Len(nodes) <= Len(nodes') /\ moved' \in BOOLEAN /\ (moved => moved')
       /\ \A q \in Paths : Lead(nodes, q) \subseteq Lead(nodes', q)
  BY SameNodes
<1>12. ~moved' => \A n \in 1..Len(nodes') : nodes'[n].state = "live"
  BY <1>1 DEF Calm
<1>13. none.ids \subseteq 1..Len(nodes')
  BY <1>2
<1>14. rec = call[c] /\ r = [rec EXCEPT !.reply = none]
  BY DEF rec, r
<1>15. r.alone => AloneInv(nodes', cache, memo, r)
  BY <1>9
<1>16. ~moved' => /\ \A n \in 1..Len(nodes') : nodes'[n].state = "live"
                  /\ \A q \in Paths : Lead(nodes, q) \subseteq Lead(nodes', q)
                  /\ CalmCall(nodes', r)
  BY <1>10, <1>11, <1>12
<1> QED BY <1>2, <1>3, <1>4, <1>11, <1>13, <1>14, <1>15, <1>16, Responded

\* What a call knows rightly is not gone.
LEMMA NotGone ==
  ASSUME NEW ns, Kin(ns), NEW rec \in Calls, Grounded(Leads(ns), rec)
  PROVE  /\ rec.plan # <<>> => rec.under = 0 \/ ns[rec.under].state = "live"
         /\ \A q \in Paths : \A n \in Leads(ns)[q] : ns[n].state = "live"
<1>1. \A q \in Paths : \A n \in Leads(ns)[q] : ns[n].state = "live"
  BY LeadsAre
<1>2. ASSUME rec.plan # <<>> PROVE rec.under = 0 \/ ns[rec.under].state = "live"
  <2>1. Walked(Leads(ns), rec) /\ (rec.look # <<>> => rec.look \in Paths)
    BY <1>2, LookIs DEF Grounded
  <2> QED BY <1>1, <2>1 DEF Walked
<1> QED BY <1>1, <1>2

\* What a search finds is where it was sought.
LEMMA HitsLead ==
  ASSUME NEW ns, Kin(ns), NEW rec \in Calls, Grounded(Leads(ns), rec), Looking(rec), NEW f \in BOOLEAN
  PROVE  Hits(ns, rec.under, Name(Sought(rec)), f) \subseteq Lead(ns, Sought(rec))
<1>1. /\ Sought(rec) # <<>> /\ Sought(rec) \in Seq(Names) /\ Front(Sought(rec)) = rec.look
      /\ IF rec.look = <<>> THEN rec.under = 0 ELSE rec.look \in Paths /\ rec.under \in Leads(ns)[rec.look]
  BY SoughtIs
<1>2. rec.under \in Lead(ns, rec.look)
  BY <1>1, LeadTop, LeadsAre
<1>3. ASSUME NEW n \in Hits(ns, rec.under, Name(Sought(rec)), f) PROVE n \in Lead(ns, Sought(rec))
  <2>1. n \in 1..Len(ns) /\ ns[n].parent = rec.under /\ ns[n].name = Name(Sought(rec)) /\ Seen(ns, n)
    BY DEF Hits
  <2>2. ns[n].state = "live"
    BY <2>1, SeenIs
  <2> QED BY <1>1, <1>2, <2>1, <2>2, LeadIs
<1> QED BY <1>3

\* Drive answers a search.
LEMMA Searched ==
  ASSUME IInv, NEW c \in Caller, call[c].reply = NoReply, ServeSearch(c), cache' = cache, memo' = memo
  PROVE  IInv'
<1> DEFINE rec == call[c]
           name == IF SeeksFolder(rec) THEN Sought(rec)[Len(Sought(rec))] ELSE rec.path[Len(rec.path)]
           hits == Hits(nodes, rec.under, Name(Sought(rec)), SeeksFolder(rec))
           answer == Answer("ok", hits)
           r == [rec EXCEPT !.reply = answer]
<1>1. /\ rec \in Calls
      /\ Shape(nodes, moved, rec) /\ Kin(nodes)
      /\ rec.alone => AloneInv(nodes, cache, memo, rec)
      /\ ~moved => /\ Calm(nodes, cache, memo)
                   /\ Active(rec) => Sound(nodes, rec) /\ Grounded(Leads(nodes), rec)
  BY CallIs
<1>2. /\ rec.pc = "search"
      /\ IF Gone(rec.under) THEN Missing(c)
         ELSE /\ Respond(c, Answer("ok", Search(rec.under, name, SeeksFolder(rec))))
              /\ UNCHANGED <<nodes, moved>>
  BY DEF ServeSearch
<1>3. Active(rec) /\ rec.reply.status = "none" /\ Looking(rec) /\ Grounded(Everywhere(nodes), rec)
  BY <1>1, <1>2 DEF Active, NoReply, Shape
<1>4. rec.alone => Sound(nodes, rec) /\ Sharp(nodes, rec) /\ Grounded(Leads(nodes), rec)
  BY <1>1, <1>2, <1>3 DEF AloneInv, Sound, Struck, Lost
<1>5. CASE Gone(rec.under)
  <2>1. rec.alone => ~Gone(rec.under)
    BY <1>1, <1>3, <1>4, NotGone DEF Gone, Looking
  <2>2. /\ Become(c, [call[c] EXCEPT !.reply = Answer("missing", {})])
        /\ nodes' = nodes /\ moved' = moved
    BY <1>2, <1>5 DEF Missing
  <2> QED BY <1>3, <1>5, <2>1, <2>2, Unserved
<1>6. CASE ~Gone(rec.under)
  <2>1. name = Name(Sought(rec))
    <3>1. ~SeeksFolder(rec) => Sought(rec) = rec.path
      BY <1>1, <1>3, SoughtIs
    <3> QED BY <3>1 DEF Name
  <2>2. Search(rec.under, name, SeeksFolder(rec)) = hits
    BY <2>1, TreeNow
  <2> HIDE DEF name
  <2>3. Respond(c, answer) /\ nodes' = nodes /\ moved' = moved
    BY <1>2, <1>6, <2>2
  <2>4. \/ Become(c, [rec EXCEPT !.reply = answer])
        \/ \E s \in {"unavailable", "refused"} :
             Become(c, [rec EXCEPT !.reply = Answer(s, {}), !.alone = FALSE])
    BY <2>3 DEF Respond, Fail
  <2>5. hits \subseteq 1..Len(nodes) /\ hits \subseteq Nat
    BY DEF Hits
  <2>6. answer \in Replies /\ answer.status = "ok" /\ answer.ids = hits
    BY <2>5 DEF Answer, Replies
  <2>7. ASSUME Grounded(Leads(nodes), rec) PROVE hits \subseteq Lead(nodes, Sought(rec))
    <3>1. SeeksFolder(rec) \in BOOLEAN
      BY DEF SeeksFolder
    <3> QED BY <1>1, <1>3, <2>7, <3>1, HitsLead
  <2> HIDE DEF rec, answer, hits
  <2>8. /\ r \in Calls /\ SameWay(r, rec) /\ r.pc = rec.pc /\ r.reply = answer
        /\ r.alone = rec.alone /\ r.result = rec.result
    BY <1>1, <2>6, AnswerIs
  <2> HIDE DEF r
  <2>9. /\ r.op = rec.op /\ r.path = rec.path /\ r.plan = rec.plan /\ r.look = rec.look /\ r.under = rec.under
    BY <2>8 DEF SameWay
  <2>10. /\ \A lead : Grounded(lead, r) <=> Grounded(lead, rec)
         /\ Sought(r) = Sought(rec) /\ (SeeksFolder(r) <=> SeeksFolder(rec))
    BY <2>8, SameWayIs, Zenon
  <2>11. /\ ~Struck(rec) /\ ~Struck(r) /\ ~Lost(nodes, rec) /\ ~Lost(nodes, r)
    BY <1>2, <2>8 DEF Struck, Lost
  <2>12. ASSUME Grounded(Leads(nodes), rec) PROVE Sound(nodes, r)
    BY <1>2, <2>6, <2>7, <2>8, <2>10, <2>12 DEF Sound
  <2>13. ASSUME Clear(nodes, rec) PROVE Clear(nodes, r)
    <3>1. Deep(r) = Deep(rec)
      BY <1>2, <2>8, <2>9 DEF Deep
    <3>2. r.reply.ids = Hits(nodes, r.under, Name(Sought(r)), SeeksFolder(r))
      <4>1. SeeksFolder(r) = SeeksFolder(rec)
        BY <2>9, <2>10 DEF SeeksFolder
      <4> QED BY <2>6, <2>8, <2>9, <2>10, <4>1 DEF hits
    <3> QED BY <1>2, <2>8, <2>9, <2>13, <3>1, <3>2 DEF Clear
  <2>14. ASSUME r.alone PROVE AloneInv(nodes', cache, memo, r)
    <3>1. AloneInv(nodes, cache, memo, rec) /\ Sharp(nodes, rec) /\ Grounded(Leads(nodes), rec)
      BY <1>1, <1>4, <2>8, <2>14
    <3>2. Led(Leads(nodes), cache, memo)
      BY <1>3, <2>11, <3>1 DEF AloneInv
    <3>3. Sharp(nodes, r)
      BY <1>2, <2>6, <2>8, <2>9, <2>11, <2>13, <3>1 DEF Sharp
    <3>4. AloneInv(nodes, cache, memo, r)
      BY <1>2, <2>8, <2>11, <2>12, <3>1, <3>2, <3>3 DEF AloneInv
    <3> QED BY <2>3, <3>4
  <2>15. /\ Kin(nodes') /\ Len(nodes) <= Len(nodes') /\ moved' \in BOOLEAN /\ (moved => moved')
         /\ \A q \in Paths : Lead(nodes, q) \subseteq Lead(nodes', q)
    BY <2>3, SameNodes
  <2>16. ASSUME ~moved'
         PROVE  /\ \A n \in 1..Len(nodes') : nodes'[n].state = "live"
                /\ \A q \in Paths : Lead(nodes, q) \subseteq Lead(nodes', q)
                /\ CalmCall(nodes', r)
    <3>1. Grounded(Leads(nodes), rec) /\ Calm(nodes, cache, memo)
      BY <1>1, <1>3, <2>3, <2>16
    <3>2. CalmCall(nodes, r)
      BY <1>2, <2>8, <2>12, <3>1 DEF CalmCall
    <3> QED BY <2>3, <2>15, <3>1, <3>2 DEF Calm
  <2>17. answer.ids \subseteq 1..Len(nodes') /\ rec.pc # "act"
    BY <1>2, <2>3, <2>5, <2>6
  <2>18. rec = call[c] /\ r = [rec EXCEPT !.reply = answer]
    BY DEF rec, r
  <2> QED BY <1>3, <2>4, <2>6, <2>14, <2>15, <2>16, <2>17, <2>18, Responded
<1> QED BY <1>5, <1>6

\* Drive lets a file be read.
LEMMA Read ==
  ASSUME IInv, NEW c \in Caller, call[c].reply = NoReply, ServeRead(c), cache' = cache, memo' = memo
  PROVE  IInv'
<1> DEFINE rec == call[c]
           n == rec.ids[1]
           answer == Answer("ok", {n})
           r == [rec EXCEPT !.reply = answer]
<1>1. /\ rec \in Calls /\ rec.path \in Paths
      /\ Shape(nodes, moved, rec) /\ Kin(nodes)
      /\ rec.alone => AloneInv(nodes, cache, memo, rec)
      /\ ~moved => /\ Calm(nodes, cache, memo)
                   /\ Active(rec) => Sound(nodes, rec) /\ Grounded(Leads(nodes), rec)
  BY CallIs
<1>2. /\ rec.pc = "act" /\ rec.op \in {"download", "read", "createFolder"}
      /\ IF Gone(n) THEN Missing(c) ELSE Respond(c, answer) /\ UNCHANGED <<nodes, moved>>
  BY DEF ServeRead
<1>3. Active(rec) /\ rec.reply.status = "none" /\ rec.plan = <<>> /\ Grounded(Everywhere(nodes), rec)
  BY <1>1, <1>2 DEF Active, NoReply, Shape
<1>4. n \in 1..Len(nodes) /\ n \in Nat /\ n # 0
  <2>1. n \in Everywhere(nodes)[rec.path]
    BY <1>1, <1>2, <1>3, ActingIs
  <2>2. n \in 1..Len(nodes)
    BY <1>1, <2>1, LeadsAre
  <2> QED BY <2>2
<1>5. ~Struck(rec) /\ ~Killing(rec)
  BY <1>2 DEF Struck, Killing
<1>6. rec.alone => Sharp(nodes, rec) /\ (Lost(nodes, rec) \/ Grounded(Leads(nodes), rec))
  BY <1>1, <1>3, <1>5 DEF AloneInv, Sound
<1>7. ASSUME Grounded(Leads(nodes), rec) PROVE n \in Lead(nodes, rec.path) /\ ~Gone(n)
  <2>1. n \in Leads(nodes)[rec.path]
    BY <1>1, <1>2, <1>3, <1>7, ActingIs
  <2> QED BY <1>1, <2>1, LeadsAre DEF Gone
<1>8. Lost(nodes, rec) => Gone(n)
  BY <1>4 DEF Lost, Gone
<1> HIDE DEF n
<1>9. CASE Gone(n)
  <2>1. rec.alone => Lost(nodes, rec)
    BY <1>6, <1>7, <1>9
  <2>2. /\ Become(c, [call[c] EXCEPT !.reply = Answer("missing", {})])
        /\ nodes' = nodes /\ moved' = moved
    BY <1>2, <1>9 DEF Missing
  <2> QED BY <1>3, <2>1, <2>2, Unserved
<1>10. CASE ~Gone(n)
  <2>1. Respond(c, answer) /\ nodes' = nodes /\ moved' = moved
    BY <1>2, <1>10
  <2>2. \/ Become(c, [rec EXCEPT !.reply = answer])
        \/ \E s \in {"unavailable", "refused"} :
             Become(c, [rec EXCEPT !.reply = Answer(s, {}), !.alone = FALSE])
    BY <2>1 DEF Respond, Fail
  <2>3. answer \in Replies /\ answer.status = "ok" /\ answer.ids = {n}
    BY <1>4 DEF Answer, Replies
  <2> HIDE DEF rec, answer
  <2>4. /\ r \in Calls /\ SameWay(r, rec) /\ r.pc = rec.pc /\ r.reply = answer
        /\ r.alone = rec.alone /\ r.result = rec.result
    BY <1>1, <2>3, AnswerIs
  <2> HIDE DEF r
  <2>5. /\ r.op = rec.op /\ r.path = rec.path /\ r.plan = rec.plan /\ r.ids = rec.ids /\ r.healed = rec.healed
    BY <2>4 DEF SameWay
  <2>6. \A lead : Grounded(lead, r) <=> Grounded(lead, rec)
    BY <2>4, SameWayIs, Zenon
  <2>7. ~Struck(r) /\ ~Lost(nodes, r) /\ ~Lost(nodes, rec)
    BY <1>2, <1>8, <1>10, <2>4, <2>5 DEF Struck, Lost, Killing
  <2>8. ASSUME Grounded(Leads(nodes), rec) PROVE Sound(nodes, r)
    <3>1. Effect(nodes, r)
      BY <1>2, <1>7, <2>3, <2>4, <2>5, <2>8 DEF Effect
    <3> QED BY <1>2, <2>4, <2>6, <2>8, <3>1 DEF Sound
  <2>9. ASSUME r.alone PROVE AloneInv(nodes', cache, memo, r)
    <3>1. AloneInv(nodes, cache, memo, rec) /\ Sharp(nodes, rec) /\ Grounded(Leads(nodes), rec)
      BY <1>1, <1>6, <2>4, <2>7, <2>9
    <3>2. Led(Leads(nodes), cache, memo)
      BY <1>3, <1>5, <2>7, <3>1 DEF AloneInv
    <3>3. Sharp(nodes, r)
      BY <1>2, <2>3, <2>4, <2>5, <2>7 DEF Sharp
    <3>4. AloneInv(nodes, cache, memo, r)
      BY <1>2, <2>4, <2>7, <2>8, <3>1, <3>2, <3>3 DEF AloneInv
    <3> QED BY <2>1, <3>4
  <2>10. /\ Kin(nodes') /\ Len(nodes) <= Len(nodes') /\ moved' \in BOOLEAN /\ (moved => moved')
         /\ \A q \in Paths : Lead(nodes, q) \subseteq Lead(nodes', q)
    BY <2>1, SameNodes
  <2>11. ASSUME ~moved'
         PROVE  /\ \A m \in 1..Len(nodes') : nodes'[m].state = "live"
                /\ \A q \in Paths : Lead(nodes, q) \subseteq Lead(nodes', q)
                /\ CalmCall(nodes', r)
    <3>1. Grounded(Leads(nodes), rec) /\ Calm(nodes, cache, memo)
      BY <1>1, <1>3, <2>1, <2>11
    <3>2. CalmCall(nodes, r)
      BY <1>2, <2>4, <2>8, <3>1 DEF CalmCall
    <3> QED BY <2>1, <2>10, <3>1, <3>2 DEF Calm
  <2>12. answer.ids \subseteq 1..Len(nodes') /\ \E x \in 1..Len(nodes') : answer.ids = {x}
    BY <1>4, <2>1, <2>3
  <2>13. rec = call[c] /\ r = [rec EXCEPT !.reply = answer]
    BY DEF rec, r
  <2> QED BY <1>3, <1>5, <2>2, <2>3, <2>9, <2>10, <2>11, <2>12, <2>13, Responded
<1> QED BY <1>9, <1>10

\* What the new folder leaves clear: the call still finds the file.
LEMMA GrownClear ==
  ASSUME NEW ns, Kin(ns), NEW removed, NEW rec \in Calls, Shape(ns, removed, rec), Grounded(Leads(ns), rec),
         rec.pc = "create", rec.reply = NoReply, rec.plan[1].kind # "folder",
         NEW thing \in Thing, thing.parent = rec.under, thing.name = Name(Sought(rec)),
         thing.folder, thing.state = "live", rec.under \in 0..Len(ns), rec.under # 0 => ns[rec.under].folder,
         NEW ms, ms = Append(ns, thing),
         NEW r \in Calls, SameWay(r, rec), r.pc = "create", r.reply = Answer("ok", {Len(ns) + 1}),
         Lead(ns, rec.path) = {} \/ Clear(ns, rec)
  PROVE  Lead(ms, r.path) = {} \/ Clear(ms, r)
<1> DEFINE N == Len(ns)
<1>1. Looking(rec) /\ SeeksFolder(rec) /\ rec.plan # <<>>
  BY DEF Shape, Looking
<1>2. /\ Sought(rec) \in Paths /\ Sought(rec) \in Seq(Names) /\ Sought(rec) # <<>>
      /\ Len(Sought(rec)) = Len(rec.look) + 1 /\ Len(rec.look) \in Nat
      /\ Front(Sought(rec)) = rec.look
      /\ IF rec.look = <<>> THEN rec.under = 0 ELSE rec.look \in Paths /\ rec.under \in Leads(ns)[rec.look]
      /\ Len(rec.look) < Len(FolderIn(rec.plan[1])) /\ rec.plan[1].path \in Paths
  BY <1>1, SoughtIs
<1>3. /\ Kin(ms) /\ Len(ms) = N + 1 /\ N \in Nat
      /\ ms[N + 1] = thing /\ \A m \in 1..N : ms[m] = ns[m]
      /\ \A path \in Seq(Names) :
           /\ Lead(ns, path) \subseteq Lead(ms, path)
           /\ Lead(ms, path) \subseteq Lead(ns, path) \cup {N + 1}
           /\ path # <<>> =>
                (N + 1 \in Lead(ms, path) <=>
                   thing.state = "live" /\ thing.name = Name(path) /\ thing.parent \in Lead(ns, Front(path)))
  BY Grown
<1> HIDE DEF N
<1>4. rec.under \in Lead(ns, rec.look)
  BY <1>2, LeadTop, LeadsAre
<1>5. N + 1 \in Lead(ms, Sought(rec))
  BY <1>2, <1>3, <1>4
<1>6. ASSUME NEW q \in Paths, q # Sought(rec) PROVE Lead(ms, q) \subseteq Lead(ns, q)
  <2>1. q \in Seq(Names)
    BY PathsAre
  <2>2. N + 1 \notin Lead(ms, q)
    BY <1>2, <1>3, <1>5, <1>6, <2>1, LeadUnique
  <2> QED BY <1>3, <2>1, <2>2
<1>7. /\ rec.plan[1].path = rec.path /\ rec.path \in Paths
      /\ Len(FolderIn(rec.plan[1])) = Len(rec.plan[1].path) - 1 /\ Len(rec.path) \in Nat
  <2>1. rec.plan[1].path = rec.path /\ rec.path \in Paths
    BY <1>1, GoalsLeft DEF Calls
  <2>2. Len(FolderIn(rec.plan[1])) = Len(rec.plan[1].path) - 1
    BY <1>1, LookIs
  <2> QED BY <2>1, <2>2, PathsAre
<1>8. rec.path # Sought(rec)
  <2> DEFINE x == Len(rec.look)
             z == Len(rec.path)
  <2>1. x \in Nat /\ z \in Nat /\ x < z - 1 /\ Len(Sought(rec)) = x + 1
    BY <1>2, <1>7
  <2> HIDE DEF x, z
  <2>2. Len(Sought(rec)) # z
    BY <2>1
  <2> QED BY <2>2 DEF z
<1>9. /\ r.path = rec.path /\ r.look = rec.look /\ r.under = rec.under /\ Sought(r) = Sought(rec)
      /\ r.reply.status = "ok" /\ r.reply.ids = {N + 1}
  BY SameWayIs DEF SameWay, Answer, N
<1>10. CASE Lead(ns, rec.path) = {}
  <2>1. Lead(ms, rec.path) \subseteq {}
    BY <1>6, <1>7, <1>8, <1>10
  <2> QED BY <1>9, <2>1
<1>11. CASE Clear(ns, rec)
  <2>1. /\ Deep(rec) = Len(rec.look) /\ Deep(r) = Len(Sought(rec))
        /\ \A n \in Lead(ns, Sought(rec)) : ~ns[n].folder
    BY <1>2, <1>9, <1>11 DEF Clear, Deep, NoReply
  <2>2. \A q \in Paths : Lead(ns, q) \subseteq 1..N
    BY LeadsAre DEF N
  <2>3. ASSUME NEW q \in Paths PROVE Sole(ms, q)
    <3> SUFFICES ASSUME NEW m \in Lead(ms, q), NEW n \in Lead(ms, q), ms[m].folder, ms[n].folder PROVE m = n
      BY DEF Sole
    <3>1. Sole(ns, q)
      BY <1>11 DEF Clear
    <3>2. CASE q # Sought(rec)
      <4>1. m \in Lead(ns, q) /\ n \in Lead(ns, q)
        BY <1>6, <3>2
      <4>2. ms[m] = ns[m] /\ ms[n] = ns[n]
        BY <1>3, <2>2, <4>1
      <4> QED BY <3>1, <4>1, <4>2 DEF Sole
    <3>3. CASE q = Sought(rec)
      <4>1. ASSUME NEW k \in Lead(ns, q) PROVE ~ms[k].folder
        BY <1>3, <2>1, <2>2, <3>3, <4>1
      <4>2. m \in Lead(ns, q) \cup {N + 1} /\ n \in Lead(ns, q) \cup {N + 1}
        BY <1>2, <1>3, <3>3
      <4> QED BY <4>1, <4>2
    <3> QED BY <3>2, <3>3
  <2>4. ASSUME NEW q \in Paths, Len(q) > Deep(r) PROVE Unique(ms, q)
    <3>1. Len(q) \in Nat
      BY PathsAre
    <3>2. Len(q) > Len(rec.look) /\ Len(q) # Len(Sought(rec))
      <4> DEFINE x == Len(rec.look)
                 z == Len(q)
      <4>1. x \in Nat /\ z \in Nat /\ z > x + 1 /\ Len(Sought(rec)) = x + 1
        BY <1>2, <2>1, <2>4, <3>1
      <4> HIDE DEF x, z
      <4>2. z > x /\ z # Len(Sought(rec))
        BY <4>1
      <4> QED BY <4>2 DEF x, z
    <3>3. Unique(ns, q)
      BY <1>11, <2>1, <3>2 DEF Clear
    <3>4. Lead(ms, q) \subseteq Lead(ns, q)
      BY <1>6, <3>2
    <3> QED BY <3>3, <3>4 DEF Unique
  <2>5. ASSUME rec.look # <<>> PROVE ms[rec.under].folder \/ Unique(ms, rec.look)
    <3>1. rec.look \in Paths /\ rec.under \in 1..N
      BY <1>2, <1>4, <2>2, <2>5
    <3>2. ms[rec.under] = ns[rec.under]
      BY <1>3, <3>1
    <3>3. rec.look # Sought(rec)
      <4> DEFINE x == Len(rec.look)
      <4>1. x \in Nat /\ Len(Sought(rec)) = x + 1
        BY <1>2
      <4> HIDE DEF x
      <4>2. x # Len(Sought(rec))
        BY <4>1
      <4> QED BY <4>2 DEF x
    <3>4. Lead(ms, rec.look) \subseteq Lead(ns, rec.look)
      BY <1>6, <3>1, <3>3
    <3>5. ns[rec.under].folder \/ Unique(ns, rec.look)
      BY <1>11, <2>5 DEF Clear
    <3> QED BY <3>2, <3>4, <3>5 DEF Unique
  <2>6. \A n \in r.reply.ids : ms[n].folder
    BY <1>3, <1>9
  <2>7. Clear(ms, r)
    BY <1>9, <2>3, <2>4, <2>5, <2>6 DEF Clear
  <2> QED BY <2>7
<1> QED BY <1>10, <1>11

\* Drive creates a folder, or a file for the adapter.
LEMMA Created ==
  ASSUME IInv, NEW c \in Caller, NEW rec, rec = call[c], rec.reply = NoReply, Active(rec),
         NEW parent \in 0..Len(nodes), NEW name \in Names, NEW folder \in BOOLEAN,
         Create(c, parent, name, folder), cache' = cache, memo' = memo,
         NEW path \in Paths, Name(path) = name,
         Grounded(Leads(nodes), rec) => parent \in Lead(nodes, Front(path)),
         \/ rec.pc = "create" /\ path = Sought(rec) /\ folder /\ parent = rec.under
         \/ rec.pc = "act" /\ rec.op \in {"upload", "copy"} /\ path = rec.to
  PROVE  IInv'
<1>1. /\ rec \in Calls
      /\ Shape(nodes, moved, rec) /\ Kin(nodes) /\ moved \in BOOLEAN
      /\ rec.alone => AloneInv(nodes, cache, memo, rec)
      /\ ~moved => /\ Calm(nodes, cache, memo)
                   /\ Active(rec) => Sound(nodes, rec) /\ Grounded(Leads(nodes), rec)
  BY CallIs
<1>2. rec.reply.status = "none" /\ ~Struck(rec) /\ ~Lost(nodes, rec)
  BY DEF NoReply, Struck, Lost
<1>3. rec.alone => Sound(nodes, rec) /\ Sharp(nodes, rec) /\ Grounded(Leads(nodes), rec) /\ Led(Leads(nodes), cache, memo)
  BY <1>1, <1>2 DEF AloneInv, Sound
<1>4. path \in Seq(Names) /\ path # <<>> /\ Front(path) \in Seq(Names)
  <2>1. path \in Seq(Names) /\ path # <<>>
    BY PathsAre
  <2> QED BY <2>1, FrontIs
<1>5. CASE Gone(parent)
  <2>1. ASSUME rec.alone PROVE FALSE
    <3>1. parent \in Lead(nodes, Front(path)) /\ parent # 0
      BY <1>3, <1>5, <2>1 DEF Gone
    <3>2. Front(path) # <<>>
      BY <3>1, LeadTop
    <3>3. nodes[parent].state = "live"
      BY <1>1, <1>4, <3>1, <3>2, LeadIs
    <3> QED BY <1>5, <3>3 DEF Gone
  <2>2. /\ Become(c, [call[c] EXCEPT !.reply = Answer("missing", {})])
        /\ nodes' = nodes /\ moved' = moved
    BY <1>5 DEF Create, Missing
  <2> QED BY <2>1, <2>2, Unserved
<1>6. CASE ~Gone(parent) /\ parent # 0 /\ ~nodes[parent].folder
  <2>1. /\ Become(c, [call[c] EXCEPT !.reply = Answer("refused", {})])
        /\ nodes' = nodes /\ moved' = moved
    BY <1>6 DEF Create, Decline
  <2> QED BY <2>1, Unserved
<1>7. CASE ~Gone(parent) /\ ~ (parent # 0 /\ ~nodes[parent].folder)
  <2> DEFINE thing == [name |-> name, parent |-> parent, folder |-> folder, state |-> "live"]
             N == Len(nodes)
             answer == Answer("ok", {N + 1})
             r == [rec EXCEPT !.reply = answer]
  <2>1. /\ nodes' = Append(nodes, thing) /\ Respond(c, Answer("ok", {Len(nodes')})) /\ moved' = moved
    BY <1>7 DEF Create
  <2>2. N \in Nat
    BY <1>1, LeadsAre
  <2>3. /\ thing \in Thing /\ thing.parent = parent /\ thing.name = name /\ thing.folder = folder
        /\ thing.state = "live" /\ thing.parent \in 0..Len(nodes)
        /\ thing.parent # 0 => nodes[thing.parent].folder
    BY <1>7, <2>2 DEF Thing
  <2> HIDE DEF thing
  <2>4. /\ Kin(nodes') /\ Len(nodes') = N + 1
        /\ nodes'[N + 1] = thing /\ \A m \in 1..N : nodes'[m] = nodes[m]
        /\ \A q \in Seq(Names) :
             /\ Lead(nodes, q) \subseteq Lead(nodes', q)
             /\ q # <<>> =>
                  (N + 1 \in Lead(nodes', q) <=>
                     thing.state = "live" /\ thing.name = Name(q) /\ thing.parent \in Lead(nodes, Front(q)))
    <3> DEFINE ms == Append(nodes, thing)
    <3>1. /\ Kin(ms) /\ Len(ms) = N + 1
          /\ ms[N + 1] = thing /\ \A m \in 1..N : ms[m] = nodes[m]
          /\ \A q \in Seq(Names) :
               /\ Lead(nodes, q) \subseteq Lead(ms, q)
               /\ Lead(ms, q) \subseteq Lead(nodes, q) \cup {N + 1}
               /\ q # <<>> =>
                    (N + 1 \in Lead(ms, q) <=>
                       thing.state = "live" /\ thing.name = Name(q) /\ thing.parent \in Lead(nodes, Front(q)))
      BY <1>1, <2>3, Grown
    <3>2. nodes' = ms
      BY <2>1
    <3> HIDE DEF ms
    <3> QED BY <3>1, <3>2
  <2>5. \/ Become(c, [rec EXCEPT !.reply = answer])
        \/ \E s \in {"unavailable", "refused"} :
             Become(c, [rec EXCEPT !.reply = Answer(s, {}), !.alone = FALSE])
    BY <2>1, <2>4 DEF Respond, Fail
  <2>6. N + 1 \in Nat /\ N + 1 \in 1..Len(nodes') /\ Len(nodes) <= Len(nodes')
    <3>1. Len(nodes') = N + 1
      BY <2>4
    <3> QED BY <2>2, <3>1
  <2>7. answer \in Replies /\ answer.status = "ok" /\ answer.ids = {N + 1}
    BY <2>6 DEF Answer, Replies
  <2>8. \A q \in Paths : Lead(nodes, q) \subseteq Lead(nodes', q) /\ Leads(nodes)[q] \subseteq Leads(nodes')[q]
    <3>1. \A q \in Paths : Lead(nodes, q) \subseteq Lead(nodes', q)
      BY <2>4, PathsAre
    <3> QED BY <3>1 DEF Leads
  <2>9. ASSUME Grounded(Leads(nodes), rec) PROVE N + 1 \in Lead(nodes', path)
    BY <1>4, <2>3, <2>4, <2>9
  <2> HIDE DEF answer, N
  <2>10. /\ r \in Calls /\ SameWay(r, rec) /\ r.pc = rec.pc /\ r.reply = answer
         /\ r.alone = rec.alone /\ r.result = rec.result
    BY <1>1, <2>7, AnswerIs
  <2> HIDE DEF r
  <2>11. /\ r.op = rec.op /\ r.path = rec.path /\ r.to = rec.to /\ r.plan = rec.plan
    BY <2>10 DEF SameWay
  <2>12. /\ \A lead : Grounded(lead, r) <=> Grounded(lead, rec)
         /\ Sought(r) = Sought(rec)
    BY <2>10, SameWayIs, Zenon
  <2>13. ~Struck(r) /\ ~Lost(nodes', r) /\ r.pc # "done"
    BY <2>10, <2>11 DEF Struck, Lost, Killing
  <2>14. ASSUME Grounded(Leads(nodes), rec) PROVE Sound(nodes', r)
    <3>1. Grounded(Leads(nodes'), r)
      BY <1>1, <2>8, <2>12, <2>14, GroundedMore
    <3>2. r.pc = "act" => Effect(nodes', r)
      BY <2>7, <2>9, <2>10, <2>11, <2>14 DEF Effect
    <3>3. r.pc \in {"search", "create"} => r.reply.ids \subseteq Lead(nodes', Sought(r))
      BY <2>7, <2>9, <2>10, <2>12, <2>14
    <3> QED BY <3>1, <3>2, <3>3 DEF Sound
  <2>15. ASSUME r.alone PROVE AloneInv(nodes', cache, memo, r)
    <3>1. Sharp(nodes, rec) /\ Grounded(Leads(nodes), rec) /\ Led(Leads(nodes), cache, memo)
      BY <1>3, <2>10, <2>15
    <3>2. Led(Leads(nodes'), cache, memo)
      BY <2>8, <3>1, GroundedMore
    <3>3. ASSUME r.pc = "create", r.plan[1].kind # "folder"
          PROVE  Lead(nodes', r.path) = {} \/ Clear(nodes', r)
      <4>1. Lead(nodes, rec.path) = {} \/ Clear(nodes, rec)
        BY <2>10, <2>11, <3>1, <3>3 DEF Sharp
      <4>2. /\ rec.pc = "create" /\ path = Sought(rec) /\ folder /\ parent = rec.under
            /\ rec.plan[1].kind # "folder"
        BY <2>10, <2>11, <3>3
      <4>3. /\ thing.parent = rec.under /\ thing.name = Name(Sought(rec))
            /\ thing.folder /\ rec.under \in 0..Len(nodes) /\ (rec.under # 0 => nodes[rec.under].folder)
        BY <2>3, <4>2
      <4>4. r.reply = Answer("ok", {Len(nodes) + 1}) /\ r.pc = "create"
        BY <2>10, <3>3 DEF answer, N
      <4> QED BY <1>1, <2>1, <2>3, <2>10, <3>1, <4>1, <4>2, <4>3, <4>4, GrownClear
    <3>4. Sharp(nodes', r)
      BY <2>7, <2>10, <2>11, <2>13, <3>3 DEF Sharp
    <3> QED BY <2>13, <2>14, <3>1, <3>2, <3>4 DEF AloneInv
  <2>16. ASSUME ~moved'
         PROVE  /\ \A m \in 1..Len(nodes') : nodes'[m].state = "live"
                /\ \A q \in Paths : Lead(nodes, q) \subseteq Lead(nodes', q)
                /\ CalmCall(nodes', r)
    <3>1. Grounded(Leads(nodes), rec) /\ Calm(nodes, cache, memo)
      BY <1>1, <2>1, <2>16
    <3>2. CalmCall(nodes', r)
      BY <2>13, <2>14, <3>1 DEF CalmCall
    <3>3. ASSUME NEW m \in 1..Len(nodes') PROVE nodes'[m].state = "live"
      <4>1. m \in 1..N \/ m = N + 1
        <5>1. Len(nodes') = N + 1 /\ N \in Nat
          BY <2>2, <2>4
        <5> QED BY <5>1
      <4>2. CASE m = N + 1
        BY <2>3, <2>4, <4>2
      <4>3. CASE m \in 1..N
        BY <2>4, <3>1, <4>3 DEF Calm, N
      <4> QED BY <4>1, <4>2, <4>3
    <3> QED BY <2>8, <3>2, <3>3
  <2>17. answer.ids \subseteq 1..Len(nodes') /\ \E x \in 1..Len(nodes') : answer.ids = {x}
    BY <2>6, <2>7
  <2>18. r = [rec EXCEPT !.reply = answer]
    BY DEF r
  <2>19. moved' \in BOOLEAN /\ (moved => moved')
    BY <1>1, <2>1
  <2>20. rec.pc = "act" => ~Killing(rec)
    BY DEF Killing
  <2> QED BY <2>4, <2>5, <2>6, <2>7, <2>15, <2>16, <2>17, <2>18, <2>19, <2>20, Responded
<1> QED BY <1>5, <1>6, <1>7

\* Drive creates the folder that a search did not find.
LEMMA CreatedFolder ==
  ASSUME IInv, NEW c \in Caller, call[c].reply = NoReply, ServeCreate(c), cache' = cache, memo' = memo
  PROVE  IInv'
<1> DEFINE rec == call[c]
           path == Sought(rec)
           name == Name(path)
<1>1. /\ rec \in Calls /\ Shape(nodes, moved, rec) /\ Kin(nodes)
  BY CallIs
<1>2. rec.pc = "create" /\ Create(c, rec.under, name, TRUE)
  BY DEF ServeCreate, Name
<1>3. Active(rec) /\ Looking(rec) /\ Grounded(Everywhere(nodes), rec)
  BY <1>1, <1>2 DEF Active, Shape
<1>4. /\ path \in Paths /\ Front(path) = rec.look
      /\ IF rec.look = <<>> THEN rec.under = 0 ELSE rec.look \in Paths /\ rec.under \in Everywhere(nodes)[rec.look]
  BY <1>1, <1>3, SoughtIs
<1>5. rec.under \in 0..Len(nodes)
  <2>1. Len(nodes) \in Nat /\ \A q \in Paths : Everywhere(nodes)[q] = 1..Len(nodes)
    BY <1>1, LeadsAre
  <2> QED BY <1>4, <2>1
<1>6. name \in Names
  BY <1>4, PathsAre
<1>7. ASSUME Grounded(Leads(nodes), rec) PROVE rec.under \in Lead(nodes, Front(path))
  <2>1. IF rec.look = <<>> THEN rec.under = 0 ELSE rec.look \in Paths /\ rec.under \in Leads(nodes)[rec.look]
    BY <1>1, <1>3, <1>7, SoughtIs
  <2> QED BY <1>1, <1>4, <2>1, LeadTop, LeadsAre
<1>8. rec = call[c] /\ rec.reply = NoReply /\ TRUE \in BOOLEAN /\ Name(path) = name
  OBVIOUS
<1> HIDE DEF path, name
<1>9. \/ rec.pc = "create" /\ path = Sought(rec) /\ TRUE /\ rec.under = rec.under
      \/ rec.pc = "act" /\ rec.op \in {"upload", "copy"} /\ path = rec.to
  BY <1>2 DEF path
<1> QED BY <1>2, <1>3, <1>4, <1>5, <1>6, <1>7, <1>8, <1>9, Created

\* Drive creates the file that an upload sends.
LEMMA Uploaded ==
  ASSUME IInv, NEW c \in Caller, call[c].reply = NoReply, ServeUpload(c), cache' = cache, memo' = memo
  PROVE  IInv'
<1> DEFINE rec == call[c]
           parent == rec.ids[1]
           path == rec.to
           name == Name(path)
<1>1. /\ rec \in Calls /\ path \in Paths /\ Shape(nodes, moved, rec) /\ Kin(nodes)
  BY CallIs
<1>2. rec.pc = "act" /\ rec.op = "upload" /\ Create(c, parent, name, FALSE)
  BY DEF ServeUpload
<1>3. Active(rec) /\ rec.plan = <<>> /\ Grounded(Everywhere(nodes), rec)
  BY <1>1, <1>2 DEF Active, Shape
<1>4. parent \in Everywhere(nodes)[FolderOf(rec.to).path] /\ FolderOf(rec.to).path = Front(path) /\ Front(path) \in Paths
  BY <1>1, <1>2, <1>3, ActingIs
<1>5. parent \in 0..Len(nodes)
  <2>1. Len(nodes) \in Nat /\ parent \in 1..Len(nodes)
    BY <1>1, <1>4, LeadsAre
  <2> QED BY <2>1
<1>6. name \in Names
  BY <1>1, PathsAre
<1>7. ASSUME Grounded(Leads(nodes), rec) PROVE parent \in Lead(nodes, Front(path))
  <2>1. parent \in Leads(nodes)[FolderOf(rec.to).path]
    BY <1>1, <1>2, <1>3, <1>7, ActingIs
  <2> QED BY <1>1, <1>4, <2>1, LeadsAre
<1>8. rec = call[c] /\ rec.reply = NoReply /\ FALSE \in BOOLEAN /\ Name(path) = name
  OBVIOUS
<1>9. \/ rec.pc = "create" /\ path = Sought(rec) /\ FALSE /\ parent = rec.under
      \/ rec.pc = "act" /\ rec.op \in {"upload", "copy"} /\ path = rec.to
  BY <1>2
<1> HIDE DEF path, name, parent
<1> QED BY <1>1, <1>2, <1>3, <1>5, <1>6, <1>7, <1>8, <1>9, Created

\* Drive copies a file, and no folder.
LEMMA Copied ==
  ASSUME IInv, NEW c \in Caller, call[c].reply = NoReply, ServeCopy(c), cache' = cache, memo' = memo
  PROVE  IInv'
<1> DEFINE rec == call[c]
           n == rec.ids[1]
           parent == rec.ids[2]
           path == rec.to
           name == Name(path)
<1>1. /\ rec \in Calls /\ path \in Paths /\ rec.path \in Paths /\ Shape(nodes, moved, rec) /\ Kin(nodes)
      /\ rec.alone => AloneInv(nodes, cache, memo, rec)
  BY CallIs
<1>2. /\ rec.pc = "act" /\ rec.op = "copy"
      /\ IF Gone(n) THEN Missing(c)
         ELSE IF nodes[n].folder THEN Decline(c)
         ELSE Create(c, parent, name, FALSE)
  BY DEF ServeCopy
<1>3. Active(rec) /\ rec.plan = <<>> /\ Grounded(Everywhere(nodes), rec)
  BY <1>1, <1>2 DEF Active, Shape
<1>4. parent \in Everywhere(nodes)[FolderOf(rec.to).path] /\ FolderOf(rec.to).path = Front(path) /\ Front(path) \in Paths
  BY <1>1, <1>2, <1>3, ActingIs
<1>5. parent \in 0..Len(nodes)
  <2>1. Len(nodes) \in Nat /\ parent \in 1..Len(nodes)
    BY <1>1, <1>4, LeadsAre
  <2> QED BY <2>1
<1>6. name \in Names
  BY <1>1, PathsAre
<1>7. ASSUME Grounded(Leads(nodes), rec) PROVE parent \in Lead(nodes, Front(path)) /\ ~Gone(n)
  <2>1. parent \in Leads(nodes)[FolderOf(rec.to).path] /\ n \in Leads(nodes)[rec.path]
    BY <1>1, <1>2, <1>3, <1>7, ActingIs
  <2> QED BY <1>1, <1>4, <2>1, LeadsAre DEF Gone
<1>8. rec.alone => Grounded(Leads(nodes), rec)
  BY <1>1, <1>2, <1>3 DEF AloneInv, Sound, Struck, Lost, Killing
<1>9. CASE Gone(n)
  <2>1. /\ Become(c, [call[c] EXCEPT !.reply = Answer("missing", {})])
        /\ nodes' = nodes /\ moved' = moved
    BY <1>2, <1>9 DEF Missing
  <2>2. ~call[c].alone
    BY <1>7, <1>8, <1>9
  <2> QED BY <1>3, <2>1, <2>2, Unserved
<1>10. CASE ~Gone(n) /\ nodes[n].folder
  <2>1. /\ Become(c, [call[c] EXCEPT !.reply = Answer("refused", {})])
        /\ nodes' = nodes /\ moved' = moved
    BY <1>2, <1>10 DEF Decline
  <2> QED BY <1>3, <2>1, Unserved
<1>11. CASE ~Gone(n) /\ ~nodes[n].folder
  <2>1. Create(c, parent, name, FALSE)
    BY <1>2, <1>11
  <2>2. rec = call[c] /\ rec.reply = NoReply /\ FALSE \in BOOLEAN /\ Name(path) = name
    OBVIOUS
  <2>3. \/ rec.pc = "create" /\ path = Sought(rec) /\ FALSE /\ parent = rec.under
        \/ rec.pc = "act" /\ rec.op \in {"upload", "copy"} /\ path = rec.to
    BY <1>2
  <2> HIDE DEF path, name, parent
  <2> QED BY <1>1, <1>3, <1>5, <1>6, <1>7, <2>1, <2>2, <2>3, Created
<1> QED BY <1>9, <1>10, <1>11

\* Drive does not serve a request at all.
LEMMA Refused ==
  ASSUME IInv, NEW c \in Caller, Active(call[c]), call[c].reply = NoReply, Refuse(c),
         cache' = cache, memo' = memo
  PROVE  IInv'
<1>1. /\ \E s \in {"unavailable", "refused"} :
           Become(c, [call[c] EXCEPT !.reply = Answer(s, {}), !.alone = FALSE])
      /\ nodes' = nodes /\ moved' = moved
  BY DEF Refuse, Fail
<1> QED BY <1>1, Unserved

\* What Drive keeps when it marks a node as trashed or gone.
LEMMA Marked ==
  ASSUME Kin(nodes), NEW n \in 1..Len(nodes), NEW state \in {"trashed", "gone"}, NEW ms, ms = Mark(n, state)
  PROVE  /\ Kin(ms) /\ Len(ms) = Len(nodes)
         /\ \A q \in Paths : Lead(ms, q) = Lead(nodes, q) \ Under(nodes, n)
<1>1. nodes \in Seq(Thing) /\ Len(nodes) \in Nat /\ \A m \in 1..Len(nodes) : nodes[m] \in Thing
  <2>1. nodes \in Seq(Thing)
    BY DEF Kin
  <2> QED BY <2>1
<1>2. ms = [m \in 1..Len(nodes) |-> IF m = n \/ (state = "gone" /\ m \in Under(nodes, n))
                                    THEN [nodes[m] EXCEPT !.state = state] ELSE nodes[m]]
  BY TreeNow DEF Mark, Ids
<1>3. ASSUME NEW m \in 1..Len(nodes)
      PROVE  /\ ms[m] \in Thing
             /\ ms[m].name = nodes[m].name /\ ms[m].parent = nodes[m].parent /\ ms[m].folder = nodes[m].folder
             /\ m \notin Under(nodes, n) => ms[m].state = nodes[m].state
             /\ m = n => ms[m].state = state
  <2> DEFINE thing == nodes[m]
             other == [thing EXCEPT !.state = state]
  <2>1. thing \in Thing
    BY <1>1
  <2> HIDE DEF thing
  <2>2. /\ other \in Thing /\ other.name = thing.name /\ other.parent = thing.parent
        /\ other.folder = thing.folder /\ other.state = state
    BY <2>1 DEF Thing
  <2> HIDE DEF other
  <2>3. ms[m] = IF m = n \/ (state = "gone" /\ m \in Under(nodes, n)) THEN other ELSE thing
    BY <1>2 DEF other, thing
  <2>4. n \in Under(nodes, n)
    BY UnderIs
  <2>5. thing = nodes[m]
    BY DEF thing
  <2> QED BY <2>1, <2>2, <2>3, <2>4, <2>5
<1>4. ms \in [1..Len(nodes) -> Thing]
  BY <1>2, <1>3
<1>5. ms \in Seq(Thing) /\ Len(ms) = Len(nodes)
  BY <1>1, <1>4, FunctionIsSeq
<1>6. ms[n].state # "live"
  BY <1>3
<1>7. Kin(ms) /\ \A q \in Seq(Names) : Lead(ms, q) = Lead(nodes, q) \ Under(nodes, n)
  BY <1>3, <1>5, <1>6, Pruned
<1> QED BY <1>5, <1>7, PathsAre

\* Drive takes a node away from its path, and all that is below it.
LEMMA Taking ==
  ASSUME IInv, NEW c \in Caller, NEW rec, rec = call[c], rec.reply = NoReply, rec.pc = "act", Killing(rec),
         NEW n \in 1..Len(nodes), n = rec.ids[1],
         Kin(nodes'), Len(nodes') = Len(nodes), moved' = TRUE, cache' = cache, memo' = memo,
         Respond(c, Answer("ok", {n})),
         \A q \in Paths : \A m \in Lead(nodes, q) : m \notin Under(nodes, n) => m \in Lead(nodes', q),
         rec.alone /\ rec.op \in {"delete", "trash"} => Lead(nodes', rec.path) = {},
         rec.alone /\ rec.op = "move" => n \in Lead(nodes', rec.to)
  PROVE  IInv'
<1> DEFINE answer == Answer("ok", {n})
           r == [rec EXCEPT !.reply = answer]
<1>1. /\ rec \in Calls /\ rec.path \in Paths
      /\ Shape(nodes, moved, rec) /\ Kin(nodes)
      /\ rec.alone => AloneInv(nodes, cache, memo, rec)
  BY CallIs
<1>2. Active(rec) /\ rec.plan = <<>> /\ ~Struck(rec) /\ ~Lost(nodes, rec) /\ rec.op \in {"delete", "trash", "move"}
  BY <1>1 DEF Active, Shape, Struck, Lost, NoReply, Killing
<1>3. /\ \/ Become(c, [rec EXCEPT !.reply = answer])
         \/ \E s \in {"unavailable", "refused"} :
              Become(c, [rec EXCEPT !.reply = Answer(s, {}), !.alone = FALSE])
  BY DEF Respond, Fail
<1>4. n \in Nat /\ answer \in Replies /\ answer.status = "ok" /\ answer.ids = {n}
  <2>1. n \in Nat
    OBVIOUS
  <2> QED BY <2>1 DEF Answer, Replies
<1> HIDE DEF answer
<1>5. /\ r \in Calls /\ SameWay(r, rec) /\ r.pc = rec.pc /\ r.reply = answer
      /\ r.alone = rec.alone /\ r.result = rec.result
  BY ONLY <1>1, <1>4, AnswerIs
<1> HIDE DEF r
<1>6. /\ r.op = rec.op /\ r.path = rec.path /\ r.to = rec.to /\ r.ids = rec.ids /\ r.pc = "act"
      /\ r.reply.status = "ok" /\ r.reply.ids = {n}
  BY <1>4, <1>5 DEF SameWay
<1>7. Struck(r)
  BY <1>2, <1>6 DEF Struck, Killing
<1>8. ASSUME r.alone PROVE AloneInv(nodes', cache, memo, r)
  <2>1. Grounded(Leads(nodes), rec) /\ Led(Leads(nodes), cache, memo)
    BY <1>1, <1>2, <1>5, <1>8 DEF AloneInv, Sound
  <2>2. n \in Lead(nodes, rec.path)
    <3>1. n \in Leads(nodes)[rec.path]
      BY <1>1, <1>2, <2>1, ActingIs
    <3> QED BY <1>1, <3>1, LeadsAre
  <2>3. ASSUME NEW q \in Paths PROVE Right(nodes', cache, q) \/ IsPrefix(rec.path, q)
    <3>1. cache[q] = 0 \/ cache[q] \in Lead(nodes, q)
      BY <1>1, <2>1, LeadsAre DEF Led
    <3>2. CASE cache[q] # 0 /\ cache[q] \in Under(nodes, n)
      <4>1. q \in Seq(Names) /\ rec.path \in Seq(Names)
        BY <1>1, PathsAre
      <4> QED BY <1>1, <2>2, <3>1, <3>2, <4>1, BelowIsBeyond
    <3>3. CASE ~(cache[q] # 0 /\ cache[q] \in Under(nodes, n))
      BY <3>1, <3>3 DEF Right
    <3> QED BY <3>2, <3>3
  <2>4. Effect(nodes', r)
    BY <1>2, <1>5, <1>6, <1>8 DEF Effect
  <2>5. Sound(nodes', r)
    BY <1>6, <1>7, <2>4 DEF Sound
  <2>6. Sharp(nodes', r)
    BY <1>2, <1>6 DEF Sharp, Lost
  <2> QED BY <1>6, <1>7, <2>3, <2>5, <2>6 DEF AloneInv
<1>9. /\ Len(nodes) <= Len(nodes') /\ moved' \in BOOLEAN /\ (moved => moved')
      /\ answer.ids \subseteq 1..Len(nodes') /\ \E x \in 1..Len(nodes') : answer.ids = {x}
  <2>1. Len(nodes) \in Nat
    BY <1>1, LeadsAre
  <2> QED BY <1>4, <2>1
<1>10. r = [rec EXCEPT !.reply = answer]
  BY DEF r
<1> QED BY <1>2, <1>3, <1>4, <1>8, <1>9, <1>10, Responded

\* The file that such a call names is there, if the call is alone.
LEMMA Standing ==
  ASSUME IInv, NEW c \in Caller, NEW rec, rec = call[c], rec.reply = NoReply, rec.pc = "act", Killing(rec)
  PROVE  /\ rec \in Calls /\ rec.path \in Paths /\ rec.to \in Paths /\ Kin(nodes) /\ Active(rec)
         /\ rec.ids[1] \in 1..Len(nodes)
         /\ rec.op = "move" => rec.ids[3] \in 1..Len(nodes)
         /\ rec.alone => /\ rec.ids[1] \in Lead(nodes, rec.path) /\ ~Gone(rec.ids[1])
                         /\ rec.op \in {"delete", "trash"} => Unique(nodes, rec.path)
                         /\ rec.op = "move" => rec.ids[3] \in Lead(nodes, Front(rec.to)) /\ ~Gone(rec.ids[3])
<1>1. /\ rec \in Calls /\ rec.path \in Paths /\ rec.to \in Paths
      /\ Shape(nodes, moved, rec) /\ Kin(nodes)
      /\ rec.alone => AloneInv(nodes, cache, memo, rec)
  BY CallIs
<1>2. Active(rec) /\ rec.plan = <<>> /\ ~Struck(rec) /\ ~Lost(nodes, rec) /\ rec.op \in {"delete", "trash", "move"}
      /\ rec.reply.status = "none" /\ Grounded(Everywhere(nodes), rec)
  BY <1>1 DEF Active, Shape, Struck, Lost, NoReply, Killing
<1>3. \A lead : Grounded(lead, rec) =>
        /\ rec.ids[1] \in lead[rec.path]
        /\ rec.op = "move" => rec.ids[3] \in lead[FolderOf(rec.to).path]
        /\ FolderOf(rec.to).path = Front(rec.to) /\ Front(rec.to) \in Paths
  BY <1>1, <1>2, ActingIs
<1>4. rec.ids[1] \in 1..Len(nodes) /\ (rec.op = "move" => rec.ids[3] \in 1..Len(nodes))
  BY <1>1, <1>2, <1>3, LeadsAre
<1>5. ASSUME rec.alone
      PROVE  /\ rec.ids[1] \in Lead(nodes, rec.path) /\ ~Gone(rec.ids[1])
             /\ rec.op \in {"delete", "trash"} => Unique(nodes, rec.path)
             /\ rec.op = "move" => rec.ids[3] \in Lead(nodes, Front(rec.to)) /\ ~Gone(rec.ids[3])
  <2>1. Grounded(Leads(nodes), rec) /\ Sharp(nodes, rec)
    BY <1>1, <1>2, <1>5 DEF AloneInv, Sound
  <2>2. /\ rec.ids[1] \in Lead(nodes, rec.path)
        /\ rec.op = "move" => rec.ids[3] \in Lead(nodes, Front(rec.to))
    BY <1>1, <1>3, <2>1, LeadsAre
  <2>3. Front(rec.to) \in Paths
    BY <1>3, <2>1
  <2>4. ~Gone(rec.ids[1]) /\ (rec.op = "move" => ~Gone(rec.ids[3]))
    BY <1>1, <2>2, <2>3, LeadsAre DEF Gone
  <2>5. rec.op \in {"delete", "trash"} => Unique(nodes, rec.path)
    BY <1>2, <2>1 DEF Sharp
  <2> QED BY <2>2, <2>4, <2>5
<1> QED BY <1>1, <1>2, <1>4, <1>5

\* Drive deletes or trashes.
LEMMA Removed ==
  ASSUME IInv, NEW c \in Caller, call[c].reply = NoReply, ServeRemove(c), cache' = cache, memo' = memo
  PROVE  IInv'
<1> DEFINE rec == call[c]
           n == rec.ids[1]
           state == IF rec.op = "delete" THEN "gone" ELSE "trashed"
<1>1. /\ rec.pc = "act" /\ rec.op \in {"delete", "trash"}
      /\ IF Gone(n) THEN Missing(c)
         ELSE nodes' = Mark(n, state) /\ moved' = TRUE /\ Respond(c, Answer("ok", {n}))
  BY DEF ServeRemove
<1>2. rec = call[c] /\ rec.reply = NoReply /\ Killing(rec)
  BY <1>1 DEF Killing
<1>3. /\ rec \in Calls /\ rec.path \in Paths /\ Kin(nodes) /\ Active(rec)
      /\ n \in 1..Len(nodes)
      /\ rec.alone => n \in Lead(nodes, rec.path) /\ ~Gone(n) /\ Unique(nodes, rec.path)
  BY <1>1, <1>2, Standing
<1>4. CASE Gone(n)
  <2>1. /\ Become(c, [call[c] EXCEPT !.reply = Answer("missing", {})])
        /\ nodes' = nodes /\ moved' = moved
    BY <1>1, <1>4 DEF Missing
  <2> QED BY <1>3, <1>4, <2>1, Unserved
<1>5. CASE ~Gone(n)
  <2>1. nodes' = Mark(n, state) /\ moved' = TRUE /\ Respond(c, Answer("ok", {n}))
    BY <1>1, <1>5
  <2>2. state \in {"trashed", "gone"}
    OBVIOUS
  <2> HIDE DEF state
  <2>3. /\ Kin(nodes') /\ Len(nodes') = Len(nodes)
        /\ \A q \in Paths : Lead(nodes', q) = Lead(nodes, q) \ Under(nodes, n)
    <3> DEFINE ms == Mark(n, state)
    <3>1. /\ Kin(ms) /\ Len(ms) = Len(nodes)
          /\ \A q \in Paths : Lead(ms, q) = Lead(nodes, q) \ Under(nodes, n)
      BY <1>3, <2>2, Marked
    <3>2. nodes' = ms
      BY <2>1
    <3> HIDE DEF ms
    <3> QED BY <3>1, <3>2
  <2>4. ASSUME rec.alone PROVE Lead(nodes', rec.path) = {}
    <3>1. n \in Under(nodes, n)
      BY <1>3, UnderIs
    <3> QED BY <1>3, <2>3, <2>4, <3>1 DEF Unique
  <2>5. rec.op # "move"
    BY <1>1
  <2>6. \A q \in Paths : \A m \in Lead(nodes, q) : m \notin Under(nodes, n) => m \in Lead(nodes', q)
    BY <2>3
  <2>7. n = rec.ids[1]
    OBVIOUS
  <2> HIDE DEF n
  <2> QED BY <1>1, <1>2, <1>3, <2>1, <2>3, <2>4, <2>5, <2>6, <2>7, Taking
<1> QED BY <1>4, <1>5

\* Drive moves.
LEMMA Moved ==
  ASSUME IInv, NEW c \in Caller, call[c].reply = NoReply, ServeMove(c), cache' = cache, memo' = memo
  PROVE  IInv'
<1> DEFINE rec == call[c]
           n == rec.ids[1]
           t == rec.ids[3]
           name == Name(rec.to)
<1>1. /\ rec.pc = "act" /\ rec.op = "move"
      /\ IF Gone(n) \/ Gone(t) THEN Missing(c)
         ELSE IF ~nodes[t].folder \/ t \in Below(n) THEN Decline(c)
         ELSE /\ nodes' = [nodes EXCEPT ![n].parent = t, ![n].name = name]
              /\ moved' = TRUE /\ Respond(c, Answer("ok", {n}))
  BY DEF ServeMove
<1>2. rec = call[c] /\ rec.reply = NoReply /\ Killing(rec)
  BY <1>1 DEF Killing
<1>3. /\ rec \in Calls /\ rec.path \in Paths /\ rec.to \in Paths /\ Kin(nodes) /\ Active(rec)
      /\ n \in 1..Len(nodes) /\ t \in 1..Len(nodes)
      /\ rec.alone => n \in Lead(nodes, rec.path) /\ ~Gone(n) /\ t \in Lead(nodes, Front(rec.to)) /\ ~Gone(t)
  BY <1>1, <1>2, Standing
<1>4. CASE Gone(n) \/ Gone(t)
  <2>1. /\ Become(c, [call[c] EXCEPT !.reply = Answer("missing", {})])
        /\ nodes' = nodes /\ moved' = moved
    BY <1>1, <1>4 DEF Missing
  <2> QED BY <1>3, <1>4, <2>1, Unserved
<1>5. CASE ~(Gone(n) \/ Gone(t)) /\ (~nodes[t].folder \/ t \in Below(n))
  <2>1. /\ Become(c, [call[c] EXCEPT !.reply = Answer("refused", {})])
        /\ nodes' = nodes /\ moved' = moved
    BY <1>1, <1>5 DEF Decline
  <2> QED BY <1>3, <2>1, Unserved
<1>6. CASE ~(Gone(n) \/ Gone(t)) /\ nodes[t].folder /\ t \notin Below(n)
  <2>1. /\ nodes' = [nodes EXCEPT ![n].parent = t, ![n].name = name]
        /\ moved' = TRUE /\ Respond(c, Answer("ok", {n}))
    BY <1>1, <1>6
  <2>2. t \notin Under(nodes, n) /\ name \in Names /\ rec.to \in Seq(Names) /\ rec.to # <<>>
    BY <1>3, <1>6, TreeNow, PathsAre
  <2> HIDE DEF n, t, name, rec
  <2> DEFINE ms == [nodes EXCEPT ![n].parent = t, ![n].name = name]
  <2>3. /\ Kin(ms) /\ Len(ms) = Len(nodes)
        /\ \A path \in Seq(Names) :
             /\ \A m \in 1..Len(nodes) : m \notin Under(nodes, n) =>
                  (m \in Lead(ms, path) <=> m \in Lead(nodes, path))
             /\ path # <<>> =>
                  (n \in Lead(ms, path) <=>
                     nodes[n].state = "live" /\ name = Name(path) /\ t \in Lead(nodes, Front(path)))
    BY ONLY <1>3, <1>6, <2>2, Transplanted
  <2>4. nodes' = ms
    BY <2>1
  <2> HIDE DEF ms
  <2>5. Kin(nodes') /\ Len(nodes') = Len(nodes)
    BY <2>3, <2>4
  <2>6. ASSUME NEW q \in Paths, NEW m \in Lead(nodes, q), m \notin Under(nodes, n) PROVE m \in Lead(nodes', q)
    <3>1. q \in Seq(Names) /\ m \in 1..Len(nodes)
      BY <1>3, PathsAre, LeadsAre
    <3> QED BY <2>3, <2>4, <2>6, <3>1
  <2>7. ASSUME rec.alone PROVE n \in Lead(nodes', rec.to)
    <3>1. n \in Lead(nodes, rec.path) /\ t \in Lead(nodes, Front(rec.to))
      BY <1>3, <2>7
    <3>2. nodes[n].state = "live"
      BY <1>3, <3>1, LeadsAre
    <3>3. name = Name(rec.to)
      BY DEF name
    <3> QED BY <2>2, <2>3, <2>4, <3>1, <3>2, <3>3
  <2>8. n = rec.ids[1] /\ rec.op \notin {"delete", "trash"}
    BY <1>1 DEF n
  <2> QED BY <1>1, <1>2, <1>3, <2>1, <2>5, <2>6, <2>7, <2>8, Taking
<1> QED BY <1>4, <1>5, <1>6

-----------------------------------------------------------------------------
(* What happens beside the calls, and every step.                          *)

\* What disturbs every call leaves nothing to show but the Drive.
LEMMA Disturbed ==
  ASSUME IInv, Disturb, Kin(nodes'), Len(nodes') = Len(nodes), moved' = TRUE,
         Led(Everywhere(nodes'), cache', memo')
  PROVE  IInv'
<1>1. ASSUME NEW d \in Caller
      PROVE  call'[d] \in Calls /\ Shape(nodes', moved', call'[d]) /\ ~call'[d].alone
  <2> DEFINE r == [call[d] EXCEPT !.alone = FALSE]
  <2>1. Len(nodes) <= Len(nodes')
    <3>1. Len(nodes) \in Nat
      BY LeadsAre DEF IInv
    <3> QED BY <3>1
  <2>2. r = [call[d] EXCEPT !.alone = FALSE]
    OBVIOUS
  <2>3. call'[d] = r
    BY DEF Disturb
  <2> HIDE DEF r
  <2>4. r \in Calls /\ Shape(nodes', moved', r) /\ ~r.alone
    BY <2>1, <2>2, OthersKept
  <2> QED BY <2>3, <2>4
<1>2. call' \in [Caller -> Calls]
  <2>1. call' = [d \in Caller |-> call'[d]]
    BY DEF Disturb
  <2> QED BY <1>1, <2>1
<1> QED BY <1>1, <1>2 DEF IInv

\* disconnect.
LEMMA Cleared ==
  ASSUME IInv, ClearCache
  PROVE  IInv'
<1>1. Disturb /\ nodes' = nodes /\ moved' = TRUE /\ cache' = [p \in Paths |-> 0] /\ memo' = 0
  BY DEF ClearCache
<1>2. Kin(nodes') /\ Len(nodes') = Len(nodes)
  BY <1>1 DEF IInv
<1>3. Led(Everywhere(nodes'), cache', memo')
  BY <1>1 DEF Led
<1> QED BY <1>1, <1>2, <1>3, Disturbed

\* Somebody deletes something.
LEMMA Meddled ==
  ASSUME IInv, Outside
  PROVE  IInv'
<1>1. Disturb /\ moved' = TRUE /\ cache' = cache /\ memo' = memo
  BY DEF Outside
<1>2. PICK n \in 1..Len(nodes) : nodes' = Mark(n, "gone")
  BY DEF Outside, Ids
<1>3. Kin(nodes') /\ Len(nodes') = Len(nodes)
  <2> DEFINE ms == Mark(n, "gone")
  <2>1. Kin(nodes) /\ "gone" \in {"trashed", "gone"}
    BY DEF IInv
  <2>2. Kin(ms) /\ Len(ms) = Len(nodes)
    BY <2>1, Marked
  <2>3. nodes' = ms
    BY <1>2
  <2> HIDE DEF ms
  <2> QED BY <2>2, <2>3
<1>4. Led(Everywhere(nodes'), cache', memo')
  BY <1>1, <1>3 DEF IInv, Everywhere
<1> QED BY <1>1, <1>3, <1>4, Disturbed

\* A cache that forgets is as right as it was.
LEMMA Forgetting ==
  ASSUME NEW lead, NEW entries, NEW id, Led(lead, entries, id), NEW p \in Paths
  PROVE  Led(lead, [entries EXCEPT ![p] = 0], id)
<1>1. id \in Nat /\ 0 \in Nat /\ id \in {id, 0} /\ (id = 0 => p = <<Root>> \/ 0 = id)
  BY DEF Led
<1> QED BY <1>1, Cached

\* An entry expires.
LEMMA Expired ==
  ASSUME IInv, Expire
  PROVE  IInv'
<1>1. nodes' = nodes /\ memo' = memo /\ call' = call /\ moved' = moved
  BY DEF Expire
<1>2. PICK p \in Paths : cache' = [cache EXCEPT ![p] = 0]
  BY DEF Expire
<1>3. \A lead : Led(lead, cache, memo) => Led(lead, cache', memo)
  BY <1>2, Forgetting
<1>4. cache \in [Paths -> Nat]
  BY DEF IInv, Led
<1>5. \A q \in Paths : Right(nodes, cache, q) => Right(nodes, cache', q)
  BY <1>2, <1>4 DEF Right
<1>6. ASSUME NEW c \in Caller, AloneInv(nodes, cache, memo, call[c]) PROVE AloneInv(nodes, cache', memo, call[c])
  <2> DEFINE rec == call[c]
             entries == [cache EXCEPT ![rec.path] = 0]
  <2>1. rec.path \in Paths
    BY CallIs
  <2>2. ASSUME Led(Leads(nodes), entries, memo)
        PROVE  Led(Leads(nodes), [cache' EXCEPT ![rec.path] = 0], memo)
    <3>1. [cache' EXCEPT ![rec.path] = 0] = [entries EXCEPT ![p] = 0]
      BY <1>2, <1>4, <2>1
    <3> HIDE DEF entries
    <3>2. Led(Leads(nodes), [entries EXCEPT ![p] = 0], memo)
      BY <2>2, Forgetting
    <3> QED BY <3>1, <3>2
  <2> HIDE DEF rec
  <2>3. rec = call[c]
    BY DEF rec
  <2> QED BY <1>3, <1>5, <1>6, <2>2, <2>3 DEF AloneInv
<1>7. \A c \in Caller : call[c].alone => AloneInv(nodes, cache', memo, call[c])
  BY <1>6 DEF IInv
<1> QED BY <1>1, <1>3, <1>7 DEF IInv, Calm

\* Every step of a call.
LEMMA Stepped ==
  ASSUME IInv, NEW c \in Caller, Start(c) \/ Client(c) \/ Serve(c)
  PROVE  IInv'
<1>1. CASE Start(c)
  BY <1>1, Started
<1>2. CASE OnFound(c)
  <2>1. /\ call[c].pc \in {"search", "create"} /\ call[c].reply.status = "ok"
        /\ \E id \in call[c].reply.ids : Settle(c, id)
        /\ UNCHANGED <<nodes, moved>>
    BY <1>2 DEF OnFound
  <2> QED BY <2>1, Settled
<1>3. CASE OnFolder(c)
  <2>1. /\ call[c].pc \in {"search", "create"} /\ call[c].reply.status = "ok"
        /\ \E id \in call[c].reply.ids : Settle(c, id)
        /\ UNCHANGED <<nodes, moved>>
    BY <1>3 DEF OnFolder
  <2> QED BY <2>1, Settled
<1>4. CASE CreateFolder(c)
  BY <1>4, Creating
<1>5. CASE OnActed(c)
  BY <1>5, Acted
<1>6. CASE Heal(c)
  BY <1>6, Healed
<1>7. CASE RejectMissing(c)
  BY <1>7, RejectedMissing
<1>8. CASE Retry(c)
  BY <1>8, Retried
<1>9. CASE Reject(c)
  BY <1>9, Rejected
<1>10. CASE Serve(c)
  <2>1. /\ Active(call[c]) /\ call[c].reply = NoReply /\ cache' = cache /\ memo' = memo
        /\ \/ ServeSearch(c) \/ ServeCreate(c) \/ ServeUpload(c) \/ ServeCopy(c)
           \/ ServeRead(c) \/ ServeRemove(c) \/ ServeMove(c) \/ Refuse(c)
    BY <1>10 DEF Serve, Active
  <2> QED BY <2>1, Searched, CreatedFolder, Uploaded, Copied, Read, Removed, Moved, Refused
<1>11. \/ Start(c) \/ Serve(c) \/ OnFound(c) \/ CreateFolder(c) \/ OnFolder(c) \/ OnActed(c)
       \/ Heal(c) \/ RejectMissing(c) \/ Retry(c) \/ Reject(c)
  BY DEF Client
<1> QED BY <1>1, <1>2, <1>3, <1>4, <1>5, <1>6, <1>7, <1>8, <1>9, <1>10, <1>11

\* At the beginning there is nothing that could be wrong.
LEMMA AtFirst ==
  ASSUME Init
  PROVE  IInv
<1>1. nodes = <<>> /\ cache = [p \in Paths |-> 0] /\ memo = 0 /\ call = [c \in Caller |-> Idle] /\ moved = FALSE
  BY DEF Init
<1>2. Len(nodes) = 0 /\ nodes \in Seq(Thing)
  BY <1>1, EmptySeq
<1>3. Kin(nodes)
  BY <1>2 DEF Kin
<1>4. \A lead : Led(lead, cache, memo)
  BY <1>1 DEF Led
<1>5. Idle \in Calls
  <2>1. <<Root>> \in Paths /\ <<>> \in Seq(Goals) /\ <<>> \in Seq(Names) /\ <<>> \in Seq(Nat) /\ "exists" \in Ops
    BY PathsAssumption, EmptySeq DEF Ops
  <2>2. NoReply \in Replies
    BY DEF NoReply, Replies
  <2> QED BY <2>1, <2>2 DEF Idle, Calls
<1>6. /\ Idle.pc = "idle" /\ ~Idle.alone /\ Idle.reply = NoReply
      /\ NoReply.status = "none" /\ NoReply.ids = {}
  BY DEF Idle, NoReply
<1>7. Shape(nodes, moved, Idle)
  BY <1>6 DEF Shape, Active, Struck
<1>8. CalmCall(nodes, Idle)
  BY <1>6 DEF CalmCall, Active
<1>9. Calm(nodes, cache, memo)
  BY <1>2, <1>4 DEF Calm
<1>10. \A c \in Caller : call[c] = Idle
  BY <1>1
<1>11. call \in [Caller -> Calls]
  BY <1>1, <1>5
<1> QED BY <1>1, <1>3, <1>4, <1>6, <1>7, <1>8, <1>9, <1>10, <1>11 DEF IInv

\* Every step keeps the invariant.
LEMMA Inductive ==
  ASSUME IInv, [Next]_vars
  PROVE  IInv'
<1>1. CASE \E c \in Caller : Start(c) \/ Client(c) \/ Serve(c)
  BY <1>1, Stepped
<1>2. CASE ClearCache
  BY <1>2, Cleared
<1>3. CASE Expire
  BY <1>3, Expired
<1>4. CASE Outside
  BY <1>4, Meddled
<1>5. CASE UNCHANGED vars
  BY <1>5 DEF vars, IInv
<1> QED BY <1>1, <1>2, <1>3, <1>4, <1>5 DEF Next

-----------------------------------------------------------------------------
(* The properties.                                                         *)

\* Every state of the resolver and the adapter satisfies the inductive
\* invariant: whoever else works in the Drive, a call keeps to its plan with
\* ids that exist; a call that is alone, and every call as long as nothing was
\* removed or moved, has only ids to which its paths lead.
THEOREM KeepsInv == Spec => []IInv
<1>1. Init => IInv
  BY AtFirst
<1>2. IInv /\ [Next]_vars => IInv'
  BY Inductive
<1> QED BY <1>1, <1>2, PTL DEF Spec

\* The model's words for the Drive of this state.
LEMMA InThisState ==
  /\ \A rec : Claim(rec) <=> Truth(nodes, rec)
  /\ \A q : RightEntry(q) <=> Right(nodes, cache, q)
BY TreeNow DEF Claim, Truth, RightEntry, Right

\* A call that has the Drive to itself and finds the cache right does what it
\* says for its path: uploads and copies are where they should be, what was
\* deleted or moved is no longer at its old path, "missing" is true, and a
\* download that met a file that is gone has found the one that is there.
THEOREM DoesAsTold == Spec => []AloneDoesAsTold
<1>1. IInv => AloneDoesAsTold
  <2> SUFFICES ASSUME IInv, NEW c \in Caller, call[c].pc = "done", call[c].alone PROVE Claim(call[c])
    BY DEF AloneDoesAsTold
  <2>1. AloneInv(nodes, cache, memo, call[c])
    BY DEF IInv
  <2>2. Truth(nodes, call[c])
    BY <2>1 DEF AloneInv
  <2> QED BY <2>2, InThisState
<1> QED BY <1>1, KeepsInv, PTL

\* Such a call leaves a cache of which every entry is right, except below a path
\* that it deleted or moved away.
THEOREM KeepsCacheRight == Spec => []AloneKeepsCache
<1>1. IInv => AloneKeepsCache
  <2> SUFFICES ASSUME IInv, NEW c \in Caller, call[c].pc = "done", call[c].alone, call[c].result # "error",
                      NEW q \in Paths
               PROVE  \/ RightEntry(q)
                      \/ call[c].op \in {"delete", "trash", "move"} /\ IsStrictPrefix(call[c].path, q)
    BY DEF AloneKeepsCache
  <2>1. AloneInv(nodes, cache, memo, call[c])
    BY DEF IInv
  <2>2. Right(nodes, cache, q) \/ (Killing(call[c]) /\ IsStrictPrefix(call[c].path, q))
    BY <2>1 DEF AloneInv
  <2> QED BY <2>2, InThisState DEF Killing
<1> QED BY <1>1, KeepsInv, PTL

\* Until something is removed or moved, no call hides a file, however many of
\* them create the same folders at once: what an upload, a copy or a search
\* returned stays where its path leads, and every cached id is right.
THEOREM HidesNothing == Spec => []NothingHidden
<1>1. IInv => NothingHidden
  <2> SUFFICES ASSUME IInv, ~moved
               PROVE  /\ \A c \in Caller : call[c].pc = "done" /\ call[c].result = "ok" => Claim(call[c])
                      /\ \A q \in Paths : RightEntry(q)
    BY DEF NothingHidden
  <2>1. ASSUME NEW c \in Caller, call[c].pc = "done", call[c].result = "ok" PROVE Claim(call[c])
    <3>1. CalmCall(nodes, call[c])
      BY DEF IInv
    <3>2. Truth(nodes, call[c])
      BY <2>1, <3>1 DEF CalmCall
    <3> QED BY <3>2, InThisState
  <2>2. ASSUME NEW q \in Paths PROVE RightEntry(q)
    <3>1. Led(Leads(nodes), cache, memo) /\ Kin(nodes)
      BY DEF IInv, Calm
    <3>2. Right(nodes, cache, q)
      BY <3>1, LeadsAre DEF Led, Right
    <3> QED BY <3>2, InThisState
  <2> QED BY <2>1, <2>2
<1> QED BY <1>1, KeepsInv, PTL
=============================================================================
