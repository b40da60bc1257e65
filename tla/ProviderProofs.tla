---------------------------- MODULE ProviderProofs ----------------------------
(***************************************************************************)
(* Proofs about ProviderOps.                                               *)
(***************************************************************************)
EXTENDS ProviderOps, SequenceTheorems, WellFoundedInduction, TLAPS

-----------------------------------------------------------------------------
(* Prefixes.                                                               *)

\* p agrees with the beginning of q.
Starts(p, q) == Len(p) <= Len(q) /\ \A i \in 1..Len(p) : p[i] = q[i]

\* IsPrefix compares element by element.
LEMMA PrefixIs ==
  ASSUME NEW S, NEW p \in Seq(S), NEW q \in Seq(S)
  PROVE  IsPrefix(p, q) <=> Starts(p, q)
<1>1. Len(p) \in Nat /\ Len(q) \in Nat
  BY LenProperties
<1>2. SubSeq(p, 1, Len(p)) = p
  BY SubSeqFull
<1>3. CASE Len(p) > Len(q)
  BY <1>1, <1>3 DEF IsPrefix, Starts
<1>4. CASE Len(p) <= Len(q)
  <2> DEFINE n == Len(p)
             r == SubSeq(q, 1, n)
  <2>1. \A i \in 1..n : q[i] \in S
    BY <1>1, <1>4, ElementOfSeq
  <2>2. r \in Seq(S) /\ Len(r) = n /\ \A i \in 1..n : r[i] = q[i]
    <3>1. r \in Seq(S) /\ Len(r) = (IF 1 <= n THEN n - 1 + 1 ELSE 0)
          /\ \A i \in 1..(n - 1 + 1) : r[i] = q[1 + i - 1]
      BY <1>1, <2>1, SubSeqProperties
    <3>2. (IF 1 <= n THEN n - 1 + 1 ELSE 0) = n /\ n - 1 + 1 = n
      BY <1>1
    <3>3. \A i \in 1..n : 1 + i - 1 = i
      BY <1>1
    <3> HIDE DEF r, n
    <3> QED BY <3>1, <3>2, <3>3
  <2>3. p = r <=> \A i \in 1..n : p[i] = q[i]
    <3>1. ASSUME \A i \in 1..n : p[i] = q[i] PROVE p = r
      <4> HIDE DEF r
      <4> QED BY <2>2, <3>1, SeqEqual
    <3>2. ASSUME p = r PROVE \A i \in 1..n : p[i] = q[i]
      <4> HIDE DEF r
      <4> QED BY <2>2, <3>2
    <3> QED BY <3>1, <3>2
  <2> QED BY <1>2, <1>4, <2>3 DEF IsPrefix, Starts
<1> QED BY <1>1, <1>3, <1>4

\* A prefix of a prefix is a prefix, and a sequence is a prefix of itself.
LEMMA PrefixOrder ==
  ASSUME NEW S, NEW p \in Seq(S), NEW q \in Seq(S), NEW r \in Seq(S)
  PROVE  /\ IsPrefix(p, p)
         /\ IsPrefix(p, q) /\ IsPrefix(q, r) => IsPrefix(p, r)
         /\ IsPrefix(p, q) /\ IsPrefix(q, p) => p = q
<1>1. Len(p) \in Nat /\ Len(q) \in Nat /\ Len(r) \in Nat
  BY LenProperties
<1>2. Starts(p, p)
  BY <1>1 DEF Starts
<1>3. Starts(p, q) /\ Starts(q, r) => Starts(p, r)
  BY <1>1 DEF Starts
<1>4. Starts(p, q) /\ Starts(q, p) => p = q
  <2> SUFFICES ASSUME Starts(p, q), Starts(q, p) PROVE p = q
    OBVIOUS
  <2>1. Len(p) = Len(q) /\ \A i \in 1..Len(p) : p[i] = q[i]
    BY <1>1 DEF Starts
  <2> QED BY <2>1, SeqEqual
<1> QED BY <1>2, <1>3, <1>4, PrefixIs

\* Of two prefixes of one sequence one is a prefix of the other.
LEMMA PrefixesMeet ==
  ASSUME NEW S, NEW p \in Seq(S), NEW q \in Seq(S), NEW r \in Seq(S),
         IsPrefix(p, r), IsPrefix(q, r)
  PROVE  IsPrefix(p, q) \/ IsPrefix(q, p)
<1>1. Len(p) \in Nat /\ Len(q) \in Nat /\ Len(r) \in Nat
  BY LenProperties
<1>2. Starts(p, r) /\ Starts(q, r)
  BY PrefixIs
<1>3. Starts(p, q) \/ Starts(q, p)
  BY <1>1, <1>2 DEF Starts
<1> QED BY <1>3, PrefixIs

-----------------------------------------------------------------------------
(* Images.                                                                 *)

\* r is to, and after it what q has after p.
Carried(p, to, q, r) ==
  /\ Len(r) = Len(to) + (Len(q) - Len(p))
  /\ \A i \in 1..Len(to) : r[i] = to[i]
  /\ \A i \in 1..(Len(q) - Len(p)) : r[Len(to) + i] = q[Len(p) + i]

\* What an image consists of.
LEMMA ImageIs ==
  ASSUME NEW S, NEW p \in Seq(S), NEW to \in Seq(S), NEW q \in Seq(S), IsPrefix(p, q)
  PROVE  Image(p, to, q) \in Seq(S) /\ Carried(p, to, q, Image(p, to, q))
<1> DEFINE n == Len(q) - Len(p)
           r == SubSeq(q, Len(p) + 1, Len(q))
<1>1. Len(p) \in Nat /\ Len(q) \in Nat /\ Len(to) \in Nat /\ Len(p) <= Len(q)
  BY LenProperties DEF IsPrefix
<1>2. n \in Nat
  BY <1>1
<1>3. r \in Seq(S) /\ Len(r) = n /\ \A i \in 1..n : r[i] = q[Len(p) + i]
  <2> DEFINE a == Len(p) + 1
             b == Len(q)
  <2>1. a \in Int /\ b \in Int /\ b - a + 1 = n /\ (IF a <= b THEN b - a + 1 ELSE 0) = n
    BY <1>1
  <2>2. \A i \in a..b : q[i] \in S
    BY <1>1, ElementOfSeq
  <2>3. \A i \in 1..n : a + i - 1 = Len(p) + i
    BY <1>1
  <2> HIDE DEF a, b, n
  <2>4. SubSeq(q, a, b) \in Seq(S) /\ Len(SubSeq(q, a, b)) = n
        /\ \A i \in 1..n : SubSeq(q, a, b)[i] = q[a + i - 1]
    BY <2>1, <2>2, SubSeqProperties
  <2>5. r = SubSeq(q, a, b)
    BY DEF a, b
  <2> HIDE DEF r
  <2> QED BY <2>3, <2>4, <2>5
<1> HIDE DEF r, n
<1> DEFINE w == to \o r
<1>4. /\ w \in Seq(S) /\ Len(w) = Len(to) + n
      /\ \A i \in 1..(Len(to) + n) : w[i] = IF i <= Len(to) THEN to[i] ELSE r[i - Len(to)]
  BY <1>3, ConcatProperties
<1> HIDE DEF w
<1>5. \A i \in 1..Len(to) : w[i] = to[i]
  BY <1>1, <1>2, <1>4
<1>6. \A i \in 1..n : w[Len(to) + i] = r[i]
  BY <1>1, <1>2, <1>4
<1>7. Image(p, to, q) = w
  BY DEF Image, w, r
<1> QED BY <1>3, <1>4, <1>5, <1>6, <1>7 DEF Carried, n

\* An image lies below where it was carried to, and carried back it is what it
\* was.
LEMMA ImageBack ==
  ASSUME NEW S, NEW p \in Seq(S), NEW to \in Seq(S), NEW q \in Seq(S), IsPrefix(p, q)
  PROVE  /\ Image(p, to, q) \in Seq(S) /\ IsPrefix(to, Image(p, to, q))
         /\ Image(to, p, Image(p, to, q)) = q
<1> DEFINE r == Image(p, to, q)
           b == Image(to, p, r)
<1>1. r \in Seq(S) /\ Carried(p, to, q, r)
  BY ImageIs
<1>2. Len(p) \in Nat /\ Len(q) \in Nat /\ Len(to) \in Nat
  BY LenProperties
<1>3. Starts(p, q)
  BY PrefixIs
<1> HIDE DEF r
<1>4. IsPrefix(to, r)
  <2>1. Starts(to, r)
    BY <1>1, <1>2, <1>3 DEF Starts, Carried
  <2> QED BY <1>1, <2>1, PrefixIs
<1>5. b \in Seq(S) /\ Carried(to, p, r, b)
  BY <1>1, <1>4, ImageIs
<1> HIDE DEF b
<1>6. b = q
  <2>1. Len(b) = Len(q) /\ Len(r) - Len(to) = Len(q) - Len(p)
    BY <1>1, <1>2, <1>5 DEF Carried
  <2>2. \A i \in 1..Len(p) : b[i] = q[i]
    BY <1>2, <1>3, <1>5 DEF Starts, Carried
  <2>3. \A i \in 1..(Len(q) - Len(p)) : b[Len(p) + i] = q[Len(p) + i]
    <3>1. \A i \in 1..(Len(q) - Len(p)) : b[Len(p) + i] = r[Len(to) + i]
      BY <1>5, <2>1 DEF Carried
    <3> QED BY <1>1, <3>1 DEF Carried
  <2>4. ASSUME NEW i \in 1..Len(b) PROVE b[i] = q[i]
    <3>1. CASE i <= Len(p)
      BY <1>2, <2>1, <2>2, <2>4, <3>1
    <3>2. CASE i > Len(p)
      <4>1. i - Len(p) \in 1..(Len(q) - Len(p)) /\ Len(p) + (i - Len(p)) = i
        BY <1>2, <2>1, <2>4, <3>2
      <4> QED BY <2>3, <4>1
    <3> QED BY <1>2, <3>1, <3>2
  <2> QED BY <1>5, <2>1, <2>4, SeqEqual
<1> QED BY <1>1, <1>4, <1>6 DEF r, b

\* The path itself is carried to where it goes.
LEMMA ImageSelf ==
  ASSUME NEW S, NEW p \in Seq(S), NEW to \in Seq(S)
  PROVE  Image(p, to, p) = to
<1>1. Len(p) \in Nat
  BY LenProperties
<1>2. SubSeq(p, Len(p) + 1, Len(p)) = <<>>
  BY <1>1, SubSeqEmpty
<1> QED BY <1>2, ConcatEmptySeq DEF Image

-----------------------------------------------------------------------------
(* The inductive invariant of calls.  What it says of a call takes the     *)
(* provider and what is stored as arguments, so that a call is looked at   *)
(* before a step and after it alike.                                       *)

Entries == Contents \cup {None, Folder}
Stored == [Paths -> Entries]

Calls ==
  [op : {"upload", "delete", "copy", "move", "createFolder"},
   path : Paths \cup {<<>>}, to : Paths \cup {<<>>}, content : Contents \cup {None},
   pc : {"idle", "folders", "act", "remove", "sidecar", "unsidecar", "done"},
   k : Nat, ofBatch : BOOLEAN, result : {None, "ok", "error"},
   was : Stored \cup {<<>>}, touched : SUBSET Paths]

Batches ==
  [op : {"walk", "deleteTree", "deleteMany"}, targets : SUBSET (Paths \cup {<<>>}),
   phase : {"idle", "walk", "delete", "report", "rejected"},
   pending : SUBSET (Paths \cup {<<>>}), listed : SUBSET Paths, found : SUBSET Paths,
   queue : SUBSET Paths, deleted : SUBSET Paths, failed : SUBSET Paths,
   was : Stored \cup {<<>>}, touched : SUBSET Paths]

HasFolders(k) == k \in {"local", "webdav"}

ScopeOf(k, p) == IF HasFolders(k) THEN Within(p) ELSE {p}

\* Which steps a call of each kind goes through, and what it knows.
Shape(k, rec) ==
  /\ rec.pc = "idle" => rec = NoCall
  /\ rec.pc # "idle" => rec.path \in Paths /\ rec.to \in Paths
  /\ rec.ofBatch => rec.op = "delete" /\ rec.pc # "idle"
  /\ rec.pc # "idle" /\ ~rec.ofBatch => rec.was \in Stored
  /\ rec.pc # "done" => rec.result = None
  /\ rec.op = "upload" =>
       rec.content \in Contents /\ rec.pc \in {"folders", "act", "sidecar", "done"}
  /\ rec.op = "delete" => rec.pc \in {"idle", "act", "unsidecar", "done"}
  /\ rec.op = "createFolder" => HasFolders(k) /\ rec.pc \in {"folders", "done"}
  /\ rec.op = "copy" => rec.pc \in {"folders", "act", "sidecar", "done"}
  /\ rec.op \in {"upload", "delete", "createFolder"} /\ rec.pc # "idle" => rec.path = rec.to
  /\ rec.pc = "folders" => HasFolders(k)
  /\ rec.pc = "remove" => rec.op = "move" /\ ~HasFolders(k)
  /\ rec.pc \in {"sidecar", "unsidecar"} => k = "local"

\* A batch that deletes has targets below the root.
BatchShape(b) ==
  /\ b.op # "walk" => b.targets \subseteq Paths
  /\ b.phase = "delete" => b.op # "walk"

TypeOK ==
  /\ kind \in Kinds /\ store \in Stored
  /\ sidecar \in [Paths -> Contents \cup {None}]
  /\ call \in [Worker -> Calls] /\ batch \in Batches
  /\ calm \in BOOLEAN
  /\ \A c \in Worker : Shape(kind, call[c])
  /\ BatchShape(batch)

Kept(k, st, rec) == \A q \in ScopeOf(k, rec.path) : rec.was[q] # None => st[q] = rec.was[q]

There(k, st, rec) ==
  \A q \in ScopeOf(k, rec.path) : rec.was[q] # None =>
    /\ Image(rec.path, rec.to, q) \in Paths
    /\ st[Image(rec.path, rec.to, q)] = rec.was[q]

Gone(k, st, rec) == \A q \in ScopeOf(k, rec.path) : st[q] = None

HereOrThere(k, st, rec) ==
  \A q \in ScopeOf(k, rec.path) : rec.was[q] \in Contents =>
    \/ st[q] = rec.was[q]
    \/ /\ Image(rec.path, rec.to, q) \in Paths
       /\ st[Image(rec.path, rec.to, q)] = rec.was[q]

\* What a call has achieved at each of its steps.
Promise(k, st, rec) ==
  /\ rec.op = "upload" /\ (rec.pc = "sidecar" \/ rec.result = "ok") =>
       st[rec.to] = rec.content
  /\ rec.op = "delete" /\ (rec.pc = "unsidecar" \/ rec.result = "ok") => Gone(k, st, rec)
  /\ rec.op = "createFolder" /\ rec.result = "ok" =>
       st[rec.to] = Folder \/ (k = "webdav" /\ st[rec.to] \in Contents)
  /\ rec.op = "copy" /\ rec.pc \in {"folders", "act"} => Kept(k, st, rec)
  /\ rec.op = "copy" /\ (rec.pc = "sidecar" \/ rec.result = "ok") => There(k, st, rec)
  /\ rec.op = "move" /\ rec.path # rec.to =>
       /\ HereOrThere(k, st, rec)
       /\ rec.pc = "folders" => Kept(k, st, rec)
       /\ rec.pc = "act" => Kept(k, st, rec) \/ (HasFolders(k) /\ st[rec.path] = None)
       /\ rec.pc = "remove" => There(k, st, rec)
       /\ rec.pc \in {"sidecar", "unsidecar"} \/ rec.result = "ok" =>
            There(k, st, rec) /\ Gone(k, st, rec)

\* A call of which this is to be said.
Owed(rec) == rec.pc # "idle" /\ ~rec.ofBatch /\ Undisturbed(rec)

CallInv == \A c \in Worker : Owed(call[c]) => Promise(kind, store, call[c])

-----------------------------------------------------------------------------
(* What lies where.                                                        *)

\* Paths are sequences of names and begin below the root.
LEMMA PathsAre ==
  ASSUME NEW p \in Paths
  PROVE  p \in Seq(Names) /\ p # <<>> /\ p \in Within(p) /\ Scope(p) \subseteq Within(p)
         /\ p \in Scope(p)
<1>1. p \in Seq(Names) /\ p # <<>>
  BY PathsAssumption
<1>2. p \in Within(p)
  BY <1>1, PrefixOrder DEF Within
<1> QED BY <1>1, <1>2 DEF Scope

\* None, the folders and the contents are different things.
LEMMA Different ==
  /\ None \notin Contents /\ Folder \notin Contents /\ None # Folder
BY ContentsAssumption DEF None, Folder

\* What lies within a path has an image within any other.
LEMMA WithinImage ==
  ASSUME NEW p \in Paths, NEW to \in Paths, NEW q \in Within(p)
  PROVE  /\ Image(p, to, q) \in Seq(Names) /\ IsPrefix(to, Image(p, to, q))
         /\ Image(to, p, Image(p, to, q)) = q
         /\ Image(p, to, q) \in Paths => Image(p, to, q) \in Within(to)
<1>1. p \in Seq(Names) /\ to \in Seq(Names) /\ q \in Seq(Names) /\ IsPrefix(p, q)
  BY PathsAre DEF Within
<1>2. Image(p, to, q) \in Seq(Names) /\ IsPrefix(to, Image(p, to, q))
      /\ Image(to, p, Image(p, to, q)) = q
  BY <1>1, ImageBack
<1> QED BY <1>2 DEF Within

\* What is placed at the image of something is that thing, and elsewhere
\* nothing changes.
LEMMA PlacedIs ==
  ASSUME NEW rec, rec.path \in Paths, rec.to \in Paths, Fits(rec)
  PROVE  /\ Images(rec) \subseteq Within(rec.to)
         /\ \A q \in Source(rec) :
              /\ Image(rec.path, rec.to, q) \in Images(rec)
              /\ Image(rec.path, rec.to, q) \in Paths
              /\ Placed(rec)[Image(rec.path, rec.to, q)] = store[q]
         /\ \A r \in Paths : r \notin Images(rec) => Placed(rec)[r] = store[r]
<1>1. \A q \in Source(rec) : q \in Within(rec.path)
  BY PathsAre DEF Source
<1>2. ASSUME NEW q \in Source(rec)
      PROVE  /\ Image(rec.path, rec.to, q) \in Images(rec)
             /\ Image(rec.path, rec.to, q) \in Within(rec.to)
             /\ Image(rec.path, rec.to, q) \in Paths
             /\ Image(rec.to, rec.path, Image(rec.path, rec.to, q)) = q
  <2>1. Image(rec.path, rec.to, q) \in Paths
    BY DEF Fits
  <2> QED BY <1>1, <2>1, WithinImage DEF Images
<1>3. Images(rec) \subseteq Within(rec.to)
  BY <1>2 DEF Images
<1>4. ASSUME NEW q \in Source(rec)
      PROVE  Placed(rec)[Image(rec.path, rec.to, q)] = store[q]
  <2> DEFINE r == Image(rec.path, rec.to, q)
  <2>1. r \in Paths /\ r \in Images(rec) /\ Image(rec.to, rec.path, r) = q
    BY <1>2
  <2> HIDE DEF r
  <2>2. rec.path \o SubSeq(r, Len(rec.to) + 1, Len(r)) = q
    BY <2>1 DEF Image
  <2> QED BY <2>1, <2>2 DEF Placed, r
<1>5. \A r \in Paths : r \notin Images(rec) => Placed(rec)[r] = store[r]
  BY DEF Placed
<1> QED BY <1>2, <1>3, <1>4, <1>5

\* What is placed is what was somewhere before.
LEMMA PlacedTyped ==
  ASSUME store \in Stored, NEW rec, rec.path \in Paths, rec.to \in Paths, Fits(rec)
  PROVE  /\ Placed(rec) \in Stored /\ Replaced(rec) \in Stored
         /\ \A T \in SUBSET Paths : Without(Replaced(rec), T) \in Stored /\ Without(store, T) \in Stored
<1>1. ASSUME NEW r \in Paths PROVE Placed(rec)[r] \in Entries
  <2>1. CASE r \in Images(rec)
    <3>1. PICK q \in Source(rec) : r = Image(rec.path, rec.to, q)
      BY <2>1 DEF Images
    <3>2. Placed(rec)[r] = store[q] /\ q \in Paths
      <4>1. q \in Paths
        BY PathsAre DEF Source, Within
      <4> QED BY <3>1, <4>1, PlacedIs
    <3> QED BY <3>2 DEF Stored
  <2>2. CASE r \notin Images(rec)
    <3>1. Placed(rec)[r] = store[r]
      BY <2>2, PlacedIs
    <3> QED BY <3>1 DEF Stored
  <2> QED BY <2>1, <2>2
<1>2. Placed(rec) \in Stored
  <2>1. Placed(rec) = [r \in Paths |-> Placed(rec)[r]]
    BY DEF Placed
  <2> QED BY <1>1, <2>1 DEF Stored
<1>3. None \in Entries
  BY DEF Entries
<1>4. ASSUME NEW st \in Stored, NEW T PROVE Without(st, T) \in Stored
  BY <1>3 DEF Without, Stored
<1>5. Replaced(rec) \in Stored
  BY <1>2, <1>4 DEF Replaced
<1> QED BY <1>2, <1>4, <1>5

-----------------------------------------------------------------------------
(* Steps.                                                                  *)

ChangedBy(old, new) == {q \in Paths : new[q] # old[q]}

\* The same call, but for what others have touched.
SameCall(old, new) ==
  /\ new.op = old.op /\ new.path = old.path /\ new.to = old.to /\ new.content = old.content
  /\ new.pc = old.pc /\ new.k = old.k /\ new.ofBatch = old.ofBatch
  /\ new.result = old.result /\ new.was = old.was

\* What another's step that changes these paths does to a call.
Told(old, new, paths) ==
  /\ SameCall(old, new)
  /\ old.was = <<>> => new = old
  /\ old.was # <<>> => new.touched = old.touched \cup paths

\* What a step of c does to the calls and to the batch.
LEMMA BecomeDoes ==
  ASSUME call \in [Worker -> Calls], batch \in Batches,
         NEW c \in Worker, NEW next \in Calls, Become(c, next)
  PROVE  /\ call' \in [Worker -> Calls] /\ call'[c] = next
         /\ \A d \in Worker : d # c => Told(call[d], call'[d], ChangedBy(store, store'))
         /\ batch' \in Batches /\ (BatchShape(batch) => BatchShape(batch'))
<1> DEFINE changed == ChangedBy(store, store')
           told(rec) == [rec EXCEPT !.touched = IF rec.was = <<>> THEN @ ELSE @ \cup changed]
<1>1. /\ call' = [d \in Worker |-> IF d = c THEN next ELSE told(call[d])]
      /\ batch' = IF call[c].ofBatch THEN batch ELSE told(batch)
  BY DEF Become, ChangedBy
<1>2. changed \subseteq Paths
  BY DEF ChangedBy
<1>3. ASSUME NEW rec \in Calls
      PROVE  told(rec) \in Calls /\ Told(rec, told(rec), changed)
  <2> DEFINE more == rec.touched \cup changed
  <2>1. more \in SUBSET Paths /\ rec.touched \in SUBSET Paths
    BY <1>2 DEF Calls
  <2> HIDE DEF more
  <2>2. CASE rec.was = <<>>
    <3>1. told(rec) = [rec EXCEPT !.touched = rec.touched]
      BY <2>2
    <3>2. told(rec) = rec
      BY <3>1 DEF Calls
    <3> QED BY <2>2, <3>2 DEF SameCall, Told
  <2>3. CASE rec.was # <<>>
    <3>1. told(rec) = [rec EXCEPT !.touched = more]
      BY <2>3 DEF more
    <3>2. [rec EXCEPT !.touched = more] \in Calls /\ SameCall(rec, [rec EXCEPT !.touched = more])
          /\ [rec EXCEPT !.touched = more].touched = more
      BY <2>1 DEF Calls, SameCall
    <3> QED BY <2>3, <3>1, <3>2 DEF more, Told
  <2> QED BY <2>2, <2>3
<1>4. told(batch) \in Batches /\ (BatchShape(batch) => BatchShape(told(batch)))
  <2> DEFINE more == IF batch.was = <<>> THEN batch.touched ELSE batch.touched \cup changed
  <2>1. more \in SUBSET Paths
    BY <1>2 DEF Batches
  <2>2. told(batch) = [batch EXCEPT !.touched = more]
    OBVIOUS
  <2> HIDE DEF more
  <2>3. [batch EXCEPT !.touched = more] \in Batches
    BY <2>1 DEF Batches
  <2>4. [batch EXCEPT !.touched = more].op = batch.op
        /\ [batch EXCEPT !.touched = more].targets = batch.targets
        /\ [batch EXCEPT !.touched = more].phase = batch.phase
    BY DEF Batches
  <2> QED BY <2>2, <2>3, <2>4 DEF BatchShape
<1> HIDE DEF told, changed
<1>5. call' \in [Worker -> Calls] /\ call'[c] = next
  BY <1>1, <1>3
<1>6. \A d \in Worker : d # c => Told(call[d], call'[d], changed)
  BY <1>1, <1>3
<1>7. batch' \in Batches /\ (BatchShape(batch) => BatchShape(batch'))
  BY <1>1, <1>4
<1> QED BY <1>5, <1>6, <1>7 DEF changed

\* What a call knows of itself does not depend on what others have touched.
LEMMA ShapeStays ==
  ASSUME NEW k, NEW old \in Calls, NEW new \in Calls, NEW paths, Told(old, new, paths),
         Shape(k, old)
  PROVE  Shape(k, new)
<1>1. old.pc = "idle" => new = NoCall
  BY DEF Shape, NoCall, Told
<1> QED BY <1>1 DEF Shape, SameCall, Told

\* A call's promise is about what lies within its two paths.
LEMMA PromiseStays ==
  ASSUME NEW k, NEW st, NEW st1, NEW old, NEW new, SameCall(old, new),
         old.path \in Paths, old.to \in Paths, Promise(k, st, old),
         \A q \in Within(old.path) \cup Within(old.to) : st1[q] = st[q]
  PROVE  Promise(k, st1, new)
<1>1. /\ new.path = old.path /\ new.to = old.to /\ new.was = old.was /\ new.op = old.op
      /\ new.pc = old.pc /\ new.result = old.result /\ new.content = old.content
  BY DEF SameCall
<1>2. ScopeOf(k, old.path) \subseteq Within(old.path)
  BY PathsAre DEF ScopeOf
<1>3. /\ old.path \in Within(old.path)
      /\ old.to \in Within(old.to)
  BY PathsAre
<1>4. \A q \in ScopeOf(k, old.path) :
        /\ st1[q] = st[q]
        /\ Image(old.path, old.to, q) \in Paths =>
             st1[Image(old.path, old.to, q)] = st[Image(old.path, old.to, q)]
  BY <1>2, WithinImage
<1>5. st1[old.to] = st[old.to] /\ st1[old.path] = st[old.path]
  BY <1>3
<1>6. (Kept(k, st, old) => Kept(k, st1, new)) /\ (Gone(k, st, old) => Gone(k, st1, new))
  BY <1>1, <1>4 DEF Kept, Gone
<1>7. (There(k, st, old) => There(k, st1, new))
      /\ (HereOrThere(k, st, old) => HereOrThere(k, st1, new))
  BY <1>1, <1>4 DEF There, HereOrThere
<1> QED BY <1>1, <1>5, <1>6, <1>7 DEF Promise

\* What a call that takes a step has to show.
LEMMA StepKeeps ==
  ASSUME TypeOK, CallInv, NEW c \in Worker, NEW next \in Calls, Become(c, next),
         kind' = kind, store' \in Stored, sidecar' \in [Paths -> Contents \cup {None}],
         calm' \in BOOLEAN, Shape(kind, next),
         Owed(next) => Promise(kind, store', next)
  PROVE  TypeOK' /\ CallInv'
<1> DEFINE changed == ChangedBy(store, store')
<1>1. /\ call' \in [Worker -> Calls] /\ call'[c] = next
      /\ \A d \in Worker : d # c => Told(call[d], call'[d], changed)
      /\ batch' \in Batches /\ BatchShape(batch')
  BY BecomeDoes DEF TypeOK
<1> HIDE DEF changed
<1>2. ASSUME NEW d \in Worker PROVE Shape(kind', call'[d])
  <2>1. CASE d = c
    BY <1>1, <2>1
  <2>2. CASE d # c
    <3>1. call[d] \in Calls /\ call'[d] \in Calls /\ Shape(kind, call[d])
          /\ Told(call[d], call'[d], changed)
      BY <1>1, <2>2 DEF TypeOK
    <3>2. Shape(kind, call'[d])
      BY <3>1, ShapeStays
    <3> QED BY <3>2
  <2> QED BY <2>1, <2>2
<1>3. TypeOK'
  <2>1. kind' \in Kinds
    BY DEF TypeOK
  <2> QED BY <1>1, <1>2, <2>1 DEF TypeOK
<1>4. ASSUME NEW d \in Worker, Owed(call'[d])
      PROVE  Promise(kind', store', call'[d])
  <2>1. CASE d = c
    BY <1>1, <1>4, <2>1
  <2>2. CASE d # c
    <3> DEFINE old == call[d]
               new == call'[d]
    <3>1. /\ old \in Calls /\ new \in Calls /\ Told(old, new, changed) /\ Shape(kind, old)
      BY <1>1, <2>2 DEF TypeOK
    <3>2. Owed(new) /\ (Owed(old) => Promise(kind, store, old))
      BY <1>4 DEF CallInv
    <3> HIDE DEF old, new
    <3>3. old.pc # "idle" /\ ~old.ofBatch
      BY <3>1, <3>2 DEF Told, SameCall, Owed
    <3>4. old.path \in Paths /\ old.to \in Paths /\ old.was # <<>>
      <4>1. old.was \in Stored /\ old.path \in Paths /\ old.to \in Paths
        BY <3>1, <3>3 DEF Shape
      <4>2. DOMAIN old.was = Paths
        BY <4>1 DEF Stored
      <4>3. DOMAIN <<>> = {}
        OBVIOUS
      <4> QED BY <4>1, <4>2, <4>3
    <3>5. new.touched = old.touched \cup changed /\ new.path = old.path /\ new.to = old.to
          /\ SameCall(old, new)
      BY <3>1, <3>4 DEF Told, SameCall
    <3>6. \A q \in Within(old.path) \cup Within(old.to) : q \notin changed /\ q \notin old.touched
      BY <3>2, <3>5 DEF Undisturbed, Owed
    <3>7. \A q \in Within(old.path) \cup Within(old.to) : store'[q] = store[q]
      BY <3>6 DEF ChangedBy, changed, Within
    <3>8. Promise(kind, store, old)
      <4>1. Undisturbed(old)
        BY <3>6 DEF Undisturbed
      <4> QED BY <3>2, <3>3, <4>1 DEF Owed
    <3>9. Promise(kind, store', new)
      BY <3>4, <3>5, <3>7, <3>8, PromiseStays
    <3> QED BY <3>9 DEF new
  <2> QED BY <2>1, <2>2
<1>5. CallInv'
  BY <1>4 DEF CallInv
<1> QED BY <1>3, <1>5

\* A call that goes on, or is done, is a call; and it is the same but for that.
LEMMA GoesOn ==
  ASSUME NEW rec \in Calls
  PROVE  /\ \A label \in {"act", "remove", "sidecar", "unsidecar"} :
              /\ Go(rec, label) \in Calls /\ Go(rec, label).pc = label
              /\ \A f \in {"op", "path", "to", "content", "k", "ofBatch", "result", "was", "touched"} :
                   Go(rec, label)[f] = rec[f]
         /\ \A result \in {"ok", "error"} :
              /\ Done(rec, result) \in Calls
              /\ Done(rec, result).pc = "done" /\ Done(rec, result).result = result
              /\ \A f \in {"op", "path", "to", "content", "k", "ofBatch", "was", "touched"} :
                   Done(rec, result)[f] = rec[f]
         /\ \A n \in Nat :
              /\ [rec EXCEPT !.k = n] \in Calls
              /\ \A f \in {"op", "path", "to", "content", "pc", "ofBatch", "result", "was", "touched"} :
                   [rec EXCEPT !.k = n][f] = rec[f]
<1>1. ASSUME NEW label \in {"act", "remove", "sidecar", "unsidecar"}
      PROVE  /\ Go(rec, label) \in Calls /\ Go(rec, label).pc = label
             /\ \A f \in {"op", "path", "to", "content", "k", "ofBatch", "result", "was", "touched"} :
                  Go(rec, label)[f] = rec[f]
  BY DEF Go, Calls
<1>2. ASSUME NEW result \in {"ok", "error"}
      PROVE  /\ Done(rec, result) \in Calls
             /\ Done(rec, result).pc = "done" /\ Done(rec, result).result = result
             /\ \A f \in {"op", "path", "to", "content", "k", "ofBatch", "was", "touched"} :
                  Done(rec, result)[f] = rec[f]
  BY DEF Done, Calls
<1>3. ASSUME NEW n \in Nat
      PROVE  /\ [rec EXCEPT !.k = n] \in Calls
             /\ \A f \in {"op", "path", "to", "content", "pc", "ofBatch", "result", "was", "touched"} :
                  [rec EXCEPT !.k = n][f] = rec[f]
  BY DEF Calls
<1> QED BY <1>1, <1>2, <1>3

\* A call under way.
UnderWay(rec) == rec.pc \notin {"idle", "done"}

\* Two records of one call, which differ in how far it is.
Onward(old, new) ==
  /\ new.op = old.op /\ new.path = old.path /\ new.to = old.to /\ new.content = old.content
  /\ new.ofBatch = old.ofBatch /\ new.was = old.was /\ new.touched = old.touched

\* A call under way may end with an error whenever what it moves is safe.
LEMMA EndsInError ==
  ASSUME NEW k, NEW st, NEW rec \in Calls, Shape(k, rec), UnderWay(rec)
  PROVE  /\ Done(rec, "error") \in Calls /\ Onward(rec, Done(rec, "error"))
         /\ Shape(k, Done(rec, "error"))
         /\ (rec.op = "move" /\ rec.path # rec.to => HereOrThere(k, st, rec)) =>
              Promise(k, st, Done(rec, "error"))
<1> DEFINE new == Done(rec, "error")
<1>1. /\ new \in Calls /\ new.pc = "done" /\ new.result = "error"
      /\ Onward(rec, new)
  BY GoesOn DEF Onward
<1> HIDE DEF new
<1>2. Shape(k, new)
  BY <1>1 DEF Shape, Onward, UnderWay
<1>3. HereOrThere(k, st, rec) => HereOrThere(k, st, new)
  BY <1>1 DEF HereOrThere, Onward
<1>4. (rec.op = "move" /\ rec.path # rec.to => HereOrThere(k, st, rec)) => Promise(k, st, new)
  BY <1>1, <1>3 DEF Promise, Onward
<1> QED BY <1>1, <1>2, <1>4 DEF new

\* What holds after a request that may have to be retried.
LEMMA AnsweredKeeps ==
  ASSUME TypeOK, CallInv, NEW c \in Worker, UnderWay(call[c]),
         NEW next \in Calls, Answered(c, next), Onward(call[c], next), next.pc # "idle",
         kind' = kind, store' \in Stored, sidecar' \in [Paths -> Contents \cup {None}],
         Shape(kind, next),
         Owed(call[c]) => /\ Promise(kind, store', next)
                          /\ Remote => Promise(kind, store', call[c])
  PROVE  TypeOK' /\ CallInv'
<1> DEFINE rec == call[c]
           wrong == Done(rec, "error")
<1>1. /\ rec \in Calls /\ Shape(kind, rec) /\ UnderWay(rec)
      /\ (Owed(rec) => Promise(kind, store', next) /\ (Remote => Promise(kind, store', rec)))
  BY DEF TypeOK
<1>2. Owed(next) => Owed(rec)
  BY DEF Owed, Onward, UnderWay, Undisturbed
<1>3. CASE Become(c, next) /\ calm' = calm
  <2>1. calm' \in BOOLEAN
    BY <1>3 DEF TypeOK
  <2>2. Owed(next) => Promise(kind, store', next)
    BY <1>2
  <2> QED BY <1>3, <2>1, <2>2, StepKeeps
<1>4. CASE Remote /\ calm' = FALSE /\ (Become(c, rec) \/ Become(c, wrong))
  <2> HIDE DEF rec
  <2>1. /\ wrong \in Calls /\ Onward(rec, wrong) /\ Shape(kind, wrong)
        /\ (rec.op = "move" /\ rec.path # rec.to => HereOrThere(kind, store', rec)) =>
              Promise(kind, store', wrong)
    BY <1>1, EndsInError
  <2> HIDE DEF wrong
  <2>2. Owed(wrong) => Owed(rec)
    BY <1>1, <2>1 DEF Owed, Onward, UnderWay, Undisturbed
  <2>3. Owed(rec) => (rec.op = "move" /\ rec.path # rec.to => HereOrThere(kind, store', rec))
    <3>1. Owed(rec) => Promise(kind, store', rec)
      BY <1>1, <1>4
    <3> QED BY <3>1 DEF Promise
  <2>4. Owed(wrong) => Promise(kind, store', wrong)
    BY <2>1, <2>2, <2>3
  <2>5. calm' \in BOOLEAN
    BY <1>4
  <2>6. CASE Become(c, rec)
    BY <1>1, <1>4, <2>5, <2>6, StepKeeps
  <2>7. CASE Become(c, wrong)
    BY <2>1, <2>4, <2>5, <2>7, StepKeeps
  <2> QED BY <1>4, <2>6, <2>7
<1> QED BY <1>3, <1>4 DEF Answered, Spend

\* A refusal, or a failure, changes nothing that is stored.
LEMMA NothingDone ==
  ASSUME TypeOK, CallInv, NEW c \in Worker, UnderWay(call[c]), kind' = kind, store' = store,
         sidecar' = sidecar, calm' \in BOOLEAN, Become(c, Done(call[c], "error"))
  PROVE  TypeOK' /\ CallInv'
<1> DEFINE rec == call[c]
           wrong == Done(rec, "error")
<1>1. /\ rec \in Calls /\ Shape(kind, rec) /\ UnderWay(rec)
      /\ Become(c, wrong) /\ store \in Stored /\ sidecar \in [Paths -> Contents \cup {None}]
      /\ Owed(rec) => Promise(kind, store, rec)
  BY DEF TypeOK, CallInv
<1> HIDE DEF rec
<1>2. /\ wrong \in Calls /\ Onward(rec, wrong) /\ Shape(kind, wrong)
      /\ (rec.op = "move" /\ rec.path # rec.to => HereOrThere(kind, store, rec)) =>
              Promise(kind, store, wrong)
    BY <1>1, EndsInError
<1> HIDE DEF wrong
<1>3. Owed(wrong) => Owed(rec)
  BY <1>1, <1>2 DEF Owed, Onward, UnderWay, Undisturbed
<1>4. Owed(wrong) => Promise(kind, store', wrong)
  BY <1>1, <1>2, <1>3 DEF Promise
<1> QED BY <1>1, <1>2, <1>4, StepKeeps


-----------------------------------------------------------------------------
(* The steps of calls.                                                     *)

\* Scopes and folders are what the provider makes them.
LEMMA ScopeIs ==
  /\ InFolders <=> HasFolders(kind)
  /\ \A p : Scope(p) = ScopeOf(kind, p)
BY DEF InFolders, HasFolders, Scope, ScopeOf

\* Two paths neither of which is within the other share nothing below them.
LEMMA ApartShares ==
  ASSUME NEW p \in Paths, NEW to \in Paths, NEW q \in Within(p), q \in Within(to)
  PROVE  IsPrefix(p, to) \/ IsPrefix(to, p)
<1>1. p \in Seq(Names) /\ to \in Seq(Names) /\ q \in Seq(Names)
  BY PathsAre DEF Within
<1>2. IsPrefix(p, q) /\ IsPrefix(to, q)
  BY DEF Within
<1> QED BY <1>1, <1>2, PrefixesMeet

\* No call is a call.
LEMMA NoCallTyped ==
  /\ NoCall \in Calls /\ Shape(kind, NoCall)
  /\ NoCall.op = "delete" /\ NoCall.pc = "idle" /\ NoCall.k = 0 /\ NoCall.ofBatch = FALSE
  /\ NoCall.result = None /\ NoCall.touched = {} /\ NoCall.was = <<>>
<1>1. /\ NoCall.op = "delete" /\ NoCall.pc = "idle" /\ NoCall.k = 0 /\ NoCall.ofBatch = FALSE
      /\ NoCall.result = None /\ NoCall.touched = {} /\ NoCall.was = <<>>
  BY DEF NoCall
<1>2. NoCall \in Calls
  BY DEF NoCall, Calls
<1> QED BY <1>1, <1>2 DEF Shape

\* A call as it begins.
NewCall(op, p, q, v, pc, st) ==
  [NoCall EXCEPT !.op = op, !.path = p, !.to = q, !.content = v, !.pc = pc, !.was = st]

\* What a call knows as it begins.
Begins(new, op, p, q, v, pc, st) ==
  /\ new \in Calls
  /\ new.op = op /\ new.path = p /\ new.to = q /\ new.content = v /\ new.pc = pc
  /\ new.ofBatch = FALSE /\ new.result = None /\ new.was = st /\ new.touched = {}

\* What a new call is.
LEMMA NewCallIs ==
  ASSUME NEW op \in {"upload", "delete", "copy", "move", "createFolder"},
         NEW p \in Paths, NEW q \in Paths, NEW v \in Contents \cup {None},
         NEW pc \in {"folders", "act"}, NEW st \in Stored
  PROVE  Begins(NewCall(op, p, q, v, pc, st), op, p, q, v, pc, st)
<1> DEFINE new == NewCall(op, p, q, v, pc, st)
<1>1. new = [NoCall EXCEPT !.op = op, !.path = p, !.to = q, !.content = v, !.pc = pc, !.was = st]
  BY DEF NewCall
<1> HIDE DEF new
<1>2. new \in Calls
  <2>1. /\ NoCall \in Calls
        /\ op \in {"upload", "delete", "copy", "move", "createFolder"}
        /\ p \in Paths \cup {<<>>} /\ q \in Paths \cup {<<>>} /\ st \in Stored \cup {<<>>}
        /\ v \in Contents \cup {None} /\ pc \in {"folders", "act"}
    BY NoCallTyped
  <2> QED BY ONLY <1>1, <2>1 DEF Calls
<1>3. new.op = op /\ new.path = p /\ new.to = q /\ new.content = v /\ new.pc = pc /\ new.was = st
  BY <1>1, NoCallTyped DEF Calls
<1>4. new.ofBatch = NoCall.ofBatch /\ new.result = NoCall.result /\ new.touched = NoCall.touched
  BY <1>1, NoCallTyped DEF Calls
<1> QED BY <1>2, <1>3, <1>4, NoCallTyped DEF new, Begins

\* A call begins with everything where it was.
LEMMA StartCallIs ==
  ASSUME TypeOK, NEW c \in Worker, StartCall(c)
  PROVE  \E new \in Calls : /\ call' = [call EXCEPT ![c] = new]
                            /\ new.ofBatch = FALSE /\ new.pc \in {"folders", "act"}
                            /\ Shape(kind, new) /\ Promise(kind, store, new)
<1>1. PICK op \in {"upload", "delete", "copy", "move"} \cup (IF InFolders THEN {"createFolder"} ELSE {}),
           p \in Paths :
        \E q \in IF op \in {"copy", "move"} THEN Paths ELSE {p},
           v \in IF op = "upload" THEN Contents ELSE {None} :
         call' = [call EXCEPT ![c] =
              [NoCall EXCEPT !.op = op, !.path = p, !.to = q, !.content = v,
                 !.pc = IF InFolders /\ NeedsFolders(op) THEN "folders" ELSE "act",
                 !.was = store]]
  BY ZenonT(60) DEF StartCall
<1>2. PICK q \in IF op \in {"copy", "move"} THEN Paths ELSE {p},
           v \in IF op = "upload" THEN Contents ELSE {None} :
         call' = [call EXCEPT ![c] =
              [NoCall EXCEPT !.op = op, !.path = p, !.to = q, !.content = v,
                 !.pc = IF InFolders /\ NeedsFolders(op) THEN "folders" ELSE "act",
                 !.was = store]]
  BY <1>1
<1> DEFINE pc == IF InFolders /\ NeedsFolders(op) THEN "folders" ELSE "act"
           new == NewCall(op, p, q, v, pc, store)
<1>3. call' = [call EXCEPT ![c] = new]
  BY <1>2 DEF NewCall
<1>4. /\ q \in Paths /\ (op \notin {"copy", "move"} => q = p)
      /\ v \in Contents \cup {None} /\ (op = "upload" => v \in Contents)
      /\ op \in {"upload", "delete", "copy", "move", "createFolder"}
      /\ (op = "createFolder" => HasFolders(kind))
  BY ScopeIs
<1>5. pc \in {"folders", "act"} /\ (pc = "folders" => HasFolders(kind))
      /\ (op = "delete" => pc = "act") /\ (op = "createFolder" => pc = "folders")
  BY <1>4, ScopeIs DEF NeedsFolders
<1> HIDE DEF pc
<1>6. store \in Stored /\ kind' = kind /\ store' = store
  BY DEF StartCall, TypeOK
<1>7. Begins(new, op, p, q, v, pc, store)
  <2>1. /\ op \in {"upload", "delete", "copy", "move", "createFolder"}
        /\ p \in Paths /\ q \in Paths /\ v \in Contents \cup {None} /\ pc \in {"folders", "act"}
        /\ store \in Stored
    BY <1>4, <1>5, <1>6
  <2> QED BY ONLY <2>1, NewCallIs
<1>8. /\ new \in Calls
      /\ new.op = op /\ new.path = p /\ new.to = q /\ new.content = v /\ new.pc = pc
      /\ new.ofBatch = FALSE /\ new.result = None /\ new.was = store /\ new.touched = {}
  <2> HIDE DEF new
  <2> QED BY <1>7 DEF Begins
<1> HIDE DEF new
<1>9. Shape(kind, new)
  BY <1>4, <1>5, <1>6, <1>8 DEF Shape
<1>10. Promise(kind, store, new)
  <2>1. Kept(kind, store, new) /\ HereOrThere(kind, store, new)
    BY <1>8 DEF Kept, HereOrThere
  <2>2. new.pc \in {"folders", "act"} /\ new.result = None
    BY <1>5, <1>8
  <2> QED BY <2>1, <2>2 DEF Promise, None
<1> QED BY <1>3, <1>5, <1>8, <1>9, <1>10

\* So what is known of calls is known of it.
LEMMA StartCallKeeps ==
  ASSUME TypeOK, CallInv, NEW c \in Worker, StartCall(c)
  PROVE  TypeOK' /\ CallInv'
<1>1. PICK new \in Calls : /\ call' = [call EXCEPT ![c] = new]
                          /\ Shape(kind, new) /\ Promise(kind, store, new)
  BY StartCallIs
<1>2. call' \in [Worker -> Calls] /\ \A d \in Worker : call'[d] = IF d = c THEN new ELSE call[d]
  BY <1>1 DEF TypeOK
<1>3. kind' = kind /\ store' = store /\ calm' \in BOOLEAN /\ batch' = batch /\ sidecar' = sidecar
  BY DEF StartCall, TypeOK
<1>4. TypeOK'
  <2>1. \A d \in Worker : Shape(kind', call'[d])
    BY <1>1, <1>2, <1>3 DEF TypeOK
  <2> QED BY <1>2, <1>3, <2>1 DEF TypeOK
<1>5. \A d \in Worker : Owed(call'[d]) => Promise(kind', store', call'[d])
  BY <1>1, <1>2, <1>3 DEF CallInv
<1>6. CallInv'
  BY <1>5 DEF CallInv
<1> QED BY <1>4, <1>6

\* The smaller of two numbers.
LEMMA MinOfTwo ==
  ASSUME NEW m \in Nat, NEW n \in Nat
  PROVE  Min({m, n}) = IF m < n THEN m ELSE n
<1> DEFINE w == IF m < n THEN m ELSE n
<1>1. w \in {m, n} /\ \A y \in {m, n} : w <= y
  OBVIOUS
<1>2. \A x \in {m, n} : (\A y \in {m, n} : x <= y) => x = w
  OBVIOUS
<1> HIDE DEF w
<1>3. Min({m, n}) = w
  BY <1>1, <1>2 DEF Min
<1> QED BY <1>3 DEF w

\* Making folders takes nothing away.
LEMMA MakeFoldersKeeps ==
  ASSUME TypeOK, CallInv, NEW c \in Worker, MakeFolders(c)
  PROVE  TypeOK' /\ CallInv'
<1> DEFINE rec == call[c]
           parents == Parents(rec)
           upto == IF kind = "local" THEN parents ELSE Min({rec.k + 1, parents})
           made == {SubSeq(rec.to, 1, i) : i \in 1..upto}
           blocked == \/ \E q \in made : Len(q) < upto /\ IsFile(q)
                      \/ kind = "local" /\ \E q \in made : IsFile(q)
                      \/ kind = "webdav" /\ \E q \in made : Len(q) < upto /\ store[q] = None
           next == IF upto < parents THEN [rec EXCEPT !.k = upto]
                   ELSE IF rec.op = "createFolder" THEN Done(rec, "ok") ELSE Go(rec, "act")
<1>1. /\ rec.pc = "folders" /\ kind' = kind /\ sidecar' = sidecar
      /\ IF blocked THEN Refused(c)
         ELSE /\ store' = [q \in Paths |-> IF q \in made /\ store[q] = None THEN Folder ELSE store[q]]
              /\ Answered(c, next)
  BY DEF MakeFolders
<1>2. /\ rec \in Calls /\ Shape(kind, rec) /\ UnderWay(rec)
      /\ store \in Stored /\ sidecar \in [Paths -> Contents \cup {None}] /\ calm \in BOOLEAN
      /\ Owed(rec) => Promise(kind, store, rec)
  BY <1>1 DEF TypeOK, CallInv, UnderWay
<1>3. CASE Refused(c)
  BY <1>1, <1>2, <1>3, NothingDone DEF Refused
<1>4. CASE ~blocked
  <2> HIDE DEF made, rec
  <2>1. rec.to \in Paths /\ HasFolders(kind) /\ rec.op \in {"upload", "copy", "move", "createFolder"}
        /\ rec.k \in Nat /\ rec.result = None
    BY <1>1, <1>2 DEF Shape, Calls
  <2>2. rec.to \in Seq(Names) /\ Len(rec.to) \in Nat \ {0}
    <3>1. rec.to \in Seq(Names) /\ rec.to # <<>>
      BY <2>1, PathsAre
    <3> QED BY <3>1, EmptySeq, LenProperties
  <2>3. parents \in Nat /\ (rec.op = "createFolder" => parents = Len(rec.to))
    BY <2>2 DEF Parents
  <2> HIDE DEF parents
  <2>4. upto \in Nat /\ (~(upto < parents) => upto = parents)
    <3>1. Min({rec.k + 1, parents}) = IF rec.k + 1 < parents THEN rec.k + 1 ELSE parents
      BY <2>1, <2>3, MinOfTwo
    <3> QED BY <2>1, <2>3, <3>1
  <2> HIDE DEF upto, blocked
  <2>5. store' \in Stored /\ \A q \in Paths : store[q] # None => store'[q] = store[q]
    BY <1>1, <1>2, <1>4 DEF Stored, Entries
  <2>6. rec.op = "createFolder" /\ ~(upto < parents) =>
          store'[rec.to] = Folder \/ (kind = "webdav" /\ store'[rec.to] \in Contents)
    <3> SUFFICES ASSUME rec.op = "createFolder", ~(upto < parents)
                 PROVE  store'[rec.to] = Folder \/ (kind = "webdav" /\ store'[rec.to] \in Contents)
      OBVIOUS
    <3>1. rec.to \in made
      <4>1. SubSeq(rec.to, 1, Len(rec.to)) = rec.to /\ Len(rec.to) \in 1..upto
        BY <2>2, <2>3, <2>4, SubSeqFull
      <4> QED BY <4>1 DEF made
    <3>2. store[rec.to] = None => store'[rec.to] = Folder
      BY <1>1, <1>4, <2>1, <3>1
    <3>3. kind = "local" => ~IsFile(rec.to)
      BY <1>4, <3>1 DEF blocked
    <3>4. kind \in {"local", "webdav"} /\ store[rec.to] \in Contents \cup {None, Folder}
      BY <1>2, <2>1 DEF HasFolders, Stored, Entries
    <3> QED BY <2>1, <2>5, <3>2, <3>3, <3>4 DEF IsFile
  <2>7. next \in Calls /\ Onward(rec, next) /\ next.pc \in {"folders", "act", "done"}
        /\ (next.pc = "act" => rec.op # "createFolder")
        /\ (next.pc = "done" <=> ~(upto < parents) /\ rec.op = "createFolder")
        /\ next.result = IF next.pc = "done" THEN "ok" ELSE None
    <3>1. CASE upto < parents
      <4>1. next = [rec EXCEPT !.k = upto]
        BY <3>1
      <4> HIDE DEF next
      <4> QED BY <1>1, <1>2, <2>1, <2>4, <3>1, <4>1, GoesOn DEF Onward
    <3>2. CASE ~(upto < parents) /\ rec.op = "createFolder"
      <4>1. next = Done(rec, "ok")
        BY <3>2
      <4> HIDE DEF next
      <4> QED BY <1>2, <3>2, <4>1, GoesOn DEF Onward
    <3>3. CASE ~(upto < parents) /\ rec.op # "createFolder"
      <4>1. next = Go(rec, "act")
        BY <3>3
      <4> HIDE DEF next
      <4> QED BY <1>2, <2>1, <3>3, <4>1, GoesOn DEF Onward
    <3> QED BY <3>1, <3>2, <3>3
  <2> HIDE DEF next
  <2>8. Shape(kind, next)
    BY <1>1, <1>2, <2>1, <2>7 DEF Shape, Onward
  <2>9. (Kept(kind, store, rec) => Kept(kind, store', rec) /\ Kept(kind, store', next))
        /\ (HereOrThere(kind, store, rec) =>
              HereOrThere(kind, store', rec) /\ HereOrThere(kind, store', next))
    <3>1. ScopeOf(kind, rec.path) \subseteq Paths
      BY <1>1, <1>2 DEF Shape, ScopeOf, Within
    <3>2. Kept(kind, store, rec) => Kept(kind, store', rec)
      BY <2>5, <3>1 DEF Kept
    <3>3. HereOrThere(kind, store, rec) => HereOrThere(kind, store', rec)
      BY <2>5, <3>1, Different DEF HereOrThere
    <3>4. next.path = rec.path /\ next.to = rec.to /\ next.was = rec.was
      BY <2>7 DEF Onward
    <3> QED BY <3>2, <3>3, <3>4 DEF Kept, HereOrThere
  <2>10. Promise(kind, store, rec) => Promise(kind, store', next) /\ Promise(kind, store', rec)
    <3> SUFFICES ASSUME Promise(kind, store, rec)
                 PROVE  Promise(kind, store', next) /\ Promise(kind, store', rec)
      OBVIOUS
    <3>1. /\ rec.op = "copy" => Kept(kind, store, rec)
          /\ rec.op = "move" /\ rec.path # rec.to => HereOrThere(kind, store, rec) /\ Kept(kind, store, rec)
      BY <1>1 DEF Promise
    <3>2. Promise(kind, store', rec)
      BY <1>1, <2>1, <2>9, <3>1 DEF Promise, None
    <3>3. next.op = rec.op /\ next.path = rec.path /\ next.to = rec.to
      BY <2>7 DEF Onward
    <3>4. Promise(kind, store', next)
      BY <2>1, <2>6, <2>7, <2>9, <3>1, <3>3 DEF Promise, None
    <3> QED BY <3>2, <3>4
  <2>11. Owed(rec) => Promise(kind, store', next) /\ (Remote => Promise(kind, store', rec))
    BY <1>2, <2>10
  <2>12. next.pc # "idle" /\ Answered(c, next) /\ sidecar' \in [Paths -> Contents \cup {None}]
    BY <1>1, <1>2, <1>4, <2>7
  <2> QED BY <1>1, <1>2, <2>5, <2>7, <2>8, <2>11, <2>12, AnsweredKeeps DEF rec
<1> HIDE DEF blocked
<1> QED BY <1>1, <1>3, <1>4


\* What an upload or a deletion does, it does where it said.
LEMMA UploadKeeps ==
  ASSUME TypeOK, CallInv, NEW c \in Worker, Upload(c)
  PROVE  TypeOK' /\ CallInv'
<1> DEFINE rec == call[c]
           refused == ~Reachable(rec.to) \/ IsFolder(rec.to)
           next == IF kind = "local" THEN Go(rec, "sidecar") ELSE Done(rec, "ok")
<1>1. /\ rec.pc = "act" /\ rec.op = "upload" /\ kind' = kind /\ sidecar' = sidecar
      /\ IF refused THEN Refused(c)
         ELSE store' = [store EXCEPT ![rec.to] = rec.content] /\ Answered(c, next)
  BY DEF Upload
<1> HIDE DEF refused
<1>2. /\ rec \in Calls /\ Shape(kind, rec) /\ UnderWay(rec)
      /\ store \in Stored /\ sidecar \in [Paths -> Contents \cup {None}] /\ calm \in BOOLEAN
  BY <1>1 DEF TypeOK, UnderWay
<1>3. CASE Refused(c)
  BY <1>1, <1>2, <1>3, NothingDone DEF Refused
<1>4. CASE store' = [store EXCEPT ![rec.to] = rec.content] /\ Answered(c, next)
  <2> HIDE DEF rec
  <2>1. rec.to \in Paths /\ rec.content \in Contents /\ rec.result = None /\ rec.path = rec.to
    BY <1>1, <1>2 DEF Shape
  <2>2. store' \in Stored /\ store'[rec.to] = rec.content
    BY <1>2, <1>4, <2>1 DEF Stored, Entries
  <2>3. next \in Calls /\ Onward(rec, next) /\ next.pc \in {"sidecar", "done"}
        /\ (next.pc = "sidecar" => kind = "local" /\ next.result = None)
    <3>1. CASE kind = "local"
      <4>1. next = Go(rec, "sidecar")
        BY <3>1
      <4> HIDE DEF next
      <4> QED BY <1>2, <2>1, <3>1, <4>1, GoesOn DEF Onward
    <3>2. CASE kind # "local"
      <4>1. next = Done(rec, "ok")
        BY <3>2
      <4> HIDE DEF next
      <4> QED BY <1>2, <4>1, GoesOn DEF Onward
    <3> QED BY <3>1, <3>2
  <2> HIDE DEF next
  <2>4. Shape(kind, next)
    BY <1>1, <1>2, <2>1, <2>3 DEF Shape, Onward
  <2>5. Promise(kind, store', next) /\ Promise(kind, store', rec)
    BY <1>1, <2>1, <2>2, <2>3 DEF Promise, Onward
  <2> QED BY <1>1, <1>2, <1>4, <2>2, <2>3, <2>4, <2>5, AnsweredKeeps DEF rec
<1> QED BY <1>1, <1>3, <1>4

\* What is deleted is gone.
LEMMA DeleteKeeps ==
  ASSUME TypeOK, CallInv, NEW c \in Worker, Delete(c)
  PROVE  TypeOK' /\ CallInv'
<1> DEFINE rec == call[c]
           next == IF kind = "local" THEN Go(rec, "unsidecar") ELSE Done(rec, "ok")
<1>1. /\ rec.pc = "act" /\ rec.op = "delete" /\ kind' = kind /\ sidecar' = sidecar
      /\ store' = [q \in Paths |-> IF q \in Scope(rec.path) THEN None ELSE store[q]]
      /\ Answered(c, next)
  BY DEF Delete
<1>2. /\ rec \in Calls /\ Shape(kind, rec) /\ UnderWay(rec)
      /\ store \in Stored /\ sidecar \in [Paths -> Contents \cup {None}]
  BY <1>1 DEF TypeOK, UnderWay
<1> HIDE DEF rec
<1>3. rec.to \in Paths /\ rec.result = None /\ rec.path = rec.to
  BY <1>1, <1>2 DEF Shape
<1>4. store' \in Stored /\ Gone(kind, store', rec)
  <2>1. Scope(rec.path) = ScopeOf(kind, rec.path) /\ Scope(rec.path) \subseteq Paths
    BY <1>3, ScopeIs DEF Scope, Within
  <2>2. store' \in Stored
    BY <1>1, <1>2 DEF Stored, Entries
  <2> QED BY <1>1, <2>1, <2>2 DEF Gone
<1>5. next \in Calls /\ Onward(rec, next) /\ next.pc \in {"unsidecar", "done"}
      /\ (next.pc = "unsidecar" => kind = "local" /\ next.result = None)
  <2>1. CASE kind = "local"
    <3>1. next = Go(rec, "unsidecar")
      BY <2>1
    <3> HIDE DEF next
    <3> QED BY <1>2, <1>3, <2>1, <3>1, GoesOn DEF Onward
  <2>2. CASE kind # "local"
    <3>1. next = Done(rec, "ok")
      BY <2>2
    <3> HIDE DEF next
    <3> QED BY <1>2, <3>1, GoesOn DEF Onward
  <2> QED BY <2>1, <2>2
<1> HIDE DEF next
<1>6. Shape(kind, next)
  BY <1>1, <1>2, <1>3, <1>5 DEF Shape, Onward
<1>7. Promise(kind, store', next) /\ Promise(kind, store', rec)
  <2>1. Gone(kind, store', next)
    BY <1>4, <1>5 DEF Gone, Onward
  <2> QED BY <1>1, <1>4, <1>5, <2>1 DEF Promise, Onward
<1> QED BY <1>1, <1>2, <1>4, <1>5, <1>6, <1>7, AnsweredKeeps DEF rec

\* When the source was as it was, and fits, then placing it is enough.
LEMMA PlacedIsThere ==
  ASSUME NEW rec, rec.path \in Paths, rec.to \in Paths, Fits(rec), Kept(kind, store, rec),
         NEW st, \A r \in Images(rec) : st[r] = Placed(rec)[r]
  PROVE  There(kind, st, rec)
<1>1. ASSUME NEW q \in ScopeOf(kind, rec.path), rec.was[q] # None
      PROVE  /\ Image(rec.path, rec.to, q) \in Paths
             /\ st[Image(rec.path, rec.to, q)] = rec.was[q]
  <2>1. store[q] = rec.was[q] /\ q \in Source(rec)
    <3>1. store[q] = rec.was[q]
      BY <1>1 DEF Kept
    <3>2. q \in Scope(rec.path)
      BY ScopeIs
    <3> QED BY <1>1, <3>1, <3>2 DEF Source
  <2>2. /\ Image(rec.path, rec.to, q) \in Images(rec)
        /\ Image(rec.path, rec.to, q) \in Paths
        /\ Placed(rec)[Image(rec.path, rec.to, q)] = store[q]
    BY <2>1, PlacedIs
  <2> QED BY <2>1, <2>2
<1> QED BY <1>1 DEF There

\* A move knows where what it moves is.
LEMMA ThereIsSomewhere ==
  ASSUME NEW k, NEW st, NEW rec
  PROVE  There(k, st, rec) \/ Kept(k, st, rec) => HereOrThere(k, st, rec)
BY Different DEF There, Kept, HereOrThere


\* A copy is there, and leaves its source alone.
LEMMA CopyKeeps ==
  ASSUME TypeOK, CallInv, NEW c \in Worker, Copy(c)
  PROVE  TypeOK' /\ CallInv'
<1> DEFINE rec == call[c]
           refused == \/ ~Fits(rec)
                      \/ kind = "webdav" /\ ~Apart(rec)
                      \/ kind = "local" /\ (\/ IsPrefix(rec.path, rec.to)
                                            \/ \E q \in Source(rec) :
                                                 ~SameSort(q, Image(rec.path, rec.to, q)))
           next == IF rec.op = "move" THEN Go(rec, "remove")
                   ELSE IF kind = "local" THEN Go(rec, "sidecar") ELSE Done(rec, "ok")
<1>1. /\ rec.pc = "act" /\ (rec.op = "copy" \/ (rec.op = "move" /\ ~HasFolders(kind)))
      /\ kind' = kind /\ sidecar' = sidecar
      /\ IF refused THEN Refused(c)
         ELSE /\ store' = IF kind = "webdav" THEN Replaced(rec) ELSE Placed(rec)
              /\ Answered(c, next)
  BY ScopeIs DEF Copy
<1>2. /\ rec \in Calls /\ Shape(kind, rec) /\ UnderWay(rec)
      /\ store \in Stored /\ sidecar \in [Paths -> Contents \cup {None}] /\ calm \in BOOLEAN
      /\ Owed(rec) => Promise(kind, store, rec)
  BY <1>1 DEF TypeOK, CallInv, UnderWay
<1>3. CASE Refused(c)
  BY <1>1, <1>2, <1>3, NothingDone DEF Refused
<1>4. CASE ~refused
  <2>1. Fits(rec) /\ (kind = "webdav" => Apart(rec))
    BY <1>4
  <2> HIDE DEF rec, refused
  <2>2. rec.path \in Paths /\ rec.to \in Paths /\ rec.result = None
    BY <1>1, <1>2 DEF Shape
  <2>3. store' = (IF kind = "webdav" THEN Replaced(rec) ELSE Placed(rec)) /\ Answered(c, next)
    BY <1>1, <1>4
  <2>4. store' \in Stored
    BY <1>2, <2>1, <2>2, <2>3, PlacedTyped
  <2>5. /\ Images(rec) \subseteq Within(rec.to)
        /\ \A r \in Paths : r \notin Images(rec) => Placed(rec)[r] = store[r]
    BY <2>1, <2>2, PlacedIs
  <2>6. \A r \in Images(rec) : store'[r] = Placed(rec)[r]
    BY <2>3, <2>5 DEF Replaced, Without, Within
  <2>7. Kept(kind, store, rec) => There(kind, store', rec)
    BY <2>1, <2>2, <2>6, PlacedIsThere
  <2>8. Remote /\ rec.path # rec.to => \A q \in ScopeOf(kind, rec.path) : store'[q] = store[q]
    <3> SUFFICES ASSUME Remote, rec.path # rec.to, NEW q \in ScopeOf(kind, rec.path)
                 PROVE  store'[q] = store[q]
      OBVIOUS
    <3>1. CASE kind = "webdav"
      <4>1. q \in Within(rec.path) /\ q \in Paths
        BY <3>1 DEF ScopeOf, HasFolders, Within
      <4>2. q \notin Within(rec.to)
        BY <2>1, <2>2, <3>1, <4>1, ApartShares DEF Apart
      <4>3. q \notin Images(rec)
        BY <2>5, <4>2
      <4> QED BY <2>3, <2>5, <3>1, <4>1, <4>2, <4>3 DEF Replaced, Without
    <3>2. CASE kind # "webdav"
      <4>1. kind = "s3" /\ q = rec.path
        BY <3>2 DEF Remote, ScopeOf, HasFolders
      <4>2. Images(rec) \subseteq {rec.to}
        <5>1. Source(rec) \subseteq {rec.path}
          BY <4>1 DEF Source, Scope, InFolders
        <5>2. Image(rec.path, rec.to, rec.path) = rec.to
          BY <2>2, PathsAre, ImageSelf
        <5> QED BY <5>1, <5>2 DEF Images
      <4> QED BY <2>2, <2>3, <2>5, <3>2, <4>1, <4>2
    <3> QED BY <3>1, <3>2
  <2>9. Remote /\ Kept(kind, store, rec) => Kept(kind, store', rec)
    <3>1. CASE rec.path # rec.to
      BY <2>8, <3>1 DEF Kept
    <3>2. CASE rec.path = rec.to
      <4> SUFFICES ASSUME Remote, Kept(kind, store, rec), NEW q \in ScopeOf(kind, rec.path),
                          rec.was[q] # None
                   PROVE  store'[q] = rec.was[q]
        BY DEF Kept
      <4>1. There(kind, store', rec)
        BY <2>7
      <4>2. rec.path \in Seq(Names) /\ kind # "webdav"
        <5>1. rec.path \in Seq(Names)
          BY <2>2, PathsAre
        <5>2. IsPrefix(rec.path, rec.path)
          BY <5>1, PrefixOrder
        <5> QED BY <2>1, <3>2, <5>1, <5>2 DEF Apart
      <4>3. q = rec.path
        BY <4>2 DEF Remote, ScopeOf, HasFolders
      <4>4. Image(rec.path, rec.to, q) = rec.to
        BY <3>2, <4>2, <4>3, ImageSelf
      <4> QED BY <3>2, <4>1, <4>3, <4>4 DEF There
    <3> QED BY <3>1, <3>2
  <2>10. /\ next \in Calls /\ Onward(rec, next)
         /\ next.pc = (IF rec.op = "move" THEN "remove" ELSE IF kind = "local" THEN "sidecar" ELSE "done")
         /\ (next.pc # "done" => next.result = None)
    <3>1. CASE rec.op = "move"
      <4>1. next = Go(rec, "remove")
        BY <3>1
      <4> HIDE DEF next
      <4> QED BY <1>2, <2>2, <3>1, <4>1, GoesOn DEF Onward
    <3>2. CASE rec.op # "move" /\ kind = "local"
      <4>1. next = Go(rec, "sidecar")
        BY <3>2
      <4> HIDE DEF next
      <4> QED BY <1>2, <2>2, <3>2, <4>1, GoesOn DEF Onward
    <3>3. CASE rec.op # "move" /\ kind # "local"
      <4>1. next = Done(rec, "ok")
        BY <3>3
      <4> HIDE DEF next
      <4> QED BY <1>2, <3>3, <4>1, GoesOn DEF Onward
    <3> QED BY <3>1, <3>2, <3>3
  <2> HIDE DEF next
  <2>11. Shape(kind, next)
    BY <1>1, <1>2, <2>2, <2>10 DEF Shape, Onward
  <2>12. Promise(kind, store, rec) => Promise(kind, store', next) /\ (Remote => Promise(kind, store', rec))
    <3> SUFFICES ASSUME Promise(kind, store, rec)
                 PROVE  Promise(kind, store', next) /\ (Remote => Promise(kind, store', rec))
      OBVIOUS
    <3>1. rec.op = "copy" \/ rec.path # rec.to => Kept(kind, store, rec)
      BY <1>1 DEF Promise
    <3>2. rec.op = "copy" \/ rec.path # rec.to =>
            There(kind, store', rec) /\ (Remote => Kept(kind, store', rec))
      BY <2>7, <2>9, <3>1
    <3>3. There(kind, store', rec) => There(kind, store', next) /\ HereOrThere(kind, store', next)
                                      /\ HereOrThere(kind, store', rec)
      BY <2>10, ThereIsSomewhere DEF Onward, There
    <3>4. Promise(kind, store', next)
      BY <1>1, <2>10, <3>2, <3>3 DEF Promise, Onward, None
    <3>5. Remote => Promise(kind, store', rec)
      BY <1>1, <2>2, <3>2, <3>3 DEF Promise, None
    <3> QED BY <3>4, <3>5
  <2>13. Owed(rec) => Promise(kind, store', next) /\ (Remote => Promise(kind, store', rec))
    BY <1>2, <2>12
  <2>14. next.pc # "idle"
    BY <2>10
  <2> QED BY <1>1, <1>2, <2>3, <2>4, <2>10, <2>11, <2>13, <2>14, AnsweredKeeps DEF rec
<1> HIDE DEF refused
<1> QED BY <1>1, <1>3, <1>4

\* What was copied for a move stays when its source goes.
LEMMA RemoveSourceKeeps ==
  ASSUME TypeOK, CallInv, NEW c \in Worker, RemoveSource(c)
  PROVE  TypeOK' /\ CallInv'
<1> DEFINE rec == call[c]
           next == Done(rec, "ok")
<1>1. /\ rec.pc = "remove" /\ kind' = kind /\ sidecar' = sidecar
      /\ store' = Without(store, {rec.path}) /\ Answered(c, next)
  BY DEF RemoveSource
<1>2. /\ rec \in Calls /\ Shape(kind, rec) /\ UnderWay(rec)
      /\ store \in Stored /\ sidecar \in [Paths -> Contents \cup {None}]
      /\ Owed(rec) => Promise(kind, store, rec)
  BY <1>1 DEF TypeOK, CallInv, UnderWay
<1> HIDE DEF rec
<1>3. /\ rec.path \in Paths /\ rec.to \in Paths /\ rec.op = "move" /\ ~HasFolders(kind)
      /\ ScopeOf(kind, rec.path) = {rec.path} /\ rec.result = None
  BY <1>1, <1>2 DEF Shape, ScopeOf
<1>4. store' \in Stored /\ store'[rec.path] = None
      /\ \A q \in Paths : q # rec.path => store'[q] = store[q]
  BY <1>1, <1>2, <1>3 DEF Without, Stored, Entries
<1>5. next \in Calls /\ Onward(rec, next) /\ next.pc = "done" /\ next.result = "ok"
  BY <1>2, GoesOn DEF Onward
<1> HIDE DEF next
<1>6. Shape(kind, next)
  BY <1>1, <1>2, <1>3, <1>5 DEF Shape, Onward
<1>7. Image(rec.path, rec.to, rec.path) = rec.to
  BY <1>3, PathsAre, ImageSelf
<1>8. Promise(kind, store, rec) => Promise(kind, store', next) /\ Promise(kind, store', rec)
  <2> SUFFICES ASSUME Promise(kind, store, rec)
               PROVE  Promise(kind, store', next) /\ Promise(kind, store', rec)
    OBVIOUS
  <2>1. rec.path # rec.to => There(kind, store', rec) /\ Gone(kind, store', rec)
    <3> SUFFICES ASSUME rec.path # rec.to
                 PROVE  There(kind, store', rec) /\ Gone(kind, store', rec)
      OBVIOUS
    <3>1. There(kind, store, rec)
      BY <1>1, <1>3 DEF Promise
    <3> QED BY <1>3, <1>4, <1>7, <3>1 DEF There, Gone
  <2>2. There(kind, store', rec) /\ Gone(kind, store', rec) =>
          /\ There(kind, store', next) /\ Gone(kind, store', next)
          /\ HereOrThere(kind, store', next) /\ HereOrThere(kind, store', rec)
    BY <1>5, ThereIsSomewhere DEF Onward, There, Gone
  <2>3. next.op = "move" /\ next.path = rec.path /\ next.to = rec.to
    BY <1>3, <1>5 DEF Onward
  <2>4. Promise(kind, store', next)
    BY <1>5, <2>1, <2>2, <2>3 DEF Promise
  <2>5. Promise(kind, store', rec)
    BY <1>1, <1>3, <2>1, <2>2 DEF Promise, None
  <2> QED BY <2>4, <2>5
<1>9. next.pc # "idle"
  BY <1>5
<1> QED BY <1>1, <1>2, <1>4, <1>5, <1>6, <1>8, <1>9, AnsweredKeeps DEF rec


\* What is moved is there and gone from where it was, at once.
LEMMA MoveActionKeeps ==
  ASSUME TypeOK, CallInv, NEW c \in Worker, Move(c)
  PROVE  TypeOK' /\ CallInv'
<1> DEFINE rec == call[c]
           refused == \/ ~Fits(rec)
                      \/ kind = "webdav" /\ ~Apart(rec)
                      \/ kind = "local" /\ rec.path # rec.to
                           /\ (\/ IsPrefix(rec.path, rec.to)
                               \/ ~SameSort(rec.path, rec.to)
                               \/ \E q \in Below(rec.to) : store[q] # None)
           next == IF kind = "local" THEN Go(rec, "sidecar") ELSE Done(rec, "ok")
<1>1. /\ rec.pc = "act" /\ rec.op = "move" /\ HasFolders(kind)
      /\ kind' = kind /\ sidecar' = sidecar
      /\ IF refused THEN Refused(c)
         ELSE /\ store' = Without(Replaced(rec), Source(rec) \ Images(rec))
              /\ Answered(c, next)
  BY ScopeIs DEF Move
<1>2. /\ rec \in Calls /\ Shape(kind, rec) /\ UnderWay(rec)
      /\ store \in Stored /\ sidecar \in [Paths -> Contents \cup {None}] /\ calm \in BOOLEAN
      /\ Owed(rec) => Promise(kind, store, rec)
  BY <1>1 DEF TypeOK, CallInv, UnderWay
<1>3. CASE Refused(c)
  BY <1>1, <1>2, <1>3, NothingDone DEF Refused
<1>4. CASE ~refused
  <2>1. /\ Fits(rec) /\ (kind = "webdav" => Apart(rec))
        /\ kind = "local" /\ rec.path # rec.to =>
             ~IsPrefix(rec.path, rec.to) /\ \A q \in Below(rec.to) : store[q] = None
    BY <1>4
  <2>2. store' = Without(Replaced(rec), Source(rec) \ Images(rec)) /\ Answered(c, next)
    BY <1>1, <1>4
  <2> HIDE DEF rec, refused
  <2>3. rec.path \in Paths /\ rec.to \in Paths /\ rec.result = None
    BY <1>1, <1>2 DEF Shape
  <2>4. store' \in Stored
    <3>1. Source(rec) \ Images(rec) \in SUBSET Paths
      BY <2>3 DEF Source, Scope, Within
    <3> QED BY <1>2, <2>1, <2>2, <2>3, <3>1, PlacedTyped
  <2>5. /\ Images(rec) \subseteq Within(rec.to)
        /\ \A r \in Paths : r \notin Images(rec) => Placed(rec)[r] = store[r]
    BY <2>1, <2>3, PlacedIs
  <2>6. \A r \in Images(rec) : store'[r] = Placed(rec)[r]
    BY <2>2, <2>5 DEF Replaced, Without, Within
  <2>7. Kept(kind, store, rec) => There(kind, store', rec)
    BY <2>1, <2>3, <2>6, PlacedIsThere
  <2>8. rec.path # rec.to => Gone(kind, store', rec)
    <3> SUFFICES ASSUME rec.path # rec.to, NEW q \in Within(rec.path)
                 PROVE  store'[q] = None
      BY <1>1 DEF Gone, ScopeOf
    <3>1. q \in Paths /\ Scope(rec.path) = Within(rec.path) /\ store[rec.path] # None
      BY <1>1, <2>1, ScopeIs DEF Within, ScopeOf, Fits
    <3>2. q \notin Within(rec.to)
      <4>1. CASE kind = "webdav"
        BY <2>1, <2>3, <4>1, ApartShares DEF Apart
      <4>2. CASE kind = "local"
        <5>1. ~IsPrefix(rec.path, rec.to) /\ \A r \in Below(rec.to) : store[r] = None
          BY <2>1, <4>2
        <5>2. ~IsPrefix(rec.to, rec.path)
          BY <2>3, <3>1, <5>1 DEF Below, IsStrictPrefix
        <5> QED BY <2>3, <5>1, <5>2, ApartShares
      <4> QED BY <1>1, <4>1, <4>2 DEF HasFolders
    <3>3. q \notin Images(rec)
      BY <2>5, <3>2
    <3>4. store[q] # None => q \in Source(rec) \ Images(rec)
      BY <3>1, <3>3 DEF Source
    <3>5. Replaced(rec)[q] = store[q]
      BY <2>5, <3>1, <3>2, <3>3 DEF Replaced, Without
    <3> QED BY <2>2, <3>1, <3>4, <3>5 DEF Without
  <2>9. next \in Calls /\ Onward(rec, next) /\ next.pc \in {"sidecar", "done"}
        /\ (next.pc = "sidecar" => kind = "local" /\ next.result = None)
    <3>1. CASE kind = "local"
      <4>1. next = Go(rec, "sidecar")
        BY <3>1
      <4> HIDE DEF next
      <4> QED BY <1>2, <2>3, <3>1, <4>1, GoesOn DEF Onward
    <3>2. CASE kind # "local"
      <4>1. next = Done(rec, "ok")
        BY <3>2
      <4> HIDE DEF next
      <4> QED BY <1>2, <4>1, GoesOn DEF Onward
    <3> QED BY <3>1, <3>2
  <2> HIDE DEF next
  <2>10. Shape(kind, next)
    BY <1>1, <1>2, <2>3, <2>9 DEF Shape, Onward
  <2>11. Promise(kind, store, rec) => Promise(kind, store', next) /\ Promise(kind, store', rec)
    <3> SUFFICES ASSUME Promise(kind, store, rec)
                 PROVE  Promise(kind, store', next) /\ Promise(kind, store', rec)
      OBVIOUS
    <3>1. rec.path # rec.to => Kept(kind, store, rec)
      BY <1>1, <2>1 DEF Promise, Fits
    <3>2. rec.path # rec.to => There(kind, store', rec) /\ Gone(kind, store', rec)
      BY <2>7, <2>8, <3>1
    <3>3. There(kind, store', rec) /\ Gone(kind, store', rec) =>
            /\ There(kind, store', next) /\ Gone(kind, store', next)
            /\ HereOrThere(kind, store', next) /\ HereOrThere(kind, store', rec)
      BY <2>9, ThereIsSomewhere DEF Onward, There, Gone
    <3>4. Gone(kind, store', rec) => store'[rec.path] = None
      BY <1>1, <2>3, PathsAre DEF Gone, ScopeOf
    <3>5. next.op = "move" /\ next.path = rec.path /\ next.to = rec.to
      BY <1>1, <2>9 DEF Onward
    <3>6. Promise(kind, store', next)
      BY <2>9, <3>2, <3>3, <3>5 DEF Promise, None
    <3>7. Promise(kind, store', rec)
      BY <1>1, <2>3, <3>2, <3>3, <3>4 DEF Promise, None
    <3> QED BY <3>6, <3>7
  <2>12. next.pc # "idle" /\ (Owed(rec) => Promise(kind, store', next) /\ Promise(kind, store', rec))
    BY <1>2, <2>9, <2>11
  <2> QED BY <1>1, <1>2, <2>2, <2>4, <2>9, <2>10, <2>12, AnsweredKeeps DEF rec
<1> HIDE DEF refused
<1> QED BY <1>1, <1>3, <1>4

\* The types of files have no say in what is stored.
LEMMA WriteSidecarKeeps ==
  ASSUME TypeOK, CallInv, NEW c \in Worker, WriteSidecar(c)
  PROVE  TypeOK' /\ CallInv'
<1> DEFINE rec == call[c]
           type == IF rec.op = "upload" THEN rec.content ELSE sidecar[rec.path]
           result == IF rec.op = "upload" /\ store[rec.to] = None THEN "error" ELSE "ok"
           next == IF rec.op = "move" THEN Go(rec, "unsidecar") ELSE Done(rec, result)
<1>1. /\ rec.pc = "sidecar" /\ kind' = kind /\ store' = store /\ calm' = calm
      /\ sidecar' = IF type = None THEN sidecar ELSE [sidecar EXCEPT ![rec.to] = type]
      /\ Become(c, next)
  BY DEF WriteSidecar
<1>2. /\ rec \in Calls /\ Shape(kind, rec) /\ UnderWay(rec)
      /\ store \in Stored /\ sidecar \in [Paths -> Contents \cup {None}] /\ calm \in BOOLEAN
      /\ Owed(rec) => Promise(kind, store, rec)
  BY <1>1 DEF TypeOK, CallInv, UnderWay
<1> HIDE DEF rec
<1>3. /\ rec.path \in Paths /\ rec.to \in Paths /\ rec.result = None /\ kind = "local"
      /\ rec.op \in {"upload", "copy", "move"}
      /\ (rec.op = "upload" => rec.content \in Contents)
  BY <1>1, <1>2 DEF Shape, Calls
<1>4. sidecar' \in [Paths -> Contents \cup {None}]
  <2>1. type \in Contents \cup {None}
    BY <1>2, <1>3
  <2> HIDE DEF type
  <2> QED BY <1>1, <1>2, <1>3, <2>1
<1>5. next \in Calls /\ Onward(rec, next)
      /\ next.pc = (IF rec.op = "move" THEN "unsidecar" ELSE "done")
      /\ next.result = (IF rec.op = "move" THEN None ELSE result)
  <2>1. CASE rec.op = "move"
    <3>1. next = Go(rec, "unsidecar")
      BY <2>1
    <3> HIDE DEF next, result
    <3> QED BY <1>2, <1>3, <2>1, <3>1, GoesOn DEF Onward
  <2>2. CASE rec.op # "move"
    <3>1. next = Done(rec, result) /\ result \in {"ok", "error"}
      BY <2>2
    <3> HIDE DEF next, result
    <3> QED BY <1>2, <2>2, <3>1, GoesOn DEF Onward
  <2> QED BY <2>1, <2>2
<1>6. result \in {"ok", "error"}
  OBVIOUS
<1> HIDE DEF next, result
<1>7. Shape(kind, next)
  BY <1>1, <1>2, <1>3, <1>5, <1>6 DEF Shape, Onward
<1>8. Promise(kind, store, rec) => Promise(kind, store, next)
  <2> SUFFICES ASSUME Promise(kind, store, rec) PROVE Promise(kind, store, next)
    OBVIOUS
  <2>1. /\ rec.op = "upload" => store[rec.to] = rec.content
        /\ rec.op = "copy" => There(kind, store, rec)
        /\ rec.op = "move" /\ rec.path # rec.to =>
             There(kind, store, rec) /\ Gone(kind, store, rec) /\ HereOrThere(kind, store, rec)
    BY <1>1 DEF Promise
  <2>2. /\ There(kind, store, rec) => There(kind, store, next)
        /\ Gone(kind, store, rec) => Gone(kind, store, next)
        /\ HereOrThere(kind, store, rec) => HereOrThere(kind, store, next)
    BY <1>5 DEF Onward, There, Gone, HereOrThere
  <2>3. next.op = rec.op /\ next.path = rec.path /\ next.to = rec.to /\ next.content = rec.content
    BY <1>5 DEF Onward
  <2> QED BY <1>3, <1>5, <2>1, <2>2, <2>3 DEF Promise
<1>9. Owed(next) => Promise(kind, store', next)
  <2>1. Owed(next) => Owed(rec)
    BY <1>1, <1>5 DEF Owed, Onward, Undisturbed
  <2> QED BY <1>1, <1>2, <1>8, <2>1
<1> QED BY <1>1, <1>2, <1>4, <1>5, <1>7, <1>9, StepKeeps

\* The same of removing one.
LEMMA RemoveSidecarKeeps ==
  ASSUME TypeOK, CallInv, NEW c \in Worker, RemoveSidecar(c)
  PROVE  TypeOK' /\ CallInv'
<1> DEFINE rec == call[c]
           next == Done(rec, "ok")
<1>1. /\ rec.pc = "unsidecar" /\ kind' = kind /\ store' = store /\ calm' = calm
      /\ sidecar' = [sidecar EXCEPT ![rec.path] = None]
      /\ Become(c, next)
  BY DEF RemoveSidecar
<1>2. /\ rec \in Calls /\ Shape(kind, rec) /\ UnderWay(rec)
      /\ store \in Stored /\ sidecar \in [Paths -> Contents \cup {None}] /\ calm \in BOOLEAN
      /\ Owed(rec) => Promise(kind, store, rec)
  BY <1>1 DEF TypeOK, CallInv, UnderWay
<1> HIDE DEF rec
<1>3. /\ rec.path \in Paths /\ rec.to \in Paths
      /\ rec.op \in {"delete", "move"}
  BY <1>1, <1>2 DEF Shape, Calls
<1>4. sidecar' \in [Paths -> Contents \cup {None}]
  BY <1>1, <1>2, <1>3
<1>5. next \in Calls /\ Onward(rec, next) /\ next.pc = "done" /\ next.result = "ok"
  BY <1>2, GoesOn DEF Onward
<1> HIDE DEF next
<1>6. Shape(kind, next)
  BY <1>1, <1>2, <1>3, <1>5 DEF Shape, Onward
<1>7. Promise(kind, store, rec) => Promise(kind, store, next)
  <2> SUFFICES ASSUME Promise(kind, store, rec) PROVE Promise(kind, store, next)
    OBVIOUS
  <2>1. /\ rec.op = "delete" => Gone(kind, store, rec)
        /\ rec.op = "move" /\ rec.path # rec.to =>
             There(kind, store, rec) /\ Gone(kind, store, rec) /\ HereOrThere(kind, store, rec)
    BY <1>1 DEF Promise
  <2>2. /\ There(kind, store, rec) => There(kind, store, next)
        /\ Gone(kind, store, rec) => Gone(kind, store, next)
        /\ HereOrThere(kind, store, rec) => HereOrThere(kind, store, next)
    BY <1>5 DEF Onward, There, Gone, HereOrThere
  <2>3. next.op = rec.op /\ next.path = rec.path /\ next.to = rec.to
    BY <1>5 DEF Onward
  <2> QED BY <1>3, <1>5, <2>1, <2>2, <2>3 DEF Promise
<1>8. Owed(next) => Promise(kind, store', next)
  <2>1. Owed(next) => Owed(rec)
    BY <1>1, <1>5 DEF Owed, Onward, Undisturbed
  <2> QED BY <1>1, <1>2, <1>7, <2>1
<1> QED BY <1>1, <1>2, <1>4, <1>5, <1>6, <1>8, StepKeeps


-----------------------------------------------------------------------------
(* The steps of batches.                                                   *)

\* What is said of calls does not depend on the batch.
LEMMA CallsAlone ==
  ASSUME TypeOK, CallInv, kind' = kind, store' = store, sidecar' = sidecar, call' = call,
         calm' \in BOOLEAN, batch' \in Batches, BatchShape(batch')
  PROVE  TypeOK' /\ CallInv'
<1>1. TypeOK'
  BY DEF TypeOK
<1>2. CallInv'
  BY DEF CallInv
<1> QED BY <1>1, <1>2

\* No batch is a batch.
LEMMA NoBatchTyped ==
  NoBatch \in Batches /\ BatchShape(NoBatch)
<1>1. NoBatch \in Batches
  BY DEF NoBatch, Batches
<1>2. NoBatch.op = "walk" /\ NoBatch.phase = "idle"
  BY DEF NoBatch
<1> QED BY <1>1, <1>2 DEF BatchShape

\* A batch begins with nothing found.
LEMMA StartBatchKeeps ==
  ASSUME TypeOK, CallInv, StartBatch
  PROVE  TypeOK' /\ CallInv'
<1>1. /\ store \in Stored /\ NoBatch \in Batches
      /\ store \in Stored \cup {<<>>}
  BY NoBatchTyped DEF TypeOK
<1>2. /\ kind' = kind /\ store' = store /\ sidecar' = sidecar /\ call' = call
      /\ calm' \in BOOLEAN
  BY DEF StartBatch, TypeOK
<1>3. CASE \E p \in Paths \cup {<<>>} :
             batch' = [NoBatch EXCEPT !.targets = {p}, !.phase = "walk", !.pending = {p}, !.was = store]
  <2>1. PICK p \in Paths \cup {<<>>} :
          batch' = [NoBatch EXCEPT !.targets = {p}, !.phase = "walk", !.pending = {p}, !.was = store]
    BY <1>3
  <2>2. {p} \in SUBSET (Paths \cup {<<>>})
    OBVIOUS
  <2>3. batch' \in Batches /\ batch'.op = NoBatch.op /\ batch'.phase = "walk"
    BY ONLY <1>1, <2>1, <2>2 DEF Batches
  <2>4. BatchShape(batch')
    BY <2>3 DEF BatchShape, NoBatch
  <2> QED BY <1>2, <2>3, <2>4, CallsAlone
<1>4. CASE \E p \in Paths :
             batch' = [NoBatch EXCEPT !.op = "deleteTree", !.targets = {p}, !.phase = "walk",
                         !.pending = {p}, !.was = store]
  <2>1. PICK p \in Paths :
          batch' = [NoBatch EXCEPT !.op = "deleteTree", !.targets = {p}, !.phase = "walk",
                      !.pending = {p}, !.was = store]
    BY <1>4
  <2>2. {p} \in SUBSET (Paths \cup {<<>>}) /\ {p} \subseteq Paths
    OBVIOUS
  <2>3. batch' \in Batches /\ batch'.targets = {p} /\ batch'.op = "deleteTree"
    BY ONLY <1>1, <2>1, <2>2 DEF Batches
  <2>4. BatchShape(batch')
    BY <2>2, <2>3 DEF BatchShape
  <2> QED BY <1>2, <2>3, <2>4, CallsAlone
<1>5. CASE \E ps \in kSubset(2, Paths) :
             batch' = [NoBatch EXCEPT !.op = "deleteMany", !.targets = ps, !.phase = "delete",
                         !.queue = ps, !.was = store]
  <2>1. PICK ps \in kSubset(2, Paths) :
          batch' = [NoBatch EXCEPT !.op = "deleteMany", !.targets = ps, !.phase = "delete",
                      !.queue = ps, !.was = store]
    BY <1>5
  <2>2. ps \in SUBSET Paths /\ ps \in SUBSET (Paths \cup {<<>>})
    BY DEF kSubset
  <2>3. batch' \in Batches /\ batch'.targets = ps /\ batch'.op = "deleteMany"
    BY ONLY <1>1, <2>1, <2>2 DEF Batches
  <2>4. BatchShape(batch')
    BY <2>2, <2>3 DEF BatchShape
  <2> QED BY <1>2, <2>3, <2>4, CallsAlone
<1> QED BY <1>3, <1>4, <1>5 DEF StartBatch

\* Listing finds paths.
LEMMA ListNextKeeps ==
  ASSUME TypeOK, CallInv, ListNext
  PROVE  TypeOK' /\ CallInv'
<1>1. batch \in Batches /\ BatchShape(batch) /\ batch.phase = "walk"
  BY DEF TypeOK, ListNext
<1>2. /\ kind' = kind /\ store' = store /\ sidecar' = sidecar /\ call' = call
      /\ calm' \in BOOLEAN
  BY DEF ListNext, TypeOK
<1>3. PICK p \in batch.pending :
        IF InFolders /\ p # <<>> /\ (store[p] = None \/ (kind = "local" /\ IsFile(p)))
        THEN batch' = [batch EXCEPT !.phase = "rejected"]
        ELSE LET rest == IF InFolders /\ ~IsFolder(p) THEN {} ELSE Listed(p) \ batch.listed
             IN  \E page \in IF kind = "s3" THEN SUBSET rest ELSE {rest} :
                   /\ page # {} \/ rest = {}
                   /\ batch' = [batch EXCEPT
                        !.found = @ \cup page,
                        !.pending = (@ \cup {q \in page : LooksLikeFolder(q)})
                                    \ (IF page = rest THEN {p} ELSE {}),
                        !.listed = IF page = rest THEN {} ELSE @ \cup page]
  BY DEF ListNext
<1>4. CASE batch' = [batch EXCEPT !.phase = "rejected"]
  <2>1. batch' \in Batches /\ batch'.targets = batch.targets /\ batch'.op = batch.op
        /\ batch'.phase = "rejected"
    BY ONLY <1>1, <1>4 DEF Batches
  <2>2. BatchShape(batch')
    BY <1>1, <2>1 DEF BatchShape
  <2> QED BY <1>2, <2>1, <2>2, CallsAlone
<1>5. ASSUME NEW found \in SUBSET Paths, NEW pending \in SUBSET (Paths \cup {<<>>}),
             NEW listed \in SUBSET Paths,
             batch' = [batch EXCEPT !.found = found, !.pending = pending, !.listed = listed]
      PROVE  TypeOK' /\ CallInv'
  <2>1. batch' \in Batches /\ batch'.targets = batch.targets /\ batch'.op = batch.op
        /\ batch'.phase = batch.phase
    BY ONLY <1>1, <1>5 DEF Batches
  <2>2. BatchShape(batch')
    BY <1>1, <2>1 DEF BatchShape
  <2> QED BY <1>2, <2>1, <2>2, CallsAlone
<1>6. CASE ~(InFolders /\ p # <<>> /\ (store[p] = None \/ (kind = "local" /\ IsFile(p))))
  <2> DEFINE rest == IF InFolders /\ ~IsFolder(p) THEN {} ELSE Listed(p) \ batch.listed
  <2>1. PICK page \in IF kind = "s3" THEN SUBSET rest ELSE {rest} :
          /\ page # {} \/ rest = {}
          /\ batch' = [batch EXCEPT
               !.found = @ \cup page,
               !.pending = (@ \cup {q \in page : LooksLikeFolder(q)})
                           \ (IF page = rest THEN {p} ELSE {}),
               !.listed = IF page = rest THEN {} ELSE @ \cup page]
    BY <1>3, <1>6
  <2>2. rest \subseteq Paths
    BY DEF Listed
  <2> HIDE DEF rest
  <2>3. page \subseteq Paths
    BY <2>2
  <2> DEFINE found == batch.found \cup page
             pending == (batch.pending \cup {q \in page : LooksLikeFolder(q)})
                        \ (IF page = rest THEN {p} ELSE {})
             listed == IF page = rest THEN {} ELSE batch.listed \cup page
  <2>4. /\ batch.found \subseteq Paths /\ batch.pending \subseteq Paths \cup {<<>>}
        /\ batch.listed \subseteq Paths
    BY <1>1 DEF Batches
  <2>5. found \in SUBSET Paths /\ pending \in SUBSET (Paths \cup {<<>>}) /\ listed \in SUBSET Paths
    BY <2>3, <2>4
  <2>6. batch' = [batch EXCEPT !.found = found, !.pending = pending, !.listed = listed]
    BY <2>1
  <2> HIDE DEF found, pending, listed
  <2> QED BY <1>5, <2>5, <2>6
<1> QED BY <1>3, <1>4, <1>6

\* A walk ends, or fails.
LEMMA WalkEndsKeeps ==
  ASSUME TypeOK, CallInv, ListFails \/ EndWalk \/ Report
  PROVE  TypeOK' /\ CallInv'
<1>1. batch \in Batches /\ BatchShape(batch)
  BY DEF TypeOK
<1>2. /\ kind' = kind /\ store' = store /\ sidecar' = sidecar /\ call' = call
      /\ calm' \in BOOLEAN
  BY DEF ListFails, EndWalk, Report, Spend, TypeOK
<1>3. ASSUME NEW phase \in {"report", "rejected"}, batch' = [batch EXCEPT !.phase = phase]
      PROVE  TypeOK' /\ CallInv'
  <2>1. batch' \in Batches /\ batch'.targets = batch.targets /\ batch'.op = batch.op
        /\ batch'.phase = phase
    BY ONLY <1>1, <1>3 DEF Batches
  <2>2. BatchShape(batch')
    BY <1>1, <2>1 DEF BatchShape
  <2> QED BY <1>2, <2>1, <2>2, CallsAlone
<1>4. CASE batch.op # "walk" /\ batch' = [batch EXCEPT !.phase = "delete", !.queue = batch.found \cup batch.targets]
  <2>1. batch.found \cup batch.targets \in SUBSET Paths
    BY <1>1, <1>4 DEF BatchShape, Batches
  <2>2. batch' \in Batches /\ batch'.targets = batch.targets /\ batch'.op = batch.op
    BY ONLY <1>1, <1>4, <2>1 DEF Batches
  <2>3. BatchShape(batch')
    BY <1>1, <1>4, <2>2 DEF BatchShape
  <2> QED BY <1>2, <2>2, <2>3, CallsAlone
<1> QED BY <1>3, <1>4 DEF ListFails, EndWalk, Report


\* A batch's calls are its own.
LEMMA BatchCallKeeps ==
  ASSUME TypeOK, CallInv, NEW c \in Worker, NEW new \in Calls, Shape(kind, new), ~Owed(new),
         call' = [call EXCEPT ![c] = new], kind' = kind, store' = store, sidecar' = sidecar,
         calm' \in BOOLEAN, batch' \in Batches, BatchShape(batch')
  PROVE  TypeOK' /\ CallInv'
<1>1. call' \in [Worker -> Calls] /\ \A d \in Worker : call'[d] = IF d = c THEN new ELSE call[d]
  BY DEF TypeOK
<1>2. TypeOK'
  <2>1. \A d \in Worker : Shape(kind', call'[d])
    BY <1>1 DEF TypeOK
  <2> QED BY <1>1, <2>1 DEF TypeOK
<1>3. \A d \in Worker : Owed(call'[d]) => Promise(kind', store', call'[d])
  BY <1>1 DEF CallInv
<1>4. CallInv'
  BY <1>3 DEF CallInv
<1> QED BY <1>2, <1>4

\* A worker takes a path from the queue.
LEMMA TakeNextKeeps ==
  ASSUME TypeOK, CallInv, NEW c \in Worker, TakeNext(c)
  PROVE  TypeOK' /\ CallInv'
<1>1. PICK p \in batch.queue :
        /\ call' = [call EXCEPT ![c] = [NoCall EXCEPT !.path = p, !.to = p, !.pc = "act",
                                         !.ofBatch = TRUE]]
        /\ batch' = [batch EXCEPT !.queue = @ \ {p}]
  BY DEF TakeNext
<1>2. batch \in Batches /\ BatchShape(batch)
  BY DEF TypeOK
<1>3. p \in Paths /\ p \in Paths \cup {<<>>} /\ batch.queue \ {p} \in SUBSET Paths
  BY <1>2 DEF Batches
<1> DEFINE new == [NoCall EXCEPT !.path = p, !.to = p, !.pc = "act", !.ofBatch = TRUE]
<1>4. new = [NoCall EXCEPT !.path = p, !.to = p, !.pc = "act", !.ofBatch = TRUE]
  OBVIOUS
<1> HIDE DEF new
<1>5. NoCall \in Calls
  BY NoCallTyped
<1>6. new \in Calls /\ new.path = p /\ new.to = p /\ new.pc = "act" /\ new.ofBatch = TRUE
      /\ new.op = NoCall.op /\ new.result = NoCall.result
  BY ONLY <1>3, <1>4, <1>5 DEF Calls
<1>7. Shape(kind, new) /\ ~Owed(new)
  BY <1>3, <1>6, NoCallTyped DEF Shape, Owed
<1>8. batch' \in Batches /\ batch'.targets = batch.targets /\ batch'.op = batch.op
      /\ batch'.phase = batch.phase
  BY ONLY <1>1, <1>2, <1>3 DEF Batches
<1>9. BatchShape(batch')
  BY <1>2, <1>8 DEF BatchShape
<1>10. kind' = kind /\ store' = store /\ sidecar' = sidecar /\ calm' \in BOOLEAN
  BY DEF TakeNext, TypeOK
<1>11. call' = [call EXCEPT ![c] = new]
  BY <1>1, <1>4
<1> QED BY <1>6, <1>7, <1>8, <1>9, <1>10, <1>11, BatchCallKeeps

\* A worker has done with a path of the queue.
LEMMA CollectKeeps ==
  ASSUME TypeOK, CallInv, NEW c \in Worker, Collect(c)
  PROVE  TypeOK' /\ CallInv'
<1>1. /\ call[c].ofBatch /\ call[c].pc = "done" /\ call' = [call EXCEPT ![c] = NoCall]
      /\ batch' = IF call[c].result = "ok" THEN [batch EXCEPT !.deleted = @ \cup {call[c].path}]
                  ELSE [batch EXCEPT !.failed = @ \cup {call[c].path}]
      /\ kind' = kind /\ store' = store /\ sidecar' = sidecar /\ calm' \in BOOLEAN
  BY DEF Collect, TypeOK
<1>2. batch \in Batches /\ BatchShape(batch) /\ call[c].path \in Paths
  BY <1>1 DEF TypeOK, Shape
<1>3. ASSUME NEW paths \in SUBSET Paths,
             \/ batch' = [batch EXCEPT !.deleted = paths]
             \/ batch' = [batch EXCEPT !.failed = paths]
      PROVE  batch' \in Batches /\ BatchShape(batch')
  <2>1. batch' \in Batches /\ batch'.targets = batch.targets /\ batch'.op = batch.op
        /\ batch'.phase = batch.phase
    BY ONLY <1>2, <1>3 DEF Batches
  <2> QED BY <1>2, <2>1 DEF BatchShape
<1>4. batch.deleted \cup {call[c].path} \in SUBSET Paths /\ batch.failed \cup {call[c].path} \in SUBSET Paths
  BY <1>2 DEF Batches
<1>5. batch' \in Batches /\ BatchShape(batch')
  BY <1>1, <1>3, <1>4
<1>6. NoCall \in Calls /\ Shape(kind, NoCall) /\ ~Owed(NoCall)
  BY NoCallTyped DEF Owed
<1> QED BY <1>1, <1>5, <1>6, BatchCallKeeps

-----------------------------------------------------------------------------
(* The inductive invariant of what is stored and of batches.               *)

\* Where there are folders, what is stored lies in one; where there are none,
\* there is none.
Laid(k, st) ==
  /\ HasFolders(k) => \A p \in Paths : st[p] # None /\ Len(p) > 1 => st[Front(p)] = Folder
  /\ ~HasFolders(k) => \A p \in Paths : st[p] # Folder

LaidOut == Laid(kind, store)

OwnOf(b) == Paths \ b.touched

Takers(calls) == {c \in Worker : calls[c].ofBatch}

\* What was taken from the queue.
Handled(calls, b) == b.deleted \cup b.failed \cup {calls[c].path : c \in Takers(calls)}

\* Which fields mean something in which phase.
Phased(calls, b) ==
  /\ b.phase = "idle" => b.was = <<>>
  /\ b.phase # "idle" => b.was \in Stored
  /\ b.phase # "delete" => Takers(calls) = {}
  /\ b.phase \in {"idle", "walk", "rejected"} \/ b.op = "walk" => b.deleted = {} /\ b.failed = {}
  /\ b.phase = "report" /\ b.op # "walk" => b.queue = {}
  /\ b.phase \in {"delete", "report"} /\ b.op # "deleteMany" => b.pending = {}
  /\ b.op = "deleteMany" => b.phase # "walk"

\* What nobody else touched changes only with what was taken from the queue.
OwnKept(k, st, calls, b) ==
  b.phase # "idle" => \A q \in OwnOf(b) :
    st[q] = b.was[q] \/ \E h \in Handled(calls, b) : q \in ScopeOf(k, h)

\* Nothing but what was asked for is looked at.
Aimed(calls, b) ==
  \A h \in b.pending \cup b.found \cup b.queue \cup Handled(calls, b) :
    \E p \in b.targets : IF b.op = "deleteMany" THEN h = p ELSE IsPrefix(p, h)

\* Nothing is lost between the walk, the queue and the results.
Queued(calls, b) ==
  b.phase \in {"delete", "report"} /\ b.op # "walk" =>
    /\ b.targets \subseteq b.queue \cup Handled(calls, b)
    /\ b.op = "deleteTree" => b.found \subseteq b.queue \cup Handled(calls, b)

Cleared(k, st, b, h) == \A q \in ScopeOf(k, h) : q \in OwnOf(b) => st[q] = None

\* What is reported as deleted is gone.
AllCleared(k, st, calls, b) ==
  /\ \A h \in b.deleted : Cleared(k, st, b, h)
  /\ \A c \in Takers(calls) :
       calls[c].pc = "unsidecar" \/ calls[c].result = "ok" => Cleared(k, st, b, calls[c].path)

\* The files a walk is to find.
Sought(b) ==
  {q \in OwnOf(b) : b.was[q] \in Contents /\ \E p \in b.targets : IsStrictPrefix(p, q)}

TakenIs(k, p, q) == k = "webdav" /\ IsSuffix(<<RootName>> \o p, <<RootName>> \o q)

Skipped(k, q) == \E i \in 1..Len(q) : TakenIs(k, SubSeq(q, 1, i - 1), SubSeq(q, 1, i))

\* Whatever is to be found is found, or a folder above it is yet to be listed.
OnTheWay(k, b) ==
  b.phase \in {"walk", "delete", "report"} /\ b.op # "deleteMany" =>
    \A q \in Sought(b) : \/ q \in b.found
                         \/ Skipped(k, q)
                         \/ \E i \in 0..(Len(q) - 1) : SubSeq(q, 1, i) \in b.pending

\* Of the pages of a folder that are behind, nothing is forgotten.
PagesKept(b) ==
  b.phase = "walk" => \A x \in b.listed :
    x \in b.found /\ \A q \in Sought(b) : IsStrictPrefix(x, q) => x \in b.pending

BatchFacts(k, st, calls, b) ==
  /\ Phased(calls, b)
  /\ OwnKept(k, st, calls, b)
  /\ Aimed(calls, b)
  /\ Queued(calls, b)
  /\ AllCleared(k, st, calls, b)
  /\ OnTheWay(k, b)
  /\ PagesKept(b)

BatchInv == LaidOut /\ BatchFacts(kind, store, call, batch)

-----------------------------------------------------------------------------
(* The folders above a path.                                               *)

\* Every set of numbers has a least element.
LEMMA LeastElement ==
  ASSUME NEW T \in SUBSET Nat, T # {}
  PROVE  \E x \in T : \A y \in T : x <= y
<1> DEFINE R == {ss \in Nat \X Nat : ss[1] < ss[2]}
<1>1. IsWellFoundedOn(R, Nat)
  BY NatLessThanWellFounded DEF OpToRel
<1>2. \E x \in T : \A y \in T : ~ (<<y, x>> \in R)
  <2> HIDE DEF R
  <2> QED BY <1>1, WFMin, Zenon
<1>3. PICK x \in T : \A y \in T : ~ (<<y, x>> \in R)
  BY <1>2
<1>4. ASSUME NEW y \in T PROVE x <= y
  <2>1. x \in Nat /\ y \in Nat
    OBVIOUS
  <2>2. y < x => <<y, x>> \in R
    BY <2>1
  <2>3. ~ (y < x)
    BY <1>3, <2>2
  <2> HIDE DEF R
  <2> QED BY <2>1, <2>3
<1> QED BY <1>4

\* A set that holds n, and i - 1 whenever it holds i > 1, holds all of 1..n.
LEMMA Descend ==
  ASSUME NEW n \in Nat, NEW Good, n \in Good,
         \A i \in 2..n : i \in Good => i - 1 \in Good
  PROVE  1..n \subseteq Good
<1> DEFINE T == {k \in 0..(n - 1) : n - k \notin Good}
<1>1. ASSUME NEW i \in 1..n, i \notin Good PROVE FALSE
  <2>1. n - i \in 0..(n - 1) /\ n - (n - i) = i
    OBVIOUS
  <2>2. T \in SUBSET Nat /\ n - i \in T
    BY <1>1, <2>1
  <2>3. PICK k \in T : \A y \in T : k <= y
    BY <2>2, LeastElement
  <2>4. k \in 1..(n - 1) /\ n - k \notin Good
    <3>1. n - 0 = n
      OBVIOUS
    <3> QED BY <3>1
  <2>5. k - 1 \in 0..(n - 1) /\ k - 1 \notin T
    <3>1. k - 1 \in 0..(n - 1) /\ ~(k <= k - 1)
      BY <2>4
    <3> QED BY <2>3, <3>1
  <2>6. n - (k - 1) \in Good /\ n - (k - 1) \in 2..n /\ (n - (k - 1)) - 1 = n - k
    BY <2>4, <2>5
  <2> QED BY <2>4, <2>6
<1> QED BY <1>1

\* The first names of a path.
Upper(q, i) == SubSeq(q, 1, i)

\* What the first names are.
LEMMA UpperIs ==
  ASSUME NEW q \in Seq(Names), NEW i \in 0..Len(q)
  PROVE  /\ Upper(q, i) \in Seq(Names) /\ Len(Upper(q, i)) = i
         /\ \A j \in 1..i : Upper(q, i)[j] = q[j]
         /\ IsPrefix(Upper(q, i), q)
<1>1. Len(q) \in Nat
  BY LenProperties
<1>2. \A j \in 1..i : q[j] \in Names
  BY <1>1, ElementOfSeq
<1>3. /\ Upper(q, i) \in Seq(Names) /\ Len(Upper(q, i)) = i
      /\ \A j \in 1..i : Upper(q, i)[j] = q[j]
  <2>1. /\ SubSeq(q, 1, i) \in Seq(Names) /\ Len(SubSeq(q, 1, i)) = (IF 1 <= i THEN i - 1 + 1 ELSE 0)
        /\ \A j \in 1..(i - 1 + 1) : SubSeq(q, 1, i)[j] = q[1 + j - 1]
    BY <1>1, <1>2, SubSeqProperties
  <2>2. (IF 1 <= i THEN i - 1 + 1 ELSE 0) = i /\ i - 1 + 1 = i /\ \A j \in 1..i : 1 + j - 1 = j
    BY <1>1
  <2> HIDE DEF Upper
  <2>3. Upper(q, i) = SubSeq(q, 1, i)
    BY DEF Upper
  <2> QED BY <2>1, <2>2, <2>3
<1> HIDE DEF Upper
<1>4. Starts(Upper(q, i), q)
  BY <1>1, <1>3 DEF Starts
<1> QED BY <1>3, <1>4, PrefixIs

\* A prefix is the first names.
LEMMA PrefixUpper ==
  ASSUME NEW p \in Seq(Names), NEW q \in Seq(Names), IsPrefix(p, q)
  PROVE  /\ Len(p) \in 0..Len(q) /\ p = Upper(q, Len(p))
         /\ p # q => Len(p) < Len(q)
<1>1. Len(p) \in Nat /\ Len(q) \in Nat /\ Len(p) <= Len(q)
  BY LenProperties DEF IsPrefix
<1>2. SubSeq(p, 1, Len(p)) = p /\ SubSeq(q, 1, Len(q)) = q
  BY SubSeqFull
<1>3. p = Upper(q, Len(p))
  BY <1>2 DEF IsPrefix, Upper
<1>4. Len(p) = Len(q) => p = q
  BY <1>2, <1>3 DEF Upper
<1> QED BY <1>1, <1>3, <1>4

\* The folder of the first names.
LEMMA FrontUpper ==
  ASSUME NEW q \in Seq(Names), NEW i \in 1..Len(q)
  PROVE  Front(Upper(q, i)) = Upper(q, i - 1)
<1>1. Len(q) \in Nat
  BY LenProperties
<1>2. i - 1 \in 0..Len(q) /\ i \in 0..Len(q)
  BY <1>1
<1> DEFINE u == Upper(q, i)
<1>3. u \in Seq(Names) /\ Len(u) = i /\ \A j \in 1..i : u[j] = q[j]
  BY <1>2, UpperIs
<1> HIDE DEF u
<1>4. i - 1 \in 0..Len(u)
  BY <1>2, <1>3
<1>5. /\ Upper(u, i - 1) \in Seq(Names) /\ Len(Upper(u, i - 1)) = i - 1
      /\ \A j \in 1..(i - 1) : Upper(u, i - 1)[j] = u[j]
  BY <1>3, <1>4, UpperIs
<1>6. /\ Upper(q, i - 1) \in Seq(Names) /\ Len(Upper(q, i - 1)) = i - 1
      /\ \A j \in 1..(i - 1) : Upper(q, i - 1)[j] = q[j]
  BY <1>2, UpperIs
<1>7. \A j \in 1..(i - 1) : u[j] = q[j]
  BY <1>2, <1>3
<1>8. Upper(u, i - 1) = Upper(q, i - 1)
  <2> HIDE DEF Upper
  <2> QED BY <1>5, <1>6, <1>7, SeqEqual
<1>9. Front(u) = Upper(u, i - 1)
  BY <1>3 DEF Front, Upper
<1> QED BY <1>8, <1>9 DEF u

\* A path, and the folder it is in.
LEMMA FrontIs ==
  ASSUME NEW q \in Paths
  PROVE  /\ Len(q) \in Nat \ {0} /\ Front(q) = Upper(q, Len(q) - 1) /\ q = Upper(q, Len(q))
         /\ Front(q) \in Seq(Names) /\ Len(Front(q)) = Len(q) - 1 /\ IsPrefix(Front(q), q)
         /\ Len(q) > 1 => Front(q) \in Paths
         /\ Len(q) = 1 => Front(q) = <<>>
         /\ Front(q) # q
<1>1. q \in Seq(Names) /\ q # <<>>
  BY PathsAre
<1>2. Len(q) \in Nat \ {0}
  BY <1>1, EmptySeq, LenProperties
<1>3. Front(q) = Upper(q, Len(q) - 1)
  BY DEF Front, Upper
<1>4. q = Upper(q, Len(q))
  BY <1>1, SubSeqFull DEF Upper
<1>5. Len(q) - 1 \in 0..Len(q)
  BY <1>2
<1>6. Front(q) \in Seq(Names) /\ Len(Front(q)) = Len(q) - 1 /\ IsPrefix(Front(q), q)
  BY <1>1, <1>3, <1>5, UpperIs
<1>7. Len(q) > 1 => Front(q) \in Paths
  BY PathsAssumption
<1>8. Len(q) = 1 => Front(q) = <<>>
  BY <1>6, EmptySeq
<1>9. Front(q) # q
  BY <1>2, <1>6
<1> QED BY <1>2, <1>3, <1>4, <1>6, <1>7, <1>8, <1>9

\* The folders above a path are paths.
LEMMA UpperPaths ==
  ASSUME NEW q \in Paths, NEW i \in 1..Len(q)
  PROVE  Upper(q, i) \in Paths
<1> DEFINE Good == {j \in 1..Len(q) : Upper(q, j) \in Paths}
<1>1. q \in Seq(Names) /\ Len(q) \in Nat \ {0} /\ q = Upper(q, Len(q))
  BY PathsAre, FrontIs
<1>2. Len(q) \in Good
  BY <1>1
<1>3. ASSUME NEW j \in 2..Len(q), j \in Good PROVE j - 1 \in Good
  <2>1. j \in 0..Len(q) /\ j \in 1..Len(q) /\ j - 1 \in 1..Len(q) /\ j > 1
    BY <1>1
  <2>2. Upper(q, j) \in Paths /\ Len(Upper(q, j)) = j /\ Front(Upper(q, j)) = Upper(q, j - 1)
    BY <1>1, <1>3, <2>1, UpperIs, FrontUpper
  <2>3. Upper(q, j - 1) \in Paths
    BY <2>1, <2>2, PathsAssumption
  <2> QED BY <2>1, <2>3
<1>4. 1..Len(q) \subseteq Good
  <2> HIDE DEF Good
  <2> QED BY <1>1, <1>2, <1>3, Descend
<1> QED BY <1>4

\* Where there are folders, all that is above what is stored is one.
LEMMA FoldersAbove ==
  ASSUME NEW k, NEW st, Laid(k, st), HasFolders(k), NEW q \in Paths, st[q] # None,
         NEW i \in 1..(Len(q) - 1)
  PROVE  st[Upper(q, i)] = Folder
<1> DEFINE n == Len(q) - 1
           Good == {j \in 1..n : st[Upper(q, j)] = Folder}
<1>1. q \in Seq(Names) /\ Len(q) \in Nat \ {0} /\ Front(q) = Upper(q, n) /\ n \in Nat \ {0}
  BY PathsAre, FrontIs
<1>2. n \in Good
  BY <1>1 DEF Laid
<1>3. ASSUME NEW j \in 2..n, j \in Good PROVE j - 1 \in Good
  <2>1. j \in 0..Len(q) /\ j \in 1..Len(q) /\ j - 1 \in 1..n /\ j > 1
    BY <1>1
  <2>2. Upper(q, j) \in Paths /\ Len(Upper(q, j)) = j /\ Front(Upper(q, j)) = Upper(q, j - 1)
        /\ st[Upper(q, j)] = Folder
    BY <1>1, <1>3, <2>1, UpperIs, UpperPaths, FrontUpper
  <2>3. st[Upper(q, j - 1)] = Folder
    BY <2>1, <2>2, Different DEF Laid
  <2> QED BY <2>1, <2>3
<1>4. 1..n \subseteq Good
  <2> HIDE DEF Good, n
  <2> QED BY <1>1, <1>2, <1>3, Descend
<1> QED BY <1>4

\* The same of any path above it.
LEMMA AboveIsFolder ==
  ASSUME NEW k, NEW st, Laid(k, st), HasFolders(k), NEW p \in Paths, NEW q \in Paths,
         st[q] # None, IsStrictPrefix(p, q)
  PROVE  st[p] = Folder
<1>1. p \in Seq(Names) /\ q \in Seq(Names) /\ IsPrefix(p, q) /\ p # q
  BY PathsAre DEF IsStrictPrefix
<1>2. Len(p) \in 0..Len(q) /\ p = Upper(q, Len(p)) /\ Len(p) < Len(q)
  BY <1>1, PrefixUpper
<1>3. Len(p) \in Nat \ {0} /\ Len(q) \in Nat
  BY FrontIs
<1>4. Len(p) \in 1..(Len(q) - 1)
  BY <1>2, <1>3
<1> QED BY <1>2, <1>4, FoldersAbove

-----------------------------------------------------------------------------
(* What is stored stays laid out.                                          *)

\* What is within the folder of a path has the path within it.
LEMMA FrontWithin ==
  ASSUME NEW p \in Paths, NEW q \in Paths
  PROVE  /\ Front(q) \in Within(p) => q \in Within(p)
         /\ q \in Within(p) /\ q # p => Len(q) > 1 /\ Front(q) \in Within(p)
<1>1. p \in Seq(Names) /\ q \in Seq(Names) /\ Front(q) \in Seq(Names) /\ IsPrefix(Front(q), q)
      /\ Len(q) \in Nat \ {0} /\ Front(q) = Upper(q, Len(q) - 1) /\ Len(p) \in Nat \ {0}
      /\ (Len(q) > 1 => Front(q) \in Paths)
  BY PathsAre, FrontIs
<1>2. Front(q) \in Within(p) => q \in Within(p)
  BY <1>1, PrefixOrder DEF Within
<1>3. ASSUME q \in Within(p), q # p PROVE Len(q) > 1 /\ Front(q) \in Within(p)
  <2>1. IsPrefix(p, q)
    BY <1>3 DEF Within
  <2>2. Len(p) < Len(q)
    BY <1>1, <1>3, <2>1, PrefixUpper
  <2>3. Starts(p, q)
    BY <1>1, <2>1, PrefixIs
  <2>4. Len(Front(q)) = Len(q) - 1 /\ \A j \in 1..(Len(q) - 1) : Front(q)[j] = q[j]
    <3>1. Len(q) - 1 \in 0..Len(q)
      BY <1>1
    <3> QED BY <1>1, <3>1, UpperIs
  <2>5. Starts(p, Front(q))
    BY <1>1, <2>2, <2>3, <2>4 DEF Starts
  <2>6. IsPrefix(p, Front(q))
    BY <1>1, <2>5, PrefixIs
  <2> QED BY <1>1, <2>2, <2>6 DEF Within
<1> QED BY <1>2, <1>3

\* The folder of an image is the image of the folder.
LEMMA ImageFront ==
  ASSUME NEW p \in Paths, NEW to \in Paths, NEW q \in Within(p), q # p,
         Image(p, to, q) \in Paths
  PROVE  Front(Image(p, to, q)) = Image(p, to, Front(q))
<1> DEFINE r == Image(p, to, q)
           f == Front(q)
           g == Image(p, to, f)
<1>1. q \in Paths /\ f \in Within(p) /\ Len(q) > 1
  BY FrontWithin DEF Within
<1>2. /\ p \in Seq(Names) /\ to \in Seq(Names) /\ q \in Seq(Names) /\ f \in Seq(Names)
      /\ IsPrefix(p, q) /\ IsPrefix(p, f)
  BY <1>1, PathsAre, FrontIs DEF Within
<1>3. /\ Carried(p, to, q, r) /\ Carried(p, to, f, g) /\ g \in Seq(Names)
  BY <1>2, ImageIs
<1>4. Starts(p, q) /\ Len(p) \in Nat /\ Len(to) \in Nat /\ Len(q) \in Nat /\ Len(f) = Len(q) - 1
      /\ Starts(p, f)
  BY <1>1, <1>2, PrefixIs, FrontIs, LenProperties
<1>5. \A j \in 1..Len(f) : f[j] = q[j]
  <2>1. Len(q) - 1 \in 0..Len(q) /\ f = Upper(q, Len(q) - 1)
    BY <1>1, <1>4, FrontIs
  <2>2. \A j \in 1..(Len(q) - 1) : Upper(q, Len(q) - 1)[j] = q[j]
    BY <1>2, <2>1, UpperIs
  <2> HIDE DEF f
  <2> QED BY <1>4, <2>1, <2>2
<1>6. r \in Paths /\ Len(Front(r)) = Len(r) - 1 /\ Front(r) \in Seq(Names) /\ Len(r) \in Nat
      /\ \A j \in 1..(Len(r) - 1) : Front(r)[j] = r[j]
  <2>1. r \in Paths
    OBVIOUS
  <2> HIDE DEF r
  <2>2. r \in Seq(Names) /\ Len(r) \in Nat \ {0} /\ Front(r) = Upper(r, Len(r) - 1)
    BY <2>1, PathsAre, FrontIs
  <2>3. Len(r) - 1 \in 0..Len(r)
    BY <2>2
  <2> QED BY <2>1, <2>2, <2>3, UpperIs
<1> HIDE DEF r, f, g
<1>7. Len(Front(r)) = Len(g) /\ Len(g) = Len(to) + (Len(f) - Len(p)) /\ Len(p) <= Len(f)
  BY <1>3, <1>4, <1>6 DEF Carried, Starts
<1>8. ASSUME NEW j \in 1..Len(g) PROVE Front(r)[j] = g[j]
  <2>1. Front(r)[j] = r[j]
    BY <1>3, <1>4, <1>6, <1>7, <1>8
  <2>2. CASE j <= Len(to)
    BY <1>3, <1>4, <1>8, <2>1, <2>2 DEF Carried
  <2>3. CASE j > Len(to)
    <3> DEFINE i == j - Len(to)
    <3>1. i \in 1..(Len(f) - Len(p)) /\ i \in 1..(Len(q) - Len(p)) /\ j = Len(to) + i
          /\ Len(p) + i \in 1..Len(f)
      BY <1>4, <1>7, <1>8, <2>3
    <3> HIDE DEF i
    <3>2. r[j] = q[Len(p) + i] /\ g[j] = f[Len(p) + i]
      BY <1>3, <3>1 DEF Carried
    <3> QED BY <1>5, <2>1, <3>1, <3>2
  <2> QED BY <1>4, <1>8, <2>2, <2>3
<1>9. Front(r) = g
  BY <1>3, <1>6, <1>7, <1>8, SeqEqual
<1> QED BY <1>9 DEF r, f, g

\* Folders are made one in the other.
LEMMA MakeFoldersLays ==
  ASSUME TypeOK, LaidOut, NEW c \in Worker, MakeFolders(c)
  PROVE  Laid(kind, store')
<1> DEFINE rec == call[c]
           parents == Parents(rec)
           upto == IF kind = "local" THEN parents ELSE Min({rec.k + 1, parents})
           made == {SubSeq(rec.to, 1, i) : i \in 1..upto}
           blocked == \/ \E q \in made : Len(q) < upto /\ IsFile(q)
                      \/ kind = "local" /\ \E q \in made : IsFile(q)
                      \/ kind = "webdav" /\ \E q \in made : Len(q) < upto /\ store[q] = None
<1>1. /\ rec.pc = "folders"
      /\ (store' = store \/ (~blocked /\
           store' = [q \in Paths |-> IF q \in made /\ store[q] = None THEN Folder ELSE store[q]]))
  BY DEF MakeFolders, Refused
<1>2. rec \in Calls /\ Shape(kind, rec) /\ store \in Stored /\ Laid(kind, store)
  BY DEF TypeOK, LaidOut
<1>3. CASE store' = store
  BY <1>2, <1>3
<1>4. CASE ~blocked /\
           store' = [q \in Paths |-> IF q \in made /\ store[q] = None THEN Folder ELSE store[q]]
  <2>1. \A q \in made : Len(q) < upto => ~IsFile(q)
    BY <1>4
  <2> HIDE DEF blocked, rec
  <2>2. rec.to \in Paths /\ HasFolders(kind) /\ rec.k \in Nat
    BY <1>1, <1>2 DEF Shape, Calls
  <2>3. rec.to \in Seq(Names) /\ Len(rec.to) \in Nat \ {0}
    BY <2>2, PathsAre, FrontIs
  <2>4. parents \in 0..Len(rec.to)
    BY <2>3 DEF Parents
  <2> HIDE DEF parents
  <2>5. upto \in 0..Len(rec.to)
    <3>1. Min({rec.k + 1, parents}) = IF rec.k + 1 < parents THEN rec.k + 1 ELSE parents
      BY <2>2, <2>4, MinOfTwo
    <3> QED BY <2>2, <2>3, <2>4, <3>1
  <2> HIDE DEF upto
  <2>6. made = {Upper(rec.to, i) : i \in 1..upto}
    BY DEF Upper
  <2> HIDE DEF made
  <2>7. \A q \in Paths : store'[q] = IF q \in made /\ store[q] = None THEN Folder ELSE store[q]
    BY <1>4
  <2>8. ASSUME NEW p \in Paths, store'[p] # None, Len(p) > 1
        PROVE  store'[Front(p)] = Folder
    <3>1. Front(p) \in Paths
      BY <2>8, FrontIs
    <3>2. CASE store[p] # None
      <4>1. store[Front(p)] = Folder
        BY <1>2, <2>2, <2>8, <3>2 DEF Laid
      <4> QED BY <2>7, <3>1, <4>1, Different
    <3>3. CASE store[p] = None
      <4>1. p \in made
        BY <2>7, <2>8, <3>3
      <4>2. PICK i \in 1..upto : p = Upper(rec.to, i)
        BY <2>6, <4>1
      <4>3. i \in 1..Len(rec.to) /\ i \in 0..Len(rec.to) /\ i <= upto
        BY <2>3, <2>5
      <4>4. Len(p) = i /\ Front(p) = Upper(rec.to, i - 1)
        BY <2>3, <4>2, <4>3, UpperIs, FrontUpper
      <4>5. i - 1 \in 1..upto /\ i - 1 < upto /\ Len(Front(p)) = i - 1
        BY <2>5, <2>8, <4>3, <4>4, FrontIs
      <4>6. Front(p) \in made
        BY <2>6, <4>4, <4>5
      <4>7. store[Front(p)] \in {None, Folder}
        BY <1>2, <2>1, <3>1, <4>5, <4>6 DEF IsFile, Stored, Entries
      <4> QED BY <2>7, <3>1, <4>6, <4>7, Different
    <3> QED BY <3>2, <3>3
  <2> QED BY <2>2, <2>8 DEF Laid
<1> HIDE DEF blocked
<1> QED BY <1>1, <1>3, <1>4

\* A file is put where there is a folder for it, and never for a folder.
LEMMA UploadLays ==
  ASSUME TypeOK, LaidOut, NEW c \in Worker, Upload(c)
  PROVE  Laid(kind, store')
<1> DEFINE rec == call[c]
<1>1. /\ rec.pc = "act" /\ rec.op = "upload"
      /\ (store' = store \/ (/\ Reachable(rec.to) /\ ~IsFolder(rec.to)
                             /\ store' = [store EXCEPT ![rec.to] = rec.content]))
  BY DEF Upload, Refused
<1>2. rec \in Calls /\ Shape(kind, rec) /\ store \in Stored /\ Laid(kind, store)
  BY DEF TypeOK, LaidOut
<1>3. CASE store' = store
  BY <1>2, <1>3
<1>4. CASE Reachable(rec.to) /\ ~IsFolder(rec.to) /\ store' = [store EXCEPT ![rec.to] = rec.content]
  <2> HIDE DEF rec
  <2>1. rec.to \in Paths /\ rec.content \in Contents
    BY <1>1, <1>2 DEF Shape
  <2>2. \A q \in Paths : store'[q] = IF q = rec.to THEN rec.content ELSE store[q]
    BY <1>2, <1>4 DEF Stored
  <2>3. store[rec.to] # Folder
    BY <1>4 DEF IsFolder
  <2>4. ASSUME HasFolders(kind), NEW p \in Paths, store'[p] # None, Len(p) > 1
        PROVE  store'[Front(p)] = Folder
    <3>1. Front(p) \in Paths /\ Front(p) # p
      BY <2>4, FrontIs
    <3>2. CASE p = rec.to
      <4>1. Front(p) # <<>>
        <5>1. Len(Front(p)) = Len(p) - 1 /\ Len(p) \in Nat
          BY FrontIs
        <5> QED BY <2>4, <5>1
      <4>2. store[Front(p)] = Folder
        BY <1>4, <2>4, <3>2, <4>1, ScopeIs DEF Reachable, IsFolder
      <4> QED BY <2>2, <3>1, <3>2, <4>2
    <3>3. CASE p # rec.to
      <4>1. store[Front(p)] = Folder
        BY <1>2, <2>2, <2>4, <3>3 DEF Laid
      <4> QED BY <2>2, <2>3, <3>1, <4>1
    <3> QED BY <3>2, <3>3
  <2>5. ~HasFolders(kind) => \A p \in Paths : store'[p] # Folder
    BY <1>2, <2>1, <2>2, Different DEF Laid
  <2> QED BY <2>4, <2>5 DEF Laid
<1> QED BY <1>1, <1>3, <1>4

\* A folder goes with all it holds.
LEMMA WithoutLaid ==
  ASSUME NEW k, NEW st, Laid(k, st), NEW T,
         HasFolders(k) => \A p \in Paths : Len(p) > 1 /\ Front(p) \in T => p \in T \/ st[p] = None
  PROVE  Laid(k, Without(st, T))
<1>1. \A p \in Paths : Without(st, T)[p] = IF p \in T THEN None ELSE st[p]
  BY DEF Without
<1>2. \A p \in Paths : Len(p) > 1 => Front(p) \in Paths
  BY FrontIs
<1>3. HasFolders(k) => \A p \in Paths : Without(st, T)[p] # None /\ Len(p) > 1 =>
                         Without(st, T)[Front(p)] = Folder
  BY <1>1, <1>2 DEF Laid
<1>4. ~HasFolders(k) => \A p \in Paths : Without(st, T)[p] # Folder
  BY <1>1, Different DEF Laid
<1> QED BY <1>3, <1>4 DEF Laid

\* What is deleted leaves no folder behind without the one above it.
LEMMA DeleteLays ==
  ASSUME TypeOK, LaidOut, NEW c \in Worker, Delete(c) \/ RemoveSource(c)
  PROVE  Laid(kind, store')
<1> DEFINE rec == call[c]
<1>1. rec \in Calls /\ Shape(kind, rec) /\ Laid(kind, store)
  BY DEF TypeOK, LaidOut
<1>2. CASE Delete(c)
  <2>1. store' = Without(store, Scope(rec.path)) /\ rec.pc = "act"
    BY <1>2 DEF Delete, Without
  <2>2. rec.path \in Paths
    BY <1>1, <2>1 DEF Shape
  <2>3. HasFolders(kind) =>
          \A p \in Paths : Len(p) > 1 /\ Front(p) \in Scope(rec.path) => p \in Scope(rec.path)
    BY <2>2, FrontWithin, ScopeIs DEF ScopeOf
  <2> QED BY <1>1, <2>1, <2>3, WithoutLaid
<1>3. CASE RemoveSource(c)
  <2>1. store' = Without(store, {rec.path}) /\ rec.pc = "remove"
    BY <1>3 DEF RemoveSource
  <2>2. ~HasFolders(kind)
    BY <1>1, <2>1 DEF Shape
  <2> QED BY <1>1, <2>1, <2>2, WithoutLaid
<1> QED BY <1>2, <1>3

\* What is placed is placed in a folder.
LEMMA ImagesLaid ==
  ASSUME Laid(kind, store), HasFolders(kind), NEW rec, rec.path \in Paths, rec.to \in Paths,
         Fits(rec), NEW r \in Images(rec), Len(r) > 1
  PROVE  /\ Placed(rec)[Front(r)] = Folder
         /\ Front(r) \in Images(rec) \/ Front(r) \notin Within(rec.to)
<1>1. PICK q \in Source(rec) : r = Image(rec.path, rec.to, q)
  BY DEF Images
<1>2. q \in Within(rec.path) /\ q \in Paths /\ store[q] # None /\ r \in Paths
      /\ Scope(rec.path) = Within(rec.path)
  BY <1>1, PlacedIs, ScopeIs DEF Source, ScopeOf, Within
<1>3. Front(r) \in Paths
  BY <1>2, FrontIs
<1>4. CASE q = rec.path
  <2>1. r = rec.to
    BY <1>1, <1>4, PathsAre, ImageSelf
  <2>2. Front(r) \notin Within(rec.to)
    <3>1. rec.to \in Seq(Names) /\ Front(r) \in Seq(Names) /\ IsPrefix(Front(r), rec.to)
          /\ Front(r) # rec.to
      BY <2>1, PathsAre, FrontIs
    <3> QED BY <3>1, PrefixOrder DEF Within
  <2>3. Front(r) # <<>>
    <3>1. Len(Front(r)) = Len(r) - 1 /\ Len(r) \in Nat
      BY <1>2, FrontIs
    <3> QED BY <3>1
  <2>4. store[Front(r)] = Folder
    BY <2>1, <2>3, ScopeIs DEF Fits, Reachable, IsFolder
  <2>5. Front(r) \notin Images(rec)
    BY <2>2, PlacedIs
  <2> QED BY <1>3, <2>2, <2>4, <2>5, PlacedIs
<1>5. CASE q # rec.path
  <2>1. Len(q) > 1 /\ Front(q) \in Within(rec.path)
    BY <1>2, <1>5, FrontWithin
  <2>2. store[Front(q)] = Folder
    BY <1>2, <2>1 DEF Laid
  <2>3. Front(q) \in Source(rec)
    BY <1>2, <2>1, <2>2, Different DEF Source
  <2>4. Front(r) = Image(rec.path, rec.to, Front(q))
    BY <1>1, <1>2, <1>5, ImageFront
  <2> QED BY <2>2, <2>3, <2>4, PlacedIs
<1> QED BY <1>4, <1>5

\* What replaces a folder is laid out as its source was.
LEMMA ReplacedLaid ==
  ASSUME Laid(kind, store), HasFolders(kind), NEW rec, rec.path \in Paths, rec.to \in Paths,
         Fits(rec)
  PROVE  Laid(kind, Replaced(rec))
<1>1. /\ Images(rec) \subseteq Within(rec.to)
      /\ \A r \in Paths : r \notin Images(rec) => Placed(rec)[r] = store[r]
  BY PlacedIs
<1>2. \A p \in Paths : Replaced(rec)[p] =
        IF p \in Images(rec) THEN Placed(rec)[p]
        ELSE IF p \in Within(rec.to) THEN None ELSE store[p]
  BY <1>1 DEF Replaced, Without
<1>3. ASSUME NEW p \in Paths, Replaced(rec)[p] # None, Len(p) > 1
      PROVE  Replaced(rec)[Front(p)] = Folder
  <2>1. Front(p) \in Paths
    BY <1>3, FrontIs
  <2>2. CASE p \in Images(rec)
    <3>1. Placed(rec)[Front(p)] = Folder /\ (Front(p) \in Images(rec) \/ Front(p) \notin Within(rec.to))
      BY <1>3, <2>2, ImagesLaid
    <3> QED BY <1>1, <1>2, <2>1, <3>1
  <2>3. CASE p \notin Images(rec)
    <3>1. p \notin Within(rec.to) /\ store[p] # None
      BY <1>2, <1>3, <2>3
    <3>2. store[Front(p)] = Folder
      BY <1>3, <3>1 DEF Laid
    <3>3. Front(p) \notin Within(rec.to)
      BY <3>1, FrontWithin
    <3> QED BY <1>1, <1>2, <2>1, <3>2, <3>3
  <2> QED BY <2>2, <2>3
<1> QED BY <1>3 DEF Laid

\* A copy is laid out too, where it replaces and where it merges.
LEMMA CopyLays ==
  ASSUME TypeOK, LaidOut, NEW c \in Worker, Copy(c)
  PROVE  Laid(kind, store')
<1> DEFINE rec == call[c]
<1>1. /\ rec.pc = "act"
      /\ \/ store' = store
         \/ /\ Fits(rec)
            /\ kind = "local" => \A q \in Source(rec) : SameSort(q, Image(rec.path, rec.to, q))
            /\ store' = IF kind = "webdav" THEN Replaced(rec) ELSE Placed(rec)
  BY DEF Copy, Refused
<1>2. rec \in Calls /\ Shape(kind, rec) /\ store \in Stored /\ Laid(kind, store)
  BY DEF TypeOK, LaidOut
<1> HIDE DEF rec
<1>3. rec.path \in Paths /\ rec.to \in Paths
  BY <1>1, <1>2 DEF Shape
<1>4. CASE store' = store
  BY <1>2, <1>4
<1>5. CASE kind = "webdav" /\ Fits(rec) /\ store' = Replaced(rec)
  BY <1>2, <1>3, <1>5, ReplacedLaid DEF HasFolders
<1>6. ASSUME Fits(rec), kind # "webdav", store' = Placed(rec),
             kind = "local" => \A q \in Source(rec) : SameSort(q, Image(rec.path, rec.to, q))
      PROVE  Laid(kind, store')
  <2>1. /\ Images(rec) \subseteq Within(rec.to)
        /\ \A q \in Source(rec) :
             /\ Image(rec.path, rec.to, q) \in Images(rec)
             /\ Image(rec.path, rec.to, q) \in Paths
             /\ Placed(rec)[Image(rec.path, rec.to, q)] = store[q]
        /\ \A r \in Paths : r \notin Images(rec) => Placed(rec)[r] = store[r]
    BY <1>3, <1>6, PlacedIs
  <2>2. \A q \in Source(rec) : q \in Paths
    BY <1>3, PathsAre DEF Source, Within
  <2>3. CASE HasFolders(kind)
    <3>1. kind = "local"
      BY <1>6, <2>3 DEF HasFolders
    <3>2. ASSUME NEW p \in Paths, Placed(rec)[p] # None, Len(p) > 1
          PROVE  Placed(rec)[Front(p)] = Folder
      <4>1. Front(p) \in Paths /\ Front(p) # <<>>
        <5>1. Len(Front(p)) = Len(p) - 1 /\ Len(p) \in Nat /\ Front(p) \in Paths
          BY <3>2, FrontIs
        <5> QED BY <3>2, <5>1
      <4>2. CASE p \in Images(rec)
        BY <1>2, <1>3, <1>6, <2>3, <3>2, <4>2, ImagesLaid
      <4>3. CASE p \notin Images(rec)
        <5>1. store[Front(p)] = Folder
          BY <1>2, <2>1, <2>3, <3>2, <4>3 DEF Laid
        <5>2. CASE Front(p) \in Images(rec)
          <6>1. PICK q \in Source(rec) : Front(p) = Image(rec.path, rec.to, q)
            BY <5>2 DEF Images
          <6>2. SameSort(q, Front(p)) /\ q \in Paths /\ q # <<>>
            BY <1>6, <2>2, <3>1, <6>1, PathsAre
          <6>3. store[q] = Folder
            BY <4>1, <5>1, <6>2, Different DEF SameSort, IsFolder
          <6> QED BY <2>1, <6>1, <6>3
        <5>3. CASE Front(p) \notin Images(rec)
          BY <2>1, <4>1, <5>1, <5>3
        <5> QED BY <5>2, <5>3
      <4> QED BY <4>2, <4>3
    <3> QED BY <1>6, <2>3, <3>2 DEF Laid
  <2>4. CASE ~HasFolders(kind)
    <3>1. ASSUME NEW p \in Paths PROVE Placed(rec)[p] # Folder
      <4>1. CASE p \in Images(rec)
        <5>1. PICK q \in Source(rec) : p = Image(rec.path, rec.to, q)
          BY <4>1 DEF Images
        <5> QED BY <1>2, <2>1, <2>2, <2>4, <5>1 DEF Laid
      <4>2. CASE p \notin Images(rec)
        BY <1>2, <2>1, <2>4, <4>2 DEF Laid
      <4> QED BY <4>1, <4>2
    <3> QED BY <1>6, <2>4, <3>1 DEF Laid
  <2> QED BY <2>3, <2>4
<1> QED BY <1>1, <1>4, <1>5, <1>6

\* What is moved to itself stays where it is.
LEMMA ImageSame ==
  ASSUME NEW p \in Paths, NEW q \in Within(p)
  PROVE  Image(p, p, q) = q
<1> DEFINE r == Image(p, p, q)
<1>1. p \in Seq(Names) /\ q \in Seq(Names) /\ IsPrefix(p, q)
  BY PathsAre DEF Within
<1>2. r \in Seq(Names) /\ Carried(p, p, q, r) /\ Starts(p, q) /\ Len(p) \in Nat /\ Len(q) \in Nat
  BY <1>1, ImageIs, PrefixIs, LenProperties
<1> HIDE DEF r
<1>3. Len(r) = Len(q)
  BY <1>2 DEF Carried
<1>4. ASSUME NEW i \in 1..Len(r) PROVE r[i] = q[i]
  <2>1. CASE i <= Len(p)
    BY <1>2, <1>3, <1>4, <2>1 DEF Carried, Starts
  <2>2. CASE i > Len(p)
    <3>1. i - Len(p) \in 1..(Len(q) - Len(p)) /\ Len(p) + (i - Len(p)) = i
      BY <1>2, <1>3, <1>4, <2>2
    <3> QED BY <1>2, <3>1 DEF Carried
  <2> QED BY <1>2, <1>3, <1>4, <2>1, <2>2
<1> QED BY <1>1, <1>2, <1>3, <1>4, SeqEqual DEF r

\* What may be moved shares nothing with where it goes.
LEMMA MovesApart ==
  ASSUME HasFolders(kind), NEW rec, rec.path \in Paths, rec.to \in Paths, rec.path # rec.to,
         Fits(rec), kind = "webdav" => Apart(rec),
         kind = "local" => ~IsPrefix(rec.path, rec.to) /\ \A q \in Below(rec.to) : store[q] = None,
         NEW q \in Within(rec.path)
  PROVE  q \notin Within(rec.to)
<1>1. CASE kind = "webdav"
  BY <1>1, ApartShares DEF Apart
<1>2. CASE kind = "local"
  <2>1. store[rec.path] # None
    BY DEF Fits
  <2>2. ~IsPrefix(rec.to, rec.path)
    BY <1>2, <2>1 DEF Below, IsStrictPrefix
  <2> QED BY <1>2, <2>2, ApartShares
<1> QED BY <1>1, <1>2 DEF HasFolders

\* A move takes all of its source away.
LEMMA MoveLays ==
  ASSUME TypeOK, LaidOut, NEW c \in Worker, Move(c)
  PROVE  Laid(kind, store')
<1> DEFINE rec == call[c]
<1>1. /\ rec.pc = "act" /\ HasFolders(kind)
      /\ \/ store' = store
         \/ /\ Fits(rec)
            /\ kind = "webdav" => Apart(rec)
            /\ kind = "local" /\ rec.path # rec.to =>
                 ~IsPrefix(rec.path, rec.to) /\ \A q \in Below(rec.to) : store[q] = None
            /\ store' = Without(Replaced(rec), Source(rec) \ Images(rec))
  BY ScopeIs DEF Move, Refused
<1>2. rec \in Calls /\ Shape(kind, rec) /\ store \in Stored /\ Laid(kind, store)
  BY DEF TypeOK, LaidOut
<1> HIDE DEF rec
<1>3. rec.path \in Paths /\ rec.to \in Paths
  BY <1>1, <1>2 DEF Shape
<1>4. CASE store' = store
  BY <1>2, <1>4
<1>5. ASSUME Fits(rec), kind = "webdav" => Apart(rec),
             kind = "local" /\ rec.path # rec.to =>
               ~IsPrefix(rec.path, rec.to) /\ \A q \in Below(rec.to) : store[q] = None
      PROVE  Laid(kind, Without(Replaced(rec), Source(rec) \ Images(rec)))
  <2> DEFINE T == Source(rec) \ Images(rec)
  <2>1. Laid(kind, Replaced(rec))
    BY <1>1, <1>2, <1>3, <1>5, ReplacedLaid
  <2>2. /\ Images(rec) \subseteq Within(rec.to)
        /\ \A r \in Paths : r \notin Images(rec) => Placed(rec)[r] = store[r]
    BY <1>3, <1>5, PlacedIs
  <2>3. Scope(rec.path) = Within(rec.path)
    BY <1>1, ScopeIs DEF ScopeOf
  <2>4. ASSUME NEW p \in Paths, Len(p) > 1, Front(p) \in T
        PROVE  p \in T \/ Replaced(rec)[p] = None
    <3>1. Front(p) \in Within(rec.path) /\ Front(p) \notin Images(rec) /\ Front(p) \in Source(rec)
      BY <2>3, <2>4 DEF Source
    <3>2. p \in Within(rec.path)
      BY <1>3, <3>1, FrontWithin
    <3>3. CASE rec.path = rec.to
      <4>1. Image(rec.path, rec.to, Front(p)) = Front(p)
        BY <1>3, <3>1, <3>3, ImageSame
      <4> QED BY <3>1, <4>1 DEF Images
    <3>4. CASE rec.path # rec.to
      <4>1. p \notin Within(rec.to)
        BY <1>1, <1>3, <1>5, <3>2, <3>4, MovesApart
      <4>2. p \notin Images(rec)
        BY <2>2, <4>1
      <4>3. Replaced(rec)[p] = store[p]
        BY <2>2, <4>1, <4>2 DEF Replaced, Without
      <4> QED BY <2>3, <3>2, <4>2, <4>3 DEF Source
    <3> QED BY <3>3, <3>4
  <2> HIDE DEF T
  <2>5. Laid(kind, Without(Replaced(rec), T))
    BY <2>1, <2>4, WithoutLaid
  <2> QED BY <2>5 DEF T
<1> QED BY <1>1, <1>4, <1>5

\* Every step of a call leaves what is stored laid out.
LEMMA CallsLay ==
  ASSUME TypeOK, LaidOut, NEW c \in Worker,
         \/ StartCall(c) \/ MakeFolders(c) \/ Upload(c) \/ Delete(c) \/ Copy(c)
         \/ RemoveSource(c) \/ Move(c) \/ WriteSidecar(c) \/ RemoveSidecar(c) \/ Fail(c)
         \/ TakeNext(c) \/ Collect(c)
  PROVE  Laid(kind, store') /\ kind' = kind
<1>1. kind' = kind
  BY DEF StartCall, MakeFolders, Upload, Delete, Copy, RemoveSource, Move, WriteSidecar,
         RemoveSidecar, Fail, TakeNext, Collect
<1>2. CASE StartCall(c) \/ WriteSidecar(c) \/ RemoveSidecar(c) \/ Fail(c) \/ TakeNext(c) \/ Collect(c)
  <2>1. store' = store
    BY <1>2 DEF StartCall, WriteSidecar, RemoveSidecar, Fail, TakeNext, Collect
  <2> QED BY <1>1, <2>1 DEF LaidOut
<1> QED BY <1>1, <1>2, MakeFoldersLays, UploadLays, DeleteLays, CopyLays, MoveLays

-----------------------------------------------------------------------------
(* The calls of others, and those of the batch.                            *)

\* The same batch, but for what others have touched.
SameBatch(old, new) ==
  /\ new.op = old.op /\ new.targets = old.targets /\ new.phase = old.phase
  /\ new.pending = old.pending /\ new.listed = old.listed /\ new.found = old.found
  /\ new.queue = old.queue /\ new.deleted = old.deleted /\ new.failed = old.failed
  /\ new.was = old.was

\* The calls of the batch are as they were.
SameTakers(old, new) ==
  Takers(new) = Takers(old) /\ \A d \in Takers(old) : SameCall(old[d], new[d])

\* What others touch is of no concern to the batch.
LEMMA FactsStay ==
  ASSUME NEW k, NEW st, NEW st1, NEW calls, NEW calls1, NEW b, NEW b1,
         SameBatch(b, b1), SameTakers(calls, calls1), OwnOf(b1) \subseteq OwnOf(b),
         b.phase # "idle" => \A q \in OwnOf(b1) : st1[q] = st[q],
         BatchFacts(k, st, calls, b)
  PROVE  BatchFacts(k, st1, calls1, b1)
<1>1. Handled(calls1, b1) = Handled(calls, b)
  <2>1. {calls1[c].path : c \in Takers(calls1)} = {calls[c].path : c \in Takers(calls)}
    BY DEF SameTakers, SameCall
  <2> QED BY <2>1 DEF Handled, SameBatch
<1>2. Phased(calls1, b1)
  BY DEF BatchFacts, Phased, SameBatch, SameTakers
<1>3. OwnKept(k, st1, calls1, b1)
  BY <1>1 DEF BatchFacts, OwnKept, SameBatch
<1>4. Aimed(calls1, b1) /\ Queued(calls1, b1)
  BY <1>1 DEF BatchFacts, Aimed, Queued, SameBatch
<1>5. AllCleared(k, st1, calls1, b1)
  <2>1. CASE b.phase = "idle"
    <3>1. b1.deleted = {} /\ Takers(calls1) = {}
      BY <2>1 DEF BatchFacts, Phased, SameBatch, SameTakers
    <3> QED BY <3>1 DEF AllCleared
  <2>2. CASE b.phase # "idle"
    <3>1. \A h : Cleared(k, st, b, h) => Cleared(k, st1, b1, h)
      BY <2>2 DEF Cleared
    <3>2. \A h \in b1.deleted : Cleared(k, st1, b1, h)
      BY <3>1 DEF BatchFacts, AllCleared, SameBatch
    <3>3. ASSUME NEW c \in Takers(calls1), calls1[c].pc = "unsidecar" \/ calls1[c].result = "ok"
          PROVE  Cleared(k, st1, b1, calls1[c].path)
      <4>1. c \in Takers(calls) /\ SameCall(calls[c], calls1[c])
        BY DEF SameTakers
      <4>2. Cleared(k, st, b, calls[c].path) /\ calls1[c].path = calls[c].path
        BY <3>3, <4>1 DEF BatchFacts, AllCleared, SameCall
      <4> QED BY <3>1, <4>2
    <3> QED BY <3>2, <3>3 DEF AllCleared
  <2> QED BY <2>1, <2>2
<1>6. Sought(b1) \subseteq Sought(b)
  BY DEF Sought, SameBatch
<1>7. OnTheWay(k, b1)
  BY <1>6 DEF BatchFacts, OnTheWay, SameBatch
<1>8. PagesKept(b1)
  BY <1>6 DEF BatchFacts, PagesKept, SameBatch
<1> QED BY <1>2, <1>3, <1>4, <1>5, <1>7, <1>8 DEF BatchFacts

\* A call of the batch takes away what it was told to.
LEMMA FactsStep ==
  ASSUME NEW k, NEW st, NEW st1, NEW calls, NEW calls1, NEW b,
         NEW c \in Takers(calls), Takers(calls1) = Takers(calls),
         \A d \in Takers(calls) : d # c => SameCall(calls[d], calls1[d]),
         calls1[c].path = calls[c].path,
         \A q \in Paths : st1[q] = st[q] \/ (st1[q] = None /\ q \in ScopeOf(k, calls[c].path)),
         calls1[c].pc = "unsidecar" \/ calls1[c].result = "ok" =>
           Cleared(k, st1, b, calls[c].path),
         BatchFacts(k, st, calls, b)
  PROVE  BatchFacts(k, st1, calls1, b)
<1>1. \A d \in Takers(calls) : calls1[d].path = calls[d].path
  BY DEF SameCall
<1>2. Handled(calls1, b) = Handled(calls, b) /\ calls[c].path \in Handled(calls, b)
  <2>1. {calls1[d].path : d \in Takers(calls1)} = {calls[d].path : d \in Takers(calls)}
    BY <1>1
  <2>2. calls[c].path \in {calls[d].path : d \in Takers(calls)}
    OBVIOUS
  <2> QED BY <2>1, <2>2 DEF Handled
<1>3. Phased(calls1, b)
  BY DEF BatchFacts, Phased
<1>4. OwnKept(k, st1, calls1, b)
  BY <1>2 DEF BatchFacts, OwnKept, OwnOf
<1>5. Aimed(calls1, b) /\ Queued(calls1, b)
  BY <1>2 DEF BatchFacts, Aimed, Queued
<1>6. AllCleared(k, st1, calls1, b)
  <2>1. \A h : Cleared(k, st, b, h) => Cleared(k, st1, b, h)
    BY DEF Cleared, OwnOf
  <2>2. \A h \in b.deleted : Cleared(k, st1, b, h)
    BY <2>1 DEF BatchFacts, AllCleared
  <2>3. ASSUME NEW d \in Takers(calls1), calls1[d].pc = "unsidecar" \/ calls1[d].result = "ok"
        PROVE  Cleared(k, st1, b, calls1[d].path)
    <3>1. CASE d = c
      BY <2>3, <3>1
    <3>2. CASE d # c
      <4>1. d \in Takers(calls) /\ SameCall(calls[d], calls1[d])
        BY <3>2
      <4>2. Cleared(k, st, b, calls[d].path) /\ calls1[d].path = calls[d].path
        BY <2>3, <4>1 DEF BatchFacts, AllCleared, SameCall
      <4> QED BY <2>1, <4>2
    <3> QED BY <3>1, <3>2
  <2> QED BY <2>2, <2>3 DEF AllCleared
<1> QED BY <1>3, <1>4, <1>5, <1>6 DEF BatchFacts

\* A call takes a step; it stays the same call.
Steps(c) ==
  /\ Become(c, call'[c])
  /\ call'[c].ofBatch = call[c].ofBatch /\ call'[c].path = call[c].path

\* Whatever a call becomes, it is the same call.
LEMMA Becomes ==
  ASSUME call \in [Worker -> Calls], NEW c \in Worker, NEW next, Onward(call[c], next),
         Become(c, next)
  PROVE  Steps(c) /\ call'[c] = next
<1>1. call'[c] = next
  BY DEF Become
<1> QED BY <1>1 DEF Steps, Onward

\* So does a call whose request may be retried.
LEMMA AnswerSteps ==
  ASSUME call \in [Worker -> Calls], NEW c \in Worker, NEW next, Onward(call[c], next),
         Answered(c, next)
  PROVE  Steps(c) /\ call'[c] \in {next, call[c], Done(call[c], "error")}
<1>1. Onward(call[c], call[c]) /\ Onward(call[c], Done(call[c], "error"))
  <2>1. call[c] \in Calls
    OBVIOUS
  <2> QED BY <2>1, GoesOn DEF Onward
<1> QED BY <1>1, Becomes DEF Answered

\* Every action of a call is such a step.
LEMMA ActionSteps ==
  ASSUME TypeOK, NEW c \in Worker,
         \/ MakeFolders(c) \/ Upload(c) \/ Delete(c) \/ Copy(c) \/ RemoveSource(c) \/ Move(c)
         \/ WriteSidecar(c) \/ RemoveSidecar(c) \/ Fail(c)
  PROVE  Steps(c)
<1> DEFINE rec == call[c]
<1>1. rec \in Calls /\ call \in [Worker -> Calls]
  BY DEF TypeOK
<1>2. /\ \A label \in {"act", "remove", "sidecar", "unsidecar"} : Onward(rec, Go(rec, label))
      /\ \A result \in {"ok", "error"} : Onward(rec, Done(rec, result))
  BY <1>1, GoesOn DEF Onward
<1>3. \A n : Onward(rec, [rec EXCEPT !.k = n])
  BY <1>1 DEF Calls, Onward
<1>4. ASSUME NEW next, Onward(rec, next), Answered(c, next) \/ Refused(c) \/ Become(c, next)
      PROVE  Steps(c)
  <2>1. CASE Answered(c, next) \/ Become(c, next)
    BY <1>1, <1>4, <2>1, AnswerSteps, Becomes
  <2>2. CASE Refused(c)
    BY <1>1, <1>2, <2>2, Becomes DEF Refused
  <2> QED BY <1>4, <2>1, <2>2
<1> HIDE DEF rec
<1>5. CASE MakeFolders(c)
  <2> DEFINE upto == IF kind = "local" THEN Parents(rec) ELSE Min({rec.k + 1, Parents(rec)})
             next == IF upto < Parents(rec) THEN [rec EXCEPT !.k = upto]
                     ELSE IF rec.op = "createFolder" THEN Done(rec, "ok") ELSE Go(rec, "act")
  <2>1. Answered(c, next) \/ Refused(c)
    BY <1>5 DEF MakeFolders, rec
  <2>2. Onward(rec, next)
    <3> HIDE DEF upto
    <3>1. next \in {[rec EXCEPT !.k = upto], Done(rec, "ok"), Go(rec, "act")}
      OBVIOUS
    <3> HIDE DEF next
    <3> QED BY <1>2, <1>3, <3>1
  <2> HIDE DEF next
  <2> QED BY <1>4, <2>1, <2>2
<1>6. CASE Upload(c)
  <2> DEFINE next == IF kind = "local" THEN Go(rec, "sidecar") ELSE Done(rec, "ok")
  <2>1. Answered(c, next) \/ Refused(c)
    BY <1>6 DEF Upload, rec
  <2>2. Onward(rec, next)
    BY <1>2
  <2> HIDE DEF next
  <2> QED BY <1>4, <2>1, <2>2
<1>7. CASE Delete(c)
  <2> DEFINE next == IF kind = "local" THEN Go(rec, "unsidecar") ELSE Done(rec, "ok")
  <2>1. Answered(c, next)
    BY <1>7 DEF Delete, rec
  <2>2. Onward(rec, next)
    BY <1>2
  <2> HIDE DEF next
  <2> QED BY <1>4, <2>1, <2>2
<1>8. CASE Copy(c)
  <2> DEFINE next == IF rec.op = "move" THEN Go(rec, "remove")
                     ELSE IF kind = "local" THEN Go(rec, "sidecar") ELSE Done(rec, "ok")
  <2>1. Answered(c, next) \/ Refused(c)
    BY <1>8 DEF Copy, rec
  <2>2. Onward(rec, next)
    BY <1>2
  <2> HIDE DEF next
  <2> QED BY <1>4, <2>1, <2>2
<1>9. CASE RemoveSource(c)
  <2>1. Answered(c, Done(rec, "ok"))
    BY <1>9 DEF RemoveSource, rec
  <2> QED BY <1>2, <1>4, <2>1
<1>10. CASE Move(c)
  <2> DEFINE next == IF kind = "local" THEN Go(rec, "sidecar") ELSE Done(rec, "ok")
  <2>1. Answered(c, next) \/ Refused(c)
    BY <1>10 DEF Move, rec
  <2>2. Onward(rec, next)
    BY <1>2
  <2> HIDE DEF next
  <2> QED BY <1>4, <2>1, <2>2
<1>11. CASE WriteSidecar(c)
  <2> DEFINE result == IF rec.op = "upload" /\ store[rec.to] = None THEN "error" ELSE "ok"
             next == IF rec.op = "move" THEN Go(rec, "unsidecar") ELSE Done(rec, result)
  <2>1. Become(c, next)
    BY <1>11 DEF WriteSidecar, rec
  <2>2. Onward(rec, next)
    BY <1>2
  <2> HIDE DEF next
  <2> QED BY <1>4, <2>1, <2>2
<1>12. CASE RemoveSidecar(c) \/ Fail(c)
  <2>1. Become(c, Done(rec, "ok")) \/ Become(c, Done(rec, "error"))
    BY <1>12 DEF RemoveSidecar, Fail, rec
  <2> QED BY <1>2, <1>4, <2>1
<1> QED BY <1>5, <1>6, <1>7, <1>8, <1>9, <1>10, <1>11, <1>12

\* A call that is not the batch's leaves the batch as it was.
LEMMA OthersKeep ==
  ASSUME TypeOK, TypeOK', BatchFacts(kind, store, call, batch), NEW c \in Worker, Steps(c),
         ~call[c].ofBatch
  PROVE  BatchFacts(kind, store', call', batch')
<1>1. /\ call \in [Worker -> Calls] /\ batch \in Batches /\ call'[c] \in Calls
      /\ Become(c, call'[c]) /\ call'[c].ofBatch = call[c].ofBatch
  BY DEF TypeOK, Steps
<1>2. \A d \in Worker : d # c => Told(call[d], call'[d], ChangedBy(store, store'))
  BY <1>1, BecomeDoes
<1>3. \A d \in Worker : call'[d].ofBatch = call[d].ofBatch
  BY <1>1, <1>2 DEF Told, SameCall
<1>4. SameTakers(call, call')
  BY <1>2, <1>3 DEF SameTakers, Takers, Told
<1> DEFINE more == IF batch.was = <<>> THEN batch.touched ELSE batch.touched \cup ChangedBy(store, store')
<1>5. batch' = [batch EXCEPT !.touched = more]
  BY <1>1 DEF Become, ChangedBy
<1>6. SameBatch(batch, batch') /\ batch'.touched = more
  <2> HIDE DEF more
  <2> QED BY <1>1, <1>5 DEF SameBatch, Batches
<1>7. OwnOf(batch') \subseteq OwnOf(batch)
  BY <1>6 DEF OwnOf
<1>8. ASSUME batch.phase # "idle", NEW q \in OwnOf(batch') PROVE store'[q] = store[q]
  <2>1. batch.was \in Stored /\ q \in Paths
    BY <1>8 DEF BatchFacts, Phased, OwnOf
  <2>2. batch.was # <<>>
    <3>1. DOMAIN batch.was = Paths
      BY <2>1 DEF Stored
    <3>2. DOMAIN <<>> = {}
      OBVIOUS
    <3> QED BY <2>1, <3>1, <3>2
  <2> QED BY <1>6, <1>8, <2>1, <2>2 DEF OwnOf, ChangedBy
<1> HIDE DEF more
<1> QED BY <1>4, <1>6, <1>7, <1>8, FactsStay

\* A call of the batch deletes, and nothing else.
LEMMA TakerKeeps ==
  ASSUME TypeOK, TypeOK', BatchFacts(kind, store, call, batch), NEW c \in Worker, call[c].ofBatch,
         \/ MakeFolders(c) \/ Upload(c) \/ Delete(c) \/ Copy(c) \/ RemoveSource(c) \/ Move(c)
         \/ WriteSidecar(c) \/ RemoveSidecar(c) \/ Fail(c)
  PROVE  BatchFacts(kind, store', call', batch')
<1>1. Steps(c)
  BY ActionSteps
<1>2. /\ call \in [Worker -> Calls] /\ batch \in Batches /\ call'[c] \in Calls
      /\ Become(c, call'[c]) /\ call'[c].ofBatch = call[c].ofBatch /\ call'[c].path = call[c].path
      /\ call[c] \in Calls /\ Shape(kind, call[c])
  BY <1>1 DEF TypeOK, Steps
<1>3. \A d \in Worker : d # c => SameCall(call[d], call'[d])
  <2>1. \A d \in Worker : d # c => Told(call[d], call'[d], ChangedBy(store, store'))
    BY <1>2, BecomeDoes
  <2> QED BY <2>1 DEF Told
<1>4. Takers(call') = Takers(call) /\ c \in Takers(call)
  BY <1>2, <1>3 DEF Takers, SameCall
<1>5. batch' = batch
  BY <1>2 DEF Become
<1>6. call[c].op = "delete" /\ call[c].pc \in {"idle", "act", "unsidecar", "done"}
  BY <1>2 DEF Shape
<1>7. /\ \A q \in Paths : store'[q] = store[q] \/ (store'[q] = None /\ q \in ScopeOf(kind, call[c].path))
      /\ call'[c].pc = "unsidecar" \/ call'[c].result = "ok" =>
           Cleared(kind, store', batch, call[c].path)
  <2>1. CASE Delete(c)
    <3>1. store' = [q \in Paths |-> IF q \in ScopeOf(kind, call[c].path) THEN None ELSE store[q]]
      BY <2>1, ScopeIs DEF Delete
    <3>2. \A q \in Paths : q \in ScopeOf(kind, call[c].path) => store'[q] = None
      BY <3>1
    <3> QED BY <3>1, <3>2 DEF Cleared, OwnOf
  <2>2. CASE RemoveSidecar(c)
    <3>1. store' = store /\ call[c].pc = "unsidecar"
      BY <2>2 DEF RemoveSidecar
    <3> QED BY <1>4, <3>1 DEF BatchFacts, AllCleared
  <2>3. CASE Fail(c)
    <3>1. store' = store /\ Become(c, Done(call[c], "error"))
      BY <2>3 DEF Fail
    <3>2. Onward(call[c], Done(call[c], "error"))
          /\ Done(call[c], "error").pc = "done" /\ Done(call[c], "error").result = "error"
      BY <1>2, GoesOn DEF Onward
    <3>3. call'[c] = Done(call[c], "error")
      BY <1>2, <3>1, <3>2, Becomes
    <3> QED BY <3>1, <3>2, <3>3
  <2>4. ~MakeFolders(c) /\ ~Upload(c) /\ ~Copy(c) /\ ~RemoveSource(c) /\ ~Move(c) /\ ~WriteSidecar(c)
    BY <1>6 DEF MakeFolders, Upload, Copy, RemoveSource, Move, WriteSidecar
  <2> QED BY <2>1, <2>2, <2>3, <2>4
<1>8. BatchFacts(kind, store', call', batch)
  <2>1. \A d \in Takers(call) : d # c => SameCall(call[d], call'[d])
    BY <1>3 DEF Takers
  <2>2. call'[c].path = call[c].path
    BY <1>2
  <2> QED BY <1>4, <1>7, <2>1, <2>2, FactsStep
<1> QED BY <1>5, <1>8

\* A call that begins is not the batch's.
LEMMA StartCallSame ==
  ASSUME TypeOK, BatchFacts(kind, store, call, batch), NEW c \in Worker, StartCall(c)
  PROVE  BatchFacts(kind, store', call', batch')
<1>1. PICK new \in Calls : call' = [call EXCEPT ![c] = new] /\ new.ofBatch = FALSE
  BY StartCallIs
<1>2. ~call[c].ofBatch /\ batch' = batch /\ store' = store /\ call \in [Worker -> Calls]
  BY DEF StartCall, TypeOK
<1>3. \A d \in Worker : call'[d] = IF d = c THEN new ELSE call[d]
  BY <1>1, <1>2
<1>4. SameTakers(call, call')
  BY <1>1, <1>2, <1>3 DEF SameTakers, Takers, SameCall
<1>5. SameBatch(batch, batch)
  BY DEF SameBatch
<1>6. BatchFacts(kind, store, call', batch)
  BY <1>4, <1>5, FactsStay
<1> QED BY <1>2, <1>6

\* A worker that takes a path has it in hand.
LEMMA TakeNextSame ==
  ASSUME TypeOK, BatchFacts(kind, store, call, batch), NEW c \in Worker, TakeNext(c)
  PROVE  BatchFacts(kind, store', call', batch')
<1>1. PICK p \in batch.queue :
        /\ call' = [call EXCEPT ![c] = [NoCall EXCEPT !.path = p, !.to = p, !.pc = "act",
                                         !.ofBatch = TRUE]]
        /\ batch' = [batch EXCEPT !.queue = @ \ {p}]
  BY DEF TakeNext
<1>2. /\ ~call[c].ofBatch /\ store' = store /\ call \in [Worker -> Calls] /\ batch \in Batches
      /\ batch.phase = "delete" /\ BatchShape(batch)
  BY DEF TakeNext, TypeOK
<1> DEFINE new == [NoCall EXCEPT !.path = p, !.to = p, !.pc = "act", !.ofBatch = TRUE]
<1>3. new.path = p /\ new.pc = "act" /\ new.ofBatch = TRUE /\ new.result = None
  <2>1. new = [NoCall EXCEPT !.path = p, !.to = p, !.pc = "act", !.ofBatch = TRUE]
    OBVIOUS
  <2>2. NoCall \in Calls
    BY NoCallTyped
  <2> HIDE DEF new
  <2>3. new.path = p /\ new.pc = "act" /\ new.ofBatch = TRUE /\ new.result = NoCall.result
    BY ONLY <2>1, <2>2 DEF Calls
  <2> QED BY <2>3, NoCallTyped
<1>4. call' = [call EXCEPT ![c] = new]
  BY <1>1
<1> HIDE DEF new
<1>5. \A d \in Worker : call'[d] = IF d = c THEN new ELSE call[d]
  BY <1>2, <1>4
<1>6. /\ batch'.op = batch.op /\ batch'.targets = batch.targets /\ batch'.phase = batch.phase
      /\ batch'.pending = batch.pending /\ batch'.listed = batch.listed
      /\ batch'.found = batch.found /\ batch'.deleted = batch.deleted
      /\ batch'.failed = batch.failed /\ batch'.was = batch.was /\ batch'.touched = batch.touched
      /\ batch'.queue = batch.queue \ {p}
  BY ONLY <1>1, <1>2 DEF Batches
<1>7. c \notin Takers(call) /\ Takers(call') = Takers(call) \cup {c}
  BY <1>2, <1>3, <1>5 DEF Takers
<1>8. Handled(call', batch') = Handled(call, batch) \cup {p}
  <2>1. {call'[d].path : d \in Takers(call')} = {call[d].path : d \in Takers(call)} \cup {p}
    <3>1. \A d \in Takers(call) : d \in Worker /\ d # c
      BY <1>7 DEF Takers
    <3> QED BY <1>3, <1>5, <1>7, <3>1
  <2> QED BY <1>6, <2>1 DEF Handled
<1>9. Phased(call', batch')
  BY <1>2, <1>6 DEF BatchFacts, Phased, BatchShape
<1>10. OwnKept(kind, store', call', batch')
  BY <1>2, <1>6, <1>8 DEF BatchFacts, OwnKept, OwnOf
<1>11. Aimed(call', batch') /\ Queued(call', batch')
  BY <1>6, <1>8 DEF BatchFacts, Aimed, Queued
<1>12. AllCleared(kind, store', call', batch')
  <2>1. \A h : Cleared(kind, store, batch, h) => Cleared(kind, store', batch', h)
    BY <1>2, <1>6 DEF Cleared, OwnOf
  <2>2. \A h \in batch'.deleted : Cleared(kind, store', batch', h)
    BY <1>6, <2>1 DEF BatchFacts, AllCleared
  <2>3. ASSUME NEW d \in Takers(call'), call'[d].pc = "unsidecar" \/ call'[d].result = "ok"
        PROVE  Cleared(kind, store', batch', call'[d].path)
    <3>1. d # c
      BY <1>3, <1>5, <2>3 DEF None
    <3>2. d \in Takers(call) /\ call'[d] = call[d]
      BY <1>5, <1>7, <3>1 DEF Takers
    <3> QED BY <2>1, <2>3, <3>2 DEF BatchFacts, AllCleared
  <2> QED BY <2>2, <2>3 DEF AllCleared
<1>13. Sought(batch') = Sought(batch)
  BY <1>6 DEF Sought, OwnOf
<1>14. OnTheWay(kind, batch')
  BY <1>6, <1>13 DEF BatchFacts, OnTheWay
<1>15. PagesKept(batch')
  BY <1>2, <1>6 DEF PagesKept
<1>16. BatchFacts(kind, store', call', batch')
  BY <1>9, <1>10, <1>11, <1>12, <1>14, <1>15 DEF BatchFacts
<1> QED BY <1>16

\* What a worker has done with is reported as what became of it.
LEMMA CollectSame ==
  ASSUME TypeOK, BatchFacts(kind, store, call, batch), NEW c \in Worker, Collect(c)
  PROVE  BatchFacts(kind, store', call', batch')
<1>1. /\ call[c].ofBatch /\ call' = [call EXCEPT ![c] = NoCall]
      /\ batch' = IF call[c].result = "ok" THEN [batch EXCEPT !.deleted = @ \cup {call[c].path}]
                  ELSE [batch EXCEPT !.failed = @ \cup {call[c].path}]
      /\ store' = store /\ call \in [Worker -> Calls] /\ batch \in Batches /\ BatchShape(batch)
  BY DEF Collect, TypeOK
<1> DEFINE p == call[c].path
<1>2. \A d \in Worker : call'[d] = IF d = c THEN NoCall ELSE call[d]
  BY <1>1
<1>3. c \in Takers(call) /\ Takers(call') = Takers(call) \ {c}
  BY <1>1, <1>2, NoCallTyped DEF Takers
<1>4. batch.phase = "delete" /\ batch.op # "walk"
  BY <1>1, <1>3 DEF BatchFacts, Phased, BatchShape
<1>5. /\ batch'.op = batch.op /\ batch'.targets = batch.targets /\ batch'.phase = batch.phase
      /\ batch'.pending = batch.pending /\ batch'.listed = batch.listed
      /\ batch'.found = batch.found /\ batch'.queue = batch.queue
      /\ batch'.was = batch.was /\ batch'.touched = batch.touched
      /\ batch'.deleted = (IF call[c].result = "ok" THEN batch.deleted \cup {p} ELSE batch.deleted)
      /\ batch'.failed = (IF call[c].result = "ok" THEN batch.failed ELSE batch.failed \cup {p})
  BY ONLY <1>1 DEF Batches
<1>6. Handled(call', batch') = Handled(call, batch)
  <2>1. {call[d].path : d \in Takers(call)} = {call'[d].path : d \in Takers(call')} \cup {p}
    <3>1. \A d \in Takers(call') : d \in Worker /\ d # c /\ d \in Takers(call)
      BY <1>3 DEF Takers
    <3> QED BY <1>2, <1>3, <3>1
  <2> QED BY <1>5, <2>1 DEF Handled
<1>7. Phased(call', batch')
  BY <1>4, <1>5 DEF BatchFacts, Phased
<1>8. OwnKept(kind, store', call', batch')
  BY <1>1, <1>5, <1>6 DEF BatchFacts, OwnKept, OwnOf
<1>9. Aimed(call', batch') /\ Queued(call', batch')
  BY <1>5, <1>6 DEF BatchFacts, Aimed, Queued
<1>10. AllCleared(kind, store', call', batch')
  <2>1. \A h : Cleared(kind, store, batch, h) => Cleared(kind, store', batch', h)
    BY <1>1, <1>5 DEF Cleared, OwnOf
  <2>2. call[c].result = "ok" => Cleared(kind, store, batch, p)
    BY <1>3 DEF BatchFacts, AllCleared
  <2>3. \A h \in batch'.deleted : Cleared(kind, store', batch', h)
    BY <1>5, <2>1, <2>2 DEF BatchFacts, AllCleared
  <2>4. ASSUME NEW d \in Takers(call'), call'[d].pc = "unsidecar" \/ call'[d].result = "ok"
        PROVE  Cleared(kind, store', batch', call'[d].path)
    <3>1. d \in Takers(call) /\ call'[d] = call[d]
      BY <1>2, <1>3 DEF Takers
    <3> QED BY <2>1, <2>4, <3>1 DEF BatchFacts, AllCleared
  <2> QED BY <2>3, <2>4 DEF AllCleared
<1>11. Sought(batch') = Sought(batch)
  BY <1>5 DEF Sought, OwnOf
<1>12. OnTheWay(kind, batch')
  BY <1>5, <1>11 DEF BatchFacts, OnTheWay
<1>13. PagesKept(batch')
  BY <1>4, <1>5 DEF PagesKept
<1>14. BatchFacts(kind, store', call', batch')
  BY <1>7, <1>8, <1>9, <1>10, <1>12, <1>13 DEF BatchFacts
<1> QED BY <1>14

-----------------------------------------------------------------------------
(* Walks.                                                                  *)

\* The root is a path's beginning, and every path begins with itself.
LEMMA Targets ==
  ASSUME NEW p \in Paths \cup {<<>>}
  PROVE  p \in Seq(Names) /\ IsPrefix(p, p)
<1>1. p \in Seq(Names)
  BY PathsAre, EmptySeq
<1> QED BY <1>1, PrefixOrder

\* A batch knows nothing yet, but what it is to look at.
LEMMA BatchBegins ==
  ASSUME NEW k, NEW st \in Stored, NEW calls, Takers(calls) = {}, NEW b \in Batches,
         BatchShape(b), b.was = st, b.phase \in {"walk", "delete"},
         b.deleted = {}, b.failed = {}, b.found = {}, b.listed = {},
         b.phase = "walk" => b.op # "deleteMany" /\ b.pending = b.targets /\ b.queue = {},
         b.phase = "delete" => b.op = "deleteMany" /\ b.queue = b.targets /\ b.pending = {}
  PROVE  BatchFacts(k, st, calls, b)
<1>1. Handled(calls, b) = {}
  BY DEF Handled
<1>2. Phased(calls, b)
  BY DEF Phased, BatchShape
<1>3. OwnKept(k, st, calls, b)
  BY DEF OwnKept
<1>4. b.targets \subseteq Paths \cup {<<>>}
  BY DEF Batches
<1>5. Aimed(calls, b)
  BY <1>1, <1>4, Targets DEF Aimed
<1>6. Queued(calls, b)
  BY DEF Queued
<1>7. AllCleared(k, st, calls, b)
  BY DEF AllCleared
<1>8. OnTheWay(k, b)
  <2> SUFFICES ASSUME b.phase = "walk", NEW q \in Sought(b)
               PROVE  \E i \in 0..(Len(q) - 1) : SubSeq(q, 1, i) \in b.pending
    BY DEF OnTheWay
  <2>1. PICK p \in b.targets : IsStrictPrefix(p, q)
    BY DEF Sought
  <2>2. q \in Paths /\ q \in Seq(Names) /\ p \in Seq(Names) /\ IsPrefix(p, q) /\ p # q
    BY <1>4, <2>1, PathsAre, Targets DEF Sought, OwnOf, IsStrictPrefix
  <2>3. Len(p) \in 0..Len(q) /\ p = Upper(q, Len(p)) /\ Len(p) < Len(q) /\ Len(q) \in Nat
    BY <2>2, PrefixUpper, LenProperties
  <2>4. Len(p) \in 0..(Len(q) - 1) /\ SubSeq(q, 1, Len(p)) = p
    BY <2>3 DEF Upper
  <2> QED BY <2>1, <2>4
<1>9. PagesKept(b)
  BY DEF PagesKept
<1> QED BY <1>2, <1>3, <1>5, <1>6, <1>7, <1>8, <1>9 DEF BatchFacts

\* A batch begins when no other is under way.
LEMMA StartBatchSame ==
  ASSUME TypeOK, TypeOK', BatchFacts(kind, store, call, batch), StartBatch
  PROVE  BatchFacts(kind, store', call', batch')
<1>1. /\ store \in Stored /\ store' = store /\ call' = call
      /\ batch' \in Batches /\ BatchShape(batch')
      /\ batch.phase \notin {"walk", "delete"}
  BY DEF StartBatch, TypeOK
<1>2. Takers(call) = {}
  BY <1>1 DEF BatchFacts, Phased
<1>3. /\ NoBatch \in Batches /\ NoBatch.deleted = {} /\ NoBatch.failed = {} /\ NoBatch.found = {}
      /\ NoBatch.listed = {} /\ NoBatch.queue = {} /\ NoBatch.pending = {} /\ NoBatch.op = "walk"
  BY NoBatchTyped DEF NoBatch
<1>4. /\ batch'.was = store /\ batch'.phase \in {"walk", "delete"}
      /\ batch'.deleted = {} /\ batch'.failed = {} /\ batch'.found = {} /\ batch'.listed = {}
      /\ batch'.phase = "walk" =>
           batch'.op # "deleteMany" /\ batch'.pending = batch'.targets /\ batch'.queue = {}
      /\ batch'.phase = "delete" =>
           batch'.op = "deleteMany" /\ batch'.queue = batch'.targets /\ batch'.pending = {}
  <2>1. CASE \E p \in Paths \cup {<<>>} :
               batch' = [NoBatch EXCEPT !.targets = {p}, !.phase = "walk", !.pending = {p}, !.was = store]
    <3>1. PICK p : batch' = [NoBatch EXCEPT !.targets = {p}, !.phase = "walk", !.pending = {p}, !.was = store]
      BY <2>1
    <3>2. /\ batch'.targets = {p} /\ batch'.phase = "walk" /\ batch'.pending = {p}
          /\ batch'.was = store /\ batch'.op = NoBatch.op /\ batch'.queue = NoBatch.queue
          /\ batch'.deleted = NoBatch.deleted /\ batch'.failed = NoBatch.failed
          /\ batch'.found = NoBatch.found /\ batch'.listed = NoBatch.listed
      BY ONLY <1>3, <3>1 DEF Batches
    <3> QED BY <1>3, <3>2
  <2>2. CASE \E p \in Paths :
               batch' = [NoBatch EXCEPT !.op = "deleteTree", !.targets = {p}, !.phase = "walk",
                           !.pending = {p}, !.was = store]
    <3>1. PICK p : batch' = [NoBatch EXCEPT !.op = "deleteTree", !.targets = {p}, !.phase = "walk",
                           !.pending = {p}, !.was = store]
      BY <2>2
    <3>2. /\ batch'.targets = {p} /\ batch'.phase = "walk" /\ batch'.pending = {p}
          /\ batch'.was = store /\ batch'.op = "deleteTree" /\ batch'.queue = NoBatch.queue
          /\ batch'.deleted = NoBatch.deleted /\ batch'.failed = NoBatch.failed
          /\ batch'.found = NoBatch.found /\ batch'.listed = NoBatch.listed
      BY ONLY <1>3, <3>1 DEF Batches
    <3> QED BY <1>3, <3>2
  <2>3. CASE \E ps \in kSubset(2, Paths) :
               batch' = [NoBatch EXCEPT !.op = "deleteMany", !.targets = ps, !.phase = "delete",
                           !.queue = ps, !.was = store]
    <3>1. PICK ps : batch' = [NoBatch EXCEPT !.op = "deleteMany", !.targets = ps, !.phase = "delete",
                           !.queue = ps, !.was = store]
      BY <2>3
    <3>2. /\ batch'.targets = ps /\ batch'.phase = "delete" /\ batch'.pending = NoBatch.pending
          /\ batch'.was = store /\ batch'.op = "deleteMany" /\ batch'.queue = ps
          /\ batch'.deleted = NoBatch.deleted /\ batch'.failed = NoBatch.failed
          /\ batch'.found = NoBatch.found /\ batch'.listed = NoBatch.listed
      BY ONLY <1>3, <3>1 DEF Batches
    <3> QED BY <1>3, <3>2
  <2> QED BY <2>1, <2>2, <2>3 DEF StartBatch
<1>5. BatchFacts(kind, store, call, batch')
  BY <1>1, <1>2, <1>4, BatchBegins
<1> QED BY <1>1, <1>5

\* The phase of a batch ends; all else is as it was.
LEMMA PhaseEnds ==
  ASSUME NEW k, NEW st, NEW calls, NEW b \in Batches, BatchShape(b), BatchFacts(k, st, calls, b),
         b.phase \in {"walk", "delete"}, Takers(calls) = {},
         NEW phase \in {"report", "rejected"},
         phase = "rejected" => b.phase = "walk",
         phase = "report" => IF b.op = "walk" THEN b.pending = {} ELSE b.phase = "delete" /\ b.queue = {}
  PROVE  BatchFacts(k, st, calls, [b EXCEPT !.phase = phase])
<1> DEFINE b1 == [b EXCEPT !.phase = phase]
<1>1. /\ b1.op = b.op /\ b1.targets = b.targets /\ b1.phase = phase
      /\ b1.pending = b.pending /\ b1.listed = b.listed /\ b1.found = b.found
      /\ b1.queue = b.queue /\ b1.deleted = b.deleted /\ b1.failed = b.failed
      /\ b1.was = b.was /\ b1.touched = b.touched
  BY DEF Batches
<1> HIDE DEF b1
<1>2. Handled(calls, b1) = Handled(calls, b) /\ OwnOf(b1) = OwnOf(b) /\ Sought(b1) = Sought(b)
  BY <1>1 DEF Handled, OwnOf, Sought
<1>3. Phased(calls, b1)
  BY <1>1 DEF BatchFacts, Phased, BatchShape
<1>4. OwnKept(k, st, calls, b1) /\ Aimed(calls, b1)
  BY <1>1, <1>2 DEF BatchFacts, OwnKept, Aimed
<1>5. Queued(calls, b1)
  BY <1>1, <1>2 DEF BatchFacts, Queued
<1>6. AllCleared(k, st, calls, b1)
  BY <1>1, <1>2 DEF BatchFacts, AllCleared, Cleared
<1>7. OnTheWay(k, b1) /\ PagesKept(b1)
  BY <1>1, <1>2 DEF BatchFacts, OnTheWay, PagesKept
<1>8. BatchFacts(k, st, calls, b1)
  BY <1>3, <1>4, <1>5, <1>6, <1>7 DEF BatchFacts
<1> QED BY <1>8 DEF b1

\* A walk ends when nothing is left to list; what it found for a deletion is
\* queued, and the path itself.
LEMMA WalkEndsSame ==
  ASSUME TypeOK, BatchFacts(kind, store, call, batch), ListFails \/ EndWalk \/ Report
  PROVE  BatchFacts(kind, store', call', batch')
<1>1. batch \in Batches /\ BatchShape(batch) /\ store' = store /\ call' = call
  BY DEF TypeOK, ListFails, EndWalk, Report
<1>2. CASE ListFails
  <2>1. batch.phase = "walk" /\ batch' = [batch EXCEPT !.phase = "rejected"] /\ Takers(call) = {}
    BY <1>2 DEF ListFails, BatchFacts, Phased
  <2>2. BatchFacts(kind, store, call, [batch EXCEPT !.phase = "rejected"])
    BY <1>1, <2>1, PhaseEnds
  <2> QED BY <1>1, <2>1, <2>2
<1>3. CASE Report
  <2>1. batch.phase = "delete" /\ batch.queue = {} /\ batch' = [batch EXCEPT !.phase = "report"]
        /\ Takers(call) = {}
    BY <1>3 DEF Report, Deleting, Takers
  <2>2. batch.op # "walk"
    BY <1>1, <2>1 DEF BatchShape
  <2>3. BatchFacts(kind, store, call, [batch EXCEPT !.phase = "report"])
    BY <1>1, <2>1, <2>2, PhaseEnds
  <2> QED BY <1>1, <2>1, <2>3
<1>4. CASE EndWalk
  <2>1. batch.phase = "walk" /\ batch.pending = {} /\ Takers(call) = {}
    BY <1>4 DEF EndWalk, BatchFacts, Phased
  <2>2. CASE batch.op = "walk"
    <3>1. batch' = [batch EXCEPT !.phase = "report"]
      BY <1>4, <2>2 DEF EndWalk
    <3>2. BatchFacts(kind, store, call, [batch EXCEPT !.phase = "report"])
      BY <1>1, <2>1, <2>2, PhaseEnds
    <3> QED BY <1>1, <3>1, <3>2
  <2>3. CASE batch.op # "walk"
    <3> DEFINE b1 == [batch EXCEPT !.phase = "delete", !.queue = batch.found \cup batch.targets]
    <3>1. batch' = b1
      BY <1>4, <2>3 DEF EndWalk
    <3>2. /\ b1.op = batch.op /\ b1.targets = batch.targets /\ b1.phase = "delete"
          /\ b1.pending = batch.pending /\ b1.listed = batch.listed /\ b1.found = batch.found
          /\ b1.queue = batch.found \cup batch.targets
          /\ b1.deleted = batch.deleted /\ b1.failed = batch.failed
          /\ b1.was = batch.was /\ b1.touched = batch.touched
      BY <1>1 DEF Batches
    <3> HIDE DEF b1
    <3>3. Handled(call, b1) = Handled(call, batch) /\ OwnOf(b1) = OwnOf(batch)
          /\ Sought(b1) = Sought(batch)
      BY <3>2 DEF Handled, OwnOf, Sought
    <3>4. Phased(call, b1)
      BY <2>1, <2>3, <3>2 DEF BatchFacts, Phased
    <3>5. OwnKept(kind, store, call, b1)
      BY <2>1, <3>2, <3>3 DEF BatchFacts, OwnKept
    <3>6. Aimed(call, b1)
      <4>1. batch.op # "deleteMany"
        BY <2>1 DEF BatchFacts, Phased
      <4>2. \A p \in batch.targets : IsPrefix(p, p)
        BY <1>1, Targets DEF Batches
      <4> QED BY <3>2, <3>3, <4>1, <4>2 DEF BatchFacts, Aimed
    <3>7. Queued(call, b1)
      BY <3>2 DEF Queued
    <3>8. AllCleared(kind, store, call, b1)
      BY <3>2, <3>3 DEF BatchFacts, AllCleared, Cleared
    <3>9. OnTheWay(kind, b1) /\ PagesKept(b1)
      BY <2>1, <3>2, <3>3 DEF BatchFacts, OnTheWay, PagesKept
    <3>10. BatchFacts(kind, store, call, b1)
      BY <3>4, <3>5, <3>6, <3>7, <3>8, <3>9 DEF BatchFacts
    <3> QED BY <1>1, <3>1, <3>10
  <2> QED BY <2>2, <2>3
<1> QED BY <1>2, <1>3, <1>4

\* What is sought is stored, and what is above it can be listed and looks like
\* a folder.
LEMMA SoughtSeen ==
  ASSUME TypeOK, LaidOut, BatchFacts(kind, store, call, batch), batch.phase = "walk",
         NEW q \in Sought(batch)
  PROVE  /\ q \in Paths /\ q \in Seq(Names) /\ Len(q) \in Nat \ {0} /\ store[q] # None
         /\ \A x \in Paths : IsStrictPrefix(x, q) => LooksLikeFolder(x)
         /\ \A i \in 0..(Len(q) - 1) :
              /\ InFolders => IsFolder(Upper(q, i))
              /\ ~TakenForParent(Upper(q, i), Upper(q, i + 1)) =>
                   Upper(q, i + 1) \in Listed(Upper(q, i))
<1>1. q \in Paths /\ q \in OwnOf(batch) /\ batch.was[q] \in Contents
  BY DEF Sought, OwnOf
<1>2. q \in Seq(Names) /\ Len(q) \in Nat \ {0} /\ q = Upper(q, Len(q))
  BY <1>1, PathsAre, FrontIs
<1>3. store[q] # None
  <2>1. Handled(call, batch) = {}
    BY DEF Handled, BatchFacts, Phased
  <2>2. store[q] = batch.was[q]
    BY <1>1, <2>1 DEF BatchFacts, OwnKept
  <2> QED BY <1>1, <2>2, Different
<1>4. \A x \in Paths : IsStrictPrefix(x, q) => (InFolders => store[x] = Folder) /\ Holds(x)
  <2> SUFFICES ASSUME NEW x \in Paths, IsStrictPrefix(x, q)
               PROVE  (InFolders => store[x] = Folder) /\ Holds(x)
    OBVIOUS
  <2>1. Holds(x)
    BY <1>1, <1>3 DEF Holds, Below
  <2>2. InFolders => store[x] = Folder
    BY <1>1, <1>3, AboveIsFolder, ScopeIs DEF LaidOut
  <2> QED BY <2>1, <2>2
<1>5. \A x \in Paths : IsStrictPrefix(x, q) => LooksLikeFolder(x)
  BY <1>4 DEF LooksLikeFolder, IsFolder
<1>6. ASSUME NEW i \in 0..(Len(q) - 1)
      PROVE  /\ InFolders => IsFolder(Upper(q, i))
             /\ ~TakenForParent(Upper(q, i), Upper(q, i + 1)) =>
                  Upper(q, i + 1) \in Listed(Upper(q, i))
  <2>1. i \in 0..Len(q) /\ i + 1 \in 1..Len(q) /\ i + 1 \in 0..Len(q) /\ (i + 1) - 1 = i
    BY <1>2
  <2>2. Upper(q, i + 1) \in Paths /\ Front(Upper(q, i + 1)) = Upper(q, i)
    BY <1>1, <1>2, <2>1, UpperPaths, FrontUpper
  <2>3. store[Upper(q, i + 1)] # None \/ Holds(Upper(q, i + 1))
    <3>1. CASE i + 1 = Len(q)
      BY <1>2, <1>3, <3>1
    <3>2. CASE i + 1 # Len(q)
      <4>1. IsPrefix(Upper(q, i + 1), q) /\ Len(Upper(q, i + 1)) = i + 1
        BY <1>2, <2>1, UpperIs
      <4>2. IsStrictPrefix(Upper(q, i + 1), q)
        BY <3>2, <4>1 DEF IsStrictPrefix
      <4> QED BY <1>4, <2>2, <4>2
    <3> QED BY <3>1, <3>2
  <2>4. InFolders => IsFolder(Upper(q, i))
    <3>1. CASE i = 0
      <4>1. Len(Upper(q, i)) = 0 /\ Upper(q, i) \in Seq(Names)
        BY <1>2, <2>1, <3>1, UpperIs
      <4>2. Upper(q, i) = <<>>
        BY <4>1, EmptySeq
      <4> QED BY <4>2 DEF IsFolder
    <3>2. CASE i # 0
      <4>1. i \in 1..(Len(q) - 1)
        BY <3>2
      <4>2. InFolders => store[Upper(q, i)] = Folder
        BY <1>1, <1>3, <4>1, FoldersAbove, ScopeIs DEF LaidOut
      <4> QED BY <4>2 DEF IsFolder
    <3> QED BY <3>1, <3>2
  <2> QED BY <2>2, <2>3, <2>4 DEF Listed
<1> QED BY <1>1, <1>2, <1>3, <1>5, <1>6

\* The batch b that goes on after a page of the folder p, the last one when it
\* is all the rest.
Turns(b, p, page, rest) ==
  /\ page \subseteq Paths
  /\ page = rest /\ (InFolders => IsFolder(p)) => Listed(p) \subseteq page \cup batch.listed
  /\ b.phase = "walk" /\ b.op = batch.op /\ b.targets = batch.targets /\ b.was = batch.was
  /\ b.touched = batch.touched /\ b.found = batch.found \cup page
  /\ \A x : /\ x \in batch.pending \/ (x \in page /\ LooksLikeFolder(x))
            /\ page # rest \/ x # p
            => x \in b.pending
  /\ page # rest => b.listed = batch.listed \cup page
  /\ page = rest => b.listed = {}

\* A page of a folder takes the walk on: what was to be found below the folder
\* is found, or what is to be listed is nearer to it.
LEMMA PageWalks ==
  ASSUME TypeOK, LaidOut, BatchFacts(kind, store, call, batch), batch.phase = "walk",
         NEW p \in batch.pending, NEW rest, NEW page, NEW b, Turns(b, p, page, rest)
  PROVE  OnTheWay(kind, b) /\ PagesKept(b)
<1> USE DEF Turns
<1>1. Sought(b) = Sought(batch)
  BY DEF Sought, OwnOf
<1>2. PagesKept(b)
  <2> SUFFICES ASSUME NEW x \in b.listed
               PROVE  x \in b.found /\ \A q \in Sought(b) : IsStrictPrefix(x, q) => x \in b.pending
    BY DEF PagesKept
  <2>1. page # rest /\ (x \in batch.listed \/ x \in page) /\ batch.pending \subseteq b.pending
    OBVIOUS
  <2>2. CASE x \in batch.listed
    BY <1>1, <2>1, <2>2 DEF BatchFacts, PagesKept
  <2>3. CASE x \in page
    <3>1. x \in Paths
      BY <2>3 DEF Listed
    <3>2. ASSUME NEW q \in Sought(b), IsStrictPrefix(x, q) PROVE x \in b.pending
      BY <1>1, <2>1, <2>3, <3>1, <3>2, SoughtSeen
    <3> QED BY <2>3, <3>2
  <2> QED BY <2>1, <2>2, <2>3
<1>3. OnTheWay(kind, b)
  <2> SUFFICES ASSUME b.op # "deleteMany", NEW q \in Sought(batch), q \notin b.found, ~Skipped(kind, q)
               PROVE  \E i \in 0..(Len(q) - 1) : SubSeq(q, 1, i) \in b.pending
    BY <1>1 DEF OnTheWay
  <2>1. PICK i \in 0..(Len(q) - 1) : SubSeq(q, 1, i) \in batch.pending
    BY DEF BatchFacts, OnTheWay
  <2>2. CASE SubSeq(q, 1, i) # p \/ page # rest
    BY <2>1, <2>2
  <2>3. CASE SubSeq(q, 1, i) = p /\ page = rest
    <3> DEFINE u == Upper(q, i + 1)
    <3>1. q \in Paths /\ q \in Seq(Names) /\ Len(q) \in Nat \ {0}
      BY SoughtSeen
    <3>2. i + 1 \in 1..Len(q) /\ i \in 0..Len(q) /\ i + 1 \in 0..Len(q) /\ (i + 1) - 1 = i
      BY <3>1
    <3>3. Upper(q, i) = p
      BY <2>3 DEF Upper
    <3>4. u \in Paths /\ Len(u) = i + 1 /\ Len(p) = i /\ u # p /\ IsPrefix(u, q)
      <4>1. Len(p) = i
        BY <3>1, <3>2, <3>3, UpperIs
      <4>2. Len(u) = i + 1 /\ IsPrefix(u, q)
        BY <3>1, <3>2, UpperIs
      <4>3. u \in Paths
        BY <3>1, <3>2, UpperPaths
      <4>4. i + 1 # i
        BY <3>2
      <4> HIDE DEF u
      <4> QED BY <4>1, <4>2, <4>3, <4>4
    <3>5. ~TakenForParent(Upper(q, i), Upper(q, i + 1))
      BY <3>2 DEF Skipped, TakenIs, TakenForParent, Upper
    <3>6. u \in Listed(p) /\ (InFolders => IsFolder(p))
      BY <3>3, <3>5, SoughtSeen
    <3>7. u \in page \/ u \in batch.listed
      BY <2>3, <3>6
    <3>8. u \in b.found
      BY <3>7 DEF BatchFacts, PagesKept
    <3>9. IsStrictPrefix(u, q)
      BY <3>4, <3>8 DEF IsStrictPrefix
    <3>10. u \in b.pending
      <4>1. u \in page => LooksLikeFolder(u)
        BY <3>4, <3>9, SoughtSeen
      <4>2. u \in batch.listed => u \in batch.pending
        BY <3>9 DEF BatchFacts, PagesKept
      <4> QED BY <2>3, <3>4, <3>7, <4>1, <4>2
    <3>11. i + 1 \in 0..(Len(q) - 1)
      <4>1. i + 1 # Len(q)
        <5>1. q = Upper(q, Len(q)) /\ u # q
          BY <3>1, <3>9, FrontIs DEF IsStrictPrefix
        <5> QED BY <5>1
      <4> QED BY <3>1, <3>2, <4>1
    <3> QED BY <3>10, <3>11 DEF Upper
  <2> QED BY <2>2, <2>3
<1> QED BY <1>2, <1>3

\* A page that is listed: nothing else of the batch changes.
LEMMA PageListed ==
  ASSUME TypeOK, LaidOut, BatchFacts(kind, store, call, batch), batch.phase = "walk",
         NEW p \in batch.pending,
         NEW rest, rest = IF InFolders /\ ~IsFolder(p) THEN {} ELSE Listed(p) \ batch.listed,
         NEW page \in SUBSET rest, NEW b,
         b = [batch EXCEPT
                !.found = @ \cup page,
                !.pending = (@ \cup {q \in page : LooksLikeFolder(q)})
                            \ (IF page = rest THEN {p} ELSE {}),
                !.listed = IF page = rest THEN {} ELSE @ \cup page]
  PROVE  BatchFacts(kind, store, call, b)
<1>1. page \subseteq Paths /\ \A x \in page : Front(x) = p
  BY DEF Listed
<1>2. batch \in Batches
  BY DEF TypeOK
<1> DEFINE found == batch.found \cup page
           pending == (batch.pending \cup {q \in page : LooksLikeFolder(q)})
                      \ (IF page = rest THEN {p} ELSE {})
           listed == IF page = rest THEN {} ELSE batch.listed \cup page
<1>3. /\ found \in SUBSET Paths /\ pending \in SUBSET (Paths \cup {<<>>})
      /\ listed \in SUBSET Paths
  BY <1>1, <1>2 DEF Batches
<1>4. b = [batch EXCEPT !.found = found, !.pending = pending, !.listed = listed]
  OBVIOUS
<1> HIDE DEF found, pending, listed
<1>5. /\ b \in Batches /\ b.op = batch.op /\ b.targets = batch.targets /\ b.phase = batch.phase
      /\ b.queue = batch.queue /\ b.deleted = batch.deleted /\ b.failed = batch.failed
      /\ b.was = batch.was /\ b.touched = batch.touched
      /\ b.found = found /\ b.pending = pending /\ b.listed = listed
  BY ONLY <1>2, <1>3, <1>4 DEF Batches
<1>6. OnTheWay(kind, b) /\ PagesKept(b)
  <2>1. b.found = batch.found \cup page /\ b.phase = "walk" /\ page \in SUBSET Paths
    BY <1>1, <1>5 DEF found
  <2>2. \A x : /\ x \in batch.pending \/ (x \in page /\ LooksLikeFolder(x))
               /\ page # rest \/ x # p
               => x \in b.pending
    BY <1>5 DEF pending
  <2>3. /\ page # rest => b.listed = batch.listed \cup page
        /\ page = rest => b.listed = {}
    BY <1>5 DEF listed
  <2>4. page = rest /\ (InFolders => IsFolder(p)) => Listed(p) \subseteq page \cup batch.listed
    OBVIOUS
  <2>5. Turns(b, p, page, rest)
    BY <1>5, <2>1, <2>2, <2>3, <2>4 DEF Turns
  <2> QED BY <2>5, PageWalks
<1>7. Handled(call, b) = Handled(call, batch) /\ OwnOf(b) = OwnOf(batch)
  BY <1>5 DEF Handled, OwnOf
<1>8. Phased(call, b)
  BY <1>5 DEF BatchFacts, Phased
<1>9. OwnKept(kind, store, call, b)
  BY <1>5, <1>7 DEF BatchFacts, OwnKept
<1>10. Aimed(call, b)
  <2>1. batch.op # "deleteMany"
    BY DEF BatchFacts, Phased
  <2>2. PICK t \in batch.targets : IsPrefix(t, p)
    BY <2>1 DEF BatchFacts, Aimed
  <2>3. t \in Seq(Names) /\ p \in Seq(Names)
    BY <1>2, Targets DEF Batches
  <2>4. ASSUME NEW x \in page PROVE IsPrefix(t, x)
    <3>1. x \in Seq(Names) /\ IsPrefix(p, x)
      BY <1>1, FrontIs, PathsAre
    <3> QED BY <2>2, <2>3, <3>1, PrefixOrder
  <2>5. found \subseteq batch.found \cup page /\ pending \subseteq batch.pending \cup page
    BY DEF found, pending
  <2>6. \A h \in batch.pending \cup batch.found \cup batch.queue \cup Handled(call, batch) :
          \E s \in batch.targets : IsPrefix(s, h)
    BY <2>1 DEF BatchFacts, Aimed
  <2>7. \A h \in b.pending \cup b.found \cup b.queue \cup Handled(call, b) :
          \E s \in b.targets : IsPrefix(s, h)
    BY <1>5, <1>7, <2>4, <2>5, <2>6
  <2> QED BY <1>5, <2>1, <2>7 DEF Aimed
<1>11. Queued(call, b)
  BY <1>5 DEF Queued
<1>12. AllCleared(kind, store, call, b)
  BY <1>5, <1>7 DEF BatchFacts, AllCleared, Cleared
<1> QED BY <1>6, <1>8, <1>9, <1>10, <1>11, <1>12 DEF BatchFacts

\* One call of list, or one page of it.
LEMMA ListNextSame ==
  ASSUME TypeOK, LaidOut, BatchFacts(kind, store, call, batch), ListNext
  PROVE  BatchFacts(kind, store', call', batch')
<1>1. /\ batch \in Batches /\ BatchShape(batch) /\ batch.phase = "walk"
      /\ store' = store /\ call' = call
  BY DEF TypeOK, ListNext
<1>2. PICK p \in batch.pending :
        IF InFolders /\ p # <<>> /\ (store[p] = None \/ (kind = "local" /\ IsFile(p)))
        THEN batch' = [batch EXCEPT !.phase = "rejected"]
        ELSE LET rest == IF InFolders /\ ~IsFolder(p) THEN {} ELSE Listed(p) \ batch.listed
             IN  \E page \in IF kind = "s3" THEN SUBSET rest ELSE {rest} :
                   /\ page # {} \/ rest = {}
                   /\ batch' = [batch EXCEPT
                        !.found = @ \cup page,
                        !.pending = (@ \cup {q \in page : LooksLikeFolder(q)})
                                    \ (IF page = rest THEN {p} ELSE {}),
                        !.listed = IF page = rest THEN {} ELSE @ \cup page]
  BY DEF ListNext
<1>3. CASE batch' = [batch EXCEPT !.phase = "rejected"]
  <2>1. Takers(call) = {}
    BY <1>1 DEF BatchFacts, Phased
  <2>2. BatchFacts(kind, store, call, [batch EXCEPT !.phase = "rejected"])
    BY <1>1, <2>1, PhaseEnds
  <2> QED BY <1>1, <1>3, <2>2
<1>4. CASE ~(InFolders /\ p # <<>> /\ (store[p] = None \/ (kind = "local" /\ IsFile(p))))
  <2> DEFINE rest == IF InFolders /\ ~IsFolder(p) THEN {} ELSE Listed(p) \ batch.listed
  <2>1. PICK page \in IF kind = "s3" THEN SUBSET rest ELSE {rest} :
          batch' = [batch EXCEPT
               !.found = @ \cup page,
               !.pending = (@ \cup {q \in page : LooksLikeFolder(q)})
                           \ (IF page = rest THEN {p} ELSE {}),
               !.listed = IF page = rest THEN {} ELSE @ \cup page]
    BY <1>2, <1>4
  <2>2. page \in SUBSET rest /\ rest = IF InFolders /\ ~IsFolder(p) THEN {} ELSE Listed(p) \ batch.listed
    OBVIOUS
  <2> HIDE DEF rest
  <2> QED BY <1>1, <2>1, <2>2, PageListed
<1> QED BY <1>2, <1>3, <1>4

-----------------------------------------------------------------------------
(* The inductive invariant of the types that local records.                *)

\* Where calls come one after the other, one that is under way is alone.
Alone(calls, b) ==
  \A c \in Worker : UnderWay(calls[c]) /\ ~calls[c].ofBatch =>
    b.phase \notin {"walk", "delete"} /\ \A d \in Worker : d # c => ~UnderWay(calls[d])

\* A file whose type is not astray.
Sure(st, ast, p) == st[p] \in Contents /\ p \notin ast

\* The type of every such file is recorded, or about to be.
Recorded(st, sc, ast, calls) ==
  \A p \in Paths : Sure(st, ast, p) =>
    sc[p] = st[p] \/ \E c \in Worker : calls[c].pc = "sidecar" /\ calls[c].to = p

\* What a call that has yet to write a sidecar, or to remove one, will find.
ToRecord(st, sc, ast, rec) ==
  /\ rec.pc = "sidecar" =>
       /\ Sure(st, ast, rec.to) =>
            st[rec.to] = IF rec.op = "upload" THEN rec.content ELSE sc[rec.path]
       /\ rec.op = "move" => ~Sure(st, ast, rec.path)
  /\ rec.pc = "unsidecar" => ~Sure(st, ast, rec.path)

Types(st, sc, ast, calls, b) ==
  /\ Alone(calls, b)
  /\ Recorded(st, sc, ast, calls)
  /\ \A c \in Worker : ToRecord(st, sc, ast, calls[c])

TypesInv == kind = "local" /\ calm => Types(store, sidecar, astray, call, batch)

\* The types that are recorded when one call alone has yet to record one.
OwnRecord(st, sc, ast, rec) ==
  \A p \in Paths : Sure(st, ast, p) => sc[p] = st[p] \/ (rec.pc = "sidecar" /\ rec.to = p)

\* A call that is alone knows what is not recorded.
LEMMA LoneCall ==
  ASSUME NEW st, NEW sc, NEW ast, NEW calls, NEW b, Types(st, sc, ast, calls, b), NEW c \in Worker,
         UnderWay(calls[c]), ~calls[c].ofBatch
  PROVE  /\ OwnRecord(st, sc, ast, calls[c]) /\ ToRecord(st, sc, ast, calls[c])
         /\ b.phase \notin {"walk", "delete"}
         /\ \A d \in Worker : d # c => ~UnderWay(calls[d])
<1>1. b.phase \notin {"walk", "delete"} /\ \A d \in Worker : d # c => ~UnderWay(calls[d])
  BY DEF Types, Alone
<1>2. \A d \in Worker : d # c => calls[d].pc # "sidecar"
  BY <1>1 DEF UnderWay
<1>3. OwnRecord(st, sc, ast, calls[c])
  BY <1>2 DEF Types, Recorded, OwnRecord
<1> QED BY <1>1, <1>3 DEF Types

\* A step of a call while no other is under way.
LEMMA LoneStep ==
  ASSUME NEW st1, NEW sc1, NEW ast, NEW calls, NEW calls1, NEW b1, NEW c \in Worker,
         \A d \in Worker : d # c => ~UnderWay(calls[d]) /\ SameCall(calls[d], calls1[d]),
         b1.phase \notin {"walk", "delete"},
         ToRecord(st1, sc1, ast, calls1[c]), OwnRecord(st1, sc1, ast, calls1[c])
  PROVE  Types(st1, sc1, ast, calls1, b1)
<1>1. \A d \in Worker : d # c => ~UnderWay(calls1[d])
  BY DEF SameCall, UnderWay
<1>2. Alone(calls1, b1)
  BY <1>1 DEF Alone
<1>3. Recorded(st1, sc1, ast, calls1)
  BY DEF Recorded, OwnRecord
<1>4. ASSUME NEW d \in Worker PROVE ToRecord(st1, sc1, ast, calls1[d])
  <2>1. CASE d = c
    BY <2>1
  <2>2. CASE d # c
    BY <1>1, <2>2 DEF ToRecord, UnderWay
  <2> QED BY <2>1, <2>2
<1> QED BY <1>2, <1>3, <1>4 DEF Types

\* While a batch is under way no call but its own is.
LEMMA BatchAlone ==
  ASSUME NEW calls, NEW b, Alone(calls, b), b.phase \in {"walk", "delete"}, NEW d \in Worker,
         UnderWay(calls[d])
  PROVE  calls[d].ofBatch
BY DEF Alone

\* No file is new, and the types of those that are left are what they were.
NothingAdded(st, st1, sc, sc1, ast) ==
  \A p \in Paths : Sure(st1, ast, p) => st1[p] = st[p] /\ sc1[p] = sc[p]

\* A step of one of its calls.
LEMMA BatchStep ==
  ASSUME NEW st, NEW st1, NEW sc, NEW sc1, NEW ast, NEW calls, NEW calls1, NEW b, NEW b1, NEW c \in Worker,
         Types(st, sc, ast, calls, b), b.phase \in {"walk", "delete"},
         \A d \in Worker : calls[d].pc # "sidecar" /\ (calls[d].pc # "idle" => calls[d].path \in Paths),
         \A d \in Worker : d # c => SameCall(calls[d], calls1[d]),
         calls1[c].ofBatch \/ ~UnderWay(calls1[c]), calls1[c].pc # "sidecar",
         NothingAdded(st, st1, sc, sc1, ast),
         calls1[c].pc = "unsidecar" => ~Sure(st1, ast, calls1[c].path)
  PROVE  Types(st1, sc1, ast, calls1, b1)
<1> USE DEF NothingAdded, Sure
<1>1. \A d \in Worker : UnderWay(calls1[d]) => calls1[d].ofBatch
  <2> SUFFICES ASSUME NEW d \in Worker, UnderWay(calls1[d]) PROVE calls1[d].ofBatch
    OBVIOUS
  <2>1. CASE d = c
    BY <2>1
  <2>2. CASE d # c
    <3>1. UnderWay(calls[d]) /\ calls1[d].ofBatch = calls[d].ofBatch
      BY <2>2 DEF SameCall, UnderWay
    <3> QED BY <3>1, BatchAlone DEF Types
  <2> QED BY <2>1, <2>2
<1>2. Alone(calls1, b1)
  BY <1>1 DEF Alone
<1>3. \A p \in Paths : Sure(st, ast, p) => sc[p] = st[p]
  BY DEF Types, Recorded
<1>4. Recorded(st1, sc1, ast, calls1)
  BY <1>3 DEF Recorded
<1>5. ASSUME NEW d \in Worker PROVE ToRecord(st1, sc1, ast, calls1[d])
  <2>1. CASE d = c
    BY <2>1 DEF ToRecord
  <2>2. CASE d # c
    <3>1. calls1[d].pc = calls[d].pc /\ calls1[d].path = calls[d].path /\ calls[d].pc # "sidecar"
      BY <2>2 DEF SameCall
    <3>2. calls[d].pc = "unsidecar" => calls[d].path \in Paths /\ ~Sure(st, ast, calls[d].path)
      BY DEF Types, ToRecord
    <3>3. calls[d].pc = "unsidecar" => ~Sure(st1, ast, calls[d].path)
      BY <3>2
    <3> QED BY <3>1, <3>3 DEF ToRecord
  <2> QED BY <2>1, <2>2
<1> QED BY <1>2, <1>4, <1>5 DEF Types

\* A step that calls do not see, while none is under way but a batch's.
LEMMA QuietStep ==
  ASSUME NEW st, NEW sc, NEW ast, NEW calls, NEW b, NEW b1, Types(st, sc, ast, calls, b),
         \A c \in Worker : UnderWay(calls[c]) => calls[c].ofBatch
  PROVE  Types(st, sc, ast, calls, b1)
BY DEF Types, Alone

-----------------------------------------------------------------------------
(* The steps of calls that come one after the other.                       *)

\* A step of a call that is alone.
LEMMA Lonely ==
  ASSUME TypeOK, TypeOK', Types(store, sidecar, astray, call, batch), NEW c \in Worker, UnderWay(call[c]),
         ~call[c].ofBatch, Steps(c),
         ToRecord(store', sidecar', astray', call'[c]), OwnRecord(store', sidecar', astray', call'[c])
  PROVE  Types(store', sidecar', astray', call', batch')
<1>1. /\ call \in [Worker -> Calls] /\ batch \in Batches /\ call'[c] \in Calls /\ Become(c, call'[c])
  BY DEF TypeOK, Steps
<1>2. \A d \in Worker : d # c => SameCall(call[d], call'[d])
  <2>1. \A d \in Worker : d # c => Told(call[d], call'[d], ChangedBy(store, store'))
    BY <1>1, BecomeDoes
  <2> QED BY <2>1 DEF Told
<1>3. batch.phase \notin {"walk", "delete"} /\ \A d \in Worker : d # c => ~UnderWay(call[d])
  BY LoneCall
<1> DEFINE more == IF batch.was = <<>> THEN batch.touched ELSE batch.touched \cup ChangedBy(store, store')
<1>4. batch' = [batch EXCEPT !.touched = more]
  BY <1>1 DEF Become, ChangedBy
<1>5. batch'.phase = batch.phase
  <2> HIDE DEF more
  <2> QED BY <1>1, <1>4 DEF Batches
<1> HIDE DEF more
<1> QED BY <1>2, <1>3, <1>5, LoneStep

\* A request that is answered while all is calm was not retried.
LEMMA CalmAnswer ==
  ASSUME NEW c \in Worker, NEW next, calm', Answered(c, next)
  PROVE  call'[c] = next /\ astray' = Strays(call[c])
<1>1. Become(c, next) /\ astray' = Strays(call[c])
  BY DEF Answered, Spend
<1> QED BY <1>1 DEF Become

\* A call that records nothing, and stores nothing new.
LEMMA NothingNew ==
  ASSUME NEW st, NEW st1, NEW sc, NEW ast, NEW rec, NEW new, OwnRecord(st, sc, ast, rec),
         rec.pc # "sidecar", new.pc \notin {"sidecar", "unsidecar"},
         \A p \in Paths : st1[p] \in Contents => st1[p] = st[p]
  PROVE  ToRecord(st1, sc, ast, new) /\ OwnRecord(st1, sc, ast, new)
BY DEF ToRecord, OwnRecord, Sure

\* One that is refused.
LEMMA RefusedRecords ==
  ASSUME TypeOK, NEW c \in Worker, Refused(c), sidecar' = sidecar, call[c].pc # "sidecar",
         OwnRecord(store, sidecar, astray, call[c])
  PROVE  ToRecord(store', sidecar', astray', call'[c]) /\ OwnRecord(store', sidecar', astray', call'[c])
<1>1. call'[c] = Done(call[c], "error") /\ store' = store /\ astray' = astray /\ call[c] \in Calls
  BY DEF Refused, Become, TypeOK
<1>2. call'[c].pc = "done"
  BY <1>1, GoesOn
<1>3. ToRecord(store, sidecar, astray, call'[c]) /\ OwnRecord(store, sidecar, astray, call'[c])
  BY <1>2, NothingNew
<1> QED BY <1>1, <1>3

\* Folders have no types.
LEMMA MakeFoldersRecords ==
  ASSUME TypeOK, calm', NEW c \in Worker, OwnRecord(store, sidecar, astray, call[c]), MakeFolders(c)
  PROVE  ToRecord(store', sidecar', astray', call'[c]) /\ OwnRecord(store', sidecar', astray', call'[c])
<1> DEFINE rec == call[c]
           upto == IF kind = "local" THEN Parents(rec) ELSE Min({rec.k + 1, Parents(rec)})
           made == {SubSeq(rec.to, 1, i) : i \in 1..upto}
           next == IF upto < Parents(rec) THEN [rec EXCEPT !.k = upto]
                   ELSE IF rec.op = "createFolder" THEN Done(rec, "ok") ELSE Go(rec, "act")
<1>1. /\ rec.pc = "folders" /\ sidecar' = sidecar
      /\ \/ Refused(c)
         \/ /\ store' = [q \in Paths |-> IF q \in made /\ store[q] = None THEN Folder ELSE store[q]]
            /\ Answered(c, next)
  BY DEF MakeFolders
<1>2. rec \in Calls
  BY DEF TypeOK
<1>3. CASE Refused(c)
  BY <1>1, <1>3, RefusedRecords
<1>4. CASE ~Refused(c)
  <2> HIDE DEF made
  <2>1. \A p \in Paths : store'[p] \in Contents => store'[p] = store[p]
    BY <1>1, <1>4, Different
  <2>2. next.pc \notin {"sidecar", "unsidecar"}
    <3> HIDE DEF upto, rec
    <3>1. next \in {[rec EXCEPT !.k = upto], Done(rec, "ok"), Go(rec, "act")}
      OBVIOUS
    <3> HIDE DEF next
    <3>2. [rec EXCEPT !.k = upto].pc = "folders"
      BY <1>1, <1>2 DEF Calls
    <3> QED BY <1>2, <3>1, <3>2, GoesOn
  <2> HIDE DEF next
  <2>3. call'[c] = next /\ astray' = Strays(rec)
    BY <1>1, <1>4, CalmAnswer
  <2>4. astray' = astray
    BY <1>1, <2>3 DEF Strays
  <2>5. ToRecord(store', sidecar, astray, next) /\ OwnRecord(store', sidecar, astray, next)
    BY <1>1, <2>1, <2>2, NothingNew
  <2> QED BY <1>1, <2>3, <2>4, <2>5
<1> QED BY <1>3, <1>4

\* What was uploaded has yet to be recorded.
LEMMA UploadRecords ==
  ASSUME TypeOK, kind = "local", calm', NEW c \in Worker, OwnRecord(store, sidecar, astray, call[c]),
         Upload(c)
  PROVE  ToRecord(store', sidecar', astray', call'[c]) /\ OwnRecord(store', sidecar', astray', call'[c])
<1> DEFINE rec == call[c]
<1>1. /\ rec.pc = "act" /\ rec.op = "upload" /\ sidecar' = sidecar
      /\ \/ Refused(c)
         \/ store' = [store EXCEPT ![rec.to] = rec.content] /\ Answered(c, Go(rec, "sidecar"))
  BY DEF Upload
<1>2. rec \in Calls /\ Shape(kind, rec) /\ store \in Stored
  BY DEF TypeOK
<1>3. CASE Refused(c)
  BY <1>1, <1>3, RefusedRecords
<1>4. CASE ~Refused(c)
  <2> DEFINE next == Go(rec, "sidecar")
  <2>1. /\ next.pc = "sidecar" /\ next.op = "upload" /\ next.to = rec.to
        /\ next.content = rec.content
    BY <1>1, <1>2, GoesOn
  <2>2. rec.to \in Paths
    BY <1>1, <1>2 DEF Shape
  <2>3. call'[c] = next /\ astray' = Strays(rec)
    BY <1>1, <1>4, CalmAnswer
  <2>4. \A p \in Paths : store'[p] = IF p = rec.to THEN rec.content ELSE store[p]
    BY <1>1, <1>2, <1>4 DEF Stored
  <2> HIDE DEF next, rec
  <2>5. astray' = astray \ {rec.to}
    BY <1>1, <2>3 DEF Strays
  <2>6. ToRecord(store', sidecar, astray', next)
    BY <2>1, <2>2, <2>4 DEF ToRecord
  <2>7. OwnRecord(store', sidecar, astray', next)
    BY <1>1, <2>1, <2>4, <2>5 DEF OwnRecord, Sure, rec
  <2> QED BY <1>1, <2>3, <2>6, <2>7
<1> QED BY <1>3, <1>4

\* What is deleted needs no type.
LEMMA DeleteRecords ==
  ASSUME TypeOK, kind = "local", calm', NEW c \in Worker, OwnRecord(store, sidecar, astray, call[c]),
         Delete(c)
  PROVE  ToRecord(store', sidecar', astray', call'[c]) /\ OwnRecord(store', sidecar', astray', call'[c])
<1> DEFINE rec == call[c]
           next == Go(rec, "unsidecar")
<1>1. /\ rec.pc = "act" /\ rec.op = "delete" /\ sidecar' = sidecar
      /\ store' = [q \in Paths |-> IF q \in Scope(rec.path) THEN None ELSE store[q]]
      /\ Answered(c, next)
  BY DEF Delete
<1>2. rec \in Calls /\ Shape(kind, rec)
  BY DEF TypeOK
<1>3. next.pc = "unsidecar" /\ next.path = rec.path
  BY <1>1, <1>2, GoesOn
<1>4. rec.path \in Paths /\ rec.path \in Scope(rec.path)
  BY <1>1, <1>2, PathsAre DEF Shape
<1>5. call'[c] = next /\ astray' = astray
  BY <1>1, CalmAnswer DEF Strays
<1> HIDE DEF next, rec
<1>6. store'[rec.path] \notin Contents
  BY <1>1, <1>4, Different
<1>7. ToRecord(store', sidecar, astray, next)
  BY <1>3, <1>6 DEF ToRecord, Sure
<1>8. OwnRecord(store', sidecar, astray, next)
  <2>1. \A p \in Paths : store'[p] \in Contents => store'[p] = store[p]
    BY <1>1, Different
  <2> QED BY <1>1, <2>1 DEF OwnRecord, Sure, rec
<1> QED BY <1>1, <1>5, <1>7, <1>8

\* A file that a copy or a move leaves, and whose type is not astray, was there
\* before, or is the one that was copied or moved.
LEMMA TypeCarried ==
  ASSUME kind = "local", NEW rec, rec.path \in Paths, rec.to \in Paths, rec.pc = "act",
         rec.op \in {"copy", "move"}, Fits(rec), OwnRecord(store, sidecar, astray, rec),
         NEW r \in Paths, Placed(rec)[r] \in Contents, r \notin Strays(rec)
  PROVE  Placed(rec)[r] = IF r = rec.to THEN sidecar[rec.path] ELSE sidecar[r]
<1>1. r \notin Uncarried(rec) /\ (r # rec.to => r \notin astray)
  BY DEF Strays
<1>2. \A p \in Paths : Sure(store, astray, p) => sidecar[p] = store[p]
  BY DEF OwnRecord
<1>3. rec.path \in Source(rec)
  BY PathsAre DEF Source, Fits
<1>4. CASE rec.path = rec.to
  <2>1. r # rec.to
    BY <1>1, <1>4 DEF Uncarried
  <2>2. Placed(rec)[r] = store[r]
    <3>1. ASSUME r \in Images(rec) PROVE Placed(rec)[r] = store[r]
      <4>1. PICK q \in Source(rec) : r = Image(rec.path, rec.path, q)
        BY <1>4, <3>1 DEF Images
      <4>2. q \in Within(rec.path)
        BY <4>1, PathsAre DEF Source
      <4>3. r = q
        BY <4>1, <4>2, ImageSame
      <4>4. Image(rec.path, rec.to, q) = q
        BY <1>4, <4>1, <4>3
      <4>5. Placed(rec)[Image(rec.path, rec.to, q)] = store[q]
        BY PlacedIs
      <4> QED BY <4>3, <4>4, <4>5
    <3> QED BY <3>1, PlacedIs
  <2> QED BY <1>1, <1>2, <2>1, <2>2 DEF Sure
<1>5. CASE rec.path # rec.to /\ r \in Images(rec)
  <2>1. r = rec.to /\ rec.path \notin astray
    BY <1>1, <1>5 DEF Uncarried
  <2>2. Image(rec.path, rec.to, rec.path) = rec.to
    BY PathsAre, ImageSelf
  <2>3. Placed(rec)[rec.to] = store[rec.path]
    BY <1>3, <2>2, PlacedIs
  <2> QED BY <1>2, <2>1, <2>3 DEF Sure
<1>6. CASE rec.path # rec.to /\ r \notin Images(rec)
  <2>1. rec.to \in Images(rec)
    <3>1. Image(rec.path, rec.to, rec.path) = rec.to
      BY PathsAre, ImageSelf
    <3> QED BY <1>3, <3>1, PlacedIs
  <2>2. Placed(rec)[r] = store[r]
    BY <1>6, PlacedIs
  <2> QED BY <1>1, <1>2, <1>6, <2>1, <2>2 DEF Sure
<1> QED BY <1>4, <1>5, <1>6

\* The type of a copy is that of what was copied.
LEMMA CopyRecords ==
  ASSUME TypeOK, kind = "local", calm', NEW c \in Worker, OwnRecord(store, sidecar, astray, call[c]),
         Copy(c)
  PROVE  ToRecord(store', sidecar', astray', call'[c]) /\ OwnRecord(store', sidecar', astray', call'[c])
<1> DEFINE rec == call[c]
           next == Go(rec, "sidecar")
<1>1. /\ rec.pc = "act" /\ rec.op = "copy" /\ sidecar' = sidecar
      /\ \/ Refused(c)
         \/ Fits(rec) /\ store' = Placed(rec) /\ Answered(c, next)
  BY DEF Copy, InFolders
<1>2. rec \in Calls /\ Shape(kind, rec) /\ rec.path \in Paths /\ rec.to \in Paths
  BY <1>1 DEF TypeOK, Shape
<1>3. CASE Refused(c)
  BY <1>1, <1>3, RefusedRecords
<1>4. CASE ~Refused(c)
  <2>1. next.pc = "sidecar" /\ next.op = "copy" /\ next.to = rec.to /\ next.path = rec.path
    BY <1>1, <1>2, GoesOn
  <2>2. call'[c] = next /\ astray' = Strays(rec)
    BY <1>1, <1>4, CalmAnswer
  <2> HIDE DEF next, rec
  <2>3. OwnRecord(store, sidecar, astray, rec)
    BY DEF rec
  <2>4. \A r \in Paths : Sure(store', astray', r) =>
          store'[r] = IF r = rec.to THEN sidecar[rec.path] ELSE sidecar[r]
    BY <1>1, <1>2, <1>4, <2>2, <2>3, TypeCarried DEF Sure
  <2>5. ToRecord(store', sidecar, astray', next)
    BY <1>2, <2>1, <2>4 DEF ToRecord
  <2>6. OwnRecord(store', sidecar, astray', next)
    BY <2>1, <2>4 DEF OwnRecord
  <2> QED BY <1>1, <2>2, <2>5, <2>6
<1> QED BY <1>3, <1>4

\* The type of what is moved goes with it.
LEMMA MoveRecords ==
  ASSUME TypeOK, kind = "local", calm', NEW c \in Worker, OwnRecord(store, sidecar, astray, call[c]),
         Move(c)
  PROVE  ToRecord(store', sidecar', astray', call'[c]) /\ OwnRecord(store', sidecar', astray', call'[c])
<1> DEFINE rec == call[c]
           next == Go(rec, "sidecar")
<1>1. /\ rec.pc = "act" /\ rec.op = "move" /\ sidecar' = sidecar
      /\ \/ Refused(c)
         \/ /\ Fits(rec) /\ store' = Without(Replaced(rec), Source(rec) \ Images(rec))
            /\ Answered(c, next)
  BY DEF Move
<1>2. rec \in Calls /\ Shape(kind, rec) /\ rec.path \in Paths /\ rec.to \in Paths
  BY <1>1 DEF TypeOK, Shape
<1>3. CASE Refused(c)
  BY <1>1, <1>3, RefusedRecords
<1>4. CASE ~Refused(c)
  <2>1. next.pc = "sidecar" /\ next.op = "move" /\ next.to = rec.to /\ next.path = rec.path
    BY <1>1, <1>2, GoesOn
  <2>2. call'[c] = next /\ astray' = Strays(rec)
    BY <1>1, <1>4, CalmAnswer
  <2> HIDE DEF next, rec
  <2>3. OwnRecord(store, sidecar, astray, rec)
    BY DEF rec
  <2>4. /\ \A r \in Paths : store'[r] = None \/ store'[r] = Placed(rec)[r]
        /\ \A r \in Source(rec) \ Images(rec) : r \in Paths => store'[r] = None
    BY <1>1, <1>4 DEF Without, Replaced
  <2>5. \A r \in Paths : Sure(store', astray', r) =>
          store'[r] = IF r = rec.to THEN sidecar[rec.path] ELSE sidecar[r]
    BY <1>1, <1>2, <1>4, <2>2, <2>3, <2>4, TypeCarried, Different DEF Sure
  <2>6. ~Sure(store', astray', rec.path)
    <3>1. rec.path \in Source(rec)
      BY <1>1, <1>2, <1>4, PathsAre DEF Source, Fits
    <3>2. CASE rec.path \in Images(rec) \/ rec.path = rec.to
      BY <1>1, <2>2, <3>2 DEF Strays, Uncarried, Sure
    <3>3. CASE rec.path \notin Images(rec)
      BY <1>2, <2>4, <3>1, <3>3, Different DEF Sure
    <3> QED BY <3>2, <3>3
  <2>7. ToRecord(store', sidecar, astray', next)
    BY <1>2, <2>1, <2>5, <2>6 DEF ToRecord
  <2>8. OwnRecord(store', sidecar, astray', next)
    BY <2>1, <2>5 DEF OwnRecord
  <2> QED BY <1>1, <2>2, <2>7, <2>8
<1> QED BY <1>3, <1>4

\* What is recorded is the type of what is there.
LEMMA WriteSidecarRecords ==
  ASSUME TypeOK, NEW c \in Worker, OwnRecord(store, sidecar, astray, call[c]),
         ToRecord(store, sidecar, astray, call[c]), WriteSidecar(c)
  PROVE  ToRecord(store', sidecar', astray', call'[c]) /\ OwnRecord(store', sidecar', astray', call'[c])
<1> DEFINE rec == call[c]
           type == IF rec.op = "upload" THEN rec.content ELSE sidecar[rec.path]
           result == IF rec.op = "upload" /\ store[rec.to] = None THEN "error" ELSE "ok"
           next == IF rec.op = "move" THEN Go(rec, "unsidecar") ELSE Done(rec, result)
<1>1. /\ rec.pc = "sidecar" /\ store' = store /\ astray' = astray
      /\ sidecar' = IF type = None THEN sidecar ELSE [sidecar EXCEPT ![rec.to] = type]
      /\ Become(c, next)
  BY DEF WriteSidecar
<1>2. rec \in Calls /\ Shape(kind, rec) /\ rec.path \in Paths /\ rec.to \in Paths
      /\ sidecar \in [Paths -> Contents \cup {None}]
  BY <1>1 DEF TypeOK, Shape
<1>3. call'[c] = next
  BY <1>1 DEF Become
<1>4. next.pc = (IF rec.op = "move" THEN "unsidecar" ELSE "done") /\ next.path = rec.path
  <2>1. result \in {"ok", "error"}
    OBVIOUS
  <2> HIDE DEF rec, result
  <2> QED BY <1>2, <2>1, GoesOn
<1> HIDE DEF next
<1>5. Sure(store, astray, rec.to) => store[rec.to] = type
  BY <1>1 DEF ToRecord
<1>6. rec.op = "move" => ~Sure(store, astray, rec.path)
  BY <1>1 DEF ToRecord
<1>7. OwnRecord(store, sidecar, astray, rec)
  OBVIOUS
<1> HIDE DEF type, result, rec
<1>8. \A p \in Paths : Sure(store, astray, p) => sidecar'[p] = store[p]
  BY <1>1, <1>2, <1>5, <1>7, Different DEF Sure, OwnRecord
<1>9. ToRecord(store, sidecar', astray, next)
  BY <1>4, <1>6 DEF ToRecord
<1>10. OwnRecord(store, sidecar', astray, next)
  BY <1>8 DEF OwnRecord
<1> QED BY <1>1, <1>3, <1>9, <1>10

\* A sidecar that is removed is no file's, or astray.
LEMMA RemoveSidecarRecords ==
  ASSUME TypeOK, NEW c \in Worker, OwnRecord(store, sidecar, astray, call[c]),
         ToRecord(store, sidecar, astray, call[c]), RemoveSidecar(c)
  PROVE  ToRecord(store', sidecar', astray', call'[c]) /\ OwnRecord(store', sidecar', astray', call'[c])
<1> DEFINE rec == call[c]
           next == Done(rec, "ok")
<1>1. /\ rec.pc = "unsidecar" /\ store' = store /\ sidecar' = [sidecar EXCEPT ![rec.path] = None]
      /\ astray' = astray /\ Become(c, next)
  BY DEF RemoveSidecar
<1>2. rec \in Calls /\ sidecar \in [Paths -> Contents \cup {None}]
  BY DEF TypeOK
<1>3. call'[c] = next /\ next.pc = "done"
  BY <1>1, <1>2, GoesOn DEF Become
<1>4. ~Sure(store, astray, rec.path)
  BY <1>1 DEF ToRecord
<1> HIDE DEF next
<1>5. \A p \in Paths : Sure(store, astray, p) => sidecar'[p] = sidecar[p]
  BY <1>1, <1>2, <1>4
<1>6. ToRecord(store, sidecar', astray, next) /\ OwnRecord(store, sidecar', astray, next)
  BY <1>1, <1>3, <1>5 DEF ToRecord, OwnRecord
<1> QED BY <1>1, <1>3, <1>6

\* A step of a call that is no batch's.
LEMMA CallTypes ==
  ASSUME TypeOK, TypeOK', kind = "local", calm', Types(store, sidecar, astray, call, batch),
         NEW c \in Worker, ~call[c].ofBatch,
         \/ MakeFolders(c) \/ Upload(c) \/ Delete(c) \/ Copy(c) \/ RemoveSource(c) \/ Move(c)
         \/ WriteSidecar(c) \/ RemoveSidecar(c) \/ Fail(c)
  PROVE  Types(store', sidecar', astray', call', batch')
<1>1. Steps(c)
  BY ActionSteps
<1>2. UnderWay(call[c])
  BY DEF UnderWay, MakeFolders, Upload, Delete, Copy, RemoveSource, Move, WriteSidecar,
         RemoveSidecar, Fail, Busy
<1>3. OwnRecord(store, sidecar, astray, call[c]) /\ ToRecord(store, sidecar, astray, call[c])
  BY <1>2, LoneCall
<1>4. ~RemoveSource(c)
  BY DEF TypeOK, Shape, HasFolders, RemoveSource
<1>5. ~Fail(c)
  BY DEF Fail, Spend
<1>6. ToRecord(store', sidecar', astray', call'[c]) /\ OwnRecord(store', sidecar', astray', call'[c])
  BY <1>3, <1>4, <1>5, MakeFoldersRecords, UploadRecords, DeleteRecords, CopyRecords, MoveRecords,
     WriteSidecarRecords, RemoveSidecarRecords
<1> QED BY <1>1, <1>2, <1>6, Lonely

\* What is known while a batch of deletions is under way.
LEMMA BatchQuiet ==
  ASSUME TypeOK, Types(store, sidecar, astray, call, batch), batch.phase \in {"walk", "delete"}
  PROVE  \A d \in Worker : call[d].pc # "sidecar" /\ (call[d].pc # "idle" => call[d].path \in Paths)
<1> SUFFICES ASSUME NEW d \in Worker
             PROVE  call[d].pc # "sidecar" /\ (call[d].pc # "idle" => call[d].path \in Paths)
  OBVIOUS
<1>1. Shape(kind, call[d])
  BY DEF TypeOK
<1>2. UnderWay(call[d]) => call[d].ofBatch
  BY BatchAlone DEF Types
<1>3. call[d].pc = "sidecar" => UnderWay(call[d])
  BY DEF UnderWay
<1> QED BY <1>1, <1>2, <1>3 DEF Shape

\* A step of a call of the batch.
LEMMA TakerTypes ==
  ASSUME TypeOK, TypeOK', BatchFacts(kind, store, call, batch), kind = "local", calm',
         Types(store, sidecar, astray, call, batch), NEW c \in Worker, call[c].ofBatch,
         \/ MakeFolders(c) \/ Upload(c) \/ Delete(c) \/ Copy(c) \/ RemoveSource(c) \/ Move(c)
         \/ WriteSidecar(c) \/ RemoveSidecar(c) \/ Fail(c)
  PROVE  Types(store', sidecar', astray', call', batch')
<1>1. Steps(c)
  BY ActionSteps
<1>2. /\ call \in [Worker -> Calls] /\ batch \in Batches /\ call'[c] \in Calls
      /\ Become(c, call'[c]) /\ call'[c].ofBatch /\ call'[c].path = call[c].path
      /\ call[c] \in Calls /\ Shape(kind, call[c]) /\ sidecar \in [Paths -> Contents \cup {None}]
  BY <1>1 DEF TypeOK, Steps
<1>3. \A d \in Worker : d # c => SameCall(call[d], call'[d])
  <2>1. \A d \in Worker : d # c => Told(call[d], call'[d], ChangedBy(store, store'))
    BY <1>2, BecomeDoes
  <2> QED BY <2>1 DEF Told
<1>4. batch.phase = "delete"
  BY DEF BatchFacts, Phased, Takers
<1>5. call[c].op = "delete" /\ call[c].pc \in {"idle", "act", "unsidecar", "done"}
      /\ call[c].path \in Paths
  BY <1>2 DEF Shape
<1>6. ~MakeFolders(c) /\ ~Upload(c) /\ ~Copy(c) /\ ~RemoveSource(c) /\ ~Move(c) /\ ~WriteSidecar(c)
      /\ ~Fail(c)
  BY <1>5 DEF MakeFolders, Upload, Copy, RemoveSource, Move, WriteSidecar, Fail, Spend
<1>7. /\ \A p \in Paths : Sure(store', astray, p) => store'[p] = store[p] /\ sidecar'[p] = sidecar[p]
      /\ ~Sure(store', astray, call[c].path) /\ astray' = astray
      /\ call'[c].pc # "sidecar"
  <2>1. CASE Delete(c)
    <3>1. store' = [q \in Paths |-> IF q \in Scope(call[c].path) THEN None ELSE store[q]]
          /\ sidecar' = sidecar /\ Answered(c, Go(call[c], "unsidecar"))
      BY <2>1 DEF Delete
    <3>2. call[c].path \in Scope(call[c].path)
      BY <1>5, PathsAre
    <3>3. call'[c] = Go(call[c], "unsidecar") /\ Go(call[c], "unsidecar").pc = "unsidecar"
          /\ astray' = astray
      BY <1>2, <1>5, <3>1, CalmAnswer, GoesOn DEF Strays
    <3> QED BY <1>5, <3>1, <3>2, <3>3, Different DEF Sure
  <2>2. CASE RemoveSidecar(c)
    <3>1. store' = store /\ call[c].pc = "unsidecar" /\ Become(c, Done(call[c], "ok"))
          /\ sidecar' = [sidecar EXCEPT ![call[c].path] = None] /\ astray' = astray
      BY <2>2 DEF RemoveSidecar
    <3>2. ~Sure(store, astray, call[c].path)
      BY <3>1 DEF Types, ToRecord
    <3>3. call'[c] = Done(call[c], "ok") /\ Done(call[c], "ok").pc = "done"
      BY <1>2, <3>1, GoesOn DEF Become
    <3> QED BY <1>2, <1>5, <3>1, <3>2, <3>3
  <2> QED BY <1>6, <2>1, <2>2
<1>8. \A d \in Worker : call[d].pc # "sidecar" /\ (call[d].pc # "idle" => call[d].path \in Paths)
  BY <1>4, BatchQuiet
<1>9. call'[c].pc = "unsidecar" => ~Sure(store', astray, call'[c].path)
  BY <1>2, <1>7
<1>10. /\ call'[c].ofBatch \/ ~UnderWay(call'[c])
       /\ call'[c].pc # "sidecar"
  BY <1>2, <1>7
<1>11. NothingAdded(store, store', sidecar, sidecar', astray)
  BY <1>7 DEF NothingAdded
<1>12. batch.phase \in {"walk", "delete"}
  BY <1>4
<1>13. Types(store', sidecar', astray, call', batch')
  BY <1>3, <1>8, <1>9, <1>10, <1>11, <1>12, BatchStep
<1> QED BY <1>7, <1>13

\* A call begins when no other is under way.
LEMMA StartCallTypes ==
  ASSUME TypeOK, calm', Types(store, sidecar, astray, call, batch), NEW c \in Worker, StartCall(c)
  PROVE  Types(store', sidecar', astray', call', batch')
<1>1. PICK new \in Calls : call' = [call EXCEPT ![c] = new] /\ new.pc \in {"folders", "act"}
  BY StartCallIs
<1>2. /\ store' = store /\ sidecar' = sidecar /\ batch' = batch /\ astray' = astray
      /\ batch.phase \notin {"walk", "delete"} /\ \A d \in Worker : ~UnderWay(call[d])
  BY DEF StartCall, Busy, UnderWay
<1>3. \A d \in Worker : call'[d] = IF d = c THEN new ELSE call[d]
  BY <1>1 DEF TypeOK
<1>4. \A p \in Paths : Sure(store, astray, p) => sidecar[p] = store[p]
  BY <1>2 DEF Types, Recorded, UnderWay
<1>5. ToRecord(store, sidecar, astray, call'[c]) /\ OwnRecord(store, sidecar, astray, call'[c])
  BY <1>1, <1>3, <1>4 DEF ToRecord, OwnRecord
<1>6. \A d \in Worker : d # c => ~UnderWay(call[d]) /\ SameCall(call[d], call'[d])
  BY <1>2, <1>3 DEF SameCall
<1>7. Types(store, sidecar, astray, call', batch)
  BY <1>2, <1>5, <1>6, LoneStep
<1> QED BY <1>2, <1>7

\* A worker takes a path from the queue, or has done with one.
LEMMA WorkerTypes ==
  ASSUME TypeOK, BatchFacts(kind, store, call, batch), Types(store, sidecar, astray, call, batch),
         NEW c \in Worker, TakeNext(c) \/ Collect(c)
  PROVE  Types(store', sidecar', astray', call', batch')
<1>1. batch.phase = "delete" /\ store' = store /\ sidecar' = sidecar /\ astray' = astray
  BY DEF TakeNext, Collect, BatchFacts, Phased, Takers
<1>2. PICK new : /\ call' = [call EXCEPT ![c] = new]
                 /\ new.ofBatch \/ ~UnderWay(new)
                 /\ new.pc \notin {"sidecar", "unsidecar"}
  <2>1. CASE Collect(c)
    BY <2>1, NoCallTyped DEF Collect, UnderWay
  <2>2. CASE TakeNext(c)
    <3>1. PICK p : call' = [call EXCEPT ![c] = [NoCall EXCEPT !.path = p, !.to = p, !.pc = "act",
                                                  !.ofBatch = TRUE]]
      BY <2>2 DEF TakeNext
    <3> DEFINE new == [NoCall EXCEPT !.path = p, !.to = p, !.pc = "act", !.ofBatch = TRUE]
    <3>2. new.pc = "act" /\ new.ofBatch = TRUE
      BY NoCallTyped DEF Calls
    <3>3. call' = [call EXCEPT ![c] = new]
      BY <3>1
    <3> HIDE DEF new
    <3> QED BY <3>2, <3>3
  <2> QED BY <2>1, <2>2
<1>3. \A d \in Worker : call'[d] = IF d = c THEN new ELSE call[d]
  BY <1>2 DEF TypeOK
<1>4. \A d \in Worker : d # c => SameCall(call[d], call'[d])
  BY <1>3 DEF SameCall
<1>5. \A d \in Worker : call[d].pc # "sidecar" /\ (call[d].pc # "idle" => call[d].path \in Paths)
  BY <1>1, BatchQuiet
<1>6. /\ call'[c].ofBatch \/ ~UnderWay(call'[c])
      /\ call'[c].pc # "sidecar" /\ call'[c].pc # "unsidecar"
  BY <1>2, <1>3
<1>7. NothingAdded(store, store, sidecar, sidecar, astray)
  BY DEF NothingAdded
<1>8. Types(store, sidecar, astray, call', batch')
  BY <1>1, <1>4, <1>5, <1>6, <1>7, BatchStep
<1> QED BY <1>1, <1>8

\* A batch begins when no call is under way, and what it does then no call sees.
LEMMA BatchTypes ==
  ASSUME TypeOK, calm', Types(store, sidecar, astray, call, batch),
         StartBatch \/ ListNext \/ ListFails \/ EndWalk \/ Report
  PROVE  Types(store', sidecar', astray', call', batch')
<1>1. store' = store /\ sidecar' = sidecar /\ call' = call /\ astray' = astray
  BY DEF StartBatch, ListNext, ListFails, EndWalk, Report, Spend
<1>2. \A c \in Worker : UnderWay(call[c]) => call[c].ofBatch
  <2>1. CASE StartBatch
    BY <2>1 DEF StartBatch, Busy, UnderWay
  <2>2. CASE ListNext \/ ListFails \/ EndWalk \/ Report
    <3>1. batch.phase \in {"walk", "delete"}
      BY <2>2 DEF ListNext, ListFails, EndWalk, Report
    <3> QED BY <3>1, BatchAlone DEF Types
  <2> QED BY <2>1, <2>2
<1>3. Types(store, sidecar, astray, call, batch')
  BY <1>2, QuietStep
<1> QED BY <1>1, <1>3

-----------------------------------------------------------------------------
(* Theorems.                                                               *)

\* In the beginning nobody has called anything.
LEMMA InitHolds ==
  Init => TypeOK /\ CallInv
<1> SUFFICES ASSUME Init PROVE TypeOK /\ CallInv
  OBVIOUS
<1>1. kind \in Kinds /\ store \in Stored /\ calm \in BOOLEAN
  BY StoresAssumption DEF Init, Stored, Entries
<1>2. sidecar \in [Paths -> Contents \cup {None}]
  <2>1. \A p \in Paths : (IF kind = "local" /\ IsFile(p) THEN store[p] ELSE None) \in Contents \cup {None}
    BY DEF IsFile
  <2>2. sidecar = [p \in Paths |-> IF kind = "local" /\ IsFile(p) THEN store[p] ELSE None]
    BY DEF Init
  <2> QED BY <2>1, <2>2
<1>3. call \in [Worker -> Calls] /\ \A c \in Worker : call[c] = NoCall
  BY NoCallTyped DEF Init
<1>4. batch \in Batches /\ BatchShape(batch)
  BY NoBatchTyped DEF Init
<1>5. TypeOK
  BY <1>1, <1>2, <1>3, <1>4, NoCallTyped DEF TypeOK
<1>6. CallInv
  BY <1>3, NoCallTyped DEF CallInv, Owed
<1> QED BY <1>5, <1>6

\* Every step keeps what is known of calls.
LEMMA NextKeeps ==
  TypeOK /\ CallInv /\ [Next]_vars => TypeOK' /\ CallInv'
<1> SUFFICES ASSUME TypeOK, CallInv, [Next]_vars PROVE TypeOK' /\ CallInv'
  OBVIOUS
<1>1. ASSUME NEW c \in Worker, Fail(c) PROVE TypeOK' /\ CallInv'
  <2>1. UnderWay(call[c]) /\ calm' \in BOOLEAN
    BY <1>1 DEF Fail, Busy, UnderWay, Spend
  <2> QED BY <1>1, <2>1, NothingDone DEF Fail
<1>2. ASSUME NEW c \in Worker,
             \/ StartCall(c) \/ MakeFolders(c) \/ Upload(c) \/ Delete(c) \/ Copy(c)
             \/ RemoveSource(c) \/ Move(c) \/ WriteSidecar(c) \/ RemoveSidecar(c) \/ Fail(c)
             \/ TakeNext(c) \/ Collect(c)
      PROVE  TypeOK' /\ CallInv'
  BY <1>1, <1>2, StartCallKeeps, MakeFoldersKeeps, UploadKeeps, DeleteKeeps, CopyKeeps,
     RemoveSourceKeeps, MoveActionKeeps, WriteSidecarKeeps, RemoveSidecarKeeps, TakeNextKeeps,
     CollectKeeps
<1>3. CASE UNCHANGED vars
  BY <1>3, CallsAlone DEF vars, TypeOK
<1> QED BY <1>2, <1>3, StartBatchKeeps, ListNextKeeps, WalkEndsKeeps DEF Next

\* Whatever overlaps and fails, calls keep what they promise at each of their
\* steps, of upload, delete, copy, move and createFolder alike.
THEOREM CallsKeepPromises ==
  Spec => [](TypeOK /\ CallInv)
BY InitHolds, NextKeeps, PTL DEF Spec

\* What a move moves is at its source or its destination at every moment.
THEOREM MovesKeep ==
  Spec => []MoveKeeps
<1>1. TypeOK /\ CallInv => MoveKeeps
  <2> SUFFICES ASSUME TypeOK, CallInv, NEW c \in Worker, call[c].op = "move", call[c].pc # "idle",
                      call[c].path # call[c].to, NEW q \in Scope(call[c].path),
                      call[c].was[q] \in Contents, Undisturbed(call[c])
               PROVE  \/ store[q] = call[c].was[q]
                      \/ /\ Image(call[c].path, call[c].to, q) \in Paths
                         /\ store[Image(call[c].path, call[c].to, q)] = call[c].was[q]
    BY DEF MoveKeeps
  <2>1. ~call[c].ofBatch
    BY DEF TypeOK, Shape
  <2>2. HereOrThere(kind, store, call[c])
    BY <2>1 DEF CallInv, Owed, Promise
  <2> QED BY <2>2, ScopeIs DEF HereOrThere
<1> QED BY <1>1, CallsKeepPromises, PTL

\* A call that says it is done did what it says, with every provider.
THEOREM OkIsDone ==
  Spec => []OkMeansDone
<1>1. TypeOK /\ CallInv => OkMeansDone
  <2> SUFFICES ASSUME TypeOK, CallInv, NEW c \in Worker, call[c].result = "ok", ~call[c].ofBatch,
                      Undisturbed(call[c])
               PROVE  CASE call[c].op = "upload" -> store[call[c].to] = call[c].content
                        [] call[c].op = "delete" -> \A q \in Scope(call[c].path) : store[q] = None
                        [] call[c].op = "createFolder" ->
                             IsFolder(call[c].to) \/ (kind = "webdav" /\ IsFile(call[c].to))
                        [] call[c].op = "copy" -> Arrived(call[c])
                        [] call[c].op = "move" ->
                             \/ call[c].path = call[c].to
                             \/ Arrived(call[c]) /\ \A q \in Scope(call[c].path) : store[q] = None
    BY DEF OkMeansDone
  <2> DEFINE rec == call[c]
  <2>1. rec \in Calls /\ rec.pc # "idle"
    BY DEF TypeOK, Shape, None
  <2>2. Promise(kind, store, rec)
    BY <2>1 DEF CallInv, Owed
  <2>3. There(kind, store, rec) => Arrived(rec)
    BY ScopeIs DEF There, Arrived
  <2>4. Gone(kind, store, rec) => \A q \in Scope(rec.path) : store[q] = None
    BY ScopeIs DEF Gone
  <2>5. rec.op \in {"upload", "delete", "copy", "move", "createFolder"}
    BY <2>1 DEF Calls
  <2>6. rec.result = "ok" /\ rec.op = call[c].op
    OBVIOUS
  <2>7. /\ rec.op = "upload" => store[rec.to] = rec.content
        /\ rec.op = "delete" => \A q \in Scope(rec.path) : store[q] = None
        /\ rec.op = "createFolder" => IsFolder(rec.to) \/ (kind = "webdav" /\ IsFile(rec.to))
        /\ rec.op = "copy" => Arrived(rec)
        /\ rec.op = "move" => \/ rec.path = rec.to
                              \/ Arrived(rec) /\ \A q \in Scope(rec.path) : store[q] = None
    BY <2>2, <2>3, <2>4, <2>6 DEF Promise, IsFolder, IsFile
  <2> QED BY <2>5, <2>7
<1> QED BY <1>1, CallsKeepPromises, PTL


\* In the beginning the store is laid out and no batch was started.
LEMMA InitBatch ==
  Init => BatchInv
<1> SUFFICES ASSUME Init PROVE BatchInv
  OBVIOUS
<1>1. LaidOut
  <2>1. ASSUME HasFolders(kind), NEW p \in Paths, store[p] # None, Len(p) > 1
        PROVE  store[Front(p)] = Folder
    <3>1. Front(p) \in Paths /\ Front(p) # <<>>
      BY <2>1, PathsAssumption
    <3> QED BY <2>1, <3>1, ScopeIs DEF Init, IsFolder
  <2>2. ~HasFolders(kind) => \A p \in Paths : store[p] # Folder
    BY ScopeIs DEF Init
  <2> QED BY <2>1, <2>2 DEF LaidOut, Laid
<1>2. /\ batch.phase = "idle" /\ batch.op = "walk" /\ batch.was = <<>> /\ batch.targets = {}
      /\ batch.deleted = {} /\ batch.failed = {} /\ batch.pending = {} /\ batch.found = {}
      /\ batch.queue = {}
  BY DEF Init, NoBatch
<1>3. Takers(call) = {}
  BY NoCallTyped DEF Init, Takers
<1>4. Handled(call, batch) = {}
  BY <1>2, <1>3 DEF Handled
<1>5. Phased(call, batch)
  BY <1>2, <1>3 DEF Phased
<1>6. OwnKept(kind, store, call, batch) /\ Aimed(call, batch) /\ Queued(call, batch)
  BY <1>2, <1>4 DEF OwnKept, Aimed, Queued
<1>7. AllCleared(kind, store, call, batch)
  BY <1>2, <1>3 DEF AllCleared
<1>8. OnTheWay(kind, batch) /\ PagesKept(batch)
  BY <1>2 DEF OnTheWay, PagesKept
<1> QED BY <1>1, <1>5, <1>6, <1>7, <1>8 DEF BatchInv, BatchFacts

\* Every step keeps what is known of what is stored and of batches.
LEMMA NextKeepsBatch ==
  TypeOK /\ CallInv /\ BatchInv /\ [Next]_vars => BatchInv'
<1> SUFFICES ASSUME TypeOK, CallInv, BatchInv, [Next]_vars PROVE BatchInv'
  OBVIOUS
<1>1. TypeOK'
  BY NextKeeps
<1>2. LaidOut /\ BatchFacts(kind, store, call, batch)
  BY DEF BatchInv
<1>3. ASSUME kind' = kind, Laid(kind, store'), BatchFacts(kind, store', call', batch')
      PROVE  BatchInv'
  BY <1>3 DEF BatchInv, LaidOut
<1>4. ASSUME NEW c \in Worker,
             \/ MakeFolders(c) \/ Upload(c) \/ Delete(c) \/ Copy(c) \/ RemoveSource(c) \/ Move(c)
             \/ WriteSidecar(c) \/ RemoveSidecar(c) \/ Fail(c)
      PROVE  BatchFacts(kind, store', call', batch')
  <2>1. Steps(c)
    BY <1>4, ActionSteps
  <2>2. CASE call[c].ofBatch
    BY <1>1, <1>2, <1>4, <2>2, TakerKeeps
  <2>3. CASE ~call[c].ofBatch
    BY <1>1, <1>2, <2>1, <2>3, OthersKeep
  <2> QED BY <2>2, <2>3
<1>5. ASSUME NEW c \in Worker,
             \/ StartCall(c) \/ MakeFolders(c) \/ Upload(c) \/ Delete(c) \/ Copy(c)
             \/ RemoveSource(c) \/ Move(c) \/ WriteSidecar(c) \/ RemoveSidecar(c) \/ Fail(c)
             \/ TakeNext(c) \/ Collect(c)
      PROVE  BatchInv'
  <2>1. Laid(kind, store') /\ kind' = kind
    BY <1>2, <1>5, CallsLay
  <2>2. BatchFacts(kind, store', call', batch')
    BY <1>2, <1>4, <1>5, StartCallSame, TakeNextSame, CollectSame
  <2> QED BY <1>3, <2>1, <2>2
<1>6. ASSUME StartBatch \/ ListNext \/ ListFails \/ EndWalk \/ Report
      PROVE  BatchInv'
  <2>1. kind' = kind /\ store' = store
    BY <1>6 DEF StartBatch, ListNext, ListFails, EndWalk, Report
  <2>2. Laid(kind, store')
    BY <1>2, <2>1 DEF LaidOut
  <2>3. BatchFacts(kind, store', call', batch')
    BY <1>1, <1>2, <1>6, StartBatchSame, ListNextSame, WalkEndsSame
  <2> QED BY <1>3, <2>1, <2>2, <2>3
<1>7. CASE UNCHANGED vars
  <2>1. kind' = kind /\ store' = store /\ call' = call /\ batch' = batch
    BY <1>7 DEF vars
  <2>2. Laid(kind, store') /\ BatchFacts(kind, store', call', batch')
    BY <1>2, <2>1 DEF LaidOut
  <2> QED BY <1>3, <2>1, <2>2
<1> QED BY <1>5, <1>6, <1>7 DEF Next

\* Whatever overlaps and fails, what is stored lies in folders where there are
\* folders, and a batch loses nothing between its walk, its queue and its
\* results.
THEOREM BatchesLoseNothing ==
  Spec => []BatchInv
<1>1. Init => TypeOK /\ CallInv /\ BatchInv
  BY InitHolds, InitBatch
<1>2. TypeOK /\ CallInv /\ BatchInv /\ [Next]_vars => TypeOK' /\ CallInv' /\ BatchInv'
  BY NextKeeps, NextKeepsBatch
<1> QED BY <1>1, <1>2, PTL DEF Spec

\* A walk that reports found what it was to find.
LEMMA WalkReports ==
  ASSUME TypeOK, BatchInv, batch.phase = "report", batch.op = "walk"
  PROVE  WalkAccounts
<1> SUFFICES ASSUME NEW q \in Own, batch.was[q] \in Contents,
                    \E p \in batch.targets : IsStrictPrefix(p, q)
             PROVE  \/ q \in batch.found
                    \/ \E i \in 1..Len(q) : TakenForParent(SubSeq(q, 1, i - 1), SubSeq(q, 1, i))
  BY DEF WalkAccounts
<1>1. q \in Sought(batch)
  BY DEF Sought, Own, OwnOf
<1>2. batch.pending = {}
  BY DEF BatchInv, BatchFacts, Phased
<1>3. q \in batch.found \/ Skipped(kind, q)
  BY <1>1, <1>2 DEF BatchInv, BatchFacts, OnTheWay
<1> QED BY <1>3 DEF Skipped, TakenIs, TakenForParent

\* A deletion that reports has handled every target, and what nobody else
\* touched below it is gone or below what failed.
LEMMA DeleteReports ==
  ASSUME TypeOK, BatchInv, batch.phase = "report", batch.op # "walk"
  PROVE  DeleteAccounts
<1>1. /\ batch \in Batches /\ BatchShape(batch) /\ batch.queue = {} /\ Takers(call) = {}
      /\ batch.was \in Stored
  BY DEF TypeOK, BatchInv, BatchFacts, Phased
<1>2. Handled(call, batch) = batch.deleted \cup batch.failed
  BY <1>1 DEF Handled
<1>3. batch.targets \subseteq batch.deleted \cup batch.failed
  BY <1>1, <1>2 DEF BatchInv, BatchFacts, Queued
<1>4. batch.targets \subseteq Paths /\ batch.deleted \subseteq Paths /\ batch.failed \subseteq Paths
  BY <1>1 DEF Batches, BatchShape
<1>5. ASSUME NEW q \in Own, NEW h \in batch.deleted \cup batch.failed, q \in ScopeOf(kind, h)
      PROVE  store[q] = None \/ \E f \in batch.failed : IsPrefix(f, q)
  <2>1. CASE h \in batch.deleted
    BY <1>5, <2>1 DEF BatchInv, BatchFacts, AllCleared, Cleared, Own, OwnOf
  <2>2. CASE h \in batch.failed
    <3>1. h \in Paths /\ Scope(h) \subseteq Within(h)
      BY <1>4, <2>2, PathsAre
    <3>2. IsPrefix(h, q)
      BY <1>5, <3>1, ScopeIs DEF Within
    <3> QED BY <2>2, <3>2
  <2> QED BY <2>1, <2>2
<1>6. ASSUME NEW q \in Own, NEW p \in batch.targets,
             IF batch.op = "deleteTree" THEN IsPrefix(p, q) ELSE q \in Scope(p)
      PROVE  store[q] = None \/ \E f \in batch.failed : IsPrefix(f, q)
  <2>1. p \in Paths /\ q \in Paths
    BY <1>4 DEF Own
  <2>2. CASE q \in ScopeOf(kind, p)
    BY <1>3, <1>5, <2>2
  <2>3. CASE q \notin ScopeOf(kind, p)
    <3>1. batch.op = "deleteTree" /\ IsPrefix(p, q)
      BY <1>6, <2>3, ScopeIs
    <3>2. ~HasFolders(kind)
      BY <2>1, <2>3, <3>1 DEF ScopeOf, Within
    <3>3. p # q
      BY <2>3, <3>2 DEF ScopeOf
    <3>4. IsStrictPrefix(p, q)
      BY <3>1, <3>3 DEF IsStrictPrefix
    <3>5. CASE \E h \in Handled(call, batch) : q \in ScopeOf(kind, h)
      BY <1>2, <1>5, <3>5
    <3>6. CASE ~\E h \in Handled(call, batch) : q \in ScopeOf(kind, h)
      <4> SUFFICES ASSUME store[q] # None PROVE FALSE
        OBVIOUS
      <4>1. store[q] = batch.was[q] /\ q \in OwnOf(batch)
        BY <3>6 DEF BatchInv, BatchFacts, OwnKept, Own, OwnOf
      <4>2. batch.was[q] \in Contents
        <5>1. store[q] \in Entries /\ store[q] # Folder
          BY <2>1, <3>2 DEF TypeOK, Stored, BatchInv, LaidOut, Laid
        <5> QED BY <4>1, <5>1 DEF Entries
      <4>3. q \in Sought(batch)
        BY <3>4, <4>1, <4>2 DEF Sought
      <4>4. batch.pending = {} /\ ~Skipped(kind, q) /\ batch.op # "deleteMany"
        BY <3>1, <3>2 DEF BatchInv, BatchFacts, Phased, Skipped, TakenIs, HasFolders
      <4>5. q \in batch.found
        BY <4>3, <4>4 DEF BatchInv, BatchFacts, OnTheWay
      <4>6. q \in Handled(call, batch)
        BY <1>1, <3>1, <4>5 DEF BatchInv, BatchFacts, Queued
      <4> QED BY <3>2, <3>6, <4>6 DEF ScopeOf
    <3> QED BY <3>5, <3>6
  <2> QED BY <2>2, <2>3
<1> QED BY <1>3, <1>6 DEF DeleteAccounts

\* Whatever overlaps a batch, its report accounts for every file that nobody
\* else touched, and a walk that fails has deleted nothing.
THEOREM ReportsAccount ==
  Spec => []Accounted
<1>1. TypeOK /\ BatchInv => Accounted
  <2> SUFFICES ASSUME TypeOK, BatchInv PROVE Accounted
    OBVIOUS
  <2>1. batch.phase = "report" => IF batch.op = "walk" THEN WalkAccounts ELSE DeleteAccounts
    BY WalkReports, DeleteReports
  <2>2. ASSUME batch.phase \in {"report", "rejected"}, NEW q \in Own, store[q] # batch.was[q]
        PROVE  /\ batch.phase = "report" /\ batch.op # "walk"
               /\ \E p \in batch.targets : IF batch.op = "deleteTree" THEN IsPrefix(p, q)
                                           ELSE q \in Scope(p)
    <3>1. PICK h \in Handled(call, batch) : q \in ScopeOf(kind, h)
      BY <2>2 DEF BatchInv, BatchFacts, OwnKept, Own, OwnOf
    <3>2. batch.phase = "report" /\ batch.op # "walk"
      BY <2>2, <3>1 DEF BatchInv, BatchFacts, Phased, Handled
    <3>3. PICK p \in batch.targets : IF batch.op = "deleteMany" THEN h = p ELSE IsPrefix(p, h)
      BY <3>1 DEF BatchInv, BatchFacts, Aimed
    <3>4. CASE batch.op = "deleteMany"
      BY <3>1, <3>2, <3>3, <3>4, ScopeIs
    <3>5. CASE batch.op # "deleteMany"
      <4>1. batch.op = "deleteTree" /\ p \in Paths /\ q \in Paths
        BY <3>2, <3>5 DEF TypeOK, Batches, BatchShape, Own
      <4>2. h \in Paths
        <5>1. Takers(call) = {}
          BY <3>2 DEF BatchInv, BatchFacts, Phased
        <5> QED BY <3>1, <5>1 DEF Handled, TypeOK, Batches
      <4>3. IsPrefix(h, q)
        BY <3>1, <4>1, <4>2, PathsAre, ScopeIs DEF Within
      <4>4. IsPrefix(p, q)
        BY <3>3, <3>5, <4>1, <4>2, <4>3, PathsAre, PrefixOrder
      <4> QED BY <3>2, <4>1, <4>4
    <3> QED BY <3>4, <3>5
  <2> QED BY <2>1, <2>2 DEF Accounted
<1> QED BY <1>1, CallsKeepPromises, BatchesLoseNothing, PTL

\* In the beginning every file's type is recorded.
LEMMA InitTypes ==
  Init => TypesInv
<1> SUFFICES ASSUME Init, kind = "local" PROVE Types(store, sidecar, astray, call, batch)
  BY DEF TypesInv
<1>1. \A c \in Worker : call[c].pc = "idle"
  BY NoCallTyped DEF Init
<1>2. Alone(call, batch) /\ \A c \in Worker : ToRecord(store, sidecar, astray, call[c])
  BY <1>1 DEF Alone, UnderWay, ToRecord
<1>3. Recorded(store, sidecar, astray, call)
  BY DEF Init, Recorded, Sure, IsFile
<1> QED BY <1>2, <1>3 DEF Types

\* Every step keeps what is known of types while calls come one after the
\* other.
LEMMA NextKeepsTypes ==
  TypeOK /\ TypeOK' /\ BatchInv /\ TypesInv /\ [Next]_vars => TypesInv'
<1> SUFFICES ASSUME TypeOK, TypeOK', BatchInv, TypesInv, [Next]_vars, kind' = "local", calm'
             PROVE  Types(store', sidecar', astray', call', batch')
  BY DEF TypesInv
<1>1. BatchFacts(kind, store, call, batch)
  BY DEF BatchInv
<1>2. kind = "local" /\ calm
  <2>1. kind' = kind
    BY DEF Next, vars, StartCall, MakeFolders, Upload, Delete, Copy, RemoveSource, Move,
           WriteSidecar, RemoveSidecar, Fail, TakeNext, Collect, StartBatch, ListNext, ListFails,
           EndWalk, Report
  <2>2. calm
    BY ZenonT(60) DEF Next, vars, StartCall, MakeFolders, Upload, Delete, Copy, RemoveSource, Move,
           WriteSidecar, RemoveSidecar, Fail, TakeNext, Collect, StartBatch, ListNext, ListFails,
           EndWalk, Report, Answered, Refused, Spend
  <2> QED BY <2>1, <2>2
<1>3. Types(store, sidecar, astray, call, batch)
  BY <1>2 DEF TypesInv
<1>4. ASSUME NEW c \in Worker,
             \/ MakeFolders(c) \/ Upload(c) \/ Delete(c) \/ Copy(c) \/ RemoveSource(c) \/ Move(c)
             \/ WriteSidecar(c) \/ RemoveSidecar(c) \/ Fail(c)
      PROVE  Types(store', sidecar', astray', call', batch')
  <2>1. CASE call[c].ofBatch
    BY <1>1, <1>2, <1>3, <1>4, <2>1, TakerTypes
  <2>2. CASE ~call[c].ofBatch
    BY <1>1, <1>2, <1>3, <1>4, <2>2, CallTypes
  <2> QED BY <2>1, <2>2
<1>5. ASSUME NEW c \in Worker, StartCall(c) \/ TakeNext(c) \/ Collect(c)
      PROVE  Types(store', sidecar', astray', call', batch')
  BY <1>1, <1>3, <1>5, StartCallTypes, WorkerTypes
<1>6. CASE UNCHANGED vars
  <2>1. /\ store' = store /\ sidecar' = sidecar /\ astray' = astray
        /\ call' = call /\ batch' = batch
    BY <1>6 DEF vars
  <2> QED BY <1>3, <2>1
<1>7. CASE StartBatch \/ ListNext \/ ListFails \/ EndWalk \/ Report
  BY <1>3, <1>7, BatchTypes
<1> QED BY <1>4, <1>5, <1>6, <1>7 DEF Next

\* Local: whatever calls came one after the other, a file has the type it was
\* uploaded with, unless its path is astray: it came with its folder when that
\* was copied or moved, was moved onto itself, or is a copy of such a file, and
\* nothing was uploaded there since.
THEOREM TypesFollow ==
  Spec => []TypeFollows
<1>1. Init => TypeOK /\ CallInv /\ BatchInv /\ TypesInv
  BY InitHolds, InitBatch, InitTypes
<1>2. TypeOK /\ CallInv /\ BatchInv /\ TypesInv /\ [Next]_vars =>
        TypeOK' /\ CallInv' /\ BatchInv' /\ TypesInv'
  BY NextKeeps, NextKeepsBatch, NextKeepsTypes
<1>3. TypesInv => TypeFollows
  <2> SUFFICES ASSUME TypesInv, kind = "local", calm, \A c \in Worker : ~Busy(c),
                      NEW p \in Paths \ astray, store[p] \in Contents
               PROVE  sidecar[p] = store[p]
    BY DEF TypeFollows, IsFile
  <2>1. \A c \in Worker : call[c].pc # "sidecar"
    BY DEF Busy
  <2> QED BY <2>1 DEF TypesInv, Types, Recorded, Sure
<1> QED BY <1>1, <1>2, <1>3, PTL DEF Spec

===============================================================================
