------------------------------ MODULE ProviderOps ------------------------------
(***************************************************************************)
(* The operations of BYOC (packages/core/src/client/byoc.ts) that          *)
(* change what is stored, over four of its providers: memory and S3, where *)
(* a path is a key, local and WebDAV, where it leads through folders.      *)
(* upload, delete, copy, move and createFolder are calls of one or more    *)
(* steps; walk, deleteTree and deleteMany are batches, which other calls   *)
(* may overlap.  The bucket, the file system and the WebDAV server are     *)
(* external; how S3 sends a body is the subject of S3Upload.               *)
(***************************************************************************)
EXTENDS Naturals, FiniteSetsExt, SequencesExt

CONSTANTS
  Worker,       \* who makes calls: single ones, or those of a batch
  Kinds,        \* the providers in question
  Paths,        \* the normalized paths in use
  Contents,     \* what files hold; each content stands for its type too
  RootName,     \* the name of WebDAV's root folder
  Stores,       \* what may be stored in the beginning
  Concurrency,  \* of deleteMany: 8 in the code
  MaxJobs,      \* bound: how many calls and batches are started
  MaxFaults     \* bound: how many requests fail or lose their answer

None == "none"
Folder == "folder"

\* The names that paths are made of.
Names == UNION {{p[i] : i \in 1..Len(p)} : p \in Paths}

ASSUME PathsAssumption ==
  Paths \subseteq Seq(Names) /\ \A p \in Paths : p # <<>> /\ (Len(p) > 1 => Front(p) \in Paths)
ASSUME ContentsAssumption == Contents \cap {None, Folder} = {}
ASSUME KindsAssumption == Kinds \subseteq {"memory", "s3", "local", "webdav"}
ASSUME StoresAssumption == Stores \subseteq [Paths -> Contents \cup {None, Folder}]
ASSUME BoundsAssumption == {Concurrency, MaxJobs, MaxFaults} \subseteq Nat

VARIABLES
  kind,     \* the provider
  store,    \* what is stored at each path
  sidecar,  \* local: the type recorded for each path, a content
  call,     \* the call of each worker
  batch,    \* the batch under way, or the last one
  jobs,     \* how many calls and batches were started
  faults,   \* how many requests failed
  calm,     \* history: no calls overlapped and no request failed
  astray    \* history, local: the paths whose type the adapter did not carry

vars == <<kind, store, sidecar, call, batch, jobs, faults, calm, astray>>

InFolders == kind \in {"local", "webdav"}
Remote == kind \in {"s3", "webdav"}

Below(p) == {q \in Paths : IsStrictPrefix(p, q)}
Within(p) == {q \in Paths : IsPrefix(p, q)}

IsFile(p) == store[p] \in Contents
IsFolder(p) == p = <<>> \/ store[p] = Folder

\* What a path stands for: a key for itself, a folder for all it holds.
Scope(p) == IF InFolders THEN Within(p) ELSE {p}

Image(p, to, q) == to \o SubSeq(q, Len(p) + 1, Len(q))

-----------------------------------------------------------------------------
(* Calls.                                                                  *)

\* k counts the folders made for it; was (history) is what the store held when
\* the call began, touched are the paths that others changed since.
NoCall == [op |-> "delete", path |-> <<>>, to |-> <<>>, content |-> None, pc |-> "idle",
           k |-> 0, ofBatch |-> FALSE, result |-> None, was |-> <<>>, touched |-> {}]

NoBatch == [op |-> "walk", targets |-> {}, phase |-> "idle", pending |-> {}, listed |-> {},
            found |-> {}, queue |-> {}, deleted |-> {}, failed |-> {}, was |-> <<>>,
            touched |-> {}]

Busy(c) == call[c].pc \notin {"idle", "done"}

Init ==
  /\ kind \in Kinds /\ store \in Stores
  /\ InFolders => \A p \in Paths : store[p] # None /\ Len(p) > 1 => IsFolder(Front(p))
  /\ ~InFolders => \A p \in Paths : store[p] # Folder
  /\ sidecar = [p \in Paths |-> IF kind = "local" /\ IsFile(p) THEN store[p] ELSE None]
  /\ call = [c \in Worker |-> NoCall] /\ batch = NoBatch
  /\ jobs = 0 /\ faults = 0 /\ calm = TRUE /\ astray = {}

\* A step of c: what it changes is new to everybody else.
Become(c, next) ==
  LET changed == {q \in Paths : store'[q] # store[q]}
      told(rec) == [rec EXCEPT !.touched = IF rec.was = <<>> THEN @ ELSE @ \cup changed]
  IN
  /\ call' = [d \in Worker |-> IF d = c THEN next ELSE told(call[d])]
  /\ batch' = IF call[c].ofBatch THEN batch ELSE told(batch)

Done(rec, result) == [rec EXCEPT !.pc = "done", !.result = result]
Go(rec, label) == [rec EXCEPT !.pc = label]

Spend == faults < MaxFaults /\ faults' = faults + 1 /\ calm' = FALSE /\ UNCHANGED astray

-----------------------------------------------------------------------------
(* Types that are not carried.  A copy or a move carries the sidecar of    *)
(* its source and of nothing below it, and a move onto itself removes it.  *)

\* What there is to copy or move, and where it goes.
Source(rec) == {q \in Scope(rec.path) : store[q] # None}

Images(rec) == {Image(rec.path, rec.to, q) : q \in Source(rec)}

\* Where a copy or a move leaves files without the type that they had.
Uncarried(rec) ==
  IF rec.path = rec.to THEN {rec.path}
  ELSE {q \in Images(rec) : q # rec.to \/ rec.path \in astray}

\* What is astray after a step of a local call; an upload gives a type anew.
Strays(rec) ==
  IF kind # "local" \/ rec.pc # "act" \/ rec.op = "delete" THEN astray
  ELSE (astray \ {rec.to}) \cup (IF rec.op = "upload" THEN {} ELSE Uncarried(rec))

-----------------------------------------------------------------------------
(* Steps of calls.                                                         *)

\* The request took effect; its answer may be lost, and the request retried.
Answered(c, next) ==
  \/ Become(c, next) /\ astray' = Strays(call[c]) /\ UNCHANGED <<faults, calm>>
  \/ Remote /\ Spend /\ \E rec \in {call[c], Done(call[c], "error")} : Become(c, rec)

\* Nothing happens; the provider says no.
Refused(c) ==
  /\ store' = store /\ Become(c, Done(call[c], "error"))
  /\ UNCHANGED <<faults, calm, astray>>

NeedsFolders(op) == op \in {"upload", "copy", "move", "createFolder"}

StartCall(c) ==
  /\ ~Busy(c) /\ ~call[c].ofBatch /\ jobs < MaxJobs /\ jobs' = jobs + 1
  /\ \E op \in {"upload", "delete", "copy", "move"} \cup IF InFolders THEN {"createFolder"} ELSE {},
        p \in Paths :
       \E q \in IF op \in {"copy", "move"} THEN Paths ELSE {p},
          v \in IF op = "upload" THEN Contents ELSE {None} :
         /\ call' = [call EXCEPT ![c] =
              [NoCall EXCEPT !.op = op, !.path = p, !.to = q, !.content = v,
                 !.pc = IF InFolders /\ NeedsFolders(op) THEN "folders" ELSE "act",
                 !.was = store]]
         /\ calm' = (calm /\ batch.phase \notin {"walk", "delete"} /\ \A d \in Worker : ~Busy(d))
  /\ UNCHANGED <<kind, store, sidecar, batch, faults, astray>>

\* The folders above the target; createFolder makes the target too.
Parents(rec) == IF rec.op = "createFolder" THEN Len(rec.to) ELSE Len(rec.to) - 1

\* mkdir recursive, or one MKCOL: 405, something is there, will do.
MakeFolders(c) ==
  LET rec  == call[c]
      upto == IF kind = "local" THEN Parents(rec) ELSE Min({rec.k + 1, Parents(rec)})
      made == {SubSeq(rec.to, 1, i) : i \in 1..upto}
      next == IF upto < Parents(rec) THEN [rec EXCEPT !.k = upto]
              ELSE IF rec.op = "createFolder" THEN Done(rec, "ok") ELSE Go(rec, "act")
  IN
  /\ rec.pc = "folders"
  /\ IF \/ \E q \in made : Len(q) < upto /\ IsFile(q)
        \/ kind = "local" /\ \E q \in made : IsFile(q)
        \/ kind = "webdav" /\ \E q \in made : Len(q) < upto /\ store[q] = None
     THEN Refused(c)
     ELSE /\ store' = [q \in Paths |-> IF q \in made /\ store[q] = None THEN Folder ELSE store[q]]
          /\ Answered(c, next)
  /\ UNCHANGED <<kind, sidecar, jobs>>

Reachable(p) == InFolders => IsFolder(Front(p))

\* writeFile, PUT, Map.set.
Upload(c) ==
  LET rec == call[c] IN
  /\ rec.pc = "act" /\ rec.op = "upload"
  /\ IF ~Reachable(rec.to) \/ IsFolder(rec.to) THEN Refused(c)
     ELSE /\ store' = [store EXCEPT ![rec.to] = rec.content]
          /\ Answered(c, IF kind = "local" THEN Go(rec, "sidecar") ELSE Done(rec, "ok"))
  /\ UNCHANGED <<kind, sidecar, jobs>>

\* What is not there is deleted already.  Folders go with what they hold.
Delete(c) ==
  LET rec == call[c] IN
  /\ rec.pc = "act" /\ rec.op = "delete"
  /\ store' = [q \in Paths |-> IF q \in Scope(rec.path) THEN None ELSE store[q]]
  /\ Answered(c, IF kind = "local" THEN Go(rec, "unsidecar") ELSE Done(rec, "ok"))
  /\ UNCHANGED <<kind, sidecar, jobs>>

\* What would lie deeper than Paths is refused.
Fits(rec) ==
  /\ store[rec.path] # None /\ Reachable(rec.to)
  /\ \A q \in Source(rec) : Image(rec.path, rec.to, q) \in Paths

Placed(rec) ==
  [r \in Paths |->
     IF r \in Images(rec) THEN store[rec.path \o SubSeq(r, Len(rec.to) + 1, Len(r))] ELSE store[r]]

Without(entries, paths) == [q \in Paths |-> IF q \in paths THEN None ELSE entries[q]]

\* Overwrite: T replaces what is there.
Replaced(rec) == Without(Placed(rec), Within(rec.to) \ Images(rec))

Apart(rec) == ~IsPrefix(rec.path, rec.to) /\ ~IsPrefix(rec.to, rec.path)

SameSort(p, q) == store[q] = None \/ (IsFolder(p) <=> IsFolder(q))

\* Mutant: the source of a move stays.
CopyEndsMoveMutant(c) ==
  LET rec == call[c] IN
  /\ rec.pc = "act" /\ (rec.op = "copy" \/ (rec.op = "move" /\ ~InFolders))
  /\ IF \/ ~Fits(rec)
        \/ kind = "webdav" /\ ~Apart(rec)
        \/ kind = "local" /\ (\/ IsPrefix(rec.path, rec.to)
                              \/ \E q \in Source(rec) : ~SameSort(q, Image(rec.path, rec.to, q)))
     THEN Refused(c)
     ELSE /\ store' = IF kind = "webdav" THEN Replaced(rec) ELSE Placed(rec)
          /\ Answered(c, IF kind = "local" THEN Go(rec, "sidecar")
                         ELSE Done(rec, "ok"))
  /\ UNCHANGED <<kind, sidecar, jobs>>

\* Copy Object, COPY, fs.cp, which merges folders; and the first half of a move
\* where there are no folders.
Copy(c) ==
  LET rec == call[c] IN
  /\ rec.pc = "act" /\ (rec.op = "copy" \/ (rec.op = "move" /\ ~InFolders))
  /\ IF \/ ~Fits(rec)
        \/ kind = "webdav" /\ ~Apart(rec)
        \/ kind = "local" /\ (\/ IsPrefix(rec.path, rec.to)
                              \/ \E q \in Source(rec) : ~SameSort(q, Image(rec.path, rec.to, q)))
     THEN Refused(c)
     ELSE /\ store' = IF kind = "webdav" THEN Replaced(rec) ELSE Placed(rec)
          /\ Answered(c, IF rec.op = "move" THEN Go(rec, "remove")
                         ELSE IF kind = "local" THEN Go(rec, "sidecar")
                         ELSE Done(rec, "ok"))
  /\ UNCHANGED <<kind, sidecar, jobs>>

\* The second half of a move of memory and S3.
RemoveSource(c) ==
  LET rec == call[c] IN
  /\ rec.pc = "remove"
  /\ store' = Without(store, {rec.path})
  /\ Answered(c, Done(rec, "ok"))
  /\ UNCHANGED <<kind, sidecar, jobs>>

\* MOVE, fs.rename, which replaces a file, or a folder that is empty.
Move(c) ==
  LET rec == call[c] IN
  /\ rec.pc = "act" /\ rec.op = "move" /\ InFolders
  /\ IF \/ ~Fits(rec)
        \/ kind = "webdav" /\ ~Apart(rec)
        \/ kind = "local" /\ rec.path # rec.to
             /\ (\/ IsPrefix(rec.path, rec.to)
                 \/ ~SameSort(rec.path, rec.to)
                 \/ \E q \in Below(rec.to) : store[q] # None)
     THEN Refused(c)
     ELSE /\ store' = Without(Replaced(rec), Source(rec) \ Images(rec))
          /\ Answered(c, IF kind = "local" THEN Go(rec, "sidecar") ELSE Done(rec, "ok"))
  /\ UNCHANGED <<kind, sidecar, jobs>>

\* Mutant: move leaves the type where it was.
WriteSidecarCopyOnlyMutant(c) ==
  LET rec == call[c] IN
  /\ rec.pc = "sidecar"
  /\ sidecar' = IF rec.op = "move" THEN sidecar
                ELSE [sidecar EXCEPT ![rec.to] = IF rec.op = "upload" THEN rec.content ELSE sidecar[rec.path]]
  /\ UNCHANGED <<kind, store, jobs, faults, calm, astray>>
  /\ Become(c, IF rec.op = "move" THEN Go(rec, "unsidecar")
               ELSE Done(rec, IF rec.op = "upload" /\ store[rec.to] = None THEN "error" ELSE "ok"))

\* writeSidecar: of what was uploaded, or as the source's sidecar says, if it
\* has one.
WriteSidecar(c) ==
  LET rec  == call[c]
      type == IF rec.op = "upload" THEN rec.content ELSE sidecar[rec.path]
  IN
  /\ rec.pc = "sidecar"
  /\ sidecar' = IF type = None THEN sidecar ELSE [sidecar EXCEPT ![rec.to] = type]
  /\ UNCHANGED <<kind, store, jobs, faults, calm, astray>>
  /\ Become(c, IF rec.op = "move" THEN Go(rec, "unsidecar")
               ELSE Done(rec, IF rec.op = "upload" /\ store[rec.to] = None THEN "error" ELSE "ok"))

RemoveSidecar(c) ==
  /\ call[c].pc = "unsidecar"
  /\ sidecar' = [sidecar EXCEPT ![call[c].path] = None]
  /\ UNCHANGED <<kind, store, jobs, faults, calm, astray>>
  /\ Become(c, Done(call[c], "ok"))

\* Mutant: the failure of a move's first half goes unnoticed.
FailUnnoticedMutant(c) ==
  /\ Busy(c) /\ kind # "memory" /\ Spend
  /\ store' = store
  /\ Become(c, IF call[c].op = "move" /\ ~InFolders THEN Go(call[c], "remove")
               ELSE Done(call[c], "error"))
  /\ UNCHANGED <<kind, sidecar, jobs>>

\* The request fails and nothing happens.  Memory has nothing that fails.
Fail(c) ==
  /\ Busy(c) /\ kind # "memory" /\ Spend
  /\ store' = store /\ Become(c, Done(call[c], "error"))
  /\ UNCHANGED <<kind, sidecar, jobs>>

-----------------------------------------------------------------------------
(* Batches.                                                                *)

StartBatch ==
  /\ batch.phase \notin {"walk", "delete"} /\ jobs < MaxJobs /\ jobs' = jobs + 1
  /\ \/ \E p \in Paths \cup {<<>>} :
          batch' = [NoBatch EXCEPT !.targets = {p}, !.phase = "walk", !.pending = {p}, !.was = store]
     \/ \E p \in Paths :
          batch' = [NoBatch EXCEPT !.op = "deleteTree", !.targets = {p}, !.phase = "walk",
                      !.pending = {p}, !.was = store]
     \/ \E ps \in kSubset(2, Paths) :
          batch' = [NoBatch EXCEPT !.op = "deleteMany", !.targets = ps, !.phase = "delete",
                      !.queue = ps, !.was = store]
  /\ calm' = (calm /\ \A c \in Worker : ~Busy(c))
  /\ UNCHANGED <<kind, store, sidecar, call, faults, astray>>

Holds(p) == \E q \in Below(p) : store[q] # None

\* "Skip the parent directory self-reference": by the end of its name.
TakenForParent(p, q) ==
  kind = "webdav" /\ IsSuffix(<<RootName>> \o p, <<RootName>> \o q)

Listed(p) ==
  {q \in Paths : /\ Front(q) = p /\ (store[q] # None \/ Holds(q))
                 /\ ~TakenForParent(p, q)}

\* Mutant: a prefix of keys is no folder.
LooksLikeFolderMutant(q) == IsFolder(q)

\* Where there are no folders, a prefix of keys looks like one.
LooksLikeFolder(q) == IF InFolders THEN IsFolder(q) ELSE Holds(q)

\* One call of list, or one page of a bucket's.  Which folder is next is left
\* open; a folder that is gone, or a file that is listed, fails the walk.
ListNext ==
  /\ batch.phase = "walk"
  /\ \E p \in batch.pending :
       IF InFolders /\ p # <<>> /\ (store[p] = None \/ (kind = "local" /\ IsFile(p)))
       THEN batch' = [batch EXCEPT !.phase = "rejected"]
       ELSE LET rest == IF InFolders /\ ~IsFolder(p) THEN {} ELSE Listed(p) \ batch.listed
            IN  \E page \in IF kind = "s3" THEN SUBSET rest ELSE {rest} :
                  /\ page # {} \/ rest = {}
                  /\ batch' = [batch EXCEPT
                       !.found = @ \cup page,
                       !.pending = (@ \cup {q \in page : LooksLikeFolder(q)})
                                   \ (IF page = rest THEN {p} ELSE {}),
                       !.listed = IF page = rest THEN {} ELSE @ \cup page]
  /\ UNCHANGED <<kind, store, sidecar, call, jobs, faults, calm, astray>>

ListFails ==
  /\ batch.phase = "walk" /\ kind # "memory" /\ Spend
  /\ batch' = [batch EXCEPT !.phase = "rejected"]
  /\ UNCHANGED <<kind, store, sidecar, call, jobs>>

\* deleteTree: descendants, then the path itself.
EndWalk ==
  /\ batch.phase = "walk" /\ batch.pending = {}
  /\ batch' = IF batch.op = "walk" THEN [batch EXCEPT !.phase = "report"]
              ELSE [batch EXCEPT !.phase = "delete", !.queue = batch.found \cup batch.targets]
  /\ UNCHANGED <<kind, store, sidecar, call, jobs, faults, calm, astray>>

Deleting == {c \in Worker : call[c].ofBatch}

Limit == IF batch.op = "deleteTree" THEN 1 ELSE Concurrency

\* queue.shift(): "Deepest first" for a tree.
TakeNext(c) ==
  /\ batch.phase = "delete" /\ ~Busy(c) /\ ~call[c].ofBatch
  /\ Cardinality(Deleting) < Limit
  /\ \E p \in batch.queue :
       /\ batch.op = "deleteTree" => \A q \in batch.queue : Len(q) <= Len(p)
       /\ call' = [call EXCEPT ![c] = [NoCall EXCEPT !.path = p, !.to = p, !.pc = "act",
                                         !.ofBatch = TRUE]]
       /\ batch' = [batch EXCEPT !.queue = @ \ {p}]
  /\ UNCHANGED <<kind, store, sidecar, jobs, faults, calm, astray>>

\* "One failure does not abort the rest".
Collect(c) ==
  /\ call[c].ofBatch /\ call[c].pc = "done"
  /\ batch' = IF call[c].result = "ok" THEN [batch EXCEPT !.deleted = @ \cup {call[c].path}]
              ELSE [batch EXCEPT !.failed = @ \cup {call[c].path}]
  /\ call' = [call EXCEPT ![c] = NoCall]
  /\ UNCHANGED <<kind, store, sidecar, jobs, faults, calm, astray>>

Report ==
  /\ batch.phase = "delete" /\ batch.queue = {} /\ Deleting = {}
  /\ batch' = [batch EXCEPT !.phase = "report"]
  /\ UNCHANGED <<kind, store, sidecar, call, jobs, faults, calm, astray>>

Next ==
  \/ \E c \in Worker :
       \/ StartCall(c)
       \/ MakeFolders(c)
       \/ Upload(c)
       \/ Delete(c)
       \/ Copy(c)
       \/ RemoveSource(c)
       \/ Move(c)
       \/ WriteSidecar(c)
       \/ RemoveSidecar(c)
       \/ Fail(c)
       \/ TakeNext(c)
       \/ Collect(c)
  \/ StartBatch
  \/ ListNext
  \/ ListFails
  \/ EndWalk
  \/ Report

Spec == Init /\ [][Next]_vars

-----------------------------------------------------------------------------
(* Properties.                                                             *)

\* What nobody else touched while the batch ran.
Own == Paths \ batch.touched

\* A walk finds every file below its path, save what WebDAV takes for the
\* folder it lists and what is below that.
WalkAccounts ==
  \A q \in Own : batch.was[q] \in Contents /\ (\E p \in batch.targets : IsStrictPrefix(p, q)) =>
    \/ q \in batch.found
    \/ \E i \in 1..Len(q) : TakenForParent(SubSeq(q, 1, i - 1), SubSeq(q, 1, i))

DeleteAccounts ==
  /\ batch.targets \subseteq batch.deleted \cup batch.failed
  /\ \A q \in Own : (\E p \in batch.targets : IF batch.op = "deleteTree" THEN IsPrefix(p, q)
                                               ELSE q \in Scope(p)) =>
       store[q] = None \/ \E f \in batch.failed : IsPrefix(f, q)

\* Whatever overlaps a batch, when it reports then every file that was below
\* its path, and that nobody else touched, is in the walk, or gone, or below a
\* path reported as failed; and nothing else is gone.  A walk that fails has
\* deleted nothing.
Accounted ==
  /\ batch.phase = "report" => IF batch.op = "walk" THEN WalkAccounts ELSE DeleteAccounts
  /\ batch.phase \in {"report", "rejected"} =>
       \A q \in Own :
         \/ store[q] = batch.was[q]
         \/ /\ batch.phase = "report" /\ batch.op # "walk"
            /\ \E p \in batch.targets : IF batch.op = "deleteTree" THEN IsPrefix(p, q)
                                        ELSE q \in Scope(p)

Undisturbed(rec) == rec.touched \cap (Within(rec.path) \cup Within(rec.to)) = {}

\* What a move moves is at its source or its destination at every moment,
\* whatever fails and is retried, unless others touch what is below either (a
\* MOVE retried after others made the source anew replaces what it moved), or
\* they are the same.
MoveKeeps ==
  \A c \in Worker :
    LET rec == call[c] IN
    rec.op = "move" /\ rec.pc # "idle" /\ rec.path # rec.to =>
      \A q \in Scope(rec.path) :
        LET image == Image(rec.path, rec.to, q) IN
        rec.was[q] \in Contents /\ Undisturbed(rec) =>
          store[q] = rec.was[q] \/ (image \in Paths /\ store[image] = rec.was[q])

Arrived(rec) ==
  \A q \in Scope(rec.path) :
    rec.was[q] # None => store[Image(rec.path, rec.to, q)] = rec.was[q]

\* A call that says it is done did the same with every provider, folders or
\* none, if nobody else touched its paths.  But memory and S3 lose what is moved
\* onto itself, and WebDAV takes a file for the folder to create.
OkMeansDone ==
  \A c \in Worker :
    LET rec == call[c] IN
    rec.result = "ok" /\ ~rec.ofBatch /\ Undisturbed(rec) =>
      CASE rec.op = "upload" -> store[rec.to] = rec.content
        [] rec.op = "delete" -> \A q \in Scope(rec.path) : store[q] = None
        [] rec.op = "createFolder" -> IsFolder(rec.to) \/ (kind = "webdav" /\ IsFile(rec.to))
        [] rec.op = "copy" -> Arrived(rec)
        [] rec.op = "move" -> \/ rec.path = rec.to
                              \/ Arrived(rec) /\ \A q \in Scope(rec.path) : store[q] = None

\* Local: whatever calls came one after the other, a file has the type it was
\* uploaded with, through any chain of copies and moves; the sidecars that
\* deleted and moved folders leave behind never show.  The exceptions are the
\* paths astray: a file that came with its folder, when that was copied or
\* moved, one that was moved onto itself, and copies of these, until something
\* is uploaded there.
TypeFollows ==
  kind = "local" /\ calm /\ (\A c \in Worker : ~Busy(c)) =>
    \A p \in Paths \ astray : IsFile(p) => sidecar[p] = store[p]

===============================================================================
