------------------------------ MODULE DrivePaths ------------------------------
(***************************************************************************)
(* GoogleDriveProvider of packages/google-drive/src/adapter.ts over        *)
(* GoogleDrivePathResolver (paths/virtual-path.ts) and DriveHttpClient     *)
(* (api/http.ts).  Drive knows ids, not paths, and allows siblings of one  *)
(* name: a path is resolved folder by folder, missing folders are created, *)
(* and what was found is cached.  Calls overlap at every fetch, and people *)
(* change their Drive by other means.  Drive itself is external.           *)
(***************************************************************************)
EXTENDS Naturals, FiniteSetsExt, SequencesExt

CONSTANTS
  Caller,      \* the calls that may be under way at once
  Root,        \* the name of the application's folder
  Paths,       \* the virtual paths in use, each beginning with Root
  MaxRetries,  \* of one request: 3 in the code
  MaxNodes,    \* bound: how many files and folders are ever created
  MaxCalls,    \* bound: how many calls are made
  MaxEvents    \* bound: how many answers are lost or refused, entries expire,
               \* caches are cleared and files deleted by others

Names == UNION {{p[i] : i \in 1..Len(p)} : p \in Paths}

ASSUME PathsAssumption ==
  /\ Paths \subseteq Seq(Names) /\ <<Root>> \in Paths
  /\ \A p \in Paths : p # <<>> /\ p[1] = Root /\ (Len(p) > 1 => Front(p) \in Paths)
ASSUME BoundsAssumption == {MaxRetries, MaxNodes, MaxCalls, MaxEvents} \subseteq Nat

VARIABLES
  nodes,  \* the files and folders of the Drive, in the order of creation
  cache,  \* the id cached for each path, 0: none
  memo,   \* rootFolderId, which does not expire, 0: none
  call,   \* what each caller is at
  calls,  \* how many calls were made
  events, \* how many of the events above occurred
  moved   \* history: a node was moved or removed, or the cache cleared

vars == <<nodes, cache, memo, call, calls, events, moved>>

\* 0 is the top of the user's Drive.
Node == [name : Names, parent : 0..MaxNodes,
         folder : BOOLEAN, state : {"live", "trashed", "gone"}]

Ids == 1..Len(nodes)

\* A folder takes what is below it along.
Visible(n) ==
  LET up[m \in 0..Len(nodes)] ==
        m = 0 \/ (nodes[m].state = "live" /\ up[nodes[m].parent])
  IN  up[n]

Below(n) ==
  LET down[m \in 0..Len(nodes)] == m # 0 /\ (m = n \/ down[nodes[m].parent])
  IN  {m \in Ids : down[m]}

\* The visible nodes that a search finds.
Search(parent, name, foldersOnly) ==
  {n \in Ids : /\ nodes[n].parent = parent /\ nodes[n].name = name /\ Visible(n)
               /\ foldersOnly => nodes[n].folder}

\* Reference: the nodes that a path leads to.
At(path) ==
  LET reach[k \in 0..Len(path)] ==
        IF k = 0 THEN {0}
        ELSE UNION {Search(n, path[k], k < Len(path)) : n \in reach[k - 1]}
  IN  reach[Len(path)]

-----------------------------------------------------------------------------
(* Calls.  A call first resolves what its plan names, then makes its own   *)
(* request.                                                                *)

\* read is metadata and list; the two requests of a download are one.
Ops == {"upload", "download", "delete", "trash", "copy", "move", "exists", "read", "createFolder"}

Goal(kind, path) == [kind |-> kind, path |-> path]
FolderOf(path) == Goal("folder", IF Len(path) > 1 THEN Front(path) ELSE path)

Plan(op, p, q) ==
  CASE op = "upload" -> <<FolderOf(p)>>
    [] op = "createFolder" -> <<Goal("folder", p)>>
    [] op = "copy" -> <<Goal("file", p), FolderOf(q)>>
    [] op = "move" -> <<Goal("file", p), FolderOf(p), FolderOf(q)>>
    [] OTHER -> <<Goal("file", p)>>

NoReply == [status |-> "none", ids |-> {}]
Answer(status, ids) == [status |-> status, ids |-> ids]

\* look is the path resolved so far and under its id; ids are the goals that
\* were reached; alone (history) says that nothing else happened meanwhile, no
\* answer was lost, and that the cache was right when the call began.
Idle == [op |-> "exists", path |-> <<Root>>, to |-> <<Root>>, plan |-> <<>>,
         look |-> <<>>, under |-> 0, ids |-> <<>>, healed |-> FALSE,
         pc |-> "idle", attempt |-> 1, reply |-> NoReply, result |-> "none", alone |-> FALSE]

Init ==
  /\ nodes = <<>> /\ cache = [p \in Paths |-> 0] /\ memo = 0
  /\ call = [c \in Caller |-> Idle] /\ calls = 0 /\ events = 0 /\ moved = FALSE

\* Any step of one call ends the solitude of the others.
Become(c, next) ==
  call' = [d \in Caller |-> IF d = c THEN next ELSE [call[d] EXCEPT !.alone = FALSE]]

Disturb == call' = [d \in Caller |-> [call[d] EXCEPT !.alone = FALSE]]

Twins == \E m, n \in Ids : m # n /\ Visible(m) /\ n \in Search(nodes[m].parent, nodes[m].name, FALSE)

RightEntry(p) == cache[p] \in {0} \cup At(p)

\* The cache is right; for a download the entry of its path may name a file
\* that is gone.
RightFor(op, p) ==
  /\ memo \in {0} \cup At(<<Root>>)
  /\ \A q \in Paths :
       RightEntry(q) \/ (op = "download" /\ q = p /\ Len(p) > 1 /\ nodes[cache[q]].state = "gone")

End(rec, result) ==
  [Idle EXCEPT !.op = rec.op, !.path = rec.path, !.to = rec.to, !.ids = rec.ids,
               !.pc = "done", !.result = result, !.alone = rec.alone]

Ask(rec, label) == [rec EXCEPT !.pc = label, !.reply = NoReply, !.attempt = 1]

-----------------------------------------------------------------------------
(* The resolver.  Between two requests a call only looks into the cache:   *)
(* these lookups are one step with the answer that comes before them.      *)

Prefix(path, k) == SubSeq(path, 1, k)

Reached(rec, id) ==
  [rec EXCEPT !.ids = Append(@, id), !.plan = SubSeq(@, 2, Len(@)), !.look = <<>>, !.under = 0,
              !.pc = "resolve"]

\* Mutant: a folder found in the cache does not become the parent.
PursueKeepsParentMutant(s, entries) ==
  LET rec    == s.call
      goal   == rec.plan[1]
      folder == IF goal.kind = "folder" THEN goal.path ELSE Front(goal.path)
      root   == IF s.memo # 0 THEN s.memo ELSE entries[<<Root>>]
      known  == [entries EXCEPT ![<<Root>>] = root]
      whole  == rec.look = <<>> /\ known[folder] # 0
      depth  == CHOOSE k \in Len(rec.look)..Len(folder) :
                  IF whole THEN k = Len(folder)
                  ELSE /\ \A i \in (Len(rec.look) + 1)..k : known[Prefix(folder, i)] # 0
                       /\ k < Len(folder) => known[Prefix(folder, k + 1)] = 0
      under  == IF whole THEN known[folder] ELSE rec.under
  IN
  IF goal.kind = "file" /\ rec.look = <<>> /\ entries[goal.path] # 0
  THEN [s EXCEPT !.call = Reached(rec, entries[goal.path])]
  ELSE [call |-> IF depth = Len(folder) /\ goal.kind = "folder" THEN Reached(rec, under)
                 ELSE Ask([rec EXCEPT !.look = Prefix(folder, depth), !.under = under], "search"),
        memo |-> IF rec.look = <<>> /\ (Len(folder) = 1 \/ ~whole) THEN root ELSE s.memo]

\* resolveFileId, resolveOrCreateFolderPath, ensureRootFolder: the whole path is
\* looked up first, then each of its folders, to an id or to the first search.
Pursue(s, entries) ==
  LET rec    == s.call
      goal   == rec.plan[1]
      folder == IF goal.kind = "folder" THEN goal.path ELSE Front(goal.path)
      root   == IF s.memo # 0 THEN s.memo ELSE entries[<<Root>>]
      known  == [entries EXCEPT ![<<Root>>] = root]
      whole  == rec.look = <<>> /\ known[folder] # 0
      depth  == CHOOSE k \in Len(rec.look)..Len(folder) :
                  IF whole THEN k = Len(folder)
                  ELSE /\ \A i \in (Len(rec.look) + 1)..k : known[Prefix(folder, i)] # 0
                       /\ k < Len(folder) => known[Prefix(folder, k + 1)] = 0
      under  == IF depth > Len(rec.look) THEN known[Prefix(folder, depth)] ELSE rec.under
  IN
  IF goal.kind = "file" /\ rec.look = <<>> /\ entries[goal.path] # 0
  THEN [s EXCEPT !.call = Reached(rec, entries[goal.path])]
  ELSE [call |-> IF depth = Len(folder) /\ goal.kind = "folder" THEN Reached(rec, under)
                 ELSE Ask([rec EXCEPT !.look = Prefix(folder, depth), !.under = under], "search"),
        memo |-> IF rec.look = <<>> /\ (Len(folder) = 1 \/ ~whole) THEN root ELSE s.memo]

\* Goal after goal, to the first request.
Onward(s, entries) == IF s.call.pc = "resolve" THEN Pursue(s, entries) ELSE s

Resolve(rec, entries, id) ==
  LET far[k \in 0..Len(rec.plan)] ==
        IF k = 0 THEN [call |-> rec, memo |-> id] ELSE Onward(far[k - 1], entries)
  IN  far[Len(rec.plan)]

\* On to the next request; exists is done when its path is resolved.
Proceed(c, rec, entries, id) ==
  LET far == Resolve(rec, entries, id) IN
  /\ cache' = entries
  /\ memo' = far.memo
  /\ Become(c, IF far.call.pc # "resolve" THEN far.call
               ELSE IF rec.op = "exists" THEN End(far.call, "ok")
               ELSE Ask(far.call, "act"))

Start(c) ==
  /\ call[c].pc \in {"idle", "done"} /\ calls < MaxCalls /\ calls' = calls + 1
  /\ \E op \in Ops, p \in Paths \ {<<Root>>} :
       \E q \in IF op \in {"copy", "move"} THEN Paths \ {<<Root>>} ELSE {p} :
         Proceed(c, [Idle EXCEPT !.op = op, !.path = p, !.to = q, !.plan = Plan(op, p, q),
                       !.pc = "resolve",
                       !.alone = /\ \A d \in Caller : call[d].pc \in {"idle", "done"}
                                 /\ RightFor(op, p) /\ ~Twins], cache, memo)
  /\ UNCHANGED <<nodes, events, moved>>

\* The path that a search of this call is about.
Sought(rec) == Prefix(rec.plan[1].path, Len(rec.look) + 1)

SeeksFolder(rec) == rec.plan[1].kind = "folder" \/ Sought(rec) # rec.plan[1].path

\* The id of the path that was sought.
Taken(rec, id) ==
  IF SeeksFolder(rec) THEN [rec EXCEPT !.look = Sought(rec), !.under = id, !.pc = "resolve"]
  ELSE Reached(rec, id)

RootId(rec, id) == IF Sought(rec) = <<Root>> THEN id ELSE memo

Settle(c, id) ==
  Proceed(c, Taken(call[c], id), [cache EXCEPT ![Sought(call[c])] = id], RootId(call[c], id))

\* files[0] of the search for a folder, the last modified of the files: which
\* one that is, is left open.
OnFound(c) ==
  /\ call[c].pc = "search" /\ call[c].reply.status = "ok"
  /\ \E id \in call[c].reply.ids : Settle(c, id)
  /\ UNCHANGED <<nodes, calls, events, moved>>

CreateFolder(c) ==
  /\ call[c].pc = "search" /\ call[c].reply = Answer("ok", {}) /\ SeeksFolder(call[c])
  /\ Become(c, Ask(call[c], "create"))
  /\ UNCHANGED <<nodes, cache, memo, calls, events, moved>>

OnFolder(c) ==
  /\ call[c].pc = "create" /\ call[c].reply.status = "ok"
  /\ \E id \in call[c].reply.ids : Settle(c, id)
  /\ UNCHANGED <<nodes, calls, events, moved>>

-----------------------------------------------------------------------------
(* The adapter.                                                            *)

\* Mutant: move does not drop what is cached for the source.
OnActedKeepsSourceMutant(c) ==
  LET rec == call[c] IN
  /\ rec.pc = "act" /\ rec.reply.status = "ok"
  /\ cache' = CASE rec.op \in {"upload", "copy"} -> [cache EXCEPT ![rec.to] = Max(rec.reply.ids)]
                [] rec.op \in {"delete", "trash"} -> [cache EXCEPT ![rec.path] = 0]
                [] rec.op = "move" -> [cache EXCEPT ![rec.to] = rec.ids[1]]
                [] OTHER -> cache
  /\ Become(c, End([rec EXCEPT !.ids = SetToSeq(rec.reply.ids)], "ok"))
  /\ UNCHANGED <<nodes, memo, calls, events, moved>>

\* Mutant: an upload caches its folder for its path.
OnActedCachesFolderMutant(c) ==
  LET rec == call[c] IN
  /\ rec.pc = "act" /\ rec.reply.status = "ok"
  /\ cache' = CASE rec.op \in {"upload", "copy"} -> [cache EXCEPT ![rec.to] = rec.ids[Len(rec.ids)]]
                [] rec.op \in {"delete", "trash"} -> [cache EXCEPT ![rec.path] = 0]
                [] rec.op = "move" -> [cache EXCEPT ![rec.path] = 0, ![rec.to] = rec.ids[1]]
                [] OTHER -> cache
  /\ Become(c, End([rec EXCEPT !.ids = SetToSeq(rec.reply.ids)], "ok"))
  /\ UNCHANGED <<nodes, memo, calls, events, moved>>

\* setCached after an upload or a copy, invalidate after a deletion, both
\* after a move.
OnActed(c) ==
  LET rec == call[c] IN
  /\ rec.pc = "act" /\ rec.reply.status = "ok"
  /\ cache' = CASE rec.op \in {"upload", "copy"} -> [cache EXCEPT ![rec.to] = Max(rec.reply.ids)]
                [] rec.op \in {"delete", "trash"} -> [cache EXCEPT ![rec.path] = 0]
                [] rec.op = "move" -> [cache EXCEPT ![rec.path] = 0, ![rec.to] = rec.ids[1]]
                [] OTHER -> cache
  /\ Become(c, End([rec EXCEPT !.ids = SetToSeq(rec.reply.ids)], "ok"))
  /\ UNCHANGED <<nodes, memo, calls, events, moved>>

NotFound(rec) ==
  \/ rec.reply.status = "missing"
  \/ rec.pc = "search" /\ rec.reply = Answer("ok", {}) /\ ~SeeksFolder(rec)

\* resolveFileId forgets a path that is not there.
Forgotten(rec) == IF rec.reply.status = "missing" THEN cache ELSE [cache EXCEPT ![rec.path] = 0]

\* skipCache: the file itself is searched for.
Fresh(rec) ==
  [rec EXCEPT !.plan = <<Goal("fresh", rec.path)>>, !.ids = <<>>, !.look = <<>>, !.under = 0,
              !.pc = "resolve"]

\* "If 404 occurs on cached ID, invalidate cache and retry once".
Heal(c) ==
  /\ call[c].op = "download" /\ ~call[c].healed /\ NotFound(call[c])
  /\ Proceed(c, [Fresh(call[c]) EXCEPT !.healed = TRUE], [cache EXCEPT ![call[c].path] = 0], memo)
  /\ UNCHANGED <<nodes, calls, events, moved>>

RejectMissing(c) ==
  /\ NotFound(call[c]) /\ (call[c].op = "download" => call[c].healed)
  /\ cache' = Forgotten(call[c])
  /\ Become(c, End(call[c], "missing"))
  /\ UNCHANGED <<nodes, memo, calls, events, moved>>

\* withRetry, for every request alike.
Retry(c) ==
  /\ call[c].reply.status = "unavailable" /\ call[c].attempt <= MaxRetries
  /\ Become(c, [call[c] EXCEPT !.attempt = @ + 1, !.reply = NoReply, !.alone = FALSE])
  /\ UNCHANGED <<nodes, cache, memo, calls, events, moved>>

Reject(c) ==
  /\ \/ call[c].reply.status = "refused"
     \/ call[c].reply.status = "unavailable" /\ call[c].attempt > MaxRetries
  /\ Become(c, End(call[c], "error"))
  /\ UNCHANGED <<nodes, cache, memo, calls, events, moved>>

Event == events < MaxEvents /\ events' = events + 1

\* disconnect; TTL and LRU: an entry expires, or another takes its place.
ClearCache ==
  /\ Event /\ (\E p \in Paths : cache[p] # 0)
  /\ cache' = [p \in Paths |-> 0] /\ memo' = 0 /\ moved' = TRUE
  /\ Disturb /\ UNCHANGED <<nodes, calls>>

Expire ==
  /\ Event
  /\ \E p \in Paths : cache[p] # 0 /\ cache' = [cache EXCEPT ![p] = 0]
  /\ UNCHANGED <<nodes, memo, call, calls, moved>>

-----------------------------------------------------------------------------
(* Drive.                                                                  *)

\* One outage lasts over the retries.
Fail(c) ==
  /\ IF call[c].attempt = 1 THEN Event ELSE UNCHANGED events
  /\ \E status \in {"unavailable", "refused"} :
       Become(c, [call[c] EXCEPT !.reply = Answer(status, {}), !.alone = FALSE])

\* The request took effect; its answer may be lost.
Respond(c, answer) ==
  \/ Become(c, [call[c] EXCEPT !.reply = answer]) /\ UNCHANGED events
  \/ Fail(c)

Gone(n) == n # 0 /\ nodes[n].state = "gone"

Missing(c) == /\ Become(c, [call[c] EXCEPT !.reply = Answer("missing", {})])
              /\ UNCHANGED <<nodes, events, moved>>

Decline(c) == /\ Become(c, [call[c] EXCEPT !.reply = Answer("refused", {})])
              /\ UNCHANGED <<nodes, events, moved>>

ServeSearch(c) ==
  LET rec == call[c]
      name == IF SeeksFolder(rec) THEN Sought(rec)[Len(Sought(rec))] ELSE rec.path[Len(rec.path)]
  IN
  /\ rec.pc = "search"
  /\ IF Gone(rec.under) THEN Missing(c)
     ELSE /\ Respond(c, Answer("ok", Search(rec.under, name, SeeksFolder(rec))))
          /\ UNCHANGED <<nodes, moved>>

\* A new node; Drive refuses no second one of the same name, but a parent that
\* is a file.
Create(c, parent, name, folder) ==
  IF Gone(parent) THEN Missing(c)
  ELSE IF parent # 0 /\ ~nodes[parent].folder THEN Decline(c)
  ELSE /\ Len(nodes) < MaxNodes
       /\ nodes' = Append(nodes, [name |-> name, parent |-> parent, folder |-> folder, state |-> "live"])
       /\ Respond(c, Answer("ok", {Len(nodes')}))
       /\ UNCHANGED moved

ServeCreate(c) ==
  /\ call[c].pc = "create"
  /\ Create(c, call[c].under, Sought(call[c])[Len(Sought(call[c]))], TRUE)

Name(path) == path[Len(path)]

ServeUpload(c) ==
  /\ call[c].pc = "act" /\ call[c].op = "upload"
  /\ Create(c, call[c].ids[1], Name(call[c].to), FALSE)

\* Drive does not copy folders.
ServeCopy(c) ==
  /\ call[c].pc = "act" /\ call[c].op = "copy"
  /\ IF Gone(call[c].ids[1]) THEN Missing(c)
     ELSE IF nodes[call[c].ids[1]].folder THEN Decline(c)
     ELSE Create(c, call[c].ids[2], Name(call[c].to), FALSE)

\* A trashed file can still be read by its id.
ServeRead(c) ==
  /\ call[c].pc = "act" /\ call[c].op \in {"download", "read", "createFolder"}
  /\ IF Gone(call[c].ids[1]) THEN Missing(c)
     ELSE Respond(c, Answer("ok", {call[c].ids[1]})) /\ UNCHANGED <<nodes, moved>>

Mark(n, state) ==
  [m \in Ids |-> IF m = n \/ (state = "gone" /\ m \in Below(n))
                 THEN [nodes[m] EXCEPT !.state = state] ELSE nodes[m]]

ServeRemove(c) ==
  LET n == call[c].ids[1] IN
  /\ call[c].pc = "act" /\ call[c].op \in {"delete", "trash"}
  /\ IF Gone(n) THEN Missing(c)
     ELSE /\ nodes' = Mark(n, IF call[c].op = "delete" THEN "gone" ELSE "trashed")
          /\ moved' = TRUE
          /\ Respond(c, Answer("ok", {n}))

\* Nothing goes into a file, or a folder into itself.
ServeMove(c) ==
  LET n == call[c].ids[1] IN
  /\ call[c].pc = "act" /\ call[c].op = "move"
  /\ IF Gone(n) \/ Gone(call[c].ids[3]) THEN Missing(c)
     ELSE IF ~nodes[call[c].ids[3]].folder \/ call[c].ids[3] \in Below(n) THEN Decline(c)
     ELSE /\ nodes' = [nodes EXCEPT ![n].parent = call[c].ids[3], ![n].name = Name(call[c].to)]
          /\ moved' = TRUE
          /\ Respond(c, Answer("ok", {n}))

\* Throttled, failing, or refused: nothing happened.
Refuse(c) == Fail(c) /\ UNCHANGED <<nodes, moved>>

\* Somebody deletes something in the user's Drive.
Outside ==
  /\ Event /\ moved' = TRUE
  /\ \E n \in Ids : nodes' = Mark(n, "gone")
  /\ Disturb /\ UNCHANGED <<cache, memo, calls>>

Serve(c) ==
  /\ call[c].pc \in {"search", "create", "act"} /\ call[c].reply = NoReply
  /\ \/ ServeSearch(c)
     \/ ServeCreate(c)
     \/ ServeUpload(c)
     \/ ServeCopy(c)
     \/ ServeRead(c)
     \/ ServeRemove(c)
     \/ ServeMove(c)
     \/ Refuse(c)
  /\ UNCHANGED <<cache, memo, calls>>

Client(c) ==
  \/ OnFound(c)
  \/ CreateFolder(c)
  \/ OnFolder(c)
  \/ OnActed(c)
  \/ Heal(c)
  \/ RejectMissing(c)
  \/ Retry(c)
  \/ Reject(c)

Next ==
  \/ \E c \in Caller : Start(c) \/ Client(c) \/ Serve(c)
  \/ ClearCache
  \/ Expire
  \/ Outside

Spec == Init /\ [][Next]_vars

-----------------------------------------------------------------------------
(* Properties.                                                             *)

\* What a call's result claims.
Claim(rec) ==
  LET found == ToSet(rec.ids) IN
  /\ rec.result = "missing" => At(rec.path) = {}
  /\ rec.result = "ok" =>
       /\ rec.op \in {"upload", "copy", "createFolder"} => found # {} /\ found \subseteq At(rec.to)
       /\ rec.op \in {"delete", "trash"} => At(rec.path) = {}
       /\ rec.op = "move" => found \subseteq At(rec.to) /\ (rec.path # rec.to => found \cap At(rec.path) = {})
       /\ rec.op \in {"download", "exists", "read"} => found # {} /\ found \subseteq At(rec.path)

\* A call that has the Drive to itself and finds the cache right does what it
\* says for its path, whatever mix of cached, searched and created folders it
\* goes through; a download even if the cached file is gone.
AloneDoesAsTold ==
  \A c \in Caller : call[c].pc = "done" /\ call[c].alone => Claim(call[c])

\* Such a call leaves the cache right, except below a path that it deleted or
\* moved away.
AloneKeepsCache ==
  \A c \in Caller : call[c].pc = "done" /\ call[c].alone /\ call[c].result # "error" =>
    \A q \in Paths :
      \/ RightEntry(q)
      \/ call[c].op \in {"delete", "trash", "move"} /\ IsStrictPrefix(call[c].path, q)

\* As long as nothing is removed or moved, overlapping calls that create the
\* same folders twice still hide no file: whatever an upload, copy or search
\* returned is found at its path.
NothingHidden ==
  ~moved =>
    /\ \A c \in Caller : call[c].pc = "done" /\ call[c].result = "ok" => Claim(call[c])
    /\ \A q \in Paths : RightEntry(q)

===============================================================================
