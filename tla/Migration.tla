----------------------------- MODULE Migration -----------------------------
(***************************************************************************)
(* MigrationEngine.migrate of packages/core/src/migration/engine.ts: a     *)
(* pool of workers claims the entries of a job one by one and carries each *)
(* from one provider to another.  A worker is suspended between the call   *)
(* of a provider and its answer; everything between two awaits is one      *)
(* step.  The provider's own effect happens at some moment in between, so  *)
(* it is a separate action that stores an answer in reply[w].              *)
(*                                                                         *)
(* The Python engine (python/src/byoc/migration.py) runs one task per      *)
(* entry under a semaphore.  Claim is a step of its own, which is finer    *)
(* than the TypeScript loop and covers the order of either.                *)
(***************************************************************************)
EXTENDS Naturals, Sequences, FiniteSets

CONSTANTS
  Provider,        \* ids of the registered providers
  Path,            \* normalized virtual paths
  Worker,          \* the pool: min(concurrency, number of entries) workers
  Jobs,            \* the calls of migrate() under study
  ListenerThrows,  \* TRUE: the caller's onProgress may throw
  AtomicUpload     \* FALSE: an upload truncates the object, then fills it

Strategy == {"overwrite", "skip", "error"}
Status   == {"migrated", "skipped", "failed", "partial"}

\* What a provider holds at a path: nothing, the object to migrate, another
\* object that was there before, or the beginning of the object to migrate.
Content == {"absent", "data", "old", "torn"}

\* present: the paths the source holds; occupied: those the target held before.
Job == [from: Provider, to: Provider, paths: Seq(Path),
        conflictStrategy: Strategy, deleteSource: BOOLEAN,
        present: SUBSET Path, occupied: SUBSET Path]

ASSUME JobsAssumption == Jobs \subseteq Job
ASSUME FlagsAssumption == ListenerThrows \in BOOLEAN /\ AtomicUpload \in BOOLEAN
ASSUME WorkerAssumption == Worker # {}

VARIABLES
  job,           \* the arguments of this call
  store,         \* store[v][p]: what provider v holds at path p
  currentIndex,  \* the next entry to claim (counted from 1)
  pc,            \* where each worker is suspended
  entry,         \* the index each worker claimed last
  reply,         \* the answer to each worker's pending call
  results,       \* the report: one record per push, in order
  outcome        \* whether the promise of migrate() is settled

vars == <<job, store, currentIndex, pc, entry, reply, results, outcome>>

Calls  == {"exists", "download", "upload", "delete"}
PC     == Calls \cup {"claim", "done", "crashed"}
Answer == {"none", "writing", "yes", "no", "ok", "error"}

NumEntries == Len(job.paths)
PathOf(w)  == job.paths[entry[w]]

Held(p)    == store[job.from][p]
Copied(p)  == store[job.to][p]

\* No path is listed twice, also not in two spellings of one normal form.
NoRepeats ==
  \A i, j \in 1..NumEntries : job.paths[i] = job.paths[j] => i = j

Init ==
  /\ job \in Jobs
  /\ store = [v \in Provider |-> [p \in Path |->
                IF v = job.from /\ p \in job.present THEN "data"
                ELSE IF v = job.to /\ p \in job.occupied THEN "old"
                ELSE "absent"]]
  /\ currentIndex = 1
  /\ pc = [w \in Worker |-> "claim"]
  /\ entry = [w \in Worker |-> 0]
  /\ reply = [w \in Worker |-> "none"]
  /\ results = <<>>
  /\ outcome = "running"

-----------------------------------------------------------------------------
(* Helpers of the worker's steps.                                          *)

Goto(w, label) ==
  /\ pc' = [pc EXCEPT ![w] = label]
  /\ reply' = [reply EXCEPT ![w] = "none"]

Put(v, p, c) == store' = [store EXCEPT ![v][p] = c]

Result(w, status) == [entry |-> entry[w], status |-> status]

\* The listener returned: the worker goes round its loop.
Continue(w) == Goto(w, "claim") /\ UNCHANGED outcome

\* Mutant: the catch block loses the rejection, Promise.all waits for ever.
RejectSilentMutant(w) == Goto(w, "crashed") /\ UNCHANGED outcome

\* The listener threw in the catch block: this worker's promise rejects, and
\* Promise.all rejects with it while the other workers go on.
Reject(w) ==
  /\ Goto(w, "crashed")
  /\ outcome' = IF outcome = "running" THEN "rejected" ELSE outcome

\* The catch block: record the failure, report progress.
Fail(w) ==
  /\ results' = Append(results, Result(w, "failed"))
  /\ Continue(w) \/ (ListenerThrows /\ Reject(w))

\* Record an outcome and report progress inside the try block: what the
\* listener throws there lands in the catch block of the same entry.
Settle(w, status) ==
  \/ /\ results' = Append(results, Result(w, status))
     /\ Continue(w)
  \/ /\ ListenerThrows
     /\ results' = results \o <<Result(w, status), Result(w, "failed")>>
     /\ Continue(w) \/ Reject(w)

-----------------------------------------------------------------------------
(* The worker.                                                             *)

\* Mutant: the loop runs while currentIndex <= cleanPaths.length.
ClaimOffByOneMutant(w) ==
  /\ pc[w] = "claim"
  /\ currentIndex <= NumEntries + 1
  /\ entry' = [entry EXCEPT ![w] = currentIndex]
  /\ currentIndex' = currentIndex + 1
  /\ Goto(w, "download")
  /\ UNCHANGED <<job, store, results, outcome>>

\* Mutant: the conflict strategy is not consulted.
ClaimUncheckedMutant(w) ==
  /\ pc[w] = "claim"
  /\ IF currentIndex <= NumEntries
       THEN /\ entry' = [entry EXCEPT ![w] = currentIndex]
            /\ currentIndex' = currentIndex + 1
            /\ Goto(w, "download")
       ELSE Goto(w, "done") /\ UNCHANGED <<entry, currentIndex>>
  /\ UNCHANGED <<job, store, results, outcome>>

Claim(w) ==
  /\ pc[w] = "claim"
  /\ IF currentIndex <= NumEntries
       THEN /\ entry' = [entry EXCEPT ![w] = currentIndex]
            /\ currentIndex' = currentIndex + 1
            /\ Goto(w, IF job.conflictStrategy = "overwrite"
                         THEN "download" ELSE "exists")
       ELSE Goto(w, "done") /\ UNCHANGED <<entry, currentIndex>>
  /\ UNCHANGED <<job, store, results, outcome>>

OnExists(w) ==
  /\ pc[w] = "exists"
  /\ \/ reply[w] = "no" /\ Goto(w, "download") /\ UNCHANGED <<results, outcome>>
     \/ reply[w] = "yes" /\ job.conflictStrategy = "skip" /\ Settle(w, "skipped")
     \/ reply[w] = "yes" /\ job.conflictStrategy = "error" /\ Fail(w)
  /\ UNCHANGED <<job, store, currentIndex, entry>>

OnDownload(w) ==
  /\ pc[w] = "download" /\ reply[w] = "ok"
  /\ Goto(w, "upload")
  /\ UNCHANGED <<job, store, currentIndex, entry, results, outcome>>

\* Mutant: target.upload is not awaited for its outcome.
OnUploadUnawaitedMutant(w) ==
  /\ pc[w] = "upload" /\ reply[w] \in {"ok", "error"}
  /\ IF job.deleteSource
       THEN Goto(w, "delete") /\ UNCHANGED <<results, outcome>>
       ELSE Settle(w, "migrated")
  /\ UNCHANGED <<job, store, currentIndex, entry>>

OnUpload(w) ==
  /\ pc[w] = "upload" /\ reply[w] = "ok"
  /\ IF job.deleteSource
       THEN Goto(w, "delete") /\ UNCHANGED <<results, outcome>>
       ELSE Settle(w, "migrated")
  /\ UNCHANGED <<job, store, currentIndex, entry>>

\* Mutant: a refused deletion is recorded as migrated.
OnDeleteIgnoredMutant(w) ==
  /\ pc[w] = "delete" /\ reply[w] \in {"ok", "error"}
  /\ Settle(w, "migrated")
  /\ UNCHANGED <<job, store, currentIndex, entry>>

\* Mutant: the double count the changelog reports as fixed in CHANGELOG.md:201.
OnDeleteTwiceMutant(w) ==
  /\ pc[w] = "delete" /\ reply[w] = "error"
  /\ results' = results \o <<Result(w, "migrated"), Result(w, "failed")>>
  /\ Continue(w)
  /\ UNCHANGED <<job, store, currentIndex, entry>>

OnDelete(w) ==
  /\ pc[w] = "delete"
  /\ \/ reply[w] = "ok" /\ Settle(w, "migrated")
     \/ reply[w] = "error" /\ Settle(w, "partial")
  /\ UNCHANGED <<job, store, currentIndex, entry>>

\* Mutant: a rejected exists() is never noticed.
OnErrorUnnoticedMutant(w) ==
  /\ pc[w] \in {"download", "upload"} /\ reply[w] = "error"
  /\ Fail(w)
  /\ UNCHANGED <<job, store, currentIndex, entry>>

\* exists, download or upload threw.
OnError(w) ==
  /\ pc[w] \in {"exists", "download", "upload"} /\ reply[w] = "error"
  /\ Fail(w)
  /\ UNCHANGED <<job, store, currentIndex, entry>>

\* Mutant: Promise.race, the first worker that leaves its loop.
ReturnRaceMutant ==
  /\ outcome = "running"
  /\ \E w \in Worker : pc[w] = "done"
  /\ outcome' = "returned"
  /\ UNCHANGED <<job, store, currentIndex, pc, entry, reply, results>>

\* Promise.all: every worker left its loop.
Return ==
  /\ outcome = "running"
  /\ \A w \in Worker : pc[w] = "done"
  /\ outcome' = "returned"
  /\ UNCHANGED <<job, store, currentIndex, pc, entry, reply, results>>

-----------------------------------------------------------------------------
(* The providers.  A call may fail before or after it took effect.         *)

Reply(w, answer) ==
  /\ reply' = [reply EXCEPT ![w] = answer]
  /\ UNCHANGED <<job, currentIndex, pc, entry, results, outcome>>

Pending(w, call) == pc[w] = call /\ reply[w] = "none"

TargetExists(w) ==
  /\ Pending(w, "exists")
  /\ Reply(w, IF Copied(PathOf(w)) = "absent" THEN "no" ELSE "yes")
  /\ UNCHANGED store

SourceDownload(w) ==
  /\ Pending(w, "download")
  /\ Reply(w, IF Held(PathOf(w)) = "data" THEN "ok" ELSE "error")
  /\ UNCHANGED store

UploadOpens(w) ==
  /\ ~AtomicUpload
  /\ Pending(w, "upload")
  /\ Put(job.to, PathOf(w), "torn")
  /\ Reply(w, "writing")

\* Two writers that overlap in a non-atomic store can leave a hole.
UploadLands(w) ==
  /\ IF AtomicUpload THEN Pending(w, "upload")
                     ELSE pc[w] = "upload" /\ reply[w] = "writing"
  /\ \E c \in IF AtomicUpload \/ NoRepeats THEN {"data"} ELSE {"data", "torn"} :
       Put(job.to, PathOf(w), c)
  /\ \E answer \in {"ok", "error"} : Reply(w, answer)

\* Some providers answer an absent object with success, some with an error.
SourceDelete(w) ==
  /\ Pending(w, "delete")
  /\ Put(job.from, PathOf(w), "absent")
  /\ \E answer \in {"ok", "error"} : Reply(w, answer)

CallFails(w) ==
  /\ pc[w] \in Calls /\ reply[w] \in {"none", "writing"}
  /\ Reply(w, "error")
  /\ UNCHANGED store

-----------------------------------------------------------------------------
Work(w) ==
  \/ Claim(w)
  \/ OnExists(w)
  \/ OnDownload(w)
  \/ OnUpload(w)
  \/ OnDelete(w)
  \/ OnError(w)

Serve(w) ==
  \/ TargetExists(w)
  \/ SourceDownload(w)
  \/ UploadOpens(w)
  \/ UploadLands(w)
  \/ SourceDelete(w)
  \/ CallFails(w)

Next == (\E w \in Worker : Work(w) \/ Serve(w)) \/ Return

\* The event loop runs every continuation, and every provider call settles:
\* each is one HTTP request or file operation that ends or times out.
Fairness ==
  /\ \A w \in Worker : WF_vars(Work(w)) /\ WF_vars(Serve(w))
  /\ WF_vars(Return)

Spec == Init /\ [][Next]_vars
FairSpec == Spec /\ Fairness

-----------------------------------------------------------------------------
(* Properties.                                                             *)

\* The shape of the engine's state: the report holds only the four statuses
\* MigrationFileResult declares, for entries of the job.
TypeOK ==
  /\ job \in Jobs
  /\ store \in [Provider -> [Path -> Content]]
  /\ currentIndex \in 1..(NumEntries + 1)
  /\ pc \in [Worker -> PC]
  /\ entry \in [Worker -> 0..NumEntries]
  /\ reply \in [Worker -> Answer]
  /\ results \in Seq([entry: 1..NumEntries, status: Status])
  /\ outcome \in {"running", "returned", "rejected"}

\* The stores are of the kind the engine can be trusted with: two different
\* ones, and no two workers writing one object piecemeal.
SoundSetting == job.from # job.to /\ (AtomicUpload \/ NoRepeats)

\* However calls fail and workers interleave, also with deleteSourceAfter-
\* Migrate, an object the source held is whole at the source or the target.
NoLoss ==
  SoundSetting =>
    \A p \in job.present : Held(p) = "data" \/ Copied(p) = "data"

\* What a record claims holds of the stores from the moment it is pushed:
\* migrated and partial files are whole on the target, a migrated file is
\* gone from a source that was to be cleaned, a skipped one was there.
TruthfulRecord(r) ==
  LET p == job.paths[r.entry] IN
  /\ r.status \in {"migrated", "partial"} => Copied(p) = "data"
  /\ r.status = "migrated" /\ job.deleteSource => Held(p) = "absent"
  /\ r.status = "partial" => job.deleteSource
  /\ r.status = "skipped" =>
       job.conflictStrategy = "skip" /\ Copied(p) # "absent"

Truthful ==
  SoundSetting => \A k \in DOMAIN results : TruthfulRecord(results[k])

\* "Exactly one record for one input file": no entry is recorded twice, and
\* the report that is returned has a record for each entry.
OneRecordEach ==
  ~ListenerThrows =>
    /\ \A k, l \in DOMAIN results :
         results[k].entry = results[l].entry => k = l
    /\ outcome = "returned" =>
         \A i \in 1..NumEntries :
           \E k \in DOMAIN results : results[k].entry = i

\* Unless told to overwrite, no step of a migration touches an object that
\* was on the target before it.
NoClobber ==
  [][\A p \in Path :
       SoundSetting /\ job.conflictStrategy # "overwrite" /\ Copied(p) = "old"
         => Copied(p)' = "old"]_vars

\* Once migrate() has settled, nothing of it still runs against the stores.
StillOnceSettled ==
  [][~ListenerThrows /\ outcome # "running" => UNCHANGED <<store, results>>]_vars

\* migrate() settles, whatever the providers answer and the listener throws.
Settles == <>(outcome # "running")

\* MigrationFileResult says of a partial file that "the source copy is still
\* present" (engine.ts:36).
PartialKeepsSource ==
  SoundSetting =>
    \A k \in DOMAIN results :
      results[k].status = "partial" => Held(job.paths[results[k].entry]) = "data"

\* "The bytes are now on the target.  Any failure past this point ... must not
\* be reported as failed" (engine.ts:160): an upload that was acknowledged is
\* never followed by a failed record of its entry.
NoFailureAfterUpload ==
  [][\A w \in Worker :
       pc[w] \in {"upload", "delete"} /\ reply[w] = "ok" =>
         \A k \in DOMAIN results' \ DOMAIN results :
           results'[k].entry = entry[w] => results'[k].status # "failed"]_vars

-----------------------------------------------------------------------------
(* The engine keeps the contract of MigrationContract when the two stores  *)
(* are different, uploads are atomic and the listener does not throw.      *)

RecordsOf(i) == {k \in DOMAIN results : results[k].entry = i}

VerdictOf(i) ==
  IF RecordsOf(i) = {} THEN "pending"
  ELSE results[CHOOSE k \in RecordsOf(i) : TRUE].status

Contract == INSTANCE MigrationContract WITH
  source  <- store[job.from],
  target  <- store[job.to],
  verdict <- [i \in 1..NumEntries |-> VerdictOf(i)]

\* Every step of the engine is a copy, a removal, a verdict or the report of
\* the contract, or changes nothing the contract speaks of.
ImplementsContract == Contract!CSpec

=============================================================================
