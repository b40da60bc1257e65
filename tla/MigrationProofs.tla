-------------------------- MODULE MigrationProofs --------------------------
(***************************************************************************)
(* Theorems about Migration for every set of jobs, workers and paths.      *)
(***************************************************************************)
EXTENDS Migration, TLAPS

USE JobsAssumption, FlagsAssumption, WorkerAssumption

Record == [entry: 1..NumEntries, status: Status]

LEMMA JobFacts ==
  ASSUME job \in Jobs
  PROVE  /\ job.from \in Provider /\ job.to \in Provider
         /\ job.paths \in Seq(Path)
         /\ NumEntries \in Nat
         /\ \A i \in 1..NumEntries : job.paths[i] \in Path
         /\ job.deleteSource \in BOOLEAN
         /\ job.conflictStrategy \in Strategy
         /\ job.present \subseteq Path /\ job.occupied \subseteq Path
<1>1. job \in Job
  OBVIOUS
<1>2. QED
  BY <1>1 DEF Job, NumEntries

\* A worker inside a call holds an entry of the job.
Holding(w) == pc[w] \in Calls

ClaimsInv ==
  \A w \in Worker :
    /\ entry[w] < currentIndex
    /\ Holding(w) => entry[w] \in 1..NumEntries

\* Appending records of an entry of the job keeps the report well formed.
LEMMA ResultsType ==
  ASSUME TypeOK, ClaimsInv, NEW w \in Worker, Holding(w),
         Settle(w, "migrated") \/ Settle(w, "partial")
           \/ Settle(w, "skipped") \/ Fail(w)
  PROVE  results' \in Seq(Record)
<1>1. \A s \in Status : Result(w, s) \in Record
  BY DEF ClaimsInv, Result, Record
<1>2. \A s, t \in Status :
        /\ Append(results, Result(w, s)) \in Seq(Record)
        /\ results \o <<Result(w, s), Result(w, t)>> \in Seq(Record)
  BY <1>1 DEF TypeOK, Record
<1>3. QED
  BY <1>2 DEF Settle, Fail, Status

LEMMA TypeCorrect == Spec => [](TypeOK /\ ClaimsInv)
<1>1. Init => TypeOK /\ ClaimsInv
  <2> SUFFICES ASSUME Init PROVE TypeOK /\ ClaimsInv
    OBVIOUS
  <2> QED BY JobFacts DEF Init, TypeOK, ClaimsInv, Content, PC, Answer, Holding, Calls
<1>2. TypeOK /\ ClaimsInv /\ [Next]_vars => (TypeOK /\ ClaimsInv)'
  <2> SUFFICES ASSUME TypeOK, ClaimsInv, [Next]_vars
               PROVE  (TypeOK /\ ClaimsInv)'
    OBVIOUS
  <2>n. NumEntries \in Nat
    BY JobFacts DEF TypeOK
  <2> USE DEF TypeOK, ClaimsInv, Holding, Calls, PC, Answer, Goto
  <2>1. ASSUME NEW w \in Worker, Claim(w) PROVE (TypeOK /\ ClaimsInv)'
    <3>1. NumEntries' = NumEntries /\ UNCHANGED <<job, store, results, outcome>>
      BY <2>1 DEF Claim, NumEntries
    <3>2. CASE currentIndex <= NumEntries
      <4>1. /\ entry' = [entry EXCEPT ![w] = currentIndex]
            /\ currentIndex' = currentIndex + 1
            /\ pc' \in [Worker -> PC] /\ reply' \in [Worker -> Answer]
        BY <2>1, <3>2 DEF Claim
      <4>2. \A v \in Worker : v # w => pc'[v] = pc[v]
        BY <2>1, <3>2 DEF Claim
      <4>3. QED BY <2>n, <3>1, <3>2, <4>1, <4>2
    <3>3. CASE ~(currentIndex <= NumEntries)
      BY <2>1, <2>n, <3>1, <3>3 DEF Claim
    <3>4. QED BY <3>2, <3>3
  <2>2. ASSUME NEW w \in Worker, OnExists(w) PROVE (TypeOK /\ ClaimsInv)'
    <3>1. CASE UNCHANGED results
      BY <2>2, <3>1 DEF OnExists, Settle, Fail, Continue, Reject, NumEntries
    <3>2. CASE Settle(w, "skipped") \/ Fail(w)
      <4>1. results' \in Seq(Record)
        BY <2>2, <3>2, ResultsType DEF OnExists
      <4>2. QED
        BY <2>2, <3>2, <4>1 DEF OnExists, Settle, Fail, Continue, Reject, Record, NumEntries
    <3>3. QED BY <2>2, <3>1, <3>2 DEF OnExists
  <2>3. ASSUME NEW w \in Worker, OnDownload(w) PROVE (TypeOK /\ ClaimsInv)'
    BY <2>3 DEF OnDownload, NumEntries
  <2>4. ASSUME NEW w \in Worker, OnUpload(w) PROVE (TypeOK /\ ClaimsInv)'
    <3>1. CASE Goto(w, "delete") /\ UNCHANGED <<results, outcome>>
      BY <2>4, <3>1 DEF OnUpload, NumEntries
    <3>2. CASE Settle(w, "migrated")
      <4>1. results' \in Seq(Record)
        BY <2>4, <3>2, ResultsType DEF OnUpload
      <4>2. QED
        BY <2>4, <3>2, <4>1 DEF OnUpload, Settle, Continue, Reject, Record, NumEntries
    <3>3. QED BY <2>4, <3>1, <3>2 DEF OnUpload
  <2>5. ASSUME NEW w \in Worker, OnDelete(w) PROVE (TypeOK /\ ClaimsInv)'
    <3>1. Settle(w, "migrated") \/ Settle(w, "partial")
      BY <2>5 DEF OnDelete
    <3>2. results' \in Seq(Record)
      BY <2>5, <3>1, ResultsType DEF OnDelete
    <3>3. QED
      BY <2>5, <3>1, <3>2 DEF OnDelete, Settle, Continue, Reject, Record, NumEntries
  <2>6. ASSUME NEW w \in Worker, OnError(w) PROVE (TypeOK /\ ClaimsInv)'
    <3>1. results' \in Seq(Record)
      BY <2>6, ResultsType DEF OnError
    <3>2. QED
      BY <2>6, <3>1 DEF OnError, Fail, Continue, Reject, Record, NumEntries
  <2>7. ASSUME NEW w \in Worker, Serve(w) PROVE (TypeOK /\ ClaimsInv)'
    <3>1. UNCHANGED <<job, currentIndex, pc, entry, results, outcome>>
      BY <2>7 DEF Serve, TargetExists, SourceDownload, UploadOpens, UploadLands,
                  SourceDelete, CallFails, Reply
    <3>2. reply' \in [Worker -> Answer]
      BY <2>7 DEF Serve, TargetExists, SourceDownload, UploadOpens, UploadLands,
                  SourceDelete, CallFails, Reply
    <3>3. store' \in [Provider -> [Path -> Content]]
      <4>1. \A v \in Provider, p \in Path, c \in Content :
              Put(v, p, c) => store' \in [Provider -> [Path -> Content]]
        BY DEF Put
      <4>2. Holding(w) => PathOf(w) \in Path
        BY JobFacts DEF PathOf
      <4>3. job.from \in Provider /\ job.to \in Provider
        BY JobFacts
      <4>4. QED
        BY <2>7, <4>1, <4>2, <4>3 DEF Serve, TargetExists, SourceDownload,
           UploadOpens, UploadLands, SourceDelete, CallFails, Pending, Content
    <3>4. QED BY <3>1, <3>2, <3>3 DEF NumEntries
  <2>8. ASSUME Return PROVE (TypeOK /\ ClaimsInv)'
    BY <2>8 DEF Return, NumEntries
  <2>9. CASE UNCHANGED vars
    BY <2>9 DEF vars, NumEntries
  <2>10. QED
    BY <2>1, <2>2, <2>3, <2>4, <2>5, <2>6, <2>7, <2>8, <2>9 DEF Next, Work
<1>3. QED
  BY <1>1, <1>2, PTL DEF Spec

-----------------------------------------------------------------------------
(* The inductive invariant behind NoLoss and Truthful.                     *)

\* An entry is in one place: with one worker, or in the report.
OnePlace ==
  /\ \A w, v \in Worker :
       Holding(w) /\ Holding(v) /\ entry[w] = entry[v] => w = v
  /\ \A w \in Worker, k \in DOMAIN results :
       Holding(w) => results[k].entry # entry[w]
  /\ \A k \in DOMAIN results : results[k].entry < currentIndex

\* The engine adds nothing to the source.
SourceInv ==
  \A p \in Path : Held(p) = "absent" \/ (Held(p) = "data" /\ p \in job.present)

\* What a worker may rely on, at each place it can be suspended.
ExistsInv(w) ==
  pc[w] = "exists" =>
    /\ reply[w] = "yes" => Copied(PathOf(w)) # "absent"
    /\ reply[w] = "no"  => Copied(PathOf(w)) # "old"

TransferInv(w) ==
  /\ pc[w] \in {"download", "upload"} /\ job.conflictStrategy # "overwrite" =>
       Copied(PathOf(w)) # "old"
  /\ pc[w] = "upload" \/ (pc[w] = "download" /\ reply[w] = "ok") =>
       PathOf(w) \in job.present /\ (NoRepeats => Held(PathOf(w)) = "data")

CleanupInv(w) ==
  /\ pc[w] = "delete" \/ (pc[w] = "upload" /\ reply[w] = "ok") =>
       Copied(PathOf(w)) = "data"
  /\ pc[w] = "delete" =>
       job.deleteSource /\ (reply[w] = "ok" => Held(PathOf(w)) = "absent")

WorkerInv(w) == ExistsInv(w) /\ TransferInv(w) /\ CleanupInv(w)

IInv ==
  /\ TypeOK
  /\ ClaimsInv
  /\ OnePlace
  /\ SoundSetting => SourceInv /\ \A w \in Worker : WorkerInv(w)
  /\ NoLoss
  /\ Truthful

\* A worker's step that pushes records touches no store and leaves the other
\* workers where they are.
Pushes(w, recs) ==
  /\ results' = results \o recs
  /\ \E label \in {"claim", "crashed"} : Goto(w, label)
  /\ UNCHANGED <<job, store, currentIndex, entry>>

LEMMA InitIInv == Init => IInv
<1> SUFFICES ASSUME Init PROVE IInv
  OBVIOUS
<1>1. TypeOK /\ ClaimsInv
  BY JobFacts DEF Init, TypeOK, ClaimsInv, Content, PC, Answer, Holding, Calls
<1>2. OnePlace
  BY DEF Init, OnePlace, Holding, Calls
<1>3. ASSUME SoundSetting PROVE SourceInv /\ \A w \in Worker : WorkerInv(w)
  <2>1. SourceInv
    BY <1>3, JobFacts DEF Init, SourceInv, Held, SoundSetting
  <2>2. \A w \in Worker : pc[w] = "claim"
    BY DEF Init
  <2>3. QED
    BY <2>1, <2>2 DEF WorkerInv, ExistsInv, TransferInv, CleanupInv
<1>4. NoLoss /\ Truthful
  BY JobFacts DEF Init, NoLoss, Truthful, Held
<1>5. QED BY <1>1, <1>2, <1>3, <1>4 DEF IInv

\* Pushing records of the entry a worker holds keeps the invariant, if the
\* stores bear the records out.
LEMMA PushStep ==
  ASSUME IInv, (TypeOK /\ ClaimsInv)', NEW w \in Worker, Holding(w),
         NEW recs \in Seq(Record), Pushes(w, recs),
         \A k \in DOMAIN recs : recs[k].entry = entry[w],
         SoundSetting => \A k \in DOMAIN recs : TruthfulRecord(recs[k])
  PROVE  IInv'
<1> USE DEF IInv, Pushes, Goto, NumEntries
<1>1. /\ UNCHANGED <<job, store, currentIndex, entry>>
      /\ pc'[w] \notin Calls
      /\ \A v \in Worker : v # w => pc'[v] = pc[v] /\ reply'[v] = reply[v]
  BY DEF TypeOK, Calls
<1>2. \A k \in DOMAIN results' :
        \/ k \in DOMAIN results /\ results'[k] = results[k]
        \/ \E l \in DOMAIN recs : results'[k] = recs[l]
  BY DEF TypeOK, Record
<1>3. OnePlace'
  BY <1>1, <1>2 DEF OnePlace, Holding, ClaimsInv
<1>8. SoundSetting' = SoundSetting /\ NoRepeats' = NoRepeats
  BY <1>1 DEF SoundSetting, NoRepeats
<1>4. SoundSetting' => SourceInv' /\ \A v \in Worker : WorkerInv(v)'
  <2> SUFFICES ASSUME SoundSetting  PROVE SourceInv' /\ \A v \in Worker : WorkerInv(v)'
    BY <1>8
  <2>1. SourceInv'
    BY <1>1 DEF SourceInv, Held
  <2>2. WorkerInv(w)'
    BY <1>1 DEF WorkerInv, ExistsInv, TransferInv, CleanupInv, Calls
  <2>3. ASSUME NEW v \in Worker, v # w  PROVE WorkerInv(v)'
    <3>1. /\ pc'[v] = pc[v] /\ reply'[v] = reply[v] /\ WorkerInv(v)
          /\ UNCHANGED <<job, store, entry>>
      BY <1>1, <2>3
    <3>2. ExistsInv(v)'
      BY <3>1 DEF WorkerInv, ExistsInv, Copied, PathOf
    <3>3. TransferInv(v)'
      BY <1>8, <3>1 DEF WorkerInv, TransferInv, Held, Copied, PathOf
    <3>4. CleanupInv(v)'
      BY <3>1 DEF WorkerInv, CleanupInv, Held, Copied, PathOf
    <3> QED  BY <3>2, <3>3, <3>4 DEF WorkerInv
  <2> QED  BY <2>1, <2>2, <2>3
<1>5. NoLoss'
  BY <1>1 DEF NoLoss, SoundSetting, NoRepeats, Held, Copied
<1>6. Truthful'
  <2> SUFFICES ASSUME SoundSetting, NEW k \in DOMAIN results'
               PROVE  TruthfulRecord(results[k])'
    BY <1>8 DEF Truthful
  <2>1. PICK r : TruthfulRecord(r) /\ results'[k] = r
    BY <1>2 DEF Truthful
  <2> QED  BY <1>1, <2>1 DEF TruthfulRecord, Held, Copied
<1>7. QED BY <1>3, <1>4, <1>5, <1>6

-----------------------------------------------------------------------------
(* The worker's steps.                                                     *)

LEMMA RecordType ==
  ASSUME TypeOK, ClaimsInv, NEW w \in Worker, Holding(w)
  PROVE  \A s, t \in Status :
           /\ <<Result(w, s)>> \in Seq(Record)
           /\ <<Result(w, s), Result(w, t)>> \in Seq(Record)
<1>1. \A s \in Status : Result(w, s) \in Record
  BY DEF ClaimsInv, Result, Record
<1>2. QED BY <1>1

LEMMA FailStep ==
  ASSUME IInv, (TypeOK /\ ClaimsInv)', NEW w \in Worker, Holding(w), Fail(w),
         UNCHANGED <<job, store, currentIndex, entry>>
  PROVE  IInv'
<1> DEFINE recs == <<Result(w, "failed")>>
<1>1. recs \in Seq(Record)
  BY RecordType DEF IInv, Status
<1>2. Pushes(w, recs)
  BY DEF Fail, Continue, Reject, Pushes, IInv, TypeOK
<1>3. \A k \in DOMAIN recs : recs[k] = [entry |-> entry[w], status |-> "failed"]
  BY DEF Result
<1>4. SoundSetting => \A k \in DOMAIN recs : TruthfulRecord(recs[k])
  BY <1>3 DEF TruthfulRecord
<1>5. \A k \in DOMAIN recs : recs[k].entry = entry[w]
  BY <1>3
<1>6. QED BY <1>1, <1>2, <1>4, <1>5, PushStep

LEMMA SettleStep ==
  ASSUME IInv, (TypeOK /\ ClaimsInv)', NEW w \in Worker, Holding(w),
         NEW s \in Status, Settle(w, s),
         SoundSetting => TruthfulRecord(Result(w, s)),
         UNCHANGED <<job, store, currentIndex, entry>>
  PROVE  IInv'
<1>1. CASE results' = Append(results, Result(w, s)) /\ Continue(w)
  <2> DEFINE recs == <<Result(w, s)>>
  <2>1. recs \in Seq(Record)
    BY RecordType DEF IInv
  <2>2. Pushes(w, recs)
    BY <1>1 DEF Continue, Pushes, IInv, TypeOK
  <2>3. \A k \in DOMAIN recs : recs[k] = Result(w, s)
    OBVIOUS
  <2>4. \A k \in DOMAIN recs : recs[k].entry = entry[w]
    BY <2>3 DEF Result
  <2>5. QED BY <2>1, <2>2, <2>3, <2>4, PushStep
<1>2. CASE /\ results' = results \o <<Result(w, s), Result(w, "failed")>>
           /\ Continue(w) \/ Reject(w)
  <2> DEFINE recs == <<Result(w, s), Result(w, "failed")>>
  <2>1. recs \in Seq(Record)
    BY RecordType DEF IInv, Status
  <2>2. Pushes(w, recs)
    BY <1>2 DEF Continue, Reject, Pushes, IInv, TypeOK
  <2>3. \A k \in DOMAIN recs : recs[k] = Result(w, s) \/ recs[k] = Result(w, "failed")
    OBVIOUS
  <2>4. \A k \in DOMAIN recs : recs[k].entry = entry[w]
    BY <2>3 DEF Result
  <2>5. TruthfulRecord(Result(w, "failed"))
    BY DEF TruthfulRecord, Result
  <2>6. QED BY <2>1, <2>2, <2>3, <2>4, <2>5, PushStep
<1>3. QED BY <1>1, <1>2 DEF Settle

\* A worker moves to its next call and pushes nothing.
LEMMA GotoStep ==
  ASSUME IInv, (TypeOK /\ ClaimsInv)', NEW w \in Worker, Holding(w),
         NEW label \in PC, Goto(w, label),
         SoundSetting => WorkerInv(w)',
         UNCHANGED <<job, store, currentIndex, entry, results>>
  PROVE  IInv'
<1> USE DEF IInv, Goto, NumEntries
<1>1. \A v \in Worker : v # w => pc'[v] = pc[v] /\ reply'[v] = reply[v]
  BY DEF TypeOK
<1>2. OnePlace'
  BY <1>1 DEF OnePlace, Holding
<1>3. SoundSetting' => SourceInv' /\ \A v \in Worker : WorkerInv(v)'
  <2>1. SoundSetting' = SoundSetting
    BY DEF SoundSetting, NoRepeats
  <2>2. SourceInv' = SourceInv
    BY DEF SourceInv, Held
  <2>3. \A v \in Worker : v # w => WorkerInv(v)' = WorkerInv(v)
    BY <1>1 DEF NoRepeats, WorkerInv, ExistsInv, TransferInv, CleanupInv,
       Held, Copied, PathOf
  <2>4. QED BY <2>1, <2>2, <2>3
<1>4. NoLoss' /\ Truthful'
  BY DEF NoLoss, Truthful, TruthfulRecord, SoundSetting, NoRepeats, Held, Copied
<1>5. QED BY <1>2, <1>3, <1>4

LEMMA ClaimStep ==
  ASSUME IInv, (TypeOK /\ ClaimsInv)', NEW w \in Worker, Claim(w)
  PROVE  IInv'
<1> USE DEF IInv
<1>1. /\ UNCHANGED <<job, store, results>>
      /\ \A v \in Worker : v # w =>
           pc'[v] = pc[v] /\ reply'[v] = reply[v] /\ entry'[v] = entry[v]
      /\ pc'[w] \in {"exists", "download", "done"} /\ reply'[w] = "none"
      /\ pc'[w] = "download" => job.conflictStrategy = "overwrite"
      /\ pc'[w] # "done" => entry'[w] = currentIndex /\ currentIndex' = currentIndex + 1
      /\ pc'[w] = "done" => entry' = entry /\ currentIndex' = currentIndex
  BY DEF Claim, Goto, TypeOK
<1>2. OnePlace'
  <2>1. /\ NumEntries \in Nat /\ currentIndex \in Nat
        /\ \A v \in Worker : entry[v] \in Nat /\ entry[v] < currentIndex
        /\ \A k \in DOMAIN results :
             results[k].entry \in Nat /\ results[k].entry < currentIndex
    <3>1. NumEntries \in Nat
      BY JobFacts DEF TypeOK
    <3>2. results \in Seq(Record)
      BY DEF TypeOK, Record
    <3>3. \A k \in DOMAIN results : results[k].entry \in Nat
      <4>1. \A k \in DOMAIN results : results[k] \in Record
        BY <3>2
      <4>2. QED BY <3>1, <4>1 DEF Record
    <3>4. /\ currentIndex \in Nat
          /\ \A v \in Worker : entry[v] \in Nat /\ entry[v] < currentIndex
      BY <3>1 DEF TypeOK, ClaimsInv
    <3>5. QED BY <3>1, <3>3, <3>4 DEF OnePlace
  <2>2. CASE pc'[w] = "done"
    <3>1. /\ \A v \in Worker : Holding(v)' => Holding(v)
          /\ UNCHANGED <<entry, currentIndex, results>>
      BY <1>1, <2>2 DEF Holding, Calls
    <3>2. QED BY <3>1 DEF OnePlace
  <2>3. CASE pc'[w] # "done"
    <3>1. \A v, u \in Worker :
            (Holding(v) /\ Holding(u) /\ entry[v] = entry[u])' => v = u
      BY <1>1, <2>1, <2>3 DEF OnePlace, Holding
    <3>2. \A v \in Worker, k \in DOMAIN results :
            Holding(v)' => results[k].entry # entry'[v]
      BY <1>1, <2>1, <2>3 DEF OnePlace, Holding
    <3>3. \A k \in DOMAIN results : results[k].entry < currentIndex'
      BY <1>1, <2>1, <2>3
    <3>4. QED BY <1>1, <3>1, <3>2, <3>3 DEF OnePlace
  <2>4. QED BY <2>2, <2>3
<1>3. SoundSetting' => SourceInv' /\ \A v \in Worker : WorkerInv(v)'
  <2>1. SoundSetting' = SoundSetting /\ SourceInv' = SourceInv
    BY <1>1 DEF SoundSetting, NoRepeats, NumEntries, SourceInv, Held
  <2>2. \A v \in Worker : v # w => WorkerInv(v)' = WorkerInv(v)
    BY <1>1 DEF NoRepeats, NumEntries, WorkerInv, ExistsInv, TransferInv,
       CleanupInv, Held, Copied, PathOf
  <2>3. WorkerInv(w)'
    BY <1>1 DEF WorkerInv, ExistsInv, TransferInv, CleanupInv
  <2>4. QED BY <2>1, <2>2, <2>3
<1>4. NoLoss' /\ Truthful'
  BY <1>1 DEF NoLoss, Truthful, TruthfulRecord, SoundSetting, NoRepeats,
     NumEntries, Held, Copied
<1>5. QED BY <1>2, <1>3, <1>4

LEMMA WorkStep ==
  ASSUME IInv, (TypeOK /\ ClaimsInv)', NEW w \in Worker, Work(w)
  PROVE  IInv'
<1>1. CASE Claim(w)
  BY <1>1, ClaimStep
<1>2. CASE OnExists(w)
  <2>1. Holding(w) /\ pc[w] = "exists"
    BY <1>2 DEF OnExists, Holding, Calls
  <2>2. CASE reply[w] = "no" /\ Goto(w, "download") /\ UNCHANGED <<results, outcome>>
    <3>1. SoundSetting => WorkerInv(w)'
      BY <1>2, <2>1, <2>2 DEF IInv, TypeOK, OnExists, Goto, WorkerInv, ExistsInv,
         TransferInv, CleanupInv, Copied, PathOf
    <3>2. QED BY <1>2, <2>1, <2>2, <3>1, GotoStep DEF OnExists, PC, Calls
  <2>3. CASE reply[w] = "yes" /\ job.conflictStrategy = "skip" /\ Settle(w, "skipped")
    <3>1. SoundSetting => TruthfulRecord(Result(w, "skipped"))
      BY <2>1, <2>3 DEF IInv, WorkerInv, ExistsInv, TruthfulRecord, Result, PathOf
    <3>2. QED BY <1>2, <2>1, <2>3, <3>1, SettleStep DEF OnExists, Status
  <2>4. CASE reply[w] = "yes" /\ job.conflictStrategy = "error" /\ Fail(w)
    BY <1>2, <2>1, <2>4, FailStep DEF OnExists
  <2>5. QED BY <1>2, <2>2, <2>3, <2>4 DEF OnExists
<1>3. CASE OnDownload(w)
  <2>1. Holding(w) /\ pc[w] = "download" /\ reply[w] = "ok"
    BY <1>3 DEF OnDownload, Holding, Calls
  <2>2. SoundSetting => WorkerInv(w)'
    BY <1>3, <2>1 DEF IInv, TypeOK, OnDownload, Goto, WorkerInv, ExistsInv,
       TransferInv, CleanupInv, Copied, Held, PathOf, NoRepeats, NumEntries
  <2>3. QED BY <1>3, <2>1, <2>2, GotoStep DEF OnDownload, PC, Calls
<1>4. CASE OnUpload(w)
  <2>1. Holding(w) /\ pc[w] = "upload" /\ reply[w] = "ok"
    BY <1>4 DEF OnUpload, Holding, Calls
  <2>2. CASE job.deleteSource /\ Goto(w, "delete") /\ UNCHANGED <<results, outcome>>
    <3>1. SoundSetting => WorkerInv(w)'
      BY <1>4, <2>1, <2>2 DEF IInv, TypeOK, OnUpload, Goto, WorkerInv, ExistsInv,
         TransferInv, CleanupInv, Copied, PathOf
    <3>2. QED BY <1>4, <2>1, <2>2, <3>1, GotoStep DEF OnUpload, PC, Calls
  <2>3. CASE ~job.deleteSource /\ Settle(w, "migrated")
    <3>1. SoundSetting => TruthfulRecord(Result(w, "migrated"))
      BY <2>1, <2>3 DEF IInv, WorkerInv, CleanupInv, TruthfulRecord, Result, PathOf
    <3>2. QED BY <1>4, <2>1, <2>3, <3>1, SettleStep DEF OnUpload, Status
  <2>4. QED BY <1>4, <2>2, <2>3 DEF OnUpload
<1>5. CASE OnDelete(w)
  <2>1. Holding(w) /\ pc[w] = "delete"
    BY <1>5 DEF OnDelete, Holding, Calls
  <2>2. CASE reply[w] = "ok" /\ Settle(w, "migrated")
    <3>1. SoundSetting => TruthfulRecord(Result(w, "migrated"))
      BY <2>1, <2>2 DEF IInv, WorkerInv, CleanupInv, TruthfulRecord, Result, PathOf
    <3>2. QED BY <1>5, <2>1, <2>2, <3>1, SettleStep DEF OnDelete, Status
  <2>3. CASE reply[w] = "error" /\ Settle(w, "partial")
    <3>1. SoundSetting => TruthfulRecord(Result(w, "partial"))
      BY <2>1, <2>3 DEF IInv, WorkerInv, CleanupInv, TruthfulRecord, Result, PathOf
    <3>2. QED BY <1>5, <2>1, <2>3, <3>1, SettleStep DEF OnDelete, Status
  <2>4. QED BY <1>5, <2>2, <2>3 DEF OnDelete
<1>6. CASE OnError(w)
  BY <1>6, FailStep DEF OnError, Holding, Calls
<1>7. QED BY <1>1, <1>2, <1>3, <1>4, <1>5, <1>6 DEF Work

-----------------------------------------------------------------------------
(* The providers' steps.                                                   *)

\* What an answer leaves alone.
LEMMA ServeFrame ==
  ASSUME TypeOK, NEW w \in Worker, Serve(w)
  PROVE  /\ UNCHANGED <<job, currentIndex, pc, entry, results, outcome>>
         /\ \A v \in Worker : v # w => reply'[v] = reply[v]
         /\ Holding(w)
  BY DEF TypeOK, Serve, TargetExists, SourceDownload, UploadOpens, UploadLands,
         SourceDelete, CallFails, Reply, Pending, Holding, Calls

\* Without repeats, two workers inside a call are at different paths, and
\* none is at the path of a record.
LEMMA PathsApart ==
  ASSUME IInv, NoRepeats, NEW w \in Worker, Holding(w)
  PROVE  /\ \A v \in Worker : Holding(v) /\ PathOf(v) = PathOf(w) => v = w
         /\ \A k \in DOMAIN results : job.paths[results[k].entry] # PathOf(w)
<1>1. \A v \in Worker : Holding(v) => entry[v] \in 1..NumEntries
  BY DEF IInv, ClaimsInv
<1>2. \A k \in DOMAIN results : results[k].entry \in 1..NumEntries
  <2>1. results \in Seq(Record)
    BY DEF IInv, TypeOK, Record
  <2>2. \A k \in DOMAIN results : results[k] \in Record
    BY <2>1
  <2>3. QED BY <2>2 DEF Record
<1>3. QED BY <1>1, <1>2 DEF NoRepeats, PathOf, IInv, OnePlace

\* The invariant over the stores, in the settings the engine is sound in.
StoresInv ==
  /\ SourceInv
  /\ \A v \in Worker : WorkerInv(v)
  /\ \A p \in job.present : Held(p) = "data" \/ Copied(p) = "data"
  /\ \A k \in DOMAIN results : TruthfulRecord(results[k])

LEMMA ReadStep ==
  ASSUME IInv, SoundSetting, NEW w \in Worker, Serve(w), UNCHANGED store,
         TargetExists(w) \/ SourceDownload(w) \/ CallFails(w)
  PROVE  StoresInv'
<1>1. /\ UNCHANGED <<job, store, pc, entry, results>>
      /\ \A v \in Worker : v # w => reply'[v] = reply[v]
  BY ServeFrame DEF IInv
<1>2. PathOf(w) \in Path
  BY ServeFrame, JobFacts DEF IInv, TypeOK, ClaimsInv, PathOf
<1>3. SourceInv' /\ \A v \in Worker : v # w => WorkerInv(v)'
  BY <1>1 DEF IInv, SourceInv, WorkerInv, ExistsInv, TransferInv, CleanupInv,
     Held, Copied, PathOf, NoRepeats, NumEntries
<1>4. WorkerInv(w)'
  <2>1. /\ Held(PathOf(w))' = Held(PathOf(w))
        /\ Copied(PathOf(w))' = Copied(PathOf(w))
        /\ PathOf(w)' = PathOf(w) /\ NoRepeats' = NoRepeats
    BY <1>1 DEF Held, Copied, PathOf, NoRepeats, NumEntries
  <2>2. CASE TargetExists(w)
    BY <1>1, <2>1, <2>2 DEF IInv, TypeOK, TargetExists, Pending, Reply, WorkerInv,
       ExistsInv, TransferInv, CleanupInv
  <2>3. CASE SourceDownload(w)
    BY <1>1, <1>2, <2>1, <2>3 DEF IInv, TypeOK, SourceDownload, Pending, Reply,
       WorkerInv, ExistsInv, TransferInv, CleanupInv, SourceInv
  <2>4. CASE CallFails(w)
    BY <1>1, <2>1, <2>4 DEF IInv, TypeOK, CallFails, Reply, WorkerInv, ExistsInv,
       TransferInv, CleanupInv
  <2>5. QED BY <2>2, <2>3, <2>4
<1>5. /\ \A p \in job.present : Held(p) = "data" \/ Copied(p) = "data"
      /\ \A k \in DOMAIN results : TruthfulRecord(results[k])
  BY DEF IInv, NoLoss, Truthful
<1>6. QED
  BY <1>1, <1>3, <1>4, <1>5 DEF StoresInv, TruthfulRecord, Held, Copied

LEMMA UploadStep ==
  ASSUME IInv, SoundSetting, NEW w \in Worker, Serve(w),
         UploadOpens(w) \/ UploadLands(w)
  PROVE  StoresInv'
<1>1. /\ UNCHANGED <<job, pc, entry, results>>
      /\ \A v \in Worker : v # w => reply'[v] = reply[v]
      /\ Holding(w) /\ pc[w] = "upload"
  BY ServeFrame DEF IInv, UploadOpens, UploadLands, Pending
<1>2. PathOf(w) \in Path /\ job.from \in Provider /\ job.to \in Provider
  BY <1>1, JobFacts DEF IInv, TypeOK, ClaimsInv, PathOf
<1>3. PICK c \in {"data", "torn"} :
        /\ store' = [store EXCEPT ![job.to][PathOf(w)] = c]
        /\ c = "torn" => NoRepeats /\ reply'[w] = "writing"
  BY DEF IInv, TypeOK, UploadOpens, UploadLands, Put, Reply, SoundSetting, Pending
<1>4. /\ \A q \in Path : Held(q)' = Held(q)
      /\ \A q \in Path : Copied(q)' = IF q = PathOf(w) THEN c ELSE Copied(q)
  BY <1>1, <1>2, <1>3 DEF IInv, TypeOK, Held, Copied, SoundSetting
<1>5. /\ \A v \in Worker : PathOf(v)' = PathOf(v)
      /\ NoRepeats' = NoRepeats
      /\ \A v \in Worker : Holding(v) => PathOf(v) \in Path
  BY <1>1, JobFacts DEF IInv, TypeOK, ClaimsInv, PathOf, NoRepeats, NumEntries
<1>6. SourceInv'
  BY <1>1, <1>4 DEF IInv, SourceInv
<1>7. \A v \in Worker : WorkerInv(v)'
  <2> SUFFICES ASSUME NEW v \in Worker PROVE WorkerInv(v)'
    OBVIOUS
  <2>1. CASE ~Holding(v)
    BY <1>1, <2>1 DEF WorkerInv, ExistsInv, TransferInv, CleanupInv, Holding, Calls
  <2>2. CASE v = w
    BY <1>1, <1>2, <1>3, <1>4, <1>5, <2>2 DEF IInv, WorkerInv, ExistsInv,
       TransferInv, CleanupInv
  <2>3. CASE v # w /\ Holding(v)
    <3>1. PathOf(v) = PathOf(w) => c = "data"
      BY <1>1, <1>3, <2>3, PathsApart
    <3>2. QED
      BY <1>1, <1>4, <1>5, <2>3, <3>1 DEF IInv, WorkerInv, ExistsInv, TransferInv,
         CleanupInv
  <2>4. QED BY <2>1, <2>2, <2>3
<1>8. \A p \in job.present : (Held(p) = "data" \/ Copied(p) = "data")'
  <2>1. job.present \subseteq Path
    BY JobFacts DEF IInv, TypeOK
  <2>2. c = "torn" => Held(PathOf(w)) = "data"
    BY <1>1, <1>3 DEF IInv, WorkerInv, TransferInv
  <2>3. QED BY <1>3, <1>4, <2>1, <2>2 DEF IInv, NoLoss
<1>9. \A k \in DOMAIN results : TruthfulRecord(results[k])'
  <2> SUFFICES ASSUME NEW k \in DOMAIN results PROVE TruthfulRecord(results[k])'
    OBVIOUS
  <2>1. PICK p \in Path : p = job.paths[results[k].entry]
    <3>1. results \in Seq(Record)
      BY DEF IInv, TypeOK, Record
    <3>2. results[k] \in Record
      BY <3>1
    <3>3. QED BY <3>2, JobFacts DEF Record, IInv, TypeOK
  <2>2. p = PathOf(w) => c = "data"
    BY <1>1, <1>3, <2>1, PathsApart
  <2>3. TruthfulRecord(results[k])
    BY DEF IInv, Truthful
  <2>4. /\ Held(p)' = Held(p)
        /\ Copied(p)' = IF p = PathOf(w) THEN "data" ELSE Copied(p)
    BY <1>4, <2>2
  <2>5. QED BY <1>1, <2>1, <2>3, <2>4 DEF TruthfulRecord
<1>10. QED BY <1>1, <1>6, <1>7, <1>8, <1>9 DEF StoresInv

LEMMA DeleteStep ==
  ASSUME IInv, SoundSetting, NEW w \in Worker, Serve(w), SourceDelete(w)
  PROVE  StoresInv'
<1>1. /\ UNCHANGED <<job, pc, entry, results>>
      /\ \A v \in Worker : v # w => reply'[v] = reply[v]
      /\ Holding(w) /\ pc[w] = "delete"
  BY ServeFrame DEF IInv, SourceDelete, Pending
<1>2. PathOf(w) \in Path /\ job.from \in Provider /\ job.to \in Provider
  BY <1>1, JobFacts DEF IInv, TypeOK, ClaimsInv, PathOf
<1>3. store' = [store EXCEPT ![job.from][PathOf(w)] = "absent"]
  BY DEF SourceDelete, Put
<1>4. /\ \A q \in Path : Copied(q)' = Copied(q)
      /\ \A q \in Path : Held(q)' = IF q = PathOf(w) THEN "absent" ELSE Held(q)
  BY <1>1, <1>2, <1>3 DEF IInv, TypeOK, Held, Copied, SoundSetting
<1>5. /\ \A v \in Worker : PathOf(v)' = PathOf(v)
      /\ NoRepeats' = NoRepeats
      /\ \A v \in Worker : Holding(v) => PathOf(v) \in Path
  BY <1>1, JobFacts DEF IInv, TypeOK, ClaimsInv, PathOf, NoRepeats, NumEntries
<1>6. SourceInv'
  BY <1>1, <1>4 DEF IInv, SourceInv
<1>7. \A v \in Worker : WorkerInv(v)'
  <2> SUFFICES ASSUME NEW v \in Worker PROVE WorkerInv(v)'
    OBVIOUS
  <2>1. CASE ~Holding(v)
    BY <1>1, <2>1 DEF WorkerInv, ExistsInv, TransferInv, CleanupInv, Holding, Calls
  <2>2. CASE v = w
    BY <1>1, <1>2, <1>4, <1>5, <2>2 DEF IInv, WorkerInv, ExistsInv, TransferInv,
       CleanupInv
  <2>3. CASE v # w /\ Holding(v)
    <3>1. NoRepeats => PathOf(v) # PathOf(w)
      BY <1>1, <2>3, PathsApart
    <3>2. QED
      BY <1>1, <1>4, <1>5, <2>3, <3>1 DEF IInv, WorkerInv, ExistsInv, TransferInv,
         CleanupInv
  <2>4. QED BY <2>1, <2>2, <2>3
<1>8. \A p \in job.present : (Held(p) = "data" \/ Copied(p) = "data")'
  <2>1. job.present \subseteq Path
    BY JobFacts DEF IInv, TypeOK
  <2>2. Copied(PathOf(w)) = "data"
    BY <1>1 DEF IInv, WorkerInv, CleanupInv
  <2>3. QED BY <1>4, <2>1, <2>2 DEF IInv, NoLoss
<1>9. \A k \in DOMAIN results : TruthfulRecord(results[k])'
  <2> SUFFICES ASSUME NEW k \in DOMAIN results PROVE TruthfulRecord(results[k])'
    OBVIOUS
  <2>1. PICK p \in Path : p = job.paths[results[k].entry]
    <3>1. results \in Seq(Record)
      BY DEF IInv, TypeOK, Record
    <3>2. results[k] \in Record
      BY <3>1
    <3>3. QED BY <3>2, JobFacts DEF Record, IInv, TypeOK
  <2>2. TruthfulRecord(results[k])
    BY DEF IInv, Truthful
  <2>3. Copied(p)' = Copied(p) /\ (Held(p) = "absent" => Held(p)' = "absent")
    BY <1>4
  <2>4. QED BY <1>1, <2>1, <2>2, <2>3 DEF TruthfulRecord
<1>10. QED BY <1>1, <1>6, <1>7, <1>8, <1>9 DEF StoresInv

LEMMA ServeStep ==
  ASSUME IInv, (TypeOK /\ ClaimsInv)', NEW w \in Worker, Serve(w)
  PROVE  IInv'
<1>1. UNCHANGED <<job, currentIndex, pc, entry, results, outcome>>
  BY ServeFrame DEF IInv
<1>2. OnePlace'
  BY <1>1 DEF IInv, OnePlace, Holding
<1>3. SoundSetting' = SoundSetting
  BY <1>1 DEF SoundSetting, NoRepeats, NumEntries
<1>4. SoundSetting => StoresInv'
  <2>1. CASE TargetExists(w) \/ SourceDownload(w) \/ CallFails(w)
    BY <2>1, ReadStep DEF TargetExists, SourceDownload, CallFails
  <2>2. CASE UploadOpens(w) \/ UploadLands(w)
    BY <2>2, UploadStep
  <2>3. CASE SourceDelete(w)
    BY <2>3, DeleteStep
  <2>4. QED BY <2>1, <2>2, <2>3 DEF Serve
<1>5. QED BY <1>2, <1>3, <1>4 DEF IInv, StoresInv, NoLoss, Truthful

LEMMA StutterStep ==
  ASSUME IInv, (TypeOK /\ ClaimsInv)',
         UNCHANGED <<job, store, currentIndex, pc, entry, reply, results>>
  PROVE  IInv'
<1>1. OnePlace' /\ SoundSetting' = SoundSetting
  BY DEF IInv, OnePlace, Holding, SoundSetting, NoRepeats, NumEntries
<1>2. SoundSetting => SourceInv' /\ \A w \in Worker : WorkerInv(w)'
  BY DEF IInv, SourceInv, WorkerInv, ExistsInv, TransferInv, CleanupInv, Held,
     Copied, PathOf, NoRepeats, NumEntries
<1>3. NoLoss' /\ Truthful'
  BY <1>1 DEF IInv, NoLoss, Truthful, TruthfulRecord, Held, Copied
<1>4. QED BY <1>1, <1>2, <1>3 DEF IInv

LEMMA Inductive == Spec => []IInv
<1>1. IInv /\ (TypeOK /\ ClaimsInv)' /\ [Next]_vars => IInv'
  <2> SUFFICES ASSUME IInv, (TypeOK /\ ClaimsInv)', [Next]_vars PROVE IInv'
    OBVIOUS
  <2>1. CASE \E w \in Worker : Work(w)
    BY <2>1, WorkStep
  <2>2. CASE \E w \in Worker : Serve(w)
    BY <2>2, ServeStep
  <2>3. CASE Return \/ UNCHANGED vars
    BY <2>3, StutterStep DEF Return, vars
  <2>4. QED BY <2>1, <2>2, <2>3 DEF Next
<1>2. QED BY <1>1, InitIInv, TypeCorrect, PTL DEF Spec

-----------------------------------------------------------------------------
(* The theorems.                                                           *)

\* The engine's state keeps its shape: every claimed entry is one of the job,
\* and every record carries one of the four statuses.
THEOREM TypeOKHolds == Spec => []TypeOK
  BY TypeCorrect, PTL

\* Between two different stores, no migration loses an object, whatever fails.
THEOREM NoLossHolds == Spec => []NoLoss
<1>1. IInv => NoLoss
  BY DEF IInv
<1>2. QED BY <1>1, Inductive, PTL

\* Between two different stores, every record of the report is true of them.
THEOREM TruthfulHolds == Spec => []Truthful
<1>1. IInv => Truthful
  BY DEF IInv
<1>2. QED BY <1>1, Inductive, PTL

\* Without the overwrite strategy no step of the engine replaces an object
\* that was on the target before.
THEOREM NoClobberHolds == Spec => NoClobber
<1> DEFINE Kept == \A p \in Path :
             SoundSetting /\ job.conflictStrategy # "overwrite" /\ Copied(p) = "old"
               => Copied(p)' = "old"
<1>1. IInv /\ [Next]_vars => [Kept]_vars
  <2> SUFFICES ASSUME IInv, Next, SoundSetting, job.conflictStrategy # "overwrite",
                      NEW p \in Path, Copied(p) = "old"
               PROVE  Copied(p)' = "old"
    OBVIOUS
  <2>1. ASSUME NEW w \in Worker, Work(w) PROVE Copied(p)' = "old"
    BY <2>1 DEF Work, Claim, OnExists, OnDownload, OnUpload, OnDelete, OnError, Copied
  <2>2. ASSUME NEW w \in Worker, Serve(w) PROVE Copied(p)' = "old"
    <3>1. /\ Holding(w) /\ job' = job
          /\ PathOf(w) \in Path /\ job.from \in Provider /\ job.to \in Provider
      BY <2>2, ServeFrame, JobFacts DEF IInv, TypeOK, ClaimsInv, PathOf
    <3>2. CASE UNCHANGED store
      BY <3>1, <3>2 DEF Copied
    <3>3. CASE UploadOpens(w) \/ UploadLands(w)
      <4>1. \E c \in Content : Put(job.to, PathOf(w), c)
        BY <3>3 DEF UploadOpens, UploadLands, Content
      <4>2. PathOf(w) # p
        BY <3>3 DEF IInv, WorkerInv, TransferInv, UploadOpens, UploadLands, Pending
      <4>3. QED BY <3>1, <4>1, <4>2 DEF Put, Copied, IInv, TypeOK
    <3>4. CASE SourceDelete(w)
      BY <3>1, <3>4 DEF SourceDelete, Put, Copied, SoundSetting, IInv, TypeOK
    <3>5. QED
      BY <2>2, <3>2, <3>3, <3>4 DEF Serve, TargetExists, SourceDownload, CallFails
  <2>3. CASE Return
    BY <2>3 DEF Return, Copied
  <2>4. QED BY <2>1, <2>2, <2>3 DEF Next
<1>2. QED BY <1>1, Inductive, PTL DEF NoClobber, Spec

-----------------------------------------------------------------------------
(* With a listener that does not throw: one record for each entry.         *)

Complete ==
  /\ \A w \in Worker : pc[w] # "crashed"
  /\ outcome # "rejected"
  /\ \A k, l \in DOMAIN results : results[k].entry = results[l].entry => k = l
  /\ \A i \in 1..NumEntries :
       i < currentIndex =>
         \/ \E w \in Worker : Holding(w) /\ entry[w] = i
         \/ \E k \in DOMAIN results : results[k].entry = i
  /\ \A w \in Worker : pc[w] = "done" => currentIndex > NumEntries
  /\ outcome = "returned" => \A w \in Worker : pc[w] = "done"

\* What a worker inside a call may do: go to another call, or push one record
\* of its entry and return to its loop.
LEMMA QuietWork ==
  ASSUME IInv, ~ListenerThrows, NEW w \in Worker, Work(w), pc[w] # "claim"
  PROVE  /\ Holding(w)
         /\ UNCHANGED <<job, store, currentIndex, entry, outcome>>
         /\ \A v \in Worker : v # w => pc'[v] = pc[v]
         /\ \/ results' = results /\ pc'[w] \in Calls
            \/ /\ pc'[w] = "claim"
               /\ \E s \in Status : results' = Append(results, Result(w, s))
  BY DEF IInv, TypeOK, Work, Claim, OnExists, OnDownload, OnUpload, OnDelete, OnError,
         Settle, Fail, Continue, Goto, Holding, Calls, Status

LEMMA CompleteInductive == Spec => [](~ListenerThrows => Complete)
<1>1. Init => (~ListenerThrows => Complete)
  BY JobFacts DEF Init, Complete, Holding, Calls
<1>2. IInv /\ (~ListenerThrows => Complete) /\ [Next]_vars
        => (~ListenerThrows => Complete)'
  <2> SUFFICES ASSUME IInv, ~ListenerThrows, Complete, [Next]_vars PROVE Complete'
    OBVIOUS
  <2>n. NumEntries \in Nat /\ currentIndex \in Nat
    BY JobFacts DEF IInv, TypeOK
  <2>1. ASSUME NEW w \in Worker, Work(w), pc[w] # "claim" PROVE Complete'
    <3>1. /\ Holding(w)
          /\ UNCHANGED <<job, currentIndex, entry, outcome>> /\ NumEntries' = NumEntries
          /\ \A v \in Worker : v # w => pc'[v] = pc[v]
      BY <2>1, QuietWork DEF NumEntries
    <3>2. CASE results' = results /\ pc'[w] \in Calls
      BY <3>1, <3>2 DEF Complete, Holding, Calls
    <3>3. CASE pc'[w] = "claim" /\ \E s \in Status : results' = Append(results, Result(w, s))
      <4>1. /\ Len(results) \in Nat /\ DOMAIN results = 1..Len(results)
            /\ DOMAIN results' = 1..(Len(results) + 1)
            /\ \A k \in DOMAIN results : results'[k] = results[k]
            /\ results'[Len(results) + 1].entry = entry[w]
        BY <3>3 DEF IInv, TypeOK, Result
      <4>2. \A k \in DOMAIN results : results[k].entry # entry[w]
        BY <3>1 DEF IInv, OnePlace
      <4>3. \A k, l \in DOMAIN results' : results'[k].entry = results'[l].entry => k = l
        BY <4>1, <4>2 DEF Complete
      <4>4. \A i \in 1..NumEntries :
              i < currentIndex =>
                \/ \E v \in Worker : Holding(v)' /\ entry'[v] = i
                \/ \E k \in DOMAIN results' : results'[k].entry = i
        <5> SUFFICES ASSUME NEW i \in 1..NumEntries, i < currentIndex
                     PROVE  \/ \E v \in Worker : Holding(v)' /\ entry'[v] = i
                            \/ \E k \in DOMAIN results' : results'[k].entry = i
          OBVIOUS
        <5>1. CASE entry[w] = i
          BY <4>1, <5>1
        <5>2. CASE \E v \in Worker : v # w /\ Holding(v) /\ entry[v] = i
          BY <3>1, <5>2 DEF Holding
        <5>3. CASE \E k \in DOMAIN results : results[k].entry = i
          BY <4>1, <5>3
        <5>4. QED BY <5>1, <5>2, <5>3 DEF Complete
      <4>5. QED BY <3>1, <3>3, <4>3, <4>4 DEF Complete, Holding, Calls
    <3>4. QED BY <2>1, <3>2, <3>3, QuietWork
  <2>2. ASSUME NEW w \in Worker, Claim(w) PROVE Complete'
    <3>1. /\ UNCHANGED <<job, store, results, outcome>> /\ NumEntries' = NumEntries
          /\ \A v \in Worker : v # w => pc'[v] = pc[v] /\ entry'[v] = entry[v]
          /\ pc[w] = "claim"
      BY <2>2 DEF Claim, Goto, IInv, TypeOK, NumEntries
    <3>2. CASE currentIndex <= NumEntries
      <4>1. /\ entry'[w] = currentIndex /\ currentIndex' = currentIndex + 1
            /\ pc'[w] \in {"exists", "download"}
        BY <2>2, <3>2 DEF Claim, Goto, IInv, TypeOK
      <4>2. \A v \in Worker : Holding(v) => v # w
        BY <3>1 DEF Holding, Calls
      <4>3. \A i \in 1..NumEntries :
              i < currentIndex' =>
                \/ \E v \in Worker : Holding(v)' /\ entry'[v] = i
                \/ \E k \in DOMAIN results : results[k].entry = i
        BY <2>n, <3>1, <4>1, <4>2 DEF Complete, Holding, Calls
      <4>4. \A v \in Worker : pc'[v] \notin {"crashed", "done"}
        BY <2>n, <3>1, <3>2, <4>1 DEF Complete
      <4>5. QED BY <3>1, <4>3, <4>4 DEF Complete
    <3>3. CASE ~(currentIndex <= NumEntries)
      <4>1. UNCHANGED <<entry, currentIndex>> /\ pc'[w] = "done"
        BY <2>2, <3>3 DEF Claim, Goto, IInv, TypeOK
      <4>2. \A v \in Worker : Holding(v)' <=> Holding(v)
        BY <3>1, <4>1 DEF Holding, Calls
      <4>3. currentIndex > NumEntries
        BY <2>n, <3>3
      <4>4. QED BY <3>1, <4>1, <4>2, <4>3 DEF Complete
    <3>4. QED BY <3>2, <3>3
  <2>3. ASSUME NEW w \in Worker, Serve(w) PROVE Complete'
    BY <2>3, ServeFrame DEF IInv, Complete, Holding, NumEntries
  <2>4. CASE Return
    BY <2>4 DEF Return, Complete, Holding, NumEntries
  <2>5. CASE UNCHANGED vars
    BY <2>5 DEF vars, Complete, Holding, NumEntries
  <2>6. QED BY <2>1, <2>2, <2>3, <2>4, <2>5 DEF Next, Work, OnExists, OnDownload,
               OnUpload, OnDelete, OnError
<1>3. QED BY <1>1, <1>2, Inductive, PTL DEF Spec

\* No entry is recorded twice, and the report returned has one record for each.
THEOREM OneRecordEachHolds == Spec => []OneRecordEach
<1>1. IInv /\ (~ListenerThrows => Complete) => OneRecordEach
  <2> SUFFICES ASSUME IInv, ~ListenerThrows, Complete PROVE OneRecordEach
    BY DEF OneRecordEach
  <2>1. ASSUME outcome = "returned", NEW i \in 1..NumEntries
        PROVE  \E k \in DOMAIN results : results[k].entry = i
    <3>1. \A w \in Worker : pc[w] = "done"
      BY <2>1 DEF Complete
    <3>2. \A w \in Worker : ~Holding(w)
      BY <3>1 DEF Holding, Calls
    <3>3. NumEntries \in Nat /\ currentIndex \in Nat /\ currentIndex > NumEntries
      BY <3>1, JobFacts DEF IInv, TypeOK, Complete
    <3>4. QED BY <3>2, <3>3 DEF Complete
  <2>2. QED BY <2>1 DEF Complete, OneRecordEach
<1>2. QED BY <1>1, Inductive, CompleteInductive, PTL

\* After migrate() settled no worker is left to touch a store.
THEOREM StillOnceSettledHolds == Spec => StillOnceSettled
<1> DEFINE Still == ~ListenerThrows /\ outcome # "running" => UNCHANGED <<store, results>>
<1>1. IInv /\ (~ListenerThrows => Complete) /\ [Next]_vars => [Still]_vars
  <2> SUFFICES ASSUME IInv, Complete, ~ListenerThrows, outcome # "running", Next
               PROVE  UNCHANGED <<store, results>>
    OBVIOUS
  <2>1. \A w \in Worker : pc[w] = "done"
    BY DEF IInv, TypeOK, Complete
  <2>2. \A w \in Worker : ~Work(w)
    BY <2>1 DEF Work, Claim, OnExists, OnDownload, OnUpload, OnDelete, OnError
  <2>3. \A w \in Worker : ~Serve(w)
    BY <2>1, ServeFrame DEF IInv, Holding, Calls
  <2>4. QED BY <2>2, <2>3 DEF Next, Return
<1>2. QED BY <1>1, Inductive, CompleteInductive, PTL DEF StillOnceSettled, Spec

-----------------------------------------------------------------------------
(* The engine implements the contract.                                     *)

\* An atomic store never shows a partial object.
Untorn == AtomicUpload => \A v \in Provider, p \in Path : store[v][p] # "torn"

LEMMA UntornInductive == Spec => []Untorn
<1>1. Init => Untorn
  BY JobFacts DEF Init, Untorn
<1>2. IInv /\ Untorn /\ [Next]_vars => Untorn'
  <2> SUFFICES ASSUME IInv, Untorn, AtomicUpload, [Next]_vars
               PROVE  \A v \in Provider, p \in Path : store'[v][p] # "torn"
    BY DEF Untorn
  <2>1. ASSUME NEW w \in Worker, Work(w) PROVE store' = store
    BY <2>1 DEF Work, Claim, OnExists, OnDownload, OnUpload, OnDelete, OnError
  <2>2. ASSUME NEW w \in Worker, Serve(w)
        PROVE  store' = store \/ \E v \in Provider, p \in Path, c \in {"data", "absent"} :
                                   Put(v, p, c)
    <3>1. PathOf(w) \in Path /\ job.from \in Provider /\ job.to \in Provider
      BY <2>2, ServeFrame, JobFacts DEF IInv, TypeOK, ClaimsInv, PathOf
    <3>2. QED
      BY <2>2, <3>1 DEF Serve, TargetExists, SourceDownload, UploadOpens,
         UploadLands, SourceDelete, CallFails
  <2>3. \/ store' = store
        \/ \E v \in Provider, p \in Path, c \in {"data", "absent"} : Put(v, p, c)
    BY <2>1, <2>2 DEF Next, Return, vars
  <2>4. ASSUME NEW v \in Provider, NEW p \in Path, NEW c \in {"data", "absent"}, Put(v, p, c)
        PROVE  \A u \in Provider, q \in Path : store'[u][q] # "torn"
    <3>1. \A u \in Provider, q \in Path :
            store'[u][q] = IF u = v /\ q = p THEN c ELSE store[u][q]
      BY <2>4 DEF Put, IInv, TypeOK
    <3>2. QED BY <3>1 DEF Untorn
  <2>5. QED BY <2>3, <2>4 DEF Untorn
<1>3. QED BY <1>1, <1>2, Inductive, PTL DEF Spec

\* The setting of the contract: different stores, whole uploads, a quiet
\* listener.
ContractSetting ==
  /\ \A j \in Jobs : j.from # j.to
  /\ AtomicUpload
  /\ ~ListenerThrows

\* The contract's view of a step that pushes nothing, and of one that pushes
\* the first record of an entry.
LEMMA VerdictKept ==
  ASSUME UNCHANGED results
  PROVE  \A i : VerdictOf(i)' = VerdictOf(i)
  BY DEF VerdictOf, RecordsOf

LEMMA VerdictPushed ==
  ASSUME IInv, Complete, NEW w \in Worker, Holding(w), NEW s \in Status,
         results' = Append(results, Result(w, s)), UNCHANGED entry
  PROVE  /\ VerdictOf(entry[w]) = "pending"
         /\ VerdictOf(entry[w])' = s
         /\ \A i : i # entry[w] => VerdictOf(i)' = VerdictOf(i)
<1>1. /\ Len(results) \in Nat /\ DOMAIN results = 1..Len(results)
      /\ DOMAIN results' = 1..(Len(results) + 1)
      /\ \A k \in DOMAIN results : results'[k] = results[k]
      /\ results'[Len(results) + 1] = Result(w, s)
  BY DEF IInv, TypeOK, Result
<1>2. RecordsOf(entry[w]) = {}
  BY DEF RecordsOf, IInv, OnePlace
<1>3. {k \in DOMAIN results' : results'[k].entry = entry[w]} = {Len(results) + 1}
  <2>1. \A k \in DOMAIN results : results'[k].entry # entry[w]
    BY <1>1, <1>2 DEF RecordsOf
  <2>2. results'[Len(results) + 1].entry = entry[w]
    BY <1>1 DEF Result
  <2>3. QED BY <1>1, <2>1, <2>2
<1>4. VerdictOf(entry[w])' = s
  <2>1. RecordsOf(entry[w])' = {Len(results) + 1}
    BY <1>3 DEF RecordsOf
  <2>2. (CHOOSE k \in {Len(results) + 1} : TRUE) = Len(results) + 1
    OBVIOUS
  <2>3. QED BY <1>1, <2>1, <2>2 DEF VerdictOf, Result
<1>5. ASSUME NEW i, i # entry[w] PROVE VerdictOf(i)' = VerdictOf(i)
  <2>1. {k \in DOMAIN results' : results'[k].entry = i} = RecordsOf(i)
    BY <1>1, <1>5 DEF RecordsOf, Result
  <2>2. CASE RecordsOf(i) = {}
    BY <2>1, <2>2 DEF VerdictOf, RecordsOf
  <2>3. CASE RecordsOf(i) # {}
    <3>1. (CHOOSE k \in RecordsOf(i) : TRUE) \in DOMAIN results
      BY <2>3 DEF RecordsOf
    <3>2. VerdictOf(i)' = results'[CHOOSE k \in RecordsOf(i) : TRUE].status
      BY <2>1, <2>3 DEF VerdictOf, RecordsOf
    <3>3. QED BY <1>1, <2>3, <3>1, <3>2 DEF VerdictOf
  <2>4. QED BY <2>2, <2>3
<1>6. QED BY <1>2, <1>4, <1>5 DEF VerdictOf

LEMMA ContractInit ==
  ASSUME ContractSetting, Init PROVE Contract!CInit
<1>1. job.from \in Provider /\ job.to \in Provider /\ job.from # job.to
  BY JobFacts DEF Init, ContractSetting
<1>2. \A p \in Path :
        /\ store[job.from][p] = IF p \in job.present THEN "data" ELSE "absent"
        /\ store[job.to][p] = IF p \in job.occupied THEN "old" ELSE "absent"
  BY <1>1 DEF Init
<1>3. /\ store[job.from] = [p \in Path |-> IF p \in job.present THEN "data" ELSE "absent"]
      /\ store[job.to] = [p \in Path |-> IF p \in job.occupied THEN "old" ELSE "absent"]
  BY <1>1, <1>2 DEF Init
<1>4. \A i : VerdictOf(i) = "pending"
  BY DEF Init, VerdictOf, RecordsOf
<1>5. QED BY <1>3, <1>4 DEF Contract!CInit, Contract!Entries, NumEntries, Init

\* A step that leaves job, stores, report and outcome alone is invisible.
LEMMA Invisible ==
  ASSUME UNCHANGED <<job, store, results, outcome>>
  PROVE  UNCHANGED Contract!cvars
  BY VerdictKept DEF Contract!cvars, NumEntries

\* Pushing a justified record is a Decide step of the contract.
LEMMA PushDecides ==
  ASSUME IInv, Complete, NEW w \in Worker, Holding(w), NEW s \in Status,
         results' = Append(results, Result(w, s)),
         UNCHANGED <<job, store, entry, outcome>>,
         Contract!Justified(PathOf(w), s)
  PROVE  Contract!CNext
<1>1. entry[w] \in 1..NumEntries /\ outcome = "running"
  <2>1. pc[w] # "done"
    BY DEF Holding, Calls
  <2>2. QED BY <2>1 DEF IInv, TypeOK, ClaimsInv, Complete
<1>2. /\ VerdictOf(entry[w]) = "pending"
      /\ [i \in 1..NumEntries |-> VerdictOf(i)]'
           = [[i \in 1..NumEntries |-> VerdictOf(i)] EXCEPT ![entry[w]] = s]
  BY <1>1, VerdictPushed DEF NumEntries
<1>3. Contract!Decide(entry[w], s)
  BY <1>1, <1>2 DEF Contract!Decide, PathOf
<1>4. QED BY <1>1, <1>3 DEF Contract!CNext, Contract!Entries, NumEntries, Status

LEMMA WorkRefines ==
  ASSUME ContractSetting, IInv, Complete, NEW w \in Worker, Work(w)
  PROVE  [Contract!CNext]_(Contract!cvars)
<1>1. CASE pc[w] = "claim"
  BY <1>1, Invisible DEF Work, Claim, OnExists, OnDownload, OnUpload, OnDelete, OnError
<1>2. CASE pc[w] # "claim" /\ results' = results
  BY <1>2, QuietWork, Invisible DEF ContractSetting
<1>3. CASE pc[w] # "claim" /\ results' # results
  <2>1. /\ Holding(w) /\ UNCHANGED <<job, store, entry, outcome>>
    BY <1>3, QuietWork DEF ContractSetting
  <2>2. SoundSetting /\ WorkerInv(w)
    BY DEF ContractSetting, IInv, TypeOK, SoundSetting
  <2>3. CASE Fail(w)
    <3>1. results' = Append(results, Result(w, "failed"))
      BY <2>3 DEF Fail
    <3>2. QED BY <2>1, <3>1, PushDecides DEF Contract!Justified, Status
  <2>4. CASE OnExists(w) /\ reply[w] = "yes" /\ job.conflictStrategy = "skip"
               /\ Settle(w, "skipped")
    <3>1. results' = Append(results, Result(w, "skipped"))
      BY <2>4 DEF Settle, ContractSetting
    <3>2. Contract!Justified(PathOf(w), "skipped")
      BY <2>2, <2>4 DEF OnExists, WorkerInv, ExistsInv, Copied, Contract!Justified
    <3>3. QED BY <2>1, <3>1, <3>2, PushDecides DEF Status
  <2>5. CASE OnUpload(w) /\ ~job.deleteSource /\ Settle(w, "migrated")
    <3>1. results' = Append(results, Result(w, "migrated"))
      BY <2>5 DEF Settle, ContractSetting
    <3>2. Contract!Justified(PathOf(w), "migrated")
      BY <2>2, <2>5 DEF OnUpload, WorkerInv, CleanupInv, Copied, Contract!Justified
    <3>3. QED BY <2>1, <3>1, <3>2, PushDecides DEF Status
  <2>6. CASE OnDelete(w) /\ reply[w] = "ok" /\ Settle(w, "migrated")
    <3>1. results' = Append(results, Result(w, "migrated"))
      BY <2>6 DEF Settle, ContractSetting
    <3>2. Contract!Justified(PathOf(w), "migrated")
      BY <2>2, <2>6 DEF OnDelete, WorkerInv, CleanupInv, Copied, Held, Contract!Justified
    <3>3. QED BY <2>1, <3>1, <3>2, PushDecides DEF Status
  <2>7. CASE OnDelete(w) /\ Settle(w, "partial")
    <3>1. results' = Append(results, Result(w, "partial"))
      BY <2>7 DEF Settle, ContractSetting
    <3>2. Contract!Justified(PathOf(w), "partial")
      BY <2>2, <2>7 DEF OnDelete, WorkerInv, CleanupInv, Copied, Contract!Justified
    <3>3. QED BY <2>1, <3>1, <3>2, PushDecides DEF Status
  <2>8. QED
    BY <1>3, <2>3, <2>4, <2>5, <2>6, <2>7
       DEF Work, Claim, OnExists, OnDownload, OnUpload, OnDelete, OnError
<1>4. QED BY <1>1, <1>2, <1>3

LEMMA ServeRefines ==
  ASSUME ContractSetting, IInv, Complete, Untorn, NEW w \in Worker, Serve(w)
  PROVE  [Contract!CNext]_(Contract!cvars)
<1>1. /\ UNCHANGED <<job, results, outcome>> /\ Holding(w)
      /\ [i \in 1..NumEntries |-> VerdictOf(i)]' = [i \in 1..NumEntries |-> VerdictOf(i)]
  BY ServeFrame, VerdictKept DEF IInv, NumEntries
<1>2. /\ PathOf(w) \in Path /\ job.from \in Provider /\ job.to \in Provider
      /\ PathOf(w) \in Contract!Requested
      /\ job.from # job.to
  BY <1>1, JobFacts DEF IInv, TypeOK, ClaimsInv, PathOf, Contract!Requested,
     Contract!Entries, NumEntries, ContractSetting
<1>3. outcome = "running"
  BY <1>1 DEF Holding, Calls, IInv, TypeOK, Complete
<1>4. SoundSetting /\ WorkerInv(w)
  BY DEF ContractSetting, IInv, TypeOK, SoundSetting
<1>5. CASE UNCHANGED store
  BY <1>1, <1>5, Invisible
<1>6. CASE UploadLands(w)
  <2>1. store' = [store EXCEPT ![job.to][PathOf(w)] = "data"] /\ pc[w] = "upload"
    BY <1>6 DEF UploadLands, Put, Pending, ContractSetting
  <2>2. CASE Copied(PathOf(w)) = "data"
    <3>1. store' = store
      BY <1>2, <2>1, <2>2 DEF Copied, IInv, TypeOK
    <3>2. QED BY <1>1, <3>1, Invisible
  <2>3. CASE Copied(PathOf(w)) # "data"
    <3>1. /\ PathOf(w) \in job.present
          /\ store[job.to][PathOf(w)] = "absent" \/ job.conflictStrategy = "overwrite"
      <4>1. Copied(PathOf(w)) \in Content /\ Copied(PathOf(w)) # "torn"
        BY <1>2 DEF Copied, IInv, TypeOK, Untorn, ContractSetting
      <4>2. QED
        BY <1>4, <2>1, <2>3, <4>1 DEF WorkerInv, TransferInv, Copied, Content
    <3>2. /\ store'[job.to] = [store[job.to] EXCEPT ![PathOf(w)] = "data"]
          /\ store'[job.from] = store[job.from]
      BY <1>2, <2>1 DEF IInv, TypeOK
    <3>3. Contract!Copy(PathOf(w))
      BY <1>1, <3>1, <3>2 DEF Contract!Copy
    <3>4. QED BY <1>2, <1>3, <3>3 DEF Contract!CNext
  <2>4. QED BY <2>2, <2>3
<1>7. CASE SourceDelete(w)
  <2>1. store' = [store EXCEPT ![job.from][PathOf(w)] = "absent"] /\ pc[w] = "delete"
    BY <1>7 DEF SourceDelete, Put, Pending
  <2>2. /\ store'[job.from] = [store[job.from] EXCEPT ![PathOf(w)] = "absent"]
        /\ store'[job.to] = store[job.to]
    BY <1>2, <2>1 DEF IInv, TypeOK
  <2>3. job.deleteSource /\ store[job.to][PathOf(w)] = "data"
    BY <1>4, <2>1 DEF WorkerInv, CleanupInv, Copied
  <2>4. Contract!Remove(PathOf(w))
    BY <1>1, <2>2, <2>3 DEF Contract!Remove
  <2>5. QED BY <1>2, <1>3, <2>4 DEF Contract!CNext
<1>8. QED
  BY <1>5, <1>6, <1>7 DEF Serve, TargetExists, SourceDownload, UploadOpens, CallFails,
     ContractSetting

LEMMA ReturnRefines ==
  ASSUME IInv, ~ListenerThrows, Complete, Return
  PROVE  Contract!CNext
<1>1. /\ UNCHANGED <<job, store, results>> /\ outcome = "running" /\ outcome' = "returned"
      /\ \A w \in Worker : pc[w] = "done"
  BY DEF Return
<1>2. \A i \in 1..NumEntries : RecordsOf(i) # {}
  <2>1. \A w \in Worker : ~Holding(w)
    BY <1>1 DEF Holding, Calls
  <2>2. NumEntries \in Nat /\ currentIndex \in Nat /\ currentIndex > NumEntries
    BY <1>1, JobFacts DEF IInv, TypeOK, Complete
  <2>3. QED BY <2>1, <2>2 DEF Complete, RecordsOf
<1>3. \A i \in 1..NumEntries : VerdictOf(i) # "pending"
  <2> SUFFICES ASSUME NEW i \in 1..NumEntries PROVE VerdictOf(i) # "pending"
    OBVIOUS
  <2>1. results \in Seq(Record)
    BY DEF IInv, TypeOK, Record
  <2>2. \A k \in DOMAIN results : results[k] \in Record
    BY <2>1
  <2>3. (CHOOSE k \in RecordsOf(i) : TRUE) \in DOMAIN results
    BY <1>2 DEF RecordsOf
  <2>4. QED BY <1>2, <2>2, <2>3 DEF VerdictOf, Record, Status
<1>4. Contract!Report
  BY <1>1, <1>3, VerdictKept DEF Contract!Report, Contract!Entries, NumEntries
<1>5. QED BY <1>4 DEF Contract!CNext

\* Between different stores with atomic uploads and a quiet listener, every
\* behaviour of the engine is one the contract allows.
THEOREM Implements ==
  ASSUME ContractSetting
  PROVE  Spec => ImplementsContract
<1>1. Init => Contract!CInit
  BY ContractInit
<1>2. IInv /\ (~ListenerThrows => Complete) /\ Untorn /\ [Next]_vars
        => [Contract!CNext]_(Contract!cvars)
  <2> SUFFICES ASSUME IInv, Complete, Untorn, [Next]_vars
               PROVE  [Contract!CNext]_(Contract!cvars)
    BY DEF ContractSetting
  <2>1. CASE \E w \in Worker : Work(w)
    BY <2>1, WorkRefines
  <2>2. CASE \E w \in Worker : Serve(w)
    BY <2>2, ServeRefines
  <2>3. CASE Return
    BY <2>3, ReturnRefines DEF ContractSetting
  <2>4. CASE UNCHANGED vars
    BY <2>4, Invisible DEF vars
  <2>5. QED BY <2>1, <2>2, <2>3, <2>4 DEF Next
<1>3. QED
  BY <1>1, <1>2, Inductive, CompleteInductive, UntornInductive, PTL
     DEF ImplementsContract, Contract!CSpec, Spec

====
