-------------------------- MODULE MigrationContract --------------------------
(***************************************************************************)
(* What a migration promises, without workers, calls or failures: objects  *)
(* are copied before they are removed from the source, every entry gets one *)
(* verdict that the two stores bear out, and the report comes last.        *)
(***************************************************************************)
EXTENDS Naturals, Sequences

CONSTANT Path

VARIABLES
  job,      \* the request, as in Migration
  source,   \* source[p]: what the source holds at p
  target,   \* target[p]: what the target holds at p
  verdict,  \* verdict[i]: the status of the i-th entry, or "pending"
  outcome   \* "running" until the report is returned

cvars == <<job, source, target, verdict, outcome>>

Entries == 1..Len(job.paths)
Requested == {job.paths[i] : i \in Entries}

CInit ==
  /\ source = [p \in Path |-> IF p \in job.present THEN "data" ELSE "absent"]
  /\ target = [p \in Path |-> IF p \in job.occupied THEN "old" ELSE "absent"]
  /\ verdict = [i \in Entries |-> "pending"]
  /\ outcome = "running"

\* A whole object appears on the target; only the overwrite strategy may
\* replace one that was there.
Copy(p) ==
  /\ p \in job.present
  /\ target[p] = "absent" \/ job.conflictStrategy = "overwrite"
  /\ target' = [target EXCEPT ![p] = "data"]
  /\ UNCHANGED <<job, source, verdict, outcome>>

\* Only what has been copied may be removed, and only on request.
Remove(p) ==
  /\ job.deleteSource
  /\ target[p] = "data"
  /\ source' = [source EXCEPT ![p] = "absent"]
  /\ UNCHANGED <<job, target, verdict, outcome>>

Justified(p, status) ==
  \/ status = "migrated" /\ target[p] = "data"
       /\ (job.deleteSource => source[p] = "absent")
  \/ status = "partial" /\ target[p] = "data" /\ job.deleteSource
  \/ status = "skipped" /\ target[p] # "absent" /\ job.conflictStrategy = "skip"
  \/ status = "failed"

Decide(i, status) ==
  /\ verdict[i] = "pending"
  /\ Justified(job.paths[i], status)
  /\ verdict' = [verdict EXCEPT ![i] = status]
  /\ UNCHANGED <<job, source, target, outcome>>

Report ==
  /\ outcome = "running"
  /\ \A i \in Entries : verdict[i] # "pending"
  /\ outcome' = "returned"
  /\ UNCHANGED <<job, source, target, verdict>>

CNext ==
  \/ /\ outcome = "running"
     /\ \/ \E p \in Requested : Copy(p) \/ Remove(p)
        \/ \E i \in Entries :
             \E s \in {"migrated", "skipped", "failed", "partial"} : Decide(i, s)
  \/ Report

CSpec == CInit /\ [][CNext]_cvars

=============================================================================
