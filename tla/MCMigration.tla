---------------------------- MODULE MCMigration ----------------------------
(***************************************************************************)
(* Migration on two paths and two workers.  The jobs: every list of at     *)
(* most MaxEntries entries, repeats included, every strategy, with and     *)
(* without deletion, every initial content up to renaming of the paths.    *)
(***************************************************************************)
EXTENDS Migration

CONSTANTS MaxEntries, Targets, Source, Contents

BoundedSeqs(S, n) == UNION {[1..k -> S] : k \in 0..n}

MCJobs ==
  {[from |-> Source, to |-> t, paths |-> ps, conflictStrategy |-> s,
    deleteSource |-> d, present |-> h, occupied |-> o] :
     t \in Targets, ps \in BoundedSeqs(Path, MaxEntries), s \in Strategy,
     d \in BOOLEAN, h \in Contents, o \in Contents}

MCContents == {{}, {CHOOSE p \in Path : TRUE}, Path}
=============================================================================
