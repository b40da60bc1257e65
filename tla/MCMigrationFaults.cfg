\* Uploads that truncate first, an onProgress that may throw, and jobs whose
\* source and target are one store.
CONSTANTS
  Provider = {drive, s3}
  Path = {p1, p2}
  Worker = {w1, w2}
  Jobs <- MCJobs
  ListenerThrows = TRUE
  AtomicUpload = FALSE
  MaxEntries = 2
  Source = drive
  Targets = {drive, s3}
  Contents <- MCContents
SPECIFICATION FairSpec
INVARIANTS NoLoss Truthful
PROPERTIES NoClobber Settles
CHECK_DEADLOCK FALSE
