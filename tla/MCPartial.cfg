\* A path listed twice: the second deletion of the source is refused.
CONSTANTS
  Provider = {drive, s3}
  Path = {p1, p2}
  Worker = {w1, w2}
  Jobs <- MCJobs
  ListenerThrows = FALSE
  AtomicUpload = TRUE
  MaxEntries = 2
  Source = drive
  Targets = {s3}
  Contents <- MCContents
SPECIFICATION Spec
INVARIANT PartialKeepsSource
CHECK_DEADLOCK FALSE
