\* The caller's onProgress throws once the file is on the target.
CONSTANTS
  Provider = {drive, s3}
  Path = {p1, p2}
  Worker = {w1, w2}
  Jobs <- MCJobs
  ListenerThrows = TRUE
  AtomicUpload = TRUE
  MaxEntries = 2
  Source = drive
  Targets = {s3}
  Contents <- MCContents
SPECIFICATION Spec
PROPERTY NoFailureAfterUpload
CHECK_DEADLOCK FALSE
