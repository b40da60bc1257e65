\* Atomic uploads, a listener that does not throw: the whole contract.
CONSTANTS
  Provider = {drive, s3}
  Path = {p1, p2}
  Worker = {w1, w2}
  Jobs <- MCJobs
  ListenerThrows = FALSE
  AtomicUpload = TRUE
  MaxEntries = 2
  Source = drive
  Targets = {s3}
  Contents <- MCContents
SPECIFICATION FairSpec
INVARIANTS TypeOK NoLoss Truthful OneRecordEach
PROPERTIES NoClobber StillOnceSettled Settles ImplementsContract
CHECK_DEADLOCK FALSE
