\* Two jobs, of which one may be a batch, over four providers.
CONSTANTS
  Worker = {w1, w2}
  Kinds = {"memory", "s3", "local", "webdav"}
  Paths <- MCPaths
  Contents = {v1, v2}
  v1 = v1
  v2 = v2
  RootName = "R"
  Stores <- MCStores
  Concurrency = 2
  MaxJobs = 2
  MaxFaults = 1
SPECIFICATION Spec
SYMMETRY Symmetry
INVARIANTS Accounted MoveKeeps OkMeansDone TypeFollows
CHECK_DEADLOCK FALSE
