\* Two calls at a time, a folder and a file in it.
CONSTANTS
  Caller = {c1, c2}
  Root = "BYOC"
  Paths <- MCPaths
  MaxRetries = 1
  MaxNodes = 4
  MaxCalls = 2
  MaxEvents = 1
SPECIFICATION Spec
SYMMETRY Symmetry
INVARIANTS AloneDoesAsTold AloneKeepsCache NothingHidden
CHECK_DEADLOCK FALSE
