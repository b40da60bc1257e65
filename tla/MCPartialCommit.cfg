\* A server that may keep only the start of a body, which its Range header says.
CONSTANTS
  PartialCommits = TRUE
  Aligned = 2
  MaxLength = 5
  Lengths <- MCLengths
SPECIFICATION Spec
INVARIANT WholeObject
CHECK_DEADLOCK FALSE
