\* A server that keeps every body it acknowledges.
CONSTANTS
  PartialCommits = FALSE
  Aligned = 3
  MaxLength = 13
  Lengths <- MCLengths
SPECIFICATION FairSpec
INVARIANTS TypeOK WholeObject NothingDropped InStep
PROPERTIES Settles ImplementsContract
CHECK_DEADLOCK FALSE
