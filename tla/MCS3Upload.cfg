\* Up to four parts of two units; every request may be lost and sent again.
CONSTANTS
  PartSize = 2
  MaxRetries = 3
  MaxAttempts = 3
  MaxLength = 7
  ChunkSizes = {1, 3}
  Lengths <- MCLengths
SPECIFICATION FairSpec
INVARIANTS Tidy
PROPERTIES ImplementsContract Settles
CHECK_DEADLOCK FALSE
