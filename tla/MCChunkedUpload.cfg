\* Partial commits, lost answers, refusals; four attempts of every PUT.
CONSTANTS
  PartialCommits = TRUE
  ChunkSize = 3
  MaxRetries = 3
  MaxLength = 10
  Lengths <- MCLengths
SPECIFICATION FairSpec
INVARIANTS TypeOK PrefixOnly InStep
PROPERTIES Settles KeepsContract
CHECK_DEADLOCK FALSE
