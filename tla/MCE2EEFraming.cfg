\* Up to three frames of two units, and one unit too many for the counter.
CONSTANTS
  FrameSize = 2
  MaxFrames = 3
  MaxLength = 7
  ChunkSizes = {1, 3}
  Lengths <- MCLengths
SPECIFICATION Spec
INVARIANTS SameEnvelope WholeOrFailed RoundTrip
CHECK_DEADLOCK FALSE
