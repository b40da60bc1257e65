\* Two calls at a time, two consents, one retry, three tokens.
CONSTANTS
  Caller = {c1, c2}
  Grant = {g1, g2}
  MaxRetries = 1
  MaxTokens = 3
  None = None
SPECIFICATION Spec
SYMMETRY Symmetry
INVARIANTS TypeOK Refreshable
PROPERTIES FreshToken StaysRevoked
