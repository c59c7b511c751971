CHECK_DEADLOCK FALSE
SPECIFICATION Spec
CONSTANTS
  None = None
  p1 = p1  p2 = p2  w1 = w1  w2 = w2  k1 = k1  k2 = k2  a = a  b = b
  Processors = {p1, p2}
  Workers = {w1, w2}
  Tokens = {k1, k2}
  Texts = {a, b}
  MaxRelease = 1
  MaxAttempts = 2
  MaxGeneration = 2
SYMMETRY Alike
VIEW Seen
INVARIANTS
  TypeOK
  CurrentAnnotationsMatch
  ActiveStateHasItsJob
PROPERTIES
  EnrichedExactlyWhenComplete
