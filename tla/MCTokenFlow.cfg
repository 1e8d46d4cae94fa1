SPECIFICATION Spec
CONSTANTS
  Half = 2
  TtlRange = 4
  MapMax = 2
  FixMax = 1
  Str8Max = 2
  Issuers = {i1, i2}
  Verifiers = {v1, v2}
  Keys = {1, 2}
  Asked <- MCAsked
  Inflates = FALSE
  Skew = 1
  Drifts <- MCDrifts
  MaxTime = 2
INVARIANTS Sound Complete AcceptedOnce CountersUnique
SYMMETRY Symmetry
CHECK_DEADLOCK FALSE
