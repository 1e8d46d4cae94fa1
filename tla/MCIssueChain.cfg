\* Two incarnations, two keys, three requests; both chain stores.
SPECIFICATION MCFairSpec
CONSTANTS
  p1 = p1  p2 = p2  p3 = p3
  k1 = k1  k2 = k2
  r1 = r1  r2 = r2  r3 = r3
  NoProc = NoProc
  Proc = {p1, p2}
  Key = {k1, k2}
  Req = {r1, r2, r3}
  Counter <- MCCounter
  Backends = {"file", "postgres"}
  Cap <- MCCap  Wire <- MCWire  Bodies <- MCBodies
  Faults = {"append", "insert"}
INVARIANTS UniqueTokens LoadableUnlessSpoiled
PROPERTIES IssuedAboveReleased Answered ImplementsLedger
CHECK_DEADLOCK FALSE
