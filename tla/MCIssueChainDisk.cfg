\* A disk that may fill up: three incarnations on the file store, every file fault.
SPECIFICATION Spec
CONSTANTS
  p1 = p1  p2 = p2  p3 = p3  k1 = k1  k2 = k2  r1 = r1  r2 = r2  r3 = r3
  NoProc = NoProc
  Proc = {p1, p2, p3}
  Key = {k1}
  Req = {r1, r2, r3}
  Counter <- MCCounter
  Backends = {"file"}
  Cap <- MCCap  Wire <- MCWire  Bodies <- MCBodies
  Faults = {"append", "fsync", "short", "torn"}
INVARIANTS UniqueTokens LoadableUnlessSpoiled
CHECK_DEADLOCK FALSE
