\* The file store and claims the encoder refuses; no step fails.
SPECIFICATION Spec
CONSTANTS
  p1 = p1  p2 = p2  p3 = p3  k1 = k1  k2 = k2  r1 = r1  r2 = r2  r3 = r3
  NoProc = NoProc
  Proc = {p1, p2}
  Key = {k1}
  Req = {r1, r2}
  Counter <- MCCounter
  Backends = {"file"}
  Cap <- MCCap  Wire <- MCWire  Bodies <- MCBodies
  Faults = {}
INVARIANT BootAccepts
CHECK_DEADLOCK FALSE
