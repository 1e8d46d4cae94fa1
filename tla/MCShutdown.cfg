\* Three requests on two connections; a deadline of two and a grace of one.
SPECIFICATION FairSpec
CONSTANTS
  r1 = r1  r2 = r2  r3 = r3
  c1 = c1  c2 = c2
  Req = {r1, r2, r3}
  Conn = {c1, c2}
  NoConn = NoConn
  Timeout = 2
  Grace = 1
  Horizon = 4
INVARIANTS InFlightIsExact NoEarlyCut TornDownOnce
PROPERTY Exits
CHECK_DEADLOCK FALSE
