\* Two processes on one host, one on another; every lease may expire.
SPECIFICATION Spec
CONSTANTS
  p1 = p1  p2 = p2  p3 = p3
  h1 = h1  h2 = h2
  NoLease = NoLease
  Proc = {p1, p2, p3}
  Host = {h1, h2}
  HostOf <- MCHostOf
  MaxLog = 2
INVARIANTS LogIntactUnlessStraggled OneStragglerEach
PROPERTY FreshLeaseIsSafe
CHECK_DEADLOCK FALSE
