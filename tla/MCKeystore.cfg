\* The documented procedure: the server is stopped while the tool runs.
SPECIFICATION Spec
CONSTANTS
  k1 = k1  k2 = k2
  m1 = m1  m2 = m2  m3 = m3  m4 = m4
  Key = {k1, k2}
  Master = {m1, m2, m3, m4}
  NoMaster = NoMaster
  StopsFirst = TRUE
INVARIANTS NoKeyLost ServesAcknowledged NothingInTheClear RevocationHolds
CHECK_DEADLOCK FALSE
