\* One more IP and key than the maps hold; a minute of three units, an entry kept
\* idle for one minute.
SPECIFICATION Spec
CONSTANTS
  i1 = i1  i2 = i2  q1 = q1  q2 = q2  q3 = q3
  Ip = {i1, i2}
  Key = {q1, q2, q3}
  Category = {"verify", "admin", "authFail"}
  Rpm <- MCRpm
  KeyRpm <- MCKeyRpm
  MaxIps = 1
  Idle = 3
  Sec = 1
  Minute = 3
  Horizon = 5
  MaxReading = 1
SYMMETRY Sym
INVARIANTS WithinRate RetryIsHonest QuotaAgrees
CHECK_DEADLOCK FALSE
