SPECIFICATION BridgeFairSpec
CONSTANTS
  ByteBits = 2
  V4Bytes = 2
  V6Bytes = 4
  Sign = {s1}
  Verify = {v1}
  Envs <- MCEnvs
  Requests <- MCRequests
INVARIANTS AdmittedRightly CorsConfined NothingLeftBehind
PROPERTY Answered
CHECK_DEADLOCK FALSE
