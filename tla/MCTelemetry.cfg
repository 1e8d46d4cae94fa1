SPECIFICATION TelemetryFairSpec
CONSTANTS
  RotateAt = 2
  Keep = 2
  BatchMax = 2
  Queries <- MCQueries
  Reported <- MCReported
INVARIANTS TrailKept QueriesAccount
PROPERTY SpansPosted
CHECK_DEADLOCK FALSE
