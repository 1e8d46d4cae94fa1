----------------------------- MODULE MCTelemetry -----------------------------
EXTENDS Telemetry

Request(status, ms, inherited) ==
  [event |-> "http.request", status |-> status, ms |-> ms, traced |-> TRUE, inherited |-> inherited]
Denied == [event |-> "auth.deny", status |-> 0, ms |-> 2, traced |-> FALSE, inherited |-> "none"]
MCReported == <<Request(200, 3, "none"), Denied, Request(401, 1, "abc"),
                Request(400, 2, "none"), Denied, Request(200, 1, "abc")>>

Ask(event, status, since, until) ==
  [event |-> event, status |-> status, since |-> since, until |-> until]
MCQueries ==
  {Ask("", 0, 0, 0), Ask("http.request", 0, 0, 3), Ask("", 4, 2, 0), Ask("", 401, 0, 4), Ask("auth.deny", 0, 2, 4)}
===============================================================================
