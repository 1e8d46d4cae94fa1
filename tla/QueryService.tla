----------------------------- MODULE QueryService -----------------------------
(***************************************************************************)
(* What the Postgres client promises its callers, with the socket, the     *)
(* messages and their parsing left out: calls are executed in the order    *)
(* they were made, and each is told its own outcome, in that order, or     *)
(* that the connection was lost. The promise ends when the server sends a  *)
(* message the client does not know. PgClient is shown to implement this.  *)
(***************************************************************************)
EXTENDS Naturals, Sequences

CONSTANTS Caller, \* who makes calls
          Kind    \* what a call may be

VARIABLES asked,    \* the calls, in order
          ran,      \* the outcomes of those the server executed
          told,     \* what each caller was told; "wait" until then
          open,     \* new calls are accepted
          derailed  \* an unknown message has arrived

service == <<asked, ran, told, open, derailed>>

Outcome == {"ok", "error"}

Init == asked = <<>> /\ ran = <<>> /\ told = <<>> /\ open = TRUE /\ derailed = FALSE

Ask(c, kind) ==
  /\ open
  /\ asked' = Append(asked, [by |-> c, kind |-> kind])
  /\ told'  = Append(told, "wait")
  /\ UNCHANGED <<ran, open, derailed>>

Run(o) ==
  /\ Len(ran) < Len(asked)
  /\ ran' = Append(ran, o)
  /\ UNCHANGED <<asked, told, open, derailed>>

\* The calls that still wait; the first of them is answered next.
FirstWaiting(k) == told[k] = "wait" /\ \A i \in 1..(k - 1) : told[i] # "wait"

Tell(k, o) ==
  /\ FirstWaiting(k)
  /\ derailed \/ (k <= Len(ran) /\ o = ran[k])
  /\ told' = [told EXCEPT ![k] = o]
  /\ UNCHANGED <<asked, ran, open, derailed>>

Confuse(k) ==
  /\ FirstWaiting(k)
  /\ told' = [told EXCEPT ![k] = "confused"]
  /\ derailed' = TRUE
  /\ UNCHANGED <<asked, ran, open>>

Close ==
  /\ open' = FALSE
  /\ UNCHANGED <<asked, ran, told, derailed>>

Break ==
  /\ open' = FALSE
  /\ told' = [k \in DOMAIN told |-> IF told[k] = "wait" THEN "lost" ELSE told[k]]
  /\ UNCHANGED <<asked, ran, derailed>>

Next ==
  \/ \E c \in Caller, kind \in Kind : Ask(c, kind)
  \/ \E o \in Outcome : Run(o) \/ \E k \in DOMAIN told : Tell(k, o)
  \/ \E k \in DOMAIN told : Confuse(k)
  \/ Close \/ Break

Spec == Init /\ [][Next]_service
===============================================================================
