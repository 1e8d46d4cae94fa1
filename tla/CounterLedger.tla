---------------------------- MODULE CounterLedger ----------------------------
(***************************************************************************)
(* What the issue path promises its callers, with the server, its RAM      *)
(* ratchet, the log format and the failures left out: a mutation counter   *)
(* of a key is written down at most once, and the token that carries it    *)
(* leaves the server at most once, only after it was written down.         *)
(* IssueChain is shown to implement this module.                           *)
(***************************************************************************)
EXTENDS Naturals

CONSTANTS Key,      \* signing keys
          Counter   \* the mutation counters a token can carry

VARIABLES recorded, \* the <<key, counter>> pairs in the durable chain log
          released  \* the pairs whose token was sent in a 200 response

ledger == <<recorded, released>>

Init == recorded = {} /\ released = {}

Record(k, c) ==
  /\ <<k, c>> \notin recorded
  /\ recorded' = recorded \cup {<<k, c>>}
  /\ UNCHANGED released

Release(k, c) ==
  /\ <<k, c>> \in recorded \ released
  /\ released' = released \cup {<<k, c>>}
  /\ UNCHANGED recorded

Next == \E k \in Key, c \in Counter : Record(k, c) \/ Release(k, c)

Spec == Init /\ [][Next]_ledger
==============================================================================
