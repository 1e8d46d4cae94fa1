----------------------------- MODULE MCTokenFlow -----------------------------
(* Small instance of TokenFlow for TLC. *)
EXTENDS TokenFlow, TLC

Claim(key, type, text) == [key |-> key, type |-> type, text |-> text]
Ask(impl, claims, compress, ttl, suite, key) ==
  [impl |-> impl, claims |-> claims, compress |-> compress, ttl |-> ttl,
   suite |-> suite, key |-> key]

\* The strings are of FixMax, FixMax + 1 and Str8Max + 1 bytes; a ttl of 5 wraps to 1.
\* Every suite byte fits its signature.
Sub  == Claim(<<115>>, "string", <<97>>)
Long == Claim(<<108>>, "number", <<49, 50>>)
Over == Claim(<<>>, "string", <<1, 2, 3>>)

MCAsked ==
  << Ask("js", <<Sub, Long>>, "auto", 2, 5, 1),
     Ask("rust", <<Sub, Long>>, "off", 1, 16, 2),
     Ask("js", <<Over>>, "on", 2, 5, 1),
     Ask("js", <<Long>>, "legacy", 5, 5, 1) >>
MCDrifts == {-2, 0}

Symmetry == Permutations(Issuers) \cup Permutations(Verifiers)
==============================================================================
