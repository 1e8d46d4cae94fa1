----------------------------- MODULE MCRateLimit ------------------------------
(* A small instance of RateLimit.                                              *)
EXTENDS RateLimit, TLC
CONSTANTS i1, i2, q1, q2, q3  \* model values
MCRpm    == [c \in Category |-> IF c = "verify" THEN 2 ELSE 1]
MCKeyRpm == [k \in Key |-> IF k = q3 THEN 0 ELSE 1]
Sym      == Permutations({i1, i2}) \cup Permutations({q1, q2})
===============================================================================
