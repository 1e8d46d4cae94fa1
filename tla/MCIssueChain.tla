----------------------------- MODULE MCIssueChain -----------------------------
(* Small instances of IssueChain: up to three incarnations, three requests.    *)
EXTENDS IssueChain
CONSTANTS p1, p2, p3, k1, k2, r1, r2, r3  \* model values
MCCounter == 1..Cardinality(Req)

\* Caps of two, and one object for each way to pass or to miss them.
MCCap  == [depth |-> 2, keys |-> 2, array |-> 2, string |-> 2, nodes |-> 3]
MCWire == [entries |-> 1, bytes |-> 1]
Value(kind, depth, size, under) == [kind |-> kind, depth |-> depth, size |-> size, key |-> under]
Whole(n) == Value("object", 1, n, 0)
Flat == <<Whole(1), Value("string", 2, 1, 1)>>
\* The validator accepts these, and the encoder does not.
Unencodable ==
  {<<Whole(1), Value("object", 2, 0, 1)>>, <<Whole(1), Value("array", 2, 0, 1)>>,
   <<Whole(2), Value("null", 2, 0, 1), Value("number", 2, 0, 1)>>,
   <<Whole(1), Value("string", 2, 2, 1)>>, <<Whole(1), Value("boolean", 2, 0, 2)>>}
Refused ==
  {<<Value("array", 1, 1, 0), Value("null", 2, 0, 0)>>, <<Whole(1), Value("infinite", 2, 0, 1)>>,
   <<Whole(1), Value("object", 2, 1, 1), Value("null", 3, 0, 1)>>,
   <<Whole(1), Value("null", 2, 0, 3)>>, <<Whole(3)>> \o [i \in 1..3 |-> Value("null", 2, 0, 1)]}
MCBodies  == {Flat} \cup Unencodable \cup Refused

\* Requests and keys are interchangeable, so these are all the ways in which three
\* requests can name two keys: all the same, or two the same.
UpToNames  == key[r1] = k1 /\ key[r2] = k1
MCInit     == Init /\ UpToNames
MCFairSpec == MCInit /\ [][Next]_vars /\ Fairness
===============================================================================
