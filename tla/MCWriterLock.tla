----------------------------- MODULE MCWriterLock -----------------------------
(* Three processes on two hosts share one directory and the log of one key.  *)
EXTENDS WriterLock
CONSTANTS p1, p2, p3, h1, h2  \* model values
MCHostOf == [p \in Proc |-> IF p = p3 THEN h2 ELSE h1]
===============================================================================
