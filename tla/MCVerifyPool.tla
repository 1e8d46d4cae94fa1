----------------------------- MODULE MCVerifyPool -----------------------------
(* Small instances of VerifyPool; its constants are numbers.                 *)
EXTENDS VerifyPool
===============================================================================
