------------------------------ MODULE MCShutdown -------------------------------
(* A small instance of Shutdown.                                               *)
EXTENDS Shutdown
CONSTANTS r1, r2, r3, c1, c2  \* model values
===============================================================================
