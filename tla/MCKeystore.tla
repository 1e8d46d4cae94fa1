------------------------------ MODULE MCKeystore ------------------------------
(* Small instances of Keystore.                                              *)
EXTENDS Keystore
CONSTANTS k1, k2, m1, m2, m3, m4  \* model values
===============================================================================
