------------------------------ MODULE MCPgClient ------------------------------
(* Small instances of PgClient.                                              *)
EXTENDS PgClient
===============================================================================
