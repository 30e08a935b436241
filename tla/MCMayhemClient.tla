--------------------------- MODULE MCMayhemClient ---------------------------
(* MayhemClient for TLC: one connection, with and without a session key.   *)
EXTENDS MayhemClient
=============================================================================
