----------------------------- MODULE MCNbioPoll -----------------------------
(* NbioPoll for TLC: two connections are enough for a slot to go stale.    *)
EXTENDS NbioPoll
=============================================================================
