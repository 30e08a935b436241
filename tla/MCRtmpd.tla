------------------------------ MODULE MCRtmpd -------------------------------
(* Rtmpd for TLC: three descriptors, and slabs of two connections, so that *)
(* the pool carves, reuses, gets a second slab and then no third.          *)
EXTENDS Rtmpd
=============================================================================
