---------------------------- MODULE MCReadReport ---------------------------
(* ReadReport for TLC: a counter that wraps after eight reports.           *)
EXTENDS ReadReport
=============================================================================
