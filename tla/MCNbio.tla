------------------------------- MODULE MCNbio -------------------------------
(* Nbio for TLC.  Two streams and a listener are the fewest ios for which  *)
(* the saved cursor, an io closed by another's handler and a new io behind *)
(* the listener all occur; with two descriptors accept can fail.           *)
EXTENDS Nbio
CONSTANTS a, b, l
MCIos == {a, b, l}
MCListeners == {l}
=============================================================================
