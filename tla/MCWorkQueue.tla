---------------------------- MODULE MCWorkQueue ----------------------------
(* WorkQueue for TLC: two hosts and three workers, so that two threads may *)
(* create one for the same host, a list of one image, and two clicks.      *)
EXTENDS WorkQueue
=============================================================================
