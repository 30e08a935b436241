----------------------------- MODULE EventLoop -----------------------------
(***************************************************************************)
(* What the event core of nbio.c promises to the code above it, without    *)
(* lists, cursors or epoll: an io is added once, its handler runs while it *)
(* is "runnable", it may be put to sleep only when nothing is pending for  *)
(* it, it is woken when something becomes pending, and once dead it is     *)
(* destroyed and never runs again.  Nbio.tla is shown to implement this;   *)
(* what must happen eventually is stated there, with its exceptions.       *)
(***************************************************************************)
CONSTANT Ios                \* every struct nbio the program may create

VARIABLES
    st,                     \* the stage of life of each io
    pend                    \* ios whose handler would have something to do

vars == <<st, pend>>

Stages == {"unborn", "runnable", "asleep", "dead", "freed"}

TypeOK == st \in [Ios -> Stages] /\ pend \subseteq Ios

Init == st = [n \in Ios |-> "unborn"] /\ pend \in SUBSET Ios

(* nbio_add: a connecting io may have been put to sleep by the time the    *)
(* caller gets it back.                                                    *)
Add(n) ==
    /\ st[n] = "unborn"
    /\ \/ st' = [st EXCEPT ![n] = "runnable"]
       \/ n \notin pend' /\ st' = [st EXCEPT ![n] = "asleep"]

(* The handler of n runs, or the outside world acts: only pend changes.    *)
Work == UNCHANGED st

Sleep(n) ==
    /\ st[n] = "runnable" /\ n \notin pend'
    /\ st' = [st EXCEPT ![n] = "asleep"]

(* The plugin's pump: a set of ios with something pending becomes runnable.*)
WakeAll(S) ==
    /\ S # {} /\ S \subseteq pend
    /\ \A n \in S : st[n] = "asleep"
    /\ st' = [n \in Ios |-> IF n \in S THEN "runnable" ELSE st[n]]

Wake(n) == \E S \in SUBSET Ios : n \in S /\ WakeAll(S)

Kill(n) ==
    /\ st[n] \in {"runnable", "asleep"}
    /\ st' = [st EXCEPT ![n] = "dead"]

(* When the scan of the runnable is over, the dead are destroyed: all but  *)
(* those that a send has taken off the list of the deleted again.          *)
Reap ==
    \E S \in SUBSET {n \in Ios : st[n] = "dead"} :
        /\ S # {}
        /\ st' = [n \in Ios |-> IF n \in S THEN "freed" ELSE st[n]]

Next ==
    /\ pend' \in SUBSET Ios
    /\ \/ Work \/ Reap
       \/ \E n \in Ios : Add(n) \/ Sleep(n) \/ Kill(n) \/ Wake(n)

Spec == Init /\ [][Next]_vars
=============================================================================
