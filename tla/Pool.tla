-------------------------------- MODULE Pool --------------------------------
(***************************************************************************)
(* What a pool of objects promises to its user, without slabs, carving or  *)
(* free lists: an object that is handed out lies in memory that overlaps   *)
(* with no other object in use, what comes back may be handed out again,   *)
(* and the pool asks for more memory only when it has nothing spare.       *)
(* Hgang.tla is shown to implement this.                                   *)
(***************************************************************************)
EXTENDS Integers

CONSTANT Size               \* bytes of an object

VARIABLES
    held,                   \* the objects in use, as <<block of memory, offset>>
    spare                   \* the objects that were returned

vars == <<held, spare>>

Memory == Nat \X Nat

Apart(a, b) == a[1] = b[1] => a[2] + Size <= b[2] \/ b[2] + Size <= a[2]

Init == held = {} /\ spare = {}

(* An object that was returned, or a new one if there is none.             *)
Reuse(a) ==
    /\ a \in spare
    /\ held' = held \cup {a} /\ spare' = spare \ {a}

Extend(a) ==
    /\ spare = {} /\ a \in Memory
    /\ \A b \in held : Apart(a, b)
    /\ held' = held \cup {a} /\ UNCHANGED spare

(* Only what is in use may be returned.                                    *)
GiveBack(a) ==
    /\ a \in held
    /\ held' = held \ {a} /\ spare' = spare \cup {a}

(* An object is taken and given back in one step, when its user finds that *)
(* it cannot use it.                                                       *)
ExtendSpare(a) ==
    /\ spare = {} /\ a \in Memory
    /\ \A b \in held : Apart(a, b)
    /\ spare' = {a} /\ UNCHANGED held

Next ==
    \E a \in held' \cup spare' :
        Reuse(a) \/ Extend(a) \/ GiveBack(a) \/ ExtendSpare(a)

Spec == Init /\ [][Next]_vars
=============================================================================
