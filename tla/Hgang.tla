------------------------------- MODULE Hgang --------------------------------
(***************************************************************************)
(* The object pool of hgang.c.  Objects are carved one after the other     *)
(* from slabs that malloc gives; an object that is returned goes to the    *)
(* head of a list whose links are kept in the returned objects themselves, *)
(* and is the next to be handed out.  An object is named by its slab       *)
(* (1 for the first the pool got) and its offset behind the slab's header. *)
(***************************************************************************)
EXTENDS Integers, Sequences

CONSTANTS
    ObjSize, SlabSize,      \* the arguments of hgang_new
    PtrSize,                \* sizeof(void * )
    MaxSlabs                \* bound: malloc fails from then on

ASSUME SizesAssumption ==
    /\ ObjSize \in Nat \ {0} /\ SlabSize \in Nat
    /\ PtrSize \in Nat \ {0} /\ MaxSlabs \in Nat

VARIABLES
    pool,                   \* struct _hgang, see PoolTypeOK
    held                    \* the objects its users have

poolVars == <<pool, held>>

Null == <<0, 0>>

(* hgang_new: h->obj_size, and h->slab_size without the slab's header      *)
Sz == IF ObjSize < PtrSize THEN PtrSize ELSE ObjSize

SlabBytes ==
    IF SlabSize # 0 THEN SlabSize * Sz
    ELSE IF Sz < 8192 THEN 8192 - (8192 % Sz) ELSE 4 * Sz

Empty == [slabs |-> 0, next |-> 0, free |-> Null, link |-> << >>, chain |-> << >>]

(* Mutant: looks only whether the object begins inside the slab.           *)
ObjInSlabLoose(ofs) == ofs <= SlabBytes

ObjInSlab(ofs) == ofs + Sz <= SlabBytes

(* link is what the first word of each object made so far holds, if it is  *)
(* on the free list.  The field chain is history: the list as it should be.*)
Linked(p, o, to) ==
    [x \in DOMAIN p.link \cup {o} |-> IF x = o THEN to ELSE p.link[x]]

(* Mutant: leaves the head of the free list where it is.                   *)
PopKept(p) == [pool |-> [p EXCEPT !.chain = Tail(@)], obj |-> p.free]

(* The three ways of hgang_alloc, the last of them hgang_alloc_slow.  What *)
(* alloc0 then clears is the object's, its link included.                  *)
Pop(p) ==
    [pool |-> [p EXCEPT !.free = p.link[p.free], !.chain = Tail(@),
                        !.link = Linked(p, p.free, Null)],
     obj |-> p.free]

Carve(p) ==
    [pool |-> [p EXCEPT !.next = @ + Sz, !.link = Linked(p, <<p.slabs, p.next>>, Null)],
     obj |-> <<p.slabs, p.next>>]

NewSlab(p) ==
    [pool |-> [p EXCEPT !.slabs = @ + 1, !.next = Sz,
                        !.link = Linked(p, <<p.slabs + 1, 0>>, Null)],
     obj |-> <<p.slabs + 1, 0>>]

(* Mutant: the list is looked at last.                                     *)
AllocListLast(p) ==
    IF p.slabs # 0 /\ ObjInSlab(p.next) THEN {Carve(p)}
    ELSE IF p.free # Null THEN {Pop(p)}
    ELSE {[pool |-> p, obj |-> Null]} \cup {NewSlab(q) : q \in {x \in {p} : x.slabs < MaxSlabs}}

(* hgang_alloc: every outcome it can have; obj is Null when malloc failed. *)
Alloc(p) ==
    IF p.free # Null THEN {Pop(p)}
    ELSE IF p.slabs # 0 /\ ObjInSlab(p.next) THEN {Carve(p)}
    ELSE {[pool |-> p, obj |-> Null]} \cup {NewSlab(q) : q \in {x \in {p} : x.slabs < MaxSlabs}}

(* hgang_return                                                            *)
Return(p, o) ==
    [p EXCEPT !.link = Linked(p, o, p.free), !.free = o, !.chain = <<o>> \o @]

-----------------------------------------------------------------------------
(* A user that returns only what it has.                                   *)

Take ==
    \E a \in Alloc(pool) :
        pool' = a.pool /\ held' = held \cup ({a.obj} \ {Null})

GiveBack ==
    \E o \in held : pool' = Return(pool, o) /\ held' = held \ {o}

PoolInit == pool = Empty /\ held = {}

PoolNext == Take \/ GiveBack

PoolSpec == PoolInit /\ [][PoolNext]_poolVars

-----------------------------------------------------------------------------
Made == DOMAIN pool.link
Spare == {pool.chain[i] : i \in 1..Len(pool.chain)}

PoolTypeOK ==
    /\ pool.slabs \in Nat /\ pool.next \in Nat
    /\ Made \subseteq (1..pool.slabs) \X Nat
    /\ pool.link \in [Made -> Made \cup {Null}] /\ pool.free \in Made \cup {Null}
    /\ pool.chain \in Seq(Made) /\ held \subseteq Made

Apart(a, b) == a[1] = b[1] => a[2] + Sz <= b[2] \/ b[2] + Sz <= a[2]

(* The links kept in the returned objects spell the list of what was       *)
(* returned, no object is on it twice, and none that is in use: what is    *)
(* written to an object after its return would break the list              *)
(* (hgang.c:161, 219).                                                     *)
FreeListSound ==
    /\ pool.free = IF pool.chain = << >> THEN Null ELSE pool.chain[1]
    /\ \A i \in 1..Len(pool.chain) :
          /\ pool.chain[i] \notin held
          /\ pool.link[pool.chain[i]] =
                IF i = Len(pool.chain) THEN Null ELSE pool.chain[i + 1]
          /\ \A j \in 1..Len(pool.chain) : pool.chain[i] = pool.chain[j] => i = j

(* Objects lie inside their slab, whatever the two sizes given to          *)
(* hgang_new, and no two of them overlap (hgang.c:61, 94, 138, 170).       *)
ObjectsApart ==
    \A a \in Made :
        /\ a[2] + Sz <= SlabBytes
        /\ \A b \in Made : a # b => Apart(a, b)

(* The pool implements Pool: what it hands out overlaps with nothing in    *)
(* use, and it asks malloc for more only with an empty list (hgang.c:158). *)
Abstract == INSTANCE Pool WITH Size <- Sz, spare <- Spare
ImplementsPool == Abstract!Spec
=============================================================================
