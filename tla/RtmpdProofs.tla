---------------------------- MODULE RtmpdProofs -----------------------------
(***************************************************************************)
(* Proofs about the pool and the server that uses it.                      *)
(*                                                                         *)
(* The pool, for every object size, slab size, size of a pointer, and      *)
(* number of slabs: what is said of the operators of Hgang is said of any  *)
(* pool p whose users have the objects h, so that it holds for a pool in   *)
(* the middle of a step of its user, too.                                  *)
(*                                                                         *)
(* The server, for every set of descriptors and every pool: a function of  *)
(* the code is shown to put another record in the place of its own         *)
(* connection's, and the record it puts there to be that of a connection   *)
(* in one of the three conditions the program can leave it in; what is     *)
(* true of the whole follows from that, and from what is true of the pool. *)
(***************************************************************************)
EXTENDS Rtmpd, SequenceTheorems, TLAPS

-----------------------------------------------------------------------------
(* The pool.                                                               *)

Objs(p) == DOMAIN p.link

IsPool(p, h) ==
    /\ p = [slabs |-> p.slabs, next |-> p.next, free |-> p.free,
            link |-> p.link, chain |-> p.chain]
    /\ p.slabs \in Nat /\ p.next \in Nat
    /\ Objs(p) \subseteq (1..p.slabs) \X Nat
    /\ p.link \in [Objs(p) -> Objs(p) \cup {Null}]
    /\ p.chain \in Seq(Objs(p)) /\ h \subseteq Objs(p)

(* The free list is the chain of what was returned.                        *)
Spelled(p, h) ==
    /\ p.free = IF p.chain = << >> THEN Null ELSE p.chain[1]
    /\ \A i \in 1..Len(p.chain) :
          /\ p.chain[i] \notin h
          /\ p.link[p.chain[i]] = IF i = Len(p.chain) THEN Null ELSE p.chain[i + 1]
          /\ \A j \in 1..Len(p.chain) : p.chain[i] = p.chain[j] => i = j

(* Objects are laid out up to next in the slab that is being carved.       *)
Laid(p) ==
    \A a \in Objs(p) :
        /\ a[2] + Sz <= SlabBytes
        /\ a[1] = p.slabs => a[2] + Sz <= p.next
        /\ \A b \in Objs(p) : a # b => Apart(a, b)

PoolSound(p, h) == IsPool(p, h) /\ Spelled(p, h) /\ Laid(p)

(* An object has at least the size of a pointer, and a slab has room for   *)
(* one, whatever hgang_new was given.                                      *)
LEMMA SizesSound == Sz \in Nat \ {0} /\ Sz >= PtrSize /\ SlabBytes \in Nat /\ Sz <= SlabBytes
<1>1. Sz \in Nat \ {0} /\ Sz >= PtrSize
  BY SizesAssumption DEF Sz
<1> HIDE DEF Sz
<1>2. CASE SlabSize # 0
  <2>1. SlabSize \in Nat /\ SlabSize >= 1
    BY <1>2, SizesAssumption
  <2>2. \A n \in Nat, s \in Nat : n >= 1 => n * s \in Nat /\ s <= n * s
    OBVIOUS
  <2> QED BY <1>1, <1>2, <2>1, <2>2 DEF SlabBytes
<1>3. CASE SlabSize = 0 /\ Sz >= 8192
  BY <1>1, <1>3 DEF SlabBytes
<1>4. CASE SlabSize = 0 /\ Sz < 8192
  <2>1. SlabBytes = 8192 - (8192 % Sz)
    BY <1>4 DEF SlabBytes
  <2>2. 8192 % Sz \in 0..(Sz - 1) /\ 8192 = Sz * (8192 \div Sz) + (8192 % Sz) /\ 8192 \div Sz \in Int
    BY <1>1
  <2>3. 8192 \div Sz >= 1
    BY <1>1, <1>4, <2>2
  <2>4. \A n \in Int, s \in Nat : n >= 1 => s <= s * n
    OBVIOUS
  <2> QED BY <1>1, <2>1, <2>2, <2>3, <2>4
<1> QED BY <1>1, <1>2, <1>3, <1>4, SizesAssumption

(* The three ways of hgang_alloc.                                          *)
LEMMA PopSound ==
    ASSUME NEW p, NEW h, PoolSound(p, h), p.free # Null
    PROVE  /\ PoolSound(Pop(p).pool, h \cup {Pop(p).obj})
           /\ Pop(p).obj \in Objs(p) \ h
           /\ Pop(p).obj = p.chain[1] /\ p.chain # << >>
           /\ Pop(p).pool.chain = Tail(p.chain)
           /\ Pop(p).pool.slabs = p.slabs
<1> DEFINE q == Pop(p).pool
           o == Pop(p).obj
           c == p.chain
<1>1. /\ c \in Seq(Objs(p)) /\ c # << >> /\ o = c[1] /\ o = p.free
      /\ Len(c) \in Nat /\ Len(c) >= 1
  BY EmptySeq DEF PoolSound, IsPool, Spelled, Pop
<1>2. /\ Tail(c) \in Seq(Objs(p)) /\ Len(Tail(c)) = Len(c) - 1
      /\ \A i \in 1..Len(Tail(c)) : Tail(c)[i] = c[i + 1]
  BY <1>1, HeadTailProperties
<1>3. o \in Objs(p) /\ o \notin h
  BY <1>1 DEF PoolSound, Spelled
<1>4. q = [slabs |-> p.slabs, next |-> p.next, free |-> p.link[o],
           link |-> Linked(p, o, Null), chain |-> Tail(c)]
  BY <1>1 DEF PoolSound, IsPool, Pop
<1>5. /\ Linked(p, o, Null) \in [Objs(p) -> Objs(p) \cup {Null}]
      /\ \A x \in Objs(p) : Linked(p, o, Null)[x] = IF x = o THEN Null ELSE p.link[x]
  BY <1>3 DEF PoolSound, IsPool, Linked, Objs
<1>6. Objs(q) = Objs(p)
  BY <1>4, <1>5 DEF Objs
<1> HIDE DEF q, o, c
<1>7. IsPool(q, h \cup {o})
  BY <1>2, <1>3, <1>4, <1>5, <1>6 DEF PoolSound, IsPool
<1>8. \A i \in 1..Len(c) : c[i] \in Objs(p)
  BY <1>1
<1>9. Spelled(q, h \cup {o})
  <2>1. \A i \in 1..Len(c), j \in 1..Len(c) : c[i] = c[j] => i = j
    BY DEF PoolSound, Spelled, c
  <2>2. \A i \in 1..Len(c) : c[i] \notin h /\ p.link[c[i]] = IF i = Len(c) THEN Null ELSE c[i + 1]
    BY DEF PoolSound, Spelled, c
  <2>3. q.free = IF q.chain = << >> THEN Null ELSE q.chain[1]
    <3>0. 1 \in 1..Len(c) /\ 1 + 1 = 2
      BY <1>1
    <3>1. CASE Len(c) = 1
      <4>1. p.link[c[1]] = Null
        BY <2>2, <3>0, <3>1
      <4>2. Tail(c) = << >>
        <5>1. Len(Tail(c)) = 0
          BY <1>2, <3>1
        <5>2. \A s \in Seq(Objs(p)) : s = << >> <=> Len(s) = 0
          BY EmptySeq
        <5> QED BY <1>2, <5>1, <5>2
      <4> QED BY <1>1, <1>4, <4>1, <4>2
    <3>2. CASE Len(c) # 1
      <4>1. Tail(c) # << >> /\ Tail(c)[1] = c[2]
        BY <1>1, <1>2, <3>2, EmptySeq
      <4>2. p.link[c[1]] = c[1 + 1]
        BY <2>2, <3>0, <3>2
      <4> QED BY <1>1, <1>4, <3>0, <4>1, <4>2
    <3> QED BY <3>1, <3>2
  <2>4. ASSUME NEW i \in 1..Len(q.chain)
        PROVE  /\ q.chain[i] \notin h \cup {o}
               /\ q.link[q.chain[i]] = IF i = Len(q.chain) THEN Null ELSE q.chain[i + 1]
               /\ \A j \in 1..Len(q.chain) : q.chain[i] = q.chain[j] => i = j
    <3>1. /\ i \in Nat /\ i + 1 \in 1..Len(c) /\ i + 1 # 1 /\ 1 \in 1..Len(c)
          /\ q.chain[i] = c[i + 1] /\ Len(q.chain) = Len(c) - 1
      BY <1>1, <1>2, <1>4, <2>4
    <3>2. c[i + 1] \notin h /\ c[i + 1] # o
      BY <1>1, <2>1, <2>2, <3>1
    <3>3. q.link[c[i + 1]] = p.link[c[i + 1]]
      BY <1>4, <1>5, <1>8, <3>1, <3>2
    <3>4. p.link[c[i + 1]] = IF i + 1 = Len(c) THEN Null ELSE c[i + 2]
      <4>1. (i + 1) + 1 = i + 2
        BY <3>1
      <4> QED BY <2>2, <3>1, <4>1
    <3>5. i # Len(q.chain) => q.chain[i + 1] = c[i + 2]
      <4>1. i # Len(q.chain) => i + 1 \in 1..Len(q.chain) /\ (i + 1) + 1 = i + 2
        BY <1>1, <3>1
      <4> QED BY <1>2, <1>4, <4>1
    <3>6. i + 1 = Len(c) <=> i = Len(q.chain)
      BY <1>1, <3>1
    <3>7. \A j \in 1..Len(q.chain) : q.chain[i] = q.chain[j] => i = j
      <4>1. \A j \in 1..Len(q.chain) : j + 1 \in 1..Len(c) /\ q.chain[j] = c[j + 1]
        BY <1>1, <1>2, <1>4
      <4>2. \A j \in 1..Len(q.chain) : c[i + 1] = c[j + 1] => i + 1 = j + 1
        BY <2>1, <3>1, <4>1
      <4> QED BY <3>1, <4>1, <4>2
    <3> QED BY <3>1, <3>2, <3>3, <3>4, <3>5, <3>6, <3>7
  <2> QED BY <2>3, <2>4 DEF Spelled
<1>10. Laid(q)
  BY <1>4, <1>6 DEF PoolSound, Laid
<1> QED BY <1>1, <1>3, <1>4, <1>7, <1>9, <1>10 DEF PoolSound, q, o, c

LEMMA CarveSound ==
    ASSUME NEW p, NEW h, PoolSound(p, h), p.slabs # 0, ObjInSlab(p.next)
    PROVE  /\ PoolSound(Carve(p).pool, h \cup {Carve(p).obj})
           /\ Carve(p).obj \in ((1..p.slabs) \X Nat) \ Objs(p)
           /\ Objs(Carve(p).pool) = Objs(p) \cup {Carve(p).obj}
           /\ Carve(p).pool.chain = p.chain
<1> DEFINE q == Carve(p).pool
           o == Carve(p).obj
<1>1. /\ o = <<p.slabs, p.next>> /\ o[1] = p.slabs /\ o[2] = p.next
      /\ p.slabs \in Nat /\ p.next \in Nat /\ p.slabs \in 1..p.slabs
  BY DEF PoolSound, IsPool, Carve
<1>2. o \notin Objs(p) /\ o # Null
  <2>1. o[1] # Null[1]
    BY <1>1 DEF Null
  <2>2. \A a \in Objs(p) : a[1] = p.slabs => a[2] + Sz <= p.next
    BY DEF PoolSound, Laid
  <2>3. ~ (p.next + Sz <= p.next)
    BY <1>1, SizesSound
  <2> QED BY <1>1, <2>1, <2>2, <2>3
<1>3. q = [slabs |-> p.slabs, next |-> p.next + Sz, free |-> p.free,
           link |-> Linked(p, o, Null), chain |-> p.chain]
  BY DEF PoolSound, IsPool, Carve
<1> HIDE DEF q, o
<1>4. /\ Linked(p, o, Null) \in [Objs(p) \cup {o} -> Objs(p) \cup {Null}]
      /\ \A x \in Objs(p) : Linked(p, o, Null)[x] = p.link[x]
  BY <1>2 DEF PoolSound, IsPool, Linked, Objs
<1>5. Objs(q) = Objs(p) \cup {o}
  BY <1>3, <1>4 DEF Objs
<1>6. IsPool(q, h \cup {o})
  <2>1. p.chain \in Seq(Objs(p) \cup {o})
    BY DEF PoolSound, IsPool
  <2>2. o \in (1..p.slabs) \X Nat
    <3>1. <<p.slabs, p.next>> \in (1..p.slabs) \X Nat
      BY <1>1
    <3> QED BY <1>1, <3>1
  <2>3. Objs(q) \subseteq (1..p.slabs) \X Nat /\ h \cup {o} \subseteq Objs(q)
    BY <1>5, <2>2 DEF PoolSound, IsPool
  <2>4. p.next + Sz \in Nat
    BY <1>1, SizesSound
  <2>5. q.link \in [Objs(q) -> Objs(q) \cup {Null}]
    <3>1. Objs(p) \cup {Null} \subseteq Objs(q) \cup {Null}
      BY <1>5
    <3>2. q.link \in [Objs(q) -> Objs(p) \cup {Null}]
      BY <1>3, <1>4, <1>5
    <3> QED BY <3>1, <3>2
  <2> QED BY <1>1, <1>3, <1>5, <2>1, <2>3, <2>4, <2>5 DEF IsPool
<1>7. Spelled(q, h \cup {o})
  <2>1. \A i \in 1..Len(p.chain) : p.chain[i] \in Objs(p)
    BY DEF PoolSound, IsPool
  <2> QED BY <1>2, <1>3, <1>4, <2>1 DEF PoolSound, Spelled
<1>8. Laid(q)
  <2>1. o[2] + Sz <= SlabBytes
    BY <1>1 DEF ObjInSlab
  <2>2. ASSUME NEW a \in Objs(p)
        PROVE  /\ a[1] \in 1..p.slabs /\ a[2] \in Nat /\ a[2] + Sz <= SlabBytes
               /\ a[1] = p.slabs => a[2] + Sz <= p.next
    BY DEF PoolSound, IsPool, Laid
  <2>3. \A a \in Objs(p) : Apart(a, o) /\ Apart(o, a)
    BY <1>1, <2>2 DEF Apart
  <2>4. \A a, b \in Objs(p) : a # b => Apart(a, b)
    BY DEF PoolSound, Laid
  <2>5. \A a \in Objs(q) : a[1] = q.slabs => a[2] + Sz <= q.next
    BY <1>1, <1>3, <1>5, <2>2, SizesSound
  <2> QED BY <1>5, <2>1, <2>2, <2>3, <2>4, <2>5 DEF Laid
<1> QED BY <1>1, <1>2, <1>3, <1>5, <1>6, <1>7, <1>8 DEF PoolSound, q, o

LEMMA NewSlabSound ==
    ASSUME NEW p, NEW h, PoolSound(p, h)
    PROVE  /\ PoolSound(NewSlab(p).pool, h \cup {NewSlab(p).obj})
           /\ NewSlab(p).obj \in ((1..(p.slabs + 1)) \X Nat) \ Objs(p)
           /\ Objs(NewSlab(p).pool) = Objs(p) \cup {NewSlab(p).obj}
           /\ NewSlab(p).pool.chain = p.chain
<1> DEFINE q == NewSlab(p).pool
           o == NewSlab(p).obj
<1>1. /\ o = <<p.slabs + 1, 0>> /\ o[1] = p.slabs + 1 /\ o[2] = 0 /\ p.slabs \in Nat
      /\ p.slabs + 1 \in 1..(p.slabs + 1) /\ p.slabs + 1 \notin 1..p.slabs
      /\ 1..p.slabs \subseteq 1..(p.slabs + 1)
  BY DEF PoolSound, IsPool, NewSlab
<1>2. o \notin Objs(p) /\ o # Null
  BY <1>1 DEF PoolSound, IsPool, Null
<1>3. q = [slabs |-> p.slabs + 1, next |-> Sz, free |-> p.free,
           link |-> Linked(p, o, Null), chain |-> p.chain]
  BY DEF PoolSound, IsPool, NewSlab
<1> HIDE DEF q, o
<1>4. /\ Linked(p, o, Null) \in [Objs(p) \cup {o} -> Objs(p) \cup {Null}]
      /\ \A x \in Objs(p) : Linked(p, o, Null)[x] = p.link[x]
  BY <1>2 DEF PoolSound, IsPool, Linked, Objs
<1>5. Objs(q) = Objs(p) \cup {o}
  BY <1>3, <1>4 DEF Objs
<1>6. IsPool(q, h \cup {o})
  <2>1. p.chain \in Seq(Objs(p) \cup {o})
    BY DEF PoolSound, IsPool
  <2>2. Objs(q) \subseteq (1..(p.slabs + 1)) \X Nat
    <3>1. <<p.slabs + 1, 0>> \in (1..(p.slabs + 1)) \X Nat
      BY <1>1
    <3>2. Objs(p) \subseteq (1..p.slabs) \X Nat
      BY DEF PoolSound, IsPool
    <3>3. (1..p.slabs) \X Nat \subseteq (1..(p.slabs + 1)) \X Nat
      BY <1>1
    <3> QED BY <1>1, <1>5, <3>1, <3>2, <3>3
  <2>3. q.link \in [Objs(q) -> Objs(q) \cup {Null}]
    <3>1. Objs(p) \cup {Null} \subseteq Objs(q) \cup {Null}
      BY <1>5
    <3>2. q.link \in [Objs(q) -> Objs(p) \cup {Null}]
      BY <1>3, <1>4, <1>5
    <3> QED BY <3>1, <3>2
  <2>4. p.slabs + 1 \in Nat /\ Sz \in Nat
    BY <1>1, SizesSound
  <2>5. h \cup {o} \subseteq Objs(q)
    BY <1>5 DEF PoolSound, IsPool
  <2> QED BY <1>3, <1>5, <2>1, <2>2, <2>3, <2>4, <2>5 DEF IsPool
<1>7. Spelled(q, h \cup {o})
  <2>1. \A i \in 1..Len(p.chain) : p.chain[i] \in Objs(p)
    BY DEF PoolSound, IsPool
  <2>2. /\ q.free = p.free /\ q.chain = p.chain
        /\ \A x \in Objs(p) : q.link[x] = p.link[x] /\ x # o
    BY <1>2, <1>3, <1>4
  <2>3. Spelled(p, h)
    BY DEF PoolSound
  <2> QED BY <2>1, <2>2, <2>3 DEF Spelled
<1>8. Laid(q)
  <2>1. \A a \in Objs(p) : a[1] # p.slabs + 1 /\ a[2] + Sz <= SlabBytes
    BY <1>1 DEF PoolSound, IsPool, Laid
  <2>2. \A a, b \in Objs(p) : a # b => Apart(a, b)
    BY DEF PoolSound, Laid
  <2>3. \A a \in Objs(p) : Apart(a, o) /\ Apart(o, a)
    BY <1>1, <2>1 DEF Apart
  <2>4. o[2] + Sz <= SlabBytes /\ o[2] + Sz <= q.next
    BY <1>1, <1>3, SizesSound
  <2> QED BY <1>1, <1>3, <1>5, <2>1, <2>2, <2>3, <2>4 DEF Laid
<1> QED BY <1>1, <1>2, <1>3, <1>5, <1>6, <1>7, <1>8 DEF PoolSound, q, o

LEMMA GivesObject ==
    ASSUME NEW a, NEW h, PoolSound(a.pool, h \cup {a.obj}), a.obj # Null
    PROVE  /\ PoolSound(a.pool, h \cup ({a.obj} \ {Null}))
           /\ a.obj # Null /\ a.obj \in Objs(a.pool)
<1>1. h \cup ({a.obj} \ {Null}) = h \cup {a.obj}
  OBVIOUS
<1>2. a.obj \in Objs(a.pool)
  BY DEF PoolSound, IsPool
<1> QED BY <1>1, <1>2

(* hgang_alloc: it fails and leaves the pool alone, or hands out an object *)
(* that nobody has.                                                        *)
LEMMA AllocSound ==
    ASSUME NEW p, NEW h, PoolSound(p, h), NEW a \in Alloc(p)
    PROVE  /\ PoolSound(a.pool, h \cup ({a.obj} \ {Null}))
           /\ a.obj \notin h
           /\ a.obj # Null => a.obj \in Objs(a.pool)
           /\ a.obj = Null => a.pool = p
<1>0. h \subseteq Objs(p) /\ Null \notin Objs(p)
  <2>1. Objs(p) \subseteq (1..p.slabs) \X Nat /\ h \subseteq Objs(p)
    BY DEF PoolSound, IsPool
  <2>2. \A a1 \in (1..p.slabs) \X Nat : a1[1] # 0
    BY DEF PoolSound, IsPool
  <2> QED BY <2>1, <2>2 DEF Null
<1>1. CASE p.free # Null
  <2>1. a = Pop(p)
    BY <1>1 DEF Alloc
  <2>2. /\ PoolSound(a.pool, h \cup {a.obj}) /\ a.obj \in Objs(p) \ h
    BY <1>1, <2>1, PopSound
  <2>3. a.obj # Null
    BY <1>0, <2>2
  <2> QED BY <2>2, <2>3, GivesObject
<1>2. CASE p.free = Null /\ p.slabs # 0 /\ ObjInSlab(p.next)
  <2>1. a = Carve(p)
    BY <1>2 DEF Alloc
  <2>2. /\ PoolSound(a.pool, h \cup {a.obj}) /\ a.obj \notin Objs(p)
    BY <1>2, <2>1, CarveSound
  <2>3. a.obj # Null
    BY <1>2, <2>1 DEF Carve, Null
  <2> QED BY <1>0, <2>2, <2>3, GivesObject
<1>3. CASE p.free = Null /\ ~ (p.slabs # 0 /\ ObjInSlab(p.next))
  <2>1. a = [pool |-> p, obj |-> Null] \/ a = NewSlab(p)
    BY <1>3 DEF Alloc
  <2>2. CASE a = NewSlab(p)
    <3>1. /\ PoolSound(a.pool, h \cup {a.obj}) /\ a.obj \notin Objs(p)
      BY <2>2, NewSlabSound
    <3>2. a.obj # Null
      <4>1. p.slabs + 1 # 0
        BY DEF PoolSound, IsPool
      <4> QED BY <2>2, <4>1 DEF NewSlab, Null
    <3> QED BY <1>0, <3>1, <3>2, GivesObject
  <2>3. CASE a = [pool |-> p, obj |-> Null]
    <3>1. a.pool = p /\ a.obj = Null
      BY <2>3
    <3>2. h \cup ({a.obj} \ {Null}) = h
      BY <3>1
    <3> QED BY <1>0, <3>1, <3>2
  <2> QED BY <2>1, <2>2, <2>3
<1> QED BY <1>1, <1>2, <1>3

(* hgang_return of what its user has.                                      *)
LEMMA ReturnSound ==
    ASSUME NEW p, NEW h, PoolSound(p, h), NEW o \in h
    PROVE  /\ PoolSound(Return(p, o), h \ {o})
           /\ Return(p, o).chain = <<o>> \o p.chain
           /\ p.chain \in Seq(Objs(p)) /\ o \in Objs(p)
           /\ Objs(Return(p, o)) = Objs(p)
<1> DEFINE q == Return(p, o)
           c == p.chain
<1>1. o \in Objs(p) /\ c \in Seq(Objs(p)) /\ Len(c) \in Nat
  BY DEF PoolSound, IsPool
<1>2. q = [slabs |-> p.slabs, next |-> p.next, free |-> o,
           link |-> Linked(p, o, p.free), chain |-> <<o>> \o c]
  <2>1. p = [slabs |-> p.slabs, next |-> p.next, free |-> p.free,
             link |-> p.link, chain |-> p.chain]
    BY DEF PoolSound, IsPool
  <2>2. ASSUME NEW r, r = Return(p, o)
        PROVE  r = [slabs |-> p.slabs, next |-> p.next, free |-> o,
                    link |-> Linked(p, o, p.free), chain |-> <<o>> \o p.chain]
    BY <2>1, <2>2 DEF Return
  <2> QED BY <2>2
<1>3. /\ <<o>> \o c \in Seq(Objs(p)) /\ Len(<<o>> \o c) = 1 + Len(c)
      /\ (<<o>> \o c)[1] = o
      /\ \A i \in 1..Len(c) : (<<o>> \o c)[i + 1] = c[i]
  <2>1. <<o>> \in Seq(Objs(p)) /\ Len(<<o>>) = 1 /\ <<o>>[1] = o
    BY <1>1
  <2>2. /\ <<o>> \o c \in Seq(Objs(p)) /\ Len(<<o>> \o c) = 1 + Len(c)
        /\ \A i \in 1..(1 + Len(c)) : (<<o>> \o c)[i] =
                IF i <= 1 THEN <<o>>[i] ELSE c[i - 1]
    BY <1>1, <2>1, ConcatProperties
  <2>3. \A i \in 1..Len(c) : i + 1 \in 1..(1 + Len(c)) /\ ~(i + 1 <= 1) /\ (i + 1) - 1 = i
    BY <1>1
  <2>4. 1 \in 1..(1 + Len(c)) /\ 1 <= 1
    BY <1>1
  <2>5. \A i \in 1..Len(c) : (<<o>> \o c)[i + 1] = c[(i + 1) - 1]
    BY <2>2, <2>3
  <2> QED BY <2>1, <2>2, <2>3, <2>4, <2>5
<1> HIDE DEF q, c
<1>4. /\ p.free \in Objs(p) \cup {Null}
      /\ \A i \in 1..Len(c) : c[i] \in Objs(p) /\ c[i] # o
  <2>1. p.free = IF c = << >> THEN Null ELSE c[1]
    BY DEF PoolSound, Spelled, c
  <2>2. c # << >> => 1 \in 1..Len(c)
    BY <1>1, EmptySeq
  <2>3. \A i \in 1..Len(c) : c[i] \in Objs(p)
    BY <1>1
  <2>4. \A i \in 1..Len(c) : c[i] \notin h
    BY DEF PoolSound, Spelled, c
  <2> QED BY <2>1, <2>2, <2>3, <2>4
<1>5. /\ Linked(p, o, p.free) \in [Objs(p) -> Objs(p) \cup {Null}]
      /\ \A x \in Objs(p) : Linked(p, o, p.free)[x] = IF x = o THEN p.free ELSE p.link[x]
  BY <1>1, <1>4 DEF PoolSound, IsPool, Linked, Objs
<1>6. Objs(q) = Objs(p)
  BY <1>2, <1>5 DEF Objs
<1>7. IsPool(q, h \ {o})
  BY <1>2, <1>3, <1>5, <1>6 DEF PoolSound, IsPool
<1>8. Spelled(q, h \ {o})
  <2>1. q.chain # << >> /\ q.free = q.chain[1]
    BY <1>1, <1>2, <1>3, EmptySeq
  <2>2. ASSUME NEW i \in 1..Len(q.chain)
        PROVE  /\ q.chain[i] \notin h \ {o}
               /\ q.link[q.chain[i]] = IF i = Len(q.chain) THEN Null ELSE q.chain[i + 1]
               /\ \A j \in 1..Len(q.chain) : q.chain[i] = q.chain[j] => i = j
    <3>0. \A j \in 1..Len(q.chain) : j = 1 \/ (j - 1 \in 1..Len(c) /\ q.chain[j] = c[j - 1])
      <4>1. \A j \in 1..Len(q.chain) : j = 1 \/ (j - 1 \in 1..Len(c) /\ (j - 1) + 1 = j)
        BY <1>1, <1>2, <1>3
      <4> QED BY <1>2, <1>3, <4>1
    <3>1. CASE i = 1
      <4>1. q.chain[1] = o
        BY <1>2, <1>3
      <4>2. q.link[o] = p.free
        BY <1>1, <1>2, <1>5
      <4>3. p.free = IF Len(q.chain) = 1 THEN Null ELSE q.chain[1 + 1]
        <5>1. p.free = IF c = << >> THEN Null ELSE c[1]
          BY DEF PoolSound, Spelled, c
        <5>2. c = << >> <=> Len(q.chain) = 1
          BY <1>1, <1>2, <1>3, EmptySeq
        <5>3. c # << >> => 1 \in 1..Len(c)
          BY <1>1, EmptySeq
        <5>4. c # << >> => q.chain[1 + 1] = c[1]
          BY <1>2, <1>3, <5>3
        <5> QED BY <5>1, <5>2, <5>4
      <4>4. \A j \in 1..Len(q.chain) : q.chain[j] = o => j = 1
        BY <1>4, <3>0
      <4> QED BY <3>1, <4>1, <4>2, <4>3, <4>4
    <3>2. CASE i # 1
      <4>1. /\ i - 1 \in 1..Len(c) /\ q.chain[i] = c[i - 1] /\ i \in Nat
            /\ c[i - 1] # o /\ c[i - 1] \in Objs(p) /\ c[i - 1] \notin h
        BY <1>4, <3>0, <3>2 DEF PoolSound, Spelled, c
      <4>2. q.link[q.chain[i]] = p.link[c[i - 1]]
        BY <1>2, <1>5, <4>1
      <4>3. p.link[c[i - 1]] = IF i - 1 = Len(c) THEN Null ELSE c[(i - 1) + 1]
        BY <4>1 DEF PoolSound, Spelled, c
      <4>4. /\ i - 1 = Len(c) <=> i = Len(q.chain)
            /\ (i - 1) + 1 = i
            /\ i # Len(q.chain) => i \in 1..Len(c)
        BY <1>1, <1>2, <1>3, <4>1
      <4>5. i # Len(q.chain) => q.chain[i + 1] = c[i]
        BY <1>2, <1>3, <4>4
      <4>6. \A j \in 1..Len(q.chain) : q.chain[i] = q.chain[j] => i = j
        <5>1. SUFFICES ASSUME NEW j \in 1..Len(q.chain), q.chain[i] = q.chain[j]
                       PROVE  i = j
          OBVIOUS
        <5>2. j # 1
          BY <1>2, <1>3, <4>1, <5>1
        <5>3. j - 1 \in 1..Len(c) /\ q.chain[j] = c[j - 1] /\ j \in Nat
          BY <3>0, <5>2
        <5>4. i - 1 = j - 1
          BY <4>1, <5>1, <5>3 DEF PoolSound, Spelled, c
        <5> QED BY <4>1, <5>3, <5>4
      <4> QED BY <4>1, <4>2, <4>3, <4>4, <4>5, <4>6
    <3> QED BY <3>1, <3>2
  <2> QED BY <2>1, <2>2 DEF Spelled
<1>9. Laid(q)
  BY <1>2, <1>6 DEF PoolSound, Laid
<1> QED BY <1>1, <1>2, <1>6, <1>7, <1>8, <1>9 DEF PoolSound, q, c

-----------------------------------------------------------------------------
(* The objects on the free list, and what the three operations do to them. *)
SpareOf(p) == {p.chain[i] : i \in 1..Len(p.chain)}

LEMMA EmptyChain ==
    ASSUME NEW p, NEW h, PoolSound(p, h)
    PROVE  p.free = Null <=> SpareOf(p) = {}
<1>1. p.chain \in Seq(Objs(p)) /\ Len(p.chain) \in Nat
  BY DEF PoolSound, IsPool
<1>2. p.chain = << >> <=> Len(p.chain) = 0
  BY <1>1, EmptySeq
<1>3. Null \notin Objs(p)
  <2>1. Objs(p) \subseteq (1..p.slabs) \X Nat
    BY DEF PoolSound, IsPool
  <2>2. \A a \in (1..p.slabs) \X Nat : a[1] # 0
    BY DEF PoolSound, IsPool
  <2> QED BY <2>1, <2>2 DEF Null
<1>4. p.chain # << >> => 1 \in 1..Len(p.chain) /\ p.chain[1] \in Objs(p)
  BY <1>1, <1>2
<1>5. p.free = IF p.chain = << >> THEN Null ELSE p.chain[1]
  BY DEF PoolSound, Spelled
<1>6. CASE p.chain = << >>
  <2>1. 1..Len(p.chain) = {}
    BY <1>1, <1>2, <1>6
  <2> QED BY <1>5, <1>6, <2>1 DEF SpareOf
<1>7. CASE p.chain # << >>
  BY <1>3, <1>4, <1>5, <1>7 DEF SpareOf
<1> QED BY <1>6, <1>7

LEMMA PopSpare ==
    ASSUME NEW p, NEW h, PoolSound(p, h), p.free # Null
    PROVE  /\ Pop(p).obj \in SpareOf(p)
           /\ SpareOf(Pop(p).pool) = SpareOf(p) \ {Pop(p).obj}
<1> DEFINE c == p.chain
<1>1. Pop(p).obj = c[1] /\ c # << >> /\ Pop(p).pool.chain = Tail(c)
  BY PopSound
<1>2. c \in Seq(Objs(p)) /\ Len(c) \in Nat
  BY DEF PoolSound, IsPool
<1>3. /\ Len(Tail(c)) = Len(c) - 1
      /\ \A i \in 1..Len(Tail(c)) : Tail(c)[i] = c[i + 1]
  BY <1>1, <1>2, HeadTailProperties
<1>4. \A i, j \in 1..Len(c) : c[i] = c[j] => i = j
  BY DEF PoolSound, Spelled
<1> HIDE DEF c
<1>5. 1 \in 1..Len(c)
  BY <1>1, <1>2, EmptySeq
<1>6. \A i \in 1..Len(c) : i # 1 => i - 1 \in 1..Len(Tail(c)) /\ (i - 1) + 1 = i
  BY <1>2, <1>3
<1>7. \A i \in 1..Len(Tail(c)) : i + 1 \in 1..Len(c) /\ i + 1 # 1
  BY <1>2, <1>3
<1>8. {Tail(c)[i] : i \in 1..Len(Tail(c))} = {c[i] : i \in 1..Len(c)} \ {c[1]}
  <2>1. ASSUME NEW x \in {Tail(c)[i] : i \in 1..Len(Tail(c))}
        PROVE  x \in {c[i] : i \in 1..Len(c)} \ {c[1]}
    <3>1. PICK i \in 1..Len(Tail(c)) : x = c[i + 1]
      BY <1>3, <2>1
    <3> QED BY <1>4, <1>5, <1>7, <3>1
  <2>2. ASSUME NEW x \in {c[i] : i \in 1..Len(c)} \ {c[1]}
        PROVE  x \in {Tail(c)[i] : i \in 1..Len(Tail(c))}
    <3>1. PICK i \in 1..Len(c) : x = c[i] /\ i # 1
      BY <2>2
    <3>2. x = Tail(c)[i - 1]
      BY <1>3, <1>6, <3>1
    <3> QED BY <1>6, <3>1, <3>2
  <2> QED BY <2>1, <2>2
<1> QED BY <1>1, <1>5, <1>8 DEF SpareOf, c

LEMMA ReturnSpare ==
    ASSUME NEW p, NEW h, PoolSound(p, h), NEW o \in h
    PROVE  SpareOf(Return(p, o)) = SpareOf(p) \cup {o}
<1> DEFINE c == p.chain
           d == <<o>> \o p.chain
<1>1. Return(p, o).chain = d /\ c \in Seq(Objs(p)) /\ o \in Objs(p)
  BY ReturnSound
<1>2. Len(d) = 1 + Len(c) /\ Len(c) \in Nat /\ d[1] = o
  BY <1>1
<1>3. \A i \in 1..Len(c) : d[i + 1] = c[i]
  BY <1>1
<1> HIDE DEF c, d
<1>4. \A i \in 1..Len(d) : i = 1 \/ (i - 1 \in 1..Len(c) /\ (i - 1) + 1 = i)
  BY <1>2
<1>5. 1 \in 1..Len(d) /\ \A i \in 1..Len(c) : i + 1 \in 1..Len(d)
  BY <1>2
<1>6. {d[i] : i \in 1..Len(d)} = {c[i] : i \in 1..Len(c)} \cup {o}
  <2>1. \A i \in 1..Len(d) : d[i] = o \/ (i - 1 \in 1..Len(c) /\ d[i] = c[i - 1])
    BY <1>2, <1>3, <1>4
  <2>2. \A i \in 1..Len(c) : i + 1 \in 1..Len(d) /\ c[i] = d[i + 1]
    BY <1>3, <1>5
  <2> QED BY <1>2, <1>5, <2>1, <2>2
<1> QED BY <1>1, <1>6 DEF SpareOf, c

-----------------------------------------------------------------------------
(* The pool with any user that returns only what it has.                   *)
PoolInv == PoolSound(pool, held)

LEMMA PoolInitSound == PoolInit => PoolInv
<1> SUFFICES ASSUME PoolInit PROVE PoolSound(pool, held)
  BY DEF PoolInv
<1>1. /\ pool.slabs = 0 /\ pool.next = 0 /\ pool.free = Null
      /\ pool.link = << >> /\ pool.chain = << >> /\ held = {}
  BY DEF PoolInit, Empty
<1>2. Objs(pool) = {}
  BY <1>1 DEF Objs
<1>3. pool.link \in [{} -> {Null}]
  BY <1>1
<1>4. Len(pool.chain) = 0 /\ 1..0 = {} /\ pool.chain \in Seq({})
  BY <1>1
<1>5. IsPool(pool, held)
  BY <1>1, <1>2, <1>3, <1>4 DEF IsPool, PoolInit, Empty
<1>6. Spelled(pool, held)
  BY <1>1, <1>4 DEF Spelled
<1>7. Laid(pool)
  BY <1>2 DEF Laid
<1> QED BY <1>5, <1>6, <1>7 DEF PoolSound

LEMMA PoolStepSound == PoolInv /\ [PoolNext]_poolVars => PoolInv'
<1> SUFFICES ASSUME PoolSound(pool, held), [PoolNext]_poolVars
             PROVE  PoolSound(pool', held')
  BY DEF PoolInv, PoolSound, IsPool, Spelled, Laid, Objs
<1>1. CASE Take
  BY <1>1, AllocSound DEF Take
<1>2. CASE GiveBack
  <2>1. PICK o \in held : pool' = Return(pool, o) /\ held' = held \ {o}
    BY <1>2 DEF GiveBack
  <2>2. PoolSound(Return(pool, o), held \ {o})
    BY ReturnSound
  <2> QED BY <2>1, <2>2
<1>3. CASE UNCHANGED poolVars
  BY <1>3 DEF poolVars
<1> QED BY <1>1, <1>2, <1>3 DEF PoolNext

LEMMA PoolInvariant == PoolSpec => []PoolInv
<1> QED BY PoolInitSound, PoolStepSound, PTL DEF PoolSpec

LEMMA SoundTyped ==
    ASSUME PoolSound(pool, held)
    PROVE  PoolTypeOK
<1>1. /\ pool.chain \in Seq(Made) /\ held \subseteq Made
      /\ pool.slabs \in Nat /\ pool.next \in Nat
      /\ Made \subseteq (1..pool.slabs) \X Nat
      /\ pool.link \in [Made -> Made \cup {Null}]
  BY DEF PoolSound, IsPool, Objs, Made
<1>2. pool.chain # << >> => 1 \in 1..Len(pool.chain)
  BY <1>1, EmptySeq
<1>3. pool.free \in Made \cup {Null}
  BY <1>1, <1>2 DEF PoolSound, Spelled
<1> QED BY <1>1, <1>3 DEF PoolTypeOK

(* The fields of the pool keep their types (hgang.c:32, struct _hgang).    *)
THEOREM PoolTyped == PoolSpec => []PoolTypeOK
<1>1. PoolInv => PoolTypeOK
  BY SoundTyped DEF PoolInv
<1> QED BY <1>1, PoolInvariant, PTL

(* The links in the returned objects are always the list of what was       *)
(* returned, whoever takes and returns in whatever order (hgang.c:161,     *)
(* 219).                                                                   *)
THEOREM PoolListSound == PoolSpec => []FreeListSound
<1>1. PoolInv => FreeListSound
  BY DEF PoolInv, PoolSound, Spelled, FreeListSound
<1> QED BY <1>1, PoolInvariant, PTL

(* No two objects overlap, and none leaves its slab, for every object size *)
(* and slab size given to hgang_new (hgang.c:61, 94, 138, 170).            *)
THEOREM PoolObjectsApart == PoolSpec => []ObjectsApart
<1>1. PoolInv => ObjectsApart
  BY DEF PoolInv, PoolSound, Laid, ObjectsApart, Objs, Made
<1> QED BY <1>1, PoolInvariant, PTL

-----------------------------------------------------------------------------
(* With an empty list the pool hands out an object that it never made      *)
(* before.                                                                 *)
LEMMA NewObject ==
    ASSUME PoolSound(pool, held), NEW a \in Alloc(pool), pool.free = Null, a.obj # Null
    PROVE  a.obj \notin Objs(pool) /\ a.pool.chain = pool.chain
<1>1. CASE pool.slabs # 0 /\ ObjInSlab(pool.next)
  <2>1. a = Carve(pool)
    BY <1>1 DEF Alloc
  <2> QED BY <1>1, <2>1, CarveSound
<1>2. CASE ~ (pool.slabs # 0 /\ ObjInSlab(pool.next))
  <2>1. a = NewSlab(pool)
    BY <1>2 DEF Alloc
  <2> QED BY <2>1, NewSlabSound
<1> QED BY <1>1, <1>2

(* The pool implements the abstract one: every way through hgang_alloc     *)
(* hands out what was spare, or something new that overlaps with nothing   *)
(* in use when nothing was, or fails and changes nothing.                  *)
LEMMA TakeImplements ==
    ASSUME PoolSound(pool, held), Take
    PROVE  [Abstract!Next]_<<held, Spare>>
<1>1. PICK a \in Alloc(pool) : pool' = a.pool /\ held' = held \cup ({a.obj} \ {Null})
  BY DEF Take
<1>2. PoolSound(pool', held')
  BY <1>1, AllocSound
<1>3. Spare = SpareOf(pool) /\ Spare' = SpareOf(pool')
  BY DEF Spare, SpareOf
<1>4. CASE pool.free # Null
  <2>1. a = Pop(pool)
    BY <1>1, <1>4 DEF Alloc
  <2>2. a.obj \in Spare /\ Spare' = Spare \ {a.obj}
    BY <1>1, <1>3, <1>4, <2>1, PopSpare
  <2>3. held' = held \cup {a.obj}
    <3>1. a.obj # Null
      BY <1>4, <2>1 DEF Pop
    <3> QED BY <1>1, <3>1
  <2> QED BY <2>2, <2>3 DEF Abstract!Next, Abstract!Reuse
<1>5. CASE pool.free = Null /\ a.obj # Null
  <2>1. a.obj \notin Objs(pool) /\ a.pool.chain = pool.chain
    BY <1>1, <1>5, NewObject
  <2>2. Spare = {} /\ Spare' = {}
    <3>1. SpareOf(pool) = {}
      BY <1>5, EmptyChain
    <3>2. pool'.chain = pool.chain
      BY <1>1, <2>1
    <3>3. SpareOf(pool') = SpareOf(pool)
      BY <3>2 DEF SpareOf
    <3> QED BY <1>3, <3>1, <3>3
  <2>3. held' = held \cup {a.obj}
    BY <1>1, <1>5
  <2>4. a.obj \in Objs(pool') /\ held' \subseteq Objs(pool')
    BY <1>2, <2>3 DEF PoolSound, IsPool
  <2>5. a.obj \in Nat \X Nat
    <3>1. Objs(pool') \subseteq (1..pool'.slabs) \X Nat
      BY <1>2 DEF PoolSound, IsPool
    <3> QED BY <2>4, <3>1
  <2>6. \A b \in held : a.obj # b
    BY <2>1 DEF PoolSound, IsPool
  <2>7. \A b \in held : Abstract!Apart(a.obj, b)
    BY <1>2, <2>3, <2>4, <2>6 DEF PoolSound, Laid, Apart, Abstract!Apart
  <2> QED BY <2>2, <2>3, <2>5, <2>7 DEF Abstract!Next, Abstract!Extend, Abstract!Memory
<1>6. CASE pool.free = Null /\ a.obj = Null
  <2>1. a.pool = pool
    BY <1>1, <1>6, AllocSound
  <2>2. held' = held /\ pool' = pool
    BY <1>1, <1>6, <2>1
  <2> QED BY <2>2, <1>3
<1> QED BY <1>4, <1>5, <1>6

LEMMA GiveBackImplements ==
    ASSUME PoolSound(pool, held), GiveBack
    PROVE  [Abstract!Next]_<<held, Spare>>
<1>1. PICK o \in held : pool' = Return(pool, o) /\ held' = held \ {o}
  BY DEF GiveBack
<1>2. Spare = SpareOf(pool) /\ Spare' = SpareOf(pool')
  BY DEF Spare, SpareOf
<1>3. Spare' = Spare \cup {o}
  BY <1>1, <1>2, ReturnSpare
<1> QED BY <1>1, <1>3 DEF Abstract!Next, Abstract!GiveBack

(* The pool with any user implements Pool (hgang.c:158-170, 216).          *)
THEOREM PoolImplements == PoolSpec => ImplementsPool
<1>1. PoolInit => Abstract!Init
  <2> SUFFICES ASSUME PoolInit PROVE held = {} /\ Spare = {}
    BY DEF Abstract!Init
  <2>1. pool.chain = << >> /\ held = {}
    BY DEF PoolInit, Empty
  <2>2. 1..Len(pool.chain) = {}
    BY <2>1
  <2> QED BY <2>1, <2>2 DEF Spare
<1>2. PoolInv /\ [PoolNext]_poolVars => [Abstract!Next]_<<held, Spare>>
  <2> SUFFICES ASSUME PoolSound(pool, held), [PoolNext]_poolVars
               PROVE  [Abstract!Next]_<<held, Spare>>
    BY DEF PoolInv
  <2>1. CASE UNCHANGED poolVars
    BY <2>1 DEF poolVars, Spare
  <2> QED BY <2>1, TakeImplements, GiveBackImplements DEF PoolNext
<1> QED BY <1>1, <1>2, PoolInvariant, PTL DEF PoolSpec, ImplementsPool, Abstract!Spec, Abstract!vars

-----------------------------------------------------------------------------
(* The server.                                                             *)

(* A connection, one that listen_cb is making included.                    *)
Records ==
    [fd : Fds, state : {"INIT", "ABORT", "CONN_RESET", "HANDSHAKE_1", "HANDSHAKE_2", "READY"},
     killed : BOOLEAN, conn_reset : BOOLEAN, list : {"active", "inactive", "deleted", "none"},
     err : BOOLEAN, more : BOOLEAN, shrink : BOOLEAN,
     connected : 0..2, resets : 0..2, lost : BOOLEAN]

IsWorld(w) ==
    /\ w = [pool |-> w.pool, held |-> w.held, conn |-> w.conn, open |-> w.open, fault |-> w.fault]
    /\ w.conn \in [w.held -> Records]

(* The world with another record for a connection.                         *)
Put(w, c, x) == [w EXCEPT !.conn = [w.conn EXCEPT ![c] = x]]

LEMMA PutEq ==
    ASSUME NEW w, IsWorld(w), NEW c, NEW x
    PROVE  Put(w, c, x) = [pool |-> w.pool, held |-> w.held, conn |-> [w.conn EXCEPT ![c] = x],
                           open |-> w.open, fault |-> w.fault]
BY DEF IsWorld, Put

LEMMA PutIs ==
    ASSUME NEW w, IsWorld(w), NEW c \in w.held, NEW x \in Records
    PROVE  /\ IsWorld(Put(w, c, x))
           /\ Put(w, c, x).pool = w.pool /\ Put(w, c, x).held = w.held
           /\ Put(w, c, x).open = w.open /\ Put(w, c, x).fault = w.fault
<1>2. [w.conn EXCEPT ![c] = x] \in [w.held -> Records]
  BY DEF IsWorld
<1> QED BY PutEq, <1>2 DEF IsWorld

LEMMA PutGets ==
    ASSUME NEW w, IsWorld(w), NEW c \in w.held, NEW x
    PROVE  Put(w, c, x).conn[c] = x
<1>1. Put(w, c, x).conn = [w.conn EXCEPT ![c] = x]
  BY PutEq
<1>2. w.conn \in [w.held -> Records]
  BY DEF IsWorld
<1>3. [w.conn EXCEPT ![c] = x][c] = x
  BY <1>2
<1> QED BY <1>1, <1>3

LEMMA PutElse ==
    ASSUME NEW w, IsWorld(w), NEW c \in w.held, NEW x, NEW d \in w.held, d # c
    PROVE  Put(w, c, x).conn[d] = w.conn[d]
<1>1. Put(w, c, x).conn = [w.conn EXCEPT ![c] = x]
  BY PutEq
<1>2. w.conn \in [w.held -> Records]
  BY DEF IsWorld
<1>3. [w.conn EXCEPT ![c] = x][d] = w.conn[d]
  BY <1>2
<1> QED BY <1>1, <1>3

LEMMA PutAgain ==
    ASSUME NEW w, IsWorld(w), NEW c \in w.held, NEW x \in Records, NEW y
    PROVE  Put(Put(w, c, x), c, y) = Put(w, c, y)
<1>1. IsWorld(Put(w, c, x))
  BY PutIs
<1>2. [[w.conn EXCEPT ![c] = x] EXCEPT ![c] = y] = [w.conn EXCEPT ![c] = y]
  BY DEF IsWorld
<1>3. Put(Put(w, c, x), c, y) =
        [pool |-> w.pool, held |-> w.held, conn |-> [[w.conn EXCEPT ![c] = x] EXCEPT ![c] = y],
         open |-> w.open, fault |-> w.fault]
  <2>1. Put(w, c, x).conn = [w.conn EXCEPT ![c] = x]
    BY PutEq
  <2>2. PICK p : p = Put(w, c, x)
    OBVIOUS
  <2>3. Put(p, c, y) = [pool |-> p.pool, held |-> p.held, conn |-> [p.conn EXCEPT ![c] = y],
                        open |-> p.open, fault |-> p.fault]
    BY <1>1, <2>2, PutEq
  <2>4. p.pool = w.pool /\ p.held = w.held /\ p.open = w.open /\ p.fault = w.fault
    BY <2>2, PutIs
  <2> QED BY <2>1, <2>2, <2>3, <2>4
<1> QED BY <1>2, <1>3, PutEq

-----------------------------------------------------------------------------
(* nbio_del, the program's close and the end of transition(), on one       *)
(* connection.                                                             *)
Deleted(x) == [x EXCEPT !.list = "deleted", !.err = FALSE, !.more = FALSE, !.shrink = FALSE]
Told(x) == [x EXCEPT !.resets = Again(@)]
Killed(x) == [x EXCEPT !.killed = TRUE]
Marked(x, state) == [x EXCEPT !.conn_reset = TRUE, !.state = state]
ResetTo(x, state) == Deleted(Marked(Deleted(Killed(Told(x))), state))

LEMMA ChangesTyped ==
    ASSUME NEW x \in Records
    PROVE  Deleted(x) \in Records /\ Told(x) \in Records /\ Killed(x) \in Records
<1>1. Deleted(x) \in Records
  BY DEF Records, Deleted
<1>2. Told(x) \in Records
  BY DEF Records, Told, Again
<1>3. Killed(x) \in Records
  BY DEF Records, Killed
<1> QED BY <1>1, <1>2, <1>3

LEMMA MarkedTyped ==
    ASSUME NEW x \in Records, NEW s \in {"ABORT", "CONN_RESET"}
    PROVE  Marked(x, s) \in Records
BY DEF Records, Marked

LEMMA ResetToIs ==
    ASSUME NEW x \in Records, NEW s \in {"ABORT", "CONN_RESET"}
    PROVE  /\ ResetTo(x, s) \in Records
           /\ ResetTo(x, s).fd = x.fd
           /\ ResetTo(x, s).state = s
           /\ ResetTo(x, s).killed /\ ResetTo(x, s).conn_reset
           /\ ResetTo(x, s).list = "deleted" /\ ~ ResetTo(x, s).err
           /\ ResetTo(x, s).connected = x.connected /\ ResetTo(x, s).lost = x.lost
           /\ ResetTo(x, s).resets = Again(x.resets)
<1>1. Deleted(Killed(Told(x))) \in Records
  BY ChangesTyped
<1>2. ResetTo(x, s) \in Records
  BY <1>1, ChangesTyped, MarkedTyped DEF ResetTo
<1> QED BY <1>2 DEF Records, ResetTo, Marked, Deleted, Told, Killed

LEMMA NbioDelPuts ==
    ASSUME NEW w, IsWorld(w), NEW c \in w.held
    PROVE  NbioDel(w, c) = Put(w, c, Deleted(w.conn[c]))
<1>1. PICK w1 : w1 = [w EXCEPT !.conn[c].list = "deleted"]
  OBVIOUS
<1>2. PICK w2 : w2 = [w1 EXCEPT !.conn[c].err = FALSE]
  OBVIOUS
<1>3. PICK w3 : w3 = [w2 EXCEPT !.conn[c].more = FALSE]
  OBVIOUS
<1>4. NbioDel(w, c) = [w3 EXCEPT !.conn[c].shrink = FALSE]
  BY <1>1, <1>2, <1>3 DEF NbioDel
<1>5. PICK x, x1, x2, x3 :
         /\ x = w.conn[c] /\ x1 = [x EXCEPT !.list = "deleted"]
         /\ x2 = [x1 EXCEPT !.err = FALSE] /\ x3 = [x2 EXCEPT !.more = FALSE]
  OBVIOUS
<1>6. w1 = Put(w, c, x1) /\ w1.conn[c] = x1
  BY <1>1, <1>5 DEF IsWorld, Put
<1>7. w2 = Put(w, c, x2) /\ w2.conn[c] = x2
  BY <1>2, <1>5, <1>6 DEF IsWorld, Put
<1>8. w3 = Put(w, c, x3) /\ w3.conn[c] = x3
  BY <1>3, <1>5, <1>7 DEF IsWorld, Put
<1>9. NbioDel(w, c) = Put(w, c, [x3 EXCEPT !.shrink = FALSE])
  BY <1>4, <1>8 DEF IsWorld, Put
<1>10. [x3 EXCEPT !.shrink = FALSE] = Deleted(w.conn[c])
  BY <1>5 DEF Deleted
<1> QED BY <1>9, <1>10

LEMMA ConnResetPuts ==
    ASSUME NEW w, IsWorld(w), NEW c \in w.held, ~ w.conn[c].conn_reset
    PROVE  ConnReset(w, c) = Put(w, c, Deleted(Killed(Told(w.conn[c]))))
<1>1. w.conn[c] \in Records
  BY DEF IsWorld
<1>2. PICK t : t = [w EXCEPT !.conn[c].resets = Again(@)]
  OBVIOUS
<1>3. t = Put(w, c, Told(w.conn[c]))
  BY <1>2 DEF Put, Told, IsWorld
<1>4. IsWorld(t) /\ t.held = w.held /\ t.conn[c] = Told(w.conn[c])
  BY <1>1, <1>3, PutIs, PutGets, ChangesTyped
<1>5. ~ t.conn[c].conn_reset
  BY <1>1, <1>4 DEF Told, Records
<1>6. PICK k : k = [t EXCEPT !.conn[c].killed = TRUE]
  OBVIOUS
<1>7. k = Put(t, c, Killed(t.conn[c]))
  BY <1>4, <1>6 DEF Put, Killed, IsWorld
<1>8. IsWorld(k) /\ k.held = w.held /\ k.conn[c] = Killed(Told(w.conn[c]))
  BY <1>1, <1>4, <1>7, PutIs, PutGets, ChangesTyped
<1>9. ConnReset(w, c) = NbioDel(k, c)
  BY <1>2, <1>5, <1>6 DEF ConnReset, RtmpdClose
<1>10. ConnReset(w, c) = Put(Put(t, c, Killed(t.conn[c])), c, Deleted(k.conn[c]))
  BY <1>7, <1>8, <1>9, NbioDelPuts
<1>11. ConnReset(w, c) = Put(t, c, Deleted(k.conn[c]))
  BY <1>1, <1>4, <1>10, PutAgain, ChangesTyped
<1> QED BY <1>1, <1>3, <1>8, <1>11, PutAgain, ChangesTyped

LEMMA ResetPuts ==
    ASSUME NEW w, IsWorld(w), Sound(w), NEW c \in w.held, ~ w.conn[c].conn_reset,
           NEW s \in {"ABORT", "CONN_RESET"}
    PROVE  Reset(w, c, s) = Put(w, c, ResetTo(w.conn[c], s))
<1>1. PICK d : d = ConnReset(w, c)
  OBVIOUS
<1>2. PICK x : x = Deleted(Killed(Told(w.conn[c])))
  OBVIOUS
<1>3. x \in Records
  BY <1>2, ChangesTyped DEF IsWorld
<1>4. d = Put(w, c, x)
  BY <1>1, <1>2, ConnResetPuts
<1>5. IsWorld(d) /\ d.held = w.held /\ d.conn[c] = x /\ d.fault = w.fault
  BY <1>3, <1>4, PutIs, PutGets
<1>6. PICK e : e = [d EXCEPT !.conn[c].conn_reset = TRUE, !.conn[c].state = s]
  OBVIOUS
<1>7. Reset(w, c, s) = NbioDel(e, c)
  BY <1>1, <1>5, <1>6 DEF Reset, Sound
<1>8. e = Put(d, c, Marked(x, s))
  BY <1>5, <1>6 DEF Put, Marked, IsWorld
<1>9. Marked(x, s) \in Records
  BY <1>3, MarkedTyped
<1>10. IsWorld(e) /\ e.held = w.held /\ e.conn[c] = Marked(x, s)
  BY <1>5, <1>8, <1>9, PutIs, PutGets
<1>11. Reset(w, c, s) = Put(e, c, Deleted(Marked(x, s)))
  BY <1>7, <1>10, NbioDelPuts
<1>12. Put(e, c, Deleted(Marked(x, s))) = Put(d, c, Deleted(Marked(x, s)))
  BY <1>5, <1>8, <1>9, PutAgain
<1>13. Put(d, c, Deleted(Marked(x, s))) = Put(w, c, Deleted(Marked(x, s)))
  BY <1>3, <1>4, PutAgain
<1> QED BY <1>2, <1>11, <1>12, <1>13 DEF ResetTo

-----------------------------------------------------------------------------
(* A connection that the program has not been told the end of, one that it *)
(* was told the end of and has closed, and one that the loop dropped.      *)
Alive(x) ==
    /\ x.state \in {"HANDSHAKE_1", "HANDSHAKE_2", "READY"}
    /\ x.connected = IF x.state = "READY" THEN 1 ELSE 0
    /\ ~ x.killed /\ ~ x.conn_reset /\ x.resets = 0 /\ ~ x.lost
    /\ x.list \in {"active", "inactive"}

Ended(x) ==
    /\ x.state \in {"ABORT", "CONN_RESET"} /\ x.connected <= 1
    /\ x.killed /\ x.conn_reset /\ x.resets = 1 /\ ~ x.lost
    /\ x.list = "deleted" /\ ~ x.err

Dropped(x) ==
    /\ x.state \in {"HANDSHAKE_1", "HANDSHAKE_2", "READY"} /\ x.connected <= 1
    /\ ~ x.killed /\ x.resets = 0 /\ x.lost
    /\ x.list \in {"deleted", "none", "active"} /\ ~ x.err

(* One that a handler may be at work on, which is not to be told of an end *)
(* that it was told of.                                                    *)
Live(x) == ~ x.killed /\ ~ x.conn_reset /\ x.resets = 0 /\ ~ x.lost /\ x.connected <= 1

(* What a handler leaves behind: another record for its own connection.    *)
Leaves(w, c, v) ==
    \E x \in Records :
        /\ v = Put(w, c, x) /\ x.fd = w.conn[c].fd
        /\ Alive(x) \/ Ended(x)

LEMMA LeavesReset ==
    ASSUME NEW w, IsWorld(w), Sound(w), NEW c \in w.held, Live(w.conn[c]),
           NEW s \in {"ABORT", "CONN_RESET"}
    PROVE  Leaves(w, c, Reset(w, c, s))
<1>1. w.conn[c] \in Records
  BY DEF IsWorld
<1>2. PICK x : x = ResetTo(w.conn[c], s)
  OBVIOUS
<1>3. x \in Records /\ x.fd = w.conn[c].fd
  BY <1>1, <1>2, ResetToIs
<1>4. Reset(w, c, s) = Put(w, c, x)
  BY <1>2, ResetPuts DEF Live
<1>5. Ended(x)
  <2>1. /\ x.state = s /\ x.killed /\ x.conn_reset /\ x.list = "deleted" /\ ~ x.err
        /\ x.connected = w.conn[c].connected /\ x.lost = w.conn[c].lost
        /\ x.resets = Again(w.conn[c].resets)
    BY <1>1, <1>2, ResetToIs
  <2> QED BY <2>1 DEF Ended, Live, Again
<1> QED BY <1>3, <1>4, <1>5 DEF Leaves

(* A handler that goes on from where another one left.                     *)
LEMMA LeavesFrom ==
    ASSUME NEW w, IsWorld(w), NEW c \in w.held, NEW x \in Records, x.fd = w.conn[c].fd,
           NEW v, Leaves(Put(w, c, x), c, v)
    PROVE  Leaves(w, c, v)
<1>1. Put(w, c, x).conn[c] = x
  BY PutGets
<1>2. PICK y \in Records : v = Put(Put(w, c, x), c, y) /\ y.fd = x.fd /\ (Alive(y) \/ Ended(y))
  BY <1>1 DEF Leaves
<1>3. v = Put(w, c, y)
  BY <1>2, PutAgain
<1> QED BY <1>2, <1>3 DEF Leaves

LEMMA LeavesAlive ==
    ASSUME NEW w, NEW c, NEW x \in Records, x.fd = w.conn[c].fd, Alive(x)
    PROVE  Leaves(w, c, Put(w, c, x))
BY DEF Leaves

LEMMA PutSame ==
    ASSUME NEW w, IsWorld(w), NEW c \in w.held
    PROVE  Put(w, c, w.conn[c]) = w
<1>1. [w.conn EXCEPT ![c] = w.conn[c]] = w.conn
  BY DEF IsWorld
<1> QED BY <1>1, PutEq DEF IsWorld

LEMMA Handshake1Leaves ==
    ASSUME NEW w, IsWorld(w), Sound(w), NEW c \in w.held, Alive(w.conn[c]),
           w.conn[c].state = "HANDSHAKE_1", NEW v \in Handshake1(w, c)
    PROVE  Leaves(w, c, v)
<1>1. w.conn[c] \in Records /\ Live(w.conn[c])
  BY DEF IsWorld, Alive, Live
<1>2. CASE v = [SetWaitRead(w, c) EXCEPT !.conn[c].state = "HANDSHAKE_2"]
  <2>1. PICK x : x = [w.conn[c] EXCEPT !.list = "active", !.err = FALSE]
    OBVIOUS
  <2>2. x \in Records /\ x.fd = w.conn[c].fd
    BY <1>1, <2>1 DEF Records
  <2>3. SetWaitRead(w, c) = Put(w, c, x)
    BY <2>1 DEF SetWaitRead, Put, IsWorld
  <2>4. PICK t : t = SetWaitRead(w, c)
    OBVIOUS
  <2>5. IsWorld(t) /\ t.held = w.held /\ t.conn[c] = x
    BY <2>2, <2>3, <2>4, PutIs, PutGets
  <2>6. PICK y : y = [x EXCEPT !.state = "HANDSHAKE_2"]
    OBVIOUS
  <2>7. y \in Records /\ y.fd = x.fd
    BY <2>2, <2>6 DEF Records
  <2>8. v = Put(t, c, y)
    BY <1>2, <2>4, <2>5, <2>6 DEF Put, IsWorld
  <2>9. Alive(y)
    BY <1>1, <2>1, <2>2, <2>6 DEF Alive, Records
  <2> QED BY <2>2, <2>3, <2>4, <2>5, <2>7, <2>8, <2>9, LeavesAlive, LeavesFrom
<1>3. CASE v = [w EXCEPT !.conn[c].more = TRUE]
  <2>1. PICK x : x = [w.conn[c] EXCEPT !.more = TRUE]
    OBVIOUS
  <2>2. x \in Records /\ x.fd = w.conn[c].fd /\ Alive(x)
    BY <1>1, <2>1 DEF Records, Alive
  <2>3. v = Put(w, c, x)
    BY <1>3, <2>1 DEF Put, IsWorld
  <2> QED BY <2>2, <2>3, LeavesAlive
<1>4. CASE v = Reset(w, c, "ABORT") \/ v = Reset(w, c, "CONN_RESET")
  BY <1>1, <1>4, LeavesReset
<1> QED BY <1>2, <1>3, <1>4 DEF Handshake1

LEMMA ShrinkLeaves ==
    ASSUME NEW w, IsWorld(w), Sound(w), NEW c \in w.held, Alive(w.conn[c]),
           NEW v \in Shrink(w, c)
    PROVE  Leaves(w, c, v)
<1>1. w.conn[c] \in Records /\ Live(w.conn[c])
  BY DEF IsWorld, Alive, Live
<1>2. CASE v = w
  BY <1>1, <1>2, PutSame, LeavesAlive
<1>3. CASE v = [w EXCEPT !.conn[c].shrink = FALSE]
  <2>1. PICK x : x = [w.conn[c] EXCEPT !.shrink = FALSE]
    OBVIOUS
  <2>2. x \in Records /\ x.fd = w.conn[c].fd /\ Alive(x)
    BY <1>1, <2>1 DEF Records, Alive
  <2>3. v = Put(w, c, x)
    BY <1>3, <2>1 DEF Put, IsWorld
  <2> QED BY <2>2, <2>3, LeavesAlive
<1>4. CASE v = Reset(w, c, "ABORT")
  BY <1>1, <1>4, LeavesReset
<1> QED BY <1>2, <1>3, <1>4 DEF Shrink

LEMMA DrainedLeaves ==
    ASSUME NEW w, IsWorld(w), Sound(w), NEW c \in w.held, Alive(w.conn[c]),
           NEW v \in Drained(w, c)
    PROVE  Leaves(w, c, v)
<1> DEFINE Taken(more) == [w EXCEPT !.conn[c].more = more]
           After(t) == CASE t.conn[c].state = "HANDSHAKE_1" -> Handshake1(t, c)
                         [] t.conn[c].state = "HANDSHAKE_2" -> Shrink(Handshake2(t, c), c)
                         [] t.conn[c].state = "READY"       -> Shrink(Decode(t, c), c)
                         [] OTHER                           -> {Fault(t, "read after a reset")}
<1>0. PICK more \in BOOLEAN : v \in After(Taken(more))
  BY DEF Drained
<1>1. PICK t : t = [w EXCEPT !.conn[c].more = more] /\ v \in After(t)
  BY <1>0
<1>2. w.conn[c] \in Records
  BY DEF IsWorld
<1>3. PICK x : x = [w.conn[c] EXCEPT !.more = more]
  OBVIOUS
<1>4. x \in Records /\ x.fd = w.conn[c].fd /\ Alive(x)
  BY <1>2, <1>3 DEF Records, Alive
<1>5. t = Put(w, c, x)
  BY <1>1, <1>3 DEF Put, IsWorld
<1>6. IsWorld(t) /\ t.held = w.held /\ t.conn[c] = x /\ t.fault = w.fault
  BY <1>4, <1>5, PutIs, PutGets
<1>7. Sound(t) /\ Alive(t.conn[c])
  BY <1>4, <1>6 DEF Sound
<1>8. CASE x.state = "HANDSHAKE_1"
  <2>1. v \in Handshake1(t, c)
    BY <1>1, <1>6, <1>8
  <2>2. Leaves(t, c, v)
    BY <1>6, <1>7, <1>8, <2>1, Handshake1Leaves
  <2> QED BY <1>4, <1>5, <2>2, LeavesFrom
<1>9. CASE x.state = "HANDSHAKE_2"
  <2>1. v \in Shrink(Handshake2(t, c), c)
    BY <1>1, <1>6, <1>9
  <2>2. PICK u, y : /\ u = Handshake2(t, c)
                    /\ y = [x EXCEPT !.state = "READY", !.shrink = TRUE, !.connected = 1]
    OBVIOUS
  <2>0. Again(x.connected) = 1
    BY <1>4, <1>9 DEF Alive, Again
  <2>3. y \in Records /\ y.fd = x.fd
    <3>1. PICK x1 : x1 = [x EXCEPT !.state = "READY"]
      OBVIOUS
    <3>2. PICK x2 : x2 = [x1 EXCEPT !.shrink = TRUE]
      OBVIOUS
    <3>3. x1 \in Records /\ x1.fd = x.fd
      BY <1>4, <3>1 DEF Records
    <3>4. x2 \in Records /\ x2.fd = x.fd
      BY <3>2, <3>3 DEF Records
    <3>5. y = [x2 EXCEPT !.connected = 1]
      BY <2>2, <3>1, <3>2
    <3> QED BY <3>4, <3>5 DEF Records
  <2>4. Alive(y)
    BY <1>4, <1>9, <2>2 DEF Alive, Records
  <2>5. u = Put(t, c, y)
    <3>1. [x EXCEPT !.state = "READY", !.shrink = TRUE, !.connected = Again(@)] = y
      BY <1>4, <2>0, <2>2 DEF Records
    <3>2. u = Put(t, c, [x EXCEPT !.state = "READY", !.shrink = TRUE, !.connected = Again(@)])
      BY <1>6, <2>2 DEF Handshake2, Put, IsWorld
    <3> QED BY <3>1, <3>2
  <2>6. IsWorld(u) /\ u.held = w.held /\ u.conn[c] = y /\ u.fault = t.fault
    BY <1>6, <2>3, <2>5, PutIs, PutGets
  <2>7. Leaves(u, c, v)
    BY <1>7, <2>1, <2>2, <2>4, <2>6, ShrinkLeaves DEF Sound
  <2>8. Leaves(t, c, v)
    BY <1>6, <2>3, <2>5, <2>7, LeavesFrom
  <2> QED BY <1>4, <1>5, <2>8, LeavesFrom
<1>10. CASE x.state = "READY"
  <2>1. v \in Shrink(Decode(t, c), c)
    BY <1>1, <1>6, <1>10
  <2>2. Decode(t, c) = t
    <3>1. t.conn[c].connected = 1 /\ t.conn[c].resets = 0
      BY <1>4, <1>6, <1>10 DEF Alive
    <3> QED BY <3>1 DEF Decode
  <2>3. Leaves(t, c, v)
    BY <1>6, <1>7, <2>1, <2>2, ShrinkLeaves
  <2> QED BY <1>4, <1>5, <2>3, LeavesFrom
<1> QED BY <1>4, <1>8, <1>9, <1>10 DEF Alive

(* iop_read, but for what the event loop makes of it.                      *)
LEMMA PumpLeaves ==
    ASSUME NEW w, IsWorld(w), Sound(w), NEW c \in w.held, Alive(w.conn[c]),
           NEW v \in RtmpPump(w, c)
    PROVE  Leaves(w, c, v)
<1>1. w.conn[c] \in Records /\ Live(w.conn[c])
  BY DEF IsWorld, Alive, Live
<1>2. CASE v \in Drained(w, c)
  BY <1>2, DrainedLeaves
<1>3. CASE v = Reset(w, c, "ABORT") \/ v = Reset(w, c, "CONN_RESET")
  BY <1>1, <1>3, LeavesReset
<1>4. CASE v = [w EXCEPT !.conn[c].list = "inactive"]
  <2>1. PICK x : x = [w.conn[c] EXCEPT !.list = "inactive"]
    OBVIOUS
  <2>2. x \in Records /\ x.fd = w.conn[c].fd /\ Alive(x)
    BY <1>1, <2>1 DEF Records, Alive
  <2>3. v = Put(w, c, x)
    BY <1>4, <2>1 DEF Put, IsWorld
  <2> QED BY <2>2, <2>3, LeavesAlive
<1> QED BY <1>2, <1>3, <1>4 DEF RtmpPump, Filled

(* The whole of a visit: the connection lives on, or has ended, or was     *)
(* dropped.                                                                *)
LEMMA VisitLeaves ==
    ASSUME NEW w, IsWorld(w), Sound(w), NEW c \in w.held, Alive(w.conn[c]),
           NEW v \in RtmpPump(w, c)
    PROVE  \E x \in Records :
              /\ DropOnError(v, c) = Put(w, c, x) /\ x.fd = w.conn[c].fd
              /\ Alive(x) \/ Ended(x) \/ Dropped(x)
<1>1. PICK x \in Records : v = Put(w, c, x) /\ x.fd = w.conn[c].fd /\ (Alive(x) \/ Ended(x))
  BY PumpLeaves DEF Leaves
<1>2. IsWorld(v) /\ v.held = w.held /\ v.conn[c] = x
  BY <1>1, PutIs, PutGets
<1>3. CASE DropOnError(v, c) = v
  BY <1>1, <1>3
<1>4. CASE v.conn[c].err /\ DropOnError(v, c) = [NbioDel(v, c) EXCEPT !.conn[c].lost = TRUE]
  <2>1. Alive(x)
    BY <1>1, <1>2, <1>4 DEF Ended
  <2>2. PICK d : d = NbioDel(v, c)
    OBVIOUS
  <2>3. d = Put(v, c, Deleted(x)) /\ Deleted(x) \in Records
    BY <1>2, <2>2, NbioDelPuts, ChangesTyped
  <2>4. IsWorld(d) /\ d.held = w.held /\ d.conn[c] = Deleted(x)
    BY <1>2, <2>3, PutIs, PutGets
  <2>5. PICK y : y = [Deleted(x) EXCEPT !.lost = TRUE]
    OBVIOUS
  <2>6. y \in Records
    BY <2>3, <2>5 DEF Records
  <2>7. DropOnError(v, c) = Put(d, c, y)
    BY <1>4, <2>2, <2>4, <2>5 DEF Put, IsWorld
  <2>8. Put(d, c, y) = Put(v, c, y)
    BY <1>2, <2>3, PutAgain
  <2>9. Put(v, c, y) = Put(w, c, y)
    BY <1>1, PutAgain
  <2>10. y.fd = x.fd /\ Dropped(y)
    BY <2>1, <2>5 DEF Alive, Dropped, Deleted, Records
  <2> QED BY <1>1, <2>6, <2>7, <2>8, <2>9, <2>10
<1> QED BY <1>3, <1>4 DEF DropOnError

-----------------------------------------------------------------------------
(* What is true of the whole program between two steps, and of a world     *)
(* that is being made, where one connection may be in any condition.       *)
Kept(x) == Alive(x) \/ Ended(x) \/ Dropped(x)

Owned(w) ==
    /\ w.open = {w.conn[c].fd : c \in w.held}
    /\ \A c, d \in w.held : w.conn[c].fd = w.conn[d].fd => c = d

Whole(w) == IsWorld(w) /\ PoolSound(w.pool, w.held) /\ Owned(w) /\ Sound(w)
AllBut(w, c) == \A d \in w.held \ {c} : Kept(w.conn[d])
WorldSound(w) == Whole(w) /\ \A d \in w.held : Kept(w.conn[d])

LEMMA PutWhole ==
    ASSUME NEW w, Whole(w), NEW c \in w.held, AllBut(w, c),
           NEW x \in Records, x.fd = w.conn[c].fd
    PROVE  /\ Whole(Put(w, c, x)) /\ AllBut(Put(w, c, x), c)
           /\ Kept(x) => WorldSound(Put(w, c, x))
<1>1. PICK v : v = Put(w, c, x)
  OBVIOUS
<1>2. /\ IsWorld(v) /\ v.pool = w.pool /\ v.held = w.held
      /\ v.open = w.open /\ v.fault = w.fault /\ v.conn[c] = x
  BY <1>1, PutIs, PutGets DEF Whole
<1>3. \A d \in w.held : d # c => v.conn[d] = w.conn[d]
  BY <1>1, PutElse DEF Whole
<1>4. \A d \in w.held : v.conn[d].fd = w.conn[d].fd
  BY <1>2, <1>3
<1>5. Owned(v)
  BY <1>2, <1>4 DEF Whole, Owned
<1>6. Whole(v)
  BY <1>2, <1>5 DEF Whole, Sound
<1>7. AllBut(v, c)
  BY <1>2, <1>3 DEF AllBut
<1> QED BY <1>1, <1>2, <1>6, <1>7 DEF WorldSound, AllBut

(* closesocket and hgang_return: of the connection nothing is left.        *)
LEMMA ReturnedSound ==
    ASSUME NEW w, Whole(w), NEW c \in w.held, AllBut(w, c)
    PROVE  /\ WorldSound(HgangReturn(SockClose(w, w.conn[c].fd), c))
           /\ HgangReturn(SockClose(w, w.conn[c].fd), c).pool = Return(w.pool, c)
           /\ HgangReturn(SockClose(w, w.conn[c].fd), c).held = w.held \ {c}
<1>1. PICK s : s = SockClose(w, w.conn[c].fd)
  OBVIOUS
<1>2. w.conn[c].fd \in w.open
  BY DEF Whole, Owned
<1>3. s = [pool |-> w.pool, held |-> w.held, conn |-> w.conn,
           open |-> w.open \ {w.conn[c].fd}, fault |-> w.fault]
  BY <1>1, <1>2 DEF SockClose, Whole, IsWorld
<1>4. PICK v : v = HgangReturn(s, c)
  OBVIOUS
<1>5. v = [pool |-> Return(w.pool, c), held |-> w.held \ {c},
           conn |-> [x \in w.held \ {c} |-> w.conn[x]],
           open |-> w.open \ {w.conn[c].fd}, fault |-> w.fault]
  BY <1>3, <1>4 DEF HgangReturn
<1>6. \A d \in v.held : d \in w.held /\ d # c /\ v.conn[d] = w.conn[d]
  BY <1>5
<1>7. IsWorld(v)
  BY <1>5 DEF Whole, IsWorld
<1>8. PoolSound(v.pool, v.held)
  <2>1. PoolSound(Return(w.pool, c), w.held \ {c})
    BY ReturnSound DEF Whole
  <2> QED BY <1>5, <2>1
<1>9. Owned(v)
  <2>1. v.open = w.open \ {w.conn[c].fd} /\ v.held = w.held \ {c}
    BY <1>5
  <2>2. \A d \in w.held : w.conn[d].fd = w.conn[c].fd => d = c
    BY DEF Whole, Owned
  <2>3. v.open = {v.conn[d].fd : d \in v.held}
    BY <1>6, <2>1, <2>2 DEF Whole, Owned
  <2> QED BY <1>6, <2>3 DEF Whole, Owned
<1>10. Sound(v)
  BY <1>5 DEF Whole, Sound
<1>11. \A d \in v.held : Kept(v.conn[d])
  BY <1>5, <1>6 DEF AllBut
<1> QED BY <1>1, <1>4, <1>5, <1>7, <1>8, <1>9, <1>10, <1>11 DEF Whole, WorldSound

FdsOf(S, f) == {f[d].fd : d \in S}

LEMMA SameFds ==
    ASSUME NEW S, NEW f, NEW g, \A d \in S : f[d] = g[d]
    PROVE  FdsOf(S, f) = FdsOf(S, g)
BY DEF FdsOf

LEMMA OneMoreFd ==
    ASSUME NEW S, NEW f, NEW a
    PROVE  FdsOf(S \cup {a}, f) = FdsOf(S, f) \cup {f[a].fd}
BY DEF FdsOf

(* accept and hgang_alloc0.                                                *)
LEMMA FreshIs ==
    ASSUME NEW fd \in Fds
    PROVE  Fresh(fd) \in Records /\ Live(Fresh(fd)) /\ Fresh(fd).fd = fd
BY DEF Fresh, Records, Live

LEMMA AcceptedWhole ==
    ASSUME NEW w, WorldSound(w), NEW fd \in Fds \ w.open, NEW a \in Alloc(w.pool), a.obj # Null,
           NEW h,
           h = [pool |-> a.pool, held |-> w.held \cup {a.obj},
                conn |-> [x \in w.held \cup {a.obj} |->
                            IF x = a.obj THEN Fresh(fd) ELSE w.conn[x]],
                open |-> w.open \cup {fd}, fault |-> w.fault]
    PROVE  /\ Whole(h) /\ AllBut(h, a.obj) /\ a.obj \in h.held
           /\ h.conn[a.obj] = Fresh(fd)
<1>1. /\ PoolSound(a.pool, w.held \cup {a.obj}) /\ a.obj \notin w.held
  <2>1. PoolSound(a.pool, w.held \cup ({a.obj} \ {Null})) /\ a.obj \notin w.held
    BY AllocSound DEF WorldSound, Whole
  <2>2. {a.obj} \ {Null} = {a.obj}
    OBVIOUS
  <2> QED BY <2>1, <2>2
<1>2. h.conn[a.obj] = Fresh(fd) /\ h.held = w.held \cup {a.obj} /\ h.open = w.open \cup {fd}
  OBVIOUS
<1>3. \A d \in w.held : h.conn[d] = w.conn[d]
  BY <1>1
<1>4. IsWorld(h)
  <2>1. Fresh(fd) \in Records
    BY FreshIs
  <2> QED BY <2>1 DEF IsWorld, WorldSound, Whole
<1>5. Owned(h)
  <2>1. \A d \in w.held : w.conn[d].fd # fd
    BY DEF WorldSound, Whole, Owned
  <2>2. h.conn[a.obj].fd = fd
    BY <1>2, FreshIs
  <2>3. h.open = {h.conn[d].fd : d \in h.held}
    <3>1. FdsOf(w.held, h.conn) = FdsOf(w.held, w.conn)
      BY <1>3, SameFds
    <3>2. FdsOf(h.held, h.conn) = FdsOf(w.held, h.conn) \cup {h.conn[a.obj].fd}
      <4>1. PICK S, b, f : S = w.held /\ b = a.obj /\ f = h.conn
        OBVIOUS
      <4>2. FdsOf(S \cup {b}, f) = FdsOf(S, f) \cup {f[b].fd}
        BY OneMoreFd
      <4>3. h.held = w.held \cup {a.obj}
        BY <1>2
      <4> QED BY <4>1, <4>2, <4>3
    <3>3. w.open = FdsOf(w.held, w.conn)
      BY DEF WorldSound, Whole, Owned, FdsOf
    <3>4. h.open = w.open \cup {fd}
      BY <1>2
    <3>5. h.open = FdsOf(h.held, h.conn)
      BY <2>2, <3>1, <3>2, <3>3, <3>4
    <3> QED BY <3>5 DEF FdsOf
  <2>4. ASSUME NEW d \in h.held, NEW e \in h.held, h.conn[d].fd = h.conn[e].fd
        PROVE  d = e
    <3>1. CASE d \in w.held /\ e \in w.held
      BY <1>3, <2>4, <3>1 DEF WorldSound, Whole, Owned
    <3>2. CASE d \in w.held /\ e = a.obj
      BY <1>3, <2>1, <2>2, <2>4, <3>2
    <3>3. CASE d = a.obj /\ e \in w.held
      BY <1>3, <2>1, <2>2, <2>4, <3>3
    <3> QED BY <1>2, <3>1, <3>2, <3>3
  <2> QED BY <2>3, <2>4 DEF Owned
<1>6. Whole(h)
  BY <1>1, <1>4, <1>5 DEF Whole, WorldSound, Sound
<1>7. AllBut(h, a.obj)
  BY <1>2, <1>3 DEF AllBut, WorldSound
<1> QED BY <1>2, <1>6, <1>7

-----------------------------------------------------------------------------
(* The inductive invariant.                                                *)
Inv == WorldSound(World) /\ phase \in {"scan", "reap"} /\ awake \in BOOLEAN

LEMMA WorldIs ==
    /\ World.pool = pool /\ World.held = held /\ World.conn = conn
    /\ World.open = open /\ World.fault = fault
BY DEF World

LEMMA Becomes ==
    ASSUME NEW v, IsWorld(v), Become(v)
    PROVE  World' = v
BY DEF World, Become, IsWorld

LEMMA InitSound == Init => Inv
<1> SUFFICES ASSUME Init PROVE Inv
  OBVIOUS
<1>1. PoolSound(pool, held)
  BY PoolInitSound DEF PoolInv, Init
<1>2. held = {} /\ conn = << >> /\ open = {} /\ fault = NoFault
      /\ phase = "scan" /\ awake = TRUE
  BY DEF Init, PoolInit
<1>3. IsWorld(World)
  BY <1>2 DEF IsWorld, World
<1>4. Owned(World)
  BY <1>2 DEF Owned, World
<1> QED BY <1>1, <1>2, <1>3, <1>4, WorldIs DEF Inv, WorldSound, Whole, Sound

(* An object that is the pool's again in the step that takes it.           *)
TakenBack ==
    \E a \in Alloc(pool) :
        a.obj # Null /\ pool' = Return(a.pool, a.obj) /\ held' = held

(* listen_cb: a connection is there, alive or already at its end, or the   *)
(* descriptor is closed again and the object is back.                      *)
LEMMA ListenStep ==
    ASSUME Inv, ListenCb
    PROVE  Inv' /\ (Take \/ TakenBack)
<1> DEFINE Opened(fd) == [World EXCEPT !.open = @ \cup {fd}]
           Given(fd, a) == [Opened(fd) EXCEPT !.pool = a.pool, !.held = @ \cup {a.obj},
                             !.conn = [x \in held \cup {a.obj} |->
                                         IF x = a.obj THEN Fresh(fd) ELSE conn[x]]]
           Done(fd, a, s, h) == IF a.obj = Null THEN Become(SockClose(s, fd))
                                ELSE \E w \in {Refused(h, a.obj, fd)} \cup Accepted(h, a.obj) : Become(w)
<1>0. PICK fd \in Fds \ open, a \in Alloc(pool) : Done(fd, a, Opened(fd), Given(fd, a))
  BY DEF ListenCb
<1>1. PICK s, h :
         /\ s = [World EXCEPT !.open = @ \cup {fd}]
         /\ h = [s EXCEPT !.pool = a.pool, !.held = @ \cup {a.obj},
                          !.conn = [x \in held \cup {a.obj} |->
                                      IF x = a.obj THEN Fresh(fd) ELSE conn[x]]]
         /\ IF a.obj = Null THEN Become(SockClose(s, fd))
            ELSE \E w \in {Refused(h, a.obj, fd)} \cup Accepted(h, a.obj) : Become(w)
  BY <1>0
<1> HIDE DEF Opened, Given, Done
<1>2. /\ WorldSound(World) /\ IsWorld(World) /\ phase' = phase /\ phase \in {"scan", "reap"}
      /\ awake' = awake /\ awake \in BOOLEAN
  BY DEF Inv, ListenCb, WorldSound, Whole
<1>3. SUFFICES WorldSound(World') /\ (Take \/ TakenBack)
  BY <1>2 DEF Inv
<1>4. s = [pool |-> pool, held |-> held, conn |-> conn, open |-> open \cup {fd}, fault |-> fault]
  BY <1>1 DEF World
<1>5. CASE a.obj = Null
  <2>1. SockClose(s, fd) = World
    <3>1. (open \cup {fd}) \ {fd} = open
      OBVIOUS
    <3> QED BY <1>4, <3>1 DEF SockClose, World
  <2>2. Become(World)
    BY <1>1, <1>5, <2>1
  <2>3. a.pool = pool /\ pool' = pool /\ held' = held
    BY <1>2, <1>5, <2>2, AllocSound, WorldIs DEF Become, WorldSound, Whole
  <2>4. Take
    BY <1>5, <2>3 DEF Take
  <2> QED BY <1>2, <2>2, <2>4, Becomes
<1>6. CASE a.obj # Null
  <2>1. PICK w \in {Refused(h, a.obj, fd)} \cup Accepted(h, a.obj) : Become(w)
    BY <1>1, <1>6
  <2>2. h = [pool |-> a.pool, held |-> held \cup {a.obj},
             conn |-> [x \in held \cup {a.obj} |-> IF x = a.obj THEN Fresh(fd) ELSE conn[x]],
             open |-> open \cup {fd}, fault |-> fault]
    <3>1. PICK f : f = [x \in held \cup {a.obj} |-> IF x = a.obj THEN Fresh(fd) ELSE conn[x]]
      OBVIOUS
    <3>2. h = [s EXCEPT !.pool = a.pool, !.held = @ \cup {a.obj}, !.conn = f]
      BY <1>1, <3>1
    <3>3. h = [pool |-> a.pool, held |-> held \cup {a.obj}, conn |-> f,
               open |-> open \cup {fd}, fault |-> fault]
      BY <1>4, <3>2
    <3> QED BY <3>1, <3>3
  <2>3. /\ Whole(h) /\ AllBut(h, a.obj) /\ a.obj \in h.held
        /\ h.conn[a.obj] = Fresh(fd) /\ IsWorld(h) /\ Sound(h)
    BY <1>2, <1>6, <2>2, AcceptedWhole, WorldIs DEF Whole
  <2>4. Fresh(fd) \in Records /\ Live(Fresh(fd)) /\ Fresh(fd).fd = fd
    BY FreshIs
  <2>9. h.pool = a.pool /\ h.held = held \cup {a.obj}
    BY <2>2
  <2>8. w.pool = a.pool /\ w.held = held \cup {a.obj} => Take
    BY <1>6, <2>1 DEF Take, Become
  <2>5. CASE w = Refused(h, a.obj, fd)
    <3>1. WorldSound(w) /\ w.pool = Return(h.pool, a.obj) /\ w.held = h.held \ {a.obj}
      BY <2>3, <2>4, <2>5, ReturnedSound DEF Refused
    <3>2. a.obj \notin held
      BY <1>2, AllocSound, WorldIs DEF WorldSound, Whole
    <3>3. pool' = Return(a.pool, a.obj) /\ held' = held
      BY <2>1, <2>2, <3>1, <3>2 DEF Become
    <3>4. TakenBack
      BY <1>6, <3>3 DEF TakenBack
    <3> QED BY <2>1, <3>1, <3>4, Becomes DEF WorldSound, Whole
  <2>6. CASE w = [h EXCEPT !.conn[a.obj].state = "HANDSHAKE_1"]
    <3>1. PICK x : x = [Fresh(fd) EXCEPT !.state = "HANDSHAKE_1"]
      OBVIOUS
    <3>2. x \in Records /\ x.fd = fd /\ Alive(x)
      <4>1. PICK f \in Records : f = Fresh(fd)
        BY <2>4
      <4>2. x \in Records /\ x.fd = fd
        BY <2>4, <3>1, <4>1 DEF Records
      <4>3. f.connected = 0 /\ f.list = "active" /\ Live(f)
        BY <2>4, <4>1 DEF Fresh
      <4>4. Alive(x)
        BY <3>1, <4>1, <4>3 DEF Records, Live, Alive
      <4> QED BY <4>2, <4>4
    <3>3. w = Put(h, a.obj, x)
      BY <2>3, <2>6, <3>1 DEF Put, IsWorld
    <3>4. WorldSound(w)
      BY <2>3, <2>4, <3>2, <3>3, PutWhole DEF Kept
    <3>5. w.pool = a.pool /\ w.held = held \cup {a.obj}
      BY <2>3, <2>9, <3>2, <3>3, PutIs
    <3> QED BY <2>1, <2>8, <3>4, <3>5, Becomes DEF WorldSound, Whole
  <2>7. CASE w = Reset(h, a.obj, "ABORT")
    <3>1. PICK x \in Records : w = Put(h, a.obj, x) /\ x.fd = fd /\ (Alive(x) \/ Ended(x))
      BY <2>3, <2>4, <2>7, LeavesReset DEF Leaves
    <3>2. WorldSound(w)
      BY <2>3, <2>4, <3>1, PutWhole DEF Kept
    <3>3. w.pool = a.pool /\ w.held = held \cup {a.obj}
      BY <2>3, <2>9, <3>1, PutIs
    <3> QED BY <2>1, <2>8, <3>2, <3>3, Becomes DEF WorldSound, Whole
  <2> QED BY <2>1, <2>5, <2>6, <2>7 DEF Accepted
<1> QED BY <1>5, <1>6

(* iop_read of a connection that is runnable and was not dropped, which    *)
(* only one that is alive can be.  Neither the pool nor who has its objects changes.              *)
LEMMA IopReadStep ==
    ASSUME Inv, NEW c \in held, IopRead(c)
    PROVE  Inv' /\ UNCHANGED poolVars
<1>1. /\ WorldSound(World) /\ Whole(World) /\ IsWorld(World) /\ Sound(World)
      /\ phase' = phase /\ phase \in {"scan", "reap"} /\ awake' = awake /\ awake \in BOOLEAN
      /\ conn[c].list = "active" /\ ~ conn[c].lost
  BY DEF Inv, IopRead, WorldSound, Whole
<1>2. PICK v \in RtmpPump(World, c) : Become(DropOnError(v, c))
  BY DEF IopRead
<1>3. Alive(conn[c])
  BY <1>1, WorldIs DEF WorldSound, Kept, Ended, Dropped
<1>4. PICK x \in Records : /\ DropOnError(v, c) = Put(World, c, x) /\ x.fd = conn[c].fd
                           /\ Alive(x) \/ Ended(x) \/ Dropped(x)
  BY <1>1, <1>2, <1>3, VisitLeaves, WorldIs
<1>5. AllBut(World, c)
  BY <1>1 DEF AllBut, WorldSound
<1>6. WorldSound(Put(World, c, x))
  BY <1>1, <1>4, <1>5, PutWhole, WorldIs DEF Kept
<1>7. World' = Put(World, c, x)
  BY <1>2, <1>4, <1>6, Becomes DEF WorldSound, Whole
<1>8. pool' = pool /\ held' = held
  <2>1. Put(World, c, x).pool = pool /\ Put(World, c, x).held = held
    BY <1>1, <1>4, PutIs, WorldIs
  <2> QED BY <1>2, <1>4, <2>1 DEF Become
<1> QED BY <1>1, <1>6, <1>7, <1>8 DEF Inv, poolVars

(* iop_dtor: one that has been closed goes back to the pool, one that was  *)
(* dropped stays.                                                          *)
LEMMA ReapStep ==
    ASSUME Inv, Reap
    PROVE  Inv' /\ (GiveBack \/ UNCHANGED poolVars)
<1>0. PICK c \in held : /\ conn[c].list = "deleted"
                        /\ Become(IopDtor([World EXCEPT !.conn[c].list = "none"], c))
  BY DEF Reap
<1>1. PICK t : /\ conn[c].list = "deleted" /\ Become(IopDtor(t, c))
               /\ t = [World EXCEPT !.conn[c].list = "none"]
  BY <1>0
<1>2. /\ WorldSound(World) /\ Whole(World) /\ IsWorld(World) /\ phase' = phase
      /\ phase \in {"scan", "reap"} /\ awake' = awake /\ awake \in BOOLEAN
  BY DEF Inv, Reap, WorldSound, Whole
<1>3. AllBut(World, c) /\ conn[c] \in Records /\ c \in World.held
  BY <1>2, WorldIs DEF AllBut, WorldSound, IsWorld
<1>4. PICK x : x = [conn[c] EXCEPT !.list = "none"]
  OBVIOUS
<1>5. x \in Records /\ x.fd = conn[c].fd /\ x.list = "none"
  BY <1>3, <1>4 DEF Records
<1>6. t = Put(World, c, x)
  BY <1>1, <1>2, <1>4, WorldIs DEF Put, IsWorld
<1>7. IsWorld(t) /\ t.held = held /\ t.conn[c] = x
  BY <1>2, <1>3, <1>5, <1>6, PutIs, PutGets, WorldIs
<1>8. PICK d : d = [t EXCEPT !.conn[c].conn_reset = TRUE]
  OBVIOUS
<1>9. PICK y : y = [x EXCEPT !.conn_reset = TRUE]
  OBVIOUS
<1>10. y \in Records /\ y.fd = conn[c].fd /\ y.list = "none"
  BY <1>5, <1>9 DEF Records
<1>11. d = Put(World, c, y)
  <2>1. d = Put(t, c, y)
    BY <1>7, <1>8, <1>9 DEF Put, IsWorld
  <2> QED BY <1>2, <1>3, <1>5, <1>6, <2>1, PutAgain
<1>12. /\ Whole(d) /\ AllBut(d, c) /\ d.pool = pool /\ d.held = held /\ d.conn[c] = y
       /\ Kept(y) => WorldSound(d)
  <2>1. /\ Whole(Put(World, c, y)) /\ AllBut(Put(World, c, y), c)
        /\ Kept(y) => WorldSound(Put(World, c, y))
    BY <1>2, <1>3, <1>10, PutWhole, WorldIs
  <2>2. Put(World, c, y).pool = pool /\ Put(World, c, y).held = held
    BY <1>2, <1>3, <1>10, PutIs, WorldIs
  <2>3. Put(World, c, y).conn[c] = y
    BY <1>2, <1>3, PutGets
  <2> QED BY <1>11, <2>1, <2>2, <2>3
<1>13. CASE t.conn[c].killed
  <2>1. PICK v : v = HgangReturn(SockClose(d, d.conn[c].fd), c)
    OBVIOUS
  <2>2. IopDtor(t, c) = v
    BY <1>8, <1>10, <1>12, <1>13, <2>1 DEF IopDtor, RtmpDtor
  <2>3. WorldSound(v) /\ v.pool = Return(pool, c) /\ v.held = held \ {c}
    BY <1>12, <2>1, ReturnedSound
  <2>4. Become(v)
    BY <1>1, <2>2
  <2>5. World' = v
    BY <2>3, <2>4, Becomes DEF WorldSound, Whole
  <2>6. pool' = Return(pool, c) /\ held' = held \ {c}
    BY <2>3, <2>4 DEF Become
  <2> QED BY <1>2, <2>3, <2>5, <2>6 DEF Inv, GiveBack
<1>14. CASE ~ t.conn[c].killed
  <2>1. IopDtor(t, c) = d
    BY <1>8, <1>14 DEF IopDtor
  <2>2. Dropped(conn[c])
    <3>1. ~ conn[c].killed
      BY <1>3, <1>4, <1>7, <1>14 DEF Records
    <3> QED BY <1>1, <1>2, <3>1, WorldIs DEF WorldSound, Kept, Alive, Ended
  <2>3. Dropped(y)
    BY <1>3, <1>4, <1>9, <2>2 DEF Dropped, Records
  <2>4. WorldSound(d)
    BY <1>12, <2>3 DEF Kept
  <2>5. Become(d)
    BY <1>1, <2>1
  <2>6. World' = d /\ pool' = pool /\ held' = held
    BY <1>12, <2>4, <2>5, Becomes DEF WorldSound, Whole, Become
  <2> QED BY <1>2, <2>4, <2>6 DEF Inv, poolVars
<1> QED BY <1>13, <1>14

(* The plugin wakes connections that are alive, and some that were dropped *)
(* and destroyed: they stay dropped.                                       *)
LEMMA PluginPumpStep ==
    ASSUME Inv, PluginPump
    PROVE  Inv'
<1>1. PICK S \in SUBSET {c \in held : Wakeable(conn[c])} :
       \E E \in SUBSET {c \in S : ~ conn[c].lost} :
         conn' = [c \in held |-> IF c \notin S THEN conn[c]
                    ELSE [conn[c] EXCEPT !.list = "active", !.err = c \in E]]
  BY DEF PluginPump
<1>2. PICK E \in SUBSET {c \in S : ~ conn[c].lost} :
         conn' = [c \in held |-> IF c \notin S THEN conn[c]
                    ELSE [conn[c] EXCEPT !.list = "active", !.err = c \in E]]
  BY <1>1
<1>3. /\ pool' = pool /\ held' = held /\ open' = open /\ fault' = fault
      /\ phase' = "scan" /\ awake' \in BOOLEAN
      /\ conn \in [held -> Records] /\ WorldSound(World)
  BY WorldIs DEF PluginPump, poolVars, Inv, WorldSound, Whole, IsWorld
<1>4. ASSUME NEW c \in held
      PROVE  conn'[c] \in Records /\ conn'[c].fd = conn[c].fd /\ Kept(conn'[c])
  <2>1. Kept(conn[c]) /\ conn[c] \in Records
    BY <1>3, WorldIs DEF WorldSound
  <2>2. CASE c \notin S
    BY <1>2, <2>1, <2>2
  <2>3. CASE c \in S
    <3>0. conn'[c] = [conn[c] EXCEPT !.list = "active", !.err = c \in E]
      <4>1. \A d \in held : d \in S =>
              conn'[d] = [conn[d] EXCEPT !.list = "active", !.err = d \in E]
        BY <1>2
      <4> QED BY <2>3, <4>1
    <3>1. PICK e, x : e = (c \in E) /\ x = conn'[c]
      OBVIOUS
    <3>4. e \in BOOLEAN /\ x = [conn[c] EXCEPT !.list = "active", !.err = e]
      BY <3>0, <3>1
    <3>2. CASE ~ conn[c].lost
      <4>1. Alive(conn[c])
        BY <2>1, <2>3, <3>2 DEF Kept, Ended, Dropped, Wakeable
      <4>2. x \in Records /\ x.fd = conn[c].fd /\ Alive(x)
        BY <2>1, <3>4, <4>1 DEF Records, Alive
      <4> QED BY <3>1, <4>2 DEF Kept
    <3>3. CASE conn[c].lost
      <4>1. Dropped(conn[c])
        BY <2>1, <3>3 DEF Kept, Alive, Ended
      <4>2. c \notin E
        BY <3>3
      <4>3. e = FALSE
        <5>1. ~ e
          BY <3>1, <4>2, Zenon
        <5> QED BY <3>4, <5>1
      <4>4. x \in Records /\ x.fd = conn[c].fd /\ Dropped(x)
        BY <2>1, <3>4, <4>1, <4>3 DEF Records, Dropped
      <4> QED BY <3>1, <4>4 DEF Kept
    <3> QED BY <3>2, <3>3
  <2> QED BY <2>2, <2>3
<1>5. PICK v : v = World'
  OBVIOUS
<1>6. v = [pool |-> pool, held |-> held, conn |-> conn', open |-> open, fault |-> fault]
  BY <1>3, <1>5 DEF World
<1>7. IsWorld(v)
  <2>1. conn' \in [held -> Records]
    BY <1>2, <1>4
  <2> QED BY <1>6, <2>1 DEF IsWorld
<1>8. Owned(v)
  BY <1>3, <1>4, <1>6, WorldIs DEF WorldSound, Whole, Owned
<1>9. Whole(v)
  BY <1>3, <1>6, <1>7, <1>8, WorldIs DEF WorldSound, Whole, Sound
<1>10. WorldSound(v)
  BY <1>4, <1>6, <1>9 DEF WorldSound
<1> QED BY <1>3, <1>5, <1>10 DEF Inv

LEMMA EndScanStep ==
    ASSUME Inv, EndScan
    PROVE  Inv' /\ UNCHANGED poolVars
<1>1. World' = World /\ phase' = "reap" /\ awake' = awake /\ UNCHANGED poolVars
  BY DEF EndScan, World, poolVars
<1> QED BY <1>1 DEF Inv

LEMMA ListenSleepStep ==
    ASSUME Inv, ListenSleep
    PROVE  Inv' /\ UNCHANGED poolVars
<1>1. World' = World /\ phase' = phase /\ awake' = FALSE /\ UNCHANGED poolVars
  BY DEF ListenSleep, World, poolVars
<1> QED BY <1>1 DEF Inv

-----------------------------------------------------------------------------
(* Every step keeps the invariant, and does to the pool what the pool      *)
(* allows its user, or takes an object and gives it back at once.          *)
LEMMA StepSound ==
    Inv /\ [Next]_vars => Inv' /\ (Take \/ GiveBack \/ TakenBack \/ UNCHANGED poolVars)
<1> SUFFICES ASSUME Inv, [Next]_vars
             PROVE  Inv' /\ (Take \/ GiveBack \/ TakenBack \/ UNCHANGED poolVars)
  OBVIOUS
<1>1. CASE ListenCb
  BY <1>1, ListenStep
<1>2. CASE IopReadSome
  BY <1>2, IopReadStep DEF IopReadSome
<1>3. CASE EndScan
  BY <1>3, EndScanStep
<1>4. CASE Reap
  BY <1>4, ReapStep
<1>5. CASE PluginPump
  <2>1. UNCHANGED poolVars
    BY <1>5 DEF PluginPump
  <2> QED BY <1>5, <2>1, PluginPumpStep
<1>7. CASE ListenSleep
  BY <1>7, ListenSleepStep
<1>6. CASE UNCHANGED vars
  <2>1. World' = World /\ phase' = phase /\ awake' = awake /\ UNCHANGED poolVars
    BY <1>6 DEF vars, World, poolVars
  <2> QED BY <2>1 DEF Inv
<1> QED BY <1>1, <1>2, <1>3, <1>4, <1>5, <1>6, <1>7 DEF Next

LEMMA ServerInvariant == Spec => []Inv
<1>1. Inv /\ [Next]_vars => Inv'
  BY StepSound
<1> QED BY <1>1, InitSound, PTL DEF Spec

LEMMA InvGives ==
    Inv => /\ PoolSound(pool, held) /\ conn \in [held -> Records]
           /\ \A c \in held : Kept(conn[c])
           /\ fault = NoFault /\ phase \in {"scan", "reap"} /\ awake \in BOOLEAN
           /\ DescriptorsOwned
<1> SUFFICES ASSUME Inv
             PROVE  /\ PoolSound(pool, held) /\ conn \in [held -> Records]
                    /\ \A c \in held : Kept(conn[c])
                    /\ fault = NoFault /\ phase \in {"scan", "reap"} /\ awake \in BOOLEAN
                    /\ DescriptorsOwned
  OBVIOUS
<1>1. WorldSound(World) /\ phase \in {"scan", "reap"} /\ awake \in BOOLEAN
  BY DEF Inv
<1>2. Owned(World) /\ IsWorld(World) /\ Sound(World) /\ PoolSound(pool, held)
  BY <1>1, WorldIs DEF WorldSound, Whole
<1>3. DescriptorsOwned
  BY <1>2, WorldIs DEF Owned, DescriptorsOwned
<1> QED BY <1>1, <1>2, <1>3, WorldIs DEF WorldSound, IsWorld, Sound

LEMMA KeptTyped ==
    ASSUME NEW x \in Records, Kept(x)
    PROVE  x \in Conns
<1>1. x.state \in {"ABORT", "CONN_RESET", "HANDSHAKE_1", "HANDSHAKE_2", "READY"}
  BY DEF Kept, Alive, Ended, Dropped
<1> QED BY <1>1 DEF Records, Conns

(* The server's connections and its pool keep their types: a connection    *)
(* that is still in its first state is seen by no one (rtmpd.c:613).       *)
THEOREM ServerTyped == Spec => []TypeOK
<1>1. Inv => TypeOK
  <2> SUFFICES ASSUME Inv PROVE TypeOK
    OBVIOUS
  <2>1. /\ PoolSound(pool, held) /\ conn \in [held -> Records]
        /\ \A c \in held : Kept(conn[c]) /\ conn[c] \in Conns
        /\ phase \in {"scan", "reap"} /\ awake \in BOOLEAN /\ DescriptorsOwned
    BY InvGives, KeptTyped
  <2>2. PoolTypeOK
    BY <2>1, SoundTyped
  <2>3. \A c \in held : conn[c].fd \in Fds
    BY <2>1 DEF Records
  <2>4. open \subseteq Fds
    BY <2>1, <2>3 DEF DescriptorsOwned
  <2>5. conn \in [held -> Conns]
    BY <2>1
  <2> QED BY <2>1, <2>2, <2>4, <2>5 DEF TypeOK
<1> QED BY <1>1, ServerInvariant, PTL

(* No connection is touched after its memory is the pool's again, although *)
(* transition() goes on to use the one that the program closed in its      *)
(* callback (rtmpd.c:390-394).                                             *)
THEOREM NothingUsedAfterReturn == Spec => []NeverUsedAfterReturn
<1>1. Inv => NeverUsedAfterReturn
  BY InvGives DEF NeverUsedAfterReturn
<1> QED BY <1>1, ServerInvariant, PTL

(* Every connection has an open descriptor of its own, and every open      *)
(* descriptor a connection (rtmpd.c:571, 613, 624).                        *)
THEOREM DescriptorsAreOwned == Spec => []DescriptorsOwned
<1>1. Inv => DescriptorsOwned
  BY InvGives
<1> QED BY <1>1, ServerInvariant, PTL

(* The only connections that stay behind are those the event loop took     *)
(* away after an error, and the program was never told of their end        *)
(* (nbio.c:151).                                                           *)
THEOREM LeaksOnlyErrors == Spec => []OnlyErrorsLeak
<1>1. Inv => OnlyErrorsLeak
  <2> SUFFICES ASSUME Inv, NEW c \in held, conn[c].list = "none"
               PROVE  conn[c].lost /\ conn[c].resets = 0
    BY DEF OnlyErrorsLeak
  <2>1. Kept(conn[c])
    BY InvGives
  <2> QED BY <2>1 DEF Kept, Alive, Ended, Dropped
<1> QED BY <1>1, ServerInvariant, PTL

(* The program is told of a start at most once and of an end at most once  *)
(* (rtmpd.c:391, 432).                                                     *)
THEOREM ToldOnceOnly == Spec => []ToldOnce
<1>1. Inv => ToldOnce
  <2> SUFFICES ASSUME Inv, NEW c \in held
               PROVE  conn[c].connected <= 1 /\ conn[c].resets <= 1
    BY DEF ToldOnce
  <2>1. Kept(conn[c]) /\ conn[c] \in Records
    BY InvGives
  <2> QED BY <2>1 DEF Kept, Alive, Ended, Dropped
<1> QED BY <1>1, ServerInvariant, PTL

(* The free list stays the list of what the server returned (hgang.c:161,  *)
(* 219).                                                                   *)
THEOREM ServerListSound == Spec => []FreeListSound
<1>1. Inv => FreeListSound
  BY InvGives DEF PoolSound, Spelled, FreeListSound
<1> QED BY <1>1, ServerInvariant, PTL

(* No two connections share memory, whatever the sizes (hgang.c:61, 94,    *)
(* 138, 170).                                                              *)
THEOREM ServerObjectsApart == Spec => []ObjectsApart
<1>1. Inv => ObjectsApart
  BY InvGives DEF PoolSound, Laid, ObjectsApart, Objs, Made
<1> QED BY <1>1, ServerInvariant, PTL

-----------------------------------------------------------------------------
(* An object that is taken and given back at once was spare before and is  *)
(* spare again, or is the only spare one.                                  *)
LEMMA TakenBackImplements ==
    ASSUME PoolSound(pool, held), TakenBack
    PROVE  [Abstract!Next]_<<held, Spare>>
<1>1. PICK a \in Alloc(pool) : a.obj # Null /\ pool' = Return(a.pool, a.obj) /\ held' = held
  BY DEF TakenBack
<1>2. Spare = SpareOf(pool) /\ Spare' = SpareOf(pool')
  BY DEF Spare, SpareOf
<1>3. PoolSound(a.pool, held \cup {a.obj}) /\ a.obj \in held \cup {a.obj}
  <2>1. PoolSound(a.pool, held \cup ({a.obj} \ {Null}))
    BY <1>1, AllocSound
  <2>2. {a.obj} \ {Null} = {a.obj}
    BY <1>1
  <2> QED BY <2>1, <2>2
<1>4. Spare' = SpareOf(a.pool) \cup {a.obj}
  BY <1>1, <1>2, <1>3, ReturnSpare
<1>5. CASE pool.free # Null
  <2>1. a = Pop(pool)
    BY <1>1, <1>5 DEF Alloc
  <2>2. a.obj \in Spare /\ SpareOf(a.pool) = Spare \ {a.obj}
    BY <1>2, <1>5, <2>1, PopSpare
  <2>3. Spare' = Spare
    BY <1>4, <2>2
  <2> QED BY <1>1, <2>3
<1>6. CASE pool.free = Null
  <2>1. a.obj \notin Objs(pool) /\ a.pool.chain = pool.chain
    BY <1>1, <1>6, NewObject
  <2>2. SpareOf(pool) = {}
    BY <1>6, EmptyChain
  <2>3. SpareOf(a.pool) = {}
    BY <2>1, <2>2 DEF SpareOf
  <2>4. Spare = {} /\ Spare' = {a.obj}
    BY <1>2, <1>4, <2>2, <2>3
  <2>5. a.obj \in Objs(a.pool) /\ held \subseteq Objs(a.pool)
    BY <1>3 DEF PoolSound, IsPool
  <2>6. a.obj \in Nat \X Nat
    <3>1. Objs(a.pool) \subseteq (1..a.pool.slabs) \X Nat
      BY <1>3 DEF PoolSound, IsPool
    <3> QED BY <2>5, <3>1
  <2>7. \A b \in held : a.obj # b
    BY <2>1 DEF PoolSound, IsPool
  <2>8. \A b \in held : Abstract!Apart(a.obj, b)
    BY <1>3, <2>5, <2>7 DEF PoolSound, Laid, Apart, Abstract!Apart
  <2> QED BY <1>1, <2>4, <2>6, <2>8 DEF Abstract!Next, Abstract!ExtendSpare, Abstract!Memory
<1> QED BY <1>5, <1>6

(* The pool implements Pool under this user, too, who gives some objects   *)
(* back in the step that takes them (hgang.c:158-170, 216).                *)
THEOREM ServerImplementsPool == Spec => ImplementsPool
<1>1. Init => Abstract!Init
  <2> SUFFICES ASSUME Init PROVE held = {} /\ Spare = {}
    BY DEF Abstract!Init
  <2>1. pool.chain = << >> /\ held = {}
    BY DEF Init, PoolInit, Empty
  <2>2. 1..Len(pool.chain) = {}
    BY <2>1
  <2> QED BY <2>1, <2>2 DEF Spare
<1>2. Inv /\ [Next]_vars => [Abstract!Next]_<<held, Spare>>
  <2> SUFFICES ASSUME Inv, [Next]_vars PROVE [Abstract!Next]_<<held, Spare>>
    OBVIOUS
  <2>1. PoolSound(pool, held) /\ (Take \/ GiveBack \/ TakenBack \/ UNCHANGED poolVars)
    BY InvGives, StepSound
  <2>2. CASE UNCHANGED poolVars
    BY <2>2 DEF poolVars, Spare
  <2> QED BY <2>1, <2>2, TakeImplements, GiveBackImplements, TakenBackImplements
<1> QED BY <1>1, <1>2, ServerInvariant, PTL DEF Spec, ImplementsPool, Abstract!Spec, Abstract!vars
=============================================================================
