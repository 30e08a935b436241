------------------------- MODULE MayhemClientProofs -------------------------
(* Proofs about one client connection.  A call leaves a world behind, and  *)
(* calls are made of calls: of each operator of MayhemClient a lemma says  *)
(* in which worlds it may be called and in which it returns.  The          *)
(* properties say little of a connection that was closed; the invariant    *)
(* that carries them ties what mayhem.c still points to with what the io   *)
(* waits for and how far the handshake has come.                           *)
EXTENDS MayhemClient, TLAPS

RSet ==
    [mem : {"live", "freed"},
     state : {"ABORT", "CONN_RESET", "HANDSHAKE_1", "HANDSHAKE_2"},
     killed : BOOLEAN, conn_reset : BOOLEAN,
     list : {"none", "active", "inactive", "deleted"},
     mask : {"READ", "WRITE", "DELETED"}, err : BOOLEAN, due : BOOLEAN]

MSet == [rtmp : BOOLEAN, ns : BOOLEAN, premium : BOOLEAN]

NSet ==
    [mem : {"none", "live", "freed"},
     state : {"INIT", "CONNECT_SENT", "CONNECTED", "CREATE_SENT", "CREATED",
              "PLAY_SENT", "PLAYING", "STOPPED", "RESET"}]

Faults == {NoFault} \cup NullFaults \cup MemoryFaults

SSet ==
    [told : 0 .. 2, met : 0 .. 2, fault : Faults,
     astray : {"none", "refused", "unsent", "dropped"}, misreported : BOOLEAN]

(* A world, put together from its parts.                                   *)
Mk(a, b, c, d, e) == [r |-> a, m |-> b, ns |-> c, seen |-> d, ret |-> e]

IsWorld(w) ==
    /\ w = Mk(w.r, w.m, w.ns, w.seen, w.ret)
    /\ w.r \in RSet /\ w.m \in MSet /\ w.ns \in NSet /\ w.seen \in SSet
    /\ w.ret \in BOOLEAN

LEMMA MkIs ==
    ASSUME NEW a \in RSet, NEW b \in MSet, NEW c \in NSet, NEW d \in SSet, NEW e \in BOOLEAN
    PROVE  /\ IsWorld(Mk(a, b, c, d, e))
           /\ Mk(a, b, c, d, e).r = a /\ Mk(a, b, c, d, e).m = b
           /\ Mk(a, b, c, d, e).ns = c /\ Mk(a, b, c, d, e).seen = d
           /\ Mk(a, b, c, d, e).ret = e
BY DEF IsWorld, Mk

(* What the single assignments do to a world.                              *)
DelR(x) == [x EXCEPT !.list = "deleted", !.mask = "DELETED", !.err = FALSE]

LEMMA DelRIs ==
    ASSUME NEW x \in RSet
    PROVE  /\ DelR(x) \in RSet /\ DelR(x).list = "deleted" /\ DelR(x).mask = "DELETED"
           /\ ~ DelR(x).err
           /\ DelR(x).mem = x.mem /\ DelR(x).state = x.state /\ DelR(x).killed = x.killed
           /\ DelR(x).conn_reset = x.conn_reset /\ DelR(x).due = x.due
BY DEF RSet, DelR

LEMMA NbioDelIs ==
    ASSUME NEW w, IsWorld(w)
    PROVE  NbioDel(w) = Mk(DelR(w.r), w.m, w.ns, w.seen, w.ret)
<1>1. w = Mk(w.r, w.m, w.ns, w.seen, w.ret)
  BY DEF IsWorld
<1>2. PICK x : x = [w EXCEPT !.r.list = "deleted"]
  OBVIOUS
<1>3. PICK y : y = [x EXCEPT !.r.mask = "DELETED"]
  OBVIOUS
<1>4. x = Mk([w.r EXCEPT !.list = "deleted"], w.m, w.ns, w.seen, w.ret)
  BY <1>1, <1>2 DEF Mk
<1>5. y = Mk([w.r EXCEPT !.list = "deleted", !.mask = "DELETED"], w.m, w.ns, w.seen, w.ret)
  BY <1>3, <1>4 DEF Mk
<1>6. NbioDel(w) = [y EXCEPT !.r.err = FALSE]
  BY <1>2, <1>3 DEF NbioDel
<1>7. [y EXCEPT !.r.err = FALSE] = Mk(DelR(w.r), w.m, w.ns, w.seen, w.ret)
  BY <1>5 DEF DelR, Mk
<1> QED BY <1>6, <1>7

LEMMA FaultIs ==
    ASSUME NEW w, IsWorld(w), NEW what \in NullFaults \cup MemoryFaults
    PROVE  /\ IsWorld(Fault(w, what))
           /\ Fault(w, what).r = w.r /\ Fault(w, what).m = w.m /\ Fault(w, what).ns = w.ns
           /\ Fault(w, what).ret = w.ret
           /\ ~ Sound(Fault(w, what))
           /\ Fault(w, what).seen.fault = IF Sound(w) THEN what ELSE w.seen.fault
           /\ Fault(w, what).seen.told = w.seen.told /\ Fault(w, what).seen.met = w.seen.met
           /\ Fault(w, what).seen.astray = w.seen.astray
<1>1. CASE ~ Sound(w)
  BY <1>1 DEF Fault
<1>2. CASE Sound(w)
  <2>1. PICK s : s = [w.seen EXCEPT !.fault = what]
    OBVIOUS
  <2>2. /\ s \in SSet /\ s.fault = what /\ s.told = w.seen.told /\ s.met = w.seen.met
        /\ s.astray = w.seen.astray
    BY <2>1 DEF IsWorld, SSet, Faults
  <2>3. Fault(w, what) = Mk(w.r, w.m, w.ns, s, w.ret)
    BY <1>2, <2>1 DEF Fault, IsWorld, Mk
  <2>4. what # NoFault
    BY DEF NullFaults, MemoryFaults, NoFault
  <2>5. PICK v : v = Fault(w, what)
    OBVIOUS
  <2>6. IsWorld(v) /\ v.r = w.r /\ v.m = w.m /\ v.ns = w.ns /\ v.ret = w.ret /\ v.seen = s
    <3>1. w.r \in RSet /\ w.m \in MSet /\ w.ns \in NSet /\ w.ret \in BOOLEAN
      BY DEF IsWorld
    <3> QED BY <2>2, <2>3, <2>5, <3>1, MkIs
  <2>7. ~ Sound(v)
    BY <2>2, <2>4, <2>6 DEF Sound
  <2> QED BY <1>2, <2>2, <2>5, <2>6, <2>7
<1> QED BY <1>1, <1>2

(* The same of a world that an action or a handler leaves.                 *)
LEMMA FaultGives ==
    ASSUME NEW w, IsWorld(w), NEW what, what \in NullFaults \cup MemoryFaults,
           NEW v, v = Fault(w, what)
    PROVE  /\ IsWorld(v) /\ v.r = w.r /\ v.m = w.m /\ v.ns = w.ns /\ v.ret = w.ret
           /\ ~ Sound(v)
           /\ v.seen.fault = w.seen.fault \/ Sound(w)
           /\ v.seen.told = w.seen.told /\ v.seen.met = w.seen.met
           /\ v.seen.astray = w.seen.astray
<1>1. /\ IsWorld(Fault(w, what))
      /\ Fault(w, what).r = w.r /\ Fault(w, what).m = w.m /\ Fault(w, what).ns = w.ns
      /\ Fault(w, what).ret = w.ret
      /\ ~ Sound(Fault(w, what))
      /\ Fault(w, what).seen.fault = IF Sound(w) THEN what ELSE w.seen.fault
      /\ Fault(w, what).seen.told = w.seen.told /\ Fault(w, what).seen.met = w.seen.met
      /\ Fault(w, what).seen.astray = w.seen.astray
  BY FaultIs
<1> QED BY <1>1

-----------------------------------------------------------------------------
(* Closing down.                                                           *)
LEMMA RtmpDtorIs ==
    ASSUME NEW w, IsWorld(w), NEW v, v = RtmpDtor(w)
    PROVE  /\ IsWorld(v) /\ v.m = w.m /\ v.ns = w.ns /\ v.ret = w.ret
           /\ v.r.mem = "freed" /\ v.r.state = w.r.state /\ v.r.killed = w.r.killed
           /\ v.r.list = w.r.list /\ v.r.mask = w.r.mask
           /\ v.seen.told = w.seen.told /\ v.seen.met = w.seen.met
           /\ v.seen.astray = w.seen.astray
           /\ v.seen.fault = w.seen.fault \/ (Sound(w) /\ w.r.list # "none")
           /\ Sound(v) => Sound(w)
<1>1. PICK f, x : f = [w EXCEPT !.r.mem = "freed"] /\ x = [w.r EXCEPT !.mem = "freed"]
  OBVIOUS
<1>2. f = Mk(x, w.m, w.ns, w.seen, w.ret)
  BY <1>1 DEF IsWorld, Mk
<1>3. /\ x \in RSet /\ x.mem = "freed" /\ x.state = w.r.state /\ x.killed = w.r.killed
      /\ x.list = w.r.list /\ x.mask = w.r.mask
  BY <1>1 DEF IsWorld, RSet
<1>4. w.m \in MSet /\ w.ns \in NSet /\ w.seen \in SSet /\ w.ret \in BOOLEAN
  BY DEF IsWorld
<1>5. IsWorld(f) /\ f.r = x /\ f.m = w.m /\ f.ns = w.ns /\ f.seen = w.seen /\ f.ret = w.ret
  BY <1>2, <1>3, <1>4, MkIs
<1>6. CASE w.r.list = "none"
  <2>1. v = f
    BY <1>1, <1>3, <1>5, <1>6 DEF RtmpDtor
  <2>2. IsWorld(v) /\ v.r = x /\ v.m = w.m /\ v.ns = w.ns /\ v.seen = w.seen /\ v.ret = w.ret
    BY <1>5, <2>1
  <2>3. Sound(v) => Sound(w)
    BY <2>2 DEF Sound
  <2>4. /\ v.r.mem = "freed" /\ v.r.state = w.r.state /\ v.r.killed = w.r.killed
        /\ v.r.list = w.r.list /\ v.r.mask = w.r.mask
    BY <1>3, <2>2
  <2>5. /\ v.seen.told = w.seen.told /\ v.seen.met = w.seen.met
        /\ v.seen.astray = w.seen.astray /\ v.seen.fault = w.seen.fault
    BY <2>2
  <2> QED BY <2>2, <2>3, <2>4, <2>5
<1>7. CASE w.r.list # "none"
  <2>1. v = Fault(f, "freed on a list")
    BY <1>1, <1>3, <1>5, <1>7 DEF RtmpDtor
  <2>2. "freed on a list" \in NullFaults \cup MemoryFaults
    BY DEF MemoryFaults
  <2>6. /\ IsWorld(v) /\ v.r = f.r /\ v.m = f.m /\ v.ns = f.ns /\ v.ret = f.ret
        /\ ~ Sound(v)
        /\ v.seen.fault = f.seen.fault \/ Sound(f)
        /\ v.seen.told = f.seen.told /\ v.seen.met = f.seen.met
        /\ v.seen.astray = f.seen.astray
    <3>1. PICK what : what = "freed on a list"
      OBVIOUS
    <3>2. what \in NullFaults \cup MemoryFaults /\ v = Fault(f, what) /\ IsWorld(f)
      BY <1>5, <2>1, <2>2, <3>1
    <3> QED BY <3>2, FaultGives
  <2>3. /\ IsWorld(v) /\ v.r = x /\ v.m = w.m /\ v.ns = w.ns /\ v.ret = w.ret
        /\ ~ Sound(v)
    BY <1>5, <2>6
  <2>4. /\ v.seen.fault = w.seen.fault \/ Sound(f)
        /\ v.seen.told = w.seen.told /\ v.seen.met = w.seen.met
        /\ v.seen.astray = w.seen.astray
    BY <1>5, <2>6
  <2>5. Sound(f) <=> Sound(w)
    BY <1>5 DEF Sound
  <2> QED BY <1>3, <1>7, <2>3, <2>4, <2>5
<1> QED BY <1>6, <1>7

LEMMA RtmpCloseIs ==
    ASSUME NEW w, IsWorld(w), NEW v, v = RtmpClose(w)
    PROVE  /\ IsWorld(v) /\ v.m = w.m /\ v.ns = w.ns /\ v.ret = w.ret
           /\ v.r.state = w.r.state /\ v.r.mask \in {w.r.mask, "DELETED"}
           /\ v.seen.told = w.seen.told /\ v.seen.met = w.seen.met
           /\ v.seen.astray = w.seen.astray
           /\ \/ v.seen.fault = w.seen.fault
              \/ Sound(w) /\ w.m.rtmp /\ (w.r.mem = "freed" \/ w.r.conn_reset)
           /\ Sound(v) => Sound(w)
           /\ w.r.killed => v.r.killed
           /\ w.m.rtmp => v.r.killed \/ w.r.mem = "freed"
           /\ v.r.mem = "freed" => w.r.mem = "freed" \/ v.r.killed
           /\ v.r.list \in {w.r.list, "deleted"}
           /\ ~ w.m.rtmp => v = w
           /\ w.m.rtmp /\ w.r.mem # "freed" /\ ~ w.r.conn_reset =>
                v.r.mem = w.r.mem /\ v.r.mask = "DELETED" /\ v.r.list = "deleted"
<1>1. CASE ~ w.m.rtmp
  BY <1>1 DEF RtmpClose
<1>2. CASE w.m.rtmp /\ w.r.mem = "freed"
  <2>1. v = Fault(w, "closed twice")
    BY <1>2 DEF RtmpClose
  <2>2. "closed twice" \in NullFaults \cup MemoryFaults
    BY DEF MemoryFaults
  <2>3. /\ IsWorld(v) /\ v.r = w.r /\ v.m = w.m /\ v.ns = w.ns /\ v.ret = w.ret
        /\ ~ Sound(v)
        /\ v.seen.fault = w.seen.fault \/ Sound(w)
        /\ v.seen.told = w.seen.told /\ v.seen.met = w.seen.met
        /\ v.seen.astray = w.seen.astray
    <3>1. PICK what : what = "closed twice"
      OBVIOUS
    <3>2. what \in NullFaults \cup MemoryFaults /\ v = Fault(w, what)
      BY <2>1, <2>2, <3>1
    <3> QED BY <3>2, FaultGives
  <2> QED BY <1>2, <2>3
<1>3. CASE w.m.rtmp /\ w.r.mem # "freed"
  <2>1. PICK k, x : k = [w EXCEPT !.r.killed = TRUE] /\ x = [w.r EXCEPT !.killed = TRUE]
    OBVIOUS
  <2>2. k = Mk(x, w.m, w.ns, w.seen, w.ret)
    BY <2>1 DEF IsWorld, Mk
  <2>3. /\ x \in RSet /\ x.mem = w.r.mem /\ x.state = w.r.state /\ x.killed
        /\ x.list = w.r.list /\ x.mask = w.r.mask
    BY <2>1 DEF IsWorld, RSet
  <2>4. w.m \in MSet /\ w.ns \in NSet /\ w.seen \in SSet /\ w.ret \in BOOLEAN
    BY DEF IsWorld
  <2>5. IsWorld(k) /\ k.r = x /\ k.m = w.m /\ k.ns = w.ns /\ k.seen = w.seen /\ k.ret = w.ret
    BY <2>2, <2>3, <2>4, MkIs
  <2>6. Sound(k) <=> Sound(w)
    BY <2>5 DEF Sound
  <2>7. CASE w.r.conn_reset
    <3>1. v = RtmpDtor(k)
      BY <1>3, <2>1, <2>7 DEF RtmpClose
    <3>2. /\ IsWorld(v) /\ v.m = w.m /\ v.ns = w.ns /\ v.ret = w.ret
          /\ v.r.state = w.r.state /\ v.r.killed /\ v.r.list = w.r.list /\ v.r.mask = w.r.mask
      BY <2>3, <2>5, <3>1, RtmpDtorIs
    <3>3. /\ v.seen.told = w.seen.told /\ v.seen.met = w.seen.met
          /\ v.seen.astray = w.seen.astray
          /\ v.seen.fault = w.seen.fault \/ Sound(w)
          /\ Sound(v) => Sound(w)
      BY <2>5, <2>6, <3>1, RtmpDtorIs
    <3> QED BY <1>3, <2>7, <3>2, <3>3
  <2>8. CASE ~ w.r.conn_reset
    <3>1. v = NbioDel(k)
      BY <1>3, <2>1, <2>8 DEF RtmpClose
    <3>2. v = Mk(DelR(x), w.m, w.ns, w.seen, w.ret)
      BY <2>5, <3>1, NbioDelIs
    <3>3. /\ DelR(x) \in RSet /\ DelR(x).list = "deleted" /\ DelR(x).mask = "DELETED"
          /\ DelR(x).mem = w.r.mem /\ DelR(x).state = w.r.state /\ DelR(x).killed
      BY <2>3, DelRIs
    <3>4. IsWorld(v) /\ v.r = DelR(x) /\ v.m = w.m /\ v.ns = w.ns /\ v.seen = w.seen /\ v.ret = w.ret
      BY <2>4, <3>2, <3>3, MkIs
    <3> QED BY <1>3, <2>8, <3>3, <3>4 DEF Sound
  <2> QED BY <2>7, <2>8
<1> QED BY <1>1, <1>2, <1>3

LEMMA NetstatusFreeIs ==
    ASSUME NEW w, IsWorld(w), NEW v, v = NetstatusFree(w)
    PROVE  /\ IsWorld(v) /\ v.m = w.m /\ v.r = w.r /\ v.ret = w.ret
           /\ v.seen.told = w.seen.told /\ v.seen.met = w.seen.met
           /\ v.seen.astray = w.seen.astray
           /\ v.seen.fault = w.seen.fault \/ (Sound(w) /\ w.m.ns /\ w.ns.mem = "freed")
           /\ Sound(v) => Sound(w)
<1>1. CASE ~ w.m.ns
  BY <1>1 DEF NetstatusFree
<1>2. CASE w.m.ns /\ w.ns.mem = "freed"
  <2>1. v = Fault(w, "netstatus freed twice")
    BY <1>2 DEF NetstatusFree
  <2>2. "netstatus freed twice" \in NullFaults \cup MemoryFaults
    BY DEF MemoryFaults
  <2>3. /\ IsWorld(v) /\ v.r = w.r /\ v.m = w.m /\ v.ns = w.ns /\ v.ret = w.ret
        /\ ~ Sound(v)
        /\ v.seen.fault = w.seen.fault \/ Sound(w)
        /\ v.seen.told = w.seen.told /\ v.seen.met = w.seen.met
        /\ v.seen.astray = w.seen.astray
    <3>1. PICK what : what = "netstatus freed twice"
      OBVIOUS
    <3>2. what \in NullFaults \cup MemoryFaults /\ v = Fault(w, what)
      BY <2>1, <2>2, <3>1
    <3> QED BY <3>2, FaultGives
  <2> QED BY <1>2, <2>3
<1>3. CASE w.m.ns /\ w.ns.mem # "freed"
  <2>1. PICK x : x = [w.ns EXCEPT !.mem = "freed"]
    OBVIOUS
  <2>2. v = Mk(w.r, w.m, x, w.seen, w.ret)
    BY <1>3, <2>1 DEF NetstatusFree, IsWorld, Mk
  <2>3. x \in NSet
    BY <2>1 DEF IsWorld, NSet
  <2>4. w.r \in RSet /\ w.m \in MSet /\ w.seen \in SSet /\ w.ret \in BOOLEAN
    BY DEF IsWorld
  <2>5. IsWorld(v) /\ v.r = w.r /\ v.m = w.m /\ v.seen = w.seen /\ v.ret = w.ret
    BY <2>2, <2>3, <2>4, MkIs
  <2> QED BY <2>5 DEF Sound
<1> QED BY <1>1, <1>2, <1>3

-----------------------------------------------------------------------------
(* The inductive invariant, of a world.  What was closed or ended without  *)
(* the program was told, or was dropped; only a world that has met with an *)
(* error of one of the kinds of PointersSound can have a wrong access to   *)
(* memory; and in one that has not, the pointers in m say what can be done *)
(* with the connection and what it waits for.                              *)
Calm(w) == Sound(w) /\ w.seen.astray = "none"

Gone(w) == w.r.killed \/ w.seen.told > 0 \/ w.seen.astray = "dropped"

MetOk(w) == w.seen.met <= 1 /\ (w.r.mask = "WRITE" => w.seen.met = 0)

GoneOk(w) ==
    /\ w.r.list \in {"deleted", "none"} \/ ~ w.m.rtmp => Gone(w)
    /\ w.r.mem = "freed" => w.r.killed

FaultOk(w) == w.seen.astray = "none" => w.seen.fault \notin MemoryFaults

Tidy(w) ==
    /\ w.m.rtmp =>
         /\ w.r.mem = "live" /\ ~ w.r.killed /\ ~ w.r.conn_reset
         /\ w.r.list \in {"active", "inactive"}
    /\ w.m.rtmp <=> w.r.mask # "DELETED"
    /\ w.m.ns => w.ns.mem = "live" /\ w.m.rtmp
    /\ w.r.mem = "freed" => w.r.list = "none"
    /\ w.m.rtmp /\ w.r.state = "HANDSHAKE_2" => w.m.ns

Core(w) ==
    /\ IsWorld(w) /\ MetOk(w) /\ GoneOk(w) /\ FaultOk(w)
    /\ Calm(w) => Tidy(w)

(* What handlers find, too: the handshake is as far as the state says.     *)
Stage(w) ==
    /\ Calm(w) /\ w.m.rtmp => w.r.state \in {"HANDSHAKE_1", "HANDSHAKE_2"}
    /\ Sound(w) /\ w.r.state = "HANDSHAKE_1" => w.seen.met = 0

Alive(w) == Calm(w) => w.r.mem = "live"

(* mayhem_abort: whatever it finds, nothing is left to be closed again.    *)
LEMMA MayhemAbortIs ==
    ASSUME NEW w, Core(w), NEW v, v = MayhemAbort(w)
    PROVE  /\ Core(v) /\ ~ v.m.rtmp /\ v.ret = w.ret
           /\ v.r.state = w.r.state /\ v.seen.met = w.seen.met
           /\ v.seen.told = w.seen.told /\ v.seen.astray = w.seen.astray
           /\ Sound(v) => Sound(w)
           /\ Calm(w) => Calm(v) /\ v.r.mem = w.r.mem
<1>1. PICK x, y : x = RtmpClose(w) /\ y = NetstatusFree(x)
  OBVIOUS
<1>2. IsWorld(w)
  BY DEF Core
<1>3. /\ IsWorld(x) /\ x.m = w.m /\ x.ns = w.ns /\ x.ret = w.ret
      /\ x.r.state = w.r.state /\ x.r.mask \in {w.r.mask, "DELETED"}
      /\ x.seen.told = w.seen.told /\ x.seen.met = w.seen.met
      /\ x.seen.astray = w.seen.astray
      /\ Sound(x) => Sound(w)
      /\ w.r.killed => x.r.killed
      /\ w.m.rtmp => x.r.killed \/ w.r.mem = "freed"
      /\ x.r.mem = "freed" => w.r.mem = "freed" \/ x.r.killed
      /\ x.r.list \in {w.r.list, "deleted"}
      /\ ~ w.m.rtmp => x = w
      /\ w.m.rtmp /\ w.r.mem # "freed" /\ ~ w.r.conn_reset =>
           x.r.mem = w.r.mem /\ x.r.mask = "DELETED" /\ x.r.list = "deleted"
  BY <1>1, <1>2, RtmpCloseIs
<1>4. \/ x.seen.fault = w.seen.fault
      \/ Sound(w) /\ w.m.rtmp /\ (w.r.mem = "freed" \/ w.r.conn_reset)
  BY <1>1, <1>2, RtmpCloseIs
<1>5. /\ IsWorld(y) /\ y.m = w.m /\ y.r = x.r /\ y.ret = w.ret
      /\ y.seen.told = w.seen.told /\ y.seen.met = w.seen.met
      /\ y.seen.astray = w.seen.astray
      /\ y.seen.fault = x.seen.fault \/ (Sound(x) /\ w.m.ns /\ w.ns.mem = "freed")
      /\ Sound(y) => Sound(x)
  BY <1>1, <1>3, NetstatusFreeIs
<1>6. PICK b : b = [w.m EXCEPT !.ns = FALSE, !.rtmp = FALSE]
  OBVIOUS
<1>7. v = Mk(y.r, b, y.ns, y.seen, y.ret)
  BY <1>1, <1>5, <1>6 DEF MayhemAbort, IsWorld, Mk
<1>8. b \in MSet /\ ~ b.rtmp /\ ~ b.ns
  BY <1>2, <1>6 DEF IsWorld, MSet
<1>9. y.r \in RSet /\ y.ns \in NSet /\ y.seen \in SSet /\ y.ret \in BOOLEAN
  BY <1>5 DEF IsWorld
<1>10. IsWorld(v) /\ v.r = x.r /\ v.m = b /\ v.seen = y.seen /\ v.ret = w.ret
  BY <1>5, <1>7, <1>8, <1>9, MkIs
<1>11. Calm(w) => Tidy(w)
  BY DEF Core
<1>12. Sound(v) => Sound(y)
  BY <1>10 DEF Sound
<1>13. ASSUME Calm(w)
       PROVE  /\ v.seen.fault = w.seen.fault /\ Calm(v) /\ v.r.mem = w.r.mem
              /\ v.r.mask = "DELETED" /\ (v.r.mem = "freed" => v.r.list = "none")
  <2>1. Tidy(w)
    BY <1>11, <1>13
  <2>2. x.seen.fault = w.seen.fault
    BY <1>4, <2>1 DEF Tidy
  <2>3. y.seen.fault = w.seen.fault
    BY <1>5, <2>1, <2>2 DEF Tidy
  <2>4. Calm(v)
    BY <1>5, <1>10, <1>13, <2>3 DEF Calm, Sound
  <2>5. CASE w.m.rtmp
    BY <1>3, <1>10, <2>1, <2>3, <2>4, <2>5 DEF Tidy
  <2>6. CASE ~ w.m.rtmp
    BY <1>3, <1>10, <2>1, <2>3, <2>4, <2>6 DEF Tidy
  <2> QED BY <2>5, <2>6
<1>14. Calm(v) => Calm(w)
  BY <1>3, <1>5, <1>10, <1>12 DEF Calm
<1>15. Calm(v) => Tidy(v)
  BY <1>8, <1>10, <1>13, <1>14 DEF Tidy
<1>16. FaultOk(v)
  <2>1. CASE Calm(w)
    BY <1>5, <1>10, <1>13, <2>1 DEF FaultOk, Core
  <2>2. CASE ~ Sound(w)
    BY <1>3, <1>4, <1>5, <1>10, <2>2 DEF FaultOk, Core
  <2>3. CASE w.seen.astray # "none"
    BY <1>5, <1>10, <2>3 DEF FaultOk
  <2> QED BY <2>1, <2>2, <2>3 DEF Calm
<1>17. MetOk(v)
  BY <1>3, <1>5, <1>10 DEF MetOk, Core
<1>18. GoneOk(v)
  <2>1. Gone(v)
    <3>1. CASE w.m.rtmp
      BY <1>3, <1>10, <3>1 DEF Core, GoneOk, Gone
    <3>2. CASE ~ w.m.rtmp
      BY <1>3, <1>5, <1>10, <3>2 DEF Core, GoneOk, Gone
    <3> QED BY <3>1, <3>2
  <2>2. v.r.mem = "freed" => v.r.killed
    BY <1>3, <1>10 DEF Core, GoneOk
  <2> QED BY <2>1, <2>2 DEF GoneOk
<1> QED BY <1>3, <1>5, <1>8, <1>10, <1>12, <1>13, <1>15, <1>16, <1>17, <1>18 DEF Core

-----------------------------------------------------------------------------
(* What the invariant does not tell apart.                                 *)
Alike(w, v) ==
    /\ IsWorld(v)
    /\ v.r.mem = w.r.mem /\ v.r.killed = w.r.killed /\ v.r.conn_reset = w.r.conn_reset
    /\ v.r.list = w.r.list /\ v.r.mask = w.r.mask
    /\ v.m = w.m /\ v.ns.mem = w.ns.mem
    /\ v.seen.met = w.seen.met /\ v.seen.fault = w.seen.fault
    /\ v.seen.astray = w.seen.astray
    /\ w.seen.told > 0 => v.seen.told > 0

LEMMA CoreAlike ==
    ASSUME NEW w, Core(w), NEW v, Alike(w, v),
           \/ v.r.state = w.r.state \/ v.r.state # "HANDSHAKE_2"
           \/ Calm(w) /\ w.m.rtmp => w.m.ns
    PROVE  /\ Core(v) /\ (Calm(v) <=> Calm(w)) /\ (Sound(v) <=> Sound(w))
           /\ Alive(w) => Alive(v)
           /\ v.r.state = w.r.state /\ Stage(w) => Stage(v)
<1>1. (Sound(v) <=> Sound(w)) /\ (Calm(v) <=> Calm(w))
  BY DEF Alike, Sound, Calm
<1>2. MetOk(v) /\ FaultOk(v) /\ IsWorld(v)
  BY DEF Alike, Core, MetOk, FaultOk
<1>3. GoneOk(v)
  BY DEF Alike, Core, GoneOk, Gone
<1>4. Calm(v) => Tidy(v)
  BY <1>1 DEF Alike, Core, Tidy
<1>5. Alive(w) => Alive(v)
  BY <1>1 DEF Alike, Alive
<1>6. v.r.state = w.r.state /\ Stage(w) => Stage(v)
  BY <1>1 DEF Alike, Stage
<1> QED BY <1>1, <1>2, <1>3, <1>4, <1>5, <1>6 DEF Core

LEMMA CoreFault ==
    ASSUME NEW w, Core(w), NEW what \in NullFaults \cup MemoryFaults,
           what \in MemoryFaults => ~ Calm(w),
           NEW v, v = Fault(w, what)
    PROVE  Core(v) /\ ~ Sound(v) /\ Alive(v) /\ Stage(v) /\ v.m = w.m
<1>1. IsWorld(w)
  BY DEF Core
<1>2. /\ IsWorld(v) /\ v.r = w.r /\ v.m = w.m /\ ~ Sound(v)
      /\ v.seen.fault = IF Sound(w) THEN what ELSE w.seen.fault
      /\ v.seen.told = w.seen.told /\ v.seen.met = w.seen.met
      /\ v.seen.astray = w.seen.astray
  BY <1>1, FaultIs
<1>3. FaultOk(v)
  BY <1>2 DEF FaultOk, Calm, Core
<1>4. MetOk(v) /\ GoneOk(v)
  BY <1>2 DEF MetOk, GoneOk, Gone, Core
<1> QED BY <1>2, <1>3, <1>4 DEF Core, Calm, Alive, Stage

LEMMA RetMk ==
    ASSUME NEW w, IsWorld(w), NEW v, v \in {Ok(w), Fail(w)}
    PROVE  /\ IsWorld(v) /\ v.r = w.r /\ v.m = w.m /\ v.ns = w.ns /\ v.seen = w.seen
           /\ v = Ok(w) => v.ret
           /\ v = Fail(w) => ~ v.ret
<1>1. PICK e \in BOOLEAN : v = Mk(w.r, w.m, w.ns, w.seen, e)
  BY DEF Ok, Fail, Mk, IsWorld
<1>2. w.r \in RSet /\ w.m \in MSet /\ w.ns \in NSet /\ w.seen \in SSet
  BY DEF IsWorld
<1>3. IsWorld(v) /\ v.r = w.r /\ v.m = w.m /\ v.ns = w.ns /\ v.seen = w.seen
  BY <1>1, <1>2, MkIs
<1>4. v = Ok(w) => v.ret
  BY DEF Ok, Mk, IsWorld
<1>5. v = Fail(w) => ~ v.ret
  BY DEF Fail, Mk, IsWorld
<1> QED BY <1>3, <1>4, <1>5

LEMMA RetIs ==
    ASSUME NEW w, Core(w), NEW v, v \in {Ok(w), Fail(w)}
    PROVE  /\ Core(v) /\ (Calm(v) <=> Calm(w)) /\ (Sound(v) <=> Sound(w))
           /\ (Alive(w) => Alive(v)) /\ (Stage(w) => Stage(v))
           /\ v.r = w.r /\ v.m = w.m /\ v.ns = w.ns /\ v.seen = w.seen
           /\ v = Ok(w) => v.ret
           /\ v = Fail(w) => ~ v.ret
<1>1. /\ IsWorld(v) /\ v.r = w.r /\ v.m = w.m /\ v.ns = w.ns /\ v.seen = w.seen
      /\ v = Ok(w) => v.ret
      /\ v = Fail(w) => ~ v.ret
  BY RetMk DEF Core
<1>2. Alike(w, v)
  BY <1>1 DEF Alike
<1> QED BY <1>1, <1>2, CoreAlike

LEMMA RtmpDiedIs ==
    ASSUME NEW w, Core(w), NEW v, v = RtmpDied(w)
    PROVE  /\ Core(v) /\ ~ v.m.rtmp /\ v.ret = w.ret
           /\ v.r.state = w.r.state /\ v.seen.met = w.seen.met
           /\ v.seen.told > 0 /\ v.seen.astray = w.seen.astray
           /\ Sound(v) => Sound(w)
           /\ Calm(w) => Calm(v) /\ v.r.mem = w.r.mem
<1>1. PICK t, x : t = [w EXCEPT !.seen.told = Again(@)] /\ x = [w.seen EXCEPT !.told = Again(@)]
  OBVIOUS
<1>2. IsWorld(w)
  BY DEF Core
<1>3. t = Mk(w.r, w.m, w.ns, x, w.ret)
  BY <1>1, <1>2 DEF IsWorld, Mk
<1>4. /\ x \in SSet /\ x.told > 0 /\ x.met = w.seen.met /\ x.fault = w.seen.fault
      /\ x.astray = w.seen.astray
  BY <1>1, <1>2 DEF IsWorld, SSet, Again
<1>5. w.r \in RSet /\ w.m \in MSet /\ w.ns \in NSet /\ w.ret \in BOOLEAN
  BY <1>2 DEF IsWorld
<1>6. /\ IsWorld(t) /\ t.r = w.r /\ t.m = w.m /\ t.ns = w.ns /\ t.seen = x /\ t.ret = w.ret
  BY <1>3, <1>4, <1>5, MkIs
<1>7. Alike(w, t)
  BY <1>4, <1>6 DEF Alike
<1>8. Core(t) /\ (Calm(t) <=> Calm(w)) /\ (Sound(t) <=> Sound(w))
  BY <1>6, <1>7, CoreAlike
<1>9. v = MayhemAbort(t)
  BY <1>1 DEF RtmpDied
<1>10. /\ Core(v) /\ ~ v.m.rtmp /\ v.ret = t.ret
       /\ v.r.state = t.r.state /\ v.seen.met = t.seen.met
       /\ v.seen.told = t.seen.told /\ v.seen.astray = t.seen.astray
       /\ Sound(v) => Sound(t)
       /\ Calm(t) => Calm(v) /\ v.r.mem = t.r.mem
  BY <1>8, <1>9, MayhemAbortIs
<1> QED BY <1>4, <1>6, <1>8, <1>10

(* transition() to ABORT or CONN_RESET: the connection is on its way out,  *)
(* whether or not it was closed from inside the callback.                  *)
LEMMA ResetIs ==
    ASSUME NEW w, Core(w), Alive(w), NEW s \in {"ABORT", "CONN_RESET"},
           NEW v, v = Reset(w, s)
    PROVE  /\ Core(v) /\ Alive(v) /\ Stage(v)
           /\ Sound(v) => Sound(w) /\ ~ v.ret /\ ~ v.m.rtmp
<1>1. PICK t, x : t = [w EXCEPT !.r.state = s] /\ x = [w.r EXCEPT !.state = s]
  OBVIOUS
<1>2. IsWorld(w)
  BY DEF Core
<1>3. t = Mk(x, w.m, w.ns, w.seen, w.ret)
  BY <1>1, <1>2 DEF IsWorld, Mk
<1>4. /\ x \in RSet /\ x.mem = w.r.mem /\ x.killed = w.r.killed
      /\ x.conn_reset = w.r.conn_reset /\ x.list = w.r.list /\ x.mask = w.r.mask
      /\ x.state = s
  BY <1>1, <1>2 DEF IsWorld, RSet
<1>5. w.m \in MSet /\ w.ns \in NSet /\ w.seen \in SSet /\ w.ret \in BOOLEAN
  BY <1>2 DEF IsWorld
<1>6. /\ IsWorld(t) /\ t.r = x /\ t.m = w.m /\ t.ns = w.ns /\ t.seen = w.seen /\ t.ret = w.ret
  BY <1>3, <1>4, <1>5, MkIs
<1>7. Alike(w, t) /\ t.r.state # "HANDSHAKE_2"
  BY <1>4, <1>6 DEF Alike
<1>8. Core(t) /\ (Calm(t) <=> Calm(w)) /\ (Sound(t) <=> Sound(w)) /\ Alive(t)
  BY <1>7, CoreAlike
<1>9. PICK d : d = RtmpDied(t)
  OBVIOUS
<1>10. /\ Core(d) /\ ~ d.m.rtmp /\ d.r.state = s
       /\ d.seen.told > 0 /\ d.seen.astray = t.seen.astray
       /\ Sound(d) => Sound(t)
       /\ Calm(t) => Calm(d) /\ d.r.mem = t.r.mem
  BY <1>4, <1>6, <1>8, <1>9, RtmpDiedIs
<1>11. v = IF ~ Sound(d) THEN d
           ELSE IF d.r.mem = "freed" THEN Fault(d, "reset after free")
           ELSE Fail(NbioDel([d EXCEPT !.r.conn_reset = TRUE]))
  BY <1>1, <1>9 DEF Reset
<1>12. CASE ~ Sound(d)
  BY <1>10, <1>11, <1>12 DEF Alive, Stage, Calm
<1>13. CASE Sound(d) /\ d.r.mem = "freed"
  <2>1. ~ Calm(d)
    BY <1>8, <1>10, <1>13 DEF Alive, Calm
  <2>2. v = Fault(d, "reset after free")
    BY <1>11, <1>13
  <2>3. "reset after free" \in MemoryFaults
    BY DEF MemoryFaults
  <2> QED BY <1>10, <2>1, <2>2, <2>3, CoreFault
<1>14. CASE Sound(d) /\ d.r.mem # "freed"
  <2>1. PICK e, y : e = [d EXCEPT !.r.conn_reset = TRUE] /\ y = [d.r EXCEPT !.conn_reset = TRUE]
    OBVIOUS
  <2>2. IsWorld(d)
    BY <1>10 DEF Core
  <2>3. e = Mk(y, d.m, d.ns, d.seen, d.ret)
    BY <2>1, <2>2 DEF IsWorld, Mk
  <2>4. y \in RSet /\ y.mem = d.r.mem /\ y.killed = d.r.killed /\ y.state = s
    BY <1>10, <2>1, <2>2 DEF IsWorld, RSet
  <2>5. d.m \in MSet /\ d.ns \in NSet /\ d.seen \in SSet /\ d.ret \in BOOLEAN
    BY <2>2 DEF IsWorld
  <2>6. IsWorld(e) /\ e.r = y /\ e.m = d.m /\ e.ns = d.ns /\ e.seen = d.seen /\ e.ret = d.ret
    BY <2>3, <2>4, <2>5, MkIs
  <2>7. PICK n : n = NbioDel(e)
    OBVIOUS
  <2>8. n = Mk(DelR(y), d.m, d.ns, d.seen, d.ret)
    BY <2>6, <2>7, NbioDelIs
  <2>9. /\ DelR(y) \in RSet /\ DelR(y).list = "deleted" /\ DelR(y).mask = "DELETED"
        /\ DelR(y).mem = d.r.mem /\ DelR(y).killed = d.r.killed /\ DelR(y).state = s
    BY <2>4, DelRIs
  <2>10. IsWorld(n) /\ n.r = DelR(y) /\ n.m = d.m /\ n.ns = d.ns /\ n.seen = d.seen
    BY <2>5, <2>8, <2>9, MkIs
  <2>11. Calm(n) => Tidy(n)
    <3>1. Calm(n) => Calm(d)
      BY <2>10 DEF Calm, Sound
    <3> QED BY <1>10, <1>14, <2>9, <2>10, <3>1 DEF Core, Tidy
  <2>12. MetOk(n) /\ FaultOk(n)
    BY <1>10, <2>9, <2>10 DEF Core, MetOk, FaultOk
  <2>13. GoneOk(n)
    BY <1>10, <1>14, <2>9, <2>10 DEF Core, GoneOk, Gone
  <2>14. Core(n)
    BY <2>10, <2>11, <2>12, <2>13 DEF Core
  <2>15. Alive(n)
    <3>1. n.r.mem = "live"
      BY <1>14, <2>2, <2>9, <2>10 DEF IsWorld, RSet
    <3> QED BY <3>1 DEF Alive
  <2>16. Stage(n)
    BY <1>10, <2>9, <2>10 DEF Stage
  <2>17. v = Fail(n)
    BY <1>11, <1>14, <2>1, <2>7
  <2>18. /\ Core(v) /\ (Alive(n) => Alive(v)) /\ (Stage(n) => Stage(v))
         /\ v.m = n.m /\ ~ v.ret
    BY <2>14, <2>17, RetIs
  <2> QED BY <1>8, <1>10, <1>14, <2>10, <2>15, <2>16, <2>18
<1> QED BY <1>12, <1>13, <1>14

-----------------------------------------------------------------------------
(* Sending.                                                                *)
LEMMA SleepIs ==
    ASSUME NEW w, Core(w), Alive(w), NEW v, v = SleepOnWrite(w)
    PROVE  Core(v) /\ Alive(v) /\ (Stage(w) => Stage(v))
<1>1. CASE w.r.mask = "READ"
  BY <1>1 DEF SleepOnWrite
<1>2. CASE w.r.mask # "READ"
  <2>1. PICK x : x = [w.r EXCEPT !.list = "inactive"]
    OBVIOUS
  <2>2. IsWorld(w)
    BY DEF Core
  <2>3. v = Mk(x, w.m, w.ns, w.seen, w.ret)
    BY <1>2, <2>1, <2>2 DEF SleepOnWrite, IsWorld, Mk
  <2>4. /\ x \in RSet /\ x.mem = w.r.mem /\ x.killed = w.r.killed /\ x.list = "inactive"
        /\ x.conn_reset = w.r.conn_reset /\ x.mask = w.r.mask /\ x.state = w.r.state
    BY <2>1, <2>2 DEF IsWorld, RSet
  <2>5. w.m \in MSet /\ w.ns \in NSet /\ w.seen \in SSet /\ w.ret \in BOOLEAN
    BY <2>2 DEF IsWorld
  <2>6. IsWorld(v) /\ v.r = x /\ v.m = w.m /\ v.ns = w.ns /\ v.seen = w.seen
    BY <2>3, <2>4, <2>5, MkIs
  <2>7. (Calm(v) <=> Calm(w)) /\ (Sound(v) <=> Sound(w))
    BY <2>6 DEF Calm, Sound
  <2>8. Alive(v)
    BY <2>4, <2>6, <2>7 DEF Alive
  <2>9. Calm(v) => Tidy(v)
    BY <2>4, <2>6, <2>7, <2>8 DEF Core, Tidy, Alive
  <2>10. MetOk(v) /\ FaultOk(v) /\ GoneOk(v)
    BY <2>4, <2>6 DEF Core, MetOk, FaultOk, GoneOk, Gone
  <2>11. Stage(w) => Stage(v)
    BY <2>4, <2>6, <2>7 DEF Stage
  <2> QED BY <2>6, <2>8, <2>9, <2>10, <2>11 DEF Core
<1> QED BY <1>1, <1>2

LEMMA RtmpSendIs ==
    ASSUME NEW w, Core(w), Alive(w), NEW v \in RtmpSend(w)
    PROVE  /\ Core(v) /\ Alive(v) /\ (Stage(w) => Stage(v))
           /\ Sound(v) /\ v.ret => v = Ok(w)
<1>1. CASE v = Ok(w)
  BY <1>1, RetIs
<1>2. CASE v = Fail(SleepOnWrite(w))
  <2>1. PICK x : x = SleepOnWrite(w)
    OBVIOUS
  <2>2. Core(x) /\ Alive(x) /\ (Stage(w) => Stage(x))
    BY <2>1, SleepIs
  <2>3. Core(v) /\ (Alive(x) => Alive(v)) /\ (Stage(x) => Stage(v)) /\ ~ v.ret
    BY <1>2, <2>1, <2>2, RetIs
  <2> QED BY <2>2, <2>3
<1>3. CASE v = Reset(w, "ABORT") \/ v = Reset(w, "CONN_RESET")
  BY <1>3, ResetIs
<1> QED BY <1>1, <1>2, <1>3 DEF RtmpSend

(* A send by the layers above, which needs m->rtmp when they do not look   *)
(* whether it is NULL where the program could see it.                      *)
LEMMA MayhemSendIs ==
    ASSUME NEW w, Core(w), NEW where \in NullFaults \cup MemoryFaults,
           where \in MemoryFaults /\ Calm(w) => w.m.rtmp,
           NEW v \in MayhemSend(w, where)
    PROVE  /\ Core(v) /\ Alive(v) /\ (Stage(w) => Stage(v))
           /\ Sound(v) /\ v.ret => v = Ok(w)
<1>1. CASE ~ w.m.rtmp
  <2>1. v = Fault(w, where)
    BY <1>1 DEF MayhemSend
  <2> QED BY <1>1, <2>1, CoreFault
<1>2. CASE w.m.rtmp /\ w.r.mem = "freed"
  <2>1. v = Fault(w, "send on freed")
    BY <1>2 DEF MayhemSend
  <2>2. "send on freed" \in MemoryFaults
    BY DEF MemoryFaults
  <2>3. ~ Calm(w)
    BY <1>2 DEF Core, Tidy
  <2> QED BY <2>1, <2>2, <2>3, CoreFault
<1>3. CASE w.m.rtmp /\ w.r.mem # "freed"
  <2>1. v \in RtmpSend(w)
    BY <1>3 DEF MayhemSend
  <2>2. Alive(w)
    BY <1>3 DEF Core, Tidy, Alive
  <2> QED BY <2>1, <2>2, RtmpSendIs
<1> QED BY <1>1, <1>2, <1>3

NsStates ==
    {"INIT", "CONNECT_SENT", "CONNECTED", "CREATE_SENT", "CREATED",
     "PLAY_SENT", "PLAYING", "STOPPED", "RESET"}

LEMMA NsSetIs ==
    ASSUME NEW w, Core(w), Alive(w), Calm(w) => w.m.ns, NEW s \in NsStates,
           NEW v \in NsSet(w, s)
    PROVE  /\ Core(v) /\ Alive(v) /\ (Stage(w) => Stage(v))
           /\ v.m = w.m
           /\ Sound(v) => v.m.ns /\ v.ret = w.ret /\ (Calm(v) <=> Calm(w))
<1>1. CASE ~ w.m.ns
  <2>1. v = Fault(w, "netstatus is NULL")
    BY <1>1 DEF NsSet, WithNs
  <2>2. "netstatus is NULL" \in MemoryFaults
    BY DEF MemoryFaults
  <2> QED BY <1>1, <2>1, <2>2, CoreFault
<1>2. CASE w.m.ns /\ w.ns.mem = "freed"
  <2>1. v = Fault(w, "netstatus is freed")
    BY <1>2 DEF NsSet, WithNs
  <2>2. "netstatus is freed" \in MemoryFaults
    BY DEF MemoryFaults
  <2>3. ~ Calm(w)
    BY <1>2 DEF Core, Tidy
  <2> QED BY <2>1, <2>2, <2>3, CoreFault
<1>3. CASE w.m.ns /\ w.ns.mem # "freed"
  <2>1. v = [w EXCEPT !.ns.state = s]
    BY <1>3 DEF NsSet, WithNs
  <2>2. PICK x : x = [w.ns EXCEPT !.state = s]
    OBVIOUS
  <2>3. IsWorld(w)
    BY DEF Core
  <2>4. v = Mk(w.r, w.m, x, w.seen, w.ret)
    BY <2>1, <2>2, <2>3 DEF IsWorld, Mk
  <2>5. x \in NSet /\ x.mem = w.ns.mem
    BY <2>2, <2>3 DEF IsWorld, NSet, NsStates
  <2>6. w.r \in RSet /\ w.m \in MSet /\ w.seen \in SSet /\ w.ret \in BOOLEAN
    BY <2>3 DEF IsWorld
  <2>7. IsWorld(v) /\ v.r = w.r /\ v.m = w.m /\ v.ns = x /\ v.seen = w.seen /\ v.ret = w.ret
    BY <2>4, <2>5, <2>6, MkIs
  <2>8. Alike(w, v) /\ v.r.state = w.r.state
    BY <2>5, <2>7 DEF Alike
  <2>9. /\ Core(v) /\ (Calm(v) <=> Calm(w)) /\ (Sound(v) <=> Sound(w))
        /\ (Alive(w) => Alive(v)) /\ (Stage(w) => Stage(v))
    BY <2>8, CoreAlike
  <2> QED BY <1>3, <2>7, <2>9
<1> QED BY <1>1, <1>2, <1>3

LEMMA NsSendIs ==
    ASSUME NEW w, Core(w), Alive(w), Calm(w) => w.m.ns /\ w.m.rtmp, NEW s \in NsStates,
           NEW v \in NsSend(w, s)
    PROVE  /\ Core(v) /\ Alive(v) /\ (Stage(w) => Stage(v))
           /\ Sound(v) /\ v.ret => v.m.ns
<1>1. CASE ~ w.m.ns
  <2>1. v = Fault(w, "netstatus is NULL")
    BY <1>1 DEF NsSend, WithNs
  <2>2. "netstatus is NULL" \in MemoryFaults
    BY DEF MemoryFaults
  <2> QED BY <1>1, <2>1, <2>2, CoreFault
<1>2. CASE w.m.ns /\ w.ns.mem = "freed"
  <2>1. v = Fault(w, "netstatus is freed")
    BY <1>2 DEF NsSend, WithNs
  <2>2. "netstatus is freed" \in MemoryFaults
    BY DEF MemoryFaults
  <2>3. ~ Calm(w)
    BY <1>2 DEF Core, Tidy
  <2> QED BY <2>1, <2>2, <2>3, CoreFault
<1>3. CASE w.m.ns /\ w.ns.mem # "freed"
  <2>1. PICK u \in MayhemSend(w, "ns->rtmp is freed") :
           IF Sound(u) /\ u.ret THEN v \in NsSet(u, s) ELSE v = u
    BY <1>3 DEF NsSend, WithNs, IfOk, Then
  <2>2. "ns->rtmp is freed" \in MemoryFaults
    BY DEF MemoryFaults
  <2>3. /\ Core(u) /\ Alive(u) /\ (Stage(w) => Stage(u))
        /\ Sound(u) /\ u.ret => u = Ok(w)
    BY <2>1, <2>2, MayhemSendIs
  <2>4. CASE Sound(u) /\ u.ret
    <3>1. v \in NsSet(u, s) /\ u = Ok(w)
      BY <2>1, <2>3, <2>4
    <3>2. Calm(u) => u.m.ns
      BY <1>3, <3>1, RetIs
    <3>3. /\ Core(v) /\ Alive(v) /\ (Stage(u) => Stage(v))
          /\ Sound(v) => v.m.ns
      BY <2>3, <3>1, <3>2, NsSetIs
    <3> QED BY <2>3, <3>3
  <2>5. CASE ~ (Sound(u) /\ u.ret)
    BY <2>1, <2>3, <2>5
  <2> QED BY <2>4, <2>5
<1> QED BY <1>1, <1>2, <1>3

(* What the handlers of messages find and leave.                           *)
Good(w) == Core(w) /\ Alive(w) /\ Stage(w)

LEMMA AbortGood ==
    ASSUME NEW w, Good(w)
    PROVE  Good(MayhemAbort(w))
<1>1. PICK v : v = MayhemAbort(w)
  OBVIOUS
<1>2. /\ Core(v) /\ ~ v.m.rtmp
      /\ v.r.state = w.r.state /\ v.seen.met = w.seen.met
      /\ v.seen.astray = w.seen.astray /\ (Sound(v) => Sound(w))
      /\ Calm(w) => Calm(v) /\ v.r.mem = w.r.mem
  BY <1>1, MayhemAbortIs DEF Good
<1>3. Alive(v)
  BY <1>2 DEF Good, Alive, Calm
<1>4. Stage(v)
  BY <1>2 DEF Good, Stage
<1> QED BY <1>1, <1>2, <1>3, <1>4 DEF Good

LEMMA DiedGood ==
    ASSUME NEW w, Good(w)
    PROVE  Good(RtmpDied(w))
<1>1. PICK v : v = RtmpDied(w)
  OBVIOUS
<1>2. /\ Core(v) /\ ~ v.m.rtmp
      /\ v.r.state = w.r.state /\ v.seen.met = w.seen.met
      /\ v.seen.astray = w.seen.astray /\ (Sound(v) => Sound(w))
      /\ Calm(w) => Calm(v) /\ v.r.mem = w.r.mem
  BY <1>1, RtmpDiedIs DEF Good
<1>3. Alive(v)
  BY <1>2 DEF Good, Alive, Calm
<1>4. Stage(v)
  BY <1>2 DEF Good, Stage
<1> QED BY <1>1, <1>2, <1>3, <1>4 DEF Good

LEMMA ProgramGood ==
    ASSUME NEW w, Good(w), NEW v \in Program(w)
    PROVE  Good(v)
BY AbortGood DEF Program

LEMMA OkGood ==
    ASSUME NEW w, Good(w)
    PROVE  Good(Ok(w))
BY RetIs DEF Good

LEMMA AbortUnlessOkGood ==
    ASSUME NEW S, \A w \in S : Good(w), NEW v \in AbortUnlessOk(S)
    PROVE  Good(v)
<1>1. PICK w \in S : v = w \/ v = Ok(MayhemAbort(w))
  BY DEF AbortUnlessOk, Then
<1> QED BY <1>1, AbortGood, OkGood

-----------------------------------------------------------------------------
(* The handshake.                                                          *)
LEMMA Handshake1Good ==
    ASSUME NEW w, Good(w), w.r.mask = "WRITE", NEW v \in Handshake1(w)
    PROVE  Good(v)
<1>1. CASE v = Reset(w, "ABORT")
  BY <1>1, ResetIs DEF Good
<1>2. CASE v # Reset(w, "ABORT")
  <2>1. PICK u \in RtmpSend(w) :
           IF Sound(u) /\ u.ret THEN v = [SetWaitRead(u) EXCEPT !.r.state = "HANDSHAKE_1"]
           ELSE v = u
    BY <1>2 DEF Handshake1, OutOfMemory, IfOk, Then
  <2>2. Core(u) /\ Alive(u) /\ Stage(u) /\ (Sound(u) /\ u.ret => u = Ok(w))
    BY <2>1, RtmpSendIs DEF Good
  <2>3. CASE ~ (Sound(u) /\ u.ret)
    BY <2>1, <2>2, <2>3 DEF Good
  <2>4. CASE Sound(u) /\ u.ret
    <3>1. u.r = w.r /\ u.seen = w.seen
      BY <2>2, <2>4, RetIs DEF Good
    <3>2. IsWorld(u)
      BY <2>2 DEF Core
    <3>3. PICK x : x = [u.r EXCEPT !.list = "active", !.mask = "READ", !.err = FALSE]
      OBVIOUS
    <3>4. PICK y : y = SetWaitRead(u)
      OBVIOUS
    <3>5. y = Mk(x, u.m, u.ns, u.seen, u.ret)
      <4>1. y = [u EXCEPT !.r.list = "active", !.r.mask = "READ", !.r.err = FALSE]
        BY <3>1, <3>4 DEF SetWaitRead
      <4>2. PICK u1 : u1 = [u EXCEPT !.r.list = "active"]
        OBVIOUS
      <4>3. PICK u2 : u2 = [u1 EXCEPT !.r.mask = "READ"]
        OBVIOUS
      <4>4. u1 = Mk([u.r EXCEPT !.list = "active"], u.m, u.ns, u.seen, u.ret)
        BY <3>2, <4>2 DEF IsWorld, Mk
      <4>5. u2 = Mk([u.r EXCEPT !.list = "active", !.mask = "READ"], u.m, u.ns, u.seen, u.ret)
        BY <4>3, <4>4 DEF Mk
      <4>6. y = [u2 EXCEPT !.r.err = FALSE]
        BY <4>1, <4>2, <4>3
      <4> QED BY <3>3, <4>5, <4>6 DEF Mk
    <3>6. /\ x \in RSet /\ x.mem = u.r.mem /\ x.killed = u.r.killed
          /\ x.conn_reset = u.r.conn_reset /\ x.list = "active" /\ x.mask = "READ"
      <4>1. u.r \in RSet
        BY <3>2 DEF IsWorld
      <4>2. x \in RSet
        BY <3>3, <4>1 DEF RSet
      <4> QED BY <3>3, <4>1, <4>2 DEF RSet
    <3>7. PICK z : z = [x EXCEPT !.state = "HANDSHAKE_1"]
      OBVIOUS
    <3>8. v = Mk(z, u.m, u.ns, u.seen, u.ret)
      BY <2>1, <2>4, <3>4, <3>5, <3>7 DEF Mk
    <3>9. /\ z \in RSet /\ z.mem = u.r.mem /\ z.killed = u.r.killed /\ z.state = "HANDSHAKE_1"
          /\ z.conn_reset = u.r.conn_reset /\ z.list = "active" /\ z.mask = "READ"
      BY <3>6, <3>7 DEF RSet
    <3>10. u.m \in MSet /\ u.ns \in NSet /\ u.seen \in SSet /\ u.ret \in BOOLEAN
      BY <3>2 DEF IsWorld
    <3>11. IsWorld(v) /\ v.r = z /\ v.m = u.m /\ v.ns = u.ns /\ v.seen = u.seen
      BY <3>8, <3>9, <3>10, MkIs
    <3>12. (Calm(v) <=> Calm(u)) /\ (Sound(v) <=> Sound(u))
      BY <3>11 DEF Calm, Sound
    <3>13. u.seen.met = 0 /\ u.r.mask = "WRITE"
      BY <3>1 DEF Good, Core, MetOk
    <3>14. Alive(v)
      BY <2>2, <3>9, <3>11, <3>12 DEF Alive
    <3>15. Calm(v) => Tidy(v)
      BY <2>2, <3>9, <3>11, <3>12, <3>13 DEF Core, Tidy, Alive
    <3>16. MetOk(v) /\ FaultOk(v) /\ GoneOk(v)
      BY <2>2, <3>9, <3>11, <3>13 DEF Core, MetOk, FaultOk, GoneOk, Gone
    <3>17. Stage(v)
      BY <3>9, <3>11, <3>13 DEF Stage
    <3> QED BY <3>11, <3>14, <3>15, <3>16, <3>17 DEF Core, Good
  <2> QED BY <2>3, <2>4
<1> QED BY <1>1, <1>2

LEMMA ConnectUnsentIs ==
    ASSUME NEW w, Core(w), Alive(w), NEW v, v = ConnectUnsent(w)
    PROVE  Core(v) /\ Alive(v) /\ (Calm(v) => ~ v.m.rtmp)
<1>1. PICK x, y : x = NetstatusFree(w) /\ y = RtmpClose(x)
  OBVIOUS
<1>2. IsWorld(w)
  BY DEF Core
<1>3. /\ IsWorld(x) /\ x.m = w.m /\ x.r = w.r
      /\ x.seen.told = w.seen.told /\ x.seen.met = w.seen.met
      /\ x.seen.astray = w.seen.astray
  BY <1>1, <1>2, NetstatusFreeIs
<1>4. v = IF w.m.rtmp THEN [y EXCEPT !.seen.astray = "unsent"] ELSE y
  BY <1>1 DEF ConnectUnsent
<1>5. CASE w.m.rtmp
  <2>1. /\ IsWorld(y) /\ y.m = w.m /\ y.r.mask \in {w.r.mask, "DELETED"}
        /\ y.seen.told = w.seen.told /\ y.seen.met = w.seen.met
        /\ w.r.killed => y.r.killed
        /\ y.r.killed \/ w.r.mem = "freed"
    BY <1>1, <1>3, <1>5, RtmpCloseIs
  <2>2. PICK s : s = [y.seen EXCEPT !.astray = "unsent"]
    OBVIOUS
  <2>3. v = Mk(y.r, y.m, y.ns, s, y.ret)
    BY <1>4, <1>5, <2>1, <2>2 DEF IsWorld, Mk
  <2>4. s \in SSet /\ s.astray = "unsent" /\ s.told = w.seen.told /\ s.met = w.seen.met
    BY <2>1, <2>2 DEF IsWorld, SSet
  <2>5. y.r \in RSet /\ y.m \in MSet /\ y.ns \in NSet /\ y.ret \in BOOLEAN
    BY <2>1 DEF IsWorld
  <2>6. IsWorld(v) /\ v.r = y.r /\ v.m = w.m /\ v.seen = s
    BY <2>1, <2>3, <2>4, <2>5, MkIs
  <2>7. ~ Calm(v)
    BY <2>4, <2>6 DEF Calm
  <2>8. v.r.killed
    BY <2>1, <2>6 DEF Core, GoneOk
  <2>9. MetOk(v) /\ FaultOk(v) /\ GoneOk(v)
    BY <2>1, <2>4, <2>6, <2>8 DEF Core, MetOk, FaultOk, GoneOk, Gone
  <2> QED BY <2>6, <2>7, <2>9 DEF Core, Alive
<1>6. CASE ~ w.m.rtmp
  <2>1. v = x
    BY <1>1, <1>3, <1>4, <1>6, RtmpCloseIs
  <2>2. /\ x.seen.fault = w.seen.fault \/ (Sound(w) /\ w.m.ns /\ w.ns.mem = "freed")
        /\ Sound(x) => Sound(w)
    BY <1>1, <1>2, NetstatusFreeIs
  <2>3. ASSUME Calm(w)
        PROVE  x = w
    <3>1. ~ w.m.ns
      BY <1>6, <2>3 DEF Core, Tidy
    <3> QED BY <1>1, <3>1 DEF NetstatusFree
  <2>4. Calm(x) => Calm(w)
    BY <1>3, <2>2 DEF Calm
  <2>5. FaultOk(x)
    <3>1. CASE Calm(w)
      BY <2>3, <3>1 DEF Core
    <3>2. CASE ~ Calm(w)
      BY <1>3, <2>2, <3>2 DEF Core, FaultOk, Calm
    <3> QED BY <3>1, <3>2
  <2>6. MetOk(x) /\ GoneOk(x)
    BY <1>3 DEF Core, MetOk, GoneOk, Gone
  <2>7. Calm(x) => Tidy(x)
    BY <2>3, <2>4 DEF Core
  <2>8. Alive(x)
    BY <1>3, <2>4 DEF Alive
  <2> QED BY <1>3, <1>6, <2>1, <2>5, <2>6, <2>7, <2>8 DEF Core
<1> QED BY <1>5, <1>6

(* rtmp_connected, the first time: after it, what is left open has its     *)
(* netstatus.                                                              *)
LEMMA RtmpConnectedIs ==
    ASSUME NEW w, Core(w), Alive(w), w.r.mask # "WRITE", w.seen.met = 0,
           Calm(w) => w.m.rtmp, NEW v \in RtmpConnected(w)
    PROVE  Core(v) /\ Alive(v) /\ (Calm(v) /\ v.m.rtmp => v.m.ns)
<1>1. PICK c, x : c = [w EXCEPT !.seen.met = Again(@)] /\ x = [w.seen EXCEPT !.met = 1]
  OBVIOUS
<1>2. IsWorld(w)
  BY DEF Core
<1>3. c = Mk(w.r, w.m, w.ns, x, w.ret)
  <2>1. [w.seen EXCEPT !.met = Again(@)] = x
    BY <1>1, <1>2 DEF IsWorld, SSet, Again
  <2>2. c = Mk(w.r, w.m, w.ns, [w.seen EXCEPT !.met = Again(@)], w.ret)
    BY <1>1, <1>2 DEF IsWorld, Mk
  <2> QED BY <2>1, <2>2
<1>4. /\ x \in SSet /\ x.met = 1 /\ x.told = w.seen.told /\ x.fault = w.seen.fault
      /\ x.astray = w.seen.astray
  BY <1>1, <1>2 DEF IsWorld, SSet
<1>5. w.r \in RSet /\ w.m \in MSet /\ w.ns \in NSet /\ w.ret \in BOOLEAN
  BY <1>2 DEF IsWorld
<1>6. IsWorld(c) /\ c.r = w.r /\ c.m = w.m /\ c.ns = w.ns /\ c.seen = x /\ c.ret = w.ret
  BY <1>3, <1>4, <1>5, MkIs
<1>7. (Calm(c) <=> Calm(w)) /\ (Sound(c) <=> Sound(w))
  BY <1>4, <1>6 DEF Calm, Sound
<1>8. Core(c) /\ Alive(c)
  <2>1. MetOk(c) /\ FaultOk(c) /\ GoneOk(c)
    BY <1>4, <1>6 DEF Core, MetOk, FaultOk, GoneOk, Gone
  <2>2. Calm(c) => Tidy(c)
    BY <1>6, <1>7 DEF Core, Tidy
  <2> QED BY <1>6, <1>7, <2>1, <2>2 DEF Core, Alive
<1>9. PICK n, y, b : /\ n = [c EXCEPT !.ns = [mem |-> "live", state |-> "INIT"], !.m.ns = TRUE]
                    /\ y = [mem |-> "live", state |-> "INIT"] /\ b = [w.m EXCEPT !.ns = TRUE]
  OBVIOUS
<1>10. n = Mk(w.r, b, y, x, w.ret)
  BY <1>6, <1>9 DEF IsWorld, Mk
<1>11. /\ y \in NSet /\ y.mem = "live"
       /\ b \in MSet /\ b.ns /\ b.rtmp = w.m.rtmp
  BY <1>5, <1>9 DEF NSet, MSet
<1>12. IsWorld(n) /\ n.r = w.r /\ n.m = b /\ n.ns = y /\ n.seen = x
  BY <1>4, <1>5, <1>10, <1>11, MkIs
<1>13. (Calm(n) <=> Calm(w)) /\ (Sound(n) <=> Sound(w))
  BY <1>4, <1>12 DEF Calm, Sound
<1>14. Core(n) /\ Alive(n) /\ (Calm(n) => n.m.ns /\ n.m.rtmp)
  <2>1. MetOk(n) /\ FaultOk(n) /\ GoneOk(n)
    BY <1>4, <1>11, <1>12 DEF Core, MetOk, FaultOk, GoneOk, Gone
  <2>2. Calm(n) => Tidy(n)
    BY <1>11, <1>12, <1>13 DEF Core, Tidy
  <2> QED BY <1>11, <1>12, <1>13, <2>1, <2>2 DEF Core, Alive
<1>15. CASE v = ConnectUnsent(c)
  BY <1>8, <1>15, ConnectUnsentIs
<1>16. CASE v # ConnectUnsent(c)
  <2>1. PICK u \in NsSend(n, "CONNECT_SENT") :
           IF Sound(u) THEN v = Ok(IF u.ret THEN u ELSE ConnectUnsent(u)) ELSE v = u
    BY <1>1, <1>9, <1>16 DEF RtmpConnected, Then
  <2>2. "CONNECT_SENT" \in NsStates
    BY DEF NsStates
  <2>3. Core(u) /\ Alive(u) /\ (Sound(u) /\ u.ret => u.m.ns)
    BY <1>14, <2>1, <2>2, NsSendIs
  <2>4. CASE ~ Sound(u)
    BY <2>1, <2>3, <2>4 DEF Calm
  <2>5. CASE Sound(u) /\ u.ret
    <3>1. v = Ok(u)
      BY <2>1, <2>5
    <3>2. Core(v) /\ Alive(v) /\ v.m = u.m
      BY <2>3, <3>1, RetIs
    <3> QED BY <2>3, <2>5, <3>2
  <2>6. CASE Sound(u) /\ ~ u.ret
    <3>1. PICK z : z = ConnectUnsent(u)
      OBVIOUS
    <3>2. Core(z) /\ Alive(z) /\ (Calm(z) => ~ z.m.rtmp)
      BY <2>3, <3>1, ConnectUnsentIs
    <3>3. v = Ok(z)
      BY <2>1, <2>6, <3>1
    <3>4. Core(v) /\ Alive(v) /\ v.m = z.m /\ (Calm(v) <=> Calm(z))
      BY <3>2, <3>3, RetIs
    <3> QED BY <3>2, <3>4
  <2> QED BY <2>4, <2>5, <2>6
<1> QED BY <1>15, <1>16

LEMMA Handshake2Good ==
    ASSUME NEW w, Good(w), w.r.mask = "READ", w.r.state = "HANDSHAKE_1",
           NEW v \in Handshake2(w)
    PROVE  Good(v)
<1>1. PICK u \in RtmpSend(w) :
         IF Sound(u) /\ u.ret
         THEN v \in Then(RtmpConnected(u), LAMBDA x : {[x EXCEPT !.r.state = "HANDSHAKE_2"]})
         ELSE v = u
  BY DEF Handshake2, IfOk, Then
<1>2. Core(u) /\ Alive(u) /\ Stage(u) /\ (Sound(u) /\ u.ret => u = Ok(w))
  BY <1>1, RtmpSendIs DEF Good
<1>3. CASE ~ (Sound(u) /\ u.ret)
  BY <1>1, <1>2, <1>3 DEF Good
<1>4. CASE Sound(u) /\ u.ret
  <2>1. u.r = w.r /\ u.seen = w.seen
    BY <1>2, <1>4, RetIs DEF Good
  <2>2. u.seen.met = 0 /\ u.r.mask # "WRITE"
    BY <1>2, <1>4, <2>1 DEF Stage
  <2>3. Calm(u) => u.m.rtmp
    BY <1>2, <2>1 DEF Core, Tidy
  <2>4. PICK x \in RtmpConnected(u) :
           IF Sound(x) THEN v = [x EXCEPT !.r.state = "HANDSHAKE_2"] ELSE v = x
    BY <1>1, <1>4 DEF Then
  <2>5. Core(x) /\ Alive(x) /\ (Calm(x) /\ x.m.rtmp => x.m.ns)
    BY <1>2, <2>2, <2>3, <2>4, RtmpConnectedIs
  <2>6. CASE ~ Sound(x)
    BY <2>4, <2>5, <2>6 DEF Good, Stage, Calm
  <2>7. CASE Sound(x)
    <3>1. PICK y : y = [x.r EXCEPT !.state = "HANDSHAKE_2"]
      OBVIOUS
    <3>2. IsWorld(x)
      BY <2>5 DEF Core
    <3>3. v = Mk(y, x.m, x.ns, x.seen, x.ret)
      BY <2>4, <2>7, <3>1, <3>2 DEF IsWorld, Mk
    <3>4. /\ y \in RSet /\ y.mem = x.r.mem /\ y.killed = x.r.killed
          /\ y.conn_reset = x.r.conn_reset /\ y.list = x.r.list /\ y.mask = x.r.mask
          /\ y.state = "HANDSHAKE_2"
      BY <3>1, <3>2 DEF IsWorld, RSet
    <3>5. x.m \in MSet /\ x.ns \in NSet /\ x.seen \in SSet /\ x.ret \in BOOLEAN
      BY <3>2 DEF IsWorld
    <3>6. IsWorld(v) /\ v.r = y /\ v.m = x.m /\ v.ns = x.ns /\ v.seen = x.seen
      BY <3>3, <3>4, <3>5, MkIs
    <3>7. Alike(x, v)
      BY <3>4, <3>6 DEF Alike
    <3>8. Core(v) /\ Alive(v)
      BY <2>5, <3>7, CoreAlike
    <3>9. Stage(v)
      BY <3>4, <3>6 DEF Stage
    <3> QED BY <3>8, <3>9 DEF Good
  <2> QED BY <2>6, <2>7
<1> QED BY <1>3, <1>4

LEMMA OutOfMemoryGood ==
    ASSUME NEW w, Good(w)
    PROVE  Good(OutOfMemory(w))
BY ResetIs DEF OutOfMemory, Good

LEMMA ReplyGood ==
    ASSUME NEW w, Good(w), w.r.mask = "READ", w.r.state = "HANDSHAKE_1", NEW v \in Reply(w)
    PROVE  Good(v)
<1>1. PICK u \in Handshake2(w) : v = u \/ v = OutOfMemory(u)
  BY DEF Reply, IfOk, Then
<1>2. Good(u)
  BY <1>1, Handshake2Good
<1> QED BY <1>1, <1>2, OutOfMemoryGood

-----------------------------------------------------------------------------
(* Messages.  Those of netstatus need it, and the connection, to be there. *)
Ready(w) == Calm(w) => w.m.ns /\ w.m.rtmp

LEMMA SendGood ==
    ASSUME NEW w, Good(w), NEW v \in RtmpSend(w)
    PROVE  Good(v)
BY RtmpSendIs DEF Good

LEMMA MayhemSendGood ==
    ASSUME NEW w, Good(w), NEW where \in NullFaults, NEW v \in MayhemSend(w, where)
    PROVE  Good(v)
<1>1. where \notin MemoryFaults
  BY DEF NullFaults, MemoryFaults
<1> QED BY <1>1, MayhemSendIs DEF Good

LEMMA NsSetGood ==
    ASSUME NEW w, Good(w), Ready(w), NEW s \in NsStates, NEW v \in NsSet(w, s)
    PROVE  Good(v) /\ Ready(v)
<1>1. /\ Core(v) /\ Alive(v) /\ (Stage(w) => Stage(v)) /\ v.m = w.m
      /\ Sound(v) => (Calm(v) <=> Calm(w))
  BY NsSetIs DEF Good, Ready
<1> QED BY <1>1 DEF Good, Ready, Calm

LEMMA NsSendGood ==
    ASSUME NEW w, Good(w), Ready(w), NEW s \in NsStates, NEW v \in NsSend(w, s)
    PROVE  Good(v)
BY NsSendIs DEF Good, Ready

LEMMA ChunkSizeGood ==
    ASSUME NEW w, Good(w), NEW v \in ChunkSize(w)
    PROVE  Good(v)
<1>1. PICK u \in {w, Reset(w, "ABORT")} : v = u \/ v = OutOfMemory(u)
  BY DEF ChunkSize, Then
<1>2. Good(u)
  BY <1>1, ResetIs DEF Good
<1> QED BY <1>1, <1>2, OutOfMemoryGood

LEMMA MediaGood ==
    ASSUME NEW w, Good(w), NEW v \in Media(w)
    PROVE  Good(v)
<1>1. CASE v \in Program(w)
  BY <1>1, ProgramGood
<1>2. CASE v \in Program([w EXCEPT !.r.due = TRUE])
  <2>1. PICK u, x : u = [w EXCEPT !.r.due = TRUE] /\ x = [w.r EXCEPT !.due = TRUE]
    OBVIOUS
  <2>2. IsWorld(w)
    BY DEF Good, Core
  <2>3. u = Mk(x, w.m, w.ns, w.seen, w.ret)
    BY <2>1, <2>2 DEF IsWorld, Mk
  <2>4. /\ x \in RSet /\ x.mem = w.r.mem /\ x.killed = w.r.killed
        /\ x.conn_reset = w.r.conn_reset /\ x.list = w.r.list /\ x.mask = w.r.mask
        /\ x.state = w.r.state
    BY <2>1, <2>2 DEF IsWorld, RSet
  <2>5. w.m \in MSet /\ w.ns \in NSet /\ w.seen \in SSet /\ w.ret \in BOOLEAN
    BY <2>2 DEF IsWorld
  <2>6. IsWorld(u) /\ u.r = x /\ u.m = w.m /\ u.ns = w.ns /\ u.seen = w.seen
    BY <2>3, <2>4, <2>5, MkIs
  <2>7. Alike(w, u) /\ u.r.state = w.r.state
    BY <2>4, <2>6 DEF Alike
  <2>8. Good(u)
    BY <2>7, CoreAlike DEF Good
  <2> QED BY <1>2, <2>1, <2>8, ProgramGood
<1> QED BY <1>1, <1>2 DEF Media

LEMMA AuthorizedGood ==
    ASSUME NEW w, Good(w), NEW v \in Authorized(w)
    PROVE  Good(v)
<1>1. PICK u \in Program(w) : v = u \/ v \in AbortUnlessOk(MayhemSend(u, "auth_result"))
  BY DEF Authorized, Then
<1>2. Good(u)
  BY <1>1, ProgramGood
<1>3. "auth_result" \in NullFaults
  BY DEF NullFaults
<1>4. \A x \in MayhemSend(u, "auth_result") : Good(x)
  BY <1>2, <1>3, MayhemSendGood
<1> QED BY <1>1, <1>2, <1>4, AbortUnlessOkGood

LEMMA NaiadSetGood ==
    ASSUME NEW w, Good(w), Ready(w), NEW v \in NaiadSet(w)
    PROVE  Good(v)
<1>1. "CREATE_SENT" \in NsStates
  BY DEF NsStates
<1>2. \A x \in NsSend(w, "CREATE_SENT") : Good(x)
  BY <1>1, NsSendGood
<1> QED BY <1>2, AbortUnlessOkGood DEF NaiadSet

LEMMA CreateResultGood ==
    ASSUME NEW w, Good(w), Ready(w), NEW v \in CreateResult(w)
    PROVE  Good(v)
<1>1. CASE w.ns.state # "CREATE_SENT"
  BY <1>1 DEF CreateResult
<1>2. CASE w.ns.state = "CREATE_SENT"
  <2>1. PICK u \in NsSet(w, "CREATED") : v = u \/ v \in AbortUnlessOk(NsSend(u, "PLAY_SENT"))
    BY <1>2 DEF CreateResult, Then
  <2>2. "CREATED" \in NsStates /\ "PLAY_SENT" \in NsStates
    BY DEF NsStates
  <2>3. Good(u) /\ Ready(u)
    BY <2>1, <2>2, NsSetGood
  <2>4. \A x \in NsSend(u, "PLAY_SENT") : Good(x)
    BY <2>2, <2>3, NsSendGood
  <2> QED BY <2>1, <2>3, <2>4, AbortUnlessOkGood
<1> QED BY <1>1, <1>2

(* std_result: netstatus takes its new state and calls mayhem.c.           *)
LEMMA StdResultGood ==
    ASSUME NEW w, Good(w), Ready(w), NEW v \in StdResult(w)
    PROVE  Good(v)
<1>0. /\ "CONNECTED" \in NsStates /\ "PLAYING" \in NsStates /\ "STOPPED" \in NsStates
      /\ "RESET" \in NsStates
  BY DEF NsStates
<1>1. CASE v \in ConnSuccess(w)
  <2>1. PICK u \in NsSet(w, "CONNECTED") : v = u \/ v \in NaiadSet(u)
    BY <1>1 DEF ConnSuccess, Then
  <2>2. Good(u) /\ Ready(u)
    BY <1>0, <2>1, NsSetGood
  <2> QED BY <2>1, <2>2, NaiadSetGood
<1>2. CASE v \in ConnErr(w)
  <2>1. PICK u \in NsSet(w, "CONNECTED") : v = u \/ v = RtmpDied(u)
    BY <1>2 DEF ConnErr, Then
  <2>2. Good(u)
    BY <1>0, <2>1, NsSetGood
  <2> QED BY <2>1, <2>2, DiedGood
<1>3. CASE v \in PlayStart(w)
  <2>1. PICK y \in Then(NsSet(w, "PLAYING"), LAMBDA x : MayhemSend(x, "invoke_start")) :
           v = y \/ v \in Program(y)
    BY <1>3 DEF PlayStart, Then
  <2>2. PICK u \in NsSet(w, "PLAYING") : y = u \/ y \in MayhemSend(u, "invoke_start")
    BY <2>1 DEF Then
  <2>3. Good(u) /\ Ready(u)
    BY <1>0, <2>2, NsSetGood
  <2>4. "invoke_start" \in MemoryFaults
    BY DEF MemoryFaults
  <2>5. Good(y)
    BY <2>2, <2>3, <2>4, MayhemSendIs DEF Good, Ready
  <2> QED BY <2>1, <2>5, ProgramGood
<1>4. CASE v \in PlayStop(w) \/ v \in PlayReset(w)
  <2>1. PICK u : /\ u \in NsSet(w, "STOPPED") \/ u \in NsSet(w, "RESET")
                 /\ v = u \/ v \in Program(u)
    BY <1>4 DEF PlayStop, PlayReset, Heard, Then
  <2>2. Good(u)
    BY <1>0, <2>1, NsSetGood
  <2> QED BY <2>1, <2>2, ProgramGood
<1>5. CASE v \in PlayError(w)
  <2>1. PICK u \in NsSet(w, "STOPPED") : v = u \/ v = MayhemAbort(u)
    BY <1>5 DEF PlayError, Then
  <2>2. Good(u)
    BY <1>0, <2>1, NsSetGood
  <2> QED BY <2>1, <2>2, AbortGood
<1> QED BY <1>1, <1>2, <1>3, <1>4, <1>5 DEF StdResult

LEMMA DispatchGood ==
    ASSUME NEW w, Good(w), Ready(w), NEW v \in Dispatch(w)
    PROVE  Good(v)
<1>1. CASE v \in Echo(w)
  BY <1>1, SendGood DEF Echo
<1>2. CASE v \in Heard(w)
  BY <1>2, ProgramGood DEF Heard
<1> QED BY <1>1, <1>2, ChunkSizeGood, MediaGood, AuthorizedGood, NaiadSetGood,
           CreateResultGood, StdResultGood DEF Dispatch

LEMMA ReadReportGood ==
    ASSUME NEW w, Good(w), NEW v \in ReadReport(w)
    PROVE  Good(v)
<1>1. CASE ~ w.r.due
  BY <1>1 DEF ReadReport
<1>2. CASE w.r.due
  <2>1. PICK u \in RtmpSend(w) :
           IF Sound(u) THEN v \in MayhemSend([u EXCEPT !.r.due = ~ u.ret,
                                                       !.seen.misreported = @ \/ ~ u.ret], "checkup")
           ELSE v = u
    BY <1>2 DEF ReadReport, Then
  <2>2. Good(u)
    BY <2>1, SendGood
  <2>3. CASE ~ Sound(u)
    BY <2>1, <2>2, <2>3
  <2>4. CASE Sound(u)
    <3>1. PICK t : t = [u EXCEPT !.r.due = ~ u.ret]
      OBVIOUS
    <3>2. PICK z : z = [t EXCEPT !.seen.misreported = @ \/ ~ u.ret]
      OBVIOUS
    <3>3. v \in MayhemSend(z, "checkup")
      BY <2>1, <2>4, <3>1, <3>2
    <3>4. PICK x, s : /\ x = [u.r EXCEPT !.due = ~ u.ret]
                      /\ s = [u.seen EXCEPT !.misreported = @ \/ ~ u.ret]
      OBVIOUS
    <3>5. IsWorld(u)
      BY <2>2 DEF Good, Core
    <3>6. t = Mk(x, u.m, u.ns, u.seen, u.ret)
      BY <3>1, <3>4, <3>5 DEF IsWorld, Mk
    <3>7. z = Mk(x, u.m, u.ns, s, u.ret)
      BY <3>2, <3>4, <3>6 DEF Mk
    <3>8. /\ x \in RSet /\ x.mem = u.r.mem /\ x.killed = u.r.killed
          /\ x.conn_reset = u.r.conn_reset /\ x.list = u.r.list /\ x.mask = u.r.mask
          /\ x.state = u.r.state
      BY <3>4, <3>5 DEF IsWorld, RSet
    <3>9. /\ s \in SSet /\ s.told = u.seen.told /\ s.met = u.seen.met
          /\ s.fault = u.seen.fault /\ s.astray = u.seen.astray
      BY <3>4, <3>5 DEF IsWorld, SSet
    <3>10. u.m \in MSet /\ u.ns \in NSet /\ u.ret \in BOOLEAN
      BY <3>5 DEF IsWorld
    <3>11. IsWorld(z) /\ z.r = x /\ z.m = u.m /\ z.ns = u.ns /\ z.seen = s
      BY <3>7, <3>8, <3>9, <3>10, MkIs
    <3>12. Alike(u, z) /\ z.r.state = u.r.state
      BY <3>8, <3>9, <3>11 DEF Alike
    <3>13. Good(z)
      BY <2>2, <3>12, CoreAlike DEF Good
    <3>14. "checkup" \in NullFaults
      BY DEF NullFaults
    <3> QED BY <3>3, <3>13, <3>14, MayhemSendGood
  <2> QED BY <2>3, <2>4
<1> QED BY <1>1, <1>2

(* The loop around the dispatch never meets a state it does not know, nor  *)
(* returns to a connection that is gone.                                   *)
LEMMA DrainedGood ==
    ASSUME NEW w, Good(w), Calm(w) => w.m.rtmp, NEW S, \A x \in S : Good(x),
           NEW v \in Drained(w, S)
    PROVE  Good(v)
<1>1. CASE w.r.state \in {"ABORT", "CONN_RESET"}
  <2>1. v = Fault(w, "abort in rtmp_drain_buf")
    BY <1>1 DEF Drained
  <2>2. "abort in rtmp_drain_buf" \in MemoryFaults
    BY DEF MemoryFaults
  <2>3. ~ Calm(w)
    BY <1>1 DEF Good, Stage
  <2> QED BY <2>1, <2>2, <2>3, CoreFault DEF Good
<1>2. CASE w.r.state \notin {"ABORT", "CONN_RESET"}
  <2>0. v \in Then(S, LAMBDA x : IF x.r.mem = "freed" THEN {Fault(x, "pump after free")} ELSE {x})
    BY <1>2 DEF Drained
  <2>1. PICK u \in S :
           v \in IF Sound(u)
                 THEN IF u.r.mem = "freed" THEN {Fault(u, "pump after free")} ELSE {u}
                 ELSE {u}
    BY <2>0 DEF Then
  <2>2. CASE v = u
    BY <2>1, <2>2
  <2>3. CASE u.r.mem = "freed" /\ v = Fault(u, "pump after free")
    <3>1. "pump after free" \in MemoryFaults
      BY DEF MemoryFaults
    <3>2. Good(u) /\ ~ Calm(u)
      BY <2>1, <2>3 DEF Good, Alive
    <3> QED BY <2>3, <3>1, <3>2, CoreFault DEF Good
  <2> QED BY <2>1, <2>2, <2>3
<1> QED BY <1>1, <1>2

-----------------------------------------------------------------------------
(* What every call from the event loop or the program leaves behind.       *)
Sane(w) == Core(w) /\ Stage(w)

LEMMA DropSane ==
    ASSUME NEW w, Sane(w), NEW v, v = DropOnError(w)
    PROVE  Sane(v)
<1>1. CASE ~ w.r.err \/ ~ Sound(w)
  BY <1>1 DEF DropOnError
<1>2. CASE w.r.err /\ Sound(w)
  <2>1. PICK n, s : n = NbioDel(w) /\ s = [w.seen EXCEPT !.astray = "dropped"]
    OBVIOUS
  <2>2. IsWorld(w)
    BY DEF Sane, Core
  <2>3. n = Mk(DelR(w.r), w.m, w.ns, w.seen, w.ret)
    BY <2>1, <2>2, NbioDelIs
  <2>4. v = [n EXCEPT !.seen.astray = "dropped"]
    BY <1>2, <2>1 DEF DropOnError
  <2>5. v = Mk(DelR(w.r), w.m, w.ns, s, w.ret)
    BY <2>1, <2>3, <2>4 DEF Mk
  <2>6. w.r \in RSet /\ w.m \in MSet /\ w.ns \in NSet /\ w.seen \in SSet /\ w.ret \in BOOLEAN
    BY <2>2 DEF IsWorld
  <2>7. /\ DelR(w.r) \in RSet /\ DelR(w.r).mask = "DELETED"
        /\ DelR(w.r).mem = w.r.mem /\ DelR(w.r).state = w.r.state
        /\ DelR(w.r).killed = w.r.killed
    BY <2>6, DelRIs
  <2>8. /\ s \in SSet /\ s.astray = "dropped" /\ s.met = w.seen.met
        /\ s.fault = w.seen.fault
    BY <2>1, <2>6 DEF SSet
  <2>9. IsWorld(v) /\ v.r = DelR(w.r) /\ v.m = w.m /\ v.seen = s
    BY <2>5, <2>6, <2>7, <2>8, MkIs
  <2>10. ~ Calm(v) /\ (Sound(v) <=> Sound(w))
    BY <2>8, <2>9 DEF Calm, Sound
  <2>11. MetOk(v) /\ FaultOk(v) /\ GoneOk(v)
    BY <2>7, <2>8, <2>9 DEF Sane, Core, MetOk, FaultOk, GoneOk, Gone
  <2>12. Stage(v)
    BY <2>7, <2>8, <2>9, <2>10 DEF Sane, Stage
  <2> QED BY <2>9, <2>10, <2>11, <2>12 DEF Sane, Core
<1> QED BY <1>1, <1>2

(* iop_dtor: who was told of the end, or caused it, frees last.            *)
LEMMA IopDtorSane ==
    ASSUME NEW w, Sane(w), w.r.list = "deleted" \/ ~ w.m.rtmp, NEW v, v = IopDtor(w)
    PROVE  Sane(v) /\ v.m = w.m
<1>1. PICK t : t = [w EXCEPT !.r.list = "none"]
  OBVIOUS
<1>2. PICK d : d = [t EXCEPT !.r.conn_reset = TRUE]
  OBVIOUS
<1>3. PICK x : x = [w.r EXCEPT !.list = "none", !.conn_reset = TRUE]
  OBVIOUS
<1>4. IsWorld(w)
  BY DEF Sane, Core
<1>5. t = Mk([w.r EXCEPT !.list = "none"], w.m, w.ns, w.seen, w.ret)
  BY <1>1, <1>4 DEF IsWorld, Mk
<1>6. d = Mk(x, w.m, w.ns, w.seen, w.ret)
  BY <1>2, <1>3, <1>5 DEF Mk
<1>7. w.r \in RSet /\ w.m \in MSet /\ w.ns \in NSet /\ w.seen \in SSet /\ w.ret \in BOOLEAN
  BY <1>4 DEF IsWorld
<1>8. /\ x \in RSet /\ x.mem = w.r.mem /\ x.killed = w.r.killed /\ x.list = "none"
      /\ x.mask = w.r.mask /\ x.state = w.r.state
  BY <1>3, <1>7 DEF RSet
<1>9. IsWorld(d) /\ d.r = x /\ d.m = w.m /\ d.ns = w.ns /\ d.seen = w.seen
  BY <1>6, <1>7, <1>8, MkIs
<1>10. Gone(w)
  BY DEF Sane, Core, GoneOk
<1>11. v = IF d.r.killed THEN RtmpDtor(d) ELSE d
  BY <1>1, <1>2 DEF IopDtor
<1>12. /\ IsWorld(v) /\ v.m = w.m /\ v.ns = w.ns
       /\ v.r.state = w.r.state /\ v.r.killed = w.r.killed
       /\ v.r.list = "none" /\ v.r.mask = w.r.mask
       /\ v.seen.told = w.seen.told /\ v.seen.met = w.seen.met
       /\ v.seen.astray = w.seen.astray /\ v.seen.fault = w.seen.fault
       /\ v.r.mem = "freed" => w.r.killed \/ w.r.mem = "freed"
  <2>1. CASE ~ d.r.killed
    BY <1>8, <1>9, <1>11, <2>1
  <2>2. CASE d.r.killed
    <3>1. v = RtmpDtor(d)
      BY <1>11, <2>2
    <3>2. /\ IsWorld(v) /\ v.m = d.m /\ v.ns = d.ns
          /\ v.r.state = d.r.state /\ v.r.killed = d.r.killed
          /\ v.r.list = d.r.list /\ v.r.mask = d.r.mask
          /\ v.seen.told = d.seen.told /\ v.seen.met = d.seen.met
          /\ v.seen.astray = d.seen.astray
          /\ v.seen.fault = d.seen.fault \/ d.r.list # "none"
      BY <1>9, <3>1, RtmpDtorIs
    <3> QED BY <1>8, <1>9, <2>2, <3>2
  <2> QED BY <2>1, <2>2
<1>13. (Calm(v) <=> Calm(w)) /\ (Sound(v) <=> Sound(w))
  BY <1>12 DEF Calm, Sound
<1>14. Calm(v) => Tidy(v)
  <2> SUFFICES ASSUME Calm(v) PROVE Tidy(v)
    OBVIOUS
  <2>1. Tidy(w)
    BY <1>13 DEF Sane, Core
  <2>2. ~ w.m.rtmp
    BY <2>1 DEF Tidy
  <2> QED BY <1>12, <2>1, <2>2 DEF Tidy
<1>15. MetOk(v) /\ FaultOk(v) /\ GoneOk(v)
  BY <1>10, <1>12 DEF Sane, Core, MetOk, FaultOk, GoneOk, Gone
<1>16. Stage(v)
  BY <1>12, <1>13 DEF Sane, Stage
<1> QED BY <1>12, <1>14, <1>15, <1>16 DEF Sane, Core

LEMMA AbortSane ==
    ASSUME NEW w, Sane(w)
    PROVE  Sane(MayhemAbort(w)) /\ ~ MayhemAbort(w).m.rtmp
<1>1. PICK v : v = MayhemAbort(w)
  OBVIOUS
<1>2. /\ Core(v) /\ ~ v.m.rtmp
      /\ v.r.state = w.r.state /\ v.seen.met = w.seen.met /\ (Sound(v) => Sound(w))
  BY <1>1, MayhemAbortIs DEF Sane
<1>3. Stage(v)
  BY <1>2 DEF Sane, Stage
<1> QED BY <1>1, <1>2, <1>3 DEF Sane

(* mayhem_close does what mayhem_abort does, the other way round.          *)
Closed(w) == [RtmpClose(NetstatusFree(w)) EXCEPT !.m.ns = FALSE, !.m.rtmp = FALSE]

LEMMA CloseSane ==
    ASSUME NEW w, Sane(w), NEW v, v = Closed(w)
    PROVE  Sane(v) /\ ~ v.m.rtmp
<1>1. PICK x, y : x = NetstatusFree(w) /\ y = RtmpClose(x)
  OBVIOUS
<1>2. IsWorld(w)
  BY DEF Sane, Core
<1>3. /\ IsWorld(x) /\ x.m = w.m /\ x.r = w.r
      /\ x.seen.told = w.seen.told /\ x.seen.met = w.seen.met
      /\ x.seen.astray = w.seen.astray
      /\ x.seen.fault = w.seen.fault \/ (Sound(w) /\ w.m.ns /\ w.ns.mem = "freed")
      /\ Sound(x) => Sound(w)
  BY <1>1, <1>2, NetstatusFreeIs
<1>4. /\ IsWorld(y) /\ y.m = w.m
      /\ y.r.state = w.r.state /\ y.r.mask \in {w.r.mask, "DELETED"}
      /\ y.seen.told = w.seen.told /\ y.seen.met = w.seen.met
      /\ y.seen.astray = w.seen.astray
      /\ \/ y.seen.fault = x.seen.fault
         \/ Sound(x) /\ w.m.rtmp /\ (w.r.mem = "freed" \/ w.r.conn_reset)
      /\ Sound(y) => Sound(x)
      /\ w.r.killed => y.r.killed
      /\ w.m.rtmp => y.r.killed \/ w.r.mem = "freed"
      /\ y.r.mem = "freed" => w.r.mem = "freed" \/ y.r.killed
      /\ y.r.list \in {w.r.list, "deleted"}
  BY <1>1, <1>3, RtmpCloseIs
<1>5. /\ ~ w.m.rtmp => y = x
      /\ w.m.rtmp /\ w.r.mem # "freed" /\ ~ w.r.conn_reset =>
           y.r.mem = w.r.mem /\ y.r.mask = "DELETED" /\ y.r.list = "deleted"
  BY <1>1, <1>3, RtmpCloseIs
<1>6. PICK b : b = [w.m EXCEPT !.ns = FALSE, !.rtmp = FALSE]
  OBVIOUS
<1>7. v = Mk(y.r, b, y.ns, y.seen, y.ret)
  BY <1>1, <1>4, <1>6 DEF Closed, IsWorld, Mk
<1>8. b \in MSet /\ ~ b.rtmp /\ ~ b.ns
  BY <1>2, <1>6 DEF IsWorld, MSet
<1>9. y.r \in RSet /\ y.ns \in NSet /\ y.seen \in SSet /\ y.ret \in BOOLEAN
  BY <1>4 DEF IsWorld
<1>10. IsWorld(v) /\ v.r = y.r /\ v.m = b /\ v.seen = y.seen
  BY <1>7, <1>8, <1>9, MkIs
<1>11. (Sound(v) => Sound(w)) /\ (Calm(v) => Calm(w))
  BY <1>3, <1>4, <1>10 DEF Sound, Calm
<1>12. ASSUME Calm(w)
       PROVE  Calm(v) /\ Tidy(v)
  <2>1. Tidy(w)
    BY <1>12 DEF Sane, Core
  <2>2. x.seen.fault = w.seen.fault
    BY <1>3, <2>1 DEF Tidy
  <2>3. y.seen.fault = w.seen.fault
    BY <1>4, <2>1, <2>2 DEF Tidy
  <2>4. Calm(v)
    BY <1>4, <1>10, <1>12, <2>3 DEF Calm, Sound
  <2>5. CASE w.m.rtmp
    BY <1>5, <1>8, <1>10, <2>1, <2>4, <2>5 DEF Tidy
  <2>6. CASE ~ w.m.rtmp
    BY <1>3, <1>5, <1>8, <1>10, <2>1, <2>4, <2>6 DEF Tidy
  <2> QED BY <2>5, <2>6
<1>13. FaultOk(v)
  <2>1. CASE Calm(w)
    BY <1>12, <2>1 DEF FaultOk, Calm, Sound, MemoryFaults, NoFault
  <2>2. CASE ~ Sound(w)
    BY <1>3, <1>4, <1>10, <2>2 DEF Sane, FaultOk, Core
  <2>3. CASE w.seen.astray # "none"
    BY <1>4, <1>10, <2>3 DEF FaultOk
  <2> QED BY <2>1, <2>2, <2>3 DEF Calm
<1>14. MetOk(v)
  BY <1>4, <1>10 DEF Sane, MetOk, Core
<1>15. GoneOk(v)
  <2>1. Gone(v)
    <3>1. CASE w.m.rtmp
      BY <1>4, <1>10, <3>1 DEF Sane, Core, GoneOk, Gone
    <3>2. CASE ~ w.m.rtmp
      BY <1>4, <1>10, <3>2 DEF Sane, Core, GoneOk, Gone
    <3> QED BY <3>1, <3>2
  <2>2. v.r.mem = "freed" => v.r.killed
    BY <1>4, <1>10 DEF Sane, Core, GoneOk
  <2> QED BY <2>1, <2>2 DEF GoneOk
<1>16. Stage(v)
  BY <1>4, <1>8, <1>10, <1>11 DEF Sane, Stage
<1> QED BY <1>8, <1>10, <1>11, <1>12, <1>13, <1>14, <1>15, <1>16 DEF Sane, Core

(* An io that goes to sleep or wakes up, and whose connection is there.    *)
LEMMA ListedSane ==
    ASSUME NEW w, Sane(w), Alive(w), NEW l \in {"active", "inactive"}, NEW e \in BOOLEAN,
           NEW x, x = [w.r EXCEPT !.list = l, !.err = e],
           NEW v, v = Mk(x, w.m, w.ns, w.seen, w.ret)
    PROVE  Sane(v)
<1>1. IsWorld(w)
  BY DEF Sane, Core
<1>2. w.r \in RSet /\ w.m \in MSet /\ w.ns \in NSet /\ w.seen \in SSet /\ w.ret \in BOOLEAN
  BY <1>1 DEF IsWorld
<1>3. /\ x \in RSet /\ x.mem = w.r.mem /\ x.killed = w.r.killed /\ x.list = l
      /\ x.conn_reset = w.r.conn_reset /\ x.mask = w.r.mask /\ x.state = w.r.state
  BY <1>2 DEF RSet
<1>4. IsWorld(v) /\ v.r = x /\ v.m = w.m /\ v.ns = w.ns /\ v.seen = w.seen
  BY <1>2, <1>3, MkIs
<1>5. (Calm(v) <=> Calm(w)) /\ (Sound(v) <=> Sound(w))
  BY <1>4 DEF Calm, Sound
<1>6. Calm(v) => Tidy(v)
  <2> SUFFICES ASSUME Calm(v) PROVE Tidy(v)
    OBVIOUS
  <2>1. Tidy(w) /\ w.r.mem = "live"
    BY <1>5 DEF Sane, Core, Alive
  <2>2. v.r.mem = "live" /\ v.r.list \in {"active", "inactive"}
    BY <1>3, <1>4, <2>1
  <2>3. /\ v.r.killed = w.r.killed /\ v.r.conn_reset = w.r.conn_reset
        /\ v.r.mask = w.r.mask /\ v.r.state = w.r.state /\ v.m = w.m /\ v.ns = w.ns
    BY <1>3, <1>4
  <2> QED BY <2>1, <2>2, <2>3 DEF Tidy
<1>7. MetOk(v) /\ FaultOk(v) /\ GoneOk(v)
  <2>1. MetOk(w) /\ FaultOk(w) /\ GoneOk(w)
    BY DEF Sane, Core
  <2>2. MetOk(v)
    BY <1>3, <1>4, <2>1 DEF MetOk
  <2>3. FaultOk(v)
    BY <1>4, <2>1 DEF FaultOk
  <2>4. v.r.list \notin {"deleted", "none"}
    BY <1>3, <1>4
  <2>5. GoneOk(v)
    BY <1>3, <1>4, <2>1, <2>4 DEF GoneOk, Gone
  <2> QED BY <2>2, <2>3, <2>5
<1>8. Stage(v)
  BY <1>3, <1>4, <1>5 DEF Sane, Stage
<1> QED BY <1>4, <1>6, <1>7, <1>8 DEF Sane, Core

(* An io that waits for something has a connection to call.                *)
LEMMA VisitGood ==
    ASSUME NEW w, Sane(w), w.r.mask # "DELETED"
    PROVE  Good(w) /\ (Calm(w) => w.m.rtmp)
BY DEF Sane, Good, Core, Tidy, Alive

-----------------------------------------------------------------------------
(* The first step: conn_cb sends before m knows the connection.            *)
Called(w) ==
    [w EXCEPT !.r.mem = "live", !.r.state = "HANDSHAKE_1",
              !.r.list = "active", !.r.mask = "WRITE"]

Joined(w) ==
    [w EXCEPT !.m.rtmp = TRUE,
              !.seen.astray = IF w.r.conn_reset THEN "refused" ELSE @]

(* What conn_cb has before it sends, and ...                               *)
NotJoined(w) ==
    /\ IsWorld(w) /\ Calm(w) /\ w.seen.met = 0
    /\ ~ w.m.rtmp /\ ~ w.m.ns
    /\ w.r.mem = "live" /\ ~ w.r.killed

Waiting(w) ==
    /\ ~ w.r.conn_reset /\ w.r.list \in {"active", "inactive"} /\ w.r.mask # "DELETED"
    /\ w.r.state = "HANDSHAKE_1"

(* ... what it has after it.                                               *)
Refused(w) == w.r.conn_reset /\ w.seen.told > 0 /\ w.r.mask = "DELETED"

LEMMA CalledIs ==
    ASSUME Init, NEW c, c = Called(World)
    PROVE  NotJoined(c) /\ Waiting(c) /\ c.r.mask = "WRITE"
<1>1. PICK e \in BOOLEAN : World = Mk(r, m, ns, seen, e)
  BY DEF World, Mk
<1>2. PICK t : t = [World EXCEPT !.r.mem = "live"]
  OBVIOUS
<1>3. PICK u : u = [t EXCEPT !.r.state = "HANDSHAKE_1"]
  OBVIOUS
<1>4. PICK v : v = [u EXCEPT !.r.list = "active"]
  OBVIOUS
<1>5. c = [v EXCEPT !.r.mask = "WRITE"]
  BY <1>2, <1>3, <1>4 DEF Called
<1>6. PICK x : x = [r EXCEPT !.mem = "live", !.state = "HANDSHAKE_1", !.list = "active",
                            !.mask = "WRITE"]
  OBVIOUS
<1>7. c = Mk(x, m, ns, seen, e)
  <2>1. t = Mk([r EXCEPT !.mem = "live"], m, ns, seen, e)
    BY <1>1, <1>2 DEF Mk
  <2>2. u = Mk([r EXCEPT !.mem = "live", !.state = "HANDSHAKE_1"], m, ns, seen, e)
    BY <1>3, <2>1 DEF Mk
  <2>3. v = Mk([r EXCEPT !.mem = "live", !.state = "HANDSHAKE_1", !.list = "active"],
               m, ns, seen, e)
    BY <1>4, <2>2 DEF Mk
  <2> QED BY <1>5, <1>6, <2>3 DEF Mk
<1>8. /\ x \in RSet /\ x.mem = "live" /\ x.state = "HANDSHAKE_1" /\ x.list = "active"
      /\ x.mask = "WRITE" /\ ~ x.killed /\ ~ x.conn_reset
  <2>1. r \in [mem : {"none"}, state : {"INIT"}, killed : {FALSE}, conn_reset : {FALSE},
               list : {"none"}, mask : {"NONE"}, err : BOOLEAN, due : BOOLEAN]
    BY DEF Init
  <2> QED BY <1>6, <2>1 DEF RSet
<1>9. m \in MSet /\ ~ m.rtmp /\ ~ m.ns
  BY DEF Init, MSet
<1>10. ns \in NSet
  BY DEF Init, NSet
<1>11. seen \in SSet /\ seen.met = 0 /\ seen.fault = NoFault /\ seen.astray = "none"
  BY DEF Init, SSet, Faults
<1>12. IsWorld(c) /\ c.r = x /\ c.m = m /\ c.ns = ns /\ c.seen = seen
  BY <1>7, <1>8, <1>9, <1>10, <1>11, MkIs
<1> QED BY <1>8, <1>9, <1>11, <1>12 DEF NotJoined, Waiting, Calm, Sound

LEMMA RefusedIs ==
    ASSUME NEW w, NotJoined(w), NEW s \in {"ABORT", "CONN_RESET"}, NEW v, v = Reset(w, s)
    PROVE  NotJoined(v) /\ Refused(v) /\ ~ v.ret
<1>1. PICK t, x : t = [w EXCEPT !.r.state = s] /\ x = [w.r EXCEPT !.state = s]
  OBVIOUS
<1>2. IsWorld(w)
  BY DEF NotJoined
<1>3. w.r \in RSet /\ w.m \in MSet /\ w.ns \in NSet /\ w.seen \in SSet /\ w.ret \in BOOLEAN
  BY <1>2 DEF IsWorld
<1>4. t = Mk(x, w.m, w.ns, w.seen, w.ret)
  BY <1>1, <1>2 DEF IsWorld, Mk
<1>5. x \in RSet /\ x.mem = "live" /\ ~ x.killed
  BY <1>1, <1>3 DEF NotJoined, RSet
<1>6. PICK a, y : a = [t EXCEPT !.seen.told = Again(@)] /\ y = [w.seen EXCEPT !.told = Again(@)]
  OBVIOUS
<1>7. a = Mk(x, w.m, w.ns, y, w.ret)
  BY <1>4, <1>6 DEF Mk
<1>8. /\ y \in SSet /\ y.told > 0 /\ y.met = 0
      /\ y.fault = w.seen.fault /\ y.astray = w.seen.astray
  BY <1>3, <1>6 DEF NotJoined, SSet, Again
<1>9. IsWorld(a) /\ a.r = x /\ a.m = w.m /\ a.ns = w.ns /\ a.seen = y /\ a.ret = w.ret
  BY <1>3, <1>5, <1>7, <1>8, MkIs
<1>10. ~ a.m.rtmp /\ ~ a.m.ns
  BY <1>9 DEF NotJoined
<1>11. PICK d, b : d = RtmpDied(t) /\ b = [a.m EXCEPT !.ns = FALSE, !.rtmp = FALSE]
  OBVIOUS
<1>12. d = Mk(a.r, b, a.ns, a.seen, a.ret)
  <2>1. d = MayhemAbort(a)
    BY <1>6, <1>11 DEF RtmpDied
  <2>2. NetstatusFree(RtmpClose(a)) = a
    BY <1>10 DEF NetstatusFree, RtmpClose
  <2>3. PICK f : f = [a EXCEPT !.m.ns = FALSE]
    OBVIOUS
  <2>4. d = [f EXCEPT !.m.rtmp = FALSE]
    BY <2>1, <2>2, <2>3 DEF MayhemAbort
  <2>5. a = Mk(a.r, a.m, a.ns, a.seen, a.ret)
    BY <1>9 DEF IsWorld
  <2>6. f = Mk(a.r, [a.m EXCEPT !.ns = FALSE], a.ns, a.seen, a.ret)
    BY <2>3, <2>5 DEF Mk
  <2> QED BY <1>11, <2>4, <2>6 DEF Mk
<1>13. b \in MSet /\ ~ b.rtmp /\ ~ b.ns
  BY <1>3, <1>9, <1>11 DEF MSet
<1>14. IsWorld(d) /\ d.r = x /\ d.m = b /\ d.ns = w.ns /\ d.seen = y /\ d.ret = w.ret
  BY <1>3, <1>5, <1>8, <1>9, <1>12, <1>13, MkIs
<1>15. Calm(d) /\ Sound(d)
  BY <1>8, <1>14 DEF NotJoined, Calm, Sound
<1>16. PICK e, z : e = [d EXCEPT !.r.conn_reset = TRUE] /\ z = [x EXCEPT !.conn_reset = TRUE]
  OBVIOUS
<1>17. v = Fail(NbioDel(e))
  <2>1. d = RtmpDied([w EXCEPT !.r.state = s])
    BY <1>1, <1>11
  <2> QED BY <1>5, <1>14, <1>15, <1>16, <2>1 DEF Reset
<1>18. e = Mk(z, b, w.ns, y, w.ret)
  BY <1>9, <1>12, <1>16 DEF Mk
<1>19. z \in RSet /\ z.mem = "live" /\ ~ z.killed /\ z.conn_reset
  BY <1>5, <1>16 DEF RSet
<1>20. IsWorld(e) /\ e.r = z /\ e.m = b /\ e.ns = w.ns /\ e.seen = y /\ e.ret = w.ret
  BY <1>3, <1>8, <1>13, <1>18, <1>19, MkIs
<1>21. PICK n : n = NbioDel(e)
  OBVIOUS
<1>22. n = Mk(DelR(z), b, w.ns, y, w.ret)
  BY <1>20, <1>21, NbioDelIs
<1>23. /\ DelR(z) \in RSet /\ DelR(z).mask = "DELETED" /\ DelR(z).mem = "live"
       /\ ~ DelR(z).killed /\ DelR(z).conn_reset
  BY <1>19, DelRIs
<1>24. IsWorld(n) /\ n.r = DelR(z) /\ n.m = b /\ n.seen = y
  BY <1>3, <1>8, <1>13, <1>22, <1>23, MkIs
<1>25. IsWorld(v) /\ v.r = DelR(z) /\ v.m = b /\ v.seen = y /\ ~ v.ret
  BY <1>17, <1>21, <1>24, RetMk
<1>26. Calm(v)
  BY <1>14, <1>15, <1>25 DEF Calm, Sound
<1> QED BY <1>8, <1>13, <1>23, <1>25, <1>26 DEF NotJoined, Refused

LEMMA FirstSendIs ==
    ASSUME NEW c, NotJoined(c), Waiting(c), c.r.mask = "WRITE", NEW v \in Handshake1(c)
    PROVE  NotJoined(v) /\ (Waiting(v) \/ Refused(v))
<1>0. IsWorld(c)
  BY DEF NotJoined
<1>1. c.r \in RSet /\ c.m \in MSet /\ c.ns \in NSet /\ c.seen \in SSet /\ c.ret \in BOOLEAN
  BY <1>0 DEF IsWorld
<1>2. CASE v = Reset(c, "ABORT") \/ v = Reset(c, "CONN_RESET")
  BY <1>2, RefusedIs
<1>3. CASE ~ (v = Reset(c, "ABORT") \/ v = Reset(c, "CONN_RESET"))
  <2>1. PICK u \in RtmpSend(c) :
           IF Sound(u) /\ u.ret THEN v = [SetWaitRead(u) EXCEPT !.r.state = "HANDSHAKE_1"]
           ELSE v = u
    BY <1>3 DEF Handshake1, OutOfMemory, IfOk, Then
  <2>2. CASE u = Ok(c)
    <3>1. IsWorld(u) /\ u.r = c.r /\ u.m = c.m /\ u.ns = c.ns /\ u.seen = c.seen /\ u.ret
      BY <1>0, <2>2, RetMk
    <3>2. u = Mk(c.r, c.m, c.ns, c.seen, u.ret) /\ u.ret \in BOOLEAN
      BY <3>1 DEF IsWorld
    <3>3. Sound(u) /\ u.r.mask # "DELETED"
      BY <3>1 DEF NotJoined, Calm, Sound
    <3>4. PICK p : p = [u EXCEPT !.r.list = "active"]
      OBVIOUS
    <3>5. PICK q : q = [p EXCEPT !.r.mask = "READ"]
      OBVIOUS
    <3>6. PICK y : y = [q EXCEPT !.r.err = FALSE]
      OBVIOUS
    <3>7. y = SetWaitRead(u)
      BY <3>3, <3>4, <3>5, <3>6 DEF SetWaitRead
    <3>8. v = [y EXCEPT !.r.state = "HANDSHAKE_1"]
      BY <2>1, <3>1, <3>3, <3>7
    <3>9. PICK x : x = [c.r EXCEPT !.list = "active", !.mask = "READ", !.err = FALSE,
                                   !.state = "HANDSHAKE_1"]
      OBVIOUS
    <3>10. v = Mk(x, c.m, c.ns, c.seen, u.ret)
      <4>1. p = Mk([c.r EXCEPT !.list = "active"], c.m, c.ns, c.seen, u.ret)
        BY <3>2, <3>4 DEF Mk
      <4>2. q = Mk([c.r EXCEPT !.list = "active", !.mask = "READ"], c.m, c.ns, c.seen, u.ret)
        BY <3>5, <4>1 DEF Mk
      <4>3. y = Mk([c.r EXCEPT !.list = "active", !.mask = "READ", !.err = FALSE],
                   c.m, c.ns, c.seen, u.ret)
        BY <3>6, <4>2 DEF Mk
      <4> QED BY <3>8, <3>9, <4>3 DEF Mk
    <3>11. /\ x \in RSet /\ x.mem = c.r.mem /\ x.killed = c.r.killed /\ x.list = "active"
           /\ x.conn_reset = c.r.conn_reset /\ x.mask = "READ" /\ x.state = "HANDSHAKE_1"
      BY <1>1, <3>9 DEF RSet
    <3>12. IsWorld(v) /\ v.r = x /\ v.m = c.m /\ v.seen = c.seen
      BY <1>1, <3>2, <3>10, <3>11, MkIs
    <3> QED BY <3>11, <3>12 DEF NotJoined, Waiting, Calm, Sound
  <2>3. CASE u = Fail(SleepOnWrite(c))
    <3>1. PICK x : x = [c.r EXCEPT !.list = "inactive"]
      OBVIOUS
    <3>2. SleepOnWrite(c) = Mk(x, c.m, c.ns, c.seen, c.ret)
      BY <1>0, <3>1 DEF SleepOnWrite, IsWorld, Mk
    <3>3. PICK n : n = SleepOnWrite(c)
      OBVIOUS
    <3>4. /\ x \in RSet /\ x.mem = c.r.mem /\ x.killed = c.r.killed /\ x.list = "inactive"
          /\ x.conn_reset = c.r.conn_reset /\ x.mask = "WRITE" /\ x.state = c.r.state
      BY <1>1, <3>1 DEF RSet
    <3>5. IsWorld(n) /\ n.r = x /\ n.m = c.m /\ n.seen = c.seen
      BY <1>1, <3>2, <3>3, <3>4, MkIs
    <3>6. IsWorld(u) /\ u.r = x /\ u.m = c.m /\ u.seen = c.seen /\ ~ u.ret
      BY <2>3, <3>3, <3>5, RetMk
    <3>7. v = u
      BY <2>1, <3>6
    <3> QED BY <3>4, <3>6, <3>7 DEF NotJoined, Waiting, Calm, Sound
  <2>4. CASE u = Reset(c, "ABORT") \/ u = Reset(c, "CONN_RESET")
    <3>1. NotJoined(u) /\ Refused(u) /\ ~ u.ret
      BY <2>4, RefusedIs
    <3> QED BY <2>1, <3>1
  <2> QED BY <2>1, <2>2, <2>3, <2>4 DEF RtmpSend
<1> QED BY <1>2, <1>3

LEMMA JoinedSane ==
    ASSUME NEW w, NotJoined(w), Waiting(w) \/ Refused(w), NEW v, v = Joined(w)
    PROVE  Sane(v)
<1>1. IsWorld(w)
  BY DEF NotJoined
<1>2. w.r \in RSet /\ w.m \in MSet /\ w.ns \in NSet /\ w.seen \in SSet /\ w.ret \in BOOLEAN
  BY <1>1 DEF IsWorld
<1>3. PICK t, b : t = [w EXCEPT !.m.rtmp = TRUE] /\ b = [w.m EXCEPT !.rtmp = TRUE]
  OBVIOUS
<1>4. t = Mk(w.r, b, w.ns, w.seen, w.ret)
  BY <1>1, <1>3 DEF IsWorld, Mk
<1>5. PICK a : a = IF w.r.conn_reset THEN "refused" ELSE w.seen.astray
  OBVIOUS
<1>6. PICK s : s = [w.seen EXCEPT !.astray = a]
  OBVIOUS
<1>7. v = Mk(w.r, b, w.ns, s, w.ret)
  <2>1. v = [t EXCEPT !.seen.astray = IF w.r.conn_reset THEN "refused" ELSE @]
    BY <1>3 DEF Joined
  <2> QED BY <1>4, <1>5, <1>6, <2>1 DEF Mk
<1>8. b \in MSet /\ b.rtmp /\ ~ b.ns
  BY <1>2, <1>3 DEF NotJoined, MSet
<1>9. a \in {"none", "refused"} /\ (w.r.conn_reset => a = "refused")
  BY <1>5 DEF NotJoined, Calm
<1>10. /\ s \in SSet /\ s.astray = a /\ s.told = w.seen.told /\ s.met = 0
       /\ s.fault = NoFault
  BY <1>2, <1>6, <1>9 DEF NotJoined, Calm, Sound, SSet
<1>11. IsWorld(v) /\ v.r = w.r /\ v.m = b /\ v.ns = w.ns /\ v.seen = s
  BY <1>2, <1>7, <1>8, <1>10, MkIs
<1>12. MetOk(v)
  BY <1>10, <1>11 DEF MetOk
<1>13. FaultOk(v)
  BY <1>10, <1>11 DEF FaultOk, MemoryFaults, NoFault
<1>14. GoneOk(v)
  BY <1>8, <1>10, <1>11 DEF NotJoined, Waiting, Refused, GoneOk, Gone
<1>15. Calm(v) => Tidy(v) /\ v.r.state = "HANDSHAKE_1"
  <2> SUFFICES ASSUME Calm(v) PROVE Tidy(v) /\ v.r.state = "HANDSHAKE_1"
    OBVIOUS
  <2>1. ~ w.r.conn_reset
    BY <1>9, <1>10, <1>11 DEF Calm
  <2>2. Waiting(w)
    BY <2>1 DEF Refused
  <2> QED BY <1>8, <1>11, <2>2 DEF Tidy, NotJoined, Waiting
<1>16. Stage(v)
  BY <1>10, <1>11, <1>15 DEF Stage
<1> QED BY <1>11, <1>12, <1>13, <1>14, <1>15, <1>16 DEF Sane, Core

-----------------------------------------------------------------------------
(* The inductive invariant, of the state.                                  *)
Begun ==
    /\ pc \in {"pump", "idle", "closed", "exit"}
    /\ Sane(World)
    /\ pc \in {"closed", "exit"} => ~ m.rtmp

Inv == Init \/ Begun

LEMMA Becomes ==
    ASSUME NEW w, Sane(w), Become(w)
    PROVE  Sane(World') /\ m' = w.m
<1>1. IsWorld(w)
  BY DEF Sane, Core
<1>2. PICK e \in BOOLEAN : World' = Mk(w.r, w.m, w.ns, w.seen, e)
  BY DEF World, Become, Mk
<1>3. PICK v : v = World'
  OBVIOUS
<1>4. w.r \in RSet /\ w.m \in MSet /\ w.ns \in NSet /\ w.seen \in SSet
  BY <1>1 DEF IsWorld
<1>5. IsWorld(v) /\ v.r = w.r /\ v.m = w.m /\ v.ns = w.ns /\ v.seen = w.seen
  BY <1>2, <1>4, <1>3, MkIs
<1>6. Alike(w, v) /\ v.r.state = w.r.state
  BY <1>5 DEF Alike
<1>7. Sane(v)
  BY <1>6, CoreAlike DEF Sane
<1> QED BY <1>7, <1>3 DEF Become

LEMMA Goes ==
    ASSUME NEW w, Sane(w), Become(w), pc' \in {"pump", "idle", "closed", "exit"},
           pc' \in {"closed", "exit"} => ~ w.m.rtmp
    PROVE  Begun'
<1>1. Sane(World') /\ m' = w.m
  BY Becomes
<1> QED BY <1>1 DEF Begun

LEMMA WorldIs ==
    World.r = r /\ World.m = m /\ World.ns = ns /\ World.seen = seen /\ World.ret = TRUE
BY DEF World

LEMMA ConnectStep == Init /\ Connect => Begun'
<1> SUFFICES ASSUME Init, Connect PROVE Begun'
  OBVIOUS
<1>1. PICK c : c = Called(World)
  OBVIOUS
<1>2. PICK w \in Handshake1(c) : Become(Joined(w))
  BY <1>1 DEF Connect, Called, Joined
<1>3. pc' = "pump"
  BY DEF Connect
<1>4. NotJoined(w) /\ (Waiting(w) \/ Refused(w))
  BY <1>1, <1>2, CalledIs, FirstSendIs
<1>5. PICK v : v = Joined(w)
  OBVIOUS
<1> QED BY <1>2, <1>3, <1>4, <1>5, JoinedSane, Goes

(* The callbacks of a visit, whatever they do, and then the end of it.     *)
LEMMA VisitStep == Begun /\ (IopWrite \/ ReadNothing \/ ReadEnd) => Begun'
<1> SUFFICES ASSUME Begun, IopWrite \/ ReadNothing \/ ReadEnd PROVE Begun'
  OBVIOUS
<1>1. Sane(World) /\ pc = "pump" /\ pc' = pc
  BY DEF Begun, IopWrite, ReadNothing, ReadEnd, Visit, Running
<1>2. World.r.mask # "DELETED"
  BY WorldIs DEF IopWrite, ReadNothing, ReadEnd, Visit
<1>3. Good(World)
  BY <1>1, <1>2, VisitGood
<1>4. PICK w : Sane(w) /\ Become(DropOnError(w))
  <2>1. CASE IopWrite
    <3>1. PICK w \in Handshake1(World) : Become(DropOnError(w))
      BY <2>1 DEF IopWrite
    <3>2. World.r.mask = "WRITE"
      BY <2>1, WorldIs DEF IopWrite, Visit
    <3> QED BY <1>3, <3>1, <3>2, Handshake1Good DEF Good, Sane
  <2>2. CASE ReadNothing
    <3>1. PICK v : v = [World EXCEPT !.r.list = "inactive"]
      OBVIOUS
    <3>2. Become(DropOnError(v))
      BY <2>2, <3>1 DEF ReadNothing
    <3>3. PICK e \in BOOLEAN : e = r.err
      BY <1>1, WorldIs DEF Sane, Core, IsWorld, RSet
    <3>4. PICK x : x = [r EXCEPT !.list = "inactive", !.err = e]
      OBVIOUS
    <3>5. x = [r EXCEPT !.list = "inactive"]
      <4>1. r \in RSet
        BY <1>1, WorldIs DEF Sane, Core, IsWorld
      <4> QED BY <3>3, <3>4, <4>1 DEF RSet
    <3>6. v = Mk(x, m, ns, seen, World.ret)
      BY <3>1, <3>5 DEF World, Mk
    <3>7. Sane(v)
      BY <1>1, <1>3, <3>4, <3>6, ListedSane, WorldIs DEF Good
    <3> QED BY <3>2, <3>7
  <2>3. CASE ReadEnd
    <3>1. PICK s \in {"ABORT", "CONN_RESET"} : Become(DropOnError(Reset(World, s)))
      BY <2>3 DEF ReadEnd
    <3>2. PICK w : w = Reset(World, s)
      OBVIOUS
    <3> QED BY <1>3, <3>1, <3>2, ResetIs DEF Good, Sane
  <2> QED BY <2>1, <2>2, <2>3
<1> QED BY <1>1, <1>4, DropSane, Goes

LEMMA ReadStep == Begun /\ (ReadReply \/ ReadMessage) => Begun'
<1> SUFFICES ASSUME Begun, ReadReply \/ ReadMessage PROVE Begun'
  OBVIOUS
<1>1. Sane(World) /\ pc = "pump" /\ pc' = pc
  BY DEF Begun, ReadReply, ReadMessage, Visit, Running
<1>2. World.r.mask = "READ"
  BY WorldIs DEF ReadReply, ReadMessage, Visit
<1>3. Good(World) /\ (Calm(World) => World.m.rtmp)
  BY <1>1, <1>2, VisitGood
<1>4. PICK w : Good(w) /\ Become(DropOnError(w))
  <2>1. CASE ReadReply
    <3>1. PICK w \in Drained(World, Reply(World)) : Become(DropOnError(w))
      BY <2>1 DEF ReadReply
    <3>2. World.r.state = "HANDSHAKE_1"
      BY <2>1, WorldIs DEF ReadReply
    <3>3. \A x \in Reply(World) : Good(x)
      BY <1>2, <1>3, <3>2, ReplyGood
    <3> QED BY <1>3, <3>1, <3>3, DrainedGood
  <2>2. CASE ReadMessage
    <3>1. PICK w \in Drained(World, Then(Dispatch(World), ReadReport)) : Become(DropOnError(w))
      BY <2>2 DEF ReadMessage
    <3>2. World.r.state # "HANDSHAKE_1"
      BY <2>2, WorldIs DEF ReadMessage
    <3>3. Ready(World)
      BY <1>3, <3>2 DEF Ready, Good, Core, Stage, Tidy
    <3>4. ASSUME NEW x \in Then(Dispatch(World), ReadReport)
          PROVE  Good(x)
      <4>1. PICK y \in Dispatch(World) : x = y \/ x \in ReadReport(y)
        BY <3>4 DEF Then
      <4> QED BY <1>3, <3>3, <4>1, DispatchGood, ReadReportGood
    <3> QED BY <1>3, <3>1, <3>4, DrainedGood
  <2> QED BY <2>1, <2>2
<1> QED BY <1>1, <1>4, DropSane, Goes DEF Good, Sane

(* The loop between visits.                                                *)
LEMMA LoopStep == Begun /\ (PumpEnds \/ Wake \/ MainLoop) => Begun'
<1> SUFFICES ASSUME Begun, PumpEnds \/ Wake \/ MainLoop PROVE Begun'
  OBVIOUS
<1>1. Sane(World)
  BY DEF Begun
<1>2. CASE PumpEnds
  <2>1. PICK w : w = IF r.list = "deleted" THEN IopDtor(World) ELSE World
    OBVIOUS
  <2>2. Become(w) /\ pc' = "idle"
    BY <1>2, <2>1 DEF PumpEnds
  <2>3. Sane(w)
    BY <1>1, <2>1, IopDtorSane, WorldIs
  <2> QED BY <2>2, <2>3, Goes
<1>3. CASE Wake
  <2>1. PICK e \in BOOLEAN : Become([World EXCEPT !.r.list = "active", !.r.err = e])
    BY <1>3 DEF Wake
  <2>2. pc' = "idle"
    BY <1>3 DEF Wake, Running
  <2>3. PICK t : t = [World EXCEPT !.r.list = "active"]
    OBVIOUS
  <2>4. PICK v : v = [t EXCEPT !.r.err = e]
    OBVIOUS
  <2>5. Become(v)
    BY <2>1, <2>3, <2>4
  <2>6. PICK x : x = [r EXCEPT !.list = "active", !.err = e]
    OBVIOUS
  <2>7. v = Mk(x, m, ns, seen, World.ret)
    <3>1. t = Mk([r EXCEPT !.list = "active"], m, ns, seen, World.ret)
      BY <2>3 DEF World, Mk
    <3> QED BY <2>4, <2>6, <3>1 DEF Mk
  <2>8. Alive(World)
    <3>1. r.list = "inactive" /\ r \in RSet
      BY <1>1, <1>3, WorldIs DEF Wake, Sane, Core, IsWorld
    <3> QED BY <1>1, <3>1, WorldIs DEF Sane, Core, Tidy, Alive, RSet
  <2>9. Sane(v)
    BY <1>1, <2>6, <2>7, <2>8, ListedSane, WorldIs
  <2> QED BY <2>2, <2>5, <2>9, Goes
<1>4. CASE MainLoop
  <2>1. World' = World /\ pc' = "pump"
    BY <1>4 DEF MainLoop, World
  <2> QED BY <1>1, <2>1 DEF Begun
<1> QED BY <1>2, <1>3, <1>4

(* What the program does.                                                  *)
LEMMA ProgramStep == Begun /\ (Abort \/ SndChat \/ Close \/ Fini) => Begun'
<1> SUFFICES ASSUME Begun, Abort \/ SndChat \/ Close \/ Fini PROVE Begun'
  OBVIOUS
<1>1. Sane(World)
  BY DEF Begun
<1>2. CASE Abort
  <2>1. Become(MayhemAbort(World)) /\ pc' = "idle"
    BY <1>2 DEF Abort, Running
  <2> QED BY <1>1, <2>1, AbortSane, Goes
<1>3. CASE SndChat
  <2>1. PICK w \in MayhemSend(World, "mayhem_snd_chat") : Become(w)
    BY <1>3 DEF SndChat
  <2>2. pc' = "idle"
    BY <1>3 DEF SndChat, Running
  <2>3. "mayhem_snd_chat" \in NullFaults /\ "mayhem_snd_chat" \notin MemoryFaults
    BY DEF NullFaults, MemoryFaults
  <2>4. Sane(w)
    BY <1>1, <2>1, <2>3, MayhemSendIs DEF Sane
  <2> QED BY <2>1, <2>2, <2>4, Goes
<1>4. CASE Close
  <2>1. Become(Closed(World)) /\ pc' = "closed"
    BY <1>4 DEF Close, Closed
  <2> QED BY <1>1, <2>1, CloseSane, Goes
<1>5. CASE Fini
  <2>1. PICK w : w = IF r.list = "none" THEN World ELSE IopDtor(World)
    OBVIOUS
  <2>2. Become(w) /\ pc' = "exit"
    BY <1>5, <2>1 DEF Fini
  <2>3. ~ m.rtmp
    BY <1>5 DEF Begun, Fini, Running
  <2>4. Sane(w) /\ w.m = World.m
    BY <1>1, <2>1, <2>3, IopDtorSane, WorldIs
  <2> QED BY <2>2, <2>3, <2>4, Goes, WorldIs
<1> QED BY <1>2, <1>3, <1>4, <1>5

LEMMA ClientInvariant == Spec => []Inv
<1>1. Init => Inv
  BY DEF Inv
<1>2. Inv /\ [Next]_vars => Inv'
  <2> SUFFICES ASSUME Inv, [Next]_vars PROVE Inv'
    OBVIOUS
  <2>1. CASE UNCHANGED vars
    BY <2>1 DEF vars, Inv, Init, Begun, World
  <2>2. CASE Next /\ Init
    <3>1. pc = "start"
      BY <2>2 DEF Init
    <3>2. Connect
      BY <2>2, <3>1 DEF Next, Pump, IopWrite, ReadNothing, ReadEnd, ReadReply, ReadMessage,
         Visit, PumpEnds, Wake, MainLoop, Abort, SndChat, Close, Fini, Running
    <3> QED BY <2>2, <3>2, ConnectStep DEF Inv
  <2>3. CASE Next /\ Begun
    <3>1. ~ Connect
      BY <2>3 DEF Connect, Running, Begun
    <3> QED BY <2>3, <3>1, VisitStep, ReadStep, LoopStep, ProgramStep DEF Next, Pump, Inv
  <2> QED BY <2>1, <2>2, <2>3 DEF Inv
<1> QED BY <1>1, <1>2, PTL DEF Spec

(* The variables keep their types, and nothing waits for nothing once the  *)
(* connection is there (rtmp.c:772).                                       *)
THEOREM ClientTyped == Spec => []TypeOK
<1>1. Inv => TypeOK
  <2>1. CASE Init
    <3>1. r \in [mem : {"none", "live", "freed"},
                state : {"INIT", "ABORT", "CONN_RESET", "HANDSHAKE_1", "HANDSHAKE_2"},
                killed : BOOLEAN, conn_reset : BOOLEAN,
                list : {"none", "active", "inactive", "deleted"},
                mask : {"NONE", "READ", "WRITE", "DELETED"}, err : BOOLEAN, due : BOOLEAN]
      BY <2>1 DEF Init
    <3>2. m \in MSet
      BY <2>1 DEF Init, MSet
    <3>3. ns \in NSet
      BY <2>1 DEF Init, NSet
    <3>4. seen \in SSet
      BY <2>1 DEF Init, SSet, Faults
    <3>5. pc = "start"
      BY <2>1 DEF Init
    <3> QED BY <3>1, <3>2, <3>3, <3>4, <3>5 DEF TypeOK, MSet, NSet, SSet, Faults
  <2>2. CASE Begun
    <3>1. /\ r \in RSet /\ m \in MSet /\ ns \in NSet /\ seen \in SSet
          /\ pc \in {"pump", "idle", "closed", "exit"}
      BY <2>2, WorldIs DEF Begun, Sane, Core, IsWorld
    <3>2. /\ r \in [mem : {"none", "live", "freed"},
                    state : {"INIT", "ABORT", "CONN_RESET", "HANDSHAKE_1", "HANDSHAKE_2"},
                    killed : BOOLEAN, conn_reset : BOOLEAN,
                    list : {"none", "active", "inactive", "deleted"},
                    mask : {"NONE", "READ", "WRITE", "DELETED"}, err : BOOLEAN, due : BOOLEAN]
          /\ r.mask # "NONE"
      BY <3>1 DEF RSet
    <3> QED BY <3>1, <3>2 DEF TypeOK, MSet, NSet, SSet, Faults
  <2> QED BY <2>1, <2>2 DEF Inv
<1> QED BY <1>1, ClientInvariant, PTL

(* While seen.astray is "none" and there was no fault: between calls, what *)
(* mayhem.c points to is there and has not ended, and what is freed is on  *)
(* no list (mayhem.c:45, rtmp.c:775, 894).  A connection that was refused  *)
(* at once, whose connect request could not be sent, or that the loop      *)
(* dropped is astray, and nothing is said of it.                           *)
THEOREM PointersStaySound == Spec => []PointersSound
<1>1. Inv => PointersSound
  <2>1. CASE Init
    BY <2>1 DEF Init, PointersSound
  <2>2. CASE Begun
    <3>1. seen.fault = NoFault /\ seen.astray = "none" => Tidy(World)
      BY <2>2, WorldIs DEF Begun, Sane, Core, Calm, Sound
    <3> QED BY <3>1, WorldIs DEF Tidy, PointersSound
  <2> QED BY <2>1, <2>2 DEF Inv
<1> QED BY <1>1, ClientInvariant, PTL

(* While seen.astray is "none", no sequence of callbacks, resets, aborts   *)
(* and closes frees anything twice, or uses or frees what another layer    *)
(* still holds (rtmp.c:775, 894, 906; mayhem.c:45).  Not covered: what     *)
(* follows a connect request that could not be sent, which is freed twice  *)
(* (mayhem.c:645), and calls through the NULL in m->rtmp (NullFaults).     *)
THEOREM NoMemoryFaults == Spec => []NoMemoryFault
<1>1. Inv => NoMemoryFault
  <2>1. CASE Init
    BY <2>1 DEF Init, NoMemoryFault, NoFault, MemoryFaults
  <2>2. CASE Begun
    BY <2>2, WorldIs DEF Begun, Sane, Core, FaultOk, NoMemoryFault
  <2> QED BY <2>1, <2>2 DEF Inv
<1> QED BY <1>1, ClientInvariant, PTL

(* A connection that leaves the event loop other than by the loop's own    *)
(* drop on an error was closed by the program, or the program was told     *)
(* (rtmp.c:906-922).                                                       *)
THEOREM ConnectionNeverVanishes == Spec => []NeverVanishes
<1>1. Inv => NeverVanishes
  <2>1. CASE Init
    BY <2>1 DEF Init, NeverVanishes
  <2>2. CASE Begun
    BY <2>2, WorldIs DEF Begun, Sane, Core, GoneOk, Gone, NeverVanishes
  <2> QED BY <2>1, <2>2 DEF Inv
<1> QED BY <1>1, ClientInvariant, PTL

(* The connected callback runs at most once, although the state that says  *)
(* it has run is overwritten (rtmp.c:311-331, 940).                        *)
THEOREM ConnectedOnceOnly == Spec => []ConnectedOnce
<1>1. Inv => ConnectedOnce
  <2>1. CASE Init
    BY <2>1 DEF Init, ConnectedOnce
  <2>2. CASE Begun
    BY <2>2, WorldIs DEF Begun, Sane, Core, MetOk, ConnectedOnce
  <2> QED BY <2>1, <2>2 DEF Inv
<1> QED BY <1>1, ClientInvariant, PTL
=============================================================================
