---------------------------- MODULE LimitsProofs ----------------------------
(* Two properties that runs show violated, and how far they hold: the read *)
(* reports until the counter of 32 bits is at its end, and the poll plugin *)
(* while the program has one connection, which is all the client makes.    *)
EXTENDS NbioPoll, Integers, FiniteSetTheorems, TLAPS

CONSTANTS W, F, Sizes
VARIABLES nbytes, nbytes_update, since, asked

Report == INSTANCE ReadReport

-----------------------------------------------------------------------------
(* Neither the next message nor the next report is past the counter's end. *)
FarFromEnd == \A n \in Sizes \cup {F} : nbytes + n < W

Counted ==
    /\ nbytes \in Nat /\ nbytes_update \in Nat /\ nbytes_update <= nbytes
    /\ since = Report!AtMost(nbytes - nbytes_update)
    /\ Report!EveryMegabyte

(* A message of any size, and what is done about a report.                 *)
LEMMA DispatchCounts ==
    ASSUME W \in Nat, F \in Nat \ {0}, Counted, FarFromEnd,
           NEW sz \in Nat, Report!rtmp_dispatch(nbytes + sz, Report!AtMost(since + sz))
    PROVE  Counted'
<1>1. PICK n : n = nbytes + sz /\ nbytes' = n
  BY DEF Report!rtmp_dispatch
<1>2. n \in Nat /\ nbytes_update <= n
  BY <1>1 DEF Counted
<1>3. Report!AtMost(since + sz) = Report!AtMost(n - nbytes_update)
  BY <1>1 DEF Counted, Report!AtMost, Report!Much
<1>4. nbytes_update + F \in 0..(W - 1)
  BY DEF Counted, FarFromEnd
<1>5. (nbytes_update + F) % W = nbytes_update + F
  BY <1>4
<1>6. CASE Report!Due(n) /\ Report!send_read_report(n, Report!AtMost(since + sz))
  BY <1>1, <1>2, <1>3, <1>6 DEF Counted, Report!send_read_report, Report!AtMost, Report!Much,
     Report!EveryMegabyte
<1>7. CASE /\ ~ Report!Due(n) /\ since' = Report!AtMost(since + sz)
           /\ UNCHANGED nbytes_update
  <2>1. n - nbytes_update < F
    BY <1>2, <1>5, <1>7 DEF Report!Due, Counted
  <2> QED BY <1>1, <1>2, <1>3, <1>7, <2>1 DEF Counted, Report!AtMost, Report!Much,
             Report!EveryMegabyte
<1> QED BY <1>1, <1>6, <1>7 DEF Report!rtmp_dispatch

(* "send read updates every 1MB" (rtmp.c:24) holds for as long as the      *)
(* counter of 32 bits does not come to its end (rtmp.c:502): in the first  *)
(* four gigabytes of a connection.                                         *)
THEOREM ReportsUntilTheEnd ==
    ASSUME W \in Nat, F \in Nat \ {0}, Sizes \subseteq Nat
    PROVE  Report!Spec /\ []FarFromEnd => []Report!EveryMegabyte
<1>1. Report!Init => Counted
  BY DEF Report!Init, Counted, Report!AtMost, Report!Much, Report!EveryMegabyte
<1>2. Counted /\ FarFromEnd /\ [Report!Next]_Report!vars => Counted'
  <2> SUFFICES ASSUME Counted, FarFromEnd, [Report!Next]_Report!vars
               PROVE  Counted'
    OBVIOUS
  <2>1. CASE UNCHANGED Report!vars
    BY <2>1 DEF Report!vars, Counted, Report!EveryMegabyte, Report!AtMost, Report!Much
  <2>2. CASE Report!Media
    <3>1. PICK sz \in Sizes :
             Report!rtmp_dispatch((nbytes + sz) % W, Report!AtMost(since + sz))
      BY <2>2 DEF Report!Media
    <3>2. nbytes + sz \in 0..(W - 1)
      BY DEF Counted, FarFromEnd
    <3>3. (nbytes + sz) % W = nbytes + sz
      BY <3>2
    <3> QED BY <3>1, <3>3, DispatchCounts
  <2>3. CASE Report!Other
    <3>1. Report!rtmp_dispatch(nbytes, since)
      BY <2>3 DEF Report!Other
    <3>2. nbytes + 0 = nbytes /\ Report!AtMost(since + 0) = since
      BY DEF Counted, Report!AtMost, Report!Much
    <3>3. Report!rtmp_dispatch(nbytes + 0, Report!AtMost(since + 0))
      BY <3>1, <3>2
    <3> QED BY <3>3, DispatchCounts
  <2> QED BY <2>1, <2>2, <2>3 DEF Report!Next
<1>3. Counted => Report!EveryMegabyte
  BY DEF Counted
<1> QED BY <1>1, <1>2, <1>3, PTL DEF Report!Spec

-----------------------------------------------------------------------------
(* One connection runs and has no slot, or sleeps and has the first.       *)
OneSlot(n) ==
    /\ num_pfd \in {0, 1} /\ pfd \in [Slots -> {n, NoFd}] /\ poll \in [{n} -> Nat]
    /\ \/ active = {n} /\ inactive = << >> /\ num_pfd = 0
       \/ active = {} /\ inactive = <<n>> /\ num_pfd = 1 /\ pfd[0] = n /\ poll[n] = 0

LEMMA ScanOfOne ==
    ASSUME NEW n, inactive = <<n>>, NEW events
    PROVE  Scan(events) = Visit(n, [fds |-> pfd, k |-> 0, left |-> << >>, woken |-> {}], events)
<1>1. PICK st : st = [fds |-> pfd, k |-> 0, left |-> << >>, woken |-> {}]
  OBVIOUS
<1> DEFINE step(g) == [i \in 0 .. Len(inactive) |->
                         IF i = 0 THEN [fds |-> pfd, k |-> 0, left |-> << >>, woken |-> {}]
                         ELSE Visit(inactive[i], g[i - 1], events)]
           walk == CHOOSE g : g = step(g)
<1>2. Scan(events) = walk[Len(inactive)]
  BY DEF Scan
<1>3. Len(inactive) = 1 /\ inactive[1] = n
  OBVIOUS
<1>4. \A g : step(g) = [i \in 0 .. 1 |-> IF i = 0 THEN st ELSE Visit(inactive[i], g[i - 1], events)]
  BY <1>1, <1>3
<1>5. PICK h : h = [i \in 0 .. 1 |-> IF i = 0 THEN st ELSE Visit(n, st, events)]
  OBVIOUS
<1>6. h = step(h)
  BY <1>3, <1>4, <1>5
<1>7. walk = step(walk)
  BY <1>6
<1>8. PICK g : g = walk
  OBVIOUS
<1>9. g = [i \in 0 .. 1 |-> IF i = 0 THEN st ELSE Visit(inactive[i], g[i - 1], events)]
  <2> HIDE DEF walk, step
  <2>1. g = step(g)
    BY <1>7, <1>8
  <2> QED BY <1>4, <2>1
<1> HIDE DEF walk, step
<1>10. g[0] = st
  BY <1>9
<1>11. g[1] = Visit(n, g[0], events)
  BY <1>3, <1>9
<1> QED BY <1>1, <1>2, <1>3, <1>8, <1>10, <1>11

(* "Pump events" (nbio.c:12) and the fd of the sleeping io is among those  *)
(* that poll() is given: true of the poll plugin with one connection       *)
(* (nbio-poll.c:76-107).                                                   *)
THEOREM OneConnectionPolled ==
    ASSUME Cardinality(Ios) = 1, IsFiniteSet(Ios)
    PROVE  Spec => []StaysRegistered
<1>1. PICK n : Ios = {n}
  BY FS_Singleton
<1>2. MaxSlots = 2 /\ NoSlot = 2 /\ Slots = 0..1
  BY DEF MaxSlots, NoSlot, Slots
<1>3. Init => OneSlot(n)
  BY <1>1, <1>2 DEF Init, OneSlot
<1>4. OneSlot(n) /\ [Next]_vars => OneSlot(n)'
  <2> SUFFICES ASSUME OneSlot(n), [Next]_vars PROVE OneSlot(n)'
    OBVIOUS
  <2>1. CASE UNCHANGED vars
    BY <2>1 DEF vars, OneSlot
  <2>2. CASE Sleep(n)
    <3>1. active = {n} /\ inactive = << >> /\ num_pfd = 0
      BY <2>2 DEF Sleep, OneSlot
    <3>2. active' = {} /\ inactive' = <<n>>
      BY <2>2, <3>1 DEF Sleep
    <3>3. pfd' = [pfd EXCEPT ![0] = n] /\ poll' = [poll EXCEPT ![n] = 0] /\ num_pfd' = 1
      BY <2>2, <3>1 DEF Sleep, PollInactive
    <3> QED BY <1>2, <3>2, <3>3 DEF OneSlot
  <2>3. CASE Arrive(n)
    BY <2>3 DEF Arrive, OneSlot
  <2>4. CASE PollPump
    <3>1. inactive = <<n>> /\ num_pfd = 1 /\ pfd[0] = n /\ poll[n] = 0 /\ active = {}
      BY <2>4 DEF PollPump, OneSlot
    <3> DEFINE fired  == {s \in Slots : s < num_pfd /\ pfd[s] \in readable}
               events == fired \cup {s \in revents : s >= num_pfd}
    <3>2. /\ fired # {} /\ num_pfd' = Scan(events).k /\ pfd' = Scan(events).fds
          /\ active' = Scan(events).woken
          /\ poll' = [x \in Ios |-> IF x \in Scan(events).woken THEN NoSlot ELSE poll[x]]
          /\ inactive' = Scan(events).left
      BY <2>4 DEF PollPump
    <3>3. 0 \in events
      BY <1>2, <3>1, <3>2
    <3>4. PICK e : e = Scan(events)
      OBVIOUS
    <3>5. e = [fds |-> pfd, k |-> 0, left |-> << >>, woken |-> {n}]
      <4> HIDE DEF events
      <4>1. e = Visit(n, [fds |-> pfd, k |-> 0, left |-> << >>, woken |-> {}], events)
        BY <3>1, <3>4, ScanOfOne
      <4>2. poll[n] # NoSlot /\ poll[n] \in events
        BY <1>2, <3>1, <3>3
      <4> QED BY <4>1, <4>2 DEF Visit
    <3>6. e.fds = pfd /\ e.k = 0 /\ e.woken = {n} /\ e.left = << >>
      BY <3>5
    <3>7. inactive' = << >>
      BY <3>2, <3>4, <3>6
    <3> HIDE DEF events, fired
    <3>8. pfd' = pfd /\ num_pfd' = 0 /\ active' = {n}
      BY <3>2, <3>4, <3>6
    <3>9. poll' \in [{n} -> Nat]
      BY <1>1, <1>2, <3>2 DEF OneSlot
    <3> QED BY <3>7, <3>8, <3>9 DEF OneSlot
  <2> QED BY <1>1, <2>1, <2>2, <2>3, <2>4 DEF Next
<1>5. OneSlot(n) => StaysRegistered
  BY <1>2 DEF OneSlot, StaysRegistered, Elems
<1> QED BY <1>3, <1>4, <1>5, PTL DEF Spec
=============================================================================
