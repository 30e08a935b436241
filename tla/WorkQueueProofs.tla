--------------------------- MODULE WorkQueueProofs --------------------------
(* Proofs about the worker threads, for every number of hosts, workers,    *)
(* clicks and images.  The invariant that carries them says of each thread *)
(* in a section under a lock that it has that lock, of each that is        *)
(* pushing that it has a WebConn to push to, and the two properties.       *)
EXTENDS WorkQueue, SequenceTheorems, TLAPS

Aimed ==
    \A t \in Threads :
        pc[t] \in {"push", "append", "set"} => req[t].conn \in Conns

Exclusive ==
    /\ \A t \in Threads : At(t, "append") => lock[req[t].conn] = t
    /\ \A c \in Conns : At(c, "pop") => lock[c] = c

Inv == TypeOK /\ Aimed /\ Exclusive /\ NoLostWakeup /\ LockOrder

USE DEF At, Goto

LEMMA Names == Gtk \notin Conns /\ Gtk # Nobody /\ Nobody \notin Conns /\ Nobody \notin Threads
<1> QED BY NamesAssumption DEF Gtk, Nobody, Threads

(* A thread that is not about to set an event moves on, and leaves queues  *)
(* and events alone: no wakeup is lost.                                    *)
LEMMA WakeupKept ==
    ASSUME NEW t \in Threads, NoLostWakeup, pc[t] # "set",
           UNCHANGED <<queue, event>>,
           \A u \in Threads : u # t => pc'[u] = pc[u] /\ req'[u] = req[u]
    PROVE  NoLostWakeup'
<1> SUFFICES ASSUME NEW d \in Conns, queue[d] # << >>
             PROVE  event[d] \/ \E u \in Threads : pc'[u] = "set" /\ req'[u].conn = d
  BY DEF NoLostWakeup
<1>1. event[d] \/ \E u \in Threads : pc[u] = "set" /\ req[u].conn = d
  BY Zenon DEF NoLostWakeup
<1> QED BY <1>1

(* LockOrder in its two parts.                                             *)
QueueLocks ==
    \A c \in Conns : lock[c] # Nobody =>
        \/ lock[c] \in Threads /\ pc[lock[c]] = "append" /\ req[lock[c]].conn = c
        \/ lock[c] = c /\ pc[c] \in {"pop", "dead"}

GdkSections(t) ==
    IF t = Gtk THEN {"get", "create", "push", "append", "set"} ELSE {"leave", "dead"}

GdkLock == gdk # Nobody => gdk \in Threads /\ pc[gdk] \in GdkSections(gdk)

LEMMA OrderParts == TypeOK => (LockOrder <=> QueueLocks /\ GdkLock)
<1> SUFFICES ASSUME TypeOK PROVE LockOrder <=> QueueLocks /\ GdkLock
  OBVIOUS
<1>1. (gdk # Nobody => gdk \in Threads) /\ \A c \in Conns : lock[c] # Nobody => lock[c] \in Threads
  BY DEF TypeOK
<1> QED BY <1>1 DEF LockOrder, QueueLocks, GdkLock, GdkSections

(* A thread outside the sections under a queue's lock moves on.            *)
LEMMA QueueLocksKept ==
    ASSUME NEW t \in Threads, QueueLocks, pc[t] \notin {"append", "pop", "dead"},
           UNCHANGED lock,
           \A u \in Threads : u # t => pc'[u] = pc[u] /\ req'[u] = req[u]
    PROVE  QueueLocks'
<1> QED BY DEF QueueLocks, Threads

(* A thread that moves inside the section under GDK's lock, or outside.    *)
LEMMA GdkLockKept ==
    ASSUME NEW t \in Threads, GdkLock, UNCHANGED gdk,
           \A u \in Threads : u # t => pc'[u] = pc[u],
           pc[t] \in GdkSections(t) => pc'[t] \in GdkSections(t)
    PROVE  GdkLock'
<1> QED BY DEF GdkLock

(* Pushing: steps of any thread.                                           *)
LEMMA GetConnKeeps == ASSUME NEW t \in Threads, Inv, GetConn(t) PROVE Inv'
<1> USE Names DEF Threads
<1>0. QueueLocks /\ GdkLock
  BY OrderParts DEF Inv
<1>1. TypeOK'
  <2>1. req[t] \in [kind : Kinds, host : Hosts, conn : Conns \cup {Nobody}]
    BY DEF Inv, TypeOK
  <2>2. dict[req[t].host] \in Conns \cup {Nobody}
    BY <2>1 DEF Inv, TypeOK
  <2>3. req' \in [Threads -> [kind : Kinds, host : Hosts, conn : Conns \cup {Nobody}]]
    BY <2>1, <2>2 DEF Inv, TypeOK, GetConn
  <2> QED BY <2>3 DEF Inv, TypeOK, GetConn
<1>2. Aimed'
  BY DEF Inv, TypeOK, Aimed, GetConn, Request
<1>3. Exclusive'
  BY DEF Inv, TypeOK, Aimed, Exclusive, LockOrder, GetConn, Request
<1>4. NoLostWakeup'
  <2>1. /\ t \in Threads /\ pc[t] # "set" /\ UNCHANGED <<queue, event>>
        /\ \A u \in Threads : u # t => pc'[u] = pc[u] /\ req'[u] = req[u]
    BY DEF Inv, TypeOK, GetConn
  <2> QED BY <2>1, WakeupKept DEF Inv
<1>5. LockOrder'
  <2>1. QueueLocks'
    <3>1. /\ t \in Threads /\ pc[t] \notin {"append", "pop", "dead"} /\ UNCHANGED lock
          /\ \A u \in Threads : u # t => pc'[u] = pc[u] /\ req'[u] = req[u]
      BY DEF Inv, TypeOK, GetConn
    <3> QED BY <1>0, <3>1, QueueLocksKept
  <2>2. GdkLock'
    <3>1. /\ t \in Threads /\ UNCHANGED gdk
          /\ \A u \in Threads : u # t => pc'[u] = pc[u]
          /\ pc[t] \in GdkSections(t) => pc'[t] \in GdkSections(t)
      BY DEF Inv, TypeOK, GdkSections, GetConn
    <3> QED BY <1>0, <3>1, GdkLockKept
  <2> QED BY <1>1, <2>1, <2>2, OrderParts, PTL
<1> QED BY <1>1, <1>2, <1>3, <1>4, <1>5 DEF Inv

LEMMA CreateConnKeeps == ASSUME NEW t \in Threads, Inv, CreateConn(t) PROVE Inv'
<1> USE Names DEF Threads
<1>0. QueueLocks /\ GdkLock
  BY OrderParts DEF Inv
<1>b. PICK c \in Conns :
         /\ c # t /\ pc[c] = "unborn" /\ pc[t] = "create" /\ c \in Threads
         /\ dict' = [dict EXCEPT ![req[t].host] = c]
         /\ req' = [req EXCEPT ![t].conn = c]
         /\ pc' = [pc EXCEPT ![c] = "wait", ![t] = "push"]
         /\ UNCHANGED <<queue, event, lock, gdk, job, left>>
  BY DEF CreateConn
<1>m. /\ pc'[c] = "wait" /\ pc'[t] = "push"
      /\ \A u \in Threads : u # c /\ u # t => pc'[u] = pc[u]
  BY <1>b DEF Inv, TypeOK
<1>r. /\ req[t] \in [kind : Kinds, host : Hosts, conn : Conns \cup {Nobody}]
      /\ req'[t].conn = c
      /\ \A u \in Threads : u # t => req'[u] = req[u]
  BY <1>b DEF Inv, TypeOK
<1>1. TypeOK'
  <2>1. req' \in [Threads -> [kind : Kinds, host : Hosts, conn : Conns \cup {Nobody}]]
    BY <1>b, <1>r DEF Inv, TypeOK
  <2>2. dict' \in [Hosts -> Conns \cup {Nobody}]
    BY <1>b, <1>r DEF Inv, TypeOK
  <2>3. pc' \in [Threads -> {"unborn", "get", "create", "push", "append", "set", "loop", "wait",
                           "lock", "pop", "work", "images", "enter", "leave", "dead"}]
    BY <1>b DEF Inv, TypeOK
  <2> QED BY <1>b, <2>1, <2>2, <2>3 DEF Inv, TypeOK
<1>2. Aimed'
  BY <1>b, <1>m, <1>r DEF Inv, Aimed
<1>3. Exclusive'
  BY <1>b, <1>m, <1>r, ZenonT(30) DEF Inv, Exclusive
<1>4. NoLostWakeup'
  <2>1. SUFFICES ASSUME NEW d \in Conns, queue[d] # << >>
                 PROVE  event[d] \/ \E u \in Threads : pc'[u] = "set" /\ req'[u].conn = d
    BY <1>b DEF NoLostWakeup
  <2>2. event[d] \/ \E u \in Threads : pc[u] = "set" /\ req[u].conn = d
    BY <2>1, Zenon DEF Inv, NoLostWakeup
  <2> QED BY <1>b, <1>m, <1>r, <2>2
<1>5. LockOrder'
  <2>1. QueueLocks'
    <3>1. SUFFICES ASSUME NEW d \in Conns, lock[d] # Nobody
                   PROVE  \/ lock[d] \in Threads /\ pc'[lock[d]] = "append" /\ req'[lock[d]].conn = d
                          \/ lock[d] = d /\ pc'[d] \in {"pop", "dead"}
      BY <1>b DEF QueueLocks
    <3>2. \/ lock[d] \in Threads /\ pc[lock[d]] = "append" /\ req[lock[d]].conn = d
          \/ lock[d] = d /\ pc[d] \in {"pop", "dead"}
      BY <1>0, <3>1 DEF QueueLocks
    <3>3. CASE lock[d] \in Threads /\ pc[lock[d]] = "append" /\ req[lock[d]].conn = d
      BY <1>b, <1>m, <1>r, <3>3
    <3>4. CASE lock[d] = d /\ pc[d] \in {"pop", "dead"}
      BY <1>b, <1>m, <3>4
    <3> QED BY <3>2, <3>3, <3>4
  <2>2. GdkLock'
    <3>1. SUFFICES ASSUME gdk # Nobody
                   PROVE  gdk \in Threads /\ pc'[gdk] \in GdkSections(gdk)
      BY <1>b DEF GdkLock, GdkSections
    <3>2. gdk \in Threads /\ pc[gdk] \in GdkSections(gdk)
      BY <1>0, <3>1 DEF GdkLock
    <3>3. pc[c] \notin GdkSections(c)
      BY <1>b DEF GdkSections
    <3>4. pc[t] \in GdkSections(t) => "push" \in GdkSections(t)
      BY <1>b DEF GdkSections
    <3>5. CASE gdk = t
      BY <1>m, <3>2, <3>4, <3>5
    <3>6. CASE gdk # t
      BY <1>m, <3>2, <3>3, <3>6
    <3> QED BY <3>5, <3>6
  <2> QED BY <1>1, <2>1, <2>2, OrderParts, PTL
<1> QED BY <1>1, <1>2, <1>3, <1>4, <1>5 DEF Inv

LEMMA PushLockKeeps == ASSUME NEW t \in Threads, Inv, PushLock(t) PROVE Inv'
<1> USE Names DEF Threads
<1>0. QueueLocks /\ GdkLock
  BY OrderParts DEF Inv
<1>1. TypeOK'
  BY DEF Inv, TypeOK, Aimed, PushLock, Request
<1>2. Aimed'
  BY DEF Inv, TypeOK, Aimed, PushLock, Request
<1>3. Exclusive'
  BY DEF Inv, TypeOK, Aimed, Exclusive, LockOrder, PushLock, Request
<1>4. NoLostWakeup'
  <2>1. /\ t \in Threads /\ pc[t] # "set" /\ UNCHANGED <<queue, event>>
        /\ \A u \in Threads : u # t => pc'[u] = pc[u] /\ req'[u] = req[u]
    BY DEF Inv, TypeOK, PushLock
  <2> QED BY <2>1, WakeupKept DEF Inv
<1>5. LockOrder'
  <2>1. QueueLocks'
    BY <1>0 DEF Inv, TypeOK, Aimed, QueueLocks, PushLock, Request
  <2>2. GdkLock'
    <3>1. /\ t \in Threads /\ UNCHANGED gdk
          /\ \A u \in Threads : u # t => pc'[u] = pc[u]
          /\ pc[t] \in GdkSections(t) => pc'[t] \in GdkSections(t)
      BY DEF Inv, TypeOK, GdkSections, PushLock
    <3> QED BY <1>0, <3>1, GdkLockKept
  <2> QED BY <1>1, <2>1, <2>2, OrderParts, PTL
<1> QED BY <1>1, <1>2, <1>3, <1>4, <1>5 DEF Inv

LEMMA PushAppendKeeps == ASSUME NEW t \in Threads, Inv, PushAppend(t) PROVE Inv'
<1> USE Names DEF Threads
<1>0. QueueLocks /\ GdkLock
  BY OrderParts DEF Inv
<1>1. TypeOK'
  BY DEF Inv, TypeOK, Aimed, PushAppend, Request
<1>2. Aimed'
  BY DEF Inv, TypeOK, Aimed, PushAppend, Request
<1>3. Exclusive'
  BY DEF Inv, TypeOK, Aimed, Exclusive, LockOrder, PushAppend, Request
<1>4. NoLostWakeup'
  <2>1. req[t].conn \in Conns /\ pc'[t] = "set" /\ req' = req /\ event' = event
    BY DEF Inv, TypeOK, Aimed, PushAppend
  <2>2. SUFFICES ASSUME NEW d \in Conns, d # req[t].conn, queue'[d] # << >>
                 PROVE  event'[d] \/ \E u \in Threads : pc'[u] = "set" /\ req'[u].conn = d
    BY <2>1 DEF NoLostWakeup
  <2>3. queue[d] # << >>
    BY <2>1, <2>2 DEF Inv, TypeOK, PushAppend
  <2>4. event[d] \/ \E u \in Threads : pc[u] = "set" /\ req[u].conn = d
    BY <2>3, Zenon DEF Inv, NoLostWakeup
  <2>5. \A u \in Threads : pc[u] = "set" => pc'[u] = "set"
    BY DEF Inv, TypeOK, PushAppend
  <2> QED BY <2>1, <2>4, <2>5
<1>5. LockOrder'
  <2>1. QueueLocks'
    BY <1>0 DEF Inv, TypeOK, Aimed, QueueLocks, PushAppend, Request
  <2>2. GdkLock'
    <3>1. /\ t \in Threads /\ UNCHANGED gdk
          /\ \A u \in Threads : u # t => pc'[u] = pc[u]
          /\ pc[t] \in GdkSections(t) => pc'[t] \in GdkSections(t)
      BY DEF Inv, TypeOK, GdkSections, PushAppend
    <3> QED BY <1>0, <3>1, GdkLockKept
  <2> QED BY <1>1, <2>1, <2>2, OrderParts, PTL
<1> QED BY <1>1, <1>2, <1>3, <1>4, <1>5 DEF Inv

LEMMA PushSetKeeps == ASSUME NEW t \in Threads, Inv, PushSet(t) PROVE Inv'
<1> USE Names DEF Threads
<1>0. QueueLocks /\ GdkLock
  BY OrderParts DEF Inv
<1>1. TypeOK'
  BY DEF Inv, TypeOK, Aimed, PushSet, Request
<1>2. Aimed'
  BY DEF Inv, TypeOK, Aimed, PushSet, Request
<1>3. Exclusive'
  BY DEF Inv, TypeOK, Aimed, Exclusive, LockOrder, PushSet, Request
<1>4. NoLostWakeup'
  <2>1. /\ req[t].conn \in Conns /\ req' = req /\ queue' = queue
        /\ event'[req[t].conn] /\ \A d \in Conns : d # req[t].conn => event'[d] = event[d]
    BY DEF Inv, TypeOK, Aimed, PushSet
  <2>2. SUFFICES ASSUME NEW d \in Conns, d # req[t].conn, queue[d] # << >>
                 PROVE  event'[d] \/ \E u \in Threads : pc'[u] = "set" /\ req'[u].conn = d
    BY <2>1 DEF NoLostWakeup
  <2>3. event[d] \/ \E u \in Threads : pc[u] = "set" /\ req[u].conn = d
    BY <2>2, Zenon DEF Inv, NoLostWakeup
  <2>4. \A u \in Threads : u # t => pc'[u] = pc[u]
    BY DEF Inv, TypeOK, PushSet
  <2> QED BY <2>1, <2>2, <2>3, <2>4
<1>5. LockOrder'
  <2>1. QueueLocks'
    <3>1. /\ t \in Threads /\ pc[t] \notin {"append", "pop", "dead"} /\ UNCHANGED lock
          /\ \A u \in Threads : u # t => pc'[u] = pc[u] /\ req'[u] = req[u]
      BY DEF Inv, TypeOK, PushSet
    <3> QED BY <1>0, <3>1, QueueLocksKept
  <2>2. GdkLock'
    <3>1. CASE t = Gtk
      BY <3>1 DEF PushSet, GdkLock
    <3>2. CASE t # Gtk
      <4>1. /\ UNCHANGED gdk /\ pc[t] \notin GdkSections(t)
            /\ \A u \in Threads : u # t => pc'[u] = pc[u]
        BY <3>2 DEF Inv, TypeOK, PushSet, GdkSections
      <4> QED BY <1>0, <4>1, GdkLockKept
    <3> QED BY <3>1, <3>2
  <2> QED BY <1>1, <2>1, <2>2, OrderParts, PTL
<1> QED BY <1>1, <1>2, <1>3, <1>4, <1>5 DEF Inv

(* Steps of a worker.                                                      *)
LEMMA WaitKeeps == ASSUME NEW c \in Conns, Inv, Wait(c) PROVE Inv'
<1> USE Names DEF Threads
<1>0. QueueLocks /\ GdkLock
  BY OrderParts DEF Inv
<1>1. TypeOK'
  BY DEF Inv, TypeOK, Aimed, Wait, Request
<1>2. Aimed'
  BY DEF Inv, TypeOK, Aimed, Wait, Request
<1>3. Exclusive'
  BY DEF Inv, TypeOK, Aimed, Exclusive, LockOrder, Wait, Request
<1>4. NoLostWakeup'
  <2>1. /\ c \in Threads /\ pc[c] # "set" /\ UNCHANGED <<queue, event>>
        /\ \A u \in Threads : u # c => pc'[u] = pc[u] /\ req'[u] = req[u]
    BY DEF Inv, TypeOK, Wait
  <2> QED BY <2>1, WakeupKept DEF Inv
<1>5. LockOrder'
  <2>1. QueueLocks'
    <3>1. /\ c \in Threads /\ pc[c] \notin {"append", "pop", "dead"} /\ UNCHANGED lock
          /\ \A u \in Threads : u # c => pc'[u] = pc[u] /\ req'[u] = req[u]
      BY DEF Inv, TypeOK, Wait
    <3> QED BY <1>0, <3>1, QueueLocksKept
  <2>2. GdkLock'
    <3>1. /\ c \in Threads /\ UNCHANGED gdk
          /\ \A u \in Threads : u # c => pc'[u] = pc[u]
          /\ pc[c] \in GdkSections(c) => pc'[c] \in GdkSections(c)
      BY DEF Inv, TypeOK, GdkSections, Wait
    <3> QED BY <1>0, <3>1, GdkLockKept
  <2> QED BY <1>1, <2>1, <2>2, OrderParts, PTL
<1> QED BY <1>1, <1>2, <1>3, <1>4, <1>5 DEF Inv

LEMMA RunLockKeeps == ASSUME NEW c \in Conns, Inv, RunLock(c) PROVE Inv'
<1> USE Names DEF Threads
<1>0. QueueLocks /\ GdkLock
  BY OrderParts DEF Inv
<1>1. TypeOK'
  BY DEF Inv, TypeOK, Aimed, RunLock, Request
<1>2. Aimed'
  BY DEF Inv, TypeOK, Aimed, RunLock, Request
<1>3. Exclusive'
  BY DEF Inv, TypeOK, Aimed, Exclusive, LockOrder, RunLock, Request
<1>4. NoLostWakeup'
  <2>1. /\ c \in Threads /\ pc[c] # "set" /\ UNCHANGED <<queue, event>>
        /\ \A u \in Threads : u # c => pc'[u] = pc[u] /\ req'[u] = req[u]
    BY DEF Inv, TypeOK, RunLock
  <2> QED BY <2>1, WakeupKept DEF Inv
<1>5. LockOrder'
  <2>1. QueueLocks'
    BY <1>0 DEF Inv, TypeOK, Aimed, QueueLocks, RunLock, Request
  <2>2. GdkLock'
    <3>1. /\ c \in Threads /\ UNCHANGED gdk
          /\ \A u \in Threads : u # c => pc'[u] = pc[u]
          /\ pc[c] \in GdkSections(c) => pc'[c] \in GdkSections(c)
      BY DEF Inv, TypeOK, GdkSections, RunLock
    <3> QED BY <1>0, <3>1, GdkLockKept
  <2> QED BY <1>1, <2>1, <2>2, OrderParts, PTL
<1> QED BY <1>1, <1>2, <1>3, <1>4, <1>5 DEF Inv

LEMMA PopKeeps == ASSUME NEW c \in Conns, Inv, Pop(c) PROVE Inv'
<1> USE Names DEF Threads
<1>0. QueueLocks /\ GdkLock
  BY OrderParts DEF Inv
<1>1. TypeOK'
  BY DEF Inv, TypeOK, Aimed, Pop, Request
<1>2. Aimed'
  BY DEF Inv, TypeOK, Aimed, Pop, Request
<1>3. Exclusive'
  BY DEF Inv, TypeOK, Aimed, Exclusive, LockOrder, Pop, Request
<1>4. NoLostWakeup'
  <2>1. /\ req' = req /\ pc[c] # "set"
        /\ \A d \in Conns : d # c => event'[d] = event[d] /\ queue'[d] = queue[d]
        /\ queue'[c] = Tail(queue[c]) /\ event'[c] = (event[c] /\ Len(queue[c]) > 1)
        /\ \A u \in Threads : pc[u] = "set" => pc'[u] = "set"
    BY DEF Inv, TypeOK, Pop
  <2>2. ASSUME NEW d \in Conns, queue'[d] # << >>
        PROVE  queue[d] # << >> /\ (event[d] => event'[d])
    <3>1. CASE d # c
      BY <2>1, <2>2, <3>1
    <3>2. CASE d = c
      <4>1. queue[c] \in Seq(Kinds) /\ queue[c] # << >> /\ Tail(queue[c]) # << >>
        BY <2>1, <2>2, <3>2 DEF Inv, TypeOK, Pop
      <4>2. Len(queue[c]) > 1
        <5>1. Len(queue[c]) \in Nat /\ Len(queue[c]) # 0
          BY <4>1, EmptySeq
        <5>2. Tail(queue[c]) \in Seq(Kinds) /\ Len(Tail(queue[c])) = Len(queue[c]) - 1
          BY <4>1, HeadTailProperties
        <5>3. Len(queue[c]) - 1 # 0
          BY <4>1, <5>2, EmptySeq
        <5>4. \A n \in Nat : n # 0 /\ n - 1 # 0 => n > 1
          OBVIOUS
        <5> QED BY <5>1, <5>3, <5>4
      <4> QED BY <2>1, <3>2, <4>1, <4>2
    <3> QED BY <3>1, <3>2
  <2>3. SUFFICES ASSUME NEW d \in Conns, queue'[d] # << >>
                 PROVE  event'[d] \/ \E u \in Threads : pc'[u] = "set" /\ req'[u].conn = d
    BY DEF NoLostWakeup
  <2>4. event[d] \/ \E u \in Threads : pc[u] = "set" /\ req[u].conn = d
    BY <2>2, <2>3, Zenon DEF Inv, NoLostWakeup
  <2> QED BY <2>1, <2>2, <2>3, <2>4
<1>5. LockOrder'
  <2>1. QueueLocks'
    BY <1>0 DEF Inv, TypeOK, Aimed, QueueLocks, Pop, Request
  <2>2. GdkLock'
    <3>1. /\ c \in Threads /\ UNCHANGED gdk
          /\ \A u \in Threads : u # c => pc'[u] = pc[u]
          /\ pc[c] \in GdkSections(c) => pc'[c] \in GdkSections(c)
      BY DEF Inv, TypeOK, GdkSections, Pop
    <3> QED BY <1>0, <3>1, GdkLockKept
  <2> QED BY <1>1, <2>1, <2>2, OrderParts, PTL
<1> QED BY <1>1, <1>2, <1>3, <1>4, <1>5 DEF Inv

LEMMA PopNothingKeeps == ASSUME NEW c \in Conns, Inv, PopNothing(c) PROVE Inv'
<1> USE Names DEF Threads
<1>0. QueueLocks /\ GdkLock
  BY OrderParts DEF Inv
<1>1. TypeOK'
  BY DEF Inv, TypeOK, Aimed, PopNothing, Request
<1>2. Aimed'
  BY DEF Inv, TypeOK, Aimed, PopNothing, Request
<1>3. Exclusive'
  BY DEF Inv, TypeOK, Aimed, Exclusive, LockOrder, PopNothing, Request
<1>4. NoLostWakeup'
  <2>1. /\ c \in Threads /\ pc[c] # "set" /\ UNCHANGED <<queue, event>>
        /\ \A u \in Threads : u # c => pc'[u] = pc[u] /\ req'[u] = req[u]
    BY DEF Inv, TypeOK, PopNothing
  <2> QED BY <2>1, WakeupKept DEF Inv
<1>5. LockOrder'
  <2>1. QueueLocks'
    BY <1>0 DEF Inv, TypeOK, Aimed, QueueLocks, PopNothing, Request
  <2>2. GdkLock'
    <3>1. /\ c \in Threads /\ UNCHANGED gdk
          /\ \A u \in Threads : u # c => pc'[u] = pc[u]
          /\ pc[c] \in GdkSections(c) => pc'[c] \in GdkSections(c)
      BY DEF Inv, TypeOK, GdkSections, PopNothing
    <3> QED BY <1>0, <3>1, GdkLockKept
  <2> QED BY <1>1, <2>1, <2>2, OrderParts, PTL
<1> QED BY <1>1, <1>2, <1>3, <1>4, <1>5 DEF Inv

LEMMA DoWorkKeeps == ASSUME NEW c \in Conns, Inv, DoWork(c) PROVE Inv'
<1> USE Names DEF Threads
<1>0. QueueLocks /\ GdkLock
  BY OrderParts DEF Inv
<1>1. TypeOK'
  <2>1. left' \in [Threads -> Nat]
    BY SizesAssumption DEF Inv, TypeOK, DoWork
  <2>2. pc' \in [Threads -> {"unborn", "get", "create", "push", "append", "set", "loop", "wait",
                           "lock", "pop", "work", "images", "enter", "leave", "dead"}]
    BY DEF Inv, TypeOK, DoWork
  <2> QED BY <2>1, <2>2 DEF Inv, TypeOK, DoWork
<1>2. Aimed'
  BY DEF Inv, TypeOK, Aimed, DoWork, Request
<1>3. Exclusive'
  BY DEF Inv, TypeOK, Aimed, Exclusive, LockOrder, DoWork, Request
<1>4. NoLostWakeup'
  <2>1. /\ c \in Threads /\ pc[c] # "set" /\ UNCHANGED <<queue, event>>
        /\ \A u \in Threads : u # c => pc'[u] = pc[u] /\ req'[u] = req[u]
    BY DEF Inv, TypeOK, DoWork
  <2> QED BY <2>1, WakeupKept DEF Inv
<1>5. LockOrder'
  <2>1. QueueLocks'
    <3>1. /\ c \in Threads /\ pc[c] \notin {"append", "pop", "dead"} /\ UNCHANGED lock
          /\ \A u \in Threads : u # c => pc'[u] = pc[u] /\ req'[u] = req[u]
      BY DEF Inv, TypeOK, DoWork
    <3> QED BY <1>0, <3>1, QueueLocksKept
  <2>2. GdkLock'
    <3>1. /\ c \in Threads /\ UNCHANGED gdk
          /\ \A u \in Threads : u # c => pc'[u] = pc[u]
          /\ pc[c] \in GdkSections(c) => pc'[c] \in GdkSections(c)
      BY DEF Inv, TypeOK, GdkSections, DoWork
    <3> QED BY <1>0, <3>1, GdkLockKept
  <2> QED BY <1>1, <2>1, <2>2, OrderParts, PTL
<1> QED BY <1>1, <1>2, <1>3, <1>4, <1>5 DEF Inv

LEMMA NextImageKeeps == ASSUME NEW c \in Conns, Inv, NextImage(c) PROVE Inv'
<1> USE Names DEF Threads
<1>0. QueueLocks /\ GdkLock
  BY OrderParts DEF Inv
<1>1. TypeOK'
  <2>1. PICK h \in Hosts : req' = [req EXCEPT ![c] = Request("image", h)]
    BY DEF NextImage
  <2>2. Request("image", h) \in [kind : Kinds, host : Hosts, conn : Conns \cup {Nobody}]
    BY DEF Request, Kinds
  <2>3. req' \in [Threads -> [kind : Kinds, host : Hosts, conn : Conns \cup {Nobody}]]
    BY <2>1, <2>2 DEF Inv, TypeOK
  <2>4. c \in Threads /\ left[c] \in Nat /\ left[c] - 1 \in Nat
    BY DEF Inv, TypeOK, NextImage
  <2>5. left' \in [Threads -> Nat]
    BY <2>4 DEF Inv, TypeOK, NextImage
  <2> QED BY <2>3, <2>5 DEF Inv, TypeOK, NextImage
<1>2. Aimed'
  BY DEF Inv, TypeOK, Aimed, NextImage, Request
<1>3. Exclusive'
  BY DEF Inv, TypeOK, Aimed, Exclusive, LockOrder, NextImage, Request
<1>4. NoLostWakeup'
  <2>1. /\ c \in Threads /\ pc[c] # "set" /\ UNCHANGED <<queue, event>>
        /\ \A u \in Threads : u # c => pc'[u] = pc[u] /\ req'[u] = req[u]
    BY DEF Inv, TypeOK, NextImage
  <2> QED BY <2>1, WakeupKept DEF Inv
<1>5. LockOrder'
  <2>1. QueueLocks'
    <3>1. /\ c \in Threads /\ pc[c] \notin {"append", "pop", "dead"} /\ UNCHANGED lock
          /\ \A u \in Threads : u # c => pc'[u] = pc[u] /\ req'[u] = req[u]
      BY DEF Inv, TypeOK, NextImage
    <3> QED BY <1>0, <3>1, QueueLocksKept
  <2>2. GdkLock'
    <3>1. /\ c \in Threads /\ UNCHANGED gdk
          /\ \A u \in Threads : u # c => pc'[u] = pc[u]
          /\ pc[c] \in GdkSections(c) => pc'[c] \in GdkSections(c)
      BY DEF Inv, TypeOK, GdkSections, NextImage
    <3> QED BY <1>0, <3>1, GdkLockKept
  <2> QED BY <1>1, <2>1, <2>2, OrderParts, PTL
<1> QED BY <1>1, <1>2, <1>3, <1>4, <1>5 DEF Inv

LEMMA ListDoneKeeps == ASSUME NEW c \in Conns, Inv, ListDone(c) PROVE Inv'
<1> USE Names DEF Threads
<1>0. QueueLocks /\ GdkLock
  BY OrderParts DEF Inv
<1>1. TypeOK'
  BY DEF Inv, TypeOK, Aimed, ListDone, Request
<1>2. Aimed'
  BY DEF Inv, TypeOK, Aimed, ListDone, Request
<1>3. Exclusive'
  BY DEF Inv, TypeOK, Aimed, Exclusive, LockOrder, ListDone, Request
<1>4. NoLostWakeup'
  <2>1. /\ c \in Threads /\ pc[c] # "set" /\ UNCHANGED <<queue, event>>
        /\ \A u \in Threads : u # c => pc'[u] = pc[u] /\ req'[u] = req[u]
    BY DEF Inv, TypeOK, ListDone
  <2> QED BY <2>1, WakeupKept DEF Inv
<1>5. LockOrder'
  <2>1. QueueLocks'
    <3>1. /\ c \in Threads /\ pc[c] \notin {"append", "pop", "dead"} /\ UNCHANGED lock
          /\ \A u \in Threads : u # c => pc'[u] = pc[u] /\ req'[u] = req[u]
      BY DEF Inv, TypeOK, ListDone
    <3> QED BY <1>0, <3>1, QueueLocksKept
  <2>2. GdkLock'
    <3>1. /\ c \in Threads /\ UNCHANGED gdk
          /\ \A u \in Threads : u # c => pc'[u] = pc[u]
          /\ pc[c] \in GdkSections(c) => pc'[c] \in GdkSections(c)
      BY DEF Inv, TypeOK, GdkSections, ListDone
    <3> QED BY <1>0, <3>1, GdkLockKept
  <2> QED BY <1>1, <2>1, <2>2, OrderParts, PTL
<1> QED BY <1>1, <1>2, <1>3, <1>4, <1>5 DEF Inv

LEMMA ThreadsEnterKeeps == ASSUME NEW c \in Conns, Inv, ThreadsEnter(c) PROVE Inv'
<1> USE Names DEF Threads
<1>0. QueueLocks /\ GdkLock
  BY OrderParts DEF Inv
<1>1. TypeOK'
  BY DEF Inv, TypeOK, Aimed, ThreadsEnter, Request
<1>2. Aimed'
  BY DEF Inv, TypeOK, Aimed, ThreadsEnter, Request
<1>3. Exclusive'
  BY DEF Inv, TypeOK, Aimed, Exclusive, LockOrder, ThreadsEnter, Request
<1>4. NoLostWakeup'
  <2>1. /\ c \in Threads /\ pc[c] # "set" /\ UNCHANGED <<queue, event>>
        /\ \A u \in Threads : u # c => pc'[u] = pc[u] /\ req'[u] = req[u]
    BY DEF Inv, TypeOK, ThreadsEnter
  <2> QED BY <2>1, WakeupKept DEF Inv
<1>5. LockOrder'
  <2>1. QueueLocks'
    <3>1. /\ c \in Threads /\ pc[c] \notin {"append", "pop", "dead"} /\ UNCHANGED lock
          /\ \A u \in Threads : u # c => pc'[u] = pc[u] /\ req'[u] = req[u]
      BY DEF Inv, TypeOK, ThreadsEnter
    <3> QED BY <1>0, <3>1, QueueLocksKept
  <2>2. GdkLock'
    BY <1>0 DEF Inv, TypeOK, GdkLock, GdkSections, ThreadsEnter, Request
  <2> QED BY <1>1, <2>1, <2>2, OrderParts, PTL
<1> QED BY <1>1, <1>2, <1>3, <1>4, <1>5 DEF Inv

LEMMA ThreadsLeaveKeeps == ASSUME NEW c \in Conns, Inv, ThreadsLeave(c) PROVE Inv'
<1> USE Names DEF Threads
<1>0. QueueLocks /\ GdkLock
  BY OrderParts DEF Inv
<1>1. TypeOK'
  BY DEF Inv, TypeOK, Aimed, ThreadsLeave, Request
<1>2. Aimed'
  BY DEF Inv, TypeOK, Aimed, ThreadsLeave, Request
<1>3. Exclusive'
  BY DEF Inv, TypeOK, Aimed, Exclusive, LockOrder, ThreadsLeave, Request
<1>4. NoLostWakeup'
  <2>1. /\ c \in Threads /\ pc[c] # "set" /\ UNCHANGED <<queue, event>>
        /\ \A u \in Threads : u # c => pc'[u] = pc[u] /\ req'[u] = req[u]
    BY DEF Inv, TypeOK, ThreadsLeave
  <2> QED BY <2>1, WakeupKept DEF Inv
<1>5. LockOrder'
  <2>1. QueueLocks'
    <3>1. /\ c \in Threads /\ pc[c] \notin {"append", "pop", "dead"} /\ UNCHANGED lock
          /\ \A u \in Threads : u # c => pc'[u] = pc[u] /\ req'[u] = req[u]
      BY DEF Inv, TypeOK, ThreadsLeave
    <3> QED BY <1>0, <3>1, QueueLocksKept
  <2>2. GdkLock'
    BY <1>0 DEF Inv, TypeOK, GdkLock, GdkSections, ThreadsLeave, Request
  <2> QED BY <1>1, <2>1, <2>2, OrderParts, PTL
<1> QED BY <1>1, <1>2, <1>3, <1>4, <1>5 DEF Inv

LEMMA RaiseKeeps == ASSUME NEW c \in Conns, Inv, Raise(c) PROVE Inv'
<1> USE Names DEF Threads
<1>0. QueueLocks /\ GdkLock
  BY OrderParts DEF Inv
<1>1. TypeOK'
  BY DEF Inv, TypeOK, Aimed, Raise, Request
<1>2. Aimed'
  BY DEF Inv, TypeOK, Aimed, Raise, Request
<1>3. Exclusive'
  BY DEF Inv, TypeOK, Aimed, Exclusive, LockOrder, Raise, Request
<1>4. NoLostWakeup'
  <2>1. /\ c \in Threads /\ pc[c] # "set" /\ UNCHANGED <<queue, event>>
        /\ \A u \in Threads : u # c => pc'[u] = pc[u] /\ req'[u] = req[u]
    BY DEF Inv, TypeOK, Raise
  <2> QED BY <2>1, WakeupKept DEF Inv
<1>5. LockOrder'
  <2>1. QueueLocks'
    <3>1. /\ c \in Threads /\ pc[c] \notin {"append", "pop", "dead"} /\ UNCHANGED lock
          /\ \A u \in Threads : u # c => pc'[u] = pc[u] /\ req'[u] = req[u]
      BY DEF Inv, TypeOK, Raise
    <3> QED BY <1>0, <3>1, QueueLocksKept
  <2>2. GdkLock'
    <3>1. /\ c \in Threads /\ UNCHANGED gdk
          /\ \A u \in Threads : u # c => pc'[u] = pc[u]
          /\ pc[c] \in GdkSections(c) => pc'[c] \in GdkSections(c)
      BY DEF Inv, TypeOK, GdkSections, Raise
    <3> QED BY <1>0, <3>1, GdkLockKept
  <2> QED BY <1>1, <2>1, <2>2, OrderParts, PTL
<1> QED BY <1>1, <1>2, <1>3, <1>4, <1>5 DEF Inv

(* A click.                                                                *)
LEMMA ClickKeeps == ASSUME Inv, Click PROVE Inv'
<1> USE Names DEF Threads
<1>0. QueueLocks /\ GdkLock
  BY OrderParts DEF Inv
<1>1. TypeOK'
  <2>1. PICK h \in Hosts : req' = [req EXCEPT ![Gtk] = Request("page", h)]
    BY DEF Click
  <2>2. Request("page", h) \in [kind : Kinds, host : Hosts, conn : Conns \cup {Nobody}]
    BY DEF Request, Kinds
  <2>3. req' \in [Threads -> [kind : Kinds, host : Hosts, conn : Conns \cup {Nobody}]]
    BY <2>1, <2>2 DEF Inv, TypeOK
  <2>4. Gtk \in Threads /\ left[Gtk] \in Nat /\ left[Gtk] - 1 \in Nat
    BY DEF Inv, TypeOK, Click
  <2>5. left' \in [Threads -> Nat]
    BY <2>4 DEF Inv, TypeOK, Click
  <2> QED BY <2>3, <2>5 DEF Inv, TypeOK, Click
<1>2. Aimed'
  BY DEF Inv, TypeOK, Aimed, Click, Request
<1>3. Exclusive'
  BY DEF Inv, TypeOK, Aimed, Exclusive, LockOrder, Click, Request
<1>4. NoLostWakeup'
  <2>1. /\ Gtk \in Threads /\ pc[Gtk] # "set" /\ UNCHANGED <<queue, event>>
        /\ \A u \in Threads : u # Gtk => pc'[u] = pc[u] /\ req'[u] = req[u]
    BY DEF Inv, TypeOK, Click
  <2> QED BY <2>1, WakeupKept DEF Inv
<1>5. LockOrder'
  <2>1. QueueLocks'
    <3>1. /\ Gtk \in Threads /\ pc[Gtk] \notin {"append", "pop", "dead"} /\ UNCHANGED lock
          /\ \A u \in Threads : u # Gtk => pc'[u] = pc[u] /\ req'[u] = req[u]
      BY DEF Inv, TypeOK, Click
    <3> QED BY <1>0, <3>1, QueueLocksKept
  <2>2. GdkLock'
    BY <1>0 DEF Inv, TypeOK, GdkLock, GdkSections, Click, Request
  <2> QED BY <1>1, <2>1, <2>2, OrderParts, PTL
<1> QED BY <1>1, <1>2, <1>3, <1>4, <1>5 DEF Inv

LEMMA InitInv == Init => Inv
<1> SUFFICES ASSUME Init PROVE Inv
  OBVIOUS
<1> USE Names, SizesAssumption DEF Threads
<1>1. TypeOK
  BY DEF Init, TypeOK, Request, Kinds
<1>2. Aimed
  BY DEF Init, Aimed
<1>3. Exclusive
  BY DEF Init, Exclusive
<1>4. NoLostWakeup
  BY DEF Init, NoLostWakeup
<1>5. LockOrder
  BY DEF Init, LockOrder
<1> QED BY <1>1, <1>2, <1>3, <1>4, <1>5 DEF Inv

LEMMA StepInv == Inv /\ [Next]_vars => Inv'
<1> SUFFICES ASSUME Inv, [Next]_vars PROVE Inv'
  OBVIOUS
<1>1. ASSUME NEW t \in Threads, Push(t) PROVE Inv'
  BY <1>1, GetConnKeeps, CreateConnKeeps, PushLockKeeps, PushAppendKeeps, PushSetKeeps DEF Push
<1>2. ASSUME NEW c \in Conns, Run(c) PROVE Inv'
  BY <1>2, WaitKeeps, RunLockKeeps, PopKeeps, PopNothingKeeps, DoWorkKeeps, NextImageKeeps,
     ListDoneKeeps, ThreadsEnterKeeps, ThreadsLeaveKeeps DEF Run
<1>3. ASSUME NEW c \in Conns, Raise(c) PROVE Inv'
  BY <1>3, RaiseKeeps
<1>4. CASE Click
  BY <1>4, ClickKeeps
<1>5. CASE UNCHANGED vars
  BY <1>5 DEF vars, Inv, TypeOK, Aimed, Exclusive, NoLostWakeup, LockOrder
<1> QED BY <1>1, <1>2, <1>3, <1>4, <1>5 DEF Next

LEMMA Invariant == Spec => []Inv
<1> QED BY InitInv, StepInv, PTL DEF Spec

(* Queues, events, locks and requests keep their types (webthread.py).     *)
THEOREM Typed == Spec => []TypeOK
<1>1. Inv => TypeOK
  BY DEF Inv
<1> QED BY <1>1, Invariant, PTL

(* However many threads push to a queue, in whatever order they get on: a  *)
(* request that is in it has its event set, or about to be                 *)
(* (webthread.py:23, 31).                                                  *)
THEOREM WakeupsKept == Spec => []NoLostWakeup
<1>1. Inv => NoLostWakeup
  BY DEF Inv
<1> QED BY <1>1, Invariant, PTL

(* Locks are taken in one order, by any number of threads                  *)
(* (webthread.py:28-35, wmclient:388, 606).                                *)
THEOREM LocksOrdered == Spec => []LockOrder
<1>1. Inv => LockOrder
  BY DEF Inv
<1> QED BY <1>1, Invariant, PTL

(* No two threads are in the sections under one queue's lock.              *)
THEOREM SectionsExclusive == Spec => []Exclusive
<1>1. Inv => Exclusive
  BY DEF Inv
<1> QED BY <1>1, Invariant, PTL
=============================================================================
