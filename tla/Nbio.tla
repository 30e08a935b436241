-------------------------------- MODULE Nbio --------------------------------
(***************************************************************************)
(* The event core (nbio.c), its epoll plugin (nbio-epoll.c) and the        *)
(* listener (nbio-listener.c), run by the main loop of dump.c / rtmprox.c  *)
(* over sockets whose peers and kernel side move at any time.              *)
(*                                                                         *)
(* Flag words are sets of bits: & is \cap, | is \cup, &= ~m is \ m.        *)
(* The active list is a sequence, since the scan's cursor depends on its   *)
(* order; nothing depends on the order of the other two lists.             *)
(***************************************************************************)
EXTENDS Naturals, Sequences, FiniteSets

CONSTANTS
    Ios,                    \* every struct nbio the program may create
    Listeners,              \* those that are listening sockets
    Descriptors,            \* open fds the process is allowed
    Units,                  \* bound: reads' worth of data on a socket at a time
    ListHead                \* &t->active, where a walk of the list ends

ASSUME IosAssumption ==
    /\ IsFiniteSet(Ios) /\ ListHead \notin Ios
    /\ Listeners \subseteq Ios /\ Cardinality(Listeners) <= 1
(* epoll_pump takes at most 8 events per call: the model takes all of them *)
ASSUME EventsAssumption == Cardinality(Ios) <= 8
ASSUME BoundsAssumption == Units \in Nat /\ Descriptors \in Nat

VARIABLES
    active, inactive, deleted,  \* struct iothread: its three lists
    closed,                     \* ios whose dtor has run
    mask, flags,                \* struct nbio: waited for, and ready now
    reg,                        \* events the fd is registered for ({}: poll = 0)
    pc, cur, tmp,               \* nbio_pump: where it is, and its cursors
    unheard,                    \* history: dropped for an error no handler saw
    resent,                     \* history: sent on, when they were deleted
    rx,                         \* per socket: data to read
    out, peer,                  \* per socket: can send; "open", "eof" or "rst"
    edge                        \* epoll's ready list

lists == <<active, inactive, deleted, closed>>
io    == <<mask, flags, reg>>
scan  == <<pc, cur, tmp>>
hist  == <<unheard, resent>>
sock  == <<rx, out, peer>>
vars  == <<lists, io, scan, hist, sock, edge>>

Deleted == {"DELETED"}
Streams == Ios \ Listeners
Elems(s) == {s[i] : i \in DOMAIN s}
Listed  == Elems(active) \cup inactive \cup deleted
Unborn  == Ios \ (Listed \cup closed)

(* The dtor closes the socket of an io that its user has closed.  The user *)
(* of one that was dropped knows nothing of it: its socket stays open, and *)
(* in the epoll set if it was there.                                       *)
Open == Listed \cup (closed \cap unheard)

OutOfFds == Cardinality(Open) >= Descriptors

(* Bound: no more connections are made or offered than Ios has room for.   *)
Spare == \A l \in Listeners : rx[l] < Cardinality(Unborn \cap Streams)

(* list_move_tail takes an io from whatever list it is on.                 *)
Without(s, n) ==
    IF n \notin Elems(s) THEN s
    ELSE LET i == CHOOSE i \in DOMAIN s : s[i] = n
         IN  [j \in 1 .. (Len(s) - 1) |-> IF j < i THEN s[j] ELSE s[j + 1]]

(* The io after n on the active list; ListHead at the end of it.  (Of one  *)
(* that is not on it the code takes the next on another list, but as the   *)
(* scan ends at such an io it never looks at that.)                        *)
NextOf(s, n) ==
    LET later == {i \in DOMAIN s : i > 1 /\ s[i - 1] = n}
    IN  IF later = {} THEN ListHead ELSE s[CHOOSE i \in later : TRUE]

-----------------------------------------------------------------------------
(* The kernel's side of epoll: level of each event, and the edge-triggered *)
(* ready list.                                                             *)

Events(n) ==
    (IF rx[n] > 0 \/ peer[n] # "open" THEN {"IN"} ELSE {})
    \cup (IF out[n] \/ peer[n] = "rst" THEN {"OUT"} ELSE {})
    \cup (IF peer[n] = "rst" THEN {"ERR", "HUP"} ELSE {})

(* Mutant: forgets EPOLLOUT.                                               *)
WantedReadOnly(m) == {"ERR", "HUP"} \cup (IF "READ" \in m THEN {"IN"} ELSE {})

(* epoll_inactive / EPOLL_CTL_ADD: the events asked for under a mask; the  *)
(* fd joins the ready list at once when one of them is already there.      *)
Wanted(m) ==
    {"ERR", "HUP"} \cup (IF "READ" \in m THEN {"IN"} ELSE {})
                   \cup (IF "WRITE" \in m THEN {"OUT"} ELSE {})

Register(n, m) ==
    IF reg[n] # {} THEN UNCHANGED <<reg, edge>>
    ELSE /\ reg' = [reg EXCEPT ![n] = Wanted(m)]
         /\ edge' = IF Wanted(m) \cap Events(n) # {} THEN edge \cup {n} ELSE edge

(* epoll_active / EPOLL_CTL_DEL, for a set of fds                          *)
Unregister(S) ==
    /\ reg' = [n \in Ios |-> IF n \in S THEN {} ELSE reg[n]]
    /\ edge' = edge \ S

-----------------------------------------------------------------------------
(* The nbio API, as the handlers call it.                                  *)

(* Mutant: the lists are right, but the io is not marked as deleted.       *)
DelUnmarked(n) ==
    /\ Unregister({n})
    /\ active' = Without(active, n)
    /\ inactive' = inactive \ {n}
    /\ deleted' = deleted \cup {n}
    /\ UNCHANGED <<closed, mask, flags>>

(* nbio_del                                                                *)
Del(n) ==
    /\ Unregister({n})
    /\ mask' = [mask EXCEPT ![n] = Deleted]
    /\ flags' = [flags EXCEPT ![n] = {}]
    /\ active' = Without(active, n)
    /\ inactive' = inactive \ {n}
    /\ deleted' = deleted \cup {n}
    /\ UNCHANGED closed

(* nbio_inactive: sleep only when none of the events waited for is left    *)
Inactive(n, bits) ==
    LET f == flags[n] \ bits IN
    /\ flags' = [flags EXCEPT ![n] = f]
    /\ IF f \cap mask[n] = {}
       THEN /\ active' = Without(active, n)
            /\ inactive' = inactive \cup {n}
            /\ deleted' = deleted \ {n}
            /\ Register(n, mask[n])
       ELSE UNCHANGED <<active, inactive, deleted, reg, edge>>
    /\ UNCHANGED <<mask, closed>>

(* Mutant: keeps the registration made for the old mask.                   *)
SetWaitStillRegistered(n, wait) ==
    /\ mask' = [mask EXCEPT ![n] = wait]
    /\ flags' = [flags EXCEPT ![n] = wait]
    /\ active' = Append(Without(active, n), n)
    /\ inactive' = inactive \ {n}
    /\ UNCHANGED <<deleted, closed, reg, edge>>

(* nbio_set_wait: runnable for these events, at the tail of the list       *)
SetWait(n, wait) ==
    /\ mask' = [mask EXCEPT ![n] = wait]
    /\ flags' = [flags EXCEPT ![n] = wait]
    /\ Unregister({n})
    /\ active' = Append(Without(active, n), n)
    /\ inactive' = inactive \ {n}
    /\ UNCHANGED <<deleted, closed>>

-----------------------------------------------------------------------------
(* nbio_pump: while ( !list_empty(active) ) list_for_each_entry_safe(...)  *)

Goto(p) == pc' = p /\ UNCHANGED <<cur, tmp>>

StartFor ==
    /\ pc = "while" /\ active # <<>>
    /\ pc' = "visit" /\ cur' = active[1] /\ tmp' = NextOf(active, active[1])
    /\ UNCHANGED <<lists, io, hist, sock, edge>>

Intact(n) == n # ListHead /\ mask[n] # Deleted

EndFor ==
    /\ pc = "visit" /\ ~ Intact(cur)
    /\ Goto("while")
    /\ UNCHANGED <<lists, io, hist, sock, edge>>

(* The condition of assert((n->flags & n->mask)): it holds for every io    *)
(* the scan comes to.                                                      *)
MayRun(n) == flags[n] \cap mask[n] # {}

Visiting == pc = "visit" /\ Intact(cur) /\ MayRun(cur)
Writing  == Visiting /\ "WRITE" \in flags[cur] \cap mask[cur]
Reading  == pc = "read" /\ "READ" \in flags[cur] \cap mask[cur]

SkipWrite ==
    /\ Visiting /\ ~ Writing /\ Goto("read")
    /\ UNCHANGED <<lists, io, hist, sock, edge>>

(* A connecting stream is woken to send: its handshake goes out, or the    *)
(* send tells how the connect failed.                                      *)
WriteDone ==
    /\ Writing /\ out[cur] /\ peer[cur] # "rst"
    /\ SetWait(cur, {"READ"})
    /\ Goto("read") /\ UNCHANGED <<hist, sock>>

WriteFail ==
    /\ Writing /\ peer[cur] = "rst"
    /\ Del(cur)
    /\ Goto("read") /\ UNCHANGED <<hist, sock>>

SkipRead ==
    /\ pc = "read" /\ ~ Reading /\ Goto("error")
    /\ UNCHANGED <<lists, io, hist, sock, edge>>

(* Mutant: sleeps after one read, as if epoll were level-triggered.        *)
ReadSleepEarly ==
    /\ Reading /\ peer[cur] = "open"
    /\ Inactive(cur, {"READ"})
    /\ Goto("error") /\ UNCHANGED <<hist, sock>>

(* recv or accept says EAGAIN; accept looks for a descriptor first.        *)
ReadSleep ==
    /\ Reading /\ rx[cur] = 0 /\ peer[cur] = "open"
    /\ cur \in Listeners => ~ OutOfFds
    /\ Inactive(cur, {"READ"})
    /\ Goto("error") /\ UNCHANGED <<hist, sock>>

(* Mutant: takes the 0 that recv returns at the end for no data.           *)
ReadEndIgnored ==
    /\ Reading /\ rx[cur] = 0 /\ peer[cur] # "open"
    /\ Goto("error") /\ UNCHANGED <<lists, io, hist, sock, edge>>

(* recv returns 0 or an error: only once the data before it has been read  *)
ReadEnd ==
    /\ Reading /\ rx[cur] = 0 /\ peer[cur] # "open"
    /\ Del(cur)
    /\ Goto("error") /\ UNCHANGED <<hist, sock>>

Recv == rx' = [rx EXCEPT ![cur] = @ - 1] /\ UNCHANGED <<out, peer>>

(* Mutant: takes the error of a recv for a count.                          *)
ReadSomeUnchecked ==
    /\ Reading /\ cur \in Streams
    /\ Recv /\ Goto("error") /\ UNCHANGED <<lists, io, hist, edge>>

(* A stream's handler takes one read's worth, and stays runnable, whatever *)
(* it sends: nbio_inactive for a send that blocks does not end its wait    *)
(* for data ...                                                            *)
ReadSome ==
    /\ Reading /\ cur \in Streams /\ rx[cur] > 0
    /\ Recv /\ Goto("error") /\ UNCHANGED <<lists, io, hist, edge>>

(* ... or what it read makes its user close this, or any other, stream.    *)
ReadClose(n) ==
    /\ Reading /\ cur \in Streams /\ rx[cur] > 0
    /\ n \in Streams \cap Listed /\ mask[n] # Deleted
    /\ Recv /\ Del(n) /\ Goto("error") /\ UNCHANGED hist

(* ... or close its own, when it goes on to report what it read, and the   *)
(* send blocks: nbio_del, then nbio_inactive(NBIO_WRITE), which takes it   *)
(* off the deleted list and has it registered again.                       *)
ReadCloseSend ==
    /\ Reading /\ cur \in Streams /\ rx[cur] > 0 /\ peer[cur] # "rst"
    /\ mask' = [mask EXCEPT ![cur] = Deleted]
    /\ flags' = [flags EXCEPT ![cur] = {}]
    /\ active' = Without(active, cur) /\ inactive' = inactive \cup {cur}
    /\ reg' = [reg EXCEPT ![cur] = Wanted(Deleted)] /\ edge' = edge \ {cur}
    /\ resent' = resent \cup {cur}
    /\ Recv /\ Goto("error") /\ UNCHANGED <<deleted, closed, unheard>>

(* listener_read: the new stream is added, then the listener goes to the   *)
(* tail behind it.                                                         *)
Accept(n) ==
    /\ Reading /\ cur \in Listeners /\ rx[cur] > 0
    /\ n \in Unborn \cap Streams /\ ~ OutOfFds
    /\ mask' = [mask EXCEPT ![n] = {"READ"}, ![cur] = {"READ"}]
    /\ flags' = [flags EXCEPT ![n] = {"READ"}, ![cur] = {"READ"}]
    /\ Unregister({cur, n})
    /\ active' = Append(Append(Without(active, cur), n), cur)
    /\ rx' = [rx EXCEPT ![cur] = @ - 1]
    /\ out' = [out EXCEPT ![n] = TRUE]
    /\ Goto("error") /\ UNCHANGED <<inactive, deleted, closed, hist, peer>>

(* The callback refuses it, and the socket is closed again.                *)
AcceptRefused ==
    /\ Reading /\ cur \in Listeners /\ rx[cur] > 0 /\ ~ OutOfFds
    /\ SetWait(cur, {"READ"})
    /\ Recv /\ Goto("error") /\ UNCHANGED hist

(* accept fails for another reason, such as a connection already aborted.  *)
AcceptFails ==
    /\ Reading /\ cur \in Listeners /\ rx[cur] > 0 /\ ~ OutOfFds
    /\ Recv /\ Goto("error") /\ UNCHANGED <<lists, io, hist, edge>>

(* accept fails for want of descriptors: the oom callback of rtmpd.c does  *)
(* nothing, so the listener stays runnable, whether anyone waits or not.   *)
AcceptOom ==
    /\ Reading /\ cur \in Listeners /\ OutOfFds
    /\ Goto("error") /\ UNCHANGED <<lists, io, hist, sock, edge>>

(* The list as it is when the body of the loop is done.                    *)
Advance(list) == pc' = "visit" /\ cur' = tmp /\ tmp' = NextOf(list, tmp)

Continue ==
    /\ pc = "error" /\ "ERROR" \notin flags[cur]
    /\ Advance(active) /\ UNCHANGED <<lists, io, hist, sock, edge>>

(* NBIO_ERROR after the callbacks: deleted without plugin->active, whether *)
(* or not a handler came to see the error.                                 *)
DropOnError ==
    /\ pc = "error" /\ "ERROR" \in flags[cur]
    /\ mask' = [mask EXCEPT ![cur] = Deleted]
    /\ flags' = [flags EXCEPT ![cur] = {}]
    /\ active' = Without(active, cur)
    /\ inactive' = inactive \ {cur}
    /\ deleted' = deleted \cup {cur}
    /\ unheard' = unheard \cup {cur}
    /\ Advance(active') /\ UNCHANGED <<closed, reg, resent, sock, edge>>

(* Mutant: leaves after the first of the deleted.                          *)
ReapOne ==
    /\ pc = "while" /\ active = <<>>
    /\ IF deleted = {} THEN UNCHANGED <<closed, deleted, reg, edge>>
       ELSE \E n \in deleted : /\ closed' = closed \cup {n}
                               /\ deleted' = deleted \ {n}
                               /\ Unregister({n} \ unheard)
    /\ Goto(IF inactive # {} THEN "wait" ELSE "idle")
    /\ UNCHANGED <<active, inactive, mask, flags, hist, sock>>

(* The dtors of the deleted; an fd that is closed leaves the epoll set,    *)
(* and that of an io that was dropped is not closed.                       *)
Reap ==
    /\ pc = "while" /\ active = <<>>
    /\ closed' = closed \cup deleted /\ deleted' = {}
    /\ Unregister(deleted \ unheard)
    /\ Goto(IF inactive # {} THEN "wait" ELSE "idle")
    /\ UNCHANGED <<active, inactive, mask, flags, hist, sock>>

(* epoll_pump: what epoll_wait reports, in the order it reports it.  An io *)
(* that was deleted, or whose dtor has run, comes back to the active list  *)
(* when its socket is still in the epoll set.                              *)
EventFlags(ev) ==
    (IF ev \cap {"IN", "HUP"} # {} THEN {"READ"} ELSE {})
    \cup (IF "OUT" \in ev THEN {"WRITE"} ELSE {})
    \cup (IF "ERR" \in ev THEN {"ERROR"} ELSE {})

Fired == {n \in edge : reg[n] \cap Events(n) # {}}

Orders(S) == {s \in [1 .. Cardinality(S) -> S] : Elems(s) = S}

EpollPump ==
    /\ pc = "wait" /\ Fired # {}
    /\ flags' = [n \in Ios |-> IF n \in Fired THEN EventFlags(reg[n] \cap Events(n))
                                              ELSE flags[n]]
    /\ \E s \in Orders(Fired) : active' = active \o s
    /\ inactive' = inactive \ Fired
    /\ edge' = {}
    /\ Goto("idle") /\ UNCHANGED <<deleted, closed, mask, reg, hist, sock>>

(* do nbio_pump() while ( !list_empty(active) ), once all is set up        *)
MainLoop ==
    /\ pc = "setup" \/ (pc = "idle" /\ active # <<>>)
    /\ Goto("while") /\ UNCHANGED <<lists, io, hist, sock, edge>>

Loop ==
    \/ StartFor \/ EndFor \/ Continue \/ DropOnError
    \/ SkipWrite \/ WriteDone \/ WriteFail
    \/ SkipRead \/ ReadSleep \/ ReadEnd \/ ReadSome \/ ReadCloseSend
    \/ AcceptOom \/ AcceptRefused \/ AcceptFails
    \/ \E n \in Ios : ReadClose(n) \/ Accept(n)
    \/ Reap \/ EpollPump \/ MainLoop

-----------------------------------------------------------------------------
(* The program, before its main loop.                                      *)

(* conn_cb: nbio_add for writing, then a first send; the socket of a       *)
(* non-blocking connect says EAGAIN until the connection is there.         *)
Connect(n) ==
    /\ pc = "setup" /\ n \in Unborn \cap Streams /\ ~ OutOfFds /\ Spare
    /\ IF out[n]
       THEN SetWait(n, {"READ"})
       ELSE /\ mask' = [mask EXCEPT ![n] = {"WRITE"}]
            /\ flags' = [flags EXCEPT ![n] = {}]
            /\ inactive' = inactive \cup {n}
            /\ Register(n, {"WRITE"})
            /\ UNCHANGED <<active, deleted, closed>>
    /\ UNCHANGED <<scan, hist, sock>>

Listen(n) ==
    /\ pc = "setup" /\ n \in Unborn \cap Listeners
    /\ SetWait(n, {"READ"})
    /\ UNCHANGED <<scan, hist, sock>>

Program == \E n \in Ios : Connect(n) \/ Listen(n)

-----------------------------------------------------------------------------
(* Peers and the kernel: each change that a registered fd asked about puts *)
(* it on the ready list.                                                   *)

Signal(n, events) ==
    edge' = IF reg[n] \cap events # {} THEN edge \cup {n} ELSE edge

Arrive(n) ==
    /\ n \in Open /\ out[n] /\ peer[n] = "open" /\ rx[n] < Units
    /\ n \in Listeners => Spare
    /\ rx' = [rx EXCEPT ![n] = @ + 1]
    /\ Signal(n, {"IN"}) /\ UNCHANGED <<lists, io, scan, hist, out, peer>>

Connected(n) ==
    /\ n \in Open /\ ~ out[n] /\ peer[n] = "open"
    /\ out' = [out EXCEPT ![n] = TRUE]
    /\ Signal(n, {"OUT"}) /\ UNCHANGED <<lists, io, scan, hist, rx, peer>>

(* orderly end of a connection, or its reset or refusal                    *)
PeerEnds(n, how) ==
    /\ n \in Open /\ n \in Streams /\ peer[n] = "open" /\ (how = "eof" => out[n])
    /\ peer' = [peer EXCEPT ![n] = how]
    /\ Signal(n, IF how = "eof" THEN {"IN"} ELSE {"IN", "OUT", "ERR", "HUP"})
    /\ UNCHANGED <<lists, io, scan, hist, rx, out>>

(* Linux tells of a reset twice: of the error, then of the change of state.*)
ResetAgain(n) ==
    /\ n \in Open /\ peer[n] = "rst"
    /\ Signal(n, {"IN", "OUT", "ERR", "HUP"})
    /\ UNCHANGED <<lists, io, scan, hist, sock>>

Kernel == \E n \in Ios : \/ Arrive(n) \/ Connected(n) \/ ResetAgain(n)
                         \/ PeerEnds(n, "eof") \/ PeerEnds(n, "rst")

-----------------------------------------------------------------------------
Init ==
    /\ active = <<>> /\ inactive = {} /\ deleted = {} /\ closed = {}
    /\ mask = [n \in Ios |-> {}] /\ flags = [n \in Ios |-> {}]
    /\ reg = [n \in Ios |-> {}]
    /\ pc = "setup" /\ cur = ListHead /\ tmp = ListHead
    /\ unheard = {} /\ resent = {}
    /\ rx = [n \in Ios |-> 0]
    /\ out \in [Ios -> BOOLEAN] /\ (\A n \in Listeners : out[n])
    /\ peer = [n \in Ios |-> "open"]
    /\ edge = {}

Next == Loop \/ Program \/ Kernel

(* The process runs: its loop goes on while it has a step to take.  Peers  *)
(* owe nothing.                                                            *)
Spec == Init /\ [][Next]_vars /\ WF_vars(Loop)

-----------------------------------------------------------------------------
(* Types of all of the variables.                                          *)
Bits == {"READ", "WRITE", "ERROR", "DELETED"}
TypeOK ==
    /\ active \in Seq(Ios)
    /\ inactive \subseteq Ios /\ deleted \subseteq Ios /\ closed \subseteq Ios
    /\ mask \in [Ios -> SUBSET Bits] /\ flags \in [Ios -> SUBSET Bits]
    /\ reg \in [Ios -> SUBSET {"IN", "OUT", "ERR", "HUP"}]
    /\ pc \in {"setup", "idle", "while", "visit", "read", "error", "wait"}
    /\ cur \in Ios \cup {ListHead} /\ tmp \in Ios \cup {ListHead}
    /\ unheard \subseteq Ios /\ resent \subseteq Ios /\ edge \subseteq Ios
    /\ rx \in [Ios -> Nat]
    /\ out \in [Ios -> BOOLEAN] /\ peer \in [Ios -> {"open", "eof", "rst"}]

(* An io that is closed under the feet of the scan (as itself, as the io   *)
(* saved in tmp, or as any other) is recognised by its mask before it is   *)
(* touched: what the scan is about to run is on the active list, and one   *)
(* of the events it waits for is ready (nbio.c:134-141).                   *)
ScanSafe ==
    pc = "visit" /\ Intact(cur) => cur \in Elems(active) /\ MayRun(cur)

(* What the handler of an io would have to do if it ran.                   *)
Pending(n) ==
    \/ "READ" \in mask[n] /\ (rx[n] > 0 \/ peer[n] # "open")
    \/ "WRITE" \in mask[n] /\ (out[n] \/ peer[n] = "rst")

(* No lost wakeup under edge triggering: an io is put to sleep without     *)
(* re-arming when it is still registered from before, and yet whatever     *)
(* came in since, in any order with the EAGAIN, the sleep and a change of  *)
(* mask, is still on epoll's ready list (nbio.c:185, nbio-epoll.c:35-97).  *)
NoLostWakeup ==
    \A n \in inactive : /\ reg[n] = Wanted(mask[n])
                        /\ Pending(n) => n \in edge

(* The deleted, by their list, their mask or their dtor.                   *)
Gone == deleted \cup closed \cup {n \in Ios : mask[n] = Deleted}

(* Once deleted, an io stays so: no handler runs for it again, and none    *)
(* adds it again.  The only ones that come back to the lists that nbio_del *)
(* took them off (nbio.c:181) are those that were dropped with their       *)
(* socket open (nbio.c:151), and those that a send put to sleep when they  *)
(* were deleted already (rtmp.c:73).                                       *)
DeadStaysDead ==
    [][/\ Gone \subseteq Gone' /\ closed \subseteq closed'
       /\ Gone \cap (Elems(active') \cup inactive') \subseteq unheard' \cup resent']_vars

(* With no descriptor left the listener is never put to sleep; and a scan  *)
(* ends at an io with the mask of the deleted, and begins again.           *)
OomSpin == OutOfFds /\ Listeners \cap Elems(active) # {}
Haunted == Gone \cap Elems(active) # {}

(* The active list does become empty, so that the deleted are destroyed    *)
(* and epoll is asked (nbio.c:132), unless a peer sends or connects for    *)
(* ever, or the listener or an io that is gone stays on the list.          *)
ScanEnds ==
    \/ []<>(active = <<>> \/ OomSpin \/ Haunted)
    \/ []<><<\E n \in Ios : Arrive(n)>>_vars

(* As long as scans end, every io that sleeps with something to do is      *)
(* woken.                                                                  *)
Woken ==
    []<>(active = <<>>) =>
        \A n \in Ios : n \in inactive /\ Pending(n) ~> n \notin inactive

(* As long as scans end, every io taken off by nbio_del or by the loop     *)
(* reaches its dtor.                                                       *)
DeadReaped ==
    []<>(active = <<>>) => \A n \in Ios : n \in deleted ~> n \in closed

(* The comment "let read/write have a chance to determine exact nature of  *)
(* the error" (nbio.c:148): no io is taken off its list for an error that  *)
(* its handler has not come to see.                                        *)
ErrorReachesHandler == unheard = {}

(* The abstract event loop this implements, in which an io that is gone is *)
(* dead or freed, on whatever list it is.                                  *)
Stage == [n \in Ios |->
    CASE n \in closed -> "freed" [] n \in Gone \ closed -> "dead"
      [] n \in inactive \ Gone -> "asleep"
      [] n \in Elems(active) \ (inactive \cup Gone) -> "runnable"
      [] OTHER -> "unborn"]

EL == INSTANCE EventLoop WITH st <- Stage, pend <- {n \in Ios : Pending(n)}

(* Every step of the scan, of a handler, of the plugin and of the program  *)
(* is a step of the abstract event loop or leaves it alone.                *)
ImplementsEventLoop == EL!Spec
=============================================================================
