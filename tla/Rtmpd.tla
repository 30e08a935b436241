------------------------------- MODULE Rtmpd -------------------------------
(***************************************************************************)
(* The RTMP server of rtmpd.c with the callbacks of rtmprox.c, its         *)
(* connections being objects of the pool in Hgang.  What is followed is    *)
(* who may still touch a connection: its handlers, the transition that     *)
(* calls back into the program, the program that closes it there, the      *)
(* event loop that destroys it, and the pool that hands its memory to the  *)
(* next connection.                                                        *)
(*                                                                         *)
(* One thread: an action is one call from the event loop, whose lists are  *)
(* in Nbio.  The functions it goes through are operators on a world, as in *)
(* MayhemClient.  Sockets are external and may answer anything.  A message *)
(* that is not complete changes nothing here, so that of the buffer it is  *)
(* enough to know whether a complete one is in it (RtmpBuf has the rest).  *)
(***************************************************************************)
EXTENDS Hgang, FiniteSets

CONSTANT Fds                \* bound: the descriptors the process may have

VARIABLES
    conn,                   \* held -> struct _rtmpd
    open,                   \* the descriptors that are open, but for the listener's
    phase,                  \* what nbio_pump is doing: "scan" or "reap"
    awake,                  \* the listener is on the event loop's active list
    fault                   \* the first wrong access, if any

vars == <<poolVars, conn, open, phase, awake, fault>>

World == [pool |-> pool, held |-> held, conn |-> conn, open |-> open, fault |-> fault]

NoFault == "none"
Fault(w, what) == IF w.fault = NoFault THEN [w EXCEPT !.fault = what] ELSE w
Sound(w) == w.fault = NoFault

Become(w) ==
    /\ pool' = w.pool /\ held' = w.held /\ conn' = w.conn
    /\ open' = w.open /\ fault' = w.fault

(* Bound: calls the program gets are told apart up to the second.          *)
Again(n) == IF n < 2 THEN n + 1 ELSE n

(* hgang_alloc0, then the assignments in listen_cb.  lost is history: the  *)
(* event loop has dropped the connection without asking its handlers.      *)
Fresh(fd) ==
    [fd |-> fd, state |-> "INIT", killed |-> FALSE, conn_reset |-> FALSE,
     list |-> "active", err |-> FALSE, more |-> FALSE, shrink |-> FALSE,
     connected |-> 0, resets |-> 0, lost |-> FALSE]

-----------------------------------------------------------------------------
(* Closing.                                                                *)

(* nbio_del; the buffer is not looked at again.                            *)
NbioDel(w, c) ==
    [w EXCEPT !.conn[c].list = "deleted", !.conn[c].err = FALSE,
              !.conn[c].more = FALSE, !.conn[c].shrink = FALSE]

(* hgang_return(conns, r): the memory is the pool's again.                 *)
HgangReturn(w, c) ==
    IF c \notin w.held THEN Fault(w, "returned twice")
    ELSE [w EXCEPT !.pool = Return(w.pool, c), !.held = @ \ {c},
                   !.conn = [x \in w.held \ {c} |-> w.conn[x]]]

SockClose(w, fd) ==
    IF fd \in w.open THEN [w EXCEPT !.open = @ \ {fd}] ELSE Fault(w, "closed twice")

(* Mutant: the descriptor stays open.                                      *)
RtmpDtorOpen(w, c) ==
    IF w.conn[c].list # "none" THEN Fault(w, "destroyed on a list")
    ELSE HgangReturn(w, c)

(* rtmp_dtor.  The pool links its free objects through the word where the  *)
(* event loop keeps the io's place on its lists.                           *)
RtmpDtor(w, c) ==
    IF w.conn[c].list # "none" THEN Fault(w, "destroyed on a list")
    ELSE HgangReturn(SockClose(w, w.conn[c].fd), c)

(* Mutant: does not say that the program is done with the connection.      *)
RtmpdCloseForgets(w, c) ==
    IF w.conn[c].conn_reset THEN RtmpDtor(w, c) ELSE NbioDel(w, c)

RtmpdClose(w, c) ==
    LET k == [w EXCEPT !.conn[c].killed = TRUE]
    IN  IF w.conn[c].conn_reset THEN RtmpDtor(k, c) ELSE NbioDel(k, c)

(* rtmprox's conn_reset: closes.                                           *)
ConnReset(w, c) == RtmpdClose([w EXCEPT !.conn[c].resets = Again(@)], c)

(* Mutant: conn_reset is set before the callback.                          *)
ResetMarkedFirst(w, c, state) ==
    LET d == ConnReset([w EXCEPT !.conn[c].conn_reset = TRUE], c)
    IN  IF ~ Sound(d) THEN d
        ELSE IF c \notin d.held THEN Fault(d, "used after its return")
        ELSE NbioDel([d EXCEPT !.conn[c].state = state], c)

(* transition to ABORT or CONN_RESET                                       *)
Reset(w, c, state) ==
    LET d == ConnReset(w, c)
    IN  IF ~ Sound(d) THEN d
        ELSE IF c \notin d.held THEN Fault(d, "used after its return")
        ELSE NbioDel([d EXCEPT !.conn[c].conn_reset = TRUE, !.conn[c].state = state], c)

-----------------------------------------------------------------------------
(* Reading.                                                                *)

(* nbio_set_wait(READ), after the reply is out.                            *)
SetWaitRead(w, c) == [w EXCEPT !.conn[c].list = "active", !.conn[c].err = FALSE]

(* handshake1_req and transition(HANDSHAKE_2): the reply is sent, or the   *)
(* socket is full, when everything is left as it is and done again on the  *)
(* next visit, from the start of a new reply; or the socket has failed.    *)
Handshake1(w, c) ==
    {[SetWaitRead(w, c) EXCEPT !.conn[c].state = "HANDSHAKE_2"],
     [w EXCEPT !.conn[c].more = TRUE],
     Reset(w, c, "ABORT"), Reset(w, c, "CONN_RESET")}

(* Mutant: the transition to READY is forgotten.                           *)
Handshake2Stays(w, c) ==
    [w EXCEPT !.conn[c].shrink = TRUE, !.conn[c].connected = Again(@)]

(* handshake2_req: the buffer is to shrink to one chunk, but later.        *)
Handshake2(w, c) ==
    [w EXCEPT !.conn[c].state = "READY", !.conn[c].shrink = TRUE,
              !.conn[c].connected = Again(@)]

(* decode_rtmp and rtmp_dispatch: the program's pkt callback only prints.  *)
Decode(w, c) ==
    IF w.conn[c].connected = 0 \/ w.conn[c].resets > 0
    THEN Fault(w, "a message out of turn") ELSE w

(* rtmp_pump, after something was taken: the buffer is resized unless what *)
(* is left, a complete message or not, is longer than a chunk; realloc may *)
(* fail.                                                                   *)
Shrink(w, c) ==
    IF ~ w.conn[c].shrink THEN {w}
    ELSE {w, [w EXCEPT !.conn[c].shrink = FALSE], Reset(w, c, "ABORT")}

(* rtmp_drain_buf and the rest of rtmp_pump, with a complete message in    *)
(* the buffer, and perhaps another behind it.                              *)
Drained(w, c) ==
    LET Taken(more) == [w EXCEPT !.conn[c].more = more]
        After(v) == CASE v.conn[c].state = "HANDSHAKE_1" -> Handshake1(v, c)
                      [] v.conn[c].state = "HANDSHAKE_2" -> Shrink(Handshake2(v, c), c)
                      [] v.conn[c].state = "READY"       -> Shrink(Decode(v, c), c)
                      [] OTHER                           -> {Fault(v, "read after a reset")}
    IN  UNION {After(Taken(more)) : more \in BOOLEAN}

(* fill_rcv_buf: the message is complete at last, or there is no more of   *)
(* it, or the connection has ended.  An error is not followed by EAGAIN.   *)
Filled(w, c) ==
    Drained(w, c) \cup {Reset(w, c, "ABORT"), Reset(w, c, "CONN_RESET")}
    \cup (IF w.conn[c].err THEN {} ELSE {[w EXCEPT !.conn[c].list = "inactive"]})

RtmpPump(w, c) == IF w.conn[c].more THEN Drained(w, c) ELSE Filled(w, c)

(* nbio_pump, after the handler: an error it has not found out about ends  *)
(* the connection without a word.                                          *)
DropOnError(w, c) ==
    IF Sound(w) /\ c \in w.held /\ w.conn[c].err
    THEN [NbioDel(w, c) EXCEPT !.conn[c].lost = TRUE] ELSE w

-----------------------------------------------------------------------------
Init == PoolInit /\ conn = << >> /\ open = {} /\ fault = NoFault
        /\ phase = "scan" /\ awake = TRUE

(* The program's constructor refuses (rtmprox's never does).               *)
Refused(w, c, fd) == HgangReturn(SockClose(w, fd), c)

(* Mutant: the state is not set.                                           *)
AcceptedInit(w, c) == {w, Reset(w, c, "ABORT")}

(* transition(HANDSHAKE_1): the buffer is allocated, or cannot be.         *)
Accepted(w, c) ==
    {[w EXCEPT !.conn[c].state = "HANDSHAKE_1"], Reset(w, c, "ABORT")}

(* listen_cb, from accept on, which gives the lowest descriptor there is.  *)
(* When there is none, listen_oom does nothing and the listener stays      *)
(* awake.                                                                  *)
ListenCb ==
    /\ phase = "scan" /\ awake /\ UNCHANGED <<phase, awake>>
    /\ \E fd \in Fds \ open, a \in Alloc(pool) :
        /\ \A x \in Fds \ open : fd <= x
        /\ LET s == [World EXCEPT !.open = @ \cup {fd}]
               h == [s EXCEPT !.pool = a.pool, !.held = @ \cup {a.obj},
                              !.conn = [x \in held \cup {a.obj} |->
                                          IF x = a.obj THEN Fresh(fd) ELSE conn[x]]]
           IN  IF a.obj = Null THEN Become(SockClose(s, fd))
               ELSE \E w \in {Refused(h, a.obj, fd)} \cup Accepted(h, a.obj) : Become(w)

(* accept finds no one waiting: it looks for a descriptor first.           *)
ListenSleep ==
    /\ phase = "scan" /\ awake /\ Fds \ open # {}
    /\ awake' = FALSE /\ UNCHANGED <<poolVars, conn, open, phase, fault>>

(* iop_read of a runnable connection; the scan starts again when it comes  *)
(* to one that was dropped.                                                *)
IopRead(c) ==
    /\ phase = "scan" /\ conn[c].list = "active" /\ ~ conn[c].lost
    /\ \E w \in RtmpPump(World, c) : Become(DropOnError(w, c))
    /\ UNCHANGED <<phase, awake>>

(* Mutant: leaves it to a close that has already been.                     *)
IopDtorKeeps(w, c) == [w EXCEPT !.conn[c].conn_reset = TRUE]

(* iop_dtor                                                                *)
IopDtor(w, c) ==
    LET d == [w EXCEPT !.conn[c].conn_reset = TRUE]
    IN  IF w.conn[c].killed THEN RtmpDtor(d, c) ELSE d

(* nbio_pump, when nothing is on the active list: takes the deleted off    *)
(* their list and destroys them, one by one, then asks the plugin.         *)
EndScan ==
    /\ phase = "scan" /\ ~ awake /\ \A c \in held : conn[c].list # "active"
    /\ phase' = "reap" /\ UNCHANGED <<poolVars, conn, open, awake, fault>>

Reap ==
    /\ phase = "reap"
    /\ \E c \in held :
          /\ conn[c].list = "deleted"
          /\ Become(IopDtor([World EXCEPT !.conn[c].list = "none"], c))
    /\ UNCHANGED <<phase, awake>>

(* What was dropped still has its descriptor, and is woken by what happens *)
(* to it.                                                                  *)
Wakeable(x) == x.list = "inactive" \/ (x.list = "none" /\ x.lost)

(* The plugin wakes some, because of an error or not, and perhaps the      *)
(* listener.                                                               *)
PluginPump ==
    /\ phase = "reap" /\ \A c \in held : conn[c].list # "deleted"
    /\ \E S \in SUBSET {c \in held : Wakeable(conn[c])} :
       \E E \in SUBSET {c \in S : ~ conn[c].lost} :
          conn' = [c \in held |-> IF c \notin S THEN conn[c]
                     ELSE [conn[c] EXCEPT !.list = "active", !.err = c \in E]]
    /\ awake' \in BOOLEAN
    /\ phase' = "scan" /\ UNCHANGED <<poolVars, open, fault>>

IopReadSome == \E c \in held : IopRead(c)

Next ==
    /\ fault = NoFault
    /\ ListenCb \/ ListenSleep \/ IopReadSome \/ EndScan \/ Reap \/ PluginPump

(* A dropped connection is back on the active list: the scan ends there,   *)
(* and begins again.                                                       *)
Haunted == \E c \in held : conn[c].list = "active" /\ conn[c].lost

(* Visits that empty the buffer, and those after which the connection has  *)
(* ended or sleeps.                                                        *)
Emptied ==
    ~ Haunted /\ \E c \in held : IopRead(c) /\ c \in held' /\ ~ conn'[c].more
Settled == Emptied /\ \E c \in held : conn[c].list = "active" /\ conn'[c].list # "active"

(* Fairness: the loop goes on, and the peers do not connect or send        *)
(* without a pause for ever, nor refuse the reply for ever: the scan would *)
(* never end.                                                              *)
Spec ==
    Init /\ [][Next]_vars
    /\ SF_vars(Emptied) /\ SF_vars(Settled) /\ SF_vars(ListenSleep)
    /\ WF_vars(EndScan) /\ WF_vars(Reap)

-----------------------------------------------------------------------------
Conns ==
    [fd : Fds, state : {"ABORT", "CONN_RESET", "HANDSHAKE_1", "HANDSHAKE_2", "READY"},
     killed : BOOLEAN, conn_reset : BOOLEAN, list : {"active", "inactive", "deleted", "none"},
     err : BOOLEAN, more : BOOLEAN, shrink : BOOLEAN,
     connected : 0..2, resets : 0..2, lost : BOOLEAN]

TypeOK ==
    /\ PoolTypeOK /\ open \subseteq Fds /\ phase \in {"scan", "reap"}
    /\ awake \in BOOLEAN /\ conn \in [held -> Conns]

(* Nothing touches a connection after it went back to the pool, although   *)
(* the program closes it from inside transition(), which goes on to use it *)
(* (rtmpd.c:390-394), and it goes back once, off the event loop's lists;   *)
(* no handler runs in a state after the end (rtmpd.c:449).                 *)
NeverUsedAfterReturn == fault = NoFault

(* Descriptors and connections belong together: each connection has a      *)
(* descriptor of its own that is open, and no other descriptor is: none is *)
(* closed twice, or left behind by a connection refused or destroyed       *)
(* (rtmpd.c:571, 613, 624).                                                *)
DescriptorsOwned ==
    /\ open = {conn[c].fd : c \in held}
    /\ \A c, d \in held : conn[c].fd = conn[d].fd => c = d

(* A connection that is on none of the event loop's lists and still has    *)
(* its memory and its descriptor keeps them for ever.  The only way there  *)
(* is an error that the event loop found before the handler did            *)
(* (nbio.c:151): the program is not told and cannot close it.              *)
OnlyErrorsLeak ==
    \A c \in held : conn[c].list = "none" => conn[c].lost /\ conn[c].resets = 0

(* The program hears of a connection's start once at most, and of its end  *)
(* once (rtmpd.c:391, 432): rtmpd_close would free it the second time.     *)
ToldOnce == \A c \in held : conn[c].connected <= 1 /\ conn[c].resets <= 1

(* Every connection the program was told the end of is destroyed and its   *)
(* memory goes back: what was closed does not pile up (nbio.c:160), but    *)
(* where the scan never ends: the listener is awake and there is no        *)
(* descriptor left (rtmpd.c:622), or a dropped connection was woken.       *)
Closing == \E c \in held : conn[c].resets > 0
OomSpin == awake /\ Fds \subseteq open
ClosedIsReturned == Closing ~> ~ Closing \/ OomSpin \/ Haunted
=============================================================================
