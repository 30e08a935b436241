---------------------------- MODULE MayhemClient ----------------------------
(***************************************************************************)
(* One client connection from mayhem_connect to mayhem_close: the life of  *)
(* struct _rtmp (rtmp.c), the NetConnection / NetStream layer above it     *)
(* (netstatus.c) and the naiad layer on top (mayhem.c), which hold         *)
(* pointers to each other, call back into each other from inside their     *)
(* handlers, and are freed at different times.                             *)
(*                                                                         *)
(* Everything runs in one thread, to completion, so an action is one call  *)
(* from the event loop or from the program.  The functions it goes through *)
(* are operators from a world to the set of worlds they may leave behind:  *)
(* a send may succeed or fail, a callback may abort.  Then() runs one      *)
(* after another; the field ret is what the last of them returned.         *)
(*                                                                         *)
(* The socket is external: any call on it may have any of its outcomes.    *)
(* The buffer is modelled in RtmpBuf, the event loop in Nbio.              *)
(***************************************************************************)
EXTENDS Naturals

VARIABLES
    r,                      \* struct _rtmp and its nbio
    m,                      \* struct _mayhem: are its two pointers set, is_premium
    ns,                     \* struct _netstatus
    seen,                   \* what the program was told, and what went wrong
    pc                      \* "start", "pump", "idle", then "closed", "exit"

vars == <<r, m, ns, seen, pc>>

World == [r |-> r, m |-> m, ns |-> ns, seen |-> seen, ret |-> TRUE]

Ok(w)   == [w EXCEPT !.ret = TRUE]
Fail(w) == [w EXCEPT !.ret = FALSE]

(* The first wrong access to memory, and where.  The process is gone then: *)
(* nothing more happens to the world.                                      *)
NoFault == "none"
Sound(w) == w.seen.fault = NoFault
Fault(w, what) == IF Sound(w) THEN [w EXCEPT !.seen.fault = what] ELSE w

Then(S, Op(_)) == UNION {IF Sound(w) THEN Op(w) ELSE {w} : w \in S}
IfOk(S, Op(_)) == Then(S, LAMBDA w : IF w.ret THEN Op(w) ELSE {w})

(* Bound: calls the program gets are told apart up to the second.          *)
Again(n) == IF n < 2 THEN n + 1 ELSE n

-----------------------------------------------------------------------------
(* nbio.c, as a connection sees it.  r.list is the list its io is on,      *)
(* r.mask what it waits for ("READ", "WRITE" or "DELETED"; "NONE" before   *)
(* nbio_add), and r.err the NBIO_ERROR flag.                               *)

NbioDel(w) ==
    [w EXCEPT !.r.list = "deleted", !.r.mask = "DELETED", !.r.err = FALSE]

(* nbio_inactive(WRITE): only an io that waits for nothing else goes to    *)
(* sleep; one that is deleted is waiting for nothing at all.               *)
SleepOnWrite(w) ==
    IF w.r.mask = "READ" THEN w ELSE [w EXCEPT !.r.list = "inactive"]

(* Mutant: waits for nothing.                                              *)
SetWaitReadNone(w) ==
    [w EXCEPT !.r.list = "inactive", !.r.mask = "NONE", !.r.err = FALSE]

(* nbio_set_wait(READ)                                                     *)
SetWaitRead(w) ==
    IF w.r.mask = "DELETED" THEN Fault(w, "assert in nbio_set_wait")
    ELSE [w EXCEPT !.r.list = "active", !.r.mask = "READ", !.r.err = FALSE]

-----------------------------------------------------------------------------
(* Closing down: rtmp_close, mayhem_abort, rtmp_died, transition(ABORT).   *)

(* rtmp_dtor, which frees: while the io is on a list of the event loop,    *)
(* the list is left with a pointer to nothing.                             *)
RtmpDtor(w) ==
    LET f == [w EXCEPT !.r.mem = "freed"]
    IN  IF w.r.list # "none" THEN Fault(f, "freed on a list") ELSE f

(* Mutant: frees at once.                                                  *)
RtmpCloseNow(w) ==
    IF ~ w.m.rtmp THEN w ELSE RtmpDtor([w EXCEPT !.r.killed = TRUE])

(* rtmp_close(m->rtmp)                                                     *)
RtmpClose(w) ==
    IF ~ w.m.rtmp THEN w
    ELSE IF w.r.mem = "freed" THEN Fault(w, "closed twice")
    ELSE LET k == [w EXCEPT !.r.killed = TRUE]
         IN  IF w.r.conn_reset THEN RtmpDtor(k) ELSE NbioDel(k)

(* netstatus_free(m->ns)                                                   *)
NetstatusFree(w) ==
    IF ~ w.m.ns THEN w
    ELSE IF w.ns.mem = "freed" THEN Fault(w, "netstatus freed twice")
    ELSE [w EXCEPT !.ns.mem = "freed"]

(* Mutant: leaves the pointers as they are.                                *)
MayhemAbortDangling(w) == NetstatusFree(RtmpClose(w))

MayhemAbort(w) ==
    LET c == NetstatusFree(RtmpClose(w))
    IN  [c EXCEPT !.m.ns = FALSE, !.m.rtmp = FALSE]

(* Mutant: does not tell the program.                                      *)
RtmpDiedSilently(w) == MayhemAbort(w)

(* The program's connect_error callback, then mayhem_abort                 *)
RtmpDied(w) == MayhemAbort([w EXCEPT !.seen.told = Again(@)])

(* transition() to ABORT or CONN_RESET                                     *)
Reset(w, state) ==
    LET d == RtmpDied([w EXCEPT !.r.state = state])
    IN  IF ~ Sound(d) THEN d
        ELSE IF d.r.mem = "freed" THEN Fault(d, "reset after free")
        ELSE Fail(NbioDel([d EXCEPT !.r.conn_reset = TRUE]))

-----------------------------------------------------------------------------
(* Sending.  The socket takes it all, or is full (or not connected yet),   *)
(* or has failed.                                                          *)

RtmpSend(w) ==
    {Ok(w), Fail(SleepOnWrite(w)), Reset(w, "ABORT"), Reset(w, "CONN_RESET")}

(* A send through m->rtmp                                                  *)
MayhemSend(w, where) ==
    IF ~ w.m.rtmp THEN {Fault(w, where)}
    ELSE IF w.r.mem = "freed" THEN {Fault(w, "send on freed")}
    ELSE RtmpSend(w)

(* An access to what m->ns points to                                       *)
WithNs(w, S) ==
    IF ~ w.m.ns THEN {Fault(w, "netstatus is NULL")}
    ELSE IF w.ns.mem = "freed" THEN {Fault(w, "netstatus is freed")} ELSE S

NsSet(w, state) == WithNs(w, {[w EXCEPT !.ns.state = state]})

(* netstatus_createstream, netstatus_play, netstatus_connect_custom: the   *)
(* state changes only when the send went out.  ns->rtmp is m->rtmp.        *)
NsSend(w, state) ==
    WithNs(w, IfOk(MayhemSend(w, "ns->rtmp is freed"), LAMBDA v : NsSet(v, state)))

(* Any callback of the program may call mayhem_abort, as NaiadFreeze does  *)
(* in dump.c and in wmclient.                                              *)
Program(w) == {w, MayhemAbort(w)}

AbortUnlessOk(S) ==
    Then(S, LAMBDA w : {IF w.ret THEN w ELSE Ok(MayhemAbort(w))})

-----------------------------------------------------------------------------
(* The handshake.                                                          *)

(* realloc fails, in rbuf_update_size                                      *)
OutOfMemory(w) == Reset(w, "ABORT")

(* handshake1, and the end of transition(HANDSHAKE_1)                      *)
Handshake1(w) ==
    {OutOfMemory(w)} \cup
    IfOk(RtmpSend(w), LAMBDA v : {[SetWaitRead(v) EXCEPT !.r.state = "HANDSHAKE_1"]})

(* What rtmp_connected does when invoke_connect could not send: it frees   *)
(* and closes, and m keeps the pointers.  They are NULL already if it was  *)
(* a reset that made the send fail.                                        *)
ConnectUnsent(w) ==
    LET c == RtmpClose(NetstatusFree(w))
    IN  IF w.m.rtmp THEN [c EXCEPT !.seen.astray = "unsent"] ELSE c

(* rtmp_connected, called from ready(), which always succeeds              *)
RtmpConnected(w) ==
    LET c == [w EXCEPT !.seen.met = Again(@)]
        n == [c EXCEPT !.ns = [mem |-> "live", state |-> "INIT"], !.m.ns = TRUE]
    IN  {ConnectUnsent(c)} \cup
        Then(NsSend(n, "CONNECT_SENT"),
             LAMBDA v : {Ok(IF v.ret THEN v ELSE ConnectUnsent(v))})

(* Mutant: the state stays as it was.                                      *)
Handshake2Stays(w) == IfOk(RtmpSend(w), RtmpConnected)

(* handshake2, inside transition(HANDSHAKE_2), ends in transition(READY);  *)
(* when that returns, its state is overwritten, even one set by a reset.   *)
Handshake2(w) ==
    IfOk(RtmpSend(w), LAMBDA v :
        Then(RtmpConnected(v), LAMBDA u : {[u EXCEPT !.r.state = "HANDSHAKE_2"]}))

(* handshake1_resp and the resize at the end of rtmp_pump, whose realloc   *)
(* may fail                                                                *)
Reply(w) == IfOk(Handshake2(w), LAMBDA v : {v, OutOfMemory(v)})

-----------------------------------------------------------------------------
(* Messages: rtmp_dispatch to mayhem.c's and netstatus.c's handlers.       *)

(* r_ctl (a ping) and r_server_bw answer at once.                          *)
Echo(w) == RtmpSend(w)

(* r_chunksz: a size of 0 or a failed realloc resets, and what rtmp_pump   *)
(* does at the end may fail (again).                                       *)
ChunkSize(w) ==
    Then({w, Reset(w, "ABORT")}, LAMBDA v : {v, OutOfMemory(v)})

(* r_audio, r_video: maybe a megabyte since the last report                *)
Media(w) == Program(w) \cup Program([w EXCEPT !.r.due = TRUE])

(* r_notify, the naiad calls that send nothing, NetStream stop and reset   *)
Heard(w) == Program(w)

(* i_auth                                                                  *)
Authorized(w) ==
    Then(Program(w), LAMBDA v :
        IF v.m.premium THEN AbortUnlessOk(MayhemSend(v, "auth_result")) ELSE {v})

(* i_set                                                                   *)
NaiadSet(w) == AbortUnlessOk(NsSend(w, "CREATE_SENT"))

(* conn_success, stream_connected                                          *)
ConnSuccess(w) ==
    Then(NsSet(w, "CONNECTED"), LAMBDA v : IF v.m.premium THEN {v} ELSE NaiadSet(v))

(* conn_err, connect_error                                                 *)
ConnErr(w) == Then(NsSet(w, "CONNECTED"), LAMBDA v : {RtmpDied(v)})

(* create_result, stream_created: any _result, but only once one is due    *)
CreateResult(w) ==
    IF w.ns.state # "CREATE_SENT" THEN {w}
    ELSE Then(NsSet(w, "CREATED"), LAMBDA v : AbortUnlessOk(NsSend(v, "PLAY_SENT")))

(* play_start, start, invoke_start                                         *)
PlayStart(w) ==
    Then(Then(NsSet(w, "PLAYING"), LAMBDA v : MayhemSend(v, "invoke_start")), Program)

(* play_error                                                              *)
PlayError(w) == Then(NsSet(w, "STOPPED"), LAMBDA v : {MayhemAbort(v)})

PlayStop(w)  == Then(NsSet(w, "STOPPED"), Heard)
PlayReset(w) == Then(NsSet(w, "RESET"), Heard)

(* std_result, of a result, an error or an onStatus: told apart by its code *)
StdResult(w) ==
    ConnSuccess(w) \cup ConnErr(w) \cup PlayStart(w)
    \cup PlayStop(w) \cup PlayReset(w) \cup PlayError(w)

(* rtmp_dispatch: a message of any type, an invoke of any method           *)
Dispatch(w) ==
    Echo(w) \cup ChunkSize(w) \cup Media(w) \cup Heard(w)
    \cup Authorized(w) \cup NaiadSet(w) \cup CreateResult(w) \cup StdResult(w)

(* send_read_report, then mayhem.c's checkup in read_report_sent, which    *)
(* is called whether or not the report went out                            *)
ReadReport(w) ==
    IF ~ w.r.due THEN {w}
    ELSE Then(RtmpSend(w), LAMBDA v :
            MayhemSend([v EXCEPT !.r.due = ~ v.ret,
                                 !.seen.misreported = @ \/ ~ v.ret], "checkup"))

(* rtmp_drain_buf's switch and what decode_rtmp and rtmp_pump do to r when *)
(* the dispatch has returned                                               *)
Drained(w, S) ==
    IF w.r.state \in {"ABORT", "CONN_RESET"} THEN {Fault(w, "abort in rtmp_drain_buf")}
    ELSE Then(S, LAMBDA v :
            IF v.r.mem = "freed" THEN {Fault(v, "pump after free")} ELSE {v})

-----------------------------------------------------------------------------
Become(w) ==
    /\ r' = w.r /\ m' = w.m /\ ns' = w.ns /\ seen' = w.seen

Running(p) == pc = p /\ seen.fault = NoFault

(* conn_cb, called from inside mayhem_connect: m->rtmp is still NULL while *)
(* the first handshake is sent.                                            *)
Connect ==
    /\ Running("start")
    /\ LET c == [World EXCEPT !.r.mem = "live", !.r.state = "HANDSHAKE_1",
                              !.r.list = "active", !.r.mask = "WRITE"]
       IN  \E w \in Handshake1(c) :
              Become([w EXCEPT !.m.rtmp = TRUE,
                               !.seen.astray = IF w.r.conn_reset THEN "refused" ELSE @])
    /\ pc' = "pump"

(* The end of a visit in nbio_pump: NBIO_ERROR takes the io off its list,  *)
(* whatever the callbacks did, and no one is told.                         *)
DropOnError(w) ==
    IF ~ w.r.err \/ ~ Sound(w) THEN w
    ELSE [NbioDel(w) EXCEPT !.seen.astray = "dropped"]

(* A visit of nbio_pump to an io that is waiting for this.  (A write that  *)
(* leaves the io waiting to read is followed by a read in the same visit;  *)
(* with one connection that is the next visit.)                            *)
Visit(mask) == Running("pump") /\ r.list = "active" /\ r.mask = mask

(* iop_write: transition(r, r->state).  The io only ever waits to write    *)
(* for the first handshake.                                                *)
IopWrite ==
    /\ Visit("WRITE")
    /\ \E w \in Handshake1(World) : Become(DropOnError(w))
    /\ UNCHANGED pc

(* iop_read: recv has nothing, or fails, or the peer has closed ...        *)
ReadNothing ==
    /\ Visit("READ")
    /\ Become(DropOnError([World EXCEPT !.r.list = "inactive"]))
    /\ UNCHANGED pc

ReadEnd ==
    /\ Visit("READ")
    /\ \E s \in {"ABORT", "CONN_RESET"} : Become(DropOnError(Reset(World, s)))
    /\ UNCHANGED pc

(* ... or part of a reply or a message comes in, or all of one.            *)
ReadReply ==
    /\ Visit("READ") /\ r.state = "HANDSHAKE_1"
    /\ \E w \in Drained(World, Reply(World)) : Become(DropOnError(w))
    /\ UNCHANGED pc

ReadMessage ==
    /\ Visit("READ") /\ r.state # "HANDSHAKE_1"
    /\ \E w \in Drained(World, Then(Dispatch(World), ReadReport)) :
          Become(DropOnError(w))
    /\ UNCHANGED pc

(* Mutant: forgets that the connection is closed.                          *)
IopDtorKeeps(w) == [w EXCEPT !.r.list = "none", !.r.conn_reset = TRUE]

(* iop_dtor, after the list_del that goes before it                        *)
IopDtor(w) ==
    LET d == [w EXCEPT !.r.list = "none", !.r.conn_reset = TRUE]
    IN  IF d.r.killed THEN RtmpDtor(d) ELSE d

(* The scan is over: nbio_pump calls the dtors of the deleted and, in the  *)
(* end, returns.                                                           *)
PumpEnds ==
    /\ Running("pump") /\ r.list # "active"
    /\ Become(IF r.list = "deleted" THEN IopDtor(World) ELSE World)
    /\ pc' = "idle"

(* The plugin finds the io ready: epoll_pump, or the program's set_active. *)
Wake ==
    /\ Running("idle") /\ r.list = "inactive"
    /\ \E err \in BOOLEAN :
          Become([World EXCEPT !.r.list = "active", !.r.err = err])
    /\ UNCHANGED pc

(* do nbio_pump() while ( !list_empty(active) ), or the program's next one *)
MainLoop ==
    /\ Running("idle") /\ r.list \in {"active", "deleted"}
    /\ pc' = "pump" /\ UNCHANGED <<r, m, ns, seen>>

(* Between pumps the Python programs may call mayhem_abort and             *)
(* mayhem_snd_chat.                                                        *)
Abort ==
    /\ Running("idle") /\ Become(MayhemAbort(World)) /\ UNCHANGED pc

SndChat ==
    /\ Running("idle")
    /\ \E w \in MayhemSend(World, "mayhem_snd_chat") : Become(w)
    /\ UNCHANGED pc

(* mayhem_close                                                            *)
Close ==
    /\ Running("idle")
    /\ LET c == RtmpClose(NetstatusFree(World))
       IN  Become([c EXCEPT !.m.ns = FALSE, !.m.rtmp = FALSE])
    /\ pc' = "closed"

(* nbio_fini, when the Python object goes                                  *)
Fini ==
    /\ Running("closed")
    /\ Become(IF r.list = "none" THEN World ELSE IopDtor(World))
    /\ pc' = "exit"

Init ==
    /\ r = [mem |-> "none", state |-> "INIT", killed |-> FALSE, conn_reset |-> FALSE,
            list |-> "none", mask |-> "NONE", err |-> FALSE, due |-> FALSE]
    /\ m \in [rtmp : {FALSE}, ns : {FALSE}, premium : BOOLEAN]
    /\ ns = [mem |-> "none", state |-> "INIT"]
    /\ seen = [told |-> 0, met |-> 0, fault |-> NoFault, astray |-> "none",
               misreported |-> FALSE]
    /\ pc = "start"

Pump == IopWrite \/ ReadNothing \/ ReadEnd \/ ReadReply \/ ReadMessage \/ PumpEnds

Next == Connect \/ Pump \/ Wake \/ MainLoop \/ Abort \/ SndChat \/ Close \/ Fini

(* A pump runs to its end.  A program whose io is neither runnable nor     *)
(* asleep has nothing left to wait for: it closes, and the lists go.       *)
Fairness ==
    /\ WF_vars(Pump)
    /\ WF_vars(Close /\ r.list \in {"none", "deleted"})
    /\ WF_vars(Fini)

Spec == Init /\ [][Next]_vars /\ Fairness

-----------------------------------------------------------------------------
NullFaults == {"checkup", "auth_result", "mayhem_snd_chat"}
MemoryFaults ==
    {"freed on a list", "closed twice", "netstatus freed twice", "reset after free",
     "send on freed", "pump after free", "netstatus is NULL", "netstatus is freed",
     "ns->rtmp is freed", "invoke_start", "assert in nbio_set_wait",
     "abort in rtmp_drain_buf"}

(* Types of all of the variables.                                          *)
TypeOK ==
    /\ r \in [mem : {"none", "live", "freed"},
              state : {"INIT", "ABORT", "CONN_RESET", "HANDSHAKE_1", "HANDSHAKE_2"},
              killed : BOOLEAN, conn_reset : BOOLEAN,
              list : {"none", "active", "inactive", "deleted"},
              mask : {"NONE", "READ", "WRITE", "DELETED"}, err : BOOLEAN, due : BOOLEAN]
    /\ pc = "start" \/ r.mask # "NONE"
    /\ m \in [rtmp : BOOLEAN, ns : BOOLEAN, premium : BOOLEAN]
    /\ ns \in [mem : {"none", "live", "freed"},
               state : {"INIT", "CONNECT_SENT", "CONNECTED", "CREATE_SENT", "CREATED",
                        "PLAY_SENT", "PLAYING", "STOPPED", "RESET"}]
    /\ seen \in [told : 0 .. 2, met : 0 .. 2,
                 fault : {NoFault} \cup NullFaults \cup MemoryFaults,
                 astray : {"none", "refused", "unsent", "dropped"},
                 misreported : BOOLEAN]
    /\ pc \in {"start", "pump", "idle", "closed", "exit"}

(* As long as no fault has happened and the connection is not astray, what *)
(* mayhem.c points to between calls is there and has not ended, and what   *)
(* is freed is on no list: after resets, aborts and closes from inside any *)
(* callback (mayhem.c:45, rtmp.c:894, rtmp.c:775).  Nothing is claimed     *)
(* once it is astray, which happens in three ways: a connect that is       *)
(* refused at once, before m->rtmp is assigned (rtmp.c:805); a connect     *)
(* request that cannot be sent (mayhem.c:645); an error the loop keeps to  *)
(* itself (nbio.c:151).                                                    *)
PointersSound ==
    seen.fault = NoFault /\ seen.astray = "none" =>
        /\ m.rtmp => r.mem = "live" /\ ~ r.killed /\ ~ r.conn_reset
        /\ m.ns => ns.mem = "live"
        /\ r.mem = "freed" => r.list = "none"

(* As long as the connection is not astray, no sequence of callbacks,      *)
(* resets, aborts and closes frees anything twice, or uses or frees what   *)
(* the event loop or another layer still holds.  Two things that do go     *)
(* wrong are set apart: all that follows a connect request that could not  *)
(* be sent (mayhem.c:645), a refused connect (rtmp.c:805) or a drop by the *)
(* loop, and the calls through the NULL that an abort leaves in m->rtmp    *)
(* (mayhem.c:73, 513, 540: NullFaults).                                   *)
NoMemoryFault == seen.astray = "none" => seen.fault \notin MemoryFaults

(* A connection that leaves the event loop, other than by the loop's own   *)
(* drop on an error (nbio.c:151), of which nobody is told, was closed by   *)
(* the program, or the program was told of it (rtmp.c:906-922).            *)
NeverVanishes ==
    pc # "start" /\ r.list = "none" /\ seen.astray # "dropped" =>
        r.killed \/ seen.told > 0

(* The connected callback, which makes a netstatus and sends the connect   *)
(* request, runs at most once, although a handshake that could not be sent *)
(* is tried again, and the state it sets is overwritten (rtmp.c:311-331,   *)
(* 940).                                                                   *)
ConnectedOnce == seen.met <= 1

(* A connection that was closed is freed, by whoever comes last.           *)
Reclaimed ==
    r.killed ~> r.mem = "freed" \/ seen.fault # NoFault \/ seen.astray # "none"

(* read_report_sent (include/rtmp/rtmp.h:30): called when one was sent.    *)
ReportsSent == ~ seen.misreported
=============================================================================
