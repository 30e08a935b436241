# project-mayhem in TLA+

A model of the RTMP client and server library of this repository: the event
loop it runs on, the buffer a connection receives into and the chunks in it, the
life of client connections with the layers that point to each other above them,
the server and the pool its connections come from, the AMF codec, and the worker
threads of the GTK client.  TLC checks the
models on small instances; TLAPS proves some of the properties for every value of
the constants.  Line numbers refer to the files in `src/`.

Contents: [1 Inventory](#1-inventory) - [2 Modules](#2-the-modules-and-the-code)
- [3 Runs](#3-what-the-runs-check) - [4 Bounds](#4-bounds) -
[5 Fairness](#5-fairness) - [6 Proofs](#6-proofs) - [7 Disagreements](#7-where-code-and-comments-disagree)
- [8 Not modelled](#8-what-is-not-modelled) - [9 Plan](#9-plan)

## 1 Inventory

The programs are `wmdump` (dump.c: records a stream to FLV), `rtmprox` (a small
RTMP server), and the Python modules `pymayhem` (web scraping, GTK client in
`wmclient/`) and `pypm`.  All of the C runs in one thread, in callbacks from one
event loop.  What is hard about it is therefore not parallelism but order: which
callback runs inside which other, and what is still true when it returns.

### Event core - nbio.c, include/nbio.h

* State: `struct iothread` with three lists (`active`, `inactive`, `deleted`);
  each `struct nbio` has a `mask` (what it waits for), `flags` (what is ready)
  and the plugin's private word.
* Operations: `nbio_add`, `nbio_set_wait`, `nbio_inactive`, `nbio_del`,
  `nbio_pump`, `nbio_init`, `nbio_fini`; `nbio_to_waitq`, `nbio_wait_on` and
  `nbio_wake` have no caller.
* Interaction: the pump calls an io's `read`, `write` and `dtor`; these call
  back into the operations, on their own io and on any other, while the pump is
  in the middle of its list.  It calls the plugin when an io falls asleep, when
  one is changed, and when no io is runnable.
* Hard: the saved cursor of `list_for_each_entry_safe` while the list changes;
  an io that is deleted, requeued or added during the scan; errors reported
  together with data; ios that are gone and whose sockets are still open.
* Correct when: the scan never runs a deleted io, nor one with nothing to do;
  what is gone stays gone and its dtor is run; every io that has something to do
  is run again.  The last two depend on scans coming to an end, which is a
  property of its own.

### Plugins - nbio-epoll.c, nbio-poll.c (nbio-iocp.c is a stub)

* State: epoll's interest list and its edge-triggered ready list, `ev_priv.poll`
  (is it registered); for poll the array of `struct pollfd` and `ev_priv.poll`
  (which slot is it in).
* Operations: `pump` (wait, move the ready to `active`), `inactive` (register),
  `active` (forget).
* Hard: data that comes in between an EAGAIN and the registration; registrations
  made for an old mask; slots that move while their numbers are kept elsewhere.
* Correct when: an io that sleeps is registered for what it waits for, and what
  has come in for it will be reported.

### Listener and connecter - nbio-listener.c, nbio-connecter.c

* The listener accepts until EAGAIN, handing each socket to a callback that
  creates a new io, and calls `oom` when there are no descriptors.
* The connecter makes a socket and calls back when it is connected.  Its
  deferred path cannot be reached on POSIX (see 8).

### RTMP client connection - rtmp.c, include/rtmp/

* State: `struct _rtmp`: `state`, `killed`, `conn_reset`, the receive buffer
  (`r_buf`, `r_cur`, `r_space`, `chunk_sz`), one `struct rtmp_chan` per channel,
  the counters of the read report, and the callbacks of the layer above.
* Operations: `rtmp_connect`, `rtmp_send`, `rtmp_close`; `iop_read`,
  `iop_write`, `iop_dtor`; `transition` between handshake, ready and the two
  reset states; `rtmp_pump` / `rtmp_drain_buf` / `decode_rtmp` / `rtmp_dispatch`.
* Interaction: sends from inside handlers of received messages; the `conn_reset`
  callback from inside a send; `rtmp_close` from inside any callback.
* Hard: chunk-size changes while the message that carries them is in the buffer;
  chunks parsed anew whenever more of them comes in; who frees the connection
  when it is closed by the program and reset by the peer in either order;
  handshake steps that are retried.
* Correct when: `r_space` is what is left of the buffer and there is room for
  what is needed; a connection is freed once, when it is on no list; the program
  is told of every connection it did not close itself; the decoder's result does
  not depend on how TCP cuts the stream; the server is told every megabyte what
  was read.

### netstatus.c and mayhem.c (with mayhem-amf.c)

* State: `struct _netstatus.state`; `struct _mayhem` with pointers to the
  connection and the netstatus.
* Operations: the handlers of the AMF invokes (`naiad_dispatch`, `ns_result`,
  `onStatus`...), which send invokes of their own; `mayhem_connect`,
  `mayhem_abort`, `mayhem_close`, `mayhem_snd_chat`, ...
* Interaction: the program's callbacks, which may call `mayhem_abort` while
  handlers of all three layers are on the stack.
* Hard: the pointers between the layers when any one of them ends the
  connection; sends that fail half way through a handler.
* Correct when: what a pointer points to is alive, nothing is freed twice or
  used afterwards, the sequence connect - createStream - play is followed once.

### The server - rtmpd.c, rtmprox.c, and its pool hgang.c

* State: `struct _rtmpd` per connection, an object of a pool (`struct _hgang`)
  whose free objects are linked through the objects themselves.  rtmpd.c has its
  own copies of the buffer and the chunk decoder.
* Operations: `listen_cb`, `iop_read`, `iop_dtor`, `transition`, `rtmpd_close`;
  `hgang_new`, `hgang_alloc`, `hgang_alloc0`, `hgang_return`.
* Interaction: the program closes the connection from inside the callback that
  tells it of the reset, which `transition` goes on after.
* Hard: an object that goes back to the pool while a function that used it is
  still running, and is handed out again; the order in which close and reset
  meet; what is left when accept, the pool or malloc fails half way.
* Correct when: no object is handed out twice or overlaps another; nothing uses an
  object after its return; descriptors and connections belong together; what was
  closed is returned.

### AMF codec - amf.c, amf3.c, amfparse.c

Pure functions between terms and bytes, plus the construction of invokes.
Hard: `amf_size` and `amf_to_buf` walk the same tree separately, and the parser
follows lengths that a peer sent.  Correct when the size computed is the size
written, and parsing what was formatted gives it back.

### FLV and wmdump - flv.c, dump.c

State: which file is open, whether a frame's header has been written; the
main loop.  Correct when a file is opened, written and closed in that order and
once per stream.

### App plugin and Python binding - pymayhem.c, pypm.c; pymayhem/webthread.py

The binding makes the program's calls between pumps (`abort`, `snd_chat`,
deallocation).

### Web threads and GTK client - pymayhem/webthread.py, wmclient/

The repository's only threads: a worker for each host, with a queue, a lock and
an event.  Requests are pushed by the GTK thread, which has GDK's lock then, and
by callbacks in the workers; other callbacks take GDK's lock themselves.  Hard: the
event is set outside the lock that it is cleared under; two threads that make a
worker for one host; exceptions in a callback.  Correct when no request is
left behind, and nobody waits for a lock that does not come back.

### The rest

`cvars.c`, `blob.c`, `hexdump.c`, `os-posix.c`, `include/list.h`, GTK widgets,
HTML scrapers and build scripts: no state of their own that matters here, or
thin wrappers whose outcomes are choices in the models.

## 2 The modules and the code

| module | models | kind |
|---|---|---|
| `EventLoop` | what nbio promises to its callers | abstract specification |
| `Nbio` | nbio.c, nbio-epoll.c, nbio-listener.c, a small program over them | implements `EventLoop` |
| `NbioPoll` | the slots of nbio-poll.c | component |
| `RtmpBuf` | the receive buffer of rtmp.c | component |
| `MayhemClient` | rtmp.c, netstatus.c and mayhem.c as one client connection, pymayhem.c and dump.c as its callers | composition |
| `ChunkCodec` | the chunk decoder of rtmp.c and rtmpd.c, against the encoder | component |
| `ReadReport` | the counters of rtmp.c's read reports | component |
| `Pool` | what a pool of objects promises | abstract specification |
| `Hgang` | hgang.c | implements `Pool` |
| `Rtmpd` | rtmpd.c with rtmprox.c, on `Hgang` and the event loop | composition |
| `Amf` | amf.c: building, sizing, writing and parsing invokes | algorithms |
| `WorkQueue` | webthread.py with the GTK client's handlers and callbacks | component |
| `NbioProofs`, `RtmpBufProofs`, `MayhemClientProofs`, `ChunkCodecProofs`, `AmfProofs`, `RtmpdProofs`, `WorkQueueProofs` | theorems about the module they are named after; those about `Hgang` are in `RtmpdProofs` | proofs |
| `LimitsProofs` | how far two properties hold that `NbioPoll` and `ReadReport` violate | proofs |
| `MC...` | instances for TLC | |

### EventLoop

Each io is in a stage of life (`unborn`, `runnable`, `asleep`, `dead`, `freed`).
An io may go to sleep only when nothing is pending for it, is woken only when
something is, and never comes back from the dead, whichever list it may turn up
on.  No lists, cursors, masks or registrations.

### Nbio

| model | code |
|---|---|
| `active` (a sequence), `inactive`, `deleted` | the lists of `struct iothread`; the order of the last two is never used |
| `mask`, `flags` | the same fields; words of bits as sets |
| `reg` | `ev_priv.poll` together with the events the fd was registered for |
| `edge` | the kernel's ready list under EPOLLET |
| `pc`, `cur`, `tmp` | where `nbio_pump` is, and the two cursors of its loop |
| `rx`, `out`, `peer` | the kernel's side of each socket |
| `closed` | ios whose dtor has run |
| `unheard`, `resent` | history: ios dropped on an error, ios that a send put to sleep after `nbio_del` |

`Del`, `Inactive`, `SetWait` are `nbio_del`, `nbio_inactive`, `nbio_set_wait` /
`nbio_add` with the plugin call each makes.  A pass of the scan is split where
something else may happen in between: the kernel and the peers move between any
two actions.  `StartFor`, `EndFor`, `Continue` and `DropOnError` are the control
of `nbio_pump`; `WriteDone`, `WriteFail`, `ReadSome`, `ReadSleep`, `ReadEnd`,
`ReadClose`, `ReadCloseSend`, `Accept`, `AcceptRefused`, `AcceptFails` and `AcceptOom` are
the visits to an io with what its handler does: those of rtmp.c and
nbio-listener.c, seen as calls of the nbio API.  `ReadCloseSend` is a handler whose user
closes the connection and that goes on to send (rtmp.c:502, 200): if the socket is full,
`nbio_inactive` takes the deleted io off its list and registers it again.
`Reap` is the loop over the deleted, `EpollPump` is `epoll_pump`.  Note that the
scan's end test reads the mask of the cursor, which is how a deleted io is
recognised.

A connection that the loop drops on an error (`DropOnError`) is not killed, so its dtor
does not close its socket (rtmp.c:775-781, rtmpd.c:560-566).  The descriptor stays
open, which `OutOfFds` counts (`Open`), and it stays in the epoll set: `Reap` takes only
the others out, and `EpollPump` puts it back on the active list at the next event.

### RtmpBuf

`cap`, `used`, `space`, `chunk_sz` are the length of `r_buf`, `r_cur - r_buf`,
`r_space` and `r->chunk_sz`.  `Requested` is `rbuf_request_size`, `Resized`
is `rbuf_update_size`, `Taken` the tail of `rtmp_pump`.  Bytes are counted and not
carried: what matters of the peer's message is the length of its header and body,
and the size that a chunk-size message announces.  One message is followed at a
time; messages interleaved on several channels are, for the buffer, chunks of
the lengths that `BodySzs` and `FullHdrs` already give.  `curt` is history: the last
chunk-size message ended in a chunk shorter than the room for a header.

### MayhemClient

The functions here call each other deeply, in one thread and to completion: an
action is one call from the event loop or from the program, and each function
it goes through is an operator from a world (the state plus the last return
value) to the set of worlds it may leave.  A send may succeed, find the socket
full, or reset the connection, and in the last case the `conn_reset` callback has
run all the way up before the send returns; any callback of the program may
abort, as `NaiadFreeze` in dump.c does.  `Then` composes two operators, so the
order of effects is the order in the code.

| model | code |
|---|---|
| `r.mem`, `r.killed`, `r.conn_reset`, `r.state` | `struct _rtmp`, allocated or freed |
| `r.list`, `r.mask`, `r.err` | its `struct nbio`: list, mask, NBIO_ERROR |
| `r.due` | a read report is due |
| `m.rtmp`, `m.ns` | are the pointers of `struct _mayhem` set |
| `m.premium` | is there a session key, so that `i_auth` answers |
| `ns` | `struct _netstatus` |
| `seen.told`, `seen.met` | calls of `connect_error` and of `rtmp_connected` |
| `seen.fault` | the first wrong access to memory; nothing happens after it |
| `seen.astray` | which of the three known ways to lose track of a connection was taken |

What a message says is the choice of its handler; `Dispatch` and `StdResult` list them all.

### ChunkCodec

`dec` is what the decoder has in its `struct rtmp_chan`s, `ref` what the peer that
sends the chunks means them to be; the specification of the decoder is that the two
agree.  The wire is cut into units, a field of a header or a part of a body, and
arrives in any pieces.  `NeedMore` is `decode_rtmp` on a chunk that is not all there:
it has read the header, fields that have not come included, and put what it
read into the channel.  Which channel that is, for numbers from 64 on, is itself
read from bytes that may not be there (`ReadChan`).  `Complete` is the visit that
has all of it.  `p_left = NoBuf` is `p_buf == NULL`.  `ts` is `pkt->ts`, to which every
message adds what its header says (rtmp.c:591, in words of `W` values) and which is what
`rtmp_dispatch` gets; `cur_ts` is the header's.  To the peer the timestamp of a full header is
the message's own time, as in what `rtmp_send` writes (`Meant`).  `again` is history: the
channels whose time was set a second time so.

### ReadReport

`nbytes` and `nbytes_update` in words of `W` values, the test of rtmp.c:502 as it is
computed in C, and `since`, history: what has really come in since the last report.

### Hgang and Pool

An object is a pair of slab and offset.  `link` is the word that `hgang_return` writes
into the object; `chain` is history, the list that these words should spell.  `Pop`,
`Carve` and `NewSlab` are the three ways through `hgang_alloc`, of which the last may fail.
`Pool` knows only the objects in use and those that came back.

### Rtmpd

Extends `Hgang`: each object in use is a `struct _rtmpd`.  As in `MayhemClient`, functions
are operators on a world.  `Reset` is `transition` to one of the two reset states, with
the program's callback in the middle, which closes; `Handshake1`, `Handshake2`, `Decode` and
`Shrink` are what `rtmp_pump` may do with what is in the buffer; `IopDtor` and
`RtmpdClose` decide by `killed` and `conn_reset` which of them destroys.  Of the event
loop only the list an io is on, the error flag, the two phases of `nbio_pump` and
whether the listener is on the active list (`awake`) are kept: `Nbio` has the rest.  A scan
ends when the listener sleeps, too (`EndScan`), and it only goes to sleep when accept finds a
descriptor but nobody waiting (`ListenSleep`).  `lost` is history: the loop dropped the io
itself; such a one may come back to the active list (`Wakeable`).

### Amf

An element is a record with the fields of `struct _amf`; bytes are numbers below `Base`.
`Element` is the set of elements that have at most `MaxDepth` objects inside one another,
each with its keys distinct; `amf_size`, `amf_to_buf` and `AsRead` are recursive functions on
it, whose bodies `SizeOf`, `ToBuf` and `ReadBack` take the function as a parameter.
`parse_element` is a recursive function on the positions of a buffer, with one part for an
element and one for what is left of an object's members; a buffer is its bytes and how many
bytes behind them happen to read as end marks (`MaxMarks` of them), since the parser looks one
byte past its end.  The actions build an invoke through the API, then `Send` writes
it (or `Receive` lets a peer write it, with the two array forms that this
program never sends) and `Read` parses it.

### WorkQueue

A `WebConn` is its own thread.  Steps end where another thread could see a
difference: `PushLock`, `PushAppend` and `PushSet` are the three statements of `push`,
`Wait`, `RunLock`, `Pop` those of `run`, and `GetConn` and `CreateConn` the two halves of
`get_conn`.  `DoWork` is the request with its callback; `Raise` an exception in it.
`ThreadsEnter` and `ThreadsLeave` are GDK's lock around callbacks; the GTK thread has it
inside its handlers.

## 3 What the runs check

| run | expects | shows |
|---|---|---|
| `nbio` | pass | see below |
| `nbio_error` | violation | an io is deleted for an error that its handler did not see |
| `nbio_poll` | violation | with poll, a sleeping io drops out of the array |
| `rtmp_buf` | pass | the buffer through every change of chunk size |
| `rtmp_buf_extended` | violation | extended timestamps make headers that do not fit |
| `mayhem_client` | pass | see below |
| `mayhem_client_report` | violation | `read_report_sent` without a report |
| `rtmpd` | pass | the server's connections, and the pool they come from |
| `chunk_codec` | pass | what the decoder makes of chunks that come in pieces |
| `read_report` | violation | no report for 4 GB when a counter wraps |
| `amf` | pass | sizes are exact, and invokes come back as they were sent |
| `work_queue` | pass | requests, wakeups and locks of the worker threads |

**nbio** (94 000 states).
`ScanSafe`: what the scan is about to run is on the active list and has one of its
events ready, whatever handlers did to the saved cursor, and whatever dropped ios
epoll has put back on the list.
`NoLostWakeup`: a sleeping io is registered for its mask, and whatever came in
is on epoll's ready list, in any order of EAGAIN, registration, change of mask
and arrival.
`DeadStaysDead`: an io that is gone stays gone.  Of those that are gone only two kinds are
seen again on the active or the inactive list: dropped ones whose socket is open (nbio.c:151),
and ones that a send put to sleep (rtmp.c:73).
`ImplementsEventLoop`: every step is a step of `EventLoop` or leaves it alone; the
mapping is `Stage` (which list an io is on, unless it is gone) and `Pending` (what its
handler would find on the socket).
`ScanEnds`: the active list becomes empty again and again, which is when the deleted
are destroyed and epoll is asked.  It has three exceptions, all of them in the code: peers
that send or connect for ever; a listener without descriptors (`OomSpin`), which stays
runnable because `listen_oom` does nothing; and an io that is gone and back on the active list
(`Haunted`), at which every walk of the list ends.
`Woken` and `DeadReaped`: as long as scans end, an io that sleeps with something to do is
woken, and one that is deleted reaches its dtor.

**rtmp_buf**.  `WithinBuffer`: `r_space` is exactly what is left of the allocation, so
`recv` is never given too much, and no resize cuts off data.  `RoomKept`: the assertion
in `fill_rcv_buf` (rtmp.c:690) holds, but for two cases that the property names.  One is
a header longer than the room for one, which `rtmp_buf_extended` shows.  The other is
`Cramped`: a shrink of the chunk size is put off because more than the new size is
outstanding, and what was taken with the chunk-size message was less than the room for a
header (rtmp.c:742).  With an 8-byte header, as the decoder accepts, a full buffer of 142 bytes of
which 12 are taken keeps 130; a chunk size of 129 does not resize it, and the next chunk with
its header may be 143 bytes long.

**mayhem_client**.  `PointersSound`: between calls, what m points to is alive and
not ended, and what is freed is on no list.  `NoMemoryFault`: no double free,
no use after free, no free of what is on a list, in any order of resets,
aborts, failed sends and closes.  `NeverVanishes`: a connection that left the loop, other
than by the loop's own drop, was closed by the program, or the program was told.  `ConnectedOnce`: a retried
handshake does not run the connected callback twice.  `Reclaimed`: a connection that
was closed is freed in the end.

Four of these hold with named exceptions, each a path of the code that the model
follows and marks in `seen.astray`.  Nothing is claimed of what a path leads
to: `PointersSound`, `NoMemoryFault` and `Reclaimed` leave out all three, `NeverVanishes`
only the last:

* `refused`: the first handshake is sent from inside `mayhem_connect`, before
  `m->rtmp` is assigned (rtmp.c:805).  If the connect is refused at once, the
  callback sees no connection, and the pointer is assigned afterwards.
* `unsent`: the connect request cannot be sent; `rtmp_connected` frees and closes
  what `m` still points to (mayhem.c:645).
* `dropped`: the loop deletes the io on NBIO_ERROR and tells no one (nbio.c:151).

and with calls through the NULL that `mayhem_abort` leaves in `m->rtmp`, which
`NoMemoryFault` sets apart (`NullFaults`): `auth_result` and the read report's `checkup`
after an abort in the same dispatch, and `mayhem_snd_chat` called by a program on a
connection that is gone.

**rtmpd**.  `NeverUsedAfterReturn`: no function touches a connection after its memory
went back to the pool, although the program closes connections from inside
`transition`, and none goes back twice or while it is on a list.  `DescriptorsOwned`: each
connection has an open descriptor of its own and no other descriptor is open,
through refused, failed and destroyed connections.  `OnlyErrorsLeak`: a connection that is
on no list and still has its memory is one that the loop dropped on NBIO_ERROR
before the handler saw the error - which does leak it.  `ToldOnce`: the program hears
of a connection once and of its end once.  `ClosedIsReturned`: after a reset the
memory comes back, unless the scan does not end: the listener is awake and there is no
descriptor (`OomSpin`, rtmpd.c:622), or a dropped connection is back on the active list
(`Haunted`).  `FreeListSound`, `ObjectsApart` and `ImplementsPool` say of the pool,
under this user, what section 6 proves for all sizes.

**chunk_codec**.  `SmallChannelsSound`: channels below 64 are never disturbed, however the
stream is cut, and their messages are dispatched as sent.  There is one exception: the
timestamp on a channel whose time has been set by a second full header.  The code adds
that header's time to the sum (rtmp.c:591), where the messages of `rtmp_send` have absolute
times; two of 100000 and 200000 are dispatched as 100000 and 300000.  `AllSoundUnlessCut`: so are the
others, unless the stream was cut right behind a header's first byte; then the
fields may go to a channel nobody meant.  `FramingKept`: the decoder loses the end of a
chunk only by such a cut or by a timestamp of 0xffffff, which `hdr_full` writes plain
and rtmp.c:559 takes for the mark of an extended one; and only by that mark, if
messages carry their length.  `BodyKept`: visits to an
incomplete chunk do not touch what was received of the message.

**amf**.  `SizeExact`: the buffer that is allocated for an invoke is filled to the last
byte.  `RoundTrip`: what is parsed is what was built, with three differences that the code
makes and the property states: an empty string comes back as none; an array
comes back as its first element repeated, then all its elements once more
(amf.c:613); an invoke that ends in an empty string is refused (amf.c:530).  Keys of
2304 to 2559 characters are left out, because the parser takes the length of such a
key for the end of the object (amf.c:602).

**work_queue**.  `NoLostWakeup`: a queue that is not empty has its event set, or a thread
about to set it.  `LockOrder`: a queue's lock is held only in its two sections, GDK's only
in handlers and callbacks, so threads cannot wait in a circle.  `Served`: a request is
taken in the end, unless its worker died, or another died with a lock: what dead workers
leave behind is not claimed to be well.
`GdkComesBack`: so is GDK's lock given back.  The exceptions are real: a worker that wakes to an
empty queue dies of IndexError with the lock in its hand, and an exception between
`threads_enter` and `threads_leave` keeps GDK's lock.

Every property of a passing run has a mutant: an operator next to the one it
changes, commented "Mutant", which is what a plausible mistake there would look
like and makes that property fail.

## 4 Bounds

* `Nbio`: two streams and a listener.  The scan's hazards need the io that runs, the
  one saved in `tmp`, and a third that is closed or added; two streams and the
  listener give all three roles to every kind of io.  `Descriptors = 2` makes
  accept fail when both are in use.  `Units = 2` reads' worth of data lie on a socket at a
  time: data before and after an EAGAIN.  How much comes in altogether has no bound: a peer
  may send, and connect, for ever.  `epoll_pump` takes at most 8 events, so the
  module assumes at most 8 ios.  `Spare` stops connections for which there is no
  io left.
* `NbioPoll`: two ios; `MaxSlots` bounds the array.
* `RtmpBuf`: `HandshakeSz` is scaled down from 3073, chunk sizes and bodies to a
  handful on either side of every comparison (0, below the header room, the
  default, between, above what is allocated).  `HdrMaxSz` and the header lengths
  are those of the code, chunk-size messages with any of them included.
  The proofs of section 6 remove this bound.
* `Rtmpd`: three descriptors, slabs of two objects, two slabs: the pool carves, reuses, gets
  a second slab and fails; accept fails.  Objects are two pointers long, so that slabs
  and offsets differ.  Calls of the program are counted up to 2.  The proofs of section 6
  are for any set of descriptors and any pool.
* `ChunkCodec`: one channel of each of the three forms of a header (3, 64, 400); messages of
  three units in chunks of two, at most `MaxChunks` = 5 of them, so that a channel gets a second
  full header and another message after it; timestamps below, at and above the extended limit.
  `W` = 4 makes their sum wrap.  Section 6 removes these bounds.
  Interleaved messages, all four types of header and every cut are among the behaviours.
* `ReadReport`: counters of 64 values and reports every 8: the wrap comes after 8 reports
  instead of 4096.
* `Amf`: two elements, objects of two members with one level below them; `Base` is 16
  instead of 256, so that a key whose length starts like an end mark has 144
  characters; keys of length 0, 1 and 144; at most one byte behind the buffer that reads as
  an end mark.  Section 6 removes these bounds, too.
* `WorkQueue`: two hosts, three workers, so that two threads can make one for the same
  host; two clicks, lists of one image.
* `MayhemClient`: one connection; calls are counted up to 2 (`Again`), which is
  enough to tell none, one and too many.  State space is finite without other bounds, and
  section 6 proves the safety properties of the same specification, which has no constants.

`CHECK_DEADLOCK FALSE` is set because the programs stop: a loop with no io left
returns, a connection that is closed stays so.

## 5 Fairness

* `Nbio`: `WF_vars(Loop)`.  The process keeps running its loop while it has a step to
  take (dump.c:208-210).  Nothing is assumed of peers, the kernel, or the program: that a peer
  may send for ever is an exception of `ScanEnds`, and the condition of `Woken` and
  `DeadReaped`, not an assumption.
* `MayhemClient`: `WF_vars(Pump)`, since a pump runs to its end; and once the io is gone
  from the loop (or only waits there for its dtor), the program closes and tears
  down: dump.c:208-212 leaves its loop and calls `mayhem_close` and `nbio_fini`,
  the Python object does so in its dealloc (pymayhem.c:457-464).  Messages,
  wakeups, aborts and chats are not fair.
* `Rtmpd`: weak fairness of the loop's `EndScan` and `Reap`, since `nbio_pump` runs on.  Strong
  fairness of `Emptied` and `Settled`: a visit to a connection ends, now and then, with the
  buffer empty and with the connection asleep or ended; and of `ListenSleep`, that there are
  moments when nobody waits to be accepted.  These are assumptions on
  peers: ones that send or connect without a pause for ever keep the scan from ending,
  and then nothing is destroyed.  What the program itself does to that end, a listener
  without descriptors and dropped connections that wake up, is not assumed away:
  `ClosedIsReturned` names it.
* `WorkQueue`: weak fairness of every thread that can take a step, which for `DoWork` says
  that a request is answered or fails: an assumption on servers, as httplib2 is used
  without a timeout.  Exceptions and clicks are not fair.

## 6 Proofs

`tlapm` proves, without further assumption than the modules' `ASSUME`s:

| theorem | property | about |
|---|---|---|
| `RtmpBufProofs!TypeCorrect` | `TypeOK` | no size becomes negative |
| `RtmpBufProofs!NeverPastTheEnd` | `WithinBuffer` | for all sizes and messages |
| `RtmpBufProofs!AlwaysRoomToFill` | `RoomKept` | for all sizes, headers and messages |
| `NbioProofs!TypeCorrect` | `TypeOK` | the lists hold only ios |
| `NbioProofs!NoWakeupLost` | `NoLostWakeup` | for up to 8 ios, as all of `Nbio` |
| `NbioProofs!ScanIsSafe` | `ScanSafe` | whatever handlers do to the lists |
| `NbioProofs!TheDeadStayDead` | `DeadStaysDead` | on every step, with its two kinds of revenants |
| `NbioProofs!EventLoopImplemented` | `ImplementsEventLoop` | refinement, all steps |
| `MayhemClientProofs!ClientTyped` | `TypeOK` | every outcome of every call |
| `MayhemClientProofs!PointersStaySound` | `PointersSound` | while it is not astray and no fault has happened |
| `MayhemClientProofs!NoMemoryFaults` | `NoMemoryFault` | in any order of callbacks, resets, aborts and closes, while it is not astray |
| `MayhemClientProofs!ConnectionNeverVanishes` | `NeverVanishes` | unless the loop dropped it |
| `MayhemClientProofs!ConnectedOnceOnly` | `ConnectedOnce` | |
| `RtmpdProofs!PoolListSound` | `FreeListSound` | for all sizes, any user |
| `RtmpdProofs!PoolObjectsApart` | `ObjectsApart` | for all sizes given to `hgang_new` |
| `RtmpdProofs!PoolImplements` | `ImplementsPool` | refinement, all steps |
| `RtmpdProofs!ServerTyped` | `TypeOK` | for any set of descriptors and any pool, as all that follow |
| `RtmpdProofs!NothingUsedAfterReturn` | `NeverUsedAfterReturn` | |
| `RtmpdProofs!DescriptorsAreOwned` | `DescriptorsOwned` | |
| `RtmpdProofs!LeaksOnlyErrors` | `OnlyErrorsLeak` | |
| `RtmpdProofs!ToldOnceOnly` | `ToldOnce` | |
| `RtmpdProofs!ServerListSound` | `FreeListSound` | under the server |
| `RtmpdProofs!ServerObjectsApart` | `ObjectsApart` | no two connections share memory |
| `RtmpdProofs!ServerImplementsPool` | `ImplementsPool` | refinement, all steps |
| `ChunkCodecProofs!DecoderTyped` | `TypeOK` | |
| `ChunkCodecProofs!SmallSound` | `SmallChannelsSound` | for all cuts, sizes and timestamps; all but times that were set again |
| `ChunkCodecProofs!AllSound` | `AllSoundUnlessCut` | with the same exception |
| `ChunkCodecProofs!ChunksFramed` | `FramingKept` | |
| `ChunkCodecProofs!BodyMoves` | `BodyKept` | on every step |
| `WorkQueueProofs!Typed` | `TypeOK` | |
| `WorkQueueProofs!WakeupsKept` | `NoLostWakeup` | for any number of threads and requests |
| `WorkQueueProofs!LocksOrdered` | `LockOrder` | for any number of threads |
| `WorkQueueProofs!SectionsExclusive` | `Exclusive` | one thread in the sections of a lock |
| `AmfProofs!SizeIsExact` | of every element | `Len(amf_to_buf[a]) = amf_size[a]` |
| `AmfProofs!AmfSizeExact` | `SizeExact` | for all elements, depths and bases, as all that follow |
| `AmfProofs!ReadsGood` | of every buffer | no object that is read has a key twice |
| `AmfProofs!AmfTypeOK` | `TypeOK` | |
| `AmfProofs!ReadsAll` | of every element | read back wherever it is in a buffer |
| `AmfProofs!AmfRoundTrip` | `RoundTrip` | in either form a peer may use, and whatever is behind the buffer |
| `LimitsProofs!ReportsUntilTheEnd` | `EveryMegabyte` of `ReadReport` | for all sizes, until the counter is at its end |
| `LimitsProofs!OneConnectionPolled` | `StaysRegistered` of `NbioPoll` | with one io |

**The buffer.**  `WithinBuffer` is not inductive on its own: that what is left after a
shuffle or a resize is a number of bytes at all depends on the types, and these
in turn on the sum.  `Accounted == TypeOK /\ WithinBuffer` is; `RequestedSound` and
`TakenSound` say what the two operations on the buffer keep and how large they leave
it.  `AlwaysRoomToFill` needs in addition `Sized`: in each phase the buffer is large
enough for a chunk of the current size and the longest header there is room for, unless it is
`Cramped`.  The case to show is a shrink that is put off (`SizedNext`, step `ChunkSize`): what
stays in the buffer is more than the new chunk size, and what was taken is at least the room for
a header but one byte, so that the two add up.  With a shorter message they do not, which is
`curt`.  The only assumptions are that sizes are numbers and that the default chunk
size is at least `HdrMaxSz`.

**The wakeups.**  `NoLostWakeup` speaks of sleeping ios, but what makes it true is a
fact about all of them.  `epoll_inactive` does nothing for an io that is still
registered, so every registration, of an io awake or asleep, must be the one
that its mask asks for.  That in turn needs that a new io is blank, that the
masks are the few the callers use, and that no handler runs on a sleeping io.
`Settled(n)` is the conjunction of these for one io, and `Typed /\ AllSettled` is
inductive.  Its fourth conjunct has an exception for dead ios, because the loop
drops an io on an error without taking its fd out of epoll, and the last lets a dead
io sleep, because a send may have put it there (`ResendSettles`).  The proof follows one
io through each step: `Frame` says that an io that a step does not touch stays
settled; `DelSettles`, `SetWaitSettles`, `InactiveSettles`, `AcceptSettles` and
so on, one for each call of the API, deal with the one that it does.
`PumpSettles` has the argument for the kernel: what a sleeping io has to do is
among the events it was registered for, so if it is on the ready list it is
reported, and no longer asleep.

**The scan.**  `ScanSafe` needs the order of the active list.  `AllAwake`
says that no io is on that list twice, and that one which is on it has an event ready or the
mask of the deleted; `Tracked` says that `cur` and
`tmp` are on the active list or marked as deleted, that `tmp` is not the io being
visited, that the io being visited has no flags left when it has died under its
handler, and that the lists are empty when the plugin is asked to wait.  The point
of the argument is `KeepsTrack(n)`: a call of the API made on `n` takes no other
io off the list, so `tmp` can only lose its place by dying, or by being the io
whose handler runs, which it is not.

**The dead.**  `DeadStaysDead` needs to know why an io that is gone can be on a list of
the living: because it is there since a send, or because it is in the epoll set, and then it is
one that was dropped.  `Exiled(n)` says that of each io; `GoneIs` that to be gone is to have the mask
of the deleted, which no step takes away (`MaskStays`).  `IInv == Typed /\ AllSettled /\
AllAwake /\ Tracked /\ AllExiled` is inductive, and the theorems above follow from it.

**The refinement.**  An io is at one stage of life at a time: `IInv` has that, but for
`Placed(n)`, that a dead io is dead only once, that only ios on a list of the living have flags,
and that the socket of an io yet to be is as `socket()` made it.  `PInv == IInv /\
AllPlaced` is inductive.  `StageOf`, `SameStage` and `StageMoves` reduce a step to the one io
whose lists or mask change; `KillStep` (and from it `DelStep`, `DropStep` and `ResendStep`),
`SetWaitStep`, `SleepStep`, `AcceptStep`, `ConnectStep`, `ReapStep` and `PumpStep` then find the
step of `EventLoop` for each operation, and
`StepImplements` covers `Next`.  The two places with something to show are
`SleepStep` (nothing is pending when an io goes to sleep) and `PumpStep` (each io
that is woken slept, and has something pending, but for those that are gone, whose stage does
not change).

All theorems about `Nbio` are for up to 8 ios, with at most one listener among them:
epoll_pump takes 8 events a call, and the model takes all there are.

**The pool.**  `PoolSound(p, h)` says of a pool p and the objects h in use that the links spell
the history `chain`, with no object on it twice or in use (`Spelled`), and that objects
are laid out apart and below `next` in the slab being carved (`Laid`).  The last is the
strengthening: that a newly carved object overlaps with none needs that all others
in its slab end below `next`.  `SizesSound` shows that a slab has room for at least one
object, for all sizes.  `PopSound`, `CarveSound`, `NewSlabSound` and `ReturnSound` are the
four operations; they are stated of values and not of the variables, so that they
hold in the middle of a step of the pool's user.  The refinement adds what happens to
the set of spare objects (`PopSpare`, `ReturnSpare`, `EmptyChain`).

**The server.**  A function of rtmpd.c changes the record of its own connection and nothing
else: `Put(w, c, x)` is the world with another record for c, and `LeavesReset`,
`Handshake1Leaves`, `DrainedLeaves`, `VisitLeaves` say of each function which record it puts
there.  Between two steps a connection is in one of three conditions: `Alive`; `Ended`,
when the program was told once and has closed it; `Dropped` by the loop, when it was told
nothing, on whatever list.  This is stronger than the properties, which do not say that a connection
on a list that runs was neither told of its end nor closed, and without that the next
reset could tell the program again or destroy the connection under the loop.
`WorldSound` adds `PoolSound` of the pool, and `Owned`: the open descriptors are those of
the connections, one each.  `ListenStep`, `IopReadStep`, `PluginPumpStep`, `EndScanStep` and `ReapStep`
are the steps.  A refused connection takes an object and gives it back within one step
of the loop (`TakenBack`), which `Pool` never sees: to it the object was there, or
came back, all along (`TakenBackImplements`).

**The client.**  Of each operator of `MayhemClient` a lemma says in which worlds it may be
called and in which it returns, so that the proof follows the calls of the code.  The
properties say little of a connection in the middle of its life; the invariant is
`Core(w) /\ Stage(w)`.  `Tidy`, in `Core`, is what mayhem.c relies on: while it points to the
connection, this is alive, on a list that runs and neither closed nor reset; it points to it
exactly until the io is deleted; and it has a netstatus no longer than a connection, and at
the latest when messages come.  That is what makes every path into `mayhem_abort` free each
object once.  `Tidy` holds in `Calm` worlds, in which no path of `seen.astray` was taken and no
fault has happened; what follows the paths of `seen.astray` is not covered by these
theorems.  `MetOk` and `Stage` say why a handshake that is tried again does not
run the connected callback twice: the io waits to write, or the state is the first, only
as long as it has not run.  `GoneOk` carries `NeverVanishes` through the calls.  `Alive` and
`Ready` are what handlers need in addition in the middle of a dispatch.  The first call is
computed apart (`CalledIs`, `RefusedIs`, `FirstSendIs`, `JoinedSane`), because `m->rtmp` is NULL
while it sends, and `Core` does not hold.

**The threads.**  `NoLostWakeup` is inductive together with `Aimed` (who is pushing has a
`WebConn` to push to) and the types; `LockOrder` with `Exclusive`.  `WakeupKept`,
`QueueLocksKept` and `GdkLockKept` deal with the steps of a thread that is outside
the sections that matter, which is most of them, and one lemma for each action with
the rest.

**The decoder.**  The properties say nothing of the channel of the chunk being received,
and they are not inductive without it.  To agree (`Same`) is to have all that was sent, but
for the sum of timestamps on channels that are in `again`.
`Agrees(c)` says of that channel that it will be
what was sent once the whole header is read again; `EnterAgain`, that the last visit to a
header overwrites what earlier ones read, is why.  `ReadChanIs` is why small channels are
safe: no chunk of theirs is taken for another's, nor another's for one of
theirs.  `Small` and `Uncut` are the two soundness properties with `Agrees`; `Framed` says that
what is left of a message is the same on both sides even where the rest is not.
Together with the types and `FramingKept` they are inductive: `NextChunkKeeps`,
`NeedMoreKeeps` and `CompleteKeeps` are the three steps.

**The codec.**  The library's induction theorems take an operator as a parameter, which the
provers cannot instantiate; that `<` on `Nat` is well-founded is a fact about sets, and
induction over a *set* of numbers follows from it (`LeastNat`, `NatInd`, and
`UpTo`, `DownTo` for intervals).  With it:

* A function that is defined by recursion on elements satisfies its definition, if what it
  says of an element depends only on the elements inside (`FixedPoint`, by induction over the
  depth); `ElementInd` is induction over elements.  `Total` and `FlattenSeq`, which SequencesExt
  defines by a fold, are what they should be for any length (`TotalSteps`, `FlattenParts`).
* `SizeIsExact` follows by induction over the elements, and `SizeExact` from it and `Typed`,
  the inductive invariant: slots hold elements or arrays, and nothing is read before
  it is written.
* The parser moves on with each step and stops where the bytes end, so there is exactly one
  table of what is parsed where (`TableExists`, `ParseEq`, downwards from the end of the
  buffer).  `Good` says that an entry ends behind its start and has distinct keys; that gives
  `ReadsGood`, and `TypeOK`.
* `RoundTrip` speaks of the elements the invoke *has* and of bytes that were written
  earlier; `History` is what relates the two: the bytes are, slot by slot, one of the forms
  the slot's element has (`Wired`), and what was read was read from them.  `ReadsAll` is by
  induction over the elements, and inside an object from the last member to the first,
  `Backwards` the same over the slots of the invoke with what is read from each on
  (`ReadFrom`).  An array is the hard case (`StepArray`): the parser returns the first
  element repeated, goes on where the elements start, and reads all of them again as slots
  of the invoke, so that the array takes as many slots as it has elements and one more.

The exceptions of `RoundTrip` are needed: without the one for keys, `ReadsAll` stops
at `MemberRead`, where the next key's first byte must not be an end mark.

**The limits.**  Two of the runs find a property of the code violated; these theorems say how
much of it is left.  `EveryMegabyte` holds as long as neither the next message nor the next
report would take the counter past its end, so that rtmp.c:502 adds without a carry and
`since` is what the two counters are apart (`Counted`).  With one io, the
array of the poll plugin has one slot, which the io has while it sleeps (`OneSlot`),
and compacting it moves nothing.

**Only model-checked**: all liveness, `ScanEnds`, `Woken`, `DeadReaped`, `Reclaimed`,
`ClosedIsReturned`, `Served` and `GdkComesBack` (fairness and leads-to are out of the
prover's reach).  The invariants of all passing runs are proved, and so are their
action properties and refinements.

## 7 Where code and comments disagree

The first five have a run that fails, with the shortest behaviour as its trace.

1. nbio.c:148 "let read/write have a chance to determine exact nature of the
   error": the callback takes whatever data is there and sees no error; the io is then
   deleted and its owner is never told (`nbio_error`).
2. nbio-poll.c:90: the array of pollfds is compacted without renumbering
   `ev_priv.poll`, so ios come to look at each other's slots (`nbio_poll`).  One io
   alone is safe (`OneConnectionPolled`).
3. rtmp.c:690 `assert(r->r_space)`: `RTMP_HDR_MAX_SZ` has no room for an extended
   timestamp (`rtmp_buf_extended`).  A chunk-size message whose last chunk
   is of 12 bytes or less gets there, too, when the shrink it asks for is put off
   (`Cramped`, see `RoomKept`).
4. include/rtmp/rtmp.h:30 `read_report_sent` is called after a send that failed, too
   (`mayhem_client_report`).
5. rtmp.c:24 "send read updates every 1MB": rtmp.c:502 adds in 32 bits.  When a message
   takes `nbytes` past 2^32 while the sum is still below, the next report comes
   4 GB later (`read_report`).  Until then the comment is right (`ReportsUntilTheEnd`).

Others were met while modelling; the models follow the code, and the properties name
them where they matter:

* `ChunkCodec`: a channel number from 64 on is read before its bytes are there (rtmp.c:525),
  see `AllSoundUnlessCut`.
* rtmp.c:114 and 559: a timestamp of 0xffffff is written plain and read as extended, see
  `FramingKept`.
* rtmp.c:132: `hdr_full` writes an extended timestamp over the start of the header.  The
  client's timestamps are those of read reports, in ms since the start; headers that
  it writes are not checked against the decoder.
* rtmp.c:82: after a short send the loop steps one byte too far.
* nbio.c:154 with rtmpd.c: a connection that is dropped for an error keeps its descriptor
  and its memory for ever, see `OnlyErrorsLeak`.  It also keeps its place in the epoll set:
  the next event puts it back on the active list, where every walk ends at it and none takes it
  off, so the loop spins and no sleeping connection is looked at again (`Haunted` in `ScanEnds`
  and `ClosedIsReturned`).
* rtmp.c:502 with 73: a connection that is closed in the handler of a message, with a read report
  due and the socket full, is taken off the list of the deleted; it sleeps until an error or a
  hang-up, which puts it on the active list as above; its dtor is not run (`resent` in
  `DeadStaysDead`).
* rtmpd.c:622: with no descriptor left, `listen_oom` leaves the listener on the active list and
  the scan never ends, so that nothing is destroyed that would give one back (`OomSpin`).
* rtmp.c:591: timestamps of full headers are added up, see `SmallChannelsSound`.  (rtmp.c:197
  counts what it sends in steps of 100000, each in a full header.)
* amf.c:530, 602, 613: empty strings at the end, long keys, arrays; see `RoundTrip`.
* webthread.py:30: `popleft` on an empty queue, see `Served`.

## 8 What is not modelled

* The connecter's deferred path: `sock_connect` in os-posix.c does not let EINPROGRESS
  through, so `connecter_write` never runs; the connect that goes on in the
  background is seen in `Nbio` (`out`) as a stream that first waits to write.
* Failures of `epoll_ctl`, of `poll` and of small allocations at start-up.
* In callbacks of the program, calls other than `mayhem_abort`.
* The bytes of a short send (rtmp.c:63-86): senders see it as done or not done, and so do
  the models.  The headers that the sender writes; `ChunkCodec`'s peer lays them out
  as the decoder expects them.
* `rtmpd_send`, `hgang_free`, `hgang_foreach` and parts of nbio.c: no caller.
* amf.c: printing, and failures of small allocations; amf3.c, which reads one form of
  element that this program never sends (type 17).
* wmdump's choice of output files (flv.c, dump.c): its calls into the library are in
  `MayhemClient`; the files are written in the order of the packets.
* The HTTP cache, the HTML parsers and what is drawn of the answers in `WorkQueue`.
* Scrapers, widgets, cvars, file I/O, Windows code: no interesting state.

## 9 Plan

Done, in this order: `EventLoop`, `Nbio`, `NbioPoll`, `RtmpBuf`, `MayhemClient`,
`RtmpBufProofs`, `NbioProofs`, `Pool`, `Hgang`, `Rtmpd`, `WorkQueue`, `ChunkCodec`,
`Amf`, `ReadReport`, `WorkQueueProofs`, `ChunkCodecProofs`, `RtmpdProofs`,
`MayhemClientProofs`, `LimitsProofs`, `AmfProofs`.  What is left:

1. `Dump`: which file is open when, over the callbacks of `MayhemClient`.
2. The sender's headers and short sends, once it is clear what they should be.
