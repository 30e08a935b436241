------------------------------ MODULE RtmpBuf -------------------------------
(***************************************************************************)
(* The receive buffer of an RTMP connection (rtmp.c 220-268, 300-324,      *)
(* 658-749): how it is sized for the handshake, drained chunk by chunk,    *)
(* filled, and resized as the peer changes the chunk size.  Bytes are      *)
(* counted, not carried: what the peer sends is the header length, the     *)
(* body length and, for a chunk-size message, the size it announces.       *)
(***************************************************************************)
EXTENDS Integers

CONSTANTS
    HandshakeSz,            \* RTMP_HANDSHAKE_LEN * 2 + 1
    HdrMaxSz,               \* RTMP_HDR_MAX_SZ: room kept for a chunk's header
    DefaultChunkSz,         \* RTMP_DEFAULT_CHUNK_SZ
    FullHdrs,               \* lengths of the header that begins a message
    NextHdrs,               \* lengths of the header of a later chunk of it
    CtlHdrs,                \* the former, for chunk-size messages
    ChunkSzs,               \* chunk sizes the peer may announce
    BodySzs                 \* lengths of the other messages

CtlSz == 4                  \* what r_chunksz reads of a chunk-size message

ASSUME SizesAssumption ==
    /\ HandshakeSz \in Nat \ {0} /\ HdrMaxSz \in Nat /\ DefaultChunkSz \in Nat
    /\ FullHdrs \subseteq Nat \ {0} /\ CtlHdrs \subseteq FullHdrs
    /\ NextHdrs \subseteq Nat \ {0}
    /\ ChunkSzs \subseteq Nat /\ BodySzs \subseteq Nat \ {0}
ASSUME DefaultsAssumption == HdrMaxSz <= DefaultChunkSz

VARIABLES
    phase,                  \* "handshake", "ready", or "dead" after transition(ABORT)
    cap,                    \* length r_buf was allocated with
    used, space,            \* r_cur - r_buf, and r_space
    chunk_sz,               \* r->chunk_sz
    hdr, p_left,            \* at the head of the buffer: header, rest of the message
    announced,              \* chunk size the message carries (NoSize: not such a message)
    curt                    \* history: the last chunk size came in a chunk too
                            \* short for its going to make room for a header

buffer == <<cap, used, space, chunk_sz>>
message == <<hdr, p_left, announced>>
vars == <<phase, buffer, message, curt>>

NoSize == -1
AtMost(a, b) == IF a < b THEN a ELSE b

(* What the head of the buffer must hold before anything is taken off it.  *)
Body == AtMost(p_left, chunk_sz)
Need == IF phase = "handshake" THEN HandshakeSz ELSE hdr + Body

(* The peer's next message; a chunk-size message shorter than CtlSz is     *)
(* like any other, as r_chunksz makes nothing of it.                       *)
NextMessage ==
    \/ hdr' \in FullHdrs /\ p_left' \in BodySzs /\ announced' = NoSize
    \/ /\ hdr' \in CtlHdrs /\ announced' \in ChunkSzs
       /\ p_left' \in {CtlSz} \cup {n \in BodySzs : n > CtlSz}

(* Mutant: forgets the room for a chunk's header.                          *)
ResizedBare(b) ==
    [cap |-> b.chunk_sz, used |-> b.used,
     space |-> b.chunk_sz - b.used, chunk_sz |-> b.chunk_sz]

(* Mutant: r_space as if the buffer were empty.                            *)
ResizedAsNew(b) ==
    [cap |-> b.chunk_sz + HdrMaxSz, used |-> b.used,
     space |-> b.chunk_sz + HdrMaxSz, chunk_sz |-> b.chunk_sz]

(* rbuf_update_size, given the data in the buffer: realloc to the chunk    *)
(* size, r_space recomputed.                                               *)
Resized(b) ==
    [cap |-> b.chunk_sz + HdrMaxSz, used |-> b.used,
     space |-> b.chunk_sz + HdrMaxSz - b.used, chunk_sz |-> b.chunk_sz]

(* rbuf_request_size: grow at once, shrink later                           *)
Requested(b, sz) ==
    LET c == [b EXCEPT !.chunk_sz = sz]
    IN  IF sz <= b.cap THEN c ELSE Resized(c)

(* The data taken is shuffled out of the buffer.                           *)
Shuffled(b, n) ==
    [cap |-> b.cap, used |-> b.used - n, space |-> b.space + n, chunk_sz |-> b.chunk_sz]

(* Mutant: resizes whatever is left in the buffer.                         *)
TakenAnyway(b, n) == Resized(Shuffled(b, n))

(* The tail of rtmp_pump: after the shuffle the buffer is resized to the   *)
(* chunk size, unless that would chop off what is left in it.              *)
Taken(b, n) ==
    LET c == Shuffled(b, n)
    IN  IF c.chunk_sz # c.cap - HdrMaxSz /\ c.chunk_sz >= c.used
        THEN Resized(c) ELSE c

Buf == [cap |-> cap, used |-> used, space |-> space, chunk_sz |-> chunk_sz]

Becomes(b) ==
    /\ cap' = b.cap /\ used' = b.used
    /\ space' = b.space /\ chunk_sz' = b.chunk_sz

-----------------------------------------------------------------------------
(* rtmp_pump once rtmp_drain_buf has said -1: fill_rcv_buf.  recv gives    *)
(* whatever has come in; without the assertion it would be asked for 0     *)
(* bytes, and its 0 taken for the end of the connection.                   *)
Fill ==
    /\ phase # "dead" /\ used < Need /\ space > 0
    /\ \E n \in 1 .. space : used' = used + n /\ space' = space - n
    /\ UNCHANGED <<phase, cap, chunk_sz, message, curt>>

(* handshake1_resp, handshake2: the reply is still in the buffer when the  *)
(* chunk size takes over from the handshake's.                             *)
Handshake ==
    /\ phase = "handshake" /\ used >= Need
    /\ Becomes(Taken(Requested(Buf, DefaultChunkSz), HandshakeSz))
    /\ phase' = "ready" /\ NextMessage /\ UNCHANGED curt

(* decode_rtmp: a chunk that does not complete its message                 *)
Fragment ==
    /\ phase = "ready" /\ used >= Need /\ Body < p_left
    /\ Becomes(Taken(Buf, Need))
    /\ p_left' = p_left - Body /\ hdr' \in NextHdrs
    /\ UNCHANGED <<phase, announced, curt>>

(* decode_rtmp and rtmp_dispatch: a message is complete                    *)
Message ==
    /\ phase = "ready" /\ used >= Need /\ Body = p_left /\ announced = NoSize
    /\ Becomes(Taken(Buf, Need))
    /\ NextMessage /\ UNCHANGED <<phase, curt>>

(* r_chunksz, from inside decode_rtmp: the buffer is asked for the new     *)
(* size while the message is still in it.                                  *)
ChunkSize ==
    /\ phase = "ready" /\ used >= Need /\ Body = p_left
    /\ announced \notin {NoSize, 0}
    /\ Becomes(Taken(Requested(Buf, announced), Need))
    /\ curt' = (Need + 1 < HdrMaxSz)
    /\ NextMessage /\ UNCHANGED phase

(* A size of 0, or no memory to grow to a larger one, aborts the           *)
(* connection, but what was taken is shuffled out all the same, and the    *)
(* resize may be tried (again).                                            *)
ChunkSizeAborts ==
    /\ phase = "ready" /\ used >= Need /\ Body = p_left
    /\ announced # NoSize /\ (announced = 0 \/ announced > cap)
    /\ LET b == IF announced = 0 THEN Buf ELSE [Buf EXCEPT !.chunk_sz = announced]
       IN  Becomes(Taken(b, Need)) \/ Becomes(Shuffled(b, Need))
    /\ phase' = "dead" /\ UNCHANGED <<message, curt>>

(* handshake1, on a new connection                                         *)
Init ==
    /\ phase = "handshake"
    /\ cap = HandshakeSz + HdrMaxSz /\ used = 0 /\ space = cap
    /\ chunk_sz = HandshakeSz
    /\ hdr = 0 /\ p_left = 0 /\ announced = NoSize /\ curt = FALSE

Next == Fill \/ Handshake \/ Fragment \/ Message \/ ChunkSize \/ ChunkSizeAborts

Spec == Init /\ [][Next]_vars

-----------------------------------------------------------------------------
(* Types of all of the variables; sizes are never negative.                *)
TypeOK ==
    /\ phase \in {"handshake", "ready", "dead"}
    /\ cap \in Nat /\ used \in Nat /\ space \in Nat /\ chunk_sz \in Nat
    /\ hdr \in Nat /\ p_left \in Nat /\ announced \in Nat \cup {NoSize}
    /\ curt \in BOOLEAN

(* r_space is always what is left of the allocation, through every realloc *)
(* and shuffle: recv is never given a length that runs past the buffer,    *)
(* and no resize chops off data that is outstanding (rtmp.c:731-744).      *)
WithinBuffer == used + space = cap

(* assert(r->r_space) in fill_rcv_buf (rtmp.c:690): whenever more data is  *)
(* needed there is room for it.                                            *)
RoomToFill == phase # "dead" /\ used < Need => space > 0

(* A shrink put off because more than the new chunk size is outstanding    *)
(* (rtmp.c:742), where what was taken did not make up for a header.        *)
Cramped == curt /\ cap # chunk_sz + HdrMaxSz

(* The assertion holds through every change of the chunk size, early or    *)
(* put off, for every header that is no longer than the room kept for one, *)
(* but while a shrink is put off that came with a short header: the next   *)
(* chunk and its header may then be longer than the buffer.                *)
RoomKept ==
    phase # "dead" /\ used < Need /\ hdr <= HdrMaxSz /\ ~ Cramped => space > 0
=============================================================================
