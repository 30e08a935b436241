---------------------------- MODULE ChunkCodec -----------------------------
(***************************************************************************)
(* The chunk decoder of rtmp.c (and its copy in rtmpd.c) against a peer    *)
(* that lays chunks out as encode_chan, hdr_full and hdr_small do.  The    *)
(* decoder starts again at the chunk's first byte each time more has come  *)
(* in, and reads the whole header before it finds out whether it is there: *)
(* what is behind the received bytes is whatever the buffer held before.   *)
(* It keeps what a later header leaves out in its channel.                 *)
(*                                                                         *)
(* The wire is cut into units: a field of the header, or a part of the     *)
(* body.  A field of which a part has come reads as anything, like one of  *)
(* which nothing has.                                                      *)
(***************************************************************************)
EXTENDS Integers, Sequences

CONSTANTS
    Chans,                  \* channels that are used
    Szs, Dests, Tss,        \* lengths, stream numbers, timestamps of messages
    ChunkSz,                \* body units in a chunk
    W,                      \* 1 + the largest uint32_t
    MaxChunks               \* bound: chunks the peer sends

ASSUME SizesAssumption ==
    /\ \A c \in Chans : c \in Nat /\ 2 <= c /\ c <= 65598
    /\ \A sz \in Szs : sz \in Nat /\ sz > 0
    /\ \A ts \in Tss : ts \in Nat
    /\ ChunkSz \in Nat \ {0} /\ W \in Nat \ {0} /\ MaxChunks \in Nat

VARIABLES
    dec,                    \* r->chan, for the channels that are used
    ref,                    \* what the peer means each channel's state to be
    head,                   \* the chunk at the head of the buffer
    avail,                  \* how many of its units have been received
    wrong,                  \* channels on which a message was not dispatched as sent
    sent,                   \* chunks the peer has begun
    lost,                   \* the decoder takes the chunk to end elsewhere
    cut, inherits, again    \* history, see NextChunk and NeedMore

vars == <<dec, ref, head, avail, sent, wrong, lost, cut, inherits, again>>

Ext == 16777216             \* 1 << 24: from here on timestamps are extended
Mark == Ext - 1             \* what the decoder takes for the mark of such a one
NoBuf == -1                 \* p_left of a channel with p_buf NULL
Other == 0                  \* a channel that is not used

AtMost(a, b) == IF a < b THEN a ELSE b

Stamps == Tss \cup {0, Mark}

NewChan == [cur_ts |-> 0, ts |-> 0, sz |-> 0, dest |-> 0, p_left |-> NoBuf]
NoChunk == [type |-> 3, chan |-> Other, ts |-> 0, sz |-> 0, dest |-> 0]

(* encode_chan: the low bits of a chunk's first byte                       *)
Code(chan) == IF chan < 64 THEN chan ELSE IF chan < 255 + 64 THEN 0 ELSE 1

(* hdr_full and hdr_small, and the two headers between them that only      *)
(* servers send: which fields there are, in order.  Type and length of a   *)
(* message come together and are one field here.                           *)
Header(h) ==
    <<"basic">>
    \o (IF Code(h.chan) \in {0, 1} THEN <<"chan">> ELSE << >>)
    \o (IF h.type <= 2 THEN <<"ts">> ELSE << >>)
    \o (IF h.type <= 1 THEN <<"sz">> ELSE << >>)
    \o (IF h.type = 0 THEN <<"dest">> ELSE << >>)
    \o (IF h.type <= 2 /\ h.ts >= Ext THEN <<"ext">> ELSE << >>)

(* The body of the next chunk of the message on a channel                  *)
Left(ch) == AtMost(IF ch.p_left = NoBuf THEN ch.sz ELSE ch.p_left, ChunkSz)

(* A header's fields enter the channel: those it has.                      *)
Enter(ch, type, ts, sz, dest) ==
    [ch EXCEPT !.cur_ts = IF type <= 2 THEN ts ELSE @,
               !.sz     = IF type <= 1 THEN sz ELSE @,
               !.dest   = IF type = 0 THEN dest ELSE @]

(* Mutant: the buffer of a complete message is not freed.                  *)
StoredKept(ch) ==
    LET left == (IF ch.p_left = NoBuf THEN ch.sz ELSE ch.p_left) - Left(ch)
    IN  [ch EXCEPT !.p_left = left,
                   !.ts = IF left = 0 THEN (@ + ch.cur_ts) % W ELSE @]

(* The body of a chunk is appended to the message; when that is complete   *)
(* its header's timestamp is added to the channel's.                       *)
Stored(ch) ==
    LET left == (IF ch.p_left = NoBuf THEN ch.sz ELSE ch.p_left) - Left(ch)
    IN  [ch EXCEPT !.p_left = IF left = 0 THEN NoBuf ELSE left,
                   !.ts = IF left = 0 THEN (@ + ch.cur_ts) % W ELSE @]

(* What rtmp_dispatch gets of a message that is complete                   *)
Message(ch) == <<ch.dest, ch.ts, ch.sz>>

-----------------------------------------------------------------------------
Init ==
    /\ dec = [c \in Chans |-> NewChan] /\ ref = [c \in Chans |-> NewChan]
    /\ head = NoChunk /\ avail = 0
    /\ wrong = {} /\ lost = FALSE /\ cut = FALSE /\ inherits = FALSE
    /\ again = {} /\ sent = 0

(* The timestamp of a full header is the message's own, as in what         *)
(* rtmp_send writes, and that of any other is added to the one before.     *)
Meant(ch, type) == IF type = 0 THEN [ch EXCEPT !.ts = 0] ELSE ch

(* The peer's next chunk, of a new message or of one of those under way;   *)
(* a message inherits when it leaves its length to the one before it, and  *)
(* a channel starts again when its time is set once more.                  *)
NextChunk ==
    /\ head = NoChunk /\ sent < MaxChunks /\ sent' = sent + 1
    /\ \E c \in Chans, type \in 0..3, ts \in Tss, sz \in Szs, dest \in Dests :
          /\ IF ref[c].p_left # NoBuf THEN type = 3
             ELSE ref[c].sz = 0 => type = 0
          /\ head' = [type |-> type, chan |-> c,
                      ts   |-> IF type <= 2 THEN ts ELSE ref[c].cur_ts,
                      sz   |-> IF type <= 1 THEN sz ELSE ref[c].sz,
                      dest |-> IF type = 0 THEN dest ELSE ref[c].dest]
          /\ inherits' = (inherits \/ (ref[c].p_left = NoBuf /\ type >= 2))
          /\ again' = IF type = 0 /\ ref[c].ts # 0 THEN again \cup {c} ELSE again
          /\ ref' = [ref EXCEPT ![c] = Enter(Meant(@, type), type, ts, sz, dest)]
    /\ avail' = 0
    /\ UNCHANGED <<dec, wrong, lost, cut>>

(* decode_rtmp before the chunk is complete.  The fields that are there    *)
(* are as sent, the others read as anything, and so does the number of the *)
(* channel.  What the channel has of the body stays as it was.             *)
Has(field) ==
    \E i \in 1..Len(Header(head)) : i <= avail' /\ Header(head)[i] = field

ReadChan ==
    IF Code(head.chan) \notin {0, 1} \/ Has("chan") THEN {head.chan}
    ELSE {Other} \cup {c \in Chans : Code(c) = Code(head.chan)
                                     \/ (Code(head.chan) = 1 /\ c >= 64)}

(* Mutant: keeps the buffer it has made for the message.                   *)
EnterKept(ch, type, ts, sz, dest) ==
    LET e == [ch EXCEPT !.cur_ts = IF type <= 2 THEN ts ELSE @,
                        !.sz     = IF type <= 1 THEN sz ELSE @,
                        !.dest   = IF type = 0 THEN dest ELSE @]
    IN  [e EXCEPT !.p_left = IF @ = NoBuf THEN e.sz ELSE @]

(* A channel that has Mark from before reads a timestamp all the same.     *)
EnterJunk(ch, type, ts, sz, dest) ==
    LET e == Enter(ch, type, ts, sz, dest)
    IN  IF e.cur_ts = Mark THEN [e EXCEPT !.cur_ts = ts] ELSE e

NeedMore ==
    \E c \in ReadChan,
       ts \in IF Has("ts") /\ (head.ts >= Mark => Has("ext")) THEN {head.ts} ELSE Stamps,
       sz \in IF Has("sz") THEN {head.sz} ELSE Szs \cup {0},
       dest \in IF Has("dest") THEN {head.dest} ELSE Dests \cup {0} :
          /\ dec' = IF c = Other THEN dec
                    ELSE [dec EXCEPT ![c] = EnterJunk(@, head.type, ts, sz, dest)]
          /\ cut' = (cut \/ c # head.chan)
    /\ UNCHANGED <<head, ref, wrong, lost>>

(* Mutant: what was read on an earlier visit is not read again.            *)
ReadHeaderOnce(h) ==
    IF avail > 0 THEN dec[h.chan] ELSE Enter(dec[h.chan], h.type, h.ts, h.sz, h.dest)

(* All of the header is there.                                             *)
ReadHeader(h) == Enter(dec[h.chan], h.type, h.ts, h.sz, h.dest)

(* decode_rtmp with all of the chunk there.  The decoder sees its end      *)
(* elsewhere if it expects another body, or an extended timestamp where    *)
(* there is none: of a message sent at Mark, or on a channel that has it.  *)
Complete ==
    LET c == head.chan
        d == ReadHeader(head)
    IN  /\ lost' = (Left(d) # Left(ref[c]) \/ d.cur_ts = Mark)
        /\ dec' = [dec EXCEPT ![c] = Stored(d)]
        /\ ref' = [ref EXCEPT ![c] = Stored(@)]
        /\ wrong' = IF /\ Stored(d).p_left = NoBuf
                        /\ Message(Stored(d)) # Message(Stored(ref[c]))
                     THEN wrong \cup {c} ELSE wrong
        /\ head' = NoChunk /\ UNCHANGED cut

(* fill_rcv_buf, then rtmp_drain_buf                                       *)
Decode ==
    /\ head # NoChunk
    /\ LET all == Len(Header(head)) + Left(ref[head.chan])
       IN  /\ avail' \in (avail + 1)..all
           /\ IF avail' = all THEN Complete ELSE NeedMore
    /\ UNCHANGED <<sent, inherits, again>>

Next == ~ lost /\ (NextChunk \/ Decode)

Spec == Init /\ [][Next]_vars

-----------------------------------------------------------------------------
Channels ==
    [cur_ts : Stamps, ts : 0..(W - 1), sz : Szs \cup {0}, dest : Dests \cup {0},
     p_left : (Nat \ {0}) \cup {NoBuf}]

TypeOK ==
    /\ dec \in [Chans -> Channels] /\ ref \in [Chans -> Channels]
    /\ avail \in Nat /\ sent \in Nat /\ lost \in BOOLEAN /\ cut \in BOOLEAN
    /\ again \subseteq Chans

(* A channel has what was sent on it, but for the time of one on which     *)
(* that was set again: the decoder adds it to the one before (rtmp.c:591). *)
Same(ch, c) == ch = IF c \in again THEN [ref[c] EXCEPT !.ts = ch.ts] ELSE ref[c]

(* However the stream is cut, and whatever was in the buffer behind it,    *)
(* every channel below 64 has what was sent, except for the chunk that is  *)
(* being received, and the messages on it are dispatched as sent           *)
(* (rtmp.c:541-561, read again in full on the next visit), as long as no   *)
(* second full header has set the channel's time.                          *)
SmallChannelsSound ==
    ~ lost =>
        /\ \A c \in Chans : c < 64 /\ c # head.chan => Same(dec[c], c)
        /\ \A c \in wrong : c >= 64 \/ c \in again

(* The others too, as long as the stream was never cut behind the first    *)
(* byte of a header: the rest of the channel's number is read before it is *)
(* there, and another channel gets the fields (rtmp.c:525-536).            *)
AllSoundUnlessCut ==
    ~ lost /\ ~ cut =>
        /\ wrong \subseteq again
        /\ \A c \in Chans : c # head.chan => Same(dec[c], c)

(* The decoder loses the end of a chunk only where the stream was cut like *)
(* that, or a message was sent at 0xffffff, which hdr_full writes plain    *)
(* and rtmp.c:559 takes for the mark of an extended timestamp; and if all  *)
(* messages say how long they are, as those of rtmp_send do (rtmp.c:151),  *)
(* only by that mark.                                                      *)
FramingKept ==
    lost => /\ cut \/ \E c \in Chans : ref[c].cur_ts = Mark
            /\ inherits \/ \E c \in Chans : dec[c].cur_ts = Mark

(* What has been received of a message is not touched by a chunk that is   *)
(* not complete: only the chunk's body moves p_cur (rtmp.c:574).           *)
BodyKept ==
    [][\A c \in Chans : dec'[c].p_left # dec[c].p_left => c = head.chan /\ head' = NoChunk]_vars
=============================================================================
