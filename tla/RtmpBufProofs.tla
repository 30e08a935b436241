---------------------------- MODULE RtmpBufProofs ---------------------------
(* Proofs about RtmpBuf, for every handshake length, room for a header,    *)
(* default chunk size, and peer.                                           *)
EXTENDS RtmpBuf, TLAPS

BufType == [cap : Nat, used : Nat, space : Nat, chunk_sz : Nat]

(* The part of the buffer's invariant that no peer can break.              *)
Sound(b) == b \in BufType /\ b.used + b.space = b.cap

(* Asking for a size keeps the data and the accounting.                    *)
LEMMA RequestedSound ==
    ASSUME NEW b, Sound(b), NEW sz \in Nat
    PROVE  /\ Sound(Requested(b, sz))
           /\ Requested(b, sz).used = b.used
           /\ Requested(b, sz).chunk_sz = sz
           /\ Requested(b, sz).cap >= sz
           /\ \/ Requested(b, sz).cap = b.cap
              \/ Requested(b, sz).cap = sz + HdrMaxSz
<1>1. CASE sz <= b.cap
  BY <1>1 DEF Requested, Sound, BufType
<1>2. CASE ~ (sz <= b.cap)
  <2>1. Requested(b, sz) = [cap |-> sz + HdrMaxSz, used |-> b.used,
                            space |-> sz + HdrMaxSz - b.used, chunk_sz |-> sz]
    BY <1>2 DEF Requested, Resized, Sound, BufType
  <2>2. b.used <= b.cap /\ b.cap \in Nat /\ b.used \in Nat
    BY DEF Sound, BufType
  <2> QED BY <1>2, <2>1, <2>2, SizesAssumption DEF Sound, BufType
<1> QED BY <1>1, <1>2

(* Taking n bytes off the buffer keeps the accounting, and leaves room for *)
(* a chunk and its header unless more than a chunk is still in the buffer. *)
LEMMA TakenSound ==
    ASSUME NEW b, Sound(b), NEW n \in Nat, n <= b.used
    PROVE  /\ Sound(Taken(b, n))
           /\ Taken(b, n).chunk_sz = b.chunk_sz
           /\ \/ Taken(b, n).cap = b.chunk_sz + HdrMaxSz
              \/ Taken(b, n).cap = b.cap /\ b.used - n > b.chunk_sz
<1> DEFINE c == Shuffled(b, n)
<1>1. /\ Sound(c) /\ c.chunk_sz = b.chunk_sz
      /\ c.cap = b.cap /\ c.used = b.used - n
  BY DEF Shuffled, Sound, BufType
<1>2. CASE c.chunk_sz # c.cap - HdrMaxSz /\ c.chunk_sz >= c.used
  <2>1. Taken(b, n) = Resized(c)
    BY <1>2 DEF Taken
  <2>2. c.chunk_sz \in Nat /\ c.used \in Nat /\ c \in BufType
    BY <1>1 DEF Sound, BufType
  <2> HIDE DEF c
  <2>3. /\ Sound(Resized(c)) /\ Resized(c).chunk_sz = c.chunk_sz
        /\ Resized(c).cap = c.chunk_sz + HdrMaxSz
    BY <1>2, <2>2, SizesAssumption DEF Resized, Sound, BufType
  <2> QED BY <1>1, <2>1, <2>3
<1>3. CASE ~ (c.chunk_sz # c.cap - HdrMaxSz /\ c.chunk_sz >= c.used)
  <2>1. Taken(b, n) = c
    BY <1>3 DEF Taken
  <2> HIDE DEF c
  <2>2. c.cap = c.chunk_sz + HdrMaxSz \/ c.used > c.chunk_sz
    BY <1>1, <1>3, SizesAssumption DEF Sound, BufType
  <2> QED BY <1>1, <2>1, <2>2
<1> QED BY <1>2, <1>3

-----------------------------------------------------------------------------
(* What no peer can break: the types, and the accounting of the buffer.    *)
Accounted == TypeOK /\ WithinBuffer

LEMMA BufSound ==
    ASSUME Accounted PROVE Sound(Buf) /\ Buf.used = used /\ Buf.chunk_sz = chunk_sz
BY DEF Accounted, TypeOK, WithinBuffer, Sound, Buf, BufType

LEMMA BecomesSound ==
    ASSUME NEW b, Sound(b), Becomes(b)
    PROVE  /\ cap' \in Nat /\ used' \in Nat /\ space' \in Nat /\ chunk_sz' \in Nat
           /\ WithinBuffer'
           /\ cap' = b.cap /\ used' = b.used /\ chunk_sz' = b.chunk_sz
BY DEF Becomes, Sound, BufType, WithinBuffer

(* Every message the peer may begin has lengths.                           *)
LEMMA NextMessageType ==
    ASSUME NextMessage
    PROVE  hdr' \in Nat /\ p_left' \in Nat /\ announced' \in Nat \cup {NoSize}
<1>1. CASE hdr' \in FullHdrs /\ p_left' \in BodySzs /\ announced' = NoSize
  BY <1>1, SizesAssumption
<1>2. CASE /\ hdr' \in CtlHdrs /\ announced' \in ChunkSzs
           /\ p_left' \in {CtlSz} \cup {n \in BodySzs : n > CtlSz}
  BY <1>2, SizesAssumption DEF CtlSz
<1> QED BY <1>1, <1>2 DEF NextMessage

LEMMA NeedIsNat ==
    ASSUME TypeOK PROVE Need \in Nat /\ Body \in Nat /\ Body <= p_left /\ Body <= chunk_sz
BY SizesAssumption DEF TypeOK, Need, Body, AtMost

LEMMA AccountedInit == Init => Accounted
<1> SUFFICES ASSUME Init PROVE Accounted
  OBVIOUS
<1>1. curt \in BOOLEAN
  BY Zenon DEF Init
<1> QED BY <1>1, SizesAssumption DEF Init, Accounted, TypeOK, WithinBuffer, NoSize

LEMMA AccountedNext == Accounted /\ [Next]_vars => Accounted'
<1> SUFFICES ASSUME Accounted, [Next]_vars PROVE Accounted'
  OBVIOUS
<1> USE DEF Accounted
<1>0. /\ Sound(Buf) /\ Buf.used = used /\ Buf.chunk_sz = chunk_sz
      /\ Need \in Nat /\ Body \in Nat /\ Body <= p_left
  BY BufSound, NeedIsNat
<1>1. CASE Fill
  BY <1>1 DEF Fill, TypeOK, WithinBuffer, message
<1>2. CASE Handshake
  <2>1. Need = HandshakeSz
    BY <1>2 DEF Handshake, Need
  <2>2. /\ Sound(Requested(Buf, DefaultChunkSz))
        /\ HandshakeSz <= Requested(Buf, DefaultChunkSz).used
    BY <1>0, <1>2, <2>1, RequestedSound, SizesAssumption DEF Handshake, TypeOK
  <2>3. Sound(Taken(Requested(Buf, DefaultChunkSz), HandshakeSz))
    BY <2>2, TakenSound, SizesAssumption
  <2> QED BY <1>2, <2>3, BecomesSound, NextMessageType DEF Handshake, TypeOK
<1>3. CASE Fragment
  <2>1. Sound(Taken(Buf, Need))
    BY <1>0, <1>3, TakenSound DEF Fragment, TypeOK
  <2> QED BY <1>0, <1>3, <2>1, BecomesSound, SizesAssumption DEF Fragment, TypeOK
<1>4. CASE Message
  <2>1. Sound(Taken(Buf, Need))
    BY <1>0, <1>4, TakenSound DEF Message, TypeOK
  <2> QED BY <1>4, <2>1, BecomesSound, NextMessageType DEF Message, TypeOK
<1>5. CASE ChunkSize
  <2>1. announced \in Nat
    BY <1>5 DEF ChunkSize, TypeOK
  <2>2. Sound(Requested(Buf, announced)) /\ Requested(Buf, announced).used = used
    BY <1>0, <2>1, RequestedSound
  <2>3. Sound(Taken(Requested(Buf, announced), Need))
    BY <1>0, <1>5, <2>2, TakenSound DEF ChunkSize, TypeOK
  <2>4. curt' \in BOOLEAN
    BY <1>5 DEF ChunkSize
  <2> QED BY <1>5, <2>3, <2>4, BecomesSound, NextMessageType DEF ChunkSize, TypeOK
<1>6. CASE ChunkSizeAborts
  <2> DEFINE b == IF announced = 0 THEN Buf ELSE [Buf EXCEPT !.chunk_sz = announced]
  <2>1. announced \in Nat
    BY <1>6 DEF ChunkSizeAborts, TypeOK
  <2>2. Sound(b) /\ b.used = used
    BY <1>0, <2>1 DEF Sound, BufType, Buf
  <2>3. Becomes(Taken(b, Need)) \/ Becomes(Shuffled(b, Need))
    BY <1>6 DEF ChunkSizeAborts
  <2>4. Need <= b.used
    BY <1>6, <2>2 DEF ChunkSizeAborts
  <2> HIDE DEF b
  <2>5. Sound(Taken(b, Need))
    BY <1>0, <2>2, <2>4, TakenSound
  <2>6. Sound(Shuffled(b, Need))
    BY <1>0, <2>2, <2>4 DEF Shuffled, Sound, BufType
  <2> QED BY <1>6, <2>3, <2>5, <2>6, BecomesSound DEF ChunkSizeAborts, TypeOK, message
<1>7. CASE UNCHANGED vars
  BY <1>7 DEF vars, buffer, message, TypeOK, WithinBuffer
<1> QED BY <1>1, <1>2, <1>3, <1>4, <1>5, <1>6, <1>7 DEF Next

(* The types of the buffer's variables, sizes that are never negative      *)
(* among them, hold whatever the peer sends.                               *)
THEOREM TypeCorrect == Spec => []TypeOK
<1>1. Accounted => TypeOK
  BY DEF Accounted
<1> QED BY <1>1, AccountedInit, AccountedNext, PTL DEF Spec

(* recv is never given a length that runs past the end of the buffer, and  *)
(* no resize cuts off data that has not been decoded, whatever sizes and   *)
(* headers the peer sends.                                                 *)
THEOREM NeverPastTheEnd == Spec => []WithinBuffer
<1>1. Accounted => WithinBuffer
  BY DEF Accounted
<1> QED BY <1>1, AccountedInit, AccountedNext, PTL DEF Spec

-----------------------------------------------------------------------------
(* The buffer is big enough for a chunk and its header, but for a shrink   *)
(* that was put off after a chunk with a short header.                     *)
Sized ==
    /\ phase = "handshake" => cap = HandshakeSz + HdrMaxSz
    /\ phase = "ready" => chunk_sz + HdrMaxSz <= cap \/ Cramped

LEMMA SizedInit == Init => Sized
BY DEF Init, Sized

LEMMA SizedNext == Accounted /\ Sized /\ [Next]_vars => Sized'
<1> SUFFICES ASSUME Accounted, Sized, [Next]_vars PROVE Sized'
  OBVIOUS
<1>0. /\ Sound(Buf) /\ Buf.used = used /\ Buf.chunk_sz = chunk_sz /\ Buf.cap = cap
      /\ Need \in Nat /\ Body \in Nat /\ Body <= p_left
      /\ cap \in Nat /\ used \in Nat /\ used <= cap /\ chunk_sz \in Nat
  BY BufSound, NeedIsNat DEF Accounted, Buf, TypeOK, WithinBuffer
<1>1. CASE Fill
  BY <1>1 DEF Fill, Sized, Cramped, message
<1>2. CASE Handshake
  <2> DEFINE b == Requested(Buf, DefaultChunkSz)
  <2>1. /\ Sound(b) /\ b.used = used /\ b.chunk_sz = DefaultChunkSz
        /\ b.cap = cap \/ b.cap = DefaultChunkSz + HdrMaxSz
    BY <1>0, RequestedSound, SizesAssumption
  <2>2. HandshakeSz <= used /\ used <= HandshakeSz + HdrMaxSz
    BY <1>0, <1>2 DEF Handshake, Need, Sized
  <2>3. Becomes(Taken(b, HandshakeSz))
    BY <1>2 DEF Handshake
  <2> HIDE DEF b
  <2>4. /\ Sound(Taken(b, HandshakeSz)) /\ Taken(b, HandshakeSz).chunk_sz = DefaultChunkSz
        /\ \/ Taken(b, HandshakeSz).cap = DefaultChunkSz + HdrMaxSz
           \/ used - HandshakeSz > DefaultChunkSz
    BY <2>1, <2>2, TakenSound, SizesAssumption
  <2>5. Taken(b, HandshakeSz).cap = DefaultChunkSz + HdrMaxSz
    BY <1>0, <2>2, <2>4, SizesAssumption, DefaultsAssumption
  <2>6. chunk_sz' = DefaultChunkSz /\ cap' = DefaultChunkSz + HdrMaxSz
    BY <2>3, <2>4, <2>5, BecomesSound
  <2> QED BY <1>2, <2>6, SizesAssumption DEF Handshake, Sized
<1>3. ASSUME phase = "ready", used >= Need, Becomes(Taken(Buf, Need)), curt' = curt
      PROVE  chunk_sz' + HdrMaxSz <= cap' \/ Cramped'
  <2>1. /\ Sound(Taken(Buf, Need)) /\ Taken(Buf, Need).chunk_sz = chunk_sz
        /\ \/ Taken(Buf, Need).cap = chunk_sz + HdrMaxSz
           \/ Taken(Buf, Need).cap = cap
    BY <1>0, <1>3, TakenSound
  <2>2. chunk_sz' = chunk_sz /\ (cap' = chunk_sz + HdrMaxSz \/ cap' = cap)
    BY <1>3, <2>1, BecomesSound
  <2> QED BY <1>0, <1>3, <2>2, SizesAssumption DEF Sized, Cramped
<1>4. CASE Fragment
  BY <1>3, <1>4 DEF Fragment, Sized
<1>5. CASE Message
  BY <1>3, <1>5 DEF Message, Sized
<1>6. CASE ChunkSize
  <2> DEFINE b == Requested(Buf, announced)
             d == Taken(b, Need)
  <2>1. announced \in Nat
    BY <1>6 DEF ChunkSize, Accounted, TypeOK
  <2>2. Sound(b) /\ b.used = used /\ b.chunk_sz = announced
    BY <1>0, <2>1, RequestedSound
  <2>3. used <= b.cap
    BY <1>0, <2>2 DEF Sound, BufType
  <2> HIDE DEF b
  <2>4. /\ Sound(d) /\ d.chunk_sz = announced
        /\ \/ d.cap = announced + HdrMaxSz
           \/ d.cap = b.cap /\ used - Need > announced
    BY <1>0, <1>6, <2>2, TakenSound DEF ChunkSize
  <2>5. Becomes(d) /\ curt' = (Need + 1 < HdrMaxSz)
    BY <1>6 DEF ChunkSize, b
  <2> HIDE DEF d
  <2>6. cap' = d.cap /\ chunk_sz' = announced
    BY <2>4, <2>5, BecomesSound
  (* With no short chunk, what is outstanding and what was taken add up to *)
  (* a chunk of the new size and a header.                                 *)
  <2>7. CASE Need + 1 >= HdrMaxSz
    <3>1. announced + HdrMaxSz <= d.cap
      BY <1>0, <2>1, <2>3, <2>4, <2>7, SizesAssumption DEF Sound, BufType
    <3> QED BY <1>6, <2>6, <3>1 DEF ChunkSize, Sized
  <2>8. CASE Need + 1 < HdrMaxSz
    <3>1. curt'
      BY <2>5, <2>8
    <3>2. chunk_sz' + HdrMaxSz <= cap' \/ cap' # chunk_sz' + HdrMaxSz
      BY <2>1, <2>6, SizesAssumption
    <3> QED BY <1>6, <3>1, <3>2 DEF ChunkSize, Sized, Cramped
  <2> QED BY <1>0, <2>7, <2>8, SizesAssumption
<1>7. CASE ChunkSizeAborts
  BY <1>7 DEF ChunkSizeAborts, Sized
<1>8. CASE UNCHANGED vars
  BY <1>8 DEF vars, buffer, message, Sized, Cramped
<1> QED BY <1>1, <1>2, <1>4, <1>5, <1>6, <1>7, <1>8 DEF Next

LEMMA SizedHasRoom == Accounted /\ Sized => RoomKept
<1> SUFFICES ASSUME Accounted, Sized, phase # "dead", used < Need,
                    hdr <= HdrMaxSz, ~ Cramped
             PROVE  space > 0
  BY DEF RoomKept
<1>1. used + space = cap /\ used \in Nat /\ space \in Nat /\ cap \in Nat
  BY DEF Accounted, TypeOK, WithinBuffer
<1>2. Need <= cap
  <2>1. CASE phase = "handshake"
    BY <2>1, SizesAssumption DEF Sized, Need
  <2>2. CASE phase = "ready"
    <3>1. Need = hdr + Body /\ Body <= chunk_sz /\ Body \in Nat
      BY <2>2, NeedIsNat DEF Need, Accounted
    <3>2. hdr \in Nat /\ chunk_sz \in Nat /\ chunk_sz + HdrMaxSz <= cap
      BY <2>2 DEF Sized, Accounted, TypeOK
    <3> QED BY <1>1, <3>1, <3>2, SizesAssumption
  <2> QED BY <2>1, <2>2 DEF Accounted, TypeOK
<1> QED BY <1>1, <1>2, NeedIsNat DEF Accounted

(* The assertion of fill_rcv_buf never fails on a header of up to HdrMaxSz *)
(* bytes, through every change of the chunk size, early or put off, unless *)
(* a shrink is put off that came in a chunk shorter than that: for every   *)
(* handshake length, room for a header, chunk size and peer.               *)
THEOREM AlwaysRoomToFill == Spec => []RoomKept
BY AccountedInit, AccountedNext, SizedInit, SizedNext, SizedHasRoom, PTL DEF Spec
=============================================================================
