-------------------------- MODULE ChunkCodecProofs --------------------------
(* Proofs about the chunk decoder, for every set of channels, lengths,     *)
(* stream numbers and timestamps, every size of a chunk, and every way to  *)
(* cut the stream.                                                         *)
EXTENDS ChunkCodec, TLAPS

Chunks ==
    [type : 0..3, chan : Chans, ts : Stamps, sz : Szs \cup {0}, dest : Dests \cup {0}]

Typed == TypeOK /\ (head = NoChunk \/ head \in Chunks)

(* The decoder and the peer agree on a channel, or will when the header of *)
(* the chunk being received is complete.                                   *)
Agrees(c) ==
    IF c = head.chan THEN Same(ReadHeader(head), c) ELSE Same(dec[c], c)

Small ==
    ~ lost => /\ \A c \in Chans : c < 64 => Agrees(c)
              /\ \A c \in wrong : c >= 64 \/ c \in again

Uncut == ~ lost /\ ~ cut => wrong \subseteq again /\ \A c \in Chans : Agrees(c)

(* A chunk's header says what the peer means, and no other chunk follows   *)
(* one that was sent at Mark.                                              *)
Unmarked ==
    ~ lost => /\ head # NoChunk => head.ts = ref[head.chan].cur_ts
              /\ \A c \in Chans : ref[c].cur_ts = Mark => c = head.chan /\ head.type <= 2

(* What is left of a message is known to both, also where the rest is not, *)
(* as long as messages say how long they are.                              *)
Framed ==
    ~ lost /\ ~ inherits =>
        \A c \in Chans :
            /\ dec[c].p_left = ref[c].p_left
            /\ c = head.chan /\ ref[c].p_left = NoBuf => head.type <= 1 /\ head.sz = ref[c].sz

Inv == Typed /\ Small /\ Uncut /\ Unmarked /\ Framed /\ FramingKept

-----------------------------------------------------------------------------
(* A channel after a header, and after a body.                             *)
LEMMA Sizes ==
    /\ Chans \subseteq Int /\ Other \notin Chans /\ \A c \in Chans : c >= 2
    /\ ChunkSz \in Nat /\ ChunkSz >= 1 /\ NoBuf \in Int /\ NoBuf < 0
    /\ \A s \in Szs \cup {0} : s \in Nat
<1>1. ASSUME NEW c \in Chans PROVE c \in Int /\ c >= 2
  BY SizesAssumption
<1>2. ChunkSz \in Nat /\ ChunkSz >= 1
  BY SizesAssumption
<1>3. \A s \in Szs \cup {0} : s \in Nat
  BY SizesAssumption
<1> QED BY <1>1, <1>2, <1>3 DEF Other, NoBuf

LEMMA EnterIs ==
    ASSUME NEW ch \in Channels, NEW type, NEW ts, NEW sz, NEW dest
    PROVE  Enter(ch, type, ts, sz, dest) =
              [cur_ts |-> IF type <= 2 THEN ts ELSE ch.cur_ts,
               sz     |-> IF type <= 1 THEN sz ELSE ch.sz,
               dest   |-> IF type = 0 THEN dest ELSE ch.dest,
               ts     |-> ch.ts, p_left |-> ch.p_left]
<1>1. ch = [cur_ts |-> ch.cur_ts, ts |-> ch.ts, sz |-> ch.sz, dest |-> ch.dest,
            p_left |-> ch.p_left]
  BY DEF Channels
<1>2. ASSUME NEW r, r = Enter(ch, type, ts, sz, dest)
      PROVE  r = [cur_ts |-> IF type <= 2 THEN ts ELSE ch.cur_ts,
                  sz     |-> IF type <= 1 THEN sz ELSE ch.sz,
                  dest   |-> IF type = 0 THEN dest ELSE ch.dest,
                  ts     |-> ch.ts, p_left |-> ch.p_left]
  BY <1>1, <1>2 DEF Enter
<1> QED BY <1>2

LEMMA EnterTyped ==
    ASSUME NEW ch \in Channels, NEW type \in 0..3, NEW ts \in Stamps,
           NEW sz \in Szs \cup {0}, NEW dest \in Dests \cup {0}
    PROVE  Enter(ch, type, ts, sz, dest) \in Channels
<1> QED BY EnterIs DEF Channels

(* What is read of a header that is not complete: of the fields it does    *)
(* not have only the timestamp may change.                                 *)
LEMMA EnterJunkIs ==
    ASSUME NEW ch \in Channels, NEW type \in 0..3, NEW ts \in Stamps,
           NEW sz \in Szs \cup {0}, NEW dest \in Dests \cup {0}
    PROVE  /\ EnterJunk(ch, type, ts, sz, dest) \in Channels
           /\ EnterJunk(ch, type, ts, sz, dest) =
              [cur_ts |-> IF type <= 2 \/ ch.cur_ts = Mark THEN ts ELSE ch.cur_ts,
               sz     |-> IF type <= 1 THEN sz ELSE ch.sz,
               dest   |-> IF type = 0 THEN dest ELSE ch.dest,
               ts     |-> ch.ts, p_left |-> ch.p_left]
<1>1. PICK e : e = Enter(ch, type, ts, sz, dest)
  OBVIOUS
<1>2. /\ e \in Channels
      /\ e = [cur_ts |-> IF type <= 2 THEN ts ELSE ch.cur_ts,
              sz     |-> IF type <= 1 THEN sz ELSE ch.sz,
              dest   |-> IF type = 0 THEN dest ELSE ch.dest,
              ts     |-> ch.ts, p_left |-> ch.p_left]
  BY <1>1, EnterIs, EnterTyped
<1>3. EnterJunk(ch, type, ts, sz, dest) =
        IF e.cur_ts = Mark THEN [e EXCEPT !.cur_ts = ts] ELSE e
  BY <1>1 DEF EnterJunk
<1>4. EnterJunk(ch, type, ts, sz, dest) =
        [cur_ts |-> IF type <= 2 \/ ch.cur_ts = Mark THEN ts ELSE ch.cur_ts,
         sz     |-> IF type <= 1 THEN sz ELSE ch.sz,
         dest   |-> IF type = 0 THEN dest ELSE ch.dest,
         ts     |-> ch.ts, p_left |-> ch.p_left]
  BY <1>2, <1>3
<1> QED BY <1>4 DEF Channels

(* What an earlier visit read of a header is overwritten by the last.      *)
LEMMA EnterAgain ==
    ASSUME NEW ch \in Channels, NEW type \in 0..3, NEW ts \in Stamps,
           NEW sz \in Szs \cup {0}, NEW dest \in Dests \cup {0}, NEW ts2, NEW sz2, NEW dest2,
           type <= 2 \/ ch.cur_ts # Mark
    PROVE  Enter(EnterJunk(ch, type, ts, sz, dest), type, ts2, sz2, dest2) =
              Enter(ch, type, ts2, sz2, dest2)
<1>1. PICK e : e = EnterJunk(ch, type, ts, sz, dest)
  OBVIOUS
<1>2. /\ e \in Channels
      /\ e = [cur_ts |-> IF type <= 2 THEN ts ELSE ch.cur_ts,
              sz     |-> IF type <= 1 THEN sz ELSE ch.sz,
              dest   |-> IF type = 0 THEN dest ELSE ch.dest,
              ts     |-> ch.ts, p_left |-> ch.p_left]
  BY <1>1, EnterJunkIs
<1>3. Enter(e, type, ts2, sz2, dest2) = Enter(ch, type, ts2, sz2, dest2)
  BY <1>2, EnterIs
<1> QED BY <1>1, <1>3

(* The size of what is left is known, and a body takes some of it.         *)
Size(ch) == IF ch.p_left = NoBuf THEN ch.sz ELSE ch.p_left

LEMMA LeftIs ==
    ASSUME NEW ch \in Channels
    PROVE  /\ Size(ch) \in Nat /\ Left(ch) = AtMost(Size(ch), ChunkSz)
           /\ Size(ch) - Left(ch) \in Nat
<1>1. Size(ch) \in Nat
  BY Sizes DEF Size, Channels
<1>2. Left(ch) = AtMost(Size(ch), ChunkSz)
  BY DEF Left, Size
<1> QED BY <1>1, <1>2, Sizes DEF AtMost

LEMMA StoredIs ==
    ASSUME NEW ch \in Channels
    PROVE  /\ Stored(ch) \in Channels
           /\ Stored(ch) = [cur_ts |-> ch.cur_ts, sz |-> ch.sz, dest |-> ch.dest,
                 ts |-> IF Size(ch) - Left(ch) = 0 THEN (ch.ts + ch.cur_ts) % W ELSE ch.ts,
                 p_left |-> IF Size(ch) - Left(ch) = 0 THEN NoBuf ELSE Size(ch) - Left(ch)]
<1>1. ch = [cur_ts |-> ch.cur_ts, ts |-> ch.ts, sz |-> ch.sz, dest |-> ch.dest,
            p_left |-> ch.p_left]
  BY DEF Channels
<1>2. Stored(ch) = [ch EXCEPT
         !.p_left = IF Size(ch) - Left(ch) = 0 THEN NoBuf ELSE Size(ch) - Left(ch),
         !.ts = IF Size(ch) - Left(ch) = 0 THEN (@ + ch.cur_ts) % W ELSE @]
  BY DEF Stored, Size
<1>3. Stored(ch) = [cur_ts |-> ch.cur_ts, sz |-> ch.sz, dest |-> ch.dest,
         ts |-> IF Size(ch) - Left(ch) = 0 THEN (ch.ts + ch.cur_ts) % W ELSE ch.ts,
         p_left |-> IF Size(ch) - Left(ch) = 0 THEN NoBuf ELSE Size(ch) - Left(ch)]
  BY <1>1, <1>2
<1>4. (IF Size(ch) - Left(ch) = 0 THEN NoBuf ELSE Size(ch) - Left(ch)) \in (Nat \ {0}) \cup {NoBuf}
  BY LeftIs
<1>5. /\ ch.cur_ts \in Stamps /\ ch.sz \in Szs \cup {0} /\ ch.dest \in Dests \cup {0}
      /\ ch.ts \in 0..(W - 1)
  BY DEF Channels
<1>6. (ch.ts + ch.cur_ts) % W \in 0..(W - 1)
  <2>1. ch.cur_ts \in Nat /\ W \in Nat \ {0}
    BY <1>5, SizesAssumption DEF Stamps, Mark, Ext
  <2> QED BY <1>5, <2>1
<1> QED BY <1>3, <1>4, <1>5, <1>6 DEF Channels

(* Of two channels that are alike, but perhaps for the time, a body leaves *)
(* two that are so, and messages that are, but perhaps for the time.       *)
LEMMA StoredSame ==
    ASSUME NEW d \in Channels, NEW e \in Channels, d = [e EXCEPT !.ts = d.ts]
    PROVE  /\ Stored(d) = [Stored(e) EXCEPT !.ts = Stored(d).ts]
           /\ Left(d) = Left(e) /\ d.cur_ts = e.cur_ts
<1>1. e = [cur_ts |-> e.cur_ts, ts |-> e.ts, sz |-> e.sz, dest |-> e.dest,
           p_left |-> e.p_left]
  BY DEF Channels
<1>2. d = [cur_ts |-> e.cur_ts, ts |-> d.ts, sz |-> e.sz, dest |-> e.dest,
           p_left |-> e.p_left]
  BY <1>1
<1>3. d.cur_ts = e.cur_ts /\ d.sz = e.sz /\ d.dest = e.dest /\ d.p_left = e.p_left
  BY <1>2
<1>4. Size(d) = Size(e) /\ Left(d) = Left(e)
  BY <1>3 DEF Size, Left
<1>5. PICK s, t : s = Stored(d) /\ t = Stored(e)
  OBVIOUS
<1>6. /\ s = [cur_ts |-> e.cur_ts, sz |-> e.sz, dest |-> e.dest,
               ts |-> IF Size(e) - Left(e) = 0 THEN (d.ts + e.cur_ts) % W ELSE d.ts,
               p_left |-> IF Size(e) - Left(e) = 0 THEN NoBuf ELSE Size(e) - Left(e)]
      /\ t = [cur_ts |-> e.cur_ts, sz |-> e.sz, dest |-> e.dest,
               ts |-> IF Size(e) - Left(e) = 0 THEN (e.ts + e.cur_ts) % W ELSE e.ts,
               p_left |-> IF Size(e) - Left(e) = 0 THEN NoBuf ELSE Size(e) - Left(e)]
  <2>1. /\ s = [cur_ts |-> d.cur_ts, sz |-> d.sz, dest |-> d.dest,
               ts |-> IF Size(d) - Left(d) = 0 THEN (d.ts + d.cur_ts) % W ELSE d.ts,
               p_left |-> IF Size(d) - Left(d) = 0 THEN NoBuf ELSE Size(d) - Left(d)]
        /\ t = [cur_ts |-> e.cur_ts, sz |-> e.sz, dest |-> e.dest,
               ts |-> IF Size(e) - Left(e) = 0 THEN (e.ts + e.cur_ts) % W ELSE e.ts,
               p_left |-> IF Size(e) - Left(e) = 0 THEN NoBuf ELSE Size(e) - Left(e)]
    BY <1>5, StoredIs
  <2> QED BY <1>3, <1>4, <2>1
<1>7. s = [t EXCEPT !.ts = s.ts]
  BY <1>6
<1> QED BY <1>3, <1>4, <1>5, <1>7

(* Same, for any two channels: the time does not count on those in S.      *)
Alike(ch, r, c, S) == ch = IF c \in S THEN [r EXCEPT !.ts = ch.ts] ELSE r

LEMMA AlikeIs ==
    ASSUME NEW r \in Channels, NEW ch \in Channels, NEW c, NEW S
    PROVE  /\ Alike(ch, r, c, S) <=>
                /\ ch.cur_ts = r.cur_ts /\ ch.sz = r.sz
                /\ ch.dest = r.dest /\ ch.p_left = r.p_left
                /\ c \in S \/ ch.ts = r.ts
           /\ Alike(ch, r, c, S) => ch = [r EXCEPT !.ts = ch.ts]
<1>2. /\ ch = [cur_ts |-> ch.cur_ts, ts |-> ch.ts, sz |-> ch.sz, dest |-> ch.dest,
               p_left |-> ch.p_left]
      /\ r = [cur_ts |-> r.cur_ts, ts |-> r.ts, sz |-> r.sz, dest |-> r.dest,
              p_left |-> r.p_left]
  BY DEF Channels
<1>4. ch = [r EXCEPT !.ts = ch.ts] <=> /\ ch.cur_ts = r.cur_ts /\ ch.sz = r.sz
                                      /\ ch.dest = r.dest /\ ch.p_left = r.p_left
  BY <1>2
<1>5. ch = r <=> /\ ch = [r EXCEPT !.ts = ch.ts]
                 /\ ch.ts = r.ts
  BY <1>2
<1> QED BY <1>4, <1>5 DEF Alike

LEMMA HeadKinds ==
    ASSUME Typed
    PROVE  /\ head = NoChunk => head.chan \notin Chans
           /\ head # NoChunk =>
                 /\ head \in Chunks /\ head.chan \in Chans
                 /\ head.type \in 0..3 /\ head.ts \in Stamps
                 /\ head.sz \in Szs \cup {0} /\ head.dest \in Dests \cup {0}
<1>1. head = NoChunk => head.chan = Other
  BY DEF NoChunk
<1>2. head # NoChunk => head \in Chunks
  BY DEF Typed
<1> QED BY <1>1, <1>2, Sizes DEF Chunks

-----------------------------------------------------------------------------
(* The peer starts a chunk.                                                *)
LEMMA NextChunkKeeps == ASSUME Inv, ~ lost, NextChunk PROVE Inv'
<1>1. head = NoChunk /\ \A c \in Chans : c # head.chan
  BY HeadKinds DEF NextChunk, Inv
<1>2. PICK c \in Chans, type \in 0..3, ts \in Tss, sz \in Szs, dest \in Dests :
         /\ head' = [type |-> type, chan |-> c,
                     ts   |-> IF type <= 2 THEN ts ELSE ref[c].cur_ts,
                     sz   |-> IF type <= 1 THEN sz ELSE ref[c].sz,
                     dest |-> IF type = 0 THEN dest ELSE ref[c].dest]
         /\ inherits' = (inherits \/ (ref[c].p_left = NoBuf /\ type >= 2))
         /\ again' = (IF type = 0 /\ ref[c].ts # 0 THEN again \cup {c} ELSE again)
         /\ ref' = [ref EXCEPT ![c] = Enter(Meant(@, type), type, ts, sz, dest)]
  BY ZenonT(90) DEF NextChunk
<1>3. /\ dec' = dec /\ wrong' = wrong /\ lost' = lost /\ cut' = cut /\ avail' = 0
      /\ sent' = sent + 1
  BY DEF NextChunk
<1>4. dec \in [Chans -> Channels] /\ ref \in [Chans -> Channels] /\ ref[c] \in Channels /\ dec[c] \in Channels
  BY DEF Inv, Typed, TypeOK
<1>13. PICK m : m = Meant(ref[c], type)
  OBVIOUS
<1>14. /\ m \in Channels /\ m.cur_ts = ref[c].cur_ts /\ m.sz = ref[c].sz
       /\ m.dest = ref[c].dest /\ m.p_left = ref[c].p_left
       /\ m.ts = (IF type = 0 THEN 0 ELSE ref[c].ts)
  <2>1. PICK r : r = ref[c]
    OBVIOUS
  <2>2. r \in Channels /\ m = IF type = 0 THEN [r EXCEPT !.ts = 0] ELSE r
    BY <1>4, <1>13, <2>1 DEF Meant
  <2>3. 0 \in 0..(W - 1)
    BY SizesAssumption
  <2> QED BY <2>1, <2>2, <2>3 DEF Channels
<1>5. /\ ref' \in [Chans -> Channels]
      /\ ref'[c] = Enter(m, type, ts, sz, dest)
      /\ \A d \in Chans : d # c => ref'[d] = ref[d]
  <2>1. ref' = [ref EXCEPT ![c] = Enter(m, type, ts, sz, dest)]
    BY <1>2, <1>4, <1>13
  <2>2. Enter(m, type, ts, sz, dest) \in Channels
    BY <1>14, EnterTyped DEF Stamps
  <2> QED BY <1>4, <2>1, <2>2
<1>15. /\ ref'[c] \in Channels
       /\ ref'[c].cur_ts = (IF type <= 2 THEN ts ELSE ref[c].cur_ts)
       /\ ref'[c].sz = (IF type <= 1 THEN sz ELSE ref[c].sz)
       /\ ref'[c].dest = (IF type = 0 THEN dest ELSE ref[c].dest)
       /\ ref'[c].p_left = ref[c].p_left
       /\ ref'[c].ts = (IF type = 0 THEN 0 ELSE ref[c].ts)
  <2>1. ref'[c] = [cur_ts |-> IF type <= 2 THEN ts ELSE m.cur_ts,
                   sz     |-> IF type <= 1 THEN sz ELSE m.sz,
                   dest   |-> IF type = 0 THEN dest ELSE m.dest,
                   ts     |-> m.ts, p_left |-> m.p_left]
    BY <1>5, <1>14, EnterIs
  <2> QED BY <1>5, <1>14, <2>1
<1>16. /\ again \subseteq again' /\ again' \subseteq Chans
       /\ \A d \in Chans : d # c => (d \in again' <=> d \in again)
       /\ type = 0 /\ ref[c].ts # 0 => c \in again'
  BY <1>2 DEF Inv, Typed, TypeOK
<1>6. /\ head' \in Chunks /\ head'.chan = c /\ head'.type = type
      /\ head'.ts = (IF type <= 2 THEN ts ELSE ref[c].cur_ts)
      /\ head'.sz = (IF type <= 1 THEN sz ELSE ref[c].sz)
      /\ head'.dest = (IF type = 0 THEN dest ELSE ref[c].dest)
  BY <1>2, <1>4 DEF Chunks, Channels, Stamps
<1>7. Typed'
  BY <1>3, <1>4, <1>5, <1>6, <1>16 DEF Typed, TypeOK, Inv
<1>8. ASSUME NEW d \in Chans, Same(dec[d], d) PROVE Agrees(d)'
  <2>1. CASE d # c
    BY <1>3, <1>5, <1>6, <1>8, <1>16, <2>1 DEF Agrees, Same
  <2>2. CASE d = c
    <3>1. PICK e : e = ReadHeader(head)'
      OBVIOUS
    <3>2. /\ e \in Channels
          /\ e = [cur_ts |-> IF type <= 2 THEN head'.ts ELSE dec[c].cur_ts,
                  sz     |-> IF type <= 1 THEN head'.sz ELSE dec[c].sz,
                  dest   |-> IF type = 0 THEN head'.dest ELSE dec[c].dest,
                  ts     |-> dec[c].ts, p_left |-> dec[c].p_left]
      <4>1. e = Enter(dec[c], type, head'.ts, head'.sz, head'.dest)
        BY <1>3, <1>6, <3>1 DEF ReadHeader
      <4>2. head'.ts \in Stamps /\ head'.sz \in Szs \cup {0} /\ head'.dest \in Dests \cup {0}
        <5>1. PICK h : h = head'
          OBVIOUS
        <5> QED BY <1>6, <5>1 DEF Chunks
      <4>3. PICK ch, t, s, u : ch = dec[c] /\ t = head'.ts /\ s = head'.sz /\ u = head'.dest
        OBVIOUS
      <4>4. /\ ch \in Channels /\ type \in 0..3 /\ t \in Stamps
            /\ s \in Szs \cup {0} /\ u \in Dests \cup {0} /\ e = Enter(ch, type, t, s, u)
        BY <1>4, <4>1, <4>2, <4>3
      <4>5. /\ e \in Channels
            /\ e = [cur_ts |-> IF type <= 2 THEN t ELSE ch.cur_ts,
                    sz     |-> IF type <= 1 THEN s ELSE ch.sz,
                    dest   |-> IF type = 0 THEN u ELSE ch.dest,
                    ts     |-> ch.ts, p_left |-> ch.p_left]
        <5>1. e \in Channels
          BY <4>4, EnterTyped
        <5>2. Enter(ch, type, t, s, u) =
                 [cur_ts |-> IF type <= 2 THEN t ELSE ch.cur_ts,
                  sz     |-> IF type <= 1 THEN s ELSE ch.sz,
                  dest   |-> IF type = 0 THEN u ELSE ch.dest,
                  ts     |-> ch.ts, p_left |-> ch.p_left]
          <6>1. ch \in Channels
            BY <4>4
          <6> QED BY ONLY <6>1, EnterIs
        <5> QED BY <4>4, <5>1, <5>2, Zenon
      <4> QED BY <4>3, <4>5
    <3>3. /\ dec[c].cur_ts = ref[c].cur_ts /\ dec[c].sz = ref[c].sz
          /\ dec[c].dest = ref[c].dest /\ dec[c].p_left = ref[c].p_left
          /\ c \in again \/ dec[c].ts = ref[c].ts
      <4>1. Alike(dec[c], ref[c], c, again)
        BY <1>8, <2>2 DEF Same, Alike
      <4> QED BY <1>4, <4>1, AlikeIs
    <3>4. Alike(e, ref'[c], c, again')
      <4>1. /\ e.cur_ts = ref'[c].cur_ts /\ e.sz = ref'[c].sz
            /\ e.dest = ref'[c].dest /\ e.p_left = ref'[c].p_left
        BY <1>6, <1>15, <3>2, <3>3
      <4>2. c \in again' \/ e.ts = ref'[c].ts
        BY <1>15, <1>16, <3>2, <3>3
      <4> QED BY <1>15, <3>2, <4>1, <4>2, AlikeIs
    <3> QED BY <1>6, <2>2, <3>1, <3>4 DEF Agrees, Same, Alike
  <2> QED BY <2>1, <2>2
<1>9. \A d \in Chans : Agrees(d) => Agrees(d)'
  BY <1>1, <1>8 DEF Agrees
<1>10. Small' /\ Uncut'
  BY <1>3, <1>9, <1>16 DEF Inv, Small, Uncut
<1>17. Unmarked'
  <2>1. \A d \in Chans : ref[d].cur_ts # Mark
    BY <1>1 DEF Inv, Unmarked
  <2>2. head'.ts = ref'[head'.chan].cur_ts
    BY <1>6, <1>15
  <2>3. \A d \in Chans : ref'[d].cur_ts = Mark => d = c /\ type <= 2
    BY <1>5, <1>15, <2>1
  <2> QED BY <1>6, <2>2, <2>3 DEF Unmarked
<1>11. Framed'
  <2>1. SUFFICES ASSUME ~ inherits', NEW d \in Chans
                 PROVE  /\ dec[d].p_left = ref'[d].p_left
                        /\ d = c /\ ref'[d].p_left = NoBuf => type <= 1 /\ head'.sz = ref'[d].sz
    BY <1>3, <1>6 DEF Framed
  <2>2. dec[d].p_left = ref[d].p_left /\ ~ inherits /\ ~ (ref[c].p_left = NoBuf /\ type >= 2)
    BY <1>2, <2>1 DEF Inv, Framed
  <2>3. ref'[c].p_left = ref[c].p_left /\ (type <= 1 => ref'[c].sz = sz)
    BY <1>15
  <2> QED BY <1>5, <1>6, <2>2, <2>3
<1>12. FramingKept'
  BY <1>3 DEF FramingKept
<1> QED BY <1>7, <1>10, <1>11, <1>12, <1>17 DEF Inv

(* A chunk that is not complete: which channel gets what was read.         *)
LEMMA ReadChanIs ==
    ASSUME head.chan \in Chans, NEW c \in ReadChan
    PROVE  /\ c \in Chans \cup {Other}
           /\ c = head.chan \/ c = Other \/ (c >= 64 /\ head.chan >= 64)
<1>1. \A d \in Chans : d \in Int /\ d >= 2 /\ (d < 64 <=> Code(d) \notin {0, 1})
  BY Sizes DEF Code
<1>2. CASE Code(head.chan) \notin {0, 1} \/ Has("chan")
  <2>1. c = head.chan
    BY <1>2 DEF ReadChan
  <2> QED BY <2>1
<1>3. CASE ~ (Code(head.chan) \notin {0, 1} \/ Has("chan"))
  <2>1. c \in {Other} \cup {d \in Chans : Code(d) = Code(head.chan)
                                     \/ (Code(head.chan) = 1 /\ d >= 64)}
    BY <1>3 DEF ReadChan
  <2> QED BY <1>1, <1>3, <2>1
<1> QED BY <1>2, <1>3

LEMMA NeedMoreKeeps ==
    ASSUME Inv, ~ lost, head # NoChunk, NeedMore, avail' \in Nat, UNCHANGED <<sent, inherits, again>>
    PROVE  /\ Inv'
           /\ \A c \in Chans : dec'[c].p_left = dec[c].p_left
<1>1. /\ head \in Chunks /\ head.chan \in Chans /\ head.type \in 0..3 /\ head.ts \in Stamps
      /\ head.sz \in Szs \cup {0} /\ head.dest \in Dests \cup {0}
  BY HeadKinds DEF Inv
<1>2. PICK c \in ReadChan, ts \in Stamps, sz \in Szs \cup {0}, dest \in Dests \cup {0} :
         /\ dec' = IF c = Other THEN dec
                   ELSE [dec EXCEPT ![c] = EnterJunk(@, head.type, ts, sz, dest)]
         /\ cut' = (cut \/ c # head.chan)
  BY <1>1, SMTT(30) DEF NeedMore
<1>3. UNCHANGED <<head, ref, wrong, lost, sent, inherits, again>>
  BY DEF NeedMore
<1>4. dec \in [Chans -> Channels] /\ ref \in [Chans -> Channels] /\ \A d \in Chans : dec[d] \in Channels
  BY DEF Inv, Typed, TypeOK
<1>5. c \in Chans \cup {Other} /\ (c = head.chan \/ c = Other \/ (c >= 64 /\ head.chan >= 64))
  BY <1>1, <1>2, ReadChanIs
<1>6. /\ dec' \in [Chans -> Channels]
      /\ \A d \in Chans : d # c => dec'[d] = dec[d]
      /\ c \in Chans => dec'[c] = EnterJunk(dec[c], head.type, ts, sz, dest)
  <2>1. CASE c = Other
    BY <1>2, <1>4, <2>1, Sizes
  <2>2. CASE c \in Chans
    BY <1>1, <1>2, <1>4, <2>2, EnterJunkIs, Sizes
  <2> QED BY <1>5, <2>1, <2>2
<1>7. Typed'
  BY <1>2, <1>3, <1>6 DEF Inv, Typed, TypeOK
<1>8. \A d \in Chans : dec'[d].p_left = dec[d].p_left
  <2>1. ASSUME c \in Chans PROVE dec'[c].p_left = dec[c].p_left
    <3>1. PICK e : e = dec'[c]
      OBVIOUS
    <3>2. e = [cur_ts |-> IF head.type <= 2 \/ dec[c].cur_ts = Mark THEN ts ELSE dec[c].cur_ts,
               sz     |-> IF head.type <= 1 THEN sz ELSE dec[c].sz,
               dest   |-> IF head.type = 0 THEN dest ELSE dec[c].dest,
               ts     |-> dec[c].ts, p_left |-> dec[c].p_left]
      <4>1. PICK ch, type : ch = dec[c] /\ type = head.type
        OBVIOUS
      <4>2. ch \in Channels /\ type \in 0..3 /\ e = EnterJunk(ch, type, ts, sz, dest)
        BY <1>1, <1>4, <1>6, <2>1, <3>1, <4>1
      <4>3. e = [cur_ts |-> IF type <= 2 \/ ch.cur_ts = Mark THEN ts ELSE ch.cur_ts,
                 sz     |-> IF type <= 1 THEN sz ELSE ch.sz,
                 dest   |-> IF type = 0 THEN dest ELSE ch.dest,
                 ts     |-> ch.ts, p_left |-> ch.p_left]
        BY <4>2, EnterJunkIs
      <4> QED BY <4>1, <4>3
    <3> QED BY <3>1, <3>2
  <2> QED BY <1>6, <2>1
<1>15. c = head.chan /\ Agrees(c) => head.type <= 2 \/ dec[c].cur_ts # Mark
  <2>1. SUFFICES ASSUME c = head.chan, Agrees(c), head.type = 3, dec[c].cur_ts = Mark
                 PROVE  FALSE
    BY <1>1
  <2>2. Alike(ReadHeader(head), ref[c], c, again) /\ dec[c] \in Channels /\ ref[c] \in Channels
    BY <1>1, <1>4, <2>1 DEF Agrees, Same, Alike
  <2>3. PICK e : e = ReadHeader(head)
    OBVIOUS
  <2>4. e \in Channels /\ e.cur_ts = dec[c].cur_ts
    <3>1. e = Enter(dec[c], 3, head.ts, head.sz, head.dest)
      BY <2>1, <2>3 DEF ReadHeader
    <3>2. e \in Channels
      BY <1>1, <2>1, <2>2, <3>1, EnterTyped
    <3> QED BY <2>2, <3>1, <3>2, EnterIs
  <2>5. e.cur_ts = ref[c].cur_ts
    BY <2>2, <2>3, <2>4, AlikeIs
  <2> QED BY <1>1, <2>1, <2>4, <2>5 DEF Inv, Unmarked
<1>9. c = head.chan /\ Agrees(c) => ReadHeader(head)' = ReadHeader(head)
  <2>1. SUFFICES ASSUME c = head.chan, Agrees(c) PROVE ReadHeader(head)' = ReadHeader(head)
    OBVIOUS
  <2>2. Enter(dec'[c], head.type, head.ts, head.sz, head.dest) =
             Enter(dec[c], head.type, head.ts, head.sz, head.dest)
    <3>1. dec[c] \in Channels /\ dec'[c] = EnterJunk(dec[c], head.type, ts, sz, dest)
      BY <1>1, <1>4, <1>6, <2>1
    <3>2. Enter(EnterJunk(dec[c], head.type, ts, sz, dest), head.type, head.ts, head.sz, head.dest) =
             Enter(dec[c], head.type, head.ts, head.sz, head.dest)
      <4>1. PICK ch, type, ts2, sz2, dest2 :
                 /\ ch = dec[c] /\ type = head.type /\ ts2 = head.ts
                 /\ sz2 = head.sz /\ dest2 = head.dest
        OBVIOUS
      <4>2. ch \in Channels /\ type \in 0..3 /\ (type <= 2 \/ ch.cur_ts # Mark)
        BY <1>1, <1>15, <2>1, <3>1, <4>1
      <4>3. Enter(EnterJunk(ch, type, ts, sz, dest), type, ts2, sz2, dest2)
               = Enter(ch, type, ts2, sz2, dest2)
        BY <4>2, EnterAgain
      <4> QED BY <4>1, <4>3
    <3> QED BY <3>1, <3>2
  <2> QED BY <1>3, <2>1, <2>2 DEF ReadHeader
<1>10. \A d \in Chans : Agrees(d) /\ (d # c \/ c = head.chan) => Agrees(d)'
  <2>1. SUFFICES ASSUME NEW d \in Chans, Agrees(d), d # c \/ c = head.chan PROVE Agrees(d)'
    OBVIOUS
  <2>2. CASE d # head.chan
    <3>1. d # c
      BY <2>1, <2>2
    <3> QED BY <1>3, <1>6, <2>1, <2>2, <3>1 DEF Agrees, Same
  <2>3. CASE d = head.chan /\ c = head.chan
    <3>1. Same(ReadHeader(head), d) /\ ReadHeader(head)' = ReadHeader(head)
      BY <1>9, <2>1, <2>3 DEF Agrees
    <3> QED BY <1>3, <2>1, <2>3, <3>1 DEF Agrees, Same
  <2>4. CASE d = head.chan /\ c # head.chan
    <3>1. ReadHeader(head)' = ReadHeader(head)
      BY <1>1, <1>3, <1>6, <2>4 DEF ReadHeader
    <3> QED BY <1>3, <2>1, <2>4, <3>1 DEF Agrees, Same
  <2> QED BY <2>2, <2>3, <2>4
<1>11. Small'
  <2>1. \A d \in Chans : d < 64 => Agrees(d) /\ (d # c \/ c = head.chan)
    BY <1>5, Sizes DEF Inv, Small
  <2> QED BY <1>3, <1>10, <2>1 DEF Inv, Small
<1>12. Uncut'
  <2>1. SUFFICES ASSUME ~ cut' PROVE wrong \subseteq again /\ \A d \in Chans : Agrees(d)'
    BY <1>3 DEF Uncut
  <2>2. ~ cut /\ c = head.chan
    BY <1>2, <2>1
  <2> QED BY <1>10, <2>2 DEF Inv, Uncut
<1>13. Framed'
  BY <1>3, <1>8 DEF Inv, Framed
<1>14. FramingKept'
  BY <1>3 DEF FramingKept
<1>16. Unmarked'
  BY <1>3 DEF Inv, Unmarked
<1> QED BY <1>7, <1>8, <1>11, <1>12, <1>13, <1>14, <1>16 DEF Inv

(* A chunk that is complete.                                               *)
LEMMA CompleteKeeps ==
    ASSUME Inv, ~ lost, head # NoChunk, Complete, avail' \in Nat, UNCHANGED <<sent, inherits, again>>
    PROVE  /\ Inv'
           /\ \A c \in Chans : c # head.chan => dec'[c] = dec[c]
           /\ head' = NoChunk
<1>0. PICK k, d : k = head.chan /\ d = ReadHeader(head)
  OBVIOUS
<1>1. /\ head \in Chunks /\ k \in Chans /\ head.type \in 0..3 /\ head.ts \in Stamps
      /\ head.sz \in Szs \cup {0} /\ head.dest \in Dests \cup {0}
  BY <1>0, HeadKinds DEF Inv
<1>2. dec \in [Chans -> Channels] /\ ref \in [Chans -> Channels] /\ dec[k] \in Channels /\ ref[k] \in Channels
  BY <1>1 DEF Inv, Typed, TypeOK
<1>3. d = Enter(dec[k], head.type, head.ts, head.sz, head.dest) /\ d \in Channels
  BY <1>0, <1>1, <1>2, EnterTyped DEF ReadHeader
<1>4. /\ lost' = (Left(d) # Left(ref[k]) \/ d.cur_ts = Mark)
      /\ dec' = [dec EXCEPT ![k] = Stored(d)]
      /\ ref' = [ref EXCEPT ![k] = Stored(@)]
      /\ wrong' = IF /\ Stored(d).p_left = NoBuf
                     /\ Message(Stored(d)) # Message(Stored(ref[k]))
                   THEN wrong \cup {k} ELSE wrong
      /\ head' = NoChunk /\ cut' = cut
  BY <1>0 DEF Complete
<1>5. /\ dec' \in [Chans -> Channels] /\ ref' \in [Chans -> Channels]
      /\ dec'[k] = Stored(d) /\ ref'[k] = Stored(ref[k])
      /\ \A c \in Chans : c # k => dec'[c] = dec[c] /\ ref'[c] = ref[c]
  BY <1>1, <1>2, <1>3, <1>4, StoredIs
<1>6. /\ \A c \in Chans : c # head'.chan
      /\ \A c \in Chans : c # k /\ Agrees(c) => Agrees(c)'
      /\ Same(d, k) => /\ Agrees(k)' /\ wrong' \subseteq wrong \cup again
                       /\ Left(d) = Left(ref[k]) /\ d.cur_ts = ref[k].cur_ts
      /\ Agrees(k) <=> Same(d, k)
  <2>1. \A c \in Chans : c # head'.chan
    BY <1>4, Sizes DEF NoChunk
  <2>2. \A c \in Chans : c # k /\ Agrees(c) => Agrees(c)'
    BY <1>0, <1>5, <2>1 DEF Agrees, Same
  <2>3. ASSUME Same(d, k)
        PROVE  /\ Agrees(k)' /\ wrong' \subseteq wrong \cup again
               /\ Left(d) = Left(ref[k]) /\ d.cur_ts = ref[k].cur_ts
    <3>1. Alike(d, ref[k], k, again) /\ d = [ref[k] EXCEPT !.ts = d.ts]
      <4>1. Alike(d, ref[k], k, again)
        BY <2>3 DEF Same, Alike
      <4> QED BY <1>2, <1>3, <4>1, AlikeIs
    <3>2. /\ Stored(d) = [Stored(ref[k]) EXCEPT !.ts = Stored(d).ts]
          /\ Left(d) = Left(ref[k]) /\ d.cur_ts = ref[k].cur_ts
      BY <1>2, <1>3, <3>1, StoredSame
    <3>3. k \notin again => d = ref[k]
      BY <3>1 DEF Alike
    <3>4. Same(dec[k], k)'
      <4>1. CASE k \in again
        BY <1>5, <3>2, <4>1 DEF Same
      <4>2. CASE k \notin again
        BY <1>5, <3>3, <4>2 DEF Same
      <4> QED BY <4>1, <4>2
    <3>5. wrong' \subseteq wrong \cup again
      <4>1. CASE k \in again
        BY <1>4, <4>1
      <4>2. CASE k \notin again
        BY <1>4, <3>3, <4>2
      <4> QED BY <4>1, <4>2
    <3> QED BY <1>1, <2>1, <3>2, <3>4, <3>5 DEF Agrees
  <2>4. Agrees(k) <=> Same(d, k)
    BY <1>0 DEF Agrees
  <2> QED BY <2>1, <2>2, <2>3, <2>4
<1>7. Typed'
  BY <1>4, <1>5 DEF Inv, Typed, TypeOK
<1>8. Small'
  <2>1. CASE k < 64
    <3>1. Same(d, k)
      BY <1>1, <1>6, <2>1 DEF Inv, Small
    <3> QED BY <1>6, <2>1, <3>1 DEF Inv, Small
  <2>2. CASE k >= 64
    <3>1. \A c \in Chans : c < 64 => c # k
      BY <2>2, <1>1, Sizes
    <3>2. \A c \in wrong' : c >= 64 \/ c \in again
      BY <1>4, <2>2 DEF Inv, Small
    <3> QED BY <1>6, <3>1, <3>2 DEF Inv, Small
  <2> QED BY <1>1, <2>1, <2>2, Sizes
<1>9. Uncut'
  <2>1. SUFFICES ASSUME ~ cut PROVE wrong' \subseteq again /\ \A c \in Chans : Agrees(c)'
    BY <1>4 DEF Uncut
  <2>2. wrong \subseteq again /\ \A c \in Chans : Agrees(c)
    BY <2>1 DEF Inv, Uncut
  <2>3. Same(d, k)
    BY <1>1, <1>6, <2>2
  <2> QED BY <1>6, <2>2, <2>3
<1>10. ASSUME ~ inherits
       PROVE  Left(d) = Left(ref[k]) /\ Stored(d).p_left = Stored(ref[k]).p_left
  <2>1. /\ dec[k].p_left = ref[k].p_left
        /\ ref[k].p_left = NoBuf => head.type <= 1 /\ head.sz = ref[k].sz
    BY <1>0, <1>1, <1>10 DEF Inv, Framed
  <2>2. d.p_left = dec[k].p_left /\ (head.type <= 1 => d.sz = head.sz)
    <3>1. d = [cur_ts |-> IF head.type <= 2 THEN head.ts ELSE dec[k].cur_ts,
               sz     |-> IF head.type <= 1 THEN head.sz ELSE dec[k].sz,
               dest   |-> IF head.type = 0 THEN head.dest ELSE dec[k].dest,
               ts     |-> dec[k].ts, p_left |-> dec[k].p_left]
      BY <1>2, <1>3, EnterIs
    <3> QED BY <3>1
  <2>3. Size(d) = Size(ref[k])
    BY <2>1, <2>2 DEF Size
  <2>4. Left(d) = Left(ref[k])
    BY <1>2, <1>3, <2>3, LeftIs
  <2>5. /\ Stored(d).p_left = (IF Size(d) - Left(d) = 0 THEN NoBuf ELSE Size(d) - Left(d))
        /\ Stored(ref[k]).p_left =
              (IF Size(ref[k]) - Left(ref[k]) = 0 THEN NoBuf ELSE Size(ref[k]) - Left(ref[k]))
    <3>1. ASSUME NEW ch \in Channels
          PROVE  Stored(ch).p_left = (IF Size(ch) - Left(ch) = 0 THEN NoBuf ELSE Size(ch) - Left(ch))
      BY StoredIs
    <3> QED BY <1>2, <1>3, <3>1
  <2>6. Stored(d).p_left = Stored(ref[k]).p_left
    BY <2>3, <2>4, <2>5
  <2> QED BY <2>4, <2>6
<1>11. Framed'
  BY <1>5, <1>6, <1>10 DEF Inv, Framed
<1>12. FramingKept'
  <2>1. SUFFICES ASSUME lost'
                 PROVE  /\ cut \/ \E c \in Chans : ref'[c].cur_ts = Mark
                        /\ inherits \/ \E c \in Chans : dec'[c].cur_ts = Mark
    BY <1>4 DEF FramingKept
  <2>2. dec'[k].cur_ts = d.cur_ts /\ ref'[k].cur_ts = ref[k].cur_ts
    <3>1. ASSUME NEW ch \in Channels PROVE Stored(ch).cur_ts = ch.cur_ts
      BY StoredIs
    <3> QED BY <1>2, <1>3, <1>5, <3>1
  <2>3. ASSUME ~ inherits PROVE dec'[k].cur_ts = Mark
    BY <1>4, <1>10, <2>1, <2>2, <2>3
  <2>4. ASSUME ~ cut PROVE ref[k].cur_ts = Mark
    <3>1. Same(d, k)
      BY <1>1, <1>6, <2>4 DEF Inv, Uncut
    <3> QED BY <1>4, <1>6, <2>1, <3>1
  <2> QED BY <1>1, <2>2, <2>3, <2>4
<1>13. Unmarked'
  <2>1. SUFFICES ASSUME ~ lost', NEW c \in Chans, ref'[c].cur_ts = Mark PROVE FALSE
    BY <1>4 DEF Unmarked
  <2>2. ref'[k].cur_ts = ref[k].cur_ts
    <3>1. ASSUME NEW ch \in Channels PROVE Stored(ch).cur_ts = ch.cur_ts
      BY StoredIs
    <3> QED BY <1>2, <1>5, <3>1
  <2>3. c = k /\ head.type <= 2 /\ head.ts = Mark
    BY <1>0, <1>5, <2>1, <2>2 DEF Inv, Unmarked
  <2>4. d.cur_ts = head.ts
    <3>1. d = [cur_ts |-> IF head.type <= 2 THEN head.ts ELSE dec[k].cur_ts,
               sz     |-> IF head.type <= 1 THEN head.sz ELSE dec[k].sz,
               dest   |-> IF head.type = 0 THEN head.dest ELSE dec[k].dest,
               ts     |-> dec[k].ts, p_left |-> dec[k].p_left]
      BY <1>2, <1>3, EnterIs
    <3> QED BY <2>3, <3>1
  <2> QED BY <1>4, <2>1, <2>3, <2>4
<1> QED BY <1>0, <1>4, <1>5, <1>7, <1>8, <1>9, <1>11, <1>12, <1>13 DEF Inv

-----------------------------------------------------------------------------
LEMMA InitInv == Init => Inv
<1> SUFFICES ASSUME Init PROVE Inv
  OBVIOUS
<1>1. NewChan \in Channels
  BY SizesAssumption DEF NewChan, Channels, Stamps
<1>2. \A c \in Chans : c # head.chan
  BY Sizes DEF Init, NoChunk
<1>3. Typed
  BY <1>1 DEF Init, Typed, TypeOK
<1>4. Small /\ Uncut /\ Framed /\ FramingKept
  BY <1>2 DEF Init, Small, Uncut, Framed, FramingKept, Agrees, Same
<1>5. Unmarked
  <2>1. 0 # Mark
    BY DEF Mark, Ext
  <2> QED BY <2>1 DEF Init, Unmarked, NewChan
<1> QED BY <1>3, <1>4, <1>5 DEF Inv

LEMMA DecodeKeeps ==
    ASSUME Inv, ~ lost, Decode
    PROVE  /\ Inv'
           /\ \A c \in Chans : dec'[c].p_left # dec[c].p_left => c = head.chan /\ head' = NoChunk
<1>1. /\ head # NoChunk /\ UNCHANGED <<sent, inherits, again>> /\ (Complete \/ NeedMore)
      /\ \E all \in {Len(Header(head)) + Left(ref[head.chan])} : avail' \in (avail + 1)..all
  BY DEF Decode
<1>2. avail' \in Nat
  BY <1>1 DEF Inv, Typed, TypeOK
<1>3. CASE NeedMore
  <2>1. Inv' /\ \A c \in Chans : dec'[c].p_left = dec[c].p_left
    BY <1>1, <1>2, <1>3, NeedMoreKeeps
  <2> QED BY <2>1
<1>4. CASE Complete
  <2>1. Inv' /\ head' = NoChunk /\ \A c \in Chans : c # head.chan => dec'[c] = dec[c]
    BY <1>1, <1>2, <1>4, CompleteKeeps
  <2> QED BY <2>1
<1> QED BY <1>1, <1>3, <1>4

LEMMA StepInv == Inv /\ [Next]_vars => Inv'
<1> SUFFICES ASSUME Inv, [Next]_vars PROVE Inv'
  OBVIOUS
<1>1. CASE UNCHANGED vars
  BY <1>1 DEF vars, Inv, Typed, TypeOK, Small, Uncut, Unmarked, Framed, FramingKept, Agrees, Same, ReadHeader
<1>2. CASE Next
  BY <1>2, NextChunkKeeps, DecodeKeeps DEF Next
<1> QED BY <1>1, <1>2

LEMMA Invariant == Spec => []Inv
<1> QED BY InitInv, StepInv, PTL DEF Spec

(* The decoder's channels keep their types, what was read too early        *)
(* included (get_chan, rtmp.c:477).                                        *)
THEOREM DecoderTyped == Spec => []TypeOK
<1>1. Inv => TypeOK
  BY DEF Inv, Typed
<1> QED BY Invariant, <1>1, PTL

(* Channels below 64 are sound whatever way the stream is cut, but for the *)
(* time of one that was set twice by a full header: their number is in the *)
(* first byte of a chunk, so that no visit can take them for another, and  *)
(* the last visit reads all fields again (rtmp.c:525).                     *)
THEOREM SmallSound == Spec => []SmallChannelsSound
<1>1. Inv => SmallChannelsSound
  BY DEF Inv, Small, Agrees, SmallChannelsSound
<1> QED BY Invariant, <1>1, PTL

(* So are the others while no chunk has been cut behind its first byte,    *)
(* with the same exception for the time.                                   *)
THEOREM AllSound == Spec => []AllSoundUnlessCut
<1>1. Inv => AllSoundUnlessCut
  BY DEF Inv, Uncut, Agrees, AllSoundUnlessCut
<1> QED BY Invariant, <1>1, PTL

(* The decoder and the peer can disagree about the end of a chunk only     *)
(* when a chunk was cut there and a message left its length to the one     *)
(* before it (rtmp.c:560).                                                 *)
THEOREM ChunksFramed == Spec => []FramingKept
<1>1. Inv => FramingKept
  BY DEF Inv
<1> QED BY Invariant, <1>1, PTL

(* What has been received of a message moves only on a complete chunk, and *)
(* on that chunk's channel (rtmp.c:574).                                   *)
THEOREM BodyMoves == Spec => BodyKept
<1>1. ASSUME Inv, Next
      PROVE  \A c \in Chans : dec'[c].p_left # dec[c].p_left => c = head.chan /\ head' = NoChunk
  <2>1. CASE NextChunk
    BY <2>1 DEF NextChunk
  <2>2. CASE Decode
    BY <1>1, <2>2, DecodeKeeps DEF Next
  <2> QED BY <1>1, <2>1, <2>2 DEF Next
<1>2. Inv /\ [Next]_vars =>
        [\A c \in Chans : dec'[c].p_left # dec[c].p_left => c = head.chan /\ head' = NoChunk]_vars
  BY <1>1
<1> QED BY Invariant, <1>2, PTL DEF Spec, BodyKept
=============================================================================
