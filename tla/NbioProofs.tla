----------------------------- MODULE NbioProofs -----------------------------
(* Proofs about Nbio, for up to 8 ios and any descriptors and bounds.      *)
EXTENDS Nbio, TLAPS, FiniteSetTheorems

-----------------------------------------------------------------------------
(* What the list operations do to the ios on a list.                       *)

LEMMA WithoutType ==
  ASSUME NEW s \in Seq(Ios), NEW n
  PROVE  Without(s, n) \in Seq(Ios)
<1>1. CASE n \notin Elems(s)
  BY <1>1 DEF Without
<1>2. CASE n \in Elems(s)
  <2> DEFINE i == CHOOSE i \in DOMAIN s : s[i] = n
             t == [j \in 1 .. (Len(s) - 1) |-> IF j < i THEN s[j] ELSE s[j + 1]]
  <2>1. i \in 1 .. Len(s)
    BY <1>2 DEF Elems
  <2>2. Without(s, n) = t
    BY <1>2 DEF Without
  <2>3. Len(s) \in Nat /\ Len(s) - 1 \in Nat
    BY <2>1
  <2> HIDE DEF i
  <2>4. \A j \in 1 .. (Len(s) - 1) : t[j] \in Ios
    BY <2>1, <2>3
  <2>5. t \in [1 .. (Len(s) - 1) -> Ios]
    BY <2>4
  <2> QED BY <2>2, <2>3, <2>5
<1> QED BY <1>1, <1>2

LEMMA WithoutKeeps ==
  ASSUME NEW s \in Seq(Ios), NEW n, NEW k \in Elems(s), k # n
  PROVE  k \in Elems(Without(s, n))
<1>1. CASE n \notin Elems(s)
  BY <1>1 DEF Without
<1>2. CASE n \in Elems(s)
  <2> DEFINE i == CHOOSE i \in DOMAIN s : s[i] = n
             t == [j \in 1 .. (Len(s) - 1) |-> IF j < i THEN s[j] ELSE s[j + 1]]
  <2>1. i \in 1 .. Len(s) /\ s[i] = n
    BY <1>2 DEF Elems
  <2>2. Without(s, n) = t
    BY <1>2 DEF Without
  <2>3. PICK h \in 1 .. Len(s) : s[h] = k
    BY DEF Elems
  <2>4. h # i /\ Len(s) \in Nat
    BY <2>1, <2>3
  <2> HIDE DEF i
  <2>5. CASE h < i
    <3>1. h \in 1 .. (Len(s) - 1) /\ t[h] = k
      BY <2>1, <2>3, <2>4, <2>5
    <3> QED BY <2>2, <3>1 DEF Elems
  <2>6. CASE h > i
    <3>1. h - 1 \in 1 .. (Len(s) - 1) /\ ~ (h - 1 < i) /\ (h - 1) + 1 = h
      BY <2>1, <2>3, <2>4, <2>6
    <3>2. t[h - 1] = k
      BY <2>3, <3>1
    <3> QED BY <2>2, <3>1, <3>2 DEF Elems
  <2> QED BY <2>1, <2>3, <2>4, <2>5, <2>6
<1> QED BY <1>1, <1>2

(* A list without duplicates is an injective sequence.                     *)
LEMMA WithoutDrops ==
  ASSUME NEW s \in Seq(Ios), IsInjective(s), NEW n
  PROVE  /\ IsInjective(Without(s, n)) /\ n \notin Elems(Without(s, n))
         /\ Elems(Without(s, n)) \subseteq Elems(s)
<1>1. CASE n \notin Elems(s)
  BY <1>1 DEF Without
<1>2. CASE n \in Elems(s)
  <2> DEFINE i == CHOOSE i \in DOMAIN s : s[i] = n
             t == [j \in 1 .. (Len(s) - 1) |-> IF j < i THEN s[j] ELSE s[j + 1]]
             h(j) == IF j < i THEN j ELSE j + 1
  <2>1. i \in 1 .. Len(s) /\ s[i] = n /\ Len(s) \in Nat
    BY <1>2 DEF Elems
  <2>2. Without(s, n) = t
    BY <1>2 DEF Without
  <2> HIDE DEF i
  <2>3. \A j \in 1 .. (Len(s) - 1) : h(j) \in 1 .. Len(s) /\ h(j) # i /\ t[j] = s[h(j)]
    BY <2>1
  <2>4. \A j, k \in 1 .. (Len(s) - 1) : h(j) = h(k) => j = k
    BY <2>1
  <2>5. DOMAIN t = 1 .. (Len(s) - 1) /\ DOMAIN s = 1 .. Len(s)
    OBVIOUS
  <2> HIDE DEF t, h
  <2>6. IsInjective(t)
    BY <2>3, <2>4, <2>5 DEF IsInjective
  <2>7. n \notin Elems(t) /\ Elems(t) \subseteq Elems(s)
    BY <2>1, <2>3, <2>5 DEF IsInjective, Elems
  <2> QED BY <2>2, <2>6, <2>7
<1> QED BY <1>1, <1>2

LEMMA AppendNoDup ==
  ASSUME NEW s \in Seq(Ios), IsInjective(s), NEW n \in Ios, n \notin Elems(s)
  PROVE  IsInjective(Append(s, n))
<1>1. /\ DOMAIN Append(s, n) = 1 .. (Len(s) + 1) /\ DOMAIN s = 1 .. Len(s)
      /\ Len(s) \in Nat /\ Append(s, n)[Len(s) + 1] = n
      /\ \A i \in 1 .. Len(s) : Append(s, n)[i] = s[i] /\ s[i] # n
  BY DEF Elems
<1> SUFFICES ASSUME NEW i \in 1 .. (Len(s) + 1), NEW j \in 1 .. (Len(s) + 1),
                    Append(s, n)[i] = Append(s, n)[j]
             PROVE  i = j
  BY <1>1 DEF IsInjective
<1>2. CASE i \in 1 .. Len(s) /\ j \in 1 .. Len(s)
  BY <1>1, <1>2 DEF IsInjective
<1>3. CASE i = Len(s) + 1 /\ j = Len(s) + 1
  BY <1>3
<1>4. CASE (i \in 1 .. Len(s) /\ j = Len(s) + 1) \/ (j \in 1 .. Len(s) /\ i = Len(s) + 1)
  BY <1>1, <1>4
<1> QED BY <1>1, <1>2, <1>3, <1>4

LEMMA NextOfOther ==
  ASSUME NEW s \in Seq(Ios), IsInjective(s), NEW n \in Ios
  PROVE  NextOf(s, n) # n
<1> DEFINE later == {i \in DOMAIN s : i > 1 /\ s[i - 1] = n}
<1>1. CASE later = {}
  BY <1>1, IosAssumption DEF NextOf
<1>2. CASE later # {}
  <2>1. \A i \in later : s[i] # n
    <3>1. \A i \in DOMAIN s : i \in 1 .. Len(s) /\ Len(s) \in Nat
      OBVIOUS
    <3>2. \A i \in later : i - 1 \in DOMAIN s /\ i \in DOMAIN s /\ i # i - 1 /\ s[i - 1] = n
      BY <3>1
    <3> QED BY <3>2 DEF IsInjective
  <2>2. (CHOOSE i \in later : TRUE) \in later
    BY <1>2
  <2> HIDE DEF later
  <2>3. NextOf(s, n) = s[CHOOSE i \in later : TRUE]
    BY <1>2 DEF NextOf, later
  <2> QED BY <2>1, <2>2, <2>3
<1> QED BY <1>1, <1>2

LEMMA AppendElems ==
  ASSUME NEW s \in Seq(Ios), NEW n \in Ios
  PROVE  Append(s, n) \in Seq(Ios) /\ Elems(Append(s, n)) = Elems(s) \cup {n}
<1>1. /\ Append(s, n) \in Seq(Ios)
      /\ Len(Append(s, n)) = Len(s) + 1 /\ Len(s) \in Nat
      /\ Append(s, n)[Len(s) + 1] = n
      /\ \A i \in 1 .. Len(s) : Append(s, n)[i] = s[i]
  OBVIOUS
<1>2. DOMAIN s = 1 .. Len(s) /\ DOMAIN Append(s, n) = 1 .. (Len(s) + 1)
  BY <1>1
<1>3. 1 .. (Len(s) + 1) = (1 .. Len(s)) \cup {Len(s) + 1}
  BY <1>1
<1> QED BY <1>1, <1>2, <1>3 DEF Elems

LEMMA ConcatElems ==
  ASSUME NEW s \in Seq(Ios), NEW t \in Seq(Ios)
  PROVE  /\ s \o t \in Seq(Ios)
         /\ \A k \in Elems(s) : k \in Elems(s \o t)
         /\ \A k \in Elems(t) : k \in Elems(s \o t)
<1>1. s \o t \in Seq(Ios) /\ Len(s \o t) = Len(s) + Len(t)
      /\ Len(s) \in Nat /\ Len(t) \in Nat
  OBVIOUS
<1>2. \A i \in 1 .. Len(s) : (s \o t)[i] = s[i] /\ i \in 1 .. Len(s \o t)
  BY <1>1
<1>3. \A i \in 1 .. Len(t) :
         (s \o t)[Len(s) + i] = t[i] /\ Len(s) + i \in 1 .. Len(s \o t)
  BY <1>1
<1> QED BY <1>1, <1>2, <1>3, SMTT(30) DEF Elems

LEMMA OrderType ==
  ASSUME NEW S \in SUBSET Ios, NEW s \in Orders(S)
  PROVE  s \in Seq(Ios) /\ Elems(s) = S
<1>1. Cardinality(S) \in Nat
  <2>1. IsFiniteSet(S)
    BY IosAssumption, FS_Subset
  <2> QED BY <2>1, FS_CardinalityType
<1> QED BY <1>1 DEF Orders

LEMMA OrderNoDup ==
  ASSUME NEW S \in SUBSET Ios, NEW s \in Orders(S) PROVE IsInjective(s)
<1>1. IsFiniteSet(S) /\ Cardinality(S) \in Nat
  BY IosAssumption, FS_Subset, FS_CardinalityType
<1>2. s \in Surjection(1 .. Cardinality(S), S)
  BY DEF Orders, Elems, Surjection
<1>3. /\ IsFiniteSet(1 .. Cardinality(S))
      /\ Cardinality(1 .. Cardinality(S)) = Cardinality(S)
  BY <1>1, FS_Interval
<1>4. s \in Injection(1 .. Cardinality(S), S)
  BY <1>2, <1>3, FS_SurjSameCardinalityImpliesInj
<1> QED BY <1>4 DEF Injection, IsInjective, Orders

LEMMA NextOfType ==
  ASSUME NEW s \in Seq(Ios), NEW n
  PROVE  NextOf(s, n) \in Elems(s) \cup {ListHead}
<1> DEFINE later == {i \in DOMAIN s : i > 1 /\ s[i - 1] = n}
<1>1. CASE later = {}
  BY <1>1 DEF NextOf
<1>2. CASE later # {}
  <2>1. (CHOOSE i \in later : TRUE) \in later
    BY <1>2
  <2>2. \A i \in later : s[i] \in Elems(s)
    BY DEF Elems
  <2> HIDE DEF later
  <2>3. NextOf(s, n) = s[CHOOSE i \in later : TRUE]
    BY <1>2 DEF NextOf, later
  <2> QED BY <2>1, <2>2, <2>3
<1> QED BY <1>1, <1>2

LEMMA ElemsType ==
  ASSUME NEW s \in Seq(Ios) PROVE Elems(s) \subseteq Ios
BY DEF Elems

(* The ios that are on a list the scan or the plugin looks at.             *)
Live == Elems(active) \cup inactive

-----------------------------------------------------------------------------
(* The inductive invariant.                                                *)

(* Past the entry of an iteration the cursor is an io.                     *)
Cursor == pc \in {"read", "error"} => cur \in Ios

OneWait == {{"READ"}, {"WRITE"}}

(* What is true of an io, whatever the scan is doing.  The third conjunct  *)
(* makes an io that does not exist yet blank; the fourth is what makes it  *)
(* safe for epoll_inactive to leave a registration that is already there:  *)
(* it is always the one its mask asks for.  A dead io is the exception:    *)
(* the loop drops one on an error without taking its fd out of epoll, and  *)
(* a send may put one to sleep again.                                      *)
Settled(n) ==
  /\ mask[n] \in {{}, Deleted} \cup OneWait
  /\ n \in deleted \cup closed => mask[n] = Deleted
  /\ mask[n] # {} => n \in Live \cup deleted \cup closed
  /\ reg[n] # {} /\ mask[n] # Deleted => mask[n] # {} /\ reg[n] = Wanted(mask[n])
  /\ n \in inactive => /\ n \notin deleted \cup closed
                       /\ mask[n] \in OneWait \cup {Deleted}
                       /\ flags[n] \cap mask[n] = {}
                       /\ reg[n] = Wanted(mask[n])
                       /\ Pending(n) => n \in edge

AllSettled == \A n \in Ios : Settled(n)

-----------------------------------------------------------------------------
(* Types.  What the calls of the nbio API change, and only they and epoll. *)

ListsTyped ==
  /\ active \in Seq(Ios)
  /\ inactive \subseteq Ios /\ deleted \subseteq Ios /\ closed \subseteq Ios
  /\ mask \in [Ios -> SUBSET Bits] /\ flags \in [Ios -> SUBSET Bits]
  /\ reg \in [Ios -> SUBSET {"IN", "OUT", "ERR", "HUP"}]
  /\ edge \subseteq Ios

SockTyped ==
  /\ rx \in [Ios -> Nat]
  /\ out \in [Ios -> BOOLEAN] /\ peer \in [Ios -> {"open", "eof", "rst"}]

ScanTyped ==
  /\ pc \in {"setup", "idle", "while", "visit", "read", "error", "wait"}
  /\ cur \in Ios \cup {ListHead} /\ tmp \in Ios \cup {ListHead}
  /\ Cursor

HistTyped == unheard \subseteq Ios /\ resent \subseteq Ios

Typed == ListsTyped /\ SockTyped /\ ScanTyped /\ HistTyped

LEMMA TypedIsTypeOK == Typed => TypeOK
BY DEF Typed, TypeOK, ListsTyped, SockTyped, ScanTyped, HistTyped

LEMMA HistKept == HistTyped /\ UNCHANGED hist => HistTyped'
BY DEF HistTyped, hist

LEMMA WantedType ==
  ASSUME NEW m PROVE Wanted(m) \in SUBSET {"IN", "OUT", "ERR", "HUP"}
BY DEF Wanted

LEMMA DelTyped ==
  ASSUME ListsTyped, NEW n \in Ios, Del(n) PROVE ListsTyped'
<1>1. active' \in Seq(Ios)
  BY WithoutType DEF ListsTyped, Del
<1> QED BY <1>1 DEF ListsTyped, Del, Unregister, Deleted, Bits

LEMMA SetWaitTyped ==
  ASSUME ListsTyped, NEW n \in Ios, NEW w \in OneWait, SetWait(n, w)
  PROVE  ListsTyped'
<1>1. active' \in Seq(Ios)
  BY WithoutType, AppendElems DEF ListsTyped, SetWait
<1>2. w \in SUBSET Bits
  BY DEF OneWait, Bits
<1> QED BY <1>1, <1>2 DEF ListsTyped, SetWait, Unregister

LEMMA RegisterTyped ==
  ASSUME ListsTyped, NEW n \in Ios, NEW m, Register(n, m)
  PROVE  reg' \in [Ios -> SUBSET {"IN", "OUT", "ERR", "HUP"}] /\ edge' \subseteq Ios
BY WantedType DEF ListsTyped, Register

LEMMA InactiveTyped ==
  ASSUME ListsTyped, NEW n \in Ios, NEW bits, Inactive(n, bits)
  PROVE  ListsTyped'
<1>1. /\ flags' \in [Ios -> SUBSET Bits]
      /\ UNCHANGED <<mask, closed>>
  BY DEF ListsTyped, Inactive
<1>2. CASE (flags[n] \ bits) \cap mask[n] = {}
  <2>1. active' \in Seq(Ios) /\ inactive' \subseteq Ios /\ deleted' \subseteq Ios
    BY <1>2, WithoutType DEF ListsTyped, Inactive
  <2>2. Register(n, mask[n])
    BY <1>2 DEF Inactive
  <2> QED BY <1>1, <2>1, <2>2, RegisterTyped DEF ListsTyped
<1>3. CASE (flags[n] \ bits) \cap mask[n] # {}
  BY <1>1, <1>3 DEF ListsTyped, Inactive
<1> QED BY <1>2, <1>3

(* The cursor of the scan.                                                 *)
LEMMA VisitingAnIo ==
  ASSUME ScanTyped PROVE (Visiting \/ Reading \/ pc = "error") => cur \in Ios
BY DEF ScanTyped, Cursor, Visiting, Reading, Intact

LEMMA AdvanceTyped ==
  ASSUME ScanTyped, NEW s \in Seq(Ios), Advance(s) PROVE ScanTyped'
BY NextOfType, ElemsType DEF Advance, ScanTyped, Cursor

LEMMA GotoTyped ==
  ASSUME ScanTyped, NEW p, Goto(p),
         p \in {"setup", "idle", "while", "visit", "read", "error", "wait"},
         p \in {"read", "error"} => cur \in Ios
  PROVE  ScanTyped'
BY DEF Goto, ScanTyped, Cursor

LEMMA TypedInit == Init => Typed
<1>1. <<>> \in Seq(Ios)
  OBVIOUS
<1> QED BY <1>1 DEF Init, Typed, ListsTyped, SockTyped, HistTyped,
         ScanTyped, Cursor, Bits

LEMMA TypedNext == Typed /\ [Next]_vars => Typed'
<1> SUFFICES ASSUME Typed, [Next]_vars PROVE Typed'
  OBVIOUS
<1> USE DEF Typed
<1>0. ListsTyped /\ SockTyped /\ ScanTyped /\ HistTyped
  OBVIOUS
<1>1. CASE StartFor
  <2>1. active[1] \in Ios
    BY <1>0, <1>1 DEF StartFor, ListsTyped
  <2>2. NextOf(active, active[1]) \in Ios \cup {ListHead}
    BY <1>0, NextOfType, ElemsType DEF ListsTyped
  <2> QED BY <1>0, <1>1, <2>1, <2>2, HistKept
          DEF StartFor, ListsTyped, SockTyped, ScanTyped, Cursor, lists, io, sock
<1>2. CASE EndFor \/ SkipWrite \/ SkipRead \/ MainLoop
  <2>1. UNCHANGED <<lists, io, hist, sock, edge>>
    BY <1>2 DEF EndFor, SkipWrite, SkipRead, MainLoop
  <2>2. ListsTyped' /\ SockTyped' /\ HistTyped'
    BY <1>0, <2>1, HistKept DEF ListsTyped, SockTyped, lists, io, sock
  <2>3. \/ Goto("while")
        \/ Goto("read") /\ cur \in Ios
        \/ Goto("error") /\ cur \in Ios
    BY <1>2, VisitingAnIo
       DEF EndFor, SkipWrite, SkipRead, MainLoop, ScanTyped, Cursor
  <2> QED BY <1>0, <2>1, <2>2, <2>3, GotoTyped, HistKept
<1>3. CASE WriteDone
  <2>1. cur \in Ios /\ SetWait(cur, {"READ"}) /\ Goto("read") /\ UNCHANGED <<hist, sock>>
    BY <1>3, VisitingAnIo DEF WriteDone, Writing
  <2>2. ListsTyped'
    BY <1>0, <2>1, SetWaitTyped DEF OneWait
  <2> QED BY <1>0, <2>1, <2>2, GotoTyped, HistKept DEF SockTyped, sock
<1>4. CASE WriteFail \/ ReadEnd
  <2>1. cur \in Ios /\ Del(cur) /\ UNCHANGED <<hist, sock>>
    BY <1>4, VisitingAnIo DEF WriteFail, Writing, ReadEnd
  <2>2. Goto("read") \/ Goto("error")
    BY <1>4 DEF WriteFail, ReadEnd
  <2>3. ListsTyped'
    BY <1>0, <2>1, DelTyped
  <2> QED BY <1>0, <2>1, <2>2, <2>3, GotoTyped, HistKept DEF SockTyped, sock
<1>5. CASE ReadSleep
  <2>1. /\ cur \in Ios /\ Inactive(cur, {"READ"}) /\ Goto("error")
        /\ UNCHANGED <<hist, sock>>
    BY <1>5, VisitingAnIo DEF ReadSleep
  <2>2. ListsTyped'
    BY <1>0, <2>1, InactiveTyped
  <2> QED BY <1>0, <2>1, <2>2, GotoTyped, HistKept DEF SockTyped, sock
<1>6. CASE ReadSome \/ (\E n \in Ios : ReadClose(n)) \/ AcceptRefused \/ AcceptFails
  <2>1. cur \in Ios /\ rx[cur] > 0 /\ Recv /\ Goto("error") /\ UNCHANGED hist
    BY <1>6, VisitingAnIo DEF ReadSome, ReadClose, AcceptRefused, AcceptFails
  <2>2. SockTyped'
    BY <1>0, <2>1 DEF SockTyped, Recv
  <2>3. ListsTyped'
    <3>1. CASE ReadSome \/ AcceptFails
      BY <1>0, <3>1 DEF ReadSome, AcceptFails, ListsTyped, lists, io
    <3>2. CASE \E n \in Ios : ReadClose(n)
      BY <1>0, <3>2, DelTyped DEF ReadClose
    <3>3. CASE AcceptRefused
      <4>1. SetWait(cur, {"READ"})
        BY <3>3 DEF AcceptRefused
      <4> QED BY <1>0, <2>1, <4>1, SetWaitTyped DEF OneWait
    <3> QED BY <1>6, <3>1, <3>2, <3>3
  <2> QED BY <1>0, <2>1, <2>2, <2>3, GotoTyped, HistKept
<1>7. ASSUME NEW n \in Ios, Accept(n) PROVE Typed'
  <2>1. cur \in Ios /\ rx[cur] > 0 /\ Goto("error")
    BY <1>7, VisitingAnIo DEF Accept
  <2>2. SockTyped'
    BY <1>0, <1>7, <2>1 DEF SockTyped, Accept
  <2>3. active' \in Seq(Ios)
    <3>1. active' = Append(Append(Without(active, cur), n), cur)
      BY <1>7 DEF Accept
    <3> QED BY <1>0, <2>1, <3>1, WithoutType, AppendElems DEF ListsTyped
  <2>4. ListsTyped'
    BY <1>0, <1>7, <2>3 DEF ListsTyped, Accept, Unregister, Bits
  <2> QED BY <1>0, <1>7, <2>1, <2>2, <2>4, GotoTyped, HistKept DEF Accept
<1>17. CASE ReadCloseSend
  <2>1. cur \in Ios /\ rx[cur] > 0 /\ Recv /\ Goto("error")
    BY <1>17, VisitingAnIo DEF ReadCloseSend
  <2>2. SockTyped'
    BY <1>0, <2>1 DEF SockTyped, Recv
  <2>3. active' \in Seq(Ios)
    BY <1>0, <1>17, WithoutType DEF ReadCloseSend, ListsTyped
  <2>4. ListsTyped'
    BY <1>0, <1>17, <2>1, <2>3, WantedType DEF ReadCloseSend, ListsTyped, Deleted, Bits
  <2>5. HistTyped'
    BY <1>0, <1>17, <2>1 DEF ReadCloseSend, HistTyped
  <2> QED BY <1>0, <2>1, <2>2, <2>4, <2>5, GotoTyped
<1>8. CASE AcceptOom
  BY <1>0, <1>8, VisitingAnIo, GotoTyped, HistKept
     DEF AcceptOom, ListsTyped, SockTyped, lists, io, sock
<1>9. CASE Continue
  BY <1>0, <1>9, AdvanceTyped, HistKept DEF Continue, ListsTyped, SockTyped, lists, io, sock
<1>10. CASE DropOnError
  <2>1. cur \in Ios
    BY <1>10, VisitingAnIo DEF DropOnError
  <2>2. ListsTyped'
    BY <1>0, <1>10, <2>1, WithoutType DEF DropOnError, ListsTyped, Deleted, Bits
  <2>3. ScanTyped'
    BY <1>0, <1>10, <2>2, AdvanceTyped DEF DropOnError, ListsTyped
  <2> QED BY <1>0, <1>10, <2>1, <2>2, <2>3 DEF DropOnError, SockTyped, HistTyped, sock
<1>11. CASE Reap
  <2>1. ListsTyped'
    BY <1>0, <1>11 DEF Reap, ListsTyped, Unregister
  <2> QED BY <1>0, <1>11, <2>1, GotoTyped, HistKept DEF Reap, SockTyped, sock
<1>12. CASE EpollPump
  <2>1. active' \in Seq(Ios)
    <3>1. PICK s \in Orders(Fired) : active' = active \o s
      BY <1>12 DEF EpollPump
    <3>2. Fired \in SUBSET Ios
      BY <1>0 DEF Fired, ListsTyped
    <3> QED BY <1>0, <3>1, <3>2, OrderType, ConcatElems DEF ListsTyped
  <2>2. \A ev : EventFlags(ev) \in SUBSET Bits
    BY DEF EventFlags, Bits
  <2>3. ListsTyped'
    BY <1>0, <1>12, <2>1, <2>2 DEF EpollPump, ListsTyped
  <2> QED BY <1>0, <1>12, <2>3, GotoTyped, HistKept DEF EpollPump, SockTyped, sock
<1>13. ASSUME NEW n \in Ios, Connect(n) PROVE Typed'
  <2>1. UNCHANGED <<scan, hist, sock>>
    BY <1>13 DEF Connect
  <2>2. ListsTyped'
    <3>1. CASE out[n]
      BY <1>0, <1>13, <3>1, SetWaitTyped DEF Connect, OneWait
    <3>2. CASE ~ out[n]
      <4>1. Register(n, {"WRITE"})
        BY <1>13, <3>2 DEF Connect
      <4> QED BY <1>0, <1>13, <3>2, <4>1, RegisterTyped DEF Connect, ListsTyped, Bits
    <3> QED BY <3>1, <3>2
  <2> QED BY <1>0, <2>1, <2>2, HistKept DEF SockTyped, sock, scan, ScanTyped, Cursor
<1>14. ASSUME NEW n \in Ios, Listen(n) PROVE Typed'
  <2>1. ListsTyped'
    BY <1>0, <1>14, SetWaitTyped DEF Listen, OneWait
  <2> QED BY <1>0, <1>14, <2>1, HistKept DEF Listen, SockTyped, sock, scan, ScanTyped, Cursor
<1>15. CASE Kernel
  <2>1. PICK n \in Ios : Arrive(n) \/ Connected(n) \/ ResetAgain(n)
                  \/ PeerEnds(n, "eof") \/ PeerEnds(n, "rst")
    BY <1>15 DEF Kernel
  <2>2. UNCHANGED <<lists, io, scan, hist>> /\ \E ev : Signal(n, ev)
    BY <2>1 DEF Arrive, Connected, ResetAgain, PeerEnds
  <2>3. ListsTyped'
    BY <1>0, <2>2 DEF ListsTyped, Signal, lists, io
  <2>4. SockTyped'
    <3>1. CASE Arrive(n)
      BY <1>0, <3>1 DEF SockTyped, Arrive
    <3>2. CASE Connected(n)
      BY <1>0, <3>2 DEF SockTyped, Connected
    <3>3. ASSUME NEW how \in {"eof", "rst"}, PeerEnds(n, how) PROVE SockTyped'
      BY <1>0, <3>3 DEF SockTyped, PeerEnds
    <3>4. CASE ResetAgain(n)
      BY <1>0, <3>4 DEF SockTyped, ResetAgain, sock
    <3> QED BY <2>1, <3>1, <3>2, <3>3, <3>4
  <2> QED BY <1>0, <2>2, <2>3, <2>4, HistKept DEF scan, ScanTyped, Cursor
<1>16. CASE UNCHANGED vars
  BY <1>0, <1>16, HistKept DEF vars, lists, io, scan, sock, ListsTyped, SockTyped,
                    ScanTyped, Cursor
<1> QED BY <1>1, <1>2, <1>3, <1>4, <1>5, <1>6, <1>7, <1>8, <1>9, <1>10, <1>11,
           <1>12, <1>13, <1>14, <1>15, <1>16, <1>17 DEF Next, Loop, Program

(* Every variable keeps its type: in particular the lists hold only ios.   *)
THEOREM TypeCorrect == Spec => []TypeOK
<1> QED BY TypedIsTypeOK, TypedInit, TypedNext, PTL DEF Spec

-----------------------------------------------------------------------------
(* No wakeup is lost.  Each step is followed for one io k: the ios it does *)
(* not touch stay settled by Frame, those it does by the lemma on the call *)
(* of the nbio API it makes.                                               *)

OnSomeList(n) == n \in Live \cup deleted \cup closed

LEMMA Frame ==
  ASSUME NEW k, Settled(k),
         UNCHANGED <<mask[k], flags[k], reg[k]>>,
         k \in (deleted \cup closed)' => k \in deleted \cup closed,
         OnSomeList(k) => OnSomeList(k)',
         k \in inactive' => k \in inactive,
         k \in inactive /\ Pending(k)' => k \in edge'
  PROVE  Settled(k)'
BY DEF Settled, OnSomeList, Deleted

(* What a read takes from a socket gives no io anything to do.             *)
Quieter ==
  /\ \A k \in Ios : rx'[k] > 0 => rx[k] > 0
  /\ UNCHANGED <<out, peer>>

LEMMA QuieterPending ==
  ASSUME Quieter, NEW k \in Ios, UNCHANGED mask[k], Pending(k)' PROVE Pending(k)
BY DEF Quieter, Pending

(* A sleeping io never runs a handler: none of what it waits for is ready. *)
LEMMA RunningIsAwake ==
  ASSUME ScanTyped, AllSettled, Writing \/ Reading
  PROVE  /\ cur \in Ios \ inactive /\ cur \notin deleted \cup closed
         /\ mask[cur] \in OneWait
<1>1. cur \in Ios /\ Settled(cur)
  BY VisitingAnIo DEF AllSettled, Writing
<1>2. flags[cur] \cap mask[cur] # {} /\ mask[cur] # Deleted
  BY DEF Writing, Reading, Deleted
<1> QED BY <1>1, <1>2 DEF Settled, OneWait, Deleted

LEMMA DelSettles ==
  ASSUME ListsTyped, AllSettled, NEW n \in Ios, Del(n), Quieter
  PROVE  AllSettled'
<1> SUFFICES ASSUME NEW k \in Ios PROVE Settled(k)'
  BY DEF AllSettled
<1>1. CASE k = n
  BY <1>1 DEF ListsTyped, Del, Settled, Deleted, Unregister
<1>2. CASE k # n
  <2>1. Settled(k)
    BY DEF AllSettled
  <2>2. UNCHANGED <<mask[k], flags[k], reg[k]>> /\ (k \in edge => k \in edge')
    BY <1>2 DEF Del, Unregister, ListsTyped
  <2>3. /\ k \in (deleted \cup closed)' => k \in deleted \cup closed
        /\ k \in inactive' <=> k \in inactive
    BY <1>2 DEF Del
  <2>4. OnSomeList(k) => OnSomeList(k)'
    BY <1>2, WithoutKeeps DEF Del, OnSomeList, Live, ListsTyped
  <2>5. k \in inactive /\ Pending(k)' => k \in edge'
    BY <2>1, <2>2, QuieterPending DEF Settled
  <2> QED BY <2>1, <2>2, <2>3, <2>4, <2>5, Frame
<1> QED BY <1>1, <1>2

LEMMA SetWaitSettles ==
  ASSUME ListsTyped, AllSettled, NEW n \in Ios, n \notin deleted \cup closed,
         NEW w \in OneWait, SetWait(n, w), Quieter
  PROVE  AllSettled'
<1> SUFFICES ASSUME NEW k \in Ios PROVE Settled(k)'
  BY DEF AllSettled
<1>0. /\ Without(active, n) \in Seq(Ios)
      /\ Elems(active') = Elems(Without(active, n)) \cup {n}
  BY WithoutType, AppendElems DEF ListsTyped, SetWait
<1>1. CASE k = n
  BY <1>0, <1>1 DEF ListsTyped, SetWait, Settled, Unregister, Live
<1>2. CASE k # n
  <2>1. Settled(k)
    BY DEF AllSettled
  <2>2. UNCHANGED <<mask[k], flags[k], reg[k]>> /\ (k \in edge => k \in edge')
    BY <1>2 DEF SetWait, Unregister, ListsTyped
  <2>3. /\ k \in (deleted \cup closed)' => k \in deleted \cup closed
        /\ k \in inactive' <=> k \in inactive
    BY <1>2 DEF SetWait
  <2>4. OnSomeList(k) => OnSomeList(k)'
    BY <1>0, <1>2, WithoutKeeps DEF SetWait, OnSomeList, Live, ListsTyped
  <2>5. k \in inactive /\ Pending(k)' => k \in edge'
    BY <2>1, <2>2, QuieterPending DEF Settled
  <2> QED BY <2>1, <2>2, <2>3, <2>4, <2>5, Frame
<1> QED BY <1>1, <1>2

(* What epoll_inactive leaves behind, for an io whose registration, if it  *)
(* has one, is the one its mask asks for.                                  *)
LEMMA RegisterArms ==
  ASSUME ListsTyped, NEW n \in Ios, NEW m, reg[n] \in {{}, Wanted(m)}, Register(n, m)
  PROVE  /\ reg'[n] = Wanted(m)
         /\ \A k \in Ios \ {n} : reg'[k] = reg[k]
         /\ edge \subseteq edge'
         /\ reg[n] = {} /\ Wanted(m) \cap Events(n) # {} => n \in edge'
BY DEF Register, ListsTyped, Wanted

LEMMA InactiveSettles ==
  ASSUME ListsTyped, AllSettled, NEW n \in Ios, n \notin deleted \cup closed,
         mask[n] \in OneWait, ~ Pending(n), NEW bits, Inactive(n, bits),
         flags[n] \cap mask[n] # {}, UNCHANGED sock
  PROVE  AllSettled'
<1> SUFFICES ASSUME NEW k \in Ios PROVE Settled(k)'
  BY DEF AllSettled
<1>0. Settled(k) /\ Settled(n) /\ UNCHANGED <<mask, closed>>
  BY DEF AllSettled, Inactive
<1>1. mask[n] # {} /\ mask[n] # Deleted /\ n \notin inactive
  BY <1>0 DEF OneWait, Deleted, Settled
<1>2. Pending(k)' <=> Pending(k)
  BY <1>0 DEF Pending, sock
<1>3. flags'[n] = flags[n] \ bits /\ (k # n => flags'[k] = flags[k])
  BY DEF Inactive, ListsTyped
<1>4. CASE (flags[n] \ bits) \cap mask[n] = {}
  <2>1. /\ active' = Without(active, n) /\ inactive' = inactive \cup {n}
        /\ deleted' = deleted \ {n} /\ Register(n, mask[n])
    BY <1>4 DEF Inactive
  <2>2. reg[n] \in {{}, Wanted(mask[n])}
    BY <1>0, <1>1 DEF Settled
  <2>3. /\ reg'[n] = Wanted(mask[n]) /\ (k # n => reg'[k] = reg[k])
        /\ edge \subseteq edge'
    BY <2>1, <2>2, RegisterArms
  <2>4. CASE k = n
    BY <1>0, <1>1, <1>2, <1>3, <1>4, <2>1, <2>3, <2>4 DEF Settled, Live
  <2>5. CASE k # n
    <3>1. OnSomeList(k) => OnSomeList(k)'
      BY <1>0, <2>1, <2>5, WithoutKeeps DEF OnSomeList, Live, ListsTyped
    <3>2. k \in inactive /\ Pending(k)' => k \in edge'
      BY <1>0, <1>2, <2>3 DEF Settled
    <3> QED BY <1>0, <1>3, <2>1, <2>3, <2>5, <3>1, <3>2, Frame
  <2> QED BY <2>4, <2>5
<1>5. CASE (flags[n] \ bits) \cap mask[n] # {}
  <2>1. UNCHANGED <<active, inactive, deleted, reg, edge>>
    BY <1>5 DEF Inactive
  <2> QED BY <1>0, <1>1, <1>2, <1>3, <2>1 DEF Settled, Live
<1> QED BY <1>4, <1>5

LEMMA Undisturbed ==
  ASSUME AllSettled, UNCHANGED <<lists, io, edge>>, Quieter
  PROVE  AllSettled'
<1> SUFFICES ASSUME NEW k \in Ios PROVE Settled(k)'
  BY DEF AllSettled
<1>1. Pending(k)' => Pending(k)
  BY QuieterPending DEF io
<1> QED BY <1>1 DEF AllSettled, Settled, Live, lists, io

LEMMA SockQuiet == UNCHANGED sock => Quieter
BY DEF Quieter, sock

LEMMA RecvIsQuiet ==
  ASSUME SockTyped, cur \in Ios, rx[cur] > 0, Recv PROVE Quieter
BY DEF SockTyped, Recv, Quieter

LEMMA UnbornIsBlank ==
  ASSUME AllSettled, NEW n \in Ios, n \in Unborn
  PROVE  /\ mask[n] = {} /\ reg[n] = {}
         /\ n \notin inactive /\ n \notin deleted \cup closed
BY DEF AllSettled, Settled, Unborn, Listed, Live, Deleted

LEMMA AcceptSettles ==
  ASSUME ListsTyped, SockTyped, AllSettled, NEW n \in Ios, Accept(n),
         cur \in Ios \ inactive, cur \notin deleted \cup closed
  PROVE  AllSettled'
<1> SUFFICES ASSUME NEW k \in Ios PROVE Settled(k)'
  BY DEF AllSettled
<1> USE DEF ListsTyped
<1>0. Settled(k) /\ n \in Unborn /\ n # cur
  BY DEF AllSettled, Accept, Streams
<1>1. n \notin inactive /\ n \notin deleted \cup closed
  BY <1>0, UnbornIsBlank
<1>2. /\ mask' = [mask EXCEPT ![n] = {"READ"}, ![cur] = {"READ"}]
      /\ flags' = [flags EXCEPT ![n] = {"READ"}, ![cur] = {"READ"}]
      /\ Unregister({cur, n}) /\ UNCHANGED <<inactive, deleted, closed>>
  BY DEF Accept
<1>3. Elems(active') = Elems(Without(active, cur)) \cup {n} \cup {cur}
  <2>1. active' = Append(Append(Without(active, cur), n), cur)
    BY DEF Accept
  <2>2. Without(active, cur) \in Seq(Ios)
    BY WithoutType
  <2>3. /\ Append(Without(active, cur), n) \in Seq(Ios)
        /\ Elems(Append(Without(active, cur), n)) = Elems(Without(active, cur)) \cup {n}
    BY <2>2, AppendElems
  <2> QED BY <2>1, <2>3, AppendElems
<1>4. CASE k \in {n, cur}
  <2>1. mask'[k] = {"READ"} /\ reg'[k] = {} /\ k \in Elems(active')
    BY <1>2, <1>3, <1>4 DEF Unregister
  <2>2. k \notin inactive' /\ k \notin (deleted \cup closed)'
    BY <1>1, <1>2, <1>4
  <2> QED BY <2>1, <2>2 DEF Settled, OneWait, Live
<1>5. CASE k \notin {n, cur}
  <2>1. UNCHANGED <<mask[k], flags[k], reg[k]>> /\ (k \in edge => k \in edge')
    BY <1>2, <1>5 DEF Unregister
  <2>2. OnSomeList(k) => OnSomeList(k)'
    BY <1>2, <1>3, <1>5, WithoutKeeps DEF OnSomeList, Live
  <2>3. k \in inactive /\ Pending(k)' => k \in edge'
    <3>1. rx' = [rx EXCEPT ![cur] = @ - 1] /\ out' = [out EXCEPT ![n] = TRUE]
          /\ UNCHANGED peer
      BY DEF Accept
    <3>2. (rx'[k] > 0 => rx[k] > 0) /\ out'[k] = out[k] /\ peer'[k] = peer[k]
      BY <1>5, <3>1 DEF SockTyped
    <3>3. Pending(k)' => Pending(k)
      BY <2>1, <3>2 DEF Pending
    <3> QED BY <1>0, <2>1, <3>3 DEF Settled
  <2> QED BY <1>0, <1>2, <2>1, <2>2, <2>3, Frame
<1> QED BY <1>4, <1>5

LEMMA DropSettles ==
  ASSUME ListsTyped, AllSettled, cur \in Ios, DropOnError PROVE AllSettled'
<1> SUFFICES ASSUME NEW k \in Ios PROVE Settled(k)'
  BY DEF AllSettled
<1> USE DEF ListsTyped, DropOnError
<1>0. Settled(k) /\ Quieter
  BY SockQuiet DEF AllSettled
<1>1. CASE k = cur
  BY <1>1 DEF Settled, Deleted
<1>2. CASE k # cur
  <2>1. UNCHANGED <<mask[k], flags[k], reg[k]>> /\ edge' = edge
    BY <1>2
  <2>2. OnSomeList(k) => OnSomeList(k)'
    BY <1>2, WithoutKeeps DEF OnSomeList, Live
  <2>3. k \in inactive /\ Pending(k)' => k \in edge'
    BY <1>0, <2>1, QuieterPending DEF Settled
  <2> QED BY <1>0, <1>2, <2>1, <2>2, <2>3, Frame
<1> QED BY <1>1, <1>2

LEMMA ResendSettles ==
  ASSUME ListsTyped, AllSettled, ReadCloseSend, Quieter,
         cur \in Ios \ inactive, cur \notin deleted \cup closed
  PROVE  AllSettled'
<1> SUFFICES ASSUME NEW k \in Ios PROVE Settled(k)'
  BY DEF AllSettled
<1>0. Settled(k) /\ UNCHANGED <<deleted, closed>>
  BY DEF AllSettled, ReadCloseSend
<1>1. /\ active' = Without(active, cur) /\ inactive' = inactive \cup {cur}
      /\ mask' = [mask EXCEPT ![cur] = Deleted] /\ flags' = [flags EXCEPT ![cur] = {}]
      /\ reg' = [reg EXCEPT ![cur] = Wanted(Deleted)] /\ edge' = edge \ {cur}
  BY DEF ReadCloseSend
<1>2. CASE k = cur
  <2>1. mask'[k] = Deleted /\ flags'[k] = {} /\ reg'[k] = Wanted(Deleted) /\ k \in inactive'
    BY <1>1, <1>2 DEF ListsTyped
  <2>2. ~ Pending(k)'
    BY <2>1 DEF Pending, Deleted
  <2> QED BY <1>0, <1>2, <2>1, <2>2 DEF Settled, Live
<1>3. CASE k # cur
  <2>1. UNCHANGED <<mask[k], flags[k], reg[k]>> /\ (k \in edge => k \in edge')
    BY <1>1, <1>3 DEF ListsTyped
  <2>2. OnSomeList(k) => OnSomeList(k)'
    BY <1>0, <1>1, <1>3, WithoutKeeps DEF OnSomeList, Live, ListsTyped
  <2>3. k \in inactive /\ Pending(k)' => k \in edge'
    BY <1>0, <2>1, QuieterPending DEF Settled
  <2> QED BY <1>0, <1>1, <1>3, <2>1, <2>2, <2>3, Frame
<1> QED BY <1>2, <1>3

LEMMA ReapSettles ==
  ASSUME ListsTyped, AllSettled, Reap PROVE AllSettled'
<1> SUFFICES ASSUME NEW k \in Ios PROVE Settled(k)'
  BY DEF AllSettled
<1>0. Settled(k) /\ Quieter /\ UNCHANGED <<active, inactive, mask, flags>>
  BY SockQuiet DEF AllSettled, Reap
<1>1. closed' = closed \cup deleted /\ deleted' = {} /\ Unregister(deleted \ unheard)
  BY DEF Reap
<1>2. k \in inactive => k \notin deleted
  BY <1>0 DEF Settled, OneWait, Deleted
<1>3. /\ k \notin deleted => reg'[k] = reg[k] /\ (k \in edge => k \in edge')
      /\ reg'[k] \in {reg[k], {}}
  BY <1>1 DEF Unregister, ListsTyped
<1>4. Pending(k)' => Pending(k)
  BY <1>0, QuieterPending
<1> QED BY <1>0, <1>1, <1>2, <1>3, <1>4 DEF Settled, Live

(* Whatever a sleeping io has to do was asked for: had it been on the      *)
(* ready list, epoll_pump would have reported it.                          *)
LEMMA PumpSettles ==
  ASSUME ListsTyped, AllSettled, EpollPump PROVE AllSettled'
<1> SUFFICES ASSUME NEW k \in Ios PROVE Settled(k)'
  BY DEF AllSettled
<1>0. Settled(k) /\ UNCHANGED <<deleted, closed, mask, reg, sock>>
  BY DEF AllSettled, EpollPump
<1>1. inactive' = inactive \ Fired
      /\ flags' = [n \in Ios |-> IF n \in Fired THEN EventFlags(reg[n] \cap Events(n))
                                                ELSE flags[n]]
  BY DEF EpollPump
<1>2. OnSomeList(k) => OnSomeList(k)'
  <2>1. PICK s \in Orders(Fired) : active' = active \o s
    BY DEF EpollPump
  <2>2. s \in Seq(Ios) /\ Elems(s) = Fired
    <3>1. Fired \in SUBSET Ios
      BY DEF Fired, ListsTyped
    <3> QED BY <3>1, OrderType
  <2>3. k \in Elems(active) \cup Fired => k \in Elems(active')
    BY <2>1, <2>2, ConcatElems DEF ListsTyped
  <2> QED BY <1>0, <1>1, <2>3 DEF OnSomeList, Live
<1>3. Pending(k)' = Pending(k)
  BY <1>0 DEF Pending, sock
<1>4. k \in inactive' => ~ Pending(k) /\ flags'[k] = flags[k]
  <2> SUFFICES ASSUME k \in inactive, k \notin Fired PROVE ~ Pending(k) /\ flags'[k] = flags[k]
    BY <1>1
  <2>1. Pending(k) => Wanted(mask[k]) \cap Events(k) # {}
    BY DEF Pending, Wanted, Events
  <2> QED BY <1>0, <1>1, <2>1 DEF Settled, Fired
<1> QED BY <1>0, <1>1, <1>2, <1>3, <1>4 DEF Settled, OnSomeList

LEMMA ConnectSettles ==
  ASSUME ListsTyped, AllSettled, NEW n \in Ios, Connect(n) PROVE AllSettled'
<1>0. n \in Unborn /\ UNCHANGED sock /\ Quieter
  BY SockQuiet DEF Connect
<1>1. mask[n] = {} /\ reg[n] = {} /\ n \notin inactive /\ n \notin deleted \cup closed
  BY <1>0, UnbornIsBlank
<1>2. CASE out[n]
  BY <1>0, <1>1, <1>2, SetWaitSettles DEF Connect, OneWait
<1>3. CASE ~ out[n]
  <2> SUFFICES ASSUME NEW k \in Ios PROVE Settled(k)'
    BY DEF AllSettled
  <2>0. /\ mask' = [mask EXCEPT ![n] = {"WRITE"}] /\ flags' = [flags EXCEPT ![n] = {}]
        /\ inactive' = inactive \cup {n} /\ Register(n, {"WRITE"})
        /\ UNCHANGED <<active, deleted, closed>>
    BY <1>3 DEF Connect
  <2>1. /\ reg'[n] = Wanted({"WRITE"}) /\ \A j \in Ios \ {n} : reg'[j] = reg[j]
        /\ edge \subseteq edge'
        /\ Wanted({"WRITE"}) \cap Events(n) # {} => n \in edge'
    BY <1>1, <2>0, RegisterArms
  <2>2. CASE k = n
    <3>1. mask'[n] = {"WRITE"} /\ flags'[n] = {}
      BY <2>0 DEF ListsTyped
    <3>2. Pending(n)' => Wanted({"WRITE"}) \cap Events(n) # {}
      BY <1>0, <3>1 DEF Pending, Wanted, Events, sock
    <3> QED BY <1>1, <2>0, <2>1, <2>2, <3>1, <3>2 DEF Settled, OneWait, Live
  <2>3. CASE k # n
    <3>1. Settled(k) /\ UNCHANGED <<mask[k], flags[k], reg[k]>>
      BY <2>0, <2>1, <2>3 DEF AllSettled, ListsTyped
    <3>2. k \in inactive /\ Pending(k)' => k \in edge'
      BY <1>0, <2>1, <3>1, QuieterPending DEF Settled
    <3> QED BY <2>0, <2>3, <3>1, <3>2, Frame DEF OnSomeList, Live
  <2> QED BY <2>2, <2>3
<1> QED BY <1>2, <1>3

(* A change on a socket that a sleeping io asked about puts it on epoll's  *)
(* ready list; one it did not ask about gives it nothing to do.            *)
LEMMA KernelSettles ==
  ASSUME ListsTyped, AllSettled, Kernel PROVE AllSettled'
<1> SUFFICES ASSUME NEW k \in Ios PROVE Settled(k)'
  BY DEF AllSettled
<1>0. Settled(k)
  BY DEF AllSettled
<1>1. PICK n \in Ios : Arrive(n) \/ Connected(n) \/ ResetAgain(n)
                  \/ PeerEnds(n, "eof") \/ PeerEnds(n, "rst")
  BY DEF Kernel
<1>2. UNCHANGED <<lists, io>>
  BY <1>1 DEF Arrive, Connected, ResetAgain, PeerEnds
<1>3. edge \subseteq edge'
  BY <1>1 DEF Arrive, Connected, ResetAgain, PeerEnds, Signal
<1>4. k \in inactive /\ Pending(k)' => k \in edge'
  <2> SUFFICES ASSUME k \in inactive, Pending(k)', ~ Pending(k) PROVE k \in edge'
    BY <1>0, <1>3 DEF Settled
  <2>1. reg[k] = Wanted(mask[k]) /\ mask'[k] = mask[k]
    BY <1>0, <1>2 DEF Settled, io
  <2>2. CASE Arrive(n)
    <3>1. k = n /\ "READ" \in mask[k]
      BY <2>1, <2>2 DEF Arrive, Pending
    <3> QED BY <2>1, <2>2, <3>1 DEF Arrive, Signal, Wanted
  <2>3. CASE Connected(n)
    <3>1. k = n /\ "WRITE" \in mask[k]
      BY <2>1, <2>3 DEF Connected, Pending
    <3> QED BY <2>1, <2>3, <3>1 DEF Connected, Signal, Wanted
  <2>4. ASSUME NEW how \in {"eof", "rst"}, PeerEnds(n, how) PROVE k \in edge'
    <3>1. k = n /\ (how = "eof" => "READ" \in mask[k])
      BY <2>1, <2>4 DEF PeerEnds, Pending
    <3> QED BY <2>1, <2>4, <3>1 DEF PeerEnds, Signal, Wanted
  <2>5. CASE ResetAgain(n)
    BY <2>1, <2>5 DEF ResetAgain, Pending, sock
  <2> QED BY <1>1, <2>2, <2>3, <2>4, <2>5
<1> QED BY <1>0, <1>2, <1>4 DEF Settled, Live, lists, io

LEMMA SettledInit == Init => AllSettled
BY DEF Init, AllSettled, Settled

LEMMA SettledNext == Typed /\ AllSettled /\ [Next]_vars => AllSettled'
<1> SUFFICES ASSUME Typed, AllSettled, [Next]_vars PROVE AllSettled'
  OBVIOUS
<1>0. ListsTyped /\ SockTyped /\ ScanTyped
  BY DEF Typed
<1>1. CASE \/ StartFor \/ EndFor \/ SkipWrite \/ SkipRead \/ MainLoop
           \/ AcceptOom \/ Continue
  <2>1. UNCHANGED <<lists, io, edge, sock>>
    BY <1>1 DEF StartFor, EndFor, SkipWrite, SkipRead, MainLoop, AcceptOom, Continue
  <2> QED BY <2>1, SockQuiet, Undisturbed
<1>2. CASE WriteDone
  <2>1. Writing /\ SetWait(cur, {"READ"}) /\ Quieter
    BY <1>2, SockQuiet DEF WriteDone
  <2> QED BY <1>0, <2>1, RunningIsAwake, SetWaitSettles DEF OneWait
<1>3. CASE WriteFail \/ ReadEnd
  <2>1. (Writing \/ Reading) /\ Del(cur) /\ Quieter
    BY <1>3, SockQuiet DEF WriteFail, ReadEnd
  <2> QED BY <1>0, <2>1, RunningIsAwake, DelSettles
<1>4. CASE ReadSleep
  <2>1. /\ Reading /\ rx[cur] = 0 /\ peer[cur] = "open"
        /\ Inactive(cur, {"READ"}) /\ UNCHANGED sock
    BY <1>4 DEF ReadSleep
  <2>2. /\ cur \in Ios \ inactive /\ cur \notin deleted \cup closed
        /\ mask[cur] \in OneWait
    BY <1>0, <2>1, RunningIsAwake
  <2>3. mask[cur] = {"READ"} /\ flags[cur] \cap mask[cur] # {}
    BY <2>1, <2>2 DEF Reading, OneWait
  <2>4. ~ Pending(cur)
    BY <2>1, <2>3 DEF Pending
  <2> QED BY <1>0, <2>1, <2>2, <2>3, <2>4, InactiveSettles
<1>5. CASE ReadSome \/ AcceptFails
  <2>1. Reading /\ rx[cur] > 0 /\ Recv /\ UNCHANGED <<lists, io, edge>>
    BY <1>5 DEF ReadSome, AcceptFails
  <2> QED BY <1>0, <2>1, RunningIsAwake, RecvIsQuiet, Undisturbed
<1>6. ASSUME NEW n \in Ios, ReadClose(n) PROVE AllSettled'
  <2>1. Reading /\ rx[cur] > 0 /\ Recv /\ Del(n)
    BY <1>6 DEF ReadClose
  <2> QED BY <1>0, <2>1, RunningIsAwake, RecvIsQuiet, DelSettles
<1>7. ASSUME NEW n \in Ios, Accept(n) PROVE AllSettled'
  <2>1. Reading
    BY <1>7 DEF Accept
  <2> QED BY <1>0, <1>7, <2>1, RunningIsAwake, AcceptSettles
<1>15. CASE ReadCloseSend
  <2>1. Reading /\ rx[cur] > 0 /\ Recv
    BY <1>15 DEF ReadCloseSend
  <2> QED BY <1>0, <1>15, <2>1, RunningIsAwake, RecvIsQuiet, ResendSettles
<1>16. CASE AcceptRefused
  <2>1. Reading /\ rx[cur] > 0 /\ Recv /\ SetWait(cur, {"READ"})
    BY <1>16 DEF AcceptRefused
  <2> QED BY <1>0, <2>1, RunningIsAwake, RecvIsQuiet, SetWaitSettles DEF OneWait
<1>8. CASE DropOnError
  <2>1. cur \in Ios
    BY <1>0, <1>8, VisitingAnIo DEF DropOnError
  <2> QED BY <1>0, <1>8, <2>1, DropSettles
<1>9. CASE Reap
  BY <1>0, <1>9, ReapSettles
<1>10. CASE EpollPump
  BY <1>0, <1>10, PumpSettles
<1>11. ASSUME NEW n \in Ios, Connect(n) PROVE AllSettled'
  BY <1>0, <1>11, ConnectSettles
<1>12. ASSUME NEW n \in Ios, Listen(n) PROVE AllSettled'
  <2>1. n \in Unborn /\ SetWait(n, {"READ"}) /\ Quieter
    BY <1>12, SockQuiet DEF Listen
  <2> QED BY <1>0, <2>1, UnbornIsBlank, SetWaitSettles DEF OneWait
<1>13. CASE Kernel
  BY <1>0, <1>13, KernelSettles
<1>14. CASE UNCHANGED vars
  <2>1. UNCHANGED <<lists, io, edge, sock>>
    BY <1>14 DEF vars
  <2> QED BY <2>1, SockQuiet, Undisturbed
<1> QED BY <1>1, <1>2, <1>3, <1>4, <1>5, <1>6, <1>7, <1>8, <1>9, <1>10, <1>11,
           <1>12, <1>13, <1>14, <1>15, <1>16 DEF Next, Loop, Program

LEMMA SettledLosesNoWakeup == Typed /\ AllSettled => NoLostWakeup
BY DEF Typed, ListsTyped, AllSettled, Settled, NoLostWakeup

-----------------------------------------------------------------------------
(* The scan.  No io is on the active list twice; those on it have one of   *)
(* their events ready, or the mask of the deleted; what the scan saved in  *)
(* tmp is on the list, unless it has died, and is not the io that is being *)
(* visited; and the flags of that one are gone when it has died.           *)

Awake(n) ==
  n \in Elems(active) => \/ mask[n] = Deleted
                         \/ mask[n] \in OneWait /\ flags[n] \cap mask[n] # {}

AllAwake == IsInjective(active) /\ \A n \in Ios : Awake(n)

OnTrack(n) == n = ListHead \/ mask[n] = Deleted \/ n \in Elems(active)

InScan == pc \in {"visit", "read", "error"}

Tracked ==
  /\ pc = "visit" => OnTrack(cur)
  /\ InScan => OnTrack(tmp) /\ (tmp = cur => tmp = ListHead)
  /\ pc \in {"read", "error"} /\ mask[cur] = Deleted => flags[cur] = {}
  /\ pc = "wait" => active = <<>> /\ deleted = {}

(* What the calls of the nbio API do to these: the io they are made on     *)
(* apart, no io loses its place on the active list.                        *)
KeepsTrack(n) ==
  \A k \in Ios \ {n} : OnTrack(k) => OnTrack(k)'

LEMMA AwakeFrame ==
  ASSUME NEW k, Awake(k), UNCHANGED <<mask[k], flags[k]>>,
         k \in Elems(active') => k \in Elems(active)
  PROVE  Awake(k)'
BY DEF Awake

LEMMA DelAwake ==
  ASSUME ListsTyped, AllAwake, NEW n \in Ios, Del(n)
  PROVE  AllAwake' /\ KeepsTrack(n) /\ OnTrack(n)'
<1>1. /\ IsInjective(active') /\ n \notin Elems(active')
      /\ Elems(active') \subseteq Elems(active)
  BY WithoutDrops DEF Del, ListsTyped, AllAwake
<1>2. /\ mask'[n] = Deleted
      /\ \A k \in Ios \ {n} : UNCHANGED <<mask[k], flags[k]>>
  BY DEF Del, ListsTyped, Unregister
<1>3. ASSUME NEW k \in Ios PROVE Awake(k)'
  <2>1. CASE k = n
    BY <1>1, <1>2, <2>1 DEF Awake
  <2>2. CASE k # n
    BY <1>1, <1>2, <2>2, AwakeFrame DEF AllAwake
  <2> QED BY <2>1, <2>2
<1>4. KeepsTrack(n)
  BY <1>2, WithoutKeeps DEF KeepsTrack, OnTrack, Del, ListsTyped
<1> QED BY <1>1, <1>2, <1>3, <1>4 DEF AllAwake, OnTrack

LEMMA SetWaitAwake ==
  ASSUME ListsTyped, AllAwake, NEW n \in Ios,
         NEW w \in OneWait, SetWait(n, w)
  PROVE  AllAwake' /\ KeepsTrack(n) /\ OnTrack(n)'
<1>0. /\ Without(active, n) \in Seq(Ios) /\ IsInjective(Without(active, n))
      /\ n \notin Elems(Without(active, n))
      /\ Elems(Without(active, n)) \subseteq Elems(active)
  BY WithoutType, WithoutDrops DEF ListsTyped, AllAwake
<1>1. IsInjective(active') /\ Elems(active') = Elems(Without(active, n)) \cup {n}
  BY <1>0, AppendElems, AppendNoDup DEF SetWait
<1>2. /\ mask'[n] = w /\ flags'[n] = w /\ w # {}
      /\ \A k \in Ios \ {n} : UNCHANGED <<mask[k], flags[k]>>
  BY DEF SetWait, ListsTyped, Unregister, OneWait
<1>3. ASSUME NEW k \in Ios PROVE Awake(k)'
  <2>1. CASE k = n
    BY <1>2, <2>1 DEF Awake
  <2>2. CASE k # n
    BY <1>0, <1>1, <1>2, <2>2, AwakeFrame DEF AllAwake
  <2> QED BY <2>1, <2>2
<1>4. KeepsTrack(n)
  BY <1>1, <1>2, WithoutKeeps DEF KeepsTrack, OnTrack, ListsTyped
<1> QED BY <1>1, <1>3, <1>4 DEF AllAwake, OnTrack

LEMMA InactiveAwake ==
  ASSUME ListsTyped, AllAwake, NEW n \in Ios,
         NEW bits, Inactive(n, bits)
  PROVE  AllAwake' /\ KeepsTrack(n)
<1>1. /\ UNCHANGED mask /\ flags'[n] = flags[n] \ bits
      /\ \A k \in Ios \ {n} : flags'[k] = flags[k]
  BY DEF Inactive, ListsTyped
<1>2. CASE (flags[n] \ bits) \cap mask[n] = {}
  <2>1. active' = Without(active, n) /\ Register(n, mask[n])
    BY <1>2 DEF Inactive
  <2>2. /\ IsInjective(active') /\ n \notin Elems(active')
        /\ Elems(active') \subseteq Elems(active)
    BY <2>1, WithoutDrops DEF ListsTyped, AllAwake
  <2>4. ASSUME NEW k \in Ios PROVE Awake(k)'
    <3>1. CASE k = n
      BY <1>1, <2>2, <3>1 DEF Awake
    <3>2. CASE k # n
      BY <1>1, <2>2, <3>2, AwakeFrame DEF AllAwake
    <3> QED BY <3>1, <3>2
  <2>5. KeepsTrack(n)
    BY <1>1, <2>1, WithoutKeeps DEF KeepsTrack, OnTrack, ListsTyped
  <2> QED BY <2>2, <2>4, <2>5 DEF AllAwake
<1>3. CASE (flags[n] \ bits) \cap mask[n] # {}
  <2>1. UNCHANGED active
    BY <1>3 DEF Inactive
  <2> QED BY <1>1, <1>3, <2>1 DEF AllAwake, Awake, KeepsTrack, OnTrack
<1> QED BY <1>2, <1>3

LEMMA AcceptAwake ==
  ASSUME ListsTyped, AllSettled, AllAwake, NEW n \in Ios, Accept(n),
         cur \in Ios
  PROVE  AllAwake' /\ KeepsTrack(cur)
<1> USE DEF ListsTyped
<1>1. n \in Unborn /\ n # cur /\ n \notin Elems(active)
  BY DEF Accept, Streams, Unborn, Listed
<1>2. /\ mask' = [mask EXCEPT ![n] = {"READ"}, ![cur] = {"READ"}]
      /\ flags' = [flags EXCEPT ![n] = {"READ"}, ![cur] = {"READ"}]
  BY DEF Accept
<1> DEFINE s == Without(active, cur)
<1>3. /\ s \in Seq(Ios) /\ IsInjective(s) /\ cur \notin Elems(s)
      /\ Elems(s) \subseteq Elems(active)
  BY WithoutType, WithoutDrops DEF AllAwake
<1>4. active' = Append(Append(s, n), cur)
  BY DEF Accept
<1> HIDE DEF s
<1>5. /\ Append(s, n) \in Seq(Ios) /\ IsInjective(Append(s, n))
      /\ Elems(Append(s, n)) = Elems(s) \cup {n}
  BY <1>1, <1>3, AppendElems, AppendNoDup
<1>6. IsInjective(active') /\ Elems(active') = Elems(s) \cup {n} \cup {cur}
  <2>1. cur \notin Elems(Append(s, n))
    BY <1>1, <1>3, <1>5
  <2> QED BY <1>4, <1>5, <2>1, AppendElems, AppendNoDup
<1>7. ASSUME NEW k \in Ios PROVE Awake(k)'
  <2>1. CASE k \in {n, cur}
    BY <1>1, <1>2, <2>1 DEF Awake, OneWait
  <2>2. CASE k \notin {n, cur}
    <3>1. UNCHANGED <<mask[k], flags[k]>>
      BY <1>2, <2>2
    <3> QED BY <1>3, <1>6, <2>2, <3>1, AwakeFrame DEF AllAwake
  <2> QED BY <2>1, <2>2
<1>8. \A k \in Ios \ {cur} : k \in Elems(active) => k \in Elems(active')
  BY <1>6, WithoutKeeps DEF s
<1>9. \A k \in Ios \ {cur, n} : mask'[k] = mask[k]
  BY <1>2
<1> QED BY <1>6, <1>7, <1>8, <1>9 DEF AllAwake, KeepsTrack, OnTrack

LEMMA DropAwake ==
  ASSUME ListsTyped, AllAwake, cur \in Ios, DropOnError
  PROVE  AllAwake' /\ KeepsTrack(cur)
<1> USE DEF ListsTyped, DropOnError
<1>1. /\ IsInjective(active') /\ cur \notin Elems(active')
      /\ Elems(active') \subseteq Elems(active)
  BY WithoutDrops DEF AllAwake
<1>2. ASSUME NEW k \in Ios PROVE Awake(k)'
  <2>1. CASE k = cur
    BY <1>1, <2>1 DEF AllAwake, Awake
  <2>2. CASE k # cur
    BY <1>1, <2>2, AwakeFrame DEF AllAwake
  <2> QED BY <2>1, <2>2
<1>3. KeepsTrack(cur)
  BY WithoutKeeps DEF KeepsTrack, OnTrack
<1> QED BY <1>1, <1>2, <1>3 DEF AllAwake

LEMMA ReapAwake ==
  ASSUME ListsTyped, AllAwake, Reap PROVE AllAwake'
BY DEF Reap, AllAwake, Awake

(* Of the ios that are not gone epoll reports only those that sleep, and   *)
(* something each of them waits for.                                       *)
LEMMA FiredSleeps ==
  ASSUME ListsTyped, AllSettled, AllAwake, Tracked, pc = "wait",
         NEW n \in Fired, mask[n] # Deleted
  PROVE  /\ n \in inactive /\ mask[n] \in OneWait
         /\ EventFlags(reg[n] \cap Events(n)) \cap mask[n] # {}
<1>1. n \in Ios /\ reg[n] # {} /\ reg[n] \cap Events(n) # {}
  BY DEF Fired, ListsTyped
<1>2. Settled(n) /\ Awake(n)
  BY <1>1 DEF AllSettled, AllAwake
<1>3. n \notin Elems(active) /\ n \notin deleted /\ n \notin closed
  BY <1>1, <1>2 DEF Tracked, Settled, Elems
<1>4. n \in inactive
  BY <1>1, <1>2, <1>3 DEF Settled, Live
<1>5. mask[n] \in OneWait /\ reg[n] = Wanted(mask[n])
  BY <1>2, <1>4 DEF Settled
<1>6. CASE mask[n] = {"READ"}
  BY <1>1, <1>4, <1>5, <1>6 DEF Wanted, Events, EventFlags
<1>7. CASE mask[n] = {"WRITE"}
  BY <1>1, <1>4, <1>5, <1>7 DEF Wanted, Events, EventFlags
<1> QED BY <1>4, <1>5, <1>6, <1>7 DEF OneWait

LEMMA PumpAwake ==
  ASSUME ListsTyped, AllSettled, AllAwake, Tracked, EpollPump PROVE AllAwake'
<1>1. PICK s \in Orders(Fired) : active' = active \o s
  BY DEF EpollPump
<1>2. Fired \in SUBSET Ios /\ pc = "wait" /\ active = <<>>
  BY DEF Fired, ListsTyped, EpollPump, Tracked
<1>3. s \in Seq(Ios) /\ Elems(s) = Fired /\ IsInjective(s)
  BY <1>2, OrderType, OrderNoDup
<1>4. active' = s
  BY <1>1, <1>2, <1>3
<1>5. ASSUME NEW k \in Ios PROVE Awake(k)'
  <2>1. /\ UNCHANGED mask
        /\ k \in Fired => flags'[k] = EventFlags(reg[k] \cap Events(k))
    BY DEF EpollPump
  <2>2. k \in Fired /\ mask'[k] # Deleted =>
            mask'[k] \in OneWait /\ flags'[k] \cap mask'[k] # {}
    BY <1>2, <2>1, FiredSleeps
  <2> QED BY <1>3, <1>4, <2>1, <2>2 DEF AllAwake, Awake
<1> QED BY <1>3, <1>4, <1>5 DEF AllAwake

LEMMA ConnectAwake ==
  ASSUME ListsTyped, AllAwake, NEW n \in Ios, Connect(n) PROVE AllAwake'
<1>1. n \notin Elems(active)
  BY DEF Connect, Unborn, Listed
<1>2. CASE out[n]
  BY <1>1, <1>2, SetWaitAwake DEF Connect, OneWait
<1>3. CASE ~ out[n]
  <2>1. /\ mask' = [mask EXCEPT ![n] = {"WRITE"}] /\ flags' = [flags EXCEPT ![n] = {}]
        /\ UNCHANGED active
    BY <1>3 DEF Connect
  <2> QED BY <1>1, <2>1 DEF AllAwake, Awake, ListsTyped
<1> QED BY <1>2, <1>3

LEMMA ResendAwake ==
  ASSUME ListsTyped, AllAwake, cur \in Ios, ReadCloseSend
  PROVE  AllAwake' /\ KeepsTrack(cur)
<1>0. /\ active' = Without(active, cur) /\ mask' = [mask EXCEPT ![cur] = Deleted]
      /\ flags' = [flags EXCEPT ![cur] = {}]
  BY DEF ReadCloseSend
<1>1. /\ IsInjective(active') /\ cur \notin Elems(active')
      /\ Elems(active') \subseteq Elems(active)
  BY <1>0, WithoutDrops DEF ListsTyped, AllAwake
<1>2. ASSUME NEW k \in Ios PROVE Awake(k)'
  BY <1>0, <1>1 DEF AllAwake, Awake, ListsTyped
<1>3. KeepsTrack(cur)
  BY <1>0, WithoutKeeps DEF KeepsTrack, OnTrack, ListsTyped
<1> QED BY <1>1, <1>2, <1>3 DEF AllAwake

LEMMA AwakeUndisturbed ==
  ASSUME AllAwake, UNCHANGED <<lists, io>> PROVE AllAwake'
BY DEF AllAwake, Awake, lists, io

LEMMA AwakeNext == Typed /\ AllSettled /\ AllAwake /\ Tracked /\ [Next]_vars => AllAwake'
<1> SUFFICES ASSUME Typed, AllSettled, AllAwake, Tracked, [Next]_vars PROVE AllAwake'
  OBVIOUS
<1>0. ListsTyped /\ SockTyped /\ ScanTyped
  BY DEF Typed
<1>1. CASE \/ StartFor \/ EndFor \/ SkipWrite \/ SkipRead \/ MainLoop
           \/ AcceptOom \/ AcceptFails \/ Continue \/ ReadSome
  <2>1. UNCHANGED <<lists, io>>
    BY <1>1 DEF StartFor, EndFor, SkipWrite, SkipRead, MainLoop, AcceptOom, AcceptFails,
                Continue, ReadSome
  <2> QED BY <2>1, AwakeUndisturbed
<1>2. CASE WriteDone \/ AcceptRefused
  <2>1. (Writing \/ Reading) /\ SetWait(cur, {"READ"})
    BY <1>2 DEF WriteDone, AcceptRefused
  <2> QED BY <1>0, <2>1, RunningIsAwake, SetWaitAwake DEF OneWait
<1>3. CASE WriteFail \/ ReadEnd
  <2>1. (Writing \/ Reading) /\ Del(cur)
    BY <1>3 DEF WriteFail, ReadEnd
  <2> QED BY <1>0, <2>1, RunningIsAwake, DelAwake
<1>4. CASE ReadSleep
  <2>1. Reading /\ Inactive(cur, {"READ"})
    BY <1>4 DEF ReadSleep
  <2> QED BY <1>0, <2>1, RunningIsAwake, InactiveAwake
<1>5. ASSUME NEW n \in Ios, ReadClose(n) PROVE AllAwake'
  BY <1>0, <1>5, DelAwake DEF ReadClose
<1>6. ASSUME NEW n \in Ios, Accept(n) PROVE AllAwake'
  <2>1. Reading
    BY <1>6 DEF Accept
  <2> QED BY <1>0, <1>6, <2>1, RunningIsAwake, AcceptAwake
<1>14. CASE ReadCloseSend
  <2>1. Reading
    BY <1>14 DEF ReadCloseSend
  <2> QED BY <1>0, <1>14, <2>1, RunningIsAwake, ResendAwake
<1>7. CASE DropOnError
  <2>1. cur \in Ios
    BY <1>0, <1>7, VisitingAnIo DEF DropOnError
  <2> QED BY <1>0, <1>7, <2>1, DropAwake
<1>8. CASE Reap
  BY <1>0, <1>8, ReapAwake
<1>9. CASE EpollPump
  BY <1>0, <1>9, PumpAwake
<1>10. ASSUME NEW n \in Ios, Connect(n) PROVE AllAwake'
  BY <1>0, <1>10, ConnectAwake
<1>11. ASSUME NEW n \in Ios, Listen(n) PROVE AllAwake'
  <2>1. SetWait(n, {"READ"})
    BY <1>11 DEF Listen
  <2> QED BY <1>0, <2>1, SetWaitAwake DEF OneWait
<1>12. CASE Kernel
  <2>1. UNCHANGED <<lists, io>>
    BY <1>12 DEF Kernel, Arrive, Connected, ResetAgain, PeerEnds
  <2> QED BY <2>1, AwakeUndisturbed
<1>13. CASE UNCHANGED vars
  <2>1. UNCHANGED <<lists, io>>
    BY <1>13 DEF vars
  <2> QED BY <2>1, AwakeUndisturbed
<1> QED BY <1>1, <1>2, <1>3, <1>4, <1>5, <1>6, <1>7, <1>8, <1>9, <1>10, <1>11,
           <1>12, <1>13, <1>14 DEF Next, Loop, Program

(* While an io is visited nothing happens to the one that is saved in tmp, *)
(* short of its deletion.                                                  *)
LEMMA VisitTracked ==
  ASSUME ScanTyped, Tracked, InScan, pc' \in {"read", "error"}, UNCHANGED <<cur, tmp>>,
         KeepsTrack(cur), mask'[cur] = Deleted => flags'[cur] = {}
  PROVE  Tracked'
BY DEF ScanTyped, Tracked, InScan, KeepsTrack, OnTrack

LEMMA AdvanceTracked ==
  ASSUME ScanTyped, Tracked, pc = "error", Advance(active'),
         active' \in Seq(Ios), IsInjective(active'), KeepsTrack(cur)
  PROVE  Tracked'
<1>1. cur' = tmp /\ tmp' = NextOf(active', tmp) /\ pc' = "visit"
  BY DEF Advance
<1>2. OnTrack(cur)'
  BY <1>1 DEF ScanTyped, Tracked, InScan, KeepsTrack, OnTrack
<1>3. OnTrack(tmp)'
  BY <1>1, NextOfType DEF OnTrack
<1>4. tmp' = cur' => tmp' = ListHead
  BY <1>1, NextOfOther DEF ScanTyped
<1> QED BY <1>1, <1>2, <1>3, <1>4 DEF Tracked

LEMMA TrackedNext == Typed /\ AllSettled /\ AllAwake /\ Tracked /\ [Next]_vars => Tracked'
<1> SUFFICES ASSUME Typed, AllSettled, AllAwake, Tracked, [Next]_vars PROVE Tracked'
  OBVIOUS
<1>0. /\ ListsTyped /\ SockTyped /\ ScanTyped
      /\ ListsTyped' /\ AllAwake'
  BY TypedNext, AwakeNext DEF Typed
<1>1. CASE StartFor
  <2>1. /\ pc' = "visit" /\ cur' = active[1] /\ tmp' = NextOf(active, active[1])
        /\ UNCHANGED <<active, mask>>
    BY <1>1 DEF StartFor, lists, io
  <2>2. active[1] \in Elems(active) /\ active[1] \in Ios
    BY <1>0, <1>1 DEF StartFor, ListsTyped, Elems
  <2>3. /\ NextOf(active, active[1]) \in Elems(active) \cup {ListHead}
        /\ NextOf(active, active[1]) # active[1]
    BY <1>0, <2>2, NextOfType, NextOfOther DEF ListsTyped, AllAwake
  <2> QED BY <2>1, <2>2, <2>3 DEF Tracked, OnTrack
<1>2. CASE EndFor \/ MainLoop \/ EpollPump
  <2>1. pc' \notin {"visit", "read", "error", "wait"}
    BY <1>2 DEF EndFor, MainLoop, EpollPump, Goto
  <2> QED BY <2>1 DEF Tracked, InScan
<1>3. CASE SkipWrite \/ SkipRead \/ AcceptOom \/ AcceptFails \/ ReadSome
  <2>1. /\ InScan /\ pc' \in {"read", "error"} /\ UNCHANGED <<cur, tmp>>
        /\ UNCHANGED <<lists, io>>
    BY <1>3 DEF SkipWrite, SkipRead, AcceptOom, AcceptFails, ReadSome, Visiting, Reading,
                InScan, Goto
  <2>2. KeepsTrack(cur)
    BY <2>1 DEF KeepsTrack, OnTrack, lists, io
  <2>3. mask[cur] = Deleted => flags[cur] = {}
    BY <1>3 DEF SkipWrite, SkipRead, AcceptOom, AcceptFails, ReadSome, Visiting, Reading,
                Intact, Tracked
  <2> QED BY <1>0, <2>1, <2>2, <2>3, VisitTracked DEF io
<1>4. CASE WriteDone \/ AcceptRefused
  <2>1. /\ Writing \/ Reading
        /\ SetWait(cur, {"READ"})
        /\ InScan /\ pc' \in {"read", "error"} /\ UNCHANGED <<cur, tmp>>
    BY <1>4 DEF WriteDone, AcceptRefused, Writing, Visiting, Reading, InScan, Goto
  <2>2. KeepsTrack(cur) /\ cur \in Ios
    BY <1>0, <2>1, RunningIsAwake, SetWaitAwake DEF OneWait
  <2>3. mask'[cur] # Deleted
    BY <1>0, <2>1, <2>2 DEF SetWait, Deleted, ListsTyped
  <2> QED BY <1>0, <2>1, <2>2, <2>3, VisitTracked
<1>14. CASE ReadCloseSend
  <2>1. Reading /\ InScan /\ pc' = "error" /\ UNCHANGED <<cur, tmp>>
    BY <1>14 DEF ReadCloseSend, Reading, InScan, Goto
  <2>2. KeepsTrack(cur) /\ cur \in Ios
    BY <1>0, <1>14, <2>1, RunningIsAwake, ResendAwake
  <2>3. flags'[cur] = {}
    BY <1>0, <1>14, <2>2 DEF ReadCloseSend, ListsTyped
  <2> QED BY <1>0, <2>1, <2>2, <2>3, VisitTracked
<1>5. CASE WriteFail \/ ReadEnd
  <2>1. /\ Writing \/ Reading
        /\ Del(cur) /\ InScan /\ pc' \in {"read", "error"} /\ UNCHANGED <<cur, tmp>>
    BY <1>5 DEF WriteFail, ReadEnd, Writing, Visiting, Reading, InScan, Goto
  <2>2. KeepsTrack(cur) /\ cur \in Ios
    BY <1>0, <2>1, RunningIsAwake, DelAwake
  <2>3. flags'[cur] = {}
    BY <1>0, <2>1, <2>2 DEF Del, ListsTyped
  <2> QED BY <1>0, <2>1, <2>2, <2>3, VisitTracked
<1>6. CASE ReadSleep
  <2>1. /\ Reading /\ Inactive(cur, {"READ"})
        /\ InScan /\ pc' = "error" /\ UNCHANGED <<cur, tmp>>
    BY <1>6 DEF ReadSleep, Reading, InScan, Goto
  <2>2. KeepsTrack(cur) /\ mask[cur] # Deleted
    BY <1>0, <2>1, RunningIsAwake, InactiveAwake DEF OneWait, Deleted
  <2>3. mask'[cur] # Deleted
    BY <2>1, <2>2 DEF Inactive
  <2> QED BY <1>0, <2>1, <2>2, <2>3, VisitTracked
<1>7. ASSUME NEW n \in Ios, ReadClose(n) PROVE Tracked'
  <2>1. Reading /\ Del(n) /\ InScan /\ pc' = "error" /\ UNCHANGED <<cur, tmp>>
    BY <1>7 DEF ReadClose, Reading, InScan, Goto
  <2>2. KeepsTrack(n) /\ OnTrack(n)'
    BY <1>0, <2>1, DelAwake
  <2>3. KeepsTrack(cur)
    BY <2>2 DEF KeepsTrack
  <2>4. mask[cur] # Deleted /\ cur \in Ios
    BY <1>0, <2>1, RunningIsAwake DEF OneWait, Deleted
  <2>5. mask'[cur] = Deleted => flags'[cur] = {}
    BY <1>0, <2>1, <2>4 DEF Del, ListsTyped
  <2> QED BY <1>0, <2>1, <2>3, <2>5, VisitTracked
<1>8. ASSUME NEW n \in Ios, Accept(n) PROVE Tracked'
  <2>1. Reading /\ InScan /\ pc' = "error" /\ UNCHANGED <<cur, tmp>>
    BY <1>8 DEF Accept, Reading, InScan, Goto
  <2>2. KeepsTrack(cur) /\ cur \in Ios
    BY <1>0, <1>8, <2>1, RunningIsAwake, AcceptAwake
  <2>3. mask'[cur] # Deleted
    BY <1>0, <1>8, <2>2 DEF Accept, Deleted, ListsTyped
  <2> QED BY <1>0, <2>1, <2>2, <2>3, VisitTracked
<1>9. CASE Continue
  <2>1. pc = "error" /\ Advance(active') /\ UNCHANGED <<active, mask>>
    BY <1>9 DEF Continue, lists, io
  <2>2. KeepsTrack(cur)
    BY <2>1 DEF KeepsTrack, OnTrack
  <2> QED BY <1>0, <2>1, <2>2, AdvanceTracked DEF ListsTyped, AllAwake
<1>10. CASE DropOnError
  <2>1. pc = "error" /\ Advance(active') /\ cur \in Ios
    BY <1>0, <1>10, VisitingAnIo DEF DropOnError
  <2>2. KeepsTrack(cur)
    BY <1>0, <1>10, <2>1, DropAwake
  <2> QED BY <1>0, <2>1, <2>2, AdvanceTracked DEF ListsTyped, AllAwake
<1>11. CASE Reap
  <2>1. /\ pc' \in {"wait", "idle"} /\ active = <<>>
        /\ active' = active /\ deleted' = {}
    BY <1>11 DEF Reap, Goto
  <2> QED BY <2>1 DEF Tracked, InScan
<1>12. CASE Program
  <2>1. pc = "setup" /\ pc' = pc
    BY <1>12 DEF Program, Connect, Listen, scan
  <2> QED BY <2>1 DEF Tracked, InScan
<1>13. CASE Kernel \/ UNCHANGED vars
  <2>1. UNCHANGED <<scan, lists, io>>
    BY <1>13 DEF Kernel, Arrive, Connected, ResetAgain, PeerEnds, vars
  <2> QED BY <2>1 DEF Tracked, InScan, OnTrack, scan, lists, io
<1> QED BY <1>1, <1>2, <1>3, <1>4, <1>5, <1>6, <1>7, <1>8, <1>9, <1>10, <1>11,
           <1>12, <1>13, <1>14 DEF Next, Loop

-----------------------------------------------------------------------------
(* The deleted that are seen again.  An io that is gone, and that is on a   *)
(* list of the living or in the epoll set, is there because the loop        *)
(* dropped it, or because a send put it to sleep when it was deleted.       *)

Exiled(n) ==
  mask[n] = Deleted /\ (reg[n] # {} \/ n \in Live) => n \in unheard \cup resent

AllExiled == \A n \in Ios : Exiled(n)

IInv == Typed /\ AllSettled /\ AllAwake /\ Tracked /\ AllExiled

LEMMA WithoutElems ==
  ASSUME Typed, AllAwake, NEW n PROVE Elems(Without(active, n)) = Elems(active) \ {n}
<1>1. active \in Seq(Ios) /\ IsInjective(active)
  BY DEF Typed, ListsTyped, AllAwake
<1>2. n \notin Elems(Without(active, n)) /\ Elems(Without(active, n)) \subseteq Elems(active)
  BY <1>1, WithoutDrops
<1>3. \A k \in Elems(active) : k # n => k \in Elems(Without(active, n))
  BY <1>1, WithoutKeeps
<1> QED BY <1>2, <1>3

(* What accept and epoll_wait leave on the active list.                    *)
LEMMA AcceptOrder ==
  ASSUME ListsTyped, NEW n \in Ios, Accept(n), cur \in Ios
  PROVE  Elems(active') = Elems(Without(active, cur)) \cup {n, cur}
<1>1. active' = Append(Append(Without(active, cur), n), cur)
  BY DEF Accept
<1>2. Without(active, cur) \in Seq(Ios)
  BY WithoutType DEF ListsTyped
<1>3. /\ Append(Without(active, cur), n) \in Seq(Ios)
      /\ Elems(Append(Without(active, cur), n)) = Elems(Without(active, cur)) \cup {n}
  BY <1>2, AppendElems
<1>4. Elems(Append(Append(Without(active, cur), n), cur))
        = Elems(Append(Without(active, cur), n)) \cup {cur}
  BY <1>3, AppendElems
<1> QED BY <1>1, <1>3, <1>4

LEMMA PumpOrder ==
  ASSUME Typed, Tracked, EpollPump
  PROVE  active' \in Seq(Ios) /\ Elems(active') = Fired /\ active = <<>>
<1>1. PICK s \in Orders(Fired) : active' = active \o s
  BY DEF EpollPump
<1>2. Fired \in SUBSET Ios /\ active = <<>>
  BY DEF Typed, Fired, ListsTyped, EpollPump, Tracked
<1>3. s \in Seq(Ios) /\ Elems(s) = Fired
  BY <1>2, OrderType
<1> QED BY <1>1, <1>2, <1>3

(* A step of the API on the io n: it deletes n, or leaves it alive.         *)
LEMMA ExiledFrame ==
  ASSUME AllExiled, NEW n,
         unheard \subseteq unheard', resent \subseteq resent',
         \A k \in Ios \ {n} : /\ mask'[k] = Deleted => mask[k] = Deleted
                              /\ reg'[k] # {} => reg[k] # {}
                              /\ k \in Live' => k \in Live,
         n \in Ios => Exiled(n)'
  PROVE  AllExiled'
<1> SUFFICES ASSUME NEW k \in Ios PROVE Exiled(k)'
  BY DEF AllExiled
<1>1. CASE k = n
  BY <1>1
<1>2. CASE k # n
  BY <1>2 DEF AllExiled, Exiled
<1> QED BY <1>1, <1>2

LEMMA DelExiled ==
  ASSUME Typed, AllAwake, AllExiled, NEW n \in Ios, Del(n), UNCHANGED hist
  PROVE  AllExiled'
<1>0. ListsTyped
  BY DEF Typed
<1>1. /\ Elems(active') = Elems(active) \ {n} /\ inactive' = inactive \ {n}
  BY WithoutElems DEF Del
<1>2. reg'[n] = {} /\ n \notin Live'
  BY <1>0, <1>1 DEF Del, Unregister, ListsTyped, Live
<1>3. \A k \in Ios \ {n} : /\ mask'[k] = mask[k] /\ reg'[k] = reg[k]
                           /\ k \in Live' => k \in Live
  BY <1>0, <1>1 DEF Del, Unregister, ListsTyped, Live
<1>4. Exiled(n)'
  BY <1>2 DEF Exiled
<1> QED BY <1>3, <1>4, ExiledFrame DEF hist

LEMMA SetWaitExiled ==
  ASSUME Typed, AllAwake, AllExiled, NEW n \in Ios, NEW w \in OneWait, SetWait(n, w),
         UNCHANGED hist
  PROVE  AllExiled'
<1>0. ListsTyped /\ Without(active, n) \in Seq(Ios)
  BY WithoutType DEF Typed, ListsTyped
<1>1. /\ Elems(active') = Elems(active) \cup {n} /\ inactive' = inactive \ {n}
  BY <1>0, WithoutElems, AppendElems DEF SetWait
<1>2. mask'[n] # Deleted
  BY <1>0 DEF SetWait, ListsTyped, OneWait, Deleted
<1>3. \A k \in Ios \ {n} : /\ mask'[k] = mask[k] /\ reg'[k] = reg[k]
                           /\ k \in Live' => k \in Live
  BY <1>0, <1>1 DEF SetWait, Unregister, ListsTyped, Live
<1>4. Exiled(n)'
  BY <1>2 DEF Exiled
<1> QED BY <1>3, <1>4, ExiledFrame DEF hist

LEMMA SleepExiled ==
  ASSUME Typed, AllSettled, AllAwake, AllExiled, ReadSleep PROVE AllExiled'
<1>0. ListsTyped /\ Reading /\ Inactive(cur, {"READ"}) /\ UNCHANGED hist
  BY DEF Typed, ReadSleep
<1>1. PICK n \in Ios : n = cur /\ mask[n] \in OneWait
  BY <1>0, RunningIsAwake DEF Typed
<1>2. Exiled(n)'
  BY <1>0, <1>1 DEF Inactive, Exiled, OneWait, Deleted
<1>3. \A k \in Ios \ {n} : reg'[k] = reg[k] /\ mask'[k] = mask[k]
  BY <1>0, <1>1 DEF Inactive, Register, ListsTyped
<1>4. \A k \in Ios \ {n} : k \in Live' => k \in Live
  BY <1>0, <1>1, WithoutElems DEF Inactive, Live
<1> QED BY <1>0, <1>2, <1>3, <1>4, ExiledFrame DEF hist

LEMMA AcceptExiled ==
  ASSUME Typed, AllSettled, AllAwake, AllExiled, NEW n \in Ios, Accept(n) PROVE AllExiled'
<1>0. /\ ListsTyped /\ Reading /\ UNCHANGED hist
      /\ mask' = [mask EXCEPT ![n] = {"READ"}, ![cur] = {"READ"}]
      /\ Unregister({cur, n}) /\ UNCHANGED inactive
  BY DEF Typed, Accept
<1>1. PICK c \in Ios : c = cur
  BY <1>0, RunningIsAwake DEF Typed
<1>2. Elems(active') = Elems(active) \cup {n, c}
  BY <1>0, <1>1, AcceptOrder, WithoutElems
<1>3. Exiled(c)' /\ Exiled(n)'
  BY <1>0, <1>1 DEF Exiled, Deleted, ListsTyped
<1>4. ASSUME NEW k \in Ios, k \notin {n, c} PROVE Exiled(k)'
  <2>1. /\ mask'[k] = mask[k] /\ reg'[k] = reg[k] /\ (k \in Live' <=> k \in Live)
    BY <1>0, <1>1, <1>2, <1>4 DEF Unregister, ListsTyped, Live
  <2> QED BY <1>0, <2>1 DEF AllExiled, Exiled, hist
<1> QED BY <1>3, <1>4 DEF AllExiled

LEMMA DropExiled ==
  ASSUME Typed, AllAwake, AllExiled, DropOnError PROVE AllExiled'
<1>0. ListsTyped /\ unheard' = unheard \cup {cur} /\ UNCHANGED <<reg, resent>>
  BY DEF Typed, DropOnError
<1>1. PICK n : n = cur
  OBVIOUS
<1>2. Exiled(n)'
  BY <1>0, <1>1 DEF Exiled
<1>3. \A k \in Ios \ {n} : mask'[k] = mask[k] /\ (k \in Live' => k \in Live)
  BY <1>0, <1>1, WithoutElems DEF DropOnError, ListsTyped, Live
<1> QED BY <1>0, <1>2, <1>3, ExiledFrame

LEMMA ResendExiled ==
  ASSUME Typed, AllAwake, AllExiled, ReadCloseSend PROVE AllExiled'
<1>0. ListsTyped /\ resent' = resent \cup {cur} /\ UNCHANGED unheard
  BY DEF Typed, ReadCloseSend
<1>1. PICK n : n = cur
  OBVIOUS
<1>2. Exiled(n)'
  BY <1>0, <1>1 DEF Exiled
<1>3. ASSUME NEW k \in Ios, k # n PROVE Exiled(k)'
  <2>1. mask'[k] = mask[k] /\ reg'[k] = reg[k] /\ (k \in Live' => k \in Live)
    BY <1>0, <1>1, <1>3, WithoutElems DEF ReadCloseSend, ListsTyped, Live
  <2> QED BY <1>0, <2>1 DEF AllExiled, Exiled
<1> QED BY <1>2, <1>3 DEF AllExiled

LEMMA PumpExiled ==
  ASSUME Typed, Tracked, AllExiled, EpollPump PROVE AllExiled'
<1> SUFFICES ASSUME NEW k \in Ios PROVE Exiled(k)'
  BY DEF AllExiled
<1>1. Exiled(k) /\ UNCHANGED <<mask, reg, unheard, resent>> /\ inactive' = inactive \ Fired
  BY DEF AllExiled, EpollPump, hist
<1>2. k \in Live' => k \in Live \/ reg[k] # {}
  BY <1>1, PumpOrder DEF Live, Fired
<1> QED BY <1>1, <1>2 DEF Exiled

LEMMA ConnectExiled ==
  ASSUME Typed, AllAwake, AllExiled, NEW n \in Ios, Connect(n) PROVE AllExiled'
<1>1. CASE out[n]
  BY <1>1, SetWaitExiled DEF Connect, OneWait
<1>2. CASE ~ out[n]
  <2>1. /\ mask' = [mask EXCEPT ![n] = {"WRITE"}] /\ inactive' = inactive \cup {n}
        /\ Register(n, {"WRITE"}) /\ UNCHANGED <<active, hist>>
    BY <1>2 DEF Connect
  <2>2. Exiled(n)'
    BY <2>1 DEF Exiled, Deleted, Typed, ListsTyped
  <2>3. \A k \in Ios \ {n} : /\ mask'[k] = mask[k] /\ reg'[k] = reg[k]
                             /\ k \in Live' => k \in Live
    BY <2>1 DEF Register, Typed, ListsTyped, Live
  <2> QED BY <2>1, <2>2, <2>3, ExiledFrame DEF hist
<1> QED BY <1>1, <1>2

LEMMA ExiledNext ==
  Typed /\ AllSettled /\ AllAwake /\ Tracked /\ AllExiled /\ [Next]_vars => AllExiled'
<1> SUFFICES ASSUME Typed, AllSettled, AllAwake, Tracked, AllExiled, [Next]_vars
             PROVE  AllExiled'
  OBVIOUS
<1>0. ListsTyped /\ ScanTyped
  BY DEF Typed
<1>1. CASE \/ StartFor \/ EndFor \/ SkipWrite \/ SkipRead \/ MainLoop
           \/ AcceptOom \/ AcceptFails \/ Continue \/ ReadSome
           \/ Kernel \/ UNCHANGED vars
  <2>1. UNCHANGED <<lists, io, hist>>
    BY <1>1 DEF StartFor, EndFor, SkipWrite, SkipRead, MainLoop, AcceptOom, AcceptFails,
                Continue, ReadSome, Kernel, Arrive, Connected, ResetAgain, PeerEnds, vars
  <2> QED BY <2>1 DEF AllExiled, Exiled, Live, lists, io, hist
<1>2. CASE WriteDone \/ AcceptRefused
  <2>1. (Writing \/ Reading) /\ SetWait(cur, {"READ"}) /\ UNCHANGED hist
    BY <1>2 DEF WriteDone, AcceptRefused
  <2> QED BY <1>0, <2>1, RunningIsAwake, SetWaitExiled DEF OneWait
<1>3. CASE WriteFail \/ ReadEnd
  <2>1. (Writing \/ Reading) /\ Del(cur) /\ UNCHANGED hist
    BY <1>3 DEF WriteFail, ReadEnd
  <2> QED BY <1>0, <2>1, RunningIsAwake, DelExiled
<1>4. ASSUME NEW n \in Ios, ReadClose(n) PROVE AllExiled'
  BY <1>4, DelExiled DEF ReadClose
<1>5. ASSUME NEW n \in Ios, Listen(n) PROVE AllExiled'
  BY <1>5, SetWaitExiled DEF Listen, OneWait
<1>6. CASE Reap
  <2>1. /\ UNCHANGED <<active, inactive, mask, hist>>
        /\ \A k \in Ios : reg'[k] \in {reg[k], {}}
    BY <1>6 DEF Reap, Unregister
  <2> QED BY <2>1 DEF AllExiled, Exiled, Live, hist
<1> QED BY <1>1, <1>2, <1>3, <1>4, <1>5, <1>6, SleepExiled, AcceptExiled, DropExiled,
           ResendExiled, PumpExiled, ConnectExiled DEF Next, Loop, Program

LEMMA IInvInit == Init => IInv
<1>1. Init => AllAwake /\ Tracked
  BY DEF Init, AllAwake, Awake, Tracked, InScan, IsInjective, Elems
<1>2. Init => AllExiled
  BY DEF Init, AllExiled, Exiled, Deleted
<1> QED BY <1>1, <1>2, TypedInit, SettledInit DEF IInv

LEMMA IInvNext == IInv /\ [Next]_vars => IInv'
BY TypedNext, SettledNext, AwakeNext, TrackedNext, ExiledNext DEF IInv

(* An io that sleeps is registered for what it waits for, and whatever came *)
(* in for it is on epoll's ready list: with up to the 8 ios that one call   *)
(* of epoll_wait reports, and with the kernel, the peers and the handlers   *)
(* of other ios interleaved in any way.                                     *)
THEOREM NoWakeupLost == Spec => []NoLostWakeup
<1>1. IInv => NoLostWakeup
  BY SettledLosesNoWakeup DEF IInv
<1> QED BY <1>1, IInvInit, IInvNext, PTL DEF Spec

LEMMA IInvScanSafe == IInv => ScanSafe
<1> SUFFICES ASSUME IInv, pc = "visit", Intact(cur)
             PROVE  cur \in Elems(active) /\ MayRun(cur)
  BY DEF ScanSafe
<1>1. cur \in Elems(active) /\ cur \in Ios /\ mask[cur] # Deleted
  BY DEF IInv, Typed, ScanTyped, Tracked, OnTrack, Intact
<1> QED BY <1>1 DEF IInv, AllAwake, Awake, MayRun

(* The assertion of nbio_pump never fails and no io that was deleted is run: *)
(* for up to 8 ios, whichever of them a handler deletes, sleeps, requeues or *)
(* adds while the scan is on its way over the list, and whichever of the     *)
(* deleted epoll has put back on it.                                         *)
THEOREM ScanIsSafe == Spec => []ScanSafe
BY IInvInit, IInvNext, IInvScanSafe, PTL DEF Spec

-----------------------------------------------------------------------------
(* The deleted.                                                            *)

LEMMA GoneIs == IInv => Gone = {n \in Ios : mask[n] = Deleted}
BY DEF IInv, Typed, ListsTyped, AllSettled, Settled, Gone

(* What was deleted stays so: the handlers change the mask of the io they   *)
(* run for, which is not deleted, and of ios that are yet to be.            *)
LEMMA MaskStays ==
  ASSUME IInv, [Next]_vars, NEW k \in Ios, mask[k] = Deleted
  PROVE  mask'[k] = Deleted
<1>0. ListsTyped /\ ScanTyped /\ AllSettled
  BY DEF IInv, Typed
<1>1. Writing \/ Reading => k # cur
  BY <1>0, RunningIsAwake DEF OneWait, Deleted
<1>2. \A n \in Unborn : k # n
  BY UnbornIsBlank DEF IInv, Unborn, Deleted
<1>3. CASE \/ StartFor \/ EndFor \/ SkipWrite \/ SkipRead \/ MainLoop
           \/ AcceptOom \/ AcceptFails \/ Continue \/ ReadSome
           \/ Reap \/ EpollPump \/ Kernel \/ UNCHANGED vars
  BY <1>3 DEF StartFor, EndFor, SkipWrite, SkipRead, MainLoop, AcceptOom, AcceptFails,
              Continue, ReadSome, Reap, EpollPump, Kernel, Arrive, Connected, ResetAgain,
              PeerEnds, vars, io
<1>4. CASE WriteDone \/ AcceptRefused \/ WriteFail \/ ReadEnd \/ ReadCloseSend \/ ReadSleep
  BY <1>0, <1>1, <1>4 DEF WriteDone, AcceptRefused, WriteFail, ReadEnd, ReadCloseSend,
              ReadSleep, SetWait, Del, Inactive, ListsTyped
<1>5. CASE DropOnError
  BY <1>0, <1>5 DEF DropOnError, ListsTyped
<1>6. ASSUME NEW n \in Ios, ReadClose(n) \/ Accept(n)
      PROVE  mask'[k] = Deleted
  BY <1>0, <1>1, <1>2, <1>6 DEF ReadClose, Accept, Del, ListsTyped
<1>7. ASSUME NEW n \in Ios, Connect(n) \/ Listen(n)
      PROVE  mask'[k] = Deleted
  BY <1>0, <1>2, <1>7 DEF Connect, Listen, SetWait, ListsTyped
<1> QED BY <1>3, <1>4, <1>5, <1>6, <1>7 DEF Next, Loop, Program

LEMMA ClosedStay == [Next]_vars => closed \subseteq closed'
<1> SUFFICES ASSUME [Next]_vars PROVE closed \subseteq closed'
  OBVIOUS
<1>1. CASE \/ StartFor \/ EndFor \/ SkipWrite \/ SkipRead \/ MainLoop
           \/ AcceptOom \/ AcceptFails \/ Continue \/ ReadSome
           \/ Kernel \/ UNCHANGED vars
  BY <1>1 DEF StartFor, EndFor, SkipWrite, SkipRead, MainLoop, AcceptOom, AcceptFails,
              Continue, ReadSome, Kernel, Arrive, Connected, ResetAgain, PeerEnds,
              vars, lists
<1>2. CASE \/ WriteDone \/ AcceptRefused \/ WriteFail \/ ReadEnd \/ ReadCloseSend
           \/ ReadSleep \/ DropOnError \/ Reap \/ EpollPump
  BY <1>2 DEF WriteDone, AcceptRefused, WriteFail, ReadEnd, ReadCloseSend, ReadSleep,
              DropOnError, Reap, EpollPump, SetWait, Del, Inactive
<1>3. ASSUME NEW n \in Ios, ReadClose(n) \/ Accept(n) \/ Connect(n) \/ Listen(n)
      PROVE  closed \subseteq closed'
  BY <1>3 DEF ReadClose, Accept, Connect, Listen, SetWait, Del
<1> QED BY <1>1, <1>2, <1>3 DEF Next, Loop, Program

(* An io that is gone stays gone, and its dtor's having run stays so.  On   *)
(* the lists of the living, the list that epoll_pump makes included, there  *)
(* are of those that are gone only the dropped and those that a send put    *)
(* to sleep: with up to 8 ios, under any interleaving.                      *)
THEOREM TheDeadStayDead == Spec => DeadStaysDead
<1> DEFINE Step == /\ Gone \subseteq Gone' /\ closed \subseteq closed'
                   /\ Gone \cap (Elems(active') \cup inactive') \subseteq unheard' \cup resent'
<1>1. IInv /\ IInv' /\ [Next]_vars => [Step]_vars
  <2> SUFFICES ASSUME IInv, IInv', [Next]_vars PROVE Step
    OBVIOUS
  <2>1. Gone = {n \in Ios : mask[n] = Deleted}
    BY GoneIs
  <2>2. (Gone = {n \in Ios : mask[n] = Deleted})'
    BY GoneIs, PTL
  <2>3. \A n \in Ios : n \in Gone => mask'[n] = Deleted
    BY <2>1, MaskStays
  <2>4. Gone \subseteq Gone'
    BY <2>1, <2>2, <2>3
  <2>5. \A n \in Ios : Exiled(n)'
    BY DEF IInv, AllExiled
  <2>6. Gone \cap (Elems(active') \cup inactive') \subseteq unheard' \cup resent'
    BY <2>1, <2>3, <2>5 DEF Exiled, Live
  <2> QED BY <2>4, <2>6, ClosedStay
<1> QED BY <1>1, IInvInit, IInvNext, PTL DEF Spec, DeadStaysDead

-----------------------------------------------------------------------------
(* The refinement of EventLoop.  It needs that every io is at one stage of *)
(* life at a time: IInv has that, but for the dead being dead only once,   *)
(* for an io having flags only while it is on a list, and for the socket   *)
(* of an io that is yet to be being as socket() made it.                   *)

Placed(n) ==
  /\ n \notin Live => flags[n] = {}
  /\ n \in closed => n \notin deleted
  /\ n \in Unborn => peer[n] = "open"

AllPlaced == \A n \in Ios : Placed(n)

PInv == IInv /\ AllPlaced

LEMMA OneStage ==
  ASSUME IInv, NEW n \in Ios, mask[n] # Deleted
  PROVE  /\ n \notin deleted /\ n \notin closed
         /\ n \in inactive => n \notin Elems(active)
<1>1. Settled(n) /\ Awake(n)
  BY DEF IInv, AllSettled, AllAwake
<1> QED BY <1>1 DEF Settled, Awake

(* The io whose handler runs is on the active list.                        *)
LEMMA RunningIsActive ==
  ASSUME PInv, Writing \/ Reading
  PROVE  /\ cur \in Ios /\ cur \in Elems(active) /\ cur \notin inactive
         /\ cur \notin deleted \cup closed /\ mask[cur] \in OneWait /\ mask[cur] # Deleted
<1>1. ScanTyped /\ AllSettled /\ AllPlaced
  BY DEF PInv, IInv, Typed
<1>2. /\ cur \in Ios \ inactive /\ cur \notin deleted \cup closed /\ mask[cur] \in OneWait
  BY <1>1, RunningIsAwake
<1>3. flags[cur] # {}
  BY DEF Writing, Reading
<1> QED BY <1>1, <1>2, <1>3 DEF AllPlaced, Placed, Live, OneWait, Deleted

(* An io that has the error flag when its handlers are done is one that    *)
(* they did not delete.                                                    *)
LEMMA DroppedIsLive ==
  ASSUME PInv, DropOnError
  PROVE  cur \in Ios /\ cur \in Live /\ cur \notin deleted \cup closed /\ mask[cur] # Deleted
<1>1. cur \in Ios
  BY VisitingAnIo DEF PInv, IInv, Typed, DropOnError
<1>2. flags[cur] # {} /\ pc = "error"
  BY DEF DropOnError
<1>3. mask[cur] # Deleted
  BY <1>2 DEF PInv, IInv, Tracked
<1>4. cur \in Live
  BY <1>1, <1>2 DEF PInv, AllPlaced, Placed
<1> QED BY <1>1, <1>3, <1>4, OneStage DEF PInv

LEMMA PlacedFrame ==
  ASSUME NEW k, Placed(k), flags'[k] = flags[k],
         k \in Live => k \in Live',
         k \in closed' => k \in closed, k \in deleted' => k \in deleted,
         k \in Unborn' => k \in Unborn /\ peer'[k] = peer[k]
  PROVE  Placed(k)'
BY DEF Placed

LEMMA DelPlaced ==
  ASSUME PInv, NEW n \in Ios, n \notin closed, Del(n), UNCHANGED peer
  PROVE  AllPlaced'
<1> SUFFICES ASSUME NEW k \in Ios PROVE Placed(k)'
  BY DEF AllPlaced
<1>0. ListsTyped /\ Placed(k)
  BY DEF PInv, IInv, Typed, AllPlaced
<1>1. CASE k = n
  BY <1>0, <1>1 DEF Del, ListsTyped, Placed, Unborn, Listed
<1>2. CASE k # n
  <2>1. k \in Elems(active) => k \in Elems(active')
    BY <1>0, <1>2, WithoutKeeps DEF Del, ListsTyped
  <2>2. k \in Live => k \in Live'
    BY <1>2, <2>1 DEF Del, Live
  <2>3. flags'[k] = flags[k] /\ (k \in deleted' <=> k \in deleted) /\ closed' = closed
    BY <1>0, <1>2 DEF Del, ListsTyped
  <2>4. k \in Unborn' => k \in Unborn
    BY <2>2, <2>3 DEF Unborn, Listed, Live
  <2> QED BY <1>0, <2>2, <2>3, <2>4, PlacedFrame
<1> QED BY <1>1, <1>2

LEMMA SetWaitPlaced ==
  ASSUME PInv, NEW n \in Ios, n \notin closed, NEW w \in OneWait,
         SetWait(n, w), UNCHANGED peer
  PROVE  AllPlaced'
<1> SUFFICES ASSUME NEW k \in Ios PROVE Placed(k)'
  BY DEF AllPlaced
<1>0. ListsTyped /\ Placed(k)
  BY DEF PInv, IInv, Typed, AllPlaced
<1>1. Without(active, n) \in Seq(Ios) /\ Elems(active') = Elems(Without(active, n)) \cup {n}
  BY <1>0, WithoutType, AppendElems DEF SetWait, ListsTyped
<1>2. CASE k = n
  BY <1>1, <1>2 DEF SetWait, Placed, Unborn, Listed, Live
<1>3. CASE k # n
  <2>1. k \in Elems(active) => k \in Elems(active')
    BY <1>0, <1>1, <1>3, WithoutKeeps DEF ListsTyped
  <2>2. k \in Live => k \in Live'
    BY <1>3, <2>1 DEF SetWait, Live
  <2>3. flags'[k] = flags[k] /\ UNCHANGED <<deleted, closed>>
    BY <1>0, <1>3 DEF SetWait, ListsTyped
  <2>4. k \in Unborn' => k \in Unborn
    BY <2>2, <2>3 DEF Unborn, Listed, Live
  <2> QED BY <1>0, <2>2, <2>3, <2>4, PlacedFrame
<1> QED BY <1>2, <1>3

LEMMA PlacedUndisturbed ==
  ASSUME AllPlaced, UNCHANGED <<lists, io>>,
         \A k \in Ios : k \in Unborn => peer'[k] = peer[k]
  PROVE  AllPlaced'
BY DEF AllPlaced, Placed, Unborn, Listed, Live, lists, io

LEMMA SleepPlaced == PInv /\ ReadSleep => AllPlaced'
<1> SUFFICES ASSUME PInv, ReadSleep, NEW k \in Ios PROVE Placed(k)'
  BY DEF AllPlaced
<1>0. ListsTyped /\ Placed(k)
  BY DEF PInv, IInv, Typed, AllPlaced
<1>1. Reading /\ Inactive(cur, {"READ"}) /\ UNCHANGED peer
  BY DEF ReadSleep, sock
<1>2. cur \in Ios /\ cur \in Elems(active) /\ cur \notin deleted \cup closed
  BY <1>1, RunningIsActive
<1>3. CASE (flags[cur] \ {"READ"}) \cap mask[cur] = {}
  <2>1. /\ active' = Without(active, cur) /\ inactive' = inactive \cup {cur}
        /\ deleted' = deleted \ {cur} /\ UNCHANGED closed
    BY <1>1, <1>3 DEF Inactive
  <2>2. CASE k = cur
    BY <1>2, <2>1, <2>2 DEF Placed, Live, Unborn, Listed
  <2>3. CASE k # cur
    <3>1. k \in Live => k \in Live'
      BY <1>0, <2>1, <2>3, WithoutKeeps DEF Live, ListsTyped
    <3>2. flags'[k] = flags[k]
      BY <1>0, <1>1, <2>3 DEF Inactive, ListsTyped
    <3>3. k \in Unborn' => k \in Unborn
      BY <2>1, <2>3, <3>1 DEF Unborn, Listed, Live
    <3> QED BY <1>0, <1>1, <2>1, <2>3, <3>1, <3>2, <3>3, PlacedFrame
  <2> QED BY <2>2, <2>3
<1>4. CASE (flags[cur] \ {"READ"}) \cap mask[cur] # {}
  <2>1. UNCHANGED <<active, inactive, deleted, closed>>
    BY <1>1, <1>4 DEF Inactive
  <2>2. k # cur => flags'[k] = flags[k]
    BY <1>0, <1>1 DEF Inactive, ListsTyped
  <2> QED BY <1>0, <1>1, <1>2, <2>1, <2>2 DEF Placed, Live, Unborn, Listed
<1> QED BY <1>3, <1>4

LEMMA AcceptPlaced ==
  ASSUME PInv, NEW n \in Ios, Accept(n) PROVE AllPlaced'
<1> SUFFICES ASSUME NEW k \in Ios PROVE Placed(k)'
  BY DEF AllPlaced
<1>0. ListsTyped /\ Placed(k)
  BY DEF PInv, IInv, Typed, AllPlaced
<1>1. /\ n \in Unborn /\ UNCHANGED <<inactive, deleted, closed, peer>>
      /\ cur \in Ios /\ cur \notin deleted \cup closed
      /\ n \notin deleted \cup closed
  BY RunningIsActive DEF Accept, Unborn, Listed
<1>2. Elems(active') = Elems(Without(active, cur)) \cup {n, cur}
  BY <1>0, <1>1, AcceptOrder
<1>3. CASE k \in {n, cur}
  BY <1>1, <1>2, <1>3 DEF Placed, Live, Unborn, Listed
<1>4. CASE k \notin {n, cur}
  <2>1. k \in Live => k \in Live'
    BY <1>0, <1>1, <1>2, <1>4, WithoutKeeps DEF Live, ListsTyped
  <2>2. flags'[k] = flags[k]
    BY <1>0, <1>4 DEF Accept, ListsTyped
  <2>3. k \in Unborn' => k \in Unborn
    BY <1>1, <2>1 DEF Unborn, Listed, Live
  <2> QED BY <1>0, <1>1, <2>1, <2>2, <2>3, PlacedFrame
<1> QED BY <1>3, <1>4

LEMMA DropPlaced == PInv /\ DropOnError => AllPlaced'
<1> SUFFICES ASSUME PInv, DropOnError, NEW k \in Ios PROVE Placed(k)'
  BY DEF AllPlaced
<1>0. ListsTyped /\ Placed(k) /\ cur \in Ios /\ cur \notin deleted \cup closed
  BY DroppedIsLive DEF PInv, IInv, Typed, AllPlaced
<1>1. CASE k = cur
  BY <1>0, <1>1 DEF DropOnError, Placed, Unborn, Listed, ListsTyped
<1>2. CASE k # cur
  <2>1. k \in Live => k \in Live'
    BY <1>0, <1>2, WithoutKeeps DEF DropOnError, Live, ListsTyped
  <2>2. /\ flags'[k] = flags[k] /\ (k \in deleted' <=> k \in deleted)
        /\ UNCHANGED <<closed, peer>>
    BY <1>0, <1>2 DEF DropOnError, ListsTyped, sock
  <2>3. k \in Unborn' => k \in Unborn
    BY <2>1, <2>2 DEF Unborn, Listed, Live
  <2> QED BY <1>0, <2>1, <2>2, <2>3, PlacedFrame
<1> QED BY <1>1, <1>2

LEMMA ResendPlaced == PInv /\ ReadCloseSend => AllPlaced'
<1> SUFFICES ASSUME PInv, ReadCloseSend, NEW k \in Ios PROVE Placed(k)'
  BY DEF AllPlaced
<1>0. ListsTyped /\ Placed(k) /\ Reading /\ UNCHANGED <<deleted, closed, peer>>
  BY DEF PInv, IInv, Typed, AllPlaced, ReadCloseSend, Recv
<1>1. cur \in Ios /\ cur \notin deleted \cup closed
  BY <1>0, RunningIsActive
<1>2. /\ active' = Without(active, cur) /\ inactive' = inactive \cup {cur}
      /\ flags' = [flags EXCEPT ![cur] = {}]
  BY DEF ReadCloseSend
<1>3. CASE k = cur
  BY <1>0, <1>1, <1>2, <1>3 DEF Placed, Unborn, Listed, Live
<1>4. CASE k # cur
  <2>1. k \in Live => k \in Live'
    BY <1>0, <1>2, <1>4, WithoutKeeps DEF ListsTyped, Live
  <2>2. flags'[k] = flags[k] /\ (k \in Unborn' => k \in Unborn)
    BY <1>0, <1>2, <1>4, <2>1 DEF ListsTyped, Unborn, Listed, Live
  <2> QED BY <1>0, <2>1, <2>2, PlacedFrame
<1> QED BY <1>3, <1>4

LEMMA ReapPlaced == PInv /\ Reap => AllPlaced'
<1> SUFFICES ASSUME PInv, Reap, NEW k \in Ios PROVE Placed(k)'
  BY DEF AllPlaced
<1>1. Placed(k) /\ UNCHANGED <<active, inactive, flags, peer>>
  BY DEF PInv, AllPlaced, Reap, sock
<1>2. closed' = closed \cup deleted /\ deleted' = {}
  BY DEF Reap
<1> QED BY <1>1, <1>2 DEF Placed, Unborn, Listed, Live

LEMMA PumpPlaced == PInv /\ EpollPump => AllPlaced'
<1> SUFFICES ASSUME PInv, EpollPump, NEW k \in Ios PROVE Placed(k)'
  BY DEF AllPlaced
<1>0. ListsTyped /\ Placed(k)
  BY DEF PInv, IInv, Typed, AllPlaced
<1>1. active' \in Seq(Ios) /\ Elems(active') = Fired /\ active = <<>>
  BY PumpOrder DEF PInv, IInv
<1>2. k \in Live' <=> k \in Live \cup Fired
  <2>1. inactive' = inactive \ Fired
    BY DEF EpollPump
  <2> QED BY <1>1, <2>1 DEF Live, Elems
<1>3. /\ k \notin Fired => flags'[k] = flags[k]
      /\ UNCHANGED <<deleted, closed, peer>>
  BY <1>0 DEF EpollPump, sock
<1>4. k \in Unborn' => k \in Unborn
  BY <1>2, <1>3 DEF Unborn, Listed, Live
<1> QED BY <1>0, <1>2, <1>3, <1>4 DEF Placed

LEMMA ConnectPlaced ==
  ASSUME PInv, NEW n \in Ios, Connect(n) PROVE AllPlaced'
<1>0. ListsTyped /\ n \notin closed /\ UNCHANGED peer
  BY DEF PInv, IInv, Typed, Connect, Unborn, Listed, sock
<1>1. CASE out[n]
  BY <1>0, <1>1, SetWaitPlaced DEF Connect, OneWait
<1>2. CASE ~ out[n]
  <2>1. /\ flags' = [flags EXCEPT ![n] = {}] /\ inactive' = inactive \cup {n}
        /\ UNCHANGED <<active, deleted, closed>>
    BY <1>2 DEF Connect
  <2> QED BY <1>0, <2>1 DEF PInv, AllPlaced, Placed, Unborn, Listed, Live, ListsTyped
<1> QED BY <1>1, <1>2

LEMMA PlacedNext == PInv /\ [Next]_vars => AllPlaced'
<1> SUFFICES ASSUME PInv, [Next]_vars PROVE AllPlaced'
  OBVIOUS
<1>0. AllPlaced
  BY DEF PInv
<1>1. CASE \/ StartFor \/ EndFor \/ SkipWrite \/ SkipRead \/ MainLoop
           \/ AcceptOom \/ AcceptFails \/ Continue \/ ReadSome \/ UNCHANGED vars
  <2>1. UNCHANGED <<lists, io, peer>>
    BY <1>1 DEF StartFor, EndFor, SkipWrite, SkipRead, MainLoop, AcceptOom, AcceptFails,
                Continue, ReadSome, Recv, sock, vars
  <2> QED BY <1>0, <2>1, PlacedUndisturbed
<1>2. CASE WriteDone \/ AcceptRefused
  <2>1. (Writing \/ Reading) /\ SetWait(cur, {"READ"}) /\ UNCHANGED peer
    BY <1>2 DEF WriteDone, AcceptRefused, Recv, sock
  <2> QED BY <2>1, RunningIsActive, SetWaitPlaced DEF OneWait
<1>3. CASE WriteFail \/ ReadEnd
  <2>1. (Writing \/ Reading) /\ Del(cur) /\ UNCHANGED peer
    BY <1>3 DEF WriteFail, ReadEnd, sock
  <2> QED BY <2>1, RunningIsActive, DelPlaced
<1>4. ASSUME NEW n \in Ios, ReadClose(n) PROVE AllPlaced'
  <2>1. mask[n] # Deleted /\ Del(n) /\ UNCHANGED peer
    BY <1>4 DEF ReadClose, Recv
  <2> QED BY <2>1, OneStage, DelPlaced DEF PInv
<1>5. ASSUME NEW n \in Ios, Listen(n) PROVE AllPlaced'
  <2>1. n \notin closed /\ SetWait(n, {"READ"}) /\ UNCHANGED peer
    BY <1>5 DEF Listen, Unborn, Listed, sock
  <2> QED BY <2>1, SetWaitPlaced DEF OneWait
<1>6. CASE Kernel
  <2>1. PICK n \in Ios : \/ Arrive(n) \/ Connected(n) \/ ResetAgain(n)
                         \/ PeerEnds(n, "eof") \/ PeerEnds(n, "rst")
    BY <1>6 DEF Kernel
  <2>2. UNCHANGED <<lists, io>>
    BY <2>1 DEF Arrive, Connected, ResetAgain, PeerEnds
  <2>3. \A k \in Ios : k \in Unborn => peer'[k] = peer[k]
    <3>1. n \notin Unborn
      BY <2>1 DEF Arrive, Connected, ResetAgain, PeerEnds, Open, Unborn
    <3> QED BY <2>1, <3>1 DEF Arrive, Connected, ResetAgain, PeerEnds, sock,
                              PInv, IInv, Typed, SockTyped
  <2> QED BY <1>0, <2>2, <2>3, PlacedUndisturbed
<1> QED BY <1>1, <1>2, <1>3, <1>4, <1>5, <1>6, SleepPlaced, AcceptPlaced, DropPlaced,
           ResendPlaced, ReapPlaced, PumpPlaced, ConnectPlaced DEF Next, Loop, Program

LEMMA PInvInit == Init => PInv
<1>1. Init => AllPlaced
  BY DEF Init, AllPlaced, Placed
<1> QED BY <1>1, IInvInit DEF PInv

LEMMA PInvNext == PInv /\ [Next]_vars => PInv'
BY IInvNext, PlacedNext DEF PInv

-----------------------------------------------------------------------------
LEMMA DeletedIsGone == PInv => Gone = {i \in Ios : mask[i] = Deleted}
BY GoneIs DEF PInv

LEMMA DeletedIsGoneNext == PInv' => Gone' = {i \in Ios : mask'[i] = Deleted}
<1>1. PInv' => (Gone = {i \in Ios : mask[i] = Deleted})'
  BY DeletedIsGone, PTL
<1> QED BY <1>1

LEMMA OnOneList ==
  PInv => \A k \in Ios : mask[k] # Deleted /\ k \in inactive => k \notin Elems(active)
BY OneStage DEF PInv

(* The stage of an io is read off its mask and the lists ...               *)
LEMMA StageOf ==
  ASSUME PInv, NEW n \in Ios
  PROVE  /\ n \in closed <=> Stage[n] = "freed"
         /\ mask[n] = Deleted /\ n \notin closed <=> Stage[n] = "dead"
         /\ mask[n] # Deleted /\ n \in inactive <=> Stage[n] = "asleep"
         /\ mask[n] # Deleted /\ n \in Elems(active) <=> Stage[n] = "runnable"
         /\ n \in Unborn <=> Stage[n] = "unborn"
<1>1. n \in Gone <=> mask[n] = Deleted
  BY GoneIs DEF PInv
<1>2. n \in closed => n \in Gone
  BY DEF Gone
<1>3. mask[n] # Deleted /\ n \in inactive => n \notin Elems(active)
  BY OneStage DEF PInv
<1>4. Stage[n] = CASE n \in closed -> "freed" [] n \in Gone \ closed -> "dead"
                   [] n \in inactive \ Gone -> "asleep"
                   [] n \in Elems(active) \ (inactive \cup Gone) -> "runnable"
                   [] OTHER -> "unborn"
  BY DEF Stage
<1>5. n \in Unborn <=> n \notin Gone /\ n \notin inactive /\ n \notin Elems(active)
  <2>1. mask[n] = Deleted => n \in Live \cup deleted \cup closed
    BY DEF PInv, IInv, AllSettled, Settled, Deleted
  <2> QED BY <1>1, <2>1 DEF Unborn, Listed, Live, Gone
<1>6. CASE n \in closed
  BY <1>1, <1>2, <1>4, <1>5, <1>6
<1>7. CASE n \notin closed /\ n \in Gone
  BY <1>1, <1>4, <1>5, <1>7
<1>8. CASE n \notin Gone /\ n \notin closed
  BY <1>1, <1>3, <1>4, <1>5, <1>8
<1> QED BY <1>6, <1>7, <1>8

(* ... so it changes only for an io that is deleted, or that changes lists *)
(* while it lives.                                                         *)
SameStage(k) ==
  /\ mask'[k] = Deleted <=> mask[k] = Deleted
  /\ k \in closed' <=> k \in closed
  /\ mask[k] # Deleted => /\ k \in Elems(active') <=> k \in Elems(active)
                          /\ k \in inactive' <=> k \in inactive

LEMMA StageKept ==
  ASSUME PInv, PInv', NEW k \in Ios, SameStage(k) PROVE Stage'[k] = Stage[k]
<1>1. k \in Gone <=> mask[k] = Deleted
  BY GoneIs DEF PInv
<1>2. Gone' = {i \in Ios : mask'[i] = Deleted}
  BY DeletedIsGoneNext
<1>3. k \in Gone' <=> mask'[k] = Deleted
  BY <1>2
<1> QED BY <1>1, <1>3 DEF Stage, SameStage

LEMMA StageMoves ==
  ASSUME PInv, PInv', NEW n \in Ios, \A k \in Ios \ {n} : SameStage(k)
  PROVE  Stage' = [Stage EXCEPT ![n] = Stage'[n]]
<1>1. \A k \in Ios \ {n} : Stage'[k] = Stage[k]
  BY StageKept
<1>2. Stage = [k \in Ios |-> Stage[k]] /\ Stage' = [k \in Ios |-> Stage'[k]]
  BY DEF Stage
<1> QED BY <1>1, <1>2

LEMMA PendType == {n \in Ios : Pending(n)}' \in SUBSET Ios
OBVIOUS

LEMMA StayStep ==
  ASSUME PInv, PInv', \A k \in Ios : SameStage(k) PROVE EL!Next
<1>1. \A k \in Ios : Stage'[k] = Stage[k]
  BY StageKept
<1>2. Stage = [k \in Ios |-> Stage[k]] /\ Stage' = [k \in Ios |-> Stage'[k]]
  BY DEF Stage
<1>3. EL!Work
  BY <1>1, <1>2 DEF EL!Work
<1> QED BY <1>3, PendType DEF EL!Next

(* nbio_del, the drop of the loop, and the close that a send comes after    *)
LEMMA KillStep ==
  ASSUME PInv, PInv', NEW n \in Ios, n \in Live, mask[n] # Deleted,
         mask' = [mask EXCEPT ![n] = Deleted], closed' = closed,
         \A k \in Ios \ {n} : /\ k \in Elems(active') <=> k \in Elems(active)
                              /\ k \in inactive' <=> k \in inactive
  PROVE  EL!Next
<1>0. ListsTyped /\ n \notin closed
  BY OneStage DEF PInv, IInv, Typed
<1>1. \A k \in Ios \ {n} : SameStage(k)
  BY <1>0 DEF SameStage, ListsTyped
<1>2. Stage'[n] = "dead"
  <2>1. mask'[n] = Deleted /\ n \notin closed'
    BY <1>0 DEF ListsTyped
  <2>2. Gone' = {i \in Ios : mask'[i] = Deleted}
    BY DeletedIsGoneNext
  <2>3. n \in Gone'
    BY <2>1, <2>2
  <2> QED BY <2>1, <2>3 DEF Stage
<1>3. Stage[n] \in {"runnable", "asleep"}
  BY StageOf DEF Live
<1>4. EL!Kill(n)
  BY <1>1, <1>2, <1>3, StageMoves DEF EL!Kill
<1> QED BY <1>4, PendType DEF EL!Next

LEMMA DelStep ==
  ASSUME PInv, PInv', NEW n \in Ios, n \in Live, mask[n] # Deleted, Del(n) PROVE EL!Next
<1>1. Elems(active') = Elems(active) \ {n} /\ inactive' = inactive \ {n}
  BY WithoutElems DEF Del, PInv, IInv
<1>2. \A k \in Ios \ {n} : /\ k \in Elems(active') <=> k \in Elems(active)
                           /\ k \in inactive' <=> k \in inactive
  BY <1>1
<1>3. mask' = [mask EXCEPT ![n] = Deleted] /\ closed' = closed
  BY DEF Del
<1> QED BY <1>2, <1>3, KillStep

LEMMA DropStep ==
  ASSUME PInv, PInv', DropOnError PROVE EL!Next
<1>1. Elems(active') = Elems(active) \ {cur} /\ inactive' = inactive \ {cur}
  BY WithoutElems DEF DropOnError, PInv, IInv
<1>2. PICK n \in Ios : n = cur
  BY DroppedIsLive
<1>3. \A k \in Ios \ {n} : /\ k \in Elems(active') <=> k \in Elems(active)
                           /\ k \in inactive' <=> k \in inactive
  BY <1>1, <1>2
<1>4. mask' = [mask EXCEPT ![n] = Deleted] /\ closed' = closed
  BY <1>2 DEF DropOnError
<1>5. n \in Live /\ mask[n] # Deleted
  BY <1>2, DroppedIsLive
<1> QED BY <1>3, <1>4, <1>5, KillStep

LEMMA ResendStep ==
  ASSUME PInv, PInv', ReadCloseSend PROVE EL!Next
<1>1. Elems(active') = Elems(active) \ {cur} /\ inactive' = inactive \cup {cur}
  BY WithoutElems DEF ReadCloseSend, PInv, IInv
<1>2. PICK n \in Ios : n = cur
  BY RunningIsActive DEF ReadCloseSend
<1>3. \A k \in Ios \ {n} : /\ k \in Elems(active') <=> k \in Elems(active)
                           /\ k \in inactive' <=> k \in inactive
  BY <1>1, <1>2
<1>4. mask' = [mask EXCEPT ![n] = Deleted] /\ closed' = closed
  BY <1>2 DEF ReadCloseSend
<1>5. n \in Live /\ mask[n] # Deleted
  BY <1>2, RunningIsActive DEF ReadCloseSend, Live
<1> QED BY <1>3, <1>4, <1>5, KillStep

LEMMA AddedAs ==
  ASSUME PInv, PInv', NEW n \in Ios, n \in Unborn, \A k \in Ios \ {n} : SameStage(k),
         \/ Stage'[n] = "runnable"
         \/ Stage'[n] = "asleep" /\ n \notin {k \in Ios : Pending(k)}'
  PROVE  EL!Next
<1>1. Stage[n] = "unborn"
  BY StageOf
<1>2. EL!Add(n)
  BY <1>1, StageMoves DEF EL!Add
<1> QED BY <1>2, PendType DEF EL!Next

(* The new stage of an io that lives is read off the new lists.            *)
LEMMA NewStage ==
  ASSUME PInv, PInv', NEW n \in Ios, mask'[n] # Deleted
  PROVE  /\ n \in Elems(active') => Stage'[n] = "runnable"
         /\ n \in inactive' => Stage'[n] = "asleep"
<1>1. Gone' = {i \in Ios : mask'[i] = Deleted}
  BY DeletedIsGoneNext
<1>2. n \notin Gone' /\ n \notin closed'
  BY <1>1 DEF Gone
<1>3. (\A k \in Ios : mask[k] # Deleted /\ k \in inactive => k \notin Elems(active))'
  BY OnOneList, PTL
<1> QED BY <1>2, <1>3 DEF Stage

LEMMA SetWaitStep ==
  ASSUME PInv, PInv', NEW n \in Ios, NEW w \in OneWait, SetWait(n, w), mask[n] # Deleted,
         n \in Unborn \/ n \in Elems(active)
  PROVE  EL!Next
<1>0. ListsTyped
  BY DEF PInv, IInv, Typed
<1>1. /\ Elems(active') = Elems(active) \cup {n} /\ UNCHANGED <<deleted, closed>>
      /\ inactive' = inactive \ {n} /\ mask' = [mask EXCEPT ![n] = w]
  <2>1. Without(active, n) \in Seq(Ios)
    BY <1>0, WithoutType DEF ListsTyped
  <2>2. Elems(active') = Elems(Without(active, n)) \cup {n}
    BY <2>1, AppendElems DEF SetWait
  <2> QED BY <2>2, WithoutElems DEF SetWait, PInv, IInv
<1>2. \A k \in Ios \ {n} : SameStage(k)
  BY <1>0, <1>1 DEF SameStage, ListsTyped
<1>3. mask'[n] # Deleted
  BY <1>0, <1>1 DEF ListsTyped, OneWait, Deleted
<1>4. CASE n \in Elems(active)
  <2>1. n \notin inactive
    BY <1>4, OneStage DEF PInv
  <2>2. SameStage(n)
    BY <1>1, <1>3, <1>4, <2>1 DEF SameStage
  <2> QED BY <1>2, <2>2, StayStep
<1>5. CASE n \in Unborn
  <2>1. Stage'[n] = "runnable"
    BY <1>1, <1>3, NewStage
  <2> QED BY <1>2, <1>5, <2>1, AddedAs
<1> QED BY <1>4, <1>5

LEMMA UnbornLives == PInv => \A n \in Unborn : n \in Ios /\ mask[n] # Deleted
BY UnbornIsBlank DEF PInv, IInv, Unborn, Deleted

LEMMA SleepStep ==
  ASSUME PInv, PInv', ReadSleep PROVE EL!Next
<1>1. /\ Reading /\ Inactive(cur, {"READ"})
      /\ rx[cur] = 0 /\ peer[cur] = "open" /\ UNCHANGED <<mask, closed, rx, peer>>
  BY DEF ReadSleep, sock, Inactive
<1>2. PICK n \in Ios : n = cur
  BY <1>1, RunningIsActive
<1>3. /\ n \in Elems(active) /\ n \notin inactive /\ n \notin deleted \cup closed
      /\ mask[n] = {"READ"} /\ mask[n] # Deleted
  BY <1>1, <1>2, RunningIsActive DEF Reading, OneWait
<1>4. CASE (flags[cur] \ {"READ"}) \cap mask[cur] = {}
  <2>1. /\ Elems(active') = Elems(active) \ {n} /\ inactive' = inactive \cup {n}
    BY <1>1, <1>2, <1>4, WithoutElems DEF Inactive, PInv, IInv
  <2>2. \A k \in Ios \ {n} : SameStage(k)
    BY <1>1, <2>1 DEF SameStage
  <2>3. Stage[n] = "runnable"
    BY <1>3, StageOf
  <2>4. Stage'[n] = "asleep"
    BY <1>1, <1>3, <2>1, NewStage
  <2>5. n \notin {k \in Ios : Pending(k)}'
    BY <1>1, <1>2, <1>3 DEF Pending
  <2>6. EL!Sleep(n)
    BY <2>2, <2>3, <2>4, <2>5, StageMoves DEF EL!Sleep
  <2> QED BY <2>6, PendType DEF EL!Next
<1>5. CASE (flags[cur] \ {"READ"}) \cap mask[cur] # {}
  <2>1. UNCHANGED <<lists, mask>>
    BY <1>1, <1>5 DEF Inactive, lists
  <2> QED BY <2>1, StayStep DEF SameStage, lists
<1> QED BY <1>4, <1>5

LEMMA AcceptStep ==
  ASSUME PInv, PInv', NEW n \in Ios, Accept(n) PROVE EL!Next
<1>0. ListsTyped
  BY DEF PInv, IInv, Typed
<1>1. PICK c \in Ios : c = cur
  BY RunningIsActive DEF Accept
<1>2. /\ n \in Unborn /\ UNCHANGED <<inactive, deleted, closed>>
      /\ c \in Elems(active) /\ c \notin inactive /\ mask[c] # Deleted
      /\ mask' = [mask EXCEPT ![n] = {"READ"}, ![c] = {"READ"}]
  BY <1>1, RunningIsActive DEF Accept
<1>3. Elems(active') = Elems(active) \cup {n}
  <2>1. Elems(active') = Elems(Without(active, cur)) \cup {n, cur}
    BY <1>0, <1>1, AcceptOrder
  <2> QED BY <1>1, <1>2, <2>1, WithoutElems DEF PInv, IInv
<1>4. mask'[n] # Deleted /\ mask'[c] # Deleted
  BY <1>0, <1>2 DEF ListsTyped, Deleted
<1>5. \A k \in Ios \ {n} : SameStage(k)
  BY <1>0, <1>2, <1>3, <1>4 DEF SameStage, ListsTyped
<1>6. Stage'[n] = "runnable"
  BY <1>3, <1>4, NewStage
<1> QED BY <1>2, <1>5, <1>6, AddedAs

LEMMA ConnectStep ==
  ASSUME PInv, PInv', NEW n \in Ios, Connect(n) PROVE EL!Next
<1>1. n \in Unborn /\ mask[n] # Deleted
  BY UnbornLives DEF Connect
<1>2. CASE out[n]
  BY <1>1, <1>2, SetWaitStep DEF Connect, OneWait
<1>3. CASE ~ out[n]
  <2>1. /\ inactive' = inactive \cup {n} /\ UNCHANGED <<active, deleted, closed, sock>>
        /\ mask' = [mask EXCEPT ![n] = {"WRITE"}]
    BY <1>3 DEF Connect
  <2>2. \A k \in Ios \ {n} : SameStage(k)
    BY <2>1 DEF SameStage, PInv, IInv, Typed, ListsTyped
  <2>3. mask'[n] = {"WRITE"} /\ ~ out'[n] /\ peer'[n] = "open"
    BY <1>1, <1>3, <2>1 DEF PInv, IInv, Typed, ListsTyped, AllPlaced, Placed, sock
  <2>4. Stage'[n] = "asleep"
    BY <2>1, <2>3, NewStage DEF Deleted
  <2>5. n \notin {k \in Ios : Pending(k)}'
    BY <2>3 DEF Pending
  <2> QED BY <1>1, <2>2, <2>4, <2>5, AddedAs
<1> QED BY <1>2, <1>3

LEMMA ReapStep ==
  ASSUME PInv, PInv', Reap PROVE EL!Next
<1>1. /\ closed' = closed \cup deleted /\ deleted' = {}
      /\ UNCHANGED <<active, inactive, mask>>
  BY DEF Reap
<1>2. \A k \in Ios : k \notin deleted => SameStage(k)
  BY <1>1 DEF SameStage
<1>3. CASE deleted = {}
  BY <1>2, <1>3, StayStep
<1>4. CASE deleted # {}
  <2>1. \A n \in deleted : n \in Ios /\ Stage[n] = "dead"
    <3>1. \A n \in deleted : n \in Ios /\ mask[n] = Deleted /\ n \notin closed
      BY DEF PInv, IInv, Typed, ListsTyped, AllSettled, Settled, AllPlaced, Placed
    <3> QED BY <3>1, StageOf
  <2>2. \A n \in Ios : Stage'[n] = IF n \in deleted THEN "freed" ELSE Stage[n]
    <3> TAKE n \in Ios
    <3>1. CASE n \in deleted
      <4>1. n \in closed' /\ Stage'[n] = CASE n \in closed' -> "freed"
                   [] n \in Gone' \ closed' -> "dead" [] n \in inactive' \ Gone' -> "asleep"
                   [] n \in Elems(active') \ (inactive' \cup Gone') -> "runnable"
                   [] OTHER -> "unborn"
        BY <1>1, <3>1 DEF Stage
      <4>2. n \in Gone'
        BY <4>1 DEF Gone
      <4>3. /\ n \notin Gone' \ closed' /\ n \notin inactive' \ Gone'
            /\ n \notin Elems(active') \ (inactive' \cup Gone')
        BY <4>1, <4>2
      <4> QED BY <3>1, <4>1, <4>3
    <3>2. CASE n \notin deleted
      BY <1>2, <3>2, StageKept
    <3> QED BY <3>1, <3>2
  <2>3. Stage' = [n \in Ios |-> IF n \in deleted THEN "freed" ELSE Stage[n]]
    BY <2>2 DEF Stage
  <2>4. deleted \in SUBSET {n \in Ios : Stage[n] = "dead"}
    BY <2>1
  <2>5. EL!Reap
    BY <1>4, <2>3, <2>4 DEF EL!Reap
  <2> QED BY <2>5, PendType DEF EL!Next
<1> QED BY <1>3, <1>4

LEMMA PumpStep ==
  ASSUME PInv, PInv', EpollPump PROVE EL!Next
<1>1. /\ Elems(active') = Fired /\ active = <<>> /\ inactive' = inactive \ Fired
      /\ UNCHANGED <<mask, deleted, closed>> /\ pc = "wait" /\ Fired \subseteq Ios
  BY PumpOrder DEF PInv, IInv, Typed, ListsTyped, EpollPump, Fired
<1>2. PICK S \in SUBSET Ios : S = {n \in Fired : mask[n] # Deleted}
  BY <1>1
<1>3. \A k \in Ios : k \notin S => SameStage(k)
  <2>1. Elems(active) = {}
    BY <1>1 DEF Elems
  <2> QED BY <1>1, <1>2, <2>1 DEF SameStage
<1>4. CASE S = {}
  BY <1>3, <1>4, StayStep
<1>5. CASE S # {}
  <2>1. \A n \in S : /\ n \in inactive /\ mask[n] \in OneWait
                     /\ reg[n] = Wanted(mask[n]) /\ reg[n] \cap Events(n) # {}
    BY <1>1, <1>2, FiredSleeps DEF PInv, IInv, Typed, AllSettled, Settled, Fired
  <2>2. \A n \in S : Pending(n)
    <3> SUFFICES ASSUME NEW n \in S PROVE Pending(n)
      OBVIOUS
    <3>1. CASE mask[n] = {"READ"}
      BY <2>1, <3>1 DEF Wanted, Events, Pending
    <3>2. CASE mask[n] = {"WRITE"}
      BY <2>1, <3>2 DEF Wanted, Events, Pending
    <3> QED BY <2>1, <3>1, <3>2 DEF OneWait
  <2>3. \A n \in S : Stage[n] = "asleep"
    BY <1>2, <2>1, StageOf
  <2>4. \A n \in Ios : Stage'[n] = IF n \in S THEN "runnable" ELSE Stage[n]
    <3> TAKE n \in Ios
    <3>1. CASE n \in S
      BY <1>1, <1>2, <3>1, NewStage
    <3>2. CASE n \notin S
      BY <1>3, <3>2, StageKept
    <3> QED BY <3>1, <3>2
  <2>5. Stage' = [n \in Ios |-> IF n \in S THEN "runnable" ELSE Stage[n]]
    BY <2>4 DEF Stage
  <2>6. S \subseteq {n \in Ios : Pending(n)}
    BY <2>2
  <2>7. EL!WakeAll(S)
    BY <1>5, <2>3, <2>5, <2>6 DEF EL!WakeAll
  <2>8. PICK n \in S : n \in Ios
    BY <1>5
  <2>9. EL!Wake(n)
    BY <2>7, <2>8 DEF EL!Wake
  <2> QED BY <2>8, <2>9, PendType DEF EL!Next
<1> QED BY <1>4, <1>5

LEMMA StepImplements == PInv /\ PInv' /\ [Next]_vars => [EL!Next]_(EL!vars)
<1> SUFFICES ASSUME PInv, PInv', [Next]_vars PROVE EL!Next
  OBVIOUS
<1>1. CASE \/ StartFor \/ EndFor \/ SkipWrite \/ SkipRead \/ MainLoop
           \/ AcceptOom \/ AcceptFails \/ Continue \/ ReadSome \/ Kernel \/ UNCHANGED vars
  <2>1. UNCHANGED <<lists, mask>>
    BY <1>1 DEF StartFor, EndFor, SkipWrite, SkipRead, MainLoop, AcceptOom, AcceptFails,
                Continue, ReadSome, Kernel, Arrive, Connected, ResetAgain, PeerEnds, vars, io
  <2> QED BY <2>1, StayStep DEF SameStage, lists
<1>2. CASE WriteDone \/ AcceptRefused
  <2>1. (Writing \/ Reading) /\ SetWait(cur, {"READ"})
    BY <1>2 DEF WriteDone, AcceptRefused
  <2> QED BY <2>1, RunningIsActive, SetWaitStep DEF OneWait
<1>3. CASE WriteFail \/ ReadEnd
  <2>1. (Writing \/ Reading) /\ Del(cur)
    BY <1>3 DEF WriteFail, ReadEnd
  <2>2. cur \in Ios /\ cur \in Live /\ mask[cur] # Deleted
    BY <2>1, RunningIsActive DEF Live
  <2> QED BY <2>1, <2>2, DelStep
<1>4. ASSUME NEW n \in Ios, ReadClose(n) PROVE EL!Next
  <2>1. n \in Listed /\ mask[n] # Deleted /\ Del(n)
    BY <1>4 DEF ReadClose
  <2>2. n \in Live
    BY <2>1, OneStage DEF Listed, Live, PInv
  <2> QED BY <2>1, <2>2, DelStep
<1>5. ASSUME NEW n \in Ios, Listen(n) PROVE EL!Next
  BY <1>5, UnbornLives, SetWaitStep DEF Listen, OneWait
<1> QED BY <1>1, <1>2, <1>3, <1>4, <1>5, SleepStep, AcceptStep, DropStep, ResendStep,
           ReapStep, PumpStep, ConnectStep DEF Next, Loop, Program

(* nbio with its lists, its cursors and edge-triggered epoll implements    *)
(* the abstract event loop, for up to 8 ios: none is added twice, sleeps   *)
(* with something to do or is woken for nothing, and one that is dead is   *)
(* never again an io that runs or sleeps, also when it is back on one of   *)
(* their lists.                                                            *)
THEOREM EventLoopImplemented == Spec => ImplementsEventLoop
<1>1. Init => EL!Init
  BY DEF Init, EL!Init, Stage, Gone, Deleted, Elems
<1>2. PInv /\ PInv' /\ [Next]_vars => [EL!Next]_(EL!vars)
  BY StepImplements
<1> QED BY <1>1, <1>2, PInvInit, PInvNext, PTL DEF Spec, ImplementsEventLoop, EL!Spec
=============================================================================
