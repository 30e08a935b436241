----------------------------- MODULE AmfProofs -----------------------------
(***************************************************************************)
(* Proofs about the AMF codec, for every base, every bound, every depth of *)
(* objects inside objects, and all elements: that what is written has the  *)
(* size that was computed for it (AmfSizeExact), that no bytes are read as *)
(* an object with a key twice (AmfTypeOK), and that what was written is    *)
(* read as it was built (AmfRoundTrip).                                    *)
(*                                                                         *)
(* Induction is over sets of natural numbers (NatInd, UpTo, DownTo): over  *)
(* the depth of an element, over the parts of a sequence, over positions   *)
(* from the end of a buffer.  In order: induction, sequences, elements and *)
(* functions on them, sizes and bytes, objects, the state, the parser,     *)
(* what is on the wire, reading an element, reading an invoke.             *)
(***************************************************************************)
EXTENDS Amf, WellFoundedInduction, TLAPS

(* Induction over the natural numbers, in the form this module uses it: a  *)
(* set that holds 0 and the successor of each of its members.  From the    *)
(* library's fact that < on Nat is well-founded.                           *)
LEMMA LeastNat ==
    ASSUME NEW S, S \subseteq Nat, S # {}
    PROVE  \E n \in S : \A m \in S : n <= m
<1>1. PICK R : R = OpToRel(<, Nat)
  OBVIOUS
<1>2. IsWellFoundedOn(R, Nat)
  BY <1>1, NatLessThanWellFounded
<1>3. PICK n \in S : \A m \in S : ~ (<<m, n>> \in R)
  BY <1>2, WFMin
<1>4. \A m, k \in Nat : m < k => <<m, k>> \in R
  BY <1>1 DEF OpToRel
<1>5. \A m \in S : n <= m
  <2> TAKE m \in S
  <2>1. m \in Nat /\ n \in Nat /\ ~(m < n)
    BY <1>3, <1>4
  <2> QED BY <2>1
<1> QED BY <1>5

LEMMA NatInd ==
    ASSUME NEW S, 0 \in S, \A n \in Nat : n \in S => n + 1 \in S
    PROVE  \A n \in Nat : n \in S
<1> SUFFICES ASSUME NEW k \in Nat, k \notin S PROVE FALSE
  OBVIOUS
<1>1. PICK n \in Nat \ S : \A m \in Nat \ S : n <= m
  <2> DEFINE T == Nat \ S
  <2> HIDE DEF T
  <2>1. T \subseteq Nat /\ T # {}
    BY DEF T
  <2>2. \E n \in T : \A m \in T : n <= m
    BY <2>1, LeastNat
  <2> QED BY <2>2 DEF T
<1>2. n # 0 /\ n - 1 \in Nat
  OBVIOUS
<1>3. n - 1 \in S
  <2>1. ~(n <= n - 1)
    OBVIOUS
  <2> QED BY <1>1, <1>2, <2>1
<1>4. (n - 1) + 1 \in S
  BY <1>2, <1>3
<1> QED BY <1>1, <1>4

LEMMA UpTo ==
    ASSUME NEW N \in Nat, NEW S, 0 \in S, \A n \in 0..(N - 1) : n \in S => n + 1 \in S
    PROVE  \A n \in 0..N : n \in S
<1> DEFINE T == {n \in Nat : n <= N => n \in S}
<1>1. 0 \in T
  OBVIOUS
<1>2. ASSUME NEW n \in Nat, n \in T PROVE n + 1 \in T
  <2> SUFFICES ASSUME n + 1 <= N PROVE n + 1 \in S
    OBVIOUS
  <2>1. n \in 0..(N - 1) /\ n \in S
    BY <1>2
  <2> QED BY <2>1
<1>3. \A n \in Nat : n \in T
  <2> HIDE DEF T
  <2> QED BY <1>1, <1>2, NatInd
<1> QED BY <1>3

LEMMA DownTo ==
    ASSUME NEW N \in Nat, NEW S, N \in S, \A n \in 1..N : n \in S => n - 1 \in S
    PROVE  \A n \in 0..N : n \in S
<1> DEFINE T == {k \in Nat : N - k \in S}
<1>1. 0 \in T
  OBVIOUS
<1>2. \A k \in 0..(N - 1) : k \in T => k + 1 \in T
  <2> SUFFICES ASSUME NEW k \in 0..(N - 1), N - k \in S PROVE N - (k + 1) \in S
    OBVIOUS
  <2>1. N - k \in 1..N /\ N - (k + 1) = (N - k) - 1
    OBVIOUS
  <2> QED BY <2>1
<1>3. \A k \in 0..N : k \in T
  <2> HIDE DEF T
  <2> QED BY <1>1, <1>2, UpTo
<1>4. ASSUME NEW n \in 0..N PROVE n \in S
  <2>1. N - n \in 0..N /\ N - (N - n) = n
    OBVIOUS
  <2>2. N - n \in T
    BY <2>1, <1>3
  <2> QED BY <2>1, <2>2
<1> QED BY <1>4

LEMMA SameSpan ==
    ASSUME NEW m \in Nat, NEW n \in Nat, 1..m = 1..n
    PROVE  m = n
OBVIOUS

LEMMA Cat ==
    ASSUME NEW X, NEW s \in Seq(X), NEW t \in Seq(X)
    PROVE  /\ s \o t \in Seq(X) /\ Len(s \o t) = Len(s) + Len(t)
           /\ Len(s) \in Nat /\ Len(t) \in Nat
           /\ \A k \in 1..Len(s) : (s \o t)[k] = s[k]
           /\ \A k \in 1..Len(t) : (s \o t)[Len(s) + k] = t[k]
OBVIOUS

----------------------------------------------------------------------------
(* FlattenSeq: what the first n sequences of ss make, and how they make it.*)

LEMMA FlattenEq ==
    ASSUME NEW ss, Len(ss) \in Nat \ {0}
    PROVE  \E g : /\ FlattenSeq(ss) = g[Len(ss)]
                  /\ g[1] = ss[1]
                  /\ \A i \in 2..Len(ss) : g[i] = g[i - 1] \o ss[i]
<1> DEFINE N == Len(ss)
           Body(g) == [i \in 1..N |-> IF i = 1 THEN ss[i] ELSE g[i - 1] \o ss[i]]
           S == {n \in Nat : \E g : \A i \in 1..N : i <= n =>
                    g[i] = IF i = 1 THEN ss[i] ELSE g[i - 1] \o ss[i]}
           h == CHOOSE g : g = Body(g)
<1>1. 0 \in S
  OBVIOUS
<1>2. ASSUME NEW n \in Nat, n \in S PROVE n + 1 \in S
  <2>1. PICK g : \A i \in 1..N : i <= n =>
                    g[i] = IF i = 1 THEN ss[i] ELSE g[i - 1] \o ss[i]
    BY <1>2
  <2> DEFINE f == Body(g)
  <2>2. \A i \in 1..N : i <= n + 1 =>
                    f[i] = IF i = 1 THEN ss[i] ELSE f[i - 1] \o ss[i]
    <3> TAKE i \in 1..N
    <3> HAVE i <= n + 1
    <3>1. CASE i = 1
      BY <3>1
    <3>2. CASE i # 1
      <4>1. i - 1 \in 1..N /\ i - 1 <= n
        BY <3>2
      <4>2. f[i - 1] = g[i - 1]
        BY <4>1, <2>1
      <4> QED BY <3>2, <4>2
    <3> QED BY <3>1, <3>2
  <2> HIDE DEF f
  <2> QED BY <2>2
<1>3. N \in S
  <2> HIDE DEF S
  <2> QED BY <1>1, <1>2, NatInd
<1>4. PICK g : \A i \in 1..N : g[i] = IF i = 1 THEN ss[i] ELSE g[i - 1] \o ss[i]
  BY <1>3
<1>5. Body(g) = Body(Body(g))
  <2> SUFFICES ASSUME NEW i \in 1..N
               PROVE  Body(g)[i] = IF i = 1 THEN ss[i] ELSE Body(g)[i - 1] \o ss[i]
    OBVIOUS
  <2>1. CASE i = 1
    BY <2>1
  <2>2. CASE i # 1
    <3>1. i - 1 \in 1..N
      BY <2>2
    <3>2. Body(g)[i - 1] = g[i - 1]
      BY <3>1, <1>4
    <3> QED BY <2>2, <3>2
  <2> QED BY <2>1, <2>2
<1>6. h = Body(h)
  BY <1>5
<1>7. FlattenSeq(ss) = h[N]
  BY DEF FlattenSeq
<1> HIDE DEF h
<1>8. h[1] = ss[1]
  BY <1>6
<1>9. \A i \in 2..N : h[i] = h[i - 1] \o ss[i]
  <2> TAKE i \in 2..N
  <2>1. i \in 1..N /\ i # 1
    OBVIOUS
  <2> QED BY <1>6, <2>1
<1> QED BY <1>7, <1>8, <1>9

LEMMA FlattenParts ==
    ASSUME NEW X, NEW ss \in Seq(Seq(X))
    PROVE  /\ FlattenSeq(ss) \in Seq(X)
           /\ \E off \in [0..Len(ss) -> Nat] :
                /\ off[0] = 0 /\ off[Len(ss)] = Len(FlattenSeq(ss))
                /\ \A i \in 1..Len(ss) : off[i] = off[i - 1] + Len(ss[i])
                /\ \A i \in 0..Len(ss) : off[i] <= Len(FlattenSeq(ss))
                /\ \A i \in 1..Len(ss) : \A j \in 1..Len(ss[i]) :
                     FlattenSeq(ss)[off[i - 1] + j] = ss[i][j]
<1>1. CASE Len(ss) = 0
  <2>1. FlattenSeq(ss) = <<>> /\ ss = <<>>
    BY <1>1 DEF FlattenSeq
  <2> DEFINE off == [i \in 0..0 |-> 0]
  <2>2. off \in [0..Len(ss) -> Nat] /\ off[0] = 0
    BY <1>1
  <2> HIDE DEF off
  <2> QED BY <2>1, <2>2, <1>1
<1>2. CASE Len(ss) # 0
  <2> DEFINE N == Len(ss)
  <2>0. N \in Nat \ {0}
    BY <1>2
  <2>1. \A i \in 1..N : ss[i] \in Seq(X)
    OBVIOUS
  <2>2. PICK g : /\ FlattenSeq(ss) = g[N]
                 /\ g[1] = ss[1]
                 /\ \A i \in 2..N : g[i] = g[i - 1] \o ss[i]
    BY <2>0, FlattenEq
  <2> HIDE DEF N
  <2>3. 1 \in 1..N /\ N \in 1..N
    BY <2>0
  <2>4. ASSUME NEW i \in 1..N, i # 1
        PROVE  i \in 2..N /\ i - 1 \in 1..N /\ g[i] = g[i - 1] \o ss[i]
    <3>1. i \in 2..N /\ i - 1 \in 1..N
      BY <2>0, <2>4
    <3> QED BY <2>2, <3>1
  <2> DEFINE S == {n \in 0..N : n # 0 => g[n] \in Seq(X)}
  <2>5. \A n \in 0..N : n \in S
    <3>1. 0 \in S
      BY <2>0
    <3>2. ASSUME NEW n \in 0..(N - 1), n \in S PROVE n + 1 \in S
      <4>1. n + 1 \in 1..N /\ (n + 1) - 1 = n
        BY <2>0
      <4>2. ss[n + 1] \in Seq(X)
        BY <4>1, <2>1
      <4>3. CASE n = 0
        BY <4>1, <4>2, <4>3, <2>2
      <4>4. CASE n # 0
        <5>1. g[n] \in Seq(X)
          BY <3>2, <4>4
        <5>2. n + 1 # 1
          BY <4>4
        <5>3. g[n + 1] = g[n] \o ss[n + 1]
          BY <4>1, <5>2, <2>4
        <5>4. g[n + 1] \in Seq(X)
          BY <5>1, <5>3, <4>2, Cat
        <5> QED BY <4>1, <5>4
      <4> QED BY <4>3, <4>4
    <3> HIDE DEF S
    <3> QED BY <2>0, <3>1, <3>2, UpTo
  <2>6. \A i \in 1..N : g[i] \in Seq(X)
    <3> TAKE i \in 1..N
    <3>1. i \in 0..N /\ i # 0
      BY <2>0
    <3> QED BY <3>1, <2>5
  <2> HIDE DEF S
  <2> DEFINE off == [i \in 0..N |-> IF i = 0 THEN 0 ELSE Len(g[i])]
  <2>7. off[0] = 0 /\ \A i \in 1..N : off[i] = Len(g[i])
    BY <2>0
  <2>8. off \in [0..N -> Nat]
    <3>1. \A i \in 0..N : off[i] \in Nat
      <4> TAKE i \in 0..N
      <4>1. CASE i = 0
        BY <4>1, <2>7
      <4>2. CASE i # 0
        <5>1. i \in 1..N
          BY <4>2, <2>0
        <5>2. Len(g[i]) \in Nat
          BY <5>1, <2>6
        <5> QED BY <5>1, <5>2, <2>7
      <4> QED BY <4>1, <4>2
    <3> QED BY <3>1
  <2> HIDE DEF off
  <2>9. ASSUME NEW i \in 1..N
        PROVE  /\ i - 1 \in 0..N /\ off[i - 1] \in Nat /\ Len(ss[i]) \in Nat
               /\ off[i] = off[i - 1] + Len(ss[i])
               /\ \A k \in 1..off[i - 1] : g[i][k] = g[i - 1][k]
               /\ \A j \in 1..Len(ss[i]) : g[i][off[i - 1] + j] = ss[i][j]
    <3>1. i - 1 \in 0..N /\ ss[i] \in Seq(X)
      BY <2>0, <2>1
    <3>2. CASE i = 1
      <4>1. off[i - 1] = 0 /\ g[i] = ss[i] /\ off[i] = Len(g[i])
        BY <3>2, <2>2, <2>7, <2>3
      <4>2. Len(ss[i]) \in Nat
        BY <3>1
      <4> QED BY <3>1, <4>1, <4>2
    <3>3. CASE i # 1
      <4>1. i - 1 \in 1..N /\ g[i] = g[i - 1] \o ss[i]
        BY <3>3, <2>4
      <4>2. g[i - 1] \in Seq(X) /\ off[i - 1] = Len(g[i - 1]) /\ off[i] = Len(g[i])
        BY <4>1, <2>6, <2>7
      <4> DEFINE s == g[i - 1]
                 t == ss[i]
      <4>3. s \in Seq(X) /\ t \in Seq(X)
        BY <3>1, <4>2
      <4> HIDE DEF s, t
      <4>4. /\ Len(s \o t) = Len(s) + Len(t) /\ Len(s) \in Nat /\ Len(t) \in Nat
            /\ \A k \in 1..Len(s) : (s \o t)[k] = s[k]
            /\ \A k \in 1..Len(t) : (s \o t)[Len(s) + k] = t[k]
        BY <4>3, Cat
      <4>5. g[i] = s \o t /\ off[i - 1] = Len(s) /\ off[i] = Len(g[i])
        BY <4>1, <4>2 DEF s, t
      <4> QED BY <3>1, <4>4, <4>5 DEF s, t
    <3> QED BY <3>2, <3>3
  <2> DEFINE T == {n \in 0..N : /\ off[n] <= off[N]
                                /\ \A k \in 1..off[n] : g[N][k] = g[n][k]}
  <2>10. \A n \in 0..N : n \in T
    <3>1. N \in T
      BY <2>0, <2>8
    <3>2. ASSUME NEW n \in 1..N, n \in T PROVE n - 1 \in T
      <4>1. off[n] <= off[N] /\ \A k \in 1..off[n] : g[N][k] = g[n][k]
        BY <3>2
      <4>2. off[N] \in Nat /\ off[n] \in Nat
        BY <2>0, <2>8
      <4>3. off[n - 1] <= off[N]
        <5>1. /\ off[n] = off[n - 1] + Len(ss[n]) /\ Len(ss[n]) \in Nat /\ off[n - 1] \in Nat
          BY <2>9
        <5> QED BY <4>1, <4>2, <5>1
      <4>4. ASSUME NEW k \in 1..off[n - 1] PROVE g[N][k] = g[n - 1][k]
        <5>0. off[n - 1] \in Nat /\ Len(ss[n]) \in Nat /\ off[n] = off[n - 1] + Len(ss[n])
          BY <2>9
        <5>1. k \in 1..off[n]
          BY <5>0
        <5> QED BY <5>1, <4>1, <2>9
      <4>5. n - 1 \in 0..N
        BY <2>9
      <4> QED BY <4>3, <4>4, <4>5
    <3> HIDE DEF T
    <3> QED BY <2>0, <3>1, <3>2, DownTo
  <2>11. ASSUME NEW i \in 1..N, NEW j \in 1..Len(ss[i])
         PROVE  FlattenSeq(ss)[off[i - 1] + j] = ss[i][j]
    <3>1. off[i - 1] + j \in 1..off[i]
      BY <2>9
    <3>2. i \in 0..N
      BY <2>0
    <3>3. g[N][off[i - 1] + j] = g[i][off[i - 1] + j]
      BY <3>1, <3>2, <2>10
    <3> QED BY <3>3, <2>9, <2>2
  <2>12. \A i \in 0..N : off[i] <= off[N]
    BY <2>10
  <2>13. FlattenSeq(ss) \in Seq(X) /\ off[N] = Len(FlattenSeq(ss))
    BY <2>2, <2>3, <2>6, <2>7
  <2>14. \A i \in 1..N : off[i] = off[i - 1] + Len(ss[i])
    BY <2>9
  <2> HIDE DEF T
  <2> QED BY <2>7, <2>8, <2>11, <2>12, <2>13, <2>14 DEF N
<1> QED BY <1>1, <1>2

(* A function on 0..N that is defined from the one before exists.          *)
StepsOf(N, T) == [1..N -> [T -> T]]
Run(g, N, T, t, F) ==
    g \in [0..N -> T] /\ g[0] = t /\ \A i \in 1..N : g[i] = F[i][g[i - 1]]

LEMMA PrimRec ==
    ASSUME NEW N \in Nat, NEW T, NEW t \in T, NEW F \in StepsOf(N, T)
    PROVE  \E g : Run(g, N, T, t, F)
<1> DEFINE S == {n \in 0..N : \E g \in [0..N -> T] :
                    g[0] = t /\ \A i \in 1..n : g[i] = F[i][g[i - 1]]}
<1>1. 0 \in S
  <2> DEFINE g == [i \in 0..N |-> t]
  <2>1. g \in [0..N -> T] /\ g[0] = t
    OBVIOUS
  <2> HIDE DEF g
  <2>2. \A i \in 1..0 : g[i] = F[i][g[i - 1]]
    OBVIOUS
  <2>3. 0 \in 0..N
    OBVIOUS
  <2> QED BY <2>1, <2>2, <2>3
<1>2. ASSUME NEW n \in 0..(N - 1), n \in S PROVE n + 1 \in S
  <2>1. PICK g \in [0..N -> T] : g[0] = t /\ \A i \in 1..n : g[i] = F[i][g[i - 1]]
    BY <1>2
  <2>2. n \in 0..N /\ n + 1 \in 1..N /\ n + 1 \in 0..N /\ n + 1 # 0
    OBVIOUS
  <2>3. F[n + 1][g[n]] \in T
    BY <2>2 DEF StepsOf
  <2> DEFINE x == F[n + 1][g[n]]
             new == [g EXCEPT ![n + 1] = x]
  <2>4. new \in [0..N -> T] /\ new[0] = t
    BY <2>1, <2>2, <2>3
  <2>5. ASSUME NEW i \in 1..(n + 1) PROVE new[i] = F[i][new[i - 1]]
    <3>1. i \in 0..N /\ i - 1 \in 0..N /\ i - 1 # n + 1
      OBVIOUS
    <3>2. new[i - 1] = g[i - 1]
      BY <3>1
    <3>3. CASE i = n + 1
      <4>1. i - 1 = n /\ new[i] = x
        BY <3>1, <3>3
      <4> QED BY <3>2, <3>3, <4>1
    <3>4. CASE i # n + 1
      <4>1. i \in 1..n /\ new[i] = g[i]
        BY <3>1, <3>4
      <4> QED BY <4>1, <3>2, <2>1
    <3> QED BY <3>3, <3>4
  <2> HIDE DEF new
  <2> QED BY <2>2, <2>4, <2>5
<1>3. N \in S
  <2>1. N \in 0..N
    OBVIOUS
  <2> HIDE DEF S
  <2> QED BY <1>1, <1>2, <2>1, UpTo
<1> QED BY <1>3 DEF Run

(* Total sums up what it is given, from the front.                         *)
LEMMA TotalSteps ==
    ASSUME NEW ns \in Seq(Nat), NEW off \in [0..Len(ns) -> Nat], off[0] = 0,
           \A i \in 1..Len(ns) : off[i] = off[i - 1] + ns[i]
    PROVE  Total(ns) = off[Len(ns)]
<1> DEFINE N == Len(ns)
           Body(g) == [n \in 0..N |-> IF n = 0 THEN 0 ELSE g[n - 1] + ns[n]]
           h == CHOOSE g : g = Body(g)
<1>0. N \in Nat
  OBVIOUS
<1>1. off = Body(off)
  <2>1. \A n \in 0..N : off[n] = Body(off)[n]
    BY <1>0
  <2> QED BY <2>1
<1>2. h = Body(h)
  BY <1>1
<1>3. Total(ns) = h[N]
  BY DEF Total
<1> HIDE DEF h
<1> DEFINE S == {n \in Nat : n \in 0..N => h[n] = off[n]}
<1>4. 0 \in S
  BY <1>2, <1>0
<1>5. ASSUME NEW n \in Nat, n \in S PROVE n + 1 \in S
  <2> SUFFICES ASSUME n + 1 \in 0..N PROVE h[n + 1] = off[n + 1]
    OBVIOUS
  <2>1. n \in 0..N /\ n + 1 \in 1..N /\ (n + 1) - 1 = n /\ n + 1 # 0
    BY <1>0
  <2>2. h[n] = off[n]
    BY <1>5, <2>1
  <2>3. h[n + 1] = h[n] + ns[n + 1]
    BY <1>2, <2>1
  <2>4. off[n + 1] = off[n] + ns[n + 1]
    BY <2>1
  <2> QED BY <2>2, <2>3, <2>4
<1>6. N \in S
  <2> HIDE DEF S
  <2> QED BY <1>0, <1>4, <1>5, NatInd
<1> QED BY <1>0, <1>3, <1>6
LEMMA LenFlatten ==
    ASSUME NEW X, NEW ss \in Seq(Seq(X)), NEW ns \in Seq(Nat), Len(ns) = Len(ss),
           \A i \in 1..Len(ss) : ns[i] = Len(ss[i])
    PROVE  Total(ns) = Len(FlattenSeq(ss))
<1>1. PICK off \in [0..Len(ss) -> Nat] :
                /\ off[0] = 0 /\ off[Len(ss)] = Len(FlattenSeq(ss))
                /\ \A i \in 1..Len(ss) : off[i] = off[i - 1] + Len(ss[i])
  BY FlattenParts
<1>2. \A i \in 1..Len(ns) : off[i] = off[i - 1] + ns[i]
  BY <1>1
<1>3. off \in [0..Len(ns) -> Nat]
  BY <1>1
<1> QED BY <1>1, <1>2, <1>3, TotalSteps

LEMMA TotalType ==
    ASSUME NEW ns \in Seq(Nat)
    PROVE  Total(ns) \in Nat
<1> DEFINE N == Len(ns)
           F == [i \in 1..N |-> [x \in Nat |-> x + ns[i]]]
<1>0. N \in Nat /\ \A i \in 1..N : ns[i] \in Nat
  OBVIOUS
<1> HIDE DEF N
<1>1. F \in [1..N -> [Nat -> Nat]]
  BY <1>0
<1>2. \A i \in 1..N : \A x \in Nat : F[i][x] = x + ns[i]
  OBVIOUS
<1> HIDE DEF F
<1>3. PICK off \in [0..N -> Nat] : off[0] = 0 /\ \A i \in 1..N : off[i] = F[i][off[i - 1]]
  <2> DEFINE T == Nat
             t == 0
  <2>1. N \in Nat
    BY <1>0
  <2>2. t \in T
    OBVIOUS
  <2>3. F \in StepsOf(N, T)
    BY <1>1 DEF StepsOf
  <2> HIDE DEF T, t
  <2>4. \E g : Run(g, N, T, t, F)
    BY <2>1, <2>2, <2>3, PrimRec
  <2> QED BY <2>4 DEF T, t, Run
<1>4. ASSUME NEW i \in 1..N PROVE off[i] = off[i - 1] + ns[i]
  <2>1. off[i - 1] \in Nat
    BY <1>0
  <2> QED BY <1>2, <1>3, <2>1
<1>5. Total(ns) = off[N]
  BY <1>3, <1>4, TotalSteps DEF N
<1> QED BY <1>0, <1>5

----------------------------------------------------------------------------
(* Elements: what they are at every depth, induction over them, and the    *)
(* functions that are defined by recursion on them.                        *)

LEMMA NestedEq ==
    \A d \in 0..MaxDepth :
        Nested[d] = Plain \cup Objects(IF d = 0 THEN {} ELSE Nested[d - 1])
<1> DEFINE N == MaxDepth
           Level(g, d) == Plain \cup Objects(IF d = 0 THEN {} ELSE g[d - 1])
           Body(g) == [d \in 0..N |-> Level(g, d)]
           S == {n \in 0..N : \E g : \A d \in 0..n : g[d] = Level(g, d)}
           h == CHOOSE g : g = Body(g)
<1>0. N \in Nat
  BY BoundsAssumption
<1> HIDE DEF N
<1>1. ASSUME NEW g, NEW n \in 0..N, \A d \in 0..(n - 1) : g[d] = Level(g, d),
             NEW d \in 0..n
      PROVE  Body(g)[d] = Level(Body(g), d)
  <2>1. d \in 0..N
    BY <1>0
  <2>2. CASE d = 0
    BY <2>1, <2>2
  <2>3. CASE d # 0
    <3>1. d - 1 \in 0..(n - 1) /\ d - 1 \in 0..N
      BY <2>3, <1>0
    <3>2. Body(g)[d - 1] = g[d - 1]
      BY <3>1, <1>1
    <3>3. Body(g)[d] = Level(g, d)
      BY <2>1
    <3> HIDE DEF Body
    <3> QED BY <3>2, <3>3
  <2> QED BY <2>2, <2>3
<1>2. N \in S
  <2>1. 0 \in S
    <3> DEFINE g == Body([d \in 0..N |-> {}])
    <3>1. \A d \in 0..0 : g[d] = Level(g, d)
      BY <1>0, <1>1
    <3> HIDE DEF g, Level
    <3> QED BY <3>1, <1>0
  <2>2. ASSUME NEW n \in 0..(N - 1), n \in S PROVE n + 1 \in S
    <3>1. PICK g : \A d \in 0..n : g[d] = Level(g, d)
      BY <2>2
    <3>2. n + 1 \in 0..N /\ (n + 1) - 1 = n
      BY <1>0
    <3> DEFINE f == Body(g)
    <3> HIDE DEF Level
    <3>3. \A d \in 0..(n + 1) : f[d] = Level(f, d)
      BY <1>1, <3>1, <3>2
    <3> HIDE DEF f
    <3> QED BY <3>2, <3>3
  <2>3. N \in 0..N
    BY <1>0
  <2> HIDE DEF S
  <2> QED BY <1>0, <2>1, <2>2, <2>3, UpTo
<1>3. PICK g : \A d \in 0..N : g[d] = Level(g, d)
  BY <1>2
<1>4. Body(g) = Body(Body(g))
  <2>1. \A d \in 0..N : Body(g)[d] = Level(Body(g), d)
    <3>1. N \in 0..N /\ \A d \in 0..(N - 1) : d \in 0..N
      BY <1>0
    <3> HIDE DEF Level, Body
    <3> QED BY <1>1, <1>3, <3>1
  <2> HIDE DEF Level
  <2> QED BY <2>1
<1>5. h = Body(h)
  BY <1>4
<1>6. Nested = h
  BY DEF Nested, N
<1> HIDE DEF h
<1> QED BY <1>5, <1>6 DEF N

LEMMA SeqMono ==
    ASSUME NEW A, NEW B, A \subseteq B, NEW s \in Seq(A)
    PROVE  s \in Seq(B)
OBVIOUS

LEMMA SeqParts ==
    ASSUME NEW A, NEW s \in Seq(A)
    PROVE  Len(s) \in Nat /\ DOMAIN s = 1..Len(s) /\ \A i \in DOMAIN s : s[i] \in A
OBVIOUS

LEMMA ObjectsMono ==
    ASSUME NEW S, NEW T, S \subseteq T
    PROVE  Objects(S) \subseteq Objects(T)
<1> SUFFICES ASSUME NEW a \in Objects(S) PROVE a \in Objects(T)
  OBVIOUS
<1> DEFINE MS == [key : Strings, val : S]
           MT == [key : Strings, val : T]
<1>1. a \in [type : {AMF_OBJECT}, num : {0}, str : {NULL}, obj : Seq(MS)] /\ KeysDistinct(a)
  BY DEF Objects
<1>2. MS \subseteq MT
  OBVIOUS
<1> HIDE DEF MS, MT
<1>3. a.obj \in Seq(MT)
  BY <1>1, <1>2, SeqMono
<1>4. a \in [type : {AMF_OBJECT}, num : {0}, str : {NULL}, obj : Seq(MT)]
  BY <1>1, <1>3
<1> QED BY <1>1, <1>4 DEF Objects, MT

LEMMA NestedIn ==
    /\ \A d \in 1..MaxDepth : Nested[d - 1] \subseteq Nested[d]
    /\ \A d \in 0..MaxDepth : Nested[d] \subseteq Element
<1>0. MaxDepth \in Nat
  BY BoundsAssumption
<1>1. \A S, T : S \subseteq T => Objects(S) \subseteq Objects(T)
  BY ObjectsMono
<1> DEFINE U == {n \in 0..MaxDepth : n # 0 => Nested[n - 1] \subseteq Nested[n]}
<1>2. 0 \in U
  BY <1>0
<1>3. ASSUME NEW n \in 0..(MaxDepth - 1), n \in U PROVE n + 1 \in U
  <2>1. n + 1 \in 0..MaxDepth /\ n \in 0..MaxDepth /\ (n + 1) - 1 = n /\ n + 1 # 0
    BY <1>0
  <2>2. /\ Nested[n + 1] = Plain \cup Objects(Nested[n])
        /\ Nested[n] = Plain \cup Objects(IF n = 0 THEN {} ELSE Nested[n - 1])
    BY <2>1, NestedEq
  <2>3. (IF n = 0 THEN {} ELSE Nested[n - 1]) \subseteq Nested[n]
    BY <1>3
  <2>4. Objects(IF n = 0 THEN {} ELSE Nested[n - 1]) \subseteq Objects(Nested[n])
    BY <1>1, <2>3
  <2> QED BY <2>1, <2>2, <2>4
<1>4. \A n \in 0..MaxDepth : n \in U
  <2> HIDE DEF U
  <2> QED BY <1>0, <1>2, <1>3, UpTo
<1>5. \A d \in 1..MaxDepth : Nested[d - 1] \subseteq Nested[d]
  BY <1>4, <1>0
<1> HIDE DEF U
<1> DEFINE V == {n \in 0..MaxDepth : Nested[n] \subseteq Element}
<1>6. MaxDepth \in V
  BY <1>0 DEF Element
<1>7. ASSUME NEW n \in 1..MaxDepth, n \in V PROVE n - 1 \in V
  BY <1>0, <1>5, <1>7
<1>8. \A n \in 0..MaxDepth : n \in V
  <2> HIDE DEF V
  <2> QED BY <1>0, <1>6, <1>7, DownTo
<1> QED BY <1>5, <1>8

(* What is inside an element is one level less deep, and an element.       *)
LEMMA LevelParts ==
    ASSUME NEW d \in 0..MaxDepth, NEW a \in Nested[d], NEW i \in DOMAIN a.obj
    PROVE  d # 0 /\ d - 1 \in 0..MaxDepth /\ a.obj[i].val \in Nested[d - 1]
<1>0. MaxDepth \in Nat
  BY BoundsAssumption
<1>1. a \in Plain \/ a \in Objects(IF d = 0 THEN {} ELSE Nested[d - 1])
  BY NestedEq
<1>2. a \notin Plain
  <2> SUFFICES ASSUME a \in Plain PROVE FALSE
    OBVIOUS
  <2>1. a.obj = <<>>
    BY DEF Plain
  <2> QED BY <2>1
<1> DEFINE V == IF d = 0 THEN {} ELSE Nested[d - 1]
<1>3. a.obj \in Seq([key : Strings, val : V])
  BY <1>1, <1>2 DEF Objects
<1> HIDE DEF V
<1>4. a.obj[i] \in [key : Strings, val : V]
  BY <1>3, SeqParts
<1>5. a.obj[i].val \in V
  BY <1>4
<1>6. d # 0
  BY <1>5 DEF V
<1> QED BY <1>0, <1>5, <1>6 DEF V

LEMMA ElementParts ==
    ASSUME NEW a \in Element
    PROVE  /\ a.obj \in Seq([key : Strings, val : Element])
           /\ \A i \in DOMAIN a.obj : a.obj[i].val \in Element /\ a.obj[i].key \in Strings
           /\ \/ a \in Plain
              \/ a \in Objects(Element)
<1>0. MaxDepth \in Nat \ {0}
  BY BoundsAssumption
<1>1. a \in Plain \/ a \in Objects(Nested[MaxDepth - 1])
  BY <1>0, NestedEq DEF Element
<1>2. Nested[MaxDepth - 1] \subseteq Element
  BY <1>0, NestedIn
<1>3. a \in Plain \/ a \in Objects(Element)
  BY <1>1, <1>2, ObjectsMono
<1>4. a.obj \in Seq([key : Strings, val : Element])
  <2>1. CASE a \in Plain
    <3>1. a.obj = <<>>
      BY <2>1 DEF Plain
    <3> QED BY <3>1
  <2>2. CASE a \in Objects(Element)
    BY <2>2 DEF Objects
  <2> QED BY <1>3, <2>1, <2>2
<1>5. \A i \in DOMAIN a.obj : a.obj[i] \in [key : Strings, val : Element]
  BY <1>4, SeqParts
<1> QED BY <1>3, <1>4, <1>5

LEMMA ElementInd ==
    ASSUME NEW S,
           \A a \in Element : (\A i \in DOMAIN a.obj : a.obj[i].val \in S) => a \in S
    PROVE  \A a \in Element : a \in S
<1>0. MaxDepth \in Nat
  BY BoundsAssumption
<1> DEFINE T == {n \in 0..MaxDepth : \A a \in Nested[n] : a \in S}
<1>1. 0 \in T
  <2> SUFFICES ASSUME NEW a \in Nested[0] PROVE a \in S
    BY <1>0
  <2>1. a \in Element
    BY <1>0, NestedIn
  <2>2. \A i \in DOMAIN a.obj : FALSE
    BY <1>0, LevelParts
  <2> QED BY <2>1, <2>2
<1>2. ASSUME NEW n \in 0..(MaxDepth - 1), n \in T PROVE n + 1 \in T
  <2>1. n + 1 \in 0..MaxDepth /\ (n + 1) - 1 = n
    BY <1>0
  <2> SUFFICES ASSUME NEW a \in Nested[n + 1] PROVE a \in S
    BY <2>1
  <2>2. a \in Element
    BY <2>1, NestedIn
  <2>3. \A i \in DOMAIN a.obj : a.obj[i].val \in Nested[n]
    BY <2>1, LevelParts
  <2>4. \A i \in DOMAIN a.obj : a.obj[i].val \in S
    BY <2>3, <1>2
  <2> QED BY <2>2, <2>4
<1>3. MaxDepth \in T
  <2>1. MaxDepth \in 0..MaxDepth
    BY <1>0
  <2> HIDE DEF T
  <2> QED BY <1>0, <1>1, <1>2, <2>1, UpTo
<1> QED BY <1>3 DEF Element

(* A function on elements that is defined by recursion exists, if what it  *)
(* says of an element depends on the elements inside that one only.        *)
LEMMA FixedPoint ==
    ASSUME NEW T, NEW t \in T, NEW F \in [[Element -> T] -> [Element -> T]],
           \A g, h \in [Element -> T] : \A a \in Element :
               (\A i \in DOMAIN a.obj : g[a.obj[i].val] = h[a.obj[i].val])
                    => F[g][a] = F[h][a]
    PROVE  \E g \in [Element -> T] : F[g] = g
<1>0. MaxDepth \in Nat
  BY BoundsAssumption
<1> DEFINE Fns == [Element -> T]
           S == {n \in 0..MaxDepth : \E g \in Fns : \A a \in Nested[n] : F[g][a] = g[a]}
<1>1. \A g \in Fns : F[g] \in Fns
  OBVIOUS
<1>2. 0 \in S
  <2> DEFINE g == [a \in Element |-> t]
  <2>1. g \in Fns
    OBVIOUS
  <2> HIDE DEF g, Fns
  <2>2. F[g] \in Fns
    BY <2>1, <1>1
  <2> HIDE DEF S
  <2>3. ASSUME NEW a \in Nested[0] PROVE F[F[g]][a] = F[g][a]
    <3>1. a \in Element
      BY <1>0, NestedIn
    <3>2. ASSUME NEW i \in DOMAIN a.obj PROVE FALSE
      <4>1. 0 \in 0..MaxDepth
        BY <1>0
      <4> QED BY <4>1, LevelParts
    <3> QED BY <2>1, <2>2, <3>1, <3>2 DEF Fns
  <2> QED BY <1>0, <2>2, <2>3 DEF S
<1>3. ASSUME NEW n \in 0..(MaxDepth - 1), n \in S PROVE n + 1 \in S
  <2>1. n + 1 \in 0..MaxDepth /\ (n + 1) - 1 = n
    BY <1>0
  <2>2. PICK g \in Fns : \A a \in Nested[n] : F[g][a] = g[a]
    BY <1>3
  <2> HIDE DEF Fns
  <2>3. F[g] \in Fns
    BY <1>1
  <2>4. ASSUME NEW a \in Nested[n + 1] PROVE F[F[g]][a] = F[g][a]
    <3>1. a \in Element
      BY <2>1, NestedIn
    <3>2. \A i \in DOMAIN a.obj : a.obj[i].val \in Nested[n]
      BY <2>1, LevelParts
    <3>3. \A i \in DOMAIN a.obj : F[g][a.obj[i].val] = g[a.obj[i].val]
      BY <3>2, <2>2
    <3> QED BY <2>3, <3>1, <3>3 DEF Fns
  <2> QED BY <2>1, <2>3, <2>4
<1>4. MaxDepth \in S
  <2>1. MaxDepth \in 0..MaxDepth
    BY <1>0
  <2> HIDE DEF S
  <2> QED BY <1>0, <1>2, <1>3, <2>1, UpTo
<1>5. PICK g \in Fns : \A a \in Element : F[g][a] = g[a]
  BY <1>4 DEF Element
<1>6. F[g] = g
  BY <1>1, <1>5
<1> QED BY <1>6

----------------------------------------------------------------------------
(* amf_size and amf_to_buf: a size and bytes for every element.            *)

LEMMA MakeSeq ==
    ASSUME NEW A, NEW n \in Nat, NEW f \in [1..n -> A]
    PROVE  f \in Seq(A) /\ Len(f) = n
OBVIOUS

LEMMA StrLen ==
    ASSUME NEW s \in Strings \cup {NULL}
    PROVE  /\ amf_strlen(s) \in Nat /\ amf_strlen(s) < Base * Base
           /\ Bytes(s) \in Seq(Nat) /\ Len(Bytes(s)) = 2 + amf_strlen(s)
           /\ Bytes(s)[1] = amf_strlen(s) \div Base /\ Bytes(s)[2] = amf_strlen(s) % Base
           /\ \A i \in 1..amf_strlen(s) : Bytes(s)[2 + i] = s[i]
<1>0. Base \in Nat /\ Base > 10
  BY BaseAssumption
<1>1. CASE s = NULL
  <2>1. 0 \div Base = 0 /\ 0 % Base = 0 /\ 0 < Base * Base
    BY <1>0
  <2> QED BY <1>1, <2>1 DEF amf_strlen, Bytes
<1>2. CASE s # NULL
  <2>1. s \in Seq(1..(Base - 1)) /\ Len(s) < Base * Base
    BY <1>2 DEF Strings
  <2>2. s \in Seq(Nat)
    <3>1. 1..(Base - 1) \subseteq Nat
      BY <1>0
    <3> QED BY <2>1, <3>1, SeqMono
  <2>3. Len(s) \in Nat /\ Len(s) \div Base \in Nat /\ Len(s) % Base \in Nat
    BY <2>2, <1>0
  <2> DEFINE h == <<Len(s) \div Base, Len(s) % Base>>
  <2>4. h \in Seq(Nat) /\ Len(h) = 2 /\ h[1] = Len(s) \div Base /\ h[2] = Len(s) % Base
    BY <2>3
  <2>5. amf_strlen(s) = Len(s) /\ Bytes(s) = h \o s
    BY <1>2 DEF amf_strlen, Bytes
  <2> HIDE DEF h
  <2>6. /\ h \o s \in Seq(Nat) /\ Len(h \o s) = Len(h) + Len(s)
        /\ \A k \in 1..Len(h) : (h \o s)[k] = h[k]
        /\ \A k \in 1..Len(s) : (h \o s)[Len(h) + k] = s[k]
    <3>1. h \in Seq(Nat) /\ s \in Seq(Nat)
      BY <2>2, <2>4
    <3> QED BY <3>1, Cat
  <2>7. 1 \in 1..Len(h) /\ 2 \in 1..Len(h)
    BY <2>4
  <2> QED BY <2>1, <2>3, <2>4, <2>5, <2>6, <2>7
<1> QED BY <1>1, <1>2

LEMMA MemberSizes ==
    ASSUME NEW g, NEW a \in Element, \A i \in DOMAIN a.obj : g[a.obj[i].val] \in Nat,
           NEW ns,
           ns = [i \in DOMAIN a.obj |-> 2 + amf_strlen(a.obj[i].key) + g[a.obj[i].val]]
    PROVE  ns \in Seq(Nat) /\ Len(ns) = Len(a.obj) /\ Total(ns) \in Nat
<1>1. Len(a.obj) \in Nat /\ DOMAIN a.obj = 1..Len(a.obj)
  BY ElementParts, SeqParts
<1>2. \A i \in DOMAIN a.obj : amf_strlen(a.obj[i].key) \in Nat
  BY ElementParts, StrLen
<1>3. ns \in [1..Len(a.obj) -> Nat]
  BY <1>1, <1>2
<1>4. ns \in Seq(Nat) /\ Len(ns) = Len(a.obj)
  BY <1>1, <1>3, MakeSeq
<1> QED BY <1>4, TotalType

(* What an element's type says of its fields                               *)
LEMMA ElementTypes ==
    ASSUME NEW a \in Element
    PROVE  /\ a.type \in {AMF_NUMBER, AMF_BOOLEAN, AMF_STRING, AMF_OBJECT, AMF_NULL,
                          AMF_UNDEFINED}
           /\ a.str \in Strings \cup {NULL}
           /\ a.num \in 0..(Base - 1)
           /\ a = [type |-> a.type, num |-> a.num, str |-> a.str, obj |-> a.obj]
           /\ a.type = AMF_BOOLEAN => a.num \in {0, 1}
           /\ a.type \notin {AMF_NUMBER, AMF_BOOLEAN} => a.num = 0
           /\ a.type # AMF_STRING => a.str = NULL
           /\ a.type # AMF_OBJECT => a.obj = <<>>
           /\ a.type = AMF_OBJECT => \A i, j \in DOMAIN a.obj :
                a.obj[i].key = a.obj[j].key => i = j
           /\ a # NULL
<1>0. Base \in Nat /\ Base > 10
  BY BaseAssumption
<1>1. a # NULL
  BY NullAssumption
<1>2. CASE a \in Plain
  BY <1>0, <1>1, <1>2 DEF Plain, AMF_NUMBER, AMF_BOOLEAN, AMF_STRING, AMF_OBJECT, AMF_NULL,
     AMF_UNDEFINED
<1>3. CASE a \in Objects(Element)
  BY <1>0, <1>1, <1>3 DEF Objects, KeysDistinct, AMF_NUMBER, AMF_BOOLEAN, AMF_STRING,
     AMF_OBJECT, AMF_NULL, AMF_UNDEFINED
<1> QED BY <1>2, <1>3, ElementParts

LEMMA SizeOfType ==
    ASSUME NEW g, NEW a \in Element, \A i \in DOMAIN a.obj : g[a.obj[i].val] \in Nat
    PROVE  SizeOf(g, a) \in Nat
<1> DEFINE ns == [i \in DOMAIN a.obj |-> 2 + amf_strlen(a.obj[i].key) + g[a.obj[i].val]]
<1>1. Total(ns) \in Nat
  BY MemberSizes
<1>2. amf_strlen(a.str) \in Nat
  BY ElementTypes, StrLen
<1>3. SizeOf(g, a) \in {9, 2, 3 + amf_strlen(a.str), 4 + Total(ns), 1}
  BY DEF SizeOf
<1> HIDE DEF ns
<1> QED BY <1>1, <1>2, <1>3

LEMMA SizeEq ==
    \A a \in Element : amf_size[a] = SizeOf(amf_size, a)
<1> DEFINE Body(g) == [a \in Element |-> SizeOf(g, a)]
           F == [g \in [Element -> Nat] |-> Body(g)]
<1>1. F \in [[Element -> Nat] -> [Element -> Nat]]
  BY SizeOfType, ElementParts
<1>2. ASSUME NEW g \in [Element -> Nat], NEW h \in [Element -> Nat], NEW a \in Element,
             \A i \in DOMAIN a.obj : g[a.obj[i].val] = h[a.obj[i].val]
      PROVE  F[g][a] = F[h][a]
  <2>1. SizeOf(g, a) = SizeOf(h, a)
    <3>1. [i \in DOMAIN a.obj |-> 2 + amf_strlen(a.obj[i].key) + g[a.obj[i].val]]
            = [i \in DOMAIN a.obj |-> 2 + amf_strlen(a.obj[i].key) + h[a.obj[i].val]]
      BY <1>2
    <3> QED BY <3>1, Zenon DEF SizeOf
  <2> QED BY <2>1
<1>3. PICK g \in [Element -> Nat] : F[g] = g
  <2> HIDE DEF F
  <2> QED BY <1>1, <1>2, FixedPoint
<1>4. g = Body(g)
  BY <1>3
<1> DEFINE h == CHOOSE f : f = Body(f)
<1>5. h = Body(h)
  BY <1>4
<1>6. amf_size = h
  BY DEF amf_size
<1> HIDE DEF h
<1> QED BY <1>5, <1>6

LEMMA SizeType ==
    \A a \in Element : amf_size[a] \in Nat
<1> DEFINE S == {a \in Element : amf_size[a] \in Nat}
<1>1. ASSUME NEW a \in Element, \A i \in DOMAIN a.obj : a.obj[i].val \in S PROVE a \in S
  <2>1. \A i \in DOMAIN a.obj : amf_size[a.obj[i].val] \in Nat
    BY <1>1
  <2> QED BY <2>1, SizeEq, SizeOfType
<1>2. \A a \in Element : a \in S
  <2> HIDE DEF S
  <2> QED BY <1>1, ElementInd
<1> QED BY <1>2

LEMMA MemberBytes ==
    ASSUME NEW g, NEW a \in Element, \A i \in DOMAIN a.obj : g[a.obj[i].val] \in Seq(Nat),
           NEW ss, ss = [i \in DOMAIN a.obj |-> Bytes(a.obj[i].key) \o g[a.obj[i].val]]
    PROVE  /\ ss \in Seq(Seq(Nat)) /\ Len(ss) = Len(a.obj)
           /\ \A i \in DOMAIN a.obj :
                Len(ss[i]) = 2 + amf_strlen(a.obj[i].key) + Len(g[a.obj[i].val])
           /\ FlattenSeq(ss) \in Seq(Nat)
<1>1. Len(a.obj) \in Nat /\ DOMAIN a.obj = 1..Len(a.obj)
  BY ElementParts, SeqParts
<1>2. ASSUME NEW i \in DOMAIN a.obj
      PROVE  /\ ss[i] \in Seq(Nat)
             /\ Len(ss[i]) = 2 + amf_strlen(a.obj[i].key) + Len(g[a.obj[i].val])
  <2>1. /\ Bytes(a.obj[i].key) \in Seq(Nat)
        /\ Len(Bytes(a.obj[i].key)) = 2 + amf_strlen(a.obj[i].key)
    BY ElementParts, StrLen
  <2>2. ss[i] = Bytes(a.obj[i].key) \o g[a.obj[i].val]
    OBVIOUS
  <2>3. /\ ss[i] \in Seq(Nat)
        /\ Len(ss[i]) = Len(Bytes(a.obj[i].key)) + Len(g[a.obj[i].val])
    <3> DEFINE u == Bytes(a.obj[i].key)
               v == g[a.obj[i].val]
    <3>1. u \in Seq(Nat) /\ v \in Seq(Nat) /\ ss[i] = u \o v
      BY <2>1, <2>2
    <3> HIDE DEF u, v
    <3>2. u \o v \in Seq(Nat) /\ Len(u \o v) = Len(u) + Len(v)
      BY <3>1, Cat
    <3> QED BY <3>1, <3>2 DEF u, v
  <2> QED BY <2>1, <2>3
<1>3. ss \in [1..Len(a.obj) -> Seq(Nat)]
  BY <1>1, <1>2
<1>4. ss \in Seq(Seq(Nat)) /\ Len(ss) = Len(a.obj)
  BY <1>1, <1>3, MakeSeq
<1> QED BY <1>2, <1>4, FlattenParts

(* r is what follows the type of a in its bytes, when g gives the bytes of *)
(* the elements inside.                                                    *)
Follows(g, a, r) ==
    /\ r \in Seq(Nat)
    /\ a.type = AMF_NUMBER => r = Times(8, a.num) /\ Len(r) = 8
    /\ a.type = AMF_BOOLEAN => r = <<a.num>> /\ Len(r) = 1
    /\ a.type = AMF_STRING => r = Bytes(a.str) /\ Len(r) = 2 + amf_strlen(a.str)
    /\ a.type = AMF_OBJECT =>
         \E ss \in Seq(Seq(Nat)) :
            /\ ss = [i \in DOMAIN a.obj |-> Bytes(a.obj[i].key) \o g[a.obj[i].val]]
            /\ r = FlattenSeq(ss) \o <<0, 0, AMF_OBJECT_END>>
            /\ Len(r) = Len(FlattenSeq(ss)) + 3
    /\ a.type \in {AMF_NULL, AMF_UNDEFINED} => r = <<>> /\ Len(r) = 0

LEMMA ToBufParts ==
    ASSUME NEW g, NEW a \in Element, \A i \in DOMAIN a.obj : g[a.obj[i].val] \in Seq(Nat)
    PROVE  \E r : Follows(g, a, r) /\ ToBuf(g, a) = <<a.type>> \o r
<1> USE DEF AMF_NUMBER, AMF_BOOLEAN, AMF_STRING, AMF_OBJECT, AMF_NULL, AMF_UNDEFINED
<1>0. /\ a.type \in {AMF_NUMBER, AMF_BOOLEAN, AMF_STRING, AMF_OBJECT, AMF_NULL, AMF_UNDEFINED}
      /\ a.num \in Nat /\ a.str \in Strings \cup {NULL}
  BY ElementTypes, BaseAssumption
<1>1. CASE a.type = AMF_NUMBER
  <2>1. Times(8, a.num) \in [1..8 -> Nat]
    BY <1>0 DEF Times
  <2>2. Times(8, a.num) \in Seq(Nat) /\ Len(Times(8, a.num)) = 8
    BY <2>1, MakeSeq
  <2>3. ToBuf(g, a) = <<a.type>> \o Times(8, a.num)
    BY <1>1 DEF ToBuf
  <2> DEFINE r == Times(8, a.num)
  <2>4. r \in Seq(Nat) /\ Len(r) = 8 /\ r = Times(8, a.num) /\ ToBuf(g, a) = <<a.type>> \o r
    BY <2>2, <2>3
  <2> HIDE DEF r
  <2>5. Follows(g, a, r)
    BY <1>1, <2>4 DEF Follows
  <2> QED BY <2>4, <2>5
<1>2. CASE a.type = AMF_BOOLEAN
  <2>1. ToBuf(g, a) = <<a.type>> \o <<a.num>>
    BY <1>2 DEF ToBuf
  <2> DEFINE r == <<a.num>>
  <2>2. r \in Seq(Nat) /\ Len(r) = 1 /\ r = <<a.num>>
    BY <1>0
  <2>3. ToBuf(g, a) = <<a.type>> \o r
    BY <2>1
  <2> HIDE DEF r
  <2>4. Follows(g, a, r)
    BY <1>2, <2>2 DEF Follows
  <2> QED BY <2>3, <2>4
<1>3. CASE a.type = AMF_STRING
  <2>1. ToBuf(g, a) = <<a.type>> \o Bytes(a.str)
    BY <1>3 DEF ToBuf
  <2>2. Bytes(a.str) \in Seq(Nat) /\ Len(Bytes(a.str)) = 2 + amf_strlen(a.str)
    BY <1>0, StrLen
  <2> DEFINE r == Bytes(a.str)
  <2>3. /\ r \in Seq(Nat) /\ Len(r) = 2 + amf_strlen(a.str) /\ r = Bytes(a.str)
        /\ ToBuf(g, a) = <<a.type>> \o r
    BY <2>1, <2>2
  <2> HIDE DEF r
  <2>4. Follows(g, a, r)
    BY <1>3, <2>3 DEF Follows
  <2> QED BY <2>3, <2>4
<1>4. CASE a.type = AMF_OBJECT
  <2> DEFINE ss == [i \in DOMAIN a.obj |-> Bytes(a.obj[i].key) \o g[a.obj[i].val]]
             tail == <<0, 0, AMF_OBJECT_END>>
  <2>1. ss \in Seq(Seq(Nat)) /\ FlattenSeq(ss) \in Seq(Nat)
    BY MemberBytes
  <2>2. ToBuf(g, a) = <<a.type>> \o (FlattenSeq(ss) \o tail)
    <3>1. a.type # AMF_NUMBER /\ a.type # AMF_BOOLEAN /\ a.type # AMF_STRING
      BY <1>4
    <3> HIDE DEF AMF_NUMBER, AMF_BOOLEAN, AMF_STRING, AMF_OBJECT
    <3> QED BY <1>4, <3>1, Zenon DEF ToBuf
  <2>3. tail \in Seq(Nat) /\ Len(tail) = 3
    BY DEF AMF_OBJECT_END
  <2>4. ss = [i \in DOMAIN a.obj |-> Bytes(a.obj[i].key) \o g[a.obj[i].val]]
    OBVIOUS
  <2>5. tail = <<0, 0, AMF_OBJECT_END>>
    OBVIOUS
  <2> HIDE DEF ss, tail
  <2>6. FlattenSeq(ss) \o tail \in Seq(Nat)
        /\ Len(FlattenSeq(ss) \o tail) = Len(FlattenSeq(ss)) + 3
    <3>1. FlattenSeq(ss) \o tail \in Seq(Nat)
          /\ Len(FlattenSeq(ss) \o tail) = Len(FlattenSeq(ss)) + Len(tail)
      BY <2>1, <2>3, Cat
    <3> QED BY <2>3, <3>1
  <2> DEFINE r == FlattenSeq(ss) \o tail
  <2>7. /\ r \in Seq(Nat) /\ ToBuf(g, a) = <<a.type>> \o r
        /\ r = FlattenSeq(ss) \o <<0, 0, AMF_OBJECT_END>>
        /\ Len(r) = Len(FlattenSeq(ss)) + 3
    BY <2>2, <2>5, <2>6
  <2> HIDE DEF r
  <2>8. \E x \in Seq(Seq(Nat)) :
          /\ x = [i \in DOMAIN a.obj |-> Bytes(a.obj[i].key) \o g[a.obj[i].val]]
          /\ r = FlattenSeq(x) \o <<0, 0, AMF_OBJECT_END>>
          /\ Len(r) = Len(FlattenSeq(x)) + 3
    BY <2>1, <2>4, <2>7, Zenon
  <2>9. a.type # AMF_NUMBER /\ a.type # AMF_BOOLEAN /\ a.type # AMF_STRING
        /\ a.type \notin {AMF_NULL, AMF_UNDEFINED}
    BY <1>4
  <2>10. Follows(g, a, r)
    BY <2>7, <2>8, <2>9, Zenon DEF Follows
  <2> QED BY <2>7, <2>10
<1>5. CASE a.type \in {AMF_NULL, AMF_UNDEFINED}
  <2> DEFINE r == << >>
  <2>1. ToBuf(g, a) = <<a.type>> \o r
    <3>1. /\ a.type # AMF_NUMBER /\ a.type # AMF_BOOLEAN /\ a.type # AMF_STRING
          /\ a.type # AMF_OBJECT
      BY <1>5
    <3> HIDE DEF AMF_NUMBER, AMF_BOOLEAN, AMF_STRING, AMF_OBJECT
    <3> QED BY <3>1, Zenon DEF ToBuf
  <2>2. r \in Seq(Nat) /\ Len(r) = 0 /\ r = << >>
    OBVIOUS
  <2> HIDE DEF r
  <2>3. /\ a.type # AMF_NUMBER /\ a.type # AMF_BOOLEAN /\ a.type # AMF_STRING
        /\ a.type # AMF_OBJECT
    BY <1>5
  <2>4. Follows(g, a, r)
    BY <2>2, <2>3, Zenon DEF Follows
  <2> QED BY <2>1, <2>4
<1> QED BY <1>0, <1>1, <1>2, <1>3, <1>4, <1>5

LEMMA ToBufType ==
    ASSUME NEW g, NEW a \in Element, \A i \in DOMAIN a.obj : g[a.obj[i].val] \in Seq(Nat)
    PROVE  ToBuf(g, a) \in Seq(Nat)
<1>1. PICK r : Follows(g, a, r) /\ ToBuf(g, a) = <<a.type>> \o r
  BY ToBufParts
<1>2. <<a.type>> \in Seq(Nat)
  BY ElementTypes DEF AMF_NUMBER, AMF_BOOLEAN, AMF_STRING, AMF_OBJECT, AMF_NULL, AMF_UNDEFINED
<1>3. r \in Seq(Nat)
  BY <1>1 DEF Follows
<1> QED BY <1>1, <1>2, <1>3, Cat

LEMMA ToBufEq ==
    \A a \in Element : amf_to_buf[a] = ToBuf(amf_to_buf, a)
<1> DEFINE Body(g) == [a \in Element |-> ToBuf(g, a)]
           F == [g \in [Element -> Seq(Nat)] |-> Body(g)]
<1>1. F \in [[Element -> Seq(Nat)] -> [Element -> Seq(Nat)]]
  BY ToBufType, ElementParts
<1>2. ASSUME NEW g \in [Element -> Seq(Nat)], NEW h \in [Element -> Seq(Nat)],
             NEW a \in Element, \A i \in DOMAIN a.obj : g[a.obj[i].val] = h[a.obj[i].val]
      PROVE  F[g][a] = F[h][a]
  <2>1. ToBuf(g, a) = ToBuf(h, a)
    <3>1. [i \in DOMAIN a.obj |-> Bytes(a.obj[i].key) \o g[a.obj[i].val]]
            = [i \in DOMAIN a.obj |-> Bytes(a.obj[i].key) \o h[a.obj[i].val]]
      BY <1>2, Zenon
    <3> QED BY <3>1, Zenon DEF ToBuf
  <2> QED BY <2>1
<1>3. PICK g \in [Element -> Seq(Nat)] : F[g] = g
  <2>1. << >> \in Seq(Nat)
    OBVIOUS
  <2> HIDE DEF F
  <2> QED BY <1>1, <1>2, <2>1, FixedPoint
<1>4. g = Body(g)
  BY <1>3
<1> DEFINE h == CHOOSE f : f = Body(f)
<1>5. h = Body(h)
  BY <1>4
<1>6. amf_to_buf = h
  BY DEF amf_to_buf
<1> HIDE DEF h
<1> QED BY <1>5, <1>6

LEMMA ToBufIsSeq ==
    \A a \in Element : amf_to_buf[a] \in Seq(Nat)
<1> DEFINE S == {a \in Element : amf_to_buf[a] \in Seq(Nat)}
<1>1. ASSUME NEW a \in Element, \A i \in DOMAIN a.obj : a.obj[i].val \in S PROVE a \in S
  <2>1. \A i \in DOMAIN a.obj : amf_to_buf[a.obj[i].val] \in Seq(Nat)
    BY <1>1
  <2> QED BY <2>1, ToBufEq, ToBufType
<1>2. \A a \in Element : a \in S
  <2> HIDE DEF S
  <2> QED BY <1>1, ElementInd
<1> QED BY <1>2

(* What amf_to_buf writes for an element, by its type                      *)
LEMMA BytesParts ==
    ASSUME NEW a \in Element
    PROVE  \E r : Follows(amf_to_buf, a, r) /\ amf_to_buf[a] = <<a.type>> \o r
<1>1. \A i \in DOMAIN a.obj : amf_to_buf[a.obj[i].val] \in Seq(Nat)
  BY ElementParts, ToBufIsSeq
<1> DEFINE g == amf_to_buf
<1>2. \A i \in DOMAIN a.obj : g[a.obj[i].val] \in Seq(Nat)
  BY <1>1
<1>3. amf_to_buf[a] = ToBuf(g, a)
  BY ToBufEq
<1> HIDE DEF g
<1>4. \E r : Follows(g, a, r) /\ ToBuf(g, a) = <<a.type>> \o r
  BY <1>2, ToBufParts
<1> QED BY <1>3, <1>4 DEF g

(* amf_size (amf.c:380-404) and amf_to_buf (442-489) agree on every        *)
(* element, whatever is inside it.                                         *)
THEOREM SizeIsExact ==
    \A a \in Element : Len(amf_to_buf[a]) = amf_size[a]
<1> DEFINE S == {a \in Element : Len(amf_to_buf[a]) = amf_size[a]}
<1>1. ASSUME NEW a \in Element, \A i \in DOMAIN a.obj : a.obj[i].val \in S PROVE a \in S
  <2> SUFFICES Len(amf_to_buf[a]) = amf_size[a]
    OBVIOUS
  <2> USE DEF AMF_NUMBER, AMF_BOOLEAN, AMF_STRING, AMF_OBJECT, AMF_NULL, AMF_UNDEFINED
  <2>1. \A i \in DOMAIN a.obj : /\ Len(amf_to_buf[a.obj[i].val]) = amf_size[a.obj[i].val]
                                /\ amf_size[a.obj[i].val] \in Nat
                                /\ amf_to_buf[a.obj[i].val] \in Seq(Nat)
    BY <1>1, ElementParts, SizeType, ToBufIsSeq
  <2>2. PICK r : Follows(amf_to_buf, a, r) /\ amf_to_buf[a] = <<a.type>> \o r
    BY BytesParts
  <2>3. Len(amf_to_buf[a]) = 1 + Len(r)
    <3>1. <<a.type>> \in Seq(Nat) /\ Len(<<a.type>>) = 1
      BY ElementTypes
    <3>2. r \in Seq(Nat)
      BY <2>2 DEF Follows
    <3> QED BY <2>2, <3>1, <3>2, Cat
  <2>4. amf_size[a] = SizeOf(amf_size, a)
    BY SizeEq
  <2>5. CASE a.type = AMF_OBJECT
    <3> DEFINE ns == [i \in DOMAIN a.obj |->
                        2 + amf_strlen(a.obj[i].key) + amf_size[a.obj[i].val]]
    <3>1. ns \in Seq(Nat) /\ Len(ns) = Len(a.obj) /\ Total(ns) \in Nat
      BY <2>1, MemberSizes
    <3>2. PICK ss \in Seq(Seq(Nat)) :
                    /\ ss = [i \in DOMAIN a.obj |->
                              Bytes(a.obj[i].key) \o amf_to_buf[a.obj[i].val]]
                    /\ Len(r) = Len(FlattenSeq(ss)) + 3
      BY <2>2, <2>5 DEF Follows
    <3>3. /\ Len(ss) = Len(a.obj)
          /\ \A i \in DOMAIN a.obj :
                Len(ss[i]) = 2 + amf_strlen(a.obj[i].key) + Len(amf_to_buf[a.obj[i].val])
      BY <2>1, <3>2, MemberBytes
    <3>4. DOMAIN a.obj = 1..Len(a.obj)
      BY ElementParts, SeqParts
    <3>5. \A i \in 1..Len(ss) : ns[i] = Len(ss[i])
      BY <2>1, <3>3, <3>4
    <3>6. SizeOf(amf_size, a) = 4 + Total(ns)
      BY <2>5 DEF SizeOf
    <3> HIDE DEF ns
    <3>7. Total(ns) = Len(FlattenSeq(ss))
      BY <3>1, <3>2, <3>3, <3>5, LenFlatten
    <3> QED BY <2>3, <2>4, <3>1, <3>2, <3>6, <3>7
  <2>6. CASE a.type = AMF_STRING
    <3>1. SizeOf(amf_size, a) = 3 + amf_strlen(a.str) /\ amf_strlen(a.str) \in Nat
      BY <2>6, ElementTypes, StrLen DEF SizeOf
    <3>2. Len(r) = 2 + amf_strlen(a.str)
      BY <2>2, <2>6 DEF Follows
    <3> QED BY <2>3, <2>4, <3>1, <3>2
  <2>7. CASE a.type \in {AMF_NUMBER, AMF_BOOLEAN, AMF_NULL, AMF_UNDEFINED}
    <3>0. /\ a.type = AMF_NUMBER => Len(r) = 8
          /\ a.type = AMF_BOOLEAN => Len(r) = 1
          /\ a.type \in {AMF_NULL, AMF_UNDEFINED} => Len(r) = 0
      BY <2>2 DEF Follows
    <3>a. CASE a.type = AMF_NUMBER
      <4>1. SizeOf(amf_size, a) = 9
        BY <3>a DEF SizeOf
      <4>2. Len(r) = 8
        BY <3>0, <3>a
      <4> QED BY <4>1, <4>2, <2>3, <2>4
    <3>b. CASE a.type = AMF_BOOLEAN
      <4>1. a.type # AMF_NUMBER /\ a.type # AMF_STRING /\ a.type # AMF_OBJECT
        BY <3>b
      <4>2. SizeOf(amf_size, a) = 2
        <5> HIDE DEF AMF_NUMBER, AMF_BOOLEAN, AMF_STRING, AMF_OBJECT
        <5> QED BY <3>b, <4>1, Zenon DEF SizeOf
      <4>3. Len(r) = 1
        BY <3>0, <3>b
      <4> QED BY <4>2, <4>3, <2>3, <2>4
    <3>c. CASE a.type \in {AMF_NULL, AMF_UNDEFINED}
      <4>1. /\ a.type # AMF_NUMBER /\ a.type # AMF_BOOLEAN /\ a.type # AMF_STRING
            /\ a.type # AMF_OBJECT
        BY <3>c
      <4>2. SizeOf(amf_size, a) = 1
        <5> HIDE DEF AMF_NUMBER, AMF_BOOLEAN, AMF_STRING, AMF_OBJECT
        <5> QED BY <4>1, Zenon DEF SizeOf
      <4> QED BY <3>0, <3>c, <4>2, <2>3, <2>4
    <3> QED BY <2>7, <3>a, <3>b, <3>c
  <2> QED BY <2>5, <2>6, <2>7, ElementTypes
<1>2. \A a \in Element : a \in S
  <2> HIDE DEF S
  <2> QED BY <1>1, ElementInd
<1> QED BY <1>2

----------------------------------------------------------------------------
(* amf_object_set: a key is in an object once.                             *)

ObjectsWith(K, S) ==
    {a \in [type : {AMF_OBJECT}, num : {0}, str : {NULL}, obj : Seq([key : K, val : S])] :
        \A i, j \in DOMAIN a.obj : a.obj[i].key = a.obj[j].key => i = j}

LEMMA ObjectSetIn ==
    ASSUME NEW K, NEW S, NEW a \in ObjectsWith(K, S), NEW k \in K, NEW v \in S
    PROVE  /\ amf_object_set(a, k, v) \in ObjectsWith(K, S)
           /\ object_index(a, k) = {} =>
                amf_object_set(a, k, v) = [a EXCEPT !.obj = Append(a.obj, [key |-> k, val |-> v])]
<1> DEFINE M == [key : K, val : S]
           n == Len(a.obj)
           m == [key |-> k, val |-> v]
<1>1. /\ a \in [type : {AMF_OBJECT}, num : {0}, str : {NULL}, obj : Seq(M)]
      /\ \A i, j \in DOMAIN a.obj : a.obj[i].key = a.obj[j].key => i = j
  BY DEF ObjectsWith
<1>2. /\ a.obj \in Seq(M) /\ n \in Nat /\ DOMAIN a.obj = 1..n
      /\ \A i \in 1..n : a.obj[i] \in M
  BY <1>1, SeqParts
<1>3. m \in M
  OBVIOUS
<1>4. CASE object_index(a, k) = {}
  <2> DEFINE new == Append(a.obj, m)
  <2>1. amf_object_set(a, k, v) = [a EXCEPT !.obj = new]
    BY <1>4 DEF amf_object_set
  <2>2. \A i \in 1..n : a.obj[i].key # k
    BY <1>2, <1>4 DEF object_index
  <2>3. m.key = k
    OBVIOUS
  <2> HIDE DEF M, m
  <2>4. new \in Seq(M) /\ DOMAIN new = 1..(n + 1)
    BY <1>2, <1>3
  <2>5. (\A i \in 1..n : new[i] = a.obj[i]) /\ new[n + 1] = m
    BY <1>2, <1>3
  <2> HIDE DEF new
  <2>6. ASSUME NEW i \in DOMAIN new, NEW j \in DOMAIN new, new[i].key = new[j].key
        PROVE  i = j
    <3>1. i \in 1..n \/ i = n + 1
      BY <2>4, <1>2
    <3>2. j \in 1..n \/ j = n + 1
      BY <2>4, <1>2
    <3> QED BY <3>1, <3>2, <2>2, <2>3, <2>5, <2>6, <1>1, <1>2
  <2>7. /\ [a EXCEPT !.obj = new]
                \in [type : {AMF_OBJECT}, num : {0}, str : {NULL}, obj : Seq(M)]
        /\ [a EXCEPT !.obj = new].obj = new
    BY <1>1, <2>4
  <2>8. [a EXCEPT !.obj = new] \in ObjectsWith(K, S)
    BY <2>6, <2>7 DEF ObjectsWith, M
  <2> QED BY <2>1, <2>8 DEF new, m
<1>5. CASE object_index(a, k) # {}
  <2> DEFINE new == [i \in DOMAIN a.obj |->
                IF i \in object_index(a, k) THEN [a.obj[i] EXCEPT !.val = v] ELSE a.obj[i]]
  <2>1. amf_object_set(a, k, v) = [a EXCEPT !.obj = new]
    BY <1>5 DEF amf_object_set
  <2>2. ASSUME NEW i \in 1..n PROVE new[i] \in M /\ new[i].key = a.obj[i].key
    BY <1>2
  <2>3. new \in [1..n -> M]
    <3>1. new = [i \in 1..n |-> new[i]]
      BY <1>2
    <3> HIDE DEF new
    <3> QED BY <2>2, <3>1
  <2> HIDE DEF new, M
  <2>4. new \in Seq(M) /\ DOMAIN new = 1..n
    BY <2>3, <1>2, MakeSeq
  <2>5. \A i, j \in DOMAIN new : new[i].key = new[j].key => i = j
    BY <1>1, <1>2, <2>2, <2>4
  <2>6. /\ [a EXCEPT !.obj = new]
                \in [type : {AMF_OBJECT}, num : {0}, str : {NULL}, obj : Seq(M)]
        /\ [a EXCEPT !.obj = new].obj = new
    BY <1>1, <2>4
  <2>7. [a EXCEPT !.obj = new] \in ObjectsWith(K, S)
    BY <2>5, <2>6 DEF ObjectsWith, M
  <2> QED BY <2>1, <2>7, <1>5
<1> QED BY <1>4, <1>5

LEMMA FilledSteps ==
    ASSUME NEW ms, NEW N \in Nat, N = Len(ms), NEW T, NEW off \in [0..N -> T],
           off[0] = amf_alloc(AMF_OBJECT),
           \A i \in 1..N : off[i] = amf_object_set(off[i - 1], ms[i].key, ms[i].val)
    PROVE  Filled(ms) = off[N]
<1> DEFINE Body(g) == [n \in 0..N |-> IF n = 0 THEN amf_alloc(AMF_OBJECT)
                        ELSE amf_object_set(g[n - 1], ms[n].key, ms[n].val)]
           h == CHOOSE g : g = Body(g)
<1>1. off = Body(off)
  <2>1. ASSUME NEW n \in 0..N PROVE off[n] = Body(off)[n]
    <3>1. n = 0 \/ n \in 1..N
      OBVIOUS
    <3> QED BY <3>1
  <2> QED BY <2>1
<1>2. h = Body(h)
  BY <1>1
<1>3. Filled(ms) = h[N]
  BY DEF Filled
<1> HIDE DEF h
<1> DEFINE S == {n \in 0..N : h[n] = off[n]}
<1>4. 0 \in S
  BY <1>2
<1>5. ASSUME NEW n \in 0..(N - 1), n \in S PROVE n + 1 \in S
  <2>1. n + 1 \in 1..N /\ n + 1 \in 0..N /\ (n + 1) - 1 = n /\ n + 1 # 0
    OBVIOUS
  <2>2. h[n + 1] = amf_object_set(h[n], ms[n + 1].key, ms[n + 1].val)
    BY <1>2, <2>1
  <2>3. off[n + 1] = amf_object_set(off[n], ms[n + 1].key, ms[n + 1].val)
    BY <2>1
  <2> QED BY <1>5, <2>1, <2>2, <2>3
<1>6. N \in S
  <2>1. N \in 0..N
    OBVIOUS
  <2> HIDE DEF S
  <2> QED BY <1>4, <1>5, <2>1, UpTo
<1> QED BY <1>3, <1>6

(* An object that is filled from a list has each of its keys once; and it  *)
(* has the list as its members when the list has each of its keys once.    *)
LEMMA FilledIn ==
    ASSUME NEW K, NEW S, NEW ms \in Seq([key : K, val : S])
    PROVE  /\ Filled(ms) \in ObjectsWith(K, S)
           /\ (\A i, j \in DOMAIN ms : ms[i].key = ms[j].key => i = j) => Filled(ms).obj = ms
<1> DEFINE N == Len(ms)
           T == ObjectsWith(K, S)
           M == [key : K, val : S]
           F == [i \in 1..N |-> [a \in T |-> amf_object_set(a, ms[i].key, ms[i].val)]]
<1>0. N \in Nat /\ DOMAIN ms = 1..N /\ \A i \in 1..N : ms[i] \in M
  BY SeqParts
<1>1. \A i \in 1..N : ms[i].key \in K /\ ms[i].val \in S
  BY <1>0
<1> HIDE DEF N
<1>2. ASSUME NEW i \in 1..N, NEW a \in T PROVE amf_object_set(a, ms[i].key, ms[i].val) \in T
  BY <1>1, ObjectSetIn
<1>3. amf_alloc(AMF_OBJECT) \in T
  BY DEF ObjectsWith, amf_alloc
<1> HIDE DEF T
<1>4. F \in [1..N -> [T -> T]]
  BY <1>2
<1>5. \A i \in 1..N : \A a \in T : F[i][a] = amf_object_set(a, ms[i].key, ms[i].val)
  OBVIOUS
<1> HIDE DEF F
<1>6. PICK off \in [0..N -> T] :
            off[0] = amf_alloc(AMF_OBJECT) /\ \A i \in 1..N : off[i] = F[i][off[i - 1]]
  <2> DEFINE t == amf_alloc(AMF_OBJECT)
  <2>1. N \in Nat
    BY <1>0
  <2>2. t \in T
    BY <1>3
  <2> HIDE DEF t, M
  <2>3. F \in StepsOf(N, T)
    BY <1>4 DEF StepsOf
  <2>4. \E g : Run(g, N, T, t, F)
    BY <2>1, <2>2, <2>3, PrimRec
  <2> QED BY <2>4 DEF t, Run
<1>7. ASSUME NEW i \in 1..N
      PROVE  off[i - 1] \in T /\ off[i] = amf_object_set(off[i - 1], ms[i].key, ms[i].val)
  <2>1. off[i - 1] \in T
    BY <1>0
  <2> QED BY <1>5, <1>6, <2>1
<1>8. Filled(ms) = off[N]
  <2>1. N = Len(ms)
    BY DEF N
  <2>2. off[0] = amf_alloc(AMF_OBJECT)
    BY <1>6
  <2>3. \A i \in 1..N : off[i] = amf_object_set(off[i - 1], ms[i].key, ms[i].val)
    BY <1>7
  <2>4. N \in Nat
    BY <1>0
  <2> HIDE DEF M
  <2> QED BY <2>1, <2>2, <2>3, <2>4, FilledSteps
<1>9. Filled(ms) \in T
  BY <1>0, <1>8
<1>10. ASSUME \A i, j \in DOMAIN ms : ms[i].key = ms[j].key => i = j PROVE Filled(ms).obj = ms
  <2> DEFINE P == {n \in 0..N : off[n].obj = SubSeq(ms, 1, n)}
  <2>1. 0 \in P
    <3>1. SubSeq(ms, 1, 0) = << >>
      BY <1>0
    <3>2. amf_alloc(AMF_OBJECT).obj = << >>
      BY DEF amf_alloc
    <3>3. off[0] = amf_alloc(AMF_OBJECT)
      BY <1>6
    <3>4. 0 \in 0..N
      BY <1>0
    <3> QED BY <3>1, <3>2, <3>3, <3>4
  <2>2. ASSUME NEW n \in 0..(N - 1), n \in P PROVE n + 1 \in P
    <3>1. n + 1 \in 1..N /\ n + 1 \in 0..N /\ (n + 1) - 1 = n /\ n \in 0..N
      BY <1>0
    <3> DEFINE a == off[n]
               m == ms[n + 1]
    <3>2. a \in T /\ a.obj = SubSeq(ms, 1, n)
      BY <2>2, <3>1
    <3>3. off[n + 1] = amf_object_set(a, m.key, m.val) /\ m \in M
      BY <1>0, <1>7, <3>1
    <3>4. DOMAIN a.obj = 1..n /\ \A i \in 1..n : a.obj[i] = ms[i]
      BY <1>0, <3>1, <3>2
    <3>5. object_index(a, m.key) = {}
      <4>1. ASSUME NEW i \in 1..n, ms[i].key = m.key PROVE FALSE
        <5>1. i \in DOMAIN ms /\ n + 1 \in DOMAIN ms /\ i # n + 1
          BY <1>0, <3>1
        <5>2. ms[i].key = ms[n + 1].key
          BY <4>1
        <5> QED BY <1>10, <5>1, <5>2, Zenon
      <4> HIDE DEF a, m
      <4> QED BY <3>4, <4>1 DEF object_index
    <3>6. off[n + 1] = [a EXCEPT !.obj = Append(a.obj, [key |-> m.key, val |-> m.val])]
      <4>1. m.key \in K /\ m.val \in S
        BY <1>1, <3>1
      <4> HIDE DEF a, m
      <4>2. a \in ObjectsWith(K, S)
        BY <3>2 DEF T
      <4>3. amf_object_set(a, m.key, m.val)
                = [a EXCEPT !.obj = Append(a.obj, [key |-> m.key, val |-> m.val])]
        <5> DEFINE k == m.key
                   v == m.val
        <5>1. k \in K /\ v \in S /\ object_index(a, k) = {}
          BY <3>5, <4>1
        <5> HIDE DEF k, v
        <5>2. amf_object_set(a, k, v) = [a EXCEPT !.obj = Append(a.obj, [key |-> k, val |-> v])]
          BY <4>2, <5>1, ObjectSetIn
        <5> QED BY <5>2 DEF k, v
      <4> QED BY <3>3, <4>3
    <3>7. m = [key |-> m.key, val |-> m.val]
      BY <3>3
    <3>8. off[n + 1].obj = Append(a.obj, m)
      <4> HIDE DEF a, m
      <4>1. "obj" \in DOMAIN a
        BY <3>2 DEF T, ObjectsWith
      <4> QED BY <3>6, <3>7, <4>1
    <3>9. Append(SubSeq(ms, 1, n), ms[n + 1]) = SubSeq(ms, 1, n + 1)
      BY <1>0, <3>1
    <3> QED BY <3>1, <3>2, <3>8, <3>9
  <2>3. N \in P
    <3>1. N \in 0..N
      BY <1>0
    <3> HIDE DEF P
    <3> QED BY <1>0, <2>1, <2>2, <3>1, UpTo
  <2>4. SubSeq(ms, 1, N) = ms
    BY <1>0 DEF N
  <2> QED BY <1>8, <2>3, <2>4
<1> QED BY <1>9, <1>10 DEF T

LEMMA ElementObject ==
    ASSUME NEW a \in Item, a # NULL, a.type = AMF_OBJECT
    PROVE  a \in Element /\ a \in ObjectsWith(Strings, Nested[MaxDepth - 1])
<1>0. MaxDepth \in Nat \ {0}
  BY BoundsAssumption
<1>1. a \notin Array
  BY DEF Array, AMF_OBJECT, AMF_STRICT_ARRAY
<1>2. a \in Element
  BY <1>1 DEF Item
<1>3. a \in Plain \/ a \in Objects(Nested[MaxDepth - 1])
  BY <1>0, <1>2, NestedEq DEF Element
<1>4. a \notin Plain
  BY DEF Plain, AMF_NUMBER, AMF_BOOLEAN, AMF_STRING, AMF_OBJECT, AMF_NULL, AMF_UNDEFINED
<1>5. \A i, j \in DOMAIN a.obj : a.obj[i].key = a.obj[j].key => i = j
  BY <1>2, ElementTypes
<1> QED BY <1>2, <1>3, <1>4, <1>5 DEF Objects, ObjectsWith

LEMMA ObjectElement ==
    ASSUME NEW a \in ObjectsWith(Strings, Nested[MaxDepth - 1])
    PROVE  a \in Element
<1>0. MaxDepth \in Nat \ {0}
  BY BoundsAssumption
<1>1. a \in Objects(Nested[MaxDepth - 1])
  BY DEF Objects, ObjectsWith, KeysDistinct
<1>2. Nested[MaxDepth] = Plain \cup Objects(Nested[MaxDepth - 1])
  BY <1>0, NestedEq
<1> QED BY <1>1, <1>2 DEF Element

LEMMA PlainIn == Plain \subseteq Element
<1>0. MaxDepth \in 0..MaxDepth
  BY BoundsAssumption
<1> QED BY <1>0, NestedEq DEF Element

(* What the API makes is an element or an array.                           *)
LEMMA FreshItem == Fresh \subseteq Item
<1> SUFFICES ASSUME NEW a \in Fresh PROVE a \in Item
  OBVIOUS
<1> USE DEF AMF_NUMBER, AMF_BOOLEAN, AMF_STRING, AMF_OBJECT, AMF_NULL, AMF_UNDEFINED
<1>0. 9 \in 0..(Base - 1)
  BY BaseAssumption
<1>1. CASE a \in {amf_number(9), amf_bool(9), amf_alloc(AMF_NULL), amf_alloc(AMF_UNDEFINED)}
  <2>1. a \in Plain
    BY <1>0, <1>1 DEF Plain, amf_number, amf_bool, amf_alloc
  <2> QED BY <2>1, PlainIn DEF Item
<1>2. CASE a = amf_alloc(AMF_OBJECT)
  <2>1. a \in ObjectsWith(Strings, Nested[MaxDepth - 1])
    BY <1>2 DEF ObjectsWith, amf_alloc
  <2> QED BY <2>1, ObjectElement DEF Item
<1>3. CASE \E n \in 0..MaxMembers : a = amf_array(n)
  <2>1. PICK n \in 0..MaxMembers : a = amf_array(n)
    BY <1>3
  <2>2. n \in Nat
    BY BoundsAssumption
  <2> DEFINE o == [i \in 1..n |-> [key |-> NULL, val |-> NULL]]
  <2>3. o \in [1..n -> [key : {NULL}, val : Element \cup {NULL}]]
    OBVIOUS
  <2>4. a = [type |-> AMF_STRICT_ARRAY, num |-> 0, str |-> NULL, obj |-> o]
    BY <2>1 DEF amf_array, amf_alloc
  <2> HIDE DEF o
  <2>5. o \in Seq([key : {NULL}, val : Element \cup {NULL}])
    BY <2>2, <2>3, MakeSeq
  <2>6. a \in Array
    BY <2>4, <2>5 DEF Array
  <2> QED BY <2>6 DEF Item
<1>4. CASE \E s \in Strs : a = amf_string(s) \/ a = amf_stringf(s)
  <2>1. PICK s \in Strings \cup {NULL} : a = amf_string(s)
    BY <1>4, ValuesAssumption DEF amf_stringf
  <2>2. a \in Plain
    BY <2>1 DEF Plain, amf_string, amf_alloc
  <2> QED BY <2>2, PlainIn DEF Item
<1> QED BY <1>1, <1>2, <1>3, <1>4 DEF Fresh

LEMMA ObjectSetItem ==
    ASSUME NEW a \in Item, a # NULL, a.type = AMF_OBJECT, NEW k \in Keys, NEW v \in Values
    PROVE  amf_object_set(a, k, v) \in Element
<1>1. a \in ObjectsWith(Strings, Nested[MaxDepth - 1])
  BY ElementObject
<1>2. k \in Strings /\ v \in Nested[MaxDepth - 1]
  BY ValuesAssumption
<1>3. amf_object_set(a, k, v) \in ObjectsWith(Strings, Nested[MaxDepth - 1])
  BY <1>1, <1>2, ObjectSetIn
<1> QED BY <1>3, ObjectElement

LEMMA ArraySetItem ==
    ASSUME NEW a \in Item, a # NULL, a.type = AMF_STRICT_ARRAY, NEW j \in DOMAIN a.obj,
           NEW v \in Values
    PROVE  amf_array_set(a, j, v) \in Array
<1> DEFINE M == [key : {NULL}, val : Element \cup {NULL}]
<1>1. a \in Array
  BY ElementTypes DEF Item, AMF_NUMBER, AMF_BOOLEAN, AMF_STRING, AMF_OBJECT, AMF_NULL,
     AMF_UNDEFINED, AMF_STRICT_ARRAY
<1>2. a.obj \in Seq(M)
  BY <1>1 DEF Array
<1>3. a.obj[j] \in M
  BY <1>2, SeqParts
<1> DEFINE m == [a.obj[j] EXCEPT !.val = v]
<1>4. m \in M
  <2>1. v \in Element
    <3>1. MaxDepth - 1 \in 0..MaxDepth
      BY BoundsAssumption
    <3> QED BY <3>1, ValuesAssumption, NestedIn
  <2> QED BY <1>3, <2>1
<1>5. amf_array_set(a, j, v) = [a EXCEPT !.obj = [a.obj EXCEPT ![j] = m]]
  BY DEF amf_array_set
<1> HIDE DEF m, M
<1>6. [a.obj EXCEPT ![j] = m] \in Seq(M)
  BY <1>2, <1>4
<1> QED BY <1>1, <1>5, <1>6 DEF Array, M

----------------------------------------------------------------------------
(* The state: an invoke of elements, and nothing read before it is written.*)

Typed ==
    /\ inv \in [elem : Seq(Item), cur : Nat]
    /\ Len(inv.elem) <= MaxElems /\ inv.cur <= Len(inv.elem)
    /\ wire = NULL => back = NULL

LEMMA InitTyped == Init => Typed
<1> SUFFICES ASSUME Init PROVE Typed
  OBVIOUS
<1>1. PICK n \in 0..MaxElems : inv = amf_invoke_new(n)
  BY DEF Init
<1>2. n \in Nat
  BY BoundsAssumption
<1> DEFINE e == [i \in 1..n |-> NULL]
<1>3. e \in [1..n -> Item]
  BY DEF Item
<1>4. inv = [elem |-> e, cur |-> 0]
  BY <1>1 DEF amf_invoke_new
<1> HIDE DEF e
<1>5. e \in Seq(Item) /\ Len(e) = n
  BY <1>2, <1>3, MakeSeq
<1> QED BY <1>1, <1>2, <1>4, <1>5, BoundsAssumption DEF Typed, Init

LEMMA SetElem ==
    ASSUME NEW es \in Seq(Item), NEW i \in DOMAIN es, NEW a \in Item
    PROVE  [es EXCEPT ![i] = a] \in Seq(Item) /\ Len([es EXCEPT ![i] = a]) = Len(es)
OBVIOUS

LEMMA NextTyped == Typed /\ [Next]_vars => Typed'
<1> SUFFICES ASSUME Typed, [Next]_vars PROVE Typed'
  OBVIOUS
<1>0. /\ inv \in [elem : Seq(Item), cur : Nat]
      /\ Len(inv.elem) <= MaxElems /\ inv.cur <= Len(inv.elem)
      /\ wire = NULL => back = NULL
      /\ Len(inv.elem) \in Nat /\ MaxElems \in Nat
      /\ \A i \in DOMAIN inv.elem : inv.elem[i] \in Item
  BY SeqParts, BoundsAssumption DEF Typed
<1>a. ASSUME NEW i \in DOMAIN inv.elem, NEW a \in Item,
             inv' = [inv EXCEPT !.elem = [inv.elem EXCEPT ![i] = a]], UNCHANGED <<wire, back>>
      PROVE  Typed'
  <2>1. [inv.elem EXCEPT ![i] = a] \in Seq(Item)
        /\ Len([inv.elem EXCEPT ![i] = a]) = Len(inv.elem)
    BY <1>0, <1>a, SetElem
  <2> QED BY <1>0, <1>a, <2>1 DEF Typed
<1>1. CASE Set
  <2>1. PICK i \in DOMAIN inv.elem, a \in Fresh : inv' = amf_invoke_set(i, a)
    BY <1>1 DEF Set
  <2>2. a \in Item
    BY <2>1, FreshItem
  <2>3. inv' = [inv EXCEPT !.elem = [inv.elem EXCEPT ![i] = a]] /\ UNCHANGED <<wire, back>>
    BY <1>0, <1>1, <2>1 DEF Set, amf_invoke_set
  <2> QED BY <1>a, <2>2, <2>3
<1>2. CASE AppendElem
  <2>1. PICK a \in Fresh : inv' = amf_invoke_append(a)
    BY <1>2 DEF AppendElem
  <2>2. a \in Item /\ inv.cur < MaxElems /\ UNCHANGED <<wire, back>>
    BY <1>2, <2>1, FreshItem DEF AppendElem
  <2> DEFINE i == inv.cur + 1
             es == IF i > Len(inv.elem) THEN Append(inv.elem, a) ELSE [inv.elem EXCEPT ![i] = a]
  <2>3. inv' = [elem |-> es, cur |-> i]
    BY <2>1 DEF amf_invoke_append
  <2>4. es \in Seq(Item) /\ i <= Len(es) /\ Len(es) <= MaxElems
    <3>1. CASE i > Len(inv.elem)
      BY <1>0, <2>2, <3>1
    <3>2. CASE ~(i > Len(inv.elem))
      <4>1. i \in DOMAIN inv.elem /\ es = [inv.elem EXCEPT ![i] = a] /\ i <= Len(inv.elem)
        BY <1>0, <3>2
      <4> HIDE DEF i, es
      <4> QED BY <1>0, <2>2, <4>1, SetElem
    <3> QED BY <3>1, <3>2
  <2>5. i \in Nat
    BY <1>0
  <2> HIDE DEF i, es
  <2> QED BY <1>0, <2>2, <2>3, <2>4, <2>5 DEF Typed
<1>3. CASE ObjectSet
  <2>1. PICK i \in DOMAIN inv.elem, k \in Keys, v \in Values :
         /\ IsType(i, AMF_OBJECT)
         /\ inv' = [inv EXCEPT !.elem[i] = amf_object_set(@, k, v)]
    BY <1>3 DEF ObjectSet
  <2>2. amf_object_set(inv.elem[i], k, v) \in Item
    BY <1>0, <2>1, ObjectSetItem DEF IsType, Item
  <2>3. /\ inv' = [inv EXCEPT !.elem =
                        [inv.elem EXCEPT ![i] = amf_object_set(inv.elem[i], k, v)]]
        /\ UNCHANGED <<wire, back>>
    BY <1>0, <1>3, <2>1 DEF ObjectSet
  <2> QED BY <1>a, <2>2, <2>3
<1>4. CASE ArraySet
  <2>1. PICK i \in DOMAIN inv.elem, v \in Values :
         /\ IsType(i, AMF_STRICT_ARRAY)
         /\ \E j \in DOMAIN inv.elem[i].obj :
              inv' = [inv EXCEPT !.elem[i] = amf_array_set(@, j, v)]
    BY <1>4 DEF ArraySet
  <2>2. PICK j \in DOMAIN inv.elem[i].obj :
              inv' = [inv EXCEPT !.elem[i] = amf_array_set(@, j, v)]
    BY <2>1
  <2>3. amf_array_set(inv.elem[i], j, v) \in Item
    BY <1>0, <2>1, ArraySetItem DEF IsType, Item
  <2>4. /\ inv' = [inv EXCEPT !.elem =
                        [inv.elem EXCEPT ![i] = amf_array_set(inv.elem[i], j, v)]]
        /\ UNCHANGED <<wire, back>>
    BY <1>0, <1>4, <2>2 DEF ArraySet
  <2> QED BY <1>a, <2>3, <2>4
<1>5. CASE Send
  BY <1>0, <1>5 DEF Send, Written, Building, Typed
<1>6. CASE Receive
  BY <1>0, <1>6 DEF Receive, Written, Building, Typed
<1>7. CASE Read
  BY <1>0, <1>7 DEF Read, Typed
<1>8. CASE UNCHANGED vars
  BY <1>0, <1>8 DEF vars, Typed
<1> QED BY <1>1, <1>2, <1>3, <1>4, <1>5, <1>6, <1>7, <1>8 DEF Next

LEMMA AlwaysTyped == Spec => []Typed
<1>1. Init => Typed
  BY InitTyped
<1>2. Typed /\ [Next]_vars => Typed'
  BY NextTyped
<1> QED BY <1>1, <1>2, PTL DEF Spec

----------------------------------------------------------------------------
(* The buffer of an invoke is filled to the last byte (rtmp.c:623-628,     *)
(* amf.c:380-418 against 442-502), however deep its objects are and        *)
(* however many elements it has.                                           *)
LEMMA TypedSizeExact == Typed => SizeExact
<1> SUFFICES ASSUME Typed, NoArray PROVE Len(amf_invoke_to_buf(inv.elem)) = amf_invoke_buf_size(inv.elem)
  BY DEF SizeExact
<1> DEFINE es == inv.elem
           n == Len(es)
           ss == [i \in DOMAIN es |-> IF es[i] = NULL THEN <<AMF_NULL>> ELSE amf_to_buf[es[i]]]
           ns == [i \in DOMAIN es |-> IF es[i] = NULL THEN 1 ELSE amf_size[es[i]]]
<1>1. n \in Nat /\ DOMAIN es = 1..n /\ \A i \in DOMAIN es : es[i] \in Item
  BY SeqParts DEF Typed
<1>2. ASSUME NEW i \in 1..n
      PROVE  ss[i] \in Seq(Nat) /\ ns[i] \in Nat /\ ns[i] = Len(ss[i])
  <2>1. CASE es[i] = NULL
    BY <1>1, <2>1 DEF AMF_NULL
  <2>2. CASE es[i] # NULL
    <3>1. es[i] \notin Array
      BY <1>1, <2>2 DEF NoArray, IsType, Array
    <3>2. es[i] \in Element
      BY <1>1, <2>2, <3>1 DEF Item
    <3>3. ss[i] = amf_to_buf[es[i]] /\ ns[i] = amf_size[es[i]]
      BY <1>1, <2>2
    <3> QED BY <3>2, <3>3, SizeIsExact, SizeType, ToBufIsSeq
  <2> QED BY <2>1, <2>2
<1>3. amf_invoke_to_buf(inv.elem) = FlattenSeq(ss) /\ amf_invoke_buf_size(inv.elem) = Total(ns)
  BY DEF amf_invoke_to_buf, amf_invoke_buf_size
<1>4. DOMAIN ss = 1..n /\ DOMAIN ns = 1..n /\ ss = [i \in 1..n |-> ss[i]] /\ ns = [i \in 1..n |-> ns[i]]
  BY <1>1
<1> HIDE DEF ss, ns, n
<1>5. ss \in [1..n -> Seq(Nat)] /\ ns \in [1..n -> Nat]
  BY <1>2, <1>4
<1>6. ss \in Seq(Seq(Nat)) /\ Len(ss) = n /\ ns \in Seq(Nat) /\ Len(ns) = n
  BY <1>1, <1>5, MakeSeq
<1>7. Total(ns) = Len(FlattenSeq(ss))
  BY <1>2, <1>6, LenFlatten
<1> QED BY <1>3, <1>7

(* An invoke's size is that of the bytes that are sent for it, whichever   *)
(* calls of the API built it (amf.c:406-418, 491-502).                     *)
THEOREM AmfSizeExact == Spec => []SizeExact
<1>1. Typed => SizeExact
  BY TypedSizeExact
<1> QED BY <1>1, AlwaysTyped, PTL

----------------------------------------------------------------------------
(* The parser: on every buffer it is a function that says of each position *)
(* what is there, and what it reads ends behind where it started.          *)

Buffers == [bytes : Seq(Nat), marks : Nat]
Parts == {"element", "members"}
ParsePart(b, g, w, p) == IF w = "element" THEN ParseElement(b, g, p) ELSE ParseMembers(b, g, p)

IsList(ms) == \E K, S : ms \in Seq([key : K, val : S])

Good(w, r, p) ==
    r.val # NULL => /\ r.next \in Nat /\ r.next > p
                    /\ w = "element" => KeysDistinct(r.val)
                    /\ w = "members" => IsList(r.val)
GoodFrom(g, q) == \A w \in Parts, p \in Pos : p >= q => Good(w, g[w][p], p)
Agree(g, h, q) == \A w \in Parts, p \in Pos : p >= q => g[w][p] = h[w][p]

LEMMA SizeInBuffer ==
    ASSUME NEW b \in Buffers, NEW p \in Pos
    PROVE  /\ End(b) \in Nat
           /\ p + 2 <= End(b) => Size16(b, p) \in Nat
           /\ p + 4 <= End(b) => Size32(b, p) \in Nat
<1>0. Base \in Nat
  BY BaseAssumption
<1>1. b.bytes \in Seq(Nat) /\ Len(b.bytes) \in Nat /\ DOMAIN b.bytes = 1..Len(b.bytes)
  BY SeqParts DEF Buffers
<1>2. \A q \in 1..Len(b.bytes) : b.bytes[q] \in Nat
  BY <1>1
<1>3. End(b) = Len(b.bytes) + 1
  BY DEF End
<1>4. \A x, y \in Nat : Base * x + y \in Nat
  BY <1>0
<1>5. ASSUME NEW q \in Pos, q + 2 <= End(b) PROVE Size16(b, q) \in Nat
  <2>1. q \in 1..Len(b.bytes) /\ q + 1 \in 1..Len(b.bytes)
    BY <1>1, <1>3, <1>5 DEF Pos
  <2> QED BY <1>2, <1>4, <2>1 DEF Size16
<1>6. ASSUME p + 4 <= End(b) PROVE Size32(b, p) \in Nat
  <2>1. p + 2 \in Pos /\ (p + 2) + 2 <= End(b) /\ p + 2 <= End(b)
    BY <1>6, <1>1, <1>3 DEF Pos
  <2>2. Size16(b, p) \in Nat /\ Size16(b, p + 2) \in Nat
    BY <1>5, <2>1
  <2>3. \A x, y \in Nat : Base * Base * x + y \in Nat
    BY <1>0
  <2> QED BY <2>2, <2>3 DEF Size32
<1> QED BY <1>1, <1>3, <1>5, <1>6

(* One member and the rest, as the code of ParseMembers goes through them: *)
(* nothing, the end, the last member, or a member and more.                *)
LEMMA MembersCases ==
    ASSUME NEW b \in Buffers, NEW g, NEW p \in Pos, NEW v, v = p + 2 + Size16(b, p),
           NEW e, e = g["element"][v],
           NEW m, m = [key |-> Chars(b, p + 2, v), val |-> e.val]
    PROVE  /\ p + 2 >= End(b) \/ v > End(b) => ParseMembers(b, g, p) = Failed
           /\ ~(p + 2 >= End(b) \/ v > End(b)) =>
                /\ v \in Pos /\ v > p
                /\ At(b, v) = AMF_OBJECT_END => ParseMembers(b, g, p) = Parsed(<<>>, v + 1)
                /\ At(b, v) # AMF_OBJECT_END =>
                    /\ e.val = NULL => ParseMembers(b, g, p) = Failed
                    /\ e.val # NULL =>
                        /\ At(b, e.next) = AMF_OBJECT_END =>
                              ParseMembers(b, g, p) = Parsed(<<m>>, e.next + 1)
                        /\ At(b, e.next) # AMF_OBJECT_END =>
                              ParseMembers(b, g, p) =
                                IF g["members"][e.next].val = NULL THEN Failed
                                ELSE Parsed(<<m>> \o g["members"][e.next].val,
                                            g["members"][e.next].next)
<1>1. ParseMembers(b, g, p) =
        IF p + 2 >= End(b) \/ v > End(b) THEN Failed
        ELSE IF At(b, v) = AMF_OBJECT_END THEN Parsed(<<>>, v + 1)
        ELSE IF e.val = NULL THEN Failed
        ELSE IF At(b, e.next) = AMF_OBJECT_END THEN Parsed(<<m>>, e.next + 1)
        ELSE IF g["members"][e.next].val = NULL THEN Failed
        ELSE Parsed(<<m>> \o g["members"][e.next].val, g["members"][e.next].next)
  BY Zenon DEF ParseMembers
<1>2. ~(p + 2 >= End(b) \/ v > End(b)) => v \in Pos /\ v > p
  <2> SUFFICES ASSUME ~(p + 2 >= End(b)) PROVE v \in Pos /\ v > p
    OBVIOUS
  <2>1. End(b) \in Nat /\ p + 2 <= End(b)
    BY SizeInBuffer DEF Pos
  <2>2. Size16(b, p) \in Nat
    BY <2>1, SizeInBuffer
  <2> QED BY <2>2 DEF Pos
<1> QED BY <1>1, <1>2, Zenon

LEMMA ParsePartSame ==
    ASSUME NEW b \in Buffers, NEW g, NEW h, NEW p \in Pos, NEW w \in Parts,
           GoodFrom(g, p + 1), Agree(g, h, p + 1)
    PROVE  ParsePart(b, g, w, p) = ParsePart(b, h, w, p)
<1>0. /\ p + 1 \in Pos /\ p + 5 \in Pos /\ (p + 1) + 4 = p + 5
      /\ \A q \in Pos : q > p => q >= p + 1
  BY DEF Pos
<1>1. \A u \in Parts, q \in Pos : q > p => g[u][q] = h[u][q]
  BY <1>0 DEF Agree
<1>2. "element" \in Parts /\ "members" \in Parts
  BY DEF Parts
<1>3. ParseMembers(b, g, p) = ParseMembers(b, h, p)
  <2> DEFINE v == p + 2 + Size16(b, p)
             e == g["element"][v]
             f == h["element"][v]
             m == [key |-> Chars(b, p + 2, v), val |-> e.val]
             k == [key |-> Chars(b, p + 2, v), val |-> f.val]
  <2>1. CASE p + 2 >= End(b) \/ v > End(b)
    <3>1. ParseMembers(b, g, p) = Failed
      BY <2>1, Zenon DEF ParseMembers
    <3>2. ParseMembers(b, h, p) = Failed
      BY <2>1, Zenon DEF ParseMembers
    <3> QED BY <3>1, <3>2
  <2>2. CASE ~(p + 2 >= End(b) \/ v > End(b))
    <3>1. v \in Pos /\ v > p
      BY <2>2, MembersCases
    <3>2. e = f /\ m = k
      BY <3>1, <1>1, <1>2
    <3>3. e.val # NULL => e.next \in Pos /\ g["members"][e.next] = h["members"][e.next]
      <4> SUFFICES ASSUME e.val # NULL
                   PROVE  e.next \in Pos /\ g["members"][e.next] = h["members"][e.next]
        OBVIOUS
      <4>1. Good("element", e, v)
        BY <3>1, <1>0, <1>2 DEF GoodFrom
      <4>2. e.next \in Nat /\ e.next > v
        BY <4>1 DEF Good
      <4>3. e.next \in Pos /\ e.next > p
        BY <4>2, <3>1 DEF Pos
      <4> QED BY <4>3, <1>1, <1>2
    <3>4. ParseMembers(b, g, p) = ParseMembers(b, h, p)
      <4>1. ParseMembers(b, g, p) =
              IF At(b, v) = AMF_OBJECT_END THEN Parsed(<<>>, v + 1)
              ELSE IF e.val = NULL THEN Failed
              ELSE IF At(b, e.next) = AMF_OBJECT_END THEN Parsed(<<m>>, e.next + 1)
              ELSE IF g["members"][e.next].val = NULL THEN Failed
              ELSE Parsed(<<m>> \o g["members"][e.next].val, g["members"][e.next].next)
        BY <2>2, Zenon DEF ParseMembers
      <4>2. ParseMembers(b, h, p) =
              IF At(b, v) = AMF_OBJECT_END THEN Parsed(<<>>, v + 1)
              ELSE IF f.val = NULL THEN Failed
              ELSE IF At(b, f.next) = AMF_OBJECT_END THEN Parsed(<<k>>, f.next + 1)
              ELSE IF h["members"][f.next].val = NULL THEN Failed
              ELSE Parsed(<<k>> \o h["members"][f.next].val, h["members"][f.next].next)
        BY <2>2, Zenon DEF ParseMembers
      <4> DEFINE more == g["members"][e.next]
                 rest == h["members"][f.next]
                 Ex(x, y, z) == IF At(b, v) = AMF_OBJECT_END THEN Parsed(<<>>, v + 1)
                                ELSE IF x.val = NULL THEN Failed
                                ELSE IF At(b, x.next) = AMF_OBJECT_END
                                THEN Parsed(<<y>>, x.next + 1)
                                ELSE IF z.val = NULL THEN Failed
                                ELSE Parsed(<<y>> \o z.val, z.next)
      <4>3. ParseMembers(b, g, p) = Ex(e, m, more) /\ ParseMembers(b, h, p) = Ex(f, k, rest)
        BY <4>1, <4>2, Zenon
      <4>4. CASE e.val = NULL
        <5>1. \A x, y, z, u : x.val = NULL => Ex(x, y, z) = Ex(x, y, u)
          BY Zenon
        <5> HIDE DEF Ex, e, f, m, k, v, more, rest
        <5>2. Ex(e, m, more) = Ex(e, m, rest)
          BY <5>1, <4>4
        <5> QED BY <4>3, <5>2, <3>2
      <4>5. CASE e.val # NULL
        <5>1. more = rest
          BY <3>2, <3>3, <4>5, Zenon
        <5> HIDE DEF Ex, e, f, m, k, v, more, rest
        <5> QED BY <4>3, <5>1, <3>2
      <4> QED BY <4>4, <4>5
    <3> QED BY <3>4
  <2> QED BY <2>1, <2>2
<1>4. ParseElement(b, g, p) = ParseElement(b, h, p)
  <2>1. /\ g["members"][p + 1] = h["members"][p + 1]
        /\ g["members"][(p + 1) + 4] = h["members"][(p + 1) + 4]
        /\ g["element"][(p + 1) + 4] = h["element"][(p + 1) + 4]
    <3>1. p + 1 > p /\ p + 5 > p
      BY DEF Pos
    <3> QED BY <1>0, <1>1, <1>2, <3>1
  <2>2. ParseObject(b, g, p + 1) = ParseObject(b, h, p + 1)
    BY <2>1, Zenon DEF ParseObject
  <2>3. ParseObject(b, g, (p + 1) + 4) = ParseObject(b, h, (p + 1) + 4)
    BY <2>1, Zenon DEF ParseObject
  <2>4. ParseArray(b, g, p + 1) = ParseArray(b, h, p + 1)
    BY <2>1, Zenon DEF ParseArray
  <2> DEFINE Ex(x, y, z) ==
        IF p >= End(b) THEN Failed
        ELSE
        CASE b.bytes[p] = AMF_NUMBER ->
              IF (p + 1) + 8 > End(b) THEN Failed
              ELSE Parsed(amf_number(b.bytes[p + 1]), (p + 1) + 8)
          [] b.bytes[p] = AMF_BOOLEAN ->
              IF p + 1 >= End(b) THEN Failed
              ELSE Parsed(amf_bool(b.bytes[p + 1]), (p + 1) + 1)
          [] b.bytes[p] = AMF_STRING -> ParseString(b, p + 1)
          [] b.bytes[p] = AMF_OBJECT -> x
          [] b.bytes[p] = AMF_ECMA_ARRAY -> IF (p + 1) + 4 > End(b) THEN Failed ELSE y
          [] b.bytes[p] = AMF_STRICT_ARRAY -> z
          [] b.bytes[p] \in {AMF_NULL, AMF_UNDEFINED} -> Parsed(amf_alloc(b.bytes[p]), p + 1)
          [] OTHER -> Parsed(amf_alloc(AMF_UNDEFINED), End(b))
  <2>5. \A f : ParseElement(b, f, p) =
            Ex(ParseObject(b, f, p + 1), ParseObject(b, f, (p + 1) + 4), ParseArray(b, f, p + 1))
    BY Zenon DEF ParseElement
  <2> HIDE DEF Ex
  <2> QED BY <2>2, <2>3, <2>4, <2>5
<1> QED BY <1>3, <1>4 DEF ParsePart

LEMMA ListMore ==
    ASSUME NEW ms, IsList(ms), NEW k, NEW v
    PROVE  IsList(<<[key |-> k, val |-> v]>> \o ms)
<1>1. PICK K, S : ms \in Seq([key : K, val : S])
  BY DEF IsList
<1> DEFINE L == K \cup {k}
           T == S \cup {v}
           M == [key : L, val : T]
           one == <<[key |-> k, val |-> v]>>
<1>2. one \in Seq(M)
  OBVIOUS
<1>3. [key : K, val : S] \subseteq M
  OBVIOUS
<1> HIDE DEF M
<1>4. ms \in Seq(M)
  BY <1>1, <1>3, SeqMono
<1> HIDE DEF one
<1>5. one \o ms \in Seq(M)
  BY <1>2, <1>4, Cat
<1> QED BY <1>5 DEF IsList, M, one

LEMMA ListOne ==
    ASSUME NEW k, NEW v
    PROVE  IsList(<<>>) /\ IsList(<<[key |-> k, val |-> v]>>)
<1> DEFINE M == [key : {k}, val : {v}]
<1>1. <<>> \in Seq(M) /\ <<[key |-> k, val |-> v]>> \in Seq(M)
  OBVIOUS
<1> QED BY <1>1 DEF IsList

(* What is parsed from a good table of what starts further on is good.     *)
LEMMA ParsePartGood ==
    ASSUME NEW b \in Buffers, NEW g, NEW p \in Pos, NEW w \in Parts, GoodFrom(g, p + 1)
    PROVE  Good(w, ParsePart(b, g, w, p), p)
<1>0. /\ p \in Nat /\ p + 1 \in Pos /\ p + 5 \in Pos /\ (p + 1) + 4 = p + 5
      /\ \A q \in Pos : q > p => q >= p + 1
      /\ \A q \in Nat : q > p => q \in Pos
      /\ End(b) \in Nat
  BY SizeInBuffer DEF Pos
<1>1. \A u \in Parts, q \in Pos : q > p => Good(u, g[u][q], q)
  BY <1>0 DEF GoodFrom
<1>2. "element" \in Parts /\ "members" \in Parts /\ "element" # "members"
  BY DEF Parts
<1>f. Good(w, Failed, p)
  BY DEF Good, Failed, Parsed
<1>3. ASSUME w = "members" PROVE Good(w, ParseMembers(b, g, p), p)
  <2> DEFINE v == p + 2 + Size16(b, p)
             e == g["element"][v]
             m == [key |-> Chars(b, p + 2, v), val |-> e.val]
             rest == g["members"][e.next]
  <2>1. CASE p + 2 >= End(b) \/ v > End(b)
    BY <2>1, <1>f, MembersCases
  <2>2. CASE ~(p + 2 >= End(b) \/ v > End(b))
    <3>a. v \in Pos /\ v > p
      BY <2>2, MembersCases
    <3>b. At(b, v) = AMF_OBJECT_END => ParseMembers(b, g, p) = Parsed(<<>>, v + 1)
      BY <2>2, Zenon DEF ParseMembers
    <3>1. v \in Pos /\ v > p /\ v \in Nat /\ v + 1 \in Nat /\ v + 1 > p
      <4> HIDE DEF v
      <4> QED BY <3>a, <1>0 DEF Pos
    <3>2. CASE At(b, v) = AMF_OBJECT_END
      <4>1. ParseMembers(b, g, p) = Parsed(<<>>, v + 1)
        BY <3>b, <3>2
      <4>2. Parsed(<<>>, v + 1).val = <<>> /\ Parsed(<<>>, v + 1).next = v + 1
        BY DEF Parsed
      <4> HIDE DEF v
      <4> QED BY <4>1, <4>2, <3>1, <1>2, <1>3, ListOne DEF Good
    <3>3. CASE At(b, v) # AMF_OBJECT_END /\ e.val = NULL
      BY <2>2, <3>3, <1>f, MembersCases
    <3>4. CASE At(b, v) # AMF_OBJECT_END /\ e.val # NULL
      <4>1. Good("element", e, v)
        BY <3>1, <1>1, <1>2
      <4>2. e.next \in Nat /\ e.next > v
        BY <4>1, <3>4 DEF Good
      <4> HIDE DEF v
      <4>3. e.next > p /\ e.next \in Pos /\ e.next + 1 \in Nat /\ e.next + 1 > p
        BY <4>2, <3>1, <1>0
      <4>4. IsList(<<m>>)
        BY ListOne
      <4>5. CASE At(b, e.next) = AMF_OBJECT_END
        <5>1. ParseMembers(b, g, p) = Parsed(<<m>>, e.next + 1)
          BY <2>2, <3>4, <4>5, MembersCases DEF v
        <5> HIDE DEF m, e
        <5>2. Parsed(<<m>>, e.next + 1).val = <<m>> /\ Parsed(<<m>>, e.next + 1).next = e.next + 1
          BY DEF Parsed
        <5> QED BY <5>1, <5>2, <4>3, <4>4, <1>2, <1>3 DEF Good
      <4>6. CASE At(b, e.next) # AMF_OBJECT_END
        <5>1. ParseMembers(b, g, p) =
                    IF rest.val = NULL THEN Failed ELSE Parsed(<<m>> \o rest.val, rest.next)
          BY <2>2, <3>4, <4>6, MembersCases DEF v
        <5>2. CASE rest.val = NULL
          BY <5>1, <5>2, <1>f
        <5>3. CASE rest.val # NULL
          <6>1. Good("members", rest, e.next)
            BY <4>3, <1>1, <1>2
          <6>2. rest.next \in Nat /\ rest.next > e.next /\ IsList(rest.val)
            BY <6>1, <5>3 DEF Good
          <6>3. IsList(<<m>> \o rest.val)
            BY <6>2, ListMore
          <6> HIDE DEF rest, m, e
          <6>4. rest.next > p
            BY <6>2, <4>2, <4>3, <1>0
          <6> DEFINE r == Parsed(<<m>> \o rest.val, rest.next)
          <6>5. r.val = <<m>> \o rest.val /\ r.next = rest.next
            BY DEF Parsed
          <6>6. ParseMembers(b, g, p) = r
            BY <5>1, <5>3
          <6> HIDE DEF r
          <6> QED BY <6>2, <6>3, <6>4, <6>5, <6>6, <1>2, <1>3 DEF Good
        <5> QED BY <5>2, <5>3
      <4> QED BY <4>5, <4>6
    <3> QED BY <3>2, <3>3, <3>4
  <2> QED BY <2>1, <2>2
<1>4. ASSUME NEW a, NEW n, n \in Nat, n > p, a.type # AMF_OBJECT
      PROVE  Good("element", Parsed(a, n), p)
  <2>1. Parsed(a, n).val = a /\ Parsed(a, n).next = n
    BY DEF Parsed
  <2> QED BY <1>2, <1>4, <2>1 DEF Good, KeysDistinct
<1>5. ASSUME NEW q \in Pos, q > p PROVE Good("element", ParseObject(b, g, q), p)
  <2> DEFINE ms == g["members"][q]
  <2>1. CASE ms.val = NULL
    <3>1. ParseObject(b, g, q) = Failed
      BY <2>1, Zenon DEF ParseObject
    <3> QED BY <3>1 DEF Good, Failed, Parsed
  <2>2. CASE ms.val # NULL
    <3>1. ParseObject(b, g, q) = Parsed(Filled(ms.val), ms.next)
      BY <2>2, Zenon DEF ParseObject
    <3>2. Good("members", ms, q)
      BY <1>1, <1>2, <1>5
    <3>3. ms.next \in Nat /\ ms.next > q /\ IsList(ms.val)
      BY <2>2, <3>2 DEF Good
    <3> HIDE DEF ms
    <3>4. ms.next > p
      BY <3>3, <1>5, <1>0 DEF Pos
    <3>5. PICK K, S : ms.val \in Seq([key : K, val : S])
      BY <3>3 DEF IsList
    <3>6. Filled(ms.val) \in ObjectsWith(K, S)
      BY <3>5, FilledIn
    <3>7. KeysDistinct(Filled(ms.val))
      BY <3>6 DEF ObjectsWith, KeysDistinct
    <3>8. Parsed(Filled(ms.val), ms.next).val = Filled(ms.val)
          /\ Parsed(Filled(ms.val), ms.next).next = ms.next
      BY DEF Parsed
    <3> QED BY <3>1, <3>3, <3>4, <3>7, <3>8, <1>2 DEF Good
  <2> QED BY <2>1, <2>2
<1>6. ASSUME w = "element" PROVE Good(w, ParseElement(b, g, p), p)
  <2> DEFINE type == b.bytes[p]
             q == p + 1
             r == ParseElement(b, g, p)
  <2>a. q \in Pos /\ q + 4 \in Pos /\ q > p /\ q + 4 > p /\ q \in Nat
    BY <1>0
  <2>1. CASE p >= End(b)
    <3>1. r = Failed
      BY <2>1, Zenon DEF ParseElement
    <3> QED BY <3>1, <1>f
  <2>2. CASE ~(p >= End(b))
    <3>0. p < End(b)
      BY <2>2, <1>0
    <3>1. r =
           CASE type = AMF_NUMBER ->
              IF q + 8 > End(b) THEN Failed ELSE Parsed(amf_number(b.bytes[q]), q + 8)
             [] type = AMF_BOOLEAN ->
              IF q >= End(b) THEN Failed ELSE Parsed(amf_bool(b.bytes[q]), q + 1)
             [] type = AMF_STRING -> ParseString(b, q)
             [] type = AMF_OBJECT -> ParseObject(b, g, q)
             [] type = AMF_ECMA_ARRAY ->
              IF q + 4 > End(b) THEN Failed ELSE ParseObject(b, g, q + 4)
             [] type = AMF_STRICT_ARRAY -> ParseArray(b, g, q)
             [] type \in {AMF_NULL, AMF_UNDEFINED} -> Parsed(amf_alloc(type), q)
             [] OTHER -> Parsed(amf_alloc(AMF_UNDEFINED), End(b))
      BY <2>2, Zenon DEF ParseElement
    <3> HIDE DEF r
    <3>2. Good("element", Parsed(amf_number(b.bytes[q]), q + 8), p)
      <4>1. amf_number(b.bytes[q]).type # AMF_OBJECT
        BY DEF amf_number, amf_alloc, AMF_NUMBER, AMF_OBJECT
      <4> QED BY <4>1, <2>a, <1>0, <1>4
    <3>3. Good("element", Parsed(amf_bool(b.bytes[q]), q + 1), p)
      <4>1. amf_bool(b.bytes[q]).type # AMF_OBJECT
        BY DEF amf_bool, amf_alloc, AMF_BOOLEAN, AMF_OBJECT
      <4> QED BY <4>1, <2>a, <1>0, <1>4
    <3>4. Good("element", ParseString(b, q), p)
      <4> DEFINE n == q + 2 + Size16(b, q)
                 a == amf_stringf(Chars(b, q + 2, n))
      <4>1. CASE q + 2 >= End(b) \/ n > End(b)
        BY <4>1, <1>f, <1>6 DEF ParseString
      <4>2. CASE ~(q + 2 >= End(b) \/ n > End(b))
        <5>1. Size16(b, q) \in Nat
          BY <4>2, <2>a, <1>0, SizeInBuffer
        <5>2. n \in Nat /\ n > p
          BY <5>1, <1>0
        <5>3. ParseString(b, q) = Parsed(a, n)
          BY <4>2 DEF ParseString
        <5>4. a.type # AMF_OBJECT
          BY DEF amf_stringf, amf_string, amf_alloc, AMF_STRING, AMF_OBJECT
        <5> QED BY <5>2, <5>3, <5>4, <1>4
      <4> QED BY <4>1, <4>2
    <3>5. Good("element", ParseObject(b, g, q), p) /\ Good("element", ParseObject(b, g, q + 4), p)
      BY <2>a, <1>5
    <3>6. Good("element", ParseArray(b, g, q), p)
      <4> DEFINE n == Size32(b, q)
                 e == g["element"][q + 4]
                 a == [amf_array(n) EXCEPT
                        !.obj = [i \in 1..n |-> [@[i] EXCEPT !.val = e.val]]]
      <4>1. ParseArray(b, g, q) = Failed \/ ParseArray(b, g, q) = Parsed(a, q + 4)
        BY Zenon DEF ParseArray
      <4>2. a.type # AMF_OBJECT
        BY DEF amf_array, amf_alloc, AMF_STRICT_ARRAY, AMF_OBJECT
      <4>3. Good("element", Parsed(a, q + 4), p)
        <5> HIDE DEF a
        <5> QED BY <4>2, <2>a, <1>0, <1>4
      <4> QED BY <4>1, <4>3, <1>f, <1>6
    <3>7. type \in {AMF_NULL, AMF_UNDEFINED} => Good("element", Parsed(amf_alloc(type), q), p)
      <4> SUFFICES ASSUME type \in {AMF_NULL, AMF_UNDEFINED}
                   PROVE  Good("element", Parsed(amf_alloc(type), q), p)
        OBVIOUS
      <4>1. amf_alloc(type).type # AMF_OBJECT
        BY DEF amf_alloc, AMF_NULL, AMF_UNDEFINED, AMF_OBJECT
      <4> QED BY <4>1, <2>a, <1>0, <1>4
    <3>8. Good("element", Parsed(amf_alloc(AMF_UNDEFINED), End(b)), p)
      <4>1. amf_alloc(AMF_UNDEFINED).type # AMF_OBJECT
        BY DEF amf_alloc, AMF_UNDEFINED, AMF_OBJECT
      <4> QED BY <4>1, <3>0, <1>0, <1>4
    <3>9. Good("element", Failed, p)
      BY <1>f, <1>6
    <3> HIDE DEF type, q
    <3>10. Good("element", r, p)
      BY <3>1, <3>2, <3>3, <3>4, <3>5, <3>6, <3>7, <3>8, <3>9, Zenon
    <3> QED BY <3>10, <1>6 DEF r
  <2> QED BY <2>1, <2>2
<1> QED BY <1>3, <1>4, <1>6 DEF ParsePart, Parts

(* The parser stops where the bytes end, so it is a function: there is one *)
(* table that its two parts make, and it is good.                          *)
LEMMA PartAtEnd ==
    ASSUME NEW b \in Buffers, NEW g, NEW w \in Parts, NEW p \in Pos, p >= End(b)
    PROVE  ParsePart(b, g, w, p) = Failed
<1>1. ParseElement(b, g, p) = Failed
  BY Zenon DEF ParseElement
<1>2. p + 2 >= End(b)
  BY SizeInBuffer DEF Pos
<1>3. ParseMembers(b, g, p) = Failed
  BY <1>2, Zenon DEF ParseMembers
<1> QED BY <1>1, <1>3 DEF ParsePart

LEMMA FailedGood == \A w, p : Good(w, Failed, p)
BY DEF Good, Failed, Parsed

Table(b, g) == [w \in Parts |-> [p \in Pos |-> ParsePart(b, g, w, p)]]

LEMMA TableAt ==
    ASSUME NEW b, NEW g, NEW w \in Parts, NEW p \in Pos
    PROVE  Table(b, g)[w][p] = ParsePart(b, g, w, p)
BY DEF Table

LEMMA TableExists ==
    ASSUME NEW b \in Buffers
    PROVE  \E g : g = Table(b, g)
<1> DEFINE N == End(b)
           Fixed(g, k) == \A w \in Parts, p \in Pos : p + k >= N => Table(b, g)[w][p] = g[w][p]
           S == {k \in Nat : \E g : GoodFrom(g, 1) /\ Fixed(g, k)}
<1>0. N \in Nat
  <2>1. 1 \in Pos
    BY DEF Pos
  <2> QED BY <2>1, SizeInBuffer
<1> HIDE DEF N
<1>1. 0 \in S
  <2> DEFINE g == [w \in Parts |-> [p \in Pos |-> Failed]]
  <2>1. \A w \in Parts, p \in Pos : g[w][p] = Failed
    OBVIOUS
  <2> HIDE DEF g
  <2>2. GoodFrom(g, 1)
    BY <2>1, FailedGood DEF GoodFrom
  <2>3. ASSUME NEW w \in Parts, NEW p \in Pos, p + 0 >= N PROVE Table(b, g)[w][p] = g[w][p]
    <3>1. p >= End(b)
      BY <1>0, <2>3 DEF N, Pos
    <3> QED BY <2>1, <3>1, PartAtEnd, TableAt
  <2> QED BY <2>2, <2>3
<1>2. ASSUME NEW k \in Nat, k \in S PROVE k + 1 \in S
  <2>1. PICK g : GoodFrom(g, 1) /\ Fixed(g, k)
    BY <1>2
  <2> DEFINE h == Table(b, g)
  <2>2. ASSUME NEW w \in Parts, NEW p \in Pos
        PROVE  GoodFrom(g, p + 1) /\ h[w][p] = ParsePart(b, g, w, p)
    <3>1. \A q \in Pos : q >= p + 1 => q >= 1
      BY DEF Pos
    <3> QED BY <2>1, <3>1, TableAt DEF GoodFrom
  <2> HIDE DEF h
  <2>3. GoodFrom(h, 1)
    <3> SUFFICES ASSUME NEW w \in Parts, NEW p \in Pos PROVE Good(w, h[w][p], p)
      BY DEF GoodFrom
    <3> QED BY <2>2, ParsePartGood
  <2>4. ASSUME NEW w \in Parts, NEW p \in Pos, p + (k + 1) >= N
        PROVE  Table(b, h)[w][p] = h[w][p]
    <3>1. ASSUME NEW u \in Parts, NEW q \in Pos, q >= p + 1 PROVE g[u][q] = h[u][q]
      <4>1. q + k >= N
        BY <2>4, <3>1, <1>0 DEF Pos
      <4> QED BY <4>1, <2>1, <3>1 DEF h
    <3>2. Agree(g, h, p + 1)
      BY <3>1 DEF Agree
    <3>3. ParsePart(b, g, w, p) = ParsePart(b, h, w, p)
      BY <2>2, <3>2, ParsePartSame
    <3>4. Table(b, h)[w][p] = ParsePart(b, h, w, p)
      BY TableAt
    <3> QED BY <2>2, <3>3, <3>4
  <2> QED BY <2>3, <2>4
<1>3. N \in S
  <2> HIDE DEF S
  <2> QED BY <1>0, <1>1, <1>2, NatInd
<1>4. PICK g : GoodFrom(g, 1) /\ Fixed(g, N)
  BY <1>3
<1> DEFINE h == Table(b, g)
<1>5. \A w \in Parts, p \in Pos : p + N >= N
  BY <1>0 DEF Pos
<1>6. \A w \in Parts, p \in Pos : h[w][p] = g[w][p]
  BY <1>4, <1>5
<1>7. ASSUME NEW w \in Parts, NEW p \in Pos PROVE ParsePart(b, g, w, p) = ParsePart(b, h, w, p)
  <2>1. \A q \in Pos : q >= p + 1 => q >= 1
    BY DEF Pos
  <2>2. GoodFrom(g, p + 1)
    BY <1>4, <2>1 DEF GoodFrom
  <2> HIDE DEF h
  <2>3. Agree(g, h, p + 1)
    BY <1>6 DEF Agree
  <2> QED BY <2>2, <2>3, ParsePartSame
<1>8. Table(b, g) = Table(b, h)
  <2> HIDE DEF h
  <2> QED BY <1>7 DEF Table
<1> QED BY <1>8

LEMMA ParseEq ==
    ASSUME NEW b \in Buffers, NEW w \in Parts, NEW p \in Pos
    PROVE  parse_element(b)[w][p] = ParsePart(b, parse_element(b), w, p)
<1> DEFINE h == CHOOSE g : g = Table(b, g)
<1>1. h = Table(b, h)
  BY TableExists
<1>2. parse_element(b) = h
  BY Zenon DEF parse_element, Table, ParsePart, Parts
<1> HIDE DEF h
<1>3. Table(b, h)[w][p] = ParsePart(b, h, w, p)
  BY TableAt
<1> QED BY <1>1, <1>2, <1>3

LEMMA ParseGood ==
    ASSUME NEW b \in Buffers
    PROVE  GoodFrom(parse_element(b), 1)
<1> DEFINE N == End(b)
           h == parse_element(b)
           S == {k \in Nat : \A w \in Parts, p \in Pos : p + k >= N => Good(w, h[w][p], p)}
<1>0. N \in Nat
  <2>1. 1 \in Pos
    BY DEF Pos
  <2> QED BY <2>1, SizeInBuffer
<1>1. \A w \in Parts, p \in Pos : h[w][p] = ParsePart(b, h, w, p)
  BY ParseEq
<1> HIDE DEF h, N
<1>2. 0 \in S
  <2> SUFFICES ASSUME NEW w \in Parts, NEW p \in Pos, p + 0 >= N PROVE Good(w, h[w][p], p)
    OBVIOUS
  <2>1. p >= End(b)
    BY <1>0 DEF N, Pos
  <2>2. h[w][p] = Failed
    BY <1>1, <2>1, PartAtEnd
  <2> QED BY <2>2, FailedGood
<1>3. ASSUME NEW k \in Nat, k \in S PROVE k + 1 \in S
  <2> SUFFICES ASSUME NEW w \in Parts, NEW p \in Pos, p + (k + 1) >= N PROVE Good(w, h[w][p], p)
    OBVIOUS
  <2>1. GoodFrom(h, p + 1)
    <3> SUFFICES ASSUME NEW u \in Parts, NEW q \in Pos, q >= p + 1 PROVE Good(u, h[u][q], q)
      BY DEF GoodFrom
    <3>1. q + k >= N
      BY <1>0 DEF Pos
    <3> QED BY <1>3, <3>1
  <2> QED BY <2>1, <1>1, ParsePartGood
<1>4. N \in S
  <2> HIDE DEF S
  <2> QED BY <1>0, <1>2, <1>3, NatInd
<1>5. \A p \in Pos : p + N >= N
  BY <1>0 DEF Pos
<1> QED BY <1>4, <1>5 DEF GoodFrom, h

(* What an invoke is read as: nothing, or elements without a key twice.    *)
ReadGood(r) == r # NULL => \E S : r \in Seq(S) /\ \A a \in S : KeysDistinct(a)

LEMMA ReadGoodMore ==
    ASSUME NEW a, NEW r, KeysDistinct(a), ReadGood(r), r # NULL
    PROVE  ReadGood(<<a>> \o r)
<1>1. PICK S : r \in Seq(S) /\ \A x \in S : KeysDistinct(x)
  BY DEF ReadGood
<1> DEFINE T == S \cup {a}
           one == <<a>>
<1>2. one \in Seq(T) /\ S \subseteq T /\ \A x \in T : KeysDistinct(x)
  BY <1>1
<1> HIDE DEF T, one
<1>3. r \in Seq(T)
  BY <1>1, <1>2, SeqMono
<1>4. one \o r \in Seq(T)
  BY <1>2, <1>3, Cat
<1> QED BY <1>2, <1>4 DEF ReadGood, one

LEMMA FromBufCases ==
    ASSUME NEW b \in Buffers, NEW f, NEW p \in Pos, NEW e, e = parse_element(b)["element"][p]
    PROVE  /\ p >= End(b) => FromBuf(b, f, p) = <<>>
           /\ ~(p >= End(b)) =>
                /\ e.val = NULL => FromBuf(b, f, p) = NULL
                /\ e.val # NULL =>
                    /\ KeysDistinct(e.val) /\ e.next \in Pos /\ e.next > p
                    /\ FromBuf(b, f, p) = IF f[e.next] = NULL THEN NULL ELSE <<e.val>> \o f[e.next]
<1>1. FromBuf(b, f, p) = IF p >= End(b) THEN <<>>
                         ELSE IF e.val = NULL \/ f[e.next] = NULL THEN NULL
                         ELSE <<e.val>> \o f[e.next]
  BY Zenon DEF FromBuf
<1>2. e.val # NULL => KeysDistinct(e.val) /\ e.next \in Pos /\ e.next > p
  <2>1. p >= 1 /\ "element" \in Parts
    BY DEF Pos, Parts
  <2>2. Good("element", e, p)
    BY <2>1, ParseGood DEF GoodFrom
  <2> QED BY <2>2 DEF Good, Pos
<1> QED BY <1>1, <1>2, Zenon

LEMMA FromExists ==
    ASSUME NEW b \in Buffers
    PROVE  \E f : f = [p \in Pos |-> FromBuf(b, f, p)]
<1> DEFINE N == End(b)
           From(f) == [p \in Pos |-> FromBuf(b, f, p)]
           S == {k \in Nat : \E f : \A p \in Pos : p + k >= N => FromBuf(b, f, p) = f[p]}
<1>0. N \in Nat
  <2>1. 1 \in Pos
    BY DEF Pos
  <2> QED BY <2>1, SizeInBuffer
<1> HIDE DEF N
<1>a. ASSUME NEW f, NEW g, NEW p \in Pos, \A q \in Pos : q > p => f[q] = g[q]
      PROVE  FromBuf(b, f, p) = FromBuf(b, g, p)
  <2> DEFINE e == parse_element(b)["element"][p]
  <2>1. CASE p >= End(b)
    BY <2>1, FromBufCases
  <2>2. CASE ~(p >= End(b)) /\ e.val = NULL
    BY <2>2, FromBufCases
  <2>3. CASE ~(p >= End(b)) /\ e.val # NULL
    <3>1. e.next \in Pos /\ e.next > p
      BY <2>3, FromBufCases
    <3>2. f[e.next] = g[e.next]
      BY <1>a, <3>1
    <3>3. FromBuf(b, f, p) = IF f[e.next] = NULL THEN NULL ELSE <<e.val>> \o f[e.next]
      BY <2>3, FromBufCases
    <3>4. FromBuf(b, g, p) = IF g[e.next] = NULL THEN NULL ELSE <<e.val>> \o g[e.next]
      BY <2>3, FromBufCases
    <3> HIDE DEF e
    <3> QED BY <3>2, <3>3, <3>4
  <2> QED BY <2>1, <2>2, <2>3
<1>1. 0 \in S
  <2> DEFINE f == [p \in Pos |-> <<>>]
  <2>1. \A p \in Pos : f[p] = <<>>
    OBVIOUS
  <2> HIDE DEF f
  <2>2. ASSUME NEW p \in Pos, p + 0 >= N PROVE FromBuf(b, f, p) = f[p]
    <3>1. p >= End(b)
      BY <1>0, <2>2 DEF N, Pos
    <3> QED BY <2>1, <3>1, FromBufCases
  <2> QED BY <2>2
<1>2. ASSUME NEW k \in Nat, k \in S PROVE k + 1 \in S
  <2>1. PICK f : \A p \in Pos : p + k >= N => FromBuf(b, f, p) = f[p]
    BY <1>2
  <2> DEFINE g == From(f)
  <2>2. \A p \in Pos : g[p] = FromBuf(b, f, p)
    OBVIOUS
  <2> HIDE DEF g
  <2>3. ASSUME NEW p \in Pos, p + (k + 1) >= N PROVE FromBuf(b, g, p) = g[p]
    <3>1. ASSUME NEW q \in Pos, q > p PROVE f[q] = g[q]
      <4>1. q + k >= N
        BY <2>3, <3>1, <1>0 DEF Pos
      <4> QED BY <4>1, <2>1, <2>2
    <3>2. FromBuf(b, f, p) = FromBuf(b, g, p)
      BY <3>1, <1>a
    <3> QED BY <2>2, <3>2
  <2> QED BY <2>3
<1>3. N \in S
  <2> HIDE DEF S
  <2> QED BY <1>0, <1>1, <1>2, NatInd
<1>4. PICK f : \A p \in Pos : FromBuf(b, f, p) = f[p]
  <2>1. \A p \in Pos : p + N >= N
    BY <1>0 DEF Pos
  <2> QED BY <1>3, <2>1
<1> DEFINE g == From(f)
<1>5. \A p \in Pos : f[p] = g[p]
  BY <1>4
<1>6. \A p \in Pos : FromBuf(b, f, p) = FromBuf(b, g, p)
  <2> HIDE DEF g
  <2> QED BY <1>5, <1>a
<1>7. g = From(g)
  <2>1. From(f) = From(g)
    <3> HIDE DEF g
    <3> QED BY <1>6
  <2> QED BY <2>1
<1> QED BY <1>7

LEMMA FromEq ==
    ASSUME NEW b \in Buffers
    PROVE  \E f : /\ amf_invoke_from_buf(b) = f[1]
                  /\ \A p \in Pos : f[p] = FromBuf(b, f, p)
<1> DEFINE f == CHOOSE g : g = [p \in Pos |-> FromBuf(b, g, p)]
<1>1. f = [p \in Pos |-> FromBuf(b, f, p)]
  BY FromExists
<1>2. amf_invoke_from_buf(b) = f[1]
  BY Zenon DEF amf_invoke_from_buf
<1> HIDE DEF f
<1>3. \A p \in Pos : f[p] = FromBuf(b, f, p)
  BY <1>1
<1> QED BY <1>2, <1>3

(* No bytes at all, and nothing behind them, make the parser (amf.c:504-642*)
(* and 709-741) return an object that has a key twice.                     *)
THEOREM ReadsGood ==
    ASSUME NEW b \in Buffers
    PROVE  ReadGood(amf_invoke_from_buf(b))
<1> DEFINE N == End(b)
<1>0. N \in Nat
  <2>1. 1 \in Pos
    BY DEF Pos
  <2> QED BY <2>1, SizeInBuffer
<1> HIDE DEF N
<1>1. PICK f : /\ amf_invoke_from_buf(b) = f[1]
               /\ \A p \in Pos : f[p] = FromBuf(b, f, p)
  BY FromEq
<1> DEFINE S == {k \in Nat : \A p \in Pos : p + k >= N => ReadGood(f[p])}
<1>2. ReadGood(<<>>) /\ ReadGood(NULL)
  <2>1. <<>> \in Seq({})
    OBVIOUS
  <2> QED BY <2>1 DEF ReadGood
<1>3. 0 \in S
  <2> SUFFICES ASSUME NEW p \in Pos, p + 0 >= N PROVE ReadGood(f[p])
    OBVIOUS
  <2>1. p >= End(b)
    BY <1>0 DEF N, Pos
  <2> QED BY <1>1, <1>2, <2>1, FromBufCases
<1>4. ASSUME NEW k \in Nat, k \in S PROVE k + 1 \in S
  <2> SUFFICES ASSUME NEW p \in Pos, p + (k + 1) >= N PROVE ReadGood(f[p])
    OBVIOUS
  <2> DEFINE e == parse_element(b)["element"][p]
  <2>1. CASE p >= End(b)
    BY <1>1, <1>2, <2>1, FromBufCases
  <2>2. CASE ~(p >= End(b)) /\ e.val = NULL
    BY <1>1, <1>2, <2>2, FromBufCases
  <2>3. CASE ~(p >= End(b)) /\ e.val # NULL
    <3>a. KeysDistinct(e.val) /\ e.next \in Pos /\ e.next > p
      BY <2>3, FromBufCases
    <3>b. FromBuf(b, f, p) = IF f[e.next] = NULL THEN NULL ELSE <<e.val>> \o f[e.next]
      BY <2>3, FromBufCases
    <3>1. /\ KeysDistinct(e.val) /\ e.next \in Pos /\ e.next > p
          /\ f[p] = IF f[e.next] = NULL THEN NULL ELSE <<e.val>> \o f[e.next]
      <4> HIDE DEF e
      <4> QED BY <1>1, <3>a, <3>b
    <3> HIDE DEF e
    <3>2. e.next + k >= N
      BY <3>1, <1>0 DEF Pos
    <3>3. ReadGood(f[e.next])
      BY <1>4, <3>1, <3>2
    <3> QED BY <3>1, <3>3, <1>2, ReadGoodMore
  <2> QED BY <2>1, <2>2, <2>3
<1>5. N \in S
  <2> HIDE DEF S
  <2> QED BY <1>0, <1>3, <1>4, NatInd
<1>6. 1 \in Pos /\ 1 + N >= N
  BY <1>0 DEF Pos
<1> QED BY <1>1, <1>5, <1>6

----------------------------------------------------------------------------
(* What is on the wire: the invoke, written by this program or by a peer,  *)
(* each slot by one of the forms it has.                                   *)

ElementForms(a) == {amf_to_buf[a], PeerElement(a)}
Complete(a) == \A j \in DOMAIN a.obj : a.obj[j].val # NULL

Codes(a, s) ==
    \/ a = NULL /\ s = <<AMF_NULL>>
    \/ a \in Element /\ s \in ElementForms(a)
    \/ a \in Array /\ Complete(a) /\ s = PeerBytes(a)

Wired(elems, b) ==
    \E ss : /\ b = FlattenSeq(ss) /\ DOMAIN ss = DOMAIN elems
            /\ ss \in Seq(Seq(Nat))
            /\ \A i \in DOMAIN elems : Codes(elems[i], ss[i])

History ==
    /\ wire # NULL => Wired(inv.elem, wire)
    /\ back # NULL => wire # NULL /\ \E marks \in Nat :
            back = [result |-> amf_invoke_from_buf([bytes |-> wire, marks |-> marks])]

LEMMA SizeBytes ==
    ASSUME NEW n \in Nat
    PROVE  Int32(n) \in Seq(Nat) /\ Len(Int32(n)) = 4
<1>1. n \div Base \in Nat /\ n % Base \in Nat
  BY BaseAssumption
<1> DEFINE x == n \div Base
           y == n % Base
<1>2. Int32(n) = <<0, 0, x, y>>
  BY DEF Int32
<1> HIDE DEF x, y
<1> QED BY <1>1, <1>2 DEF x, y

LEMMA SameSeq ==
    ASSUME NEW A, NEW s \in Seq(A), NEW t \in Seq(A), Len(s) = Len(t),
           \A k \in 1..Len(t) : s[k] = t[k]
    PROVE  s = t
<1>1. DOMAIN s = 1..Len(t) /\ DOMAIN t = 1..Len(t)
  OBVIOUS
<1>2. s = [k \in 1..Len(t) |-> s[k]] /\ t = [k \in 1..Len(t) |-> t[k]]
  BY <1>1
<1> QED BY <1>2

LEMMA TailParts ==
    ASSUME NEW x \in Nat, NEW r \in Seq(Nat)
    PROVE  /\ <<x>> \o r \in Seq(Nat) /\ Tail(<<x>> \o r) = r
           /\ Len(<<x>> \o r) = 1 + Len(r) /\ (<<x>> \o r)[1] = x
           /\ \A k \in 1..Len(r) : (<<x>> \o r)[1 + k] = r[k]
<1> DEFINE s == <<x>>
           t == s \o r
<1>1. s \in Seq(Nat) /\ Len(s) = 1 /\ s[1] = x
  OBVIOUS
<1> HIDE DEF s
<1>2. /\ t \in Seq(Nat) /\ Len(t) = 1 + Len(r) /\ t[1] = x
      /\ \A k \in 1..Len(r) : t[1 + k] = r[k]
  <2>a. s \in Seq(Nat)
    BY <1>1
  <2>1. /\ t \in Seq(Nat) /\ Len(t) = Len(s) + Len(r)
        /\ \A k \in 1..Len(s) : t[k] = s[k]
        /\ \A k \in 1..Len(r) : t[Len(s) + k] = r[k]
    BY <2>a, Cat
  <2> HIDE DEF t
  <2> QED BY <1>1, <2>1
<1> HIDE DEF t
<1>3. Tail(t) \in Seq(Nat) /\ Len(Tail(t)) = Len(r) /\ \A k \in 1..Len(r) : Tail(t)[k] = r[k]
  BY <1>2
<1>4. Tail(t) = r
  <2> DEFINE u == Tail(t)
  <2>1. u \in Seq(Nat) /\ Len(u) = Len(r) /\ \A k \in 1..Len(r) : u[k] = r[k]
    BY <1>3
  <2> HIDE DEF u
  <2>2. u = r
    BY <2>1, SameSeq
  <2> QED BY <2>2 DEF u
<1> QED BY <1>2, <1>4 DEF t, s

LEMMA PeerElementIsSeq ==
    \A a \in Element : PeerElement(a) \in Seq(Nat)
<1> TAKE a \in Element
<1>1. CASE a.type = AMF_OBJECT
  <2>1. PICK r : Follows(amf_to_buf, a, r) /\ amf_to_buf[a] = <<a.type>> \o r
    BY BytesParts
  <2>2. r \in Seq(Nat) /\ a.type \in Nat /\ AMF_ECMA_ARRAY \in Nat
    BY <2>1, <1>1 DEF Follows, AMF_OBJECT, AMF_ECMA_ARRAY
  <2>3. Tail(amf_to_buf[a]) = r
    BY <2>1, <2>2, TailParts
  <2> DEFINE n == Len(a.obj)
             s == <<AMF_ECMA_ARRAY>>
  <2>4. n \in Nat
    BY ElementParts, SeqParts
  <2>5. s \in Seq(Nat)
    BY <2>2
  <2>6. PeerElement(a) = (s \o Int32(n)) \o r
    BY <1>1, <2>3 DEF PeerElement
  <2> HIDE DEF s, n
  <2>7. Int32(n) \in Seq(Nat)
    BY <2>4, SizeBytes
  <2>8. s \o Int32(n) \in Seq(Nat)
    BY <2>5, <2>7, Cat
  <2> QED BY <2>2, <2>6, <2>8, Cat
<1>2. CASE a.type # AMF_OBJECT
  BY <1>2, ToBufIsSeq DEF PeerElement
<1> QED BY <1>1, <1>2

(* An array is written as its length and its elements, which are elements  *)
(* that are used inside others.                                            *)
LEMMA ArrayParts ==
    ASSUME NEW a \in Array, Complete(a)
    PROVE  /\ a.obj \in Seq([key : {NULL}, val : Element])
           /\ \A j \in DOMAIN a.obj : a.obj[j].val \in Element
<1>1. a.obj \in Seq([key : {NULL}, val : Element \cup {NULL}])
  BY DEF Array
<1> DEFINE n == Len(a.obj)
           f == a.obj
<1>4. f \in Seq([key : {NULL}, val : Element \cup {NULL}]) /\ n = Len(f)
      /\ \A j \in DOMAIN f : f[j].val # NULL
  BY <1>1 DEF Complete
<1> HIDE DEF n, f
<1>5. n \in Nat /\ DOMAIN f = 1..n
      /\ \A j \in 1..n : f[j] \in [key : {NULL}, val : Element] /\ f[j].val \in Element
  <2>1. n \in Nat /\ DOMAIN f = 1..n
        /\ \A j \in 1..n : f[j] \in [key : {NULL}, val : Element \cup {NULL}]
    BY <1>4, SeqParts
  <2>2. ASSUME NEW j \in 1..n
        PROVE  f[j] \in [key : {NULL}, val : Element] /\ f[j].val \in Element
    <3>1. f[j] \in [key : {NULL}, val : Element \cup {NULL}] /\ f[j].val # NULL
      BY <1>4, <2>1, <2>2
    <3> QED BY <3>1
  <2> QED BY <2>1, <2>2
<1>6. f = [j \in 1..n |-> f[j]]
  BY <1>4
<1>7. f \in [1..n -> [key : {NULL}, val : Element]]
  BY <1>5, <1>6
<1> QED BY <1>5, <1>7, MakeSeq DEF f

LEMMA ArrayBytes ==
    ASSUME NEW a \in Array, Complete(a)
    PROVE  \E ss : /\ ss \in Seq(Seq(Nat)) /\ DOMAIN ss = DOMAIN a.obj
                   /\ ss = [j \in DOMAIN a.obj |-> PeerElement(a.obj[j].val)]
                   /\ PeerBytes(a) =
                        <<AMF_STRICT_ARRAY>> \o Int32(Len(a.obj)) \o FlattenSeq(ss)
                   /\ PeerBytes(a) \in Seq(Nat)
<1> DEFINE ss == [j \in DOMAIN a.obj |-> PeerElement(a.obj[j].val)]
           n == Len(a.obj)
           s == <<AMF_STRICT_ARRAY>>
<1>1. \A j \in DOMAIN a.obj : a.obj[j].val \in Element
  BY ArrayParts
<1>2. n \in Nat /\ DOMAIN a.obj = 1..n
  BY SeqParts DEF Array
<1>3. \A j \in 1..n : ss[j] \in Seq(Nat)
  BY <1>1, <1>2, PeerElementIsSeq
<1>4. DOMAIN ss = 1..n /\ ss = [j \in 1..n |-> ss[j]]
  BY <1>2
<1>5. PeerBytes(a) = (s \o Int32(n)) \o FlattenSeq(ss)
  BY NullAssumption DEF PeerBytes, Array
<1>6. s \in Seq(Nat)
  BY DEF AMF_STRICT_ARRAY
<1> HIDE DEF ss, n
<1>7. ss \in [1..n -> Seq(Nat)]
  BY <1>3, <1>4
<1>8. ss \in Seq(Seq(Nat))
  BY <1>2, <1>7, MakeSeq
<1>9. FlattenSeq(ss) \in Seq(Nat)
  BY <1>8, FlattenParts
<1> HIDE DEF s
<1>10. s \o Int32(n) \in Seq(Nat)
  BY <1>2, <1>6, SizeBytes, Cat
<1>11. PeerBytes(a) \in Seq(Nat)
  BY <1>5, <1>9, <1>10, Cat
<1> QED BY <1>2, <1>4, <1>5, <1>8, <1>11 DEF ss, n, s

LEMMA CodesSeq ==
    ASSUME NEW a \in Item, NEW s, Codes(a, s)
    PROVE  s \in Seq(Nat)
<1>1. CASE a = NULL /\ s = <<AMF_NULL>>
  BY <1>1 DEF AMF_NULL
<1>2. CASE a \in Element /\ s \in ElementForms(a)
  BY <1>2, ToBufIsSeq, PeerElementIsSeq DEF ElementForms
<1>3. CASE a \in Array /\ Complete(a) /\ s = PeerBytes(a)
  BY <1>3, ArrayBytes
<1> QED BY <1>1, <1>2, <1>3 DEF Codes

LEMMA WiredFrom ==
    ASSUME NEW es \in Seq(Item), NEW ss, DOMAIN ss = DOMAIN es,
           ss = [i \in DOMAIN es |-> ss[i]],
           \A i \in DOMAIN es : Codes(es[i], ss[i])
    PROVE  Wired(es, FlattenSeq(ss))
<1> DEFINE n == Len(es)
<1>1. n \in Nat /\ DOMAIN es = 1..n /\ \A i \in DOMAIN es : es[i] \in Item
  BY SeqParts
<1>2. \A i \in 1..n : ss[i] \in Seq(Nat)
  BY <1>1, CodesSeq
<1> HIDE DEF n
<1>3. ss \in [1..n -> Seq(Nat)]
  BY <1>1, <1>2
<1>4. ss \in Seq(Seq(Nat))
  BY <1>1, <1>3, MakeSeq
<1> QED BY <1>4 DEF Wired

LEMMA WiredSeq ==
    ASSUME NEW es, NEW b, Wired(es, b)
    PROVE  b \in Seq(Nat)
<1>1. PICK ss : b = FlattenSeq(ss) /\ ss \in Seq(Seq(Nat))
  BY DEF Wired
<1> QED BY <1>1, FlattenParts

LEMMA NextHistory == Typed /\ History /\ [Next]_vars => History'
<1> SUFFICES ASSUME Typed, History, [Next]_vars PROVE History'
  OBVIOUS
<1>0. inv.elem \in Seq(Item) /\ \A i \in DOMAIN inv.elem : inv.elem[i] \in Item
  BY SeqParts DEF Typed
<1>1. CASE wire = NULL /\ wire' = NULL /\ back' = back
  BY <1>1 DEF History
<1>2. CASE Send
  <2> DEFINE es == inv.elem
             ss == [i \in DOMAIN es |-> IF es[i] = NULL THEN <<AMF_NULL>> ELSE amf_to_buf[es[i]]]
  <2>1. ASSUME NEW i \in DOMAIN es PROVE Codes(es[i], ss[i])
    <3>1. CASE es[i] = NULL
      BY <3>1 DEF Codes
    <3>2. CASE es[i] # NULL
      <4>1. es[i] \notin Array
        BY <1>2, <3>2 DEF Send, NoArray, IsType, Array
      <4>2. es[i] \in Element
        BY <1>0, <3>2, <4>1 DEF Item
      <4>3. ss[i] = amf_to_buf[es[i]]
        BY <3>2
      <4> HIDE DEF ss
      <4> QED BY <4>2, <4>3 DEF Codes, ElementForms
    <3> QED BY <3>1, <3>2
  <2>2. DOMAIN ss = DOMAIN es /\ ss = [i \in DOMAIN es |-> ss[i]]
    OBVIOUS
  <2>3. wire' = FlattenSeq(ss)
    BY <1>2 DEF Send, Written, amf_invoke_to_buf
  <2> HIDE DEF ss
  <2>4. Wired(es, FlattenSeq(ss))
    <3> HIDE DEF es
    <3>1. es \in Seq(Item)
      BY <1>0 DEF es
    <3> QED BY <2>1, <2>2, <3>1, WiredFrom
  <2>5. wire = NULL /\ inv' = inv /\ back' = back
    BY <1>2 DEF Send, Written, Building
  <2> QED BY <2>3, <2>4, <2>5 DEF History
<1>3. CASE Receive
  <2> DEFINE es == inv.elem
             ss == [i \in DOMAIN es |-> PeerBytes(es[i])]
  <2>1. ASSUME NEW i \in DOMAIN es PROVE Codes(es[i], ss[i])
    <3>1. CASE es[i] = NULL
      BY <3>1 DEF Codes, PeerBytes
    <3>2. CASE es[i] \in Array
      <4>1. es[i] # NULL /\ es[i].type = AMF_STRICT_ARRAY
        BY <3>2, NullAssumption DEF Array
      <4>2. Complete(es[i])
        BY <1>3, <4>1 DEF Receive, IsType, Complete
      <4> QED BY <3>2, <4>2 DEF Codes
    <3>3. CASE es[i] \in Element
      <4>1. es[i] # NULL /\ es[i].type # AMF_STRICT_ARRAY
        BY <3>3, ElementTypes DEF AMF_NUMBER, AMF_BOOLEAN, AMF_STRING, AMF_OBJECT, AMF_NULL,
                                   AMF_UNDEFINED, AMF_STRICT_ARRAY
      <4>2. ss[i] = PeerElement(es[i])
        BY <4>1 DEF PeerBytes
      <4> HIDE DEF ss
      <4> QED BY <3>3, <4>2 DEF Codes, ElementForms
    <3> QED BY <1>0, <3>1, <3>2, <3>3 DEF Item
  <2>2. DOMAIN ss = DOMAIN es /\ ss = [i \in DOMAIN es |-> ss[i]]
    OBVIOUS
  <2>3. wire' = FlattenSeq(ss)
    BY <1>3 DEF Receive, Written, PeerWrites
  <2> HIDE DEF ss
  <2>4. Wired(es, FlattenSeq(ss))
    <3> HIDE DEF es
    <3>1. es \in Seq(Item)
      BY <1>0 DEF es
    <3> QED BY <2>1, <2>2, <3>1, WiredFrom
  <2>5. wire = NULL /\ inv' = inv /\ back' = back
    BY <1>3 DEF Receive, Written, Building
  <2> QED BY <2>3, <2>4, <2>5 DEF History
<1>4. CASE Read
  <2>1. PICK marks \in 0..MaxMarks :
            back' = [result |-> amf_invoke_from_buf([bytes |-> wire, marks |-> marks])]
    BY <1>4 DEF Read
  <2>2. marks \in Nat /\ wire # NULL /\ wire' = wire /\ inv' = inv
    BY <1>4, <2>1, BoundsAssumption DEF Read
  <2> QED BY <2>1, <2>2 DEF History
<1>5. CASE UNCHANGED vars
  BY <1>5 DEF vars, History
<1>6. Set \/ AppendElem \/ ObjectSet \/ ArraySet => wire = NULL /\ wire' = NULL /\ back' = back
  BY DEF Set, AppendElem, ObjectSet, ArraySet, Building
<1> QED BY <1>1, <1>2, <1>3, <1>4, <1>5, <1>6 DEF Next

LEMMA AlwaysHistory == Spec => [](Typed /\ History)
<1>1. Init => Typed /\ History
  BY InitTyped DEF Init, History
<1>2. Typed /\ History /\ [Next]_vars => Typed' /\ History'
  BY NextTyped, NextHistory
<1> QED BY <1>1, <1>2, PTL DEF Spec

LEMMA HistoryTypeOK == Typed /\ History => TypeOK
<1> SUFFICES ASSUME Typed, History PROVE TypeOK
  OBVIOUS
<1>1. /\ inv.elem \in Seq(Item) /\ Len(inv.elem) <= MaxElems
      /\ inv.cur \in 0..Len(inv.elem)
  <2>1. Len(inv.elem) \in Nat
    BY SeqParts DEF Typed
  <2> QED BY <2>1 DEF Typed
<1>2. ASSUME back # NULL, back.result # NULL, NEW i \in DOMAIN back.result
      PROVE  KeysDistinct(back.result[i])
  <2>1. PICK marks \in Nat :
            back = [result |-> amf_invoke_from_buf([bytes |-> wire, marks |-> marks])]
    BY <1>2 DEF History
  <2> DEFINE b == [bytes |-> wire, marks |-> marks]
             r == amf_invoke_from_buf(b)
  <2>2. wire \in Seq(Nat)
    BY <1>2, WiredSeq DEF History
  <2>3. b \in Buffers
    BY <2>2 DEF Buffers
  <2>4. back.result = r
    BY <2>1
  <2> HIDE DEF b
  <2>5. ReadGood(r)
    BY <2>3, ReadsGood
  <2> HIDE DEF r
  <2>6. PICK S : r \in Seq(S) /\ \A a \in S : KeysDistinct(a)
    BY <1>2, <2>4, <2>5 DEF ReadGood
  <2>7. r[i] \in S
    BY <1>2, <2>4, <2>6, SeqParts
  <2> QED BY <2>4, <2>6, <2>7
<1> QED BY <1>1, <1>2 DEF TypeOK

(* The elements, slots and the cursor of an invoke keep their types, and   *)
(* what is read of it has no object with a key twice (amf.c:203-238).      *)
THEOREM AmfTypeOK == Spec => []TypeOK
<1>1. Typed /\ History => TypeOK
  BY HistoryTypeOK
<1> QED BY <1>1, AlwaysHistory, PTL

----------------------------------------------------------------------------
(* AsRead and KeyAsEnd are functions of the elements.                      *)
LEMMA AsReadEq ==
    \A a \in Element : AsRead[a] = ReadBack(AsRead, a)
<1>0. MaxDepth \in Nat
  BY BoundsAssumption
<1> DEFINE Body(g) == [a \in Element |-> ReadBack(g, a)]
           S == {n \in 0..MaxDepth : \E g : \A a \in Nested[n] : ReadBack(g, a) = g[a]}
           h == CHOOSE g : g = Body(g)
<1>1. ASSUME NEW g, NEW k, NEW a \in Element, \A i \in DOMAIN a.obj : g[a.obj[i].val] = k[a.obj[i].val]
      PROVE  ReadBack(g, a) = ReadBack(k, a)
  <2>1. [i \in DOMAIN a.obj |-> [key |-> a.obj[i].key, val |-> g[a.obj[i].val]]]
            = [i \in DOMAIN a.obj |-> [key |-> a.obj[i].key, val |-> k[a.obj[i].val]]]
    BY <1>1
  <2> QED BY <2>1, Zenon DEF ReadBack
<1>2. 0 \in S
  <2> DEFINE g == Body([a \in Element |-> a])
  <2>1. ASSUME NEW a \in Nested[0] PROVE ReadBack(g, a) = g[a]
    <3>1. a \in Element
      BY <1>0, NestedIn
    <3>2. ASSUME NEW i \in DOMAIN a.obj PROVE FALSE
      <4>1. 0 \in 0..MaxDepth
        BY <1>0
      <4> QED BY <4>1, LevelParts
    <3>3. g[a] = ReadBack([x \in Element |-> x], a)
      BY <3>1
    <3> HIDE DEF g
    <3> QED BY <1>1, <3>1, <3>2, <3>3
  <2> HIDE DEF g
  <2> QED BY <1>0, <2>1
<1>3. ASSUME NEW n \in 0..(MaxDepth - 1), n \in S PROVE n + 1 \in S
  <2>1. n + 1 \in 0..MaxDepth /\ (n + 1) - 1 = n
    BY <1>0
  <2>2. PICK g : \A a \in Nested[n] : ReadBack(g, a) = g[a]
    BY <1>3
  <2> DEFINE k == Body(g)
  <2>3. \A a \in Element : k[a] = ReadBack(g, a)
    OBVIOUS
  <2> HIDE DEF k
  <2>4. ASSUME NEW a \in Nested[n + 1] PROVE ReadBack(k, a) = k[a]
    <3>1. a \in Element
      BY <2>1, NestedIn
    <3>2. ASSUME NEW i \in DOMAIN a.obj PROVE g[a.obj[i].val] = k[a.obj[i].val]
      <4>1. a.obj[i].val \in Nested[n]
        BY <2>1, LevelParts
      <4>2. a.obj[i].val \in Element
        <5>1. n \in 0..MaxDepth
          BY <1>0
        <5> QED BY <4>1, <5>1, NestedIn
      <4> QED BY <4>1, <4>2, <2>2, <2>3
    <3>3. ReadBack(g, a) = ReadBack(k, a)
      BY <1>1, <3>1, <3>2
    <3> QED BY <2>3, <3>1, <3>3
  <2> QED BY <2>1, <2>4
<1>4. MaxDepth \in S
  <2>1. MaxDepth \in 0..MaxDepth
    BY <1>0
  <2> HIDE DEF S
  <2> QED BY <1>0, <1>2, <1>3, <2>1, UpTo
<1>5. PICK g : \A a \in Element : ReadBack(g, a) = g[a]
  BY <1>4 DEF Element
<1> DEFINE k == Body(g)
<1>6. \A a \in Element : k[a] = g[a]
  BY <1>5
<1>7. ASSUME NEW a \in Element PROVE ReadBack(g, a) = ReadBack(k, a)
  <2>1. \A i \in DOMAIN a.obj : a.obj[i].val \in Element
    BY ElementParts
  <2> HIDE DEF k
  <2>2. \A i \in DOMAIN a.obj : g[a.obj[i].val] = k[a.obj[i].val]
    BY <1>6, <2>1
  <2> QED BY <1>1, <2>2
<1>8. k = Body(k)
  <2>1. Body(g) = Body(k)
    <3> HIDE DEF k
    <3> QED BY <1>7
  <2> QED BY <2>1
<1>9. h = Body(h)
  BY <1>8
<1>10. AsRead = h
  BY DEF AsRead
<1> HIDE DEF h
<1>11. \A a \in Element : h[a] = ReadBack(h, a)
  BY <1>9
<1> QED BY <1>10, <1>11

LEMMA KeyAsEndEq ==
    \A a \in Element : KeyAsEnd[a] \in BOOLEAN /\ (KeyAsEnd[a] <=> HasKeyAsEnd(KeyAsEnd, a))
<1> DEFINE Body(g) == [a \in Element |-> HasKeyAsEnd(g, a)]
           Fns == [Element -> BOOLEAN]
           F == [g \in Fns |-> Body(g)]
           h == CHOOSE g : g = Body(g)
<1>1. \A g, a : HasKeyAsEnd(g, a) \in BOOLEAN
  BY DEF HasKeyAsEnd
<1>2. ASSUME NEW g, NEW k, NEW a \in Element,
             \A i \in DOMAIN a.obj : g[a.obj[i].val] = k[a.obj[i].val]
      PROVE  HasKeyAsEnd(g, a) = HasKeyAsEnd(k, a)
  BY <1>2 DEF HasKeyAsEnd
<1>3. F \in [Fns -> Fns] /\ \A g \in Fns : F[g] = Body(g)
  BY <1>1
<1>4. ASSUME NEW g \in Fns, NEW k \in Fns, NEW a \in Element,
             \A i \in DOMAIN a.obj : g[a.obj[i].val] = k[a.obj[i].val]
      PROVE  F[g][a] = F[k][a]
  BY <1>2, <1>3, <1>4
<1>5. PICK g \in Fns : F[g] = g
  <2> DEFINE T == BOOLEAN
  <2>1. FALSE \in T
    OBVIOUS
  <2> HIDE DEF T, F
  <2>2. F \in [[Element -> T] -> [Element -> T]]
    BY <1>3 DEF T
  <2>3. \A u, k \in [Element -> T] : \A a \in Element :
               (\A i \in DOMAIN a.obj : u[a.obj[i].val] = k[a.obj[i].val])
                    => F[u][a] = F[k][a]
    BY <1>4 DEF T
  <2> DEFINE t == FALSE
  <2>4. t \in T
    BY <2>1
  <2> HIDE DEF t
  <2>5. \E u \in [Element -> T] : F[u] = u
    BY <2>2, <2>3, <2>4, FixedPoint
  <2> QED BY <2>5 DEF T
<1>6. g = Body(g)
  BY <1>3, <1>5
<1>7. h = Body(h)
  BY <1>6
<1>8. KeyAsEnd = h
  BY DEF KeyAsEnd
<1> HIDE DEF h
<1>9. \A a \in Element : h[a] = HasKeyAsEnd(h, a)
  BY <1>7
<1> QED BY <1>1, <1>8, <1>9

(* What is read of an element is an element, as deep.                      *)
LEMMA AsReadParts ==
    ASSUME NEW a \in Element
    PROVE  /\ a.type = AMF_STRING =>
                AsRead[a] = [type |-> AMF_STRING, num |-> 0,
                             str |-> IF amf_strlen(a.str) = 0 THEN NULL ELSE a.str, obj |-> <<>>]
           /\ a.type = AMF_OBJECT =>
                AsRead[a] = [type |-> AMF_OBJECT, num |-> 0, str |-> NULL,
                             obj |-> [i \in DOMAIN a.obj |->
                                [key |-> a.obj[i].key, val |-> AsRead[a.obj[i].val]]]]
           /\ a.type \notin {AMF_STRING, AMF_OBJECT} => AsRead[a] = a
<1>1. a # NULL /\ AsRead[a] = ReadBack(AsRead, a)
  BY AsReadEq, NullAssumption
<1>2. a = [type |-> a.type, num |-> a.num, str |-> a.str, obj |-> a.obj]
  BY ElementTypes
<1>3. CASE a.type = AMF_STRING
  <2>1. a.str \in Strings \cup {NULL}
    BY ElementTypes
  <2> DEFINE s == IF a.str = NULL THEN <<>> ELSE a.str
  <2>2. AsRead[a] = amf_stringf(s)
    BY <1>1, <1>3 DEF ReadBack
  <2>3. s = <<>> <=> amf_strlen(a.str) = 0
    <3>1. CASE a.str = NULL
      BY <3>1 DEF amf_strlen
    <3>2. CASE a.str # NULL
      <4>1. a.str \in Seq(1..(Base - 1))
        BY <2>1, <3>2 DEF Strings
      <4> QED BY <3>2, <4>1 DEF amf_strlen
    <3> QED BY <3>1, <3>2
  <2>4. s # <<>> => s = a.str
    OBVIOUS
  <2> HIDE DEF s
  <2>5. AsRead[a] = [type |-> AMF_STRING, num |-> 0,
                     str |-> IF s = <<>> THEN NULL ELSE s, obj |-> <<>>]
    BY <2>2 DEF amf_stringf, amf_string, amf_alloc
  <2> QED BY <1>3, <2>3, <2>4, <2>5 DEF AMF_STRING, AMF_OBJECT
<1>4. CASE a.type # AMF_STRING
  <2> DEFINE o == [i \in DOMAIN a.obj |-> [key |-> a.obj[i].key, val |-> AsRead[a.obj[i].val]]]
  <2>1. AsRead[a] = [a EXCEPT !.obj = o]
    BY <1>1, <1>4 DEF ReadBack
  <2>3. AsRead[a] = [type |-> a.type, num |-> a.num, str |-> a.str, obj |-> o]
    <3> HIDE DEF o
    <3> QED BY <1>2, <2>1
  <2>4. CASE a.type = AMF_OBJECT
    <3>1. a.num = 0 /\ a.str = NULL
      BY <2>4, ElementTypes DEF AMF_OBJECT, AMF_NUMBER, AMF_BOOLEAN, AMF_STRING
    <3> QED BY <1>4, <2>3, <2>4, <3>1 DEF o
  <2>5. CASE a.type # AMF_OBJECT
    <3>1. a.obj = <<>>
      BY <2>5, ElementTypes
    <3>2. o = <<>>
      BY <3>1
    <3> HIDE DEF o
    <3> QED BY <1>2, <1>4, <2>3, <2>5, <3>1, <3>2
  <2> QED BY <2>4, <2>5
<1> QED BY <1>3, <1>4

LEMMA AsReadPlain ==
    ASSUME NEW a \in Plain
    PROVE  AsRead[a] \in Plain
<1>1. a \in Element
  BY PlainIn
<1>2. CASE a.type = AMF_STRING
  <2>1. a.str \in Strings \cup {NULL}
    BY <1>1, ElementTypes
  <2> DEFINE s == IF amf_strlen(a.str) = 0 THEN NULL ELSE a.str
  <2>2. s \in Strings \cup {NULL}
    BY <2>1
  <2>3. AsRead[a] = [type |-> AMF_STRING, num |-> 0, str |-> s, obj |-> <<>>]
    BY <1>1, <1>2, AsReadParts
  <2> HIDE DEF s
  <2> QED BY <2>2, <2>3 DEF Plain
<1>3. CASE a.type # AMF_STRING
  <2>1. a.type # AMF_OBJECT
    BY DEF Plain, AMF_NUMBER, AMF_BOOLEAN, AMF_STRING, AMF_OBJECT, AMF_NULL, AMF_UNDEFINED
  <2> QED BY <1>1, <1>3, <2>1, AsReadParts
<1> QED BY <1>2, <1>3

LEMMA AsReadObject ==
    ASSUME NEW S, NEW a \in Objects(S), a \in Element, \A x \in S : AsRead[x] \in S
    PROVE  AsRead[a] \in Objects(S)
<1> DEFINE n == Len(a.obj)
           M == [key : Strings, val : S]
           o == [i \in DOMAIN a.obj |-> [key |-> a.obj[i].key, val |-> AsRead[a.obj[i].val]]]
           r == [type |-> AMF_OBJECT, num |-> 0, str |-> NULL, obj |-> o]
<1>1. a.obj \in Seq(M) /\ a.type = AMF_OBJECT
  BY DEF Objects
<1>2. n \in Nat /\ DOMAIN a.obj = 1..n /\ \A i \in 1..n : a.obj[i] \in M
  BY <1>1, SeqParts
<1>3. \A i, j \in 1..n : a.obj[i].key = a.obj[j].key => i = j
  BY <1>1, <1>2, ElementTypes
<1>4. AsRead[a] = r
  BY <1>1, AsReadParts
<1>5. \A i \in 1..n : o[i] \in M /\ o[i].key = a.obj[i].key
  BY <1>2
<1>6. DOMAIN o = 1..n /\ o = [i \in 1..n |-> o[i]]
  BY <1>2
<1>7. r \in [type : {AMF_OBJECT}, num : {0}, str : {NULL}, obj : {o}] /\ r.obj = o
  OBVIOUS
<1> HIDE DEF o, n, M
<1>8. o \in [1..n -> M]
  BY <1>5, <1>6
<1>9. o \in Seq(M)
  BY <1>2, <1>8, MakeSeq
<1>10. \A i, j \in DOMAIN o : o[i].key = o[j].key => i = j
  BY <1>3, <1>5, <1>6
<1> HIDE DEF r
<1>11. r \in [type : {AMF_OBJECT}, num : {0}, str : {NULL}, obj : Seq(M)]
  BY <1>7, <1>9
<1> QED BY <1>4, <1>7, <1>10, <1>11 DEF Objects, KeysDistinct, M

LEMMA AsReadIn ==
    \A a \in Element : AsRead[a] \in Element /\ AsRead[a] # NULL
<1>0. MaxDepth \in Nat
  BY BoundsAssumption
<1> DEFINE S == {d \in 0..MaxDepth : \A a \in Nested[d] : AsRead[a] \in Nested[d]}
<1>1. ASSUME NEW d \in 0..MaxDepth, NEW T, T = (IF d = 0 THEN {} ELSE Nested[d - 1]),
             \A x \in T : AsRead[x] \in T
      PROVE  d \in S
  <2>1. Nested[d] = Plain \cup Objects(T)
    BY <1>1, NestedEq
  <2>2. ASSUME NEW a \in Nested[d] PROVE AsRead[a] \in Nested[d]
    <3>1. a \in Element
      BY <1>0, NestedIn
    <3>2. CASE a \in Plain
      BY <2>1, <3>2, AsReadPlain
    <3>3. CASE a \in Objects(T)
      <4>1. AsRead[a] \in Objects(T)
        BY <1>1, <3>1, <3>3, AsReadObject
      <4> QED BY <2>1, <4>1
    <3> QED BY <2>1, <3>2, <3>3
  <2> QED BY <2>2
<1>2. 0 \in S
  <2> DEFINE T == {}
  <2>1. T = (IF 0 = 0 THEN {} ELSE Nested[0 - 1]) /\ \A x \in T : AsRead[x] \in T
    OBVIOUS
  <2>2. 0 \in 0..MaxDepth
    BY <1>0
  <2> HIDE DEF T, S
  <2> QED BY <1>1, <2>1, <2>2
<1>3. ASSUME NEW d \in 0..(MaxDepth - 1), d \in S PROVE d + 1 \in S
  <2> DEFINE T == Nested[d]
  <2>1. d + 1 \in 0..MaxDepth /\ d + 1 # 0 /\ (d + 1) - 1 = d
    BY <1>0
  <2>2. T = (IF d + 1 = 0 THEN {} ELSE Nested[(d + 1) - 1]) /\ \A x \in T : AsRead[x] \in T
    BY <1>3, <2>1
  <2> HIDE DEF T, S
  <2> QED BY <1>1, <2>1, <2>2
<1>4. MaxDepth \in S
  <2>1. MaxDepth \in 0..MaxDepth
    BY <1>0
  <2> HIDE DEF S
  <2> QED BY <1>0, <1>2, <1>3, <2>1, UpTo
<1>5. \A a \in Element : AsRead[a] \in Element
  BY <1>4 DEF Element
<1> QED BY <1>5, NullAssumption

----------------------------------------------------------------------------
(* Bytes in a buffer.                                                      *)

Has(b, p, s) == /\ p + Len(s) <= End(b)
                /\ \A k \in 1..Len(s) : b.bytes[p + k - 1] = s[k]

LEMMA HasCat ==
    ASSUME NEW b \in Buffers, NEW p \in Pos, NEW s \in Seq(Nat), NEW t \in Seq(Nat),
           Has(b, p, s \o t)
    PROVE  /\ Has(b, p, s) /\ Has(b, p + Len(s), t) /\ p + Len(s) \in Pos
           /\ p + Len(s \o t) = (p + Len(s)) + Len(t)
<1>1. /\ Len(s \o t) = Len(s) + Len(t) /\ Len(s) \in Nat /\ Len(t) \in Nat
      /\ \A k \in 1..Len(s) : (s \o t)[k] = s[k]
      /\ \A k \in 1..Len(t) : (s \o t)[Len(s) + k] = t[k]
  BY Cat
<1>2. p \in Nat /\ p > 0 /\ End(b) \in Nat
  BY SizeInBuffer DEF Pos
<1> DEFINE r == s \o t
           m == Len(s)
           n == Len(t)
<1>3. /\ Len(r) = m + n /\ m \in Nat /\ n \in Nat
      /\ \A k \in 1..m : r[k] = s[k]
      /\ \A k \in 1..n : r[m + k] = t[k]
  BY <1>1
<1>4. p + Len(r) <= End(b) /\ \A k \in 1..Len(r) : b.bytes[p + k - 1] = r[k]
  BY DEF Has
<1> HIDE DEF r
<1>5. ASSUME NEW k \in 1..m PROVE b.bytes[p + k - 1] = s[k]
  <2> HIDE DEF m, n
  <2>1. k \in 1..(m + n)
    BY <1>3
  <2> QED BY <1>3, <1>4, <2>1
<1>6. ASSUME NEW k \in 1..n PROVE b.bytes[(p + m) + k - 1] = t[k]
  <2> HIDE DEF m, n
  <2>1. m + k \in 1..(m + n) /\ p + (m + k) - 1 = (p + m) + k - 1
    BY <1>2, <1>3
  <2> QED BY <1>3, <1>4, <2>1
<1>7. p + m <= End(b) /\ (p + m) + n <= End(b) /\ p + m \in Pos /\ p + (m + n) = (p + m) + n
  <2> HIDE DEF m, n
  <2> QED BY <1>2, <1>3, <1>4 DEF Pos
<1> QED BY <1>3, <1>5, <1>6, <1>7 DEF Has, r

(* The parts of flattened sequences, one behind the other.                 *)
LEMMA HasFlatten ==
    ASSUME NEW b \in Buffers, NEW p \in Pos, NEW ss \in Seq(Seq(Nat)), Has(b, p, FlattenSeq(ss)),
           NEW off \in [0..Len(ss) -> Nat],
           off[0] = 0, off[Len(ss)] = Len(FlattenSeq(ss)),
           \A i \in 1..Len(ss) : off[i] = off[i - 1] + Len(ss[i]),
           \A i \in 0..Len(ss) : off[i] <= Len(FlattenSeq(ss)),
           \A i \in 1..Len(ss) : \A j \in 1..Len(ss[i]) : FlattenSeq(ss)[off[i - 1] + j] = ss[i][j]
    PROVE  \A i \in 1..Len(ss) :
              /\ p + off[i - 1] \in Pos /\ Has(b, p + off[i - 1], ss[i])
              /\ p + off[i] = (p + off[i - 1]) + Len(ss[i])
<1> DEFINE r == FlattenSeq(ss)
           N == Len(ss)
<1>1. N \in Nat /\ \A i \in 1..N : ss[i] \in Seq(Nat) /\ Len(ss[i]) \in Nat
  OBVIOUS
<1>2. p \in Nat /\ p > 0 /\ End(b) \in Nat
  <2>1. End(b) \in Nat
    BY SizeInBuffer
  <2> QED BY <2>1 DEF Pos
<1>3. r \in Seq(Nat) /\ Len(r) \in Nat
  BY FlattenParts
<1>4. p + Len(r) <= End(b) /\ \A k \in 1..Len(r) : b.bytes[p + k - 1] = r[k]
  BY DEF Has
<1> SUFFICES ASSUME NEW i \in 1..N
             PROVE  /\ p + off[i - 1] \in Pos /\ Has(b, p + off[i - 1], ss[i])
                    /\ p + off[i] = (p + off[i - 1]) + Len(ss[i])
  OBVIOUS
<1> DEFINE m == off[i - 1]
           s == ss[i]
<1>5. /\ m \in Nat /\ off[i] \in Nat /\ Len(s) \in Nat /\ off[i] = m + Len(s) /\ off[i] <= Len(r)
      /\ \A j \in 1..Len(s) : r[m + j] = s[j]
  <2>1. i - 1 \in 0..N /\ i \in 0..N
    BY <1>1
  <2> QED BY <1>1, <2>1
<1> HIDE DEF r, s, m
<1>6. ASSUME NEW j \in 1..Len(s) PROVE b.bytes[(p + m) + j - 1] = s[j]
  <2>1. m + j \in 1..Len(r) /\ p + (m + j) - 1 = (p + m) + j - 1
    BY <1>2, <1>3, <1>5
  <2> QED BY <1>4, <1>5, <2>1
<1>7. p + m \in Pos /\ (p + m) + Len(s) <= End(b) /\ p + off[i] = (p + m) + Len(s)
  BY <1>2, <1>3, <1>4, <1>5 DEF Pos
<1> QED BY <1>6, <1>7 DEF Has, s, m

LEMMA HasByte ==
    ASSUME NEW b \in Buffers, NEW p \in Pos, NEW s \in Seq(Nat), Has(b, p, s), NEW k \in 1..Len(s)
    PROVE  /\ b.bytes[p + k - 1] = s[k] /\ At(b, p + k - 1) = s[k]
           /\ p + k - 1 \in Pos /\ p + k - 1 < End(b)
<1>1. p \in Nat /\ p > 0 /\ End(b) \in Nat /\ Len(s) \in Nat
  BY SizeInBuffer DEF Pos
<1>2. p + k - 1 < End(b) /\ p + k - 1 \in Pos
  BY <1>1 DEF Has, Pos
<1> QED BY <1>2 DEF Has, At

LEMMA DivMod ==
    \A n \in Nat : n \div Base \in Nat /\ n % Base \in Nat /\ Base * (n \div Base) + (n % Base) = n
<1> TAKE n \in Nat
<1>1. Base \in Nat /\ Base > 0
  BY BaseAssumption
<1> QED BY <1>1

(* What is written of a string, or of a key, is read back as its length    *)
(* and its characters: there is no 0 among them.                           *)
LEMMA ReadChars ==
    ASSUME NEW b \in Buffers, NEW p \in Pos, NEW s \in Strings \cup {NULL}, Has(b, p, Bytes(s)),
           NEW n, n = amf_strlen(s)
    PROVE  /\ n \in Nat /\ Size16(b, p) = n /\ p + 2 + n \in Pos /\ p + 2 + n <= End(b)
           /\ b.bytes[p] = n \div Base
           /\ Chars(b, p + 2, p + 2 + n) = IF n = 0 THEN <<>> ELSE s
<1> DEFINE r == Bytes(s)
           v == p + 2 + n
<1>0. p \in Nat /\ p > 0 /\ End(b) \in Nat
  <2>1. End(b) \in Nat
    BY SizeInBuffer
  <2> QED BY <2>1 DEF Pos
<1>1. /\ n \in Nat /\ r \in Seq(Nat) /\ Len(r) = 2 + n
      /\ r[1] = n \div Base /\ r[2] = n % Base /\ \A i \in 1..n : r[2 + i] = s[i]
  BY StrLen
<1>2. \A k \in 1..Len(r) : b.bytes[p + k - 1] = r[k]
  BY DEF Has
<1>3. p + Len(r) <= End(b)
  BY DEF Has
<1> HIDE DEF r
<1>4. b.bytes[p] = n \div Base /\ b.bytes[p + 1] = n % Base
  <2>1. 1 \in 1..Len(r) /\ 2 \in 1..Len(r)
    BY <1>1
  <2>2. b.bytes[p + 1 - 1] = r[1] /\ b.bytes[p + 2 - 1] = r[2]
    BY <1>2, <2>1
  <2>3. p + 1 - 1 = p /\ p + 2 - 1 = p + 1
    BY <1>0
  <2> QED BY <1>1, <2>2, <2>3
<1>5. Size16(b, p) = n
  BY <1>1, <1>4, DivMod DEF Size16
<1>6. v \in Pos /\ v <= End(b)
  BY <1>0, <1>1, <1>3 DEF Pos
<1>7. ASSUME NEW i \in 1..n PROVE b.bytes[(p + 2) + i - 1] = s[i]
  <2>1. 2 + i \in 1..Len(r) /\ p + (2 + i) - 1 = (p + 2) + i - 1
    BY <1>0, <1>1
  <2> QED BY <1>1, <1>2, <2>1
<1>8. n # 0 => s \in Seq(1..(Base - 1)) /\ Len(s) = n
  <2>1. s = NULL => n = 0
    BY DEF amf_strlen
  <2> QED BY <2>1 DEF amf_strlen, Strings
<1>9. \A k \in (p + 2)..(v - 1) : b.bytes[k] # 0
  <2> TAKE k \in (p + 2)..(v - 1)
  <2> DEFINE i == k - (p + 2) + 1
  <2>1. i \in 1..n /\ (p + 2) + i - 1 = k /\ n # 0
    BY <1>0, <1>1
  <2>2. b.bytes[k] = s[i]
    BY <1>7, <2>1
  <2>3. s[i] \in 1..(Base - 1)
    <3>1. DOMAIN s = 1..n /\ \A j \in DOMAIN s : s[j] \in 1..(Base - 1)
      BY <1>8, <2>1, SeqParts
    <3> HIDE DEF i
    <3> QED BY <2>1, <3>1
  <2> QED BY <2>2, <2>3, BaseAssumption
<1>10. Chars(b, p + 2, v) = SubSeq(b.bytes, p + 2, v - 1)
  <2>1. {k \in (p + 2)..(v - 1) : b.bytes[k] = 0} = {}
    BY <1>9
  <2> HIDE DEF v
  <2> QED BY <2>1, Zenon DEF Chars
<1>11. SubSeq(b.bytes, p + 2, v - 1) = IF n = 0 THEN <<>> ELSE s
  <2> DEFINE t == SubSeq(b.bytes, p + 2, v - 1)
  <2>0. v - 1 = (p + 2) + n - 1
    BY <1>0, <1>1
  <2>1. b.bytes \in Seq(Nat) /\ Len(b.bytes) + 1 = End(b) /\ Len(b.bytes) \in Nat
    BY SeqParts DEF Buffers, End
  <2>2. t \in Seq(Nat) /\ Len(t) = n /\ \A i \in 1..n : t[i] = b.bytes[(p + 2) + i - 1]
    <3> DEFINE u == b.bytes
               lo == p + 2
               hi == v - 1
    <3>1. u \in Seq(Nat) /\ lo \in Nat /\ lo >= 1 /\ hi \in Int /\ hi <= Len(u) /\ hi = lo + n - 1
          /\ n \in Nat
      <4>1. v - 1 \in Int /\ v - 1 <= Len(b.bytes) /\ p + 2 \in Nat /\ p + 2 >= 1
        <5> HIDE DEF v
        <5> QED BY <1>0, <1>6, <2>1 DEF Pos
      <4> QED BY <1>1, <2>0, <2>1, <4>1
    <3> HIDE DEF u, lo, hi, v
    <3>2. SubSeq(u, lo, hi) \in Seq(Nat)
      BY <3>1
    <3>3. Len(SubSeq(u, lo, hi)) = n
      BY <3>1
    <3>4. \A i \in 1..n : SubSeq(u, lo, hi)[i] = u[lo + i - 1]
      BY <3>1
    <3> QED BY <3>2, <3>3, <3>4 DEF u, lo, hi, t
  <2> HIDE DEF t, v
  <2>3. CASE n = 0
    <3>1. t = <<>>
      BY <2>2, <2>3
    <3> QED BY <2>3, <3>1 DEF t
  <2>4. CASE n # 0
    <3>1. s \in Seq(Nat) /\ Len(s) = n
      <4>1. 1..(Base - 1) \subseteq Nat
        OBVIOUS
      <4>2. s \in Seq(1..(Base - 1)) /\ Len(s) = n
        BY <1>8, <2>4
      <4> QED BY <4>1, <4>2, SeqMono
    <3>2. \A i \in 1..n : t[i] = s[i]
      BY <1>7, <2>2
    <3>3. t = s
      BY <2>2, <3>1, <3>2, SameSeq
    <3> QED BY <2>4, <3>3 DEF t
  <2> QED BY <2>3, <2>4 DEF t
<1> QED BY <1>1, <1>4, <1>5, <1>6, <1>10, <1>11

LEMMA ReadSize32 ==
    ASSUME NEW b \in Buffers, NEW p \in Pos, NEW n \in Nat, Has(b, p, Int32(n))
    PROVE  Size32(b, p) = n /\ p + 4 <= End(b)
<1> DEFINE r == Int32(n)
           x == n \div Base
           y == n % Base
<1>0. p \in Nat /\ p > 0
  BY DEF Pos
<1>1. x \in Nat /\ y \in Nat /\ Base * x + y = n /\ Base \in Nat
  BY DivMod, BaseAssumption
<1>2. r = <<0, 0, x, y>>
  BY DEF Int32
<1>3. p + Len(r) <= End(b) /\ \A k \in 1..Len(r) : b.bytes[p + k - 1] = r[k]
  BY DEF Has
<1> HIDE DEF r, x, y
<1>4. Len(r) = 4 /\ r[1] = 0 /\ r[2] = 0 /\ r[3] = x /\ r[4] = y
  BY <1>2
<1>5. b.bytes[p + 1 - 1] = 0 /\ b.bytes[p + 2 - 1] = 0 /\ b.bytes[p + 3 - 1] = x /\ b.bytes[p + 4 - 1] = y
  <2>1. 1 \in 1..Len(r) /\ 2 \in 1..Len(r) /\ 3 \in 1..Len(r) /\ 4 \in 1..Len(r)
    BY <1>4
  <2>2. /\ b.bytes[p + 1 - 1] = r[1] /\ b.bytes[p + 2 - 1] = r[2]
        /\ b.bytes[p + 3 - 1] = r[3] /\ b.bytes[p + 4 - 1] = r[4]
    BY <1>3, <2>1
  <2> QED BY <1>4, <2>2
<1>6. p + 1 - 1 = p /\ p + 2 - 1 = p + 1 /\ p + 3 - 1 = p + 2 /\ p + 4 - 1 = (p + 2) + 1
  BY <1>0
<1>7. Size16(b, p) = Base * 0 + 0 /\ Size16(b, p + 2) = Base * x + y
  BY <1>5, <1>6 DEF Size16
<1>8. Size16(b, p) = 0 /\ Size16(b, p + 2) = n
  BY <1>1, <1>7
<1>9. Base * Base \in Nat
  BY <1>1
<1> QED BY <1>3, <1>4, <1>8, <1>9 DEF Size32

----------------------------------------------------------------------------
(* An element is read as it was written, from where it was written.        *)

Reads(b, a) ==
    \A p \in Pos : Has(b, p, amf_to_buf[a]) =>
        parse_element(b)["element"][p] =
            IF EmptyString(a) /\ p + Len(amf_to_buf[a]) = End(b) THEN Failed
            ELSE Parsed(AsRead[a], p + Len(amf_to_buf[a]))

LEMMA FirstByte ==
    ASSUME NEW b \in Buffers, NEW p \in Pos, NEW a \in Element, Has(b, p, amf_to_buf[a])
    PROVE  /\ b.bytes[p] = a.type /\ At(b, p) = a.type /\ a.type # AMF_OBJECT_END /\ p < End(b)
           /\ p + 1 \in Pos
           /\ \E r : /\ Follows(amf_to_buf, a, r) /\ Has(b, p + 1, r)
                     /\ p + Len(amf_to_buf[a]) = (p + 1) + Len(r)
<1>1. PICK r : Follows(amf_to_buf, a, r) /\ amf_to_buf[a] = <<a.type>> \o r
  BY BytesParts
<1>2. a.type \in Nat /\ a.type # AMF_OBJECT_END
  BY ElementTypes DEF AMF_NUMBER, AMF_BOOLEAN, AMF_STRING, AMF_OBJECT, AMF_NULL, AMF_UNDEFINED,
                      AMF_OBJECT_END
<1>3. r \in Seq(Nat)
  BY <1>1 DEF Follows
<1> DEFINE s == <<a.type>>
<1>4. s \in Seq(Nat) /\ Len(s) = 1 /\ s[1] = a.type
  BY <1>2
<1>5. Has(b, p, s \o r)
  BY <1>1
<1> HIDE DEF s
<1>6. /\ Has(b, p, s) /\ Has(b, p + Len(s), r) /\ p + Len(s) \in Pos
      /\ p + Len(s \o r) = (p + Len(s)) + Len(r)
  <2>1. s \in Seq(Nat)
    BY <1>4
  <2> QED BY <1>3, <1>5, <2>1, HasCat
<1>7. b.bytes[p] = a.type /\ At(b, p) = a.type /\ p < End(b)
  <2>1. 1 \in 1..Len(s) /\ s \in Seq(Nat)
    BY <1>4
  <2>2. /\ b.bytes[p + 1 - 1] = s[1] /\ At(b, p + 1 - 1) = s[1]
        /\ p + 1 - 1 \in Pos /\ p + 1 - 1 < End(b)
    BY <1>6, <2>1, HasByte
  <2>3. p + 1 - 1 = p
    BY DEF Pos
  <2> QED BY <1>4, <2>2, <2>3
<1> QED BY <1>1, <1>2, <1>4, <1>6, <1>7 DEF s

(* One member of an object, with something behind it.                      *)
LEMMA MemberRead ==
    ASSUME NEW b \in Buffers, NEW p \in Pos, NEW k \in Strings, NEW x \in Element, Reads(b, x),
           Has(b, p, Bytes(k) \o amf_to_buf[x]),
           NEW q, q = p + Len(Bytes(k) \o amf_to_buf[x]), q < End(b),
           NEW m, m = [key |-> k, val |-> AsRead[x]],
           NEW rest, rest = parse_element(b)["members"][q]
    PROVE  /\ b.bytes[p] = Len(k) \div Base
           /\ At(b, q) = AMF_OBJECT_END =>
                parse_element(b)["members"][p] = Parsed(<<m>>, q + 1)
           /\ At(b, q) # AMF_OBJECT_END /\ rest.val # NULL =>
                parse_element(b)["members"][p] = Parsed(<<m>> \o rest.val, rest.next)
<1> DEFINE g == parse_element(b)
           n == amf_strlen(k)
           s == Bytes(k)
           t == amf_to_buf[x]
           v == p + 2 + Size16(b, p)
           e == g["element"][v]
<1>1. n = Len(k) /\ n \in Nat /\ s \in Seq(Nat) /\ Len(s) = 2 + n /\ k \in Seq(1..(Base - 1))
  BY StrLen, NullAssumption DEF amf_strlen, Strings
<1>2. t \in Seq(Nat)
  BY ToBufIsSeq
<1>3. Has(b, p, s) /\ Has(b, p + Len(s), t) /\ q = (p + Len(s)) + Len(t)
  <2>1. Has(b, p, s \o t) /\ q = p + Len(s \o t)
    OBVIOUS
  <2>2. s \in Seq(Nat)
    BY <1>1
  <2> HIDE DEF s, t
  <2> QED BY <1>2, <2>1, <2>2, HasCat
<1>4. /\ Size16(b, p) = n /\ p + 2 + n \in Pos /\ b.bytes[p] = n \div Base
      /\ Chars(b, p + 2, p + 2 + n) = IF n = 0 THEN <<>> ELSE k
  BY <1>3, ReadChars
<1>5. p \in Nat /\ End(b) \in Nat
  <2>1. End(b) \in Nat
    BY SizeInBuffer
  <2> QED BY <2>1 DEF Pos
<1>6. v \in Pos /\ v = p + Len(s) /\ v = p + 2 + n
  BY <1>1, <1>4, <1>5
<1>7. Chars(b, p + 2, v) = k
  <2>1. n = 0 => k = <<>>
    <3>1. k \in Seq(Nat)
      <4>1. 1..(Base - 1) \subseteq Nat /\ k \in Seq(1..(Base - 1))
        BY <1>1
      <4> QED BY <4>1, SeqMono
    <3>2. Len(k) = n
      BY <1>1
    <3> HIDE DEF n
    <3> QED BY <3>1, <3>2
  <2> HIDE DEF v
  <2> QED BY <1>4, <1>6, <2>1
<1>8. At(b, v) # AMF_OBJECT_END /\ v < End(b) /\ q = v + Len(t) /\ Has(b, v, t)
  <2>1. Has(b, v, t) /\ q = v + Len(t)
    BY <1>3, <1>6
  <2> HIDE DEF v
  <2> QED BY <1>6, <2>1, FirstByte
<1>9. e = Parsed(AsRead[x], q)
  <2>1. v + Len(t) # End(b)
    BY <1>5, <1>8
  <2> HIDE DEF v
  <2> QED BY <1>6, <1>8, <2>1 DEF Reads
<1>10. e.val = AsRead[x] /\ e.next = q /\ e.val # NULL
  <2>1. AsRead[x] # NULL
    BY AsReadIn
  <2> HIDE DEF e
  <2> QED BY <1>9, <2>1 DEF Parsed
<1>11. ~(p + 2 >= End(b) \/ v > End(b))
  <2> HIDE DEF v
  <2> QED BY <1>1, <1>5, <1>6, <1>8
<1>12. g["members"][p] = ParseMembers(b, g, p)
  <2>1. "members" \in Parts /\ "members" # "element"
    BY DEF Parts
  <2>2. g["members"][p] = ParsePart(b, g, "members", p)
    BY <2>1, ParseEq
  <2> QED BY <2>1, <2>2 DEF ParsePart
<1>13. ParseMembers(b, g, p) =
          IF At(b, q) = AMF_OBJECT_END THEN Parsed(<<m>>, q + 1)
          ELSE IF rest.val = NULL THEN Failed
          ELSE Parsed(<<m>> \o rest.val, rest.next)
  <2> DEFINE w == [key |-> Chars(b, p + 2, v), val |-> e.val]
             more == g["members"][e.next]
  <2>1. ParseMembers(b, g, p) =
          IF At(b, e.next) = AMF_OBJECT_END THEN Parsed(<<w>>, e.next + 1)
          ELSE IF more.val = NULL THEN Failed
          ELSE Parsed(<<w>> \o more.val, more.next)
    BY <1>8, <1>10, <1>11, Zenon DEF ParseMembers
  <2>2. w = m
    <3> HIDE DEF e, v
    <3> QED BY <1>7, <1>10
  <2>3. more = rest
    <3> HIDE DEF e
    <3> QED BY <1>10
  <2> HIDE DEF w, more, e, v
  <2> QED BY <1>10, <2>1, <2>2, <2>3
<1> QED BY <1>1, <1>4, <1>12, <1>13

(* Where the members end.                                                  *)
LEMMA EndRead ==
    ASSUME NEW b \in Buffers, NEW p \in Pos, Has(b, p, <<0, 0, AMF_OBJECT_END>>)
    PROVE  /\ parse_element(b)["members"][p] = Parsed(<<>>, p + 3)
           /\ b.bytes[p] = 0 /\ p < End(b)
<1> DEFINE g == parse_element(b)
           s == <<0, 0, AMF_OBJECT_END>>
           v == p + 2 + Size16(b, p)
<1>0. p \in Nat /\ End(b) \in Nat /\ Base \in Nat
  <2>1. End(b) \in Nat
    BY SizeInBuffer
  <2> QED BY <2>1, BaseAssumption DEF Pos
<1>1. /\ s \in Seq(Nat) /\ Len(s) = 3 /\ s[1] = 0 /\ s[2] = 0 /\ s[3] = AMF_OBJECT_END
      /\ 1 \in 1..Len(s) /\ 2 \in 1..Len(s) /\ 3 \in 1..Len(s)
  BY DEF AMF_OBJECT_END
<1>2. Has(b, p, s)
  OBVIOUS
<1> HIDE DEF s
<1>3. /\ b.bytes[p + 1 - 1] = 0 /\ b.bytes[p + 2 - 1] = 0 /\ At(b, p + 3 - 1) = AMF_OBJECT_END
      /\ p + 3 - 1 < End(b)
  <2>1. s \in Seq(Nat)
    BY <1>1
  <2>2. \A k \in 1..Len(s) : b.bytes[p + k - 1] = s[k] /\ At(b, p + k - 1) = s[k]
                             /\ p + k - 1 < End(b)
    BY <1>2, <2>1, HasByte
  <2> QED BY <1>1, <2>2
<1>4. p + 1 - 1 = p /\ p + 2 - 1 = p + 1 /\ p + 3 - 1 = p + 2
  BY <1>0
<1>5. Size16(b, p) = 0
  BY <1>0, <1>3, <1>4 DEF Size16
<1>6. v = p + 2 /\ v + 1 = p + 3 /\ ~(p + 2 >= End(b) \/ v > End(b)) /\ At(b, v) = AMF_OBJECT_END
  BY <1>0, <1>3, <1>4, <1>5
<1>7. g["members"][p] = ParseMembers(b, g, p)
  <2>1. "members" \in Parts /\ "members" # "element"
    BY DEF Parts
  <2>2. g["members"][p] = ParsePart(b, g, "members", p)
    BY <2>1, ParseEq
  <2> QED BY <2>1, <2>2 DEF ParsePart
<1>8. ParseMembers(b, g, p) = Parsed(<<>>, v + 1)
  BY <1>6, Zenon DEF ParseMembers
<1>9. p < End(b)
  BY <1>0, <1>3
<1> QED BY <1>3, <1>4, <1>6, <1>7, <1>8, <1>9

(* The last part of a sequence with the element before it.                 *)
LEMMA SubSeqMore ==
    ASSUME NEW A, NEW s \in Seq(A), NEW i \in 1..Len(s)
    PROVE  /\ <<s[i]>> \o SubSeq(s, i + 1, Len(s)) = SubSeq(s, i, Len(s))
           /\ SubSeq(s, i, Len(s)) \in Seq(A) /\ SubSeq(s, i + 1, Len(s)) \in Seq(A)
<1> DEFINE n == Len(s)
           t == SubSeq(s, i + 1, n)
           u == SubSeq(s, i, n)
           one == <<s[i]>>
<1>1. n \in Nat /\ i \in Nat /\ i >= 1 /\ i <= n /\ s[i] \in A
  OBVIOUS
<1>2. t \in Seq(A) /\ Len(t) = n - i /\ \A k \in 1..(n - i) : t[k] = s[i + k]
  <2>1. t \in Seq(A)
    BY <1>1
  <2>2. Len(t) = n - i
    BY <1>1
  <2>3. \A k \in 1..(n - i) : t[k] = s[i + k]
    BY <1>1
  <2> QED BY <2>1, <2>2, <2>3
<1>3. u \in Seq(A) /\ Len(u) = n - i + 1 /\ \A k \in 1..(n - i + 1) : u[k] = s[i + k - 1]
  <2>1. u \in Seq(A)
    BY <1>1
  <2>2. Len(u) = n - i + 1
    BY <1>1
  <2>3. \A k \in 1..(n - i + 1) : u[k] = s[i + k - 1]
    BY <1>1
  <2> QED BY <2>1, <2>2, <2>3
<1>4. one \in Seq(A) /\ Len(one) = 1 /\ one[1] = s[i]
  BY <1>1
<1> HIDE DEF t, u, one, n
<1>5. /\ one \o t \in Seq(A) /\ Len(one \o t) = Len(one) + Len(t)
      /\ \A k \in 1..Len(one) : (one \o t)[k] = one[k]
      /\ \A k \in 1..Len(t) : (one \o t)[Len(one) + k] = t[k]
  <2>1. one \in Seq(A) /\ t \in Seq(A)
    BY <1>2, <1>4
  <2> QED BY <2>1, Cat
<1> DEFINE w == one \o t
<1>6. w \in Seq(A) /\ Len(w) = n - i + 1 /\ w[1] = s[i] /\ \A k \in 1..(n - i) : w[1 + k] = s[i + k]
  BY <1>1, <1>2, <1>4, <1>5
<1> HIDE DEF w
<1>7. ASSUME NEW k \in 1..Len(u) PROVE w[k] = u[k]
  <2>1. CASE k = 1
    <3>1. 1 \in 1..(n - i + 1) /\ i + 1 - 1 = i
      BY <1>1
    <3> QED BY <1>3, <1>6, <2>1, <3>1
  <2>2. CASE k # 1
    <3>1. k - 1 \in 1..(n - i) /\ 1 + (k - 1) = k /\ i + (k - 1) = i + k - 1 /\ k \in 1..(n - i + 1)
      BY <1>1, <1>3, <2>2
    <3> QED BY <1>3, <1>6, <3>1
  <2> QED BY <2>1, <2>2
<1>8. w = u
  BY <1>3, <1>6, <1>7, SameSeq
<1> QED BY <1>2, <1>3, <1>8 DEF w, t, u, one, n

LEMMA FilledAsRead ==
    ASSUME NEW a \in Element, a.type = AMF_OBJECT, NEW ms,
           ms = [i \in DOMAIN a.obj |-> [key |-> a.obj[i].key, val |-> AsRead[a.obj[i].val]]]
    PROVE  /\ ms \in Seq([key : Strings, val : Element]) /\ Len(ms) = Len(a.obj)
           /\ Filled(ms) = AsRead[a]
<1> DEFINE n == Len(a.obj)
           M == [key : Strings, val : Element]
<1>1. n \in Nat /\ DOMAIN a.obj = 1..n
      /\ \A i \in 1..n : a.obj[i].key \in Strings /\ a.obj[i].val \in Element
  BY ElementParts, SeqParts
<1>2. \A i \in 1..n : ms[i] \in M /\ ms[i].key = a.obj[i].key
  BY <1>1, AsReadIn
<1>3. DOMAIN ms = 1..n /\ ms = [i \in 1..n |-> ms[i]]
  BY <1>1
<1>4. \A i, j \in 1..n : a.obj[i].key = a.obj[j].key => i = j
  BY <1>1, ElementTypes
<1> HIDE DEF n, M
<1>5. ms \in [1..n -> M]
  BY <1>2, <1>3
<1>6. ms \in Seq(M) /\ Len(ms) = n
  BY <1>1, <1>5, MakeSeq
<1>7. \A i, j \in DOMAIN ms : ms[i].key = ms[j].key => i = j
  BY <1>2, <1>3, <1>4
<1>8. Filled(ms) \in ObjectsWith(Strings, Element) /\ Filled(ms).obj = ms
  BY <1>6, <1>7, FilledIn DEF M
<1>9. Filled(ms) = [type |-> AMF_OBJECT, num |-> 0, str |-> NULL, obj |-> ms]
  <2> DEFINE f == Filled(ms)
  <2>1. f \in [type : {AMF_OBJECT}, num : {0}, str : {NULL}, obj : Seq(M)] /\ f.obj = ms
    BY <1>8 DEF ObjectsWith, M
  <2> HIDE DEF f
  <2>2. f = [type |-> AMF_OBJECT, num |-> 0, str |-> NULL, obj |-> ms]
    BY <2>1
  <2> QED BY <2>2 DEF f
<1>10. AsRead[a] = [type |-> AMF_OBJECT, num |-> 0, str |-> NULL, obj |-> ms]
  BY AsReadParts
<1> QED BY <1>6, <1>9, <1>10 DEF n, M

LEMMA ReadsObject ==
    ASSUME NEW b \in Buffers, NEW a \in Element, a.type = AMF_OBJECT, ~KeyAsEnd[a],
           \A i \in DOMAIN a.obj : Reads(b, a.obj[i].val),
           NEW q \in Pos, NEW r, Follows(amf_to_buf, a, r), Has(b, q, r)
    PROVE  ParseObject(b, parse_element(b), q) = Parsed(AsRead[a], q + Len(r))
<1> DEFINE g == parse_element(b)
           n == Len(a.obj)
           mark == <<0, 0, AMF_OBJECT_END>>
           ms == [i \in DOMAIN a.obj |-> [key |-> a.obj[i].key, val |-> AsRead[a.obj[i].val]]]
<1>1. PICK ss \in Seq(Seq(Nat)) :
            /\ ss = [i \in DOMAIN a.obj |-> Bytes(a.obj[i].key) \o amf_to_buf[a.obj[i].val]]
            /\ r = FlattenSeq(ss) \o <<0, 0, AMF_OBJECT_END>>
            /\ Len(r) = Len(FlattenSeq(ss)) + 3
  BY DEF Follows
<1> DEFINE F == FlattenSeq(ss)
           L == Len(F)
           e == q + L
<1>2. n \in Nat /\ DOMAIN a.obj = 1..n /\ Len(ss) = n
      /\ \A i \in 1..n : a.obj[i].key \in Strings /\ a.obj[i].val \in Element
  <2>1. n \in Nat /\ DOMAIN a.obj = 1..n
    BY ElementParts, SeqParts
  <2>2. DOMAIN ss = 1..n /\ DOMAIN ss = 1..Len(ss) /\ Len(ss) \in Nat
    <3>1. DOMAIN ss = DOMAIN a.obj
      BY <1>1, Zenon
    <3>2. DOMAIN ss = 1..Len(ss) /\ Len(ss) \in Nat
      BY SeqParts
    <3> QED BY <2>1, <3>1, <3>2
  <2>3. Len(ss) = n
    <3> HIDE DEF n
    <3> QED BY <2>1, <2>2, SameSpan
  <2> QED BY <2>1, <2>3, ElementParts
<1>3. F \in Seq(Nat) /\ L \in Nat
  BY FlattenParts
<1>4. PICK off \in [0..Len(ss) -> Nat] :
        /\ off[0] = 0 /\ off[Len(ss)] = Len(FlattenSeq(ss))
        /\ \A i \in 1..Len(ss) : off[i] = off[i - 1] + Len(ss[i])
        /\ \A i \in 0..Len(ss) : off[i] <= Len(FlattenSeq(ss))
        /\ \A i \in 1..Len(ss) : \A j \in 1..Len(ss[i]) :
             FlattenSeq(ss)[off[i - 1] + j] = ss[i][j]
  BY FlattenParts
<1>5. Has(b, q, F) /\ Has(b, e, mark) /\ e \in Pos
  <2>1. mark \in Seq(Nat)
    BY DEF AMF_OBJECT_END
  <2>2. Has(b, q, F \o mark)
    BY <1>1, Zenon
  <2> HIDE DEF F, mark
  <2> QED BY <1>3, <2>1, <2>2, HasCat
<1>6. /\ g["members"][e] = Parsed(<<>>, e + 3) /\ b.bytes[e] = 0 /\ e < End(b)
  <2> HIDE DEF e
  <2> QED BY <1>5, EndRead
<1>7. \A i \in 1..n : /\ q + off[i - 1] \in Pos /\ Has(b, q + off[i - 1], ss[i])
                      /\ q + off[i] = (q + off[i - 1]) + Len(ss[i])
  <2>1. \A i \in 1..Len(ss) :
              /\ q + off[i - 1] \in Pos /\ Has(b, q + off[i - 1], ss[i])
              /\ q + off[i] = (q + off[i - 1]) + Len(ss[i])
    BY <1>4, <1>5, HasFlatten
  <2> QED BY <1>2, <2>1
<1>8. \A i \in 1..n : ss[i] = Bytes(a.obj[i].key) \o amf_to_buf[a.obj[i].val]
  BY <1>1, <1>2
<1>9. q \in Nat /\ End(b) \in Nat /\ e \in Nat
  <2>1. End(b) \in Nat
    BY SizeInBuffer
  <2> QED BY <1>5, <2>1 DEF Pos
<1>10. /\ off[0] = 0 /\ off[n] = L
       /\ \A i \in 0..n : off[i] \in Nat /\ off[i] <= L
  BY <1>2, <1>4
<1>11. /\ ms \in Seq([key : Strings, val : Element]) /\ Len(ms) = n
       /\ Filled(ms) = AsRead[a]
  <2> HIDE DEF ms
  <2> QED BY FilledAsRead DEF ms
<1>12. \A i \in 1..n : ms[i] = [key |-> a.obj[i].key, val |-> AsRead[a.obj[i].val]]
  BY <1>2
<1>13. \A i \in 2..n : Len(a.obj[i].key) \div Base # AMF_OBJECT_END
  <2>1. ~HasKeyAsEnd(KeyAsEnd, a) /\ a # NULL
    BY KeyAsEndEq, NullAssumption
  <2>2. \A i \in 2..n : i \in DOMAIN a.obj /\ i > 1
    BY <1>2
  <2> QED BY <2>1, <2>2 DEF HasKeyAsEnd
<1>14. \A i \in 1..n : Reads(b, a.obj[i].val)
  BY <1>2
<1> HIDE DEF g, n, mark, ms, F, L, e
<1>15. ASSUME NEW i \in 1..n
       PROVE  /\ b.bytes[q + off[i - 1]] = Len(a.obj[i].key) \div Base
              /\ At(b, q + off[i]) # AMF_OBJECT_END /\ g["members"][q + off[i]].val # NULL =>
                    g["members"][q + off[i - 1]] =
                        Parsed(<<ms[i]>> \o g["members"][q + off[i]].val,
                               g["members"][q + off[i]].next)
              /\ q + off[i - 1] < End(b)
  <2> DEFINE p == q + off[i - 1]
             k == a.obj[i].key
             x == a.obj[i].val
             u == q + off[i]
             m == ms[i]
             rest == g["members"][u]
  <2>1. p \in Pos /\ Has(b, p, Bytes(k) \o amf_to_buf[x]) /\ u = p + Len(Bytes(k) \o amf_to_buf[x])
    BY <1>7, <1>8
  <2>2. k \in Strings /\ x \in Element /\ Reads(b, x) /\ m = [key |-> k, val |-> AsRead[x]]
    BY <1>2, <1>12, <1>14
  <2>3. u < End(b) /\ p < End(b)
    <3>1. i \in 0..n /\ i - 1 \in 0..n
      BY <1>2
    <3>2. off[i] \in Nat /\ off[i] <= L /\ off[i - 1] \in Nat /\ off[i - 1] <= L
      BY <1>10, <3>1
    <3>3. q + off[i] <= q + L /\ q + off[i - 1] <= q + L
      BY <1>3, <1>9, <3>2
    <3>4. q + L < End(b)
      <4>1. q + L = e
        BY DEF e
      <4> QED BY <1>6, <4>1
    <3>5. q + L \in Nat /\ u \in Nat /\ p \in Nat
      <4>1. \A w \in Nat : q + w \in Nat
        BY <1>9
      <4> QED BY <1>3, <3>2, <4>1
    <3> HIDE DEF u, p
    <3>6. u <= q + L /\ p <= q + L
      BY <3>3 DEF u, p
    <3> QED BY <1>9, <3>4, <3>5, <3>6
  <2>4. rest = parse_element(b)["members"][u]
    BY DEF g
  <2> HIDE DEF p, k, x, u, m, rest
  <2>5. /\ b.bytes[p] = Len(k) \div Base
        /\ At(b, u) # AMF_OBJECT_END /\ rest.val # NULL =>
                parse_element(b)["members"][p] = Parsed(<<m>> \o rest.val, rest.next)
    BY <2>1, <2>2, <2>3, <2>4, MemberRead
  <2> QED BY <2>3, <2>5 DEF p, k, u, m, rest, g
<1>16. \A i \in 1..n : At(b, q + off[i]) # AMF_OBJECT_END
  <2> TAKE i \in 1..n
  <2>1. CASE i = n
    <3>1. At(b, e) = 0
      BY <1>6 DEF At
    <3>2. q + off[i] = e
      BY <1>10, <2>1 DEF e
    <3> QED BY <3>1, <3>2 DEF AMF_OBJECT_END
  <2>2. CASE i # n
    <3>1. i + 1 \in 1..n /\ i + 1 \in 2..n /\ (i + 1) - 1 = i
      BY <1>2, <2>2
    <3>2. b.bytes[q + off[i]] = Len(a.obj[i + 1].key) \div Base /\ q + off[i] < End(b)
      BY <1>15, <3>1
    <3> QED BY <1>13, <3>1, <3>2 DEF At
  <2> QED BY <2>1, <2>2
<1> DEFINE S == {i \in 0..n : g["members"][q + off[i]] = Parsed(SubSeq(ms, i + 1, n), e + 3)}
<1>17. n \in S
  <2>1. SubSeq(ms, n + 1, n) = <<>>
    BY <1>2, <1>11
  <2>2. q + off[n] = e /\ n \in 0..n
    BY <1>2, <1>10 DEF e
  <2> QED BY <1>6, <2>1, <2>2
<1>18. ASSUME NEW i \in 1..n, i \in S PROVE i - 1 \in S
  <2> DEFINE rest == g["members"][q + off[i]]
             t == SubSeq(ms, i + 1, n)
  <2>1. rest = Parsed(t, e + 3)
    BY <1>18
  <2>2. <<ms[i]>> \o t = SubSeq(ms, i, n) /\ t \in Seq([key : Strings, val : Element])
    BY <1>2, <1>11, SubSeqMore
  <2>3. t # NULL
    BY <2>2, NullAssumption
  <2> HIDE DEF t
  <2>4. rest.val = t /\ rest.next = e + 3
    <3> HIDE DEF rest
    <3> QED BY <2>1 DEF Parsed
  <2>5. g["members"][q + off[i - 1]] = Parsed(<<ms[i]>> \o rest.val, rest.next)
    BY <1>15, <1>16, <2>3, <2>4
  <2>6. (i - 1) + 1 = i /\ i - 1 \in 0..n
    BY <1>2
  <2> HIDE DEF rest
  <2> QED BY <2>2, <2>4, <2>5, <2>6
<1>19. 0 \in S
  <2>1. 0 \in 0..n
    BY <1>2
  <2> HIDE DEF S
  <2> QED BY <1>2, <1>17, <1>18, <2>1, DownTo
<1>20. g["members"][q] = Parsed(ms, e + 3)
  <2>1. SubSeq(ms, 0 + 1, n) = ms /\ q + off[0] = q
    BY <1>9, <1>10, <1>11
  <2> QED BY <1>19, <2>1
<1>21. g["members"][q].val = ms /\ g["members"][q].next = e + 3 /\ ms # NULL
  <2>1. ms # NULL
    BY <1>11, NullAssumption
  <2> QED BY <1>20, <2>1 DEF Parsed
<1>22. ParseObject(b, g, q) = Parsed(Filled(ms), e + 3)
  BY <1>21, Zenon DEF ParseObject
<1>23. e + 3 = q + Len(r)
  <2>1. Len(r) = L + 3
    BY <1>1, Zenon DEF L, F
  <2>2. e = q + L
    BY DEF e
  <2>3. \A w \in Nat : (q + w) + 3 = q + (w + 3)
    BY <1>9
  <2> QED BY <1>3, <2>1, <2>2, <2>3, Zenon
<1>24. ParseObject(b, g, q) = Parsed(AsRead[a], q + Len(r))
  <2>1. Filled(ms) = AsRead[a]
    BY <1>11
  <2> QED BY <1>22, <1>23, <2>1, Zenon
<1> QED BY <1>24 DEF g

Arm(t, num, bool, str, obj, ecma, arr, nul, other) ==
    CASE t = AMF_NUMBER -> num
      [] t = AMF_BOOLEAN -> bool
      [] t = AMF_STRING -> str
      [] t = AMF_OBJECT -> obj
      [] t = AMF_ECMA_ARRAY -> ecma
      [] t = AMF_STRICT_ARRAY -> arr
      [] t \in {AMF_NULL, AMF_UNDEFINED} -> nul
      [] OTHER -> other

LEMMA ArmTaken ==
    ASSUME NEW t, NEW num, NEW bool, NEW str, NEW obj, NEW ecma, NEW arr, NEW nul, NEW other,
           NEW x, x = Arm(t, num, bool, str, obj, ecma, arr, nul, other)
    PROVE  /\ t = AMF_NUMBER => x = num
           /\ t = AMF_BOOLEAN => x = bool
           /\ t = AMF_STRING => x = str
           /\ t = AMF_OBJECT => x = obj
           /\ t = AMF_ECMA_ARRAY => x = ecma
           /\ t = AMF_STRICT_ARRAY => x = arr
           /\ t \in {AMF_NULL, AMF_UNDEFINED} => x = nul
BY DEF Arm, AMF_NUMBER, AMF_BOOLEAN, AMF_STRING, AMF_OBJECT, AMF_ECMA_ARRAY, AMF_STRICT_ARRAY,
       AMF_NULL, AMF_UNDEFINED

LEMMA ElementAt ==
    ASSUME NEW b \in Buffers, NEW p \in Pos, p < End(b), NEW t, t = b.bytes[p],
           NEW q, q = p + 1, NEW g, g = parse_element(b), NEW e, e = g["element"][p]
    PROVE  /\ t = AMF_NUMBER /\ ~(q + 8 > End(b)) => e = Parsed(amf_number(b.bytes[q]), q + 8)
           /\ t = AMF_BOOLEAN /\ ~(q >= End(b)) => e = Parsed(amf_bool(b.bytes[q]), q + 1)
           /\ t = AMF_STRING => e = ParseString(b, q)
           /\ t = AMF_OBJECT => e = ParseObject(b, g, q)
           /\ t = AMF_ECMA_ARRAY /\ ~(q + 4 > End(b)) => e = ParseObject(b, g, q + 4)
           /\ t = AMF_STRICT_ARRAY => e = ParseArray(b, g, q)
           /\ t \in {AMF_NULL, AMF_UNDEFINED} => e = Parsed(amf_alloc(t), q)
<1>1. e = ParseElement(b, g, p)
  <2>1. "element" \in Parts
    BY DEF Parts
  <2>2. g["element"][p] = ParsePart(b, g, "element", p)
    BY <2>1, ParseEq
  <2> QED BY <2>2 DEF ParsePart
<1>2. ~(p >= End(b))
  <2>1. p \in Nat /\ End(b) \in Nat
    <3>1. End(b) \in Nat
      BY SizeInBuffer
    <3> QED BY <3>1 DEF Pos
  <2> QED BY <2>1
<1> DEFINE num == IF q + 8 > End(b) THEN Failed ELSE Parsed(amf_number(b.bytes[q]), q + 8)
           bool == IF q >= End(b) THEN Failed ELSE Parsed(amf_bool(b.bytes[q]), q + 1)
           str == ParseString(b, q)
           obj == ParseObject(b, g, q)
           ecma == IF q + 4 > End(b) THEN Failed ELSE ParseObject(b, g, q + 4)
           arr == ParseArray(b, g, q)
           nul == Parsed(amf_alloc(t), q)
           other == Parsed(amf_alloc(AMF_UNDEFINED), End(b))
<1>3. ParseElement(b, g, p) = Arm(t, num, bool, str, obj, ecma, arr, nul, other)
  BY <1>2, Zenon DEF ParseElement, Arm
<1>4. /\ ~(q + 8 > End(b)) => num = Parsed(amf_number(b.bytes[q]), q + 8)
      /\ ~(q >= End(b)) => bool = Parsed(amf_bool(b.bytes[q]), q + 1)
      /\ ~(q + 4 > End(b)) => ecma = ParseObject(b, g, q + 4)
  BY Zenon
<1>5. /\ str = ParseString(b, q) /\ obj = ParseObject(b, g, q) /\ arr = ParseArray(b, g, q)
      /\ nul = Parsed(amf_alloc(t), q)
  OBVIOUS
<1> HIDE DEF num, bool, str, obj, ecma, arr, nul, other
<1>6. /\ t = AMF_NUMBER => e = num
      /\ t = AMF_BOOLEAN => e = bool
      /\ t = AMF_STRING => e = str
      /\ t = AMF_OBJECT => e = obj
      /\ t = AMF_ECMA_ARRAY => e = ecma
      /\ t = AMF_STRICT_ARRAY => e = arr
      /\ t \in {AMF_NULL, AMF_UNDEFINED} => e = nul
  BY <1>1, <1>3, ArmTaken
<1> QED BY <1>4, <1>5, <1>6, Zenon

LEMMA ReadsStep ==
    ASSUME NEW b \in Buffers, NEW a \in Element, ~KeyAsEnd[a],
           \A i \in DOMAIN a.obj : Reads(b, a.obj[i].val)
    PROVE  Reads(b, a)
<1> SUFFICES ASSUME NEW p \in Pos, Has(b, p, amf_to_buf[a])
             PROVE  parse_element(b)["element"][p] =
                        IF EmptyString(a) /\ p + Len(amf_to_buf[a]) = End(b) THEN Failed
                        ELSE Parsed(AsRead[a], p + Len(amf_to_buf[a]))
  BY DEF Reads
<1> DEFINE q == p + 1
           g == parse_element(b)
           e == g["element"][p]
<1>1. /\ b.bytes[p] = a.type /\ p < End(b) /\ q \in Pos
  BY FirstByte
<1>2. PICK r : /\ Follows(amf_to_buf, a, r) /\ Has(b, q, r)
               /\ p + Len(amf_to_buf[a]) = q + Len(r)
  BY FirstByte
<1> DEFINE next == q + Len(r)
<1>3. r \in Seq(Nat) /\ Len(r) \in Nat /\ q \in Nat /\ End(b) \in Nat /\ next <= End(b)
  <2>1. r \in Seq(Nat)
    BY <1>2 DEF Follows
  <2>2. End(b) \in Nat
    BY SizeInBuffer
  <2> QED BY <1>1, <1>2, <2>1, <2>2 DEF Pos, Has
<1>4. a = [type |-> a.type, num |-> a.num, str |-> a.str, obj |-> a.obj] /\ a # NULL
  BY ElementTypes
<1>5. a.type # AMF_STRING => ~EmptyString(a)
  BY DEF EmptyString
<1> SUFFICES e = IF EmptyString(a) /\ next = End(b) THEN Failed ELSE Parsed(AsRead[a], next)
  BY <1>2
<1>6. CASE a.type = AMF_NUMBER
  <2>1. r = Times(8, a.num) /\ Len(r) = 8
    BY <1>2, <1>6 DEF Follows
  <2>2. r[1] = a.num /\ 1 \in 1..Len(r)
    BY <2>1 DEF Times
  <2>3. b.bytes[q + 1 - 1] = r[1] /\ q + 1 - 1 = q
    BY <1>1, <1>2, <1>3, <2>2 DEF Has
  <2>4. ~(q + 8 > End(b)) /\ next = q + 8
    <3>1. Len(r) = 8
      BY <2>1
    <3>2. q \in Nat /\ End(b) \in Nat /\ q + Len(r) <= End(b)
      BY <1>3
    <3> HIDE DEF q
    <3>3. q + 8 <= End(b) /\ q + Len(r) = q + 8
      BY <3>1, <3>2
    <3> QED BY <3>2, <3>3
  <2>5. e = Parsed(amf_number(b.bytes[q]), q + 8)
    BY <1>1, <1>6, <2>4, ElementAt
  <2>6. amf_number(a.num) = [type |-> AMF_NUMBER, num |-> a.num, str |-> NULL, obj |-> <<>>]
    BY DEF amf_number, amf_alloc
  <2>7. a.type \notin {AMF_STRING, AMF_OBJECT} /\ a.str = NULL /\ a.obj = <<>>
    BY <1>6, ElementTypes DEF AMF_NUMBER, AMF_STRING, AMF_OBJECT
  <2>8. AsRead[a] = amf_number(a.num)
    BY <1>4, <1>6, <2>6, <2>7, AsReadParts
  <2>9. ~EmptyString(a)
    BY <1>5, <2>7
  <2> HIDE DEF e, q, next
  <2> QED BY <2>2, <2>3, <2>4, <2>5, <2>8, <2>9
<1>7. CASE a.type = AMF_BOOLEAN
  <2>1. r = <<a.num>> /\ Len(r) = 1
    BY <1>2, <1>7 DEF Follows
  <2>2. r[1] = a.num /\ 1 \in 1..Len(r)
    BY <2>1
  <2>3. b.bytes[q + 1 - 1] = r[1] /\ q + 1 - 1 = q
    BY <1>1, <1>2, <1>3, <2>2 DEF Has
  <2>4. ~(q >= End(b)) /\ next = q + 1
    BY <1>3, <2>1
  <2>5. e = Parsed(amf_bool(b.bytes[q]), q + 1)
    BY <1>1, <1>7, <2>4, ElementAt
  <2>7. a.type \notin {AMF_STRING, AMF_OBJECT} /\ a.str = NULL /\ a.obj = <<>> /\ a.num \in {0, 1}
    BY <1>7, ElementTypes DEF AMF_BOOLEAN, AMF_STRING, AMF_OBJECT
  <2>6. amf_bool(a.num) = [type |-> AMF_BOOLEAN, num |-> a.num, str |-> NULL, obj |-> <<>>]
    BY <2>7 DEF amf_bool, amf_alloc
  <2>8. AsRead[a] = amf_bool(a.num)
    BY <1>4, <1>7, <2>6, <2>7, AsReadParts
  <2>9. ~EmptyString(a)
    BY <1>5, <2>7
  <2> HIDE DEF e, q, next
  <2> QED BY <2>2, <2>3, <2>4, <2>5, <2>8, <2>9
<1>8. CASE a.type = AMF_STRING
  <2> DEFINE n == amf_strlen(a.str)
             v == q + 2 + Size16(b, q)
  <2>1. r = Bytes(a.str) /\ Len(r) = 2 + n /\ a.str \in Strings \cup {NULL}
    BY <1>2, <1>8, ElementTypes DEF Follows
  <2>2. /\ n \in Nat /\ Size16(b, q) = n /\ q + 2 + n \in Pos
        /\ Chars(b, q + 2, q + 2 + n) = IF n = 0 THEN <<>> ELSE a.str
    BY <1>1, <1>2, <2>1, ReadChars
  <2>3. v = q + 2 + n /\ v = next /\ ~(v > End(b))
    BY <1>3, <2>1, <2>2
  <2>4. EmptyString(a) <=> n = 0
    BY <1>4, <1>8 DEF EmptyString
  <2>5. q + 2 >= End(b) <=> n = 0 /\ next = End(b)
    BY <1>3, <2>2, <2>3
  <2>6. e = ParseString(b, q)
    BY <1>1, <1>8, ElementAt
  <2>7. ParseString(b, q) = IF q + 2 >= End(b) \/ v > End(b) THEN Failed
                            ELSE Parsed(amf_stringf(Chars(b, q + 2, v)), v)
    BY Zenon DEF ParseString
  <2>8. Chars(b, q + 2, v) = IF n = 0 THEN <<>> ELSE a.str
    <3> HIDE DEF v
    <3> QED BY <2>2, <2>3
  <2>9. amf_stringf(Chars(b, q + 2, v)) = AsRead[a]
    <3>1. n # 0 => a.str # <<>>
      BY <1>4 DEF amf_strlen
    <3> DEFINE c == Chars(b, q + 2, v)
               s == IF n = 0 THEN NULL ELSE a.str
    <3>2. (IF c = <<>> THEN NULL ELSE c) = s
      <4> HIDE DEF n, c
      <4> QED BY <2>8, <3>1 DEF c
    <3> HIDE DEF c
    <3>3. amf_stringf(c) = amf_string(s)
      <4> HIDE DEF s
      <4> QED BY <3>2 DEF amf_stringf
    <3>4. amf_string(s) = [type |-> AMF_STRING, num |-> 0, str |-> s, obj |-> <<>>]
      <4> HIDE DEF s
      <4> QED BY DEF amf_string, amf_alloc
    <3>5. AsRead[a] = [type |-> AMF_STRING, num |-> 0, str |-> s, obj |-> <<>>]
      BY <1>8, AsReadParts
    <3> QED BY <3>3, <3>4, <3>5 DEF c
  <2> HIDE DEF e, q, next, v, n
  <2> QED BY <2>3, <2>4, <2>5, <2>6, <2>7, <2>9
<1>9. CASE a.type = AMF_OBJECT
  <2>1. ParseObject(b, g, q) = Parsed(AsRead[a], q + Len(r))
    <3> HIDE DEF q
    <3> QED BY <1>1, <1>2, <1>9, ReadsObject
  <2>2. e = ParseObject(b, g, q)
    BY <1>1, <1>9, ElementAt
  <2>3. ~EmptyString(a)
    BY <1>5, <1>9 DEF AMF_OBJECT, AMF_STRING
  <2> HIDE DEF e, q
  <2> QED BY <2>1, <2>2, <2>3
<1>10. CASE a.type \in {AMF_NULL, AMF_UNDEFINED}
  <2>1. Len(r) = 0
    BY <1>2, <1>10 DEF Follows
  <2>2. next = q
    <3>1. q \in Nat
      BY <1>3
    <3> HIDE DEF q
    <3>2. q + Len(r) = q
      BY <2>1, <3>1
    <3> QED BY <3>2
  <2>3. e = Parsed(amf_alloc(a.type), q)
    BY <1>1, <1>10, ElementAt
  <2>4. /\ a.type \notin {AMF_STRING, AMF_OBJECT} /\ a.str = NULL /\ a.obj = <<>> /\ a.num = 0
    BY <1>10, ElementTypes DEF AMF_NULL, AMF_UNDEFINED, AMF_STRING, AMF_OBJECT, AMF_NUMBER,
                               AMF_BOOLEAN
  <2>5. AsRead[a] = amf_alloc(a.type)
    BY <1>4, <2>4, AsReadParts DEF amf_alloc
  <2>6. ~EmptyString(a)
    BY <1>5, <2>4
  <2> HIDE DEF e, q, next
  <2> QED BY <2>2, <2>3, <2>5, <2>6
<1> QED BY <1>6, <1>7, <1>8, <1>9, <1>10, ElementTypes

(* An element is read back as AsRead says wherever it is in a buffer, but  *)
(* for an empty string at its end and for an object with a key that looks  *)
(* like an end mark (amf.c:442-489 against 504-642).                       *)
THEOREM ReadsAll ==
    ASSUME NEW b \in Buffers
    PROVE  \A a \in Element : ~KeyAsEnd[a] => Reads(b, a)
<1> DEFINE S == {a \in Element : ~KeyAsEnd[a] => Reads(b, a)}
<1>1. ASSUME NEW a \in Element, \A i \in DOMAIN a.obj : a.obj[i].val \in S PROVE a \in S
  <2> SUFFICES ASSUME ~KeyAsEnd[a] PROVE Reads(b, a)
    OBVIOUS
  <2>1. ~HasKeyAsEnd(KeyAsEnd, a) /\ a # NULL
    BY KeyAsEndEq, NullAssumption
  <2>2. \A i \in DOMAIN a.obj : ~KeyAsEnd[a.obj[i].val]
    BY <2>1 DEF HasKeyAsEnd
  <2>3. \A i \in DOMAIN a.obj : Reads(b, a.obj[i].val)
    BY <1>1, <2>2
  <2> QED BY <2>3, ReadsStep
<1>2. \A a \in Element : a \in S
  <2> HIDE DEF S
  <2> QED BY <1>1, ElementInd
<1> QED BY <1>2

(* A slot of an invoke that is no array: what is read of either form.      *)
Piece(x, s) == \/ x = NULL /\ s = <<AMF_NULL>>
               \/ x \in Element /\ s \in ElementForms(x)

LEMMA FormParts ==
    ASSUME NEW b \in Buffers, NEW p \in Pos, NEW a \in Element, a.type = AMF_OBJECT,
           ~KeyAsEnd[a], Has(b, p, PeerElement(a))
    PROVE  parse_element(b)["element"][p] = Parsed(AsRead[a], p + Len(PeerElement(a)))
<1>1. PICK r : Follows(amf_to_buf, a, r) /\ amf_to_buf[a] = <<a.type>> \o r
  BY BytesParts
<1>2. r \in Seq(Nat) /\ a.type \in Nat /\ Len(r) \in Nat
  BY <1>1 DEF Follows, AMF_OBJECT
<1>3. Tail(amf_to_buf[a]) = r
  BY <1>1, <1>2, TailParts
<1> DEFINE n == Len(a.obj)
           s == <<AMF_ECMA_ARRAY>>
           t == Int32(n)
           h == s \o t
           g == parse_element(b)
<1>4. n \in Nat /\ t \in Seq(Nat) /\ Len(t) = 4
  BY ElementParts, SeqParts, SizeBytes
<1>5. s \in Seq(Nat) /\ Len(s) = 1 /\ s[1] = AMF_ECMA_ARRAY /\ 1 \in 1..Len(s)
  BY DEF AMF_ECMA_ARRAY
<1>6. PeerElement(a) = h \o r
  BY <1>3 DEF PeerElement
<1> HIDE DEF s, t, n
<1>7. h \in Seq(Nat) /\ Len(h) = 5
  <2>1. s \o t \in Seq(Nat) /\ Len(s \o t) = Len(s) + Len(t)
    BY <1>4, <1>5, Cat
  <2> QED BY <1>4, <1>5, <2>1
<1>8. Has(b, p, h \o r)
  BY <1>6
<1>9. /\ Has(b, p, h) /\ Has(b, p + Len(h), r) /\ p + Len(h) \in Pos
      /\ p + Len(h \o r) = (p + Len(h)) + Len(r)
  <2>1. h \in Seq(Nat) /\ r \in Seq(Nat)
    BY <1>2, <1>7
  <2> HIDE DEF h
  <2>2. Has(b, p, h) /\ Has(b, p + Len(h), r) /\ p + Len(h) \in Pos
    BY <1>8, <2>1, HasCat
  <2>3. p + Len(h \o r) = (p + Len(h)) + Len(r)
    BY <1>8, <2>1, HasCat
  <2> QED BY <2>2, <2>3
<1>10. Has(b, p, s)
  BY <1>4, <1>5, <1>9, HasCat
<1>11. p \in Nat /\ End(b) \in Nat
  <2>1. End(b) \in Nat
    BY SizeInBuffer
  <2> QED BY <2>1 DEF Pos
<1>12. b.bytes[p] = AMF_ECMA_ARRAY /\ p < End(b)
  <2>1. s \in Seq(Nat) /\ 1 \in 1..Len(s)
    BY <1>5
  <2>2. b.bytes[p + 1 - 1] = s[1] /\ p + 1 - 1 < End(b)
    BY <1>10, <2>1, HasByte
  <2>3. p + 1 - 1 = p
    BY <1>11
  <2> QED BY <1>5, <2>2, <2>3
<1> DEFINE q == p + 1
<1>13. q + 4 = p + Len(h) /\ ~(q + 4 > End(b)) /\ q + 4 \in Pos
  <2>1. p + Len(h) <= End(b) /\ p + Len(h) = p + 5
    BY <1>7, <1>9 DEF Has
  <2> HIDE DEF h
  <2> QED BY <1>9, <1>11, <2>1
<1>14. g["element"][p] = ParseObject(b, g, q + 4)
  BY <1>12, <1>13, ElementAt
<1>15. \A i \in DOMAIN a.obj : Reads(b, a.obj[i].val)
  <2>1. ~HasKeyAsEnd(KeyAsEnd, a) /\ a # NULL
    BY KeyAsEndEq, NullAssumption
  <2>2. \A i \in DOMAIN a.obj : ~KeyAsEnd[a.obj[i].val]
    BY <2>1 DEF HasKeyAsEnd
  <2> QED BY <2>2, ElementParts, ReadsAll
<1> DEFINE v == q + 4
<1>16. Has(b, v, r) /\ v \in Pos /\ p + Len(h \o r) = v + Len(r)
  BY <1>9, <1>13
<1> HIDE DEF q, h, v
<1>17. ParseObject(b, g, v) = Parsed(AsRead[a], v + Len(r))
  BY <1>1, <1>15, <1>16, ReadsObject
<1> QED BY <1>6, <1>14, <1>16, <1>17 DEF v

LEMMA PieceRead ==
    ASSUME NEW b \in Buffers, NEW p \in Pos, NEW x, NEW s, Piece(x, s),
           ~HasKeyAsEnd(KeyAsEnd, x), Has(b, p, s)
    PROVE  /\ s \in Seq(Nat) /\ Len(s) \in Nat /\ Len(s) > 0
           /\ parse_element(b)["element"][p] =
                IF EmptyString(x) /\ p + Len(s) = End(b) THEN Failed
                ELSE Parsed(ReadBack(AsRead, x), p + Len(s))
           /\ ReadBack(AsRead, x) \in Element /\ ReadBack(AsRead, x) # NULL
<1>1. CASE x = NULL /\ s = <<AMF_NULL>>
  <2>1. s \in Seq(Nat) /\ Len(s) = 1 /\ s[1] = AMF_NULL /\ 1 \in 1..Len(s)
    BY <1>1 DEF AMF_NULL
  <2>2. ReadBack(AsRead, x) = amf_alloc(AMF_NULL) /\ ~EmptyString(x)
    BY <1>1 DEF ReadBack, EmptyString
  <2>3. amf_alloc(AMF_NULL) \in Plain
    BY DEF Plain, amf_alloc
  <2>4. amf_alloc(AMF_NULL) \in Element /\ amf_alloc(AMF_NULL) # NULL
    BY <2>3, PlainIn, NullAssumption
  <2>5. b.bytes[p] = AMF_NULL /\ p < End(b)
    <3>1. b.bytes[p + 1 - 1] = s[1] /\ p + 1 - 1 < End(b)
      BY <2>1, HasByte
    <3>2. p + 1 - 1 = p
      BY DEF Pos
    <3> QED BY <2>1, <3>1, <3>2
  <2>6. AMF_NULL \in {AMF_NULL, AMF_UNDEFINED}
    OBVIOUS
  <2> DEFINE t == AMF_NULL
             q == p + 1
  <2>7. parse_element(b)["element"][p] = Parsed(amf_alloc(t), q)
    <3>1. t \in {AMF_NULL, AMF_UNDEFINED} /\ t = b.bytes[p]
      BY <2>5
    <3> HIDE DEF t
    <3> QED BY <2>5, <3>1, ElementAt
  <2>8. p + Len(s) = q
    BY <2>1
  <2> HIDE DEF q
  <2> QED BY <2>1, <2>2, <2>4, <2>7, <2>8
<1>2. CASE x \in Element /\ s \in ElementForms(x)
  <2>1. x # NULL /\ ~KeyAsEnd[x]
    BY <1>2, KeyAsEndEq, NullAssumption
  <2>2. ReadBack(AsRead, x) = AsRead[x] /\ AsRead[x] \in Element /\ AsRead[x] # NULL
    BY <1>2, AsReadEq, AsReadIn
  <2>3. s = amf_to_buf[x] \/ (x.type = AMF_OBJECT /\ s = PeerElement(x))
    BY <1>2 DEF ElementForms, PeerElement
  <2>4. s \in Seq(Nat) /\ Len(s) \in Nat
    BY <1>2, ToBufIsSeq, PeerElementIsSeq DEF ElementForms
  <2>5. CASE s = amf_to_buf[x]
    <3>1. Reads(b, x)
      BY <1>2, <2>1, ReadsAll
    <3>2. p < End(b) /\ Len(s) > 0
      <4>1. PICK r : /\ Follows(amf_to_buf, x, r)
                     /\ p + Len(amf_to_buf[x]) = (p + 1) + Len(r)
        BY <1>2, <2>5, FirstByte
      <4>2. Len(r) \in Nat /\ p \in Nat
        BY <4>1 DEF Follows, Pos
      <4>3. p + Len(s) = (p + 1) + Len(r)
        BY <2>5, <4>1
      <4>4. Len(s) > 0
        BY <2>4, <4>2, <4>3
      <4> QED BY <1>2, <2>5, <4>4, FirstByte
    <3> QED BY <2>2, <2>4, <2>5, <3>1, <3>2 DEF Reads
  <2>6. CASE x.type = AMF_OBJECT /\ s = PeerElement(x)
    <3>1. parse_element(b)["element"][p] = Parsed(AsRead[x], p + Len(s))
      BY <1>2, <2>1, <2>6, FormParts
    <3>2. ~EmptyString(x)
      BY <2>6 DEF EmptyString, AMF_OBJECT, AMF_STRING
    <3>3. Len(s) > 0
      <4>1. s = <<AMF_ECMA_ARRAY>> \o Int32(Len(x.obj)) \o Tail(amf_to_buf[x])
        BY <2>6 DEF PeerElement
      <4>2. s # <<>>
        <5> SUFFICES ASSUME s = <<>> PROVE FALSE
          OBVIOUS
        <5>1. p = p + Len(s)
          BY DEF Pos
        <5>2. Parsed(AsRead[x], p + Len(s)).next = p + Len(s)
              /\ Parsed(AsRead[x], p + Len(s)).val # NULL
          BY <2>2 DEF Parsed
        <5>3. "element" \in Parts /\ p >= 1
          BY DEF Parts, Pos
        <5>4. Good("element", parse_element(b)["element"][p], p)
          BY <5>3, ParseGood DEF GoodFrom
        <5>5. p + Len(s) > p
          BY <3>1, <5>2, <5>4 DEF Good
        <5> QED BY <5>1, <5>5 DEF Pos
      <4> QED BY <2>4, <4>2
    <3> QED BY <2>2, <2>4, <3>1, <3>2, <3>3
  <2> QED BY <2>3, <2>5, <2>6
<1> QED BY <1>1, <1>2 DEF Piece

----------------------------------------------------------------------------
(* Reading an invoke, from its end.  E are its elements as they are read,  *)
(* f what is read from each position on: at the end of the bytes nothing   *)
(* is left of E, and before it what is left is what will be read.          *)

AllRead(E) == [i \in DOMAIN E |-> ReadBack(AsRead, E[i])]
Readable(E) == E \in Seq(Item) /\ AllRead(E) \in Seq(Item) /\ Len(AllRead(E)) = Len(E)
From(b, f) == \A p \in Pos : f[p] = FromBuf(b, f, p)

Outcome(E, m) == IF m < Len(E) /\ EmptyString(E[Len(E)]) THEN NULL
                 ELSE SubSeq(AllRead(E), m + 1, Len(E))

ReadFrom(b, f, E, p, m) ==
    /\ p \in Pos /\ p <= End(b) /\ m \in 0..Len(E)
    /\ p = End(b) <=> m = Len(E)
    /\ f[p] = Outcome(E, m)

LEMMA FromRest ==
    ASSUME NEW b \in Buffers, NEW f, From(b, f), NEW p \in Pos, p < End(b),
           NEW e, e = parse_element(b)["element"][p]
    PROVE  /\ e.val = NULL => f[p] = NULL
           /\ e.val # NULL => f[p] = IF f[e.next] = NULL THEN NULL ELSE <<e.val>> \o f[e.next]
<1>1. f[p] = FromBuf(b, f, p)
  BY DEF From
<1>2. ~(p >= End(b))
  <2>1. p \in Nat /\ End(b) \in Nat
    <3>1. End(b) \in Nat
      BY SizeInBuffer
    <3> QED BY <3>1 DEF Pos
  <2> QED BY <2>1
<1>3. FromBuf(b, f, p) = IF e.val = NULL \/ f[e.next] = NULL THEN NULL
                         ELSE <<e.val>> \o f[e.next]
  BY <1>2, Zenon DEF FromBuf
<1> QED BY <1>1, <1>3

(* An element that is read, and one that is not.                           *)
LEMMA StepRead ==
    ASSUME NEW b \in Buffers, NEW f, From(b, f), NEW E, Readable(E), NEW m \in 1..Len(E),
           NEW p \in Pos, p < End(b), NEW q,
           parse_element(b)["element"][p] = Parsed(ReadBack(AsRead, E[m]), q),
           ReadBack(AsRead, E[m]) # NULL,
           ReadFrom(b, f, E, q, m), m = Len(E) => ~EmptyString(E[m])
    PROVE  ReadFrom(b, f, E, p, m - 1)
<1> DEFINE L == Len(E)
           R == AllRead(E)
           x == ReadBack(AsRead, E[m])
           e == parse_element(b)["element"][p]
<1>1. /\ L \in Nat /\ m \in Nat /\ m <= L /\ m >= 1 /\ R \in Seq(Item) /\ Len(R) = L
      /\ DOMAIN E = 1..L
  BY SeqParts DEF Readable
<1>2. R[m] = x
  BY <1>1 DEF AllRead
<1>3. e.val = x /\ e.next = q /\ e.val # NULL
  <2> HIDE DEF e
  <2>1. e = Parsed(x, q) /\ x # NULL
    BY DEF e
  <2> HIDE DEF x
  <2> QED BY <2>1 DEF Parsed
<1>4. f[p] = IF f[q] = NULL THEN NULL ELSE <<x>> \o f[q]
  <2>1. f[p] = IF f[e.next] = NULL THEN NULL ELSE <<e.val>> \o f[e.next]
    BY <1>3, FromRest
  <2> HIDE DEF e, x
  <2> QED BY <1>3, <2>1
<1>5. f[q] = Outcome(E, m)
  BY DEF ReadFrom
<1>6. (m - 1) + 1 = m /\ m - 1 < L /\ m - 1 \in 0..L /\ m - 1 # L
  BY <1>1
<1>7. <<R[m]>> \o SubSeq(R, m + 1, L) = SubSeq(R, m, L) /\ SubSeq(R, m + 1, L) # NULL
  <2>1. m \in 1..Len(R)
    BY <1>1
  <2> HIDE DEF R, L
  <2>2. <<R[m]>> \o SubSeq(R, m + 1, Len(R)) = SubSeq(R, m, Len(R))
        /\ SubSeq(R, m + 1, Len(R)) \in Seq(Item)
    BY <1>1, <2>1, SubSeqMore
  <2> QED BY <1>1, <2>2, NullAssumption
<1>8. f[p] = Outcome(E, m - 1)
  <2>1. CASE EmptyString(E[L])
    <3>1. m < L
      BY <1>1, <2>1
    <3>2. f[q] = NULL
      BY <1>5, <2>1, <3>1 DEF Outcome
    <3>3. Outcome(E, m - 1) = NULL
      BY <1>6, <2>1 DEF Outcome
    <3> QED BY <1>4, <3>2, <3>3
  <2>2. CASE ~EmptyString(E[L])
    <3>1. f[q] = SubSeq(R, m + 1, L)
      BY <1>5, <2>2 DEF Outcome
    <3>2. Outcome(E, m - 1) = SubSeq(R, m, L)
      BY <1>6, <2>2 DEF Outcome
    <3> HIDE DEF R, x, L
    <3> QED BY <1>2, <1>4, <1>7, <3>1, <3>2
  <2> QED BY <2>1, <2>2
<1>9. p <= End(b) /\ p # End(b)
  <2>1. p \in Nat /\ End(b) \in Nat
    <3>1. End(b) \in Nat
      BY SizeInBuffer
    <3> QED BY <3>1 DEF Pos
  <2> QED BY <2>1
<1> QED BY <1>6, <1>8, <1>9 DEF ReadFrom

LEMMA StepFailed ==
    ASSUME NEW b \in Buffers, NEW f, From(b, f), NEW E, Readable(E), NEW m \in 1..Len(E),
           NEW p \in Pos, p < End(b), parse_element(b)["element"][p] = Failed,
           EmptyString(E[Len(E)])
    PROVE  ReadFrom(b, f, E, p, m - 1)
<1> DEFINE L == Len(E)
           e == parse_element(b)["element"][p]
<1>1. L \in Nat /\ m \in Nat /\ m <= L /\ m >= 1
  BY SeqParts DEF Readable
<1>2. m - 1 < L /\ m - 1 \in 0..L /\ m - 1 # L
  BY <1>1
<1>3. f[p] = NULL
  <2>1. e.val = NULL
    BY DEF Failed, Parsed
  <2> QED BY <2>1, FromRest
<1>4. Outcome(E, m - 1) = NULL
  BY <1>2 DEF Outcome
<1>5. p <= End(b) /\ p # End(b)
  <2>1. p \in Nat /\ End(b) \in Nat
    <3>1. End(b) \in Nat
      BY SizeInBuffer
    <3> QED BY <3>1 DEF Pos
  <2> QED BY <2>1
<1> QED BY <1>2, <1>3, <1>4, <1>5 DEF ReadFrom

LEMMA StepPiece ==
    ASSUME NEW b \in Buffers, NEW f, From(b, f), NEW E, Readable(E), NEW m \in 1..Len(E),
           NEW s, Piece(E[m], s), ~HasKeyAsEnd(KeyAsEnd, E[m]), NEW p \in Pos, Has(b, p, s),
           ReadFrom(b, f, E, p + Len(s), m)
    PROVE  ReadFrom(b, f, E, p, m - 1)
<1> DEFINE q == p + Len(s)
           e == parse_element(b)["element"][p]
           x == ReadBack(AsRead, E[m])
<1>1. /\ s \in Seq(Nat) /\ Len(s) \in Nat /\ Len(s) > 0
      /\ e = (IF EmptyString(E[m]) /\ q = End(b) THEN Failed ELSE Parsed(x, q))
      /\ x # NULL
  BY PieceRead
<1>2. p < End(b)
  <2>1. p \in Nat /\ End(b) \in Nat
    <3>1. End(b) \in Nat
      BY SizeInBuffer
    <3> QED BY <3>1 DEF Pos
  <2> QED BY <1>1, <2>1 DEF Has
<1>3. q = End(b) <=> m = Len(E)
  BY DEF ReadFrom
<1>4. CASE EmptyString(E[m]) /\ q = End(b)
  <2>1. e = Failed
    BY <1>1, <1>4
  <2>2. EmptyString(E[Len(E)])
    BY <1>3, <1>4
  <2> QED BY <1>2, <2>1, <2>2, StepFailed
<1>5. CASE ~(EmptyString(E[m]) /\ q = End(b))
  <2>1. e = Parsed(x, q)
    BY <1>1, <1>5
  <2>2. m = Len(E) => ~EmptyString(E[m])
    BY <1>3, <1>5
  <2>3. ReadFrom(b, f, E, q, m)
    OBVIOUS
  <2> HIDE DEF q
  <2> QED BY <1>1, <1>2, <2>1, <2>2, <2>3, StepRead
<1> QED BY <1>4, <1>5

(* An array: it is read as its first element repeated, and its elements    *)
(* are read again behind it.                                               *)
FirstOnly(a) == [a EXCEPT !.obj = [i \in DOMAIN a.obj |-> a.obj[1]]]
Repeated(n, x) == [type |-> AMF_STRICT_ARRAY, num |-> 0, str |-> NULL,
                   obj |-> [i \in 1..n |-> [key |-> NULL, val |-> x]]]

LEMMA FirstOnlyParts ==
    ASSUME NEW a \in Array, Complete(a), NEW n, n = Len(a.obj)
    PROVE  /\ FirstOnly(a) \in Array /\ FirstOnly(a) # NULL /\ FirstOnly(a).type = AMF_STRICT_ARRAY
           /\ ReadBack(AsRead, FirstOnly(a)) = Repeated(n, AsRead[a.obj[1].val])
           /\ ReadBack(AsRead, FirstOnly(a)) \in Array /\ ReadBack(AsRead, FirstOnly(a)) # NULL
<1> DEFINE o == [i \in DOMAIN a.obj |-> a.obj[1]]
           M == [key : {NULL}, val : Element]
           y == AsRead[a.obj[1].val]
           u == [i \in 1..n |-> [key |-> NULL, val |-> y]]
<1>1. /\ n \in Nat /\ DOMAIN a.obj = 1..n
      /\ \A i \in 1..n : a.obj[i] \in M /\ a.obj[i].val \in Element
  BY ArrayParts, SeqParts
<1>2. n # 0 => a.obj[1] \in M /\ a.obj[1].key = NULL /\ y \in Element
  <2>1. n # 0 => 1 \in 1..n
    BY <1>1
  <2>2. n # 0 => a.obj[1] \in M /\ a.obj[1].val \in Element
    BY <1>1, <2>1
  <2> QED BY <2>2, AsReadIn
<1>3. a \in [type : {AMF_STRICT_ARRAY}, num : {0}, str : {NULL}, obj : {a.obj}]
  BY DEF Array
<1>4. FirstOnly(a) = [type |-> AMF_STRICT_ARRAY, num |-> 0, str |-> NULL, obj |-> o]
  <2> HIDE DEF o
  <2> QED BY <1>3 DEF FirstOnly, o
<1>5. DOMAIN o = 1..n /\ \A i \in 1..n : o[i] \in M /\ o[i].key = NULL /\ o[i].val = a.obj[1].val
  BY <1>1, <1>2
<1>6. o = [i \in 1..n |-> o[i]]
  BY <1>1
<1>7. \A i \in 1..n : u[i] \in M
  BY <1>1, <1>2
<1>8. u = [i \in 1..n |-> u[i]]
  OBVIOUS
<1> HIDE DEF M
<1>9. o \in [1..n -> M] /\ u \in [1..n -> M]
  <2> HIDE DEF o, u
  <2> QED BY <1>5, <1>6, <1>7, <1>8
<1>10. o \in Seq(M) /\ u \in Seq(M)
  <2> HIDE DEF o, u
  <2> QED BY <1>1, <1>9, MakeSeq
<1>11. \A w \in Seq(M) : w \in Seq([key : {NULL}, val : Element \cup {NULL}])
  <2>1. M \subseteq [key : {NULL}, val : Element \cup {NULL}]
    BY DEF M
  <2> QED BY <2>1, SeqMono
<1>12. FirstOnly(a) \in Array /\ Repeated(n, y) \in Array
  <2>1. Repeated(n, y) = [type |-> AMF_STRICT_ARRAY, num |-> 0, str |-> NULL, obj |-> u]
    BY DEF Repeated
  <2>2. /\ o \in Seq([key : {NULL}, val : Element \cup {NULL}])
        /\ u \in Seq([key : {NULL}, val : Element \cup {NULL}])
    <3> HIDE DEF o, u
    <3> QED BY <1>10, <1>11
  <2> HIDE DEF o, u
  <2>3. Repeated(n, y) \in Array
    BY <2>1, <2>2 DEF Array
  <2>4. FirstOnly(a) \in Array
    BY <1>4, <2>2 DEF Array
  <2> HIDE DEF y
  <2> QED BY <2>3, <2>4
<1>13. FirstOnly(a) # NULL /\ Repeated(n, y) # NULL
  BY <1>12, NullAssumption
<1>14. ReadBack(AsRead, FirstOnly(a)) = Repeated(n, y)
  <2> DEFINE h == FirstOnly(a)
             v == [i \in DOMAIN h.obj |-> [key |-> h.obj[i].key, val |-> AsRead[h.obj[i].val]]]
  <2>1. h # NULL /\ h.type # AMF_STRING /\ h.obj = o
    <3>1. h = [type |-> AMF_STRICT_ARRAY, num |-> 0, str |-> NULL, obj |-> o]
      BY <1>4
    <3> HIDE DEF h, o
    <3>2. h.type = AMF_STRICT_ARRAY /\ h.obj = o
      BY <3>1
    <3>3. h # NULL
      BY <1>13 DEF h
    <3> QED BY <3>2, <3>3 DEF AMF_STRICT_ARRAY, AMF_STRING
  <2>2. ReadBack(AsRead, h) = [h EXCEPT !.obj = v]
    <3> HIDE DEF h
    <3> QED BY <2>1 DEF ReadBack
  <2>3. v = u
    <3> HIDE DEF h, o
    <3>1. v = [i \in 1..n |-> [key |-> o[i].key, val |-> AsRead[o[i].val]]]
      BY <1>5, <2>1
    <3>2. \A i \in 1..n : [key |-> o[i].key, val |-> AsRead[o[i].val]] = [key |-> NULL, val |-> y]
      BY <1>5
    <3> HIDE DEF v, y
    <3> QED BY <3>1, <3>2
  <2>4. [h EXCEPT !.obj = u] = [type |-> AMF_STRICT_ARRAY, num |-> 0, str |-> NULL, obj |-> u]
    <3>1. h = [type |-> AMF_STRICT_ARRAY, num |-> 0, str |-> NULL, obj |-> o]
      BY <1>4
    <3> HIDE DEF h, o, u
    <3> QED BY <3>1
  <2>5. Repeated(n, y) = [type |-> AMF_STRICT_ARRAY, num |-> 0, str |-> NULL, obj |-> u]
    BY DEF Repeated
  <2> HIDE DEF h, v, u
  <2> QED BY <2>2, <2>3, <2>4, <2>5 DEF h
<1>15. FirstOnly(a).type = AMF_STRICT_ARRAY
  <2> HIDE DEF o
  <2> QED BY <1>4
<1> QED BY <1>12, <1>13, <1>14, <1>15

LEMMA ArrayRead ==
    ASSUME NEW b \in Buffers, NEW p \in Pos, NEW n \in Nat, Has(b, p, Int32(n)), NEW g,
           NEW v, v = g["element"][p + 4].val
    PROVE  ParseArray(b, g, p) = IF n > 0 /\ v = NULL THEN Failed
                                 ELSE Parsed(Repeated(n, v), p + 4)
<1>1. Size32(b, p) = n /\ p + 4 <= End(b)
  BY ReadSize32
<1>2. ~(p + 4 > End(b))
  <2>1. p \in Nat /\ End(b) \in Nat
    <3>1. End(b) \in Nat
      BY SizeInBuffer
    <3> QED BY <3>1 DEF Pos
  <2> QED BY <1>1, <2>1
<1> DEFINE k == Size32(b, p)
           arr(j) == [amf_array(j) EXCEPT !.obj = [i \in 1..j |->
                        [amf_array(j).obj[i] EXCEPT !.val = v]]]
<1>3. ParseArray(b, g, p) = IF k > 0 /\ v = NULL THEN Failed ELSE Parsed(arr(k), p + 4)
  BY <1>2, Zenon DEF ParseArray
<1>4. arr(n) = Repeated(n, v)
  <2> DEFINE o == [i \in 1..n |-> [key |-> NULL, val |-> NULL]]
             x == v
             u == [i \in 1..n |-> [o[i] EXCEPT !.val = x]]
             w == [i \in 1..n |-> [key |-> NULL, val |-> x]]
  <2>1. amf_array(n) = [type |-> AMF_STRICT_ARRAY, num |-> 0, str |-> NULL, obj |-> o]
    BY DEF amf_array, amf_alloc
  <2>2. u = w
    OBVIOUS
  <2>3. amf_array(n).obj = o
    <3> HIDE DEF o
    <3> QED BY <2>1
  <2>4. arr(n) = [amf_array(n) EXCEPT !.obj = u]
    <3>1. arr(n) = [amf_array(n) EXCEPT !.obj = [i \in 1..n |-> [amf_array(n).obj[i] EXCEPT !.val = x]]]
      BY Zenon
    <3> HIDE DEF arr, o, x
    <3> QED BY <2>3, <3>1
  <2>5. [amf_array(n) EXCEPT !.obj = u] = [type |-> AMF_STRICT_ARRAY, num |-> 0, str |-> NULL, obj |-> u]
    <3> HIDE DEF u, o
    <3> QED BY <2>1
  <2>6. Repeated(n, x) = [type |-> AMF_STRICT_ARRAY, num |-> 0, str |-> NULL, obj |-> w]
    BY DEF Repeated
  <2> HIDE DEF arr, u, w, x
  <2> QED BY <2>2, <2>4, <2>5, <2>6 DEF x
<1> HIDE DEF arr
<1> QED BY <1>1, <1>3, <1>4

LEMMA RepeatedNone ==
    ASSUME NEW x, NEW y
    PROVE  Repeated(0, x) = Repeated(0, y)
<1>1. [i \in 1..0 |-> [key |-> NULL, val |-> x]] = [i \in 1..0 |-> [key |-> NULL, val |-> y]]
  OBVIOUS
<1> QED BY <1>1 DEF Repeated

(* Where the parts of a sequence start, from 0.                            *)
Offsets(ss, off) ==
    /\ off \in [0..Len(ss) -> Nat] /\ off[0] = 0 /\ off[Len(ss)] = Len(FlattenSeq(ss))
    /\ \A i \in 1..Len(ss) : off[i] = off[i - 1] + Len(ss[i])
    /\ \A i \in 0..Len(ss) : off[i] <= Len(FlattenSeq(ss))
    /\ \A i \in 1..Len(ss) : \A j \in 1..Len(ss[i]) : FlattenSeq(ss)[off[i - 1] + j] = ss[i][j]

LEMMA OffsetsExist ==
    ASSUME NEW X, NEW ss \in Seq(Seq(X))
    PROVE  \E off : Offsets(ss, off)
<1>1. PICK off \in [0..Len(ss) -> Nat] :
         /\ off[0] = 0 /\ off[Len(ss)] = Len(FlattenSeq(ss))
         /\ \A i \in 1..Len(ss) : off[i] = off[i - 1] + Len(ss[i])
         /\ \A i \in 0..Len(ss) : off[i] <= Len(FlattenSeq(ss))
         /\ \A i \in 1..Len(ss) : \A j \in 1..Len(ss[i]) :
              FlattenSeq(ss)[off[i - 1] + j] = ss[i][j]
  BY FlattenParts
<1>2. Offsets(ss, off)
  BY <1>1 DEF Offsets
<1> QED BY <1>2

LEMMA HasPart ==
    ASSUME NEW b \in Buffers, NEW p \in Pos, NEW ss \in Seq(Seq(Nat)), Has(b, p, FlattenSeq(ss)),
           NEW off, Offsets(ss, off)
    PROVE  \A i \in 1..Len(ss) :
              /\ p + off[i - 1] \in Pos /\ Has(b, p + off[i - 1], ss[i])
              /\ p + off[i] = (p + off[i - 1]) + Len(ss[i])
<1>1. /\ off \in [0..Len(ss) -> Nat] /\ off[0] = 0 /\ off[Len(ss)] = Len(FlattenSeq(ss))
      /\ \A i \in 1..Len(ss) : off[i] = off[i - 1] + Len(ss[i])
      /\ \A i \in 0..Len(ss) : off[i] <= Len(FlattenSeq(ss))
      /\ \A i \in 1..Len(ss) : \A j \in 1..Len(ss[i]) : FlattenSeq(ss)[off[i - 1] + j] = ss[i][j]
  BY DEF Offsets
<1> QED BY <1>1, HasFlatten

(* Steps over the parts ss of what is at p, from the last to the first.    *)
LEMMA Backwards ==
    ASSUME NEW b \in Buffers, NEW f, NEW E, NEW p \in Pos, NEW ss \in Seq(Seq(Nat)),
           Has(b, p, FlattenSeq(ss)),
           NEW off, Offsets(ss, off), NEW at,
           ReadFrom(b, f, E, p + Len(FlattenSeq(ss)), at[Len(ss)]),
           \A i \in 1..Len(ss) : \A q \in Pos :
              Has(b, q, ss[i]) /\ ReadFrom(b, f, E, q + Len(ss[i]), at[i])
                => ReadFrom(b, f, E, q, at[i - 1])
    PROVE  \A i \in 0..Len(ss) : ReadFrom(b, f, E, p + off[i], at[i])
<1> DEFINE n == Len(ss)
           S == {i \in 0..n : ReadFrom(b, f, E, p + off[i], at[i])}
<1>1. n \in Nat
  BY SeqParts
<1>2. n \in S
  BY <1>1 DEF Offsets
<1>3. \A i \in 1..n : /\ p + off[i - 1] \in Pos /\ Has(b, p + off[i - 1], ss[i])
                      /\ p + off[i] = (p + off[i - 1]) + Len(ss[i])
  BY HasPart
<1>4. ASSUME NEW i \in 1..n, i \in S PROVE i - 1 \in S
  <2> DEFINE q == p + off[i - 1]
  <2>1. q \in Pos /\ Has(b, q, ss[i]) /\ p + off[i] = q + Len(ss[i])
    BY <1>3
  <2>2. ReadFrom(b, f, E, p + off[i], at[i])
    BY <1>4
  <2>3. ReadFrom(b, f, E, q + Len(ss[i]), at[i])
    <3> HIDE DEF q
    <3> QED BY <2>1, <2>2
  <2>4. ReadFrom(b, f, E, q, at[i - 1])
    <3> HIDE DEF q
    <3> QED BY <2>1, <2>3
  <2>5. i - 1 \in 0..n
    BY <1>1
  <2> QED BY <2>4, <2>5
<1> HIDE DEF S
<1>5. \A i \in 0..n : i \in S
  BY <1>1, <1>2, <1>4, DownTo
<1> QED BY <1>5 DEF S

(* The bytes c of an array of n elements, ss those of its elements.        *)
Laid(a, n, c, ss) ==
    /\ a \in Array /\ Complete(a) /\ n = Len(a.obj) /\ c = PeerBytes(a)
    /\ ss \in Seq(Seq(Nat)) /\ DOMAIN ss = DOMAIN a.obj
    /\ \A j \in DOMAIN a.obj : ss[j] = PeerElement(a.obj[j].val)
    /\ c = <<AMF_STRICT_ARRAY>> \o Int32(n) \o FlattenSeq(ss)

LEMMA ArrayAhead ==
    ASSUME NEW b \in Buffers, NEW p \in Pos, NEW a, NEW n, NEW c, NEW ss, Laid(a, n, c, ss),
           Has(b, p, c), NEW q, q = p + 1
    PROVE  /\ n \in Nat /\ Len(ss) = n /\ p < End(b) /\ b.bytes[p] = AMF_STRICT_ARRAY
           /\ q \in Pos /\ Has(b, q, Int32(n))
           /\ q + 4 \in Pos /\ Has(b, q + 4, FlattenSeq(ss))
           /\ p + Len(c) = (q + 4) + Len(FlattenSeq(ss))
<1> DEFINE s == <<AMF_STRICT_ARRAY>>
           t == Int32(n)
           h == s \o t
           r == FlattenSeq(ss)
<1>1. n \in Nat /\ DOMAIN a.obj = 1..n /\ Len(ss) = n
  <2>0. /\ a \in Array /\ Complete(a) /\ n = Len(a.obj)
        /\ ss \in Seq(Seq(Nat)) /\ DOMAIN ss = DOMAIN a.obj
    BY DEF Laid
  <2>1. Len(a.obj) \in Nat /\ DOMAIN a.obj = 1..Len(a.obj)
    BY <2>0, ArrayParts, SeqParts
  <2>2. Len(ss) \in Nat /\ DOMAIN ss = 1..Len(ss)
    BY <2>0, SeqParts
  <2>3. 1..Len(ss) = 1..n
    BY <2>0, <2>1, <2>2
  <2>4. Len(ss) = n
    BY <2>0, <2>1, <2>2, <2>3
  <2> QED BY <2>0, <2>1, <2>4
<1>2. t \in Seq(Nat) /\ Len(t) = 4 /\ r \in Seq(Nat)
  <2>1. ss \in Seq(Seq(Nat))
    BY DEF Laid
  <2> QED BY <1>1, <2>1, SizeBytes, FlattenParts
<1>3. s \in Seq(Nat) /\ Len(s) = 1 /\ s[1] = AMF_STRICT_ARRAY /\ 1 \in 1..Len(s)
  BY DEF AMF_STRICT_ARRAY
<1>4. c = h \o r
  BY DEF Laid
<1> HIDE DEF s, t, r
<1>5. h \in Seq(Nat) /\ Len(h) = 5
  <2>1. s \o t \in Seq(Nat) /\ Len(s \o t) = Len(s) + Len(t)
    BY <1>2, <1>3, Cat
  <2> QED BY <1>2, <1>3, <2>1
<1>6. Has(b, p, h \o r)
  BY <1>4
<1>7. /\ Has(b, p, h) /\ Has(b, p + Len(h), r) /\ p + Len(h) \in Pos
      /\ p + Len(h \o r) = (p + Len(h)) + Len(r)
  <2>1. h \in Seq(Nat) /\ r \in Seq(Nat)
    BY <1>2, <1>5
  <2> HIDE DEF h
  <2>2. Has(b, p, h) /\ Has(b, p + Len(h), r) /\ p + Len(h) \in Pos
    BY <1>6, <2>1, HasCat
  <2>3. p + Len(h \o r) = (p + Len(h)) + Len(r)
    BY <1>6, <2>1, HasCat
  <2> QED BY <2>2, <2>3
<1>8. Has(b, p, s) /\ Has(b, p + Len(s), t) /\ p + Len(s) \in Pos
  BY <1>2, <1>3, <1>7, HasCat
<1>9. b.bytes[p] = AMF_STRICT_ARRAY /\ p < End(b)
  <2>1. s \in Seq(Nat) /\ 1 \in 1..Len(s)
    BY <1>3
  <2>2. b.bytes[p + 1 - 1] = s[1] /\ p + 1 - 1 < End(b)
    BY <1>8, <2>1, HasByte
  <2>3. p + 1 - 1 = p
    BY DEF Pos
  <2> QED BY <1>3, <2>2, <2>3
<1>10. p + Len(s) = q /\ p + Len(h) = q + 4
  <2>1. p \in Nat
    BY DEF Pos
  <2> HIDE DEF h
  <2> QED BY <1>3, <1>5, <2>1
<1> HIDE DEF h
<1> QED BY <1>1, <1>4, <1>7, <1>8, <1>9, <1>10 DEF t, r

LEMMA InSpan ==
    ASSUME NEW m \in Nat, NEW n \in Nat, NEW L \in Nat, m + 1 + n <= L
    PROVE  /\ m + 1 \in 1..L /\ (m + 1) - 1 = m
           /\ \A i \in 1..n : /\ m + 1 + i \in 1..L
                              /\ (m + 1 + i) - 1 = m + 1 + (i - 1)
                              /\ i \in 0..n /\ i - 1 \in 0..n
OBVIOUS

(* u stands in E behind the first m elements.                              *)
Spans(E, m, u) == m + Len(u) <= Len(E) /\ \A k \in 1..Len(u) : E[m + k] = u[k]

UnfoldedArray(a) == <<FirstOnly(a)>> \o [i \in DOMAIN a.obj |-> a.obj[i].val]

LEMMA ArraySpans ==
    ASSUME NEW E, NEW m \in Nat, NEW a \in Array, Complete(a), NEW n, n = Len(a.obj), Readable(E),
           Spans(E, m, UnfoldedArray(a))
    PROVE  /\ m + 1 + n <= Len(E) /\ E[m + 1] = FirstOnly(a)
           /\ \A j \in 1..n : E[m + 1 + j] = a.obj[j].val
           /\ Len(UnfoldedArray(a)) = 1 + n /\ UnfoldedArray(a) \in Seq(Item)
<1> DEFINE s == <<FirstOnly(a)>>
           t == [i \in DOMAIN a.obj |-> a.obj[i].val]
           u == s \o t
<1>1. n \in Nat /\ DOMAIN a.obj = 1..n /\ \A j \in 1..n : a.obj[j].val \in Item
  <2>1. n \in Nat /\ DOMAIN a.obj = 1..n
    BY ArrayParts, SeqParts
  <2> QED BY <2>1, ArrayParts DEF Item
<1>2. t \in Seq(Item) /\ Len(t) = n /\ \A j \in 1..n : t[j] = a.obj[j].val
  <2>1. \A j \in 1..n : t[j] = a.obj[j].val
    BY <1>1
  <2>2. t \in [1..n -> Item]
    BY <1>1
  <2> HIDE DEF t
  <2>3. t \in Seq(Item) /\ Len(t) = n
    BY <1>1, <2>2, MakeSeq
  <2> QED BY <2>1, <2>3
<1>3. s \in Seq(Item) /\ Len(s) = 1 /\ s[1] = FirstOnly(a)
  <2>1. FirstOnly(a) \in Item
    BY FirstOnlyParts DEF Item
  <2> QED BY <2>1
<1>4. UnfoldedArray(a) = u
  BY DEF UnfoldedArray
<1>5. m + Len(u) <= Len(E) /\ \A k \in 1..Len(u) : E[m + k] = u[k]
  BY <1>4 DEF Spans
<1> HIDE DEF s, t
<1>6. /\ u \in Seq(Item) /\ Len(u) = Len(s) + Len(t)
      /\ \A k \in 1..Len(s) : u[k] = s[k]
      /\ \A k \in 1..Len(t) : u[Len(s) + k] = t[k]
  <2>1. s \in Seq(Item) /\ t \in Seq(Item)
    BY <1>2, <1>3
  <2> QED BY <2>1, Cat
<1> HIDE DEF u
<1>7. Len(E) \in Nat
  BY SeqParts DEF Readable
<1>8. Len(u) = 1 + n /\ u[1] = FirstOnly(a)
  BY <1>1, <1>2, <1>3, <1>6
<1>9. m + 1 + n <= Len(E)
  <2>1. m + (1 + n) <= Len(E)
    <3>1. m + Len(u) <= Len(E) /\ Len(u) = 1 + n
      BY <1>5, <1>8
    <3> QED BY <3>1, Zenon
  <2>2. \A k \in Nat : m + (1 + k) = m + 1 + k
    OBVIOUS
  <2> QED BY <1>1, <2>1, <2>2, Zenon
<1>10. E[m + 1] = FirstOnly(a)
  <2>1. 1 \in 1..Len(u)
    BY <1>1, <1>8
  <2> QED BY <1>5, <1>8, <2>1
<1>11. ASSUME NEW j \in 1..n PROVE E[m + 1 + j] = a.obj[j].val
  <2>1. 1 + j \in 1..Len(u) /\ m + (1 + j) = m + 1 + j
    BY <1>1, <1>8
  <2>2. u[1 + j] = a.obj[j].val
    BY <1>2, <1>3, <1>6
  <2>3. E[m + (1 + j)] = u[1 + j]
    BY <1>5, <2>1
  <2> QED BY <2>1, <2>2, <2>3
<1> QED BY <1>4, <1>6, <1>8, <1>9, <1>10, <1>11

LEMMA StepArray ==
    ASSUME NEW b \in Buffers, NEW f, From(b, f), NEW E, Readable(E),
           NEW a, NEW n, NEW c, NEW ss, Laid(a, n, c, ss), ~HasKeyAsEnd(KeyAsEnd, a),
           NEW m \in Nat, Spans(E, m, UnfoldedArray(a)), NEW p \in Pos, Has(b, p, c),
           ReadFrom(b, f, E, p + Len(c), m + 1 + n)
    PROVE  ReadFrom(b, f, E, p, m)
<1> DEFINE q == p + 1
           z == q + 4
           r == FlattenSeq(ss)
           g == parse_element(b)
           e == g["element"][z]
           y == AsRead[a.obj[1].val]
           at == [j \in 0..n |-> m + 1 + j]
<1>1. /\ a \in Array /\ Complete(a) /\ n = Len(a.obj)
      /\ ss \in Seq(Seq(Nat)) /\ DOMAIN ss = DOMAIN a.obj
      /\ \A j \in DOMAIN a.obj : ss[j] = PeerElement(a.obj[j].val)
  BY DEF Laid
<1>2. /\ n \in Nat /\ Len(ss) = n /\ p < End(b) /\ b.bytes[p] = AMF_STRICT_ARRAY
      /\ q \in Pos /\ Has(b, q, Int32(n)) /\ z \in Pos /\ Has(b, z, r)
      /\ p + Len(c) = z + Len(r)
  <2>1. q = p + 1
    OBVIOUS
  <2> HIDE DEF q
  <2> QED BY <2>1, ArrayAhead
<1>3. /\ FirstOnly(a) # NULL /\ FirstOnly(a).type = AMF_STRICT_ARRAY
      /\ ReadBack(AsRead, FirstOnly(a)) = Repeated(n, y) /\ Repeated(n, y) # NULL
  <2>1. a \in Array /\ Complete(a) /\ n = Len(a.obj)
    BY <1>1
  <2> QED BY <2>1, FirstOnlyParts
<1>4. \A j \in 1..n : /\ Piece(a.obj[j].val, ss[j])
                      /\ ~HasKeyAsEnd(KeyAsEnd, a.obj[j].val)
  <2> TAKE j \in 1..n
  <2>1. DOMAIN a.obj = 1..n
    BY <1>1, <1>2, SeqParts
  <2>2. a.obj[j].val \in Element /\ ss[j] = PeerElement(a.obj[j].val)
    BY <1>1, <2>1, ArrayParts
  <2>3. a # NULL
    BY <1>1, NullAssumption
  <2>4. ~KeyAsEnd[a.obj[j].val]
    BY <2>1, <2>3 DEF HasKeyAsEnd
  <2> QED BY <2>2, <2>4, KeyAsEndEq DEF Piece, ElementForms
<1>5. PICK off : Offsets(ss, off)
  BY <1>1, OffsetsExist
<1>6. /\ Len(E) \in Nat /\ m \in Nat /\ n \in Nat /\ m + 1 + n <= Len(E) /\ E[m + 1] = FirstOnly(a)
      /\ \A j \in 1..n : E[m + 1 + j] = a.obj[j].val
  <2>1. Len(E) \in Nat
    BY SeqParts DEF Readable
  <2>2. a \in Array /\ Complete(a) /\ n = Len(a.obj)
    BY <1>1
  <2>3. /\ m + 1 + n <= Len(E) /\ E[m + 1] = FirstOnly(a)
        /\ \A j \in 1..n : E[m + 1 + j] = a.obj[j].val
    <3>1. m \in Nat /\ Readable(E) /\ Spans(E, m, UnfoldedArray(a))
      OBVIOUS
    <3> QED BY <2>2, <3>1, ArraySpans, ZenonT(20)
  <2> QED BY <1>2, <2>1, <2>3
<1>14. /\ (m + 1) \in 1..Len(E) /\ (m + 1) - 1 = m
       /\ \A i \in 1..n : /\ m + 1 + i \in 1..Len(E)
                          /\ (m + 1 + i) - 1 = m + 1 + (i - 1)
                          /\ i \in 0..n /\ i - 1 \in 0..n
  BY <1>6, InSpan
<1>0. \A j \in 0..n : at[j] = m + 1 + j
  OBVIOUS
<1> HIDE DEF at
<1>7. ReadFrom(b, f, E, z + Len(r), at[Len(ss)])
  <2>1. n \in 0..n
    BY <1>6
  <2>2. at[n] = m + 1 + n
    BY <1>0, <2>1
  <2> HIDE DEF z, r
  <2> QED BY <1>2, <2>2
<1>8. ASSUME NEW i \in 1..Len(ss), NEW w \in Pos, Has(b, w, ss[i]),
             ReadFrom(b, f, E, w + Len(ss[i]), at[i])
      PROVE  ReadFrom(b, f, E, w, at[i - 1])
  <2> DEFINE k == m + 1 + i
             s == ss[i]
  <2>0. i \in 1..n /\ i \in 0..n /\ i - 1 \in 0..n
    BY <1>2, <1>14
  <2>1. i \in 1..n /\ at[i] = k /\ at[i - 1] = k - 1 /\ k \in 1..Len(E)
    <3>1. at[i] = m + 1 + i /\ at[i - 1] = m + 1 + (i - 1)
      BY <1>0, <2>0
    <3>2. m + 1 + (i - 1) = k - 1 /\ k \in 1..Len(E)
      BY <1>14, <2>0
    <3> QED BY <2>0, <3>1, <3>2
  <2>2. E[k] = a.obj[i].val
    BY <1>6, <2>0
  <2>3. Piece(E[k], s) /\ ~HasKeyAsEnd(KeyAsEnd, E[k])
    <3> HIDE DEF k, s
    <3> QED BY <1>4, <2>1, <2>2 DEF s
  <2>4. ReadFrom(b, f, E, w + Len(s), k) /\ Has(b, w, s)
    BY <1>8, <2>1
  <2>5. ReadFrom(b, f, E, w, k - 1)
    <3> HIDE DEF k, s
    <3> QED BY <2>1, <2>3, <2>4, StepPiece
  <2> HIDE DEF k
  <2> QED BY <2>1, <2>5
<1>9. \A i \in 0..Len(ss) : ReadFrom(b, f, E, z + off[i], at[i])
  <2> HIDE DEF z
  <2>1. ss \in Seq(Seq(Nat)) /\ z \in Pos /\ Has(b, z, FlattenSeq(ss))
    BY <1>1, <1>2
  <2>2. ReadFrom(b, f, E, z + Len(FlattenSeq(ss)), at[Len(ss)])
    BY <1>7
  <2>3. \A i \in 1..Len(ss) : \A w \in Pos :
           Has(b, w, ss[i]) /\ ReadFrom(b, f, E, w + Len(ss[i]), at[i])
             => ReadFrom(b, f, E, w, at[i - 1])
    BY <1>8
  <2> QED BY <1>5, <2>1, <2>2, <2>3, Backwards
<1>10. ReadFrom(b, f, E, z, m + 1)
  <2>1. 0 \in 0..Len(ss) /\ at[0] = m + 1
    <3>1. 0 \in 0..n /\ m + 1 + 0 = m + 1
      BY <1>6
    <3> QED BY <1>0, <1>2, <3>1
  <2>2. z + off[0] = z
    BY <1>2, <1>5 DEF Pos, Offsets
  <2>3. ReadFrom(b, f, E, z + off[0], at[0])
    BY <1>9, <2>1
  <2> HIDE DEF z
  <2> QED BY <2>1, <2>2, <2>3
<1>11. n > 0 => /\ e = (IF EmptyString(a.obj[1].val) /\ m + 2 = Len(E) THEN Failed
                        ELSE Parsed(y, z + Len(ss[1])))
                /\ y # NULL /\ E[m + 2] = a.obj[1].val
  <2> SUFFICES ASSUME n > 0 PROVE /\ e = (IF EmptyString(a.obj[1].val) /\ m + 2 = Len(E) THEN Failed
                                          ELSE Parsed(y, z + Len(ss[1])))
                                  /\ y # NULL /\ E[m + 2] = a.obj[1].val
    OBVIOUS
  <2> DEFINE x == a.obj[1].val
             s == ss[1]
  <2>1. 1 \in 1..n /\ 1 \in 1..Len(ss) /\ 1 \in 0..Len(ss) /\ 1 - 1 = 0
    BY <1>2
  <2>2. Piece(x, s) /\ ~HasKeyAsEnd(KeyAsEnd, x)
    BY <1>4, <2>1
  <2>3. E[m + 2] = x
    <3>1. m + 1 + 1 = m + 2
      BY <1>6
    <3>2. E[m + 1 + 1] = x
      BY <1>6, <2>1
    <3> HIDE DEF x
    <3> QED BY <3>1, <3>2
  <2>4. x \in Element /\ x # NULL
    <3>1. DOMAIN a.obj = 1..n
      BY <1>1, <1>2, SeqParts
    <3>2. x \in Element
      BY <1>1, <2>1, <3>1, ArrayParts
    <3> QED BY <3>2, NullAssumption
  <2>5. ReadBack(AsRead, x) = y /\ y # NULL
    BY <2>4, AsReadEq, AsReadIn
  <2>6. z + off[0] = z /\ z + off[1] = z + Len(s) /\ s \in Seq(Nat)
    <3>1. off[1] = off[1 - 1] + Len(s) /\ off[0] = 0
      BY <1>5, <2>1 DEF Offsets
    <3>3. s \in Seq(Nat) /\ Len(s) \in Nat
      BY <1>1, <2>1, SeqParts
    <3>2. z \in Nat
      BY <1>2 DEF Pos
    <3> HIDE DEF z, s
    <3> QED BY <2>1, <3>1, <3>2, <3>3
  <2>7. Has(b, z, s)
    <3>1. \A i \in 1..Len(ss) : Has(b, z + off[i - 1], ss[i])
      <4> HIDE DEF z
      <4> QED BY <1>1, <1>2, <1>5, HasPart DEF r
    <3>2. Has(b, z + off[0], s)
      BY <2>1, <3>1
    <3> HIDE DEF z, s
    <3> QED BY <2>6, <3>2
  <2>8. z + Len(s) = End(b) <=> m + 2 = Len(E)
    <3>1. ReadFrom(b, f, E, z + off[1], at[1])
      BY <1>9, <2>1
    <3>2. at[1] = m + 2
      <4>1. 1 \in 0..n /\ m + 1 + 1 = m + 2
        BY <1>2, <2>1
      <4> QED BY <1>0, <4>1
    <3> HIDE DEF z, s
    <3>3. ReadFrom(b, f, E, z + Len(s), m + 2)
      BY <2>6, <3>1, <3>2
    <3> QED BY <3>3 DEF ReadFrom
  <2>9. e = IF EmptyString(x) /\ z + Len(s) = End(b) THEN Failed
            ELSE Parsed(ReadBack(AsRead, x), z + Len(s))
    <3> HIDE DEF z, s, x
    <3> QED BY <1>2, <2>2, <2>7, PieceRead
  <2> HIDE DEF e, x, s, y, z
  <2> QED BY <2>3, <2>5, <2>8, <2>9 DEF x, s
<1>12. g["element"][p] = ParseArray(b, g, q)
  BY <1>2, ElementAt
<1>13. ParseArray(b, g, q) = IF n > 0 /\ e.val = NULL THEN Failed
                             ELSE Parsed(Repeated(n, e.val), z)
  <2> DEFINE v == e.val
  <2>1. q \in Pos /\ n \in Nat /\ Has(b, q, Int32(n)) /\ z = q + 4
    BY <1>2
  <2>2. v = g["element"][q + 4].val
    OBVIOUS
  <2> HIDE DEF q, g, v, z, e
  <2>3. ParseArray(b, g, q) = IF n > 0 /\ v = NULL THEN Failed
                              ELSE Parsed(Repeated(n, v), q + 4)
    BY <2>1, <2>2, ArrayRead
  <2> QED BY <2>1, <2>3 DEF v
<1>15. ~EmptyString(E[m + 1])
  BY <1>3, <1>6 DEF EmptyString, AMF_STRICT_ARRAY, AMF_STRING
<1>16. CASE n > 0 /\ EmptyString(a.obj[1].val) /\ m + 2 = Len(E)
  <2>1. e.val = NULL
    <3>1. e = Failed
      BY <1>11, <1>16
    <3> HIDE DEF e
    <3> QED BY <3>1 DEF Failed, Parsed
  <2>2. g["element"][p] = Failed
    BY <1>12, <1>13, <1>16, <2>1
  <2>3. EmptyString(E[Len(E)])
    BY <1>11, <1>16
  <2>4. ReadFrom(b, f, E, p, (m + 1) - 1)
    BY <1>2, <1>14, <2>2, <2>3, StepFailed
  <2> QED BY <1>14, <2>4
<1>17. CASE ~(n > 0 /\ EmptyString(a.obj[1].val) /\ m + 2 = Len(E))
  <2>1. ~(n > 0 /\ e.val = NULL)
    <3> SUFFICES ASSUME n > 0 PROVE e.val # NULL
      OBVIOUS
    <3>1. e = Parsed(y, z + Len(ss[1])) /\ y # NULL
      BY <1>11, <1>17
    <3> HIDE DEF e, y, z
    <3> QED BY <3>1 DEF Parsed
  <2>2. Repeated(n, e.val) = Repeated(n, y)
    <3>1. CASE n = 0
      BY <3>1, RepeatedNone
    <3>2. CASE n > 0
      <4>1. e = Parsed(y, z + Len(ss[1]))
        BY <1>11, <1>17, <3>2
      <4>2. e.val = y
        <5> HIDE DEF e, y, z
        <5> QED BY <4>1 DEF Parsed
      <4> QED BY <4>2
    <3> QED BY <1>2, <3>1, <3>2
  <2>3. g["element"][p] = Parsed(ReadBack(AsRead, E[m + 1]), z)
    <3> HIDE DEF e, y, z, g, q
    <3> QED BY <1>3, <1>6, <1>12, <1>13, <2>1, <2>2
  <2>4. ReadBack(AsRead, E[m + 1]) # NULL
    BY <1>3, <1>6
  <2>5. ReadFrom(b, f, E, p, (m + 1) - 1)
    <3> HIDE DEF z
    <3> QED BY <1>2, <1>10, <1>14, <1>15, <2>3, <2>4, StepRead
  <2> QED BY <1>14, <2>5
<1> QED BY <1>16, <1>17

----------------------------------------------------------------------------
(* The elements of an invoke as they are read: no array is among them but  *)
(* the repeated first element of a complete one.                           *)
Lines == Element \cup {NULL} \cup {FirstOnly(a) : a \in {y \in Array : Complete(y)}}

LEMMA LineRead ==
    ASSUME NEW x \in Lines
    PROVE  x \in Item /\ ReadBack(AsRead, x) \in Item
<1>1. CASE x \in Element
  BY <1>1, AsReadEq, AsReadIn DEF Item
<1>2. CASE x = NULL
  <2>1. ReadBack(AsRead, x) = amf_alloc(AMF_NULL)
    BY <1>2 DEF ReadBack
  <2>2. amf_alloc(AMF_NULL) \in Plain
    BY DEF Plain, amf_alloc
  <2> QED BY <1>2, <2>1, <2>2, PlainIn DEF Item
<1>3. CASE x \in {FirstOnly(a) : a \in {y \in Array : Complete(y)}}
  <2>1. PICK a \in Array : Complete(a) /\ x = FirstOnly(a)
    BY <1>3
  <2>2. FirstOnly(a) \in Array /\ ReadBack(AsRead, FirstOnly(a)) \in Array
    BY <2>1, FirstOnlyParts
  <2> QED BY <2>1, <2>2 DEF Item
<1> QED BY <1>1, <1>2, <1>3 DEF Lines

LEMMA LinesReadable ==
    ASSUME NEW E \in Seq(Lines)
    PROVE  Readable(E)
<1> DEFINE n == Len(E)
           R == AllRead(E)
<1>1. n \in Nat /\ DOMAIN E = 1..n /\ \A i \in 1..n : E[i] \in Lines
  BY SeqParts
<1>2. \A i \in 1..n : E[i] \in Item /\ ReadBack(AsRead, E[i]) \in Item
  BY <1>1, LineRead
<1>3. Lines \subseteq Item
  BY LineRead
<1>4. E \in Seq(Item)
  BY <1>3, SeqMono
<1>5. R = [i \in 1..n |-> ReadBack(AsRead, E[i])]
  BY <1>1 DEF AllRead
<1>6. R \in [1..n -> Item]
  <2> HIDE DEF R, n
  <2> QED BY <1>2, <1>5
<1>7. R \in Seq(Item) /\ Len(R) = n
  <2> HIDE DEF R, n
  <2> QED BY <1>1, <1>6, MakeSeq
<1> QED BY <1>4, <1>7 DEF Readable

LEMMA UnfoldedParts ==
    ASSUME NEW a
    PROVE  /\ a \in Element \cup {NULL} => Unfolded(a) = <<a>> /\ Unfolded(a) \in Seq(Lines)
           /\ a \in Array /\ Complete(a) => /\ Unfolded(a) = UnfoldedArray(a)
                                            /\ Unfolded(a) \in Seq(Lines)
<1>1. ASSUME a \in Element \cup {NULL} PROVE Unfolded(a) = <<a>> /\ Unfolded(a) \in Seq(Lines)
  <2>1. a # NULL => a.type # AMF_STRICT_ARRAY
    <3> SUFFICES ASSUME a # NULL PROVE a.type # AMF_STRICT_ARRAY
      OBVIOUS
    <3>1. a \in Plain \/ a \in Objects(Element)
      BY <1>1, ElementParts
    <3> QED BY <3>1 DEF Plain, Objects, AMF_NUMBER, AMF_BOOLEAN, AMF_STRING, AMF_OBJECT, AMF_NULL,
                        AMF_UNDEFINED, AMF_STRICT_ARRAY
  <2>2. Unfolded(a) = <<a>>
    BY <2>1 DEF Unfolded
  <2>3. a \in Lines
    BY <1>1 DEF Lines
  <2> QED BY <2>2, <2>3
<1>2. ASSUME a \in Array, Complete(a)
      PROVE  Unfolded(a) = UnfoldedArray(a) /\ Unfolded(a) \in Seq(Lines)
  <2> DEFINE s == <<FirstOnly(a)>>
             t == [i \in DOMAIN a.obj |-> a.obj[i].val]
             n == Len(a.obj)
  <2>1. a # NULL /\ a.type = AMF_STRICT_ARRAY
    BY <1>2, NullAssumption DEF Array
  <2>2. Unfolded(a) = s \o t
    BY <2>1 DEF Unfolded, FirstOnly
  <2>3. UnfoldedArray(a) = s \o t
    BY DEF UnfoldedArray
  <2>4. n \in Nat /\ DOMAIN a.obj = 1..n /\ \A j \in 1..n : a.obj[j].val \in Lines
    <3>1. n \in Nat /\ DOMAIN a.obj = 1..n
      BY <1>2, ArrayParts, SeqParts
    <3> QED BY <1>2, <3>1, ArrayParts DEF Lines
  <2>5. t \in [1..n -> Lines]
    <3> HIDE DEF n
    <3> QED BY <2>4
  <2>6. t \in Seq(Lines)
    <3> HIDE DEF t, n
    <3> QED BY <2>4, <2>5, MakeSeq
  <2>7. s \in Seq(Lines)
    <3>1. FirstOnly(a) \in Lines
      BY <1>2 DEF Lines
    <3> QED BY <3>1
  <2>8. s \o t \in Seq(Lines)
    <3> HIDE DEF s, t
    <3> QED BY <2>6, <2>7, Cat
  <2> QED BY <2>2, <2>3, <2>8
<1> QED BY <1>1, <1>2

LEMMA PartSpans ==
    ASSUME NEW us \in Seq(Seq(Lines)), NEW E, E = FlattenSeq(us), NEW off, Offsets(us, off)
    PROVE  \A i \in 1..Len(us) : /\ off[i - 1] \in Nat /\ off[i] = off[i - 1] + Len(us[i])
                                 /\ Spans(E, off[i - 1], us[i])
<1> DEFINE n == Len(us)
<1>1. n \in Nat
  BY SeqParts
<1>2. /\ off \in [0..n -> Nat]
      /\ \A i \in 1..n : off[i] = off[i - 1] + Len(us[i])
      /\ \A i \in 0..n : off[i] <= Len(E)
      /\ \A i \in 1..n : \A j \in 1..Len(us[i]) : E[off[i - 1] + j] = us[i][j]
  BY DEF Offsets
<1> HIDE DEF n
<1>3. ASSUME NEW i \in 1..n
      PROVE  /\ off[i - 1] \in Nat /\ off[i] = off[i - 1] + Len(us[i])
             /\ Spans(E, off[i - 1], us[i])
  <2>1. i \in 0..n /\ i - 1 \in 0..n
    BY <1>1
  <2>2. off[i - 1] \in Nat /\ off[i] = off[i - 1] + Len(us[i]) /\ off[i] <= Len(E)
    BY <1>2, <2>1
  <2>3. off[i - 1] + Len(us[i]) <= Len(E)
    BY <2>2, Zenon
  <2>4. \A j \in 1..Len(us[i]) : E[off[i - 1] + j] = us[i][j]
    BY <1>2
  <2> QED BY <2>2, <2>3, <2>4, Zenon DEF Spans
<1> QED BY <1>3 DEF n

(* One element of the invoke.                                              *)
LEMMA StepCoded ==
    ASSUME NEW b \in Buffers, NEW f, From(b, f), NEW E, Readable(E),
           NEW a, NEW s, Codes(a, s), ~HasKeyAsEnd(KeyAsEnd, a),
           NEW m \in Nat, NEW u, u = Unfolded(a), Spans(E, m, u),
           NEW p \in Pos, Has(b, p, s), ReadFrom(b, f, E, p + Len(s), m + Len(u))
    PROVE  ReadFrom(b, f, E, p, m)
<1>1. CASE Piece(a, s)
  <2> DEFINE k == m + 1
  <2>1. a \in Element \cup {NULL}
    BY <1>1 DEF Piece
  <2>2. u = <<a>> /\ Len(u) = 1 /\ u[1] = a
    BY <2>1, UnfoldedParts
  <2>3. k <= Len(E) /\ E[k] = a
    <3>1. 1 \in 1..Len(u)
      BY <2>2
    <3>2. m + Len(u) <= Len(E) /\ E[m + 1] = u[1]
      BY <3>1 DEF Spans
    <3> QED BY <2>2, <3>2, Zenon
  <2>4. k \in 1..Len(E) /\ k - 1 = m
    <3>1. Len(E) \in Nat
      BY SeqParts DEF Readable
    <3> QED BY <2>3, <3>1
  <2>5. ReadFrom(b, f, E, p + Len(s), k)
    BY <2>2
  <2>6. Piece(E[k], s) /\ ~HasKeyAsEnd(KeyAsEnd, E[k])
    BY <1>1, <2>3
  <2> HIDE DEF k
  <2>7. ReadFrom(b, f, E, p, k - 1)
    BY <2>4, <2>5, <2>6, StepPiece
  <2> QED BY <2>4, <2>7
<1>2. CASE a \in Array /\ Complete(a) /\ s = PeerBytes(a)
  <2> DEFINE n == Len(a.obj)
  <2>1. PICK ss : Laid(a, n, s, ss)
    <3>1. PICK ss : /\ ss \in Seq(Seq(Nat)) /\ DOMAIN ss = DOMAIN a.obj
                    /\ ss = [j \in DOMAIN a.obj |-> PeerElement(a.obj[j].val)]
                    /\ s = <<AMF_STRICT_ARRAY>> \o Int32(n) \o FlattenSeq(ss)
      BY <1>2, ArrayBytes
    <3>2. \A j \in DOMAIN a.obj : ss[j] = PeerElement(a.obj[j].val)
      BY <3>1
    <3>3. Laid(a, n, s, ss)
      BY <1>2, <3>1, <3>2 DEF Laid
    <3> QED BY <3>3
  <2>2. u = UnfoldedArray(a)
    BY <1>2, UnfoldedParts
  <2>3. Spans(E, m, UnfoldedArray(a))
    BY <2>2
  <2>4. Len(u) = 1 + n /\ n \in Nat
    <3>1. Len(UnfoldedArray(a)) = 1 + n
      BY <1>2, <2>3, ArraySpans
    <3>2. n \in Nat
      BY <1>2, ArrayParts, SeqParts
    <3> QED BY <2>2, <3>1, <3>2
  <2>5. ReadFrom(b, f, E, p + Len(s), m + 1 + n)
    <3>1. \A j \in Nat : m + (1 + j) = m + 1 + j
      OBVIOUS
    <3>2. m + Len(u) = m + 1 + n
      BY <2>4, <3>1, Zenon
    <3> QED BY <3>2, Zenon
  <2> HIDE DEF n
  <2> QED BY <2>1, <2>3, <2>5, StepArray
<1> QED BY <1>1, <1>2 DEF Codes, Piece

(* All of it: E are the elements of es as they are read.                   *)
LEMMA InvokeRead ==
    ASSUME NEW es \in Seq(Item), \A i \in DOMAIN es : ~HasKeyAsEnd(KeyAsEnd, es[i]),
           NEW b \in Buffers, Wired(es, b.bytes), NEW f, From(b, f),
           NEW us, us = [i \in DOMAIN es |-> Unfolded(es[i])], NEW E, E = FlattenSeq(us)
    PROVE  Readable(E) /\ f[1] = Outcome(E, 0)
<1>1. PICK ss : /\ b.bytes = FlattenSeq(ss) /\ DOMAIN ss = DOMAIN es
                /\ ss \in Seq(Seq(Nat)) /\ \A i \in DOMAIN es : Codes(es[i], ss[i])
  BY DEF Wired
<1> DEFINE n == Len(es)
           B == FlattenSeq(ss)
           one == 1
<1>2. n \in Nat /\ DOMAIN es = 1..n /\ Len(ss) = n /\ \A i \in 1..n : es[i] \in Item
  <2>1. n \in Nat /\ DOMAIN es = 1..n /\ \A i \in 1..n : es[i] \in Item
    BY SeqParts
  <2>2. Len(ss) \in Nat /\ DOMAIN ss = 1..Len(ss)
    BY <1>1, SeqParts
  <2>3. 1..Len(ss) = 1..n
    BY <1>1, <2>1, <2>2
  <2> HIDE DEF n
  <2>4. Len(ss) = n
    BY <2>1, <2>2, <2>3, SameSpan
  <2> QED BY <2>1, <2>4
<1>3. \A i \in 1..n : us[i] = Unfolded(es[i]) /\ us[i] \in Seq(Lines)
  <2> TAKE i \in 1..n
  <2>1. i \in DOMAIN es /\ es[i] \in Item
    BY <1>2
  <2>2. us[i] = Unfolded(es[i])
    BY <2>1
  <2>3. Codes(es[i], ss[i])
    BY <1>1, <2>1
  <2>4. es[i] \in Element \cup {NULL} \/ (es[i] \in Array /\ Complete(es[i]))
    BY <2>3 DEF Codes
  <2> QED BY <2>2, <2>4, UnfoldedParts
<1>4. us \in Seq(Seq(Lines)) /\ Len(us) = n
  <2>1. us = [i \in 1..n |-> Unfolded(es[i])]
    BY <1>2
  <2>2. us \in [1..n -> Seq(Lines)]
    <3> HIDE DEF n
    <3> QED BY <1>3, <2>1
  <2> HIDE DEF n
  <2> QED BY <1>2, <2>2, MakeSeq
<1>5. E \in Seq(Lines) /\ Readable(E)
  <2>1. E \in Seq(Lines)
    BY <1>4, FlattenParts
  <2> QED BY <2>1, LinesReadable
<1>6. Len(E) \in Nat /\ AllRead(E) \in Seq(Item) /\ Len(AllRead(E)) = Len(E)
  BY <1>5, SeqParts DEF Readable
<1>7. PICK off : Offsets(ss, off)
  BY <1>1, OffsetsExist
<1>8. PICK at : Offsets(us, at)
  BY <1>4, OffsetsExist
<1>9. \A i \in 1..n : /\ at[i - 1] \in Nat /\ at[i] = at[i - 1] + Len(us[i])
                      /\ Spans(E, at[i - 1], us[i])
  <2>1. us \in Seq(Seq(Lines)) /\ Offsets(us, at) /\ E = FlattenSeq(us)
    BY <1>4, <1>8
  <2>2. \A i \in 1..Len(us) : /\ at[i - 1] \in Nat /\ at[i] = at[i - 1] + Len(us[i])
                              /\ Spans(E, at[i - 1], us[i])
    BY <2>1, PartSpans
  <2> HIDE DEF n
  <2> QED BY <1>4, <2>2
<1>10. at[n] = Len(E) /\ at[0] = 0 /\ off[0] = 0
  BY <1>4, <1>7, <1>8 DEF Offsets
<1>11. B = b.bytes /\ B \in Seq(Nat) /\ Len(B) \in Nat /\ End(b) = one + Len(B)
  <2>1. B = b.bytes /\ B \in Seq(Nat)
    BY <1>1 DEF Buffers
  <2>2. Len(B) \in Nat
    BY <2>1, SeqParts
  <2> HIDE DEF B
  <2> QED BY <2>1, <2>2 DEF End
<1>12. one \in Pos /\ Has(b, one, B) /\ End(b) \in Pos
  <2>1. one \in Pos /\ End(b) \in Pos
    BY <1>11 DEF Pos
  <2>2. one + Len(B) <= End(b)
    <3> HIDE DEF one, B
    <3> QED BY <1>11, <2>1 DEF Pos
  <2>3. \A k \in 1..Len(B) : one + k - 1 = k
    BY <1>11
  <2> HIDE DEF one, B
  <2> QED BY <1>11, <2>1, <2>2, <2>3 DEF Has
<1>13. ReadFrom(b, f, E, one + Len(B), at[n])
  <2> DEFINE L == Len(E)
             x == End(b)
  <2>1. f[x] = <<>>
    <3>1. f[x] = FromBuf(b, f, x)
      BY <1>12 DEF From
    <3>2. x >= x
      BY <1>12 DEF Pos
    <3> HIDE DEF x
    <3> QED BY <3>1, <3>2, <1>12, Zenon DEF FromBuf, x
  <2>2. Outcome(E, L) = <<>>
    <3>1. ~(L < L)
      BY <1>6
    <3>2. SubSeq(AllRead(E), L + 1, L) = <<>>
      <4> DEFINE R == AllRead(E)
      <4>1. L \in Nat /\ R \in Seq(Item)
        BY <1>6
      <4> HIDE DEF R, L
      <4> QED BY <4>1
    <3> QED BY <3>1, <3>2 DEF Outcome
  <2>3. L \in 0..L
    BY <1>6
  <2>4. x <= x
    BY <1>12 DEF Pos
  <2>5. ReadFrom(b, f, E, x, L)
    <3> HIDE DEF x, L
    <3> QED BY <1>12, <2>1, <2>2, <2>3, <2>4 DEF ReadFrom, x, L
  <2> HIDE DEF B, one
  <2> QED BY <1>10, <1>11, <2>5
<1>14. \A i \in 1..Len(ss) : \A q \in Pos :
          Has(b, q, ss[i]) /\ ReadFrom(b, f, E, q + Len(ss[i]), at[i])
            => ReadFrom(b, f, E, q, at[i - 1])
  <2> TAKE i \in 1..Len(ss)
  <2> TAKE q \in Pos
  <2> HAVE Has(b, q, ss[i]) /\ ReadFrom(b, f, E, q + Len(ss[i]), at[i])
  <2> DEFINE a == es[i]
             s == ss[i]
             u == us[i]
             m == at[i - 1]
  <2>1. i \in 1..n /\ i \in DOMAIN es
    BY <1>2
  <2>2. m \in Nat /\ at[i] = m + Len(u) /\ Spans(E, m, u)
    BY <1>9, <2>1
  <2>3. Codes(a, s) /\ ~HasKeyAsEnd(KeyAsEnd, a)
    BY <1>1, <2>1
  <2>4. u = Unfolded(a)
    BY <1>3, <2>1
  <2>5. Has(b, q, s) /\ ReadFrom(b, f, E, q + Len(s), m + Len(u))
    BY <2>2
  <2> HIDE DEF a, s, u, m
  <2>6. ReadFrom(b, f, E, q, m)
    BY <1>5, <2>2, <2>3, <2>4, <2>5, StepCoded
  <2> QED BY <2>6 DEF m
<1>15. ReadFrom(b, f, E, one + off[0], at[0])
  <2>1. ReadFrom(b, f, E, one + Len(FlattenSeq(ss)), at[Len(ss)])
    BY <1>2, <1>13
  <2>2. ss \in Seq(Seq(Nat)) /\ Has(b, one, FlattenSeq(ss)) /\ one \in Pos
    BY <1>1, <1>12
  <2> HIDE DEF one
  <2>3. \A i \in 0..Len(ss) : ReadFrom(b, f, E, one + off[i], at[i])
    BY <1>7, <1>14, <2>1, <2>2, Backwards
  <2>4. 0 \in 0..Len(ss)
    BY <1>2
  <2> QED BY <2>3, <2>4
<1>16. f[one + 0] = Outcome(E, 0)
  <2> HIDE DEF one
  <2> QED BY <1>10, <1>15 DEF ReadFrom
<1> QED BY <1>5, <1>16

LEMMA WholeOutcome ==
    ASSUME NEW E, Readable(E)
    PROVE  Outcome(E, 0) = IF E # <<>> /\ EmptyString(Last(E)) THEN NULL ELSE AllRead(E)
<1> DEFINE L == Len(E)
           R == AllRead(E)
<1>1. L \in Nat /\ R \in Seq(Item) /\ Len(R) = L /\ E \in Seq(Item)
  BY SeqParts DEF Readable
<1>2. 0 < L <=> E # <<>>
  BY <1>1
<1>3. E # <<>> => Last(E) = E[L]
  BY DEF Last
<1>4. SubSeq(R, 1, L) = R
  <2> HIDE DEF R, L
  <2>1. /\ SubSeq(R, 1, L) \in Seq(Item) /\ Len(SubSeq(R, 1, L)) = L
        /\ \A k \in 1..L : SubSeq(R, 1, L)[k] = R[k]
    BY <1>1
  <2> QED BY <1>1, <2>1, SameSeq
<1>5. 0 + 1 = 1
  OBVIOUS
<1>6. Outcome(E, 0) = IF 0 < L /\ EmptyString(E[L]) THEN NULL ELSE SubSeq(R, 1, L)
  BY <1>5 DEF Outcome
<1> HIDE DEF R, L
<1> QED BY <1>2, <1>3, <1>4, <1>6, Zenon DEF R

LEMMA HistoryRoundTrip == Typed /\ History => RoundTrip
<1> SUFFICES ASSUME Typed, History, back # NULL,
                    \A i \in DOMAIN inv.elem : ~HasKeyAsEnd(KeyAsEnd, inv.elem[i])
             PROVE  back.result = IF EmptyTail THEN NULL
                                  ELSE [i \in DOMAIN Elements |-> ReadBack(AsRead, Elements[i])]
  BY DEF RoundTrip
<1> DEFINE es == inv.elem
           us == [i \in DOMAIN es |-> Unfolded(es[i])]
           E == FlattenSeq(us)
<1>1. es \in Seq(Item)
  BY DEF Typed
<1>2. wire # NULL /\ Wired(es, wire)
  BY DEF History
<1>3. PICK marks \in Nat : back = [result |-> amf_invoke_from_buf([bytes |-> wire, marks |-> marks])]
  BY DEF History
<1> DEFINE b == [bytes |-> wire, marks |-> marks]
<1>4. b \in Buffers /\ b.bytes = wire
  <2>1. wire \in Seq(Nat)
    BY <1>2, WiredSeq
  <2> QED BY <1>3, <2>1 DEF Buffers
<1>5. back.result = amf_invoke_from_buf(b)
  BY <1>3
<1>6. Elements = E
  BY DEF Elements
<1> HIDE DEF b
<1>7. PICK f : amf_invoke_from_buf(b) = f[1] /\ \A p \in Pos : f[p] = FromBuf(b, f, p)
  BY <1>4, FromEq
<1>8. From(b, f)
  BY <1>7 DEF From
<1>9. \A i \in DOMAIN es : ~HasKeyAsEnd(KeyAsEnd, es[i])
  OBVIOUS
<1>10. Readable(E) /\ f[1] = Outcome(E, 0)
  <2>1. us = [i \in DOMAIN es |-> Unfolded(es[i])] /\ E = FlattenSeq(us)
    OBVIOUS
  <2> HIDE DEF us, E, es
  <2> QED BY <1>1, <1>2, <1>4, <1>8, <1>9, <2>1, InvokeRead
<1> HIDE DEF E
<1>11. f[1] = IF E # <<>> /\ EmptyString(Last(E)) THEN NULL ELSE AllRead(E)
  BY <1>10, WholeOutcome
<1>12. EmptyTail <=> E # <<>> /\ EmptyString(Last(E))
  BY <1>6 DEF EmptyTail
<1>13. AllRead(E) = [i \in DOMAIN Elements |-> ReadBack(AsRead, Elements[i])]
  BY <1>6, Zenon DEF AllRead
<1> QED BY <1>5, <1>7, <1>11, <1>12, <1>13, Zenon

(* What was sent or received is read as it was built, for elements of any  *)
(* depth and any number of them, whatever stands behind the buffer, but    *)
(* for a last empty string and keys that look like an end mark             *)
(* (amf.c:491-502 against 709-741).                                        *)
THEOREM AmfRoundTrip == Spec => []RoundTrip
BY AlwaysHistory, HistoryRoundTrip, PTL
=============================================================================
