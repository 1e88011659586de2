---------------------------- MODULE DetectorsProofs ----------------------------
(***************************************************************************)
(* For any stream of events, any globs, tools, windows and thresholds: an  *)
(* edit of a denied path that is not itself a repetition is blocked,       *)
(* whatever the other five detectors make of it.                           *)
(*                                                                         *)
(* The three detectors after offspec are never heard for it, and of the    *)
(* two before, one judges results only and the other counts repetitions:   *)
(* neither of its two counts exceeds that of the calls that repeat the     *)
(* edit in the one way or the other.                                       *)
(*                                                                         *)
(* A verdict of context rot or of drift means what it says, and a run of   *)
(* failures is answered: what a sum or a walk comes to is argued by the    *)
(* least place where it would not.                                         *)
(***************************************************************************)
EXTENDS Detectors, FiniteSetTheorems, SequenceTheorems, WellFoundedInduction, TLAPS

(* The end of a window is the end of what it is a window of. *)
LEMMA RecentParts ==
  ASSUME NEW S, NEW s \in Seq(S), NEW n \in Nat
  PROVE  /\ Recent(s, n) \in Seq(S) /\ Len(Recent(s, n)) <= n
         /\ n # 0 /\ s # <<>> => Last(Recent(s, n)) = Last(s)
<1>1. CASE Len(s) <= n  BY <1>1 DEF Recent
<1>2. CASE ~(Len(s) <= n)
  <2> DEFINE t == SubSeq(s, Len(s) - n + 1, Len(s))
  <2>1. /\ Len(s) \in Nat /\ Len(s) - n + 1 \in 1..(Len(s) + 1)
    BY <1>2
  <2>2. /\ t \in Seq(S) /\ Len(t) = n
        /\ \A i \in 1..n : t[i] = s[Len(s) - n + i]
    BY <1>2, <2>1, SubSeqProperties
  <2>3. n # 0 => t[Len(t)] = s[Len(s)]  BY <2>1, <2>2
  <2> QED  BY <1>2, <2>2, <2>3 DEF Recent, Last
<1> QED  BY <1>1, <1>2

(* What was appended is the last of the window. *)
LEMMA ObservedLast ==
  ASSUME TypeOK, NEW e \in Observed, Observe(e)
  PROVE  /\ events' \in Seq(Observed) /\ Len(events') <= MaxEvents
         /\ Last(events') = e
<1> DEFINE s == Append(events, e)
<1>1. events \in Seq(Observed) /\ Len(events) \in Nat  BY DEF TypeOK
<1>2. s \in Seq(Observed) /\ Len(s) = Len(events) + 1 /\ s[Len(events) + 1] = e
  BY <1>1, AppendProperties
<1>3. s # <<>> /\ Last(s) = e  BY <1>1, <1>2 DEF Last
<1>4. events' = Recent(s, MaxEvents)  BY DEF Observe
<1> HIDE DEF s
<1> QED  BY <1>2, <1>3, <1>4, RecentParts, DetectorsAssumption

(* Neither kind of repetition is counted more often than both. *)
LEMMA CountRepeats ==
  ASSUME NEW S, NEW s \in Seq(S), NEW e
  PROVE  LET same == Cardinality({i \in DOMAIN s : SameCall(e, s[i])})
             near == Cardinality({i \in DOMAIN s : NearCall(e, s[i])})
             both == Cardinality({i \in DOMAIN s : SameCall(e, s[i]) \/ NearCall(e, s[i])}) IN
         same \in Nat /\ near \in Nat /\ both \in Nat /\ same <= both /\ near <= both
<1> DEFINE same == {i \in DOMAIN s : SameCall(e, s[i])}
           near == {i \in DOMAIN s : NearCall(e, s[i])}
           both == {i \in DOMAIN s : SameCall(e, s[i]) \/ NearCall(e, s[i])}
<1>1. IsFiniteSet(DOMAIN s)
  <2>1. DOMAIN s = 1..Len(s) /\ Len(s) \in Nat  OBVIOUS
  <2> QED  BY <2>1, FS_Interval
<1>2. IsFiniteSet(same) /\ IsFiniteSet(near) /\ IsFiniteSet(both)
  BY <1>1, FS_Subset
<1>3. same \subseteq both /\ near \subseteq both  OBVIOUS
<1>4. /\ Cardinality(same) \in Nat /\ Cardinality(near) \in Nat /\ Cardinality(both) \in Nat
      /\ Cardinality(same) <= Cardinality(both) /\ Cardinality(near) <= Cardinality(both)
  <2> HIDE DEF same, near, both
  <2> QED  BY <1>2, <1>3, FS_Subset, FS_CardinalityType
<1> QED  BY <1>4

(* The first that hits, when it is the third. *)
LEMMA OffSpecHeard ==
  ASSUME NEW e, NEW h, ~Loops(e, h), ~Regresses(e, h), DeniedEdit(e)
  PROVE  RunDetectors(e, h) = <<"offspec", "block">>
<1> DEFINE hits == Hits(e, h)
           hitting == {i \in DOMAIN DetectorOrder : hits[i]}
<1>1. DOMAIN DetectorOrder = 1..6 /\ DetectorOrder[3] = "offspec"  BY DEF DetectorOrder
<1>2. ~hits[1] /\ ~hits[2] /\ hits[3]  BY DEF Hits, OffSpec
<1> HIDE DEF hits
<1>3. 3 \in hitting /\ \A i \in hitting : i \in 3..6  BY <1>1, <1>2
<1>4. (CHOOSE i \in hitting : \A j \in hitting : i <= j) = 3
  <2>1. \A i \in hitting : (\A j \in hitting : i <= j) => i = 3  BY <1>3
  <2>2. \A j \in hitting : 3 <= j  BY <1>3
  <2> QED  BY <1>3, <2>1, <2>2
<1>5. ActionOf("offspec", e) = "block"  BY DEF ActionOf
<1> QED  BY <1>1, <1>3, <1>4, <1>5 DEF RunDetectors, hits

(* A set of numbers has a least one. *)
LEMMA Smallest ==
  ASSUME NEW S, S \subseteq Nat, S # {}
  PROVE  \E i \in S : \A j \in S : i <= j
<1> DEFINE Less == {ss \in Nat \X Nat : ss[1] < ss[2]}
<1>1. IsWellFoundedOn(Less, Nat)  BY NatLessThanWellFounded DEF OpToRel
<1>2. PICK i \in S : \A j \in S : <<j, i>> \notin Less  BY <1>1, WFMin
<1>3. ASSUME NEW j \in S PROVE i <= j
  <2>1. i \in Nat /\ j \in Nat /\ <<j, i>> \in Nat \X Nat  OBVIOUS
  <2>2. ~(j < i)  BY <1>2, <2>1
  <2> QED BY <2>1, <2>2
<1> QED BY <1>3

(* The first place where something is wrong has none wrong before it. *)
LEMMA FirstPlace ==
  ASSUME NEW n \in Nat, NEW B, B \subseteq 0..n, B # {}
  PROVE  \E i \in B : /\ i \in 0..n
                      /\ i # 0 => i \in 1..n /\ i - 1 \in 0..n /\ i - 1 \notin B
<1>1. B \subseteq Nat  OBVIOUS
<1>2. PICK i \in B : \A j \in B : i <= j  BY <1>1, Smallest
<1>3. i \in 0..n /\ i \in Nat  BY <1>1
<1>4. i # 0 => i \in 1..n /\ i - 1 \in 0..n /\ ~(i <= i - 1)  BY <1>3
<1> QED BY <1>2, <1>3, <1>4

(* Some detector is the first of those that hit. *)
LEMMA HitIsHeard ==
  ASSUME NEW e, NEW h, NEW k \in 1..6, Hits(e, h)[k]
  PROVE  RunDetectors(e, h) \in ToSet(DetectorOrder) \X {"nudge", "block"}
<1> DEFINE hits == Hits(e, h)
           hitting == {i \in DOMAIN DetectorOrder : hits[i]}
           first == CHOOSE i \in hitting : \A j \in hitting : i <= j
<1>1. DOMAIN DetectorOrder = 1..6  BY DEF DetectorOrder
<1>2. hits[k]  OBVIOUS
<1> HIDE DEF hits
<1>3. hitting \subseteq 1..6 /\ hitting # {}  BY <1>1, <1>2
<1>4. \E i \in hitting : \A j \in hitting : i <= j
  <2>1. hitting \subseteq Nat  BY <1>3
  <2> HIDE DEF hitting
  <2> QED  BY <1>3, <2>1, Smallest
<1>5. first \in DOMAIN DetectorOrder  BY <1>4
<1>6. DetectorOrder[first] \in ToSet(DetectorOrder)  BY <1>5 DEF ToSet
<1>7. RunDetectors(e, h) = <<DetectorOrder[first], ActionOf(DetectorOrder[first], e)>>
  BY <1>3 DEF RunDetectors, hits
<1>8. ActionOf(DetectorOrder[first], e) \in {"nudge", "block"}  BY DEF ActionOf
<1> DEFINE name == DetectorOrder[first]  action == ActionOf(name, e)
<1> HIDE DEF first, name, action, hitting
<1>9. name \in ToSet(DetectorOrder) /\ action \in {"nudge", "block"}
  BY <1>6, <1>8 DEF name, action
<1>10. RunDetectors(e, h) = <<name, action>>  BY <1>7 DEF name, action
<1> QED  BY <1>9, <1>10

LEMMA HeardTypes ==
  ASSUME NEW e, NEW h
  PROVE  RunDetectors(e, h) = None \/ RunDetectors(e, h) \in ToSet(DetectorOrder) \X {"nudge", "block"}
<1>1. DOMAIN DetectorOrder = 1..6  BY DEF DetectorOrder
<1>2. CASE \E k \in 1..6 : Hits(e, h)[k]  BY <1>2, HitIsHeard
<1>3. CASE ~ \E k \in 1..6 : Hits(e, h)[k]
  <2>1. {i \in DOMAIN DetectorOrder : Hits(e, h)[i]} = {}  BY <1>1, <1>3
  <2> QED BY <2>1 DEF RunDetectors
<1> QED  BY <1>2, <1>3

-----------------------------------------------------------------------------
(* Sums.                                                                     *)

(* A sum is what its recursion says. *)
LEMMA SumsUnrolled ==
  ASSUME NEW w, Len(w) \in Nat
  PROVE  Sums(w) = [i \in 0..Len(w) |-> IF i = 0 THEN 0 ELSE Sums(w)[i - 1] + w[i]]
<1> DEFINE Unrolls(f, n) == f = [i \in 0..n |-> IF i = 0 THEN 0 ELSE f[i - 1] + w[i]]
           Stuck == {n \in Nat : ~ \E f : Unrolls(f, n)}
<1>1. Stuck = {}
  <2> SUFFICES ASSUME Stuck # {} PROVE FALSE  OBVIOUS
  <2>1. PICK n \in Stuck : \A m \in Stuck : n <= m
    <3>1. Stuck \subseteq Nat  OBVIOUS
    <3> HIDE DEF Stuck
    <3> QED BY <3>1, Smallest
  <2>2. n \in Nat /\ ~ \E f : Unrolls(f, n)  BY <2>1
  <2>3. CASE n = 0
    <3>1. Unrolls([i \in 0..0 |-> 0], 0)  OBVIOUS
    <3> HIDE DEF Unrolls
    <3> QED BY <2>2, <2>3, <3>1
  <2>4. CASE n # 0
    <3>1. n - 1 \in Nat /\ n - 1 \notin Stuck
      <4> HIDE DEF Stuck
      <4>1. n - 1 \in Nat /\ ~(n <= n - 1)  BY <2>2, <2>4
      <4> QED BY <2>1, <4>1
    <3>2. PICK f : Unrolls(f, n - 1)  BY <3>1
    <3> DEFINE g == [i \in 0..n |-> IF i = n THEN f[n - 1] + w[n] ELSE f[i]]
    <3>3. ASSUME NEW i \in 0..n PROVE g[i] = IF i = 0 THEN 0 ELSE g[i - 1] + w[i]
      <4>1. CASE i = n
        <5>1. g[n - 1] = f[n - 1]  BY <2>2, <2>4
        <5> QED BY <2>2, <2>4, <4>1, <5>1
      <4>2. CASE i # n
        <5>1. i \in 0..(n - 1)  BY <2>2, <4>2
        <5>2. f[i] = IF i = 0 THEN 0 ELSE f[i - 1] + w[i]  BY <3>2, <5>1
        <5>3. i # 0 => i - 1 \in 0..n /\ i - 1 # n  BY <2>2, <5>1
        <5> QED BY <4>2, <5>2, <5>3
      <4> QED BY <4>1, <4>2
    <3>4. Unrolls(g, n)  BY <3>3
    <3> HIDE DEF g, Unrolls
    <3> QED BY <2>2, <3>4
  <2> QED BY <2>3, <2>4
<1>2. \E f : Unrolls(f, Len(w))
  <2>1. Len(w) \notin Stuck  BY <1>1
  <2> QED BY <2>1
<1>3. Sums(w) = CHOOSE f : Unrolls(f, Len(w))  BY DEF Sums
<1>4. Unrolls(Sums(w), Len(w))
  <2> HIDE DEF Unrolls
  <2> QED BY <1>2, <1>3
<1> QED BY <1>4

(* What is next comes on top. *)
LEMMA SumsNext ==
  ASSUME NEW w, Len(w) \in Nat
  PROVE  Sums(w)[0] = 0 /\ \A i \in 1..Len(w) : Sums(w)[i] = Sums(w)[i - 1] + w[i]
<1> DEFINE f == Sums(w)
<1>1. f = [i \in 0..Len(w) |-> IF i = 0 THEN 0 ELSE f[i - 1] + w[i]]  BY SumsUnrolled
<1> HIDE DEF f
<1>2. \A i \in 0..Len(w) : f[i] = IF i = 0 THEN 0 ELSE f[i - 1] + w[i]  BY <1>1
<1> QED BY <1>2 DEF f

(* Sums of numbers are numbers. *)
LEMMA SumsTyped ==
  ASSUME NEW w \in Seq(Nat)
  PROVE  \A i \in 0..Len(w) : Sums(w)[i] \in Nat
<1> DEFINE f == Sums(w)  Bad == {i \in 0..Len(w) : f[i] \notin Nat}
<1>1. Len(w) \in Nat /\ \A i \in 1..Len(w) : w[i] \in Nat  OBVIOUS
<1>2. f[0] = 0 /\ \A i \in 1..Len(w) : f[i] = f[i - 1] + w[i]  BY <1>1, SumsNext
<1> HIDE DEF f
<1> SUFFICES ASSUME Bad # {} PROVE FALSE  BY DEF f
<1>3. PICK i \in Bad : /\ i \in 0..Len(w)
                       /\ i # 0 => i \in 1..Len(w) /\ i - 1 \in 0..Len(w) /\ i - 1 \notin Bad
  <2>1. Bad \subseteq 0..Len(w)  OBVIOUS
  <2> HIDE DEF Bad
  <2> QED BY <1>1, <2>1, FirstPlace
<1>4. f[i] \notin Nat /\ i # 0  BY <1>2, <1>3
<1>5. i \in 1..Len(w) /\ f[i - 1] \in Nat
  <2>1. i \in 1..Len(w) /\ i - 1 \in 0..Len(w) /\ i - 1 \notin Bad
    <3> HIDE DEF Bad
    <3> QED BY <1>3, <1>4
  <2> QED BY <2>1
<1> HIDE DEF Bad
<1>6. w[i] \in Nat /\ f[i] = f[i - 1] + w[i]  BY <1>1, <1>2, <1>5
<1>7. f[i] \in Nat  BY <1>5, <1>6
<1> QED BY <1>4, <1>7

(* The sums of a part are differences of those of the whole. *)
LEMMA SumsShift ==
  ASSUME NEW v \in Seq(Nat), NEW w \in Seq(Nat), NEW o \in Nat, Len(v) + o <= Len(w),
         \A i \in 1..Len(v) : v[i] = w[i + o]
  PROVE  \A i \in 0..Len(v) : Sums(v)[i] = Sums(w)[i + o] - Sums(w)[o]
<1> DEFINE f == Sums(v)  g == Sums(w)
           Bad == {i \in 0..Len(v) : f[i] # g[i + o] - g[o]}
<1>1. Len(v) \in Nat /\ Len(w) \in Nat  OBVIOUS
<1>2. f[0] = 0 /\ \A i \in 1..Len(v) : f[i] = f[i - 1] + v[i]  BY <1>1, SumsNext
<1>3. \A i \in 1..Len(w) : g[i] = g[i - 1] + w[i]  BY <1>1, SumsNext
<1>4. (\A i \in 0..Len(v) : f[i] \in Nat) /\ \A i \in 0..Len(w) : g[i] \in Nat  BY SumsTyped
<1> HIDE DEF f, g
<1> SUFFICES ASSUME Bad # {} PROVE FALSE  BY DEF f, g
<1>5. PICK i \in Bad : /\ i \in 0..Len(v)
                       /\ i # 0 => i \in 1..Len(v) /\ i - 1 \in 0..Len(v) /\ i - 1 \notin Bad
  <2>1. Bad \subseteq 0..Len(v)  OBVIOUS
  <2> HIDE DEF Bad
  <2> QED BY <1>1, <2>1, FirstPlace
<1>6. f[i] # g[i + o] - g[o] /\ i \in 1..Len(v)
  <2>1. f[i] # g[i + o] - g[o]  OBVIOUS
  <2>2. CASE i = 0
    <3>1. g[o] \in Nat /\ 0 + o = o
      <4>1. o \in 0..Len(w)  BY <1>1
      <4> QED BY <1>4, <4>1
    <3>2. f[0] = g[0 + o] - g[o]  BY <1>2, <3>1
    <3> QED BY <2>1, <2>2, <3>2
  <2>3. CASE i # 0
    <3> HIDE DEF Bad
    <3> QED BY <1>5, <2>1, <2>3
  <2> QED BY <2>2, <2>3
<1>7. f[i - 1] = g[(i - 1) + o] - g[o]
  <2>1. i - 1 \in 0..Len(v) /\ i - 1 \notin Bad
    <3>1. i # 0  BY <1>1, <1>6
    <3> HIDE DEF Bad
    <3> QED BY <1>5, <3>1
  <2> QED BY <2>1
<1> HIDE DEF Bad
<1>8. /\ i + o \in 1..Len(w) /\ (i + o) - 1 = (i - 1) + o
      /\ o \in 0..Len(w) /\ (i - 1) + o \in 0..Len(w)
  <2> DEFINE n == Len(v)  m == Len(w)
  <2>1. n \in Nat /\ m \in Nat /\ n + o <= m /\ i \in 1..n  BY <1>1, <1>6
  <2> HIDE DEF n, m
  <2>2. i + o \in 1..m /\ (i + o) - 1 = (i - 1) + o /\ o \in 0..m /\ (i - 1) + o \in 0..m
    BY <2>1
  <2> QED BY <2>2 DEF m
<1>9. g[i + o] = g[(i - 1) + o] + w[i + o]  BY <1>3, <1>8
<1>10. f[i] = f[i - 1] + w[i + o]  BY <1>2, <1>6
<1>11. w[i + o] \in Nat /\ g[o] \in Nat /\ g[(i - 1) + o] \in Nat
  <2>1. o \in 0..Len(w) /\ (i - 1) + o \in 0..Len(w)  BY <1>8
  <2>2. \A j \in 1..Len(w) : w[j] \in Nat  OBVIOUS
  <2>3. w[i + o] \in Nat  BY <1>8, <2>2
  <2>4. g[o] \in Nat /\ g[(i - 1) + o] \in Nat  BY <1>4, <2>1
  <2> QED BY <2>3, <2>4
<1>12. f[i] = g[i + o] - g[o]
  <2> DEFINE a == g[(i - 1) + o]  b == g[o]  c == w[i + o]
  <2>1. a \in Nat /\ b \in Nat /\ c \in Nat  BY <1>11
  <2>2. f[i] = (a - b) + c /\ g[i + o] = a + c  BY <1>7, <1>9, <1>10
  <2> HIDE DEF a, b, c
  <2>3. f[i] = g[i + o] - b  BY <2>1, <2>2
  <2> QED BY <2>3 DEF b
<1> QED BY <1>6, <1>12

-----------------------------------------------------------------------------
(* Quiet time.                                                               *)

(* The i-th of the end of a window. *)
LEMMA RecentIndexed ==
  ASSUME NEW S, NEW s \in Seq(S), NEW n \in Nat
  PROVE  LET t == Recent(s, n) IN
         /\ t \in Seq(S) /\ Len(t) = IF Len(s) <= n THEN Len(s) ELSE n
         /\ \A i \in 1..Len(t) : t[i] = s[i + (Len(s) - Len(t))]
<1>1. CASE Len(s) <= n
  <2>1. Len(s) \in Nat /\ \A i \in 1..Len(s) : i + (Len(s) - Len(s)) = i  OBVIOUS
  <2> QED BY <1>1, <2>1 DEF Recent
<1>2. CASE ~(Len(s) <= n)
  <2> DEFINE t == SubSeq(s, Len(s) - n + 1, Len(s))
  <2>1. /\ Len(s) \in Nat /\ Len(s) - n + 1 \in 1..(Len(s) + 1)
    BY <1>2
  <2>2. t \in Seq(S) /\ Len(t) = n /\ \A i \in 1..n : t[i] = s[Len(s) - n + i]
    BY <1>2, <2>1, SubSeqProperties
  <2>3. Recent(s, n) = t  BY <1>2 DEF Recent
  <2> HIDE DEF t
  <2>4. ASSUME NEW i \in 1..n PROVE t[i] = s[i + (Len(s) - n)]
    <3>1. Len(s) - n + i = i + (Len(s) - n)  BY <2>1
    <3> QED BY <2>2, <3>1
  <2>5. \A i \in 1..Len(t) : t[i] = s[i + (Len(s) - Len(t))]  BY <2>2, <2>4
  <2>6. t \in Seq(S) /\ Len(t) = IF Len(s) <= n THEN Len(s) ELSE n  BY <1>2, <2>2
  <2> QED  BY <2>3, <2>5, <2>6
<1> QED  BY <1>1, <1>2

LEMMA GapsTyped ==
  ASSUME NEW s \in Seq(Observed)
  PROVE  Gaps(s) \in Seq(Nat) /\ Len(Gaps(s)) = Len(s) /\ \A i \in 1..Len(s) : Gaps(s)[i] = s[i].gap
<1>1. DOMAIN s = 1..Len(s) /\ Len(s) \in Nat /\ \A i \in 1..Len(s) : s[i] \in Observed  OBVIOUS
<1>2. Gaps(s) = [i \in 1..Len(s) |-> s[i].gap]  BY <1>1 DEF Gaps
<1>3. \A i \in 1..Len(s) : s[i].gap \in Nat  BY <1>1, DetectorsAssumption
<1> QED BY <1>1, <1>2, <1>3

(* Time passes in a part of the window as it does in the whole. *)
LEMMA ElapsedShift ==
  ASSUME NEW s \in Seq(Observed), NEW t \in Seq(Observed), NEW o \in Nat, Len(s) = Len(t) + o,
         \A i \in 1..Len(t) : t[i] = s[i + o],
         NEW from \in 0..Len(t)
  PROVE  Elapsed(t, from) = Elapsed(s, from + o)
<1> DEFINE v == Gaps(t)  w == Gaps(s)
<1>1. /\ v \in Seq(Nat) /\ w \in Seq(Nat) /\ Len(v) = Len(t) /\ Len(w) = Len(s)
      /\ (\A i \in 1..Len(t) : v[i] = t[i].gap) /\ \A i \in 1..Len(s) : w[i] = s[i].gap
  BY GapsTyped
<1>2. \A i \in 1..Len(v) : v[i] = w[i + o]
  <2>1. \A i \in 1..Len(t) : i + o \in 1..Len(s)  OBVIOUS
  <2> HIDE DEF v, w
  <2> QED BY <1>1, <2>1
<1>3. Len(v) + o <= Len(w)  BY <1>1
<1>4. \A i \in 0..Len(w) : Sums(w)[i] \in Nat  BY <1>1, SumsTyped
<1>5. \A i \in 0..Len(v) : Sums(v)[i] = Sums(w)[i + o] - Sums(w)[o]
  <2> HIDE DEF v, w
  <2> QED BY <1>1, <1>2, <1>3, SumsShift
<1> DEFINE a == Sums(w)[Len(t) + o]  b == Sums(w)[from + o]  c == Sums(w)[o]
<1>6. a \in Nat /\ b \in Nat /\ c \in Nat
  <2>1. Len(t) + o \in 0..Len(w) /\ from + o \in 0..Len(w) /\ o \in 0..Len(w)  BY <1>1
  <2> QED BY <1>4, <2>1
<1>7. Sums(v)[Len(t)] = a - c /\ Sums(v)[from] = b - c
  <2>1. Len(t) \in 0..Len(v) /\ from \in 0..Len(v)  BY <1>1
  <2> QED BY <1>5, <2>1
<1>8. Elapsed(t, from) = (a - c) - (b - c)  BY <1>7 DEF Elapsed
<1>9. Elapsed(s, from + o) = a - b  BY DEF Elapsed
<1> HIDE DEF a, b, c
<1> QED BY <1>6, <1>8, <1>9

(* Another event adds its gap; nothing has passed since the last. *)
LEMMA ElapsedNext ==
  ASSUME NEW s \in Seq(Observed), NEW e \in Observed, NEW from \in 0..Len(s)
  PROVE  /\ Elapsed(Append(s, e), from) = Elapsed(s, from) + e.gap
         /\ Elapsed(s, from) \in Int /\ Elapsed(s, Len(s)) = 0
<1> DEFINE t == Append(s, e)  v == Gaps(s)  w == Gaps(t)  n == Len(s)
<1>1. t \in Seq(Observed) /\ Len(t) = n + 1 /\ t[n + 1] = e /\ \A i \in 1..n : t[i] = s[i]
  BY AppendProperties
<1>2. n \in Nat  OBVIOUS
<1> HIDE DEF t
<1>3. /\ v \in Seq(Nat) /\ w \in Seq(Nat) /\ Len(v) = n /\ Len(w) = n + 1
      /\ (\A i \in 1..n : v[i] = s[i].gap) /\ \A i \in 1..(n + 1) : w[i] = t[i].gap
  BY <1>1, GapsTyped
<1> HIDE DEF v, w, n
<1>4. w[n + 1] = e.gap /\ \A i \in 1..Len(v) : v[i] = w[i + 0]
  <2>1. n + 1 \in 1..(n + 1) /\ \A i \in 1..n : i \in 1..(n + 1) /\ i + 0 = i  BY <1>2
  <2>2. w[n + 1] = e.gap  BY <1>1, <1>3, <2>1
  <2>3. ASSUME NEW i \in 1..Len(v) PROVE v[i] = w[i + 0]
    <3>1. i \in 1..n /\ i \in 1..(n + 1) /\ i + 0 = i  BY <1>3, <2>1
    <3>2. v[i] = s[i].gap /\ w[i] = t[i].gap /\ t[i] = s[i]  BY <1>1, <1>3, <3>1
    <3> QED BY <3>1, <3>2
  <2> QED BY <2>2, <2>3
<1>5. /\ \A i \in 0..Len(w) : Sums(w)[i] \in Nat
      /\ \A i \in 0..Len(v) : Sums(v)[i] = Sums(w)[i + 0] - Sums(w)[0]
  <2>1. Len(v) + 0 <= Len(w)  BY <1>2, <1>3
  <2> QED BY <1>3, <1>4, <2>1, SumsShift, SumsTyped
<1>6. Sums(w)[0] = 0 /\ Sums(w)[n + 1] = Sums(w)[n] + e.gap
  <2>1. Sums(w)[0] = 0 /\ \A i \in 1..Len(w) : Sums(w)[i] = Sums(w)[i - 1] + w[i]
    <3>1. Len(w) \in Nat  BY <1>2, <1>3
    <3> QED BY <3>1, SumsNext
  <2>2. n + 1 \in 1..Len(w) /\ (n + 1) - 1 = n  BY <1>2, <1>3
  <2>3. Sums(w)[n + 1] = Sums(w)[n] + w[n + 1]  BY <2>1, <2>2
  <2> QED BY <1>4, <2>1, <2>3
<1> DEFINE a == Sums(w)[n]  b == Sums(w)[from]
<1>7. a \in Nat /\ b \in Nat /\ e.gap \in Nat
  <2>1. n \in 0..Len(w) /\ from \in 0..Len(w)  BY <1>2, <1>3 DEF n
  <2> QED BY <1>5, <2>1, DetectorsAssumption
<1>8. Sums(v)[n] = a /\ Sums(v)[from] = b
  <2>1. n \in 0..Len(v) /\ from \in 0..Len(v) /\ n + 0 = n /\ from + 0 = from  BY <1>2, <1>3 DEF n
  <2>2. Sums(v)[n] = a - 0 /\ Sums(v)[from] = b - 0  BY <1>5, <1>6, <2>1
  <2> HIDE DEF a, b
  <2> QED BY <1>7, <2>2
<1>9. Elapsed(s, from) = a - b /\ Elapsed(s, n) = a - a  BY <1>8 DEF Elapsed, v, n
<1>10. Elapsed(t, from) = (a + e.gap) - b  BY <1>1, <1>6 DEF Elapsed, w
<1> HIDE DEF a, b
<1>11. Elapsed(t, from) = Elapsed(s, from) + e.gap /\ Elapsed(s, from) \in Int /\ Elapsed(s, n) = 0
  BY <1>7, <1>9, <1>10
<1> QED BY <1>11 DEF n, t

LEMMA TypesInit == Init => TypeOK
<1> SUFFICES ASSUME Init PROVE TypeOK  OBVIOUS
<1>1. events \in Seq(Observed) /\ Len(events) = 0  BY EmptySeq DEF Init
<1>2. 0 <= MaxEvents /\ 0 \in 0..MinQuiet  BY DetectorsAssumption
<1>3. Len(events) <= MaxEvents  BY <1>1, <1>2
<1>4. told = None /\ awake \in BOOLEAN /\ quiet \in 0..MinQuiet  BY <1>2 DEF Init
<1> QED  BY <1>1, <1>3, <1>4 DEF TypeOK

LEMMA TypesStep == TypeOK /\ [Next]_vars => TypeOK'
<1> SUFFICES ASSUME TypeOK, [Next]_vars PROVE TypeOK'  OBVIOUS
<1>1. CASE UNCHANGED vars  BY <1>1 DEF vars, TypeOK
<1>2. ASSUME NEW e \in Observed, Observe(e) PROVE TypeOK'
  <2>1. events' \in Seq(Observed) /\ Len(events') <= MaxEvents  BY <1>2, ObservedLast
  <2>2. told' = None \/ told' \in ToSet(DetectorOrder) \X {"nudge", "block"}
    BY <1>2, HeardTypes DEF Observe
  <2>3. awake' \in BOOLEAN
    BY <1>2 DEF Observe, Wakes
  <2>4. quiet' \in 0..MinQuiet
    BY <1>2, DetectorsAssumption DEF Observe, TypeOK
  <2> QED  BY <2>1, <2>2, <2>3, <2>4 DEF TypeOK
<1> QED  BY <1>1, <1>2 DEF Next

(* The variables keep their types, for any stream of events. *)
THEOREM DetectorTypes == Spec => []TypeOK
BY TypesInit, TypesStep, PTL DEF Spec

LEMMA BlockedStep ==
  ASSUME TypeOK, NEW e \in Observed, Observe(e), DeniedEdit(e),
         1 + Count(Recent(events, LoopWindow), LAMBDA f : SameCall(e, f) \/ NearCall(e, f))
           < LoopThreshold
  PROVE  told' = <<"offspec", "block">>
<1> DEFINE recent == Recent(events, LoopWindow)
<1>1. recent \in Seq(Observed)  BY RecentParts, DetectorsAssumption DEF TypeOK
<1> HIDE DEF recent
<1>2. LET same == Cardinality({i \in DOMAIN recent : SameCall(e, recent[i])})
          near == Cardinality({i \in DOMAIN recent : NearCall(e, recent[i])})
          both == Cardinality({i \in DOMAIN recent : SameCall(e, recent[i]) \/ NearCall(e, recent[i])}) IN
      same \in Nat /\ near \in Nat /\ both \in Nat /\ same <= both /\ near <= both
  BY <1>1, CountRepeats
<1>7. 1 + Cardinality({i \in DOMAIN recent : SameCall(e, recent[i]) \/ NearCall(e, recent[i])})
        < LoopThreshold
  BY DEF Count, recent
<1>3. ~Loops(e, events)
  <2> DEFINE same == Cardinality({i \in DOMAIN recent : SameCall(e, recent[i])})
             near == Cardinality({i \in DOMAIN recent : NearCall(e, recent[i])})
             both == Cardinality({i \in DOMAIN recent : SameCall(e, recent[i]) \/ NearCall(e, recent[i])})
  <2>1. same \in Nat /\ near \in Nat /\ both \in Nat /\ same <= both /\ near <= both
    BY <1>2
  <2>2. 1 + both < LoopThreshold  BY <1>7
  <2>3. Loops(e, events) => 1 + same >= LoopThreshold \/ 1 + near >= LoopThreshold
    BY DEF Loops, Count, recent
  <2> HIDE DEF same, near, both
  <2> QED  BY <2>1, <2>2, <2>3, DetectorsAssumption
<1>4. IsCall(e)  BY DetectorsAssumption DEF DeniedEdit, EditedPath
<1>5. ~Regresses(e, events)  BY <1>4 DEF Regresses, IsResult, IsCall
<1>6. told' = RunDetectors(e, events)  BY DEF Observe
<1> QED  BY <1>3, <1>5, <1>6, OffSpecHeard

(* An edit of a denied path that is not itself a repetition is blocked,    *)
(* whatever else the session shows (OffSpecDetector, _run_detectors).      *)
THEOREM DeniedBlocked == Spec => FirstDeniedEditsBlocked
<1> DEFINE Blocks ==
      LET e == Last(events')  recent == Recent(events, LoopWindow) IN
      DeniedEdit(e) /\ 1 + Count(recent, LAMBDA f : SameCall(e, f) \/ NearCall(e, f)) < LoopThreshold
        => told' = <<"offspec", "block">>
<1>1. TypeOK /\ [Next]_vars => [Blocks]_vars
  <2>1. ASSUME TypeOK, NEW e \in Observed, Observe(e) PROVE Blocks
    <3>1. Last(events') = e  BY <2>1, ObservedLast
    <3> QED  BY <2>1, <3>1, BlockedStep
  <2> QED  BY <2>1 DEF Next
<1>2. FirstDeniedEditsBlocked <=> [][Blocks]_vars  BY DEF FirstDeniedEditsBlocked
<1> QED  BY <1>1, <1>2, DetectorTypes, PTL DEF Spec

-----------------------------------------------------------------------------
(* Context rot.                                                              *)

(* A bounded set of numbers has a greatest one. *)
LEMMA Greatest ==
  ASSUME NEW n \in Nat, NEW S, S \subseteq 1..n, S # {}
  PROVE  \E i \in S : \A j \in S : j <= i
<1> DEFINE T == {n - i : i \in S}
<1>1. T \subseteq Nat /\ T # {}
  <2>1. \A i \in S : n - i \in Nat  OBVIOUS
  <2>2. PICK i \in S : TRUE  OBVIOUS
  <2>3. n - i \in T  BY <2>2
  <2> QED BY <2>1, <2>3
<1>2. PICK k \in T : \A l \in T : k <= l
  <2> HIDE DEF T
  <2> QED BY <1>1, Smallest
<1>3. PICK i \in S : k = n - i  OBVIOUS
<1>4. ASSUME NEW j \in S PROVE j <= i
  <2>1. n - j \in T  OBVIOUS
  <2>2. n - i <= n - j  BY <1>2, <1>3, <2>1
  <2>3. i \in Int /\ j \in Int  OBVIOUS
  <2> QED BY <2>2, <2>3
<1> QED BY <1>4

(* Whatever part of the window is free of tool work, `quiet' counts its time. *)
QuietCovers ==
  \A from \in 1..Len(events) :
    (\A i \in (from + 1)..Len(events) : ~IsToolWork(events[i]))
      => quiet >= MinQuiet \/ Elapsed(events, from) <= quiet

LEMMA QuietInit == Init => QuietCovers
<1> SUFFICES ASSUME Init, NEW from \in 1..Len(events) PROVE FALSE  BY DEF QuietCovers
<1>1. Len(events) = 0  BY DEF Init
<1> QED BY <1>1

LEMMA QuietStep == TypeOK /\ QuietCovers /\ [Next]_vars => QuietCovers'
<1> SUFFICES ASSUME TypeOK, QuietCovers, [Next]_vars PROVE QuietCovers'  OBVIOUS
<1>1. CASE UNCHANGED vars
  <2>1. events' = events /\ quiet' = quiet  BY <1>1 DEF vars
  <2> QED BY <2>1 DEF QuietCovers, Elapsed, IsToolWork, IsCall, IsResult
<1>2. ASSUME NEW e \in Observed, Observe(e) PROVE QuietCovers'
  <2> DEFINE s == Append(events, e)  t == Recent(s, MaxEvents)  o == Len(s) - Len(t)  n == Len(events)
  <2>1. events \in Seq(Observed) /\ n \in Nat /\ events' = t  BY <1>2 DEF TypeOK, Observe
  <2>2. s \in Seq(Observed) /\ Len(s) = n + 1 /\ s[n + 1] = e /\ \A i \in 1..n : s[i] = events[i]
    BY <2>1, AppendProperties
  <2> HIDE DEF s
  <2>3. /\ t \in Seq(Observed) /\ Len(t) = IF Len(s) <= MaxEvents THEN Len(s) ELSE MaxEvents
        /\ \A i \in 1..Len(t) : t[i] = s[i + o]
    BY <2>2, RecentIndexed, DetectorsAssumption
  <2> HIDE DEF t
  <2>4. Len(t) \in Nat /\ o \in Nat /\ Len(s) = Len(t) + o  BY <2>1, <2>2, <2>3, DetectorsAssumption
  <2> HIDE DEF o, n
  <2>5. quiet' \in Nat /\ quiet \in Nat /\ e.gap \in Nat /\ MinQuiet \in Nat
    BY <1>2, TypesStep, DetectorsAssumption DEF TypeOK
  <2>6. ASSUME NEW from \in 1..Len(t), \A i \in (from + 1)..Len(t) : ~IsToolWork(t[i])
        PROVE  quiet' >= MinQuiet \/ Elapsed(t, from) <= quiet'
    <3>1. from \in 0..Len(t)  BY <2>4
    <3>2. Elapsed(t, from) = Elapsed(s, from + o)  BY <2>2, <2>3, <2>4, <3>1, ElapsedShift
    <3>3. CASE from = Len(t)
      <4>1. 0 \in 0..Len(s)  BY <2>4
      <4>2. Elapsed(s, Len(s)) = 0  BY <2>2, <4>1, ElapsedNext
      <4> QED BY <2>4, <2>5, <3>2, <3>3, <4>2
    <3>4. CASE from # Len(t)
      <4> DEFINE g == from + o
      <4>1. g \in 1..n /\ g \in 0..n  BY <2>1, <2>2, <2>4, <3>4
      <4>2. ~IsToolWork(e)
        <5>1. Len(t) \in (from + 1)..Len(t) /\ Len(t) \in 1..Len(t)  BY <2>4, <3>4
        <5>2. t[Len(t)] = s[Len(t) + o] /\ Len(t) + o = n + 1  BY <2>2, <2>3, <2>4, <5>1
        <5> QED BY <2>2, <2>6, <5>1, <5>2
      <4>3. \A i \in (g + 1)..n : ~IsToolWork(events[i])
        <5> SUFFICES ASSUME NEW i \in (g + 1)..n PROVE ~IsToolWork(events[i])  OBVIOUS
        <5>1. i - o \in (from + 1)..Len(t) /\ i - o \in 1..Len(t) /\ (i - o) + o = i /\ i \in 1..n
          BY <2>1, <2>2, <2>4, <4>1
        <5>2. t[i - o] = events[i]  BY <2>2, <2>3, <5>1
        <5> QED BY <2>6, <5>1, <5>2
      <4>4. quiet >= MinQuiet \/ Elapsed(events, g) <= quiet  BY <4>1, <4>3 DEF QuietCovers, n
      <4>5. Elapsed(s, g) = Elapsed(events, g) + e.gap /\ Elapsed(events, g) \in Int
        BY <2>1, <4>1, ElapsedNext DEF s, n
      <4>6. events # <<>>
        <5>1. n # 0  BY <4>1
        <5> QED BY <5>1 DEF n
      <4>7. quiet' = IF quiet + e.gap > MinQuiet THEN MinQuiet ELSE quiet + e.gap
        BY <1>2, <4>2, <4>6 DEF Observe
      <4>8. quiet' >= MinQuiet \/ Elapsed(s, g) <= quiet'
        <5> HIDE DEF g
        <5> QED BY <2>5, <4>4, <4>5, <4>7
      <4> QED BY <3>2, <4>8
    <3> QED BY <3>3, <3>4
  <2> QED BY <2>1, <2>6 DEF QuietCovers, Elapsed, IsToolWork, IsCall, IsResult
<1> QED BY <1>1, <1>2 DEF Next

(* Who is heard has hit. *)
LEMMA HeardHits ==
  ASSUME NEW e, NEW h, NEW k \in 1..6, RunDetectors(e, h) # None,
         RunDetectors(e, h)[1] = DetectorOrder[k]
  PROVE  Hits(e, h)[k]
<1> DEFINE hits == Hits(e, h)
           hitting == {i \in DOMAIN DetectorOrder : hits[i]}
           first == CHOOSE i \in hitting : \A j \in hitting : i <= j
<1>1. DOMAIN DetectorOrder = 1..6  BY DEF DetectorOrder
<1> HIDE DEF hits
<1>2. hitting \subseteq 1..6  BY <1>1
<1>3. hitting # {}  BY DEF RunDetectors, hits
<1>4. first \in hitting
  <2>1. \E i \in hitting : \A j \in hitting : i <= j
    <3>1. hitting \subseteq Nat  BY <1>2
    <3> HIDE DEF hitting
    <3> QED  BY <1>3, <3>1, Smallest
  <2> QED BY <2>1
<1>5. RunDetectors(e, h) = <<DetectorOrder[first], ActionOf(DetectorOrder[first], e)>>
  BY <1>3 DEF RunDetectors, hits
<1>6. DetectorOrder[first] = DetectorOrder[k]
  <2> DEFINE a == DetectorOrder[first]  b == ActionOf(a, e)
  <2>1. RunDetectors(e, h) = <<a, b>>  BY <1>5
  <2> HIDE DEF a, b
  <2>2. RunDetectors(e, h)[1] = a  BY <2>1
  <2> QED BY <2>2 DEF a
<1>7. \A i, j \in 1..6 : DetectorOrder[i] = DetectorOrder[j] => i = j  BY DEF DetectorOrder
<1>8. first = k
  <2>1. first \in 1..6  BY <1>2, <1>4
  <2> HIDE DEF first
  <2> QED BY <1>6, <1>7, <2>1
<1>9. hits[first]  BY <1>4
<1> QED BY <1>8, <1>9 DEF hits

(* The part of the lookback that is measured is free of tool work. *)
LEMMA RotIsQuiet ==
  ASSUME TypeOK, QuietCovers, NEW e \in Observed, Observe(e), Rots(e, events)
  PROVE  quiet' >= MinQuiet
<1> DEFINE n == Len(events)  t == Recent(events, QuietLookback)  o == n - Len(t)
           work == {i \in DOMAIN t : IsToolWork(t[i])}
           from == IF work = {} THEN 1 ELSE CHOOSE i \in work : \A j \in work : j <= i
<1>1. events \in Seq(Observed) /\ n \in Nat  BY DEF TypeOK
<1>2. /\ t \in Seq(Observed) /\ Len(t) = IF n <= QuietLookback THEN n ELSE QuietLookback
      /\ \A i \in 1..Len(t) : t[i] = events[i + o]
  BY <1>1, RecentIndexed, DetectorsAssumption
<1>3. quiet' \in 0..MinQuiet /\ quiet \in Nat /\ e.gap \in Nat /\ MinQuiet \in Nat
  BY TypesStep, DetectorsAssumption DEF TypeOK, Next
<1>4. QuietTime(e, events) = (IF t = <<>> THEN 0 ELSE e.gap + Elapsed(t, from))
      /\ QuietTime(e, events) >= MinQuiet /\ ~IsToolWork(e)
  BY DEF QuietTime, Rots, IsThought, IsToolWork, IsCall, IsResult
<1> HIDE DEF t
<1>5. CASE t = <<>>  BY <1>3, <1>4, <1>5
<1>6. CASE t # <<>>
  <2>1. Len(t) \in Nat \ {0} /\ o \in Nat /\ n = Len(t) + o
    <3>1. Len(t) # 0 /\ Len(t) \in Nat  BY <1>2, <1>6
    <3> QED BY <1>1, <1>2, <3>1, DetectorsAssumption
  <2>2. from \in 1..Len(t) /\ \A i \in (from + 1)..Len(t) : ~IsToolWork(t[i])
    <3>1. DOMAIN t = 1..Len(t)  BY <1>2
    <3>2. CASE work = {}  BY <2>1, <3>1, <3>2
    <3>3. CASE work # {}
      <4>1. work \subseteq 1..Len(t)  BY <3>1
      <4>2. \E i \in work : \A j \in work : j <= i
        <5> HIDE DEF work
        <5> QED BY <2>1, <3>3, <4>1, Greatest
      <4>3. from \in work /\ \A j \in work : j <= from  BY <3>3, <4>2
      <4> HIDE DEF from
      <4>4. from \in 1..Len(t)  BY <4>1, <4>3
      <4>5. ASSUME NEW i \in (from + 1)..Len(t), IsToolWork(t[i]) PROVE FALSE
        <5>1. i \in 1..Len(t) /\ ~(i <= from)  BY <2>1, <4>4
        <5>2. i \in work  BY <3>1, <4>5, <5>1
        <5> QED BY <4>3, <5>1, <5>2
      <4> QED BY <4>4, <4>5
    <3> QED BY <3>2, <3>3
  <2> HIDE DEF from, o
  <2> DEFINE g == from + o
  <2>3. g \in 1..n /\ g \in 0..n /\ from \in 0..Len(t)  BY <2>1, <2>2
  <2>4. Elapsed(t, from) = Elapsed(events, g)
    <3>1. Len(events) = Len(t) + o  BY <2>1
    <3> QED BY <1>1, <1>2, <2>1, <2>3, <3>1, ElapsedShift
  <2>5. \A i \in (g + 1)..n : ~IsToolWork(events[i])
    <3> SUFFICES ASSUME NEW i \in (g + 1)..n PROVE ~IsToolWork(events[i])  OBVIOUS
    <3>1. i - o \in (from + 1)..Len(t) /\ i - o \in 1..Len(t) /\ (i - o) + o = i
      BY <2>1, <2>2
    <3> QED BY <1>2, <2>2, <3>1
  <2>6. quiet >= MinQuiet \/ Elapsed(events, g) <= quiet  BY <2>3, <2>5 DEF QuietCovers
  <2>7. Elapsed(events, g) \in Int  BY <1>1, <2>3, ElapsedNext
  <2>8. events # <<>>
    <3>1. n # 0  BY <2>3
    <3> QED BY <3>1
  <2>9. quiet' = IF quiet + e.gap > MinQuiet THEN MinQuiet ELSE quiet + e.gap
    BY <1>4, <2>8 DEF Observe
  <2>10. e.gap + Elapsed(events, g) >= MinQuiet  BY <1>4, <1>6, <2>4
  <2> HIDE DEF g
  <2> QED BY <1>3, <2>6, <2>7, <2>9, <2>10
<1> QED BY <1>5, <1>6

(* A verdict of context rot means that the agent has been quiet for MinQuiet,  *)
(* though the detector only sees the lookback (ContextRotDetector.evaluate),   *)
(* for any stream of events and any windows.                                   *)
THEOREM RotIsRealQuiet == Spec => RotNeedsQuiet
<1> DEFINE Quiet == Heard("contextrot") => quiet' >= MinQuiet
<1>1. TypeOK /\ QuietCovers /\ [Next]_vars => [Quiet]_vars
  <2>1. ASSUME TypeOK, QuietCovers, NEW e \in Observed, Observe(e), Heard("contextrot")
        PROVE  quiet' >= MinQuiet
    <3>1. told' = RunDetectors(e, events)  BY <2>1 DEF Observe
    <3>2. DetectorOrder[4] = "contextrot"  BY DEF DetectorOrder
    <3>3. Hits(e, events)[4]  BY <2>1, <3>1, <3>2, HeardHits DEF Heard
    <3>4. Rots(e, events)  BY <3>3 DEF Hits
    <3> QED BY <2>1, <3>4, RotIsQuiet
  <2> QED BY <2>1 DEF Next
<1>2. RotNeedsQuiet <=> [][Quiet]_vars  BY DEF RotNeedsQuiet
<1>3. Init => TypeOK /\ QuietCovers  BY TypesInit, QuietInit
<1>4. TypeOK /\ QuietCovers /\ [Next]_vars => (TypeOK /\ QuietCovers)'  BY TypesStep, QuietStep
<1> QED BY <1>1, <1>2, <1>3, <1>4, PTL DEF Spec

-----------------------------------------------------------------------------
(* Drift: the walk of the statistic.                                         *)

(* A walk is what its recursion says. *)
LEMMA WalkUnrolled ==
  ASSUME NEW w, Len(w) \in Nat
  PROVE  Walk(w) = [i \in 0..Len(w) |->
                      IF i = 0 THEN 0
                      ELSE IF Walk(w)[i - 1] + w[i] > 0 THEN Walk(w)[i - 1] + w[i] ELSE 0]
<1> DEFINE Floored(x) == IF x > 0 THEN x ELSE 0
           Unrolls(f, n) == f = [i \in 0..n |-> IF i = 0 THEN 0 ELSE Floored(f[i - 1] + w[i])]
           Stuck == {n \in Nat : ~ \E f : Unrolls(f, n)}
<1>1. Stuck = {}
  <2> HIDE DEF Floored
  <2> SUFFICES ASSUME Stuck # {} PROVE FALSE  OBVIOUS
  <2>1. PICK n \in Stuck : \A m \in Stuck : n <= m
    <3>1. Stuck \subseteq Nat  OBVIOUS
    <3> HIDE DEF Stuck
    <3> QED BY <3>1, Smallest
  <2>2. n \in Nat /\ ~ \E f : Unrolls(f, n)  BY <2>1
  <2>3. CASE n = 0
    <3>1. Unrolls([i \in 0..0 |-> 0], 0)  OBVIOUS
    <3> HIDE DEF Unrolls
    <3> QED BY <2>2, <2>3, <3>1
  <2>4. CASE n # 0
    <3>1. n - 1 \in Nat /\ n - 1 \notin Stuck
      <4> HIDE DEF Stuck
      <4>1. n - 1 \in Nat /\ ~(n <= n - 1)  BY <2>2, <2>4
      <4> QED BY <2>1, <4>1
    <3>2. PICK f : Unrolls(f, n - 1)  BY <3>1
    <3> DEFINE g == [i \in 0..n |-> IF i = n THEN Floored(f[n - 1] + w[n]) ELSE f[i]]
    <3>3. ASSUME NEW i \in 0..n PROVE g[i] = IF i = 0 THEN 0 ELSE Floored(g[i - 1] + w[i])
      <4>1. CASE i = n
        <5>1. g[n - 1] = f[n - 1]  BY <2>2, <2>4
        <5> QED BY <2>2, <2>4, <4>1, <5>1
      <4>2. CASE i # n
        <5>1. i \in 0..(n - 1)  BY <2>2, <4>2
        <5>2. f[i] = IF i = 0 THEN 0 ELSE Floored(f[i - 1] + w[i])  BY <3>2, <5>1
        <5>3. i # 0 => i - 1 \in 0..n /\ i - 1 # n  BY <2>2, <5>1
        <5> QED BY <4>2, <5>2, <5>3
      <4> QED BY <4>1, <4>2
    <3>4. Unrolls(g, n)  BY <3>3
    <3> HIDE DEF g, Unrolls
    <3> QED BY <2>2, <3>4
  <2> QED BY <2>3, <2>4
<1>2. \E f : Unrolls(f, Len(w))
  <2>1. Len(w) \notin Stuck  BY <1>1
  <2> QED BY <2>1
<1>3. Walk(w) = CHOOSE f : Unrolls(f, Len(w))  BY DEF Walk
<1>4. Unrolls(Walk(w), Len(w))
  <2> HIDE DEF Unrolls
  <2> QED BY <1>2, <1>3
<1> QED BY <1>4

LEMMA WalkNext ==
  ASSUME NEW w, Len(w) \in Nat
  PROVE  /\ Walk(w)[0] = 0
         /\ \A i \in 1..Len(w) :
              Walk(w)[i] = IF Walk(w)[i - 1] + w[i] > 0 THEN Walk(w)[i - 1] + w[i] ELSE 0
<1> DEFINE f == Walk(w)
<1>1. f = [i \in 0..Len(w) |->
             IF i = 0 THEN 0 ELSE IF f[i - 1] + w[i] > 0 THEN f[i - 1] + w[i] ELSE 0]
  BY WalkUnrolled
<1> HIDE DEF f
<1>2. \A i \in 0..Len(w) :
        f[i] = IF i = 0 THEN 0 ELSE IF f[i - 1] + w[i] > 0 THEN f[i - 1] + w[i] ELSE 0
  BY <1>1
<1> QED BY <1>2 DEF f

UpTo(T, i) == {j \in T : j <= i}

(* Those of a set up to a place, and one place further. *)
LEMMA OneFurther ==
  ASSUME NEW T, T \subseteq Nat, NEW i \in Nat \ {0}
  PROVE  /\ Cardinality(UpTo(T, i - 1)) \in Nat
         /\ Cardinality(UpTo(T, i)) = Cardinality(UpTo(T, i - 1)) + IF i \in T THEN 1 ELSE 0
<1>1. \A j \in T : j \in Nat  OBVIOUS
<1>2. IsFiniteSet(UpTo(T, i - 1)) /\ Cardinality(UpTo(T, i - 1)) \in Nat
  <2>1. UpTo(T, i - 1) \subseteq 0..(i - 1)
    <3> SUFFICES ASSUME NEW j \in UpTo(T, i - 1) PROVE j \in 0..(i - 1)  OBVIOUS
    <3>1. j \in Nat /\ j <= i - 1  BY <1>1 DEF UpTo
    <3> QED BY <3>1
  <2>2. IsFiniteSet(0..(i - 1))  BY FS_Interval
  <2> QED BY <2>1, <2>2, FS_Subset, FS_CardinalityType
<1>3. \A j \in T : j <= i <=> j = i \/ j <= i - 1  BY <1>1
<1>4. ~(i <= i - 1)  OBVIOUS
<1>5. CASE i \in T
  <2>1. UpTo(T, i) = UpTo(T, i - 1) \cup {i} /\ i \notin UpTo(T, i - 1)
    BY <1>3, <1>4, <1>5 DEF UpTo
  <2>2. Cardinality(UpTo(T, i)) = Cardinality(UpTo(T, i - 1)) + 1
    BY <1>2, <2>1, FS_AddElement
  <2> QED BY <1>2, <1>5, <2>2
<1>6. CASE i \notin T
  <2>1. UpTo(T, i) = UpTo(T, i - 1)  BY <1>3, <1>6 DEF UpTo
  <2> QED BY <1>2, <1>6, <2>1
<1> QED BY <1>5, <1>6

LEMMA NoneUpTo ==
  ASSUME NEW T, T \subseteq Nat, NEW i \in Nat, \A j \in T : i < j
  PROVE  Cardinality(UpTo(T, i)) = 0
<1>1. UpTo(T, i) = {}
  <2> SUFFICES ASSUME NEW j \in UpTo(T, i) PROVE FALSE  OBVIOUS
  <2>1. j \in T /\ j <= i  BY DEF UpTo
  <2>2. j \in Nat /\ i < j  BY <2>1
  <2> QED BY <2>1, <2>2
<1> QED BY <1>1, FS_EmptySet

(* A walk that climbs only at the places of T, by K at most, is no higher  *)
(* than K times as many of them as it has passed.                          *)
LEMMA WalkBelow ==
  ASSUME NEW w \in Seq(Int), NEW K \in Nat, NEW T, T \subseteq Nat \ {0},
         \A i \in 1..Len(w) : w[i] <= IF i \in T THEN K ELSE 0
  PROVE  \A i \in 0..Len(w) : /\ Walk(w)[i] \in Nat
                              /\ Walk(w)[i] <= K * Cardinality(UpTo(T, i))
<1> DEFINE f == Walk(w)
           Below(i) == f[i] \in Nat /\ f[i] <= K * Cardinality(UpTo(T, i))
           Bad == {i \in 0..Len(w) : ~ Below(i)}
<1>1. Len(w) \in Nat /\ \A i \in 1..Len(w) : w[i] \in Int  OBVIOUS
<1>2. f[0] = 0 /\ \A i \in 1..Len(w) : f[i] = IF f[i - 1] + w[i] > 0 THEN f[i - 1] + w[i] ELSE 0
  BY <1>1, WalkNext
<1> HIDE DEF f
<1> SUFFICES ASSUME Bad # {} PROVE FALSE  BY DEF f
<1>3. PICK i \in Bad : \A j \in Bad : i <= j
  <2>1. Bad \subseteq Nat  BY <1>1
  <2> HIDE DEF Bad
  <2> QED BY <2>1, Smallest
<1>4. CASE i = 0
  <2>1. T \subseteq Nat /\ \A j \in T : 0 < j
    <3>1. \A j \in T : j \in Nat \ {0}  OBVIOUS
    <3> QED BY <3>1
  <2>2. Cardinality(UpTo(T, 0)) = 0  BY <2>1, NoneUpTo
  <2>3. Below(0)  BY <1>2, <2>2
  <2> QED BY <1>3, <1>4, <2>3
<1>5. CASE i # 0
  <2>1. i \in 1..Len(w) /\ i \in Nat \ {0}  BY <1>1, <1>3, <1>5
  <2>2. Below(i - 1)
    <3> HIDE DEF Below
    <3>1. i - 1 \in 0..Len(w) /\ ~(i <= i - 1)  BY <1>1, <2>1
    <3> QED BY <1>3, <3>1
  <2> DEFINE c == Cardinality(UpTo(T, i - 1))  d == Cardinality(UpTo(T, i))
  <2>3. c \in Nat /\ d = c + IF i \in T THEN 1 ELSE 0
    <3>1. T \subseteq Nat  OBVIOUS
    <3> QED BY <2>1, <3>1, OneFurther
  <2>4. f[i - 1] \in Nat /\ f[i - 1] <= K * c  BY <2>2
  <2> HIDE DEF c, d
  <2>5. w[i] \in Int /\ w[i] <= IF i \in T THEN K ELSE 0  BY <1>1, <2>1
  <2>6. f[i] = IF f[i - 1] + w[i] > 0 THEN f[i - 1] + w[i] ELSE 0  BY <1>2, <2>1
  <2>7. K * c \in Nat /\ K * d \in Nat /\ K * d = K * c + IF i \in T THEN K ELSE 0
    <3>1. CASE i \in T
      <4>1. d = c + 1  BY <2>1, <2>3, <3>1
      <4>2. K * (c + 1) = K * c + K  BY <2>3
      <4>3. K * c \in Nat  BY <2>3
      <4> QED BY <3>1, <4>1, <4>2, <4>3
    <3>2. CASE i \notin T
      <4>1. d = c  BY <2>3, <3>2
      <4>2. K * c \in Nat  BY <2>3
      <4> QED BY <3>2, <4>1, <4>2
    <3> QED BY <3>1, <3>2
  <2> DEFINE x == K * c  y == K * d
  <2>8. x \in Nat /\ y \in Nat /\ y = x + (IF i \in T THEN K ELSE 0) /\ f[i - 1] <= x  BY <2>4, <2>7
  <2> HIDE DEF x, y
  <2>9. f[i] \in Nat /\ f[i] <= y  BY <2>4, <2>5, <2>6, <2>8
  <2>10. Below(i)  BY <2>9 DEF y, d
  <2> QED BY <1>3, <2>10
<1> QED BY <1>4, <1>5

(* A walk stays among the numbers. *)
LEMMA WalkTyped ==
  ASSUME NEW w \in Seq(Int)
  PROVE  \A i \in 0..Len(w) : Walk(w)[i] \in Nat
<1> DEFINE f == Walk(w)  N == {i \in 0..Len(w) : f[i] \notin Nat}
<1>1. Len(w) \in Nat /\ \A i \in 1..Len(w) : w[i] \in Int  OBVIOUS
<1>2. f[0] = 0 /\ \A i \in 1..Len(w) : f[i] = IF f[i - 1] + w[i] > 0 THEN f[i - 1] + w[i] ELSE 0
  BY <1>1, WalkNext
<1> HIDE DEF f
<1> SUFFICES ASSUME N # {} PROVE FALSE  BY DEF f
<1>3. PICK i \in N : /\ i \in 0..Len(w)
                     /\ i # 0 => i \in 1..Len(w) /\ i - 1 \in 0..Len(w) /\ i - 1 \notin N
  <2>1. N \subseteq 0..Len(w)  OBVIOUS
  <2> HIDE DEF N
  <2> QED BY <1>1, <2>1, FirstPlace
<1>4. f[i] \notin Nat /\ i # 0  BY <1>2, <1>3
<1>5. i \in 1..Len(w) /\ f[i - 1] \in Nat
  <2>1. i \in 1..Len(w) /\ i - 1 \in 0..Len(w) /\ i - 1 \notin N
    <3> HIDE DEF N
    <3> QED BY <1>3, <1>4
  <2> QED BY <2>1
<1> HIDE DEF N
<1>6. w[i] \in Int /\ f[i] = IF f[i - 1] + w[i] > 0 THEN f[i - 1] + w[i] ELSE 0
  BY <1>1, <1>2, <1>5
<1>7. f[i] \in Nat  BY <1>5, <1>6
<1> QED BY <1>4, <1>7

(* A walk that never falls from place k on and climbs by D at least at the *)
(* places of T is at least D times as high as many of them it has passed.  *)
LEMMA WalkAbove ==
  ASSUME NEW w \in Seq(Int), NEW D \in Nat, NEW k \in 1..Len(w), NEW T, T \subseteq Nat,
         \A j \in T : k <= j,
         \A i \in k..Len(w) : w[i] >= IF i \in T THEN D ELSE 0
  PROVE  \A i \in (k - 1)..Len(w) : Walk(w)[i] >= D * Cardinality(UpTo(T, i))
<1> DEFINE f == Walk(w)
           Above(i) == f[i] >= D * Cardinality(UpTo(T, i))
           Bad == {i \in (k - 1)..Len(w) : ~ Above(i)}
<1>1. Len(w) \in Nat /\ k \in Nat \ {0} /\ \A i \in 1..Len(w) : w[i] \in Int  OBVIOUS
<1>2. f[0] = 0 /\ \A i \in 1..Len(w) : f[i] = IF f[i - 1] + w[i] > 0 THEN f[i - 1] + w[i] ELSE 0
  BY <1>1, WalkNext
<1>3. \A i \in 0..Len(w) : f[i] \in Nat  BY WalkTyped
<1> HIDE DEF f
<1> SUFFICES ASSUME Bad # {} PROVE FALSE  BY DEF f
<1>4. PICK i \in Bad : \A j \in Bad : i <= j
  <2>1. Bad \subseteq Nat  BY <1>1
  <2> HIDE DEF Bad
  <2> QED BY <2>1, Smallest
<1>5. CASE i = k - 1
  <2>1. i \in Nat /\ \A j \in T : i < j
    <3>1. \A j \in T : j \in Nat  OBVIOUS
    <3> QED BY <1>1, <1>5, <3>1
  <2>2. Cardinality(UpTo(T, i)) = 0  BY <2>1, NoneUpTo
  <2>3. f[i] \in Nat  BY <1>1, <1>3, <1>5
  <2>4. Above(i)  BY <2>2, <2>3
  <2> QED BY <1>4, <2>4
<1>6. CASE i # k - 1
  <2>1. i \in k..Len(w) /\ i \in 1..Len(w) /\ i \in Nat \ {0}  BY <1>1, <1>4, <1>6
  <2>2. Above(i - 1)
    <3> HIDE DEF Above
    <3>1. i - 1 \in (k - 1)..Len(w) /\ ~(i <= i - 1)  BY <1>1, <2>1
    <3> QED BY <1>4, <3>1
  <2> DEFINE c == Cardinality(UpTo(T, i - 1))  d == Cardinality(UpTo(T, i))
  <2>3. c \in Nat /\ d = c + IF i \in T THEN 1 ELSE 0  BY <2>1, OneFurther
  <2>4. f[i - 1] >= D * c  BY <2>2
  <2> HIDE DEF c, d
  <2>5. f[i - 1] \in Nat /\ w[i] \in Int /\ w[i] >= IF i \in T THEN D ELSE 0
    <3>1. i - 1 \in 0..Len(w)  BY <1>1, <2>1
    <3> QED BY <1>1, <1>3, <2>1, <3>1
  <2>6. f[i] = IF f[i - 1] + w[i] > 0 THEN f[i - 1] + w[i] ELSE 0  BY <1>2, <2>1
  <2>7. D * c \in Nat /\ D * d \in Nat /\ D * d = D * c + IF i \in T THEN D ELSE 0
    <3>1. CASE i \in T
      <4>1. d = c + 1  BY <2>3, <3>1
      <4>2. D * (c + 1) = D * c + D  BY <2>3
      <4>3. D * c \in Nat  BY <2>3
      <4> QED BY <3>1, <4>1, <4>2, <4>3
    <3>2. CASE i \notin T
      <4>1. d = c  BY <2>3, <3>2
      <4>2. D * c \in Nat  BY <2>3
      <4> QED BY <3>2, <4>1, <4>2
    <3> QED BY <3>1, <3>2
  <2> DEFINE x == D * c  y == D * d
  <2>8. x \in Nat /\ y \in Nat /\ y = x + (IF i \in T THEN D ELSE 0) /\ f[i - 1] >= x  BY <2>4, <2>7
  <2> HIDE DEF x, y
  <2> DEFINE h == f[i - 1]  u == w[i]
  <2>9. f[i] >= y
    <3>1. h \in Nat /\ u \in Int /\ h >= x /\ f[i] = IF h + u > 0 THEN h + u ELSE 0
      BY <2>5, <2>6, <2>8
    <3>2. u >= (IF i \in T THEN D ELSE 0)  BY <2>5
    <3> HIDE DEF h, u
    <3>3. CASE i \in T
      <4>1. u >= D /\ y = x + D  BY <2>8, <3>2, <3>3
      <4> QED BY <2>8, <3>1, <4>1
    <3>4. CASE i \notin T
      <4>1. u >= 0 /\ y = x  BY <2>8, <3>2, <3>4
      <4> QED BY <2>8, <3>1, <4>1
    <3> QED BY <3>3, <3>4
  <2>10. Above(i)  BY <2>9 DEF y, d
  <2> QED BY <1>4, <2>10
<1> QED BY <1>5, <1>6

-----------------------------------------------------------------------------
(* Drift: the signals and the baseline.                                      *)

LEMMA SignalBounds ==
  ASSUME NEW e
  PROVE  /\ Signal(e) \in Nat /\ Signal(e) \in Int /\ Signal(e) <= 100
         /\ Classify(e) = "failed" => Signal(e) = 100
         /\ IsResult(e) /\ ~Troubled(e) => Signal(e) = 0
<1>1. UnknownWeight \in Nat /\ UnknownWeight <= 100  BY DetectorsAssumption
<1>2. Signal(e) \in {100, UnknownWeight, 0}  BY DEF Signal
<1>3. Signal(e) \in Nat /\ Signal(e) <= 100
  <2> DEFINE g == Signal(e)
  <2>1. g \in {100, UnknownWeight, 0}  BY <1>2
  <2> HIDE DEF g
  <2>2. g \in Nat /\ g <= 100  BY <1>1, <2>1
  <2> QED BY <2>2 DEF g
<1>4. Signal(e) \in Int
  <2>1. Nat \subseteq Int  OBVIOUS
  <2> QED BY <1>3, <2>1
<1> QED BY <1>3, <1>4 DEF Signal, Troubled

(* The results of a window are counted, their signals add up. *)
LEMMA SignalsCounted ==
  ASSUME NEW s \in Seq(Observed)
  PROVE  SignalSum(s) \in Nat /\ Count(s, IsResult) \in Nat
<1>1. DOMAIN s = 1..Len(s) /\ Len(s) \in Nat  OBVIOUS
<1> DEFINE v == Signals(s)
<1>2. v \in Seq(Nat) /\ Len(v) = Len(s)
  <2>1. v = [i \in 1..Len(s) |-> IF IsResult(s[i]) THEN Signal(s[i]) ELSE 0]  BY <1>1 DEF Signals
  <2>2. \A i \in 1..Len(s) : Signal(s[i]) \in Nat
    <3> SUFFICES ASSUME NEW i \in 1..Len(s) PROVE Signal(s[i]) \in Nat  OBVIOUS
    <3> QED BY SignalBounds, Zenon
  <2>3. v \in [1..Len(s) -> Nat]  BY <2>1, <2>2
  <2> HIDE DEF v
  <2> QED BY <1>1, <2>3
<1> HIDE DEF v
<1>3. Sums(v)[Len(s)] \in Nat
  <2>1. \A i \in 0..Len(v) : Sums(v)[i] \in Nat  BY <1>2, SumsTyped
  <2> QED BY <1>1, <1>2, <2>1
<1>4. Cardinality({i \in DOMAIN s : IsResult(s[i])}) \in Nat
  <2>1. {i \in DOMAIN s : IsResult(s[i])} \subseteq 1..Len(s)  BY <1>1
  <2>2. IsFiniteSet(1..Len(s))  BY <1>1, FS_Interval
  <2> QED BY <2>1, <2>2, FS_Subset, FS_CardinalityType
<1> QED BY <1>3, <1>4 DEF SignalSum, Count, v

(* The baseline is a fraction, at least half the prior. *)
LEMMA BaselineFraction ==
  ASSUME NEW reference \in Seq(Observed)
  PROVE  \E b \in Nat, n \in Nat \ {0} :
           BaselineFor(reference) = <<b, n>> /\ 2 * b >= Baseline * n
<1> DEFINE n == Count(reference, IsResult)  sum == SignalSum(reference)
<1>1. sum \in Nat /\ n \in Nat  BY SignalsCounted
<1>2. Baseline \in Nat /\ MinBaselineSamples \in Nat \ {0}  BY DetectorsAssumption
<1>3. BaselineFor(reference) = IF n < MinBaselineSamples THEN <<Baseline, 1>>
                               ELSE IF 2 * sum >= Baseline * n THEN <<sum, n>> ELSE <<Baseline, 2>>
  BY DEF BaselineFor
<1> HIDE DEF n, sum
<1>4. 2 * Baseline >= Baseline * 1 /\ 2 * Baseline >= Baseline * 2  BY <1>2
<1>5. CASE n < MinBaselineSamples  BY <1>2, <1>3, <1>4, <1>5
<1>6. CASE ~(n < MinBaselineSamples) /\ 2 * sum >= Baseline * n
  <2>1. n \in Nat \ {0}  BY <1>1, <1>2, <1>6
  <2> QED BY <1>1, <1>3, <1>6, <2>1
<1>7. CASE ~(n < MinBaselineSamples) /\ ~(2 * sum >= Baseline * n)
  BY <1>2, <1>3, <1>4, <1>7
<1> QED BY <1>5, <1>6, <1>7

(* What the statistic of an event is the end of. *)
LEMMA StatisticParts ==
  ASSUME TypeOK, NEW e \in Observed
  PROVE  LET seen == Append(Recent(events, DriftWindow), e) IN
         /\ seen \in Seq(Observed) /\ Len(seen) \in Nat \ {0} /\ seen[Len(seen)] = e
         /\ \E b \in Nat, n \in Nat \ {0} :
              /\ BaselineFor(Reference(events)) = <<b, n>> /\ 2 * b >= Baseline * n
              /\ Credits(seen, <<b, n>>) \in Seq(Int) /\ Len(Credits(seen, <<b, n>>)) = Len(seen)
              /\ \A i \in 1..Len(seen) :
                   Credits(seen, <<b, n>>)[i] = IF IsResult(seen[i])
                                                THEN n * (Signal(seen[i]) - Slack) - b ELSE 0
              /\ Statistic(e, events) = <<Walk(Credits(seen, <<b, n>>))[Len(seen)], n>>
<1> DEFINE seen == Append(Recent(events, DriftWindow), e)
<1>1. events \in Seq(Observed) /\ DriftWindow \in Nat \ {0}  BY DetectorsAssumption DEF TypeOK
<1>2. Recent(events, DriftWindow) \in Seq(Observed)  BY <1>1, RecentParts
<1>3. seen \in Seq(Observed) /\ Len(seen) \in Nat \ {0} /\ seen[Len(seen)] = e
  <2> DEFINE r == Recent(events, DriftWindow)
  <2>1. r \in Seq(Observed) /\ Len(r) \in Nat  BY <1>2
  <2> HIDE DEF r
  <2>2. Append(r, e) \in Seq(Observed) /\ Len(Append(r, e)) = Len(r) + 1 /\ Append(r, e)[Len(r) + 1] = e
    BY <2>1, AppendProperties
  <2>3. Len(Append(r, e)) \in Nat \ {0} /\ Append(r, e)[Len(Append(r, e))] = e  BY <2>1, <2>2
  <2> QED BY <2>2, <2>3 DEF r
<1>4. Reference(events) \in Seq(Observed)
  <2>1. CASE Len(events) > DriftWindow
    <3>1. 1 \in 1..(Len(events) + 1) /\ Len(events) - DriftWindow \in 0..Len(events)
      BY <1>1, <2>1
    <3>2. \A i \in 1..(Len(events) - DriftWindow) : events[i] \in Observed  BY <1>1, <3>1
    <3>3. SubSeq(events, 1, Len(events) - DriftWindow) \in Seq(Observed)
      BY <1>1, <3>1, <3>2, SubSeqProperties
    <3> QED BY <2>1, <3>3 DEF Reference, Earlier
  <2>2. CASE ~(Len(events) > DriftWindow)  BY <2>2 DEF Reference
  <2> QED BY <2>1, <2>2
<1>5. PICK b \in Nat, n \in Nat \ {0} :
        BaselineFor(Reference(events)) = <<b, n>> /\ 2 * b >= Baseline * n
  BY <1>4, BaselineFraction
<1> DEFINE w == Credits(seen, <<b, n>>)
<1> HIDE DEF seen
<1>6. w = [i \in 1..Len(seen) |-> IF IsResult(seen[i])
                                  THEN n * (Signal(seen[i]) - Slack) - b ELSE 0]
  <2>1. DOMAIN seen = 1..Len(seen)  BY <1>3
  <2> QED BY <2>1 DEF Credits
<1>7. \A i \in 1..Len(seen) : n * (Signal(seen[i]) - Slack) - b \in Int
  <2> SUFFICES ASSUME NEW i \in 1..Len(seen)
               PROVE  n * (Signal(seen[i]) - Slack) - b \in Int
    OBVIOUS
  <2> DEFINE g == Signal(seen[i])
  <2>1. g \in Int  BY SignalBounds, Zenon
  <2>2. Slack \in Int  BY DetectorsAssumption
  <2> HIDE DEF g
  <2>3. n * (g - Slack) \in Int  BY <2>1, <2>2
  <2>4. n * (g - Slack) - b \in Int  BY <2>3
  <2> QED BY <2>4 DEF g
<1>8. w \in Seq(Int) /\ Len(w) = Len(seen)
  <2> DEFINE credit(i) == IF IsResult(seen[i]) THEN n * (Signal(seen[i]) - Slack) - b ELSE 0
  <2>1. w \in [1..Len(seen) -> Int]
    <3>1. \A i \in 1..Len(seen) : credit(i) \in Int  BY <1>7
    <3>2. w = [i \in 1..Len(seen) |-> credit(i)]  BY <1>6
    <3> HIDE DEF credit, w
    <3> QED BY <3>1, <3>2
  <2> HIDE DEF w
  <2> QED BY <1>3, <2>1
<1>9. Statistic(e, events) = <<Walk(w)[Len(seen)], n>>
  BY <1>5 DEF Statistic, Cusum, seen
<1> HIDE DEF w
<1>10. \A i \in 1..Len(seen) :
         w[i] = IF IsResult(seen[i]) THEN n * (Signal(seen[i]) - Slack) - b ELSE 0
  BY <1>6
<1> QED BY <1>3, <1>5, <1>8, <1>9, <1>10 DEF w, seen

-----------------------------------------------------------------------------
(* Drift: the two theorems.                                                  *)

LEMMA Cancels ==
  ASSUME NEW n \in Nat \ {0}, NEW x \in Int, NEW y \in Int, n * x <= n * y
  PROVE  x <= y
<1> SUFFICES ASSUME y < x PROVE FALSE  OBVIOUS
<1>1. PICK d \in Nat \ {0} : x = y + d
  <2>1. x - y \in Nat \ {0} /\ x = y + (x - y)  OBVIOUS
  <2> QED BY <2>1
<1>2. n * x = n * y + n * d  BY <1>1
<1>3. n * d > 0 /\ n * d \in Nat /\ n * y \in Int  BY <1>1
<1> QED BY <1>2, <1>3

LEMMA Scales ==
  ASSUME NEW n \in Nat, NEW x \in Int, NEW y \in Int, x <= y
  PROVE  n * x <= n * y
<1>1. PICK d \in Nat : y = x + d
  <2>1. y - x \in Nat /\ y = x + (y - x)  OBVIOUS
  <2> QED BY <2>1
<1>2. n * y = n * x + n * d  BY <1>1
<1>3. n * d \in Nat /\ n * x \in Int  BY <1>1
<1> QED BY <1>2, <1>3

(* A statistic over the line has been carried there by troubled results. *)
LEMMA DriftIsCarried ==
  ASSUME TypeOK, NEW e \in Observed, Drifts(e, events)
  PROVE  2 * Threshold <= (200 - 2 * Slack - Baseline)
                          * Count(Append(Recent(events, DriftWindow), e), Troubled)
<1> DEFINE seen == Append(Recent(events, DriftWindow), e)
           T == {i \in DOMAIN seen : Troubled(seen[i])}
           c == Cardinality(T)
<1>1. seen \in Seq(Observed) /\ Len(seen) \in Nat \ {0}  BY StatisticParts
<1>2. PICK b \in Nat, n \in Nat \ {0} :
        /\ BaselineFor(Reference(events)) = <<b, n>> /\ 2 * b >= Baseline * n
        /\ Credits(seen, <<b, n>>) \in Seq(Int) /\ Len(Credits(seen, <<b, n>>)) = Len(seen)
        /\ \A i \in 1..Len(seen) :
             Credits(seen, <<b, n>>)[i] = IF IsResult(seen[i])
                                          THEN n * (Signal(seen[i]) - Slack) - b ELSE 0
        /\ Statistic(e, events) = <<Walk(Credits(seen, <<b, n>>))[Len(seen)], n>>
  BY StatisticParts
<1> DEFINE w == Credits(seen, <<b, n>>)  s == Walk(w)[Len(seen)]
           k == n * (100 - Slack) - b  K == IF k > 0 THEN k ELSE 0
           M == 200 - 2 * Slack - Baseline
<1>3. s >= Threshold * n  BY <1>2 DEF Drifts
<1>4. Count(seen, Troubled) = c  BY DEF Count
<1> HIDE DEF seen
<1>5. T \subseteq 1..Len(seen) /\ DOMAIN seen = 1..Len(seen)  BY <1>1
<1>6. T \subseteq Nat \ {0} /\ UpTo(T, Len(seen)) = T /\ c \in Nat
  <2>1. IsFiniteSet(1..Len(seen))  BY <1>1, FS_Interval
  <2>2. IsFiniteSet(T) /\ c \in Nat  BY <1>5, <2>1, FS_Subset, FS_CardinalityType
  <2>3. \A i \in 1..Len(seen) : i \in Nat \ {0} /\ i <= Len(seen)  BY <1>1
  <2> HIDE DEF T, c
  <2> QED BY <1>5, <2>2, <2>3 DEF UpTo
<1>7. /\ Slack \in Nat /\ Baseline \in Nat /\ Threshold \in Nat \ {0}
      /\ n \in Nat \ {0} /\ b \in Nat /\ 2 * b >= Baseline * n
  BY <1>2, DetectorsAssumption
<1>8. k \in Int /\ K \in Nat /\ k <= K /\ M \in Int  BY <1>7
<1> HIDE DEF K, M
<1>9. ASSUME NEW i \in 1..Len(seen) PROVE w[i] <= IF i \in T THEN K ELSE 0
  <2>1. w[i] = IF IsResult(seen[i]) THEN n * (Signal(seen[i]) - Slack) - b ELSE 0  BY <1>2
  <2> DEFINE g == Signal(seen[i])
  <2>2. g \in Nat /\ g <= 100  BY SignalBounds, Zenon
  <2> HIDE DEF g
  <2>3. CASE i \in T
    <3>1. n * (g - Slack) <= n * (100 - Slack)
      <4>1. g - Slack \in Int /\ 100 - Slack \in Int /\ g - Slack <= 100 - Slack
        BY <1>7, <2>2
      <4>2. n \in Nat  BY <1>7
      <4> QED BY <4>1, <4>2, Scales
    <3>2. IsResult(seen[i])  BY <2>3 DEF Troubled
    <3> DEFINE u == n * (g - Slack)  v == n * (100 - Slack)
    <3>3. u \in Int /\ v \in Int  BY <1>7, <2>2
    <3>4. w[i] = u - b /\ k = v - b /\ u <= v  BY <2>1, <3>1, <3>2 DEF g
    <3> HIDE DEF u, v, w, k
    <3>5. w[i] <= K  BY <1>7, <1>8, <3>3, <3>4
    <3> QED BY <2>3, <3>5
  <2>4. CASE i \notin T
    <3>1. ~Troubled(seen[i])  BY <1>5, <2>4
    <3>2. CASE IsResult(seen[i])
      <4>1. Signal(seen[i]) = 0  BY <3>1, <3>2, SignalBounds
      <4>2. w[i] = n * (0 - Slack) - b  BY <2>1, <3>2, <4>1
      <4>3. n * (0 - Slack) <= 0 /\ n * (0 - Slack) \in Int
        <5>1. n * (0 - Slack) = -(n * Slack) /\ n * Slack \in Nat  BY <1>7
        <5> QED BY <5>1
      <4>4. w[i] <= 0
        <5> DEFINE u == n * (0 - Slack)
        <5> HIDE DEF u, w
        <5> QED BY <1>7, <4>2, <4>3 DEF u
      <4> QED BY <2>4, <4>4
    <3>3. CASE ~IsResult(seen[i])  BY <2>1, <2>4, <3>3
    <3> QED BY <3>2, <3>3
  <2> QED BY <2>3, <2>4
<1>10. s \in Nat /\ s <= K * c
  <2>1. w \in Seq(Int) /\ Len(w) = Len(seen)  BY <1>2
  <2> HIDE DEF w, T
  <2>2. \A i \in 0..Len(w) : Walk(w)[i] \in Nat /\ Walk(w)[i] <= K * Cardinality(UpTo(T, i))
    BY <1>6, <1>8, <1>9, <2>1, WalkBelow
  <2>3. Len(seen) \in 0..Len(w)  BY <1>1, <2>1
  <2> QED BY <1>6, <2>2, <2>3
<1> HIDE DEF s, c
<1>11. K = k
  <2>1. Threshold * n > 0 /\ Threshold * n \in Nat  BY <1>7
  <2>2. K # 0
    <3> SUFFICES ASSUME K = 0 PROVE FALSE  OBVIOUS
    <3>1. K * c = 0  BY <1>6
    <3> QED BY <1>3, <1>10, <2>1, <3>1
  <2> QED BY <2>2 DEF K
<1>12. 2 * k <= n * M
  <2>1. n * M = n * (200 - 2 * Slack) - Baseline * n  BY <1>7 DEF M
  <2>2. 2 * k = n * (200 - 2 * Slack) - 2 * b
    <3>1. 2 * (n * (100 - Slack)) = n * (200 - 2 * Slack)  BY <1>7
    <3>2. n * (100 - Slack) \in Int  BY <1>7
    <3> QED BY <1>7, <3>1, <3>2
  <2>3. n * (200 - 2 * Slack) \in Int /\ Baseline * n \in Int  BY <1>7
  <2> QED BY <1>7, <2>1, <2>2, <2>3
<1> HIDE DEF k
<1>13. n * (2 * Threshold) <= n * (M * c)
  <2>1. 2 * (Threshold * n) <= 2 * (k * c)
    <3>1. Threshold * n \in Int /\ k * c \in Int  BY <1>6, <1>7, <1>8
    <3>2. Threshold * n <= k * c  BY <1>3, <1>10, <1>11, <3>1
    <3> QED BY <3>1, <3>2
  <2>2. c * (2 * k) <= c * (n * M)
    <3>1. 2 * k \in Int /\ n * M \in Int  BY <1>7, <1>8
    <3> HIDE DEF M
    <3> QED BY <1>6, <1>12, <3>1, Scales
  <2>3. c * (2 * k) = 2 * (k * c) /\ c * (n * M) = n * (M * c) /\ 2 * (Threshold * n) = n * (2 * Threshold)
    BY <1>6, <1>7, <1>8
  <2>4. 2 * (k * c) \in Int /\ n * (M * c) \in Int /\ n * (2 * Threshold) \in Int
    BY <1>6, <1>7, <1>8
  <2> QED BY <2>1, <2>2, <2>3, <2>4
<1>14. 2 * Threshold <= M * c
  <2>1. 2 * Threshold \in Int /\ M * c \in Int  BY <1>6, <1>7, <1>8
  <2> QED BY <1>7, <1>13, <2>1, Cancels
<1> QED BY <1>4, <1>14 DEF M, seen

(* An isolated failure never alarms: a drift verdict needs as many troubled results *)
(* in the monitoring window as carry the statistic over the line at the lowest      *)
(* baseline (CUSUMDriftDetector._statistic, _baseline_for), for any window, weight, *)
(* threshold and stream.                                                            *)
THEOREM DriftIsARun == Spec => DriftNeedsARun
<1> DEFINE Run ==
      Heard("drift") =>
        2 * Threshold <= (200 - 2 * Slack - Baseline)
                         * Count(Append(Recent(events, DriftWindow), Last(events')), Troubled)
<1>1. TypeOK /\ [Next]_vars => [Run]_vars
  <2>1. ASSUME TypeOK, NEW e \in Observed, Observe(e) PROVE Run
    <3>1. Last(events') = e /\ told' = RunDetectors(e, events)  BY <2>1, ObservedLast DEF Observe
    <3>2. DetectorOrder[6] = "drift"  BY DEF DetectorOrder
    <3>3. Heard("drift") => Hits(e, events)[6]  BY <3>1, <3>2, HeardHits DEF Heard
    <3>4. Heard("drift") => Drifts(e, events)  BY <3>3 DEF Hits
    <3> QED BY <2>1, <3>1, <3>4, DriftIsCarried
  <2> QED BY <2>1 DEF Next
<1>2. DriftNeedsARun <=> [][Run]_vars  BY DEF DriftNeedsARun
<1> QED BY <1>1, <1>2, DetectorTypes, PTL DEF Spec

(* A run of failures carries the statistic over the line at a baseline that is *)
(* no higher than the prior: no other result pulls it down in between.         *)
LEMMA RunDrifts ==
  ASSUME TypeOK, NEW e \in Observed,
         NEW base, base = BaselineFor(Reference(events)), base[1] <= Baseline * base[2],
         NEW seen, seen = Append(Recent(events, DriftWindow), e),
         NEW k \in 1..Len(seen),
         NEW run, run = {i \in k..Len(seen) : IsResult(seen[i])},
         Cardinality(run) * (100 - Slack - Baseline) >= Threshold,
         \A i \in run : Classify(seen[i]) = "failed"
  PROVE  Drifts(e, events)
<1>1. Len(seen) \in Nat \ {0}  BY StatisticParts
<1> DEFINE Parts(t, b, n) ==
      /\ BaselineFor(Reference(events)) = <<b, n>> /\ 2 * b >= Baseline * n
      /\ Credits(t, <<b, n>>) \in Seq(Int) /\ Len(Credits(t, <<b, n>>)) = Len(t)
      /\ \A i \in 1..Len(t) :
           Credits(t, <<b, n>>)[i] = IF IsResult(t[i]) THEN n * (Signal(t[i]) - Slack) - b ELSE 0
      /\ Statistic(e, events) = <<Walk(Credits(t, <<b, n>>))[Len(t)], n>>
<1>2. PICK b \in Nat, n \in Nat \ {0} : base = <<b, n>> /\ Parts(seen, b, n)
  <2> DEFINE t == Append(Recent(events, DriftWindow), e)
  <2>1. PICK b \in Nat, n \in Nat \ {0} : Parts(t, b, n)  BY StatisticParts
  <2>2. base = <<b, n>>  BY <2>1
  <2>3. t = seen  OBVIOUS
  <2> HIDE DEF t, Parts
  <2> QED BY <2>1, <2>2, <2>3
<1> DEFINE w == Credits(seen, <<b, n>>)  s == Walk(w)[Len(seen)]
           X == 100 - Slack - Baseline  D == n * X
           c == Cardinality(run)
<1>3. /\ Slack \in Nat /\ Baseline \in Nat /\ Threshold \in Nat \ {0}
      /\ n \in Nat \ {0} /\ n \in Nat /\ b \in Nat /\ b <= Baseline * n
  BY <1>2, DetectorsAssumption
<1>4. run \subseteq k..Len(seen) /\ k \in Nat \ {0} /\ Len(seen) \in Nat  BY <1>1
<1>5. /\ run \subseteq Nat /\ UpTo(run, Len(seen)) = run /\ c \in Nat
      /\ \A j \in run : k <= j
  <2>1. IsFiniteSet(k..Len(seen))  BY <1>4, FS_Interval
  <2>2. IsFiniteSet(run) /\ c \in Nat  BY <1>4, <2>1, FS_Subset, FS_CardinalityType
  <2>3. \A i \in k..Len(seen) : i \in Nat /\ i <= Len(seen) /\ k <= i  BY <1>4
  <2> HIDE DEF c
  <2> QED BY <1>4, <2>2, <2>3 DEF UpTo
<1>6. c * X >= Threshold /\ X \in Int
  <2>1. c * X >= Threshold  BY Zenon
  <2>2. X \in Int  BY <1>3
  <2> QED BY <2>1, <2>2
<1>7. D \in Nat
  <2> HIDE DEF X, c
  <2>1. X > 0
    <3> SUFFICES ASSUME X <= 0 PROVE FALSE  BY <1>6
    <3>1. c * X <= c * 0  BY <1>5, <1>6, Scales
    <3>2. c * 0 = 0 /\ c * X \in Int  BY <1>5, <1>6
    <3> QED BY <1>3, <1>6, <3>1, <3>2
  <2>2. X \in Nat  BY <1>6, <2>1
  <2> QED BY <1>3, <2>2
<1>8. ASSUME NEW i \in k..Len(seen) PROVE w[i] >= IF i \in run THEN D ELSE 0
  <2>1. i \in 1..Len(seen)  BY <1>4
  <2>2. w[i] = IF IsResult(seen[i]) THEN n * (Signal(seen[i]) - Slack) - b ELSE 0
    BY <1>2, <2>1
  <2>3. CASE i \in run
    <3>1. IsResult(seen[i]) /\ Classify(seen[i]) = "failed"  BY <2>3
    <3>2. Signal(seen[i]) = 100  BY <3>1, SignalBounds, Zenon
    <3>3. w[i] = n * (100 - Slack) - b  BY <2>2, <3>1, <3>2
    <3>4. D = n * (100 - Slack) - Baseline * n  BY <1>3
    <3> DEFINE u == n * (100 - Slack)  v == Baseline * n
    <3>5. u \in Int /\ v \in Int /\ b <= v  BY <1>3
    <3>6. w[i] = u - b /\ D = u - v  BY <3>3, <3>4
    <3> HIDE DEF u, v, w, D
    <3>7. w[i] >= D  BY <1>3, <3>5, <3>6
    <3> QED BY <2>3, <3>7
  <2>4. CASE i \notin run
    <3>1. ~IsResult(seen[i])  BY <2>4
    <3>2. w[i] = 0  BY <2>2, <3>1
    <3> HIDE DEF w
    <3> QED BY <2>4, <3>2
  <2> QED BY <2>3, <2>4
<1>9. s >= D * c
  <2>1. w \in Seq(Int) /\ Len(w) = Len(seen)  BY <1>2
  <2> HIDE DEF w, D
  <2>2. \A i \in (k - 1)..Len(w) : Walk(w)[i] >= D * Cardinality(UpTo(run, i))
    BY <1>5, <1>7, <1>8, <2>1, WalkAbove
  <2>3. Len(seen) \in (k - 1)..Len(w)  BY <1>4, <2>1
  <2> QED BY <1>5, <2>2, <2>3
<1>10. s \in Int
  <2>1. w \in Seq(Int) /\ Len(w) = Len(seen)  BY <1>2
  <2> HIDE DEF w
  <2>2. \A i \in 0..Len(w) : Walk(w)[i] \in Nat  BY <2>1, WalkTyped
  <2>3. Walk(w)[Len(seen)] \in Nat  BY <1>4, <2>1, <2>2
  <2> QED BY <2>3
<1> HIDE DEF s, c, X
<1>11. n * Threshold <= n * (c * X)
  <2> DEFINE y == c * X
  <2>1. y \in Int /\ Threshold \in Int /\ Threshold <= y  BY <1>3, <1>5, <1>6
  <2> HIDE DEF y
  <2>2. n * Threshold <= n * y  BY <1>3, <2>1, Scales
  <2> QED BY <2>2 DEF y
<1>12. n * (c * X) = D * c /\ n * Threshold = Threshold * n  BY <1>3, <1>5, <1>6
<1>13. s >= Threshold * n
  <2>1. D * c \in Int /\ Threshold * n \in Int  BY <1>3, <1>5, <1>7
  <2> HIDE DEF D
  <2> QED BY <1>9, <1>10, <1>11, <1>12, <2>1
<1>14. Statistic(e, events) = <<s, n>>  BY <1>2 DEF s
<1> DEFINE stat == Statistic(e, events)
<1> HIDE DEF stat
<1>15. stat[1] >= Threshold * stat[2]
  <2>1. stat = <<s, n>>  BY <1>14 DEF stat
  <2>2. stat[1] = s /\ stat[2] = n  BY <2>1
  <2> QED BY <1>13, <2>2
<1> QED BY <1>15 DEF Drifts, stat

(* A run of failures that carries the statistic over the line at the prior baseline *)
(* is answered at its last result, by the drift alarm or by a sharper detector, as  *)
(* long as what lies before the monitoring window was healthy                       *)
(* (CUSUMDriftDetector.evaluate), for any window, weight, threshold and stream.     *)
THEOREM FailureRunIsAnswered == Spec => FailureRunAlarms
<1> DEFINE Fails(seen, k) ==
             LET run == {i \in k..Len(seen) : IsResult(seen[i])} IN
             /\ Cardinality(run) * (100 - Slack - Baseline) >= Threshold
             /\ \A i \in run : Classify(seen[i]) = "failed"
           Runs(e) ==
             LET seen == Append(Recent(events, DriftWindow), e)
                 base == BaselineFor(Reference(events)) IN
             /\ IsResult(e) /\ base[1] <= Baseline * base[2]
             /\ \E k \in 1..Len(seen) : Fails(seen, k)
           Answered == Runs(Last(events')) => told' # None
<1>1. TypeOK /\ [Next]_vars => [Answered]_vars
  <2>1. ASSUME TypeOK, NEW e \in Observed, Observe(e), Runs(e) PROVE told' # None
    <3> DEFINE seen == Append(Recent(events, DriftWindow), e)
               base == BaselineFor(Reference(events))
    <3>1. base[1] <= Baseline * base[2] /\ \E k \in 1..Len(seen) : Fails(seen, k)
      <4> HIDE DEF Fails
      <4> QED BY <2>1, Zenon
    <3> HIDE DEF seen, base
    <3>2. PICK k \in 1..Len(seen) : Fails(seen, k)
      <4> HIDE DEF Fails
      <4> QED BY <3>1
    <3> DEFINE run == {i \in k..Len(seen) : IsResult(seen[i])}
    <3>3. /\ Cardinality(run) * (100 - Slack - Baseline) >= Threshold
          /\ \A i \in run : Classify(seen[i]) = "failed"
      BY <3>2, Zenon
    <3>4. /\ run = {i \in k..Len(seen) : IsResult(seen[i])}
          /\ seen = Append(Recent(events, DriftWindow), e)
          /\ base = BaselineFor(Reference(events))
      BY Zenon DEF seen, base
    <3> HIDE DEF run
    <3>5. Drifts(e, events)  BY <2>1, <3>1, <3>3, <3>4, RunDrifts
    <3>6. Hits(e, events)[6]  BY <3>5 DEF Hits
    <3>7. RunDetectors(e, events) \in ToSet(DetectorOrder) \X {"nudge", "block"}
      BY <3>6, HitIsHeard
    <3>8. told' = RunDetectors(e, events)  BY <2>1 DEF Observe
    <3> QED BY <3>7, <3>8, NoneIsNoVerdict, Zenon
  <2>2. ASSUME TypeOK, NEW e \in Observed, Observe(e) PROVE Last(events') = e
    BY <2>2, ObservedLast
  <2> HIDE DEF Runs
  <2> QED BY <2>1, <2>2 DEF Next
<1>2. FailureRunAlarms <=> [][Answered]_vars  BY DEF FailureRunAlarms
<1> QED BY <1>1, <1>2, DetectorTypes, PTL DEF Spec
=============================================================================
