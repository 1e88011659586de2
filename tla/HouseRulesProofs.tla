-------------------------- MODULE HouseRulesProofs --------------------------
(***************************************************************************)
(* Scores are proportions and the header keeps its budget, for any cards,  *)
(* names, texts, floors and budgets.                                       *)
(*                                                                         *)
(* The header is built by a recursion over the rules.  Instead of an       *)
(* induction the proofs take the least place at which something is wrong   *)
(* (LeastPlace) and look at the place before it.                           *)
(***************************************************************************)
EXTENDS HouseRules, FiniteSetTheorems, WellFoundedInduction, TLAPS

(* What is recorded on a card is bounded by what was loaded and recorded. *)
Counted(s) ==
  /\ s.adhered + s.inconclusive <= s.nudges
  /\ s.nudges <= MaxLoaded + samples /\ s.agree + s.disagree <= MaxLoaded + labels

IInv ==
  /\ stats \in [Keys -> Cards]
  /\ samples \in 0..MaxSamples /\ labels \in 0..MaxLabels
  /\ \A k \in Keys : Counted(stats[k])

-----------------------------------------------------------------------------
(* Arithmetic.                                                               *)

(* A set of numbers has a least one. *)
LEMMA LeastPlace ==
  ASSUME NEW S, S \subseteq Nat, S # {}
  PROVE  \E i \in S : \A j \in S : i <= j
<1> DEFINE Less == {ss \in Nat \X Nat : ss[1] < ss[2]}
<1>1. IsWellFoundedOn(Less, Nat)  BY NatLessThanWellFounded DEF OpToRel
<1>2. PICK i \in S : \A j \in S : <<j, i>> \notin Less  BY <1>1, WFMin
<1>3. ASSUME NEW j \in S PROVE i <= j
  <2>1. i \in Nat /\ j \in Nat /\ <<j, i>> \in Nat \X Nat  OBVIOUS
  <2>2. ~(j < i)  BY <1>2, <2>1
  <2> QED BY <2>1, <2>2
<1> QED BY <1>3

(* Multiplication keeps the order. *)
LEMMA Times ==
  ASSUME NEW a \in Nat, NEW b \in Nat, NEW c \in Nat, a <= b
  PROVE  a * c <= b * c /\ a * c \in Nat /\ b * c \in Nat
OBVIOUS

(* A quotient of numbers. *)
LEMMA Quotient ==
  ASSUME NEW a \in Nat, NEW d \in Nat \ {0}
  PROVE  /\ a \div d \in Nat
         /\ \A c \in Nat : a <= c * d => a \div d <= c
<1>1. a \div d \in Int /\ (a \div d) * d <= a /\ a < (a \div d + 1) * d
  OBVIOUS
<1> DEFINE q == a \div d
<1>2. q \in Int /\ q * d <= a /\ a < (q + 1) * d  BY <1>1
<1> HIDE DEF q
<1>3. q >= 0
  <2>1. CASE q < 0
    <3>1. 0 - (q + 1) \in Nat  BY <1>2, <2>1
    <3>2. (0 - (q + 1)) * d >= 0  BY <3>1
    <3> QED BY <1>2, <3>2
  <2> QED BY <1>2, <2>1
<1>4. ASSUME NEW c \in Nat, a <= c * d PROVE q <= c
  <2>1. CASE q >= c + 1
    <3>1. (c + 1) * d <= q * d  BY <1>2, <1>3, <2>1, Times
    <3>2. (c + 1) * d = c * d + d  OBVIOUS
    <3> QED BY <1>2, <1>4, <3>1, <3>2
  <2> QED BY <1>2, <2>1
<1> QED BY <1>2, <1>3, <1>4 DEF q

(* The integer square root exists. *)
LEMMA RootSquare ==
  ASSUME NEW x \in Nat
  PROVE  Root(x) \in 0..x /\ Root(x) * Root(x) <= x /\ x < (Root(x) + 1) * (Root(x) + 1)
<1> DEFINE Above == {k \in Nat : x < k * k}
<1>1. x + 1 \in Above
  <2>1. (x + 1) * (x + 1) = x * x + x + x + 1 /\ x * x \in Nat  OBVIOUS
  <2> QED BY <2>1
<1>2. PICK m \in Above : \A k \in Above : m <= k
  <2>1. Above \subseteq Nat /\ Above # {}  BY <1>1
  <2> HIDE DEF Above
  <2> QED BY <2>1, LeastPlace
<1>3. m \in Nat /\ x < m * m /\ m # 0  BY <1>2
<1> DEFINE k == m - 1
<1>4. k \in Nat /\ k + 1 = m  BY <1>3
<1>5. k * k <= x
  <2>1. k \notin Above  BY <1>2, <1>3, <1>4
  <2> QED BY <1>4, <2>1
<1>6. k <= x
  <2>1. CASE k = 0  BY <2>1
  <2>2. CASE k >= 1
    <3>1. 1 * k <= k * k  BY <1>4, <2>2, Times
    <3> QED BY <1>4, <1>5, <3>1
  <2> QED BY <1>4, <2>1, <2>2
<1>7. k \in 0..x /\ k * k <= x /\ x < (k + 1) * (k + 1)  BY <1>3, <1>4, <1>5, <1>6
<1> HIDE DEF k
<1> QED BY <1>7 DEF Root

-----------------------------------------------------------------------------
(* Scores.                                                                   *)

(* A proportion is estimated by a proportion. *)
LEMMA WilsonBound ==
  ASSUME NEW n \in Nat, n <= MaxN, NEW w \in 0..n
  PROVE  WilsonLowerBound(w, n) \in 0..Unit
<1>1. CASE n = 0  BY <1>1 DEF WilsonLowerBound, Unit
<1>2. CASE n # 0
  <2> DEFINE rest == (100 * Unit * w * (n - w)) \div n
             spread == Root(rest + 960400)
             above == Unit * w + 19208 - (196 * spread) \div 10
             value == IF above <= 0 THEN 0 ELSE (above * 100) \div (100 * n + 384)
  <2>1. WilsonLowerBound(w, n) = value
    <3>1. MaxN \in Nat  BY HouseAssumption DEF MaxN
    <3>2. n \in 1..MaxN /\ ~(n <= 0)  BY <1>2, <3>1
    <3> QED BY <3>2 DEF WilsonLowerBound, WilsonTable
  <2>2. rest \in Nat
    <3>1. n - w \in Nat /\ w \in Nat /\ n \in Nat \ {0}  BY <1>2
    <3>2. 100 * Unit * w \in Nat  BY <3>1 DEF Unit
    <3>3. 100 * Unit * w * (n - w) \in Nat  BY <3>1, <3>2
    <3> HIDE DEF Unit
    <3> QED BY <3>1, <3>3, Quotient
  <2> HIDE DEF rest
  <2>3. spread \in Nat /\ spread >= 980
    <3>1. rest + 960400 \in Nat  BY <2>2
    <3>2. spread \in Nat /\ rest + 960400 < (spread + 1) * (spread + 1)
      BY <3>1, RootSquare
    <3> HIDE DEF spread
    <3>3. CASE spread + 1 <= 980
      <4>1. (spread + 1) * (spread + 1) <= 980 * (spread + 1)  BY <3>2, <3>3, Times
      <4>2. 980 * (spread + 1) <= 960400  BY <3>2, <3>3
      <4>3. (spread + 1) * (spread + 1) \in Nat  BY <3>2
      <4> QED BY <2>2, <3>2, <4>1, <4>2, <4>3
    <3> QED BY <3>2, <3>3
  <2> HIDE DEF spread
  <2>4. (196 * spread) \div 10 \in Nat /\ (196 * spread) \div 10 >= 19208  BY <2>3
  <2>5. above \in Int /\ above <= Unit * n  BY <2>4 DEF Unit
  <2> HIDE DEF above
  <2>6. CASE above <= 0  BY <2>1, <2>6 DEF Unit
  <2>7. CASE above > 0
    <3>1. above * 100 \in Nat /\ 100 * n + 384 \in Nat \ {0} /\ Unit \in Nat
          /\ above * 100 <= Unit * (100 * n + 384)
      BY <2>5, <2>7 DEF Unit
    <3>2. (above * 100) \div (100 * n + 384) \in Nat
          /\ (above * 100) \div (100 * n + 384) <= Unit
      BY <3>1, Quotient
    <3> QED BY <2>1, <2>5, <2>7, <3>1, <3>2
  <2> QED BY <2>5, <2>6, <2>7
<1> QED BY <1>1, <1>2

(* The average of two proportions is one. *)
LEMMA Average ==
  ASSUME NEW w \in 0..Unit, NEW a \in 0..Unit, NEW b \in 0..Unit
  PROVE  ((Unit - w) * a + w * b) \div Unit \in 0..Unit
<1>1. Unit \in Nat \ {0}  BY DEF Unit
<1> HIDE DEF Unit
<1>2. w \in Nat /\ Unit - w \in Nat /\ a \in Nat /\ b \in Nat  BY <1>1
<1>3. a * (Unit - w) <= Unit * (Unit - w) /\ b * w <= Unit * w
      /\ a * (Unit - w) \in Nat /\ b * w \in Nat
  BY <1>1, <1>2, Times
<1>4. Unit * (Unit - w) + Unit * w = Unit * Unit  BY <1>1, <1>2
<1>5. (Unit - w) * a = a * (Unit - w) /\ w * b = b * w  BY <1>1, <1>2
<1>6. (Unit - w) * a + w * b \in Nat /\ (Unit - w) * a + w * b <= Unit * Unit
  <2>1. Unit * (Unit - w) \in Nat /\ Unit * w \in Nat /\ Unit * Unit \in Nat  BY <1>1, <1>2
  <2> QED BY <1>3, <1>4, <1>5, <2>1
<1> QED BY <1>1, <1>6, Quotient

LEMMA WeightBound ==
  ASSUME NEW j \in Nat
  PROVE  Weight(j) \in 0..Unit
<1>1. Shrinkage \in Nat \ {0} /\ Unit \in Nat  BY HouseAssumption DEF Unit
<1> HIDE DEF Unit
<1>2. j + Shrinkage \in Nat \ {0} /\ j * Unit \in Nat  BY <1>1
<1>3. j * Unit <= (j + Shrinkage) * Unit /\ (j + Shrinkage) * Unit = Unit * (j + Shrinkage)
  BY <1>1, <1>2, Times
<1> QED BY <1>1, <1>2, <1>3, Quotient DEF Weight

(* The score of a card that was not loaded beyond the bounds. *)
LEMMA ScoreBound ==
  ASSUME NEW s \in Cards, Counted(s), samples \in 0..MaxSamples, labels \in 0..MaxLabels
  PROVE  Score(s) \in 0..Unit
<1>1. MaxLoaded \in Nat /\ MaxSamples \in Nat /\ MaxLabels \in Nat  BY HouseAssumption
<1>2. s.nudges \in Nat /\ s.adhered \in Nat /\ s.inconclusive \in Nat /\ s.agree \in Nat
      /\ s.disagree \in Nat
  BY DEF Cards
<1>3. Evidence(s) \in Nat /\ Evidence(s) <= MaxN /\ s.adhered \in 0..Evidence(s)
  BY <1>1, <1>2 DEF Evidence, MaxN, Counted
<1>4. JudgeEvidence(s) \in Nat /\ JudgeEvidence(s) <= MaxN /\ s.agree \in 0..JudgeEvidence(s)
  BY <1>1, <1>2 DEF JudgeEvidence, MaxN, Counted
<1>5. AdherenceScore(s) \in 0..Unit  BY <1>3, WilsonBound DEF AdherenceScore
<1>6. JudgeScore(s) \in 0..Unit  BY <1>4, WilsonBound DEF JudgeScore
<1>7. Weight(JudgeEvidence(s)) \in 0..Unit  BY <1>4, WeightBound
<1> QED BY <1>5, <1>6, <1>7, Average DEF Score

-----------------------------------------------------------------------------
(* The counts.                                                               *)

LEMMA CountsInit == Init => IInv
BY HouseAssumption DEF Init, IInv, Counted

(* A recorded outcome is one nudge and at most one verdict about it. *)
LEMMA OutcomeCounts ==
  ASSUME IInv, NEW k \in Keys, NEW o \in {"adhered", "ignored", "inconclusive"},
         RecordOutcome(k, o)
  PROVE  IInv'
<1>1. PICK i \in 0..1, a \in 0..1 :
        /\ i + a <= 1
        /\ stats' = [stats EXCEPT ![k].nudges = @ + 1, ![k].inconclusive = @ + i,
                                  ![k].adhered = @ + a]
  <2> DEFINE i == IF o = "inconclusive" THEN 1 ELSE 0  a == IF o = "adhered" THEN 1 ELSE 0
  <2>1. i \in 0..1 /\ a \in 0..1 /\ i + a <= 1  OBVIOUS
  <2>2. stats' = [stats EXCEPT ![k].nudges = @ + 1, ![k].inconclusive = @ + i,
                              ![k].adhered = @ + a]
    BY DEF RecordOutcome
  <2> HIDE DEF i, a
  <2> QED BY <2>1, <2>2
<1>2. PICK s \in Cards : s = stats[k] /\ Counted(s)  BY DEF IInv
<1>3. /\ stats' \in [Keys -> Cards] /\ \A l \in Keys \ {k} : stats'[l] = stats[l]
      /\ stats'[k].nudges = s.nudges + 1 /\ stats'[k].inconclusive = s.inconclusive + i
      /\ stats'[k].adhered = s.adhered + a
      /\ stats'[k].agree = s.agree /\ stats'[k].disagree = s.disagree
  <2>1. stats \in [Keys -> Cards] /\ stats[k] = s /\ i \in Nat /\ a \in Nat  BY <1>2 DEF IInv
  <2>2. PICK f : f = [stats EXCEPT ![k].nudges = @ + 1]  OBVIOUS
  <2>3. f \in [Keys -> Cards] /\ f[k] = [s EXCEPT !.nudges = @ + 1]
        /\ \A l \in Keys \ {k} : f[l] = stats[l]
    BY <2>1, <2>2 DEF Cards
  <2>4. PICK g : g = [f EXCEPT ![k].inconclusive = @ + i]  OBVIOUS
  <2>5. PICK c \in Cards : c = f[k]  BY <2>3
  <2>6. [c EXCEPT !.inconclusive = @ + i] \in Cards  BY <2>1 DEF Cards
  <2>7. g = [f EXCEPT ![k] = [c EXCEPT !.inconclusive = @ + i]]  BY <2>4, <2>5
  <2>8. g \in [Keys -> Cards] /\ g[k] = [c EXCEPT !.inconclusive = @ + i]
        /\ \A l \in Keys \ {k} : g[l] = f[l]
    BY <2>3, <2>6, <2>7
  <2>9. PICK d \in Cards : d = g[k]  BY <2>8
  <2>10. [d EXCEPT !.adhered = @ + a] \in Cards  BY <2>1 DEF Cards
  <2>11. stats' = [g EXCEPT ![k] = [d EXCEPT !.adhered = @ + a]]  BY <1>1, <2>2, <2>4, <2>9
  <2>12. stats' \in [Keys -> Cards] /\ stats'[k] = [d EXCEPT !.adhered = @ + a]
        /\ \A l \in Keys \ {k} : stats'[l] = g[l]
    BY <2>8, <2>10, <2>11
  <2> QED BY <2>3, <2>5, <2>8, <2>9, <2>12 DEF Cards
<1>4. samples' = samples + 1 /\ labels' = labels /\ samples' \in 0..MaxSamples
  BY HouseAssumption DEF RecordOutcome, IInv
<1>5. Counted(stats[k])'
  BY <1>1, <1>2, <1>3, <1>4, HouseAssumption DEF Counted, Cards, IInv
<1>6. ASSUME NEW l \in Keys \ {k} PROVE Counted(stats[l])'
  <2>1. Counted(stats[l]) /\ stats[l] \in Cards  BY DEF IInv
  <2> QED BY <1>3, <1>4, <2>1, HouseAssumption DEF Counted, Cards, IInv
<1>7. \A l \in Keys : Counted(stats[l])'  BY <1>5, <1>6
<1> QED BY <1>3, <1>4, <1>7 DEF IInv

(* A label is an agreement or a disagreement. *)
LEMMA LabelCounts ==
  ASSUME IInv, NEW k \in Keys, NEW agreed \in BOOLEAN, NoteJudgeFeedback(k, agreed)
  PROVE  IInv'
<1>1. PICK s \in Cards : s = stats[k] /\ Counted(s)  BY DEF IInv
<1>2. /\ stats' \in [Keys -> Cards] /\ \A l \in Keys \ {k} : stats'[l] = stats[l]
      /\ stats'[k].nudges = s.nudges /\ stats'[k].inconclusive = s.inconclusive
      /\ stats'[k].adhered = s.adhered
      /\ stats'[k].agree + stats'[k].disagree = s.agree + s.disagree + 1
  <2>1. CASE agreed  BY <1>1, <2>1 DEF NoteJudgeFeedback, IInv, Cards
  <2>2. CASE ~agreed  BY <1>1, <2>2 DEF NoteJudgeFeedback, IInv, Cards
  <2> QED BY <2>1, <2>2
<1>3. labels' = labels + 1 /\ samples' = samples /\ labels' \in 0..MaxLabels
  BY HouseAssumption DEF NoteJudgeFeedback, IInv
<1>4. Counted(stats[k])'
  BY <1>1, <1>2, <1>3, HouseAssumption DEF Counted, Cards, IInv
<1>5. ASSUME NEW l \in Keys \ {k} PROVE Counted(stats[l])'
  <2>1. Counted(stats[l]) /\ stats[l] \in Cards  BY DEF IInv
  <2> QED BY <1>2, <1>3, <2>1, HouseAssumption DEF Counted, Cards, IInv
<1>6. \A l \in Keys : Counted(stats[l])'  BY <1>4, <1>5
<1> QED BY <1>2, <1>3, <1>6 DEF IInv

LEMMA CountsStep == IInv /\ [Next]_vars => IInv'
<1> SUFFICES ASSUME IInv, [Next]_vars PROVE IInv'  OBVIOUS
<1>1. CASE Next  BY <1>1, OutcomeCounts, LabelCounts DEF Next
<1>2. CASE UNCHANGED vars  BY <1>2 DEF vars, IInv, Counted
<1> QED BY <1>1, <1>2

(* Scorecards stay consistent and every score is in [0, 1] (RuleStat.record,    *)
(* record_judge, Rulebook._rule), for any loaded cards and any number of samples *)
(* and labels.                                                                  *)
THEOREM ScoresAreProportions == Spec => []TypeOK
<1>1. IInv => TypeOK  BY ScoreBound DEF IInv, TypeOK, Counted
<1> QED BY <1>1, CountsInit, CountsStep, PTL DEF Spec
-----------------------------------------------------------------------------
(* The rules in their order.                                                 *)

LEMMA PromotedFinite ==
  /\ Promoted \subseteq Keys /\ IsFiniteSet(Promoted)
  /\ Cardinality(Promoted) \in Nat
<1>1. Promoted \subseteq Keys  BY DEF Promoted
<1> QED BY <1>1, HouseAssumption, FS_Subset, FS_CardinalityType

(* Of every detector one card at most is promoted. *)
LEMMA OnePerDetector ==
  ASSUME IInv, NEW k \in Promoted, NEW l \in Promoted, DetectorOf(k) = DetectorOf(l)
  PROVE  k = l
<1>1. k \in Keys /\ l \in Keys  BY PromotedFinite
<1>2. Score(stats[k]) \in Int /\ Score(stats[l]) \in Int  BY <1>1, ScoreBound DEF IInv
<1>3. AgentRank[AgentOf(k)] \in Nat /\ AgentRank[AgentOf(l)] \in Nat  BY <1>1, HouseAssumption
<1>4. ~(Outranks(k, l) /\ Outranks(l, k))  BY <1>2, <1>3 DEF Outranks
<1>5. k # l => Outranks(k, l) /\ Outranks(l, k)  BY DEF Promoted
<1> QED BY <1>4, <1>5

(* The order of the header is a strict one and leaves no two rules level. *)
LEMMA BeforeOrders ==
  ASSUME IInv, NEW k \in Promoted, NEW l \in Promoted, NEW m \in Promoted
  PROVE  /\ ~ Before(k, k)
         /\ Before(k, l) /\ Before(l, m) => Before(k, m)
         /\ k # l => Before(k, l) \/ Before(l, k)
<1>1. k \in Keys /\ l \in Keys /\ m \in Keys  BY PromotedFinite
<1>2. \A j \in {k, l, m} : Score(stats[j]) \in Int /\ TextRank[DetectorOf(j)] \in Nat
  BY <1>1, ScoreBound, HouseAssumption DEF IInv
<1>3. k # l => TextRank[DetectorOf(k)] # TextRank[DetectorOf(l)]
  BY <1>1, OnePerDetector, HouseAssumption
<1> QED BY <1>2, <1>3 DEF Before

(* A later rule has a later place. *)
LEMMA PlaceGrows ==
  ASSUME IInv, NEW k \in Promoted, NEW l \in Promoted, Before(k, l)
  PROVE  Place(k) < Place(l)
<1> DEFINE upto == {j \in Promoted : j = k \/ Before(j, k)}
           more == {j \in Promoted : j = l \/ Before(j, l)}
<1>1. upto \subseteq more  BY BeforeOrders
<1>2. l \in more /\ l \notin upto
  <2>1. l # k /\ ~ Before(l, k)  BY BeforeOrders
  <2> QED BY <2>1
<1>3. upto \subseteq Promoted /\ more \subseteq Promoted  OBVIOUS
<1>4. Place(k) = Cardinality(upto) /\ Place(l) = Cardinality(more)  BY DEF Place
<1> HIDE DEF upto, more
<1>5. IsFiniteSet(upto) /\ IsFiniteSet(more)  BY <1>3, PromotedFinite, FS_Subset
<1>6. Cardinality(upto) <= Cardinality(more) /\ Cardinality(upto) # Cardinality(more)
  BY <1>1, <1>2, <1>5, FS_Subset
<1>7. Cardinality(upto) \in Nat /\ Cardinality(more) \in Nat  BY <1>5, FS_CardinalityType
<1> QED BY <1>4, <1>6, <1>7

(* The places number the rules, so the header is made of promoted cards. *)
LEMMA RulesPlaced ==
  ASSUME IInv
  PROVE  Rules \in Seq(Promoted)
<1> DEFINE n == Cardinality(Promoted)  g == [k \in Promoted |-> Place(k)]
<1>1. n \in Nat /\ IsFiniteSet(Promoted)  BY PromotedFinite
<1>2. ASSUME NEW k \in Promoted PROVE Place(k) \in 1..n
  <2> DEFINE upto == {l \in Promoted : l = k \/ Before(l, k)}
  <2>1. upto \subseteq Promoted /\ k \in upto /\ Place(k) = Cardinality(upto)  BY DEF Place
  <2> HIDE DEF upto
  <2>2. IsFiniteSet(upto) /\ Cardinality(upto) <= n /\ Cardinality(upto) \in Nat
    BY <1>1, <2>1, FS_Subset, FS_CardinalityType
  <2>3. Cardinality(upto) # 0  BY <2>1, <2>2, FS_EmptySet
  <2> QED BY <1>1, <2>1, <2>2, <2>3
<1>3. ASSUME NEW k \in Promoted, NEW l \in Promoted, Place(k) = Place(l) PROVE k = l
  <2>1. Place(k) \in Nat /\ Place(l) \in Nat  BY <1>1, <1>2
  <2>2. ~ Before(k, l) /\ ~ Before(l, k)  BY <1>3, <2>1, PlaceGrows
  <2> QED BY <2>2, BeforeOrders
<1>4. g \in Injection(Promoted, 1..n)  BY <1>2, <1>3 DEF Injection, IsInjective
<1>5. IsFiniteSet(1..n) /\ Cardinality(1..n) = n  BY <1>1, FS_Interval
<1>6. g \in Surjection(Promoted, 1..n)
  <2> HIDE DEF g
  <2> QED BY <1>4, <1>5, FS_Injection
<1>7. ASSUME NEW i \in 1..n PROVE \E k \in Promoted : Place(k) = i
  <2>1. \E k \in Promoted : g[k] = i  BY <1>6 DEF Surjection
  <2> QED BY <2>1
<1>8. \A i \in 1..n : (CHOOSE k \in Promoted : Place(k) = i) \in Promoted  BY <1>7
<1> QED BY <1>1, <1>8 DEF Rules

-----------------------------------------------------------------------------
(* The header.                                                               *)

Headers == [length: Nat, rules: Seq(Keys), open: BOOLEAN]
Fits(h, budget) == h.rules # <<>> => EstimateTokens(h.length) <= budget + 1

(* An estimate is at most half a token off, and never nothing for something. *)
LEMMA EstimateNear ==
  ASSUME NEW n \in Nat
  PROVE  /\ EstimateTokens(n) \in Nat /\ n <= 4 * EstimateTokens(n) + 2
         /\ EstimateTokens(n) <= 1 \/ 4 * EstimateTokens(n) <= n + 2
<1>1. n \div 4 \in Nat /\ n % 4 \in 0..3 /\ n = 4 * (n \div 4) + (n % 4)  OBVIOUS
<1>2. Quarter(n) \in Nat /\ n <= 4 * Quarter(n) + 2 /\ 4 * Quarter(n) <= n + 2
  BY <1>1 DEF Quarter
<1> QED BY <1>2 DEF EstimateTokens

LEMMA LineIsText ==
  ASSUME IInv, NEW k \in Keys
  PROVE  LineLength(k) \in Nat
<1>1. ASSUME NEW n PROVE Digits(n) \in Nat
  <2> DEFINE more == {d \in 1..6 : 10 ^ d <= n}
  <2>1. more \subseteq 1..6 /\ Digits(n) = 1 + Cardinality(more)  BY DEF Digits
  <2> HIDE DEF more
  <2>2. IsFiniteSet(1..6)
    <3>1. \A m \in Nat : IsFiniteSet(1..m)  BY FS_Interval
    <3> QED BY <3>1
  <2>3. Cardinality(more) \in Nat  BY <2>1, <2>2, FS_Subset, FS_CardinalityType
  <2> QED BY <2>1, <2>3
<1> QED BY <1>1, HouseAssumption DEF LineLength

(* One more line, whole or cut, leaves the header within its budget and a token. *)
LEMMA LineAdded ==
  ASSUME IInv, NEW budget \in Nat, NEW h \in Headers, Fits(h, budget), NEW k \in Keys
  PROVE  AddLine(h, k, budget) \in Headers /\ Fits(AddLine(h, k, budget), budget)
<1> DEFINE line == LineLength(k)
           left == Left(budget, h.length)
           With(n) == [h EXCEPT !.length = @ + 1 + n, !.rules = Append(@, k)]
<1>1. line \in Nat /\ h.length \in Nat /\ h.rules \in Seq(Keys) /\ MinLineTokens \in Nat
  BY LineIsText, HouseAssumption DEF Headers
<1>2. /\ EstimateTokens(h.length) \in Nat /\ h.length <= 4 * EstimateTokens(h.length) + 2
      /\ left = budget - EstimateTokens(h.length) /\ left \in Int
  <2>1. EstimateTokens(h.length) \in Nat /\ h.length <= 4 * EstimateTokens(h.length) + 2
    BY <1>1, EstimateNear
  <2>2. left = budget - EstimateTokens(h.length)  BY DEF Left
  <2> HIDE DEF left
  <2> QED BY <2>1, <2>2
<1> HIDE DEF left
<1>3. ASSUME NEW n \in Nat
      PROVE  /\ With(n) \in Headers /\ With(n).length = h.length + 1 + n
             /\ [With(n) EXCEPT !.open = FALSE] \in Headers
             /\ [With(n) EXCEPT !.open = FALSE].length = h.length + 1 + n
  <2>1. PICK q : q = Append(h.rules, k)  OBVIOUS
  <2>2. q \in Seq(Keys) /\ h.length + 1 + n \in Nat  BY <1>1, <2>1
  <2>3. With(n) = [h EXCEPT !.length = @ + 1 + n, !.rules = q]  BY <2>1
  <2>4. With(n) \in Headers /\ With(n).length = h.length + 1 + n
    BY <2>2, <2>3 DEF Headers
  <2> HIDE DEF With
  <2> QED BY <2>4 DEF Headers
<1>4. CASE ~ h.open  BY <1>4 DEF AddLine
<1>5. CASE h.open /\ EstimateTokens(line) <= left
  <2>1. AddLine(h, k, budget) = With(line)  BY <1>5 DEF AddLine, left
  <2>2. EstimateTokens(h.length + 1 + line) <= budget + 1
    <3>1. EstimateTokens(line) \in Nat /\ line <= 4 * EstimateTokens(line) + 2
      BY <1>1, EstimateNear
    <3>2. h.length + 1 + line \in Nat  BY <1>1
    <3> DEFINE e == EstimateTokens(h.length + 1 + line)
    <3>3. e \in Nat /\ (e <= 1 \/ 4 * e <= h.length + 1 + line + 2)  BY <3>2, EstimateNear
    <3> HIDE DEF e, line
    <3>4. PICK c \in Nat : c = EstimateTokens(h.length)  BY <1>2
    <3>5. PICK d \in Nat : d = EstimateTokens(line)  BY <3>1
    <3>6. /\ left = budget - c /\ d <= left /\ line <= 4 * d + 2 /\ h.length <= 4 * c + 2
          /\ h.length \in Nat /\ line \in Nat
      BY <1>1, <1>2, <1>5, <3>1, <3>4, <3>5
    <3>7. e <= budget + 1  BY <3>3, <3>6
    <3> QED BY <3>7 DEF e
  <2> QED BY <1>1, <1>3, <2>1, <2>2 DEF Fits
<1>6. CASE h.open /\ ~(EstimateTokens(line) <= left) /\ left < MinLineTokens
  <2>1. AddLine(h, k, budget) = [h EXCEPT !.open = FALSE]  BY <1>6 DEF AddLine, left
  <2> QED BY <2>1 DEF Headers, Fits
<1>7. CASE h.open /\ ~(EstimateTokens(line) <= left) /\ ~(left < MinLineTokens)
  <2>1. AddLine(h, k, budget) = [With(4 * left) EXCEPT !.open = FALSE]  BY <1>7 DEF AddLine, left
  <2>2. 4 * left \in Nat  BY <1>1, <1>2, <1>7
  <2>3. EstimateTokens(h.length + 1 + 4 * left) <= budget + 1
    <3>1. h.length + 1 + 4 * left \in Nat  BY <1>1, <2>2
    <3> DEFINE e == EstimateTokens(h.length + 1 + 4 * left)
    <3>2. e \in Nat /\ (e <= 1 \/ 4 * e <= h.length + 1 + 4 * left + 2)  BY <3>1, EstimateNear
    <3> HIDE DEF e
    <3>3. PICK c \in Nat : c = EstimateTokens(h.length)  BY <1>2
    <3>4. left = budget - c /\ h.length \in Nat /\ h.length <= 4 * c + 2 /\ left \in Int
      BY <1>1, <1>2, <3>3
    <3>5. e <= budget + 1  BY <3>2, <3>4
    <3> QED BY <3>5 DEF e
  <2> QED BY <1>3, <2>1, <2>2, <2>3 DEF Fits
<1> QED BY <1>4, <1>5, <1>6, <1>7

(* The recursion of the header is well-founded: there is a sequence of blocks. *)
LEMMA BlocksUnrolled ==
  ASSUME NEW rules, Len(rules) \in Nat, NEW budget
  PROVE  Blocks(rules, budget) =
           [i \in 0..Len(rules) |->
             IF i = 0 THEN Title ELSE AddLine(Blocks(rules, budget)[i - 1], rules[i], budget)]
<1> DEFINE Unrolls(h, n) == h = [i \in 0..n |-> IF i = 0 THEN Title
                                                ELSE AddLine(h[i - 1], rules[i], budget)]
           Stuck == {n \in Nat : ~ \E h : Unrolls(h, n)}
<1>1. Stuck = {}
  <2> SUFFICES ASSUME Stuck # {} PROVE FALSE  OBVIOUS
  <2>1. PICK n \in Stuck : \A m \in Stuck : n <= m
    <3>1. Stuck \subseteq Nat  OBVIOUS
    <3> HIDE DEF Stuck
    <3> QED BY <3>1, LeastPlace
  <2>2. n \in Nat /\ ~ \E h : Unrolls(h, n)  BY <2>1
  <2>3. CASE n = 0
    <3>1. Unrolls([i \in 0..0 |-> Title], 0)  OBVIOUS
    <3> HIDE DEF Unrolls
    <3> QED BY <2>2, <2>3, <3>1
  <2>4. CASE n # 0
    <3>1. n - 1 \in Nat /\ n - 1 \notin Stuck
      <4> HIDE DEF Stuck
      <4>1. n - 1 \in Nat /\ ~(n <= n - 1)  BY <2>2, <2>4
      <4> QED BY <2>1, <4>1
    <3>2. PICK h : Unrolls(h, n - 1)  BY <3>1
    <3> DEFINE g == [i \in 0..n |-> IF i = n THEN AddLine(h[n - 1], rules[n], budget) ELSE h[i]]
    <3>3. ASSUME NEW i \in 0..n
          PROVE  g[i] = IF i = 0 THEN Title ELSE AddLine(g[i - 1], rules[i], budget)
      <4>1. CASE i = n
        <5>1. g[n - 1] = h[n - 1]  BY <2>2, <2>4
        <5> QED BY <2>2, <2>4, <4>1, <5>1
      <4>2. CASE i # n
        <5>1. i \in 0..(n - 1)  BY <2>2, <4>2
        <5>2. h[i] = IF i = 0 THEN Title ELSE AddLine(h[i - 1], rules[i], budget)
          BY <3>2, <5>1
        <5>3. i # 0 => i - 1 \in 0..n /\ i - 1 # n  BY <2>2, <5>1
        <5> QED BY <4>2, <5>2, <5>3
      <4> QED BY <4>1, <4>2
    <3>4. Unrolls(g, n)  BY <3>3
    <3> HIDE DEF g, Unrolls
    <3> QED BY <2>2, <3>4
  <2> QED BY <2>3, <2>4
<1>2. \E h : Unrolls(h, Len(rules))
  <2>1. Len(rules) \notin Stuck  BY <1>1
  <2> QED BY <2>1
<1>3. Blocks(rules, budget) = CHOOSE h : Unrolls(h, Len(rules))  BY DEF Blocks
<1>4. Unrolls(Blocks(rules, budget), Len(rules))
  <2> HIDE DEF Unrolls
  <2> QED BY <1>2, <1>3
<1> QED BY <1>4

(* Every block fits. *)
LEMMA BlocksFit ==
  ASSUME IInv, NEW rules \in Seq(Keys), NEW budget \in Nat
  PROVE  \A i \in 0..Len(rules) : /\ Blocks(rules, budget)[i] \in Headers
                                  /\ Fits(Blocks(rules, budget)[i], budget)
<1> DEFINE h == Blocks(rules, budget)
           Good(i) == h[i] \in Headers /\ Fits(h[i], budget)
           Bad == {i \in 0..Len(rules) : ~ Good(i)}
<1>1. Len(rules) \in Nat /\ \A i \in 1..Len(rules) : rules[i] \in Keys  OBVIOUS
<1>2. \A i \in 0..Len(rules) : h[i] = IF i = 0 THEN Title ELSE AddLine(h[i - 1], rules[i], budget)
  <2>1. h = [i \in 0..Len(rules) |-> IF i = 0 THEN Title ELSE AddLine(h[i - 1], rules[i], budget)]
    BY <1>1, BlocksUnrolled
  <2> HIDE DEF h
  <2> QED BY <2>1
<1> HIDE DEF h
<1>3. Bad = {}
  <2> SUFFICES ASSUME Bad # {} PROVE FALSE  OBVIOUS
  <2>1. PICK i \in Bad : \A j \in Bad : i <= j
    <3>1. Bad \subseteq Nat  BY <1>1
    <3> HIDE DEF Bad
    <3> QED BY <3>1, LeastPlace
  <2>2. i \in 0..Len(rules) /\ ~ Good(i)  BY <2>1
  <2>3. CASE i = 0
    <3>1. h[0] = Title  BY <1>1, <1>2
    <3>2. Title \in Headers /\ Title.rules = <<>>  BY HouseAssumption DEF Title, Headers
    <3> QED BY <2>2, <2>3, <3>1, <3>2 DEF Fits
  <2>4. CASE i # 0
    <3>1. i - 1 \in 0..Len(rules) /\ i \in 1..Len(rules) /\ ~(i <= i - 1)  BY <1>1, <2>2, <2>4
    <3>2. Good(i - 1)  BY <2>1, <3>1
    <3>3. h[i] = AddLine(h[i - 1], rules[i], budget)  BY <1>2, <2>2, <2>4
    <3> QED BY <1>1, <2>2, <3>1, <3>2, <3>3, LineAdded
  <2> QED BY <2>3, <2>4
<1> QED BY <1>3 DEF h

(* The house rules cost at most one token more than their budget (render_header), *)
(* whatever cards compete, however long the texts and whatever the budget.        *)
THEOREM HeaderFits == Spec => []HeaderWithinBudget
<1>1. IInv => HeaderWithinBudget
  <2> SUFFICES ASSUME IInv, NEW b \in Budgets
               PROVE  Fits(RenderHeader(b), b)
    BY DEF HeaderWithinBudget, Fits
  <2> DEFINE n == IF Len(Rules) < MaxRules THEN Len(Rules) ELSE MaxRules
             best == SubSeq(Rules, 1, n)
  <2>1. b \in Nat /\ MaxRules \in Nat  BY HouseAssumption
  <2>2. Rules \in Seq(Keys)  BY RulesPlaced, PromotedFinite
  <2>3. n \in 0..Len(Rules) /\ Len(Rules) \in Nat  BY <2>1, <2>2
  <2>4. best \in Seq(Keys) /\ Len(best) = n
    <3> HIDE DEF n
    <3> QED BY <2>2, <2>3
  <2>5. n \in 0..Len(best)  BY <2>3, <2>4
  <2>6. RenderHeader(b) = Blocks(best, b)[n]  BY DEF RenderHeader
  <2> HIDE DEF n, best
  <2> QED BY <2>1, <2>4, <2>5, <2>6, BlocksFit
<1> QED BY <1>1, CountsInit, CountsStep, PTL DEF Spec
=============================================================================
