----------------------------- MODULE HouseRules -----------------------------
(***************************************************************************)
(* What the rulebook makes of its scorecards: which detectors' rules are   *)
(* promoted, in which order, and the header of house rules injected at the *)
(* start of a prompt within a token budget.  How the counts come about is  *)
(* module Rulebook.                                                        *)
(*                                                                         *)
(* Rates and scores are in units of 1/10000, rounded down; a text is its   *)
(* length in characters.                                                   *)
(***************************************************************************)
EXTENDS Integers, Sequences, FiniteSets

CONSTANTS
  Keys,               \* scorecards <<agent, detector>>
  AgentRank,          \* the order of the agents' names
  TextRank,           \* the order of the detectors' names
  TextLength,         \* per detector: characters of its headline
  TitleLength,        \* characters of HEADER_TITLE
  MinEvidence, MinAdherence,           \* the floors of rules()
  MinJudgeEvidence, MinConcordance, Shrinkage,
  MinLineTokens, MaxRules,
  Budgets,            \* header budgets explored
  Loaded,             \* scorecards the daemon may have loaded
  MaxLoaded,          \* the most nudges, and the most labels, on a loaded one
  MaxSamples, MaxLabels   \* bounds: samples and labels recorded

Cards == [nudges: Nat, adhered: Nat, inconclusive: Nat, agree: Nat, disagree: Nat]
AgentOf(k) == k[1]
DetectorOf(k) == k[2]

(* Names are ordered, and a card the daemon saved claims no more verdicts  *)
(* than nudges (RulebookTypes of RulebookProofs).                          *)
ASSUME HouseAssumption ==
  /\ IsFiniteSet(Keys)
  /\ \A k \in Keys : /\ TextRank[DetectorOf(k)] \in Nat /\ AgentRank[AgentOf(k)] \in Nat
                     /\ TextLength[DetectorOf(k)] \in Nat
  /\ \A k, l \in Keys :
       TextRank[DetectorOf(k)] = TextRank[DetectorOf(l)] => DetectorOf(k) = DetectorOf(l)
  /\ Loaded \subseteq Cards
  /\ \A s \in Loaded : /\ s.adhered + s.inconclusive <= s.nudges /\ s.nudges <= MaxLoaded
                       /\ s.agree + s.disagree <= MaxLoaded
  /\ Budgets \subseteq Nat
  /\ {TitleLength, MinLineTokens, MaxRules, MaxLoaded, MaxSamples, MaxLabels} \subseteq Nat
  /\ Shrinkage \in Nat \ {0}

VARIABLES
  stats,              \* per key: its RuleStat
  samples, labels     \* how many were recorded

vars == <<stats, samples, labels>>

Unit == 10000

(***************************************************************************)
(* RuleStat                                                                *)
(***************************************************************************)
Evidence(s) == s.nudges - s.inconclusive
JudgeEvidence(s) == s.agree + s.disagree
Rate(wins, n) == IF n = 0 THEN 0 ELSE (wins * Unit) \div n
AdherenceRate(s) == Rate(s.adhered, Evidence(s))
Concordance(s) == Rate(s.agree, JudgeEvidence(s))

MaxN == MaxLoaded + MaxSamples + MaxLabels
Root(x) == CHOOSE k \in 0..x : k * k <= x /\ x < (k + 1) * (k + 1)

(* The Wilson bound times n, with z = 1.96 and n in the denominator once:   *)
(* (wins + z2/2 - z * sqrt(wins * (n - wins) / n + z2 / 4)) / (n + z2).     *)
WilsonTable == [n \in 1..MaxN |-> [w \in 0..n |->
  LET spread == Root((100 * Unit * w * (n - w)) \div n + 960400)
      above  == Unit * w + 19208 - (196 * spread) \div 10 IN
  IF above <= 0 THEN 0 ELSE (above * 100) \div (100 * n + 384)]]
WilsonLowerBound(wins, n) == IF n <= 0 THEN 0 ELSE WilsonTable[n][wins]

(* The judge's share of a score, shrunk while it has said little. *)
Weight(j) == (j * Unit) \div (j + Shrinkage)

\* Mutation: the nudges that were not followed are scored.
IgnoredScore(s) == WilsonLowerBound(Evidence(s) - s.adhered, Evidence(s))
AdherenceScore(s) == WilsonLowerBound(s.adhered, Evidence(s))

\* Mutation: a disagreement weighs in without being told from an agreement.
JudgeScoreBlind(s) == WilsonLowerBound(JudgeEvidence(s), JudgeEvidence(s))
JudgeScore(s) == WilsonLowerBound(s.agree, JudgeEvidence(s))

Score(s) ==
  LET w == Weight(JudgeEvidence(s)) IN
  ((Unit - w) * AdherenceScore(s) + w * JudgeScore(s)) \div Unit

(***************************************************************************)
(* rules(): the floors, the veto, the best card per detector, best first   *)
(***************************************************************************)
Vetoed(s) == JudgeEvidence(s) >= MinJudgeEvidence /\ Concordance(s) < MinConcordance

Admissible(s) ==
  /\ Evidence(s) >= MinEvidence /\ AdherenceRate(s) >= MinAdherence
  /\ ~Vetoed(s)

Outranks(k, l) ==      \* of two cards of one detector
  LET a == Score(stats[k])  b == Score(stats[l]) IN
  a > b \/ (a = b /\ AgentRank[AgentOf(k)] > AgentRank[AgentOf(l)])

Promoted ==
  LET fit == {k \in Keys : Admissible(stats[k])} IN
  {k \in fit : \A l \in fit : DetectorOf(l) = DetectorOf(k) /\ l # k => Outranks(k, l)}

Before(k, l) ==        \* the sort key (-score, detector)
  LET a == Score(stats[k])  b == Score(stats[l]) IN
  a > b \/ (a = b /\ TextRank[DetectorOf(k)] < TextRank[DetectorOf(l)])

Place(k) == Cardinality({l \in Promoted : l = k \/ Before(l, k)})
Rules == [i \in 1..Cardinality(Promoted) |-> CHOOSE k \in Promoted : Place(k) = i]

(***************************************************************************)
(* render_header                                                           *)
(***************************************************************************)
(* A quarter of the length, rounded to nearest and a half to even. *)
Quarter(n) ==
  LET q == n \div 4 IN
  IF n % 4 = 3 \/ (n % 4 = 2 /\ q % 2 = 1) THEN q + 1 ELSE q
EstimateTokens(n) == IF n = 0 THEN 0 ELSE IF Quarter(n) < 1 THEN 1 ELSE Quarter(n)

(* Counts have at most seven digits. *)
Digits(n) == 1 + Cardinality({d \in 1..6 : 10 ^ d <= n})
LineLength(k) ==
  LET s == stats[k] IN
  28 + TextLength[DetectorOf(k)] + Digits(Evidence(s)) + Digits((AdherenceRate(s) + 50) \div 100)

\* Mutation: the title alone is taken off the budget, for every line.
LeftAfterTitle(budget, length) == budget - EstimateTokens(TitleLength)
Left(budget, length) == budget - EstimateTokens(length)

(* The block so far and whether the loop goes on; a line that is cut to    *)
(* what is left is as long as it may be.                                   *)
AddLine(h, k, budget) ==
  LET line == LineLength(k)
      left == Left(budget, h.length)
      With(n) == [h EXCEPT !.length = @ + 1 + n, !.rules = Append(@, k)] IN
  IF ~h.open THEN h
  ELSE IF EstimateTokens(line) <= left THEN With(line)
  ELSE IF left < MinLineTokens THEN [h EXCEPT !.open = FALSE]
  ELSE [With(4 * left) EXCEPT !.open = FALSE]

Title == [length |-> TitleLength, rules |-> <<>>, open |-> TRUE]
Blocks(rules, budget) ==
  LET h[i \in 0..Len(rules)] ==
        IF i = 0 THEN Title ELSE AddLine(h[i - 1], rules[i], budget) IN
  h

RenderHeader(budget) ==
  LET rules == Rules
      n == IF Len(rules) < MaxRules THEN Len(rules) ELSE MaxRules
      best == SubSeq(rules, 1, n) IN
  Blocks(best, budget)[n]

(***************************************************************************)
(* The two hooks of the engine                                             *)
(***************************************************************************)
\* Mutation: what a nudge came to is counted, the nudge is not.
RecordOutcomeOnly(k, outcome) ==
  /\ samples < MaxSamples
  /\ samples' = samples + 1
  /\ stats' = [stats EXCEPT ![k].inconclusive = @ + (IF outcome = "inconclusive" THEN 1 ELSE 0),
                           ![k].adhered = @ + (IF outcome = "adhered" THEN 1 ELSE 0)]
  /\ UNCHANGED labels

RecordOutcome(k, outcome) ==
  /\ samples < MaxSamples
  /\ samples' = samples + 1
  /\ stats' = [stats EXCEPT ![k].nudges = @ + 1,
                           ![k].inconclusive = @ + (IF outcome = "inconclusive" THEN 1 ELSE 0),
                           ![k].adhered = @ + (IF outcome = "adhered" THEN 1 ELSE 0)]
  /\ UNCHANGED labels

NoteJudgeFeedback(k, agreed) ==
  /\ labels < MaxLabels
  /\ labels' = labels + 1
  /\ stats' = IF agreed THEN [stats EXCEPT ![k].agree = @ + 1]
              ELSE [stats EXCEPT ![k].disagree = @ + 1]
  /\ UNCHANGED samples

Init ==
  /\ stats \in [Keys -> Loaded]
  /\ samples = 0 /\ labels = 0

Next == \E k \in Keys :
  \/ \E o \in {"adhered", "ignored", "inconclusive"} : RecordOutcome(k, o)
  \/ \E b \in BOOLEAN : NoteJudgeFeedback(k, b)

Spec == Init /\ [][Next]_vars
-----------------------------------------------------------------------------
(* Types; no more nudges followed than could be judged, scores in [0, 1]. *)
TypeOK ==
  /\ stats \in [Keys -> Cards]
  /\ \A k \in Keys : /\ stats[k].adhered + stats[k].inconclusive <= stats[k].nudges
                     /\ Score(stats[k]) \in 0..Unit
  /\ samples \in 0..MaxSamples /\ labels \in 0..MaxLabels

(* The header injected at the start of a prompt is at most one token over  *)
(* its budget, whatever rules compete for it (render_header).              *)
HeaderWithinBudget ==
  \A b \in Budgets :
    LET h == RenderHeader(b) IN
    h.rules # <<>> => EstimateTokens(h.length) <= b + 1

Changed(f) == {k \in Keys : stats'[k][f] # stats[k][f]}

(* A disagreement never raises the score of its rule, nor admits it. *)
DisagreementNeverHelps ==
  [][\A k \in Changed("disagree") :
       /\ Score(stats'[k]) <= Score(stats[k])
       /\ Admissible(stats'[k]) => Admissible(stats[k])]_vars

(* A nudge that was followed never lowers the score of its rule, nor takes *)
(* it out of the header's candidates.                                      *)
FollowingNeverHurts ==
  [][\A k \in Changed("adhered") :
       /\ Score(stats'[k]) >= Score(stats[k])
       /\ Admissible(stats[k]) => Admissible(stats'[k])]_vars
=============================================================================
