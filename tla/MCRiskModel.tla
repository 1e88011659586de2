---------------------------- MODULE MCRiskModel -----------------------------
(* Instances of RiskModel for TLC. *)
EXTENDS RiskModel, TLC

\* Scores at a grid point whose sum overshoots, in the middle and over the top;
\* a clean label of each, a drifting one in the middle.
SomeScores == {600, 6000, 12000}
SomeLabels == {<<600, FALSE>>, <<6000, FALSE>>, <<12000, FALSE>>, <<6000, TRUE>>}
Swaps == Permutations(Threads)
=============================================================================
