---------------------------- MODULE MCHouseRules ----------------------------
(* Two agents, three detectors with the lengths of their headlines. *)
EXTENDS HouseRules

ThreeCards == {<<"claude", "loop">>, <<"codex", "loop">>, <<"codex", "regression">>}
Agents == [claude |-> 1, codex |-> 2]
Detectors == [loop |-> 1, regression |-> 2]
Lengths == [loop |-> 68, regression |-> 74]

Card(n, a, i, g, d) == [nudges |-> n, adhered |-> a, inconclusive |-> i, agree |-> g, disagree |-> d]
SomeCards == {Card(0, 0, 0, 0, 0), Card(4, 3, 1, 0, 0), Card(12, 9, 0, 2, 2)}
=============================================================================
