----------------------------- MODULE MCRulebook -----------------------------
(* Instances of Rulebook for TLC. *)
EXTENDS Rulebook, TLC

CONSTANTS s1, claude, run, run2, edit

OneSession == s1 :> claude

\* Three calls: a shell command, a near-identical one, an edit of a path.
Tools == run :> "shell" @@ run2 :> "shell" @@ edit :> "write"
Paths == run :> "none" @@ run2 :> "none" @@ edit :> "main"
Jaccard == {<<run, run2>>, <<run2, run>>}

\* A detector that asks for a change, and one that asks to leave a path alone.
TwoFamilies == "loop" :> "change" @@ "offspec" :> "stop"
\* What the ledger is made of: calls, a result, nudges (and the STOPs).
Rec(type, what, call) == [type |-> type, what |-> what, call |-> call]
Alphabet ==
  {Rec("event", "tool_result", run)}
    \cup {Rec("event", "tool_call", c) : c \in Calls}
    \cup {Rec("nudge", d, NoCall) : d \in Detectors}
=============================================================================
