--------------------------- MODULE MCHookAdapters ---------------------------
(***************************************************************************)
(* Two agents: the user of s1 has agreed to being stopped, the user of s2  *)
(* has not.  Each of the four clients is once the one and once the other.  *)
(* The daemon restarts only where s1 is alone.                             *)
(***************************************************************************)
EXTENDS HookAdapters, TLC

CONSTANTS s1, s2, MaxAdvised   \* bound: exchanges of s2

Pairs == {<<"claude", "codex">>, <<"codex", "plugin">>, <<"plugin", "poller">>,
          <<"poller", "claude">>}

InitMC == Init /\ \E p \in Pairs : host = s1 :> p[1] @@ s2 :> p[2]
Advised == {r \in Requests : home[r] = s2}
NextMC == Next /\ Cardinality(Advised') <= MaxAdvised /\ (Advised' # {} => restarts' = 0)
SpecMC == InitMC /\ [][NextMC]_vars
=============================================================================
