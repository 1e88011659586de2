--------------------------- MODULE MCPolicyEngine ---------------------------
(* Instances of PolicyEngine for TLC. *)
EXTENDS PolicyEngine, TLC

CONSTANTS s1, s2, claude, codex

\* One session of an agent.
OneSession == s1 :> claude
\* Two sessions: one of an agent that opted in to blocking, one that did not.
TwoSessions == s1 :> claude @@ s2 :> codex

Symmetry == Permutations(Requests)
=============================================================================
