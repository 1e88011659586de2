----------------------------- MODULE MCDetectors -----------------------------
(***************************************************************************)
(* Windows of six events over three tools: a shell, a test runner, an     *)
(* editor with one denied file and one whose sibling is inspected.         *)
(***************************************************************************)
EXTENDS Detectors

CONSTANTS shell, tests, edit

NoResult == [failureHook |-> FALSE, flag |-> None, raw |-> <<>>, meta |-> <<>>,
             stated |-> None, text |-> "clean"]

Event(kind, tool, input, result, shows, chars, gap) ==
  [kind |-> kind, tool |-> tool, input |-> input, result |-> result,
   shows |-> shows, chars |-> chars, gap |-> gap]

Call(tool, input) == Event("tool_call", tool, input, NoResult, {}, 0, 30)
Result(tool, input, result) == Event("tool_result", tool, input, result, {}, 0, 0)
Thought(chars, gap) == Event("reasoning", None, "none", NoResult, {}, chars, gap)

Stream == {
  Call(edit, "secrets"),
  Call(edit, "sibling"),
  Result(shell, "config", [NoResult EXCEPT !.text = "empty"]),
  Result(tests, "all", [NoResult EXCEPT !.raw = <<None, 1>>]),
  Result(tests, "all", [NoResult EXCEPT !.meta = <<0>>, !.text = "error"]),
  Thought(100, 30),
  Thought(5000, 60),
  Event("iteration_end", None, "none", NoResult, {}, 0, 0)}

Tokens == [i \in {"none", "secrets", "sibling", "config", "all"} |->
  CASE i = "none" -> {} [] i = "secrets" -> {"path", ".env"}
    [] i = "sibling" -> {"path", "config.py.bak"} [] i = "config" -> {"path", "config.py"}
    [] OTHER -> {"all"}]
Paths == [i \in DOMAIN Tokens |->
  CASE i = "secrets" -> ".env" [] i = "sibling" -> "config.py.bak"
    [] i = "config" -> "config.py" [] OTHER -> None]
Similar == {<<"config.py", "config.py.bak">>, <<"config.py.bak", "config.py">>}
=============================================================================
