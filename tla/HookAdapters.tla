----------------------------- MODULE HookAdapters -----------------------------
(***************************************************************************)
(* The clients of the daemon and what of a verdict they put before their   *)
(* agent: the hook shells of Claude Code and Codex, the QwenPaw plugin     *)
(* (middleware and stop gate) and the QwenPaw REST poller.  The daemon is  *)
(* the VerdictDelivery promise, which PolicyEngine implements; here its    *)
(* steps meet clients that give up, answers that come late, and restarts.  *)
(*                                                                         *)
(* A request is one HTTP exchange.  Wording is abstracted to one bit: a    *)
(* nudge of the judge may come without guidance.  The host's handling of   *)
(* what a client returns is external.                                      *)
(***************************************************************************)
EXTENDS Naturals, FiniteSets

CONSTANTS
  Requests,         \* numbers, given to exchanges in the order they are begun
  Sessions,
  MayStop,          \* sessions of agents that opted in to being stopped
  None,             \* an empty slot, nothing told
  Events,           \* the host events explored (a subset of EventsOf)
  Actions,          \* the interventions explored
  MaxWaiting,       \* bound: hooks of one session that run at the same time
  MaxRestarts       \* bound: restarts of the daemon

ASSUME RequestsAssumption ==
  /\ Requests \subseteq Nat /\ MaxRestarts \in Nat
  /\ None \notin [action: {"nudge", "block", "escalate"}, by: Requests] /\ "none" \notin Sessions

VARIABLES
  home, decided, slot, told,     \* the daemon, see VerdictDelivery
  host,                          \* the harness of a session
  call,                          \* per request: event, client side, daemon side
  gate,                          \* per session: SupervisorGate.check in progress
  output,                        \* what a client handed to its host
  gaveUp,                        \* requests whose client timed out or got an error
  wordless,                      \* requests whose nudge has no guidance
  replaced,                      \* verdicts pushed out of a slot, or forgotten
  restarts

Daemon == INSTANCE VerdictDelivery

daemonVars == <<home, decided, slot, told>>
clientVars == <<host, gate, output, gaveUp>>
vars == <<daemonVars, clientVars, call, wordless, replaced, restarts>>

Hosts   == {"claude", "codex", "plugin", "poller"}
Outputs == {"nothing", "context", "continue", "stop", "approve", "deny"}

(***************************************************************************)
(* The events of a host, and what each becomes on the wire.  The end of an *)
(* iteration with tool calls sends nothing: the runner could not inject.   *)
(***************************************************************************)
EventsOf(h) ==
  CASE h = "claude" -> {"PreToolUse", "PostToolUse", "PostToolUseFailure", "Stop",
                        "UserPromptSubmit"}
    [] h = "codex"  -> {"PreToolUse", "PostToolUse", "Stop", "UserPromptSubmit"}
    [] h = "plugin" -> {"reasoning", "acting", "text_end", "tools_end"}
    [] OTHER        -> {"live_call", "approval"}

HookKind(e) ==
  CASE e = "PreToolUse"                             -> "tool_call"
    [] e \in {"PostToolUse", "PostToolUseFailure"}  -> "tool_result"
    [] e = "Stop"                                   -> "iteration_end"
    [] e = "UserPromptSubmit"                       -> "prompt_submit"
    [] OTHER                                        -> "notification"

CodexKind(e) == IF e = "PostToolUseFailure" THEN "notification" ELSE HookKind(e)

PluginKind(e) ==
  CASE e = "acting"   -> "tool_call"
    [] e \in {"text_end", "tools_end"} -> "pending"   \* GET /pending; then gate_end
    [] e = "gate_end" -> "iteration_end"
    [] OTHER          -> e

Kind(h, e) ==
  CASE h = "claude" -> HookKind(e)
    [] h = "codex"  -> CodexKind(e)
    [] h = "plugin" -> PluginKind(e)
    [] OTHER        -> "tool_call"

\* Mutation: the gate drains the slot at every boundary.
GateSendsAlways == {"text_end", "tools_end"}

GateSends == {"text_end"}

Sends(h, e) == h = "plugin" => e \in {"reasoning", "acting"} \cup GateSends

(***************************************************************************)
(* _response, SupervisorGate.check and the poller: what the host is handed *)
(* for a verdict v (None: no answer, or nothing to say).                   *)
(***************************************************************************)
Worded(v) == v.action = "nudge" /\ v.by \notin wordless

ClaudeOutput(e, v) ==
  CASE Worded(v)                    -> "context"
    [] v.action \in Daemon!Stopping -> "stop"
    [] OTHER                        -> "nothing"

CodexOutput(e, v) ==
  IF Worded(v) /\ e \notin {"PreToolUse", "PostToolUse", "UserPromptSubmit"}
  THEN "nothing" ELSE ClaudeOutput(e, v)

\* Mutation: the middleware hands on guidance as the hooks do.
PluginOutputEager(e, v) ==
  CASE Worded(v) /\ e # "tools_end"                            -> "continue"
    [] v.action \in Daemon!Stopping                            -> "stop"
    [] OTHER                                                   -> "nothing"

(* The middleware drops what it is answered, the gate speaks; the runner   *)
(* ignores a continuation at the end of an iteration with tool calls.      *)
PluginOutput(e, v) ==
  CASE e \in {"text_end", "gate_end"} /\ Worded(v)             -> "continue"
    [] e \notin {"reasoning", "acting"} /\ v.action \in Daemon!Stopping -> "stop"
    [] OTHER                                                   -> "nothing"

PollerOutput(e, v) ==
  CASE v.action = "block"              -> "deny"
    [] Worded(v) /\ e = "approval"     -> "approve"
    [] OTHER                           -> "nothing"

Output(h, e, v) ==
  IF v = None THEN "nothing"
  ELSE CASE h = "claude" -> ClaudeOutput(e, v)
         [] h = "codex"  -> CodexOutput(e, v)
         [] h = "plugin" -> PluginOutput(e, v)
         [] OTHER        -> PollerOutput(e, v)

(***************************************************************************)
(* Clients                                                                 *)
(***************************************************************************)
Idle == [event |-> "none", client |-> "idle", server |-> "none"]
Waiting(s) == {r \in Requests : home[r] = s /\ call[r].client = "waiting"}
Open(r, s, e) ==
  /\ Cardinality(Waiting(s)) < MaxWaiting
  /\ \A q \in Requests : q < r => call[q].client # "idle"
  /\ Daemon!Open(r, s)
  /\ call' = [call EXCEPT ![r] = [event |-> e, client |-> "waiting", server |-> "sent"]]

(* A hook process starts, the middleware posts, the poller polls, or the   *)
(* gate asks for the parked verdict.                                       *)
Send(r, s, e) ==
  /\ e \in EventsOf(host[s]) \cap Events
  /\ Sends(host[s], e)
  /\ e \in GateSends => gate[s] = "idle"
  /\ Open(r, s, e)
  /\ gate' = IF e \in GateSends THEN [gate EXCEPT ![s] = "asking"] ELSE gate
  /\ UNCHANGED <<host, output, gaveUp, wordless, replaced, restarts>>

(* Nothing was parked, or the answer never came: the gate posts the end of *)
(* the iteration.                                                          *)
GatePost(r, s) ==
  /\ gate[s] = "posting"
  /\ Open(r, s, "gate_end")
  /\ gate' = [gate EXCEPT ![s] = "deciding"]
  /\ UNCHANGED <<host, output, gaveUp, wordless, replaced, restarts>>

GateAfter(r, v) ==
  CASE call[r].event \in GateSends -> [gate EXCEPT ![home[r]] = IF v = None THEN "posting" ELSE "idle"]
    [] call[r].event = "gate_end"  -> [gate EXCEPT ![home[r]] = "idle"]
    [] OTHER                       -> gate

(* The client returns to its host with what verdict v makes of it. *)
Return(r, v) ==
  /\ call[r].client = "waiting"
  /\ call' = [call EXCEPT ![r].client = "returned"]
  /\ output' = [output EXCEPT ![r] = Output(host[home[r]], call[r].event, v)]
  /\ gate' = GateAfter(r, v)
  /\ UNCHANGED <<daemonVars, host, wordless, replaced, restarts>>

Receive(r) ==
  /\ call[r].server = "answered"
  /\ Return(r, told[r])
  /\ UNCHANGED gaveUp

(* Five seconds (two for a GET) are over, the connection is refused or     *)
(* reset, or the answer is lost: post and get return None.  The daemon     *)
(* goes on with a request it has.                                          *)
GiveUp(r) ==
  /\ Return(r, None)
  /\ gaveUp' = gaveUp \cup {r}

(***************************************************************************)
(* The daemon: the gate of process takes the parked verdict, else the      *)
(* request is decided, silently or with an intervention that is audited,   *)
(* then parked and told.                                                   *)
(***************************************************************************)
Gates == {"iteration_end", "prompt_submit"}
KindOf(r) == Kind(host[home[r]], call[r].event)
Served(r) == call' = [call EXCEPT ![r].server = "answered"]

\* Mutation: one slot for all sessions, whoever comes first takes what is in it.
CollectAny(r) ==
  /\ call[r].server = "sent" /\ KindOf(r) \in Gates \cup {"pending"}
  /\ \E s \in Sessions :
       /\ slot[s] # None
       /\ told' = [told EXCEPT ![r] = slot[s]] /\ slot' = [slot EXCEPT ![s] = None]
  /\ Served(r)
  /\ UNCHANGED <<home, decided, clientVars, wordless, replaced, restarts>>
Collect(r) ==
  /\ call[r].server = "sent" /\ KindOf(r) \in Gates \cup {"pending"}
  /\ Daemon!Collect(r, home[r])
  /\ Served(r)
  /\ UNCHANGED <<clientVars, wordless, replaced, restarts>>

NothingPending(r) ==
  /\ call[r].server = "sent" /\ KindOf(r) = "pending" /\ slot[home[r]] = None
  /\ Served(r)
  /\ UNCHANGED <<daemonVars, clientVars, wordless, replaced, restarts>>

Undecided(r) ==
  /\ call[r].server = "sent" /\ KindOf(r) # "pending"
  /\ KindOf(r) \in Gates => slot[home[r]] = None

Silent(r) ==
  /\ Undecided(r)
  /\ Served(r)
  /\ UNCHANGED <<daemonVars, clientVars, wordless, replaced, restarts>>

Decide(r) ==
  /\ Undecided(r)
  /\ \E v \in Daemon!Verdicts :
       /\ v.action \in Actions
       /\ Daemon!Decide(r, v)
       /\ wordless' \in {wordless} \cup (IF v.action = "nudge" THEN {wordless \cup {r}} ELSE {})
  /\ call' = [call EXCEPT ![r].server = "decided"]
  /\ UNCHANGED <<clientVars, replaced, restarts>>

(* The house rules at the start of a prompt are told and not parked. *)
Greet(r) ==
  /\ Undecided(r) /\ KindOf(r) = "prompt_submit"
  /\ Daemon!Greet(r, [action |-> "nudge", by |-> r])
  /\ Served(r)
  /\ UNCHANGED <<clientVars, wordless, replaced, restarts>>

Tell(r) ==
  /\ call[r].server = "decided"
  /\ \E v \in decided : Daemon!Tell(r, v)
  /\ Served(r)
  /\ replaced' = replaced \cup ({slot[home[r]]} \ {None})
  /\ UNCHANGED <<clientVars, wordless, restarts>>

Restart ==
  /\ restarts < MaxRestarts
  /\ Daemon!Forget
  /\ call' = [r \in Requests |-> IF call[r].server \in {"sent", "decided"}
                                 THEN [call[r] EXCEPT !.server = "dead"] ELSE call[r]]
  /\ replaced' = replaced \cup ({slot[s] : s \in Sessions} \ {None})
  /\ restarts' = restarts + 1
  /\ UNCHANGED <<clientVars, wordless>>

-----------------------------------------------------------------------------
Init ==
  /\ Daemon!Init
  /\ host \in [Sessions -> Hosts]
  /\ call = [r \in Requests |-> Idle]
  /\ gate = [s \in Sessions |-> "idle"]
  /\ output = [r \in Requests |-> "nothing"]
  /\ gaveUp = {} /\ wordless = {} /\ replaced = {}
  /\ restarts = 0

Next ==
  \/ \E r \in Requests, s \in Sessions : GatePost(r, s) \/ \E e \in Events : Send(r, s, e)
  \/ \E r \in Requests : Receive(r) \/ GiveUp(r)
  \/ \E r \in Requests : \/ Collect(r) \/ NothingPending(r) \/ Silent(r)
                         \/ Decide(r) \/ Greet(r) \/ Tell(r)
  \/ Restart

Spec == Init /\ [][Next]_vars

-----------------------------------------------------------------------------
(* Types of every variable; a gate check that is asking or deciding has one *)
(* exchange in progress, and one that has none is idle or about to post.    *)
GateCall(s, e) == \E r \in Waiting(s) : call[r].event = e
TypeOK ==
  /\ home \in [Requests -> Sessions \cup {"none"}]
  /\ decided \subseteq Daemon!Verdicts /\ replaced \subseteq Daemon!Verdicts
  /\ slot \in [Sessions -> Daemon!Verdicts \cup {None}]
  /\ told \in [Requests -> Daemon!Verdicts \cup {None}]
  /\ host \in [Sessions -> Hosts]
  /\ call \in [Requests -> [event: Events \cup {"none", "gate_end"},
                           client: {"idle", "waiting", "returned"},
                           server: {"none", "sent", "decided", "answered", "dead"}]]
  /\ gate \in [Sessions -> {"idle", "asking", "posting", "deciding"}]
  /\ \A s \in Sessions :
       /\ gate[s] = "asking" => GateCall(s, "text_end")
       /\ gate[s] = "deciding" => GateCall(s, "gate_end")
  /\ output \in [Requests -> Outputs]
  /\ gaveUp \subseteq Requests /\ wordless \subseteq Requests
  /\ restarts \in 0..MaxRestarts

(* What no client of its session would say: a nudge without guidance, and  *)
(* for Codex a nudge that reaches it in the answer to a Stop.              *)
Mute(r) ==
  LET v == told[r] IN
  /\ v.action = "nudge"
  /\ v.by \in wordless \/ (host[home[r]] = "codex" /\ call[r].event = "Stop")

Parked(v) == slot[home[v.by]] = v
Greeted(v) == call[v.by].server = "answered" /\ KindOf(v.by) = "prompt_submit"

(* Where an intervention that was told can be: parked, pushed out by a     *)
(* newer one or a restart, or in the answer of the one request that        *)
(* collected it; and that one puts it before the agent, unless its client  *)
(* had given up or has no way to say it.  No hook, gate or poller takes an *)
(* intervention out of the daemon and drops it (the gate holds its GET at  *)
(* the end of an iteration with tool calls for this).                      *)
CollectedIsHeard ==
  \A r \in Requests : told[r] # None =>
    /\ told[r].by = r => Parked(told[r]) \/ told[r] \in replaced \/ Greeted(told[r])
                          \/ \E q \in Requests \ {r} : told[q] = told[r]
    /\ told[r].by # r => \/ call[r].client = "waiting" \/ r \in gaveUp
                          \/ output[r] # "nothing" \/ Mute(r)

(* An agent hears one intervention at most twice, in the answer to the     *)
(* event that caused it and at one later gate; the plugin, whose middleware*)
(* stays silent, repeats only what its own gate was answered.              *)
HeardBy(v) == {r \in Requests : told[r] = v /\ output[r] # "nothing"}
HeardAtMostTwice ==
  \A v \in decided :
    /\ Cardinality(HeardBy(v)) <= 2
    /\ host[home[v.by]] = "plugin" /\ call[v.by].event # "gate_end" => Cardinality(HeardBy(v)) <= 1

(* A host is told to stop its agent, or to deny its call, only for an      *)
(* intervention of that session that is a block or an escalation, and only *)
(* where the user opted in; an approval is resolved only in words.  Agents *)
(* that have agreed and agents that have not share the daemon, and their   *)
(* verdicts lie parked side by side while answers are late and lost.       *)
StoppedOnlyWhereAgreed ==
  \A r \in Requests : output[r] \in {"stop", "deny"} =>
    /\ told[r].action \in Daemon!Stopping
    /\ home[told[r].by] = home[r] /\ home[r] \in MayStop
=============================================================================
