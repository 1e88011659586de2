---------------------------- MODULE PolicyEngine ----------------------------
(***************************************************************************)
(* The tiered policy engine of the daemon (agent_shepherd/core/server.py): *)
(* PolicyEngine.process and everything it calls that changes state.        *)
(*                                                                         *)
(* ThreadingHTTPServer serves every request on a thread of its own, so a   *)
(* request IS a thread here: pc[r] is the point it has reached, cand[r]    *)
(* the local `verdict`, reply[r] what the HTTP response carried.  A step   *)
(* ends where another thread can come in between and be noticed: a lock    *)
(* released, a file written, a call returned, a shared counter read or     *)
(* written.  Threads share the session state, the single pending slot of   *)
(* the session, the rulebook, the risk model and the scorer; only the      *)
(* window and its counter, the slot and the table of sessions are          *)
(* protected by PolicyEngine._lock.                                        *)
(*                                                                         *)
(* Abstracted: the texts; what a detector computes from the window (it may *)
(* hit on the events it looks at, and off-spec always hits on a path that  *)
(* a deny-glob matches); the judge (any of its answers, an unparsable one, *)
(* or a failed call); the refit (any line of RefitLines).                  *)
(***************************************************************************)
EXTENDS Integers, Sequences, FiniteSets

CONSTANTS
  Requests,       \* requests to the daemon, each a handler thread
  Sessions,       \* session ids
  Agents,         \* agents of the configuration
  AgentOf,        \* the agent a session belongs to
  Enabled,        \* agents with `enabled`
  OptedIn,        \* agents with `block_enabled`
  Kinds,          \* kinds of requests the clients send
  Firing,         \* Tier 0 detectors that are configured and can hit
  JudgeActions,   \* actions the judge may ask for
  Confidences,    \* confidences (percent) it may verbalize
  Times,          \* event timestamps
  Cooldown,       \* policy.nudge_cooldown_seconds
  NudgeLine,      \* policy.nudge_threshold, percent
  BlockLine,      \* policy.block_threshold, percent
  RefitLines,     \* lines a refit of the risk model may install
  WindowSize,     \* SessionState.max_events
  LoopRepeats,    \* earlier calls in the window that make a call a loop
  FailOpen, RulebookOn, FeedbackOn, ReviewClean, NudgeUnobserved,   \* policy switches
  DiskFaults,     \* may a ledger append raise?
  MaxInFlight,    \* bound: requests of one session served at once
  MaxRestarts,    \* bound: restarts of the daemon
  Nobody          \* the author of no verdict

TierZero == {"loop", "regression", "offspec", "contextrot", "binding", "drift"}
Stopping == {"block", "escalate"}
Interventions == {"nudge"} \cup Stopping
Gates == {"iteration_end", "stop", "prompt_submit"}
EventKinds == Gates \cup {"reasoning", "tool_call", "tool_result"}

ASSUME EngineAssumption ==
  /\ AgentOf \in [Sessions -> Agents]
  /\ Enabled \subseteq Agents /\ OptedIn \subseteq Agents
  /\ Kinds \subseteq EventKinds \cup {"poll"}
  /\ Firing \subseteq TierZero
  /\ JudgeActions \subseteq Interventions \cup {"pass"}
  /\ Confidences \subseteq 0..100 /\ RefitLines \subseteq 0..100
  /\ NudgeLine \in 0..100 /\ BlockLine \in 0..100
  /\ Times \subseteq Nat /\ Cooldown \in Nat
  /\ WindowSize \in Nat \ {0} /\ LoopRepeats \in Nat
  /\ {FailOpen, RulebookOn, FeedbackOn, ReviewClean, NudgeUnobserved, DiskFaults} \subseteq BOOLEAN
  /\ MaxInFlight \in Nat \ {0} /\ MaxRestarts \in Nat
  /\ Nobody \notin Requests
  /\ \A a \in Interventions, r \in Requests : Nobody # [action |-> a, by |-> r]

VARIABLES
  req, pc, cand, at, bar, was, history, reply,   \* handler threads
  window, lastNudge, scores, confirmed, queued, stats,   \* SessionState
  pending,                                \* PolicyEngine._pending
  limit, labelled,                        \* RiskModel: judge line, labels fed so far
  book, saved,                            \* judge labels of the rulebook, and its file
  ledger,                                 \* verdict lines of the ledger
  era                                     \* number of restarts so far

threadVars  == <<req, pc, cand, at, bar, was, history, reply>>
sessionVars == <<window, lastNudge, scores, confirmed, queued, stats>>
sharedVars  == <<pending, limit, labelled, book, saved>>
vars == <<threadVars, sessionVars, sharedVars, ledger, era>>

-----------------------------------------------------------------------------
(* Verdicts. `reason` keeps of the text only what the code or a property tells
   apart, `by` is the request whose processing decided the verdict.          *)

Sources == TierZero \cup {"judge", "rulebook"}
Reasons == {"detected", "promoted", "judged", "unparsed", "judge unavailable",
            "judge failed", "cooldown", "threshold", "quiet", "disabled", "none"}
Verdict(a, d, c, why, r) ==
  [action |-> a, detector |-> d, conf |-> c, reason |-> why, by |-> r]
NoVerdict == Verdict("none", "none", 0, "none", Nobody)
VerdictSet ==
  [action: Interventions \cup {"pass", "none"}, detector: Sources \cup {"none"},
   conf: 0..100, reason: Reasons, by: Requests \cup {Nobody}]

Never == -1                               \* no entry in last_nudge
NoRequest == [sess |-> "none", kind |-> "none", ts |-> 0, mark |-> "plain", era |-> 0, past |-> {}]
SessionOf(r) == req[r].sess
Agent(r) == AgentOf[SessionOf(r)]

Idle == {"unsent", "done", "lost"}
InFlight(s) == {r \in Requests : pc[r] \notin Idle /\ SessionOf(r) = s}

Fields == {"seen", "suppressed"} \cup Interventions

Goto(r, from, to) == pc[r] = from /\ pc' = [pc EXCEPT ![r] = to]
Answer(r, v) == reply' = [reply EXCEPT ![r] = v]

EmptyLists == [s \in Sessions |-> <<>>]
NoNudges == [s \in Sessions |-> [d \in TierZero \cup {"judge"} |-> Never]]
Unconfirmed == [s \in Sessions |-> FALSE]
ZeroStats == [s \in Sessions |-> [f \in Fields |-> 0]]
NothingParked == [s \in Sessions |-> NoVerdict]
(* What a scorecard counts, one by one: a queued nudge, the review that is an
   opinion about it, and which.  A label is the detector's of its nudge.      *)
Labels == [nudge: Requests, review: Requests, side: {"agreed", "disagreed"}]
Points == Idle \cup {"snapshot", "finalize", "label", "forget", "drain", "header", "evaluate",
                    "score", "feed", "empty", "admit", "stamp", "suppress", "suppressing",
                    "silent", "control", "tally", "tallying", "queue", "append", "record", "park"}

Init ==
  /\ req = [r \in Requests |-> NoRequest]
  /\ pc = [r \in Requests |-> "unsent"]
  /\ cand = [r \in Requests |-> NoVerdict]
  /\ at = [r \in Requests |-> 1]
  /\ bar = [r \in Requests |-> NudgeLine] /\ was = [r \in Requests |-> 0]
  /\ history = [r \in Requests |-> <<>>]
  /\ reply = [r \in Requests |-> NoVerdict]
  /\ window = EmptyLists /\ scores = EmptyLists /\ queued = EmptyLists
  /\ lastNudge = NoNudges /\ confirmed = Unconfirmed /\ stats = ZeroStats
  /\ pending = NothingParked
  /\ limit = [a \in Agents |-> NudgeLine]
  /\ labelled = {}
  /\ book = {} /\ saved = {}
  /\ ledger = {}
  /\ era = 0

-----------------------------------------------------------------------------
(* Arrival. `mark` is what the detectors and the wake gate read off the event:
   a tool result that is not OK is "bad", an edit of a deny-globbed path is
   "denied".  Hooks reach the daemon in any order, and a hook that gave up does
   not stop its thread.  `past` is history: the requests of the session whose
   threads had ended by then.                                                *)

Marks(k) == CASE k = "tool_result" -> {"plain", "bad"}
              [] k = "tool_call"   -> IF "offspec" \in Firing THEN {"plain", "denied"}
                                                              ELSE {"plain"}
              [] OTHER             -> {"plain"}

Send(r, s, k, t, m) ==
  /\ Cardinality(InFlight(s)) < MaxInFlight
  /\ req' = [req EXCEPT ![r] = [sess |-> s, kind |-> k, ts |-> t, mark |-> m, era |-> era,
       past |-> {q \in Requests : pc[q] \in {"done", "lost"} /\ SessionOf(q) = s}]]

(* A disabled agent is answered before anything is recorded. *)
Ignore(r, s, k, t) ==
  /\ AgentOf[s] \notin Enabled /\ k # "poll"
  /\ Goto(r, "unsent", "done")
  /\ Send(r, s, k, t, "plain")
  /\ Answer(r, Verdict("pass", "none", 0, "disabled", r))
  /\ UNCHANGED <<cand, at, bar, was, history, sessionVars, sharedVars, ledger, era>>

(* The event line is appended to the ledger; an append that raises drops the
   connection before the engine has touched any state.                      *)
Ingest(r, s, k, t, m) ==
  /\ AgentOf[s] \in Enabled /\ k # "poll" /\ m \in Marks(k)
  /\ \/ Goto(r, "unsent", "snapshot")
     \/ DiskFaults /\ Goto(r, "unsent", "lost")
  /\ Send(r, s, k, t, m)
  /\ UNCHANGED <<cand, at, bar, was, history, reply, sessionVars, sharedVars, ledger, era>>

\* take_pending_verdict: what the slots are once the one of s was popped.
\* Mutation: the slot is read, not popped.
TakenKept(s) == pending
Taken(s) == [pending EXCEPT ![s] = NoVerdict]

(* GET or POST /pending/<agent>/<session>. *)
Poll(r, s, k, t) ==
  /\ k = "poll"
  /\ Goto(r, "unsent", "done")
  /\ Send(r, s, k, t, "plain")
  /\ Answer(r, pending[s])
  /\ pending' = Taken(s)
  /\ UNCHANGED <<cand, at, bar, was, history, sessionVars, limit, labelled, book, saved, ledger, era>>

\* Mutation: one event too many is kept.
LastNPlus(q, n) == SubSeq(q, (IF Len(q) > n + 1 THEN Len(q) - n - 1 ELSE 0) + 1, Len(q))
LastN(q, n) == SubSeq(q, (IF Len(q) > n THEN Len(q) - n ELSE 0) + 1, Len(q))

AfterSnapshot(k) == CASE k = "stop" -> "finalize"
                      [] k \in Gates \ {"stop"} -> "drain"
                      [] OTHER -> "evaluate"

(* Window and counter change under the lock of the engine. *)
Snapshot(r) ==
  LET s == SessionOf(r) IN
  /\ Goto(r, "snapshot", AfterSnapshot(req[r].kind))
  /\ history' = [history EXCEPT ![r] = window[s]]
  /\ window' = [window EXCEPT ![s] = LastN(Append(@, r), WindowSize)]
  /\ stats' = [stats EXCEPT ![s].seen = @ + 1]
  /\ UNCHANGED <<req, cand, at, bar, was, reply, lastNudge, scores, confirmed, queued,
                 sharedVars, ledger, era>>

-----------------------------------------------------------------------------
(* STOP: the rulebook observes the session's ledger (module Rulebook) and is
   saved, then every judge score of the session is fed to the risk model.    *)

Finalize(r) ==
  /\ Goto(r, "finalize", "label")
  /\ at' = [at EXCEPT ![r] = 1]
  /\ saved' = IF RulebookOn THEN book ELSE saved
  /\ UNCHANGED <<req, cand, bar, was, history, reply, sessionVars, pending, limit, labelled,
                 book, ledger, era>>

(* One turn of the loop over judge_scores: observe, refit, save. *)
LabelOne(r) ==
  LET q == scores[SessionOf(r)] IN
  /\ pc[r] = "label" /\ at[r] <= Len(q)
  /\ labelled' = labelled \cup {[score |-> q[at[r]], stop |-> r]}
  /\ \E line \in RefitLines : limit' = [limit EXCEPT ![Agent(r)] = line]
  /\ at' = [at EXCEPT ![r] = @ + 1]
  /\ UNCHANGED <<req, pc, cand, bar, was, history, reply, sessionVars, pending, book, saved, ledger, era>>

LabelDone(r) ==
  /\ Goto(r, "label", "forget")
  /\ at[r] > Len(scores[SessionOf(r)])
  /\ UNCHANGED <<req, cand, at, bar, was, history, reply, sessionVars, sharedVars, ledger, era>>

\* Mutation: the scores are not cleared after they were fed.
ForgetNothing(r) ==
  /\ Goto(r, "forget", "drain")
  /\ UNCHANGED <<req, cand, at, bar, was, history, reply, sessionVars, sharedVars, ledger, era>>

(* The list is cleared, with whatever was scored since the loop ended. *)
Forget(r) ==
  /\ Goto(r, "forget", "drain")
  /\ scores' = [scores EXCEPT ![SessionOf(r)] = <<>>]
  /\ UNCHANGED <<req, cand, at, bar, was, history, reply, window, lastNudge, confirmed, queued,
                 stats, sharedVars, ledger, era>>

-----------------------------------------------------------------------------
(* Gates: the parked verdict is the whole answer; then the house rules.      *)

DrainParked(r) ==
  LET s == SessionOf(r) IN
  /\ Goto(r, "drain", "done")
  /\ pending[s] # NoVerdict
  /\ Answer(r, pending[s])
  /\ pending' = Taken(s)
  /\ UNCHANGED <<req, cand, at, bar, was, history, sessionVars, limit, labelled, book, saved, ledger, era>>

\* Mutation: the gate waits until a verdict is parked.
DrainWaits(r) == FALSE

DrainEmpty(r) ==
  /\ Goto(r, "drain", IF req[r].kind = "prompt_submit" /\ RulebookOn THEN "header"
                                                                    ELSE "evaluate")
  /\ pending[SessionOf(r)] = NoVerdict
  /\ UNCHANGED <<req, cand, at, bar, was, history, reply, sessionVars, sharedVars, ledger, era>>

(* Whether the book promotes a rule is decided in module Rulebook. *)
Header(r) ==
  LET v == Verdict("nudge", "rulebook", 99, "promoted", r) IN
  /\ \/ Goto(r, "header", "done") /\ ledger' = ledger \cup {v} /\ Answer(r, v)
     \/ DiskFaults /\ Goto(r, "header", "lost") /\ UNCHANGED <<ledger, reply>>
  /\ UNCHANGED <<req, cand, at, bar, was, history, sessionVars, sharedVars, era>>

NoHeader(r) ==
  /\ Goto(r, "header", "evaluate")
  /\ UNCHANGED <<req, cand, at, bar, was, history, reply, sessionVars, sharedVars, ledger, era>>

-----------------------------------------------------------------------------
(* Tier 0. The detectors run in a fixed order and the first hit wins.  Off-spec
   asks for a block where a deny-glob matches; with scope_nudge_unobserved it
   nudges about an edit of a file that nothing named, read or allowed.       *)

DetectorOrder == <<"loop", "regression", "offspec", "contextrot", "binding", "drift">>

Trouble(h) == \E i \in 1..Len(h) : req[h[i]].mark = "bad"

Calls(h) == {i \in 1..Len(h) : req[h[i]].kind = "tool_call"}

LooksAt(d, r) ==
  CASE d = "loop" -> req[r].kind = "tool_call" /\ Cardinality(Calls(history[r])) >= LoopRepeats
    [] d = "binding"    -> req[r].kind = "tool_call"
    [] d = "offspec"    -> req[r].mark = "denied" \/ (NudgeUnobserved /\ req[r].kind = "tool_call")
    [] d = "regression" -> req[r].mark = "bad" /\ \E i \in 1..Len(history[r]) :
                             req[history[r][i]].kind = "tool_result"
    [] d = "contextrot" -> req[r].kind = "reasoning"
    [] d = "drift"      -> req[r].mark = "bad" \/ Trouble(history[r])

HitSets(r) ==
  {H \in SUBSET {d \in Firing : LooksAt(d, r)} : req[r].mark = "denied" => "offspec" \in H}

FirstHit(H) ==
  DetectorOrder[CHOOSE i \in 1..Len(DetectorOrder) :
                  /\ DetectorOrder[i] \in H
                  /\ \A j \in 1..(i - 1) : DetectorOrder[j] \notin H]

Asked(d, r) == IF d = "offspec" /\ req[r].mark = "denied" THEN "block" ELSE "nudge"

Detect(r) ==
  \E H \in HitSets(r) \ {{}} :
    LET d == FirstHit(H) IN
    /\ Goto(r, "evaluate", "admit")
    /\ cand' = [cand EXCEPT ![r] = Verdict(Asked(d, r), d, 100, "detected", r)]
    /\ UNCHANGED <<req, at, bar, was, history, reply, sessionVars, sharedVars, ledger, era>>

(* The wake gate: always at a prompt and at a stop, at an iteration boundary on
   evidence, on a tool result when the drift statistic has climbed.           *)
MustWake(r) ==
  \/ req[r].kind \in {"prompt_submit", "stop"}
  \/ req[r].kind = "iteration_end" /\ (ReviewClean \/ Trouble(history[r]))

MayWake(r) ==
  \/ MustWake(r)
  \/ /\ req[r].kind = "tool_result" /\ "drift" \in Firing
     /\ req[r].mark = "bad" \/ Trouble(history[r])

NoDrift(r) ==
  /\ Goto(r, "evaluate", "done")
  /\ {} \in HitSets(r) /\ ~ MustWake(r)
  /\ Answer(r, Verdict("pass", "none", 0, "quiet", r))
  /\ UNCHANGED <<req, cand, at, bar, was, history, sessionVars, sharedVars, ledger, era>>

-----------------------------------------------------------------------------
(* Tier 1: the call of the judge, without any lock.                          *)

WakeJudge(r) ==
  /\ Goto(r, "evaluate", "score")
  /\ {} \in HitSets(r) /\ MayWake(r)
  /\ UNCHANGED <<req, cand, at, bar, was, history, reply, sessionVars, sharedVars, ledger, era>>

(* The call returned `v`; its confidence joins judge_scores. *)
\* Mutation: the loop over the queue starts before its first entry.
ScoredFromZero(r, v) ==
  /\ Goto(r, "score", "feed")
  /\ cand' = [cand EXCEPT ![r] = v]
  /\ at' = [at EXCEPT ![r] = 0]
  /\ scores' = [scores EXCEPT ![SessionOf(r)] = Append(@, r)]
  /\ UNCHANGED <<req, bar, was, history, reply, window, lastNudge, confirmed, queued, stats,
                 pending, limit, labelled, book, saved, ledger, era>>

Scored(r, v) ==
  /\ Goto(r, "score", "feed")
  /\ cand' = [cand EXCEPT ![r] = v]
  /\ at' = [at EXCEPT ![r] = 1]
  /\ scores' = [scores EXCEPT ![SessionOf(r)] = Append(@, r)]
  /\ UNCHANGED <<req, bar, was, history, reply, window, lastNudge, confirmed, queued, stats,
                 pending, limit, labelled, book, saved, ledger, era>>

JudgeAnswers(r, a, c) == Scored(r, Verdict(a, "judge", c, "judged", r))

(* An answer that is no JSON verdict becomes a conservative nudge. *)
JudgeGarbled(r) == Scored(r, Verdict("nudge", "judge", 50, "unparsed", r))

(* The call raised: no answer in time, or a response that holds none. *)
JudgeOutage(r) ==
  Scored(r, IF FailOpen THEN Verdict("pass", "judge", 0, "judge unavailable", r)
                        ELSE Verdict("escalate", "judge", 100, "judge failed", r))

(* The review is an opinion about every Tier 0 nudge queued before it; the line
   it is weighed against is read once, before the first (bar[r]).            *)
\* Mutation: a failed call is an opinion too.
OpinionAlways(r) == RulebookOn /\ FeedbackOn
Opinion(r) == RulebookOn /\ FeedbackOn /\ cand[r].reason # "judge unavailable"

FeedOne(r) ==
  LET q == queued[SessionOf(r)]
      cut == IF at[r] = 1 THEN limit[Agent(r)] ELSE bar[r]
      side == IF cand[r].conf >= cut THEN "agreed" ELSE "disagreed" IN
  /\ pc[r] = "feed" /\ Opinion(r) /\ at[r] <= Len(q)
  /\ book' = book \cup {[nudge |-> q[at[r]], review |-> r, side |-> side]}
  /\ at' = [at EXCEPT ![r] = @ + 1] /\ bar' = [bar EXCEPT ![r] = cut]
  /\ UNCHANGED <<req, pc, cand, was, history, reply, sessionVars, pending, limit, labelled,
                 saved, ledger, era>>

FeedDone(r) ==
  /\ Goto(r, "feed", "empty")
  /\ Opinion(r) => at[r] > Len(queued[SessionOf(r)])
  /\ UNCHANGED <<req, cand, at, bar, was, history, reply, sessionVars, sharedVars, ledger, era>>

\* Mutation: a review leaves the queue as it is.
QueuesKept(r) == queued

(* An outage leaves the queue alone, and so does a review that found it empty. *)
QueuesAfterReview(r) ==
  IF RulebookOn /\ FeedbackOn /\ ~ (Opinion(r) /\ at[r] > 1)
  THEN queued ELSE [queued EXCEPT ![SessionOf(r)] = <<>>]

(* The queue is emptied, with what joined it since the loop ended, and the book
   saved.                                                                     *)
Empty(r) ==
  /\ Goto(r, "empty", "admit")
  /\ queued' = QueuesAfterReview(r)
  /\ saved' = IF Opinion(r) /\ at[r] > 1 THEN book ELSE saved
  /\ UNCHANGED <<req, cand, at, bar, was, history, reply, window, lastNudge, scores, confirmed,
                 stats, pending, limit, labelled, book, ledger, era>>

-----------------------------------------------------------------------------
(* Admission: the cooldown of the detector is read, then restarted.          *)

\* Mutation: the end of the cooldown belongs to it.
InCooldownClosed(r) ==
  LET last == lastNudge[SessionOf(r)][cand[r].detector] IN
  last # Never /\ req[r].ts - last <= Cooldown

\* Mutation: a timestamp of zero counts as no timestamp.
InCooldownTruthy(r) ==
  LET last == lastNudge[SessionOf(r)][cand[r].detector] IN
  last \notin {Never, 0} /\ req[r].ts - last < Cooldown

InCooldown(r) ==
  LET last == lastNudge[SessionOf(r)][cand[r].detector] IN
  last # Never /\ req[r].ts - last < Cooldown

Admit(r) ==
  /\ pc[r] = "admit"
  /\ \/ /\ cand[r].action # "nudge"
        /\ Goto(r, "admit", "control") /\ UNCHANGED cand
     \/ /\ cand[r].action = "nudge" /\ ~ InCooldown(r)
        /\ Goto(r, "admit", "stamp") /\ UNCHANGED cand
     \/ /\ cand[r].action = "nudge" /\ InCooldown(r)
        /\ Goto(r, "admit", "suppress")
        /\ cand' = [cand EXCEPT ![r].action = "pass", ![r].reason = "cooldown"]
  /\ UNCHANGED <<req, at, bar, was, history, reply, sessionVars, sharedVars, ledger, era>>

Stamp(r) ==
  /\ Goto(r, "stamp", "control")
  /\ lastNudge' = [lastNudge EXCEPT ![SessionOf(r)][cand[r].detector] = req[r].ts]
  /\ UNCHANGED <<req, cand, at, bar, was, history, reply, window, scores, confirmed, queued,
                 stats, sharedVars, ledger, era>>

(* _silent counts the suppression, _tally an intervention: `+= 1` reads the
   counter and writes it back, and no lock keeps another thread from doing the
   same in between.                                                           *)
\* Mutation: a verdict is tallied as its detector asked, not as _control left it.
CounterAsked(r) ==
  CASE cand[r].action \notin Interventions -> "suppressed"
    [] cand[r].detector = "offspec" -> "block"
    [] OTHER -> cand[r].action
Counter(r) == IF cand[r].action \in Interventions THEN cand[r].action ELSE "suppressed"

Load(r) ==
  /\ Goto(r, "suppress", "suppressing") \/ Goto(r, "tally", "tallying")
  /\ was' = [was EXCEPT ![r] = stats[SessionOf(r)][Counter(r)]]
  /\ UNCHANGED <<req, cand, at, bar, history, reply, sessionVars, sharedVars, ledger, era>>

AfterTally(r) == IF cand[r].detector \in TierZero THEN "queue" ELSE "record"
Store(r) ==
  /\ Goto(r, "suppressing", "silent") \/ Goto(r, "tallying", AfterTally(r))
  /\ stats' = [stats EXCEPT ![SessionOf(r)][Counter(r)] = was[r] + 1]
  /\ was' = [was EXCEPT ![r] = 0]
  /\ UNCHANGED <<req, cand, at, bar, history, reply, window, lastNudge, scores, confirmed, queued,
                 sharedVars, ledger, era>>

(* A suppression is recorded as a PASS that keeps its origin. *)
Silence(r) ==
  /\ \/ Goto(r, "silent", "done") /\ ledger' = ledger \cup {cand[r]} /\ Answer(r, cand[r])
     \/ DiskFaults /\ Goto(r, "silent", "lost") /\ UNCHANGED <<ledger, reply>>
  /\ UNCHANGED <<req, cand, at, bar, was, history, sessionVars, sharedVars, era>>

(* Risk gate and authority: a judge nudge under its line is withheld, a judge
   block under its own becomes a nudge, and so does any block or escalation of
   an agent that did not opt in.                                             *)
\* Mutation: only the judge's verdicts lose the authority to stop.
ControlledJudge(v, a) ==
  CASE v.detector = "judge" /\ v.action = "nudge" /\ v.conf < limit[a] ->
         [v EXCEPT !.action = "pass", !.reason = "threshold"]
    [] v.action \in Stopping /\ v.detector = "judge" /\ (v.conf < BlockLine \/ a \notin OptedIn) ->
         [v EXCEPT !.action = "nudge"]
    [] OTHER -> v

Controlled(v, a) ==
  CASE v.detector = "judge" /\ v.action = "nudge" /\ v.conf < limit[a] ->
         [v EXCEPT !.action = "pass", !.reason = "threshold"]
    [] v.action \in Stopping /\ ((v.detector = "judge" /\ v.conf < BlockLine) \/ a \notin OptedIn) ->
         [v EXCEPT !.action = "nudge"]
    [] OTHER -> v

(* A review that ends as PASS is recorded and answered, not parked. *)
Withhold(r) ==
  LET v == Controlled(cand[r], Agent(r)) IN
  /\ pc[r] = "control" /\ v.action = "pass"
  /\ \/ Goto(r, "control", "done") /\ ledger' = ledger \cup {v} /\ Answer(r, v)
     \/ DiskFaults /\ Goto(r, "control", "lost") /\ UNCHANGED <<ledger, reply>>
  /\ cand' = [cand EXCEPT ![r] = v]
  /\ UNCHANGED <<req, at, bar, was, history, sessionVars, sharedVars, era>>

Intervene(r) ==
  LET v == Controlled(cand[r], Agent(r)) IN
  /\ Goto(r, "control", "tally")
  /\ v.action \in Interventions
  /\ cand' = [cand EXCEPT ![r] = v]
  /\ UNCHANGED <<req, at, bar, was, history, reply, sessionVars, sharedVars, ledger, era>>

(* One of Tier 0 confirms drift in the session, and its detector waits for the
   next review unless it is found waiting; two threads may both not find it.  *)
Waits(d, s) == \E i \in 1..Len(queued[s]) : cand[queued[s][i]].detector = d

Confirm(r) ==
  LET s == SessionOf(r) IN
  /\ Goto(r, "queue", IF Waits(cand[r].detector, s) THEN "record" ELSE "append")
  /\ confirmed' = [confirmed EXCEPT ![s] = TRUE]
  /\ UNCHANGED <<req, cand, at, bar, was, history, reply, window, lastNudge, scores, queued, stats,
                 sharedVars, ledger, era>>

Enqueue(r) ==
  /\ Goto(r, "append", "record")
  /\ queued' = [queued EXCEPT ![SessionOf(r)] = Append(@, r)]
  /\ UNCHANGED <<req, cand, at, bar, was, history, reply, window, lastNudge, scores, confirmed, stats,
                 sharedVars, ledger, era>>

\* Mutation: a failed append is ignored.
RecordIgnoring(r) ==
  /\ Goto(r, "record", "park")
  /\ ledger' = ledger \cup {cand[r]} \/ (DiskFaults /\ UNCHANGED ledger)
  /\ UNCHANGED <<req, cand, at, bar, was, history, reply, sessionVars, sharedVars, era>>

Record(r) ==
  /\ \/ Goto(r, "record", "park") /\ ledger' = ledger \cup {cand[r]}
     \/ DiskFaults /\ Goto(r, "record", "lost") /\ UNCHANGED ledger
  /\ UNCHANGED <<req, cand, at, bar, was, history, reply, sessionVars, sharedVars, era>>

(* The verdict takes the slot of the session and is returned as well. *)
Park(r) ==
  /\ Goto(r, "park", "done")
  /\ pending' = [pending EXCEPT ![SessionOf(r)] = cand[r]]
  /\ Answer(r, cand[r])
  /\ UNCHANGED <<req, cand, at, bar, was, history, sessionVars, limit, labelled, book, saved, ledger, era>>

-----------------------------------------------------------------------------
(* The daemon dies and is started again (packaging/shepherd.service restarts
   it always): sessions, slots and threads are gone; the ledger, the rulebook
   file and the risk file, saved at every label, are read back.               *)
Restart ==
  /\ era < MaxRestarts
  /\ era' = era + 1
  /\ pc' = [r \in Requests |-> IF pc[r] \in Idle THEN pc[r] ELSE "lost"]
  /\ window' = EmptyLists /\ scores' = EmptyLists /\ queued' = EmptyLists
  /\ lastNudge' = NoNudges /\ confirmed' = Unconfirmed /\ stats' = ZeroStats
  /\ pending' = NothingParked
  /\ book' = saved
  /\ was' = [r \in Requests |-> 0]
  /\ UNCHANGED <<req, cand, at, bar, history, reply, limit, labelled, saved, ledger>>

-----------------------------------------------------------------------------
Arrive(r) ==
  \E s \in Sessions, k \in Kinds, t \in Times :
    \/ Ignore(r, s, k, t)
    \/ \E m \in {"plain", "bad", "denied"} : Ingest(r, s, k, t, m)
    \/ Poll(r, s, k, t)

Judge(r) ==
  \/ \E a \in JudgeActions, c \in Confidences : JudgeAnswers(r, a, c)
  \/ JudgeGarbled(r)
  \/ JudgeOutage(r)

(* What the thread of an accepted request does. *)
Step(r) ==
  \/ Snapshot(r) \/ Finalize(r) \/ LabelOne(r) \/ LabelDone(r) \/ Forget(r)
  \/ DrainParked(r) \/ DrainEmpty(r) \/ Header(r) \/ NoHeader(r)
  \/ Detect(r) \/ NoDrift(r) \/ WakeJudge(r) \/ Judge(r)
  \/ FeedOne(r) \/ FeedDone(r) \/ Empty(r) \/ Admit(r) \/ Stamp(r)
  \/ Load(r) \/ Store(r) \/ Silence(r) \/ Withhold(r) \/ Intervene(r)
  \/ Confirm(r) \/ Enqueue(r) \/ Record(r) \/ Park(r)

Next == (\E r \in Requests : Arrive(r) \/ Step(r)) \/ Restart

(* Every handler thread keeps running: the operating system schedules it, and
   the call of the judge ends by its HTTP timeout.  Clients owe nothing.      *)
Fairness == \A r \in Requests : WF_vars(Step(r))

Spec == Init /\ [][Next]_vars
FairSpec == Spec /\ Fairness

-----------------------------------------------------------------------------
(* Properties.                                                               *)

(* Every variable holds a value of its kind: the records and lists the code
   keeps, verdicts with the fields of types.Verdict.                         *)
ThreadsTyped ==
  /\ req \in [Requests -> [sess: Sessions \cup {"none"}, kind: Kinds \cup {"none"},
                           ts: Times \cup {0}, mark: {"plain", "bad", "denied"},
                           era: 0..MaxRestarts, past: SUBSET Requests]]
  /\ pc \in [Requests -> Points]
  /\ cand \in [Requests -> VerdictSet] /\ reply \in [Requests -> VerdictSet]
  /\ at \in [Requests -> Nat \ {0}] /\ bar \in [Requests -> 0..100] /\ was \in [Requests -> Nat]
  /\ history \in [Requests -> Seq(Requests)]

SessionsTyped ==
  /\ window \in [Sessions -> Seq(Requests)] /\ scores \in [Sessions -> Seq(Requests)]
  /\ lastNudge \in [Sessions -> [TierZero \cup {"judge"} -> Times \cup {0, Never}]]
  /\ confirmed \in [Sessions -> BOOLEAN]
  /\ queued \in [Sessions -> Seq(Requests)]
  /\ stats \in [Sessions -> [Fields -> Nat]]

SharedTyped ==
  /\ pending \in [Sessions -> VerdictSet]
  /\ limit \in [Agents -> 0..100] /\ labelled \subseteq [score: Requests, stop: Requests]
  /\ book \subseteq Labels /\ saved \subseteq Labels

TypeOK ==
  /\ ThreadsTyped /\ SessionsTyped /\ SharedTyped
  /\ ledger \subseteq VerdictSet /\ era \in 0..MaxRestarts

(* The authority boundary (_control): whatever a detector, the judge or a
   failed judge asks for, an agent that did not opt in is never answered with,
   and never has parked for it, a block or an escalation.                    *)
AdvisoryAgentsNeverStopped ==
  \A s \in Sessions : AgentOf[s] \notin OptedIn =>
    /\ pending[s].action \notin Stopping
    /\ \A r \in Requests : SessionOf(r) = s => reply[r].action \notin Stopping

(* The audit trail: an intervention handed to a client, at once or at a later
   gate, has its line in the ledger and was decided for that very session.    *)
InterventionsAudited ==
  /\ \A r \in Requests : reply[r].action \in Interventions =>
       reply[r] \in ledger /\ SessionOf(reply[r].by) = SessionOf(r)
  /\ \A s \in Sessions : pending[s] # NoVerdict =>
       pending[s] \in ledger /\ SessionOf(pending[s].by) = s

(* A parked verdict leaves its slot once: besides the request that decided it,
   at most one other request is answered with it, however gates and polls race. *)
ParkedHandedOutOnce ==
  \A q, r \in Requests :
    q # r /\ reply[q].action \in Interventions /\ reply[q] = reply[r] => reply[q].by \in {q, r}

(* Why these hold: the inductive strengthening.  A thread past the decision
   carries a verdict of its own, from Intervene on one that may be told, from a
   cooldown on one that says so; the
   ledger holds at most one verdict per thread, written before its thread ends;
   slots and replies hold only ledger lines of ended threads of their session,
   and what is still in a slot was told to nobody but its own requester.       *)
Located ==
  \A r \in Requests : IF pc[r] = "unsent" THEN req[r] = NoRequest ELSE SessionOf(r) \in Sessions

Silencing == {"suppress", "suppressing", "silent"}
Settled == {"tally", "tallying", "queue", "append", "record", "park"}
Decided == Settled \cup Silencing \cup {"feed", "empty", "admit", "stamp", "control"}
Authored == \A r \in Requests : pc[r] \in Decided => cand[r].by = r

MayTell(v, s) == v.action \in Interventions /\ (v.action \in Stopping => AgentOf[s] \in OptedIn)

Hushed(v) == v.action = "pass" /\ v.reason = "cooldown"

Ready ==
  \A r \in Requests :
    /\ pc[r] \in Settled => MayTell(cand[r], SessionOf(r))
    /\ pc[r] \in Silencing => Hushed(cand[r])

Recorded == \A r \in Requests : pc[r] = "park" => cand[r] \in ledger

LedgerSound ==
  \A v \in ledger :
    /\ v.by \in Requests /\ pc[v.by] \in {"park", "done", "lost"}
    /\ v.action = "pass" \/ MayTell(v, SessionOf(v.by))
    /\ \A u \in ledger : u.by = v.by => u = v

Told(v, s) ==
  /\ v \in ledger /\ MayTell(v, s)
  /\ SessionOf(v.by) = s /\ pc[v.by] = "done"

SlotSound == \A s \in Sessions : pending[s] # NoVerdict => Told(pending[s], s)

ReplySound ==
  \A r \in Requests : reply[r].action \in Interventions =>
    pc[r] = "done" /\ Told(reply[r], SessionOf(r))

SlotFresh ==
  \A s \in Sessions, r \in Requests :
    pending[s] # NoVerdict /\ reply[r] = pending[s] => r = pending[s].by

Sound ==
  /\ Authored /\ Ready /\ Recorded /\ LedgerSound
  /\ SlotSound /\ ReplySound /\ SlotFresh /\ ParkedHandedOutOnce

DeliveryInvariant == TypeOK /\ Located /\ Sound

(* Two requests overlapped: they belong to one session, and neither had ended
   when the other arrived.  A poll runs nothing but the pop of the slot.      *)
Hook(r) == pc[r] # "unsent" /\ req[r].kind # "poll"
Overlapped(q, r) ==
  /\ q # r /\ SessionOf(q) = SessionOf(r) /\ Hook(q) /\ Hook(r)
  /\ q \notin req[r].past /\ r \notin req[q].past
Undisturbed(r) == \A q \in Requests : ~ Overlapped(q, r)

(* What /stats serves never claims more than happened: a counter of a session
   is at most the number of its requests that this incarnation decided that way
   (concurrent hooks may lose counts, nothing may gain one), and it is exactly
   that number where no two hooks of the session overlapped.                   *)
Outcome(v) == IF v.reason = "cooldown" THEN "suppressed" ELSE v.action
Tallied(s, f) ==
  {r \in Requests : /\ SessionOf(r) = s /\ req[r].era = era /\ Outcome(cand[r]) = f
                    /\ pc[r] \in {"silent", "queue", "append", "record", "park", "done", "lost"}}

StatsNeverOverstate ==
  \A s \in Sessions, f \in Fields \ {"seen"} :
    /\ stats[s][f] <= Cardinality(Tallied(s, f))
    /\ (\A r \in Requests : SessionOf(r) = s /\ req[r].era = era => Undisturbed(r))
         => stats[s][f] = Cardinality(Tallied(s, f))

(* Hysteresis silences a detector only on account of another request of the
   session, inside the cooldown, whose nudge by the same detector was advised:
   it is on its way to the agent, or in the ledger, unless a restart or the
   disk has cut its thread off.                                               *)
Advised(q) ==
  \/ pc[q] \in Settled \cup {"control", "lost"}
  \/ \E u \in ledger : u.by = q /\ u.action = "nudge"

TierZeroSilencedBecauseAdvised ==
  \A v \in ledger : v.reason = "cooldown" /\ v.detector \in TierZero =>
    \E q \in Requests \ {v.by} :
      /\ SessionOf(q) = SessionOf(v.by) /\ cand[q].detector = v.detector
      /\ req[v.by].ts - req[q].ts < Cooldown /\ Advised(q)

(* The window loses no event and no order: it holds the last WindowSize events
   counted, and each event in it saw its predecessor as the newest one.       *)
WindowTracksEvents ==
  \A s \in Sessions :
    LET w == window[s] IN
    /\ Len(w) = IF stats[s].seen < WindowSize THEN stats[s].seen ELSE WindowSize
    /\ \A i \in 2..Len(w) : history[w[i]][Len(history[w[i]])] = w[i - 1]

(* A nudge of a Tier 0 detector that no other hook of its session overlapped
   keeps the detector quiet: of all requests that arrive after it, in whatever
   order and however they race, none nudges by that detector before a cooldown
   has passed.  Off-spec asks for blocks, which are not held to a cooldown, nor
   are the nudges they become for an agent that did not opt in.                *)
TierZeroNudgesSpaced ==
  \A u, v \in ledger :
    u.by \in req[v.by].past /\ Undisturbed(u.by) /\ req[u.by].era = req[v.by].era
      /\ u.detector = v.detector /\ u.detector \in TierZero \ {"offspec"}
      /\ u.action = "nudge" /\ v.action = "nudge"
      => req[v.by].ts - req[u.by].ts >= Cooldown

(* Two STOPs label a judge score twice only if they overlapped each other, and
   one drops a score unlabelled only if it overlapped the scored request.      *)
ScoresLabelledOnce ==
  /\ \A l, m \in labelled :
       l.score = m.score /\ l # m => Overlapped(l.stop, m.stop)
  /\ \A r \in Requests : cand[r].detector = "judge" /\ req[r].era = era =>
       \/ \E l \in labelled : l.score = r
       \/ \E i \in 1..Len(scores[SessionOf(r)]) : scores[SessionOf(r)][i] = r
       \/ \E q \in Requests : req[q].kind = "stop" /\ Overlapped(q, r)

(* A label in a scorecard stands for an intervention of Tier 0 in the session of
   its review, and one intervention has two labels only if the two reviews
   overlapped: a review empties the queue of what it has labelled.             *)
LabelsBacked ==
  /\ \A l \in book :
       /\ SessionOf(l.nudge) = SessionOf(l.review)
       /\ cand[l.nudge].detector \in TierZero
       /\ pc[l.nudge] \in {"record", "park", "done", "lost"}
       /\ cand[l.nudge].action \in Interventions
  /\ \A l, m \in book :
       l.nudge = m.nudge /\ l # m => Overlapped(l.review, m.review)

(* A failed call of the judge labels nothing: the scorecards change only under
   a review that the judge answered (or when a restart reads them back).      *)
OnlyReviewsLabel ==
  [][book' # book /\ era' = era =>
       \E r \in Requests : at'[r] # at[r] /\ cand[r].reason \in {"judged", "unparsed"}]_vars

(* Every request that was accepted is answered, unless the daemon or the disk
   drops it: no loop over shared lists and no phase holds a thread for ever.  *)
AcceptedIsAnswered ==
  \A r \in Requests : pc[r] = "snapshot" ~> pc[r] \in {"done", "lost"}

(* The engine implements the delivery promise: the audit record is the set of
   interventions in the ledger, a slot is the pending entry of the session, and
   what a request was told is its reply when that is an intervention.          *)
Brief(v) == IF v.action \in Interventions THEN [action |-> v.action, by |-> v.by] ELSE Nobody

Delivery == INSTANCE VerdictDelivery WITH
  MayStop <- {s \in Sessions : AgentOf[s] \in OptedIn},
  None <- Nobody,
  home <- [r \in Requests |-> SessionOf(r)],
  decided <- {Brief(v) : v \in {u \in ledger : u.action \in Interventions}},
  slot <- [s \in Sessions |-> Brief(pending[s])],
  told <- [r \in Requests |-> Brief(reply[r])]

(* Every behaviour of the engine is one VerdictDelivery allows. *)
ImplementsDelivery == Delivery!Spec
=============================================================================
