------------------------------ MODULE Detectors ------------------------------
(***************************************************************************)
(* The deterministic tier: the outcome of a tool result, the six detectors *)
(* over the bounded window of a session, which of them is heard, and when  *)
(* the judge is woken.  What the engine makes of a hit is PolicyEngine.    *)
(*                                                                         *)
(* An event carries the time since the event before it, so the window is   *)
(* free of a clock; adapters stamp the events of a session in order.       *)
(* Signals, slack and baseline are in units of 1/100.                      *)
(***************************************************************************)
EXTENDS Integers, Sequences, FiniteSets, SequencesExt

CONSTANTS
  Observed,           \* the events explored
  None,               \* no tool, no path, no exit code, no flag, no verdict
  MaxEvents,          \* SessionState.max_events
  TokensOf,           \* per input: the tokens of its canonical text
  PathOf,             \* per input: the path it names, or None
  EditTools, TestTools,
  LoopWindow, LoopThreshold,
  Denied, Allowed,    \* paths that match a deny-glob, an allow-glob
  NudgeUnobserved,
  Confusable,         \* pairs of similar file names of one kind
  BindingLookback,
  RotWindow, QuietLookback, MinQuiet, MaxConsecutive, MaxChars,
  DriftWindow, Baseline, Slack, UnknownWeight, MinBaselineSamples,
  Threshold,          \* the alarm line, in 1/100
  WatchPct,           \* drift_watch_fraction, in 1/100
  ReviewClean         \* review_clean_iterations

(* Baseline and slack are set in the code, the alarm line is fitted above  *)
(* 0.1, and an unknown outcome weighs below a definite failure (README).   *)
ASSUME DetectorsAssumption ==
  /\ MaxEvents \in Nat \ {0} /\ LoopWindow \in Nat /\ LoopThreshold \in Nat /\ MinQuiet \in Nat
  /\ QuietLookback \in Nat \ {0} /\ DriftWindow \in Nat \ {0} /\ MinBaselineSamples \in Nat \ {0}
  /\ Baseline \in Nat /\ Slack \in Nat /\ UnknownWeight \in 0..100 /\ Threshold \in Nat \ {0}
  /\ ReviewClean \in BOOLEAN
  /\ \A e \in Observed : e.gap \in Nat
  /\ None \notin Denied

VARIABLES
  events,             \* the window of the session
  told,               \* what the detectors said of the last event
  awake,              \* whether the gate woke the judge for it
  quiet               \* time since the last tool activity, or since the start

vars == <<events, told, awake, quiet>>

Recent(s, n) == IF Len(s) <= n THEN s ELSE SubSeq(s, Len(s) - n + 1, Len(s))
Earlier(s, n) == SubSeq(s, 1, Len(s) - n)
Count(s, Test(_)) == Cardinality({i \in DOMAIN s : Test(s[i])})
Sums(w) ==             \* what the first i of w come to, for every i
  LET sum[i \in 0..Len(w)] == IF i = 0 THEN 0 ELSE sum[i - 1] + w[i] IN sum

IsCall(e)     == e.kind = "tool_call"
IsResult(e)   == e.kind = "tool_result"
IsToolWork(e) == IsCall(e) \/ IsResult(e)
IsThought(e)  == e.kind = "reasoning" /\ e.chars > 0

(***************************************************************************)
(* signals.classify: the first evidence that says anything decides.  A     *)
(* response is the exit codes its depth-first walk meets, in order; one    *)
(* that does not read as a number is None and passed over.                 *)
(***************************************************************************)
FindExitCode(walk) ==
  LET readable == SelectSeq(walk, LAMBDA c : c # None) IN
  IF readable = <<>> THEN None ELSE Head(readable)

ExitCode(r) ==
  LET inRaw == FindExitCode(r.raw)  inMeta == FindExitCode(r.meta) IN
  IF inRaw # None THEN inRaw ELSE IF inMeta # None THEN inMeta ELSE r.stated

Testimony(r) ==        \* the evidence, in the order it is heard
  <<IF r.failureHook THEN "failed" ELSE None,
    IF r.flag = None THEN None ELSE IF r.flag = "is_error" THEN "failed" ELSE "ok",
    IF ExitCode(r) = None THEN None ELSE IF ExitCode(r) # 0 THEN "failed" ELSE "ok",
    CASE r.text = "empty"                    -> "unknown"
      [] r.text \in {"error", "some_failed"} -> "failed"
      [] OTHER                               -> "ok">>

Classify(e) ==
  IF ~IsResult(e) THEN "ok" ELSE Head(SelectSeq(Testimony(e.result), LAMBDA t : t # None))

Troubled(e) == IsResult(e) /\ Classify(e) # "ok"

(***************************************************************************)
(* LoopDetector                                                            *)
(***************************************************************************)
SameCall(e, f) == IsCall(f) /\ f.tool = e.tool /\ f.input = e.input

NearCall(e, f) ==
  /\ IsCall(f) /\ f.tool = e.tool
  /\ LET a == TokensOf[e.input]  b == TokensOf[f.input] IN
     /\ Cardinality(b) >= 2
     /\ 10 * Cardinality(a \cap b) >= 7 * Cardinality(a \cup b)

\* Mutation: one repetition less is a loop.
LoopsEager(e, h) ==
  IsCall(e) /\ 2 + Count(Recent(h, LoopWindow), LAMBDA f : SameCall(e, f)) >= LoopThreshold
Loops(e, h) ==
  LET recent == Recent(h, LoopWindow) IN
  /\ IsCall(e)
  /\ \/ 1 + Count(recent, LAMBDA f : SameCall(e, f)) >= LoopThreshold
     \/ /\ Cardinality(TokensOf[e.input]) >= 2
        /\ 1 + Count(recent, LAMBDA f : NearCall(e, f)) >= LoopThreshold

(***************************************************************************)
(* RegressionDetector                                                      *)
(***************************************************************************)
Regresses(e, h) ==
  /\ IsResult(e) /\ e.tool \in TestTools /\ Classify(e) = "failed"
  /\ \E i \in DOMAIN h : IsResult(h[i]) /\ h[i].tool = e.tool /\ Classify(h[i]) = "ok"

(***************************************************************************)
(* OffSpecDetector and BindingDriftDetector.  "shows" holds the paths that *)
(* the text of an event's prompt or result names.                          *)
(***************************************************************************)
EditedPath(e) == IF IsCall(e) /\ e.tool \in EditTools THEN PathOf[e.input] ELSE None

PathsIn(e) == IF e.tool = None THEN {} ELSE {PathOf[e.input]} \ {None}

InScope(e, h) ==
  LET path == EditedPath(e) IN
  \/ path \in Allowed \cup e.shows
  \/ \E i \in DOMAIN h : h[i].tool # None /\ path \in PathsIn(h[i]) \cup h[i].shows

DeniedEdit(e)    == EditedPath(e) \in Denied
OffSpec(e, h)    == DeniedEdit(e) \/ (EditedPath(e) # None /\ NudgeUnobserved /\ ~InScope(e, h))

Inspected(h) ==
  UNION {LET f == h[i] IN
         IF IsResult(f) THEN PathsIn(f) \cup f.shows
         ELSE IF f.tool \in EditTools THEN {} ELSE PathsIn(f) : i \in DOMAIN h}

MisBinds(e, h) ==
  LET path == EditedPath(e)  inspected == Inspected(Recent(h, BindingLookback)) IN
  /\ path # None /\ path \notin inspected
  /\ \E seen \in inspected : <<seen, path>> \in Confusable

(***************************************************************************)
(* ContextRotDetector: a long stretch of thought while no tool has moved.  *)
(***************************************************************************)
Gaps(s) == [i \in DOMAIN s |-> s[i].gap]
Elapsed(s, from) == LET sums == Sums(Gaps(s)) IN sums[Len(s)] - sums[from]

\* Mutation: the stretch is measured over the whole lookback.
QuietTimeWhole(e, h) == e.gap + (IF h = <<>> THEN 0 ELSE Elapsed(h, 1))
(* Since the last tool activity in the lookback, or since its start. *)
QuietTime(e, h) ==
  LET lookback == Recent(h, QuietLookback)
      work == {i \in DOMAIN lookback : IsToolWork(lookback[i])}
      from == IF work = {} THEN 1 ELSE CHOOSE i \in work : \A j \in work : j <= i IN
  IF lookback = <<>> THEN 0 ELSE e.gap + Elapsed(lookback, from)

Consecutive(recent) ==     \* the thoughts at the end, and the one at hand
  LET stretch == {n \in 0..Len(recent) :
                    \A i \in (Len(recent) - n + 1)..Len(recent) : IsThought(recent[i])} IN
  1 + (CHOOSE n \in stretch : \A k \in stretch : k <= n)

Rots(e, h) ==
  LET recent == Recent(h, RotWindow)
      thoughts == SelectSeq(recent, IsThought) IN
  /\ IsThought(e)
  /\ \A i \in DOMAIN recent : ~IsToolWork(recent[i])
  /\ QuietTime(e, h) >= MinQuiet
  /\ \/ Consecutive(recent) >= MaxConsecutive
     \/ e.chars + FoldLeft(LAMBDA sum, f : sum + f.chars, 0, thoughts) > MaxChars

(***************************************************************************)
(* CUSUMDriftDetector.  The baseline is a fraction <<sum, n>>; the sum of  *)
(* the statistic is kept in units of 1/(100 * n).                          *)
(***************************************************************************)
Signal(e) ==
  LET outcome == Classify(e) IN
  CASE outcome = "failed" -> 100 [] outcome = "unknown" -> UnknownWeight [] OTHER -> 0

Reference(h) == IF Len(h) > DriftWindow THEN Earlier(h, DriftWindow) ELSE <<>>

(* Only results carry signal. *)
Signals(s) == [i \in DOMAIN s |-> IF IsResult(s[i]) THEN Signal(s[i]) ELSE 0]
SignalSum(s) == Sums(Signals(s))[Len(s)]

\* Mutation: a clean reference lets the baseline fall to nothing.
BaselineUnfloored(reference) ==
  LET n == Count(reference, IsResult) IN
  IF n < MinBaselineSamples THEN <<Baseline, 1>> ELSE <<SignalSum(reference), n>>
(* The mean of the reference once it is long enough, at least half the     *)
(* prior; the prior before that.                                           *)
BaselineFor(reference) ==
  LET n == Count(reference, IsResult)
      sum == SignalSum(reference) IN
  IF n < MinBaselineSamples THEN <<Baseline, 1>>
  ELSE IF 2 * sum >= Baseline * n THEN <<sum, n>> ELSE <<Baseline, 2>>

Credits(seen, base) ==
  [i \in DOMAIN seen |->
     IF IsResult(seen[i]) THEN base[2] * (Signal(seen[i]) - Slack) - base[1] ELSE 0]
Walk(steps) ==         \* the sums of steps that never fall below nothing
  LET walk[i \in 0..Len(steps)] ==
        IF i = 0 THEN 0
        ELSE LET t == walk[i - 1] + steps[i] IN IF t > 0 THEN t ELSE 0 IN
  walk
Cusum(seen, base) == Walk(Credits(seen, base))[Len(seen)]

\* Mutation: the baseline is taken from the window that is alarming, too.
StatisticOfItself(e, h) ==
  LET base == BaselineFor(h) IN
  <<Cusum(Append(Recent(h, DriftWindow), e), base), base[2]>>
Statistic(e, h) ==
  LET base == BaselineFor(Reference(h)) IN
  <<Cusum(Append(Recent(h, DriftWindow), e), base), base[2]>>

Drifts(e, h) == LET s == Statistic(e, h) IN s[1] >= Threshold * s[2]
Watches(e, h) == LET s == Statistic(e, h) IN 100 * s[1] >= WatchPct * Threshold * s[2]

(***************************************************************************)
(* PolicyEngine._run_detectors and _wake                                   *)
(***************************************************************************)
DetectorOrder == <<"loop", "regression", "offspec", "contextrot", "binding", "drift">>
ASSUME NoneIsNoVerdict == None \notin ToSet(DetectorOrder) \X {"nudge", "block"}

Hits(e, h) ==
  <<Loops(e, h), Regresses(e, h), OffSpec(e, h), Rots(e, h), MisBinds(e, h), Drifts(e, h)>>

ActionOf(detector, e) == IF detector = "offspec" /\ DeniedEdit(e) THEN "block" ELSE "nudge"

RunDetectors(e, h) ==      \* the first that hits is the only one heard
  LET hits == Hits(e, h)
      hitting == {i \in DOMAIN DetectorOrder : hits[i]}
      first == DetectorOrder[CHOOSE i \in hitting : \A j \in hitting : i <= j] IN
  IF hitting = {} THEN None ELSE <<first, ActionOf(first, e)>>

Wakes(e, h) ==
  \/ e.kind \in {"prompt_submit", "stop"}
  \/ e.kind = "iteration_end" /\ (ReviewClean \/ \E i \in DOMAIN h : Troubled(h[i]))
  \/ e.kind = "tool_result" /\ Watches(e, h)

Init == events = <<>> /\ told = None /\ awake = FALSE /\ quiet = 0

(* The history of a detector is the window before the event. *)
Observe(e) ==
  /\ told' = RunDetectors(e, events)
  /\ awake' = Wakes(e, events)
  /\ events' = Recent(Append(events, e), MaxEvents)
  /\ quiet' = IF IsToolWork(e) \/ events = <<>> THEN 0
              ELSE IF quiet + e.gap > MinQuiet THEN MinQuiet ELSE quiet + e.gap

Next == \E e \in Observed : Observe(e)
Spec == Init /\ [][Next]_vars

-----------------------------------------------------------------------------
TypeOK ==
  /\ events \in Seq(Observed) /\ Len(events) <= MaxEvents
  /\ told = None \/ told \in ToSet(DetectorOrder) \X {"nudge", "block"}
  /\ awake \in BOOLEAN
  /\ quiet \in 0..MinQuiet

Heard(detector) == told' # None /\ told'[1] = detector

(* An isolated failure never alarms: whatever the session's own baseline,  *)
(* a drift verdict needs as many results that did not come back clean, in  *)
(* the monitoring window, as carry the statistic over the line at the      *)
(* lowest baseline the detector may adopt (CUSUMDriftDetector._statistic,  *)
(* _baseline_for).                                                         *)
DriftNeedsARun ==
  [][Heard("drift") =>
       2 * Threshold <= (200 - 2 * Slack - Baseline)
                        * Count(Append(Recent(events, DriftWindow), Last(events')), Troubled)]_vars

(* A run of failures that carries the statistic over the line at the prior *)
(* baseline is answered at its last result, by the drift alarm or by a     *)
(* sharper detector, as long as what lies before the monitoring window was *)
(* healthy; test_drift_detector_fires_on_sustained_failures tries one run. *)
FailureRunAlarms ==
  [][LET e == Last(events')
         seen == Append(Recent(events, DriftWindow), e)
         base == BaselineFor(Reference(events)) IN
     (/\ IsResult(e) /\ base[1] <= Baseline * base[2]
      /\ \E k \in 1..Len(seen) :
           LET run == {i \in k..Len(seen) : IsResult(seen[i])} IN
           /\ Cardinality(run) * (100 - Slack - Baseline) >= Threshold
           /\ \A i \in run : Classify(seen[i]) = "failed")
     => told' # None]_vars

(* Context rot is a matter of wall-clock time: a verdict of it means that  *)
(* the agent really has been quiet for MinQuiet, though the detector only  *)
(* sees the lookback (ContextRotDetector.evaluate).                        *)
RotNeedsQuiet == [][Heard("contextrot") => quiet' >= MinQuiet]_vars

(* An edit of a denied path that is not itself a repetition is blocked,    *)
(* whatever else the session shows (OffSpecDetector, _run_detectors).      *)
FirstDeniedEditsBlocked ==
  [][LET e == Last(events')  recent == Recent(events, LoopWindow) IN
     DeniedEdit(e) /\ 1 + Count(recent, LAMBDA f : SameCall(e, f) \/ NearCall(e, f)) < LoopThreshold
     => told' = <<"offspec", "block">>]_vars

(* Every edit of a denied path is blocked: the deny-globs are checked      *)
(* first (PolicyConfig, OffSpecDetector).                                  *)
DeniedEditsBlocked == [][DeniedEdit(Last(events')) => told' = <<"offspec", "block">>]_vars
=============================================================================
