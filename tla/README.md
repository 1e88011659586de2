# Verification of agent-shepherd

Agent Shepherd supervises coding agents (Claude Code, Codex, QwenPaw). Their
hooks send events to a local daemon, which answers each with a verdict: pass,
nudge (guidance for the agent), block or escalate. This directory holds TLA+
models of the parts whose correctness depends on order, concurrency and
failure, the TLC instances that check them, and TLAPS proofs of the properties
that matter most.

    tlc -workers 2 -config engine_concurrent.cfg MCPolicyEngine
    tlapm PolicyEngineProofs.tla

Paths below are relative to `src/agent_shepherd/`. `PROJECT.json` maps every
definition to the lines it models and lists the hazards the properties are for.

## 1. Inventory

| Component | State | Operations | Model |
|---|---|---|---|
| Policy engine `core/server.py` | per session: window of events, cooldown clocks, judge scores, "drift confirmed", detectors waiting for a review, counters; one parked verdict per session | `process` (snapshot, finalize at STOP, drain, house rules, Tier 0, wake gate, judge, feedback, admission, control, tally, ledger, park), `take_pending_verdict`, `note_outcome` | `PolicyEngine` |
| HTTP daemon `core/server.py` | the socket; a thread per request | ingest, pending, health, stats | ingest and pending in `PolicyEngine`, the port and health in `Lifecycle`; request parsing not modelled |
| Tier 0 detectors `core/rules/detectors.py` | none (pure); a cache of thresholds on disk | six `evaluate`, `watch_level` | `Detectors`, calibration left out |
| Outcome signals `core/rules/signals.py` | none (pure) | `classify` | `Detectors` |
| Audit ledger `core/ledger.py` | one JSONL file per session, a lock per process | `append`, `recent`, `iter_records`; `shepherd tail` | `Ledger`; an atomic variable of `PolicyEngine` and `Rulebook` |
| Rulebook `core/rules/rulebook.py` | scorecards per agent and detector, a cursor per session, `rulebook.json` | observe, judge labels, save, load; scores, veto, ranking, header | learning and persistence in `Rulebook`, scores and header in `HouseRules` |
| Risk model `core/judge/risk.py` | labelled scores and admission line per key, `risk.json` | observe, refit, save, load, threshold_for | `RiskModel` |
| Judge `core/judge/{client,tier1,prompts}.py` | `last_usage` | score (an HTTP call), parse | outcomes in `PolicyEngine` |
| Hook adapters `adapters/{hook,daemon}.py`, `claude`, `codex` | none (a process per hook) | normalize, post with a 5 s limit, translate the verdict | `HookAdapters` |
| QwenPaw plugin `adapters/qwenpaw` | a continuation | middleware, stop gate, REST polling | `HookAdapters`, session resolution left out |
| Installers `adapters/**/install.py`, `backup.py`, `uninstall.py`, `cli.py` | other tools' configuration files, backups, the plugin directory | install, uninstall | `Installers` |
| Lifecycle `cli.py`, `packaging/shepherd.service` | pidfile, port, process, unit | start, start-bg, stop | `Lifecycle` |
| Configuration `core/config.py` | `config.yaml` | load, merge defaults, prune | not modelled |
| Evaluation `eval/` | none | scenarios, metrics | not modelled |
| Bundle builder `packaging/build_plugin_zip.py` | none | build | not modelled |

How they interact. A hook posts an event; the daemon thread appends it to the
ledger and runs the engine. The engine reads the session's window, may answer
from the parked slot, may ask the detectors and then the judge, and writes the
verdict to the ledger, the slot and the response. A review by the judge labels
detectors in the rulebook; a STOP makes the rulebook read the session's ledger
and the risk model learn from the session's scores. The rulebook's header comes
back to the agent at its next prompt, the risk model's line decides which
nudges of the judge are admitted. The installers put the hooks in place and,
when the last one is taken out, stop the daemon.

What is hard here:

* `ThreadingHTTPServer` runs every request on its own thread. `PolicyEngine._lock`
  covers the window, the slot and the table of sessions only; clocks, counters,
  queues, scores, the rulebook, the risk model and `last_usage` are shared bare.
* An intervention goes to three places (ledger, slot, response) in three steps,
  and the client it is meant for may have given up.
* A ledger append may raise or stop in the middle of a line, a save may fail
  silently, the daemon may die anywhere and is restarted; memory is lost, three
  files survive.
* The judge may answer anything, answer nonsense or time out.
* The rulebook judges a growing stream piecemeal and must not depend on the pieces.
* The detectors see a bounded window; what they measure may have slid out of it.
* The admission line is fitted with floating-point arithmetic, the header budget
  is charged with rounded estimates.
* `stop` looks for the daemon by a pidfile, a port and a unit that disagree;
  pids are reused.
* Installers edit files their owners write at the same time.

What makes each component correct: engine - authority, audit, delivery,
hysteresis, counters that claim nothing that did not happen, labels that stand for
something, every request answered; adapters - what is
collected is heard and at most twice, stops only where agreed; detectors - alarms need what they claim, a denied edit is blocked;
ledger - damage stays where it happened; rulebook - each nudge counted once, the
book equals a replay, opinions move scores the right way; risk model - a line
stands on evidence and keeps its budget, labels survive; lifecycle - stop stops
the daemon, a supervised machine has one; installers - nothing foreign lost, the
daemon goes last.

## 2. Modules

    VerdictDelivery          what the engine promises (abstract)
      ^ refined by             ^ used as the daemon by
    PolicyEngine             HookAdapters   <- HookAdaptersProofs
      ^- PolicyEngineProofs
    Detectors                             <- DetectorsProofs
    Ledger                                <- LedgerProofs
    Rulebook                              <- RulebookProofs
    HouseRules                            <- HouseRulesProofs
    RiskModel                             <- RiskModelProofs
    Lifecycle, Installers  <- Host        <- HostProofs

Each of `PolicyEngine`, `HookAdapters`, `Detectors`, `Ledger`, `Rulebook`,
`HouseRules`, `RiskModel` and `Host` has an `MC...` module with the instances.

### PolicyEngine

A request is a thread: `pc[r]` is where it stands in `process`, `cand[r]` the
local `verdict`, `history[r]` the window it copied, `bar[r]` the admission line
a review read, `was[r]` the value a `+= 1` has read, `reply[r]` the response.
Actions end where another thread can be noticed: a lock released, a file
written, a call returned, something shared read or written without a lock. So
`_admit` is two actions (`Admit` reads the clock, `Stamp` sets it), a tally is two
(`Load`, `Store`: no lock is held, so one of two counts can be lost), the test
whether a detector waits and its `append` are two (`Confirm`, `Enqueue`); a loop over
a shared list and its `clear()` are steps of their own, for the waiting detectors
(`FeedOne`, `FeedDone`, `Empty`) as for the scores (`LabelOne`, `LabelDone`, `Forget`).
`req[r].past` is history, for the properties alone: which requests of the
session had ended when `r` arrived. Two requests of a session *overlapped* if
neither is in the other's past (`Overlapped`).

| Code | Action |
|---|---|
| `Handler._ingest`, `ledger.record_event` | `Ingest`, `Ignore` (agent not enabled) |
| `GET /pending` | `Poll` |
| the locked block of `process` | `Snapshot` |
| `_finalize_session`, `_label_judge_outcomes`, `note_outcome` | `Finalize`, `LabelOne`, `LabelDone`, `Forget` |
| drain at a gate; house rules at a prompt | `DrainParked`, `DrainEmpty`; `Header`, `NoHeader` |
| `_run_detectors` (first hit wins) | `Detect` |
| `_wake`, "no drift detected" | `WakeJudge`, `NoDrift` |
| `_score`: answer, unparsable answer, exception | `JudgeAnswers`, `JudgeGarbled`, `JudgeOutage` |
| `_feed_rulebook` | `FeedOne`, `FeedDone`, `Empty` |
| `_admit`; `_silent` | `Admit`, `Stamp`; `Load`, `Store`, `Silence` |
| `_control` | `Controlled` in `Withhold`, `Intervene` |
| `_tally`; `tier0_confirmed`, `tier0_pending` | `Load`, `Store`; `Confirm`, `Enqueue` |
| `record_verdict`, `_park` | `Record`, `Park` |
| process death, `Restart=always` | `Restart` |

Abstracted: texts; what a detector computes (it may hit on the events it looks
at; off-spec always hits on a path a deny-glob matches, with a block, and may hit on
another call, with a nudge, where `scope_nudge_unobserved` is on; module `Detectors`
computes it);
the judge; the value a refit installs (`RefitLines`; `RiskModel` computes it);
whether the book promotes a rule (`HouseRules` computes it). Verdicts carry the
request that decided them (`by`), so a property can follow one through slot and
ledger.

### VerdictDelivery

The promise alone: a request decides at most one intervention; it is in the
audit record before anyone is told; it stops only an agent that opted in; it is
told to its own requester, put in the one slot of the session and collected
there at most once; a restart forgets slots. `PolicyEngine!Delivery` is the
refinement mapping, and `HookAdapters` has the same module for its daemon.

### HookAdapters

One exchange with the daemon is a request `r`: `call[r]` is the host event that
began it, how far its client is and how far the daemon is. `Send` is a hook
process, the middleware, the poller, or the GET of `SupervisorGate.check`;
`GatePost` is the POST of the gate when the GET brought nothing; `Receive` and
`GiveUp` end the client's side (`daemon.post` and `_get` return `None` after
their limit, on a refused connection and on a lost answer alike) while the
daemon goes on. `HookKind`, `CodexKind`, `PluginKind` are `_normalize`;
`ClaudeOutput`, `CodexOutput`, `PluginOutput`, `PollerOutput` are `_response`,
the gate and `poll`. The daemon's steps (`Collect`, `Decide`, `Tell`, `Silent`,
`Greet`, `Restart`) are those of `VerdictDelivery` with the kinds of event they
are for. Wording is one bit (a judge may nudge without guidance).

### Detectors

`Observe(e)` is one event through `_run_detectors` and `_wake`; the history of a
detector is the window before the event. Each detector is one operator over the
event and the window (`Loops`, `Regresses`, `OffSpec`, `Rots`, `MisBinds`,
`Drifts`), written with sets and folds where the code loops. `Testimony` is the
precedence of evidence in `signals.classify`. An event carries the time since
the one before it, so the window needs no clock. Times are differences of running
sums (`Sums`); the CUSUM statistic is the end of a walk that never falls below
nothing (`Walk`) over what each result adds (`Credits`), exact in fractions of the
baseline's denominator; both are recursive functions on the places of the window. Globs, tokenizing, and the similarity
of file names are given as sets and relations; the alarm line (calibrated by
simulation in the code) is the constant `Threshold`.

### Ledger

The file is the sequence of pieces that were written, in byte order, each cut
where its write stopped: inside the line, inside a character, before the
newline, or nowhere. `Write`, `WriteMore`, `Close` are an append under its lock,
`Fail` is a full disk, `Crash` a kill and restart; a piece without newline is
continued by the next one on the same line. `IterRecords` is what
`iter_records` and `recent` return, `Decodable` whether they return at all;
`Follow` is one round of `shepherd tail`.

### Rulebook

The ledger of a session is a sequence of records, the book scorecards and
cursors, the file a copy of the book. `observe` is `Read` (ledger and cursor),
`JudgeOne` per nudge, `Close` (cursor); `save` is `Dump` and `Replace`, which may
leave the old file; `Crash` reloads it. Judging a nudge (`Following`, `Closed`,
`Refired`, `Offending`, `Decided`, `LeftAlone`, `Followed`, `Steps`) is written
with sets and quantifiers over positions where the code has loops with early
returns. The Jaccard bar is the relation `Near`. `Label` lets any detector that
nudged be labelled by a review.

### HouseRules

What the book makes of its scorecards: Wilson bounds and the judge's weight in
units of 1/10000 (`Score`), floors and veto (`Admissible`), the best card of a
detector (`Promoted`), the order (`Rules`: a card's place is the number of cards
not behind it, which is what sorting by a strict order gives) and the header cut
to its budget (`Blocks` is the loop, the k-th entry the block after k lines;
`RenderHeader` its last). A card starts as any the daemon may have loaded, with
at most `MaxLoaded` nudges and labels. Texts are their lengths; an estimate is a quarter of the
length rounded half to even, as Python's `round` does; counts print at most seven
digits. The Wilson table rounds
down where the code has doubles; scores are compared across one recorded sample
or label, where the difference is far above the rounding.

### RiskModel

Scores and lines are integers in units of 1/10000. The grid is the one the code
really walks: adding 0.01 to a double overshoots at the points `AboveScore`
(then a score of those two decimals is not a hit) and the rounding up yields one
unit more at `AboveLine`. Compared with the real `calibrate` on 20000 random
inputs, a scan from the first point (`ScannedFrom`) gave the same line every time.

Nothing is locked, so each label goes through steps between which other threads
run. `Observe` appends and evicts; `Count` compares the number of clean labels with
the minimum; `Scan` walks the grid over the list as it is at each point and may be
interrupted before the points in `Pauses` (the proofs have any set of them); `Assign`
or `Drop` stores the line or removes it (`Install`). Of a save, `Snapshot` slices the
labels, `Serialize` reads the live thresholds after the directory was made, `Open`
creates or truncates the temporary file, `Write` writes to what is open, `Replace`
moves the name; `DiskError` ends it anywhere, and `Restart` loads the file. A file is
an inode, to which `risk.json` and `risk.json.tmp` refer.

Three history variables name the exceptions the properties need. `late`: the line of
the key was fitted while another thread added a clean label, or comes from a file;
such a line speaks of other evidence than the one at hand until the next fit.
`ahead`: the key had no line when a save sliced its labels and got its first one
before that save read the lines, so the file may hold a line beside one label too
few. `stale`: the last save failed or met another. The number of clean labels is read
once per fit in the model, for the minimum, the correction and the divisor (lines 78,
81, 82); a label between these makes the fit `met`, and no property speaks of what
line it finds. The lines become text in one step.

### Lifecycle, Installers, Host

`Lifecycle`: `proc[p]` is what the pid `p` is (free, a daemon still calibrating,
a daemon that listens, a zombie child of a waiting `start-bg`, a stranger of
this or of another user); `unit` what systemd wants, `unitOwned` the unit's
processes; `cmd[t]` where the command of a terminal stands. `_stop_daemon` is
`StopReadsPidfile`, `StopKills`, `StopAsks`, `StopSignals`, `StopSystemctl`, one
action for each system call another process can come between; `start-bg` is
`StartBg`, `OpenPidfile`, `WritePidfile`, `ChildExited`, `ChildReady`. Ports are left
open: a daemon that comes up may find its port taken by one that listens or have one of
its own (`--port`, `SHEPHERD_PORT`), and a question to `/health` may find the daemon or
miss it, by its port or because it did not answer in two seconds. A `stop` that was not
answered ends in `"nobody"` ("no daemon running", exit code 0), one that has signalled a
process or stopped the unit in `"stopped"`.

`Installers`: of a hook file the version of the owner's text and our entries (in
their present or in an older shape) are told apart; `Load`, `Backup`, `Replace`
are the steps of `write_json`, `MoveAside`, `MoveCurrent`, `CopyBundle`,
`MoveOut` those of the plugin bundle. A plugin's directory may hold the
present bundle and one of an older release; QwenPaw runs whatever is there (`Posts`),
`_adapter_installed` sees the present one only. `Edit` is the owner writing at any time,
`Interrupted` a command that ends anywhere.

`Host` composes them: a terminal runs one command at a time, and the end of an
uninstall that leaves no adapter (`UninstallStopsDaemon`) is a `LetDaemonGo` of
the one and a `StopReadsPidfile` of the other.

## 3. What each run checks

| Run | Instance | Shows |
|---|---|---|
| `engine_concurrent` | 3 requests, 1 advisory session, 2 at once, off-spec with both its branches, judge asks to block | types; no block for an advisory agent (`AdvisoryAgentsNeverStopped`); `/stats` may lose counts and never claims one too many (`StatsNeverOverstate`); a Tier 0 detector is silenced only for a nudge really advised (`TierZeroSilencedBecauseAdvised`); the window loses and swaps no event (`WindowTracksEvents`); `ImplementsDelivery` |
| `engine_delivery` | 3 requests, 2 sessions (one opted in), polls, failing appends, 1 restart | `InterventionsAudited`, `ParkedHandedOutOnce`, and `DeliveryInvariant`, the inductive invariant of the proofs |
| `engine_labels` | 3 requests of one session, 2 at once, STOPs, reviews, failing appends | `TierZeroNudgesSpaced`, `ScoresLabelledOnce`, `LabelsBacked`, `OnlyReviewsLabel` |
| `engine_liveness` | 2 requests, 2 sessions, STOPs and prompts, fair threads | `AcceptedIsAnswered` |
| `adapters` | 2 sessions, of which one may be stopped; each of the four clients on either side; 3 exchanges, one of them of the other session, lost and late answers, 1 restart | no intervention taken out of the daemon and dropped (`CollectedIsHeard`); `HeardAtMostTwice`; `StoppedOnlyWhereAgreed` |
| `detectors` | every stream of 8 kinds of event through a window of 6 | an isolated failure never alarms (`DriftNeedsARun`), a run of failures is answered (`FailureRunAlarms`), context rot means real quiet (`RotNeedsQuiet`), `FirstDeniedEditsBlocked` |
| `ledger` | 2 threads, 5 records (one with wide characters), 3 faults, a tail | `DamageConfined`, `OnlyUnendedVanish`, `TailMissesOnlyVanished` |
| `rulebook` | every stream of 5 records: 3 calls (two near-identical, one edit), 2 families, window 2, 1 crash | `CountedOnce`, `MatchesReplay`, `StopSettles` |
| `house_rules` | 3 scorecards of 2 agents, 2 samples and 3 labels more, 12 budgets | scores within their range (`TypeOK`), `HeaderWithinBudget`, `DisagreementNeverHelps`, `FollowingNeverHurts` |
| `risk_model` | 2 threads, 3 labels of one key out of 4 kinds, scans interrupted at 2 points, 2 kept in memory, 1 on disk, failing saves, 1 restart | `LineStandsOnEvidence`, `LineFitsBudget`, `LabelsDurable` |
| `host` | 3 pids, 2 terminals, the unit; 3 agents' files and their owners | `LoneDaemonStopped`, `OnlyLateEditsLost`, `NeverASecondBundle`, `DaemonGoesLast`, `SupervisedAgain` |
| `claim_denied_edit` | the instance of `detectors` | `DeniedEditsBlocked` is violated: the divergence of section 6 |

What the code keeps only as long as hooks do not race is stated as just that. Three
properties of the engine name the overlap that excuses them: a counter is exact
where no hooks of the session overlapped (`Undisturbed`), a nudge holds its detector
quiet if nothing overlapped it, a score or a nudge is labelled twice only by two reviews or
STOPs that overlapped. Their runs serve two hooks of a session at once, and
without the exception TLC finds each violated. The properties of `rulebook` are
checked with one element in `Threads`, because overlapping STOPs count twice.
Section 6 says so. `LoneDaemonStopped` is about a stop that
nobody disturbs (`Lone`, `alone`) and what it says; what goes wrong otherwise is in
section 6, too. `DaemonGoesLast` names the one adapter that may be overlooked.

**Bounds.** *Engine:* three requests are enough for a racing pair plus the gate or
poll that collects what they left, and for a nudge, a review and a second review, or
a review and two STOPs, each in turn or two of them at once. Two times and a cooldown of 1 give "inside" and "outside". A window
of two events evicts at the third. *Adapters:* three exchanges are a call whose
answer is late, the gate that collects its verdict, and one more gate that could
hear it a third time; the restart falls anywhere between. One of the exchanges may be
of an agent that has not agreed to being stopped (`MaxAdvised`), and then there is no
restart (a restart empties all slots). `MaxWaiting` 1 keeps
one hook of a session at a time in the run (the proofs have any number).
*Detectors:* a window of 6 with sub-windows of 2 to 5 lets every sub-window end
inside the window, so a repetition, a run of failures or the last tool activity
can be inside one detector's view and outside another's; the three results
(failed, clean by exit code against an error text, empty) give the three
signals. *Ledger:* a fault, its victim and a record after it need three records,
two overlapping faults five. *Rulebook:* a window of 2 within 5 records lets a
nudge close by events, by a STOP, re-fire, or stay open over an observation and
a crash. *House rules:* the loaded cards lie two samples or labels from each
floor, the budgets on both sides of each cut. *Risk model:* 2 kept and 1 on disk
make eviction and truncation happen with 3 labels; `MinSamples` 1 and a target of 60 %
put the line at 0.06, in the middle and at the top of the grid; a scan is interrupted
before the first point that could fit (7) or between two that could (61). Each named
exception (`late`, `ahead`, 0.06, the top) was seen to be needed: without it TLC finds
the property violated.
*Host:* three pids are a daemon, its successor and a stranger that gets a pid
again. The budgets of `Allowances` are spent on the processes alone (2 starts, 2
stops, a death, a stranger), on the files alone (3 commands, 2 edits, an
interruption), or on a few of both; the two sides share only the step in which
an uninstall stops the daemon, and the proofs have no budgets. Bounds in guards:
`MaxInFlight`, `MaxRestarts`, `MaxWaiting`, `MaxAdvised`, `MaxCrashes`, `MaxRecords`,
`MaxLabels`, `MaxFaults`, `MaxSamples`, `left`, `quota`. Requests of the engine
and threads of the risk model are symmetric. Deadlock is not checked: finitely
many requests, records and commands end.

**Fairness.** `PolicyEngine!FairSpec`: weak fairness of `Step(r)` for each request:
the thread of an accepted request keeps running (the operating system schedules
it, the interpreter lock is handed round) and the judge call returns (its HTTP
client has a timeout, `core/judge/client.py`). `HookAdapters` states none: its
clients may give up at any time, and the daemon may hang for ever. `Host!FairProcesses`: a process
that was started comes to bind the port, and systemd restarts its unit
(`Restart=always`). Arrivals, polls, commands, deaths, edits and restarts of the
daemon by failure are never fair.

## 4. What is proved

For every value of the constants, from the named assumptions of the modules,
which type the constants and say little more: `RiskAssumption` also says that the
sample minimum is at most the labels kept on disk (20 against 500 by default; a
user who sets `risk_min_samples` above 500 is outside it), `RulebookAssumption`
that nearness is symmetric and within one tool, `HouseAssumption` that names are
ordered, that a loaded card claims no more verdicts than nudges (what
`RulebookTypes` proves of every card saved) and that the judge's shrinkage is not 0
(4 in the code), `DetectorsAssumption` that an unknown outcome weighs at most as much
as a failure (as the repository's README says; the configuration does not check it).

Three theorems have a hypothesis more, stated in the theorem: `Alone` (one thread at
the book) in two of the rulebook, `FailOpen` (the default) in one of the engine. Each is
what the code needs: without it TLC finds the property violated, and section 6 says
how. Requests, sessions, events, threads of the engine and restarts stay unbounded.

| Theorem | States |
|---|---|
| `PolicyEngineProofs!TypeCorrect` | `Spec => []TypeOK` |
| `PolicyEngineProofs!DeliverySound` | `Spec => []DeliveryInvariant` |
| `PolicyEngineProofs!AuthorityHolds` | `Spec => []AdvisoryAgentsNeverStopped` |
| `PolicyEngineProofs!AuditHolds` | `Spec => []InterventionsAudited` |
| `PolicyEngineProofs!HandedOutOnce` | `Spec => []ParkedHandedOutOnce` |
| `PolicyEngineProofs!DeliveryImplemented` | `Spec => ImplementsDelivery` |
| `PolicyEngineProofs!WindowKeeps` | `Spec => []WindowTracksEvents` |
| `PolicyEngineProofs!SilenceHasAReason` | `Spec => []TierZeroSilencedBecauseAdvised` |
| `PolicyEngineProofs!CountersNeverOverstate` | `Spec => []StatsNeverOverstate` |
| `PolicyEngineProofs!OutageLabelsNothing` | `FailOpen`: `Spec => OnlyReviewsLabel` |
| `PolicyEngineProofs!NudgesSpaced` | `Spec => []TierZeroNudgesSpaced` |
| `PolicyEngineProofs!ScoresLabelled` | `Spec => []ScoresLabelledOnce` |
| `PolicyEngineProofs!LabelsStandForInterventions` | `Spec => []LabelsBacked` |
| `HookAdaptersProofs!AdapterTypes` | `Spec => []TypeOK` |
| `HookAdaptersProofs!NothingDropped` | `Spec => []CollectedIsHeard` |
| `HookAdaptersProofs!TwiceAtMost` | `Spec => []HeardAtMostTwice` |
| `HookAdaptersProofs!StopsAgreed` | `Spec => []StoppedOnlyWhereAgreed` |
| `DetectorsProofs!DetectorTypes` | `Spec => []TypeOK` |
| `DetectorsProofs!DeniedBlocked` | `Spec => FirstDeniedEditsBlocked` |
| `DetectorsProofs!RotIsRealQuiet` | `Spec => RotNeedsQuiet` |
| `DetectorsProofs!DriftIsARun` | `Spec => DriftNeedsARun` |
| `DetectorsProofs!FailureRunIsAnswered` | `Spec => FailureRunAlarms` |
| `LedgerProofs!LedgerTypes` | `Spec => []TypeOK` |
| `LedgerProofs!Confined` | `Spec => []DamageConfined` |
| `LedgerProofs!UnendedVanish` | `Spec => OnlyUnendedVanish` |
| `LedgerProofs!TailMisses` | `Spec => []TailMissesOnlyVanished` |
| `RulebookProofs!RulebookTypes` | `Spec => []TypeOK`, any number of threads |
| `RulebookProofs!StopsSettle` | `Spec => StopSettles`, any number of threads |
| `RulebookProofs!NudgesCountedOnce` | `Alone`: `Spec => []CountedOnce` |
| `RulebookProofs!VerdictsMatchReplay` | `Alone`: `Spec => []MatchesReplay` |
| `HouseRulesProofs!ScoresAreProportions` | `Spec => []TypeOK` |
| `HouseRulesProofs!HeaderFits` | `Spec => []HeaderWithinBudget` |
| `RiskModelProofs!RiskTypes` | `Spec => []TypeOK` |
| `RiskModelProofs!LinesEarned` | `Spec => []LineStandsOnEvidence` |
| `RiskModelProofs!LinesFit` | `Spec => []LineFitsBudget` |
| `RiskModelProofs!LabelsLast` | `Spec => []LabelsDurable` |
| `HostProofs!ProcessesTyped`, `FilesTypes` | `FairHost => []TypeOK`, `[]FilesTypeOK` |
| `HostProofs!StopMeansStopped` | `FairHost => []LoneDaemonStopped` |
| `HostProofs!EditsKept` | `FairHost => []OnlyLateEditsLost` |
| `HostProofs!OneBundle` | `FairHost => NeverASecondBundle` |
| `HostProofs!DaemonLast` | `FairHost => DaemonGoesLast` |

*Engine, the verdicts.* None of the three safety properties is inductive: what is in a slot or
a reply got there several steps after it was decided. `Sound` says where a
verdict can be: a thread past the decision holds its own (`Authored`), from
`Intervene` on one the agent may be told (`Ready`), before `Park` it is in the
ledger (`Recorded`); the ledger has at most one verdict per thread, all allowed
(`LedgerSound`); slots and replies hold only ledger lines of ended threads of
that session (`SlotSound`, `ReplySound`); what is in a slot was told to its
requester only (`SlotFresh`). Most steps neither tell nor record anything;
`UnheardSound` deals with all of them at once, and only `Header`, `Record`,
`Park`, `DrainParked`, `Poll` and `Restart` need a proof of their own. The
refinement uses the same division: an unheard step is a stutter of
`VerdictDelivery`, and each of the six maps to one abstract action.

*Engine, the books.* `StepKeeps` says which of the steps write what, so each of the
following invariants meets only a few of them. *Window:* `WindowSound` adds to the
property that a request in a window is past its snapshot, so that what it saw is
settled (`WindowSettled`). *Cooldown:* a
silenced nudge names a clock, the clock the thread that stamped it, and that thread
is past its decision for good: `Hysteresis` says so of every clock (`ClocksBacked`),
of every thread told "silent" but not at the ledger yet (`Sure`), and of every such
line (`Silenced`); a thread lost to a restart counts as advised because the clock it
set may have silenced others before.

*Engine, overlaps.* The three invariants that follow rest on `Base`: a thread that is
served belongs to this incarnation (`Current`), the past of a request is over
(`PastOver`), and a thread that has asked nobody has no verdict (`Blank`). So two
hooks served together overlap (`TogetherOverlap`), of two that did not one came before
(`CameBefore`), and to have overlapped is for ever (`OverlapKept`). *Counters:* a thread
joins its account in the step that stores (`TalliedStep`), so what it had loaded is below
the account at that moment: `Loaded` says of a loaded value what `Stored` says of a
counter. In a calm session nobody can come between load and store, and both are
exact (`Account`). *Spacing:* the clock of a detector does not go back behind a
nudge that ran undisturbed (`Clocked`), because whoever restarts it later arrived
after that nudge and found the cooldown over; a thread past the check knows itself a
cooldown away from all of those (`SpacedOut`). *Scores:* a list holds scores of its
session, each once (`ScoresOwned`); a score that is labelled and still listed has its
STOP at the list and past it (`ScoresHeld`), so a STOP that labels it again overlaps
that one; and a STOP that goes on has fed every score of its past (`PastFed`), so what
it drops is not of its past. *Labels:* the same for the queue of nudges: each waits once,
past the queue (`QueueOwned`), a label is about one in the session of its review
(`BookOwned`), and while a labelled nudge is still queued its review is on the way to
empty the queue (`QueueHeld`), so a second label is of a review that overlapped
(`LabelledApart`). The saved book is a part of the one in memory, so a restart adds none.

*Adapters.* The three properties speak of what a client has done, long after the
daemon did its part. `Linked` ties the two ends together: what the wire carries
for each stage of an exchange (`Wire`), that everything told stops only who
agreed (`Authorized`), where an intervention is between the slot, one collector
and oblivion (`Placed`), and that an output is what `Output` makes of what was
told (`Said`). Each property follows from it without another induction.

*Detectors.* `FirstDeniedEditsBlocked` is about one step, but its antecedent counts
repetitions that are either identical or near, and the detector counts them
apart: neither count can reach the threshold when their union does not
(`CountRepeats`), the window being a finite sequence (`TypeOK`). The regression
detector never speaks of a call, so the off-spec detector is the first.
For context rot the invariant is `QuietCovers`: whatever part of the window is free of
tool work, `quiet` counts its time. It has to speak of every part, because events slide
out of the window and the detector measures from the last tool activity its lookback
still shows, or from the lookback's start. The two properties of drift follow from
bounds on a walk: it is no higher than its largest climb times the places where it climbs
(`WalkBelow`), and where it never falls, at least its smallest climb times those
(`WalkAbove`); both by the least place where it would not be so. The climbs are those of
troubled results at half the prior baseline in the first, of failures at the prior in
the second. `HeardHits` and `HitIsHeard` link the detector to the verdict.

*Ledger.* `Sound` says that a record is in one piece only, that what returned is ended,
and that a thread in its append holds the lock and owns the last piece. Torn pieces
of nobody are `Broken`, and there are no more of them than faults (`OneEach`). The
lost records that had returned are mapped one to one to the broken pieces before
them. For the tail, `IterRecords` is a filtered sequence: its n-th record sits at the
n-th good piece. `Rank` numbers the good pieces and `Good` names them, and the
lemmas about them say what appending a piece, or ending the last one otherwise, does
to the sequence. The only piece that changes is the last, and only while its
append has not returned (`UnendedVanish`). `TailSound` then says that a record the tail
has printed was written up to its newline at least, ranks within the tail's count
if it still stands (`PrintedSound`), and is among the vanished if it does not
(`VanishedSound`): of the first `seen` good pieces at most as many are unprinted as
printed ones are gone.

*Rulebook.* While an observation runs, memory holds counts its cursor does not
speak for. `Progress` therefore compares the scorecards with the book whose
cursor stands where the observation stands (`Advanced`), and needs the stream
being read to be a prefix of the ledger; that holds because stamps ascend
(`Ascending`) and the stream is then not flipped. `Kept` says the same of the
file and of copies being saved. Each judged nudge adds one element to the set of
those read, and `Cardinality` counts it. The proof needs `Alone`; the code does. For the
verdicts, the same invariant carries the tallies: a nudge whose window has closed is
judged by the records up to where it closed, so it is judged alike in every longer
ledger, and what has been read piecemeal equals one replay. `StopsSettle` needs no
`Alone`: after a STOP no window of the stream read is open.

*House rules.* The scores need arithmetic only: no root of a negative number, the
Wilson bound below its rate (`WilsonBound`), a weight in the unit interval, so the
score is an average (`Average`). The cards stay consistent, and bounded by what was
loaded and recorded (`Counted`). The header is a loop, and induction over it is out of the prover's
reach in its usual form; the argument goes by the least k at which the block would
not fit (`LeastPlace`): k is not 0, the block before it fits, and one line keeps it so
(`LineAdded`), by cases on whether it was added whole, cut, or left out. The order
is shown to number the promoted cards from 1 without gaps (`PlaceGrows`,
`RulesPlaced`), by the same argument.

*Risk model.* The file a restart loads was copied some steps earlier by some
thread and may have been overwritten through another's handle, so the invariant
`EveryCopyEarned` speaks of every copy - memory, the payload in a thread's hands,
every inode: where it has a line it has the labels behind it. It is preserved
because a label never takes evidence away (`LearnedKeeps`), a fit needs the
minimum, and truncation keeps at least the minimum (`PayloadEarned`). Between its
slices and its text a save has labels only; that a line read then stands on them is
what fails for a first line, and `ahead` carries that exception with every copy. `Shaped` bounds the same copies: memory by `Kept`, every file
by `OnDisk`, every line by the grid. A line in force is the fit of the labels beside it
unless a label came since or the fit was met (`LinesFresh`); to keep that, a fit under
way that nobody met knows the number of labels and that every point it has passed
does not fit (`Knows`), so a scan that resumes finds what one from the first point
would (`ScanResumed`). The scores such a line admits are within the budget, and one
step lower they would not be (`ScannedFits`). `Durable` follows a save
that no other has met (`SavedAlone`): its copy is the memory, the temporary file is
its own from `write` on and holds the copy at `replace`.

*Host.* `FilesSound` says what is true between the steps of a command: before a
replacement the owner's last words are in a backup or came after it (`InBackup`), a
bundle is moved in only after the older ones went out, and of the agents of an
uninstall only those still to do are posting (`Undone`). The stop proof keeps
`Undisturbed`: between reading the pidfile and its answer, what a lone stop will
find next is the one daemon (`Before`), the process it kills if the pidfile named it;
once it has answered there is none, or it said that it failed or found nobody (`After`).

**Only model-checked:** `DisagreementNeverHelps` and `FollowingNeverHurts` (that the
rounded Wilson bound is monotone; true of the table that is checked, a matter of the
rounding and not of the code for other bounds); and the liveness properties `AcceptedIsAnswered`, `SupervisedAgain`
(liveness under fairness is out of the prover's reach). Every other property a passing
run checks is a theorem.

## 5. Not modelled

* `core/config.py`: sequential merging of a YAML file with defaults; what matters
  to the other parts appears as their constants.
* `eval/`: an offline benchmark over built-in scenarios with pseudo-random data.
  Nothing reads what it computes.
* `packaging/build_plugin_zip.py`: pure I/O.
* Texts: prompts, guidance and its truncation, JSON parsing of the judge's
  answer, error grammars, globs, tokenizing. The models keep what such a function
  finds.
* The simulation that calibrates the CUSUM line, and its cache on disk.
* HTTP request parsing, `/stats`, the reporting commands of `cli.py` (`status`,
  `stats`, `risk`, `replay`): they read only. `shepherd tail` is modelled.
* `uninstall --purge` and `--dry-run`; `Rulebook.from_ledger` over all sessions; the
  validation of a book edited by hand; how the plugin finds its session id.
* That a hook returns in time: the limits of `httpx` are per operation, and what its host
  does when they add up is the host's matter.
* Token and call accounting (`judge_calls`, `judge_tokens`, `last_usage`).
* Interpreter switches inside a single statement, but for the counters of the engine,
  which are read and written in two steps (`to_dict` and a dictionary lookup are
  atomic); an agent clock that runs against the daemon's (the stamps of a session
  ascend in `Rulebook!Recorded`); two daemons that write one ledger.

## 6. Divergences

Checked by a run of its own: `claim_denied_edit`. `_run_detectors` returns the first
hit and the loop detector comes first (`core/server.py:379`), so the third identical
edit of a denied path is answered with the loop nudge, and further ones inside its
cooldown with a pass; `core/config.py:133` says "Deny-globs are checked first and
BLOCK." What does hold is proved: `FirstDeniedEditsBlocked`.

Where a document or a comment says otherwise than the code, without a run:

* The cooldown starts before `_control` may withhold the nudge (`core/server.py:232`),
  so a later good nudge of the judge is suppressed for one the agent never got;
  `core/server.py:221` says "the agent already has that guidance in its context".
* `last_usage` survives a failed call and is shared by threads: a session is billed
  for another review (`core/server.py:500`; `core/judge/tier1.py:38` "Token cost of the
  most recent ``score`` call").
* The counters are changed without the lock (`core/server.py:553,563-569`), so two hooks
  of a session can count as one, where the comment at lines 426-428 says that such state
  "must be serialized or concurrent hooks lose events and counts". Only the events
  are. `StatsNeverOverstate` says what is left: none gains a count.
* Two overlapping reviews label a waiting nudge twice, and a nudge whose ledger append
  failed is labelled though nobody heard it; the docstring of `_feed_rulebook` says that
  each detector "whose nudge actually reached the agent since the last judge review gets
  one scorecard entry" (`core/server.py:300-301`). `LabelsBacked` names the overlap.
* Two threads of a session can both pass the cooldown check (`core/server.py:229-232`) and
  nudge at once, or set the clock back; line 220 says that a repeat "is suppressed".
  `TierZeroNudgesSpaced` speaks of nudges nothing overlapped.
* With `fail_open` off a failed judge call labels the waiting detectors as agreed
  (`core/server.py:316`), where the comment below it says that an outage "is not an
  opinion about anything". `engine_labels.cfg` with `FailOpen = FALSE` violates
  `OnlyReviewsLabel`.
* Two overlapping STOPs of a session count its nudges twice
  (`core/rules/rulebook.py:940`; line 933 says "exactly once"). `rulebook.cfg` with two
  threads violates `CountedOnce`.
* At 0.06 the accumulated double lies above the score and is rounded down to it: the
  line admits scores that were not counted against the budget, and 20 clean scores of
  0.06 give a line of 0.06 and a false-alarm rate of 1 (`core/judge/risk.py:96`; lines
  93-95 say that a bound violated by the last decimal is not a bound). At every other
  point the line is rounded above such scores. `LineFitsBudget` counts the scores a line
  admits, the equal ones included, and names this point (`Lowest`).
* A line fitted between the slices and the text of another thread's save is written
  without its labels (`core/judge/risk.py:186,196`), and after a restart from that file it
  is in force with fewer labels than the minimum, where `refit` (line 166) says that
  "Storing a value when the evidence is too thin is its own bug".
  `LineStandsOnEvidence` without its exception is violated in `risk_model.cfg`.
* A label that another thread adds during a fit is not in the line that fit installs,
  and nobody fits again until the next label (`core/server.py:336-337`).
* Two overlapping saves share `risk.json.tmp`; `risk.json` can be left empty or torn,
  and a restart then loads no evidence (`core/judge/risk.py:195`). `LabelsDurable` is
  stated for a save that was alone.
* An agreement of the judge can lower a rule's score: the first labels move weight to
  a Wilson bound over very few of them (`core/rules/rulebook.py:998-999`; line 905
  "Agreement reinforces the rule"). `DisagreementNeverHelps` states the half that holds.
* The header can cost one token more than its budget: the estimate is rounded per
  piece (`core/rules/rulebook.py:591-592` "the budget is measured on the bytes the agent
  sees rather than on a sum of parts").
* An iteration boundary wakes the judge when anything in the whole window failed
  (`core/server.py:366`), where `core/config.py:121-124` says "only when something in it
  did not come back clean".
* The baseline is taken from before the monitoring window, yet a run of failures that
  is long enough fills that, too: the baseline reaches 1.0 and the drift detector is
  silent from then on, the trap `core/rules/detectors.py:600-604` describes.
  `FailureRunAlarms` is stated for a healthy reference.

* `stop` takes any failure of `GET /health` for "nothing is listening; that is the
  answer" (`cli.py:159`), prints "no daemon running" and exits 0: also when the daemon was
  busy for two seconds, or was started with `--port` or `SHEPHERD_PORT`, which `stop` does
  not read (`cli.py:100,209-211`); its docstring says "Stop the daemon however it was
  started" (`cli.py:121`). `LoneDaemonStopped` with an exit code of 0 in place of
  `"stopped"` is violated in `host.cfg`.
* `uninstall` asks `_adapter_installed` whether an agent "still carries shepherd hooks or a
  plugin on disk" (`cli.py:104`), which looks for the present bundle; QwenPaw loads
  every subdirectory (`adapters/qwenpaw/install.py:26-29`). An uninstall of the plugin that
  was interrupted between two bundles leaves an older one that posts, and the uninstall
  of another agent then stops the daemon (`Overlooked`).

Met while modelling, for the maintainers to judge.

Engine, detectors, signals:

* Every intervention is both returned and parked, so a hook that got its nudge
  gets it once more at the next gate, past the cooldown (`core/server.py:488,518`).
* The slot holds one verdict: a nudge overwrites a parked block (`core/server.py:215`).
* A block that loses its authority in `_control` becomes a nudge that has skipped
  `_admit`, so it repeats inside the cooldown (`core/server.py:277`).
* A judge block under its line becomes a nudge that is not compared with the nudge
  line, and the block line is never refitted (`core/server.py:262`).
* An answer that cannot be parsed becomes a nudge of confidence 0.5, below the
  default line 0.60, so it is always withheld; a judge nudge may have no guidance,
  and then no client says anything (`core/judge/client.py:127`).
* A prompt or stop is not reviewed by the judge when a parked verdict, the house
  rules or a Tier 0 hit answers it first (`core/server.py:443-489`).
* A failed judge call's confidence 0.0 becomes a label of the risk model; the
  score of a STOP's own review is not labelled unless a second STOP comes.
* `status_code` is read as an exit code, so an HTTP 200 is a failure
  (`core/rules/signals.py:34`).
* The drift detector's windows count events, not results; a chatty session has few
  results in them (`core/rules/detectors.py:636`).
* The regression detector looks for an earlier success of the same tool, not of the
  same tests; and no adapter puts a prompt on a tool call, so a path "named in the
  goal" is one of earlier events only.

Learning:

* No adapter sends STOP, so rulebook and risk model do not learn from live
  sessions (`adapters/claude/hook.py:36`).
* A session that goes on after its STOP can differ from a replay of its ledger:
  the nudge was judged on the window the STOP had cut short. `MatchesReplay` is
  stated for sessions without such a nudge.
* With descending stamps the stream is flipped (`core/rules/rulebook.py:295`) and a
  cursor counts from its other end.
* When no grid point fits, the line is 1.0 whatever the scores; unclamped scores
  above it are still admitted. A line fitted on 2000 labels is kept after a restart
  that brings back 500.

Adapters:

* The REST poller posts a call again every two seconds while it is live, which the
  loop detector takes for a loop (`adapters/qwenpaw/rest_client.py:79`).
* Codex drops a nudge that reaches it in the answer to a Stop, and the slot is then
  empty (`adapters/codex/hook.py:63-72`); `Mute` names the case.
* The stop gate is registered without a session id and falls back to "unknown" when
  its context has none (`adapters/qwenpaw/backend/main.py:324`).

Files and processes:

* A torn ledger line swallows the next record (`core/ledger.py:61`); a line torn inside
  a character makes every later read of the session raise (`core/ledger.py:118`).
* `stop` signals the pid of the pidfile and reports success, also when that is a
  zombie child of a waiting `start-bg`, or a stranger that got the pid
  (`cli.py:145`); a daemon still calibrating is invisible to it; a unit that was
  retrying behind a daemon started by hand takes the port after the stop.
* `start-bg` takes the health of an older daemon for its child's, and removes a pidfile
  that is no longer its own (`cli.py:256-261`).
* `uninstall` does not look at the exit code of the stop (`cli.py:400`).
* An edit between the backup and the replacement is lost (`adapters/backup.py:61`);
  `OnlyLateEditsLost` excepts it by name. A hook group that mixes our entry with a
  foreign one is removed whole, though it is in the backup (`adapters/backup.py:83`).
* `install_codex` keeps entries of an older shape, so the hook then fires twice.
* Two rewrites of `config.yaml` within a second overwrite the first one's backup, and a
  rewrite loses comments (`core/config.py:390-399`).

## 7. Plan

Everything the inventory plans is modelled, and every safety invariant is proved.
What would add most from here:

1. `HouseRulesProofs`: monotonicity of the Wilson bound for every table, with the
   rounding made explicit.
2. `HookAdapters` with several sessions of one plugin sharing a gate.
3. `Ledger` composed with `Rulebook`, so that a torn line reaches the learning.
