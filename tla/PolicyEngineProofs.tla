------------------------- MODULE PolicyEngineProofs -------------------------
(***************************************************************************)
(* The engine for every value of its constants: any number of requests,    *)
(* sessions, restarts and threads in flight.                               *)
(*                                                                         *)
(* The first half is about verdicts: the types, the delivery invariant     *)
(* Sound, and that the engine implements VerdictDelivery.  The second half *)
(* is about the books kept beside them: the window of events, the cooldown *)
(* clocks, the counters, the scores and the labels of a session, each      *)
(* against what it stands for.  Each of these is changed by few of the     *)
(* steps of a thread (StepMoves, StepKeeps, ArriveMoves say which), and    *)
(* each has an invariant of its own beside Sound.  What the last four say  *)
(* of two hooks that overlapped rests on Base: the past of a request is    *)
(* over, so that of two requests served together neither is the past of    *)
(* the other (TogetherOverlap), and that they overlapped is for ever       *)
(* (OverlapKept).                                                          *)
(***************************************************************************)
EXTENDS PolicyEngine, TLAPS, SequenceTheorems, FiniteSetTheorems

USE DEF Stopping, Interventions, Settled, Silencing

Typed == TypeOK /\ Located

-----------------------------------------------------------------------------
(* Type correctness: what the helpers return, then one lemma per action.     *)

\* The first detector that hits is one of those that hit.
LEMMA FirstHitTyped ==
  ASSUME NEW H, H \subseteq TierZero, H # {}
  PROVE  FirstHit(H) \in TierZero
<1> DEFINE P(i) == /\ DetectorOrder[i] \in H
                   /\ \A j \in 1..(i - 1) : DetectorOrder[j] \notin H
<1>1. \E i \in 1..6 : P(i)
  <2>1. CASE "loop" \in H  BY <2>1 DEF DetectorOrder
  <2>2. CASE "loop" \notin H /\ "regression" \in H  BY <2>2 DEF DetectorOrder
  <2>3. CASE {"loop", "regression"} \cap H = {} /\ "offspec" \in H  BY <2>3 DEF DetectorOrder
  <2>4. CASE {"loop", "regression", "offspec"} \cap H = {} /\ "contextrot" \in H
    BY <2>4 DEF DetectorOrder
  <2>5. CASE {"loop", "regression", "offspec", "contextrot"} \cap H = {} /\ "binding" \in H
    BY <2>5 DEF DetectorOrder
  <2>6. CASE {"loop", "regression", "offspec", "contextrot", "binding"} \cap H = {} /\ "drift" \in H
    BY <2>6 DEF DetectorOrder
  <2> QED BY <2>1, <2>2, <2>3, <2>4, <2>5, <2>6 DEF TierZero
<1>2. Len(DetectorOrder) = 6  BY DEF DetectorOrder
<1>3. FirstHit(H) \in H  BY <1>1, <1>2 DEF FirstHit
<1> QED BY <1>3

\* A verdict put together from typed parts is typed.
LEMMA VerdictTyped ==
  ASSUME NEW a \in Interventions \cup {"pass"}, NEW d \in Sources \cup {"none"},
         NEW c \in 0..100, NEW why \in Reasons, NEW r \in Requests \cup {Nobody}
  PROVE  Verdict(a, d, c, why, r) \in VerdictSet
BY DEF Verdict, VerdictSet

\* The empty slot is a value of the slots.
LEMMA NoVerdictTyped == NoVerdict \in VerdictSet
BY DEF NoVerdict, Verdict, VerdictSet, Reasons

\* Risk gate and authority return a verdict.
LEMMA ControlledTyped ==
  ASSUME NEW v \in VerdictSet, NEW a
  PROVE  Controlled(v, a) \in VerdictSet
BY DEF Controlled, VerdictSet, Reasons

\* Eviction keeps a window a sequence of requests.
LEMMA LastNTyped ==
  ASSUME NEW T, NEW q \in Seq(T), NEW n \in Nat
  PROVE  LastN(q, n) \in Seq(T)
BY DEF LastN

\* A thread that moves is at a point of process.
LEMMA GotoTyped ==
  ASSUME Typed, NEW r \in Requests, NEW from, NEW to \in Points, Goto(r, from, to)
  PROVE  /\ pc' \in [Requests -> Points]
         /\ \A q \in Requests \ {r} : pc'[q] = pc[q]
         /\ pc[r] = from /\ pc'[r] = to
BY DEF Typed, TypeOK, ThreadsTyped, Goto

\* An answered request has a verdict for a reply.
LEMMA AnswerTyped ==
  ASSUME Typed, NEW r \in Requests, NEW v \in VerdictSet, Answer(r, v)
  PROVE  reply' \in [Requests -> VerdictSet]
BY DEF Typed, TypeOK, ThreadsTyped, Answer

(* A thread that was accepted keeps its session. *)
LEMMA LocatedKept ==
  ASSUME Typed, NEW r \in Requests, pc[r] # "unsent", pc'[r] # "unsent", req' = req,
         \A q \in Requests \ {r} : pc'[q] = pc[q]
  PROVE  Located' /\ SessionOf(r) \in Sessions
BY DEF Typed, Located, SessionOf

\* A request that arrives gets its session.
LEMMA SentLocated ==
  ASSUME Typed, NEW r \in Requests, NEW s \in Sessions, NEW k \in Kinds, NEW t \in Times,
         NEW mk \in {"plain", "bad", "denied"}, Send(r, s, k, t, mk),
         pc'[r] # "unsent", \A q \in Requests \ {r} : pc'[q] = pc[q]
  PROVE  /\ Located'
         /\ req' \in [Requests -> [sess: Sessions \cup {"none"}, kind: Kinds \cup {"none"},
                     ts: Times \cup {0}, mark: {"plain", "bad", "denied"}, era: 0..MaxRestarts,
                     past: SUBSET Requests]]
<1> DEFINE ended == {q \in Requests : pc[q] \in {"done", "lost"} /\ SessionOf(q) = s}
<1>1. [sess |-> s, kind |-> k, ts |-> t, mark |-> mk, era |-> era, past |-> ended] \in
        [sess: Sessions \cup {"none"}, kind: Kinds \cup {"none"},
         ts: Times \cup {0}, mark: {"plain", "bad", "denied"}, era: 0..MaxRestarts,
         past: SUBSET Requests]
  BY DEF Typed, TypeOK
<1> QED BY <1>1 DEF Typed, TypeOK, ThreadsTyped, Send, Located, SessionOf

\* The points the actions name exist.
LEMMA PointsTyped ==
  {"unsent", "done", "lost", "snapshot", "finalize", "label", "forget", "drain", "header",
   "evaluate", "score", "feed", "empty", "admit", "stamp", "suppress", "suppressing", "silent",
   "control", "tally", "tallying", "queue", "append", "record", "park"} \subseteq Points
BY DEF Points, Idle

\* A fresh daemon is typed.
LEMMA InitTyped == Init => Typed
<1> SUFFICES ASSUME Init PROVE Typed  OBVIOUS
<1>1. ThreadsTyped
  BY EngineAssumption, PointsTyped, NoVerdictTyped DEF Init, ThreadsTyped, NoRequest
<1>2. SessionsTyped
  BY DEF Init, SessionsTyped, EmptyLists, NoNudges, Unconfirmed, ZeroStats
<1>3. SharedTyped
  BY EngineAssumption, NoVerdictTyped DEF Init, SharedTyped, NothingParked
<1> QED BY <1>1, <1>2, <1>3, EngineAssumption DEF Init, Typed, TypeOK, Located

\* Ignore keeps the types.
LEMMA IgnoreTyped ==
  ASSUME Typed, NEW r \in Requests, NEW s \in Sessions, NEW k \in Kinds, NEW t \in Times,
         Ignore(r, s, k, t)
  PROVE  Typed'
<1> USE DEF Ignore
<1>1. /\ pc' \in [Requests -> Points]
      /\ pc'[r] # "unsent" /\ \A q \in Requests \ {r} : pc'[q] = pc[q]
    BY GotoTyped, PointsTyped
<1>2. Verdict("pass", "none", 0, "disabled", r) \in VerdictSet  BY DEF Verdict, VerdictSet, Reasons
<1>3. reply' \in [Requests -> VerdictSet]  BY <1>2, AnswerTyped
<1>4. ThreadsTyped'  BY <1>1, <1>3, SentLocated DEF Typed, TypeOK, ThreadsTyped
<1>5. SessionsTyped'  BY DEF Typed, TypeOK, SessionsTyped, sessionVars
<1>6. SharedTyped'  BY DEF Typed, TypeOK, SharedTyped, sharedVars
<1>7. Located'  BY <1>1, SentLocated
<1>8. ledger' \subseteq VerdictSet /\ era' \in 0..MaxRestarts  BY DEF Typed, TypeOK
<1> QED BY <1>4, <1>5, <1>6, <1>7, <1>8 DEF Typed, TypeOK

\* Ingest keeps the types.
LEMMA IngestTyped ==
  ASSUME Typed, NEW r \in Requests, NEW s \in Sessions, NEW k \in Kinds, NEW t \in Times,
         NEW mk \in {"plain", "bad", "denied"}, Ingest(r, s, k, t, mk)
  PROVE  Typed'
<1> USE DEF Ingest
<1>1. /\ pc' \in [Requests -> Points]
      /\ pc'[r] # "unsent" /\ \A q \in Requests \ {r} : pc'[q] = pc[q]
    BY GotoTyped, PointsTyped
<1>2. ThreadsTyped'  BY <1>1, SentLocated DEF Typed, TypeOK, ThreadsTyped
<1>3. SessionsTyped'  BY DEF Typed, TypeOK, SessionsTyped, sessionVars
<1>4. SharedTyped'  BY DEF Typed, TypeOK, SharedTyped, sharedVars
<1>5. Located'  BY <1>1, SentLocated
<1>6. ledger' \subseteq VerdictSet /\ era' \in 0..MaxRestarts  BY DEF Typed, TypeOK
<1> QED BY <1>2, <1>3, <1>4, <1>5, <1>6 DEF Typed, TypeOK

\* Poll keeps the types.
LEMMA PollTyped ==
  ASSUME Typed, NEW r \in Requests, NEW s \in Sessions, NEW k \in Kinds, NEW t \in Times,
         Poll(r, s, k, t)
  PROVE  Typed'
<1> USE DEF Poll
<1>1. /\ pc' \in [Requests -> Points]
      /\ pc'[r] # "unsent" /\ \A q \in Requests \ {r} : pc'[q] = pc[q]
    BY GotoTyped, PointsTyped
<1>2. reply' \in [Requests -> VerdictSet]  BY AnswerTyped DEF Typed, TypeOK, SharedTyped
<1>3. ThreadsTyped'  BY <1>1, <1>2, SentLocated DEF Typed, TypeOK, ThreadsTyped
<1>4. SessionsTyped'  BY DEF Typed, TypeOK, SessionsTyped, sessionVars
<1>5. SharedTyped'  BY NoVerdictTyped DEF Typed, TypeOK, SharedTyped, Taken
<1>6. Located'  BY <1>1, SentLocated
<1>7. ledger' \subseteq VerdictSet /\ era' \in 0..MaxRestarts  BY DEF Typed, TypeOK
<1> QED BY <1>3, <1>4, <1>5, <1>6, <1>7 DEF Typed, TypeOK

\* Snapshot keeps the types.
LEMMA SnapshotTyped ==
  ASSUME Typed, NEW r \in Requests, Snapshot(r)
  PROVE  Typed'
<1> USE DEF Snapshot
<1>1. AfterSnapshot(req[r].kind) \in Points \ {"unsent"}  BY PointsTyped DEF AfterSnapshot
<1>2. /\ pc' \in [Requests -> Points]
      /\ \A q \in Requests \ {r} : pc'[q] = pc[q]
      /\ pc[r] # "unsent" /\ pc'[r] # "unsent"
    BY <1>1, GotoTyped
<1>3. SessionOf(r) \in Sessions /\ Located'  BY <1>2, LocatedKept
<1>4. window[SessionOf(r)] \in Seq(Requests)  BY <1>3 DEF Typed, TypeOK, SessionsTyped
<1>5. LastN(Append(window[SessionOf(r)], r), WindowSize) \in Seq(Requests)  <2>1. Append(window[SessionOf(r)], r) \in Seq(Requests)  BY <1>4
  <2> QED BY <2>1, LastNTyped, EngineAssumption
<1>6. stats' \in [Sessions -> [Fields -> Nat]]
  <2>1. stats[SessionOf(r)].seen + 1 \in Nat  BY <1>3 DEF Typed, TypeOK, SessionsTyped, Fields
  <2> QED BY <2>1 DEF Typed, TypeOK, SessionsTyped
<1>7. ThreadsTyped'  BY <1>2, <1>4 DEF Typed, TypeOK, ThreadsTyped
<1>8. SessionsTyped'  BY <1>5, <1>6 DEF Typed, TypeOK, SessionsTyped
<1>9. SharedTyped'  BY DEF Typed, TypeOK, SharedTyped, sharedVars
<1>10. Located'  BY <1>3
<1>11. ledger' \subseteq VerdictSet /\ era' \in 0..MaxRestarts  BY DEF Typed, TypeOK
<1> QED BY <1>7, <1>8, <1>9, <1>10, <1>11 DEF Typed, TypeOK

\* Finalize keeps the types.
LEMMA FinalizeTyped ==
  ASSUME Typed, NEW r \in Requests, Finalize(r)
  PROVE  Typed'
<1> USE DEF Finalize
<1>1. /\ pc' \in [Requests -> Points]
      /\ \A q \in Requests \ {r} : pc'[q] = pc[q]
      /\ pc[r] # "unsent" /\ pc'[r] # "unsent"
    BY GotoTyped, PointsTyped
<1>2. at' \in [Requests -> Nat \ {0}]  BY DEF Typed, TypeOK, ThreadsTyped
<1>3. ThreadsTyped'  BY <1>1, <1>2 DEF Typed, TypeOK, ThreadsTyped
<1>4. SessionsTyped'  BY DEF Typed, TypeOK, SessionsTyped, sessionVars
<1>5. SharedTyped'  BY DEF Typed, TypeOK, SharedTyped
<1>6. Located'  BY <1>1, LocatedKept
<1>7. ledger' \subseteq VerdictSet /\ era' \in 0..MaxRestarts  BY DEF Typed, TypeOK
<1> QED BY <1>3, <1>4, <1>5, <1>6, <1>7 DEF Typed, TypeOK

\* LabelOne keeps the types.
LEMMA LabelOneTyped ==
  ASSUME Typed, NEW r \in Requests, LabelOne(r)
  PROVE  Typed'
<1> USE DEF LabelOne
<1>1. SessionOf(r) \in Sessions /\ Located'  BY LocatedKept
<1>2. scores[SessionOf(r)][at[r]] \in Requests  BY <1>1 DEF Typed, TypeOK, ThreadsTyped, SessionsTyped
<1>3. labelled' \subseteq [score: Requests, stop: Requests]  BY <1>2 DEF Typed, TypeOK, SharedTyped
<1>4. limit' \in [Agents -> 0..100]  BY EngineAssumption DEF Typed, TypeOK, SharedTyped
<1>5. ThreadsTyped'  BY DEF Typed, TypeOK, ThreadsTyped
<1>6. SessionsTyped'  BY DEF Typed, TypeOK, SessionsTyped, sessionVars
<1>7. SharedTyped'  BY <1>3, <1>4 DEF Typed, TypeOK, SharedTyped
<1>8. Located'  BY <1>1
<1>9. ledger' \subseteq VerdictSet /\ era' \in 0..MaxRestarts  BY DEF Typed, TypeOK
<1> QED BY <1>5, <1>6, <1>7, <1>8, <1>9 DEF Typed, TypeOK

\* LabelDone keeps the types.
LEMMA LabelDoneTyped ==
  ASSUME Typed, NEW r \in Requests, LabelDone(r)
  PROVE  Typed'
<1> USE DEF LabelDone
<1>1. /\ pc' \in [Requests -> Points]
      /\ \A q \in Requests \ {r} : pc'[q] = pc[q]
      /\ pc[r] # "unsent" /\ pc'[r] # "unsent"
    BY GotoTyped, PointsTyped
<1>2. ThreadsTyped'  BY <1>1 DEF Typed, TypeOK, ThreadsTyped
<1>3. SessionsTyped'  BY DEF Typed, TypeOK, SessionsTyped, sessionVars
<1>4. SharedTyped'  BY DEF Typed, TypeOK, SharedTyped, sharedVars
<1>5. Located'  BY <1>1, LocatedKept
<1>6. ledger' \subseteq VerdictSet /\ era' \in 0..MaxRestarts  BY DEF Typed, TypeOK
<1> QED BY <1>2, <1>3, <1>4, <1>5, <1>6 DEF Typed, TypeOK

\* Forget keeps the types.
LEMMA ForgetTyped ==
  ASSUME Typed, NEW r \in Requests, Forget(r)
  PROVE  Typed'
<1> USE DEF Forget
<1>1. /\ pc' \in [Requests -> Points]
      /\ \A q \in Requests \ {r} : pc'[q] = pc[q]
      /\ pc[r] # "unsent" /\ pc'[r] # "unsent"
    BY GotoTyped, PointsTyped
<1>2. scores' \in [Sessions -> Seq(Requests)]  <2>1. <<>> \in Seq(Requests)  OBVIOUS
  <2> QED BY <2>1 DEF Typed, TypeOK, SessionsTyped
<1>3. ThreadsTyped'  BY <1>1 DEF Typed, TypeOK, ThreadsTyped
<1>4. SessionsTyped'  BY <1>2 DEF Typed, TypeOK, SessionsTyped
<1>5. SharedTyped'  BY DEF Typed, TypeOK, SharedTyped, sharedVars
<1>6. Located'  BY <1>1, LocatedKept
<1>7. ledger' \subseteq VerdictSet /\ era' \in 0..MaxRestarts  BY DEF Typed, TypeOK
<1> QED BY <1>3, <1>4, <1>5, <1>6, <1>7 DEF Typed, TypeOK

\* DrainParked keeps the types.
LEMMA DrainParkedTyped ==
  ASSUME Typed, NEW r \in Requests, DrainParked(r)
  PROVE  Typed'
<1> USE DEF DrainParked
<1>1. /\ pc' \in [Requests -> Points]
      /\ \A q \in Requests \ {r} : pc'[q] = pc[q]
      /\ pc[r] # "unsent" /\ pc'[r] # "unsent"
    BY GotoTyped, PointsTyped
<1>2. SessionOf(r) \in Sessions  BY <1>1 DEF Typed, Located
<1>3. reply' \in [Requests -> VerdictSet]  BY <1>2, AnswerTyped DEF Typed, TypeOK, SharedTyped
<1>4. ThreadsTyped'  BY <1>1, <1>3 DEF Typed, TypeOK, ThreadsTyped
<1>5. SessionsTyped'  BY DEF Typed, TypeOK, SessionsTyped, sessionVars
<1>6. SharedTyped'  BY NoVerdictTyped DEF Typed, TypeOK, SharedTyped, Taken
<1>7. Located'  BY <1>1, LocatedKept
<1>8. ledger' \subseteq VerdictSet /\ era' \in 0..MaxRestarts  BY DEF Typed, TypeOK
<1> QED BY <1>4, <1>5, <1>6, <1>7, <1>8 DEF Typed, TypeOK

\* DrainEmpty keeps the types.
LEMMA DrainEmptyTyped ==
  ASSUME Typed, NEW r \in Requests, DrainEmpty(r)
  PROVE  Typed'
<1> USE DEF DrainEmpty
<1>1. /\ pc' \in [Requests -> Points]
      /\ \A q \in Requests \ {r} : pc'[q] = pc[q]
      /\ pc[r] # "unsent" /\ pc'[r] # "unsent"
    BY GotoTyped, PointsTyped
<1>2. ThreadsTyped'  BY <1>1 DEF Typed, TypeOK, ThreadsTyped
<1>3. SessionsTyped'  BY DEF Typed, TypeOK, SessionsTyped, sessionVars
<1>4. SharedTyped'  BY DEF Typed, TypeOK, SharedTyped, sharedVars
<1>5. Located'  BY <1>1, LocatedKept
<1>6. ledger' \subseteq VerdictSet /\ era' \in 0..MaxRestarts  BY DEF Typed, TypeOK
<1> QED BY <1>2, <1>3, <1>4, <1>5, <1>6 DEF Typed, TypeOK

\* Header keeps the types.
LEMMA HeaderTyped ==
  ASSUME Typed, NEW r \in Requests, Header(r)
  PROVE  Typed'
<1> USE DEF Header
<1>1. /\ pc' \in [Requests -> Points]
      /\ \A q \in Requests \ {r} : pc'[q] = pc[q]
      /\ pc[r] # "unsent" /\ pc'[r] # "unsent"
    BY GotoTyped, PointsTyped
<1>2. Verdict("nudge", "rulebook", 99, "promoted", r) \in VerdictSet  BY DEF Verdict, VerdictSet, Sources, Reasons
<1>3. reply' \in [Requests -> VerdictSet]  BY <1>2, AnswerTyped DEF Typed, TypeOK, ThreadsTyped
<1>4. ThreadsTyped'  BY <1>1, <1>3 DEF Typed, TypeOK, ThreadsTyped
<1>5. SessionsTyped'  BY DEF Typed, TypeOK, SessionsTyped, sessionVars
<1>6. SharedTyped'  BY DEF Typed, TypeOK, SharedTyped, sharedVars
<1>7. Located'  BY <1>1, LocatedKept
<1>8. ledger' \subseteq VerdictSet /\ era' \in 0..MaxRestarts  BY <1>2 DEF Typed, TypeOK
<1> QED BY <1>4, <1>5, <1>6, <1>7, <1>8 DEF Typed, TypeOK

\* NoHeader keeps the types.
LEMMA NoHeaderTyped ==
  ASSUME Typed, NEW r \in Requests, NoHeader(r)
  PROVE  Typed'
<1> USE DEF NoHeader
<1>1. /\ pc' \in [Requests -> Points]
      /\ \A q \in Requests \ {r} : pc'[q] = pc[q]
      /\ pc[r] # "unsent" /\ pc'[r] # "unsent"
    BY GotoTyped, PointsTyped
<1>2. ThreadsTyped'  BY <1>1 DEF Typed, TypeOK, ThreadsTyped
<1>3. SessionsTyped'  BY DEF Typed, TypeOK, SessionsTyped, sessionVars
<1>4. SharedTyped'  BY DEF Typed, TypeOK, SharedTyped, sharedVars
<1>5. Located'  BY <1>1, LocatedKept
<1>6. ledger' \subseteq VerdictSet /\ era' \in 0..MaxRestarts  BY DEF Typed, TypeOK
<1> QED BY <1>2, <1>3, <1>4, <1>5, <1>6 DEF Typed, TypeOK

\* Detect keeps the types.
LEMMA DetectTyped ==
  ASSUME Typed, NEW r \in Requests, Detect(r)
  PROVE  Typed'
<1> USE DEF Detect
<1>1. /\ pc' \in [Requests -> Points]
      /\ \A q \in Requests \ {r} : pc'[q] = pc[q]
      /\ pc[r] # "unsent" /\ pc'[r] # "unsent"
    BY GotoTyped, PointsTyped
<1> DEFINE Found(H) == Verdict(Asked(FirstHit(H), r), FirstHit(H), 100, "detected", r)
<1>2. PICK H \in HitSets(r) \ {{}} : cand' = [cand EXCEPT ![r] = Found(H)]
  BY Zenon
<1> HIDE DEF Found
<1>3. H \subseteq TierZero /\ H # {}  BY EngineAssumption DEF HitSets
<1>4. FirstHit(H) \in Sources  BY <1>3, FirstHitTyped DEF Sources
<1>5. Found(H) \in VerdictSet  BY <1>4 DEF Found, Verdict, VerdictSet, Reasons, Asked
<1>6. ThreadsTyped'
  <2>1. cand' \in [Requests -> VerdictSet]
    BY ONLY <1>2, <1>5, Typed DEF Typed, TypeOK, ThreadsTyped
  <2> QED BY <1>1, <2>1 DEF Typed, TypeOK, ThreadsTyped
<1>7. SessionsTyped'  BY DEF Typed, TypeOK, SessionsTyped, sessionVars
<1>8. SharedTyped'  BY DEF Typed, TypeOK, SharedTyped, sharedVars
<1>9. Located'  BY <1>1, LocatedKept
<1>10. ledger' \subseteq VerdictSet /\ era' \in 0..MaxRestarts  BY DEF Typed, TypeOK
<1> QED BY <1>6, <1>7, <1>8, <1>9, <1>10 DEF Typed, TypeOK

\* NoDrift keeps the types.
LEMMA NoDriftTyped ==
  ASSUME Typed, NEW r \in Requests, NoDrift(r)
  PROVE  Typed'
<1> USE DEF NoDrift
<1>1. /\ pc' \in [Requests -> Points]
      /\ \A q \in Requests \ {r} : pc'[q] = pc[q]
      /\ pc[r] # "unsent" /\ pc'[r] # "unsent"
    BY GotoTyped, PointsTyped
<1>2. Verdict("pass", "none", 0, "quiet", r) \in VerdictSet  BY DEF Verdict, VerdictSet, Reasons
<1>3. reply' \in [Requests -> VerdictSet]  BY <1>2, AnswerTyped
<1>4. ThreadsTyped'  BY <1>1, <1>3 DEF Typed, TypeOK, ThreadsTyped
<1>5. SessionsTyped'  BY DEF Typed, TypeOK, SessionsTyped, sessionVars
<1>6. SharedTyped'  BY DEF Typed, TypeOK, SharedTyped, sharedVars
<1>7. Located'  BY <1>1, LocatedKept
<1>8. ledger' \subseteq VerdictSet /\ era' \in 0..MaxRestarts  BY DEF Typed, TypeOK
<1> QED BY <1>4, <1>5, <1>6, <1>7, <1>8 DEF Typed, TypeOK

\* WakeJudge keeps the types.
LEMMA WakeJudgeTyped ==
  ASSUME Typed, NEW r \in Requests, WakeJudge(r)
  PROVE  Typed'
<1> USE DEF WakeJudge
<1>1. /\ pc' \in [Requests -> Points]
      /\ \A q \in Requests \ {r} : pc'[q] = pc[q]
      /\ pc[r] # "unsent" /\ pc'[r] # "unsent"
    BY GotoTyped, PointsTyped
<1>2. ThreadsTyped'  BY <1>1 DEF Typed, TypeOK, ThreadsTyped
<1>3. SessionsTyped'  BY DEF Typed, TypeOK, SessionsTyped, sessionVars
<1>4. SharedTyped'  BY DEF Typed, TypeOK, SharedTyped, sharedVars
<1>5. Located'  BY <1>1, LocatedKept
<1>6. ledger' \subseteq VerdictSet /\ era' \in 0..MaxRestarts  BY DEF Typed, TypeOK
<1> QED BY <1>2, <1>3, <1>4, <1>5, <1>6 DEF Typed, TypeOK

\* Scored keeps the types.
LEMMA ScoredTyped ==
  ASSUME Typed, NEW r \in Requests, NEW v \in VerdictSet, Scored(r, v)
  PROVE  Typed'
<1> USE DEF Scored
<1>1. /\ pc' \in [Requests -> Points]
      /\ \A q \in Requests \ {r} : pc'[q] = pc[q]
      /\ pc[r] # "unsent" /\ pc'[r] # "unsent"
    BY GotoTyped, PointsTyped
<1>2. Located' /\ SessionOf(r) \in Sessions  BY <1>1, LocatedKept
<1>3. /\ cand' \in [Requests -> VerdictSet]
      /\ at' \in [Requests -> Nat \ {0}]
  BY DEF Typed, TypeOK, ThreadsTyped
<1>4. scores' \in [Sessions -> Seq(Requests)]
  <2>1. Append(scores[SessionOf(r)], r) \in Seq(Requests)  BY <1>2 DEF Typed, TypeOK, SessionsTyped
  <2> QED BY <2>1 DEF Typed, TypeOK, SessionsTyped
<1>5. ThreadsTyped'  BY <1>1, <1>3 DEF Typed, TypeOK, ThreadsTyped
<1>6. SessionsTyped'  BY <1>4 DEF Typed, TypeOK, SessionsTyped
<1>7. SharedTyped'  BY DEF Typed, TypeOK, SharedTyped
<1>8. ledger' \subseteq VerdictSet /\ era' \in 0..MaxRestarts  BY DEF Typed, TypeOK
<1> QED BY <1>2, <1>5, <1>6, <1>7, <1>8 DEF Typed, TypeOK

\* Judge keeps the types.
LEMMA JudgeTyped ==
  ASSUME Typed, NEW r \in Requests, Judge(r)
  PROVE  Typed'
<1>1. \A a \in JudgeActions, c \in Confidences : Verdict(a, "judge", c, "judged", r) \in VerdictSet
  BY VerdictTyped, EngineAssumption DEF Sources, Reasons
<1>2. /\ Verdict("nudge", "judge", 50, "unparsed", r) \in VerdictSet
      /\ Verdict("pass", "judge", 0, "judge unavailable", r) \in VerdictSet
      /\ Verdict("escalate", "judge", 100, "judge failed", r) \in VerdictSet
  BY DEF Verdict, VerdictSet, Sources, Reasons
<1>3. CASE \E a \in JudgeActions, c \in Confidences : JudgeAnswers(r, a, c)
  BY <1>1, <1>3, ScoredTyped DEF JudgeAnswers
<1>4. CASE JudgeGarbled(r)
  BY <1>2, <1>4, ScoredTyped DEF JudgeGarbled
<1>5. CASE JudgeOutage(r)
  BY <1>2, <1>5, ScoredTyped DEF JudgeOutage
<1> QED BY <1>3, <1>4, <1>5 DEF Judge

\* FeedOne keeps the types.
LEMMA FeedOneTyped ==
  ASSUME Typed, NEW r \in Requests, FeedOne(r)
  PROVE  Typed'
<1> DEFINE q == queued[SessionOf(r)]
           cut == IF at[r] = 1 THEN limit[Agent(r)] ELSE bar[r]
           side == IF cand[r].conf >= cut THEN "agreed" ELSE "disagreed"
<1>1. /\ pc[r] = "feed" /\ at[r] <= Len(q)
      /\ book' = book \cup {[nudge |-> q[at[r]], review |-> r, side |-> side]}
      /\ at' = [at EXCEPT ![r] = at[r] + 1] /\ bar' = [bar EXCEPT ![r] = cut]
      /\ UNCHANGED <<req, pc, cand, was, history, reply, sessionVars, pending, limit, labelled,
                     saved, ledger, era>>
  BY DEF FeedOne
<1>2. SessionOf(r) \in Sessions /\ Located'  BY <1>1, LocatedKept
<1>3. Agent(r) \in Agents  BY <1>2, EngineAssumption DEF Agent
<1>4. q[at[r]] \in Requests  BY <1>1, <1>2 DEF Typed, TypeOK, ThreadsTyped, SessionsTyped
<1>5. cut \in 0..100  BY <1>3 DEF Typed, TypeOK, ThreadsTyped, SharedTyped
<1>6. side \in {"agreed", "disagreed"}  OBVIOUS
<1> HIDE DEF q, cut, side
<1>7. book' \subseteq Labels  BY <1>1, <1>4, <1>6 DEF Typed, TypeOK, SharedTyped, Labels
<1>8. /\ at' \in [Requests -> Nat \ {0}]
      /\ bar' \in [Requests -> 0..100]
  <2>1. at \in [Requests -> Nat \ {0}] /\ bar \in [Requests -> 0..100]
    BY DEF Typed, TypeOK, ThreadsTyped
  <2>2. at' \in [Requests -> Nat \ {0}]  BY <1>1, <2>1
  <2>3. bar' \in [Requests -> 0..100]  BY <1>1, <1>5, <2>1
  <2> QED BY <2>2, <2>3
<1>9. ThreadsTyped'  BY <1>1, <1>8 DEF Typed, TypeOK, ThreadsTyped
<1>10. SessionsTyped'  BY <1>1 DEF Typed, TypeOK, SessionsTyped, sessionVars
<1>11. SharedTyped'  BY <1>1, <1>7 DEF Typed, TypeOK, SharedTyped
<1>12. ledger' \subseteq VerdictSet /\ era' \in 0..MaxRestarts  BY <1>1 DEF Typed, TypeOK
<1> QED BY <1>2, <1>9, <1>10, <1>11, <1>12 DEF Typed, TypeOK

\* FeedDone keeps the types.
LEMMA FeedDoneTyped ==
  ASSUME Typed, NEW r \in Requests, FeedDone(r)
  PROVE  Typed'
<1> USE DEF FeedDone
<1>1. /\ pc' \in [Requests -> Points]
      /\ \A q \in Requests \ {r} : pc'[q] = pc[q]
      /\ pc[r] # "unsent" /\ pc'[r] # "unsent"
    BY GotoTyped, PointsTyped
<1>2. ThreadsTyped'  BY <1>1 DEF Typed, TypeOK, ThreadsTyped
<1>3. SessionsTyped'  BY DEF Typed, TypeOK, SessionsTyped, sessionVars
<1>4. SharedTyped'  BY DEF Typed, TypeOK, SharedTyped, sharedVars
<1>5. Located'  BY <1>1, LocatedKept
<1>6. ledger' \subseteq VerdictSet /\ era' \in 0..MaxRestarts  BY DEF Typed, TypeOK
<1> QED BY <1>2, <1>3, <1>4, <1>5, <1>6 DEF Typed, TypeOK

\* Empty keeps the types.
LEMMA EmptyTyped ==
  ASSUME Typed, NEW r \in Requests, Empty(r)
  PROVE  Typed'
<1> USE DEF Empty
<1>1. /\ pc' \in [Requests -> Points]
      /\ \A q \in Requests \ {r} : pc'[q] = pc[q]
      /\ pc[r] # "unsent" /\ pc'[r] # "unsent"
    BY GotoTyped, PointsTyped
<1>2. queued' \in [Sessions -> Seq(Requests)]  <2>1. <<>> \in Seq(Requests)  OBVIOUS
  <2> QED BY <2>1 DEF Typed, TypeOK, SessionsTyped, QueuesAfterReview
<1>3. ThreadsTyped'  BY <1>1 DEF Typed, TypeOK, ThreadsTyped
<1>4. SessionsTyped'  BY <1>2 DEF Typed, TypeOK, SessionsTyped
<1>5. SharedTyped'  BY DEF Typed, TypeOK, SharedTyped
<1>6. Located'  BY <1>1, LocatedKept
<1>7. ledger' \subseteq VerdictSet /\ era' \in 0..MaxRestarts  BY DEF Typed, TypeOK
<1> QED BY <1>3, <1>4, <1>5, <1>6, <1>7 DEF Typed, TypeOK

\* Admit keeps the types.
LEMMA AdmitTyped ==
  ASSUME Typed, NEW r \in Requests, Admit(r)
  PROVE  Typed'
<1> USE DEF Admit
<1>1. /\ pc' \in [Requests -> Points]
      /\ \A q \in Requests \ {r} : pc'[q] = pc[q]
      /\ pc[r] # "unsent" /\ pc'[r] # "unsent"
    BY GotoTyped, PointsTyped
<1>2. [cand[r] EXCEPT !.action = "pass", !.reason = "cooldown"] \in VerdictSet
  <2>1. cand[r] \in VerdictSet  BY DEF Typed, TypeOK, ThreadsTyped
  <2> QED BY <2>1 DEF VerdictSet, Reasons
<1>3. cand' \in [Requests -> VerdictSet]
  <2>1. cand' = cand \/ cand' = [cand EXCEPT ![r] = [cand[r] EXCEPT !.action = "pass", !.reason = "cooldown"]]
    OBVIOUS
  <2> QED BY <2>1, <1>2 DEF Typed, TypeOK, ThreadsTyped
<1>4. ThreadsTyped'  BY <1>1, <1>3 DEF Typed, TypeOK, ThreadsTyped
<1>5. SessionsTyped'  BY DEF Typed, TypeOK, SessionsTyped, sessionVars
<1>6. SharedTyped'  BY DEF Typed, TypeOK, SharedTyped, sharedVars
<1>7. Located'  BY <1>1, LocatedKept
<1>8. ledger' \subseteq VerdictSet /\ era' \in 0..MaxRestarts  BY DEF Typed, TypeOK
<1> QED BY <1>4, <1>5, <1>6, <1>7, <1>8 DEF Typed, TypeOK

\* Stamp keeps the types.
LEMMA StampTyped ==
  ASSUME Typed, NEW r \in Requests, Stamp(r)
  PROVE  Typed'
<1> USE DEF Stamp
<1>1. /\ pc' \in [Requests -> Points]
      /\ \A q \in Requests \ {r} : pc'[q] = pc[q]
      /\ pc[r] # "unsent" /\ pc'[r] # "unsent"
    BY GotoTyped, PointsTyped
<1>2. SessionOf(r) \in Sessions /\ Located'  BY <1>1, LocatedKept
<1>3. req[r].ts \in Times \cup {0}  BY DEF Typed, TypeOK, ThreadsTyped
<1>4. lastNudge' \in [Sessions -> [TierZero \cup {"judge"} -> Times \cup {0, Never}]]  BY <1>2, <1>3 DEF Typed, TypeOK, SessionsTyped
<1>5. ThreadsTyped'  BY <1>1 DEF Typed, TypeOK, ThreadsTyped
<1>6. SessionsTyped'  BY <1>4 DEF Typed, TypeOK, SessionsTyped
<1>7. SharedTyped'  BY DEF Typed, TypeOK, SharedTyped, sharedVars
<1>8. Located'  BY <1>2
<1>9. ledger' \subseteq VerdictSet /\ era' \in 0..MaxRestarts  BY DEF Typed, TypeOK
<1> QED BY <1>5, <1>6, <1>7, <1>8, <1>9 DEF Typed, TypeOK

\* The counter a verdict adds to is one of the session's.
LEMMA CounterTyped == \A r \in Requests : Counter(r) \in Fields \ {"seen"}
BY DEF Counter, Fields

\* Load keeps the types.
LEMMA LoadTyped ==
  ASSUME Typed, NEW r \in Requests, Load(r)
  PROVE  Typed'
<1> USE DEF Load
<1>1. /\ pc' \in [Requests -> Points]
      /\ \A q \in Requests \ {r} : pc'[q] = pc[q]
      /\ pc[r] # "unsent" /\ pc'[r] # "unsent"
    BY GotoTyped, PointsTyped
<1>2. SessionOf(r) \in Sessions /\ Located'  BY <1>1, LocatedKept
<1>3. was' \in [Requests -> Nat]
  <2>1. stats[SessionOf(r)][Counter(r)] \in Nat  BY <1>2, CounterTyped DEF Typed, TypeOK, SessionsTyped
  <2> QED BY <2>1 DEF Typed, TypeOK, ThreadsTyped
<1>4. ThreadsTyped'  BY <1>1, <1>3 DEF Typed, TypeOK, ThreadsTyped
<1>5. SessionsTyped'  BY DEF Typed, TypeOK, SessionsTyped, sessionVars
<1>6. SharedTyped'  BY DEF Typed, TypeOK, SharedTyped, sharedVars
<1>7. ledger' \subseteq VerdictSet /\ era' \in 0..MaxRestarts  BY DEF Typed, TypeOK
<1> QED BY <1>2, <1>4, <1>5, <1>6, <1>7 DEF Typed, TypeOK

\* Store keeps the types.
LEMMA StoreTyped ==
  ASSUME Typed, NEW r \in Requests, Store(r)
  PROVE  Typed'
<1> USE DEF Store
<1>1. AfterTally(r) \in Points \ {"unsent"}  BY PointsTyped DEF AfterTally
<1>2. /\ pc' \in [Requests -> Points]
      /\ \A q \in Requests \ {r} : pc'[q] = pc[q]
      /\ pc[r] # "unsent" /\ pc'[r] # "unsent"
    BY <1>1, GotoTyped, PointsTyped
<1>3. SessionOf(r) \in Sessions /\ Located'  BY <1>2, LocatedKept
<1>4. was[r] + 1 \in Nat /\ was' \in [Requests -> Nat]  BY DEF Typed, TypeOK, ThreadsTyped
<1>5. stats' \in [Sessions -> [Fields -> Nat]]
  <2> DEFINE s == SessionOf(r)
  <2>1. stats[s] \in [Fields -> Nat]  BY <1>3 DEF Typed, TypeOK, SessionsTyped
  <2>2. stats' = [stats EXCEPT ![s] = [stats[s] EXCEPT ![Counter(r)] = was[r] + 1]]  OBVIOUS
  <2> HIDE DEF s
  <2>3. [stats[s] EXCEPT ![Counter(r)] = was[r] + 1] \in [Fields -> Nat]  BY <2>1, <1>4
  <2> QED BY <2>2, <2>3 DEF Typed, TypeOK, SessionsTyped
<1>6. ThreadsTyped'  BY <1>2, <1>4 DEF Typed, TypeOK, ThreadsTyped
<1>7. SessionsTyped'  BY <1>5 DEF Typed, TypeOK, SessionsTyped
<1>8. SharedTyped'  BY DEF Typed, TypeOK, SharedTyped, sharedVars
<1>9. ledger' \subseteq VerdictSet /\ era' \in 0..MaxRestarts  BY DEF Typed, TypeOK
<1> QED BY <1>3, <1>6, <1>7, <1>8, <1>9 DEF Typed, TypeOK

\* Silence keeps the types.
LEMMA SilenceTyped ==
  ASSUME Typed, NEW r \in Requests, Silence(r)
  PROVE  Typed'
<1> USE DEF Silence
<1>1. /\ pc' \in [Requests -> Points]
      /\ \A q \in Requests \ {r} : pc'[q] = pc[q]
      /\ pc[r] # "unsent" /\ pc'[r] # "unsent"
    BY GotoTyped, PointsTyped
<1>2. cand[r] \in VerdictSet  BY DEF Typed, TypeOK, ThreadsTyped
<1>3. reply' \in [Requests -> VerdictSet]  BY <1>2, AnswerTyped DEF Typed, TypeOK, ThreadsTyped
<1>4. ThreadsTyped'  BY <1>1, <1>3 DEF Typed, TypeOK, ThreadsTyped
<1>5. SessionsTyped'  BY DEF Typed, TypeOK, SessionsTyped, sessionVars
<1>6. SharedTyped'  BY DEF Typed, TypeOK, SharedTyped, sharedVars
<1>7. Located'  BY <1>1, LocatedKept
<1>8. ledger' \subseteq VerdictSet /\ era' \in 0..MaxRestarts  BY <1>2 DEF Typed, TypeOK
<1> QED BY <1>4, <1>5, <1>6, <1>7, <1>8 DEF Typed, TypeOK

\* Withhold keeps the types.
LEMMA WithholdTyped ==
  ASSUME Typed, NEW r \in Requests, Withhold(r)
  PROVE  Typed'
<1> USE DEF Withhold
<1>1. /\ pc' \in [Requests -> Points]
      /\ \A q \in Requests \ {r} : pc'[q] = pc[q]
      /\ pc[r] # "unsent" /\ pc'[r] # "unsent"
    BY GotoTyped, PointsTyped
<1>2. Controlled(cand[r], Agent(r)) \in VerdictSet  BY ControlledTyped DEF Typed, TypeOK, ThreadsTyped
<1>3. reply' \in [Requests -> VerdictSet]  BY <1>2, AnswerTyped DEF Typed, TypeOK, ThreadsTyped
<1>4. ThreadsTyped'  BY <1>1, <1>2, <1>3 DEF Typed, TypeOK, ThreadsTyped
<1>5. SessionsTyped'  BY DEF Typed, TypeOK, SessionsTyped, sessionVars
<1>6. SharedTyped'  BY DEF Typed, TypeOK, SharedTyped, sharedVars
<1>7. Located'  BY <1>1, LocatedKept
<1>8. ledger' \subseteq VerdictSet /\ era' \in 0..MaxRestarts  BY <1>2 DEF Typed, TypeOK
<1> QED BY <1>4, <1>5, <1>6, <1>7, <1>8 DEF Typed, TypeOK

\* Intervene keeps the types.
LEMMA InterveneTyped ==
  ASSUME Typed, NEW r \in Requests, Intervene(r)
  PROVE  Typed'
<1> USE DEF Intervene
<1>1. /\ pc' \in [Requests -> Points]
      /\ \A q \in Requests \ {r} : pc'[q] = pc[q]
      /\ pc[r] # "unsent" /\ pc'[r] # "unsent"
    BY GotoTyped, PointsTyped
<1>2. Controlled(cand[r], Agent(r)) \in VerdictSet  BY ControlledTyped DEF Typed, TypeOK, ThreadsTyped
<1>3. ThreadsTyped'  BY <1>1, <1>2 DEF Typed, TypeOK, ThreadsTyped
<1>4. SessionsTyped'  BY DEF Typed, TypeOK, SessionsTyped, sessionVars
<1>5. SharedTyped'  BY DEF Typed, TypeOK, SharedTyped, sharedVars
<1>6. Located'  BY <1>1, LocatedKept
<1>7. ledger' \subseteq VerdictSet /\ era' \in 0..MaxRestarts  BY DEF Typed, TypeOK
<1> QED BY <1>3, <1>4, <1>5, <1>6, <1>7 DEF Typed, TypeOK

\* Confirm keeps the types.
LEMMA ConfirmTyped ==
  ASSUME Typed, NEW r \in Requests, Confirm(r)
  PROVE  Typed'
<1> USE DEF Confirm
<1>1. /\ pc' \in [Requests -> Points]
      /\ \A q \in Requests \ {r} : pc'[q] = pc[q]
      /\ pc[r] # "unsent" /\ pc'[r] # "unsent"
    BY GotoTyped, PointsTyped
<1>2. confirmed' \in [Sessions -> BOOLEAN]  BY DEF Typed, TypeOK, SessionsTyped
<1>3. ThreadsTyped'  BY <1>1 DEF Typed, TypeOK, ThreadsTyped
<1>4. SessionsTyped'  BY <1>2 DEF Typed, TypeOK, SessionsTyped
<1>5. SharedTyped'  BY DEF Typed, TypeOK, SharedTyped, sharedVars
<1>6. Located'  BY <1>1, LocatedKept
<1>7. ledger' \subseteq VerdictSet /\ era' \in 0..MaxRestarts  BY DEF Typed, TypeOK
<1> QED BY <1>3, <1>4, <1>5, <1>6, <1>7 DEF Typed, TypeOK

\* Enqueue keeps the types.
LEMMA EnqueueTyped ==
  ASSUME Typed, NEW r \in Requests, Enqueue(r)
  PROVE  Typed'
<1> USE DEF Enqueue
<1>1. /\ pc' \in [Requests -> Points]
      /\ \A q \in Requests \ {r} : pc'[q] = pc[q]
      /\ pc[r] # "unsent" /\ pc'[r] # "unsent"
    BY GotoTyped, PointsTyped
<1>2. SessionOf(r) \in Sessions /\ Located'  BY <1>1, LocatedKept
<1>3. queued' \in [Sessions -> Seq(Requests)]
  <2>1. Append(queued[SessionOf(r)], r) \in Seq(Requests)  BY <1>2 DEF Typed, TypeOK, SessionsTyped
  <2> QED BY <2>1 DEF Typed, TypeOK, SessionsTyped
<1>4. ThreadsTyped'  BY <1>1 DEF Typed, TypeOK, ThreadsTyped
<1>5. SessionsTyped'  BY <1>3 DEF Typed, TypeOK, SessionsTyped
<1>6. SharedTyped'  BY DEF Typed, TypeOK, SharedTyped, sharedVars
<1>7. ledger' \subseteq VerdictSet /\ era' \in 0..MaxRestarts  BY DEF Typed, TypeOK
<1> QED BY <1>2, <1>4, <1>5, <1>6, <1>7 DEF Typed, TypeOK

\* Record keeps the types.
LEMMA RecordTyped ==
  ASSUME Typed, NEW r \in Requests, Record(r)
  PROVE  Typed'
<1> USE DEF Record
<1>1. /\ pc' \in [Requests -> Points]
      /\ \A q \in Requests \ {r} : pc'[q] = pc[q]
      /\ pc[r] # "unsent" /\ pc'[r] # "unsent"
    BY GotoTyped, PointsTyped
<1>2. ThreadsTyped'  BY <1>1 DEF Typed, TypeOK, ThreadsTyped
<1>3. SessionsTyped'  BY DEF Typed, TypeOK, SessionsTyped, sessionVars
<1>4. SharedTyped'  BY DEF Typed, TypeOK, SharedTyped, sharedVars
<1>5. Located'  BY <1>1, LocatedKept
<1>6. ledger' \subseteq VerdictSet /\ era' \in 0..MaxRestarts  BY DEF Typed, TypeOK, ThreadsTyped
<1> QED BY <1>2, <1>3, <1>4, <1>5, <1>6 DEF Typed, TypeOK

\* Park keeps the types.
LEMMA ParkTyped ==
  ASSUME Typed, NEW r \in Requests, Park(r)
  PROVE  Typed'
<1> USE DEF Park
<1>1. /\ pc' \in [Requests -> Points]
      /\ \A q \in Requests \ {r} : pc'[q] = pc[q]
      /\ pc[r] # "unsent" /\ pc'[r] # "unsent"
    BY GotoTyped, PointsTyped
<1>2. cand[r] \in VerdictSet  BY DEF Typed, TypeOK, ThreadsTyped
<1>3. reply' \in [Requests -> VerdictSet]  BY <1>2, AnswerTyped
<1>4. ThreadsTyped'  BY <1>1, <1>3 DEF Typed, TypeOK, ThreadsTyped
<1>5. SessionsTyped'  BY DEF Typed, TypeOK, SessionsTyped, sessionVars
<1>6. SharedTyped'  BY <1>2 DEF Typed, TypeOK, SharedTyped
<1>7. Located'  BY <1>1, LocatedKept
<1>8. ledger' \subseteq VerdictSet /\ era' \in 0..MaxRestarts  BY DEF Typed, TypeOK
<1> QED BY <1>4, <1>5, <1>6, <1>7, <1>8 DEF Typed, TypeOK

\* Restart keeps the types.
LEMMA RestartTyped ==
  ASSUME Typed, Restart
  PROVE  Typed'
<1> USE DEF Restart
<1>1. ThreadsTyped'  BY PointsTyped DEF Typed, TypeOK, ThreadsTyped
<1>2. SessionsTyped'
  BY DEF Typed, TypeOK, SessionsTyped, EmptyLists, NoNudges, Unconfirmed, ZeroStats
<1>3. SharedTyped'  BY NoVerdictTyped DEF Typed, TypeOK, SharedTyped, NothingParked
<1>4. Located'  BY DEF Typed, TypeOK, ThreadsTyped, Located, SessionOf, Idle
<1>5. ledger' \subseteq VerdictSet /\ era' \in 0..MaxRestarts  BY EngineAssumption DEF Typed, TypeOK
<1> QED BY <1>1, <1>2, <1>3, <1>4, <1>5 DEF Typed, TypeOK

\* Every step, or none, keeps the types.
LEMMA NextTyped == Typed /\ [Next]_vars => Typed'
<1> SUFFICES ASSUME Typed, [Next]_vars PROVE Typed'  OBVIOUS
<1>1. CASE UNCHANGED vars
  BY <1>1 DEF vars, threadVars, sessionVars, sharedVars, Typed, TypeOK, ThreadsTyped,
     SessionsTyped, SharedTyped, Located, SessionOf
<1>2. CASE Restart  BY <1>2, RestartTyped
<1>3. CASE \E r \in Requests : Arrive(r)
  BY <1>3, IgnoreTyped, IngestTyped, PollTyped DEF Arrive
<1>4. CASE \E r \in Requests : Step(r)
  BY <1>4, SnapshotTyped, FinalizeTyped, LabelOneTyped, LabelDoneTyped, ForgetTyped,
     DrainParkedTyped, DrainEmptyTyped, HeaderTyped, NoHeaderTyped, DetectTyped, NoDriftTyped,
     WakeJudgeTyped, JudgeTyped, FeedOneTyped, FeedDoneTyped, EmptyTyped, AdmitTyped, StampTyped,
     LoadTyped, StoreTyped, SilenceTyped, WithholdTyped, InterveneTyped, ConfirmTyped,
     EnqueueTyped, RecordTyped, ParkTyped DEF Step
<1> QED BY <1>1, <1>2, <1>3, <1>4 DEF Next

(* Whatever the requests, the races and the restarts, every variable of the
   engine holds a value of its kind.                                          *)
THEOREM TypeCorrect == Spec => []TypeOK
<1>1. Init => Typed  BY InitTyped
<1>2. Typed /\ [Next]_vars => Typed'  BY NextTyped
<1>3. Typed => TypeOK  BY DEF Typed
<1> QED BY <1>1, <1>2, <1>3, PTL DEF Spec

-----------------------------------------------------------------------------
(* The delivery invariant.  Most actions tell nobody anything that matters:
   UnheardSound deals with all of them at once.                              *)

Unheard(r) ==
  /\ pc[r] \notin {"park", "done", "lost"} /\ pc'[r] # "park"
  /\ pending' = pending
  /\ \A q \in Requests \ {r} : /\ pc'[q] = pc[q] /\ cand'[q] = cand[q]
                               /\ req'[q] = req[q] /\ reply'[q] = reply[q]
  /\ pc'[r] \in Decided => cand'[r].by = r
  /\ pc'[r] \in Settled => MayTell(cand'[r], SessionOf(r)')
  /\ pc'[r] \in Silencing => Hushed(cand'[r])
  /\ reply'[r].action \notin Interventions
  /\ \/ ledger' = ledger
     \/ \E v \in VerdictSet : /\ ledger' = ledger \cup {v} /\ v.by = r
                              /\ v.action = "pass" /\ pc'[r] = "done"

\* A step nobody hears of keeps the delivery invariant.
LEMMA UnheardSound ==
  ASSUME Typed, Typed', Sound, NEW r \in Requests, Unheard(r)
  PROVE  Sound'
<1> USE DEF Unheard
<1>1. \A v \in ledger : /\ v.by \in Requests \ {r} /\ pc'[v.by] = pc[v.by]
                        /\ SessionOf(v.by)' = SessionOf(v.by)
  BY DEF Sound, LedgerSound, SessionOf
<1>2. ledger \subseteq ledger'  OBVIOUS
<1>3. Authored'  BY DEF Sound, Authored
<1>4. Ready'
  <2> SUFFICES ASSUME NEW q \in Requests
               PROVE  /\ pc'[q] \in Settled => MayTell(cand'[q], SessionOf(q)')
                      /\ pc'[q] \in Silencing => Hushed(cand'[q])
    BY DEF Ready, MayTell, SessionOf, Hushed
  <2> QED BY DEF Sound, Ready, SessionOf
<1>5. Recorded'  BY <1>2 DEF Sound, Recorded
<1>6. LedgerSound'
  <2> SUFFICES ASSUME NEW v \in ledger'
               PROVE  /\ v.by \in Requests /\ pc'[v.by] \in {"park", "done", "lost"}
                      /\ v.action = "pass" \/ MayTell(v, SessionOf(v.by)')
                      /\ \A u \in ledger' : u.by = v.by => u = v
    BY DEF LedgerSound, MayTell, SessionOf
  <2>1. CASE v \in ledger  BY <1>1, <2>1 DEF Sound, LedgerSound
  <2>2. CASE v \notin ledger  BY <1>1, <2>2
  <2> QED BY <2>1, <2>2
<1>7. \A v, s : Told(v, s) => Told(v, s)'
  BY <1>1, <1>2 DEF Told, MayTell
<1>8. SlotSound'  BY <1>7 DEF Sound, SlotSound
<1>9. ReplySound'
  <2> SUFFICES ASSUME NEW q \in Requests, reply'[q].action \in Interventions
               PROVE  pc'[q] = "done" /\ Told(reply[q], SessionOf(q))'
    BY DEF ReplySound, Told, MayTell, SessionOf
  <2>1. q # r /\ reply'[q] = reply[q] /\ pc'[q] = pc[q] /\ SessionOf(q)' = SessionOf(q)
    BY DEF SessionOf
  <2>2. pc[q] = "done" /\ Told(reply[q], SessionOf(q))  BY <2>1 DEF Sound, ReplySound
  <2> QED BY <1>7, <2>1, <2>2
<1>10. \A s \in Sessions : pending[s] # NoVerdict => pending[s].action \in Interventions
  BY DEF Sound, SlotSound, Told, MayTell
<1>11. SlotFresh'  BY <1>10 DEF Sound, SlotFresh
<1>12. ParkedHandedOutOnce'  BY DEF Sound, ParkedHandedOutOnce
<1> QED BY <1>3, <1>4, <1>5, <1>6, <1>8, <1>9, <1>11, <1>12 DEF Sound

(* The house rules: a nudge of the thread itself, in the ledger and told at once. *)
LEMMA HeaderSound ==
  ASSUME Typed, Typed', Sound, NEW r \in Requests, NEW v \in VerdictSet,
         pc[r] \notin {"park", "done", "lost"}, v.by = r, v.action = "nudge",
         pc' = [pc EXCEPT ![r] = "done"], ledger' = ledger \cup {v},
         reply' = [reply EXCEPT ![r] = v], pending' = pending, cand' = cand, req' = req
  PROVE  Sound'
<1> USE DEF MayTell
<1>1. \A u \in ledger : u.by \in Requests \ {r} /\ pc'[u.by] = pc[u.by]
  BY DEF Sound, LedgerSound, Typed, TypeOK, ThreadsTyped
<1>2. /\ pc'[r] = "done" /\ reply'[r] = v
      /\ \A q \in Requests \ {r} : pc'[q] = pc[q] /\ reply'[q] = reply[q]
  BY DEF Typed, TypeOK, ThreadsTyped
<1>3. \A q \in Requests : SessionOf(q)' = SessionOf(q)  BY DEF SessionOf
<1>4. Authored'  BY <1>2 DEF Sound, Authored, Decided
<1>5. Ready'  BY <1>2, <1>3 DEF Sound, Ready, Hushed
<1>6. Recorded'  BY <1>2 DEF Sound, Recorded
<1>7. LedgerSound'  BY <1>1, <1>2, <1>3 DEF Sound, LedgerSound
<1>8. \A u, s : Told(u, s) => Told(u, s)'
  BY <1>1, <1>3 DEF Told, Sound, LedgerSound
<1>9. SlotSound'  BY <1>8 DEF Sound, SlotSound
<1>10. \A q \in Requests \ {r} : reply[q].action \in Interventions => reply[q].by # r
  BY DEF Sound, ReplySound, Told
<1>11. ReplySound'
  <2> SUFFICES ASSUME NEW q \in Requests, reply'[q].action \in Interventions
               PROVE  (pc'[q] = "done" /\ Told(reply[q], SessionOf(q))' /\ q # r) \/ q = r
    BY <1>2, <1>3 DEF ReplySound, Told
  <2> QED BY <1>2, <1>3, <1>8 DEF Sound, ReplySound
<1>12. SlotFresh'
  <2> SUFFICES ASSUME NEW s \in Sessions, pending[s] = v, v # NoVerdict PROVE FALSE
    BY <1>2 DEF Sound, SlotFresh
  <2> QED BY <1>1 DEF Sound, SlotSound, Told
<1>13. ParkedHandedOutOnce'  BY <1>2, <1>10 DEF Sound, ParkedHandedOutOnce
<1> QED BY <1>4, <1>5, <1>6, <1>7, <1>9, <1>11, <1>12, <1>13 DEF Sound

(* The ledger line of an intervention. *)
LEMMA RecordSound ==
  ASSUME Typed, Typed', Sound, NEW r \in Requests,
         pc[r] = "record", pc' = [pc EXCEPT ![r] = "park"], ledger' = ledger \cup {cand[r]},
         UNCHANGED <<reply, pending, cand, req>>
  PROVE  Sound'
<1> USE DEF MayTell
<1>1. \A u \in ledger : u.by \in Requests \ {r} /\ pc'[u.by] = pc[u.by]
  BY DEF Sound, LedgerSound, Typed, TypeOK, ThreadsTyped
<1>2. pc'[r] = "park" /\ \A q \in Requests \ {r} : pc'[q] = pc[q]
  BY DEF Typed, TypeOK, ThreadsTyped
<1>3. \A q \in Requests : SessionOf(q)' = SessionOf(q)  BY DEF SessionOf
<1>4. cand[r].by = r /\ MayTell(cand[r], SessionOf(r))
  BY DEF Sound, Authored, Decided, Ready
<1>5. Authored'  BY <1>2, <1>4 DEF Sound, Authored
<1>6. Ready'  BY <1>2, <1>3, <1>4 DEF Sound, Ready, Hushed
<1>7. Recorded'  BY <1>2 DEF Sound, Recorded
<1>8. LedgerSound'  BY <1>1, <1>2, <1>3, <1>4 DEF Sound, LedgerSound
<1>9. \A u, s : Told(u, s) => Told(u, s)'
  BY <1>1, <1>3 DEF Told, Sound, LedgerSound
<1>10. SlotSound'  BY <1>9 DEF Sound, SlotSound
<1>11. ReplySound'
  BY <1>2, <1>3, <1>9 DEF Sound, ReplySound
<1>12. SlotFresh' /\ ParkedHandedOutOnce'  BY DEF Sound, SlotFresh, ParkedHandedOutOnce
<1> QED BY <1>5, <1>6, <1>7, <1>8, <1>10, <1>11, <1>12 DEF Sound

(* A gate or a poll is answered with what is parked. *)
LEMMA CollectSound ==
  ASSUME Typed, Typed', Sound, NEW r \in Requests, NEW s \in Sessions, pending[s] # NoVerdict,
         pc[r] \notin {"park", "done", "lost"}, pc' = [pc EXCEPT ![r] = "done"],
         reply' = [reply EXCEPT ![r] = pending[s]], pending' = [pending EXCEPT ![s] = NoVerdict],
         \A q \in Requests \ {r} : req'[q] = req[q],
         SessionOf(r)' = s, UNCHANGED <<cand, ledger>>
  PROVE  Sound'
<1> USE DEF MayTell
<1>1. /\ pc'[r] = "done" /\ reply'[r] = pending[s]
      /\ \A q \in Requests \ {r} : pc'[q] = pc[q] /\ reply'[q] = reply[q]
  BY DEF Typed, TypeOK, ThreadsTyped
<1>2. pending'[s] = NoVerdict /\ \A x \in Sessions \ {s} : pending'[x] = pending[x]
  BY DEF Typed, TypeOK, SharedTyped
<1>3. \A q \in Requests \ {r} : SessionOf(q)' = SessionOf(q)  BY DEF SessionOf
<1>4. \A u \in ledger : u.by \in Requests \ {r} /\ pc'[u.by] = pc[u.by]
  BY <1>1 DEF Sound, LedgerSound
<1>5. Authored'  BY <1>1 DEF Sound, Authored, Decided
<1>6. Ready'  BY <1>1, <1>3 DEF Sound, Ready, Hushed
<1>7. Recorded'  BY <1>1 DEF Sound, Recorded
<1>8. LedgerSound'  BY <1>3, <1>4 DEF Sound, LedgerSound
<1>9. \A u, x : Told(u, x) => Told(u, x)'
  BY <1>3, <1>4 DEF Told
<1>10. Told(pending[s], s)  BY DEF Sound, SlotSound
<1>11. SlotSound'
  <2> SUFFICES ASSUME NEW x \in Sessions, pending'[x] # NoVerdict PROVE Told(pending[x], x)' /\ x # s
    BY <1>2 DEF SlotSound, Told
  <2> QED BY <1>2, <1>9 DEF Sound, SlotSound
<1>12. ReplySound'
  <2>1. ASSUME NEW q \in Requests \ {r}, reply'[q].action \in Interventions
        PROVE  pc'[q] = "done" /\ Told(reply[q], SessionOf(q))'
    BY <2>1, <1>1, <1>3, <1>9 DEF Sound, ReplySound
  <2>2. Told(reply[r], SessionOf(r))'
    BY <1>1, <1>3, <1>4, <1>10 DEF Told
  <2> QED BY <2>1, <2>2, <1>1 DEF ReplySound
<1>13. SlotFresh'
  <2> SUFFICES ASSUME NEW x \in Sessions, NEW q \in Requests, pending'[x] # NoVerdict,
                      reply'[q] = pending'[x]
               PROVE  q = pending[x].by /\ x # s
    BY <1>2 DEF SlotFresh
  <2>1. x # s /\ pending'[x] = pending[x]  BY <1>2
  <2>2. pending[x] # pending[s]  BY <1>2, <1>10, <2>1 DEF Sound, SlotSound, Told
  <2>3. q # r  BY <1>1, <2>1, <2>2
  <2> QED BY <1>1, <2>1, <2>3 DEF Sound, SlotFresh
<1>14. ParkedHandedOutOnce'
  BY <1>1 DEF Sound, SlotFresh, ParkedHandedOutOnce
<1> QED BY <1>5, <1>6, <1>7, <1>8, <1>11, <1>12, <1>13, <1>14 DEF Sound

(* The intervention takes the slot and answers its own request. *)
LEMMA ParkSound ==
  ASSUME Typed, Typed', Sound, NEW r \in Requests, Park(r)
  PROVE  Sound'
<1> USE DEF MayTell
<1>1. /\ pc[r] = "park" /\ pc'[r] = "done" /\ reply'[r] = cand[r]
      /\ \A q \in Requests \ {r} : pc'[q] = pc[q] /\ reply'[q] = reply[q]
      /\ UNCHANGED <<cand, req, ledger>>
  BY DEF Park, Goto, Answer, Typed, TypeOK, ThreadsTyped
<1>2. SessionOf(r) \in Sessions  BY <1>1 DEF Typed, Located
<1>3. /\ pending'[SessionOf(r)] = cand[r]
      /\ \A x \in Sessions \ {SessionOf(r)} : pending'[x] = pending[x]
  BY <1>2 DEF Park, Typed, TypeOK, SharedTyped
<1>4. /\ cand[r].by = r /\ MayTell(cand[r], SessionOf(r)) /\ cand[r] \in ledger
  BY <1>1 DEF Sound, Authored, Decided, Ready, Recorded
<1>5. \A q \in Requests : SessionOf(q)' = SessionOf(q)  BY <1>1 DEF SessionOf
<1>6. \A u \in ledger : u.by \in Requests /\ (pc[u.by] = "done" => pc'[u.by] = "done")
  BY <1>1 DEF Sound, LedgerSound
<1>7. Authored'  BY <1>1 DEF Sound, Authored, Decided
<1>8. Ready'  BY <1>1, <1>5 DEF Sound, Ready, Hushed
<1>9. Recorded'  BY <1>1 DEF Sound, Recorded
<1>10. LedgerSound'  BY <1>1, <1>5 DEF Sound, LedgerSound
<1>11. \A u, x : Told(u, x) => Told(u, x)'
  BY <1>1, <1>5, <1>6 DEF Told
<1>12. Told(cand[r], SessionOf(r))'  BY <1>1, <1>4, <1>5 DEF Told
<1>13. SlotSound'
  <2>1. ASSUME NEW x \in Sessions \ {SessionOf(r)}, pending'[x] # NoVerdict
        PROVE  Told(pending[x], x)'
    BY <2>1, <1>3, <1>11 DEF Sound, SlotSound, Told
  <2>2. Told(pending[SessionOf(r)], SessionOf(r))'  BY <1>1, <1>3, <1>5, <1>12 DEF Told
  <2> QED BY <2>1, <2>2, <1>5 DEF SlotSound, Told
<1>14. \A q \in Requests \ {r} : reply[q] # cand[r]
  BY <1>1, <1>4 DEF Sound, ReplySound, Told
<1>15. ReplySound'
  <2>1. ASSUME NEW q \in Requests \ {r}, reply'[q].action \in Interventions
        PROVE  pc'[q] = "done" /\ Told(reply[q], SessionOf(q))'
    BY <2>1, <1>1, <1>5, <1>11 DEF Sound, ReplySound, Told
  <2> QED BY <2>1, <1>1, <1>12 DEF ReplySound, Told
<1>16. SlotFresh'
  <2> SUFFICES ASSUME NEW x \in Sessions, NEW q \in Requests, pending'[x] # NoVerdict,
                      reply'[q] = pending'[x]
               PROVE  q = pending'[x].by
    BY DEF SlotFresh
  <2>1. CASE x = SessionOf(r)  BY <2>1, <1>1, <1>3, <1>4, <1>14
  <2>2. CASE x # SessionOf(r)
    <3>1. pending'[x] = pending[x] /\ pending[x].by # r
      BY <2>2, <1>1, <1>3 DEF Sound, SlotSound, Told
    <3> QED BY <3>1, <1>1, <1>4 DEF Sound, SlotFresh
  <2> QED BY <2>1, <2>2
<1>17. ParkedHandedOutOnce'  BY <1>1, <1>14 DEF Sound, ParkedHandedOutOnce
<1> QED BY <1>7, <1>8, <1>9, <1>10, <1>13, <1>15, <1>16, <1>17 DEF Sound

\* A restart empties the slots and ends the threads: nothing told is unsaid.
LEMMA RestartSound ==
  ASSUME Typed, Typed', Sound, Restart
  PROVE  Sound'
<1> USE DEF Restart, MayTell
<1>1. \A q \in Requests : /\ pc'[q] \notin Decided
                          /\ pc[q] = "done" => pc'[q] = "done"
                          /\ pc[q] \in {"park", "done", "lost"} => pc'[q] \in {"done", "lost"}
  BY DEF Typed, TypeOK, ThreadsTyped, Idle, Decided
<1>2. \A q \in Requests : SessionOf(q)' = SessionOf(q)  BY DEF SessionOf
<1>3. Authored' /\ Ready' /\ Recorded'  BY <1>1 DEF Authored, Ready, Recorded, Decided, Hushed
<1>4. LedgerSound'  BY <1>1, <1>2 DEF Sound, LedgerSound
<1>5. SlotSound' /\ SlotFresh'  BY DEF SlotSound, SlotFresh, NothingParked
<1>6. ReplySound'  BY <1>1, <1>2 DEF Sound, ReplySound, Told, LedgerSound
<1>7. ParkedHandedOutOnce'  BY DEF Sound, ParkedHandedOutOnce
<1> QED BY <1>3, <1>4, <1>5, <1>6, <1>7 DEF Sound

\* A fresh daemon has told nothing.
LEMMA InitSound == Init => Sound
<1> SUFFICES ASSUME Init PROVE Sound  OBVIOUS
<1>1. NoVerdict.action \notin Interventions  BY DEF NoVerdict, Verdict
<1> QED BY <1>1 DEF Init, Sound, Authored, Ready, Recorded, LedgerSound, SlotSound, ReplySound,
          SlotFresh, ParkedHandedOutOnce, Decided, NothingParked, Hushed

(* No thread was told anything before it ended, and moves are of one thread. *)
LEMMA Untold ==
  ASSUME Typed, Sound, NEW r \in Requests, pc[r] # "done"
  PROVE  reply[r].action \notin Interventions
BY DEF Sound, ReplySound

\* An arrival is unheard of, except a poll that collects.
LEMMA ArriveSound ==
  ASSUME Typed, Typed', Sound, NEW r \in Requests, Arrive(r)
  PROVE  Sound'
<1>1. pc[r] = "unsent" /\ reply[r].action \notin Interventions
  BY Untold DEF Arrive, Ignore, Ingest, Poll, Goto
<1> USE <1>1 DEF Goto, Answer, Typed, TypeOK, ThreadsTyped, Decided
<1>2. PICK s \in Sessions, k \in Kinds, t \in Times :
        \/ Ignore(r, s, k, t)
        \/ \E mk \in {"plain", "bad", "denied"} : Ingest(r, s, k, t, mk)
        \/ Poll(r, s, k, t)
  BY DEF Arrive
<1>3. CASE Ignore(r, s, k, t)
  <2>1. reply'[r].action = "pass"  BY <1>3 DEF Ignore, Verdict
  <2>2. Unheard(r)  BY <1>3, <2>1 DEF Ignore, Send, sharedVars, Unheard
  <2> QED BY <2>2, UnheardSound
<1>4. ASSUME NEW mk, Ingest(r, s, k, t, mk) PROVE Sound'
  <2>1. Unheard(r)  BY <1>4 DEF Ingest, Send, sharedVars, Unheard
  <2> QED BY <2>1, UnheardSound
<1>5. CASE Poll(r, s, k, t) /\ pending[s] = NoVerdict
  <2>1. pending' = pending  BY <1>5 DEF Poll, Taken, SharedTyped
  <2>2. NoVerdict.action \notin Interventions  BY DEF NoVerdict, Verdict
  <2>3. Unheard(r)  BY <1>5, <2>1, <2>2 DEF Poll, Send, Unheard
  <2> QED BY <2>3, UnheardSound
<1>6. CASE Poll(r, s, k, t) /\ pending[s] # NoVerdict
  <2>1. SessionOf(r)' = s  BY <1>6 DEF Poll, Send, SessionOf
  <2>2. /\ pc' = [pc EXCEPT ![r] = "done"] /\ reply' = [reply EXCEPT ![r] = pending[s]]
        /\ pending' = [pending EXCEPT ![s] = NoVerdict] /\ UNCHANGED <<cand, ledger>>
    BY <1>6 DEF Poll, Taken
  <2>3. \A q \in Requests \ {r} : req'[q] = req[q]  BY <1>6 DEF Poll, Send
  <2>4. pc[r] \notin {"park", "done", "lost"}  BY <1>1
  <2> QED BY <1>6, <2>1, <2>2, <2>3, <2>4, CollectSound
<1> QED BY <1>2, <1>3, <1>4, <1>5, <1>6

\* Nobody hears of Snapshot.
LEMMA SnapshotUnheard ==
  ASSUME Typed, Typed', Sound, NEW r \in Requests, Snapshot(r)
  PROVE  Unheard(r) /\ req' = req
<1>1. pc[r] \notin {"park", "done", "lost"} /\ pc'[r] \notin Decided
  BY DEF Snapshot, Goto, Decided, Typed, TypeOK, ThreadsTyped, AfterSnapshot
<1>2. Unheard(r)
  BY <1>1, Untold DEF Snapshot, Goto, Decided, Unheard, Typed, TypeOK, ThreadsTyped, sharedVars
<1> QED BY <1>2 DEF Snapshot

\* Nobody hears of Finalize.
LEMMA FinalizeUnheard ==
  ASSUME Typed, Typed', Sound, NEW r \in Requests, Finalize(r)
  PROVE  Unheard(r) /\ req' = req
<1>1. pc[r] \notin {"park", "done", "lost"} /\ pc'[r] \notin Decided
  BY DEF Finalize, Goto, Decided, Typed, TypeOK, ThreadsTyped
<1>2. Unheard(r)
  BY <1>1, Untold DEF Finalize, Goto, Decided, Unheard, Typed, TypeOK, ThreadsTyped, sharedVars
<1> QED BY <1>2 DEF Finalize

\* Nobody hears of LabelDone.
LEMMA LabelDoneUnheard ==
  ASSUME Typed, Typed', Sound, NEW r \in Requests, LabelDone(r)
  PROVE  Unheard(r) /\ req' = req
<1>1. pc[r] \notin {"park", "done", "lost"} /\ pc'[r] \notin Decided
  BY DEF LabelDone, Goto, Decided, Typed, TypeOK, ThreadsTyped
<1>2. Unheard(r)
  BY <1>1, Untold DEF LabelDone, Goto, Decided, Unheard, Typed, TypeOK, ThreadsTyped, sharedVars
<1> QED BY <1>2 DEF LabelDone

\* Nobody hears of Forget.
LEMMA ForgetUnheard ==
  ASSUME Typed, Typed', Sound, NEW r \in Requests, Forget(r)
  PROVE  Unheard(r) /\ req' = req
<1>1. pc[r] \notin {"park", "done", "lost"} /\ pc'[r] \notin Decided
  BY DEF Forget, Goto, Decided, Typed, TypeOK, ThreadsTyped
<1>2. Unheard(r)
  BY <1>1, Untold DEF Forget, Goto, Decided, Unheard, Typed, TypeOK, ThreadsTyped, sharedVars
<1> QED BY <1>2 DEF Forget

\* Nobody hears of DrainEmpty.
LEMMA DrainEmptyUnheard ==
  ASSUME Typed, Typed', Sound, NEW r \in Requests, DrainEmpty(r)
  PROVE  Unheard(r) /\ req' = req
<1>1. pc[r] \notin {"park", "done", "lost"} /\ pc'[r] \notin Decided
  BY DEF DrainEmpty, Goto, Decided, Typed, TypeOK, ThreadsTyped
<1>2. Unheard(r)
  BY <1>1, Untold DEF DrainEmpty, Goto, Decided, Unheard, Typed, TypeOK, ThreadsTyped, sharedVars
<1> QED BY <1>2 DEF DrainEmpty

\* Nobody hears of NoHeader.
LEMMA NoHeaderUnheard ==
  ASSUME Typed, Typed', Sound, NEW r \in Requests, NoHeader(r)
  PROVE  Unheard(r) /\ req' = req
<1>1. pc[r] \notin {"park", "done", "lost"} /\ pc'[r] \notin Decided
  BY DEF NoHeader, Goto, Decided, Typed, TypeOK, ThreadsTyped
<1>2. Unheard(r)
  BY <1>1, Untold DEF NoHeader, Goto, Decided, Unheard, Typed, TypeOK, ThreadsTyped, sharedVars
<1> QED BY <1>2 DEF NoHeader

\* Nobody hears of WakeJudge.
LEMMA WakeJudgeUnheard ==
  ASSUME Typed, Typed', Sound, NEW r \in Requests, WakeJudge(r)
  PROVE  Unheard(r) /\ req' = req
<1>1. pc[r] \notin {"park", "done", "lost"} /\ pc'[r] \notin Decided
  BY DEF WakeJudge, Goto, Decided, Typed, TypeOK, ThreadsTyped
<1>2. Unheard(r)
  BY <1>1, Untold DEF WakeJudge, Goto, Decided, Unheard, Typed, TypeOK, ThreadsTyped, sharedVars
<1> QED BY <1>2 DEF WakeJudge

\* Nobody hears of LabelOne.
LEMMA LabelOneUnheard ==
  ASSUME Typed, Typed', Sound, NEW r \in Requests, LabelOne(r)
  PROVE  Unheard(r) /\ req' = req
<1>1. Unheard(r)
  BY Untold DEF LabelOne, Unheard, Decided, Sound, Authored
<1> QED BY <1>1 DEF LabelOne

\* Nobody hears of FeedOne.
LEMMA FeedOneUnheard ==
  ASSUME Typed, Typed', Sound, NEW r \in Requests, FeedOne(r)
  PROVE  Unheard(r) /\ req' = req
<1>1. Unheard(r)
  BY Untold DEF FeedOne, Unheard, Decided, Sound, Authored
<1> QED BY <1>1 DEF FeedOne

\* Nobody hears of FeedDone.
LEMMA FeedDoneUnheard ==
  ASSUME Typed, Typed', Sound, NEW r \in Requests, FeedDone(r)
  PROVE  Unheard(r) /\ req' = req
<1>1. pc[r] \in Decided \ {"park"} /\ pc'[r] \in Decided \ ({"park"} \cup Settled \cup Silencing)
  BY DEF FeedDone, Goto, Decided, Typed, TypeOK, ThreadsTyped
<1>2. Unheard(r)
  BY <1>1, Untold DEF FeedDone, Goto, Decided, Unheard, Sound, Authored, Typed, TypeOK, ThreadsTyped, sharedVars
<1> QED BY <1>2 DEF FeedDone

\* Nobody hears of Empty.
LEMMA EmptyUnheard ==
  ASSUME Typed, Typed', Sound, NEW r \in Requests, Empty(r)
  PROVE  Unheard(r) /\ req' = req
<1>1. pc[r] \in Decided \ {"park"} /\ pc'[r] \in Decided \ ({"park"} \cup Settled \cup Silencing)
  BY DEF Empty, Goto, Decided, Typed, TypeOK, ThreadsTyped
<1>2. Unheard(r)
  BY <1>1, Untold DEF Empty, Goto, Decided, Unheard, Sound, Authored, Typed, TypeOK, ThreadsTyped, sharedVars
<1> QED BY <1>2 DEF Empty

\* Nobody hears of Admit.
LEMMA AdmitUnheard ==
  ASSUME Typed, Typed', Sound, NEW r \in Requests, Admit(r)
  PROVE  Unheard(r) /\ req' = req
<1>1. /\ pc[r] = "admit" /\ pc'[r] \in {"control", "stamp", "suppress"} /\ pending' = pending
      /\ \A q \in Requests \ {r} : pc'[q] = pc[q] /\ cand'[q] = cand[q]
      /\ UNCHANGED <<req, reply, ledger>>
      /\ pc'[r] # "suppress" => cand' = cand
      /\ pc'[r] = "suppress" =>
           cand'[r] = [cand[r] EXCEPT !.action = "pass", !.reason = "cooldown"]
  BY DEF Admit, Goto, Typed, TypeOK, ThreadsTyped, sharedVars
<1>2. reply[r].action \notin Interventions  BY <1>1, Untold
<1>3. cand[r].by = r /\ cand[r] \in VerdictSet
  BY <1>1 DEF Sound, Authored, Decided, Typed, TypeOK, ThreadsTyped
<1>4. cand'[r].by = r /\ (pc'[r] = "suppress" => Hushed(cand'[r]))
  BY <1>1, <1>3 DEF VerdictSet, Hushed
<1>5. Unheard(r)  BY <1>1, <1>2, <1>4 DEF Unheard, Decided
<1> QED BY <1>1, <1>5

\* Nobody hears of Stamp.
LEMMA StampUnheard ==
  ASSUME Typed, Typed', Sound, NEW r \in Requests, Stamp(r)
  PROVE  Unheard(r) /\ req' = req
<1>1. pc[r] \in Decided \ {"park"} /\ pc'[r] \in Decided \ ({"park"} \cup Settled \cup Silencing)
  BY DEF Stamp, Goto, Decided, Typed, TypeOK, ThreadsTyped
<1>2. Unheard(r)
  BY <1>1, Untold DEF Stamp, Goto, Decided, Unheard, Sound, Authored, Typed, TypeOK, ThreadsTyped, sharedVars
<1> QED BY <1>2 DEF Stamp

\* Nobody hears of Load.
LEMMA LoadUnheard ==
  ASSUME Typed, Typed', Sound, NEW r \in Requests, Load(r)
  PROVE  Unheard(r) /\ req' = req
<1>1. /\ pc[r] \in Decided \ {"park"} /\ pc'[r] \in Decided \ {"park"}
      /\ pc'[r] \in Settled => pc[r] \in Settled
      /\ pc'[r] \in Silencing => pc[r] \in Silencing
  BY DEF Load, Goto, Decided, Typed, TypeOK, ThreadsTyped
<1>2. /\ pending' = pending /\ UNCHANGED <<req, cand, reply, ledger>>
      /\ \A q \in Requests \ {r} : pc'[q] = pc[q]
  BY DEF Load, Goto, Typed, TypeOK, ThreadsTyped, sharedVars
<1>3. reply[r].action \notin Interventions  BY <1>1, Untold DEF Decided
<1>4. cand[r].by = r  BY <1>1 DEF Sound, Authored
<1>5. pc'[r] \in Settled => MayTell(cand'[r], SessionOf(r)')
  BY <1>1, <1>2 DEF Sound, Ready, SessionOf
<1>6. pc'[r] \in Silencing => Hushed(cand'[r])  BY <1>1, <1>2 DEF Sound, Ready
<1>7. Unheard(r)  BY <1>1, <1>2, <1>3, <1>4, <1>5, <1>6 DEF Unheard, Decided
<1> QED BY <1>2, <1>7

\* Nobody hears of Store.
LEMMA StoreUnheard ==
  ASSUME Typed, Typed', Sound, NEW r \in Requests, Store(r)
  PROVE  Unheard(r) /\ req' = req
<1>1. /\ pc[r] \in Decided \ {"park"} /\ pc'[r] \in Decided \ {"park"}
      /\ pc'[r] \in Settled => pc[r] \in Settled
      /\ pc'[r] \in Silencing => pc[r] \in Silencing
  BY DEF Store, Goto, Decided, Typed, TypeOK, ThreadsTyped, AfterTally
<1>2. /\ pending' = pending /\ UNCHANGED <<req, cand, reply, ledger>>
      /\ \A q \in Requests \ {r} : pc'[q] = pc[q]
  BY DEF Store, Goto, Typed, TypeOK, ThreadsTyped, sharedVars
<1>3. reply[r].action \notin Interventions  BY <1>1, Untold DEF Decided
<1>4. cand[r].by = r  BY <1>1 DEF Sound, Authored
<1>5. pc'[r] \in Settled => MayTell(cand'[r], SessionOf(r)')
  BY <1>1, <1>2 DEF Sound, Ready, SessionOf
<1>6. pc'[r] \in Silencing => Hushed(cand'[r])  BY <1>1, <1>2 DEF Sound, Ready
<1>7. Unheard(r)  BY <1>1, <1>2, <1>3, <1>4, <1>5, <1>6 DEF Unheard, Decided
<1> QED BY <1>2, <1>7

\* Nobody hears of Confirm.
LEMMA ConfirmUnheard ==
  ASSUME Typed, Typed', Sound, NEW r \in Requests, Confirm(r)
  PROVE  Unheard(r) /\ req' = req
<1>1. /\ pc[r] \in Decided \ {"park"} /\ pc'[r] \in Decided \ {"park"}
      /\ pc'[r] \in Settled => pc[r] \in Settled
      /\ pc'[r] \in Silencing => pc[r] \in Silencing
  BY DEF Confirm, Goto, Decided, Typed, TypeOK, ThreadsTyped
<1>2. /\ pending' = pending /\ UNCHANGED <<req, cand, reply, ledger>>
      /\ \A q \in Requests \ {r} : pc'[q] = pc[q]
  BY DEF Confirm, Goto, Typed, TypeOK, ThreadsTyped, sharedVars
<1>3. reply[r].action \notin Interventions  BY <1>1, Untold DEF Decided
<1>4. cand[r].by = r  BY <1>1 DEF Sound, Authored
<1>5. pc'[r] \in Settled => MayTell(cand'[r], SessionOf(r)')
  BY <1>1, <1>2 DEF Sound, Ready, SessionOf
<1>6. pc'[r] \in Silencing => Hushed(cand'[r])  BY <1>1, <1>2 DEF Sound, Ready
<1>7. Unheard(r)  BY <1>1, <1>2, <1>3, <1>4, <1>5, <1>6 DEF Unheard, Decided
<1> QED BY <1>2, <1>7

\* Nobody hears of Enqueue.
LEMMA EnqueueUnheard ==
  ASSUME Typed, Typed', Sound, NEW r \in Requests, Enqueue(r)
  PROVE  Unheard(r) /\ req' = req
<1>1. /\ pc[r] \in Decided \ {"park"} /\ pc'[r] \in Decided \ {"park"}
      /\ pc'[r] \in Settled => pc[r] \in Settled
      /\ pc'[r] \in Silencing => pc[r] \in Silencing
  BY DEF Enqueue, Goto, Decided, Typed, TypeOK, ThreadsTyped
<1>2. /\ pending' = pending /\ UNCHANGED <<req, cand, reply, ledger>>
      /\ \A q \in Requests \ {r} : pc'[q] = pc[q]
  BY DEF Enqueue, Goto, Typed, TypeOK, ThreadsTyped, sharedVars
<1>3. reply[r].action \notin Interventions  BY <1>1, Untold DEF Decided
<1>4. cand[r].by = r  BY <1>1 DEF Sound, Authored
<1>5. pc'[r] \in Settled => MayTell(cand'[r], SessionOf(r)')
  BY <1>1, <1>2 DEF Sound, Ready, SessionOf
<1>6. pc'[r] \in Silencing => Hushed(cand'[r])  BY <1>1, <1>2 DEF Sound, Ready
<1>7. Unheard(r)  BY <1>1, <1>2, <1>3, <1>4, <1>5, <1>6 DEF Unheard, Decided
<1> QED BY <1>2, <1>7

\* Nobody hears of Detect.
LEMMA DetectUnheard ==
  ASSUME Typed, Typed', Sound, NEW r \in Requests, Detect(r)
  PROVE  Unheard(r) /\ req' = req
<1>1. cand'[r].by = r  BY DEF Detect, Verdict, Typed, TypeOK, ThreadsTyped
<1>2. Unheard(r)
  BY <1>1, Untold DEF Detect, Goto, Decided, Unheard, Typed, TypeOK, ThreadsTyped, sharedVars
<1> QED BY <1>2 DEF Detect

\* Nobody hears of NoDrift.
LEMMA NoDriftUnheard ==
  ASSUME Typed, Typed', Sound, NEW r \in Requests, NoDrift(r)
  PROVE  Unheard(r) /\ req' = req
<1>1. reply'[r].action = "pass"  BY DEF NoDrift, Answer, Verdict, Typed, TypeOK, ThreadsTyped
<1>2. Unheard(r)
  BY <1>1 DEF NoDrift, Goto, Answer, Decided, Unheard, Typed, TypeOK, ThreadsTyped, sharedVars
<1> QED BY <1>2 DEF NoDrift

\* Nobody hears of Scored.
LEMMA ScoredUnheard ==
  ASSUME Typed, Typed', Sound, NEW r \in Requests, NEW v, v.by = r, Scored(r, v)
  PROVE  Unheard(r) /\ req' = req
<1>1. Unheard(r)
  BY Untold DEF Scored, Goto, Decided, Unheard, Typed, TypeOK, ThreadsTyped
<1> QED BY <1>1 DEF Scored

\* Nobody hears of Judge.
LEMMA JudgeUnheard ==
  ASSUME Typed, Typed', Sound, NEW r \in Requests, Judge(r)
  PROVE  Unheard(r) /\ req' = req
<1>1. \A a, c, why : Verdict(a, "judge", c, why, r).by = r  BY DEF Verdict
<1>2. CASE \E a \in JudgeActions, c \in Confidences : JudgeAnswers(r, a, c)
  BY <1>1, <1>2, ScoredUnheard DEF JudgeAnswers
<1>3. CASE JudgeGarbled(r)
  BY <1>1, <1>3, ScoredUnheard DEF JudgeGarbled
<1>4. CASE JudgeOutage(r)
  BY <1>1, <1>4, ScoredUnheard DEF JudgeOutage
<1> QED BY <1>2, <1>3, <1>4 DEF Judge

\* Nobody hears of Intervene.
LEMMA InterveneUnheard ==
  ASSUME Typed, Typed', Sound, NEW r \in Requests, Intervene(r)
  PROVE  Unheard(r) /\ req' = req
<1> DEFINE v == Controlled(cand[r], Agent(r))
<1>1. v.action \in Stopping => Agent(r) \in OptedIn  BY DEF Controlled
<1>2. v.by = cand[r].by
  <2>1. cand[r] \in VerdictSet  BY DEF Typed, TypeOK, ThreadsTyped
  <2> QED BY <2>1 DEF Controlled, VerdictSet
<1>3. cand[r].by = r  BY DEF Intervene, Goto, Sound, Authored, Decided
<1> HIDE DEF v
<1>4. cand'[r] = v /\ v.action \in Interventions /\ SessionOf(r)' = SessionOf(r)
  BY DEF Intervene, v, SessionOf, Typed, TypeOK, ThreadsTyped
<1>5. MayTell(cand'[r], SessionOf(r)') /\ cand'[r].by = r
  BY <1>1, <1>2, <1>3, <1>4 DEF MayTell, Agent
<1>6. Unheard(r)
  BY <1>5, Untold DEF Intervene, Goto, Decided, Unheard, Typed, TypeOK, ThreadsTyped, sharedVars
<1> QED BY <1>6 DEF Intervene

\* A PASS that is recorded, or that the disk drops, tells nobody anything.
LEMMA PassUnheard ==
  ASSUME Typed, Sound, NEW r \in Requests, NEW v \in VerdictSet, v.by = r, v.action = "pass",
         pc[r] \notin {"park", "done", "lost"}, pending' = pending, req' = req,
         cand' = [cand EXCEPT ![r] = cand'[r]],
         \/ /\ pc' = [pc EXCEPT ![r] = "done"] /\ ledger' = ledger \cup {v}
            /\ reply' = [reply EXCEPT ![r] = v]
         \/ pc' = [pc EXCEPT ![r] = "lost"] /\ UNCHANGED <<ledger, reply>>
  PROVE  Unheard(r)
<1>1. /\ pc \in [Requests -> Points] /\ cand \in [Requests -> VerdictSet]
      /\ reply \in [Requests -> VerdictSet]
  BY DEF Typed, TypeOK, ThreadsTyped
<1>2. pc'[r] \in {"done", "lost"} /\ \A q \in Requests \ {r} : pc'[q] = pc[q]  BY <1>1
<1>3. \A q \in Requests \ {r} : cand'[q] = cand[q]  BY <1>1
<1>4. \A q \in Requests \ {r} : reply'[q] = reply[q]  BY <1>1
<1>5. reply'[r].action \notin Interventions
  <2>1. reply'[r] = v \/ reply'[r] = reply[r]  BY <1>1
  <2>2. reply[r].action \notin Interventions  BY Untold
  <2> QED BY <2>1, <2>2
<1>6. ledger' = ledger \/ (ledger' = ledger \cup {v} /\ pc'[r] = "done")  BY <1>1
<1>7. pc'[r] \notin Decided  BY <1>2 DEF Decided
<1> QED BY <1>2, <1>3, <1>4, <1>5, <1>6, <1>7 DEF Unheard, Decided

\* Nobody hears of Silence.
LEMMA SilenceUnheard ==
  ASSUME Typed, Typed', Sound, NEW r \in Requests, Silence(r)
  PROVE  Unheard(r) /\ req' = req
<1> DEFINE v == cand[r]
<1>1. v \in VerdictSet /\ v.by = r /\ v.action = "pass"
  BY DEF Silence, Goto, Sound, Authored, Ready, Hushed, Decided, Typed, TypeOK, ThreadsTyped
<1>2. /\ pc[r] \notin {"park", "done", "lost"} /\ pending' = pending /\ cand' = cand /\ req' = req
      /\ \/ pc' = [pc EXCEPT ![r] = "done"] /\ ledger' = ledger \cup {v} /\ Answer(r, v)
         \/ pc' = [pc EXCEPT ![r] = "lost"] /\ UNCHANGED <<ledger, reply>>
  BY DEF Silence, Goto, sharedVars
<1> HIDE DEF v
<1>3. Unheard(r)
  <2>1. cand' = [cand EXCEPT ![r] = cand'[r]]  BY <1>2 DEF Typed, TypeOK, ThreadsTyped
  <2> QED BY <1>1, <1>2, <2>1, PassUnheard DEF Answer
<1> QED BY <1>2, <1>3

\* Nobody hears of Withhold.
LEMMA WithholdUnheard ==
  ASSUME Typed, Typed', Sound, NEW r \in Requests, Withhold(r)
  PROVE  Unheard(r) /\ req' = req
<1> DEFINE v == Controlled(cand[r], Agent(r))
<1>1. cand[r] \in VerdictSet /\ cand[r].by = r
  BY DEF Withhold, Goto, Sound, Authored, Decided, Typed, TypeOK, ThreadsTyped
<1>2. v \in VerdictSet /\ v.by = r /\ v.action = "pass"
  BY <1>1 DEF Withhold, VerdictSet, Reasons, Controlled
<1>3. /\ pc[r] \notin {"park", "done", "lost"} /\ pending' = pending
      /\ cand' = [cand EXCEPT ![r] = v] /\ req' = req
      /\ \/ pc' = [pc EXCEPT ![r] = "done"] /\ ledger' = ledger \cup {v} /\ Answer(r, v)
         \/ pc' = [pc EXCEPT ![r] = "lost"] /\ UNCHANGED <<ledger, reply>>
  BY DEF Withhold, Goto, sharedVars
<1> HIDE DEF v
<1>4. Unheard(r)
  <2>1. cand' = [cand EXCEPT ![r] = cand'[r]]  BY <1>3 DEF Typed, TypeOK, ThreadsTyped
  <2> QED BY <1>2, <1>3, <2>1, PassUnheard DEF Answer
<1> QED BY <1>3, <1>4

(* The steps that tell nobody anything. *)
Quiet(r) ==
  \/ Snapshot(r) \/ Finalize(r) \/ LabelOne(r) \/ LabelDone(r) \/ Forget(r)
  \/ DrainEmpty(r) \/ NoHeader(r) \/ Detect(r) \/ NoDrift(r) \/ WakeJudge(r) \/ Judge(r)
  \/ FeedOne(r) \/ FeedDone(r) \/ Empty(r) \/ Admit(r) \/ Stamp(r) \/ Load(r) \/ Store(r)
  \/ Silence(r) \/ Withhold(r) \/ Intervene(r) \/ Confirm(r) \/ Enqueue(r)

\* None of the steps before the ledger line is heard of.
LEMMA QuietUnheard ==
  ASSUME Typed, Typed', Sound, NEW r \in Requests, Quiet(r)
  PROVE  Unheard(r) /\ req' = req
BY SnapshotUnheard, FinalizeUnheard, LabelOneUnheard, LabelDoneUnheard, ForgetUnheard,
   DrainEmptyUnheard, NoHeaderUnheard, DetectUnheard, NoDriftUnheard, WakeJudgeUnheard,
   JudgeUnheard, FeedOneUnheard, FeedDoneUnheard, EmptyUnheard, AdmitUnheard, StampUnheard,
   LoadUnheard, StoreUnheard, SilenceUnheard, WithholdUnheard, InterveneUnheard,
   ConfirmUnheard, EnqueueUnheard DEF Quiet

\* The house rules are recorded and told, or lost with their thread.
LEMMA HeaderStepSound ==
  ASSUME Typed, Typed', Sound, NEW r \in Requests, Header(r)
  PROVE  Sound'
<1> DEFINE v == Verdict("nudge", "rulebook", 99, "promoted", r)
<1>1. v \in VerdictSet /\ v.by = r /\ v.action = "nudge"
  BY DEF Verdict, VerdictSet, Sources, Reasons
<1>2. /\ pc[r] = "header" /\ pending' = pending /\ cand' = cand /\ req' = req
      /\ \/ pc' = [pc EXCEPT ![r] = "done"] /\ ledger' = ledger \cup {v} /\ reply' = [reply EXCEPT ![r] = v]
         \/ pc' = [pc EXCEPT ![r] = "lost"] /\ UNCHANGED <<ledger, reply>>
  BY DEF Header, Goto, Answer, sharedVars
<1> HIDE DEF v
<1>3. CASE pc' = [pc EXCEPT ![r] = "lost"] /\ UNCHANGED <<ledger, reply>>
  <2>1. Unheard(r)  BY <1>2, <1>3, Untold DEF Decided, Unheard, Typed, TypeOK, ThreadsTyped
  <2> QED BY <2>1, UnheardSound
<1> QED BY <1>1, <1>2, <1>3, HeaderSound

\* The ledger line is written, or the thread is lost.
LEMMA RecordStepSound ==
  ASSUME Typed, Typed', Sound, NEW r \in Requests, Record(r)
  PROVE  Sound'
<1>1. CASE ledger' = ledger \cup {cand[r]} /\ Goto(r, "record", "park")
  BY <1>1, RecordSound DEF Record, Goto, sharedVars
<1>2. CASE UNCHANGED ledger /\ Goto(r, "record", "lost")
  <2>1. Unheard(r)
    BY <1>2, Untold DEF Record, Goto, Decided, Unheard, Typed, TypeOK, ThreadsTyped, sharedVars
  <2> QED BY <2>1, UnheardSound
<1> QED BY <1>1, <1>2 DEF Record

\* A gate collects from the slot of its session.
LEMMA DrainParkedSound ==
  ASSUME Typed, Typed', Sound, NEW r \in Requests, DrainParked(r)
  PROVE  Sound'
<1>1. pc[r] = "drain" /\ SessionOf(r) \in Sessions /\ SessionOf(r)' = SessionOf(r)
  BY DEF DrainParked, Goto, Typed, Located, SessionOf
<1> QED BY <1>1, CollectSound DEF DrainParked, Goto, Answer, Taken

\* Every step keeps the delivery invariant.
LEMMA NextSound == Typed /\ Typed' /\ Sound /\ [Next]_vars => Sound'
<1> SUFFICES ASSUME Typed, Typed', Sound, [Next]_vars PROVE Sound'  OBVIOUS
<1>1. CASE UNCHANGED vars
  BY <1>1 DEF vars, threadVars, sessionVars, sharedVars, Sound, Authored, Ready, Recorded,
     LedgerSound, SlotSound, ReplySound, SlotFresh, ParkedHandedOutOnce, Told, MayTell, SessionOf,
     Hushed
<1>2. CASE Restart  BY <1>2, RestartSound
<1>3. CASE \E r \in Requests : Arrive(r)  BY <1>3, ArriveSound
<1>4. ASSUME NEW r \in Requests, Quiet(r) PROVE Sound'
  BY <1>4, QuietUnheard, UnheardSound
<1>5. ASSUME NEW r \in Requests, Header(r) \/ Record(r) \/ DrainParked(r) \/ Park(r) PROVE Sound'
  BY <1>5, HeaderStepSound, RecordStepSound, DrainParkedSound, ParkSound
<1>6. CASE \E r \in Requests : Step(r)  BY <1>4, <1>5, <1>6 DEF Step, Quiet
<1> QED BY <1>1, <1>2, <1>3, <1>6 DEF Next

(* The delivery invariant holds of process, _park and take_pending_verdict, for any
   number of threads, sessions and restarts: what is parked or told is an audited
   verdict of the same session that the agent agreed to, told to its requester and
   at most one other.                                                          *)
THEOREM DeliverySound == Spec => []DeliveryInvariant
<1>1. Init => Typed /\ Sound  BY InitTyped, InitSound
<1>2. Typed /\ Sound /\ [Next]_vars => (Typed /\ Sound)'  BY NextTyped, NextSound
<1>3. Typed /\ Sound => DeliveryInvariant  BY DEF Typed, DeliveryInvariant
<1> QED BY <1>1, <1>2, <1>3, PTL DEF Spec

(* No agent that did not opt in is ever stopped: process, _control, _park. *)
THEOREM AuthorityHolds == Spec => []AdvisoryAgentsNeverStopped
<1>1. DeliveryInvariant => AdvisoryAgentsNeverStopped
  <2> SUFFICES ASSUME DeliveryInvariant, NEW s \in Sessions, AgentOf[s] \notin OptedIn
               PROVE  /\ pending[s].action \notin Stopping
                      /\ \A r \in Requests : SessionOf(r) = s => reply[r].action \notin Stopping
    BY DEF AdvisoryAgentsNeverStopped
  <2>1. NoVerdict.action \notin Stopping  BY DEF NoVerdict, Verdict
  <2> QED BY <2>1 DEF DeliveryInvariant, Sound, SlotSound, ReplySound, Told, MayTell
<1> QED BY <1>1, DeliverySound, PTL

(* Whatever is told was recorded first, and for the session it is told to. *)
THEOREM AuditHolds == Spec => []InterventionsAudited
<1>1. DeliveryInvariant => InterventionsAudited
  BY DEF DeliveryInvariant, Sound, SlotSound, ReplySound, Told, InterventionsAudited
<1> QED BY <1>1, DeliverySound, PTL

(* However gates and polls race, a parked verdict is collected at most once. *)
THEOREM HandedOutOnce == Spec => []ParkedHandedOutOnce
<1>1. DeliveryInvariant => ParkedHandedOutOnce  BY DEF DeliveryInvariant, Sound
<1> QED BY <1>1, DeliverySound, PTL

-----------------------------------------------------------------------------
(* The refinement: what a client may rely on is all in VerdictDelivery.      *)

(* The abstract state of a session and of a request. *)
Home == [r \in Requests |-> SessionOf(r)]
Audit == {Brief(v) : v \in {u \in ledger : u.action \in Interventions}}
Slot == [s \in Sessions |-> Brief(pending[s])]
Heard == [r \in Requests |-> Brief(reply[r])]
abstract == <<Home, Audit, Slot, Heard>>

(* A brief of a verdict that may be told is a verdict of the abstract module,
   and not the empty slot.                                                   *)
LEMMA BriefOf ==
  ASSUME NEW v, v.action \in Interventions, v.by \in Requests
  PROVE  /\ Brief(v) = [action |-> v.action, by |-> v.by]
         /\ Brief(v).action = v.action /\ Brief(v).by = v.by
         /\ Brief(v) \in Delivery!Verdicts /\ Brief(v) # Nobody
BY EngineAssumption DEF Brief, Delivery!Verdicts, Delivery!Stopping

\* What is no intervention is nothing to the promise.
LEMMA BriefOfNone == \A v : v.action \notin Interventions => Brief(v) = Nobody
BY DEF Brief

\* An empty slot is an empty slot of the promise.
LEMMA BriefEmptySlot == Brief(NoVerdict) = Nobody
BY DEF Brief, NoVerdict, Verdict

(* The audit record of a request: nobody else speaks for it. *)
LEMMA AuditSound ==
  ASSUME Typed, Sound, NEW u \in Audit
  PROVE  u.by \in Requests /\ pc[u.by] \in {"park", "done", "lost"}
<1>1. PICK v \in ledger : v.action \in Interventions /\ u = Brief(v)  BY DEF Audit
<1>2. v.by \in Requests /\ pc[v.by] \in {"park", "done", "lost"}  BY DEF Sound, LedgerSound
<1> QED BY <1>1, <1>2, BriefOf

\* A fresh daemon is where the promise starts.
LEMMA InitRefines == Init => Delivery!Init
<1> SUFFICES ASSUME Init PROVE Delivery!Init  OBVIOUS
<1>1. Home = [r \in Requests |-> "none"]  BY DEF Init, Home, SessionOf, NoRequest
<1>2. Audit = {}  BY DEF Init, Audit
<1>3. Slot = [s \in Sessions |-> Nobody]
  BY BriefEmptySlot DEF Init, Slot, NothingParked
<1>4. Heard = [r \in Requests |-> Nobody]  BY BriefEmptySlot DEF Init, Heard
<1> QED BY <1>1, <1>2, <1>3, <1>4 DEF Delivery!Init, Home, Audit, Slot, Heard

(* A step that tells nobody anything leaves all of it but the session alone. *)
LEMMA UnheardAbstract ==
  ASSUME Typed, Sound, NEW r \in Requests, Unheard(r)
  PROVE  Audit' = Audit /\ Slot' = Slot /\ Heard' = Heard
<1>1. reply[r].action \notin Interventions  BY Untold DEF Unheard
<1>2. Heard' = Heard  BY <1>1, BriefOfNone DEF Heard, Unheard
<1>3. Slot' = Slot  BY DEF Slot, Unheard
<1>4. {u \in ledger' : u.action \in Interventions} = {u \in ledger : u.action \in Interventions}
  BY DEF Unheard
<1>5. Audit' = Audit  BY <1>4 DEF Audit
<1> QED BY <1>2, <1>3, <1>5

\* A step nobody hears of is no step of the promise.
LEMMA QuietStutters ==
  ASSUME Typed, Typed', Sound, NEW r \in Requests, Quiet(r)
  PROVE  UNCHANGED abstract
<1>1. Unheard(r) /\ req' = req  BY QuietUnheard
<1>2. Home' = Home  BY <1>1 DEF Home, SessionOf
<1> QED BY <1>1, <1>2, UnheardAbstract DEF abstract

(* An event that is ignored or accepted only opens the request. *)
LEMMA OpenRefines ==
  ASSUME Typed, Typed', Sound, NEW r \in Requests, NEW s \in Sessions,
         pc[r] = "unsent", Unheard(r), SessionOf(r)' = s
  PROVE  Delivery!Open(r, s)
<1>1. Home[r] = "none"  BY DEF Home, Typed, Located, NoRequest, SessionOf
<1>2. Home' = [Home EXCEPT ![r] = s]  BY DEF Home, Unheard, SessionOf
<1>3. Audit' = Audit /\ Slot' = Slot /\ Heard' = Heard  BY UnheardAbstract
<1> QED BY <1>1, <1>2, <1>3 DEF Delivery!Open, Home, Audit, Slot, Heard

\* Whoever takes the parked verdict collects.
LEMMA CollectRefines ==
  ASSUME Typed, Sound, NEW r \in Requests, NEW s \in Sessions, pending[s] # NoVerdict,
         pc[r] # "done", SessionOf(r) \in {"none", s}, SessionOf(r)' = s,
         \A q \in Requests \ {r} : req'[q] = req[q],
         reply' = [reply EXCEPT ![r] = pending[s]], pending' = [pending EXCEPT ![s] = NoVerdict],
         ledger' = ledger
  PROVE  Delivery!Collect(r, s)
<1>1. Brief(pending[s]) # Nobody
  BY BriefOf DEF Sound, SlotSound, Told, MayTell, LedgerSound
<1>2. Home[r] \in {"none", s} /\ Home' = [Home EXCEPT ![r] = s]  BY DEF Home, SessionOf
<1>3. Heard[r] = Nobody  BY Untold, BriefOfNone DEF Heard
<1>4. Slot[s] # Nobody  BY <1>1 DEF Slot
<1>5. Heard' = [Heard EXCEPT ![r] = Slot[s]]
  BY DEF Heard, Slot, Typed, TypeOK, ThreadsTyped
<1>6. Slot' = [Slot EXCEPT ![s] = Nobody]
  BY BriefEmptySlot DEF Slot, Typed, TypeOK, SharedTyped
<1>7. Audit' = Audit  BY DEF Audit
<1> QED BY <1>2, <1>3, <1>4, <1>5, <1>6, <1>7 DEF Delivery!Collect, Home, Audit, Slot, Heard

\* An arrival opens a request, and a poll may collect at once.
LEMMA ArriveRefines ==
  ASSUME Typed, Typed', Sound, NEW r \in Requests, Arrive(r)
  PROVE  \E s \in Sessions : Delivery!Open(r, s) \/ Delivery!Collect(r, s)
<1>1. pc[r] = "unsent" /\ reply[r].action \notin Interventions
  BY Untold DEF Arrive, Ignore, Ingest, Poll, Goto
<1>2. SessionOf(r) = "none"  BY <1>1 DEF Typed, Located, SessionOf, NoRequest
<1> USE <1>1 DEF Goto, Answer, Typed, TypeOK, ThreadsTyped, Decided
<1>3. PICK s \in Sessions, k \in Kinds, t \in Times :
        \/ Ignore(r, s, k, t)
        \/ \E mk \in {"plain", "bad", "denied"} : Ingest(r, s, k, t, mk)
        \/ Poll(r, s, k, t)
  BY DEF Arrive
<1>4. CASE Ignore(r, s, k, t)
  <2>1. reply'[r].action = "pass"  BY <1>4 DEF Ignore, Verdict
  <2>2. Unheard(r) /\ SessionOf(r)' = s
    BY <1>4, <2>1 DEF Ignore, Send, sharedVars, Unheard, SessionOf
  <2> QED BY <2>2, OpenRefines
<1>5. ASSUME NEW mk, Ingest(r, s, k, t, mk) PROVE Delivery!Open(r, s)
  <2>1. Unheard(r) /\ SessionOf(r)' = s
    BY <1>5 DEF Ingest, Send, sharedVars, Unheard, SessionOf
  <2> QED BY <2>1, OpenRefines
<1>6. CASE Poll(r, s, k, t) /\ pending[s] = NoVerdict
  <2>1. pending' = pending  BY <1>6 DEF Poll, Taken, SharedTyped
  <2>2. NoVerdict.action \notin Interventions  BY DEF NoVerdict, Verdict
  <2>3. Unheard(r) /\ SessionOf(r)' = s
    BY <1>6, <2>1, <2>2 DEF Poll, Send, Unheard, SessionOf
  <2> QED BY <2>3, OpenRefines
<1>7. CASE Poll(r, s, k, t) /\ pending[s] # NoVerdict
  <2>1. SessionOf(r)' = s  BY <1>7 DEF Poll, Send, SessionOf
  <2>2. \A q \in Requests \ {r} : req'[q] = req[q]  BY <1>7 DEF Poll, Send
  <2>3. /\ reply' = [reply EXCEPT ![r] = pending[s]] /\ ledger' = ledger
        /\ pending' = [pending EXCEPT ![s] = NoVerdict]
    BY <1>7 DEF Poll, Taken
  <2>4. Delivery!Collect(r, s)  BY <1>2, <1>7, <2>1, <2>2, <2>3, CollectRefines
  <2> QED BY <2>4
<1> QED BY <1>3, <1>4, <1>5, <1>6, <1>7

\* A gate that finds a parked verdict collects.
LEMMA DrainParkedRefines ==
  ASSUME Typed, Sound, NEW r \in Requests, DrainParked(r)
  PROVE  \E s \in Sessions : Delivery!Collect(r, s)
<1>1. pc[r] = "drain" /\ SessionOf(r) \in Sessions /\ SessionOf(r)' = SessionOf(r)
  BY DEF DrainParked, Goto, Typed, Located, SessionOf
<1> QED BY <1>1, CollectRefines DEF DrainParked, Goto, Answer, Taken

(* A new line of the ledger may be decided: the request was not heard of. *)
LEMMA NewsDecidable ==
  ASSUME Typed, Sound, NEW r \in Requests, pc[r] \in {"header", "record"}, NEW v, v.by = r,
         MayTell(v, SessionOf(r))
  PROVE  Delivery!Decidable(r, Brief(v))
<1>1. Home[r] \in Sessions  BY DEF Home, Typed, Located
<1>2. Heard[r] = Nobody  BY Untold, BriefOfNone DEF Heard
<1>3. Brief(v).by = r /\ Brief(v).action = v.action  BY BriefOf DEF MayTell
<1>4. \A u \in Audit : u.by # r  BY AuditSound
<1>5. v.action \in Stopping => Home[r] \in {s \in Sessions : AgentOf[s] \in OptedIn}
  BY <1>1 DEF MayTell, Home
<1> QED BY <1>1, <1>2, <1>3, <1>4, <1>5
        DEF Delivery!Decidable, Delivery!Stopping, Home, Heard, Audit

\* A line for an intervention is an entry of the audit record.
LEMMA AuditGrows ==
  ASSUME NEW v, v.action \in Interventions, ledger' = ledger \cup {v}
  PROVE  Audit' = Audit \cup {Brief(v)}
<1>1. {u \in ledger' : u.action \in Interventions}
        = {u \in ledger : u.action \in Interventions} \cup {v}
  OBVIOUS
<1> QED BY <1>1 DEF Audit

\* The house rules are a greeting.
LEMMA HeaderRefines ==
  ASSUME Typed, Typed', Sound, NEW r \in Requests, Header(r)
  PROVE  UNCHANGED abstract \/ \E v \in Delivery!Verdicts : Delivery!Greet(r, v)
<1> DEFINE v == Verdict("nudge", "rulebook", 99, "promoted", r)
<1>1. v.by = r /\ v.action = "nudge"  BY DEF Verdict
<1>2. /\ pc[r] = "header" /\ pending' = pending /\ cand' = cand /\ req' = req
      /\ \/ ledger' = ledger \cup {v} /\ reply' = [reply EXCEPT ![r] = v]
         \/ UNCHANGED <<ledger, reply>>
  BY DEF Header, Goto, Answer, sharedVars
<1> HIDE DEF v
<1>3. Home' = Home /\ Slot' = Slot  BY <1>2 DEF Home, Slot, SessionOf
<1>4. CASE UNCHANGED <<ledger, reply>>
  <2>1. Audit' = Audit /\ Heard' = Heard  BY <1>4 DEF Audit, Heard
  <2> QED BY <1>3, <2>1 DEF abstract
<1>5. CASE ledger' = ledger \cup {v} /\ reply' = [reply EXCEPT ![r] = v]
  <2>1. Brief(v) \in Delivery!Verdicts /\ Brief(v).action \notin Stopping  BY <1>1, BriefOf
  <2>2. Delivery!Decidable(r, Brief(v))  BY <1>1, <1>2, NewsDecidable DEF MayTell
  <2>3. Audit' = Audit \cup {Brief(v)}  BY <1>1, <1>5, AuditGrows
  <2>4. Heard' = [Heard EXCEPT ![r] = Brief(v)]
    BY <1>5 DEF Heard, Typed, TypeOK, ThreadsTyped
  <2>5. Delivery!Greet(r, Brief(v))
    BY <1>3, <2>1, <2>2, <2>3, <2>4
    DEF Delivery!Greet, Delivery!Stopping, Home, Audit, Slot, Heard
  <2> QED BY <2>1, <2>5
<1> QED BY <1>2, <1>4, <1>5

\* The ledger line is the decision.
LEMMA RecordRefines ==
  ASSUME Typed, Sound, NEW r \in Requests, Record(r)
  PROVE  UNCHANGED abstract \/ \E v \in Delivery!Verdicts : Delivery!Decide(r, v)
<1>1. /\ pc[r] = "record" /\ reply' = reply /\ pending' = pending /\ req' = req
      /\ ledger' = ledger \/ ledger' = ledger \cup {cand[r]}
  BY DEF Record, Goto, sharedVars
<1>2. Home' = Home /\ Slot' = Slot /\ Heard' = Heard
  BY <1>1 DEF Home, Slot, Heard, SessionOf
<1>3. CASE ledger' = ledger
  <2>1. Audit' = Audit  BY <1>3 DEF Audit
  <2> QED BY <1>2, <2>1 DEF abstract
<1>4. CASE ledger' = ledger \cup {cand[r]}
  <2>1. PICK v : v = cand[r]  OBVIOUS
  <2>2. v.by = r /\ MayTell(v, SessionOf(r))
    BY <1>1, <2>1 DEF Sound, Authored, Decided, Ready
  <2>3. Brief(v) \in Delivery!Verdicts  BY <2>2, BriefOf DEF MayTell
  <2>4. Delivery!Decidable(r, Brief(v))  BY <1>1, <2>2, NewsDecidable
  <2>5. Audit' = Audit \cup {Brief(v)}  BY <1>4, <2>1, <2>2, AuditGrows DEF MayTell
  <2>6. Delivery!Decide(r, Brief(v))
    BY <1>2, <2>4, <2>5 DEF Delivery!Decide, Home, Audit, Slot, Heard
  <2> QED BY <2>3, <2>6
<1> QED BY <1>1, <1>3, <1>4

\* Parking and answering is the telling.
LEMMA ParkRefines ==
  ASSUME Typed, Sound, NEW r \in Requests, Park(r)
  PROVE  \E v \in Delivery!Verdicts : Delivery!Tell(r, v)
<1>1. /\ pc[r] = "park" /\ reply' = [reply EXCEPT ![r] = cand[r]] /\ req' = req
      /\ ledger' = ledger /\ pending' = [pending EXCEPT ![SessionOf(r)] = cand[r]]
  BY DEF Park, Goto, Answer
<1>2. SessionOf(r) \in Sessions  BY <1>1 DEF Typed, Located
<1>3. cand[r].by = r /\ cand[r].action \in Interventions /\ cand[r] \in ledger
  BY <1>1 DEF Sound, Authored, Decided, Ready, Recorded, MayTell
<1> DEFINE v == Brief(cand[r])
<1>4. v.by = r /\ v \in Delivery!Verdicts /\ v # Nobody  BY <1>3, BriefOf
<1>5. v \in Audit  BY <1>3 DEF Audit
<1>6. Heard[r] = Nobody  BY <1>1, Untold, BriefOfNone DEF Heard
<1>7. \A q \in Requests : Heard[q] # v
  <2> SUFFICES ASSUME NEW q \in Requests, Brief(reply[q]) = v PROVE FALSE  BY DEF Heard
  <2>1. reply[q].action \in Interventions  BY <1>4, BriefOfNone
  <2>2. reply[q] \in ledger /\ pc[reply[q].by] = "done"  BY <2>1 DEF Sound, ReplySound, Told
  <2>3. reply[q].by = r  BY <1>4, <2>1, <2>2, BriefOf DEF Sound, LedgerSound
  <2> QED BY <1>1, <2>2, <2>3
<1> HIDE DEF v
<1>8. Heard' = [Heard EXCEPT ![r] = v]  BY <1>1 DEF Heard, v, Typed, TypeOK, ThreadsTyped
<1>9. Slot' = [Slot EXCEPT ![Home[r]] = v]
  BY <1>1, <1>2 DEF Slot, Home, v, Typed, TypeOK, SharedTyped
<1>10. Home' = Home /\ Audit' = Audit  BY <1>1 DEF Home, Audit, SessionOf
<1>11. Delivery!Tell(r, v)
  BY <1>4, <1>5, <1>6, <1>7, <1>8, <1>9, <1>10 DEF Delivery!Tell, Home, Audit, Slot, Heard
<1> QED BY <1>4, <1>11

\* A restart forgets the slots.
LEMMA RestartRefines ==
  ASSUME Restart
  PROVE  Delivery!Forget
<1>1. Slot' = [s \in Sessions |-> Nobody]
  BY BriefEmptySlot DEF Restart, Slot, NothingParked
<1>2. Home' = Home /\ Audit' = Audit /\ Heard' = Heard
  BY DEF Restart, Home, Audit, Heard, SessionOf
<1> QED BY <1>1, <1>2 DEF Delivery!Forget, Home, Audit, Slot, Heard

(* Every step of the engine is a step of the promise, or none. *)
LEMMA NextRefines == Typed /\ Typed' /\ Sound /\ [Next]_vars => [Delivery!Next]_(Delivery!vars)
<1> SUFFICES ASSUME Typed, Typed', Sound, [Next]_vars PROVE [Delivery!Next]_(Delivery!vars)
  OBVIOUS
<1>1. UNCHANGED abstract => UNCHANGED Delivery!vars
  BY DEF abstract, Delivery!vars, Home, Audit, Slot, Heard
<1>2. CASE UNCHANGED vars
  <2>1. UNCHANGED abstract
    BY <1>2 DEF vars, threadVars, sessionVars, sharedVars, abstract, Home, Audit, Slot, Heard,
                SessionOf
  <2> QED BY <1>1, <2>1
<1>3. CASE Restart  BY <1>3, RestartRefines DEF Delivery!Next
<1>4. ASSUME NEW r \in Requests, Arrive(r) PROVE Delivery!Next
  BY <1>4, ArriveRefines DEF Delivery!Next
<1>5. ASSUME NEW r \in Requests, Quiet(r) PROVE UNCHANGED abstract
  BY <1>5, QuietStutters
<1>6. ASSUME NEW r \in Requests, Header(r) PROVE UNCHANGED abstract \/ Delivery!Next
  BY <1>6, HeaderRefines DEF Delivery!Next
<1>7. ASSUME NEW r \in Requests, Record(r) PROVE UNCHANGED abstract \/ Delivery!Next
  BY <1>7, RecordRefines DEF Delivery!Next
<1>8. ASSUME NEW r \in Requests, DrainParked(r) \/ Park(r) PROVE Delivery!Next
  BY <1>8, DrainParkedRefines, ParkRefines DEF Delivery!Next
<1>9. CASE \E r \in Requests : Step(r)
  <2>1. PICK r \in Requests : Quiet(r) \/ Header(r) \/ Record(r) \/ DrainParked(r) \/ Park(r)
    BY <1>9 DEF Step, Quiet
  <2> QED BY <1>1, <1>5, <1>6, <1>7, <1>8, <2>1
<1> QED BY <1>2, <1>3, <1>4, <1>9 DEF Next

(* A client that relies on VerdictDelivery relies on nothing the engine does
   not do: process, _park and take_pending_verdict implement it.             *)
THEOREM DeliveryImplemented == Spec => ImplementsDelivery
<1>1. Init => Delivery!Init  BY InitRefines
<1>2. Init => Typed /\ Sound  BY InitTyped, InitSound
<1>3. Typed /\ Sound /\ [Next]_vars => (Typed /\ Sound)'  BY NextTyped, NextSound
<1>4. Typed /\ Typed' /\ Sound /\ [Next]_vars => [Delivery!Next]_(Delivery!vars)  BY NextRefines
<1> QED BY <1>1, <1>2, <1>3, <1>4, PTL DEF Spec, ImplementsDelivery, Delivery!Spec

-----------------------------------------------------------------------------
(* What a step may change.                                                   *)

\* A step moves its own thread only, which was accepted before and stays so.
LEMMA StepMoves ==
  ASSUME Typed, NEW r \in Requests, Step(r)
  PROVE  /\ pc[r] \notin Idle /\ pc'[r] \notin {"unsent", "snapshot"}
         /\ \A q \in Requests \ {r} : pc'[q] = pc[q]
         /\ req' = req /\ era' = era
<1> USE DEF Idle
<1>1. pc \in [Requests -> Points]  BY DEF Typed, TypeOK, ThreadsTyped
<1>2. CASE Snapshot(r)
  <2>1. AfterSnapshot(req[r].kind) \notin {"unsent", "snapshot"}  BY DEF AfterSnapshot
  <2> QED BY <1>1, <1>2, <2>1 DEF Snapshot, Goto
<1>3. CASE Finalize(r) \/ LabelOne(r) \/ LabelDone(r) \/ Forget(r) \/ DrainParked(r) \/ DrainEmpty(r)
  BY <1>1, <1>3 DEF Finalize, LabelOne, LabelDone, Forget, DrainParked, DrainEmpty, Goto
<1>4. CASE Header(r) \/ NoHeader(r) \/ Detect(r) \/ NoDrift(r) \/ WakeJudge(r)
  BY <1>1, <1>4 DEF Header, NoHeader, Detect, NoDrift, WakeJudge, Goto
<1>5. CASE Judge(r)
  BY <1>1, <1>5 DEF Judge, JudgeAnswers, JudgeGarbled, JudgeOutage, Scored, Goto
<1>6. CASE FeedOne(r) \/ FeedDone(r) \/ Empty(r) \/ Admit(r) \/ Stamp(r)
  BY <1>1, <1>6 DEF FeedOne, FeedDone, Empty, Admit, Stamp, Goto
<1>7. CASE Load(r) \/ Store(r) \/ Silence(r) \/ Withhold(r) \/ Intervene(r)
  BY <1>1, <1>7 DEF Load, Store, AfterTally, Silence, Withhold, Intervene, Goto
<1>8. CASE Confirm(r) \/ Enqueue(r) \/ Record(r) \/ Park(r)
  BY <1>1, <1>8 DEF Confirm, Enqueue, Record, Park, Goto
<1> QED BY <1>2, <1>3, <1>4, <1>5, <1>6, <1>7, <1>8 DEF Step

\* Which step writes what.
LEMMA StepKeeps ==
  ASSUME NEW r \in Requests, Step(r)
  PROVE  /\ ~ Snapshot(r) => UNCHANGED <<window, history>>
         /\ ~ Stamp(r) => UNCHANGED lastNudge
         /\ ~ (Judge(r) \/ Forget(r)) => UNCHANGED scores
         /\ ~ LabelOne(r) => UNCHANGED labelled
         /\ ~ (Empty(r) \/ Enqueue(r)) => UNCHANGED queued
         /\ ~ FeedOne(r) => UNCHANGED book
         /\ ~ (Finalize(r) \/ Empty(r)) => UNCHANGED saved
         /\ ~ (Detect(r) \/ Judge(r) \/ Admit(r) \/ Withhold(r) \/ Intervene(r)) => UNCHANGED cand
         /\ ~ (Header(r) \/ Silence(r) \/ Withhold(r) \/ Record(r)) => UNCHANGED ledger
         /\ ~ (Load(r) \/ Store(r)) => UNCHANGED was
         /\ ~ (Snapshot(r) \/ Store(r)) => UNCHANGED stats
<1> USE DEF sessionVars, sharedVars
<1>1. CASE Snapshot(r) \/ Finalize(r) \/ LabelOne(r) \/ LabelDone(r) \/ Forget(r) \/ DrainParked(r)
  BY <1>1 DEF Snapshot, Finalize, LabelOne, LabelDone, Forget, DrainParked
<1>2. CASE DrainEmpty(r) \/ Header(r) \/ NoHeader(r) \/ Detect(r) \/ NoDrift(r) \/ WakeJudge(r)
  BY <1>2 DEF DrainEmpty, Header, NoHeader, Detect, NoDrift, WakeJudge
<1>3. CASE Judge(r)
  <2>1. UNCHANGED <<window, history, lastNudge, labelled, queued, book, saved, ledger, was, stats>>
    BY <1>3 DEF Judge, JudgeAnswers, JudgeGarbled, JudgeOutage, Scored
  <2> QED BY <1>3, <2>1
<1>4. CASE FeedOne(r) \/ FeedDone(r) \/ Empty(r) \/ Admit(r) \/ Stamp(r)
  BY <1>4 DEF FeedOne, FeedDone, Empty, Admit, Stamp
<1>5. CASE Load(r) \/ Store(r) \/ Silence(r) \/ Withhold(r) \/ Intervene(r)
  BY <1>5 DEF Load, Store, Silence, Withhold, Intervene
<1>6. CASE Confirm(r) \/ Enqueue(r) \/ Record(r) \/ Park(r)
  BY <1>6 DEF Confirm, Enqueue, Record, Park
<1> QED BY <1>1, <1>2, <1>3, <1>4, <1>5, <1>6 DEF Step

\* An arrival concerns its own thread only, and is of this incarnation of the daemon.
LEMMA ArriveMoves ==
  ASSUME Typed, NEW r \in Requests, Arrive(r)
  PROVE  /\ pc[r] = "unsent" /\ pc'[r] \in {"snapshot", "done", "lost"}
         /\ \A q \in Requests \ {r} : pc'[q] = pc[q] /\ req'[q] = req[q]
         /\ SessionOf(r)' \in Sessions /\ req'[r].era = era
         /\ req'[r].past = {q \in Requests : pc[q] \in {"done", "lost"} /\ SessionOf(q) = SessionOf(r)'}
         /\ UNCHANGED <<cand, at, was, history, sessionVars, labelled, book, saved, ledger, era>>
<1>1. pc \in [Requests -> Points] /\ req = [q \in Requests |-> req[q]]
  BY DEF Typed, TypeOK, ThreadsTyped
<1>2. PICK s \in Sessions, k \in Kinds, t \in Times, m \in {"plain", "bad", "denied"} :
        Ignore(r, s, k, t) \/ Ingest(r, s, k, t, m) \/ Poll(r, s, k, t)
  BY DEF Arrive
<1>3. \E n \in {"plain", "bad", "denied"} : Send(r, s, k, t, n)
  BY <1>2 DEF Ignore, Ingest, Poll
<1>4. PICK n : req' = [req EXCEPT ![r] = [sess |-> s, kind |-> k, ts |-> t, mark |-> n, era |-> era,
         past |-> {q \in Requests : pc[q] \in {"done", "lost"} /\ SessionOf(q) = s}]]
  BY <1>3 DEF Send
<1>5. /\ req'[r].sess = s /\ req'[r].era = era
      /\ req'[r].past = {q \in Requests : pc[q] \in {"done", "lost"} /\ SessionOf(q) = s}
      /\ \A q \in Requests \ {r} : req'[q] = req[q]
  BY <1>1, <1>4
<1>6. /\ pc[r] = "unsent" /\ pc'[r] \in {"snapshot", "done", "lost"}
      /\ \A q \in Requests \ {r} : pc'[q] = pc[q]
  BY <1>1, <1>2 DEF Ignore, Ingest, Poll, Goto
<1>7. UNCHANGED <<cand, at, was, history, sessionVars, labelled, book, saved, ledger, era>>
  BY <1>2 DEF Ignore, Ingest, Poll, sharedVars
<1>8. SessionOf(r)' = s  BY <1>5 DEF SessionOf
<1> QED BY <1>5, <1>6, <1>7, <1>8

-----------------------------------------------------------------------------
(* The window.                                                               *)

(* A request in a window is past its snapshot, so that what it saw is settled. *)
WindowSettled ==
  \A s \in Sessions : \A i \in 1..Len(window[s]) : pc[window[s][i]] \notin {"unsent", "snapshot"}
WindowSound == WindowSettled /\ WindowTracksEvents

\* Eviction keeps the newest n.
LEMMA LastNElements ==
  ASSUME NEW T, NEW q \in Seq(T), NEW n \in Nat
  PROVE  /\ Len(LastN(q, n)) = IF Len(q) < n THEN Len(q) ELSE n
         /\ \A i \in 1..Len(LastN(q, n)) :
              LastN(q, n)[i] = q[i + (IF Len(q) > n THEN Len(q) - n ELSE 0)]
<1> DEFINE off == IF Len(q) > n THEN Len(q) - n ELSE 0
<1>1. Len(q) \in Nat /\ off \in Nat /\ off <= Len(q)  OBVIOUS
<1>2. LastN(q, n) = SubSeq(q, off + 1, Len(q))  BY DEF LastN
<1>3. \A i \in (off + 1)..Len(q) : q[i] \in T  BY <1>1
<1>4. /\ Len(SubSeq(q, off + 1, Len(q)))
           = IF off + 1 <= Len(q) THEN Len(q) - (off + 1) + 1 ELSE 0
      /\ \A i \in 1..(Len(q) - (off + 1) + 1) : SubSeq(q, off + 1, Len(q))[i] = q[(off + 1) + i - 1]
  <2> HIDE DEF off
  <2> QED BY <1>1, <1>3, SubSeqProperties
<1>5. Len(LastN(q, n)) = Len(q) - off
  <2> HIDE DEF off
  <2> QED BY <1>1, <1>2, <1>4
<1>6. \A i \in 1..Len(LastN(q, n)) : LastN(q, n)[i] = q[i + off]
  <2> HIDE DEF off
  <2> QED BY <1>1, <1>2, <1>4, <1>5
<1>7. off = IF Len(q) > n THEN Len(q) - n ELSE 0  OBVIOUS
<1>8. Len(LastN(q, n)) = IF Len(q) < n THEN Len(q) ELSE n
  <2> HIDE DEF off
  <2>1. CASE Len(q) > n  BY <1>1, <1>5, <1>7, <2>1
  <2>2. CASE ~ (Len(q) > n)  BY <1>1, <1>5, <1>7, <2>2
  <2> QED BY <2>1, <2>2
<1> QED BY <1>6, <1>8

\* A step that leaves windows, histories and counts alone keeps the window sound.
LEMMA WindowElsewhere ==
  ASSUME Typed, WindowSound, UNCHANGED <<window, history>>,
         \A s \in Sessions : stats'[s].seen = stats[s].seen,
         \A r \in Requests : pc[r] \notin {"unsent", "snapshot"} => pc'[r] \notin {"unsent", "snapshot"}
  PROVE  WindowSound'
<1>1. \A s \in Sessions : \A i \in 1..Len(window[s]) : window[s][i] \in Requests
  BY DEF Typed, TypeOK, SessionsTyped
<1>2. WindowSettled'  BY <1>1 DEF WindowSound, WindowSettled
<1>3. WindowTracksEvents'  BY DEF WindowSound, WindowTracksEvents
<1> QED BY <1>2, <1>3 DEF WindowSound

\* Snapshot, push and count under one lock: the new event saw its predecessor as the newest.
LEMMA SnapshotWindow ==
  ASSUME Typed, WindowSound, NEW r \in Requests, Snapshot(r)
  PROVE  WindowSound'
<1> DEFINE s == SessionOf(r)
           w == window[s]
           e == Append(w, r)
           n == WindowSize
           off == IF Len(e) > n THEN Len(e) - n ELSE 0
<1>1. /\ pc[r] = "snapshot" /\ history' = [history EXCEPT ![r] = w]
      /\ window' = [window EXCEPT ![s] = LastN(e, n)]
      /\ stats' = [stats EXCEPT ![s].seen = @ + 1]
  BY DEF Snapshot, Goto
<1>2. s \in Sessions  BY <1>1 DEF Typed, Located
<1>3. /\ w \in Seq(Requests) /\ e \in Seq(Requests) /\ Len(e) = Len(w) + 1 /\ Len(w) \in Nat
      /\ e[Len(w) + 1] = r /\ \A i \in 1..Len(w) : e[i] = w[i]
  BY <1>2 DEF Typed, TypeOK, SessionsTyped
<1>4. n \in Nat \ {0}  BY EngineAssumption
<1>5. /\ Len(LastN(e, n)) = IF Len(e) < n THEN Len(e) ELSE n
      /\ \A i \in 1..Len(LastN(e, n)) : LastN(e, n)[i] = e[i + off]
  BY <1>3, <1>4, LastNElements
<1>6. window'[s] = LastN(e, n) /\ \A u \in Sessions \ {s} : window'[u] = window[u]
  BY <1>1, <1>2 DEF Typed, TypeOK, SessionsTyped
<1>7. /\ stats[s].seen \in Nat /\ stats'[s].seen = stats[s].seen + 1
      /\ \A u \in Sessions \ {s} : stats'[u].seen = stats[u].seen
  BY <1>1, <1>2 DEF Typed, TypeOK, SessionsTyped, Fields
<1>8. history'[r] = w /\ \A q \in Requests \ {r} : history'[q] = history[q]
  BY <1>1 DEF Typed, TypeOK, ThreadsTyped
<1>9. pc'[r] \notin {"unsent", "snapshot"} /\ \A q \in Requests \ {r} : pc'[q] = pc[q]
  BY StepMoves DEF Step
<1>10. \A u \in Sessions : \A i \in 1..Len(window[u]) : window[u][i] \in Requests \ {r}
  <2>1. \A u \in Sessions : \A i \in 1..Len(window[u]) : window[u][i] \in Requests
    BY DEF Typed, TypeOK, SessionsTyped
  <2>2. \A u \in Sessions : \A i \in 1..Len(window[u]) : pc[window[u][i]] # "snapshot"
    BY DEF WindowSound, WindowSettled
  <2> QED BY <1>1, <2>1, <2>2
<1>11. off \in Nat  BY <1>3, <1>4
<1>12. Len(LastN(e, n)) + off = Len(e)
  <2>1. off = IF Len(e) > n THEN Len(e) - n ELSE 0  OBVIOUS
  <2> HIDE DEF off, e, s, w, n
  <2>2. Len(e) \in Nat /\ n \in Nat  BY <1>3, <1>4
  <2>3. Len(LastN(e, n)) = IF Len(e) < n THEN Len(e) ELSE n  BY <1>5
  <2>4. CASE Len(e) > n  BY <2>1, <2>2, <2>3, <2>4
  <2>5. CASE ~(Len(e) > n)  BY <2>1, <2>2, <2>3, <2>5
  <2> QED BY <2>4, <2>5
<1> HIDE DEF off, e, s, w, n
<1>13. \A i \in 1..Len(LastN(e, n)) :
         /\ i + off \in 1..(Len(w) + 1) /\ LastN(e, n)[i] = e[i + off]
  BY <1>3, <1>4, <1>5, <1>11, <1>12
<1>14. WindowSettled'
  <2> SUFFICES ASSUME NEW u \in Sessions, NEW i \in 1..Len(window'[u])
               PROVE  pc'[window'[u][i]] \notin {"unsent", "snapshot"}
    BY DEF WindowSettled
  <2>1. CASE u # s  BY <1>6, <1>9, <1>10, <2>1 DEF WindowSound, WindowSettled
  <2>2. CASE u = s
    <3>1. i \in 1..Len(LastN(e, n)) /\ window'[u][i] = LastN(e, n)[i]  BY <1>6, <2>2
    <3>2. i + off \in 1..(Len(w) + 1) /\ window'[u][i] = e[i + off]  BY <1>13, <3>1
    <3>3. CASE i + off = Len(w) + 1  BY <1>3, <1>9, <3>2, <3>3
    <3>4. CASE i + off # Len(w) + 1
      <4>1. i + off \in 1..Len(w)  BY <1>3, <3>2, <3>4
      <4>2. e[i + off] = w[i + off]  BY <1>3, <4>1
      <4> QED BY <1>2, <1>9, <1>10, <3>2, <4>1, <4>2 DEF WindowSound, WindowSettled, w
    <3> QED BY <3>3, <3>4
  <2> QED BY <2>1, <2>2
<1>15. WindowTracksEvents'
  <2> SUFFICES ASSUME NEW u \in Sessions
               PROVE  /\ Len(window'[u]) = IF stats'[u].seen < n THEN stats'[u].seen ELSE n
                      /\ \A i \in 2..Len(window'[u]) :
                           history'[window'[u][i]][Len(history'[window'[u][i]])] = window'[u][i - 1]
    BY DEF WindowTracksEvents, n
  <2>1. CASE u # s
    <3>1. \A i \in 1..Len(window[u]) : history'[window[u][i]] = history[window[u][i]]
      BY <1>8, <1>10
    <3>2. window'[u] = window[u] /\ stats'[u].seen = stats[u].seen  BY <1>6, <1>7, <2>1
    <3>3. Len(window[u]) = IF stats[u].seen < n THEN stats[u].seen ELSE n
      BY DEF WindowSound, WindowTracksEvents, n
    <3>4. \A i \in 2..Len(window[u]) :
            i \in 1..Len(window[u]) /\ history[window[u][i]][Len(history[window[u][i]])] = window[u][i - 1]
      <4>1. \A i \in 2..Len(window[u]) : history[window[u][i]][Len(history[window[u][i]])] = window[u][i - 1]
        BY DEF WindowSound, WindowTracksEvents
      <4>2. Len(window[u]) \in Nat  BY DEF Typed, TypeOK, SessionsTyped
      <4>3. \A i \in 2..Len(window[u]) : i \in 1..Len(window[u])  BY <4>2
      <4> QED BY <4>1, <4>3
    <3>5. \A i \in 2..Len(window[u]) :
            history'[window[u][i]][Len(history'[window[u][i]])] = window[u][i - 1]
      BY <3>1, <3>4
    <3> QED BY <3>2, <3>3, <3>5
  <2>2. CASE u = s
    <3>1. Len(w) = IF stats[s].seen < n THEN stats[s].seen ELSE n
      BY <1>2 DEF WindowSound, WindowTracksEvents, w, n
    <3>2. Len(window'[u]) = IF stats'[u].seen < n THEN stats'[u].seen ELSE n
      BY <1>3, <1>4, <1>5, <1>6, <1>7, <2>2, <3>1
    <3>3. ASSUME NEW i \in 2..Len(window'[u])
          PROVE  history'[window'[u][i]][Len(history'[window'[u][i]])] = window'[u][i - 1]
      <4>1. i \in 1..Len(LastN(e, n)) /\ i - 1 \in 1..Len(LastN(e, n)) /\ i \in Nat /\ i >= 2
        BY <1>3, <1>4, <1>5, <1>6, <2>2, <3>3
      <4>2. /\ i + off \in 1..(Len(w) + 1) /\ window'[u][i] = e[i + off]
            /\ (i - 1) + off \in 1..(Len(w) + 1) /\ window'[u][i - 1] = e[(i - 1) + off]
        BY <1>6, <1>13, <2>2, <4>1
      <4>3. (i - 1) + off = (i + off) - 1 /\ (i + off) - 1 \in 1..Len(w)
        <5>1. i \in Nat /\ off \in Nat /\ Len(w) \in Nat  BY <1>3, <1>11, <4>1
        <5>2. i + off <= Len(w) + 1 /\ (i - 1) + off >= 1  BY <4>2, <5>1
        <5> QED BY <5>1, <5>2
      <4>4. window'[u][i - 1] = w[(i + off) - 1]  BY <1>3, <4>2, <4>3
      <4>5. CASE i + off = Len(w) + 1
        <5>1. window'[u][i] = r /\ (i + off) - 1 = Len(w)  BY <1>3, <4>2, <4>5
        <5> QED BY <1>8, <4>4, <5>1
      <4>6. CASE i + off # Len(w) + 1
        <5>1. i + off \in 2..Len(w)  BY <1>3, <4>2, <4>3, <4>6
        <5>2. window'[u][i] = w[i + off]  BY <1>3, <4>2, <5>1
        <5>3. w[i + off] # r /\ w[i + off] \in Requests  BY <1>2, <1>3, <1>10, <5>1 DEF w
        <5>4. history[w[i + off]][Len(history[w[i + off]])] = w[(i + off) - 1]
          BY <1>2, <5>1 DEF WindowSound, WindowTracksEvents, w
        <5> QED BY <1>8, <4>4, <5>2, <5>3, <5>4
      <4> QED BY <4>5, <4>6
    <3> QED BY <3>2, <3>3
  <2> QED BY <2>1, <2>2
<1> QED BY <1>14, <1>15 DEF WindowSound

\* The other counters are not the count of events.
LEMMA OthersCounted ==
  ASSUME Typed, NEW r \in Requests, Step(r), ~ Snapshot(r)
  PROVE  \A s \in Sessions : stats'[s].seen = stats[s].seen
<1>1. CASE Store(r)
  <2>1. stats' = [stats EXCEPT ![SessionOf(r)][Counter(r)] = was[r] + 1]  BY <1>1 DEF Store
  <2> QED BY <2>1, CounterTyped DEF Typed, TypeOK, SessionsTyped, Fields
<1>2. CASE ~ Store(r)  BY <1>2, StepKeeps
<1> QED BY <1>1, <1>2

\* Every step keeps the window sound.
LEMMA WindowStep == Typed /\ WindowSound /\ [Next]_vars => WindowSound'
<1> SUFFICES ASSUME Typed, WindowSound, [Next]_vars PROVE WindowSound'  OBVIOUS
<1>1. CASE UNCHANGED vars
  BY <1>1, WindowElsewhere DEF vars, threadVars, sessionVars
<1>2. CASE Restart
  <2>1. \A s \in Sessions : window'[s] = <<>> /\ stats'[s].seen = 0
    BY <1>2 DEF Restart, EmptyLists, ZeroStats, Fields
  <2> QED BY <2>1, EngineAssumption DEF WindowSound, WindowSettled, WindowTracksEvents
<1>3. ASSUME NEW r \in Requests, Arrive(r) PROVE WindowSound'
  BY <1>3, ArriveMoves, WindowElsewhere DEF sessionVars
<1>4. ASSUME NEW r \in Requests, Step(r), ~ Snapshot(r) PROVE WindowSound'
  <2>1. UNCHANGED <<window, history>>  BY <1>4, StepKeeps
  <2>2. \A q \in Requests : pc[q] \notin {"unsent", "snapshot"} => pc'[q] \notin {"unsent", "snapshot"}
    BY <1>4, StepMoves
  <2> QED BY <1>4, <2>1, <2>2, OthersCounted, WindowElsewhere
<1> QED BY <1>1, <1>2, <1>3, <1>4, SnapshotWindow DEF Next

\* No window holds anything in a fresh daemon.
LEMMA WindowInit == Init => WindowSound
<1> SUFFICES ASSUME Init PROVE WindowSound  OBVIOUS
<1>1. \A s \in Sessions : window[s] = <<>> /\ stats[s].seen = 0
  BY DEF Init, EmptyLists, ZeroStats, Fields
<1> QED BY <1>1, EngineAssumption DEF WindowSound, WindowSettled, WindowTracksEvents

(* The window of a session loses no event and no order, however the threads of
   its hooks interleave: the snapshot, push and count of process (SessionState.push
   evicts), for any number of threads, events and restarts.                   *)
THEOREM WindowKeeps == Spec => []WindowTracksEvents
<1>1. WindowSound => WindowTracksEvents  BY DEF WindowSound
<1>2. Typed /\ WindowSound /\ [Next]_vars => (Typed /\ WindowSound)'  BY NextTyped, WindowStep
<1> QED BY <1>1, <1>2, InitTyped, WindowInit, PTL DEF Spec

-----------------------------------------------------------------------------
(* The cooldown.                                                             *)

\* The point of process each step is taken at.
LEMMA StepAt ==
  ASSUME NEW r \in Requests
  PROVE  /\ Snapshot(r) => pc[r] = "snapshot"
         /\ Finalize(r) => pc[r] = "finalize"
         /\ LabelOne(r) \/ LabelDone(r) => pc[r] = "label"
         /\ Forget(r) => pc[r] = "forget"
         /\ DrainParked(r) \/ DrainEmpty(r) => pc[r] = "drain"
         /\ Header(r) \/ NoHeader(r) => pc[r] = "header"
         /\ Detect(r) \/ NoDrift(r) \/ WakeJudge(r) => pc[r] = "evaluate"
         /\ Judge(r) => pc[r] = "score"
         /\ FeedOne(r) \/ FeedDone(r) => pc[r] = "feed"
         /\ Empty(r) => pc[r] = "empty"
         /\ Admit(r) => pc[r] = "admit"
         /\ Stamp(r) => pc[r] = "stamp"
         /\ Load(r) => pc[r] \in {"suppress", "tally"}
         /\ Store(r) => pc[r] \in {"suppressing", "tallying"}
         /\ Silence(r) => pc[r] = "silent"
         /\ Withhold(r) \/ Intervene(r) => pc[r] = "control"
         /\ Confirm(r) => pc[r] = "queue"
         /\ Enqueue(r) => pc[r] = "append"
         /\ Record(r) => pc[r] = "record"
         /\ Park(r) => pc[r] = "park"
<1> USE DEF Goto
<1>1. /\ Snapshot(r) => pc[r] = "snapshot"
      /\ Finalize(r) => pc[r] = "finalize"
      /\ LabelOne(r) \/ LabelDone(r) => pc[r] = "label"
      /\ Forget(r) => pc[r] = "forget"
      /\ DrainParked(r) \/ DrainEmpty(r) => pc[r] = "drain"
  BY DEF Snapshot, Finalize, LabelOne, LabelDone, Forget, DrainParked, DrainEmpty
<1>2. /\ Header(r) \/ NoHeader(r) => pc[r] = "header"
      /\ Detect(r) \/ NoDrift(r) \/ WakeJudge(r) => pc[r] = "evaluate"
      /\ Judge(r) => pc[r] = "score"
      /\ FeedOne(r) \/ FeedDone(r) => pc[r] = "feed"
      /\ Empty(r) => pc[r] = "empty"
  BY DEF Header, NoHeader, Detect, NoDrift, WakeJudge, Judge, JudgeAnswers, JudgeGarbled,
         JudgeOutage, Scored, FeedOne, FeedDone, Empty
<1>3. /\ Admit(r) => pc[r] = "admit"
      /\ Stamp(r) => pc[r] = "stamp"
      /\ Load(r) => pc[r] \in {"suppress", "tally"}
      /\ Store(r) => pc[r] \in {"suppressing", "tallying"}
      /\ Silence(r) => pc[r] = "silent"
  BY DEF Admit, Stamp, Load, Store, Silence
<1>4. /\ Withhold(r) \/ Intervene(r) => pc[r] = "control"
      /\ Confirm(r) => pc[r] = "queue"
      /\ Enqueue(r) => pc[r] = "append"
      /\ Record(r) => pc[r] = "record"
      /\ Park(r) => pc[r] = "park"
  BY DEF Withhold, Intervene, Confirm, Enqueue, Record, Park
<1> QED BY <1>1, <1>2, <1>3, <1>4

\* The points of process each step leads to.
LEMMA StepTo ==
  ASSUME Typed, NEW r \in Requests
  PROVE  /\ Snapshot(r) => pc'[r] = AfterSnapshot(req[r].kind)
         /\ Finalize(r) => pc'[r] = "label"
         /\ LabelOne(r) \/ FeedOne(r) => pc' = pc
         /\ LabelDone(r) => pc'[r] = "forget"
         /\ Forget(r) => pc'[r] = "drain"
         /\ DrainEmpty(r) => pc'[r] \in {"header", "evaluate"}
         /\ NoHeader(r) => pc'[r] = "evaluate"
         /\ DrainParked(r) \/ NoDrift(r) \/ Park(r) => pc'[r] = "done"
         /\ Header(r) \/ Silence(r) \/ Withhold(r) => pc'[r] \in {"done", "lost"}
         /\ WakeJudge(r) => pc'[r] = "score"
         /\ Judge(r) => pc'[r] = "feed"
         /\ FeedDone(r) => pc'[r] = "empty"
         /\ Detect(r) \/ Empty(r) => pc'[r] = "admit"
         /\ Admit(r) => pc'[r] \in {"control", "suppress", "stamp"}
         /\ Stamp(r) => pc'[r] = "control"
         /\ Load(r) => pc'[r] = IF pc[r] = "suppress" THEN "suppressing" ELSE "tallying"
         /\ Store(r) => pc'[r] = IF pc[r] = "suppressing" THEN "silent" ELSE AfterTally(r)
         /\ Intervene(r) => pc'[r] = "tally"
         /\ Confirm(r) => pc'[r] \in {"append", "record"}
         /\ Enqueue(r) => pc'[r] = "record"
         /\ Record(r) => pc'[r] \in {"park", "lost"}
<1> USE DEF Goto
<1>1. pc \in [Requests -> Points]  BY DEF Typed, TypeOK, ThreadsTyped
<1>2. /\ Snapshot(r) => pc'[r] = AfterSnapshot(req[r].kind)
      /\ Finalize(r) => pc'[r] = "label"
      /\ LabelOne(r) \/ FeedOne(r) => pc' = pc
      /\ LabelDone(r) => pc'[r] = "forget"
      /\ Forget(r) => pc'[r] = "drain"
      /\ DrainEmpty(r) => pc'[r] \in {"header", "evaluate"}
  BY <1>1 DEF Snapshot, Finalize, LabelOne, LabelDone, Forget, FeedOne, DrainEmpty
<1>3. /\ NoHeader(r) => pc'[r] = "evaluate"
      /\ DrainParked(r) \/ NoDrift(r) \/ Park(r) => pc'[r] = "done"
      /\ Header(r) \/ Silence(r) \/ Withhold(r) => pc'[r] \in {"done", "lost"}
      /\ WakeJudge(r) => pc'[r] = "score"
  BY <1>1 DEF NoHeader, DrainParked, NoDrift, Park, Header, Silence, Withhold, WakeJudge
<1>4. /\ Judge(r) => pc'[r] = "feed"
      /\ FeedDone(r) => pc'[r] = "empty"
      /\ Detect(r) \/ Empty(r) => pc'[r] = "admit"
  BY <1>1 DEF Judge, JudgeAnswers, JudgeGarbled, JudgeOutage, Scored, Detect, FeedDone, Empty
<1>5. /\ Admit(r) => pc'[r] \in {"control", "suppress", "stamp"}
      /\ Stamp(r) => pc'[r] = "control"
      /\ Load(r) => pc'[r] = IF pc[r] = "suppress" THEN "suppressing" ELSE "tallying"
      /\ Store(r) => pc'[r] = IF pc[r] = "suppressing" THEN "silent" ELSE AfterTally(r)
  BY <1>1 DEF Admit, Stamp, Load, Store
<1>6. /\ Intervene(r) => pc'[r] = "tally"
      /\ Confirm(r) => pc'[r] \in {"append", "record"}
      /\ Enqueue(r) => pc'[r] = "record"
      /\ Record(r) => pc'[r] \in {"park", "lost"}
  BY <1>1 DEF Intervene, Confirm, Enqueue, Record
<1> QED BY <1>2, <1>3, <1>4, <1>5, <1>6

Decides(r, v) ==
  /\ cand' = [cand EXCEPT ![r] = v] /\ v.by = r
  /\ Detect(r) => /\ v.detector \in TierZero /\ v.reason = "detected"
                  /\ v.detector # "offspec" => v.action = "nudge"
  /\ Judge(r) => /\ v.detector = "judge"
                 /\ v.reason \in {"judged", "unparsed", "judge unavailable"}
                      \cup (IF FailOpen THEN {} ELSE {"judge failed"})

\* What a detector or the judge decided is in the hands of its thread.
LEMMA Decisions ==
  ASSUME Typed, NEW r \in Requests, Detect(r) \/ Judge(r)
  PROVE  \E v \in VerdictSet : Decides(r, v)
<1>1. CASE Detect(r)
  <2> DEFINE Found(H) == Verdict(Asked(FirstHit(H), r), FirstHit(H), 100, "detected", r)
  <2>1. PICK H \in HitSets(r) \ {{}} : cand' = [cand EXCEPT ![r] = Found(H)]
    BY <1>1, Zenon DEF Detect
  <2>2. FirstHit(H) \in TierZero
    <3>1. H \subseteq TierZero /\ H # {}  BY EngineAssumption DEF HitSets
    <3> QED BY <3>1, FirstHitTyped
  <2>3. ~ Judge(r)  BY <1>1, StepAt
  <2>4. Found(H) \in VerdictSet
    BY <2>2 DEF Verdict, VerdictSet, Sources, Reasons, Asked
  <2>5. /\ Found(H).by = r /\ Found(H).detector = FirstHit(H) /\ Found(H).reason = "detected"
        /\ FirstHit(H) # "offspec" => Found(H).action = "nudge"
    BY DEF Verdict, Asked
  <2> HIDE DEF Found
  <2> QED BY <2>1, <2>2, <2>3, <2>4, <2>5 DEF Decides
<1>2. CASE Judge(r)
  <2>1. ~ Detect(r)  BY <1>2, StepAt
  <2>2. ASSUME NEW a \in JudgeActions, NEW c \in Confidences, JudgeAnswers(r, a, c)
        PROVE  \E v \in VerdictSet : /\ cand' = [cand EXCEPT ![r] = v] /\ v.by = r
                                     /\ v.detector = "judge" /\ v.reason = "judged"
    <3>1. Verdict(a, "judge", c, "judged", r) \in VerdictSet
      BY VerdictTyped, EngineAssumption DEF Sources, Reasons
    <3> QED BY <2>2, <3>1 DEF JudgeAnswers, Scored, Verdict
  <2>3. ASSUME JudgeGarbled(r)
        PROVE  \E v \in VerdictSet : /\ cand' = [cand EXCEPT ![r] = v] /\ v.by = r
                                     /\ v.detector = "judge" /\ v.reason = "unparsed"
    <3>1. Verdict("nudge", "judge", 50, "unparsed", r) \in VerdictSet
      BY DEF Verdict, VerdictSet, Sources, Reasons
    <3> QED BY <2>3, <3>1 DEF JudgeGarbled, Scored, Verdict
  <2>4. ASSUME JudgeOutage(r)
        PROVE  \E v \in VerdictSet : /\ cand' = [cand EXCEPT ![r] = v] /\ v.by = r
                                     /\ v.detector = "judge"
                                     /\ v.reason = IF FailOpen THEN "judge unavailable" ELSE "judge failed"
    <3>1. /\ Verdict("pass", "judge", 0, "judge unavailable", r) \in VerdictSet
          /\ Verdict("escalate", "judge", 100, "judge failed", r) \in VerdictSet
      BY DEF Verdict, VerdictSet, Sources, Reasons
    <3> QED BY <2>4, <3>1 DEF JudgeOutage, Scored, Verdict
  <2>5. \/ \E a \in JudgeActions, c \in Confidences : JudgeAnswers(r, a, c)
        \/ JudgeGarbled(r) \/ JudgeOutage(r)
    BY <1>2 DEF Judge
  <2> QED BY <2>1, <2>2, <2>3, <2>4, <2>5 DEF Decides
<1> QED BY <1>1, <1>2

\* After its decision a thread keeps its verdict but for what _admit and _control make of it.
LEMMA CandMoves ==
  ASSUME Typed, NEW r \in Requests, Step(r)
  PROVE  /\ \A q \in Requests \ {r} : cand'[q] = cand[q]
         /\ pc[r] \notin {"evaluate", "score"} =>
              /\ cand'[r].detector = cand[r].detector /\ cand'[r].by = cand[r].by
              /\ pc[r] \notin {"admit", "control"} => cand'[r] = cand[r]
              /\ Admit(r) /\ pc'[r] # "suppress" => cand'[r] = cand[r]
              /\ Admit(r) /\ pc'[r] = "suppress" => Hushed(cand'[r])
              /\ Intervene(r) \/ Withhold(r) => cand'[r] = Controlled(cand[r], Agent(r))
<1>1. cand \in [Requests -> VerdictSet] /\ pc \in [Requests -> Points]
  BY DEF Typed, TypeOK, ThreadsTyped
<1>2. CASE Detect(r) \/ Judge(r)
  <2>1. PICK v \in VerdictSet : Decides(r, v)  BY <1>2, Decisions
  <2>2. pc[r] \in {"evaluate", "score"}  BY <1>2, StepAt
  <2> QED BY <1>1, <2>1, <2>2 DEF Decides
<1>3. CASE Intervene(r) \/ Withhold(r)
  <2>1. cand' = [cand EXCEPT ![r] = Controlled(cand[r], Agent(r))]
    BY <1>3 DEF Intervene, Withhold
  <2>2. /\ Controlled(cand[r], Agent(r)).detector = cand[r].detector
        /\ Controlled(cand[r], Agent(r)).by = cand[r].by
    BY <1>1 DEF Controlled, VerdictSet
  <2>3. pc[r] = "control"  BY <1>3, StepAt
  <2>4. ~ Admit(r)  BY <2>3, StepAt
  <2> QED BY <1>1, <1>3, <2>1, <2>2, <2>3, <2>4
<1>4. CASE Admit(r)
  <2>1. pc[r] = "admit"  BY <1>4, StepAt
  <2>2. ~ (Intervene(r) \/ Withhold(r))  BY <2>1, StepAt
  <2>3. \/ pc'[r] # "suppress" /\ cand' = cand
        \/ /\ pc'[r] = "suppress"
           /\ cand' = [cand EXCEPT ![r].action = "pass", ![r].reason = "cooldown"]
    BY <1>1, <1>4 DEF Admit, Goto
  <2>4. ASSUME pc'[r] = "suppress"
        PROVE  /\ cand'[r] = [cand[r] EXCEPT !.action = "pass", !.reason = "cooldown"]
               /\ \A q \in Requests \ {r} : cand'[q] = cand[q]
    BY <1>1, <2>3, <2>4
  <2>5. pc'[r] = "suppress" => /\ Hushed(cand'[r])
                               /\ cand'[r].detector = cand[r].detector /\ cand'[r].by = cand[r].by
    <3>1. cand[r] \in VerdictSet  BY <1>1
    <3> QED BY <2>4, <3>1 DEF VerdictSet, Hushed
  <2> QED BY <2>1, <2>2, <2>3, <2>4, <2>5
<1>5. CASE ~ (Detect(r) \/ Judge(r) \/ Admit(r) \/ Intervene(r) \/ Withhold(r))
  BY <1>5, StepKeeps
<1> QED BY <1>2, <1>3, <1>4, <1>5

\* The lines a step adds to the ledger.
LEMMA LinesAdded ==
  ASSUME Typed, NEW r \in Requests, Step(r), NEW v \in ledger', v \notin ledger
  PROVE  \/ Header(r) /\ v = Verdict("nudge", "rulebook", 99, "promoted", r)
         \/ Silence(r) /\ v = cand[r]
         \/ Withhold(r) /\ v = Controlled(cand[r], Agent(r)) /\ v.action = "pass"
         \/ Record(r) /\ v = cand[r]
<1>1. Header(r) \/ Silence(r) \/ Withhold(r) \/ Record(r)  BY StepKeeps
<1>2. CASE Header(r)  BY <1>2 DEF Header
<1>3. CASE Silence(r)  BY <1>3 DEF Silence
<1>4. CASE Withhold(r)  BY <1>4 DEF Withhold
<1>5. CASE Record(r)  BY <1>5 DEF Record
<1> QED BY <1>1, <1>2, <1>3, <1>4, <1>5

\* No step takes a line out of the ledger.
LEMMA LedgerGrows ==
  ASSUME Typed, NEW r \in Requests, Step(r)
  PROVE  ledger \subseteq ledger'
<1>1. CASE Header(r) \/ Silence(r) \/ Withhold(r) \/ Record(r)
  BY <1>1 DEF Header, Silence, Withhold, Record
<1> QED BY <1>1, StepKeeps

(* A nudge that was admitted: nothing but a restart or the disk can stop it. *)
Sure(q) ==
  \/ pc[q] \in Settled \cup {"control"} /\ cand[q].action = "nudge"
  \/ pc[q] = "lost"
  \/ \E u \in ledger : u.by = q /\ u.action = "nudge"

Silencer(q, r, d) ==
  /\ SessionOf(q) = SessionOf(r) /\ cand[q].detector = d
  /\ req[r].ts - req[q].ts < Cooldown /\ Sure(q)
Silenced(r, d) == \E q \in Requests \ {r} : Silencer(q, r, d)

(* A clock was started by a nudge that is sure, so whoever it silences has one to
   point to; the check (_admit) and the record (_silent) are steps apart.      *)
ClocksBacked ==
  \A s \in Sessions, d \in TierZero : lastNudge[s][d] # Never =>
    \E q \in Requests : /\ SessionOf(q) = s /\ cand[q].detector = d
                        /\ req[q].ts = lastNudge[s][d] /\ Sure(q)
Honest == \A r \in Requests : pc[r] \in Decided \ Silencing => cand[r].reason # "cooldown"
Hysteresis ==
  /\ Honest
  /\ \A r \in Requests : pc[r] = "stamp" => cand[r].action = "nudge"
  /\ ClocksBacked
  /\ \A r \in Requests : pc[r] \in Silencing /\ cand[r].detector \in TierZero =>
       Silenced(r, cand[r].detector)
  /\ \A v \in ledger : v.reason = "cooldown" /\ v.detector \in TierZero =>
       Silenced(v.by, v.detector)

\* A line of the ledger is of a thread that has written it.
LEMMA LinesWritten ==
  ASSUME Sound, NEW v \in ledger
  PROVE  v.by \in Requests /\ pc[v.by] \in {"park", "done", "lost"}
BY DEF Sound, LedgerSound

\* A Tier 0 nudge is left a nudge.
LEMMA TierZeroKept ==
  ASSUME NEW v \in VerdictSet, v.detector \in TierZero, v.action = "nudge", NEW a
  PROVE  Controlled(v, a) = v
<1>1. v.detector # "judge"  BY DEF TierZero
<1> QED BY <1>1 DEF Controlled

\* A sure Tier 0 nudge stays sure: _control leaves it, the ledger gets it, or the thread is lost.
LEMMA SureKept ==
  ASSUME Typed, Sound, NEW q \in Requests, Sure(q), cand[q].detector \in TierZero, [Next]_vars
  PROVE  Sure(q)' /\ cand'[q].detector = cand[q].detector /\ req'[q] = req[q]
<1>1. cand[q] \in VerdictSet /\ pc[q] \in Points  BY DEF Typed, TypeOK, ThreadsTyped
<1>2. pc[q] \in Settled \cup {"control", "done", "lost"}
  BY LinesWritten DEF Sure
<1>3. CASE UNCHANGED vars  BY <1>3 DEF vars, threadVars, Sure
<1>4. CASE Restart
  <2>1. UNCHANGED <<cand, req, ledger>>
        /\ pc' = [r \in Requests |-> IF pc[r] \in Idle THEN pc[r] ELSE "lost"]
    BY <1>4 DEF Restart
  <2>2. pc[q] \in Settled \cup {"control", "lost"} => pc'[q] = "lost"  BY <2>1 DEF Idle
  <2> QED BY <1>2, <2>1, <2>2 DEF Sure
<1>5. ASSUME NEW r \in Requests, Arrive(r)
      PROVE  Sure(q)' /\ cand'[q].detector = cand[q].detector /\ req'[q] = req[q]
  <2>1. q # r  BY <1>2, <1>5, ArriveMoves
  <2> QED BY <1>5, <2>1, ArriveMoves DEF Sure
<1>6. ASSUME NEW r \in Requests, Step(r)
      PROVE  Sure(q)' /\ cand'[q].detector = cand[q].detector /\ req'[q] = req[q]
  <2>1. req' = req /\ ledger \subseteq ledger'  BY <1>6, StepMoves, LedgerGrows
  <2>2. CASE q # r
    <3>1. pc'[q] = pc[q] /\ cand'[q] = cand[q]  BY <1>6, <2>2, StepMoves, CandMoves
    <3> QED BY <2>1, <3>1 DEF Sure
  <2>3. CASE q = r
    <3>1. pc[q] \in Settled \cup {"control"}  BY <1>2, <1>6, <2>3, StepMoves DEF Idle
    <3>2. cand'[q].detector = cand[q].detector  BY <1>6, <2>3, <3>1, CandMoves
    <3>3. CASE \E u \in ledger : u.by = q /\ u.action = "nudge"  BY <2>1, <3>2, <3>3 DEF Sure
    <3>4. CASE cand[q].action = "nudge"
      <4>1. Controlled(cand[q], Agent(q)) = cand[q]  BY <1>1, <3>4, TierZeroKept
      <4>2. cand[q].by = q  BY <3>1 DEF Sound, Authored, Decided
      <4>3. \/ Withhold(r) \/ Intervene(r) \/ Load(r) \/ Store(r) \/ Confirm(r) \/ Enqueue(r)
            \/ Record(r) \/ Park(r)
        BY <1>6, <2>3, <3>1, StepAt DEF Step
      <4>4. CASE Withhold(r)  BY <2>3, <3>4, <4>1, <4>4 DEF Withhold
      <4>5. CASE Intervene(r) \/ Load(r) \/ Store(r) \/ Confirm(r) \/ Enqueue(r)
        <5>1. pc'[q] \in Settled
          <6>1. Load(r) \/ Store(r) => pc[q] \in {"tally", "tallying"}  BY <2>3, <3>1, StepAt
          <6> QED BY <2>3, <4>5, <6>1, StepTo DEF AfterTally
        <5>2. cand'[q] = cand[q]
          BY <1>6, <2>3, <3>1, <4>1, <4>5, CandMoves, StepAt
        <5> QED BY <2>1, <3>4, <5>1, <5>2 DEF Sure
      <4>6. CASE Record(r)
        <5>1. \/ ledger' = ledger \cup {cand[q]}
              \/ pc'[q] = "lost"
          BY <2>3, <4>6 DEF Record, Goto, Typed, TypeOK, ThreadsTyped
        <5>2. \/ \E u \in ledger' : u.by = q /\ u.action = "nudge"
              \/ pc'[q] = "lost"
          BY <3>4, <4>2, <5>1
        <5> QED BY <2>1, <3>2, <5>2 DEF Sure
      <4>7. CASE Park(r)
        <5>1. cand[q] \in ledger'
          BY <2>1, <2>3, <4>7, StepAt DEF Sound, Recorded
        <5> QED BY <2>1, <3>2, <3>4, <4>2, <5>1 DEF Sure
      <4> QED BY <4>3, <4>4, <4>5, <4>6, <4>7
    <3> QED BY <3>1, <3>3, <3>4 DEF Sure
  <2> QED BY <2>2, <2>3
<1> QED BY <1>3, <1>4, <1>5, <1>6 DEF Next

\* Whoever was silenced with a reason keeps it.
LEMMA SilencedKept ==
  ASSUME Typed, Sound, [Next]_vars, NEW r \in Requests, NEW d \in TierZero, Silenced(r, d),
         req'[r] = req[r]
  PROVE  Silenced(r, d)'
<1>1. PICK q \in Requests \ {r} : Silencer(q, r, d)  BY DEF Silenced
<1>2. Sure(q)' /\ cand'[q].detector = cand[q].detector /\ req'[q] = req[q]
  BY <1>1, SureKept DEF Silencer
<1>3. Silencer(q, r, d)'  BY <1>1, <1>2 DEF Silencer, SessionOf
<1> QED BY <1>3 DEF Silenced
\* The clocks after a step: kept, forgotten, or started by a nudge that is sure.
LEMMA ClocksStep ==
  ASSUME Typed, Sound, Hysteresis, [Next]_vars
  PROVE  ClocksBacked'
<1>1. ASSUME NEW s \in Sessions, NEW d \in TierZero, lastNudge'[s][d] = lastNudge[s][d],
             lastNudge'[s][d] # Never
      PROVE  \E q \in Requests : /\ SessionOf(q)' = s /\ cand'[q].detector = d
                                 /\ req'[q].ts = lastNudge'[s][d] /\ Sure(q)'
  <2>1. PICK q \in Requests : /\ SessionOf(q) = s /\ cand[q].detector = d
                              /\ req[q].ts = lastNudge[s][d] /\ Sure(q)
    BY <1>1 DEF Hysteresis, ClocksBacked
  <2>2. Sure(q)' /\ cand'[q].detector = cand[q].detector /\ req'[q] = req[q]
    BY <2>1, SureKept
  <2> QED BY <1>1, <2>1, <2>2 DEF SessionOf
<1>2. CASE UNCHANGED lastNudge  BY <1>1, <1>2 DEF ClocksBacked, SessionOf
<1>3. CASE Restart
  <2>1. \A s \in Sessions, d \in TierZero : lastNudge'[s][d] = Never
    BY <1>3 DEF Restart, NoNudges
  <2> QED BY <2>1 DEF ClocksBacked
<1>4. ASSUME NEW r \in Requests, Stamp(r) PROVE ClocksBacked'
  <2>1. /\ pc[r] = "stamp" /\ pc'[r] = "control" /\ UNCHANGED <<req, cand>>
        /\ lastNudge' = [lastNudge EXCEPT ![SessionOf(r)][cand[r].detector] = req[r].ts]
    BY <1>4 DEF Stamp, Goto, Typed, TypeOK, ThreadsTyped
  <2>2. SessionOf(r) \in Sessions  BY <2>1 DEF Typed, Located
  <2>3. Sure(r)'  BY <2>1 DEF Hysteresis, Sure
  <2>4. \A s \in Sessions, d \in TierZero :
          \/ lastNudge'[s][d] = lastNudge[s][d]
          \/ s = SessionOf(r) /\ d = cand[r].detector /\ lastNudge'[s][d] = req[r].ts
    BY <2>1, <2>2 DEF Typed, TypeOK, SessionsTyped
  <2> SUFFICES ASSUME NEW s \in Sessions, NEW d \in TierZero, lastNudge'[s][d] # Never
               PROVE  \E q \in Requests : /\ SessionOf(q)' = s /\ cand'[q].detector = d
                                          /\ req'[q].ts = lastNudge'[s][d] /\ Sure(q)'
    BY DEF ClocksBacked, SessionOf
  <2>5. CASE lastNudge'[s][d] = lastNudge[s][d]  BY <1>1, <2>5
  <2>6. CASE s = SessionOf(r) /\ d = cand[r].detector /\ lastNudge'[s][d] = req[r].ts
    BY <2>1, <2>3, <2>6 DEF SessionOf
  <2> QED BY <2>4, <2>5, <2>6
<1>5. CASE UNCHANGED vars  BY <1>2, <1>5 DEF vars, sessionVars
<1>6. ASSUME NEW r \in Requests, Arrive(r) PROVE UNCHANGED lastNudge
  BY <1>6, ArriveMoves DEF sessionVars
<1>7. ASSUME NEW r \in Requests, Step(r), ~ Stamp(r) PROVE UNCHANGED lastNudge
  BY <1>7, StepKeeps
<1> QED BY <1>2, <1>3, <1>4, <1>5, <1>6, <1>7 DEF Next

\* Whom an admission silences, it silences on account of the clock of another thread.
LEMMA AdmitSilences ==
  ASSUME Typed, Sound, Hysteresis, NEW r \in Requests, Admit(r), pc'[r] = "suppress",
         cand[r].detector \in TierZero
  PROVE  Silenced(r, cand[r].detector)
<1> DEFINE d == cand[r].detector
           s == SessionOf(r)
<1>1. pc[r] = "admit" /\ InCooldown(r)
  BY DEF Admit, Goto, Typed, TypeOK, ThreadsTyped
<1>2. s \in Sessions  BY <1>1 DEF Typed, Located
<1>3. lastNudge[s][d] # Never /\ req[r].ts - lastNudge[s][d] < Cooldown
  BY <1>1 DEF InCooldown
<1>4. PICK q \in Requests : /\ SessionOf(q) = s /\ cand[q].detector = d
                            /\ req[q].ts = lastNudge[s][d] /\ Sure(q)
  BY <1>2, <1>3 DEF Hysteresis, ClocksBacked
<1>5. q # r
  <2>1. pc[q] \in Settled \cup {"control", "done", "lost"}  BY <1>4, LinesWritten DEF Sure
  <2> QED BY <1>1, <2>1
<1> QED BY <1>3, <1>4, <1>5 DEF Silenced, Silencer

\* No verdict but a silenced one claims to be a cooldown.
LEMMA NoFeignedCooldown ==
  ASSUME Typed, Honest, NEW r \in Requests, Step(r)
  PROVE  Honest'
<1>1. cand[r] \in VerdictSet /\ cand \in [Requests -> VerdictSet] /\ pc[r] \in Points
  BY DEF Typed, TypeOK, ThreadsTyped
<1>2. \A q \in Requests \ {r} : pc'[q] = pc[q] /\ cand'[q] = cand[q]  BY StepMoves, CandMoves
<1>3. ASSUME pc'[r] \in Decided \ Silencing PROVE cand'[r].reason # "cooldown"
  <2>1. \/ Detect(r) \/ Judge(r) \/ FeedOne(r) \/ FeedDone(r) \/ Empty(r) \/ Admit(r) \/ Stamp(r)
        \/ Load(r) \/ Store(r) \/ Intervene(r) \/ Confirm(r) \/ Enqueue(r) \/ Record(r)
    <3>1. AfterSnapshot(req[r].kind) \notin Decided  BY DEF AfterSnapshot, Decided
    <3>2. ~ (Snapshot(r) \/ Finalize(r) \/ LabelDone(r) \/ Forget(r) \/ DrainParked(r) \/ DrainEmpty(r))
      BY <1>3, <3>1, StepTo DEF Decided
    <3>3. ~ (Header(r) \/ NoHeader(r) \/ NoDrift(r) \/ WakeJudge(r) \/ Silence(r) \/ Withhold(r) \/ Park(r))
      BY <1>3, StepTo DEF Decided
    <3>4. ~ LabelOne(r)  BY <1>3, StepAt, StepTo DEF Decided
    <3> QED BY <3>2, <3>3, <3>4 DEF Step
  <2>2. CASE Detect(r) \/ Judge(r)
    <3>1. PICK v \in VerdictSet : Decides(r, v)  BY <2>2, Decisions
    <3>2. cand' = [cand EXCEPT ![r] = v] /\ v.reason # "cooldown"  BY <2>2, <3>1 DEF Decides
    <3> QED BY <1>1, <3>2
  <2>3. CASE Intervene(r)
    <3>1. cand'[r] = Controlled(cand[r], Agent(r)) /\ pc[r] = "control"
      BY <2>3, StepAt, CandMoves
    <3>2. cand[r].reason # "cooldown"  BY <3>1 DEF Honest, Decided
    <3> QED BY <1>1, <3>1, <3>2 DEF Controlled, VerdictSet
  <2>4. CASE Admit(r)
    <3>1. cand'[r] = cand[r] /\ pc[r] = "admit"  BY <1>3, <2>4, StepAt, CandMoves
    <3> QED BY <3>1 DEF Honest, Decided
  <2>5. CASE \/ FeedOne(r) \/ FeedDone(r) \/ Empty(r) \/ Stamp(r) \/ Load(r) \/ Store(r)
             \/ Confirm(r) \/ Enqueue(r) \/ Record(r)
    <3>1. /\ pc[r] \in Decided \ {"admit", "control"}
          /\ Load(r) => (pc[r] = "suppress" => pc'[r] \in Silencing)
          /\ Store(r) => (pc[r] = "suppressing" => pc'[r] \in Silencing)
      BY <2>5, StepAt, StepTo DEF Decided
    <3>2. pc[r] \notin Silencing  BY <1>3, <2>5, <3>1, StepAt
    <3>3. cand'[r] = cand[r]  BY <3>1, CandMoves DEF Decided
    <3> QED BY <3>1, <3>2, <3>3 DEF Honest
  <2> QED BY <2>1, <2>2, <2>3, <2>4, <2>5
<1> QED BY <1>2, <1>3 DEF Honest

\* A step of a thread keeps the hysteresis honest.
LEMMA HysteresisAtStep ==
  ASSUME Typed, Sound, Hysteresis, NEW r \in Requests, Step(r), [Next]_vars
  PROVE  Hysteresis'
<1>1. Honest'  BY NoFeignedCooldown DEF Hysteresis
<1>2. /\ req' = req /\ ledger \subseteq ledger'
      /\ \A q \in Requests \ {r} : pc'[q] = pc[q] /\ cand'[q] = cand[q]
  BY StepMoves, LedgerGrows, CandMoves
<1>3. pc'[r] = "stamp" => cand'[r].action = "nudge"
  <2> SUFFICES ASSUME pc'[r] = "stamp" PROVE cand'[r].action = "nudge"  OBVIOUS
  <2>1. Admit(r)
    <3>1. AfterSnapshot(req[r].kind) # "stamp" /\ AfterTally(r) # "stamp"
      BY DEF AfterSnapshot, AfterTally
    <3> QED BY <3>1, StepAt, StepTo DEF Step
  <2> QED BY <2>1 DEF Admit, Goto, Typed, TypeOK, ThreadsTyped
<1>4. \A q \in Requests : pc'[q] = "stamp" => cand'[q].action = "nudge"
  BY <1>2, <1>3 DEF Hysteresis
<1>5. ClocksBacked'  BY ClocksStep
<1>6. ASSUME NEW q \in Requests, pc'[q] \in Silencing, cand'[q].detector \in TierZero
      PROVE  Silenced(q, cand[q].detector)'
  <2>1. cand'[q].detector = cand[q].detector /\ Silenced(q, cand[q].detector)
    <3>1. CASE q # r  BY <1>2, <1>6, <3>1 DEF Hysteresis
    <3>2. CASE q = r
      <4>1. (Admit(r) /\ pc'[r] = "suppress") \/ Load(r) \/ Store(r)
        <5>1. AfterSnapshot(req[r].kind) \notin Silencing /\ AfterTally(r) \notin Silencing
          BY DEF AfterSnapshot, AfterTally
        <5> QED BY <1>6, <3>2, <5>1, StepAt, StepTo DEF Step
      <4>2. CASE Admit(r) /\ pc'[r] = "suppress"
        <5>1. cand'[r].detector = cand[r].detector  BY <4>2, StepAt, CandMoves
        <5> QED BY <1>6, <3>2, <4>2, <5>1, AdmitSilences
      <4>3. CASE Load(r) \/ Store(r)
        <5>1. pc[r] \in Silencing
          <6>1. AfterTally(r) \notin Silencing  BY DEF AfterTally
          <6> QED BY <1>6, <3>2, <4>3, <6>1, StepAt, StepTo
        <5>2. cand'[r] = cand[r]  BY <5>1, CandMoves
        <5> QED BY <1>6, <3>2, <5>1, <5>2 DEF Hysteresis
      <4> QED BY <4>1, <4>2, <4>3
    <3> QED BY <3>1, <3>2
  <2>2. PICK d \in TierZero : d = cand[q].detector  BY <1>6, <2>1
  <2>3. Silenced(q, d)'  BY <1>2, <2>1, <2>2, SilencedKept
  <2> QED BY <2>1, <2>2, <2>3
<1>7. ASSUME NEW v \in ledger', v.reason = "cooldown", v.detector \in TierZero
      PROVE  Silenced(v.by, v.detector)'
  <2>1. v.by \in Requests /\ Silenced(v.by, v.detector)
    <3>1. CASE v \in ledger  BY <1>7, <3>1, LinesWritten DEF Hysteresis
    <3>2. CASE v \notin ledger
      <4>1. cand[r] \in VerdictSet  BY DEF Typed, TypeOK, ThreadsTyped
      <4>2. (~ Record(r) /\ ~ Withhold(r)) \/ cand[r].reason # "cooldown"
        BY StepAt DEF Hysteresis, Honest, Decided
      <4>3. cand[r].reason # "cooldown" => Controlled(cand[r], Agent(r)).reason # "cooldown"
        BY <4>1 DEF Controlled, VerdictSet
      <4>4. Silence(r) /\ v = cand[r]
        <5>1. v # Verdict("nudge", "rulebook", 99, "promoted", r)  BY <1>7 DEF Verdict
        <5> QED BY <1>7, <3>2, <4>2, <4>3, <5>1, LinesAdded
      <4>5. pc[r] = "silent" /\ cand[r].by = r  BY <4>4, StepAt DEF Sound, Authored, Decided
      <4> QED BY <1>7, <4>4, <4>5 DEF Hysteresis
    <3> QED BY <3>1, <3>2
  <2> QED BY <1>2, <1>7, <2>1, SilencedKept
<1> QED BY <1>1, <1>4, <1>5, <1>6, <1>7 DEF Hysteresis

\* Every step keeps the hysteresis honest.
LEMMA HysteresisStep == Typed /\ Sound /\ Hysteresis /\ [Next]_vars => Hysteresis'
<1> SUFFICES ASSUME Typed, Sound, Hysteresis, [Next]_vars PROVE Hysteresis'  OBVIOUS
<1>1. ClocksBacked'  BY ClocksStep
<1>2. ASSUME cand' = cand, ledger' = ledger,
             \A r \in Requests : pc[r] # "unsent" => req'[r] = req[r],
             \A r \in Requests : pc'[r] \in Decided => pc'[r] = pc[r]
      PROVE  Hysteresis'
  <2>1. ASSUME NEW r \in Requests, pc'[r] \in Silencing, cand'[r].detector \in TierZero
        PROVE  Silenced(r, cand[r].detector)'
    <3>1. pc[r] \in Silencing /\ req'[r] = req[r]  BY <1>2, <2>1 DEF Decided
    <3>2. PICK d \in TierZero : d = cand[r].detector  BY <1>2, <2>1
    <3>3. Silenced(r, d)  BY <1>2, <2>1, <3>1, <3>2 DEF Hysteresis
    <3>4. Silenced(r, d)'  BY <3>1, <3>3, SilencedKept
    <3> QED BY <1>2, <3>2, <3>4
  <2>2. ASSUME NEW v \in ledger', v.reason = "cooldown", v.detector \in TierZero
        PROVE  Silenced(v.by, v.detector)'
    <3>1. v.by \in Requests /\ pc[v.by] # "unsent"  BY <1>2, <2>2, LinesWritten
    <3>2. req'[v.by] = req[v.by]  BY <1>2, <3>1
    <3>3. Silenced(v.by, v.detector)  BY <1>2, <2>2 DEF Hysteresis
    <3> QED BY <2>2, <3>1, <3>2, <3>3, SilencedKept
  <2>3. Honest' /\ \A r \in Requests : pc'[r] = "stamp" => cand'[r].action = "nudge"
    BY <1>2 DEF Hysteresis, Honest, Decided
  <2> QED BY <1>1, <2>1, <2>2, <2>3 DEF Hysteresis
<1>3. CASE UNCHANGED vars  BY <1>2, <1>3 DEF vars, threadVars
<1>4. CASE Restart
  <2>1. /\ UNCHANGED <<cand, ledger, req>>
        /\ \A r \in Requests : pc'[r] \in Decided => pc'[r] = pc[r]
    BY <1>4 DEF Restart, Idle, Decided
  <2> QED BY <1>2, <2>1
<1>5. ASSUME NEW r \in Requests, Arrive(r) PROVE Hysteresis'
  <2>1. /\ UNCHANGED <<cand, ledger>>
        /\ \A q \in Requests : pc[q] # "unsent" => req'[q] = req[q]
        /\ \A q \in Requests : pc'[q] \in Decided => pc'[q] = pc[q]
    BY <1>5, ArriveMoves DEF Decided
  <2> QED BY <1>2, <2>1
<1> QED BY <1>3, <1>4, <1>5, HysteresisAtStep DEF Next

\* No clock runs in a fresh daemon.
LEMMA HysteresisInit == Init => Hysteresis
BY DEF Init, Hysteresis, Honest, Decided, ClocksBacked, NoNudges

(* _admit and _silent: no nudge of Tier 0 is silenced but for another of the same
   detector, in the same session and inside the cooldown, that the agent gets
   unless a restart or the disk cuts it off, for any number of threads.       *)
THEOREM SilenceHasAReason == Spec => []TierZeroSilencedBecauseAdvised
<1>1. Sound /\ Hysteresis => TierZeroSilencedBecauseAdvised
  BY DEF Hysteresis, Silenced, Silencer, Sure, Advised, TierZeroSilencedBecauseAdvised
<1>2. Typed /\ Sound /\ Hysteresis /\ [Next]_vars => (Typed /\ Sound /\ Hysteresis)'
  BY NextTyped, NextSound, HysteresisStep
<1> QED BY <1>1, <1>2, InitTyped, InitSound, HysteresisInit, PTL DEF Spec
-----------------------------------------------------------------------------
(* What a review may label.                                                  *)

(* Between the call of the judge and the end of the feed, a thread carries what
   the judge said, or that it said nothing.                                   *)
Reviewing ==
  \A r \in Requests : pc[r] = "feed" => cand[r].reason \in {"judged", "unparsed", "judge unavailable"}

\* A thread comes to the feed from the judge only.
LEMMA ReviewingStep == ASSUME FailOpen PROVE Typed /\ Reviewing /\ [Next]_vars => Reviewing'
<1> SUFFICES ASSUME Typed, Reviewing, [Next]_vars PROVE Reviewing'  OBVIOUS
<1>1. CASE UNCHANGED vars  BY <1>1 DEF vars, threadVars, Reviewing
<1>2. CASE Restart  BY <1>2 DEF Restart, Idle, Reviewing
<1>3. ASSUME NEW r \in Requests, Arrive(r) PROVE Reviewing'
  BY <1>3, ArriveMoves DEF Reviewing
<1>4. ASSUME NEW r \in Requests, Step(r) PROVE Reviewing'
  <2>1. \A q \in Requests \ {r} : pc'[q] = pc[q] /\ cand'[q] = cand[q]
    BY <1>4, StepMoves, CandMoves
  <2>2. ASSUME pc'[r] = "feed"
        PROVE  cand'[r].reason \in {"judged", "unparsed", "judge unavailable"}
    <3>1. Judge(r) \/ FeedOne(r)
      <4>1. AfterSnapshot(req[r].kind) # "feed" /\ AfterTally(r) # "feed"
        BY DEF AfterSnapshot, AfterTally
      <4> QED BY <1>4, <2>2, <4>1, StepAt, StepTo DEF Step
    <3>2. CASE Judge(r)
      <4>1. PICK v \in VerdictSet : Decides(r, v)  BY <3>2, Decisions
      <4>2. /\ cand' = [cand EXCEPT ![r] = v]
            /\ v.reason \in {"judged", "unparsed", "judge unavailable"}
        BY <3>2, <4>1 DEF Decides
      <4> QED BY <4>2 DEF Typed, TypeOK, ThreadsTyped
    <3>3. CASE FeedOne(r)
      <4>1. pc[r] = "feed" /\ cand' = cand  BY <3>3 DEF FeedOne
      <4> QED BY <4>1 DEF Reviewing
    <3> QED BY <3>1, <3>2, <3>3
  <2> QED BY <2>1, <2>2 DEF Reviewing
<1> QED BY <1>1, <1>2, <1>3, <1>4 DEF Next

(* _feed_rulebook: with fail_open on, as configured unless the user changes it, a
   call of the judge that failed labels nothing; no review but one that the judge
   answered moves a scorecard, for any number of reviews at once.             *)
THEOREM OutageLabelsNothing == ASSUME FailOpen PROVE Spec => OnlyReviewsLabel
<1> DEFINE Labelling ==
      book' # book /\ era' = era =>
        \E r \in Requests : at'[r] # at[r] /\ cand[r].reason \in {"judged", "unparsed"}
<1>1. ASSUME Typed, Reviewing, [Next]_vars PROVE [Labelling]_vars
  <2> SUFFICES ASSUME book' # book, era' = era
               PROVE  \E r \in Requests : at'[r] # at[r] /\ cand[r].reason \in {"judged", "unparsed"}
    OBVIOUS
  <2>1. ~ UNCHANGED vars  BY DEF vars, sharedVars
  <2>2. ~ Restart  BY <1>1 DEF Restart, Typed, TypeOK
  <2>3. ASSUME NEW r \in Requests PROVE ~ Arrive(r)  BY <1>1, ArriveMoves
  <2>4. PICK r \in Requests : Step(r)  BY <1>1, <2>1, <2>2, <2>3 DEF Next
  <2>5. FeedOne(r)  BY <2>4, StepKeeps
  <2>6. at[r] \in Nat /\ at' = [at EXCEPT ![r] = at[r] + 1] /\ at \in [Requests -> Nat \ {0}]
    BY <1>1, <2>5 DEF FeedOne, Typed, TypeOK, ThreadsTyped
  <2>7. at'[r] # at[r]  BY <2>6
  <2>8. cand[r].reason \in {"judged", "unparsed"}
    BY <1>1, <2>5 DEF FeedOne, Opinion, Reviewing
  <2> QED BY <2>7, <2>8
<1>2. Init => Reviewing  BY DEF Init, Reviewing
<1>3. Typed /\ Reviewing /\ [Next]_vars => (Typed /\ Reviewing)'  BY NextTyped, ReviewingStep
<1>4. Typed /\ Reviewing /\ [Next]_vars => [Labelling]_vars  BY <1>1
<1> QED BY <1>2, <1>3, <1>4, InitTyped, PTL DEF Spec, OnlyReviewsLabel
-----------------------------------------------------------------------------
(* Which hooks overlap.                                                      *)

(* A thread that is served belongs to this incarnation of the daemon, ... *)
Current ==
  \A r \in Requests : req[r].era <= era /\ (pc[r] \notin Idle => req[r].era = era)

(* ... the past of a request is over, a poll ends as it arrives, and the judge
   labels at a STOP only, ...                                                *)
PastOver ==
  \A r \in Requests : \A q \in req[r].past :
    pc[q] \in {"done", "lost"} /\ SessionOf(q) = SessionOf(r) /\ q # r
PollsOver == \A r \in Requests : req[r].kind = "poll" => pc[r] = "done"
AtStop == \A r \in Requests : pc[r] \in {"finalize", "label", "forget"} => req[r].kind = "stop"

(* ... and a thread that has not asked a detector or the judge has no verdict. *)
Blanks == {"unsent", "snapshot", "finalize", "label", "forget", "drain", "header", "evaluate", "score"}
Blank ==
  /\ \A r \in Requests : pc[r] \in Blanks \/ req[r].kind = "poll" => cand[r] = NoVerdict
  /\ \A r \in Requests : cand[r] = NoVerdict \/ cand[r].detector \in TierZero \cup {"judge"}
Base == Current /\ PastOver /\ PollsOver /\ AtStop /\ Blank

\* Restarts are numbered upwards.
LEMMA CurrentStep == Typed /\ Current /\ [Next]_vars => Current'
<1> SUFFICES ASSUME Typed, Current, [Next]_vars PROVE Current'  OBVIOUS
<1>1. era \in Nat /\ \A r \in Requests : req[r].era \in Nat
  BY EngineAssumption DEF Typed, TypeOK, ThreadsTyped
<1>2. CASE UNCHANGED vars  BY <1>2 DEF vars, threadVars, Current
<1>3. CASE Restart
  <2>1. era' = era + 1 /\ req' = req /\ \A r \in Requests : pc'[r] \in Idle
    BY <1>3 DEF Restart, Idle
  <2> QED BY <1>1, <2>1 DEF Current
<1>4. ASSUME NEW r \in Requests, Arrive(r) PROVE Current'
  <2>1. /\ req'[r].era = era /\ era' = era
        /\ \A q \in Requests \ {r} : pc'[q] = pc[q] /\ req'[q] = req[q]
    BY <1>4, ArriveMoves DEF sessionVars
  <2> QED BY <1>1, <2>1 DEF Current
<1>5. ASSUME NEW r \in Requests, Step(r) PROVE Current'
  BY <1>5, StepMoves DEF Current
<1> QED BY <1>2, <1>3, <1>4, <1>5 DEF Next

\* Who is accepted stays what it was sent as, and who has ended has ended.
LEMMA AcceptedKept ==
  ASSUME Typed, [Next]_vars, NEW r \in Requests, pc[r] # "unsent"
  PROVE  /\ req'[r] = req[r] /\ SessionOf(r)' = SessionOf(r) /\ pc'[r] # "unsent"
         /\ pc[r] \in {"done", "lost"} => pc'[r] = pc[r]
<1>1. CASE UNCHANGED vars  BY <1>1 DEF vars, threadVars, SessionOf
<1>2. CASE Restart  BY <1>2 DEF Restart, Idle, SessionOf
<1>3. ASSUME NEW q \in Requests, Arrive(q)
      PROVE  req'[r] = req[r] /\ pc'[r] = pc[r]
  BY <1>3, ArriveMoves
<1>4. ASSUME NEW q \in Requests, Step(q)
      PROVE  /\ req' = req /\ pc'[r] # "unsent"
             /\ pc[r] \in {"done", "lost"} => pc'[r] = pc[r]
  BY <1>4, StepMoves DEF Idle
<1> QED BY <1>1, <1>2, <1>3, <1>4 DEF Next, SessionOf

\* The past stays over.
LEMMA PastStep == Typed /\ PastOver /\ [Next]_vars => PastOver'
<1> SUFFICES ASSUME Typed, PastOver, [Next]_vars, NEW r \in Requests, NEW q \in req'[r].past
             PROVE  pc'[q] \in {"done", "lost"} /\ SessionOf(q)' = SessionOf(r)' /\ q # r
  BY DEF PastOver
<1>1. req'[r] = req[r] /\ SessionOf(r)' = SessionOf(r) =>
        pc'[q] \in {"done", "lost"} /\ SessionOf(q)' = SessionOf(r)' /\ q # r
  <2> SUFFICES ASSUME req'[r] = req[r], SessionOf(r)' = SessionOf(r)
               PROVE  pc'[q] \in {"done", "lost"} /\ SessionOf(q)' = SessionOf(r)' /\ q # r
    OBVIOUS
  <2>1. q \in req[r].past /\ req[r].past \subseteq Requests
    BY DEF Typed, TypeOK, ThreadsTyped
  <2>2. pc[q] \in {"done", "lost"} /\ SessionOf(q) = SessionOf(r) /\ q # r  BY <2>1 DEF PastOver
  <2> QED BY <2>1, <2>2, AcceptedKept
<1>2. CASE pc[r] # "unsent"  BY <1>1, <1>2, AcceptedKept
<1>3. CASE req' = req  BY <1>1, <1>3 DEF SessionOf
<1>4. ASSUME pc[r] = "unsent", NEW p \in Requests, Arrive(p)
      PROVE  pc'[q] \in {"done", "lost"} /\ SessionOf(q)' = SessionOf(r)' /\ q # r
  <2>1. CASE p # r
    <3>1. req'[r] = req[r]  BY <1>4, <2>1, ArriveMoves
    <3> QED BY <1>1, <3>1 DEF SessionOf
  <2>2. CASE p = r
    <3>1. q \in Requests /\ pc[q] \in {"done", "lost"} /\ SessionOf(q) = SessionOf(r)'
      BY <1>4, <2>2, ArriveMoves
    <3> QED BY <1>4, <3>1, AcceptedKept
  <2> QED BY <2>1, <2>2
<1>5. CASE UNCHANGED vars \/ Restart  BY <1>3, <1>5 DEF vars, threadVars, Restart
<1>6. ASSUME NEW p \in Requests, Step(p) PROVE req' = req  BY <1>6, StepMoves
<1> QED BY <1>2, <1>3, <1>4, <1>5, <1>6 DEF Next

\* A poll is served in one step.
LEMMA PollsStep == Typed /\ PollsOver /\ [Next]_vars => PollsOver'
<1> SUFFICES ASSUME Typed, PollsOver, [Next]_vars, NEW r \in Requests, req'[r].kind = "poll"
             PROVE  pc'[r] = "done"
  BY DEF PollsOver
<1>1. CASE req'[r] = req[r]
  <2>1. pc[r] = "done"  BY <1>1 DEF PollsOver
  <2> QED BY <2>1, AcceptedKept
<1>2. CASE req'[r] # req[r]
  <2>1. Arrive(r)
    <3>1. ~ UNCHANGED vars /\ ~ Restart  BY <1>2 DEF vars, threadVars, Restart
    <3>2. \A q \in Requests : ~ Step(q)  BY <1>2, StepMoves
    <3>3. \A q \in Requests \ {r} : ~ Arrive(q)  BY <1>2, ArriveMoves
    <3> QED BY <3>1, <3>2, <3>3 DEF Next
  <2>2. PICK s \in Sessions, k \in Kinds, t \in Times, m \in {"plain", "bad", "denied"} :
          Ignore(r, s, k, t) \/ Ingest(r, s, k, t, m) \/ Poll(r, s, k, t)
    BY <2>1 DEF Arrive
  <2>3. req'[r].kind = k  BY <2>2 DEF Ignore, Ingest, Poll, Send, Typed, TypeOK, ThreadsTyped
  <2> QED BY <2>2, <2>3 DEF Ignore, Ingest, Poll, Goto, Typed, TypeOK, ThreadsTyped
<1> QED BY <1>1, <1>2

\* Only a STOP goes through the end of a session.
LEMMA AtStopStep == Typed /\ AtStop /\ [Next]_vars => AtStop'
<1> SUFFICES ASSUME Typed, AtStop, [Next]_vars PROVE AtStop'  OBVIOUS
<1>1. CASE UNCHANGED vars  BY <1>1 DEF vars, threadVars, AtStop
<1>2. CASE Restart  BY <1>2 DEF Restart, Idle, AtStop
<1>3. ASSUME NEW r \in Requests, Arrive(r) PROVE AtStop'
  BY <1>3, ArriveMoves DEF AtStop
<1>4. ASSUME NEW r \in Requests, Step(r) PROVE AtStop'
  <2>1. req' = req /\ \A q \in Requests \ {r} : pc'[q] = pc[q]  BY <1>4, StepMoves
  <2>2. pc'[r] \in {"finalize", "label", "forget"} => req[r].kind = "stop"
    <3>1. CASE Snapshot(r)  BY <3>1, StepTo DEF AfterSnapshot
    <3>2. CASE Finalize(r) \/ LabelOne(r) \/ LabelDone(r)  BY <3>2, StepAt DEF AtStop
    <3>3. CASE ~ (Snapshot(r) \/ Finalize(r) \/ LabelOne(r) \/ LabelDone(r))
      <4>1. AfterTally(r) \notin {"finalize", "label", "forget"}  BY DEF AfterTally
      <4> QED BY <1>4, <3>3, <4>1, StepAt, StepTo DEF Step
    <3> QED BY <3>1, <3>2, <3>3
  <2> QED BY <2>1, <2>2 DEF AtStop
<1> QED BY <1>1, <1>2, <1>3, <1>4 DEF Next

\* A verdict comes from a detector or from the judge.
LEMMA BlankStep == Typed /\ Blank /\ PollsOver /\ [Next]_vars => Blank'
<1> SUFFICES ASSUME Typed, Blank, PollsOver, [Next]_vars PROVE Blank'  OBVIOUS
<1>1. CASE UNCHANGED vars  BY <1>1 DEF vars, threadVars, Blank
<1>2. CASE Restart
  <2>1. UNCHANGED <<cand, req>> /\ \A r \in Requests : pc'[r] \in Blanks => pc[r] \in Blanks
    BY <1>2 DEF Restart, Idle, Blanks
  <2> QED BY <2>1 DEF Blank
<1>3. ASSUME NEW r \in Requests, Arrive(r) PROVE Blank'
  <2>1. /\ pc[r] \in Blanks /\ cand' = cand
        /\ \A q \in Requests \ {r} : pc'[q] = pc[q] /\ req'[q] = req[q]
    BY <1>3, ArriveMoves DEF Blanks
  <2> QED BY <2>1 DEF Blank
<1>4. ASSUME NEW r \in Requests, Step(r) PROVE Blank'
  <2>1. /\ req' = req /\ pc[r] \notin Idle
        /\ \A q \in Requests \ {r} : pc'[q] = pc[q] /\ cand'[q] = cand[q]
    BY <1>4, StepMoves, CandMoves
  <2>2. req[r].kind # "poll"  BY <2>1 DEF PollsOver, Idle
  <2>3. CASE Detect(r) \/ Judge(r)
    <3>1. PICK v \in VerdictSet : Decides(r, v)  BY <2>3, Decisions
    <3>2. cand'[r].detector \in TierZero \cup {"judge"}
      BY <2>3, <3>1 DEF Decides, Typed, TypeOK, ThreadsTyped
    <3>3. pc'[r] \notin Blanks  BY <2>3, StepTo DEF Blanks
    <3> QED BY <2>1, <2>2, <3>2, <3>3 DEF Blank
  <2>4. CASE ~ (Detect(r) \/ Judge(r))
    <3>1. CASE pc[r] \in Blanks
      <4>1. cand'[r] = cand[r]
        <5>1. pc[r] \notin {"admit", "control"}  BY <3>1 DEF Blanks
        <5> QED BY <1>4, <2>4, <5>1, StepKeeps, StepAt
      <4> QED BY <2>1, <3>1, <4>1 DEF Blank
    <3>2. CASE pc[r] \notin Blanks
      <4>1. pc'[r] \notin Blanks
        <5>1. AfterTally(r) \notin Blanks  BY DEF AfterTally, Blanks
        <5> QED BY <1>4, <3>2, <5>1, StepAt, StepTo DEF Step, Blanks
      <4>2. cand'[r].detector = cand[r].detector
        BY <1>4, <3>2, CandMoves DEF Blanks
      <4>3. cand[r] = NoVerdict => cand'[r] = NoVerdict
        <5> SUFFICES ASSUME cand[r] = NoVerdict PROVE cand'[r] = NoVerdict  OBVIOUS
        <5>1. NoVerdict.action = "none" /\ NoVerdict.detector = "none"  BY DEF NoVerdict, Verdict
        <5>2. Controlled(NoVerdict, Agent(r)) = NoVerdict  BY <5>1 DEF Controlled
        <5>3. CASE Admit(r)  BY <5>1, <5>3 DEF Admit
        <5>4. CASE ~ Admit(r)
          <6>1. pc[r] \notin {"evaluate", "score"}  BY <3>2 DEF Blanks
          <6> QED BY <1>4, <2>4, <5>2, <5>4, <6>1, StepKeeps, CandMoves
        <5> QED BY <5>3, <5>4
      <4> QED BY <2>1, <2>2, <4>1, <4>2, <4>3 DEF Blank
    <3> QED BY <3>1, <3>2
  <2> QED BY <2>3, <2>4
<1> QED BY <1>1, <1>2, <1>3, <1>4 DEF Next

\* All of it holds at the start, ...
LEMMA BaseInit == Init => Base
<1> SUFFICES ASSUME Init PROVE Base  OBVIOUS
<1>1. \A r \in Requests : req[r] = NoRequest /\ pc[r] = "unsent" /\ cand[r] = NoVerdict /\ era = 0
  BY DEF Init
<1>2. NoRequest.era = 0 /\ NoRequest.past = {} /\ NoRequest.kind = "none"  BY DEF NoRequest
<1> QED BY <1>1, <1>2 DEF Base, Current, PastOver, PollsOver, AtStop, Blank, Idle

\* ... and stays.
LEMMA BaseStep == Typed /\ Base /\ [Next]_vars => Base'
BY CurrentStep, PastStep, PollsStep, AtStopStep, BlankStep DEF Base

\* Two hooks that are served together overlap, ...
LEMMA TogetherOverlap ==
  ASSUME Base, NEW q \in Requests, NEW r \in Requests, q # r, pc[q] \notin Idle, pc[r] \notin Idle,
         SessionOf(q) = SessionOf(r)
  PROVE  Overlapped(q, r) /\ Overlapped(r, q)
BY DEF Base, PastOver, PollsOver, Overlapped, Hook, Idle

\* ... and of two that do not, one of them served, the other came before.
LEMMA CameBefore ==
  ASSUME Base, NEW q \in Requests, NEW r \in Requests, q # r, ~ Overlapped(q, r) \/ ~ Overlapped(r, q),
         pc[r] \notin Idle, pc[q] # "unsent", req[q].kind # "poll", SessionOf(q) = SessionOf(r)
  PROVE  q \in req[r].past
BY DEF Base, PastOver, PollsOver, Overlapped, Hook, Idle

\* To have overlapped is for ever.
LEMMA OverlapKept ==
  ASSUME Typed, [Next]_vars, NEW q \in Requests, NEW r \in Requests, Overlapped(q, r)
  PROVE  Overlapped(q, r)'
<1>1. pc[q] # "unsent" /\ pc[r] # "unsent"  BY DEF Overlapped, Hook
<1> QED BY <1>1, AcceptedKept DEF Overlapped, Hook

\* Who is undisturbed has always been.
LEMMA UndisturbedKept ==
  ASSUME Typed, [Next]_vars, NEW r \in Requests, Undisturbed(r)'
  PROVE  Undisturbed(r)
BY OverlapKept DEF Undisturbed

-----------------------------------------------------------------------------
(* The counters.                                                             *)

CountedAt == {"silent", "queue", "append", "record", "park", "done", "lost"}
Loading == {"suppressing", "tallying"}

\* What a thread counts is what it was decided as.
LEMMA CounterIsOutcome ==
  ASSUME Typed, Sound, Honest, NEW r \in Requests, pc[r] \in Loading
  PROVE  Outcome(cand[r]) = Counter(r) /\ Counter(r) \in Fields \ {"seen"}
<1>1. CASE pc[r] = "suppressing"
  <2>1. Hushed(cand[r])  BY <1>1 DEF Sound, Ready
  <2> QED BY <2>1, CounterTyped DEF Hushed, Outcome, Counter
<1>2. CASE pc[r] = "tallying"
  <2>1. cand[r].action \in Interventions  BY <1>2 DEF Sound, Ready, MayTell
  <2>2. cand[r].reason # "cooldown"  BY <1>2 DEF Honest, Decided
  <2> QED BY <2>1, <2>2, CounterTyped DEF Outcome, Counter
<1> QED BY <1>1, <1>2 DEF Loading

\* No verdict and no withheld one are counted as anything.
LEMMA Uncounted ==
  ASSUME NEW v, v = NoVerdict \/ (v.action = "pass" /\ v.reason # "cooldown")
  PROVE  Outcome(v) \notin Fields
<1>1. Outcome(v) \in {"none", "pass"}  BY DEF Outcome, NoVerdict, Verdict
<1> QED BY <1>1 DEF Fields

\* A thread joins an account as it stores its counter, and leaves none.
LEMMA TalliedStep ==
  ASSUME Typed, Sound, Honest, Base, NEW r \in Requests, Step(r),
         NEW s \in Sessions, NEW f \in Fields \ {"seen"}
  PROVE  /\ Store(r) => r \notin Tallied(s, f)
         /\ Store(r) /\ s = SessionOf(r) /\ f = Counter(r) => Tallied(s, f)' = Tallied(s, f) \cup {r}
         /\ ~ (Store(r) /\ s = SessionOf(r) /\ f = Counter(r)) => Tallied(s, f)' = Tallied(s, f)
<1>1. /\ req' = req /\ era' = era /\ pc[r] \notin Idle /\ req[r].era = era
      /\ \A q \in Requests \ {r} : pc'[q] = pc[q] /\ cand'[q] = cand[q]
  BY StepMoves, CandMoves DEF Base, Current
<1>2. \A q \in Requests \ {r} : q \in Tallied(s, f)' <=> q \in Tallied(s, f)
  BY <1>1 DEF Tallied, SessionOf
<1>3. Tallied(s, f) \subseteq Requests /\ Tallied(s, f)' \subseteq Requests  BY DEF Tallied
<1>4. CASE Store(r)
  <2>1. pc[r] \in Loading  BY <1>4, StepAt DEF Loading
  <2>2. r \notin Tallied(s, f)  BY <2>1 DEF Tallied, Loading
  <2>3. cand' = cand  BY <1>4 DEF Store
  <2>4. pc'[r] \in CountedAt  BY <1>4, StepTo DEF CountedAt, AfterTally
  <2>5. r \in Tallied(s, f)' <=> s = SessionOf(r) /\ f = Counter(r)
    BY <1>1, <2>1, <2>3, <2>4, CounterIsOutcome DEF Tallied, CountedAt, SessionOf
  <2> QED BY <1>2, <1>3, <1>4, <2>2, <2>5
<1>5. CASE pc[r] \in CountedAt
  <2>1. pc[r] \in {"silent", "queue", "append", "record", "park"}
    BY <1>1, <1>5 DEF CountedAt, Idle
  <2>2. cand'[r] = cand[r]  BY <2>1, CandMoves
  <2>3. Silence(r) \/ Confirm(r) \/ Enqueue(r) \/ Record(r) \/ Park(r)  BY <2>1, StepAt DEF Step
  <2>4. pc'[r] \in CountedAt /\ ~ Store(r)  BY <2>1, <2>3, StepAt, StepTo DEF CountedAt
  <2>5. r \in Tallied(s, f)' <=> r \in Tallied(s, f)
    BY <1>1, <1>5, <2>2, <2>4 DEF Tallied, CountedAt, SessionOf
  <2> QED BY <1>2, <1>3, <2>4, <2>5
<1>6. CASE pc[r] \notin CountedAt /\ ~ Store(r)
  <2>1. r \notin Tallied(s, f)  BY <1>6 DEF Tallied, CountedAt
  <2>2. CASE DrainParked(r) \/ Header(r) \/ NoDrift(r)
    <3>1. pc[r] \in {"drain", "header", "evaluate"}  BY <2>2, StepAt
    <3>2. cand'[r] = NoVerdict
      <4>1. cand[r] = NoVerdict  BY <3>1 DEF Base, Blank, Blanks
      <4>2. cand' = cand  BY <2>2 DEF DrainParked, Header, NoDrift
      <4> QED BY <4>1, <4>2
    <3>3. r \notin Tallied(s, f)'  BY <3>2, Uncounted DEF Tallied
    <3> QED BY <1>2, <1>3, <1>6, <2>1, <3>3
  <2>3. CASE Withhold(r)
    <3>1. pc[r] = "control" /\ cand'[r] = Controlled(cand[r], Agent(r))
      BY <2>3, StepAt, CandMoves
    <3>2. Controlled(cand[r], Agent(r)).action = "pass"  BY <2>3 DEF Withhold
    <3>3. Controlled(cand[r], Agent(r)).reason # "cooldown"
      <4>1. cand[r].reason # "cooldown" /\ cand[r] \in VerdictSet
        BY <3>1 DEF Honest, Decided, Typed, TypeOK, ThreadsTyped
      <4> QED BY <4>1 DEF Controlled, VerdictSet
    <3>4. Outcome(cand'[r]) \notin Fields  BY <3>1, <3>2, <3>3, Uncounted
    <3>5. r \notin Tallied(s, f)'  BY <3>4 DEF Tallied
    <3> QED BY <1>2, <1>3, <1>6, <2>1, <3>5
  <2>4. CASE ~ (DrainParked(r) \/ Header(r) \/ NoDrift(r) \/ Withhold(r))
    <3>1. AfterSnapshot(req[r].kind) \notin CountedAt  BY DEF AfterSnapshot, CountedAt
    <3>2. pc'[r] \notin CountedAt
      <4>1. CASE \/ Snapshot(r) \/ Finalize(r) \/ LabelOne(r) \/ LabelDone(r) \/ Forget(r) \/ DrainEmpty(r)
                 \/ NoHeader(r) \/ WakeJudge(r)
        BY <3>1, <4>1, StepAt, StepTo DEF CountedAt
      <4>2. CASE \/ Detect(r) \/ Judge(r) \/ FeedOne(r) \/ FeedDone(r) \/ Empty(r) \/ Admit(r) \/ Stamp(r)
                 \/ Load(r) \/ Intervene(r)
        BY <4>2, StepAt, StepTo DEF CountedAt
      <4>3. ~ (Silence(r) \/ Confirm(r) \/ Enqueue(r) \/ Record(r) \/ Park(r))
        BY <1>6, StepAt DEF CountedAt
      <4> QED BY <1>6, <2>4, <4>1, <4>2, <4>3 DEF Step
    <3>3. r \notin Tallied(s, f)'  BY <3>2 DEF Tallied, CountedAt
    <3> QED BY <1>2, <1>3, <1>6, <2>1, <3>3
  <2> QED BY <2>2, <2>3, <2>4
<1> QED BY <1>4, <1>5, <1>6

(* A session is calm if none of its hooks overlapped.  A counter never exceeds its
   account, nor does what a thread has loaded of it; in a calm session they agree,
   since nobody can come between a load and the store.                        *)
Calm(s) == \A r \in Requests : SessionOf(r) = s /\ req[r].era = era => Undisturbed(r)
Account(s, f, n) ==
  /\ IsFiniteSet(Tallied(s, f)) /\ n <= Cardinality(Tallied(s, f))
  /\ Calm(s) => n = Cardinality(Tallied(s, f))
Stored == \A s \in Sessions, f \in Fields \ {"seen"} : Account(s, f, stats[s][f])
Loaded ==
  \A r \in Requests, s \in Sessions, f \in Fields \ {"seen"} :
    pc[r] \in Loading /\ s = SessionOf(r) /\ f = Counter(r) => Account(s, f, was[r])

\* A session that is calm was calm before.
LEMMA CalmBefore ==
  ASSUME Typed, [Next]_vars, era' = era, NEW s, Calm(s)'
  PROVE  Calm(s)
<1> SUFFICES ASSUME NEW r \in Requests, SessionOf(r) = s, req[r].era = era PROVE Undisturbed(r)
  BY DEF Calm
<1>1. CASE pc[r] = "unsent"  BY <1>1 DEF Undisturbed, Overlapped, Hook
<1>2. CASE pc[r] # "unsent"
  <2>1. req'[r] = req[r] /\ SessionOf(r)' = SessionOf(r)  BY <1>2, AcceptedKept
  <2>2. Undisturbed(r)'  BY <2>1 DEF Calm
  <2> QED BY <2>2, UndisturbedKept
<1> QED BY <1>1, <1>2

\* In a calm session one thread at a time has loaded a counter.
LEMMA AloneInCalm ==
  ASSUME Typed, Base, NEW q \in Requests, NEW r \in Requests, pc[q] \notin Idle, pc[r] \notin Idle,
         SessionOf(q) = SessionOf(r), Calm(SessionOf(r))
  PROVE  q = r
<1>1. req[r].era = era  BY DEF Base, Current
<1>2. ~ Overlapped(q, r)  BY <1>1 DEF Calm, Undisturbed
<1> QED BY <1>2, TogetherOverlap

\* An account nothing joins stays right.
LEMMA AccountKept ==
  ASSUME Typed, [Next]_vars, era' = era, NEW s, NEW f, NEW n, Account(s, f, n), Tallied(s, f)' = Tallied(s, f)
  PROVE  Account(s, f, n)'
BY CalmBefore DEF Account

\* A store adds its thread to the account, and at most one to the counter.
LEMMA StoreAccounts ==
  ASSUME Typed, Sound, Honest, Base, Stored, Loaded, [Next]_vars, NEW r \in Requests, Store(r)
  PROVE  Stored' /\ Loaded'
<1>1. /\ pc[r] \in Loading /\ pc'[r] \notin Loading /\ pc[r] \notin Idle
      /\ UNCHANGED <<req, cand, era>> /\ Step(r)
      /\ stats' = [stats EXCEPT ![SessionOf(r)][Counter(r)] = was[r] + 1]
      /\ was' = [was EXCEPT ![r] = 0]
  BY StepAt, StepTo DEF Store, Step, Loading, AfterTally, Idle
<1>2. \A q \in Requests \ {r} : pc'[q] = pc[q] /\ was'[q] = was[q]
  BY <1>1, StepMoves DEF Typed, TypeOK, ThreadsTyped
<1>3. PICK z \in Sessions : z = SessionOf(r)  BY <1>1 DEF Typed, Located, Loading
<1>4. PICK c \in Fields \ {"seen"} : c = Counter(r)  BY CounterTyped
<1>5. PICK n \in Nat : n = was[r]  BY DEF Typed, TypeOK, ThreadsTyped
<1>6. Account(z, c, n)  BY <1>1, <1>3, <1>4, <1>5 DEF Loaded
<1>7. r \notin Tallied(z, c) /\ Tallied(z, c)' = Tallied(z, c) \cup {r}
  BY <1>1, <1>3, <1>4, TalliedStep
<1>8. \A s \in Sessions, f \in Fields \ {"seen"} : s # z \/ f # c => Tallied(s, f)' = Tallied(s, f)
  BY <1>1, <1>3, <1>4, TalliedStep
<1>9. /\ stats'[z][c] = n + 1
      /\ \A s \in Sessions, f \in Fields \ {"seen"} : s # z \/ f # c => stats'[s][f] = stats[s][f]
  BY <1>1, <1>3, <1>4, <1>5 DEF Typed, TypeOK, SessionsTyped
<1>10. /\ IsFiniteSet(Tallied(z, c)')
       /\ Cardinality(Tallied(z, c)') = Cardinality(Tallied(z, c)) + 1
       /\ Cardinality(Tallied(z, c)) \in Nat
  BY <1>6, <1>7, FS_AddElement, FS_CardinalityType DEF Account
<1>11. Calm(z)' => Calm(z)  BY <1>1, CalmBefore
<1>12. Account(z, c, n + 1)'  BY <1>6, <1>10, <1>11 DEF Account
<1>13. ASSUME NEW s \in Sessions, NEW f \in Fields \ {"seen"} PROVE Account(s, f, stats[s][f])'
  <2>1. CASE s = z /\ f = c  BY <1>9, <1>12, <2>1 DEF Account
  <2>2. CASE s # z \/ f # c
    <3>1. PICK m : m = stats[s][f]  OBVIOUS
    <3>2. Account(s, f, m) /\ stats'[s][f] = m  BY <1>9, <2>2, <3>1 DEF Stored
    <3>3. Account(s, f, m)'  BY <1>1, <1>8, <2>2, <3>2, AccountKept
    <3> QED BY <3>2, <3>3 DEF Account
  <2> QED BY <2>1, <2>2
<1>14. ASSUME NEW q \in Requests, NEW s \in Sessions, NEW f \in Fields \ {"seen"},
              pc'[q] \in Loading, s = SessionOf(q)', f = Counter(q)'
       PROVE  Account(s, f, was[q])'
  <2>1. /\ q # r /\ pc[q] \in Loading /\ s = SessionOf(q) /\ f = Counter(q) /\ was'[q] = was[q]
        /\ pc[q] \notin Idle
    BY <1>1, <1>2, <1>14 DEF SessionOf, Counter, Loading, Idle
  <2>2. PICK m \in Nat : m = was[q]  BY DEF Typed, TypeOK, ThreadsTyped
  <2>3. Account(s, f, m)  BY <2>1, <2>2 DEF Loaded
  <2>4. Account(s, f, m)'
    <3>1. CASE s = z /\ f = c
      <4>1. ~ Calm(z)  BY <1>1, <1>3, <2>1, <3>1, AloneInCalm
      <4>2. m <= Cardinality(Tallied(z, c)) + 1  BY <1>10, <2>3, <3>1 DEF Account
      <4> QED BY <1>10, <1>11, <3>1, <4>1, <4>2 DEF Account
    <3>2. CASE s # z \/ f # c  BY <1>1, <1>8, <2>3, <3>2, AccountKept
    <3> QED BY <3>1, <3>2
  <2> QED BY <2>1, <2>2, <2>4 DEF Account
<1> QED BY <1>13, <1>14 DEF Stored, Loaded

\* A load takes over the counter; the other steps touch neither counters nor accounts.
LEMMA OtherAccounts ==
  ASSUME Typed, Sound, Honest, Base, Stored, Loaded, [Next]_vars, NEW r \in Requests, Step(r), ~ Store(r)
  PROVE  Stored' /\ Loaded'
<1>1. /\ req' = req /\ era' = era
      /\ \A q \in Requests \ {r} : pc'[q] = pc[q] /\ cand'[q] = cand[q]
  BY StepMoves, CandMoves
<1>2. \A s \in Sessions, f \in Fields \ {"seen"} : Tallied(s, f)' = Tallied(s, f)
  BY TalliedStep
<1>3. \A s \in Sessions, f \in Fields \ {"seen"} : stats'[s][f] = stats[s][f]
  <2>1. CASE Snapshot(r)
    <3>1. stats' = [stats EXCEPT ![SessionOf(r)].seen = @ + 1]  BY <2>1 DEF Snapshot
    <3> QED BY <3>1 DEF Typed, TypeOK, SessionsTyped
  <2>2. CASE ~ Snapshot(r)  BY <2>2, StepKeeps
  <2> QED BY <2>1, <2>2
<1>4. ASSUME NEW s \in Sessions, NEW f \in Fields \ {"seen"}, NEW n, Account(s, f, n)
      PROVE  Account(s, f, n)'
  BY <1>1, <1>2, <1>4, AccountKept
<1>5. ASSUME NEW s \in Sessions, NEW f \in Fields \ {"seen"} PROVE Account(s, f, stats[s][f])'
  <2>1. PICK m : m = stats[s][f]  OBVIOUS
  <2>2. Account(s, f, m) /\ stats'[s][f] = m  BY <1>3, <2>1 DEF Stored
  <2>3. Account(s, f, m)'  BY <1>4, <2>2
  <2> QED BY <2>2, <2>3 DEF Account
<1>6. ASSUME NEW q \in Requests, NEW s \in Sessions, NEW f \in Fields \ {"seen"},
             pc'[q] \in Loading, s = SessionOf(q)', f = Counter(q)'
      PROVE  Account(s, f, was[q])'
  <2>1. SessionOf(q) = s  BY <1>1, <1>6 DEF SessionOf
  <2>2. \E m : m = was'[q] /\ Account(s, f, m)
    <3>1. CASE q = r /\ Load(r)
      <4>1. cand' = cand /\ was'[r] = stats[SessionOf(r)][Counter(r)]
        BY <3>1 DEF Load, Typed, TypeOK, ThreadsTyped
      <4>2. Counter(q) = f  BY <1>6, <4>1 DEF Counter
      <4> QED BY <2>1, <3>1, <4>1, <4>2 DEF Stored
    <3>2. CASE q = r /\ ~ Load(r)
      <4>1. AfterSnapshot(req[r].kind) \notin Loading  BY DEF AfterSnapshot, Loading
      <4> QED BY <1>6, <3>2, <4>1, StepAt, StepTo DEF Step, Loading
    <3>3. CASE q # r
      <4>1. was'[q] = was[q]
        <5>1. CASE Load(r)  BY <3>3, <5>1 DEF Load, Typed, TypeOK, ThreadsTyped
        <5>2. CASE ~ Load(r)  BY <5>2, StepKeeps
        <5> QED BY <5>1, <5>2
      <4>2. pc[q] \in Loading /\ Counter(q) = f  BY <1>1, <1>6, <3>3 DEF Counter
      <4> QED BY <2>1, <4>1, <4>2 DEF Loaded
    <3> QED BY <3>1, <3>2, <3>3
  <2>3. PICK m : m = was'[q] /\ Account(s, f, m)  BY <2>2
  <2>4. Account(s, f, m)'  BY <1>4, <2>3
  <2> QED BY <2>3, <2>4 DEF Account
<1> QED BY <1>5, <1>6 DEF Stored, Loaded

\* A fresh daemon has counted nothing and has nothing to count.
LEMMA AccountsInit ==
  ASSUME stats = ZeroStats, \A s \in Sessions, f \in Fields \ {"seen"} : Tallied(s, f) = {},
         \A r \in Requests : pc[r] \notin Loading
  PROVE  Stored /\ Loaded
<1>1. \A s \in Sessions, f \in Fields \ {"seen"} : stats[s][f] = 0  BY DEF ZeroStats
<1>2. IsFiniteSet({}) /\ Cardinality({}) = 0  BY FS_EmptySet
<1> QED BY <1>1, <1>2 DEF Stored, Loaded, Account

\* A restart forgets the counters together with the incarnation they count for.
LEMMA AccountsForgotten == ASSUME Typed, Current, Restart PROVE Stored' /\ Loaded'
<1>1. era' = era + 1 /\ req' = req /\ stats' = ZeroStats /\ \A r \in Requests : pc'[r] \in Idle
  BY DEF Restart, Idle
<1>2. \A q \in Requests : req'[q].era # era'
  BY <1>1, EngineAssumption DEF Current, Typed, TypeOK, ThreadsTyped
<1>3. \A s \in Sessions, f \in Fields \ {"seen"} : stats'[s][f] = 0 /\ Tallied(s, f)' = {}
  BY <1>1, <1>2 DEF ZeroStats, Tallied
<1>4. IsFiniteSet({}) /\ Cardinality({}) = 0  BY FS_EmptySet
<1>5. \A r \in Requests : pc'[r] \notin Loading  BY <1>1 DEF Idle, Loading
<1> QED BY <1>3, <1>4, <1>5 DEF Stored, Loaded, Account

\* Every step keeps the accounts.
LEMMA AccountsStep == Typed /\ Sound /\ Honest /\ Base /\ Stored /\ Loaded /\ [Next]_vars => (Stored /\ Loaded)'
<1> SUFFICES ASSUME Typed, Sound, Honest, Base, Stored, Loaded, [Next]_vars PROVE Stored' /\ Loaded'
  OBVIOUS
<1>1. CASE UNCHANGED vars
  BY <1>1 DEF vars, threadVars, sessionVars, Stored, Loaded, Account, Calm, Undisturbed, Overlapped,
              Hook, Tallied, SessionOf, Counter
<1>2. CASE Restart  BY <1>2, AccountsForgotten DEF Base
<1>3. ASSUME NEW r \in Requests, Arrive(r) PROVE Stored' /\ Loaded'
  <2>1. /\ pc[r] = "unsent" /\ pc'[r] \notin Loading /\ UNCHANGED <<cand, was, stats, era>>
        /\ \A q \in Requests \ {r} : pc'[q] = pc[q] /\ req'[q] = req[q]
    BY <1>3, ArriveMoves DEF sessionVars, Loading
  <2>2. Outcome(cand[r]) \notin Fields  BY <2>1, Uncounted DEF Base, Blank, Blanks
  <2>3. \A s \in Sessions, f \in Fields \ {"seen"} : Tallied(s, f)' = Tallied(s, f)
    BY <2>1, <2>2 DEF Tallied, SessionOf
  <2>4. \A n : \A s \in Sessions, f \in Fields \ {"seen"} : Account(s, f, n) => Account(s, f, n)'
    BY <2>1, <2>3, AccountKept
  <2>5. \A s \in Sessions, f \in Fields \ {"seen"} : Account(s, f, stats[s][f])'
    BY <2>1, <2>4 DEF Stored, Account
  <2>6. \A q \in Requests, s \in Sessions, f \in Fields \ {"seen"} :
          pc'[q] \in Loading /\ s = SessionOf(q)' /\ f = Counter(q)' => Account(s, f, was[q])'
    BY <2>1, <2>4 DEF Loaded, Account, SessionOf, Counter
  <2> QED BY <2>5, <2>6 DEF Stored, Loaded
<1>4. ASSUME NEW r \in Requests, Step(r) PROVE Stored' /\ Loaded'
  BY <1>4, StoreAccounts, OtherAccounts
<1> QED BY <1>1, <1>2, <1>3, <1>4 DEF Next

(* _tally, _silent: the counters /stats serves never claim more than this
   incarnation of the daemon has decided, however the unlocked `+= 1` of its
   threads interleave, and they are exact for a session whose hooks did not
   overlap, for any number of threads, sessions and restarts.                 *)
THEOREM CountersNeverOverstate == Spec => []StatsNeverOverstate
<1> DEFINE IInv == Typed /\ Sound /\ Hysteresis /\ Base /\ Stored /\ Loaded
<1>1. Init => Stored /\ Loaded
  <2> SUFFICES ASSUME Init PROVE Stored /\ Loaded  OBVIOUS
  <2>1. stats = ZeroStats /\ \A r \in Requests : pc[r] = "unsent"  BY DEF Init
  <2> QED BY <2>1, AccountsInit DEF Tallied, Loading
<1>2. Init => IInv  BY <1>1, InitTyped, InitSound, HysteresisInit, BaseInit
<1>3. IInv /\ [Next]_vars => IInv'
  BY NextTyped, NextSound, HysteresisStep, BaseStep, AccountsStep DEF Hysteresis
<1>4. IInv => StatsNeverOverstate  BY DEF Stored, Account, Calm, StatsNeverOverstate
<1> QED BY <1>2, <1>3, <1>4, PTL DEF Spec

-----------------------------------------------------------------------------
(* Nudges of Tier 0 are spaced.                                              *)

Nudging == TierZero \ {"offspec"}
Timed == Settled \cup {"stamp", "control"}

(* What the ledger holds of a thread is what the thread carries, and a detector
   that is held to a cooldown asks for nudges only.                           *)
Carried == \A u \in ledger : u.detector # "rulebook" => cand[u.by] = u
Plain ==
  \A r \in Requests : pc[r] \in Decided \ Silencing /\ cand[r].detector \in Nudging =>
    cand[r].action = "nudge"

(* A nudge of this incarnation past its stamp, and the clock it has started.  Once
   it ran undisturbed, the clock does not go back behind it: whoever restarts the
   clock later arrived after it and found the cooldown over.                  *)
Stamped(q, d) ==
  /\ cand[q].detector = d /\ cand[q].action = "nudge" /\ req[q].era = era
  /\ pc[q] \in Settled \cup {"control", "done", "lost"}
Clocked ==
  \A q \in Requests, s \in Sessions, d \in Nudging :
    Stamped(q, d) /\ Undisturbed(q) /\ s = SessionOf(q) => lastNudge[s][d] >= req[q].ts
Apart(q, r) == req[r].ts - req[q].ts >= Cooldown
SpacedOut ==
  \A q, r \in Requests, d \in Nudging :
    /\ q \in req[r].past /\ Stamped(q, d) /\ Undisturbed(q)
    /\ pc[r] \in Timed /\ cand[r].detector = d /\ cand[r].action = "nudge"
    => Apart(q, r)
Spacing == Carried /\ Plain /\ Clocked /\ SpacedOut /\ TierZeroNudgesSpaced

\* The ledger goes on holding what its threads carry.
LEMMA CarriedStep == Typed /\ Sound /\ Carried /\ [Next]_vars => Carried'
<1> SUFFICES ASSUME Typed, Sound, Carried, [Next]_vars PROVE Carried'  OBVIOUS
<1>1. CASE UNCHANGED <<ledger, cand>>  BY <1>1 DEF Carried
<1>2. CASE UNCHANGED vars \/ Restart  BY <1>1, <1>2 DEF vars, threadVars, Restart
<1>3. ASSUME NEW r \in Requests, Arrive(r) PROVE Carried'  BY <1>1, <1>3, ArriveMoves
<1>4. ASSUME NEW r \in Requests, Step(r), NEW u \in ledger', u.detector # "rulebook"
      PROVE  cand'[u.by] = u
  <2>1. CASE u \in ledger
    <3>1. cand[u.by] = u /\ u.by \in Requests /\ pc[u.by] \in {"park", "done", "lost"}
      BY <1>4, <2>1, LinesWritten DEF Carried
    <3> QED BY <1>4, <3>1, CandMoves
  <2>2. CASE u \notin ledger
    <3>1. u # Verdict("nudge", "rulebook", 99, "promoted", r)  BY <1>4 DEF Verdict
    <3>2. \/ (Silence(r) \/ Record(r)) /\ u = cand[r]
          \/ Withhold(r) /\ u = Controlled(cand[r], Agent(r))
      BY <1>4, <2>2, <3>1, LinesAdded
    <3>3. pc[r] \in {"silent", "record", "control"} /\ cand[r].by = r
      BY <3>2, StepAt DEF Sound, Authored, Decided
    <3>4. cand'[r] = u
      <4>1. CASE Withhold(r) /\ u = Controlled(cand[r], Agent(r))
        BY <1>4, <3>3, <4>1, CandMoves
      <4>2. CASE (Silence(r) \/ Record(r)) /\ u = cand[r]
        <5>1. pc[r] \in {"silent", "record"}  BY <4>2, StepAt
        <5> QED BY <1>4, <4>2, <5>1, CandMoves
      <4> QED BY <3>2, <4>1, <4>2
    <3>5. cand'[r].by = r  BY <1>4, <3>3, CandMoves
    <3> QED BY <3>4, <3>5
  <2> QED BY <2>1, <2>2
<1> QED BY <1>2, <1>3, <1>4 DEF Next, Carried

\* A detector held to a cooldown never asks for more than a nudge.
LEMMA PlainStep == Typed /\ Sound /\ Plain /\ [Next]_vars => Plain'
<1> SUFFICES ASSUME Typed, Sound, Plain, [Next]_vars PROVE Plain'  OBVIOUS
<1>1. CASE UNCHANGED vars  BY <1>1 DEF vars, threadVars, Plain
<1>2. CASE Restart  BY <1>2 DEF Restart, Idle, Plain, Decided
<1>3. ASSUME NEW r \in Requests, Arrive(r) PROVE Plain'
  BY <1>3, ArriveMoves DEF Plain, Decided
<1>4. ASSUME NEW r \in Requests, Step(r), pc'[r] \in Decided \ Silencing, cand'[r].detector \in Nudging
      PROVE  cand'[r].action = "nudge"
  <2>1. CASE Detect(r) \/ Judge(r)
    <3>1. PICK v \in VerdictSet : Decides(r, v)  BY <2>1, Decisions
    <3>2. cand'[r] = v  BY <3>1 DEF Decides, Typed, TypeOK, ThreadsTyped
    <3> QED BY <1>4, <2>1, <3>1, <3>2 DEF Decides, Nudging, TierZero
  <2>2. CASE ~ (Detect(r) \/ Judge(r))
    <3>1. pc[r] \in Decided \ Silencing
      <4>1. AfterSnapshot(req[r].kind) \notin Decided  BY DEF AfterSnapshot, Decided
      <4>2. \/ FeedOne(r) \/ FeedDone(r) \/ Empty(r) \/ Admit(r) \/ Stamp(r)
            \/ Load(r) \/ Store(r) \/ Intervene(r) \/ Confirm(r) \/ Enqueue(r) \/ Record(r)
        <5>2. ~ (Snapshot(r) \/ Finalize(r) \/ LabelDone(r) \/ Forget(r) \/ DrainParked(r) \/ DrainEmpty(r))
          BY <1>4, <4>1, StepTo DEF Decided
        <5>3. ~ (Header(r) \/ NoHeader(r) \/ NoDrift(r) \/ WakeJudge(r) \/ Silence(r) \/ Withhold(r) \/ Park(r))
          BY <1>4, StepTo DEF Decided
        <5>4. ~ LabelOne(r)  BY <1>4, StepAt, StepTo DEF Decided
        <5> QED BY <1>4, <2>2, <5>2, <5>3, <5>4 DEF Step
      <4>3. CASE Load(r) \/ Store(r)
        <5>1. pc[r] \in {"tally", "tallying"}  BY <1>4, <4>3, StepAt, StepTo
        <5> QED BY <5>1 DEF Decided
      <4>4. CASE ~ (Load(r) \/ Store(r))  BY <4>2, <4>4, StepAt DEF Decided
      <4> QED BY <4>3, <4>4
    <3>2. pc[r] \notin {"evaluate", "score"}  BY <3>1 DEF Decided
    <3>3. cand[r].detector \in Nudging /\ cand[r].action = "nudge"
      BY <1>4, <3>1, <3>2, CandMoves DEF Plain
    <3>4. cand'[r] = cand[r]
      <4>1. CASE Withhold(r) \/ Intervene(r)
        <5>1. cand[r] \in VerdictSet  BY DEF Typed, TypeOK, ThreadsTyped
        <5>2. Controlled(cand[r], Agent(r)) = cand[r]
          BY <3>3, <5>1, TierZeroKept DEF Nudging
        <5> QED BY <1>4, <3>2, <4>1, <5>2, CandMoves
      <4>2. CASE Admit(r)
        <5>1. pc'[r] # "suppress"  BY <1>4
        <5> QED BY <1>4, <3>2, <4>2, <5>1, CandMoves
      <4>3. CASE ~ (Withhold(r) \/ Intervene(r) \/ Admit(r))  BY <1>4, <2>2, <4>3, StepKeeps
      <4> QED BY <4>1, <4>2, <4>3
    <3> QED BY <3>3, <3>4
  <2> QED BY <2>1, <2>2
<1>5. ASSUME NEW r \in Requests, Step(r) PROVE Plain'
  <2>1. \A q \in Requests \ {r} : pc'[q] = pc[q] /\ cand'[q] = cand[q]
    BY <1>5, StepMoves, CandMoves
  <2> QED BY <1>4, <1>5, <2>1 DEF Plain
<1> QED BY <1>1, <1>2, <1>3, <1>5 DEF Next

\* A nudge that is past its stamp after a step was so before, unless it stamps.
LEMMA StampedBefore ==
  ASSUME Typed, Sound, Honest, Base, Plain, NEW r \in Requests, Step(r), ~ Stamp(r),
         NEW q \in Requests, NEW d \in Nudging, Stamped(q, d)'
  PROVE  Stamped(q, d)
<1>1. /\ req' = req /\ era' = era /\ pc[r] \notin Idle
      /\ \A p \in Requests \ {r} : pc'[p] = pc[p] /\ cand'[p] = cand[p]
  BY StepMoves, CandMoves
<1>2. CASE q # r  BY <1>1, <1>2 DEF Stamped
<1>3. CASE q = r
  <2>1. pc'[r] \in Settled \cup {"control", "done", "lost"} /\ cand'[r].detector = d
        /\ cand'[r].action = "nudge" /\ req[r].era = era
    BY <1>1, <1>3 DEF Stamped
  <2>2. CASE pc[r] \in Settled \cup {"control"}
    <3>1. cand[r].detector = d  BY <2>1, <2>2, CandMoves
    <3>2. cand[r].action = "nudge"  BY <2>2, <3>1 DEF Plain, Decided
    <3> QED BY <1>3, <2>1, <2>2, <3>1, <3>2 DEF Stamped
  <2>3. CASE pc[r] \notin Settled \cup {"control"}
    <3>1. CASE DrainParked(r) \/ Header(r) \/ NoDrift(r)
      <4>1. pc[r] \in {"drain", "header", "evaluate"}  BY <3>1, StepAt
      <4>2. cand[r] = NoVerdict  BY <4>1 DEF Base, Blank, Blanks
      <4>3. cand' = cand  BY <3>1 DEF DrainParked, Header, NoDrift
      <4> QED BY <2>1, <4>2, <4>3 DEF NoVerdict, Verdict
    <3>2. CASE Admit(r)
      <4>1. pc[r] = "admit" /\ pc'[r] = "control" /\ cand'[r] = cand[r]
        BY <2>1, <3>2, StepAt, StepTo, CandMoves
      <4> QED BY <2>1, <3>2, <4>1 DEF Admit, Goto, Typed, TypeOK, ThreadsTyped
    <3>3. CASE Store(r) \/ Load(r)
      <4>1. pc[r] \in {"suppress", "suppressing"}  BY <2>3, <3>3, StepAt
      <4>2. pc'[r] \in Silencing  BY <3>3, <4>1, StepAt, StepTo
      <4> QED BY <2>1, <4>2
    <3>4. CASE Silence(r)
      <4>1. pc[r] = "silent" /\ cand'[r] = cand[r]  BY <3>4, StepAt, CandMoves
      <4> QED BY <2>1, <4>1 DEF Sound, Ready, Hushed
    <3>5. CASE ~ (DrainParked(r) \/ Header(r) \/ NoDrift(r) \/ Admit(r) \/ Store(r) \/ Load(r) \/ Silence(r))
      <4>1. AfterSnapshot(req[r].kind) \notin Settled \cup {"control", "done", "lost"}  BY DEF AfterSnapshot
      <4>2. CASE \/ Snapshot(r) \/ Finalize(r) \/ LabelOne(r) \/ LabelDone(r) \/ Forget(r)
                 \/ DrainEmpty(r) \/ NoHeader(r)
        BY <2>1, <4>1, <4>2, StepAt, StepTo
      <4>3. CASE Detect(r) \/ WakeJudge(r) \/ Judge(r) \/ FeedOne(r) \/ FeedDone(r) \/ Empty(r)
        BY <2>1, <4>3, StepAt, StepTo
      <4>4. ~ (Withhold(r) \/ Intervene(r) \/ Confirm(r) \/ Enqueue(r) \/ Record(r) \/ Park(r))
        BY <2>3, StepAt
      <4> QED BY <3>5, <4>2, <4>3, <4>4 DEF Step
    <3> QED BY <3>1, <3>2, <3>3, <3>4, <3>5
  <2> QED BY <2>2, <2>3
<1> QED BY <1>2, <1>3

\* Whoever restarts the clock of an undisturbed nudge came after it.
LEMMA ClockedStep ==
  ASSUME Typed, Sound, Hysteresis, Base, Plain, Clocked, SpacedOut, NEW r \in Requests, Step(r), [Next]_vars
  PROVE  Clocked'
<1>1. req' = req /\ era' = era  BY StepMoves
<1> SUFFICES ASSUME NEW q \in Requests, NEW s \in Sessions, NEW d \in Nudging,
                    Stamped(q, d)', Undisturbed(q)', s = SessionOf(q)'
             PROVE  lastNudge'[s][d] >= req'[q].ts
  BY DEF Clocked
<1>2. Undisturbed(q) /\ s = SessionOf(q)  BY <1>1, UndisturbedKept DEF SessionOf
<1>3. req[q].ts \in Nat
  <2>1. req[q].ts \in Times \cup {0}  BY DEF Typed, TypeOK, ThreadsTyped
  <2> QED BY <2>1, EngineAssumption
<1>4. CASE ~ Stamp(r)
  <2>1. Stamped(q, d)  BY <1>4, StampedBefore DEF Hysteresis
  <2>2. lastNudge' = lastNudge  BY <1>4, StepKeeps
  <2> QED BY <1>1, <1>2, <2>1, <2>2 DEF Clocked
<1>5. CASE Stamp(r)
  <2>1. /\ pc[r] = "stamp" /\ cand' = cand /\ pc[r] \notin Idle
        /\ lastNudge' = [lastNudge EXCEPT ![SessionOf(r)][cand[r].detector] = req[r].ts]
        /\ \A p \in Requests \ {r} : pc'[p] = pc[p]
    BY <1>5, StepMoves DEF Stamp, Goto, Idle
  <2>2. PICK z \in Sessions : z = SessionOf(r)  BY <2>1 DEF Typed, Located
  <2>3. d \in TierZero \cup {"judge"}  BY DEF Nudging
  <2>4. \/ lastNudge'[s][d] = lastNudge[s][d] /\ (s # z \/ cand[r].detector # d)
        \/ lastNudge'[s][d] = req[r].ts /\ s = z /\ cand[r].detector = d
    BY <2>1, <2>2, <2>3 DEF Typed, TypeOK, SessionsTyped
  <2>5. CASE q = r
    <3>1. s = z /\ cand[r].detector = d  BY <1>2, <2>1, <2>2, <2>5 DEF Stamped
    <3> QED BY <1>1, <1>3, <2>4, <2>5, <3>1
  <2>6. CASE q # r
    <3>1. Stamped(q, d)  BY <1>1, <2>1, <2>6 DEF Stamped
    <3>2. CASE lastNudge'[s][d] = lastNudge[s][d]  BY <1>1, <1>2, <3>1, <3>2 DEF Clocked
    <3>3. CASE lastNudge'[s][d] = req[r].ts /\ s = z /\ cand[r].detector = d
      <4>1. q \in req[r].past
        <5>1. ~ Overlapped(r, q)  BY <1>2 DEF Undisturbed
        <5>2. pc[q] # "unsent" /\ req[q].kind # "poll"
          <6>1. cand[q] # NoVerdict  BY <3>1 DEF Stamped, NoVerdict, Verdict
          <6> QED BY <6>1 DEF Base, Blank, Blanks
        <5> QED BY <1>2, <2>1, <2>2, <2>6, <3>3, <5>1, <5>2, CameBefore
      <4>2. cand[r].action = "nudge"  BY <2>1 DEF Hysteresis
      <4>3. Apart(q, r)  BY <1>2, <2>1, <3>1, <3>3, <4>1, <4>2 DEF SpacedOut, Timed
      <4>4. req[r].ts \in Nat /\ Cooldown \in Nat
        <5>1. req[r].ts \in Times \cup {0}  BY DEF Typed, TypeOK, ThreadsTyped
        <5> QED BY <5>1, EngineAssumption
      <4> QED BY <1>1, <1>3, <3>3, <4>3, <4>4 DEF Apart
    <3> QED BY <2>4, <3>2, <3>3
  <2> QED BY <2>5, <2>6
<1> QED BY <1>4, <1>5

\* Whoever is admitted after an undisturbed nudge is a cooldown later.
LEMMA SpacedOutStep ==
  ASSUME Typed, Sound, Hysteresis, Base, Plain, Clocked, SpacedOut, NEW r \in Requests, Step(r), [Next]_vars
  PROVE  SpacedOut'
<1>1. /\ req' = req /\ era' = era
      /\ \A p \in Requests \ {r} : pc'[p] = pc[p] /\ cand'[p] = cand[p]
  BY StepMoves, CandMoves
<1> SUFFICES ASSUME NEW q \in Requests, NEW p \in Requests, NEW d \in Nudging,
                    q \in req'[p].past, Stamped(q, d)', Undisturbed(q)',
                    pc'[p] \in Timed, cand'[p].detector = d, cand'[p].action = "nudge"
             PROVE  Apart(q, p)'
  BY DEF SpacedOut
<1>2. /\ q \in req[p].past /\ Undisturbed(q)
      /\ pc[q] \in {"done", "lost"} /\ SessionOf(q) = SessionOf(p) /\ q # r
  <2>1. q \in req[p].past  BY <1>1
  <2>2. pc[q] \in {"done", "lost"} /\ SessionOf(q) = SessionOf(p)  BY <2>1 DEF Base, PastOver
  <2>3. pc[r] \notin Idle  BY StepMoves
  <2> QED BY <2>1, <2>2, <2>3, UndisturbedKept DEF Idle
<1>3. Stamped(q, d)  BY <1>1, <1>2 DEF Stamped
<1>4. Apart(q, p) => Apart(q, p)'  BY <1>1 DEF Apart
<1>5. CASE p # r  BY <1>1, <1>2, <1>3, <1>4, <1>5 DEF SpacedOut
<1>6. CASE p = r
  <2>1. CASE Admit(r)
    <3>1. /\ pc[r] = "admit" /\ pc'[r] # "suppress" /\ cand'[r] = cand[r]
      BY <1>6, <2>1, StepAt, CandMoves DEF Timed
    <3>2. ~ InCooldown(r)
      BY <1>6, <2>1, <3>1 DEF Admit, Goto, Typed, TypeOK, ThreadsTyped
    <3>3. PICK s \in Sessions : s = SessionOf(r)  BY <3>1 DEF Typed, Located
    <3>4. lastNudge[s][d] >= req[q].ts  BY <1>2, <1>3, <1>6, <3>3 DEF Clocked
    <3>5. /\ req[q].ts \in Nat /\ req[r].ts \in Nat /\ Cooldown \in Nat
          /\ lastNudge[s][d] \in Nat \cup {Never}
      <4>1. req[q].ts \in Times \cup {0} /\ req[r].ts \in Times \cup {0}
        BY DEF Typed, TypeOK, ThreadsTyped
      <4>2. lastNudge[s][d] \in Times \cup {0, Never}
        <5>1. lastNudge \in [Sessions -> [TierZero \cup {"judge"} -> Times \cup {0, Never}]]
          BY DEF Typed, TypeOK, SessionsTyped
        <5>2. d \in TierZero \cup {"judge"}  BY DEF Nudging
        <5> QED BY <5>1, <5>2
      <4> QED BY <4>1, <4>2, EngineAssumption
    <3>6. lastNudge[s][d] # Never  BY <3>4, <3>5 DEF Never
    <3>7. req[r].ts - lastNudge[s][d] >= Cooldown
      BY <1>6, <3>1, <3>2, <3>3, <3>5, <3>6 DEF InCooldown
    <3> QED BY <1>1, <1>6, <3>4, <3>5, <3>6, <3>7 DEF Apart
  <2>2. CASE ~ Admit(r)
    <3>1. pc[r] \in Timed
      <4>1. AfterSnapshot(req[r].kind) \notin Timed  BY DEF AfterSnapshot, Timed
      <4>2. ~ (Snapshot(r) \/ Finalize(r) \/ LabelOne(r) \/ LabelDone(r) \/ Forget(r) \/ DrainParked(r) \/ DrainEmpty(r))
        BY <1>6, <4>1, StepAt, StepTo DEF Timed
      <4>3. ~ (Header(r) \/ NoHeader(r) \/ Detect(r) \/ NoDrift(r) \/ WakeJudge(r) \/ Judge(r))
        BY <1>6, StepTo DEF Timed
      <4>4. ~ (FeedOne(r) \/ FeedDone(r) \/ Empty(r) \/ Silence(r) \/ Withhold(r))
        BY <1>6, StepAt, StepTo DEF Timed
      <4>5. CASE Stamp(r) \/ Intervene(r) \/ Confirm(r) \/ Enqueue(r) \/ Record(r) \/ Park(r)
        BY <4>5, StepAt DEF Timed
      <4>6. CASE Load(r) \/ Store(r)
        <5>1. pc[r] \in {"tally", "tallying"}  BY <1>6, <4>6, StepAt, StepTo DEF Timed
        <5> QED BY <5>1 DEF Timed
      <4> QED BY <2>2, <4>2, <4>3, <4>4, <4>5, <4>6 DEF Step
    <3>2. cand[r].detector = d  BY <1>6, <3>1, CandMoves DEF Timed
    <3>3. cand[r].action = "nudge"  BY <3>1, <3>2 DEF Plain, Decided, Timed
    <3> QED BY <1>2, <1>3, <1>4, <1>6, <3>1, <3>2, <3>3 DEF SpacedOut
  <2> QED BY <2>1, <2>2
<1> QED BY <1>5, <1>6

\* A line that joins the ledger is spaced from those before it.
LEMMA LinesSpaced ==
  ASSUME Typed, Sound, Hysteresis, Base, Carried, Plain, SpacedOut, TierZeroNudgesSpaced,
         NEW r \in Requests, Step(r), [Next]_vars
  PROVE  TierZeroNudgesSpaced'
<1>1. req' = req /\ era' = era /\ pc[r] \notin Idle  BY StepMoves
<1> SUFFICES ASSUME NEW u \in ledger', NEW v \in ledger',
                    u.by \in req'[v.by].past, Undisturbed(u.by)', req'[u.by].era = req'[v.by].era,
                    u.detector = v.detector, u.detector \in Nudging,
                    u.action = "nudge", v.action = "nudge"
             PROVE  req'[v.by].ts - req'[u.by].ts >= Cooldown
  BY DEF TierZeroNudgesSpaced, Nudging
<1>2. ASSUME NEW x \in ledger', x \notin ledger, x.detector \in Nudging, x.action = "nudge"
      PROVE  Record(r) /\ x = cand[r] /\ x.by = r
  <2>1. x # Verdict("nudge", "rulebook", 99, "promoted", r)  BY <1>2 DEF Verdict, Nudging, TierZero
  <2>2. \/ Silence(r) /\ x = cand[r]
        \/ Record(r) /\ x = cand[r]
    BY <1>2, <2>1, LinesAdded
  <2>3. ~ Silence(r) \/ x # cand[r]  BY <1>2, StepAt DEF Sound, Ready, Hushed
  <2> QED BY <2>2, <2>3, StepAt DEF Sound, Authored, Decided
<1>3. u.by \in Requests /\ v.by \in Requests
  BY <1>2, LinesWritten DEF Typed
<1>4. /\ u.by \in req[v.by].past /\ Undisturbed(u.by) /\ req[u.by].era = req[v.by].era
      /\ pc[u.by] \in {"done", "lost"}
  BY <1>1, <1>3, UndisturbedKept DEF Base, PastOver
<1>5. u \in ledger  BY <1>1, <1>2, <1>4 DEF Idle
<1>6. CASE v \in ledger
  BY <1>1, <1>4, <1>5, <1>6 DEF TierZeroNudgesSpaced, Nudging
<1>7. CASE v \notin ledger
  <2>1. Record(r) /\ v = cand[r] /\ v.by = r /\ pc[r] = "record"  BY <1>2, <1>7, StepAt
  <2>2. req[r].era = era  BY <1>1 DEF Base, Current
  <2>3. cand[u.by] = u  BY <1>5 DEF Carried, Nudging, TierZero
  <2>4. Stamped(u.by, u.detector)  BY <1>4, <2>1, <2>2, <2>3 DEF Stamped
  <2>5. Apart(u.by, r)  BY <1>3, <1>4, <2>1, <2>4 DEF SpacedOut, Timed
  <2> QED BY <1>1, <2>1, <2>5 DEF Apart
<1> QED BY <1>6, <1>7

\* Every step keeps nudges apart.
LEMMA SpacingStep == Typed /\ Sound /\ Hysteresis /\ Base /\ Spacing /\ [Next]_vars => Spacing'
<1> SUFFICES ASSUME Typed, Sound, Hysteresis, Base, Carried, Plain, Clocked, SpacedOut,
                    TierZeroNudgesSpaced, [Next]_vars
             PROVE  Clocked' /\ SpacedOut' /\ TierZeroNudgesSpaced'
  BY CarriedStep, PlainStep DEF Spacing
<1>1. CASE UNCHANGED vars
  BY <1>1 DEF vars, threadVars, sessionVars, Clocked, SpacedOut, Stamped, Apart, TierZeroNudgesSpaced,
              Undisturbed, Overlapped, Hook, SessionOf
<1>2. ASSUME ledger' = ledger PROVE TierZeroNudgesSpaced'
  <2> SUFFICES ASSUME NEW u \in ledger, NEW v \in ledger,
                      u.by \in req'[v.by].past, Undisturbed(u.by)', req'[u.by].era = req'[v.by].era,
                      u.detector = v.detector, u.detector \in Nudging,
                      u.action = "nudge", v.action = "nudge"
               PROVE  req'[v.by].ts - req'[u.by].ts >= Cooldown
    BY <1>2 DEF TierZeroNudgesSpaced, Nudging
  <2>1. /\ u.by \in Requests /\ v.by \in Requests /\ pc[u.by] # "unsent" /\ pc[v.by] # "unsent"
    BY LinesWritten
  <2>2. req'[u.by] = req[u.by] /\ req'[v.by] = req[v.by] /\ Undisturbed(u.by)
    BY <2>1, AcceptedKept, UndisturbedKept
  <2> QED BY <2>2 DEF TierZeroNudgesSpaced, Nudging
<1>3. CASE Restart
  <2>1. /\ req' = req /\ era' = era + 1 /\ ledger' = ledger /\ \A r \in Requests : pc'[r] \in Idle
    BY <1>3 DEF Restart, Idle
  <2>2. \A r \in Requests : req'[r].era # era'
    BY <2>1, EngineAssumption DEF Base, Current, Typed, TypeOK, ThreadsTyped
  <2>3. Clocked' /\ SpacedOut'  BY <2>2 DEF Clocked, SpacedOut, Stamped
  <2> QED BY <1>2, <2>1, <2>3
<1>4. ASSUME NEW r \in Requests, Arrive(r) PROVE Clocked' /\ SpacedOut' /\ TierZeroNudgesSpaced'
  <2>1. /\ pc[r] = "unsent" /\ pc'[r] \notin Timed
        /\ UNCHANGED <<cand, lastNudge, ledger, era>>
        /\ \A q \in Requests \ {r} : pc'[q] = pc[q] /\ req'[q] = req[q]
    BY <1>4, ArriveMoves DEF sessionVars, Timed
  <2>2. cand[r].action # "nudge"  BY <2>1 DEF Base, Blank, Blanks, NoVerdict, Verdict
  <2>3. \A q \in Requests, d \in Nudging : Stamped(q, d)' => q # r /\ Stamped(q, d)
    BY <2>1, <2>2 DEF Stamped
  <2>4. Clocked'  BY <2>1, <2>3, UndisturbedKept DEF Clocked, SessionOf
  <2>5. SpacedOut'
    <3> SUFFICES ASSUME NEW q \in Requests, NEW p \in Requests, NEW d \in Nudging,
                        q \in req'[p].past, Stamped(q, d)', Undisturbed(q)',
                        pc'[p] \in Timed, cand'[p].detector = d, cand'[p].action = "nudge"
                 PROVE  Apart(q, p)'
      BY DEF SpacedOut
    <3>1. p # r /\ q # r  BY <2>1, <2>3
    <3>2. Apart(q, p)  BY <2>1, <2>3, <3>1, UndisturbedKept DEF SpacedOut
    <3> QED BY <2>1, <3>1, <3>2 DEF Apart
  <2> QED BY <1>2, <2>1, <2>4, <2>5
<1>5. ASSUME NEW r \in Requests, Step(r) PROVE Clocked' /\ SpacedOut' /\ TierZeroNudgesSpaced'
  BY <1>5, ClockedStep, SpacedOutStep, LinesSpaced
<1> QED BY <1>1, <1>3, <1>4, <1>5 DEF Next

(* _admit, _cooled: a Tier 0 nudge that no other hook of its session overlapped is
   followed by no nudge of the same detector within the cooldown, for any number of
   threads, and however those that came after it race with each other.        *)
THEOREM NudgesSpaced == Spec => []TierZeroNudgesSpaced
<1> DEFINE IInv == Typed /\ Sound /\ Hysteresis /\ Base /\ Spacing
<1>1. Init => Spacing
  <2> SUFFICES ASSUME Init PROVE Spacing  OBVIOUS
  <2>1. ledger = {} /\ \A r \in Requests : pc[r] = "unsent"  BY DEF Init
  <2> QED BY <2>1 DEF Spacing, Carried, Plain, Decided, Clocked, Stamped, SpacedOut, Timed,
                      TierZeroNudgesSpaced
<1>2. Init => IInv  BY <1>1, InitTyped, InitSound, HysteresisInit, BaseInit
<1>3. IInv /\ [Next]_vars => IInv'
  BY NextTyped, NextSound, HysteresisStep, BaseStep, SpacingStep
<1>4. IInv => TierZeroNudgesSpaced  BY DEF Spacing
<1> QED BY <1>2, <1>3, <1>4, PTL DEF Spec

-----------------------------------------------------------------------------
(* Scores become labels once.                                                *)

Judged == Decided \cup {"done", "lost"}

(* The list of a session holds the scores of its own reviews, each once; what was
   labelled is of a review of the session of its STOP, and while it is still in
   the list that STOP is there too and past it; a STOP leaves no score of its past
   behind unlabelled.                                                         *)
ScoresOwned ==
  \A s \in Sessions : \A i \in 1..Len(scores[s]) :
    LET r == scores[s][i] IN
    /\ r \in Requests /\ SessionOf(r) = s /\ pc[r] \in Judged
    /\ \A j \in 1..Len(scores[s]) : scores[s][j] = r => j = i
LabelsOwned ==
  \A l \in labelled :
    /\ pc[l.score] \in Judged /\ pc[l.stop] # "unsent"
    /\ SessionOf(l.stop) = SessionOf(l.score) /\ SessionOf(l.score) \in Sessions
ScoresHeld ==
  \A l \in labelled, s \in Sessions : \A i \in 1..Len(scores[s]) :
    scores[s][i] = l.score => \/ pc[l.stop] = "label" /\ at[l.stop] > i
                              \/ pc[l.stop] = "forget"
Fed(r) == \E l \in labelled : l.score = r
PastFed ==
  \A q \in Requests, s \in Sessions : \A i \in 1..Len(scores[s]) :
    s = SessionOf(q) /\ scores[s][i] \in req[q].past
      /\ ((pc[q] = "label" /\ i < at[q]) \/ pc[q] = "forget")
      => Fed(scores[s][i])
Scoring == ScoresOwned /\ LabelsOwned /\ ScoresHeld /\ PastFed /\ ScoresLabelledOnce

\* What the list of a session and the labels are.
LEMMA ScoringTyped ==
  ASSUME Typed
  PROVE  /\ \A s \in Sessions : scores[s] \in Seq(Requests) /\ Len(scores[s]) \in Nat
         /\ labelled \subseteq [score: Requests, stop: Requests]
         /\ \A l \in labelled : l.score \in Requests /\ l.stop \in Requests
         /\ \A r \in Requests : at[r] \in Nat /\ at[r] >= 1
         /\ \A r \in Requests : req[r].past \subseteq Requests
BY DEF Typed, TypeOK, ThreadsTyped, SessionsTyped, SharedTyped

\* A thread that is past the judge stays so.
LEMMA JudgedKept ==
  ASSUME Typed, [Next]_vars, NEW r \in Requests, pc[r] \in Judged
  PROVE  pc'[r] \in Judged
<1>1. pc \in [Requests -> Points]  BY DEF Typed, TypeOK, ThreadsTyped
<1>2. CASE UNCHANGED vars  BY <1>2 DEF vars, threadVars
<1>3. CASE Restart  BY <1>1, <1>3 DEF Restart, Idle, Judged
<1>4. ASSUME NEW q \in Requests, Arrive(q) PROVE pc'[r] \in Judged
  BY <1>4, ArriveMoves DEF Judged, Decided
<1>5. ASSUME NEW q \in Requests, Step(q) PROVE pc'[r] \in Judged
  <2>1. CASE q # r  BY <1>5, <2>1, StepMoves
  <2>2. CASE q = r
    <3>1. pc[r] \in Decided  BY <1>5, <2>2, StepMoves DEF Judged, Idle
    <3>2. AfterTally(r) \in Decided  BY DEF AfterTally, Decided
    <3>3. \/ FeedOne(r) \/ FeedDone(r) \/ Empty(r) \/ Admit(r) \/ Stamp(r) \/ Load(r) \/ Store(r)
          \/ Silence(r) \/ Withhold(r) \/ Intervene(r) \/ Confirm(r) \/ Enqueue(r) \/ Record(r) \/ Park(r)
      BY <1>5, <2>2, <3>1, StepAt DEF Step, Decided
    <3>4. CASE FeedOne(r) \/ FeedDone(r) \/ Empty(r) \/ Admit(r) \/ Stamp(r) \/ Load(r) \/ Store(r)
      BY <3>1, <3>2, <3>4, StepTo DEF Judged, Decided
    <3>5. CASE \/ Silence(r) \/ Withhold(r) \/ Intervene(r) \/ Confirm(r) \/ Enqueue(r) \/ Record(r)
               \/ Park(r)
      BY <3>5, StepTo DEF Judged, Decided
    <3> QED BY <3>3, <3>4, <3>5
  <2> QED BY <2>1, <2>2
<1> QED BY <1>2, <1>3, <1>4, <1>5 DEF Next

\* Who is past the judge is a hook.
LEMMA JudgedHook ==
  ASSUME Typed, Base, NEW r \in Requests, cand[r].detector = "judge"
  PROVE  pc[r] \in Judged /\ req[r].kind # "poll" /\ pc[r] # "unsent"
<1>1. cand[r] # NoVerdict /\ pc[r] \in Points
  BY DEF NoVerdict, Verdict, Typed, TypeOK, ThreadsTyped
<1>2. pc[r] \notin Blanks /\ req[r].kind # "poll"  BY <1>1 DEF Base, Blank
<1> QED BY <1>1, <1>2 DEF Points, Idle, Blanks, Judged, Decided

\* Two labels of one score stay excused, ...
LEMMA PairsKept ==
  ASSUME Typed, [Next]_vars, ScoresLabelledOnce,
         NEW l \in labelled, NEW m \in labelled, l.score = m.score, l # m
  PROVE  Overlapped(l.stop, m.stop)'
BY ScoringTyped, OverlapKept DEF ScoresLabelledOnce

\* ... and a score of this incarnation was labelled, is waiting, or is excused.
LEMMA ScoreAccounted ==
  ASSUME Typed, Base, [Next]_vars, ScoresLabelledOnce,
         NEW r \in Requests, cand[r].detector = "judge", req'[r].era = era
  PROVE  /\ SessionOf(r)' = SessionOf(r) /\ SessionOf(r) \in Sessions
         /\ \/ Fed(r)
            \/ \E i \in 1..Len(scores[SessionOf(r)]) : scores[SessionOf(r)][i] = r
            \/ \E q \in Requests : req'[q].kind = "stop" /\ Overlapped(q, r)'
<1>1. pc[r] # "unsent"  BY JudgedHook
<1>2. SessionOf(r)' = SessionOf(r) /\ req[r].era = era  BY <1>1, AcceptedKept
<1>3. ASSUME NEW q \in Requests, req[q].kind = "stop", Overlapped(q, r)
      PROVE  req'[q].kind = "stop" /\ Overlapped(q, r)'
  <2>1. pc[q] # "unsent"  BY <1>3 DEF Overlapped, Hook
  <2> QED BY <1>3, <2>1, OverlapKept, AcceptedKept
<1>4. SessionOf(r) \in Sessions  BY <1>1 DEF Typed, Located
<1> QED BY <1>2, <1>3, <1>4 DEF ScoresLabelledOnce, Fed

\* A step that makes no score and no label, and moves no STOP but to its loop.
LEMMA ScoringElsewhere ==
  ASSUME Typed, Base, Scoring, [Next]_vars, UNCHANGED <<labelled, scores, era>>,
         \A r \in Requests : cand[r].detector = "judge" \/ cand'[r].detector = "judge" =>
           cand'[r].detector = cand[r].detector,
         \A q \in Requests : pc'[q] \in {"label", "forget"} =>
           /\ req'[q] = req[q]
           /\ \/ pc'[q] = pc[q] /\ at'[q] = at[q]
              \/ pc'[q] = "label" /\ at'[q] = 1
              \/ pc'[q] = "forget" /\ pc[q] = "label" /\ at[q] > Len(scores[SessionOf(q)]),
         \A q \in Requests : pc[q] \in {"label", "forget"} =>
           \/ pc'[q] = pc[q] /\ at'[q] = at[q]
           \/ pc[q] = "label" /\ pc'[q] = "forget"
  PROVE  Scoring'
<1>1. \A r \in Requests : pc[r] \in Judged =>
        pc'[r] \in Judged /\ SessionOf(r)' = SessionOf(r)
  BY JudgedKept, AcceptedKept DEF Judged, Decided
<1>2. ScoresOwned'  BY <1>1 DEF Scoring, ScoresOwned
<1>3. LabelsOwned'
  BY <1>1, ScoringTyped, AcceptedKept DEF Scoring, LabelsOwned
<1>4. ScoresHeld'  BY ScoringTyped DEF Scoring, ScoresHeld
<1>5. PastFed'
  <2> SUFFICES ASSUME NEW q \in Requests, NEW s \in Sessions, NEW i \in 1..Len(scores[s]),
                      s = SessionOf(q)', scores[s][i] \in req'[q].past,
                      (pc'[q] = "label" /\ i < at'[q]) \/ pc'[q] = "forget"
               PROVE  Fed(scores[s][i])
    BY DEF PastFed, Fed
  <2>1. req'[q] = req[q] /\ s = SessionOf(q)  BY DEF SessionOf
  <2>2. i >= 1 /\ i <= Len(scores[s]) /\ at[q] \in Nat /\ i \in Nat /\ Len(scores[s]) \in Nat
    BY ScoringTyped
  <2>3. CASE pc'[q] = pc[q] /\ at'[q] = at[q]  BY <2>1, <2>3 DEF Scoring, PastFed
  <2>4. CASE pc'[q] = "label" /\ at'[q] = 1  BY <2>2, <2>4
  <2>5. CASE pc'[q] = "forget" /\ pc[q] = "label" /\ at[q] > Len(scores[SessionOf(q)])
    BY <2>1, <2>2, <2>5 DEF Scoring, PastFed
  <2> QED BY <2>3, <2>4, <2>5
<1>6. ScoresLabelledOnce'
  <2>1. ASSUME NEW l \in labelled, NEW m \in labelled, l.score = m.score, l # m
        PROVE  Overlapped(l.stop, m.stop)'
    BY <2>1, PairsKept DEF Scoring
  <2>2. ASSUME NEW r \in Requests, cand'[r].detector = "judge", req'[r].era = era
        PROVE  \/ Fed(r)
               \/ \E i \in 1..Len(scores[SessionOf(r)']) : scores[SessionOf(r)'][i] = r
               \/ \E q \in Requests : req'[q].kind = "stop" /\ Overlapped(q, r)'
    BY <2>2, ScoreAccounted DEF Scoring
  <2> QED BY <2>1, <2>2 DEF ScoresLabelledOnce, Fed
<1> QED BY <1>2, <1>3, <1>4, <1>5, <1>6 DEF Scoring

\* A thread moves its own index only.
LEMMA AtMoves ==
  ASSUME Typed, NEW r \in Requests, Step(r)
  PROVE  \A q \in Requests \ {r} : at'[q] = at[q]
<1>1. at \in [Requests -> Nat \ {0}]  BY DEF Typed, TypeOK, ThreadsTyped
<1>2. CASE Finalize(r) \/ LabelOne(r) \/ FeedOne(r)
  BY <1>1, <1>2 DEF Finalize, LabelOne, FeedOne
<1>3. CASE Judge(r)
  BY <1>1, <1>3 DEF Judge, JudgeAnswers, JudgeGarbled, JudgeOutage, Scored
<1>4. CASE \/ Snapshot(r) \/ LabelDone(r) \/ Forget(r) \/ DrainParked(r) \/ DrainEmpty(r) \/ Header(r)
           \/ NoHeader(r) \/ Detect(r) \/ NoDrift(r) \/ WakeJudge(r)
  BY <1>4 DEF Snapshot, LabelDone, Forget, DrainParked, DrainEmpty, Header, NoHeader, Detect, NoDrift,
              WakeJudge
<1>5. CASE \/ FeedDone(r) \/ Empty(r) \/ Admit(r) \/ Stamp(r) \/ Load(r) \/ Store(r) \/ Silence(r)
  BY <1>5 DEF FeedDone, Empty, Admit, Stamp, Load, Store, Silence
<1>6. CASE \/ Withhold(r) \/ Intervene(r) \/ Confirm(r) \/ Enqueue(r) \/ Record(r) \/ Park(r)
  BY <1>6 DEF Withhold, Intervene, Confirm, Enqueue, Record, Park
<1> QED BY <1>2, <1>3, <1>4, <1>5, <1>6 DEF Step

\* A STOP labels the next score of its session.
LEMMA LabelOneScoring ==
  ASSUME Typed, Base, Scoring, [Next]_vars, NEW r \in Requests, LabelOne(r)
  PROVE  Scoring'
<1>1. PICK s : s = SessionOf(r)  OBVIOUS
<1>2. PICK i : i = at[r]  OBVIOUS
<1>3. PICK x : x = scores[s][i]  OBVIOUS
<1>4. PICK n : n = [score |-> x, stop |-> r]  OBVIOUS
<1>5. n.score = x /\ n.stop = r  BY <1>4
<1>6. /\ pc[r] = "label" /\ pc' = pc /\ req' = req /\ era' = era /\ UNCHANGED <<cand, scores>>
      /\ i <= Len(scores[s]) /\ labelled' = labelled \cup {n}
      /\ at' = [at EXCEPT ![r] = @ + 1]
  BY <1>1, <1>2, <1>3, <1>4 DEF LabelOne, sessionVars
<1>7. s \in Sessions /\ i \in 1..Len(scores[s]) /\ i \in Nat
  BY <1>1, <1>2, <1>6, ScoringTyped DEF Typed, Located
<1>8. /\ x \in Requests /\ SessionOf(x) = s /\ pc[x] \in Judged
      /\ \A t \in Sessions : \A j \in 1..Len(scores[t]) : scores[t][j] = x => t = s /\ j = i
  BY <1>3, <1>7 DEF Scoring, ScoresOwned
<1>9. at'[r] = i + 1 /\ \A q \in Requests \ {r} : at'[q] = at[q]
  BY <1>2, <1>6 DEF Typed, TypeOK, ThreadsTyped
<1>10. ScoresOwned'  BY <1>6 DEF Scoring, ScoresOwned, SessionOf
<1>11. LabelsOwned'
  BY <1>1, <1>5, <1>6, <1>7, <1>8 DEF Scoring, LabelsOwned, SessionOf
<1>12. ScoresHeld'
  <2> SUFFICES ASSUME NEW l \in labelled', NEW t \in Sessions, NEW j \in 1..Len(scores[t]),
                      scores[t][j] = l.score
               PROVE  (pc[l.stop] = "label" /\ at'[l.stop] > j) \/ pc[l.stop] = "forget"
    BY <1>6 DEF ScoresHeld
  <2>1. j \in Nat  BY ScoringTyped
  <2>2. CASE l = n  BY <1>5, <1>6, <1>7, <1>8, <1>9, <2>2
  <2>3. CASE l \in labelled
    <3>1. (pc[l.stop] = "label" /\ at[l.stop] > j) \/ pc[l.stop] = "forget"
      BY <2>3 DEF Scoring, ScoresHeld
    <3>2. l.stop \in Requests /\ at[l.stop] \in Nat  BY <2>3, ScoringTyped
    <3> QED BY <1>2, <1>7, <1>9, <2>1, <3>1, <3>2
  <2> QED BY <1>6, <2>2, <2>3
<1>13. PastFed'
  <2> SUFFICES ASSUME NEW q \in Requests, NEW t \in Sessions, NEW j \in 1..Len(scores[t]),
                      t = SessionOf(q), scores[t][j] \in req[q].past,
                      (pc[q] = "label" /\ j < at'[q]) \/ pc[q] = "forget"
               PROVE  \E l \in labelled' : l.score = scores[t][j]
    BY <1>6 DEF PastFed, Fed, SessionOf
  <2>1. j \in Nat  BY ScoringTyped
  <2>2. CASE q = r /\ j = i  BY <1>1, <1>3, <1>5, <1>6, <2>2
  <2>3. CASE ~ (q = r /\ j = i)
    <3>1. (pc[q] = "label" /\ j < at[q]) \/ pc[q] = "forget"
      BY <1>2, <1>7, <1>9, <2>1, <2>3
    <3>2. Fed(scores[t][j])  BY <3>1 DEF Scoring, PastFed
    <3> QED BY <1>6, <3>2 DEF Fed
  <2> QED BY <2>2, <2>3
<1>14. ScoresLabelledOnce'
  <2>1. ASSUME NEW m \in labelled, m.score = x, m # n
        PROVE  Overlapped(m.stop, r)' /\ Overlapped(r, m.stop)'
    <3>1. m.stop # r
      <4>1. m = [score |-> m.score, stop |-> m.stop]  BY ScoringTyped
      <4> QED BY <1>4, <2>1, <4>1
    <3>2. pc[m.stop] \in {"label", "forget"}
      BY <1>3, <1>7, <2>1 DEF Scoring, ScoresHeld
    <3>3. m.stop \in Requests /\ SessionOf(m.stop) = s
      BY <1>8, <2>1, ScoringTyped DEF Scoring, LabelsOwned
    <3>4. Overlapped(m.stop, r) /\ Overlapped(r, m.stop)
      BY <1>1, <1>6, <3>1, <3>2, <3>3, TogetherOverlap DEF Idle
    <3> QED BY <3>3, <3>4, OverlapKept
  <2>2. ASSUME NEW l \in labelled', NEW m \in labelled', l.score = m.score, l # m
        PROVE  Overlapped(l.stop, m.stop)'
    <3>1. CASE l \in labelled /\ m \in labelled
      BY <2>2, <3>1, PairsKept DEF Scoring
    <3>2. CASE l = n /\ m \in labelled  BY <1>5, <2>1, <2>2, <3>2
    <3>3. CASE l \in labelled /\ m = n  BY <1>5, <2>1, <2>2, <3>3
    <3> QED BY <1>6, <2>2, <3>1, <3>2, <3>3
  <2>3. ASSUME NEW q \in Requests, cand[q].detector = "judge", req[q].era = era
        PROVE  \/ \E l \in labelled' : l.score = q
               \/ \E j \in 1..Len(scores[SessionOf(q)]) : scores[SessionOf(q)][j] = q
               \/ \E p \in Requests : req[p].kind = "stop" /\ Overlapped(p, q)'
    BY <1>6, <2>3, ScoreAccounted DEF Scoring, Fed
  <2>4. \A q \in Requests : SessionOf(q)' = SessionOf(q)  BY <1>6 DEF SessionOf
  <2> QED BY <1>6, <2>2, <2>3, <2>4 DEF ScoresLabelledOnce
<1> QED BY <1>10, <1>11, <1>12, <1>13, <1>14 DEF Scoring

\* What a review scored joins the list of its session.
LEMMA JudgeScoring ==
  ASSUME Typed, Base, Scoring, [Next]_vars, NEW r \in Requests, Judge(r)
  PROVE  Scoring'
<1>1. PICK s : s = SessionOf(r)  OBVIOUS
<1>2. PICK v : Scored(r, v)
  BY DEF Judge, JudgeAnswers, JudgeGarbled, JudgeOutage
<1>3. /\ pc[r] = "score" /\ req' = req /\ era' = era /\ labelled' = labelled
      /\ scores' = [scores EXCEPT ![s] = Append(@, r)]
  BY <1>1, <1>2 DEF Scored, Goto
<1>4. /\ pc'[r] = "feed"
      /\ \A q \in Requests \ {r} : pc'[q] = pc[q] /\ at'[q] = at[q] /\ cand'[q] = cand[q]
  BY <1>2 DEF Scored, Goto, Typed, TypeOK, ThreadsTyped
<1>5. s \in Sessions  BY <1>1, <1>3 DEF Typed, Located
<1>6. \A q \in Requests : SessionOf(q)' = SessionOf(q)  BY <1>3 DEF SessionOf
<1>7. PICK n \in Nat : n = Len(scores[s])  BY <1>5, ScoringTyped
<1>8. \A t \in Sessions \ {s} : scores'[t] = scores[t]
  BY <1>3, <1>5 DEF Typed, TypeOK, SessionsTyped
<1>9. /\ Len(scores'[s]) = n + 1 /\ scores'[s][n + 1] = r
      /\ \A i \in 1..n : scores'[s][i] = scores[s][i]
  <2>1. scores[s] \in Seq(Requests) /\ scores'[s] = Append(scores[s], r)
    BY <1>3, <1>5 DEF Typed, TypeOK, SessionsTyped
  <2> QED BY <1>7, <2>1
<1>10. \A t \in Sessions : \A i \in 1..Len(scores'[t]) :
         \/ i \in 1..Len(scores[t]) /\ scores'[t][i] = scores[t][i]
         \/ t = s /\ i = n + 1 /\ scores'[t][i] = r
  BY <1>7, <1>8, <1>9
<1>11. r \notin {q \in Requests : pc[q] \in Judged}  BY <1>3 DEF Judged, Decided
<1>12. ScoresOwned'
  <2> SUFFICES ASSUME NEW t \in Sessions, NEW i \in 1..Len(scores'[t])
               PROVE  /\ scores'[t][i] \in Requests /\ SessionOf(scores'[t][i]) = t
                      /\ pc'[scores'[t][i]] \in Judged
                      /\ \A j \in 1..Len(scores'[t]) : scores'[t][j] = scores'[t][i] => j = i
    BY <1>6 DEF ScoresOwned
  <2>1. CASE i \in 1..Len(scores[t]) /\ scores'[t][i] = scores[t][i]
    <3>1. /\ scores[t][i] \in Requests /\ SessionOf(scores[t][i]) = t /\ pc[scores[t][i]] \in Judged
          /\ \A j \in 1..Len(scores[t]) : scores[t][j] = scores[t][i] => j = i
      BY <2>1 DEF Scoring, ScoresOwned
    <3>2. scores[t][i] # r /\ pc'[scores[t][i]] \in Judged  BY <1>11, <3>1, JudgedKept
    <3>3. \A j \in 1..Len(scores'[t]) : scores'[t][j] = scores'[t][i] => j = i
      BY <1>10, <2>1, <3>1, <3>2
    <3> QED BY <2>1, <3>1, <3>2, <3>3
  <2>2. CASE t = s /\ i = n + 1 /\ scores'[t][i] = r
    <3>1. \A j \in 1..n : scores[s][j] # r  BY <1>5, <1>7, <1>11 DEF Scoring, ScoresOwned
    <3>2. \A j \in 1..Len(scores'[t]) : scores'[t][j] = scores'[t][i] => j = i
      BY <1>7, <1>10, <2>2, <3>1
    <3>3. pc'[r] \in Judged  BY <1>4 DEF Judged, Decided
    <3> QED BY <1>1, <2>2, <3>2, <3>3
  <2> QED BY <1>10, <2>1, <2>2
<1>13. LabelsOwned'
  BY <1>3, <1>6, JudgedKept, AcceptedKept, ScoringTyped DEF Scoring, LabelsOwned
<1>14. ScoresHeld'
  <2> SUFFICES ASSUME NEW l \in labelled, NEW t \in Sessions, NEW i \in 1..Len(scores'[t]),
                      scores'[t][i] = l.score
               PROVE  (pc'[l.stop] = "label" /\ at'[l.stop] > i) \/ pc'[l.stop] = "forget"
    BY <1>3 DEF ScoresHeld
  <2>1. l.score # r /\ l.stop \in Requests
    BY <1>11, ScoringTyped DEF Scoring, LabelsOwned
  <2>2. (pc[l.stop] = "label" /\ at[l.stop] > i) \/ pc[l.stop] = "forget"
    BY <1>10, <2>1 DEF Scoring, ScoresHeld
  <2> QED BY <1>3, <1>4, <2>1, <2>2
<1>15. PastFed'
  <2> SUFFICES ASSUME NEW q \in Requests, NEW t \in Sessions, NEW i \in 1..Len(scores'[t]),
                      t = SessionOf(q), scores'[t][i] \in req[q].past,
                      (pc'[q] = "label" /\ i < at'[q]) \/ pc'[q] = "forget"
               PROVE  Fed(scores'[t][i])
    BY <1>3, <1>6 DEF PastFed, Fed
  <2>1. scores'[t][i] # r  BY <1>3 DEF Base, PastOver
  <2>2. i \in 1..Len(scores[t]) /\ scores'[t][i] = scores[t][i]  BY <1>10, <2>1
  <2>3. (pc[q] = "label" /\ i < at[q]) \/ pc[q] = "forget"  BY <1>4
  <2> QED BY <2>2, <2>3 DEF Scoring, PastFed
<1>16. ScoresLabelledOnce'
  <2>1. ASSUME NEW l \in labelled, NEW m \in labelled, l.score = m.score, l # m
        PROVE  Overlapped(l.stop, m.stop)'
    BY <2>1, PairsKept DEF Scoring
  <2>2. ASSUME NEW q \in Requests, cand'[q].detector = "judge", req[q].era = era
        PROVE  \/ Fed(q)
               \/ \E i \in 1..Len(scores'[SessionOf(q)]) : scores'[SessionOf(q)][i] = q
               \/ \E p \in Requests : req[p].kind = "stop" /\ Overlapped(p, q)'
    <3>1. CASE q = r
      <4>1. n + 1 \in 1..Len(scores'[s])  BY <1>9
      <4> QED BY <1>1, <1>9, <3>1, <4>1
    <3>2. CASE q # r
      <4>1. /\ SessionOf(q) \in Sessions
            /\ \/ Fed(q)
               \/ \E i \in 1..Len(scores[SessionOf(q)]) : scores[SessionOf(q)][i] = q
               \/ \E p \in Requests : req[p].kind = "stop" /\ Overlapped(p, q)'
        BY <1>3, <1>4, <2>2, <3>2, ScoreAccounted DEF Scoring
      <4>2. \A t \in Sessions : \A i \in 1..Len(scores[t]) :
              i \in 1..Len(scores'[t]) /\ scores'[t][i] = scores[t][i]
        BY <1>7, <1>8, <1>9
      <4> QED BY <4>1, <4>2
    <3> QED BY <3>1, <3>2
  <2> QED BY <1>3, <1>6, <2>1, <2>2 DEF ScoresLabelledOnce, Fed
<1> QED BY <1>12, <1>13, <1>14, <1>15, <1>16 DEF Scoring

\* A STOP empties the list: what it drops was labelled, or scored under its eyes.
LEMMA ForgetScoring ==
  ASSUME Typed, Base, Scoring, [Next]_vars, NEW r \in Requests, Forget(r)
  PROVE  Scoring'
<1>1. PICK s : s = SessionOf(r)  OBVIOUS
<1>2. /\ pc[r] = "forget" /\ UNCHANGED <<req, era, labelled, cand, at>>
      /\ scores' = [scores EXCEPT ![s] = <<>>]
  BY <1>1 DEF Forget, Goto, sharedVars
<1>3. pc'[r] = "drain" /\ \A q \in Requests \ {r} : pc'[q] = pc[q]
  BY DEF Forget, Goto, Typed, TypeOK, ThreadsTyped
<1>4. s \in Sessions /\ req[r].kind = "stop"
  BY <1>1, <1>2 DEF Typed, Located, Base, AtStop
<1>5. \A q \in Requests : SessionOf(q)' = SessionOf(q)  BY <1>2 DEF SessionOf
<1>6. /\ Len(scores'[s]) = 0
      /\ \A t \in Sessions \ {s} : scores'[t] = scores[t]
  BY <1>2, <1>4 DEF Typed, TypeOK, SessionsTyped
<1>7. ASSUME NEW t \in Sessions, NEW i \in 1..Len(scores'[t])
      PROVE  t # s /\ scores'[t] = scores[t]
  BY <1>6
<1>8. ScoresOwned'  BY <1>5, <1>7, JudgedKept DEF Scoring, ScoresOwned
<1>9. LabelsOwned'
  BY <1>2, <1>5, JudgedKept, AcceptedKept, ScoringTyped DEF Scoring, LabelsOwned
<1>10. ScoresHeld'
  <2> SUFFICES ASSUME NEW l \in labelled, NEW t \in Sessions, NEW i \in 1..Len(scores'[t]),
                      scores'[t][i] = l.score
               PROVE  (pc'[l.stop] = "label" /\ at[l.stop] > i) \/ pc'[l.stop] = "forget"
    BY <1>2 DEF ScoresHeld
  <2>1. t # s /\ scores'[t] = scores[t]  BY <1>7
  <2>2. SessionOf(l.stop) = t /\ l.stop \in Requests
    BY <2>1, ScoringTyped DEF Scoring, ScoresOwned, LabelsOwned
  <2> QED BY <1>1, <1>3, <2>1, <2>2 DEF Scoring, ScoresHeld
<1>11. PastFed'
  <2> SUFFICES ASSUME NEW q \in Requests, NEW t \in Sessions, NEW i \in 1..Len(scores'[t]),
                      t = SessionOf(q), scores'[t][i] \in req[q].past,
                      (pc'[q] = "label" /\ i < at[q]) \/ pc'[q] = "forget"
               PROVE  Fed(scores'[t][i])
    BY <1>2, <1>5 DEF PastFed, Fed
  <2>1. t # s /\ scores'[t] = scores[t]  BY <1>7
  <2> QED BY <1>1, <1>3, <2>1 DEF Scoring, PastFed
<1>12. ScoresLabelledOnce'
  <2>1. ASSUME NEW l \in labelled, NEW m \in labelled, l.score = m.score, l # m
        PROVE  Overlapped(l.stop, m.stop)'
    BY <2>1, PairsKept DEF Scoring
  <2>2. ASSUME NEW q \in Requests, cand[q].detector = "judge", req[q].era = era
        PROVE  \/ Fed(q)
               \/ \E i \in 1..Len(scores'[SessionOf(q)]) : scores'[SessionOf(q)][i] = q
               \/ \E p \in Requests : req[p].kind = "stop" /\ Overlapped(p, q)'
    <3>1. /\ SessionOf(q) \in Sessions
          /\ \/ Fed(q)
             \/ \E i \in 1..Len(scores[SessionOf(q)]) : scores[SessionOf(q)][i] = q
             \/ \E p \in Requests : req[p].kind = "stop" /\ Overlapped(p, q)'
      BY <1>2, <2>2, ScoreAccounted DEF Scoring
    <3>2. CASE SessionOf(q) # s  BY <1>6, <3>1, <3>2
    <3>3. CASE SessionOf(q) = s
      <4>1. q # r /\ pc[q] # "unsent" /\ req[q].kind # "poll"
        <5>1. pc[q] \in Judged /\ req[q].kind # "poll" /\ pc[q] # "unsent"  BY <2>2, JudgedHook
        <5> QED BY <1>2, <5>1 DEF Judged, Decided
      <4>2. CASE Overlapped(r, q)
        <5>1. Overlapped(r, q)'  BY <4>2, OverlapKept
        <5> QED BY <1>4, <5>1
      <4>3. CASE ~ Overlapped(r, q)
        <5>1. q \in req[r].past
          BY <1>1, <1>2, <3>3, <4>1, <4>3, CameBefore DEF Idle
        <5>2. ASSUME NEW i \in 1..Len(scores[s]), scores[s][i] = q PROVE Fed(q)
          BY <1>1, <1>2, <1>4, <5>1, <5>2 DEF Scoring, PastFed
        <5> QED BY <3>1, <3>3, <5>2
      <4> QED BY <4>2, <4>3
    <3> QED BY <3>2, <3>3
  <2> QED BY <1>2, <1>5, <2>1, <2>2 DEF ScoresLabelledOnce, Fed
<1> QED BY <1>8, <1>9, <1>10, <1>11, <1>12 DEF Scoring

\* Every step keeps the account of the scores.
LEMMA ScoringStep == Typed /\ Base /\ Scoring /\ [Next]_vars => Scoring'
<1> SUFFICES ASSUME Typed, Base, Scoring, [Next]_vars PROVE Scoring'  OBVIOUS
<1>1. CASE UNCHANGED vars
  <2>1. UNCHANGED <<labelled, scores, era, cand, pc, at, req>>
    BY <1>1 DEF vars, threadVars, sessionVars, sharedVars
  <2> QED BY <2>1, ScoringElsewhere
<1>2. CASE Restart
  <2>1. /\ req' = req /\ era' = era + 1 /\ labelled' = labelled /\ scores' = EmptyLists
        /\ \A r \in Requests : pc'[r] \in Idle
    BY <1>2 DEF Restart, Idle
  <2>2. \A r \in Requests : req'[r].era # era'
    BY <2>1, EngineAssumption DEF Base, Current, Typed, TypeOK, ThreadsTyped
  <2>3. \A t \in Sessions : Len(scores'[t]) = 0  BY <2>1 DEF EmptyLists
  <2>4. ScoresOwned' /\ ScoresHeld' /\ PastFed'
    BY <2>3 DEF ScoresOwned, ScoresHeld, PastFed
  <2>5. LabelsOwned'
    <3> SUFFICES ASSUME NEW l \in labelled
                 PROVE  /\ pc'[l.score] \in Judged /\ pc'[l.stop] # "unsent"
                        /\ SessionOf(l.stop) = SessionOf(l.score) /\ SessionOf(l.score) \in Sessions
      BY <2>1 DEF LabelsOwned, SessionOf
    <3>1. l.score \in Requests /\ l.stop \in Requests  BY ScoringTyped
    <3>2. /\ pc[l.score] \in Judged /\ pc[l.stop] # "unsent"
          /\ SessionOf(l.stop) = SessionOf(l.score) /\ SessionOf(l.score) \in Sessions
      BY DEF Scoring, LabelsOwned
    <3> QED BY <3>1, <3>2, JudgedKept, AcceptedKept
  <2>6. ScoresLabelledOnce'  BY <2>1, <2>2, PairsKept DEF Scoring, ScoresLabelledOnce
  <2> QED BY <2>4, <2>5, <2>6 DEF Scoring
<1>3. ASSUME NEW r \in Requests, Arrive(r) PROVE Scoring'
  <2>1. /\ pc'[r] \notin {"label", "forget"} /\ pc[r] \notin {"label", "forget"}
        /\ UNCHANGED <<labelled, scores, era, cand, at>>
        /\ \A q \in Requests \ {r} : pc'[q] = pc[q] /\ req'[q] = req[q]
    BY <1>3, ArriveMoves DEF sessionVars
  <2> QED BY <2>1, ScoringElsewhere
<1>4. ASSUME NEW r \in Requests, Step(r), ~ (LabelOne(r) \/ Judge(r) \/ Forget(r)) PROVE Scoring'
  <2>1. /\ req' = req /\ era' = era
        /\ \A q \in Requests \ {r} : pc'[q] = pc[q] /\ cand'[q] = cand[q]
    BY <1>4, StepMoves, CandMoves
  <2>2. UNCHANGED <<labelled, scores>>  BY <1>4, StepKeeps
  <2>3. cand[r].detector = "judge" \/ cand'[r].detector = "judge" =>
          cand'[r].detector = cand[r].detector
    <3>1. CASE Detect(r)
      <4>1. PICK v \in VerdictSet : Decides(r, v)  BY <3>1, Decisions
      <4>2. cand'[r].detector # "judge"
        BY <3>1, <4>1 DEF Decides, Typed, TypeOK, ThreadsTyped, TierZero
      <4>3. cand[r] = NoVerdict  BY <3>1, StepAt DEF Base, Blank, Blanks
      <4> QED BY <4>2, <4>3 DEF NoVerdict, Verdict
    <3>2. CASE ~ Detect(r)
      <4>1. CASE pc[r] \notin {"evaluate", "score"}  BY <1>4, <4>1, CandMoves
      <4>2. CASE pc[r] \in {"evaluate", "score"}
        <5>1. ~ (Admit(r) \/ Withhold(r) \/ Intervene(r))  BY <4>2, StepAt
        <5> QED BY <1>4, <3>2, <5>1, StepKeeps
      <4> QED BY <4>1, <4>2
    <3> QED BY <3>1, <3>2
  <2>4. \A q \in Requests \ {r} : at'[q] = at[q]
    <3>1. at \in [Requests -> Nat \ {0}]  BY DEF Typed, TypeOK, ThreadsTyped
    <3> QED BY <1>4, <3>1, AtMoves
  <2>5. \/ pc'[r] \notin {"label", "forget"} /\ pc[r] \notin {"label", "forget"}
        \/ Finalize(r) \/ LabelDone(r)
    <3>1. AfterTally(r) \notin {"label", "forget"} /\ AfterSnapshot(req[r].kind) \notin {"label", "forget"}
      BY DEF AfterTally, AfterSnapshot
    <3> QED BY <1>4, <3>1, StepAt, StepTo DEF Step
  <2>6. CASE Finalize(r)
    <3>1. at'[r] = 1 /\ pc'[r] = "label" /\ pc[r] = "finalize"
      BY <2>6 DEF Finalize, Goto, Typed, TypeOK, ThreadsTyped
    <3> QED BY <2>1, <2>2, <2>3, <2>4, <3>1, ScoringElsewhere
  <2>7. CASE LabelDone(r)
    <3>1. pc'[r] = "forget" /\ pc[r] = "label" /\ at[r] > Len(scores[SessionOf(r)]) /\ at' = at
      BY <2>7 DEF LabelDone, Goto, Typed, TypeOK, ThreadsTyped
    <3> QED BY <2>1, <2>2, <2>3, <3>1, ScoringElsewhere
  <2>8. CASE pc'[r] \notin {"label", "forget"} /\ pc[r] \notin {"label", "forget"}
    BY <2>1, <2>2, <2>3, <2>4, <2>8, ScoringElsewhere
  <2> QED BY <2>5, <2>6, <2>7, <2>8
<1>5. ASSUME NEW r \in Requests, Step(r) PROVE Scoring'
  BY <1>4, <1>5, LabelOneScoring, JudgeScoring, ForgetScoring
<1> QED BY <1>1, <1>2, <1>3, <1>5 DEF Next

(* _label_judge_scores, _finalize: two STOPs label a judge score twice only if they
   overlapped, and one drops a score unlabelled only if it overlapped the scored
   request, for any number of concurrent hooks, restarts and disk faults.      *)
THEOREM ScoresLabelled == Spec => []ScoresLabelledOnce
<1> DEFINE IInv == Typed /\ Base /\ Scoring
<1>1. Init => Scoring
  <2> SUFFICES ASSUME Init PROVE Scoring  OBVIOUS
  <2>1. /\ labelled = {} /\ scores = EmptyLists
        /\ \A r \in Requests : cand[r] = NoVerdict
    BY DEF Init
  <2>2. \A t \in Sessions : Len(scores[t]) = 0  BY <2>1 DEF EmptyLists
  <2>3. \A r \in Requests : cand[r].detector # "judge"  BY <2>1 DEF NoVerdict, Verdict
  <2> QED BY <2>1, <2>2, <2>3
      DEF Scoring, ScoresOwned, LabelsOwned, ScoresHeld, PastFed, ScoresLabelledOnce
<1>2. Init => IInv  BY <1>1, InitTyped, BaseInit
<1>3. IInv /\ [Next]_vars => IInv'  BY NextTyped, BaseStep, ScoringStep
<1>4. IInv => ScoresLabelledOnce  BY DEF Scoring
<1> QED BY <1>2, <1>3, <1>4, PTL DEF Spec

-----------------------------------------------------------------------------
(* A label stands for an intervention.                                       *)

(* What may wait in a queue, and what a label is about: an intervention of Tier 0
   that is past the queue.                                                    *)
Noted(r) ==
  /\ pc[r] \in {"record", "park", "done", "lost"}
  /\ cand[r].detector \in TierZero /\ cand[r].action \in Interventions

(* Who is about to queue is of Tier 0; a queue holds the interventions of its
   session, each once; a label is about one in the session of its review; and while
   that one is still queued its review is on the way to empty the queue.      *)
AtQueue == \A r \in Requests : pc[r] \in {"queue", "append"} => cand[r].detector \in TierZero
QueueOwned ==
  \A s \in Sessions : \A i \in 1..Len(queued[s]) :
    LET n == queued[s][i] IN
    /\ n \in Requests /\ SessionOf(n) = s /\ Noted(n)
    /\ \A j \in 1..Len(queued[s]) : queued[s][j] = n => j = i
BookOwned ==
  \A l \in book :
    /\ Noted(l.nudge) /\ pc[l.review] # "unsent"
    /\ SessionOf(l.nudge) = SessionOf(l.review) /\ SessionOf(l.review) \in Sessions
Emptying(r, i) ==
  Opinion(r) /\ ((pc[r] = "feed" /\ at[r] > i) \/ (pc[r] = "empty" /\ at[r] > 1))
QueueHeld ==
  \A l \in book, s \in Sessions : \A i \in 1..Len(queued[s]) :
    queued[s][i] = l.nudge => Emptying(l.review, i)
LabelledApart ==
  \A l, m \in book : l.nudge = m.nudge /\ l # m => Overlapped(l.review, m.review)
Labelling ==
  AtQueue /\ QueueOwned /\ BookOwned /\ saved \subseteq book /\ QueueHeld /\ LabelledApart

\* What the queues and the book are.
LEMMA LabellingTyped ==
  ASSUME Typed
  PROVE  /\ \A s \in Sessions : queued[s] \in Seq(Requests) /\ Len(queued[s]) \in Nat
         /\ book \subseteq Labels /\ saved \subseteq Labels
         /\ \A l \in book : l.nudge \in Requests /\ l.review \in Requests
         /\ \A r \in Requests : at[r] \in Nat /\ at[r] >= 1
BY DEF Typed, TypeOK, ThreadsTyped, SessionsTyped, SharedTyped, Labels

\* An intervention of Tier 0 stays what it is.
LEMMA NotedKept ==
  ASSUME Typed, [Next]_vars, NEW r \in Requests, Noted(r)
  PROVE  Noted(r)'
<1>1. CASE UNCHANGED vars  BY <1>1 DEF vars, threadVars, Noted
<1>2. CASE Restart
  <2>1. cand' = cand /\ pc'[r] \in {"done", "lost"}  BY <1>2 DEF Restart, Idle, Noted
  <2> QED BY <2>1 DEF Noted
<1>3. ASSUME NEW q \in Requests, Arrive(q) PROVE Noted(r)'
  BY <1>3, ArriveMoves DEF Noted
<1>4. ASSUME NEW q \in Requests, Step(q) PROVE Noted(r)'
  <2>1. CASE q # r  BY <1>4, <2>1, StepMoves, CandMoves DEF Noted
  <2>2. CASE q = r
    <3>1. Record(r) \/ Park(r)  BY <1>4, <2>2, StepMoves, StepAt DEF Step, Noted, Idle
    <3>2. pc'[r] \in {"park", "lost", "done"}  BY <3>1, StepTo
    <3>3. cand'[r] = cand[r]  BY <1>4, <2>2, <3>1, StepKeeps, StepAt
    <3> QED BY <3>2, <3>3 DEF Noted
  <2> QED BY <2>1, <2>2
<1> QED BY <1>1, <1>2, <1>3, <1>4 DEF Next

\* Only a Tier 0 verdict gets to the queue.
LEMMA AtQueueStep == Typed /\ AtQueue /\ [Next]_vars => AtQueue'
<1> SUFFICES ASSUME Typed, AtQueue, [Next]_vars PROVE AtQueue'  OBVIOUS
<1>1. CASE UNCHANGED vars  BY <1>1 DEF vars, threadVars, AtQueue
<1>2. CASE Restart  BY <1>2 DEF Restart, Idle, AtQueue
<1>3. ASSUME NEW r \in Requests, Arrive(r) PROVE AtQueue'  BY <1>3, ArriveMoves DEF AtQueue
<1>4. ASSUME NEW r \in Requests, Step(r) PROVE AtQueue'
  <2>1. \A q \in Requests \ {r} : pc'[q] = pc[q] /\ cand'[q] = cand[q]
    BY <1>4, StepMoves, CandMoves
  <2>2. pc'[r] \in {"queue", "append"} => cand'[r].detector \in TierZero
    <3>1. AfterSnapshot(req[r].kind) \notin {"queue", "append"}  BY DEF AfterSnapshot
    <3>2. pc'[r] \in {"queue", "append"} => Store(r) \/ Confirm(r)
      BY <1>4, <3>1, StepTo, StepAt DEF Step
    <3>3. CASE Store(r)
      <4>1. cand' = cand  BY <3>3 DEF Store
      <4>2. pc'[r] \in {"queue", "append"} => AfterTally(r) = "queue"
        BY <3>3, StepTo DEF AfterTally
      <4> QED BY <4>1, <4>2 DEF AfterTally
    <3>4. CASE Confirm(r)
      <4>1. cand' = cand /\ pc[r] = "queue"  BY <3>4 DEF Confirm, Goto
      <4> QED BY <4>1 DEF AtQueue
    <3> QED BY <3>2, <3>3, <3>4
  <2> QED BY <2>1, <2>2 DEF AtQueue
<1> QED BY <1>1, <1>2, <1>3, <1>4 DEF Next

\* What a book says of the labels that stay in it stays true.
LEMMA BookKept ==
  ASSUME Typed, [Next]_vars, BookOwned, LabelledApart
  PROVE  /\ \A l \in book : /\ Noted(l.nudge)' /\ pc'[l.review] # "unsent"
                            /\ SessionOf(l.nudge)' = SessionOf(l.nudge)
                            /\ SessionOf(l.review)' = SessionOf(l.review)
                            /\ SessionOf(l.nudge)' = SessionOf(l.review)'
                            /\ SessionOf(l.review)' \in Sessions
         /\ \A l, m \in book : l.nudge = m.nudge /\ l # m => Overlapped(l.review, m.review)'
<1>1. ASSUME NEW l \in book
      PROVE  /\ Noted(l.nudge)' /\ pc'[l.review] # "unsent"
             /\ SessionOf(l.nudge)' = SessionOf(l.nudge)
             /\ SessionOf(l.review)' = SessionOf(l.review)
             /\ SessionOf(l.nudge)' = SessionOf(l.review)' /\ SessionOf(l.review)' \in Sessions
  <2>1. /\ l.nudge \in Requests /\ l.review \in Requests
        /\ Noted(l.nudge) /\ pc[l.review] # "unsent"
        /\ SessionOf(l.nudge) = SessionOf(l.review) /\ SessionOf(l.review) \in Sessions
    BY LabellingTyped DEF BookOwned
  <2>2. pc[l.nudge] # "unsent"  BY <2>1 DEF Noted
  <2> QED BY <2>1, <2>2, NotedKept, AcceptedKept
<1>2. ASSUME NEW l \in book, NEW m \in book, l.nudge = m.nudge, l # m
      PROVE  Overlapped(l.review, m.review)'
  BY <1>2, LabellingTyped, OverlapKept DEF LabelledApart
<1> QED BY <1>1, <1>2

\* The entries that stay in a queue stay its own.
LEMMA QueueKept ==
  ASSUME Typed, [Next]_vars, QueueOwned,
         \A s \in Sessions : queued'[s] = queued[s] \/ Len(queued'[s]) = 0
  PROVE  QueueOwned'
<1> SUFFICES ASSUME NEW s \in Sessions, NEW i \in 1..Len(queued'[s]), NEW n, n = queued'[s][i]
             PROVE  /\ n \in Requests /\ SessionOf(n)' = s /\ Noted(n)'
                    /\ \A j \in 1..Len(queued'[s]) : queued'[s][j] = n => j = i
  BY DEF QueueOwned
<1>1. queued'[s] = queued[s]  OBVIOUS
<1>2. /\ n \in Requests /\ SessionOf(n) = s /\ Noted(n) /\ pc[n] # "unsent"
      /\ \A j \in 1..Len(queued[s]) : queued[s][j] = n => j = i
  BY <1>1 DEF QueueOwned, Noted
<1>3. Noted(n)' /\ SessionOf(n)' = s  BY <1>2, NotedKept, AcceptedKept
<1> QED BY <1>1, <1>2, <1>3

\* The opinion of a review is that of its verdict.
LEMMA OpinionKept ==
  ASSUME NEW r, cand'[r] = cand[r], Opinion(r)
  PROVE  Opinion(r)'
BY DEF Opinion

\* A step that makes no label and leaves the queues and the reviews of them alone.
LEMMA LabellingElsewhere ==
  ASSUME Typed, Labelling, [Next]_vars, UNCHANGED <<queued, book>>, saved' \subseteq book,
         \A q \in Requests : pc[q] \in {"feed", "empty"} =>
           /\ at'[q] = at[q] /\ cand'[q] = cand[q]
           /\ pc'[q] = pc[q] \/ (pc[q] = "feed" /\ pc'[q] = "empty")
  PROVE  Labelling'
<1>1. AtQueue'  BY AtQueueStep DEF Labelling
<1>2. QueueOwned'  BY QueueKept DEF Labelling
<1>3. BookOwned' /\ LabelledApart'
  BY BookKept DEF Labelling, BookOwned, LabelledApart
<1>4. QueueHeld'
  <2> SUFFICES ASSUME NEW l \in book, NEW s \in Sessions, NEW i \in 1..Len(queued[s]),
                      queued[s][i] = l.nudge
               PROVE  Emptying(l.review, i)'
    BY DEF QueueHeld
  <2>1. Emptying(l.review, i)  BY DEF Labelling, QueueHeld
  <2>2. l.review \in Requests /\ at[l.review] \in Nat /\ i \in Nat /\ i >= 1
    BY LabellingTyped
  <2>3. cand'[l.review] = cand[l.review]  BY <2>1, <2>2 DEF Emptying
  <2>4. Opinion(l.review)'  BY <2>1, <2>3, OpinionKept DEF Emptying
  <2> QED BY <2>1, <2>2, <2>4 DEF Emptying
<1> QED BY <1>1, <1>2, <1>3, <1>4 DEF Labelling

\* A review labels the next intervention of the queue.
LEMMA FeedOneLabels ==
  ASSUME Typed, Base, Labelling, [Next]_vars, NEW r \in Requests, FeedOne(r)
  PROVE  Labelling'
<1>1. PICK s : s = SessionOf(r)  OBVIOUS
<1>2. PICK i : i = at[r]  OBVIOUS
<1>3. PICK x : x = queued[s][i]  OBVIOUS
<1>4. PICK n : n.nudge = x /\ n.review = r /\ book' = book \cup {n}
  <2>1. PICK side : book' = book \cup {[nudge |-> x, review |-> r, side |-> side]}
    BY <1>1, <1>2, <1>3 DEF FeedOne
  <2>2. PICK n : n = [nudge |-> x, review |-> r, side |-> side]  OBVIOUS
  <2> QED BY <2>1, <2>2
<1>5. /\ pc[r] = "feed" /\ pc' = pc /\ req' = req /\ UNCHANGED <<cand, queued, saved>>
      /\ Opinion(r) /\ i <= Len(queued[s]) /\ at' = [at EXCEPT ![r] = @ + 1]
  BY <1>1, <1>2 DEF FeedOne, sessionVars
<1>6. s \in Sessions /\ i \in 1..Len(queued[s]) /\ i \in Nat
  BY <1>1, <1>2, <1>5, LabellingTyped DEF Typed, Located
<1>7. /\ x \in Requests /\ SessionOf(x) = s /\ Noted(x)
      /\ \A t \in Sessions : \A j \in 1..Len(queued[t]) : queued[t][j] = x => t = s /\ j = i
  BY <1>3, <1>6 DEF Labelling, QueueOwned
<1>8. at'[r] = i + 1 /\ \A q \in Requests \ {r} : at'[q] = at[q]
  BY <1>2, <1>5 DEF Typed, TypeOK, ThreadsTyped
<1>9. AtQueue' /\ QueueOwned'  BY <1>5, AtQueueStep, QueueKept DEF Labelling
<1>10. BookOwned'
  <2>1. ASSUME NEW l \in book'
        PROVE  /\ Noted(l.nudge) /\ pc[l.review] # "unsent"
               /\ SessionOf(l.nudge) = SessionOf(l.review) /\ SessionOf(l.review) \in Sessions
    <3>1. CASE l = n  BY <1>1, <1>4, <1>5, <1>6, <1>7, <3>1
    <3>2. CASE l \in book  BY <3>2 DEF Labelling, BookOwned
    <3> QED BY <1>4, <3>1, <3>2
  <2> QED BY <1>5, <2>1 DEF BookOwned, Noted, SessionOf
<1>11. saved' \subseteq book'  BY <1>4, <1>5 DEF Labelling
<1>12. QueueHeld'
  <2> SUFFICES ASSUME NEW l \in book', NEW t \in Sessions, NEW j \in 1..Len(queued[t]),
                      queued[t][j] = l.nudge
               PROVE  Emptying(l.review, j)'
    BY <1>5 DEF QueueHeld
  <2>1. j \in Nat  BY LabellingTyped
  <2>2. CASE l = n
    <3>1. l.review = r /\ j = i  BY <1>4, <1>7, <2>2
    <3>2. Opinion(r)'  BY <1>5, OpinionKept
    <3> QED BY <1>5, <1>6, <1>8, <3>1, <3>2 DEF Emptying
  <2>3. CASE l \in book
    <3>1. Emptying(l.review, j)  BY <2>3 DEF Labelling, QueueHeld
    <3>2. l.review \in Requests /\ at[l.review] \in Nat  BY <2>3, LabellingTyped
    <3>3. at'[l.review] \in Nat /\ at'[l.review] >= at[l.review]
      BY <1>2, <1>6, <1>8, <3>2
    <3>4. Opinion(l.review)'  BY <1>5, <3>1, OpinionKept DEF Emptying
    <3> QED BY <1>5, <2>1, <3>1, <3>2, <3>3, <3>4 DEF Emptying
  <2> QED BY <1>4, <2>2, <2>3
<1>13. LabelledApart'
  <2>1. ASSUME NEW m \in book, m.nudge = x
        PROVE  Overlapped(m.review, r)' /\ Overlapped(r, m.review)'
    <3>1. Emptying(m.review, i) /\ m.review \in Requests
      BY <1>3, <1>6, <2>1, LabellingTyped DEF Labelling, QueueHeld
    <3>2. m.review # r  BY <1>2, <1>5, <1>6, <3>1 DEF Emptying
    <3>3. pc[m.review] \notin Idle /\ SessionOf(m.review) = s
      BY <1>7, <2>1, <3>1 DEF Labelling, BookOwned, Emptying, Idle
    <3>4. Overlapped(m.review, r) /\ Overlapped(r, m.review)
      BY <1>1, <1>5, <3>1, <3>2, <3>3, TogetherOverlap DEF Idle
    <3> QED BY <3>1, <3>4, OverlapKept
  <2>2. ASSUME NEW l \in book', NEW m \in book', l.nudge = m.nudge, l # m
        PROVE  Overlapped(l.review, m.review)'
    <3>1. CASE l \in book /\ m \in book  BY <2>2, <3>1, BookKept DEF Labelling
    <3>2. CASE l = n /\ m \in book  BY <1>4, <2>1, <2>2, <3>2
    <3>3. CASE l \in book /\ m = n  BY <1>4, <2>1, <2>2, <3>3
    <3> QED BY <1>4, <2>2, <3>1, <3>2, <3>3
  <2> QED BY <2>2 DEF LabelledApart
<1> QED BY <1>9, <1>10, <1>11, <1>12, <1>13 DEF Labelling

\* A review empties the queue it labelled, and saves the book.
LEMMA EmptyLabels ==
  ASSUME Typed, Labelling, [Next]_vars, NEW r \in Requests, Empty(r)
  PROVE  Labelling'
<1>1. PICK s : s = SessionOf(r)  OBVIOUS
<1>2. /\ pc[r] = "empty" /\ UNCHANGED <<req, cand, at, book>> /\ queued' = QueuesAfterReview(r)
      /\ saved' = book \/ saved' = saved
  BY DEF Empty, Goto
<1>3. pc'[r] = "admit" /\ \A q \in Requests \ {r} : pc'[q] = pc[q]
  BY DEF Empty, Goto, Typed, TypeOK, ThreadsTyped
<1>4. s \in Sessions  BY <1>1, <1>2 DEF Typed, Located
<1>5. /\ \A t \in Sessions \ {s} : queued'[t] = queued[t]
      /\ queued'[s] = queued[s] \/ Len(queued'[s]) = 0
      /\ Opinion(r) /\ at[r] > 1 => Len(queued'[s]) = 0
  BY <1>1, <1>2, <1>4 DEF QueuesAfterReview, Typed, TypeOK, SessionsTyped
<1>6. AtQueue' /\ QueueOwned'  BY <1>5, AtQueueStep, QueueKept DEF Labelling
<1>7. BookOwned' /\ LabelledApart' /\ saved' \subseteq book'
  BY <1>2, BookKept DEF Labelling, BookOwned, LabelledApart
<1>8. QueueHeld'
  <2> SUFFICES ASSUME NEW l \in book, NEW t \in Sessions, NEW i \in 1..Len(queued'[t]),
                      queued'[t][i] = l.nudge
               PROVE  Emptying(l.review, i)'
    BY <1>2 DEF QueueHeld
  <2>1. queued'[t] = queued[t]  BY <1>5
  <2>2. Emptying(l.review, i) /\ l.review \in Requests
    BY <2>1, LabellingTyped DEF Labelling, QueueHeld
  <2>3. l.review # r
    <3>1. SUFFICES ASSUME l.review = r PROVE FALSE  OBVIOUS
    <3>2. t = SessionOf(l.nudge) /\ SessionOf(l.nudge) = s
      BY <1>1, <2>1, <3>1 DEF Labelling, QueueOwned, BookOwned
    <3>3. Opinion(r) /\ at[r] > 1  BY <1>2, <2>2, <3>1 DEF Emptying
    <3> QED BY <1>5, <3>2, <3>3
  <2>4. Opinion(l.review)'  BY <1>2, <2>2, OpinionKept DEF Emptying
  <2> QED BY <1>2, <1>3, <2>2, <2>3, <2>4 DEF Emptying
<1> QED BY <1>6, <1>7, <1>8 DEF Labelling

\* An intervention of Tier 0 joins the queue of its session.
LEMMA EnqueueLabels ==
  ASSUME Typed, Sound, Labelling, [Next]_vars, NEW r \in Requests, Enqueue(r)
  PROVE  Labelling'
<1>1. PICK s : s = SessionOf(r)  OBVIOUS
<1>2. /\ pc[r] = "append" /\ UNCHANGED <<req, cand, at, book, saved>>
      /\ queued' = [queued EXCEPT ![s] = Append(@, r)]
  BY <1>1 DEF Enqueue, Goto, sharedVars
<1>3. pc'[r] = "record" /\ \A q \in Requests \ {r} : pc'[q] = pc[q]
  BY DEF Enqueue, Goto, Typed, TypeOK, ThreadsTyped
<1>4. s \in Sessions /\ \A q \in Requests : SessionOf(q)' = SessionOf(q)
  BY <1>1, <1>2 DEF Typed, Located, SessionOf
<1>5. PICK n \in Nat : n = Len(queued[s])  BY <1>4, LabellingTyped
<1>6. \A t \in Sessions \ {s} : queued'[t] = queued[t]
  BY <1>2, <1>4 DEF Typed, TypeOK, SessionsTyped
<1>7. /\ Len(queued'[s]) = n + 1 /\ queued'[s][n + 1] = r
      /\ \A i \in 1..n : queued'[s][i] = queued[s][i]
  <2>1. queued[s] \in Seq(Requests) /\ queued'[s] = Append(queued[s], r)
    BY <1>2, <1>4 DEF Typed, TypeOK, SessionsTyped
  <2> QED BY <1>5, <2>1
<1>8. \A t \in Sessions : \A i \in 1..Len(queued'[t]) :
        \/ i \in 1..Len(queued[t]) /\ queued'[t][i] = queued[t][i]
        \/ t = s /\ i = n + 1 /\ queued'[t][i] = r
  BY <1>5, <1>6, <1>7
<1>9. ~ Noted(r)  BY <1>2 DEF Noted
<1>10. Noted(r)'
  <2>1. cand[r].detector \in TierZero /\ cand[r].action \in Interventions
    BY <1>2 DEF Labelling, AtQueue, Sound, Ready, MayTell, Settled
  <2> QED BY <1>2, <1>3, <2>1 DEF Noted
<1>11. QueueOwned'
  <2> SUFFICES ASSUME NEW t \in Sessions, NEW i \in 1..Len(queued'[t]), NEW x, x = queued'[t][i]
               PROVE  /\ x \in Requests /\ SessionOf(x) = t /\ Noted(x)'
                      /\ \A j \in 1..Len(queued'[t]) : queued'[t][j] = x => j = i
    BY <1>4 DEF QueueOwned
  <2>1. CASE i \in 1..Len(queued[t]) /\ queued'[t][i] = queued[t][i]
    <3>1. /\ x \in Requests /\ SessionOf(x) = t /\ Noted(x)
          /\ \A j \in 1..Len(queued[t]) : queued[t][j] = x => j = i
      BY <2>1 DEF Labelling, QueueOwned
    <3>2. x # r /\ Noted(x)'  BY <1>9, <3>1, NotedKept
    <3>3. \A j \in 1..Len(queued'[t]) : queued'[t][j] = x => j = i  BY <1>8, <3>1, <3>2
    <3> QED BY <3>1, <3>2, <3>3
  <2>2. CASE t = s /\ i = n + 1 /\ queued'[t][i] = r
    <3>1. \A j \in 1..n : queued[s][j] # r  BY <1>4, <1>5, <1>9 DEF Labelling, QueueOwned
    <3>2. \A j \in 1..Len(queued'[t]) : queued'[t][j] = r => j = i  BY <1>5, <1>8, <2>2, <3>1
    <3> QED BY <1>1, <1>10, <2>2, <3>2
  <2> QED BY <1>8, <2>1, <2>2
<1>12. BookOwned' /\ LabelledApart' /\ saved' \subseteq book'
  BY <1>2, BookKept DEF Labelling, BookOwned, LabelledApart
<1>13. QueueHeld'
  <2> SUFFICES ASSUME NEW l \in book, NEW t \in Sessions, NEW i \in 1..Len(queued'[t]),
                      queued'[t][i] = l.nudge
               PROVE  Emptying(l.review, i)'
    BY <1>2 DEF QueueHeld
  <2>1. l.nudge # r /\ l.review \in Requests
    BY <1>9, LabellingTyped DEF Labelling, BookOwned
  <2>2. Emptying(l.review, i)  BY <1>8, <2>1 DEF Labelling, QueueHeld
  <2>3. l.review # r  BY <1>2, <2>2 DEF Emptying
  <2>4. Opinion(l.review)'  BY <1>2, <2>2, OpinionKept DEF Emptying
  <2> QED BY <1>2, <1>3, <2>1, <2>2, <2>3, <2>4 DEF Emptying
<1>14. AtQueue'  BY AtQueueStep DEF Labelling
<1> QED BY <1>11, <1>12, <1>13, <1>14 DEF Labelling

\* Every step keeps the labels backed.
LEMMA LabellingStep == Typed /\ Sound /\ Base /\ Labelling /\ [Next]_vars => Labelling'
<1> SUFFICES ASSUME Typed, Sound, Base, Labelling, [Next]_vars PROVE Labelling'  OBVIOUS
<1>1. CASE UNCHANGED vars
  <2>1. UNCHANGED <<queued, book, saved, pc, at, cand>>
    BY <1>1 DEF vars, threadVars, sessionVars, sharedVars
  <2>2. saved' \subseteq book  BY <2>1 DEF Labelling
  <2> QED BY <2>1, <2>2, LabellingElsewhere
<1>2. CASE Restart
  <2>1. book' = saved /\ saved' = saved /\ queued' = EmptyLists  BY <1>2 DEF Restart
  <2>2. \A t \in Sessions : Len(queued'[t]) = 0  BY <2>1 DEF EmptyLists
  <2>3. AtQueue' /\ QueueOwned' /\ QueueHeld'
    BY <2>2, AtQueueStep, QueueKept DEF Labelling, QueueHeld
  <2>4. BookOwned' /\ LabelledApart' /\ saved' \subseteq book'
    BY <2>1, BookKept DEF Labelling, BookOwned, LabelledApart
  <2> QED BY <2>3, <2>4 DEF Labelling
<1>3. ASSUME NEW r \in Requests, Arrive(r) PROVE Labelling'
  <2>1. /\ pc[r] = "unsent" /\ UNCHANGED <<queued, book, saved, at, cand>>
        /\ \A q \in Requests \ {r} : pc'[q] = pc[q]
    BY <1>3, ArriveMoves DEF sessionVars
  <2>2. saved' \subseteq book  BY <2>1 DEF Labelling
  <2>3. \A q \in Requests : pc[q] \in {"feed", "empty"} => pc'[q] = pc[q]  BY <2>1
  <2> QED BY <2>1, <2>2, <2>3, LabellingElsewhere
<1>4. ASSUME NEW r \in Requests, Step(r), ~ (FeedOne(r) \/ Empty(r) \/ Enqueue(r))
      PROVE  Labelling'
  <2>1. \A q \in Requests \ {r} : pc'[q] = pc[q] /\ cand'[q] = cand[q] /\ at'[q] = at[q]
    BY <1>4, StepMoves, CandMoves, AtMoves
  <2>2. UNCHANGED <<queued, book>>  BY <1>4, StepKeeps
  <2>3. saved' \subseteq book
    <3>1. CASE Finalize(r)  BY <3>1 DEF Finalize, Labelling
    <3>2. CASE ~ Finalize(r)  BY <1>4, <3>2, StepKeeps DEF Labelling
    <3> QED BY <3>1, <3>2
  <2>4. CASE FeedDone(r)
    <3>1. pc[r] = "feed" /\ pc'[r] = "empty" /\ UNCHANGED <<at, cand>>
      BY <2>4, StepAt, StepTo DEF FeedDone
    <3> QED BY <2>1, <2>2, <2>3, <3>1, LabellingElsewhere
  <2>5. CASE ~ FeedDone(r)
    <3>1. pc[r] \notin {"feed", "empty"}  BY <1>4, <2>5, StepAt DEF Step
    <3> QED BY <2>1, <2>2, <2>3, <3>1, LabellingElsewhere
  <2> QED BY <2>4, <2>5
<1>5. ASSUME NEW r \in Requests, Step(r) PROVE Labelling'
  BY <1>4, <1>5, FeedOneLabels, EmptyLabels, EnqueueLabels
<1> QED BY <1>1, <1>2, <1>3, <1>5 DEF Next

(* _feed_rule_feedback, _queue_feedback: a label in a scorecard stands for an
   intervention of Tier 0 in the session of its review, and one intervention has
   two labels only if the two reviews overlapped, for any number of concurrent
   hooks, restarts and disk faults.                                            *)
THEOREM LabelsStandForInterventions == Spec => []LabelsBacked
<1> DEFINE IInv == Typed /\ Sound /\ Base /\ Labelling
<1>1. Init => Labelling
  <2> SUFFICES ASSUME Init PROVE Labelling  OBVIOUS
  <2>1. /\ book = {} /\ saved = {} /\ queued = EmptyLists
        /\ \A r \in Requests : pc[r] = "unsent"
    BY DEF Init
  <2>2. \A t \in Sessions : Len(queued[t]) = 0  BY <2>1 DEF EmptyLists
  <2> QED BY <2>1, <2>2
      DEF Labelling, AtQueue, QueueOwned, BookOwned, QueueHeld, LabelledApart
<1>2. Init => IInv  BY <1>1, InitTyped, InitSound, BaseInit
<1>3. IInv /\ [Next]_vars => IInv'
  BY NextTyped, NextSound, BaseStep, LabellingStep
<1>4. IInv => LabelsBacked
  BY DEF Labelling, BookOwned, LabelledApart, LabelsBacked, Noted
<1> QED BY <1>2, <1>3, <1>4, PTL DEF Spec
=============================================================================
