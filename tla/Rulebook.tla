------------------------------ MODULE Rulebook ------------------------------
(***************************************************************************)
(* The evidence-ranked rulebook (agent_shepherd/core/rules/rulebook.py) and *)
(* what the daemon does with it (core/server.py: _finalize_session,        *)
(* _feed_rulebook): at a STOP the whole ledger of the session is read and  *)
(* every nudge whose follow-up window has closed is judged once, a cursor  *)
(* per session remembering how far the book has read; a review of the      *)
(* judge labels detectors; both save the book, and a restart reads the     *)
(* saved file back.                                                        *)
(*                                                                         *)
(* Handlers run on threads of their own and the book has no lock, so a     *)
(* STOP is several steps here: the ledger line, the read of the ledger and *)
(* the cursor, one step per judged nudge, the cursor, the copy that is     *)
(* saved and its rename over the file.                                     *)
(*                                                                         *)
(* Left out: which rules are promoted, their ranking and their texts.  A tool  *)
(* call is a value with a name, possibly an edited path, and a relation of *)
(* near-identity (the Jaccard bar); detector names are the normalised ones. *)
(***************************************************************************)
EXTENDS Integers, Sequences, FiniteSets

CONSTANTS
  Threads,        \* handler threads that touch the book
  Sessions,       \* sessions of the ledger
  Agents,         \* agents
  AgentOf,        \* the agent of a session
  Families,       \* detector |-> "change", "stop", "act" or "none"
  Calls,          \* tool calls
  NameOf,         \* the tool a call names
  PathOf,         \* the path it edits, or NoPath
  Near,           \* pairs of near-identical calls
  NoCall, NoPath, \* no tool on the record, no edit
  Window,         \* events watched after a nudge (DEFAULT_WINDOW)
  Times,          \* timestamps of records
  Observed,       \* the records, stamps aside, that events and verdicts leave
  MaxRecords,     \* bound: records of a session
  MaxLabels,      \* bound: detectors the judge labels
  MaxCrashes      \* bound: restarts of the daemon

Detectors == DOMAIN Families

ASSUME RulebookAssumption ==
  /\ AgentOf \in [Sessions -> Agents]
  /\ Families \in [Detectors -> {"change", "stop", "act", "none"}]
  /\ \A pair \in Near : pair \in Calls \X Calls /\ NameOf[pair[1]] = NameOf[pair[2]]
  /\ \A c, d \in Calls : <<c, d>> \in Near => <<d, c>> \in Near
  /\ NoCall \notin Calls
  /\ Window \in Nat \ {0}
  /\ Times \subseteq Nat
  /\ IsFiniteSet(Sessions) /\ MaxRecords \in Nat
  /\ \A rec \in Observed :
       \/ rec.type = "event" /\ rec.what \in {"reasoning", "tool_call", "tool_result"}
                             /\ rec.call \in Calls \cup {NoCall}
       \/ rec.type \in {"nudge", "verdict"} /\ rec.what \in Detectors /\ rec.call = NoCall

VARIABLES
  ledger,         \* the records of a session, in append order
  book,           \* the rulebook in memory: scorecards and cursors
  file,           \* the book in rulebook.json
  pc,             \* what a thread is at
  task,           \* the observation of a thread: session, stream read, records consumed
  copy,           \* the book a thread is saving
  crashes         \* number of restarts so far

vars == <<ledger, book, file, pc, task, copy, crashes>>

-----------------------------------------------------------------------------
(* Records of the ledger: events, nudges, and verdicts that are no nudges.   *)

Stamped(rec, ts) == [type |-> rec.type, what |-> rec.what, call |-> rec.call, ts |-> ts]
StopEvent == [type |-> "event", what |-> "stop", call |-> NoCall]
IsEvent(rec) == rec.type = "event"
IsNudge(rec) == rec.type = "nudge"
IsStop(rec) == IsEvent(rec) /\ rec.what = "stop"
IsCall(rec) == IsEvent(rec) /\ rec.what = "tool_call" /\ rec.call # NoCall

SameCall(c, d) == c = d \/ <<c, d>> \in Near

(* The stream is flipped once when most timestamps descend. *)
Turns(q, Cmp(_, _)) == Cardinality({i \in 1..(Len(q) - 1) : Cmp(q[i].ts, q[i + 1].ts)})
Reversed(q) == [i \in 1..Len(q) |-> q[Len(q) + 1 - i]]

InOrder(q) == IF Turns(q, >) > Turns(q, <) THEN Reversed(q) ELSE q

-----------------------------------------------------------------------------
(* Adherence: was the nudge at position i of the stream q followed?          *)

Following(q, i) ==
  {j \in (i + 1)..Len(q) : Cardinality({k \in (i + 1)..(j - 1) : IsEvent(q[k])}) < Window}
Events(q, i) == {j \in Following(q, i) : IsEvent(q[j])}
RealCalls(q, i) == {j \in Events(q, i) : IsCall(q[j])}

\* Mutation: only a full window closes a sample, the end of the run does not.
ClosedFull(q, i) == Cardinality(Events(q, i)) >= Window
\* Mutation: the window is one event too short.
ClosedEarly(q, i) ==
  Cardinality(Events(q, i)) >= Window - 1 \/ \E j \in Events(q, i) : IsStop(q[j])
Closed(q, i) == Cardinality(Events(q, i)) >= Window \/ \E j \in Events(q, i) : IsStop(q[j])

Refired(q, i) == \E j \in Following(q, i) : IsNudge(q[j]) /\ q[j].what = q[i].what

\* The call on the event right before the nudge, the one it was written for.
Offending(q, i) ==
  LET before == {k \in 1..(i - 1) : IsEvent(q[k])}
  IN  IF before = {} THEN NoCall ELSE q[CHOOSE k \in before : \A l \in before : l <= k].call

Family(q, i) == Families[q[i].what]

Decided(q, i) ==
  /\ Family(q, i) # "none"
  /\ Refired(q, i) \/ Family(q, i) = "act" \/ Offending(q, i) # NoCall

\* Does the record touch what the nudge said to leave alone: the edited path, or the tool?
Touches(rec, call) ==
  /\ rec.call # NoCall
  /\ IF PathOf[call] # NoPath THEN PathOf[rec.call] = PathOf[call]
                              ELSE NameOf[rec.call] = NameOf[call]

LeftAlone(q, i) ==
  CASE Family(q, i) = "change" ->
         \A j \in RealCalls(q, i) : ~ SameCall(Offending(q, i), q[j].call)
    [] Family(q, i) = "stop" ->
         \A j \in Events(q, i) : ~ Touches(q[j], Offending(q, i))
    [] OTHER -> TRUE

Followed(q, i) ==
  Decided(q, i) /\ ~ Refired(q, i) /\ RealCalls(q, i) # {} /\ LeftAlone(q, i)

\* Events up to and including the first call.
Steps(q, i) ==
  Cardinality({k \in Events(q, i) : \A j \in RealCalls(q, i) : k <= j})

-----------------------------------------------------------------------------
(* Scorecards.                                                               *)

Fresh == [nudges |-> 0, inconclusive |-> 0, adhered |-> 0, steps |-> 0, agree |-> 0, disagree |-> 0]
EmptyBook == [stats   |-> [a \in Agents |-> [d \in Detectors |-> Fresh]],
              cursors |-> [s \in Sessions |-> 0]]

Bump(n, holds) == IF holds THEN n + 1 ELSE n

\* RuleStat.record, for the nudge at position i of the stream q.
Scored(stat, q, i) ==
  [stat EXCEPT !.nudges = @ + 1,
               !.inconclusive = Bump(@, ~ Decided(q, i)),
               !.adhered = Bump(@, Followed(q, i)),
               !.steps = IF Followed(q, i) THEN @ + Steps(q, i) ELSE @]

Judged(stat) == stat.agree + stat.disagree

NoTask == [sess |-> "none", stream |-> <<>>, index |-> 0]

Init ==
  /\ ledger = [s \in Sessions |-> <<>>]
  /\ book = EmptyBook /\ file = EmptyBook
  /\ pc = [t \in Threads |-> "idle"]
  /\ task = [t \in Threads |-> NoTask]
  /\ copy = [t \in Threads |-> EmptyBook]
  /\ crashes = 0

-----------------------------------------------------------------------------
(* Records arrive: an event, or a verdict that follows one.  STOP is an action
   of its own, its thread goes on to observe the session.                    *)

Recorded(s, rec, ts) ==
  /\ Len(ledger[s]) < MaxRecords
  /\ \A i \in 1..Len(ledger[s]) : ledger[s][i].ts <= ts
  /\ ledger' = [ledger EXCEPT ![s] = Append(@, Stamped(rec, ts))]

Observe(s, rec, ts) ==
  /\ rec.type # "event" => ledger[s] # <<>>
  /\ Recorded(s, rec, ts)
  /\ UNCHANGED <<book, file, pc, task, copy, crashes>>

Stop(t, s, ts) ==
  /\ pc[t] = "idle" /\ pc' = [pc EXCEPT ![t] = "read"]
  /\ Recorded(s, StopEvent, ts)
  /\ task' = [task EXCEPT ![t] = [NoTask EXCEPT !.sess = s]]
  /\ UNCHANGED <<book, file, copy, crashes>>

(* observe: the whole ledger of the session, from where the cursor stands. *)
Read(t) ==
  LET s == task[t].sess IN
  /\ pc[t] = "read" /\ pc' = [pc EXCEPT ![t] = "judge"]
  /\ task' = [task EXCEPT ![t].stream = InOrder(ledger[s]), ![t].index = book.cursors[s]]
  /\ UNCHANGED <<ledger, book, file, copy, crashes>>

\* The nudges of the stream the observation has not passed.
Ahead(t) == {i \in (task[t].index + 1)..Len(task[t].stream) : IsNudge(task[t].stream[i])}
Least(S) == CHOOSE i \in S : \A j \in S : i <= j

(* One turn of the loop: the next nudge is judged if its window has closed. *)
JudgeOne(t) ==
  LET q == task[t].stream
      i == Least(Ahead(t))
      a == AgentOf[task[t].sess] IN
  /\ pc[t] = "judge" /\ Ahead(t) # {} /\ Closed(q, i)
  /\ book' = [book EXCEPT !.stats[a][q[i].what] = Scored(@, q, i)]
  /\ task' = [task EXCEPT ![t].index = i]
  /\ UNCHANGED <<ledger, file, pc, copy, crashes>>

(* The loop ends at an open nudge or at the end; the cursor is set to there. *)
Close(t) ==
  LET q == task[t].stream IN
  /\ pc[t] = "judge"
  /\ Ahead(t) # {} => ~ Closed(q, Least(Ahead(t)))
  /\ book' = [book EXCEPT !.cursors[task[t].sess] =
                IF Ahead(t) = {} THEN Len(q) ELSE Least(Ahead(t)) - 1]
  /\ pc' = [pc EXCEPT ![t] = "dump"]
  /\ UNCHANGED <<ledger, file, task, copy, crashes>>

(* A review labels detectors that nudged, then saves. *)
Label(t, a, d, side) ==
  /\ pc[t] \in {"idle", "labels"} /\ pc' = [pc EXCEPT ![t] = "labels"]
  /\ \E s \in Sessions, i \in 1..MaxRecords :
       /\ AgentOf[s] = a /\ i <= Len(ledger[s])
       /\ IsNudge(ledger[s][i]) /\ ledger[s][i].what = d
  /\ Cardinality({x \in Agents \X Detectors : Judged(book.stats[x[1]][x[2]]) > 0}) < MaxLabels
  /\ book' = [book EXCEPT !.stats[a][d][side] = @ + 1]
  /\ UNCHANGED <<ledger, file, task, copy, crashes>>

(* save: the book is copied into a temporary file of this thread alone, which
   is renamed over rulebook.json; an error of the disk leaves the old file.   *)
Dump(t) ==
  /\ pc[t] \in {"labels", "dump"} /\ pc' = [pc EXCEPT ![t] = "replace"]
  /\ copy' = [copy EXCEPT ![t] = book]
  /\ UNCHANGED <<ledger, book, file, task, crashes>>

\* Mutation: the saved file has the scorecards but not the cursors.
ReplaceStats(t) ==
  /\ pc[t] = "replace" /\ pc' = [pc EXCEPT ![t] = "idle"]
  /\ file' \in {[copy[t] EXCEPT !.cursors = EmptyBook.cursors], file}
  /\ copy' = [copy EXCEPT ![t] = EmptyBook] /\ task' = [task EXCEPT ![t] = NoTask]
  /\ UNCHANGED <<ledger, book, crashes>>
Replace(t) ==
  /\ pc[t] = "replace" /\ pc' = [pc EXCEPT ![t] = "idle"]
  /\ file' \in {copy[t], file}
  /\ copy' = [copy EXCEPT ![t] = EmptyBook] /\ task' = [task EXCEPT ![t] = NoTask]
  /\ UNCHANGED <<ledger, book, crashes>>

(* The daemon dies at any point; the next one loads the file. *)
Crash ==
  /\ crashes < MaxCrashes /\ crashes' = crashes + 1
  /\ book' = file
  /\ pc' = [t \in Threads |-> "idle"] /\ task' = [t \in Threads |-> NoTask]
  /\ copy' = [t \in Threads |-> EmptyBook]
  /\ UNCHANGED <<ledger, file>>

Step(t) == Read(t) \/ JudgeOne(t) \/ Close(t) \/ Dump(t) \/ Replace(t)

Next ==
  \/ \E s \in Sessions, rec \in Observed, ts \in Times : Observe(s, rec, ts)
  \/ \E t \in Threads :
       \/ \E s \in Sessions, ts \in Times : Stop(t, s, ts)
       \/ \E a \in Agents, d \in Detectors, side \in {"agree", "disagree"} : Label(t, a, d, side)
       \/ Step(t)
  \/ Crash

Spec == Init /\ [][Next]_vars

-----------------------------------------------------------------------------
(* Properties.                                                               *)

Records == {Stamped(rec, ts) : rec \in Observed \cup {StopEvent}, ts \in Times}
Scorecards == {stat \in [nudges: Nat, inconclusive: Nat, adhered: Nat, steps: Nat,
                         agree: Nat, disagree: Nat] :
                 stat.adhered + stat.inconclusive <= stat.nudges}
Books == [stats: [Agents -> [Detectors -> Scorecards]], cursors: [Sessions -> Nat]]

(* Every variable holds a value of its kind; in memory, in the file and in the
   copies being saved no scorecard has more verdicts than nudges.             *)
TypeOK ==
  /\ ledger \in [Sessions -> Seq(Records)]
  /\ task \in [Threads -> [sess: Sessions \cup {"none"}, stream: Seq(Records), index: Nat]]
  /\ book \in Books /\ file \in Books /\ copy \in [Threads -> Books]
  /\ pc \in [Threads -> {"idle", "read", "judge", "labels", "dump", "replace"}]
  /\ crashes \in Nat

(* The nudges of a detector the cursors say were read. *)
ReadBy(b, a, d) ==
  {p \in Sessions \X (1..MaxRecords) :
     LET s == p[1]  i == p[2] IN
     /\ AgentOf[s] = a /\ i <= b.cursors[s] /\ i <= Len(ledger[s])
     /\ IsNudge(ledger[s][i]) /\ ledger[s][i].what = d}

Resting == \A t \in Threads : pc[t] # "judge"

(* "Feeding this the same growing stream twice counts each nudge exactly once"
   (Rulebook.observe), and "a restart must not recount last week's evidence"
   (tests/test_rulebook.py:779): between observations the scorecards of memory
   and file count exactly the nudges their cursors have passed.               *)
CountedOnce ==
  Resting => \A b \in {book, file}, a \in Agents, d \in Detectors :
    b.stats[a][d].nudges = Cardinality(ReadBy(b, a, d))

(* The book is "a recomputable cache" of the ledger (Rulebook.save): while no
   nudge was judged on a window a STOP had cut short and the session then went
   on, the scorecards are what a replay of the ledger up to the cursors gives,
   however the growing stream was cut into observations, saves and restarts.  *)
CutShort(q) ==
  \E i \in {n \in 1..Len(q) : IsNudge(q[n])} : \E j \in Events(q, i), k \in Following(q, i) :
    IsStop(q[j]) /\ j < k /\ q[k].type # "verdict"

MatchesReplay ==
  Resting /\ (\A s \in Sessions : ~ CutShort(ledger[s])) =>
    \A b \in {book, file}, a \in Agents, d \in Detectors :
      /\ b.stats[a][d].adhered =
           Cardinality({p \in ReadBy(b, a, d) : Followed(ledger[p[1]], p[2])})
      /\ b.stats[a][d].inconclusive =
           Cardinality({p \in ReadBy(b, a, d) : ~ Decided(ledger[p[1]], p[2])})

(* A STOP settles its session: when an observation ends, every nudge that is
   followed by a STOP in the stream it read has been counted, the cursor is
   past it.                                                                   *)
StopSettles ==
  [][\A t \in Threads : pc[t] = "judge" /\ pc'[t] = "dump" =>
       LET q == task[t].stream IN
       \A i, j \in 1..Len(q) : i < j /\ IsNudge(q[i]) /\ IsStop(q[j]) =>
         i <= book'.cursors[task[t].sess]]_vars
=============================================================================
