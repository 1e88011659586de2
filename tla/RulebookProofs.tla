---------------------------- MODULE RulebookProofs ----------------------------
(***************************************************************************)
(* Every nudge is counted once, for any sessions, agents, detectors, calls *)
(* and bounds, across saves that fail and restarts, as long as one thread  *)
(* at a time is at the book; and the scorecards stay consistent whatever   *)
(* the number of threads.                                                  *)
(*                                                                         *)
(* While an observation runs, memory holds counts its cursor does not      *)
(* speak for yet.  So the invariant compares the counts with the cursor    *)
(* moved on to where the observation stands.  It needs the stream the      *)
(* observation reads to be the beginning of the ledger, which is so        *)
(* because the stamps of a session ascend and the stream is not flipped.   *)
(* The verdicts equal those of a replay because a window that has closed   *)
(* reads the same in every longer ledger; and after a STOP none is open.   *)
(***************************************************************************)
EXTENDS Rulebook, FiniteSetTheorems, WellFoundedInduction, TLAPS

(* The thread whose turn it is, is the only one. *)
Alone == \A t, u \in Threads : t = u

Ascending == \A s \in Sessions : \A i, j \in 1..Len(ledger[s]) :
               i <= j => ledger[s][i].ts <= ledger[s][j].ts

(* Placed: the threads, and the room of the ledger. *)
Placed ==
  /\ \A s \in Sessions : Len(ledger[s]) <= MaxRecords
  /\ \A t \in Threads : pc[t] \in {"read", "judge"} => task[t].sess \in Sessions

(* An observation reads the beginning of the ledger, from the cursor on. *)
ReadsLedger(t) ==
  LET q == task[t].stream  s == task[t].sess IN
  /\ Len(q) <= Len(ledger[s]) /\ \A i \in 1..Len(q) : q[i] = ledger[s][i]
  /\ book.cursors[s] <= task[t].index /\ task[t].index <= Len(q)

(* The book b against the ledger l: how far it has read, and what it counted. *)
Within(l, b) == \A s \in Sessions : b.cursors[s] <= Len(l[s])
ReadIn(l, b, a, d) ==
  {p \in Sessions \X (1..MaxRecords) :
     /\ AgentOf[p[1]] = a /\ p[2] <= b.cursors[p[1]] /\ p[2] <= Len(l[p[1]])
     /\ IsNudge(l[p[1]][p[2]]) /\ l[p[1]][p[2]].what = d}
FollowedIn(l, b, a, d) == {p \in ReadIn(l, b, a, d) : Followed(l[p[1]], p[2])}
OpenIn(l, b, a, d) == {p \in ReadIn(l, b, a, d) : ~ Decided(l[p[1]], p[2])}

\* One card per nudge; the samples behind the cursors are closed; and the verdicts are
\* those of the ledger itself, unless a STOP had cut a window short.
Tallied(l, b) ==
  \A a \in Agents, d \in Detectors : b.stats[a][d].nudges = Cardinality(ReadIn(l, b, a, d))
Shut(l, b) ==
  \A s \in Sessions : \A i \in 1..Len(l[s]) : i <= b.cursors[s] /\ IsNudge(l[s][i]) => Closed(l[s], i)
Uncut(l) == \A s \in Sessions : ~ CutShort(l[s])
Replayed(l, b) ==
  \A a \in Agents, d \in Detectors :
    /\ b.stats[a][d].adhered = Cardinality(FollowedIn(l, b, a, d))
    /\ b.stats[a][d].inconclusive = Cardinality(OpenIn(l, b, a, d))
SameEvidence(stat, card) ==
  card.nudges = stat.nudges /\ card.adhered = stat.adhered /\ card.inconclusive = stat.inconclusive
Counted(l, b) == Tallied(l, b) /\ Shut(l, b) /\ (Uncut(l) => Replayed(l, b))

(* The book, its cursor where the observation of t stands. *)
Advanced(t) == [book EXCEPT !.cursors[task[t].sess] = task[t].index]

Kept ==
  /\ Within(ledger, book) /\ Within(ledger, file) /\ Counted(ledger, file)
  /\ \A t \in Threads : pc[t] = "replace" => Within(ledger, copy[t]) /\ Counted(ledger, copy[t])

Progress ==
  /\ Resting => Counted(ledger, book)
  /\ \A t \in Threads : pc[t] = "judge" => ReadsLedger(t) /\ Counted(ledger, Advanced(t))

Typed == TypeOK /\ Placed
IInv == Typed /\ Ascending /\ Kept /\ Progress

-----------------------------------------------------------------------------
(* The helpers.                                                              *)

(* A set of numbers has a least one. *)
LEMMA LeastExists ==
  ASSUME NEW S, S \subseteq Nat, S # {}
  PROVE  Least(S) \in S /\ \A j \in S : Least(S) <= j
<1> DEFINE Less == {ss \in Nat \X Nat : ss[1] < ss[2]}
<1>1. IsWellFoundedOn(Less, Nat)  BY NatLessThanWellFounded DEF OpToRel
<1>2. PICK i \in S : \A j \in S : <<j, i>> \notin Less  BY <1>1, WFMin
<1>3. ASSUME NEW j \in S PROVE i <= j
  <2>1. i \in Nat /\ j \in Nat /\ <<j, i>> \in Nat \X Nat  OBVIOUS
  <2>2. ~(j < i)  BY <1>2, <2>1
  <2> QED BY <2>1, <2>2
<1> QED BY <1>3 DEF Least

(* A set of numbers up to n has a greatest one. *)
LEMMA GreatestExists ==
  ASSUME NEW n \in Nat, NEW S, S \subseteq 1..n, S # {}
  PROVE  \E k \in S : \A m \in S : m <= k
<1> DEFINE Below == {n - k : k \in S}
<1>1. Below \subseteq Nat
  <2>1. \A k \in S : n - k \in Nat  OBVIOUS
  <2> QED BY <2>1
<1>2. Below # {}
  <2>1. PICK k \in S : TRUE  OBVIOUS
  <2>2. n - k \in Below  OBVIOUS
  <2> QED BY <2>2
<1>3. PICK b \in Below : \A c \in Below : b <= c
  <2> HIDE DEF Below
  <2> QED BY <1>1, <1>2, LeastExists
<1>4. PICK k \in S : b = n - k  OBVIOUS
<1>5. ASSUME NEW m \in S PROVE m <= k
  <2>1. n - k <= n - m  BY <1>3, <1>4
  <2> QED BY <2>1
<1> QED BY <1>5

(* A nudge names a detector, and a stamp is a number. *)
LEMMA RecordParts ==
  ASSUME NEW r \in Records
  PROVE  r.ts \in Nat /\ (IsNudge(r) => r.what \in Detectors)
<1>1. PICK rec \in Observed \cup {StopEvent}, ts \in Times : r = Stamped(rec, ts)
  BY DEF Records
<1>2. r.ts = ts /\ r.type = rec.type /\ r.what = rec.what  BY <1>1 DEF Stamped
<1>3. ts \in Nat  BY RulebookAssumption
<1>4. rec.type = "nudge" => rec.what \in Detectors
  BY RulebookAssumption DEF StopEvent
<1> QED BY <1>2, <1>3, <1>4 DEF IsNudge

(* A stream whose stamps ascend is not flipped. *)
LEMMA NotFlipped ==
  ASSUME NEW s \in Sessions, TypeOK, Ascending
  PROVE  InOrder(ledger[s]) = ledger[s]
<1> DEFINE q == ledger[s]
           down == {i \in 1..(Len(q) - 1) : q[i].ts > q[i + 1].ts}
           up == {i \in 1..(Len(q) - 1) : q[i].ts < q[i + 1].ts}
<1>1. q \in Seq(Records)  BY DEF TypeOK
<1>2. Len(q) \in Nat  BY <1>1
<1>3. ASSUME NEW i \in 1..(Len(q) - 1) PROVE ~ (q[i].ts > q[i + 1].ts)
  <2>1. i \in 1..Len(q) /\ i + 1 \in 1..Len(q) /\ i <= i + 1  BY <1>2
  <2>2. q[i].ts <= q[i + 1].ts  BY <2>1 DEF Ascending
  <2>3. q[i] \in Records /\ q[i + 1] \in Records  BY <1>1, <2>1
  <2> QED BY <2>2, <2>3, RecordParts
<1>4. down = {}  BY <1>3
<1>5. IsFiniteSet(up)
  <2>1. IsFiniteSet(1..(Len(q) - 1))  BY <1>2, FS_Interval
  <2> QED BY <2>1, FS_Subset
<1>6. Cardinality(down) = 0 /\ Cardinality(up) \in Nat
  BY <1>4, <1>5, FS_EmptySet, FS_CardinalityType
<1>7. InOrder(q) = IF Cardinality(down) > Cardinality(up) THEN Reversed(q) ELSE q
  BY DEF InOrder, Turns
<1> HIDE DEF down, up
<1> QED BY <1>6, <1>7

(* The steps to a follow-up are a number. *)
LEMMA StepsNat ==
  ASSUME NEW q \in Seq(Records), NEW i \in 1..Len(q)
  PROVE  Steps(q, i) \in Nat
<1> DEFINE steps == {k \in Events(q, i) : \A j \in RealCalls(q, i) : k <= j}
<1>1. Len(q) \in Nat  OBVIOUS
<1>2. IsFiniteSet((i + 1)..Len(q))  BY <1>1, FS_Interval
<1>3. steps \subseteq (i + 1)..Len(q)  BY DEF Events, Following
<1>4. Cardinality(steps) \in Nat  BY <1>2, <1>3, FS_Subset, FS_CardinalityType
<1> QED BY <1>4 DEF Steps

(* One more nudge keeps a scorecard consistent: what was followed was decided. *)
LEMMA ScoredCard ==
  ASSUME NEW stat \in Scorecards, NEW q \in Seq(Records), NEW i \in 1..Len(q)
  PROVE  LET card == Scored(stat, q, i) IN
         /\ card \in Scorecards /\ card.nudges = stat.nudges + 1
         /\ card.adhered = Bump(stat.adhered, Followed(q, i))
         /\ card.inconclusive = Bump(stat.inconclusive, ~ Decided(q, i))
<1>1. /\ stat \in [nudges: Nat, inconclusive: Nat, adhered: Nat, steps: Nat,
                   agree: Nat, disagree: Nat]
      /\ stat.adhered + stat.inconclusive <= stat.nudges
  BY DEF Scorecards
<1>2. Steps(q, i) \in Nat  BY StepsNat
<1>3. Followed(q, i) => Decided(q, i)  BY DEF Followed
<1> DEFINE card == Scored(stat, q, i)
           steps == IF Followed(q, i) THEN stat.steps + Steps(q, i) ELSE stat.steps
           open == Bump(stat.inconclusive, ~ Decided(q, i))
           followed == Bump(stat.adhered, Followed(q, i))
<1>4. card = [stat EXCEPT !.nudges = stat.nudges + 1,
                          !.inconclusive = open, !.adhered = followed,
                          !.steps = steps]
  BY <1>1 DEF Scored
<1>5. steps \in Nat  BY <1>1, <1>2
<1>6. open \in Nat /\ followed \in Nat /\ open + followed <= stat.nudges + 1
  BY <1>1, <1>3 DEF Bump
<1> HIDE DEF card, steps, open, followed
<1>7. /\ card \in [nudges: Nat, inconclusive: Nat, adhered: Nat, steps: Nat,
                   agree: Nat, disagree: Nat]
      /\ card.adhered = followed /\ card.inconclusive = open /\ card.nudges = stat.nudges + 1
  <2> DEFINE more == stat.nudges + 1
  <2>1. more \in Nat  BY <1>1
  <2>2. card = [stat EXCEPT !.nudges = more, !.inconclusive = open,
                            !.adhered = followed, !.steps = steps]
    BY <1>4
  <2> HIDE DEF more
  <2>3. card = [nudges |-> more, inconclusive |-> open, adhered |-> followed, steps |-> steps,
                agree |-> stat.agree, disagree |-> stat.disagree]
    BY <1>1, <2>2
  <2>4. stat.agree \in Nat /\ stat.disagree \in Nat  BY <1>1
  <2>5. card.nudges = more  BY <2>3
  <2> QED BY <1>5, <1>6, <2>1, <2>3, <2>4, <2>5 DEF more
<1>8. card.adhered + card.inconclusive <= card.nudges  BY <1>1, <1>6, <1>7
<1>9. card \in Scorecards  BY <1>7, <1>8 DEF Scorecards
<1> QED BY <1>7, <1>9 DEF card, followed, open

(* The nudges ahead are numbered, and the least of them is the next. *)
LEMMA NextAhead ==
  ASSUME TypeOK, NEW t \in Threads, Ahead(t) # {}
  PROVE  LET i == Least(Ahead(t))  q == task[t].stream IN
         /\ q \in Seq(Records) /\ i \in 1..Len(q) /\ task[t].index < i
         /\ IsNudge(q[i]) /\ q[i].what \in Detectors
         /\ \A j \in 1..Len(q) : task[t].index < j /\ j < i => ~ IsNudge(q[j])
<1> DEFINE i == Least(Ahead(t))  q == task[t].stream
<1>1. q \in Seq(Records) /\ task[t].index \in Nat /\ Len(q) \in Nat  BY DEF TypeOK
<1>2. Ahead(t) \subseteq 1..Len(q) /\ Ahead(t) \subseteq Nat  BY <1>1 DEF Ahead
<1>3. i \in Ahead(t) /\ \A j \in Ahead(t) : i <= j  BY <1>2, LeastExists
<1>4. i \in 1..Len(q) /\ IsNudge(q[i]) /\ task[t].index < i  BY <1>1, <1>3 DEF Ahead
<1>5. q[i].what \in Detectors
  <2>1. q[i] \in Records  BY <1>1, <1>4
  <2> QED BY <1>4, <2>1, RecordParts
<1>6. ASSUME NEW j \in 1..Len(q), task[t].index < j, j < i PROVE ~ IsNudge(q[j])
  <2>1. IsNudge(q[j]) => j \in Ahead(t)  BY <1>1, <1>6 DEF Ahead
  <2> QED BY <1>2, <1>3, <1>6, <2>1
<1> QED BY <1>1, <1>4, <1>5, <1>6

(* A scorecard is replaced: the others and the cursors stay. *)
LEMMA CardReplaced ==
  ASSUME NEW b \in Books, NEW a \in Agents, NEW d \in Detectors, NEW card \in Scorecards
  PROVE  LET c == [b EXCEPT !.stats[a][d] = card] IN
         /\ c \in Books /\ c.cursors = b.cursors /\ c.stats[a][d] = card
         /\ \A x \in Agents, y \in Detectors : x # a \/ y # d => c.stats[x][y] = b.stats[x][y]
<1> DEFINE c == [b EXCEPT !.stats[a][d] = card]
<1>1. b = [stats |-> b.stats, cursors |-> b.cursors]  BY DEF Books
<1>2. b.stats \in [Agents -> [Detectors -> Scorecards]] /\ b.cursors \in [Sessions -> Nat]
  BY DEF Books
<1>3. c.stats = [b.stats EXCEPT ![a] = [@ EXCEPT ![d] = card]] /\ c.cursors = b.cursors
      /\ c = [stats |-> c.stats, cursors |-> c.cursors]
  BY <1>1
<1> HIDE DEF c
<1>4. c.stats \in [Agents -> [Detectors -> Scorecards]]  BY <1>2, <1>3
<1>5. c \in Books  BY <1>2, <1>3, <1>4 DEF Books
<1> QED BY <1>2, <1>3, <1>5 DEF c

(* A cursor is moved: the scorecards and the other cursors stay. *)
LEMMA CursorMoved ==
  ASSUME NEW b \in Books, NEW s \in Sessions, NEW n \in Nat
  PROVE  LET c == [b EXCEPT !.cursors[s] = n] IN
         /\ c \in Books /\ c.stats = b.stats
         /\ c.cursors = [b.cursors EXCEPT ![s] = n]
<1> DEFINE c == [b EXCEPT !.cursors[s] = n]
<1>1. b = [stats |-> b.stats, cursors |-> b.cursors]  BY DEF Books
<1>2. b.stats \in [Agents -> [Detectors -> Scorecards]] /\ b.cursors \in [Sessions -> Nat]
  BY DEF Books
<1>3. c.cursors = [b.cursors EXCEPT ![s] = n] /\ c.stats = b.stats
      /\ c = [stats |-> c.stats, cursors |-> c.cursors]
  BY <1>1
<1> HIDE DEF c
<1>4. c \in Books  BY <1>2, <1>3 DEF Books
<1> QED BY <1>3, <1>4 DEF c

LEMMA EmptyBooks ==
  /\ EmptyBook \in Books
  /\ \A a \in Agents, d \in Detectors :
       /\ EmptyBook.stats[a][d].nudges = 0 /\ EmptyBook.stats[a][d].adhered = 0
       /\ EmptyBook.stats[a][d].inconclusive = 0
  /\ \A s \in Sessions : EmptyBook.cursors[s] = 0
<1>1. Fresh \in Scorecards /\ Fresh.nudges = 0 /\ Fresh.adhered = 0 /\ Fresh.inconclusive = 0
  BY DEF Fresh, Scorecards
<1> QED BY <1>1 DEF EmptyBook, Books

-----------------------------------------------------------------------------
(* The types, for any number of threads.                                     *)

Tasks == [sess: Sessions \cup {"none"}, stream: Seq(Records), index: Nat]

LEMMA NoTasks == NoTask \in Tasks
<1>1. <<>> \in Seq(Records)  OBVIOUS
<1> QED BY <1>1 DEF NoTask, Tasks

LEMMA TypedInit == Init => Typed
<1> SUFFICES ASSUME Init PROVE Typed  OBVIOUS
<1>1. EmptyBook \in Books /\ NoTask \in Tasks  BY EmptyBooks, NoTasks
<1>2. TypeOK
  <2>1. ledger \in [Sessions -> Seq(Records)]
    <3>1. <<>> \in Seq(Records)  OBVIOUS
    <3> QED BY <3>1 DEF Init
  <2> QED BY <1>1, <2>1 DEF Init, TypeOK, Tasks
<1>3. Placed
  <2>1. \A s \in Sessions : Len(ledger[s]) = 0  BY DEF Init
  <2> QED BY <2>1, RulebookAssumption DEF Init, Placed
<1> QED BY <1>2, <1>3 DEF Typed

(* One more record of a session, and no other ledger. *)
LEMMA LedgerGrows ==
  ASSUME Typed, NEW s \in Sessions, NEW rec \in Observed \cup {StopEvent}, NEW ts \in Times,
         Recorded(s, rec, ts)
  PROVE  /\ ledger' \in [Sessions -> Seq(Records)]
         /\ \A r \in Sessions : Len(ledger[r]) <= Len(ledger'[r]) /\ Len(ledger'[r]) <= MaxRecords
         /\ \A r \in Sessions : \A i \in 1..Len(ledger[r]) : ledger'[r][i] = ledger[r][i]
         /\ \A r \in Sessions : r # s => ledger'[r] = ledger[r]
         /\ Len(ledger'[s]) = Len(ledger[s]) + 1
         /\ ledger'[s][Len(ledger[s]) + 1].ts = ts
<1> DEFINE new == Stamped(rec, ts)  longer == Append(ledger[s], new)
<1>1. new \in Records /\ new.ts = ts  BY DEF Records, Stamped
<1>2. ledger \in [Sessions -> Seq(Records)] /\ ledger' = [ledger EXCEPT ![s] = longer]
  BY DEF Typed, TypeOK, Recorded
<1>3. \A r \in Sessions : Len(ledger[r]) \in Nat /\ Len(ledger[r]) <= MaxRecords
  BY <1>2 DEF Typed, Placed
<1>4. Len(ledger[s]) < MaxRecords /\ MaxRecords \in Nat  BY RulebookAssumption DEF Recorded
<1> HIDE DEF new
<1>5. /\ longer \in Seq(Records) /\ Len(longer) = Len(ledger[s]) + 1
      /\ longer[Len(ledger[s]) + 1] = new
      /\ \A i \in 1..Len(ledger[s]) : longer[i] = ledger[s][i]
  BY <1>1, <1>2
<1> HIDE DEF longer
<1>6. \A r \in Sessions : ledger'[r] = IF r = s THEN longer ELSE ledger[r]  BY <1>2
<1>7. ledger' \in [Sessions -> Seq(Records)]  BY <1>2, <1>5
<1>8. \A r \in Sessions : Len(ledger[r]) <= Len(ledger'[r]) /\ Len(ledger'[r]) <= MaxRecords
  BY <1>3, <1>4, <1>5, <1>6
<1> QED BY <1>1, <1>5, <1>6, <1>7, <1>8

LEMMA ObserveTyped ==
  ASSUME Typed, NEW s \in Sessions, NEW rec \in Observed, NEW ts \in Times, Observe(s, rec, ts)
  PROVE  Typed'
<1>1. UNCHANGED <<book, file, pc, task, copy, crashes>> /\ Recorded(s, rec, ts)  BY DEF Observe
<1>2. /\ ledger' \in [Sessions -> Seq(Records)]
      /\ \A r \in Sessions : Len(ledger'[r]) <= MaxRecords
  BY <1>1, LedgerGrows
<1>3. TypeOK'  BY <1>1, <1>2 DEF Typed, TypeOK
<1>4. Placed'  BY <1>1, <1>2 DEF Typed, Placed
<1> QED BY <1>3, <1>4 DEF Typed

LEMMA StopTyped ==
  ASSUME Typed, NEW t \in Threads, NEW s \in Sessions, NEW ts \in Times, Stop(t, s, ts)
  PROVE  Typed'
<1>1. UNCHANGED <<book, file, copy, crashes>> /\ Recorded(s, StopEvent, ts)  BY DEF Stop
<1>2. /\ ledger' \in [Sessions -> Seq(Records)]
      /\ \A r \in Sessions : Len(ledger'[r]) <= MaxRecords
  BY <1>1, LedgerGrows
<1> DEFINE new == [NoTask EXCEPT !.sess = s]
<1>3. new \in Tasks /\ new.sess = s
  <2>1. new = [sess |-> s, stream |-> <<>>, index |-> 0]  BY DEF NoTask
  <2>2. <<>> \in Seq(Records)  OBVIOUS
  <2> HIDE DEF new
  <2> QED BY <2>1, <2>2 DEF Tasks
<1>4. task' = [task EXCEPT ![t] = new] /\ pc' = [pc EXCEPT ![t] = "read"]  BY DEF Stop
<1> HIDE DEF new
<1>5. TypeOK'
  <2>1. task' \in [Threads -> Tasks]  BY <1>3, <1>4 DEF Typed, TypeOK, Tasks
  <2>2. pc' \in [Threads -> {"idle", "read", "judge", "labels", "dump", "replace"}]
    BY <1>4 DEF Typed, TypeOK
  <2> QED BY <1>1, <1>2, <2>1, <2>2 DEF Typed, TypeOK, Tasks
<1>6. Placed'
  <2>1. \A u \in Threads : pc'[u] \in {"read", "judge"} => task'[u].sess \in Sessions
    BY <1>3, <1>4 DEF Typed, TypeOK, Placed
  <2> QED BY <1>2, <2>1 DEF Placed
<1> QED BY <1>5, <1>6 DEF Typed

LEMMA ReadTyped ==
  ASSUME Typed, NEW t \in Threads, Read(t), InOrder(ledger[task[t].sess]) \in Seq(Records)
  PROVE  Typed'
<1> DEFINE s == task[t].sess
           new == [task[t] EXCEPT !.stream = InOrder(ledger[s]), !.index = book.cursors[s]]
<1>1. s \in Sessions /\ pc[t] = "read" /\ pc' = [pc EXCEPT ![t] = "judge"]
  BY DEF Read, Typed, Placed
<1>2. task' = [task EXCEPT ![t] = new] /\ UNCHANGED <<ledger, book, file, copy, crashes>>
  BY DEF Read, Typed, TypeOK
<1>3. new \in Tasks /\ new.sess = s
  <2> DEFINE q == InOrder(ledger[s])  c == book.cursors[s]
  <2>1. c \in Nat  BY <1>1 DEF Typed, TypeOK, Books
  <2>2. q \in Seq(Records) /\ task[t] \in Tasks  BY DEF Typed, TypeOK, Tasks
  <2>3. new = [task[t] EXCEPT !.stream = q, !.index = c]  OBVIOUS
  <2> HIDE DEF q, c, new
  <2>4. new = [sess |-> s, stream |-> q, index |-> c]  BY <2>2, <2>3 DEF Tasks
  <2> QED BY <1>1, <2>1, <2>2, <2>4 DEF Tasks
<1> HIDE DEF new
<1>4. TypeOK'
  <2>1. task' \in [Threads -> Tasks]  BY <1>2, <1>3 DEF Typed, TypeOK, Tasks
  <2>2. pc' \in [Threads -> {"idle", "read", "judge", "labels", "dump", "replace"}]
    BY <1>1 DEF Typed, TypeOK
  <2> QED BY <1>2, <2>1, <2>2 DEF Typed, TypeOK, Tasks
<1>5. Placed'
  <2>1. \A u \in Threads : pc'[u] \in {"read", "judge"} => task'[u].sess \in Sessions
    BY <1>1, <1>2, <1>3 DEF Typed, TypeOK, Placed
  <2> QED BY <1>2, <2>1 DEF Typed, Placed
<1> QED BY <1>4, <1>5 DEF Typed

(* What one judgement does, named. *)
LEMMA JudgeOneParts ==
  ASSUME Typed, NEW t \in Threads, JudgeOne(t)
  PROVE  LET q == task[t].stream  i == Least(Ahead(t))
             s == task[t].sess  a == AgentOf[s]  d == q[i].what
             card == Scored(book.stats[a][d], q, i) IN
         /\ s \in Sessions /\ a \in Agents /\ d \in Detectors /\ i \in 1..Len(q)
         /\ card \in Scorecards /\ card.nudges = book.stats[a][d].nudges + 1
         /\ card.adhered = Bump(book.stats[a][d].adhered, Followed(q, i))
         /\ card.inconclusive = Bump(book.stats[a][d].inconclusive, ~ Decided(q, i))
         /\ book' = [book EXCEPT !.stats[a][d] = card] /\ Closed(q, i)
         /\ task' = [task EXCEPT ![t].index = i] /\ Ahead(t) # {} /\ pc[t] = "judge"
<1> DEFINE q == task[t].stream  i == Least(Ahead(t))
           s == task[t].sess  a == AgentOf[s]  d == q[i].what
           card == Scored(book.stats[a][d], q, i)
<1>1. /\ Ahead(t) # {} /\ pc[t] = "judge" /\ Closed(q, i)
      /\ task' = [task EXCEPT ![t].index = i]
  BY DEF JudgeOne
<1>2. s \in Sessions /\ a \in Agents  BY <1>1, RulebookAssumption DEF Typed, Placed
<1>3. q \in Seq(Records) /\ i \in 1..Len(q) /\ d \in Detectors  BY <1>1, NextAhead DEF Typed
<1>4. book.stats[a][d] \in Scorecards  BY <1>2, <1>3 DEF Typed, TypeOK, Books
<1>5. /\ card \in Scorecards /\ card.nudges = book.stats[a][d].nudges + 1
      /\ card.adhered = Bump(book.stats[a][d].adhered, Followed(q, i))
      /\ card.inconclusive = Bump(book.stats[a][d].inconclusive, ~ Decided(q, i))
  BY <1>3, <1>4, ScoredCard
<1>6. book' = [book EXCEPT !.stats[a][d] = card]  BY DEF JudgeOne
<1> QED BY <1>1, <1>2, <1>3, <1>5, <1>6

LEMMA JudgeOneTyped ==
  ASSUME Typed, NEW t \in Threads, JudgeOne(t)
  PROVE  Typed'
<1>1. book' \in Books
  <2>1. PICK a \in Agents, d \in Detectors, card \in Scorecards :
          book' = [book EXCEPT !.stats[a][d] = card]
    <3> DEFINE q == task[t].stream  a == AgentOf[task[t].sess]  d == q[Least(Ahead(t))].what
               card == Scored(book.stats[a][d], q, Least(Ahead(t)))
    <3>1. /\ a \in Agents /\ d \in Detectors /\ card \in Scorecards
          /\ book' = [book EXCEPT !.stats[a][d] = card]
      BY JudgeOneParts
    <3> HIDE DEF a, d, card
    <3> QED BY <3>1
  <2>2. book \in Books  BY DEF Typed, TypeOK
  <2> QED BY <2>1, <2>2, CardReplaced
<1>2. UNCHANGED <<ledger, file, pc, copy, crashes>>  BY DEF JudgeOne
<1> DEFINE i == Least(Ahead(t))  new == [task[t] EXCEPT !.index = i]
<1>3. i \in 1..Len(task[t].stream) /\ task' = [task EXCEPT ![t] = new]
  BY JudgeOneParts DEF Typed, TypeOK
<1>4. new \in Tasks /\ new.sess = task[t].sess
  <2>1. i \in Nat  BY <1>3 DEF Typed, TypeOK
  <2> QED BY <2>1 DEF Typed, TypeOK, Tasks
<1> HIDE DEF new, i
<1>5. TypeOK'
  <2>1. task' \in [Threads -> Tasks]  BY <1>3, <1>4 DEF Typed, TypeOK, Tasks
  <2> QED BY <1>1, <1>2, <2>1 DEF Typed, TypeOK, Tasks
<1>6. Placed'
  <2>1. \A u \in Threads : pc'[u] \in {"read", "judge"} => task'[u].sess \in Sessions
    BY <1>2, <1>3, <1>4 DEF Typed, TypeOK, Placed
  <2> QED BY <1>2, <2>1 DEF Typed, Placed
<1> QED BY <1>5, <1>6 DEF Typed

(* What the end of an observation does, named. *)
LEMMA CloseParts ==
  ASSUME Typed, NEW t \in Threads, Close(t)
  PROVE  LET q == task[t].stream  s == task[t].sess
             n == IF Ahead(t) = {} THEN Len(q) ELSE Least(Ahead(t)) - 1 IN
         /\ s \in Sessions /\ n \in Nat /\ n <= Len(q)
         /\ task[t].index <= Len(q) => task[t].index <= n
         /\ \A j \in 1..Len(q) : task[t].index < j /\ j <= n => ~ IsNudge(q[j])
         /\ book' = [book EXCEPT !.cursors[s] = n] /\ pc[t] = "judge"
<1> DEFINE q == task[t].stream  s == task[t].sess
           n == IF Ahead(t) = {} THEN Len(q) ELSE Least(Ahead(t)) - 1
<1>1. pc[t] = "judge" /\ book' = [book EXCEPT !.cursors[s] = n]  BY DEF Close
<1>2. s \in Sessions  BY <1>1 DEF Typed, Placed
<1>3. q \in Seq(Records) /\ task[t].index \in Nat /\ Len(q) \in Nat  BY DEF Typed, TypeOK
<1>4. CASE Ahead(t) = {}
  <2>1. \A j \in 1..Len(q) : task[t].index < j => ~ IsNudge(q[j])  BY <1>3, <1>4 DEF Ahead
  <2> QED BY <1>1, <1>2, <1>3, <1>4, <2>1
<1>5. CASE Ahead(t) # {}
  <2> DEFINE i == Least(Ahead(t))
  <2>1. /\ i \in 1..Len(q) /\ task[t].index < i
        /\ \A j \in 1..Len(q) : task[t].index < j /\ j < i => ~ IsNudge(q[j])
    BY <1>5, NextAhead DEF Typed
  <2>2. n = i - 1  BY <1>5
  <2> HIDE DEF i, n
  <2>3. /\ n \in Nat /\ n <= Len(q) /\ task[t].index <= n
        /\ \A j \in 1..Len(q) : task[t].index < j /\ j <= n => ~ IsNudge(q[j])
    BY <1>3, <2>1, <2>2
  <2> QED BY <1>1, <1>2, <2>3 DEF n
<1> QED BY <1>4, <1>5

LEMMA CloseTyped ==
  ASSUME Typed, NEW t \in Threads, Close(t)
  PROVE  Typed'
<1>1. book' \in Books
  <2>1. PICK s \in Sessions, n \in Nat : book' = [book EXCEPT !.cursors[s] = n]
    BY CloseParts
  <2>2. book \in Books  BY DEF Typed, TypeOK
  <2> QED BY <2>1, <2>2, CursorMoved
<1>2. UNCHANGED <<ledger, file, task, copy, crashes>> /\ pc' = [pc EXCEPT ![t] = "dump"]
  BY DEF Close
<1>3. TypeOK'  BY <1>1, <1>2 DEF Typed, TypeOK
<1>4. Placed'  BY <1>2 DEF Typed, TypeOK, Placed
<1> QED BY <1>3, <1>4 DEF Typed

(* What a label does, named. *)
LEMMA LabelParts ==
  ASSUME Typed, NEW t \in Threads, NEW a \in Agents, NEW d \in Detectors,
         NEW side \in {"agree", "disagree"}, Label(t, a, d, side)
  PROVE  \E card \in Scorecards : /\ SameEvidence(book.stats[a][d], card)
                                  /\ book' = [book EXCEPT !.stats[a][d] = card]
<1> DEFINE stat == book.stats[a][d]  card == [stat EXCEPT ![side] = stat[side] + 1]
<1>1. /\ stat \in [nudges: Nat, inconclusive: Nat, adhered: Nat, steps: Nat,
                   agree: Nat, disagree: Nat]
      /\ stat.adhered + stat.inconclusive <= stat.nudges
  BY DEF Typed, TypeOK, Books, Scorecards
<1>2. book' = [book EXCEPT !.stats[a][d] = card]  BY DEF Label
<1> HIDE DEF stat
<1>3. card \in [nudges: Nat, inconclusive: Nat, adhered: Nat, steps: Nat,
                agree: Nat, disagree: Nat]
      /\ SameEvidence(stat, card)
  <2>1. CASE side = "agree"  BY <1>1, <2>1 DEF SameEvidence
  <2>2. CASE side = "disagree"  BY <1>1, <2>2 DEF SameEvidence
  <2> QED BY <2>1, <2>2
<1>4. card \in Scorecards  BY <1>1, <1>3 DEF Scorecards, SameEvidence
<1> QED BY <1>2, <1>3, <1>4 DEF stat

LEMMA LabelTyped ==
  ASSUME Typed, NEW t \in Threads, NEW a \in Agents, NEW d \in Detectors,
         NEW side \in {"agree", "disagree"}, Label(t, a, d, side)
  PROVE  Typed'
<1>1. book' \in Books
  <2>1. PICK card \in Scorecards : book' = [book EXCEPT !.stats[a][d] = card]
    BY LabelParts
  <2>2. book \in Books  BY DEF Typed, TypeOK
  <2> QED BY <2>1, <2>2, CardReplaced
<1>2. UNCHANGED <<ledger, file, task, copy, crashes>> /\ pc' = [pc EXCEPT ![t] = "labels"]
  BY DEF Label
<1>3. TypeOK'  BY <1>1, <1>2 DEF Typed, TypeOK
<1>4. Placed'  BY <1>2 DEF Typed, TypeOK, Placed
<1> QED BY <1>3, <1>4 DEF Typed

LEMMA DumpTyped ==
  ASSUME Typed, NEW t \in Threads, Dump(t)
  PROVE  Typed'
<1>1. TypeOK'  BY DEF Typed, TypeOK, Dump
<1>2. Placed'  BY DEF Typed, TypeOK, Placed, Dump
<1> QED BY <1>1, <1>2 DEF Typed

LEMMA ReplaceTyped ==
  ASSUME Typed, NEW t \in Threads, Replace(t)
  PROVE  Typed'
<1>1. EmptyBook \in Books /\ NoTask \in Tasks  BY EmptyBooks, NoTasks
<1>2. /\ pc' = [pc EXCEPT ![t] = "idle"] /\ file' \in {copy[t], file}
      /\ copy' = [copy EXCEPT ![t] = EmptyBook] /\ task' = [task EXCEPT ![t] = NoTask]
      /\ UNCHANGED <<ledger, book, crashes>>
  BY DEF Replace
<1>3. TypeOK'  BY <1>1, <1>2 DEF Typed, TypeOK, Tasks
<1>4. Placed'  BY <1>2 DEF Typed, TypeOK, Placed
<1> QED BY <1>3, <1>4 DEF Typed

LEMMA CrashTyped ==
  ASSUME Typed, Crash
  PROVE  Typed'
<1>1. EmptyBook \in Books /\ NoTask \in Tasks  BY EmptyBooks, NoTasks
<1>2. TypeOK'  BY <1>1 DEF Typed, TypeOK, Crash, Tasks
<1>3. Placed'  BY DEF Typed, TypeOK, Placed, Crash
<1> QED BY <1>2, <1>3 DEF Typed

(* A step keeps the types. *)
LEMMA TypedStep == Typed /\ Ascending /\ [Next]_vars => Typed'
<1> SUFFICES ASSUME Typed, Ascending, [Next]_vars PROVE Typed'  OBVIOUS
<1>1. CASE \E s \in Sessions, rec \in Observed, ts \in Times : Observe(s, rec, ts)
  BY <1>1, ObserveTyped
<1>2. CASE \E t \in Threads, s \in Sessions, ts \in Times : Stop(t, s, ts)
  BY <1>2, StopTyped
<1>3. CASE \E t \in Threads, a \in Agents, d \in Detectors, side \in {"agree", "disagree"} :
             Label(t, a, d, side)
  BY <1>3, LabelTyped
<1>4. CASE \E t \in Threads : Read(t)
  <2>1. PICK t \in Threads : Read(t)  BY <1>4
  <2>2. task[t].sess \in Sessions  BY <2>1 DEF Read, Typed, Placed
  <2>3. InOrder(ledger[task[t].sess]) \in Seq(Records)
    <3>1. InOrder(ledger[task[t].sess]) = ledger[task[t].sess]  BY <2>2, NotFlipped DEF Typed
    <3> QED BY <2>2, <3>1 DEF Typed, TypeOK
  <2> QED BY <2>1, <2>3, ReadTyped
<1>5. CASE \E t \in Threads : JudgeOne(t)  BY <1>5, JudgeOneTyped
<1>6. CASE \E t \in Threads : Close(t)  BY <1>6, CloseTyped
<1>7. CASE \E t \in Threads : Dump(t)  BY <1>7, DumpTyped
<1>8. CASE \E t \in Threads : Replace(t)  BY <1>8, ReplaceTyped
<1>9. CASE Crash  BY <1>9, CrashTyped
<1>10. CASE UNCHANGED vars  BY <1>10 DEF vars, Typed, TypeOK, Placed
<1> QED BY <1>1, <1>2, <1>3, <1>4, <1>5, <1>6, <1>7, <1>8, <1>9, <1>10 DEF Next, Step

LEMMA AscendingInit == Init => Ascending
<1>1. Init => \A s \in Sessions : Len(ledger[s]) = 0  BY DEF Init
<1> QED BY <1>1 DEF Ascending

(* Records are appended in the order of their stamps. *)
LEMMA RecordedAscends ==
  ASSUME Typed, Ascending, NEW s \in Sessions, NEW rec \in Observed \cup {StopEvent},
         NEW ts \in Times, Recorded(s, rec, ts)
  PROVE  Ascending'
<1> SUFFICES ASSUME NEW r \in Sessions, NEW i \in 1..Len(ledger'[r]), NEW j \in 1..Len(ledger'[r]),
                    i <= j
             PROVE  ledger'[r][i].ts <= ledger'[r][j].ts
  BY DEF Ascending
<1>1. /\ ledger \in [Sessions -> Seq(Records)]
      /\ \A k \in 1..Len(ledger[r]) : ledger'[r][k] = ledger[r][k]
      /\ r # s => ledger'[r] = ledger[r]
      /\ Len(ledger'[s]) = Len(ledger[s]) + 1
      /\ ledger'[s][Len(ledger[s]) + 1].ts = ts
  BY LedgerGrows DEF Typed, TypeOK
<1>2. CASE j \in 1..Len(ledger[r])
  <2>1. i \in 1..Len(ledger[r])  BY <1>1, <1>2
  <2> QED BY <1>1, <1>2, <2>1 DEF Ascending
<1>3. CASE j \notin 1..Len(ledger[r])
  <2>1. r = s /\ j = Len(ledger[s]) + 1  BY <1>1, <1>3
  <2>2. CASE i = j
    <3>1. ledger'[r][j].ts \in Nat  BY <1>1, <2>1, RulebookAssumption
    <3> QED BY <2>2, <3>1
  <2>3. CASE i # j
    <3>1. i \in 1..Len(ledger[s])  BY <1>1, <2>1, <2>3
    <3>2. ledger[s][i].ts <= ts  BY <3>1 DEF Recorded
    <3> QED BY <1>1, <2>1, <3>1, <3>2
  <2> QED BY <2>2, <2>3
<1> QED BY <1>2, <1>3

LEMMA AscendingStep == Typed /\ Ascending /\ [Next]_vars => Ascending'
<1> SUFFICES ASSUME Typed, Ascending, [Next]_vars PROVE Ascending'  OBVIOUS
<1>1. CASE \E s \in Sessions, rec \in Observed, ts \in Times : Observe(s, rec, ts)
  BY <1>1, RecordedAscends DEF Observe
<1>2. CASE \E t \in Threads, s \in Sessions, ts \in Times : Stop(t, s, ts)
  BY <1>2, RecordedAscends DEF Stop
<1>3. CASE UNCHANGED ledger  BY <1>3 DEF Ascending
<1> QED BY <1>1, <1>2, <1>3 DEF Next, Step, vars, Label, Read, JudgeOne, Close, Dump, Replace, Crash

(* No scorecard, in memory, on disk or in a thread's hands, ever claims more verdicts  *)
(* than nudges, for any number of threads at the book (RuleStat.record, save, load).   *)
THEOREM RulebookTypes == Spec => []TypeOK
<1>1. Init => Typed /\ Ascending  BY TypedInit, AscendingInit
<1>2. Typed /\ Ascending /\ [Next]_vars => (Typed /\ Ascending)'  BY TypedStep, AscendingStep
<1>3. Typed => TypeOK  BY DEF Typed
<1> QED BY <1>1, <1>2, <1>3, PTL DEF Spec

-----------------------------------------------------------------------------
(* The window of a nudge.                                                    *)

\* The events of the stream q after the nudge at i, up to n.
EventsTo(q, i, n) == {k \in (i + 1)..n : IsEvent(q[k])}

LEMMA EventsToFinite ==
  ASSUME NEW q, NEW i \in Int, NEW n \in Int
  PROVE  IsFiniteSet(EventsTo(q, i, n)) /\ Cardinality(EventsTo(q, i, n)) \in Nat
<1>1. IsFiniteSet((i + 1)..n)  BY FS_Interval
<1>2. EventsTo(q, i, n) \subseteq (i + 1)..n  BY DEF EventsTo
<1> QED BY <1>1, <1>2, FS_Subset, FS_CardinalityType

(* A later bound has every event of an earlier one. *)
LEMMA EventsToGrow ==
  ASSUME NEW q, NEW i \in Int, NEW m \in Int, NEW n \in Int, m <= n
  PROVE  Cardinality(EventsTo(q, i, m)) <= Cardinality(EventsTo(q, i, n))
<1>1. EventsTo(q, i, m) \subseteq EventsTo(q, i, n)  BY DEF EventsTo
<1> QED BY <1>1, EventsToFinite, FS_Subset

(* A record follows the nudge while the window is not full before it. *)
LEMMA FollowingParts ==
  ASSUME NEW q \in Seq(Records), NEW i \in 1..Len(q), NEW j
  PROVE  j \in Following(q, i) <=>
           j \in (i + 1)..Len(q) /\ Cardinality(EventsTo(q, i, j - 1)) < Window
BY DEF Following, EventsTo

LEMMA EventsFinite ==
  ASSUME NEW q \in Seq(Records), NEW i \in 1..Len(q)
  PROVE  IsFiniteSet(Events(q, i)) /\ Events(q, i) \subseteq (i + 1)..Len(q)
<1>1. Len(q) \in Nat  OBVIOUS
<1>2. IsFiniteSet((i + 1)..Len(q))  BY <1>1, FS_Interval
<1>3. Events(q, i) \subseteq (i + 1)..Len(q)  BY DEF Events, Following
<1> QED BY <1>2, <1>3, FS_Subset

(* A STOP after a nudge closes its sample: it is in the window, or the window is full. *)
LEMMA StopCloses ==
  ASSUME NEW q \in Seq(Records), NEW i \in 1..Len(q), NEW j \in 1..Len(q), i < j, IsStop(q[j])
  PROVE  Closed(q, i)
<1>1. Len(q) \in Nat /\ Window \in Nat  BY RulebookAssumption
<1>2. CASE Cardinality(EventsTo(q, i, j - 1)) < Window
  <2>1. j \in Following(q, i)  BY <1>1, <1>2, FollowingParts
  <2> QED BY <2>1 DEF Closed, Events, IsStop
<1>3. CASE ~ (Cardinality(EventsTo(q, i, j - 1)) < Window)
  <2> DEFINE Full == {n \in i..Len(q) : ~ (Cardinality(EventsTo(q, i, n)) < Window)}
  <2>1. j - 1 \in Full  BY <1>1, <1>3
  <2>2. Full \subseteq Nat  OBVIOUS
  <2>3. PICK n \in Full : \A m \in Full : n <= m
    <3> HIDE DEF Full
    <3> QED BY <2>1, <2>2, LeastExists
  <2>4. /\ n \in i..Len(q) /\ ~ (Cardinality(EventsTo(q, i, n)) < Window)
        /\ \A m \in i..Len(q) : m < n => Cardinality(EventsTo(q, i, m)) < Window
    <3>1. n \in i..Len(q) /\ ~ (Cardinality(EventsTo(q, i, n)) < Window)  OBVIOUS
    <3>2. ASSUME NEW m \in i..Len(q), m < n PROVE m \notin Full
      <4> HIDE DEF Full
      <4> QED BY <1>1, <2>2, <2>3, <3>2
    <3> QED BY <3>1, <3>2
  <2>5. EventsTo(q, i, n) \subseteq Events(q, i)
    <3> SUFFICES ASSUME NEW k \in EventsTo(q, i, n) PROVE k \in Events(q, i)  OBVIOUS
    <3>1. k \in (i + 1)..n /\ IsEvent(q[k])  BY DEF EventsTo
    <3>2. k - 1 \in i..Len(q) /\ k - 1 < n /\ k \in (i + 1)..Len(q)  BY <1>1, <2>4, <3>1
    <3>3. k \in Following(q, i)  BY <2>4, <3>2, FollowingParts
    <3> QED BY <3>1, <3>3 DEF Events
  <2>6. Cardinality(EventsTo(q, i, n)) <= Cardinality(Events(q, i))
    BY <2>5, EventsFinite, FS_Subset
  <2>7. Cardinality(EventsTo(q, i, n)) \in Nat /\ Cardinality(Events(q, i)) \in Nat
    BY <2>4, EventsToFinite, EventsFinite, FS_CardinalityType
  <2> QED BY <1>1, <2>4, <2>6, <2>7 DEF Closed
<1> QED BY <1>2, <1>3

(* An observation that ends has no nudge left that a STOP follows. *)
LEMMA CloseSettles ==
  ASSUME Typed, NEW t \in Threads, Close(t),
         NEW i \in 1..Len(task[t].stream), NEW j \in 1..Len(task[t].stream),
         i < j, IsNudge(task[t].stream[i]), IsStop(task[t].stream[j])
  PROVE  i <= book'.cursors[task[t].sess]
<1> DEFINE q == task[t].stream  s == task[t].sess
           n == IF Ahead(t) = {} THEN Len(q) ELSE Least(Ahead(t)) - 1
<1>1. s \in Sessions /\ n \in Nat /\ book' = [book EXCEPT !.cursors[s] = n]  BY CloseParts
<1>2. book'.cursors[s] = n
  <2>1. book \in Books  BY DEF Typed, TypeOK
  <2>2. book'.cursors = [book.cursors EXCEPT ![s] = n] /\ book.cursors \in [Sessions -> Nat]
    BY <1>1, <2>1, CursorMoved DEF Books
  <2> QED BY <1>1, <2>2
<1>3. q \in Seq(Records) /\ Len(q) \in Nat /\ task[t].index \in Nat  BY DEF Typed, TypeOK
<1>4. CASE Ahead(t) = {}  BY <1>2, <1>3, <1>4
<1>5. CASE Ahead(t) # {}
  <2> DEFINE l == Least(Ahead(t))
  <2>1. l \in 1..Len(q) /\ task[t].index < l  BY <1>5, NextAhead DEF Typed
  <2>2. ~ Closed(q, l)  BY <1>5 DEF Close
  <2>3. n = l - 1  BY <1>5
  <2> HIDE DEF l, n, q
  <2>4. ~ (l < j)  BY <1>3, <2>1, <2>2, StopCloses DEF q
  <2>5. i < l  BY <1>3, <2>1, <2>4 DEF q
  <2> QED BY <1>2, <1>3, <2>1, <2>3, <2>5 DEF q, s
<1> QED BY <1>4, <1>5

(* A STOP settles its session: when an observation ends, every nudge followed by a STOP *)
(* in the stream it read was counted and the cursor is past it, for any number of       *)
(* threads at the book (Rulebook.observe, _sample_closed).                              *)
THEOREM StopsSettle == Spec => StopSettles
<1>1. Init => Typed /\ Ascending  BY TypedInit, AscendingInit
<1>2. Typed /\ Ascending /\ [Next]_vars => (Typed /\ Ascending)'  BY TypedStep, AscendingStep
<1> DEFINE Settles == \A t \in Threads : pc[t] = "judge" /\ pc'[t] = "dump" =>
                        LET q == task[t].stream IN
                        \A i, j \in 1..Len(q) : i < j /\ IsNudge(q[i]) /\ IsStop(q[j]) =>
                          i <= book'.cursors[task[t].sess]
<1>3. Typed /\ [Next]_vars => [Settles]_vars
  <2> SUFFICES ASSUME Typed, Next, NEW t \in Threads, pc[t] = "judge", pc'[t] = "dump"
               PROVE  Close(t)
    <3>1. ASSUME NEW t \in Threads, Typed, Close(t)
          PROVE  LET q == task[t].stream IN
                 \A i, j \in 1..Len(q) : i < j /\ IsNudge(q[i]) /\ IsStop(q[j]) =>
                   i <= book'.cursors[task[t].sess]
      BY <3>1, CloseSettles
    <3> QED BY <3>1
  <2>1. pc \in [Threads -> {"idle", "read", "judge", "labels", "dump", "replace"}]
    BY DEF Typed, TypeOK
  <2>2. CASE \E s \in Sessions, rec \in Observed, ts \in Times : Observe(s, rec, ts)
    BY <2>2 DEF Observe
  <2>3. CASE \E u \in Threads, s \in Sessions, ts \in Times : Stop(u, s, ts)
    BY <2>1, <2>3 DEF Stop
  <2>4. CASE \E u \in Threads, a \in Agents, d \in Detectors, side \in {"agree", "disagree"} :
               Label(u, a, d, side)
    BY <2>1, <2>4 DEF Label
  <2>5. CASE \E u \in Threads : Read(u) \/ JudgeOne(u) \/ Dump(u) \/ Replace(u)
    BY <2>1, <2>5 DEF Read, JudgeOne, Dump, Replace
  <2>6. CASE \E u \in Threads : Close(u)
    <3>1. PICK u \in Threads : Close(u)  BY <2>6
    <3>2. pc' = [pc EXCEPT ![u] = "dump"]  BY <3>1 DEF Close
    <3>3. u = t  BY <2>1, <3>2
    <3> QED BY <3>1, <3>3
  <2>7. CASE Crash  BY <2>7 DEF Crash
  <2> QED BY <2>2, <2>3, <2>4, <2>5, <2>6, <2>7 DEF Next, Step
<1>4. [][Settles]_vars => StopSettles  BY DEF StopSettles
<1> QED BY <1>1, <1>2, <1>3, <1>4, PTL DEF Spec

-----------------------------------------------------------------------------
(* A stream and a longer one.                                                *)

Begins(q, l) == Len(q) <= Len(l) /\ \A i \in 1..Len(q) : l[i] = q[i]

(* What followed a nudge follows it in the longer stream. *)
LEMMA FollowingGrows ==
  ASSUME NEW q \in Seq(Records), NEW l \in Seq(Records), Begins(q, l), NEW i \in 1..Len(q)
  PROVE  /\ i \in 1..Len(l) /\ l[i] = q[i]
         /\ \A n \in i..Len(q) : EventsTo(l, i, n) = EventsTo(q, i, n)
         /\ Following(q, i) \subseteq (i + 1)..Len(q) /\ Following(l, i) \subseteq (i + 1)..Len(l)
         /\ \A j \in (i + 1)..Len(q) : j \in Following(l, i) <=> j \in Following(q, i)
         /\ Events(q, i) \subseteq Events(l, i)
<1>1. Len(q) \in Nat /\ Len(l) \in Nat /\ Len(q) <= Len(l) /\ \A k \in 1..Len(q) : l[k] = q[k]
  BY DEF Begins
<1>2. i \in 1..Len(l) /\ l[i] = q[i]  BY <1>1
<1>3. ASSUME NEW n \in i..Len(q) PROVE EventsTo(l, i, n) = EventsTo(q, i, n)
  <2>1. \A k \in (i + 1)..n : l[k] = q[k]  BY <1>1
  <2> QED BY <2>1 DEF EventsTo
<1>4. ASSUME NEW j \in (i + 1)..Len(q) PROVE j \in Following(l, i) <=> j \in Following(q, i)
  <2>1. EventsTo(l, i, j - 1) = EventsTo(q, i, j - 1)  BY <1>1, <1>3
  <2>2. j \in (i + 1)..Len(l)  BY <1>1
  <2> QED BY <1>2, <2>1, <2>2, FollowingParts
<1>5. Following(q, i) \subseteq (i + 1)..Len(q) /\ Following(l, i) \subseteq (i + 1)..Len(l)
  BY DEF Following
<1>6. Events(q, i) \subseteq Events(l, i)
  <2> SUFFICES ASSUME NEW j \in Events(q, i) PROVE j \in Events(l, i)  OBVIOUS
  <2>1. j \in (i + 1)..Len(q) /\ j \in Following(q, i) /\ IsEvent(q[j])  BY <1>5 DEF Events
  <2>2. l[j] = q[j]  BY <1>1, <2>1
  <2> QED BY <1>4, <2>1, <2>2 DEF Events
<1> QED BY <1>2, <1>3, <1>4, <1>5, <1>6

LEMMA StaysClosed ==
  ASSUME NEW q \in Seq(Records), NEW l \in Seq(Records), Begins(q, l), NEW i \in 1..Len(q),
         Closed(q, i)
  PROVE  Closed(l, i)
<1>1. Events(q, i) \subseteq Events(l, i) /\ i \in 1..Len(l)  BY FollowingGrows
<1>2. CASE Cardinality(Events(q, i)) >= Window
  <2>1. IsFiniteSet(Events(q, i)) /\ IsFiniteSet(Events(l, i))  BY <1>1, EventsFinite
  <2>2. /\ Cardinality(Events(q, i)) <= Cardinality(Events(l, i))
        /\ Cardinality(Events(q, i)) \in Nat /\ Cardinality(Events(l, i)) \in Nat
    BY <1>1, <2>1, FS_Subset, FS_CardinalityType
  <2> QED BY <1>2, <2>2, RulebookAssumption DEF Closed
<1>3. CASE \E j \in Events(q, i) : IsStop(q[j])
  <2>1. PICK j \in Events(q, i) : IsStop(q[j])  BY <1>3
  <2>2. j \in 1..Len(q)  BY EventsFinite
  <2>3. l[j] = q[j]  BY <2>2 DEF Begins
  <2> QED BY <1>1, <2>1, <2>3 DEF Closed
<1> QED BY <1>2, <1>3 DEF Closed

(* A STOP that cut a window short has done so for good. *)
LEMMA StaysCut ==
  ASSUME NEW q \in Seq(Records), NEW l \in Seq(Records), Begins(q, l), CutShort(q)
  PROVE  CutShort(l)
<1>1. PICK i \in {n \in 1..Len(q) : IsNudge(q[n])} : \E j \in Events(q, i), k \in Following(q, i) :
        IsStop(q[j]) /\ j < k /\ q[k].type # "verdict"
  BY DEF CutShort
<1>2. PICK j \in Events(q, i), k \in Following(q, i) :
        IsStop(q[j]) /\ j < k /\ q[k].type # "verdict"
  BY <1>1
<1>3. i \in 1..Len(q) /\ IsNudge(q[i])  OBVIOUS
<1>4. j \in (i + 1)..Len(q) /\ k \in (i + 1)..Len(q)  BY <1>3, EventsFinite, FollowingGrows
<1>5. i \in 1..Len(l) /\ IsNudge(l[i]) /\ j \in Events(l, i) /\ k \in Following(l, i)
  BY <1>3, <1>4, FollowingGrows
<1>6. l[j] = q[j] /\ l[k] = q[k]
  <2>1. j \in 1..Len(q) /\ k \in 1..Len(q)  BY <1>3, <1>4
  <2> QED BY <2>1 DEF Begins
<1> QED BY <1>2, <1>5, <1>6 DEF CutShort

(* What a closed sample is followed by later is no event and no nudge, unless a STOP *)
(* had cut it short.                                                                 *)
LEMMA ClosedGainsNothing ==
  ASSUME NEW q \in Seq(Records), NEW l \in Seq(Records), Begins(q, l), NEW i \in 1..Len(q),
         IsNudge(q[i]), Closed(q, i), ~ CutShort(l), NEW k \in Following(l, i), k \notin 1..Len(q)
  PROVE  l[k].type = "verdict"
<1>1. /\ Len(q) \in Nat /\ Len(l) \in Nat /\ Len(q) <= Len(l) /\ i \in 1..Len(l) /\ l[i] = q[i]
      /\ Events(q, i) \subseteq Events(l, i) /\ k \in (i + 1)..Len(l)
  BY FollowingGrows DEF Begins
<1>2. CASE Cardinality(Events(q, i)) >= Window
  <2>1. Cardinality(EventsTo(l, i, k - 1)) < Window  BY <1>1, FollowingParts
  <2>2. Events(q, i) \subseteq EventsTo(q, i, Len(q))  BY DEF Events, Following, EventsTo
  <2>3. EventsTo(q, i, Len(q)) = EventsTo(l, i, Len(q))  BY <1>1, FollowingGrows
  <2>4. Cardinality(EventsTo(l, i, Len(q))) <= Cardinality(EventsTo(l, i, k - 1))
    BY <1>1, EventsToGrow
  <2>5. Cardinality(Events(q, i)) <= Cardinality(EventsTo(l, i, Len(q)))
    BY <1>1, <2>2, <2>3, EventsToFinite, FS_Subset
  <2>6. /\ Cardinality(Events(q, i)) \in Nat /\ Cardinality(EventsTo(l, i, Len(q))) \in Nat
        /\ Cardinality(EventsTo(l, i, k - 1)) \in Nat /\ Window \in Nat
    BY <1>1, EventsFinite, EventsToFinite, FS_CardinalityType, RulebookAssumption
  <2> QED BY <1>2, <2>1, <2>4, <2>5, <2>6
<1>3. CASE \E j \in Events(q, i) : IsStop(q[j])
  <2>1. PICK j \in Events(q, i) : IsStop(q[j])  BY <1>3
  <2>2. j \in (i + 1)..Len(q)  BY EventsFinite
  <2>3. j < k /\ j \in 1..Len(q)  BY <1>1, <2>2
  <2>4. l[j] = q[j]  BY <2>3 DEF Begins
  <2>5. j \in Events(l, i) /\ IsStop(l[j]) /\ i \in {n \in 1..Len(l) : IsNudge(l[n])}
    BY <1>1, <2>1, <2>4
  <2> QED BY <2>3, <2>5 DEF CutShort
<1> QED BY <1>2, <1>3 DEF Closed

(* A closed sample is judged alike on the stream and on what it grows into. *)
LEMMA JudgedAlike ==
  ASSUME NEW q \in Seq(Records), NEW l \in Seq(Records), Begins(q, l), NEW i \in 1..Len(q),
         IsNudge(q[i]), Closed(q, i), ~ CutShort(l)
  PROVE  (Followed(l, i) <=> Followed(q, i)) /\ (Decided(l, i) <=> Decided(q, i))
<1>1. /\ Len(q) \in Nat /\ Len(l) \in Nat /\ i \in 1..Len(l) /\ l[i] = q[i]
      /\ \A k \in 1..Len(q) : l[k] = q[k]
      /\ Following(q, i) \subseteq (i + 1)..Len(q) /\ Following(l, i) \subseteq (i + 1)..Len(l)
      /\ \A j \in (i + 1)..Len(q) : j \in Following(l, i) <=> j \in Following(q, i)
  BY FollowingGrows DEF Begins
<1>2. ASSUME NEW k \in Following(l, i), k \notin Following(q, i) PROVE l[k].type = "verdict"
  <2>1. k \notin 1..Len(q)  BY <1>1, <1>2
  <2> QED BY <2>1, ClosedGainsNothing
<1>3. ASSUME NEW k \in Following(q, i) PROVE k \in Following(l, i) /\ l[k] = q[k]
  BY <1>1, <1>3
<1>4. Events(l, i) = Events(q, i)
  BY <1>2, <1>3 DEF Events, IsEvent
<1>5. \A k \in Events(q, i) : l[k] = q[k]  BY <1>3 DEF Events
<1>6. RealCalls(l, i) = RealCalls(q, i)  BY <1>4, <1>5 DEF RealCalls
<1>7. Refired(l, i) <=> Refired(q, i)  BY <1>1, <1>2, <1>3 DEF Refired, IsNudge
<1>8. Offending(l, i) = Offending(q, i)
  <2> DEFINE before == {k \in 1..(i - 1) : IsEvent(q[k])}
             latest == CHOOSE k \in before : \A m \in before : m <= k
  <2>1. \A k \in 1..(i - 1) : l[k] = q[k]  BY <1>1
  <2> DEFINE same == {k \in 1..(i - 1) : IsEvent(l[k])}
             last == CHOOSE k \in same : \A m \in same : m <= k
  <2>2. same = before  BY <2>1
  <2>3. Offending(l, i) = IF before = {} THEN NoCall ELSE l[latest].call
    <3>1. Offending(l, i) = IF same = {} THEN NoCall ELSE l[last].call  BY DEF Offending
    <3> HIDE DEF same, before
    <3> QED BY <2>2, <3>1
  <2>4. Offending(q, i) = IF before = {} THEN NoCall ELSE q[latest].call  BY DEF Offending
  <2>5. before # {} => l[latest] = q[latest]
    <3>1. ASSUME before # {} PROVE latest \in before
      <4>1. before \subseteq 1..(i - 1) /\ i - 1 \in Nat  BY <1>1
      <4> HIDE DEF before
      <4>2. \E k \in before : \A m \in before : m <= k  BY <3>1, <4>1, GreatestExists
      <4> QED BY <4>2
    <3> QED BY <2>1, <3>1
  <2> HIDE DEF before, latest
  <2> QED BY <2>3, <2>4, <2>5
<1>9. Family(l, i) = Family(q, i)  BY <1>1 DEF Family
<1>10. Decided(l, i) <=> Decided(q, i)  BY <1>7, <1>8, <1>9 DEF Decided
<1>11. LeftAlone(l, i) <=> LeftAlone(q, i)
  <2>1. \A k \in RealCalls(q, i) : l[k] = q[k]  BY <1>5 DEF RealCalls
  <2>2. (\A j \in RealCalls(l, i) : ~ SameCall(Offending(l, i), l[j].call))
          <=> (\A j \in RealCalls(q, i) : ~ SameCall(Offending(q, i), q[j].call))
    BY <1>6, <1>8, <2>1
  <2>3. (\A j \in Events(l, i) : ~ Touches(l[j], Offending(l, i)))
          <=> (\A j \in Events(q, i) : ~ Touches(q[j], Offending(q, i)))
    BY <1>4, <1>5, <1>8
  <2> QED BY <1>9, <2>2, <2>3 DEF LeftAlone
<1> QED BY <1>6, <1>7, <1>10, <1>11 DEF Followed

-----------------------------------------------------------------------------
(* What is counted, of any ledger and any book.                              *)

Ledgers == {l \in [Sessions -> Seq(Records)] : \A s \in Sessions : Len(l[s]) <= MaxRecords}

LEMMA ReadInFinite ==
  ASSUME NEW l, NEW b, NEW a, NEW d
  PROVE  IsFiniteSet(ReadIn(l, b, a, d))
<1>1. IsFiniteSet(Sessions) /\ MaxRecords \in Nat  BY RulebookAssumption
<1>2. IsFiniteSet(1..MaxRecords)  BY <1>1, FS_Interval
<1>3. IsFiniteSet(Sessions \X (1..MaxRecords))  BY <1>1, <1>2, FS_Product
<1>4. ReadIn(l, b, a, d) \subseteq Sessions \X (1..MaxRecords)  BY DEF ReadIn
<1> QED BY <1>3, <1>4, FS_Subset

(* What was read is read still when a ledger grows. *)
LEMMA GrowthKeeps ==
  ASSUME NEW l \in Ledgers, NEW m \in Ledgers, NEW b \in Books, Within(l, b),
         \A s \in Sessions : Len(l[s]) <= Len(m[s]),
         \A s \in Sessions : \A i \in 1..Len(l[s]) : m[s][i] = l[s][i]
  PROVE  Within(m, b) /\ (Counted(l, b) => Counted(m, b))
<1>1. \A s \in Sessions : b.cursors[s] \in Nat /\ Len(l[s]) \in Nat /\ Len(m[s]) \in Nat
  BY DEF Books, Ledgers
<1>2. Within(m, b)  BY <1>1 DEF Within
<1>3. \A s \in Sessions : l[s] \in Seq(Records) /\ m[s] \in Seq(Records) /\ Begins(l[s], m[s])
  BY DEF Ledgers, Begins
<1>4. ASSUME NEW a, NEW d PROVE ReadIn(m, b, a, d) = ReadIn(l, b, a, d)
  <2>1. ASSUME NEW s \in Sessions, NEW i \in 1..MaxRecords, i <= b.cursors[s]
        PROVE  i <= Len(l[s]) /\ i <= Len(m[s]) /\ m[s][i] = l[s][i]
    <3>1. i <= Len(l[s]) /\ i <= Len(m[s])  BY <1>1, <1>2, <2>1 DEF Within
    <3>2. i \in 1..Len(l[s])  BY <1>1, <3>1
    <3> QED BY <3>1, <3>2
  <2>2. \A p \in Sessions \X (1..MaxRecords) : p \in ReadIn(m, b, a, d) <=> p \in ReadIn(l, b, a, d)
    <3> TAKE p \in Sessions \X (1..MaxRecords)
    <3>1. p[1] \in Sessions /\ p[2] \in 1..MaxRecords  OBVIOUS
    <3> QED BY <2>1, <3>1 DEF ReadIn
  <2> QED BY <2>2 DEF ReadIn
<1>5. ASSUME Shut(l, b) PROVE Shut(m, b)
  <2> SUFFICES ASSUME NEW s \in Sessions, NEW i \in 1..Len(m[s]), i <= b.cursors[s], IsNudge(m[s][i])
               PROVE  Closed(m[s], i)
    BY DEF Shut
  <2>1. i \in 1..Len(l[s])  BY <1>1 DEF Within
  <2>2. IsNudge(l[s][i]) /\ Closed(l[s], i)  BY <1>5, <2>1 DEF Shut
  <2> QED BY <1>3, <2>1, <2>2, StaysClosed
<1>6. Uncut(m) => Uncut(l)  BY <1>3, StaysCut DEF Uncut
<1>7. ASSUME Shut(l, b), Uncut(m), NEW a, NEW d
      PROVE  FollowedIn(m, b, a, d) = FollowedIn(l, b, a, d) /\ OpenIn(m, b, a, d) = OpenIn(l, b, a, d)
  <2>1. ASSUME NEW p \in ReadIn(l, b, a, d)
        PROVE  /\ Followed(m[p[1]], p[2]) <=> Followed(l[p[1]], p[2])
               /\ Decided(m[p[1]], p[2]) <=> Decided(l[p[1]], p[2])
    <3> DEFINE s == p[1]  i == p[2]
    <3>1. /\ s \in Sessions /\ i \in 1..MaxRecords /\ i <= b.cursors[s] /\ i <= Len(l[s])
          /\ IsNudge(l[s][i])
      BY DEF ReadIn
    <3> HIDE DEF s, i
    <3>2. i \in 1..Len(l[s])  BY <1>1, <3>1
    <3>3. Closed(l[s], i) /\ ~ CutShort(m[s])  BY <1>7, <3>1, <3>2 DEF Shut, Uncut
    <3> QED BY <1>3, <3>1, <3>2, <3>3, JudgedAlike DEF s, i
  <2> QED BY <1>4, <2>1 DEF FollowedIn, OpenIn
<1>8. ASSUME Counted(l, b) PROVE Counted(m, b)
  <2>1. Tallied(m, b)  BY <1>4, <1>8 DEF Counted, Tallied
  <2>2. Uncut(m) => Replayed(m, b)  BY <1>6, <1>7, <1>8 DEF Counted, Replayed
  <2> QED BY <1>5, <1>8, <2>1, <2>2 DEF Counted
<1> QED BY <1>2, <1>8

(* A cursor that passes no nudge counts nothing. *)
LEMMA EmptyAdvance ==
  ASSUME NEW l \in Ledgers, NEW b \in Books, NEW c \in Books, NEW s \in Sessions, NEW n \in Nat,
         b.cursors[s] <= n, n <= Len(l[s]),
         \A j \in 1..Len(l[s]) : b.cursors[s] < j /\ j <= n => ~ IsNudge(l[s][j]),
         c.stats = b.stats, c.cursors = [b.cursors EXCEPT ![s] = n],
         Counted(l, b)
  PROVE  Counted(l, c)
<1>1. b.cursors \in [Sessions -> Nat] /\ Len(l[s]) \in Nat  BY DEF Books, Ledgers
<1>2. c.cursors[s] = n /\ \A r \in Sessions : r # s => c.cursors[r] = b.cursors[r]  BY <1>1
<1>3. ASSUME NEW a, NEW d PROVE ReadIn(l, c, a, d) = ReadIn(l, b, a, d)
  <2>1. \A p \in Sessions \X (1..MaxRecords) : p \in ReadIn(l, c, a, d) <=> p \in ReadIn(l, b, a, d)
    <3> TAKE p \in Sessions \X (1..MaxRecords)
    <3>1. p[1] \in Sessions /\ p[2] \in 1..MaxRecords  OBVIOUS
    <3>2. CASE p[1] # s  BY <1>2, <3>1, <3>2 DEF ReadIn
    <3>3. CASE p[1] = s
      <4>1. p[2] \in Nat /\ b.cursors[s] \in Nat  BY <1>1, <3>1
      <4>2. CASE p[2] <= b.cursors[s]  BY <1>2, <3>3, <4>1, <4>2 DEF ReadIn
      <4>3. CASE b.cursors[s] < p[2] /\ p[2] <= n
        <5>1. p[2] \in 1..Len(l[s])  BY <1>1, <3>1, <4>3
        <5>2. ~ IsNudge(l[s][p[2]])  BY <4>3, <5>1
        <5> QED BY <3>3, <5>2 DEF ReadIn
      <4>4. CASE n < p[2]  BY <1>2, <3>3, <4>1, <4>4 DEF ReadIn
      <4> QED BY <4>1, <4>2, <4>3, <4>4
    <3> QED BY <3>2, <3>3
  <2> QED BY <2>1 DEF ReadIn
<1>4. Shut(l, c)
  <2> SUFFICES ASSUME NEW r \in Sessions, NEW i \in 1..Len(l[r]), i <= c.cursors[r], IsNudge(l[r][i])
               PROVE  i <= b.cursors[r]
    BY DEF Counted, Shut
  <2>1. CASE r # s  BY <1>2, <2>1
  <2>2. CASE r = s
    <3>1. i <= n /\ i \in Nat /\ b.cursors[s] \in Nat  BY <1>1, <1>2, <2>2
    <3> QED BY <2>2, <3>1
  <2> QED BY <2>1, <2>2
<1>5. \A a, d : FollowedIn(l, c, a, d) = FollowedIn(l, b, a, d) /\ OpenIn(l, c, a, d) = OpenIn(l, b, a, d)
  BY <1>3 DEF FollowedIn, OpenIn
<1> QED BY <1>3, <1>4, <1>5 DEF Counted, Tallied, Replayed

(* A cursor that moves on to the next nudge reads that one. *)
LEMMA NextRead ==
  ASSUME NEW l \in Ledgers, NEW b \in Books, NEW c \in Books, NEW s \in Sessions,
         NEW i \in 1..Len(l[s]), b.cursors[s] < i, IsNudge(l[s][i]),
         \A j \in 1..Len(l[s]) : b.cursors[s] < j /\ j < i => ~ IsNudge(l[s][j]),
         c.cursors = [b.cursors EXCEPT ![s] = i],
         NEW a, NEW d
  PROVE  /\ ReadIn(l, c, a, d) = ReadIn(l, b, a, d)
              \cup (IF a = AgentOf[s] /\ d = l[s][i].what THEN {<<s, i>>} ELSE {})
         /\ <<s, i>> \notin ReadIn(l, b, a, d)
<1>1. b.cursors \in [Sessions -> Nat] /\ Len(l[s]) \in Nat /\ Len(l[s]) <= MaxRecords
  BY DEF Books, Ledgers
<1>2. c.cursors[s] = i /\ \A r \in Sessions : r # s => c.cursors[r] = b.cursors[r]  BY <1>1
<1>3. i \in 1..MaxRecords /\ b.cursors[s] \in Nat  BY <1>1, RulebookAssumption
<1> DEFINE hit == a = AgentOf[s] /\ d = l[s][i].what
<1>4. \A p \in Sessions \X (1..MaxRecords) :
        p \in ReadIn(l, c, a, d) <=> p \in ReadIn(l, b, a, d) \/ (hit /\ p = <<s, i>>)
  <2> TAKE p \in Sessions \X (1..MaxRecords)
  <2>1. p[1] \in Sessions /\ p[2] \in 1..MaxRecords /\ p = <<p[1], p[2]>>  OBVIOUS
  <2>2. CASE p[1] # s
    <3>1. p # <<s, i>>  BY <2>1, <2>2
    <3> QED BY <1>2, <2>1, <2>2, <3>1 DEF ReadIn
  <2>3. CASE p[1] = s /\ p[2] = i
    <3>1. p = <<s, i>>  BY <2>1, <2>3
    <3>2. p \in ReadIn(l, c, a, d) <=> hit
      BY <1>1, <1>2, <1>3, <2>1, <2>3 DEF ReadIn
    <3>3. p \notin ReadIn(l, b, a, d)  BY <1>3, <2>3 DEF ReadIn
    <3> QED BY <3>1, <3>2, <3>3
  <2>4. CASE p[1] = s /\ p[2] # i
    <3>1. p # <<s, i>>  BY <2>1, <2>4
    <3>2. p[2] \in Nat /\ i \in Nat  BY <1>3, <2>1
    <3>3. CASE p[2] <= b.cursors[s]
      <4>1. p[2] <= c.cursors[s]  BY <1>2, <1>3, <3>2, <3>3
      <4> QED BY <2>4, <3>1, <3>3, <4>1 DEF ReadIn
    <3>4. CASE b.cursors[s] < p[2] /\ p[2] < i
      <4>1. p[2] \in 1..Len(l[s])  BY <1>1, <1>3, <2>1, <3>4
      <4>2. ~ IsNudge(l[s][p[2]])  BY <3>4, <4>1
      <4> QED BY <2>4, <3>1, <4>2 DEF ReadIn
    <3>5. CASE i < p[2]
      <4>1. ~ (p[2] <= c.cursors[s]) /\ ~ (p[2] <= b.cursors[s])  BY <1>2, <1>3, <3>2, <3>5
      <4> QED BY <2>4, <3>1, <4>1 DEF ReadIn
    <3> QED BY <1>3, <2>4, <3>2, <3>3, <3>4, <3>5
  <2> QED BY <2>2, <2>3, <2>4
<1>5. <<s, i>> \in Sessions \X (1..MaxRecords)  BY <1>3
<1>6. <<s, i>> \notin ReadIn(l, b, a, d)  BY <1>3 DEF ReadIn
<1>7. ReadIn(l, c, a, d) = ReadIn(l, b, a, d) \cup (IF hit THEN {<<s, i>>} ELSE {})
  <2>1. ReadIn(l, c, a, d) \subseteq Sessions \X (1..MaxRecords)  BY DEF ReadIn
  <2>2. ReadIn(l, b, a, d) \subseteq Sessions \X (1..MaxRecords)  BY DEF ReadIn
  <2>3. CASE hit  BY <1>4, <1>5, <2>1, <2>2, <2>3
  <2>4. CASE ~ hit  BY <1>4, <2>1, <2>2, <2>4
  <2> QED BY <2>3, <2>4
<1> QED BY <1>6, <1>7

(* A set one element larger, or as it was. *)
LEMMA OneMore ==
  ASSUME NEW S, NEW T, IsFiniteSet(S), NEW x, x \notin S, NEW more \in BOOLEAN,
         T = S \cup (IF more THEN {x} ELSE {})
  PROVE  Cardinality(T) = Bump(Cardinality(S), more)
<1>1. CASE more
  <2>1. T = S \cup {x}  BY <1>1
  <2>2. Cardinality(T) = Cardinality(S) + 1  BY <2>1, FS_AddElement
  <2> QED BY <1>1, <2>2 DEF Bump
<1>2. CASE ~ more
  <2>1. T = S  BY <1>2
  <2> QED BY <1>2, <2>1 DEF Bump
<1> QED BY <1>1, <1>2

(* A cursor that moves on to the next nudge counts that one, with its verdict. *)
LEMMA NextCounted ==
  ASSUME NEW l \in Ledgers, NEW b \in Books, NEW c \in Books, NEW s \in Sessions,
         NEW i \in 1..Len(l[s]), b.cursors[s] < i, IsNudge(l[s][i]), Closed(l[s], i),
         \A j \in 1..Len(l[s]) : b.cursors[s] < j /\ j < i => ~ IsNudge(l[s][j]),
         c.cursors = [b.cursors EXCEPT ![s] = i],
         Counted(l, b),
         \A a \in Agents, d \in Detectors :
           LET hit == a = AgentOf[s] /\ d = l[s][i].what
               was == b.stats[a][d]  is == c.stats[a][d] IN
           /\ is.nudges = Bump(was.nudges, hit)
           /\ Uncut(l) => /\ is.adhered = Bump(was.adhered, hit /\ Followed(l[s], i))
                          /\ is.inconclusive = Bump(was.inconclusive, hit /\ ~ Decided(l[s], i))
  PROVE  Counted(l, c)
<1> DEFINE Hit(a, d) == a = AgentOf[s] /\ d = l[s][i].what
<1>1. ASSUME NEW a, NEW d
      PROVE  /\ ReadIn(l, c, a, d) = ReadIn(l, b, a, d) \cup (IF Hit(a, d) THEN {<<s, i>>} ELSE {})
             /\ <<s, i>> \notin ReadIn(l, b, a, d)
  BY NextRead
<1> DEFINE pair == <<s, i>>
<1>2. pair[1] = s /\ pair[2] = i  OBVIOUS
<1> HIDE DEF pair
<1>3. Tallied(l, c)
  <2> SUFFICES ASSUME NEW a \in Agents, NEW d \in Detectors
               PROVE  c.stats[a][d].nudges = Cardinality(ReadIn(l, c, a, d))
    BY DEF Tallied
  <2>1. b.stats[a][d].nudges = Cardinality(ReadIn(l, b, a, d))  BY DEF Counted, Tallied
  <2>2. c.stats[a][d].nudges = Bump(b.stats[a][d].nudges, Hit(a, d))  OBVIOUS
  <2>3. Hit(a, d) \in BOOLEAN  OBVIOUS
  <2> HIDE DEF Hit
  <2>4. Cardinality(ReadIn(l, c, a, d)) = Bump(Cardinality(ReadIn(l, b, a, d)), Hit(a, d))
    BY <1>1, <2>3, ReadInFinite, OneMore
  <2> QED BY <2>1, <2>2, <2>4
<1>4. Shut(l, c)
  <2>1. b.cursors \in [Sessions -> Nat] /\ Len(l[s]) \in Nat  BY DEF Books, Ledgers
  <2>2. c.cursors[s] = i /\ \A r \in Sessions : r # s => c.cursors[r] = b.cursors[r]  BY <2>1
  <2> SUFFICES ASSUME NEW r \in Sessions, NEW j \in 1..Len(l[r]), j <= c.cursors[r], IsNudge(l[r][j])
               PROVE  Closed(l[r], j)
    BY DEF Shut
  <2>3. CASE r = s /\ j = i  BY <2>3
  <2>4. CASE r # s  BY <2>2, <2>4 DEF Counted, Shut
  <2>5. CASE r = s /\ j # i
    <3>1. j < i /\ j \in Nat /\ b.cursors[s] \in Nat  BY <2>1, <2>2, <2>5
    <3>2. j <= b.cursors[s]  BY <2>5, <3>1
    <3> QED BY <2>5, <3>2 DEF Counted, Shut
  <2> QED BY <2>3, <2>4, <2>5
<1>5. ASSUME Uncut(l), NEW a \in Agents, NEW d \in Detectors
      PROVE  c.stats[a][d].adhered = Cardinality(FollowedIn(l, c, a, d))
  <2> DEFINE kept == Hit(a, d) /\ Followed(l[s], i)
  <2>1. b.stats[a][d].adhered = Cardinality(FollowedIn(l, b, a, d))
    BY <1>5 DEF Counted, Replayed
  <2>2. c.stats[a][d].adhered = Bump(b.stats[a][d].adhered, kept) /\ kept \in BOOLEAN  BY <1>5
  <2> HIDE DEF Hit
  <2>3. FollowedIn(l, c, a, d) = FollowedIn(l, b, a, d) \cup (IF kept THEN {pair} ELSE {})
    BY <1>1, <1>2 DEF FollowedIn, pair
  <2>4. pair \notin FollowedIn(l, b, a, d) /\ IsFiniteSet(FollowedIn(l, b, a, d))
    <3>1. FollowedIn(l, b, a, d) \subseteq ReadIn(l, b, a, d)  BY DEF FollowedIn
    <3> QED BY <1>1, <3>1, ReadInFinite, FS_Subset DEF pair
  <2> HIDE DEF kept
  <2> QED BY <2>1, <2>2, <2>3, <2>4, OneMore
<1>6. ASSUME Uncut(l), NEW a \in Agents, NEW d \in Detectors
      PROVE  c.stats[a][d].inconclusive = Cardinality(OpenIn(l, c, a, d))
  <2> DEFINE kept == Hit(a, d) /\ ~ Decided(l[s], i)
  <2>1. b.stats[a][d].inconclusive = Cardinality(OpenIn(l, b, a, d))
    BY <1>6 DEF Counted, Replayed
  <2>2. c.stats[a][d].inconclusive = Bump(b.stats[a][d].inconclusive, kept) /\ kept \in BOOLEAN
    BY <1>6
  <2> HIDE DEF Hit
  <2>3. OpenIn(l, c, a, d) = OpenIn(l, b, a, d) \cup (IF kept THEN {pair} ELSE {})
    BY <1>1, <1>2 DEF OpenIn, pair
  <2>4. pair \notin OpenIn(l, b, a, d) /\ IsFiniteSet(OpenIn(l, b, a, d))
    <3>1. OpenIn(l, b, a, d) \subseteq ReadIn(l, b, a, d)  BY DEF OpenIn
    <3> QED BY <1>1, <3>1, ReadInFinite, FS_Subset DEF pair
  <2> HIDE DEF kept
  <2> QED BY <2>1, <2>2, <2>3, <2>4, OneMore
<1> QED BY <1>3, <1>4, <1>5, <1>6 DEF Counted, Replayed

-----------------------------------------------------------------------------
(* Every nudge is counted once, one thread at a time: a step per action.     *)

LEMMA LedgerKind == Typed => ledger \in Ledgers
BY DEF Typed, TypeOK, Placed, Ledgers

(* The cards decide what a book has counted, and the cursors. *)
LEMMA SameCounts ==
  ASSUME NEW l, NEW b \in Books, NEW c \in Books, Counted(l, b), c.cursors = b.cursors,
         \A a \in Agents, d \in Detectors : SameEvidence(b.stats[a][d], c.stats[a][d])
  PROVE  Counted(l, c)
<1>1. \A a, d : ReadIn(l, c, a, d) = ReadIn(l, b, a, d)  BY DEF ReadIn
<1>2. \A a, d : FollowedIn(l, c, a, d) = FollowedIn(l, b, a, d) /\ OpenIn(l, c, a, d) = OpenIn(l, b, a, d)
  BY <1>1 DEF FollowedIn, OpenIn
<1> QED BY <1>1, <1>2 DEF Counted, Tallied, Shut, Replayed, SameEvidence

LEMMA CountedInit == Init => Kept /\ Progress
<1> SUFFICES ASSUME Init PROVE Kept /\ Progress  OBVIOUS
<1>1. book = EmptyBook /\ file = EmptyBook /\ \A t \in Threads : pc[t] = "idle"  BY DEF Init
<1>2. \A s \in Sessions : Len(ledger[s]) = 0  BY DEF Init
<1>3. Within(ledger, EmptyBook)  BY <1>2, EmptyBooks DEF Within
<1>4. Counted(ledger, EmptyBook)
  <2>1. ASSUME NEW a, NEW d PROVE ReadIn(ledger, EmptyBook, a, d) = {}
    <3>1. \A p \in Sessions \X (1..MaxRecords) : p \notin ReadIn(ledger, EmptyBook, a, d)
      <4> TAKE p \in Sessions \X (1..MaxRecords)
      <4>1. p[1] \in Sessions /\ p[2] \in 1..MaxRecords  OBVIOUS
      <4>2. ~ (p[2] <= EmptyBook.cursors[p[1]])  BY <4>1, EmptyBooks, RulebookAssumption
      <4> QED BY <4>2 DEF ReadIn
    <3> QED BY <3>1 DEF ReadIn
  <2>2. \A a, d : FollowedIn(ledger, EmptyBook, a, d) = {} /\ OpenIn(ledger, EmptyBook, a, d) = {}
    BY <2>1 DEF FollowedIn, OpenIn
  <2>3. Cardinality({}) = 0  BY FS_EmptySet
  <2>4. Tallied(ledger, EmptyBook)  BY <2>1, <2>3, EmptyBooks DEF Tallied
  <2>5. Replayed(ledger, EmptyBook)  BY <2>2, <2>3, EmptyBooks DEF Replayed
  <2>6. Shut(ledger, EmptyBook)  BY <1>2 DEF Shut
  <2> QED BY <2>4, <2>5, <2>6 DEF Counted
<1> QED BY <1>1, <1>3, <1>4 DEF Kept, Progress

(* An observation under way, in terms of the ledger. *)
LEMMA AdvancedParts ==
  ASSUME IInv, NEW t \in Threads, pc[t] = "judge"
  PROVE  LET s == task[t].sess  n == task[t].index IN
         /\ s \in Sessions /\ n \in Nat /\ n <= Len(ledger[s])
         /\ Advanced(t) \in Books /\ Advanced(t).stats = book.stats
         /\ Advanced(t).cursors = [book.cursors EXCEPT ![s] = n]
         /\ Within(ledger, Advanced(t)) /\ Counted(ledger, Advanced(t))
<1> DEFINE s == task[t].sess  n == task[t].index
<1>1. s \in Sessions  BY DEF IInv, Typed, Placed
<1>2. n \in Nat /\ book \in Books  BY DEF IInv, Typed, TypeOK
<1>3. n <= Len(ledger[s])
  <2>1. n <= Len(task[t].stream) /\ Len(task[t].stream) <= Len(ledger[s])
    BY DEF IInv, Progress, ReadsLedger
  <2>2. Len(task[t].stream) \in Nat /\ Len(ledger[s]) \in Nat  BY <1>1 DEF IInv, Typed, TypeOK
  <2> QED BY <1>2, <2>1, <2>2
<1>4. /\ Advanced(t) \in Books /\ Advanced(t).stats = book.stats
      /\ Advanced(t).cursors = [book.cursors EXCEPT ![s] = n]
  BY <1>1, <1>2, CursorMoved DEF Advanced
<1>5. Within(ledger, Advanced(t))
  <2>1. book.cursors \in [Sessions -> Nat]  BY <1>2 DEF Books
  <2> QED BY <1>1, <1>3, <1>4, <2>1 DEF IInv, Kept, Within
<1> QED BY <1>1, <1>2, <1>3, <1>4, <1>5 DEF IInv, Progress

(* A record more changes nothing that was read, nor what an observation reads. *)
LEMMA RecordedCounts ==
  ASSUME IInv, NEW s \in Sessions, NEW rec \in Observed \cup {StopEvent}, NEW ts \in Times,
         Recorded(s, rec, ts), UNCHANGED <<book, file, copy>>,
         \A t \in Threads : \/ pc'[t] = pc[t] /\ task'[t] = task[t]
                            \/ pc[t] # "judge" /\ pc'[t] = "read"
  PROVE  Kept' /\ Progress'
<1>1. /\ ledger' \in Ledgers
      /\ \A r \in Sessions : Len(ledger[r]) <= Len(ledger'[r])
      /\ \A r \in Sessions : \A i \in 1..Len(ledger[r]) : ledger'[r][i] = ledger[r][i]
  BY LedgerGrows DEF IInv, Ledgers
<1>2. ledger \in Ledgers  BY LedgerKind DEF IInv
<1>3. ASSUME NEW b \in Books, Within(ledger, b)
      PROVE  Within(ledger', b) /\ (Counted(ledger, b) => Counted(ledger', b))
  BY <1>1, <1>2, <1>3, GrowthKeeps
<1>4. book \in Books /\ file \in Books /\ \A t \in Threads : copy[t] \in Books
  BY DEF IInv, Typed, TypeOK
<1>5. Kept'
  <2>1. \A t \in Threads : pc'[t] = "replace" =>
          Within(ledger', copy[t]) /\ Counted(ledger', copy[t])
    BY <1>3, <1>4 DEF IInv, Kept
  <2>2. Within(ledger', book) /\ Within(ledger', file) /\ Counted(ledger', file)
    BY <1>3, <1>4 DEF IInv, Kept
  <2> QED BY <2>1, <2>2 DEF Kept
<1>6. Resting' => Counted(ledger, book)'
  <2>1. Resting' => Resting  BY DEF Resting
  <2>2. Counted(ledger, book) => Counted(ledger', book)  BY <1>3, <1>4 DEF IInv, Kept
  <2> QED BY <2>1, <2>2 DEF IInv, Progress
<1>7. ASSUME NEW t \in Threads, pc'[t] = "judge"
      PROVE  ReadsLedger(t)' /\ Counted(ledger, Advanced(t))'
  <2>1. pc[t] = "judge" /\ task'[t] = task[t]  BY <1>7
  <2>2. Advanced(t)' = Advanced(t)  BY <2>1 DEF Advanced
  <2>3. Counted(ledger', Advanced(t))  BY <1>3, <2>1, AdvancedParts
  <2>4. ReadsLedger(t)'
    <3> DEFINE q == task[t].stream  r == task[t].sess
    <3>1. r \in Sessions  BY <2>1 DEF IInv, Typed, Placed
    <3>2. /\ Len(q) <= Len(ledger[r]) /\ \A i \in 1..Len(q) : q[i] = ledger[r][i]
          /\ book.cursors[r] <= task[t].index /\ task[t].index <= Len(q)
      BY <2>1 DEF IInv, Progress, ReadsLedger
    <3>3. Len(q) \in Nat /\ Len(ledger[r]) \in Nat /\ Len(ledger'[r]) \in Nat
      BY <1>1, <3>1 DEF IInv, Typed, TypeOK, Ledgers
    <3>4. Len(q) <= Len(ledger'[r])  BY <1>1, <3>1, <3>2, <3>3
    <3>5. \A i \in 1..Len(q) : q[i] = ledger'[r][i]
      <4> TAKE i \in 1..Len(q)
      <4>1. i \in 1..Len(ledger[r])  BY <3>2, <3>3
      <4> QED BY <1>1, <3>1, <3>2, <4>1
    <3> QED BY <2>1, <3>2, <3>4, <3>5 DEF ReadsLedger
  <2> QED BY <2>2, <2>3, <2>4
<1> QED BY <1>5, <1>6, <1>7 DEF Progress

LEMMA ObserveCounts ==
  ASSUME IInv, NEW s \in Sessions, NEW rec \in Observed, NEW ts \in Times, Observe(s, rec, ts)
  PROVE  Kept' /\ Progress'
BY RecordedCounts DEF Observe

LEMMA StopCounts ==
  ASSUME IInv, NEW t \in Threads, NEW s \in Sessions, NEW ts \in Times, Stop(t, s, ts)
  PROVE  Kept' /\ Progress'
<1>1. \A u \in Threads : \/ pc'[u] = pc[u] /\ task'[u] = task[u]
                         \/ pc[u] # "judge" /\ pc'[u] = "read"
  BY DEF Stop, IInv, Typed, TypeOK
<1> QED BY <1>1, RecordedCounts DEF Stop

(* The observation starts where the cursor stands. *)
LEMMA ReadCounts ==
  ASSUME Alone, IInv, NEW t \in Threads, Read(t)
  PROVE  Kept' /\ Progress'
<1> DEFINE s == task[t].sess  c == book.cursors[s]
<1>1. /\ pc[t] = "read" /\ pc' = [pc EXCEPT ![t] = "judge"]
      /\ task' = [task EXCEPT ![t].stream = InOrder(ledger[s]), ![t].index = c]
      /\ UNCHANGED <<ledger, book, file, copy>>
  BY DEF Read
<1>2. s \in Sessions /\ book \in Books /\ c \in Nat /\ ledger \in Ledgers
  <2>1. s \in Sessions /\ book \in Books  BY <1>1 DEF IInv, Typed, TypeOK, Placed
  <2> QED BY <2>1, LedgerKind DEF IInv, Books
<1>3. \A u \in Threads : u = t  BY DEF Alone
<1>4. pc'[t] = "judge" /\ Counted(ledger, book)
  <2>1. Resting  BY <1>1, <1>3 DEF Resting
  <2> QED BY <1>1, <2>1 DEF IInv, Progress, Typed, TypeOK
<1>5. Kept'  BY <1>1, <1>3, <1>4 DEF IInv, Kept
<1>6. task'[t].stream = ledger[s] /\ task'[t].index = c /\ task'[t].sess = s
  <2>1. InOrder(ledger[s]) = ledger[s]  BY <1>2, NotFlipped DEF IInv, Typed
  <2>2. task[t] \in Tasks /\ task \in [Threads -> Tasks]  BY DEF IInv, Typed, TypeOK, Tasks
  <2>3. task' = [task EXCEPT ![t].stream = ledger[s], ![t].index = c]  BY <1>1, <2>1
  <2> HIDE DEF s, c
  <2>4. task'[t] = [task[t] EXCEPT !.stream = ledger[s], !.index = c]  BY <2>2, <2>3
  <2>5. task'[t] = [sess |-> task[t].sess, stream |-> ledger[s], index |-> c]
    BY <2>2, <2>4 DEF Tasks
  <2> QED BY <2>5 DEF s
<1>7. c <= Len(ledger[s])  BY <1>2 DEF IInv, Kept, Within
<1>8. ReadsLedger(t)'
  <2>1. Len(ledger[s]) \in Nat  BY <1>2 DEF Ledgers
  <2>2. ledger' = ledger /\ book'.cursors[s] = c  BY <1>1
  <2>3. c <= c /\ Len(ledger[s]) <= Len(ledger[s])  BY <1>2, <2>1
  <2> HIDE DEF s, c
  <2> QED BY <1>6, <1>7, <2>2, <2>3 DEF ReadsLedger
<1>9. Counted(ledger, Advanced(t))'
  <2> DEFINE b == [book EXCEPT !.cursors[s] = c]
  <2>1. Advanced(t)' = b  BY <1>1, <1>6 DEF Advanced
  <2>2. b \in Books /\ b.stats = book.stats /\ b.cursors = [book.cursors EXCEPT ![s] = c]
    BY <1>2, CursorMoved
  <2>3. b.cursors = book.cursors  BY <1>2, <2>2 DEF Books
  <2> HIDE DEF b
  <2>4. Counted(ledger, b)  BY <1>2, <1>4, <2>2, <2>3, SameCounts DEF SameEvidence
  <2> QED BY <1>1, <2>1, <2>4
<1>10. Progress'
  <2>1. ~ Resting'  BY <1>4 DEF Resting
  <2> QED BY <1>3, <1>8, <1>9, <2>1 DEF Progress
<1> QED BY <1>5, <1>10

(* One nudge more counted, and the observation past it. *)
LEMMA JudgeOneCounts ==
  ASSUME Alone, IInv, Typed', NEW t \in Threads, JudgeOne(t)
  PROVE  Kept' /\ Progress'
<1> DEFINE q == task[t].stream  i == Least(Ahead(t))
           s == task[t].sess  a == AgentOf[s]  d == q[i].what
           card == Scored(book.stats[a][d], q, i)
           b == Advanced(t)  c == Advanced(t)'
<1>1. /\ s \in Sessions /\ a \in Agents /\ d \in Detectors /\ i \in 1..Len(q)
      /\ card \in Scorecards /\ card.nudges = book.stats[a][d].nudges + 1
      /\ card.adhered = Bump(book.stats[a][d].adhered, Followed(q, i))
      /\ card.inconclusive = Bump(book.stats[a][d].inconclusive, ~ Decided(q, i))
      /\ book' = [book EXCEPT !.stats[a][d] = card] /\ Closed(q, i)
      /\ task' = [task EXCEPT ![t].index = i] /\ pc[t] = "judge" /\ Ahead(t) # {}
  BY JudgeOneParts DEF IInv
<1>2. UNCHANGED <<ledger, file, pc, copy>>  BY DEF JudgeOne
<1>3. /\ q \in Seq(Records) /\ task[t].index < i /\ IsNudge(q[i])
      /\ \A j \in 1..Len(q) : task[t].index < j /\ j < i => ~ IsNudge(q[j])
  BY <1>1, NextAhead DEF IInv, Typed
<1>4. /\ Len(q) <= Len(ledger[s]) /\ \A j \in 1..Len(q) : q[j] = ledger[s][j]
      /\ book.cursors[s] <= task[t].index
  BY <1>1 DEF IInv, Progress, ReadsLedger
<1>5. /\ task[t].index \in Nat /\ b \in Books /\ b.stats = book.stats
      /\ b.cursors = [book.cursors EXCEPT ![s] = task[t].index] /\ Counted(ledger, b)
  BY <1>1, AdvancedParts
<1>6. /\ book' \in Books /\ book'.cursors = book.cursors /\ book'.stats[a][d] = card
      /\ \A x \in Agents, y \in Detectors : x # a \/ y # d => book'.stats[x][y] = book.stats[x][y]
  <2>1. book \in Books  BY DEF IInv, Typed, TypeOK
  <2> HIDE DEF a, d, card
  <2> QED BY <1>1, <2>1, CardReplaced
<1>7. task'[t].index = i /\ task'[t].sess = s /\ task'[t].stream = q
  <2>1. task[t] \in Tasks /\ task \in [Threads -> Tasks]  BY DEF IInv, Typed, TypeOK, Tasks
  <2> HIDE DEF i, q, s, a, d
  <2>2. task'[t] = [task[t] EXCEPT !.index = i]  BY <1>1, <2>1
  <2>3. task'[t] = [sess |-> task[t].sess, stream |-> task[t].stream, index |-> i]
    BY <2>1, <2>2 DEF Tasks
  <2> QED BY <2>3 DEF q, s
<1>8. i \in Nat /\ i \in 1..Len(ledger[s])
  <2>0. ledger \in [Sessions -> Seq(Records)]  BY DEF IInv, Typed, TypeOK
  <2> HIDE DEF i, q, s, a, d, card, b, c
  <2>1. Len(ledger[s]) \in Nat  BY <1>1, <2>0
  <2>2. Len(q) \in Nat /\ Len(q) <= Len(ledger[s]) /\ i \in 1..Len(q)  BY <1>1, <1>3, <1>4
  <2> QED BY <2>1, <2>2
<1>9. c \in Books /\ c.stats = book'.stats /\ c.cursors = [book.cursors EXCEPT ![s] = i]
  <2>1. c = [book' EXCEPT !.cursors[s] = i]  BY <1>7 DEF Advanced
  <2>2. book' \in Books /\ book'.cursors = book.cursors  BY <1>6
  <2>3. s \in Sessions /\ i \in Nat  BY <1>1, <1>8
  <2> HIDE DEF c, s, i, a, d, card, q
  <2> QED BY <2>1, <2>2, <2>3, CursorMoved
<1>10. Counted(ledger, c)
  <2> HIDE DEF a, card, b, c, i, s, q
  <2>1. ledger \in Ledgers  BY LedgerKind DEF IInv
  <2>2. book.cursors \in [Sessions -> Nat]  BY DEF IInv, Typed, TypeOK, Books
  <2>3. b.cursors[s] = task[t].index /\ c.cursors = [b.cursors EXCEPT ![s] = i]
    BY <1>1, <1>5, <1>9, <2>2
  <2>4. d = ledger[s][i].what /\ IsNudge(ledger[s][i]) /\ b.cursors[s] < i
    BY <1>1, <1>3, <1>4, <2>3
  <2>5. \A j \in 1..Len(ledger[s]) : b.cursors[s] < j /\ j < i => ~ IsNudge(ledger[s][j])
    <3> TAKE j \in 1..Len(ledger[s])
    <3>1. j < i => j \in 1..Len(q)  BY <1>1, <1>3, <1>8
    <3> QED BY <1>3, <1>4, <2>3, <3>1
  <2>6. /\ Closed(ledger[s], i)
        /\ Uncut(ledger) => /\ Followed(ledger[s], i) <=> Followed(q, i)
                            /\ Decided(ledger[s], i) <=> Decided(q, i)
    <3>1. ledger[s] \in Seq(Records) /\ q \in Seq(Records)  BY <1>1, <1>3, <2>1 DEF Ledgers
    <3>2. Begins(q, ledger[s])  BY <1>4 DEF Begins
    <3>3. i \in 1..Len(q) /\ IsNudge(q[i]) /\ Closed(q, i)  BY <1>1, <1>3
    <3>4. Uncut(ledger) => ~ CutShort(ledger[s])  BY <1>1 DEF Uncut
    <3> QED BY <3>1, <3>2, <3>3, <3>4, StaysClosed, JudgedAlike
  <2> HIDE DEF d
  <2>7. ASSUME NEW x \in Agents, NEW y \in Detectors
        PROVE  LET hit == x = AgentOf[s] /\ y = ledger[s][i].what
                   was == b.stats[x][y]  is == c.stats[x][y] IN
               /\ is.nudges = Bump(was.nudges, hit)
               /\ Uncut(ledger) =>
                    /\ is.adhered = Bump(was.adhered, hit /\ Followed(ledger[s], i))
                    /\ is.inconclusive = Bump(was.inconclusive, hit /\ ~ Decided(ledger[s], i))
    <3>1. AgentOf[s] = a /\ ledger[s][i].what = d  BY <2>4 DEF a
    <3>2. CASE x = a /\ y = d
      <4>1. c.stats[x][y] = card /\ b.stats[x][y] = book.stats[a][d]  BY <1>5, <1>6, <1>9, <3>2
      <4> QED BY <1>1, <2>6, <3>1, <3>2, <4>1 DEF Bump
    <3>3. CASE x # a \/ y # d
      <4>1. c.stats[x][y] = b.stats[x][y]  BY <1>5, <1>6, <1>9, <3>3
      <4> QED BY <3>1, <3>3, <4>1 DEF Bump
    <3> QED BY <3>2, <3>3
  <2>8. /\ s \in Sessions /\ i \in 1..Len(ledger[s]) /\ b \in Books /\ c \in Books
        /\ Counted(ledger, b)
    BY <1>1, <1>5, <1>8, <1>9
  <2>9. c.cursors = [b.cursors EXCEPT ![s] = i] /\ b.cursors[s] < i /\ IsNudge(ledger[s][i])
    BY <2>3, <2>4
  <2> QED BY <2>1, <2>5, <2>6, <2>7, <2>8, <2>9, NextCounted
<1>11. ReadsLedger(t)'
  <2>1. book.cursors[s] <= i
    <3>1. book.cursors[s] \in Nat  BY <1>1 DEF IInv, Typed, TypeOK, Books
    <3> QED BY <1>3, <1>4, <1>5, <1>8, <3>1
  <2>2. i <= Len(q) /\ book'.cursors[s] = book.cursors[s]
    <3> HIDE DEF i, s, q, a, d, card, b, c
    <3>1. i \in 1..Len(q) /\ Len(q) \in Nat /\ book'.cursors = book.cursors  BY <1>1, <1>3, <1>6
    <3> QED BY <3>1
  <2> HIDE DEF i, s, q
  <2> QED BY <1>2, <1>4, <1>7, <2>1, <2>2 DEF ReadsLedger
<1>12. \A u \in Threads : u = t  BY DEF Alone
<1>13. Kept'  BY <1>1, <1>2, <1>6, <1>12 DEF IInv, Kept, Within
<1>14. Progress'
  <2>1. ~ Resting'  BY <1>1, <1>2 DEF Resting
  <2>2. Counted(ledger, Advanced(t))'  BY <1>2, <1>10
  <2> QED BY <1>11, <1>12, <2>1, <2>2 DEF Progress
<1> QED BY <1>13, <1>14

(* The cursor is set past what was counted, over no nudge that was not. *)
LEMMA CloseCounts ==
  ASSUME Alone, IInv, NEW t \in Threads, Close(t)
  PROVE  Kept' /\ Progress'
<1> DEFINE q == task[t].stream  s == task[t].sess
           n == IF Ahead(t) = {} THEN Len(q) ELSE Least(Ahead(t)) - 1
           b == Advanced(t)
<1>1. /\ s \in Sessions /\ n \in Nat /\ n <= Len(q)
      /\ task[t].index <= Len(q) => task[t].index <= n
      /\ \A j \in 1..Len(q) : task[t].index < j /\ j <= n => ~ IsNudge(q[j])
      /\ book' = [book EXCEPT !.cursors[s] = n] /\ pc[t] = "judge"
  BY CloseParts DEF IInv
<1>2. UNCHANGED <<ledger, file, task, copy>> /\ pc' = [pc EXCEPT ![t] = "dump"]  BY DEF Close
<1>3. /\ Len(q) <= Len(ledger[s]) /\ \A j \in 1..Len(q) : q[j] = ledger[s][j]
      /\ task[t].index <= Len(q)
  BY <1>1 DEF IInv, Progress, ReadsLedger
<1>4. /\ task[t].index \in Nat /\ b \in Books /\ b.stats = book.stats
      /\ b.cursors = [book.cursors EXCEPT ![s] = task[t].index] /\ Counted(ledger, b)
  BY <1>1, AdvancedParts
<1>5. book \in Books /\ ledger \in Ledgers /\ q \in Seq(Records)
  BY LedgerKind DEF IInv, Typed, TypeOK
<1> HIDE DEF n, b, s, q
<1>6. book' \in Books /\ book'.stats = book.stats /\ book'.cursors = [book.cursors EXCEPT ![s] = n]
  BY <1>1, <1>5, CursorMoved
<1>7. Len(q) \in Nat /\ Len(ledger[s]) \in Nat /\ n <= Len(ledger[s])
  BY <1>1, <1>3, <1>5 DEF Ledgers
<1>8. Counted(ledger, book')
  <2>1. book.cursors \in [Sessions -> Nat]  BY <1>5 DEF Books
  <2>2. b.cursors[s] = task[t].index /\ book'.cursors = [b.cursors EXCEPT ![s] = n]
    BY <1>1, <1>4, <1>6, <2>1
  <2>3. \A j \in 1..Len(ledger[s]) : b.cursors[s] < j /\ j <= n => ~ IsNudge(ledger[s][j])
    <3> TAKE j \in 1..Len(ledger[s])
    <3>1. j <= n => j \in 1..Len(q)  BY <1>1, <1>7
    <3> QED BY <1>1, <1>3, <2>2, <3>1
  <2>4. b.cursors[s] <= n  BY <1>1, <1>3, <2>2
  <2> QED BY <1>1, <1>4, <1>5, <1>6, <1>7, <2>2, <2>3, <2>4, EmptyAdvance
<1>9. \A u \in Threads : u = t /\ pc'[u] = "dump"
  BY <1>2 DEF Alone, IInv, Typed, TypeOK
<1>10. Kept'
  <2>1. Within(ledger, book')
    <3>1. book.cursors \in [Sessions -> Nat]  BY <1>5 DEF Books
    <3> QED BY <1>1, <1>6, <1>7, <3>1 DEF IInv, Kept, Within
  <2> QED BY <1>2, <1>9, <2>1 DEF IInv, Kept
<1>11. Progress'  BY <1>2, <1>8, <1>9 DEF Progress
<1> QED BY <1>10, <1>11

(* A label counts no nudge. *)
LEMMA LabelCounts ==
  ASSUME Alone, IInv, NEW t \in Threads, NEW a \in Agents, NEW d \in Detectors,
         NEW side \in {"agree", "disagree"}, Label(t, a, d, side)
  PROVE  Kept' /\ Progress'
<1>1. PICK card \in Scorecards : /\ SameEvidence(book.stats[a][d], card)
                                 /\ book' = [book EXCEPT !.stats[a][d] = card]
  BY LabelParts DEF IInv
<1>2. UNCHANGED <<ledger, file, task, copy>> /\ pc' = [pc EXCEPT ![t] = "labels"]
      /\ pc[t] \in {"idle", "labels"}
  BY DEF Label
<1>3. book \in Books  BY DEF IInv, Typed, TypeOK
<1>4. /\ book' \in Books /\ book'.cursors = book.cursors
      /\ \A x \in Agents, y \in Detectors : SameEvidence(book.stats[x][y], book'.stats[x][y])
  BY <1>1, <1>3, CardReplaced DEF SameEvidence
<1>5. \A u \in Threads : u = t /\ pc'[u] = "labels"  BY <1>2 DEF Alone, IInv, Typed, TypeOK
<1>6. Counted(ledger, book)
  <2>1. Resting  BY <1>2, <1>5 DEF Resting
  <2> QED BY <2>1 DEF IInv, Progress
<1>7. Counted(ledger, book')  BY <1>3, <1>4, <1>6, SameCounts
<1>8. Kept'  BY <1>2, <1>4, <1>5 DEF IInv, Kept, Within
<1>9. Progress'  BY <1>2, <1>5, <1>7 DEF Progress
<1> QED BY <1>8, <1>9

(* What is saved is the book at rest. *)
LEMMA DumpCounts ==
  ASSUME Alone, IInv, NEW t \in Threads, Dump(t)
  PROVE  Kept' /\ Progress'
<1>1. /\ pc[t] \in {"labels", "dump"} /\ pc' = [pc EXCEPT ![t] = "replace"]
      /\ copy' = [copy EXCEPT ![t] = book] /\ UNCHANGED <<ledger, book, file, task>>
  BY DEF Dump
<1>2. \A u \in Threads : u = t /\ pc'[u] = "replace" /\ copy'[u] = book
  BY <1>1 DEF Alone, IInv, Typed, TypeOK
<1>3. Counted(ledger, book)
  <2>1. Resting  BY <1>1, <1>2 DEF Resting
  <2> QED BY <2>1 DEF IInv, Progress
<1>4. Kept'  BY <1>1, <1>2, <1>3 DEF IInv, Kept
<1>5. Progress'  BY <1>1, <1>2, <1>3 DEF Progress
<1> QED BY <1>4, <1>5

LEMMA ReplaceCounts ==
  ASSUME Alone, IInv, NEW t \in Threads, Replace(t)
  PROVE  Kept' /\ Progress'
<1>1. /\ pc[t] = "replace" /\ pc' = [pc EXCEPT ![t] = "idle"] /\ file' \in {copy[t], file}
      /\ UNCHANGED <<ledger, book>>
  BY DEF Replace
<1>2. \A u \in Threads : u = t /\ pc'[u] = "idle"  BY <1>1 DEF Alone, IInv, Typed, TypeOK
<1>3. Counted(ledger, book)
  <2>1. Resting  BY <1>1, <1>2 DEF Resting
  <2> QED BY <2>1 DEF IInv, Progress
<1>4. Within(ledger, file') /\ Counted(ledger, file')  BY <1>1 DEF IInv, Kept
<1>5. Kept'  BY <1>1, <1>2, <1>4 DEF IInv, Kept
<1>6. Progress'  BY <1>1, <1>2, <1>3 DEF Progress
<1> QED BY <1>5, <1>6

(* What a restart loads was counted. *)
LEMMA CrashCounts ==
  ASSUME IInv, Crash
  PROVE  Kept' /\ Progress'
<1>1. /\ book' = file /\ UNCHANGED <<ledger, file>>
      /\ \A t \in Threads : pc'[t] = "idle"
  BY DEF Crash
<1>2. Within(ledger, file) /\ Counted(ledger, file)  BY DEF IInv, Kept
<1>3. Kept'  BY <1>1, <1>2 DEF Kept
<1>4. Progress'  BY <1>1, <1>2 DEF Progress
<1> QED BY <1>3, <1>4

LEMMA CountedStep ==
  ASSUME Alone
  PROVE  IInv /\ [Next]_vars => IInv'
<1> SUFFICES ASSUME IInv, [Next]_vars PROVE IInv'  OBVIOUS
<1>1. Typed' /\ Ascending'  BY TypedStep, AscendingStep DEF IInv
<1> SUFFICES Kept' /\ Progress'  BY <1>1 DEF IInv
<1>2. CASE \E s \in Sessions, rec \in Observed, ts \in Times : Observe(s, rec, ts)
  BY <1>2, ObserveCounts
<1>3. CASE \E t \in Threads, s \in Sessions, ts \in Times : Stop(t, s, ts)
  BY <1>3, StopCounts
<1>4. CASE \E t \in Threads, a \in Agents, d \in Detectors, side \in {"agree", "disagree"} :
             Label(t, a, d, side)
  BY <1>4, LabelCounts
<1>5. CASE \E t \in Threads : Read(t)  BY <1>5, ReadCounts
<1>6. CASE \E t \in Threads : JudgeOne(t)  BY <1>1, <1>6, JudgeOneCounts
<1>7. CASE \E t \in Threads : Close(t)  BY <1>7, CloseCounts
<1>8. CASE \E t \in Threads : Dump(t)  BY <1>8, DumpCounts
<1>9. CASE \E t \in Threads : Replace(t)  BY <1>9, ReplaceCounts
<1>10. CASE Crash  BY <1>10, CrashCounts
<1>11. CASE UNCHANGED vars
  BY <1>11 DEF vars, IInv, Kept, Progress, Resting, ReadsLedger, Advanced
<1> QED BY <1>2, <1>3, <1>4, <1>5, <1>6, <1>7, <1>8, <1>9, <1>10, <1>11 DEF Next, Step

(* "Feeding this the same growing stream twice counts each nudge exactly once": with   *)
(* one thread at the book, between observations the scorecards of memory and file      *)
(* count exactly the nudges their cursors have passed, whatever saves failed and       *)
(* whenever the daemon died (Rulebook.observe, save, load).                            *)
THEOREM NudgesCountedOnce ==
  ASSUME Alone
  PROVE  Spec => []CountedOnce
<1>1. Init => IInv  BY TypedInit, AscendingInit, CountedInit DEF IInv
<1>2. IInv /\ [Next]_vars => IInv'  BY CountedStep
<1>3. IInv => CountedOnce
  <2> SUFFICES ASSUME IInv, Resting, NEW b \in {book, file}, NEW a \in Agents, NEW d \in Detectors
               PROVE  b.stats[a][d].nudges = Cardinality(ReadBy(b, a, d))
    BY DEF CountedOnce
  <2>1. Counted(ledger, b)  BY DEF IInv, Kept, Progress
  <2>2. ReadBy(b, a, d) = ReadIn(ledger, b, a, d)  BY DEF ReadBy, ReadIn
  <2> QED BY <2>1, <2>2 DEF Counted, Tallied
<1> QED BY <1>1, <1>2, <1>3, PTL DEF Spec

(* The book is "a recomputable cache" of the ledger: with one thread at it, while no    *)
(* nudge was judged on a window a STOP had cut short and the session then went on, the  *)
(* verdicts of memory and file are those a replay of the ledger up to the cursors gives *)
(* (Rulebook.observe, save, adherence._sample).                                         *)
THEOREM VerdictsMatchReplay ==
  ASSUME Alone
  PROVE  Spec => []MatchesReplay
<1>1. Init => IInv  BY TypedInit, AscendingInit, CountedInit DEF IInv
<1>2. IInv /\ [Next]_vars => IInv'  BY CountedStep
<1>3. IInv => MatchesReplay
  <2> SUFFICES ASSUME IInv, Resting, Uncut(ledger), NEW b \in {book, file},
                      NEW a \in Agents, NEW d \in Detectors
               PROVE  /\ b.stats[a][d].adhered =
                           Cardinality({p \in ReadBy(b, a, d) : Followed(ledger[p[1]], p[2])})
                      /\ b.stats[a][d].inconclusive =
                           Cardinality({p \in ReadBy(b, a, d) : ~ Decided(ledger[p[1]], p[2])})
    BY DEF MatchesReplay, Uncut
  <2>1. Counted(ledger, b)  BY DEF IInv, Kept, Progress
  <2>2. ReadBy(b, a, d) = ReadIn(ledger, b, a, d)  BY DEF ReadBy, ReadIn
  <2> QED BY <2>1, <2>2 DEF Counted, Replayed, FollowedIn, OpenIn
<1> QED BY <1>1, <1>2, <1>3, PTL DEF Spec
=============================================================================
