--------------------------- MODULE RiskModelProofs ---------------------------
(***************************************************************************)
(* The risk model, for any number of threads, keys, labels and restarts,   *)
(* any bounds on what memory and file keep, and any places where scans and *)
(* saves are interrupted: a line stands on evidence, is the fit of the     *)
(* evidence at hand, and survives a restart.                               *)
(*                                                                         *)
(* The file a restart loads was copied from memory by some thread and      *)
(* written to some inode, perhaps several steps ago; so IInv says of every *)
(* copy of the model, in memory, in a thread's hands or in any inode, that *)
(* its lines stand on its own labels, the overtaken ones apart, and what a *)
(* fit and a save under way already know.  LinesFresh ties a line, and the *)
(* fits under way, to the labels of their key, and ScannedFits says what a *)
(* scan of the grid finds.  Durable follows the one thread whose save no   *)
(* other has met.                                                          *)
(***************************************************************************)
EXTENDS RiskModel, SequenceTheorems, FiniteSetTheorems, WellFoundedInduction, TLAPS

Within(n) == {q \in Seq(Scores) : Len(q) <= n}
SampleSet(n) == [clean : Within(n), drift : Within(n)]
LineSet == {NoLine} \cup 0..(Top + 1)
(* The models with at most n labels of a kind. *)
Models(n) ==
  [samples : [Keys -> SampleSet(n)], line : [Keys -> LineSet], ahead : SUBSET Keys]

Earned(m) ==
  \A k \in Keys : m.line[k] # NoLine /\ k \notin m.ahead => Len(m.samples[k].clean) >= MinSamples

Memory == [samples |-> samples, line |-> line, ahead |-> ahead]

Places == {"idle", "count", "drop", "scan", "assign", "snapshot", "serialize", "open", "write",
           "replace"}
Files == [kind : {"empty", "torn", "whole"}, model : Models(OnDisk)]
Handles == [Threads -> Inodes \cup {NoInode}]
FitSet == [next : 0..100, size : Nat, line : LineSet, met : BOOLEAN]

(* Shapes, the bounds on memory and file, and the two names referring to inodes. *)
Shaped ==
  /\ Memory \in Models(Kept)
  /\ copy \in [Threads -> Models(OnDisk)]
  /\ content \in [Inodes -> Files]
  /\ risk \in Inodes \cup {NoInode} /\ tmp \in Inodes \cup {NoInode}
  /\ key \in [Threads -> Keys] /\ pc \in [Threads -> Places] /\ fd \in Handles
  /\ fit \in [Threads -> FitSet]

(* A label never takes evidence away, so what a thread has counted is still there. *)
EveryCopyEarned ==
  /\ Earned(Memory)
  /\ \A t \in Threads : Earned(copy[t])
  /\ \A n \in Inodes : Earned(content[n].model)

(* What a fit under way has counted, and what a save has sliced for the lines of now. *)
Ready(t) == pc[t] \in {"scan", "assign"} => Len(samples[key[t]].clean) >= MinSamples
Slices(t) == pc[t] = "serialize" => Earned([copy[t] EXCEPT !.line = line])

IInv == Shaped /\ EveryCopyEarned /\ \A t \in Threads : Ready(t) /\ Slices(t)

-----------------------------------------------------------------------------
(* The helpers.                                                              *)

\* The newest n entries of a sequence are a sequence of the same kind, as long as it or n.
LEMMA NewestLength ==
  ASSUME NEW q \in Seq(Scores), NEW n \in Nat
  PROVE  /\ Newest(q, n) \in Seq(Scores)
         /\ Len(Newest(q, n)) = IF Len(q) <= n THEN Len(q) ELSE n
<1>1. CASE Len(q) <= n  BY <1>1 DEF Newest
<1>2. CASE Len(q) > n
  <2>1. \A i \in (Len(q) - n + 1)..Len(q) : q[i] \in Scores  BY <1>2
  <2>2. Len(q) \in Nat /\ Len(q) - n + 1 \in Int  OBVIOUS
  <2>3. SubSeq(q, Len(q) - n + 1, Len(q)) \in Seq(Scores)
    BY <2>1, <2>2, SubSeqProperties
  <2>4. Len(SubSeq(q, Len(q) - n + 1, Len(q)))
          = IF Len(q) - n + 1 <= Len(q) THEN Len(q) - (Len(q) - n + 1) + 1 ELSE 0
    BY <2>1, <2>2, SubSeqProperties
  <2> QED BY <1>2, <2>2, <2>3, <2>4 DEF Newest
<1> QED BY <1>1, <1>2

LEMMA NewestWithin ==
  ASSUME NEW q \in Seq(Scores), NEW n \in Nat
  PROVE  Newest(q, n) \in Within(n)
<1>1. Len(q) \in Nat  OBVIOUS
<1> QED BY <1>1, NewestLength DEF Within

\* The empty model has no line.
LEMMA NoModelEarned == NoModel \in Models(OnDisk) /\ Earned(NoModel)
<1>1. OnDisk \in Nat  BY RiskAssumption
<1>2. <<>> \in Within(OnDisk)
  <2>1. <<>> \in Seq(Scores) /\ Len(<<>>) = 0  OBVIOUS
  <2> QED BY <1>1, <2>1 DEF Within
<1> QED BY <1>2 DEF NoModel, NoSamples, Models, SampleSet, LineSet, Earned

\* A fit that knows nothing.
LEMMA NoFitTyped == NoFit \in FitSet
BY DEF NoFit, FitSet, LineSet, NoLine

\* What fits in the file fits in memory.
LEMMA DiskFitsMemory == Models(OnDisk) \subseteq Models(Kept)
<1>1. OnDisk \in Nat /\ Kept \in Nat /\ OnDisk <= Kept  BY RiskAssumption
<1>2. Within(OnDisk) \subseteq Within(Kept)  BY <1>1 DEF Within
<1>3. SampleSet(OnDisk) \subseteq SampleSet(Kept)  BY <1>2 DEF SampleSet
<1> QED BY <1>3 DEF Models

\* A set of numbers has a least one.
LEMMA Smallest ==
  ASSUME NEW S, S \subseteq Nat, S # {}
  PROVE  \E i \in S : \A j \in S : i <= j
<1> DEFINE Less == {ss \in Nat \X Nat : ss[1] < ss[2]}
<1>1. IsWellFoundedOn(Less, Nat)  BY NatLessThanWellFounded DEF OpToRel
<1>2. PICK i \in S : \A j \in S : <<j, i>> \notin Less  BY <1>1, WFMin
<1>3. ASSUME NEW j \in S PROVE i <= j
  <2>1. i \in Nat /\ j \in Nat /\ <<j, i>> \in Nat \X Nat  OBVIOUS
  <2>2. ~(j < i)  BY <1>2, <2>1
  <2> QED BY <2>1, <2>2
<1> QED BY <1>3

\* A line lies on the grid.
LEMMA ScannedOnGrid ==
  ASSUME NEW clean, NEW n, NEW start \in 0..100
  PROVE  ScannedFrom(clean, n, start) \in 0..(Top + 1)
<1> DEFINE fits == {i \in start..100 : FitAt(clean, n, i)}
           first == CHOOSE i \in fits : \A j \in fits : i <= j
<1>1. CASE fits = {}
  <2>1. ScannedFrom(clean, n, start) = Top  BY <1>1 DEF ScannedFrom
  <2> QED BY <2>1 DEF Top
<1>2. CASE fits # {}
  <2>1. \E i \in fits : \A j \in fits : i <= j
    <3>1. fits \subseteq 0..100 /\ 0..100 \subseteq Nat  OBVIOUS
    <3> HIDE DEF fits
    <3> QED BY <1>2, <3>1, Smallest
  <2>2. first \in 0..100  BY <2>1
  <2> HIDE DEF first
  <2>3. RoundedUp(first) \in 0..(Top + 1)  BY <2>2 DEF RoundedUp, Top
  <2> QED BY <1>2, <2>3 DEF ScannedFrom, first
<1> QED BY <1>1, <1>2

\* One more label keeps the evidence there was: a bucket never falls under what it held, or Kept.
LEMMA LearnedKeeps ==
  ASSUME NEW set \in SampleSet(Kept), NEW score \in Scores, NEW drift \in BOOLEAN
  PROVE  /\ Learned(set, score, drift) \in SampleSet(Kept)
         /\ Len(set.clean) >= MinSamples => Len(Learned(set, score, drift).clean) >= MinSamples
<1>1. set.clean \in Within(Kept) /\ set.drift \in Within(Kept)  BY DEF SampleSet
<1>2. set.clean \in Seq(Scores) /\ set.drift \in Seq(Scores)  BY <1>1 DEF Within
<1> DEFINE clean == Append(set.clean, score)  drifted == Append(set.drift, score)
<1>3. clean \in Seq(Scores) /\ drifted \in Seq(Scores) /\ Len(clean) = Len(set.clean) + 1
  BY <1>2
<1>4. Kept \in Nat /\ MinSamples \in Nat /\ MinSamples <= Kept  BY RiskAssumption
<1>5. Newest(clean, Kept) \in Within(Kept) /\ Newest(drifted, Kept) \in Within(Kept)
  BY <1>3, <1>4, NewestWithin
<1>6. Len(Newest(clean, Kept)) = IF Len(clean) <= Kept THEN Len(clean) ELSE Kept
  BY <1>3, <1>4, NewestLength
<1>7. CASE drift
  <2>1. Learned(set, score, drift) = [set EXCEPT !.drift = Newest(drifted, Kept)]
    BY <1>7 DEF Learned
  <2> QED BY <1>1, <1>5, <2>1 DEF SampleSet
<1>8. CASE ~ drift
  <2>1. Learned(set, score, drift) = [set EXCEPT !.clean = Newest(clean, Kept)]
    BY <1>8 DEF Learned
  <2>2. Len(set.clean) \in Nat  BY <1>2
  <2> HIDE DEF clean, drifted
  <2> QED BY <1>1, <1>3, <1>4, <1>5, <1>6, <2>1, <2>2 DEF SampleSet
<1> QED BY <1>7, <1>8

\* One more label keeps the counts of all fits, and its slices keep what lines need.
LEMMA SlicesEarned ==
  ASSUME Memory \in Models(Kept), Earned(Memory)
  PROVE  /\ [samples |-> Sliced, line |-> NoModel.line, ahead |-> ahead] \in Models(OnDisk)
         /\ Payload \in Models(OnDisk) /\ Earned(Payload)
<1>1. OnDisk \in Nat /\ MinSamples \in Nat /\ MinSamples <= OnDisk  BY RiskAssumption
<1>2. samples \in [Keys -> SampleSet(Kept)] /\ line \in [Keys -> LineSet] /\ ahead \in SUBSET Keys
  BY DEF Memory, Models
<1>3. \A k \in Keys :
        /\ samples[k].clean \in Seq(Scores) /\ samples[k].drift \in Seq(Scores)
        /\ line[k] # NoLine /\ k \notin ahead => Len(samples[k].clean) >= MinSamples
  BY <1>2 DEF Memory, SampleSet, Within, Earned
<1>4. \A k \in Keys :
        /\ Newest(samples[k].clean, OnDisk) \in Within(OnDisk)
        /\ Newest(samples[k].drift, OnDisk) \in Within(OnDisk)
        /\ line[k] # NoLine /\ k \notin ahead => Len(Newest(samples[k].clean, OnDisk)) >= MinSamples
  BY <1>1, <1>3, NewestLength, NewestWithin
<1>5. Sliced \in [Keys -> SampleSet(OnDisk)]  BY <1>4 DEF Sliced, SampleSet
<1>6. NoModel.line \in [Keys -> LineSet]  BY DEF NoModel, LineSet
<1>7. Payload \in Models(OnDisk)  BY <1>2, <1>5 DEF Payload, Models
<1>8. Earned(Payload)  BY <1>4 DEF Payload, Sliced, Earned
<1> QED BY <1>2, <1>5, <1>6, <1>7, <1>8 DEF Models

\* What a restart loads is a well-founded model.
LEMMA LoadedEarned ==
  ASSUME IInv
  PROVE  Loaded \in Models(OnDisk) /\ Earned(Loaded)
BY NoModelEarned DEF IInv, Shaped, Files, EveryCopyEarned, Loaded

-----------------------------------------------------------------------------
(* The invariant is inductive: one step per action.                          *)

\* A model without evidence has no line.
LEMMA EarnedInit == Init => IInv
<1> SUFFICES ASSUME Init PROVE IInv  OBVIOUS
<1>1. Memory = NoModel  BY DEF Init, Memory, NoModel
<1>2. (CHOOSE k \in Keys : TRUE) \in Keys  BY RiskAssumption
<1>3. NoModel \in Models(OnDisk) /\ Earned(NoModel)  BY NoModelEarned
<1>4. Shaped
  <2>1. copy \in [Threads -> Models(OnDisk)]  BY <1>3 DEF Init
  <2>2. content \in [Inodes -> Files]  BY <1>3 DEF Init, Empty, Files
  <2>3. key \in [Threads -> Keys]  BY <1>2 DEF Init
  <2>4. pc \in [Threads -> Places] /\ fd \in Handles  BY DEF Init, Places, Handles
  <2>5. Memory \in Models(Kept)  BY <1>1, <1>3, DiskFitsMemory
  <2>6. fit \in [Threads -> FitSet]  BY NoFitTyped DEF Init
  <2> QED BY <2>1, <2>2, <2>3, <2>4, <2>5, <2>6 DEF Shaped, Init
<1>5. EveryCopyEarned
  <2>1. \A t \in Threads : copy[t] = NoModel  BY DEF Init
  <2>2. \A n \in Inodes : content[n].model = NoModel  BY DEF Init, Empty
  <2> QED BY <1>1, <1>3, <2>1, <2>2 DEF EveryCopyEarned
<1>6. \A t \in Threads : Ready(t) /\ Slices(t)  BY DEF Init, Ready, Slices
<1> QED BY <1>4, <1>5, <1>6 DEF IInv

\* A label is added to one key, whose line stays what it was.
LEMMA ObserveEarned ==
  ASSUME IInv, NEW t \in Threads, NEW k \in Keys, NEW l \in Labels, Observe(t, k, l[1], l[2])
  PROVE  IInv'
<1>1. l[1] \in Scores /\ l[2] \in BOOLEAN  BY RiskAssumption
<1>2. samples \in [Keys -> SampleSet(Kept)] /\ line \in [Keys -> LineSet] /\ ahead \in SUBSET Keys
  BY DEF IInv, Shaped, Memory, Models
<1>3. samples' = [samples EXCEPT ![k] = Learned(samples[k], l[1], l[2])] /\ line' = line
  BY DEF Observe
<1>4. /\ Learned(samples[k], l[1], l[2]) \in SampleSet(Kept)
      /\ Len(samples[k].clean) >= MinSamples
           => Len(Learned(samples[k], l[1], l[2]).clean) >= MinSamples
  BY <1>1, <1>2, LearnedKeeps
<1>9. \A j \in Keys : Len(samples[j].clean) >= MinSamples => Len(samples'[j].clean) >= MinSamples
  BY <1>2, <1>3, <1>4
<1>5. Memory' \in Models(Kept)  BY <1>2, <1>3, <1>4 DEF Memory, Models, Observe
<1>6. Earned(Memory')
  <2>1. \A j \in Keys : line[j] # NoLine /\ j \notin ahead => Len(samples[j].clean) >= MinSamples
    BY DEF IInv, EveryCopyEarned, Earned, Memory
  <2> QED BY <1>3, <1>9, <2>1 DEF Earned, Memory, Observe
<1>7. Shaped'
  <2>1. key' \in [Threads -> Keys]  BY DEF IInv, Shaped, Observe
  <2>2. pc' \in [Threads -> Places]  BY DEF IInv, Shaped, Observe, Goto, Places
  <2>3. fit' \in [Threads -> FitSet]
    <3>1. ASSUME NEW u \in Threads PROVE [fit[u] EXCEPT !.met = TRUE] \in FitSet
      <4>1. fit[u] \in FitSet  BY DEF IInv, Shaped
      <4> DEFINE f == fit[u]
      <4> HIDE DEF f
      <4>2. f \in FitSet => [f EXCEPT !.met = TRUE] \in FitSet  BY DEF FitSet
      <4> QED BY <4>1, <4>2 DEF f
    <3>2. Met(k) \in [Threads -> FitSet]  BY <3>1 DEF Met, IInv, Shaped
    <3> QED BY <3>2 DEF Observe, IInv, Shaped
  <2> QED BY <1>5, <2>1, <2>2, <2>3 DEF IInv, Shaped, Observe
<1>8. EveryCopyEarned'
  BY <1>6 DEF IInv, EveryCopyEarned, Observe, Earned
<1>10. \A u \in Threads : (Ready(u) /\ Slices(u))'
  <2>1. \A u \in Threads : u # t => pc'[u] = pc[u] /\ key'[u] = key[u]
    BY DEF Observe, Goto, IInv, Shaped
  <2>2. pc'[t] = "count" /\ key[t] \in Keys  BY DEF Observe, Goto, IInv, Shaped
  <2>3. \A u \in Threads : Ready(u)'
    BY <1>9, <2>1, <2>2 DEF IInv, Shaped, Ready
  <2>4. \A u \in Threads : Slices(u)'
    BY <2>1, <2>2 DEF IInv, Slices, Observe, Earned
  <2> QED BY <2>3, <2>4
<1> QED BY <1>7, <1>8, <1>10 DEF IInv

\* A step that leaves the model and its copies alone, and fits what it has counted.
LEMMA FittingEarned ==
  ASSUME IInv, NEW t \in Threads, UNCHANGED <<samples, line, ahead, content, risk, tmp, key, copy, fd>>,
         NEW f \in FitSet, fit' = [fit EXCEPT ![t] = f], NEW to \in Places \ {"serialize"},
         pc' = [pc EXCEPT ![t] = to],
         to \in {"scan", "assign"} => Len(samples[key[t]].clean) >= MinSamples
  PROVE  IInv'
<1>1. Memory' = Memory  BY DEF Memory
<1>2. \A u \in Threads : pc'[u] = IF u = t THEN to ELSE pc[u]  BY DEF IInv, Shaped
<1>3. pc' \in [Threads -> Places] /\ fit' \in [Threads -> FitSet]  BY DEF IInv, Shaped
<1>4. Shaped'  BY <1>1, <1>3 DEF IInv, Shaped
<1>5. EveryCopyEarned'  BY <1>1 DEF IInv, EveryCopyEarned, Earned
<1>6. \A u \in Threads : Ready(u)'  BY <1>2 DEF IInv, Ready
<1>7. \A u \in Threads : Slices(u)'  BY <1>2 DEF IInv, Slices, Earned
<1> QED BY <1>4, <1>5, <1>6, <1>7 DEF IInv

\* The labels are counted.
LEMMA CountEarned ==
  ASSUME IInv, NEW t \in Threads, Count(t)
  PROVE  IInv'
<1> DEFINE n == Len(samples[key[t]].clean)
           to == IF n < MinSamples THEN "drop" ELSE "scan"
<1>1. n \in Nat /\ MinSamples \in Nat
  <2>1. samples[key[t]].clean \in Seq(Scores)
    BY DEF IInv, Shaped, Memory, Models, SampleSet, Within
  <2> QED BY <2>1, RiskAssumption
<1>2. [NoFit EXCEPT !.size = n] \in FitSet  BY <1>1, NoFitTyped DEF FitSet
<1>3. to \in Places \ {"serialize"} /\ (to \in {"scan", "assign"} => n >= MinSamples)
  BY <1>1 DEF Places
<1>4. /\ fit' = [fit EXCEPT ![t] = [NoFit EXCEPT !.size = n]] /\ pc' = [pc EXCEPT ![t] = to]
      /\ UNCHANGED <<samples, line, ahead, content, risk, tmp, key, copy, fd>>
  BY DEF Count, Goto
<1> HIDE DEF to, n
<1> QED BY <1>2, <1>3, <1>4, FittingEarned DEF n

\* The points of the grid a scan may be interrupted at are points of the grid.
LEMMA ScanEarned ==
  ASSUME IInv, NEW t \in Threads, Scan(t)
  PROVE  IInv'
<1> DEFINE clean == samples[key[t]].clean
<1>1. fit[t] \in FitSet /\ fit[t].next \in 0..100  BY DEF IInv, Shaped, FitSet
<1>2. pc[t] = "scan" /\ Len(clean) >= MinSamples  BY DEF Scan, Goto, IInv, Ready
<1>3. UNCHANGED <<samples, line, ahead, content, risk, tmp, key, copy, fd>>  BY DEF Scan
<1>4. CASE /\ pc' = [pc EXCEPT ![t] = "assign"]
           /\ fit' = [fit EXCEPT ![t].line = ScannedFrom(clean, fit[t].size, fit[t].next)]
  <2> DEFINE new == ScannedFrom(clean, fit[t].size, fit[t].next)
             f == [fit[t] EXCEPT !.line = new]
  <2>1. new \in LineSet  BY <1>1, ScannedOnGrid DEF LineSet
  <2> HIDE DEF new
  <2>2. f \in FitSet  BY <1>1, <2>1 DEF FitSet
  <2>3. fit' = [fit EXCEPT ![t] = f]  BY <1>4 DEF new
  <2>4. "assign" \in Places \ {"serialize"}  BY DEF Places
  <2> HIDE DEF f, clean
  <2> QED BY <1>2, <1>3, <1>4, <2>2, <2>3, <2>4, FittingEarned DEF clean
<1>5. ASSUME NEW i \in Pauses, pc' = [pc EXCEPT ![t] = "scan"],
             fit' = [fit EXCEPT ![t].next = i]
      PROVE  IInv'
  <2>1. i \in 0..100  BY RiskAssumption
  <2>2. [fit[t] EXCEPT !.next = i] \in FitSet  BY <1>1, <2>1 DEF FitSet
  <2>3. "scan" \in Places \ {"serialize"}  BY DEF Places
  <2> QED BY <1>2, <1>3, <1>5, <2>2, <2>3, FittingEarned
<1> QED BY <1>4, <1>5 DEF Scan, Goto

\* The key gets a line its evidence allows, or none; a save under way that has sliced the
\* labels before its first line is overtaken.
LEMMA InstallEarned ==
  ASSUME IInv, NEW t \in Threads, NEW new \in LineSet, Install(t, new),
         new # NoLine => Len(samples[key[t]].clean) >= MinSamples,
         pc[t] \in {"drop", "assign"}, pc' = [pc EXCEPT ![t] = "snapshot"]
  PROVE  IInv'
<1> DEFINE k == key[t]
<1>1. k \in Keys  BY DEF IInv, Shaped
<1>2. samples \in [Keys -> SampleSet(Kept)] /\ line \in [Keys -> LineSet] /\ ahead \in SUBSET Keys
  BY DEF IInv, Shaped, Memory, Models
<1>3. /\ line' = [line EXCEPT ![k] = new] /\ ahead' = ahead \ {k}
      /\ fit' = [fit EXCEPT ![t] = NoFit]
      /\ copy' = IF line[k] = NoLine /\ new # NoLine THEN Overtaken(k) ELSE copy
      /\ UNCHANGED <<samples, risk, tmp, content, key, fd>>
  BY DEF Install
<1>4. Memory' \in Models(Kept)  BY <1>2, <1>3 DEF Memory, Models
<1>5. Earned(Memory')
  <2>1. \A j \in Keys : line[j] # NoLine /\ j \notin ahead => Len(samples[j].clean) >= MinSamples
    BY DEF IInv, EveryCopyEarned, Earned, Memory
  <2>2. \A j \in Keys : line'[j] = IF j = k THEN new ELSE line[j]  BY <1>2, <1>3
  <2> QED BY <1>3, <2>1, <2>2 DEF Earned, Memory
<1>6. ASSUME NEW u \in Threads
      PROVE  /\ copy'[u] \in Models(OnDisk) /\ copy'[u].line = copy[u].line
             /\ copy'[u].samples = copy[u].samples /\ copy[u].ahead \subseteq copy'[u].ahead
  <2>1. copy[u] \in Models(OnDisk)  BY DEF IInv, Shaped
  <2>2. [copy[u] EXCEPT !.ahead = @ \cup {k}] \in Models(OnDisk)  BY <1>1, <2>1 DEF Models
  <2>3. copy'[u] \in {copy[u], [copy[u] EXCEPT !.ahead = @ \cup {k}]}
    BY <1>3 DEF Overtaken
  <2> QED BY <2>1, <2>2, <2>3 DEF Models
<1>7. Shaped'
  <2>1. copy' \in [Threads -> Models(OnDisk)]
    <3>1. copy' = [u \in Threads |-> copy'[u]]  BY <1>3 DEF Overtaken, IInv, Shaped
    <3> HIDE DEF k
    <3> QED BY <1>6, <3>1
  <2>2. pc' \in [Threads -> Places]  BY DEF IInv, Shaped, Places
  <2>3. fit' \in [Threads -> FitSet]  BY <1>3, NoFitTyped DEF IInv, Shaped
  <2> QED BY <1>3, <1>4, <2>1, <2>2, <2>3 DEF IInv, Shaped
<1>8. EveryCopyEarned'
  <2>1. \A u \in Threads : Earned(copy'[u])  BY <1>6 DEF IInv, EveryCopyEarned, Earned
  <2>2. \A i \in Inodes : Earned(content'[i].model)  BY <1>3 DEF IInv, EveryCopyEarned
  <2> QED BY <1>5, <2>1, <2>2 DEF EveryCopyEarned, Earned
<1>9. \A u \in Threads : pc'[u] = IF u = t THEN "snapshot" ELSE pc[u]  BY DEF IInv, Shaped
<1>10. \A u \in Threads : Ready(u)'  BY <1>3, <1>9 DEF IInv, Ready
<1>11. ASSUME NEW u \in Threads PROVE Slices(u)'
  <2> SUFFICES ASSUME pc'[u] = "serialize", NEW j \in Keys, line'[j] # NoLine, j \notin copy'[u].ahead
               PROVE  Len(copy'[u].samples[j].clean) >= MinSamples
    <3>1. copy'[u] \in Models(OnDisk)  BY <1>6
    <3>2. /\ [copy'[u] EXCEPT !.line = line'].line = line'
          /\ [copy'[u] EXCEPT !.line = line'].samples = copy'[u].samples
          /\ [copy'[u] EXCEPT !.line = line'].ahead = copy'[u].ahead
      BY <3>1 DEF Models
    <3> QED BY <3>2 DEF Slices, Earned
  <2>1. pc[u] = "serialize" /\ Slices(u)  BY <1>9 DEF IInv
  <2>2. copy[u] \in Models(OnDisk)  BY DEF IInv, Shaped
  <2>3. \A i \in Keys : line[i] # NoLine /\ i \notin copy[u].ahead
                          => Len(copy[u].samples[i].clean) >= MinSamples
    <3>1. /\ [copy[u] EXCEPT !.line = line].line = line
          /\ [copy[u] EXCEPT !.line = line].samples = copy[u].samples
          /\ [copy[u] EXCEPT !.line = line].ahead = copy[u].ahead
      BY <2>2 DEF Models
    <3> QED BY <2>1, <3>1 DEF Slices, Earned
  <2>4. line[j] # NoLine
    <3>1. CASE j # k  BY <1>2, <1>3, <3>1
    <3>2. CASE j = k /\ line[k] = NoLine
      <4>1. new # NoLine  BY <1>2, <1>3, <3>2
      <4>2. copy'[u] = [copy[u] EXCEPT !.ahead = @ \cup {k}]
        BY <1>3, <2>1, <3>2, <4>1 DEF Overtaken
      <4>3. k \in copy'[u].ahead  BY <2>2, <4>2 DEF Models
      <4> QED BY <3>2, <4>3
    <3> QED BY <3>1, <3>2
  <2> QED BY <1>6, <2>3, <2>4
<1> QED BY <1>7, <1>8, <1>10, <1>11 DEF IInv

\* Too few labels give no line.
LEMMA DropEarned ==
  ASSUME IInv, NEW t \in Threads, Drop(t)
  PROVE  IInv'
<1>1. NoLine \in LineSet  BY DEF LineSet
<1> QED BY <1>1, InstallEarned DEF Drop, Goto

\* The labels that were counted are still there.
LEMMA AssignEarned ==
  ASSUME IInv, NEW t \in Threads, Assign(t)
  PROVE  IInv'
<1>1. fit[t].line \in LineSet  BY DEF IInv, Shaped, FitSet
<1>2. Len(samples[key[t]].clean) >= MinSamples  BY DEF IInv, Ready, Assign, Goto
<1> QED BY <1>1, <1>2, InstallEarned DEF Assign, Goto

\* The memory is the same model when neither part changed.
LEMMA MemoryKept ==
  ASSUME UNCHANGED <<samples, line, ahead>>
  PROVE  Memory' = Memory
BY DEF Memory

\* A thread slices the labels: enough for every line there is.
LEMMA SnapshotEarned ==
  ASSUME IInv, NEW t \in Threads, Snapshot(t)
  PROVE  IInv'
<1> DEFINE new == [samples |-> Sliced, line |-> NoModel.line, ahead |-> ahead]
<1>1. new \in Models(OnDisk) /\ Earned(Payload)
  BY SlicesEarned DEF IInv, Shaped, EveryCopyEarned
<1>2. copy' = [copy EXCEPT ![t] = new]  BY DEF Snapshot
<1>3. Memory' = Memory  BY MemoryKept DEF Snapshot
<1>4. Shaped'
  <2>1. pc' \in [Threads -> Places]  BY DEF IInv, Shaped, Snapshot, Goto, Places
  <2> QED BY <1>1, <1>2, <1>3, <2>1 DEF IInv, Shaped, Snapshot
<1>5. EveryCopyEarned'
  <2>1. Earned(new)  BY DEF Earned, NoModel
  <2>2. \A u \in Threads : Earned(copy'[u])
    BY <1>2, <2>1 DEF IInv, Shaped, EveryCopyEarned
  <2> QED BY <1>3, <2>2 DEF IInv, EveryCopyEarned, Snapshot, Earned
<1>6. \A u \in Threads : pc'[u] = IF u = t THEN "serialize" ELSE pc[u]
  BY DEF Snapshot, Goto, IInv, Shaped
<1>7. \A u \in Threads : Ready(u)'  BY <1>6 DEF IInv, Ready, Snapshot
<1>8. ASSUME NEW u \in Threads PROVE Slices(u)'
  <2>1. CASE u # t
    BY <1>2, <1>6, <2>1 DEF IInv, Shaped, Slices, Snapshot, Earned
  <2>2. CASE u = t
    <3>1. copy'[u] = new /\ line' = line  BY <1>2, <2>2 DEF IInv, Shaped, Snapshot
    <3>2. [copy'[u] EXCEPT !.line = line'] = Payload  BY <3>1 DEF Payload
    <3> QED BY <1>1, <3>2 DEF Slices, Earned
  <2> QED BY <2>1, <2>2
<1> QED BY <1>4, <1>5, <1>7, <1>8 DEF IInv

\* The lines join the slices.
LEMMA SerializeEarned ==
  ASSUME IInv, NEW t \in Threads, Serialize(t)
  PROVE  IInv'
<1> DEFINE new == [copy[t] EXCEPT !.line = line]
<1>1. Earned(new)  BY DEF IInv, Slices, Serialize, Goto
<1>2. new \in Models(OnDisk)
  <2>1. line \in [Keys -> LineSet] /\ copy[t] \in Models(OnDisk)
    BY DEF IInv, Shaped, Memory, Models
  <2> QED BY <2>1 DEF Models
<1>3. copy' = [copy EXCEPT ![t] = new]  BY DEF Serialize
<1>4. Memory' = Memory  BY MemoryKept DEF Serialize
<1> HIDE DEF new
<1>5. Shaped'
  <2>1. pc' \in [Threads -> Places]  BY DEF IInv, Shaped, Serialize, Goto, Places
  <2> QED BY <1>2, <1>3, <1>4, <2>1 DEF IInv, Shaped, Serialize
<1>6. EveryCopyEarned'
  <2>1. \A u \in Threads : Earned(copy'[u])
    BY <1>1, <1>3 DEF IInv, Shaped, EveryCopyEarned
  <2> QED BY <1>4, <2>1 DEF IInv, EveryCopyEarned, Serialize, Earned
<1>7. \A u \in Threads : pc'[u] = IF u = t THEN "open" ELSE pc[u]
  BY DEF Serialize, Goto, IInv, Shaped
<1>8. \A u \in Threads : Ready(u)'  BY <1>7 DEF IInv, Ready, Serialize
<1>9. \A u \in Threads : Slices(u)'
  BY <1>3, <1>7 DEF IInv, Shaped, Slices, Serialize, Earned
<1> QED BY <1>5, <1>6, <1>8, <1>9 DEF IInv

\* Whatever becomes of an inode, it holds the empty model or a thread's copy.
LEMMA InodeEarned ==
  ASSUME IInv, UNCHANGED <<samples, line, ahead, key, fit>>,
         NEW t \in Threads, copy' \in {copy, [copy EXCEPT ![t] = NoModel]},
         NEW n, NEW new \in {Empty, Torn, Whole(copy[t])},
         content' \in {content, [content EXCEPT ![n] = new]},
         risk' \in {risk, tmp}, tmp' \in Inodes \cup {NoInode},
         NEW to \in {"idle", "write", "replace"}, pc' = [pc EXCEPT ![t] = to], fd' \in Handles
  PROVE  IInv'
<1>1. NoModel \in Models(OnDisk) /\ Earned(NoModel)  BY NoModelEarned
<1>2. copy[t] \in Models(OnDisk) /\ Earned(copy[t])  BY DEF IInv, Shaped, EveryCopyEarned
<1>3. new \in Files /\ Earned(new.model)
  <2>1. CASE new = Empty  BY <1>1, <2>1 DEF Empty, Files
  <2>2. CASE new = Torn  BY <1>1, <2>2 DEF Torn, Files
  <2>3. CASE new = Whole(copy[t])  BY <1>2, <2>3 DEF Whole, Files
  <2> QED BY <2>1, <2>2, <2>3
<1>4. Memory' = Memory  BY MemoryKept
<1>5. copy' \in [Threads -> Models(OnDisk)] /\ \A u \in Threads : Earned(copy'[u])
  BY <1>1 DEF IInv, Shaped, EveryCopyEarned
<1>6. /\ content' \in [Inodes -> Files]
      /\ \A i \in Inodes : Earned(content'[i].model)
  BY <1>3 DEF IInv, Shaped, EveryCopyEarned
<1>7. Shaped'
  <2>1. pc' \in [Threads -> Places]  BY DEF IInv, Shaped, Places
  <2> QED BY <1>4, <1>5, <1>6, <2>1 DEF IInv, Shaped
<1>9. \A u \in Threads : pc'[u] = IF u = t THEN to ELSE pc[u]  BY DEF IInv, Shaped
<1>10. \A u \in Threads : (Ready(u) /\ Slices(u))'
  <2>1. \A u \in Threads : Ready(u)'  BY <1>9 DEF IInv, Ready
  <2>2. \A u \in Threads : u # t => copy'[u] = copy[u]  BY DEF IInv, Shaped
  <2>3. \A u \in Threads : Slices(u)'  BY <1>9, <2>2 DEF IInv, Slices, Earned
  <2> QED BY <2>1, <2>3
<1>8. EveryCopyEarned'
  <2>1. Earned(Memory)'  BY <1>4 DEF IInv, EveryCopyEarned, Earned
  <2>2. \A u \in Threads : Earned(copy[u])'  BY <1>5 DEF Earned
  <2>3. \A i \in Inodes : Earned(content[i].model)'  BY <1>6 DEF Earned
  <2> QED BY <2>1, <2>2, <2>3 DEF EveryCopyEarned
<1> QED BY <1>7, <1>8, <1>10 DEF IInv

\* The temporary file is created or emptied.
LEMMA OpenEarned ==
  ASSUME IInv, NEW t \in Threads, Open(t)
  PROVE  IInv'
<1>1. TmpInode \in Inodes
  <2>1. CASE tmp = NoInode
    <3>1. (CHOOSE n \in Unused : TRUE) \in Unused  BY <2>1 DEF Open
    <3> QED BY <2>1, <3>1 DEF TmpInode, Unused
  <2>2. CASE tmp # NoInode  BY <2>2 DEF TmpInode, IInv, Shaped
  <2> QED BY <2>1, <2>2
<1>2. copy' = copy /\ content' = [content EXCEPT ![TmpInode] = Empty] /\ tmp' = TmpInode /\ risk' = risk
  BY DEF Open
<1>3. UNCHANGED <<samples, line, ahead, key, fit>>  BY DEF Open
<1>4. pc' = [pc EXCEPT ![t] = "write"] /\ fd' \in Handles
  BY <1>1 DEF IInv, Shaped, Open, Goto, Handles
<1> QED BY <1>1, <1>2, <1>3, <1>4, InodeEarned

\* The inode a thread has open gets its copy, or rubbish.
LEMMA WriteEarned ==
  ASSUME IInv, NEW t \in Threads, Write(t)
  PROVE  IInv'
<1>1. PICK new \in Overlaid(content[fd[t]], copy[t]) : content' = [content EXCEPT ![fd[t]] = new]
  BY DEF Write
<1>2. new \in {Torn, Whole(copy[t])}  BY <1>1 DEF Overlaid
<1>3. UNCHANGED <<samples, line, ahead, key, fit, copy, risk, tmp>>  BY DEF Write
<1>4. tmp \in Inodes \cup {NoInode}  BY DEF IInv, Shaped
<1>5. pc' = [pc EXCEPT ![t] = "replace"] /\ fd' \in Handles
  BY DEF IInv, Shaped, Write, Goto, Handles
<1> QED BY <1>1, <1>2, <1>3, <1>4, <1>5, InodeEarned

\* The inode named risk.json changes, its content does not.
LEMMA ReplaceEarned ==
  ASSUME IInv, NEW t \in Threads, Replace(t)
  PROVE  IInv'
<1>1. UNCHANGED <<samples, line, ahead, key, fit, content>> /\ copy' = [copy EXCEPT ![t] = NoModel]
  BY DEF Replace
<1>2. risk' \in {risk, tmp} /\ tmp' \in Inodes \cup {NoInode}
  BY DEF Replace, IInv, Shaped
<1>3. pc' = [pc EXCEPT ![t] = "idle"] /\ fd' \in Handles
  BY DEF IInv, Shaped, Replace, Goto, Handles
<1> QED BY <1>1, <1>2, <1>3, InodeEarned

\* A failed save leaves inodes empty, torn or as they were.
LEMMA DiskErrorEarned ==
  ASSUME IInv, NEW t \in Threads, DiskError(t)
  PROVE  IInv'
<1>1. UNCHANGED <<samples, line, ahead, key, fit, risk, tmp>> /\ copy' = [copy EXCEPT ![t] = NoModel]
  BY DEF DiskError
<1>2. content' \in {content, [content EXCEPT ![fd[t]] = Torn]}  BY DEF DiskError
<1>3. tmp \in Inodes \cup {NoInode}  BY DEF IInv, Shaped
<1>4. pc' = [pc EXCEPT ![t] = "idle"] /\ fd' \in Handles
  BY DEF IInv, Shaped, DiskError, Handles
<1> QED BY <1>1, <1>2, <1>3, <1>4, InodeEarned

\* Memory becomes what the file holds.
LEMMA RestartEarned ==
  ASSUME IInv, Restart
  PROVE  IInv'
<1>1. Loaded \in Models(OnDisk) /\ Earned(Loaded)  BY LoadedEarned
<1>2. samples' = Loaded.samples /\ line' = Loaded.line /\ ahead' = Loaded.ahead  BY DEF Restart
<1>3. Memory' = Loaded  BY <1>1, <1>2 DEF Memory, Models
<1>4. NoModel \in Models(OnDisk) /\ Earned(NoModel)  BY NoModelEarned
<1>5. copy' = [u \in Threads |-> NoModel]  BY DEF Restart
<1>6. Shaped'
  <2>1. Memory' \in Models(Kept)  BY <1>1, <1>3, DiskFitsMemory
  <2>2. pc' \in [Threads -> Places] /\ fd' \in Handles  BY DEF Restart, Places, Handles
  <2>3. fit' \in [Threads -> FitSet]  BY NoFitTyped DEF Restart
  <2> QED BY <1>4, <1>5, <2>1, <2>2, <2>3 DEF IInv, Shaped, Restart
<1>7. EveryCopyEarned'
  <2>1. Earned(Memory)'  BY <1>1, <1>3 DEF Earned
  <2>2. \A u \in Threads : Earned(copy[u])'  BY <1>4, <1>5 DEF Earned
  <2>3. \A i \in Inodes : Earned(content[i].model)'
    BY DEF IInv, EveryCopyEarned, Earned, Restart
  <2> QED BY <2>1, <2>2, <2>3 DEF EveryCopyEarned
<1>8. \A u \in Threads : (Ready(u) /\ Slices(u))'  BY DEF Restart, Ready, Slices
<1> QED BY <1>6, <1>7, <1>8 DEF IInv

\* Every step keeps every copy of the model well founded.
LEMMA EarnedStep == IInv /\ [Next]_vars => IInv'
<1> SUFFICES ASSUME IInv, [Next]_vars PROVE IInv'  OBVIOUS
<1>1. CASE \E t \in Threads, k \in Keys, l \in Labels : Observe(t, k, l[1], l[2])
  BY <1>1, ObserveEarned
<1>2. CASE \E t \in Threads : Count(t) \/ Scan(t) \/ Assign(t) \/ Drop(t)
  BY <1>2, CountEarned, ScanEarned, AssignEarned, DropEarned
<1>3. CASE \E t \in Threads : Snapshot(t) \/ Serialize(t)
  BY <1>3, SnapshotEarned, SerializeEarned
<1>4. CASE \E t \in Threads : Open(t)  BY <1>4, OpenEarned
<1>5. CASE \E t \in Threads : Write(t)  BY <1>5, WriteEarned
<1>6. CASE \E t \in Threads : Replace(t)  BY <1>6, ReplaceEarned
<1>7. CASE \E t \in Threads : DiskError(t)  BY <1>7, DiskErrorEarned
<1>8. CASE Restart  BY <1>8, RestartEarned
<1>9. CASE UNCHANGED vars
  <2>1. Memory' = Memory  BY <1>9 DEF vars, Memory
  <2> QED BY <1>9, <2>1 DEF vars, IInv, Shaped, EveryCopyEarned, Earned, Ready, Slices
<1> QED BY <1>1, <1>2, <1>3, <1>4, <1>5, <1>6, <1>7, <1>8, <1>9 DEF Next

\* "A key with too little evidence is dropped rather than pinned to a fallback": a line
\* in memory, or in the file a restart loads, has MinSamples clean labels beside it, however
\* the fits and saves of any number of threads interleave; only the first line of a key may
\* be without them in a file, when it was fitted in the middle of another thread's save.
THEOREM LinesEarned == Spec => []LineStandsOnEvidence
<1>1. IInv => LineStandsOnEvidence
  <2> SUFFICES ASSUME IInv PROVE LineStandsOnEvidence  OBVIOUS
  <2>1. Earned(Memory)  BY DEF IInv, EveryCopyEarned
  <2>2. Earned(Loaded)  BY LoadedEarned
  <2> QED BY <2>1, <2>2 DEF LineStandsOnEvidence, Earned, Memory
<1> QED BY <1>1, EarnedInit, EarnedStep, PTL DEF Spec

\* Labels and lines keep their types, memory never holds more than Kept labels of a
\* kind and a key, and no file more than OnDisk (RiskModel.observe, save).
THEOREM RiskTypes == Spec => []TypeOK
<1>1. IInv => TypeOK
  <2> SUFFICES ASSUME IInv PROVE TypeOK  OBVIOUS
  <2>1. \A k \in Keys : SamplesWithin(samples[k], Kept)
    BY DEF IInv, Shaped, Memory, Models, SampleSet, Within, SamplesWithin
  <2>2. \A n \in Inodes, k \in Keys : SamplesWithin(content[n].model.samples[k], OnDisk)
    BY DEF IInv, Shaped, Files, Models, SampleSet, Within, SamplesWithin
  <2>3. line \in [Keys -> {NoLine} \cup 0..(Top + 1)]
    BY DEF IInv, Shaped, Memory, Models, LineSet
  <2> QED BY <2>1, <2>2, <2>3 DEF TypeOK, IInv, Shaped, Places, Handles, Evaluating
<1> QED BY <1>1, EarnedInit, EarnedStep, PTL DEF Spec
-----------------------------------------------------------------------------
(* What the fit computes.                                                    *)

\* Fewer labels lie above a higher bar.
LEMMA HigherBarFewer ==
  ASSUME NEW q \in Seq(Scores), NEW low \in Int, NEW high \in Int, low <= high
  PROVE  /\ AtLeast(q, low) \in Nat /\ AtLeast(q, high) \in Nat
         /\ AtLeast(q, high) <= AtLeast(q, low)
<1> DEFINE Hits(bar) == {n \in 1..Len(q) : q[n] >= bar}
<1>1. Len(q) \in Nat  OBVIOUS
<1>2. \A n \in 1..Len(q) : q[n] \in Nat
  <2>1. \A n \in 1..Len(q) : q[n] \in Scores  OBVIOUS
  <2> QED BY <2>1, RiskAssumption
<1>3. IsFiniteSet(1..Len(q))  BY <1>1, FS_Interval
<1>4. Hits(low) \subseteq 1..Len(q) /\ Hits(high) \subseteq Hits(low)  BY <1>2
<1> HIDE DEF Hits
<1>5. IsFiniteSet(Hits(low)) /\ IsFiniteSet(Hits(high))  BY <1>3, <1>4, FS_Subset
<1>6. Cardinality(Hits(high)) <= Cardinality(Hits(low))  BY <1>4, <1>5, FS_Subset
<1>7. Cardinality(Hits(low)) \in Nat /\ Cardinality(Hits(high)) \in Nat
  BY <1>5, FS_CardinalityType
<1> QED BY <1>6, <1>7 DEF AtLeast, Hits

\* Fewer hits fit the budget more easily.
LEMMA FewerHitsFit ==
  ASSUME NEW few \in Nat, NEW many \in Nat, few <= many, NEW n \in Nat, FitsBudget(many, n)
  PROVE  FitsBudget(few, n)
<1> DEFINE m == n + 1
<1>1. m \in Nat /\ TargetPct * n * n \in Int  BY RiskAssumption
<1> HIDE DEF m
<1>2. PICK d \in Nat : many = few + d
  <2>1. many - few \in Nat /\ many = few + (many - few)  OBVIOUS
  <2> QED BY <2>1
<1>3. d * m \in Nat  BY <1>1
<1>4. 100 * many * m = 100 * few * m + 100 * (d * m)  BY <1>1, <1>2
<1>5. 100 * few * m \in Nat  BY <1>1
<1>6. 100 * few * m <= 100 * many * m  BY <1>3, <1>4, <1>5
<1>7. 100 * many * m <= TargetPct * n * n  BY DEF FitsBudget, m
<1>8. 100 * few * m <= TargetPct * n * n
  <2>1. 100 * many * m \in Int  BY <1>1
  <2> QED BY <1>1, <1>5, <1>6, <1>7, <2>1
<1> QED BY <1>8 DEF FitsBudget, m

\* The line of a scan: what it admits is within the budget, one step lower would not be.
LEMMA ScannedFits ==
  ASSUME NEW clean \in Seq(Scores)
  PROVE  LET c == ScannedFrom(clean, Len(clean), 0) IN
         /\ c \in Nat
         /\ c # Top => FitsBudget(AtLeast(clean, Lowest(c)), Len(clean))
         /\ c >= 200 => ~ FitsBudget(AtLeast(clean, c - 101), Len(clean))
<1> DEFINE Fits(i) == FitAt(clean, Len(clean), i)
           fits == {i \in 0..100 : Fits(i)}
           first == CHOOSE i \in fits : \A j \in fits : i <= j
           c == ScannedFrom(clean, Len(clean), 0)
<1>1. Len(clean) \in Nat  OBVIOUS
<1>2. ASSUME NEW i \in 0..100
      PROVE  /\ Crossing(i) \in {100 * i, 100 * i + 1}
             /\ RoundedUp(i) \in {100 * i, 100 * i + 1}
             /\ Crossing(i) \in Int
             /\ Crossing(i) <= Lowest(RoundedUp(i)) /\ Lowest(RoundedUp(i)) \in Int
  BY DEF Crossing, RoundedUp, AboveScore, AboveLine, Lowest
<1>3. ASSUME NEW i \in 0..100, NEW bar \in Int, Crossing(i) <= bar, Fits(i)
      PROVE  FitsBudget(AtLeast(clean, bar), Len(clean))
  <2>1. /\ AtLeast(clean, Crossing(i)) \in Nat /\ AtLeast(clean, bar) \in Nat
        /\ AtLeast(clean, bar) <= AtLeast(clean, Crossing(i))
    BY <1>2, <1>3, HigherBarFewer
  <2> QED BY <1>1, <1>3, <2>1, FewerHitsFit DEF FitAt
<1>4. ASSUME NEW i \in 0..100, NEW bar \in Int, bar <= Crossing(i), ~ Fits(i)
      PROVE  ~ FitsBudget(AtLeast(clean, bar), Len(clean))
  <2>1. /\ AtLeast(clean, Crossing(i)) \in Nat /\ AtLeast(clean, bar) \in Nat
        /\ AtLeast(clean, Crossing(i)) <= AtLeast(clean, bar)
    BY <1>2, <1>4, HigherBarFewer
  <2> QED BY <1>1, <1>4, <2>1, FewerHitsFit DEF FitAt
<1>5. CASE fits = {}
  <2>1. c = Top  BY <1>5 DEF ScannedFrom
  <2>2. 99 \in 0..100 /\ 9899 \in Int /\ 9899 <= Crossing(99) /\ ~ Fits(99)
    <3>1. ~ Fits(99)  BY <1>5
    <3> HIDE DEF Fits
    <3>2. Crossing(99) \in {9900, 9901}  BY <1>2
    <3> QED BY <3>1, <3>2
  <2>3. ~ FitsBudget(AtLeast(clean, 9899), Len(clean))
    <3> HIDE DEF Fits
    <3> QED BY <1>4, <2>2
  <2>4. c \in Nat /\ c = Top /\ c - 101 = 9899  BY <2>1 DEF Top
  <2> HIDE DEF c
  <2>5. ~ FitsBudget(AtLeast(clean, c - 101), Len(clean))  BY <2>3, <2>4
  <2> QED BY <2>4, <2>5 DEF c
<1>6. CASE fits # {}
  <2>1. \E i \in fits : \A j \in fits : i <= j
    <3>1. fits \subseteq 0..100 /\ 0..100 \subseteq Nat  OBVIOUS
    <3> HIDE DEF fits
    <3> QED BY <1>6, <3>1, Smallest
  <2>2. first \in fits /\ \A j \in fits : first <= j  BY <2>1
  <2>3. c = RoundedUp(first)  BY <1>6 DEF ScannedFrom
  <2> HIDE DEF first, c, Fits
  <2>4. first \in 0..100 /\ Fits(first)  BY <2>2
  <2>5. \A j \in 0..100 : j < first => ~ Fits(j)  BY <2>2, <2>4
  <2>6. c \in Nat /\ c \in {100 * first, 100 * first + 1}
    <3>1. c \in {100 * first, 100 * first + 1}  BY <1>2, <2>3, <2>4
    <3> QED BY <2>4, <3>1
  <2>7. FitsBudget(AtLeast(clean, Lowest(c)), Len(clean))
    <3>1. Lowest(c) \in Int /\ Crossing(first) <= Lowest(c)  BY <1>2, <2>3, <2>4
    <3> QED BY <1>3, <2>4, <3>1
  <2>8. ASSUME c >= 200 PROVE ~ FitsBudget(AtLeast(clean, c - 101), Len(clean))
    <3>1. first - 1 \in 0..100 /\ first - 1 < first  BY <2>4, <2>6, <2>8
    <3>2. Crossing(first - 1) \in {100 * (first - 1), 100 * (first - 1) + 1}  BY <1>2, <3>1
    <3>3. c - 101 \in Int /\ c - 101 <= Crossing(first - 1)  BY <2>4, <2>6, <3>1, <3>2
    <3> QED BY <1>4, <2>5, <3>1, <3>3
  <2> QED BY <2>6, <2>7, <2>8 DEF c
<1> QED BY <1>5, <1>6

-----------------------------------------------------------------------------
(* The line is the fit of the evidence at hand.                              *)

(* What a fit on its own comes to: the reference of the ones that are interrupted. *)
Fitted(clean) == IF Len(clean) < MinSamples THEN NoLine ELSE ScannedFrom(clean, Len(clean), 0)

(* A fit that no other thread's label has met: what it has counted, passed and found. *)
Knows(t) ==
  LET clean == samples[key[t]].clean
      f == fit[t] IN
  pc[t] \in Evaluating /\ ~ f.met =>
    /\ f.size = Len(clean)
    /\ pc[t] = "drop" <=> Len(clean) < MinSamples
    /\ pc[t] = "scan" => \A i \in 0..(f.next - 1) : ~ FitAt(clean, f.size, i)
    /\ pc[t] = "assign" => f.line = Fitted(clean)

LinesFresh ==
  /\ \A k \in Keys : Settled(k) => line[k] = Fitted(samples[k].clean)
  /\ \A t \in Threads : Knows(t)

\* Points that were passed need not be looked at again.
LEMMA ScanResumed ==
  ASSUME NEW clean, NEW n, NEW start \in 0..100, \A i \in 0..(start - 1) : ~ FitAt(clean, n, i)
  PROVE  ScannedFrom(clean, n, start) = ScannedFrom(clean, n, 0)
<1> DEFINE fits(first) == {i \in first..100 : FitAt(clean, n, i)}
           smallest(S) == IF S = {} THEN Top ELSE RoundedUp(CHOOSE i \in S : \A j \in S : i <= j)
<1>1. fits(start) = fits(0)
  <2>1. \A i \in 0..100 : i \in start..100 \/ i \in 0..(start - 1)  OBVIOUS
  <2>2. \A i \in start..100 : i \in 0..100  OBVIOUS
  <2> QED BY <2>1, <2>2
<1>2. /\ ScannedFrom(clean, n, start) = smallest(fits(start))
      /\ ScannedFrom(clean, n, 0) = smallest(fits(0))
  BY DEF ScannedFrom
<1> HIDE DEF fits, smallest
<1> QED BY <1>1, <1>2

\* Without labels there is no line.
LEMMA FreshInit == Init => LinesFresh
<1> SUFFICES ASSUME Init PROVE LinesFresh  OBVIOUS
<1>1. \A k \in Keys : line[k] = NoLine /\ samples[k].clean = <<>>
  BY DEF Init, NoModel, NoSamples
<1>2. Len(<<>>) < MinSamples  BY RiskAssumption
<1>3. Fitted(<<>>) = NoLine  BY <1>2 DEF Fitted
<1>4. \A t \in Threads : Knows(t)  BY DEF Init, Knows, Evaluating
<1> QED BY <1>1, <1>3, <1>4 DEF LinesFresh

Fitting == {"count"} \cup Evaluating

\* A step of a thread that touches neither memory nor a fit leaves the lines fresh.
LEMMA FreshElsewhere ==
  ASSUME LinesFresh, UNCHANGED <<samples, line, key, fit, late>>,
         \A t \in Threads : pc[t] = pc'[t] \/ (pc[t] \notin Fitting /\ pc'[t] \notin Fitting)
  PROVE  LinesFresh'
<1>1. \A k \in Keys : Settled(k)' => Settled(k)  BY DEF Settled, Fitting
<1>2. \A t \in Threads : Knows(t)'  BY DEF LinesFresh, Knows, Fitting
<1> QED BY <1>1, <1>2 DEF LinesFresh

\* A label unsettles its key, and is met by the fits of its key under way.
LEMMA ObserveFresh ==
  ASSUME IInv, LinesFresh, NEW t \in Threads, NEW k \in Keys, NEW l \in Labels,
         Observe(t, k, l[1], l[2])
  PROVE  LinesFresh'
<1>1. /\ samples \in [Keys -> SampleSet(Kept)] /\ fit \in [Threads -> FitSet]
      /\ pc \in [Threads -> Places] /\ key \in [Threads -> Keys]
  BY DEF IInv, Shaped, Memory, Models
<1>2. /\ pc[t] = "idle" /\ pc' = [pc EXCEPT ![t] = "count"] /\ key' = [key EXCEPT ![t] = k]
      /\ line' = line /\ late' = late
      /\ samples' = [samples EXCEPT ![k] = Learned(samples[k], l[1], l[2])]
      /\ fit' = IF l[2] THEN fit ELSE Met(k)
  BY DEF Observe, Goto
<1>3. ASSUME NEW j \in Keys, Settled(j)' PROVE line'[j] = Fitted(samples'[j].clean)
  <2>1. j # k  BY <1>1, <1>2, <1>3 DEF Settled
  <2>2. Settled(j)  BY <1>1, <1>2, <1>3 DEF Settled, Evaluating
  <2> QED BY <1>1, <1>2, <2>1, <2>2 DEF LinesFresh
<1>4. ASSUME NEW u \in Threads PROVE Knows(u)'
  <2> SUFFICES ASSUME u # t, pc[u] \in Evaluating, ~ fit'[u].met PROVE Knows(u)'
    BY <1>1, <1>2 DEF Knows, Evaluating
  <2>1. pc'[u] = pc[u] /\ key'[u] = key[u] /\ key[u] \in Keys  BY <1>1, <1>2
  <2>2. samples'[key[u]].clean = samples[key[u]].clean /\ fit'[u] = fit[u]
    <3>1. CASE key[u] # k
      <4>1. Met(k)[u] = fit[u]  BY <3>1 DEF Met
      <4> QED BY <1>1, <1>2, <2>1, <3>1, <4>1
    <3>2. CASE key[u] = k /\ ~ l[2]
      <4>1. Met(k)[u] = [fit[u] EXCEPT !.met = TRUE]  BY <3>2 DEF Met
      <4>2. fit'[u].met  BY <1>1, <1>2, <3>2, <4>1 DEF FitSet
      <4> QED BY <4>2
    <3>3. CASE key[u] = k /\ l[2]
      <4>1. samples[k] \in SampleSet(Kept)  BY <1>1
      <4>2. Learned(samples[k], l[1], l[2]).clean = samples[k].clean
        BY <3>3, <4>1 DEF Learned, SampleSet
      <4> QED BY <1>1, <1>2, <3>3, <4>2
    <3> QED BY <3>1, <3>2, <3>3, RiskAssumption
  <2> QED BY <2>1, <2>2 DEF LinesFresh, Knows
<1> QED BY <1>3, <1>4 DEF LinesFresh

\* A fit moves on: it knows what it knew, and what it has just seen.
LEMMA FittingFresh ==
  ASSUME IInv, LinesFresh, NEW t \in Threads, UNCHANGED <<samples, line, key, late>>,
         pc[t] \in Fitting, NEW to \in Evaluating, pc' = [pc EXCEPT ![t] = to],
         NEW f, fit' = [fit EXCEPT ![t] = f], Knows(t)'
  PROVE  LinesFresh'
<1>1. \A u \in Threads : u # t => pc'[u] = pc[u] /\ fit'[u] = fit[u]  BY DEF IInv, Shaped
<1>2. pc'[t] = to  BY DEF IInv, Shaped
<1>3. \A k \in Keys : Settled(k)' => Settled(k)  BY <1>1, <1>2 DEF Settled, Fitting
<1>4. \A u \in Threads : u # t => Knows(u)'  BY <1>1 DEF LinesFresh, Knows
<1> QED BY <1>3, <1>4 DEF LinesFresh

\* The count of a fit.
LEMMA CountFresh ==
  ASSUME IInv, LinesFresh, NEW t \in Threads, Count(t)
  PROVE  LinesFresh'
<1> DEFINE n == Len(samples[key[t]].clean)
           to == IF n < MinSamples THEN "drop" ELSE "scan"
           f == [NoFit EXCEPT !.size = n]
<1>1. /\ pc[t] = "count" /\ pc' = [pc EXCEPT ![t] = to] /\ fit' = [fit EXCEPT ![t] = f]
      /\ UNCHANGED <<samples, line, key, late>>
  BY DEF Count, Goto
<1>2. pc'[t] = to /\ fit'[t] = f  BY <1>1 DEF IInv, Shaped
<1>3. f.size = n /\ f.next = 0 /\ to \in Evaluating /\ (to = "drop" <=> n < MinSamples)
      /\ to # "assign"
  BY DEF NoFit, Evaluating
<1>4. Knows(t)'
  <2>1. 0..(0 - 1) = {}  OBVIOUS
  <2> QED BY <1>1, <1>2, <1>3, <2>1 DEF Knows
<1> HIDE DEF to, f
<1> QED BY <1>1, <1>3, <1>4, FittingFresh DEF Fitting

\* The scan of a fit: where it is interrupted it has passed what does not fit.
LEMMA ScanFresh ==
  ASSUME IInv, LinesFresh, NEW t \in Threads, Scan(t)
  PROVE  LinesFresh'
<1> DEFINE clean == samples[key[t]].clean
           g == fit[t]
<1>1. g \in FitSet /\ g.next \in 0..100  BY DEF IInv, Shaped, FitSet
<1>2. pc[t] = "scan" /\ pc[t] \in Fitting  BY DEF Scan, Goto, Fitting, Evaluating
<1>3. UNCHANGED <<samples, line, key, late>>  BY DEF Scan
<1>4. ~ g.met => /\ g.size = Len(clean) /\ ~ (Len(clean) < MinSamples)
                 /\ \A i \in 0..(g.next - 1) : ~ FitAt(clean, g.size, i)
  BY <1>2 DEF LinesFresh, Knows, Evaluating
<1>5. CASE /\ pc' = [pc EXCEPT ![t] = "assign"]
           /\ fit' = [fit EXCEPT ![t].line = ScannedFrom(clean, g.size, g.next)]
  <2> DEFINE f == [g EXCEPT !.line = ScannedFrom(clean, g.size, g.next)]
  <2>1. fit' = [fit EXCEPT ![t] = f]  BY <1>5
  <2>2. pc'[t] = "assign" /\ fit'[t] = f  BY <1>5, <2>1 DEF IInv, Shaped
  <2>3. /\ f.met = g.met /\ f.size = g.size
        /\ f.line = ScannedFrom(clean, g.size, g.next)
    BY <1>1 DEF FitSet
  <2>4. ~ g.met => f.line = Fitted(clean)  BY <1>1, <1>4, <2>3, ScanResumed DEF Fitted
  <2>5. Knows(t)'  BY <1>3, <1>4, <2>2, <2>3, <2>4 DEF Knows
  <2>6. "assign" \in Evaluating  BY DEF Evaluating
  <2> HIDE DEF f
  <2> QED BY <1>2, <1>3, <1>5, <2>1, <2>5, <2>6, FittingFresh
<1>6. ASSUME NEW i \in Pauses, i > g.next, \A j \in g.next..(i - 1) : ~ FitAt(clean, g.size, j),
             pc' = [pc EXCEPT ![t] = "scan"], fit' = [fit EXCEPT ![t].next = i]
      PROVE  LinesFresh'
  <2> DEFINE f == [g EXCEPT !.next = i]
  <2>1. fit' = [fit EXCEPT ![t] = f]  BY <1>6
  <2>2. pc'[t] = "scan" /\ fit'[t] = f  BY <1>6, <2>1 DEF IInv, Shaped
  <2>3. f.met = g.met /\ f.size = g.size /\ f.next = i  BY <1>1 DEF FitSet
  <2>4. i \in Nat  BY RiskAssumption
  <2>5. ~ g.met => \A j \in 0..(i - 1) : ~ FitAt(clean, g.size, j)
    <3>1. \A j \in 0..(i - 1) : j \in 0..(g.next - 1) \/ j \in g.next..(i - 1)
      BY <1>1, <2>4
    <3> QED BY <1>4, <1>6, <3>1
  <2>6. Knows(t)'  BY <1>3, <1>4, <2>2, <2>3, <2>5 DEF Knows
  <2>7. "scan" \in Evaluating  BY DEF Evaluating
  <2> HIDE DEF f
  <2> QED BY <1>2, <1>3, <1>6, <2>1, <2>6, <2>7, FittingFresh
<1> QED BY <1>5, <1>6 DEF Scan, Goto

\* A fit no label has met leaves the fit of the labels at hand; any other says so.
LEMMA InstallFresh ==
  ASSUME IInv, LinesFresh, NEW t \in Threads, NEW new, Install(t, new),
         pc[t] \in Evaluating, pc' = [pc EXCEPT ![t] = "snapshot"],
         ~ fit[t].met => new = Fitted(samples[key[t]].clean)
  PROVE  LinesFresh'
<1> DEFINE k == key[t]
<1>1. k \in Keys /\ line \in [Keys -> LineSet]  BY DEF IInv, Shaped, Memory, Models
<1>2. /\ line' = [line EXCEPT ![k] = new] /\ fit' = [fit EXCEPT ![t] = NoFit]
      /\ late' = IF fit[t].met THEN late \cup {k} ELSE late \ {k}
      /\ UNCHANGED <<samples, key>>
  BY DEF Install
<1>3. \A u \in Threads : u # t => pc'[u] = pc[u] /\ fit'[u] = fit[u]
  BY <1>2 DEF IInv, Shaped
<1>4. pc'[t] = "snapshot"  BY DEF IInv, Shaped
<1>5. ASSUME NEW j \in Keys, Settled(j)' PROVE line'[j] = Fitted(samples'[j].clean)
  <2>1. CASE j # k
    <3>1. Settled(j)  BY <1>2, <1>3, <1>5, <2>1 DEF Settled
    <3> QED BY <1>1, <1>2, <2>1, <3>1 DEF LinesFresh
  <2>2. CASE j = k
    <3>1. ~ fit[t].met  BY <1>2, <1>5, <2>2 DEF Settled
    <3> QED BY <1>1, <1>2, <2>2, <3>1
  <2> QED BY <2>1, <2>2
<1>6. ASSUME NEW u \in Threads PROVE Knows(u)'
  <2>1. CASE u # t  BY <1>2, <1>3, <2>1 DEF LinesFresh, Knows
  <2>2. CASE u = t  BY <1>4, <2>2 DEF Knows, Evaluating
  <2> QED BY <2>1, <2>2
<1> QED BY <1>5, <1>6 DEF LinesFresh

\* A label unsettles its key, a fit nobody met settles it, whoever else is at work on it.
LEMMA FreshStep == IInv /\ LinesFresh /\ [Next]_vars => LinesFresh'
<1> SUFFICES ASSUME IInv, LinesFresh, [Next]_vars PROVE LinesFresh'  OBVIOUS
<1>1. pc \in [Threads -> Places]  BY DEF IInv, Shaped
<1>2. CASE \E t \in Threads, k \in Keys, l \in Labels : Observe(t, k, l[1], l[2])
  BY <1>2, ObserveFresh
<1>3. CASE \E t \in Threads : Count(t) \/ Scan(t)  BY <1>3, CountFresh, ScanFresh
<1>4. ASSUME NEW t \in Threads, Drop(t) PROVE LinesFresh'
  <2>1. pc[t] = "drop" /\ pc' = [pc EXCEPT ![t] = "snapshot"] /\ Install(t, NoLine)
    BY <1>4 DEF Drop, Goto
  <2>2. ~ fit[t].met => NoLine = Fitted(samples[key[t]].clean)
    BY <2>1 DEF LinesFresh, Knows, Evaluating, Fitted
  <2> QED BY <2>1, <2>2, InstallFresh DEF Evaluating
<1>5. ASSUME NEW t \in Threads, Assign(t) PROVE LinesFresh'
  <2>1. pc[t] = "assign" /\ pc' = [pc EXCEPT ![t] = "snapshot"] /\ Install(t, fit[t].line)
    BY <1>5 DEF Assign, Goto
  <2>2. ~ fit[t].met => fit[t].line = Fitted(samples[key[t]].clean)
    BY <2>1 DEF LinesFresh, Knows, Evaluating
  <2> QED BY <2>1, <2>2, InstallFresh DEF Evaluating
<1>6. ASSUME NEW t \in Threads,
             Snapshot(t) \/ Serialize(t) \/ Open(t) \/ Write(t) \/ Replace(t) \/ DiskError(t)
      PROVE  LinesFresh'
  <2>1. UNCHANGED <<samples, line, key, fit, late>>
    BY <1>6 DEF Snapshot, Serialize, Open, Write, Replace, DiskError
  <2>2. pc[t] \notin Fitting
    BY <1>6 DEF Snapshot, Serialize, Open, Write, Replace, DiskError, Goto, Fitting, Evaluating
  <2>3. \E to \in {"serialize", "open", "write", "replace", "idle"} : pc' = [pc EXCEPT ![t] = to]
    BY <1>6 DEF Snapshot, Serialize, Open, Write, Replace, DiskError, Goto
  <2>4. \A u \in Threads : pc[u] = pc'[u] \/ (pc[u] \notin Fitting /\ pc'[u] \notin Fitting)
    BY <1>1, <2>2, <2>3 DEF Fitting, Evaluating
  <2> QED BY <2>1, <2>4, FreshElsewhere
<1>7. CASE Restart  BY <1>7 DEF Restart, LinesFresh, Settled, Knows, Evaluating
<1>8. CASE UNCHANGED vars
  <2>1. UNCHANGED <<samples, line, key, fit, late, pc>>  BY <1>8 DEF vars
  <2> QED BY <2>1, FreshElsewhere
<1> QED BY <1>2, <1>3, <1>4, <1>5, <1>6, <1>7, <1>8 DEF Next

\* The admission line keeps what it admits within the finite-sample budget, and is the
\* lowest of its grid that does (RiskModel.refit, calibrate), however the threads that label
\* a key and scan its labels interleave, once the last fit of the key was met by no other
\* thread's label; no bound on labels, scores or threads.
THEOREM LinesFit == Spec => []LineFitsBudget
<1>1. IInv /\ LinesFresh => LineFitsBudget
  <2> SUFFICES ASSUME IInv, LinesFresh, NEW k \in Keys, Settled(k)
               PROVE  LET clean == samples[k].clean IN
                      /\ line[k] = NoLine <=> Len(clean) < MinSamples
                      /\ line[k] \notin {NoLine, Top} =>
                           FitsBudget(AtLeast(clean, Lowest(line[k])), Len(clean))
                      /\ line[k] >= 200 => ~ FitsBudget(AtLeast(clean, line[k] - 101), Len(clean))
    BY DEF LineFitsBudget
  <2> DEFINE clean == samples[k].clean
  <2>1. clean \in Seq(Scores)
    BY DEF IInv, Shaped, Memory, Models, SampleSet, Within
  <2>2. line[k] = Fitted(clean)  BY DEF LinesFresh
  <2>3. CASE Len(clean) < MinSamples  BY <2>2, <2>3 DEF Fitted, NoLine
  <2>4. CASE ~ (Len(clean) < MinSamples)
    <3>1. line[k] = ScannedFrom(clean, Len(clean), 0)  BY <2>2, <2>4 DEF Fitted
    <3> HIDE DEF clean
    <3>2. line[k] \in Nat  BY <2>1, <3>1, ScannedFits
    <3> QED BY <2>1, <2>4, <3>1, <3>2, ScannedFits DEF NoLine, clean
  <2> QED BY <2>3, <2>4
<1>2. IInv /\ LinesFresh /\ [Next]_vars => (IInv /\ LinesFresh)'
  BY EarnedStep, FreshStep
<1> QED BY <1>1, <1>2, EarnedInit, FreshInit, PTL DEF Spec

-----------------------------------------------------------------------------
(* A label is durable once its STOP is over.                                 *)

Alone(t) == pc[t] # "idle" /\ solo[t]
Saving == {"open", "write", "replace"}

(* A thread that no other has joined has the slices of the memory, then the memory, as
   its copy, the temporary file to itself from "write" on, and its copy in it at
   "replace".                                                                       *)
SavedAlone ==
  /\ \A t \in Threads : Alone(t) => AtWork = {t}
  /\ \A t \in Threads : Alone(t) /\ pc[t] = "serialize" =>
       copy[t] = [samples |-> Sliced, line |-> NoModel.line, ahead |-> ahead]
  /\ \A t \in Threads : Alone(t) /\ pc[t] \in Saving => copy[t] = Payload
  /\ \A t \in Threads : Alone(t) /\ pc[t] = "write" =>
       tmp \in Inodes /\ fd[t] = tmp /\ content[tmp] = Empty
  /\ \A t \in Threads : Alone(t) /\ pc[t] = "replace" =>
       tmp \in Inodes /\ content[tmp] = Whole(Payload)
Durable == SavedAlone /\ LabelsDurable

\* The payload depends on the memory only.
LEMMA SamePayload ==
  ASSUME UNCHANGED <<samples, line, ahead>> PROVE Payload' = Payload /\ Sliced' = Sliced
BY DEF Payload, Sliced

\* What is short enough for the file is written to it as it is.
LEMMA ShortKept ==
  ASSUME NEW m \in Models(OnDisk)
  PROVE  m = [samples |-> [k \in Keys |-> [clean |-> Newest(m.samples[k].clean, OnDisk),
                                           drift |-> Newest(m.samples[k].drift, OnDisk)]],
              line |-> m.line, ahead |-> m.ahead]
<1>1. m = [samples |-> m.samples, line |-> m.line, ahead |-> m.ahead] /\ m.samples \in [Keys -> SampleSet(OnDisk)]
  BY DEF Models
<1>2. ASSUME NEW k \in Keys
      PROVE  [clean |-> Newest(m.samples[k].clean, OnDisk),
              drift |-> Newest(m.samples[k].drift, OnDisk)] = m.samples[k]
  <2>1. m.samples[k] \in SampleSet(OnDisk)  BY <1>1
  <2>2. Len(m.samples[k].clean) <= OnDisk /\ Len(m.samples[k].drift) <= OnDisk
    BY <2>1 DEF SampleSet, Within
  <2>3. m.samples[k] = [clean |-> m.samples[k].clean, drift |-> m.samples[k].drift]
    BY <2>1 DEF SampleSet
  <2> QED BY <2>2, <2>3 DEF Newest
<1>3. [k \in Keys |-> [clean |-> Newest(m.samples[k].clean, OnDisk),
                       drift |-> Newest(m.samples[k].drift, OnDisk)]] = m.samples
  BY <1>1, <1>2
<1> QED BY <1>1, <1>3

\* A fresh install holds no label, in memory or on disk.
LEMMA DurableInit == Init => Durable
<1> SUFFICES ASSUME Init PROVE Durable  OBVIOUS
<1>1. NoModel \in Models(OnDisk)  BY NoModelEarned
<1>2. samples = NoModel.samples /\ line = NoModel.line /\ ahead = NoModel.ahead  BY DEF Init, NoModel
<1>4. Payload = NoModel  BY <1>1, <1>2, ShortKept DEF Payload, Sliced
<1>3. Loaded = NoModel  BY DEF Init, Loaded
<1> QED BY <1>3, <1>4 DEF Init, Durable, SavedAlone, LabelsDurable, Alone

\* A thread at work is either alone, or nobody is.
LEMMA AloneOrNobody ==
  ASSUME SavedAlone, NEW t \in Threads, pc[t] # "idle"
  PROVE  \A u \in Threads : Alone(u) => u = t
BY DEF SavedAlone, AtWork

\* The steps of a thread t that leave it at work: nobody is alone afterwards but t.
LEMMA StillAtWork ==
  ASSUME SavedAlone, NEW t \in Threads, pc \in [Threads -> Places], NEW to \in Places \ {"idle"},
         pc[t] # "idle", pc' = [pc EXCEPT ![t] = to], solo' = solo
  PROVE  /\ AtWork' = AtWork /\ AtWork # {}
         /\ \A u \in Threads : Alone(u)' => u = t /\ Alone(t)
<1>1. \A u \in Threads : pc'[u] = IF u = t THEN to ELSE pc[u]  OBVIOUS
<1>2. AtWork' = AtWork /\ t \in AtWork  BY <1>1 DEF AtWork
<1>3. \A u \in Threads : Alone(u)' => Alone(u)  BY <1>1 DEF Alone
<1> QED BY <1>2, <1>3, AloneOrNobody

\* A label begins alone when nobody is at work, and ends the solitude of whoever is.
LEMMA ObserveDurable ==
  ASSUME IInv, Durable, NEW t \in Threads, NEW k \in Keys, NEW l \in Labels,
         Observe(t, k, l[1], l[2])
  PROVE  Durable'
<1>1. /\ pc \in [Threads -> Places] /\ pc[t] = "idle" /\ pc' = [pc EXCEPT ![t] = "count"]
      /\ solo' = [u \in Threads |-> u = t /\ AtWork = {}]
  BY DEF IInv, Shaped, Observe, Goto
<1>2. \A u \in Threads : pc'[u] = IF u = t THEN "count" ELSE pc[u]  BY <1>1
<1>3. t \in AtWork' /\ AtWork' \subseteq AtWork \cup {t}  BY <1>2 DEF AtWork
<1>4. \A u \in Threads : Alone(u)' => u = t /\ AtWork = {}
  BY <1>1 DEF Alone
<1>5. SavedAlone'
  <2>1. \A u \in Threads : Alone(u)' => AtWork' = {u}  BY <1>3, <1>4
  <2>2. \A u \in Threads : Alone(u)' => pc'[u] = "count"  BY <1>2, <1>4
  <2> QED BY <2>1, <2>2 DEF SavedAlone, Saving
<1> QED BY <1>3, <1>5 DEF Durable, LabelsDurable

\* The fit comes before the copy.
LEMMA FittingDurable ==
  ASSUME IInv, Durable, NEW t \in Threads, Count(t) \/ Scan(t) \/ Assign(t) \/ Drop(t)
  PROVE  Durable'
<1>1. /\ pc \in [Threads -> Places] /\ pc[t] # "idle" /\ solo' = solo
  BY DEF IInv, Shaped, Count, Scan, Assign, Drop, Install, Goto
<1>2. PICK to \in {"drop", "scan", "assign", "snapshot"} : pc' = [pc EXCEPT ![t] = to]
  BY DEF Count, Scan, Assign, Drop, Goto
<1>3. /\ AtWork' = AtWork /\ AtWork # {}
      /\ \A u \in Threads : Alone(u)' => u = t /\ Alone(t)
  <2>1. to \in Places \ {"idle"}  BY DEF Places
  <2> QED BY <1>1, <1>2, <2>1, StillAtWork DEF Durable
<1>4. pc'[t] = to  BY <1>1, <1>2
<1>5. \A u \in Threads : Alone(u)' => AtWork' = {u}  BY <1>3 DEF Durable, SavedAlone
<1> QED BY <1>3, <1>4, <1>5 DEF Durable, SavedAlone, LabelsDurable, Saving

\* The slices are those of the memory.
LEMMA SnapshotDurable ==
  ASSUME IInv, Durable, NEW t \in Threads, Snapshot(t)
  PROVE  Durable'
<1>1. /\ pc \in [Threads -> Places] /\ pc[t] = "snapshot" /\ pc' = [pc EXCEPT ![t] = "serialize"]
      /\ solo' = solo
  BY DEF IInv, Shaped, Snapshot, Goto
<1>2. /\ AtWork' = AtWork /\ AtWork # {}
      /\ \A u \in Threads : Alone(u)' => u = t /\ Alone(t)
  BY <1>1, StillAtWork DEF Durable, Places
<1>3. pc'[t] = "serialize"  BY <1>1
<1>4. \A u \in Threads : Alone(u)' => AtWork' = {u}  BY <1>2 DEF Durable, SavedAlone
<1>5. copy'[t] = [samples |-> Sliced, line |-> NoModel.line, ahead |-> ahead]'
  <2>1. Sliced' = Sliced  BY SamePayload DEF Snapshot
  <2> QED BY <2>1 DEF Snapshot, IInv, Shaped
<1> QED BY <1>2, <1>3, <1>4, <1>5 DEF Durable, SavedAlone, LabelsDurable, Saving

\* With the lines the copy is the memory.
LEMMA SerializeDurable ==
  ASSUME IInv, Durable, NEW t \in Threads, Serialize(t)
  PROVE  Durable'
<1>1. /\ pc \in [Threads -> Places] /\ pc[t] = "serialize" /\ pc' = [pc EXCEPT ![t] = "open"]
      /\ solo' = solo /\ copy' = [copy EXCEPT ![t].line = line]
  BY DEF IInv, Shaped, Serialize, Goto
<1>2. /\ AtWork' = AtWork /\ AtWork # {}
      /\ \A u \in Threads : Alone(u)' => u = t /\ Alone(t)
  BY <1>1, StillAtWork DEF Durable, Places
<1>3. pc'[t] = "open"  BY <1>1
<1>4. \A u \in Threads : Alone(u)' => AtWork' = {u}  BY <1>2 DEF Durable, SavedAlone
<1>5. Alone(t) => copy'[t] = Payload'
  <2> SUFFICES ASSUME Alone(t) PROVE copy'[t] = Payload'  OBVIOUS
  <2>1. copy[t] = [samples |-> Sliced, line |-> NoModel.line, ahead |-> ahead]
    BY <1>1 DEF Durable, SavedAlone
  <2>2. copy'[t] = [copy[t] EXCEPT !.line = line]  BY <1>1 DEF IInv, Shaped
  <2>3. copy'[t] = Payload  BY <2>1, <2>2 DEF Payload
  <2>4. Payload' = Payload  BY SamePayload DEF Serialize
  <2> QED BY <2>3, <2>4
<1> QED BY <1>2, <1>3, <1>4, <1>5 DEF Durable, SavedAlone, LabelsDurable

\* The temporary file is there and empty, whatever earlier failures left of it.
LEMMA OpenDurable ==
  ASSUME IInv, Durable, NEW t \in Threads, Open(t)
  PROVE  Durable'
<1>1. /\ pc \in [Threads -> Places] /\ pc[t] = "open" /\ pc' = [pc EXCEPT ![t] = "write"]
      /\ solo' = solo /\ copy' = copy
  BY DEF IInv, Shaped, Open, Goto
<1>2. /\ AtWork' = AtWork /\ AtWork # {}
      /\ \A u \in Threads : Alone(u)' => u = t /\ Alone(t)
  BY <1>1, StillAtWork DEF Durable, Places
<1>3. pc'[t] = "write"  BY <1>1
<1>4. \A u \in Threads : Alone(u)' => AtWork' = {u}  BY <1>2 DEF Durable, SavedAlone
<1>5. Payload' = Payload  BY SamePayload DEF Open
<1>6. Alone(t) => copy'[t] = Payload'  BY <1>1, <1>5 DEF Durable, SavedAlone, Saving
<1>7. TmpInode \in Inodes
  <2>1. CASE tmp = NoInode
    <3>1. (CHOOSE n \in Unused : TRUE) \in Unused  BY <2>1 DEF Open
    <3> QED BY <2>1, <3>1 DEF TmpInode, Unused
  <2>2. CASE tmp # NoInode  BY <2>2 DEF TmpInode, IInv, Shaped
  <2> QED BY <2>1, <2>2
<1>8. tmp' \in Inodes /\ fd'[t] = tmp' /\ content'[tmp'] = Empty
  BY <1>7 DEF Open, IInv, Shaped, Handles
<1> QED BY <1>2, <1>3, <1>4, <1>6, <1>8 DEF Durable, SavedAlone, LabelsDurable

\* Over an empty file the copy is written whole.
LEMMA WriteDurable ==
  ASSUME IInv, Durable, NEW t \in Threads, Write(t)
  PROVE  Durable'
<1>1. /\ pc \in [Threads -> Places] /\ pc[t] = "write" /\ pc' = [pc EXCEPT ![t] = "replace"]
      /\ solo' = solo /\ copy' = copy /\ tmp' = tmp
  BY DEF IInv, Shaped, Write, Goto
<1>2. /\ AtWork' = AtWork /\ AtWork # {}
      /\ \A u \in Threads : Alone(u)' => u = t /\ Alone(t)
  BY <1>1, StillAtWork DEF Durable, Places
<1>3. pc'[t] = "replace"  BY <1>1
<1>4. \A u \in Threads : Alone(u)' => AtWork' = {u}  BY <1>2 DEF Durable, SavedAlone
<1>5. Payload' = Payload  BY SamePayload DEF Write
<1>6. Alone(t) => copy'[t] = Payload' /\ copy[t] = Payload
  BY <1>1, <1>5 DEF Durable, SavedAlone, Saving
<1>7. Alone(t) => tmp \in Inodes /\ fd[t] = tmp /\ content[tmp] = Empty
  BY <1>1 DEF Durable, SavedAlone
<1>8. Alone(t) => tmp' \in Inodes /\ content'[tmp'] = Whole(Payload)'
  <2> SUFFICES ASSUME Alone(t) PROVE tmp' \in Inodes /\ content'[tmp'] = Whole(Payload)'
    OBVIOUS
  <2>1. PICK new \in Overlaid(content[fd[t]], copy[t]) : content' = [content EXCEPT ![fd[t]] = new]
    BY DEF Write
  <2>2. new = Whole(Payload)  BY <1>6, <1>7, <2>1 DEF Overlaid, Empty
  <2>3. content'[tmp] = Whole(Payload)  BY <1>7, <2>1, <2>2 DEF IInv, Shaped
  <2> QED BY <1>1, <1>5, <1>7, <2>3 DEF Whole
<1> QED BY <1>2, <1>3, <1>4, <1>6, <1>8 DEF Durable, SavedAlone, LabelsDurable

\* When a save ends, nobody who was alone is left.
LEMMA NobodyAlone ==
  ASSUME IInv, SavedAlone, NEW t \in Threads, pc[t] # "idle",
         pc' = [pc EXCEPT ![t] = "idle"], solo' = solo
  PROVE  (\A u \in Threads : ~ Alone(u)') /\ (AtWork' = {} => AtWork = {t})
<1>1. pc \in [Threads -> Places]  BY DEF IInv, Shaped
<1>2. \A u \in Threads : pc'[u] = IF u = t THEN "idle" ELSE pc[u]  BY <1>1
<1>3. \A u \in Threads : Alone(u)' => u # t /\ Alone(u)  BY <1>2 DEF Alone
<1>4. \A u \in Threads : ~ Alone(u)'  BY <1>3, AloneOrNobody
<1>5. AtWork = AtWork' \cup {t}  BY <1>2 DEF AtWork
<1> QED BY <1>4, <1>5

\* The file becomes what was written, which for a thread alone is the memory.
LEMMA ReplaceDurable ==
  ASSUME IInv, Durable, NEW t \in Threads, Replace(t)
  PROVE  Durable'
<1>1. /\ pc[t] = "replace" /\ pc' = [pc EXCEPT ![t] = "idle"] /\ solo' = solo
      /\ content' = content /\ stale' = ~ solo[t]
  BY DEF Replace, Goto
<1>2. \A u \in Threads : ~ Alone(u)'  BY <1>1, NobodyAlone DEF Durable
<1>3. SavedAlone'  BY <1>2 DEF SavedAlone
<1>4. ASSUME ~ stale' PROVE Loaded' = Payload'
  <2>1. Alone(t)  BY <1>1, <1>4 DEF Alone
  <2>2. tmp \in Inodes /\ content[tmp] = Whole(Payload)
    BY <1>1, <2>1 DEF Durable, SavedAlone
  <2>3. tmp # NoInode  BY <2>2, RiskAssumption
  <2>4. risk' = tmp  BY <2>3 DEF Replace
  <2>5. Payload' = Payload  BY SamePayload DEF Replace
  <2>6. Loaded' = content[tmp].model  BY <1>1, <2>3, <2>4 DEF Loaded
  <2> QED BY <2>2, <2>5, <2>6 DEF Whole
<1> QED BY <1>3, <1>4 DEF Durable, LabelsDurable

\* A failed save is not the last word.
LEMMA DiskErrorDurable ==
  ASSUME IInv, Durable, NEW t \in Threads, DiskError(t)
  PROVE  Durable'
<1>1. pc[t] # "idle" /\ pc' = [pc EXCEPT ![t] = "idle"] /\ solo' = solo /\ stale' = TRUE
  BY DEF DiskError
<1>2. \A u \in Threads : ~ Alone(u)'  BY <1>1, NobodyAlone DEF Durable
<1> QED BY <1>1, <1>2 DEF Durable, SavedAlone, LabelsDurable

\* Memory becomes what the file holds.
LEMMA RestartDurable ==
  ASSUME IInv, Restart
  PROVE  Durable'
<1>1. Loaded \in Models(OnDisk)  BY LoadedEarned
<1>2. samples' = Loaded.samples /\ line' = Loaded.line /\ ahead' = Loaded.ahead  BY DEF Restart
<1>3. Payload' = Loaded  BY <1>1, <1>2, ShortKept DEF Payload, Sliced
<1>4. Loaded' = Loaded  BY DEF Restart, Loaded
<1>5. \A u \in Threads : ~ Alone(u)'  BY DEF Restart, Alone
<1> QED BY <1>3, <1>4, <1>5 DEF Durable, SavedAlone, LabelsDurable

\* Nothing happened.
LEMMA StutterDurable ==
  ASSUME Durable, UNCHANGED vars
  PROVE  Durable'
<1>1. Payload' = Payload /\ Sliced' = Sliced  BY SamePayload DEF vars
<1>2. Loaded' = Loaded /\ AtWork' = AtWork  BY DEF vars, Loaded, AtWork
<1>3. \A u \in Threads : Alone(u)' <=> Alone(u)  BY DEF vars, Alone
<1>4. SavedAlone'  BY <1>1, <1>2, <1>3 DEF vars, Durable, SavedAlone, Whole
<1>5. LabelsDurable'  BY <1>1, <1>2 DEF vars, Durable, LabelsDurable
<1> QED BY <1>4, <1>5 DEF Durable

\* Every step keeps saved labels durable.
LEMMA DurableStep == IInv /\ Durable /\ [Next]_vars => Durable'
<1> SUFFICES ASSUME IInv, Durable, [Next]_vars PROVE Durable'  OBVIOUS
<1>1. CASE \E t \in Threads, k \in Keys, l \in Labels : Observe(t, k, l[1], l[2])
  BY <1>1, ObserveDurable
<1>2. CASE \E t \in Threads : Count(t) \/ Scan(t) \/ Assign(t) \/ Drop(t)
  BY <1>2, FittingDurable
<1>3. CASE \E t \in Threads : Snapshot(t) \/ Serialize(t)
  BY <1>3, SnapshotDurable, SerializeDurable
<1>4. CASE \E t \in Threads : Open(t)  BY <1>4, OpenDurable
<1>5. CASE \E t \in Threads : Write(t)  BY <1>5, WriteDurable
<1>6. CASE \E t \in Threads : Replace(t)  BY <1>6, ReplaceDurable
<1>7. CASE \E t \in Threads : DiskError(t)  BY <1>7, DiskErrorDurable
<1>8. CASE Restart  BY <1>8, RestartDurable
<1>9. CASE UNCHANGED vars  BY <1>9, StutterDurable
<1> QED BY <1>1, <1>2, <1>3, <1>4, <1>5, <1>6, <1>7, <1>8, <1>9 DEF Next

\* After a save that met no other and did not fail, a restart brings back the lines in
\* force and the newest labels behind them (note_outcome, RiskModel.save, load), with
\* any number of threads, failures and restarts before it.
THEOREM LabelsLast == Spec => []LabelsDurable
<1>1. Durable => LabelsDurable  BY DEF Durable
<1>2. IInv /\ Durable /\ [Next]_vars => (IInv /\ Durable)'  BY EarnedStep, DurableStep
<1> QED BY <1>1, <1>2, EarnedInit, DurableInit, PTL DEF Spec

=============================================================================
