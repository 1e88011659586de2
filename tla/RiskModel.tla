------------------------------ MODULE RiskModel ------------------------------
(***************************************************************************)
(* The risk model (agent_shepherd/core/judge/risk.py): labelled judge      *)
(* scores per key, the admission line fitted to them by a scan of a grid   *)
(* of thresholds, and its file.  Handler threads label scores at a STOP    *)
(* (core/server.py: note_outcome), each label being observed, fitted and   *)
(* saved; nothing is locked.  A fit walks the list while others append to  *)
(* it and stores its line afterwards; a save slices the labels first and   *)
(* reads the lines later; and every save goes through one temporary file   *)
(* of a fixed name, so two saves may hold the same file open.              *)
(*                                                                         *)
(* A file is an inode: the name risk.json and the name risk.json.tmp each  *)
(* refer to one or to none, and os.replace moves the second name onto the  *)
(* first.  Scores and lines are integers in units of 1/10000.              *)
(***************************************************************************)
EXTENDS Integers, Sequences, FiniteSets

CONSTANTS
  Threads,        \* handler threads that label scores
  Keys,           \* agent:judge
  Scores,         \* confidences the judge gives
  Labels,         \* pairs of a score and whether drift was confirmed
  TargetPct,      \* risk_target_fpr, in percent
  MinSamples,     \* risk_min_samples
  Pauses,         \* bound: points of the grid before which a scan may be interrupted
  Kept,           \* labels of a kind kept in memory (2000 in the code)
  OnDisk,         \* labels of a kind kept in the file (500 in the code)
  Inodes,         \* inodes of the disk; two more than threads are never all in use
  NoInode,        \* no file of that name, no file open
  MaxLabels,      \* bound: labels in all
  MaxCrashes      \* bound: restarts of the daemon

ASSUME RiskAssumption ==
  /\ Keys # {}
  /\ Scores \subseteq Nat
  /\ Labels \subseteq Scores \X BOOLEAN
  /\ TargetPct \in 0..100
  /\ MinSamples \in Nat \ {0}
  /\ Pauses \subseteq 1..100
  /\ NoInode \notin Inodes
  /\ OnDisk \in Nat /\ Kept \in Nat /\ MinSamples <= OnDisk /\ OnDisk <= Kept

VARIABLES
  samples,        \* the labelled scores of a key
  line,           \* its fitted threshold, or NoLine
  risk,           \* the inode named risk.json, or NoInode
  tmp,            \* the inode named risk.json.tmp, or NoInode
  content,        \* what an inode holds
  pc,             \* what a thread is at
  key,            \* the key it labels
  fit,            \* the fit it is computing
  copy,           \* the model it is saving
  fd,             \* the inode it has open
  solo,           \* history: no other thread was at work since it began
  stale,          \* history: the last save failed or was not alone
  late,           \* history: keys whose line is of labels before another thread's, or of a file
  ahead,          \* history: keys whose line came from a file that may lack its labels
  labels,         \* number of labels so far
  crashes         \* number of restarts so far

vars == <<samples, line, risk, tmp, content, pc, key, fit, copy, fd, solo, stale, late, ahead,
          labels, crashes>>

-----------------------------------------------------------------------------
(* The fit.                                                                  *)

NoLine == -1
Top == 10000

(* The grid is walked by adding 0.01 to a double.  At these points the sum lies
   above the score of the same two decimals, which is then no hit; at those the
   sum, rounded up to four decimals, becomes a line one unit higher.           *)
AboveScore == {6} \cup 18..100
AboveLine == {7, 17} \cup 18..100
Crossing(i) == 100 * i + (IF i \in AboveScore THEN 1 ELSE 0)
RoundedUp(i) == 100 * i + (IF i \in AboveLine THEN 1 ELSE 0)

AtLeast(q, bar) == Cardinality({n \in 1..Len(q) : q[n] >= bar})

(* hits/n * (n+1)/n <= target, without the divisions. *)
FitsBudget(hits, n) == 100 * hits * (n + 1) <= TargetPct * n * n

\* Mutation: the finite-sample correction is left out.
FitAtPlain(clean, n, i) == 100 * AtLeast(clean, Crossing(i)) <= TargetPct * n
(* Does point i of the grid keep the budget on n labels? *)
FitAt(clean, n, i) == FitsBudget(AtLeast(clean, Crossing(i)), n)

(* The first point that does, walking on from `first`; the top when none does. *)
ScannedFrom(clean, n, first) ==
  LET fits == {i \in first..100 : FitAt(clean, n, i)}
  IN  IF fits = {} THEN Top ELSE RoundedUp(CHOOSE i \in fits : \A j \in fits : i <= j)

Newest(q, n) == IF Len(q) <= n THEN q ELSE SubSeq(q, Len(q) - n + 1, Len(q))

-----------------------------------------------------------------------------
(* The model and its file.                                                   *)

NoSamples == [clean |-> <<>>, drift |-> <<>>]
NoModel == [samples |-> [k \in Keys |-> NoSamples], line |-> [k \in Keys |-> NoLine],
            ahead |-> {}]

(* What save writes: the newest labels, and the lines.  `ahead` is history. *)
Sliced == [k \in Keys |-> [clean |-> Newest(samples[k].clean, OnDisk),
                           drift |-> Newest(samples[k].drift, OnDisk)]]
Payload == [samples |-> Sliced, line |-> line, ahead |-> ahead]

Unused == Inodes \ ({risk, tmp} \cup {fd[t] : t \in Threads})
TmpInode == IF tmp = NoInode THEN CHOOSE n \in Unused : TRUE ELSE tmp

Empty == [kind |-> "empty", model |-> NoModel]
Torn == [kind |-> "torn", model |-> NoModel]
Whole(model) == [kind |-> "whole", model |-> model]

(* A missing or unreadable file gives a model without evidence. *)
Loaded == IF risk = NoInode THEN NoModel ELSE content[risk].model

(* A fit: the next point of its scan, the number of clean labels it read, the line
   it found, and whether another thread has added a clean label meanwhile (history). *)
NoFit == [next |-> 0, size |-> 0, line |-> NoLine, met |-> FALSE]

Init ==
  /\ samples = NoModel.samples /\ line = NoModel.line
  /\ risk = NoInode /\ tmp = NoInode /\ content = [n \in Inodes |-> Empty]
  /\ pc = [t \in Threads |-> "idle"] /\ key = [t \in Threads |-> CHOOSE k \in Keys : TRUE]
  /\ fit = [t \in Threads |-> NoFit]
  /\ copy = [t \in Threads |-> NoModel] /\ fd = [t \in Threads |-> NoInode]
  /\ solo = [t \in Threads |-> FALSE] /\ stale = FALSE
  /\ late = {} /\ ahead = {}
  /\ labels = 0 /\ crashes = 0

-----------------------------------------------------------------------------
(* note_outcome: observe, refit, save.                                       *)

Goto(t, from, to) == pc[t] = from /\ pc' = [pc EXCEPT ![t] = to]
AtWork == {t \in Threads : pc[t] # "idle"}

Learned(set, score, drift) ==
  IF drift THEN [set EXCEPT !.drift = Newest(Append(@, score), Kept)]
           ELSE [set EXCEPT !.clean = Newest(Append(@, score), Kept)]

Evaluating == {"drop", "scan", "assign"}
Met(k) == [u \in Threads |-> IF pc[u] \in Evaluating /\ key[u] = k
                             THEN [fit[u] EXCEPT !.met = TRUE] ELSE fit[u]]

Observe(t, k, score, drift) ==
  /\ Goto(t, "idle", "count")
  /\ labels < MaxLabels /\ labels' = labels + 1
  /\ samples' = [samples EXCEPT ![k] = Learned(@, score, drift)]
  /\ key' = [key EXCEPT ![t] = k]
  /\ fit' = IF drift THEN fit ELSE Met(k)
  /\ solo' = [u \in Threads |-> u = t /\ AtWork = {}]
  /\ UNCHANGED <<line, risk, tmp, content, copy, fd, stale, late, ahead, crashes>>

(* The labels are counted; too few of them give no line. *)
Count(t) ==
  LET n == Len(samples[key[t]].clean) IN
  /\ Goto(t, "count", IF n < MinSamples THEN "drop" ELSE "scan")
  /\ fit' = [fit EXCEPT ![t] = [NoFit EXCEPT !.size = n]]
  /\ UNCHANGED <<samples, line, risk, tmp, content, key, copy, fd, solo, stale, late, ahead,
                 labels, crashes>>

(* The scan walks the grid over the list as it is at every point; another thread
   may add labels between two of them.                                         *)
Scan(t) ==
  LET clean == samples[key[t]].clean
      f == fit[t] IN
  /\ \/ /\ Goto(t, "scan", "assign")
        /\ fit' = [fit EXCEPT ![t].line = ScannedFrom(clean, f.size, f.next)]
     \/ \E i \in Pauses :
          /\ i > f.next /\ \A j \in f.next..(i - 1) : ~ FitAt(clean, f.size, j)
          /\ Goto(t, "scan", "scan")
          /\ fit' = [fit EXCEPT ![t].next = i]
  /\ UNCHANGED <<samples, line, risk, tmp, content, key, copy, fd, solo, stale, late, ahead,
                 labels, crashes>>

(* The key gets a line, or loses it.  History: the line is late when labels came
   while it was computed; a save that has sliced the labels of a key and not yet
   read the lines is overtaken when the key gets its first line.               *)
Overtaken(k) == [u \in Threads |-> IF pc[u] = "serialize"
                                   THEN [copy[u] EXCEPT !.ahead = @ \cup {k}] ELSE copy[u]]
Install(t, new) ==
  LET k == key[t] IN
  /\ line' = [line EXCEPT ![k] = new]
  /\ fit' = [fit EXCEPT ![t] = NoFit]
  /\ late' = IF fit[t].met THEN late \cup {k} ELSE late \ {k}
  /\ ahead' = ahead \ {k}
  /\ copy' = IF line[k] = NoLine /\ new # NoLine THEN Overtaken(k) ELSE copy
  /\ UNCHANGED <<samples, risk, tmp, content, key, fd, solo, stale, labels, crashes>>

\* Mutation: the fallback is stored as if it had been fitted.
DropToPrior(t) == Goto(t, "drop", "snapshot") /\ Install(t, Top)
Drop(t) == Goto(t, "drop", "snapshot") /\ Install(t, NoLine)

Assign(t) == Goto(t, "assign", "snapshot") /\ Install(t, fit[t].line)

(* The payload holds slices of the labels, and the thresholds themselves. *)
Snapshot(t) ==
  /\ Goto(t, "snapshot", "serialize")
  /\ copy' = [copy EXCEPT ![t] = [samples |-> Sliced, line |-> NoModel.line, ahead |-> ahead]]
  /\ UNCHANGED <<samples, line, risk, tmp, content, key, fit, fd, solo, stale, late, ahead,
                 labels, crashes>>

(* After mkdir the payload becomes text: the lines are those of this moment. *)
Serialize(t) ==
  /\ Goto(t, "serialize", "open")
  /\ copy' = [copy EXCEPT ![t].line = line]
  /\ UNCHANGED <<samples, line, risk, tmp, content, key, fit, fd, solo, stale, late, ahead,
                 labels, crashes>>

\* Mutation: the temporary file is opened without being truncated.
OpenKeeps(t) ==
  /\ Goto(t, "open", "write")
  /\ tmp = NoInode => Unused # {}
  /\ tmp' = TmpInode
  /\ fd' = [fd EXCEPT ![t] = TmpInode]
  /\ content' = [content EXCEPT ![TmpInode] = IF tmp = NoInode THEN Empty ELSE @]
  /\ UNCHANGED <<samples, line, risk, key, fit, copy, solo, stale, late, ahead, labels, crashes>>
(* The temporary file is created, or truncated whoever else has it open. *)
Open(t) ==
  /\ Goto(t, "open", "write")
  /\ tmp = NoInode => Unused # {}
  /\ tmp' = TmpInode
  /\ fd' = [fd EXCEPT ![t] = TmpInode]
  /\ content' = [content EXCEPT ![TmpInode] = Empty]
  /\ UNCHANGED <<samples, line, risk, key, fit, copy, solo, stale, late, ahead, labels, crashes>>

(* Written from the start of the inode: over what another thread wrote there,
   the end of the longer text remains.                                        *)
Overlaid(old, model) ==
  IF old.kind = "empty" \/ old = Whole(model) THEN {Whole(model)} ELSE {Whole(model), Torn}

Write(t) ==
  /\ Goto(t, "write", "replace")
  /\ \E new \in Overlaid(content[fd[t]], copy[t]) : content' = [content EXCEPT ![fd[t]] = new]
  /\ fd' = [fd EXCEPT ![t] = NoInode]
  /\ UNCHANGED <<samples, line, risk, tmp, key, fit, copy, solo, stale, late, ahead, labels, crashes>>

(* os.replace moves whatever the temporary name refers to, or raises. *)
Replace(t) ==
  /\ Goto(t, "replace", "idle")
  /\ IF tmp = NoInode THEN UNCHANGED <<risk, tmp>> ELSE risk' = tmp /\ tmp' = NoInode
  /\ copy' = [copy EXCEPT ![t] = NoModel]
  /\ stale' = ~ solo[t]
  /\ UNCHANGED <<samples, line, content, key, fit, fd, solo, late, ahead, labels, crashes>>

(* Any error of the disk ends the save; a write may have been cut short.  So does a
   key that appears in the thresholds while they become text.                  *)
DiskError(t) ==
  /\ pc[t] \in {"serialize", "open", "write", "replace"} /\ pc' = [pc EXCEPT ![t] = "idle"]
  /\ content' \in {content} \cup
       (IF pc[t] = "write" THEN {[content EXCEPT ![fd[t]] = Torn]} ELSE {})
  /\ fd' = [fd EXCEPT ![t] = NoInode] /\ copy' = [copy EXCEPT ![t] = NoModel]
  /\ stale' = TRUE
  /\ UNCHANGED <<samples, line, risk, tmp, key, fit, solo, late, ahead, labels, crashes>>

(* The daemon dies; the next one loads the file. *)
Restart ==
  /\ crashes < MaxCrashes /\ crashes' = crashes + 1
  /\ samples' = Loaded.samples /\ line' = Loaded.line
  /\ late' = Keys /\ ahead' = Loaded.ahead
  /\ pc' = [t \in Threads |-> "idle"] /\ fd' = [t \in Threads |-> NoInode]
  /\ fit' = [t \in Threads |-> NoFit]
  /\ copy' = [t \in Threads |-> NoModel] /\ stale' = FALSE
  /\ UNCHANGED <<risk, tmp, content, key, solo, labels>>

Next ==
  \/ \E t \in Threads :
       \/ \E k \in Keys, l \in Labels : Observe(t, k, l[1], l[2])
       \/ Count(t) \/ Scan(t) \/ Assign(t) \/ Drop(t)
       \/ Snapshot(t) \/ Serialize(t) \/ Open(t) \/ Write(t) \/ Replace(t) \/ DiskError(t)
  \/ Restart

Spec == Init /\ [][Next]_vars

-----------------------------------------------------------------------------
(* Properties.                                                               *)

SamplesWithin(s, n) ==
  /\ Len(s.clean) <= n /\ Len(s.drift) <= n
  /\ \A i \in 1..Len(s.clean) : s.clean[i] \in Scores
  /\ \A i \in 1..Len(s.drift) : s.drift[i] \in Scores

(* Every variable holds a value of its kind; memory and file stay bounded. *)
TypeOK ==
  /\ \A k \in Keys : SamplesWithin(samples[k], Kept)
  /\ line \in [Keys -> {NoLine} \cup 0..(Top + 1)]
  /\ risk \in Inodes \cup {NoInode} /\ tmp \in Inodes \cup {NoInode}
  /\ \A n \in Inodes, k \in Keys : SamplesWithin(content[n].model.samples[k], OnDisk)
  /\ pc \in [Threads -> {"idle", "count", "snapshot", "serialize", "open", "write", "replace"}
                          \cup Evaluating]
  /\ fd \in [Threads -> Inodes \cup {NoInode}]

(* "A key with too little evidence is dropped rather than pinned to a fallback"
   (README, RiskModel.refit): a line in force, or in a file a restart would load,
   stands on MinSamples clean labels, through eviction, truncation on disk, torn
   files and restarts, and however fits and saves interleave.  The one exception
   is the first line of a key: fitted between the slices and the text of another
   thread's save, it is in that file without its labels, and in force after a
   restart from it until the next label of the key is fitted.                 *)
LineStandsOnEvidence ==
  \A k \in Keys :
    /\ line[k] # NoLine /\ k \notin ahead => Len(samples[k].clean) >= MinSamples
    /\ Loaded.line[k] # NoLine /\ k \notin Loaded.ahead =>
         Len(Loaded.samples[k].clean) >= MinSamples

(* The line is the fit of the evidence at hand, however the threads that label a
   key interleave: once nobody is between a label and its line, and unless the
   last fit was met by another thread's label or the line is still that of a file,
   a key with too few labels has no line, the scores a line admits (those not below
   it) are within the corrected budget, and one grid step lower they would not be.
   Two lines are apart: the line of last resort, and 0.06, the one point of the
   grid that is rounded down, which admits clean scores of just 0.06 uncounted.  *)
Settled(k) ==
  k \notin late /\ \A t \in Threads : pc[t] \in {"count"} \cup Evaluating => key[t] # k
Lowest(bar) == IF bar = 600 THEN 601 ELSE bar
LineFitsBudget ==
  \A k \in Keys :
    LET clean == samples[k].clean IN
    Settled(k) =>
      /\ line[k] = NoLine <=> Len(clean) < MinSamples
      /\ line[k] \notin {NoLine, Top} => FitsBudget(AtLeast(clean, Lowest(line[k])), Len(clean))
      /\ line[k] >= 200 => ~ FitsBudget(AtLeast(clean, line[k] - 101), Len(clean))

(* A label is durable once its STOP is over: when nobody is at work and the last
   save neither failed nor met another one, a restart brings back the lines in
   force and the newest labels behind them, whatever temporary file earlier
   failures and restarts have left behind.                                    *)
LabelsDurable == AtWork = {} /\ ~ stale => Loaded = Payload
=============================================================================
