---------------------------- MODULE LedgerProofs ----------------------------
(***************************************************************************)
(* The damage of a write that was cut short stays where it is: for any     *)
(* number of threads, records and faults, an append that returned is read  *)
(* by every reader unless the piece right before it is torn, and a fault   *)
(* tears at most one piece.                                                *)
(*                                                                         *)
(* The property is about a line that may have been written long ago; what  *)
(* keeps it true is that pieces before the last are never touched again,   *)
(* and that the writer of the last piece holds the lock.                   *)
(*                                                                         *)
(* What a reader sees is the sequence of the good pieces.  Rank numbers    *)
(* them, Good names them; with both, a tail that counts records misses no  *)
(* more of them than have vanished, and only unended ones vanish.          *)
(***************************************************************************)
EXTENDS Ledger, FiniteSetTheorems, SequenceTheorems, TLAPS

Positions == 1..Len(file)

(* Every record is offered once, so at most one thread wants it and at     *)
(* most one piece is its.                                                  *)
Distinct ==
  /\ \A i, j \in Positions : file[i].rec = file[j].rec => i = j
  /\ \A i \in Positions : file[i].rec < next
  /\ \A t \in Threads : wants[t] < next
  /\ \A t, u \in Threads : wants[t] = wants[u] /\ wants[t] # 0 => t = u
  /\ \A t \in Threads : lock # t /\ wants[t] # 0 =>
       \A i \in Positions : file[i].rec # wants[t]

(* What was acknowledged was written to its end, and nobody wants it more. *)
AckedEnded ==
  /\ \A r \in acked : \E i \in Positions : file[i].rec = r /\ file[i].cut = "line"
  /\ \A t \in Threads : wants[t] \notin acked

(* Whoever holds the lock is the writer of the last piece. *)
Writing ==
  lock # Nobody => wants[lock] # 0 /\ Len(file) # 0 /\ file[Len(file)].rec = wants[lock]

(* The pieces that stay torn for good. *)
Broken == {i \in Positions : Torn(i) /\ ~(lock # Nobody /\ i = Len(file))}

OneEach == Cardinality(Broken) <= faults

Sound == TypeOK /\ Distinct /\ AckedEnded /\ Writing

(* A piece: its record is one of those offered. *)
LEMMA PieceParts ==
  ASSUME NEW p \in Pieces
  PROVE  p = [rec |-> p.rec, cut |-> p.cut] /\ p.rec \in 1..MaxRecords /\ p.cut \in CutsOf(p.rec)
BY DEF Pieces

(* Conversely, a record with a cut of its is a piece. *)
LEMMA PieceMade ==
  ASSUME NEW r \in 1..MaxRecords, NEW c \in CutsOf(r)
  PROVE  [rec |-> r, cut |-> c] \in Pieces
<1>1. [rec |-> r, cut |-> c] \in [rec : {r}, cut : CutsOf(r)]  OBVIOUS
<1> QED  BY <1>1 DEF Pieces

(* The writer's piece is the last one. *)
LEMMA MineIsLast ==
  ASSUME Sound, NEW t \in Threads, lock = t
  PROVE  Mine(t) = Len(file) /\ Len(file) \in Positions
<1>1. Len(file) \in Nat /\ lock # Nobody  BY LedgerAssumption DEF Sound, TypeOK
<1>2. Len(file) \in Positions /\ file[Len(file)].rec = wants[t]
  BY <1>1 DEF Sound, Writing, Positions
<1>3. DOMAIN file = Positions  BY DEF Sound, TypeOK, Positions
<1>4. \A i \in DOMAIN file : file[i].rec = wants[t] => i = Len(file)
  BY <1>2, <1>3 DEF Sound, Distinct
<1> QED  BY <1>2, <1>3, <1>4 DEF Mine

(* The file after the first bytes of a record. *)
LEMMA Appended ==
  ASSUME TypeOK, NEW p \in Pieces, file' = Append(file, p)
  PROVE  /\ file' \in Seq(Pieces) /\ Len(file') = Len(file) + 1
         /\ file'[Len(file) + 1] = p /\ \A i \in Positions : file'[i] = file[i]
BY AppendProperties DEF TypeOK, Positions

(* The file after more bytes of its last record. *)
LEMMA Continued ==
  ASSUME Sound, NEW t \in Threads, lock = t, NEW c \in CutsOf(wants[t]),
         file' = [file EXCEPT ![Mine(t)].cut = c]
  PROVE  /\ file' \in Seq(Pieces) /\ Len(file') = Len(file)
         /\ file'[Len(file)] = [rec |-> wants[t], cut |-> c]
         /\ \A i \in Positions : i # Len(file) => file'[i] = file[i]
         /\ \A i \in Positions : file'[i].rec = file[i].rec
<1>1. Mine(t) = Len(file) /\ Len(file) \in Positions  BY MineIsLast
<1>2. file \in Seq(Pieces) /\ Len(file) \in Nat /\ DOMAIN file = Positions
  BY DEF Sound, TypeOK, Positions
<1>3. lock # Nobody  BY LedgerAssumption
<1>4. file[Len(file)] \in Pieces /\ file[Len(file)].rec = wants[t]
  BY <1>1, <1>2, <1>3, ElementOfSeq DEF Sound, Writing, Positions
<1>5. file[Len(file)] = [rec |-> wants[t], cut |-> file[Len(file)].cut] /\ wants[t] \in 1..MaxRecords
  BY <1>4, PieceParts
<1>9. [file[Len(file)] EXCEPT !.cut = c] = [rec |-> wants[t], cut |-> c]  BY <1>5
<1>6. file' = [file EXCEPT ![Len(file)] = [rec |-> wants[t], cut |-> c]]
  BY <1>1, <1>9
<1>7. [rec |-> wants[t], cut |-> c] \in Pieces  BY <1>5, PieceMade
<1>8. file' \in Seq(Pieces) /\ Len(file') = Len(file)  BY <1>1, <1>2, <1>6, <1>7, ExceptSeq DEF Positions
<1> QED  BY <1>1, <1>2, <1>4, <1>6, <1>8
-----------------------------------------------------------------------------
LEMMA SoundInit == Init => Sound
<1> SUFFICES ASSUME Init PROVE Sound  OBVIOUS
<1>1. TypeOK  BY LedgerAssumption DEF Init, TypeOK
<1>2. Positions = {}  BY DEF Init, Positions
<1> QED  BY <1>1, <1>2 DEF Init, Sound, Distinct, AckedEnded, Writing

LEMMA BeginSound == ASSUME Sound, NEW t \in Threads, Begin(t) PROVE Sound'
<1> USE DEF Begin, tailVars
<1>1. TypeOK'  BY LedgerAssumption DEF Sound, TypeOK
<1>2. next # 0 /\ next \in Nat /\ next \notin acked /\ \A u \in Threads : wants[u] \in Nat
  <2>1. next \notin acked
    BY DEF Sound, TypeOK, AckedEnded, Distinct
  <2> QED  BY <2>1, LedgerAssumption DEF Sound, TypeOK
<1>3. \A i \in Positions : file[i].rec \in Nat
  BY ElementOfSeq, PieceParts DEF Sound, TypeOK, Positions
<1>4. \A u \in Threads : wants'[u] = IF u = t THEN next ELSE wants[u]  BY DEF Sound, TypeOK
<1>5. Distinct'
  <2>1. next' = next + 1 /\ UNCHANGED <<file, lock>>  OBVIOUS
  <2>2. \A i, j \in Positions : file[i].rec = file[j].rec => i = j  BY DEF Sound, Distinct
  <2>3. \A i \in Positions : file[i].rec < next /\ file[i].rec < next + 1 /\ file[i].rec # next
    BY <1>2, <1>3 DEF Sound, Distinct
  <2>4. \A u \in Threads : wants[u] < next /\ wants[u] < next + 1 /\ wants[u] # next
    BY <1>2 DEF Sound, Distinct
  <2>5. \A u \in Threads : wants'[u] < next + 1  BY <1>2, <1>4, <2>4
  <2>6. \A u, v \in Threads : wants'[u] = wants'[v] /\ wants'[u] # 0 => u = v
    BY <1>4, <2>4 DEF Sound, Distinct
  <2>7. \A u \in Threads : lock # u /\ wants'[u] # 0 =>
          \A i \in Positions : file[i].rec # wants'[u]
    BY <1>4, <2>3 DEF Sound, Distinct
  <2> QED BY <2>1, <2>2, <2>3, <2>5, <2>6, <2>7 DEF Distinct, Positions
<1>6. AckedEnded'  BY <1>2, <1>4 DEF Sound, AckedEnded, Positions
<1>7. lock # Nobody => lock \in Threads /\ wants[lock] # 0
  BY DEF Sound, TypeOK, Writing
<1>8. Writing'  BY <1>4, <1>7 DEF Sound, Writing
<1> QED  BY <1>1, <1>5, <1>6, <1>8 DEF Sound

LEMMA WriteSound ==
  ASSUME Sound, NEW t \in Threads, Write(t)
  PROVE  Sound' /\ lock = Nobody /\ lock' = t /\ Len(file') = Len(file) + 1
         /\ \A i \in Positions : file'[i] = file[i]
<1>1. /\ wants[t] # 0 /\ lock = Nobody /\ lock' = t /\ lock # t
      /\ UNCHANGED <<wants, acked, next, faults, following>>
  BY DEF Write, LockIsFree, tailVars
<1>2. PICK c \in CutsOf(wants[t]) : file' = Append(file, [rec |-> wants[t], cut |-> c])
  BY DEF Write, Put, Opened
<1>3. wants[t] \in 1..MaxRecords  BY <1>1, LedgerAssumption DEF Sound, TypeOK
<1> DEFINE p == [rec |-> wants[t], cut |-> c]
<1>4. p \in Pieces  BY <1>3, PieceMade
<1> HIDE DEF p
<1>5. /\ file' \in Seq(Pieces) /\ Len(file') = Len(file) + 1
      /\ file'[Len(file) + 1] = p /\ \A i \in Positions : file'[i] = file[i]
  BY <1>2, <1>4, Appended DEF Sound, p
<1>6. Len(file) \in Nat  BY DEF Sound, TypeOK
<1>7. TypeOK'  BY <1>1, <1>5 DEF Sound, TypeOK
<1>8. Positions' = Positions \cup {Len(file) + 1}  BY <1>5, <1>6 DEF Positions
<1>9. p.rec = wants[t]  BY DEF p
<1>10. \A i \in Positions : file[i].rec # wants[t]  BY <1>1 DEF Sound, Distinct
<1>11. Distinct'
  <2>1. \A i, j \in Positions' : file'[i].rec = file'[j].rec => i = j
    BY <1>5, <1>8, <1>9, <1>10 DEF Sound, Distinct
  <2>2. \A i \in Positions' : file'[i].rec < next'
    BY <1>1, <1>5, <1>8, <1>9 DEF Sound, Distinct
  <2>3. \A u \in Threads : lock' # u /\ wants'[u] # 0 =>
          \A i \in Positions' : file'[i].rec # wants'[u]
    BY <1>1, <1>5, <1>8, <1>9, LedgerAssumption DEF Sound, Distinct
  <2> QED  BY <1>1, <2>1, <2>2, <2>3 DEF Sound, Distinct
<1>12. AckedEnded'  BY <1>1, <1>5, <1>8 DEF Sound, AckedEnded
<1>13. Writing'  BY <1>1, <1>5, <1>6, <1>9 DEF Sound, Writing
<1> QED  BY <1>1, <1>5, <1>7, <1>11, <1>12, <1>13 DEF Sound

LEMMA WriteMoreSound ==
  ASSUME Sound, NEW t \in Threads, WriteMore(t)
  PROVE  Sound' /\ lock = t /\ lock' = t /\ Len(file') = Len(file)
         /\ \A i \in Positions : i # Len(file) => file'[i] = file[i]
<1>1. lock = t /\ UNCHANGED <<lock, wants, acked, next, faults, following>>
  BY DEF WriteMore, tailVars
<1>2. PICK c \in CutsOf(wants[t]) :
        Later(file[Mine(t)].cut, c) /\ file' = [file EXCEPT ![Mine(t)].cut = c]
  BY DEF WriteMore, Put
<1>3. /\ file' \in Seq(Pieces) /\ Len(file') = Len(file)
      /\ file'[Len(file)] = [rec |-> wants[t], cut |-> c]
      /\ \A i \in Positions : i # Len(file) => file'[i] = file[i]
      /\ \A i \in Positions : file'[i].rec = file[i].rec
  BY <1>1, <1>2, Continued
<1>4. lock # Nobody /\ Len(file) \in Positions /\ file[Len(file)].rec = wants[t]
  BY <1>1, LedgerAssumption, MineIsLast DEF Sound, Writing
<1>5. TypeOK'  BY <1>1, <1>3 DEF Sound, TypeOK
<1>6. Positions' = Positions  BY <1>3 DEF Positions
<1>7. Distinct'  BY <1>1, <1>3, <1>6 DEF Sound, Distinct
<1>8. AckedEnded'
  <2>1. ASSUME NEW r \in acked PROVE \E i \in Positions' : file'[i].rec = r /\ file'[i].cut = "line"
    <3>1. PICK i \in Positions : file[i].rec = r /\ file[i].cut = "line"
      BY <2>1 DEF Sound, AckedEnded
    <3>2. i # Len(file)  BY <1>4, <2>1, <3>1 DEF Sound, AckedEnded
    <3> QED  BY <1>3, <1>6, <3>1, <3>2
  <2> QED  BY <1>1, <2>1 DEF Sound, AckedEnded
<1>9. Writing'  BY <1>1, <1>3, <1>4 DEF Sound, Writing
<1> QED  BY <1>1, <1>3, <1>5, <1>7, <1>8, <1>9 DEF Sound

(* However a thread leaves append, its record is nobody's any more. *)
LEMMA LeaveSound ==
  ASSUME Sound, NEW t \in Threads, lock = t, lock' = Nobody,
         wants' = [wants EXCEPT ![t] = 0], acked' \in {acked, acked \cup {wants[t]}},
         acked' # acked => file[Len(file)].cut = "line",
         faults' \in 0..MaxFaults, UNCHANGED <<file, next, following>>
  PROVE  Sound'
<1>1. lock # Nobody /\ Len(file) \in Positions /\ file[Len(file)].rec = wants[t] /\ wants[t] # 0
  BY LedgerAssumption, MineIsLast DEF Sound, Writing
<1>2. \A u \in Threads : wants'[u] = IF u = t THEN 0 ELSE wants[u]  BY DEF Sound, TypeOK
<1>3. wants[t] \in 1..MaxRecords  BY <1>1, LedgerAssumption DEF Sound, TypeOK
<1>4. TypeOK'  BY <1>3, LedgerAssumption DEF Sound, TypeOK
<1>5. Positions' = Positions  BY DEF Positions
<1>6. next \in Nat /\ 0 < next  BY LedgerAssumption DEF Sound, TypeOK
<1>7. Distinct'  BY <1>2, <1>5, <1>6 DEF Sound, Distinct
<1>8. AckedEnded'
  <2>1. \A u \in Threads : wants'[u] \notin acked'
    <3>1. 0 \notin acked  BY DEF Sound, TypeOK
    <3>2. \A u \in Threads : u # t /\ wants[u] # 0 => wants[u] # wants[t]
      BY DEF Sound, Distinct
    <3> QED  BY <1>1, <1>2, <3>1, <3>2 DEF Sound, AckedEnded
  <2>2. \A r \in acked' : \E i \in Positions' : file'[i].rec = r /\ file'[i].cut = "line"
    BY <1>1, <1>5 DEF Sound, AckedEnded
  <2> QED  BY <2>1, <2>2 DEF AckedEnded
<1>9. Writing'  BY DEF Writing
<1> QED  BY <1>4, <1>7, <1>8, <1>9 DEF Sound

LEMMA CloseSound ==
  ASSUME Sound, NEW t \in Threads, Close(t)
  PROVE  Sound' /\ lock = t /\ lock' = Nobody /\ file[Len(file)].cut = "line"
<1>1. /\ lock = t /\ lock' = Nobody /\ wants' = [wants EXCEPT ![t] = 0]
      /\ acked' = acked \cup {wants[t]} /\ file[Mine(t)].cut = "line"
      /\ UNCHANGED <<file, next, faults, following>>
  BY DEF Close, tailVars
<1>2. file[Len(file)].cut = "line"  BY <1>1, MineIsLast
<1>3. faults' \in 0..MaxFaults  BY <1>1 DEF Sound, TypeOK
<1> QED  BY <1>1, <1>2, <1>3, LeaveSound

LEMMA FailSound ==
  ASSUME Sound, NEW t \in Threads, Fail(t)
  PROVE  Sound' /\ lock = t /\ lock' = Nobody
<1>1. /\ lock = t /\ lock' = Nobody /\ wants' = [wants EXCEPT ![t] = 0]
      /\ faults < MaxFaults /\ faults' = faults + 1
      /\ UNCHANGED <<file, acked, next, following>>
  BY DEF Fail, tailVars
<1>2. faults' \in 0..MaxFaults  BY <1>1, LedgerAssumption DEF Sound, TypeOK
<1> QED  BY <1>1, <1>2, LeaveSound

LEMMA CrashSound == ASSUME Sound, Crash PROVE Sound'
<1>1. /\ lock' = Nobody /\ wants' = [t \in Threads |-> 0]
      /\ faults < MaxFaults /\ faults' = faults + 1
      /\ UNCHANGED <<file, acked, next, following>>
  BY DEF Crash, tailVars
<1>2. TypeOK'  BY <1>1, LedgerAssumption DEF Sound, TypeOK
<1>3. Positions' = Positions  BY <1>1 DEF Positions
<1>4. next \in Nat /\ 0 < next /\ 0 \notin acked  BY LedgerAssumption DEF Sound, TypeOK
<1>5. Distinct'  BY <1>1, <1>3, <1>4 DEF Sound, Distinct
<1>6. AckedEnded'  BY <1>1, <1>3, <1>4 DEF Sound, AckedEnded
<1>7. Writing'  BY <1>1 DEF Writing
<1> QED  BY <1>2, <1>5, <1>6, <1>7 DEF Sound

(* Readers change nothing of it. *)
LEMMA ReaderSound ==
  ASSUME Sound, following' \in BOOLEAN, UNCHANGED <<file, lock, wants, acked, next, faults>>
  PROVE  Sound'
BY DEF Sound, TypeOK, Distinct, AckedEnded, Writing, Positions

(* The invariant is kept. *)
LEMMA SoundStep == Sound /\ [Next]_vars => Sound'
<1> SUFFICES ASSUME Sound, [Next]_vars PROVE Sound'  OBVIOUS
<1>1. ASSUME NEW t \in Threads, Begin(t) \/ Write(t) \/ WriteMore(t) \/ Close(t) \/ Fail(t)
      PROVE  Sound'
  BY <1>1, BeginSound, WriteSound, WriteMoreSound, CloseSound, FailSound
<1>2. CASE Crash  BY <1>2, CrashSound
<1>3. CASE Follow \/ FollowRaises \/ Restarted \/ UNCHANGED vars
  <2>1. following' \in BOOLEAN
    BY <1>3 DEF Follow, FollowRaises, Restarted, vars, tailVars, Sound, TypeOK
  <2>2. UNCHANGED <<file, lock, wants, acked, next, faults>>
    BY <1>3 DEF Follow, FollowRaises, Restarted, vars, tailVars
  <2> QED  BY <2>1, <2>2, ReaderSound
<1> QED  BY <1>1, <1>2, <1>3 DEF Next

LEMMA BrokenFinite ==
  ASSUME Sound
  PROVE  IsFiniteSet(Broken) /\ Cardinality(Broken) \in Nat /\ Len(file) \in Nat
         /\ Broken \subseteq Positions
<1>1. Len(file) \in Nat  BY DEF Sound, TypeOK
<1>2. IsFiniteSet(Positions)  BY <1>1, FS_Interval DEF Positions
<1>3. Broken \subseteq Positions  BY DEF Broken
<1> QED  BY <1>1, <1>2, <1>3, FS_Subset, FS_CardinalityType

(* Who gives up an append tears its piece for good, and no other. *)
LEMMA OneMoreBroken ==
  ASSUME Sound, OneEach, lock' = Nobody, faults' = faults + 1, UNCHANGED file
  PROVE  OneEach'
<1>1. Broken' \subseteq Broken \cup {Len(file)}  BY DEF Broken, Positions, Torn
<1>2. IsFiniteSet(Broken) /\ Cardinality(Broken) \in Nat  BY BrokenFinite
<1>3. /\ IsFiniteSet(Broken \cup {Len(file)})
      /\ Cardinality(Broken \cup {Len(file)}) <= Cardinality(Broken) + 1
  <2>1. CASE Len(file) \in Broken
    <3>1. Broken \cup {Len(file)} = Broken  BY <2>1
    <3>2. Cardinality(Broken \cup {Len(file)}) = Cardinality(Broken)  BY <3>1, Zenon
    <3>3. IsFiniteSet(Broken \cup {Len(file)})  BY <1>2, <3>1, Zenon
    <3> DEFINE c == Cardinality(Broken)  d == Cardinality(Broken \cup {Len(file)})
    <3>4. c \in Nat /\ d = c  BY <1>2, <3>2
    <3> HIDE DEF c, d
    <3>5. d <= c + 1  BY <3>4
    <3> QED  BY <3>3, <3>5 DEF c, d
  <2>2. CASE Len(file) \notin Broken
    <3>1. /\ IsFiniteSet(Broken \cup {Len(file)})
          /\ Cardinality(Broken \cup {Len(file)}) = Cardinality(Broken) + 1
      BY <1>2, <2>2, FS_AddElement
    <3> DEFINE c == Cardinality(Broken)  d == Cardinality(Broken \cup {Len(file)})
    <3>2. c \in Nat /\ d = c + 1  BY <1>2, <3>1
    <3> HIDE DEF c, d
    <3>3. d <= c + 1  BY <3>2
    <3> QED  BY <3>1, <3>3 DEF c, d
  <2> QED  BY <2>1, <2>2, Zenon
<1>4. /\ Cardinality(Broken') <= Cardinality(Broken \cup {Len(file)})
      /\ Cardinality(Broken') \in Nat /\ Cardinality(Broken \cup {Len(file)}) \in Nat
  BY <1>1, <1>3, FS_Subset, FS_CardinalityType
<1>5. faults \in Nat  BY LedgerAssumption DEF Sound, TypeOK
<1> QED  BY <1>2, <1>3, <1>4, <1>5 DEF OneEach

LEMMA OneEachInit == Init => OneEach
<1> SUFFICES ASSUME Init PROVE OneEach  OBVIOUS
<1>1. Broken = {}  BY DEF Init, Broken, Positions
<1> QED  BY <1>1, FS_EmptySet DEF Init, OneEach

LEMMA OneEachStep == Sound /\ OneEach /\ [Next]_vars => OneEach'
<1> SUFFICES ASSUME Sound, OneEach, [Next]_vars PROVE OneEach'  OBVIOUS
<1>1. ASSUME Broken' = Broken, faults' = faults PROVE OneEach'
  BY <1>1 DEF OneEach
<1>2. ASSUME NEW t \in Threads, Write(t) PROVE OneEach'
  <2>1. /\ lock = Nobody /\ lock' = t /\ Len(file') = Len(file) + 1
        /\ \A i \in Positions : file'[i] = file[i]
    BY <1>2, WriteSound
  <2>2. Len(file) \in Nat /\ t # Nobody  BY BrokenFinite, LedgerAssumption
  <2>3. Broken' = Broken  BY <2>1, <2>2 DEF Broken, Positions, Torn
  <2> QED  BY <1>1, <1>2, <2>3 DEF Write
<1>3. ASSUME NEW t \in Threads, WriteMore(t) PROVE OneEach'
  <2>1. /\ lock = t /\ lock' = t /\ Len(file') = Len(file)
        /\ \A i \in Positions : i # Len(file) => file'[i] = file[i]
    BY <1>3, WriteMoreSound
  <2>2. Broken' = Broken  BY <2>1, LedgerAssumption DEF Broken, Positions, Torn
  <2> QED  BY <1>1, <1>3, <2>2 DEF WriteMore
<1>4. ASSUME NEW t \in Threads, Close(t) PROVE OneEach'
  <2>1. lock = t /\ lock' = Nobody /\ file[Len(file)].cut = "line"  BY <1>4, CloseSound
  <2>2. UNCHANGED <<file, faults>>  BY <1>4 DEF Close
  <2>3. Broken' = Broken  BY <2>1, <2>2, LedgerAssumption DEF Broken, Positions, Torn
  <2> QED  BY <1>1, <2>2, <2>3
<1>5. ASSUME NEW t \in Threads, Fail(t) PROVE OneEach'
  BY <1>5, OneMoreBroken DEF Fail
<1>6. CASE Crash  BY <1>6, OneMoreBroken DEF Crash
<1>7. ASSUME UNCHANGED <<file, lock, faults>> PROVE OneEach'
  BY <1>1, <1>7 DEF Broken, Positions, Torn
<1>8. ASSUME NEW t \in Threads, Begin(t) PROVE OneEach'  BY <1>7, <1>8 DEF Begin
<1>9. CASE Follow \/ FollowRaises \/ Restarted \/ UNCHANGED vars
  BY <1>7, <1>9 DEF Follow, FollowRaises, Restarted, vars
<1> QED  BY <1>2, <1>3, <1>4, <1>5, <1>6, <1>8, <1>9 DEF Next
-----------------------------------------------------------------------------
(* What an acknowledged record that cannot be read has in front of it. *)
LEMMA LostBehindTorn ==
  ASSUME Sound, NEW r \in acked, ~InLog(file, r)
  PROVE  \E i \in Positions : file[i].rec = r /\ i > 1 /\ Torn(i - 1)
<1>1. PICK i \in Positions : file[i].rec = r /\ file[i].cut = "line"
  BY DEF Sound, AckedEnded
<1>2. ~Parses(file, i)  BY <1>1 DEF InLog, Positions
<1>3. i # 1 /\ Torn(i - 1)  BY <1>1, <1>2 DEF Parses, Torn
<1> QED  BY <1>1, <1>3 DEF Positions

(* Each has a torn piece of its own in front of it. *)
LEMMA LostAtMostBroken ==
  ASSUME Sound
  PROVE  Cardinality({r \in acked : ~InLog(file, r)}) <= Cardinality(Broken)
<1> DEFINE Lost == {r \in acked : ~InLog(file, r)}
           Where(r) == CHOOSE i \in Positions : file[i].rec = r /\ i > 1 /\ Torn(i - 1)
           g == [r \in Lost |-> Where(r) - 1]
<1>1. ASSUME NEW r \in Lost
      PROVE  /\ Where(r) \in Positions /\ file[Where(r)].rec = r
             /\ Where(r) > 1 /\ Torn(Where(r) - 1)
  BY <1>1, LostBehindTorn
<1> HIDE DEF Where
<1>2. Len(file) \in Nat  BY BrokenFinite
<1>3. \A r \in Lost : Where(r) - 1 \in Broken  BY <1>1, <1>2 DEF Broken, Positions
<1>4. \A r, s \in Lost : Where(r) - 1 = Where(s) - 1 => r = s
  BY <1>1, <1>2 DEF Positions
<1> HIDE DEF Lost
<1>5. g \in Injection(Lost, Broken)  BY <1>3, <1>4 DEF Injection, IsInjective
<1>6. Cardinality(Lost) <= Cardinality(Broken)  BY <1>5, BrokenFinite, FS_Injection
<1> QED  BY <1>6 DEF Lost

LEMMA SoundIsConfined == Sound /\ OneEach => DamageConfined
<1> SUFFICES ASSUME Sound, OneEach PROVE DamageConfined  OBVIOUS
<1>1. ASSUME NEW i \in DOMAIN file, file[i].rec \in acked
      PROVE  InLog(file, file[i].rec) \/ (i > 1 /\ Torn(i - 1))
  <2>1. DOMAIN file = Positions  BY DEF Sound, TypeOK, Positions
  <2>2. SUFFICES ASSUME ~InLog(file, file[i].rec) PROVE i > 1 /\ Torn(i - 1)  OBVIOUS
  <2>3. PICK j \in Positions : file[j].rec = file[i].rec /\ j > 1 /\ Torn(j - 1)
    BY <1>1, <2>2, LostBehindTorn
  <2>4. i = j  BY <2>1, <2>3 DEF Sound, Distinct
  <2> QED  BY <2>3, <2>4
<1>2. Cardinality({r \in acked : ~InLog(file, r)}) <= faults
  <2>0. IsFiniteSet(1..MaxRecords)  BY LedgerAssumption, FS_Interval
  <2>1. IsFiniteSet(acked) /\ Cardinality(Broken) \in Nat
    BY <2>0, BrokenFinite, FS_Subset DEF Sound, TypeOK
  <2>2. Cardinality({r \in acked : ~InLog(file, r)}) \in Nat
    BY <2>1, FS_Subset, FS_CardinalityType
  <2>3. faults \in Nat  BY LedgerAssumption DEF Sound, TypeOK
  <2> QED  BY <2>1, <2>2, <2>3, LostAtMostBroken DEF OneEach
<1> QED  BY <1>1, <1>2 DEF DamageConfined

(* The variables keep their types, for any number of threads, records and  *)
(* faults (EventLedger.append, the file of one session).           *)
THEOREM LedgerTypes == Spec => []TypeOK
<1>1. Sound => TypeOK  BY DEF Sound
<1> QED  BY SoundInit, SoundStep, <1>1, PTL DEF Spec

(* Whatever is killed or fails in the middle of a line, an append that     *)
(* returned is lost only behind a torn piece, and never more of them than  *)
(* there were faults (EventLedger.append and its readers).                 *)
THEOREM Confined == Spec => []DamageConfined
<1>1. Init => Sound /\ OneEach  BY SoundInit, OneEachInit
<1>2. Sound /\ OneEach /\ [Next]_vars => (Sound /\ OneEach)'  BY SoundStep, OneEachStep
<1> QED  BY <1>1, <1>2, SoundIsConfined, PTL DEF Spec
-----------------------------------------------------------------------------
(* What readers get: the lines that parse, numbered from the beginning.    *)

Files == Seq(Pieces)

LEMMA GoodFinite ==
  ASSUME NEW f \in Files
  PROVE  /\ Good(f) \subseteq 1..Len(f) /\ IsFiniteSet(Good(f)) /\ Len(f) \in Nat
         /\ Cardinality(Good(f)) \in Nat
<1>1. Len(f) \in Nat  BY DEF Files
<1>2. Good(f) \subseteq 1..Len(f)  BY DEF Good
<1>3. IsFiniteSet(1..Len(f))  BY <1>1, FS_Interval
<1> QED  BY <1>1, <1>2, <1>3, FS_Subset, FS_CardinalityType

(* Up to a later line there are more lines. *)
LEMMA RankGrows ==
  ASSUME NEW f \in Files, NEW i \in Good(f), NEW j \in Good(f), i < j
  PROVE  Rank(f, i) < Rank(f, j)
<1> DEFINE upto == {k \in Good(f) : k <= i}  more == {k \in Good(f) : k <= j}
<1>1. Good(f) \subseteq Nat /\ IsFiniteSet(Good(f))  BY GoodFinite
<1>2. upto \subseteq more /\ j \in more /\ j \notin upto  BY <1>1
<1>3. IsFiniteSet(upto) /\ IsFiniteSet(more)  BY <1>1, FS_Subset
<1> HIDE DEF upto, more
<1>4. Cardinality(upto) <= Cardinality(more) /\ Cardinality(upto) # Cardinality(more)
  BY <1>2, <1>3, FS_Subset
<1>5. Cardinality(upto) \in Nat /\ Cardinality(more) \in Nat  BY <1>3, FS_CardinalityType
<1> QED  BY <1>4, <1>5 DEF Rank, upto, more

(* The ranks number the lines, each number once. *)
LEMMA Numbered ==
  ASSUME NEW f \in Files
  PROVE  /\ \A i \in Good(f) : Rank(f, i) \in 1..Cardinality(Good(f))
         /\ \A i, j \in Good(f) : Rank(f, i) = Rank(f, j) => i = j
         /\ \A k \in 1..Cardinality(Good(f)) : \E i \in Good(f) : Rank(f, i) = k
<1> DEFINE n == Cardinality(Good(f))  g == [i \in Good(f) |-> Rank(f, i)]
<1>1. Good(f) \subseteq Nat /\ IsFiniteSet(Good(f)) /\ n \in Nat  BY GoodFinite
<1>2. ASSUME NEW i \in Good(f) PROVE Rank(f, i) \in 1..n
  <2> DEFINE upto == {k \in Good(f) : k <= i}
  <2>1. upto \subseteq Good(f) /\ i \in upto  BY <1>1
  <2> HIDE DEF upto
  <2>2. IsFiniteSet(upto) /\ Cardinality(upto) <= n /\ Cardinality(upto) \in Nat
    BY <1>1, <2>1, FS_Subset, FS_CardinalityType
  <2>3. Cardinality(upto) # 0  BY <2>1, <2>2, FS_EmptySet
  <2>4. Rank(f, i) = Cardinality(upto)  BY DEF Rank, upto
  <2> QED  BY <1>1, <2>2, <2>3, <2>4
<1>3. ASSUME NEW i \in Good(f), NEW j \in Good(f), Rank(f, i) = Rank(f, j) PROVE i = j
  <2>1. i \in Nat /\ j \in Nat /\ Rank(f, i) \in 1..n  BY <1>1, <1>2
  <2>2. ~ (i < j) /\ ~ (j < i)  BY <1>3, <2>1, RankGrows
  <2> QED  BY <2>1, <2>2
<1>4. g \in Injection(Good(f), 1..n)  BY <1>2, <1>3 DEF Injection, IsInjective
<1>5. IsFiniteSet(1..n) /\ Cardinality(1..n) = n  BY <1>1, FS_Interval
<1>6. g \in Surjection(Good(f), 1..n)
  <2> HIDE DEF g
  <2> QED  BY <1>4, <1>5, FS_Injection
<1>7. ASSUME NEW k \in 1..n PROVE \E i \in Good(f) : Rank(f, i) = k
  <2>1. \E i \in Good(f) : g[i] = k  BY <1>6 DEF Surjection
  <2> QED  BY <2>1
<1> QED  BY <1>2, <1>3, <1>7

(* The k-th record read is that of the line with number k. *)
LEMMA RecordsRead ==
  ASSUME NEW f \in Files
  PROVE  /\ IterRecords(f) \in Seq(1..MaxRecords)
         /\ Len(IterRecords(f)) = Cardinality(Good(f))
         /\ \A i \in Good(f) : IterRecords(f)[Rank(f, i)] = f[i].rec
<1> DEFINE n == Cardinality(Good(f))
           Nth(k) == CHOOSE i \in Good(f) : Rank(f, i) = k
           got == [k \in 1..n |-> f[Nth(k)].rec]
<1>1. n \in Nat /\ Good(f) \subseteq 1..Len(f)  BY GoodFinite
<1>2. ASSUME NEW k \in 1..n PROVE Nth(k) \in Good(f) /\ Rank(f, Nth(k)) = k
  BY Numbered
<1> HIDE DEF Nth
<1>3. ASSUME NEW k \in 1..n PROVE f[Nth(k)].rec \in 1..MaxRecords
  <2>1. Nth(k) \in 1..Len(f)  BY <1>1, <1>2
  <2>2. f[Nth(k)] \in Pieces  BY <2>1, ElementOfSeq DEF Files
  <2> QED  BY <2>2, PieceParts
<1>4. got \in Seq(1..MaxRecords) /\ Len(got) = n
  <2>1. got \in [1..n -> 1..MaxRecords]  BY <1>3
  <2> HIDE DEF got, n
  <2>2. got \in Seq(1..MaxRecords)  BY <1>1, <2>1, SeqDef
  <2> QED  BY <1>1, <2>1, <2>2
<1>5. ASSUME NEW i \in Good(f) PROVE got[Rank(f, i)] = f[i].rec
  <2>1. Rank(f, i) \in 1..n  BY Numbered
  <2>2. Nth(Rank(f, i)) = i  BY <1>2, <2>1, Numbered
  <2>3. got[Rank(f, i)] = f[Nth(Rank(f, i))].rec  BY <2>1
  <2> QED  BY <2>2, <2>3
<1>6. IterRecords(f) = got  BY DEF IterRecords, Nth
<1> HIDE DEF got, n
<1> QED  BY <1>4, <1>5, <1>6 DEF n

(* The same lines, the same records. *)
LEMMA SameLines ==
  ASSUME NEW f \in Files, NEW g \in Files, Good(g) = Good(f),
         \A i \in Good(f) : g[i].rec = f[i].rec
  PROVE  /\ IterRecords(g) = IterRecords(f)
         /\ \A i \in Good(f) : Rank(g, i) = Rank(f, i)
<1>1. \A i : Rank(g, i) = Rank(f, i)  BY DEF Rank
<1> DEFINE n == Cardinality(Good(f))
<1>2. ASSUME NEW k \in 1..n PROVE IterRecords(g)[k] = IterRecords(f)[k]
  <2>1. PICK i \in Good(f) : Rank(f, i) = k  BY Numbered
  <2>2. IterRecords(f)[k] = f[i].rec  BY <2>1, RecordsRead
  <2>3. Rank(g, i) = k /\ i \in Good(g)  BY <1>1, <2>1
  <2>4. IterRecords(g)[k] = g[i].rec  BY <2>3, RecordsRead
  <2> QED  BY <2>1, <2>2, <2>4
<1>3. /\ IterRecords(f) \in Seq(1..MaxRecords) /\ Len(IterRecords(f)) = n
      /\ IterRecords(g) \in Seq(1..MaxRecords) /\ Len(IterRecords(g)) = n
  BY RecordsRead
<1> HIDE DEF n
<1>4. IterRecords(g) = IterRecords(f)  BY <1>2, <1>3, SeqEqual
<1> QED  BY <1>1, <1>4

(* A line more after the others is read after the others. *)
LEMMA LineAdded ==
  ASSUME NEW f \in Files, NEW g \in Files, NEW m \in Nat,
         Good(g) = Good(f) \cup {m}, \A i \in Good(f) : i < m,
         \A i \in Good(f) : g[i].rec = f[i].rec
  PROVE  /\ IterRecords(g) = Append(IterRecords(f), g[m].rec)
         /\ \A i \in Good(f) : Rank(g, i) = Rank(f, i)
         /\ Rank(g, m) = Cardinality(Good(f)) + 1
         /\ Cardinality(Good(g)) = Cardinality(Good(f)) + 1
<1> DEFINE n == Cardinality(Good(f))
<1>1. Good(f) \subseteq Nat /\ IsFiniteSet(Good(f)) /\ n \in Nat  BY GoodFinite
<1>2. m \notin Good(f) /\ m \in Good(g)  BY <1>1
<1>3. Cardinality(Good(g)) = n + 1  BY <1>1, <1>2, FS_AddElement
<1>4. ASSUME NEW i \in Good(f) PROVE Rank(g, i) = Rank(f, i)
  <2>1. i < m /\ i \in Nat  BY <1>1
  <2>2. {j \in Good(g) : j <= i} = {j \in Good(f) : j <= i}  BY <1>1, <2>1
  <2> QED  BY <2>2 DEF Rank
<1>5. Rank(g, m) = n + 1
  <2>1. {j \in Good(g) : j <= m} = Good(g)  BY <1>1
  <2> QED  BY <1>3, <2>1 DEF Rank
<1> DEFINE old == IterRecords(f)  new == IterRecords(g)
<1>6. /\ old \in Seq(1..MaxRecords) /\ Len(old) = n
      /\ new \in Seq(1..MaxRecords) /\ Len(new) = n + 1
  BY <1>3, RecordsRead
<1>7. new[n + 1] = g[m].rec  BY <1>2, <1>5, RecordsRead
<1>8. ASSUME NEW k \in 1..n PROVE new[k] = old[k]
  <2>1. PICK i \in Good(f) : Rank(f, i) = k  BY Numbered
  <2>2. old[k] = f[i].rec  BY <2>1, RecordsRead
  <2>3. Rank(g, i) = k /\ i \in Good(g)  BY <1>4, <2>1
  <2>4. new[k] = g[i].rec  BY <2>3, RecordsRead
  <2> QED  BY <2>1, <2>2, <2>4
<1>9. new = Append(old, g[m].rec)
  <2> HIDE DEF old, new, n
  <2>1. n + 1 \in 1..(n + 1)  BY <1>1
  <2>2. g[m].rec \in 1..MaxRecords  BY <1>6, <1>7, <2>1, ElementOfSeq
  <2> DEFINE longer == Append(old, g[m].rec)
  <2>3. /\ longer \in Seq(1..MaxRecords) /\ Len(longer) = n + 1 /\ longer[n + 1] = g[m].rec
        /\ \A k \in 1..n : longer[k] = old[k]
    BY <1>6, <2>2, AppendProperties
  <2> HIDE DEF longer
  <2>4. \A k \in 1..(n + 1) : new[k] = longer[k]  BY <1>1, <1>7, <1>8, <2>3
  <2>5. new = longer  BY <1>6, <2>3, <2>4, SeqEqual
  <2> QED  BY <2>5 DEF longer
<1> QED  BY <1>3, <1>4, <1>5, <1>9

(* An appended record leaves what was before it as a prefix, and as the front. *)
LEMMA AppendPrefix ==
  ASSUME NEW S, NEW q \in Seq(S), NEW x \in S
  PROVE  IsPrefix(q, Append(q, x)) /\ Front(Append(q, x)) = q
<1> DEFINE l == Append(q, x)
<1>1. l \in Seq(S) /\ Len(l) = Len(q) + 1 /\ \A i \in 1..Len(q) : l[i] = q[i] /\ Len(q) \in Nat
  BY AppendProperties
<1> HIDE DEF l
<1>2. Len(q) \in Nat  OBVIOUS
<1>3. SubSeq(l, 1, Len(q)) = q
  <2>1. \A i \in 1..Len(q) : l[i] \in S  BY <1>1
  <2>2. /\ SubSeq(l, 1, Len(q)) \in Seq(S) /\ Len(SubSeq(l, 1, Len(q))) = Len(q)
        /\ \A i \in 1..Len(q) : SubSeq(l, 1, Len(q))[i] = l[i]
    <3>1. /\ SubSeq(l, 1, Len(q)) \in Seq(S)
          /\ Len(SubSeq(l, 1, Len(q))) = IF 1 <= Len(q) THEN Len(q) - 1 + 1 ELSE 0
          /\ \A i \in 1..(Len(q) - 1 + 1) : SubSeq(l, 1, Len(q))[i] = l[1 + i - 1]
      BY <1>2, <2>1, SubSeqProperties
    <3> QED  BY <1>2, <3>1
  <2> QED  BY <1>1, <2>2, SeqEqual
<1>4. SubSeq(q, 1, Len(q)) = q  BY SubSeqFull
<1>5. Len(l) - 1 = Len(q)  BY <1>1, <1>2
<1> QED  BY <1>1, <1>2, <1>3, <1>4, <1>5 DEF IsPrefix, Front, l

LEMMA SelfPrefix ==
  ASSUME NEW S, NEW q \in Seq(S)
  PROVE  IsPrefix(q, q)
BY DEF IsPrefix
-----------------------------------------------------------------------------
(* What a write does to the lines that parse.                              *)

LEMMA CutKinds ==
  ASSUME NEW r, NEW c \in CutsOf(r)
  PROVE  c \in {"head", "char", "body", "line"}
<1>1. PICK i \in 1..4 : c = Cuts[i]  BY DEF CutsOf
<1>2. i = 1 \/ i = 2 \/ i = 3 \/ i = 4  OBVIOUS
<1> QED  BY <1>1, <1>2 DEF Cuts

(* A write goes on from where it stopped. *)
LEMMA LaterCuts ==
  ASSUME NEW c, NEW d, Later(c, d)
  PROVE  c # "line" /\ (c = "body" => d = "line")
<1>1. PICK i \in 1..4, j \in 1..4 : i < j /\ Cuts[i] = c /\ Cuts[j] = d  BY DEF Later
<1>2. (i = 1 /\ c = "head") \/ (i = 2 /\ c = "char") \/ (i = 3 /\ c = "body") \/ (i = 4 /\ c = "line")
  <2>1. i = 1 \/ i = 2 \/ i = 3 \/ i = 4  OBVIOUS
  <2> QED  BY <1>1, <2>1 DEF Cuts
<1>3. i # 4  BY <1>1
<1>4. i = 3 => j = 4  BY <1>1
<1>5. j = 4 => d = "line"  BY <1>1 DEF Cuts
<1> QED  BY <1>2, <1>3, <1>4, <1>5

SameRecords == \A i \in Positions : file'[i].rec = file[i].rec
Keeps == Good(file') = Good(file)
Gains ==
  LET m == Len(file') IN
  /\ Good(file') = Good(file) \cup {m} /\ \A i \in Good(file) : i < m
  /\ \A i \in Positions : file[i].rec = file'[m].rec => file[i].cut \notin {"body", "line"}
Loses ==
  LET n == Len(file) IN
  /\ Good(file) = Good(file') \cup {n} /\ \A i \in Good(file') : i < n
  /\ n \in Positions /\ file[n].cut = "body" /\ Len(file') = n + 1

(* The first bytes of a record: a line more, or the last one continued and lost. *)
LEMMA WriteLines ==
  ASSUME Sound, NEW t \in Threads, Write(t)
  PROVE  SameRecords /\ (Keeps \/ Gains \/ Loses)
<1>1. /\ wants[t] # 0 /\ lock = Nobody /\ lock # t
      /\ Len(file') = Len(file) + 1 /\ \A i \in Positions : file'[i] = file[i]
  BY WriteSound DEF Write, LockIsFree
<1>2. PICK c \in CutsOf(wants[t]) : file' = Append(file, [rec |-> wants[t], cut |-> c])
  BY DEF Write, Put, Opened
<1> DEFINE n == Len(file)
<1>3. n \in Nat /\ file \in Files /\ file' \in Files
  BY WriteSound DEF Sound, TypeOK, Files
<1>4. file'[n + 1] = [rec |-> wants[t], cut |-> c]  BY <1>2, <1>3 DEF Files
<1>5. ASSUME NEW i \in Positions
      PROVE  /\ Parses(file', i) <=> file[i].cut = "line" /\ (i = 1 \/ file[i - 1].cut = "line")
             /\ Parses(file', i) => Parses(file, i)
             /\ Parses(file, i) => Parses(file', i) \/ (i = n /\ file[n].cut = "body")
  <2>1. i \in 1..n /\ file'[i] = file[i] /\ i # n + 1  BY <1>1, <1>3 DEF Positions
  <2>2. i # 1 => file'[i - 1] = file[i - 1]
    <3>1. i # 1 => i - 1 \in Positions  BY <1>3, <2>1 DEF Positions
    <3> QED  BY <1>1, <3>1
  <2>3. Len(file') = n + 1 /\ Len(file) = n  BY <1>1
  <2> HIDE DEF n
  <2> QED  BY <2>1, <2>2, <2>3 DEF Parses
<1>6. Parses(file', n + 1) => n = 0 \/ file[n].cut = "line"
  <2>1. n # 0 => file'[n] = file[n] /\ n + 1 # 1  BY <1>1, <1>3 DEF Positions
  <2>2. n + 1 - 1 = n  BY <1>3
  <2> QED  BY <2>1, <2>2 DEF Parses
<1>7. 1..Len(file') = Positions \cup {n + 1}  BY <1>1, <1>3 DEF Positions
<1>8. SameRecords  BY <1>1 DEF SameRecords
<1> HIDE DEF n
<1>9. \A i \in Good(file) : i \in Positions /\ i <= n /\ i < n + 1
  BY <1>3 DEF Good, Positions, n
<1>10. CASE n # 0 /\ file[n].cut = "body"
  <2>1. ~ Parses(file', n + 1)  BY <1>6, <1>10
  <2>2. n \in Positions /\ ~ Parses(file', n)
    <3>1. n \in Positions  BY <1>3, <1>10 DEF Positions, n
    <3> QED  BY <1>5, <1>10, <3>1
  <2>3. CASE Parses(file, n)
    <3>1. Good(file) = Good(file') \cup {n}
      BY <1>5, <1>7, <2>1, <2>2, <2>3 DEF Good, Positions
    <3>2. \A i \in Good(file') : i \in Positions /\ i # n
      BY <1>7, <2>1, <2>2 DEF Good
    <3>3. \A i \in Good(file') : i < n  BY <1>3, <3>2 DEF Positions, n
    <3> QED  BY <1>1, <1>8, <1>10, <2>2, <3>1, <3>3 DEF Loses, n
  <2>4. CASE ~ Parses(file, n)
    <3>1. Good(file') = Good(file)
      BY <1>5, <1>7, <2>1, <2>2, <2>4 DEF Good, Positions
    <3> QED  BY <1>8, <3>1 DEF Keeps
  <2> QED  BY <2>3, <2>4
<1>11. CASE ~ (n # 0 /\ file[n].cut = "body")
  <2>1. \A i \in Positions : Parses(file', i) <=> Parses(file, i)
    <3> TAKE i \in Positions
    <3>1. i = n => n # 0  BY DEF Positions
    <3> QED  BY <1>5, <1>11, <3>1
  <2>2. CASE Parses(file', n + 1)
    <3>1. Good(file') = Good(file) \cup {n + 1}
      BY <1>7, <2>1, <2>2 DEF Good, Positions
    <3>2. ASSUME NEW i \in Positions PROVE file[i].rec # file'[n + 1].rec
      BY <1>1, <1>4, <3>2 DEF Sound, Distinct
    <3> QED  BY <1>1, <1>8, <1>9, <3>1, <3>2 DEF Gains, n
  <2>3. CASE ~ Parses(file', n + 1)
    <3>1. Good(file') = Good(file)  BY <1>7, <2>1, <2>3 DEF Good, Positions
    <3> QED  BY <1>8, <3>1 DEF Keeps
  <2> QED  BY <2>2, <2>3
<1> QED  BY <1>10, <1>11

(* More bytes of a record: at most its own line more. *)
LEMMA WriteMoreLines ==
  ASSUME Sound, NEW t \in Threads, WriteMore(t)
  PROVE  SameRecords /\ (Keeps \/ Gains) /\ Len(file) \in Positions
         /\ \A i \in Positions : file[i].cut \in {"body", "line"} => file'[i].cut \in {"body", "line"}
<1>1. lock = t /\ Len(file') = Len(file) /\ \A i \in Positions : i # Len(file) => file'[i] = file[i]
  BY WriteMoreSound
<1> DEFINE n == Len(file)
<1>2. Mine(t) = n /\ n \in Positions /\ n \in Nat  BY <1>1, MineIsLast DEF Sound, TypeOK
<1>3. PICK c \in CutsOf(wants[t]) :
        Later(file[n].cut, c) /\ file' = [file EXCEPT ![Mine(t)].cut = c]
  BY <1>2 DEF WriteMore, Put
<1>4. /\ file'[n] = [rec |-> wants[t], cut |-> c]
      /\ \A i \in Positions : file'[i].rec = file[i].rec
  BY <1>1, <1>3, Continued
<1>5. file[n].cut # "line" /\ (file[n].cut = "body" => c = "line")  BY <1>3, LaterCuts
<1>6. file'[n].cut = c  BY <1>4
<1> HIDE DEF n
<1>6a. \A i \in Positions : file[i].cut \in {"body", "line"} => file'[i].cut \in {"body", "line"}
  <2> TAKE i \in Positions
  <2>1. CASE i = n  BY <1>5, <1>6, <2>1
  <2>2. CASE i # n  BY <1>1, <2>2 DEF n
  <2> QED  BY <2>1, <2>2
<1>7. ASSUME NEW i \in Positions, i # n PROVE Parses(file', i) <=> Parses(file, i)
  <2>1. i \in 1..n /\ file'[i] = file[i]  BY <1>1, <1>7 DEF Positions, n
  <2>2. i # 1 => i - 1 \in Positions /\ i - 1 # n  BY <1>2, <2>1 DEF Positions, n
  <2>3. i # 1 => file'[i - 1] = file[i - 1]  BY <1>1, <2>2 DEF n
  <2> QED  BY <1>1, <1>7, <2>1, <2>3 DEF Parses, n
<1>8. Parses(file, n) => Parses(file', n)
  <2>1. n # 1 => n - 1 \in Positions /\ n - 1 # n  BY <1>2 DEF Positions, n
  <2>2. n # 1 => file'[n - 1] = file[n - 1]  BY <1>1, <2>1 DEF n
  <2> QED  BY <1>5, <1>6, <2>2 DEF Parses, n
<1>9. Positions' = Positions  BY <1>1 DEF Positions
<1>10. CASE Parses(file', n) <=> Parses(file, n)
  <2>1. Good(file') = Good(file)  BY <1>7, <1>9, <1>10 DEF Good, Positions
  <2> QED  BY <1>1, <1>2, <1>4, <1>6a, <2>1 DEF Keeps, SameRecords, n
<1>11. CASE ~ (Parses(file', n) <=> Parses(file, n))
  <2>1. Good(file') = Good(file) \cup {n} /\ n \notin Good(file)
    BY <1>2, <1>7, <1>8, <1>9, <1>11 DEF Good, Positions
  <2>2. \A i \in Good(file) : i < n
    <3>1. \A i \in Good(file) : i \in 1..n /\ i # n  BY <2>1 DEF Good, n
    <3> QED  BY <1>2, <3>1
  <2>3. file[n].cut # "body"
    <3>1. ASSUME file[n].cut = "body" PROVE Parses(file, n)
      <4>1. n # 1 => n - 1 \in Positions /\ n - 1 # n  BY <1>2 DEF Positions, n
      <4>2. n # 1 => file'[n - 1] = file[n - 1]  BY <1>1, <4>1 DEF n
      <4>3. Parses(file', n)  BY <1>8, <1>11
      <4> QED  BY <3>1, <4>2, <4>3 DEF Parses, n
    <3> QED  BY <1>8, <1>11, <3>1
  <2>4. \A i \in Positions : file[i].rec = file'[n].rec => i = n
    BY <1>2, <1>4 DEF Sound, Distinct
  <2>5. Gains  BY <1>1, <1>5, <2>1, <2>2, <2>3, <2>4 DEF Gains, n
  <2> QED  BY <1>1, <1>2, <1>4, <1>6a, <2>5 DEF SameRecords, n
<1> QED  BY <1>10, <1>11

(* Only the steps of a writer change the file. *)
LEMMA WhoWrites ==
  ASSUME Next, file' # file
  PROVE  \E t \in Threads : Write(t) \/ WriteMore(t)
BY DEF Next, Begin, Close, Fail, Crash, Follow, FollowRaises, Restarted

(* What readers get grows at its end only; the one record a reader may have got and   *)
(* a later one does not is an unended last one whose append never returned: for any   *)
(* number of threads, records and faults (EventLedger.append, recent, iter_records).  *)
THEOREM UnendedVanish == Spec => OnlyUnendedVanish
<1> DEFINE Ok == Decodable(file) /\ Decodable(file') =>
                   \/ IsPrefix(IterRecords(file), IterRecords(file'))
                   \/ /\ Last(file).cut = "body" /\ Last(file).rec \notin acked
                      /\ IterRecords(file') = Front(IterRecords(file))
<1>1. Sound /\ [Next]_vars => [Ok]_file
  <2> SUFFICES ASSUME Sound, Next, file' # file PROVE Ok  BY DEF vars
  <2>1. PICK t \in Threads : Write(t) \/ WriteMore(t)  BY WhoWrites
  <2>2. SameRecords /\ (Keeps \/ Gains \/ Loses)  BY <2>1, WriteLines, WriteMoreLines
  <2>3. file \in Files /\ file' \in Files /\ Len(file) \in Nat /\ Len(file') \in Nat
    BY <2>1, WriteSound, WriteMoreSound DEF Sound, TypeOK, Files
  <2>4. /\ IterRecords(file) \in Seq(1..MaxRecords) /\ IterRecords(file') \in Seq(1..MaxRecords)
        /\ \A i \in Good(file) : file[i].rec \in 1..MaxRecords
        /\ \A i \in Good(file') : file'[i].rec \in 1..MaxRecords
    <3>1. \A f \in Files : \A i \in Good(f) : f[i].rec \in 1..MaxRecords
      BY ElementOfSeq, PieceParts DEF Files, Good
    <3> QED  BY <2>3, <3>1, RecordsRead
  <2>5. CASE Keeps
    <3>1. \A i \in Good(file) : file'[i].rec = file[i].rec
      BY <2>2 DEF SameRecords, Good, Positions
    <3>2. IterRecords(file') = IterRecords(file)  BY <2>3, <2>5, <3>1, SameLines DEF Keeps
    <3> QED  BY <2>4, <3>2, SelfPrefix
  <2>6. CASE Gains
    <3> DEFINE m == Len(file')
    <3>1. \A i \in Good(file) : file'[i].rec = file[i].rec
      BY <2>2 DEF SameRecords, Good, Positions
    <3>2. Good(file') = Good(file) \cup {m} /\ \A i \in Good(file) : i < m  BY <2>6 DEF Gains
    <3> HIDE DEF m
    <3>3. IterRecords(file') = Append(IterRecords(file), file'[m].rec)
      BY <2>3, <3>1, <3>2, LineAdded DEF m
    <3>4. file'[m].rec \in 1..MaxRecords  BY <2>4, <3>2
    <3> QED  BY <2>4, <3>3, <3>4, AppendPrefix
  <2>7. CASE Loses
    <3> DEFINE n == Len(file)
    <3>1. /\ Good(file) = Good(file') \cup {n} /\ \A i \in Good(file') : i < n
          /\ n \in Positions /\ file[n].cut = "body"
      BY <2>7 DEF Loses
    <3> HIDE DEF n
    <3>2. \A i \in Good(file') : file[i].rec = file'[i].rec
      BY <2>2, <3>1 DEF SameRecords, Good, Positions
    <3>3. IterRecords(file) = Append(IterRecords(file'), file[n].rec)
      BY <2>3, <3>1, <3>2, LineAdded DEF n
    <3>4. file[n].rec \in 1..MaxRecords  BY <2>4, <3>1
    <3>5. IterRecords(file') = Front(IterRecords(file))
      <4> DEFINE q == IterRecords(file')  x == file[n].rec
      <4>1. Front(Append(q, x)) = q
        <5>1. q \in Seq(1..MaxRecords) /\ x \in 1..MaxRecords  BY <2>4, <3>4
        <5> HIDE DEF q, x
        <5> QED  BY <5>1, AppendPrefix
      <4> QED  BY <3>3, <4>1
    <3>6. file[n].rec \notin acked
      <4>1. ASSUME file[n].rec \in acked PROVE FALSE
        <5>1. PICK i \in Positions : file[i].rec = file[n].rec /\ file[i].cut = "line"
          BY <4>1 DEF Sound, AckedEnded
        <5>2. i = n  BY <3>1, <5>1 DEF Sound, Distinct
        <5> QED  BY <3>1, <5>1, <5>2
      <4> QED  BY <4>1
    <3> QED  BY <3>1, <3>5, <3>6 DEF Last, n
  <2> QED  BY <2>2, <2>5, <2>6, <2>7
<1>2. [][Ok]_file => OnlyUnendedVanish  BY DEF OnlyUnendedVanish
<1> QED  BY SoundInit, SoundStep, <1>1, <1>2, PTL DEF Spec
-----------------------------------------------------------------------------
(* The tail: what it printed, its count, and what is gone since.           *)

(* A cut character is still being written: the file can be read again.     *)
Readable == \A i \in Positions : file[i].cut = "char" => i = Len(file) /\ lock # Nobody

(* A printed record was written up to its newline at least, stands among   *)
(* the first `seen' lines if it stands at all, and has vanished if not.    *)
TailTyped ==
  /\ printed \in Seq(1..MaxRecords) /\ seen = Len(printed) /\ IsInjective(printed)
  /\ vanished \subseteq 1..MaxRecords
Written(r) == \E i \in Positions : file[i].rec = r /\ file[i].cut \in {"body", "line"}
PrintedSound ==
  /\ \A k \in 1..Len(printed) : Written(printed[k])
  /\ \A i \in Good(file), k \in 1..Len(printed) : printed[k] = file[i].rec => Rank(file, i) <= seen
VanishedSound ==
  Readable => \A k \in 1..Len(printed) : InLog(file, printed[k]) \/ printed[k] \in vanished
TailSound == TailTyped /\ PrintedSound /\ VanishedSound

LEMMA TailInit == Init => TailSound
<1> SUFFICES ASSUME Init PROVE TailSound  OBVIOUS
<1>1. Len(printed) = 0 /\ seen = 0 /\ vanished = {} /\ printed \in Seq(1..MaxRecords)
  BY DEF Init
<1>2. IsInjective(printed)  BY <1>1 DEF IsInjective
<1> QED  BY <1>1, <1>2 DEF TailSound, TailTyped, PrintedSound, VanishedSound

LEMMA InLogGood ==
  ASSUME NEW f, NEW r
  PROVE  InLog(f, r) <=> \E i \in Good(f) : f[i].rec = r
BY DEF InLog, Good

(* A write keeps the printed records written and numbered, a new line is no printed one. *)
LEMMA WritePrinted ==
  ASSUME Sound, TailTyped, PrintedSound, NEW t \in Threads, Write(t) \/ WriteMore(t)
  PROVE  PrintedSound'
<1>1. SameRecords /\ (Keeps \/ Gains \/ Loses)  BY WriteLines, WriteMoreLines
<1>2. /\ file \in Files /\ file' \in Files /\ Len(file) \in Nat /\ Len(file') \in Nat
      /\ Positions \subseteq Positions'
  BY WriteSound, WriteMoreSound DEF Sound, TypeOK, Files, Positions
<1>3. UNCHANGED <<printed, seen>>  BY DEF Write, WriteMore, tailVars
<1>4. \A i \in Positions : file[i].cut \in {"body", "line"} => file'[i].cut \in {"body", "line"}
  BY WriteSound, WriteMoreLines
<1>5. \A r : Written(r) => Written(r)'  BY <1>1, <1>2, <1>4 DEF Written, SameRecords
<1>6. ASSUME NEW i \in Good(file'), NEW k \in 1..Len(printed), printed[k] = file'[i].rec
      PROVE  Rank(file', i) <= seen
  <2>1. ASSUME i \in Good(file), Rank(file', i) = Rank(file, i) PROVE Rank(file', i) <= seen
    <3>1. file'[i].rec = file[i].rec  BY <1>1, <2>1 DEF SameRecords, Good, Positions
    <3> QED  BY <1>6, <2>1, <3>1 DEF PrintedSound
  <2>2. \A j \in Good(file) : file'[j].rec = file[j].rec
    BY <1>1 DEF SameRecords, Good, Positions
  <2>3. CASE Keeps
    <3>1. Rank(file', i) = Rank(file, i)  BY <1>2, <2>2, <2>3, SameLines DEF Keeps
    <3> QED  BY <2>1, <2>3, <3>1 DEF Keeps
  <2>4. CASE Gains
    <3> DEFINE m == Len(file')
    <3>1. /\ Good(file') = Good(file) \cup {m} /\ \A j \in Good(file) : j < m
          /\ \A j \in Positions : file[j].rec = file'[m].rec => file[j].cut \notin {"body", "line"}
      BY <2>4 DEF Gains
    <3> HIDE DEF m
    <3>2. \A j \in Good(file) : Rank(file', j) = Rank(file, j)
      BY <1>2, <2>2, <3>1, LineAdded DEF m
    <3>3. i # m  BY <1>6, <3>1 DEF PrintedSound, Written
    <3> QED  BY <2>1, <3>1, <3>2, <3>3
  <2>5. CASE Loses
    <3> DEFINE n == Len(file)
    <3>1. Good(file) = Good(file') \cup {n} /\ \A j \in Good(file') : j < n  BY <2>5 DEF Loses
    <3> HIDE DEF n
    <3>2. \A j \in Good(file') : file[j].rec = file'[j].rec  BY <2>2, <3>1
    <3>3. Rank(file, i) = Rank(file', i)  BY <1>2, <3>1, <3>2, LineAdded DEF n
    <3> QED  BY <2>1, <3>1, <3>3
  <2> QED  BY <1>1, <2>3, <2>4, <2>5
<1> QED  BY <1>3, <1>5, <1>6 DEF PrintedSound

(* What a write takes from the readers has vanished. *)
LEMMA WriteVanished ==
  ASSUME Sound, TailTyped, VanishedSound, NEW t \in Threads, Write(t) \/ WriteMore(t)
  PROVE  VanishedSound'
<1>1. SameRecords /\ (Keeps \/ Gains \/ Loses)  BY WriteLines, WriteMoreLines
<1>2. UNCHANGED <<printed, seen>> /\ vanished' = vanished \cup Hidden(file')
  BY DEF Write, WriteMore, tailVars, Put
<1> SUFFICES ASSUME Readable', NEW k \in 1..Len(printed)
             PROVE  InLog(file', printed[k]) \/ printed[k] \in vanished'
  BY <1>2 DEF VanishedSound
<1>3. Len(file) \in Nat  BY DEF Sound, TypeOK
<1>4. Readable
  <2>1. CASE Write(t)
    <3>1. Len(file') = Len(file) + 1 /\ \A i \in Positions : file'[i] = file[i]
      BY <2>1, WriteSound
    <3>2. \A i \in Positions : i \in Positions' /\ i # Len(file')  BY <1>3, <3>1 DEF Positions
    <3> QED  BY <3>1, <3>2 DEF Readable
  <2>2. CASE WriteMore(t)
    <3>1. /\ lock = t /\ Len(file') = Len(file)
          /\ \A i \in Positions : i # Len(file) => file'[i] = file[i]
      BY <2>2, WriteMoreSound
    <3>2. lock # Nobody /\ Positions' = Positions  BY <3>1, LedgerAssumption DEF Positions
    <3> QED  BY <3>1, <3>2 DEF Readable
  <2> QED  BY <2>1, <2>2
<1>5. CASE printed[k] \in vanished  BY <1>2, <1>5
<1>6. CASE InLog(file, printed[k])
  <2>1. PICK i \in Good(file) : file[i].rec = printed[k]  BY <1>6, InLogGood
  <2>2. file'[i].rec = printed[k]  BY <1>1, <2>1 DEF SameRecords, Good, Positions
  <2>3. CASE i \in Good(file')  BY <2>2, <2>3, InLogGood
  <2>4. CASE i \notin Good(file')
    <3>1. Loses  BY <1>1, <2>4 DEF Keeps, Gains
    <3>2. Len(file') = Len(file) + 1 /\ file[Len(file)].cut = "body"  BY <3>1 DEF Loses
    <3>3. Write(t)
      <4>1. ~ WriteMore(t)
        <5>1. WriteMore(t) => Len(file') = Len(file)  BY WriteMoreSound
        <5> QED  BY <1>3, <3>2, <5>1
      <4> QED  BY <4>1
    <3>4. \A j \in Positions : file'[j] = file[j] /\ j \in Positions' /\ j # Len(file')
      <4>1. \A j \in Positions : file'[j] = file[j]  BY <3>3, WriteSound
      <4> QED  BY <1>3, <3>2, <4>1 DEF Positions
    <3>5. Decodable(file)
      <4>1. \A j \in Positions : file[j].cut # "char"  BY <3>4 DEF Readable
      <4>2. DOMAIN file = Positions  BY DEF Sound, TypeOK, Positions
      <4> QED  BY <4>1, <4>2 DEF Decodable
    <3>6. printed[k] \in 1..MaxRecords  BY ElementOfSeq DEF TailTyped
    <3>7. InLog(file', printed[k]) \/ printed[k] \in Hidden(file')
      BY <1>6, <3>5, <3>6 DEF Hidden
    <3> QED  BY <1>2, <3>7
  <2> QED  BY <2>3, <2>4
<1> QED  BY <1>4, <1>5, <1>6 DEF VanishedSound

LEMMA WriteTail ==
  ASSUME Sound, TailSound, NEW t \in Threads, Write(t) \/ WriteMore(t)
  PROVE  TailSound'
<1>1. UNCHANGED <<printed, seen>> /\ vanished' = vanished \cup Hidden(file')
  BY DEF Write, WriteMore, tailVars, Put
<1>2. Hidden(file') \subseteq 1..MaxRecords  BY DEF Hidden
<1>3. TailTyped'  BY <1>1, <1>2 DEF TailSound, TailTyped
<1> QED  BY <1>3, WritePrinted, WriteVanished DEF TailSound

(* What readers get holds each record once. *)
LEMMA GotInjective ==
  ASSUME Sound
  PROVE  LET got == IterRecords(file) IN
         /\ got \in Seq(1..MaxRecords) /\ Len(got) = Cardinality(Good(file)) /\ Len(got) \in Nat
         /\ \A k, l \in 1..Len(got) : got[k] = got[l] => k = l
         /\ \A k \in 1..Len(got) : \E i \in Good(file) : Rank(file, i) = k /\ got[k] = file[i].rec
<1> DEFINE got == IterRecords(file)
<1>1. file \in Files  BY DEF Sound, TypeOK, Files
<1>2. got \in Seq(1..MaxRecords) /\ Len(got) = Cardinality(Good(file)) /\ Len(got) \in Nat
  BY <1>1, RecordsRead, GoodFinite
<1>3. \A k \in 1..Len(got) : \E i \in Good(file) : Rank(file, i) = k /\ got[k] = file[i].rec
  <2> TAKE k \in 1..Len(got)
  <2>1. PICK i \in Good(file) : Rank(file, i) = k  BY <1>1, <1>2, Numbered
  <2> QED  BY <1>1, <2>1, RecordsRead
<1>4. ASSUME NEW k \in 1..Len(got), NEW l \in 1..Len(got), got[k] = got[l] PROVE k = l
  <2>1. PICK i \in Good(file) : Rank(file, i) = k /\ got[k] = file[i].rec  BY <1>3
  <2>2. PICK j \in Good(file) : Rank(file, j) = l /\ got[l] = file[j].rec  BY <1>3
  <2>3. i = j  BY <1>4, <2>1, <2>2 DEF Sound, Distinct, Good, Positions
  <2> QED  BY <2>1, <2>2, <2>3
<1> QED  BY <1>2, <1>3, <1>4

(* What is printed next was not printed before, and is counted. *)
LEMMA FollowTail ==
  ASSUME Sound, TailSound, Follow
  PROVE  TailSound'
<1> DEFINE got == IterRecords(file)  n == Len(got)  new == SubSeq(got, seen + 1, n)
<1>1. /\ new # <<>> /\ printed' = printed \o new /\ seen' = seen + Len(new)
      /\ UNCHANGED <<file, lock, vanished>>
  BY DEF Follow, SeenAfter
<1>2. /\ got \in Seq(1..MaxRecords) /\ n = Cardinality(Good(file)) /\ n \in Nat
      /\ \A k, l \in 1..n : got[k] = got[l] => k = l
      /\ \A k \in 1..n : \E i \in Good(file) : Rank(file, i) = k /\ got[k] = file[i].rec
  BY GotInjective
<1>3. printed \in Seq(1..MaxRecords) /\ seen = Len(printed) /\ seen \in Nat
  BY DEF TailSound, TailTyped
<1> HIDE DEF got, n
<1>4. /\ seen < n /\ new \in Seq(1..MaxRecords) /\ Len(new) = n - seen
      /\ \A k \in 1..(n - seen) : new[k] = got[seen + k]
  <2>1. \A k \in (seen + 1)..n : got[k] \in 1..MaxRecords
    <3> TAKE k \in (seen + 1)..n
    <3>1. k \in 1..Len(got)  BY <1>2, <1>3 DEF n
    <3> QED  BY <1>2, <3>1, ElementOfSeq
  <2>2. /\ new \in Seq(1..MaxRecords)
        /\ Len(new) = IF seen + 1 <= n THEN n - (seen + 1) + 1 ELSE 0
        /\ \A k \in 1..(n - (seen + 1) + 1) : new[k] = got[seen + 1 + k - 1]
    BY <1>2, <1>3, <2>1, SubSeqProperties
  <2> HIDE DEF new
  <2>3. seen + 1 <= n  BY <1>1, <2>2, EmptySeq
  <2>4. \A k : k \in 1..(n - seen) => k \in 1..(n - (seen + 1) + 1) /\ seen + 1 + k - 1 = seen + k
    BY <1>2, <1>3
  <2> QED  BY <1>2, <1>3, <2>2, <2>3, <2>4
<1> HIDE DEF new
<1>5. /\ printed' \in Seq(1..MaxRecords) /\ Len(printed') = n /\ seen' = n
      /\ \A k \in 1..seen : printed'[k] = printed[k]
      /\ \A k \in (seen + 1)..n : printed'[k] = got[k]
  <2>1. /\ printed' \in Seq(1..MaxRecords) /\ Len(printed') = seen + (n - seen)
        /\ \A k \in 1..(seen + (n - seen)) :
             printed'[k] = IF k <= seen THEN printed[k] ELSE new[k - seen]
    <3> DEFINE both == printed \o new
    <3>1. /\ both \in Seq(1..MaxRecords) /\ Len(both) = Len(printed) + Len(new)
          /\ \A k \in 1..(Len(printed) + Len(new)) :
               both[k] = IF k <= Len(printed) THEN printed[k] ELSE new[k - Len(printed)]
      BY <1>3, <1>4, ConcatProperties
    <3>2. printed' = both  BY <1>1
    <3> HIDE DEF both
    <3> QED  BY <1>3, <1>4, <3>1, <3>2
  <2>2. \A k \in (seen + 1)..n : k - seen \in 1..(n - seen) /\ seen + (k - seen) = k
    BY <1>2, <1>3
  <2>3. ASSUME NEW k \in (seen + 1)..n PROVE printed'[k] = got[k]
    <3>1. k \in 1..(seen + (n - seen)) /\ ~ (k <= seen)  BY <1>2, <1>3
    <3>2. printed'[k] = new[k - seen]  BY <2>1, <3>1
    <3>3. new[k - seen] = got[seen + (k - seen)]  BY <1>4, <2>2
    <3> QED  BY <2>2, <3>2, <3>3
  <2>4. \A k \in 1..seen : k \in 1..(seen + (n - seen)) /\ k <= seen  BY <1>2, <1>3, <1>4
  <2>5. Len(printed') = n /\ seen' = n
    <3>1. seen + (n - seen) = n  BY <1>2, <1>3
    <3>2. seen' = seen + Len(new)  BY <1>1
    <3> QED BY <1>4, <2>1, <3>1, <3>2
  <2>6. \A k \in 1..seen : printed'[k] = printed[k]  BY <2>1, <2>4
  <2> QED  BY <2>1, <2>3, <2>5, <2>6
<1>6. \A k \in 1..n : k \in 1..seen \/ k \in (seen + 1)..n  BY <1>2, <1>3
\* None of the new ones was printed: its line has a number beyond the count.
<1>7. ASSUME NEW k \in 1..seen, NEW l \in (seen + 1)..n PROVE printed[k] # got[l]
  <2>1. l \in 1..n /\ ~ (l <= seen)  BY <1>2, <1>3
  <2>2. PICK i \in Good(file) : Rank(file, i) = l /\ got[l] = file[i].rec  BY <1>2, <2>1
  <2> QED  BY <1>3, <2>1, <2>2 DEF TailSound, PrintedSound
<1>8. IsInjective(printed')
  <2>1. DOMAIN printed' = 1..n  BY <1>5
  <2>2. DOMAIN printed = 1..seen /\ IsInjective(printed)  BY <1>3 DEF TailSound, TailTyped
  <2>3. \A k, l \in 1..seen : printed'[k] = printed'[l] => k = l
    BY <1>5, <2>2 DEF IsInjective
  <2>4. \A k, l \in (seen + 1)..n : printed'[k] = printed'[l] => k = l
    <3>1. \A k \in (seen + 1)..n : k \in 1..n  BY <1>2, <1>3
    <3> QED  BY <1>2, <1>5, <3>1
  <2>5. \A k, l \in 1..n : printed'[k] = printed'[l] => k = l
    BY <1>5, <1>6, <1>7, <2>3, <2>4
  <2> QED  BY <2>1, <2>5 DEF IsInjective
<1>9. TailTyped'  BY <1>1, <1>5, <1>8 DEF TailSound, TailTyped
<1>10. PrintedSound'
  <2>1. \A r : Written(r)' <=> Written(r)  BY <1>1 DEF Written, Positions
  <2>2. \A i \in Good(file) : i \in Positions /\ file[i].cut \in {"body", "line"}
    BY DEF Good, Parses, Positions
  <2>3. \A k \in (seen + 1)..n : Written(got[k])
    <3> TAKE k \in (seen + 1)..n
    <3>1. k \in 1..n  BY <1>2, <1>3
    <3> QED  BY <1>2, <2>2, <3>1 DEF Written
  <2>4. \A k \in 1..n : Written(printed'[k])
    BY <1>3, <1>5, <1>6, <2>3 DEF TailSound, PrintedSound
  <2>5. \A i \in Good(file) : Rank(file, i) <= n
    <3>1. file \in Files  BY DEF Sound, TypeOK, Files
    <3>2. \A i \in Good(file) : Rank(file, i) \in 1..n  BY <1>2, <3>1, Numbered
    <3> QED  BY <1>2, <3>2
  <2> QED  BY <1>1, <1>5, <2>1, <2>4, <2>5 DEF PrintedSound
<1>11. VanishedSound'
  <2>1. \A k \in (seen + 1)..n : InLog(file, got[k])
    <3> TAKE k \in (seen + 1)..n
    <3>1. k \in 1..n  BY <1>2, <1>3
    <3> QED  BY <1>2, <3>1, InLogGood
  <2>2. Readable' <=> Readable  BY <1>1 DEF Readable, Positions
  <2>3. Readable => \A k \in 1..n : InLog(file, printed'[k]) \/ printed'[k] \in vanished
    BY <1>3, <1>5, <1>6, <2>1 DEF TailSound, VanishedSound
  <2> QED  BY <1>1, <1>5, <2>2, <2>3 DEF VanishedSound
<1> QED  BY <1>9, <1>10, <1>11 DEF TailSound

(* The steps that neither write nor print. *)
LEMMA QuietTail ==
  ASSUME Sound, TailSound, UNCHANGED <<file, vanished>>,
         UNCHANGED <<seen, printed>> \/ (seen' = 0 /\ printed' = <<>>),
         lock # Nobody \/ lock' = Nobody
  PROVE  TailSound'
<1>1. Readable' => Readable  BY DEF Readable, Positions
<1>2. \A r : Written(r)' <=> Written(r)  BY DEF Written, Positions
<1>3. CASE UNCHANGED <<seen, printed>>
  BY <1>1, <1>2, <1>3 DEF TailSound, TailTyped, PrintedSound, VanishedSound
<1>4. CASE seen' = 0 /\ printed' = <<>>
  <2>1. Len(printed') = 0 /\ printed' \in Seq(1..MaxRecords) /\ IsInjective(printed')
    BY <1>4 DEF IsInjective
  <2> QED  BY <1>4, <2>1 DEF TailSound, TailTyped, PrintedSound, VanishedSound
<1> QED  BY <1>3, <1>4

LEMMA TailStep == Sound /\ TailSound /\ [Next]_vars => TailSound'
<1> SUFFICES ASSUME Sound, TailSound, [Next]_vars PROVE TailSound'  OBVIOUS
<1>1. ASSUME NEW t \in Threads, Write(t) \/ WriteMore(t) PROVE TailSound'  BY <1>1, WriteTail
<1>2. CASE Follow  BY <1>2, FollowTail
<1>3. ASSUME NEW t \in Threads, Begin(t) \/ Close(t) \/ Fail(t) PROVE TailSound'
  BY <1>3, QuietTail DEF Begin, Close, Fail, tailVars
<1>4. CASE Crash  BY <1>4, QuietTail DEF Crash, tailVars
<1>5. CASE FollowRaises \/ Restarted  BY <1>5, QuietTail DEF FollowRaises, Restarted
<1>6. CASE UNCHANGED vars  BY <1>6, QuietTail DEF vars, tailVars
<1> QED  BY <1>1, <1>2, <1>3, <1>4, <1>5, <1>6 DEF Next

(* Of the records the count passed, each that was not printed stands in the place of a *)
(* printed one that is gone.                                                           *)
LEMMA TailSoundMisses == Sound /\ TailSound => TailMissesOnlyVanished
<1> DEFINE got == IterRecords(file)  n == Len(got)  Upto == DOMAIN got \cap 1..seen
           passed == {got[i] : i \in Upto}  P == Range(printed)
<1> SUFFICES ASSUME Sound, TailSound, Decodable(file)
             PROVE  IsInjective(printed) /\ Cardinality(passed \ P) <= Cardinality(vanished)
  BY DEF TailMissesOnlyVanished
<1>1. /\ got \in Seq(1..MaxRecords) /\ n = Cardinality(Good(file)) /\ n \in Nat
      /\ DOMAIN got = 1..n /\ file \in Files
  BY GotInjective DEF Sound, TypeOK, Files
<1>2. /\ printed \in Seq(1..MaxRecords) /\ seen = Len(printed) /\ seen \in Nat
      /\ IsInjective(printed) /\ vanished \subseteq 1..MaxRecords
  BY DEF TailSound, TailTyped
<1>3. IsFiniteSet(1..seen) /\ Cardinality(1..seen) = seen
  <2>1. ASSUME NEW m \in Nat PROVE IsFiniteSet(1..m) /\ Cardinality(1..m) = m  BY FS_Interval
  <2> QED  BY <1>2, <2>1
<1>4. IsFiniteSet(passed) /\ Cardinality(passed) <= seen
  <2> DEFINE h == [i \in Upto |-> got[i]]
  <2>1. Upto \subseteq 1..seen  OBVIOUS
  <2>2. h \in Surjection(Upto, passed)  BY DEF Surjection
  <2> HIDE DEF Upto, h, passed
  <2>3. /\ IsFiniteSet(Upto) /\ Cardinality(Upto) <= seen /\ Cardinality(Upto) \in Nat
    BY <1>3, <2>1, FS_Subset, FS_CardinalityType
  <2>4. IsFiniteSet(passed) /\ Cardinality(passed) <= Cardinality(Upto)
    BY <2>2, <2>3, FS_Surjection
  <2>5. Cardinality(passed) \in Nat  BY <2>4, FS_CardinalityType
  <2> QED  BY <1>2, <2>3, <2>4, <2>5
<1>5. IsFiniteSet(P) /\ Cardinality(P) = seen
  <2>1. printed \in [1..seen -> P] /\ DOMAIN printed = 1..seen  BY <1>2 DEF Range
  <2>2. printed \in Surjection(1..seen, P)  BY <2>1 DEF Surjection, Range
  <2>3. printed \in Injection(1..seen, P)  BY <1>2, <2>1 DEF Injection
  <2> QED  BY <1>3, <2>2, <2>3, FS_Surjection
<1>6. P \ passed \subseteq vanished
  <2> SUFFICES ASSUME NEW k \in 1..seen, printed[k] \notin vanished PROVE printed[k] \in passed
    BY <1>2 DEF Range
  <2>1. Readable  BY DEF Readable, Decodable, Sound, TypeOK, Positions
  <2>2. InLog(file, printed[k])  BY <1>2, <2>1 DEF TailSound, VanishedSound
  <2>3. PICK i \in Good(file) : file[i].rec = printed[k]  BY <2>2, InLogGood
  <2>4. Rank(file, i) <= seen /\ Rank(file, i) \in 1..n /\ got[Rank(file, i)] = printed[k]
    BY <1>1, <1>2, <2>3, Numbered, RecordsRead DEF TailSound, PrintedSound
  <2>5. Rank(file, i) \in Upto  BY <1>1, <1>2, <2>4
  <2> QED  BY <2>4, <2>5
<1>7. IsFiniteSet(vanished)
  <2>1. IsFiniteSet(1..MaxRecords)  BY LedgerAssumption, FS_Interval
  <2> QED  BY <1>2, <2>1, FS_Subset
<1> HIDE DEF passed, P, Upto
<1>8. /\ Cardinality(passed \ P) = Cardinality(passed) - Cardinality(passed \cap P)
      /\ Cardinality(P \ passed) = Cardinality(P) - Cardinality(P \cap passed)
  BY <1>4, <1>5, FS_Difference
<1>9. P \cap passed = passed \cap P /\ IsFiniteSet(passed \cap P) /\ IsFiniteSet(P \ passed)
  BY <1>4, <1>5, FS_Subset
<1>10. Cardinality(P \ passed) <= Cardinality(vanished)  BY <1>6, <1>7, FS_Subset
<1>11. /\ Cardinality(passed) \in Nat /\ Cardinality(passed \cap P) \in Nat
       /\ Cardinality(vanished) \in Nat /\ Cardinality(P \cap passed) = Cardinality(passed \cap P)
  BY <1>4, <1>7, <1>9, FS_CardinalityType
<1>12. Cardinality(passed \ P) <= Cardinality(vanished)
  BY <1>2, <1>4, <1>5, <1>8, <1>10, <1>11
<1> QED  BY <1>2, <1>12

(* `shepherd tail` prints no record twice, and of the records its count has passed it *)
(* misses at most as many as have vanished: for any number of threads, records and    *)
(* faults, through torn lines, raises and restarts of the tail (cli.main: tail).      *)
THEOREM TailMisses == Spec => []TailMissesOnlyVanished
<1>1. Init => Sound /\ TailSound  BY SoundInit, TailInit
<1>2. Sound /\ TailSound /\ [Next]_vars => (Sound /\ TailSound)'  BY SoundStep, TailStep
<1> QED  BY <1>1, <1>2, TailSoundMisses, PTL DEF Spec
=============================================================================
