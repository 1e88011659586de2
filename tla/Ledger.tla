------------------------------- MODULE Ledger -------------------------------
(***************************************************************************)
(* The audit file of one session, byte order and all that can go wrong     *)
(* with it: handler threads append records under a lock of their process,  *)
(* a write may stop at any byte (the process is killed, the disk is full), *)
(* readers take no lock, and `shepherd tail` follows by counting records.  *)
(*                                                                         *)
(* A record's line is abstracted to the places where a write can stop:     *)
(*   "head"  inside the line, between two characters                       *)
(*   "char"  inside a character of several bytes (records in Wide)         *)
(*   "body"  before the newline         "line"  nowhere: all is written    *)
(* The file is the sequence of the pieces in byte order; a piece that does *)
(* not end its line is continued by the next one on the same line.         *)
(***************************************************************************)
EXTENDS Naturals, Sequences, FiniteSets, SequencesExt

CONSTANTS
  Threads,       \* handler threads of the daemon that append
  Wide,          \* records whose text has characters of several bytes
  Nobody,        \* the lock is free
  MaxRecords,    \* bound: records offered to the ledger
  MaxFaults      \* bound: crashes and writes that fail

ASSUME LedgerAssumption ==
  /\ Wide \subseteq Nat /\ Nobody \notin Threads
  /\ MaxRecords \in Nat /\ MaxFaults \in Nat

VARIABLES
  file,          \* pieces, in byte order
  lock,          \* the thread in the with block of append
  wants,         \* per thread: the record it appends (0: none)
  acked,         \* records whose append returned
  next,          \* the next record
  faults,
  seen, printed, \* `shepherd tail`: its counter and what it printed
  following,     \* whether it still runs
  vanished       \* records that readers got and later readers do not

vars == <<file, lock, wants, acked, next, faults, seen, printed, following, vanished>>

tailVars == <<seen, printed, following>>

Cuts == <<"head", "char", "body", "line">>
CutsOf(r) == {Cuts[i] : i \in IF r \in Wide THEN 1..4 ELSE {1, 3, 4}}
Later(c, d) == \E i, j \in 1..4 : i < j /\ Cuts[i] = c /\ Cuts[j] = d

(***************************************************************************)
(* recent and iter_records                                                 *)
(***************************************************************************)
(* Piece i is a line that parses: it starts its line and ends it, or the   *)
(* file ends after its body.                                               *)
Parses(f, i) ==
  /\ f[i].cut = "line" \/ (f[i].cut = "body" /\ i = Len(f))
  /\ i = 1 \/ f[i - 1].cut = "line"

(* A character cut in two is no UTF-8: every reader raises, and not the    *)
(* error it skips lines for.                                               *)
Decodable(f) == \A i \in DOMAIN f : f[i].cut # "char"

(* The lines that parse, in order: the k-th is the one with k of them up to it. *)
Good(f) == {i \in 1..Len(f) : Parses(f, i)}
Rank(f, i) == Cardinality({j \in Good(f) : j <= i})
IterRecords(f) ==
  [k \in 1..Cardinality(Good(f)) |-> f[CHOOSE i \in Good(f) : Rank(f, i) = k].rec]

InLog(f, r) == \E i \in 1..Len(f) : Parses(f, i) /\ f[i].rec = r

(***************************************************************************)
(* append                                                                  *)
(***************************************************************************)
Begin(t) ==
  /\ wants[t] = 0 /\ next <= MaxRecords
  /\ wants' = [wants EXCEPT ![t] = next]
  /\ next' = next + 1
  /\ UNCHANGED <<file, lock, acked, faults, tailVars, vanished>>

\* Mutation: appends of a session are not serialized.
LockIsOpen(t) == t \in Threads
LockIsFree(t) == lock = Nobody

(* Records that the change of the file to f takes from the readers. *)
Hidden(f) == {r \in 1..MaxRecords : Decodable(file) /\ InLog(file, r) /\ ~InLog(f, r)}

Put(f) == file' = f /\ vanished' = vanished \cup Hidden(f)

\* Mutation: the file is opened with mode "w".
OpenedAnew == <<>>
Opened == file

(* The lock is taken, the file opened for appending, the first bytes       *)
(* written.                                                                *)
Write(t) ==
  /\ wants[t] # 0 /\ lock # t /\ LockIsFree(t)
  /\ lock' = t
  /\ \E c \in CutsOf(wants[t]) : Put(Append(Opened, [rec |-> wants[t], cut |-> c]))
  /\ UNCHANGED <<wants, acked, next, faults, tailVars>>

Mine(t) == CHOOSE i \in DOMAIN file : file[i].rec = wants[t]

WriteMore(t) ==
  /\ lock = t
  /\ \E c \in CutsOf(wants[t]) :
       /\ Later(file[Mine(t)].cut, c)
       /\ Put([file EXCEPT ![Mine(t)].cut = c])
  /\ UNCHANGED <<lock, wants, acked, next, faults, tailVars>>

(* The file is closed, the lock released, append returns. *)
Close(t) ==
  /\ lock = t /\ file[Mine(t)].cut = "line"
  /\ lock' = Nobody
  /\ acked' = acked \cup {wants[t]}
  /\ wants' = [wants EXCEPT ![t] = 0]
  /\ UNCHANGED <<file, next, faults, tailVars, vanished>>

(* The disk is full: the bytes written stay, append raises. *)
Fail(t) ==
  /\ lock = t /\ file[Mine(t)].cut # "line" /\ faults < MaxFaults
  /\ lock' = Nobody
  /\ wants' = [wants EXCEPT ![t] = 0]
  /\ faults' = faults + 1
  /\ UNCHANGED <<file, acked, next, tailVars, vanished>>

(* The daemon is killed and started again: locks and callers are gone. *)
Crash ==
  /\ \E t \in Threads : wants[t] # 0
  /\ faults < MaxFaults
  /\ faults' = faults + 1
  /\ lock' = Nobody
  /\ wants' = [t \in Threads |-> 0]
  /\ UNCHANGED <<file, acked, next, tailVars, vanished>>

(***************************************************************************)
(* shepherd tail: read everything, print what lies beyond the count        *)
(***************************************************************************)
\* Mutation: the count goes on by the lines of the file.
SeenByPieces(s) == Len(file)
SeenAfter(s) == seen + Len(s)

Follow ==
  /\ following /\ Decodable(file)
  /\ LET new == SubSeq(IterRecords(file), seen + 1, Len(IterRecords(file))) IN
     /\ new # <<>>
     /\ printed' = printed \o new
     /\ seen' = SeenAfter(new)
  /\ UNCHANGED <<file, lock, wants, acked, next, faults, following, vanished>>

FollowRaises ==
  /\ following /\ ~Decodable(file)
  /\ following' = FALSE
  /\ UNCHANGED <<file, lock, wants, acked, next, faults, seen, printed, vanished>>

Restarted ==
  /\ ~following /\ Decodable(file)
  /\ following' = TRUE /\ seen' = 0 /\ printed' = <<>>
  /\ UNCHANGED <<file, lock, wants, acked, next, faults, vanished>>

-----------------------------------------------------------------------------
Init ==
  /\ file = <<>> /\ lock = Nobody /\ wants = [t \in Threads |-> 0]
  /\ acked = {} /\ next = 1 /\ faults = 0
  /\ seen = 0 /\ printed = <<>> /\ following = TRUE
  /\ vanished = {}

Next ==
  \/ \E t \in Threads : Begin(t) \/ Write(t) \/ WriteMore(t) \/ Close(t) \/ Fail(t)
  \/ Crash
  \/ Follow \/ FollowRaises \/ Restarted

Spec == Init /\ [][Next]_vars
-----------------------------------------------------------------------------
(* Types; the counter of the tail follows from what it printed. *)
Pieces == UNION {[rec : {r}, cut : CutsOf(r)] : r \in 1..MaxRecords}

TypeOK ==
  /\ file \in Seq(Pieces)
  /\ wants \in [Threads -> 0..MaxRecords]
  /\ acked \subseteq 1..MaxRecords /\ next \in 1..(MaxRecords + 1)
  /\ lock \in Threads \cup {Nobody}
  /\ faults \in 0..MaxFaults /\ following \in BOOLEAN

(* A write that was cut short damages itself and the one append that       *)
(* follows it: every other record whose append returned is read, by every  *)
(* reader, and a fault costs at most one of those; unless a character was  *)
(* cut in two, which no reader survives.                                   *)
Torn(i) == file[i].cut # "line"
DamageConfined ==
  Decodable(file) =>
    /\ \A i \in DOMAIN file : file[i].rec \in acked =>
         InLog(file, file[i].rec) \/ (i > 1 /\ Torn(i - 1))
    /\ Cardinality({r \in acked : ~InLog(file, r)}) <= faults

(* What readers get grows at its end only: the one record a reader may     *)
(* have got and a later one does not is that of a write cut right before   *)
(* its newline, once the next append continues its line; its own append    *)
(* never returned.                                                         *)
OnlyUnendedVanish ==
  [][Decodable(file) /\ Decodable(file') =>
       \/ IsPrefix(IterRecords(file), IterRecords(file'))
       \/ /\ Last(file).cut = "body" /\ Last(file).rec \notin acked
          /\ IterRecords(file') = Front(IterRecords(file))]_file

(* `shepherd tail` prints no record twice, and of the records its count    *)
(* has passed it misses at most as many as have vanished.                  *)
TailMissesOnlyVanished ==
  Decodable(file) =>
    LET got == IterRecords(file)
        passed == {got[i] : i \in DOMAIN got \cap 1..seen} IN
    /\ IsInjective(printed)
    /\ Cardinality(passed \ Range(printed)) <= Cardinality(vanished)
=============================================================================
