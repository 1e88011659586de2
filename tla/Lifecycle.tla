------------------------------ MODULE Lifecycle ------------------------------
(***************************************************************************)
(* The daemon as a process: `shepherd start`, `start-bg`, `stop` and the   *)
(* systemd unit, which meet in one port, one pidfile and the process table *)
(* of the host.  A pid is free again once its process has ended and, for a *)
(* child of start-bg, has been waited for; any process may then get it.    *)
(*                                                                         *)
(* A process has bound its port once its detectors are calibrated, until   *)
(* then /health is refused.  Which port that is (--port, SHEPHERD_PORT) is *)
(* left open: two daemons may share one or not, and a question to /health  *)
(* may find the daemon or miss it.  The process table and systemd are      *)
(* external.                                                               *)
(***************************************************************************)
EXTENDS Naturals, FiniteSets

CONSTANTS
  Pids, Terminals,
  NoPid,              \* no pidfile
  Empty               \* a pidfile that holds no pid

ASSUME LifecycleAssumption == IsFiniteSet(Pids) /\ NoPid \notin Pids /\ Empty \notin Pids

VARIABLES
  proc,               \* per pid: what it is
  unitOwned,          \* pids that run in the cgroup of the unit
  unit,               \* what systemd wants of the unit
  pidfile,
  cmd,                \* per terminal: the command in progress and its exit code
  alone,              \* stops that met one listening daemon and were left alone, and
                      \* whether the pidfile named it
  left                \* bound: starts and stops by hand, deaths, strangers to come

vars == <<proc, unitOwned, unit, pidfile, cmd, alone, left>>

Processes == {"free", "starting", "listening", "exited", "stranger", "foreign"}
Steps == {"idle", "open", "write", "poll", "kill", "ask", "signal", "systemctl", "stopped",
          "nobody", "started"}

Live == {p \in Pids : proc[p] \in {"starting", "listening"}}
Listening == {p \in Pids : proc[p] = "listening"}
Free == {p \in Pids : proc[p] = "free"}

Idle == [at |-> "idle", pid |-> NoPid, rc |-> 0]
At(step, p) == [at |-> step, pid |-> p, rc |-> 0]
Ended(step, rc) == [at |-> step, pid |-> NoPid, rc |-> rc]
Ready(t) == cmd[t].at \in {"idle", "stopped", "nobody", "started"}

ChildOf(t, p) == cmd[t].at \in {"open", "write", "poll"} /\ cmd[t].pid = p

(* The processes of P end; a child of a waiting start-bg stays a zombie. *)
End(P) ==
  proc' = [p \in Pids |->
    IF p \notin P THEN proc[p] ELSE IF \E t \in Terminals : ChildOf(t, p) THEN "exited" ELSE "free"]

Spawn(p, byUnit) ==
  /\ proc[p] = "free"
  /\ proc' = [proc EXCEPT ![p] = "starting"]
  /\ unitOwned' = IF byUnit THEN unitOwned \cup {p} ELSE unitOwned \ {p}

Spend(what) == left[what] > 0 /\ left' = [left EXCEPT ![what] = @ - 1]
ByHand == Spend("starts") /\ alone' = {}

-----------------------------------------------------------------------------
(* `shepherd start` in a terminal of its own: no pidfile. *)
StartForeground(p) ==
  /\ ByHand /\ Spawn(p, FALSE)
  /\ UNCHANGED <<unit, pidfile, cmd>>

(* serve_forever: a port that is taken ends the process. *)
Bind(p) ==
  /\ proc[p] = "starting"
  /\ \/ proc' = [proc EXCEPT ![p] = "listening"]
     \/ Listening # {} /\ End({p})
  /\ UNCHANGED <<unitOwned, unit, pidfile, cmd, alone, left>>

\* Mutation: Restart=on-failure, a SIGTERM is an expected stop.
AfterSigtermOnFailure(p) == IF p \in unitOwned THEN "inactive" ELSE unit
AfterSigterm(p) == unit

(* A daemon dies, by a crash or a SIGTERM that is not `shepherd stop`. *)
Die(p) ==
  /\ p \in Live /\ Spend("deaths")
  /\ End({p}) /\ alone' = {}
  /\ unit' \in {unit, AfterSigterm(p)}
  /\ UNCHANGED <<unitOwned, pidfile, cmd>>

(* systemctl --user start; Restart=always. *)
UnitStart ==
  /\ unit # "on" /\ unit' = "on" /\ ByHand
  /\ UNCHANGED <<proc, unitOwned, pidfile, cmd>>
UnitRestart(p) ==
  /\ unit = "on" /\ Live \cap unitOwned = {}
  /\ Spawn(p, TRUE)
  /\ UNCHANGED <<unit, pidfile, cmd, alone, left>>

(* Another process gets a free pid, the user's own or another user's. *)
Stranger(p) ==
  /\ proc[p] = "free" /\ Spend("strangers")
  /\ \E kind \in {"stranger", "foreign"} : proc' = [proc EXCEPT ![p] = kind]
  /\ unitOwned' = unitOwned \ {p} /\ alone' = {}
  /\ UNCHANGED <<unit, pidfile, cmd>>

-----------------------------------------------------------------------------
(* start-bg *)
StartBg(t, p) ==
  /\ Ready(t) /\ ByHand /\ Spawn(p, FALSE)
  /\ cmd' = [cmd EXCEPT ![t] = At("open", p)]
  /\ UNCHANGED <<unit, pidfile>>

OpenPidfile(t) ==
  /\ cmd[t].at = "open"
  /\ pidfile' = Empty /\ cmd' = [cmd EXCEPT ![t].at = "write"]
  /\ UNCHANGED <<proc, unitOwned, unit, alone, left>>
WritePidfile(t) ==
  /\ cmd[t].at = "write"
  /\ pidfile' = cmd[t].pid /\ cmd' = [cmd EXCEPT ![t].at = "poll"]
  /\ UNCHANGED <<proc, unitOwned, unit, alone, left>>

(* The child has ended: the pidfile goes, whosever it is by now. *)
ChildExited(t) ==
  /\ cmd[t].at = "poll" /\ proc[cmd[t].pid] = "exited"
  /\ proc' = [proc EXCEPT ![cmd[t].pid] = "free"]
  /\ pidfile' = NoPid /\ cmd' = [cmd EXCEPT ![t] = Ended("started", 1)]
  /\ UNCHANGED <<unitOwned, unit, alone, left>>
(* Whoever answers /health is taken for the child; after 90 s without an   *)
(* answer it is given up and left to itself.                               *)
ChildReady(t) ==
  /\ cmd[t].at = "poll" /\ proc[cmd[t].pid] # "exited"
  /\ \E rc \in {0, 1} :
       /\ rc = 0 => Listening # {}
       /\ cmd' = [cmd EXCEPT ![t] = Ended("started", rc)]
  /\ UNCHANGED <<proc, unitOwned, unit, pidfile, alone, left>>

-----------------------------------------------------------------------------
(* stop: the pidfile first, then whoever answers /health *)
Lone(t) ==             \* one daemon, listening, nobody to bring another or to interfere
  /\ \A u \in Terminals \ {t} : Ready(u)
  /\ Cardinality(Live) = 1 /\ Live = Listening
  /\ unit # "off" => Live \subseteq unitOwned
  /\ pidfile \in Pids => proc[pidfile] = "free" \/ pidfile \in Live \ unitOwned   \* not reused

\* Mutation: a pidfile that names nobody is the end of the story.
NextAfterPidfileGone == Ended("stopped", 0)
NextAfterPidfile == At("ask", NoPid)

StopReadsPidfile(t) ==
  /\ cmd' = [cmd EXCEPT ![t] = IF pidfile \in Pids THEN At("kill", pidfile) ELSE At("ask", NoPid)]
  /\ pidfile' = NoPid
  /\ alone' = IF Lone(t) THEN {[by |-> t, named |-> pidfile \in Live]} ELSE {}
  /\ UNCHANGED <<proc, unitOwned, unit>>

Stop(t) == Ready(t) /\ Spend("stops") /\ StopReadsPidfile(t)

(* os.kill: a zombie takes the signal, a free pid does not. *)
StopKills(t) ==
  LET p == cmd[t].pid IN
  /\ cmd[t].at = "kill"
  /\ CASE proc[p] \in {"starting", "listening", "stranger"} ->
            End({p}) /\ unit' = AfterSigterm(p) /\ cmd' = [cmd EXCEPT ![t] = Ended("stopped", 0)]
       [] proc[p] = "exited" ->
            cmd' = [cmd EXCEPT ![t] = Ended("stopped", 0)] /\ UNCHANGED <<proc, unit>>
       [] proc[p] = "foreign" ->
            cmd' = [cmd EXCEPT ![t] = Ended("stopped", 1)] /\ UNCHANGED <<proc, unit>>
       [] OTHER ->
            cmd' = [cmd EXCEPT ![t] = NextAfterPidfile] /\ UNCHANGED <<proc, unit>>
  /\ UNCHANGED <<unitOwned, pidfile, alone, left>>

(* GET /health of the configured port.  Any failure of it is taken for an  *)
(* answer, "no daemon running": nobody listens, or a daemon does that is   *)
(* busy for two seconds, or has another port.                              *)
StopAsks(t) ==
  /\ cmd[t].at = "ask"
  /\ \/ cmd' = [cmd EXCEPT ![t] = Ended("nobody", 0)]
     \/ \E p \in Listening :
          cmd' = [cmd EXCEPT ![t] = IF p \in unitOwned THEN At("systemctl", NoPid) ELSE At("signal", p)]
  /\ UNCHANGED <<proc, unitOwned, unit, pidfile, alone, left>>

StopSignals(t) ==
  LET p == cmd[t].pid IN
  /\ cmd[t].at = "signal"
  /\ IF proc[p] \in {"free", "foreign"}
     THEN cmd' = [cmd EXCEPT ![t] = Ended("stopped", 1)] /\ UNCHANGED <<proc, unit>>
     ELSE /\ cmd' = [cmd EXCEPT ![t] = Ended("stopped", 0)]
          /\ End({p} \ {q \in Pids : proc[q] = "exited"}) /\ unit' = AfterSigterm(p)
  /\ UNCHANGED <<unitOwned, pidfile, alone, left>>

StopSystemctl(t) ==
  /\ cmd[t].at = "systemctl"
  /\ \/ /\ unit' = "off" /\ End(Live \cap unitOwned)
        /\ cmd' = [cmd EXCEPT ![t] = Ended("stopped", 0)]
     \/ cmd' = [cmd EXCEPT ![t] = Ended("stopped", 1)] /\ UNCHANGED <<proc, unit>>
  /\ UNCHANGED <<unitOwned, pidfile, alone, left>>

-----------------------------------------------------------------------------
Init ==
  /\ proc = [p \in Pids |-> "free"] /\ unitOwned = {} /\ unit = "off"
  /\ pidfile = NoPid /\ cmd = [t \in Terminals |-> Idle]
  /\ alone = {}

Command(t) ==
  \/ OpenPidfile(t) \/ WritePidfile(t) \/ ChildExited(t) \/ ChildReady(t)
  \/ StopKills(t) \/ StopAsks(t) \/ StopSignals(t) \/ StopSystemctl(t)

Processing(p) == Bind(p) \/ UnitRestart(p)

-----------------------------------------------------------------------------
TypeOK ==
  /\ proc \in [Pids -> Processes] /\ unitOwned \subseteq Pids /\ unit \in {"off", "on"}
  /\ pidfile \in Pids \cup {NoPid, Empty}
  /\ cmd \in [Terminals -> [at : Steps, pid : Pids \cup {NoPid}, rc : 0..1]]
  /\ alone \subseteq [by : Terminals, named : BOOLEAN]

(* However the daemon was started, a `stop` that met it as the only one,   *)
(* listening, and that nobody disturbed, says that it has stopped it only  *)
(* with no daemon left and none to come (_stop_daemon: pidfile alive,      *)
(* stale, empty or absent).  That there is "no daemon running", with the   *)
(* same exit code, it may say of one that did not answer /health, but not  *)
(* of one that the pidfile names.                                          *)
LoneDaemonStopped ==
  \A a \in alone :
    /\ cmd[a.by] = Ended("stopped", 0) => Live = {} /\ unit = "off"
    /\ cmd[a.by].at = "nobody" => ~ a.named

(* A machine that is to be always supervised is: as long as the unit is    *)
(* wanted, somebody listens again and again, whoever kills the daemon or   *)
(* takes its port (Restart=always).                                        *)
SupervisedAgain == unit # "off" ~> (Listening # {} \/ unit = "off")
=============================================================================
