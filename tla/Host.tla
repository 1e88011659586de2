-------------------------------- MODULE Host --------------------------------
(***************************************************************************)
(* The commands of one host: Lifecycle and Installers, which meet where an *)
(* uninstall that leaves no adapter stops the daemon.  A terminal runs one *)
(* command at a time; installers run in the terminal Desk.                 *)
(***************************************************************************)
EXTENDS Lifecycle, Installers

CONSTANTS
  Desk,               \* where installers run
  Allowances          \* bound: pairs <<left, quota>> of what may happen in a behaviour

ASSUME HostAssumption == Desk \in Terminals

hostVars == <<vars, filesVars>>

AtRest(t) == Ready(t) /\ (t = Desk => ~Busy)

InitHost ==
  /\ Init /\ InitFiles
  /\ \E a \in Allowances : left = a[1] /\ quota = a[2]

DaemonCommand ==
  \/ \E t \in Terminals : AtRest(t) /\ (Stop(t) \/ \E p \in Pids : StartBg(t, p))
  \/ \E t \in Terminals : Command(t)
  \/ \E p \in Pids : StartForeground(p) \/ Processing(p) \/ Die(p) \/ Stranger(p)
  \/ UnitStart

FileCommand == AtRest(Desk) /\ Typed

(* cli uninstall: _stop_daemon, whose exit code is not looked at. *)
UninstallStopsDaemon == LetDaemonGo /\ StopReadsPidfile(Desk) /\ UNCHANGED left

NextHost ==
  \/ DaemonCommand /\ UNCHANGED filesVars
  \/ (FileCommand \/ FileStep) /\ UNCHANGED vars
  \/ UninstallStopsDaemon

(* Processes run and systemd restarts its unit, whatever is typed. *)
FairProcesses ==
  /\ \A p \in Pids : WF_hostVars(Bind(p) /\ UNCHANGED filesVars)
  /\ WF_hostVars((\E p \in Pids : UnitRestart(p)) /\ UNCHANGED filesVars)

FairHost == InitHost /\ [][NextHost]_hostVars /\ FairProcesses
=============================================================================
