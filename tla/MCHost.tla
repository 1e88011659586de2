------------------------------- MODULE MCHost -------------------------------
(***************************************************************************)
(* The bounds are spent on one side at a time: on the processes, on the    *)
(* files, or on a few events of both.                                      *)
(***************************************************************************)
EXTENDS Host

Processes4(starts, stops, deaths, strangers) ==
  [starts |-> starts, stops |-> stops, deaths |-> deaths, strangers |-> strangers]
Files3(commands, edits_, interrupts) ==
  [commands |-> commands, edits |-> edits_, interrupts |-> interrupts]

OneSideAtATime == {
  <<Processes4(2, 2, 1, 1), Files3(0, 0, 0)>>,
  <<Processes4(0, 0, 0, 0), Files3(3, 2, 1)>>,
  <<Processes4(1, 0, 1, 0), Files3(2, 0, 1)>>}

(* Without a command nothing but empty files and no plugin need be there. *)
InitMC ==
  /\ InitHost
  /\ quota.commands = 0 => scan = {} /\ \A a \in HookFiles : doc[a] = Absent
SpecMC == InitMC /\ [][NextHost]_hostVars /\ FairProcesses
=============================================================================
