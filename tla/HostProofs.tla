----------------------------- MODULE HostProofs -----------------------------
(***************************************************************************)
(* What the commands of a host keep, for any number of terminals and       *)
(* processes, any set of hook files and plugins, and any number of         *)
(* commands, edits, interruptions, deaths and strangers.                   *)
(***************************************************************************)
EXTENDS Host, FiniteSetTheorems, SequenceTheorems, TLAPS

(* A step of the files, whoever takes it. *)
FilesMove == Typed \/ FileStep \/ LetDaemonGo \/ UNCHANGED filesVars

LEMMA HostMovesFiles == [NextHost]_hostVars => FilesMove
BY DEF NextHost, DaemonCommand, FileCommand, UninstallStopsDaemon, hostVars, FilesMove

(* A file that is not there says nothing. *)
Nothing(d) == d.form = "absent" => d.own = 0 /\ d.ours = {}

(* While a replacement is under way the owner's last words are in a        *)
(* backup, unless they came after it.                                      *)
InBackup ==
  OnFile("replace") => \/ written[Current] = 0
                       \/ written[Current] \in saved[Current] \cup late

(* A bundle is moved in only after the older ones were moved out, and only *)
(* by an installer.                                                        *)
Alone ==
  OnPlugin("backup") \/ OnPlugin("replace") => "prev" \notin scan /\ job.op = "install"

(* Of the agents of an uninstall only those still to do are posting. *)
Clean(a) == IF a \in Plugins THEN scan = {} ELSE doc[a].ours = {}
Undone ==
  /\ job.at = "daemon" => job.todo = <<>> /\ job.op = "uninstall"
  /\ Busy /\ job.op = "uninstall" => \A a \in job.names : a \in ToSet(job.todo) \/ Clean(a)
  /\ job.op = "uninstall" /\ (OnFile("backup") \/ OnFile("replace")) => job.new.ours = {}

FilesSound ==
  /\ FilesTypeOK
  /\ \A a \in HookFiles : Nothing(doc[a])
  /\ Nothing(job.new)
  /\ OnlyLateEditsLost /\ InBackup /\ Alone /\ Undone

LEMMA FilesInit == InitFiles => FilesSound
<1> SUFFICES ASSUME InitFiles PROVE FilesSound  OBVIOUS
<1> USE DEF InitFiles
<1>1. Absent \in Docs /\ Nothing(Absent)  BY DEF Docs, Absent, Nothing
<1>2. FilesTypeOK
  <2>1. job \in Jobs  BY <1>1 DEF NoJob, Jobs
  <2>2. doc \in [HookFiles -> Docs]  BY <1>1 DEF Docs
  <2> QED  BY <2>1, <2>2 DEF FilesTypeOK
<1>3. \A a \in HookFiles : Nothing(doc[a])  BY <1>1 DEF Nothing
<1>4. job.at = "done" /\ job.new = Absent  BY DEF NoJob
<1>5. InBackup /\ Alone /\ Undone  BY <1>4 DEF InBackup, Alone, Undone, OnFile, OnPlugin, Busy
<1>6. OnlyLateEditsLost  BY DEF OnlyLateEditsLost
<1> QED  BY <1>1, <1>2, <1>3, <1>4, <1>5, <1>6 DEF FilesSound

(* The next agent's turn: types, and what is still to do. *)
LEMMA NextAgentParts ==
  ASSUME FilesTypeOK, job.todo # <<>>, Busy
  PROVE  /\ NextAgent \in Jobs /\ NextAgent.new = Absent
         /\ NextAgent.op = job.op /\ NextAgent.names = job.names
         /\ NextAgent.at \in {"load", "daemon", "done"}
         /\ NextAgent.at = "daemon" => NextAgent.todo = <<>> /\ job.op = "uninstall"
         /\ ToSet(job.todo) \subseteq ToSet(NextAgent.todo) \cup {Current}
         /\ Current \in Agents
<1> DEFINE todo == job.todo
<1>1. todo \in Seq(Agents) /\ todo # <<>>  BY DEF FilesTypeOK, Jobs
<1> HIDE DEF todo
<1>2. /\ Head(todo) \in Agents /\ Tail(todo) \in Seq(Agents) /\ Len(Tail(todo)) = Len(todo) - 1
      /\ \A i \in 1..Len(Tail(todo)) : Tail(todo)[i] = todo[i + 1]
  BY <1>1, HeadTailProperties
<1>3. Len(todo) \in Nat /\ Len(todo) # 0 /\ Head(todo) = todo[1]  BY <1>1
<1>4. ToSet(todo) \subseteq ToSet(Tail(todo)) \cup {Head(todo)}
  <2>1. ASSUME NEW i \in 1..Len(todo) PROVE todo[i] \in ToSet(Tail(todo)) \cup {Head(todo)}
    <3>1. CASE i = 1  BY <1>3, <3>1
    <3>2. CASE i # 1
      <4>1. i - 1 \in 1..Len(Tail(todo)) /\ todo[i] = Tail(todo)[i - 1]  BY <1>2, <1>3, <3>2
      <4>2. DOMAIN Tail(todo) = 1..Len(Tail(todo))  BY <1>2
      <4>3. Tail(todo)[i - 1] \in ToSet(Tail(todo))  BY <4>1, <4>2 DEF ToSet
      <4> QED  BY <4>1, <4>3
    <3> QED  BY <3>1, <3>2
  <2> QED  BY <1>1, <2>1 DEF ToSet
<1>5. Absent \in Docs  BY DEF Absent, Docs, FilesTypeOK
<1>6. ~(Len(todo) > 1) => Tail(todo) = <<>>  BY <1>2, <1>3
<1>7. job \in Jobs  BY DEF FilesTypeOK
<1>8. /\ NextAgent.todo = Tail(todo) /\ NextAgent.new = Absent
      /\ NextAgent.op = job.op /\ NextAgent.names = job.names
      /\ NextAgent.at = IF Len(todo) > 1 THEN "load"
                        ELSE IF job.op = "uninstall" THEN "daemon" ELSE "done"
  BY <1>7 DEF NextAgent, Jobs, todo
<1>9. NextAgent \in Jobs  BY <1>2, <1>5, <1>7 DEF Jobs, NextAgent, todo
<1> QED  BY <1>2, <1>4, <1>6, <1>8, <1>9 DEF Current, todo

LEMMA FinishedParts ==
  ASSUME FilesTypeOK
  PROVE  Finished \in Jobs /\ Finished.at = "done" /\ Finished.new = Absent
<1>1. Absent \in Docs  BY DEF Absent, Docs, FilesTypeOK
<1>2. <<>> \in Seq(Agents)  BY EmptySeq
<1> QED  BY <1>1, <1>2 DEF Finished, Jobs, FilesTypeOK

(* A command that is over asks for nothing more. *)
LEMMA DoneSound ==
  ASSUME FilesSound, job' = Finished, UNCHANGED <<doc, saved, written, late, edits, scan, whole>>
  PROVE  FilesSound'
<1>1. Finished \in Jobs /\ Finished.at = "done" /\ Finished.new = Absent
  BY FinishedParts DEF FilesSound
<1>2. FilesTypeOK'  BY <1>1 DEF FilesSound, FilesTypeOK, Docs, Jobs
<1>3. Nothing(job'.new)  BY <1>1 DEF Nothing, Absent
<1>4. InBackup' /\ Alone' /\ Undone'
  BY <1>1 DEF InBackup, Alone, Undone, OnFile, OnPlugin, Busy
<1> QED  BY <1>2, <1>3, <1>4 DEF FilesSound, OnlyLateEditsLost, Nothing

LEMMA TypedSound == ASSUME FilesSound, Typed PROVE FilesSound'
<1>1. PICK op \in {"install", "uninstall"}, names \in Seq(Agents) : Begin(op, names)
  <2>1. ASSUME NEW a \in Agents PROVE <<a>> \in Seq(Agents)  OBVIOUS
  <2>2. <<"qwenpaw", "claude", "codex">> \in Seq(Agents)
    BY InstallersAssumption DEF Agents
  <2> QED  BY <2>1, <2>2 DEF Typed, Install, Uninstall
<1>2. /\ ~Busy /\ UNCHANGED <<doc, saved, scan, whole, written, late, edits>>
      /\ job' = [op |-> op, names |-> ToSet(names), todo |-> names, at |-> "load", new |-> Absent]
  BY <1>1 DEF Begin, ownerVars
<1>3. ToSet(names) \subseteq Agents  BY DEF ToSet
<1>4. Absent \in Docs  BY DEF FilesSound, FilesTypeOK, Absent, Docs
<1>5. job' \in Jobs  BY <1>2, <1>3, <1>4 DEF Jobs
<1>6. FilesTypeOK'  BY <1>2, <1>5 DEF FilesSound, FilesTypeOK, Docs, Jobs
<1>7. Nothing(job'.new)  BY <1>2 DEF Nothing, Absent
<1>8. InBackup' /\ Alone' /\ Undone'
  BY <1>2 DEF InBackup, Alone, Undone, OnFile, OnPlugin
<1> QED  BY <1>2, <1>6, <1>7, <1>8 DEF FilesSound, OnlyLateEditsLost, Nothing

(* What holds when the command goes on to its next agent. *)
LEMMA NextSound ==
  ASSUME FilesSound, job.todo # <<>>, Busy, job' = NextAgent, FilesTypeOK',
         \A a \in HookFiles : Nothing(doc'[a]), OnlyLateEditsLost',
         \A a \in Agents : job.op = "uninstall" /\ (Clean(a) \/ a = Current) => Clean(a)'
  PROVE  FilesSound'
<1>1. /\ NextAgent.new = Absent /\ NextAgent.op = job.op /\ NextAgent.names = job.names
      /\ NextAgent.at \in {"load", "daemon", "done"}
      /\ NextAgent.at = "daemon" => NextAgent.todo = <<>> /\ job.op = "uninstall"
      /\ ToSet(job.todo) \subseteq ToSet(NextAgent.todo) \cup {Current}
      /\ Current \in Agents /\ job.names \subseteq Agents
  BY NextAgentParts DEF FilesSound, FilesTypeOK, Jobs
<1>2. Nothing(job'.new)  BY <1>1 DEF Nothing, Absent
<1>3. InBackup' /\ Alone'  BY <1>1 DEF InBackup, Alone, OnFile, OnPlugin
<1>4. Undone'
  <2>1. ASSUME job.op = "uninstall", NEW a \in job.names
        PROVE  a \in ToSet(NextAgent.todo) \/ Clean(a)'
    BY <1>1, <2>1 DEF FilesSound, Undone
  <2> QED  BY <1>1, <2>1 DEF Undone, OnFile
<1> QED  BY <1>2, <1>3, <1>4 DEF FilesSound, Nothing

LEMMA LoadSound == ASSUME FilesSound, Load PROVE FilesSound'
<1> DEFINE d == doc[Current]
<1>1. /\ job.at = "load" /\ job.todo # <<>> /\ Current \in HookFiles /\ Current \notin Plugins
      /\ UNCHANGED <<doc, saved, scan, whole, written, late, edits>>
  BY InstallersAssumption DEF Load, OnFile, ownerVars
<1>2. d \in Docs /\ Nothing(d)  BY <1>1 DEF FilesSound, FilesTypeOK
<1>3. CASE job' = Finished  BY <1>1, <1>3, DoneSound
<1>4. CASE d.ours = {} /\ job' = NextAgent
  <2>1. NextAgent \in Jobs  BY <1>1, NextAgentParts DEF FilesSound, Busy
  <2>2. FilesTypeOK'  BY <1>1, <1>4, <2>1 DEF FilesSound, FilesTypeOK, Docs, Jobs
  <2>3. OnlyLateEditsLost' /\ Busy  BY <1>1 DEF FilesSound, OnlyLateEditsLost, Busy
  <2>4. \A a \in Agents : Clean(a) \/ a = Current => Clean(a)'  BY <1>1, <1>4 DEF Clean
  <2> QED  BY <1>1, <1>4, <2>2, <2>3, <2>4, NextSound DEF FilesSound, Nothing
<1>5. ASSUME NEW n \in Docs, Nothing(n), job' = [job EXCEPT !.at = "backup", !.new = n],
             job.op = "uninstall" => n.ours = {}
      PROVE  FilesSound'
  <2>1. /\ job' \in Jobs /\ job'.op = job.op /\ job'.names = job.names /\ job'.todo = job.todo
        /\ job'.at = "backup" /\ job'.new = n
    BY <1>5 DEF FilesSound, FilesTypeOK, Jobs
  <2>2. FilesTypeOK'  BY <1>1, <2>1 DEF FilesSound, FilesTypeOK, Docs, Jobs
  <2>3. InBackup'  BY <2>1 DEF InBackup, OnFile
  <2>4. Alone'  BY <1>1, <2>1 DEF Alone, OnPlugin, Current
  <2>5. Undone'  BY <1>1, <1>5, <2>1 DEF FilesSound, Undone, OnFile, Current, Clean, Busy
  <2> QED  BY <1>1, <1>5, <2>1, <2>2, <2>3, <2>4, <2>5 DEF FilesSound, OnlyLateEditsLost, Nothing
<1>6. CASE job' = [job EXCEPT !.at = "backup", !.new = WithOurs(Current, d)] /\ job.op = "install"
  <2>1. WithOurs(Current, d) \in Docs /\ Nothing(WithOurs(Current, d))
    BY <1>2 DEF WithOurs, Docs, Nothing
  <2> QED  BY <1>5, <1>6, <2>1
<1>7. CASE job' = [job EXCEPT !.at = "backup", !.new = Stripped(d)]
  <2>1. Stripped(d) \in Docs /\ Nothing(Stripped(d)) /\ Stripped(d).ours = {}
    BY <1>2 DEF Stripped, Docs, Nothing
  <2> QED  BY <1>5, <1>7, <2>1
<1> QED  BY <1>3, <1>4, <1>6, <1>7 DEF Load

LEMMA BackupSound == ASSUME FilesSound, Backup PROVE FilesSound'
<1>1. /\ job.at = "backup" /\ job.todo # <<>> /\ Current \in HookFiles /\ Current \notin Plugins
      /\ job' = [job EXCEPT !.at = "replace"]
      /\ saved' = IF doc[Current].form = "absent" THEN saved
                  ELSE [saved EXCEPT ![Current] = @ \cup {doc[Current].own}]
      /\ UNCHANGED <<doc, scan, whole, written, late, edits>>
  BY InstallersAssumption DEF Backup, OnFile, ownerVars, Kept
<1>2. /\ job' \in Jobs /\ job'.op = job.op /\ job'.names = job.names /\ job'.todo = job.todo
      /\ job'.at = "replace" /\ job'.new = job.new
  BY <1>1 DEF FilesSound, FilesTypeOK, Jobs
<1>3. doc[Current].own \in 0..edits  BY <1>1 DEF FilesSound, FilesTypeOK, Docs
<1>4. saved' \in [HookFiles -> SUBSET (0..edits)]
      /\ \A a \in HookFiles : saved[a] \subseteq saved'[a]
      /\ doc[Current].form # "absent" => doc[Current].own \in saved'[Current]
  BY <1>1, <1>3 DEF FilesSound, FilesTypeOK
<1>5. FilesTypeOK'  BY <1>1, <1>2, <1>4 DEF FilesSound, FilesTypeOK, Docs, Jobs
<1>6. OnlyLateEditsLost'  BY <1>1, <1>4 DEF FilesSound, OnlyLateEditsLost
<1>7. InBackup'
  <2>1. written[Current] = 0 \/ written[Current] \in {doc[Current].own} \cup saved[Current] \cup late
    BY <1>1 DEF FilesSound, OnlyLateEditsLost
  <2>2. doc[Current].form = "absent" => doc[Current].own = 0
    BY <1>1 DEF FilesSound, Nothing
  <2>3. written[Current] = 0 \/ written[Current] \in saved'[Current] \cup late
    BY <1>1, <1>4, <2>1, <2>2
  <2> QED  BY <1>1, <1>2, <2>3 DEF InBackup, OnFile, Current
<1>8. Alone'  BY <1>1, <1>2 DEF Alone, OnPlugin, Current
<1>9. Undone'  BY <1>1, <1>2 DEF FilesSound, Undone, OnFile, Current, Clean, Busy
<1> QED  BY <1>1, <1>2, <1>5, <1>6, <1>7, <1>8, <1>9 DEF FilesSound, Nothing

LEMMA ReplaceSound == ASSUME FilesSound, Replace PROVE FilesSound'
<1> DEFINE n == IF job.op = "uninstall" /\ job.new.own = 0 THEN Absent ELSE job.new
<1>1. /\ job.at = "replace" /\ job.todo # <<>> /\ Current \in HookFiles /\ Current \notin Plugins
      /\ job' = NextAgent /\ doc' = [doc EXCEPT ![Current] = n]
      /\ UNCHANGED <<saved, scan, whole, written, late, edits>>
  BY InstallersAssumption DEF Replace, OnFile, ownerVars
<1>2. n \in Docs /\ Nothing(n)
  BY DEF FilesSound, FilesTypeOK, Jobs, Docs, Absent, Nothing
<1>3. job.op = "uninstall" => n.ours = {}
  BY <1>1 DEF FilesSound, Undone, OnFile, Absent
<1> HIDE DEF n
<1>4. NextAgent \in Jobs /\ Busy  BY <1>1, NextAgentParts DEF FilesSound, Busy
<1>5. \A a \in HookFiles : doc'[a] = IF a = Current THEN n ELSE doc[a]
  BY <1>1 DEF FilesSound, FilesTypeOK
<1>6. FilesTypeOK'  BY <1>1, <1>2, <1>4 DEF FilesSound, FilesTypeOK, Docs, Jobs
<1>7. OnlyLateEditsLost'
  BY <1>1, <1>5 DEF FilesSound, OnlyLateEditsLost, InBackup, OnFile
<1>8. \A a \in HookFiles : Nothing(doc'[a])  BY <1>2, <1>5 DEF FilesSound
<1>9. \A a \in Agents : job.op = "uninstall" /\ (Clean(a) \/ a = Current) => Clean(a)'
  BY <1>1, <1>3, <1>5 DEF Clean, Agents
<1> QED  BY <1>1, <1>4, <1>6, <1>7, <1>8, <1>9, NextSound

LEMMA MoveAsideSound == ASSUME FilesSound, MoveAside PROVE FilesSound'
<1>1. /\ Current \in Plugins /\ Current \notin HookFiles /\ job.op = "install"
      /\ scan' = scan \ {"prev"} /\ job' = [job EXCEPT !.at = "backup"]
      /\ UNCHANGED <<doc, saved, whole, written, late, edits>>
  BY InstallersAssumption DEF MoveAside, OnPlugin, ownerVars, Aside
<1>2. /\ job' \in Jobs /\ job'.op = job.op /\ job'.names = job.names /\ job'.todo = job.todo
      /\ job'.at = "backup" /\ job'.new = job.new
  BY <1>1 DEF FilesSound, FilesTypeOK, Jobs
<1>3. FilesTypeOK'  BY <1>1, <1>2 DEF FilesSound, FilesTypeOK, Docs, Jobs
<1>4. InBackup' /\ Alone' /\ Undone'  BY <1>1, <1>2 DEF InBackup, Alone, Undone, OnFile
<1> QED  BY <1>1, <1>2, <1>3, <1>4 DEF FilesSound, OnlyLateEditsLost, Nothing

LEMMA MoveCurrentSound == ASSUME FilesSound, MoveCurrent PROVE FilesSound'
<1>1. /\ Current \in Plugins /\ Current \notin HookFiles /\ "prev" \notin scan /\ job.op = "install"
      /\ scan' = scan \ {"now"} /\ job' = [job EXCEPT !.at = "replace"]
      /\ UNCHANGED <<doc, saved, whole, written, late, edits>>
  BY InstallersAssumption DEF MoveCurrent, OnPlugin, ownerVars, FilesSound, Alone
<1>2. /\ job' \in Jobs /\ job'.op = job.op /\ job'.names = job.names /\ job'.todo = job.todo
      /\ job'.at = "replace" /\ job'.new = job.new
  BY <1>1 DEF FilesSound, FilesTypeOK, Jobs
<1>3. FilesTypeOK'  BY <1>1, <1>2 DEF FilesSound, FilesTypeOK, Docs, Jobs
<1>4. Current' = Current  BY <1>2 DEF Current
<1>5. InBackup' /\ Alone' /\ Undone'  BY <1>1, <1>2, <1>4 DEF InBackup, Alone, Undone, OnFile
<1> QED  BY <1>1, <1>2, <1>3, <1>5 DEF FilesSound, OnlyLateEditsLost, Nothing

LEMMA CopyBundleSound ==
  ASSUME FilesSound, CopyBundle
  PROVE  FilesSound' /\ \A b \in scan' \ scan : scan = {}
<1>1. /\ Current \in Plugins /\ Current \notin HookFiles /\ job.todo # <<>> /\ job.at = "replace"
      /\ "prev" \notin scan /\ job.op = "install"
      /\ UNCHANGED <<doc, saved, written, late, edits>>
  BY InstallersAssumption DEF CopyBundle, OnPlugin, ownerVars, FilesSound, Alone
<1>2. OnlyLateEditsLost' /\ \A a \in HookFiles : Nothing(doc'[a])
  BY <1>1 DEF FilesSound, OnlyLateEditsLost
<1>3. CASE "now" \notin scan /\ scan' = scan \cup {"now"} /\ whole' = FALSE /\ job' = job
  <2>1. FilesTypeOK'  BY <1>1, <1>3 DEF FilesSound, FilesTypeOK, Docs, Jobs
  <2>2. InBackup' /\ Alone' /\ Undone'
    BY <1>1, <1>3 DEF FilesSound, InBackup, Alone, Undone, OnFile, OnPlugin, Current
  <2>3. scan = {}  BY <1>1, <1>3 DEF FilesSound, FilesTypeOK
  <2> QED  BY <1>2, <1>3, <2>1, <2>2, <2>3 DEF FilesSound, Nothing
<1>4. CASE whole' = TRUE /\ job' = NextAgent /\ scan' = scan
  <2>1. NextAgent \in Jobs /\ Busy  BY <1>1, NextAgentParts DEF FilesSound, Busy
  <2>2. FilesTypeOK'  BY <1>1, <1>4, <2>1 DEF FilesSound, FilesTypeOK, Docs, Jobs
  <2> QED  BY <1>1, <1>2, <1>4, <2>1, <2>2, NextSound
<1> QED  BY <1>3, <1>4 DEF CopyBundle

LEMMA MoveOutSound == ASSUME FilesSound, MoveOut PROVE FilesSound'
<1>1. /\ Current \in Plugins /\ job.todo # <<>> /\ job.at = "load"
      /\ scan' \subseteq scan /\ job' = (IF scan' = {} THEN NextAgent ELSE job)
      /\ UNCHANGED <<doc, saved, whole, written, late, edits>>
  BY DEF MoveOut, OnPlugin, ownerVars
<1>2. OnlyLateEditsLost' /\ \A a \in HookFiles : Nothing(doc'[a])
  BY <1>1 DEF FilesSound, OnlyLateEditsLost
<1>3. \A a \in Agents : Clean(a) => Clean(a)'  BY <1>1 DEF Clean
<1>4. CASE scan' = {}
  <2>1. NextAgent \in Jobs /\ Busy  BY <1>1, NextAgentParts DEF FilesSound, Busy
  <2>2. FilesTypeOK'  BY <1>1, <1>4, <2>1 DEF FilesSound, FilesTypeOK, Docs, Jobs
  <2>3. \A a \in Agents : a = Current => Clean(a)'  BY <1>1, <1>4 DEF Clean
  <2> QED  BY <1>1, <1>2, <1>3, <1>4, <2>1, <2>2, <2>3, NextSound
<1>5. CASE scan' # {}
  <2>1. job' = job  BY <1>1, <1>5
  <2>2. FilesTypeOK'  BY <1>1, <2>1 DEF FilesSound, FilesTypeOK, Docs, Jobs
  <2>3. InBackup' /\ Alone'  BY <1>1, <2>1 DEF InBackup, Alone, OnFile, OnPlugin
  <2>4. Undone'
    BY <1>1, <1>3, <2>1 DEF FilesSound, FilesTypeOK, Jobs, Undone, OnFile, Busy
  <2> QED  BY <1>2, <2>1, <2>2, <2>3, <2>4 DEF FilesSound, Nothing
<1> QED  BY <1>4, <1>5

LEMMA EditSound == ASSUME FilesSound, NEW a \in HookFiles, Edit(a) PROVE FilesSound'
<1>1. PICK form \in {"json", "broken"} :
        doc' = [doc EXCEPT ![a] = [form |-> form, own |-> edits', ours |-> doc[a].ours]]
  BY DEF Edit
<1>2. /\ edits' = edits + 1 /\ written' = [written EXCEPT ![a] = edits']
      /\ late' = IF OnFile("replace") /\ Current = a THEN late \cup {edits'} ELSE late
      /\ UNCHANGED <<saved, scan, whole, job>>
  BY DEF Edit
<1>3. edits \in Nat  BY DEF FilesSound, FilesTypeOK
<1>4. \A b \in HookFiles : /\ doc'[b].ours = doc[b].ours
                           /\ doc'[b].own = IF b = a THEN edits' ELSE doc[b].own
                           /\ doc'[b].form = IF b = a THEN form ELSE doc[b].form
                           /\ written'[b] = IF b = a THEN edits' ELSE written[b]
  BY <1>1, <1>2 DEF FilesSound, FilesTypeOK
<1>5. FilesTypeOK'
  <2>1. Docs \subseteq Docs' /\ 0..edits \subseteq 0..edits' /\ 1..edits \subseteq 1..edits'
    BY <1>2, <1>3 DEF Docs
  <2>2. job \in Jobs'  BY <2>1 DEF FilesSound, FilesTypeOK, Jobs
  <2>3. doc[a].ours \in SUBSET {"old", "now"}  BY DEF FilesSound, FilesTypeOK, Docs
  <2>4. doc' \in [HookFiles -> Docs']
    BY <1>1, <1>2, <1>3, <2>1, <2>3 DEF FilesSound, FilesTypeOK, Docs
  <2>5. saved' \in [HookFiles -> SUBSET (0..edits')] /\ written' \in [HookFiles -> 0..edits']
        /\ late' \subseteq 1..edits'
    BY <1>2, <1>3, <2>1 DEF FilesSound, FilesTypeOK
  <2> QED  BY <1>2, <1>3, <2>2, <2>4, <2>5 DEF FilesSound, FilesTypeOK
<1>6. \A b \in HookFiles : Nothing(doc'[b])  BY <1>4 DEF FilesSound, Nothing
<1>7. OnlyLateEditsLost'  BY <1>2, <1>4 DEF FilesSound, OnlyLateEditsLost
<1>8. InBackup'
  <2>1. SUFFICES ASSUME OnFile("replace")
                 PROVE  written'[Current] = 0 \/ written'[Current] \in saved[Current] \cup late'
    BY <1>2 DEF InBackup, OnFile, Current
  <2>2. Current \in HookFiles  BY <2>1 DEF OnFile
  <2>3. CASE Current = a  BY <1>2, <1>4, <2>1, <2>3
  <2>4. CASE Current # a
    BY <1>2, <1>4, <2>1, <2>2, <2>4 DEF FilesSound, InBackup
  <2> QED  BY <2>3, <2>4
<1>9. Alone'  BY <1>2 DEF FilesSound, Alone, OnPlugin, Current
<1>10. Undone'
  <2>1. \A b \in job.names : Clean(b)' = Clean(b)
    BY <1>2, <1>4 DEF Clean, FilesSound, FilesTypeOK, Jobs, Agents
  <2> QED  BY <1>2, <2>1 DEF FilesSound, Undone, OnFile, Busy, Current
<1> QED  BY <1>2, <1>5, <1>6, <1>7, <1>8, <1>9, <1>10 DEF FilesSound

LEMMA FilesStep ==
  ASSUME FilesSound, FilesMove
  PROVE  FilesSound' /\ \A b \in scan' \ scan : scan = {}
<1>1. CASE UNCHANGED filesVars
  BY <1>1 DEF filesVars, FilesSound, FilesTypeOK, Docs, Jobs, OnlyLateEditsLost, Nothing,
              InBackup, Alone, Undone, OnFile, OnPlugin, Current, Busy, Clean
<1>2. CASE Typed  BY <1>2, TypedSound DEF Typed, Install, Uninstall, Begin
<1>3. CASE Load  BY <1>3, LoadSound DEF Load
<1>4. CASE Backup  BY <1>4, BackupSound DEF Backup
<1>5. CASE Replace  BY <1>5, ReplaceSound DEF Replace
<1>6. CASE MoveAside  BY <1>6, MoveAsideSound DEF MoveAside
<1>7. CASE MoveCurrent  BY <1>7, MoveCurrentSound DEF MoveCurrent
<1>8. CASE CopyBundle  BY <1>8, CopyBundleSound
<1>9. CASE MoveOut
  <2>1. scan' \subseteq scan  BY <1>9 DEF MoveOut
  <2> QED  BY <1>9, <2>1, MoveOutSound
<1>10. CASE KeepDaemon \/ LetDaemonGo \/ Interrupted
  BY <1>10, DoneSound DEF KeepDaemon, LetDaemonGo, Interrupted, ownerVars
<1>11. ASSUME NEW a \in HookFiles, Edit(a) PROVE FilesSound' /\ scan' = scan
  BY <1>11, EditSound DEF Edit
<1> QED
  BY <1>1, <1>2, <1>3, <1>4, <1>5, <1>6, <1>7, <1>8, <1>9, <1>10, <1>11 DEF FilesMove, FileStep

(* Nobody posts when the daemon is let go, but for the bundles that are overlooked. *)
LEMMA NobodyPosts ==
  ASSUME FilesSound, LetDaemonGo PROVE \A a \in Agents : Posts(a) => Overlooked(a)
<1>1. /\ job.at = "daemon" /\ Remaining = {} /\ job.todo = <<>> /\ job.op = "uninstall"
  BY DEF LetDaemonGo, FilesSound, Undone
<1>2. ASSUME NEW a \in Agents, a \notin job.names, Posts(a) PROVE Overlooked(a)
  <2>1. ~ AdapterInstalled(a)  BY <1>1, <1>2 DEF Remaining
  <2>2. a \in Plugins  BY <1>2, <2>1 DEF AdapterInstalled, Posts
  <2>3. scan \subseteq {"now", "prev"} /\ scan # {} /\ "now" \notin scan
    BY <1>2, <2>1, <2>2 DEF AdapterInstalled, Posts, FilesSound, FilesTypeOK
  <2> QED  BY <1>2, <2>2, <2>3 DEF Overlooked
<1>3. ASSUME NEW a \in Agents, a \in job.names PROVE ~Posts(a)
  <2>1. ToSet(job.todo) = {}  BY <1>1 DEF ToSet
  <2>2. Clean(a)  BY <1>1, <1>3, <2>1 DEF FilesSound, Undone, Busy
  <2> QED  BY <2>2 DEF Clean, Posts
<1> QED  BY <1>2, <1>3

LEMMA FilesInvariant == InitHost /\ [][NextHost]_hostVars => []FilesSound
<1>1. InitHost => FilesSound  BY FilesInit DEF InitHost
<1>2. FilesSound /\ [NextHost]_hostVars => FilesSound'  BY HostMovesFiles, FilesStep
<1> QED  BY <1>1, <1>2, PTL

(* The owner's last version of a hook file is in the file or in a backup,  *)
(* whatever commands, edits and interruptions fall, unless it was written  *)
(* after the backup of a command under way (backup.write_json).            *)
THEOREM EditsKept == FairHost => []OnlyLateEditsLost
<1>1. FilesSound => OnlyLateEditsLost  BY DEF FilesSound
<1> QED  BY <1>1, FilesInvariant, PTL DEF FairHost

(* No command puts a bundle beside another one (install_qwenpaw). *)
THEOREM OneBundle == FairHost => NeverASecondBundle
<1>1. FilesSound /\ [NextHost]_hostVars => [\A b \in scan' \ scan : scan = {}]_filesVars
  BY HostMovesFiles, FilesStep
<1> QED  BY <1>1, FilesInvariant, PTL DEF FairHost, NeverASecondBundle

(* An uninstall lets the daemon go only when no adapter posts to it, but   *)
(* for older bundles of a plugin it is not about (cli uninstall,           *)
(* strip_hook_entries).                                                    *)
THEOREM DaemonLast == FairHost => DaemonGoesLast
<1>1. FilesSound => [LetDaemonGo => \A a \in Agents : Posts(a) => Overlooked(a)]_filesVars
  BY NobodyPosts
<1> QED  BY <1>1, FilesInvariant, PTL DEF FairHost, DaemonGoesLast

(* The files keep their types (Installers). *)
THEOREM FilesTypes == FairHost => []FilesTypeOK
<1>1. FilesSound => FilesTypeOK  BY DEF FilesSound
<1> QED  BY <1>1, FilesInvariant, PTL DEF FairHost

-----------------------------------------------------------------------------
(* A step of the processes, whoever takes it. *)
ProcessMove ==
  \/ \E t \in Terminals : StopReadsPidfile(t)
  \/ \E t \in Terminals, p \in Pids : StartBg(t, p)
  \/ \E t \in Terminals : Command(t)
  \/ \E p \in Pids : StartForeground(p) \/ Processing(p) \/ Die(p) \/ Stranger(p)
  \/ UnitStart
  \/ UNCHANGED vars

LEMMA HostMovesProcesses == [NextHost]_hostVars => ProcessMove
BY HostAssumption DEF NextHost, DaemonCommand, Stop, UninstallStopsDaemon, hostVars, ProcessMove

LEMMA EndParts ==
  ASSUME TypeOK, NEW P, End(P)
  PROVE  proc' \in [Pids -> Processes] /\ Live' = Live \ P
BY DEF TypeOK, End, Processes, Live

LEMMA SpawnParts ==
  ASSUME TypeOK, NEW p \in Pids, NEW byUnit \in BOOLEAN, Spawn(p, byUnit)
  PROVE  proc' \in [Pids -> Processes] /\ unitOwned' \subseteq Pids
BY DEF TypeOK, Spawn, Processes

(* What a terminal's command may become. *)
Commands == [at : Steps, pid : Pids \cup {NoPid}, rc : 0..1]

LEMMA CommandParts ==
  /\ \A at \in Steps, p \in Pids \cup {NoPid} :
       At(at, p) \in Commands /\ At(at, p).at = at /\ At(at, p).pid = p
  /\ \A at \in Steps, rc \in 0..1 :
       Ended(at, rc) \in Commands /\ Ended(at, rc).at = at /\ Ended(at, rc).rc = rc
BY DEF Commands, At, Ended

(* A statement is true or false. *)
LEMMA TruthValue == ASSUME NEW x, NEW S PROVE \E n \in BOOLEAN : n = (x \in S)
<1>1. CASE x \in S
  <2>1. TRUE = (x \in S)  BY <1>1
  <2> QED  BY <2>1
<1>2. CASE x \notin S
  <2>1. FALSE = (x \in S)  BY <1>2
  <2> QED  BY <2>1
<1> QED  BY <1>1, <1>2

LEMMA ProcessTypes == ASSUME TypeOK, ProcessMove PROVE TypeOK'
<1> USE DEF TypeOK
<1>1. ASSUME NEW t \in Terminals, StopReadsPidfile(t) PROVE TypeOK'
  <2>1. "kill" \in Steps /\ "ask" \in Steps  BY DEF Steps
  <2>2. cmd' \in [Terminals -> Commands]
    BY <1>1, <2>1, CommandParts DEF StopReadsPidfile, Commands
  <2>3. alone' \subseteq [by : Terminals, named : BOOLEAN]
    <3>1. PICK n \in BOOLEAN : n = (pidfile \in Live)  BY TruthValue
    <3>2. [by |-> t, named |-> n] \in [by : Terminals, named : BOOLEAN]  OBVIOUS
    <3>3. alone' \subseteq {[by |-> t, named |-> n]}  BY <1>1, <3>1 DEF StopReadsPidfile
    <3> QED  BY <3>2, <3>3
  <2> QED  BY <1>1, <2>2, <2>3 DEF StopReadsPidfile, Commands
<1>2. ASSUME NEW t \in Terminals, NEW p \in Pids, StartBg(t, p) PROVE TypeOK'
  <2>1. "open" \in Steps  BY DEF Steps
  <2>2. cmd' \in [Terminals -> Commands]  BY <1>2, <2>1, CommandParts DEF StartBg, Commands
  <2>3. Spawn(p, FALSE) /\ alone' = {} /\ UNCHANGED <<unit, pidfile>>
    BY <1>2 DEF StartBg, ByHand
  <2> QED  BY <2>2, <2>3, SpawnParts DEF Commands
<1>3. ASSUME NEW t \in Terminals, Command(t) PROVE TypeOK'
  <2>1. {"write", "poll", "started", "stopped", "nobody", "ask", "systemctl",
         "signal"} \subseteq Steps
    BY DEF Steps
  <2>2. cmd[t] \in Commands /\ cmd[t].pid \in Pids \cup {NoPid}  BY DEF Commands
  <2>3. ASSUME NEW c \in Commands, cmd' = [cmd EXCEPT ![t] = c],
               proc' \in [Pids -> Processes], unit' \in {"off", "on"},
               pidfile' \in Pids \cup {NoPid, Empty}, UNCHANGED <<unitOwned, alone>>
        PROVE  TypeOK'
    <3>1. cmd' \in [Terminals -> Commands]  BY <2>3 DEF Commands
    <3> QED  BY <2>3, <3>1 DEF Commands
  <2>4. CASE OpenPidfile(t)
    <3>1. [cmd[t] EXCEPT !.at = "write"] \in Commands  BY <2>1, <2>2 DEF Commands
    <3> QED  BY <2>3, <2>4, <3>1 DEF OpenPidfile
  <2>5. CASE WritePidfile(t)
    <3>1. [cmd[t] EXCEPT !.at = "poll"] \in Commands  BY <2>1, <2>2 DEF Commands
    <3> QED  BY <2>2, <2>3, <2>5, <3>1 DEF WritePidfile
  <2>6. CASE ChildExited(t)
    <3>1. proc' \in [Pids -> Processes]  BY <2>6 DEF ChildExited, Processes
    <3>2. Ended("started", 1) \in Commands  BY <2>1, CommandParts
    <3> QED  BY <2>3, <2>6, <3>1, <3>2 DEF ChildExited
  <2>7. CASE ChildReady(t)
    <3>1. PICK rc \in {0, 1} : cmd' = [cmd EXCEPT ![t] = Ended("started", rc)]
      BY <2>7 DEF ChildReady
    <3>2. Ended("started", rc) \in Commands  BY <2>1, CommandParts
    <3> QED  BY <2>3, <2>7, <3>1, <3>2 DEF ChildReady
  <2>8. CASE StopKills(t)
    <3>1. \E c \in Commands : cmd' = [cmd EXCEPT ![t] = c]
      BY <2>1, <2>8, CommandParts DEF StopKills, NextAfterPidfile
    <3>2. proc' \in [Pids -> Processes] /\ unit' \in {"off", "on"}
      BY <2>8, EndParts DEF StopKills, AfterSigterm
    <3> QED  BY <2>3, <2>8, <3>1, <3>2 DEF StopKills
  <2>9. CASE StopAsks(t)
    <3>1. \E c \in Commands : cmd' = [cmd EXCEPT ![t] = c]
      BY <2>1, <2>9, CommandParts DEF StopAsks, Listening
    <3> QED  BY <2>3, <2>9, <3>1 DEF StopAsks
  <2>10. CASE StopSignals(t)
    <3>1. \E c \in Commands : cmd' = [cmd EXCEPT ![t] = c]
      BY <2>1, <2>10, CommandParts DEF StopSignals
    <3>2. proc' \in [Pids -> Processes] /\ unit' \in {"off", "on"}
      BY <2>10, EndParts DEF StopSignals, AfterSigterm
    <3> QED  BY <2>3, <2>10, <3>1, <3>2 DEF StopSignals
  <2>11. CASE StopSystemctl(t)
    <3>1. \E c \in Commands : cmd' = [cmd EXCEPT ![t] = c]
      BY <2>1, <2>11, CommandParts DEF StopSystemctl
    <3>2. proc' \in [Pids -> Processes] /\ unit' \in {"off", "on"}
      BY <2>11, EndParts DEF StopSystemctl
    <3> QED  BY <2>3, <2>11, <3>1, <3>2 DEF StopSystemctl
  <2> QED
    BY <1>3, <2>4, <2>5, <2>6, <2>7, <2>8, <2>9, <2>10, <2>11 DEF Command
<1>4. ASSUME NEW p \in Pids, StartForeground(p) \/ UnitRestart(p) PROVE TypeOK'
  <2>1. Spawn(p, TRUE) \/ Spawn(p, FALSE)  BY <1>4 DEF StartForeground, UnitRestart
  <2>2. proc' \in [Pids -> Processes] /\ unitOwned' \subseteq Pids  BY <2>1, SpawnParts
  <2> QED  BY <1>4, <2>2 DEF StartForeground, UnitRestart, ByHand
<1>5. ASSUME NEW p \in Pids, Bind(p) PROVE TypeOK'
  <2>1. proc' \in [Pids -> Processes]  BY <1>5, EndParts DEF Bind, Processes
  <2> QED  BY <1>5, <2>1 DEF Bind
<1>6. ASSUME NEW p \in Pids, Die(p) PROVE TypeOK'
  BY <1>6, EndParts DEF Die, AfterSigterm
<1>7. ASSUME NEW p \in Pids, Stranger(p) PROVE TypeOK'
  BY <1>7 DEF Stranger, Processes
<1>8. CASE UnitStart  BY <1>8 DEF UnitStart, ByHand
<1>9. CASE UNCHANGED vars  BY <1>9 DEF vars
<1> QED
  BY <1>1, <1>2, <1>3, <1>4, <1>5, <1>6, <1>7, <1>8, <1>9 DEF ProcessMove, Processing

(* What a stop that is left alone has before it: one daemon, and the way   *)
(* to it, the shortest if the pidfile names it; at its end no daemon and   *)
(* none to come, or it says that it failed or that nobody answered.        *)
Before(t, named, p) ==
  /\ Live = {p} /\ proc[p] = "listening"
  /\ unit # "off" => p \in unitOwned
  /\ cmd[t].at \in {"kill", "ask", "signal", "systemctl"}
  /\ cmd[t].at = "kill" =>
       cmd[t].pid \in Pids /\ (proc[cmd[t].pid] = "free" \/ (cmd[t].pid = p /\ p \notin unitOwned))
  /\ cmd[t].at = "systemctl" => p \in unitOwned
  /\ cmd[t].at = "signal" => cmd[t].pid = p /\ p \notin unitOwned
  /\ named => cmd[t].at = "kill" /\ cmd[t].pid = p

After(t, named) ==
  \/ cmd[t].at = "stopped" /\ (cmd[t].rc = 1 \/ (Live = {} /\ unit = "off"))
  \/ cmd[t].at = "nobody" /\ ~ named

Undisturbed ==
  \A a \in alone : /\ \A u \in Terminals \ {a.by} : Ready(u)
                   /\ After(a.by, a.named) \/ \E p \in Pids : Before(a.by, a.named, p)

LEMMA AfterStops ==
  ASSUME TypeOK, Undisturbed
  PROVE  LoneDaemonStopped
<1>1. ASSUME NEW a \in alone, cmd[a.by] = Ended("stopped", 0)
      PROVE  Live = {} /\ unit = "off"
  <2>1. cmd[a.by].at = "stopped" /\ cmd[a.by].rc = 0  BY <1>1 DEF Ended
  <2> QED  BY <2>1 DEF Undisturbed, After, Before
<1>2. ASSUME NEW a \in alone, cmd[a.by].at = "nobody" PROVE ~ a.named
  BY <1>2 DEF Undisturbed, After, Before
<1> QED  BY <1>1, <1>2 DEF LoneDaemonStopped

(* A stop that reads the pidfile. *)
LEMMA ReadUndisturbed ==
  ASSUME TypeOK, NEW t \in Terminals, StopReadsPidfile(t)
  PROVE  Undisturbed'
<1>0. PICK named \in BOOLEAN : named = (pidfile \in Live)  BY TruthValue
<1> DEFINE a == [by |-> t, named |-> named]
<1>1. /\ cmd' = [cmd EXCEPT ![t] = IF pidfile \in Pids THEN At("kill", pidfile) ELSE At("ask", NoPid)]
      /\ alone' = (IF Lone(t) THEN {a} ELSE {})
      /\ UNCHANGED <<proc, unitOwned, unit>>
  BY <1>0 DEF StopReadsPidfile
<1>2. a.by = t /\ a.named = named  OBVIOUS
<1> HIDE DEF a
<1>3. SUFFICES ASSUME Lone(t)
               PROVE  /\ \A u \in Terminals \ {t} : Ready(u)'
                      /\ \E p \in Pids : Before(t, named, p)'
  <2>1. alone' = {} \/ alone' = {a}  BY <1>1
  <2>2. Lone(t) \/ alone' = {}  BY <1>1
  <2>3. ASSUME \A u \in Terminals \ {t} : Ready(u)', \E p \in Pids : Before(t, named, p)',
               alone' = {a}
        PROVE  Undisturbed'
    BY <1>2, <2>3 DEF Undisturbed
  <2>4. alone' = {} => Undisturbed'  BY DEF Undisturbed
  <2> QED  BY <1>2, <2>1, <2>2, <2>3, <2>4
<1>4. \A u \in Terminals \ {t} : Ready(u)'  BY <1>1, <1>3 DEF Lone, Ready, TypeOK
<1>5. IsFiniteSet(Live)  BY LifecycleAssumption, FS_Subset DEF Live
<1>6. PICK p : Live = {p}  BY <1>3, <1>5, FS_Singleton DEF Lone
<1>7. p \in Pids /\ proc[p] = "listening" /\ Live' = {p}
  BY <1>1, <1>3, <1>6 DEF Lone, Live, Listening
<1>8. unit # "off" => p \in unitOwned  BY <1>3, <1>6 DEF Lone
<1>9. pidfile \in Pids => proc[pidfile] = "free" \/ (pidfile = p /\ p \notin unitOwned)
  BY <1>3, <1>6 DEF Lone
<1>10. cmd'[t] = IF pidfile \in Pids THEN At("kill", pidfile) ELSE At("ask", NoPid)
  BY <1>1 DEF TypeOK
<1>11. named => pidfile = p  BY <1>0, <1>6
<1>12. Before(t, named, p)'
  <2>1. named => cmd'[t].at = "kill" /\ cmd'[t].pid = p
    BY <1>7, <1>10, <1>11 DEF At
  <2>2. /\ cmd'[t].at \in {"kill", "ask"}
        /\ cmd'[t].at = "kill" => pidfile \in Pids /\ cmd'[t].pid = pidfile
    BY <1>10 DEF At
  <2>3. pidfile' = NoPid /\ NoPid \notin Pids /\ Live' \subseteq Pids
    BY LifecycleAssumption DEF StopReadsPidfile, Live
  <2> QED  BY <1>1, <1>7, <1>8, <1>9, <2>1, <2>2, <2>3 DEF Before
<1> QED  BY <1>4, <1>7, <1>12

(* A step of its own of the stop that is left alone. *)
LEMMA CommandUndisturbed ==
  ASSUME TypeOK, Undisturbed, NEW u \in Terminals, Command(u)
  PROVE  Undisturbed'
<1>1. alone' = alone /\ unitOwned' = unitOwned
  BY DEF Command, OpenPidfile, WritePidfile, ChildExited, ChildReady, StopKills, StopAsks,
         StopSignals, StopSystemctl
<1> SUFFICES ASSUME NEW t \in Terminals, NEW named \in BOOLEAN,
                    \A v \in Terminals \ {t} : Ready(v),
                    After(t, named) \/ \E p \in Pids : Before(t, named, p)
             PROVE  /\ \A v \in Terminals \ {t} : Ready(v)'
                    /\ After(t, named)' \/ \E p \in Pids : Before(t, named, p)'
  <2>1. \A a \in alone : a.by \in Terminals /\ a.named \in BOOLEAN  BY DEF TypeOK
  <2> QED  BY <1>1, <2>1 DEF Undisturbed
<1>2. ~Ready(u)
  BY DEF Ready, Command, OpenPidfile, WritePidfile, ChildExited, ChildReady, StopKills, StopAsks,
         StopSignals, StopSystemctl
<1>3. u = t /\ \A v \in Terminals \ {t} : Ready(v)  BY <1>2
<1>4. PICK p \in Pids : Before(t, named, p)
  BY <1>2, <1>3 DEF After, Ready
<1>5. \A v \in Terminals : v # t => cmd'[v] = cmd[v]
  BY <1>3 DEF TypeOK, Command, OpenPidfile, WritePidfile, ChildExited, ChildReady, StopKills,
              StopAsks, StopSignals, StopSystemctl
<1>6. \A v \in Terminals \ {t} : Ready(v)'  BY <1>3, <1>5 DEF Ready
<1>7. Live = {p} /\ p \notin Live \ {p} /\ Live \ {p} = {}  BY <1>4 DEF Before
<1>8. ASSUME NEW P, End(P), p \in P PROVE Live' = {}
  BY <1>7, <1>8, EndParts
<1>9. ASSUME NEW c, cmd' = [cmd EXCEPT ![t] = c], c.at = "stopped", c.rc = 1 PROVE After(t, named)'
  BY <1>3, <1>9 DEF TypeOK, After
<1>10. ASSUME NEW c, cmd' = [cmd EXCEPT ![t] = c], c.at = "stopped", Live' = {}, unit' = "off"
       PROVE  After(t, named)'
  BY <1>3, <1>10 DEF TypeOK, After
<1>11. ASSUME NEW c, cmd' = [cmd EXCEPT ![t] = c], c.at \in {"ask", "systemctl", "signal"},
              c.at = "systemctl" => p \in unitOwned,
              c.at = "signal" => c.pid = p /\ p \notin unitOwned,
              ~ named, UNCHANGED <<proc, unit>>
       PROVE  Before(t, named, p)'
  <2>1. cmd'[t] = c /\ Live' = Live  BY <1>3, <1>11 DEF TypeOK, Live
  <2> QED  BY <1>1, <1>4, <1>11, <2>1 DEF Before
<1>12. CASE StopKills(t)
  <2> DEFINE q == cmd[t].pid
  <2>1. q \in Pids /\ (proc[q] = "free" \/ (q = p /\ p \notin unitOwned /\ proc[q] = "listening"))
    BY <1>4, <1>12 DEF Before, StopKills
  <2>2. CASE proc[q] = "free"
    <3>1. cmd' = [cmd EXCEPT ![t] = At("ask", NoPid)] /\ UNCHANGED <<proc, unit>>
      BY <1>12, <2>2 DEF StopKills, NextAfterPidfile
    <3>2. At("ask", NoPid).at = "ask"  BY DEF At
    <3>3. ~ named  BY <1>4, <2>2 DEF Before
    <3> QED  BY <1>6, <1>11, <3>1, <3>2, <3>3
  <2>3. CASE proc[q] = "listening"
    <3>1. q = p /\ p \notin unitOwned  BY <2>1, <2>3
    <3>2. End({p}) /\ unit' = unit /\ cmd' = [cmd EXCEPT ![t] = Ended("stopped", 0)]
      BY <1>12, <2>3, <3>1 DEF StopKills, AfterSigterm
    <3>3. unit = "off"  BY <1>4, <3>1 DEF Before
    <3>4. Ended("stopped", 0).at = "stopped"  BY DEF Ended
    <3> QED  BY <1>6, <1>8, <1>10, <3>2, <3>3, <3>4
  <2> QED  BY <2>1, <2>2, <2>3
<1>13. CASE StopAsks(t)
  <2>1. Listening = {p}  BY <1>4 DEF Before, Live, Listening
  <2>2. /\ \/ cmd' = [cmd EXCEPT ![t] = Ended("nobody", 0)]
           \/ cmd' = [cmd EXCEPT ![t] = IF p \in unitOwned THEN At("systemctl", NoPid)
                                        ELSE At("signal", p)]
        /\ UNCHANGED <<proc, unit>>
    BY <1>13, <2>1 DEF StopAsks
  <2>3. At("systemctl", NoPid).at = "systemctl" /\ At("signal", p).at = "signal"
        /\ At("signal", p).pid = p
    BY DEF At
  <2>4. ~ named  BY <1>4, <1>13 DEF Before, StopAsks
  <2>5. CASE cmd' = [cmd EXCEPT ![t] = Ended("nobody", 0)]
    <3>1. Ended("nobody", 0).at = "nobody"  BY DEF Ended
    <3>2. After(t, named)'  BY <1>3, <2>4, <2>5, <3>1 DEF TypeOK, After
    <3> QED  BY <1>6, <3>2
  <2>6. CASE cmd' = [cmd EXCEPT ![t] = IF p \in unitOwned THEN At("systemctl", NoPid)
                                       ELSE At("signal", p)]
    <3>1. CASE p \in unitOwned  BY <1>6, <1>11, <2>2, <2>3, <2>4, <2>6, <3>1
    <3>2. CASE p \notin unitOwned  BY <1>6, <1>11, <2>2, <2>3, <2>4, <2>6, <3>2
    <3> QED  BY <3>1, <3>2
  <2> QED  BY <2>2, <2>5, <2>6
<1>14. CASE StopSignals(t)
  <2>1. cmd[t].pid = p /\ p \notin unitOwned /\ proc[p] = "listening" /\ unit = "off"
    BY <1>4, <1>14 DEF Before, StopSignals
  <2>2. /\ End({p} \ {q \in Pids : proc[q] = "exited"}) /\ unit' = unit
        /\ cmd' = [cmd EXCEPT ![t] = Ended("stopped", 0)]
    BY <1>14, <2>1 DEF StopSignals, AfterSigterm
  <2>3. p \in {p} \ {q \in Pids : proc[q] = "exited"}  BY <2>1
  <2>4. Ended("stopped", 0).at = "stopped"  BY DEF Ended
  <2>5. Live' = {}  BY <1>8, <2>2, <2>3
  <2> QED  BY <1>6, <1>10, <2>1, <2>2, <2>4, <2>5
<1>15. CASE StopSystemctl(t)
  <2>1. p \in unitOwned  BY <1>4, <1>15 DEF Before, StopSystemctl
  <2>2. Ended("stopped", 0).at = "stopped" /\ Ended("stopped", 1).at = "stopped"
        /\ Ended("stopped", 1).rc = 1
    BY DEF Ended
  <2>3. p \in Live \cap unitOwned  BY <1>7, <2>1
  <2>4. CASE unit' = "off" /\ End(Live \cap unitOwned) /\ cmd' = [cmd EXCEPT ![t] = Ended("stopped", 0)]
    <3>1. Live' = {}  BY <1>8, <2>3, <2>4
    <3> QED  BY <1>6, <1>10, <2>2, <2>4, <3>1
  <2>5. CASE cmd' = [cmd EXCEPT ![t] = Ended("stopped", 1)]
    BY <1>6, <1>9, <2>2, <2>5
  <2> QED  BY <1>15, <2>4, <2>5 DEF StopSystemctl
<1> QED
  BY <1>3, <1>4, <1>12, <1>13, <1>14, <1>15
     DEF Before, Command, OpenPidfile, WritePidfile, ChildExited, ChildReady

(* Daemons come up and the unit brings one: not while it matters. *)
LEMMA ProcessingUndisturbed ==
  ASSUME TypeOK, Undisturbed, NEW p \in Pids, Processing(p)
  PROVE  Undisturbed'
<1>1. /\ UNCHANGED <<unit, cmd, alone>> /\ \E q \in Pids : q = p
      /\ Bind(p) => proc[p] = "starting"
      /\ UnitRestart(p) => unit = "on" /\ Live \cap unitOwned = {}
  BY DEF Processing, Bind, UnitRestart
<1>2. ASSUME NEW a \in alone PROVE ~\E q \in Pids : Before(a.by, a.named, q)
  <2>1. SUFFICES ASSUME NEW q \in Pids, Before(a.by, a.named, q) PROVE FALSE  OBVIOUS
  <2>2. CASE Bind(p)
    <3>1. p \in Live /\ proc[p] = "starting"  BY <1>1, <2>2 DEF Live
    <3> QED  BY <2>1, <3>1 DEF Before
  <2>3. CASE UnitRestart(p)  BY <1>1, <2>1, <2>3 DEF Before
  <2> QED  BY <2>2, <2>3 DEF Processing
<1>3. ASSUME NEW a \in alone, After(a.by, a.named), cmd[a.by].at = "stopped"
      PROVE  cmd[a.by].rc = 1
  <2>1. SUFFICES ASSUME Live = {}, unit = "off" PROVE FALSE  BY <1>3 DEF After
  <2>2. p \notin Live  BY <2>1
  <2> QED  BY <1>1, <2>1, <2>2 DEF Processing, Live
<1> QED  BY <1>1, <1>2, <1>3 DEF Undisturbed, After, Ready

LEMMA ProcessUndisturbed ==
  ASSUME TypeOK, Undisturbed, ProcessMove
  PROVE  Undisturbed'
<1>1. ASSUME alone' = {} PROVE Undisturbed'  BY <1>1 DEF Undisturbed
<1>2. ASSUME NEW t \in Terminals, NEW p \in Pids, StartBg(t, p) PROVE Undisturbed'
  BY <1>1, <1>2 DEF StartBg, ByHand
<1>3. ASSUME NEW p \in Pids, StartForeground(p) \/ Die(p) \/ Stranger(p) PROVE Undisturbed'
  BY <1>1, <1>3 DEF StartForeground, Die, Stranger, ByHand
<1>4. CASE UnitStart  BY <1>1, <1>4 DEF UnitStart, ByHand
<1>5. CASE UNCHANGED vars  BY <1>5 DEF vars, Undisturbed, Before, After, Live, Ready
<1> QED
  BY <1>2, <1>3, <1>4, <1>5, ReadUndisturbed, CommandUndisturbed, ProcessingUndisturbed
     DEF ProcessMove

LEMMA ProcessInit == InitHost => TypeOK /\ Undisturbed
<1> SUFFICES ASSUME InitHost PROVE TypeOK /\ Undisturbed  OBVIOUS
<1>1. Idle \in Commands  BY DEF Idle, Commands, Steps
<1> QED  BY <1>1 DEF InitHost, Init, TypeOK, Undisturbed, Processes, Commands

LEMMA ProcessInvariant == InitHost /\ [][NextHost]_hostVars => [](TypeOK /\ Undisturbed)
<1>1. TypeOK /\ Undisturbed /\ [NextHost]_hostVars => (TypeOK /\ Undisturbed)'
  BY HostMovesProcesses, ProcessTypes, ProcessUndisturbed
<1> QED  BY <1>1, ProcessInit, PTL

(* The processes keep their types (Lifecycle). *)
THEOREM ProcessesTyped == FairHost => []TypeOK
BY ProcessInvariant, PTL DEF FairHost

(* A stop that met the daemon as the only one, listening, and that nobody  *)
(* disturbed, reports success only with no daemon left and none to come,   *)
(* however it had been started (cli._stop_daemon).                         *)
THEOREM StopMeansStopped == FairHost => []LoneDaemonStopped
BY AfterStops, ProcessInvariant, PTL DEF FairHost
=============================================================================
