----------------------------- MODULE Installers -----------------------------
(***************************************************************************)
(* `shepherd install` and `shepherd uninstall`: edits of files that belong *)
(* to somebody else.  The hook files of Claude Code and Codex are read,    *)
(* backed up and replaced, the QwenPaw plugin is moved in and out of the   *)
(* directory its host scans, while their owner may write them at any time. *)
(*                                                                         *)
(* Of a file only two things are told apart: the version of what its owner *)
(* wrote, and the entries that mention shepherd-hook, in their present or  *)
(* in an older shape.  Backups of one second have names of their own.      *)
(***************************************************************************)
EXTENDS Naturals, FiniteSets, Sequences, SequencesExt

CONSTANTS
  HookFiles,          \* {"claude", "codex"}
  Plugins,            \* {"qwenpaw"}
  Mentions            \* versions of the owner's text that say "shepherd"

ASSUME InstallersAssumption ==
  HookFiles \cap Plugins = {} /\ {"qwenpaw", "claude", "codex"} \subseteq HookFiles \cup Plugins

VARIABLES
  doc,                \* per hook file: its content
  saved,              \* per hook file: the owner's versions among its backups
  written,            \* per hook file: the owner's last version
  late,               \* versions written after the backup of a replacement under way
  scan,               \* bundles in the plugin directory: "now", "prev"
  whole,              \* the bundle "now" has all its files
  job,                \* the command in progress
  edits,              \* how often owners have written
  quota               \* bound: commands, edits and interruptions to come

filesVars == <<doc, saved, written, late, scan, whole, job, edits, quota>>
ownerVars == <<written, late, edits>>

Agents == HookFiles \cup Plugins
Absent == [form |-> "absent", own |-> 0, ours |-> {}]
NoJob == [op |-> "none", names |-> {}, todo |-> <<>>, at |-> "done", new |-> Absent]

Busy == job.at # "done"
Current == Head(job.todo)
OnFile(step) == job.at = step /\ job.todo # <<>> /\ Current \in HookFiles
OnPlugin(step) == job.at = step /\ job.todo # <<>> /\ Current \in Plugins

NextAgent == [job EXCEPT !.todo = Tail(@), !.new = Absent,
                         !.at = IF Len(job.todo) > 1 THEN "load"
                                ELSE IF job.op = "uninstall" THEN "daemon" ELSE "done"]
Finished == [job EXCEPT !.at = "done", !.todo = <<>>, !.new = Absent]

(* What the host still runs of ours: the entries of a file that parses; of *)
(* a plugin, every bundle in its directory, whatever release it is of.     *)
Posts(a) == IF a \in Plugins THEN scan # {} ELSE doc[a].form = "json" /\ doc[a].ours # {}

(* cli._adapter_installed: the word in the text, or the directory. *)
AdapterInstalled(a) ==
  IF a \in Plugins THEN "now" \in scan
  ELSE doc[a].form # "absent" /\ (doc[a].ours # {} \/ doc[a].own \in Mentions)

-----------------------------------------------------------------------------
Use(what) == quota[what] > 0 /\ quota' = [quota EXCEPT ![what] = @ - 1]

Begin(op, names) ==
  /\ ~Busy /\ Use("commands")
  /\ job' = [op |-> op, names |-> ToSet(names), todo |-> names, at |-> "load", new |-> Absent]
  /\ UNCHANGED <<doc, saved, scan, whole, ownerVars>>

Install(a) == Begin("install", <<a>>)
Uninstall(names) == Begin("uninstall", names)

(* install_claude drops older shapes of its entries, install_codex only    *)
(* looks for the present one.                                              *)
WithOurs(a, d) ==
  [form |-> "json", own |-> d.own, ours |-> {"now"} \cup IF a = "codex" THEN d.ours ELSE {}]

\* Mutation: only entries of the present shape are taken out.
StrippedExactly(d) == [d EXCEPT !.ours = @ \ {"now"}]
Stripped(d) == [d EXCEPT !.ours = {}]

(* load_json_or_raise: a file that does not parse ends the command. *)
Load ==
  /\ OnFile("load")
  /\ LET d == doc[Current] IN
     job' = CASE d.form = "broken" -> Finished
              [] d.form # "broken" /\ job.op = "install" ->
                   [job EXCEPT !.at = "backup", !.new = WithOurs(Current, d)]
              [] OTHER ->
                   IF d.ours = {} THEN NextAgent ELSE [job EXCEPT !.at = "backup", !.new = Stripped(d)]
  /\ UNCHANGED <<doc, saved, scan, whole, quota, ownerVars>>

\* Mutation: what was read is what is kept.
KeptOfLoaded == job.new.own
Kept == doc[Current].own

(* backup: a copy of the file as it is now. *)
Backup ==
  /\ OnFile("backup")
  /\ saved' = IF doc[Current].form = "absent" THEN saved
              ELSE [saved EXCEPT ![Current] = @ \cup {Kept}]
  /\ job' = [job EXCEPT !.at = "replace"]
  /\ UNCHANGED <<doc, scan, whole, quota, ownerVars>>

(* tmp.replace, or unlink when nothing is left of an uninstalled file. *)
Replace ==
  /\ OnFile("replace")
  /\ doc' = [doc EXCEPT ![Current] =
       IF job.op = "uninstall" /\ job.new.own = 0 THEN Absent ELSE job.new]
  /\ job' = NextAgent
  /\ UNCHANGED <<saved, scan, whole, quota, ownerVars>>

-----------------------------------------------------------------------------
\* Mutation: copies left by an older release stay where they are.
AsideKept == {}
Aside == {"prev"}

(* install_qwenpaw: stale copies out, the present bundle out, the copy in. *)
MoveAside ==
  /\ OnPlugin("load") /\ job.op = "install"
  /\ scan' = scan \ Aside /\ job' = [job EXCEPT !.at = "backup"]
  /\ UNCHANGED <<doc, saved, whole, quota, ownerVars>>
MoveCurrent ==
  /\ OnPlugin("backup")
  /\ scan' = scan \ {"now"} /\ job' = [job EXCEPT !.at = "replace"]
  /\ UNCHANGED <<doc, saved, whole, quota, ownerVars>>
CopyBundle ==
  /\ OnPlugin("replace")
  /\ \/ "now" \notin scan /\ scan' = scan \cup {"now"} /\ whole' = FALSE /\ job' = job
     \/ "now" \in scan /\ whole' = TRUE /\ job' = NextAgent /\ scan' = scan
  /\ UNCHANGED <<doc, saved, quota, ownerVars>>

(* uninstall_qwenpaw: every bundle out, one by one and "now" first. *)
MoveOut ==
  /\ OnPlugin("load") /\ job.op = "uninstall"
  /\ scan' = IF "now" \in scan THEN scan \ {"now"} ELSE {}
  /\ job' = IF scan' = {} THEN NextAgent ELSE job
  /\ UNCHANGED <<doc, saved, whole, quota, ownerVars>>

-----------------------------------------------------------------------------
(* The end of an uninstall. *)
Remaining == {a \in Agents \ job.names : AdapterInstalled(a)}
KeepDaemon ==
  /\ job.at = "daemon" /\ Remaining # {}
  /\ job' = Finished
  /\ UNCHANGED <<doc, saved, scan, whole, quota, ownerVars>>
LetDaemonGo ==
  /\ job.at = "daemon" /\ Remaining = {}
  /\ job' = Finished
  /\ UNCHANGED <<doc, saved, scan, whole, quota, ownerVars>>

(* The command is interrupted, or one of its calls raises. *)
Interrupted ==
  /\ Busy /\ job.at # "daemon" /\ Use("interrupts")
  /\ job' = Finished
  /\ UNCHANGED <<doc, saved, scan, whole, ownerVars>>

(* The owner, or the host itself, writes the file: it keeps the entries    *)
(* that are there, and may leave text that does not parse.                 *)
Edit(a) ==
  /\ Use("edits") /\ edits' = edits + 1
  /\ \E form \in {"json", "broken"} :
       doc' = [doc EXCEPT ![a] = [form |-> form, own |-> edits', ours |-> @.ours]]
  /\ written' = [written EXCEPT ![a] = edits']
  /\ late' = IF OnFile("replace") /\ Current = a THEN late \cup {edits'} ELSE late
  /\ UNCHANGED <<saved, scan, whole, job>>

-----------------------------------------------------------------------------
InitFiles ==
  /\ doc \in [HookFiles -> {Absent, [form |-> "json", own |-> 0, ours |-> {"old"}]}]
  /\ saved = [a \in HookFiles |-> {}] /\ written = [a \in HookFiles |-> 0]
  /\ late = {} /\ scan \in {{}, {"prev"}, {"now", "prev"}} /\ whole = ("now" \in scan)
  /\ job = NoJob /\ edits = 0

FileStep ==
  \/ Load \/ Backup \/ Replace \/ MoveAside \/ MoveCurrent \/ CopyBundle \/ MoveOut
  \/ KeepDaemon \/ Interrupted \/ \E a \in HookFiles : Edit(a)

Typed ==
  \/ \E a \in Agents : Install(a) \/ Uninstall(<<a>>)
  \/ Uninstall(<<"qwenpaw", "claude", "codex">>)

-----------------------------------------------------------------------------
Docs == [form : {"absent", "json", "broken"}, own : 0..edits, ours : SUBSET {"old", "now"}]

Jobs == [op : {"none", "install", "uninstall"}, names : SUBSET Agents, todo : Seq(Agents),
         at : {"load", "backup", "replace", "daemon", "done"}, new : Docs]

FilesTypeOK ==
  /\ edits \in Nat /\ job \in Jobs
  /\ doc \in [HookFiles -> Docs] /\ saved \in [HookFiles -> SUBSET (0..edits)]
  /\ written \in [HookFiles -> 0..edits] /\ late \subseteq 1..edits
  /\ scan \subseteq {"now", "prev"} /\ whole \in BOOLEAN

(* What the owner last wrote is in the file or in a backup beside it,      *)
(* however commands, edits and interruptions fall, except for an edit made *)
(* between the backup and the replacement of a command under way           *)
(* (backup.write_json, uninstall._finish).                                 *)
OnlyLateEditsLost ==
  \A a \in HookFiles :
    written[a] = 0 \/ written[a] \in {doc[a].own} \cup saved[a] \cup late

(* No command puts a bundle beside another one in the directory its host   *)
(* scans, where the older could win (install_qwenpaw).                     *)
NeverASecondBundle == [][\A b \in scan' \ scan : scan = {}]_filesVars

(* The daemon is let go only when no adapter posts to it any more: none of *)
(* those just uninstalled, in any shape or release, and none of the others *)
(* (strip_hook_entries, _adapter_installed, cli uninstall).  One adapter   *)
(* may be overlooked: a plugin this command was not about, of which only   *)
(* bundles of an older release are left, say by an uninstall of it that    *)
(* was interrupted after the present one went out.                         *)
Overlooked(a) == a \in Plugins \ job.names /\ scan = {"prev"}
DaemonGoesLast == [][LetDaemonGo => \A a \in Agents : Posts(a) => Overlooked(a)]_filesVars
=============================================================================
