------------------------------- MODULE Upkeep -------------------------------
(***************************************************************************)
(* An initialised project kept by qsdev: `enable` and `disable` of tools,  *)
(* `update`, `repair` and `teardown` changing the generated files one by   *)
(* one and then what is recorded of them (state file, answers, committed   *)
(* config), while the developer edits and deletes files, writes fail and   *)
(* commands die midway (addons/devinit, internal/repair, internal/teardown,*)
(* internal/toolreg).                                                      *)
(*                                                                         *)
(* One command runs at a time.  Each file step is one read, decision and   *)
(* write; between two steps the developer may act.  The committed manifest,*)
(* releases and joins are in Lifecycle.                                    *)
(***************************************************************************)
EXTENDS UpkeepPlan, Sequences

CONSTANTS
    AlwaysOn,    \* tools enforced with Claude Code unless the config opts out
    Rank,        \* [Paths -> Nat]: position in path order
    KeepBackups, \* backups kept per path
    MaxFaults,   \* bound: failed writes and deaths in one behaviour
    MaxChanges   \* bound: user edits and deletions in one behaviour

ASSUME UpkeepAssumption ==
    /\ AlwaysOn \subseteq Registry
    /\ Rank \in [Paths -> Nat]
    /\ KeepBackups \in Nat \ {0}
    /\ MaxFaults \in Nat /\ MaxChanges \in Nat

VARIABLES
    disk,      \* content of each generated path
    sidecar,   \* content of each <path>.new
    backups,   \* repair's backups of each path, oldest first
    state,     \* the init state file's entries
    present,   \* which of qsdev's own files exist
    answers,   \* the answers file: tools that are on, and Claude Code
    optOut,    \* always-on tools the committed config has off
    faults,    \* failed writes and deaths so far
    changes,   \* user changes so far
    op,        \* the running command, "none" when idle
    on,        \* the tools it generates for
    target,    \* the tool it enables or disables
    force,     \* its --force
    pc,        \* what it does next
    plan,      \* its plan
    todo,      \* paths it has still to handle
    out,       \* entries of the files it has written; teardown: all it loaded
    dropped,   \* paths it forgets
    failed,    \* paths it failed on
    fresh,     \* history: paths the user changed while the command ran
    torn,      \* history: paths a command that died had handled, or a
               \* teardown left something in
    touched    \* history: paths the user changed since qsdev wrote them

fileVars   == <<disk, sidecar, backups>>
recordVars == <<state, present, answers, optOut>>
boundVars  == <<faults, changes>>
startVars  == <<op, on, target, force>>
cmdVars    == <<startVars, pc, plan, todo, out, dropped, failed>>
vars       == <<fileVars, recordVars, boundVars, cmdVars, fresh, torn, touched>>

OwnFiles == {"state", "answers", "config"}
Ops == {"none", "enable", "disable", "update", "repair", "teardown"}
Pcs == {"idle", "files", "record", "clean", "dirs", "answers", "config", "finish"}
Actions == PlanActions \cup {"write", "delete", "strip", "repair", "clean"}

NoPlan    == [p \in Paths |-> "none"]
NoContent == [p \in Paths |-> Absent]
NoEntries == [p \in Paths |-> Untracked]

\* loadLifecycleAnswers: the answers, none when the file is missing; a committed
\* config keeps Claude Code on, and with it every always-on tool the config does
\* not opt out of.
Effective ==
    LET chosen == answers \cup (IF "config" \in present THEN {ClaudeCode} ELSE {})
    IN  chosen \cup (IF ClaudeCode \in chosen THEN AlwaysOn \ optOut ELSE {})

Fresh(p, tools) == IF Output(p, tools) = 0 THEN Absent ELSE Gen(Output(p, tools))

\* A project `init` has just set up (Lifecycle), with Claude Code and any tools on.
Init ==
    /\ answers \in {S \in SUBSET Choices : AlwaysOn \cup {ClaudeCode} \subseteq S}
    /\ optOut = {}
    /\ disk = [p \in Paths |-> Fresh(p, answers)]
    /\ state = [p \in Paths |->
                  IF p \in Produced(answers)
                  THEN RecordFile(p, disk[p], disk[p], Owner[p]) ELSE Untracked]
    /\ sidecar = NoContent /\ backups = [p \in Paths |-> <<>>]
    /\ present = OwnFiles
    /\ faults = 0 /\ changes = 0
    /\ op = "none" /\ on = {} /\ target = NoTool /\ force = FALSE /\ pc = "idle"
    /\ plan = NoPlan /\ todo = {} /\ out = NoEntries /\ dropped = {} /\ failed = {}
    /\ fresh = {} /\ torn = {} /\ touched = {}

-----------------------------------------------------------------------------
(* Starting a command. *)

\* RequireJoined refuses a committed config without local state.
NeedsJoin == "config" \in present /\ "state" \notin present

Begin(o, tools, t, f, pl, gone) ==
    /\ op = "none" /\ ~NeedsJoin
    /\ op' = o /\ on' = tools /\ target' = t /\ force' = f /\ pc' = "files"
    /\ plan' = pl /\ todo' = {p \in Paths : pl[p] # "none"}
    /\ out' = IF o = "teardown" THEN state ELSE NoEntries
    /\ dropped' = gone /\ failed' = {} /\ fresh' = {}
    /\ UNCHANGED <<fileVars, recordVars, boundVars, torn, touched>>

\* runEnable
StartEnable(t, f) ==
    LET tools == Effective \cup {t}
    IN  /\ t \notin Effective
        /\ ~EnableRefused(t, state, disk, tools, f)
        /\ Begin("enable", tools, t, f, PlanEnable(t, state, disk, tools), {})

\* A disable that deletes files the user changed.
StartDisableUnchecked(t, f) ==
    LET tools == Effective \ {t}
    IN  /\ t \in Effective
        /\ t \in AlwaysOn => f /\ "config" \in present
        /\ Begin("disable", tools, t, f, PlanDisable(t, state, disk, tools),
                 Gone(t, disk))

\* runDisable: an always-on tool needs --force and a committed config.
StartDisable(t, f) ==
    LET tools == Effective \ {t}
    IN  /\ t \in Effective
        /\ t \in AlwaysOn => f /\ "config" \in present
        /\ ~RemovalRefused(t, state, disk, f)
        /\ Begin("disable", tools, t, f, PlanDisable(t, state, disk, tools),
                 Gone(t, disk))

\* runUpdateWith, which needs the answers file.
StartUpdate(f) ==
    /\ "answers" \in present
    /\ Begin("update", Effective, NoTool, f,
             PlanUpdate(state, disk, Effective, f), {})

\* runRepairCommand
StartRepair(f, reset) ==
    Begin("repair", Effective, NoTool, f,
          PlanRepair(state, disk, Effective, f, reset), {})

\* Teardown, with the default profile.  An unreadable state file is left out.
StartTeardown ==
    /\ present # {}
    /\ Begin("teardown", {}, NoTool, FALSE, PlanTeardown(state, disk), {})

-----------------------------------------------------------------------------
(* Handling one file. *)

\* The order of the stages: applyToolChange writes exclusive files before the
\* shared ones; a disable deletes first, then writes, then drops orphans and
\* last cuts sections out; update appends orphans; teardown cleans last.
Stage(p) ==
    CASE plan[p] \in {"write", "delete"}    -> 0
      [] plan[p] \in {"remove", "untrack"}  -> 2
      [] plan[p] \in {"strip", "clean"}     -> 3
      [] OTHER                              -> 1

Before(q, p) ==
    \/ Stage(q) < Stage(p)
    \/ Stage(q) = Stage(p) /\ Rank[q] < Rank[p]

Turn(p) ==
    /\ pc = IF plan[p] = "clean" THEN "clean" ELSE "files"
    /\ p \in todo
    /\ \A q \in todo \ {p} : ~Before(q, p)
    /\ todo' = todo \ {p}

FileStepUnchanged ==
    UNCHANGED <<recordVars, changes, startVars, pc, plan, fresh, torn>>

\* The file is written with c, and the entry for the save is made.
Writes(p, c, base, owner) ==
    /\ disk' = [disk EXCEPT ![p] = c]
    /\ out' = [out EXCEPT ![p] = RecordFile(p, c, base, owner)]
    /\ touched' = touched \ {p}
    /\ UNCHANGED <<dropped, failed>>

Fails(p) ==
    /\ failed' = failed \cup {p}
    /\ UNCHANGED <<disk, out, dropped, touched>>

LeavesAlone == UNCHANGED <<disk, out, dropped, failed, touched>>

Fault == faults < MaxFaults /\ faults' = faults + 1

\* The exclusive files of an enable, and executeUpdatePlan's create and
\* regenerate.  recordWrite sets no owner.
WriteFile(p) ==
    /\ plan[p] \in {"write", "create", "regenerate"} /\ Turn(p)
    /\ ~(plan[p] = "create" /\ Strategy[p] = "skip" /\ disk[p] # Absent)
    /\ Writes(p, Gen(Output(p, on)), Gen(Output(p, on)),
              IF plan[p] = "write" THEN Owner[p] ELSE NoTool)
    /\ sidecar' = IF plan[p] = "write" \/ HeldWith[p] = NoPath THEN sidecar
                  ELSE [sidecar EXCEPT ![p] = Absent]
    /\ FileStepUnchanged /\ UNCHANGED <<faults, backups>>

MergeFile(p) ==
    /\ plan[p] = "merge" /\ Turn(p) /\ disk[p] # Absent
    /\ Writes(p, MergeContent(p, state[p].base, disk[p], Output(p, on)),
              Gen(Output(p, on)), NoTool)
    /\ FileStepUnchanged /\ UNCHANGED <<faults, sidecar, backups>>

\* A file that vanished, or user text that does not merge.
MergeFails(p) ==
    /\ plan[p] = "merge" /\ Turn(p)
    /\ disk[p] = Absent \/ disk[p].edit # 0
    /\ Fails(p)
    /\ FileStepUnchanged /\ UNCHANGED <<faults, sidecar, backups>>

\* UpdateDevenvNix reads the file first; writeHeldSidecar does not.
WriteSidecar(p) ==
    /\ plan[p] \in {"sidecar", "hold"} /\ Turn(p)
    /\ plan[p] = "sidecar" => disk[p] # Absent
    /\ sidecar' = [sidecar EXCEPT ![p] = Gen(Output(p, on))]
    /\ LeavesAlone
    /\ FileStepUnchanged /\ UNCHANGED <<faults, backups>>

SkipFile(p) ==
    /\ Turn(p)
    /\ \/ plan[p] = "skip"
       \/ plan[p] = "create" /\ Strategy[p] = "skip" /\ disk[p] # Absent
    /\ LeavesAlone
    /\ FileStepUnchanged /\ UNCHANGED <<faults, sidecar, backups>>

\* A removal that keeps the entry of the removed file.
RemoveKeepsEntry(p) ==
    /\ plan[p] \in {"delete", "remove"} /\ Turn(p)
    /\ disk' = [disk EXCEPT ![p] = Absent]
    /\ FileStepUnchanged
    /\ UNCHANGED <<sidecar, dropped, faults, backups, out, failed, touched>>

\* exclusiveRemoval.apply, executeUpdatePlan's remove and teardown's Remove:
\* the sidecar of a manual-merge file goes too.
RemoveFile(p) ==
    /\ plan[p] \in {"delete", "remove"} /\ Turn(p)
    /\ disk' = [disk EXCEPT ![p] = Absent]
    /\ sidecar' = IF op # "update" /\ Strategy[p] = "manualMerge"
                  THEN [sidecar EXCEPT ![p] = Absent] ELSE sidecar
    /\ dropped' = dropped \cup {p}
    /\ FileStepUnchanged /\ UNCHANGED <<faults, backups, out, failed, touched>>

\* Orphans and teardown's files: the command goes on, update keeps the entry.
RemoveFails(p) ==
    /\ plan[p] = "remove" /\ Turn(p) /\ Fault
    /\ Fails(p)
    /\ FileStepUnchanged /\ UNCHANGED <<sidecar, backups>>

UntrackFile(p) ==
    /\ plan[p] = "untrack" /\ Turn(p)
    /\ dropped' = dropped \cup {p}
    /\ FileStepUnchanged
    /\ UNCHANGED <<faults, fileVars, out, failed, touched>>

\* A removal in place that leaves the recorded hash.
StripKeepsHash(p) ==
    LET left == SectionsOf(disk[p]) \ {target}
        c    == [disk[p] EXCEPT !.gen = Rendering(left)]
    IN  /\ plan[p] = "strip" /\ Turn(p)
        /\ IF target \in SectionsOf(disk[p])
           THEN /\ disk' = [disk EXCEPT ![p] = c]
                /\ UNCHANGED <<out, dropped, failed, touched>>
           ELSE LeavesAlone
        /\ FileStepUnchanged /\ UNCHANGED <<faults, sidecar, backups>>

\* removeStaleSections: only the hash of the entry changes, and it then covers
\* whatever else is in the file.
StripSection(p) ==
    LET left == SectionsOf(disk[p]) \ {target}
        c    == [disk[p] EXCEPT !.gen = Rendering(left)]
    IN  /\ plan[p] = "strip" /\ Turn(p)
        /\ IF target \in SectionsOf(disk[p])
           THEN /\ disk' = [disk EXCEPT ![p] = c]
                /\ out' = [out EXCEPT ![p] = [state[p] EXCEPT !.hash = c]]
                /\ touched' = touched \ {p}
                /\ UNCHANGED <<dropped, failed>>
           ELSE LeavesAlone
        /\ FileStepUnchanged /\ UNCHANGED <<faults, sidecar, backups>>

\* It may not parse or be written; the disable goes on with a notice.
StripFails(p) ==
    /\ plan[p] = "strip" /\ Turn(p)
    /\ \/ disk[p].edit # 0 /\ UNCHANGED faults
       \/ Fault
    /\ Fails(p)
    /\ FileStepUnchanged /\ UNCHANGED <<sidecar, backups>>

\* A repair that prunes the newest backup.
BackupDropsNewest(p) ==
    IF disk[p] = Absent \/ Len(backups[p]) >= KeepBackups THEN backups[p]
    ELSE Append(backups[p], disk[p])

\* createBackup and pruneBackups.
BackedUp(p) ==
    IF disk[p] = Absent THEN backups[p]
    ELSE LET all == Append(backups[p], disk[p])
         IN  IF Len(all) > KeepBackups THEN Tail(all) ELSE all

\* executeRepair
RepairFile(p) ==
    /\ plan[p] = "repair" /\ Turn(p) /\ p \in Produced(on)
    /\ backups' = [backups EXCEPT ![p] = BackedUp(p)]
    /\ Writes(p, Gen(Output(p, on)), Gen(Output(p, on)), Owner[p])
    /\ FileStepUnchanged /\ UNCHANGED <<faults, sidecar>>

\* No fresh content, no backup, or a failed write after the backup.
RepairFails(p) ==
    /\ plan[p] = "repair" /\ Turn(p)
    /\ \/ p \notin Produced(on) /\ UNCHANGED <<faults, backups>>
       \/ p \in Produced(on) /\ Fault /\ UNCHANGED backups
       \/ p \in Produced(on) /\ Fault /\ disk[p] # Absent
            /\ backups' = [backups EXCEPT ![p] = BackedUp(p)]
    /\ Fails(p)
    /\ FileStepUnchanged /\ UNCHANGED sidecar

\* cleanSharedFile
CleanFile(p) ==
    /\ plan[p] = "clean" /\ Turn(p)
    /\ p \in Settings => out[p].base # Absent
    /\ disk' = [disk EXCEPT ![p] = Cleaned(p, disk[p], out[p].base)]
    /\ dropped' = dropped \cup {p}
    /\ FileStepUnchanged
    /\ UNCHANGED <<faults, sidecar, backups, out, failed, touched>>

\* No recorded base, a file that does not parse, or a failed write.
CleanFails(p) ==
    /\ plan[p] = "clean" /\ Turn(p)
    /\ \/ p \in Settings /\ out[p].base = Absent /\ UNCHANGED faults
       \/ disk[p].edit # 0 /\ UNCHANGED faults
       \/ Fault
    /\ Fails(p)
    /\ FileStepUnchanged /\ UNCHANGED <<sidecar, backups>>

\* executeUpdatePlan stops at a failed write, or when the devenv.nix to put a
\* sidecar beside is gone, its stale sidecar then too; update saves what it has.
UpdateStops(p) ==
    /\ op = "update" /\ pc = "files" /\ p \in todo
    /\ \A q \in todo \ {p} : ~Before(q, p)
    /\ \/ plan[p] \in {"create", "regenerate", "merge", "hold"} /\ Fault
            /\ UNCHANGED sidecar
       \/ /\ plan[p] = "sidecar"
          /\ sidecar' = [sidecar EXCEPT ![p] = Absent]
          /\ \/ disk[p] = Absent /\ UNCHANGED faults
             \/ disk[p] # Absent /\ Fault
    /\ todo' = {}
    /\ Fails(p)
    /\ FileStepUnchanged /\ UNCHANGED backups

FileStep(p) ==
    \/ WriteFile(p) \/ MergeFile(p) \/ MergeFails(p) \/ WriteSidecar(p)
    \/ SkipFile(p) \/ RemoveFile(p) \/ RemoveFails(p) \/ UntrackFile(p)
    \/ StripSection(p) \/ StripFails(p) \/ RepairFile(p) \/ RepairFails(p)
    \/ CleanFile(p) \/ CleanFails(p) \/ UpdateStops(p)

-----------------------------------------------------------------------------
(* Saving the results. *)

Written  == {p \in Paths : Tracked(out[p])}
FilesDone == pc = "files" /\ \A p \in todo : plan[p] = "clean"

SaveUnchanged ==
    UNCHANGED <<fileVars, boundVars, startVars, plan, todo, out, dropped, failed,
                fresh, touched>>

\* saveToolState, update's and repair's SaveInitState; a repair that fixed
\* nothing saves nothing.
SaveState ==
    /\ FilesDone /\ op # "teardown"
    /\ state' = [p \in Paths |->
                    IF Tracked(out[p]) THEN out[p]
                    ELSE IF p \in dropped THEN Untracked ELSE state[p]]
    /\ present' = IF op = "repair" /\ Written = {} THEN present
                  ELSE present \cup {"state"}
    /\ torn' = torn \ (Written \cup {p \in dropped : disk[p] = Absent})
    /\ pc' = IF op = "repair" THEN "finish" ELSE "answers"
    /\ SaveUnchanged /\ UNCHANGED <<answers, optOut>>

SaveAnswers ==
    /\ pc = "answers"
    /\ answers' = on /\ present' = present \cup {"answers"}
    /\ pc' = "config"
    /\ SaveUnchanged /\ UNCHANGED <<state, optOut, torn>>

\* SyncProjectConfig never creates the config.
SyncConfig ==
    /\ pc = "config"
    /\ optOut' = IF "config" \in present THEN AlwaysOn \ on ELSE optOut
    /\ pc' = "finish"
    /\ SaveUnchanged /\ UNCHANGED <<state, present, answers, torn>>

\* What is lost with a file of qsdev's own.
Loses(f) ==
    /\ present' = present \ f
    /\ state'   = IF "state" \in f THEN NoEntries ELSE state
    /\ answers' = IF "answers" \in f THEN {} ELSE answers
    /\ optOut'  = IF "config" \in f THEN {} ELSE optOut

\* The order of stateFilesForTeardown.
NextOwn == IF "state" \in present THEN "state"
           ELSE IF "answers" \in present THEN "answers" ELSE "config"

\* Teardown deletes its own record before it cleans the shared files; a file
\* it cannot delete is left.
StartRecord ==
    /\ FilesDone /\ op = "teardown"
    /\ pc' = "record"
    /\ SaveUnchanged /\ UNCHANGED <<recordVars, torn>>

RemoveOwn ==
    /\ pc = "record" /\ present # {}
    /\ Loses({NextOwn})
    /\ SaveUnchanged /\ UNCHANGED <<pc, torn>>

\* Either every file is gone, or removing the next one failed, and the rest go.
RecordRemoved ==
    /\ pc = "record"
    /\ \/ present = {} /\ UNCHANGED <<recordVars, faults>>
       \/ present # {} /\ Fault /\ Loses(present \ {NextOwn})
    /\ pc' = "clean"
    /\ UNCHANGED <<fileVars, changes, startVars, plan, todo, out, dropped, failed,
                   fresh, torn, touched>>

\* The state directory holds the state and the answers file.
RemoveDirs ==
    /\ pc = "clean" /\ todo = {}
    /\ \/ Loses({"state", "answers"}) /\ UNCHANGED faults
       \/ Fault /\ UNCHANGED recordVars
    /\ pc' = "finish"
    /\ UNCHANGED <<fileVars, changes, startVars, plan, todo, out, dropped, failed,
                   fresh, torn, touched>>

Idle ==
    /\ op' = "none" /\ on' = {} /\ target' = NoTool /\ force' = FALSE
    /\ pc' = "idle" /\ plan' = NoPlan /\ todo' = {} /\ out' = NoEntries
    /\ dropped' = {} /\ failed' = {} /\ fresh' = {}

\* The paths a death may leave apart from the record, or their record apart
\* from the answers and the config; half a teardown is a case of its own.
LeftApart == IF op = "teardown" THEN Paths ELSE Written \cup dropped

\* A teardown that could not delete its record leaves it apart from the files.
Finish ==
    /\ pc = "finish"
    /\ torn' = CASE op # "teardown" -> torn
                 [] op = "teardown" /\ present # {} -> torn \cup LeftApart
                 [] OTHER -> torn \cup {p \in Paths : disk[p].gen # 0}
    /\ Idle
    /\ UNCHANGED <<fileVars, recordVars, boundVars, touched>>

\* The process dies, a save fails, or a write or removal of enable and disable
\* fails: both return at once and record nothing.
Crash ==
    /\ op # "none" /\ Fault
    /\ torn' = torn \cup LeftApart
    /\ Idle
    /\ UNCHANGED <<fileVars, recordVars, changes, touched>>

\* And so they do when the devenv.nix to put a sidecar beside is gone.
ChangeStops(p) ==
    /\ op \in {"enable", "disable"} /\ plan[p] = "sidecar" /\ disk[p] = Absent
    /\ pc = "files" /\ p \in todo /\ \A q \in todo \ {p} : ~Before(q, p)
    /\ sidecar' = [sidecar EXCEPT ![p] = Absent]
    /\ torn' = torn \cup LeftApart
    /\ Idle
    /\ UNCHANGED <<disk, backups, recordVars, boundVars, touched>>

-----------------------------------------------------------------------------
(* The developer. *)

UserChanges(p, c) ==
    /\ changes < MaxChanges /\ changes' = changes + 1
    /\ disk' = [disk EXCEPT ![p] = c]
    /\ fresh' = IF op = "none" THEN {} ELSE fresh \cup {p}
    /\ touched' = touched \cup {p}
    /\ UNCHANGED <<backups, recordVars, faults, cmdVars, torn>>

UserEdit(p) ==
    /\ \E c \in UserEdits(p, disk[p]) : UserChanges(p, c)
    /\ UNCHANGED sidecar

UserDelete(p) ==
    /\ disk[p] # Absent
    /\ UserChanges(p, Absent)
    /\ UNCHANGED sidecar

\* The user moves the sidecar into place, as the instructions say.
AcceptSidecar(p) ==
    /\ sidecar[p] # Absent
    /\ sidecar' = [sidecar EXCEPT ![p] = Absent]
    /\ UserChanges(p, sidecar[p])

Command ==
    \/ \E p \in Paths : FileStep(p)
    \/ SaveState \/ SaveAnswers \/ SyncConfig
    \/ StartRecord \/ RemoveOwn \/ RecordRemoved \/ RemoveDirs \/ Finish

Next ==
    \/ \E t \in Registry, f \in BOOLEAN : StartEnable(t, f) \/ StartDisable(t, f)
    \/ \E f \in BOOLEAN : StartUpdate(f)
    \/ \E f, reset \in BOOLEAN : StartRepair(f, reset)
    \/ StartTeardown
    \/ Command
    \/ Crash
    \/ \E p \in Paths : ChangeStops(p)
    \/ \E p \in Paths : UserEdit(p) \/ UserDelete(p) \/ AcceptSidecar(p)

Spec == Init /\ [][Next]_vars

TypeOK ==
    /\ disk \in [Paths -> Content] /\ sidecar \in [Paths -> Content]
    /\ backups \in [Paths -> Seq(Content)]
    /\ state \in [Paths -> Entry] /\ present \subseteq OwnFiles
    /\ answers \subseteq Choices /\ optOut \subseteq AlwaysOn
    /\ faults \in 0..MaxFaults /\ changes \in 0..MaxChanges
    /\ op \in Ops /\ on \subseteq Choices /\ target \in Registry \cup {NoTool}
    /\ force \in BOOLEAN /\ pc \in Pcs
    /\ plan \in [Paths -> Actions] /\ todo \subseteq Paths
    /\ out \in [Paths -> Entry]
    /\ dropped \subseteq Paths /\ failed \subseteq Paths
    /\ fresh \subseteq Paths /\ torn \subseteq Paths /\ touched \subseteq Paths

-----------------------------------------------------------------------------
(* Properties. *)

\* p is the file this step handles.
Handled(p) == p \in todo /\ p \notin todo'

\* A command acts on the plan it made when it loaded the project.
RacesPlan(p) == p \in fresh

\* What each command may do to text the user wrote.
MayDiscard(p) ==
    CASE op = "enable"  -> force /\ (Strategy[p] # "skip" \/ RacesPlan(p))
      [] op = "disable" -> force
      [] op = "update"  -> Strategy[p] = "libraryManaged" \/ (force /\ Strategy[p] # "skip")
      [] op = "repair"  -> disk[p] \in {backups'[p][i] : i \in 1..Len(backups'[p])}
      [] OTHER          -> FALSE

\* No command discards text the user wrote without licence: --force, or a
\* backup of what repair replaces, and teardown never does.  Two exceptions: a
\* change that races the plan, and text a merge or a removal in place recorded
\* as qsdev's own, which goes with the file once it is no longer generated
\* (keepUserOwnedFiles, planExclusiveRemoval, executeRepair, BuildPlan).
UserTextKept ==
    [][\A p \in Paths :
         Handled(p) /\ disk[p].edit # 0 /\ disk'[p].edit # disk[p].edit
           => \/ MayDiscard(p)
              \/ RacesPlan(p)
              \/ plan[p] = "remove" /\ Mergeable(Strategy[p])]_vars

\* Between commands the record is exact for every path only qsdev touched: what
\* is tracked holds the recorded bytes, and qsdev's output is tracked.  Only a
\* command that died midway may break it, and only for the files it handled.
RecordExact ==
    op = "none" /\ "state" \in present =>
        \A p \in Paths \ (touched \cup torn) :
            /\ Tracked(state[p]) => disk[p] = state[p].hash
            /\ disk[p].gen # 0 => Tracked(state[p])

\* The entries of p that qsdev's record, or the running command, accounts for.
Accounted(p) ==
    SectionsOf(disk[p]) \cap (SectionsOf(state[p].base) \cup SectionsOf(out[p].base))

\* While the settings register a tool's hooks, the library they load is there,
\* at every step of every command: enable writes it before it registers the
\* hooks and disable unregisters them before it drops it (hookSupportFiles,
\* supportOrphans).  Exempt are settings with user text, which may not merge,
\* either of them if the user changed it or a command that handled it died,
\* hooks of a dead command that a merge has taken for the user's, and teardown,
\* which removes hooks and library before it cleans the settings.
HooksKeepTheirLibrary ==
    op # "teardown" /\ "state" \in present =>
      \A s \in Settings \ (touched \cup torn), l \in Paths \ (touched \cup torn) :
          /\ disk[s].edit = 0
          /\ Hosts[l] \cap Accounted(s) # {}
          => disk[l] # Absent

\* The files an enable or disable of t can bring its section into or out of: those
\* still generated, and those a section can be cut out of.
Reached(t) ==
    SharedBy(t) \cap (Produced(on) \cup (IF op = "disable" THEN Strippable ELSE {}))

\* A three-way merge leaves an entry to the user where the recorded base already
\* was as the command wants it: one the base has and the file lacks was deleted,
\* one the base lacks was added.
LeftToUser(p) ==
    /\ plan[p] = "merge" /\ Strategy[p] = "threeWay"
    /\ IF op = "enable"
       THEN p \notin Settings /\ target \in SectionsOf(state[p].base)
       ELSE target \notin SectionsOf(state[p].base)

\* An enable or a disable that gets to save its record, whatever died before it,
\* has brought every file of the tool with it: its own files are there and
\* recorded, or gone and forgotten, and the shared files carry its section, or
\* not.  Only files the user owns or changed may differ, entries a merge leaves
\* to the user, and files a dead command wrote and never recorded, which disable
\* neither edits nor removes.
ChangeComplete ==
    [][pc = "files" /\ pc' = "answers" /\ op \in {"enable", "disable"} =>
        /\ \A p \in Exclusive(target) \ fresh :
              IF op = "enable"
              THEN p \in Produced(on) =>
                      \/ disk[p] = Gen(1) /\ state'[p].hash = Gen(1)
                      \/ Strategy[p] = "skip" /\ disk[p] \notin {Absent, Gen(1)}
              ELSE /\ ~Tracked(state'[p])
                   /\ disk[p].gen # 0 => p \in touched \cup torn'
        /\ \A p \in Reached(target) \ (fresh \cup failed \cup torn') :
              \/ target \in SectionsOf(disk[p]) <=> op = "enable"
              \/ plan[p] \in {"skip", "sidecar", "hold"} \/ LeftToUser(p)
              \/ disk[p].edit # 0 \/ disk[p] = Absent
              \/ p \in touched /\ ~Tracked(state'[p])]_vars

\* An enable puts the tool's section into every shared file it generates, in a
\* project where nothing failed and the user changed nothing.
EnableAddsSections ==
    [][/\ pc = "files" /\ pc' = "answers" /\ op = "enable"
       /\ changes = 0 /\ faults = 0
       => \A p \in SharedBy(target) \cap Produced(on) :
             target \in SectionsOf(disk[p])]_vars

\* A teardown that failed on nothing leaves nothing of qsdev's, except in files
\* the user changed or a dead command never recorded, and in the settings the
\* entries its record does not account for.
TeardownLeavesNothing ==
    pc = "finish" /\ op = "teardown" /\ failed = {} =>
        \A p \in Paths \ (touched \cup torn) :
            disk[p].gen # 0 =>
                /\ p \in Settings /\ SectionsOf(disk[p]) # {}
                /\ SectionsOf(disk[p]) =
                      SectionsOf(out[p].hash) \ SectionsOf(out[p].base)
=============================================================================
