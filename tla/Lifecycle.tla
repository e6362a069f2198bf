----------------------------- MODULE Lifecycle -----------------------------
(***************************************************************************)
(* The life of one project under qsdev: `init` (create), `init` on a clone *)
(* (join) and `update` rewriting the generated files one by one, recording *)
(* what they wrote, while the developer edits, deletes and accepts files,  *)
(* the project is reconfigured, the binary changes and commands die midway *)
(* (addons/devinit, pkg/generate, internal/state, internal/update).        *)
(*                                                                         *)
(* One command runs at a time.  Each per-file step is one read, decision   *)
(* and atomic replace; everything between two steps may interleave with    *)
(* the developer.                                                          *)
(***************************************************************************)
EXTENDS Pipeline, UpdatePlan

CONSTANTS
    Rank,       \* [Paths -> Nat]: position in path order, the execution order
    Releases,   \* the generations that qsdev's releases generate
    Profiles,   \* the configurations a project may take
    Rejected,   \* <<path, version>>: generated content its validator rejects
    MaxFaults,  \* bound: crashes and write errors in one behaviour
    MaxChanges  \* bound: user edits, deletions and accepted sidecars in one

ASSUME LifecycleAssumption ==
    /\ Rank \in [Paths -> Nat]
    /\ Profiles \subseteq [wanted : SUBSET Paths, enabled : SUBSET Tools]
    /\ Profiles # {}
    /\ Releases \subseteq Versions /\ Releases # {}
    /\ Rejected \subseteq Paths \X Releases
    /\ MaxFaults \in Nat
    /\ MaxChanges \in Nat

\* The partner of a held file is a manual-merge file before it in path order,
\* and no file merged entry by entry is held: the one pair is devenv.yaml, which
\* is overwritten, held with devenv.nix.
ASSUME PairAssumption ==
    \A p \in Paths : HeldWith[p] # NoPath =>
        /\ Strategy[HeldWith[p]] = "manualMerge" /\ Rank[HeldWith[p]] < Rank[p]
        /\ Strategy[p] # "threeWay"

VARIABLES
    disk,          \* content of each generated path
    sidecar,       \* content of each <path>.new
    state,         \* the init state file's entries
    savedVersion,  \* its qsdev_version, 0 when there is none
    manifest,      \* the committed manifest's hashes
    present,       \* which of the state, answers and config files exist
    version,       \* the installed binary's release
    profile,       \* what the answers, detection and tier ask for
    faults,        \* crashes and write errors so far
    changes,       \* user changes so far
    op,            \* the running command, "none" when idle
    force,         \* its --force / --overwrite-modified
    pc,            \* what it does next
    plan,          \* the update plan
    todo,          \* paths it has still to handle
    out,           \* entries of the files it has written
    dropped,       \* orphans it has removed or untracked
    failed,        \* paths it failed on
    fresh,         \* history: paths the user changed while the command ran
    torn,          \* history: paths written or removed by a command that died
                   \*   before recording it
    touched,       \* history: paths the user changed since qsdev wrote them
    adrift,        \* history: paths the user or a command that died changed
                   \*   since qsdev last wrote them without an older base
    settled        \* history: nothing happened since a command that succeeded

fileVars   == <<disk, sidecar>>
ledgerVars == <<state, savedVersion, manifest, present>>
envVars    == <<version, profile, faults, changes>>
cmdVars    == <<op, force, pc, plan, todo, out, dropped, failed>>
histVars   == <<fresh, torn, touched, adrift, settled>>
vars       == <<fileVars, ledgerVars, envVars, cmdVars, histVars>>

Ops      == {"none", "create", "join", "update"}
Pcs      == {"idle", "write", "saveManifest", "saveAnswers", "finish"}
OwnFiles == {"state", "answers", "config"}

NoPlan    == [p \in Paths |-> "none"]
NoContent == [p \in Paths |-> Absent]
NoEntries == [p \in Paths |-> Untracked]

\* What the generators produce: a disabled tool's files are not generated.
Generated == {p \in profile.wanted : Owner[p] \in profile.enabled \cup {NoTool}}

Init ==
    /\ disk = NoContent /\ sidecar = NoContent
    /\ state = NoEntries /\ savedVersion = 0
    /\ manifest = NoContent /\ present = {}
    /\ version \in Releases /\ profile \in Profiles
    /\ faults = 0 /\ changes = 0
    /\ op = "none" /\ force = FALSE /\ pc = "idle" /\ plan = NoPlan
    /\ todo = {} /\ out = NoEntries /\ dropped = {} /\ failed = {}
    /\ fresh = {} /\ torn = {} /\ touched = {} /\ adrift = {}
    /\ settled = FALSE

-----------------------------------------------------------------------------
(* Starting a command. *)

Begin(o, f, pl, work) ==
    /\ op = "none"
    /\ op' = o /\ force' = f /\ pc' = "write" /\ plan' = pl /\ todo' = work
    /\ out' = NoEntries /\ dropped' = {} /\ failed' = {} /\ fresh' = {}
    /\ UNCHANGED <<fileVars, ledgerVars, envVars, torn, touched, adrift, settled>>

\* runCreate, reached with no config, with --mode create or with --force; a
\* project with config files already needs --merge or --force.
StartCreate(f) == Begin("create", f, NoPlan, Generated)

\* runJoin, reached on a fresh clone or with --mode join; it has no --force.
StartJoin ==
    /\ "config" \in present
    /\ Begin("join", FALSE, NoPlan, Generated)

\* NeedsJoin: the project's config was cloned, its local state was not.
NeedsJoin == "config" \in present /\ "state" \notin present

\* CheckVersionRatchet, between releases.
RatchetRefuses == savedVersion # 0 /\ version < savedVersion

\* runUpdateWith up to the plan.
StartUpdate(f, allowDowngrade) ==
    LET pl == UpdatePlanOf(state, disk, version, f, Generated, profile.enabled)
    IN  /\ ~NeedsJoin
        /\ "answers" \in present
        /\ ~RatchetRefuses \/ allowDowngrade
        /\ Begin("update", f, pl,
                 Generated \cup {p \in Paths : pl[p] \in {"remove", "untrack"}})

-----------------------------------------------------------------------------
(* Handling one file. *)

\* WriteFiles decides held files last; update appends orphans to its plan.
Late(p) == IF op = "update" THEN p \notin Generated ELSE HeldWith[p] # NoPath

Before(q, p) ==
    \/ ~Late(q) /\ Late(p)
    \/ (Late(q) <=> Late(p)) /\ Rank[q] < Rank[p]

Turn(p) ==
    /\ pc = "write" /\ p \in todo
    /\ \A q \in todo \ {p} : ~Before(q, p)
    /\ todo' = todo \ {p}

Valid(p) == <<p, version>> \notin Rejected

\* The file is written with c and its state entry is kept for the save.
WriteInPlace(p, c, owner) ==
    /\ disk' = [disk EXCEPT ![p] = c]
    /\ out' = [out EXCEPT ![p] = RecordFile(p, c, Gen(version), owner)]
    /\ touched' = touched \ {p}
    /\ UNCHANGED <<failed, dropped>>

LeaveAlone == UNCHANGED <<disk, out, touched, adrift, failed, dropped>>

Fails(p) ==
    /\ failed' = failed \cup {p}
    /\ UNCHANGED <<disk, out, touched, adrift, dropped>>

FileStepUnchanged ==
    UNCHANGED <<ledgerVars, version, profile, changes, op, force, pc, plan,
                fresh, torn, settled>>

\* Paths this command has written in place.
Written == {p \in Paths : Tracked(out[p])}

Decision(p) ==
    InitDecision(p, disk[p], state[p], version, force,
                 PartnerHeld(p, Generated, Written))

Initializing == op \in {"create", "join"}

\* fileWriter.write, when it replaces or creates the file.
InitWrite(p) ==
    /\ Initializing /\ Turn(p)
    /\ Valid(p) /\ Decision(p) = "write"
    /\ WriteInPlace(p, Gen(version), Owner[p])
    /\ adrift' = adrift \ {p}
    /\ FileStepUnchanged /\ UNCHANGED <<sidecar, faults>>

\* Merging on create has no recorded base.
InitMerge(p) ==
    /\ Initializing /\ Turn(p)
    /\ Valid(p) /\ Decision(p) = "merge"
    /\ WriteInPlace(p, MergeContent(p, Absent, disk[p], version), Owner[p])
    /\ adrift' = adrift \ {p}
    /\ FileStepUnchanged /\ UNCHANGED <<sidecar, faults>>

\* User text may not merge (it may not parse): overwritten with --force only.
InitMergeFails(p) ==
    /\ Initializing /\ Turn(p)
    /\ Valid(p) /\ Decision(p) = "merge" /\ disk[p].edit # 0
    /\ IF force
       THEN WriteInPlace(p, Gen(version), Owner[p]) /\ adrift' = adrift \ {p}
       ELSE Fails(p)
    /\ FileStepUnchanged /\ UNCHANGED <<sidecar, faults>>

InitKeep(p) ==
    /\ Initializing /\ Turn(p)
    /\ Valid(p) /\ Decision(p) = "keep"
    /\ LeaveAlone
    /\ FileStepUnchanged /\ UNCHANGED <<sidecar, faults>>

InitSidecar(p) ==
    /\ Initializing /\ Turn(p)
    /\ Valid(p) /\ Decision(p) = "sidecar"
    /\ sidecar' = [sidecar EXCEPT ![p] = Gen(version)]
    /\ LeaveAlone
    /\ FileStepUnchanged /\ UNCHANGED faults

\* Invalid content and unsupported strategies fail; init goes on.
InitFails(p) ==
    /\ Initializing /\ Turn(p)
    /\ ~Valid(p) \/ Decision(p) = "fail"
    /\ Fails(p)
    /\ FileStepUnchanged /\ UNCHANGED <<sidecar, faults>>

\* A write error of init fails that file only.
InitWriteError(p) ==
    /\ Initializing /\ Turn(p)
    /\ Valid(p) /\ Decision(p) \in {"write", "merge", "sidecar"}
    /\ faults < MaxFaults /\ faults' = faults + 1
    /\ Fails(p)
    /\ FileStepUnchanged /\ UNCHANGED sidecar

\* skipExistingUserFile
SkipsExisting(p) ==
    plan[p] = "create" /\ Strategy[p] = "skip" /\ disk[p] # Absent

\* executeUpdatePlan: create and regenerate.  recordWrite sets no owner.
UpdateWrite(p) ==
    /\ op = "update" /\ Turn(p)
    /\ plan[p] \in {"create", "regenerate"} /\ ~SkipsExisting(p) /\ Valid(p)
    /\ WriteInPlace(p, Gen(version), NoTool)
    /\ adrift' = adrift \ {p}
    /\ sidecar' = IF HeldWith[p] = NoPath THEN sidecar
                  ELSE [sidecar EXCEPT ![p] = Absent]
    /\ FileStepUnchanged /\ UNCHANGED faults

UpdateMerge(p) ==
    /\ op = "update" /\ Turn(p)
    /\ plan[p] = "merge" /\ disk[p] # Absent /\ Valid(p)
    /\ WriteInPlace(p, MergeContent(p, state[p].base, disk[p], version), NoTool)
    /\ adrift' = IF Tracked(state[p]) THEN adrift ELSE adrift \ {p}
    /\ FileStepUnchanged /\ UNCHANGED <<sidecar, faults>>

\* A file that vanished, user text that does not merge, invalid content.
UpdateFails(p) ==
    /\ op = "update" /\ Turn(p)
    /\ \/ plan[p] = "merge" /\ (disk[p] = Absent \/ disk[p].edit # 0)
       \/ plan[p] \in {"create", "regenerate", "merge", "hold", "sidecar"}
            /\ ~SkipsExisting(p) /\ ~Valid(p)
    /\ Fails(p)
    /\ FileStepUnchanged /\ UNCHANGED <<sidecar, faults>>

\* A held file, or a modified devenv.nix: the new version goes beside it.
UpdateSidecar(p) ==
    /\ op = "update" /\ Turn(p) /\ Valid(p)
    /\ \/ plan[p] = "hold"
       \/ plan[p] = "sidecar" /\ disk[p] # Absent
    /\ sidecar' = [sidecar EXCEPT ![p] = Gen(version)]
    /\ LeaveAlone
    /\ FileStepUnchanged /\ UNCHANGED faults

UpdateRemove(p) ==
    /\ op = "update" /\ Turn(p) /\ plan[p] = "remove"
    /\ disk' = [disk EXCEPT ![p] = Absent]
    /\ dropped' = dropped \cup {p}
    /\ FileStepUnchanged /\ UNCHANGED <<sidecar, faults, out, touched, adrift, failed>>

\* An orphan that cannot be deleted stays tracked; update goes on.
UpdateRemoveFails(p) ==
    /\ op = "update" /\ Turn(p) /\ plan[p] = "remove"
    /\ faults < MaxFaults /\ faults' = faults + 1
    /\ Fails(p)
    /\ FileStepUnchanged /\ UNCHANGED sidecar

UpdateUntrack(p) ==
    /\ op = "update" /\ Turn(p) /\ plan[p] = "untrack"
    /\ dropped' = dropped \cup {p}
    /\ FileStepUnchanged
    /\ UNCHANGED <<fileVars, faults, out, touched, adrift, failed>>

UpdateSkip(p) ==
    /\ op = "update" /\ Turn(p)
    /\ plan[p] = "skip" \/ SkipsExisting(p)
    /\ LeaveAlone
    /\ FileStepUnchanged /\ UNCHANGED <<sidecar, faults>>

\* executeUpdatePlan returns early: on a write error, or when the devenv.nix
\* to put a sidecar beside has vanished.  Its stale sidecar is already gone.
UpdateStops(p) ==
    /\ op = "update" /\ pc = "write" /\ p \in todo
    /\ \A q \in todo \ {p} : ~Before(q, p)
    /\ \/ /\ plan[p] \in {"create", "regenerate", "merge", "hold"}
          /\ ~SkipsExisting(p) /\ Valid(p)
          /\ faults < MaxFaults /\ faults' = faults + 1
          /\ UNCHANGED sidecar
       \/ /\ plan[p] = "sidecar" /\ Valid(p)
          /\ sidecar' = [sidecar EXCEPT ![p] = Absent]
          /\ \/ disk[p] = Absent /\ UNCHANGED faults
             \/ disk[p] # Absent /\ faults < MaxFaults /\ faults' = faults + 1
    /\ todo' = {}
    /\ Fails(p)
    /\ FileStepUnchanged

FileStep(p) ==
    \/ InitWrite(p) \/ InitMerge(p) \/ InitMergeFails(p) \/ InitKeep(p)
    \/ InitSidecar(p) \/ InitFails(p) \/ InitWriteError(p)
    \/ UpdateWrite(p) \/ UpdateMerge(p) \/ UpdateFails(p) \/ UpdateSidecar(p)
    \/ UpdateRemove(p) \/ UpdateRemoveFails(p) \/ UpdateUntrack(p)
    \/ UpdateSkip(p) \/ UpdateStops(p)

-----------------------------------------------------------------------------
(* Saving the results, which also happens after failures. *)

\* A save that records what the command set out to write.
SavedPlanned(p) ==
    IF p \in Generated THEN RecordFile(p, Gen(version), Gen(version), Owner[p])
    ELSE IF op = "update" /\ p \notin dropped THEN state[p] ELSE Untracked

\* The entry saved for p: init records only what it wrote; update keeps the
\* entries of the files it did not touch.
SavedEntry(p) ==
    IF Tracked(out[p]) THEN out[p]
    ELSE IF op = "update" /\ p \notin dropped THEN state[p] ELSE Untracked

\* SaveInitState, first half: the state file.
SaveState ==
    /\ pc = "write" /\ todo = {}
    /\ state' = [p \in Paths |-> SavedEntry(p)]
    /\ savedVersion' = version
    /\ present' = present \cup {"state"}
    /\ pc' = "saveManifest"
    /\ UNCHANGED <<fileVars, manifest, envVars, op, force, plan, todo, out,
                   dropped, failed, histVars>>

\* SaveInitState, second half: the manifest built from it.
SaveManifest ==
    /\ pc = "saveManifest"
    /\ manifest' = BuildManifest(state)
    /\ pc' = "saveAnswers"
    /\ torn' = torn \ (Written \cup dropped)
    /\ UNCHANGED <<fileVars, state, savedVersion, present, envVars, op, force,
                   plan, todo, out, dropped, failed, fresh, touched, adrift, settled>>

\* saveAddonAnswers and saveAnswers.
SaveAnswers ==
    /\ pc = "saveAnswers"
    /\ present' = present \cup {"answers"}
    /\ pc' = "finish"
    /\ UNCHANGED <<fileVars, state, savedVersion, manifest, envVars, op, force,
                   plan, todo, out, dropped, failed, histVars>>

Idle ==
    /\ op' = "none" /\ force' = FALSE /\ pc' = "idle" /\ plan' = NoPlan
    /\ todo' = {} /\ out' = NoEntries /\ dropped' = {} /\ failed' = {}
    /\ fresh' = {}

\* finalizeProject writes the config, only when create failed on no file.
\* (SyncProjectConfig of update never creates it.)
Finish ==
    /\ pc = "finish"
    /\ present' = IF op = "create" /\ failed = {}
                  THEN present \cup {"config"} ELSE present
    /\ settled' = (failed = {} /\ fresh = {})
    /\ Idle
    /\ UNCHANGED <<fileVars, state, savedVersion, manifest, envVars, torn,
                   touched, adrift>>

\* The process dies, or saving its results fails, before pc's step.
Crash ==
    /\ op # "none" /\ faults < MaxFaults /\ faults' = faults + 1
    /\ torn' = IF pc \in {"write", "saveManifest"}
               THEN torn \cup Written \cup dropped ELSE torn
    /\ adrift' = IF pc = "write" THEN adrift \cup Written \cup dropped ELSE adrift
    /\ settled' = FALSE
    /\ Idle
    /\ UNCHANGED <<fileVars, ledgerVars, version, profile, changes, touched>>

-----------------------------------------------------------------------------
(* The developer and the project around qsdev. *)

UserChanges(p, c) ==
    /\ changes < MaxChanges /\ changes' = changes + 1
    /\ disk' = [disk EXCEPT ![p] = c]
    /\ fresh' = IF op = "none" THEN {} ELSE fresh \cup {p}
    /\ touched' = touched \cup {p} /\ adrift' = adrift \cup {p}
    /\ settled' = FALSE
    /\ UNCHANGED <<ledgerVars, version, profile, faults, cmdVars, torn>>

UserEdit(p) ==
    /\ \E c \in UserEdits(p, disk[p]) : UserChanges(p, c)
    /\ UNCHANGED sidecar

UserDelete(p) ==
    /\ disk[p] # Absent
    /\ UserChanges(p, Absent)
    /\ UNCHANGED sidecar

\* The user moves the sidecar into place, as the instructions say.
AcceptSidecar(p) ==
    /\ sidecar[p] # Absent
    /\ sidecar' = [sidecar EXCEPT ![p] = Absent]
    /\ UserChanges(p, sidecar[p])

\* A language, tier, tool or detection change.
Reconfigure(pr) ==
    /\ op = "none" /\ pr # profile
    /\ profile' = pr /\ settled' = FALSE
    /\ UNCHANGED <<fileVars, ledgerVars, version, faults, changes, cmdVars,
                   fresh, torn, touched, adrift>>

SwitchBinary(v) ==
    /\ op = "none" /\ v # version
    /\ version' = v /\ settled' = FALSE
    /\ UNCHANGED <<fileVars, ledgerVars, profile, faults, changes, cmdVars,
                   fresh, torn, touched, adrift>>

\* A teammate clones: the state directory is gitignored, the rest committed.
FreshClone ==
    /\ op = "none" /\ "config" \in present /\ "state" \in present
    /\ sidecar' = NoContent
    /\ state' = NoEntries /\ savedVersion' = 0 /\ present' = {"config"}
    /\ settled' = FALSE
    /\ UNCHANGED <<disk, manifest, envVars, cmdVars, fresh, torn, touched, adrift>>

Command ==
    \/ \E p \in Paths : FileStep(p)
    \/ SaveState \/ SaveManifest \/ SaveAnswers \/ Finish

Next ==
    \/ \E f \in BOOLEAN : StartCreate(f)
    \/ StartJoin
    \/ \E f, d \in BOOLEAN : StartUpdate(f, d)
    \/ Command
    \/ Crash
    \/ \E p \in Paths : UserEdit(p) \/ UserDelete(p) \/ AcceptSidecar(p)
    \/ \E pr \in Profiles : Reconfigure(pr)
    \/ \E v \in Releases : SwitchBinary(v)
    \/ FreshClone

Spec == Init /\ [][Next]_vars

TypeOK ==
    /\ disk \in [Paths -> Content] /\ sidecar \in [Paths -> Content]
    /\ state \in [Paths -> Entry] /\ savedVersion \in 0..MaxVersion
    /\ manifest \in [Paths -> Content] /\ present \subseteq OwnFiles
    /\ version \in Releases /\ profile \in Profiles
    /\ faults \in 0..MaxFaults
    /\ changes \in 0..MaxChanges
    /\ op \in Ops /\ force \in BOOLEAN /\ pc \in Pcs
    /\ plan \in [Paths -> PlanActions] /\ todo \subseteq Paths
    /\ out \in [Paths -> Entry] /\ dropped \subseteq Paths
    /\ failed \subseteq Paths /\ fresh \subseteq Paths /\ torn \subseteq Paths
    /\ touched \subseteq Paths /\ adrift \subseteq Paths
    /\ settled \in BOOLEAN

-----------------------------------------------------------------------------
(* Properties. *)

\* p is the file this step handles.
Handled(p) == p \in todo /\ p \notin todo'

\* What a command may do to text the user wrote: library-managed files and
\* init's overwrite files are qsdev's, --force discards edits but never those
\* of a skip-if-exists file.
MayDiscard(p) ==
    \/ Strategy[p] = "libraryManaged"
    \/ Initializing /\ Strategy[p] = "overwrite"
    \/ force /\ Strategy[p] # "skip"

\* An update acts on the plan it made when it loaded the project; init decides
\* each file when it gets to it.
PlannedBefore(p) ==
    op = "update" /\ p \in fresh /\ plan[p] \in {"create", "regenerate", "remove"}

\* A command never discards a user's edit it had no licence to discard: merges
\* keep it, skipped, kept, held and manual-merge files stay as they are, and
\* orphans go only if they are qsdev's own bytes (fileWriter.existingContent,
\* buildUpdatePlan).  Two exceptions: an edit that races the plan, and a merged
\* file that became an orphan (OrphanEditsSurvive).
EditsSurvive ==
    [][\A p \in Paths :
         Handled(p) /\ disk[p].edit # 0 /\ disk'[p].edit # disk[p].edit
           => \/ MayDiscard(p)
              \/ PlannedBefore(p)
              \/ plan[p] = "remove" /\ Mergeable(Strategy[p])]_vars

\* The recorded three-way base is generator output, never the merge result, and
\* only a merge records a hash with user text in it (RecordFiles): a base with
\* the user's text would make the next merge drop that text.
BaseIsGenerated ==
    \A p \in Paths :
        /\ state[p].base.edit = 0 /\ out[p].base.edit = 0
        /\ state[p].hash.edit # 0 => Mergeable(Strategy[p])

\* An existing held file changes in place only together with its partner: when
\* it does, the partner on disk is this release's output (partnerHeld,
\* holdPairedFiles).  Exempt are files the user changed meanwhile and, for
\* update, a partner that failed its validation (PairNeverSplit).
PairInStep ==
    [][\A p \in Paths :
         /\ Handled(p) /\ p \in Generated /\ HeldWith[p] \in Generated
         /\ disk[p] # Absent /\ disk'[p] # disk[p]
         => \/ disk[HeldWith[p]] = Gen(version)
            \/ HeldWith[p] \in fresh \/ PlannedBefore(p)
            \/ op = "update" /\ HeldWith[p] \in failed]_vars

\* Between commands, a tracked file that only qsdev touched holds exactly the
\* recorded bytes, so no later command mistakes qsdev's output for a user's
\* change; the committed manifest says the same of its files, also on a clone.
\* Only a command that died before recording a file may break this for it.
OwnOutputRecorded ==
    op = "none" =>
        \A p \in Paths \ (touched \cup torn) :
            /\ Tracked(state[p]) => disk[p] = state[p].hash
            /\ manifest[p] # Absent => disk[p] = manifest[p]

\* A finished update, whatever crashed before it, has recorded every file that
\* holds this release's output, except files held back (buildUpdatePlan's
\* "matches the generated content" cases).
OwnOutputAdopted ==
    op = "update" /\ pc = "finish" /\ failed = {} /\ fresh = {} =>
        \A p \in Generated :
            disk[p] = Gen(version) /\ plan[p] # "hold"
              => state[p].hash = disk[p]

\* After any command that fails on nothing, the file merged entry by entry has
\* every entry this release generates, however often releases, configurations
\* and clones changed before: a merge takes an entry for deleted or rewritten
\* by the user only if somebody other than a recorded command changed the file
\* (MergeMcpJson, RecordFiles).  Exempt is a file the user, or a command that
\* died before recording it, changed since qsdev last wrote it without a base.
EntriesFollow ==
    op # "none" /\ pc = "finish" /\ failed = {} /\ fresh = {} =>
        \A p \in Generated \ adrift :
            Strategy[p] = "threeWay"
              => Sections[version] \subseteq SectionsOf(disk[p])

\* An update with --force that fails on nothing brings every generated file to
\* this release and tracks it, from any state the project got into; only
\* skip-if-exists files of the user are left.  A file merged entry by entry may
\* lack entries when its bytes are the recorded ones, and so are merged, but the
\* entries are not those of its base (EntriesFollow's exemption).
ForcedUpdateConverges ==
    op = "update" /\ force /\ pc = "finish" /\ failed = {} /\ fresh = {} =>
        \A p \in Generated :
            \/ /\ state[p].hash = disk[p]
               /\ \/ disk[p].gen = version
                  \/ /\ plan[p] = "merge" /\ Strategy[p] = "threeWay"
                     /\ state[p].base = Gen(version)
                     /\ p \in adrift
                          \/ Sections[version] \subseteq SectionsOf(disk[p])
            \/ Strategy[p] = "skip" /\ disk[p] \notin {Absent, Gen(version)}

\* Running update again after a command that succeeded, with nothing changed
\* since, changes no file.
UpdateIdempotent ==
    [][op = "update" /\ ~force /\ settled /\ settled' => disk' = disk]_vars

-----------------------------------------------------------------------------
(* What the source's comments say and the code does not keep. *)

\* Orphans the user modified are left alone (planOrphans' comment).  A merge
\* records the merged bytes, so a file carrying the user's text is unmodified,
\* and is removed with that text once it is no longer generated.
OrphanEditsSurvive ==
    [][\A p \in Paths :
         Handled(p) /\ plan[p] = "remove" => disk[p].edit = 0 \/ p \in fresh]_vars

\* The tracked files of an enabled tool that generates nothing are left alone
\* (updateOwnsOrphan's comment).  recordWrite forgets the owner, so after one
\* update such a file is cleaned up like any other orphan.
ToolFilesLeftAlone ==
    [][\A p \in Paths :
         Handled(p) /\ plan[p] \in {"remove", "untrack"} /\ Owner[p] # NoTool
           => \/ Owner[p] \notin profile.enabled
              \/ \E q \in Generated : Owner[q] = Owner[p]]_vars

\* An existing held file is never replaced while the partner in effect is not
\* this release's (holdPairedFiles' comment).  The plan counts on a partner
\* that may still fail its validation when it is written.
PairNeverSplit ==
    [][\A p \in Paths :
         /\ Handled(p) /\ p \in Generated /\ HeldWith[p] \in Generated
         /\ disk[p] # Absent /\ disk'[p] # disk[p]
         => \/ disk[HeldWith[p]] = Gen(version)
            \/ HeldWith[p] \in fresh \/ PlannedBefore(p)]_vars
=============================================================================
