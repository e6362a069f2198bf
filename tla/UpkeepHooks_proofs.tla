-------------------------- MODULE UpkeepHooks_proofs --------------------------
(***************************************************************************)
(* Proof that the hooks the settings register always find the library they *)
(* load (Upkeep!HooksKeepTheirLibrary), for every set of tools, libraries  *)
(* and renderings.  On top of Upkeep's inductive invariant, HookInv says   *)
(* which tools the settings may register and whose libraries are on disk   *)
(* at every step of every command: an enable writes a library before it    *)
(* registers a hook, a disable unregisters the hooks before it drops one,  *)
(* what a command that died leaves is covered by the answers then, and a   *)
(* merge of the settings keeps no hook the recorded base accounts for once *)
(* the generator has dropped it.                                           *)
(***************************************************************************)
EXTENDS Upkeep_proofs

-----------------------------------------------------------------------------
(* The inductive invariant. *)

\* Paths only qsdev wrote, and whose writes are recorded.
Live == Paths \ (touched \cup torn)

\* The tools whose hooks the settings register, as far as qsdev accounts for
\* them; not read of a user's text.
Registers(s) == IF disk[s].edit = 0 THEN Accounted(s) ELSE {}

\* The tools in S that get hooks: those that are on with Claude Code.
Hooking(S) == IF ClaudeCode \in S THEN S ELSE {}

\* The base recorded for the settings has sections of tools that have one there;
\* without an entry there is no base.
SettingsFit ==
    \A s \in Settings :
        /\ SectionsOf(state[s].base) \subseteq Shares[s]
        /\ ~Tracked(state[s]) => SectionsOf(state[s].base) = {}
        /\ SectionsOf(out[s].base) \subseteq Shares[s]
        /\ Changing => SectionsOf(out[s].base) \subseteq Hooking(on)

\* The tools that are on before and after each step of saving the answers.
EffectiveFits ==
    /\ "config" \notin present => optOut = {}
    /\ "answers" \notin present => answers = {}
    /\ op \in {"update", "repair"} => target = NoTool
    /\ Changing =>
         /\ on \ {target} \subseteq Effective /\ Effective \subseteq on \cup {target}
         /\ op = "enable" /\ target \in Effective => pc \in {"config", "finish"}
         /\ op = "disable" /\ target \notin Effective => pc \in {"config", "finish"}
         /\ pc = "config" => answers = on
         /\ pc = "finish" => Effective = on
         /\ "config" \notin present /\ ClaudeCode \in on => AlwaysOn \subseteq on

\* Which files the planned actions are for, and what the order of the stages
\* gives: no library is still to be written once the settings are, and none is
\* dropped while the settings are still to be written.
StagesFit ==
    Changing =>
      /\ \A p \in Paths :
           /\ plan[p] \in {"remove", "untrack"} => p \notin Produced(on)
           /\ plan[p] = "write" => p \notin Settings
           /\ plan[p] = "delete" => Owner[p] \in Registry
      /\ \A p \in dropped : Hosts[p] \cap Hooking(on) = {}
      /\ op = "enable" /\ (\E s \in Settings : Tracked(out[s])) =>
           \A p \in todo : plan[p] # "write"
      /\ op = "disable" /\ (\E p \in dropped : Hosts[p] # {}) =>
           \A s \in Settings \cap todo : plan[s] # "merge"

\* What the settings register, and the libraries on disk, between commands.
IdleHooks ==
    op = "none" =>
      /\ \A s \in Settings \cap Live : Registers(s) \subseteq Hooking(Effective)
      /\ \A l \in Live : Hosts[l] \cap Hooking(Effective) # {} => disk[l] # Absent

\* The same while a command runs, for the tools it leaves on and for its target.
RunningHooks ==
    Changing =>
      /\ \A s \in Settings \cap Live :
           /\ Registers(s) \subseteq Hooking(on) \cup {target}
           /\ target \in Registers(s) =>
                /\ ClaudeCode \in on
                /\ \/ op = "enable" /\ Tracked(out[s])
                   \/ op = "disable" /\ s \in todo /\ plan[s] = "merge"
      /\ \A l \in Live \ dropped :
           /\ Hosts[l] \cap (Hooking(on) \ {target}) # {} => disk[l] # Absent
           /\ target \in Hosts[l] /\ ClaudeCode \in on =>
                \/ disk[l] # Absent
                \/ op = "enable" /\ l \in todo /\ plan[l] = "write"

HookInv == SettingsFit /\ EffectiveFits /\ StagesFit /\ IdleHooks /\ RunningHooks
-----------------------------------------------------------------------------
(* The kinds of files. *)

LEMMA SettingsKinds ==
  ASSUME NEW s \in Settings
  PROVE  /\ s \in Paths /\ s \in Core /\ Strategy[s] = "threeWay"
         /\ HeldWith[s] = NoPath /\ Hosts[s] = {}
         /\ Owner[s] = NoTool /\ Owner[s] \notin Registry
  BY FileKindsAssumption, UpkeepPlanAssumption, LedgerAssumption

\* The settings are generated with the sections of the tools that are on.
LEMMA SettingsOutput ==
  ASSUME NEW s \in Settings, NEW S \in SUBSET Choices, s \in Produced(S)
  PROVE  /\ Output(s, S) \in Versions /\ ClaudeCode \in S
         /\ SectionsOf(Gen(Output(s, S))) = Shares[s] \cap S
<1>1. Output(s, S) = Rendering(Shares[s] \cap S) /\ ClaudeCode \in S
  BY SettingsKinds, SettingsProduced DEF Output, Rendered
<1>2. Shares[s] \cap S \in SUBSET Registry
  BY SettingsKinds, UpkeepPlanAssumption
<1>3. QED
  BY <1>1, <1>2, RenderingCarries, SectionsOfGen

\* A library is generated while a tool that loads it is on with Claude Code, and
\* a tool's own files hold no library.
LEMMA LibraryKinds ==
  ASSUME NEW l \in Paths, Hosts[l] # {}
  PROVE  Owner[l] \notin Registry /\ l \notin Settings /\ Shares[l] = {}
  BY UpkeepPlanAssumption, FileKindsAssumption, SettingsKinds

LEMMA LibraryOutput ==
  ASSUME NEW l \in Paths, NEW S, Hosts[l] \cap Hooking(S) # {}
  PROVE  l \in Produced(S)
<1>1. Hosts[l] # {} /\ Hosts[l] \cap S # {} /\ ClaudeCode \in S
  BY DEF Hooking
<1>2. Owner[l] \notin Registry
  BY <1>1, LibraryKinds
<1>3. QED
  BY <1>1, <1>2 DEF Output, Rendered, Produced

-----------------------------------------------------------------------------
(* The entries of the settings. *)

\* Settings that are written register only what is on, as far as they are
\* accounted for: a merge leaves the user nothing the recorded base has.
LEMMA SettingsWritten ==
  ASSUME TypeOK, Control, PlanFits, NEW s \in Settings, FileStep(s)
  PROVE  \/ out'[s] = out[s]
         \/ /\ WriteFile(s) \/ MergeFile(s) \/ RepairFile(s)
            /\ Tracked(out'[s]) /\ ClaudeCode \in on
            /\ SectionsOf(out'[s].base) = Shares[s] \cap on
            /\ Accounted(s)' \subseteq on
<1>1. /\ s \in Paths /\ on \in SUBSET Choices /\ s \in todo /\ state' = state
      /\ disk \in [Paths -> Content] /\ out \in [Paths -> Entry]
      /\ state[s].base \in Content /\ Strategy[s] = "threeWay"
  BY SettingsKinds, FileStepFrame DEF TypeOK, Entry
<1>2. CASE WriteFile(s) \/ MergeFile(s) \/ RepairFile(s)
  <2> DEFINE v == Output(s, on)
             b == SectionsOf(state[s].base)
             d == SectionsOf(disk[s])
             m == MergeContent(s, state[s].base, disk[s], v)
  <2>1. Tracked(out'[s])
    BY <1>1, <1>2, WrittenExact
  <2>2. s \in Produced(on)
    BY <1>2 DEF WriteFile, MergeFile, RepairFile, Turn, PlanFits
  <2>3. v \in Versions /\ ClaudeCode \in on /\ SectionsOf(Gen(v)) = Shares[s] \cap on
    BY <1>1, <2>2, SettingsOutput
  <2>4. v \in 0..MaxVersion
    BY <2>3, ContentTypes
  <2> HIDE DEF v
  <2>5. SectionsOf(m) = MergeSettings(b, d, SectionsOf(Gen(v)))
    BY <1>1, <2>4, MergedSections DEF MergedParts
  <2>6. (\E o : Writes(s, Gen(v), Gen(v), o)) \/ (\E o : Writes(s, m, Gen(v), o))
    BY <1>2 DEF WriteFile, MergeFile, RepairFile, v
  <2> HIDE DEF m
  <2>7. disk'[s] \in {Gen(v), m} /\ out'[s].base = Gen(v)
    BY <1>1, <2>6 DEF Writes, RecordFile
  <2>8. \A x \in SectionsOf(disk'[s]) : x \in b \cup SectionsOf(Gen(v)) => x \in on
    <3> HIDE DEF b, d
    <3>1. \A x \in b : x \in Named(b, x)
      BY DEF Named
    <3>2. \A x \in SectionsOf(m) : x \in b \cup SectionsOf(Gen(v)) => x \in on
      BY <2>3, <2>5, <3>1 DEF MergeSettings
    <3>3. QED
      BY <2>3, <2>7, <3>2
  <2>9. Accounted(s)' \subseteq on
    BY <1>1, <2>7, <2>8 DEF Accounted, SectionsOf
  <2>10. QED
    BY <1>2, <2>1, <2>3, <2>7, <2>9
<1>3. CASE StripSection(s)
  BY <1>1, <1>3, SettingsProduced DEF StripSection, PlanFits
<1>4. CASE RemoveFile(s) \/ UntrackFile(s) \/ CleanFile(s) \/ LeavesAlone \/ Fails(s)
  BY <1>4 DEF RemoveFile, UntrackFile, CleanFile, LeavesAlone, Fails
<1>5. QED
  BY <1>1, <1>2, <1>3, <1>4, FileStepOutcome

LEMMA SettingsFitStep ==
  ASSUME TypeOK, Control, PlanFits, SettingsFit, [Next]_vars
  PROVE  SettingsFit'
<1>0. /\ Settings \subseteq Paths /\ SectionsOf(Absent) = {}
      /\ \A s \in Settings : NoEntries[s] = Untracked
      /\ ~Tracked(Untracked) /\ Untracked.base = Absent
  BY SettingsKinds DEF SectionsOf, Absent, NoEntries, Untracked, Tracked
<1>1. ASSUME NEW p \in Paths, FileStep(p) PROVE SettingsFit'
  <2>1. UNCHANGED <<state, op, on>>
    BY <1>1, FileStepFrame
  <2>2. ASSUME NEW s \in Settings
        PROVE  \/ out'[s] = out[s]
               \/ /\ SectionsOf(out'[s].base) = Shares[s] \cap on
                  /\ ClaudeCode \in on
    BY <1>0, <1>1, SettingsWritten, FileStepOne
  <2>3. QED
    BY <2>1, <2>2 DEF SettingsFit, Changing, Hooking, SectionsOf
<1>2. CASE SaveState
  <2>1. UNCHANGED <<out, op, on>>
    BY <1>2, SavedRecord
  <2>2. \A s \in Settings :
          state'[s] \in {Untracked, state[s]} \/ (Tracked(out[s]) /\ state'[s] = out[s])
    BY <1>0, <1>2, SavedRecord DEF Pending
  <2>3. QED
    BY <1>0, <2>1, <2>2 DEF SettingsFit, Changing, Hooking, SectionsOf
<1>3. CASE state' \in {state, NoEntries} /\ UNCHANGED <<out, op, on>>
  BY <1>0, <1>3 DEF SettingsFit, Changing, Hooking, SectionsOf
<1>4. CASE SaveAnswers \/ SyncConfig \/ StartRecord \/ RemoveOwn \/ RecordRemoved
           \/ RemoveDirs
  BY <1>3, <1>4 DEF SaveAnswers, SyncConfig, StartRecord, RemoveOwn,
     RecordRemoved, RemoveDirs, Loses, SaveUnchanged, recordVars, startVars
<1>5. CASE state' = state /\ out' = NoEntries
  BY <1>0, <1>5 DEF SettingsFit, SectionsOf
<1>6. ASSUME NEW o \in Ops, NEW S, NEW t, NEW f, NEW pl, NEW gone,
             Begin(o, S, t, f, pl, gone)
      PROVE  SettingsFit'
  <2>1. state' = state /\ op' = o
    BY <1>6 DEF Begin, recordVars
  <2>2. CASE o = "teardown"
    <3>1. out' = state /\ ~Changing'
      BY <1>6, <2>1, <2>2 DEF Begin, Changing
    <3>2. QED
      BY <2>1, <3>1 DEF SettingsFit, SectionsOf
  <2>3. CASE o # "teardown"
    BY <1>5, <1>6, <2>1, <2>3 DEF Begin
  <2>4. QED
    BY <2>2, <2>3
<1>7. CASE Finish \/ Crash \/ \E p \in Paths : ChangeStops(p)
  BY <1>5, <1>7 DEF Finish, Crash, ChangeStops, Idle, recordVars
<1>8. ASSUME NEW p \in Paths, UserEdit(p) \/ UserDelete(p) \/ AcceptSidecar(p)
      PROVE  SettingsFit'
  BY <1>3, <1>8 DEF UserEdit, UserDelete, AcceptSidecar, UserChanges, recordVars,
     cmdVars, startVars
<1>9. CASE UNCHANGED vars
  BY <1>3, <1>9 DEF vars, recordVars, cmdVars, startVars
<1>10. QED
  BY <1>1, <1>2, <1>4, <1>6, <1>7, <1>8, <1>9, NextCases
  DEF StartEnable, StartDisable, StartUpdate, StartRepair, StartTeardown, Ops

-----------------------------------------------------------------------------
(* The tools that are on. *)

LEMMA NoToolOff == ASSUME NEW S \in SUBSET Choices PROVE NoTool \notin S
  BY UpkeepPlanAssumption, LedgerAssumption DEF Choices

LEMMA SaveEffective ==
  ASSUME TypeOK, Control, ClaudeFits, EffectiveFits,
         SaveState \/ SaveAnswers \/ SyncConfig
  PROVE  EffectiveFits'
<1>1. Changing /\ Changing' /\ UNCHANGED <<op, on, target>>
  BY SavingDone DEF SaveState, SaveAnswers, SyncConfig, SaveUnchanged, startVars,
     Changing
<1>2. /\ Effective \in SUBSET Choices /\ on \in SUBSET Choices
      /\ ClaudeCode \in on <=> ClaudeCode \in Effective
      /\ "config" \in present => ClaudeCode \in Effective
  BY <1>1, EffectiveType DEF TypeOK, ClaudeFits, Effective
<1>3. CASE SaveState
  <2>1. /\ UNCHANGED <<answers, optOut>> /\ present \subseteq present'
        /\ "config" \in present' => "config" \in present
        /\ pc' = IF op = "repair" THEN "finish" ELSE "answers"
        /\ pc = "files"
    BY <1>3 DEF SaveState, FilesDone
  <2>2. op = "repair" => Effective = on
    BY <1>1, <1>2, NoToolOff DEF EffectiveFits
  <2>3. Effective' = Effective
    BY <2>1 DEF Effective
  <2>4. QED
    BY <1>1, <2>1, <2>2, <2>3 DEF EffectiveFits
<1>4. CASE SaveAnswers
  <2>1. /\ answers' = on /\ UNCHANGED optOut
        /\ "config" \in present' <=> "config" \in present
        /\ "answers" \in present'
        /\ pc' = "config" /\ pc = "answers"
    BY <1>4 DEF SaveAnswers, SaveUnchanged
  <2>2. Effective' = on \cup (IF ClaudeCode \in on THEN AlwaysOn \ optOut ELSE {})
    BY <1>2, <2>1 DEF Effective
  <2>3. ClaudeCode \in on => AlwaysOn \ optOut \subseteq Effective
    BY <1>2 DEF Effective
  <2>4. on \subseteq Effective' /\ Effective' \subseteq on \cup {target}
    BY <1>1, <2>2, <2>3 DEF EffectiveFits
  <2>5. QED
    BY <1>1, <2>1, <2>4 DEF EffectiveFits
<1>5. CASE SyncConfig
  <2>1. /\ answers = on /\ UNCHANGED <<answers, present>> /\ pc' = "finish"
        /\ optOut' = IF "config" \in present THEN AlwaysOn \ on ELSE optOut
    BY <1>1, <1>5 DEF SyncConfig, SaveUnchanged, EffectiveFits
  <2>2. Effective' = on
    BY <1>1, <1>2, <2>1 DEF Effective, EffectiveFits
  <2>3. QED
    BY <1>1, <2>1, <2>2 DEF EffectiveFits
<1>6. QED
  BY <1>3, <1>4, <1>5

LEMMA StartEffective ==
  ASSUME TypeOK, EffectiveFits,
         \/ \E t \in Registry, f \in BOOLEAN : StartEnable(t, f) \/ StartDisable(t, f)
         \/ \E f \in BOOLEAN : StartUpdate(f)
         \/ \E f, reset \in BOOLEAN : StartRepair(f, reset)
         \/ StartTeardown
  PROVE  EffectiveFits'
<1>1. /\ UNCHANGED <<answers, optOut, present>> /\ Effective' = Effective
      /\ pc' = "files" /\ op' \in Ops
  BY DEF StartEnable, StartDisable, StartUpdate, StartRepair, StartTeardown, Begin,
     recordVars, Effective, Ops
<1>2. ClaudeCode \in Effective => AlwaysOn \ optOut \subseteq Effective
  BY UpkeepPlanAssumption, UpkeepAssumption DEF Effective
<1>3. /\ ClaudeCode \notin Registry
      /\ "answers" \notin present => answers = {}
      /\ "config" \notin present =>
           optOut = {} /\ (ClaudeCode \in Effective => AlwaysOn \subseteq Effective)
  BY <1>2, UpkeepPlanAssumption DEF EffectiveFits
<1>4. ASSUME NEW t \in Registry, NEW f \in BOOLEAN, StartEnable(t, f)
      PROVE  EffectiveFits'
  <2>1. /\ op' = "enable" /\ target' = t /\ on' = Effective \cup {t}
        /\ t \notin Effective
    BY <1>4 DEF StartEnable, Begin
  <2>2. QED
    BY <1>1, <1>3, <2>1 DEF EffectiveFits
<1>5. ASSUME NEW t \in Registry, NEW f \in BOOLEAN, StartDisable(t, f)
      PROVE  EffectiveFits'
  <2>1. /\ op' = "disable" /\ target' = t /\ on' = Effective \ {t}
        /\ t \in Effective /\ (t \in AlwaysOn => "config" \in present)
    BY <1>5 DEF StartDisable, Begin
  <2>2. QED
    BY <1>1, <1>3, <2>1 DEF EffectiveFits
<1>6. CASE \/ \E f \in BOOLEAN : StartUpdate(f)
           \/ \E f, reset \in BOOLEAN : StartRepair(f, reset)
  <2>1. op' \in {"update", "repair"} /\ target' = NoTool /\ on' = Effective
    BY <1>6 DEF StartUpdate, StartRepair, Begin
  <2>2. QED
    BY <1>1, <1>3, <2>1 DEF EffectiveFits
<1>7. CASE StartTeardown
  <2>1. op' = "teardown"
    BY <1>7 DEF StartTeardown, Begin
  <2>2. QED
    BY <1>1, <1>3, <2>1 DEF EffectiveFits, Changing
<1>8. QED
  BY <1>4, <1>5, <1>6, <1>7

LEMMA EffectiveStep ==
  ASSUME TypeOK, Control, ClaudeFits, EffectiveFits, [Next]_vars
  PROVE  EffectiveFits'
<1>1. CASE UNCHANGED <<answers, optOut, present, op, on, target, pc>>
  BY <1>1 DEF EffectiveFits, Effective, Changing
<1>2. ASSUME NEW p \in Paths, FileStep(p) PROVE EffectiveFits'
  BY <1>1, <1>2, FileStepFrame
<1>3. CASE StartRecord \/ RemoveOwn \/ RecordRemoved \/ RemoveDirs
  <2>1. op = "teardown" /\ op' = op
    BY <1>3 DEF StartRecord, RemoveOwn, RecordRemoved, RemoveDirs, SaveUnchanged,
       startVars, Control, Changing, TypeOK, Ops
  <2>2. /\ "config" \notin present' => optOut' = {}
        /\ "answers" \notin present' => answers' = {}
    BY <1>3 DEF StartRecord, RemoveOwn, RecordRemoved, RemoveDirs, Loses, recordVars,
       EffectiveFits
  <2>3. QED
    BY <2>1, <2>2 DEF EffectiveFits, Changing
<1>4. CASE Finish \/ Crash \/ \E p \in Paths : ChangeStops(p)
  <2>1. op' = "none" /\ UNCHANGED <<present, optOut, answers>>
    BY <1>4 DEF Finish, Crash, ChangeStops, Idle, recordVars
  <2>2. QED
    BY <2>1 DEF EffectiveFits, Changing
<1>5. ASSUME NEW p \in Paths, UserEdit(p) \/ UserDelete(p) \/ AcceptSidecar(p)
      PROVE  EffectiveFits'
  BY <1>1, <1>5 DEF UserEdit, UserDelete, AcceptSidecar, UserChanges, recordVars,
     cmdVars, startVars
<1>6. CASE UNCHANGED vars
  BY <1>1, <1>6 DEF vars, recordVars, cmdVars, startVars
<1>7. QED
  BY <1>2, <1>3, <1>4, <1>5, <1>6, SaveEffective, StartEffective, NextCases
-----------------------------------------------------------------------------
(* The order of the stages. *)

\* A step on p waits for every file of an earlier stage.
LEMMA TurnWaits ==
  ASSUME NEW p \in Paths, Turn(p), NEW q \in todo \ {p}
  PROVE  ~(Stage(q) < Stage(p))
  BY DEF Turn, Before

LEMMA StageOf ==
  ASSUME NEW p \in Paths
  PROVE  /\ plan[p] = "write" => Stage(p) = 0
         /\ plan[p] \in {"create", "regenerate", "merge"} => Stage(p) = 1
         /\ plan[p] \in {"remove", "untrack"} => Stage(p) = 2
  BY DEF Stage

\* What a step drops hosts no tool that stays on with its hooks.
LEMMA StepDrops ==
  ASSUME TypeOK, Control, StagesFit, Changing, NEW p \in Paths, FileStep(p),
         NEW q \in dropped' \ dropped
  PROVE  /\ q = p /\ Hosts[p] \cap Hooking(on) = {}
         /\ Hosts[p] # {} => plan[p] \in {"remove", "untrack"} /\ Turn(p)
<1>1. q \in Paths /\ q = p
  <2>1. q \in Paths
    BY FileStepTypes DEF TypeOK
  <2>2. QED
    BY <2>1, FileStepOne
<1>2. /\ plan[p] \in {"delete", "remove", "untrack"} /\ Turn(p)
  BY <1>1, FileStepOutcome DEF WriteFile, MergeFile, RepairFile, Writes,
     StripSection, RemoveFile, UntrackFile, CleanFile, LeavesAlone, Fails,
     Control
<1>3. CASE plan[p] = "delete"
  <2>1. Hosts[p] = {}
    BY <1>3, LibraryKinds DEF StagesFit
  <2>2. QED
    BY <1>1, <2>1
<1>4. CASE plan[p] \in {"remove", "untrack"}
  <2>1. p \notin Produced(on)
    BY <1>4 DEF StagesFit
  <2>2. QED
    BY <1>1, <1>2, <1>4, <2>1, LibraryOutput
<1>5. QED
  BY <1>2, <1>3, <1>4

LEMMA StagesFileStep ==
  ASSUME TypeOK, Control, PlanFits, StagesFit, NEW p \in Paths, FileStep(p)
  PROVE  StagesFit'
<1>1. /\ UNCHANGED <<op, on, plan>> /\ todo' \subseteq todo \ {p} /\ p \in todo
      /\ todo \subseteq Paths
  BY FileStepFrame DEF TypeOK
<1> SUFFICES ASSUME Changing PROVE StagesFit'
  BY <1>1 DEF StagesFit, Changing
<1>2. \A q \in dropped' : Hosts[q] \cap Hooking(on) = {}
  BY StepDrops DEF StagesFit
<1>3. ASSUME op = "enable", NEW s \in Settings, Tracked(out'[s]), NEW q \in todo'
      PROVE  plan[q] # "write"
  <2>1. CASE Tracked(out[s])
    BY <1>1, <1>3, <2>1 DEF StagesFit
  <2>2. CASE ~Tracked(out[s])
    <3>1. s = p /\ s \in Paths
      BY <1>3, <2>2, SettingsKinds, FileStepOne
    <3>2. Turn(p) /\ plan[p] \in {"write", "create", "regenerate", "merge", "repair"}
      BY <1>3, <2>2, <3>1, SettingsWritten DEF WriteFile, MergeFile, RepairFile
    <3>3. plan[p] \in {"create", "regenerate", "merge"}
      BY <1>1, <1>3, <3>1, <3>2 DEF StagesFit, PlanFits
    <3>4. plan[q] = "write" => Stage(q) < Stage(p)
      BY <1>1, <3>3, StageOf
    <3>5. QED
      BY <1>1, <3>2, <3>4, TurnWaits
  <2>3. QED
    BY <2>1, <2>2
<1>4. ASSUME op = "disable", NEW q \in dropped', Hosts[q] # {},
             NEW s \in Settings \cap todo'
      PROVE  plan[s] # "merge"
  <2>1. CASE q \in dropped
    BY <1>1, <1>4, <2>1 DEF StagesFit
  <2>2. CASE q \notin dropped
    <3>1. q = p /\ plan[p] \in {"remove", "untrack"} /\ Turn(p)
      BY <1>4, <2>2, StepDrops
    <3>2. plan[s] = "merge" => Stage(s) < Stage(p)
      BY <1>1, <3>1, StageOf
    <3>3. QED
      BY <1>1, <3>1, <3>2, TurnWaits
  <2>3. QED
    BY <2>1, <2>2
<1>5. QED
  BY <1>1, <1>2, <1>3, <1>4 DEF StagesFit, Changing, Hooking

\* What an enable plans: nothing is dropped and no settings are overwritten.
LEMMA EnableStages ==
  ASSUME NEW t \in Registry, NEW st, NEW d, NEW S, NEW p \in Paths
  PROVE  /\ PlanEnable(t, st, d, S)[p] \notin {"remove", "untrack", "delete"}
         /\ PlanEnable(t, st, d, S)[p] = "write" => p \notin Settings
<1>1. PlanShared(t, st, d, S, FALSE)[p] \in
        {"none", "create", "regenerate", "merge", "sidecar", "hold", "skip"}
  BY SharedShape
<1>2. p \in EnableWrites(t, st, d, S) => p \notin Settings
  BY OwnNotShared, LibraryKinds DEF EnableWrites, Support
<1>3. QED
  BY <1>1, <1>2 DEF PlanEnable

LEMMA DisableStages ==
  ASSUME LedgerFits, NEW t \in Registry, NEW S, NEW p \in Paths,
         NEW a, a = PlanDisable(t, state, disk, S)[p]
  PROVE  /\ a # "write"
         /\ a \in {"remove", "untrack"} => p \notin Produced(S)
         /\ a = "delete" => Owner[p] \in Registry
<1>1. PlanShared(t, state, disk, S, TRUE)[p] \in
        {"none", "create", "regenerate", "merge", "sidecar", "hold", "skip"}
  BY SharedShape
<1>2. PlanOrphan(p, state[p], disk[p]) \in {"remove", "untrack"}
  BY OrphanType
<1>3. /\ p \in Removable(t, state, disk) =>
           Owner[p] \in Registry /\ ~SupportOrphan(p, state[p], S)
                /\ p \notin SharedBy(t)
      /\ p \in SharedBy(t) => ~SupportOrphan(p, state[p], S)
  BY DisableApart DEF LedgerFits, Exclusive
<1>4. SupportOrphan(p, state[p], S) => p \notin Produced(S)
  BY DEF SupportOrphan
<1>5. CASE p \in Removable(t, state, disk)
  BY <1>3, <1>5 DEF PlanDisable
<1>6. CASE SupportOrphan(p, state[p], S)
  BY <1>2, <1>3, <1>4, <1>6 DEF PlanDisable
<1>7. CASE p \notin Removable(t, state, disk) /\ ~SupportOrphan(p, state[p], S)
  BY <1>1, <1>7 DEF PlanDisable
<1>8. QED
  BY <1>5, <1>6, <1>7

LEMMA BeginStages ==
  ASSUME NEW o \in Ops \ {"none", "teardown"}, NEW S, NEW t, NEW f, NEW pl, NEW gone,
         Begin(o, S, t, f, pl, gone),
         \A p \in gone : Hosts[p] = {},
         \A p \in Paths : /\ pl[p] \in {"remove", "untrack"} => p \notin Produced(S)
                          /\ pl[p] = "write" => p \notin Settings
                          /\ pl[p] = "delete" => Owner[p] \in Registry
  PROVE  StagesFit'
<1>1. /\ op' = o /\ on' = S /\ plan' = pl /\ dropped' = gone
      /\ todo' \subseteq Paths /\ out' = NoEntries
  BY DEF Begin
<1>2. \A s \in Settings : ~Tracked(out'[s])
  BY <1>1, SettingsKinds DEF NoEntries, Untracked, Tracked
<1>3. QED
  BY <1>1, <1>2 DEF StagesFit

LEMMA StartStages ==
  ASSUME TypeOK, LedgerFits,
         \/ \E t \in Registry, f \in BOOLEAN : StartEnable(t, f) \/ StartDisable(t, f)
         \/ \E f \in BOOLEAN : StartUpdate(f)
         \/ \E f, reset \in BOOLEAN : StartRepair(f, reset)
         \/ StartTeardown
  PROVE  StagesFit'
<1>1. ASSUME NEW t \in Registry, NEW f \in BOOLEAN, StartEnable(t, f)
      PROVE  StagesFit'
  BY <1>1, EnableStages, BeginStages DEF StartEnable, Ops
<1>2. ASSUME NEW t \in Registry, NEW f \in BOOLEAN, StartDisable(t, f)
      PROVE  StagesFit'
  <2>1. \A p \in Gone(t, disk) : Hosts[p] = {}
    BY LibraryKinds DEF Gone, Candidates, Exclusive
  <2> DEFINE S == Effective \ {t}
             pl == PlanDisable(t, state, disk, S)
  <2>2. Begin("disable", S, t, f, pl, Gone(t, disk))
    BY <1>2 DEF StartDisable
  <2> HIDE DEF S
  <2>3. \A p \in Paths : /\ pl[p] \in {"remove", "untrack"} => p \notin Produced(S)
                         /\ pl[p] = "write" => p \notin Settings
                         /\ pl[p] = "delete" => Owner[p] \in Registry
    BY DisableStages
  <2> HIDE DEF pl
  <2>4. QED
    BY <2>1, <2>2, <2>3, BeginStages DEF Ops
<1>3. ASSUME NEW f \in BOOLEAN, StartUpdate(f) PROVE StagesFit'
  <2> DEFINE pl == PlanUpdate(state, disk, Effective, f)
  <2>1. Begin("update", Effective, NoTool, f, pl, {})
    BY <1>3 DEF StartUpdate
  <2>2. \A p \in Paths :
          /\ pl[p] \in {"remove", "untrack"} => p \notin Produced(Effective)
          /\ pl[p] \notin {"write", "delete"}
    <3> SUFFICES ASSUME NEW p \in Paths
                 PROVE  /\ pl[p] \in {"remove", "untrack"} => p \notin Produced(Effective)
                        /\ pl[p] \notin {"write", "delete"}
      OBVIOUS
    <3>1. EntryClean(p, state[p])
      BY DEF LedgerFits, EntryFits
    <3>2. /\ pl[p] \in {"none", "create", "regenerate", "merge", "sidecar", "hold",
                        "skip", "remove", "untrack"}
          /\ pl[p] \in {"create", "regenerate", "merge", "sidecar", "hold", "skip"}
               <=> p \in Produced(Effective)
      BY <3>1, UpdateShape
    <3> HIDE DEF pl
    <3>3. QED
      BY <3>2
  <2> HIDE DEF pl
  <2>3. QED
    BY <2>1, <2>2, BeginStages DEF Ops
<1>4. ASSUME NEW f \in BOOLEAN, NEW r \in BOOLEAN, StartRepair(f, r) PROVE StagesFit'
  <2> DEFINE pl == PlanRepair(state, disk, Effective, f, r)
  <2>1. Begin("repair", Effective, NoTool, f, pl, {})
    BY <1>4 DEF StartRepair
  <2>2. \A p \in Paths : pl[p] \in {"none", "repair"}
    BY DEF PlanRepair
  <2> HIDE DEF pl
  <2>3. QED
    BY <2>1, <2>2, BeginStages DEF Ops
<1>5. CASE StartTeardown
  BY <1>5 DEF StartTeardown, Begin, StagesFit, Changing
<1>6. QED
  BY <1>1, <1>2, <1>3, <1>4, <1>5

LEMMA StagesStep ==
  ASSUME TypeOK, LedgerFits, Control, PlanFits, StagesFit, [Next]_vars
  PROVE  StagesFit'
<1>1. CASE UNCHANGED <<op, on, plan, todo, out, dropped>>
  BY <1>1 DEF StagesFit, Changing, Hooking
<1>2. CASE \/ SaveState \/ SaveAnswers \/ SyncConfig \/ StartRecord \/ RemoveOwn
           \/ RecordRemoved \/ RemoveDirs
  BY <1>1, <1>2 DEF SaveState, SaveAnswers, SyncConfig, StartRecord, RemoveOwn,
     RecordRemoved, RemoveDirs, SaveUnchanged, startVars
<1>3. CASE Finish \/ Crash \/ \E p \in Paths : ChangeStops(p)
  BY <1>3 DEF Finish, Crash, ChangeStops, Idle, StagesFit, Changing
<1>4. ASSUME NEW p \in Paths, UserEdit(p) \/ UserDelete(p) \/ AcceptSidecar(p)
      PROVE  StagesFit'
  BY <1>1, <1>4 DEF UserEdit, UserDelete, AcceptSidecar, UserChanges, cmdVars,
     startVars
<1>5. CASE UNCHANGED vars
  BY <1>1, <1>5 DEF vars, cmdVars, startVars
<1>6. QED
  BY <1>2, <1>3, <1>4, <1>5, StagesFileStep, StartStages, NextCases
-----------------------------------------------------------------------------
(* What the settings register while a command runs. *)

LEMMA TargetOn ==
  ASSUME TypeOK, Control, EffectiveFits, Changing, target \in on
  PROVE  op = "enable"
  BY NoToolOff DEF TypeOK, Control, EffectiveFits, Changing

\* Written settings register what is on; others keep what they registered, and
\* a disable's merge of them does not fail on what it must take out.
LEMMA SettingsStep ==
  ASSUME TypeOK, Control, PlanFits, SettingsFit, EffectiveFits, RunningHooks, Changing,
         NEW s \in Settings, FileStep(s), s \in Live'
  PROVE  /\ Registers(s)' \subseteq Hooking(on) \cup {target}
         /\ target \in Registers(s)' =>
              ClaudeCode \in on /\ op = "enable" /\ Tracked(out'[s])
<1>1. /\ s \in Paths /\ s \in todo /\ plan[s] # "clean"
      /\ UNCHANGED <<on, op, torn, target, state>> /\ disk \in [Paths -> Content]
  BY SettingsKinds, FileStepFrame DEF Control, TypeOK
<1>2. CASE Tracked(out'[s]) /\ ClaudeCode \in on /\ Accounted(s)' \subseteq on
  <2>1. Registers(s)' \subseteq on
    BY <1>2 DEF Registers
  <2>2. QED
    BY <1>2, <2>1, TargetOn DEF Hooking
<1>3. CASE disk'[s] = Absent
  BY <1>3 DEF Registers, Accounted, SectionsOf, Absent
<1>4. CASE disk'[s] = disk[s] /\ out'[s] = out[s] /\ touched' = touched
           /\ ~(op = "disable" /\ plan[s] = "merge" /\ disk[s].edit = 0 /\ disk[s].gen # 0)
  <2>1. s \in Live /\ Registers(s)' = Registers(s)
    BY <1>1, <1>4 DEF Live, Registers, Accounted, SectionsOf
  <2>2. QED
    BY <1>4, <2>1 DEF RunningHooks, Registers, Accounted, SectionsOf
<1>6. CASE WriteFile(s) \/ MergeFile(s) \/ RepairFile(s)
  <2>1. Tracked(out'[s])
    BY <1>1, <1>6, WrittenExact
  <2>2. ~Tracked(out[s])
    BY <1>1 DEF PlanFits
  <2>3. QED
    BY <1>2, <2>1, <2>2, SettingsWritten
<1>7. CASE StripSection(s)
  <2>1. on \in SUBSET Choices
    BY DEF TypeOK
  <2>2. QED
    BY <1>1, <1>7, <2>1, SettingsProduced DEF StripSection, PlanFits
<1>8. CASE RemoveFile(s)
  BY <1>1, <1>3, <1>8 DEF RemoveFile
<1>9. CASE UntrackFile(s)
  BY <1>4, <1>9 DEF UntrackFile, fileVars
<1>10. plan[s] = "merge" /\ op = "disable" => MergeFile(s) \/ MergeFails(s)
  BY DEF FileStep, WriteFile, WriteSidecar, SkipFile, RemoveFile, RemoveFails,
     UntrackFile, StripSection, StripFails, RepairFile, RepairFails, CleanFile,
     CleanFails, UpdateStops
<1>11. CASE LeavesAlone \/ Fails(s)
  BY <1>4, <1>6, <1>10, <1>11 DEF LeavesAlone, Fails, MergeFails, Absent
<1>12. QED
  BY <1>1, <1>6, <1>7, <1>8, <1>9, <1>11, FileStepOutcome DEF CleanFile

\* A step that leaves a library on the record leaves it on disk, and only a
\* write takes one off the list of those to write.
LEMMA LibraryStep ==
  ASSUME TypeOK, Control, PlanFits, RunningHooks, Changing,
         NEW p \in Paths, FileStep(p), p \in Live' \ dropped'
  PROVE  /\ Hosts[p] \cap (Hooking(on) \ {target}) # {} => disk'[p] # Absent
         /\ target \in Hosts[p] /\ ClaudeCode \in on => disk'[p] # Absent
<1>1. plan[p] # "clean" /\ torn' = torn /\ 0 \notin Versions
  BY FileStepFrame, LedgerAssumption DEF Control, Versions
<1>2. CASE \/ WriteFile(p) \/ MergeFile(p) \/ RepairFile(p)
           \/ StripSection(p) /\ target \in SectionsOf(disk[p])
  BY <1>1, <1>2, WrittenExact DEF Absent
<1>3. CASE RemoveFile(p) \/ UntrackFile(p)
  BY <1>3 DEF RemoveFile, UntrackFile
<1>4. CASE (LeavesAlone \/ Fails(p)) /\ plan[p] # "write"
  <2>1. disk' = disk /\ p \in Live \ dropped
    BY <1>1, <1>4 DEF LeavesAlone, Fails, Live
  <2>2. QED
    BY <1>4, <2>1 DEF RunningHooks
<1>5. QED
  BY <1>1, <1>2, <1>3, <1>4, FileStepOutcome DEF CleanFile

LEMMA RunningFileStep ==
  ASSUME TypeOK, Control, PlanFits, SettingsFit, EffectiveFits, RunningHooks,
         NEW p \in Paths, FileStep(p)
  PROVE  RunningHooks'
<1>1. /\ UNCHANGED <<op, on, target, plan, torn, state>>
      /\ op # "update" => todo' = todo \ {p}
  BY FileStepFrame
<1> SUFFICES ASSUME Changing PROVE RunningHooks'
  BY <1>1 DEF RunningHooks, Changing
<1>2. \A q \in Paths \ {p} : /\ disk'[q] = disk[q] /\ out'[q] = out[q]
                             /\ q \in dropped' <=> q \in dropped
                             /\ q \in Live' <=> q \in Live
                             /\ Registers(q)' = Registers(q)
  BY <1>1, FileStepOne DEF Live, Registers, Accounted, SectionsOf
<1>3. ASSUME NEW s \in Settings \cap Live'
      PROVE  /\ Registers(s)' \subseteq Hooking(on) \cup {target}
             /\ target \in Registers(s)' =>
                  /\ ClaudeCode \in on
                  /\ \/ op = "enable" /\ Tracked(out'[s])
                     \/ op = "disable" /\ s \in todo' /\ plan[s] = "merge"
  <2>1. CASE s = p
    BY <1>3, <2>1, SettingsStep
  <2>2. CASE s # p
    <3>1. s \in Paths
      BY SettingsKinds
    <3>2. /\ out'[s] = out[s] /\ s \in Live /\ Registers(s)' = Registers(s)
      BY <1>2, <2>2, <3>1
    <3>3. QED
      BY <1>1, <2>2, <3>2 DEF RunningHooks
  <2>3. QED
    BY <2>1, <2>2
<1>4. ASSUME NEW l \in Live' \ dropped'
      PROVE  /\ Hosts[l] \cap (Hooking(on) \ {target}) # {} => disk'[l] # Absent
             /\ target \in Hosts[l] /\ ClaudeCode \in on =>
                  \/ disk'[l] # Absent
                  \/ op = "enable" /\ l \in todo' /\ plan[l] = "write"
  <2>1. CASE l = p
    BY <2>1, <1>4, LibraryStep
  <2>2. CASE l # p
    <3>1. l \in Paths
      BY DEF Live
    <3>2. disk'[l] = disk[l] /\ l \in Live \ dropped
      BY <1>2, <2>2, <3>1
    <3>3. QED
      BY <1>1, <2>2, <3>2 DEF RunningHooks
  <2>3. QED
    BY <2>1, <2>2
<1>5. Changing'
  BY <1>1 DEF Changing
<1>6. QED
  BY <1>1, <1>3, <1>4, <1>5 DEF RunningHooks, Hooking

LEMMA RunningSave ==
  ASSUME TypeOK, Control, RecordFits, SettingsFit, EffectiveFits, RunningHooks,
         SaveState
  PROVE  RunningHooks'
<1>1. /\ UNCHANGED <<disk, op, on, target, plan, todo, out, dropped, touched>>
      /\ torn' \subseteq torn
      /\ \A p \in torn \ torn' :
           Tracked(out[p]) \/ (p \in dropped /\ disk[p] = Absent)
      /\ Changing
  BY SavedRecord, SavingDone
<1>2. \A p \in Live' \ Live :
        /\ p \in Paths
        /\ \/ Tracked(out[p]) /\ disk[p] = out[p].hash
           \/ p \in dropped /\ disk[p] = Absent
  BY <1>1 DEF Live, RecordFits
<1>3. \A s \in Settings : Registers(s)' \subseteq Registers(s)
  <2>1. \A s \in Settings : state'[s] \in {out[s], Untracked, state[s]}
    BY SettingsKinds, SavedRecord DEF Pending
  <2>2. QED
    BY <1>1, <2>1 DEF Registers, Accounted, SectionsOf, Untracked, Absent
<1>4. ASSUME NEW s \in Settings \cap Live'
      PROVE  /\ Registers(s)' \subseteq Hooking(on) \cup {target}
             /\ target \in Registers(s)' =>
                  /\ ClaudeCode \in on
                  /\ \/ op = "enable" /\ Tracked(out[s])
                     \/ op = "disable" /\ s \in todo /\ plan[s] = "merge"
  <2>1. CASE s \in Live
    BY <1>1, <1>3, <2>1 DEF RunningHooks
  <2>2. CASE s \notin Live /\ Tracked(out[s])
    <3>1. state'[s] = out[s]
      BY <2>2, SettingsKinds, SavedRecord DEF Pending
    <3>2. Registers(s)' \subseteq SectionsOf(out[s].base)
      BY <1>1, <3>1 DEF Registers, Accounted, SectionsOf
    <3>3. SectionsOf(out[s].base) \subseteq Hooking(on)
      BY <1>1 DEF SettingsFit
    <3>4. QED
      BY <2>2, <3>2, <3>3, <1>1, TargetOn DEF Hooking
  <2>3. CASE disk[s] = Absent
    BY <1>1, <2>3 DEF Registers, Accounted, SectionsOf, Absent
  <2>4. QED
    BY <1>2, <2>1, <2>2, <2>3
<1>5. ASSUME NEW l \in Live' \ dropped
      PROVE  /\ Hosts[l] \cap (Hooking(on) \ {target}) # {} => disk[l] # Absent
             /\ target \in Hosts[l] /\ ClaudeCode \in on =>
                  \/ disk[l] # Absent
                  \/ op = "enable" /\ l \in todo /\ plan[l] = "write"
  <2>1. CASE l \in Live
    BY <1>1, <2>1 DEF RunningHooks
  <2>2. CASE l \notin Live
    BY <1>2, <2>2 DEF Tracked
  <2>3. QED
    BY <2>1, <2>2
<1>6. QED
  BY <1>1, <1>4, <1>5 DEF RunningHooks, Changing, Hooking

\* A disable merges the settings that register its target's hooks.
LEMMA DisableMerges ==
  ASSUME TypeOK, LedgerFits, SettingsFit, NEW t \in Registry, NEW S \in SUBSET Choices,
         ClaudeCode \in S, NEW s \in Settings, Exact(s, state[s]),
         t \in SectionsOf(disk[s]) \cap SectionsOf(state[s].base)
  PROVE  PlanDisable(t, state, disk, S)[s] = "merge"
<1> DEFINE made == SharedBy(t) \cap Produced(S)
           draft == [q \in Paths |->
                       IF q \in made
                       THEN PlanGenerated(q, state[q], disk[q], Output(q, S), FALSE)
                       ELSE "none"]
           b == PlanShared(t, state, disk, S, TRUE)[s]
<1>1. /\ s \in Paths /\ Strategy[s] = "threeWay" /\ HeldWith[s] = NoPath
      /\ NoPath \notin Paths /\ s \in Produced(S)
  BY SettingsKinds, SettingsProduced, LedgerAssumption
<1>2. Tracked(state[s]) /\ disk[s] = state[s].hash /\ disk[s] # Absent
  BY DEF Exact, SectionsOf, Absent
<1>3. s \in made
  BY <1>1, <1>2 DEF SettingsFit, SharedBy
<1>4. PlanGenerated(s, state[s], disk[s], Output(s, S), FALSE) = "merge"
  BY <1>1, <1>2 DEF PlanGenerated, PlanTracked, Status, Mergeable
<1>5. draft[s] = "merge"
  BY <1>1, <1>3, <1>4
<1>6. NoPath \notin made
  BY <1>1 DEF SharedBy
<1>7. HoldPaired(s, draft, made, disk) = "merge"
  <2> HIDE DEF draft, made
  <2>1. QED
    BY <1>1, <1>5, <1>6 DEF HoldPaired
<1>8. b = CASE s \in made /\ HoldPaired(s, draft, made, disk) = "skip"
                 /\ Strategy[s] = "manualMerge" /\ ~Tracked(state[s])
                 /\ disk[s] # Absent -> "sidecar"
            [] s \in made /\ HoldPaired(s, draft, made, disk) = "create" -> "none"
            [] s \notin made -> "none"
            [] OTHER -> HoldPaired(s, draft, made, disk)
  BY <1>1 DEF PlanShared
<1>9. b = "merge"
  <2> HIDE DEF draft, made, b
  <2>1. QED
    BY <1>3, <1>7, <1>8
<1>10. s \notin Removable(t, state, disk) /\ ~SupportOrphan(s, state[s], S)
  BY <1>1 DEF Removable, Candidates, SupportOrphan
<1>11. PlanDisable(t, state, disk, S)[s] =
         IF s \in SharedBy(t) \cap Strippable /\ b = "none" /\ Tracked(state[s])
         THEN "strip" ELSE b
  BY <1>1, <1>10 DEF PlanDisable
<1>12. QED
  <2> HIDE DEF b
  <2>1. QED
    BY <1>9, <1>11

\* An enable writes every library of its target that is not there.
LEMMA EnableWritesLibrary ==
  ASSUME NEW t \in Registry, NEW l \in Paths, t \in Hosts[l], disk[l] = Absent,
         NEW S, t \in S, ClaudeCode \in S
  PROVE  PlanEnable(t, state, disk, S)[l] = "write"
<1>1. PICK q \in Paths : Owner[q] = t /\ Strategy[q] = "overwrite"
  BY FileKindsAssumption
<1>2. Absent # Gen(1)
  BY DEF Absent, Gen
<1>3. q \in Exclusive(t) /\ l \in Support(t)
  BY <1>1 DEF Exclusive, Support
<1>4. q \in Produced(S) /\ l \in Produced(S)
  BY <1>3, OwnOutput, SupportOutput
<1>5. l \in EnableWrites(t, state, disk, S)
  BY <1>1, <1>2, <1>3, <1>4 DEF EnableWrites
<1>6. QED
  BY <1>5 DEF PlanEnable

LEMMA StartHooks ==
  ASSUME TypeOK, LedgerFits, RecordFits, SettingsFit, IdleHooks,
         \/ \E t \in Registry, f \in BOOLEAN : StartEnable(t, f) \/ StartDisable(t, f)
         \/ \E f \in BOOLEAN : StartUpdate(f)
         \/ \E f, reset \in BOOLEAN : StartRepair(f, reset)
         \/ StartTeardown
  PROVE  RunningHooks'
<1>1. /\ UNCHANGED <<disk, touched, torn, state>> /\ op = "none"
      /\ op' # "teardown" => out' = NoEntries
  BY DEF StartEnable, StartDisable, StartUpdate, StartRepair, StartTeardown, Begin,
     fileVars, recordVars
<1>2. Live' = Live
  BY <1>1 DEF Live
<1>3. /\ \A s \in Settings \cap Live : Registers(s) \subseteq Hooking(Effective)
      /\ \A l \in Live : Hosts[l] \cap Hooking(Effective) # {} => disk[l] # Absent
      /\ Effective \in SUBSET Choices /\ ClaudeCode \notin Registry
  BY <1>1, EffectiveType, UpkeepPlanAssumption DEF IdleHooks
<1>4. ASSUME op' # "teardown", NEW s \in Settings
      PROVE  /\ Registers(s)' \subseteq Registers(s)
             /\ Registers(s)' \subseteq SectionsOf(disk[s]) \cap SectionsOf(state[s].base)
  <2>1. SectionsOf(out'[s].base) = {}
    BY <1>4, <1>1, SettingsKinds DEF NoEntries, Untracked, Absent, SectionsOf
  <2>2. Registers(s)' = IF disk[s].edit = 0
                        THEN SectionsOf(disk[s]) \cap SectionsOf(state[s].base) ELSE {}
    BY <1>1, <2>1 DEF Registers, Accounted, SectionsOf
  <2>3. QED
    BY <2>2 DEF Registers, Accounted
<1>5. ASSUME NEW t \in Registry, NEW f \in BOOLEAN, StartEnable(t, f)
      PROVE  RunningHooks'
  <2> DEFINE S == Effective \cup {t}
             pl == PlanEnable(t, state, disk, S)
  <2>1. /\ op' = "enable" /\ target' = t /\ on' = S /\ t \notin Effective
        /\ plan' = pl /\ todo' = {p \in Paths : pl[p] # "none"}
    BY <1>5 DEF StartEnable, Begin
  <2>2. \A l \in Paths : t \in Hosts[l] /\ ClaudeCode \in S /\ disk[l] = Absent =>
                           pl[l] = "write"
    BY EnableWritesLibrary
  <2> HIDE DEF pl
  <2>3. \A l \in Paths : t \in Hosts[l] /\ ClaudeCode \in on' /\ disk[l] = Absent =>
                           l \in todo' /\ plan'[l] = "write"
    BY <2>1, <2>2
  <2>4. Live \subseteq Paths
    BY DEF Live
  <2>5. \A l \in Live : t \in Hosts[l] /\ ClaudeCode \in on' =>
          disk[l] # Absent \/ (l \in todo' /\ plan'[l] = "write")
    BY <2>3, <2>4
  <2>6. /\ Hooking(on') \ {t} = Hooking(Effective) /\ t \notin Hooking(Effective)
        /\ Hooking(Effective) \subseteq Hooking(on')
    BY <1>3, <2>1 DEF Hooking
  <2>7. \A s \in Settings \cap Live : Registers(s)' \subseteq Hooking(Effective)
    BY <1>4, <1>3, <2>1
  <2>8. QED
    BY <1>1, <1>2, <1>3, <2>1, <2>5, <2>6, <2>7 DEF RunningHooks, Hooking
<1>6. ASSUME NEW t \in Registry, NEW f \in BOOLEAN, StartDisable(t, f)
      PROVE  RunningHooks'
  <2> DEFINE S == Effective \ {t}
             pl == PlanDisable(t, state, disk, S)
  <2>1. /\ op' = "disable" /\ target' = t /\ on' = S /\ t \in Effective
        /\ plan' = pl /\ todo' = {p \in Paths : pl[p] # "none"}
    BY <1>6 DEF StartDisable, Begin
  <2>2. \A s \in Settings \cap Live : t \in Registers(s)' =>
          pl[s] = "merge" /\ ClaudeCode \in S
    <3> SUFFICES ASSUME NEW s \in Settings \cap Live, t \in Registers(s)'
                 PROVE  pl[s] = "merge" /\ ClaudeCode \in S
      OBVIOUS
    <3>1. Exact(s, state[s])
      BY <1>1 DEF RecordFits, Live
    <3>2. t \in Registers(s) /\ t \in SectionsOf(disk[s]) \cap SectionsOf(state[s].base)
      BY <1>4, <2>1
    <3>3. S \in SUBSET Choices /\ ClaudeCode \in S
      BY <1>3, <3>2 DEF Hooking
    <3>4. QED
      BY <3>1, <3>2, <3>3, DisableMerges
  <2> HIDE DEF pl
  <2>3. \A s \in Settings \cap Live : t \in Registers(s)' =>
          s \in todo' /\ plan'[s] = "merge" /\ ClaudeCode \in on'
    BY <2>1, <2>2, SettingsKinds
  <2>4. /\ Hooking(Effective) \subseteq Hooking(on') \cup {t}
        /\ Hooking(on') \subseteq Hooking(Effective)
        /\ ClaudeCode \in on' => t \in Hooking(Effective)
    BY <1>3, <2>1 DEF Hooking
  <2>5. \A l \in Live : /\ Hosts[l] \cap (Hooking(on') \ {t}) # {} => disk[l] # Absent
                        /\ t \in Hosts[l] /\ ClaudeCode \in on' => disk[l] # Absent
    BY <1>3, <2>1, <2>4
  <2>6. \A s \in Settings \cap Live : Registers(s)' \subseteq Hooking(Effective)
    BY <1>4, <1>3, <2>1
  <2>7. QED
    BY <1>1, <1>2, <2>1, <2>3, <2>4, <2>5, <2>6 DEF RunningHooks, Hooking
<1>7. CASE \/ \E f \in BOOLEAN : StartUpdate(f)
           \/ \E f, reset \in BOOLEAN : StartRepair(f, reset)
  <2>1. op' \in {"update", "repair"} /\ target' = NoTool /\ on' = Effective
    BY <1>7 DEF StartUpdate, StartRepair, Begin
  <2>2. /\ NoTool \notin Hooking(Effective)
        /\ \A l \in Live : NoTool \notin Hosts[l]
    BY <1>3, NoToolOff, UpkeepPlanAssumption, LedgerAssumption DEF Live, Hooking
  <2>3. Hooking(on') \ {NoTool} = Hooking(Effective)
    BY <2>1, <2>2 DEF Hooking
  <2>4. \A s \in Settings \cap Live : Registers(s)' \subseteq Hooking(Effective)
    BY <1>4, <1>3, <2>1
  <2>5. QED
    BY <1>1, <1>2, <1>3, <2>1, <2>2, <2>3, <2>4 DEF RunningHooks, Hooking
<1>8. CASE StartTeardown
  BY <1>8 DEF StartTeardown, Begin, RunningHooks, Changing
<1>9. QED
  BY <1>5, <1>6, <1>7, <1>8

\* A path the user changes is no longer live; the others keep what they have.
LEMMA UserHooks ==
  ASSUME TypeOK, NEW p \in Paths, UserEdit(p) \/ UserDelete(p) \/ AcceptSidecar(p)
  PROVE  /\ UNCHANGED <<op, on, target, pc, plan, todo, out, dropped, answers, optOut,
                        present, state>>
         /\ Live' = Live \ {p}
         /\ \A q \in Paths \ {p} : disk'[q] = disk[q] /\ Registers(q)' = Registers(q)
<1>1. PICK c : UserChanges(p, c)
  BY DEF UserEdit, UserDelete, AcceptSidecar
<1>2. /\ UNCHANGED <<op, on, target, pc, plan, todo, out, dropped, answers, optOut,
                     present, torn, state>>
      /\ touched' = touched \cup {p} /\ \A q \in Paths \ {p} : disk'[q] = disk[q]
  BY <1>1 DEF UserChanges, recordVars, cmdVars, startVars, TypeOK
<1>3. QED
  BY <1>2 DEF Live, Registers, Accounted, SectionsOf

LEMMA RunningStep ==
  ASSUME TypeOK, LedgerFits, Control, PlanFits, RecordFits, HookInv, [Next]_vars
  PROVE  RunningHooks'
<1>1. CASE UNCHANGED <<disk, op, on, target, plan, todo, out, dropped, touched, torn,
                       state>>
  <2>1. \A s : Registers(s)' = Registers(s)
    BY <1>1 DEF Registers, Accounted, SectionsOf
  <2>2. QED
    BY <1>1, <2>1 DEF HookInv, RunningHooks, Changing, Live, Hooking
<1>2. ASSUME NEW p \in Paths, FileStep(p) PROVE RunningHooks'
  BY <1>2, RunningFileStep DEF HookInv
<1>3. CASE SaveState
  BY <1>3, RunningSave DEF HookInv
<1>4. CASE SaveAnswers \/ SyncConfig
  BY <1>1, <1>4 DEF SaveAnswers, SyncConfig, SaveUnchanged, fileVars, startVars
<1>5. CASE StartRecord \/ RemoveOwn \/ RecordRemoved \/ RemoveDirs
  BY <1>5 DEF StartRecord, RemoveOwn, RecordRemoved, RemoveDirs, SaveUnchanged,
     startVars, Control, RunningHooks, Changing
<1>6. CASE Finish \/ Crash \/ \E p \in Paths : ChangeStops(p)
  BY <1>6 DEF Finish, Crash, ChangeStops, Idle, RunningHooks, Changing
<1>7. ASSUME NEW p \in Paths, UserEdit(p) \/ UserDelete(p) \/ AcceptSidecar(p)
      PROVE  RunningHooks'
  <2>1. /\ UNCHANGED <<op, on, target, plan, todo, out, dropped>>
        /\ Live' = Live \ {p} /\ Live \subseteq Paths
        /\ \A q \in Live' : disk'[q] = disk[q] /\ Registers(q)' = Registers(q)
    BY <1>7, UserHooks DEF Live
  <2>2. QED
    BY <2>1 DEF HookInv, RunningHooks, Changing, Hooking
<1>8. CASE UNCHANGED vars
  BY <1>1, <1>8 DEF vars, fileVars, recordVars, cmdVars, startVars
<1>9. QED
  BY <1>2, <1>3, <1>4, <1>5, <1>6, <1>7, <1>8, StartHooks, NextCases DEF HookInv

-----------------------------------------------------------------------------
(* What they register between commands. *)

\* However a command ends, what it leaves recorded fits the tools that are on.
LEMMA EndHooks ==
  ASSUME TypeOK, Control, ClaudeFits, EffectiveFits, StagesFit, RunningHooks, Changing,
         Finish \/ Crash \/ \E p \in Paths : ChangeStops(p)
  PROVE  IdleHooks'
<1>1. /\ UNCHANGED <<disk, answers, optOut, present, state, touched>>
      /\ Live \subseteq Paths /\ Effective' = Effective /\ out' = NoEntries
      /\ ClaudeCode \in on <=> ClaudeCode \in Effective
  BY DEF Finish, Crash, ChangeStops, Idle, fileVars, recordVars, Effective, Live,
     ClaudeFits
<1>2. \A s \in Settings : Registers(s)' \subseteq Registers(s)
  <2>1. \A s \in Settings : SectionsOf(out'[s].base) = {}
    BY <1>1, SettingsKinds DEF NoEntries, Untracked, Absent, SectionsOf
  <2>2. QED
    BY <1>1, <2>1 DEF Registers, Accounted, SectionsOf
<1>3. CASE Finish
  <2>1. pc = "finish" /\ todo = {} /\ Effective = on
    BY <1>3 DEF Finish, Control, EffectiveFits
  <2>2. Live' = Live
    BY <1>1, <1>3 DEF Finish, Changing, Live
  <2>3. \A s \in Settings \cap Live : Registers(s) \subseteq Hooking(on)
    BY <2>1 DEF RunningHooks, Control, Hooking
  <2>4. \A l \in Live : Hosts[l] \cap Hooking(on) # {} => disk[l] # Absent
    <3> SUFFICES ASSUME NEW l \in Live, Hosts[l] \cap Hooking(on) # {}
                 PROVE  disk[l] # Absent
      OBVIOUS
    <3>1. l \notin dropped /\ ClaudeCode \in on
      BY DEF StagesFit, Hooking
    <3>2. QED
      BY <2>1, <3>1 DEF RunningHooks
  <2>5. QED
    BY <1>1, <1>2, <2>1, <2>2, <2>3, <2>4 DEF IdleHooks, Hooking
<1>4. CASE Crash \/ \E p \in Paths : ChangeStops(p)
  <2>1. Live' = Live \ (Written \cup dropped)
    BY <1>1, <1>4 DEF Crash, ChangeStops, Changing, Live, LeftApart
  <2>2. \A p \in Live' : ~Tracked(out[p])
    BY <1>1, <2>1 DEF Written
  <2>3. /\ Hooking(on) \ {target} \subseteq Hooking(Effective)
        /\ Hooking(Effective) \subseteq Hooking(on) \cup {target}
        /\ op = "enable" /\ target \in Effective => todo = {}
        /\ op = "disable" /\ target \notin Effective => todo = {}
    BY <1>1 DEF EffectiveFits, Control, Hooking
  <2>4. \A s \in Settings \cap Live' : Registers(s) \subseteq Hooking(Effective)
    <3> SUFFICES ASSUME NEW s \in Settings \cap Live'
                 PROVE  Registers(s) \subseteq Hooking(Effective)
      OBVIOUS
    <3>1. /\ Registers(s) \subseteq Hooking(on) \cup {target}
          /\ target \in Registers(s) => ClaudeCode \in on /\ op = "disable" /\ s \in todo
      BY <2>1, <2>2 DEF RunningHooks
    <3>2. target \in Registers(s) => target \in Hooking(Effective)
      BY <1>1, <2>3, <3>1 DEF Hooking
    <3>3. QED
      BY <2>3, <3>1, <3>2
  <2>5. \A l \in Live' : Hosts[l] \cap Hooking(Effective) # {} => disk[l] # Absent
    <3> SUFFICES ASSUME NEW l \in Live', Hosts[l] \cap Hooking(Effective) # {}
                 PROVE  disk[l] # Absent
      OBVIOUS
    <3>1. /\ Hosts[l] \cap (Hooking(on) \ {target}) # {} => disk[l] # Absent
          /\ target \in Hosts[l] /\ ClaudeCode \in on =>
               disk[l] # Absent \/ (op = "enable" /\ l \in todo)
          /\ ClaudeCode \in Effective
      BY <2>1 DEF RunningHooks, Hooking
    <3>2. CASE target \in Hosts[l] /\ target \in Effective
      BY <1>1, <2>3, <3>1, <3>2
    <3>3. CASE Hosts[l] \cap (Hooking(on) \ {target}) # {}
      BY <3>1, <3>3
    <3>4. QED
      BY <2>3, <3>2, <3>3 DEF Hooking
  <2>6. QED
    BY <1>1, <1>2, <2>1, <2>4, <2>5 DEF IdleHooks, Hooking
<1>5. QED
  BY <1>3, <1>4

\* Once a teardown has deleted its record, qsdev accounts for no hook and no tool
\* is on; one that could not leaves nothing to rely on.
LEMMA TeardownHooks ==
  ASSUME TypeOK, RecordFits, SettingsFit, EffectiveFits, op = "teardown",
         Finish \/ Crash \/ \E p \in Paths : ChangeStops(p)
  PROVE  IdleHooks'
<1>1. ~\E p \in Paths : ChangeStops(p)
  BY DEF ChangeStops
<1>2. CASE Live' = {}
  BY <1>2 DEF IdleHooks
<1>3. CASE Finish /\ present = {}
  <2>1. /\ UNCHANGED <<state, present, answers, optOut>> /\ out' = NoEntries
        /\ Effective = {} /\ \A s \in Settings : ~Tracked(state[s])
    BY <1>3, SettingsKinds DEF Finish, Idle, recordVars, Effective, EffectiveFits,
       RecordFits
  <2>2. Effective' = {}
    BY <2>1 DEF Effective
  <2>3. \A s \in Settings : SectionsOf(state[s].base) = {} /\ SectionsOf(out'[s].base) = {}
    BY <2>1, SettingsKinds DEF SettingsFit, NoEntries, Untracked, Absent, SectionsOf
  <2>4. \A s \in Settings : Registers(s)' = {}
    BY <2>1, <2>3 DEF Registers, Accounted, SectionsOf
  <2>5. QED
    BY <2>2, <2>4 DEF IdleHooks, Hooking
<1>4. QED
  BY <1>1, <1>2, <1>3 DEF Finish, Crash, LeftApart, Live

LEMMA IdleStep ==
  ASSUME TypeOK, Control, RecordFits, ClaudeFits, HookInv, [Next]_vars
  PROVE  IdleHooks'
<1> SUFFICES ASSUME op' = "none" PROVE IdleHooks'
  BY DEF IdleHooks
<1>1. CASE UNCHANGED <<disk, op, answers, optOut, present, touched, torn, state, out>>
  <2>1. Effective' = Effective /\ \A s : Registers(s)' = Registers(s)
    BY <1>1 DEF Effective, Registers, Accounted, SectionsOf
  <2>2. QED
    BY <1>1, <2>1 DEF HookInv, IdleHooks, Live, Hooking
<1>2. ASSUME NEW p \in Paths, FileStep(p) PROVE FALSE
  <2>1. p \in todo /\ op' = op
    BY <1>2, FileStepFrame
  <2>2. QED
    BY <2>1 DEF Control
<1>3. CASE SaveState \/ SaveAnswers \/ SyncConfig
  <2>1. Changing /\ op' = op
    BY <1>3, SavingDone DEF SaveState, SaveAnswers, SyncConfig, SaveUnchanged, startVars
  <2>2. QED
    BY <2>1 DEF Changing
<1>4. CASE StartRecord \/ RemoveOwn \/ RecordRemoved \/ RemoveDirs
  <2>1. pc # "idle" /\ op' = op
    BY <1>4 DEF StartRecord, RemoveOwn, RecordRemoved, RemoveDirs, SaveUnchanged,
       FilesDone, startVars
  <2>2. QED
    BY <2>1 DEF Control
<1>5. CASE Finish \/ Crash \/ \E p \in Paths : ChangeStops(p)
  <2>1. op = "teardown" \/ Changing
    BY <1>5 DEF Finish, Crash, ChangeStops, Control, Changing, TypeOK, Ops
  <2>2. QED
    BY <1>5, <2>1, EndHooks, TeardownHooks DEF HookInv
<1>6. ASSUME NEW p \in Paths, UserEdit(p) \/ UserDelete(p) \/ AcceptSidecar(p)
      PROVE  IdleHooks'
  <2>1. /\ UNCHANGED <<op, answers, optOut, present>> /\ Effective' = Effective
        /\ Live' = Live \ {p} /\ Live \subseteq Paths
        /\ \A q \in Live' : disk'[q] = disk[q] /\ Registers(q)' = Registers(q)
    BY <1>6, UserHooks DEF Live, Effective
  <2>2. QED
    BY <2>1 DEF HookInv, IdleHooks, Hooking
<1>7. CASE UNCHANGED vars
  BY <1>1, <1>7 DEF vars, fileVars, recordVars, cmdVars, startVars
<1>8. QED
  BY <1>2, <1>3, <1>4, <1>5, <1>6, <1>7, NextCases
  DEF StartEnable, StartDisable, StartUpdate, StartRepair, StartTeardown, Begin, Ops

-----------------------------------------------------------------------------
(* The invariant holds. *)

LEMMA HookInit == Init => HookInv
<1> SUFFICES ASSUME Init PROVE HookInv
  OBVIOUS
<1>1. /\ answers \in SUBSET Choices /\ AlwaysOn \cup {ClaudeCode} \subseteq answers
      /\ optOut = {} /\ op = "none" /\ target = NoTool /\ out = NoEntries
      /\ present = OwnFiles
  BY DEF Init
<1>2. Effective = answers /\ Hooking(answers) = answers
  BY <1>1 DEF Effective, Hooking
<1>3. ASSUME NEW s \in Settings
      PROVE  /\ Tracked(state[s]) /\ SectionsOf(state[s].base) = Shares[s] \cap answers
             /\ SectionsOf(out[s].base) = {}
  <2>1. s \in Paths /\ s \in Produced(answers) /\ Strategy[s] = "threeWay"
    BY <1>1, SettingsKinds, SettingsProduced
  <2> DEFINE v == Output(s, answers)
  <2>2. v \in Versions /\ SectionsOf(Gen(v)) = Shares[s] \cap answers
    BY <1>1, <2>1, SettingsOutput
  <2>3. v # 0
    BY <2>1 DEF Produced
  <2>4. disk[s] = Gen(v)
    BY <2>1, <2>3 DEF Init, Fresh
  <2>5. state[s] = RecordFile(s, disk[s], disk[s], Owner[s])
    BY <2>1 DEF Init
  <2> HIDE DEF v
  <2>6. state[s].base = Gen(v) /\ state[s].hash = Gen(v) /\ Gen(v) # Absent
    BY <2>1, <2>3, <2>4, <2>5 DEF RecordFile, Gen, Absent
  <2>7. SectionsOf(out[s].base) = {}
    BY <1>1, <2>1 DEF NoEntries, Untracked, Absent, SectionsOf
  <2>8. QED
    BY <2>2, <2>6, <2>7 DEF Tracked
<1>4. ASSUME NEW l \in Paths, Hosts[l] \cap answers # {} PROVE disk[l] # Absent
  <2>1. Output(l, answers) # 0
    BY <1>2, <1>4, LibraryOutput DEF Produced
  <2>2. disk[l] = Gen(Output(l, answers))
    BY <2>1 DEF Init, Fresh
  <2>3. QED
    BY <2>1, <2>2 DEF Gen, Absent
<1>5. SettingsFit
  BY <1>1, <1>3 DEF SettingsFit, Changing
<1>6. EffectiveFits /\ StagesFit /\ RunningHooks
  BY <1>1 DEF EffectiveFits, StagesFit, RunningHooks, Changing, OwnFiles
<1>7. IdleHooks
  <2>1. \A s \in Settings : Registers(s) \subseteq answers
    BY <1>3 DEF Registers, Accounted
  <2>2. QED
    BY <1>2, <1>4, <2>1 DEF IdleHooks, Live
<1>8. QED
  BY <1>5, <1>6, <1>7 DEF HookInv

LEMMA HookStep == IInv /\ HookInv /\ [Next]_vars => HookInv'
<1> SUFFICES ASSUME IInv, HookInv, [Next]_vars PROVE HookInv'
  OBVIOUS
<1>1. SettingsFit' /\ EffectiveFits'
  BY SettingsFitStep, EffectiveStep DEF IInv, HookInv
<1>2. StagesFit'
  BY StagesStep DEF IInv, HookInv
<1>3. IdleHooks'
  BY IdleStep DEF IInv
<1>4. RunningHooks'
  BY RunningStep DEF IInv
<1>5. QED
  BY <1>1, <1>2, <1>3, <1>4 DEF HookInv

\* HookInv holds in every reachable state.
THEOREM HookInvariant == Spec => []HookInv
  BY HookInit, HookStep, Invariant, PTL DEF Spec

LEMMA HooksLoad == IInv /\ HookInv => HooksKeepTheirLibrary
<1> SUFFICES ASSUME IInv, HookInv, op # "teardown",
                    NEW s \in Settings \cap Live, NEW l \in Live,
                    Hosts[l] \cap Registers(s) # {}
             PROVE  disk[l] # Absent
  <2>1. Settings \subseteq Paths
    BY SettingsKinds
  <2>2. QED
    BY <2>1 DEF HooksKeepTheirLibrary, Live, Registers
<1>1. CASE op = "none"
  BY <1>1 DEF HookInv, IdleHooks
<1>2. CASE Changing
  <2>1. /\ Registers(s) \subseteq Hooking(on) \cup {target}
        /\ target \in Registers(s) =>
             /\ ClaudeCode \in on
             /\ \/ op = "enable" /\ Tracked(out[s])
                \/ op = "disable" /\ s \in todo /\ plan[s] = "merge"
    BY <1>2 DEF HookInv, RunningHooks
  <2>2. CASE l \notin dropped
    <3>1. /\ Hosts[l] \cap (Hooking(on) \ {target}) # {} => disk[l] # Absent
          /\ target \in Hosts[l] /\ ClaudeCode \in on =>
               \/ disk[l] # Absent
               \/ op = "enable" /\ l \in todo /\ plan[l] = "write"
      BY <1>2, <2>2 DEF HookInv, RunningHooks
    <3>2. op = "enable" /\ Tracked(out[s]) => ~(l \in todo /\ plan[l] = "write")
      BY <1>2 DEF HookInv, StagesFit, Live
    <3>3. target \in Registers(s) /\ target \in Hosts[l] => disk[l] # Absent
      BY <2>1, <3>1, <3>2
    <3>4. QED
      BY <2>1, <3>1, <3>3
  <2>3. CASE l \in dropped
    <3>1. Hosts[l] \cap Hooking(on) = {}
      BY <1>2, <2>3 DEF HookInv, StagesFit
    <3>2. target \in Registers(s) /\ target \in Hosts[l]
      BY <2>1, <3>1
    <3>3. target \notin on
      BY <2>1, <3>1, <3>2 DEF Hooking
    <3>4. op = "disable" /\ s \in todo /\ plan[s] = "merge"
      BY <2>1, <3>2, <3>3 DEF IInv, Control
    <3>5. QED
      BY <1>2, <2>3, <3>2, <3>4 DEF HookInv, StagesFit
  <2>4. QED
    BY <2>2, <2>3
<1>3. QED
  BY <1>1, <1>2 DEF IInv, TypeOK, Ops, Changing

\* The library a registered hook loads is there at every step of every command
\* (HooksKeepTheirLibrary), whatever tools share it and whatever died before.
THEOREM HooksFindTheirLibrary == Spec => []HooksKeepTheirLibrary
  BY Invariant, HookInvariant, HooksLoad, PTL
===============================================================================
