---------------------------- MODULE Upkeep_proofs ----------------------------
(***************************************************************************)
(* Proofs about Upkeep, for every set of files, tools, renderings and      *)
(* bounds.  The inductive invariant says what an entry may hold            *)
(* (LedgerFits), which steps a command may take (Control), what a planned  *)
(* action may count on until it runs (PlanFits), that the record a command *)
(* is about to save is exact wherever only qsdev acted (RecordFits), and   *)
(* how far an enable or a disable has come with each file of its tool      *)
(* (ChangeFits).                                                           *)
(***************************************************************************)
EXTENDS Upkeep, UpdatePlan_proofs, SequenceTheorems

-----------------------------------------------------------------------------
(* What the generators produce. *)

\* Every set of tools is a set of sections with one of each name, and has a
\* rendering, which carries it.
LEMMA RenderingCarries ==
  ASSUME NEW S \in SUBSET Registry
  PROVE  /\ Rendering(S) \in Versions /\ Sections[Rendering(S)] = S
         /\ Rendering(S) # 0
<1>1. S \in SUBSET Parts /\ OneOfEachName(S)
  BY UpkeepPlanAssumption DEF OneOfEachName
<1>2. Rendering(S) \in Versions /\ Sections[Rendering(S)] = S
  BY <1>1, Renderings
<1>3. QED
  BY <1>2, LedgerAssumption DEF Versions

LEMMA OutputType ==
  ASSUME NEW p \in Paths, NEW S \in SUBSET Choices
  PROVE  /\ Output(p, S) \in 0..MaxVersion
         /\ p \in Produced(S) => Output(p, S) \in Versions
         /\ p \notin Produced(S) => Output(p, S) = 0
<1>1. Shares[p] \cap S \in SUBSET Registry
  BY UpkeepPlanAssumption
<1>2. Rendering(Shares[p] \cap S) \in Versions
  BY <1>1, RenderingCarries
<1>3. 0 \in 0..MaxVersion /\ 1 \in Versions /\ Versions \subseteq 0..MaxVersion
      /\ 0 \notin Versions
  BY LedgerAssumption DEF Versions
<1>4. Output(p, S) \in Versions \cup {0}
  BY <1>2, <1>3 DEF Output, Rendered
<1>5. QED
  BY <1>3, <1>4 DEF Produced

\* A file tools share is generated with the sections of those in S.
LEMMA SharedOutput ==
  ASSUME NEW p \in Paths, NEW S \in SUBSET Choices, Shares[p] # {},
         p \in Produced(S)
  PROVE  /\ Output(p, S) = Rendering(Shares[p] \cap S)
         /\ Output(p, S) \in Versions
         /\ SectionsOf(Gen(Output(p, S))) = Shares[p] \cap S
<1>1. Owner[p] \notin Registry /\ Hosts[p] = {}
  BY FileKindsAssumption, UpkeepPlanAssumption, LedgerAssumption
<1>2. Output(p, S) = Rendering(Shares[p] \cap S)
  BY <1>1 DEF Output, Produced, Rendered
<1>3. Shares[p] \cap S \in SUBSET Registry
  BY UpkeepPlanAssumption
<1>4. QED
  BY <1>2, <1>3, RenderingCarries, SectionsOfGen

LEMMA SharedProduced ==
  ASSUME NEW p \in Paths, NEW S \in SUBSET Choices, Shares[p] # {},
         p \in Core \/ Shares[p] \cap S # {}, p \in Claude => ClaudeCode \in S
  PROVE  p \in Produced(S)
<1>1. Owner[p] \notin Registry /\ Hosts[p] = {}
  BY FileKindsAssumption, UpkeepPlanAssumption, LedgerAssumption
<1>2. Shares[p] \cap S \in SUBSET Registry
  BY UpkeepPlanAssumption
<1>3. Rendering(Shares[p] \cap S) # 0
  BY <1>2, RenderingCarries
<1>4. QED
  BY <1>1, <1>3 DEF Output, Produced, Rendered

\* The settings are generated exactly while Claude Code is on.
LEMMA SettingsProduced ==
  ASSUME NEW p \in Settings, NEW S \in SUBSET Choices
  PROVE  p \in Paths /\ p \notin Strippable /\ (p \in Produced(S) <=> ClaudeCode \in S)
<1>1. /\ p \in Paths /\ Owner[p] \notin Registry /\ Hosts[p] = {} /\ p \in Core
      /\ p \in Claude /\ p \notin Strippable
  BY FileKindsAssumption, UpkeepPlanAssumption, LedgerAssumption
<1>2. Shares[p] \cap S \in SUBSET Registry
  BY <1>1, UpkeepPlanAssumption
<1>3. Rendering(Shares[p] \cap S) # 0
  BY <1>2, RenderingCarries
<1>4. QED
  BY <1>1, <1>3 DEF Output, Produced, Rendered

\* A tool's own file is generated one way only, while the tool is on, and Claude
\* Code if the file is one of its.
LEMMA OwnOutput ==
  ASSUME NEW t \in Registry, NEW p \in Exclusive(t), NEW S
  PROVE  /\ p \in Paths
         /\ p \in Produced(S) => t \in S /\ Output(p, S) = 1
         /\ t \in S /\ (p \in Claude => ClaudeCode \in S) => p \in Produced(S)
  BY DEF Exclusive, Output, Produced, Rendered

LEMMA SupportOutput ==
  ASSUME NEW t \in Registry, NEW p \in Support(t), NEW S, t \in S
  PROVE  /\ p \in Paths
         /\ p \in Produced(S) => Output(p, S) = 1
         /\ ClaudeCode \in S => p \in Produced(S)
<1>1. p \in Paths /\ Hosts[p] # {} /\ Owner[p] \notin Registry /\ t \in Hosts[p]
  BY UpkeepPlanAssumption DEF Support
<1>2. QED
  BY <1>1 DEF Output, Produced, Rendered

-----------------------------------------------------------------------------
(* What the commands plan. *)

\* The planner's choice for one generated file.
LEMMA GeneratedShape ==
  ASSUME NEW p \in Paths, NEW e, NEW c, NEW v, NEW f \in BOOLEAN
  PROVE  /\ PlanGenerated(p, e, c, v, f) \in
              {"create", "regenerate", "merge", "sidecar", "skip"}
         /\ EntryClean(p, e) => ActionFits(p, PlanGenerated(p, e, c, v, f), c, f)
         /\ PlanGenerated(p, e, c, v, f) = "create" /\ ~f => ~Tracked(e)
<1>1. EntryClean(p, e) => ActionFits(p, PlanGenerated(p, e, c, v, f), c, f)
  BY TrackedFits, UntrackedFits DEF PlanGenerated
<1>2. PlanTracked(p, e, c, v, f) = "create" => f
  BY DEF PlanTracked, PlanModified, Status
<1>3. QED
  BY <1>1, <1>2, PlanTrackedType, PlanUntrackedType DEF PlanGenerated

\* planSharedFiles plans exactly the tool's generated shared files; a removal
\* leaves out those that are neither there nor tracked.
LEMMA SharedShape ==
  ASSUME NEW t, NEW st, NEW d, NEW S, NEW r \in BOOLEAN, NEW p \in Paths,
         NEW a, a = PlanShared(t, st, d, S, r)[p]
  PROVE  /\ a \in {"none", "create", "regenerate", "merge", "sidecar", "hold", "skip"}
         /\ a # "none" => p \in SharedBy(t) /\ p \in Produced(S)
         /\ p \in SharedBy(t) /\ p \in Produced(S) /\ a = "none"
              => r /\ d[p] = Absent /\ ~Tracked(st[p])
<1> DEFINE made == SharedBy(t) \cap Produced(S)
           draft == [q \in Paths |->
                       IF q \in made
                       THEN PlanGenerated(q, st[q], d[q], Output(q, S), FALSE)
                       ELSE "none"]
           h == HoldPaired(p, draft, made, d)
<1>1. a = CASE p \in made /\ h = "skip" /\ Strategy[p] = "manualMerge"
                      /\ ~Tracked(st[p]) /\ d[p] # Absent -> "sidecar"
                 [] p \in made /\ r /\ h = "create" -> "none"
                 [] p \notin made -> "none"
                 [] OTHER -> h
  BY DEF PlanShared
<1>2. CASE p \notin made
  BY <1>1, <1>2
<1>3. CASE p \in made
  <2>1. draft[p] = PlanGenerated(p, st[p], d[p], Output(p, S), FALSE)
    BY <1>3
  <2> HIDE DEF draft
  <2>2. h \in {draft[p], "hold"}
    BY DEF HoldPaired
  <2>3. /\ draft[p] \in {"create", "regenerate", "merge", "sidecar", "skip"}
        /\ draft[p] = "create" => ~Tracked(st[p])
    <3> DEFINE o == Output(p, S)
               g == PlanGenerated(p, st[p], d[p], o, FALSE)
    <3>1. /\ g \in {"create", "regenerate", "merge", "sidecar", "skip"}
          /\ g = "create" /\ ~FALSE => ~Tracked(st[p])
      <4> HIDE DEF o
      <4>1. QED
        BY GeneratedShape
    <3>2. draft[p] = g
      BY <2>1
    <3> HIDE DEF g
    <3>3. QED
      BY <3>1, <3>2
  <2>4. draft[p] = "create" => d[p] = Absent
    BY <2>1, PlanTrackedType DEF PlanGenerated, PlanUntracked, PlanTracked,
       PlanModified, Status
  <2> HIDE DEF h
  <2>5. a \in {h, "sidecar", "none"}
    BY <1>1
  <2>6. a = "none" => r /\ d[p] = Absent /\ ~Tracked(st[p])
    BY <1>1, <1>3, <2>2, <2>3, <2>4
  <2>7. QED
    BY <1>3, <2>2, <2>3, <2>5, <2>6
<1>4. QED
  BY <1>2, <1>3

\* And each action it plans is update's without --force.
LEMMA SharedFits ==
  ASSUME NEW t, NEW st, NEW d, NEW S, NEW r \in BOOLEAN, NEW p \in Paths,
         EntryClean(p, st[p])
  PROVE  ActionFits(p, PlanShared(t, st, d, S, r)[p], d[p], FALSE)
<1> DEFINE made == SharedBy(t) \cap Produced(S)
           draft == [q \in Paths |->
                       IF q \in made
                       THEN PlanGenerated(q, st[q], d[q], Output(q, S), FALSE)
                       ELSE "none"]
           h == HoldPaired(p, draft, made, d)
           a == PlanShared(t, st, d, S, r)[p]
<1>1. a = CASE p \in made /\ h = "skip" /\ Strategy[p] = "manualMerge"
                      /\ ~Tracked(st[p]) /\ d[p] # Absent -> "sidecar"
                 [] p \in made /\ r /\ h = "create" -> "none"
                 [] p \notin made -> "none"
                 [] OTHER -> h
  BY DEF PlanShared
<1>2. CASE p \notin made
  BY <1>1, <1>2 DEF ActionFits
<1>3. CASE p \in made
  <2> DEFINE o == Output(p, S)
  <2>1. draft[p] = PlanGenerated(p, st[p], d[p], o, FALSE)
    BY <1>3
  <2>2. ActionFits(p, PlanGenerated(p, st[p], d[p], o, FALSE), d[p], FALSE)
    <3> HIDE DEF o
    <3>1. QED
      BY GeneratedShape
  <2> HIDE DEF draft, o
  <2>3. h \in {draft[p], "hold"}
    BY DEF HoldPaired
  <2> HIDE DEF h
  <2>4. a \in {h, "sidecar", "none"}
    BY <1>1
  <2> HIDE DEF a
  <2>5. ActionFits(p, a, d[p], FALSE)
    BY <2>1, <2>2, <2>3, <2>4 DEF ActionFits
  <2>6. QED
    BY <2>5 DEF a
<1>4. QED
  BY <1>2, <1>3

-----------------------------------------------------------------------------
(* The inductive invariant. *)

\* An entry has user text only where qsdev merges, never in its base, and its
\* owner is the file's; the settings have a base.
EntryFits(p, e) ==
    /\ EntryClean(p, e)
    /\ e.owner \in {Owner[p], NoTool}
    /\ Tracked(e) =>
         /\ e.hash.gen # 0
         /\ p \in Settings => e.base.gen # 0

LedgerFits == \A p \in Paths : EntryFits(p, state[p]) /\ EntryFits(p, out[p])

\* The commands that save a record.
Changing == op \in {"enable", "disable", "update", "repair"}

Control ==
    /\ op = "none" <=> pc = "idle"
    /\ op = "teardown" =>
         /\ pc \in {"files", "record", "clean", "finish"}
         /\ \A p \in Paths : plan[p] \in {"none", "clean", "remove"}
    /\ Changing =>
         /\ pc \in {"files", "answers", "config", "finish"}
         /\ \A p \in Paths : plan[p] # "clean"
    /\ pc \notin {"files", "record", "clean"} => todo = {}
    /\ op \in {"enable", "disable"} => target \in Registry
    /\ op = "enable" => target \in on
    /\ op = "disable" => target \notin on

\* What a planned action of the running command counts on, given that file p
\* has content c.
StepFits(p, a, c) ==
    /\ a = "write" => c.edit = 0 \/ (force /\ Strategy[p] # "skip")
    /\ a = "delete" => c.edit = 0 \/ force
    /\ ActionFits(p, a, c, force)
    /\ a = "regenerate" /\ op # "update" => c.edit = 0

PlanFits ==
    \A p \in todo :
        /\ p \notin fresh => StepFits(p, plan[p], disk[p])
        /\ plan[p] = "write" => op = "enable"
        /\ plan[p] = "delete" => op = "disable"
        /\ plan[p] = "repair" => op = "repair"
        /\ plan[p] \in {"merge", "strip"} => Mergeable(Strategy[p])
        /\ plan[p] \in {"write", "create", "regenerate", "merge"}
             => p \in Produced(on)
        /\ plan[p] = "strip" => op = "disable" /\ p \in Strippable \ Produced(on)
        /\ plan[p] = "untrack" => p \in touched \cup torn
        /\ Changing => ~Tracked(out[p])

\* The entry of p once the running command has saved the state file.
Pending(p) == IF Tracked(out[p]) THEN out[p]
              ELSE IF p \in dropped THEN Untracked ELSE state[p]

Exact(p, e) == /\ Tracked(e) => disk[p] = e.hash
               /\ disk[p].gen # 0 => Tracked(e)

\* What a teardown leaves of the settings: what their record does not account for.
Strays(p) ==
    /\ p \in Settings /\ SectionsOf(disk[p]) # {}
    /\ SectionsOf(disk[p]) = SectionsOf(out[p].hash) \ SectionsOf(out[p].base)

RecordFits ==
    /\ "state" \notin present => \A p \in Paths : ~Tracked(state[p])
    /\ op = "none" => \A p \in Paths \ (touched \cup torn) : Exact(p, state[p])
    /\ Changing =>
         /\ \A p \in Paths \ touched : Tracked(out[p]) => disk[p] = out[p].hash
         /\ \A p \in Paths \ (touched \cup torn) : Exact(p, Pending(p))
         /\ pc # "files" => \A p \in Paths : state[p] = Pending(p)
    /\ op = "teardown" =>
         \A p \in Paths \ (touched \cup torn) :
            /\ p \in todo => Tracked(out[p]) /\ disk[p] = out[p].hash
            /\ p \notin todo \cup failed => disk[p].gen = 0 \/ Strays(p)

\* The settings are recorded only while Claude Code is on, as far as no dead
\* command handled them, so an update never lets go of them.
ClaudeFits ==
    /\ op = "none" =>
         \A s \in Settings \ torn : Tracked(state[s]) => ClaudeCode \in Effective
    /\ Changing =>
         /\ ClaudeCode \in on <=> ClaudeCode \in Effective
         /\ \A s \in Settings : Tracked(out[s]) => ClaudeCode \in on
         /\ \A s \in Settings \ torn : Tracked(Pending(s)) => ClaudeCode \in on

Carries(p) == target \in SectionsOf(disk[p])

\* How far an enable is with p, a file of its tool's own.
OwnEnabled(p) ==
    /\ plan[p] \in {"none", "write"}
    /\ \/ p \in todo /\ plan[p] = "write"
       \/ disk[p] = Gen(1) /\ out[p].hash = Gen(1)
       \/ Strategy[p] = "skip" /\ disk[p] \notin {Absent, Gen(1)}

OwnDisabled(p) ==
    /\ plan[p] \in {"none", "delete"}
    /\ p \in todo \/ ~Tracked(Pending(p))

\* How far an enable or disable is with p, a file its tool shares.
SharedChanged(p) ==
    \/ p \in todo
    \/ Carries(p) <=> op = "enable"
    \/ plan[p] \in {"skip", "sidecar", "hold"} \/ LeftToUser(p)
    \/ disk[p].edit # 0 \/ disk[p] = Absent
    \/ p \in touched \cup torn /\ ~Tracked(Pending(p))

ChangeFits ==
    pc = "files" =>
      /\ op = "enable" =>
           \A p \in (Exclusive(target) \cap Produced(on)) \ fresh : OwnEnabled(p)
      /\ op = "disable" => \A p \in Exclusive(target) : OwnDisabled(p)
      /\ op \in {"enable", "disable"} =>
           \A p \in Reached(target) \ (fresh \cup failed) : SharedChanged(p)

IInv == TypeOK /\ LedgerFits /\ Control /\ PlanFits /\ RecordFits /\ ClaudeFits
        /\ ChangeFits

-----------------------------------------------------------------------------
(* Types. *)

LEMMA ActionNames ==
  /\ PlanActions \subseteq Actions
  /\ {"write", "delete", "strip", "repair", "clean"} \subseteq Actions
  /\ {"none", "create", "regenerate", "merge", "sidecar", "hold", "remove",
      "untrack", "skip"} \subseteq Actions
  BY DEF Actions, PlanActions

LEMMA OrphanType ==
  ASSUME NEW p, NEW e, NEW c
  PROVE  PlanOrphan(p, e, c) \in {"remove", "untrack"}
  BY DEF PlanOrphan

LEMMA SharedActions ==
  ASSUME NEW t, NEW st, NEW d, NEW S, NEW r \in BOOLEAN, NEW p \in Paths
  PROVE  PlanShared(t, st, d, S, r)[p] \in Actions
<1>1. PlanShared(t, st, d, S, r)[p] \in
        {"none", "create", "regenerate", "merge", "sidecar", "hold", "skip"}
  BY SharedShape
<1>2. QED
  BY <1>1, ActionNames

LEMMA EnableType ==
  ASSUME NEW t, NEW st, NEW d, NEW S
  PROVE  PlanEnable(t, st, d, S) \in [Paths -> Actions]
<1>1. \A p \in Paths : PlanShared(t, st, d, S, FALSE)[p] \in Actions
  BY SharedActions
<1>2. \A p \in Paths : PlanEnable(t, st, d, S)[p] \in Actions
  BY <1>1, ActionNames DEF PlanEnable
<1>3. QED
  BY <1>2 DEF PlanEnable

LEMMA DisableType ==
  ASSUME NEW t, NEW st, NEW d, NEW S
  PROVE  PlanDisable(t, st, d, S) \in [Paths -> Actions]
<1>1. \A p \in Paths : /\ PlanShared(t, st, d, S, TRUE)[p] \in Actions
                       /\ PlanOrphan(p, st[p], d[p]) \in Actions
  BY SharedActions, OrphanType, ActionNames
<1>2. \A p \in Paths : PlanDisable(t, st, d, S)[p] \in Actions
  BY <1>1, ActionNames DEF PlanDisable
<1>3. QED
  BY <1>2 DEF PlanDisable

LEMMA UpdateType ==
  ASSUME NEW st, NEW d, NEW S, NEW f \in BOOLEAN
  PROVE  PlanUpdate(st, d, S, f) \in [Paths -> Actions]
<1> DEFINE made == Produced(S)
           draft == [p \in Paths |->
                       IF p \in made
                       THEN PlanGenerated(p, st[p], d[p], Output(p, S), f)
                       ELSE "none"]
<1>1. \A p \in Paths : draft[p] \in Actions
  BY GeneratedShape, ActionNames
<1>2. \A p \in Paths : /\ HoldPaired(p, draft, made, d) \in Actions
                       /\ PlanOrphan(p, st[p], d[p]) \in Actions
  BY <1>1, OrphanType, ActionNames DEF HoldPaired
<1> HIDE DEF draft
<1>3. \A p \in Paths : PlanUpdate(st, d, S, f)[p] \in Actions
  BY <1>2, ActionNames DEF PlanUpdate, draft
<1>4. QED
  BY <1>3 DEF PlanUpdate

LEMMA RepairType ==
  ASSUME NEW st, NEW d, NEW S, NEW f, NEW r
  PROVE  PlanRepair(st, d, S, f, r) \in [Paths -> {"none", "repair"}]
  BY DEF PlanRepair

LEMMA TeardownType ==
  ASSUME NEW st, NEW d
  PROVE  PlanTeardown(st, d) \in [Paths -> {"none", "clean", "remove"}]
<1>1. \A p \in Paths : PlanTeardown(st, d)[p] \in {"none", "clean", "remove"}
  BY DEF PlanTeardown
<1>2. QED
  BY <1>1 DEF PlanTeardown

LEMMA BeginTypes ==
  ASSUME TypeOK, NEW o \in Ops, NEW S \in SUBSET Choices,
         NEW t \in Registry \cup {NoTool}, NEW f \in BOOLEAN,
         NEW pl \in [Paths -> Actions], NEW gone \in SUBSET Paths,
         Begin(o, S, t, f, pl, gone)
  PROVE  TypeOK'
<1>1. NoEntries \in [Paths -> Entry]
  BY ContentTypes DEF NoEntries
<1>2. UNCHANGED <<disk, sidecar, backups, state, present, answers, optOut,
                  faults, changes, torn, touched>>
  BY DEF Begin, fileVars, recordVars, boundVars
<1>3. out' \in [Paths -> Entry]
  BY <1>1 DEF Begin, TypeOK
<1>4. QED
  BY <1>2, <1>3 DEF Begin, TypeOK, Pcs

LEMMA IdleTypes ==
  ASSUME TypeOK, Idle, sidecar' \in [Paths -> Content],
         UNCHANGED <<disk, backups, recordVars, changes, touched>>,
         faults' \in 0..MaxFaults, torn' \subseteq Paths
  PROVE  TypeOK'
<1>1. NoEntries \in [Paths -> Entry] /\ NoPlan \in [Paths -> Actions]
  BY ContentTypes, ActionNames DEF NoEntries, NoPlan
<1>2. QED
  BY <1>1 DEF Idle, TypeOK, recordVars, Ops, Pcs

LEMMA UserChangesTypes ==
  ASSUME TypeOK, NEW p \in Paths, NEW c \in Content, UserChanges(p, c),
         sidecar' \in [Paths -> Content]
  PROVE  TypeOK'
<1>1. disk' \in [Paths -> Content] /\ changes' \in 0..MaxChanges
  BY UpkeepAssumption DEF UserChanges, TypeOK
<1>2. fresh' \subseteq Paths /\ touched' \subseteq Paths
  BY DEF UserChanges, TypeOK
<1>3. QED
  BY <1>1, <1>2 DEF UserChanges, TypeOK, recordVars, cmdVars, startVars

LEMMA WritesType ==
  ASSUME TypeOK, NEW p \in Paths, NEW c \in Content, NEW b \in Content,
         NEW o \in Tools \cup {NoTool}, Writes(p, c, b, o)
  PROVE  /\ disk' \in [Paths -> Content] /\ out' \in [Paths -> Entry]
         /\ touched' \subseteq Paths
         /\ failed' \subseteq Paths /\ dropped' \subseteq Paths
<1>1. RecordFile(p, c, b, o) \in Entry
  BY RecordFileType
<1>2. QED
  BY <1>1 DEF Writes, TypeOK

LEMMA BackedUpType ==
  ASSUME TypeOK, NEW p \in Paths
  PROVE  BackedUp(p) \in Seq(Content)
<1>1. backups[p] \in Seq(Content) /\ disk[p] \in Content
  BY DEF TypeOK
<1>2. /\ Append(backups[p], disk[p]) \in Seq(Content)
      /\ Append(backups[p], disk[p]) # <<>>
  BY <1>1, AppendProperties
<1>3. Tail(Append(backups[p], disk[p])) \in Seq(Content)
  BY <1>2, HeadTailProperties
<1>4. QED
  BY <1>1, <1>2, <1>3 DEF BackedUp

\* What a removal in place leaves is content.
LEMMA StripType ==
  ASSUME TypeOK, NEW p \in Paths
  PROVE  LET left == SectionsOf(disk[p]) \ {target}
             c    == [disk[p] EXCEPT !.gen = Rendering(left)]
         IN  /\ Rendering(left) \in Versions /\ Rendering(left) # 0
             /\ Sections[Rendering(left)] = left
             /\ c.gen = Rendering(left) /\ c.edit = disk[p].edit
             /\ c \in Content /\ [state[p] EXCEPT !.hash = c] \in Entry
<1> DEFINE left == SectionsOf(disk[p]) \ {target}
<1>1. disk[p] \in Content /\ state[p] \in Entry
  BY DEF TypeOK
<1>2. left \in SUBSET Registry
  BY <1>1, SectionsOfType, UpkeepPlanAssumption
<1>3. /\ Rendering(left) \in Versions /\ Sections[Rendering(left)] = left
      /\ Rendering(left) # 0
  BY <1>2, RenderingCarries
<1> HIDE DEF left
<1>4. /\ [disk[p] EXCEPT !.gen = Rendering(left)] \in Content
      /\ [disk[p] EXCEPT !.gen = Rendering(left)].gen = Rendering(left)
      /\ [disk[p] EXCEPT !.gen = Rendering(left)].edit = disk[p].edit
  BY <1>1, <1>3, ContentTypes DEF Content
<1>5. [state[p] EXCEPT !.hash = [disk[p] EXCEPT !.gen = Rendering(left)]] \in Entry
  BY <1>1, <1>4 DEF Entry
<1>6. QED
  BY <1>3, <1>4, <1>5 DEF left

\* A clean leaves content, of the settings what the base lacks.
LEMMA CleanedType ==
  ASSUME NEW p \in Paths, NEW c \in Content, NEW b \in Content
  PROVE  /\ Cleaned(p, c, b) \in Content
         /\ \/ Cleaned(p, c, b).gen = 0
            \/ /\ p \in Settings /\ SectionsOf(Cleaned(p, c, b)) # {}
               /\ SectionsOf(Cleaned(p, c, b)) = SectionsOf(c) \ SectionsOf(b)
<1> DEFINE left == SectionsOf(c) \ SectionsOf(b)
           d == Cleaned(p, c, b)
<1>1. left \in SUBSET Registry
  BY SectionsOfType, UpkeepPlanAssumption
<1> HIDE DEF left
<1>2. /\ Rendering(left) \in Versions /\ Sections[Rendering(left)] = left
      /\ Rendering(left) # 0
  BY <1>1, RenderingCarries
<1>3. /\ d = [gen |-> d.gen, edit |-> c.edit]
      /\ d.gen = IF p \in Settings /\ left # {} THEN Rendering(left) ELSE 0
  BY DEF Cleaned, left
<1>4. d.gen \in 0..MaxVersion /\ c.edit \in 0..MaxEdits
  BY <1>2, <1>3, ContentTypes, LedgerAssumption DEF Content
<1>5. d.gen # 0 => p \in Settings /\ left # {} /\ SectionsOf(d) = left
  BY <1>2, <1>3 DEF SectionsOf
<1>6. d \in Content
  BY <1>3, <1>4 DEF Content
<1>7. QED
  BY <1>5, <1>6 DEF left

\* A step that writes its file writes content and makes a proper entry.
LEMMA FileWriteTypes ==
  ASSUME TypeOK, NEW p \in Paths,
         WriteFile(p) \/ MergeFile(p) \/ RepairFile(p) \/ StripSection(p)
  PROVE  /\ disk' \in [Paths -> Content] /\ out' \in [Paths -> Entry]
         /\ touched' \subseteq Paths
         /\ failed' \subseteq Paths /\ dropped' \subseteq Paths
<1>1. /\ Output(p, on) \in 0..MaxVersion /\ Gen(Output(p, on)) \in Content
      /\ Owner[p] \in Tools \cup {NoTool} /\ NoTool \in Tools \cup {NoTool}
  <2>1. on \in SUBSET Choices
    BY DEF TypeOK
  <2>2. Output(p, on) \in 0..MaxVersion
    BY <2>1, OutputType
  <2>3. QED
    BY <2>2, LedgerAssumption DEF Gen, Content
<1>2. disk[p] \in Content /\ state[p] \in Entry /\ state[p].base \in Content
  BY DEF TypeOK, Entry
<1>3. CASE WriteFile(p)
  BY <1>1, <1>3, WritesType DEF WriteFile
<1>4. CASE MergeFile(p)
  <2>1. MergeContent(p, state[p].base, disk[p], Output(p, on)) \in Content
    BY <1>1, <1>2, MergeContentType
  <2>2. QED
    BY <1>1, <1>4, <2>1, WritesType DEF MergeFile
<1>5. CASE RepairFile(p)
  BY <1>1, <1>5, WritesType DEF RepairFile
<1>6. CASE StripSection(p)
  <2> DEFINE c == [disk[p] EXCEPT !.gen = Rendering(SectionsOf(disk[p]) \ {target})]
             e == [state[p] EXCEPT !.hash = c]
  <2>1. c \in Content /\ e \in Entry
    BY StripType
  <2>2. \/ LeavesAlone
        \/ /\ disk' = [disk EXCEPT ![p] = c] /\ out' = [out EXCEPT ![p] = e]
           /\ touched' = touched \ {p} /\ UNCHANGED <<dropped, failed>>
    BY <1>6 DEF StripSection
  <2> HIDE DEF c, e
  <2>3. QED
    BY <2>1, <2>2 DEF LeavesAlone, TypeOK
<1>7. QED
  BY <1>3, <1>4, <1>5, <1>6

LEMMA FileStepTypes ==
  ASSUME TypeOK, NEW p \in Paths, FileStep(p)
  PROVE  TypeOK'
<1> DEFINE Rest == /\ state \in [Paths -> Entry] /\ present \subseteq OwnFiles
                   /\ answers \subseteq Choices /\ optOut \subseteq AlwaysOn
                   /\ changes \in 0..MaxChanges
                   /\ op \in Ops /\ on \subseteq Choices
                   /\ target \in Registry \cup {NoTool}
                   /\ force \in BOOLEAN /\ pc \in Pcs
                   /\ plan \in [Paths -> Actions]
                   /\ fresh \subseteq Paths /\ torn \subseteq Paths
           Touched == /\ disk' \in [Paths -> Content] /\ out' \in [Paths -> Entry]
                      /\ touched' \subseteq Paths
                      /\ failed' \subseteq Paths /\ dropped' \subseteq Paths
<1>1. FileStepUnchanged => Rest'
  BY DEF FileStepUnchanged, recordVars, startVars, TypeOK
<1>2. Turn(p) => todo' \subseteq Paths
  BY DEF Turn, TypeOK
<1>3. /\ sidecar \in [Paths -> Content] /\ backups \in [Paths -> Seq(Content)]
      /\ faults \in 0..MaxFaults /\ (Fault => faults' \in 0..MaxFaults)
  BY UpkeepAssumption DEF TypeOK, Fault
<1>4. /\ [sidecar EXCEPT ![p] = Gen(Output(p, on))] \in [Paths -> Content]
      /\ [sidecar EXCEPT ![p] = Absent] \in [Paths -> Content]
      /\ [backups EXCEPT ![p] = BackedUp(p)] \in [Paths -> Seq(Content)]
  <2>1. on \in SUBSET Choices
    BY DEF TypeOK
  <2>2. Gen(Output(p, on)) \in Content
    BY <2>1, OutputType, LedgerAssumption DEF Gen, Content
  <2>3. QED
    BY <1>3, <2>2, ContentTypes, BackedUpType
<1>5. LeavesAlone \/ Fails(p) => Touched
  BY DEF LeavesAlone, Fails, TypeOK
<1>6. ASSUME FileStepUnchanged, Touched, todo' \subseteq Paths,
             sidecar' \in [Paths -> Content],
             backups' \in [Paths -> Seq(Content)], faults' \in 0..MaxFaults
      PROVE  TypeOK'
  BY <1>1, <1>6 DEF TypeOK
<1> HIDE DEF Rest
<1>7. CASE WriteFile(p) \/ MergeFile(p) \/ RepairFile(p) \/ StripSection(p)
  BY <1>2, <1>3, <1>4, <1>6, <1>7, FileWriteTypes
  DEF WriteFile, MergeFile, RepairFile, StripSection
<1>8. CASE MergeFails(p) \/ WriteSidecar(p) \/ SkipFile(p)
  BY <1>2, <1>3, <1>4, <1>5, <1>6, <1>8 DEF MergeFails, WriteSidecar, SkipFile
<1>9. CASE RemoveFile(p) \/ UntrackFile(p) \/ CleanFile(p)
  <2>1. Cleaned(p, disk[p], out[p].base) \in Content
    BY CleanedType DEF TypeOK, Entry
  <2>2. Touched
    BY <1>9, <2>1, ContentTypes DEF RemoveFile, UntrackFile, CleanFile,
       fileVars, TypeOK
  <2>3. QED
    BY <1>2, <1>3, <1>4, <1>6, <1>9, <2>2
    DEF RemoveFile, UntrackFile, CleanFile, fileVars
<1>10. CASE RemoveFails(p) \/ StripFails(p) \/ RepairFails(p) \/ CleanFails(p)
  BY <1>2, <1>3, <1>4, <1>5, <1>6, <1>10
  DEF RemoveFails, StripFails, RepairFails, CleanFails
<1>11. CASE UpdateStops(p)
  BY <1>3, <1>4, <1>5, <1>6, <1>11 DEF UpdateStops
<1>12. QED
  BY <1>7, <1>8, <1>9, <1>10, <1>11 DEF FileStep

LEMMA TypeInit == Init => TypeOK
<1> SUFFICES ASSUME Init PROVE TypeOK
  OBVIOUS
<1>1. /\ NoContent \in [Paths -> Content] /\ NoEntries \in [Paths -> Entry]
      /\ NoPlan \in [Paths -> Actions]
  BY ContentTypes, ActionNames DEF NoContent, NoEntries, NoPlan
<1>2. answers \in SUBSET Choices
  BY DEF Init
<1>3. ASSUME NEW p \in Paths PROVE Fresh(p, answers) \in Content
  <2>1. Output(p, answers) \in 0..MaxVersion
    BY <1>2, OutputType
  <2>2. Gen(Output(p, answers)) \in Content
    BY <2>1, LedgerAssumption DEF Gen, Content
  <2>3. QED
    BY <2>2, ContentTypes DEF Fresh
<1>4. disk \in [Paths -> Content]
  BY <1>3 DEF Init
<1>5. state \in [Paths -> Entry]
  <2>1. \A p \in Paths : RecordFile(p, disk[p], disk[p], Owner[p]) \in Entry
    BY <1>4, RecordFileType, LedgerAssumption
  <2>2. QED
    BY <2>1, ContentTypes DEF Init
<1>6. 0 \in 0..MaxFaults /\ 0 \in 0..MaxChanges /\ <<>> \in Seq(Content)
  BY UpkeepAssumption
<1>7. QED
  BY <1>1, <1>2, <1>4, <1>5, <1>6 DEF Init, TypeOK, Ops, Pcs, OwnFiles

\* Losing files of qsdev's own keeps what is read of them well-formed.
LEMMA LosesTypes ==
  ASSUME TypeOK, NEW f, Loses(f)
  PROVE  /\ state' \in [Paths -> Entry] /\ present' \subseteq OwnFiles
         /\ answers' \subseteq Choices /\ optOut' \subseteq AlwaysOn
<1>1. NoEntries \in [Paths -> Entry]
  BY ContentTypes DEF NoEntries
<1>2. QED
  BY <1>1 DEF Loses, TypeOK

LEMMA EffectiveType ==
  ASSUME TypeOK
  PROVE  Effective \in SUBSET Choices
  BY UpkeepAssumption DEF Effective, TypeOK, Choices

LEMMA StartTypes ==
  ASSUME TypeOK,
         \/ \E t \in Registry, f \in BOOLEAN : StartEnable(t, f) \/ StartDisable(t, f)
         \/ \E f \in BOOLEAN : StartUpdate(f)
         \/ \E f, reset \in BOOLEAN : StartRepair(f, reset)
         \/ StartTeardown
  PROVE  TypeOK'
<1>1. /\ Effective \in SUBSET Choices /\ {} \in SUBSET Paths /\ FALSE \in BOOLEAN
      /\ Registry \subseteq Choices
  BY EffectiveType DEF Choices
<1>2. ASSUME NEW t \in Registry, NEW f \in BOOLEAN, StartEnable(t, f)
      PROVE  TypeOK'
  BY <1>1, <1>2, EnableType, BeginTypes DEF StartEnable, Ops
<1>3. ASSUME NEW t \in Registry, NEW f \in BOOLEAN, StartDisable(t, f)
      PROVE  TypeOK'
  <2>1. Gone(t, disk) \in SUBSET Paths
    BY DEF Gone, Candidates, Exclusive
  <2>2. Effective \ {t} \in SUBSET Choices
    BY <1>1
  <2>3. QED
    BY <1>3, <2>1, <2>2, DisableType, BeginTypes DEF StartDisable, Ops
<1>4. ASSUME NEW f \in BOOLEAN, StartUpdate(f) PROVE TypeOK'
  BY <1>1, <1>4, UpdateType, BeginTypes DEF StartUpdate, Ops
<1>5. ASSUME NEW f \in BOOLEAN, NEW r \in BOOLEAN, StartRepair(f, r) PROVE TypeOK'
  <2>1. PlanRepair(state, disk, Effective, f, r) \in [Paths -> Actions]
    BY RepairType, ActionNames
  <2>2. QED
    BY <1>1, <1>5, <2>1, BeginTypes DEF StartRepair, Ops
<1>6. CASE StartTeardown
  <2>1. PlanTeardown(state, disk) \in [Paths -> Actions]
    BY TeardownType, ActionNames
  <2>2. {} \in SUBSET Choices
    OBVIOUS
  <2>3. QED
    BY <1>1, <1>6, <2>1, <2>2, BeginTypes DEF StartTeardown, Ops
<1>7. QED
  BY <1>2, <1>3, <1>4, <1>5, <1>6

LEMMA SaveTypes ==
  ASSUME TypeOK, \/ SaveState \/ SaveAnswers \/ SyncConfig \/ StartRecord
                 \/ RemoveOwn \/ RecordRemoved \/ RemoveDirs
  PROVE  TypeOK'
<1>1. CASE SaveState
  <2>1. state' \in [Paths -> Entry]
    BY <1>1, ContentTypes DEF SaveState, TypeOK
  <2>2. QED
    BY <1>1, <2>1 DEF SaveState, SaveUnchanged, TypeOK, fileVars, boundVars,
       startVars, Pcs, OwnFiles
<1>2. CASE SaveAnswers
  BY <1>2 DEF SaveAnswers, SaveUnchanged, TypeOK, fileVars, boundVars,
     startVars, Pcs, OwnFiles
<1>3. CASE SyncConfig
  BY <1>3 DEF SyncConfig, SaveUnchanged, TypeOK, fileVars, boundVars, startVars, Pcs
<1>4. CASE StartRecord
  BY <1>4 DEF StartRecord, SaveUnchanged, TypeOK, fileVars, recordVars, boundVars,
     startVars, Pcs
<1>5. CASE RemoveOwn
  BY <1>5, LosesTypes DEF RemoveOwn, SaveUnchanged, TypeOK, fileVars, boundVars,
     startVars, Pcs
<1>6. CASE RecordRemoved \/ RemoveDirs
  <2>1. faults' \in 0..MaxFaults
    BY <1>6, UpkeepAssumption DEF RecordRemoved, RemoveDirs, Fault, TypeOK
  <2>2. /\ state' \in [Paths -> Entry] /\ present' \subseteq OwnFiles
        /\ answers' \subseteq Choices /\ optOut' \subseteq AlwaysOn
    BY <1>6, LosesTypes DEF RecordRemoved, RemoveDirs, recordVars, TypeOK
  <2>3. QED
    BY <1>6, <2>1, <2>2 DEF RecordRemoved, RemoveDirs, TypeOK, fileVars,
       startVars, Pcs
<1>7. QED
  BY <1>1, <1>2, <1>3, <1>4, <1>5, <1>6

LEMMA UserTypes ==
  ASSUME TypeOK, NEW p \in Paths, UserEdit(p) \/ UserDelete(p) \/ AcceptSidecar(p)
  PROVE  TypeOK'
<1>1. CASE UserEdit(p)
  <2>1. PICK c \in UserEdits(p, disk[p]) : UserChanges(p, c)
    BY <1>1 DEF UserEdit
  <2>2. c \in Content
    BY UserEditsType DEF TypeOK
  <2>3. sidecar' \in [Paths -> Content]
    BY <1>1 DEF UserEdit, TypeOK
  <2>4. QED
    BY <2>1, <2>2, <2>3, UserChangesTypes
<1>2. CASE UserDelete(p)
  BY <1>2, ContentTypes, UserChangesTypes DEF UserDelete, TypeOK
<1>3. CASE AcceptSidecar(p)
  <2>1. sidecar[p] \in Content /\ sidecar' \in [Paths -> Content]
    BY <1>3, ContentTypes DEF AcceptSidecar, TypeOK
  <2>2. QED
    BY <1>3, <2>1, UserChangesTypes DEF AcceptSidecar
<1>4. QED
  BY <1>1, <1>2, <1>3

LEMMA TypeStep ==
  ASSUME TypeOK, [Next]_vars
  PROVE  TypeOK'
<1>1. ASSUME NEW p \in Paths, FileStep(p) PROVE TypeOK'
  BY <1>1, FileStepTypes
<1>2. CASE Finish
  <2>1. torn' \subseteq Paths /\ faults' \in 0..MaxFaults
    BY <1>2 DEF Finish, LeftApart, Written, TypeOK, boundVars
  <2>2. QED
    BY <1>2, <2>1, IdleTypes DEF Finish, boundVars, fileVars, TypeOK
<1>3. CASE Crash
  <2>1. torn' \subseteq Paths /\ faults' \in 0..MaxFaults
    BY <1>3, UpkeepAssumption DEF Crash, Fault, LeftApart, Written, TypeOK
  <2>2. QED
    BY <1>3, <2>1, IdleTypes DEF Crash, fileVars, TypeOK
<1>6. ASSUME NEW p \in Paths, ChangeStops(p) PROVE TypeOK'
  <2>1. torn' \subseteq Paths /\ faults' \in 0..MaxFaults
    BY <1>6 DEF ChangeStops, LeftApart, Written, TypeOK, boundVars
  <2>2. sidecar' \in [Paths -> Content]
    BY <1>6, ContentTypes DEF ChangeStops, TypeOK
  <2>3. QED
    BY <1>6, <2>1, <2>2, IdleTypes DEF ChangeStops, boundVars
<1>4. CASE UNCHANGED vars
  BY <1>4 DEF vars, fileVars, recordVars, boundVars, cmdVars, startVars, TypeOK
<1>5. QED
  BY <1>1, <1>2, <1>3, <1>4, <1>6, StartTypes, SaveTypes, UserTypes DEF Next, Command

\* The project's, the record's and the command's variables keep their types.
THEOREM TypeCorrect == Spec => []TypeOK
  BY TypeInit, TypeStep, PTL DEF Spec

-----------------------------------------------------------------------------
(* What a step on one file leaves alone. *)

\* It handles its own file, changes no other file and not what is saved.
LEMMA FileStepFrame ==
  ASSUME NEW p \in Paths, FileStep(p)
  PROVE  /\ UNCHANGED <<state, present, answers, optOut, changes, op, on, target,
                        force, pc, plan, fresh, torn>>
         /\ p \in todo /\ todo' \subseteq todo \ {p}
         /\ op # "update" => todo' = todo \ {p}
<1>1. FileStepUnchanged
  BY DEF FileStep, WriteFile, MergeFile, MergeFails, WriteSidecar, SkipFile,
     RemoveFile, RemoveFails, UntrackFile, StripSection, StripFails, RepairFile,
     RepairFails, CleanFile, CleanFails, UpdateStops
<1>2. Turn(p) \/ (UpdateStops(p) /\ op = "update" /\ p \in todo /\ todo' = {})
  BY DEF FileStep, WriteFile, MergeFile, MergeFails, WriteSidecar, SkipFile,
     RemoveFile, RemoveFails, UntrackFile, StripSection, StripFails, RepairFile,
     RepairFails, CleanFile, CleanFails, UpdateStops
<1>3. QED
  BY <1>1, <1>2 DEF FileStepUnchanged, recordVars, startVars, Turn

LEMMA FileStepOne ==
  ASSUME TypeOK, NEW p \in Paths, FileStep(p), NEW q \in Paths \ {p}
  PROVE  /\ disk'[q] = disk[q] /\ out'[q] = out[q]
         /\ q \in dropped' <=> q \in dropped
         /\ q \in failed' <=> q \in failed
         /\ q \in touched' <=> q \in touched
<1>1. \/ Fails(p) \/ LeavesAlone
      \/ \E c, b, o : Writes(p, c, b, o)
      \/ RemoveFile(p) \/ UntrackFile(p) \/ StripSection(p) \/ CleanFile(p)
  BY DEF FileStep, WriteFile, MergeFile, MergeFails, WriteSidecar, SkipFile,
     RemoveFails, StripFails, RepairFile, RepairFails, CleanFails, UpdateStops
<1>2. CASE Fails(p) \/ LeavesAlone
  BY <1>2 DEF Fails, LeavesAlone
<1>3. CASE \E c, b, o : Writes(p, c, b, o)
  BY <1>3 DEF Writes, TypeOK
<1>4. CASE RemoveFile(p) \/ UntrackFile(p) \/ StripSection(p) \/ CleanFile(p)
  BY <1>4 DEF RemoveFile, UntrackFile, StripSection, CleanFile, LeavesAlone,
     fileVars, TypeOK
<1>5. QED
  BY <1>1, <1>2, <1>3, <1>4

\* The steps that start a command, those that leave the files and the plan
\* alone, and those that end the command.
LEMMA NextCases ==
  ASSUME [Next]_vars
  PROVE  \/ \E t \in Registry, f \in BOOLEAN : StartEnable(t, f) \/ StartDisable(t, f)
         \/ \E f \in BOOLEAN : StartUpdate(f)
         \/ \E f, reset \in BOOLEAN : StartRepair(f, reset)
         \/ StartTeardown
         \/ \E p \in Paths : FileStep(p)
         \/ SaveState \/ SaveAnswers \/ SyncConfig
         \/ StartRecord \/ RemoveOwn \/ RecordRemoved \/ RemoveDirs
         \/ Finish \/ Crash \/ \E p \in Paths : ChangeStops(p)
         \/ \E p \in Paths : UserEdit(p) \/ UserDelete(p) \/ AcceptSidecar(p)
         \/ UNCHANGED vars
  BY DEF Next, Command

-----------------------------------------------------------------------------
(* The control of a command. *)

LEMMA BeginControl ==
  ASSUME NEW o \in Ops \ {"none"}, NEW S, NEW t, NEW f, NEW pl, NEW gone,
         Begin(o, S, t, f, pl, gone),
         o = "teardown" => \A p \in Paths : pl[p] \in {"none", "clean", "remove"},
         o # "teardown" => \A p \in Paths : pl[p] # "clean",
         o \in {"enable", "disable"} => t \in Registry,
         o = "enable" => t \in S,
         o = "disable" => t \notin S
  PROVE  Control'
  BY DEF Begin, Control, Changing, Ops

LEMMA EnableNames ==
  ASSUME NEW t, NEW st, NEW d, NEW S, NEW p \in Paths
  PROVE  PlanEnable(t, st, d, S)[p] # "clean"
<1>1. PlanShared(t, st, d, S, FALSE)[p] \in
        {"none", "create", "regenerate", "merge", "sidecar", "hold", "skip"}
  BY SharedShape
<1>2. QED
  BY <1>1 DEF PlanEnable

LEMMA DisableNames ==
  ASSUME NEW t, NEW st, NEW d, NEW S, NEW p \in Paths
  PROVE  PlanDisable(t, st, d, S)[p] # "clean"
<1>1. PlanShared(t, st, d, S, TRUE)[p] \in
        {"none", "create", "regenerate", "merge", "sidecar", "hold", "skip"}
  BY SharedShape
<1>2. PlanOrphan(p, st[p], d[p]) # "clean"
  BY OrphanType
<1>3. QED
  BY <1>1, <1>2 DEF PlanDisable

\* What update plans for one file.
LEMMA UpdateShape ==
  ASSUME NEW st, NEW d, NEW S, NEW f \in BOOLEAN, NEW p \in Paths,
         EntryClean(p, st[p])
  PROVE  LET a == PlanUpdate(st, d, S, f)[p]
         IN  /\ a \in {"none", "create", "regenerate", "merge", "sidecar", "hold",
                       "skip", "remove", "untrack"}
             /\ a \in {"create", "regenerate", "merge", "sidecar", "hold", "skip"}
                  <=> p \in Produced(S)
             /\ a \in {"remove", "untrack"} =>
                  Tracked(st[p]) /\ a = PlanOrphan(p, st[p], d[p])
             /\ ActionFits(p, a, d[p], f)
<1> DEFINE made == Produced(S)
           draft == [q \in Paths |->
                       IF q \in made
                       THEN PlanGenerated(q, st[q], d[q], Output(q, S), f)
                       ELSE "none"]
           a == PlanUpdate(st, d, S, f)[p]
<1>1. a = CASE p \in made -> HoldPaired(p, draft, made, d)
            [] p \notin made /\ Tracked(st[p]) /\ OwnsOrphan(st[p], made, S)
                 -> PlanOrphan(p, st[p], d[p])
            [] OTHER -> "none"
  BY DEF PlanUpdate
<1>2. CASE p \in made
  <2>1. draft[p] = PlanGenerated(p, st[p], d[p], Output(p, S), f)
    BY <1>2
  <2>2. /\ draft[p] \in {"create", "regenerate", "merge", "sidecar", "skip"}
        /\ ActionFits(p, draft[p], d[p], f)
    <3> DEFINE o == Output(p, S)
    <3>1. draft[p] = PlanGenerated(p, st[p], d[p], o, f)
      BY <2>1
    <3> HIDE DEF o, draft
    <3>2. QED
      BY <3>1, GeneratedShape
  <2> HIDE DEF draft
  <2>3. a \in {draft[p], "hold"}
    BY <1>1, <1>2 DEF HoldPaired
  <2> HIDE DEF a
  <2>4. ActionFits(p, a, d[p], f)
    BY <2>2, <2>3 DEF ActionFits
  <2>5. QED
    BY <1>2, <2>2, <2>3, <2>4 DEF a
<1>3. CASE p \notin made
  <2>1. a = "none" \/ (Tracked(st[p]) /\ a = PlanOrphan(p, st[p], d[p]))
    BY <1>1, <1>3
  <2>2. ActionFits(p, "none", d[p], f)
    BY DEF ActionFits
  <2>3. ActionFits(p, PlanOrphan(p, st[p], d[p]), d[p], f)
    BY OrphanFits
  <2> HIDE DEF a
  <2>4. a \in {"none", "remove", "untrack"} /\ ActionFits(p, a, d[p], f)
    BY <2>1, <2>2, <2>3, OrphanType
  <2>5. QED
    BY <1>3, <2>1, <2>4 DEF a
<1>4. QED
  BY <1>2, <1>3

LEMMA StartControl ==
  ASSUME TypeOK, LedgerFits,
         \/ \E t \in Registry, f \in BOOLEAN : StartEnable(t, f) \/ StartDisable(t, f)
         \/ \E f \in BOOLEAN : StartUpdate(f)
         \/ \E f, reset \in BOOLEAN : StartRepair(f, reset)
         \/ StartTeardown
  PROVE  Control'
<1>1. ASSUME NEW t \in Registry, NEW f \in BOOLEAN, StartEnable(t, f)
      PROVE  Control'
  BY <1>1, EnableNames, BeginControl DEF StartEnable, Ops
<1>2. ASSUME NEW t \in Registry, NEW f \in BOOLEAN, StartDisable(t, f)
      PROVE  Control'
  BY <1>2, DisableNames, BeginControl DEF StartDisable, Ops
<1>3. ASSUME NEW f \in BOOLEAN, StartUpdate(f) PROVE Control'
  <2>1. \A p \in Paths : PlanUpdate(state, disk, Effective, f)[p] # "clean"
    BY UpdateShape DEF LedgerFits, EntryFits
  <2>2. QED
    BY <1>3, <2>1, BeginControl DEF StartUpdate, Ops
<1>4. ASSUME NEW f \in BOOLEAN, NEW r \in BOOLEAN, StartRepair(f, r) PROVE Control'
  <2>1. \A p \in Paths : PlanRepair(state, disk, Effective, f, r)[p] # "clean"
    BY DEF PlanRepair
  <2>2. QED
    BY <1>4, <2>1, BeginControl DEF StartRepair, Ops
<1>5. CASE StartTeardown
  <2>1. \A p \in Paths :
          PlanTeardown(state, disk)[p] \in {"none", "clean", "remove"}
    BY TeardownType
  <2>2. QED
    BY <1>5, <2>1, BeginControl DEF StartTeardown, Ops
<1>6. QED
  BY <1>1, <1>2, <1>3, <1>4, <1>5

LEMMA ControlStep ==
  ASSUME TypeOK, LedgerFits, Control, [Next]_vars
  PROVE  Control'
<1>1. ASSUME NEW p \in Paths, FileStep(p) PROVE Control'
  <2>1. /\ UNCHANGED <<op, on, target, pc, plan>>
        /\ todo' \subseteq todo
    BY <1>1, FileStepFrame
  <2>2. QED
    BY <2>1 DEF Control, Changing
<1>2. CASE SaveState
  BY <1>2 DEF SaveState, SaveUnchanged, startVars, FilesDone, Control, Changing,
     TypeOK, Ops
<1>3. CASE SaveAnswers \/ SyncConfig
  BY <1>3 DEF SaveAnswers, SyncConfig, SaveUnchanged, startVars, Control, Changing
<1>4. CASE StartRecord \/ RemoveOwn \/ RecordRemoved
  BY <1>4 DEF StartRecord, RemoveOwn, RecordRemoved, SaveUnchanged, startVars,
     FilesDone, Control, Changing
<1>5. CASE RemoveDirs
  BY <1>5 DEF RemoveDirs, startVars, Control, Changing
<1>6. CASE Finish \/ Crash \/ \E p \in Paths : ChangeStops(p)
  BY <1>6 DEF Finish, Crash, ChangeStops, Idle, Control, Changing
<1>7. ASSUME NEW p \in Paths, UserEdit(p) \/ UserDelete(p) \/ AcceptSidecar(p)
      PROVE  Control'
  BY <1>7 DEF UserEdit, UserDelete, AcceptSidecar, UserChanges, cmdVars,
     startVars, Control, Changing
<1>8. CASE UNCHANGED vars
  BY <1>8 DEF vars, cmdVars, startVars, Control, Changing
<1>9. QED
  BY <1>1, <1>2, <1>3, <1>4, <1>5, <1>6, <1>7, <1>8, StartControl, NextCases

-----------------------------------------------------------------------------
(* The record's entries. *)

LEMMA NoEntryFits ==
  ASSUME NEW p \in Paths
  PROVE  EntryFits(p, Untracked) /\ EntryFits(p, NoEntries[p])
  BY DEF EntryFits, EntryClean, Untracked, NoEntries, Absent, Tracked

\* What qsdev records of a file it has written fits, with or without the
\* user's text in it.
LEMMA RecordedFits ==
  ASSUME NEW p \in Paths, NEW v \in Versions, NEW c, NEW o \in {Owner[p], NoTool},
         c.gen # 0, c.edit # 0 => Mergeable(Strategy[p])
  PROVE  EntryFits(p, RecordFile(p, c, Gen(v), o))
<1>1. v # 0
  BY LedgerAssumption DEF Versions
<1>2. p \in Settings => Strategy[p] = "threeWay"
  BY FileKindsAssumption
<1>3. QED
  BY <1>1, <1>2 DEF EntryFits, EntryClean, RecordFile, Gen, Absent, Tracked

LEMMA WritesFits ==
  ASSUME LedgerFits, NEW p \in Paths, NEW v \in Versions, NEW c,
         NEW o \in {Owner[p], NoTool},
         out \in [Paths -> Entry], UNCHANGED state, Writes(p, c, Gen(v), o),
         c.gen # 0, c.edit # 0 => Mergeable(Strategy[p])
  PROVE  LedgerFits'
<1>1. EntryFits(p, RecordFile(p, c, Gen(v), o))
  BY RecordedFits
<1>2. \A q \in Paths : EntryFits(q, out'[q])
  BY <1>1 DEF Writes, LedgerFits
<1>3. QED
  BY <1>2 DEF LedgerFits

\* What a merge writes carries a generation.
LEMMA MergedGen ==
  ASSUME TypeOK, NEW p \in Paths, NEW v \in Versions
  PROVE  /\ MergeContent(p, state[p].base, disk[p], v).gen \in Versions
         /\ MergeContent(p, state[p].base, disk[p], v).gen # 0
<1>1. state[p].base \in Content /\ disk[p] \in Content /\ v \in 0..MaxVersion
  BY ContentTypes DEF TypeOK, Entry
<1>2. CASE Strategy[p] = "threeWay"
  BY <1>1, <1>2, MergedSections, LedgerAssumption DEF Versions
<1>3. CASE Strategy[p] # "threeWay"
  BY <1>3, LedgerAssumption DEF MergeContent, Versions
<1>4. QED
  BY <1>2, <1>3

LEMMA LedgerFileStep ==
  ASSUME TypeOK, LedgerFits, Control, PlanFits, NEW p \in Paths, FileStep(p)
  PROVE  LedgerFits'
<1>1. UNCHANGED state /\ out \in [Paths -> Entry] /\ on \in SUBSET Choices
      /\ p \in todo
  BY FileStepFrame DEF TypeOK
<1>2. p \in Produced(on) => Output(p, on) \in Versions /\ Output(p, on) # 0
  BY <1>1, OutputType DEF Produced
<1>3. CASE WriteFile(p) \/ RepairFile(p)
  <2>1. p \in Produced(on)
    BY <1>1, <1>3 DEF WriteFile, RepairFile, PlanFits
  <2>2. \E o \in {Owner[p], NoTool} :
          Writes(p, Gen(Output(p, on)), Gen(Output(p, on)), o)
    BY <1>3 DEF WriteFile, RepairFile
  <2>3. Gen(Output(p, on)).gen = Output(p, on) /\ Gen(Output(p, on)).edit = 0
    BY DEF Gen
  <2>4. QED
    BY <1>1, <1>2, <2>1, <2>2, <2>3, WritesFits
<1>4. CASE MergeFile(p)
  <2>1. p \in Produced(on) /\ Mergeable(Strategy[p])
    BY <1>1, <1>4 DEF MergeFile, PlanFits
  <2> DEFINE c == MergeContent(p, state[p].base, disk[p], Output(p, on))
  <2>2. c.gen \in Versions /\ c.gen # 0
    BY <1>2, <2>1, MergedGen
  <2>3. Writes(p, c, Gen(Output(p, on)), NoTool)
    BY <1>4 DEF MergeFile
  <2> HIDE DEF c
  <2>4. QED
    BY <1>1, <1>2, <2>1, <2>2, <2>3, WritesFits
<1>5. CASE StripSection(p)
  <2>1. Mergeable(Strategy[p])
    BY <1>1, <1>5 DEF StripSection, PlanFits
  <2>3. CASE UNCHANGED out
    BY <1>1, <2>3 DEF LedgerFits
  <2>4. CASE target \in SectionsOf(disk[p])
    <3> DEFINE left == SectionsOf(disk[p]) \ {target}
               c == [disk[p] EXCEPT !.gen = Rendering(left)]
               e == [state[p] EXCEPT !.hash = c]
    <3>1. c.gen # 0
      BY StripType
    <3>2. out' = [out EXCEPT ![p] = e]
      BY <1>5, <2>4 DEF StripSection
    <3> HIDE DEF c
    <3>3. e.hash = c /\ e.base = state[p].base /\ e.owner = state[p].owner
      BY DEF TypeOK, Entry
    <3>4. p \notin Settings
      BY <1>1, <1>5, FileKindsAssumption DEF StripSection, PlanFits
    <3> HIDE DEF e
    <3>5. EntryFits(p, e)
      BY <2>1, <3>1, <3>3, <3>4 DEF LedgerFits, EntryFits, EntryClean
    <3>6. \A q \in Paths : EntryFits(q, out'[q])
      BY <1>1, <3>2, <3>5 DEF LedgerFits
    <3>7. QED
      BY <1>1, <3>6 DEF LedgerFits
  <2>5. QED
    BY <1>5, <2>3, <2>4 DEF StripSection, LeavesAlone
<1>6. CASE UNCHANGED out
  BY <1>1, <1>6 DEF LedgerFits
<1>7. QED
  BY <1>3, <1>4, <1>5, <1>6
  DEF FileStep, MergeFails, WriteSidecar, SkipFile, RemoveFile, RemoveFails,
      UntrackFile, StripFails, RepairFails, CleanFile, CleanFails, UpdateStops,
      LeavesAlone, Fails

LEMMA LedgerInit ==
  ASSUME Init
  PROVE  LedgerFits
<1>1. ASSUME NEW p \in Paths PROVE EntryFits(p, state[p])
  <2>1. CASE p \in Produced(answers)
    <3>1. answers \in SUBSET Choices
      BY DEF Init
    <3>2. Output(p, answers) \in Versions /\ Output(p, answers) # 0
      BY <2>1, <3>1, OutputType DEF Produced
    <3>3. state[p] = RecordFile(p, Gen(Output(p, answers)), Gen(Output(p, answers)),
                                Owner[p])
      BY <2>1, <3>2 DEF Init, Fresh
    <3>4. Gen(Output(p, answers)).gen # 0 /\ Gen(Output(p, answers)).edit = 0
      BY <3>2 DEF Gen
    <3>5. QED
      BY <3>2, <3>3, <3>4, RecordedFits
  <2>2. CASE p \notin Produced(answers)
    BY <2>2, NoEntryFits DEF Init
  <2>3. QED
    BY <2>1, <2>2
<1>2. out = NoEntries
  BY DEF Init
<1>3. QED
  BY <1>1, <1>2, NoEntryFits DEF LedgerFits

LEMMA LedgerStep ==
  ASSUME TypeOK, LedgerFits, Control, PlanFits, [Next]_vars
  PROVE  LedgerFits'
<1>1. ASSUME NEW p \in Paths, FileStep(p) PROVE LedgerFits'
  BY <1>1, LedgerFileStep
<1>2. CASE SaveState
  <2>1. \A p \in Paths : EntryFits(p, state'[p])
    BY <1>2, NoEntryFits DEF SaveState, LedgerFits
  <2>2. UNCHANGED out
    BY <1>2 DEF SaveState, SaveUnchanged
  <2>3. QED
    BY <2>1, <2>2 DEF LedgerFits
<1>3. CASE state' \in {state, NoEntries} /\ out' \in {out, state, NoEntries}
  BY <1>3, NoEntryFits DEF LedgerFits
<1>4. CASE SaveAnswers \/ SyncConfig \/ StartRecord \/ RemoveOwn \/ RecordRemoved
           \/ RemoveDirs
  BY <1>3, <1>4 DEF SaveAnswers, SyncConfig, StartRecord, RemoveOwn,
     RecordRemoved, RemoveDirs, Loses, SaveUnchanged, recordVars
<1>5. ASSUME NEW o, NEW S, NEW t, NEW f, NEW pl, NEW gone,
             Begin(o, S, t, f, pl, gone)
      PROVE  LedgerFits'
  BY <1>3, <1>5 DEF Begin, recordVars
<1>6. CASE Finish \/ Crash \/ \E p \in Paths : ChangeStops(p)
  BY <1>3, <1>6 DEF Finish, Crash, ChangeStops, Idle, recordVars
<1>7. ASSUME NEW p \in Paths, UserEdit(p) \/ UserDelete(p) \/ AcceptSidecar(p)
      PROVE  LedgerFits'
  BY <1>3, <1>7 DEF UserEdit, UserDelete, AcceptSidecar, UserChanges, recordVars,
     cmdVars
<1>8. CASE UNCHANGED vars
  BY <1>3, <1>8 DEF vars, recordVars, cmdVars
<1>9. QED
  BY <1>1, <1>2, <1>4, <1>5, <1>6, <1>7, <1>8, NextCases
  DEF StartEnable, StartDisable, StartUpdate, StartRepair, StartTeardown

-----------------------------------------------------------------------------
(* A fresh plan fits the files it names. *)

\* What planSharedFiles plans, if anything, for an enable or a disable.
LEMMA SharedPlanned ==
  ASSUME NEW t, NEW S, NEW p \in Paths, EntryClean(p, state[p]),
         NEW a, a # "none",
         \/ a = PlanShared(t, state, disk, S, FALSE)[p]
         \/ a = PlanShared(t, state, disk, S, TRUE)[p]
  PROVE  /\ a \in {"create", "regenerate", "merge", "sidecar", "hold", "skip"}
         /\ p \in SharedBy(t) /\ p \in Produced(S)
         /\ ActionFits(p, a, disk[p], FALSE)
         /\ a = "regenerate" => disk[p].edit = 0
<1>1. PICK r \in BOOLEAN : a = PlanShared(t, state, disk, S, r)[p]
  OBVIOUS
<1>2. /\ a \in {"create", "regenerate", "merge", "sidecar", "hold", "skip"}
      /\ p \in SharedBy(t) /\ p \in Produced(S)
  BY <1>1, SharedShape
<1>5. ActionFits(p, a, disk[p], FALSE)
  BY <1>1, SharedFits
<1>3. Strategy[p] # "libraryManaged"
  BY <1>2, FileKindsAssumption DEF SharedBy
<1>4. QED
  BY <1>2, <1>3, <1>5 DEF ActionFits

\* A disable's three reasons to act on a file exclude each other.
LEMMA DisableApart ==
  ASSUME NEW t \in Registry, NEW p \in Paths, NEW S, EntryFits(p, state[p])
  PROVE  /\ p \in Exclusive(t) => ~SupportOrphan(p, state[p], S) /\ p \notin SharedBy(t)
         /\ p \in SharedBy(t) => ~SupportOrphan(p, state[p], S)
         /\ p \in Removable(t, state, disk) => p \in Exclusive(t)
<1>1. p \in Exclusive(t) => p \notin SharedBy(t)
  BY UpkeepPlanAssumption DEF Exclusive, SharedBy
<1>2. p \in SharedBy(t) => Owner[p] = NoTool
  BY FileKindsAssumption DEF SharedBy
<1>3. QED
  BY <1>1, <1>2 DEF SupportOrphan, EntryFits, Exclusive, Removable, Candidates

\* An enable writes over nothing of the user's without --force, and never over
\* a skip-if-exists file.
LEMMA EnableFits ==
  ASSUME TypeOK, LedgerFits, NEW t \in Registry, NEW f \in BOOLEAN,
         NEW S \in SUBSET Choices, t \in S, ~EnableRefused(t, state, disk, S, f),
         NEW p \in Paths, NEW a, a = PlanEnable(t, state, disk, S)[p], a # "none"
  PROVE  /\ a \in {"write", "create", "regenerate", "merge", "sidecar", "hold", "skip"}
         /\ p \in Produced(S)
         /\ a = "write" => disk[p].edit = 0 \/ (f /\ Strategy[p] # "skip")
         /\ ActionFits(p, a, disk[p], FALSE)
         /\ a = "regenerate" => disk[p].edit = 0
         /\ a # "write" => p \in SharedBy(t)
<1>1. EntryFits(p, state[p])
  BY DEF LedgerFits
<1>2. CASE p \in EnableWrites(t, state, disk, S)
  <2>1. a = "write"
    BY <1>2 DEF PlanEnable
  <2>2. \/ p \in Exclusive(t) /\ ~(Strategy[p] = "skip" /\ Foreign(state[p], disk[p]))
        \/ p \in Support(t)
    BY <1>2 DEF EnableWrites
  <2>3. p \in Produced(S)
    BY <1>2 DEF EnableWrites
  <2>4. ~Mergeable(Strategy[p]) /\ (p \in Support(t) => Strategy[p] # "skip")
    BY <2>2, FileKindsAssumption, UpkeepPlanAssumption
    DEF Exclusive, Support, Mergeable
  <2>5. CASE Foreign(state[p], disk[p])
    BY <1>2, <2>1, <2>2, <2>3, <2>4, <2>5 DEF EnableRefused, ActionFits
  <2>6. CASE ~Foreign(state[p], disk[p])
    <3>1. disk[p].edit = 0
      BY <1>1, <2>4, <2>6 DEF Foreign, Absent, Gen, EntryFits, EntryClean
    <3>2. QED
      BY <2>1, <2>3, <3>1 DEF ActionFits
  <2>7. QED
    BY <2>5, <2>6
<1>3. CASE p \notin EnableWrites(t, state, disk, S)
  <2>1. a = PlanShared(t, state, disk, S, FALSE)[p]
    BY <1>3 DEF PlanEnable
  <2>2. EntryClean(p, state[p])
    BY <1>1 DEF EntryFits
  <2>3. QED
    BY <2>1, <2>2, SharedPlanned
<1>4. QED
  BY <1>2, <1>3

\* A disable deletes only what it wrote, or with --force; it cuts sections out
\* of what is no longer generated, and lets go of a support file only if
\* someone changed it.
LEMMA DisableFits ==
  ASSUME TypeOK, LedgerFits, RecordFits, op = "none",
         NEW t \in Registry, NEW f \in BOOLEAN,
         NEW S \in SUBSET Choices, t \notin S, ~RemovalRefused(t, state, disk, f),
         NEW p \in Paths, NEW a, a = PlanDisable(t, state, disk, S)[p], a # "none"
  PROVE  /\ a \in {"delete", "create", "regenerate", "merge", "sidecar", "hold",
                   "skip", "remove", "untrack", "strip"}
         /\ a \in {"create", "regenerate", "merge"} => p \in Produced(S)
         /\ a = "delete" => disk[p].edit = 0 \/ f
         /\ ActionFits(p, a, disk[p], FALSE)
         /\ a = "regenerate" => disk[p].edit = 0
         /\ a = "untrack" => p \in touched \cup torn
         /\ a = "strip" => p \in Strippable \ Produced(S) /\ Mergeable(Strategy[p])
<1>1. EntryFits(p, state[p])
  BY DEF LedgerFits
<1>2. CASE p \in Removable(t, state, disk)
  <2>1. a = "delete"
    BY <1>1, <1>2, DisableApart DEF PlanDisable
  <2>2. p \in Exclusive(t)
    BY <1>2 DEF Removable, Candidates
  <2>3. ~Mergeable(Strategy[p])
    BY <2>2, FileKindsAssumption DEF Exclusive
  <2>4. f \/ disk[p] = state[p].hash
    BY <1>2 DEF RemovalRefused
  <2>5. disk[p].edit = 0 \/ f
    BY <1>1, <2>3, <2>4 DEF EntryFits, EntryClean
  <2>6. QED
    BY <2>1, <2>5 DEF ActionFits
<1>3. CASE p \notin Removable(t, state, disk) /\ SupportOrphan(p, state[p], S)
  <2>1. a = PlanOrphan(p, state[p], disk[p])
    BY <1>1, <1>3, DisableApart DEF PlanDisable
  <2>2. Tracked(state[p]) /\ p \notin Produced(S)
    BY <1>3 DEF SupportOrphan
  <2>3. p \notin Settings
    BY <1>1, <1>3, FileKindsAssumption DEF SupportOrphan, EntryFits
  <2>4. a = "untrack" => disk[p] # state[p].hash
    BY <2>1, <2>2, <2>3 DEF PlanOrphan, Status, Tracked
  <2>5. a = "untrack" => p \in touched \cup torn
    BY <2>2, <2>4 DEF RecordFits, Exact
  <2>6. ActionFits(p, a, disk[p], FALSE)
    BY <1>1, <2>1, OrphanFits DEF EntryFits
  <2>7. QED
    BY <2>1, <2>5, <2>6, OrphanType
<1>4. CASE /\ p \notin Removable(t, state, disk) /\ ~SupportOrphan(p, state[p], S)
           /\ p \in SharedBy(t) \cap Strippable /\ Tracked(state[p])
           /\ PlanShared(t, state, disk, S, TRUE)[p] = "none"
  <2>1. a = "strip"
    BY <1>4 DEF PlanDisable
  <2>2. p \notin Produced(S)
    BY <1>4, SharedShape
  <2>3. Shares[p] # {} /\ (p \in Claude \/ p \notin Core)
    BY <1>4, <2>2, SharedProduced DEF SharedBy
  <2>4. Mergeable(Strategy[p])
    BY <2>3, FileKindsAssumption
  <2>5. QED
    BY <1>4, <2>1, <2>2, <2>4 DEF ActionFits
<1>5. CASE a = PlanShared(t, state, disk, S, TRUE)[p]
  <2>1. EntryClean(p, state[p])
    BY <1>1 DEF EntryFits
  <2>2. QED
    BY <1>5, <2>1, SharedPlanned
<1>6. QED
  BY <1>2, <1>3, <1>4, <1>5 DEF PlanDisable

LEMMA BeginPlanFits ==
  ASSUME NEW o \in Ops, NEW S, NEW t, NEW f, NEW pl, NEW gone,
         Begin(o, S, t, f, pl, gone),
         \A p \in Paths : pl[p] # "none" =>
           /\ pl[p] = "write" =>
                o = "enable" /\ (disk[p].edit = 0 \/ (f /\ Strategy[p] # "skip"))
           /\ pl[p] = "delete" => o = "disable" /\ (disk[p].edit = 0 \/ f)
           /\ pl[p] = "repair" => o = "repair"
           /\ ActionFits(p, pl[p], disk[p], f)
           /\ pl[p] = "regenerate" /\ o # "update" => disk[p].edit = 0
           /\ pl[p] \in {"merge", "strip"} => Mergeable(Strategy[p])
           /\ pl[p] \in {"write", "create", "regenerate", "merge"}
                => p \in Produced(S)
           /\ pl[p] = "strip" => o = "disable" /\ p \in Strippable \ Produced(S)
           /\ pl[p] = "untrack" => p \in touched \cup torn
  PROVE  PlanFits'
<1>1. /\ op' = o /\ on' = S /\ force' = f /\ plan' = pl
      /\ todo' = {p \in Paths : pl[p] # "none"} /\ UNCHANGED <<disk, touched, torn>>
      /\ o # "teardown" => out' = NoEntries
  BY DEF Begin, fileVars
<1>2. \A p \in Paths : ~Tracked(NoEntries[p])
  BY DEF Tracked, NoEntries, Untracked
<1>3. SUFFICES ASSUME NEW p \in todo'
      PROVE  /\ p \notin fresh' => StepFits(p, plan[p], disk[p])'
             /\ (plan[p] = "write" => op = "enable")'
             /\ (plan[p] = "delete" => op = "disable")'
             /\ (plan[p] = "repair" => op = "repair")'
             /\ (plan[p] \in {"merge", "strip"} => Mergeable(Strategy[p]))'
             /\ (plan[p] \in {"write", "create", "regenerate", "merge"}
                  => p \in Produced(on))'
             /\ (plan[p] = "strip" => op = "disable" /\ p \in Strippable \ Produced(on))'
             /\ (plan[p] = "untrack" => p \in touched \cup torn)'
             /\ (Changing => ~Tracked(out[p]))'
  BY DEF PlanFits
<1>4. p \in Paths /\ pl[p] # "none"
  BY <1>1, <1>3
<1>5. (Changing => ~Tracked(out[p]))'
  BY <1>1, <1>2, <1>4 DEF Changing
<1>6. StepFits(p, plan[p], disk[p])'
  BY <1>1, <1>4 DEF StepFits
<1>7. QED
  BY <1>1, <1>4, <1>5, <1>6

LEMMA StartPlanFits ==
  ASSUME TypeOK, LedgerFits, RecordFits, ClaudeFits,
         \/ \E t \in Registry, f \in BOOLEAN : StartEnable(t, f) \/ StartDisable(t, f)
         \/ \E f \in BOOLEAN : StartUpdate(f)
         \/ \E f, reset \in BOOLEAN : StartRepair(f, reset)
         \/ StartTeardown
  PROVE  PlanFits'
<1>1. \A p \in Paths, f \in BOOLEAN : \A a :
        ActionFits(p, a, disk[p], FALSE) => ActionFits(p, a, disk[p], f)
  BY DEF ActionFits
<1>2. Effective \in SUBSET Choices /\ Registry \subseteq Choices
  BY EffectiveType DEF Choices
<1>3. ASSUME NEW t \in Registry, NEW f \in BOOLEAN, StartEnable(t, f)
      PROVE  PlanFits'
  <2> DEFINE S == Effective \cup {t}
             pl == PlanEnable(t, state, disk, S)
  <2>1. S \in SUBSET Choices /\ t \in S /\ ~EnableRefused(t, state, disk, S, f)
    BY <1>2, <1>3 DEF StartEnable
  <2>2. Begin("enable", S, t, f, pl, {}) /\ "enable" \in Ops
    BY <1>3 DEF StartEnable, Ops
  <2> HIDE DEF S
  <2>3. \A p \in Paths : pl[p] # "none" =>
          /\ pl[p] \in {"write", "create", "regenerate", "merge", "sidecar", "hold",
                        "skip"}
          /\ p \in Produced(S)
          /\ pl[p] = "write" => disk[p].edit = 0 \/ (f /\ Strategy[p] # "skip")
          /\ ActionFits(p, pl[p], disk[p], FALSE)
          /\ pl[p] = "regenerate" => disk[p].edit = 0
    BY <2>1, EnableFits
  <2> HIDE DEF pl
  <2>4. \A p \in Paths : pl[p] # "none" =>
          /\ ActionFits(p, pl[p], disk[p], f)
          /\ pl[p] \in {"merge", "strip"} => Mergeable(Strategy[p])
    BY <1>1, <2>3 DEF ActionFits
  <2>5. QED
    BY <2>2, <2>3, <2>4, BeginPlanFits
<1>4. ASSUME NEW t \in Registry, NEW f \in BOOLEAN, StartDisable(t, f)
      PROVE  PlanFits'
  <2> DEFINE S == Effective \ {t}
             pl == PlanDisable(t, state, disk, S)
  <2>1. /\ S \in SUBSET Choices /\ t \notin S /\ ~RemovalRefused(t, state, disk, f)
        /\ op = "none"
    BY <1>2, <1>4 DEF StartDisable, Begin
  <2>2. Begin("disable", S, t, f, pl, Gone(t, disk)) /\ "disable" \in Ops
    BY <1>4 DEF StartDisable, Ops
  <2> HIDE DEF S
  <2>3. \A p \in Paths : pl[p] # "none" =>
          /\ pl[p] \in {"delete", "create", "regenerate", "merge", "sidecar", "hold",
                        "skip", "remove", "untrack", "strip"}
          /\ pl[p] \in {"create", "regenerate", "merge"} => p \in Produced(S)
          /\ pl[p] = "delete" => disk[p].edit = 0 \/ f
          /\ ActionFits(p, pl[p], disk[p], FALSE)
          /\ pl[p] = "regenerate" => disk[p].edit = 0
          /\ pl[p] = "untrack" => p \in touched \cup torn
          /\ pl[p] = "strip" => p \in Strippable \ Produced(S) /\ Mergeable(Strategy[p])
    BY <2>1, DisableFits
  <2> HIDE DEF pl
  <2>4. \A p \in Paths : pl[p] # "none" =>
          /\ ActionFits(p, pl[p], disk[p], f)
          /\ pl[p] \in {"merge", "strip"} => Mergeable(Strategy[p])
    BY <1>1, <2>3 DEF ActionFits
  <2>5. QED
    BY <2>2, <2>3, <2>4, BeginPlanFits
<1>5. ASSUME NEW f \in BOOLEAN, StartUpdate(f) PROVE PlanFits'
  <2> DEFINE pl == PlanUpdate(state, disk, Effective, f)
  <2>1. Begin("update", Effective, NoTool, f, pl, {}) /\ "update" \in Ops
        /\ op = "none"
    BY <1>5 DEF StartUpdate, Begin, Ops
  <2>2. ASSUME NEW p \in Paths
        PROVE  /\ pl[p] \in {"none", "create", "regenerate", "merge", "sidecar", "hold",
                             "skip", "remove", "untrack"}
               /\ pl[p] \in {"create", "regenerate", "merge", "sidecar", "hold", "skip"}
                    <=> p \in Produced(Effective)
               /\ pl[p] \in {"remove", "untrack"} =>
                    Tracked(state[p]) /\ pl[p] = PlanOrphan(p, state[p], disk[p])
               /\ ActionFits(p, pl[p], disk[p], f)
    <3>1. EntryClean(p, state[p])
      BY DEF LedgerFits, EntryFits
    <3>2. QED
      BY <3>1, UpdateShape
  <2>3. \A p \in Paths : pl[p] = "untrack" => p \in touched \cup torn
    <3> SUFFICES ASSUME NEW p \in Paths, pl[p] = "untrack"
                 PROVE  p \in touched \cup torn
      OBVIOUS
    <3>1. p \notin Produced(Effective) /\ Tracked(state[p])
          /\ PlanOrphan(p, state[p], disk[p]) = "untrack"
      BY <2>2
    <3>2. CASE p \in Settings
      BY <1>2, <2>1, <3>1, <3>2, SettingsProduced DEF ClaudeFits
    <3>3. CASE p \notin Settings
      <4>1. disk[p] # state[p].hash
        BY <3>1, <3>3 DEF PlanOrphan, Status, Tracked
      <4>2. QED
        BY <2>1, <3>1, <4>1 DEF RecordFits, Exact
    <3>4. QED
      BY <3>2, <3>3
  <2> HIDE DEF pl
  <2>4. \A p \in Paths : pl[p] = "merge" => Mergeable(Strategy[p])
    BY <2>2 DEF ActionFits
  <2>5. QED
    BY <2>1, <2>2, <2>3, <2>4, BeginPlanFits
<1>6. ASSUME NEW f \in BOOLEAN, NEW r \in BOOLEAN, StartRepair(f, r) PROVE PlanFits'
  <2> DEFINE pl == PlanRepair(state, disk, Effective, f, r)
  <2>1. Begin("repair", Effective, NoTool, f, pl, {}) /\ "repair" \in Ops
    BY <1>6 DEF StartRepair, Ops
  <2>2. \A p \in Paths : pl[p] # "none" => pl[p] = "repair"
    BY DEF PlanRepair
  <2>3. \A p \in Paths : ActionFits(p, "repair", disk[p], f)
    BY DEF ActionFits
  <2> HIDE DEF pl
  <2>4. QED
    BY <2>1, <2>2, <2>3, BeginPlanFits
<1>7. CASE StartTeardown
  <2> DEFINE pl == PlanTeardown(state, disk)
  <2>1. Begin("teardown", {}, NoTool, FALSE, pl, {}) /\ "teardown" \in Ops
    BY <1>7 DEF StartTeardown, Ops
  <2>2. \A p \in Paths : pl[p] \in {"none", "clean", "remove"}
    BY TeardownType
  <2>3. \A p \in Paths : pl[p] = "remove" => disk[p] = state[p].hash
    BY DEF PlanTeardown
  <2>4. \A p \in Paths : EntryClean(p, state[p])
    BY DEF LedgerFits, EntryFits
  <2> HIDE DEF pl
  <2>5. \A p \in Paths : ActionFits(p, pl[p], disk[p], FALSE)
    BY <2>2, <2>3, <2>4 DEF ActionFits, EntryClean
  <2>6. QED
    BY <2>1, <2>2, <2>5, BeginPlanFits
<1>8. QED
  BY <1>3, <1>4, <1>5, <1>6, <1>7

\* While a saving command is between its files and its record, nothing is left
\* to handle.
LEMMA SavingDone ==
  ASSUME TypeOK, Control, SaveState \/ SaveAnswers \/ SyncConfig
  PROVE  Changing /\ todo = {} /\ todo' = {}
<1>1. CASE SaveState
  <2>1. pc = "files" /\ op # "teardown" /\ (\A p \in todo : plan[p] = "clean")
        /\ todo' = todo
    BY <1>1 DEF SaveState, FilesDone, SaveUnchanged
  <2>2. Changing
    BY <2>1 DEF Control, Changing, TypeOK, Ops
  <2>3. QED
    BY <2>1, <2>2 DEF Control, TypeOK
<1>2. CASE SaveAnswers \/ SyncConfig
  <2>1. pc \in {"answers", "config"} /\ todo' = todo
    BY <1>2 DEF SaveAnswers, SyncConfig, SaveUnchanged
  <2>2. QED
    BY <2>1 DEF Control, Changing, TypeOK, Ops
<1>3. QED
  BY <1>1, <1>2

LEMMA PlanFitsStep ==
  ASSUME TypeOK, LedgerFits, Control, RecordFits, ClaudeFits, PlanFits, [Next]_vars
  PROVE  PlanFits'
<1>1. ASSUME NEW p \in Paths, FileStep(p) PROVE PlanFits'
  <2>1. /\ UNCHANGED <<op, on, force, plan, fresh, torn>>
        /\ todo' \subseteq todo \ {p} /\ todo \subseteq Paths
    BY <1>1, FileStepFrame DEF TypeOK
  <2>2. \A q \in todo' : /\ disk'[q] = disk[q] /\ out'[q] = out[q]
                         /\ q \in touched' <=> q \in touched
    BY <1>1, <2>1, FileStepOne
  <2>3. QED
    BY <2>1, <2>2 DEF PlanFits, StepFits, Changing
<1>2. CASE SaveState \/ SaveAnswers \/ SyncConfig
  BY <1>2, SavingDone DEF PlanFits
<1>3. CASE UNCHANGED <<op, on, force, plan, todo, fresh, disk, out, touched, torn>>
  BY <1>3 DEF PlanFits, StepFits, Changing
<1>4. CASE StartRecord \/ RemoveOwn \/ RecordRemoved \/ RemoveDirs
  BY <1>3, <1>4 DEF StartRecord, RemoveOwn, RecordRemoved, RemoveDirs,
     SaveUnchanged, startVars, fileVars, recordVars
<1>5. CASE Finish \/ Crash \/ \E p \in Paths : ChangeStops(p)
  BY <1>5 DEF Finish, Crash, ChangeStops, Idle, PlanFits
<1>6. ASSUME NEW p \in Paths, UserEdit(p) \/ UserDelete(p) \/ AcceptSidecar(p)
      PROVE  PlanFits'
  <2>1. PICK c : UserChanges(p, c)
    BY <1>6 DEF UserEdit, UserDelete, AcceptSidecar
  <2>2. UNCHANGED <<op, on, force, plan, todo, out, torn>>
    BY <2>1 DEF UserChanges, cmdVars, startVars
  <2>3. /\ touched' = touched \cup {p}
        /\ \A q \in Paths \ {p} : disk'[q] = disk[q]
    BY <2>1 DEF UserChanges, TypeOK
  <2>4. op = "none" => todo = {}
    BY DEF Control
  <2>5. op # "none" => fresh' = fresh \cup {p}
    BY <2>1 DEF UserChanges
  <2>6. todo \subseteq Paths
    BY DEF TypeOK
  <2>7. \A q \in todo' : q \notin fresh' => StepFits(q, plan[q], disk[q])'
    BY <2>2, <2>3, <2>4, <2>5, <2>6 DEF PlanFits, StepFits
  <2>8. QED
    BY <2>2, <2>3, <2>7 DEF PlanFits, Changing, StepFits
<1>7. CASE UNCHANGED vars
  BY <1>3, <1>7 DEF vars, fileVars, cmdVars, startVars
<1>8. QED
  BY <1>1, <1>2, <1>4, <1>5, <1>6, <1>7, StartPlanFits, NextCases

-----------------------------------------------------------------------------
(* The record a command saves. *)

\* A step that writes its file leaves qsdev output there, recorded as written.
LEMMA WrittenExact ==
  ASSUME TypeOK, Control, PlanFits, NEW p \in Paths,
         \/ WriteFile(p) \/ MergeFile(p) \/ RepairFile(p)
         \/ StripSection(p) /\ target \in SectionsOf(disk[p])
  PROVE  /\ disk'[p] = out'[p].hash /\ disk'[p].gen \in Versions
         /\ Tracked(out'[p])
<1>1. on \in SUBSET Choices /\ disk \in [Paths -> Content] /\ out \in [Paths -> Entry]
  BY DEF TypeOK
<1>2. CASE WriteFile(p) \/ MergeFile(p) \/ RepairFile(p)
  <2>1. p \in Produced(on)
    BY <1>2 DEF WriteFile, MergeFile, RepairFile, Turn, PlanFits
  <2>2. Output(p, on) \in Versions
    BY <1>1, <2>1, OutputType
  <2>3. PICK c, b, o : Writes(p, c, b, o) /\ c.gen \in Versions
    <3> DEFINE v == Output(p, on)
               m == MergeContent(p, state[p].base, disk[p], v)
    <3>1. Gen(v).gen \in Versions /\ m.gen \in Versions
      BY <2>2, MergedGen DEF Gen
    <3>2. (\E o : Writes(p, Gen(v), Gen(v), o)) \/ (\E o : Writes(p, m, Gen(v), o))
      BY <1>2 DEF WriteFile, MergeFile, RepairFile
    <3> HIDE DEF m, v
    <3>3. QED
      BY <3>1, <3>2
  <2>4. disk'[p] = c /\ out'[p].hash = c
    BY <1>1, <2>3 DEF Writes, RecordFile
  <2>5. QED
    BY <2>3, <2>4, LedgerAssumption DEF Tracked, Absent, Versions
<1>3. CASE StripSection(p) /\ target \in SectionsOf(disk[p])
  <2> DEFINE left == SectionsOf(disk[p]) \ {target}
             c == [disk[p] EXCEPT !.gen = Rendering(left)]
  <2>1. c.gen \in Versions
    BY StripType
  <2>2. disk' = [disk EXCEPT ![p] = c]
        /\ out' = [out EXCEPT ![p] = [state[p] EXCEPT !.hash = c]]
    BY <1>3 DEF StripSection
  <2> HIDE DEF c
  <2>3. disk'[p] = c /\ out'[p].hash = c
    BY <1>1, <2>2 DEF Entry, TypeOK
  <2>4. QED
    BY <2>1, <2>3, LedgerAssumption DEF Tracked, Absent, Versions
<1>4. QED
  BY <1>2, <1>3

\* The outcomes of a step on a file: it is written, removed, forgotten,
\* cleaned, left alone, or it failed.
LEMMA FileStepOutcome ==
  ASSUME NEW p \in Paths, FileStep(p)
  PROVE  \/ \/ WriteFile(p) \/ MergeFile(p) \/ RepairFile(p)
            \/ StripSection(p) /\ target \in SectionsOf(disk[p])
         \/ RemoveFile(p) \/ UntrackFile(p) \/ CleanFile(p)
         \/ LeavesAlone /\ \/ plan[p] \in {"skip", "sidecar", "hold"}
                           \/ plan[p] = "create" /\ disk[p] # Absent
                           \/ plan[p] = "strip" /\ target \notin SectionsOf(disk[p])
         \/ Fails(p) /\ plan[p] \notin {"none", "write", "delete"}
  BY DEF FileStep, WriteSidecar, SkipFile, MergeFails, RemoveFails, StripSection,
     StripFails, RepairFails, CleanFails, UpdateStops

LEMMA RecordFileChanging ==
  ASSUME TypeOK, Control, PlanFits, RecordFits, Changing,
         NEW p \in Paths, FileStep(p), NEW q \in Paths
  PROVE  /\ q \notin touched' /\ Tracked(out'[q]) => disk'[q] = out'[q].hash
         /\ q \notin touched' \cup torn' => Exact(q, Pending(q))'
<1>1. /\ UNCHANGED <<state, torn>> /\ p \in todo /\ plan[p] # "clean"
      /\ ~Tracked(out[p])
  BY FileStepFrame DEF Control, PlanFits
<1>2. CASE q # p
  <2>1. /\ disk'[q] = disk[q] /\ out'[q] = out[q]
        /\ q \in dropped' <=> q \in dropped
        /\ q \in touched' <=> q \in touched
    BY <1>2, FileStepOne
  <2>2. QED
    BY <1>1, <2>1 DEF RecordFits, Exact, Pending
<1>3. CASE q = p /\ \/ WriteFile(p) \/ MergeFile(p) \/ RepairFile(p)
                    \/ StripSection(p) /\ target \in SectionsOf(disk[p])
  BY <1>3, WrittenExact DEF Exact, Pending
<1>4. CASE q = p /\ RemoveFile(p)
  <2>1. disk'[p] = Absent /\ out' = out /\ p \in dropped'
    BY <1>4 DEF RemoveFile, TypeOK
  <2>2. QED
    BY <1>1, <1>4, <2>1 DEF Exact, Pending, Tracked, Untracked, Absent
<1>5. CASE q = p /\ UntrackFile(p)
  <2>1. p \in touched \cup torn /\ UNCHANGED <<touched, out>>
    BY <1>1, <1>5 DEF UntrackFile, PlanFits
  <2>2. QED
    BY <1>1, <1>5, <2>1
<1>6. CASE q = p /\ (LeavesAlone \/ Fails(p))
  BY <1>1, <1>6 DEF LeavesAlone, Fails, RecordFits, Exact, Pending
<1>7. QED
  BY <1>1, <1>2, <1>3, <1>4, <1>5, <1>6, FileStepOutcome DEF CleanFile

LEMMA RecordFileTeardown ==
  ASSUME TypeOK, LedgerFits, Control, RecordFits, op = "teardown",
         NEW p \in Paths, FileStep(p), NEW q \in Paths \ (touched' \cup torn')
  PROVE  /\ q \in todo' => Tracked(out'[q]) /\ disk'[q] = out'[q].hash
         /\ q \notin todo' \cup failed' => disk'[q].gen = 0 \/ Strays(q)'
<1>1. /\ UNCHANGED torn /\ p \in todo /\ todo' = todo \ {p}
      /\ plan[p] \in {"none", "clean", "remove"}
  BY FileStepFrame DEF Control
<1>2. CASE q # p
  <2>1. /\ disk'[q] = disk[q] /\ out'[q] = out[q]
        /\ q \in failed' <=> q \in failed
        /\ q \in touched' <=> q \in touched
    BY <1>2, FileStepOne
  <2>2. Strays(q)' <=> Strays(q)
    BY <2>1 DEF Strays, SectionsOf
  <2>3. QED
    BY <1>1, <1>2, <2>1, <2>2 DEF RecordFits
<1>3. CASE q = p /\ RemoveFile(p)
  BY <1>1, <1>3 DEF RemoveFile, TypeOK, Absent
<1>4. CASE q = p /\ CleanFile(p)
  <2>1. /\ touched' = touched /\ disk'[p] = Cleaned(p, disk[p], out[p].base)
        /\ out' = out
    BY <1>4 DEF CleanFile, TypeOK
  <2>2. disk[p] = out[p].hash /\ Tracked(out[p])
    BY <1>1, <1>4, <2>1 DEF RecordFits
  <2>3. disk[p] \in Content /\ out[p].base \in Content
    BY DEF TypeOK, Entry
  <2>4. \/ disk'[p].gen = 0
        \/ /\ p \in Settings /\ SectionsOf(disk'[p]) # {}
           /\ SectionsOf(disk'[p]) = SectionsOf(out[p].hash) \ SectionsOf(out[p].base)
    BY <2>1, <2>2, <2>3, CleanedType
  <2>5. disk'[p].gen = 0 \/ Strays(p)'
    BY <2>1, <2>4 DEF Strays, SectionsOf
  <2>6. QED
    BY <1>1, <1>4, <2>5
<1>5. CASE q = p /\ Fails(p)
  BY <1>1, <1>5 DEF Fails
<1>6. QED
  BY <1>1, <1>2, <1>3, <1>4, <1>5, FileStepOutcome
  DEF WriteFile, MergeFile, RepairFile, StripSection, UntrackFile

LEMMA RecordFileStep ==
  ASSUME TypeOK, LedgerFits, Control, PlanFits, RecordFits,
         NEW p \in Paths, FileStep(p)
  PROVE  RecordFits'
<1>1. UNCHANGED <<op, pc, state, present>> /\ p \in todo
  BY FileStepFrame
<1>2. op # "none" /\ (Changing => pc = "files")
  BY <1>1 DEF Control
<1>3. ("state" \notin present => \A q \in Paths : ~Tracked(state[q]))'
  BY <1>1 DEF RecordFits
<1>4. CASE Changing
  <2>1. \A q \in Paths :
          /\ q \notin touched' /\ Tracked(out'[q]) => disk'[q] = out'[q].hash
          /\ q \notin touched' \cup torn' => Exact(q, Pending(q))'
    BY <1>4, RecordFileChanging
  <2>2. op # "teardown" /\ Changing'
    BY <1>1, <1>4 DEF Changing
  <2>3. QED
    BY <1>1, <1>2, <1>3, <1>4, <2>1, <2>2 DEF RecordFits
<1>5. CASE op = "teardown"
  BY <1>1, <1>3, <1>5, RecordFileTeardown DEF RecordFits, Changing
<1>6. QED
  BY <1>2, <1>4, <1>5 DEF Changing, TypeOK, Ops

LEMMA RecordInit ==
  ASSUME Init
  PROVE  RecordFits
<1>1. answers \in SUBSET Choices /\ op = "none" /\ "state" \in present
  BY DEF Init, OwnFiles
<1>2. ASSUME NEW p \in Paths PROVE Exact(p, state[p])
  <2>1. disk[p] = Fresh(p, answers)
    BY DEF Init
  <2>2. CASE p \in Produced(answers)
    <3>1. Output(p, answers) # 0
      BY <2>2 DEF Produced
    <3>2. state[p] = RecordFile(p, disk[p], disk[p], Owner[p])
      BY <2>2 DEF Init
    <3>3. QED
      BY <2>1, <3>1, <3>2 DEF RecordFile, Exact, Tracked, Fresh, Gen, Absent
  <2>3. CASE p \notin Produced(answers)
    <3>1. Output(p, answers) = 0
      BY <1>1, <2>3, OutputType
    <3>2. state[p] = Untracked
      BY <2>3 DEF Init
    <3>3. QED
      BY <2>1, <3>1, <3>2 DEF Exact, Tracked, Untracked, Fresh, Absent
  <2>4. QED
    BY <2>2, <2>3
<1>3. QED
  BY <1>1, <1>2 DEF RecordFits, Changing

\* A command that saves a record starts from an exact one.
LEMMA BeginRecord ==
  ASSUME TypeOK, RecordFits,
         NEW o \in {"enable", "disable", "update", "repair"},
         NEW S, NEW t, NEW f, NEW pl, NEW gone,
         Begin(o, S, t, f, pl, gone), \A p \in gone : disk[p] = Absent
  PROVE  RecordFits'
<1>1. /\ op = "none" /\ op' = o /\ pc' = "files" /\ out' = NoEntries
      /\ dropped' = gone /\ UNCHANGED <<disk, state, present, touched, torn>>
  BY DEF Begin, fileVars, recordVars
<1>2. \A p \in Paths : ~Tracked(NoEntries[p])
  BY DEF NoEntries, Untracked, Tracked
<1>3. \A p \in Paths \ (touched \cup torn) : Exact(p, Pending(p))'
  BY <1>1, <1>2 DEF RecordFits, Pending, Exact, Untracked, Tracked, Absent
<1>4. QED
  BY <1>1, <1>2, <1>3 DEF RecordFits

LEMMA StartRecordFits ==
  ASSUME TypeOK, LedgerFits, RecordFits,
         \/ \E t \in Registry, f \in BOOLEAN : StartEnable(t, f) \/ StartDisable(t, f)
         \/ \E f \in BOOLEAN : StartUpdate(f)
         \/ \E f, reset \in BOOLEAN : StartRepair(f, reset)
         \/ StartTeardown
  PROVE  RecordFits'
<1>1. ASSUME NEW t \in Registry, NEW f \in BOOLEAN, StartEnable(t, f)
      PROVE  RecordFits'
  BY <1>1, BeginRecord DEF StartEnable
<1>2. ASSUME NEW t \in Registry, NEW f \in BOOLEAN, StartDisable(t, f)
      PROVE  RecordFits'
  <2>1. \A p \in Gone(t, disk) : disk[p] = Absent
    BY DEF Gone
  <2>2. QED
    BY <1>2, <2>1, BeginRecord DEF StartDisable
<1>3. ASSUME NEW f \in BOOLEAN, StartUpdate(f) PROVE RecordFits'
  BY <1>3, BeginRecord DEF StartUpdate
<1>4. ASSUME NEW f \in BOOLEAN, NEW r \in BOOLEAN, StartRepair(f, r) PROVE RecordFits'
  BY <1>4, BeginRecord DEF StartRepair
<1>5. CASE StartTeardown
  <2> DEFINE pl == PlanTeardown(state, disk)
  <2>1. /\ op = "none" /\ op' = "teardown" /\ out' = state
        /\ failed' = {} /\ todo' = {p \in Paths : pl[p] # "none"}
        /\ UNCHANGED <<disk, state, present, touched, torn>>
    BY <1>5 DEF StartTeardown, Begin, fileVars, recordVars
  <2>2. ASSUME NEW p \in Paths \ (touched \cup torn)
        PROVE  /\ pl[p] # "none" => Tracked(state[p]) /\ disk[p] = state[p].hash
               /\ pl[p] = "none" => disk[p].gen = 0
    <3>1. Exact(p, state[p])
      BY <2>1 DEF RecordFits
    <3>2. CASE ~Tracked(state[p])
      BY <3>1, <3>2 DEF PlanTeardown, Exact
    <3>3. CASE Tracked(state[p])
      <4>1. disk[p] = state[p].hash /\ disk[p] # Absent
        BY <3>1, <3>3 DEF Exact, Tracked
      <4>2. pl[p] # "none"
        BY <3>3, <4>1 DEF PlanTeardown
      <4>3. QED
        BY <3>3, <4>1, <4>2
    <3>4. QED
      BY <3>2, <3>3
  <2> HIDE DEF pl
  <2>3. QED
    BY <2>1, <2>2 DEF RecordFits, Changing
<1>6. QED
  BY <1>1, <1>2, <1>3, <1>4, <1>5

\* What a save does to the record, and to what it takes a file for.
LEMMA SavedRecord ==
  ASSUME TypeOK, SaveState
  PROVE  /\ UNCHANGED <<disk, op, on, target, plan, todo, out, dropped, failed, fresh,
                        touched>>
         /\ \A p \in Paths : state'[p] = Pending(p) /\ Pending(p)' = Pending(p)
         /\ torn' \subseteq torn
         /\ \A p \in torn \ torn' :
              Tracked(out[p]) \/ (p \in dropped /\ disk[p] = Absent)
<1>1. /\ UNCHANGED <<disk, op, on, target, plan, todo, out, dropped, failed, fresh,
                     touched>>
      /\ torn' = torn \ (Written \cup {p \in dropped : disk[p] = Absent})
  BY DEF SaveState, SaveUnchanged, fileVars, startVars
<1>2. \A p \in Paths : state'[p] = Pending(p)
  BY DEF SaveState, Pending
<1>3. \A p \in Paths : Pending(p)' = Pending(p)
  BY <1>1, <1>2 DEF Pending
<1>4. QED
  BY <1>1, <1>2, <1>3 DEF Written

LEMMA SaveRecordFits ==
  ASSUME TypeOK, Control, RecordFits, SaveState
  PROVE  RecordFits'
<1>1. Changing /\ Changing'
  BY SavingDone, SavedRecord DEF Changing
<1>2. \A p \in Paths \ touched' : Tracked(out'[p]) => disk'[p] = out'[p].hash
  BY <1>1, SavedRecord DEF RecordFits
<1>3. ASSUME NEW p \in Paths \ (touched' \cup torn')
      PROVE  Exact(p, Pending(p))'
  <2>1. UNCHANGED <<disk, out, dropped, touched>> /\ Pending(p)' = Pending(p)
    BY SavedRecord
  <2>2. SUFFICES Exact(p, Pending(p))
    BY <2>1 DEF Exact
  <2>3. CASE p \notin torn
    BY <1>1, <2>1, <2>3 DEF RecordFits
  <2>4. CASE p \in torn /\ Tracked(out[p])
    BY <1>1, <2>1, <2>4 DEF RecordFits, Exact, Pending
  <2>5. CASE p \in dropped /\ disk[p] = Absent /\ ~Tracked(out[p])
    BY <2>5 DEF Exact, Pending, Untracked, Tracked, Absent
  <2>6. QED
    BY <2>3, <2>4, <2>5, SavedRecord
<1>4. \A p \in Paths : state'[p] = Pending(p)'
  BY SavedRecord
<1>5. ("state" \notin present => \A p \in Paths : ~Tracked(state[p]))'
  <2> SUFFICES ASSUME "state" \notin present', NEW p \in Paths
               PROVE  ~Tracked(state'[p])
    OBVIOUS
  <2>1. Written = {} /\ "state" \notin present
    BY DEF SaveState
  <2>2. ~Tracked(state[p]) /\ ~Tracked(out[p]) /\ ~Tracked(Untracked)
    BY <2>1 DEF Written, RecordFits, Tracked, Untracked
  <2>3. QED
    BY <2>2, SavedRecord DEF Pending
<1>6. QED
  BY <1>1, <1>2, <1>3, <1>4, <1>5 DEF RecordFits, Changing

\* Without a state file nothing is recorded.
NoneRecorded == "state" \notin present => \A p \in Paths : ~Tracked(state[p])

LEMMA NoneRecordedKept ==
  ASSUME NoneRecorded,
         \/ UNCHANGED <<present, state>>
         \/ UNCHANGED state /\ present' = present \cup {"answers"}
         \/ \E f : Loses(f)
  PROVE  NoneRecorded'
<1>1. \A p \in Paths : ~Tracked(NoEntries[p])
  BY DEF NoEntries, Untracked, Tracked
<1>2. QED
  BY <1>1 DEF NoneRecorded, Loses

\* A command that dies or stops before its save leaves an exact record of what
\* it has not handled.
LEMMA StoppedRecord ==
  ASSUME TypeOK, RecordFits, op # "none", op' = "none",
         UNCHANGED <<disk, state, present, touched>>, torn' = torn \cup LeftApart
  PROVE  RecordFits'
<1>1. NoneRecorded'
  BY NoneRecordedKept DEF RecordFits, NoneRecorded
<1>2. CASE op = "teardown"
  BY <1>1, <1>2 DEF RecordFits, Changing, LeftApart, NoneRecorded
<1>3. CASE op # "teardown"
  <2>1. Changing
    BY <1>3 DEF Changing, TypeOK, Ops
  <2>2. \A p \in Paths \ torn' : Pending(p) = state[p]
    BY <1>3 DEF LeftApart, Written, Pending
  <2>3. QED
    BY <1>1, <2>1, <2>2 DEF RecordFits, Changing, Exact, NoneRecorded
<1>4. QED
  BY <1>2, <1>3

LEMMA FinishRecord ==
  ASSUME TypeOK, Control, RecordFits, Finish
  PROVE  RecordFits'
<1>1. op # "none" /\ (Changing \/ op = "teardown")
  BY DEF Finish, Control, Changing, TypeOK, Ops
<1>2. UNCHANGED <<disk, state, present, touched>> /\ op' = "none"
  BY DEF Finish, Idle, fileVars, recordVars
<1>3. NoneRecorded'
  BY <1>2, NoneRecordedKept DEF RecordFits, NoneRecorded
<1>4. CASE Changing
  <2>1. torn' = torn /\ pc # "files"
    BY <1>4 DEF Finish, Changing
  <2>2. \A p \in Paths \ (touched \cup torn) : Exact(p, state[p])
    BY <1>4, <2>1 DEF RecordFits
  <2>3. QED
    BY <1>2, <1>3, <2>1, <2>2 DEF RecordFits, Changing, Exact, NoneRecorded
<1>5. CASE op = "teardown" /\ present # {}
  <2>1. Paths \subseteq torn'
    BY <1>5 DEF Finish, LeftApart
  <2>2. QED
    BY <1>2, <1>3, <2>1 DEF RecordFits, Changing, NoneRecorded
<1>6. CASE op = "teardown" /\ present = {}
  <2>1. torn' = torn \cup {p \in Paths : disk[p].gen # 0}
    BY <1>6 DEF Finish
  <2>2. \A p \in Paths : ~Tracked(state[p])
    BY <1>6 DEF RecordFits
  <2>3. QED
    BY <1>2, <1>3, <2>1, <2>2 DEF RecordFits, Changing, Exact, NoneRecorded
<1>7. QED
  BY <1>1, <1>4, <1>5, <1>6

LEMMA RecordStep ==
  ASSUME TypeOK, LedgerFits, Control, PlanFits, RecordFits, [Next]_vars
  PROVE  RecordFits'
<1>1. ASSUME NEW p \in Paths, FileStep(p) PROVE RecordFits'
  BY <1>1, RecordFileStep
<1>2. CASE SaveState
  BY <1>2, SaveRecordFits
<1>3. CASE SaveAnswers \/ SyncConfig
  <2>1. UNCHANGED <<disk, state, op, out, dropped, failed, todo, touched, torn>>
        /\ pc # "files" /\ Changing
    BY <1>3, SavingDone DEF SaveAnswers, SyncConfig, SaveUnchanged, fileVars, startVars
  <2>2. NoneRecorded'
    BY <1>3, NoneRecordedKept DEF SaveAnswers, SyncConfig, RecordFits, NoneRecorded
  <2>3. QED
    BY <2>1, <2>2 DEF RecordFits, Changing, Exact, Pending, NoneRecorded
<1>4. CASE StartRecord \/ RemoveOwn \/ RecordRemoved \/ RemoveDirs
  <2>1. UNCHANGED <<disk, op, out, failed, todo, touched, torn>>
    BY <1>4 DEF StartRecord, RemoveOwn, RecordRemoved, RemoveDirs, SaveUnchanged,
       fileVars, startVars
  <2>2. op = "teardown"
    BY <1>4 DEF StartRecord, RemoveOwn, RecordRemoved, RemoveDirs, Control, Changing,
       TypeOK, Ops
  <2>3. (\E f : Loses(f)) \/ UNCHANGED <<present, state>>
    BY <1>4 DEF StartRecord, RemoveOwn, RecordRemoved, RemoveDirs, recordVars
  <2>4. NoneRecorded'
    BY <2>3, NoneRecordedKept DEF RecordFits, NoneRecorded
  <2>5. \A p \in Paths : Strays(p)' <=> Strays(p)
    BY <2>1 DEF Strays, SectionsOf
  <2>6. QED
    BY <2>1, <2>2, <2>4, <2>5 DEF RecordFits, Changing, NoneRecorded
<1>5. CASE Finish
  BY <1>5, FinishRecord
<1>6. CASE Crash \/ \E p \in Paths : ChangeStops(p)
  <2>1. UNCHANGED <<disk, state, present, touched>> /\ op' = "none" /\ op # "none"
        /\ torn' = torn \cup LeftApart
    BY <1>6 DEF Crash, ChangeStops, Idle, fileVars, recordVars
  <2>2. QED
    BY <2>1, StoppedRecord
<1>7. ASSUME NEW p \in Paths, UserEdit(p) \/ UserDelete(p) \/ AcceptSidecar(p)
      PROVE  RecordFits'
  <2>1. PICK c : UserChanges(p, c)
    BY <1>7 DEF UserEdit, UserDelete, AcceptSidecar
  <2>2. UNCHANGED <<op, pc, state, present, todo, out, dropped, failed, torn>>
    BY <2>1 DEF UserChanges, recordVars, cmdVars, startVars
  <2>3. touched' = touched \cup {p} /\ \A q \in Paths \ {p} : disk'[q] = disk[q]
    BY <2>1 DEF UserChanges, TypeOK
  <2>4. \A q \in Paths \ {p} : Strays(q)' <=> Strays(q)
    BY <2>2, <2>3 DEF Strays, SectionsOf
  <2>5. QED
    BY <2>2, <2>3, <2>4 DEF RecordFits, Changing, Exact, Pending
<1>8. CASE UNCHANGED vars
  BY <1>8 DEF vars, fileVars, recordVars, cmdVars, startVars, RecordFits, Changing,
     Exact, Pending, Strays, SectionsOf
<1>9. QED
  BY <1>1, <1>2, <1>3, <1>4, <1>5, <1>6, <1>7, <1>8, StartRecordFits, NextCases

-----------------------------------------------------------------------------
(* Claude Code and the settings. *)

LEMMA ClaudeFileStep ==
  ASSUME TypeOK, Control, PlanFits, ClaudeFits, NEW p \in Paths, FileStep(p)
  PROVE  ClaudeFits'
<1>1. /\ UNCHANGED <<op, on, answers, present, optOut, state, torn>> /\ p \in todo
      /\ op # "none" /\ on \in SUBSET Choices
  BY FileStepFrame DEF Control, TypeOK
<1>2. Effective' = Effective
  BY <1>1 DEF Effective
<1>3. ASSUME Changing, NEW s \in Settings
      PROVE  /\ Tracked(out'[s]) => ClaudeCode \in on
             /\ s \notin torn /\ Tracked(Pending(s)') => ClaudeCode \in on
  <2>1. s \in Paths /\ s \notin Strippable /\ (s \in Produced(on) => ClaudeCode \in on)
    BY <1>1, SettingsProduced
  <2>2. CASE out'[s] = out[s]
    <3>1. s \in dropped' \/ Pending(s)' = Pending(s)
      <4>1. s \in dropped => s \in dropped'
        BY <2>1, FileStepOne, FileStepOutcome DEF WriteFile, MergeFile, RepairFile,
           StripSection, Writes, RemoveFile, UntrackFile, CleanFile, LeavesAlone, Fails
      <4>2. QED
        BY <1>1, <2>2, <4>1 DEF Pending
    <3>2. QED
      BY <1>3, <2>1, <2>2, <3>1 DEF ClaudeFits, Pending, Untracked, Tracked
  <2>3. CASE out'[s] # out[s]
    <3>1. s = p
      BY <2>1, <2>3, FileStepOne
    <3>2. \/ WriteFile(p) \/ MergeFile(p) \/ RepairFile(p)
          \/ StripSection(p) /\ target \in SectionsOf(disk[p])
      BY <2>3, <3>1, FileStepOutcome DEF RemoveFile, UntrackFile, CleanFile,
         LeavesAlone, Fails
    <3>3. p \in Produced(on)
      BY <1>1, <2>1, <3>1, <3>2 DEF WriteFile, MergeFile, RepairFile, StripSection,
         PlanFits
    <3>4. QED
      BY <2>1, <3>1, <3>3
  <2>4. QED
    BY <2>2, <2>3
<1>4. Changing' <=> Changing
  BY <1>1 DEF Changing
<1>5. QED
  BY <1>1, <1>2, <1>3, <1>4 DEF ClaudeFits

LEMMA BeginClaude ==
  ASSUME TypeOK, ClaudeFits, NEW o \in Ops \ {"none"}, NEW S, NEW t, NEW f, NEW pl,
         NEW gone, Begin(o, S, t, f, pl, gone),
         o # "teardown" => (ClaudeCode \in S <=> ClaudeCode \in Effective)
  PROVE  ClaudeFits'
<1>1. /\ op = "none" /\ op' = o /\ on' = S /\ dropped' = gone
      /\ UNCHANGED <<answers, present, optOut, state, torn>>
      /\ o # "teardown" => out' = NoEntries
  BY DEF Begin, recordVars
<1>2. Effective' = Effective
  BY <1>1 DEF Effective
<1>3. \A s \in Settings : s \in Paths /\ ~Tracked(NoEntries[s]) /\ ~Tracked(Untracked)
  BY FileKindsAssumption, LedgerAssumption DEF NoEntries, Untracked, Tracked
<1>4. QED
  BY <1>1, <1>2, <1>3 DEF ClaudeFits, Changing, Pending, Ops

LEMMA StartClaude ==
  ASSUME TypeOK, ClaudeFits,
         \/ \E t \in Registry, f \in BOOLEAN : StartEnable(t, f) \/ StartDisable(t, f)
         \/ \E f \in BOOLEAN : StartUpdate(f)
         \/ \E f, reset \in BOOLEAN : StartRepair(f, reset)
         \/ StartTeardown
  PROVE  ClaudeFits'
<1>1. ClaudeCode \notin Registry
  BY UpkeepPlanAssumption
<1>2. ASSUME NEW t \in Registry, NEW f \in BOOLEAN, StartEnable(t, f)
      PROVE  ClaudeFits'
  BY <1>1, <1>2, BeginClaude DEF StartEnable, Ops
<1>3. ASSUME NEW t \in Registry, NEW f \in BOOLEAN, StartDisable(t, f)
      PROVE  ClaudeFits'
  BY <1>1, <1>3, BeginClaude DEF StartDisable, Ops
<1>4. ASSUME NEW f \in BOOLEAN, StartUpdate(f) PROVE ClaudeFits'
  BY <1>4, BeginClaude DEF StartUpdate, Ops
<1>5. ASSUME NEW f \in BOOLEAN, NEW r \in BOOLEAN, StartRepair(f, r) PROVE ClaudeFits'
  BY <1>5, BeginClaude DEF StartRepair, Ops
<1>6. CASE StartTeardown
  BY <1>6, BeginClaude DEF StartTeardown, Ops
<1>7. QED
  BY <1>2, <1>3, <1>4, <1>5, <1>6

LEMMA ClaudeStep ==
  ASSUME TypeOK, Control, PlanFits, RecordFits, ClaudeFits, [Next]_vars
  PROVE  ClaudeFits'
<1>0. Settings \subseteq Paths
  BY LedgerAssumption
<1>1. ASSUME NEW p \in Paths, FileStep(p) PROVE ClaudeFits'
  BY <1>1, ClaudeFileStep
<1>2. CASE SaveState
  <2>1. Changing
    BY <1>2, SavingDone
  <2>2. /\ UNCHANGED <<op, on, out>> /\ \A p \in Paths : Pending(p)' = Pending(p)
        /\ \A p \in torn \ torn' :
             Tracked(out[p]) \/ (p \in dropped /\ disk[p] = Absent)
    BY <1>2, SavedRecord
  <2>3. UNCHANGED <<answers, optOut>> /\ ("config" \in present' <=> "config" \in present)
    BY <1>2 DEF SaveState
  <2>4. Effective' = Effective
    BY <2>3 DEF Effective
  <2>5. \A s \in Settings \ torn' : Tracked(Pending(s)) => ClaudeCode \in on
    BY <1>0, <2>1, <2>2 DEF ClaudeFits, Pending, Untracked, Tracked
  <2>6. QED
    BY <1>0, <2>1, <2>2, <2>4, <2>5 DEF ClaudeFits, Changing
<1>3. CASE SaveAnswers \/ SyncConfig
  <2>1. Changing /\ UNCHANGED <<op, on, out, dropped, state, torn>>
    BY <1>3, SavingDone DEF SaveAnswers, SyncConfig, SaveUnchanged, startVars
  <2>2. ClaudeCode \in Effective <=> ClaudeCode \in answers \/ "config" \in present
    BY UpkeepAssumption, UpkeepPlanAssumption DEF Effective
  <2>3. (ClaudeCode \in Effective <=> ClaudeCode \in answers \/ "config" \in present)'
    BY UpkeepAssumption, UpkeepPlanAssumption DEF Effective
  <2>4. /\ "config" \in present' <=> "config" \in present
        /\ answers' \in {answers, on}
    BY <1>3 DEF SaveAnswers, SyncConfig
  <2>5. ClaudeCode \in on <=> ClaudeCode \in Effective'
    BY <2>1, <2>2, <2>3, <2>4 DEF ClaudeFits
  <2>6. QED
    BY <2>1, <2>5 DEF ClaudeFits, Changing, Pending
<1>4. CASE StartRecord \/ RemoveOwn \/ RecordRemoved \/ RemoveDirs
  <2>1. op' = "teardown"
    BY <1>4 DEF StartRecord, RemoveOwn, RecordRemoved, RemoveDirs, SaveUnchanged,
       startVars, Control, Changing, TypeOK, Ops
  <2>2. QED
    BY <2>1 DEF ClaudeFits, Changing
<1>5. CASE Finish \/ Crash \/ \E p \in Paths : ChangeStops(p)
  <2>1. /\ op # "none" /\ op' = "none"
        /\ UNCHANGED <<answers, present, optOut, state, disk>>
    BY <1>5 DEF Finish, Crash, ChangeStops, Idle, recordVars, fileVars, Control
  <2>2. Effective' = Effective
    BY <2>1 DEF Effective
  <2>3. CASE Changing
    <3>1. ASSUME NEW s \in Settings \ torn', Tracked(state[s])
          PROVE  s \notin torn /\ Pending(s) = state[s]
      <4>1. CASE Finish
        BY <1>0, <2>3, <3>1, <4>1 DEF Finish, Changing, RecordFits
      <4>2. CASE Crash \/ \E p \in Paths : ChangeStops(p)
        BY <1>0, <2>3, <3>1, <4>2 DEF Crash, ChangeStops, Changing, LeftApart, Written,
           Pending
      <4>3. QED
        BY <1>5, <4>1, <4>2
    <3>2. QED
      BY <2>1, <2>2, <2>3, <3>1 DEF ClaudeFits, Changing
  <2>4. CASE op = "teardown" /\ Paths \subseteq torn'
    BY <1>0, <2>1, <2>4 DEF ClaudeFits, Changing
  <2>5. CASE op = "teardown" /\ present = {}
    BY <1>0, <2>1, <2>5 DEF ClaudeFits, Changing, RecordFits
  <2>6. op = "teardown" => Paths \subseteq torn' \/ present = {}
    BY <1>5 DEF Finish, Crash, ChangeStops, LeftApart
  <2>7. QED
    BY <2>1, <2>3, <2>4, <2>5, <2>6 DEF Changing, TypeOK, Ops
<1>6. CASE UNCHANGED <<op, on, out, dropped, state, torn, answers, present, optOut>>
  <2>1. Effective' = Effective
    BY <1>6 DEF Effective
  <2>2. QED
    BY <1>6, <2>1 DEF ClaudeFits, Changing, Pending
<1>7. ASSUME NEW p \in Paths, UserEdit(p) \/ UserDelete(p) \/ AcceptSidecar(p)
      PROVE  ClaudeFits'
  BY <1>6, <1>7 DEF UserEdit, UserDelete, AcceptSidecar, UserChanges, recordVars,
     cmdVars, startVars
<1>8. CASE UNCHANGED vars
  BY <1>6, <1>8 DEF vars, recordVars, cmdVars, startVars
<1>9. QED
  BY <1>1, <1>2, <1>3, <1>4, <1>5, <1>7, <1>8, StartClaude, NextCases

-----------------------------------------------------------------------------
(* How far a change of a tool has come. *)

\* A file of the tool's own is not among those it shares.
LEMMA OwnNotShared ==
  ASSUME NEW t \in Registry, NEW p \in Exclusive(t)
  PROVE  p \in Paths /\ p \notin SharedBy(t) /\ p \notin Settings
<1>1. p \in Paths /\ Owner[p] = t /\ Owner[p] # NoTool
  BY UpkeepPlanAssumption, LedgerAssumption DEF Exclusive
<1>2. QED
  BY <1>1, UpkeepPlanAssumption, FileKindsAssumption DEF SharedBy

\* The plan of an enable: its own files are written, unless one is the user's,
\* and every file it shares is handled, as far as they are generated.
LEMMA EnablePlans ==
  ASSUME TypeOK, LedgerFits, NEW t \in Registry, NEW S,
         NEW p \in Produced(S), NEW a, a = PlanEnable(t, state, disk, S)[p]
  PROVE  /\ p \in Exclusive(t) =>
              \/ a = "write"
              \/ a = "none" /\ Strategy[p] = "skip" /\ disk[p] \notin {Absent, Gen(1)}
         /\ p \in SharedBy(t) => a # "none"
<1>1. p \in Paths
  BY DEF Produced
<1>2. CASE p \in EnableWrites(t, state, disk, S)
  BY <1>1, <1>2 DEF PlanEnable
<1>3. CASE p \notin EnableWrites(t, state, disk, S)
  <2>1. a = PlanShared(t, state, disk, S, FALSE)[p]
    BY <1>1, <1>3 DEF PlanEnable
  <2>2. p \in Exclusive(t) => Strategy[p] = "skip" /\ Foreign(state[p], disk[p])
    BY <1>3 DEF EnableWrites
  <2>3. a # "none" => p \in SharedBy(t)
    BY <1>1, <2>1, SharedShape
  <2>4. p \in SharedBy(t) => a # "none"
    BY <1>1, <2>1, SharedShape
  <2>5. p \in Exclusive(t) => a = "none"
    BY <2>3, OwnNotShared
  <2>6. QED
    BY <2>2, <2>4, <2>5 DEF Foreign
<1>4. QED
  BY <1>2, <1>3

\* The plan of a disable: its own files are deleted or forgotten, unless qsdev
\* never recorded them, and so are its sections in the files it shares.
LEMMA DisablePlans ==
  ASSUME TypeOK, LedgerFits, NEW t \in Registry, NEW S, NEW p \in Paths,
         NEW a, a = PlanDisable(t, state, disk, S)[p]
  PROVE  /\ p \in Exclusive(t) =>
              \/ a = "delete"
              \/ a = "none" /\ (p \in Gone(t, disk) \/ ~Tracked(state[p]))
         /\ p \in SharedBy(t) \cap (Produced(S) \cup Strippable) =>
              a # "none" \/ ~Tracked(state[p])
<1>1. EntryFits(p, state[p])
  BY DEF LedgerFits
<1>2. ASSUME p \in Exclusive(t)
      PROVE  \/ a = "delete"
             \/ a = "none" /\ (p \in Gone(t, disk) \/ ~Tracked(state[p]))
  <2>1. p \notin SharedBy(t) /\ p \notin Settings /\ ~SupportOrphan(p, state[p], S)
    BY <1>1, <1>2, OwnNotShared, DisableApart
  <2>2. CASE p \in Removable(t, state, disk)
    BY <2>1, <2>2 DEF PlanDisable
  <2>3. CASE p \notin Removable(t, state, disk)
    <3>1. a = PlanShared(t, state, disk, S, TRUE)[p]
      BY <2>1, <2>3 DEF PlanDisable
    <3>2. a = "none"
      BY <2>1, <3>1, SharedShape
    <3>3. QED
      BY <1>2, <2>1, <2>3, <3>2 DEF Removable, Gone, Candidates
  <2>4. QED
    BY <2>2, <2>3
<1>3. ASSUME p \in SharedBy(t), p \in Produced(S) \cup Strippable, a = "none"
      PROVE  ~Tracked(state[p])
  <2>1. p \notin Removable(t, state, disk) /\ ~SupportOrphan(p, state[p], S)
    BY <1>1, <1>3, DisableApart
  <2> DEFINE b == PlanShared(t, state, disk, S, TRUE)[p]
  <2>2. a = IF p \in SharedBy(t) \cap Strippable /\ b = "none" /\ Tracked(state[p])
            THEN "strip" ELSE b
    BY <2>1 DEF PlanDisable
  <2> HIDE DEF b
  <2>3. b = "none" /\ (p \in Strippable => ~Tracked(state[p]))
    BY <1>3, <2>2
  <2>4. CASE p \in Produced(S)
    BY <1>3, <2>3, <2>4, SharedShape DEF b
  <2>5. QED
    BY <1>3, <2>3, <2>4
<1>4. QED
  BY <1>2, <1>3

LEMMA StartEnableChange ==
  ASSUME TypeOK, LedgerFits, NEW t \in Registry, NEW f \in BOOLEAN, StartEnable(t, f)
  PROVE  ChangeFits'
<1> DEFINE S == Effective \cup {t}
           pl == PlanEnable(t, state, disk, S)
<1>1. /\ op' = "enable" /\ target' = t /\ plan' = pl /\ on' = S
      /\ todo' = {p \in Paths : pl[p] # "none"} /\ UNCHANGED disk
  BY DEF StartEnable, Begin, fileVars
<1> HIDE DEF S
<1>2. \A p \in Produced(S) :
        /\ p \in Exclusive(t) =>
             \/ pl[p] = "write"
             \/ pl[p] = "none" /\ Strategy[p] = "skip" /\ disk[p] \notin {Absent, Gen(1)}
        /\ p \in SharedBy(t) => pl[p] # "none"
  BY EnablePlans
<1> HIDE DEF pl
<1>3. Produced(S) \subseteq Paths
  BY DEF Produced
<1>4. \A p \in Exclusive(t) \cap Produced(S) : OwnEnabled(p)'
  BY <1>1, <1>2, <1>3 DEF OwnEnabled
<1>5. \A p \in Reached(t)' : SharedChanged(p)'
  <2>1. Reached(t)' = SharedBy(t) \cap Produced(S)
    BY <1>1 DEF Reached
  <2>2. \A p \in SharedBy(t) \cap Produced(S) : p \in todo'
    BY <1>1, <1>2, <1>3
  <2>3. QED
    BY <2>1, <2>2 DEF SharedChanged
<1>6. QED
  BY <1>1, <1>4, <1>5 DEF ChangeFits, Reached

LEMMA StartDisableChange ==
  ASSUME TypeOK, LedgerFits, RecordFits,
         NEW t \in Registry, NEW f \in BOOLEAN, StartDisable(t, f)
  PROVE  ChangeFits'
<1> DEFINE S == Effective \ {t}
           pl == PlanDisable(t, state, disk, S)
<1>1. /\ op = "none" /\ op' = "disable" /\ target' = t /\ plan' = pl /\ on' = S
      /\ out' = NoEntries /\ dropped' = Gone(t, disk)
      /\ todo' = {p \in Paths : pl[p] # "none"}
      /\ UNCHANGED <<disk, state, touched, torn>>
  BY DEF StartDisable, Begin, fileVars, recordVars
<1> HIDE DEF S
<1>2. \A p \in Paths :
        /\ p \in Exclusive(t) =>
             \/ pl[p] = "delete"
             \/ pl[p] = "none" /\ (p \in Gone(t, disk) \/ ~Tracked(state[p]))
        /\ p \in SharedBy(t) \cap (Produced(S) \cup Strippable) =>
             pl[p] # "none" \/ ~Tracked(state[p])
  BY DisablePlans
<1> HIDE DEF pl
<1>3. \A p \in Paths :
        /\ ~Tracked(state[p]) \/ p \in Gone(t, disk) => ~Tracked(Pending(p)')
        /\ ~Tracked(state[p]) => disk[p].gen = 0 \/ p \in touched \cup torn
  BY <1>1 DEF Pending, NoEntries, Untracked, Tracked, RecordFits, Exact
<1>4. \A p \in Exclusive(t) : OwnDisabled(p)'
  <2> SUFFICES ASSUME NEW p \in Exclusive(t) PROVE OwnDisabled(p)'
    OBVIOUS
  <2>1. p \in Paths
    BY DEF Exclusive
  <2>2. QED
    BY <1>1, <1>2, <1>3, <2>1 DEF OwnDisabled
<1>5. \A p \in SharedBy(t) \cap (Produced(S) \cup Strippable) : SharedChanged(p)'
  <2> SUFFICES ASSUME NEW p \in SharedBy(t) \cap (Produced(S) \cup Strippable)
               PROVE  SharedChanged(p)'
    OBVIOUS
  <2>1. p \in Paths
    BY DEF SharedBy
  <2>2. QED
    BY <1>1, <1>2, <1>3, <2>1 DEF SharedChanged, Carries, SectionsOf
<1>6. QED
  BY <1>1, <1>4, <1>5 DEF ChangeFits, Reached

\* What the merge of a file makes of the section of the command's tool: it follows
\* the generator, unless it is left to the user.
LEMMA SectionMerged ==
  ASSUME TypeOK, NEW t \in Registry, NEW p \in SharedBy(t), p \in Produced(on),
         Strategy[p] = "threeWay",
         NEW m, m = MergeContent(p, state[p].base, disk[p], Output(p, on)),
         IF t \in on THEN p \in Settings \/ t \notin SectionsOf(state[p].base)
                     ELSE t \in SectionsOf(state[p].base)
  PROVE  t \in SectionsOf(m) <=> t \in on
<1> DEFINE v == Output(p, on)
           b == SectionsOf(state[p].base)
           d == SectionsOf(disk[p])
           o == SectionsOf(Gen(v))
<1>1. /\ p \in Paths /\ t \in Shares[p] /\ on \in SUBSET Choices
      /\ state[p].base \in Content /\ disk[p] \in Content
  BY DEF SharedBy, TypeOK, Entry
<1>2. v \in Versions /\ o = Shares[p] \cap on
  BY <1>1, SharedOutput
<1>3. b \in SUBSET Registry /\ d \in SUBSET Registry /\ o \in SUBSET Registry
  BY <1>1, <1>2, SectionsOfType, UpkeepPlanAssumption
<1>4. v \in 0..MaxVersion
  BY <1>2, ContentTypes
<1> HIDE DEF v
<1>5. SectionsOf(m) = MergedParts(p, b, d, o)
  BY <1>1, <1>4, MergedSections DEF v
<1>6. t \in o <=> t \in on
  BY <1>1, <1>2
<1> HIDE DEF b, d, o
<1>7. \A R \in SUBSET Registry : Named(R, t) = R \cap {t}
  BY UpkeepPlanAssumption DEF Named, OneOfEachName
<1>8. Named(b, t) = b \cap {t} /\ Named(d, t) = d \cap {t} /\ Named(o, t) = o \cap {t}
  BY <1>3, <1>7
<1>9. CASE p \in Settings
  BY <1>5, <1>6, <1>8, <1>9 DEF MergedParts, MergeSettings, b
<1>10. CASE p \notin Settings
  BY <1>5, <1>6, <1>8, <1>10 DEF MergedParts, MergeMcpJson, b
<1>11. QED
  BY <1>9, <1>10

\* A shared file that is written carries the sections of the tools that are on,
\* but for what a merge leaves to the user.
LEMMA SharedWritten ==
  ASSUME TypeOK, Control, PlanFits, op \in {"enable", "disable"},
         NEW p \in SharedBy(target), WriteFile(p) \/ MergeFile(p)
  PROVE  (Carries(p)' <=> target \in on) \/ LeftToUser(p)
<1>1. /\ p \in Paths /\ target \in Shares[p] /\ Shares[p] # {} /\ on \in SUBSET Choices
      /\ target \in Registry /\ (op = "enable" <=> target \in on)
  BY DEF SharedBy, TypeOK, Control
<1>2. p \in Produced(on)
  BY <1>1 DEF WriteFile, MergeFile, Turn, PlanFits
<1>3. /\ Output(p, on) \in Versions
      /\ SectionsOf(Gen(Output(p, on))) = Shares[p] \cap on
  BY <1>1, <1>2, SharedOutput
<1>4. UNCHANGED target
  BY DEF WriteFile, MergeFile, FileStepUnchanged, startVars
<1>5. CASE WriteFile(p)
  <2>1. disk'[p] = Gen(Output(p, on))
    BY <1>1, <1>5 DEF WriteFile, Writes, TypeOK
  <2>2. QED
    BY <1>1, <1>3, <1>4, <2>1 DEF Carries
<1>6. CASE MergeFile(p)
  <2> DEFINE m == MergeContent(p, state[p].base, disk[p], Output(p, on))
  <2>1. disk'[p] = m /\ plan[p] = "merge"
    BY <1>1, <1>6 DEF MergeFile, Writes, TypeOK
  <2>2. CASE Strategy[p] # "threeWay"
    <3>1. m.gen = Output(p, on) /\ Gen(Output(p, on)).gen = Output(p, on)
      BY <2>2 DEF MergeContent, Gen
    <3> HIDE DEF m
    <3>2. SectionsOf(m) = SectionsOf(Gen(Output(p, on)))
      BY <3>1 DEF SectionsOf
    <3>3. QED
      BY <1>1, <1>3, <1>4, <2>1, <3>2 DEF Carries
  <2>3. CASE Strategy[p] = "threeWay" /\ ~LeftToUser(p)
    <3>1. IF target \in on THEN p \in Settings \/ target \notin SectionsOf(state[p].base)
                           ELSE target \in SectionsOf(state[p].base)
      BY <1>1, <2>1, <2>3 DEF LeftToUser
    <3>2. target \in SectionsOf(m) <=> target \in on
      BY <1>1, <1>2, <2>3, <3>1, SectionMerged
    <3> HIDE DEF m
    <3>3. QED
      BY <1>4, <2>1, <3>2 DEF Carries
  <2>4. QED
    BY <2>2, <2>3
<1>7. QED
  BY <1>5, <1>6

\* Cutting a section out takes it away.
LEMMA SectionCut ==
  ASSUME TypeOK, NEW p \in Paths, StripSection(p), target \in SectionsOf(disk[p])
  PROVE  ~Carries(p)'
<1> DEFINE left == SectionsOf(disk[p]) \ {target}
           c == [disk[p] EXCEPT !.gen = Rendering(left)]
<1>1. Sections[Rendering(left)] = left /\ c.gen = Rendering(left)
  BY StripType
<1>2. disk'[p] = c /\ UNCHANGED target
  BY DEF StripSection, TypeOK, FileStepUnchanged, startVars
<1> HIDE DEF c, left
<1>3. target \notin left
  BY DEF left
<1>4. QED
  BY <1>1, <1>2, <1>3 DEF Carries, SectionsOf

LEMMA ChangeFileShared ==
  ASSUME TypeOK, Control, PlanFits, ChangeFits, op \in {"enable", "disable"},
         NEW p \in Paths, FileStep(p), pc = "files",
         NEW q \in Reached(target) \ (fresh \cup failed')
  PROVE  SharedChanged(q)'
<1>1. /\ UNCHANGED <<state, op, on, target, plan, fresh, torn>>
      /\ p \in todo /\ todo' = todo \ {p} /\ plan[p] # "clean" /\ plan[p] # "repair"
      /\ ~Tracked(out[p]) /\ q \in Paths
      /\ q \in SharedBy(target)
      /\ op = "enable" <=> target \in on
  BY FileStepFrame DEF Control, Changing, PlanFits, SharedBy, Reached
<1>0. LeftToUser(q)' <=> LeftToUser(q)
  BY <1>1 DEF LeftToUser, SectionsOf
<1>2. CASE q # p
  <2>1. /\ disk'[q] = disk[q] /\ out'[q] = out[q]
        /\ q \in dropped' <=> q \in dropped
        /\ q \in failed' <=> q \in failed
        /\ q \in touched' <=> q \in touched
    BY <1>1, <1>2, FileStepOne
  <2>2. SharedChanged(q)
    BY <2>1 DEF ChangeFits
  <2>3. Carries(q)' <=> Carries(q)
    BY <1>1, <2>1 DEF Carries, SectionsOf
  <2>4. Pending(q)' = Pending(q)
    BY <1>1, <2>1 DEF Pending
  <2>5. QED
    BY <1>0, <1>1, <1>2, <2>1, <2>2, <2>3, <2>4 DEF SharedChanged
<1>3. CASE q = p /\ (WriteFile(p) \/ MergeFile(p))
  BY <1>0, <1>1, <1>3, SharedWritten DEF SharedChanged
<1>4. CASE q = p /\ StripSection(p) /\ target \in SectionsOf(disk[p])
  <2>1. op = "disable" /\ ~Carries(p)'
    BY <1>1, <1>4, SectionCut DEF StripSection, PlanFits
  <2>2. QED
    BY <1>1, <1>4, <2>1 DEF SharedChanged
<1>5. CASE q = p /\ RemoveFile(p)
  BY <1>5 DEF RemoveFile, TypeOK, SharedChanged
<1>6. CASE q = p /\ UntrackFile(p)
  <2>1. p \in touched \cup torn /\ UNCHANGED <<touched, out>> /\ p \in dropped'
    BY <1>1, <1>6 DEF UntrackFile, PlanFits
  <2>2. ~Tracked(Pending(p)')
    BY <1>1, <2>1 DEF Pending, Untracked, Tracked
  <2>3. QED
    BY <1>1, <1>6, <2>1, <2>2 DEF SharedChanged
<1>7. CASE q = p /\ LeavesAlone /\ plan[p] \in {"skip", "sidecar", "hold"}
  BY <1>1, <1>7 DEF SharedChanged
<1>8. CASE q = p /\ plan[p] = "create" /\ disk[p] # Absent
  BY <1>1, <1>8 DEF PlanFits, StepFits, ActionFits
<1>9. CASE q = p /\ LeavesAlone /\ plan[p] = "strip"
           /\ target \notin SectionsOf(disk[p])
  BY <1>1, <1>9 DEF LeavesAlone, PlanFits, SharedChanged, Carries, SectionsOf
<1>10. CASE q = p /\ Fails(p)
  BY <1>10 DEF Fails
<1>11. QED
  BY <1>1, <1>2, <1>3, <1>4, <1>5, <1>6, <1>7, <1>8, <1>9, <1>10, FileStepOutcome
  DEF RepairFile, CleanFile

LEMMA ChangeFileOwn ==
  ASSUME TypeOK, Control, PlanFits, ChangeFits, pc = "files",
         NEW p \in Paths, FileStep(p), NEW q \in Exclusive(target)
  PROVE  /\ op = "enable" /\ q \in Produced(on) \ fresh => OwnEnabled(q)'
         /\ op = "disable" => OwnDisabled(q)'
<1>1. /\ UNCHANGED <<state, op, on, target, plan, fresh, torn>> /\ p \in todo
      /\ q \in Paths
  BY FileStepFrame DEF Exclusive
<1>2. CASE q # p
  <2>1. /\ disk'[q] = disk[q] /\ out'[q] = out[q]
        /\ q \in dropped' <=> q \in dropped
    BY <1>1, <1>2, FileStepOne
  <2>2. op # "update" => (q \in todo' <=> q \in todo)
    BY <1>2, FileStepFrame
  <2>3. Pending(q)' = Pending(q)
    BY <1>1, <2>1 DEF Pending
  <2>4. QED
    BY <1>1, <2>1, <2>2, <2>3 DEF ChangeFits, OwnEnabled, OwnDisabled
<1>3. ASSUME q = p, op = "enable", q \in Produced(on) \ fresh PROVE OwnEnabled(q)'
  <2>1. plan[p] \in {"none", "write"}
    BY <1>3 DEF ChangeFits, OwnEnabled
  <2>2. WriteFile(p)
    BY <2>1, FileStepOutcome DEF MergeFile, RepairFile, StripSection, RemoveFile,
       UntrackFile, CleanFile
  <2>3. Output(p, on) = 1
    BY <1>3, OwnOutput DEF Control
  <2>4. disk'[p] = Gen(1) /\ out'[p].hash = Gen(1)
    BY <2>2, <2>3 DEF WriteFile, Writes, RecordFile, TypeOK
  <2>5. QED
    BY <1>1, <1>3, <2>1, <2>4 DEF OwnEnabled
<1>4. ASSUME q = p, op = "disable" PROVE OwnDisabled(q)'
  <2>1. plan[p] \in {"none", "delete"}
    BY <1>4 DEF ChangeFits, OwnDisabled
  <2>2. RemoveFile(p)
    BY <2>1, FileStepOutcome DEF WriteFile, MergeFile, RepairFile, StripSection,
       UntrackFile, CleanFile
  <2>3. ~Tracked(out[p])
    BY <1>1, <1>4 DEF PlanFits, Changing
  <2>4. p \in dropped' /\ out' = out
    BY <2>2 DEF RemoveFile
  <2>5. QED
    BY <1>1, <1>4, <2>1, <2>3, <2>4 DEF OwnDisabled, Pending, Untracked, Tracked
<1>5. QED
  BY <1>2, <1>3, <1>4

LEMMA ChangeFileStep ==
  ASSUME TypeOK, Control, PlanFits, ChangeFits, NEW p \in Paths, FileStep(p)
  PROVE  ChangeFits'
<1>1. UNCHANGED <<op, on, target, fresh, pc>>
  BY FileStepFrame
<1>2. pc = "files" /\ op \in {"enable", "disable"} =>
        \A q \in Reached(target) \ (fresh \cup failed') : SharedChanged(q)'
  BY ChangeFileShared
<1>3. pc = "files" =>
      \A q \in Exclusive(target) :
        /\ op = "enable" /\ q \in Produced(on) \ fresh => OwnEnabled(q)'
        /\ op = "disable" => OwnDisabled(q)'
  BY ChangeFileOwn
<1>4. Reached(target)' = Reached(target)
  BY <1>1 DEF Reached
<1>5. QED
  BY <1>1, <1>2, <1>3, <1>4 DEF ChangeFits

LEMMA ChangeStep ==
  ASSUME TypeOK, LedgerFits, Control, PlanFits, RecordFits, ChangeFits, [Next]_vars
  PROVE  ChangeFits'
<1>1. ASSUME NEW p \in Paths, FileStep(p) PROVE ChangeFits'
  BY <1>1, ChangeFileStep
<1>2. ASSUME NEW t \in Registry, NEW f \in BOOLEAN, StartEnable(t, f)
      PROVE  ChangeFits'
  BY <1>2, StartEnableChange
<1>3. ASSUME NEW t \in Registry, NEW f \in BOOLEAN, StartDisable(t, f)
      PROVE  ChangeFits'
  BY <1>3, StartDisableChange
<1>4. CASE op' \notin {"enable", "disable"} \/ pc' # "files"
  BY <1>4 DEF ChangeFits
<1>5. CASE SaveState \/ SaveAnswers \/ SyncConfig
  BY <1>4, <1>5 DEF SaveState, SaveAnswers, SyncConfig
<1>6. CASE UNCHANGED <<disk, state, op, on, target, pc, plan, todo, out, dropped,
                       failed, fresh, touched, torn>>
  BY <1>6 DEF ChangeFits, OwnEnabled, OwnDisabled, SharedChanged, Carries, Pending,
     Reached, LeftToUser, SectionsOf
<1>8. CASE StartRecord \/ RemoveOwn \/ RecordRemoved \/ RemoveDirs
  <2>1. UNCHANGED op /\ op = "teardown"
    BY <1>8 DEF StartRecord, RemoveOwn, RecordRemoved, RemoveDirs, SaveUnchanged,
       startVars, Control, Changing, TypeOK, Ops
  <2>2. QED
    BY <1>4, <2>1
<1>9. ASSUME NEW p \in Paths, UserEdit(p) \/ UserDelete(p) \/ AcceptSidecar(p)
      PROVE  ChangeFits'
  <2>1. PICK c : UserChanges(p, c)
    BY <1>9 DEF UserEdit, UserDelete, AcceptSidecar
  <2>2. UNCHANGED <<op, on, target, pc, plan, state, todo, out, dropped, failed, torn>>
    BY <2>1 DEF UserChanges, recordVars, cmdVars, startVars
  <2>3. touched' = touched \cup {p} /\ \A q \in Paths \ {p} : disk'[q] = disk[q]
    BY <2>1 DEF UserChanges, TypeOK
  <2>4. op # "none" => fresh' = fresh \cup {p}
    BY <2>1 DEF UserChanges
  <2>5. \A q : Pending(q)' = Pending(q) /\ (LeftToUser(q)' <=> LeftToUser(q))
    BY <2>2 DEF Pending, LeftToUser, SectionsOf
  <2>6. ASSUME NEW q \in Reached(target), q # p, SharedChanged(q)
        PROVE  SharedChanged(q)'
    <3>1. disk'[q] = disk[q] /\ q \in Paths
      BY <2>3, <2>6 DEF SharedBy, Reached
    <3>2. QED
      BY <2>2, <2>3, <2>5, <2>6, <3>1 DEF SharedChanged, Carries, SectionsOf
  <2>7. ASSUME NEW q \in Exclusive(target)
        PROVE  /\ q # p /\ OwnEnabled(q) => OwnEnabled(q)'
               /\ OwnDisabled(q) => OwnDisabled(q)'
    <3>1. q \in Paths /\ (q # p => disk'[q] = disk[q])
      BY <2>3 DEF Exclusive
    <3>2. QED
      BY <2>2, <2>5, <3>1 DEF OwnEnabled, OwnDisabled
  <2>8. Reached(target)' = Reached(target)
    BY <2>2 DEF Reached
  <2>9. QED
    BY <2>2, <2>4, <2>6, <2>7, <2>8 DEF ChangeFits
<1>10. CASE Finish \/ Crash \/ \E p \in Paths : ChangeStops(p)
  BY <1>4, <1>10 DEF Finish, Crash, ChangeStops, Idle
<1>11. CASE UNCHANGED vars
  BY <1>6, <1>11 DEF vars, fileVars, recordVars, cmdVars, startVars
<1>12. CASE \/ \E f \in BOOLEAN : StartUpdate(f)
            \/ \E f, reset \in BOOLEAN : StartRepair(f, reset)
            \/ StartTeardown
  BY <1>4, <1>12 DEF StartUpdate, StartRepair, StartTeardown, Begin
<1>13. QED
  BY <1>1, <1>2, <1>3, <1>5, <1>8, <1>9, <1>10, <1>11, <1>12, NextCases

-----------------------------------------------------------------------------
(* The invariant holds. *)

LEMMA IInvInit == Init => IInv
<1> SUFFICES ASSUME Init PROVE IInv
  OBVIOUS
<1>1. op = "none" /\ pc = "idle" /\ todo = {}
  BY DEF Init
<1>2. Control /\ PlanFits /\ ChangeFits
  BY <1>1 DEF Control, Changing, PlanFits, ChangeFits
<1>3. ClaudeFits
  <2>1. op = "none" /\ ClaudeCode \in answers
    BY DEF Init
  <2>2. QED
    BY <2>1 DEF ClaudeFits, Changing, Effective
<1>4. QED
  BY <1>2, <1>3, TypeInit, LedgerInit, RecordInit DEF IInv

LEMMA IInvStep == IInv /\ [Next]_vars => IInv'
<1> SUFFICES ASSUME IInv, [Next]_vars PROVE IInv'
  OBVIOUS
<1>1. TypeOK'
  BY TypeStep DEF IInv
<1>2. LedgerFits' /\ Control'
  BY LedgerStep, ControlStep DEF IInv
<1>3. PlanFits'
  BY PlanFitsStep DEF IInv
<1>4. RecordFits'
  BY RecordStep DEF IInv
<1>5. ClaudeFits'
  BY ClaudeStep DEF IInv
<1>6. ChangeFits'
  BY ChangeStep DEF IInv
<1>7. QED
  BY <1>1, <1>2, <1>3, <1>4, <1>5, <1>6 DEF IInv

\* Whatever commands, faults and changes of the user came before, the entries,
\* the plan, the record and the change in hand are what IInv says of them.
THEOREM Invariant == Spec => []IInv
  BY IInvInit, IInvStep, PTL DEF Spec

\* Between commands the record is exact for every path only qsdev touched
\* (RecordExact): the writes of every command and what it saves of them agree.
THEOREM RecordIsExact == Spec => []RecordExact
<1>1. IInv => RecordExact
  BY DEF IInv, RecordFits, RecordExact, Exact
<1>2. QED
  BY <1>1, Invariant, PTL

\* A teardown that failed on nothing leaves nothing of qsdev's, but for the
\* entries of the settings their record does not account for
\* (TeardownLeavesNothing): what it loaded covers every file it must remove.
THEOREM TeardownIsComplete == Spec => []TeardownLeavesNothing
<1>1. IInv => TeardownLeavesNothing
  <2> SUFFICES ASSUME IInv, pc = "finish", op = "teardown", failed = {},
                      NEW p \in Paths \ (touched \cup torn), disk[p].gen # 0
               PROVE  Strays(p)
    BY DEF TeardownLeavesNothing, Strays
  <2>1. todo = {}
    BY DEF IInv, Control
  <2>2. QED
    BY <2>1 DEF IInv, RecordFits
<1>2. QED
  BY <1>1, Invariant, PTL

\* An enable or disable that gets to save its record has brought every file of its
\* tool with it, but for what the user owns, changed or a merge leaves to them
\* (ChangeComplete), after any history of failed and killed commands.
THEOREM ChangeIsComplete == Spec => ChangeComplete
<1> DEFINE Complete ==
      pc = "files" /\ pc' = "answers" /\ op \in {"enable", "disable"} =>
        /\ \A p \in Exclusive(target) \ fresh :
              IF op = "enable"
              THEN p \in Produced(on) =>
                      \/ disk[p] = Gen(1) /\ state'[p].hash = Gen(1)
                      \/ Strategy[p] = "skip" /\ disk[p] \notin {Absent, Gen(1)}
              ELSE /\ ~Tracked(state'[p])
                   /\ disk[p].gen # 0 => p \in touched \cup torn'
        /\ \A p \in Reached(target) \ (fresh \cup failed \cup torn') :
              \/ target \in SectionsOf(disk[p]) <=> op = "enable"
              \/ plan[p] \in {"skip", "sidecar", "hold"} \/ LeftToUser(p)
              \/ disk[p].edit # 0 \/ disk[p] = Absent
              \/ p \in touched /\ ~Tracked(state'[p])
<1>1. IInv /\ IInv' /\ [Next]_vars => Complete
  <2> SUFFICES ASSUME IInv, IInv', [Next]_vars, pc = "files", pc' = "answers",
                      op \in {"enable", "disable"}
               PROVE  Complete
    OBVIOUS
  <2>1. SaveState
    <3>1. ASSUME NEW p \in Paths, FileStep(p) PROVE FALSE
      BY <3>1, FileStepFrame
    <3>2. QED
      BY <3>1, NextCases DEF StartEnable, StartDisable, StartUpdate, StartRepair,
         StartTeardown, Begin, SaveAnswers, SyncConfig, StartRecord, RemoveOwn,
         RecordRemoved, RemoveDirs, Finish, Crash, ChangeStops, Idle, UserEdit,
         UserDelete, AcceptSidecar, UserChanges, cmdVars, vars, SaveUnchanged
  <2>2. todo = {} /\ Changing
    BY <2>1, SavingDone DEF IInv
  <2>3. /\ UNCHANGED <<disk, op, out, dropped, touched>>
        /\ \A p \in Paths : state'[p] = Pending(p) /\ Pending(p)' = Pending(p)
        /\ \A p \in torn \ torn' :
             Tracked(out[p]) \/ (p \in dropped /\ disk[p] = Absent)
    BY <2>1, SavedRecord DEF IInv
  <2>4. ASSUME NEW p \in Exclusive(target) \ fresh, op = "enable", p \in Produced(on)
        PROVE  \/ disk[p] = Gen(1) /\ state'[p].hash = Gen(1)
               \/ Strategy[p] = "skip" /\ disk[p] \notin {Absent, Gen(1)}
    <3>1. OwnEnabled(p) /\ p \in Paths
      BY <2>4 DEF IInv, ChangeFits, Exclusive
    <3>2. out[p].hash = Gen(1) => state'[p] = out[p]
      BY <2>3, <3>1 DEF Pending, Tracked, Gen, Absent
    <3>3. QED
      BY <2>2, <3>1, <3>2 DEF OwnEnabled
  <2>5. ASSUME NEW p \in Exclusive(target) \ fresh, op = "disable"
        PROVE  /\ ~Tracked(state'[p])
               /\ disk[p].gen # 0 => p \in touched \cup torn'
    <3>1. OwnDisabled(p) /\ p \in Paths
      BY <2>5 DEF IInv, ChangeFits, Exclusive
    <3>2. ~Tracked(Pending(p))
      BY <2>2, <3>1 DEF OwnDisabled
    <3>3. p \notin touched' \cup torn' => Exact(p, Pending(p))'
      BY <2>2, <2>3, <3>1 DEF IInv, RecordFits, Changing
    <3>4. p \notin touched \cup torn' => Exact(p, Pending(p))
      BY <2>3, <3>1, <3>3 DEF Exact
    <3>5. QED
      BY <2>3, <3>1, <3>2, <3>4 DEF Exact
  <2>6. ASSUME NEW p \in Reached(target) \ (fresh \cup failed \cup torn')
        PROVE  \/ Carries(p) <=> op = "enable"
               \/ plan[p] \in {"skip", "sidecar", "hold"} \/ LeftToUser(p)
               \/ disk[p].edit # 0 \/ disk[p] = Absent
               \/ p \in touched /\ ~Tracked(state'[p])
    <3>1. SharedChanged(p) /\ p \in Paths
      BY <2>6 DEF IInv, ChangeFits, SharedBy, Reached
    <3>2. p \in torn => Tracked(Pending(p)) \/ disk[p] = Absent
      BY <2>3, <2>6 DEF Pending
    <3>3. QED
      BY <2>2, <2>3, <3>1, <3>2 DEF SharedChanged
  <2>7. QED
    BY <2>4, <2>5, <2>6 DEF Carries
<1>2. QED
  BY <1>1, Invariant, PTL DEF Spec, ChangeComplete

-----------------------------------------------------------------------------
(* The user's text. *)

\* The newest backup survives the pruning.
LEMMA BackedUpKeeps ==
  ASSUME TypeOK, NEW p \in Paths, disk[p] # Absent
  PROVE  \E i \in 1..Len(BackedUp(p)) : BackedUp(p)[i] = disk[p]
<1> DEFINE all == Append(backups[p], disk[p])
           n == Len(backups[p])
<1>1. backups[p] \in Seq(Content) /\ disk[p] \in Content /\ n \in Nat
  BY DEF TypeOK
<1>2. /\ all \in Seq(Content) /\ all # <<>>
      /\ Len(all) = n + 1 /\ all[n + 1] = disk[p]
  BY <1>1, AppendProperties
<1> HIDE DEF all
<1>3. /\ Len(Tail(all)) = n
      /\ \A i \in 1..Len(Tail(all)) : Tail(all)[i] = all[i + 1]
  BY <1>1, <1>2, HeadTailProperties
<1> HIDE DEF n
<1>4. CASE Len(all) > KeepBackups
  <2>1. n \in 1..n
    BY <1>1, <1>2, <1>4, UpkeepAssumption
  <2>2. Tail(all)[n] = disk[p]
    BY <1>2, <1>3, <2>1
  <2>3. BackedUp(p) = Tail(all)
    BY <1>4 DEF BackedUp, all
  <2>4. QED
    BY <1>3, <2>1, <2>2, <2>3
<1>5. CASE ~(Len(all) > KeepBackups)
  <2>1. n + 1 \in 1..Len(all)
    BY <1>1, <1>2
  <2>2. BackedUp(p) = all
    BY <1>5 DEF BackedUp, all
  <2>3. QED
    BY <1>2, <2>1, <2>2
<1>6. QED
  BY <1>4, <1>5

LEMMA KeptByFileStep ==
  ASSUME TypeOK, LedgerFits, Control, PlanFits, NEW p \in Paths, FileStep(p),
         disk[p].edit # 0, disk'[p].edit # disk[p].edit
  PROVE  \/ MayDiscard(p) \/ RacesPlan(p)
         \/ plan[p] = "remove" /\ Mergeable(Strategy[p])
<1>1. /\ p \in todo /\ plan[p] \in Actions /\ op \in Ops /\ disk[p] \in Content
      /\ disk[p] # Absent
  BY FileStepFrame DEF TypeOK, Absent
<1>2. p \notin fresh => StepFits(p, plan[p], disk[p])
  BY <1>1 DEF PlanFits
<1>3. CASE WriteFile(p)
  <2>1. CASE plan[p] = "write"
    <3>1. op = "enable"
      BY <1>1, <2>1 DEF PlanFits
    <3>2. p \notin fresh => force /\ Strategy[p] # "skip"
      BY <1>2, <2>1 DEF StepFits
    <3>3. QED
      BY <3>1, <3>2 DEF MayDiscard, RacesPlan
  <2>2. CASE plan[p] = "create"
    BY <1>1, <1>2, <2>2 DEF StepFits, ActionFits, RacesPlan
  <2>3. CASE plan[p] = "regenerate"
    <3>1. p \notin fresh => /\ op = "update"
                            /\ \/ force /\ Strategy[p] # "skip"
                               \/ Strategy[p] = "libraryManaged"
      BY <1>2, <2>3 DEF StepFits, ActionFits
    <3>2. QED
      BY <3>1 DEF MayDiscard, RacesPlan
  <2>4. QED
    BY <1>3, <2>1, <2>2, <2>3 DEF WriteFile
<1>4. CASE MergeFile(p)
  <2> DEFINE c == MergeContent(p, state[p].base, disk[p], Output(p, on))
  <2>1. disk'[p] = c
    BY <1>4 DEF MergeFile, Writes, TypeOK
  <2>2. state[p].base.edit = 0
    BY DEF LedgerFits, EntryFits, EntryClean
  <2>3. c.edit = disk[p].edit
    BY <2>2, MergeKeepsEdit
  <2>4. QED
    BY <2>1, <2>3
<1>5. CASE RepairFile(p)
  <2>1. op = "repair"
    BY <1>1, <1>5 DEF RepairFile, PlanFits
  <2>2. backups'[p] = BackedUp(p)
    BY <1>5 DEF RepairFile, TypeOK
  <2>3. disk[p] \in {backups'[p][i] : i \in 1..Len(backups'[p])}
    BY <1>1, <2>2, BackedUpKeeps
  <2>4. QED
    BY <2>1, <2>3 DEF MayDiscard
<1>6. CASE StripSection(p) /\ target \in SectionsOf(disk[p])
  BY <1>6, StripType DEF StripSection, TypeOK
<1>7. CASE RemoveFile(p)
  <2>1. CASE plan[p] = "delete"
    <3>1. op = "disable" /\ (p \notin fresh => force)
      BY <1>1, <1>2, <2>1 DEF PlanFits, StepFits
    <3>2. QED
      BY <3>1 DEF MayDiscard, RacesPlan
  <2>2. CASE plan[p] = "remove"
    BY <1>2, <2>2 DEF StepFits, ActionFits, RacesPlan
  <2>3. QED
    BY <1>7, <2>1, <2>2 DEF RemoveFile
<1>8. CASE CleanFile(p)
  BY <1>8 DEF CleanFile, Cleaned, TypeOK
<1>9. CASE UntrackFile(p) \/ LeavesAlone \/ Fails(p)
  BY <1>9 DEF UntrackFile, LeavesAlone, Fails, fileVars
<1>10. QED
  BY <1>3, <1>4, <1>5, <1>6, <1>7, <1>8, <1>9, FileStepOutcome

\* No command discards the user's text without licence (UserTextKept): what a
\* step counts on when it replaces or removes a file held when it was planned,
\* and the user has not changed the file since or the change races the plan.
THEOREM UserTextIsKept == Spec => UserTextKept
<1> DEFINE Kept ==
      \A p \in Paths :
        Handled(p) /\ disk[p].edit # 0 /\ disk'[p].edit # disk[p].edit
          => \/ MayDiscard(p)
             \/ RacesPlan(p)
             \/ plan[p] = "remove" /\ Mergeable(Strategy[p])
<1>1. IInv /\ [Next]_vars => Kept
  <2> SUFFICES ASSUME IInv, [Next]_vars, NEW p \in Paths,
                      Handled(p), disk[p].edit # 0, disk'[p].edit # disk[p].edit
               PROVE  \/ MayDiscard(p) \/ RacesPlan(p)
                      \/ plan[p] = "remove" /\ Mergeable(Strategy[p])
    OBVIOUS
  <2>1. p \in todo /\ todo' # todo /\ disk' # disk /\ op # "none"
    BY DEF Handled, IInv, Control
  <2>2. \E q \in Paths : FileStep(q)
    BY <2>1, NextCases DEF StartEnable, StartDisable, StartUpdate, StartRepair,
       StartTeardown, Begin, SaveState, SaveAnswers, SyncConfig, SaveUnchanged,
       StartRecord, RemoveOwn, RecordRemoved, RemoveDirs, Finish, Crash, ChangeStops,
       UserEdit, UserDelete, AcceptSidecar, UserChanges, fileVars, cmdVars, vars
  <2>3. PICK q \in Paths : FileStep(q)
    BY <2>2
  <2>4. q = p
    BY <2>3, FileStepOne DEF IInv
  <2>5. QED
    BY <2>3, <2>4, KeptByFileStep DEF IInv
<1>2. QED
  BY <1>1, Invariant, PTL DEF Spec, UserTextKept
=============================================================================
