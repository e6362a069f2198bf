----------------------------- MODULE UpkeepPlan -----------------------------
(***************************************************************************)
(* What the commands that keep an initialised project decide before they   *)
(* write: `enable` and `disable` of one tool (addons/devinit/lifecycle.go),*)
(* `update`, `repair` (internal/repair) and `teardown` (internal/teardown).*)
(*                                                                         *)
(* The release is fixed here, so a generation is a rendering: generation g *)
(* of a file several tools share carries the sections Sections[g], and a   *)
(* tool's own file is rendered as generation 1.  Left out: prerequisites   *)
(* and conflicts of tools, content validation (see Lifecycle) and files    *)
(* that cannot be read.                                                    *)
(***************************************************************************)
EXTENDS UpdatePlan

CONSTANTS
    Registry,    \* tools of the registry; the other Tools are generators' names
    ClaudeCode,  \* stands beside the tools for the answers' Claude Code switch
    Claude,      \* paths generated only with Claude Code on
    Shares,      \* [Paths -> SUBSET Registry]: the tools with a section in a path
    Hosts,       \* [Paths -> SUBSET Registry]: tools whose hooks load a library
    Core,        \* shared paths generated whatever is enabled
    Strippable,  \* shared paths a tool's section can be cut out of in place
    Pinned       \* paths repair never modifies (devenv.nix, devenv.yaml)

ASSUME UpkeepPlanAssumption ==
    /\ Registry \subseteq Tools
    /\ ClaudeCode \notin Tools \cup {NoTool}
    /\ Claude \subseteq Paths
    /\ Shares \in [Paths -> SUBSET Registry]
    /\ Hosts \in [Paths -> SUBSET Registry]
    /\ Core \subseteq Paths /\ Strippable \subseteq Paths /\ Pinned \subseteq Paths
    /\ Parts = Registry /\ OneOfEachName(Registry)
    /\ \A p \in Paths : Owner[p] \in Registry => Shares[p] = {} /\ Hosts[p] = {}

\* What the generators and the registry say of the kinds of files: a tool's own
\* files are never merged, hook libraries and the hook scripts that load them
\* are overwritten, files that tools share belong to none of them, one that may
\* go away with the tools or with Claude Code is merged, and the settings, which
\* have no sections to cut out, are merged and generated whenever Claude Code is on.
ASSUME FileKindsAssumption ==
    /\ \A p \in Paths :
         /\ Owner[p] \in Registry => ~Mergeable(Strategy[p])
         /\ Hosts[p] # {} =>
              Strategy[p] = "overwrite" /\ Shares[p] = {} /\ p \in Claude
         /\ \A t \in Hosts[p] :
              \E q \in Paths : Owner[q] = t /\ Strategy[q] = "overwrite"
         /\ Shares[p] # {} =>
              /\ Owner[p] = NoTool /\ Strategy[p] # "libraryManaged"
              /\ p \notin Core => p \in Strippable
              /\ p \in Claude \/ p \notin Core => Mergeable(Strategy[p])
    /\ \A s \in Settings :
         /\ s \in (Core \cap Claude) \ Strippable /\ Strategy[s] = "threeWay"
         /\ HeldWith[s] = NoPath
         /\ Owner[s] = NoTool /\ Hosts[s] = {}

-----------------------------------------------------------------------------
(* What the generators produce with the tools in on enabled. *)

\* What the answers choose.
Choices == Registry \cup {ClaudeCode}

\* A library for its tools, a shared file for its tools or always.
Rendered(p, on) ==
    CASE Owner[p] \in Registry -> IF Owner[p] \in on THEN 1 ELSE 0
      [] Owner[p] \notin Registry /\ Hosts[p] # {} ->
            IF Hosts[p] \cap on # {} THEN 1 ELSE 0
      [] OTHER -> IF p \in Core \/ Shares[p] \cap on # {}
                  THEN Rendering(Shares[p] \cap on) ELSE 0

\* runAccumulator: the generation of p, 0 when it is not generated.
Output(p, on) == IF p \in Claude /\ ClaudeCode \notin on THEN 0 ELSE Rendered(p, on)

Produced(on) == {p \in Paths : Output(p, on) # 0}

\* Tool.ExclusiveFiles, Tool.SharedFiles and the libraries its hooks load.
Exclusive(t) == {p \in Paths : Owner[p] = t}
SharedBy(t)  == {p \in Paths : t \in Shares[p]}
Support(t)   == {p \in Paths : t \in Hosts[p]}

-----------------------------------------------------------------------------
(* enable and disable. *)

\* isForeignFile
Foreign(e, onDisk) ==
    /\ onDisk \notin {Absent, Gen(1)}
    /\ ~(Tracked(e) /\ onDisk = e.hash)

\* keepUserOwnedFiles, hookSupportFiles: the exclusive writes of an enable.
EnableWrites(t, st, onDisk, on) ==
    LET own == {p \in Exclusive(t) \cap Produced(on) :
                  ~(Strategy[p] = "skip" /\ Foreign(st[p], onDisk[p]))}
    IN  own \cup {p \in Support(t) \cap Produced(on) :
                    own # {} /\ ~(Tracked(st[p]) /\ onDisk[p] = Gen(1))}

\* The honesty guard of planToolEnable, and checkExclusiveWrites.
EnableRefused(t, st, onDisk, on, forced) ==
    LET files == Exclusive(t) \cup SharedBy(t)
    IN  \/ files # {} /\ files \cap Produced(on) = {}
        \/ /\ ~forced
           /\ \E p \in EnableWrites(t, st, onDisk, on) : Foreign(st[p], onDisk[p])

\* planSharedFiles: update's planner on the tool's shared files, without
\* --force; devenv.nix of the user gets a sidecar, a removal creates nothing.
PlanShared(t, st, onDisk, on, removing) ==
    LET made  == SharedBy(t) \cap Produced(on)
        draft == [p \in Paths |->
                    IF p \in made
                    THEN PlanGenerated(p, st[p], onDisk[p], Output(p, on), FALSE)
                    ELSE "none"]
    IN  [p \in Paths |->
            LET a == HoldPaired(p, draft, made, onDisk)
            IN  CASE p \in made /\ a = "skip" /\ Strategy[p] = "manualMerge"
                       /\ ~Tracked(st[p]) /\ onDisk[p] # Absent -> "sidecar"
                  [] p \in made /\ removing /\ a = "create" -> "none"
                  [] p \notin made -> "none"
                  [] OTHER -> a]

\* planToolEnable
PlanEnable(t, st, onDisk, on) ==
    LET shared == PlanShared(t, st, onDisk, on, FALSE)
    IN  [p \in Paths |->
            IF p \in EnableWrites(t, st, onDisk, on) THEN "write" ELSE shared[p]]

\* planExclusiveRemoval: settings are never candidates.
Candidates(t) == Exclusive(t) \ Settings

\* A removal that passes over files the user changed, even with --force.
RemovableUnmodified(t, st, onDisk) ==
    {p \in Candidates(t) : onDisk[p] # Absent /\ onDisk[p] = st[p].hash}

Removable(t, st, onDisk) ==
    {p \in Candidates(t) : onDisk[p] # Absent /\ Tracked(st[p])}

Gone(t, onDisk) == {p \in Candidates(t) : onDisk[p] = Absent}

RemovalRefused(t, st, onDisk, forced) ==
    ~forced /\ \E p \in Removable(t, st, onDisk) : onDisk[p] # st[p].hash

\* Support files cut loose without asking whether another tool loads them.
SupportOrphanOfAny(p, e, on) ==
    Tracked(e) /\ e.owner \notin Registry \cup {NoTool}

\* supportOrphans, of planOrphans.
SupportOrphan(p, e, on) ==
    /\ Tracked(e) /\ p \notin Produced(on)
    /\ e.owner \notin Registry \cup {NoTool}
    /\ OwnsOrphan(e, Produced(on), on)

\* A disable that leaves the sections of files no longer generated.
PlanDisableKeepsSections(t, st, onDisk, on) ==
    LET shared == PlanShared(t, st, onDisk, on, TRUE)
    IN  [p \in Paths |->
            CASE p \in Removable(t, st, onDisk) -> "delete"
              [] SupportOrphan(p, st[p], on)    -> PlanOrphan(p, st[p], onDisk[p])
              [] OTHER                          -> shared[p]]

\* runDisable's plan: the removal, planToolDisable and removeStaleSections.
PlanDisable(t, st, onDisk, on) ==
    LET shared == PlanShared(t, st, onDisk, on, TRUE)
    IN  [p \in Paths |->
            CASE p \in Removable(t, st, onDisk) -> "delete"
              [] SupportOrphan(p, st[p], on)    -> PlanOrphan(p, st[p], onDisk[p])
              [] p \in SharedBy(t) \cap Strippable /\ shared[p] = "none"
                   /\ Tracked(st[p])            -> "strip"
              [] OTHER                          -> shared[p]]

-----------------------------------------------------------------------------
(* update, repair and teardown. *)

\* buildUpdatePlan and planOrphans, for every file the tools produce.
PlanUpdate(st, onDisk, on, forced) ==
    LET made  == Produced(on)
        draft == [p \in Paths |->
                    IF p \in made
                    THEN PlanGenerated(p, st[p], onDisk[p], Output(p, on), forced)
                    ELSE "none"]
    IN  [p \in Paths |->
            CASE p \in made -> HoldPaired(p, draft, made, onDisk)
              [] p \notin made /\ Tracked(st[p]) /\ OwnsOrphan(st[p], made, on)
                   -> PlanOrphan(p, st[p], onDisk[p])
              [] OTHER -> "none"]

\* classifyFileModification: whether a finding on p is fixed.
Fixes(p, e, onDisk, forced, reset) ==
    \/ Status(e, onDisk) = "deleted"
    \/ /\ Status(e, onDisk) = "modified" /\ p \notin Pinned
       /\ \/ reset
          \/ Strategy[p] \in {"overwrite", "libraryManaged"}
          \/ forced /\ HumanEdited(Strategy[p]) /\ Strategy[p] # "merge"

\* classifyFindings and resetActions: an unfixed finding covers its file.
PlanRepair(st, onDisk, on, forced, reset) ==
    [p \in Paths |->
        IF \/ Tracked(st[p]) /\ Fixes(p, st[p], onDisk[p], forced, reset)
           \/ /\ reset /\ p \in Produced(on) \ Pinned
              /\ ~Tracked(st[p]) \/ Status(st[p], onDisk[p]) = "unmodified"
        THEN "repair" ELSE "none"]

\* ClassifyFiles and BuildPlan.
PlanTeardown(st, onDisk) ==
    [p \in Paths |->
        LET unmodified == onDisk[p] = st[p].hash
        IN  CASE ~Tracked(st[p]) \/ onDisk[p] = Absent -> "none"
              [] Tracked(st[p]) /\ onDisk[p] # Absent /\ Shares[p] # {} ->
                    IF Strategy[p] = "manualMerge" /\ unmodified
                    THEN "remove" ELSE "clean"
              [] OTHER -> IF unmodified THEN "remove" ELSE "none"]

\* A clean that keeps the sections the recorded base has.
CleanedKeepsBase(p, c, base) ==
    [gen  |-> IF p \in Settings THEN c.gen ELSE 0,
     edit |-> c.edit]

\* cleanSharedFile: settings lose what the recorded base has, other files every
\* registered section and the generated block.  A file left without any text
\* counts as absent.
Cleaned(p, c, base) ==
    LET left == SectionsOf(c) \ SectionsOf(base)
    IN  [gen  |-> IF p \in Settings /\ left # {} THEN Rendering(left) ELSE 0,
         edit |-> c.edit]
=============================================================================
