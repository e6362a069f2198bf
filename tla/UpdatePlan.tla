----------------------------- MODULE UpdatePlan -----------------------------
(***************************************************************************)
(* The planner of `qsdev update` (addons/devinit/update.go): what to do    *)
(* with every generated file and every tracked file no longer generated,   *)
(* decided from the state file and the disk before anything is written.    *)
(***************************************************************************)
EXTENDS Ledger

PlanActions == {"none", "create", "regenerate", "merge", "sidecar", "hold",
                "remove", "untrack", "skip"}

\* A planner that leaves an existing untracked file undecided.
PlanUndecided(p, onDisk, v, forced) ==
    IF onDisk = Absent THEN "create" ELSE "undecided"

\* A planner that does not look whether an untracked file is current.
PlanIgnoresCurrent(p, onDisk, v, forced) ==
    CASE onDisk = Absent -> "create"
      [] onDisk # Absent /\ Mergeable(Strategy[p]) -> "merge"
      [] OTHER -> IF forced /\ Strategy[p] # "skip" THEN "regenerate" ELSE "skip"

\* A planner that takes every untracked file for qsdev's own.
PlanTakesOver(p, onDisk, v, forced) ==
    CASE onDisk = Absent -> "create"
      [] onDisk # Absent /\ Mergeable(Strategy[p]) -> "merge"
      [] OTHER -> "regenerate"

\* planUntrackedFile
PlanUntracked(p, onDisk, v, forced) ==
    LET s == Strategy[p]
    IN  CASE onDisk = Absent -> "create"
          [] onDisk = Gen(v) -> "regenerate"
          [] onDisk \notin {Absent, Gen(v)} /\ Mergeable(s) -> "merge"
          [] onDisk \notin {Absent, Gen(v)} /\ s = "skip" -> "skip"
          [] OTHER -> IF forced THEN "regenerate" ELSE "skip"

\* A Modified case that does not look whether the file is current.
PlanModifiedBlind(p, onDisk, v, forced) ==
    LET s == Strategy[p]
    IN  CASE s = "skip" -> "skip"
          [] s # "skip" /\ forced -> "regenerate"
          [] ~forced /\ Mergeable(s) -> "merge"
          [] ~forced /\ s = "manualMerge" -> "sidecar"
          [] ~forced /\ s = "libraryManaged" -> "regenerate"
          [] OTHER -> "skip"

\* The Modified case of buildUpdatePlan.
PlanModified(p, onDisk, v, forced) ==
    LET s == Strategy[p]
    IN  CASE onDisk = Gen(v) -> "regenerate"
          [] onDisk # Gen(v) /\ s = "skip" -> "skip"
          [] onDisk # Gen(v) /\ s # "skip" /\ forced -> "regenerate"
          [] onDisk # Gen(v) /\ ~forced /\ Mergeable(s) -> "merge"
          [] onDisk # Gen(v) /\ ~forced /\ s = "manualMerge" -> "sidecar"
          [] onDisk # Gen(v) /\ ~forced /\ s = "libraryManaged" -> "regenerate"
          [] OTHER -> "skip"

\* A planner that routes a modified skip-if-exists file like any other.
PlanTrackedSkipForced(p, e, onDisk, v, forced) ==
    CASE Status(e, onDisk) = "unmodified" ->
            IF Mergeable(Strategy[p]) THEN "merge" ELSE "regenerate"
      [] Status(e, onDisk) = "modified" ->
            IF Strategy[p] = "skip" /\ forced THEN "regenerate"
            ELSE PlanModified(p, onDisk, v, forced)
      [] OTHER -> IF forced THEN "create" ELSE "skip"

\* A planner that never recreates a deleted file.
PlanKeepsDeleted(p, e, onDisk, v, forced) ==
    CASE Status(e, onDisk) = "unmodified" ->
            IF Mergeable(Strategy[p]) THEN "merge" ELSE "regenerate"
      [] Status(e, onDisk) = "modified" -> PlanModified(p, onDisk, v, forced)
      [] OTHER -> "skip"

\* buildUpdatePlan, for a file with a state entry.
PlanTracked(p, e, onDisk, v, forced) ==
    CASE Status(e, onDisk) = "unmodified" ->
            IF Mergeable(Strategy[p]) THEN "merge" ELSE "regenerate"
      [] Status(e, onDisk) = "modified" -> PlanModified(p, onDisk, v, forced)
      [] OTHER -> IF forced THEN "create" ELSE "skip"

PlanGenerated(p, e, onDisk, v, forced) ==
    IF Tracked(e) THEN PlanTracked(p, e, onDisk, v, forced)
                  ELSE PlanUntracked(p, onDisk, v, forced)

WritesInPlace(a) == a \in {"regenerate", "create", "merge"}

\* A planner that decides each file of a pair on its own.
HoldNothing(p, draft, generated, onDisk) == draft[p]

\* holdPairedFiles: an existing file is held while its partner is not written
\* in place.  A sidecar is only planned for a modified partner without --force,
\* which does not replace the partner (partnerWritesInPlace).
HoldPaired(p, draft, generated, onDisk) ==
    IF /\ HeldWith[p] \in generated
       /\ WritesInPlace(draft[p])
       /\ onDisk[p] # Absent
       /\ ~WritesInPlace(draft[HeldWith[p]])
    THEN "hold" ELSE draft[p]

\* updateOwnsOrphan
OwnsOrphan(e, generated, enabledTools) ==
    \/ e.owner = NoTool
    \/ e.owner \notin enabledTools
    \/ \E q \in generated : Owner[q] = e.owner

\* planOrphans, for one tracked path that is no longer generated.
PlanOrphan(p, e, onDisk) ==
    IF p \notin Settings /\ Status(e, onDisk) = "unmodified"
    THEN "remove" ELSE "untrack"

\* runUpdateWith, steps 3 to 5: the whole plan.
UpdatePlanOf(st, onDisk, v, forced, generated, enabledTools) ==
    LET draft == [p \in Paths |->
                    IF p \in generated
                    THEN PlanGenerated(p, st[p], onDisk[p], v, forced)
                    ELSE "none"]
    IN  [p \in Paths |->
            CASE p \in generated -> HoldPaired(p, draft, generated, onDisk)
              [] p \notin generated /\ Tracked(st[p])
                    /\ OwnsOrphan(st[p], generated, enabledTools)
                 -> PlanOrphan(p, st[p], onDisk[p])
              [] OTHER -> "none"]
=============================================================================
