------------------------ MODULE LifecycleOutput_proofs ------------------------
(***************************************************************************)
(* Proofs about what Lifecycle's commands leave behind: qsdev's own output *)
(* is recorded as it lies on disk, a finished update has adopted and, with *)
(* --force, converged on this release, pairs move together, and updating   *)
(* again changes nothing.                                                  *)
(*                                                                         *)
(* The inductive invariant OutInv follows a command through its phases:    *)
(* what it has written so far (OutFits), what the two ledger files say of  *)
(* the disk meanwhile (RecordFits), what the plan of an update promises    *)
(* for the files it does not write (PlanKept), what an update and an init  *)
(* have finished with (UpdateDone, InitDone), that what is merged entry by *)
(* entry holds the entries of its base (EntriesFit), and what all that     *)
(* amounts to once it is saved (SavedFits, SettledFits).                   *)
(***************************************************************************)
EXTENDS Lifecycle_proofs

\* What the command has done so far to the files it lists.
Outcome == Written \cup dropped

Control ==
    /\ op = "none" <=> pc = "idle"
    /\ op = "none" => out = NoEntries /\ dropped = {} /\ fresh = {}
    /\ pc = "write" /\ Initializing => todo \subseteq Generated

\* Content that a merge onto release v's own output leaves as it is.
Current(p, c, v) ==
    IF Strategy[p] = "threeWay"
    THEN c.gen \in Versions /\ (p \in Settings => Sections[v] \subseteq SectionsOf(c))
    ELSE c.gen = v

\* An entry kept for the save is of this release, of a generated file, and
\* describes the file unless the user changed it after it was written.
OutFits ==
    \A p \in Paths : Tracked(out[p]) =>
        /\ p \in Generated
        /\ Current(p, out[p].hash, version)
        /\ Strategy[p] = "threeWay" => out[p].base = Gen(version)
        /\ op = "update" =>
             out[p].hash.gen = version \/ (plan[p] = "merge" /\ Strategy[p] = "threeWay")
        /\ ~Mergeable(Strategy[p]) => out[p].hash = Gen(version)
        /\ p \notin fresh \/ p \notin touched => disk[p] = out[p].hash

\* The ledger files describe what only qsdev touched, but for what the running
\* command has not saved yet.
RecordFits ==
    \A p \in Paths \ touched :
        /\ (CASE pc = "write"        -> p \notin torn \cup Outcome
              [] pc = "saveManifest" -> p \notin torn \ Outcome
              [] OTHER               -> p \notin torn)
           => (Tracked(state[p]) => disk[p] = state[p].hash)
        /\ p \notin torn /\ (pc \in {"write", "saveManifest"} => p \notin Outcome)
           => (manifest[p] # Absent => disk[p] = manifest[p])

\* Each file is handled once.  Of a file merged entry by entry that only
\* recorded commands changed, the entry describes the file and the file has the
\* entries of its base, so that no merge finds one missing.
EntriesFit ==
    /\ pc = "write" => todo \cap Outcome = {}
    /\ \A p \in Paths : ~Tracked(state[p]) => state[p].base = Absent
    /\ \A p \in Paths \ adrift : Strategy[p] = "threeWay" =>
         /\ Tracked(out[p]) =>
              disk[p] = out[p].hash /\ Sections[version] \subseteq SectionsOf(disk[p])
         /\ (pc = "write" => p \notin Outcome) /\ Tracked(state[p]) =>
              /\ disk[p] = state[p].hash
              /\ SectionsOf(state[p].base) \subseteq SectionsOf(disk[p])

-----------------------------------------------------------------------------
(* What the next update would do. *)

\* What an update without --force plans for p on its own.
Draft(p) == PlanGenerated(p, state[p], disk[p], version, FALSE)

\* It would not write p.
Passive(p) == ~WritesInPlace(Draft(p))

\* It would write p with what p already holds.
Rewritten(p, a) ==
    /\ a # "create"
    /\ a = "regenerate" => disk[p] = Gen(version)
    /\ a = "merge" => MergeContent(p, state[p].base, disk[p], version) = disk[p]

\* It would hold p.
Waits(p) == HeldWith[p] \in Generated /\ disk[p] # Absent /\ Passive(HeldWith[p])

\* It would change nothing.
Steady ==
    /\ \A p \in Generated : Rewritten(p, Draft(p)) \/ Waits(p)
    /\ \A p \in Paths \ Generated :
         ~(Tracked(state[p]) /\ OwnsOrphan(state[p], Generated, profile.enabled))

-----------------------------------------------------------------------------
(* A running command. *)

Unwritten == {"skip", "sidecar"}

\* The plan: what it says of a file that it does not write stays true of the
\* file, and a held file is written only when its partner is.
PlanKept ==
    op = "update" =>
        /\ \A p \in Paths :
             IF p \in Generated
             THEN plan[p] \in {"create", "regenerate", "merge", "hold"} \cup Unwritten
             ELSE plan[p] \in {"none", "remove", "untrack"}
        /\ \A p \in Generated :
             HeldWith[p] \in Generated /\ plan[p] \in {"regenerate", "merge"}
               => WritesInPlace(plan[HeldWith[p]])
        /\ \A p \in Paths : plan[p] = "hold" =>
               HeldWith[p] \in Generated /\ plan[HeldWith[p]] \in Unwritten
        /\ \A p \in Generated :
             p \notin dropped /\ (Tracked(out[p]) => WritesInPlace(plan[p]))
        /\ pc = "write" => \A p \in Generated \ fresh :
             /\ plan[p] \in Unwritten =>
                  Passive(p) /\ (force => Strategy[p] = "skip" /\ disk[p] # Absent)
             /\ plan[p] = "hold" => disk[p] # Absent

\* What update has finished with.
UpdateDone ==
    op = "update" /\ pc = "write" =>
        /\ todo # {} \/ failed = {} =>
             \A p \in Generated \ (todo \cup fresh \cup failed) :
                 WritesInPlace(plan[p]) => Tracked(out[p])
        /\ failed = {} =>
             \A p \in Paths \ Generated :
                 Tracked(state[p]) /\ OwnsOrphan(state[p], Generated, profile.enabled)
                   => p \in todo \cup dropped

\* What init has finished with: a file it left alone is neither missing nor
\* current, and a merging one waits for its partner, which was left alone too.
InitDone ==
    Initializing /\ pc = "write" /\ failed = {} =>
        \A p \in Generated \ (todo \cup fresh) :
            \/ Tracked(out[p])
            \/ /\ disk[p] \notin {Absent, Gen(version)}
               /\ Mergeable(Strategy[p]) =>
                    /\ HeldWith[p] \in Generated \ todo
                    /\ ~Tracked(out[HeldWith[p]])

\* What an update that failed on nothing has brought about for p.
Converged(p) ==
    \/ /\ state[p].hash = disk[p]
       /\ \/ disk[p].gen = version
          \/ /\ plan[p] = "merge" /\ Strategy[p] = "threeWay"
             /\ state[p].base = Gen(version)
             /\ p \in adrift \/ Sections[version] \subseteq SectionsOf(disk[p])
    \/ ~force /\ plan[p] = "hold"
    \/ disk[p] # Gen(version) /\ (force => Strategy[p] = "skip" /\ disk[p] # Absent)

SavedFits ==
    /\ pc \in {"saveManifest", "saveAnswers", "finish"} /\ failed = {} /\ fresh = {} =>
         /\ Steady
         /\ op = "update" => \A p \in Generated : Converged(p)
         /\ \A p \in Generated \ adrift :
              Strategy[p] = "threeWay" => Sections[version] \subseteq SectionsOf(disk[p])
    /\ op = "none" /\ settled => Steady

\* An update that follows a command that succeeded finds nothing to change.
SettledFits ==
    op = "update" /\ pc = "write" /\ ~force /\ settled =>
        \A p \in todo : plan[p] # "remove" /\ Rewritten(p, plan[p])

OutInv == /\ Control /\ OutFits /\ RecordFits /\ PlanKept /\ UpdateDone
          /\ InitDone /\ EntriesFit /\ SavedFits /\ SettledFits

-----------------------------------------------------------------------------
(* The merges. *)

\* A merge leaves no file empty, and has every generated entry unless it goes
\* into .mcp.json and the file lacks an entry of the base.
LEMMA MergeIs ==
  ASSUME NEW p \in Paths, NEW b \in Content, NEW t \in Content, NEW v \in Versions
  PROVE  LET m == MergeContent(p, b, t, v)
         IN  /\ Current(p, m, v)
             /\ Strategy[p] = "threeWay" /\ SectionsOf(b) \subseteq SectionsOf(t)
                  => Sections[v] \subseteq SectionsOf(m)
<1> DEFINE m  == MergeContent(p, b, t, v)
           sb == SectionsOf(b)
           st == SectionsOf(t)
           o  == Sections[v]
<1>1. CASE Strategy[p] # "threeWay"
  BY <1>1 DEF MergeContent, Current
<1>2. CASE Strategy[p] = "threeWay"
  <2>1. m.gen \in Versions /\ SectionsOf(m) = MergedParts(p, sb, st, SectionsOf(Gen(v)))
    BY <1>2, MergedSections, ContentTypes
  <2>2. SectionsOf(Gen(v)) = o
    BY SectionsOfGen
  <2>3. /\ sb \in SUBSET Parts /\ OneOfEachName(sb)
        /\ st \in SUBSET Parts /\ OneOfEachName(st)
    BY SectionsOfType
  <2> HIDE DEF m, sb, st, o
  <2>4. o \subseteq MergeSettings(sb, st, o)
    BY DEF MergeSettings
  <2>5. ASSUME sb \subseteq st PROVE o \subseteq MergeMcpJson(sb, st, o)
    <3>1. SUFFICES ASSUME NEW x \in o, Named(sb, x) # {} PROVE Named(st, x) = Named(sb, x)
      BY DEF MergeMcpJson
    <3>2. PICK y \in sb : NameOf[y] = NameOf[x]
      BY <3>1 DEF Named
    <3>3. \A z \in st : NameOf[z] = NameOf[x] => z = y
      BY <2>3, <2>5, <3>2 DEF OneOfEachName
    <3>4. QED
      BY <2>5, <3>2, <3>3 DEF Named
  <2>6. QED
    BY <1>2, <2>1, <2>2, <2>4, <2>5 DEF MergedParts, Current, m, sb, st, o
<1>3. QED
  BY <1>1, <1>2

\* A merge of what a merge of this release wrote changes nothing.
LEMMA MergeAgain ==
  ASSUME NEW p \in Paths, NEW b \in Content, NEW c \in Content, NEW v \in Versions,
         b.edit = 0, Strategy[p] = "threeWay" => b = Gen(v), Current(p, c, v)
  PROVE  MergeContent(p, b, c, v) = c
<1>1. MergeContent(p, b, c, v).edit = c.edit
  BY DEF MergeContent, Content
<1>2. MergeContent(p, b, c, v).gen = c.gen
  <2>1. CASE Strategy[p] # "threeWay"
    BY <2>1 DEF MergeContent, Current
  <2>2. CASE Strategy[p] = "threeWay"
    <3> DEFINE o == Sections[v]
               r == SectionsOf(c)
    <3>1. c.gen \in Versions /\ (p \in Settings => o \subseteq r)
      BY <2>2 DEF Current
    <3>2. r = Sections[c.gen] /\ Rendering(r) = c.gen
      BY <3>1, Renderings, LedgerAssumption DEF SectionsOf, Versions
    <3>3. r \in SUBSET Parts /\ OneOfEachName(r)
      BY SectionsOfType
    <3>4. MergeContent(p, b, c, v).gen = Rendering(MergedParts(p, o, r, o))
      BY <2>2, MergedSections, SectionsOfGen, ContentTypes
    <3> HIDE DEF o, r
    <3>5. MergeMcpJson(o, r, o) = r
      <4>1. \A x \in o : x \in Named(o, x)
        BY DEF Named
      <4>2. ASSUME NEW x \in o, Named(r, x) = Named(o, x) PROVE x \in r
        BY <4>2 DEF Named
      <4>3. ASSUME NEW x \in r, Named(r, x) = Named(o, x) PROVE x \in o
        BY <4>3 DEF Named
      <4>4. QED
        BY <4>1, <4>2, <4>3 DEF MergeMcpJson
    <3>6. ASSUME o \subseteq r PROVE MergeSettings(o, r, o) = r
      <4>1. ASSUME NEW x \in r, Named(o, x) # {} PROVE x \in o
        BY <3>3, <3>6, <4>1 DEF Named, OneOfEachName
      <4>2. QED
        BY <3>6, <4>1 DEF MergeSettings
    <3>7. MergedParts(p, o, r, o) = r
      BY <3>1, <3>5, <3>6 DEF MergedParts
    <3>8. QED
      BY <3>2, <3>4, <3>7
  <2>3. QED
    BY <2>1, <2>2
<1>3. MergeContent(p, b, c, v) = [gen  |-> MergeContent(p, b, c, v).gen,
                                  edit |-> MergeContent(p, b, c, v).edit]
  BY DEF MergeContent
<1>4. QED
  BY <1>1, <1>2, <1>3 DEF Content

\* This release's own output needs no merge.
LEMMA GenIsCurrent ==
  ASSUME NEW p \in Paths, NEW v \in Versions
  PROVE  Current(p, Gen(v), v) /\ Sections[v] \subseteq SectionsOf(Gen(v))
  BY SectionsOfGen DEF Current, Gen

-----------------------------------------------------------------------------
(* The planner. *)

LEMMA PlanUntrackedIs ==
  ASSUME NEW p \in Paths, NEW c, NEW v \in Versions, NEW f \in BOOLEAN
  PROVE  LET a == PlanUntracked(p, c, v, f)
         IN  /\ a = "create" <=> c = Absent
             /\ c = Gen(v) => a = "regenerate"
             /\ c \notin {Absent, Gen(v)} =>
                  /\ Mergeable(Strategy[p]) => a = "merge"
                  /\ ~Mergeable(Strategy[p]) =>
                       a = IF f /\ Strategy[p] # "skip" THEN "regenerate" ELSE "skip"
<1>1. Gen(v) # Absent
  BY ContentTypes
<1>2. CASE c = Absent
  BY <1>1, <1>2 DEF PlanUntracked
<1>3. CASE c = Gen(v)
  BY <1>1, <1>3 DEF PlanUntracked
<1>4. CASE c \notin {Absent, Gen(v)}
  <2>1. CASE Mergeable(Strategy[p])
    BY <1>4, <2>1 DEF PlanUntracked, Mergeable
  <2>2. CASE ~Mergeable(Strategy[p]) /\ Strategy[p] = "skip"
    BY <1>4, <2>2 DEF PlanUntracked
  <2>3. CASE ~Mergeable(Strategy[p]) /\ Strategy[p] # "skip"
    BY <1>4, <2>3 DEF PlanUntracked
  <2>4. QED
    BY <2>1, <2>2, <2>3
<1>5. QED
  BY <1>2, <1>3, <1>4

LEMMA PlanModifiedIs ==
  ASSUME NEW p \in Paths, NEW c, NEW v \in Versions, NEW f \in BOOLEAN
  PROVE  LET a == PlanModified(p, c, v, f)
         IN  /\ a \in {"regenerate", "merge"} \cup Unwritten
             /\ c = Gen(v) => a = "regenerate"
             /\ f /\ a \in Unwritten => Strategy[p] = "skip"
             /\ a \in Unwritten => PlanModified(p, c, v, FALSE) \in Unwritten
<1>1. CASE c = Gen(v)
  BY <1>1 DEF PlanModified, Unwritten
<1>2. CASE c # Gen(v) /\ Strategy[p] = "skip"
  BY <1>2 DEF PlanModified, Unwritten, Mergeable
<1>3. CASE c # Gen(v) /\ Strategy[p] # "skip" /\ f
  BY <1>3 DEF PlanModified, Unwritten
<1>4. CASE c # Gen(v) /\ Strategy[p] # "skip" /\ ~f
  BY <1>4 DEF PlanModified, Unwritten, Mergeable
<1>5. QED
  BY <1>1, <1>2, <1>3, <1>4

\* The three states of a tracked file.
LEMMA PlanTrackedIs ==
  ASSUME NEW p \in Paths, NEW e, Tracked(e), NEW c, NEW v \in Versions,
         NEW f \in BOOLEAN
  PROVE  LET a == PlanTracked(p, e, c, v, f)
         IN  /\ c = Absent => a = IF f THEN "create" ELSE "skip"
             /\ c = e.hash => a = IF Mergeable(Strategy[p]) THEN "merge" ELSE "regenerate"
             /\ c \notin {Absent, e.hash} => a = PlanModified(p, c, v, f)
<1>1. e.hash # Absent
  BY DEF Tracked
<1>2. /\ c = Absent => Status(e, c) = "deleted"
      /\ c = e.hash => Status(e, c) = "unmodified"
      /\ c \notin {Absent, e.hash} => Status(e, c) = "modified"
  BY <1>1 DEF Status
<1>3. QED
  BY <1>2 DEF PlanTracked

\* What planning one generated file guarantees: a file that is not written is
\* not current, --force leaves only existing skip-if-exists files unwritten, and
\* leaving --force out writes no more.
LEMMA DraftIs ==
  ASSUME NEW p \in Paths, NEW e, NEW c, NEW v \in Versions, NEW f \in BOOLEAN
  PROVE  LET a == PlanGenerated(p, e, c, v, f)
         IN  /\ a \in {"create", "regenerate", "merge"} \cup Unwritten
             /\ a \in {"regenerate", "merge"} => c # Absent
             /\ a \in Unwritten =>
                  /\ c # Gen(v)
                  /\ f => Strategy[p] = "skip" /\ c # Absent
                  /\ PlanGenerated(p, e, c, v, FALSE) \in Unwritten
<1> DEFINE a == PlanGenerated(p, e, c, v, f)
           b == PlanGenerated(p, e, c, v, FALSE)
<1>1. Gen(v) # Absent /\ FALSE \in BOOLEAN
  BY ContentTypes
<1>2. CASE ~Tracked(e)
  <2>1. a = PlanUntracked(p, c, v, f) /\ b = PlanUntracked(p, c, v, FALSE)
    BY <1>2 DEF PlanGenerated
  <2>2. /\ a = "create" <=> c = Absent
        /\ c = Gen(v) => a = "regenerate"
        /\ c \notin {Absent, Gen(v)} =>
             /\ Mergeable(Strategy[p]) => a = "merge"
             /\ ~Mergeable(Strategy[p]) =>
                  a = IF f /\ Strategy[p] # "skip" THEN "regenerate" ELSE "skip"
    BY <2>1, PlanUntrackedIs
  <2>3. c \notin {Absent, Gen(v)} /\ ~Mergeable(Strategy[p]) => b = "skip"
    BY <1>1, <2>1, PlanUntrackedIs
  <2> HIDE DEF a, b
  <2>4. QED
    BY <1>1, <2>2, <2>3 DEF Unwritten, a, b
<1>3. CASE Tracked(e)
  <2>1. a = PlanTracked(p, e, c, v, f) /\ b = PlanTracked(p, e, c, v, FALSE)
    BY <1>3 DEF PlanGenerated
  <2>2. /\ c = Absent => a = IF f THEN "create" ELSE "skip"
        /\ c = e.hash => a = IF Mergeable(Strategy[p]) THEN "merge" ELSE "regenerate"
        /\ c \notin {Absent, e.hash} => a = PlanModified(p, c, v, f)
    BY <1>3, <2>1, PlanTrackedIs
  <2>3. /\ c = Absent => b = "skip"
        /\ c \notin {Absent, e.hash} => b = PlanModified(p, c, v, FALSE)
    <3>1. PICK g \in BOOLEAN : g = FALSE
      BY <1>1
    <3>2. /\ c = Absent => PlanTracked(p, e, c, v, g) = IF g THEN "create" ELSE "skip"
          /\ c \notin {Absent, e.hash} =>
               PlanTracked(p, e, c, v, g) = PlanModified(p, c, v, g)
      BY <1>3, PlanTrackedIs
    <3>3. QED
      BY <2>1, <3>1, <3>2
  <2>4. LET m == PlanModified(p, c, v, f)
        IN  /\ m \in {"regenerate", "merge"} \cup Unwritten
            /\ c = Gen(v) => m = "regenerate"
            /\ f /\ m \in Unwritten => Strategy[p] = "skip"
            /\ m \in Unwritten => PlanModified(p, c, v, FALSE) \in Unwritten
    BY PlanModifiedIs
  <2>5. e.hash # Absent
    BY <1>3 DEF Tracked
  <2> HIDE DEF a, b
  <2>6. QED
    BY <1>1, <2>2, <2>3, <2>4, <2>5 DEF Unwritten, a, b
<1>4. QED
  BY <1>2, <1>3

\* The plan of a file, from the drafts of its own and of its partner.
LEMMA PlanIs ==
  ASSUME NEW st, NEW d, NEW v \in Versions, NEW f \in BOOLEAN,
         NEW gen \in SUBSET Paths, NEW en, NEW p \in Paths
  PROVE  LET pl    == UpdatePlanOf(st, d, v, f, gen, en)
             own   == PlanGenerated(p, st[p], d[p], v, f)
             other == PlanGenerated(HeldWith[p], st[HeldWith[p]], d[HeldWith[p]], v, f)
             held  == /\ HeldWith[p] \in gen /\ WritesInPlace(own)
                      /\ d[p] # Absent /\ ~WritesInPlace(other)
         IN  /\ p \in gen => pl[p] = IF held THEN "hold" ELSE own
             /\ p \notin gen =>
                  pl[p] = IF Tracked(st[p]) /\ OwnsOrphan(st[p], gen, en)
                          THEN PlanOrphan(p, st[p], d[p]) ELSE "none"
<1> DEFINE draft == [q \in Paths |->
                       IF q \in gen THEN PlanGenerated(q, st[q], d[q], v, f)
                       ELSE "none"]
<1>1. p \in gen => UpdatePlanOf(st, d, v, f, gen, en)[p] = HoldPaired(p, draft, gen, d)
  BY DEF UpdatePlanOf
<1>2. \A q \in gen : draft[q] = PlanGenerated(q, st[q], d[q], v, f)
  OBVIOUS
<1>3. p \notin gen =>
        UpdatePlanOf(st, d, v, f, gen, en)[p]
          = IF Tracked(st[p]) /\ OwnsOrphan(st[p], gen, en)
            THEN PlanOrphan(p, st[p], d[p]) ELSE "none"
  BY DEF UpdatePlanOf
<1> HIDE DEF draft
<1>4. QED
  BY <1>1, <1>2, <1>3 DEF HoldPaired

-----------------------------------------------------------------------------
(* One file's step. *)

LEMMA GeneratedPaths == TypeOK => Generated \subseteq Paths
  BY LifecycleAssumption DEF TypeOK, Generated

\* A partner is a generated manual-merge file of its own, decided before p.
LEMMA PartnerIs ==
  ASSUME TypeOK, NEW p \in Paths, HeldWith[p] \in Generated
  PROVE  /\ HeldWith[p] \in Paths /\ HeldWith[p] # p
         /\ HeldWith[p] # NoPath /\ HeldWith[HeldWith[p]] = NoPath
         /\ NoPath \notin Generated
         /\ Strategy[HeldWith[p]] = "manualMerge"
         /\ Rank[HeldWith[p]] < Rank[p]
<1>1. Generated \subseteq Paths
  BY GeneratedPaths
<1>2. HeldWith[p] # NoPath /\ NoPath \notin Generated
  BY <1>1, LedgerAssumption
<1>3. /\ HeldWith[HeldWith[p]] = NoPath
      /\ Strategy[HeldWith[p]] = "manualMerge" /\ Rank[HeldWith[p]] < Rank[p]
  BY <1>2, LedgerAssumption, PairAssumption
<1>4. QED
  BY <1>1, <1>2, <1>3

\* What became of p in its step.
Wrote(p) ==
    /\ Tracked(out'[p]) /\ disk'[p] = out'[p].hash
    /\ Current(p, out'[p].hash, version)
    /\ Strategy[p] = "threeWay" =>
         /\ out'[p].base = Gen(version)
         /\ p \notin adrift' => Sections[version] \subseteq SectionsOf(out'[p].hash)
    /\ op = "update" =>
         out'[p].hash.gen = version \/ (plan[p] = "merge" /\ Strategy[p] = "threeWay")
    /\ ~Mergeable(Strategy[p]) => out'[p].hash = Gen(version)
    /\ p \in Generated /\ (op = "update" => WritesInPlace(plan[p]))
    /\ touched' = touched \ {p} /\ todo' = todo \ {p}
    /\ adrift' \in {adrift, adrift \ {p}}
    /\ UNCHANGED <<failed, dropped>>

Dropped(p) ==
    /\ op = "update" /\ plan[p] \in {"remove", "untrack"}
    /\ dropped' = dropped \cup {p} /\ todo' = todo \ {p}
    /\ UNCHANGED <<out, touched, adrift, failed>>

FailedOn(p) ==
    /\ failed' = failed \cup {p} /\ todo' \in {todo \ {p}, {}}
    /\ UNCHANGED <<disk, out, touched, adrift, dropped>>

LeftOut(p) ==
    /\ IF op = "update"
       THEN plan[p] \in Unwritten \cup {"hold"} \/ SkipsExisting(p)
       ELSE Decision(p) \in {"keep", "sidecar"}
    /\ todo' = todo \ {p}
    /\ UNCHANGED <<disk, out, touched, adrift, failed, dropped>>

LEMMA StepFrame ==
  ASSUME TypeOK, NEW p \in Paths, FileStep(p)
  PROVE  /\ pc = "write" /\ p \in todo /\ op \in {"create", "join", "update"}
         /\ \A q \in todo \ {p} : ~Before(q, p)
         /\ UNCHANGED <<state, manifest, version, profile, op, force, pc, plan,
                        fresh, torn, settled>>
         /\ Generated' = Generated
<1>1. pc = "write" /\ p \in todo /\ \A q \in todo \ {p} : ~Before(q, p)
  BY DEF FileStep, InitWrite, InitMerge, InitMergeFails, InitKeep, InitSidecar,
         InitFails, InitWriteError, UpdateWrite, UpdateMerge, UpdateFails,
         UpdateSidecar, UpdateRemove, UpdateRemoveFails, UpdateUntrack,
         UpdateSkip, UpdateStops, Turn
<1>2. op \in {"create", "join", "update"}
  BY DEF FileStep, InitWrite, InitMerge, InitMergeFails, InitKeep, InitSidecar,
         InitFails, InitWriteError, UpdateWrite, UpdateMerge, UpdateFails,
         UpdateSidecar, UpdateRemove, UpdateRemoveFails, UpdateUntrack,
         UpdateSkip, UpdateStops, Initializing
<1>3. FileStepUnchanged
  BY DEF FileStep, InitWrite, InitMerge, InitMergeFails, InitKeep, InitSidecar,
         InitFails, InitWriteError, UpdateWrite, UpdateMerge, UpdateFails,
         UpdateSidecar, UpdateRemove, UpdateRemoveFails, UpdateUntrack,
         UpdateSkip, UpdateStops
<1>4. QED
  BY <1>1, <1>2, <1>3 DEF FileStepUnchanged, ledgerVars, Generated

\* A file is written with this release's output, or the merge of it.
LEMMA WriteIs ==
  ASSUME TypeOK, NEW p \in Paths, NEW c, NEW o, WriteInPlace(p, c, o)
  PROVE  /\ out'[p].hash = c /\ disk'[p] = c
         /\ \A q \in Paths \ {p} : disk'[q] = disk[q] /\ out'[q] = out[q]
         /\ touched' = touched \ {p} /\ UNCHANGED <<failed, dropped>>
         /\ c.gen \in Versions => Tracked(out'[p])
         /\ Strategy[p] = "threeWay" => out'[p].base = Gen(version)
<1>1. 0 \notin Versions
  BY LedgerAssumption DEF Versions
<1>2. out'[p] = RecordFile(p, c, Gen(version), o) /\ disk'[p] = c
  BY DEF WriteInPlace, TypeOK
<1>3. out'[p].hash = c /\ (Strategy[p] = "threeWay" => out'[p].base = Gen(version))
  BY <1>2 DEF RecordFile
<1>4. c.gen \in Versions => c # Absent
  BY <1>1 DEF Absent
<1>5. QED
  BY <1>2, <1>3, <1>4 DEF WriteInPlace, TypeOK, Tracked

\* Content of this release, written where it belongs, is what Wrote says.
LEMMA WroteIs ==
  ASSUME TypeOK, NEW p \in Generated, NEW c, NEW o, WriteInPlace(p, c, o), Turn(p),
         Current(p, c, version), ~Mergeable(Strategy[p]) => c = Gen(version),
         Strategy[p] = "threeWay" /\ p \notin adrift' =>
           Sections[version] \subseteq SectionsOf(c),
         op = "update" => /\ WritesInPlace(plan[p])
                          /\ c.gen = version \/ plan[p] = "merge",
         adrift' \in {adrift, adrift \ {p}}
  PROVE  /\ Wrote(p)
         /\ \A q \in Paths \ {p} : disk'[q] = disk[q] /\ out'[q] = out[q]
<1>1. p \in Paths /\ version \in Versions
  BY GeneratedPaths, ReleaseIsVersion
<1>2. c.gen \in Versions /\ (c.gen = version \/ Strategy[p] = "threeWay")
  BY <1>1 DEF Current
<1>3. /\ out'[p].hash = c /\ disk'[p] = c /\ Tracked(out'[p])
      /\ \A q \in Paths \ {p} : disk'[q] = disk[q] /\ out'[q] = out[q]
      /\ touched' = touched \ {p} /\ UNCHANGED <<failed, dropped>>
      /\ Strategy[p] = "threeWay" => out'[p].base = Gen(version)
  BY <1>1, <1>2, WriteIs
<1>4. todo' = todo \ {p}
  BY DEF Turn
<1>5. Wrote(p)
  <2>1. Current(p, out'[p].hash, version) /\ (~Mergeable(Strategy[p]) => out'[p].hash = Gen(version))
    BY <1>3
  <2>2. Strategy[p] = "threeWay" =>
         /\ out'[p].base = Gen(version)
         /\ p \notin adrift' => Sections[version] \subseteq SectionsOf(out'[p].hash)
    BY <1>3
  <2>3. op = "update" =>
          out'[p].hash.gen = version \/ (plan[p] = "merge" /\ Strategy[p] = "threeWay")
    BY <1>2, <1>3
  <2>4. QED
    BY <1>3, <1>4, <2>1, <2>2, <2>3 DEF Wrote
<1>6. QED
  BY <1>3, <1>5

LEMMA StepOutcome ==
  ASSUME TypeOK, PlanFits, Control, PlanKept, EntriesFit, NEW p \in Paths, FileStep(p)
  PROVE  /\ Wrote(p) \/ Dropped(p) \/ FailedOn(p) \/ LeftOut(p)
         /\ \A q \in Paths \ {p} : disk'[q] = disk[q] /\ out'[q] = out[q]
<1>1. pc = "write" /\ p \in todo /\ Gen(version).gen = version
  BY StepFrame DEF Gen
<1>2. Initializing => p \in Generated /\ op # "update"
  BY <1>1 DEF Control, Initializing
<1>3. op = "update" /\ WritesInPlace(plan[p]) => p \in Generated
  BY DEF PlanKept, WritesInPlace
<1>17. /\ version \in Versions /\ Absent \in Content /\ SectionsOf(Absent) = {}
       /\ disk[p] \in Content /\ state[p].base \in Content
  BY ReleaseIsVersion, ContentTypes, SectionsOfGen DEF TypeOK, Entry
<1>18. /\ Current(p, Gen(version), version)
       /\ Sections[version] \subseteq SectionsOf(Gen(version))
  BY <1>17, GenIsCurrent
<1>19. \A b \in Content :
         /\ Current(p, MergeContent(p, b, disk[p], version), version)
         /\ Strategy[p] = "threeWay" /\ SectionsOf(b) \subseteq SectionsOf(disk[p]) =>
              Sections[version] \subseteq SectionsOf(MergeContent(p, b, disk[p], version))
  BY <1>17, MergeIs
<1>4. CASE InitWrite(p)
  BY <1>2, <1>4, <1>18, WroteIs DEF InitWrite
<1>5. CASE InitMerge(p)
  <2>1. Mergeable(Strategy[p])
    BY <1>5 DEF InitMerge, Decision, InitDecision
  <2> DEFINE c == MergeContent(p, Absent, disk[p], version)
  <2>2. /\ Current(p, c, version)
        /\ Strategy[p] = "threeWay" => Sections[version] \subseteq SectionsOf(c)
    BY <1>17, <1>19
  <2>3. WriteInPlace(p, c, Owner[p]) /\ Turn(p) /\ Initializing /\ adrift' = adrift \ {p}
    BY <1>5 DEF InitMerge
  <2> HIDE DEF c
  <2>4. QED
    BY <1>2, <2>1, <2>2, <2>3, WroteIs
<1>6. CASE InitMergeFails(p)
  <2>1. CASE force
    BY <1>2, <1>6, <1>18, <2>1, WroteIs DEF InitMergeFails
  <2>2. CASE ~force
    BY <1>6, <2>2 DEF InitMergeFails, Fails, FailedOn, Turn
  <2>3. QED
    BY <2>1, <2>2
<1>7. CASE InitKeep(p) \/ InitSidecar(p)
  BY <1>2, <1>7 DEF InitKeep, InitSidecar, LeftOut, LeaveAlone, Turn
<1>8. CASE InitFails(p) \/ InitWriteError(p)
  BY <1>8 DEF InitFails, InitWriteError, Fails, FailedOn, Turn
<1>9. CASE UpdateWrite(p)
  <2>1. op = "update" /\ WritesInPlace(plan[p])
    BY <1>9 DEF UpdateWrite, WritesInPlace
  <2>2. WriteInPlace(p, Gen(version), NoTool) /\ Turn(p) /\ adrift' = adrift \ {p}
    BY <1>9 DEF UpdateWrite
  <2>3. QED
    BY <1>1, <1>3, <1>18, <2>1, <2>2, WroteIs
<1>10. CASE UpdateMerge(p)
  <2>1. op = "update" /\ plan[p] = "merge" /\ WritesInPlace(plan[p]) /\ Mergeable(Strategy[p])
    BY <1>1, <1>10 DEF UpdateMerge, WritesInPlace, PlanFits
  <2> DEFINE b == state[p].base
             c == MergeContent(p, b, disk[p], version)
  <2>2. ASSUME Strategy[p] = "threeWay", p \notin adrift'
        PROVE  SectionsOf(b) \subseteq SectionsOf(disk[p])
    <3>1. CASE ~Tracked(state[p])
      BY <1>17, <3>1 DEF EntriesFit
    <3>2. CASE Tracked(state[p])
      BY <1>1, <1>10, <2>2, <3>2 DEF UpdateMerge, EntriesFit
    <3>3. QED
      BY <3>1, <3>2
  <2>3. /\ Current(p, c, version)
        /\ Strategy[p] = "threeWay" /\ p \notin adrift' =>
             Sections[version] \subseteq SectionsOf(c)
    BY <1>17, <1>19, <2>2
  <2>4. WriteInPlace(p, c, NoTool) /\ Turn(p) /\ adrift' \in {adrift, adrift \ {p}}
    BY <1>10 DEF UpdateMerge
  <2> HIDE DEF b, c
  <2>5. QED
    BY <1>3, <2>1, <2>3, <2>4, WroteIs
<1>11. CASE UpdateFails(p) \/ UpdateRemoveFails(p)
  BY <1>11 DEF UpdateFails, UpdateRemoveFails, Fails, FailedOn, Turn
<1>12. CASE UpdateStops(p)
  BY <1>12 DEF UpdateStops, Fails, FailedOn
<1>13. CASE UpdateSidecar(p) \/ UpdateSkip(p)
  BY <1>13 DEF UpdateSidecar, UpdateSkip, LeftOut, LeaveAlone, Turn, Unwritten
<1>14. CASE UpdateRemove(p)
  BY <1>14 DEF UpdateRemove, Dropped, Turn, TypeOK
<1>15. CASE UpdateUntrack(p)
  BY <1>15 DEF UpdateUntrack, Dropped, Turn, fileVars
<1>16. QED
  BY <1>4, <1>5, <1>6, <1>7, <1>8, <1>9, <1>10, <1>11, <1>12, <1>13, <1>14,
     <1>15 DEF FileStep

\* Init leaves alone only files that are neither missing nor current, and a
\* merging one only because it waits for its partner.
LEMMA LeftByInit ==
  ASSUME TypeOK, NEW p \in Paths, Decision(p) \in {"keep", "sidecar"}
  PROVE  /\ disk[p] \notin {Absent, Gen(version)}
         /\ Mergeable(Strategy[p]) => PartnerHeld(p, Generated, Written)
<1> DEFINE held == PartnerHeld(p, Generated, Written)
           s    == Strategy[p]
<1>1. Gen(version) # Absent
  BY ContentTypes, ReleaseIsVersion
<1>2. disk[p] # Absent
  BY DEF Decision, InitDecision
<1>3. CASE held
  BY <1>2, <1>3 DEF Decision, InitDecision
<1>4. CASE ~held /\ s = "skip"
  BY <1>2, <1>4 DEF Decision, InitDecision, Mergeable
<1>5. CASE ~held /\ s = "manualMerge"
  BY <1>2, <1>5 DEF Decision, InitDecision, Mergeable
<1>6. CASE ~held /\ s \notin {"skip", "manualMerge"}
  BY <1>2, <1>6 DEF Decision, InitDecision, Mergeable
<1>7. QED
  BY <1>3, <1>4, <1>5, <1>6

\* A file's step keeps OutInv.
LEMMA FileStepKeeps ==
  ASSUME IInv, OutInv, NEW p \in Paths, FileStep(p)
  PROVE  OutInv'
<1>1. /\ TypeOK /\ PlanFits /\ LedgerClean /\ Control /\ OutFits /\ RecordFits
      /\ PlanKept /\ UpdateDone /\ InitDone /\ EntriesFit /\ SavedFits /\ SettledFits
  BY DEF IInv, OutInv
<1>2. /\ pc = "write" /\ p \in todo /\ op \in {"create", "join", "update"}
      /\ \A q \in todo \ {p} : ~Before(q, p)
      /\ UNCHANGED <<state, manifest, version, profile, op, force, pc, plan,
                     fresh, torn, settled>>
      /\ Generated' = Generated
  BY <1>1, StepFrame
<1>3. /\ Wrote(p) \/ Dropped(p) \/ FailedOn(p) \/ LeftOut(p)
      /\ \A q \in Paths \ {p} : disk'[q] = disk[q] /\ out'[q] = out[q]
  BY <1>1, StepOutcome
<1>4. Generated \subseteq Paths /\ todo \subseteq Paths
  BY <1>1, GeneratedPaths DEF TypeOK
<1>5. todo' \subseteq todo \ {p}
  BY <1>3 DEF Wrote, Dropped, FailedOn, LeftOut
<1>6. Dropped(p) => p \notin Generated /\ ~Tracked(out[p])
  BY <1>1, <1>2 DEF Dropped, PlanKept, Unwritten, OutFits
<1>7. Control'
  BY <1>1, <1>2, <1>5 DEF Control, Initializing
<1>8. OutFits'
  <2>1. SUFFICES ASSUME NEW q \in Paths, Tracked(out'[q])
        PROVE  /\ q \in Generated /\ Current(q, out'[q].hash, version)
               /\ Strategy[q] = "threeWay" => out'[q].base = Gen(version)
               /\ op = "update" => \/ out'[q].hash.gen = version
                                  \/ (plan[q] = "merge" /\ Strategy[q] = "threeWay")
               /\ ~Mergeable(Strategy[q]) => out'[q].hash = Gen(version)
               /\ q \notin fresh \/ q \notin touched' => disk'[q] = out'[q].hash
    BY <1>2 DEF OutFits, Current
  <2>2. CASE q # p
    <3>1. out'[q] = out[q] /\ disk'[q] = disk[q] /\ (q \in touched' <=> q \in touched)
      BY <1>3, <2>2 DEF Wrote, Dropped, FailedOn, LeftOut
    <3>2. QED
      BY <1>1, <2>1, <3>1 DEF OutFits
  <2>3. CASE q = p /\ Wrote(p)
    BY <2>3 DEF Wrote
  <2>4. CASE q = p /\ Dropped(p)
    BY <1>6, <2>1, <2>4 DEF Dropped
  <2>5. CASE q = p /\ (FailedOn(p) \/ LeftOut(p))
    BY <1>1, <2>1, <2>5 DEF FailedOn, LeftOut, OutFits
  <2>6. QED
    BY <1>3, <2>2, <2>3, <2>4, <2>5
<1>9. RecordFits'
  <2>1. SUFFICES ASSUME NEW q \in Paths, q \notin touched'
        PROVE  /\ q \notin torn \cup Outcome'
                    => (Tracked(state[q]) => disk'[q] = state[q].hash)
               /\ q \notin torn \cup Outcome'
                    => (manifest[q] # Absent => disk'[q] = manifest[q])
    BY <1>2 DEF RecordFits
  <2>2. CASE q = p /\ (Wrote(p) \/ Dropped(p))
    BY <2>2 DEF Wrote, Dropped, Outcome, Written
  <2>3. CASE ~(q = p /\ (Wrote(p) \/ Dropped(p)))
    <3>1. disk'[q] = disk[q] /\ out'[q] = out[q] /\ q \notin touched
          /\ (q \in dropped' <=> q \in dropped)
      BY <1>3, <2>1, <2>3 DEF Wrote, Dropped, FailedOn, LeftOut
    <3>2. q \in Outcome' <=> q \in Outcome
      BY <3>1 DEF Outcome, Written
    <3>3. QED
      BY <1>1, <1>2, <3>1, <3>2 DEF RecordFits
  <2>4. QED
    BY <2>2, <2>3
<1>10. PlanKept'
  <2>1. SUFFICES ASSUME op = "update" PROVE PlanKept'
    BY <1>2 DEF PlanKept
  <2>2. \A q \in Generated : q \notin dropped'
    BY <1>1, <1>3, <1>6, <2>1 DEF PlanKept, Wrote, Dropped, FailedOn, LeftOut
  <2>3. \A q \in Generated : Tracked(out'[q]) => WritesInPlace(plan[q])
    <3>1. SUFFICES ASSUME NEW q \in Generated, Tracked(out'[q])
          PROVE  WritesInPlace(plan[q])
      OBVIOUS
    <3>2. CASE q # p
      BY <1>1, <1>3, <1>4, <2>1, <3>1, <3>2 DEF PlanKept
    <3>3. CASE q = p
      BY <1>1, <1>3, <2>1, <3>1, <3>3
      DEF PlanKept, Wrote, Dropped, FailedOn, LeftOut
    <3>4. QED
      BY <3>2, <3>3
  <2>4. ASSUME NEW q \in Generated \ fresh, plan[q] \in Unwritten \cup {"hold"}
        PROVE  disk'[q] = disk[q]
    <3>1. CASE q # p
      BY <1>3, <1>4, <3>1
    <3>2. CASE q = p
      <4>1. ~WritesInPlace(plan[p])
        BY <2>4, <3>2 DEF Unwritten, WritesInPlace
      <4>2. ~Wrote(p) /\ ~Dropped(p)
        BY <1>6, <2>1, <3>2, <4>1 DEF Wrote
      <4>3. QED
        BY <1>3, <3>2, <4>2 DEF FailedOn, LeftOut
    <3>3. QED
      BY <3>1, <3>2
  <2>5. ASSUME NEW q \in Generated \ fresh, plan[q] \in Unwritten
        PROVE  /\ Passive(q)'
               /\ force => Strategy[q] = "skip" /\ disk'[q] # Absent
    BY <1>1, <1>2, <2>1, <2>4, <2>5 DEF PlanKept, Passive, Draft
  <2>6. ASSUME NEW q \in Generated \ fresh, plan[q] = "hold"
        PROVE  disk'[q] # Absent
    BY <1>1, <1>2, <2>1, <2>4, <2>6 DEF PlanKept
  <2>7. QED
    BY <1>1, <1>2, <2>1, <2>2, <2>3, <2>5, <2>6 DEF PlanKept
<1>11. UpdateDone'
  <2>1. SUFFICES ASSUME op = "update" PROVE UpdateDone'
    BY <1>2 DEF UpdateDone
  <2>2. ASSUME todo' # {} \/ failed' = {},
               NEW q \in Generated \ (todo' \cup fresh \cup failed'),
               WritesInPlace(plan[q])
        PROVE  Tracked(out'[q])
    <3>1. todo' = todo \ {p}
      BY <1>3, <2>2 DEF Wrote, Dropped, FailedOn, LeftOut
    <3>2. CASE q # p
      <4>1. q \notin todo /\ q \notin failed /\ todo # {}
        BY <1>2, <1>3, <2>2, <3>1, <3>2 DEF Wrote, Dropped, FailedOn, LeftOut
      <4>2. Tracked(out[q])
        BY <1>1, <1>2, <2>1, <2>2, <4>1 DEF UpdateDone
      <4>3. QED
        BY <1>3, <1>4, <3>2, <4>2
    <3>3. CASE q = p
      <4>1. ~FailedOn(p) /\ ~Dropped(p)
        BY <1>6, <2>2, <3>3 DEF FailedOn
      <4>2. plan[p] = "create" => disk[p] = Absent
        BY <1>1, <1>2, <2>1, <2>2, <3>3 DEF PlanFits, ActionFits
      <4>3. ~LeftOut(p)
        BY <2>1, <2>2, <3>3, <4>2 DEF LeftOut, Unwritten, WritesInPlace, SkipsExisting
      <4>4. QED
        BY <1>3, <3>3, <4>1, <4>3 DEF Wrote
    <3>4. QED
      BY <3>2, <3>3
  <2>3. ASSUME failed' = {}, NEW q \in Paths \ Generated,
               Tracked(state[q]), OwnsOrphan(state[q], Generated, profile.enabled)
        PROVE  q \in todo' \cup dropped'
    <3>1. /\ failed = {} /\ todo' = todo \ {p} /\ dropped \subseteq dropped'
          /\ ~FailedOn(p)
      BY <1>3, <2>3 DEF Wrote, Dropped, FailedOn, LeftOut
    <3>2. q \in todo \cup dropped
      BY <1>1, <1>2, <2>1, <2>3, <3>1 DEF UpdateDone
    <3>3. CASE q # p
      BY <3>1, <3>2, <3>3
    <3>4. CASE q = p
      <4>1. plan[p] \in {"none", "remove", "untrack"}
        BY <1>1, <2>1, <2>3, <3>4 DEF PlanKept
      <4>2. ~Wrote(p) /\ ~LeftOut(p)
        BY <2>1, <2>3, <3>4, <4>1 DEF Wrote, LeftOut, SkipsExisting, Unwritten
      <4>3. QED
        BY <1>3, <3>1, <3>4, <4>2 DEF Dropped
    <3>5. QED
      BY <3>3, <3>4
  <2>4. QED
    BY <1>2, <2>2, <2>3 DEF UpdateDone
<1>12. InitDone'
  <2>1. SUFFICES ASSUME Initializing, failed' = {}, NEW q \in Generated \ (todo' \cup fresh)
        PROVE  \/ Tracked(out'[q])
               \/ /\ disk'[q] \notin {Absent, Gen(version)}
                  /\ Mergeable(Strategy[q]) =>
                       /\ HeldWith[q] \in Generated \ todo'
                       /\ ~Tracked(out'[HeldWith[q]])
    BY <1>2 DEF InitDone, Initializing
  <2>2. /\ ~FailedOn(p) /\ ~Dropped(p) /\ failed = {} /\ todo' = todo \ {p}
        /\ op # "update"
    BY <1>3, <2>1 DEF Wrote, Dropped, FailedOn, LeftOut, Initializing
  <2>3. \A h \in Generated \ todo : out'[h] = out[h] /\ h \notin todo'
    BY <1>2, <1>3, <1>4, <1>5
  <2>4. CASE q # p
    <3>1. q \notin todo /\ out'[q] = out[q] /\ disk'[q] = disk[q]
      BY <1>3, <1>4, <2>1, <2>2, <2>4
    <3>2. \/ Tracked(out[q])
          \/ /\ disk[q] \notin {Absent, Gen(version)}
             /\ Mergeable(Strategy[q]) =>
                  HeldWith[q] \in Generated \ todo /\ ~Tracked(out[HeldWith[q]])
      BY <1>1, <1>2, <2>1, <2>2, <3>1 DEF InitDone
    <3>3. QED
      BY <2>3, <3>1, <3>2
  <2>5. CASE q = p /\ Wrote(p)
    BY <2>5 DEF Wrote
  <2>6. CASE q = p /\ LeftOut(p)
    <3>1. Decision(p) \in {"keep", "sidecar"} /\ disk' = disk
      BY <2>2, <2>6 DEF LeftOut
    <3>2. /\ disk[p] \notin {Absent, Gen(version)}
          /\ Mergeable(Strategy[p]) => PartnerHeld(p, Generated, Written)
      BY <1>1, <3>1, LeftByInit
    <3>3. ASSUME Mergeable(Strategy[p])
          PROVE  HeldWith[p] \in Generated \ todo /\ ~Tracked(out[HeldWith[p]])
      <4>1. HeldWith[p] \in Generated /\ HeldWith[p] \notin Written
        BY <3>2, <3>3 DEF PartnerHeld
      <4>2. /\ HeldWith[p] \in Paths /\ HeldWith[p] # p /\ HeldWith[p] # NoPath
            /\ HeldWith[HeldWith[p]] = NoPath
        BY <1>1, <4>1, PartnerIs
      <4>3. Before(HeldWith[p], p)
        BY <2>2, <4>2 DEF Before, Late
      <4>4. QED
        BY <1>2, <4>1, <4>2, <4>3 DEF Written
    <3>4. QED
      BY <2>3, <2>6, <3>1, <3>2, <3>3
  <2>7. QED
    BY <1>3, <2>2, <2>4, <2>5, <2>6
<1>13. SavedFits'
  BY <1>2 DEF SavedFits
<1>14. SettledFits'
  <2>1. SUFFICES ASSUME op = "update", ~force, settled, NEW q \in todo'
        PROVE  plan[q] # "remove" /\ Rewritten(q, plan[q])'
    BY <1>2 DEF SettledFits
  <2>2. q \in todo /\ q \in Paths /\ disk'[q] = disk[q]
    BY <1>3, <1>4, <1>5, <2>1
  <2>3. plan[q] # "remove" /\ Rewritten(q, plan[q])
    BY <1>1, <1>2, <2>1, <2>2 DEF SettledFits
  <2>4. QED
    BY <1>2, <2>2, <2>3 DEF Rewritten
<1>15. EntriesFit'
  <2>1. todo' \cap Outcome' = {}
    <3>1. Outcome' \subseteq Outcome \cup {p}
      BY <1>3 DEF Outcome, Written, Wrote, Dropped, FailedOn, LeftOut
    <3>2. QED
      BY <1>1, <1>2, <1>5, <3>1 DEF EntriesFit
  <2>2. SUFFICES ASSUME NEW q \in Paths \ adrift', Strategy[q] = "threeWay"
        PROVE  /\ Tracked(out'[q]) =>
                    /\ disk'[q] = out'[q].hash
                    /\ Sections[version] \subseteq SectionsOf(disk'[q])
               /\ q \notin Outcome' /\ Tracked(state[q]) =>
                    /\ disk'[q] = state[q].hash
                    /\ SectionsOf(state[q].base) \subseteq SectionsOf(disk'[q])
    BY <1>1, <1>2, <2>1 DEF EntriesFit
  <2>3. CASE q = p /\ (Wrote(p) \/ Dropped(p))
    BY <1>6, <2>2, <2>3 DEF Wrote, Dropped, Outcome, Written, OutFits
  <2>4. CASE ~(q = p /\ (Wrote(p) \/ Dropped(p)))
    <3>1. disk'[q] = disk[q] /\ out'[q] = out[q] /\ q \notin adrift
          /\ (q \in dropped' <=> q \in dropped)
      BY <1>3, <2>2, <2>4 DEF Wrote, Dropped, FailedOn, LeftOut
    <3>2. q \in Outcome' <=> q \in Outcome
      BY <3>1 DEF Outcome, Written
    <3>3. QED
      BY <1>1, <1>2, <2>2, <3>1, <3>2 DEF EntriesFit
  <2>5. QED
    BY <2>3, <2>4
<1>16. QED
  BY <1>7, <1>8, <1>9, <1>10, <1>11, <1>12, <1>13, <1>14, <1>15 DEF OutInv

-----------------------------------------------------------------------------
(* Saving. *)

LEMMA PassiveIs ==
  ASSUME TypeOK, NEW p \in Paths
  PROVE  /\ Passive(p) <=> Draft(p) \in Unwritten
         /\ Passive(p) => disk[p] # Gen(version) /\ Rewritten(p, Draft(p))
<1>1. version \in Versions /\ FALSE \in BOOLEAN
  BY ReleaseIsVersion
<1>2. /\ Draft(p) \in {"create", "regenerate", "merge"} \cup Unwritten
      /\ Draft(p) \in Unwritten => disk[p] # Gen(version)
  BY <1>1, DraftIs DEF Draft
<1>3. QED
  BY <1>2 DEF Passive, WritesInPlace, Unwritten, Rewritten

\* A file saved as written is rewritten with what it holds.
LEMMA WrittenIsSteady ==
  ASSUME NEW p \in Paths, NEW e \in Entry, NEW c \in Content, NEW v \in Versions,
         Tracked(e), c = e.hash, e.base.edit = 0, Current(p, c, v),
         Strategy[p] = "threeWay" => e.base = Gen(v),
         ~Mergeable(Strategy[p]) => c = Gen(v)
  PROVE  LET a == PlanGenerated(p, e, c, v, FALSE)
         IN  /\ a # "create"
             /\ a = "regenerate" => c = Gen(v)
             /\ a = "merge" => MergeContent(p, e.base, c, v) = c
<1>1. PICK f \in BOOLEAN : f = FALSE
  OBVIOUS
<1>2. PlanTracked(p, e, c, v, f)
        = IF Mergeable(Strategy[p]) THEN "merge" ELSE "regenerate"
  BY PlanTrackedIs
<1>3. PlanGenerated(p, e, c, v, FALSE)
        = IF Mergeable(Strategy[p]) THEN "merge" ELSE "regenerate"
  BY <1>1, <1>2 DEF PlanGenerated
<1>4. MergeContent(p, e.base, c, v) = c
  BY MergeAgain DEF Entry
<1>5. QED
  BY <1>3, <1>4

\* A file left without an entry, present and not current, is not touched
\* without --force unless it merges.
LEMMA ForgottenIsPassive ==
  ASSUME NEW p \in Paths, NEW c, NEW v \in Versions,
         c \notin {Absent, Gen(v)}, ~Mergeable(Strategy[p])
  PROVE  PlanGenerated(p, Untracked, c, v, FALSE) = "skip"
<1>1. PICK f \in BOOLEAN : f = FALSE
  OBVIOUS
<1>2. PlanUntracked(p, c, v, f) = "skip"
  BY <1>1, PlanUntrackedIs
<1>3. ~Tracked(Untracked)
  BY DEF Tracked, Untracked
<1>4. QED
  BY <1>1, <1>2, <1>3 DEF PlanGenerated

\* What the save makes of a command that failed on nothing.
LEMMA SavedIsSteady ==
  ASSUME IInv, OutInv, SaveState, failed = {}, fresh = {}
  PROVE  /\ Steady' /\ (op = "update" => \A p \in Generated : Converged(p)')
         /\ \A p \in Generated \ adrift :
              Strategy[p] = "threeWay" => Sections[version] \subseteq SectionsOf(disk[p])
<1>1. /\ TypeOK /\ LedgerClean /\ Control /\ OutFits /\ PlanKept /\ UpdateDone /\ InitDone
      /\ EntriesFit
  BY DEF IInv, OutInv
<1>2. /\ pc = "write" /\ todo = {} /\ state' = [p \in Paths |-> SavedEntry(p)]
      /\ UNCHANGED <<disk, version, profile, op, force, plan, out, adrift>>
      /\ Generated' = Generated
  BY DEF SaveState, fileVars, envVars, histVars, Generated
<1>3. Generated \subseteq Paths /\ version \in Versions
  BY <1>1, GeneratedPaths, ReleaseIsVersion
<1>4. op = "update" \/ Initializing
  BY <1>1, <1>2 DEF TypeOK, Ops, Control, Initializing
<1>5. \A p \in Paths : Tracked(out[p]) => state'[p] = out[p]
  BY <1>2 DEF SavedEntry
<1>6. \A p \in Generated : op = "update" /\ ~Tracked(out[p]) => state'[p] = state[p]
  BY <1>1, <1>2, <1>3 DEF SavedEntry, PlanKept
<1>7. \A p \in Paths : Initializing /\ ~Tracked(out[p]) => state'[p] = Untracked
  BY <1>2 DEF SavedEntry, Initializing
<1>8. ASSUME NEW p \in Generated, Tracked(out[p])
      PROVE  Rewritten(p, Draft(p))' /\ (op = "update" => Converged(p)')
  <2>1. /\ Current(p, disk[p], version) /\ disk[p] = out[p].hash
        /\ Strategy[p] = "threeWay" => out[p].base = Gen(version)
        /\ ~Mergeable(Strategy[p]) => out[p].hash = Gen(version)
    BY <1>1, <1>3, <1>8 DEF OutFits
  <2>6. op = "update" =>
          \/ disk[p].gen = version
          \/ /\ plan[p] = "merge" /\ Strategy[p] = "threeWay"
             /\ p \in adrift \/ Sections[version] \subseteq SectionsOf(disk[p])
    BY <1>1, <1>3, <1>8, <2>1 DEF OutFits, EntriesFit
  <2>2. disk[p] \in Content /\ out[p] \in Entry /\ out[p].base.edit = 0
    BY <1>1, <1>3 DEF TypeOK, LedgerClean, EntryClean
  <2>3. LET a == PlanGenerated(p, out[p], disk[p], version, FALSE)
        IN  /\ a # "create"
            /\ a = "regenerate" => disk[p] = Gen(version)
            /\ a = "merge" => MergeContent(p, out[p].base, disk[p], version) = disk[p]
    BY <1>3, <1>8, <2>1, <2>2, WrittenIsSteady
  <2>4. state'[p] = out[p]
    BY <1>3, <1>5, <1>8
  <2>5. Rewritten(p, Draft(p))'
    BY <1>2, <2>3, <2>4 DEF Rewritten, Draft
  <2>7. op = "update" => Converged(p)'
    BY <1>2, <2>1, <2>4, <2>6 DEF Converged
  <2>8. QED
    BY <2>5, <2>7
<1>9. ASSUME op = "update", NEW p \in Generated, ~Tracked(out[p])
      PROVE  (Rewritten(p, Draft(p))' \/ Waits(p)') /\ Converged(p)'
  <2>1. state'[p] = state[p]
    BY <1>6, <1>9
  <2>2. plan[p] \in Unwritten \cup {"hold"}
    <3>1. ~WritesInPlace(plan[p])
      BY <1>1, <1>2, <1>9 DEF UpdateDone
    <3>2. plan[p] \in {"create", "regenerate", "merge", "hold"} \cup Unwritten
      BY <1>1, <1>3, <1>9 DEF PlanKept
    <3>3. QED
      BY <3>1, <3>2 DEF WritesInPlace
  <2>3. CASE plan[p] \in Unwritten
    <3>1. Passive(p) /\ (force => Strategy[p] = "skip" /\ disk[p] # Absent)
      BY <1>1, <1>2, <1>9, <2>3 DEF PlanKept
    <3>2. Draft(p)' = Draft(p)
      BY <1>2, <2>1 DEF Draft
    <3>3. disk[p] # Gen(version) /\ Draft(p) \in Unwritten
      BY <1>1, <1>3, <3>1, PassiveIs
    <3>4. Rewritten(p, Draft(p))'
      BY <3>2, <3>3 DEF Rewritten, Unwritten
    <3>5. QED
      BY <1>2, <3>1, <3>3, <3>4 DEF Converged
  <2>4. CASE plan[p] = "hold"
    <3>1. /\ disk[p] # Absent /\ HeldWith[p] \in Generated
          /\ plan[HeldWith[p]] \in Unwritten
      BY <1>1, <1>2, <1>3, <1>9, <2>4 DEF PlanKept
    <3>2. /\ Passive(HeldWith[p]) /\ ~Tracked(out[HeldWith[p]])
          /\ force => Strategy[HeldWith[p]] = "skip"
      <4>1. ~WritesInPlace(plan[HeldWith[p]])
        BY <3>1 DEF WritesInPlace, Unwritten
      <4>2. QED
        BY <1>1, <1>2, <1>9, <3>1, <4>1 DEF PlanKept
    <3>3. ~force
      BY <1>1, <1>3, <3>1, <3>2, PartnerIs
    <3>4. state'[HeldWith[p]] = state[HeldWith[p]]
      BY <1>6, <1>9, <3>1, <3>2
    <3>5. Passive(HeldWith[p])'
      BY <1>2, <3>2, <3>4 DEF Passive, Draft
    <3>6. Waits(p)'
      BY <1>2, <3>1, <3>5 DEF Waits
    <3>7. QED
      BY <1>2, <2>4, <3>3, <3>6 DEF Converged
  <2>5. QED
    BY <2>2, <2>3, <2>4
<1>10. ASSUME Initializing, NEW p \in Generated, ~Tracked(out[p])
       PROVE  Rewritten(p, Draft(p))' \/ Waits(p)'
  <2>1. \A q \in Generated : ~Tracked(out[q]) =>
          /\ disk[q] \notin {Absent, Gen(version)}
          /\ Mergeable(Strategy[q]) =>
               HeldWith[q] \in Generated /\ ~Tracked(out[HeldWith[q]])
          /\ state'[q] = Untracked
    BY <1>1, <1>2, <1>3, <1>7, <1>10 DEF InitDone
  <2>2. ASSUME NEW q \in Generated, ~Tracked(out[q]), ~Mergeable(Strategy[q])
        PROVE  Draft(q)' = "skip"
    <3>1. disk[q] \notin {Absent, Gen(version)} /\ state'[q] = Untracked
      BY <2>1, <2>2
    <3>2. PlanGenerated(q, Untracked, disk[q], version, FALSE) = "skip"
      BY <1>3, <2>2, <3>1, ForgottenIsPassive
    <3>3. QED
      BY <1>2, <3>1, <3>2 DEF Draft
  <2>3. CASE ~Mergeable(Strategy[p])
    BY <1>10, <2>2, <2>3 DEF Rewritten
  <2>4. CASE Mergeable(Strategy[p])
    <3>1. /\ HeldWith[p] \in Generated /\ ~Tracked(out[HeldWith[p]])
          /\ disk[p] # Absent
      BY <1>10, <2>1, <2>4
    <3>2. ~Mergeable(Strategy[HeldWith[p]])
      BY <1>1, <1>3, <3>1, PartnerIs DEF Mergeable
    <3>3. Passive(HeldWith[p])'
      BY <2>2, <3>1, <3>2 DEF Passive, WritesInPlace
    <3>4. QED
      BY <1>2, <3>1, <3>3 DEF Waits
  <2>5. QED
    BY <2>3, <2>4
<1>11. ASSUME NEW p \in Paths \ Generated
       PROVE  ~(Tracked(state'[p]) /\ OwnsOrphan(state'[p], Generated, profile.enabled))
  <2>1. ~Tracked(out[p]) /\ ~Tracked(Untracked)
    BY <1>1, <1>11 DEF OutFits, Tracked, Untracked
  <2>2. CASE Initializing
    BY <1>7, <1>11, <2>1, <2>2
  <2>3. CASE op = "update" /\ p \in dropped
    BY <1>2, <1>11, <2>1, <2>3 DEF SavedEntry
  <2>4. CASE op = "update" /\ p \notin dropped
    <3>1. state'[p] = state[p]
      BY <1>2, <1>11, <2>1, <2>4 DEF SavedEntry
    <3>2. QED
      BY <1>1, <1>2, <1>11, <2>4, <3>1 DEF UpdateDone
  <2>5. QED
    BY <1>4, <2>2, <2>3, <2>4
<1>12. Steady'
  BY <1>2, <1>4, <1>8, <1>9, <1>10, <1>11 DEF Steady
<1>13. ASSUME NEW p \in Generated \ adrift, Strategy[p] = "threeWay"
       PROVE  Sections[version] \subseteq SectionsOf(disk[p])
  <2>1. p \in Paths /\ Mergeable(Strategy[p]) /\ HeldWith[p] \notin Generated
    <3>1. HeldWith[p] # NoPath => Strategy[p] # "threeWay"
      BY <1>3, <1>13, PairAssumption
    <3>2. QED
      BY <1>3, <1>13, <3>1, LedgerAssumption DEF Mergeable
  <2>2. CASE Tracked(out[p])
    BY <1>1, <1>13, <2>1, <2>2 DEF EntriesFit
  <2>3. CASE ~Tracked(out[p]) /\ Initializing
    BY <1>1, <1>2, <1>13, <2>1, <2>3 DEF InitDone
  <2>4. ASSUME ~Tracked(out[p]), op = "update" PROVE FALSE
    <3>1. p \notin Outcome
      BY <1>1, <1>13, <2>4 DEF PlanKept, Outcome, Written
    <3>2. plan[p] # "hold" /\ ~WritesInPlace(plan[p])
      BY <1>1, <1>2, <1>13, <2>1, <2>4 DEF PlanKept, UpdateDone
    <3>3. Passive(p)
      <4>1. plan[p] \in {"create", "regenerate", "merge", "hold"} \cup Unwritten
        BY <1>1, <1>13, <2>1, <2>4 DEF PlanKept
      <4>2. plan[p] \in Unwritten
        BY <3>2, <4>1 DEF WritesInPlace
      <4>3. QED
        BY <1>1, <1>2, <1>13, <2>4, <4>2 DEF PlanKept
    <3>4. Tracked(state[p]) => disk[p] = state[p].hash
      BY <1>1, <1>2, <1>13, <2>1, <3>1 DEF EntriesFit
    <3>5. Draft(p) \in Unwritten
      BY <1>1, <2>1, <3>3, PassiveIs
    <3>6. PICK f \in BOOLEAN : f = FALSE
      OBVIOUS
    <3>7. Draft(p) = IF Tracked(state[p]) THEN PlanTracked(p, state[p], disk[p], version, f)
                     ELSE PlanUntracked(p, disk[p], version, f)
      BY <3>6 DEF Draft, PlanGenerated
    <3>8. CASE Tracked(state[p])
      <4>1. PlanTracked(p, state[p], disk[p], version, f) = "merge"
        BY <1>3, <2>1, <3>4, <3>8, PlanTrackedIs
      <4>2. QED
        BY <3>5, <3>7, <3>8, <4>1 DEF Unwritten
    <3>9. CASE ~Tracked(state[p])
      <4>1. PlanUntracked(p, disk[p], version, f) \in {"create", "regenerate", "merge"}
        BY <1>3, <2>1, PlanUntrackedIs
      <4>2. QED
        BY <3>5, <3>7, <3>9, <4>1 DEF Unwritten
    <3>10. QED
      BY <3>8, <3>9
  <2>5. QED
    BY <1>4, <2>2, <2>3, <2>4
<1>14. QED
  BY <1>8, <1>9, <1>12, <1>13

LEMMA SaveStateKeeps ==
  ASSUME IInv, OutInv, SaveState
  PROVE  OutInv'
<1>1. /\ TypeOK /\ Control /\ OutFits /\ RecordFits /\ PlanKept /\ EntriesFit
  BY DEF IInv, OutInv
<1>2. /\ pc = "write" /\ todo = {} /\ pc' = "saveManifest"
      /\ state' = [p \in Paths |-> SavedEntry(p)]
      /\ UNCHANGED <<disk, manifest, version, profile, op, force, plan, todo, out,
                     dropped, failed, fresh, torn, touched, adrift, settled>>
      /\ Generated' = Generated
  BY DEF SaveState, fileVars, envVars, histVars, Generated
<1>3. op # "none"
  BY <1>1, <1>2 DEF Control
<1>4. Control' /\ OutFits' /\ UpdateDone' /\ InitDone' /\ SettledFits'
  BY <1>1, <1>2, <1>3
  DEF Control, OutFits, Current, UpdateDone, InitDone, SettledFits, Initializing
<1>5. RecordFits'
  <2>1. Outcome' = Outcome
    BY <1>2 DEF Outcome, Written
  <2>2. SUFFICES ASSUME NEW p \in Paths, p \notin touched
        PROVE  /\ p \notin torn \ Outcome => (Tracked(state'[p]) => disk[p] = state'[p].hash)
               /\ p \notin torn \cup Outcome
                    => (manifest[p] # Absent => disk[p] = manifest[p])
    BY <1>2, <2>1 DEF RecordFits
  <2>3. CASE Tracked(out[p])
    BY <1>1, <1>2, <2>2, <2>3 DEF OutFits, SavedEntry, RecordFits
  <2>4. CASE ~Tracked(out[p]) /\ (op # "update" \/ p \in dropped)
    <3>1. ~Tracked(state'[p])
      BY <1>2, <2>4 DEF SavedEntry, Tracked, Untracked
    <3>2. QED
      BY <1>1, <1>2, <2>2, <3>1 DEF RecordFits
  <2>5. CASE ~Tracked(out[p]) /\ op = "update" /\ p \notin dropped
    <3>1. state'[p] = state[p] /\ p \notin Outcome
      BY <1>2, <2>5 DEF SavedEntry, Outcome, Written
    <3>2. QED
      BY <1>1, <1>2, <2>2, <3>1 DEF RecordFits
  <2>6. QED
    BY <2>3, <2>4, <2>5
<1>6. PlanKept'
  BY <1>1, <1>2 DEF PlanKept
<1>7. SavedFits'
  <2>1. failed = {} /\ fresh = {} =>
          /\ Steady' /\ (op = "update" => \A p \in Generated : Converged(p)')
          /\ \A p \in Generated \ adrift :
               Strategy[p] = "threeWay" => Sections[version] \subseteq SectionsOf(disk[p])
    BY SavedIsSteady
  <2>2. QED
    BY <1>2, <1>3, <2>1 DEF SavedFits, SectionsOf
<1>8. EntriesFit'
  <2>1. \A p \in Paths : ~Tracked(state'[p]) => state'[p].base = Absent
    BY <1>1, <1>2 DEF SavedEntry, EntriesFit, Untracked
  <2>2. SUFFICES ASSUME NEW p \in Paths \ adrift, Strategy[p] = "threeWay"
        PROVE  /\ Tracked(out[p]) =>
                    disk[p] = out[p].hash /\ Sections[version] \subseteq SectionsOf(disk[p])
               /\ Tracked(state'[p]) =>
                    /\ disk[p] = state'[p].hash
                    /\ SectionsOf(state'[p].base) \subseteq SectionsOf(disk[p])
    BY <1>2, <2>1 DEF EntriesFit, SectionsOf
  <2>3. Tracked(out[p]) =>
          disk[p] = out[p].hash /\ Sections[version] \subseteq SectionsOf(disk[p])
    BY <1>1, <2>2 DEF EntriesFit
  <2>4. CASE Tracked(out[p])
    <3>1. out[p].base = Gen(version) /\ state'[p] = out[p]
      BY <1>1, <1>2, <2>2, <2>4 DEF OutFits, SavedEntry
    <3>2. SectionsOf(Gen(version)) = Sections[version]
      BY <1>1, ReleaseIsVersion, SectionsOfGen
    <3>3. QED
      BY <2>3, <2>4, <3>1, <3>2
  <2>5. CASE ~Tracked(out[p]) /\ (op # "update" \/ p \in dropped)
    BY <1>2, <2>3, <2>5 DEF SavedEntry, Tracked, Untracked
  <2>6. CASE ~Tracked(out[p]) /\ op = "update" /\ p \notin dropped
    <3>1. state'[p] = state[p] /\ p \notin Outcome
      BY <1>2, <2>6 DEF SavedEntry, Outcome, Written
    <3>2. QED
      BY <1>1, <2>2, <2>3, <3>1 DEF EntriesFit
  <2>7. QED
    BY <2>4, <2>5, <2>6
<1>9. QED
  BY <1>4, <1>5, <1>6, <1>7, <1>8 DEF OutInv

\* Steady speaks of the state file, the files, the release and the profile.
LEMMA SteadyStays ==
  ASSUME UNCHANGED <<state, disk, version, profile>>
  PROVE  Steady' <=> Steady
<1>1. Generated' = Generated
  BY DEF Generated
<1>2. QED
  BY <1>1 DEF Steady, Rewritten, Waits, Passive, Draft

LEMMA SaveManifestKeeps ==
  ASSUME IInv, OutInv, SaveManifest
  PROVE  OutInv'
<1>1. /\ TypeOK /\ Control /\ OutFits /\ RecordFits /\ PlanKept /\ SavedFits
      /\ EntriesFit
  BY DEF IInv, OutInv
<1>2. /\ pc = "saveManifest" /\ pc' = "saveAnswers"
      /\ manifest' = BuildManifest(state) /\ torn' = torn \ Outcome
      /\ UNCHANGED <<state, disk, version, profile, op, force, plan, todo, out,
                     dropped, failed, fresh, touched, adrift, settled>>
      /\ Generated' = Generated
  BY DEF SaveManifest, fileVars, envVars, Generated, Outcome
<1>3. op # "none"
  BY <1>1, <1>2 DEF Control
<1>4. Control' /\ OutFits' /\ UpdateDone' /\ InitDone' /\ SettledFits'
  BY <1>1, <1>2, <1>3
  DEF Control, OutFits, Current, UpdateDone, InitDone, SettledFits, Initializing
<1>5. RecordFits'
  <2>1. SUFFICES ASSUME NEW p \in Paths, p \notin touched, p \notin torn \ Outcome
        PROVE  /\ Tracked(state[p]) => disk[p] = state[p].hash
               /\ manifest'[p] # Absent => disk[p] = manifest'[p]
    BY <1>2 DEF RecordFits
  <2>2. Tracked(state[p]) => disk[p] = state[p].hash
    BY <1>1, <1>2, <2>1 DEF RecordFits
  <2>3. manifest'[p] # Absent => Tracked(state[p]) /\ manifest'[p] = state[p].hash
    BY <1>2 DEF BuildManifest, Tracked
  <2>4. QED
    BY <2>2, <2>3
<1>6. PlanKept'
  BY <1>1, <1>2 DEF PlanKept
<1>7. SavedFits'
  <2>1. Steady' <=> Steady
    BY <1>2, SteadyStays
  <2>2. QED
    BY <1>1, <1>2, <1>3, <2>1 DEF SavedFits, Converged, SectionsOf
<1>8. EntriesFit'
  BY <1>1, <1>2 DEF EntriesFit, SectionsOf
<1>9. QED
  BY <1>4, <1>5, <1>6, <1>7, <1>8 DEF OutInv

LEMMA SaveAnswersKeeps ==
  ASSUME IInv, OutInv, SaveAnswers
  PROVE  OutInv'
<1>1. /\ TypeOK /\ Control /\ OutFits /\ RecordFits /\ PlanKept /\ SavedFits
      /\ EntriesFit
  BY DEF IInv, OutInv
<1>2. /\ pc = "saveAnswers" /\ pc' = "finish"
      /\ UNCHANGED <<state, manifest, disk, version, profile, op, force, plan, todo,
                     out, dropped, failed, fresh, torn, touched, adrift, settled>>
      /\ Generated' = Generated
  BY DEF SaveAnswers, fileVars, envVars, histVars, Generated
<1>3. op # "none"
  BY <1>1, <1>2 DEF Control
<1>4. Control' /\ OutFits' /\ UpdateDone' /\ InitDone' /\ SettledFits'
  BY <1>1, <1>2, <1>3
  DEF Control, OutFits, Current, UpdateDone, InitDone, SettledFits, Initializing
<1>5. RecordFits' /\ PlanKept'
  BY <1>1, <1>2 DEF RecordFits, PlanKept
<1>6. SavedFits'
  <2>1. Steady' <=> Steady
    BY <1>2, SteadyStays
  <2>2. QED
    BY <1>1, <1>2, <1>3, <2>1 DEF SavedFits, Converged, SectionsOf
<1>7. EntriesFit'
  BY <1>1, <1>2 DEF EntriesFit, SectionsOf
<1>8. QED
  BY <1>4, <1>5, <1>6, <1>7 DEF OutInv

-----------------------------------------------------------------------------
(* Ending, dying, and the world around. *)

\* With no command running only the ledger and the next update matter.
LEMMA NothingRuns ==
  ASSUME op' = "none", pc' = "idle", out' = NoEntries, dropped' = {}, fresh' = {},
         settled' => Steady', \A p \in Paths : ~Tracked(state'[p]) => state'[p].base = Absent,
         \A p \in Paths \ touched' : p \notin torn' =>
             /\ Tracked(state'[p]) => disk'[p] = state'[p].hash
             /\ manifest'[p] # Absent => disk'[p] = manifest'[p],
         \A p \in Paths \ adrift' : Strategy[p] = "threeWay" /\ Tracked(state'[p]) =>
             /\ disk'[p] = state'[p].hash
             /\ SectionsOf(state'[p].base) \subseteq SectionsOf(disk'[p])
  PROVE  OutInv'
<1>1. \A p \in Paths : ~Tracked(out'[p])
  BY DEF NoEntries, Tracked, Untracked
<1>2. Control' /\ OutFits'
  BY <1>1 DEF Control, OutFits, Initializing
<1>3. RecordFits'
  BY DEF RecordFits
<1>4. PlanKept' /\ UpdateDone' /\ InitDone' /\ SettledFits'
  BY DEF PlanKept, UpdateDone, InitDone, SettledFits, Initializing
<1>5. SavedFits'
  BY DEF SavedFits
<1>6. EntriesFit'
  BY <1>1 DEF EntriesFit
<1>7. QED
  BY <1>2, <1>3, <1>4, <1>5, <1>6 DEF OutInv

LEMMA FinishKeeps ==
  ASSUME IInv, OutInv, Finish
  PROVE  OutInv'
<1>1. TypeOK /\ RecordFits /\ SavedFits /\ EntriesFit
  BY DEF IInv, OutInv
<1>2. /\ pc = "finish" /\ settled' = (failed = {} /\ fresh = {}) /\ Idle
      /\ UNCHANGED <<state, manifest, disk, version, profile, torn, touched, adrift>>
  BY DEF Finish, fileVars, envVars
<1>3. settled' => Steady'
  BY <1>1, <1>2, SteadyStays DEF SavedFits
<1>4. \A p \in Paths \ touched : p \notin torn =>
          /\ Tracked(state[p]) => disk[p] = state[p].hash
          /\ manifest[p] # Absent => disk[p] = manifest[p]
  BY <1>1, <1>2 DEF RecordFits
<1>5. /\ \A p \in Paths : ~Tracked(state'[p]) => state'[p].base = Absent
      /\ \A p \in Paths \ adrift' : Strategy[p] = "threeWay" /\ Tracked(state'[p]) =>
           /\ disk'[p] = state'[p].hash
           /\ SectionsOf(state'[p].base) \subseteq SectionsOf(disk'[p])
  BY <1>1, <1>2 DEF EntriesFit
<1>6. QED
  BY <1>2, <1>3, <1>4, <1>5, NothingRuns DEF Idle

LEMMA CrashKeeps ==
  ASSUME IInv, OutInv, Crash
  PROVE  OutInv'
<1>1. TypeOK /\ RecordFits /\ EntriesFit
  BY DEF IInv, OutInv
<1>2. /\ settled' = FALSE /\ Idle
      /\ torn' = IF pc \in {"write", "saveManifest"} THEN torn \cup Outcome ELSE torn
      /\ adrift' = IF pc = "write" THEN adrift \cup Outcome ELSE adrift
      /\ UNCHANGED <<state, manifest, disk, touched>>
  BY DEF Crash, fileVars, ledgerVars, Outcome
<1>3. \A p \in Paths \ touched : p \notin torn' =>
          /\ Tracked(state[p]) => disk[p] = state[p].hash
          /\ manifest[p] # Absent => disk[p] = manifest[p]
  <2>1. SUFFICES ASSUME NEW p \in Paths \ touched, p \notin torn'
        PROVE  /\ Tracked(state[p]) => disk[p] = state[p].hash
               /\ manifest[p] # Absent => disk[p] = manifest[p]
    OBVIOUS
  <2>2. p \notin torn /\ (pc \in {"write", "saveManifest"} => p \notin Outcome)
    BY <1>2, <2>1
  <2>3. QED
    BY <1>1, <2>1, <2>2 DEF RecordFits
<1>4. /\ \A p \in Paths : ~Tracked(state'[p]) => state'[p].base = Absent
      /\ \A p \in Paths \ adrift' : Strategy[p] = "threeWay" /\ Tracked(state'[p]) =>
           /\ disk'[p] = state'[p].hash
           /\ SectionsOf(state'[p].base) \subseteq SectionsOf(disk'[p])
  BY <1>1, <1>2 DEF EntriesFit
<1>5. QED
  BY <1>2, <1>3, <1>4, NothingRuns DEF Idle

\* The user changes one file.
LEMMA UserKeeps ==
  ASSUME IInv, OutInv, NEW p \in Paths, NEW c, UserChanges(p, c)
  PROVE  OutInv'
<1>1. /\ TypeOK /\ Control /\ OutFits /\ RecordFits /\ PlanKept /\ UpdateDone
      /\ InitDone /\ EntriesFit
  BY DEF IInv, OutInv
<1>2. /\ disk' = [disk EXCEPT ![p] = c] /\ touched' = touched \cup {p}
      /\ adrift' = adrift \cup {p}
      /\ fresh' = (IF op = "none" THEN {} ELSE fresh \cup {p}) /\ settled' = FALSE
      /\ UNCHANGED <<state, manifest, version, profile, op, force, pc, plan, todo,
                     out, dropped, failed, torn>>
      /\ Generated' = Generated
  BY DEF UserChanges, ledgerVars, cmdVars, Generated
<1>3. \A q \in Paths \ {p} : disk'[q] = disk[q]
  BY <1>2
<1>4. Generated \subseteq Paths
  BY <1>1, GeneratedPaths
<1>5. RecordFits'
  <2>1. Outcome' = Outcome
    BY <1>2 DEF Outcome, Written
  <2>2. QED
    BY <1>1, <1>2, <1>3, <2>1 DEF RecordFits
<1>9. EntriesFit'
  <2>1. Outcome' = Outcome
    BY <1>2 DEF Outcome, Written
  <2>2. \A q \in Paths \ adrift' : q \in Paths \ adrift /\ disk'[q] = disk[q]
    BY <1>2, <1>3
  <2>3. QED
    BY <1>1, <1>2, <2>1, <2>2 DEF EntriesFit, SectionsOf
<1>6. CASE op = "none"
  <2>1. pc = "idle" /\ out = NoEntries /\ dropped = {}
    BY <1>1, <1>6 DEF Control
  <2>2. \A q \in Paths \ touched' : q \notin torn' =>
          /\ Tracked(state'[q]) => disk'[q] = state'[q].hash
          /\ manifest'[q] # Absent => disk'[q] = manifest'[q]
    BY <1>2, <1>5, <2>1 DEF RecordFits
  <2>3. /\ \A q \in Paths : ~Tracked(state'[q]) => state'[q].base = Absent
        /\ \A q \in Paths \ adrift' : Strategy[q] = "threeWay" /\ Tracked(state'[q]) =>
             /\ disk'[q] = state'[q].hash
             /\ SectionsOf(state'[q].base) \subseteq SectionsOf(disk'[q])
    BY <1>2, <1>9, <2>1 DEF EntriesFit
  <2>4. QED
    BY <1>2, <1>6, <2>1, <2>2, <2>3, NothingRuns
<1>7. CASE op # "none"
  <2>1. fresh' = fresh \cup {p}
    BY <1>2, <1>7
  <2>2. Control'
    BY <1>1, <1>2, <1>7 DEF Control, Initializing
  <2>3. OutFits'
    BY <1>1, <1>2, <1>3, <2>1 DEF OutFits, Current
  <2>4. PlanKept'
    <3>1. \A q \in Generated \ fresh' : q \in Generated \ fresh /\ disk'[q] = disk[q]
      BY <1>3, <1>4, <2>1
    <3>2. \A q \in Generated \ fresh' : Passive(q)' <=> Passive(q)
      BY <1>2, <3>1 DEF Passive, Draft
    <3>3. QED
      BY <1>1, <1>2, <3>1, <3>2 DEF PlanKept
  <2>5. UpdateDone'
    BY <1>1, <1>2, <2>1 DEF UpdateDone
  <2>6. InitDone'
    <3>1. \A q \in Generated \ (todo \cup fresh') :
            q \in Generated \ (todo \cup fresh) /\ disk'[q] = disk[q]
      BY <1>3, <1>4, <2>1
    <3>2. QED
      BY <1>1, <1>2, <3>1 DEF InitDone, Initializing
  <2>7. SavedFits' /\ SettledFits'
    BY <1>2, <1>7, <2>1 DEF SavedFits, SettledFits
  <2>8. QED
    BY <1>5, <1>9, <2>2, <2>3, <2>4, <2>5, <2>6, <2>7 DEF OutInv
<1>8. QED
  BY <1>6, <1>7

\* A change of the configuration or the binary, or a fresh clone.
LEMMA WorldKeeps ==
  ASSUME IInv, OutInv, op = "none", state' \in {state, NoEntries},
         settled' = FALSE,
         UNCHANGED <<disk, manifest, cmdVars, fresh, torn, touched, adrift>>
  PROVE  OutInv'
<1>1. Control /\ RecordFits /\ EntriesFit
  BY DEF OutInv
<1>2. pc = "idle" /\ out = NoEntries /\ dropped = {} /\ fresh = {}
  BY <1>1 DEF Control
<1>3. \A p \in Paths : ~Tracked(NoEntries[p]) /\ NoEntries[p].base = Absent
  BY DEF NoEntries, Tracked, Untracked
<1>4. \A p \in Paths \ touched : p \notin torn =>
          /\ Tracked(state'[p]) => disk[p] = state'[p].hash
          /\ manifest[p] # Absent => disk[p] = manifest[p]
  <2>1. \A p \in Paths \ touched : p \notin torn =>
          /\ Tracked(state[p]) => disk[p] = state[p].hash
          /\ manifest[p] # Absent => disk[p] = manifest[p]
    BY <1>1, <1>2 DEF RecordFits
  <2>2. QED
    BY <1>3, <2>1
<1>5. /\ \A p \in Paths : ~Tracked(state'[p]) => state'[p].base = Absent
      /\ \A p \in Paths \ adrift' : Strategy[p] = "threeWay" /\ Tracked(state'[p]) =>
           /\ disk'[p] = state'[p].hash
           /\ SectionsOf(state'[p].base) \subseteq SectionsOf(disk'[p])
  BY <1>1, <1>2, <1>3 DEF EntriesFit
<1>6. QED
  BY <1>2, <1>4, <1>5, NothingRuns DEF cmdVars

-----------------------------------------------------------------------------
(* Starting a command. *)

\* What is the same for every command.
LEMMA BeginKeeps ==
  ASSUME IInv, OutInv, NEW o \in {"create", "join", "update"}, NEW f \in BOOLEAN,
         NEW pl, NEW work, Begin(o, f, pl, work),
         o # "update" => work = Generated
  PROVE  Control' /\ OutFits' /\ RecordFits' /\ EntriesFit' /\ SavedFits'
<1>1. /\ pc' = "write" /\ op' = o /\ todo' = work /\ out' = NoEntries /\ dropped' = {}
      /\ fresh' = {} /\ UNCHANGED <<state, manifest, disk, touched, torn, adrift, settled>>
      /\ Generated' = Generated /\ op = "none"
  BY DEF Begin, fileVars, ledgerVars, envVars, Generated
<1>2. Control /\ RecordFits /\ EntriesFit
  BY DEF OutInv
<1>3. \A p \in Paths : ~Tracked(out'[p])
  BY <1>1 DEF NoEntries, Tracked, Untracked
<1>4. Control'
  BY <1>1 DEF Control, Initializing
<1>5. OutFits'
  BY <1>3 DEF OutFits
<1>6. RecordFits'
  <2>1. Outcome' = {}
    BY <1>1, <1>3 DEF Outcome, Written
  <2>2. pc = "idle"
    BY <1>1, <1>2 DEF Control
  <2>3. QED
    BY <1>1, <1>2, <2>1, <2>2 DEF RecordFits
<1>7. SavedFits'
  BY <1>1 DEF SavedFits
<1>9. EntriesFit'
  <2>1. Outcome' = {}
    BY <1>1, <1>3 DEF Outcome, Written
  <2>2. pc = "idle"
    BY <1>1, <1>2 DEF Control
  <2>3. QED
    BY <1>1, <1>2, <1>3, <2>1, <2>2 DEF EntriesFit
<1>8. QED
  BY <1>4, <1>5, <1>6, <1>7, <1>9

\* Create and join decide as they go.
LEMMA StartInitKeeps ==
  ASSUME IInv, OutInv, NEW o \in {"create", "join"}, NEW f \in BOOLEAN,
         Begin(o, f, NoPlan, Generated)
  PROVE  OutInv'
<1>1. Control' /\ OutFits' /\ RecordFits' /\ EntriesFit' /\ SavedFits'
  BY BeginKeeps
<1>2. op' = o /\ todo' = Generated /\ Generated' = Generated
  BY DEF Begin, envVars, Generated
<1>3. PlanKept' /\ UpdateDone' /\ SettledFits'
  BY <1>2 DEF PlanKept, UpdateDone, SettledFits
<1>4. InitDone'
  BY <1>2 DEF InitDone
<1>5. QED
  BY <1>1, <1>3, <1>4 DEF OutInv

\* A fresh plan of an update.
LEMMA StartUpdateKeeps ==
  ASSUME IInv, OutInv, NEW f \in BOOLEAN, NEW d \in BOOLEAN, StartUpdate(f, d)
  PROVE  OutInv'
<1> DEFINE pl   == UpdatePlanOf(state, disk, version, f, Generated, profile.enabled)
           work == Generated \cup {p \in Paths : pl[p] \in {"remove", "untrack"}}
           own(p) == PlanGenerated(p, state[p], disk[p], version, f)
<1>1. TypeOK /\ Control /\ SavedFits
  BY DEF IInv, OutInv
<1>2. Begin("update", f, pl, work)
  BY DEF StartUpdate
<1>3. /\ op = "none" /\ op' = "update" /\ force' = f /\ pc' = "write" /\ plan' = pl
      /\ todo' = work /\ out' = NoEntries /\ dropped' = {} /\ failed' = {} /\ fresh' = {}
      /\ UNCHANGED <<state, disk, version, profile, settled>>
      /\ Generated' = Generated
  BY <1>2 DEF Begin, fileVars, ledgerVars, envVars, Generated
<1>4. /\ Generated \subseteq Paths /\ version \in Versions
      /\ \A p \in Paths : ~Tracked(NoEntries[p])
  BY <1>1, GeneratedPaths, ReleaseIsVersion DEF NoEntries, Tracked, Untracked
<1>5. Control' /\ OutFits' /\ RecordFits' /\ EntriesFit' /\ SavedFits'
  <2> HIDE DEF pl, work
  <2>1. QED
    BY <1>2, BeginKeeps
<1>6. \A p \in Paths :
        LET a == own(p)
        IN  /\ a \in {"create", "regenerate", "merge"} \cup Unwritten
            /\ a \in {"regenerate", "merge"} => disk[p] # Absent
            /\ a \in Unwritten =>
                 /\ Passive(p) /\ disk[p] # Gen(version)
                 /\ f => Strategy[p] = "skip" /\ disk[p] # Absent
  <2>1. SUFFICES ASSUME NEW p \in Paths
        PROVE  LET a == own(p)
               IN  /\ a \in {"create", "regenerate", "merge"} \cup Unwritten
                   /\ a \in {"regenerate", "merge"} => disk[p] # Absent
                   /\ a \in Unwritten =>
                        /\ Passive(p) /\ disk[p] # Gen(version)
                        /\ f => Strategy[p] = "skip" /\ disk[p] # Absent
    OBVIOUS
  <2>2. LET a == own(p)
        IN  /\ a \in {"create", "regenerate", "merge"} \cup Unwritten
            /\ a \in {"regenerate", "merge"} => disk[p] # Absent
            /\ a \in Unwritten =>
                 /\ disk[p] # Gen(version)
                 /\ f => Strategy[p] = "skip" /\ disk[p] # Absent
                 /\ Draft(p) \in Unwritten
    BY <1>4, DraftIs DEF Draft
  <2>3. Draft(p) \in Unwritten => Passive(p)
    BY DEF Passive, WritesInPlace, Unwritten
  <2> HIDE DEF own
  <2>4. QED
    BY <2>2, <2>3
<1>7. \A p \in Generated :
        pl[p] = IF /\ HeldWith[p] \in Generated /\ WritesInPlace(own(p))
                   /\ disk[p] # Absent /\ ~WritesInPlace(own(HeldWith[p]))
                THEN "hold" ELSE own(p)
  <2>1. SUFFICES ASSUME NEW p \in Generated
        PROVE  pl[p] = IF /\ HeldWith[p] \in Generated /\ WritesInPlace(own(p))
                          /\ disk[p] # Absent /\ ~WritesInPlace(own(HeldWith[p]))
                       THEN "hold" ELSE own(p)
    OBVIOUS
  <2>2. QED
    BY <1>4, PlanIs
<1>8. \A p \in Paths \ Generated :
        pl[p] = IF Tracked(state[p]) /\ OwnsOrphan(state[p], Generated, profile.enabled)
                THEN PlanOrphan(p, state[p], disk[p]) ELSE "none"
  <2>1. SUFFICES ASSUME NEW p \in Paths, p \notin Generated
        PROVE  pl[p] = IF Tracked(state[p]) /\ OwnsOrphan(state[p], Generated, profile.enabled)
                       THEN PlanOrphan(p, state[p], disk[p]) ELSE "none"
    OBVIOUS
  <2>2. pl = UpdatePlanOf(state, disk, version, f, Generated, profile.enabled)
    OBVIOUS
  <2> HIDE DEF pl, work, own
  <2>3. UpdatePlanOf(state, disk, version, f, Generated, profile.enabled)[p]
          = IF Tracked(state[p]) /\ OwnsOrphan(state[p], Generated, profile.enabled)
            THEN PlanOrphan(p, state[p], disk[p]) ELSE "none"
    BY <2>1 DEF UpdatePlanOf
  <2>4. QED
    BY <2>2, <2>3
<1>9. \A p \in Paths : PlanOrphan(p, state[p], disk[p]) \in {"remove", "untrack"}
  BY DEF PlanOrphan
<1>10. \A p \in Generated : HeldWith[p] \in Generated => pl[HeldWith[p]] = own(HeldWith[p])
  <2>1. SUFFICES ASSUME NEW p \in Generated, HeldWith[p] \in Generated
        PROVE  pl[HeldWith[p]] = own(HeldWith[p])
    OBVIOUS
  <2>2. HeldWith[HeldWith[p]] \notin Generated
    BY <1>1, <1>4, <2>1, PartnerIs
  <2> HIDE DEF pl, own
  <2>3. QED
    BY <1>7, <2>1, <2>2
<1> HIDE DEF pl, own
<1>11. PlanKept'
  <2>1. \A p \in Paths :
          IF p \in Generated
          THEN pl[p] \in {"create", "regenerate", "merge", "hold"} \cup Unwritten
          ELSE pl[p] \in {"none", "remove", "untrack"}
    BY <1>4, <1>6, <1>7, <1>8, <1>9
  <2>2. ASSUME NEW p \in Generated, HeldWith[p] \in Generated,
               pl[p] \in {"regenerate", "merge"}
        PROVE  WritesInPlace(pl[HeldWith[p]])
    <3>1. pl[p] = own(p) /\ WritesInPlace(own(p)) /\ disk[p] # Absent
      BY <1>4, <1>6, <1>7, <2>2 DEF WritesInPlace
    <3>2. WritesInPlace(own(HeldWith[p]))
      BY <1>7, <2>2, <3>1
    <3>3. QED
      BY <1>10, <2>2, <3>2
  <2>3. ASSUME NEW p \in Paths, pl[p] = "hold"
        PROVE  /\ p \in Generated /\ disk[p] # Absent
               /\ HeldWith[p] \in Generated /\ pl[HeldWith[p]] \in Unwritten
    <3>1. p \in Generated
      BY <2>1, <2>3
    <3>2. own(p) # "hold"
      BY <1>6 DEF Unwritten
    <3>3. HeldWith[p] \in Generated /\ disk[p] # Absent /\ ~WritesInPlace(own(HeldWith[p]))
      BY <1>7, <2>3, <3>1, <3>2
    <3>4. own(HeldWith[p]) \in Unwritten
      BY <1>4, <1>6, <3>3 DEF WritesInPlace
    <3>5. QED
      BY <1>10, <3>1, <3>3, <3>4
  <2>4. ASSUME NEW p \in Generated, pl[p] \in Unwritten
        PROVE  Passive(p) /\ (f => Strategy[p] = "skip" /\ disk[p] # Absent)
    <3>1. pl[p] = own(p)
      BY <1>7, <2>4 DEF Unwritten
    <3>2. QED
      BY <1>4, <1>6, <2>4, <3>1
  <2>5. \A p \in Paths : Passive(p)' <=> Passive(p)
    BY <1>3 DEF Passive, Draft
  <2>6. QED
    BY <1>3, <1>4, <2>1, <2>2, <2>3, <2>4, <2>5 DEF PlanKept
<1>12. UpdateDone'
  <2>1. Generated \ work = {}
    OBVIOUS
  <2>2. \A p \in Paths \ Generated :
          Tracked(state[p]) /\ OwnsOrphan(state[p], Generated, profile.enabled) => p \in work
    BY <1>8, <1>9
  <2> HIDE DEF work
  <2>3. QED
    BY <1>3, <2>1, <2>2 DEF UpdateDone
<1>13. InitDone'
  BY <1>3 DEF InitDone, Initializing
<1>14. SettledFits'
  <2>1. SUFFICES ASSUME ~f, settled, NEW p \in work
        PROVE  pl[p] # "remove" /\ Rewritten(p, pl[p])
    BY <1>3 DEF SettledFits, Rewritten
  <2>2. Steady
    BY <1>1, <1>3, <2>1 DEF SavedFits
  <2>3. p \in Generated
    <3>1. ASSUME p \notin Generated PROVE FALSE
      <4>1. p \in Paths \ Generated /\ pl[p] \in {"remove", "untrack"}
        BY <2>1, <3>1
      <4>2. QED
        BY <1>8, <2>2, <4>1 DEF Steady
    <3>2. QED
      BY <3>1
  <2>4. own(p) = Draft(p) /\ p \in Paths
    BY <1>4, <2>1, <2>3 DEF own, Draft
  <2>5. CASE pl[p] = "hold"
    BY <2>5 DEF Rewritten
  <2>6. CASE pl[p] # "hold"
    <3>1. pl[p] = Draft(p)
      BY <1>7, <2>3, <2>4, <2>6
    <3>2. pl[p] \in {"create", "regenerate", "merge"} \cup Unwritten
      BY <1>6, <2>4, <3>1
    <3>3. CASE Rewritten(p, Draft(p))
      BY <3>1, <3>2, <3>3 DEF Unwritten
    <3>4. CASE Waits(p)
      <4>1. HeldWith[p] \in Generated /\ disk[p] # Absent /\ Passive(HeldWith[p])
        BY <3>4 DEF Waits
      <4>2. own(HeldWith[p]) = Draft(HeldWith[p])
        BY <2>1 DEF own, Draft
      <4>3. ~WritesInPlace(own(HeldWith[p]))
        BY <4>1, <4>2 DEF Passive
      <4>4. ~WritesInPlace(pl[p])
        BY <1>7, <2>3, <2>4, <2>6, <3>1, <4>1, <4>3
      <4>5. QED
        BY <3>2, <4>4 DEF Rewritten, WritesInPlace, Unwritten
    <3>5. QED
      BY <2>2, <2>3, <3>3, <3>4 DEF Steady
  <2>7. QED
    BY <2>5, <2>6
<1>15. QED
  BY <1>5, <1>11, <1>12, <1>13, <1>14 DEF OutInv

-----------------------------------------------------------------------------
(* The inductive invariant. *)

LEMMA OutInit == Init => OutInv
<1>1. SUFFICES ASSUME Init PROVE OutInv
  OBVIOUS
<1>2. \A p \in Paths : /\ ~Tracked(NoEntries[p]) /\ NoContent[p] = Absent
                       /\ NoEntries[p].base = Absent
  BY DEF NoEntries, NoContent, Tracked, Untracked
<1>3. Control /\ OutFits /\ RecordFits /\ EntriesFit
  BY <1>1, <1>2 DEF Init, Control, OutFits, RecordFits, EntriesFit, Initializing
<1>4. PlanKept /\ UpdateDone /\ InitDone /\ SavedFits /\ SettledFits
  BY <1>1 DEF Init, PlanKept, UpdateDone, InitDone, SavedFits, SettledFits, Initializing
<1>5. QED
  BY <1>3, <1>4 DEF OutInv

LEMMA OutStep == IInv /\ OutInv /\ [Next]_vars => OutInv'
<1> SUFFICES ASSUME IInv, OutInv, [Next]_vars PROVE OutInv'
  OBVIOUS
<1>1. ASSUME NEW f \in BOOLEAN, StartCreate(f) PROVE OutInv'
  BY <1>1, StartInitKeeps DEF StartCreate
<1>2. CASE StartJoin
  BY <1>2, StartInitKeeps DEF StartJoin
<1>3. ASSUME NEW f \in BOOLEAN, NEW d \in BOOLEAN, StartUpdate(f, d) PROVE OutInv'
  BY <1>3, StartUpdateKeeps
<1>4. ASSUME NEW p \in Paths, FileStep(p) PROVE OutInv'
  BY <1>4, FileStepKeeps
<1>5. CASE SaveState \/ SaveManifest \/ SaveAnswers \/ Finish \/ Crash
  BY <1>5, SaveStateKeeps, SaveManifestKeeps, SaveAnswersKeeps, FinishKeeps, CrashKeeps
<1>6. ASSUME NEW p \in Paths, UserEdit(p) \/ UserDelete(p) \/ AcceptSidecar(p)
      PROVE  OutInv'
  BY <1>6, UserKeeps DEF UserEdit, UserDelete, AcceptSidecar
<1>7. ASSUME NEW pr \in Profiles, Reconfigure(pr) PROVE OutInv'
  BY <1>7, WorldKeeps DEF Reconfigure, fileVars, ledgerVars
<1>8. ASSUME NEW v \in Releases, SwitchBinary(v) PROVE OutInv'
  BY <1>8, WorldKeeps DEF SwitchBinary, fileVars, ledgerVars
<1>9. CASE FreshClone
  BY <1>9, WorldKeeps DEF FreshClone
<1>10. CASE UNCHANGED vars
  <2>1. UNCHANGED <<disk, state, manifest, version, profile, op, force, pc, plan, todo,
                    out, dropped, failed, fresh, torn, touched, adrift, settled>>
        /\ Generated' = Generated
    BY <1>10 DEF vars, fileVars, ledgerVars, envVars, cmdVars, histVars, Generated
  <2>2. Control' /\ OutFits' /\ RecordFits'
    BY <2>1 DEF OutInv, Control, OutFits, RecordFits, Initializing, Outcome, Written, Current
  <2>6. EntriesFit'
    BY <2>1 DEF OutInv, EntriesFit, Outcome, Written, SectionsOf
  <2>3. PlanKept' /\ UpdateDone' /\ InitDone'
    BY <2>1 DEF OutInv, PlanKept, UpdateDone, InitDone, Initializing, Passive, Draft
  <2>4. SavedFits' /\ SettledFits'
    BY <2>1, SteadyStays
    DEF OutInv, SavedFits, SettledFits, Converged, Rewritten, SectionsOf
  <2>5. QED
    BY <2>2, <2>3, <2>4, <2>6 DEF OutInv
<1>11. QED
  BY <1>1, <1>2, <1>3, <1>4, <1>5, <1>6, <1>7, <1>8, <1>9, <1>10 DEF Next, Command

\* OutInv holds throughout, as its parts say.
THEOREM OutputInvariant == Spec => [](IInv /\ OutInv)
  BY OutInit, OutStep, InvInit, InvStep, PTL DEF Spec

-----------------------------------------------------------------------------
(* What that says of the commands. *)

\* Between commands the state file and the manifest describe, byte for byte,
\* what qsdev wrote, so its own output never passes for the user's change; only
\* files a dead command wrote or the user changed are excepted (SaveInitState,
\* BuildManifest, update's recordWrite).
THEOREM OwnOutputIsRecorded == Spec => []OwnOutputRecorded
<1>1. Control /\ RecordFits => OwnOutputRecorded
  BY DEF Control, RecordFits, OwnOutputRecorded
<1>2. QED
  BY <1>1, OutputInvariant, PTL DEF OutInv

\* Whatever crashed before it, an update that fails on nothing takes over every
\* file that holds this release's output (buildUpdatePlan's "matches the
\* generated content" cases).
THEOREM OwnOutputIsAdopted == Spec => []OwnOutputAdopted
<1>1. SavedFits => OwnOutputAdopted
  BY DEF SavedFits, Converged, OwnOutputAdopted
<1>2. QED
  BY <1>1, OutputInvariant, PTL DEF OutInv

\* After any command that fails on nothing, .mcp.json and the settings have
\* every entry this release generates, unless the user, or a command that died
\* before recording it, changed the file since qsdev last wrote it without a
\* base (MergeMcpJson, MergeSettings, RecordFiles).
THEOREM EntriesAlwaysFollow == Spec => []EntriesFollow
<1>1. Control /\ SavedFits => EntriesFollow
  BY DEF Control, SavedFits, EntriesFollow
<1>2. QED
  BY <1>1, OutputInvariant, PTL DEF OutInv

\* From whatever state crashes, edits, upgrades and clones made, one update
\* --force that fails on nothing brings every generated file to this release
\* and tracks it, the user's skip-if-exists files apart (buildUpdatePlan,
\* executeUpdatePlan).  A file merged entry by entry is recorded with this
\* release's base, and may lack entries only where EntriesFollow's exemption
\* applies.
THEOREM ForcedUpdateIsComplete == Spec => []ForcedUpdateConverges
<1>1. SavedFits => ForcedUpdateConverges
  BY DEF SavedFits, Converged, ForcedUpdateConverges
<1>2. QED
  BY <1>1, OutputInvariant, PTL DEF OutInv

\* Only a file's own step, or the user, changes it.
LEMMA OnlyItsStepChanges ==
  ASSUME IInv, OutInv, [Next]_vars, NEW p \in Paths, Handled(p), disk'[p] # disk[p]
  PROVE  FileStep(p) /\ (Wrote(p) \/ Dropped(p))
<1>1. TypeOK /\ PlanFits /\ Control /\ PlanKept /\ EntriesFit
  BY DEF IInv, OutInv
<1>2. CASE UNCHANGED disk \/ UNCHANGED todo
  BY <1>2 DEF Handled
<1>3. ASSUME NEW q \in Paths, FileStep(q)
      PROVE  FileStep(p)
  BY <1>1, <1>3, StepOutcome
<1>4. CASE FileStep(p)
  <2>1. Wrote(p) \/ Dropped(p) \/ FailedOn(p) \/ LeftOut(p)
    BY <1>1, <1>4, StepOutcome
  <2>2. QED
    BY <1>4, <2>1 DEF FailedOn, LeftOut
<1>5. QED
  BY <1>2, <1>3, <1>4
  DEF Next, Command, StartCreate, StartJoin, StartUpdate, Begin, SaveState,
      SaveManifest, SaveAnswers, Finish, Crash, UserEdit, UserDelete,
      AcceptSidecar, UserChanges, Reconfigure, SwitchBinary, FreshClone, vars,
      fileVars, cmdVars

\* A file that waits for its partner is not changed by init.
LEMMA WaitingIsUnchanged ==
  ASSUME TypeOK, Initializing, NEW p \in Paths, FileStep(p), disk[p] # Absent,
         disk'[p] # disk[p]
  PROVE  ~PartnerHeld(p, Generated, Written)
<1>1. SUFFICES ASSUME PartnerHeld(p, Generated, Written) PROVE FALSE
  OBVIOUS
<1>2. Decision(p) \in {"write", "sidecar"} /\ (Decision(p) = "write" => disk[p] = Gen(version))
  BY <1>1 DEF Decision, InitDecision
<1>3. \A c, o : WriteInPlace(p, c, o) => disk'[p] = c
  BY WriteIs
<1>4. CASE InitWrite(p)
  BY <1>2, <1>3, <1>4 DEF InitWrite
<1>5. CASE InitMerge(p) \/ InitMergeFails(p)
  BY <1>2, <1>5 DEF InitMerge, InitMergeFails
<1>6. CASE UNCHANGED disk
  BY <1>6
<1>7. op # "update"
  BY DEF Initializing
<1>8. QED
  BY <1>4, <1>5, <1>6, <1>7
  DEF FileStep, InitKeep, InitSidecar, InitFails, InitWriteError, UpdateWrite,
      UpdateMerge, UpdateFails, UpdateSidecar, UpdateRemove, UpdateRemoveFails,
      UpdateUntrack, UpdateSkip, UpdateStops, LeaveAlone, Fails

\* By the time a held file's turn comes, its partner has been written.
LEMMA PartnerIsWritten ==
  ASSUME IInv, OutInv, [Next]_vars, NEW p \in Paths, Handled(p), p \in Generated,
         HeldWith[p] \in Generated, disk[p] # Absent, disk'[p] # disk[p]
  PROVE  \/ Tracked(out[HeldWith[p]])
         \/ HeldWith[p] \in fresh \/ PlannedBefore(p)
         \/ op = "update" /\ HeldWith[p] \in failed
<1> DEFINE q == HeldWith[p]
<1>1. TypeOK /\ PlanFits /\ PlanKept /\ UpdateDone
  BY DEF IInv, OutInv
<1>2. FileStep(p) /\ (Wrote(p) \/ Dropped(p))
  BY OnlyItsStepChanges
<1>3. /\ pc = "write" /\ p \in todo /\ op \in {"create", "join", "update"}
      /\ \A r \in todo \ {p} : ~Before(r, p)
  BY <1>1, <1>2, StepFrame
<1>4. q \in Paths /\ q # p /\ Rank[q] < Rank[p]
  BY <1>1, PartnerIs
<1>5. CASE Initializing
  BY <1>1, <1>2, <1>4, <1>5, WaitingIsUnchanged DEF PartnerHeld, Written
<1>6. CASE op = "update"
  <2>1. WritesInPlace(plan[p])
    BY <1>1, <1>2, <1>6 DEF Wrote, Dropped, PlanKept, Unwritten
  <2>2. CASE plan[p] = "create"
    <3>1. p \in fresh
      BY <1>1, <1>3, <1>6, <2>2 DEF PlanFits, ActionFits
    <3>2. QED
      BY <1>6, <2>2, <3>1 DEF PlannedBefore
  <2>3. CASE plan[p] \in {"regenerate", "merge"}
    <3>1. WritesInPlace(plan[q])
      BY <1>1, <1>6, <2>3 DEF PlanKept
    <3>2. Before(q, p)
      BY <1>4, <1>6 DEF Before, Late
    <3>3. q \notin todo
      BY <1>3, <1>4, <3>2
    <3>4. QED
      BY <1>1, <1>3, <1>6, <3>1, <3>3 DEF UpdateDone
  <2>4. QED
    BY <2>1, <2>2, <2>3 DEF WritesInPlace
<1>7. QED
  BY <1>3, <1>5, <1>6 DEF Initializing

\* An existing devenv.yaml changes only together with its devenv.nix, through
\* init, join and update alike, unless the user interfered or an update's own
\* devenv.nix failed its validation (partnerHeld, holdPairedFiles).
THEOREM PairsMoveTogether == Spec => PairInStep
<1>1. IInv /\ OutInv /\ [Next]_vars =>
        [\A p \in Paths :
           /\ Handled(p) /\ p \in Generated /\ HeldWith[p] \in Generated
           /\ disk[p] # Absent /\ disk'[p] # disk[p]
           => \/ disk[HeldWith[p]] = Gen(version)
              \/ HeldWith[p] \in fresh \/ PlannedBefore(p)
              \/ op = "update" /\ HeldWith[p] \in failed]_vars
  <2>1. SUFFICES ASSUME IInv, OutInv, [Next]_vars, NEW p \in Paths, Handled(p),
                        p \in Generated, HeldWith[p] \in Generated,
                        disk[p] # Absent, disk'[p] # disk[p],
                        Tracked(out[HeldWith[p]]), HeldWith[p] \notin fresh
                 PROVE  disk[HeldWith[p]] = Gen(version)
    BY PartnerIsWritten
  <2>2. TypeOK /\ OutFits
    BY <2>1 DEF IInv, OutInv
  <2>3. HeldWith[p] \in Paths /\ ~Mergeable(Strategy[HeldWith[p]])
    BY <2>1, <2>2, PartnerIs DEF Mergeable
  <2>4. QED
    BY <2>1, <2>2, <2>3 DEF OutFits
<1>2. QED
  BY <1>1, OutputInvariant, PTL DEF Spec, PairInStep

\* An update that nothing disturbed, right after a command that succeeded,
\* rewrites files with what they hold at most (buildUpdatePlan, MergeContent).
THEOREM UpdateIsIdempotent == Spec => UpdateIdempotent
<1>1. IInv /\ OutInv /\ [Next]_vars =>
        [op = "update" /\ ~force /\ settled /\ settled' => disk' = disk]_vars
  <2>1. SUFFICES ASSUME IInv, OutInv, [Next]_vars, op = "update", ~force, settled,
                        settled'
                 PROVE  disk' = disk
    OBVIOUS
  <2>2. TypeOK /\ SettledFits
    BY <2>1 DEF IInv, OutInv
  <2>3. ASSUME NEW p \in Paths, FileStep(p) PROVE disk' = disk
    <3>1. pc = "write" /\ p \in todo
      BY <2>2, <2>3, StepFrame
    <3>2. plan[p] # "remove" /\ Rewritten(p, plan[p])
      BY <2>1, <2>2, <3>1 DEF SettledFits
    <3>3. ASSUME NEW o, WriteInPlace(p, disk[p], o) PROVE disk' = disk
      BY <2>2, <3>3 DEF WriteInPlace, TypeOK
    <3>4. CASE UpdateWrite(p)
      BY <3>2, <3>3, <3>4 DEF UpdateWrite, Rewritten
    <3>5. CASE UpdateMerge(p)
      BY <3>2, <3>3, <3>5 DEF UpdateMerge, Rewritten
    <3>6. ~Initializing
      BY <2>1 DEF Initializing
    <3>7. QED
      BY <2>3, <3>2, <3>4, <3>5, <3>6
      DEF FileStep, InitWrite, InitMerge, InitMergeFails, InitKeep, InitSidecar,
          InitFails, InitWriteError, UpdateFails, UpdateSidecar, UpdateRemove,
          UpdateRemoveFails, UpdateUntrack, UpdateSkip, UpdateStops, LeaveAlone,
          Fails, fileVars
  <2>4. CASE UNCHANGED disk \/ settled' = FALSE
    BY <2>1, <2>4
  <2>5. QED
    BY <2>1, <2>3, <2>4
    DEF Next, Command, StartCreate, StartJoin, StartUpdate, Begin, SaveState,
        SaveManifest, SaveAnswers, Finish, Crash, UserEdit, UserDelete,
        AcceptSidecar, UserChanges, Reconfigure, SwitchBinary, FreshClone, vars,
        fileVars
<1>2. QED
  BY <1>1, OutputInvariant, PTL DEF Spec, UpdateIdempotent
=============================================================================
