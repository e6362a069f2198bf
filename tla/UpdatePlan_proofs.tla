--------------------------- MODULE UpdatePlan_proofs ---------------------------
(***************************************************************************)
(* What the proofs about Lifecycle and Upkeep share: the types of entries  *)
(* and contents, and what update's planner guarantees of an action when it *)
(* picks it, for every strategy and content.                               *)
(***************************************************************************)
EXTENDS UpdatePlan, TLAPS

\* An entry whose base is generator output, and whose hash has user text only
\* in a file that qsdev merges.
EntryClean(p, e) ==
    /\ e.base.edit = 0
    /\ e.hash.edit # 0 => Mergeable(Strategy[p])

\* What planned action a of an update with --force f counts on, given that file
\* p has content c.
ActionFits(p, a, c, f) ==
    /\ a = "create" => c = Absent
    /\ a = "regenerate" =>
          \/ c.edit = 0
          \/ f /\ Strategy[p] # "skip"
          \/ Strategy[p] = "libraryManaged"
    /\ a = "remove" => c.edit = 0 \/ Mergeable(Strategy[p])
    /\ a = "merge" => Mergeable(Strategy[p])

-----------------------------------------------------------------------------
(* Types. *)

LEMMA ContentTypes ==
  /\ Absent \in Content
  /\ \A v \in Versions : Gen(v) \in Content /\ Gen(v).edit = 0 /\ Gen(v) # Absent
  /\ Untracked \in Entry
  /\ Versions \subseteq 0..MaxVersion
  BY LedgerAssumption DEF Absent, Gen, Content, Versions, Entry, Untracked

\* RecordFiles records a content and the generator's, or no, base.
LEMMA RecordFileType ==
  ASSUME NEW p \in Paths, NEW c \in Content, NEW g \in Content,
         NEW o \in Tools \cup {NoTool}
  PROVE  RecordFile(p, c, g, o) \in Entry
  BY ContentTypes DEF RecordFile, Entry

\* A generation is the rendering of its entries, and every set with one entry of
\* a name has a rendering.
LEMMA Renderings ==
  /\ \A g \in Versions : /\ Sections[g] \in SUBSET Parts /\ OneOfEachName(Sections[g])
                         /\ Rendering(Sections[g]) = g
  /\ \A S \in SUBSET Parts : OneOfEachName(S) =>
        Rendering(S) \in Versions /\ Sections[Rendering(S)] = S
<1>1. ASSUME NEW g \in Versions
      PROVE  /\ Sections[g] \in SUBSET Parts /\ OneOfEachName(Sections[g])
             /\ Rendering(Sections[g]) = g
  BY SectionsAssumption DEF Rendering, Versions
<1>2. ASSUME NEW S \in SUBSET Parts, OneOfEachName(S)
      PROVE  Rendering(S) \in Versions /\ Sections[Rendering(S)] = S
  <2>1. PICK g \in Versions : Sections[g] = S
    BY <1>2, SectionsAssumption DEF Versions
  <2>2. QED
    BY <2>1 DEF Rendering
<1>3. QED
  BY <1>1, <1>2

LEMMA SectionsOfType ==
  ASSUME NEW c \in Content
  PROVE  SectionsOf(c) \in SUBSET Parts /\ OneOfEachName(SectionsOf(c))
<1>1. c.gen = 0 \/ c.gen \in Versions
  BY LedgerAssumption DEF Content, Versions
<1>2. QED
  BY <1>1, Renderings DEF SectionsOf, OneOfEachName

LEMMA SectionsOfGen ==
  ASSUME NEW v \in Versions
  PROVE  /\ SectionsOf(Gen(v)) = Sections[v] /\ Rendering(SectionsOf(Gen(v))) = v
         /\ SectionsOf(Absent) = {}
  BY Renderings, LedgerAssumption DEF SectionsOf, Gen, Absent, Versions

\* The merges leave one entry of a name.
LEMMA MergeOneOfEach ==
  ASSUME NEW b \in SUBSET Parts, NEW t \in SUBSET Parts, NEW o \in SUBSET Parts,
         OneOfEachName(b), OneOfEachName(t), OneOfEachName(o)
  PROVE  /\ MergeMcpJson(b, t, o) \in SUBSET Parts /\ OneOfEachName(MergeMcpJson(b, t, o))
         /\ MergeSettings(b, t, o) \in SUBSET Parts /\ OneOfEachName(MergeSettings(b, t, o))
<1>1. ASSUME NEW x \in MergeMcpJson(b, t, o), NEW y \in MergeMcpJson(b, t, o),
             NameOf[x] = NameOf[y]
      PROVE  x = y
  <2>1. Named(b, x) = Named(b, y) /\ Named(t, x) = Named(t, y) /\ Named(o, x) = Named(o, y)
    BY <1>1 DEF Named
  <2>2. (x \in o => x \in Named(o, x)) /\ (y \in o => y \in Named(o, y))
    BY DEF Named
  <2>3. \/ x \in o /\ y \in o
        \/ x \in t /\ y \in t
    BY <2>1, <2>2 DEF MergeMcpJson
  <2>4. QED
    BY <1>1, <2>3 DEF OneOfEachName
<1>2. ASSUME NEW x \in MergeSettings(b, t, o), NEW y \in MergeSettings(b, t, o),
             NameOf[x] = NameOf[y]
      PROVE  x = y
  <2>1. Named(o, x) = Named(o, y)
    BY <1>2 DEF Named
  <2>2. (x \in o => x \in Named(o, x)) /\ (y \in o => y \in Named(o, y))
    BY DEF Named
  <2>3. \/ x \in o /\ y \in o
        \/ x \in t /\ y \in t
    BY <2>1, <2>2 DEF MergeSettings
  <2>4. QED
    BY <1>2, <2>3 DEF OneOfEachName
<1>3. MergeMcpJson(b, t, o) \in SUBSET Parts /\ MergeSettings(b, t, o) \in SUBSET Parts
  BY DEF MergeMcpJson, MergeSettings
<1>4. QED
  BY <1>1, <1>2, <1>3 DEF OneOfEachName

\* The entries of a merged file.
MergedParts(p, b, t, o) ==
    IF p \in Settings THEN MergeSettings(b, t, o) ELSE MergeMcpJson(b, t, o)

LEMMA MergedSections ==
  ASSUME NEW p \in Paths, Strategy[p] = "threeWay", NEW b \in Content, NEW t \in Content,
         NEW v \in 0..MaxVersion
  PROVE  /\ MergeContent(p, b, t, v).gen \in Versions
         /\ SectionsOf(MergeContent(p, b, t, v))
            = MergedParts(p, SectionsOf(b), SectionsOf(t), SectionsOf(Gen(v)))
         /\ MergeContent(p, b, t, v).gen
            = Rendering(MergedParts(p, SectionsOf(b), SectionsOf(t), SectionsOf(Gen(v))))
<1> DEFINE o == SectionsOf(Gen(v))
           r == MergedParts(p, SectionsOf(b), SectionsOf(t), o)
<1>1. Gen(v) \in Content
  BY LedgerAssumption DEF Gen, Content
<1>2. r \in SUBSET Parts /\ OneOfEachName(r)
  BY <1>1, SectionsOfType, MergeOneOfEach DEF MergedParts
<1>3. MergeContent(p, b, t, v).gen = Rendering(r)
  BY DEF MergeContent, MergedParts
<1> HIDE DEF r
<1>4. Rendering(r) \in Versions /\ Sections[Rendering(r)] = r
  BY <1>2, Renderings
<1>5. Rendering(r) # 0
  BY <1>4, LedgerAssumption DEF Versions
<1>6. SectionsOf(MergeContent(p, b, t, v)) = r
  BY <1>3, <1>4, <1>5 DEF SectionsOf
<1>7. QED
  BY <1>3, <1>4, <1>6 DEF r

\* A merge produces content.
LEMMA MergeContentType ==
  ASSUME NEW p \in Paths, NEW b \in Content, NEW t \in Content,
         NEW v \in 0..MaxVersion
  PROVE  MergeContent(p, b, t, v) \in Content
<1>1. MergeContent(p, b, t, v).gen \in 0..MaxVersion
  <2>1. CASE Strategy[p] = "threeWay"
    BY <2>1, MergedSections DEF Versions
  <2>2. CASE Strategy[p] # "threeWay"
    BY <2>2 DEF MergeContent
  <2>3. QED
    BY <2>1, <2>2
<1>2. MergeContent(p, b, t, v).edit \in 0..MaxEdits
  BY LedgerAssumption DEF MergeContent, Content
<1>3. MergeContent(p, b, t, v) = [gen  |-> MergeContent(p, b, t, v).gen,
                                  edit |-> MergeContent(p, b, t, v).edit]
  BY DEF MergeContent
<1>4. QED
  BY <1>1, <1>2, <1>3 DEF Content

LEMMA UserEditsType ==
  ASSUME NEW p \in Paths, NEW c \in Content, NEW d \in UserEdits(p, c)
  PROVE  d \in Content
<1>1. Versions \subseteq 0..MaxVersion /\ c.gen \in 0..MaxVersion
  BY ContentTypes DEF Content
<1>2. QED
  BY <1>1 DEF UserEdits, Content

LEMMA PlanUntrackedType ==
  ASSUME NEW p \in Paths, NEW c, NEW v, NEW f
  PROVE  PlanUntracked(p, c, v, f) \in
           {"create", "regenerate", "merge", "skip"}
  BY DEF PlanUntracked

LEMMA PlanTrackedType ==
  ASSUME NEW p \in Paths, NEW e, NEW c, NEW v, NEW f
  PROVE  PlanTracked(p, e, c, v, f) \in
           {"create", "regenerate", "merge", "sidecar", "skip"}
<1>1. PlanModified(p, c, v, f) \in {"regenerate", "merge", "sidecar", "skip"}
  BY DEF PlanModified
<1>2. QED
  BY <1>1 DEF PlanTracked, Status

-----------------------------------------------------------------------------
(* What an action counts on. *)

LEMMA UntrackedFits ==
  ASSUME NEW p \in Paths, NEW c, NEW v, NEW f \in BOOLEAN
  PROVE  ActionFits(p, PlanUntracked(p, c, v, f), c, f)
  BY DEF ActionFits, PlanUntracked, Gen, Mergeable

LEMMA TrackedFits ==
  ASSUME NEW p \in Paths, NEW e, NEW c, NEW v, NEW f \in BOOLEAN,
         EntryClean(p, e)
  PROVE  ActionFits(p, PlanTracked(p, e, c, v, f), c, f)
<1>1. ActionFits(p, PlanModified(p, c, v, f), c, f)
  BY DEF ActionFits, PlanModified, Gen, Mergeable
<1>2. CASE Status(e, c) = "unmodified"
  BY <1>2 DEF Status, EntryClean, PlanTracked, ActionFits
<1>3. CASE Status(e, c) = "modified"
  BY <1>1, <1>3 DEF PlanTracked
<1>4. CASE Status(e, c) = "deleted"
  BY <1>4 DEF Status, PlanTracked, ActionFits
<1>5. QED
  BY <1>2, <1>3, <1>4 DEF Status

LEMMA OrphanFits ==
  ASSUME NEW p \in Paths, NEW e, NEW c, NEW f, EntryClean(p, e)
  PROVE  ActionFits(p, PlanOrphan(p, e, c), c, f)
  BY DEF ActionFits, PlanOrphan, Status, EntryClean

\* A merge onto a clean base keeps the user's edit.
LEMMA MergeKeepsEdit ==
  ASSUME NEW p \in Paths, NEW b, NEW t, NEW v, b.edit = 0, t.edit # 0
  PROVE  MergeContent(p, b, t, v).edit = t.edit
  BY DEF MergeContent
=============================================================================
