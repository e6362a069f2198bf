------------------------------- MODULE Ledger -------------------------------
(***************************************************************************)
(* What qsdev knows about the files it generates into a project: merge     *)
(* strategies, the state file's entries, the on-disk status derived from   *)
(* them, the committed manifest, and the merge of generated content with   *)
(* the user's (pkg/types, internal/state, internal/merge).                 *)
(*                                                                         *)
(* A file's content is abstracted to the two things the code tells apart:  *)
(* which generation of qsdev output it carries (gen, 0 for none) and which *)
(* user edit it carries (edit, 0 for none).  A generation stands for the   *)
(* entries (MCP servers, hooks, sections) qsdev wrote that are still there *)
(* as it wrote them.  A content hash identifies its content, so hashes are *)
(* contents.                                                               *)
(***************************************************************************)
EXTENDS Naturals

CONSTANTS
    Paths,       \* project-relative paths of generated files
    NoPath,      \* "no partner" in HeldWith
    Strategy,    \* [Paths -> Strategies]: the generator's merge strategy
    HeldWith,    \* [Paths -> Paths \cup {NoPath}]: GeneratedFile.HeldWith
    Tools,       \* tools that may own generated files
    NoTool,      \* the empty Owner
    Owner,       \* [Paths -> Tools \cup {NoTool}]: GeneratedFile.Owner
    Settings,    \* paths holding the Claude Code project settings
    Parts,       \* the entries, each in one revision, that qsdev generates
    NameOf,      \* [Parts -> names]: what an entry is keyed by in its file
    Sections,    \* [Versions -> SUBSET Parts]: the entries of a generation
    MaxVersion,  \* bound: the generations are 1..MaxVersion
    MaxEdits     \* bound: distinct user texts 1..MaxEdits

\* types.MergeStrategy
Strategies == {"overwrite", "append", "merge", "skip", "sectionMarker",
               "threeWay", "libraryManaged", "manualMerge"}

ASSUME LedgerAssumption ==
    /\ NoPath \notin Paths
    /\ NoTool \notin Tools
    /\ Strategy \in [Paths -> Strategies]
    /\ HeldWith \in [Paths -> Paths \cup {NoPath}]
    /\ \A p \in Paths : HeldWith[p] # NoPath => HeldWith[HeldWith[p]] = NoPath
    /\ Owner \in [Paths -> Tools \cup {NoTool}]
    /\ Settings \subseteq Paths
    /\ MaxVersion \in Nat \ {0}
    /\ MaxEdits \in Nat

\* A file has at most one entry of a name.
OneOfEachName(S) == \A x, y \in S : NameOf[x] = NameOf[y] => x = y

\* Generations and the entries they stand for determine each other.
ASSUME SectionsAssumption ==
    /\ Sections \in [1..MaxVersion -> SUBSET Parts]
    /\ \A g \in 1..MaxVersion : OneOfEachName(Sections[g])
    /\ \A g, h \in 1..MaxVersion : Sections[g] = Sections[h] => g = h
    /\ \A S \in SUBSET Parts :
         OneOfEachName(S) => \E g \in 1..MaxVersion : Sections[g] = S

-----------------------------------------------------------------------------
(* Contents and state entries. *)

Versions == 1..MaxVersion
Content  == [gen : 0..MaxVersion, edit : 0..MaxEdits]

Absent == [gen |-> 0, edit |-> 0]
Gen(v) == [gen |-> v, edit |-> 0]

\* The generated entries in content c, and the generation that has entries S.
SectionsOf(c) == IF c.gen = 0 THEN {} ELSE Sections[c.gen]
Rendering(S) == CHOOSE g \in Versions : Sections[g] = S

\* types.FileState: content hash, three-way base and owning tool.
Entry     == [hash : Content, base : Content, owner : Tools \cup {NoTool}]
Untracked == [hash |-> Absent, base |-> Absent, owner |-> NoTool]
Tracked(e) == e.hash # Absent

\* MergeStrategy.IsHumanEdited.
HumanEdited(s) == s \in {"merge", "sectionMarker", "threeWay", "manualMerge"}

\* Strategies whose write keeps the user's text inside the file.
Mergeable(s) == s \in {"sectionMarker", "threeWay"}

\* A file whose merge bytes became the base: the base takes what was written.
EntryBaseFromDisk(p, written, generated, o) ==
    [hash |-> written,
     base |-> IF Strategy[p] = "threeWay" THEN written ELSE Absent,
     owner |-> o]

\* RecordFiles: the entry of a file written with content `written` when the
\* generator produced `generated`.  The three-way base is what the generator
\* produced, never the merge result.
RecordFile(p, written, generated, o) ==
    [hash |-> written,
     base |-> IF Strategy[p] = "threeWay" THEN generated ELSE Absent,
     owner |-> o]

\* CheckFile.  File modes and unreadable files are left out.
Status(e, onDisk) ==
    CASE onDisk = Absent -> "deleted"
      [] onDisk = e.hash -> "unmodified"
      [] OTHER           -> "modified"

\* What the user may turn content c of p into with an editor.  In a file merged
\* entry by entry they may also take out or rewrite some of qsdev's entries,
\* which are then no longer there as qsdev wrote them.
UserEdits(p, c) ==
    LET kept == IF Strategy[p] = "threeWay" /\ c.gen # 0
                THEN {g \in Versions : Sections[g] \subseteq Sections[c.gen]}
                ELSE {c.gen}
    IN  [gen : kept, edit : 0..MaxEdits] \ {c}

-----------------------------------------------------------------------------
(* The merges. *)

Named(S, x) == {y \in S : NameOf[y] = NameOf[x]}

\* A merge that asks whether an entry differs from ours, not from the base.
MergeMcpComparesOurs(b, t, o) ==
    {x \in o : Named(b, x) = {} \/ Named(t, x) = Named(o, x)}
    \cup {x \in t : /\ Named(t, x) # Named(o, x)
                    /\ Named(b, x) # {} \/ Named(o, x) = {}}

\* MergeMcpJson over base b, theirs t and ours o: an entry of ours goes in unless
\* the base has it and theirs differs, which then stands, also as a deletion; an
\* entry of theirs that ours lacks stays unless it is still the base's.
MergeMcpJson(b, t, o) ==
    {x \in o : Named(b, x) = {} \/ Named(t, x) = Named(b, x)}
    \cup {x \in t : /\ Named(t, x) # Named(b, x)
                    /\ Named(b, x) # {} \/ Named(o, x) = {}}

\* MergeSettings: all of ours, and what theirs has beyond the base.
MergeSettings(b, t, o) ==
    o \cup {x \in t : Named(b, x) = {} /\ Named(o, x) = {}}

\* A merge that keeps nothing of the file it merges into.
MergeReplaces(p, base, theirs, v) == Gen(v)

\* merge.Dispatch for the two merging strategies.  A section-marker merge
\* replaces the generated block.  Both keep the user's text; the three-way merge
\* takes for generated, and so drops, what the recorded base already held.
MergeContent(p, base, theirs, v) ==
    LET b == SectionsOf(base)
        t == SectionsOf(theirs)
        o == SectionsOf(Gen(v))
    IN  [gen  |-> CASE Strategy[p] # "threeWay" -> v
                    [] Strategy[p] = "threeWay" /\ p \in Settings ->
                          Rendering(MergeSettings(b, t, o))
                    [] OTHER -> Rendering(MergeMcpJson(b, t, o)),
         edit |-> IF Strategy[p] = "threeWay" /\ base.edit = theirs.edit
                  THEN 0 ELSE theirs.edit]

\* BuildManifest: hashes of the machine-owned tracked files.
BuildManifest(st) ==
    [p \in Paths |-> IF HumanEdited(Strategy[p]) THEN Absent ELSE st[p].hash]
=============================================================================
