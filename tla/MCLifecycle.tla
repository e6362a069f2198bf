---------------------------- MODULE MCLifecycle ----------------------------
(***************************************************************************)
(* Instances of Lifecycle for TLC.                                         *)
(***************************************************************************)
EXTENDS Lifecycle, TLC

CONSTANTS nix, yaml, mcp, npmrc, claude, skill, tool

\* Release 2 revises the entry of release 1 and generates another.  The other
\* generations are what merges and the user make of theirs.
MCParts == {"a1", "a2", "b"}
MCNameOf == [x \in MCParts |-> IF x = "b" THEN "b" ELSE "a"]
MCSections == <<{"a1"}, {"a2", "b"}, {}, {"a2"}, {"b"}, {"a1", "b"}>>

\* devenv.nix and the devenv.yaml held with it.
PairPaths    == {nix, yaml}
PairStrategy == nix :> "manualMerge" @@ yaml :> "overwrite"
PairRank     == nix :> 1 @@ yaml :> 2
PairHeldWith == nix :> NoPath @@ yaml :> nix
PairOwner    == [p \in PairPaths |-> NoTool]
PairProfiles == {[wanted |-> PairPaths, enabled |-> {}]}
PairRejected == {<<nix, 2>>}

\* A three-way merged file of a tool, which a change of configuration may retire
\* with or without the tool.
MergePaths    == {mcp}
MergeStrategy == mcp :> "threeWay"
MergeRank     == mcp :> 1
MergeHeldWith == mcp :> NoPath
MergeOwner    == mcp :> tool
MergeProfiles == {[wanted |-> {mcp}, enabled |-> {tool}],
                  [wanted |-> {}, enabled |-> {tool}],
                  [wanted |-> {mcp}, enabled |-> {}]}
MergeRejected == {}

\* A section-marker file, a library-managed one and a skip-if-exists one.
LibraryPaths    == {claude, skill, npmrc}
LibraryStrategy == claude :> "sectionMarker" @@ skill :> "libraryManaged" @@ npmrc :> "skip"
LibraryRank     == claude :> 1 @@ skill :> 2 @@ npmrc :> 3
LibraryHeldWith == [p \in LibraryPaths |-> NoPath]
LibraryOwner    == claude :> NoTool @@ skill :> tool @@ npmrc :> NoTool
LibraryProfiles == {[wanted |-> LibraryPaths, enabled |-> {tool}],
                    [wanted |-> {skill}, enabled |-> {}]}
LibraryRejected == {}

\* No file of this instance is merged entry by entry, and no property of its
\* run reads these histories, nor does a step: states that differ in them only
\* are one.
LibraryView == <<fileVars, ledgerVars, envVars, cmdVars, fresh>>
=============================================================================
