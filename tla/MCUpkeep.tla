------------------------------ MODULE MCUpkeep ------------------------------
(***************************************************************************)
(* Small instances of Upkeep: an always-on tool with a hook, the library   *)
(* it loads and its entry in the settings; and an optional tool with a     *)
(* template of its own and sections in .mcp.json and devenv.nix.  A        *)
(* configuration picks the Paths and the Registry it follows.              *)
(***************************************************************************)
EXTENDS Upkeep

MCTools == Registry \cup {"hooklib"}

Only(f) == [p \in Paths |-> f[p]]

MCStrategy ==
    Only([hook |-> "overwrite", lib |-> "overwrite", settings |-> "threeWay",
          mcp |-> "threeWay", nix |-> "manualMerge", tpl |-> "skip"])
MCOwner ==
    Only([hook |-> "guard", lib |-> "hooklib", settings |-> "-",
          mcp |-> "-", nix |-> "-", tpl |-> "agent"])
MCHeldWith == [p \in Paths |-> "-"]
MCShares ==
    [p \in Paths |-> CASE p = "settings" -> {"guard"}
                       [] p \in {"mcp", "nix"} -> {"agent"}
                       [] OTHER          -> {}]
MCHosts == [p \in Paths |-> IF p = "lib" THEN {"guard"} ELSE {}]
MCNameOf == [t \in Registry |-> t]
ToolSections == <<{}, {"agent"}>>
PairSections == <<{}, {"guard"}, {"agent"}, {"guard", "agent"}>>
MCRank == Only([lib |-> 1, hook |-> 2, settings |-> 3, mcp |-> 4, tpl |-> 5, nix |-> 6])
=============================================================================
