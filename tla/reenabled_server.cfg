SPECIFICATION Spec
CONSTANTS
    Paths = {"mcp", "nix", "tpl"}
    NoPath = "-"
    Strategy <- MCStrategy
    HeldWith <- MCHeldWith
    Tools <- MCTools
    NoTool = "-"
    Owner <- MCOwner
    Settings = {}
    Parts = {"agent"}
    NameOf <- MCNameOf
    MaxVersion = 2
    MaxEdits = 1
    Registry = {"agent"}
    ClaudeCode = "claude"
    Claude = {"mcp"}
    Shares <- MCShares
    Hosts <- MCHosts
    Core = {"nix"}
    Sections <- ToolSections
    Strippable = {"mcp", "nix"}
    Pinned = {"nix"}
    AlwaysOn = {}
    Rank <- MCRank
    KeepBackups = 1
    MaxFaults = 1
    MaxChanges = 1
PROPERTY
    EnableAddsSections
CHECK_DEADLOCK FALSE
