SPECIFICATION Spec
CONSTANTS
    nix = nix
    yaml = yaml
    mcp = mcp
    npmrc = npmrc
    claude = claude
    skill = skill
    tool = tool
    NoPath = NoPath
    NoTool = NoTool
    Tools = {tool}
    Paths <- PairPaths
    Strategy <- PairStrategy
    Rank <- PairRank
    HeldWith <- PairHeldWith
    Owner <- PairOwner
    Profiles <- PairProfiles
    Rejected <- PairRejected
    Settings = {}
    Parts <- MCParts
    NameOf <- MCNameOf
    Sections <- MCSections
    Releases = {1, 2}
    MaxVersion = 6
    MaxEdits = 1
    MaxFaults = 1
    MaxChanges = 2
PROPERTY
    PairNeverSplit
