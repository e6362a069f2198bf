SPECIFICATION Spec
CONSTANTS
    nix = nix
    yaml = yaml
    mcp = mcp
    npmrc = npmrc
    claude = claude
    skill = skill
    tool = tool
    NoPath = NoPath
    NoTool = NoTool
    Tools = {tool}
    Paths <- MergePaths
    Strategy <- MergeStrategy
    Rank <- MergeRank
    HeldWith <- MergeHeldWith
    Owner <- MergeOwner
    Profiles <- MergeProfiles
    Rejected <- MergeRejected
    Settings = {}
    Parts <- MCParts
    NameOf <- MCNameOf
    Sections <- MCSections
    Releases = {1, 2}
    MaxVersion = 6
    MaxEdits = 1
    MaxFaults = 2
    MaxChanges = 2
INVARIANTS
    TypeOK
    BaseIsGenerated
    OwnOutputRecorded
    EntriesFollow
    ForcedUpdateConverges
PROPERTIES
    EditsSurvive
    UpdateIdempotent
