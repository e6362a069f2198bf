SPECIFICATION Spec
CONSTANTS
    nix = nix
    yaml = yaml
    mcp = mcp
    npmrc = npmrc
    claude = claude
    skill = skill
    tool = tool
    NoPath = NoPath
    NoTool = NoTool
    Tools = {tool}
    Paths <- LibraryPaths
    Strategy <- LibraryStrategy
    Rank <- LibraryRank
    HeldWith <- LibraryHeldWith
    Owner <- LibraryOwner
    Profiles <- LibraryProfiles
    Rejected <- LibraryRejected
    Settings = {skill}
    Parts <- MCParts
    NameOf <- MCNameOf
    Sections <- MCSections
    Releases = {1, 2}
    MaxVersion = 6
    MaxEdits = 1
    MaxFaults = 1
    MaxChanges = 1
INVARIANTS
    OwnOutputAdopted
    ForcedUpdateConverges
PROPERTIES
    EditsSurvive
VIEW LibraryView
