SPECIFICATION Spec
CONSTANTS
    Paths = {"hook", "lib", "settings"}
    NoPath = "-"
    Strategy <- MCStrategy
    HeldWith <- MCHeldWith
    Tools <- MCTools
    NoTool = "-"
    Owner <- MCOwner
    Settings = {"settings"}
    Parts = {"guard", "agent"}
    NameOf <- MCNameOf
    MaxVersion = 4
    MaxEdits = 1
    Registry = {"guard", "agent"}
    ClaudeCode = "claude"
    Claude = {"hook", "lib", "settings"}
    Shares <- MCShares
    Hosts <- MCHosts
    Core = {"settings"}
    Sections <- PairSections
    Strippable = {}
    Pinned = {}
    AlwaysOn = {"guard"}
    Rank <- MCRank
    KeepBackups = 1
    MaxFaults = 1
    MaxChanges = 1
INVARIANTS
    RecordExact
    HooksKeepTheirLibrary
    TeardownLeavesNothing
PROPERTIES
    ChangeComplete
    UserTextKept
CHECK_DEADLOCK FALSE
