SPECIFICATION Spec
CONSTANTS
    Keys = {"go", "wiki6", "wiki7"}
    DevDocs = {"go"}
    Archive <- MCArchive
    Workers = {"a1", "a2", "b1"}
    Procs = {"a", "b"}
    ProcOf <- MCProcOf
    NoWorker = "-"
    MaxContent = 2
    MaxJobs = 3
    MaxFaults = 1
INVARIANTS
    RecordTrue
    OneRelease
    SwapKeepsOne
    MutexLent
PROPERTIES
    FailedDownloadKeeps
CHECK_DEADLOCK FALSE
