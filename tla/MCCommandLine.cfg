SPECIFICATION Spec
CONSTANTS
    old = old
    new = new
    None = None
    Processes = {old, new}
    Version <- MCVersion
    Cap <- MCCap
    Invocations <- MCInvocations
    InputFiles <- MCInputFiles
    BadFiles <- MCBadFiles
    PathLike <- MCPathLike
    Parseable <- MCParseable
    Flags <- MCFlags
    ValueOf <- MCValueOf
    DbPath = "default.db"
    Candidates <- MCCandidates
    MaxFiles = 2
    MaxRetries = 1
    MaxFaults = 1
    MaxRuns = 2
CHECK_DEADLOCK FALSE
INVARIANTS OpenedUsable ExitTells ActivationsTold
PROPERTIES FirstRecordStays
