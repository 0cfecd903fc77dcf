SPECIFICATION Spec
CONSTANTS
    None = None
    Inputs <- MCInputs
    Readable <- MCReadable
    Recognizers <- MCRecognizers
    MaxValues = 2
    MaxExamples = 2
    MaxLog = 3
    SchemeWords <- MCSchemeWords
    PortOf <- MCPortOf
    PortWord <- MCPortWord
    LowerOf <- MCLowerOf
    TypeOf <- MCTypeOf
    PrefixOf <- MCPrefixOf
    Singular <- MCSingular
    CanonicalOf <- MCCanonicalOf
    NameHints <- MCNameHints
    TwoLabelSuffixes <- MCSuffixes
    HostStrategy = "registrable"
INVARIANTS ExportLoads CanonicalReparses TraceAgrees CrossHostMatchesLog
PROPERTY ReadsAsMemory
CHECK_DEADLOCK FALSE
