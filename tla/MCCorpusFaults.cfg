SPECIFICATION Spec
CONSTANTS
    Conns = {c1, c2}
    Iris = {u}
    TokenPrefixes = {1}
    Types = {t}
    MaxLog = 3
    NestedActivation = TRUE
    ReadFaults = TRUE
    None = None
SYMMETRY Symmetry
INVARIANTS EveryObservationCounted RebuildTracksLog
PROPERTIES LogKept
