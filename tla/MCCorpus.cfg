SPECIFICATION Spec
CONSTANTS
    Conns = {c1, c2}
    Iris = {u}
    TokenPrefixes = {1, 2}
    Types = {t}
    MaxLog = 2
    NestedActivation = FALSE
    ReadFaults = FALSE
    None = None
INVARIANTS ViewsMatchLog ClassifierCurrent
PROPERTIES ActivationReported SerializesToAtomic RebuildReturns
