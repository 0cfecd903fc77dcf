SPECIFICATION Spec
CONSTANTS
    Iris <- MCIris
    TokenPrefixes = {"tok_"}
    Types = {"tok", "key"}
    MaxLog = 4
    None = None
    TypeOf <- MCTypeOf
    PrefixOf <- MCPrefixOf
    Singular <- MCSingular
    Canonical = {"usd"}
    MinObservations = 3
    MinCardinality = 3
    PopularCount = 2
    MinProposed = 2
INVARIANTS Settled FewObservationsMechanical ActivatedNotProposed
