SPECIFICATION Spec
CONSTANTS
    Conns = {c1, c2}
    Values = {a, b, c}
    MaxValues = 2
    MaxLog = 3
    MaxSwallowed = 1
    None = None
SYMMETRY Symmetry
INVARIANTS SlotMatchesMemory CapKept CacheExact
