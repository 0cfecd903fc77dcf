SPECIFICATION Spec
CONSTANTS
    None = None
    Threads = {t1, t2}
    Corpora = {c1, c2}
    Segments <- MCSegments
    Common <- MCCommon
    Activations <- MCActivations
    CacheMax = 1
INVARIANTS AnswersCurrent CacheBounded
SYMMETRY Symmetry
