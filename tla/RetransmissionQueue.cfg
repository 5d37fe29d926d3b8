SPECIFICATION Spec
CONSTANTS
    SubIds = {s1, s2}
    Seqs = {1, 2, 3}
    MaxLens = {2, 3}
    MaxId = 6
INVARIANTS
    IndexConsistent
PROPERTIES
    EntriesImmutable
    ImplementsUnacked
CHECK_DEADLOCK FALSE
