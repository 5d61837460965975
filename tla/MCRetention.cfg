SPECIFICATION Spec
CONSTANTS
    i1 = i1
    i2 = i2
    w1 = w1
    w2 = w2
    Workers = {w1, w2}
    Items = {i1, i2}
    Mems = {1, 2}
    Class <- TransientAndOperational
    Low = {1}
    Born <- AtZero
    Start <- NoteAndTask
    Dates = {0, 1}
    RevalidateIn = 2
    ReviewIn = 1
    ArchiveAge = 1
    RecallShelters = 1
    MaxNow = 1
    Touched = {1}
    NoTime = NoTime
    None = None
INVARIANTS
    TypeOK
    LedgerExplains
    BatchFromBackup
PROPERTIES
    AppliedAsReviewed
SYMMETRY AnyNames
CHECK_DEADLOCK FALSE
