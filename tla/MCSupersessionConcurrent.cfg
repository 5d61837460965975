SPECIFICATION Spec
CONSTANTS
    m1 = m1
    m2 = m2
    m3 = m3
    m4 = m4
    Memories = {m1, m2, m3}
    Operators = {p1, p2}
    Reasons = {r1}
    None = None
    Domain <- OneDomain
    InitialState <- AllValidated
    Weak = {}
    Firm = {}
    Protected = {}
    Confirming = {}
    Archivable = {m1, m2}
SYMMETRY Symmetry
INVARIANTS
    TypeOK
    OneActiveLink
PROPERTIES
    RunHistoryFinal
    UndoRecordTrue
    EveryChangeAudited
CHECK_DEADLOCK FALSE
