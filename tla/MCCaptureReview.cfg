SPECIFICATION Spec
CONSTANTS
    a = a
    b = b
    c = c
    r = r
    s = s
    o1 = o1
    o2 = o2
    Operators = {o1, o2}
    Items = {1, 2}
    Contents = {a, b, c}
    Refs = {r, s}
    NoRef = NoRef
    Near <- CloseToA
    Pool <- OneMemory
    Saved <- SameAgain
    Captured <- Meeting
    MaxMemory = 2
    None = None
INVARIANTS
    TypeOK
    NoTwins
    EveryEffectApproved
    LedgerTrueUnlessOvertaken
PROPERTIES
    AgreedIsDone
SYMMETRY AnyOperator
CHECK_DEADLOCK FALSE
