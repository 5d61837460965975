SPECIFICATION FairSpec
CONSTANTS
    p1 = p1
    p2 = p2
    p3 = p3
    Instances = {p1, p2, p3}
    Host <- TwoHosts
    Attempts = 2
    None = None
INVARIANTS
    TypeOK
    OneWriterUnlessRaced
    LeaseKeptUnlessRaced
    NeverGivesUpUnlessRaced
PROPERTIES
    EveryStartEnds
CHECK_DEADLOCK FALSE
