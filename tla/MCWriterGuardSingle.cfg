SPECIFICATION Spec
CONSTANTS
    p1 = p1
    p2 = p2
    p3 = p3
    Instances = {p1, p2}
    Host <- OneHost
    Attempts = 2
    None = None
INVARIANTS
    SingleWriter
CHECK_DEADLOCK FALSE
