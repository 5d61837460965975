SPECIFICATION Spec
CONSTANTS
    w1 = w1
    w2 = w2
    Workers = {w1, w2}
    Service <- PerCall
    Contents = {a, b, Missing}
    Missing = Missing
    Initial = a
    None = None
    MaxOps = 1
INVARIANTS
    RolledBackIsRestored
