SPECIFICATION Spec
CONSTANTS
    w1 = w1
    w2 = w2
    Workers = {w1, w2}
    Service <- Shared
    Contents = {a, b, Missing}
    Missing = Missing
    Initial = Missing
    None = None
    MaxOps = 3
INVARIANTS
    TypeOK
    Inductive
    LedgerBalances
    RolledBackIsRestored
PROPERTIES
    NoLostUpdate
    KeepsLedger
