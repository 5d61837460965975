SPECIFICATION Spec
CONSTANTS
    m1 = m1
    m2 = m2
    m3 = m3
    m4 = m4
    Memories = {m1, m2, m3, m4}
    Operators = {p1}
    Reasons = {r1}
    None = None
    Domain <- OneDomain
    InitialState <- Mixed
    Weak = {m3}
    Firm = {m1}
    Protected = {m2}
    Confirming = {p1}
    Archivable = {m1, m4}
PROPERTIES
    RollbackRestoresLinks
CHECK_DEADLOCK FALSE
