SPECIFICATION Spec
CONSTANTS
    p = p
    q = q
    u = u
    v = v
    Workers = {u, v}
    Paths = {p, q}
    Contents = {0, 1}
    Initial <- FirstTree
    Edited <- BothEdited
    MaxCommits = 3
    MaxRows = 2
    MaxActs = 2
INVARIANTS
    TypeOK
    ConfirmedUnlessRaced
    OthersStayUnlessRaced
    AllOrNothingUnlessRaced
CONSTRAINTS
    UpToRace
    FewTogether
SYMMETRY Alike
CHECK_DEADLOCK FALSE
