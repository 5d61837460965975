SPECIFICATION FairSpec
CONSTANTS
    Callers = {c1, c2, c3}
    Keys = {k1}
    Requests = {save, other}
    Results = {r1, r2}
    None = None
INVARIANTS
    TypeOK
    AtMostOnce
    AnswersAreFaithful
    Inductive
PROPERTIES
    OutcomesAreFinal
    EveryCallReturns
    KeepsPromise
