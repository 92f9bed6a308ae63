CONSTANTS
    Requests = {w1, w2, w3}
    NoKey = NoKey
    MaxStreaks = 2
    MaxCalls = 4
SPECIFICATION Spec
INVARIANTS ScoreTypeOK PaidWasCommitted
SYMMETRY Symmetry
CHECK_DEADLOCK FALSE
