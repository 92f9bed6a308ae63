CONSTANTS
    Capsules = {c1, c2}
    Helloes = {h0, h1}
    First = h0
    Requests = {w1, w2}
    NoOne = NoOne
    NoHello = NoHello
    MaxCalls = 4
SPECIFICATION Spec
INVARIANTS HTypeOK CapsulesAreAccountedFor
SYMMETRY Symmetry
CHECK_DEADLOCK FALSE
