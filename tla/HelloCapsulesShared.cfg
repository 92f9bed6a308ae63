CONSTANTS
    Capsules = {c1, c2}
    Helloes = {h0, h1}
    First = h0
    Requests = {w1, w2}
    NoOne = NoOne
    NoHello = NoHello
    MaxCalls = 2
SPECIFICATION Spec
PROPERTIES SharedAreArchived
CHECK_DEADLOCK FALSE
