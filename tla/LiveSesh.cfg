CONSTANTS
    a = a
    b = b
    c = c
    Users <- MCUsers
    Links <- MCLinks
    Workers = {w1, w2}
    Levels = {1}
    Level1 = 1
    MaxSessions = 3
    NoRow = NoRow
SPECIFICATION Spec
SYMMETRY WorkerSymmetry
INVARIANTS TypeOK SessionsArePairs LiveAreMatched LiveLogIsOpen
PROPERTY RegistryOfPairs
