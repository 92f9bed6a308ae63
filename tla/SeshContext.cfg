CONSTANTS
    a = a
    b = b
    c = c
    Users <- MCUsers
    Links <- MCLinks
    Workers = {w1}
    Levels = {1, 2}
    Level1 = 1
    MaxSessions = 2
    NoRow = NoRow
    Readers = {b}
    Pulls = {p1}
    None = None
    NoSesh = NoSesh
    NoPull = NoPull
    Off = Off
SPECIFICATION CSpec
INVARIANTS CTypeOK StaleKeyIsOwed
