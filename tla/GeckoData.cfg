CONSTANTS
    w1 = w1
    w2 = w2
    f1 = f1
    f2 = f2
    Requests = {w1, w2}
    Friends = {f1, f2}
    Solo = Solo
    Totals = Totals
    NoOne = NoOne
    Units = {0, 1}
    Windows <- MCWindows
    NoWindow = NoWindow
    Hours = 2
    NoRow = NoRow
    NoKey = NoKey
    MaxClock = 2
    MaxLogs = 1
    MaxCalls = 3
SPECIFICATION Spec
INVARIANTS DTypeOK SessionsKeepSteps ScoreboardWithinFriend SeedIsSum
SYMMETRY Symmetry
CHECK_DEADLOCK FALSE
