CONSTANTS
    w1 = w1
    w2 = w2
    f1 = f1
    f2 = f2
    Requests = {w1}
    Friends = {f1}
    Solo = Solo
    Totals = Totals
    NoOne = NoOne
    Units = {0, 1}
    Windows <- MCWindows
    NoWindow = NoWindow
    Hours = 2
    NoRow = NoRow
    NoKey = NoKey
    MaxClock = 2
    MaxLogs = 0
    MaxCalls = 3
SPECIFICATION Spec
INVARIANT HourCounts
CHECK_DEADLOCK FALSE
