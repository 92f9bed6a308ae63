CONSTANTS
    Friends = {f1}
    Requests = {w1, w2}
    NoHello = NoHello
    NoDate = NoDate
    NoRow = NoRow
    NoFriend = NoFriend
    Effort = 5
    Priority = {1, 2}
    SettingsUsed <- SettingsTried
    Ages <- AgesTried
    Skews <- SkewsTried
    Draws = {1}
    DueIn = {2, 4}
    MaxDay = 3
    MaxHelloes = 1
    MaxCalls = 3
SPECIFICATION Spec
INVARIANTS MTypeOK  PreviousIsLatest OverdueIsBounded
PROPERTIES VoidsOnlyOverdue
SYMMETRY Symmetry
CHECK_DEADLOCK FALSE
