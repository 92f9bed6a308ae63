\* A change that is lost or crossed, and one that heals it.
CONSTANTS
    host = host
    guest = guest
    Levels = {1, 2}
    Level1 = 1
    NoLevel = NoLevel
    None = None
    Off = Off
    Ready = Ready
    Done = Done
    Changes = {k1, k2}
    Tasks = {t1, t2}
    Leavers = {guest}
SPECIFICATION LSpec
INVARIANTS LTypeOK ChangeAloneHeals
SYMMETRY Symmetry
CHECK_DEADLOCK FALSE
