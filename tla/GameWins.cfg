\* Two requests at a time, two sessions; Ben's capsule can be brought back once.
CONSTANTS
    anna = anna
    ben = ben
    a1 = a1
    a2 = a2
    b1 = b1
    Users = {anna, ben}
    Capsules = {a1, a2, b1}
    Owner <- MCOwner
    About <- MCAbout
    Given <- MCGiven
    NONE = "NONE"
    Types = {"NONE", "COMPLIMENT", "JEALOUS"}
    MatchTypes = {"JEALOUS"}
    Inviters = {anna}
    Workers = {w1, w2}
    OfferIds = {m1, m2}
    MaxLife <- MCLives
    MaxSesh = 2
    NoOffer = NoOffer
    NoMatch = NoMatch
    NoRow = NoRow
SPECIFICATION Spec
SYMMETRY IdSymmetry
INVARIANTS GTypeOK OffersStand WonOnce WinsAreFair ScoreboardCounts
PROPERTY SharedStaysUnwon
