SPECIFICATION FairSpec
CONSTANTS
    PlayerId = {p1, p2, p3}
    kPlayerDefaultNum = 2
    kGameDefaultMaxRound = 1
    Mark <- TwoMarks
CHECK_DEADLOCK FALSE
INVARIANTS
    KeyboardOfMatch
PROPERTIES
    MatchesFollow
