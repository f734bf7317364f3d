SPECIFICATION Spec
CONSTANTS
    kIncrMaxID = 4
    kPlayerDefaultNum = 2
    kPlayerDefaultSpeed = 2
    kBombDefaultNum = 1
    kBombDefaultTime = 1
    kGameDefaultMaxRound = 2
INVARIANTS
    FreshIds
    LabelsDistinct
    ChargedForOwn
