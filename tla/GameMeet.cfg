SPECIFICATION LogSpec
CONSTANTS
    PlayerId = {1, 2, 3}
    BombId = {b1}
    NoBomb = NoBomb
    NoPlayer = NoPlayer
    kMapDefaultSize = 5
    kPlayerDefaultNum = 3
    kBombDefaultTime = 3
    kBombDefaultRandom = 0
    kGameDefaultMaxRound = 3
    kPlayerDefaultHP = 1
    kPlayerDefaultMaxHP = 2
    kPlayerDefaultSpeed = 1
    kBombDefaultNum = 1
    kBombDefaultRange = 1
    kShieldDefaultTime = 1
    kInvisibleDefaultTime = 3
    kMarkKill = 100
    kMarkDead = 120
    kMarkPick = 10
    kMarkBombMud = 1
    Layouts <- MeetLayouts
SYMMETRY BombSymmetry
INVARIANTS
    PlayerPlacement
    ReplayAgrees
PROPERTIES
    MarksBalance
    DeadFrozen
    DeadPickNothing
    LogContract
