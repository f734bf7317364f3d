SPECIFICATION LogSpec
CONSTANTS
    PlayerId = {1, 2}
    BombId = {b1, b2}
    NoBomb = NoBomb
    NoPlayer = NoPlayer
    kMapDefaultSize = 5
    kPlayerDefaultNum = 2
    kBombDefaultTime = 3
    kBombDefaultRandom = 0
    kGameDefaultMaxRound = 5
    kPlayerDefaultHP = 1
    kPlayerDefaultMaxHP = 2
    kPlayerDefaultSpeed = 1
    kBombDefaultNum = 1
    kBombDefaultRange = 1
    kShieldDefaultTime = 1
    kInvisibleDefaultTime = 2
    kMarkKill = 100
    kMarkDead = 120
    kMarkPick = 10
    kMarkBombMud = 1
    Layouts <- GlovesUnderMud
PROPERTY StepBack
