SPECIFICATION Spec
CONSTANTS
    PlayerId = {p1, p2}
    BombId = {b1, b2, b3, b4}
    NoBomb = NoBomb
    NoPlayer = NoPlayer
    kMapDefaultSize = 5
    kPlayerDefaultNum = 2
    kBombDefaultTime = 3
    kBombDefaultRandom = 1
    kGameDefaultMaxRound = 4
    kPlayerDefaultHP = 2
    kPlayerDefaultMaxHP = 2
    kPlayerDefaultSpeed = 1
    kBombDefaultNum = 2
    kBombDefaultRange = 1
    kShieldDefaultTime = 1
    kInvisibleDefaultTime = 2
    kMarkKill = 100
    kMarkDead = 120
    kMarkPick = 10
    kMarkBombMud = 1
    Layouts <- ChainLayouts
SYMMETRY Symmetry
INVARIANTS
    ChainPending
    DiesOnce
