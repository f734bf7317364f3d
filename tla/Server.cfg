SPECIFICATION FairSpec
CONSTANTS
    Fd = {f1, f2, f3}
    NoFd = NoFd
    PlayerId = {p1, p2, p3}
    kPlayerDefaultNum = 2
    kGameDefaultMaxRound = 1
    Mark <- TwoMarks
INVARIANTS
    ServerTypeOK
    OneVoice
    MessagesFresh
    ResultTold
    OwnPlayer
PROPERTIES
    NextMatchOpens
