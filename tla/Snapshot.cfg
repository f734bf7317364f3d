SPECIFICATION WalkSpec
CONSTANTS
    Cell <- MCCell
    PotionType <- MCPotionType
    NoPotion = "NO_POTION"
    Logs <- MCLogs
CHECK_DEADLOCK FALSE
INVARIANTS
    SnapshotTypeOK
    BoardRestored
    RoundCount
PROPERTIES
    StopsAtFlush
    CommandsReturn
