SPECIFICATION Spec
CONSTANTS
    Cell <- MCCell
    PotionType <- MCPotionType
    NoPotion = "NO_POTION"
    Logs <- DeathLog
CHECK_DEADLOCK FALSE
INVARIANTS
    ShownAgain
