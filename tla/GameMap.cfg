SPECIFICATION Spec
CONSTANTS
    PotionType <- MCPotionType
    NoPotion = "NO_POTION"
    Configs <- MCConfigs
    CustomMaps <- MCCustomMaps
    MaxRefused = 2
INVARIANTS
    MapTypeOK
    NoResidue
    LayoutPlayable
    BirthsOpen
