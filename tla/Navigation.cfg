SPECIFICATION NavSpec
CONSTANTS
    NoText = NoText
    Places = {1, 2, 3}
    At <- MCAt
    Info <- MCInfo
    Exts <- MCExts
    Worlds <- MCWorlds
    Types <- MCTypes
    MaxStackSize = 2
INVARIANTS
    CurInStack
    NoRepeat
    MatchFindsAll
    BuddiesMutual
    BuddyFound
    VariantsCycle
    FlipsToPartner
PROPERTIES
    JumpComesBack
    MatchesCycle
    CommandsUseHistory
