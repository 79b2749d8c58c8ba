SPECIFICATION Spec
CONSTANTS
    ann = ann
    bob = bob
    sword = sword
    ring = ring
    potion = potion
    NoRow = NoRow
    Players <- MCPlayers
    Slots = {1, 2}
    Rows <- MCRows
    InitBag <- MCInitBag
    Untradable = {}
    Activated <- MCActivated
    TradeSlots = {1}
    MaxRequests = 1
    InitGold <- MCInitGold
    W = 3
INVARIANTS NoDuplicateRow GoldConserved NeverLockedOut
PROPERTIES AcceptanceBindsOffers OnlyOfferedRowsMove NothingOverwritten
CHECK_DEADLOCK FALSE
