SPECIFICATION Spec
CONSTANTS
    ann = ann
    bob = bob
    sword = sword
    ring = ring
    potion = potion
    NoRow = NoRow
    Players <- MCPlayers
    Slots = {1, 2}
    Rows <- MCRows
    InitBag <- MCSpaciousBag
    Untradable = {}
    Activated = {}
    TradeSlots = {1}
    MaxRequests = 1
    InitGold <- MCInitGold
    W = 3

PROPERTIES RefusedForSpaceOnly
CHECK_DEADLOCK FALSE
