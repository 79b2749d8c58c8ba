SPECIFICATION MCSpec
CONSTANTS
    ann = ann
    bob = bob
    cid = cid
    tokenA = tokenA
    tokenB = tokenB
    tokenC = tokenC
    NoRow = NoRow
    other = other
    mob = mob
    npc = npc
    number = number
    pet = pet
    here = here
    there = there
    cave = cave
    Players <- MCPlayers
    Slots = {1}
    Rows <- MCRows
    InitBag <- MCInitBag
    Untradable <- MCRows
    Activated = {}
    TradeSlots = {}
    MaxRequests = 2
    InitGold <- MCInitGold
    W = 3
    Things <- MCThings
    KindOf <- MCKindOf
    Casts <- MCCasts
    Places <- MCPlaces
    MapOf <- MCMapOf
INVARIANT WatchedMobsKnow
PROPERTIES  RequestResolved SightSettles
CHECK_DEADLOCK FALSE
