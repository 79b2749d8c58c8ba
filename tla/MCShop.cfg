SPECIFICATION Spec
CONSTANTS
    ann = ann
    bob = bob
    sword = sword
    ring = ring
    NoRow = NoRow
    Players <- MCPlayers
    Slots = {1, 2}
    Rows <- MCRows
    InitBag <- MCInitBag
    Untradable = {}
    Activated = {}
    Sellers = {ann}
    Prices = {1}
    InitGold <- MCInitGold
    MaxSales = 2
INVARIANTS TypeOK NoDuplicateInShops SellersArePaid
 
CONSTRAINT MCOrderly
SYMMETRY MCSymmetry
CHECK_DEADLOCK FALSE
