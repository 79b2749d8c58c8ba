SPECIFICATION FairSpec
CONSTANTS
    ann = ann
    bob = bob
    field = field
    cave = cave
    herb = herb
    sword = sword
    NoOne = NoOne
    Killers = {ann}
    Chars <- MCChars
    Maps <- MCMaps
    Numbers = {1}
    Items <- MCItems
    Stackable <- MCStackable
    Room = 2
    MaxDrops = 2
    MaxStack = 2
    MaxFailures = 1
INVARIANT DropsConserved
PROPERTIES TakenOrExpired DropsExpire
CHECK_DEADLOCK FALSE
