SPECIFICATION Spec
CONSTANTS
    ann = ann
    bob = bob
    field = field
    cave = cave
    herb = herb
    sword = sword
    NoOne = NoOne
    Killers = {ann}
    Chars <- MCChars
    Maps <- MCMaps
    Numbers = {1}
    Items <- MCItems
    Stackable <- MCStackable
    Room = 2
    MaxDrops = 2
    MaxStack = 2
    MaxFailures = 1
PROPERTY ReservedForClaimer
CHECK_DEADLOCK FALSE
