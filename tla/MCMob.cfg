SPECIFICATION FairSpec
CONSTANTS
    ann = ann
    bob = bob
    Players <- MCPlayers
    Poison = Poison
    NoOne = NoOne
    Unset = Unset
    MaxHp = 2
    MaxDeaths = 2
INVARIANTS TypeOK DeadIsScheduled HiddenComesBack LivesApart
PROPERTIES Returns ShownAgain
CHECK_DEADLOCK FALSE
