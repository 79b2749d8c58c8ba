SPECIFICATION MCSpec
CONSTANTS
    gem = gem
    gear = gear
    NoKind = NoKind
    BagSlots = {1, 2, 3}
    BankSlots = {4}
    Kinds = {gem, gear}
    Stackable = {gem}
    Tradable = {gem, gear}
    Gear = {gear}
    InitBags <- MCBags
    MaxRow = 5
    MaxStarts = 2
    Runners = {1, 2}
    ann = ann
    bob = bob
    CRows = {1, 2, 3}
    Chars = {ann, bob}
    NoChar = NoChar
    CSlots = {1, 2}
    NoCRow = NoCRow
    NoFree = NoFree
    InitHeld <- MCHeld
    MaxListings = 2
    MaxCalls = 4
    Callers = {1, 2}
    Custody = Custody
    Nowhere = Nowhere
    MRows = {1, 2}
    MChars = {ann, bob}
    Nobody = Nobody
    MSlots = {1, 2}
    NoneIn = NoneIn
    Inserted <- MCInserted
    Purse <- MCPurse
    Fee = 1
    GoldSize = 16
    MaxMails = 2
    Postmen = {1}
INVARIANTS BagSurvivesRelogin NothingLost  
CONSTRAINT MCUndisturbed
 
CHECK_DEADLOCK FALSE
