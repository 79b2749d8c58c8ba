SPECIFICATION MCSpec
CONSTANTS
    ann = ann
    bob = bob
    cat = cat
    People = {ann, bob, cat}
    GuildIDs = {1, 2}
    Account <- MCAccount
    NoGuild = NoGuild
    Coins = 1
    Fee = 1
    CoinSize = 4
    Ranks = {1, 5}
    Clerks = {1, 2}
    MaxOrders = 4
    Order = {ann}
    Shao = {bob}
    Wars = {1, 2}
    Resets = {1, 2}
    WarmUp = 1
    WarTime = 1
    Points = 1
    Worth = 1
    MaxValue = 2
    Low = 0
    High = 2
    Off = Off
    Due = Due
    Scoring = Scoring
    Leaders = {ann, cat}
    Followers = {bob}
    Servers = {1, 2}
    None = None
INVARIANTS RollsAgree DungeonsApart
CONSTRAINT MCUndisturbed
PROPERTY WarsTakeTurns
CHECK_DEADLOCK FALSE
