SPECIFICATION MCSpec
CONSTANTS
    ann = ann
    bob = bob
    cat = cat
    dan = dan
    eve = eve
    fay = fay
    None = None
    Chars <- MCChars
    MaxParties = 3
    MaxInvites = 3
    MaxMembers = 2
    QueueTime = 1
    RoundTime = 2
    WinNumber = 2
    MaxGames = 3
    MaxMatches = 2
INVARIANTS TypeOK  VerdictsAreFair FoundedIsServed
CONSTRAINT MCOrderly
PROPERTY MatchesEnd
CHECK_DEADLOCK FALSE
