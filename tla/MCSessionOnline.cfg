SPECIFICATION Spec
CONSTANTS
    ann = ann
    hero = hero
    one = one
    two = two
    NoUser = NoUser
    NoChar = NoChar
    NoConn = NoConn
    Users <- MCUsers
    Chars <- MCChars
    UserID <- MCUserID
    Conns <- MCConns
    Objs = {1, 2}
    Ids = {1, 2}
PROPERTY LoginFindsOnline
CHECK_DEADLOCK FALSE
