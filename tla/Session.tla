------------------------------- MODULE Session -------------------------------
(***************************************************************************)
(* Accounts, connections and the register of players (auth/login.go,       *)
(* server_list.go, server_select.go, character_menu.go,                    *)
(* character_selection.go, start_game.go, player/system.go,                *)
(* database/socket.go, users.go, server/register.go and Character.Logout). *)
(* A client logs in on one connection, selects a server, comes back on     *)
(* another one, selects a character and starts the game.  Every packet is  *)
(* handled by a goroutine of its own, which may run after the connection   *)
(* was closed; a logout waits for the database before it leaves the        *)
(* register; the cached character may be replaced by a new object.         *)
(***************************************************************************)
EXTENDS Naturals, FiniteSets, Functions

CONSTANTS Users, Chars,
          UserID,       \* the user of each character
          Conns,        \* connections
          NoUser, NoChar, NoConn,
          Objs,         \* bound: Character objects, numbered
          Ids           \* pseudo ids (1..2000 in the code)

ASSUME SessionAssumption ==
    /\ UserID \in [Chars -> Users]
    /\ NoUser \notin Users /\ NoChar \notin Chars /\ NoConn \notin Conns
    /\ Objs \subseteq Nat \ {0} /\ Ids \subseteq Nat \ {0}

NoObj == 0

VARIABLES loaded,             \* users in the cache
          ConnectedIP,        \* users with a ConnectedIP
          ConnectingIP,       \* users with a ConnectingIP
          IsLoginedFromPanel, \* users with that flag set
          Sockets,            \* the registered socket of a user
          conn,               \* a connection is open, closed, or done: closed and seen by its Read loop
          User,               \* s.User
          stale,              \* connections whose s.User is no longer the cached object
          Character,          \* s.Character
          phase,              \* what the client of a connection is about to ask for
          asks,               \* the user a client logs in as
          pending,            \* connections with a packet that was read and not yet handled
          awaits,             \* the character whose row a selection waits for
          disconnecting,      \* disconnectMyCharacters still to run, per user
          charOf,             \* the character an object is a copy of
          characters,         \* the cached object of a character
          IsOnline, PseudoID, \* of the objects
          PlayerRegister,     \* object registered under an id
          timers,             \* ids that are to leave the register
          logouts,            \* Logouts waiting for the database
          overtaken,          \* history: a packet was handled after its connection was done
          reselected          \* history: a character that had an id was selected

users == <<loaded, ConnectedIP, ConnectingIP, IsLoginedFromPanel, disconnecting>>
sockets == <<Sockets, conn, User, stale, Character>>
clients == <<phase, asks, pending, awaits>>
objects == <<charOf, characters, IsOnline>>
register == <<PseudoID, PlayerRegister, timers>>
vars == <<users, sockets, clients, objects, register, logouts, overtaken, reselected>>

Phases == {"panel", "servers", "listed", "told", "left", "enter", "menu", "chosen", "playing", "leaving"}
Reasons == {"enter", "servers", "quit", "close", "kick"}
Logouts == [obj : Objs, by : Conns, why : Reasons, kicked : Conns \cup {NoConn}]

UserTypes ==
    /\ loaded \subseteq Users /\ ConnectedIP \subseteq Users /\ ConnectingIP \subseteq Users
    /\ IsLoginedFromPanel \subseteq Users /\ disconnecting \subseteq Users
SocketTypes ==
    /\ Sockets \in [Users -> Conns \cup {NoConn}]
    /\ conn \in [Conns -> {"open", "closed", "done"}]
    /\ User \in [Conns -> Users \cup {NoUser}] /\ stale \subseteq Conns
    /\ Character \in [Conns -> Objs \cup {NoObj}]
ClientTypes ==
    /\ phase \in [Conns -> Phases] /\ asks \in [Conns -> Users \cup {NoUser}]
    /\ pending \subseteq Conns /\ awaits \in [Conns -> Chars \cup {NoChar}]
ObjectTypes ==
    /\ charOf \in [Objs -> Chars \cup {NoChar}]
    /\ characters \in [Chars -> Objs \cup {NoObj}]
    /\ IsOnline \subseteq Objs
RegisterTypes ==
    /\ PseudoID \in [Objs -> Ids \cup {0}]
    /\ PlayerRegister \in [Ids -> Objs \cup {NoObj}]
    /\ timers \subseteq Ids

TypeOK ==
    /\ UserTypes /\ SocketTypes /\ ClientTypes /\ ObjectTypes /\ RegisterTypes
    /\ logouts \subseteq Logouts
    /\ overtaken \in BOOLEAN /\ reselected \in BOOLEAN

Init ==
    /\ loaded = {}
    /\ ConnectedIP \in SUBSET Users \* RefreshOnline leaves those of a crash
    /\ ConnectingIP = {} /\ IsLoginedFromPanel = {}
    /\ disconnecting = {}
    /\ Sockets = [u \in Users |-> NoConn]
    /\ conn = [s \in Conns |-> "done"]
    /\ User = [s \in Conns |-> NoUser] /\ stale = {}
    /\ Character = [s \in Conns |-> NoObj]
    /\ phase = [s \in Conns |-> "left"] /\ asks = [s \in Conns |-> NoUser] /\ pending = {}
    /\ awaits = [s \in Conns |-> NoChar]
    /\ charOf = [o \in Objs |-> NoChar]
    /\ characters = [c \in Chars |-> NoObj]
    /\ IsOnline = {}
    /\ PseudoID = [o \in Objs |-> 0]
    /\ PlayerRegister = [i \in Ids |-> NoObj]
    /\ timers = {} /\ logouts = {}
    /\ overtaken = FALSE /\ reselected = FALSE

----------------------------------------------------------------------------
(* What the handlers share *)

\* An object nobody refers to stands for a new one.
Fresh == {o \in Objs : /\ o \notin IsOnline /\ PseudoID[o] = 0
                       /\ \A c \in Chars : characters[c] # o
                       /\ \A s \in Conns : Character[s] # o
                       /\ \A i \in Ids : PlayerRegister[i] # o
                       /\ \A l \in logouts : l.obj # o}

\* Missing characters are read from the database into the cache, offline.
Load(missing) ==
    \E f \in Injection(missing, Fresh) :
        /\ \A o \in Range(f), p \in Fresh : p < o => p \in Range(f)
        /\ characters' = [c \in Chars |-> IF c \in missing THEN f[c] ELSE characters[c]]
        /\ charOf' = [o \in Objs |-> IF \E c \in missing : f[c] = o
                                     THEN CHOOSE c \in missing : f[c] = o ELSE charOf[o]]
Missing(u) == {c \in Chars : UserID[c] = u /\ characters[c] = NoObj}

\* A connection whose number can be given to a new one.
Idle(s) == /\ conn[s] = "done" /\ s \notin pending
           /\ \A u \in Users : Sockets[u] # s
           /\ \A l \in logouts : s \notin {l.by, l.kicked}
Closed(s) == [conn EXCEPT ![s] = IF @ = "open" THEN "closed" ELSE @]

\* The client of s goes on, if the answer reaches it.
Answer(s, p) == phase' = [phase EXCEPT ![s] = IF conn[s] = "open" THEN p ELSE "left"]

\* Handler runs for the packet of s.
Handling(s) ==
    /\ s \in pending /\ awaits[s] = NoChar
    /\ pending' = pending \ {s}
    /\ overtaken' = (overtaken \/ conn[s] = "done")

UserLogout(u) == /\ ConnectedIP' = ConnectedIP \ {u}
                 /\ IsLoginedFromPanel' = IsLoginedFromPanel \ {u}
\* Character.Logout up to its first wait for the database.
Logout(o, s, why, kicked) ==
    /\ IsOnline' = IsOnline \ {o}
    /\ logouts' = logouts \cup {[obj |-> o, by |-> s, why |-> why, kicked |-> kicked]}

----------------------------------------------------------------------------
(* Connections *)

\* A client connects to log in as u, or comes back after it was told a server.
Open(s, u) ==
    /\ Idle(s)
    /\ conn' = [conn EXCEPT ![s] = "open"]
    /\ User' = [User EXCEPT ![s] = NoUser] /\ stale' = stale \ {s}
    /\ Character' = [Character EXCEPT ![s] = NoObj]
    /\ asks' = [asks EXCEPT ![s] = u]
    /\ UNCHANGED <<users, Sockets, pending, awaits, objects, register, logouts, overtaken, reselected>>
Dial(s, u) == Open(s, u) /\ phase' = [phase EXCEPT ![s] = "panel"]
Follow(s, t) ==
    /\ phase[s] = "told" /\ s # t
    /\ Open(t, asks[s])
    /\ phase' = [phase EXCEPT ![s] = "left", ![t] = "enter"]

\* The Read loop takes a packet and starts a goroutine for it.
Read(s) ==
    /\ conn[s] = "open" /\ s \notin pending
    /\ phase[s] \in Phases \ {"told", "left", "leaving"}
    /\ pending' = pending \cup {s}
    /\ UNCHANGED <<users, sockets, phase, asks, awaits, objects, register, logouts, overtaken, reselected>>

Drop(s) ==
    /\ conn[s] = "open"
    /\ conn' = Closed(s)
    /\ UNCHANGED <<users, Sockets, User, stale, Character, clients, objects, register, logouts, overtaken, reselected>>

\* OnClose without the logout of the character.
LeaveUser(s) ==
    LET u == User[s] IN
    IF u = NoUser THEN UNCHANGED <<Sockets, ConnectedIP, IsLoginedFromPanel>>
    ELSE /\ Sockets' = [Sockets EXCEPT ![u] = NoConn]
         /\ IF u \in ConnectingIP \/ s \in stale THEN UNCHANGED <<ConnectedIP, IsLoginedFromPanel>>
            ELSE UserLogout(u)

\* As if only the registered socket of a user logged its character out.
LeaveRegistered(s) ==
    IF Character[s] = NoObj \/ (\A u \in Users : Sockets[u] # s) THEN UNCHANGED <<IsOnline, logouts>>
    ELSE Logout(Character[s], s, "close", NoConn)
LeaveCharacter(s) ==
    IF Character[s] = NoObj THEN UNCHANGED <<IsOnline, logouts>>
    ELSE Logout(Character[s], s, "close", NoConn)

\* No handler of s is running.
Unused(s) == s \notin pending /\ \A l \in logouts : l.by # s

\* The Read loop finds the connection closed.
OnClose(s) ==
    /\ conn[s] = "closed"
    /\ conn' = [conn EXCEPT ![s] = "done"]
    /\ LeaveUser(s)
    /\ LeaveCharacter(s)
    /\ IF Unused(s)
       THEN /\ User' = [User EXCEPT ![s] = NoUser] /\ stale' = stale \ {s}
            /\ Character' = [Character EXCEPT ![s] = NoObj]
       ELSE UNCHANGED <<User, stale, Character>>
    /\ IF Unused(s) /\ phase[s] # "told"
       THEN Answer(s, "left") /\ asks' = [asks EXCEPT ![s] = NoUser]
       ELSE UNCHANGED <<phase, asks>>
    /\ UNCHANGED <<loaded, ConnectingIP, disconnecting, pending, awaits, charOf, characters, register,
                   overtaken, reselected>>

----------------------------------------------------------------------------
(* Logging in *)

LoggedIn(s) == asks[s] \notin ConnectedIP

Login(s) ==
    LET u == asks[s] IN
    /\ Handling(s) /\ phase[s] = "panel"
    /\ LoggedIn(s)
    /\ User' = [User EXCEPT ![s] = u]
    /\ loaded' = loaded \cup {u}
    /\ ConnectedIP' = ConnectedIP \cup {u}
    /\ IsLoginedFromPanel' = IsLoginedFromPanel \cup {u}
    /\ Answer(s, "servers")
    /\ UNCHANGED <<ConnectingIP, disconnecting, Sockets, conn, stale, Character, asks, awaits,
                   objects, register, logouts, reselected>>

\* The user is online already: both connections are closed, the registered one
\* after its character has been logged out.
Kick(s) ==
    LET u == asks[s]
        k == Sockets[u]
    IN  /\ Handling(s) /\ phase[s] = "panel"
        /\ ~LoggedIn(s)
        /\ loaded' = loaded \cup {u}
        /\ UserLogout(u)
        /\ Answer(s, "left")
        /\ IF k # NoConn /\ Character[k] # NoObj
           THEN conn' = Closed(s) /\ Logout(Character[k], s, "kick", k)
           ELSE /\ conn' = [t \in Conns |-> IF t \in {s, k} THEN Closed(t)[t] ELSE conn[t]]
                /\ UNCHANGED <<IsOnline, logouts>>
        /\ UNCHANGED <<ConnectingIP, disconnecting, Sockets, User, stale, Character, asks, awaits,
                       charOf, characters, register, reselected>>

ListServers(s) ==
    /\ Handling(s) /\ phase[s] = "servers"
    /\ disconnecting' = disconnecting \cup {User[s]}
    /\ Answer(s, "listed")
    /\ UNCHANGED <<loaded, ConnectedIP, ConnectingIP, IsLoginedFromPanel, sockets, asks, awaits,
                   objects, register, logouts, reselected>>

\* The goroutine of ListServers.
DisconnectMyCharacters(u) ==
    /\ u \in disconnecting
    /\ disconnecting' = disconnecting \ {u}
    /\ IsOnline' = IsOnline \ {characters[c] : c \in {d \in Chars : UserID[d] = u}}
    /\ Load(Missing(u))
    /\ UNCHANGED <<loaded, ConnectedIP, ConnectingIP, IsLoginedFromPanel, sockets, clients,
                   register, logouts, overtaken, reselected>>

SelectServer(s) ==
    /\ Handling(s) /\ phase[s] = "listed"
    /\ ConnectingIP' = IF s \in stale THEN ConnectingIP ELSE ConnectingIP \cup {User[s]}
    /\ Answer(s, "told")
    /\ UNCHANGED <<loaded, ConnectedIP, IsLoginedFromPanel, disconnecting, sockets, asks, awaits,
                   objects, register, logouts, reselected>>

----------------------------------------------------------------------------
(* Characters *)

ListCharacters(s) ==
    LET u == asks[s] IN
    /\ Handling(s) /\ phase[s] = "enter"
    /\ u \in loaded \cap IsLoginedFromPanel
    /\ User' = [User EXCEPT ![s] = u] /\ stale' = stale \ {s}
    /\ ConnectedIP' = IF u \in ConnectingIP THEN ConnectedIP \cup {u} ELSE ConnectedIP \ {u}
    /\ ConnectingIP' = ConnectingIP \ {u}
    /\ Sockets' = [Sockets EXCEPT ![u] = s]
    /\ Load(Missing(u))
    /\ Answer(s, "menu")
    /\ UNCHANGED <<loaded, IsLoginedFromPanel, disconnecting, conn, Character, asks, awaits,
                   IsOnline, register, logouts, reselected>>

\* Without IsLoginedFromPanel the registered connection of the socket's user is
\* closed; a socket without user or registration panics, which is recovered.
RefuseCharacters(s) ==
    LET u == asks[s]
        k == IF User[s] = NoUser THEN NoConn ELSE Sockets[User[s]]
    IN  /\ Handling(s) /\ phase[s] = "enter"
        /\ u \notin loaded \cap IsLoginedFromPanel
        /\ conn' = IF u \in loaded /\ k # NoConn THEN Closed(k) ELSE conn
        /\ Answer(s, "left")
        /\ UNCHANGED <<users, Sockets, User, stale, Character, asks, awaits, objects, register,
                       logouts, reselected>>

FreeIds == {i \in Ids : PlayerRegister[i] = NoObj}

\* As if the counter had moved on when the character gets its id.
NextID(o, i) == PseudoID' = [PseudoID EXCEPT ![o] = i + 1]
TakeID(o, i) == PseudoID' = [PseudoID EXCEPT ![o] = i]

\* GenerateID takes the first id that is not registered.
GenerateID(o) ==
    /\ IF FreeIds = {} THEN UNCHANGED <<PlayerRegister, PseudoID>>
       ELSE \E i \in FreeIds : /\ \A j \in FreeIds : i <= j
                               /\ PlayerRegister' = [PlayerRegister EXCEPT ![i] = o]
                               /\ TakeID(o, i)
    /\ UNCHANGED timers

Select(s, o) ==
    /\ IsOnline' = IsOnline \ {o}
    /\ Character' = [Character EXCEPT ![s] = o]
    /\ GenerateID(o)
    /\ reselected' = (reselected \/ PseudoID[o] # 0)
    /\ Answer(s, IF FreeIds = {} THEN "left" ELSE "chosen")

\* The character is in the cache.
SelectCharacter(s, c) ==
    /\ Handling(s) /\ phase[s] = "menu"
    /\ UserID[c] = User[s] /\ characters[c] # NoObj
    /\ Select(s, characters[c])
    /\ UNCHANGED <<users, Sockets, conn, User, stale, asks, awaits, charOf, characters, logouts>>

\* It is not: its row is read.
MissCharacter(s, c) ==
    /\ s \in pending /\ phase[s] = "menu" /\ awaits[s] = NoChar
    /\ UserID[c] = User[s] /\ characters[c] = NoObj
    /\ awaits' = [awaits EXCEPT ![s] = c]
    /\ UNCHANGED <<users, sockets, phase, asks, pending, objects, register, logouts, overtaken, reselected>>

\* The row has been read and replaces what the cache holds by now.
ReadCharacter(s) ==
    LET c == awaits[s] IN
    /\ c # NoChar
    /\ awaits' = [awaits EXCEPT ![s] = NoChar]
    /\ pending' = pending \ {s}
    /\ overtaken' = (overtaken \/ conn[s] = "done")
    /\ \E o \in Fresh :
          /\ \A p \in Fresh : o <= p
          /\ charOf' = [charOf EXCEPT ![o] = c]
          /\ characters' = [characters EXCEPT ![c] = o]
          /\ Select(s, o)
    /\ UNCHANGED <<users, Sockets, conn, User, stale, asks, logouts>>

StartGame(s) ==
    /\ Handling(s) /\ phase[s] = "chosen"
    /\ IF Character[s] \in IsOnline
       THEN Answer(s, "left") /\ UNCHANGED IsOnline
       ELSE Answer(s, "playing") /\ IsOnline' = IsOnline \cup {Character[s]}
    /\ UNCHANGED <<users, sockets, asks, awaits, charOf, characters, register, logouts, reselected>>

----------------------------------------------------------------------------
(* Leaving *)

CharacterMenu(s) ==
    /\ Handling(s) /\ phase[s] = "playing"
    /\ ConnectingIP' = IF s \in stale THEN ConnectingIP ELSE ConnectingIP \cup {User[s]}
    /\ Logout(Character[s], s, "enter", NoConn)
    /\ Answer(s, "leaving")
    /\ UNCHANGED <<loaded, ConnectedIP, IsLoginedFromPanel, disconnecting, sockets, asks, awaits,
                   charOf, characters, register, reselected>>

ServerMenu(s) ==
    /\ Handling(s) /\ phase[s] = "playing"
    /\ Logout(Character[s], s, "servers", NoConn)
    /\ Answer(s, "leaving")
    /\ UNCHANGED <<users, sockets, asks, awaits, charOf, characters, register, reselected>>

\* QuitGame runs OnClose itself; the Read loop will run it again.
QuitGame(s) ==
    LET u == User[s] IN
    /\ Handling(s) /\ phase[s] = "playing"
    /\ conn' = Closed(s)
    /\ Sockets' = [Sockets EXCEPT ![u] = NoConn]
    /\ IF s \in stale THEN UNCHANGED <<ConnectingIP, ConnectedIP, IsLoginedFromPanel>>
       ELSE ConnectingIP' = ConnectingIP \ {u} /\ UserLogout(u)
    /\ Logout(Character[s], s, "quit", NoConn)
    /\ Answer(s, "leaving")
    /\ UNCHANGED <<loaded, disconnecting, User, stale, Character, asks, awaits, charOf, characters,
                   register, reselected>>

\* As if the object kept its id.
KeepID(o) == UNCHANGED PseudoID /\ timers' = timers \cup ({PseudoID[o]} \ {0})
\* As if no timer were started.
NoTimer(o) == PseudoID' = [PseudoID EXCEPT ![o] = 0] /\ UNCHANGED timers
\* The object gives its id back, to be free in ten seconds.
RemoveFromRegister(o) ==
    /\ PseudoID' = [PseudoID EXCEPT ![o] = 0]
    /\ timers' = timers \cup ({PseudoID[o]} \ {0})

\* DeleteUserFromCache: the user's row may or may not have been written since.
ForgetUser(s) ==
    LET u == User[s] IN
    /\ loaded' = loaded \ {u}
    /\ stale' = stale \cup {t \in Conns : User[t] = u}
    /\ ConnectingIP' = ConnectingIP \ {u}
    /\ \E on \in SUBSET {u} : ConnectedIP' = (ConnectedIP \ {u}) \cup on
    /\ \E on \in SUBSET {u} : IsLoginedFromPanel' = (IsLoginedFromPanel \ {u}) \cup on

\* The rest of Character.Logout, and of the handler that called it.
LogoutEnd(l) ==
    LET o == l.obj IN
    /\ l \in logouts
    /\ logouts' = logouts \ {l}
    /\ RemoveFromRegister(o)
    /\ characters' = [characters EXCEPT ![charOf[o]] = NoObj]
    /\ IF l.why = "quit" THEN ForgetUser(l.by)
       ELSE UNCHANGED <<loaded, stale, ConnectingIP, ConnectedIP, IsLoginedFromPanel>>
    /\ conn' = IF l.why = "kick" THEN Closed(l.kicked) ELSE conn
    /\ IF l.why \in Phases THEN Answer(l.by, l.why) ELSE UNCHANGED phase
    /\ UNCHANGED <<disconnecting, Sockets, User, Character, asks, pending, awaits, charOf, IsOnline,
                   PlayerRegister, overtaken, reselected>>

\* Ten seconds later.
Unregister(i) ==
    /\ i \in timers
    /\ timers' = timers \ {i}
    /\ PlayerRegister' = [PlayerRegister EXCEPT ![i] = NoObj]
    /\ UNCHANGED <<users, sockets, clients, objects, PseudoID, logouts, overtaken, reselected>>

----------------------------------------------------------------------------

Next ==
    \/ \E s \in Conns :
          \/ \E u \in Users : Dial(s, u)
          \/ \E t \in Conns : Follow(s, t)
          \/ Read(s) \/ Drop(s) \/ OnClose(s)
          \/ Login(s) \/ Kick(s) \/ ListServers(s) \/ SelectServer(s)
          \/ ListCharacters(s) \/ RefuseCharacters(s)
          \/ \E c \in Chars : SelectCharacter(s, c) \/ MissCharacter(s, c)
          \/ ReadCharacter(s) \/ StartGame(s)
          \/ CharacterMenu(s) \/ ServerMenu(s) \/ QuitGame(s)
    \/ \E u \in Users : DisconnectMyCharacters(u)
    \/ \E l \in logouts : LogoutEnd(l)
    \/ \E i \in Ids : Unregister(i)

Spec == Init /\ [][Next]_vars

----------------------------------------------------------------------------
(* Properties *)

\* A character that has an id is found under it: the timer of an id never
\* unregisters a character who was given the id since, though characters are
\* logged out several times and selected while they are being logged out.
FoundByID ==
    \A o \in Objs : PseudoID[o] # 0 => PlayerRegister[PseudoID[o]] = o

\* An id is taken only as long as somebody uses it or its timer runs, unless a
\* character that had one was selected.
IdsComeBack ==
    ~reselected =>
        \A i \in Ids : PlayerRegister[i] # NoObj =>
            i \in timers \/ PseudoID[PlayerRegister[i]] = i

\* Nobody stays in the game when all his connections are gone, unless a packet
\* was handled after its connection was.
NoGhosts ==
    ~overtaken =>
        \A o \in IsOnline : \E s \in Conns : Character[s] = o /\ conn[s] # "done"

\* "user already online": a login goes through only when no character of the
\* user is in the game.
LoginFindsOnline ==
    [][\A s \in Conns : phase[s] = "panel" /\ phase'[s] = "servers" =>
          \A o \in IsOnline : UserID[charOf[o]] # asks[s]]_vars
=============================================================================
