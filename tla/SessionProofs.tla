---------------------------- MODULE SessionProofs ----------------------------
(***************************************************************************)
(* Theorems about Session for any number of users, characters, connections *)
(* and ids.  The inductive invariant adds to the typing what the phase of  *)
(* a connection says about its socket, and that the ids in use and the ids *)
(* whose timers run are registered and not the same.                       *)
(***************************************************************************)
EXTENDS Session, TLAPS

\* What the phase of a connection says about its socket.
ClientInv ==
    \A s \in Conns :
        /\ phase[s] # "left" => asks[s] \in Users
        /\ phase[s] \in {"servers", "listed", "menu", "chosen",
                         "playing"} => User[s] \in Users
        /\ phase[s] \in {"chosen", "playing"} => Character[s] \in Objs
        /\ awaits[s] # NoChar => s \in pending /\ phase[s] = "menu"

\* A menu or a quit waits for its logout, and for no other, with the user it
\* began with.
Menus == {"enter", "servers", "quit"}
LeavingInv ==
    \A l \in logouts : l.why \in Menus =>
        /\ User[l.by] \in Users /\ asks[l.by] \in Users
        /\ phase[l.by] \in {"leaving", "left"}
        /\ \A m \in logouts : m.why \in Menus /\ m.by = l.by => m = l

\* The ids in use and the ids whose timers run are registered, and are not the same.
RegisterInv ==
    /\ FoundByID
    /\ \A i \in timers : PlayerRegister[i] # NoObj /\ \A o \in Objs : PseudoID[o] # i

IInv == TypeOK /\ ClientInv /\ LeavingInv /\ RegisterInv

----------------------------------------------------------------------------
(* Facts about what the handlers share *)

LEMMA AnswerType ==
    ASSUME ClientTypes, NEW s \in Conns, NEW p \in Phases, Answer(s, p)
    PROVE  phase' \in [Conns -> Phases]
  BY DEF ClientTypes, Answer, Phases

LEMMA ClosedType ==
    ASSUME SocketTypes, NEW s
    PROVE  Closed(s) \in [Conns -> {"open", "closed", "done"}]
  BY DEF SocketTypes, Closed

LEMMA LogoutType ==
    ASSUME ObjectTypes, logouts \subseteq Logouts,
           NEW o \in Objs, NEW s \in Conns, NEW why \in Reasons,
           NEW k \in Conns \cup {NoConn},
           Logout(o, s, why, k)
    PROVE  IsOnline' \subseteq Objs /\ logouts' \subseteq Logouts
  BY DEF ObjectTypes, Logout, Logouts

LEMMA LoadType ==
    ASSUME ObjectTypes, NEW missing \in SUBSET Chars, Load(missing)
    PROVE  /\ charOf' \in [Objs -> Chars \cup {NoChar}]
           /\ characters' \in [Chars -> Objs \cup {NoObj}]
<1>1. PICK f \in Injection(missing, Fresh) :
        /\ characters' = [c \in Chars |-> IF c \in missing THEN f[c] ELSE characters[c]]
        /\ charOf' = [o \in Objs |-> IF \E c \in missing : f[c] = o
                                     THEN CHOOSE c \in missing : f[c] = o ELSE charOf[o]]
  BY DEF Load
<1>2. f \in [missing -> Objs]
  BY DEF Injection, Fresh
<1>3. characters' \in [Chars -> Objs \cup {NoObj}]
  BY <1>1, <1>2 DEF ObjectTypes
<1>4. ASSUME NEW o \in Objs, \E c \in missing : f[c] = o
      PROVE  (CHOOSE c \in missing : f[c] = o) \in Chars
  BY <1>4
<1>5. charOf' \in [Objs -> Chars \cup {NoChar}]
  BY <1>1, <1>4 DEF ObjectTypes
<1> QED
  BY <1>3, <1>5

----------------------------------------------------------------------------
(* Types *)

\* Every action keeps the types.
LEMMA TypeStep == SessionAssumption /\ TypeOK /\ ClientInv /\ LeavingInv /\ [Next]_vars => TypeOK'
<1> SUFFICES ASSUME SessionAssumption, TypeOK, ClientInv, LeavingInv, [Next]_vars PROVE TypeOK'
  OBVIOUS
<1> USE DEF TypeOK, UserTypes, SocketTypes, ClientTypes, ObjectTypes, RegisterTypes
<1>0. CASE UNCHANGED vars
  BY <1>0 DEF vars, users, sockets, clients, objects, register
<1>1. ASSUME NEW s \in Conns, NEW u \in Users, Dial(s, u) PROVE TypeOK'
  <2>1. SocketTypes'
    BY <1>1 DEF Dial, users, sockets, clients, objects, register, Open
  <2>2. ClientTypes'
    BY <1>1 DEF Dial, users, sockets, clients, objects, register, Open, Phases
  <2>3. UserTypes' /\ ObjectTypes' /\ RegisterTypes' /\ logouts' \subseteq Logouts
    BY <1>1 DEF Dial, users, sockets, clients, objects, register, Open
  <2>4. overtaken' \in BOOLEAN /\ reselected' \in BOOLEAN
    BY <1>1 DEF Dial, users, sockets, clients, objects, register, Open
  <2> QED
    BY <2>1, <2>2, <2>3, <2>4
<1>2. ASSUME NEW s \in Conns, NEW t \in Conns, Follow(s, t) PROVE TypeOK'
  <2>1. SocketTypes'
    BY <1>2 DEF Follow, users, sockets, clients, objects, register, Open
  <2>2. ClientTypes'
    BY <1>2 DEF Follow, users, sockets, clients, objects, register, Open, Phases
  <2>3. UserTypes' /\ ObjectTypes' /\ RegisterTypes' /\ logouts' \subseteq Logouts
    BY <1>2 DEF Follow, users, sockets, clients, objects, register, Open
  <2>4. overtaken' \in BOOLEAN /\ reselected' \in BOOLEAN
    BY <1>2 DEF Follow, users, sockets, clients, objects, register, Open
  <2> QED
    BY <2>1, <2>2, <2>3, <2>4
<1>3. ASSUME NEW s \in Conns, Read(s) PROVE TypeOK'
  BY <1>3 DEF Read, users, sockets, clients, objects, register
<1>4. ASSUME NEW s \in Conns, Drop(s) PROVE TypeOK'
  BY <1>4 DEF Drop, users, sockets, clients, objects, register, Closed
<1>5. ASSUME NEW s \in Conns, OnClose(s) PROVE TypeOK'
  <2>1. UserTypes' /\ SocketTypes'
    BY <1>5 DEF OnClose, users, sockets, clients, objects, register, LeaveUser, UserLogout
  <2>2. ClientTypes'
    BY <1>5 DEF OnClose, users, sockets, clients, objects, register, Answer, Phases
  <2>3. ObjectTypes' /\ logouts' \subseteq Logouts
    BY <1>5, LogoutType DEF OnClose, users, sockets, clients, objects, register,
       LeaveCharacter, Reasons, NoObj
  <2>4. RegisterTypes'
    BY <1>5 DEF OnClose, users, sockets, clients, objects, register
  <2>5. overtaken' \in BOOLEAN /\ reselected' \in BOOLEAN
    BY <1>5 DEF OnClose, users, sockets, clients, objects, register
  <2> QED
    BY <2>1, <2>2, <2>3, <2>4, <2>5
<1>6. ASSUME NEW s \in Conns, Login(s) PROVE TypeOK'
  BY <1>6 DEF Login, users, sockets, clients, objects, register, Handling, Answer,
     LoggedIn, Phases, ClientInv
<1>7. ASSUME NEW s \in Conns, Kick(s) PROVE TypeOK'
  <2>1. UserTypes'
    BY <1>7 DEF Kick, users, sockets, clients, objects, register, UserLogout, ClientInv
  <2>2. SocketTypes'
    BY <1>7, ClosedType DEF Kick, users, sockets, clients, objects, register
  <2>3. ClientTypes'
    BY <1>7 DEF Kick, users, sockets, clients, objects, register, Handling, Answer, Phases
  <2>4. ObjectTypes' /\ logouts' \subseteq Logouts
    BY <1>7, LogoutType DEF Kick, users, sockets, clients, objects, register, Reasons,
       NoObj, ClientInv
  <2>5. RegisterTypes'
    BY <1>7 DEF Kick, users, sockets, clients, objects, register
  <2>6. overtaken' \in BOOLEAN /\ reselected' \in BOOLEAN
    BY <1>7 DEF Kick, users, sockets, clients, objects, register, Handling
  <2> QED
    BY <2>1, <2>2, <2>3, <2>4, <2>5, <2>6
<1>8. ASSUME NEW s \in Conns, ListServers(s) PROVE TypeOK'
  BY <1>8 DEF ListServers, users, sockets, clients, objects, register, Handling, Answer,
     Phases, ClientInv
<1>9. ASSUME NEW s \in Conns, SelectServer(s) PROVE TypeOK'
  BY <1>9 DEF SelectServer, users, sockets, clients, objects, register, Handling, Answer,
     Phases, ClientInv
<1>10. ASSUME NEW s \in Conns, ListCharacters(s) PROVE TypeOK'
  <2>1. UserTypes' /\ SocketTypes'
    BY <1>10 DEF ListCharacters, users, sockets, clients, objects, register, ClientInv
  <2>2. ClientTypes'
    BY <1>10 DEF ListCharacters, users, sockets, clients, objects, register, Handling,
       Answer, Phases
  <2>3. ObjectTypes'
    BY <1>10, LoadType DEF ListCharacters, users, sockets, clients, objects, register,
       Missing
  <2>4. RegisterTypes' /\ logouts' \subseteq Logouts
    BY <1>10 DEF ListCharacters, users, sockets, clients, objects, register
  <2>5. overtaken' \in BOOLEAN /\ reselected' \in BOOLEAN
    BY <1>10 DEF ListCharacters, users, sockets, clients, objects, register, Handling
  <2> QED
    BY <2>1, <2>2, <2>3, <2>4, <2>5
<1>11. ASSUME NEW s \in Conns, RefuseCharacters(s) PROVE TypeOK'
  BY <1>11 DEF RefuseCharacters, users, sockets, clients, objects, register, Handling,
     Answer, Closed, Phases
<1>12. ASSUME NEW s \in Conns, NEW c \in Chars, SelectCharacter(s, c) PROVE TypeOK'
  <2>1. UserTypes' /\ SocketTypes'
    BY <1>12 DEF SelectCharacter, users, sockets, clients, objects, register, Select, NoObj
  <2>2. ClientTypes'
    BY <1>12 DEF SelectCharacter, users, sockets, clients, objects, register, Handling,
       Select, Answer, Phases
  <2>3. ObjectTypes' /\ logouts' \subseteq Logouts
    BY <1>12 DEF SelectCharacter, users, sockets, clients, objects, register, Select
  <2>4. RegisterTypes'
    BY <1>12 DEF SelectCharacter, users, sockets, clients, objects, register, Select,
       GenerateID, FreeIds, TakeID, NoObj
  <2>5. overtaken' \in BOOLEAN /\ reselected' \in BOOLEAN
    BY <1>12 DEF SelectCharacter, users, sockets, clients, objects, register, Handling,
       Select
  <2> QED
    BY <2>1, <2>2, <2>3, <2>4, <2>5
<1>13. ASSUME NEW s \in Conns, NEW c \in Chars, MissCharacter(s, c) PROVE TypeOK'
  BY <1>13 DEF MissCharacter, users, sockets, clients, objects, register
<1>14. ASSUME NEW s \in Conns, ReadCharacter(s) PROVE TypeOK'
  <2> DEFINE c == awaits[s]
  <2>1. PICK o \in Fresh : /\ charOf' = [charOf EXCEPT ![o] = c]
                         /\ characters' = [characters EXCEPT ![c] = o]
                         /\ Select(s, o)
    BY <1>14 DEF ReadCharacter
  <2>2. o \in Objs
    BY DEF Fresh
  <2>3. UserTypes' /\ SocketTypes' /\ logouts' \subseteq Logouts
    BY <1>14, <2>1, <2>2 DEF ReadCharacter, users, Select, NoObj
  <2>4. ClientTypes'
    BY <1>14, <2>1 DEF ReadCharacter, Select, Answer, Phases
  <2>5. ObjectTypes'
    BY <1>14, <2>1, <2>2 DEF ReadCharacter, Select, NoObj
  <2>6. RegisterTypes'
    BY <2>1, <2>2 DEF Select, GenerateID, FreeIds, TakeID, NoObj
  <2>7. overtaken' \in BOOLEAN /\ reselected' \in BOOLEAN
    BY <1>14, <2>1 DEF ReadCharacter, Select
  <2> QED
    BY <2>3, <2>4, <2>5, <2>6, <2>7
<1>15. ASSUME NEW s \in Conns, StartGame(s) PROVE TypeOK'
  <2>1. UserTypes' /\ SocketTypes' /\ RegisterTypes' /\ logouts' \subseteq Logouts
    BY <1>15 DEF StartGame, users, sockets, clients, objects, register
  <2>2. ClientTypes'
    BY <1>15 DEF StartGame, users, sockets, clients, objects, register, Handling, Answer,
       Phases
  <2>3. Character[s] \in Objs
    BY <1>15 DEF StartGame, users, sockets, clients, objects, register, ClientInv
  <2>4. IsOnline' = IsOnline \/ IsOnline' = IsOnline \cup {Character[s]}
    BY <1>15 DEF StartGame, users, sockets, clients, objects, register
  <2>5. ObjectTypes'
    BY <1>15, <2>3, <2>4 DEF StartGame, users, sockets, clients, objects, register
  <2>6. overtaken' \in BOOLEAN /\ reselected' \in BOOLEAN
    BY <1>15 DEF StartGame, users, sockets, clients, objects, register, Handling
  <2> QED
    BY <2>1, <2>2, <2>3, <2>4, <2>5, <2>6
<1>16. ASSUME NEW s \in Conns, CharacterMenu(s) PROVE TypeOK'
  <2>1. UserTypes' /\ SocketTypes'
    BY <1>16 DEF CharacterMenu, users, sockets, clients, objects, register, ClientInv
  <2>2. ClientTypes'
    BY <1>16 DEF CharacterMenu, users, sockets, clients, objects, register, Handling,
       Answer, Phases
  <2>3. ObjectTypes' /\ logouts' \subseteq Logouts
    BY <1>16, LogoutType DEF CharacterMenu, users, sockets, clients, objects, register,
       Reasons, ClientInv
  <2>4. RegisterTypes'
    BY <1>16 DEF CharacterMenu, users, sockets, clients, objects, register
  <2>5. overtaken' \in BOOLEAN /\ reselected' \in BOOLEAN
    BY <1>16 DEF CharacterMenu, users, sockets, clients, objects, register, Handling
  <2> QED
    BY <2>1, <2>2, <2>3, <2>4, <2>5
<1>17. ASSUME NEW s \in Conns, ServerMenu(s) PROVE TypeOK'
  <2>1. UserTypes' /\ SocketTypes'
    BY <1>17 DEF ServerMenu, users, sockets, clients, objects, register, ClientInv
  <2>2. ClientTypes'
    BY <1>17 DEF ServerMenu, users, sockets, clients, objects, register, Handling,
       Answer, Phases
  <2>3. ObjectTypes' /\ logouts' \subseteq Logouts
    BY <1>17, LogoutType DEF ServerMenu, users, sockets, clients, objects, register,
       Reasons, ClientInv
  <2>4. RegisterTypes'
    BY <1>17 DEF ServerMenu, users, sockets, clients, objects, register
  <2>5. overtaken' \in BOOLEAN /\ reselected' \in BOOLEAN
    BY <1>17 DEF ServerMenu, users, sockets, clients, objects, register, Handling
  <2> QED
    BY <2>1, <2>2, <2>3, <2>4, <2>5
<1>18. ASSUME NEW s \in Conns, QuitGame(s) PROVE TypeOK'
  <2>1. UserTypes' /\ SocketTypes'
    BY <1>18, ClosedType DEF QuitGame, users, sockets, clients, objects, register,
       ClientInv, UserLogout
  <2>2. ClientTypes'
    BY <1>18 DEF QuitGame, users, sockets, clients, objects, register, Handling, Answer,
       Phases
  <2>3. ObjectTypes' /\ logouts' \subseteq Logouts
    BY <1>18, LogoutType DEF QuitGame, users, sockets, clients, objects, register,
       Reasons, ClientInv
  <2>4. RegisterTypes'
    BY <1>18 DEF QuitGame, users, sockets, clients, objects, register
  <2>5. overtaken' \in BOOLEAN /\ reselected' \in BOOLEAN
    BY <1>18 DEF QuitGame, users, sockets, clients, objects, register, Handling
  <2> QED
    BY <2>1, <2>2, <2>3, <2>4, <2>5
<1>19. ASSUME NEW u \in Users, DisconnectMyCharacters(u) PROVE TypeOK'
  <2>1. ObjectTypes'
    BY <1>19, LoadType DEF DisconnectMyCharacters, users, sockets, clients, objects,
       register, Missing
  <2>2. UserTypes' /\ SocketTypes' /\ ClientTypes' /\ RegisterTypes' /\ logouts' \subseteq Logouts
    BY <1>19 DEF DisconnectMyCharacters, users, sockets, clients, objects, register
  <2>3. overtaken' \in BOOLEAN /\ reselected' \in BOOLEAN
    BY <1>19 DEF DisconnectMyCharacters, users, sockets, clients, objects, register
  <2> QED
    BY <2>1, <2>2, <2>3
<1>20. ASSUME NEW l \in logouts, LogoutEnd(l) PROVE TypeOK'
  <2>1. l.obj \in Objs /\ l.by \in Conns /\ l.kicked \in Conns \cup {NoConn}
    BY <1>20 DEF LogoutEnd, users, sockets, clients, objects, register, Logouts
  <2>2. UserTypes'
    BY <1>20, <2>1 DEF LogoutEnd, users, sockets, clients, objects, register, ForgetUser,
       LeavingInv, Menus
  <2>3. SocketTypes'
    BY <1>20, <2>1, ClosedType DEF LogoutEnd, users, sockets, clients, objects, register,
       ForgetUser
  <2>4. ClientTypes'
    BY <1>20, <2>1, AnswerType DEF LogoutEnd, users, sockets, clients, objects, register
  <2>5. ObjectTypes' /\ logouts' \subseteq Logouts
    BY <1>20, <2>1 DEF LogoutEnd, users, sockets, clients, objects, register
  <2>6. RegisterTypes'
    BY <1>20, <2>1 DEF LogoutEnd, users, sockets, clients, objects, register,
       RemoveFromRegister
  <2>7. overtaken' \in BOOLEAN /\ reselected' \in BOOLEAN
    BY <1>20, <2>1 DEF LogoutEnd, users, sockets, clients, objects, register
  <2> QED
    BY <2>2, <2>3, <2>4, <2>5, <2>6, <2>7
<1>21. ASSUME NEW i \in Ids, Unregister(i) PROVE TypeOK'
  BY <1>21 DEF Unregister, users, sockets, clients, objects, register, NoObj
<1> QED
  BY <1>0, <1>1, <1>2, <1>3, <1>4, <1>5, <1>6, <1>7, <1>8, <1>9, <1>10, <1>11, <1>12,
     <1>13, <1>14, <1>15, <1>16, <1>17, <1>18, <1>19, <1>20, <1>21 DEF Next

----------------------------------------------------------------------------
(* Clients *)

\* The packet of a connection that waits for a row is not handled twice, and
\* nobody else changes the phase of its client.
LEMMA ClientStep ==
    SessionAssumption /\ TypeOK /\ ClientInv /\ LeavingInv /\ [Next]_vars => ClientInv'
<1> SUFFICES ASSUME SessionAssumption, TypeOK, ClientInv, LeavingInv, [Next]_vars PROVE ClientInv'
  OBVIOUS
<1> USE DEF ClientInv, TypeOK, SocketTypes, ClientTypes
<1>0. CASE UNCHANGED vars
  BY <1>0 DEF vars, sockets, clients
<1>1. ASSUME NEW s \in Conns, NEW u \in Users, Dial(s, u) PROVE ClientInv'
  BY <1>1 DEF Dial, Open, Idle
<1>2. ASSUME NEW s \in Conns, NEW t \in Conns, Follow(s, t) PROVE ClientInv'
  BY <1>2 DEF Follow, Open, Idle
<1>3. ASSUME NEW s \in Conns, Read(s) PROVE ClientInv'
  BY <1>3 DEF Read, sockets
<1>4. ASSUME NEW s \in Conns, Drop(s) PROVE ClientInv'
  BY <1>4 DEF Drop, clients
<1>5. ASSUME NEW s \in Conns, OnClose(s) PROVE ClientInv'
  BY <1>5 DEF OnClose, Answer, Unused
<1>6. ASSUME NEW s \in Conns, Login(s) PROVE ClientInv'
  BY <1>6 DEF Login, Handling, Answer
<1>7. ASSUME NEW s \in Conns, Kick(s) PROVE ClientInv'
  BY <1>7 DEF Kick, Handling, Answer
<1>8. ASSUME NEW s \in Conns, ListServers(s) PROVE ClientInv'
  BY <1>8 DEF ListServers, Handling, Answer, sockets
<1>9. ASSUME NEW s \in Conns, SelectServer(s) PROVE ClientInv'
  BY <1>9 DEF SelectServer, Handling, Answer, sockets
<1>10. ASSUME NEW s \in Conns, ListCharacters(s) PROVE ClientInv'
  BY <1>10 DEF ListCharacters, Handling, Answer
<1>11. ASSUME NEW s \in Conns, RefuseCharacters(s) PROVE ClientInv'
  BY <1>11 DEF RefuseCharacters, Handling, Answer
<1>12. ASSUME NEW s \in Conns, NEW c \in Chars, SelectCharacter(s, c) PROVE ClientInv'
  BY <1>12 DEF SelectCharacter, Handling, Select, Answer, ObjectTypes, NoObj
<1>13. ASSUME NEW s \in Conns, NEW c \in Chars, MissCharacter(s, c) PROVE ClientInv'
  BY <1>13 DEF MissCharacter, sockets
<1>14. ASSUME NEW s \in Conns, ReadCharacter(s) PROVE ClientInv'
  BY <1>14 DEF ReadCharacter, Select, Answer, Fresh
<1>15. ASSUME NEW s \in Conns, StartGame(s) PROVE ClientInv'
  BY <1>15 DEF StartGame, Handling, Answer, sockets
<1>16. ASSUME NEW s \in Conns, CharacterMenu(s) PROVE ClientInv'
  BY <1>16 DEF CharacterMenu, Handling, Answer, sockets
<1>17. ASSUME NEW s \in Conns, ServerMenu(s) PROVE ClientInv'
  BY <1>17 DEF ServerMenu, Handling, Answer, sockets
<1>18. ASSUME NEW s \in Conns, QuitGame(s) PROVE ClientInv'
  BY <1>18 DEF QuitGame, Handling, Answer
<1>19. ASSUME NEW u \in Users, DisconnectMyCharacters(u) PROVE ClientInv'
  BY <1>19 DEF DisconnectMyCharacters, sockets, clients
<1>20. ASSUME NEW l \in logouts, LogoutEnd(l) PROVE ClientInv'
  BY <1>20 DEF LogoutEnd, Answer, Logouts, Phases, Reasons, LeavingInv, Menus
<1>21. ASSUME NEW i \in Ids, Unregister(i) PROVE ClientInv'
  BY <1>21 DEF Unregister, sockets, clients
<1> QED
  BY <1>0, <1>1, <1>2, <1>3, <1>4, <1>5, <1>6, <1>7, <1>8, <1>9, <1>10, <1>11, <1>12, <1>13,
     <1>14, <1>15, <1>16, <1>17, <1>18, <1>19, <1>20, <1>21 DEF Next

\* Only its own end answers a menu, for which its client waits.
LEMMA LeavingStep ==
    SessionAssumption /\ TypeOK /\ ClientInv /\ LeavingInv /\ [Next]_vars => LeavingInv'
<1> SUFFICES ASSUME SessionAssumption, TypeOK, ClientInv, LeavingInv, [Next]_vars PROVE LeavingInv'
  OBVIOUS
<1> USE DEF LeavingInv, Menus, ClientInv, TypeOK, SocketTypes, ClientTypes, Logouts
<1>0. CASE UNCHANGED vars
  BY <1>0 DEF vars, sockets, clients
<1>1. ASSUME NEW s \in Conns, NEW u \in Users, Dial(s, u) PROVE LeavingInv'
  BY <1>1 DEF Dial, Open, Idle
<1>2. ASSUME NEW s \in Conns, NEW t \in Conns, Follow(s, t) PROVE LeavingInv'
  BY <1>2 DEF Follow, Open, Idle, Phases
<1>3. ASSUME NEW s \in Conns, Read(s) PROVE LeavingInv'
  BY <1>3 DEF Read, sockets
<1>4. ASSUME NEW s \in Conns, Drop(s) PROVE LeavingInv'
  BY <1>4 DEF Drop, clients
<1>5. ASSUME NEW s \in Conns, OnClose(s) PROVE LeavingInv'
  BY <1>5 DEF OnClose, LeaveCharacter, Logout, Answer, Unused, Phases
<1>6. ASSUME NEW s \in Conns, Login(s) PROVE LeavingInv'
  BY <1>6 DEF Login, Handling, Answer, Phases
<1>7. ASSUME NEW s \in Conns, Kick(s) PROVE LeavingInv'
  BY <1>7 DEF Kick, Handling, Answer, Phases, Logout
<1>8. ASSUME NEW s \in Conns, ListServers(s) PROVE LeavingInv'
  BY <1>8 DEF ListServers, Handling, Answer, Phases, sockets
<1>9. ASSUME NEW s \in Conns, SelectServer(s) PROVE LeavingInv'
  BY <1>9 DEF SelectServer, Handling, Answer, Phases, sockets
<1>10. ASSUME NEW s \in Conns, ListCharacters(s) PROVE LeavingInv'
  BY <1>10 DEF ListCharacters, Handling, Answer, Phases
<1>11. ASSUME NEW s \in Conns, RefuseCharacters(s) PROVE LeavingInv'
  BY <1>11 DEF RefuseCharacters, Handling, Answer, Phases
<1>12. ASSUME NEW s \in Conns, NEW c \in Chars, SelectCharacter(s, c) PROVE LeavingInv'
  BY <1>12 DEF SelectCharacter, Handling, Answer, Phases, Select
<1>13. ASSUME NEW s \in Conns, NEW c \in Chars, MissCharacter(s, c) PROVE LeavingInv'
  BY <1>13 DEF MissCharacter, sockets
<1>14. ASSUME NEW s \in Conns, ReadCharacter(s) PROVE LeavingInv'
  BY <1>14 DEF ReadCharacter, Select, Answer, Fresh, Phases
<1>15. ASSUME NEW s \in Conns, StartGame(s) PROVE LeavingInv'
  BY <1>15 DEF StartGame, Handling, Answer, Phases, sockets
<1>16. ASSUME NEW s \in Conns, CharacterMenu(s) PROVE LeavingInv'
  BY <1>16 DEF CharacterMenu, Handling, Answer, Phases, Logout, sockets
<1>17. ASSUME NEW s \in Conns, ServerMenu(s) PROVE LeavingInv'
  BY <1>17 DEF ServerMenu, Handling, Answer, Phases, Logout, sockets
<1>18. ASSUME NEW s \in Conns, QuitGame(s) PROVE LeavingInv'
  BY <1>18 DEF QuitGame, Handling, Answer, Phases, Logout
<1>19. ASSUME NEW u \in Users, DisconnectMyCharacters(u) PROVE LeavingInv'
  BY <1>19 DEF DisconnectMyCharacters, sockets, clients
<1>20. ASSUME NEW l \in logouts, LogoutEnd(l) PROVE LeavingInv'
  <2> SUFFICES ASSUME NEW m \in logouts', m.why \in Menus
               PROVE  /\ User'[m.by] \in Users /\ asks'[m.by] \in Users
                      /\ phase'[m.by] \in {"leaving", "left"}
                      /\ \A n \in logouts' : n.why \in Menus /\ n.by = m.by => n = m
    OBVIOUS
  <2>1. m \in logouts /\ m # l /\ logouts' \subseteq logouts
    BY <1>20 DEF LogoutEnd
  <2>2. l.by # m.by \/ l.why \notin Menus
    BY <2>1
  <2>3. phase'[m.by] = phase[m.by]
    <3>1. CASE l.why \in Menus
      BY <1>20, <2>2, <3>1 DEF LogoutEnd, Answer, Phases
    <3>2. CASE l.why \notin Menus
      BY <1>20, <3>2 DEF LogoutEnd, Reasons, Phases
    <3> QED
      BY <3>1, <3>2
  <2> QED
    BY <1>20, <2>1, <2>3 DEF LogoutEnd
<1>21. ASSUME NEW i \in Ids, Unregister(i) PROVE LeavingInv'
  BY <1>21 DEF Unregister, sockets, clients
<1> QED
  BY <1>0, <1>1, <1>2, <1>3, <1>4, <1>5, <1>6, <1>7, <1>8, <1>9, <1>10, <1>11,
     <1>12, <1>13, <1>14, <1>15, <1>16, <1>17, <1>18, <1>19, <1>20, <1>21 DEF Next

----------------------------------------------------------------------------
(* The register *)

\* An object that takes a free id keeps the register consistent.
LEMMA GenerateIDStep ==
    ASSUME SessionAssumption, TypeOK, RegisterInv, NEW o \in Objs, GenerateID(o)
    PROVE  RegisterInv'
<1> USE DEF TypeOK, ObjectTypes, RegisterTypes, RegisterInv, FoundByID
<1>1. CASE FreeIds = {}
  BY <1>1 DEF GenerateID
<1>2. CASE FreeIds # {}
  <2>1. PICK i \in FreeIds : /\ PlayerRegister' = [PlayerRegister EXCEPT ![i] = o]
                            /\ PseudoID' = [PseudoID EXCEPT ![o] = i]
    BY <1>2 DEF GenerateID, TakeID
  <2>2. i \in Ids /\ i # 0 /\ PlayerRegister[i] = NoObj
    BY DEF FreeIds, SessionAssumption
  <2>3. timers' = timers /\ i \notin timers
    BY <1>2, <2>2 DEF GenerateID
  <2>4. ASSUME NEW p \in Objs, PseudoID'[p] # 0 PROVE PlayerRegister'[PseudoID'[p]] = p
    <3>1. CASE p = o
      BY <2>1, <2>2, <3>1
    <3>2. CASE p # o
      <4>1. PseudoID'[p] = PseudoID[p] /\ PlayerRegister[PseudoID[p]] = p
        BY <2>1, <2>4, <3>2
      <4>2. p # NoObj
        BY DEF SessionAssumption, NoObj
      <4> QED
        BY <2>1, <2>2, <2>4, <4>1, <4>2
    <3> QED
      BY <3>1, <3>2
  <2>5. \A j \in timers' : PlayerRegister'[j] # NoObj /\ \A p \in Objs : PseudoID'[p] # j
    <3>1. o # NoObj
      BY DEF SessionAssumption, NoObj
    <3> QED
      BY <2>1, <2>2, <2>3, <3>1
  <2> QED
    BY <2>4, <2>5
<1> QED
  BY <1>1, <1>2

\* Ids are registered before they are used and used no more when their timer runs.
LEMMA RegisterStep ==
    SessionAssumption /\ TypeOK /\ RegisterInv /\ [Next]_vars => RegisterInv'
<1> SUFFICES ASSUME SessionAssumption, TypeOK, RegisterInv, [Next]_vars PROVE RegisterInv'
  OBVIOUS
<1> USE DEF TypeOK, ObjectTypes, RegisterTypes, RegisterInv, FoundByID
<1>0. CASE UNCHANGED vars
  BY <1>0 DEF vars, register
<1>1. ASSUME NEW s \in Conns, NEW u \in Users, Dial(s, u) PROVE RegisterInv'
  BY <1>1 DEF Dial, Open, register
<1>2. ASSUME NEW s \in Conns, NEW t \in Conns, Follow(s, t) PROVE RegisterInv'
  BY <1>2 DEF Follow, Open, register
<1>3. ASSUME NEW s \in Conns, Read(s) PROVE RegisterInv'
  BY <1>3 DEF Read, register
<1>4. ASSUME NEW s \in Conns, Drop(s) PROVE RegisterInv'
  BY <1>4 DEF Drop, register
<1>5. ASSUME NEW s \in Conns, OnClose(s) PROVE RegisterInv'
  BY <1>5 DEF OnClose, register
<1>6. ASSUME NEW s \in Conns, Login(s) PROVE RegisterInv'
  BY <1>6 DEF Login, register
<1>7. ASSUME NEW s \in Conns, Kick(s) PROVE RegisterInv'
  BY <1>7 DEF Kick, register
<1>8. ASSUME NEW s \in Conns, ListServers(s) PROVE RegisterInv'
  BY <1>8 DEF ListServers, register
<1>9. ASSUME NEW s \in Conns, SelectServer(s) PROVE RegisterInv'
  BY <1>9 DEF SelectServer, register
<1>10. ASSUME NEW s \in Conns, ListCharacters(s) PROVE RegisterInv'
  BY <1>10 DEF ListCharacters, register
<1>11. ASSUME NEW s \in Conns, RefuseCharacters(s) PROVE RegisterInv'
  BY <1>11 DEF RefuseCharacters, register
<1>12. ASSUME NEW s \in Conns, NEW c \in Chars, SelectCharacter(s, c) PROVE RegisterInv'
  <2>1. characters[c] \in Objs
    BY <1>12 DEF SelectCharacter
  <2> QED
    BY <1>12, <2>1, GenerateIDStep DEF SelectCharacter, Select
<1>13. ASSUME NEW s \in Conns, NEW c \in Chars, MissCharacter(s, c) PROVE RegisterInv'
  BY <1>13 DEF MissCharacter, register
<1>14. ASSUME NEW s \in Conns, ReadCharacter(s) PROVE RegisterInv'
  BY <1>14, GenerateIDStep DEF ReadCharacter, Select, Fresh
<1>15. ASSUME NEW s \in Conns, StartGame(s) PROVE RegisterInv'
  BY <1>15 DEF StartGame, register
<1>16. ASSUME NEW s \in Conns, CharacterMenu(s) PROVE RegisterInv'
  BY <1>16 DEF CharacterMenu, register
<1>17. ASSUME NEW s \in Conns, ServerMenu(s) PROVE RegisterInv'
  BY <1>17 DEF ServerMenu, register
<1>18. ASSUME NEW s \in Conns, QuitGame(s) PROVE RegisterInv'
  BY <1>18 DEF QuitGame, register
<1>19. ASSUME NEW u \in Users, DisconnectMyCharacters(u) PROVE RegisterInv'
  BY <1>19 DEF DisconnectMyCharacters, register
<1>20. ASSUME NEW l \in logouts, LogoutEnd(l) PROVE RegisterInv'
  <2>1. l.obj \in Objs
    BY DEF Logouts
  <2>2. \A p \in Objs \ {l.obj} : PseudoID[p] # 0 => PseudoID[p] # PseudoID[l.obj]
    BY <2>1
  <2> QED
    BY <1>20, <2>1, <2>2 DEF LogoutEnd, RemoveFromRegister, SessionAssumption, NoObj
<1>21. ASSUME NEW i \in Ids, Unregister(i) PROVE RegisterInv'
  BY <1>21 DEF Unregister
<1> QED
  BY <1>0, <1>1, <1>2, <1>3, <1>4, <1>5, <1>6, <1>7, <1>8, <1>9, <1>10, <1>11,
     <1>12, <1>13, <1>14, <1>15, <1>16, <1>17, <1>18, <1>19, <1>20, <1>21 DEF Next

\* An object without an id that takes one does not leave one behind.
LEMMA TakenIdUsed ==
    ASSUME SessionAssumption, TypeOK, RegisterInv, IdsComeBack, NEW o \in Objs, GenerateID(o),
           reselected' = (reselected \/ PseudoID[o] # 0)
    PROVE  IdsComeBack'
<1> USE DEF TypeOK, ObjectTypes, RegisterTypes, IdsComeBack
<1> SUFFICES ASSUME ~reselected', NEW i \in Ids, PlayerRegister'[i] # NoObj
             PROVE  i \in timers' \/ PseudoID'[PlayerRegister'[i]] = i
  OBVIOUS
<1>1. ~reselected /\ PseudoID[o] = 0 /\ timers' = timers
  BY DEF GenerateID
<1>2. CASE FreeIds = {}
  BY <1>1, <1>2 DEF GenerateID
<1>3. CASE FreeIds # {}
  <2>1. PICK j \in FreeIds : /\ PlayerRegister' = [PlayerRegister EXCEPT ![j] = o]
                            /\ PseudoID' = [PseudoID EXCEPT ![o] = j]
    BY <1>3 DEF GenerateID, TakeID
  <2>2. CASE i = j
    BY <2>1, <2>2
  <2>3. CASE i # j
    <3>1. PlayerRegister'[i] = PlayerRegister[i] /\ PlayerRegister[i] \in Objs
      BY <2>1, <2>3
    <3>2. i \in timers \/ PseudoID[PlayerRegister[i]] = i
      BY <1>1, <3>1
    <3>3. CASE i \in timers
      BY <1>1, <3>3
    <3>4. CASE PseudoID[PlayerRegister[i]] = i
      <4>1. PlayerRegister[i] # o
        BY <1>1, <3>4 DEF SessionAssumption
      <4> QED
        BY <2>1, <3>1, <3>4, <4>1
    <3> QED
      BY <3>2, <3>3, <3>4
  <2> QED
    BY <2>2, <2>3
<1> QED
  BY <1>2, <1>3

\* An id that is given back has a timer.
LEMMA IdsStep ==
    SessionAssumption /\ TypeOK /\ RegisterInv /\ IdsComeBack /\ [Next]_vars => IdsComeBack'
<1> SUFFICES ASSUME SessionAssumption, TypeOK, RegisterInv, IdsComeBack, [Next]_vars PROVE IdsComeBack'
  OBVIOUS
<1> USE DEF TypeOK, ObjectTypes, RegisterTypes, IdsComeBack
<1>0. CASE UNCHANGED vars
  BY <1>0 DEF vars, register
<1>1. ASSUME NEW s \in Conns, NEW u \in Users, Dial(s, u) PROVE IdsComeBack'
  BY <1>1 DEF Dial, Open, register
<1>2. ASSUME NEW s \in Conns, NEW t \in Conns, Follow(s, t) PROVE IdsComeBack'
  BY <1>2 DEF Follow, Open, register
<1>3. ASSUME NEW s \in Conns, Read(s) PROVE IdsComeBack'
  BY <1>3 DEF Read, register, Handling
<1>4. ASSUME NEW s \in Conns, Drop(s) PROVE IdsComeBack'
  BY <1>4 DEF Drop, register, Handling
<1>5. ASSUME NEW s \in Conns, OnClose(s) PROVE IdsComeBack'
  BY <1>5 DEF OnClose, register, Handling
<1>6. ASSUME NEW s \in Conns, Login(s) PROVE IdsComeBack'
  BY <1>6 DEF Login, register, Handling
<1>7. ASSUME NEW s \in Conns, Kick(s) PROVE IdsComeBack'
  BY <1>7 DEF Kick, register, Handling
<1>8. ASSUME NEW s \in Conns, ListServers(s) PROVE IdsComeBack'
  BY <1>8 DEF ListServers, register, Handling
<1>9. ASSUME NEW s \in Conns, SelectServer(s) PROVE IdsComeBack'
  BY <1>9 DEF SelectServer, register, Handling
<1>10. ASSUME NEW s \in Conns, ListCharacters(s) PROVE IdsComeBack'
  BY <1>10 DEF ListCharacters, register, Handling
<1>11. ASSUME NEW s \in Conns, RefuseCharacters(s) PROVE IdsComeBack'
  BY <1>11 DEF RefuseCharacters, register, Handling
<1>12. ASSUME NEW s \in Conns, NEW c \in Chars, SelectCharacter(s, c) PROVE IdsComeBack'
  <2>1. characters[c] \in Objs
    BY <1>12 DEF SelectCharacter
  <2> QED
    BY <1>12, <2>1, TakenIdUsed DEF SelectCharacter, Select
<1>13. ASSUME NEW s \in Conns, NEW c \in Chars, MissCharacter(s, c) PROVE IdsComeBack'
  BY <1>13 DEF MissCharacter, register, Handling
<1>14. ASSUME NEW s \in Conns, ReadCharacter(s) PROVE IdsComeBack'
  BY <1>14, TakenIdUsed DEF ReadCharacter, Select, Fresh
<1>15. ASSUME NEW s \in Conns, StartGame(s) PROVE IdsComeBack'
  BY <1>15 DEF StartGame, register, Handling
<1>16. ASSUME NEW s \in Conns, CharacterMenu(s) PROVE IdsComeBack'
  BY <1>16 DEF CharacterMenu, register, Handling
<1>17. ASSUME NEW s \in Conns, ServerMenu(s) PROVE IdsComeBack'
  BY <1>17 DEF ServerMenu, register, Handling
<1>18. ASSUME NEW s \in Conns, QuitGame(s) PROVE IdsComeBack'
  BY <1>18 DEF QuitGame, register, Handling
<1>19. ASSUME NEW u \in Users, DisconnectMyCharacters(u) PROVE IdsComeBack'
  BY <1>19 DEF DisconnectMyCharacters, register, Handling
<1>20. ASSUME NEW l \in logouts, LogoutEnd(l) PROVE IdsComeBack'
  <2> SUFFICES ASSUME ~reselected, NEW i \in Ids, PlayerRegister[i] # NoObj
               PROVE  i \in timers' \/ PseudoID'[PlayerRegister[i]] = i
    BY <1>20 DEF LogoutEnd
  <2>1. l.obj \in Objs
    BY DEF Logouts
  <2>2. i \in timers \/ PseudoID[PlayerRegister[i]] = i
    OBVIOUS
  <2>3. i # 0
    BY DEF SessionAssumption
  <2> QED
    BY <1>20, <2>1, <2>2, <2>3 DEF LogoutEnd, RemoveFromRegister
<1>21. ASSUME NEW i \in Ids, Unregister(i) PROVE IdsComeBack'
  BY <1>21 DEF Unregister
<1> QED
  BY <1>0, <1>1, <1>2, <1>3, <1>4, <1>5, <1>6, <1>7, <1>8, <1>9, <1>10, <1>11,
     <1>12, <1>13, <1>14, <1>15, <1>16, <1>17, <1>18, <1>19, <1>20, <1>21 DEF Next

----------------------------------------------------------------------------
(* Who is in the game *)

\* A client that plays, or has hung up without anybody having seen it.
InGame(s) == conn[s] # "done" /\ (phase[s] = "playing" \/ (phase[s] = "left" /\ conn[s] = "closed"))
PresentInv == ~overtaken => \A o \in IsOnline : \E s \in Conns : Character[s] = o /\ InGame(s)

\* Who stays in the game keeps his connection.
LEMMA PresentKept ==
    ASSUME PresentInv, overtaken => overtaken', IsOnline' \subseteq IsOnline,
           \A s \in Conns : InGame(s) /\ Character[s] \in IsOnline' => InGame(s)' /\ Character'[s] = Character[s]
    PROVE  PresentInv'
  BY DEF PresentInv

\* Closing a connection and the answers to others leave a client where it is.
LEMMA InGameClosed ==
    ASSUME SocketTypes, NEW k, NEW s \in Conns
    PROVE  Closed(k)[s] = IF s = k /\ conn[s] = "open" THEN "closed" ELSE conn[s]
  BY DEF Closed, SocketTypes
LEMMA InGameAnswer ==
    ASSUME ClientTypes, NEW s \in Conns, NEW p, Answer(s, p)
    PROVE  /\ \A t \in Conns : t # s => phase'[t] = phase[t]
           /\ phase'[s] = IF conn[s] = "open" THEN p ELSE "left"
  BY DEF Answer, ClientTypes

\* Nobody comes into the game without a connection, and whoever sees the last
\* one gone takes the character out.
LEMMA PresentStep == SessionAssumption /\ IInv /\ PresentInv /\ [Next]_vars => PresentInv'
<1> SUFFICES ASSUME SessionAssumption, IInv, PresentInv, [Next]_vars PROVE PresentInv'
  OBVIOUS
<1>0. /\ SocketTypes /\ ClientTypes /\ ObjectTypes /\ ClientInv /\ LeavingInv /\ logouts \subseteq Logouts
      /\ NoObj \notin Objs
  BY DEF IInv, TypeOK, SessionAssumption, NoObj
<1>1. ASSUME NEW s \in Conns, NEW u, Open(s, u), \A t \in Conns : t # s /\ InGame(t) => phase'[t] = phase[t]
      PROVE  PresentInv'
  <2>1. /\ conn[s] = "done" /\ UNCHANGED <<IsOnline, overtaken>>
        /\ \A t \in Conns : t # s => conn'[t] = conn[t] /\ Character'[t] = Character[t]
    BY <1>0, <1>1 DEF Open, Idle, SocketTypes, objects
  <2> QED
    BY <1>1, <2>1, PresentKept DEF InGame
<1>2. ASSUME NEW s \in Conns, NEW u \in Users, Dial(s, u) PROVE PresentInv'
  <2>1. \A t \in Conns : t # s => phase'[t] = phase[t]
    BY <1>0, <1>2 DEF Dial, ClientTypes
  <2> QED
    BY <1>1, <1>2, <2>1 DEF Dial
<1>3. ASSUME NEW s \in Conns, NEW t \in Conns, Follow(s, t) PROVE PresentInv'
  <2>1. \A c \in Conns : c # t /\ InGame(c) => phase'[c] = phase[c]
    BY <1>0, <1>3 DEF Follow, ClientTypes, InGame
  <2> QED
    BY <1>1, <1>3, <2>1 DEF Follow
<1>4. ASSUME NEW s \in Conns, Read(s) \/ \E c \in Chars : MissCharacter(s, c) PROVE PresentInv'
  <2>1. UNCHANGED <<conn, Character, phase, IsOnline, overtaken>>
    BY <1>4 DEF Read, MissCharacter, sockets, objects
  <2> QED
    BY <2>1, PresentKept DEF InGame
<1>5. ASSUME NEW s \in Conns, Drop(s) PROVE PresentInv'
  <2>1. UNCHANGED <<Character, phase, IsOnline, overtaken>> /\ conn' = Closed(s)
    BY <1>5 DEF Drop, clients, objects
  <2> QED
    BY <1>0, <2>1, InGameClosed, PresentKept DEF InGame
<1>6. ASSUME NEW s \in Conns, OnClose(s) PROVE PresentInv'
  <2>1. /\ UNCHANGED overtaken /\ Character[s] \notin IsOnline' /\ IsOnline' \subseteq IsOnline
    BY <1>0, <1>6 DEF OnClose, LeaveCharacter, Logout, ObjectTypes
  <2>2. \A t \in Conns : t # s => conn'[t] = conn[t] /\ Character'[t] = Character[t] /\ phase'[t] = phase[t]
    BY <1>0, <1>6 DEF OnClose, SocketTypes, ClientTypes, Answer
  <2> QED
    BY <2>1, <2>2, PresentKept DEF InGame
\* A handler of s, which does not play, answers and closes connections at most.
<1>7. ASSUME NEW s \in Conns, NEW p, Handling(s), phase[s] \notin {"playing", "left"}, Answer(s, p),
             Character' = Character, IsOnline' \subseteq IsOnline,
             \A t \in Conns : conn'[t] = conn[t] \/ (conn[t] = "open" /\ conn'[t] = "closed")
      PROVE  PresentInv'
  <2>1. \A t \in Conns : InGame(t) => InGame(t)'
    BY <1>0, <1>7, InGameAnswer DEF InGame
  <2> QED
    BY <1>7, <2>1, PresentKept DEF Handling
<1>8. ASSUME NEW s \in Conns, Login(s) \/ ListServers(s) \/ SelectServer(s) \/ ListCharacters(s)
      PROVE  PresentInv'
  <2>1. /\ phase[s] \notin {"playing", "left"} /\ Handling(s) /\ \E p : Answer(s, p)
        /\ UNCHANGED <<conn, Character, IsOnline>>
    BY <1>8 DEF Login, ListServers, SelectServer, ListCharacters, sockets, objects
  <2> QED
    BY <1>7, <2>1
<1>9. ASSUME NEW s \in Conns, Kick(s) PROVE PresentInv'
  <2>1. /\ phase[s] \notin {"playing", "left"} /\ Handling(s) /\ Answer(s, "left") /\ UNCHANGED Character
        /\ IsOnline' \subseteq IsOnline
    BY <1>9 DEF Kick, Logout
  <2>2. \/ conn' = Closed(s)
        \/ \E k : conn' = [t \in Conns |-> IF t \in {s, k} THEN Closed(t)[t] ELSE conn[t]]
    BY <1>9 DEF Kick
  <2>3. \A t \in Conns : conn'[t] = conn[t] \/ (conn[t] = "open" /\ conn'[t] = "closed")
    BY <1>0, <2>2, InGameClosed
  <2> QED
    BY <1>7, <2>1, <2>3
<1>10. ASSUME NEW s \in Conns, RefuseCharacters(s) PROVE PresentInv'
  <2>1. /\ phase[s] \notin {"playing", "left"} /\ Handling(s) /\ Answer(s, "left")
        /\ UNCHANGED <<Character, IsOnline>>
        /\ conn' = conn \/ \E k : conn' = Closed(k)
    BY <1>10 DEF RefuseCharacters, objects
  <2> QED
    BY <1>0, <1>7, <2>1, InGameClosed
\* A selection takes the object out of the game that s is given.
<1>11. ASSUME NEW s \in Conns, NEW o, phase[s] = "menu", Select(s, o), UNCHANGED conn,
              overtaken => overtaken'
       PROVE  PresentInv'
  <2>1. PICK p : Answer(s, p)
    BY <1>11 DEF Select
  <2>2. /\ \A t \in Conns : t # s => Character'[t] = Character[t] /\ phase'[t] = phase[t]
        /\ IsOnline' \subseteq IsOnline
    BY <1>0, <1>11, <2>1, InGameAnswer DEF Select, SocketTypes
  <2> QED
    BY <1>11, <2>2, PresentKept DEF InGame
<1>12. ASSUME NEW s \in Conns, \E c \in Chars : SelectCharacter(s, c) PROVE PresentInv'
  BY <1>11, <1>12 DEF SelectCharacter, Handling
<1>13. ASSUME NEW s \in Conns, ReadCharacter(s) PROVE PresentInv'
  <2>1. phase[s] = "menu"
    BY <1>0, <1>13 DEF ReadCharacter, ClientInv
  <2> QED
    BY <1>11, <1>13, <2>1 DEF ReadCharacter
<1>14. ASSUME NEW s \in Conns, StartGame(s) PROVE PresentInv'
  <2>1. phase[s] = "chosen" /\ Handling(s) /\ UNCHANGED <<conn, Character>>
    BY <1>14 DEF StartGame, sockets
  <2>2. CASE Answer(s, "left") /\ UNCHANGED IsOnline
    BY <1>7, <2>1, <2>2
  <2>3. CASE Answer(s, "playing") /\ IsOnline' = IsOnline \cup {Character[s]}
    <3> SUFFICES ASSUME ~overtaken', NEW o \in IsOnline'
                 PROVE  \E t \in Conns : Character'[t] = o /\ InGame(t)'
      BY DEF PresentInv
    <3>1. conn[s] \in {"open", "closed"} /\ ~overtaken
      BY <1>0, <2>1 DEF Handling, SocketTypes
    <3>2. InGame(s)'
      BY <1>0, <2>1, <2>3, <3>1, InGameAnswer DEF InGame
    <3>3. \A t \in Conns : InGame(t) => InGame(t)'
      BY <1>0, <2>1, <2>3, InGameAnswer DEF InGame
    <3> QED
      BY <2>1, <2>3, <3>1, <3>2, <3>3 DEF PresentInv
  <2> QED
    BY <1>14, <2>2, <2>3 DEF StartGame
<1>15. ASSUME NEW s \in Conns, CharacterMenu(s) \/ ServerMenu(s) \/ QuitGame(s) PROVE PresentInv'
  <2>1. /\ Answer(s, "leaving") /\ Handling(s) /\ UNCHANGED Character
        /\ IsOnline' = IsOnline \ {Character[s]}
        /\ conn' = conn \/ conn' = Closed(s)
    BY <1>15 DEF CharacterMenu, ServerMenu, QuitGame, Logout, sockets
  <2>2. \A t \in Conns : t # s => phase'[t] = phase[t] /\ conn'[t] = conn[t]
    BY <1>0, <2>1, InGameAnswer, InGameClosed
  <2> QED
    BY <2>1, <2>2, PresentKept DEF InGame, Handling
<1>16. ASSUME NEW u \in Users, DisconnectMyCharacters(u) PROVE PresentInv'
  <2>1. /\ UNCHANGED <<conn, Character, phase, overtaken>> /\ IsOnline' \subseteq IsOnline
    BY <1>16 DEF DisconnectMyCharacters, sockets, clients
  <2> QED
    BY <2>1, PresentKept DEF InGame
<1>17. ASSUME NEW l \in logouts, LogoutEnd(l) PROVE PresentInv'
  <2>1. /\ UNCHANGED <<Character, IsOnline, overtaken>>
        /\ conn' = conn \/ conn' = Closed(l.kicked)
        /\ phase' = phase \/ (l.why \in Phases /\ Answer(l.by, l.why))
    BY <1>17 DEF LogoutEnd
  <2>2. \A t \in Conns : conn'[t] = conn[t] \/ (conn[t] = "open" /\ conn'[t] = "closed")
    BY <1>0, <2>1, InGameClosed
  <2>3. \A t \in Conns : InGame(t) => phase'[t] = phase[t]
    <3>1. CASE l.why \in Phases /\ Answer(l.by, l.why)
      <4>1. l.by \in Conns /\ l.why \in Menus
        BY <1>0, <3>1 DEF Logouts, Reasons, Phases, Menus
      <4>2. phase[l.by] \in {"leaving", "left"}
        BY <1>0, <4>1 DEF LeavingInv
      <4> QED
        BY <1>0, <3>1, <4>1, <4>2, InGameAnswer DEF InGame
    <3> QED
      BY <2>1, <3>1
  <2> QED
    BY <2>1, <2>2, <2>3, PresentKept DEF InGame
<1>18. CASE (\E i \in Ids : Unregister(i)) \/ UNCHANGED vars
  <2>1. UNCHANGED <<conn, Character, phase, IsOnline, overtaken>>
    BY <1>18 DEF Unregister, vars, sockets, clients, objects
  <2> QED
    BY <2>1, PresentKept DEF InGame
<1> QED
  BY <1>2, <1>3, <1>4, <1>5, <1>6, <1>8, <1>9, <1>10, <1>12, <1>13, <1>14, <1>15, <1>16, <1>17, <1>18 DEF Next

----------------------------------------------------------------------------
(* Theorems *)

\* The invariant holds when the server starts.
LEMMA InitInv == SessionAssumption /\ Init => IInv
<1> SUFFICES ASSUME SessionAssumption, Init PROVE IInv
  OBVIOUS
<1>1. TypeOK
  BY DEF Init, TypeOK, UserTypes, SocketTypes, ClientTypes, ObjectTypes, RegisterTypes,
     Phases, NoObj
<1>2. ClientInv /\ LeavingInv /\ RegisterInv
  BY DEF Init, ClientInv, LeavingInv, RegisterInv, FoundByID
<1> QED
  BY <1>1, <1>2 DEF IInv

\* Every step keeps it.
LEMMA StepInv == SessionAssumption /\ IInv /\ [Next]_vars => IInv'
  BY TypeStep, ClientStep, LeavingStep, RegisterStep DEF IInv

\* It holds in every state of every behaviour.
LEMMA Invariance == Spec => []IInv
  BY InitInv, StepInv, SessionAssumption, PTL DEF Spec

\* No handler leaves the types: sockets are given users, characters and ids
\* that exist, and a logout belongs to a character and a connection.
THEOREM SessionTypes == Spec => []TypeOK
<1>1. IInv => TypeOK
  BY DEF IInv
<1> QED
  BY <1>1, Invariance, PTL

\* However often a character is logged out and selected at once, it is found
\* under its id as long as it has one (GenerateID, RemoveFromRegister and the
\* timers of server/register.go).
THEOREM EveryoneFoundByID == Spec => []FoundByID
<1>1. IInv => FoundByID
  BY DEF IInv, RegisterInv
<1> QED
  BY <1>1, Invariance, PTL

\* An id is registered only while it is used or its timer runs, as long as no
\* character is selected that has one already.
THEOREM IdsAreReturned == Spec => []IdsComeBack
<1>1. SessionAssumption /\ Init => IdsComeBack
  BY DEF Init, IdsComeBack
<1>2. SessionAssumption /\ IInv /\ IdsComeBack /\ [Next]_vars => IdsComeBack'
  BY IdsStep DEF IInv
<1> QED
  BY <1>1, <1>2, Invariance, SessionAssumption, PTL DEF Spec

\* Nobody stays in the game when all his connections are gone, for any number of
\* connections of a user, selections and logouts at once: the client that plays
\* is the last who was given the character, or has hung up and is still to be
\* seen to (OnClose); unless a packet was handled after that.
THEOREM NobodyIsLeftBehind == Spec => []NoGhosts
<1>1. SessionAssumption /\ Init => PresentInv
  BY DEF Init, PresentInv
<1>2. PresentInv => NoGhosts
  BY DEF PresentInv, NoGhosts, InGame
<1> QED
  BY <1>1, <1>2, PresentStep, Invariance, SessionAssumption, PTL DEF Spec

==============================================================================
