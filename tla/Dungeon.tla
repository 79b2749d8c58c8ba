------------------------------- MODULE Dungeon -------------------------------
(***************************************************************************)
(* The dungeons of dungeon/dungeon.go, which ServerExploreDungeons of      *)
(* database/servers.go ends.  A leader starts one for his party on map 246 *)
(* of a server that has never had one: its handler moves the members one   *)
(* by one and waits for each.  Membership is modelled as far as StartDungeon *)
(* reads it; the parties themselves are those of Party.tla.                *)
(***************************************************************************)
EXTENDS Naturals, FiniteSets, Functions

CONSTANTS Leaders, Followers,    \* characters, who may lead a party or be in one
          Servers,               \* those FindEmptyServer looks at
          None                   \* no party, no handler

Heroes == Leaders \cup Followers
ASSUME DungeonAssumption ==
    Leaders \cap Followers = {} /\ 1 \in Servers /\ Servers \in SUBSET Nat /\ None \notin Heroes

VARIABLES DungeonLoading,
          active,      \* ActiveDungeons: the server of each dungeon, by its key
          loading,     \* the servers whose Dungeon.IsLoading is set
          hosted,      \* those with mobs on map 246 in AIsByMap, for ever
          start,       \* the StartDungeon handler of each leader: its server, whom it has moved
          party,       \* the leader of each character's party
          on,          \* User.ConnectedServer
          awake,       \* Character.IsOnline
          inside,      \* the characters on map 246
          locked,      \* those whose DungeonEvent is less than an hour old
          came,        \* history: with whom a character came in
          unseen,      \* history: a dungeon whose key ServerExploreDungeons does not reach
          strayed      \* history: those whose server changed and whose map did not

dvars == <<DungeonLoading, active, loading, hosted, start, party, on, awake, inside, locked, came, unseen, strayed>>
crowd == <<on, inside, came, strayed>>

Reached(a) == DOMAIN a = 0..(Cardinality(DOMAIN a) - 1)
PartyOf(p) == {c \in Heroes : party[c] = p}
FindEmptyServer == LET E == Servers \ hosted IN IF E = {} THEN {} ELSE {CHOOSE s \in E : \A t \in E : s <= t}

\* ConnectedServer is set, then ChangeMap goes to map 246 or, if the character
\* is in a trade, does not.
Enter(c, p, s) ==
    \E trading \in BOOLEAN :
        /\ on' = [on EXCEPT ![c] = s]
        /\ inside' = IF trading THEN inside ELSE inside \cup {c}
        /\ came' = IF trading THEN came ELSE [came EXCEPT ![c] = p]
        /\ strayed' = IF ~trading THEN strayed \ {c} ELSE IF c \in inside THEN strayed \cup {c} ELSE strayed

\* As if a dungeon could be started while another is filled.
NotBarred == FALSE
Barred == DungeonLoading /\ \E k \in DOMAIN active : active[k] \in loading
MayStart(p) == p \in awake /\ p \notin locked /\ \A c \in PartyOf(p) : c \in awake \ locked
\* The dungeon gate of the npc and the chat command: the dungeon gets the key
\* len(ActiveDungeons), in use or not, and the leader goes in.
StartDungeon(p) ==
    /\ start[p] = None /\ party[p] = p /\ MayStart(p) /\ ~Barred
    /\ \E s \in FindEmptyServer :
          LET k == Cardinality(DOMAIN active) IN
          /\ active' = [i \in DOMAIN active \cup {k} |-> IF i = k THEN s ELSE active[i]]
          /\ unseen' = (unseen \/ k \in DOMAIN active)
          /\ loading' = loading \cup {s}
          /\ start' = [start EXCEPT ![p] = [server |-> s, moved |-> {p}, found |-> FALSE]]
          /\ Enter(p, p, s)
    /\ DungeonLoading' = TRUE
    /\ UNCHANGED <<hosted, party, awake, locked>>
NoServer(p) ==
    /\ start[p] = None /\ party[p] = p /\ MayStart(p) /\ ~Barred /\ FindEmptyServer = {}
    /\ DungeonLoading' = FALSE
    /\ UNCHANGED <<active, loading, hosted, start, party, awake, crowd, locked, unseen>>
\* FindParty: of a leader without a party the handler panics, and the dungeon
\* is loading for ever.
FindParty(p) ==
    /\ start[p] # None /\ ~start[p].found
    /\ locked' = locked \cup {p}
    /\ start' = [start EXCEPT ![p] = IF party[p] = p THEN [@ EXCEPT !.found = TRUE] ELSE None]
    /\ UNCHANGED <<DungeonLoading, active, loading, hosted, party, awake, crowd, unseen>>
MoveMember(p) ==
    /\ start[p] # None /\ start[p].found
    /\ \E c \in PartyOf(p) \ start[p].moved :
          /\ start' = [start EXCEPT ![p].moved = @ \cup {c}]
          /\ IF c \in awake THEN Enter(c, p, start[p].server) /\ locked' = locked \cup {c}
             ELSE UNCHANGED <<crowd, locked>>
    /\ UNCHANGED <<DungeonLoading, active, loading, hosted, party, awake, unseen>>
CreateMobsForNewDungeon(p) ==
    /\ start[p] # None /\ start[p].found /\ PartyOf(p) \subseteq start[p].moved
    /\ hosted' = hosted \cup {start[p].server} /\ loading' = loading \ {start[p].server}
    /\ DungeonLoading' = FALSE
    /\ start' = [start EXCEPT ![p] = None]
    /\ UNCHANGED <<active, party, awake, crowd, locked, unseen>>

\* ServerExploreDungeons looks at the keys below len(ActiveDungeons).  A
\* dungeon ends when nobody plays on its server or its time is up; whoever
\* trades then is on map 246 of server 1.
ExploreDungeon ==
    \E i \in 0..(Cardinality(DOMAIN active) - 1) \cap DOMAIN active :
        LET s == active[i]
            chars == {c \in awake : on[c] = s}
        IN /\ s \notin loading
           /\ active' = Restrict(active, DOMAIN active \ {i})
           /\ unseen' = (unseen \/ ~Reached(active'))
           /\ \/ chars = {} /\ UNCHANGED crowd
              \/ \E T \in SUBSET (chars \cap inside) :
                    /\ on' = [c \in Heroes |-> IF c \in chars \cap inside THEN 1 ELSE on[c]]
                    /\ inside' = inside \ ((chars \cap inside) \ T)
                    /\ strayed' = (strayed \ (chars \cap inside)) \cup T
                    /\ came' = [c \in Heroes |-> IF c \in inside' THEN came[c] ELSE None]
           /\ UNCHANGED <<DungeonLoading, loading, hosted, start, party, awake, locked>>

\* Characters regroup, leave the map, log out, and log in on any server, when
\* startGame takes them off map 246; and the hour goes by.
Regroup ==
    \E c \in Heroes :
      \E p \in (IF c \in Leaders THEN {c} ELSE {q \in Leaders : party[q] = q}) \cup {None} :
        /\ party' = [d \in Heroes |-> IF d = c THEN p ELSE IF party[d] = c /\ p = None THEN None ELSE party[d]]
        /\ UNCHANGED <<DungeonLoading, active, loading, hosted, start, awake, crowd, locked, unseen>>
ChangeMap ==
    \E c \in inside \cap awake :
        /\ inside' = inside \ {c} /\ strayed' = strayed \ {c} /\ came' = [came EXCEPT ![c] = None]
        /\ UNCHANGED <<DungeonLoading, active, loading, hosted, start, party, on, awake, locked, unseen>>
Logout ==
    \E c \in awake :
        /\ awake' = awake \ {c}
        /\ party' = [d \in Heroes |-> IF party[d] = c \/ d = c THEN None ELSE party[d]]
        /\ UNCHANGED <<DungeonLoading, active, loading, hosted, start, crowd, locked, unseen>>
EnterServer ==
    \E c \in Heroes \ awake, s \in Servers :
        /\ awake' = awake \cup {c} /\ on' = [on EXCEPT ![c] = s]
        /\ inside' = inside \ {c} /\ strayed' = strayed \ {c} /\ came' = [came EXCEPT ![c] = None]
        /\ UNCHANGED <<DungeonLoading, active, loading, hosted, start, party, locked, unseen>>
HourIsOver ==
    \E c \in locked :
        /\ locked' = locked \ {c}
        /\ UNCHANGED <<DungeonLoading, active, loading, hosted, start, party, awake, crowd, unseen>>

DInit ==
    /\ DungeonLoading = FALSE /\ active = [k \in {} |-> 1] /\ loading = {} /\ hosted = {}
    /\ start = [p \in Leaders |-> None] /\ party = [c \in Heroes |-> None] /\ on = [c \in Heroes |-> 1]
    /\ awake = Heroes /\ inside = {} /\ locked = {} /\ came = [c \in Heroes |-> None] /\ unseen = FALSE /\ strayed = {}
DNext ==
    \/ \E p \in Leaders : StartDungeon(p) \/ NoServer(p) \/ FindParty(p) \/ MoveMember(p) \/ CreateMobsForNewDungeon(p)
    \/ ExploreDungeon \/ Regroup \/ ChangeMap \/ Logout \/ EnterServer \/ HourIsOver
DSpec == DInit /\ [][DNext]_dvars

---------------------------------------------------------------------------
\* Parties do not meet in a dungeon: on map 246 of one server are characters
\* who came in with one leader, whatever became of their party since; and the
\* dungeon they are in is one that will be ended.  Not so for who was in a
\* trade when he was to be moved, and of a dungeon whose key was used again or
\* is not below the number of dungeons (dungeon/dungeon.go 70-127, servers.go
\* 491-528, npc/open.go 800-808).
DungeonsApart ==
    LET guests == (inside \cap awake) \ strayed IN
    /\ \A c, d \in guests : on[c] = on[d] => came[c] = came[d]
    /\ unseen \/ \A c \in guests : \E k \in DOMAIN active : active[k] = on[c]
=============================================================================
