-------------------------------- MODULE Guild --------------------------------
(***************************************************************************)
(* The guilds of player/guild.go and database/guilds.go.  A guild keeps    *)
(* its members in its row, as a list that is changed in memory and written *)
(* by `go guild.Update()`; a character keeps the id of the guild.  The     *)
(* handlers change one, wait for the database, and change the other.  An   *)
(* invitation is kept by the clients alone: an answer names a character,   *)
(* whose guild of that moment is joined.  A guild is in memory from the    *)
(* first time it is looked up; before that it is as its row.               *)
(***************************************************************************)
EXTENDS Naturals, FiniteSets

CONSTANTS People, GuildIDs,
          Account,      \* which user a character belongs to
          NoGuild,      \* GuildID -1
          Coins, Fee, CoinSize,     \* the gold at first, 10,000,000 and 2^64
          Ranks,        \* the roles, from MEMBER to LEADER
          Clerks,       \* handlers that wait at once
          MaxOrders     \* handlers ever called

MEMBER == 1
SAGE == 3
SOLDIER == 4
LEADER == 5
ASSUME GuildAssumption ==
    /\ NoGuild \notin GuildIDs \cup People /\ GuildIDs \subseteq Nat \ {0}
    /\ Coins \in Nat /\ Fee \in Nat /\ Coins < CoinSize /\ Fee <= Coins
    /\ {MEMBER, LEADER} \subseteq Ranks /\ Ranks \subseteq 1..5 /\ MaxOrders \in Nat

VARIABLES guildOf,      \* Character.GuildID
          rolls,        \* Guild.Members in memory: id -> role
          rollRow,      \* the same in the row of the guild
          leader,       \* Guild.LeaderID, which never changes while there is the guild
          founded,      \* ids that were given out
          coins,        \* Character.Gold
          gone,         \* characters that were deleted
          clerk,        \* what each waiting handler is at
          due,          \* guilds with a `go guild.Update()` that has not begun
          writes,       \* updates under way, with the list they were given
          orders,       \* handlers called so far
          strays,       \* history: characters whose GuildID the code does not keep in step
          crossed       \* history: guilds with two updates under way at once

gvars == <<guildOf, rolls, rollRow, leader, founded, coins, gone, clerk, due, writes, orders, strays, crossed>>

NoRoll == <<>>
At(op, c, d, g, S) == [op |-> op, who |-> c, other |-> d, guild |-> g, left |-> S]
Idle == At("idle", NoGuild, NoGuild, NoGuild, {})
Exists(g) == g \in GuildIDs /\ leader[g] # NoGuild
Present == People \ gone
\* The characters a waiting handler is about.
Concerned(k) == IF clerk[k] = Idle THEN {} ELSE {clerk[k].who} \cup clerk[k].left
Busy == UNION {Concerned(k) : k \in Clerks}
Dissolving == {clerk[k].guild : k \in {l \in Clerks : clerk[l].op = "dissolve"}}
\* Two handlers at once that are about one character go astray.
Astray(S) == strays \cup (S \cap Busy)

Called == orders < MaxOrders /\ orders' = orders + 1

Role(g, c) == rolls[g][c]
MayExpel(g, c) == c \in DOMAIN rolls[g] /\ Role(g, c) \in {LEADER, SOLDIER, SAGE}
AddMember(g, c) == [rolls EXCEPT ![g] = [m \in DOMAIN @ \cup {c} |-> IF m \in DOMAIN @ THEN @[m] ELSE MEMBER]]
\* As if the name stayed on the list.
KeepMember(g, c) == rolls
DropMember(g, c) == [rolls EXCEPT ![g] = [m \in DOMAIN @ \ {c} |-> @[m]]]

\* CreateGuildHandler looks at gold and guild, and then waits: for the name,
\* for the row, and for the data of the new guild; the gold goes last.
CreateGuild(k) ==
    \E c \in Present :
        /\ clerk[k] = Idle /\ coins[c] >= Fee /\ guildOf[c] = NoGuild
        /\ clerk' = [clerk EXCEPT ![k] = At("name", c, NoGuild, NoGuild, {})]
        /\ strays' = Astray({c})
        /\ Called /\ UNCHANGED <<guildOf, rolls, rollRow, leader, founded, coins, gone, due, writes, crossed>>
NameTaken(k) ==
    /\ clerk[k].op = "name"
    /\ clerk' = [clerk EXCEPT ![k] = Idle]
    /\ UNCHANGED <<orders, guildOf, rolls, rollRow, leader, founded, coins, gone, due, writes, strays, crossed>>
InsertGuild(k) ==
    /\ clerk[k].op = "name"
    /\ \E g \in GuildIDs :
          /\ g \notin founded /\ (\A h \in GuildIDs \ founded : g <= h) /\ founded' = founded \cup {g}
          /\ LET roll == [c \in {clerk[k].who} |-> LEADER] IN
                rolls' = [rolls EXCEPT ![g] = roll] /\ rollRow' = [rollRow EXCEPT ![g] = roll]
          /\ leader' = [leader EXCEPT ![g] = clerk[k].who]
          /\ clerk' = [clerk EXCEPT ![k] = At("insert", clerk[k].who, NoGuild, g, {})]
    /\ UNCHANGED <<orders, guildOf, coins, gone, due, writes, strays, crossed>>
Founded(k) ==
    /\ clerk[k].op = "insert"
    /\ guildOf' = [guildOf EXCEPT ![clerk[k].who] = clerk[k].guild]
    /\ clerk' = [clerk EXCEPT ![k].op = "data"]
    /\ UNCHANGED <<orders, rolls, rollRow, leader, founded, coins, gone, due, writes, strays, crossed>>
PayFee(k) ==
    /\ clerk[k].op = "data"
    /\ coins' = [coins EXCEPT ![clerk[k].who] = (@ + CoinSize - Fee) % CoinSize]
    /\ clerk' = [clerk EXCEPT ![k] = Idle]
    /\ UNCHANGED <<orders, guildOf, rolls, rollRow, leader, founded, gone, due, writes, strays, crossed>>

\* RespondGuildRequestHandler: whoever is named is looked up; the guild he has
\* by then is joined.
RespondGuildRequest(k) ==
    \E c, d \in Present :
        /\ clerk[k] = Idle /\ guildOf[c] = NoGuild
        /\ clerk' = [clerk EXCEPT ![k] = At("answer", c, d, NoGuild, {})]
        /\ strays' = Astray({c})
        /\ Called /\ UNCHANGED <<guildOf, rolls, rollRow, leader, founded, coins, gone, due, writes, crossed>>
JoinGuild(k) ==
    LET c == clerk[k].who g == guildOf[clerk[k].other] IN
    /\ clerk[k].op = "answer"
    /\ IF Exists(g)
       THEN /\ rolls' = AddMember(g, c) /\ due' = due \cup {g}
            /\ guildOf' = [guildOf EXCEPT ![c] = g]
            /\ strays' = IF g \in Dissolving THEN strays \cup {c} ELSE strays
       ELSE UNCHANGED <<rolls, due, guildOf, strays>>
    /\ clerk' = [clerk EXCEPT ![k] = Idle]
    /\ UNCHANGED <<orders, rollRow, leader, founded, coins, gone, writes, crossed>>

\* ExpelFromGuildHandler takes any character off the list, looks him up, and
\* clears his GuildID, whatever guild it says.
ExpelFromGuild(k) ==
    \E b, c \in Present :
        LET g == guildOf[b] IN
        /\ clerk[k] = Idle /\ Exists(g) /\ MayExpel(g, b)
        /\ rolls' = DropMember(g, c)
        /\ clerk' = [clerk EXCEPT ![k] = At("expel", c, NoGuild, g, {})]
        /\ strays' = Astray({c}) \cup (IF guildOf[c] = g THEN {} ELSE {c})
        /\ Called /\ UNCHANGED <<guildOf, rollRow, leader, founded, coins, gone, due, writes, crossed>>
Expelled(k) ==
    /\ clerk[k].op = "expel"
    /\ guildOf' = [guildOf EXCEPT ![clerk[k].who] = NoGuild]
    /\ due' = due \cup ({clerk[k].guild} \ {g \in GuildIDs : ~Exists(g)})
    /\ clerk' = [clerk EXCEPT ![k] = Idle]
    /\ UNCHANGED <<orders, rolls, rollRow, leader, founded, coins, gone, writes, strays, crossed>>

\* LeaveGuildHandler.  A member goes at once; when the leader goes, everybody
\* on the list of that moment is looked up and cleared, one after the other,
\* and the guild is deleted.
LeaveGuild ==
    \E c \in Present :
        LET g == guildOf[c] IN
        /\ Exists(g) /\ leader[g] # c
        /\ guildOf' = [guildOf EXCEPT ![c] = NoGuild]
        /\ rolls' = DropMember(g, c) /\ due' = due \cup {g}
        /\ strays' = Astray({c})
        /\ Called /\ UNCHANGED <<rollRow, leader, founded, coins, gone, clerk, writes, crossed>>
DissolveGuild(k) ==
    \E c \in Present :
        LET g == guildOf[c] IN
        /\ clerk[k] = Idle /\ Exists(g) /\ leader[g] = c
        /\ guildOf' = [guildOf EXCEPT ![c] = NoGuild]
        /\ clerk' = [clerk EXCEPT ![k] = At("dissolve", c, NoGuild, g, DOMAIN rolls[g])]
        /\ strays' = Astray({c} \cup DOMAIN rolls[g])
        /\ Called /\ UNCHANGED <<rolls, rollRow, leader, founded, coins, gone, due, writes, crossed>>
ClearMember(k) ==
    /\ clerk[k].op = "dissolve"
    /\ \E m \in clerk[k].left :
          /\ guildOf' = [guildOf EXCEPT ![m] = NoGuild]
          /\ clerk' = [clerk EXCEPT ![k].left = @ \ {m}]
    /\ UNCHANGED <<orders, rolls, rollRow, leader, founded, coins, gone, due, writes, strays, crossed>>
\* Guild.Delete: the row goes with the entry of the cache.
Deleted(g) == leader' = [leader EXCEPT ![g] = NoGuild] /\ rollRow' = [rollRow EXCEPT ![g] = NoRoll] /\ due' = due \ {g}
DeleteGuild(k) ==
    /\ clerk[k].op = "dissolve" /\ clerk[k].left = {}
    /\ Deleted(clerk[k].guild)
    /\ clerk' = [clerk EXCEPT ![k] = Idle]
    /\ UNCHANGED <<orders, guildOf, rolls, founded, coins, gone, writes, strays, crossed>>

\* ChangeRoleHandler and ChangeGuildLogoHandler do not wait.
ChangeRole ==
    \E b, m \in Present, r \in Ranks :
        LET g == guildOf[b] IN
        /\ Exists(g) /\ {b, m} \subseteq DOMAIN rolls[g] /\ Role(g, b) > SOLDIER
        /\ rolls' = [rolls EXCEPT ![g][m] = r] /\ due' = due \cup {g}
        /\ Called /\ UNCHANGED <<guildOf, rollRow, leader, founded, coins, gone, clerk, writes, strays, crossed>>
ChangeGuildLogo ==
    \E b \in Present :
        LET g == guildOf[b] IN
        /\ Exists(g) /\ b \in DOMAIN rolls[g] /\ Role(g, b) \in {LEADER, SOLDIER}
        /\ due' = due \cup {g}
        /\ Called /\ UNCHANGED <<guildOf, rolls, rollRow, leader, founded, coins, gone, clerk, writes, strays, crossed>>

\* The chat command addguild moves anybody, without a look at the guild he has.
AddGuild ==
    \E c \in Present :
        /\ \/ /\ Exists(guildOf[c])
              /\ rolls' = DropMember(guildOf[c], c) /\ due' = due \cup {guildOf[c]}
              /\ guildOf' = [guildOf EXCEPT ![c] = NoGuild]
              /\ strays' = Astray({c})
           \/ \E g \in GuildIDs :
              /\ Exists(g)
              /\ rolls' = AddMember(g, c) /\ due' = due \cup {g}
              /\ guildOf' = [guildOf EXCEPT ![c] = g]
              /\ strays' = IF guildOf[c] # NoGuild \/ g \in Dissolving THEN strays \cup {c} ELSE Astray({c})
        /\ Called /\ UNCHANGED <<rollRow, leader, founded, coins, gone, clerk, writes, crossed>>
\* The item that changes the faction asks that its user has no guild, and
\* clears the guild of all his characters.
ChangeFaction ==
    \E c \in Present :
        LET mine == {d \in Present : Account[d] = Account[c]} IN
        /\ guildOf[c] = NoGuild
        /\ guildOf' = [d \in People |-> IF d \in mine THEN NoGuild ELSE guildOf[d]]
        /\ strays' = Astray(mine) \cup {d \in mine : guildOf[d] # NoGuild}
        /\ Called /\ UNCHANGED <<rolls, rollRow, leader, founded, coins, gone, clerk, due, writes, crossed>>
\* Deleting a character takes him off the list; the guild of a leader is
\* deleted and its members keep its id.
DeleteCharacter ==
    \E c \in Present :
        LET g == guildOf[c] IN
        /\ gone' = gone \cup {c}
        /\ IF ~Exists(g) THEN UNCHANGED <<rolls, rollRow, leader, due, strays>>
           ELSE IF leader[g] = c
           THEN Deleted(g) /\ strays' = strays \cup DOMAIN rolls[g] /\ UNCHANGED rolls
           ELSE rolls' = DropMember(g, c) /\ due' = due \cup {g} /\ UNCHANGED <<rollRow, leader, strays>>
        /\ Called /\ UNCHANGED <<guildOf, founded, coins, clerk, writes, crossed>>

\* `go guild.Update()` takes the list when it begins; the database has it when
\* it ends.  Two of one guild may end in either order.
BeginUpdate ==
    \E g \in due :
        /\ due' = due \ {g}
        /\ writes' = writes \cup {<<g, rolls[g]>>}
        /\ crossed' = IF \E w \in writes : w[1] = g THEN crossed \cup {g} ELSE crossed
        /\ UNCHANGED <<orders, guildOf, rolls, rollRow, leader, founded, coins, gone, clerk, strays>>
EndUpdate ==
    \E w \in writes :
        /\ writes' = writes \ {w}
        /\ rollRow' = IF Exists(w[1]) THEN [rollRow EXCEPT ![w[1]] = w[2]] ELSE rollRow
        /\ UNCHANGED <<orders, guildOf, rolls, leader, founded, coins, gone, clerk, due, strays, crossed>>

GInit ==
    /\ guildOf = [c \in People |-> NoGuild] /\ leader = [g \in GuildIDs |-> NoGuild]
    /\ rolls = [g \in GuildIDs |-> NoRoll] /\ rollRow = rolls
    /\ coins = [c \in People |-> Coins] /\ founded = {} /\ gone = {}
    /\ clerk = [k \in Clerks |-> Idle] /\ orders = 0 /\ due = {} /\ writes = {} /\ strays = {} /\ crossed = {}
GNext ==
    \/ LeaveGuild \/ ChangeRole \/ ChangeGuildLogo \/ AddGuild \/ ChangeFaction \/ DeleteCharacter
    \/ BeginUpdate \/ EndUpdate
    \/ \E k \in Clerks :
          \/ CreateGuild(k) \/ NameTaken(k) \/ InsertGuild(k) \/ Founded(k) \/ PayFee(k)
          \/ RespondGuildRequest(k) \/ JoinGuild(k) \/ ExpelFromGuild(k) \/ Expelled(k)
          \/ DissolveGuild(k) \/ ClearMember(k) \/ DeleteGuild(k)
GSpec == GInit /\ [][GNext]_gvars

---------------------------------------------------------------------------
\* A character has the id of a guild exactly if he is on its list.
MembersAgree ==
    strays = {} => \A c \in Present \ Busy :
        /\ guildOf[c] # NoGuild => Exists(guildOf[c])
        /\ \A g \in GuildIDs \ Dissolving : Exists(g) => (guildOf[c] = g <=> c \in DOMAIN rolls[g])
\* When no update is due or under way the row has the list of the memory.
RowsAgree ==
    \A g \in GuildIDs \ crossed :
        /\ Exists(g) /\ g \notin due /\ (\A w \in writes : w[1] # g)
        /\ \A k \in Clerks : clerk[k].op # "expel" \/ clerk[k].guild # g
        => rollRow[g] = rolls[g]

\* Members and rolls agree: outside of the handlers that are about a character
\* his GuildID and the list of the guild say the same, and a list that no update
\* is due for is in its row.  Not where the code loses track: two handlers about
\* one character at once, somebody expelled from a guild he is not in, joining
\* a guild that is being dissolved, the commands and items that clear or set
\* GuildID alone, or two updates that end in the wrong order (guild.go
\* 165-490, guilds.go 83-200).
RollsAgree == MembersAgree /\ RowsAgree
=============================================================================
