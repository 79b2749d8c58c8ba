------------------------------- MODULE Arena -------------------------------
(***************************************************************************)
(* The arena (database/arena.go, ServerExploreQueues and                   *)
(* ServerExploreArenas in database/servers.go, /debugarena and             *)
(* /acceptarena in player/chat.go).  Leaders put their parties into the    *)
(* lobby; two of them are matched and queued, and play in teams once all   *)
(* have accepted.  A ticker looks at every queue and match once a second;  *)
(* rounds and the end of a match are timers.  One lobby of the three is    *)
(* modelled: levels are data.                                              *)
(***************************************************************************)
EXTENDS Party, TLC

CONSTANTS QueueTime,    \* ticks a queue lasts, 20 in the code
          RoundTime,    \* ticks a round lasts, RoundInSec
          WinNumber,    \* ArenaWinNumber
          MaxGames,     \* games of a match, 5 in the code
          MaxMatches    \* bound: Arena objects made

ASSUME ArenaAssumption ==
    /\ QueueTime \in Nat /\ RoundTime \in Nat \ {0} /\ WinNumber \in Nat \ {0} /\ MaxGames \in Nat \ {0}
    /\ MaxMatches \in Nat \ {0}

VARIABLES Lobby,         \* LevelTypeArenaLobby[i].Parties: by the PartyID of the leader
          ArenaFounded,  \* parties a match was found for
          LeaderAccept,  \* parties with PartyLeaderAcceptArena
          AcceptedArena, \* member objects with AcceptedArena
          Queues,        \* by ID: two parties, their teams, RemainingTime
          match,         \* the Arena objects
          Arenas,        \* by ID: the registered Arena object
          rounds,        \* running StartNextRound countdowns of a match
          ends,          \* matches with a running ArenaEndTimer
          verdicts,      \* times a match changed the honor of a player
          crashed,       \* the ticker, which recovers from nothing, panicked
          twice,         \* history: players who were in two matches at once
          stranded       \* history: parties that the ticker lost, or that their players left

arenaVars == <<Lobby, ArenaFounded, LeaderAccept, AcceptedArena, Queues, match, Arenas, rounds, ends,
               verdicts, crashed, twice, stranded>>
lobbyVars == <<Lobby, ArenaFounded, LeaderAccept, AcceptedArena, Queues>>
matchVars == <<match, Arenas, rounds, ends, verdicts, twice>>

Matches == 1..MaxMatches
Teams == {"A", "B"}
Sides(a, b) == [t \in Teams |-> IF t = "A" THEN a ELSE b]
Other(t) == IF t = "A" THEN "B" ELSE "A"
NoMatch == [id |-> -1]
Made(o) == match[o] # NoMatch
Result == {"open", "A", "B", "draw"}
Parties0 == {0} \cup PartyObjs

(* Parties, queues, matches and their counters have their types: no more next rounds  *)
(* of a match are counted down (StartNextRound) than it has games, and it has at most *)
(* two games beyond the last, however its rounds end.                                 *)
TypeOK ==
    /\ PartyTypeOK
    /\ Lobby \in [Chars -> Parties0]
    /\ ArenaFounded \subseteq PartyObjs /\ LeaderAccept \subseteq PartyObjs /\ AcceptedArena \subseteq MemberObjs
    /\ \A i \in DOMAIN Queues : Queues[i] \in [party : [Teams -> Parties0], team : [Teams -> SUBSET Chars],
                                               rest : 0..QueueTime]
    /\ \A o \in {m \in Matches : Made(m)} :
          match[o] \in [id : Nat, team : [Teams -> SUBSET Chars], wins : [Teams -> 0..MaxGames + 2],
                        game : 1..MaxGames + 3, left : 0..RoundTime, wait : BOOLEAN, result : Result]
    /\ \A i \in DOMAIN Arenas : Arenas[i] \in Matches /\ Made(Arenas[i])
    /\ rounds \in [Matches -> 0..MaxGames] /\ ends \subseteq Matches
    /\ verdicts \in [Matches -> [Chars -> Nat]]
    /\ crashed \in BOOLEAN /\ twice \subseteq Chars /\ stranded \subseteq Parties0

ArenaInit ==
    /\ Lobby = [c \in Chars |-> 0]
    /\ ArenaFounded = {} /\ LeaderAccept = {} /\ AcceptedArena = {}
    /\ Queues = <<>>
    /\ match = [o \in Matches |-> NoMatch]
    /\ Arenas = <<>>
    /\ rounds = [o \in Matches |-> 0] /\ ends = {}
    /\ verdicts = [o \in Matches |-> [c \in Chars |-> 0]]
    /\ crashed = FALSE /\ twice = {} /\ stranded = {}

----------------------------------------------------------------------------
Put(f, i, x) == [j \in DOMAIN f \cup {i} |-> IF j = i THEN x ELSE f[j]]
Without(f, i) == [j \in DOMAIN f \ {i} |-> f[j]]
Size(f) == Cardinality(DOMAIN f)

Players(o) == match[o].team["A"] \cup match[o].team["B"]
\* As if only a draw finished a match.
FinishedByDraw(o) == match[o].result = "draw"
Finished(o) == match[o].result # "open"
\* FindPlayerInArena, FindPlayerArena: the first of the matches found, in no order.
MatchesOf(c) == {o \in {Arenas[i] : i \in DOMAIN Arenas} : c \in Players(o)}
InArena(c) == MatchesOf(c) # {}
\* GetPlayerParty
PartiesOf(team) == {FindParty(c) : c \in team} \ {0}
PartiesIn(o) == PartiesOf(Players(o))
\* Its parties, if its players are of several.
Mixed(team) == {p \in PartiesOf(team) : PartiesOf(team) # {p}}
\* The parties that wait in a queue, and those of who plays in a match that goes on.
InQueue == {Queues[i].party[t] : i \in DOMAIN Queues, t \in Teams}
InPlay == UNION {PartiesIn(o) : o \in {Arenas[i] : i \in {j \in DOMAIN Arenas : ~Finished(Arenas[j])}}}
\* Nobody who plays is left in them.
Forsake == stranded' = stranded \cup (InPlay \ InPlay')
MemberObjsOf(ps) == {Members[p][c] : p \in ps \ {0}, c \in Chars} \ {0}
MembersIn(p) == IF p = 0 THEN {} ELSE MembersOf(p)

RemovePartyFromLobby(cs) == [k \in Chars |-> IF \E c \in cs : PartyID[c] = k THEN 0 ELSE Lobby[k]]

\* Leader and accepted members who are online.
TeamOf(p) == {Leader[p]} \cup (AcceptedOf(p) \cap online)
\* The party a queue holds for a team: that of the last player who has one; none of
\* them, an empty Party object.
QueuedParty(p) ==
    LET rest == PartiesOf(TeamOf(p) \ {Leader[p]}) IN
    IF rest # {} THEN rest ELSE IF FindParty(Leader[p]) # 0 THEN {FindParty(Leader[p])} ELSE {0}

\* The parties of the queue whose ID the next one takes.
Replaced == IF Size(Queues) \in DOMAIN Queues THEN {Queues[Size(Queues)].party[t] : t \in Teams} ELSE {}

\* FindOpponentsToParty and SendInvitesToPlayers: two parties of the lobby in the
\* order of their honor, which is data; they may be too far apart.
CreateSession(lobby) ==
    \/ UNCHANGED <<ArenaFounded, Queues, stranded>>
    \/ \E k1, k2 \in Chars : LET p == lobby[k1]
                                 q == lobby[k2] IN
          /\ k1 # k2 /\ p # 0 /\ q # 0
          /\ ArenaFounded' = ArenaFounded \cup PartiesOf(TeamOf(p) \cup TeamOf(q))
          /\ \E a \in QueuedParty(p), b \in QueuedParty(q) :
                /\ Queues' = Put(Queues, Size(Queues), [party |-> Sides(a, b), team |-> Sides(TeamOf(p), TeamOf(q)),
                                                        rest |-> QueueTime])
                /\ stranded' = stranded \cup ((Mixed(TeamOf(p)) \cup Mixed(TeamOf(q))) \ {a, b}) \cup Replaced

\* /debugarena
JoinLobby(c) ==
    /\ ~crashed /\ c \in online
    /\ LET p == FindParty(c) IN
          /\ p # 0 /\ Leader[p] = c /\ ~InArena(c) /\ p \notin ArenaFounded
          /\ MembersOf(p) # {} /\ MembersOf(p) \subseteq AcceptedOf(p) \cap online
          /\ Lobby' = IF Lobby[PartyID[c]] = 0 THEN [Lobby EXCEPT ![PartyID[c]] = p] ELSE Lobby
          /\ CreateSession(Lobby')
    /\ UNCHANGED <<partyVars, LeaderAccept, AcceptedArena, matchVars, crashed>>

\* /acceptarena
AcceptArena(c) ==
    /\ ~crashed /\ c \in online
    /\ LET p == FindParty(c) IN
          /\ p \in ArenaFounded
          /\ IF Leader[p] = c
             THEN LeaderAccept' = LeaderAccept \cup {p} /\ UNCHANGED AcceptedArena
             ELSE c \in MembersOf(p) /\ AcceptedArena' = AcceptedArena \cup {Members[p][c]} /\ UNCHANGED LeaderAccept
    /\ UNCHANGED <<partyVars, Lobby, ArenaFounded, Queues, matchVars, crashed, stranded>>

\* As if only the first team left the lobby.
OneTeam(a, b) == ArenaFounded \ {a}
DeleteTeamFromLobby(a, b) == ArenaFounded \ {a, b}

AllAccepted(p) == \A c \in MembersIn(p) : Members[p][c] \in AcceptedArena /\ p \in LeaderAccept

RemoveQueue(i) ==
    LET ps == {Queues[i].party[t] : t \in Teams} IN
    /\ Queues' = Without(Queues, i)
    /\ LeaderAccept' = LeaderAccept \ ps
    /\ AcceptedArena' = AcceptedArena \ MemberObjsOf(ps)

\* CheckingLobby when RemainingTime is 0.  A team that has not accepted makes the
\* acceptances of both forgotten before the second is looked at.
QueueLapses(i) ==
    LET a == Queues[i].party["A"]
        b == Queues[i].party["B"]
        failed == (IF AllAccepted(a) THEN {} ELSE {a})
                  \cup (IF AllAccepted(b) /\ (AllAccepted(a) \/ MembersIn(b) = {}) THEN {} ELSE {b})
        lapsed == failed # {} \/ ~({a, b} \subseteq LeaderAccept)
    IN /\ Queues[i].rest = 0
       /\ Lobby' = RemovePartyFromLobby({Leader[p] : p \in failed})
       /\ ArenaFounded' = IF lapsed THEN DeleteTeamFromLobby(a, b) ELSE ArenaFounded
       /\ stranded' = IF lapsed THEN stranded ELSE stranded \cup {a, b}
       /\ RemoveQueue(i)
       /\ UNCHANGED <<matchVars, crashed>>

\* No server without players, or somebody has not accepted yet.
QueueWaits(i) ==
    /\ Queues[i].rest > 0
    /\ Queues' = [Queues EXCEPT ![i].rest = @ - 1]
    /\ UNCHANGED <<Lobby, ArenaFounded, LeaderAccept, AcceptedArena, matchVars, crashed, stranded>>

\* As if IDs were counted from one.
IDFromOne == Size(Arenas) - 1
NextArenaID == Size(Arenas)
NewMatch(id, team) == [id |-> id, team |-> team, wins |-> [t \in Teams |-> 0], game |-> 1, left |-> 0,
                       wait |-> TRUE, result |-> "open"]

\* The parties of a queue that its players have left, and of the match whose ID the
\* next one takes.
Abandoned(q) == {q.party[t] : t \in {s \in Teams : q.party[s] \notin PartiesOf(q.team[s])}}
Overwritten == IF NextArenaID \in DOMAIN Arenas THEN PartiesIn(Arenas[NextArenaID]) ELSE {}

\* CheckingLobby and TeleportToRestZone, which dereferences the party of each team.
CreateArena(i) ==
    LET q == Queues[i] IN
    /\ q.rest > 0 /\ \A t \in Teams : AllAccepted(q.party[t])
    /\ \E o \in Matches :
          /\ ~Made(o) /\ (\A m \in Matches : ~Made(m) => o <= m)
          /\ match' = [match EXCEPT ![o] = NewMatch(NextArenaID, q.team)]
          /\ Arenas' = Put(Arenas, NextArenaID, o)
          /\ twice' = twice \cup {c \in q.team["A"] \cup q.team["B"] : InArena(c)}
          /\ crashed' = \E t \in Teams : PartiesOf(q.team[t]) = {}
          /\ rounds' = IF crashed' THEN rounds ELSE [rounds EXCEPT ![o] = 1]
    /\ stranded' = stranded \cup Abandoned(q) \cup Overwritten
    /\ Lobby' = RemovePartyFromLobby({Leader[p] : p \in ({q.party[t] : t \in Teams} \ {0})
                                                   \cup UNION {PartiesOf(q.team[t]) : t \in Teams}})
    /\ RemoveQueue(i)
    /\ UNCHANGED <<ArenaFounded, ends, verdicts>>

TickQueue(i) ==
    /\ ~crashed /\ i \in DOMAIN Queues
    /\ QueueLapses(i) \/ CreateArena(i) \/ QueueWaits(i)
    /\ UNCHANGED partyVars

----------------------------------------------------------------------------
(* A match, judged once a second while it is neither over nor waiting for a round. *)

Wins(r, t) == r.wins[t] >= WinNumber

\* The round goes to the teams `ts`; the next one is counted down unless the match is
\* decided: StartNextRound.
Score(s, ts) ==
    LET r == [s EXCEPT !.wins = [t \in Teams |-> IF t \in ts THEN @[t] + 1 ELSE @[t]], !.game = @ + 1]
        goesOn == (\A t \in ts : ~Wins(r, t)) /\ r.game <= MaxGames /\ r.by \subseteq ts
    IN IF goesOn THEN [r EXCEPT !.wait = TRUE, !.pending = @ + 1]
       ELSE IF Cardinality(ts) = 1 /\ (\A t \in ts : Wins(r, t)) THEN [r EXCEPT !.by = @ \cup ts]
       ELSE IF Cardinality(ts) = 2 /\ Cardinality({t \in Teams : Wins(r, t)}) = 1
            THEN [r EXCEPT !.result = CHOOSE t \in Teams : Wins(r, t)]
       ELSE r

\* Who wins, once nobody is left or the games have been played.
Verdict(s, empty) ==
    IF s.result # "open" THEN s.result
    ELSE IF "A" \in empty \/ "B" \in s.by THEN "B"
    ELSE IF "B" \in empty \/ "A" \in s.by THEN "A"
    ELSE IF s.game <= MaxGames THEN "open"
    ELSE IF s.wins["A"] > s.wins["B"] THEN "A"
    ELSE IF s.wins["B"] > s.wins["A"] THEN "B"
    ELSE "draw"

\* TeamGiveWinReward asks who is online, TeamGiveLoseReward does not.
Honored(c, r, v) == v \in Teams /\ (c \in r.team[Other(v)] \/ (c \in r.team[v] /\ c \in online))

\* One second of a match: the teams `dead` have nobody standing, `ahead` has the larger
\* share of HP when the time is up.
Begun(r) == [wins |-> r.wins, game |-> r.game, wait |-> FALSE, pending |-> 0, by |-> {}, result |-> "open"]
Rounds(r, left, dead, ahead) ==
    LET s1 == IF left > 0 THEN Begun(r) ELSE Score(Begun(r), ahead)
        s2 == IF "A" \in dead /\ s1.result = "open" THEN Score(s1, {"B"}) ELSE s1
    IN IF "B" \in dead /\ s2.result = "open" THEN Score(s2, {"A"}) ELSE s2

Judge(o, dead, ahead) ==
    LET r == match[o]
        left == IF r.left > 1 THEN r.left - 1 ELSE 0
        s3 == Rounds(r, left, dead, ahead)
        v == Verdict(s3, {t \in Teams : r.team[t] = {}})
    IN /\ match' = [match EXCEPT ![o] = [id |-> r.id, team |-> r.team, wins |-> s3.wins, game |-> s3.game,
                                         left |-> left, wait |-> s3.wait, result |-> v]]
       /\ rounds' = [rounds EXCEPT ![o] = @ + s3.pending]
       /\ ends' = IF v = "open" THEN ends ELSE ends \cup {o}
       /\ verdicts' = [verdicts EXCEPT ![o] = [c \in Chars |-> IF Honored(c, r, v) THEN @[c] + 1 ELSE @[c]]]
       /\ \E gone \in [Teams -> Parties0] :
             /\ \A t \in Teams : gone[t] \in IF v = "open" \/ PartiesOf(r.team[t]) = {} THEN {0} ELSE PartiesOf(r.team[t])
             /\ ArenaFounded' = ArenaFounded \ {gone[t] : t \in Teams}
             /\ stranded' = IF v = "open" THEN stranded
                            ELSE stranded \cup ((Mixed(r.team["A"]) \cup Mixed(r.team["B"])) \ {gone[t] : t \in Teams})

\* ServerExploreArenas asks for the IDs below the number of matches.
TickArena(i) ==
    /\ ~crashed /\ i \in DOMAIN Arenas /\ i < Size(Arenas)
    /\ LET o == Arenas[i] IN
          /\ ~match[o].wait /\ ~Finished(o)
          /\ \E dead \in SUBSET Teams, ahead \in {{"A"}, {"B"}, Teams} :
                /\ \A t \in Teams : match[o].team[t] = {} => t \in dead
                /\ \A t \in dead : ahead # {t}
                /\ Judge(o, dead, ahead)
    /\ UNCHANGED <<partyVars, Lobby, LeaderAccept, AcceptedArena, Queues, Arenas, crashed, twice>>

\* As if the ticker were not told that the round has begun.
StillWaiting(o) == [match EXCEPT ![o].left = RoundTime - 1]
StartRound(o) == [match EXCEPT ![o] = [@ EXCEPT !.wait = FALSE, !.left = RoundTime - 1]]

\* StartNextRound when its countdown is over
NextRound(o) ==
    /\ ~crashed /\ rounds[o] > 0
    /\ rounds' = [rounds EXCEPT ![o] = @ - 1]
    /\ match' = IF match[o].wait THEN StartRound(o) ELSE match
    /\ UNCHANGED <<partyVars, lobbyVars, Arenas, ends, verdicts, crashed, twice, stranded>>

\* PlayerDeserterPunishment and RemovePlayerFromArena, each on a match of the player
\* it finds first.
Desert(c) ==
    IF ~InArena(c) THEN UNCHANGED <<match, verdicts>>
    ELSE \E u, g \in MatchesOf(c) :
            IF Finished(u) THEN UNCHANGED <<match, verdicts>>
            ELSE /\ verdicts' = [verdicts EXCEPT ![u][c] = @ + 1]
                 /\ match' = [match EXCEPT ![g].team = [t \in Teams |-> @[t] \ {c}]]

\* ChangeMap out of the arena
LeaveZone(c) ==
    /\ ~crashed /\ c \in online /\ InArena(c)
    /\ Desert(c)
    /\ UNCHANGED <<partyVars, lobbyVars, Arenas, rounds, ends, crashed, twice>>
    /\ Forsake

\* The parties of another match that is registered under the ID of one that ends.
Discarded(o) == IF match[o].id \in DOMAIN Arenas /\ Arenas[match[o].id] # o THEN PartiesIn(Arenas[match[o].id]) ELSE {}

\* ArenaEndTeleportOut: ChangeMap takes who is in another match that goes on for a
\* deserter, as Desert does, unless it finds one that is over.  Who has left the zone
\* is left alone.
EndArena(o) ==
    /\ ~crashed /\ o \in ends
    /\ ends' = ends \ {o}
    /\ Arenas' = Without(Arenas, match[o].id)
    /\ \E struck \in SUBSET {c \in Players(o) \cap online : \E u \in MatchesOf(c) : ~Finished(u)} :
       \E u, g \in [struck -> Matches] :
          /\ \A c \in struck : {u[c], g[c]} \subseteq MatchesOf(c) /\ ~Finished(u[c])
          /\ verdicts' = [m \in Matches |-> [c \in Chars |->
                IF c \in struck /\ u[c] = m THEN verdicts[m][c] + 1 ELSE verdicts[m][c]]]
          /\ match' = [m \in Matches |->
                IF \E c \in struck : g[c] = m
                THEN [match[m] EXCEPT !.team = [t \in Teams |-> @[t] \ {c \in struck : g[c] = m}]] ELSE match[m]]
          /\ UNCHANGED <<partyVars, lobbyVars, rounds, crashed, twice>>
          /\ stranded' = stranded \cup ((PartiesOf(struck) \cup Discarded(o)) \ InPlay')

----------------------------------------------------------------------------
(* Leaving, with what LeaveParty and Logout do to the lobby and the match *)

LeavePartyAndLobby(c) ==
    /\ LeaveParty(c, InArena(c))
    /\ Lobby' = IF FindParty(c) = 0 THEN Lobby ELSE RemovePartyFromLobby({c})
    /\ UNCHANGED <<ArenaFounded, LeaderAccept, AcceptedArena, Queues, Arenas, rounds, ends, crashed, twice>>

QuitParty(c) ==
    ~crashed /\ c \in online /\ FindParty(c) # 0 /\ LeavePartyAndLobby(c) /\ UNCHANGED <<online, match, verdicts>> /\ Forsake

Logout(c) == ~crashed /\ c \in online /\ LeavePartyAndLobby(c) /\ Desert(c) /\ online' = online \ {c} /\ Forsake

ExpelMember(c, m) == ~crashed /\ Expel(c, m) /\ UNCHANGED <<lobbyVars, matchVars, crashed>> /\ Forsake

ArenaLeave ==
    \/ \E c \in Chars : LeaveZone(c) \/ QuitParty(c) \/ Logout(c)
    \/ \E c, m \in Chars : ExpelMember(c, m)

ArenaLobby ==
    \/ \E c \in Chars : JoinLobby(c) \/ AcceptArena(c)
    \/ \E i \in DOMAIN Queues : TickQueue(i)

ArenaPlay ==
    \/ \E i \in DOMAIN Arenas : TickArena(i)
    \/ \E o \in Matches : NextRound(o) \/ EndArena(o)

ArenaNext == ArenaLobby \/ ArenaPlay \/ ArenaLeave

Invitations ==
    /\ ~crashed
    /\ \/ \E c, m \in Chars : SendPartyRequest(c, m)
       \/ \E c \in Chars : Accept(c) \/ Reject(c)
       \/ \E t \in timers : InviteTimeout(t)
    /\ UNCHANGED <<lobbyVars, matchVars, crashed>>
    /\ Forsake

ArenaSpec == PartyInit /\ ArenaInit /\ [][ArenaNext \/ Invitations]_<<partyVars, arenaVars>>

\* The ticker and the timers run whatever the players do.
ArenaFairness ==
    /\ \A i \in 0..MaxMatches - 1 : WF_<<partyVars, arenaVars>>(TickArena(i))
    /\ \A o \in Matches : WF_<<partyVars, arenaVars>>(NextRound(o)) /\ WF_<<partyVars, arenaVars>>(EndArena(o))

----------------------------------------------------------------------------
(* A match changes the honor of a player once: by victory, defeat or desertion      *)
(* (TeamGiveWinReward, TeamGiveLoseReward, PlayerDeserterPunishment), unless the    *)
(* player was in two matches at once; and the team that is rewarded has won at      *)
(* least as many rounds as the other, or the other has left (ServerExploreArenas),  *)
(* however rounds end by time and by death.                                         *)
VerdictsAreFair ==
    \A o \in Matches :
        /\ \A c \in Chars \ twice : verdicts[o][c] <= 1
        /\ Made(o) /\ match[o].result \in Teams =>
              LET w == match[o].result IN
              match[o].wins[w] >= match[o].wins[Other(w)] \/ match[o].team[Other(w)] = {}

(* A party that was found a match for (ArenaFounded, with which it cannot register  *)
(* again) is in a queue, or somebody who plays in a match that goes on is in it, so *)
(* that the end of the match frees it (GetPlayerParty), whatever lapses, ends and   *)
(* begins; unless its queue ran out after all had accepted, another queue or match  *)
(* had its ID, its team was of several parties when the match was found or over, or *)
(* its players left it or the match.                                                *)
FoundedIsServed == ~crashed => ArenaFounded \ stranded \subseteq InQueue \cup InPlay

(* A match that the ticker sees ends (ArenaEndTeleportOut): rounds are counted down *)
(* and judged until somebody has won or the games are over.  It does not see a      *)
(* match whose ID is not below the number of matches.                               *)
MatchesEnd ==
    \A i \in 0..MaxMatches - 1 :
        i \in DOMAIN Arenas ~> (i \notin DOMAIN Arenas \/ i >= Size(Arenas) \/ crashed)
=============================================================================
