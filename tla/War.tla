--------------------------------- MODULE War ---------------------------------
(***************************************************************************)
(* The great war of database/startwar.go and wartimer.go.  A war is        *)
(* announced by WarAutomation or by a game master, counted down by timers  *)
(* of ten seconds that start each other, fought for two minutes that a     *)
(* goroutine counts, and reset by timers of ten seconds: two after a war,  *)
(* one if nobody came.  Only CanJoinWar and WarStarted say whether another *)
(* may be announced.  One stone stands for the five.  What wins (points of *)
(* 10000) is scaled; who is rewarded is left out, but not the wait for it. *)
(***************************************************************************)
EXTENDS Naturals, FiniteSets

CONSTANTS Order, Shao,  \* the characters of the two factions
          Wars,         \* timers that may run at once
          Resets,       \* reset timers at once
          WarmUp,       \* the longest countdown, in timers of ten seconds
          WarTime,      \* the length of a war in ticks
          Points,       \* of each side at first
          Worth,        \* points a guard costs
          MaxValue, Low, High,      \* ConquereValue, 200, 30 and 170 in the code
          Off, Due, Scoring         \* what a timer can be besides a number

Fighters == Order \cup Shao
ASSUME WarAssumption ==
    /\ Order \cap Shao = {} /\ WarmUp \in Nat /\ WarTime \in Nat /\ Points \in Nat \ {0} /\ Worth \in Nat
    /\ MaxValue \in Nat /\ Low \in Nat /\ High \in Nat /\ Low < High /\ High <= MaxValue

VARIABLES CanJoinWar, WarStarted,
          automation,   \* WarAutomation: "idle", "look" or "slept", and the next war type
          countdown,    \* StartWarTimer: timers left, or Off
          fight,        \* StartInWarTimer: ticks left, Scoring or Off
          reset,        \* ResetWar: Due until its timer fires, then whom it still sends home
          points,       \* OrderPoints, ShaoPoints
          InWar,        \* Character.IsinWar
          lists,        \* OrderCharacters and ShaoCharacters, by id
          here,         \* Character.IsOnline
          conquered, value,         \* its ConqueredID and ConquereValue
          overtaken     \* history: a war was announced while one was being reset

wvars == <<CanJoinWar, WarStarted, automation, countdown, fight, reset, points, InWar, lists, here,
           conquered, value, overtaken>>
field == <<InWar, lists, here, conquered, value>>

Sides == {"order", "shao"}
Team(s) == IF s = "order" THEN Order ELSE Shao
Other(s) == IF s = "order" THEN "shao" ELSE "order"
Side(c) == IF c \in Order THEN "order" ELSE "shao"
AllPoints == [s \in Sides |-> Points]
\* Points end a war when they are at most 0; how far below does not matter.
Less(s, n) == [points EXCEPT ![s] = IF @ > n THEN @ - n ELSE 0]

Quiet == ~CanJoinWar /\ ~WarStarted
\* As if a war that was announced during the sleep were not seen.
NotSeen == TRUE
StillQuiet == ~CanJoinWar /\ ~WarStarted
Announce(n) ==
    \E w \in Wars :
        /\ countdown[w] = Off /\ fight[w] = Off
        /\ CanJoinWar' = TRUE
        /\ countdown' = [countdown EXCEPT ![w] = n]
        /\ overtaken' = (overtaken \/ \E r \in Resets : reset[r] # Off)

\* WarAutomation: the time has come; it waits for quiet, sleeps ten seconds,
\* looks again and announces the three wars one after the other.
AutomationBegins ==
    /\ automation.at = "idle" /\ automation' = [at |-> "look", type |-> 1]
    /\ UNCHANGED <<CanJoinWar, WarStarted, countdown, fight, reset, points, field, overtaken>>
AutomationLooks ==
    /\ automation.at = "look" /\ Quiet
    /\ automation' = [automation EXCEPT !.at = "slept"]
    /\ UNCHANGED <<CanJoinWar, WarStarted, countdown, fight, reset, points, field, overtaken>>
AutomationAnnounces ==
    /\ automation.at = "slept"
    /\ IF StillQuiet
       THEN /\ Announce(WarmUp) /\ points' = AllPoints
            /\ automation' = IF automation.type = 3 THEN [at |-> "idle", type |-> 1]
                             ELSE [at |-> "look", type |-> automation.type + 1]
       ELSE /\ automation' = [automation EXCEPT !.at = "look"]
            /\ UNCHANGED <<CanJoinWar, countdown, points, overtaken>>
    /\ UNCHANGED <<WarStarted, fight, reset, field>>
\* Switched off by a command, it ends the series at its next look.
AutomationStops ==
    /\ automation.at = "look" /\ automation' = [at |-> "idle", type |-> 1]
    /\ UNCHANGED <<CanJoinWar, WarStarted, countdown, fight, reset, points, field, overtaken>>
\* The chat command of the game masters; the points are as they were left.
MasterAnnounces ==
    /\ Quiet
    /\ \E n \in 0..WarmUp : Announce(n)
    /\ UNCHANGED <<WarStarted, automation, fight, reset, points, field>>

ResetWar(n) ==
    /\ \E R \in SUBSET {r \in Resets : reset[r] = Off} :
          /\ Cardinality(R) = n
          /\ reset' = [r \in Resets |-> IF r \in R THEN Due ELSE reset[r]]
    /\ points' = AllPoints
\* Who is offline is taken from OrderCharacters; of ShaoCharacters nobody is.
Listed == [lists EXCEPT !["order"] = @ \cap here]
\* A timer of the countdown.
WarTimer(w) ==
    /\ countdown[w] # Off
    /\ IF countdown[w] > 0
       THEN /\ countdown' = [countdown EXCEPT ![w] = @ - 1]
            /\ UNCHANGED <<CanJoinWar, WarStarted, fight, reset, points, lists>>
       ELSE /\ countdown' = [countdown EXCEPT ![w] = Off]
            /\ lists' = Listed
            /\ CanJoinWar' = FALSE
            /\ IF Listed["order"] = {} /\ Listed["shao"] = {}
               THEN WarStarted' = FALSE /\ ResetWar(1) /\ UNCHANGED fight
               ELSE WarStarted' = TRUE /\ fight' = [fight EXCEPT ![w] = WarTime] /\ UNCHANGED <<reset, points>>
    /\ UNCHANGED <<automation, InWar, here, conquered, value, overtaken>>

\* A side that nobody fights for has lost, otherwise it is chance.
TieBreak(t) ==
    IF t = 0 /\ points["order"] = points["shao"]
    THEN CASE lists["shao"] = {} -> {Less("shao", 1)} [] lists["order"] = {} -> {Less("order", 1)}
           [] OTHER -> {Less("order", 1), Less("shao", 1)}
    ELSE {points}
\* The stone moves towards the side that has more characters near it: any, for
\* who has left the war without being seen to go stays in the stone's lists.
StoneMoves ==
    \E majority \in Sides \cup {"none"} :
        LET v == CASE majority = "order" /\ value > 0 -> value - 1
                   [] majority = "shao" /\ value < MaxValue -> value + 1
                   [] OTHER -> value
        IN /\ value' = v
           /\ conquered' = CASE majority = "order" /\ v <= Low -> "order" [] majority = "order" /\ v > High -> "none"
                             [] majority = "shao" /\ v >= High -> "shao" [] majority = "shao" /\ v < Low -> "none"
                             [] OTHER -> conquered
\* One second of a war: the tie break, what the stone costs, who is offline,
\* the stone, and the end by time or by points.
InWarTick(w) ==
    /\ fight[w] \notin {Off, Scoring}
    /\ \E p \in TieBreak(fight[w]) :
          points' = IF conquered = "none" THEN p
                    ELSE [p EXCEPT ![Other(conquered)] = IF @ > 1 THEN @ - 1 ELSE 0]
    /\ lists' = Listed /\ StoneMoves
    /\ fight' = [fight EXCEPT ![w] = IF fight[w] = 0 \/ \E s \in Sides : points'[s] = 0 THEN Scoring ELSE @ - 1]
    /\ UNCHANGED <<CanJoinWar, WarStarted, automation, countdown, reset, InWar, here, overtaken>>
\* WarScorePanel waits for a reward after the other; it resets the war, and
\* StartInWarTimer does so again.
WarScorePanel(w) ==
    /\ fight[w] = Scoring
    /\ lists' = Listed /\ ResetWar(2)
    /\ fight' = [fight EXCEPT ![w] = Off]
    /\ UNCHANGED <<CanJoinWar, WarStarted, automation, countdown, InWar, here, conquered, value, overtaken>>

\* The timer of a reset sends home all who are listed, with a wait for each,
\* frees the stones and says that the war is over.
ResetBegins(r) ==
    /\ reset[r] = Due
    /\ reset' = [reset EXCEPT ![r] = [left |-> lists["order"] \cup lists["shao"], at |-> {}]]
    /\ UNCHANGED <<CanJoinWar, WarStarted, automation, countdown, fight, points, field, overtaken>>
Resetting(r) == reset[r] \notin {Off, Due}
SendHome(r) ==
    /\ Resetting(r) /\ reset[r].at = {}
    /\ \E c \in reset[r].left :
          /\ reset' = [reset EXCEPT ![r] = [left |-> @.left \ {c}, at |-> {c}]]
          /\ InWar' = InWar \ {c}
    /\ UNCHANGED <<CanJoinWar, WarStarted, automation, countdown, fight, points, lists, here, conquered, value, overtaken>>
StrikeOff(r) ==
    /\ Resetting(r) /\ reset[r].at # {}
    /\ lists' = [s \in Sides |-> lists[s] \ reset[r].at]
    /\ reset' = [reset EXCEPT ![r].at = {}]
    /\ UNCHANGED <<CanJoinWar, WarStarted, automation, countdown, fight, points, InWar, here, conquered, value, overtaken>>
WarOver(r) ==
    /\ Resetting(r) /\ reset[r] = [left |-> {}, at |-> {}]
    /\ WarStarted' = FALSE
    /\ value' = 0 /\ conquered' = "none"
    /\ reset' = [reset EXCEPT ![r] = Off]
    /\ UNCHANGED <<CanJoinWar, automation, countdown, fight, points, InWar, lists, here, overtaken>>

\* The battle manager lets characters in, who are moved to map 230; leaving it
\* takes them off the list, except off those of the stones.
JoinWar ==
    \E c \in here :
        /\ CanJoinWar
        /\ InWar' = InWar \cup {c} /\ lists' = [lists EXCEPT ![Side(c)] = @ \cup {c}]
        /\ UNCHANGED <<CanJoinWar, WarStarted, automation, countdown, fight, reset, points, here, conquered, value, overtaken>>
LeaveWar ==
    \E c \in InWar, b \in BOOLEAN :
        /\ InWar' = InWar \ {c} /\ lists' = [lists EXCEPT ![Side(c)] = @ \ {c}]
        /\ here' = IF b THEN here ELSE here \ {c}
        /\ UNCHANGED <<CanJoinWar, WarStarted, automation, countdown, fight, reset, points, conquered, value, overtaken>>
\* The connection is lost, and Logout has not come to the war yet.
GoOffline ==
    \E c \in here :
        /\ here' = here \ {c}
        /\ UNCHANGED <<CanJoinWar, WarStarted, automation, countdown, fight, reset, points, InWar, lists, conquered, value, overtaken>>
StartGame ==
    \E c \in Fighters \ here :
        /\ here' = here \cup {c} /\ InWar' = InWar \ {c}
        /\ UNCHANGED <<CanJoinWar, WarStarted, automation, countdown, fight, reset, points, lists, conquered, value, overtaken>>
\* ServerExploreNonSocketPlayers, once a second.
SweepOffline ==
    /\ \E c \in InWar \ here :
          lists' = [lists EXCEPT ![Side(c)] = @ \ {c}]
    /\ UNCHANGED <<CanJoinWar, WarStarted, automation, countdown, fight, reset, points, InWar, here, conquered, value, overtaken>>
\* A kill costs the other side, a fallen guard its own side.
LosePoints ==
    /\ WarStarted
    /\ \/ \E c \in InWar, d \in InWar : Side(c) # Side(d) /\ points' = Less(Side(d), 1)
       \/ \E s \in Sides : points' = Less(s, Worth)
    /\ UNCHANGED <<CanJoinWar, WarStarted, automation, countdown, fight, reset, field, overtaken>>
WInit ==
    /\ CanJoinWar = FALSE /\ WarStarted = FALSE /\ automation = [at |-> "idle", type |-> 1]
    /\ countdown = [w \in Wars |-> Off] /\ fight = [w \in Wars |-> Off] /\ reset = [r \in Resets |-> Off]
    /\ points = AllPoints /\ InWar = {} /\ lists = [s \in Sides |-> {}] /\ here = Fighters
 /\ conquered = "none" /\ value = MaxValue \div 2 /\ overtaken = FALSE
WTimers ==
    \/ \E w \in Wars : WarTimer(w) \/ InWarTick(w) \/ WarScorePanel(w)
    \/ \E r \in Resets : ResetBegins(r) \/ SendHome(r) \/ StrikeOff(r) \/ WarOver(r)
WNext ==
    \/ AutomationBegins \/ AutomationLooks \/ AutomationAnnounces \/ AutomationStops \/ MasterAnnounces
    \/ WTimers
    \/ JoinWar \/ LeaveWar \/ GoOffline \/ StartGame \/ SweepOffline \/ LosePoints
\* Timers fire, and a goroutine that waits goes on.
WarFairness ==
    /\ \A w \in Wars : WF_wvars(WarTimer(w)) /\ WF_wvars(InWarTick(w)) /\ WF_wvars(WarScorePanel(w))
    /\ \A r \in Resets : WF_wvars(ResetBegins(r)) /\ WF_wvars(SendHome(r)) /\ WF_wvars(StrikeOff(r)) /\ WF_wvars(WarOver(r))
WSpec == WInit /\ [][WNext]_wvars /\ WarFairness

---------------------------------------------------------------------------
Underway == {w \in Wars : countdown[w] # Off} \cup {w \in Wars : fight[w] # Off}
\* Wars take turns: there is one at a time, counted down or fought, although
\* two parties announce them and each looks only at two flags; and every war
\* that is announced is over at some time, so that the next can be.  Unless a
\* game master announces one while the last is being reset, when the second
\* reset ends what has just begun (startwar.go 164-178, 224-305, wartimer.go
\* 117-236, chat.go 1396-1399).
WarsTakeTurns ==
    /\ [](~overtaken => Cardinality(Underway) <= 1)
    /\ ~Quiet ~> (Quiet \/ overtaken)
=============================================================================
