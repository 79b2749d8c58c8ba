-------------------------------- MODULE Sight -------------------------------
(***************************************************************************)
(* What one player's client shows, kept by exploreWorld                    *)
(* (auth/start_game.go).  Once a second, kind by kind, it looks what is    *)
(* near, notes in OnSight what was not and tells the client, and tells it  *)
(* of what is in OnSight and no longer near.  Everything else goes on      *)
(* meanwhile: ChangeMap, which empties most of OnSight, mobs that die and  *)
(* return, drops, forms, and the mobs' own list of who sees them.          *)
(* A place stands for what is within one another's view.  That a client    *)
(* forgets what it shows when its map changes, players excepted, and a     *)
(* mob when it is told of its death, is read from what the server does     *)
(* not tell it.                                                            *)
(***************************************************************************)
EXTENDS Naturals, Sequences

CONSTANTS Things,       \* characters, mobs, NPCs, drop numbers and pets
          KindOf,       \* thing -> its kind
          Casts,        \* the sets of things a behaviour may be about
          Places,       \* neighbourhoods
          MapOf         \* place -> its map

Kinds == <<"player", "mob", "npc", "drop", "pet">>

ASSUME SightAssumption ==
    /\ KindOf \in [Things -> {Kinds[i] : i \in DOMAIN Kinds}]
    /\ Casts \subseteq SUBSET Things
    /\ DOMAIN MapOf = Places

VARIABLES things,       \* those of this behaviour
          IsActive,     \* c.IsActive: exploreWorld runs
          at, place,    \* c.Coordinate with c.Map, and those of the things
          out,          \* online and visible, called, on the ground
          life,         \* alive, a mob fallen (HP is 0), a mob dead (IsDead) or a pet (HP is 0)
          OnSight,      \* c.OnSight
          shown,        \* what the client shows
          OnSightPlayers, \* mobs whose list has the character
          turn, phase,  \* the kind exploreWorld is at, and how far
          seen,         \* what GetNearby... has returned
          telling,      \* noted, the client not told yet
          moving, target, \* how far ChangeMap is, and where to
          stale,        \* characters that look otherwise since they were shown
          blind         \* history: things the code has lost sight of

svars == <<things, IsActive, at, place, out, life, OnSight, shown, OnSightPlayers, turn, phase,
           seen, telling, moving, target, stale, blind>>
world == <<things, IsActive, at, place, out, life, moving, target>>

Of(k) == {t \in things : KindOf[t] = k}
\* Kinds of which there is nothing leave a pass without effect.
Turns == SelectSeq(Kinds, LAMBDA k : Of(k) # {})
Fleeting == things \ Of("player")
SameMap(p, q) == MapOf[p] = MapOf[q]

SInit ==
    /\ things \in Casts /\ IsActive = FALSE
    /\ at \in Places
    /\ place \in [Things -> Places]
    /\ out = Of("mob") \cup Of("npc")
    /\ life = [t \in Things |-> "alive"]
    /\ OnSight = {} /\ shown = {} /\ OnSightPlayers = {}
    /\ turn = 1 /\ phase = "look" /\ seen = {} /\ telling = {}
    /\ moving = "no" /\ target = at
    /\ stale = {} /\ blind = {}

\* The handler of the first move.
Activate == ~IsActive /\ IsActive' = TRUE
    /\ UNCHANGED <<things, at, place, out, life, OnSight, shown, OnSightPlayers, turn, phase,
                   seen, telling, moving, target, stale, blind>>

----------------------------------------------------------------------------
(* A pass *)

Near(t) == place[t] = at
GetNearbyCharacters == {t \in Of("player") \cap out : Near(t)}
\* Dead mobs are near too.
GetNearbyAIIDs == {t \in Of("mob") : Near(t)}
GetNearbyNPCIDs == {t \in Of("npc") : Near(t)}
GetNearbyDrops == {t \in Of("drop") \cap out : Near(t)}
\* Pets are near with their owners, the character's own always.
NearbyPets == {t \in Of("pet") \cap out : Near(t)}
Nearby(k) == CASE k = "player" -> GetNearbyCharacters
               [] k = "mob"    -> GetNearbyAIIDs
               [] k = "npc"    -> GetNearbyNPCIDs
               [] k = "drop"   -> GetNearbyDrops
               [] k = "pet"    -> NearbyPets

Look ==
    /\ IsActive /\ phase = "look"
    /\ seen' = Nearby(Turns[turn])
    /\ phase' = "note"
    /\ UNCHANGED <<world, OnSight, shown, OnSightPlayers, turn, telling, stale, blind>>

\* What each function shows of what it has found near.
explorePlayers == seen \ OnSight
exploreMobs == {t \in seen \ OnSight : life[t] # "dead"}
exploreNPCs == seen \ OnSight
\* GetDrop finds nothing when the drop, or the character, has left the map.
exploreDrops == {t \in (seen \cap out) \ OnSight : SameMap(place[t], at)}
explorePets == {t \in seen \ OnSight : life[t] # "dead"}
Fresh == CASE Turns[turn] = "player" -> explorePlayers
           [] Turns[turn] = "mob"    -> exploreMobs
           [] Turns[turn] = "npc"    -> exploreNPCs
           [] Turns[turn] = "drop"   -> exploreDrops
           [] Turns[turn] = "pet"    -> explorePets
\* The client is not told of the dead: it has seen them die.
Faded == {t \in seen \cap OnSight : life[t] = "dead"}
\* Left after a change of form took them out of OnSight.
Slipped == (stale \cap Of(Turns[turn])) \ (OnSight \cup seen)

Note ==
    /\ phase = "note"
    /\ OnSight' = (OnSight \cup Fresh) \ Faded
    /\ OnSightPlayers' = (OnSightPlayers \cup (Fresh \cap Of("mob"))) \ Faded
    /\ telling' = Fresh
    /\ blind' = blind \cup Slipped
    /\ phase' = "tell"
    /\ UNCHANGED <<world, shown, turn, seen, stale>>

Losers == (OnSight \cap Of(Turns[turn])) \ seen
\* The client is told what OnSight has lost since, or what the MAP_CHANGED to come
\* makes it forget though OnSight has it.
Astray == {t \in telling : moving = "cleared" /\ t \in Fleeting <=> t \in OnSight}

Tell ==
    /\ phase = "tell"
    /\ shown' = (shown \cup telling) \ Losers
    /\ OnSight' = OnSight \ Losers
    /\ OnSightPlayers' = OnSightPlayers \ Losers
    /\ stale' = stale \ telling
    /\ blind' = blind \cup Astray \cup {t \in telling : life[t] # "alive"}
    /\ phase' = "look" /\ turn' = (turn % Len(Turns)) + 1
    /\ seen' = {} /\ telling' = {}
    /\ UNCHANGED world

exploreWorld == Look \/ Note \/ Tell

----------------------------------------------------------------------------
(* The character moves *)

Walk(p) ==
    /\ moving = "no" /\ p # at /\ SameMap(p, at)
    /\ at' = p
    /\ UNCHANGED <<things, IsActive, place, out, life, OnSight, shown, OnSightPlayers, turn, phase,
                   seen, telling, moving, target, stale, blind>>

\* ChangeMap sets the map, and waits for the quests with the old coordinate.
Depart(p) ==
    /\ moving = "no"
    /\ at' \in {q \in Places : SameMap(q, p)}
    /\ SameMap(p, at) => at' = at
    /\ moving' = "map" /\ target' = p
    /\ UNCHANGED <<things, IsActive, place, out, life, OnSight, shown, OnSightPlayers, turn, phase,
                   seen, telling, stale, blind>>

\* As if the pets were kept.
KeepPets == Of("pet") \cup Of("player")
\* What ChangeMap leaves in OnSight.
Kept == Of("player")

\* The coordinate is set, OnSight emptied.
Clear ==
    /\ moving = "map"
    /\ at' = target
    /\ OnSight' = OnSight \cap Kept
    /\ moving' = "cleared"
    /\ UNCHANGED <<things, IsActive, place, out, life, shown, OnSightPlayers, turn, phase,
                   seen, telling, target, stale, blind>>

\* MAP_CHANGED reaches the client, after what a pass has shown meanwhile.
Arrive ==
    /\ moving = "cleared"
    /\ moving' = "no"
    /\ shown' = shown \ Fleeting
    /\ UNCHANGED <<things, IsActive, at, place, out, life, OnSight, OnSightPlayers, turn, phase,
                   seen, telling, target, stale, blind>>

----------------------------------------------------------------------------
(* The things *)

theMap == <<things, IsActive, at, turn, phase, seen, telling, moving, target>>

\* Mobs and pets stay on their map.
Roam(t, p) ==
    /\ t \in out \ (Of("npc") \cup Of("drop")) /\ life[t] = "alive" /\ p # place[t]
    /\ KindOf[t] # "player" => SameMap(p, place[t])
    /\ place' = [place EXCEPT ![t] = p]
    /\ UNCHANGED <<theMap, out, life, OnSight, shown, OnSightPlayers, stale, blind>>

\* A character logs in or is visible again, a pet is called, a drop gets the number.
\* While OnSight has it, it is taken for the one of before.
Come(t, p) ==
    /\ t \in things \ out
    /\ out' = out \cup {t}
    /\ place' = [place EXCEPT ![t] = p] /\ life' = [life EXCEPT ![t] = "alive"]
    /\ blind' = IF t \in OnSight THEN blind \cup {t} ELSE blind
    /\ UNCHANGED <<theMap, OnSight, shown, OnSightPlayers, stale>>

\* Nobody tells the client.
Go(t) ==
    /\ t \in out \ (Of("mob") \cup Of("npc"))
    /\ out' = out \ {t}
    /\ UNCHANGED <<theMap, place, life, OnSight, shown, OnSightPlayers, stale, blind>>

\* Somebody picks the drop up: DROP_DISAPPEARED is for who has it OnSight.
Taken(t) ==
    /\ t \in out \cap Of("drop")
    /\ out' = out \ {t}
    /\ shown' = IF t \in OnSight THEN shown \ {t} ELSE shown
    /\ UNCHANGED <<theMap, place, life, OnSight, OnSightPlayers, stale, blind>>

\* A form begins or ends: who is near shall be shown the character again.
Morph(t) ==
    /\ t \in out \cap Of("player")
    /\ OnSight' = IF Near(t) THEN OnSight \ {t} ELSE OnSight
    /\ stale' = IF t \in shown THEN stale \cup {t} ELSE stale
    /\ blind' = IF t \in OnSight /\ ~Near(t) THEN blind \cup {t} ELSE blind
    /\ UNCHANGED <<theMap, place, out, life, shown, OnSightPlayers>>

\* The blow that kills is told to who has the mob, or the pet, OnSight.  A mob is
\* dead only a second later.
Fall(t) ==
    /\ t \in out \cap (Of("mob") \cup Of("pet")) /\ life[t] = "alive"
    /\ life' = [life EXCEPT ![t] = IF KindOf[t] = "mob" THEN "fallen" ELSE "dead"]
    /\ shown' = IF t \in OnSight THEN shown \ {t} ELSE shown
    /\ UNCHANGED <<theMap, place, out, OnSight, OnSightPlayers, stale, blind>>
Die(t) ==
    /\ life[t] = "fallen"
    /\ life' = [life EXCEPT ![t] = "dead"]
    /\ UNCHANGED <<theMap, place, out, OnSight, shown, OnSightPlayers, stale, blind>>
\* Back before a pass has found it dead, it is not shown again.
Return(t, p) ==
    /\ t \in Of("mob") /\ life[t] = "dead" /\ SameMap(p, place[t])
    /\ life' = [life EXCEPT ![t] = "alive"]
    /\ place' = [place EXCEPT ![t] = p]
    /\ blind' = IF t \in OnSight THEN blind \cup {t} ELSE blind
    /\ UNCHANGED <<theMap, out, OnSight, shown, OnSightPlayers, stale>>

\* As if a mob forgot whoever is out of its view.
OutOfView(t) == place[t] # at
\* AIHandler drops from the mob's list who is on another map.
Elsewhere(t) == ~SameMap(place[t], at)
Forget(t) ==
    /\ t \in OnSightPlayers /\ life[t] = "alive" /\ Elsewhere(t)
    /\ OnSightPlayers' = OnSightPlayers \ {t}
    /\ UNCHANGED <<theMap, place, out, life, OnSight, shown, stale, blind>>

----------------------------------------------------------------------------

SNext ==
    \/ Activate \/ exploreWorld \/ Clear \/ Arrive
    \/ \E p \in Places : Walk(p) \/ Depart(p)
    \/ \E t \in Things : Go(t) \/ Taken(t) \/ Morph(t) \/ Fall(t) \/ Die(t) \/ Forget(t)
    \/ \E t \in Things, p \in Places : Roam(t, p) \/ Come(t, p) \/ Return(t, p)

\* exploreWorld is a loop with a sleep of a second; ChangeMap goes on.
SightFairness == WF_svars(exploreWorld) /\ WF_svars(Clear \/ Arrive)

SightSpec == SInit /\ [][SNext]_svars /\ SightFairness

----------------------------------------------------------------------------
(* Properties *)

Settled(t) == IsActive /\ moving = "no" /\ t \notin blind
Here(t) == t \in out /\ Near(t)

\* Whatever has happened, when a character stays the client comes to show what
\* stays near, as it looks now, and shows no longer what stays away or dead: each
\* way the code may lose sight of something is written to blind.
SightSettles ==
    \A t \in Things :
        /\ <>[](Settled(t) /\ Here(t) /\ life[t] = "alive") => []<>(t \in shown \ stale)
        /\ <>[](Settled(t) /\ ~Here(t)) => <>[](t \notin shown)
        /\ <>[](Settled(t) /\ life[t] = "dead") => <>[](t \notin shown)

\* A mob a player is shown knows of the player, whatever maps he has been on:
\* otherwise it would neither move nor fight back.
WatchedMobsKnow ==
    moving = "no" =>
        \A t \in OnSight \cap Of("mob") : SameMap(place[t], at) => t \in OnSightPlayers
=============================================================================
