----------------------------- MODULE MCMeeting -----------------------------
\* Two scenes of characters who meet.  Three who trade gold only, each with one item
\* nobody may trade: enough requests for a second trade to begin while the exchange
\* of the first is still being written.  And the client of a player who walks between
\* two places of a field and a cave, with one other thing.
EXTENDS Trade, Sight, TLC

CONSTANTS ann, bob, cid, tokenA, tokenB, tokenC,
          other, mob, npc, number, pet, here, there, cave
VARIABLE scene

MCPlayers == {ann, bob, cid}
MCRows == {tokenA, tokenB, tokenC}
MCInitBag == [p \in MCPlayers |->
                 [s \in {1} |-> CASE p = ann -> tokenA [] p = bob -> tokenB [] p = cid -> tokenC]]
MCInitGold == [p \in MCPlayers |-> 0]

MCKindOf == other :> "player" @@ mob :> "mob" @@ npc :> "npc" @@ number :> "drop" @@ pet :> "pet"
MCThings == DOMAIN MCKindOf
MCCasts == {{t} : t \in MCThings}
MCMapOf == here :> "field" @@ there :> "field" @@ cave :> "cave"
MCPlaces == DOMAIN MCMapOf

MCInit ==
    /\ Init /\ SInit
    /\ place = [t \in MCThings |-> here]
    /\ \/ scene = "trade" /\ things = {other} /\ at = here
       \/ scene = "sight"
MCNext ==
    /\ UNCHANGED scene
    /\ \/ scene = "trade" /\ Trading /\ UNCHANGED svars
       \/ scene = "sight" /\ SNext /\ UNCHANGED vars
MCSpec == MCInit /\ [][MCNext]_<<vars, svars, scene>> /\ Fairness /\ SightFairness
============================================================================
