------------------------------ MODULE MCEvents ------------------------------
\* Three scenes: a guild of two and the account of a third; a war between one of
\* each side; the dungeons of two leaders.  A behaviour is followed until the
\* code's own gaps have shown.
EXTENDS Guild, War, Dungeon, TLC

CONSTANTS ann, bob, cat
VARIABLE scene

MCAccount == [c \in People |-> IF c = cat THEN 2 ELSE 1]
MCGuild == ann :> LEADER @@ bob :> MEMBER
\* The guild of ann and bob is as CreateGuild and JoinGuild have left it.
MCGuildInit ==
    /\ guildOf = [c \in People |-> IF c = cat THEN NoGuild ELSE 1]
    /\ rolls = <<MCGuild, NoRoll>> /\ rollRow = rolls /\ leader = <<ann, NoGuild>> /\ founded = {1}
    /\ coins = [c \in People |-> Coins] /\ gone = {} /\ orders = 0
    /\ clerk = [k \in Clerks |-> Idle] /\ due = {} /\ writes = {} /\ strays = {} /\ crossed = {}

MCInit ==
    /\ MCGuildInit /\ WInit /\ DInit
    /\ scene \in {"guild", "war", "dungeon"}
MCNext ==
    /\ UNCHANGED scene
    /\ \/ scene = "guild" /\ GNext /\ UNCHANGED wvars /\ UNCHANGED dvars
       \/ scene = "war" /\ WNext /\ UNCHANGED gvars /\ UNCHANGED dvars
       \/ scene = "dungeon" /\ DNext /\ UNCHANGED gvars /\ UNCHANGED wvars
MCSpec == MCInit /\ [][MCNext]_<<gvars, wvars, dvars, scene>> /\ WarFairness
MCUndisturbed == strays = {} /\ crossed = {} /\ ~overtaken /\ ~unseen /\ strayed = {}
=============================================================================
