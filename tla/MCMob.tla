------------------------------- MODULE MCMob -------------------------------
\* Two players and poison against one mob.
EXTENDS Mob

CONSTANTS ann, bob

MCPlayers == {ann, bob}
============================================================================
