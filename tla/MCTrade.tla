------------------------------ MODULE MCTrade ------------------------------
\* Two characters with two bag slots each, three item rows: Ann starts with two
\* (one of them activated), Bob with one.
EXTENDS Trade

CONSTANTS ann, bob, sword, ring, potion

MCPlayers == {ann, bob}
MCRows == {sword, ring, potion}
MCInitBag == [p \in MCPlayers |->
                 IF p = ann THEN [s \in {1, 2} |-> IF s = 1 THEN sword ELSE ring]
                            ELSE [s \in {1, 2} |-> IF s = 1 THEN potion ELSE NoRow]]
\* Both first slots are free.
MCSpaciousBag == [p \in MCPlayers |-> [s \in {1, 2} |-> IF p = ann /\ s = 2 THEN ring ELSE NoRow]]
MCActivated == {ring}
MCInitGold == [p \in MCPlayers |-> IF p = ann THEN 1 ELSE 0]
============================================================================
