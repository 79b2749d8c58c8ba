------------------------------- MODULE MCShop -------------------------------
\* A seller and a buyer with room for two items, which they find; the buyer can pay
\* twice; two sales, so that one can be opened while a purchase from the other is
\* being written.
EXTENDS Shop, TLC

CONSTANTS ann, bob, sword, ring

MCPlayers == {ann, bob}
MCRows == {sword, ring}
MCInitBag == [p \in MCPlayers |-> [s \in {1, 2} |-> NoRow]]
MCInitGold == [p \in MCPlayers |-> IF p = bob THEN 2 ELSE 0]

\* Behaviours are followed up to the first overlap.
MCOrderly == ~raced
MCSymmetry == Permutations(MCRows)
=============================================================================
