-------------------------------- MODULE Bag --------------------------------
(***************************************************************************)
(* The part of a character's inventory that trades, shops and loot work    *)
(* on: the bag slots (11..66 and 341..396 in the code, a small set of      *)
(* naturals here) and the item rows they hold.  A row is one record of the *)
(* items table; a slot whose ItemID is 0 holds NoRow.                      *)
(***************************************************************************)
EXTENDS Naturals, FiniteSets, Functions

CONSTANTS Players,      \* characters, one per account
          Slots,        \* bag slot numbers, scanned in increasing order
          Rows,         \* item rows
          NoRow,        \* an empty slot
          InitBag,      \* the bags the characters load from the database
          Untradable,   \* rows of items whose Tradable flag is not set
          Activated     \* rows with Activated or InUse set

Bags == [Slots -> Rows \cup {NoRow}]

\* A row is loaded into one slot of one character.
OnePlace(b) ==
    \A p, q \in Players, s, t \in Slots :
        b[p][s] = b[q][t] /\ b[p][s] # NoRow => p = q /\ s = t

ASSUME PlayersAssumption == IsFiniteSet(Players)
ASSUME SlotsAssumption == Slots \subseteq Nat /\ Slots # {} /\ IsFiniteSet(Slots)
ASSUME RowsAssumption == NoRow \notin Rows /\ Untradable \subseteq Rows /\ Activated \subseteq Rows
ASSUME InitBagAssumption == InitBag \in [Players -> Bags] /\ OnePlace(InitBag)

Free(bag) == {s \in Slots : bag[s] = NoRow}

\* As if the free slots were the first ones, taken or not.
FirstSlots(bag, n) == {s \in Slots : Cardinality({x \in Slots : x < s}) < n}
\* The n lowest free slots: where n calls of FindFreeSlot put n items.
FirstFree(bag, n) ==
    {s \in Free(bag) : Cardinality({x \in Free(bag) : x < s}) < n}

\* FindFreeSlots(n) succeeds.  It compares the number of slots collected with
\* n after each slot: with n = 0 it succeeds only if the first slot is taken.
FindFreeSlots(bag, n) ==
    IF n = 0 THEN \A s \in Free(bag) : \E x \in Slots : x < s
             ELSE Cardinality(Free(bag)) >= n

\* Every way of putting the items of the slots `from` one after the other into
\* the first free slots of `bag`.
Placements(from, bag) ==
    Injection(from, FirstFree(bag, Cardinality(from)))

\* As if the sender's slot were not emptied.
CopyRows(bags, p, q, f) ==
    [bags EXCEPT
        ![q] = [s \in Slots |-> IF \E x \in DOMAIN f : f[x] = s
                                THEN bags[p][CHOOSE x \in DOMAIN f : f[x] = s]
                                ELSE bags[q][s]]]

\* The bags after the items of p's slots DOMAIN f went to q's slots f[s].
MoveRows(bags, p, q, f) ==
    [bags EXCEPT
        ![p] = [s \in Slots |-> IF s \in DOMAIN f THEN NoRow ELSE bags[p][s]],
        ![q] = [s \in Slots |-> IF \E x \in DOMAIN f : f[x] = s
                                THEN bags[p][CHOOSE x \in DOMAIN f : f[x] = s]
                                ELSE bags[q][s]]]

\* AddItem of a row that does not stack: the first free slot.
AddItem(bags, p, row) ==
    [bags EXCEPT ![p] = [s \in Slots |-> IF s \in FirstFree(bags[p], 1) THEN row
                                         ELSE bags[p][s]]]

\* The slot is emptied in memory; its row is deleted from the items table.
RemoveItem(bags, p, slot) == [bags EXCEPT ![p][slot] = NoRow]
============================================================================
