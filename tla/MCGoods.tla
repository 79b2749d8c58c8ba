------------------------------ MODULE MCGoods ------------------------------
\* Three scenes: one character's bag and bank, the consignment of two, the mail
\* between two.  A behaviour is followed until the code's own gaps have shown.
EXTENDS Inventory, Consignment, Mail

CONSTANTS gem, gear, ann, bob
VARIABLE scene

\* A stack and an upgraded piece; a fresh piece and two pieces that stack, one banked.
MCBags ==
    {[s \in Slots |-> CASE s = 1 -> Item(1, gem, 2, 0, FALSE) [] s = 2 -> Item(2, gear, 1, 1, FALSE) [] OTHER -> NewSlot],
     [s \in Slots |-> CASE s = 1 -> Item(1, gear, 1, 0, FALSE) [] s = 3 -> Item(2, gem, 1, 0, FALSE)
                        [] s = 4 -> Item(3, gem, 1, 0, FALSE) [] OTHER -> NewSlot]}
\* ann has one row to sell, bob's bag is full.
MCHeld == [r \in CRows |-> IF r = 1 THEN [owner |-> ann, slot |-> 1] ELSE [owner |-> bob, slot |-> r - 1]]
\* ann has two rows and all the gold.
MCInserted == [r \in MRows |-> [owner |-> ann, slot |-> r]]
MCPurse == [c \in MChars |-> IF c = ann THEN 2 ELSE 0]

MCInit ==
    /\ CInit /\ MInit
    /\ \/ scene = "bag" /\ Init
       \/ scene \in {"consignment", "mail"} /\ Init /\ mem[1].qty = 2
MCNext ==
    /\ UNCHANGED scene
    /\ \/ scene = "bag" /\ Next /\ UNCHANGED cvars /\ UNCHANGED mvars
       \/ scene = "consignment" /\ CNext /\ UNCHANGED vars /\ UNCHANGED mvars
       \/ scene = "mail" /\ MNext /\ UNCHANGED vars /\ UNCHANGED cvars
MCSpec == MCInit /\ [][MCNext]_<<vars, cvars, mvars, scene>>
MCUndisturbed == flaw \subseteq {"unsaved"} /\ disputed = {} /\ wrong = {}
=============================================================================
