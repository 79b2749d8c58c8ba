---------------------------- MODULE Consignment ----------------------------
(***************************************************************************)
(* The consignment: RegisterItem, BuyConsignmentItem, ClaimConsignmentItem *)
(* and the part of RemoveItem that keeps the row of a bought item until    *)
(* its seller has been paid.  A handler reads the listing, waits, decides, *)
(* writes the row of the item, waits, and then changes the bag and the     *)
(* gold; the listing itself is written later by a goroutine.  Whether a    *)
(* buyer can pay is data, commissions and the search are left out.         *)
(***************************************************************************)
EXTENDS Naturals, FiniteSets

CONSTANTS CRows,        \* ids of rows of items_characters, which are ids of listings too
          Chars, NoChar,
          CSlots,       \* the slots FindFreeSlot looks at
          NoCRow, NoFree, \* the id of an empty slot; -1, no free slot
          InitHeld,     \* who has which row in which slot at first
          MaxListings,  \* 10 in the code
          MaxCalls,     \* handlers started
          Callers,      \* handlers that run at once
          Custody, Nowhere

ASSUME ConsignmentAssumption ==
    /\ NoCRow \notin CRows /\ NoChar \notin Chars /\ NoFree \notin CSlots
    /\ Custody \notin Chars /\ Nowhere \notin Chars /\ Custody # Nowhere
    /\ MaxListings \in Nat /\ MaxCalls \in Nat
    /\ InitHeld \in [CRows -> [owner : Chars, slot : CSlots]]
    /\ \A r, q \in CRows : InitHeld[r] = InitHeld[q] => r = q

VARIABLES bag,          \* Character.inventory: character -> slot -> row
          rowOf,        \* hops.items_characters: row -> owner and slot
          listing,      \* hops.consignment: row -> seller and IsSold
          doing,        \* what each handler is at
          writes,       \* what goroutines still write to the listings
          trading,      \* characters whose TradeID is set
          paid, received, depositor, \* history, for each row
          disputed,     \* history: rows the code does not guard and that were worked on at once
          calls         \* handlers started, for the bound

cvars == <<bag, rowOf, listing, doing, writes, trading, paid, received, depositor, disputed, calls>>

Deleted == [owner |-> NoChar, slot |-> NoCRow]
NotListed == [seller |-> NoChar, sold |-> FALSE]
Waiting == [op |-> "idle", who |-> NoChar, row |-> NoCRow, slot |-> NoFree]
At(op, c, r, s) == [op |-> op, who |-> c, row |-> r, slot |-> s]
HasFree(c) == {s \in CSlots : bag[c][s] = NoCRow}
FreeSlot(c) == IF HasFree(c) = {} THEN {NoFree} ELSE {s \in HasFree(c) : \A t \in HasFree(c) : s <= t}
Listings(c) == {r \in CRows : listing[r].seller = c}
WriteRow(r, c, s) == IF r = NoCRow \/ rowOf[r] = Deleted THEN rowOf ELSE [rowOf EXCEPT ![r] = [owner |-> c, slot |-> s]]

\* Somebody is at work on r, or its listing is still to be written.
Touched(r) == (\E h \in Callers : doing[h].row = r) \/ \E w \in writes : w.row = r

\* A handler starts with the read of what it needs.
Start(op, c, r, s) ==
    /\ calls < MaxCalls /\ calls' = calls + 1
    /\ \E h \in Callers : doing[h] = Waiting /\ doing' = [doing EXCEPT ![h] = At(op, c, r, s)]
    /\ disputed' = IF Touched(r) THEN disputed \cup {r} ELSE disputed
    /\ UNCHANGED <<bag, rowOf, listing, writes, trading, paid, received, depositor>>

\* RegisterItemHandler and RegisterItem up to the count of the listings.
RegisterItem == \E c \in Chars, s \in CSlots :
    bag[c][s] # NoCRow /\ Cardinality(Listings(c)) < MaxListings /\ Start("counted", c, bag[c][s], s)
\* BuyConsignmentItem of a listing that was found unsold.
BuyConsignmentItem == \E c \in Chars, r \in CRows :
    listing[r] # NotListed /\ ~listing[r].sold /\ Start("buy", c, r, NoFree)
\* ClaimConsignmentItem with isCancel, and without; the menu shows a seller
\* its own listings.
CancelConsignmentItem == \E c \in Chars : \E r \in Listings(c) : ~listing[r].sold /\ Start("cancel", c, r, NoFree)
ClaimConsignmentItem == \E c \in Chars : \E r \in Listings(c) : listing[r].sold /\ Start("claim", c, r, NoFree)
\* RemoveItem, up to the answer whether the item is in the consignment.
RemoveOnSale == \E c \in Chars, s \in CSlots :
    /\ bag[c][s] # NoCRow
    /\ Start(IF listing[bag[c][s]] # NotListed THEN "park" ELSE "delete", c, bag[c][s], s)

\* h goes on to `op`, or is done.
Becomes(h, op, s) == doing' = [doing EXCEPT ![h] = IF op = "idle" THEN Waiting ELSE [@ EXCEPT !.op = op, !.slot = s]]

\* The listing is created, unless the id is in the table already.
CreateListing(h) ==
    /\ doing[h].op = "counted"
    /\ LET c == doing[h].who r == doing[h].row IN
          IF c \in trading \/ listing[r] # NotListed
          THEN Becomes(h, "idle", NoFree) /\ UNCHANGED listing
          ELSE Becomes(h, "created", doing[h].slot) /\ listing' = [listing EXCEPT ![r] = [seller |-> c, sold |-> FALSE]]
    /\ UNCHANGED <<bag, rowOf, writes, trading, paid, received, depositor, disputed, calls>>
\* The row of what is in the slot by then gets slot -1.
ParkForSale(h) ==
    /\ doing[h].op = "created"
    /\ rowOf' = WriteRow(bag[doing[h].who][doing[h].slot], doing[h].who, NoFree)
    /\ Becomes(h, "written", doing[h].slot)
    /\ disputed' = disputed \cup ({bag[doing[h].who][doing[h].slot]} \ {doing[h].row, NoCRow})
    /\ UNCHANGED <<bag, listing, writes, trading, paid, received, depositor, calls>>
\* The slot is emptied.
EmptySlot(h) ==
    /\ doing[h].op \in {"written", "removed"}
    /\ LET c == doing[h].who s == doing[h].slot r == doing[h].row IN
          /\ bag' = [bag EXCEPT ![c][s] = NoCRow]
          /\ depositor' = IF doing[h].op = "written" THEN [depositor EXCEPT ![r] = c] ELSE depositor
          /\ disputed' = IF bag[c][s] # r THEN disputed \cup ({r, bag[c][s]} \ {NoCRow}) ELSE disputed
    /\ Becomes(h, "idle", NoFree)
    /\ UNCHANGED <<rowOf, listing, writes, trading, paid, received, calls>>

\* BuyConsignmentItem with the listing read before the wait: the row goes to the
\* buyer.
WriteBought(h) ==
    /\ doing[h].op = "buy"
    /\ LET c == doing[h].who r == doing[h].row IN
          \/ Becomes(h, "idle", NoFree) /\ UNCHANGED rowOf      \* in a trade, or cannot pay
          \/ c \notin trading /\ \E s \in FreeSlot(c) : Becomes(h, "bought", s) /\ rowOf' = WriteRow(r, c, s)
    /\ UNCHANGED <<bag, listing, writes, trading, paid, received, depositor, disputed, calls>>
\* ClaimConsignmentItem, cancelled: the row goes back to a slot of the seller.
WriteReturned(h) ==
    /\ doing[h].op = "cancel"
    /\ LET c == doing[h].who r == doing[h].row IN
          IF c \in trading THEN Becomes(h, "idle", NoFree) /\ UNCHANGED rowOf
          ELSE \E s \in FreeSlot(c) : Becomes(h, "returned", s) /\ rowOf' = WriteRow(r, c, s)
    /\ UNCHANGED <<bag, listing, writes, trading, paid, received, depositor, disputed, calls>>
Write(op, r) == [op |-> op, row |-> r]

\* As if the buyer paid before the item had a place.
PaysAnyway(s) == TRUE
HasPlace(s) == s # NoFree
\* What follows the wait: without a slot the handler panics, before it pays.
PlaceItem(h) ==
    /\ doing[h].op \in {"bought", "returned"}
    /\ LET c == doing[h].who r == doing[h].row s == doing[h].slot IN
          /\ bag' = IF s # NoFree THEN [bag EXCEPT ![c][s] = r] ELSE bag
          /\ disputed' = IF s # NoFree /\ bag[c][s] # NoCRow THEN disputed \cup {r, bag[c][s]} ELSE disputed
          /\ paid' = IF doing[h].op = "bought" /\ HasPlace(s) THEN [paid EXCEPT ![r] = @ + 1] ELSE paid
          /\ writes' = IF s = NoFree THEN writes
                       ELSE writes \cup {Write(IF doing[h].op = "bought" THEN "sold" ELSE "delete", r)}
    /\ Becomes(h, "idle", NoFree)
    /\ UNCHANGED <<rowOf, listing, trading, received, depositor, calls>>

\* ClaimConsignmentItem of a sold item: the price, then the row if the buyer
\* has removed the item, then the listing.
PaySeller(h) ==
    /\ doing[h].op = "claim"
    /\ LET r == doing[h].row IN
          IF doing[h].who \in trading THEN UNCHANGED <<received, rowOf, writes>>
          ELSE /\ received' = [received EXCEPT ![r] = @ + 1]
               /\ rowOf' = IF rowOf[r].owner = NoChar THEN [rowOf EXCEPT ![r] = Deleted] ELSE rowOf
               /\ writes' = writes \cup {Write("delete", r)}
    /\ Becomes(h, "idle", NoFree)
    /\ UNCHANGED <<bag, listing, trading, paid, depositor, disputed, calls>>

\* RemoveItem: the row is deleted, or kept without an owner for the seller's menu.
WriteRemoved(h) ==
    /\ doing[h].op \in {"park", "delete"}
    /\ LET r == doing[h].row IN
          rowOf' = IF doing[h].op = "delete" THEN [rowOf EXCEPT ![r] = Deleted]
                   ELSE WriteRow(r, NoChar, doing[h].slot)
    /\ Becomes(h, "removed", doing[h].slot)
    /\ UNCHANGED <<bag, listing, writes, trading, paid, received, depositor, disputed, calls>>

\* As if a listing stayed after its seller was paid or had the item back.
NeverDeleted(w) == listing[w.row]
Written(w) == IF listing[w.row] = NotListed \/ w.op = "delete" THEN NotListed ELSE [listing[w.row] EXCEPT !.sold = TRUE]
\* The goroutine's Update or Delete of the listing.
WriteListing ==
    \E w \in writes :
        /\ listing' = [listing EXCEPT ![w.row] = Written(w)]
        /\ writes' = writes \ {w}
        /\ UNCHANGED <<bag, rowOf, doing, trading, paid, received, depositor, disputed, calls>>

\* ReplaceItem within the bag (see Inventory).
MoveItem ==
    \E c \in Chars, s, t \in CSlots :
        LET r == bag[c][s] IN
        /\ r # NoCRow /\ bag[c][t] = NoCRow
        /\ bag' = [bag EXCEPT ![c][s] = NoCRow, ![c][t] = r]
        /\ rowOf' = WriteRow(r, c, t)
        /\ disputed' = IF Touched(r) THEN disputed \cup {r} ELSE disputed
        /\ UNCHANGED <<listing, doing, writes, trading, paid, received, depositor, calls>>
\* Logout and login: the bag is read again, from the rows with a slot; of two
\* rows with one slot it gets one.
Relogin ==
    \E c \in Chars :
        /\ \A h \in Callers : doing[h].who # c
        /\ bag' = [bag EXCEPT ![c] = [s \in CSlots |->
                     LET here == {r \in CRows : rowOf[r] = [owner |-> c, slot |-> s]} IN
                     IF here = {} THEN NoCRow ELSE CHOOSE r \in here : TRUE]]
        /\ trading' = trading \ {c}
        /\ disputed' = disputed \cup {r \in CRows : rowOf[r].owner = c /\ rowOf[r].slot \in CSlots
                                              /\ \E q \in CRows \ {r} : rowOf[q] = rowOf[r]}
        /\ UNCHANGED <<rowOf, listing, doing, writes, paid, received, depositor, calls>>
TradeBegins ==
    \E c \in Chars :
        /\ c \notin trading /\ trading' = trading \cup {c}
        /\ UNCHANGED <<bag, rowOf, listing, doing, writes, paid, received, depositor, disputed, calls>>

CInit ==
    /\ bag = [c \in Chars |-> [s \in CSlots |->
                IF \E r \in CRows : InitHeld[r] = [owner |-> c, slot |-> s]
                THEN CHOOSE r \in CRows : InitHeld[r] = [owner |-> c, slot |-> s] ELSE NoCRow]]
    /\ rowOf = InitHeld
    /\ listing = [r \in CRows |-> NotListed] /\ doing = [h \in Callers |-> Waiting] /\ writes = {}
    /\ trading = {} /\ disputed = {} /\ calls = 0
    /\ paid = [r \in CRows |-> 0] /\ received = [r \in CRows |-> 0] /\ depositor = [r \in CRows |-> NoChar]
CNext ==
    \/ RegisterItem \/ BuyConsignmentItem \/ CancelConsignmentItem \/ ClaimConsignmentItem \/ RemoveOnSale
    \/ \E h \in Callers : \/ CreateListing(h) \/ ParkForSale(h) \/ EmptySlot(h) \/ WriteBought(h)
                          \/ WriteReturned(h) \/ PlaceItem(h) \/ PaySeller(h) \/ WriteRemoved(h)
    \/ WriteListing \/ MoveItem \/ Relogin \/ TradeBegins
CSpec == CInit /\ [][CNext]_cvars

---------------------------------------------------------------------------
Holders(r) == {c \in Chars : \E s \in CSlots : bag[c][s] = r}
holder == [r \in CRows |-> IF Holders(r) # {} THEN CHOOSE c \in Holders(r) : TRUE
                          ELSE IF rowOf[r].owner = NoChar THEN Nowhere ELSE Custody]
Promise == INSTANCE Escrow WITH Rows <- CRows, Chars <- Chars, Custody <- Custody,
    Nowhere <- Nowhere, NoChar <- NoChar,
    holder <- holder, depositor <- depositor, paid <- paid, received <- received, disputed <- disputed

\* The consignment keeps the promise of Escrow: an item somebody registered
\* goes back to who registered it or to one buyer, who pays once, and its
\* seller is paid once, whatever waits, panics, relogins and removals come
\* between; except for an item that two handlers, or a handler and the write
\* of its listing, were at work on at once, which the code does not prevent.
ImplementsEscrow == Promise!Spec
\* What follows for the money (see Escrow): as many prices reach the seller of
\* an item as buyers paid for it, and one at most is under way.
PaidOnce == Promise!PaidOnce
============================================================================
