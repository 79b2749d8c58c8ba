-------------------------------- MODULE Shop --------------------------------
(***************************************************************************)
(* Players' shops (OpenSale, CloseSale and BuySaleItem in                  *)
(* database/characters.go, database/sales.go, player/sales.go).  A sale    *)
(* lists slots of the seller's bag with their prices.  It is registered by *)
(* a goroutine of its own, and a purchase is two steps: money and a copy   *)
(* of the item change hands, then the row is written, and only then the    *)
(* entry is marked as sold and the seller's slot emptied.                  *)
(***************************************************************************)
EXTENDS Bag

CONSTANTS Sellers,      \* characters who open shops
          Prices,       \* prices of one entry
          InitGold,     \* gold of each character at the start
          MaxSales      \* bound: sales somebody still refers to

ASSUME ShopAssumption ==
    /\ Sellers \subseteq Players /\ Prices \subseteq Nat \ {0} /\ InitGold \in [Players -> Nat] /\ MaxSales \in Nat
    /\ 0 \notin Slots

VARIABLES online,     \* characters with IsOnline set
          bags,       \* c.InventorySlots()
          Gold,       \* c.Gold
          sales,      \* the Sale objects somebody refers to
          creating,   \* sales whose Create is still to run
          Sales,      \* the registered sale of a character, 0 for none
          purchases,  \* purchases whose row is being written
          astray,     \* gold paid to characters who had left
          late,       \* history: a sale was registered after its seller had left
          raced       \* history: a slot was bought or traded away while a purchase of it
                      \* was being written

vars == <<online, bags, Gold, sales, creating, Sales, purchases, astray, late, raced>>

Ids == 1..MaxSales
NoSale == [seller |-> "nobody"]
Opened(i) == sales[i] # NoSale
SalesOf(p) == {i \in Ids : Opened(i) /\ sales[i].seller = p}
Entries(i) == DOMAIN sales[i].price
Sold(i) == sales[i].sold
Purchase == [buyer : Players, sale : Ids, slot : Slots, to : Slots]

TypeOK ==
    /\ online \subseteq Players
    /\ bags \in [Players -> Bags]
    /\ Gold \in [Players -> Nat]
    /\ DOMAIN sales = Ids
    /\ \A i \in {j \in Ids : Opened(j)} :
          /\ sales[i].seller \in Players
          /\ Entries(i) \subseteq Slots
          /\ sales[i].price \in [Entries(i) -> Prices]
          /\ sales[i].listed \in [Entries(i) -> Rows]
          /\ Sold(i) \subseteq Entries(i) /\ sales[i].touched \subseteq Slots
    /\ creating \subseteq Ids
    /\ Sales \in [Players -> 0..MaxSales]
    /\ purchases \subseteq Purchase
    /\ astray \in Nat /\ late \in BOOLEAN /\ raced \in BOOLEAN

Init ==
    /\ online = Players
    /\ bags = InitBag
    /\ Gold = InitGold
    /\ sales = [i \in Ids |-> NoSale]
    /\ creating = {}
    /\ Sales = [p \in Players |-> 0]
    /\ purchases = {}
    /\ astray = 0 /\ late = FALSE /\ raced = FALSE

BeingBought(p, slot) ==
    \E b \in purchases : sales[b.sale].seller = p /\ b.slot = slot

\* History: the slot changed by other means than the sales `but` of its entry.
Touch(p, slot, but) ==
    [i \in Ids |-> IF i \in SalesOf(p) \ {but}
                   THEN [sales[i] EXCEPT !.touched = @ \cup {slot}]
                   ELSE sales[i]]

\* Only the sales that are registered, being created or being bought from matter.
Referred(s) ==
    [i \in Ids |-> IF i \in creating' \/ (\E p \in Players : Sales'[p] = i)
                      \/ (\E b \in purchases' : b.sale = i)
                   THEN s[i] ELSE NoSale]

----------------------------------------------------------------------------
(* The bag outside the shop *)

Loaded == {bags[p][s] : p \in Players, s \in Slots} \ {NoRow}

Loot(p, row) ==
    /\ p \in online /\ row \notin Loaded
    /\ Free(bags[p]) # {}
    /\ bags' = AddItem(bags, p, row)
    /\ UNCHANGED <<online, Gold, sales, creating, Sales, purchases, astray, late, raced>>

\* Destroying an item is allowed while it is for sale.
Destroy(p, slot) ==
    /\ p \in online /\ bags[p][slot] # NoRow
    /\ bags' = RemoveItem(bags, p, slot)
    /\ sales' = Touch(p, slot, 0)
    /\ UNCHANGED <<online, Gold, creating, Sales, purchases, astray, late, raced>>

\* So is trading it away: AcceptTrade does not look at the sale.
Exchange(p, q, slot) ==
    /\ p \in online /\ q \in online /\ p # q
    /\ bags[p][slot] # NoRow
    /\ \E f \in Placements({slot}, bags[q]) : bags' = MoveRows(bags, p, q, f)
    /\ sales' = Touch(p, slot, 0)
    /\ raced' = (raced \/ BeingBought(p, slot))
    /\ UNCHANGED <<online, Gold, creating, Sales, purchases, astray, late>>

----------------------------------------------------------------------------
(* Opening and closing *)

\* OpenSale lists the tradable items among the slots; the sale is not
\* registered yet.
OpenSale(p, price) ==
    /\ p \in online /\ Sales[p] = 0
    /\ \A s \in DOMAIN price : bags[p][s] \in Rows \ Untradable
    /\ \E i \in Ids :
          /\ ~Opened(i) /\ \A j \in 1..i - 1 : Opened(j)
          /\ sales' = [sales EXCEPT ![i] = [seller |-> p, price |-> price, sold |-> {},
                                           listed |-> [s \in DOMAIN price |-> bags[p][s]],
                                           touched |-> {}]]
          /\ creating' = creating \cup {i}
    /\ UNCHANGED <<online, bags, Gold, Sales, purchases, astray, late, raced>>

\* The goroutine of OpenSale.
Create(i) ==
    /\ i \in creating
    /\ creating' = creating \ {i}
    /\ Sales' = [Sales EXCEPT ![sales[i].seller] = i]
    /\ late' = (late \/ sales[i].seller \notin online)
    /\ UNCHANGED <<online, bags, Gold, purchases, astray, raced>>
    /\ sales' = Referred(sales)

CloseSale(p) ==
    /\ p \in online /\ Sales[p] # 0
    /\ Sales' = [Sales EXCEPT ![p] = 0]
    /\ UNCHANGED <<online, bags, Gold, creating, purchases, astray, late, raced>>
    /\ sales' = Referred(sales)

\* As if Logout left the sale alone.
KeepSale(p) == UNCHANGED Sales
\* Logout deletes the sale it finds.
DeleteSale(p) == Sales' = [Sales EXCEPT ![p] = 0]

Logout(p) ==
    /\ p \in online
    /\ online' = online \ {p}
    /\ DeleteSale(p)
    /\ UNCHANGED <<bags, Gold, creating, purchases, astray, late, raced>>
    /\ sales' = Referred(sales)

----------------------------------------------------------------------------
(* Buying *)

\* As if the price were not compared with the buyer's gold.
AnyBuyer(q, price) == q \in Players
CanAfford(q, price) == Gold[q] >= price

\* BuySaleItem up to the write: the item is copied into the slot the buyer's
\* client chose, whatever that holds.
BuySaleItem(q, p, slot, to) ==
    LET i == Sales[p]
        price == sales[i].price[slot]
        paid == [Gold EXCEPT ![q] = @ - price]
    IN  /\ q \in online /\ Sales[q] = 0
        /\ i # 0
        /\ slot \in Entries(i) \ Sold(i)
        /\ bags[p][slot] # NoRow
        /\ CanAfford(q, price)
        /\ Gold' = IF p \in online THEN [paid EXCEPT ![p] = @ + price] ELSE paid
        /\ astray' = IF p \in online THEN astray ELSE astray + price
        /\ bags' = [bags EXCEPT ![q][to] = bags[p][slot]]
        /\ sales' = Touch(q, to, 0)
        /\ purchases' = purchases \cup {[buyer |-> q, sale |-> i, slot |-> slot, to |-> to]}
        /\ raced' = (raced \/ BeingBought(p, slot))
        /\ UNCHANGED <<online, creating, Sales, late>>

\* As if the entry were not marked.
Unmarked(b) == Touch(sales[b.sale].seller, b.slot, b.sale)
\* IsSold is set; to other sales of the seller the slot changed.
Marked(b) ==
    [Touch(sales[b.sale].seller, b.slot, b.sale) EXCEPT ![b.sale].sold = @ \cup {b.slot}]

\* As if the seller kept the item.
KeepItem(b) == bags
\* The seller's slot is emptied.
TakeItem(b) == RemoveItem(bags, sales[b.sale].seller, b.slot)

\* The row is written.
Bought(b) ==
    /\ b \in purchases
    /\ purchases' = purchases \ {b}
    /\ bags' = TakeItem(b)
    /\ UNCHANGED <<online, Gold, creating, Sales, astray, late, raced>>
    /\ sales' = Referred(Marked(b))

----------------------------------------------------------------------------

Next ==
    \/ \E p \in Players :
          \/ \E row \in Rows : Loot(p, row)
          \/ \E slot \in Slots : Destroy(p, slot)
          \/ \E q \in Players, slot \in Slots : Exchange(p, q, slot)
          \/ /\ p \in Sellers
             /\ \E S \in SUBSET Slots : \E price \in [S -> Prices] : OpenSale(p, price)
          \/ CloseSale(p)
          \/ Logout(p)
          \/ \E q \in Players, slot, to \in Slots : BuySaleItem(p, q, slot, to)
    \/ \E i \in creating : Create(i)
    \/ \E b \in purchases : Bought(b)

Spec == Init /\ [][Next]_vars

----------------------------------------------------------------------------
(* Properties *)

\* Buying duplicates nothing: an item is in two slots only while its purchase is
\* being written, the seller's and the one the buyer chose; unless two purchases
\* of one entry, or a purchase and a trade of the slot, overlapped.
NoDuplicateInShops ==
    ~raced =>
        \A p, q \in Players, s, t \in Slots :
            bags[p][s] = bags[q][t] /\ bags[p][s] # NoRow /\ <<p, s>> # <<q, t>> =>
                BeingBought(p, s) \/ BeingBought(q, t)


\* Every coin a buyer pays is the seller's, and nobody pays a seller who has left
\* unless his sale was registered after he did.
SellersArePaid ==
    /\ SumFunction(Gold) + astray = SumFunction(InitGold)
    /\ ~late => astray = 0

\* A buyer gets the item the seller listed, unless the listed slot was emptied
\* or filled by other means since: what is looted into a slot after its item was
\* sold is not for sale.
SellsWhatWasListed ==
    [][\A b \in purchases' \ purchases :
          LET i == b.sale IN
          bags[sales[i].seller][b.slot] = sales[i].listed[b.slot]
              \/ b.slot \in sales[i].touched]_vars
=============================================================================
