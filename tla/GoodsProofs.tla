---------------------------- MODULE GoodsProofs ----------------------------
(***************************************************************************)
(* Goods that leave a bag for another one: by a shop, by the consignment,  *)
(* by mail.                                                                *)
(* Shops duplicate nothing and sell what was listed, for any characters,   *)
(* slots, rows, prices and sales.  The argument: whoever still refers to a *)
(* sale finds it with the seller and the lists it was opened with; a slot  *)
(* on sale holds the item that was listed until somebody marks the entry   *)
(* or the slot; and of two slots with one row one is being bought from.    *)
(* The consignment implements Escrow, for any items, characters, slots and *)
(* handlers.  The argument: an item that is not disputed has at most one   *)
(* handler or one write of its listing at work on it, and is in one of a   *)
(* few states, which name where it is, what its row says, what its listing *)
(* says and whether its price is owed.  Whatever is done to another item   *)
(* leaves all of this as it is.                                            *)
(* What is mailed arrives once.  As long as nothing has gone wrong, a      *)
(* character has one handler at most; an item that is not lost has one     *)
(* home: a slot, a mail (without what was given out of it already) or the  *)
(* hands of one who sends; and the row of an item in a mail or in hands    *)
(* names no owner.  Gold is counted as a sum over the mails, the purses    *)
(* and what was spent.                                                     *)
(***************************************************************************)
EXTENDS Shop, Consignment, Mail, Sums, SequenceTheorems, TLAPS

----------------------------------------------------------------------------
(* Shops *)

ListsOf(V) == UNION {[S -> V] : S \in SUBSET Slots}
SaleShape == [seller : Players, price : ListsOf(Prices), sold : SUBSET Slots,
              listed : ListsOf(Rows), touched : SUBSET Slots]
SaleRecords == {x \in SaleShape : DOMAIN x.listed = DOMAIN x.price /\ x.sold \subseteq DOMAIN x.price}

\* Everybody who refers to a sale finds it.
ReferenceInv ==
    /\ \A i \in creating : sales[i] \in SaleRecords
    /\ \A p \in Players : Sales[p] # 0 => sales[Sales[p]] \in SaleRecords /\ sales[Sales[p]].seller = p
    /\ \A b \in purchases : sales[b.sale] \in SaleRecords /\ b.slot \in Entries(b.sale)
ShopTypes ==
    /\ online \subseteq Players
    /\ bags \in [Players -> Bags]
    /\ Gold \in [Players -> Nat]
    /\ sales \in [Ids -> SaleRecords \cup {NoSale}]
    /\ creating \subseteq Ids
    /\ Sales \in [Players -> 0..MaxSales]
    /\ purchases \subseteq Purchase
    /\ astray \in Nat /\ late \in BOOLEAN /\ raced \in BOOLEAN
\* What is on sale is what was listed, unless the slot changed.
ListedInv ==
    \A i \in Ids : sales[i] \in SaleRecords =>
        \A s \in Entries(i) : \/ s \in Sold(i) \/ s \in sales[i].touched
                              \/ bags[sales[i].seller][s] = sales[i].listed[s]
ShopInv == ShopTypes /\ ReferenceInv
IInv == ShopInv /\ ListedInv /\ NoDuplicateInShops

---------------------------------------------------------------------------
\* Sales.
Grown(x, y) ==
    /\ x \in SaleRecords /\ y \in SaleRecords
    /\ y.seller = x.seller /\ y.price = x.price /\ y.listed = x.listed
    /\ x.sold \subseteq y.sold /\ x.touched \subseteq y.touched
SalesKept == \A i \in Ids : sales'[i] = NoSale \/ Grown(sales[i], sales'[i])

LEMMA NoRecord == NoSale \notin SaleRecords
<1> SUFFICES ASSUME NoSale \in SaleRecords PROVE FALSE
  OBVIOUS
<1>1. DOMAIN NoSale = {"seller", "price", "sold", "listed", "touched"}
  BY DEF SaleRecords, SaleShape
<1>2. DOMAIN NoSale = {"seller"}
  BY DEF NoSale
<1> QED
  BY <1>1, <1>2
LEMMA GrownSame == ASSUME NEW x \in SaleRecords PROVE Grown(x, x)
  BY DEF Grown
LEMMA TouchedRecord ==
  ASSUME NEW x \in SaleRecords, NEW s \in Slots
  PROVE  Grown(x, [x EXCEPT !.touched = @ \cup {s}]) /\ s \in [x EXCEPT !.touched = @ \cup {s}].touched
  BY DEF Grown, SaleRecords, SaleShape
LEMMA SoldRecord ==
  ASSUME NEW x \in SaleRecords, NEW s \in DOMAIN x.price
  PROVE  Grown(x, [x EXCEPT !.sold = @ \cup {s}]) /\ s \in [x EXCEPT !.sold = @ \cup {s}].sold
<1>1. x.price \in ListsOf(Prices) /\ x \in SaleShape
  BY DEF SaleRecords, SaleShape
<1>2. s \in Slots
  BY <1>1 DEF ListsOf
<1> QED
  BY <1>1, <1>2 DEF Grown, SaleRecords, SaleShape

LEMMA ReferenceTypes ==
  ASSUME ShopInv
  PROVE  /\ \A i \in creating : i \in Ids
         /\ \A p \in Players : Sales[p] # 0 => Sales[p] \in Ids
         /\ \A b \in purchases : b.sale \in Ids
<1>1. \A p \in Players : Sales[p] \in 0..MaxSales
  BY DEF ShopInv, ShopTypes
<1>2. \A p \in Players : Sales[p] # 0 => Sales[p] \in Ids
  BY <1>1, ShopAssumption DEF Ids
<1>3. (\A b \in purchases : b.sale \in Ids) /\ \A i \in creating : i \in Ids
  BY DEF ShopInv, ShopTypes, Purchase
<1> QED
  BY <1>2, <1>3

\* A slot that changed is noted in the seller's sales but one.
LEMMA TouchEffect ==
  ASSUME ShopInv, NEW p \in Players, NEW s \in Slots, NEW but, NEW i \in Ids
  PROVE  /\ DOMAIN Touch(p, s, but) = Ids
         /\ ((Touch(p, s, but)[i] = NoSale /\ sales[i] = NoSale) \/ Grown(sales[i], Touch(p, s, but)[i]))
         /\ sales[i] \in SaleRecords /\ sales[i].seller = p /\ i # but => s \in Touch(p, s, but)[i].touched
         /\ i = but => Touch(p, s, but)[i] = sales[i]
<1>1. DOMAIN Touch(p, s, but) = Ids
  BY DEF Touch
<1>2. Touch(p, s, but)[i] = IF i \in SalesOf(p) \ {but} THEN [sales[i] EXCEPT !.touched = @ \cup {s}] ELSE sales[i]
  BY DEF Touch
<1>3. sales[i] \in SaleRecords \cup {NoSale}
  BY DEF ShopInv, ShopTypes
<1>4. CASE i \in SalesOf(p) \ {but}
  BY <1>1, <1>2, <1>3, <1>4, TouchedRecord DEF SalesOf, Opened
<1>5. CASE i \notin SalesOf(p) \ {but}
  <2>1. Touch(p, s, but)[i] = sales[i]
    BY <1>2, <1>5
  <2>2. sales[i] \in SaleRecords /\ sales[i].seller = p => i = but
    BY <1>5, NoRecord DEF SalesOf, Opened
  <2> QED
    BY <1>1, <1>3, <2>1, <2>2, GrownSame
<1> QED
  BY <1>4, <1>5
LEMMA TouchKeeps ==
  ASSUME ShopInv, NEW p \in Players, NEW s \in Slots, sales' = Touch(p, s, 0)
  PROVE  /\ SalesKept /\ sales' \in [Ids -> SaleRecords \cup {NoSale}]
         /\ \A i \in Ids : sales[i] \in SaleRecords => sales'[i] \in SaleRecords
         /\ \A i \in Ids : sales[i] \in SaleRecords /\ sales[i].seller = p => s \in sales'[i].touched
<1>1. \A i \in Ids : /\ ((sales'[i] = NoSale /\ sales[i] = NoSale) \/ Grown(sales[i], sales'[i]))
                     /\ sales[i] \in SaleRecords /\ sales[i].seller = p /\ i # 0 => s \in sales'[i].touched
  BY TouchEffect
<1>2. sales' = [i \in Ids |-> sales'[i]]
  BY DEF Touch
<1>3. \A i \in Ids : i # 0
  BY ShopAssumption DEF Ids
<1>4. \A i \in Ids : sales'[i] \in SaleRecords \cup {NoSale}
  BY <1>1 DEF Grown
<1>5. sales' \in [Ids -> SaleRecords \cup {NoSale}]
  BY <1>2, <1>4
<1> QED
  BY <1>1, <1>3, <1>5, NoRecord DEF SalesKept, Grown
\* Sales nobody refers to any more are forgotten.
LEMMA ReferredKeeps ==
  ASSUME ShopInv, NEW t, sales' = Referred(t),
         \A i \in Ids : ((t[i] = NoSale /\ sales[i] = NoSale) \/ Grown(sales[i], t[i]))
  PROVE  /\ SalesKept /\ sales' \in [Ids -> SaleRecords \cup {NoSale}]
         /\ \A i \in Ids : i \in creating' \/ (\E p \in Players : Sales'[p] = i)
                              \/ (\E b \in purchases' : b.sale = i) => sales'[i] = t[i]
         /\ \A i \in Ids : sales'[i] \in {t[i], NoSale}
<1>1. \A i \in Ids : /\ sales'[i] \in {t[i], NoSale}
                     /\ i \in creating' \/ (\E p \in Players : Sales'[p] = i)
                              \/ (\E b \in purchases' : b.sale = i) => sales'[i] = t[i]
  BY DEF Referred
<1>2. sales' = [i \in Ids |-> sales'[i]]
  BY DEF Referred
<1>3. \A i \in Ids : sales'[i] \in SaleRecords \cup {NoSale}
  BY <1>1 DEF Grown
<1>4. sales' \in [Ids -> SaleRecords \cup {NoSale}]
  BY <1>2, <1>3
<1> QED
  BY <1>1, <1>4 DEF SalesKept
\* The same, when nothing but references changed.
LEMMA ForgetKeeps ==
  ASSUME ShopInv, sales' = Referred(sales)
  PROVE  /\ SalesKept /\ sales' \in [Ids -> SaleRecords \cup {NoSale}]
         /\ \A i \in Ids : i \in creating' \/ (\E p \in Players : Sales'[p] = i)
                              \/ (\E b \in purchases' : b.sale = i) => sales'[i] = sales[i]
<1>1. \A i \in Ids : sales[i] = NoSale \/ Grown(sales[i], sales[i])
  BY GrownSame DEF ShopInv, ShopTypes
<1> QED
  BY <1>1, ReferredKeeps

---------------------------------------------------------------------------
\* What the parts of the invariant need of a step.
LEMMA ListedKept ==
  ASSUME ShopInv, ListedInv, SalesKept,
         \A i \in Ids, s \in Slots :
            sales'[i] \in SaleRecords /\ s \notin Sold(i)' /\ s \notin sales'[i].touched =>
                \/ bags'[sales[i].seller][s] = bags[sales[i].seller][s]
                \/ bags[sales[i].seller][s] = NoRow
  PROVE  ListedInv'
<1> SUFFICES ASSUME NEW i \in Ids, sales'[i] \in SaleRecords, NEW s \in DOMAIN sales'[i].price,
                    s \notin sales'[i].sold, s \notin sales'[i].touched
             PROVE  bags'[sales'[i].seller][s] = sales'[i].listed[s]
  BY DEF ListedInv, Entries, Sold
<1>1. Grown(sales[i], sales'[i])
  BY NoRecord DEF SalesKept
<1>2. /\ sales[i] \in SaleRecords /\ sales'[i].seller = sales[i].seller /\ sales'[i].listed = sales[i].listed
      /\ s \in Entries(i) /\ s \notin Sold(i) /\ s \notin sales[i].touched
  BY <1>1 DEF Grown, Entries, Sold
<1>3. bags[sales[i].seller][s] = sales[i].listed[s]
  BY <1>2 DEF ListedInv
<1>4. s \in Slots /\ sales[i].listed[s] \in Rows
  BY <1>2 DEF SaleRecords, SaleShape, ListsOf, Entries
<1> QED
  BY <1>2, <1>3, <1>4, RowsAssumption DEF Sold
LEMMA StillBought ==
  ASSUME ShopInv, SalesKept, ReferenceInv', NEW b \in purchases, b \in purchases'
  PROVE  sales'[b.sale].seller = sales[b.sale].seller
<1>1. b.sale \in Ids
  BY DEF ShopInv, ShopTypes, Purchase
<1>2. sales'[b.sale] \in SaleRecords
  BY DEF ReferenceInv
<1> QED
  BY <1>1, <1>2, NoRecord DEF SalesKept, Grown
\* References are kept where sales are, and who comes to buy refers to one.
LEMMA ReferencesKept ==
  ASSUME ShopInv, SalesKept, \A i \in Ids : sales[i] \in SaleRecords => sales'[i] \in SaleRecords,
         UNCHANGED <<creating, Sales>>,
         \A b \in purchases' \ purchases :
            b.sale \in Ids /\ sales[b.sale] \in SaleRecords /\ b.slot \in Entries(b.sale)
  PROVE  ReferenceInv'
<1>1. \A i \in Ids : sales[i] \in SaleRecords => Grown(sales[i], sales'[i])
  BY NoRecord DEF SalesKept
<1> QED
  BY <1>1, ReferenceTypes DEF ShopInv, ReferenceInv, Grown, Entries
LEMMA BoughtKept ==
  ASSUME ShopInv, SalesKept, ReferenceInv', purchases \subseteq purchases', NEW p, NEW s, BeingBought(p, s)
  PROVE  BeingBought(p, s)'
  BY StillBought DEF BeingBought
\* Nothing that was in one slot comes to be in two.
LEMMA DuplicatesKept ==
  ASSUME NoDuplicateInShops, raced => raced',
         \A p \in Players, s \in Slots :
            /\ BeingBought(p, s) => BeingBought(p, s)' \/ bags'[p][s] = NoRow
            /\ bags'[p][s] # NoRow => bags'[p][s] = bags[p][s]
  PROVE  NoDuplicateInShops'
<1> SUFFICES ASSUME ~raced', NEW p \in Players, NEW q \in Players, NEW s \in Slots, NEW t \in Slots,
                    bags'[p][s] = bags'[q][t], bags'[p][s] # NoRow, <<p, s>> # <<q, t>>
             PROVE  BeingBought(p, s)' \/ BeingBought(q, t)'
  BY DEF NoDuplicateInShops
<1>1. bags[p][s] = bags[q][t] /\ bags[p][s] # NoRow
  OBVIOUS
<1> QED
  BY <1>1 DEF NoDuplicateInShops

---------------------------------------------------------------------------
\* Bags.
LEMMA RemoveEffect ==
  ASSUME NEW b \in [Players -> Bags], NEW p \in Players, NEW s \in Slots
  PROVE  /\ RemoveItem(b, p, s) \in [Players -> Bags]
         /\ \A q \in Players, t \in Slots :
               RemoveItem(b, p, s)[q][t] = IF q = p /\ t = s THEN NoRow ELSE b[q][t]
  BY DEF RemoveItem, Bags
\* An exchange of one slot moves what it holds into a free slot.
\* What is in slot s of p goes to a free slot of q.
Handed(b, p, q, s, m) ==
    /\ m \in [Players -> Bags]
    /\ \E to \in Slots : /\ b[q][to] = NoRow
                         /\ \A r \in Players, t \in Slots :
                               m[r][t] = IF r = p /\ t = s THEN NoRow
                                         ELSE IF r = q /\ t = to THEN b[p][s] ELSE b[r][t]
LEMMA ExchangeEffect ==
  ASSUME NEW b \in [Players -> Bags], NEW p \in Players, NEW q \in Players, p # q, NEW s \in Slots,
         NEW f \in Placements({s}, b[q])
  PROVE  Handed(b, p, q, s, MoveRows(b, p, q, f))
<1>1. DOMAIN f = {s} /\ f[s] \in Slots /\ b[q][f[s]] = NoRow
  BY DEF Placements, Injection, IsInjective, FirstFree, Free
<1> DEFINE given == [t \in Slots |-> IF t \in DOMAIN f THEN NoRow ELSE b[p][t]]
           got == [t \in Slots |-> IF \E x \in DOMAIN f : f[x] = t
                                   THEN b[p][CHOOSE x \in DOMAIN f : f[x] = t]
                                   ELSE b[q][t]]
<1>2. \A t \in Slots : got[t] = IF t = f[s] THEN b[p][s] ELSE b[q][t]
  <2> TAKE t \in Slots
  <2>1. (\E x \in DOMAIN f : f[x] = t) <=> t = f[s]
    BY <1>1
  <2>2. t = f[s] => (CHOOSE x \in DOMAIN f : f[x] = t) = s
    BY <1>1
  <2> QED
    BY <2>1, <2>2
<1>3. \A t \in Slots : given[t] = IF t = s THEN NoRow ELSE b[p][t]
  BY <1>1
<1>4. got = [t \in Slots |-> got[t]] /\ given = [t \in Slots |-> given[t]]
  OBVIOUS
<1>5. MoveRows(b, p, q, f) = [b EXCEPT ![p] = given, ![q] = got]
  BY DEF MoveRows
<1> HIDE DEF given, got
<1>6. given \in Bags /\ got \in Bags
  BY <1>1, <1>2, <1>3, <1>4 DEF Bags
<1>7. MoveRows(b, p, q, f) \in [Players -> Bags]
  BY <1>5, <1>6
<1>8. \A r \in Players, t \in Slots :
         MoveRows(b, p, q, f)[r][t] = IF r = p /\ t = s THEN NoRow
                                      ELSE IF r = q /\ t = f[s] THEN b[p][s] ELSE b[r][t]
  BY <1>2, <1>3, <1>5
<1> QED
  BY <1>1, <1>7, <1>8 DEF Handed
\* A new item goes to one slot, which was free.
LEMMA AddEffect ==
  ASSUME NEW b \in [Players -> Bags], NEW p \in Players, NEW row \in Rows
  PROVE  /\ AddItem(b, p, row) \in [Players -> Bags]
         /\ \A q \in Players, t \in Slots :
               \/ AddItem(b, p, row)[q][t] = b[q][t]
               \/ q = p /\ t \in FirstFree(b[p], 1) /\ b[q][t] = NoRow /\ AddItem(b, p, row)[q][t] = row
  BY DEF AddItem, Bags, FirstFree, Free
LEMMA OneFirst == ASSUME NEW slots \in Bags, NEW s \in FirstFree(slots, 1), NEW t \in FirstFree(slots, 1) PROVE s = t
<1> SUFFICES ASSUME NEW x \in FirstFree(slots, 1), NEW y \in FirstFree(slots, 1), x < y PROVE FALSE
  BY SlotsAssumption DEF FirstFree, Free
<1> DEFINE below == {z \in Free(slots) : z < y}
<1>1. x \in below /\ IsFiniteSet(below)
  BY SlotsAssumption, FS_Subset DEF FirstFree, Free
<1>2. Cardinality(below) \in Nat /\ Cardinality(below) # 0
  BY <1>1, FS_EmptySet, FS_CardinalityType
<1> QED
  BY <1>2 DEF FirstFree

---------------------------------------------------------------------------
\* The bag outside the shop.
LEMMA LootStep == ASSUME IInv, NEW p \in Players, NEW row \in Rows, Loot(p, row) PROVE IInv'
<1>1. /\ bags' = AddItem(bags, p, row) /\ row \notin Loaded /\ ShopInv
      /\ UNCHANGED <<online, Gold, sales, creating, Sales, purchases, astray, late, raced>>
  BY DEF Loot, IInv
<1>2. /\ bags' \in [Players -> Bags]
      /\ \A q \in Players, t \in Slots :
            \/ bags'[q][t] = bags[q][t]
            \/ q = p /\ t \in FirstFree(bags[p], 1) /\ bags[q][t] = NoRow /\ bags'[q][t] = row
  BY <1>1, AddEffect DEF ShopInv, ShopTypes
<1>3. ShopInv'
  BY <1>1, <1>2 DEF ShopInv, ShopTypes, ReferenceInv, Entries
<1>4. SalesKept
  BY <1>1, GrownSame DEF SalesKept, ShopInv, ShopTypes
<1>5. ListedInv'
  <2>1. \A i \in Ids, s \in Slots : sales'[i] \in SaleRecords =>
           \/ bags'[sales[i].seller][s] = bags[sales[i].seller][s]
           \/ bags[sales[i].seller][s] = NoRow
    BY <1>1, <1>2 DEF SaleRecords, SaleShape
  <2> QED
    BY <1>1, <1>4, <2>1, ListedKept DEF IInv
<1>6. NoDuplicateInShops'
  <2> SUFFICES ASSUME ~raced, NEW c \in Players, NEW d \in Players, NEW s \in Slots, NEW t \in Slots,
                      bags'[c][s] = bags'[d][t], bags'[c][s] # NoRow, <<c, s>> # <<d, t>>
               PROVE  BeingBought(c, s) \/ BeingBought(d, t)
    BY <1>1 DEF NoDuplicateInShops, BeingBought
  <2>1. row # NoRow /\ \A q \in Players, u \in Slots : bags[q][u] # row
    BY <1>1, RowsAssumption DEF Loaded
  <2>2. bags'[c][s] = bags[c][s] /\ bags'[d][t] = bags[d][t]
    <3>1. ~(c = p /\ d = p /\ s \in FirstFree(bags[p], 1) /\ t \in FirstFree(bags[p], 1))
      BY <1>1, OneFirst DEF ShopInv, ShopTypes
    <3> QED
      BY <1>2, <2>1, <3>1
  <2>3. NoDuplicateInShops /\ bags[c][s] = bags[d][t] /\ bags[c][s] # NoRow
    BY <2>2 DEF IInv
  <2> QED
    BY <2>3 DEF NoDuplicateInShops
<1> QED
  BY <1>3, <1>5, <1>6 DEF IInv

LEMMA DestroyStep == ASSUME IInv, NEW p \in Players, NEW slot \in Slots, Destroy(p, slot) PROVE IInv'
<1>1. /\ bags' = RemoveItem(bags, p, slot) /\ sales' = Touch(p, slot, 0) /\ ShopInv
      /\ UNCHANGED <<online, Gold, creating, Sales, purchases, astray, late, raced>>
  BY DEF Destroy, IInv
<1>2. /\ bags' \in [Players -> Bags]
      /\ \A q \in Players, t \in Slots : bags'[q][t] = IF q = p /\ t = slot THEN NoRow ELSE bags[q][t]
  <2>1. bags \in [Players -> Bags]
    BY <1>1 DEF ShopInv, ShopTypes
  <2> QED
    BY <1>1, <2>1, RemoveEffect
<1>3. /\ SalesKept /\ sales' \in [Ids -> SaleRecords \cup {NoSale}]
      /\ \A i \in Ids : sales[i] \in SaleRecords => sales'[i] \in SaleRecords
      /\ \A i \in Ids : sales[i] \in SaleRecords /\ sales[i].seller = p => slot \in sales'[i].touched
  BY <1>1, TouchKeeps
<1>4. ShopInv'
  BY <1>1, <1>2, <1>3, ReferencesKept DEF ShopInv, ShopTypes
<1>5. ListedInv'
  <2>1. \A i \in Ids, s \in Slots : sales'[i] \in SaleRecords /\ s \notin sales'[i].touched =>
           bags'[sales[i].seller][s] = bags[sales[i].seller][s]
    BY <1>2, <1>3, NoRecord DEF SalesKept, Grown, SaleRecords, SaleShape
  <2> QED
    BY <1>1, <1>3, <2>1, ListedKept DEF IInv
<1>6. NoDuplicateInShops'
  BY <1>1, <1>2, <1>3, <1>4, BoughtKept, DuplicatesKept DEF IInv, ShopInv
<1> QED
  BY <1>4, <1>5, <1>6 DEF IInv

LEMMA ExchangeStep ==
  ASSUME IInv, NEW p \in Players, NEW q \in Players, NEW slot \in Slots, Exchange(p, q, slot)
  PROVE  IInv'
<1>1. PICK f \in Placements({slot}, bags[q]) : bags' = MoveRows(bags, p, q, f)
  BY DEF Exchange
<1>2. /\ sales' = Touch(p, slot, 0) /\ raced' = (raced \/ BeingBought(p, slot)) /\ p # q /\ ShopInv
      /\ UNCHANGED <<online, Gold, creating, Sales, purchases, astray, late>>
      /\ bags \in [Players -> Bags]
  BY DEF Exchange, IInv, ShopInv, ShopTypes
<1>3. PICK to \in Slots :
        /\ bags' \in [Players -> Bags] /\ bags[q][to] = NoRow
        /\ \A r \in Players, t \in Slots :
              bags'[r][t] = IF r = p /\ t = slot THEN NoRow
                            ELSE IF r = q /\ t = to THEN bags[p][slot] ELSE bags[r][t]
  <2>1. bags \in [Players -> Bags] /\ p # q
    BY <1>2
  <2>2. Handed(bags, p, q, slot, MoveRows(bags, p, q, f))
    BY <2>1, ExchangeEffect
  <2> QED
    BY <1>1, <2>2 DEF Handed
<1>4. /\ SalesKept /\ sales' \in [Ids -> SaleRecords \cup {NoSale}]
      /\ \A i \in Ids : sales[i] \in SaleRecords => sales'[i] \in SaleRecords
      /\ \A i \in Ids : sales[i] \in SaleRecords /\ sales[i].seller = p => slot \in sales'[i].touched
  BY <1>2, TouchKeeps
<1>5. ShopInv'
  <2>1. ReferenceInv'
    BY <1>2, <1>4, ReferencesKept
  <2> QED
    BY <1>2, <1>3, <1>4, <2>1 DEF ShopInv, ShopTypes
<1>6. ListedInv'
  <2>1. ASSUME NEW i \in Ids, NEW s \in Slots, sales'[i] \in SaleRecords, s \notin sales'[i].touched
        PROVE  \/ bags'[sales[i].seller][s] = bags[sales[i].seller][s]
               \/ bags[sales[i].seller][s] = NoRow
    <3>1. sales[i] \in SaleRecords /\ sales[i].seller \in Players
      BY <1>4, <2>1, NoRecord DEF SalesKept, Grown, SaleRecords, SaleShape
    <3>2. ~(sales[i].seller = p /\ s = slot)
      BY <1>4, <2>1, <3>1
    <3> QED
      BY <1>3, <3>1, <3>2
  <2> QED
    BY <1>2, <1>4, <2>1, ListedKept DEF IInv
<1>7. NoDuplicateInShops'
  <2> SUFFICES ASSUME ~raced', NEW c \in Players, NEW d \in Players, NEW s \in Slots, NEW t \in Slots,
                      bags'[c][s] = bags'[d][t], bags'[c][s] # NoRow, <<c, s>> # <<d, t>>
               PROVE  BeingBought(c, s)' \/ BeingBought(d, t)'
    BY DEF NoDuplicateInShops
  <2>1. ~raced /\ ~BeingBought(p, slot) /\ NoDuplicateInShops
    BY <1>2 DEF IInv
  <2>2. \A r, x : BeingBought(r, x) => BeingBought(r, x)'
    BY <1>2, <1>4, <1>5, BoughtKept DEF ShopInv
  <2>3. ~(c = p /\ s = slot) /\ ~(d = p /\ t = slot)
    BY <1>3
  <2>4. CASE c = q /\ s = to
    <3>1. bags[p][slot] = bags[d][t] /\ bags[d][t] # NoRow /\ <<p, slot>> # <<d, t>>
      BY <1>3, <2>3, <2>4
    <3> QED
      BY <2>1, <2>2, <3>1 DEF NoDuplicateInShops
  <2>5. CASE d = q /\ t = to
    <3>1. bags[p][slot] = bags[c][s] /\ bags[c][s] # NoRow /\ <<p, slot>> # <<c, s>>
      BY <1>3, <2>3, <2>5
    <3> QED
      BY <2>1, <2>2, <3>1 DEF NoDuplicateInShops
  <2>6. CASE ~(c = q /\ s = to) /\ ~(d = q /\ t = to)
    <3>1. bags[c][s] = bags[d][t] /\ bags[c][s] # NoRow
      BY <1>3, <2>3, <2>6
    <3> QED
      BY <2>1, <2>2, <3>1 DEF NoDuplicateInShops
  <2> QED
    BY <2>4, <2>5, <2>6
<1> QED
  BY <1>5, <1>6, <1>7 DEF IInv

---------------------------------------------------------------------------
\* Opening and closing.
LEMMA OpenSaleStep ==
  ASSUME IInv, NEW p \in Players, NEW S \in SUBSET Slots, NEW price \in [S -> Prices], OpenSale(p, price)
  PROVE  IInv'
<1>1. PICK i \in Ids :
        /\ ~Opened(i)
        /\ sales' = [sales EXCEPT ![i] = [seller |-> p, price |-> price, sold |-> {},
                                          listed |-> [s \in DOMAIN price |-> bags[p][s]], touched |-> {}]]
        /\ creating' = creating \cup {i}
  BY DEF OpenSale
<1>2. /\ \A s \in S : bags[p][s] \in Rows
      /\ UNCHANGED <<online, bags, Gold, Sales, purchases, astray, late, raced>>
      /\ ShopInv /\ ListedInv /\ NoDuplicateInShops
  BY DEF OpenSale, IInv
<1> DEFINE new == [seller |-> p, price |-> price, sold |-> {},
                   listed |-> [s \in DOMAIN price |-> bags[p][s]], touched |-> {}]
<1>3. new \in SaleRecords
  <2>1. price \in ListsOf(Prices) /\ [s \in DOMAIN price |-> bags[p][s]] \in ListsOf(Rows)
    BY <1>2 DEF ListsOf
  <2> QED
    BY <2>1 DEF SaleRecords, SaleShape
<1>4. /\ sales'[i] = new /\ sales[i] \notin SaleRecords
      /\ \A j \in Ids : j # i => sales'[j] = sales[j]
      /\ sales' \in [Ids -> SaleRecords \cup {NoSale}]
  <2> HIDE DEF new
  <2> QED
    BY <1>1, <1>2, <1>3, NoRecord DEF Opened, ShopInv, ShopTypes, new
<1>5. \A j \in Ids : sales[j] \in SaleRecords => sales'[j] = sales[j]
  BY <1>4
<1>6. ShopInv'
  <2>1. ReferenceInv'
    <3> HIDE DEF new
    <3>1. \A j \in creating' : sales'[j] \in SaleRecords
      BY <1>1, <1>2, <1>3, <1>4, <1>5, ReferenceTypes DEF ShopInv, ReferenceInv
    <3>2. \A q \in Players : Sales'[q] # 0 => sales'[Sales'[q]] \in SaleRecords /\ sales'[Sales'[q]].seller = q
      BY <1>2, <1>5, ReferenceTypes DEF ShopInv, ReferenceInv
    <3>3. \A b \in purchases' : sales'[b.sale] \in SaleRecords /\ b.slot \in Entries(b.sale)'
      BY <1>2, <1>5, ReferenceTypes DEF ShopInv, ReferenceInv, Entries
    <3> QED
      BY <3>1, <3>2, <3>3 DEF ReferenceInv
  <2> QED
    BY <1>1, <1>2, <1>4, <2>1 DEF ShopInv, ShopTypes
<1>7. ListedInv'
  <2> SUFFICES ASSUME NEW j \in Ids, sales'[j] \in SaleRecords, NEW s \in DOMAIN sales'[j].price
               PROVE  \/ s \in sales'[j].sold \/ s \in sales'[j].touched
                      \/ bags[sales'[j].seller][s] = sales'[j].listed[s]
    BY <1>2 DEF ListedInv, Entries, Sold
  <2>1. CASE j = i
    BY <1>4, <2>1
  <2>2. CASE j # i
    BY <1>2, <1>4, <2>2 DEF ListedInv, Entries, Sold
  <2> QED
    BY <2>1, <2>2
<1>8. NoDuplicateInShops'
  <2>1. \A b \in purchases : sales'[b.sale] = sales[b.sale]
    BY <1>2, <1>5 DEF ShopInv, ShopTypes, ReferenceInv, Purchase
  <2>2. \A c, s : BeingBought(c, s)' <=> BeingBought(c, s)
    BY <1>2, <2>1 DEF BeingBought
  <2> QED
    BY <1>2, <2>2, DuplicatesKept
<1> QED
  BY <1>6, <1>7, <1>8 DEF IInv

\* Steps that only change who refers to a sale.
LEMMA ForgetStep ==
  ASSUME IInv, sales' = Referred(sales), creating' \subseteq creating,
         UNCHANGED <<bags, Gold, purchases, astray, raced>>,
         online' \subseteq online, late' \in BOOLEAN, Sales' \in [Players -> 0..MaxSales],
         \A p \in Players : \/ Sales'[p] = 0 \/ Sales'[p] = Sales[p]
                            \/ Sales'[p] \in creating /\ sales[Sales'[p]].seller = p
  PROVE  IInv'
<1>1. /\ SalesKept /\ sales' \in [Ids -> SaleRecords \cup {NoSale}]
      /\ \A i \in Ids : i \in creating' \/ (\E p \in Players : Sales'[p] = i)
                           \/ (\E b \in purchases' : b.sale = i) => sales'[i] = sales[i]
  BY ForgetKeeps DEF IInv
<1>2. ShopInv'
  <2>1. \A p \in Players : Sales'[p] # 0 => sales'[Sales'[p]] = sales[Sales'[p]]
    BY <1>1, ShopAssumption DEF Ids
  <2>2. \A p \in Players : Sales'[p] # 0 => sales[Sales'[p]] \in SaleRecords /\ sales[Sales'[p]].seller = p
    BY DEF IInv, ShopInv, ReferenceInv
  <2>3. \A b \in purchases' : sales'[b.sale] = sales[b.sale]
    BY <1>1 DEF IInv, ShopInv, ShopTypes, Purchase
  <2>4. ReferenceInv'
    BY <1>1, <2>1, <2>2, <2>3 DEF IInv, ShopInv, ShopTypes, ReferenceInv, Entries
  <2> QED
    BY <1>1, <2>4 DEF IInv, ShopInv, ShopTypes
<1>3. ListedInv'
  BY <1>1, ListedKept DEF IInv
<1>4. NoDuplicateInShops'
  BY <1>1, <1>2, BoughtKept, DuplicatesKept DEF IInv, ShopInv
<1> QED
  BY <1>2, <1>3, <1>4 DEF IInv
LEMMA CreateStep == ASSUME IInv, NEW i \in creating, Create(i) PROVE IInv'
<1>1. sales[i] \in SaleRecords /\ sales[i].seller \in Players /\ i \in 0..MaxSales
  BY ShopAssumption DEF IInv, ShopInv, ShopTypes, ReferenceInv, SaleRecords, SaleShape, Ids
<1>2. /\ Sales' \in [Players -> 0..MaxSales]
      /\ \A p \in Players : Sales'[p] = IF p = sales[i].seller THEN i ELSE Sales[p]
  BY <1>1 DEF Create, IInv, ShopInv, ShopTypes
<1>3. late' \in BOOLEAN
  BY DEF Create
<1> QED
  BY <1>2, <1>3, ForgetStep DEF Create
LEMMA ClosingStep == ASSUME IInv, NEW p \in Players, CloseSale(p) \/ Logout(p) PROVE IInv'
<1>1. Sales' = [Sales EXCEPT ![p] = 0]
  BY DEF CloseSale, Logout, DeleteSale
<1>2. /\ Sales' \in [Players -> 0..MaxSales]
      /\ \A q \in Players : Sales'[q] = IF q = p THEN 0 ELSE Sales[q]
  BY <1>1, ShopAssumption DEF IInv, ShopInv, ShopTypes
<1>3. late' \in BOOLEAN /\ online' \subseteq online
  BY DEF CloseSale, Logout, IInv, ShopInv, ShopTypes
<1> QED
  BY <1>2, <1>3, ForgetStep DEF CloseSale, Logout

---------------------------------------------------------------------------
\* Buying.
LEMMA BuySaleItemEffect ==
  ASSUME ShopInv, NEW q \in Players, NEW p \in Players, NEW slot \in Slots, NEW to \in Slots,
         BuySaleItem(q, p, slot, to)
  PROVE  /\ Sales[p] \in Ids /\ sales[Sales[p]] \in SaleRecords /\ sales[Sales[p]].seller = p
         /\ p # q /\ slot \in Entries(Sales[p]) /\ slot \notin Sold(Sales[p])
         /\ Gold' \in [Players -> Nat] /\ astray' \in Nat
         /\ bags' \in [Players -> Bags]
         /\ \A r \in Players, t \in Slots :
               bags'[r][t] = IF r = q /\ t = to THEN bags[p][slot] ELSE bags[r][t]
<1> DEFINE cost == sales[Sales[p]].price[slot]
<1>1. /\ Sales[p] \in Ids /\ sales[Sales[p]] \in SaleRecords /\ sales[Sales[p]].seller = p
      /\ p # q /\ slot \in Entries(Sales[p]) /\ slot \notin Sold(Sales[p])
  BY ReferenceTypes DEF BuySaleItem, ShopInv, ReferenceInv
<1>2. cost \in Nat
  <2>1. sales[Sales[p]].price \in ListsOf(Prices)
    BY <1>1 DEF SaleRecords, SaleShape
  <2>2. PICK S \in SUBSET Slots : sales[Sales[p]].price \in [S -> Prices]
    BY <2>1 DEF ListsOf
  <2>3. slot \in S
    BY <1>1, <2>2 DEF Entries
  <2> QED
    BY <2>2, <2>3, ShopAssumption
<1>3. /\ Gold \in [Players -> Nat] /\ astray \in Nat /\ bags \in [Players -> Bags]
  BY DEF ShopInv, ShopTypes
<1>4. /\ Gold[q] >= cost
      /\ Gold' = IF p \in online THEN [[Gold EXCEPT ![q] = @ - cost] EXCEPT ![p] = @ + cost]
                 ELSE [Gold EXCEPT ![q] = @ - cost]
      /\ astray' = IF p \in online THEN astray ELSE astray + cost
      /\ bags' = [bags EXCEPT ![q][to] = bags[p][slot]]
  BY DEF BuySaleItem, CanAfford
<1> HIDE DEF cost
<1>5. [Gold EXCEPT ![q] = @ - cost] \in [Players -> Nat]
  <2>1. Gold[q] - cost \in Nat
    BY <1>2, <1>3, <1>4
  <2> QED
    BY <1>3, <2>1
<1>6. Gold' \in [Players -> Nat] /\ astray' \in Nat
  BY <1>2, <1>3, <1>4, <1>5
<1>7. /\ bags' \in [Players -> Bags]
      /\ \A r \in Players, t \in Slots :
            bags'[r][t] = IF r = q /\ t = to THEN bags[p][slot] ELSE bags[r][t]
  BY <1>3, <1>4 DEF Bags
<1> QED
  BY <1>1, <1>6, <1>7
LEMMA BuySaleItemStep ==
  ASSUME IInv, NEW q \in Players, NEW p \in Players, NEW slot \in Slots, NEW to \in Slots,
         BuySaleItem(q, p, slot, to)
  PROVE  IInv'
<1> DEFINE b == [buyer |-> q, sale |-> Sales[p], slot |-> slot, to |-> to]
<1>1. /\ sales' = Touch(q, to, 0) /\ raced' = (raced \/ BeingBought(p, slot)) /\ ShopInv
      /\ purchases' = purchases \cup {b} /\ bags[p][slot] # NoRow
      /\ UNCHANGED <<online, creating, Sales, late>>
  BY DEF BuySaleItem, IInv
<1>2. /\ Sales[p] \in Ids /\ sales[Sales[p]] \in SaleRecords /\ sales[Sales[p]].seller = p
      /\ p # q /\ slot \in Entries(Sales[p]) /\ slot \notin Sold(Sales[p])
      /\ Gold' \in [Players -> Nat] /\ astray' \in Nat
      /\ bags' \in [Players -> Bags]
      /\ \A r \in Players, t \in Slots :
            bags'[r][t] = IF r = q /\ t = to THEN bags[p][slot] ELSE bags[r][t]
  BY <1>1, BuySaleItemEffect
<1>3. /\ SalesKept /\ sales' \in [Ids -> SaleRecords \cup {NoSale}]
      /\ \A i \in Ids : sales[i] \in SaleRecords => sales'[i] \in SaleRecords
      /\ \A i \in Ids : sales[i] \in SaleRecords /\ sales[i].seller = q => to \in sales'[i].touched
  BY <1>1, TouchKeeps
<1>4. b \in Purchase /\ b.sale = Sales[p] /\ b.slot = slot
  BY <1>2 DEF Purchase
<1> HIDE DEF b
<1>5. ShopInv'
  <2>1. ReferenceInv'
    BY <1>1, <1>2, <1>3, <1>4, ReferencesKept
  <2> QED
    BY <1>1, <1>2, <1>3, <1>4, <2>1 DEF ShopInv, ShopTypes
<1>6. ListedInv'
  <2>1. ASSUME NEW i \in Ids, NEW s \in Slots, sales'[i] \in SaleRecords, s \notin sales'[i].touched
        PROVE  bags'[sales[i].seller][s] = bags[sales[i].seller][s]
    <3>1. sales[i] \in SaleRecords /\ sales[i].seller \in Players
      BY <1>3, <2>1, NoRecord DEF SalesKept, Grown, SaleRecords, SaleShape
    <3> QED
      BY <1>2, <1>3, <2>1, <3>1
  <2> QED
    BY <1>1, <1>3, <2>1, ListedKept DEF IInv
<1>7. NoDuplicateInShops'
  <2> SUFFICES ASSUME ~raced', NEW c \in Players, NEW d \in Players, NEW s \in Slots, NEW t \in Slots,
                      bags'[c][s] = bags'[d][t], bags'[c][s] # NoRow, <<c, s>> # <<d, t>>
               PROVE  BeingBought(c, s)' \/ BeingBought(d, t)'
    BY DEF NoDuplicateInShops
  <2>1. ~raced /\ ~BeingBought(p, slot) /\ NoDuplicateInShops
    BY <1>1 DEF IInv
  <2>2. \A r, x : BeingBought(r, x) => BeingBought(r, x)'
    BY <1>1, <1>3, <1>5, BoughtKept DEF ShopInv
  <2>3. BeingBought(p, slot)'
    <3>1. sales'[Sales[p]].seller = p
      BY <1>2, <1>3, NoRecord DEF SalesKept, Grown
    <3> QED
      BY <1>1, <1>4, <3>1 DEF BeingBought
  <2>4. CASE c = q /\ s = to
    <3>1. bags[p][slot] = bags[d][t] /\ bags[d][t] # NoRow
      BY <1>2, <2>4
    <3> QED
      BY <2>1, <2>2, <2>3, <3>1 DEF NoDuplicateInShops
  <2>5. CASE d = q /\ t = to
    <3>1. bags[p][slot] = bags[c][s] /\ bags[c][s] # NoRow
      BY <1>2, <2>5
    <3> QED
      BY <2>1, <2>2, <2>3, <3>1 DEF NoDuplicateInShops
  <2>6. CASE ~(c = q /\ s = to) /\ ~(d = q /\ t = to)
    <3>1. bags[c][s] = bags[d][t] /\ bags[c][s] # NoRow
      BY <1>2, <2>6
    <3> QED
      BY <2>1, <2>2, <3>1 DEF NoDuplicateInShops
  <2> QED
    BY <2>4, <2>5, <2>6
<1> QED
  BY <1>5, <1>6, <1>7 DEF IInv

LEMMA MarkedEffect ==
  ASSUME ShopInv, NEW b \in purchases, NEW i \in Ids
  PROVE  /\ ((Marked(b)[i] = NoSale /\ sales[i] = NoSale) \/ Grown(sales[i], Marked(b)[i]))
         /\ sales[i] \in SaleRecords /\ sales[i].seller = sales[b.sale].seller =>
               b.slot \in Marked(b)[i].sold \/ b.slot \in Marked(b)[i].touched
<1> DEFINE t == Touch(sales[b.sale].seller, b.slot, b.sale)
<1>1. b.sale \in Ids /\ b.slot \in Slots /\ sales[b.sale] \in SaleRecords /\ b.slot \in DOMAIN sales[b.sale].price
  BY ReferenceTypes DEF ShopInv, ShopTypes, ReferenceInv, Purchase, Entries
<1>2. sales[b.sale].seller \in Players
  BY <1>1 DEF SaleRecords, SaleShape
<1>3. /\ DOMAIN t = Ids
      /\ ((t[i] = NoSale /\ sales[i] = NoSale) \/ Grown(sales[i], t[i]))
      /\ sales[i] \in SaleRecords /\ sales[i].seller = sales[b.sale].seller /\ i # b.sale => b.slot \in t[i].touched
      /\ i = b.sale => t[i] = sales[i]
  BY <1>1, <1>2, TouchEffect
<1>4. Marked(b) = [t EXCEPT ![b.sale].sold = @ \cup {b.slot}]
  BY DEF Marked
<1> HIDE DEF t
<1>5. CASE i # b.sale
  <2>1. Marked(b)[i] = t[i]
    BY <1>3, <1>4, <1>5
  <2> QED
    BY <1>3, <1>5, <2>1
<1>6. CASE i = b.sale
  <2>1. Marked(b)[i] = [sales[i] EXCEPT !.sold = @ \cup {b.slot}]
    BY <1>3, <1>4, <1>6
  <2> QED
    BY <1>1, <1>6, <2>1, SoldRecord
<1> QED
  BY <1>5, <1>6
LEMMA BoughtStep == ASSUME IInv, NEW b \in purchases, Bought(b) PROVE IInv'
<1> DEFINE p == sales[b.sale].seller
<1>1. /\ purchases' = purchases \ {b} /\ sales' = Referred(Marked(b)) /\ ShopInv
      /\ bags' = RemoveItem(bags, sales[b.sale].seller, b.slot)
      /\ UNCHANGED <<online, Gold, creating, Sales, astray, late, raced>>
  BY DEF Bought, TakeItem, IInv
<1>2. b.sale \in Ids /\ b.slot \in Slots /\ sales[b.sale] \in SaleRecords
  BY ReferenceTypes DEF IInv, ShopInv, ShopTypes, ReferenceInv, Purchase
<1>3. p \in Players
  BY <1>2 DEF SaleRecords, SaleShape
<1>4. /\ bags' \in [Players -> Bags]
      /\ \A r \in Players, t \in Slots : bags'[r][t] = IF r = p /\ t = b.slot THEN NoRow ELSE bags[r][t]
  <2>1. bags \in [Players -> Bags]
    BY <1>1 DEF ShopInv, ShopTypes
  <2> QED
    BY <1>1, <1>2, <1>3, <2>1, RemoveEffect
<1>5. /\ SalesKept /\ sales' \in [Ids -> SaleRecords \cup {NoSale}]
      /\ \A i \in Ids : i \in creating' \/ (\E c \in Players : Sales'[c] = i)
                           \/ (\E a \in purchases' : a.sale = i) => sales'[i] = Marked(b)[i]
      /\ \A i \in Ids : sales'[i] \in {Marked(b)[i], NoSale}
  BY <1>1, MarkedEffect, ReferredKeeps
<1>6. ShopInv'
  <2>1. \A i \in Ids : sales[i] \in SaleRecords => Grown(sales[i], Marked(b)[i])
    BY <1>1, MarkedEffect, NoRecord
  <2>2. \A i \in creating' : sales'[i] \in SaleRecords
    BY <1>1, <1>5, <2>1, ReferenceTypes DEF ShopInv, ReferenceInv, Grown
  <2>3. \A c \in Players : Sales'[c] # 0 => sales'[Sales'[c]] \in SaleRecords /\ sales'[Sales'[c]].seller = c
    BY <1>1, <1>5, <2>1, ReferenceTypes DEF ShopInv, ReferenceInv, Grown
  <2>4. \A a \in purchases' : sales'[a.sale] \in SaleRecords /\ a.slot \in Entries(a.sale)'
    BY <1>1, <1>5, <2>1, ReferenceTypes DEF ShopInv, ReferenceInv, Grown, Entries
  <2> QED
    BY <1>1, <1>4, <1>5, <2>2, <2>3, <2>4 DEF ShopInv, ShopTypes, ReferenceInv
<1>7. ListedInv'
  <2>1. ASSUME NEW i \in Ids, NEW s \in Slots, sales'[i] \in SaleRecords,
               s \notin sales'[i].sold, s \notin sales'[i].touched
        PROVE  bags'[sales[i].seller][s] = bags[sales[i].seller][s]
    <3>1. sales[i] \in SaleRecords /\ sales[i].seller \in Players
      BY <1>5, <2>1, NoRecord DEF SalesKept, Grown, SaleRecords, SaleShape
    <3>2. sales'[i] = Marked(b)[i]
      BY <1>5, <2>1, NoRecord
    <3>3. ~(sales[i].seller = p /\ s = b.slot)
      BY <1>1, <2>1, <3>1, <3>2, MarkedEffect
    <3> QED
      BY <1>4, <3>1, <3>3
  <2> QED
    BY <1>1, <1>5, <2>1, ListedKept DEF IInv, Sold
<1>8. NoDuplicateInShops'
  <2>1. ASSUME NEW c \in Players, NEW s \in Slots, BeingBought(c, s)
        PROVE  BeingBought(c, s)' \/ bags'[c][s] = NoRow
    <3>1. PICK a \in purchases : sales[a.sale].seller = c /\ a.slot = s
      BY <2>1 DEF BeingBought
    <3>2. CASE a = b
      BY <1>4, <3>1, <3>2
    <3>3. CASE a # b
      <4>1. a \in purchases'
        BY <1>1, <3>3
      <4>2. sales'[a.sale].seller = c
        BY <1>1, <1>5, <1>6, <3>1, <4>1, StillBought DEF ShopInv
      <4> QED
        BY <3>1, <4>1, <4>2 DEF BeingBought
    <3> QED
      BY <3>2, <3>3
  <2> QED
    BY <1>1, <1>4, <2>1, DuplicatesKept DEF IInv
<1> QED
  BY <1>6, <1>7, <1>8 DEF IInv

---------------------------------------------------------------------------
LEMMA NextIInv == IInv /\ [Next]_vars => IInv'
<1> SUFFICES ASSUME IInv, [Next]_vars PROVE IInv'
  OBVIOUS
<1>1. ASSUME NEW p \in Players, NEW row \in Rows, Loot(p, row) PROVE IInv'
  BY <1>1, LootStep
<1>2. ASSUME NEW p \in Players, NEW slot \in Slots, Destroy(p, slot) PROVE IInv'
  BY <1>2, DestroyStep
<1>3. ASSUME NEW p \in Players, NEW q \in Players, NEW slot \in Slots, Exchange(p, q, slot) PROVE IInv'
  BY <1>3, ExchangeStep
<1>4. ASSUME NEW p \in Players, NEW S \in SUBSET Slots, NEW price \in [S -> Prices], OpenSale(p, price)
      PROVE  IInv'
  BY <1>4, OpenSaleStep
<1>5. ASSUME NEW p \in Players, CloseSale(p) \/ Logout(p) PROVE IInv'
  BY <1>5, ClosingStep
<1>6. ASSUME NEW p \in Players, NEW q \in Players, NEW slot \in Slots, NEW to \in Slots,
             BuySaleItem(p, q, slot, to)
      PROVE  IInv'
  BY <1>6, BuySaleItemStep
<1>7. ASSUME NEW i \in creating, Create(i) PROVE IInv'
  BY <1>7, CreateStep
<1>8. ASSUME NEW b \in purchases, Bought(b) PROVE IInv'
  BY <1>8, BoughtStep
<1>9. CASE UNCHANGED vars
  BY <1>9 DEF IInv, ShopInv, ShopTypes, ReferenceInv, ListedInv, NoDuplicateInShops, BeingBought, Entries,
              Sold, vars
<1> QED
  BY <1>1, <1>2, <1>3, <1>4, <1>5, <1>6, <1>7, <1>8, <1>9 DEF Next

LEMMA InitIInv == Init => IInv
<1> SUFFICES ASSUME Init PROVE IInv
  OBVIOUS
<1>1. ShopTypes
  <2>1. /\ sales \in [Ids -> SaleRecords \cup {NoSale}] /\ online \subseteq Players
        /\ creating \subseteq Ids /\ purchases \subseteq Purchase
    BY DEF Init
  <2>2. Sales \in [Players -> 0..MaxSales]
    BY ShopAssumption DEF Init
  <2>3. /\ bags \in [Players -> Bags] /\ Gold \in [Players -> Nat]
        /\ astray \in Nat /\ late \in BOOLEAN /\ raced \in BOOLEAN
    BY ShopAssumption, InitBagAssumption DEF Init
  <2> QED
    BY <2>1, <2>2, <2>3 DEF ShopTypes
<1>2. ReferenceInv
  BY DEF Init, ReferenceInv
<1>3. ListedInv
  BY NoRecord DEF Init, ListedInv
<1>4. NoDuplicateInShops
  BY InitBagAssumption DEF Init, NoDuplicateInShops, OnePlace
<1> QED
  BY <1>1, <1>2, <1>3, <1>4 DEF IInv, ShopInv

LEMMA Invariance == Spec => []IInv
  BY InitIInv, NextIInv, PTL DEF Spec

\* The shops keep their types for any characters, slots, rows and prices: no
\* buyer pays gold he has not, and who refers to a sale finds it.
THEOREM TypeCorrect == Spec => []TypeOK
<1>1. ASSUME ShopInv PROVE TypeOK
  <2>1. ASSUME NEW i \in Ids, Opened(i)
        PROVE  /\ sales[i].seller \in Players /\ Entries(i) \subseteq Slots
               /\ sales[i].price \in [Entries(i) -> Prices] /\ sales[i].listed \in [Entries(i) -> Rows]
               /\ Sold(i) \subseteq Entries(i) /\ sales[i].touched \subseteq Slots
    <3>1. sales[i] \in SaleShape /\ DOMAIN sales[i].listed = DOMAIN sales[i].price /\ Sold(i) \subseteq Entries(i)
      BY <1>1, <2>1 DEF ShopInv, ShopTypes, Opened, SaleRecords, Sold, Entries
    <3>2. /\ sales[i].price \in ListsOf(Prices) /\ sales[i].listed \in ListsOf(Rows)
          /\ sales[i].seller \in Players /\ sales[i].touched \subseteq Slots
      BY <3>1 DEF SaleShape
    <3> QED
      BY <3>1, <3>2 DEF ListsOf, Entries
  <2>2. DOMAIN sales = Ids
    BY <1>1 DEF ShopInv, ShopTypes
  <2> QED
    BY <1>1, <2>1, <2>2 DEF TypeOK, ShopInv, ShopTypes
<1> QED
  BY <1>1, Invariance, PTL DEF IInv

\* Buying in shops duplicates no item, for any number of sellers, buyers, sales
\* and purchases at once: the row that is in two slots between BuySaleItem and
\* its write is in the seller's no more when it is written, whatever is looted,
\* destroyed, traded, opened and closed meanwhile; unless two of these took the
\* slot at once.
THEOREM ShopsDuplicateNothing == Spec => []NoDuplicateInShops
  BY Invariance, PTL DEF IInv

\* BuySaleItem gives the buyer the item its seller listed, for any number of
\* sales of one seller after the other: whatever fills or empties a slot on sale
\* is noted, looting into it needs it empty.
THEOREM BuyersGetWhatWasListed == Spec => SellsWhatWasListed
<1> DEFINE Listed == \A b \in purchases' \ purchases :
                        LET i == b.sale IN
                        bags[sales[i].seller][b.slot] = sales[i].listed[b.slot]
                            \/ b.slot \in sales[i].touched
<1>1. ASSUME IInv, Next PROVE Listed
  <2>1. ASSUME NEW q \in Players, NEW p \in Players, NEW slot \in Slots, NEW to \in Slots,
               BuySaleItem(q, p, slot, to)
        PROVE  Listed
    <3>1. /\ purchases' \ purchases \subseteq {[buyer |-> q, sale |-> Sales[p], slot |-> slot, to |-> to]}
          /\ ShopInv /\ ListedInv
      BY <1>1, <2>1 DEF BuySaleItem, IInv
    <3>2. /\ Sales[p] \in Ids /\ sales[Sales[p]] \in SaleRecords
          /\ slot \in Entries(Sales[p]) /\ slot \notin Sold(Sales[p])
      BY <2>1, <3>1, BuySaleItemEffect
    <3> QED
      BY <3>1, <3>2 DEF ListedInv
  <2>2. purchases' \subseteq purchases => Listed
    OBVIOUS
  <2> HIDE DEF Listed
  <2> QED
    BY <1>1, <2>1, <2>2 DEF Next, Loot, Destroy, Exchange, OpenSale, CloseSale, Logout, Create, Bought
<1>2. IInv /\ [Next]_vars => [Listed]_vars
  BY <1>1
<1> QED
  BY <1>2, Invariance, PTL DEF Spec, SellsWhatWasListed

---------------------------------------------------------------------------
\* The gold.  Who has left has no sale, unless one was registered late.
LedgerInv == SellersArePaid /\ (~late => \A p \in Players : Sales[p] # 0 => p \in online)

LEMMA SameLedger ==
  ASSUME LedgerInv, UNCHANGED <<Gold, astray>>, late => late',
         ~late' => \A p \in Players : Sales'[p] # 0 => p \in online'
  PROVE  LedgerInv'
  BY DEF LedgerInv, SellersArePaid

\* What the buyer pays the seller gets, or it is lost with a seller who has left.
LEMMA BuySaleItemLedger ==
  ASSUME IInv, IInv', LedgerInv, NEW p \in Players, NEW q \in Players,
         NEW slot \in Slots, NEW to \in Slots, BuySaleItem(q, p, slot, to)
  PROVE  LedgerInv'
<1> DEFINE price == sales[Sales[p]].price[slot]
           drawn == [Gold EXCEPT ![q] = @ - price]
<1>1. /\ Sales[q] = 0 /\ Sales[p] # 0 /\ slot \in Entries(Sales[p])
      /\ Gold[q] >= price
      /\ Gold' = IF p \in online THEN [drawn EXCEPT ![p] = @ + price] ELSE drawn
      /\ astray' = IF p \in online THEN astray ELSE astray + price
      /\ UNCHANGED <<online, Sales, late>>
  BY DEF BuySaleItem, CanAfford
<1>2. /\ Gold \in [Players -> Nat] /\ Gold' \in [Players -> Nat] /\ astray \in Nat /\ p # q
  BY <1>1 DEF IInv, ShopInv, ShopTypes
<1>3. price \in Nat
  <2>1. sales[Sales[p]] \in SaleRecords
    BY <1>1 DEF IInv, ShopInv, ReferenceInv
  <2>2. sales[Sales[p]].price \in ListsOf(Prices)
    BY <2>1 DEF SaleRecords, SaleShape
  <2>3. price \in Prices
    BY <1>1, <2>2 DEF ListsOf, Entries
  <2> QED
    BY <2>3, ShopAssumption
<1>4. SumFunction(Gold) \in Nat /\ SumFunction(Gold') \in Nat
  BY <1>2, SumOverAll, PlayersAssumption
<1> HIDE DEF price
<1>5. CASE p \in online
  <2>1. \A r \in Players : Gold'[r] = IF r = p THEN Gold[p] + price
                                      ELSE IF r = q THEN Gold[q] - price ELSE Gold[r]
    BY <1>1, <1>2, <1>5
  <2>2. Gold'[p] + Gold'[q] = Gold[p] + Gold[q]
    <3>1. Gold'[p] = Gold[p] + price /\ Gold'[q] = Gold[q] - price
      BY <1>2, <2>1
    <3>2. Gold[p] \in Nat /\ Gold[q] \in Nat
      BY <1>2
    <3> QED
      BY <1>3, <3>1, <3>2
  <2>3. SumFunction(Gold') = SumFunction(Gold)
    BY <1>2, <2>1, <2>2, TwoTerms, PlayersAssumption
  <2> QED
    BY <1>1, <1>5, <2>3 DEF LedgerInv, SellersArePaid
<1>6. CASE p \notin online
  <2>1. \A r \in Players : Gold'[r] = IF r = q THEN Gold[q] - price ELSE Gold[r]
    BY <1>1, <1>2, <1>6
  <2>2. SumFunction(Gold') = (SumFunction(Gold) - Gold[q]) + Gold'[q]
    BY <1>2, <2>1, OneTerm, PlayersAssumption
  <2>3. Gold'[q] = Gold[q] - price /\ Gold[q] \in Nat
    BY <1>2, <2>1
  <2>4. late
    BY <1>1, <1>6 DEF LedgerInv, IInv, ShopInv, ShopTypes
  <2>5. SumFunction(Gold') + astray' = SumFunction(Gold) + astray
    BY <1>1, <1>2, <1>3, <1>4, <1>6, <2>2, <2>3
  <2> QED
    BY <1>1, <2>4, <2>5 DEF LedgerInv, SellersArePaid
<1> QED
  BY <1>5, <1>6

LEMMA NextLedger == IInv /\ IInv' /\ LedgerInv /\ [Next]_vars => LedgerInv'
<1> SUFFICES ASSUME IInv, IInv', LedgerInv, [Next]_vars PROVE LedgerInv'
  OBVIOUS
<1>1. ASSUME NEW p \in Players, \/ \E row \in Rows : Loot(p, row)
                                \/ \E slot \in Slots : Destroy(p, slot)
                                \/ \E q \in Players, slot \in Slots : Exchange(p, q, slot)
                                \/ \E S \in SUBSET Slots : \E price \in [S -> Prices] : OpenSale(p, price)
      PROVE  LedgerInv'
  <2>1. UNCHANGED <<online, Gold, astray, late, Sales>>
    BY <1>1 DEF Loot, Destroy, Exchange, OpenSale
  <2> QED
    BY <2>1, SameLedger DEF LedgerInv
<1>2. ASSUME NEW p \in Players, CloseSale(p) \/ Logout(p) PROVE LedgerInv'
  <2>1. /\ UNCHANGED <<Gold, astray, late>> /\ Sales' = [Sales EXCEPT ![p] = 0]
        /\ \A q \in Players : q # p /\ q \in online => q \in online'
    BY <1>2 DEF CloseSale, Logout, DeleteSale
  <2>2. \A q \in Players : Sales'[q] = IF q = p THEN 0 ELSE Sales[q]
    BY <2>1 DEF IInv, ShopInv, ShopTypes
  <2> QED
    BY <2>1, <2>2, SameLedger DEF LedgerInv
<1>3. ASSUME NEW i \in creating, Create(i) PROVE LedgerInv'
  <2>1. /\ UNCHANGED <<online, Gold, astray>> /\ late' = (late \/ sales[i].seller \notin online)
        /\ Sales' = [Sales EXCEPT ![sales[i].seller] = i]
    BY <1>3 DEF Create
  <2>2. sales[i].seller \in Players /\ \A q \in Players : q # sales[i].seller => Sales'[q] = Sales[q]
    BY <2>1 DEF IInv, ShopInv, ShopTypes, ReferenceInv, SaleRecords, SaleShape
  <2> QED
    BY <2>1, <2>2, SameLedger DEF LedgerInv
<1>4. ASSUME NEW b \in purchases, Bought(b) PROVE LedgerInv'
  <2>1. UNCHANGED <<online, Gold, astray, late, Sales>>
    BY <1>4 DEF Bought
  <2> QED
    BY <2>1, SameLedger DEF LedgerInv
<1>5. CASE UNCHANGED vars
  <2>1. UNCHANGED <<online, Gold, astray, late, Sales>>
    BY <1>5 DEF vars
  <2> QED
    BY <2>1, SameLedger DEF LedgerInv
<1>6. ASSUME NEW p \in Players, NEW q \in Players, NEW slot \in Slots, NEW to \in Slots,
             BuySaleItem(p, q, slot, to)
      PROVE  LedgerInv'
  BY <1>6, BuySaleItemLedger
<1> QED
  BY <1>1, <1>2, <1>3, <1>4, <1>5, <1>6 DEF Next

\* Every coin a buyer pays is the seller's: gold is never made, and lost only if
\* a sale was registered after its seller had left.
THEOREM ShopsKeepTheGold == Spec => []SellersArePaid
<1>1. Init => LedgerInv
  <2> SUFFICES ASSUME Init PROVE LedgerInv
    OBVIOUS
  <2>1. SumFunction(InitGold) \in Nat
    BY ShopAssumption, SumOverAll, PlayersAssumption
  <2> QED
    BY <2>1 DEF Init, LedgerInv, SellersArePaid
<1>2. LedgerInv => SellersArePaid
  BY DEF LedgerInv
<1> QED
  BY <1>1, <1>2, NextLedger, Invariance, PTL DEF Spec

----------------------------------------------------------------------------
(* The consignment *)

SlotsOrNone == CSlots \cup {NoFree}
SlotOps == {"counted", "created", "written", "park", "delete", "removed"}
Ops == {"idle", "buy", "cancel", "claim", "bought", "returned"} \cup SlotOps
Handler ==
    [op : Ops, who : Chars \cup {NoChar}, row : CRows \cup {NoCRow}, slot : SlotsOrNone]
TypeInv ==
    /\ bag \in [Chars -> [CSlots -> CRows \cup {NoCRow}]]
    /\ rowOf \in [CRows -> [owner : Chars \cup {NoChar}, slot : SlotsOrNone \cup {NoCRow}]]
    /\ listing \in [CRows -> [seller : Chars \cup {NoChar}, sold : BOOLEAN]]
    /\ doing \in [Callers -> Handler]
    /\ \A h \in Callers : /\ doing[h].op = "idle" => doing[h].row = NoCRow
                          /\ doing[h].op # "idle" => doing[h].who \in Chars /\ doing[h].row \in CRows
                          /\ doing[h].op \in SlotOps => doing[h].slot \in CSlots
    /\ writes \subseteq [op : {"sold", "delete"}, row : CRows]
    /\ disputed \subseteq CRows
    /\ paid \in [CRows -> Nat] /\ received \in [CRows -> Nat]
    /\ depositor \in [CRows -> Chars \cup {NoChar}]

\* Where an item may be: in a slot its row names, nowhere in a bag, for sale.
In(r, c, s) == c \in Chars /\ s \in CSlots /\ bag[c][s] = r
Home(r) == \E c \in Chars, s \in CSlots : bag[c][s] = r /\ rowOf[r] = [owner |-> c, slot |-> s]
Away(r) == \A c \in Chars, s \in CSlots : bag[c][s] # r
Stored(r) == Away(r) /\ rowOf[r].owner \in Chars /\ rowOf[r].slot = NoFree
Vanished(r) == Away(r) /\ rowOf[r].owner = NoChar
\* How it stands with its listing and its price.
Owed(r) == paid[r] # received[r]
Listed(r) == listing[r].seller \in Chars /\ listing[r].sold = FALSE
Unlisted(r) == listing[r] = NotListed /\ ~Owed(r)
OnSale(r) == Listed(r) /\ depositor[r] = listing[r].seller /\ ~Owed(r)
SoldOff(r) == listing[r].seller \in Chars /\ listing[r].sold = TRUE /\ Owed(r)

\* What a handler of c that is at `op` with r may rely on.
AtWork(r, op, c, s) ==
    /\ op = "counted" => In(r, c, s) /\ Home(r) /\ (Unlisted(r) \/ SoldOff(r))
    /\ op = "created" => In(r, c, s) /\ Home(r) /\ Listed(r) /\ listing[r].seller = c /\ ~Owed(r)
    /\ op = "written" => /\ In(r, c, s) /\ rowOf[r] = [owner |-> c, slot |-> NoFree]
                         /\ Listed(r) /\ listing[r].seller = c /\ ~Owed(r)
    /\ op = "buy" => Stored(r) /\ OnSale(r)
    /\ op = "cancel" => Stored(r) /\ OnSale(r) /\ listing[r].seller = c
    /\ op = "bought" => Away(r) /\ rowOf[r] = [owner |-> c, slot |-> s] /\ OnSale(r)
    /\ op = "returned" => Away(r) /\ rowOf[r] = [owner |-> c, slot |-> s] /\ OnSale(r) /\ listing[r].seller = c
    /\ op = "claim" => SoldOff(r) /\ (Home(r) \/ Vanished(r))
    /\ op = "park" => In(r, c, s) /\ Home(r) /\ SoldOff(r)
    /\ op = "delete" => In(r, c, s) /\ Home(r) /\ Unlisted(r)
    /\ op = "removed" => In(r, c, s) /\ rowOf[r].owner = NoChar /\ (Unlisted(r) \/ SoldOff(r))
WorkInv(r, h) == AtWork(r, doing[h].op, doing[h].who, doing[h].slot)
WriteInv(r, w) ==
    /\ w.op = "sold" => Home(r) /\ Listed(r) /\ Owed(r)
    /\ w.op = "delete" => (Home(r) \/ Vanished(r)) /\ ~Owed(r)
RestInv(r) ==
    \/ (Unlisted(r) \/ SoldOff(r)) /\ (Home(r) \/ Vanished(r))
    \/ OnSale(r) /\ Stored(r)

Worked(r) == \E h \in Callers : doing[h].row = r
Awaited(r) == \E w \in writes : w.row = r
RowInv(r) ==
    /\ \A c, d \in Chars, s, t \in CSlots : bag[c][s] = r /\ bag[d][t] = r => c = d /\ s = t
    /\ paid[r] \in {received[r], received[r] + 1}
    /\ \A h, k \in Callers : doing[h].row = r /\ doing[k].row = r => h = k
    /\ \A h \in Callers : doing[h].row = r => WorkInv(r, h)
    /\ \A v, w \in writes : v.row = r /\ w.row = r => v = w
    /\ \A w \in writes : w.row = r => WriteInv(r, w)
    /\ ~(Worked(r) /\ Awaited(r))
    /\ ~Worked(r) /\ ~Awaited(r) => RestInv(r)
RowsInv == \A r \in CRows \ disputed : RowInv(r)
CInv == TypeInv /\ RowsInv
OneHolder(r) == \A c, d \in Chars, s, t \in CSlots : bag[c][s] = r /\ bag[d][t] = r => c = d /\ s = t

---------------------------------------------------------------------------
\* Where Escrow sees an item.
LEMMA HeldBy ==
  ASSUME NEW r \in CRows, OneHolder(r), NEW c \in Chars, NEW s \in CSlots, bag[c][s] = r
  PROVE  holder[r] = c
<1>1. Holders(r) = {c}
  BY DEF Holders, OneHolder
<1> QED
  BY <1>1 DEF holder
LEMMA HeldByNext ==
  ASSUME NEW r \in CRows, OneHolder(r)', NEW c \in Chars, NEW s \in CSlots, bag'[c][s] = r
  PROVE  holder'[r] = c
<1>1. Holders(r)' = {c}
  BY DEF Holders, OneHolder
<1> QED
  BY <1>1 DEF holder
LEMMA NotHeld ==
  ASSUME NEW r \in CRows, Away(r)
  PROVE  holder[r] = IF rowOf[r].owner = NoChar THEN Nowhere ELSE Custody
<1>1. Holders(r) = {}
  BY DEF Holders, Away
<1> QED
  BY <1>1 DEF holder
LEMMA NotHeldNext ==
  ASSUME NEW r \in CRows, Away(r)'
  PROVE  holder'[r] = IF rowOf'[r].owner = NoChar THEN Nowhere ELSE Custody
<1>1. Holders(r)' = {}
  BY DEF Holders, Away
<1> QED
  BY <1>1 DEF holder

\* What is done to other items: neither where r is nor what is done to it changes.
Stays(r) ==
    /\ \A c \in Chars, s \in CSlots : bag'[c][s] = r <=> bag[c][s] = r
    /\ rowOf'[r] = rowOf[r]
Same(r) ==
    /\ Stays(r)
    /\ listing'[r] = listing[r] /\ depositor'[r] = depositor[r]
    /\ paid'[r] = paid[r] /\ received'[r] = received[r]
    /\ \A h \in Callers : doing[h].row = r \/ doing'[h].row = r => doing'[h] = doing[h]
    /\ \A w : w.row = r => (w \in writes' <=> w \in writes)

LEMMA StaysHeld == ASSUME NEW r \in CRows, Stays(r) PROVE holder'[r] = holder[r]
<1>1. Holders(r)' = Holders(r)
  BY DEF Holders, Stays
<1> QED
  BY <1>1 DEF holder, Stays

LEMMA SameRowInv == ASSUME NEW r \in CRows, RowInv(r), Same(r) PROVE RowInv(r)'
<1>1. /\ Home(r)' <=> Home(r)
      /\ Away(r)' <=> Away(r)
  BY DEF Same, Stays, Home, Away
<1>a. /\ Stored(r)' <=> Stored(r)
      /\ Vanished(r)' <=> Vanished(r)
  BY <1>1 DEF Same, Stays, Stored, Vanished
<1>b. /\ Owed(r)' <=> Owed(r)
      /\ Listed(r)' <=> Listed(r)
  BY DEF Same, Owed, Listed
<1>c. /\ Unlisted(r)' <=> Unlisted(r)
      /\ OnSale(r)' <=> OnSale(r)
      /\ SoldOff(r)' <=> SoldOff(r)
  BY <1>b DEF Same, Unlisted, OnSale, SoldOff
<1>d. RestInv(r)' <=> RestInv(r)
  BY <1>1, <1>a, <1>b, <1>c DEF RestInv
<1>2. \A c, s : In(r, c, s)' = In(r, c, s)
  BY DEF Same, Stays, In
<1>3. \A h \in Callers : doing[h].row = r /\ WorkInv(r, h) => WorkInv(r, h)'
  BY <1>1, <1>2, <1>a, <1>b, <1>c DEF WorkInv, AtWork, Same, Stays
<1>4. \A w : WriteInv(r, w) => WriteInv(r, w)'
  BY <1>1, <1>a, <1>b DEF WriteInv
<1>5. Worked(r)' <=> Worked(r)
  BY DEF Worked, Same
<1>6. Awaited(r)' <=> Awaited(r)
  BY DEF Awaited, Same
<1> QED
  BY <1>d, <1>3, <1>4, <1>5, <1>6 DEF RowInv, Same, Stays

LEMMA SameKept == ASSUME NEW r \in CRows, Same(r) PROVE Promise!Keep(r)
  BY StaysHeld DEF Same, Promise!Keep, Promise!Ledger

---------------------------------------------------------------------------
\* Types.
LEMMA BecomesEffect ==
  ASSUME TypeInv, NEW h \in Callers, NEW op \in Ops, NEW s \in SlotsOrNone, Becomes(h, op, s)
  PROVE  /\ DOMAIN doing' = Callers
         /\ \A k \in Callers : k # h => doing'[k] = doing[k]
         /\ op = "idle" => doing'[h] = Waiting
         /\ op # "idle" => /\ doing'[h].op = op /\ doing'[h].slot = s
                           /\ doing'[h].who = doing[h].who /\ doing'[h].row = doing[h].row
                           /\ doing'[h] \in Handler
<1>1. /\ DOMAIN doing' = Callers
      /\ \A k \in Callers : k # h => doing'[k] = doing[k]
      /\ doing'[h] = IF op = "idle" THEN Waiting ELSE [doing[h] EXCEPT !.op = op, !.slot = s]
  BY DEF TypeInv, Becomes
<1>2. doing[h] \in Handler
  BY DEF TypeInv
<1>3. ASSUME NEW x \in Handler, NEW y, y = [x EXCEPT !.op = op, !.slot = s]
      PROVE  y \in Handler /\ y.op = op /\ y.slot = s /\ y.who = x.who /\ y.row = x.row
  BY <1>3 DEF Handler
<1> QED
  BY <1>1, <1>2, <1>3, ZenonT(60)
LEMMA WaitingType == Waiting \in Handler /\ Waiting.row = NoCRow /\ Waiting.op = "idle"
  BY DEF Waiting, Handler, Ops, SlotsOrNone
DoingType ==
    /\ doing \in [Callers -> Handler]
    /\ \A h \in Callers : /\ doing[h].op = "idle" => doing[h].row = NoCRow
                          /\ doing[h].op # "idle" => doing[h].who \in Chars /\ doing[h].row \in CRows
                          /\ doing[h].op \in SlotOps => doing[h].slot \in CSlots
LEMMA BecomesType ==
  ASSUME TypeInv, NEW h \in Callers, NEW op \in Ops, NEW s \in SlotsOrNone, Becomes(h, op, s),
         op # "idle" => doing[h].op # "idle", op \in SlotOps => s \in CSlots
  PROVE  DoingType'
<1>1. doing' = [doing EXCEPT ![h] = doing'[h]]
  BY DEF Becomes, TypeInv
<1>2. doing'[h] \in Handler
  BY BecomesEffect, WaitingType
<1>3. doing' \in [Callers -> Handler]
  BY <1>1, <1>2 DEF TypeInv
<1> QED
  BY <1>3, BecomesEffect, WaitingType DEF TypeInv, DoingType, SlotOps
LEMMA WriteRowType ==
  ASSUME TypeInv, NEW r \in CRows \cup {NoCRow}, NEW c \in Chars \cup {NoChar}, NEW s \in SlotsOrNone
  PROVE  WriteRow(r, c, s) \in [CRows -> [owner : Chars \cup {NoChar}, slot : SlotsOrNone \cup {NoCRow}]]
  BY DEF TypeInv, WriteRow

LEMMA StartEffect ==
  ASSUME TypeInv, NEW op \in Ops \ {"idle"}, NEW c \in Chars, NEW r \in CRows, NEW s \in SlotsOrNone,
         Start(op, c, r, s)
  PROVE  /\ \E h \in Callers : /\ doing[h] = Waiting /\ doing'[h] = At(op, c, r, s)
                               /\ \A k \in Callers : k # h => doing'[k] = doing[k]
         /\ DOMAIN doing' = Callers
         /\ At(op, c, r, s) \in Handler
  BY DEF Start, TypeInv, At, Handler
LEMMA StartType ==
  ASSUME TypeInv, NEW op \in Ops \ {"idle"}, NEW c \in Chars, NEW r \in CRows, NEW s \in SlotsOrNone,
         op \in SlotOps => s \in CSlots, Start(op, c, r, s)
  PROVE  TypeInv'
<1>1. PICK h \in Callers : doing' = [doing EXCEPT ![h] = At(op, c, r, s)]
  BY DEF Start
<1>2. At(op, c, r, s) \in Handler
  BY StartEffect
<1>3. doing' \in [Callers -> Handler]
  BY <1>1, <1>2 DEF TypeInv
<1>4. DoingType'
  BY <1>1, <1>3 DEF DoingType, TypeInv, At
<1> QED
  BY <1>4 DEF DoingType, TypeInv, Start

---------------------------------------------------------------------------
\* Handlers that start.
RowStep(r) ==
    /\ RowInv(r)'
    /\ \/ Promise!Keep(r) \/ Promise!Deposit(r) \/ Promise!Return(r)
       \/ Promise!Take(r) \/ Promise!Settle(r) \/ Promise!Discard(r)
Stepped == TypeInv' /\ disputed \subseteq disputed' /\ \A r \in CRows \ disputed' : RowStep(r)

LEMMA SameStep == ASSUME NEW r \in CRows, RowInv(r), Same(r) PROVE RowStep(r)
  BY SameRowInv, SameKept DEF RowStep

\* The state of an item that a handler may start on.
Ready(q) == RestInv(q) /\ OneHolder(q)
\* Nothing but the handlers and what is disputed changes.
Calm ==
    /\ UNCHANGED <<bag, rowOf, listing, writes, trading, paid, received, depositor>>
    /\ disputed \subseteq disputed' /\ disputed' \subseteq disputed \cup CRows
LEMMA CalmSame ==
  ASSUME Calm, NEW r \in CRows,
         \A h \in Callers : doing[h].row = r \/ doing'[h].row = r => doing'[h] = doing[h]
  PROVE  Same(r)
  BY DEF Calm, Same, Stays
\* A handler, and no other and no write, is at work on r.
LEMMA CalmWork ==
  ASSUME Calm, NEW r \in CRows, RowInv(r), ~Awaited(r), NEW h \in Callers, doing'[h].row = r,
         \A k \in Callers : k # h => doing'[k].row # r,
         AtWork(r, doing'[h].op, doing'[h].who, doing'[h].slot)
  PROVE  RowStep(r)
<1>1. /\ Home(r) => Home(r)'
      /\ Away(r) => Away(r)'
      /\ Stored(r) => Stored(r)'
      /\ Vanished(r) => Vanished(r)'
      /\ Listed(r) => Listed(r)'
      /\ ~Owed(r) => ~Owed(r)'
      /\ Unlisted(r) => Unlisted(r)'
      /\ OnSale(r) => OnSale(r)'
      /\ SoldOff(r) => SoldOff(r)'
      /\ \A c, s : In(r, c, s) => In(r, c, s)'
  BY DEF Calm, In, Home, Away, Stored, Vanished, Owed, Listed, Unlisted, OnSale, SoldOff
<1>a. \A op, c, s : AtWork(r, op, c, s) => AtWork(r, op, c, s)'
  BY <1>1 DEF AtWork, Calm
<1>2. WorkInv(r, h)'
  BY <1>a DEF WorkInv
<1>3. ~Awaited(r)' /\ Worked(r)'
  BY DEF Awaited, Worked, Calm
<1>4. RowInv(r)'
  BY <1>2, <1>3 DEF RowInv, Calm, Awaited
<1>5. Promise!Keep(r)
  BY DEF Promise!Keep, Promise!Ledger, Calm, holder, Holders
<1> QED
  BY <1>4, <1>5 DEF RowStep

LEMMA StartStep ==
  ASSUME CInv, NEW op \in Ops \ {"idle"}, NEW c \in Chars, NEW q \in CRows, NEW s \in SlotsOrNone,
         op \in SlotOps => s \in CSlots, Start(op, c, q, s),
         Ready(q) => AtWork(q, op, c, s)
  PROVE  Stepped
<1>1. TypeInv /\ TypeInv'
  BY StartType DEF CInv
<1>2. Calm
  BY DEF Start, Calm
<1>3. PICK h \in Callers : /\ doing[h] = Waiting /\ doing'[h] = At(op, c, q, s)
                           /\ \A k \in Callers : k # h => doing'[k] = doing[k]
  BY <1>1, StartEffect
<1>4. ASSUME NEW r \in CRows \ disputed' PROVE RowStep(r)
  <2>1. RowInv(r)
    BY <1>2, <1>4 DEF CInv, RowsInv, Calm
  <2>2. CASE r = q
    <3>1. ~Worked(r) /\ ~Awaited(r)
      BY <1>4, <2>2 DEF Start, Touched, Worked, Awaited
    <3>2. Ready(q)
      BY <2>1, <2>2, <3>1 DEF RowInv, Ready, OneHolder
    <3>3. /\ doing'[h].row = r /\ doing'[h].op = op /\ doing'[h].who = c /\ doing'[h].slot = s
          /\ \A k \in Callers : k # h => doing'[k].row # r
      BY <1>3, <2>2, <3>1 DEF At, Worked
    <3> QED
      BY <1>2, <2>1, <2>2, <3>1, <3>2, <3>3, CalmWork
  <2>3. CASE r # q
    <3>1. doing[h].row # r /\ doing'[h].row # r
      BY <1>3, <2>3, ConsignmentAssumption DEF At, Waiting
    <3> QED
      BY <1>2, <1>3, <2>1, <3>1, CalmSame, SameStep
  <2> QED
    BY <2>2, <2>3
<1> QED
  BY <1>1, <1>2, <1>4 DEF Stepped, Calm

LEMMA RegisterItemStep == ASSUME CInv, RegisterItem PROVE Stepped
<1>1. PICK c \in Chars, s \in CSlots : bag[c][s] # NoCRow /\ Start("counted", c, bag[c][s], s)
  BY DEF RegisterItem
<1>2. bag[c][s] \in CRows
  BY <1>1 DEF CInv, TypeInv
<1>3. ASSUME Ready(bag[c][s]) PROVE AtWork(bag[c][s], "counted", c, s)
  BY <1>2, <1>3 DEF Ready, RestInv, AtWork, In, Away, Stored, Vanished
<1> QED
  BY <1>1, <1>2, <1>3, StartStep DEF Ops, SlotOps, SlotsOrNone
LEMMA BuyStep == ASSUME CInv, BuyConsignmentItem PROVE Stepped
<1>1. PICK c \in Chars, r \in CRows : listing[r] # NotListed /\ ~listing[r].sold /\ Start("buy", c, r, NoFree)
  BY DEF BuyConsignmentItem
<1>2. ASSUME Ready(r) PROVE AtWork(r, "buy", c, NoFree)
  BY <1>1, <1>2 DEF Ready, RestInv, AtWork, Unlisted, SoldOff
<1> QED
  BY <1>1, <1>2, StartStep DEF Ops, SlotOps, SlotsOrNone
LEMMA CancelStep == ASSUME CInv, CancelConsignmentItem PROVE Stepped
<1>1. PICK c \in Chars, r \in CRows : listing[r].seller = c /\ ~listing[r].sold /\ Start("cancel", c, r, NoFree)
  BY DEF CancelConsignmentItem, Listings
<1>2. ASSUME Ready(r) PROVE AtWork(r, "cancel", c, NoFree)
  BY <1>1, <1>2, ConsignmentAssumption DEF Ready, RestInv, AtWork, Unlisted, SoldOff, NotListed
<1> QED
  BY <1>1, <1>2, StartStep DEF Ops, SlotOps, SlotsOrNone
LEMMA ClaimStep == ASSUME CInv, ClaimConsignmentItem PROVE Stepped
<1>1. PICK c \in Chars, r \in CRows : listing[r].seller = c /\ listing[r].sold /\ Start("claim", c, r, NoFree)
  BY DEF ClaimConsignmentItem, Listings
<1>2. ASSUME Ready(r) PROVE AtWork(r, "claim", c, NoFree)
  BY <1>1, <1>2 DEF Ready, RestInv, AtWork, Unlisted, OnSale, Listed, NotListed
<1> QED
  BY <1>1, <1>2, StartStep DEF Ops, SlotOps, SlotsOrNone
LEMMA RemoveOnSaleStep == ASSUME CInv, RemoveOnSale PROVE Stepped
<1>1. PICK c \in Chars, s \in CSlots :
        /\ bag[c][s] # NoCRow
        /\ Start(IF listing[bag[c][s]] # NotListed THEN "park" ELSE "delete", c, bag[c][s], s)
  BY DEF RemoveOnSale
<1>2. bag[c][s] \in CRows
  BY <1>1 DEF CInv, TypeInv
<1> DEFINE q == bag[c][s]
           op == IF listing[q] # NotListed THEN "park" ELSE "delete"
<1>3. ASSUME Ready(q) PROVE AtWork(q, op, c, s)
  <2>1. In(q, c, s) /\ Home(q) /\ (Unlisted(q) \/ SoldOff(q))
    BY <1>2, <1>3 DEF Ready, RestInv, In, Away, Stored, Vanished
  <2>2. listing[q] # NotListed => SoldOff(q)
    BY <2>1 DEF Unlisted
  <2>3. listing[q] = NotListed => Unlisted(q)
    BY <2>1 DEF SoldOff, NotListed
  <2> QED
    BY <2>1, <2>2, <2>3 DEF AtWork
<1>4. op \in Ops \ {"idle"} /\ s \in SlotsOrNone /\ Start(op, c, q, s)
  BY <1>1 DEF Ops, SlotOps, SlotsOrNone
<1> QED
  BY <1>2, <1>3, <1>4, StartStep

---------------------------------------------------------------------------
\* Handlers that go on.  The row of h is q in all of this.
LEMMA OtherHandler ==
  ASSUME TypeInv, NEW h \in Callers, NEW op \in Ops, NEW s \in SlotsOrNone, Becomes(h, op, s),
         NEW r \in CRows, doing[h].row # r
  PROVE  \A k \in Callers : doing[k].row = r \/ doing'[k].row = r => doing'[k] = doing[k]
  BY BecomesEffect, ConsignmentAssumption DEF Waiting
LEMMA OwnHandler ==
  ASSUME NEW h \in Callers, NEW q \in CRows, doing[h].row = q, RowInv(q)
  PROVE  /\ AtWork(q, doing[h].op, doing[h].who, doing[h].slot) /\ ~Awaited(q) /\ OneHolder(q)
         /\ \A k \in Callers : k # h => doing[k].row # q
  BY DEF RowInv, Worked, WorkInv, OneHolder
\* The item is left to itself, or h goes on with it, or a write of its listing is due.
LEMMA RestsNext ==
  ASSUME NEW r \in CRows, RestInv(r)', OneHolder(r)', paid'[r] \in {received'[r], received'[r] + 1},
         ~Worked(r)', ~Awaited(r)'
  PROVE  RowInv(r)'
  BY DEF RowInv, OneHolder, Worked, Awaited
LEMMA WorksNext ==
  ASSUME NEW r \in CRows, OneHolder(r)', paid'[r] \in {received'[r], received'[r] + 1}, ~Awaited(r)',
         NEW h \in Callers, doing'[h].row = r, \A k \in Callers : k # h => doing'[k].row # r, WorkInv(r, h)'
  PROVE  RowInv(r)'
  BY DEF RowInv, OneHolder, Worked, Awaited
LEMMA AwaitsNext ==
  ASSUME NEW r \in CRows, OneHolder(r)', paid'[r] \in {received'[r], received'[r] + 1}, ~Worked(r)',
         NEW w, w.row = r, \A v \in writes' : v.row = r <=> v = w, w \in writes', WriteInv(r, w)'
  PROVE  RowInv(r)'
  BY DEF RowInv, OneHolder, Worked, Awaited
LEMMA IdleNext ==
  ASSUME TypeInv, NEW h \in Callers, NEW s \in SlotsOrNone, Becomes(h, "idle", s),
         NEW q \in CRows, doing[h].row = q, RowInv(q)
  PROVE  ~Worked(q)'
<1>1. \A k \in Callers : doing'[k].row # q
  <2>1. "idle" \in Ops
    BY DEF Ops
  <2>2. doing'[h] = Waiting /\ \A k \in Callers : k # h => doing'[k] = doing[k]
    BY <2>1, BecomesEffect
  <2>3. Waiting.row # q
    BY ConsignmentAssumption DEF Waiting
  <2>4. \A k \in Callers : k # h => doing[k].row # q
    BY OwnHandler
  <2> QED
    BY <2>2, <2>3, <2>4
<1> QED
  BY <1>1 DEF Worked

\* A handler that gives up leaves what it was at work on as it found it.
LEMMA GivesUp ==
  ASSUME CInv, NEW h \in Callers, doing[h].op # "idle", Becomes(h, "idle", NoFree), Calm,
         NEW q \in CRows, doing[h].row = q,
         AtWork(q, doing[h].op, doing[h].who, doing[h].slot) => RestInv(q)
  PROVE  Stepped
<1>1. TypeInv /\ NoFree \in SlotsOrNone /\ "idle" \in Ops /\ "idle" \notin SlotOps
  BY DEF CInv, TypeInv, SlotsOrNone, Ops, SlotOps
<1>2. DoingType'
  BY <1>1, BecomesType
<1>3. ASSUME NEW r \in CRows \ disputed', r # q PROVE RowStep(r)
  <2>1. \A k \in Callers : doing[k].row = r \/ doing'[k].row = r => doing'[k] = doing[k]
    BY <1>1, <1>3, OtherHandler
  <2> QED
    BY <1>3, <2>1, CalmSame, SameStep DEF CInv, RowsInv, Calm
<1>4. ASSUME q \notin disputed' PROVE RowStep(q)
  <2>1. RowInv(q)
    BY <1>1, <1>4 DEF CInv, RowsInv, Calm
  <2>2. RestInv(q) /\ OneHolder(q) /\ ~Awaited(q)
    BY <2>1, OwnHandler
  <2>3. ~Worked(q)'
    BY <1>1, <2>1, IdleNext
  <2>4. RestInv(q)' /\ OneHolder(q)' /\ ~Awaited(q)'
    BY <2>2 DEF Calm, RestInv, OneHolder, Awaited, Home, Away, Stored, Vanished, Owed, Listed, Unlisted, OnSale, SoldOff
  <2>5. paid'[q] \in {received'[q], received'[q] + 1}
    BY <2>1 DEF Calm, RowInv
  <2>6. Promise!Keep(q)
    BY DEF Promise!Keep, Promise!Ledger, Calm, holder, Holders
  <2>7. RowInv(q)'
    BY <1>1, <2>3, <2>4, <2>5, RestsNext
  <2> QED
    BY <2>6, <2>7 DEF RowStep
<1> QED
  <2>1. TypeInv'
    BY <1>1, <1>2 DEF Calm, TypeInv, DoingType
  <2>2. \A r \in CRows \ disputed' : RowStep(r)
    BY <1>3, <1>4
  <2> QED
    BY <2>1, <2>2 DEF Stepped, Calm

LEMMA HandlerType ==
  ASSUME TypeInv, NEW h \in Callers, doing[h].op # "idle"
  PROVE  /\ doing[h].row \in CRows /\ doing[h].who \in Chars /\ doing[h].slot \in SlotsOrNone
         /\ doing[h].op \in SlotOps => doing[h].slot \in CSlots
         /\ NoFree \in SlotsOrNone /\ NoFree \notin CSlots /\ CSlots \subseteq SlotsOrNone
         /\ "idle" \in Ops /\ "idle" \notin SlotOps /\ SlotOps \subseteq Ops
  BY ConsignmentAssumption DEF TypeInv, Handler, SlotsOrNone, Ops, SlotOps

LEMMA CreateListingStep == ASSUME CInv, NEW h \in Callers, CreateListing(h) PROVE Stepped
<1>1. PICK q \in CRows, c \in Chars, s \in CSlots :
        doing[h].row = q /\ doing[h].who = c /\ doing[h].slot = s
  BY HandlerType DEF CreateListing, CInv, SlotOps
<1>2. /\ doing[h].op = "counted" /\ TypeInv
      /\ UNCHANGED <<bag, rowOf, writes, trading, paid, received, depositor, disputed, calls>>
  BY DEF CreateListing, CInv
<1>3. CASE Becomes(h, "idle", NoFree) /\ UNCHANGED listing
  <2>1. Calm
    BY <1>2, <1>3 DEF Calm
  <2>2. AtWork(q, doing[h].op, doing[h].who, doing[h].slot) => RestInv(q)
    BY <1>2 DEF AtWork, RestInv
  <2> QED
    BY <1>1, <1>2, <1>3, <2>1, <2>2, GivesUp
<1>4. CASE /\ Becomes(h, "created", s) /\ listing[q] = NotListed
           /\ listing' = [listing EXCEPT ![q] = [seller |-> c, sold |-> FALSE]]
  <2>1. TypeInv'
    <3>1. DoingType'
      BY <1>1, <1>2, <1>4, HandlerType, BecomesType DEF SlotOps
    <3> QED
      BY <1>2, <1>4, <3>1 DEF TypeInv, DoingType
  <2>2. ASSUME NEW r \in CRows \ disputed', r # q PROVE RowStep(r)
    <3>1. Same(r)
      BY <1>1, <1>2, <1>4, <2>2, HandlerType, OtherHandler DEF Same, Stays, SlotOps, TypeInv
    <3> QED
      BY <1>2, <2>2, <3>1, SameStep DEF CInv, RowsInv
  <2>3. ASSUME q \notin disputed' PROVE RowStep(q)
    <3>1. RowInv(q)
      BY <1>2, <2>3 DEF CInv, RowsInv
    <3>2. In(q, c, s) /\ Home(q) /\ Unlisted(q) /\ OneHolder(q) /\ ~Awaited(q)
      <4>1. AtWork(q, "counted", c, s) /\ OneHolder(q) /\ ~Awaited(q)
        BY <1>1, <1>2, <3>1, OwnHandler
      <4>2. ~SoldOff(q)
        BY <1>4 DEF SoldOff, NotListed
      <4> QED
        BY <4>1, <4>2 DEF AtWork
    <3>3. /\ doing'[h].row = q /\ doing'[h].op = "created" /\ doing'[h].who = c /\ doing'[h].slot = s
          /\ \A k \in Callers : k # h => doing'[k].row # q
      BY <1>1, <1>2, <1>4, <3>1, OwnHandler, BecomesEffect, HandlerType DEF SlotOps
    <3>4. /\ In(q, c, s)' /\ Home(q)' /\ ~Owed(q)' /\ OneHolder(q)' /\ ~Awaited(q)'
          /\ Listed(q)' /\ listing'[q].seller = c
      BY <1>2, <1>4, <3>2 DEF In, Home, Owed, Unlisted, OneHolder, Awaited, Listed, TypeInv
    <3>5. WorkInv(q, h)'
      BY <3>3, <3>4 DEF WorkInv, AtWork
    <3>6. RowInv(q)'
      BY <1>2, <3>1, <3>3, <3>4, <3>5, WorksNext DEF RowInv
    <3>7. Promise!Keep(q)
      BY <1>2 DEF Promise!Keep, Promise!Ledger, holder, Holders
    <3> QED
      BY <3>6, <3>7 DEF RowStep
  <2> QED
    BY <1>2, <2>1, <2>2, <2>3 DEF Stepped
<1> QED
  BY <1>1, <1>3, <1>4 DEF CreateListing

LEMMA ParkForSaleStep == ASSUME CInv, NEW h \in Callers, ParkForSale(h) PROVE Stepped
<1>1. PICK q \in CRows, c \in Chars, s \in CSlots :
        doing[h].row = q /\ doing[h].who = c /\ doing[h].slot = s
  BY HandlerType DEF ParkForSale, CInv, SlotOps
<1>2. /\ doing[h].op = "created" /\ TypeInv /\ Becomes(h, "written", s)
      /\ rowOf' = WriteRow(bag[c][s], c, NoFree)
      /\ disputed' = disputed \cup ({bag[c][s]} \ {q, NoCRow})
      /\ UNCHANGED <<bag, listing, writes, trading, paid, received, depositor, calls>>
  BY <1>1 DEF ParkForSale, CInv
<1>3. bag[c][s] \in CRows \cup {NoCRow} /\ NoFree \in SlotsOrNone
  BY <1>2 DEF TypeInv, SlotsOrNone
<1>4. TypeInv'
  <2>1. DoingType'
    BY <1>1, <1>2, HandlerType, BecomesType DEF SlotOps
  <2>2. rowOf' \in [CRows -> [owner : Chars \cup {NoChar}, slot : SlotsOrNone \cup {NoCRow}]]
    BY <1>2, <1>3, WriteRowType
  <2> QED
    BY <1>2, <1>3, <2>1, <2>2 DEF TypeInv, DoingType
<1>5. ASSUME NEW r \in CRows \ disputed', r # q PROVE RowStep(r)
  <2>1. rowOf'[r] = rowOf[r]
    BY <1>2, <1>3, <1>5, ConsignmentAssumption DEF WriteRow, TypeInv
  <2>2. Same(r)
    BY <1>1, <1>2, <1>5, <2>1, HandlerType, OtherHandler DEF Same, Stays, SlotOps
  <2> QED
    BY <1>2, <1>5, <2>2, SameStep DEF CInv, RowsInv
<1>6. ASSUME q \notin disputed' PROVE RowStep(q)
  <2>1. RowInv(q)
    BY <1>2, <1>6 DEF CInv, RowsInv
  <2>2. /\ In(q, c, s) /\ Home(q) /\ Listed(q) /\ listing[q].seller = c /\ ~Owed(q)
        /\ OneHolder(q) /\ ~Awaited(q)
    BY <1>1, <1>2, <2>1, OwnHandler DEF AtWork
  <2>3. /\ doing'[h].row = q /\ doing'[h].op = "written" /\ doing'[h].who = c /\ doing'[h].slot = s
        /\ \A k \in Callers : k # h => doing'[k].row # q
    BY <1>1, <1>2, <2>1, OwnHandler, BecomesEffect, HandlerType DEF SlotOps
  <2>4. rowOf'[q] = [owner |-> c, slot |-> NoFree]
    <3>1. rowOf[q] # Deleted
      BY <2>2, ConsignmentAssumption DEF Home, Deleted
    <3> QED
      BY <1>2, <2>2, <3>1, ConsignmentAssumption DEF WriteRow, In, TypeInv
  <2>5. /\ In(q, c, s)' /\ Listed(q)' /\ listing'[q].seller = c /\ ~Owed(q)'
        /\ OneHolder(q)' /\ ~Awaited(q)'
    BY <1>2, <2>2 DEF In, Listed, Owed, OneHolder, Awaited
  <2>6. WorkInv(q, h)'
    BY <2>3, <2>4, <2>5 DEF WorkInv, AtWork
  <2>7. RowInv(q)'
    BY <1>2, <2>1, <2>3, <2>5, <2>6, WorksNext DEF RowInv
  <2>8. holder'[q] = holder[q]
    BY <2>2, <2>5, HeldBy, HeldByNext DEF In
  <2>9. Promise!Keep(q)
    BY <1>2, <2>8 DEF Promise!Keep, Promise!Ledger
  <2> QED
    BY <2>7, <2>9 DEF RowStep
<1> QED
  BY <1>2, <1>4, <1>5, <1>6 DEF Stepped

LEMMA EmptySlotStep == ASSUME CInv, NEW h \in Callers, EmptySlot(h) PROVE Stepped
<1>1. PICK q \in CRows, c \in Chars, s \in CSlots :
        doing[h].row = q /\ doing[h].who = c /\ doing[h].slot = s
  BY HandlerType DEF EmptySlot, CInv, SlotOps
<1>2. /\ doing[h].op \in {"written", "removed"} /\ TypeInv /\ Becomes(h, "idle", NoFree)
      /\ bag' = [bag EXCEPT ![c][s] = NoCRow]
      /\ depositor' = IF doing[h].op = "written" THEN [depositor EXCEPT ![q] = c] ELSE depositor
      /\ disputed' = IF bag[c][s] # q THEN disputed \cup ({q, bag[c][s]} \ {NoCRow}) ELSE disputed
      /\ UNCHANGED <<rowOf, listing, writes, trading, paid, received, calls>>
  BY <1>1 DEF EmptySlot, CInv
<1>3. bag[c][s] \in CRows \cup {NoCRow} /\ NoFree \in SlotsOrNone
  BY <1>2 DEF TypeInv, SlotsOrNone
<1>4. TypeInv'
  <2>1. DoingType'
    BY <1>1, <1>2, HandlerType, BecomesType DEF SlotOps
  <2>2. /\ bag' \in [Chars -> [CSlots -> CRows \cup {NoCRow}]]
        /\ depositor' \in [CRows -> Chars \cup {NoChar}]
    BY <1>2 DEF TypeInv
  <2> QED
    BY <1>2, <1>3, <2>1, <2>2 DEF TypeInv, DoingType
<1>5. ASSUME NEW r \in CRows \ disputed', r # q PROVE RowStep(r)
  <2>1. bag[c][s] # r
    BY <1>2, <1>5, ConsignmentAssumption
  <2>2. Same(r)
    BY <1>1, <1>2, <1>5, <2>1, HandlerType, OtherHandler, ConsignmentAssumption DEF Same, Stays, SlotOps, TypeInv
  <2> QED
    BY <1>2, <1>5, <2>2, SameStep DEF CInv, RowsInv
<1>6. ASSUME q \notin disputed' PROVE RowStep(q)
  <2>1. RowInv(q) /\ bag[c][s] = q
    BY <1>2, <1>6, ConsignmentAssumption DEF CInv, RowsInv
  <2>2. OneHolder(q) /\ ~Awaited(q) /\ AtWork(q, doing[h].op, c, s)
    BY <1>1, <1>2, <2>1, OwnHandler
  <2>3. Away(q)' /\ OneHolder(q)' /\ ~Awaited(q)' /\ ~Worked(q)' /\ (Owed(q)' <=> Owed(q))
    <3>1. Away(q)'
      BY <1>2, <2>1, <2>2, ConsignmentAssumption DEF Away, OneHolder, TypeInv
    <3> QED
      BY <1>1, <1>2, <1>3, <2>1, <2>2, <3>1, IdleNext DEF Away, OneHolder, Awaited, Owed
  <2>4. CASE doing[h].op = "written"
    <3>1. rowOf[q] = [owner |-> c, slot |-> NoFree] /\ Listed(q) /\ listing[q].seller = c /\ ~Owed(q)
      BY <2>2, <2>4 DEF AtWork
    <3>2. depositor'[q] = c
      BY <1>2, <2>4 DEF TypeInv
    <3>3. RestInv(q)'
      BY <1>2, <2>3, <3>1, <3>2 DEF RestInv, OnSale, Stored, Listed
    <3>4. holder[q] = c /\ holder'[q] = Custody
      BY <1>2, <2>1, <2>2, <2>3, <3>1, HeldBy, NotHeldNext, ConsignmentAssumption
    <3>5. Promise!Deposit(q)
      BY <1>2, <3>1, <3>2, <3>4 DEF Promise!Deposit, Promise!Owed, Owed
    <3> QED
      BY <1>2, <2>1, <2>3, <3>3, <3>5, RestsNext DEF RowStep, RowInv
  <2>5. CASE doing[h].op = "removed"
    <3>1. rowOf[q].owner = NoChar /\ (Unlisted(q) \/ SoldOff(q))
      BY <2>2, <2>5 DEF AtWork
    <3>2. RestInv(q)'
      BY <1>2, <2>3, <3>1 DEF RestInv, Vanished, Unlisted, SoldOff
    <3>3. holder[q] = c /\ holder'[q] = Nowhere
      BY <1>2, <2>1, <2>2, <2>3, <3>1, HeldBy, NotHeldNext
    <3>4. Promise!Discard(q)
      BY <1>2, <2>5, <3>3 DEF Promise!Discard, Promise!Ledger
    <3> QED
      BY <1>2, <2>1, <2>3, <3>2, <3>4, RestsNext DEF RowStep, RowInv
  <2> QED
    BY <1>2, <2>4, <2>5
<1> QED
  BY <1>2, <1>4, <1>5, <1>6 DEF Stepped

LEMMA WriteBoughtStep == ASSUME CInv, NEW h \in Callers, WriteBought(h) PROVE Stepped
<1>1. PICK q \in CRows, c \in Chars : doing[h].row = q /\ doing[h].who = c
  BY HandlerType DEF WriteBought, CInv
<1>2. /\ doing[h].op = "buy" /\ TypeInv
      /\ UNCHANGED <<bag, listing, writes, trading, paid, received, depositor, disputed, calls>>
  BY DEF WriteBought, CInv
<1>3. CASE Becomes(h, "idle", NoFree) /\ UNCHANGED rowOf
  <2>1. Calm
    BY <1>2, <1>3 DEF Calm
  <2>2. AtWork(q, doing[h].op, doing[h].who, doing[h].slot) => RestInv(q)
    BY <1>2 DEF AtWork, RestInv
  <2> QED
    BY <1>1, <1>2, <1>3, <2>1, <2>2, GivesUp
<1>4. CASE \E s \in FreeSlot(c) : Becomes(h, "bought", s) /\ rowOf' = WriteRow(q, c, s)
  <2>1. PICK s \in SlotsOrNone : Becomes(h, "bought", s) /\ rowOf' = WriteRow(q, c, s)
    BY <1>4 DEF FreeSlot, HasFree, SlotsOrNone
  <2>2. "bought" \in Ops /\ "bought" \notin SlotOps
    BY DEF Ops, SlotOps
  <2>3. TypeInv'
    <3>1. DoingType'
      BY <1>1, <1>2, <2>1, <2>2, BecomesType
    <3>2. rowOf' \in [CRows -> [owner : Chars \cup {NoChar}, slot : SlotsOrNone \cup {NoCRow}]]
      BY <1>2, <2>1, WriteRowType
    <3> QED
      BY <1>2, <3>1, <3>2 DEF TypeInv, DoingType
  <2>4. ASSUME NEW r \in CRows \ disputed', r # q PROVE RowStep(r)
    <3>1. rowOf'[r] = rowOf[r]
      BY <1>2, <2>1, <2>4 DEF WriteRow, TypeInv
    <3>2. Same(r)
      BY <1>1, <1>2, <2>1, <2>2, <2>4, <3>1, OtherHandler DEF Same, Stays
    <3> QED
      BY <1>2, <2>4, <3>2, SameStep DEF CInv, RowsInv
  <2>5. ASSUME q \notin disputed' PROVE RowStep(q)
    <3>1. RowInv(q)
      BY <1>2, <2>5 DEF CInv, RowsInv
    <3>2. Stored(q) /\ OnSale(q) /\ OneHolder(q) /\ ~Awaited(q)
      BY <1>1, <1>2, <3>1, OwnHandler DEF AtWork
    <3>3. /\ doing'[h].row = q /\ doing'[h].op = "bought" /\ doing'[h].who = c /\ doing'[h].slot = s
          /\ \A k \in Callers : k # h => doing'[k].row # q
      BY <1>1, <1>2, <2>1, <2>2, <3>1, OwnHandler, BecomesEffect
    <3>4. rowOf'[q] = [owner |-> c, slot |-> s]
      <4>1. rowOf[q] # Deleted
        BY <3>2, ConsignmentAssumption DEF Stored, Deleted
      <4> QED
        BY <1>2, <2>1, <4>1, ConsignmentAssumption DEF WriteRow, TypeInv
    <3>5. Away(q)' /\ OnSale(q)' /\ OneHolder(q)' /\ ~Awaited(q)'
      BY <1>2, <3>2 DEF Stored, Away, OnSale, Listed, Owed, OneHolder, Awaited
    <3>6. WorkInv(q, h)'
      BY <3>3, <3>4, <3>5 DEF WorkInv, AtWork
    <3>7. RowInv(q)'
      BY <1>2, <3>1, <3>3, <3>5, <3>6, WorksNext DEF RowInv
    <3>8. holder[q] = Custody /\ holder'[q] = Custody
      BY <3>2, <3>4, <3>5, NotHeld, NotHeldNext, ConsignmentAssumption DEF Stored
    <3>9. Promise!Keep(q)
      BY <1>2, <3>8 DEF Promise!Keep, Promise!Ledger
    <3> QED
      BY <3>7, <3>9 DEF RowStep
  <2> QED
    BY <1>2, <2>3, <2>4, <2>5 DEF Stepped
<1> QED
  BY <1>1, <1>3, <1>4 DEF WriteBought

LEMMA WriteReturnedStep == ASSUME CInv, NEW h \in Callers, WriteReturned(h) PROVE Stepped
<1>1. PICK q \in CRows, c \in Chars : doing[h].row = q /\ doing[h].who = c
  BY HandlerType DEF WriteReturned, CInv
<1>2. /\ doing[h].op = "cancel" /\ TypeInv
      /\ UNCHANGED <<bag, listing, writes, trading, paid, received, depositor, disputed, calls>>
  BY DEF WriteReturned, CInv
<1>3. CASE Becomes(h, "idle", NoFree) /\ UNCHANGED rowOf
  <2>1. Calm
    BY <1>2, <1>3 DEF Calm
  <2>2. AtWork(q, doing[h].op, doing[h].who, doing[h].slot) => RestInv(q)
    BY <1>2 DEF AtWork, RestInv
  <2> QED
    BY <1>1, <1>2, <1>3, <2>1, <2>2, GivesUp
<1>4. CASE \E s \in FreeSlot(c) : Becomes(h, "returned", s) /\ rowOf' = WriteRow(q, c, s)
  <2>1. PICK s \in SlotsOrNone : Becomes(h, "returned", s) /\ rowOf' = WriteRow(q, c, s)
    BY <1>4 DEF FreeSlot, HasFree, SlotsOrNone
  <2>2. "returned" \in Ops /\ "returned" \notin SlotOps
    BY DEF Ops, SlotOps
  <2>3. TypeInv'
    <3>1. DoingType'
      BY <1>1, <1>2, <2>1, <2>2, BecomesType
    <3>2. rowOf' \in [CRows -> [owner : Chars \cup {NoChar}, slot : SlotsOrNone \cup {NoCRow}]]
      BY <1>2, <2>1, WriteRowType
    <3> QED
      BY <1>2, <3>1, <3>2 DEF TypeInv, DoingType
  <2>4. ASSUME NEW r \in CRows \ disputed', r # q PROVE RowStep(r)
    <3>1. rowOf'[r] = rowOf[r]
      BY <1>2, <2>1, <2>4 DEF WriteRow, TypeInv
    <3>2. Same(r)
      BY <1>1, <1>2, <2>1, <2>2, <2>4, <3>1, OtherHandler DEF Same, Stays
    <3> QED
      BY <1>2, <2>4, <3>2, SameStep DEF CInv, RowsInv
  <2>5. ASSUME q \notin disputed' PROVE RowStep(q)
    <3>1. RowInv(q)
      BY <1>2, <2>5 DEF CInv, RowsInv
    <3>2. Stored(q) /\ OnSale(q) /\ listing[q].seller = c /\ OneHolder(q) /\ ~Awaited(q)
      BY <1>1, <1>2, <3>1, OwnHandler DEF AtWork
    <3>3. /\ doing'[h].row = q /\ doing'[h].op = "returned" /\ doing'[h].who = c /\ doing'[h].slot = s
          /\ \A k \in Callers : k # h => doing'[k].row # q
      BY <1>1, <1>2, <2>1, <2>2, <3>1, OwnHandler, BecomesEffect
    <3>4. rowOf'[q] = [owner |-> c, slot |-> s]
      <4>1. rowOf[q] # Deleted
        BY <3>2, ConsignmentAssumption DEF Stored, Deleted
      <4> QED
        BY <1>2, <2>1, <4>1, ConsignmentAssumption DEF WriteRow, TypeInv
    <3>5. Away(q)' /\ OnSale(q)' /\ OneHolder(q)' /\ ~Awaited(q)' /\ listing'[q].seller = c
      BY <1>2, <3>2 DEF Stored, Away, OnSale, Listed, Owed, OneHolder, Awaited
    <3>6. WorkInv(q, h)'
      BY <3>3, <3>4, <3>5 DEF WorkInv, AtWork
    <3>7. RowInv(q)'
      BY <1>2, <3>1, <3>3, <3>5, <3>6, WorksNext DEF RowInv
    <3>8. holder[q] = Custody /\ holder'[q] = Custody
      BY <3>2, <3>4, <3>5, NotHeld, NotHeldNext, ConsignmentAssumption DEF Stored
    <3>9. Promise!Keep(q)
      BY <1>2, <3>8 DEF Promise!Keep, Promise!Ledger
    <3> QED
      BY <3>7, <3>9 DEF RowStep
  <2> QED
    BY <1>2, <2>3, <2>4, <2>5 DEF Stepped
<1> QED
  BY <1>1, <1>3, <1>4 DEF WriteReturned

LEMMA PlaceItemStep == ASSUME CInv, NEW h \in Callers, PlaceItem(h) PROVE Stepped
<1>1. PICK q \in CRows, c \in Chars, s \in SlotsOrNone :
        doing[h].row = q /\ doing[h].who = c /\ doing[h].slot = s
  BY HandlerType DEF PlaceItem, CInv
<1>2. /\ doing[h].op \in {"bought", "returned"} /\ TypeInv /\ Becomes(h, "idle", NoFree)
      /\ bag' = IF s # NoFree THEN [bag EXCEPT ![c][s] = q] ELSE bag
      /\ disputed' = IF s # NoFree /\ bag[c][s] # NoCRow THEN disputed \cup {q, bag[c][s]} ELSE disputed
      /\ paid' = IF doing[h].op = "bought" /\ HasPlace(s) THEN [paid EXCEPT ![q] = @ + 1] ELSE paid
      /\ writes' = IF s = NoFree THEN writes
                   ELSE writes \cup {Write(IF doing[h].op = "bought" THEN "sold" ELSE "delete", q)}
      /\ UNCHANGED <<rowOf, listing, trading, received, depositor, calls>>
  BY <1>1 DEF PlaceItem, CInv
<1>3. NoFree \in SlotsOrNone /\ (s # NoFree => s \in CSlots /\ bag[c][s] \in CRows \cup {NoCRow})
  BY <1>2 DEF TypeInv, SlotsOrNone
<1>4. TypeInv'
  <2>1. DoingType'
    BY <1>1, <1>2, HandlerType, BecomesType
  <2>2. /\ bag' \in [Chars -> [CSlots -> CRows \cup {NoCRow}]]
        /\ paid' \in [CRows -> Nat]
    BY <1>2, <1>3 DEF TypeInv
  <2>3. writes' \subseteq [op : {"sold", "delete"}, row : CRows] /\ disputed' \subseteq CRows
    BY <1>2, <1>3 DEF TypeInv, Write
  <2> QED
    BY <1>2, <2>1, <2>2, <2>3 DEF TypeInv, DoingType
<1>5. ASSUME NEW r \in CRows \ disputed', r # q PROVE RowStep(r)
  <2>1. s # NoFree => bag[c][s] # r
    BY <1>2, <1>5, ConsignmentAssumption
  <2>2. Stays(r) /\ paid'[r] = paid[r] /\ \A w : w.row = r => (w \in writes' <=> w \in writes)
    BY <1>2, <1>3, <1>5, <2>1, ConsignmentAssumption DEF Stays, TypeInv, Write
  <2>3. Same(r)
    BY <1>1, <1>2, <1>5, <2>2, HandlerType, OtherHandler DEF Same
  <2> QED
    BY <1>2, <1>5, <2>3, SameStep DEF CInv, RowsInv
<1>6. ASSUME q \notin disputed' PROVE RowStep(q)
  <2>1. RowInv(q)
    BY <1>2, <1>6 DEF CInv, RowsInv
  <2>2. /\ Away(q) /\ rowOf[q] = [owner |-> c, slot |-> s] /\ OnSale(q) /\ ~Awaited(q)
        /\ doing[h].op = "returned" => listing[q].seller = c
    BY <1>1, <1>2, <2>1, OwnHandler DEF AtWork
  <2>3. ~Worked(q)' /\ holder[q] = Custody
    BY <1>1, <1>2, <1>3, <2>1, <2>2, IdleNext, NotHeld, ConsignmentAssumption
  <2>4. CASE s = NoFree
    <3>1. UNCHANGED <<bag, paid, writes>>
      BY <1>2, <2>4 DEF HasPlace
    <3>2. RestInv(q)' /\ OneHolder(q)' /\ ~Awaited(q)' /\ Away(q)'
      BY <1>2, <2>2, <2>4, <3>1 DEF RestInv, OnSale, Stored, Away, Listed, Owed, OneHolder, Awaited
    <3>3. holder'[q] = Custody
      BY <1>2, <2>2, <3>2, NotHeldNext, ConsignmentAssumption
    <3>4. Promise!Keep(q)
      BY <1>2, <2>3, <3>1, <3>3 DEF Promise!Keep, Promise!Ledger
    <3> QED
      BY <1>2, <2>1, <2>3, <3>1, <3>2, <3>4, RestsNext DEF RowStep, RowInv
  <2>5. CASE s # NoFree
    <3>1. /\ bag'[c][s] = q /\ OneHolder(q)' /\ Home(q)'
      BY <1>2, <1>3, <2>2, <2>5 DEF Away, OneHolder, Home, TypeInv
    <3>2. holder'[q] = c
      BY <1>3, <2>5, <3>1, HeldByNext
    <3>3. CASE doing[h].op = "bought"
      <4> DEFINE w == Write("sold", q)
      <4>1. w \in writes' /\ w.row = q /\ w.op = "sold" /\ \A v \in writes' : v.row = q <=> v = w
        BY <1>2, <2>2, <2>5, <3>3 DEF Write, Awaited
      <4>2. paid'[q] = paid[q] + 1 /\ paid[q] = received[q] /\ received'[q] = received[q] /\ received[q] \in Nat
        BY <1>2, <2>2, <2>5, <3>3 DEF HasPlace, TypeInv, OnSale, Owed
      <4>3. Owed(q)' /\ Listed(q)'
        BY <1>2, <2>2, <4>2 DEF Owed, OnSale, Listed
      <4>4. WriteInv(q, w)'
        BY <3>1, <4>1, <4>3 DEF WriteInv
      <4>5. Promise!Take(q)
        BY <1>2, <2>3, <3>2, <4>2 DEF Promise!Take, Promise!Owed
      <4>6. RowInv(q)'
        BY <2>3, <3>1, <4>1, <4>2, <4>4, AwaitsNext
      <4> QED
        BY <4>5, <4>6 DEF RowStep
    <3>4. CASE doing[h].op = "returned"
      <4> DEFINE w == Write("delete", q)
      <4>1. w \in writes' /\ w.row = q /\ w.op = "delete" /\ \A v \in writes' : v.row = q <=> v = w
        BY <1>2, <2>2, <2>5, <3>4 DEF Write, Awaited
      <4>2. paid' = paid /\ paid[q] = received[q]
        BY <1>2, <2>2, <3>4 DEF OnSale, Owed
      <4>3. ~Owed(q)'
        BY <1>2, <4>2 DEF Owed
      <4>4. WriteInv(q, w)'
        BY <3>1, <4>1, <4>3 DEF WriteInv
      <4>5. Promise!Return(q)
        BY <1>2, <2>2, <2>3, <3>2, <3>4, <4>2 DEF Promise!Return, Promise!Owed, Promise!Ledger, OnSale
      <4>6. RowInv(q)'
        BY <1>2, <2>3, <3>1, <4>1, <4>2, <4>4, AwaitsNext
      <4> QED
        BY <4>5, <4>6 DEF RowStep
    <3> QED
      BY <1>2, <3>3, <3>4
  <2> QED
    BY <2>4, <2>5
<1> QED
  BY <1>2, <1>4, <1>5, <1>6 DEF Stepped

LEMMA PaySellerStep == ASSUME CInv, NEW h \in Callers, PaySeller(h) PROVE Stepped
<1>1. PICK q \in CRows : doing[h].row = q
  BY HandlerType DEF PaySeller, CInv
<1>2. /\ doing[h].op = "claim" /\ TypeInv /\ Becomes(h, "idle", NoFree)
      /\ UNCHANGED <<bag, listing, trading, paid, depositor, disputed, calls>>
  BY DEF PaySeller, CInv
<1>3. CASE UNCHANGED <<received, rowOf, writes>>
  <2>1. Calm
    BY <1>2, <1>3 DEF Calm
  <2>2. AtWork(q, doing[h].op, doing[h].who, doing[h].slot) => RestInv(q)
    BY <1>2 DEF AtWork, RestInv
  <2> QED
    BY <1>1, <1>2, <2>1, <2>2, GivesUp
<1>4. CASE /\ received' = [received EXCEPT ![q] = @ + 1]
           /\ rowOf' = IF rowOf[q].owner = NoChar THEN [rowOf EXCEPT ![q] = Deleted] ELSE rowOf
           /\ writes' = writes \cup {Write("delete", q)}
  <2>1. TypeInv'
    <3>1. DoingType'
      BY <1>1, <1>2, HandlerType, BecomesType
    <3>2. /\ received' \in [CRows -> Nat] /\ writes' \subseteq [op : {"sold", "delete"}, row : CRows]
          /\ rowOf' \in [CRows -> [owner : Chars \cup {NoChar}, slot : SlotsOrNone \cup {NoCRow}]]
      BY <1>2, <1>4 DEF TypeInv, Write, Deleted
    <3> QED
      BY <1>2, <3>1, <3>2 DEF TypeInv, DoingType
  <2>2. ASSUME NEW r \in CRows \ disputed', r # q PROVE RowStep(r)
    <3>1. /\ Stays(r) /\ received'[r] = received[r]
          /\ \A w : w.row = r => (w \in writes' <=> w \in writes)
      BY <1>2, <1>4, <2>2 DEF Stays, TypeInv, Write
    <3>2. Same(r)
      BY <1>1, <1>2, <2>2, <3>1, HandlerType, OtherHandler DEF Same
    <3> QED
      BY <1>2, <2>2, <3>2, SameStep DEF CInv, RowsInv
  <2>3. ASSUME q \notin disputed' PROVE RowStep(q)
    <3> DEFINE w == Write("delete", q)
    <3>1. RowInv(q)
      BY <1>2, <2>3 DEF CInv, RowsInv
    <3>2. SoldOff(q) /\ (Home(q) \/ Vanished(q)) /\ OneHolder(q) /\ ~Awaited(q) /\ ~Worked(q)'
      BY <1>1, <1>2, <3>1, OwnHandler, IdleNext, HandlerType DEF AtWork
    <3>3. received'[q] = received[q] + 1 /\ paid'[q] = received'[q] /\ Owed(q)
      BY <1>2, <1>4, <3>1, <3>2 DEF TypeInv, RowInv, SoldOff, Owed
    <3>4. w \in writes' /\ w.row = q /\ w.op = "delete" /\ \A v \in writes' : v.row = q <=> v = w
      BY <1>4, <3>2 DEF Write, Awaited
    <3>5. (Home(q)' \/ Vanished(q)') /\ OneHolder(q)' /\ ~Owed(q)' /\ holder'[q] = holder[q]
      <4>1. CASE Home(q)
        <5>1. Stays(q)
          BY <1>2, <1>4, <4>1, ConsignmentAssumption DEF Home, Stays
        <5> QED
          BY <1>2, <3>2, <3>3, <4>1, <5>1, StaysHeld DEF Stays, Home, OneHolder, Owed
      <4>2. CASE Vanished(q)
        <5>1. Vanished(q)'
          BY <1>2, <1>4, <4>2 DEF Vanished, Away, TypeInv, Deleted
        <5> QED
          BY <1>2, <3>2, <3>3, <4>2, <5>1, NotHeld, NotHeldNext DEF Vanished, OneHolder, Owed
      <4> QED
        BY <3>2, <4>1, <4>2
    <3>6. WriteInv(q, w)'
      BY <3>4, <3>5 DEF WriteInv
    <3>7. Promise!Settle(q)
      BY <1>2, <3>3, <3>5 DEF Promise!Settle, Promise!Owed, Owed
    <3>8. RowInv(q)'
      BY <3>2, <3>3, <3>4, <3>5, <3>6, AwaitsNext
    <3> QED
      BY <3>7, <3>8 DEF RowStep
  <2> QED
    BY <1>2, <2>1, <2>2, <2>3 DEF Stepped
<1> QED
  BY <1>1, <1>3, <1>4 DEF PaySeller

LEMMA WriteRemovedStep == ASSUME CInv, NEW h \in Callers, WriteRemoved(h) PROVE Stepped
<1>1. PICK q \in CRows, c \in Chars, s \in CSlots :
        doing[h].row = q /\ doing[h].who = c /\ doing[h].slot = s
  BY HandlerType DEF WriteRemoved, CInv, SlotOps
<1>2. /\ doing[h].op \in {"park", "delete"} /\ TypeInv /\ Becomes(h, "removed", s)
      /\ rowOf' = IF doing[h].op = "delete" THEN [rowOf EXCEPT ![q] = Deleted]
                  ELSE WriteRow(q, NoChar, s)
      /\ UNCHANGED <<bag, listing, writes, trading, paid, received, depositor, disputed, calls>>
  BY <1>1 DEF WriteRemoved, CInv
<1>3. "removed" \in Ops /\ "removed" \in SlotOps /\ s \in SlotsOrNone
  BY DEF Ops, SlotOps, SlotsOrNone
<1>4. TypeInv'
  <2>1. DoingType'
    BY <1>1, <1>2, <1>3, HandlerType, BecomesType
  <2>2. rowOf' \in [CRows -> [owner : Chars \cup {NoChar}, slot : SlotsOrNone \cup {NoCRow}]]
    BY <1>2, <1>3, WriteRowType DEF TypeInv, Deleted
  <2> QED
    BY <1>2, <2>1, <2>2 DEF TypeInv, DoingType
<1>5. ASSUME NEW r \in CRows \ disputed', r # q PROVE RowStep(r)
  <2>1. rowOf'[r] = rowOf[r]
    BY <1>2, <1>5 DEF WriteRow, TypeInv
  <2>2. Same(r)
    BY <1>1, <1>2, <1>3, <1>5, <2>1, OtherHandler DEF Same, Stays
  <2> QED
    BY <1>2, <1>5, <2>2, SameStep DEF CInv, RowsInv
<1>6. ASSUME q \notin disputed' PROVE RowStep(q)
  <2>1. RowInv(q)
    BY <1>2, <1>6 DEF CInv, RowsInv
  <2>2. In(q, c, s) /\ Home(q) /\ (Unlisted(q) \/ SoldOff(q)) /\ OneHolder(q) /\ ~Awaited(q)
    BY <1>1, <1>2, <2>1, OwnHandler DEF AtWork
  <2>3. /\ doing'[h].row = q /\ doing'[h].op = "removed" /\ doing'[h].who = c /\ doing'[h].slot = s
        /\ \A k \in Callers : k # h => doing'[k].row # q
    BY <1>1, <1>2, <1>3, <2>1, OwnHandler, BecomesEffect DEF SlotOps
  <2>4. rowOf'[q].owner = NoChar
    <3>1. rowOf[q] # Deleted /\ q # NoCRow
      BY <2>2, ConsignmentAssumption DEF Home, Deleted
    <3> QED
      BY <1>2, <3>1 DEF WriteRow, TypeInv, Deleted
  <2>5. In(q, c, s)' /\ (Unlisted(q)' \/ SoldOff(q)') /\ OneHolder(q)' /\ ~Awaited(q)'
    BY <1>2, <2>2 DEF In, Unlisted, SoldOff, Owed, OneHolder, Awaited
  <2>6. WorkInv(q, h)'
    BY <2>3, <2>4, <2>5 DEF WorkInv, AtWork
  <2>7. RowInv(q)'
    BY <1>2, <2>1, <2>3, <2>5, <2>6, WorksNext DEF RowInv
  <2>8. holder'[q] = holder[q]
    BY <2>2, <2>5, HeldBy, HeldByNext DEF In
  <2>9. Promise!Keep(q)
    BY <1>2, <2>8 DEF Promise!Keep, Promise!Ledger
  <2> QED
    BY <2>7, <2>9 DEF RowStep
<1> QED
  BY <1>2, <1>4, <1>5, <1>6 DEF Stepped

---------------------------------------------------------------------------
\* What happens without a handler.
LEMMA NoHandlerSame ==
  ASSUME NEW r \in CRows, Stays(r), UNCHANGED <<listing, doing, writes, paid, received, depositor>>
  PROVE  Same(r)
  BY DEF Same

LEMMA WriteListingStep == ASSUME CInv, WriteListing PROVE Stepped
<1>1. PICK w \in writes :
        /\ listing' = [listing EXCEPT ![w.row] = Written(w)]
        /\ writes' = writes \ {w}
  BY DEF WriteListing
<1>2. UNCHANGED <<bag, rowOf, doing, trading, paid, received, depositor, disputed, calls>> /\ TypeInv
  BY DEF WriteListing, CInv
<1>3. PICK q \in CRows : w.row = q /\ w.op \in {"sold", "delete"}
  BY <1>1, <1>2 DEF TypeInv
<1>4. TypeInv'
  <2>1. Written(w) \in [seller : Chars \cup {NoChar}, sold : BOOLEAN]
    BY <1>2, <1>3, ZenonT(60) DEF TypeInv, Written, NotListed
  <2> QED
    BY <1>1, <1>2, <1>3, <2>1 DEF TypeInv
<1>5. ASSUME NEW r \in CRows \ disputed', r # q PROVE RowStep(r)
  <2>1. Same(r)
    BY <1>1, <1>2, <1>3, <1>5 DEF Same, Stays, TypeInv
  <2> QED
    BY <1>2, <1>5, <2>1, SameStep DEF CInv, RowsInv
<1>6. ASSUME q \notin disputed' PROVE RowStep(q)
  <2>1. RowInv(q)
    BY <1>2, <1>6 DEF CInv, RowsInv
  <2>2. WriteInv(q, w) /\ ~Worked(q) /\ \A v \in writes : v.row = q => v = w
    BY <1>1, <1>3, <2>1 DEF RowInv, Awaited
  <2>3. ~Worked(q)' /\ ~Awaited(q)' /\ OneHolder(q)' /\ paid'[q] \in {received'[q], received'[q] + 1}
    BY <1>1, <1>2, <2>1, <2>2 DEF Worked, Awaited, OneHolder, RowInv
  <2>4. listing'[q] = Written(w)
    BY <1>1, <1>2, <1>3 DEF TypeInv
  <2>5. RestInv(q)'
    <3>1. CASE w.op = "sold"
      <4>1. Home(q) /\ Listed(q) /\ Owed(q)
        BY <2>2, <3>1 DEF WriteInv
      <4>2. Written(w).seller = listing[q].seller /\ Written(w).sold = TRUE
        BY <1>2, <1>3, <3>1, <4>1, ConsignmentAssumption DEF Written, Listed, NotListed, TypeInv
      <4>3. SoldOff(q)' /\ Home(q)'
        BY <1>2, <2>4, <4>1, <4>2 DEF SoldOff, Home, Listed, Owed
      <4> QED
        BY <4>3 DEF RestInv
    <3>2. CASE w.op = "delete"
      <4>1. (Home(q) \/ Vanished(q)) /\ ~Owed(q)
        BY <2>2, <3>2 DEF WriteInv
      <4>2. Unlisted(q)' /\ (Home(q)' \/ Vanished(q)')
        BY <1>2, <2>4, <3>2, <4>1 DEF Unlisted, Home, Vanished, Away, Owed, Written
      <4> QED
        BY <4>2 DEF RestInv
    <3> QED
      BY <1>3, <3>1, <3>2
  <2>6. Promise!Keep(q)
    BY <1>2 DEF Promise!Keep, Promise!Ledger, holder, Holders
  <2>7. RowInv(q)'
    BY <2>3, <2>5, RestsNext
  <2> QED
    BY <2>6, <2>7 DEF RowStep
<1> QED
  BY <1>2, <1>4, <1>5, <1>6 DEF Stepped

LEMMA MoveItemStep == ASSUME CInv, MoveItem PROVE Stepped
<1>1. PICK c \in Chars, s \in CSlots, t \in CSlots :
        /\ bag[c][s] # NoCRow /\ bag[c][t] = NoCRow
        /\ bag' = [bag EXCEPT ![c][s] = NoCRow, ![c][t] = bag[c][s]]
        /\ rowOf' = WriteRow(bag[c][s], c, t)
        /\ disputed' = IF Touched(bag[c][s]) THEN disputed \cup {bag[c][s]} ELSE disputed
        /\ UNCHANGED <<listing, doing, writes, trading, paid, received, depositor, calls>>
  BY DEF MoveItem
<1>2. PICK q \in CRows : bag[c][s] = q
  BY <1>1 DEF CInv, TypeInv
<1>3. TypeInv /\ t \in SlotsOrNone /\ s # t
  BY <1>1 DEF CInv, SlotsOrNone
<1>4. TypeInv'
  <2>1. /\ rowOf' \in [CRows -> [owner : Chars \cup {NoChar}, slot : SlotsOrNone \cup {NoCRow}]]
        /\ bag' \in [Chars -> [CSlots -> CRows \cup {NoCRow}]]
    BY <1>1, <1>2, <1>3, WriteRowType DEF TypeInv
  <2> QED
    BY <1>1, <1>2, <1>3, <2>1 DEF TypeInv
<1>a. /\ bag'[c][s] = NoCRow /\ bag'[c][t] = q
      /\ \A d \in Chars, u \in CSlots : d # c \/ u \notin {s, t} => bag'[d][u] = bag[d][u]
  BY <1>1, <1>2, <1>3 DEF TypeInv
<1>5. ASSUME NEW r \in CRows \ disputed', r # q PROVE RowStep(r)
  <2>1. rowOf'[r] = rowOf[r]
    BY <1>1, <1>2, <1>3, <1>5 DEF WriteRow, TypeInv
  <2>2. \A d \in Chars, u \in CSlots : bag'[d][u] = r <=> bag[d][u] = r
    BY <1>1, <1>2, <1>a, <1>5, ConsignmentAssumption, ZenonT(60)
  <2>3. Same(r) /\ r \notin disputed
    BY <1>1, <1>5, <2>1, <2>2, NoHandlerSame DEF Stays
  <2> QED
    BY <1>5, <2>3, SameStep DEF CInv, RowsInv
<1>6. ASSUME q \notin disputed' PROVE RowStep(q)
  <2>1. q \notin disputed /\ ~Touched(q)
    BY <1>1, <1>2, <1>6
  <2>2. RowInv(q) /\ ~Worked(q) /\ ~Awaited(q)
    BY <2>1 DEF CInv, RowsInv, Touched, Worked, Awaited
  <2>3. RestInv(q) /\ OneHolder(q)
    BY <2>2 DEF RowInv, OneHolder
  <2>4. (Unlisted(q) \/ SoldOff(q)) /\ Home(q)
    BY <1>2, <2>3 DEF RestInv, Vanished, Stored, Away
  <2>5. rowOf'[q] = [owner |-> c, slot |-> t]
    <3>1. rowOf[q] # Deleted /\ q # NoCRow
      BY <2>4, ConsignmentAssumption DEF Home, Deleted
    <3> QED
      BY <1>1, <1>2, <1>3, <3>1 DEF WriteRow, TypeInv
  <2>6. Home(q)' /\ OneHolder(q)'
    BY <1>2, <1>a, <2>3, <2>5, ConsignmentAssumption DEF Home, OneHolder
  <2>7. RestInv(q)'
    BY <1>1, <2>4, <2>6 DEF RestInv, Unlisted, SoldOff, Owed
  <2>8. ~Worked(q)' /\ ~Awaited(q)' /\ paid'[q] \in {received'[q], received'[q] + 1}
    BY <1>1, <2>2 DEF Worked, Awaited, RowInv
  <2>9. holder[q] = c /\ holder'[q] = c
    BY <1>2, <1>a, <2>3, <2>6, HeldBy, HeldByNext
  <2>10. Promise!Keep(q)
    BY <1>1, <2>9 DEF Promise!Keep, Promise!Ledger
  <2>11. RowInv(q)'
    BY <2>6, <2>7, <2>8, RestsNext
  <2> QED
    BY <2>10, <2>11 DEF RowStep
<1> QED
  BY <1>1, <1>2, <1>4, <1>5, <1>6 DEF Stepped

\* What a character without a handler has in a slot is what the rows say.
LEMMA LoggedOut ==
  ASSUME TypeInv, NEW r \in CRows, RowInv(r), NEW c \in Chars, NEW s \in CSlots,
         \A h \in Callers : doing[h].who # c
  PROVE  bag[c][s] = r <=> rowOf[r] = [owner |-> c, slot |-> s]
<1>1. CASE Home(r)
  <2>1. PICK d \in Chars, t \in CSlots : bag[d][t] = r /\ rowOf[r] = [owner |-> d, slot |-> t]
    BY <1>1 DEF Home
  <2>2. bag[c][s] = r => c = d /\ s = t
    BY <2>1 DEF RowInv
  <2>3. rowOf[r] = [owner |-> c, slot |-> s] => c = d /\ s = t
    BY <2>1
  <2> QED
    BY <2>1, <2>2, <2>3
<1>2. CASE Stored(r) \/ Vanished(r)
  BY <1>2, ConsignmentAssumption DEF Stored, Vanished, Away
<1>3. CASE Worked(r)
  <2>1. PICK h \in Callers : doing[h].row = r
    BY <1>3 DEF Worked
  <2>2. AtWork(r, doing[h].op, doing[h].who, doing[h].slot) /\ OneHolder(r) /\ doing[h].who # c
    BY <2>1, OwnHandler
  <2>3. doing[h].op \in Ops \ {"idle"}
    BY <2>1, ConsignmentAssumption DEF TypeInv, Handler
  <2>4. CASE doing[h].op \in {"written", "removed"}
    BY <2>2, <2>4, ConsignmentAssumption DEF AtWork, In, OneHolder
  <2>5. CASE doing[h].op \in {"bought", "returned"}
    BY <2>2, <2>5 DEF AtWork, Away
  <2>6. CASE doing[h].op \in {"counted", "created", "buy", "cancel", "claim", "park", "delete"}
    BY <1>1, <1>2, <2>2, <2>6 DEF AtWork
  <2> QED
    BY <2>3, <2>4, <2>5, <2>6 DEF Ops, SlotOps
<1>4. CASE Awaited(r)
  <2>1. PICK w \in writes : w.row = r /\ w.op \in {"sold", "delete"}
    BY <1>4 DEF Awaited, TypeInv
  <2>2. WriteInv(r, w)
    BY <2>1 DEF RowInv
  <2> QED
    BY <1>1, <1>2, <2>1, <2>2 DEF WriteInv
<1>5. CASE RestInv(r)
  BY <1>1, <1>2, <1>5 DEF RestInv
<1> QED
  BY <1>3, <1>4, <1>5 DEF RowInv

LEMMA ReloginStep == ASSUME CInv, Relogin PROVE Stepped
<1> DEFINE Here(c, s) == {r \in CRows : rowOf[r] = [owner |-> c, slot |-> s]}
           Slot(c, s) == IF Here(c, s) = {} THEN NoCRow ELSE CHOOSE r \in Here(c, s) : TRUE
<1>1. PICK c \in Chars :
        /\ \A h \in Callers : doing[h].who # c
        /\ bag' = [bag EXCEPT ![c] = [s \in CSlots |-> Slot(c, s)]]
        /\ disputed' = disputed \cup {r \in CRows : rowOf[r].owner = c /\ rowOf[r].slot \in CSlots
                                              /\ \E q \in CRows \ {r} : rowOf[q] = rowOf[r]}
        /\ UNCHANGED <<rowOf, listing, doing, writes, paid, received, depositor, calls>>
  BY DEF Relogin
<1>2. TypeInv
  BY DEF CInv
<1>3. \A s \in CSlots : Slot(c, s) \in CRows \cup {NoCRow}
  <2> TAKE s \in CSlots
  <2>1. CASE Here(c, s) # {}
    <3>1. (CHOOSE r \in Here(c, s) : TRUE) \in Here(c, s)
      BY <2>1
    <3> QED
      BY <2>1, <3>1
  <2> QED
    BY <2>1
<1>4. /\ \A s \in CSlots : bag'[c][s] = Slot(c, s)
      /\ \A d \in Chars : d # c => bag'[d] = bag[d]
      /\ bag' \in [Chars -> [CSlots -> CRows \cup {NoCRow}]]
  <2> HIDE DEF Slot
  <2> QED
    BY <1>1, <1>2, <1>3 DEF TypeInv
<1>5. TypeInv'
  BY <1>1, <1>2, <1>4 DEF TypeInv
<1>6. ASSUME NEW r \in CRows \ disputed' PROVE RowStep(r)
  <2>1. RowInv(r)
    BY <1>1, <1>6 DEF CInv, RowsInv
  <2>2. ASSUME NEW s \in CSlots PROVE bag'[c][s] = r <=> bag[c][s] = r
    <3>1. bag[c][s] = r <=> r \in Here(c, s)
      BY <1>1, <1>2, <2>1, LoggedOut
    <3>2. r \in Here(c, s) => Here(c, s) = {r}
      BY <1>1, <1>6
    <3>3. Slot(c, s) = r <=> r \in Here(c, s)
      <4>1. CASE Here(c, s) = {}
        BY <4>1, ConsignmentAssumption
      <4>2. CASE Here(c, s) # {}
        <5>1. (CHOOSE x \in Here(c, s) : TRUE) \in Here(c, s)
          BY <4>2
        <5> QED
          BY <3>2, <4>2, <5>1
      <4> QED
        BY <4>1, <4>2
    <3> QED
      BY <1>4, <3>1, <3>3
  <2>3. Same(r)
    BY <1>1, <1>4, <2>2, NoHandlerSame DEF Stays
  <2> QED
    BY <2>1, <2>3, SameStep
<1> QED
  BY <1>1, <1>5, <1>6 DEF Stepped

LEMMA UntouchedStep ==
  ASSUME CInv, UNCHANGED <<bag, rowOf, listing, doing, writes, paid, received, depositor, disputed>>
  PROVE  Stepped
<1>1. \A r \in CRows : Same(r)
  BY NoHandlerSame DEF Stays
<1>2. TypeInv'
  BY DEF CInv, TypeInv
<1> QED
  BY <1>1, <1>2, SameStep DEF Stepped, CInv, RowsInv

---------------------------------------------------------------------------
LEMMA NextStepped == ASSUME CInv, [CNext]_cvars PROVE Stepped
<1>1. CASE RegisterItem \/ BuyConsignmentItem \/ CancelConsignmentItem \/ ClaimConsignmentItem \/ RemoveOnSale
  BY <1>1, RegisterItemStep, BuyStep, CancelStep, ClaimStep, RemoveOnSaleStep
<1>2. ASSUME NEW h \in Callers, CreateListing(h) \/ ParkForSale(h) \/ EmptySlot(h) \/ WriteBought(h)
      PROVE  Stepped
  BY <1>2, CreateListingStep, ParkForSaleStep, EmptySlotStep, WriteBoughtStep
<1>3. ASSUME NEW h \in Callers, WriteReturned(h) \/ PlaceItem(h) \/ PaySeller(h) \/ WriteRemoved(h)
      PROVE  Stepped
  BY <1>3, WriteReturnedStep, PlaceItemStep, PaySellerStep, WriteRemovedStep
<1>4. CASE WriteListing \/ MoveItem \/ Relogin
  BY <1>4, WriteListingStep, MoveItemStep, ReloginStep
<1>5. CASE TradeBegins \/ UNCHANGED cvars
  BY <1>5, UntouchedStep DEF TradeBegins, cvars
<1> QED
  BY <1>1, <1>2, <1>3, <1>4, <1>5 DEF CNext

LEMMA InitHome ==
  ASSUME CInit
  PROVE  /\ bag \in [Chars -> [CSlots -> CRows \cup {NoCRow}]]
         /\ \A r \in CRows, c \in Chars, s \in CSlots : bag[c][s] = r <=> rowOf[r] = [owner |-> c, slot |-> s]
<1> DEFINE P(c, s, r) == InitHeld[r] = [owner |-> c, slot |-> s]
           Slot(c, s) == IF \E r \in CRows : P(c, s, r) THEN CHOOSE r \in CRows : P(c, s, r) ELSE NoCRow
<1>1. bag = [c \in Chars |-> [s \in CSlots |-> Slot(c, s)]] /\ rowOf = InitHeld
  BY DEF CInit
<1>2. ASSUME NEW c \in Chars, NEW s \in CSlots
      PROVE  /\ Slot(c, s) \in CRows \cup {NoCRow}
             /\ \A r \in CRows : Slot(c, s) = r <=> P(c, s, r)
  <2>1. CASE \E r \in CRows : P(c, s, r)
    <3>1. Slot(c, s) \in CRows /\ P(c, s, Slot(c, s))
      BY <2>1
    <3> QED
      BY <3>1, ConsignmentAssumption
  <2>2. CASE ~\E r \in CRows : P(c, s, r)
    BY <2>2, ConsignmentAssumption
  <2> QED
    BY <2>1, <2>2
<1> HIDE DEF Slot
<1> QED
  BY <1>1, <1>2

LEMMA InitCInv == CInit => CInv /\ Promise!Init
<1> SUFFICES ASSUME CInit PROVE CInv /\ Promise!Init
  OBVIOUS
<1>1. TypeInv
  BY InitHome, ConsignmentAssumption, WaitingType DEF CInit, TypeInv, SlotsOrNone, NotListed, Waiting, SlotOps
<1>2. ASSUME NEW r \in CRows PROVE RowInv(r) /\ holder[r] \in Chars
  <2>1. PICK c \in Chars, s \in CSlots : rowOf[r] = [owner |-> c, slot |-> s] /\ bag[c][s] = r
    BY InitHome, ConsignmentAssumption DEF CInit
  <2>2. OneHolder(r) /\ Home(r)
    <3>1. Home(r)
      BY <2>1 DEF Home
    <3>2. ASSUME NEW d \in Chars, NEW t \in CSlots, bag[d][t] = r PROVE d = c /\ t = s
      <4>1. rowOf[r] = [owner |-> d, slot |-> t]
        BY <3>2, InitHome
      <4> QED
        BY <2>1, <4>1
    <3> QED
      BY <3>1, <3>2 DEF OneHolder
  <2>3. RestInv(r)
    BY <2>2 DEF CInit, RestInv, Unlisted, Owed
  <2>4. ~Worked(r) /\ ~Awaited(r)
    BY ConsignmentAssumption DEF CInit, Worked, Awaited, Waiting
  <2>5. paid[r] = 0 /\ received[r] = 0
    BY DEF CInit
  <2>6. RowInv(r)
    BY <2>2, <2>3, <2>4, <2>5 DEF RowInv, OneHolder, Worked, Awaited
  <2>7. holder[r] = c
    BY <2>1, <2>2, HeldBy
  <2> QED
    BY <2>6, <2>7
<1>3. Promise!Init
  BY <1>2 DEF CInit, Promise!Init, holder
<1> QED
  BY <1>1, <1>2, <1>3 DEF CInv, RowsInv

LEMMA CInvariance == CSpec => []CInv
<1>1. CInit => CInv
  BY InitCInv
<1>2. CInv /\ [CNext]_cvars => CInv'
  BY NextStepped DEF Stepped, RowStep, CInv, RowsInv
<1> QED
  BY <1>1, <1>2, PTL DEF CSpec

\* The consignment keeps the promise of Escrow for any items, characters,
\* slots and number of handlers at once: whatever waits, panics, relogins,
\* removals and late writes of listings come between the steps of RegisterItem,
\* BuyConsignmentItem and ClaimConsignmentItem, an item that no two of them
\* were at work on at once goes from its seller to one buyer who pays, or back,
\* and its seller is paid for it once.
THEOREM KeepsThePromise == CSpec => ImplementsEscrow
<1>1. CInit => Promise!Init
  BY InitCInv
<1>2. CInv /\ [CNext]_cvars => [Promise!Next]_(Promise!escrow)
  BY NextStepped DEF Stepped, RowStep, Promise!Next
<1> QED
  BY <1>1, <1>2, CInvariance, PTL DEF CSpec, ImplementsEscrow, Promise!Spec

---------------------------------------------------------------------------
\* What Escrow promises.  Of an item outside of dispute as many prices are with
\* the seller as were paid, or one is under way.
Balanced(r) == received[r] \in Nat /\ paid[r] \in {received[r], received[r] + 1}
EscrowInv == \A r \in CRows \ disputed : Balanced(r)

LEMMA InitBalanced == Promise!Init => EscrowInv
<1> SUFFICES ASSUME Promise!Init, NEW r \in CRows PROVE Balanced(r)
  BY DEF EscrowInv
<1>1. paid[r] = 0 /\ received[r] = 0
  BY DEF Promise!Init
<1> QED
  BY <1>1 DEF Balanced

\* One item, whatever is done with it.
LEMMA StepBalanced ==
  ASSUME NEW r \in CRows, Balanced(r),
         \/ Promise!Keep(r) \/ Promise!Deposit(r) \/ Promise!Return(r)
         \/ Promise!Take(r) \/ Promise!Settle(r) \/ Promise!Discard(r)
  PROVE  Balanced(r)'
<1>1. CASE Promise!Keep(r)
  BY <1>1 DEF Promise!Keep, Promise!Ledger, Balanced
<1>2. CASE Promise!Deposit(r)
  BY <1>2 DEF Promise!Deposit, Balanced
<1>3. CASE Promise!Return(r)
  BY <1>3 DEF Promise!Return, Promise!Ledger, Balanced
<1>4. CASE Promise!Take(r)
  BY <1>4 DEF Promise!Take, Promise!Owed, Balanced
<1>5. CASE Promise!Settle(r)
  BY <1>5 DEF Promise!Settle, Promise!Owed, Balanced
<1>6. CASE Promise!Discard(r)
  BY <1>6 DEF Promise!Discard, Promise!Ledger, Balanced
<1> QED
  BY <1>1, <1>2, <1>3, <1>4, <1>5, <1>6

LEMMA NextBalanced == EscrowInv /\ [Promise!Next]_(Promise!escrow) => EscrowInv'
<1> SUFFICES ASSUME EscrowInv, [Promise!Next]_(Promise!escrow) PROVE EscrowInv'
  OBVIOUS
<1>1. CASE Promise!Next
  <2> SUFFICES ASSUME NEW r \in CRows \ disputed' PROVE Balanced(r)'
    BY DEF EscrowInv
  <2>1. r \in CRows \ disputed /\ Balanced(r)
    BY <1>1 DEF Promise!Next, EscrowInv
  <2>2. \/ Promise!Keep(r) \/ Promise!Deposit(r) \/ Promise!Return(r)
        \/ Promise!Take(r) \/ Promise!Settle(r) \/ Promise!Discard(r)
    BY <1>1 DEF Promise!Next
  <2> QED
    BY <2>1, <2>2, StepBalanced
<1>2. CASE UNCHANGED Promise!escrow
  BY <1>2 DEF Promise!escrow, EscrowInv, Balanced
<1> QED
  BY <1>1, <1>2

\* Of every behaviour of Escrow: no seller is paid more often than buyers have
\* paid, and none waits for more than one price (BuyConsignmentItem and
\* ClaimConsignmentItem, characters.go 5377-5521).
THEOREM SellersPaidOnce == Promise!Spec => []Promise!PaidOnce
<1>1. EscrowInv => Promise!PaidOnce
  BY DEF EscrowInv, Balanced, Promise!PaidOnce
<1> QED
  BY <1>1, InitBalanced, NextBalanced, PTL DEF Promise!Spec

\* As many prices have reached the sellers of an item as buyers have paid for
\* it, and one at most is under way, however the writes of its listing and the
\* removal of the bought item come in between: a claim is answered once and no
\* sale is forgotten.  It is what Escrow promises, which the consignment keeps.
THEOREM SellersArePaidOnce == CSpec => []PaidOnce
  BY KeepsThePromise, SellersPaidOnce, PTL DEF ImplementsEscrow, PaidOnce

----------------------------------------------------------------------------
(* Mail: the invariant *)

\* Who has noted what, and the handlers: one that sends, one that has read a mail, one
\* that gives out what was in it.
Notes == [slot : MSlots, row : MRows]
Letters == [from : MChars, to : MChars, items : Seq(MRows), gold : Nat, done : BOOLEAN]
Mails == Letters \cup {NoLetter}
Senders == [op : {"send"}, who : MChars, to : MChars, mail : {0}, items : Seq(Notes), put : Seq(MRows), gold : Nat]
Readers == [op : {"read"}, who : MChars, to : {Nobody}, mail : Nat \ {0}, items : Seq(MRows), put : {<<>>}, gold : Nat]
Givers == [op : {"give"}, who : MChars, to : {Nobody}, mail : Nat \ {0}, items : Seq(MRows), put : Seq(MSlots), gold : Nat]

Marks == {"overlap", "stale", "short", "wrapped"}
MTypeOK ==
    /\ satchel \in [MChars -> [MSlots -> MRows \cup {NoneIn}]]
    /\ DOMAIN itemRow = MRows
    /\ noted \in [MChars -> Seq(Notes)]
    /\ mails \in Seq(Mails)
    /\ purse \in [MChars -> Nat]
    /\ work \in [Postmen -> {Off} \cup Senders \cup Readers \cup Givers]
    /\ \A p \in Postmen : work[p].op = "give" => Len(work[p].put) = Len(work[p].items)
    /\ spent \in Nat /\ lost \subseteq MRows /\ wrong \subseteq Marks

\* No two handlers of one character.
Solo == \A p, q \in Postmen : p # q /\ work[p] # Off /\ work[q] # Off => work[p].who # work[q].who
\* The mail somebody receives is his, and still there.
ReadInv ==
    \A p \in Postmen : work[p].op \in {"read", "give"} =>
        /\ work[p].mail <= Len(mails) /\ mails[work[p].mail] # NoLetter
        /\ mails[work[p].mail].to = work[p].who /\ mails[work[p].mail].gold = work[p].gold
        /\ work[p].op = "read" => mails[work[p].mail].items = work[p].items
Distinct(s) == \A i, j \in 1..Len(s) : s[i] = s[j] => i = j
DistinctInv ==
    /\ \A m \in 1..Len(mails) : Distinct(mails[m].items)
    /\ \A p \in Postmen : /\ work[p].op = "give" => Distinct(work[p].items)
                          /\ work[p].op = "send" => Distinct(work[p].put)

\* Where a row is: in slots, in mails, and with handlers that have taken it out.  A mail
\* that is being received holds what has not been given yet.
Giving(p, m) == work[p].op = "give" /\ work[p].mail = m
Holds(m, r) ==
    \/ r \in Range(mails[m].items) /\ \A p \in Postmen : ~Giving(p, m)
    \/ \E p \in Postmen : Giving(p, m) /\ r \in Range(work[p].items)
InSlots(r) == {h \in MChars \X MSlots : satchel[h[1]][h[2]] = r}
InMails(r) == {m \in 1..Len(mails) : Holds(m, r)}
Hand(p, r) == work[p].op = "send" /\ r \in Range(work[p].put)
InHands(r) == {p \in Postmen : Hand(p, r)}
AtHome(b, m, h) == 
    \/ (\E x : b = {x}) /\ m = {} /\ h = {}
    \/ b = {} /\ (\E x : m = {x}) /\ h = {}
    \/ b = {} /\ m = {} /\ (\E x : h = {x})
NoHome(b, m, h) == b = {} /\ m = {} /\ h = {}
HomeInv == \A r \in MRows : IF r \in lost THEN NoHome(InSlots(r), InMails(r), InHands(r))
                                          ELSE AtHome(InSlots(r), InMails(r), InHands(r))
RowsTell ==
    /\ \A c \in MChars, s \in MSlots : satchel[c][s] # NoneIn => itemRow[satchel[c][s]] = [owner |-> c, slot |-> s]
    /\ \A r \in MRows : InMails(r) # {} \/ InHands(r) # {} => itemRow[r] = Orphan
GoldInv == Wealth + spent = AllGold
UnhurtInv == Solo /\ ReadInv /\ DistinctInv /\ HomeInv /\ RowsTell /\ GoldInv
MInv == MTypeOK /\ (wrong = {} => UnhurtInv)

----------------------------------------------------------------------------
(* Facts about data *)

LEMMA OffIs == /\ Off.op = "off" /\ Off.who = Nobody /\ Off.mail = 0
               /\ \A j \in Senders \cup Readers \cup Givers : j # Off /\ j.who \in MChars
  BY MailAssumption DEF Off, Job, Senders, Readers, Givers

LEMMA SendJob ==
  ASSUME NEW c \in MChars, NEW d \in MChars, NEW i \in Seq(Notes), NEW g \in Nat, NEW j, j = Job("send", c, d, 0, i, g)
  PROVE  j \in Senders /\ j.put = <<>> /\ j.who = c
<1>1. PICK e : e = <<>>
  OBVIOUS
<1>2. e \in Seq(MRows)
  BY <1>1, EmptySeq
<1>3. j = [op |-> "send", who |-> c, to |-> d, mail |-> 0, items |-> i, put |-> e, gold |-> g]
  BY <1>1 DEF Job
<1>4. j \in Senders
  BY <1>2, <1>3 DEF Senders
<1>5. j.put = e /\ j.who = c
  BY <1>3
<1> QED
  BY <1>1, <1>4, <1>5

LEMMA ReadJob ==
  ASSUME NEW c \in MChars, NEW m \in Nat \ {0}, NEW i \in Seq(MRows), NEW g \in Nat, NEW j, j = Job("read", c, Nobody, m, i, g)
  PROVE  j \in Readers /\ j.who = c /\ j.mail = m /\ j.items = i /\ j.gold = g
  BY DEF Readers, Job

\* Every job is one of the four, by its operation.
LEMMA JobOf ==
  ASSUME MTypeOK, NEW p \in Postmen
  PROVE  /\ work[p].op = "send" => work[p] \in Senders
         /\ work[p].op = "read" => work[p] \in Readers
         /\ work[p].op = "give" => work[p] \in Givers
         /\ work[p].op \in {"off", "send", "read", "give"}
         /\ work[p].op = "off" <=> work[p] = Off
  BY OffIs DEF MTypeOK, Off, Job, Senders, Readers, Givers

LEMMA LetterIs ==
  ASSUME NEW f \in MChars, NEW t \in MChars, NEW i \in Seq(MRows), NEW g \in Nat, NEW l, l = Letter(f, t, i, g)
  PROVE  l \in Letters /\ l # NoLetter /\ l.to = t /\ l.items = i /\ l.gold = g /\ l.from = f
  BY MailAssumption DEF Letter, NoLetter, Letters

LEMMA NoLetterIs == NoLetter \in Mails /\ NoLetter.items = <<>> /\ NoLetter.gold = 0
  BY DEF Mails, NoLetter

LEMMA EmptiedIs ==
  ASSUME NEW l \in Letters, NEW e, e = Emptied(l)
  PROVE  e \in Letters /\ e.to = l.to /\ e.items = <<>> /\ e.gold = 0
<1>1. e = [from |-> l.from, to |-> l.to, items |-> <<>>, gold |-> 0, done |-> TRUE]
  BY DEF Letters, Emptied
<1> QED
  BY <1>1, EmptySeq DEF Letters

\* What is in a mail.
LEMMA MailIs ==
  ASSUME MTypeOK, NEW m \in 1..Len(mails)
  PROVE  /\ mails[m] \in Mails /\ mails[m].items \in Seq(MRows) /\ mails[m].gold \in Nat /\ m \in Nat \ {0}
         /\ mails[m] # NoLetter => mails[m] \in Letters /\ mails[m].to \in MChars
<1>1. mails \in Seq(Mails) /\ Len(mails) \in Nat
  BY LenProperties DEF MTypeOK
<1>2. mails[m] \in Mails
  BY <1>1, ElementOfSeq
<1>3. CASE mails[m] = NoLetter
  <2>1. mails[m].items = <<>> /\ mails[m].gold = 0
    BY <1>3, NoLetterIs
  <2>2. <<>> \in Seq(MRows)
    BY EmptySeq
  <2> QED
    BY <1>1, <1>2, <1>3, <2>1, <2>2
<1>4. CASE mails[m] \in Letters
  BY <1>1, <1>2, <1>4 DEF Letters
<1> QED
  BY <1>2, <1>3, <1>4 DEF Mails

\* What a sequence holds, when one is appended or the first is taken off.
LEMMA ListHolds == ASSUME NEW T, NEW s \in Seq(T), NEW r PROVE r \in Range(s) <=> \E i \in 1..Len(s) : s[i] = r
  BY LenProperties DEF Range

LEMMA NothingHeld == \A r : r \notin Range(<<>>)
<1>1. \A s, r : s = <<>> => r \notin Range(s)
  BY DEF Range
<1> QED
  BY <1>1

LEMMA Appended ==
  ASSUME NEW T, NEW s \in Seq(T), NEW x \in T
  PROVE  /\ Append(s, x) \in Seq(T) /\ Len(Append(s, x)) = Len(s) + 1
         /\ \A r : r \in Range(Append(s, x)) <=> r = x \/ r \in Range(s)
         /\ Distinct(s) /\ x \notin Range(s) => Distinct(Append(s, x))
<1> DEFINE t == Append(s, x)
<1>1. /\ t \in Seq(T) /\ Len(t) = Len(s) + 1 /\ Len(s) \in Nat
      /\ \A i \in 1..Len(s) : t[i] = s[i]
      /\ t[Len(s) + 1] = x
  BY AppendProperties, LenProperties
<1> HIDE DEF t
<1>2. \A i \in 1..Len(t) : i \in 1..Len(s) \/ i = Len(s) + 1
  BY <1>1
<1>3. \A i \in 1..Len(s) : i \in 1..Len(t)
  BY <1>1
<1>4. Len(s) + 1 \in 1..Len(t)
  BY <1>1
<1>5. \A r : r \in Range(t) <=> \E i \in 1..Len(t) : t[i] = r
  BY <1>1, ListHolds
<1>6. \A r : r \in Range(s) <=> \E i \in 1..Len(s) : s[i] = r
  BY ListHolds
<1>7. \A r : r \in Range(t) <=> r = x \/ r \in Range(s)
  BY <1>1, <1>2, <1>3, <1>4, <1>5, <1>6
<1>8. ASSUME Distinct(s), x \notin Range(s) PROVE Distinct(t)
  BY <1>1, <1>2, <1>6, <1>8 DEF Distinct
<1> QED
  BY <1>1, <1>7, <1>8 DEF t

LEMMA TakenOff ==
  ASSUME NEW T, NEW s \in Seq(T), s # <<>>
  PROVE  /\ Head(s) \in T /\ Tail(s) \in Seq(T) /\ Len(Tail(s)) = Len(s) - 1
         /\ Head(s) \in Range(s)
         /\ \A r : r \in Range(s) <=> r = Head(s) \/ r \in Range(Tail(s))
         /\ Distinct(s) => Distinct(Tail(s)) /\ Head(s) \notin Range(Tail(s))
<1> DEFINE h == Head(s)
           t == Tail(s)
<1>1. /\ h \in T /\ t \in Seq(T) /\ Len(t) = Len(s) - 1 /\ Len(s) \in Nat \ {0}
      /\ \A i \in 1..Len(t) : t[i] = s[i + 1]
      /\ h = s[1]
  BY HeadTailProperties, EmptySeq, LenProperties
<1> HIDE DEF h, t
<1>2. \A i \in 1..Len(s) : i = 1 \/ (i - 1 \in 1..Len(t) /\ t[i - 1] = s[i])
  <2> SUFFICES ASSUME NEW i \in 1..Len(s), i # 1 PROVE i - 1 \in 1..Len(t) /\ t[i - 1] = s[i]
    OBVIOUS
  <2>1. i - 1 \in 1..Len(t) /\ (i - 1) + 1 = i
    BY <1>1
  <2> QED
    BY <1>1, <2>1
<1>3. \A i \in 1..Len(t) : i + 1 \in 1..Len(s) /\ i + 1 # 1
  BY <1>1
<1>4. 1 \in 1..Len(s)
  BY <1>1
<1>5. \A r : r \in Range(t) <=> \E i \in 1..Len(t) : t[i] = r
  BY <1>1, ListHolds
<1>6. \A r : r \in Range(s) <=> \E i \in 1..Len(s) : s[i] = r
  BY ListHolds
<1>7. \A r : r \in Range(s) <=> r = h \/ r \in Range(t)
  BY <1>1, <1>2, <1>3, <1>4, <1>5, <1>6
<1>8. ASSUME Distinct(s) PROVE Distinct(t) /\ h \notin Range(t)
  <2>1. ASSUME NEW i \in 1..Len(t), NEW j \in 1..Len(t), t[i] = t[j] PROVE i = j
    <3>1. i + 1 \in 1..Len(s) /\ j + 1 \in 1..Len(s) /\ s[i + 1] = s[j + 1]
      BY <1>1, <1>3, <2>1
    <3>2. i + 1 = j + 1
      BY <1>8, <3>1 DEF Distinct
    <3> QED
      BY <3>2
  <2>2. ASSUME NEW i \in 1..Len(t), t[i] = h PROVE FALSE
    <3>1. i + 1 \in 1..Len(s) /\ s[i + 1] = s[1] /\ i + 1 # 1
      BY <1>1, <1>3, <2>2
    <3> QED
      BY <1>4, <1>8, <3>1 DEF Distinct
  <2> QED
    BY <1>5, <2>1, <2>2 DEF Distinct
<1> QED
  BY <1>1, <1>7, <1>8, <1>4, <1>6 DEF h, t

LEMMA NothingDistinct == \A s : s = <<>> => Distinct(s)
  BY DEF Distinct

\* A part of a sequence.
LEMMA RemovedAt ==
  ASSUME NEW T, NEW s \in Seq(T), NEW i \in 1..Len(s)
  PROVE  RemoveAt(s, i) \in Seq(T)
<1>1. Len(s) \in Nat /\ \A j \in 1..Len(s) : s[j] \in T
  BY LenProperties, ElementOfSeq
<1>2. \A j \in 1..i - 1 : s[j] \in T
  BY <1>1
<1>3. \A j \in i + 1..Len(s) : s[j] \in T
  BY <1>1
<1>4. SubSeq(s, 1, i - 1) \in Seq(T)
  BY <1>1, <1>2, SubSeqProperties
<1>5. SubSeq(s, i + 1, Len(s)) \in Seq(T)
  BY <1>1, <1>3, SubSeqProperties
<1> QED
  BY <1>4, <1>5, ConcatProperties DEF RemoveAt

\* A function on 1..n is a sequence.
LEMMA AsList ==
  ASSUME NEW T, NEW n \in Nat, NEW f \in [1..n -> T]
  PROVE  f \in Seq(T) /\ Len(f) = n
<1>1. f \in Seq(T)
  BY SeqDef
<1>2. DOMAIN f = 1..Len(f) /\ Len(f) \in Nat /\ DOMAIN f = 1..n
  BY <1>1, LenProperties
<1>3. 1..Len(f) = 1..n => Len(f) = n
  <2>1. CASE n = 0
    BY <1>2, <2>1
  <2>2. CASE n # 0
    <3>1. n \in 1..n
      BY <2>2
    <3>2. ASSUME 1..Len(f) = 1..n PROVE n <= Len(f) /\ Len(f) <= n
      <4>1. n \in 1..Len(f)
        BY <3>1, <3>2
      <4>2. Len(f) \in 1..Len(f)
        BY <1>2, <4>1
      <4> QED
        BY <3>2, <4>1, <4>2
    <3> QED
      BY <1>2, <3>2
  <2> QED
    BY <2>1, <2>2
<1> QED
  BY <1>1, <1>2, <1>3

----------------------------------------------------------------------------
(* The types *)

\* What the handler of a character works on, and what is left of the types when
\* only jobs change.
LEMMA WorkTyped ==
  ASSUME MTypeOK, NEW p \in Postmen, NEW j \in {Off} \cup Senders \cup Readers \cup Givers,
         j.op = "give" => Len(j.put) = Len(j.items),
         work' = [work EXCEPT ![p] = j],
         UNCHANGED <<satchel, itemRow, noted, mails, purse, spent, lost>>, wrong' \subseteq Marks
  PROVE  MTypeOK'
  BY DEF MTypeOK

LEMMA Purses ==
  /\ IsFiniteSet(MChars) /\ Purse \in [MChars -> Nat] /\ AllGold \in Nat
  /\ GoldSize \in Nat \ {0} /\ AllGold < GoldSize
<1>1. IsFiniteSet(MChars) /\ Purse \in [MChars -> Nat] /\ GoldSize \in Nat /\ AllGold < GoldSize
  BY MailAssumption
<1>2. AllGold \in Nat
  BY <1>1, SumOverAll DEF AllGold
<1> QED
  BY <1>1, <1>2

LEMMA Modulo == \A n \in Int : n % GoldSize \in Nat
  BY Purses

LEMMA InitTyped == MInit => MTypeOK
<1> SUFFICES ASSUME MInit PROVE MTypeOK
  OBVIOUS
<1>1. \A c \in MChars, s \in MSlots : satchel[c][s] \in MRows \cup {NoneIn}
  BY ZenonT(60) DEF MInit
<1>2. satchel \in [MChars -> [MSlots -> MRows \cup {NoneIn}]]
  BY <1>1 DEF MInit
<1>3. <<>> \in Seq(Notes) /\ <<>> \in Seq(Mails)
  BY EmptySeq
<1>4. \A p \in Postmen : work[p] = Off /\ work[p].op # "give"
  BY OffIs DEF MInit
<1> QED
  BY <1>2, <1>3, <1>4, MailAssumption DEF MInit, MTypeOK

LEMMA AddTyped == ASSUME MTypeOK, ItemAddMessage PROVE MTypeOK'
<1>1. PICK c \in MChars, s \in MSlots : 
        /\ satchel[c][s] # NoneIn
        /\ noted' = [noted EXCEPT ![c] = Append(@, [slot |-> s, row |-> satchel[c][s]])]
        /\ UNCHANGED <<satchel, itemRow, mails, purse, work, spent, lost, wrong>>
  BY DEF ItemAddMessage
<1>2. [slot |-> s, row |-> satchel[c][s]] \in Notes
  BY <1>1 DEF MTypeOK, Notes
<1>3. noted[c] \in Seq(Notes)
  BY DEF MTypeOK
<1>4. Append(noted[c], [slot |-> s, row |-> satchel[c][s]]) \in Seq(Notes)
  BY <1>2, <1>3, AppendProperties
<1> QED
  BY <1>1, <1>4 DEF MTypeOK

LEMMA RemoveTyped == ASSUME MTypeOK, ItemRemoveMessage PROVE MTypeOK'
<1>1. PICK c \in MChars : \E i \in 1..Len(noted[c]) :
        /\ noted' = [noted EXCEPT ![c] = RemoveAt(@, i)]
        /\ UNCHANGED <<satchel, itemRow, mails, purse, work, spent, lost, wrong>>
  BY DEF ItemRemoveMessage
<1>2. PICK i \in 1..Len(noted[c]) :
        /\ noted' = [noted EXCEPT ![c] = RemoveAt(@, i)]
        /\ UNCHANGED <<satchel, itemRow, mails, purse, work, spent, lost, wrong>>
  BY <1>1
<1>3. noted[c] \in Seq(Notes)
  BY DEF MTypeOK
<1>4. RemoveAt(noted[c], i) \in Seq(Notes)
  BY <1>3, RemovedAt
<1> QED
  BY <1>2, <1>4 DEF MTypeOK

\* The gold in some mails.
LEMMA GoldIn ==
  ASSUME MTypeOK, NEW E, E \subseteq 1..Len(mails)
  PROVE  /\ IsFiniteSet(1..Len(mails)) /\ Contents \in [1..Len(mails) -> Nat]
         /\ SumFunctionOnSet(Contents, E) \in Nat
<1>1. Len(mails) \in Nat /\ \A m \in 1..Len(mails) : mails[m].gold \in Nat
  BY MailIs, LenProperties DEF MTypeOK
<1> DEFINE n == Len(mails)
<1>a. n \in Int
  BY <1>1
<1> HIDE DEF n
<1>b. IsFiniteSet(1..n)
  BY <1>a, FS_Interval
<1>2. IsFiniteSet(1..Len(mails)) /\ IsFiniteSet(E)
  BY <1>b, FS_Subset DEF n
<1>3. Contents \in [1..Len(mails) -> Nat]
  BY <1>1 DEF Contents
<1>4. \A m \in E : Contents[m] \in Nat
  BY <1>3
<1> QED
  BY <1>2, <1>3, <1>4, SumCovers

\* Some mails are replaced.
LEMMA Replaced ==
  ASSUME MTypeOK, NEW f, DOMAIN f = 1..Len(mails), \A m \in 1..Len(mails) : f[m] \in Mails, 
         f = [m \in 1..Len(mails) |-> f[m]]
  PROVE  f \in Seq(Mails) /\ Len(f) = Len(mails)
<1>1. Len(mails) \in Nat
  BY LenProperties DEF MTypeOK
<1>2. f \in [1..Len(mails) -> Mails]
  OBVIOUS
<1> QED
  BY <1>1, <1>2, AsList

\* OpenMessager, its choices named: the mails that expire.
Expires(c, E) ==
    LET rows == UNION {Range(mails[m].items) : m \in E} IN
    /\ noted' = [noted EXCEPT ![c] = <<>>]
    /\ mails' = [m \in 1..Len(mails) |-> IF m \in E THEN NoLetter ELSE mails[m]]
    /\ itemRow' = [r \in MRows |-> IF r \in rows THEN Removed ELSE itemRow[r]]
    /\ lost' = lost \cup rows
    /\ spent' = spent + SumFunctionOnSet(Contents, E)
    /\ wrong' = IF \E p \in Postmen : work[p].mail \in E THEN wrong \cup {"overlap"} ELSE wrong
    /\ UNCHANGED <<satchel, purse, work>>
LEMMA OpenIs == OpenMessager => \E c \in MChars : \E E \in SUBSET (1..Len(mails)) : Expires(c, E)
  BY DEF OpenMessager, Expires

\* The rows in some mails.
LEMMA RowsIn ==
  ASSUME MTypeOK, NEW E, E \subseteq 1..Len(mails)
  PROVE  /\ UNION {Range(mails[m].items) : m \in E} \subseteq MRows
         /\ \A r : r \in UNION {Range(mails[m].items) : m \in E} <=> \E m \in E : r \in Range(mails[m].items)
<1>1. \A m \in E : Range(mails[m].items) \subseteq MRows
  BY MailIs, RangeOfSeq
<1> QED
  BY <1>1

LEMMA OpenTyped == ASSUME MTypeOK, NEW c \in MChars, NEW E \in SUBSET (1..Len(mails)), Expires(c, E) PROVE MTypeOK' /\ Len(mails') = Len(mails)
<1>1. UNION {Range(mails[m].items) : m \in E} \subseteq MRows /\ SumFunctionOnSet(Contents, E) \in Nat
  BY RowsIn, GoldIn
<1>2. \A m \in 1..Len(mails) : mails'[m] \in Mails
  BY MailIs, NoLetterIs DEF Expires
<1>3. mails' \in Seq(Mails) /\ Len(mails') = Len(mails)
  BY <1>2, Replaced DEF Expires
<1>4. noted' \in [MChars -> Seq(Notes)]
  BY EmptySeq DEF Expires, MTypeOK
<1>5. DOMAIN itemRow' = MRows /\ lost' \subseteq MRows /\ spent' \in Nat /\ wrong' \subseteq Marks
  BY <1>1 DEF Expires, MTypeOK, Marks
<1> QED
  BY <1>3, <1>4, <1>5 DEF Expires, MTypeOK

LEMMA SendTyped ==
  ASSUME MTypeOK, SendMessage
  PROVE  /\ MTypeOK'
         /\ \E p \in Postmen, j \in Senders :
              /\ work[p] = Off /\ j.put = <<>> /\ work' = [work EXCEPT ![p] = j]
              /\ wrong' = {} => \A q \in Postmen : work[q].who # j.who
              /\ UNCHANGED <<satchel, itemRow, noted, mails, purse, spent, lost>>
<1>1. PICK c \in MChars, d \in MChars, g \in 0..AllGold, p \in Postmen :
        /\ work[p] = Off /\ c # d /\ Len(mails) < MaxMails
        /\ work' = [work EXCEPT ![p] = Job("send", c, d, 0, noted[c], g)]
        /\ wrong' = IF \E q \in Postmen : work[q].who = c THEN wrong \cup {"overlap"} ELSE wrong
        /\ UNCHANGED <<satchel, itemRow, noted, mails, purse, spent, lost>>
  BY DEF SendMessage
<1>2. PICK j : j = Job("send", c, d, 0, noted[c], g)
  OBVIOUS
<1>3. noted[c] \in Seq(Notes) /\ g \in Nat
  BY Purses DEF MTypeOK
<1>4. j \in Senders /\ j.put = <<>> /\ j.who = c
  <2>1. PICK i \in Seq(Notes) : i = noted[c]
    BY <1>3
  <2> QED
    BY <1>2, <1>3, <2>1, SendJob
<1>5. j.op # "give"
  BY <1>4 DEF Senders
<1>6. work' = [work EXCEPT ![p] = j] /\ wrong' \subseteq Marks
  BY <1>1, <1>2 DEF MTypeOK, Marks
<1>7. MTypeOK'
  BY <1>1, <1>4, <1>5, <1>6, WorkTyped, ZenonT(60)
<1> QED
  BY <1>1, <1>4, <1>6, <1>7

\* TakeOut, its note and row named.
Takes(p, n, r) ==
    /\ work[p].op = "send" /\ Len(work[p].put) < Len(work[p].items)
    /\ n = work[p].items[Len(work[p].put) + 1]
    /\ r = satchel[work[p].who][n.slot]
    /\ itemRow' = SetRow(r, Orphan)
    /\ satchel' = [satchel EXCEPT ![work[p].who][n.slot] = NoneIn]
    /\ wrong' = IF r # n.row THEN wrong \cup {"stale"} ELSE wrong
    /\ work' = [work EXCEPT ![p].put = Append(@, n.row)]
    /\ UNCHANGED <<noted, mails, purse, spent, lost>>
LEMMA TakeIs == \A p : TakeOut(p) => \E n, r : Takes(p, n, r)
  BY ZenonT(60) DEF TakeOut, Takes

LEMMA TakeTyped ==
  ASSUME MTypeOK, NEW p \in Postmen, NEW n, NEW r, Takes(p, n, r)
  PROVE  /\ MTypeOK' /\ n \in Notes /\ work[p] \in Senders /\ work'[p] \in Senders
         /\ work'[p].who = work[p].who /\ work'[p].put = Append(work[p].put, n.row)
         /\ \A q \in Postmen \ {p} : work'[q] = work[q]
<1>1. work[p] \in Senders /\ work[p].who \in MChars /\ work[p].items \in Seq(Notes) /\ work[p].put \in Seq(MRows)
  BY JobOf, ZenonT(60) DEF Takes, Senders
<1>2. Len(work[p].put) \in Nat /\ Len(work[p].items) \in Nat
  BY <1>1, LenProperties
<1>3. Len(work[p].put) + 1 \in 1..Len(work[p].items)
  <2>1. \A k, l \in Nat : k < l => k + 1 \in 1..l
    BY SMTT(60)
  <2>2. Len(work[p].put) < Len(work[p].items)
    BY ZenonT(60) DEF Takes
  <2> QED
    BY <1>2, <2>1, <2>2
<1>4. n \in Notes
  BY <1>1, <1>3, ElementOfSeq, ZenonT(60) DEF Takes
<1>5. PICK u : u = Append(work[p].put, n.row)
  OBVIOUS
<1>6. u \in Seq(MRows)
  BY <1>1, <1>4, <1>5, Appended DEF Notes
<1>7. PICK j : j = [work[p] EXCEPT !.put = u]
  OBVIOUS
<1>8. j \in Senders /\ j.who = work[p].who /\ j.put = u /\ j.op # "give"
  BY <1>1, <1>6, <1>7, SMTT(60) DEF Senders
<1>9. work' = [work EXCEPT ![p] = j]
  BY <1>5, <1>7, ZenonT(60) DEF Takes, MTypeOK
<1>10. DOMAIN itemRow' = MRows
  BY ZenonT(60) DEF Takes, SetRow, MTypeOK
<1>11. satchel' \in [MChars -> [MSlots -> MRows \cup {NoneIn}]]
  BY <1>1, <1>4, ZenonT(60) DEF Takes, MTypeOK, Notes
<1>12. wrong' \subseteq Marks
  BY ZenonT(60) DEF Takes, MTypeOK, Marks
<1>13. MTypeOK'
  BY <1>8, <1>9, <1>10, <1>11, <1>12, ZenonT(60) DEF Takes, MTypeOK
<1> QED
  BY <1>1, <1>4, <1>5, <1>8, <1>9, <1>13, SMTT(60) DEF MTypeOK

\* PostMail, its commission and what it does to gold and mails named.
Due(p) == Fee * Max({1, Len(work[p].put)})
Posts(p, due) ==
    /\ ~(purse[work[p].who] < work[p].gold)
    /\ purse' = [purse EXCEPT ![work[p].who] = Charged(@, due, work[p].gold)]
    /\ wrong' = IF purse[work[p].who] < work[p].gold + due THEN wrong \cup {"wrapped"} ELSE wrong
    /\ spent' = spent + due
    /\ mails' = Append(mails, Letter(work[p].who, work[p].to, work[p].put, work[p].gold))
    /\ noted' = [noted EXCEPT ![work[p].who] = <<>>]
Refuses(p) ==
    /\ wrong' = IF work[p].put # <<>> THEN wrong \cup {"short"} ELSE wrong
    /\ UNCHANGED <<noted, mails, purse, spent>>
LEMMA PostIs ==
  ASSUME NEW p, PostMail(p)
  PROVE  /\ work[p].op = "send" /\ (Posts(p, Due(p)) \/ Refuses(p))
         /\ work' = [work EXCEPT ![p] = Off] /\ UNCHANGED <<satchel, itemRow, lost>>
  BY DEF PostMail, Posts, Refuses, Due

LEMMA DueType == ASSUME MTypeOK, NEW p \in Postmen, work[p].op = "send" PROVE Due(p) \in Nat
<1>1. work[p].put \in Seq(MRows)
  BY JobOf DEF Senders
<1>2. PICK n : n = Len(work[p].put)
  OBVIOUS
<1>3. n \in Nat
  BY <1>1, <1>2, LenProperties
<1>4. PICK k : k = IF n > 1 THEN n ELSE 1
  OBVIOUS
<1>5. k \in {1, n} /\ \A y \in {1, n} : k >= y
  BY <1>3, <1>4
<1>6. Max({1, n}) \in {1, n}
  BY <1>5 DEF Max
<1>7. Max({1, n}) \in Nat /\ Fee \in Nat
  BY <1>3, <1>6, MailAssumption
<1>8. PICK m : m = Max({1, n})
  OBVIOUS
<1>9. m \in Nat /\ Fee \in Nat => Fee * m \in Nat
  OBVIOUS
<1> QED
  BY <1>2, <1>7, <1>8, <1>9 DEF Due

LEMMA PostTyped ==
  ASSUME MTypeOK, NEW p \in Postmen, PostMail(p)
  PROVE  /\ MTypeOK' /\ work'[p] = Off /\ \A q \in Postmen \ {p} : work'[q] = work[q]
<1>1. work[p] \in Senders
  BY PostIs, JobOf
<1>2. /\ work[p].who \in MChars /\ work[p].to \in MChars /\ work[p].put \in Seq(MRows) /\ work[p].gold \in Nat
  BY <1>1 DEF Senders
<1>3. work' \in [Postmen -> {Off} \cup Senders \cup Readers \cup Givers] /\ work'[p] = Off /\ \A q \in Postmen \ {p} : work'[q] = work[q]
  BY PostIs DEF MTypeOK
<1>4. \A q \in Postmen : work'[q].op = "give" => Len(work'[q].put) = Len(work'[q].items)
  BY <1>3, OffIs DEF MTypeOK
<1>5. ASSUME Posts(p, Due(p)) PROVE MTypeOK'
  <2>1. Due(p) \in Nat
    BY <1>1, PostIs, DueType
  <2>2. Charged(purse[work[p].who], Due(p), work[p].gold) \in Nat
    <3>1. purse[work[p].who] + 2 * GoldSize - Due(p) - work[p].gold \in Int
      BY <1>2, <2>1, Purses, SMTT(60) DEF MTypeOK
    <3> QED
      BY <3>1, Modulo DEF Charged
  <2>3. purse' \in [MChars -> Nat] /\ spent' \in Nat
    BY <1>2, <1>5, <2>1, <2>2, SMTT(60) DEF Posts, MTypeOK
  <2>4. Letter(work[p].who, work[p].to, work[p].put, work[p].gold) \in Mails
    BY <1>2, LetterIs DEF Mails
  <2>5. mails' \in Seq(Mails)
    BY <1>5, <2>4, AppendProperties DEF Posts, MTypeOK
  <2>6. noted' \in [MChars -> Seq(Notes)] /\ wrong' \subseteq Marks
    BY <1>5, EmptySeq DEF Posts, MTypeOK, Marks
  <2> QED
    BY <1>3, <1>4, <2>3, <2>5, <2>6, PostIs DEF MTypeOK
<1>6. ASSUME Refuses(p) PROVE MTypeOK'
  <2>1. wrong' \subseteq Marks
    BY <1>6 DEF Refuses, MTypeOK, Marks
  <2> QED
    BY <1>3, <1>4, <1>6, <2>1, PostIs DEF Refuses, MTypeOK
<1> QED
  BY <1>3, <1>5, <1>6, PostIs

LEMMA ReceiveTyped ==
  ASSUME MTypeOK, ReceiveItems
  PROVE  /\ MTypeOK'
         /\ \E m \in 1..Len(mails), p \in Postmen, j \in Readers :
              /\ mails[m] # NoLetter /\ work[p] = Off
              /\ j.who = mails[m].to /\ j.mail = m /\ j.items = mails[m].items /\ j.gold = mails[m].gold
              /\ work' = [work EXCEPT ![p] = j]
              /\ wrong' = {} => \A q \in Postmen : work[q].who # j.who
              /\ UNCHANGED <<satchel, itemRow, noted, mails, purse, spent, lost>>
<1>1. PICK m \in 1..Len(mails), p \in Postmen :
        /\ mails[m] # NoLetter /\ work[p] = Off
        /\ work' = [work EXCEPT ![p] = Job("read", mails[m].to, Nobody, m, mails[m].items, mails[m].gold)]
        /\ wrong' = IF \E q \in Postmen : work[q].who = mails[m].to THEN wrong \cup {"overlap"} ELSE wrong
        /\ UNCHANGED <<satchel, itemRow, noted, mails, purse, spent, lost>>
  BY DEF ReceiveItems
<1>2. PICK j : j = Job("read", mails[m].to, Nobody, m, mails[m].items, mails[m].gold)
  OBVIOUS
<1>3. mails[m].items \in Seq(MRows) /\ mails[m].gold \in Nat /\ m \in Nat \ {0}
  BY MailIs
<1>4. mails[m].to \in MChars
  BY <1>1, MailIs
<1>5. PICK c \in MChars, i \in Seq(MRows), g \in Nat : c = mails[m].to /\ i = mails[m].items /\ g = mails[m].gold
  BY <1>3, <1>4
<1>6. j \in Readers /\ j.who = c /\ j.mail = m /\ j.items = i /\ j.gold = g
  BY <1>2, <1>3, <1>5, ReadJob
<1>7. j.op # "give"
  BY <1>6 DEF Readers
<1>8. work' = [work EXCEPT ![p] = j] /\ wrong' \subseteq Marks
  BY <1>1, <1>2 DEF MTypeOK, Marks
<1>9. MTypeOK'
  BY <1>1, <1>6, <1>7, <1>8, WorkTyped
<1>10. j.who = mails[m].to /\ j.items = mails[m].items /\ j.gold = mails[m].gold
  BY <1>5, <1>6
<1>11. wrong' = {} => \A q \in Postmen : work[q].who # mails[m].to
  BY <1>1
<1>12. wrong' = {} => \A q \in Postmen : work[q].who # j.who
  BY <1>10, <1>11
<1> HIDE <1>2
<1> QED
  BY <1>1, <1>6, <1>8, <1>9, <1>10, <1>12

\* ChooseSlots finds slots or gives up.
LEMMA ChooseTyped ==
  ASSUME MTypeOK, NEW p \in Postmen, ChooseSlots(p)
  PROVE  /\ MTypeOK' /\ work[p] \in Readers
         /\ \E j \in {Off} \cup Givers :
              /\ work' = [work EXCEPT ![p] = j]
              /\ j # Off => j.who = work[p].who /\ j.mail = work[p].mail /\ j.items = work[p].items /\ j.gold = work[p].gold
         /\ UNCHANGED <<satchel, itemRow, noted, mails, purse, spent, lost, wrong>>
<1> DEFINE c == work[p].who
           n == Len(work[p].items)
<1>1. work[p] \in Readers
  BY JobOf, ZenonT(60) DEF ChooseSlots
<1>2. work[p].items \in Seq(MRows) /\ n \in Nat /\ c \in MChars
  BY <1>1, LenProperties DEF Readers
<1>3. UNCHANGED <<satchel, itemRow, noted, mails, purse, spent, lost, wrong>> /\ wrong' \subseteq Marks
  BY ZenonT(60) DEF ChooseSlots, MTypeOK
<1>4. CASE work' = [work EXCEPT ![p] = Off]
  <2>1. MTypeOK'
    BY <1>3, <1>4, OffIs, WorkTyped
  <2> QED
    BY <1>1, <1>3, <1>4, <2>1
<1>5. CASE \E q \in FreeSlots(c, n) : work' = [work EXCEPT ![p] = [@ EXCEPT !.op = "give", !.put = q]]
  <2>1. PICK q \in FreeSlots(c, n) : work' = [work EXCEPT ![p] = [work[p] EXCEPT !.op = "give", !.put = q]]
    BY <1>5, ZenonT(60)
  <2>2. q \in [1..n -> MSlots]
    BY <2>1 DEF FreeSlots, MFree
  <2>3. q \in Seq(MSlots) /\ Len(q) = n
    BY <1>2, <2>2, AsList
  <2>4. PICK j : j = [work[p] EXCEPT !.op = "give", !.put = q]
    OBVIOUS
  <2>5. j \in Givers /\ j.put = q
    BY <1>1, <2>3, <2>4 DEF Readers, Givers
  <2>6. j.who = work[p].who /\ j.mail = work[p].mail /\ j.items = work[p].items /\ j.gold = work[p].gold
    BY <1>1, <2>4 DEF Readers
  <2>7. Len(j.put) = Len(j.items)
    BY <2>3, <2>5, <2>6
  <2>8. work' = [work EXCEPT ![p] = j]
    BY <2>1, <2>4
  <2>9. MTypeOK'
    BY <1>3, <2>5, <2>7, <2>8, WorkTyped
  <2> QED
    BY <1>1, <1>3, <2>5, <2>6, <2>8, <2>9
<1> QED
  BY <1>4, <1>5, ZenonT(60) DEF ChooseSlots

\* GiveItem, its row and slot named.
Gives(p, r, s) ==
    /\ work[p].op = "give" /\ work[p].items # <<>>
    /\ r = Head(work[p].items) /\ s = Head(work[p].put)
    /\ UNCHANGED <<noted, mails, purse, spent, lost>>
GoesOn(p, r, s) ==
    /\ itemRow[r] # Removed
    /\ itemRow' = SetRow(r, [owner |-> work[p].who, slot |-> s])
    /\ satchel' = [satchel EXCEPT ![work[p].who][s] = r]
    /\ wrong' = IF satchel[work[p].who][s] # NoneIn THEN wrong \cup {"stale"} ELSE wrong
    /\ work' = [work EXCEPT ![p].items = Tail(@), ![p].put = Tail(@)]
GivesBack(p, r) == itemRow[r] = Removed /\ work' = [work EXCEPT ![p] = Off] /\ UNCHANGED <<satchel, itemRow, wrong>>
LEMMA GiveIs == \A p : GiveItem(p) => \E r, s : Gives(p, r, s) /\ (GoesOn(p, r, s) \/ GivesBack(p, r))
  BY DEF GiveItem, Gives, GoesOn, GivesBack

LEMMA GiveTyped ==
  ASSUME MTypeOK, NEW p \in Postmen, NEW r, NEW s, Gives(p, r, s), GoesOn(p, r, s)
  PROVE  /\ MTypeOK' /\ work[p] \in Givers /\ work'[p] \in Givers /\ r \in MRows /\ s \in MSlots
         /\ work'[p].who = work[p].who /\ work'[p].mail = work[p].mail /\ work'[p].gold = work[p].gold
         /\ work'[p].items = Tail(work[p].items)
         /\ \A q \in Postmen \ {p} : work'[q] = work[q]
<1>1. work[p] \in Givers
  BY JobOf DEF Gives
<1>2. PICK i : i = work[p].items
  OBVIOUS
<1>3. PICK u : u = work[p].put
  OBVIOUS
<1>4. i \in Seq(MRows) /\ u \in Seq(MSlots) /\ work[p].who \in MChars /\ Len(u) = Len(i) /\ i # <<>>
  BY <1>1, <1>2, <1>3 DEF Givers, MTypeOK, Gives
<1>5. Len(i) \in Nat \ {0} /\ Len(u) \in Nat
  BY <1>4, EmptySeq, LenProperties
<1>6. u # <<>>
  BY <1>4, <1>5, EmptySeq
<1>7. Head(i) \in MRows /\ Tail(i) \in Seq(MRows) /\ Len(Tail(i)) = Len(i) - 1
  BY <1>4, TakenOff
<1>8. Head(u) \in MSlots /\ Tail(u) \in Seq(MSlots) /\ Len(Tail(u)) = Len(u) - 1
  BY <1>4, <1>6, TakenOff
<1>9. r \in MRows /\ s \in MSlots
  BY <1>2, <1>3, <1>7, <1>8 DEF Gives
<1>10. PICK j : j = [work[p] EXCEPT !.items = Tail(i), !.put = Tail(u)]
  OBVIOUS
<1>11. j \in Givers
  BY <1>1, <1>7, <1>8, <1>10 DEF Givers
<1>12. j.who = work[p].who /\ j.mail = work[p].mail /\ j.gold = work[p].gold /\ j.items = Tail(i) /\ j.put = Tail(u)
  BY <1>1, <1>10 DEF Givers
<1>13. work' = [work EXCEPT ![p] = j]
  BY <1>2, <1>3, <1>10 DEF GoesOn, MTypeOK
<1>14. Len(j.put) = Len(j.items)
  BY <1>4, <1>7, <1>8, <1>12
<1>15. work' \in [Postmen -> {Off} \cup Senders \cup Readers \cup Givers] /\ work'[p] = j /\ \A q \in Postmen \ {p} : work'[q] = work[q]
  BY <1>11, <1>13 DEF MTypeOK
<1>16. \A q \in Postmen : work'[q].op = "give" => Len(work'[q].put) = Len(work'[q].items)
  BY <1>14, <1>15 DEF MTypeOK
<1>17. DOMAIN itemRow' = MRows /\ satchel' \in [MChars -> [MSlots -> MRows \cup {NoneIn}]] /\ wrong' \subseteq Marks
  BY <1>4, <1>9 DEF GoesOn, SetRow, MTypeOK, Marks
<1>18. MTypeOK'
  BY <1>15, <1>16, <1>17 DEF Gives, MTypeOK
<1> QED
  BY <1>1, <1>2, <1>9, <1>11, <1>12, <1>15, <1>18

LEMMA GiveUpTyped ==
  ASSUME MTypeOK, NEW p \in Postmen, NEW r, NEW s, Gives(p, r, s), GivesBack(p, r)
  PROVE  MTypeOK'
<1>1. wrong' \subseteq Marks
  BY DEF GivesBack, MTypeOK
<1> QED
  BY <1>1, OffIs, WorkTyped DEF Gives, GivesBack

LEMMA MarkTyped ==
  ASSUME MTypeOK, NEW p \in Postmen, MarkReceived(p)
  PROVE  /\ MTypeOK' /\ work[p] \in Givers /\ Len(mails') = Len(mails)
         /\ work'[p] = Off /\ \A q \in Postmen \ {p} : work'[q] = work[q]
         /\ \A m \in 1..Len(mails) : m # work[p].mail => mails'[m] = mails[m]
         /\ LET l == mails[work[p].mail] IN
            work[p].mail \in 1..Len(mails) /\ l # NoLetter => mails'[work[p].mail] = Emptied(l)
<1> DEFINE m == work[p].mail
<1>1. work[p] \in Givers /\ m \in Nat \ {0} /\ work[p].who \in MChars /\ work[p].gold \in Nat
  <2>1. work[p] \in Givers
    BY JobOf DEF MarkReceived
  <2> QED
    BY <2>1 DEF Givers
<1>2. mails \in Seq(Mails) /\ mails \in [1..Len(mails) -> Mails]
  BY LenProperties DEF MTypeOK
<1>3. /\ mails' \in Seq(Mails) /\ Len(mails') = Len(mails)
      /\ \A k \in 1..Len(mails) : k # m => mails'[k] = mails[k]
      /\ m \in 1..Len(mails) /\ mails[m] # NoLetter => mails'[m] = Emptied(mails[m])
  <2>1. CASE mails[m] = NoLetter
    BY <1>2, <2>1 DEF MarkReceived
  <2>2. CASE mails[m] # NoLetter /\ m \in 1..Len(mails)
    <3>1. PICK e : e = Emptied(mails[m])
      OBVIOUS
    <3>2. e \in Mails
      BY <2>2, <3>1, MailIs, EmptiedIs DEF Mails
    <3>3. mails' = [mails EXCEPT ![m] = e]
      BY <2>2, <3>1 DEF MarkReceived
    <3>4. mails' \in Seq(Mails) /\ Len(mails') = Len(mails) /\ \A k \in 1..Len(mails) : mails'[k] = IF k = m THEN e ELSE mails[k]
      BY <1>2, <2>2, <3>2, <3>3, ExceptSeq
    <3> QED
      BY <2>2, <3>1, <3>4
  <2>3. CASE mails[m] # NoLetter /\ m \notin 1..Len(mails)
    <3>1. mails' = [mails EXCEPT ![m] = Emptied(@)]
      BY <2>3 DEF MarkReceived
    <3>2. mails' = mails
      BY <1>2, <2>3, <3>1
    <3> QED
      BY <1>2, <2>3, <3>2
  <2> QED
    BY <2>1, <2>2, <2>3
<1>6. (purse[work[p].who] + work[p].gold) % GoldSize \in Nat
  <2>1. purse[work[p].who] + work[p].gold \in Int
    BY <1>1 DEF MTypeOK
  <2> QED
    BY <2>1, Modulo
<1>7. purse' \in [MChars -> Nat]
  BY <1>1, <1>6 DEF MarkReceived, MTypeOK
<1>8. /\ work' \in [Postmen -> {Off} \cup Senders \cup Readers \cup Givers]
      /\ work'[p] = Off /\ \A q \in Postmen \ {p} : work'[q] = work[q]
  BY DEF MarkReceived, MTypeOK
<1>9. \A q \in Postmen : work'[q].op = "give" => Len(work'[q].put) = Len(work'[q].items)
  BY <1>8, OffIs DEF MTypeOK
<1>10. MTypeOK'
  BY <1>3, <1>7, <1>8, <1>9 DEF MarkReceived, MTypeOK
<1> QED
  BY <1>1, <1>3, <1>8, <1>10

\* DeleteMessage, its mail named.
Deletes(m) ==
    /\ mails[m] # NoLetter
    /\ mails' = [mails EXCEPT ![m] = NoLetter]
    /\ lost' = lost \cup Range(mails[m].items)
    /\ spent' = spent + mails[m].gold
    /\ wrong' = IF \E p \in Postmen : work[p].mail = m THEN wrong \cup {"overlap"} ELSE wrong
    /\ UNCHANGED <<satchel, itemRow, noted, purse, work>>
LEMMA DeleteIs == DeleteMessage => \E m \in 1..Len(mails) : Deletes(m)
  BY DEF DeleteMessage, Deletes

LEMMA DeleteTyped ==
  ASSUME MTypeOK, NEW m \in 1..Len(mails), Deletes(m)
  PROVE  /\ MTypeOK' /\ Len(mails') = Len(mails) /\ mails'[m] = NoLetter
         /\ \A k \in 1..Len(mails) : k # m => mails'[k] = mails[k]
<1>1. /\ mails' \in Seq(Mails) /\ Len(mails') = Len(mails)
      /\ \A k \in 1..Len(mails) : mails'[k] = IF k = m THEN NoLetter ELSE mails[k]
  BY NoLetterIs, ExceptSeq DEF Deletes, MTypeOK
<1>2. Range(mails[m].items) \subseteq MRows /\ mails[m].gold \in Nat
  BY MailIs, RangeOfSeq
<1>3. lost' \subseteq MRows /\ spent' \in Nat /\ wrong' \subseteq Marks
  BY <1>2 DEF Deletes, MTypeOK, Marks
<1>4. MTypeOK'
  BY <1>1, <1>3 DEF Deletes, MTypeOK
<1> QED
  BY <1>1, <1>4

\* MoveInBag, its slots named.
Moves(c, s, t) ==
    /\ satchel[c][s] # NoneIn /\ satchel[c][t] = NoneIn
    /\ satchel' = [satchel EXCEPT ![c][s] = NoneIn, ![c][t] = satchel[c][s]]
    /\ itemRow' = SetRow(satchel[c][s], [owner |-> c, slot |-> t])
    /\ UNCHANGED <<noted, mails, purse, work, spent, lost, wrong>>
LEMMA MoveIs == MoveInBag => \E c \in MChars, s \in MSlots, t \in MSlots : Moves(c, s, t)
<1> SUFFICES ASSUME MoveInBag PROVE \E c \in MChars, s \in MSlots, t \in MSlots : Moves(c, s, t)
  OBVIOUS
<1>1. PICK c \in MChars : \E s \in MSlots \ MFree(c), t \in MFree(c) :
        /\ satchel' = [satchel EXCEPT ![c][s] = NoneIn, ![c][t] = satchel[c][s]]
        /\ itemRow' = SetRow(satchel[c][s], [owner |-> c, slot |-> t])
        /\ UNCHANGED <<noted, mails, purse, work, spent, lost, wrong>>
  BY DEF MoveInBag
<1>2. PICK s \in MSlots \ MFree(c), t \in MFree(c) :
        /\ satchel' = [satchel EXCEPT ![c][s] = NoneIn, ![c][t] = satchel[c][s]]
        /\ itemRow' = SetRow(satchel[c][s], [owner |-> c, slot |-> t])
        /\ UNCHANGED <<noted, mails, purse, work, spent, lost, wrong>>
  BY <1>1
<1>3. s \in MSlots /\ t \in MSlots /\ satchel[c][s] # NoneIn /\ satchel[c][t] = NoneIn
  BY <1>2 DEF MFree
<1> QED
  BY <1>2, <1>3 DEF Moves

LEMMA MoveTyped ==
  ASSUME MTypeOK, NEW c \in MChars, NEW s \in MSlots, NEW t \in MSlots, Moves(c, s, t)
  PROVE  /\ MTypeOK' /\ satchel[c][s] \in MRows
         /\ \A d \in MChars, u \in MSlots :
              satchel'[d][u] = IF d = c /\ u = t THEN satchel[c][s] ELSE IF d = c /\ u = s THEN NoneIn ELSE satchel[d][u]
<1>1. satchel[c][s] \in MRows /\ s # t
  BY DEF Moves, MTypeOK
<1>2. \A d \in MChars, u \in MSlots :
         satchel'[d][u] = IF d = c /\ u = t THEN satchel[c][s] ELSE IF d = c /\ u = s THEN NoneIn ELSE satchel[d][u]
  BY <1>1 DEF Moves, MTypeOK
<1>3. satchel' \in [MChars -> [MSlots -> MRows \cup {NoneIn}]]
  BY <1>1 DEF Moves, MTypeOK
<1>4. DOMAIN itemRow' = MRows
  BY DEF Moves, SetRow, MTypeOK
<1>5. MTypeOK'
  BY <1>3, <1>4 DEF Moves, MTypeOK
<1> QED
  BY <1>1, <1>2, <1>5

----------------------------------------------------------------------------
(* Homes *)

LEMMA OneHome ==
  ASSUME NEW b, NEW m, NEW h, AtHome(b, m, h)
  PROVE  /\ \A x \in b : b = {x} /\ m = {} /\ h = {}
         /\ \A x \in m : b = {} /\ m = {x} /\ h = {}
         /\ \A x \in h : b = {} /\ m = {} /\ h = {x}
  BY DEF AtHome

\* Where a row was found it is, and nowhere else; and it is not lost.
LEMMA FoundAt ==
  ASSUME HomeInv, NEW r \in MRows
  PROVE  /\ \A x \in InSlots(r) : r \notin lost /\ InSlots(r) = {x} /\ InMails(r) = {} /\ InHands(r) = {}
         /\ \A x \in InMails(r) : r \notin lost /\ InSlots(r) = {} /\ InMails(r) = {x} /\ InHands(r) = {}
         /\ \A x \in InHands(r) : r \notin lost /\ InSlots(r) = {} /\ InMails(r) = {} /\ InHands(r) = {x}
<1>1. CASE r \in lost
  BY <1>1 DEF HomeInv, NoHome
<1>2. CASE r \notin lost
  <2>1. AtHome(InSlots(r), InMails(r), InHands(r))
    BY <1>2 DEF HomeInv
  <2> QED
    BY <1>2, <2>1, OneHome
<1> QED
  BY <1>1, <1>2

\* A row keeps its home, or finds a new one.
KeepsHome(r) == InSlots(r)' = InSlots(r) /\ InMails(r)' = InMails(r) /\ InHands(r)' = InHands(r) /\ (r \in lost' <=> r \in lost)
GetsHome(r) == AtHome(InSlots(r)', InMails(r)', InHands(r)') /\ r \notin lost'
LosesHome(r) == NoHome(InSlots(r)', InMails(r)', InHands(r)') /\ r \in lost'
LEMMA HomesKept ==
  ASSUME HomeInv, \A r \in MRows : KeepsHome(r) \/ GetsHome(r) \/ LosesHome(r)
  PROVE  HomeInv'
<1> SUFFICES ASSUME NEW r \in MRows
    PROVE IF r \in lost' THEN NoHome(InSlots(r)', InMails(r)', InHands(r)') ELSE AtHome(InSlots(r)', InMails(r)', InHands(r)')
  BY DEF HomeInv, AtHome, NoHome
<1>1. CASE KeepsHome(r)
  BY <1>1 DEF KeepsHome, HomeInv
<1>2. CASE GetsHome(r)
  BY <1>2 DEF GetsHome
<1>3. CASE LosesHome(r)
  BY <1>3 DEF LosesHome
<1> QED
  BY <1>1, <1>2, <1>3

LEMMA SlotIs == ASSUME NEW r, NEW c \in MChars, NEW s \in MSlots PROVE <<c, s>> \in InSlots(r) <=> satchel[c][s] = r
  BY DEF InSlots

LEMMA SlotsAre == ASSUME NEW r, NEW h \in InSlots(r) PROVE \E c \in MChars, s \in MSlots : h = <<c, s>> /\ satchel[c][s] = r
  BY DEF InSlots

\* Slots, mails and hands that hold the same.
LEMMA SameSlots ==
  ASSUME NEW r, \A c \in MChars, s \in MSlots : satchel'[c][s] = r <=> satchel[c][s] = r
  PROVE  InSlots(r)' = InSlots(r)
  BY DEF InSlots

LEMMA SameMails ==
  ASSUME NEW r, Len(mails') = Len(mails), \A m \in 1..Len(mails) : Holds(m, r)' <=> Holds(m, r)
  PROVE  InMails(r)' = InMails(r)
  BY DEF InMails

LEMMA SameHands ==
  ASSUME NEW r, \A p \in Postmen : Hand(p, r)' <=> Hand(p, r)
  PROVE  InHands(r)' = InHands(r)
  BY DEF InHands

\* A mail that no handler touches holds what it held.
LEMMA SameMail ==
  ASSUME NEW m, NEW r, mails'[m].items = mails[m].items,
         \A p \in Postmen : Giving(p, m)' <=> Giving(p, m),
         \A p \in Postmen : Giving(p, m) => work'[p].items = work[p].items
  PROVE  Holds(m, r)' <=> Holds(m, r)
  BY DEF Holds

\* Handlers that go on about their characters, come to an end or begin.
LEMMA SoloKept ==
  ASSUME Solo, NEW p \in Postmen, \A q \in Postmen \ {p} : work'[q] = work[q],
         \/ work'[p] = Off
         \/ work[p] # Off /\ work'[p].who = work[p].who
         \/ \A q \in Postmen : work[q].who # work'[p].who
  PROVE  Solo'
<1> SUFFICES ASSUME NEW q \in Postmen, NEW t \in Postmen, q # t, work'[q] # Off, work'[t] # Off
             PROVE  work'[q].who # work'[t].who
  BY DEF Solo
<1>1. CASE q = p
  BY <1>1 DEF Solo
<1>2. CASE t = p
  BY <1>2 DEF Solo
<1>3. CASE q # p /\ t # p
  BY <1>3 DEF Solo
<1> QED
  BY <1>1, <1>2, <1>3

\* Only one handler gives out a mail.
LEMMA OneGiver ==
  ASSUME MTypeOK, Solo, ReadInv, NEW p \in Postmen, NEW q \in Postmen,
         work[p].op \in {"read", "give"}, work[q].op \in {"read", "give"}, work[p].mail = work[q].mail
  PROVE  p = q
<1>1. work[p] # Off /\ work[q] # Off
  BY OffIs
<1>2. work[p].who = work[q].who
  BY DEF ReadInv
<1> QED
  BY <1>1, <1>2 DEF Solo

\* The mail of one who receives is one of the mails.
LEMMA MailOf ==
  ASSUME MTypeOK, ReadInv, NEW p \in Postmen, work[p].op \in {"read", "give"}
  PROVE  work[p].mail \in 1..Len(mails) /\ work[p].mail \in Nat /\ work[p].items \in Seq(MRows)
<1>1. work[p] \in Readers \/ work[p] \in Givers
  BY JobOf
<1>2. work[p].mail \in Nat \ {0} /\ work[p].items \in Seq(MRows)
  BY <1>1 DEF Readers, Givers
<1>3. work[p].mail <= Len(mails) /\ Len(mails) \in Nat
  BY LenProperties DEF ReadInv, MTypeOK
<1> QED
  BY <1>2, <1>3

----------------------------------------------------------------------------
(* The steps, as long as nothing has gone wrong *)

LEMMA NothingNew ==
  ASSUME UnhurtInv, UNCHANGED <<satchel, itemRow, mails, purse, work, spent, lost>>
  PROVE  UnhurtInv'
<1>1. Solo' /\ ReadInv' /\ DistinctInv' /\ GoldInv'
  BY DEF UnhurtInv, Solo, ReadInv, DistinctInv, GoldInv, Wealth, Contents
<1>2. \A r : InSlots(r)' = InSlots(r) /\ InMails(r)' = InMails(r) /\ InHands(r)' = InHands(r)
  BY DEF InSlots, InMails, InHands, Hand, Holds, Giving
<1>3. HomeInv'
  BY <1>2, HomesKept DEF UnhurtInv, KeepsHome
<1>4. RowsTell'
  BY <1>2 DEF UnhurtInv, RowsTell
<1> QED
  BY <1>1, <1>3, <1>4 DEF UnhurtInv

\* A handler begins, goes on or ends, and moves nothing.
LEMMA JobChanges ==
  ASSUME MTypeOK, UnhurtInv, NEW p \in Postmen, \A q \in Postmen \ {p} : work'[q] = work[q],
         UNCHANGED <<satchel, itemRow, mails, purse, spent, lost>>,
         \/ work'[p] = Off
         \/ work[p] # Off /\ work'[p].who = work[p].who
         \/ \A q \in Postmen : work[q].who # work'[p].who,
         work'[p].op \in {"read", "give"} =>
            /\ work'[p].mail \in 1..Len(mails) /\ mails[work'[p].mail] # NoLetter
            /\ mails[work'[p].mail].to = work'[p].who /\ mails[work'[p].mail].gold = work'[p].gold
            /\ mails[work'[p].mail].items = work'[p].items,
         work[p].op # "give", work[p].op = "send" => work[p].put = <<>>, work'[p].op = "send" => work'[p].put = <<>>,
         work'[p].op = "give" => work[p].op = "read" /\ work'[p].mail = work[p].mail
  PROVE  UnhurtInv'
<1>1. Solo'
  BY SoloKept DEF UnhurtInv
<1>2. Len(mails) \in Nat
  BY LenProperties DEF MTypeOK
<1>3. ReadInv'
  <2> SUFFICES ASSUME NEW q \in Postmen, work'[q].op \in {"read", "give"}
        PROVE /\ work'[q].mail <= Len(mails) /\ mails[work'[q].mail] # NoLetter
              /\ mails[work'[q].mail].to = work'[q].who /\ mails[work'[q].mail].gold = work'[q].gold
              /\ work'[q].op = "read" => mails[work'[q].mail].items = work'[q].items
    BY DEF ReadInv
  <2>1. CASE q = p
    BY <1>2, <2>1
  <2>2. CASE q # p
    BY <2>2 DEF UnhurtInv, ReadInv
  <2> QED
    BY <2>1, <2>2
<1>4. DistinctInv'
  <2>1. \A m \in 1..Len(mails') : Distinct(mails'[m].items)
    BY DEF UnhurtInv, DistinctInv
  <2>2. ASSUME NEW q \in Postmen
        PROVE  (work'[q].op = "give" => Distinct(work'[q].items)) /\ (work'[q].op = "send" => Distinct(work'[q].put))
    <3>1. CASE q = p
      <4>1. work'[p].op = "give" => Distinct(work'[p].items)
        BY DEF UnhurtInv, DistinctInv
      <4> QED
        BY <3>1, <4>1, NothingDistinct
    <3>2. CASE q # p
      BY <3>2 DEF UnhurtInv, DistinctInv
    <3> QED
      BY <3>1, <3>2
  <2> QED
    BY <2>1, <2>2 DEF DistinctInv
<1>5. \A r : InSlots(r)' = InSlots(r)
  BY SameSlots
<1>6. ASSUME NEW r PROVE InHands(r)' = InHands(r)
  <2>1. ~Hand(p, r) /\ ~Hand(p, r)'
    BY NothingHeld DEF Hand
  <2>2. \A q \in Postmen : Hand(q, r)' <=> Hand(q, r)
    BY <2>1 DEF Hand
  <2> QED
    BY <2>2, SameHands
<1>7. ASSUME NEW r PROVE InMails(r)' = InMails(r)
  <2> SUFFICES ASSUME NEW m \in 1..Len(mails) PROVE Holds(m, r)' <=> Holds(m, r)
    BY SameMails
  <2>1. CASE ~(work'[p].op = "give" /\ work'[p].mail = m)
    <3>1. \A q \in Postmen : (Giving(q, m)' <=> Giving(q, m)) /\ (Giving(q, m) => work'[q].items = work[q].items)
      BY <2>1 DEF Giving
    <3> QED
      BY <3>1, SameMail
  <2>2. CASE work'[p].op = "give" /\ work'[p].mail = m
    <3>1. work[p].op = "read" /\ work[p].mail = m /\ work'[p].items = mails[m].items
      BY <2>2
    <3>2. \A q \in Postmen : Giving(q, m) => q = p
      BY <3>1, OneGiver DEF Giving, UnhurtInv
    <3>3. \A q \in Postmen : ~Giving(q, m)
      BY <3>1, <3>2 DEF Giving
    <3>4. \A q \in Postmen : Giving(q, m)' <=> q = p
      BY <2>2, <3>3 DEF Giving
    <3> QED
      BY <3>1, <3>3, <3>4 DEF Holds
  <2> QED
    BY <2>1, <2>2
<1>8. HomeInv'
  BY <1>5, <1>6, <1>7, HomesKept DEF UnhurtInv, KeepsHome
<1>9. RowsTell'
  BY <1>6, <1>7 DEF UnhurtInv, RowsTell
<1>10. GoldInv'
  BY DEF UnhurtInv, GoldInv, Wealth, Contents
<1> QED
  BY <1>1, <1>3, <1>4, <1>8, <1>9, <1>10 DEF UnhurtInv

LEMMA SendUnhurt == ASSUME MTypeOK, UnhurtInv, SendMessage, wrong' = {} PROVE UnhurtInv'
<1>1. PICK p \in Postmen, j \in Senders :
        /\ work[p] = Off /\ j.put = <<>> /\ work' = [work EXCEPT ![p] = j]
        /\ wrong' = {} => \A q \in Postmen : work[q].who # j.who
        /\ UNCHANGED <<satchel, itemRow, noted, mails, purse, spent, lost>>
  BY SendTyped
<1>2. work'[p] = j /\ \A q \in Postmen \ {p} : work'[q] = work[q]
  BY <1>1 DEF MTypeOK
<1>3. j.op = "send" /\ work[p].op = "off"
  BY <1>1, OffIs DEF Senders
<1>4. \A q \in Postmen : work[q].who # work'[p].who
  BY <1>1, <1>2
<1> QED
  BY <1>1, <1>2, <1>3, <1>4, JobChanges

LEMMA ReceiveUnhurt == ASSUME MTypeOK, UnhurtInv, ReceiveItems, wrong' = {} PROVE UnhurtInv'
<1>1. PICK m \in 1..Len(mails), p \in Postmen, j \in Readers :
        /\ mails[m] # NoLetter /\ work[p] = Off
        /\ j.who = mails[m].to /\ j.mail = m /\ j.items = mails[m].items /\ j.gold = mails[m].gold
        /\ work' = [work EXCEPT ![p] = j]
        /\ wrong' = {} => \A q \in Postmen : work[q].who # j.who
        /\ UNCHANGED <<satchel, itemRow, noted, mails, purse, spent, lost>>
  BY ReceiveTyped
<1>2. work'[p] = j /\ \A q \in Postmen \ {p} : work'[q] = work[q]
  BY <1>1 DEF MTypeOK
<1>3. j.op = "read" /\ work[p].op = "off"
  BY <1>1, OffIs DEF Readers
<1>4. \A q \in Postmen : work[q].who # work'[p].who
  BY <1>1, <1>2
<1> QED
  BY <1>1, <1>2, <1>3, <1>4, JobChanges

LEMMA ChooseUnhurt == ASSUME MTypeOK, UnhurtInv, NEW p \in Postmen, ChooseSlots(p), wrong' = {} PROVE UnhurtInv'
<1>1. work[p] \in Readers /\ UNCHANGED <<satchel, itemRow, noted, mails, purse, spent, lost, wrong>>
  BY ChooseTyped
<1>2. PICK j \in {Off} \cup Givers :
        /\ work' = [work EXCEPT ![p] = j]
        /\ j # Off => j.who = work[p].who /\ j.mail = work[p].mail /\ j.items = work[p].items /\ j.gold = work[p].gold
  BY ChooseTyped
<1>3. work'[p] = j /\ \A q \in Postmen \ {p} : work'[q] = work[q]
  BY <1>2 DEF MTypeOK
<1>4. work[p].op = "read" /\ work[p] # Off
  BY <1>1, OffIs DEF Readers
<1>5. j # Off => j.op = "give"
  BY DEF Givers
<1>6. /\ work[p].mail \in 1..Len(mails) /\ mails[work[p].mail] # NoLetter
      /\ mails[work[p].mail].to = work[p].who /\ mails[work[p].mail].gold = work[p].gold
      /\ mails[work[p].mail].items = work[p].items
  BY <1>4, MailOf DEF UnhurtInv, ReadInv
<1>7. CASE j = Off
  BY <1>1, <1>3, <1>4, <1>7, OffIs, JobChanges
<1>8. CASE j # Off
  BY <1>1, <1>2, <1>3, <1>4, <1>5, <1>6, <1>8, JobChanges
<1> QED
  BY <1>7, <1>8

\* An item is taken out of its slot: it is in hand then.
LEMMA TakeUnhurt ==
  ASSUME MTypeOK, UnhurtInv, NEW p \in Postmen, NEW n, NEW r, Takes(p, n, r), wrong' = {}
  PROVE  UnhurtInv'
<1> USE DEF UnhurtInv
<1>0. /\ n \in Notes /\ work[p] \in Senders /\ work'[p] \in Senders
      /\ work'[p].who = work[p].who /\ work'[p].put = Append(work[p].put, n.row)
      /\ \A q \in Postmen \ {p} : work'[q] = work[q]
  BY TakeTyped, SMTT(60)
<1>1. /\ r = n.row /\ r \in MRows /\ n.slot \in MSlots /\ work[p].who \in MChars /\ work[p].put \in Seq(MRows)
      /\ r = satchel[work[p].who][n.slot] /\ r # NoneIn
      /\ work[p].op = "send" /\ work'[p].op = "send" /\ work[p] # Off
  BY <1>0, MailAssumption, OffIs, ZenonT(60) DEF Takes, Notes, Senders
<1> DEFINE c == work[p].who
           s == n.slot
<1>2. r \notin lost /\ InSlots(r) = {<<c, s>>} /\ InMails(r) = {} /\ InHands(r) = {}
  <2>1. <<c, s>> \in InSlots(r)
    BY <1>1, SlotIs
  <2> QED
    BY <1>1, <2>1, FoundAt
<1>3. itemRow' = [itemRow EXCEPT ![r] = Orphan]
  <2>1. itemRow[r] = [owner |-> c, slot |-> s]
    BY <1>1 DEF RowsTell
  <2>2. itemRow[r] # Removed
    BY <1>1, <2>1, MailAssumption, SMTT(60) DEF Removed
  <2> QED
    BY <1>1, <2>2, ZenonT(60) DEF Takes, SetRow
<1>4. \A d \in MChars, u \in MSlots : satchel'[d][u] = IF d = c /\ u = s THEN NoneIn ELSE satchel[d][u]
  BY <1>1, ZenonT(60) DEF Takes, MTypeOK
<1>5. UNCHANGED <<mails, purse, spent, lost>>
  BY ZenonT(60) DEF Takes
<1>6. \A m, x : Holds(m, x)' <=> Holds(m, x)
  <2>1. \A q \in Postmen : \A m : (Giving(q, m)' <=> Giving(q, m)) /\ (Giving(q, m) => work'[q].items = work[q].items)
    BY <1>0, <1>1 DEF Giving
  <2> QED
    BY <1>5, <2>1, SameMail
<1>7. \A x : Hand(p, x)' <=> x = r \/ Hand(p, x)
  <2>1. \A x : x \in Range(work'[p].put) <=> x = r \/ x \in Range(work[p].put)
    BY <1>0, <1>1, Appended
  <2> QED
    BY <1>1, <2>1 DEF Hand
<1>8. \A q \in Postmen \ {p} : \A x : Hand(q, x)' <=> Hand(q, x)
  BY <1>0 DEF Hand
<1>9. ASSUME NEW x \in MRows, x # r PROVE KeepsHome(x)
  <2>1. \A d \in MChars, u \in MSlots : satchel'[d][u] = x <=> satchel[d][u] = x
    BY <1>1, <1>4, <1>9, MailAssumption
  <2>2. InSlots(x)' = InSlots(x)
    BY <2>1, SameSlots
  <2>3. InMails(x)' = InMails(x)
    BY <1>5, <1>6, SameMails
  <2>4. InHands(x)' = InHands(x)
    BY <1>7, <1>8, <1>9, SameHands
  <2> QED
    BY <1>5, <2>2, <2>3, <2>4 DEF KeepsHome
<1>10. InSlots(r)' = {} /\ InMails(r)' = {} /\ InHands(r)' = {p}
  <2>1. ASSUME NEW h \in InSlots(r)' PROVE FALSE
    <3>1. PICK d \in MChars, u \in MSlots : h = <<d, u>> /\ satchel'[d][u] = r
      BY <2>1 DEF InSlots
    <3>2. satchel[d][u] = r /\ ~(d = c /\ u = s)
      BY <1>1, <1>4, <3>1
    <3>3. <<d, u>> \in InSlots(r)
      BY <3>2, SlotIs
    <3> QED
      BY <1>2, <3>2, <3>3
  <2>2. InMails(r)' = InMails(r)
    BY <1>5, <1>6, SameMails
  <2>3. \A q \in Postmen : Hand(q, r)' <=> q = p
    BY <1>2, <1>7, <1>8 DEF InHands
  <2> QED
    BY <1>2, <2>1, <2>2, <2>3 DEF InHands
<1>11. HomeInv'
  <2>1. GetsHome(r)
    BY <1>2, <1>5, <1>10 DEF GetsHome, AtHome
  <2> QED
    BY <1>9, <2>1, HomesKept
<1>12. RowsTell'
  <2>1. ASSUME NEW d \in MChars, NEW u \in MSlots, satchel'[d][u] # NoneIn
        PROVE  itemRow'[satchel'[d][u]] = [owner |-> d, slot |-> u]
    <3>1. satchel'[d][u] = satchel[d][u] /\ ~(d = c /\ u = s)
      BY <1>4, <2>1
    <3>2. satchel[d][u] # r
      <4>1. satchel[d][u] = r => <<d, u>> \in InSlots(r)
        BY SlotIs
      <4> QED
        BY <1>2, <3>1, <4>1
    <3> QED
      BY <1>3, <2>1, <3>1, <3>2 DEF RowsTell
  <2>2. ASSUME NEW x \in MRows, InMails(x)' # {} \/ InHands(x)' # {} PROVE itemRow'[x] = Orphan
    <3>1. CASE x = r
      BY <1>1, <1>3, <3>1 DEF MTypeOK
    <3>2. CASE x # r
      BY <1>3, <1>9, <2>2, <3>2 DEF KeepsHome, RowsTell
    <3> QED
      BY <3>1, <3>2
  <2> QED
    BY <2>1, <2>2 DEF RowsTell
<1>13. Solo'
  BY <1>0, <1>1, SoloKept
<1>14. ReadInv'
  BY <1>0, <1>1, <1>5 DEF ReadInv
<1>15. DistinctInv'
  <2>1. r \notin Range(work[p].put)
    BY <1>1, <1>2 DEF InHands, Hand
  <2>2. Distinct(work'[p].put)
    BY <1>0, <1>1, <2>1, Appended DEF DistinctInv
  <2> QED
    BY <1>0, <1>1, <1>5, <2>2 DEF DistinctInv
<1>16. GoldInv'
  BY <1>5 DEF GoldInv, Wealth, Contents
<1> QED
  BY <1>11, <1>12, <1>13, <1>14, <1>15, <1>16

\* An item is given: it is in a slot then.
LEMMA GiveUnhurt ==
  ASSUME MTypeOK, UnhurtInv, NEW p \in Postmen, NEW r, NEW s, Gives(p, r, s), GoesOn(p, r, s), wrong' = {}
  PROVE  UnhurtInv'
<1> USE DEF UnhurtInv
<1>0. /\ work[p] \in Givers /\ work'[p] \in Givers /\ r \in MRows /\ s \in MSlots
      /\ work'[p].who = work[p].who /\ work'[p].mail = work[p].mail /\ work'[p].gold = work[p].gold
      /\ work'[p].items = Tail(work[p].items)
      /\ \A q \in Postmen \ {p} : work'[q] = work[q]
  BY GiveTyped
<1> DEFINE c == work[p].who
           rest == work'[p].items
<1>21. PICK k : k = work[p].mail
  OBVIOUS
<1>1. /\ work[p].op = "give" /\ work'[p].op = "give" /\ work[p] # Off /\ c \in MChars
      /\ k \in 1..Len(mails) /\ work[p].items \in Seq(MRows) /\ r # NoneIn
  BY <1>0, <1>21, MailOf, OffIs, MailAssumption DEF Givers
<1>2. /\ r \in Range(work[p].items) /\ r \notin Range(rest) /\ Distinct(rest)
      /\ \A x : x # r => (x \in Range(rest) <=> x \in Range(work[p].items))
  <2>1. PICK i : i = work[p].items
    OBVIOUS
  <2>2. i \in Seq(MRows) /\ i # <<>> /\ Distinct(i) /\ r = Head(i) /\ rest = Tail(i)
    BY <1>0, <1>1, <2>1 DEF Gives, DistinctInv
  <2> HIDE DEF rest
  <2> QED
    BY <2>1, <2>2, TakenOff
<1>3. \A q \in Postmen : Giving(q, k) <=> q = p
  BY <1>1, <1>21, OneGiver DEF Giving
<1>4. Holds(k, r)
  BY <1>1, <1>2, <1>3, <1>21 DEF Holds
<1>5. r \notin lost /\ InSlots(r) = {} /\ InMails(r) = {k} /\ InHands(r) = {}
  <2>1. k \in InMails(r)
    BY <1>1, <1>4 DEF InMails
  <2> QED
    BY <1>0, <2>1, FoundAt
<1>6. itemRow' = [itemRow EXCEPT ![r] = [owner |-> c, slot |-> s]] /\ satchel[c][s] = NoneIn
  BY <1>1 DEF GoesOn, SetRow
<1>7. \A d \in MChars, u \in MSlots : satchel'[d][u] = IF d = c /\ u = s THEN r ELSE satchel[d][u]
  BY <1>0, <1>1 DEF GoesOn, MTypeOK
<1>8. UNCHANGED <<mails, purse, spent, lost>>
  BY DEF Gives
<1>9. \A q \in Postmen : \A m : Giving(q, m)' <=> Giving(q, m)
  BY <1>0, <1>1 DEF Giving
<1>10. ASSUME NEW m, NEW x, m # k \/ x # r PROVE Holds(m, x)' <=> Holds(m, x)
  <2>1. CASE m # k
    <3>1. \A q \in Postmen : Giving(q, m) => work'[q].items = work[q].items
      BY <1>0, <1>21, <2>1 DEF Giving
    <3> QED
      BY <1>8, <1>9, <3>1, SameMail
  <2>2. CASE m = k /\ x # r
    <3>1. Holds(k, x) <=> x \in Range(work[p].items)
      BY <1>3 DEF Holds
    <3>2. Holds(k, x)' <=> x \in Range(rest)
      BY <1>3, <1>9 DEF Holds
    <3> QED
      BY <1>2, <2>2, <3>1, <3>2
  <2> QED
    BY <1>10, <2>1, <2>2
<1>11. ~Holds(k, r)'
  BY <1>2, <1>3, <1>9 DEF Holds
<1>12. \A q \in Postmen : \A x : Hand(q, x)' <=> Hand(q, x)
  BY <1>0, <1>1 DEF Hand
<1> HIDE DEF rest
<1>13. ASSUME NEW x \in MRows, x # r PROVE KeepsHome(x)
  <2>1. \A d \in MChars, u \in MSlots : satchel'[d][u] = x <=> satchel[d][u] = x
    BY <1>6, <1>7, <1>13, MailAssumption
  <2>2. InSlots(x)' = InSlots(x)
    BY <2>1, SameSlots
  <2>3. InMails(x)' = InMails(x)
    BY <1>8, <1>10, <1>13, SameMails
  <2>4. InHands(x)' = InHands(x)
    BY <1>12, SameHands
  <2> QED
    BY <1>8, <2>2, <2>3, <2>4 DEF KeepsHome
<1>14. InSlots(r)' = {<<c, s>>} /\ InMails(r)' = {} /\ InHands(r)' = {}
  <2>1. ASSUME NEW d \in MChars, NEW u \in MSlots PROVE satchel'[d][u] = r <=> d = c /\ u = s
    <3>1. satchel[d][u] # r
      BY <1>5, SlotIs
    <3> QED
      BY <1>7, <3>1
  <2>2. <<c, s>> \in MChars \X MSlots /\ \A h \in MChars \X MSlots : h[1] \in MChars /\ h[2] \in MSlots /\ h = <<h[1], h[2]>>
    BY <1>0, <1>1
  <2>3. InSlots(r)' = {h \in MChars \X MSlots : satchel'[h[1]][h[2]] = r}
    BY DEF InSlots
  <2>4. InSlots(r)' = {<<c, s>>}
    BY <2>1, <2>2, <2>3
  <2>5. \A m \in 1..Len(mails) : ~Holds(m, r)'
    <3> SUFFICES ASSUME NEW m \in 1..Len(mails), m # k PROVE ~Holds(m, r)'
      BY <1>11
    <3>1. ~Holds(m, r)
      BY <1>5 DEF InMails
    <3> QED
      BY <1>10, <3>1
  <2>6. InMails(r)' = {}
    BY <1>8, <2>5 DEF InMails
  <2>7. InHands(r)' = {}
    BY <1>5, <1>12, SameHands
  <2> QED
    BY <2>4, <2>6, <2>7
<1>15. HomeInv'
  <2>1. GetsHome(r)
    BY <1>5, <1>8, <1>14 DEF GetsHome, AtHome
  <2> QED
    BY <1>13, <2>1, HomesKept
<1>16. RowsTell'
  <2>1. ASSUME NEW d \in MChars, NEW u \in MSlots, satchel'[d][u] # NoneIn
        PROVE  itemRow'[satchel'[d][u]] = [owner |-> d, slot |-> u]
    <3>1. CASE d = c /\ u = s
      BY <1>0, <1>6, <1>7, <3>1 DEF MTypeOK
    <3>2. CASE ~(d = c /\ u = s)
      <4>1. satchel'[d][u] = satchel[d][u] /\ satchel[d][u] # r
        BY <1>5, <1>7, <3>2, SlotIs
      <4> QED
        BY <1>6, <2>1, <4>1 DEF RowsTell
    <3> QED
      BY <3>1, <3>2
  <2>2. ASSUME NEW x \in MRows, InMails(x)' # {} \/ InHands(x)' # {} PROVE itemRow'[x] = Orphan
    <3>1. x # r
      BY <1>14, <2>2
    <3> QED
      BY <1>6, <1>13, <2>2, <3>1 DEF KeepsHome, RowsTell
  <2> QED
    BY <2>1, <2>2 DEF RowsTell
<1>17. Solo'
  BY <1>0, <1>1, SoloKept
<1>18. ReadInv'
  BY <1>0, <1>1, <1>8 DEF ReadInv
<1>19. DistinctInv'
  BY <1>0, <1>1, <1>2, <1>8 DEF DistinctInv, rest
<1>20. GoldInv'
  BY <1>8 DEF GoldInv, Wealth, Contents
<1> QED
  BY <1>15, <1>16, <1>17, <1>18, <1>19, <1>20

\* Nobody finds that the item of a mail is gone.
LEMMA NeverGivesUp ==
  ASSUME MTypeOK, UnhurtInv, NEW p \in Postmen, NEW r, NEW s, Gives(p, r, s), GivesBack(p, r)
  PROVE  FALSE
<1>1. work[p].op = "give" /\ work[p].mail \in 1..Len(mails) /\ work[p].items \in Seq(MRows) /\ work[p].items # <<>>
  BY MailOf DEF Gives, UnhurtInv
<1>2. r \in MRows /\ r \in Range(work[p].items)
  <2>1. PICK i : i = work[p].items
    OBVIOUS
  <2> QED
    BY <1>1, <2>1, TakenOff DEF Gives
<1>3. work[p].mail \in InMails(r)
  BY <1>1, <1>2 DEF InMails, Holds, Giving
<1>4. itemRow[r] = Orphan
  BY <1>2, <1>3 DEF UnhurtInv, RowsTell
<1> QED
  BY <1>4, MailAssumption DEF GivesBack, Orphan, Removed

\* Gold that leaves the range of its type wraps, and other gold does not.
LEMMA NoWrap == \A n \in Nat : n < GoldSize => n % GoldSize = n /\ (n + 2 * GoldSize) % GoldSize = n
<1>1. PICK G \in Nat \ {0} : G = GoldSize
  BY Purses
<1>2. ASSUME NEW n \in Nat, n < G PROVE n % G = n /\ (n + 2 * G) % G = n
  <2>1. n = G * 0 + n /\ n + 2 * G = G * 2 + n
    BY <1>1
  <2> QED
    BY <1>1, <1>2, <2>1
<1> QED
  BY <1>1, <1>2

\* A mail is sent: what was in hand is in it.
LEMMA PostGold ==
  ASSUME MTypeOK, GoldInv, NEW p \in Postmen, work[p].op = "send", Posts(p, Due(p)), wrong' = {}
  PROVE  GoldInv'
<1>1. work[p] \in Senders /\ Due(p) \in Nat
  BY JobOf, DueType
<1>2. PICK c, d, u, g, a, n : c = work[p].who /\ d = work[p].to /\ u = work[p].put /\ g = work[p].gold /\ a = Due(p) /\ n = Len(mails)
  OBVIOUS
<1>3. c \in MChars /\ d \in MChars /\ u \in Seq(MRows) /\ g \in Nat /\ a \in Nat /\ n \in Nat
  BY <1>1, <1>2, LenProperties DEF Senders, MTypeOK
<1>4. purse[c] \in Nat /\ g + a <= purse[c] /\ purse \in [MChars -> Nat] /\ purse' = [purse EXCEPT ![c] = Charged(@, a, g)]
  <2>1. purse \in [MChars -> Nat] /\ purse[c] \in Nat
    BY <1>3 DEF MTypeOK
  <2>2. purse' = [purse EXCEPT ![c] = Charged(@, a, g)] /\ wrong' = IF purse[c] < g + a THEN wrong \cup {"wrapped"} ELSE wrong
    BY <1>2 DEF Posts
  <2>3. ~(purse[c] < g + a)
    BY <2>2
  <2> QED
    BY <1>3, <2>1, <2>2, <2>3
<1>5. SumFunction(purse) \in Nat /\ purse[c] <= SumFunction(purse)
  BY <1>3, <1>4, Purses, SumOverAll
<1>6. SumFunction(Contents) \in Nat /\ Contents \in [1..n -> Nat] /\ spent \in Nat
  <2>1. Contents \in [1..n -> Nat] /\ IsFiniteSet(1..n)
    BY <1>2, GoldIn
  <2> QED
    BY <2>1, SumOverAll DEF MTypeOK
<1>7. SumFunction(Contents) + SumFunction(purse) + spent = AllGold
  BY DEF GoldInv, Wealth
<1>8. purse[c] < GoldSize
  BY <1>4, <1>5, <1>6, <1>7, Purses
<1>9. Charged(purse[c], a, g) = purse[c] - (a + g)
  <2>1. PICK x \in Nat : x = purse[c] - (a + g)
    BY <1>3, <1>4
  <2>2. x < GoldSize /\ purse[c] + 2 * GoldSize - a - g = x + 2 * GoldSize
    BY <1>3, <1>4, <1>8, <2>1, Purses, SMTT(60)
  <2> QED
    BY <2>1, <2>2, NoWrap DEF Charged
<1>10. purse' \in [MChars -> Nat] /\ \A e \in MChars \ {c} : purse[e] = purse'[e]
  BY <1>3, <1>4, <1>9
<1>11. purse'[c] = purse[c] - (a + g)
  BY <1>3, <1>4, <1>9
<1>12. SumFunction(purse') = (SumFunction(purse) - purse[c]) + purse'[c]
  <2>1. PICK f \in [MChars -> Nat] : f = purse'
    BY <1>10
  <2>2. \A e \in MChars \ {c} : purse[e] = f[e]
    BY <1>10, <2>1
  <2>3. SumFunction(f) = (SumFunction(purse) - purse[c]) + f[c]
    BY <1>3, <1>4, <2>2, Purses, OneTerm, ZenonT(60)
  <2> QED
    BY <2>1, <2>3
<1>13. PICK l : l = Letter(c, d, u, g)
  OBVIOUS
<1>14. l \in Mails /\ l.gold = g
  BY <1>3, <1>13, LetterIs DEF Mails
<1>15. mails' = Append(mails, l) /\ mails \in Seq(Mails) /\ mails' \in Seq(Mails)
  BY <1>2, <1>13, <1>14, AppendProperties DEF Posts, MTypeOK
<1>16. Len(mails') = n + 1 /\ (\A m \in 1..n : mails'[m] = mails[m]) /\ mails'[n + 1] = l
  BY <1>2, <1>14, <1>15, AppendProperties
<1>17. Contents' = [m \in 1..n + 1 |-> mails'[m].gold]
  BY <1>16 DEF Contents
<1>18. Contents' \in [1..n + 1 -> Nat] /\ (\A m \in 1..n : Contents[m] = Contents'[m]) /\ Contents'[n + 1] = g
  <2>1. \A m \in 1..n : m \in 1..n + 1 /\ Contents[m] = mails[m].gold /\ Contents[m] \in Nat
    BY <1>2, <1>3, <1>6 DEF Contents
  <2>2. \A m \in 1..n + 1 : m \in 1..n \/ m = n + 1
    BY <1>3
  <2>3. \A m \in 1..n + 1 : mails'[m].gold \in Nat
    BY <1>3, <1>14, <1>16, <2>1, <2>2
  <2>4. n + 1 \in 1..n + 1
    BY <1>3
  <2> QED
    BY <1>14, <1>16, <1>17, <2>1, <2>3, <2>4
<1>19. SumFunction(Contents') = SumFunction(Contents) + g
  <2>1. PICK f \in [1..n + 1 -> Nat] : f = Contents'
    BY <1>18
  <2>2. (\A m \in 1..n : Contents[m] = f[m]) /\ f[n + 1] = g
    BY <1>18, <2>1
  <2>3. SumFunction(f) = SumFunction(Contents) + f[n + 1]
    BY <1>3, <1>6, <2>2, OneMore
  <2> QED
    BY <2>1, <2>2, <2>3
<1>20. spent' = spent + a
  BY <1>2 DEF Posts
<1>21. SumFunction(Contents') + SumFunction(purse') + spent' = AllGold
  <2>1. PICK x, y, z, k \in Nat : x = SumFunction(Contents) /\ y = SumFunction(purse) /\ z = spent /\ k = purse[c]
    BY <1>4, <1>5, <1>6
  <2>2. SumFunction(Contents') = x + g /\ SumFunction(purse') = (y - k) + (k - (a + g)) /\ spent' = z + a
    BY <1>11, <1>12, <1>19, <1>20, <2>1
  <2>3. (x + g) + ((y - k) + (k - (a + g))) + (z + a) = x + y + z
    BY <1>3
  <2> QED
    BY <1>7, <2>1, <2>2, <2>3
<1> QED
  BY <1>21 DEF GoldInv, Wealth

LEMMA PostUnhurt ==
  ASSUME MTypeOK, UnhurtInv, NEW p \in Postmen, PostMail(p), Posts(p, Due(p)), wrong' = {}
  PROVE  UnhurtInv'
<1> USE DEF UnhurtInv
<1>0. work'[p] = Off /\ (\A q \in Postmen \ {p} : work'[q] = work[q]) /\ work[p].op = "send" /\ work'[p].op = "off"
  BY PostTyped, PostIs, OffIs
<1>1. PICK l : l = Letter(work[p].who, work[p].to, work[p].put, work[p].gold)
  OBVIOUS
<1>2. work[p] \in Senders /\ work[p].put \in Seq(MRows)
  BY <1>0, JobOf DEF Senders
<1>3. l \in Mails /\ l.items = work[p].put
  BY <1>1, <1>2, LetterIs DEF Senders, Mails
<1>4. PICK n \in Nat : n = Len(mails)
  BY LenProperties DEF MTypeOK
<1>5. Len(mails') = n + 1 /\ (\A m \in 1..n : mails'[m] = mails[m]) /\ mails'[n + 1] = l
  BY <1>1, <1>3, <1>4, AppendProperties DEF Posts, MTypeOK
<1>6. UNCHANGED <<satchel, itemRow, lost>>
  BY PostIs
<1>7. \A q \in Postmen, m \in Nat : Giving(q, m)' <=> Giving(q, m)
  BY <1>0 DEF Giving
<1>8. \A q \in Postmen : ~Giving(q, n + 1)
  <2> SUFFICES ASSUME NEW q \in Postmen, Giving(q, n + 1) PROVE FALSE
    OBVIOUS
  <2>1. work[q].mail \in 1..n /\ work[q].mail = n + 1
    BY <1>4, MailOf DEF Giving
  <2> QED
    BY <1>4, <2>1
<1>9. ASSUME NEW m \in 1..n, NEW x PROVE Holds(m, x)' <=> Holds(m, x)
  <2>1. \A q \in Postmen : (Giving(q, m)' <=> Giving(q, m)) /\ (Giving(q, m) => work'[q].items = work[q].items)
    BY <1>0 DEF Giving
  <2> QED
    BY <1>5, <2>1, SameMail
<1>10. ASSUME NEW x PROVE Holds(n + 1, x)' <=> x \in Range(work[p].put)
  <2>1. n + 1 \in Nat
    BY <1>4
  <2>2. \A q \in Postmen : ~Giving(q, n + 1)'
    BY <1>7, <1>8, <2>1
  <2> QED
    BY <1>3, <1>5, <2>2 DEF Holds
<1>11. ASSUME NEW x PROVE /\ x \notin Range(work[p].put) => InMails(x)' = InMails(x)
                          /\ x \in Range(work[p].put) => InMails(x)' = InMails(x) \cup {n + 1}
  <2>1. InMails(x) = {m \in 1..n : Holds(m, x)}
    BY <1>4 DEF InMails
  <2>2. \A m : m \in InMails(x)' <=> m \in 1..n + 1 /\ Holds(m, x)'
    BY <1>5 DEF InMails
  <2>3. \A m : m \in 1..n + 1 <=> m \in 1..n \/ m = n + 1
    BY <1>4
  <2>4. \A m : m \in InMails(x)' <=> (m \in InMails(x) \/ (m = n + 1 /\ x \in Range(work[p].put)))
    BY <1>9, <1>10, <2>1, <2>2, <2>3
  <2> QED
    BY <2>4
<1>12. \A q \in Postmen : \A x : Hand(q, x)' <=> q # p /\ Hand(q, x)
  BY <1>0 DEF Hand
<1>13. \A x : Hand(p, x) <=> x \in Range(work[p].put)
  BY <1>0 DEF Hand
<1>14. ASSUME NEW x \in MRows PROVE KeepsHome(x) \/ (GetsHome(x) /\ Hand(p, x) /\ InHands(x)' = {})
  <2>1. InSlots(x)' = InSlots(x)
    BY <1>6, SameSlots
  <2>2. CASE ~Hand(p, x)
    <3>1. InHands(x)' = InHands(x)
      <4>1. \A q \in Postmen : Hand(q, x)' <=> Hand(q, x)
        BY <1>12, <2>2
      <4> QED
        BY <4>1, SameHands
    <3>2. InMails(x)' = InMails(x)
      BY <1>11, <1>13, <2>2
    <3> QED
      BY <1>6, <2>1, <3>1, <3>2 DEF KeepsHome
  <2>3. CASE Hand(p, x)
    <3>1. x \notin lost /\ InSlots(x) = {} /\ InMails(x) = {} /\ InHands(x) = {p}
      <4>1. p \in InHands(x)
        BY <2>3 DEF InHands
      <4> QED
        BY <4>1, FoundAt
    <3>2. InMails(x)' = {n + 1}
      BY <1>11, <1>13, <2>3, <3>1
    <3>3. \A q \in Postmen : ~Hand(q, x)'
      <4>1. \A q \in Postmen : Hand(q, x) => q = p
        BY <3>1 DEF InHands
      <4> QED
        BY <1>12, <4>1
    <3>4. InHands(x)' = {}
      BY <3>3 DEF InHands
    <3> QED
      BY <1>6, <2>1, <2>3, <3>1, <3>2, <3>4 DEF GetsHome, AtHome
  <2> QED
    BY <2>2, <2>3
<1>15. HomeInv'
  BY <1>14, HomesKept
<1>16. RowsTell'
  <2>1. ASSUME NEW x \in MRows, InMails(x)' # {} \/ InHands(x)' # {} PROVE itemRow'[x] = Orphan
    <3>1. CASE KeepsHome(x)
      BY <1>6, <2>1, <3>1 DEF KeepsHome, RowsTell
    <3>2. CASE Hand(p, x)
      BY <1>6, <3>2 DEF InHands, RowsTell
    <3> QED
      BY <1>14, <3>1, <3>2
  <2> QED
    BY <1>6, <2>1 DEF RowsTell
<1>17. Solo'
  BY <1>0, SoloKept
<1>18. ReadInv'
  <2> SUFFICES ASSUME NEW q \in Postmen, work'[q].op \in {"read", "give"}
        PROVE /\ work'[q].mail <= Len(mails') /\ mails'[work'[q].mail] # NoLetter
              /\ mails'[work'[q].mail].to = work'[q].who /\ mails'[work'[q].mail].gold = work'[q].gold
              /\ work'[q].op = "read" => mails'[work'[q].mail].items = work'[q].items
    BY DEF ReadInv
  <2>1. q # p /\ work'[q] = work[q]
    BY <1>0
  <2>2. work[q].mail \in 1..n
    BY <1>4, <2>1, MailOf
  <2>3. work[q].mail <= n + 1 /\ mails'[work[q].mail] = mails[work[q].mail]
    BY <1>4, <1>5, <2>2
  <2> QED
    BY <1>5, <2>1, <2>3 DEF ReadInv
<1>19. DistinctInv'
  <2>1. \A m \in 1..n + 1 : m \in 1..n \/ m = n + 1
    BY <1>4
  <2>2. \A m \in 1..Len(mails') : Distinct(mails'[m].items)
    BY <1>0, <1>3, <1>4, <1>5, <2>1 DEF DistinctInv
  <2> QED
    BY <1>0, <2>2 DEF DistinctInv
<1>20. GoldInv'
  BY <1>0, PostGold
<1> QED
  BY <1>15, <1>16, <1>17, <1>18, <1>19, <1>20

LEMMA RefuseUnhurt ==
  ASSUME MTypeOK, UnhurtInv, NEW p \in Postmen, PostMail(p), Refuses(p), wrong' = {}
  PROVE  UnhurtInv'
<1>1. work'[p] = Off /\ (\A q \in Postmen \ {p} : work'[q] = work[q]) /\ work[p].op = "send" /\ work'[p].op = "off"
  BY PostTyped, PostIs, OffIs
<1>2. work[p].put = <<>> /\ UNCHANGED <<satchel, itemRow, mails, purse, spent, lost>>
  BY PostIs DEF Refuses
<1> QED
  BY <1>1, <1>2, JobChanges

\* The gold of a mail goes to its receiver.
LEMMA MarkGold ==
  ASSUME MTypeOK, ReadInv, GoldInv, NEW p \in Postmen, MarkReceived(p)
  PROVE  GoldInv'
<1>1. /\ work[p] \in Givers /\ Len(mails') = Len(mails) /\ MTypeOK'
      /\ \A k \in 1..Len(mails) : k # work[p].mail => mails'[k] = mails[k]
      /\ work[p].mail \in 1..Len(mails) /\ mails[work[p].mail] # NoLetter
            => mails'[work[p].mail] = Emptied(mails[work[p].mail])
  BY MarkTyped
<1>2. PICK c, m, g, n : c = work[p].who /\ m = work[p].mail /\ g = work[p].gold /\ n = Len(mails)
  OBVIOUS
<1>3. c \in MChars /\ g \in Nat /\ n \in Nat /\ m \in 1..n /\ mails[m] # NoLetter /\ mails[m].gold = g
  <2>1. work[p].op = "give"
    BY DEF MarkReceived
  <2> QED
    BY <1>1, <1>2, <2>1, MailOf, LenProperties DEF Givers, MTypeOK, ReadInv
<1>4. mails'[m].gold = 0 /\ \A k \in 1..n : k # m => mails'[k] = mails[k]
  <2>1. PICK l \in Letters : l = mails[m]
    BY <1>2, <1>3, MailIs
  <2>2. mails'[m] = Emptied(l)
    BY <1>1, <1>2, <1>3, <2>1
  <2> QED
    BY <1>1, <1>2, <2>2, EmptiedIs
<1>5. Contents \in [1..n -> Nat] /\ IsFiniteSet(1..n) /\ spent \in Nat /\ SumFunction(Contents) \in Nat
  <2>1. Contents \in [1..n -> Nat] /\ IsFiniteSet(1..n)
    BY <1>2, GoldIn
  <2> QED
    BY <2>1, SumOverAll DEF MTypeOK
<1>6. Contents[m] = g
  BY <1>2, <1>3 DEF Contents
<1>7. Contents' \in [1..n -> Nat] /\ Contents'[m] = 0 /\ \A k \in 1..n \ {m} : Contents[k] = Contents'[k]
  <2>1. Contents' = [k \in 1..n |-> mails'[k].gold]
    BY <1>1, <1>2 DEF Contents
  <2>2. \A k \in 1..n \ {m} : mails'[k].gold = Contents[k] /\ Contents[k] \in Nat
    BY <1>2, <1>4, <1>5 DEF Contents
  <2>3. \A k \in 1..n : mails'[k].gold \in Nat
    BY <1>4, <2>2
  <2> QED
    BY <1>3, <1>4, <2>1, <2>2, <2>3
<1>8. SumFunction(Contents') = SumFunction(Contents) - g
  <2>1. PICK f \in [1..n -> Nat] : f = Contents'
    BY <1>7
  <2>2. PICK e \in [1..n -> Nat] : e = Contents
    BY <1>5
  <2>3. f[m] = 0 /\ e[m] = g /\ \A k \in 1..n \ {m} : e[k] = f[k]
    BY <1>6, <1>7, <2>1, <2>2
  <2>4. SumFunction(f) = (SumFunction(e) - e[m]) + f[m]
    <3> HIDE <2>2, <2>1
    <3>1. IsFiniteSet(1..n) /\ m \in 1..n
      BY <1>3, <1>5
    <3> QED
      BY <2>3, <3>1, OneTerm, ZenonT(60)
  <2>5. SumFunction(e) \in Nat
    BY <1>5, <2>2
  <2> QED
    BY <1>3, <2>1, <2>2, <2>3, <2>4, <2>5
<1>9. purse \in [MChars -> Nat] /\ purse[c] \in Nat /\ SumFunction(purse) \in Nat /\ purse[c] <= SumFunction(purse)
  <2>1. purse \in [MChars -> Nat]
    BY DEF MTypeOK
  <2> QED
    BY <1>3, <2>1, Purses, SumOverAll
<1>10. g <= SumFunction(Contents)
  BY <1>3, <1>5, <1>6, SumOverAll
<1>11. SumFunction(Contents) + SumFunction(purse) + spent = AllGold
  BY DEF GoldInv, Wealth
<1>12. (purse[c] + g) % GoldSize = purse[c] + g
  <2>1. PICK x, y, z, k \in Nat : x = SumFunction(Contents) /\ y = SumFunction(purse) /\ z = spent /\ k = purse[c]
    BY <1>5, <1>9
  <2>2. k + g < GoldSize /\ k + g \in Nat
    BY <1>3, <1>9, <1>10, <1>11, <2>1, Purses
  <2> QED
    BY <2>1, <2>2, NoWrap
<1>13. purse' = [purse EXCEPT ![c] = (@ + g) % GoldSize]
  BY <1>2 DEF MarkReceived
<1>14. purse' \in [MChars -> Nat] /\ purse'[c] = purse[c] + g /\ \A e \in MChars \ {c} : purse[e] = purse'[e]
  BY <1>3, <1>9, <1>12, <1>13
<1>15. SumFunction(purse') = SumFunction(purse) + g
  <2>1. PICK f \in [MChars -> Nat] : f = purse'
    BY <1>14
  <2>2. \A e \in MChars \ {c} : purse[e] = f[e]
    BY <1>14, <2>1
  <2>3. SumFunction(f) = (SumFunction(purse) - purse[c]) + f[c]
    BY <1>3, <1>9, <2>2, Purses, OneTerm
  <2> QED
    BY <1>3, <1>9, <1>14, <2>1, <2>3
<1>16. spent' = spent
  BY DEF MarkReceived
<1>17. SumFunction(Contents') + SumFunction(purse') + spent' = AllGold
  BY <1>3, <1>5, <1>8, <1>9, <1>11, <1>15, <1>16
<1> QED
  BY <1>17 DEF GoldInv, Wealth

\* All is given: the mail is empty.
LEMMA MarkUnhurt ==
  ASSUME MTypeOK, UnhurtInv, NEW p \in Postmen, MarkReceived(p)
  PROVE  UnhurtInv'
<1> USE DEF UnhurtInv
<1>1. /\ work[p] \in Givers /\ Len(mails') = Len(mails)
      /\ work'[p] = Off /\ work'[p].op = "off" /\ \A q \in Postmen \ {p} : work'[q] = work[q]
      /\ work[p].op = "give" /\ work[p].items = <<>> /\ work[p] # Off
  BY MarkTyped, OffIs DEF MarkReceived
<1>2. PICK k : k = work[p].mail
  OBVIOUS
<1>3. k \in 1..Len(mails) /\ mails[k] # NoLetter
  BY <1>1, <1>2, MailOf DEF ReadInv
<1>4. (\A m \in 1..Len(mails) : m # k => mails'[m] = mails[m]) /\ mails'[k].items = <<>>
  <2>1. PICK l \in Letters : l = mails[k]
    BY <1>3, MailIs
  <2>2. mails'[k] = Emptied(l) /\ \A m \in 1..Len(mails) : m # k => mails'[m] = mails[m]
    BY <1>2, <1>3, <2>1, MarkTyped
  <2> QED
    BY <2>2, EmptiedIs
<1>5. UNCHANGED <<satchel, itemRow, spent, lost>>
  BY DEF MarkReceived
<1>6. \A q \in Postmen : Giving(q, k) <=> q = p
  BY <1>1, <1>2, OneGiver DEF Giving
<1>7. ASSUME NEW m \in 1..Len(mails), NEW x PROVE Holds(m, x)' <=> Holds(m, x)
  <2>1. CASE m = k
    <3>1. ~Holds(k, x)
      BY <1>1, <1>6, NothingHeld DEF Holds
    <3>2. \A q \in Postmen : ~Giving(q, k)'
      BY <1>1, <1>6 DEF Giving
    <3>3. ~Holds(k, x)'
      BY <1>4, <3>2, NothingHeld DEF Holds
    <3> QED
      BY <2>1, <3>1, <3>3
  <2>2. CASE m # k
    <3>1. \A q \in Postmen : (Giving(q, m)' <=> Giving(q, m)) /\ (Giving(q, m) => work'[q].items = work[q].items)
      BY <1>1, <1>2, <2>2 DEF Giving
    <3> QED
      BY <1>4, <2>2, <3>1, SameMail
  <2> QED
    BY <2>1, <2>2
<1>8. \A q \in Postmen : \A x : Hand(q, x)' <=> Hand(q, x)
  BY <1>1 DEF Hand
<1>9. ASSUME NEW x PROVE KeepsHome(x)
  <2>1. InSlots(x)' = InSlots(x)
    BY <1>5, SameSlots
  <2>2. InMails(x)' = InMails(x)
    BY <1>1, <1>7, SameMails
  <2>3. InHands(x)' = InHands(x)
    BY <1>8, SameHands
  <2> QED
    BY <1>5, <2>1, <2>2, <2>3 DEF KeepsHome
<1>10. HomeInv'
  BY <1>9, HomesKept
<1>11. RowsTell'
  BY <1>5, <1>9 DEF RowsTell, KeepsHome
<1>12. Solo'
  BY <1>1, SoloKept
<1>13. ReadInv'
  <2> SUFFICES ASSUME NEW q \in Postmen, work'[q].op \in {"read", "give"}
        PROVE /\ work'[q].mail <= Len(mails') /\ mails'[work'[q].mail] # NoLetter
              /\ mails'[work'[q].mail].to = work'[q].who /\ mails'[work'[q].mail].gold = work'[q].gold
              /\ work'[q].op = "read" => mails'[work'[q].mail].items = work'[q].items
    BY DEF ReadInv
  <2>1. q # p /\ work'[q] = work[q]
    BY <1>1
  <2>2. work[q].mail \in 1..Len(mails)
    BY <2>1, MailOf
  <2>3. work[q].mail # k
    BY <1>1, <1>2, <2>1, OneGiver
  <2>4. mails'[work[q].mail] = mails[work[q].mail]
    BY <1>4, <2>2, <2>3
  <2> QED
    BY <1>1, <2>1, <2>4 DEF ReadInv
<1>14. DistinctInv'
  <2>1. \A m \in 1..Len(mails') : Distinct(mails'[m].items)
    BY <1>1, <1>4, NothingDistinct DEF DistinctInv
  <2> QED
    BY <1>1, <2>1 DEF DistinctInv
<1>15. GoldInv'
  BY MarkGold
<1> QED
  BY <1>10, <1>11, <1>12, <1>13, <1>14, <1>15

\* Mails go, and what was in them: nobody is at one of them.
Vanish(E) ==
    /\ \A m \in E : mails'[m] = NoLetter
    /\ \A m \in 1..Len(mails) : m \notin E => mails'[m] = mails[m]
    /\ Len(mails') = Len(mails)
    /\ \A p \in Postmen : work[p].mail \notin E
    /\ UNCHANGED <<satchel, purse, work>>
    /\ spent' = spent + SumFunctionOnSet(Contents, E)
Gone(E, x) == \E m \in E : x \in Range(mails[m].items)

LEMMA VanishGold ==
  ASSUME MTypeOK, GoldInv, NEW E \in SUBSET (1..Len(mails)), Vanish(E)
  PROVE  GoldInv'
<1>1. PICK n \in Nat : n = Len(mails)
  BY LenProperties DEF MTypeOK
<1>2. Contents \in [1..n -> Nat] /\ IsFiniteSet(1..n) /\ spent \in Nat /\ E \in SUBSET (1..n)
  BY <1>1, GoldIn DEF MTypeOK
<1>3. Contents' = [m \in 1..n |-> mails'[m].gold]
  BY <1>1 DEF Vanish, Contents
<1>4. \A m \in 1..n : mails'[m].gold = IF m \in E THEN 0 ELSE Contents[m]
  BY <1>1, NoLetterIs DEF Vanish, Contents
<1>5. PICK f : f = Contents' /\ f \in [1..n -> Nat]
  <2>1. \A m \in 1..n : mails'[m].gold \in Nat
    BY <1>2, <1>4
  <2> QED
    BY <1>3, <2>1
<1>6. PICK e : e = Contents /\ e \in [1..n -> Nat]
  BY <1>2
<1>7. \A m \in 1..n : f[m] = IF m \in E THEN 0 ELSE e[m]
  BY <1>3, <1>4, <1>5, <1>6
<1>8. SumFunction(e) = SumFunction(f) + SumFunctionOnSet(e, E)
  <2>1. ASSUME NEW S, S = 1..n, NEW T, T = E PROVE SumFunction(e) = SumFunction(f) + SumFunctionOnSet(e, T)
    <3>1. IsFiniteSet(S) /\ e \in [S -> Nat] /\ f \in [S -> Nat] /\ T \subseteq S
      BY <1>2, <1>5, <1>6, <2>1
    <3>2. \A m \in S : m \in T => f[m] = 0
      BY <1>7, <2>1
    <3>3. \A m \in S : m \notin T => f[m] = e[m]
      BY <1>7, <2>1
    <3> QED
      BY <3>1, <3>2, <3>3, SomeGone
  <2> QED
    BY <2>1
<1>9. SumFunction(f) \in Nat /\ SumFunctionOnSet(e, E) \in Nat
  <2>1. SumFunction(f) \in Nat
    BY <1>2, <1>5, SumOverAll
  <2>2. SumFunctionOnSet(Contents, E) \in Nat
    BY GoldIn
  <2> QED
    BY <1>6, <2>1, <2>2
<1>10. SumFunction(purse) \in Nat
  BY Purses, SumOverAll DEF MTypeOK
<1>11. SumFunction(e) + SumFunction(purse) + spent = AllGold
  BY <1>6 DEF GoldInv, Wealth
<1>12. spent' = spent + SumFunctionOnSet(e, E) /\ SumFunction(purse') = SumFunction(purse)
  BY <1>6 DEF Vanish
<1>13. SumFunction(f) + SumFunction(purse') + spent' = AllGold
  BY <1>2, <1>8, <1>9, <1>10, <1>11, <1>12
<1> QED
  BY <1>5, <1>13 DEF GoldInv, Wealth

LEMMA VanishUnhurt ==
  ASSUME MTypeOK, UnhurtInv, NEW E \in SUBSET (1..Len(mails)), Vanish(E),
         \A x : x \in lost' <=> x \in lost \/ Gone(E, x),
         \A x \in MRows : Gone(E, x) \/ itemRow'[x] = itemRow[x]
  PROVE  UnhurtInv'
<1> USE DEF UnhurtInv
<1>1. \A p \in Postmen : \A m : (Giving(p, m)' <=> Giving(p, m)) /\ (Giving(p, m) => work'[p].items = work[p].items)
  BY DEF Giving, Vanish
<1>2. \A p \in Postmen : \A m \in E : ~Giving(p, m)
  BY DEF Giving, Vanish
<1>3. \A m \in E : \A x : Holds(m, x) <=> x \in Range(mails[m].items)
  BY <1>2 DEF Holds
<1>4. \A m \in E : \A x : ~Holds(m, x)'
  BY <1>1, <1>2, NoLetterIs, NothingHeld DEF Holds, Vanish
<1>5. ASSUME NEW m \in 1..Len(mails) \ E, NEW x PROVE Holds(m, x)' <=> Holds(m, x)
  BY <1>1, SameMail DEF Vanish
<1>6. \A x : InSlots(x)' = InSlots(x) /\ InHands(x)' = InHands(x)
  BY DEF InSlots, InHands, Hand, Vanish
<1>7. ASSUME NEW x, ~Gone(E, x) PROVE KeepsHome(x)
  <2>1. \A m \in 1..Len(mails) : Holds(m, x)' <=> Holds(m, x)
    BY <1>3, <1>4, <1>5, <1>7 DEF Gone
  <2>2. InMails(x)' = InMails(x)
    BY <2>1, SameMails DEF Vanish
  <2> QED
    BY <1>6, <1>7, <2>2 DEF KeepsHome
<1>8. ASSUME NEW x \in MRows, Gone(E, x) PROVE LosesHome(x) /\ InSlots(x) = {} /\ InMails(x)' = {} /\ InHands(x)' = {}
  <2>1. PICK m \in E : Holds(m, x)
    BY <1>3, <1>8 DEF Gone
  <2>2. InSlots(x) = {} /\ InMails(x) = {m} /\ InHands(x) = {}
    <3>1. m \in InMails(x)
      BY <2>1 DEF InMails
    <3> QED
      BY <3>1, FoundAt
  <2>3. \A k \in 1..Len(mails) : ~Holds(k, x)'
    <3> SUFFICES ASSUME NEW k \in 1..Len(mails), k \notin E PROVE ~Holds(k, x)'
      BY <1>4
    <3>1. ~Holds(k, x)
      BY <2>2 DEF InMails
    <3> QED
      BY <1>5, <3>1
  <2>4. InMails(x)' = {}
    BY <2>3 DEF InMails, Vanish
  <2> QED
    BY <1>6, <1>8, <2>2, <2>4 DEF LosesHome, NoHome
<1>9. HomeInv'
  BY <1>7, <1>8, HomesKept
<1>10. RowsTell'
  <2>1. ASSUME NEW c \in MChars, NEW s \in MSlots, satchel'[c][s] # NoneIn
        PROVE  itemRow'[satchel'[c][s]] = [owner |-> c, slot |-> s]
    <3>1. PICK x : x = satchel[c][s]
      OBVIOUS
    <3>2. x \in MRows /\ x # NoneIn /\ satchel'[c][s] = x
      BY <2>1, <3>1 DEF Vanish, MTypeOK
    <3>3. <<c, s>> \in InSlots(x)
      BY <3>1, SlotIs
    <3>4. ~Gone(E, x)
      BY <1>8, <3>2, <3>3
    <3> QED
      BY <3>1, <3>2, <3>4 DEF RowsTell
  <2>2. ASSUME NEW x \in MRows, InMails(x)' # {} \/ InHands(x)' # {} PROVE itemRow'[x] = Orphan
    <3>1. ~Gone(E, x)
      BY <1>8, <2>2
    <3> QED
      BY <1>7, <2>2, <3>1 DEF KeepsHome, RowsTell
  <2> QED
    BY <2>1, <2>2 DEF RowsTell
<1>11. Solo'
  BY DEF Solo, Vanish
<1>12. ReadInv'
  <2> SUFFICES ASSUME NEW q \in Postmen, work'[q].op \in {"read", "give"}
        PROVE /\ work'[q].mail <= Len(mails') /\ mails'[work'[q].mail] # NoLetter
              /\ mails'[work'[q].mail].to = work'[q].who /\ mails'[work'[q].mail].gold = work'[q].gold
              /\ work'[q].op = "read" => mails'[work'[q].mail].items = work'[q].items
    BY DEF ReadInv
  <2>1. work'[q] = work[q] /\ work[q].mail \notin E
    BY DEF Vanish
  <2>2. work[q].mail \in 1..Len(mails)
    BY <2>1, MailOf
  <2>3. mails'[work[q].mail] = mails[work[q].mail] /\ Len(mails') = Len(mails)
    BY <2>1, <2>2 DEF Vanish
  <2> QED
    BY <2>1, <2>3 DEF ReadInv
<1>13. DistinctInv'
  <2>1. \A m \in 1..Len(mails') : Distinct(mails'[m].items)
    BY NoLetterIs, NothingDistinct DEF Vanish, DistinctInv
  <2> QED
    BY <2>1 DEF Vanish, DistinctInv
<1>14. GoldInv'
  BY VanishGold
<1> QED
  BY <1>9, <1>10, <1>11, <1>12, <1>13, <1>14

LEMMA OpenUnhurt ==
  ASSUME MTypeOK, UnhurtInv, NEW c \in MChars, NEW E \in SUBSET (1..Len(mails)), Expires(c, E), wrong' = {}
  PROVE  UnhurtInv'
<1>1. \A x : x \in UNION {Range(mails[m].items) : m \in E} <=> Gone(E, x)
  BY RowsIn DEF Gone
<1>2. \A x : x \in lost' <=> x \in lost \/ Gone(E, x)
  BY <1>1 DEF Expires
<1>3. \A x \in MRows : Gone(E, x) \/ itemRow'[x] = itemRow[x]
  BY <1>1 DEF Expires
<1>4. Vanish(E)
  <2>1. \A p \in Postmen : work[p].mail \notin E
    BY DEF Expires
  <2>2. Len(mails') = Len(mails)
    BY OpenTyped
  <2> QED
    BY <2>1, <2>2 DEF Expires, Vanish
<1> QED
  BY <1>2, <1>3, <1>4, VanishUnhurt

LEMMA DeleteUnhurt ==
  ASSUME MTypeOK, UnhurtInv, NEW m \in 1..Len(mails), Deletes(m), wrong' = {}
  PROVE  UnhurtInv'
<1>1. PICK E : E = {m}
  OBVIOUS
<1>2. E \in SUBSET (1..Len(mails))
  BY <1>1
<1>3. \A x : Gone(E, x) <=> x \in Range(mails[m].items)
  BY <1>1 DEF Gone
<1>4. \A x : x \in lost' <=> x \in lost \/ Gone(E, x)
  BY <1>3 DEF Deletes
<1>5. \A x \in MRows : Gone(E, x) \/ itemRow'[x] = itemRow[x]
  BY DEF Deletes
<1>6. SumFunctionOnSet(Contents, E) = mails[m].gold
  <2>1. Contents[m] = mails[m].gold /\ mails[m].gold \in Int
    BY MailIs DEF Contents
  <2> QED
    BY <1>1, <2>1, SumOfOne
<1>7. Vanish(E)
  <2>1. \A p \in Postmen : work[p].mail \notin E
    BY <1>1 DEF Deletes
  <2>2. /\ Len(mails') = Len(mails) /\ mails'[m] = NoLetter
        /\ \A k \in 1..Len(mails) : k # m => mails'[k] = mails[k]
    BY DeleteTyped
  <2> QED
    BY <1>1, <1>6, <2>1, <2>2 DEF Deletes, Vanish
<1> QED
  BY <1>2, <1>4, <1>5, <1>7, VanishUnhurt

\* An item moves in a bag, and its row with it.
LEMMA MoveUnhurt ==
  ASSUME MTypeOK, UnhurtInv, NEW c \in MChars, NEW s \in MSlots, NEW t \in MSlots, Moves(c, s, t)
  PROVE  UnhurtInv'
<1> USE DEF UnhurtInv
<1>1. PICK r : r = satchel[c][s]
  OBVIOUS
<1>2. r \in MRows /\ r # NoneIn /\ s # t
  BY <1>1, MoveTyped, MailAssumption DEF Moves
<1>3. \A d \in MChars, u \in MSlots :
         satchel'[d][u] = IF d = c /\ u = t THEN r ELSE IF d = c /\ u = s THEN NoneIn ELSE satchel[d][u]
  BY <1>1, MoveTyped
<1>4. r \notin lost /\ InSlots(r) = {<<c, s>>} /\ InMails(r) = {} /\ InHands(r) = {}
  <2>1. <<c, s>> \in InSlots(r)
    BY <1>1, SlotIs
  <2> QED
    BY <1>2, <2>1, FoundAt
<1>5. itemRow' = [itemRow EXCEPT ![r] = [owner |-> c, slot |-> t]]
  <2>1. itemRow[r] = [owner |-> c, slot |-> s]
    BY <1>1, <1>2 DEF RowsTell
  <2>2. itemRow[r] # Removed
    BY <2>1, MailAssumption DEF Removed
  <2> QED
    BY <1>1, <1>2, <2>2 DEF Moves, SetRow
<1>6. UNCHANGED <<mails, purse, work, spent, lost>>
  BY DEF Moves
<1>7. ASSUME NEW x PROVE InMails(x)' = InMails(x) /\ InHands(x)' = InHands(x)
  <2>1. \A m : Holds(m, x)' <=> Holds(m, x)
    BY <1>6 DEF Holds, Giving
  <2>2. InMails(x)' = InMails(x)
    BY <1>6, <2>1, SameMails
  <2>3. \A q \in Postmen : Hand(q, x)' <=> Hand(q, x)
    BY <1>6 DEF Hand
  <2>4. InHands(x)' = InHands(x)
    BY <2>3, SameHands
  <2> QED
    BY <2>2, <2>4
<1>8. ASSUME NEW d \in MChars, NEW u \in MSlots PROVE satchel[d][u] = r <=> d = c /\ u = s
  <2>1. <<d, u>> \in InSlots(r) <=> satchel[d][u] = r
    BY SlotIs
  <2> QED
    BY <1>4, <2>1
<1>9. ASSUME NEW x \in MRows, x # r PROVE KeepsHome(x)
  <2>1. satchel[c][t] = NoneIn /\ x # NoneIn
    BY MailAssumption DEF Moves
  <2>2. \A d \in MChars, u \in MSlots : satchel'[d][u] = x <=> satchel[d][u] = x
    BY <1>1, <1>3, <1>9, <2>1
  <2>3. InSlots(x)' = InSlots(x)
    BY <2>2, SameSlots
  <2> QED
    BY <1>6, <1>7, <2>3 DEF KeepsHome
<1>10. GetsHome(r)
  <2>1. \A d \in MChars, u \in MSlots : satchel'[d][u] = r <=> d = c /\ u = t
    BY <1>2, <1>3, <1>8
  <2>2. <<c, t>> \in MChars \X MSlots /\ \A h \in MChars \X MSlots : h[1] \in MChars /\ h[2] \in MSlots /\ h = <<h[1], h[2]>>
    OBVIOUS
  <2>3. InSlots(r)' = {h \in MChars \X MSlots : satchel'[h[1]][h[2]] = r}
    BY DEF InSlots
  <2>4. InSlots(r)' = {<<c, t>>}
    BY <2>1, <2>2, <2>3
  <2> QED
    BY <1>4, <1>6, <1>7, <2>4 DEF GetsHome, AtHome
<1>11. HomeInv'
  BY <1>9, <1>10, HomesKept
<1>12. RowsTell'
  <2>1. ASSUME NEW d \in MChars, NEW u \in MSlots, satchel'[d][u] # NoneIn
        PROVE  itemRow'[satchel'[d][u]] = [owner |-> d, slot |-> u]
    <3>1. CASE d = c /\ u = t
      BY <1>2, <1>3, <1>5, <3>1 DEF MTypeOK
    <3>2. CASE ~(d = c /\ u = t)
      <4>1. satchel'[d][u] = satchel[d][u] /\ satchel[d][u] # r
        BY <1>3, <1>8, <2>1, <3>2
      <4> QED
        BY <1>5, <2>1, <4>1 DEF RowsTell
    <3> QED
      BY <3>1, <3>2
  <2>2. ASSUME NEW x \in MRows, InMails(x)' # {} \/ InHands(x)' # {} PROVE itemRow'[x] = Orphan
    <3>1. x # r
      BY <1>4, <1>7, <2>2
    <3> QED
      BY <1>5, <1>7, <2>2, <3>1 DEF RowsTell
  <2> QED
    BY <2>1, <2>2 DEF RowsTell
<1>13. Solo' /\ ReadInv' /\ DistinctInv' /\ GoldInv'
  BY <1>6 DEF Solo, ReadInv, DistinctInv, GoldInv, Wealth, Contents
<1> QED
  BY <1>11, <1>12, <1>13

----------------------------------------------------------------------------
(* The invariant *)

LEMMA LoadedSlots ==
  ASSUME MInit, NEW c \in MChars, NEW s \in MSlots
  PROVE  /\ \A r \in MRows : satchel[c][s] = r <=> Inserted[r] = [owner |-> c, slot |-> s]
         /\ satchel[c][s] # NoneIn => satchel[c][s] \in MRows
<1>1. satchel[c][s] = IF \E r \in MRows : Inserted[r] = [owner |-> c, slot |-> s]
                      THEN CHOOSE r \in MRows : Inserted[r] = [owner |-> c, slot |-> s] ELSE NoneIn
  BY DEF MInit
<1>2. CASE \E r \in MRows : Inserted[r] = [owner |-> c, slot |-> s]
  <2>1. satchel[c][s] \in MRows /\ Inserted[satchel[c][s]] = [owner |-> c, slot |-> s]
    BY <1>1, <1>2
  <2> QED
    BY <2>1, MailAssumption
<1>3. CASE ~\E r \in MRows : Inserted[r] = [owner |-> c, slot |-> s]
  BY <1>1, <1>3, MailAssumption
<1> QED
  BY <1>2, <1>3

LEMMA InitUnhurt == ASSUME MInit PROVE UnhurtInv
<1>1. mails = <<>> /\ Len(mails) = 0 /\ 1..Len(mails) = {} /\ lost = {} /\ itemRow = Inserted
  BY EmptySeq DEF MInit
<1>2. \A p \in Postmen : work[p] = Off /\ work[p].op = "off"
  BY OffIs DEF MInit
<1>3. Solo /\ ReadInv /\ DistinctInv
  BY <1>1, <1>2 DEF Solo, ReadInv, DistinctInv
<1>4. \A r : InMails(r) = {} /\ InHands(r) = {}
  BY <1>1, <1>2 DEF InMails, InHands, Hand
<1>5. ASSUME NEW r \in MRows PROVE \E h : InSlots(r) = {h}
  <2>1. PICK c \in MChars, s \in MSlots : Inserted[r] = [owner |-> c, slot |-> s]
    BY MailAssumption
  <2>2. ASSUME NEW d \in MChars, NEW u \in MSlots PROVE satchel[d][u] = r <=> d = c /\ u = s
    <3>1. satchel[d][u] = r <=> Inserted[r] = [owner |-> d, slot |-> u]
      BY LoadedSlots
    <3> QED
      BY <2>1, <3>1
  <2>3. <<c, s>> \in MChars \X MSlots /\ \A h \in MChars \X MSlots : h[1] \in MChars /\ h[2] \in MSlots /\ h = <<h[1], h[2]>>
    OBVIOUS
  <2>4. InSlots(r) = {<<c, s>>}
    BY <2>2, <2>3 DEF InSlots
  <2> QED
    BY <2>4
<1>6. HomeInv
  BY <1>1, <1>4, <1>5 DEF HomeInv, AtHome
<1>7. RowsTell
  BY <1>1, <1>4, LoadedSlots DEF RowsTell
<1>8. GoldInv
  <2>1. DOMAIN Contents = {}
    BY <1>1 DEF Contents
  <2>2. SumFunction(Contents) = 0
    BY <2>1, SumOfNone DEF SumFunction
  <2>3. purse = Purse /\ spent = 0
    BY DEF MInit
  <2> QED
    BY <2>2, <2>3, Purses DEF GoldInv, Wealth, AllGold
<1> QED
  BY <1>3, <1>6, <1>7, <1>8 DEF UnhurtInv

\* What went wrong stays wrong.
LEMMA StaysWrong == ASSUME [MNext]_mvars PROVE wrong' = {} => wrong = {}
<1>1. CASE ItemAddMessage \/ ItemRemoveMessage \/ SendMessage \/ ReceiveItems \/ MoveInBag
  BY <1>1 DEF ItemAddMessage, ItemRemoveMessage, SendMessage, ReceiveItems, MoveInBag
<1>2. CASE OpenMessager
  BY <1>2, OpenIs DEF Expires
<1>3. CASE DeleteMessage
  BY <1>3, DeleteIs DEF Deletes
<1>4. ASSUME NEW p \in Postmen, TakeOut(p) \/ GiveItem(p) PROVE wrong' = {} => wrong = {}
  <2>1. CASE TakeOut(p)
    BY <2>1, TakeIs DEF Takes
  <2>2. CASE GiveItem(p)
    BY <2>2, GiveIs DEF GoesOn, GivesBack
  <2> QED
    BY <1>4, <2>1, <2>2
<1>5. ASSUME NEW p \in Postmen, PostMail(p) PROVE wrong' = {} => wrong = {}
  BY <1>5, PostIs DEF Posts, Refuses
<1>6. ASSUME NEW p \in Postmen, ChooseSlots(p) \/ MarkReceived(p) PROVE wrong' = {} => wrong = {}
  BY <1>6, ZenonT(60) DEF ChooseSlots, MarkReceived
<1>7. CASE UNCHANGED mvars
  BY <1>7 DEF mvars
<1> QED
  BY <1>1, <1>2, <1>3, <1>4, <1>5, <1>6, <1>7 DEF MNext

LEMMA MailStep == ASSUME MInv, [MNext]_mvars PROVE MInv'
<1> SUFFICES MTypeOK' /\ (wrong' = {} /\ UnhurtInv => UnhurtInv')
  BY StaysWrong DEF MInv
<1>0. MTypeOK
  BY DEF MInv
<1>1. CASE ItemAddMessage
  <2>1. UNCHANGED <<satchel, itemRow, mails, purse, work, spent, lost>>
    BY <1>1 DEF ItemAddMessage
  <2> QED
    BY <1>0, <1>1, <2>1, AddTyped, NothingNew
<1>2. CASE ItemRemoveMessage
  <2>1. UNCHANGED <<satchel, itemRow, mails, purse, work, spent, lost>>
    BY <1>2 DEF ItemRemoveMessage
  <2> QED
    BY <1>0, <1>2, <2>1, RemoveTyped, NothingNew
<1>3. CASE OpenMessager
  <2>1. PICK c \in MChars : \E E \in SUBSET (1..Len(mails)) : Expires(c, E)
    BY <1>3, OpenIs
  <2>2. PICK E \in SUBSET (1..Len(mails)) : Expires(c, E)
    BY <2>1
  <2> QED
    BY <1>0, <2>2, OpenTyped, OpenUnhurt
<1>4. CASE SendMessage
  BY <1>0, <1>4, SendTyped, SendUnhurt
<1>5. CASE ReceiveItems
  BY <1>0, <1>5, ReceiveTyped, ReceiveUnhurt
<1>6. CASE DeleteMessage
  <2>1. PICK m \in 1..Len(mails) : Deletes(m)
    BY <1>6, DeleteIs
  <2> QED
    BY <1>0, <2>1, DeleteTyped, DeleteUnhurt
<1>7. CASE MoveInBag
  <2>1. PICK c \in MChars, s \in MSlots, t \in MSlots : Moves(c, s, t)
    BY <1>7, MoveIs
  <2> QED
    BY <1>0, <2>1, MoveTyped, MoveUnhurt
<1>8. ASSUME NEW p \in Postmen, TakeOut(p) PROVE MTypeOK' /\ (wrong' = {} /\ UnhurtInv => UnhurtInv')
  <2>1. PICK n, r : Takes(p, n, r)
    BY <1>8, TakeIs
  <2> QED
    BY <1>0, <2>1, TakeTyped, TakeUnhurt
<1>9. ASSUME NEW p \in Postmen, PostMail(p) PROVE MTypeOK' /\ (wrong' = {} /\ UnhurtInv => UnhurtInv')
  <2>1. Posts(p, Due(p)) \/ Refuses(p)
    BY <1>9, PostIs
  <2> QED
    BY <1>0, <1>9, <2>1, PostTyped, PostUnhurt, RefuseUnhurt
<1>10. ASSUME NEW p \in Postmen, ChooseSlots(p) PROVE MTypeOK' /\ (wrong' = {} /\ UnhurtInv => UnhurtInv')
  BY <1>0, <1>10, ChooseTyped, ChooseUnhurt
<1>11. ASSUME NEW p \in Postmen, GiveItem(p) PROVE MTypeOK' /\ (wrong' = {} /\ UnhurtInv => UnhurtInv')
  <2>1. PICK r, s : Gives(p, r, s) /\ (GoesOn(p, r, s) \/ GivesBack(p, r))
    BY <1>11, GiveIs
  <2>2. CASE GoesOn(p, r, s)
    BY <1>0, <2>1, <2>2, GiveTyped, GiveUnhurt
  <2>3. CASE GivesBack(p, r)
    BY <1>0, <2>1, <2>3, GiveUpTyped, NeverGivesUp
  <2> QED
    BY <2>1, <2>2, <2>3
<1>12. ASSUME NEW p \in Postmen, MarkReceived(p) PROVE MTypeOK' /\ (wrong' = {} /\ UnhurtInv => UnhurtInv')
  BY <1>0, <1>12, MarkTyped, MarkUnhurt
<1>13. CASE UNCHANGED mvars
  <2>1. MTypeOK'
    BY <1>0, <1>13 DEF mvars, MTypeOK
  <2>2. UNCHANGED <<satchel, itemRow, mails, purse, work, spent, lost>>
    BY <1>13 DEF mvars
  <2> QED
    BY <2>1, <2>2, NothingNew
<1> QED
  BY <1>1, <1>2, <1>3, <1>4, <1>5, <1>6, <1>7, <1>8, <1>9, <1>10, <1>11, <1>12, <1>13 DEF MNext

LEMMA MailRests == MInv => MailedOnce
<1> SUFFICES ASSUME MInv, wrong = {}, \A p \in Postmen : work[p] = Off
             PROVE  /\ \A r \in MRows \ lost : Places(r) = 1
                    /\ \A c \in MChars, s \in MSlots : satchel[c][s] # NoneIn => itemRow[satchel[c][s]] = [owner |-> c, slot |-> s]
                    /\ \A m \in 1..Len(mails) : \A r \in Range(mails[m].items) : itemRow[r] = Orphan
                    /\ Wealth + spent = AllGold
  BY DEF MailedOnce
<1>1. MTypeOK /\ UnhurtInv
  BY DEF MInv
<1>2. \A p \in Postmen : work[p].op = "off"
  BY OffIs
<1>3. \A r : InHands(r) = {}
  BY <1>2 DEF InHands, Hand
<1>4. \A m, r : Holds(m, r) <=> r \in Range(mails[m].items)
  BY <1>2 DEF Holds, Giving
<1>5. \A r : InMails(r) = {m \in 1..Len(mails) : r \in Range(mails[m].items)}
  BY <1>4 DEF InMails
<1>6. \A r : Places(r) = Cardinality(InSlots(r)) + Cardinality(InMails(r))
  BY <1>5 DEF Places, InSlots
<1>7. Cardinality({}) = 0 /\ \A x : Cardinality({x}) = 1
  BY FS_EmptySet, FS_Singleton
<1>8. ASSUME NEW r \in MRows \ lost PROVE Places(r) = 1
  <2>1. AtHome(InSlots(r), InMails(r), InHands(r))
    BY <1>1 DEF UnhurtInv, HomeInv
  <2>2. (InSlots(r) = {} /\ \E x : InMails(r) = {x}) \/ (InMails(r) = {} /\ \E x : InSlots(r) = {x})
    BY <1>3, <2>1 DEF AtHome
  <2>3. CASE InSlots(r) = {} /\ \E x : InMails(r) = {x}
    <3>1. Cardinality(InSlots(r)) = 0 /\ Cardinality(InMails(r)) = 1
      BY <1>7, <2>3
    <3> QED
      BY <1>6, <3>1
  <2>4. CASE InMails(r) = {} /\ \E x : InSlots(r) = {x}
    <3>1. Cardinality(InSlots(r)) = 1 /\ Cardinality(InMails(r)) = 0
      BY <1>7, <2>4
    <3> QED
      BY <1>6, <3>1
  <2> QED
    BY <2>2, <2>3, <2>4
<1>9. ASSUME NEW m \in 1..Len(mails), NEW r \in Range(mails[m].items) PROVE itemRow[r] = Orphan
  <2>1. r \in MRows
    BY <1>1, MailIs, RangeOfSeq
  <2>2. m \in InMails(r)
    BY <1>5
  <2> QED
    BY <1>1, <2>1, <2>2 DEF UnhurtInv, RowsTell
<1> QED
  BY <1>1, <1>8, <1>9 DEF UnhurtInv, RowsTell, GoldInv

\* What is sent arrives once (messange.go 304-473), for any number of characters, items
\* and handlers: when no handler is at work, every item that is not lost is in one slot or
\* in one mail, as its row says, and no gold has gone.
THEOREM MailArrivesOnce == MSpec => []MailedOnce
<1>1. MInit => MInv
  BY InitTyped, InitUnhurt DEF MInv
<1>2. MInv /\ [MNext]_mvars => MInv'
  BY MailStep
<1> QED
  BY <1>1, <1>2, MailRests, PTL DEF MSpec
=============================================================================
