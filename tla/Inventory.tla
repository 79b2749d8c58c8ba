----------------------------- MODULE Inventory -----------------------------
(***************************************************************************)
(* One character's bag and bank, the rows of the items table behind them,  *)
(* and the handlers that change both.  A handler reads the inventory,      *)
(* decides, and then makes a few calls (AddItem, DecrementItem, ...) each  *)
(* of which ends in a wait for the database, so a handler is a guard and a *)
(* list of calls, and a step is one call.  A statement takes effect when   *)
(* it is sent; only what a `go` sends is late.  Replace, Swap, Split,      *)
(* Combine, SellItem, UseConsumable and ReplaceHTItem hold AntiDupeMutex,  *)
(* all others do not.  Prices, rates and recipes are data: a handler may   *)
(* always turn out in every way its code has.  Equipment rules, pets' data *)
(* and statistics are left out, and writes do not fail (see Drops).        *)
(***************************************************************************)
EXTENDS Naturals, FiniteSets, Sequences, FiniteSetsExt, SequencesExt

CONSTANTS BagSlots,     \* slots 11..66 and 341..396 of the code
          BankSlots,    \* slots 67..306
          Kinds,        \* item ids
          Stackable,    \* kinds FindStackableByUIF finds
          Tradable,     \* kinds whose Tradable flag is set
          Gear,         \* kinds that are upgraded, socketed, dismantled and activated
          NoKind,       \* ItemID 0
          InitBags,     \* the inventories the character may log in with
          MaxRow,       \* rows ever inserted
          MaxStarts,    \* handlers started
          Runners       \* handlers that run at once

ASSUME SlotAssumption == BagSlots \subseteq Nat /\ BankSlots \subseteq Nat
                         /\ BagSlots \cap BankSlots = {} /\ 0 \notin BagSlots \cup BankSlots
                         /\ IsFiniteSet(BagSlots \cup BankSlots)
ASSUME KindAssumption == NoKind \notin Kinds /\ Stackable \cup Tradable \cup Gear \subseteq Kinds
ASSUME BoundAssumption == MaxRow \in Nat /\ MaxStarts \in Nat /\ IsFiniteSet(Runners)

VARIABLES mem,          \* Character.inventory
          db,           \* hops.items_characters: row id -> slot and item
          lastRow,      \* the serial the table gives its ids from
          running,      \* runner -> the calls its handler still makes
          late,         \* what goroutines still write: a snapshot, or a slot as it is by then
          packetSended, \* Character.PacketSended
          busy,         \* "trade": TradeID is set; "sale": a shop is open; "free": neither
          owed,         \* history: kind -> how many the character should have
          flaw,         \* history: what the code does not guard against and happened
          starts        \* handlers started, for the bound

vars == <<mem, db, lastRow, running, late, packetSended, busy, owed, flaw, starts>>

Slots == BagSlots \cup BankSlots
AnySlot == 0            \* slotID -1: AddItem chooses
NewSlot == [row |-> 0, kind |-> NoKind, qty |-> 0, grade |-> 0, active |-> FALSE]
Item(r, k, n, g, a) == [row |-> r, kind |-> k, qty |-> n, grade |-> g, active |-> a]
Idle == [lock |-> FALSE, todo |-> <<>>]
Gone == [slot |-> 0, item |-> NewSlot]
Occupied(s) == mem[s].kind # NoKind
Items == [row : 0..MaxRow, kind : Kinds \cup {NoKind}, qty : Nat, grade : Nat, active : BOOLEAN]

\* What was loaded has rows of its own, which are all the rows there are.
ASSUME InitBagsAssumption ==
    \A b \in InitBags :
        LET held == {s \in Slots : b[s].kind # NoKind} IN
        /\ b \in [Slots -> Items] /\ Cardinality(held) <= MaxRow
        /\ \A s \in held : b[s].row \in 1..Cardinality(held)
        /\ \A s, t \in held : b[s].row = b[t].row => s = t
        /\ \A s \in Slots \ held : b[s] = NewSlot
Pieces(k) == SumFunction([s \in Slots |-> IF mem[s].kind = k THEN mem[s].qty ELSE 0])
Lowest(S) == CHOOSE s \in S : \A t \in S : s <= t

\* A call: what is done, to which slot, with which other slot, kind or number.
Call(op, s, x, n) == [op |-> op, slot |-> s, with |-> x, n |-> n]
Put(s, k, n) == Call("put", s, k, n)        \* AddItem
Give(k, n) == Call("give", AnySlot, k, n)      \* AddItem to the slot FindFreeSlot found, or to -1
Take(s, n) == Call("take", s, NoKind, n)    \* DecrementItem
Drop(s) == Call("drop", s, NoKind, 0)       \* RemoveItem
Wipe(s) == Call("wipe", s, NoKind, 0)       \* *slot = *NewSlot()
Named(s, r) == Call("named", s, NoKind, r)  \* Insert returns and sets the id
Grade(s, g) == Call("grade", s, NoKind, g)  \* Plus, sockets or judgement, in memory
Save(s) == Call("save", s, NoKind, 0)       \* slot.Update()

---------------------------------------------------------------------------
\* What the calls do.

\* The rows after the item of slot s is written under its id: an id of 0 or a
\* deleted row is no row.
Update(rows, s, i) ==
    IF i.row # 0 /\ rows[i.row] # Gone THEN [rows EXCEPT ![i.row] = [slot |-> s, item |-> i]] ELSE rows
Delete(rows, r) == IF r = 0 THEN rows ELSE [rows EXCEPT ![r] = Gone]

\* As if a stack in the bank could be stacked onto.
AnyStack(k) == {s \in Slots : mem[s].kind = k /\ mem[s].grade = 0}
\* FindStackableItemInInventory, for an item without upgrades.
FindStackable(k) == {s \in BagSlots : mem[s].kind = k /\ mem[s].grade = 0}
FindFreeSlot == {s \in BagSlots : ~Occupied(s)}

\* The slots the item of a call of AddItem may get.
Target(c) ==
    IF c.slot # AnySlot THEN {c.slot}
    ELSE IF c.op = "put" /\ c.with \in Stackable /\ FindStackable(c.with) # {}
         THEN {Lowest(FindStackable(c.with))}
    ELSE IF FindFreeSlot # {} THEN {Lowest(FindFreeSlot)}
    ELSE IF c.with \in Stackable /\ FindStackable(c.with) # {} THEN {Lowest(FindStackable(c.with))} ELSE {}

\* The slots the calls of a handler work on.
SlotsOf(c) ==
    IF c.slot = AnySlot THEN BagSlots ELSE IF c.op \in {"move", "swap", "copy", "join"} THEN {c.slot, c.with} ELSE {c.slot}
Slotted(todo) == UNION {SlotsOf(c) : c \in Range(todo)}

\* The calls of h are `todo` from now on.
Then(h, todo) ==
    running' = [running EXCEPT ![h] = IF todo = <<>> THEN Idle ELSE [@ EXCEPT !.todo = todo]]
\* h stops early and makes only the calls `todo`: what it changed in memory and
\* has not written stays unwritten.
Stop(h, todo) ==
    /\ Then(h, todo)
    /\ flaw' = IF \E c \in Range(running[h].todo) : c.op = "save" THEN flaw \cup {"unsaved"} ELSE flaw
\* The removals at the end of `todo`.
Removals(todo) ==
    {SubSeq(todo, i, Len(todo)) : i \in {m \in 1..Len(todo) + 1 : \A j \in 1..Len(todo) : todo[j].op = "drop" <=> j >= m}}

\* The end of AddItem and SplitItem: the slot keeps the row it has, if it has
\* one; otherwise the id comes back with the answer of the database.
Store(h, s, i) ==
    IF i.row # 0
    THEN db' = Update(db, s, i) /\ Then(h, Tail(running[h].todo)) /\ UNCHANGED lastRow
    ELSE /\ lastRow < MaxRow /\ lastRow' = lastRow + 1
         /\ db' = [db EXCEPT ![lastRow + 1] =
                     IF i.kind = NoKind THEN Gone ELSE [slot |-> s, item |-> [i EXCEPT !.row = lastRow + 1]]]
         /\ Then(h, <<Named(s, lastRow + 1)>> \o Tail(running[h].todo))

\* AddItem.  A caller that gets no slot stops; the handlers of Dismantle and
\* Extraction go on to remove what was given to the smith.
AddItem(h, c) ==
    \/ /\ Target(c) = {}
       /\ \E rest \in IF c.op = "give" THEN Removals(running[h].todo) ELSE {<<>>} : Stop(h, rest)
       /\ UNCHANGED <<mem, db, lastRow, owed>>
    \/ \E s \in Target(c) :
          LET stacked == c.slot = AnySlot /\ Occupied(s)
              i == Item(mem[s].row, c.with, c.n + (IF stacked THEN mem[s].qty ELSE 0), 0, FALSE)
          IN /\ mem' = [mem EXCEPT ![s] = i]
             /\ Store(h, s, i)
             /\ owed' = [owed EXCEPT ![c.with] = @ + c.n]
             /\ flaw' = IF c.slot # AnySlot /\ Occupied(s) THEN flaw \cup {"occupied"} ELSE flaw

\* DecrementItem: without the item or enough of it the caller dereferences nil.
DecrementItem(h, c) ==
    LET i == [mem[c.slot] EXCEPT !.qty = @ - c.n] IN
    IF ~Occupied(c.slot) \/ mem[c.slot].qty < c.n
    THEN Stop(h, <<>>) /\ UNCHANGED <<mem, db, lastRow, owed>>
    ELSE /\ mem' = [mem EXCEPT ![c.slot] = i]
         /\ owed' = [owed EXCEPT ![i.kind] = @ - c.n]
         /\ IF c.n = mem[c.slot].qty
            THEN db' = Delete(db, i.row) /\ Then(h, <<Wipe(c.slot)>> \o Tail(running[h].todo))
            ELSE db' = Update(db, c.slot, i) /\ Then(h, Tail(running[h].todo))
         /\ UNCHANGED <<lastRow, flaw>>

\* RemoveItem, of an item that is in no consignment (see Market).
RemoveItem(h, c) ==
    /\ db' = Delete(db, mem[c.slot].row)
    /\ owed' = IF Occupied(c.slot) THEN [owed EXCEPT ![mem[c.slot].kind] = @ - mem[c.slot].qty] ELSE owed
    /\ Then(h, <<Wipe(c.slot)>> \o Tail(running[h].todo))
    /\ UNCHANGED <<mem, lastRow, flaw>>

\* What follows the wait: the slot is emptied, or gets its row id, whatever is
\* in it by then.
AfterWait(h, c) ==
    /\ mem' = IF c.op = "wipe" THEN [mem EXCEPT ![c.slot] = NewSlot]
              ELSE [mem EXCEPT ![c.slot].row = c.n]
    /\ Then(h, Tail(running[h].todo))
    /\ UNCHANGED <<db, lastRow, owed, flaw>>

\* A change of the item in memory and, with "save", its row.
ChangeItem(h, c) ==
    /\ IF c.op = "grade" THEN mem' = [mem EXCEPT ![c.slot].grade = c.n] /\ UNCHANGED db
       ELSE db' = Update(db, c.slot, mem[c.slot]) /\ UNCHANGED mem
    /\ Then(h, Tail(running[h].todo))
    /\ flaw' = IF \A d \in Range(running[h].todo) : d.op # "save" THEN flaw \cup {"unsaved"} ELSE flaw
    /\ UNCHANGED <<lastRow, owed>>

\* Whether ReplaceItem moves an item from w to t.
MayMove(w, t) ==
    /\ Occupied(w) /\ ~Occupied(t)
    /\ (w \in BagSlots /\ t \in BankSlots) => ~mem[w].active /\ mem[w].kind \in Tradable
\* Whether SwapItems swaps them.
MaySwap(w, t) ==
    /\ Occupied(w) /\ Occupied(t)
    /\ (w \in BankSlots /\ t \in BagSlots) => ~mem[t].active
    /\ (w \in BagSlots /\ t \in BankSlots) => ~mem[w].active /\ {mem[w].kind, mem[t].kind} \subseteq Tradable

\* ReplaceItem and SwapItems, both to their end: the checks are made again at
\* the moment the slots change.
MoveItems(h, c) ==
    /\ IF c.op = "move" /\ MayMove(c.slot, c.with)
       THEN /\ mem' = [mem EXCEPT ![c.with] = mem[c.slot], ![c.slot] = NewSlot]
            /\ db' = Update(db, c.with, mem[c.slot])
       ELSE IF c.op = "swap" /\ MaySwap(c.slot, c.with)
       THEN /\ mem' = [mem EXCEPT ![c.with] = mem[c.slot], ![c.slot] = mem[c.with]]
            /\ db' = Update(Update(db, c.slot, mem[c.with]), c.with, mem[c.slot])
       ELSE UNCHANGED <<mem, db>>
    /\ Then(h, Tail(running[h].todo))
    /\ UNCHANGED <<lastRow, owed, flaw>>

\* The first half of SplitItem: the other slot gets a copy, with the row id.
\* The part that counts is the one DecrementItem takes off afterwards.
CopyPart(h, c) ==
    /\ mem' = [mem EXCEPT ![c.with] = [mem[c.slot] EXCEPT !.qty = c.n]]
    /\ owed' = [owed EXCEPT ![mem[c.slot].kind] = @ + c.n]
    /\ flaw' = IF c.slot = c.with \/ Occupied(c.with) THEN flaw \cup {"occupied"} ELSE flaw
    /\ Then(h, Tail(running[h].todo))
    /\ UNCHANGED <<db, lastRow>>
\* Its second half: the copy is inserted as a row of its own.
InsertPart(h, c) ==
    /\ Store(h, c.slot, [mem[c.slot] EXCEPT !.row = 0])
    /\ UNCHANGED <<mem, owed, flaw>>

\* CombineItems: the stack grows at once, its row is written by a goroutine
\* (see Step), the other row is deleted.
JoinStacks(h, c) ==
    /\ mem' = [mem EXCEPT ![c.with].qty = @ + mem[c.slot].qty]
    /\ db' = Delete(db, mem[c.slot].row)
    /\ flaw' = IF c.slot = c.with THEN flaw \cup {"occupied"} ELSE flaw
    /\ Then(h, <<Wipe(c.slot)>> \o Tail(running[h].todo))
    /\ UNCHANGED <<lastRow, owed>>

\* The goroutine of CombineItems writes the slot as it is when it runs.
Later(slot) == [slot |-> slot, item |-> NewSlot]

\* A handler makes its next call.
Step(h) ==
    /\ running[h].todo # <<>>
    /\ LET c == Head(running[h].todo) IN
          /\ \/ c.op \in {"put", "give"} /\ AddItem(h, c)
             \/ c.op = "take" /\ DecrementItem(h, c)
             \/ c.op = "drop" /\ RemoveItem(h, c)
             \/ c.op \in {"wipe", "named"} /\ AfterWait(h, c)
             \/ c.op \in {"grade", "save"} /\ ChangeItem(h, c)
             \/ c.op \in {"move", "swap"} /\ MoveItems(h, c)
             \/ c.op = "copy" /\ CopyPart(h, c)
             \/ c.op = "insert" /\ InsertPart(h, c)
             \/ c.op = "join" /\ JoinStacks(h, c)
          /\ late' = IF c.op = "join" THEN late \cup {Later(c.with)} ELSE late
    /\ UNCHANGED <<packetSended, busy, starts>>

---------------------------------------------------------------------------
\* The handlers.

\* A goroutine is still to write one of the slots S, or the row of its item.
Pending(S) == \E w \in late, s \in S : IF w.item = NewSlot THEN w.slot = s ELSE mem[s].row = w.item.row
\* A handler starts on a slot that another one is at work on (two with
\* AntiDupeMutex are kept apart by it, and not counted) or a goroutine is to
\* write back.
Overlaps(h, lock, todo) ==
    \/ \E g \in Runners \ {h} : ~(lock /\ running[g].lock) /\ Slotted(todo) \cap Slotted(running[g].todo) # {}
    \/ Pending(Slotted(todo))

\* As if the handlers did not take AntiDupeMutex.
NoMutex(lock) == TRUE
Mutex(lock) == lock => \A h \in Runners : ~running[h].lock

Begin(lock, todo) ==
    /\ starts < MaxStarts /\ starts' = starts + 1 /\ todo # <<>>
    /\ Mutex(lock)
    /\ \E h \in Runners :
          /\ running[h] = Idle
          /\ running' = [running EXCEPT ![h] = [lock |-> lock, todo |-> todo]]
          /\ flaw' = IF Overlaps(h, lock, todo) THEN flaw \cup {"overlap"} ELSE flaw
    /\ UNCHANGED <<mem, db, lastRow, late, packetSended, busy, owed>>

\* What is used up, or removed, besides: a special item, luck, protection.
Spend(x) == IF x = AnySlot THEN <<>> ELSE <<Take(x, 1)>>
Lose(x) == IF x = AnySlot THEN <<>> ELSE <<Drop(x)>>
Extras == {AnySlot} \cup {s \in BagSlots : Occupied(s)}
Held == {s \in Slots : Occupied(s)}
\* The calls a method makes, none if it is refused.
Unless(refused, calls) == IF busy \in refused THEN {} ELSE calls
InBag(K) == {s \in BagSlots : mem[s].kind \in K}

ReplaceItem ==
    \E w \in Held, t \in Slots : busy = "free" /\ MayMove(w, t) /\ Begin(TRUE, <<Call("move", w, t, 0)>>)
SwapItems ==
    \E w, t \in Held : busy = "free" /\ w # t /\ MaySwap(w, t) /\ Begin(TRUE, <<Call("swap", w, t, 0)>>)
SplitItem ==
    \E w \in Held, t \in Slots : \E n \in 1..mem[w].qty :
        busy = "free" /\ Begin(TRUE, <<Call("copy", w, t, n), Take(w, n), Call("insert", t, NoKind, 0)>>)
\* CombineItems does not ask whether there is a trade or a sale.
CombineItems ==
    \E w, t \in Held : mem[w].kind = mem[t].kind /\ Begin(TRUE, <<Call("join", w, t, 0)>>)
\* RemoveItemHandler and DestroyItemHandler ask for nothing.
DestroyItem == \E s \in Held : Begin(FALSE, <<Drop(s)>>)
SellItem == \E s \in Held : busy # "trade" /\ Begin(TRUE, <<Drop(s)>>)
\* AddItem from outside: loot, rewards, gifts.
Loot == \E k \in Kinds : Begin(FALSE, <<Put(AnySlot, k, 1)>>)
\* BuyHTItem: the client names a slot it shows as free.
BuyHTItem == \E k \in Kinds, s \in FindFreeSlot : Begin(FALSE, <<Put(s, k, 1)>>)
\* ReplaceHTItem: a new row of the kind in a free slot.
ReplaceHTItem ==
    \E s \in Held : FindFreeSlot # {} /\
        Begin(TRUE, <<Drop(s), Put(Lowest(FindFreeSlot), mem[s].kind, mem[s].qty)>>)

\* BSUpgrade: the item is better, worse but kept, or destroyed; then the stone,
\* luck and protection are used up and the item is written again.
BSUpgrade(s, g, x) ==
    LET rest == <<Take(g, 1)>> \o Spend(x) \o <<Save(s)>> IN
    Unless({"trade"}, {<<Grade(s, 1), Save(s)>> \o rest, <<Grade(s, 0)>> \o rest, <<Drop(s)>> \o rest})
StrengthenHandler ==
    \E s \in InBag(Gear), g \in InBag(Stackable), x \in Extras : \E calls \in BSUpgrade(s, g, x) : Begin(FALSE, calls)
\* BSProduction: the product, if it succeeds, then book and material are used up.
BSProduction(b, m, p, k) ==
    Unless({"trade"}, {<<Take(b, 1), Take(m, 1)>>, <<Put(p, k, 1), Take(b, 1), Take(m, 1)>>})
ProductionHandler ==
    \E b, m \in InBag(Stackable), p \in FindFreeSlot, k \in Kinds :
        b # m /\ \E calls \in BSProduction(b, m, p, k) : Begin(FALSE, calls)
\* AdvancedFusion may do nothing, in a trade it must.  Its handler then does what
\* a failure does: if the recipe destroys on failure the items go, and the
\* special item always.
AdvancedFusion(p, k) == {<<>>} \cup Unless({"trade"}, {<<Put(p, k, 1)>>})
AdvancedFusionHandler ==
    \E a, b \in InBag(Kinds), p \in FindFreeSlot, x \in Extras, k \in Kinds :
        /\ a < b /\ x \notin {a, b}
        /\ \E made \in AdvancedFusion(p, k) : \E gone \in {made # <<>>, TRUE} :
              Begin(FALSE, made \o (IF gone THEN <<Drop(a), Drop(b)>> ELSE <<>>) \o Lose(x))
\* Dismantle, refused in a trade or without the gold; the handler removes the
\* item and the special item all the same.
Dismantle(k) == {<<>>} \cup Unless({"trade"}, {<<Give(k, 1)>>})
DismantleHandler ==
    \E s \in InBag(Gear) : \E x \in Extras \ {s}, k \in Stackable :
        \E melted \in Dismantle(k) : Begin(FALSE, melted \o <<Drop(s)>> \o Lose(x))
\* Extraction: the item is written only after the stone has found a place.
Extraction(s, k) == {<<>>} \cup Unless({"trade"}, {<<Grade(s, 0), Give(k, 1), Save(s)>>})
ExtractionHandler ==
    \E s \in InBag(Gear) : \E x \in Extras \ {s}, k \in Stackable :
        mem[s].grade > 0 /\ \E taken \in Extraction(s, k) : Begin(FALSE, taken \o Lose(x))
\* CreateSocket logs a trade and goes on.  With the stone that takes the sockets
\* away the row keeps them.
CreateSocket(s, x) ==
    IF mem[s].grade = 0 THEN {Spend(x) \o <<Grade(s, 1), Save(s)>>}
    ELSE IF x \in InBag(Stackable) THEN {<<Take(x, 1), Grade(s, 0)>>} ELSE {}
CreateSocketHandler ==
    \E s \in InBag(Gear) : \E x \in Extras \ {s} : \E calls \in CreateSocket(s, x) : Begin(FALSE, calls)
UpgradeSocket(s, g, x) == Unless({"trade"}, {<<Grade(s, 1), Save(s), Take(g, 1)>> \o Spend(x)})
UpgradeSocketHandler ==
    \E s \in InBag(Gear), g \in InBag(Stackable) : \E x \in Extras \ {s} :
        mem[s].grade > 0 /\ \E calls \in UpgradeSocket(s, g, x) : Begin(FALSE, calls)
\* CoProduction: the materials go; the product goes wherever there is room.
CoProduction(m, k) == Unless({"trade"}, {<<Take(m, 1)>>, <<Take(m, 1), Put(AnySlot, k, 1)>>})
CoProductionHandler ==
    \E m \in InBag(Kinds), k \in Kinds : \E calls \in CoProduction(m, k) : Begin(FALSE, calls)
HolyWaterUpgrade(s, w) == Unless({"trade"}, {<<Grade(s, g), Drop(w), Save(s)>> : g \in {mem[s].grade, 1}})
HolyWaterUpgradeHandler ==
    \E s \in InBag(Gear), w \in InBag(Stackable) :
        mem[s].grade > 0 /\ \E calls \in HolyWaterUpgrade(s, w) : Begin(FALSE, calls)
DiscriminateItem == \E s \in InBag(Gear) : Begin(FALSE, <<Grade(s, 1), Save(s)>>)
\* UseConsumable: something that is used up or stays, or a box with one reward
\* (a fortune box) or one reward for each of its pieces.
UseConsumable(s) ==
    Unless({"trade"}, {<<Take(s, n)>> : n \in {0, 1}}
                      \cup {<<Put(AnySlot, k, n), Take(s, n)>> : k \in Kinds \ {mem[s].kind}, n \in {1, mem[s].qty}})
\* UseConsumableHandler and the two OpenBoxHandlers.
OpenBox == \E s \in InBag(Stackable) : \E calls \in UseConsumable(s) : Begin(TRUE, calls)

\* ActivateTimeLimitedItem, and a form that is put on and off: at once, then
\* written.  Not while another item of the kind is active.
ActivateTimeLimitedItem ==
    \E s \in Held :
        /\ mem[s].kind \in Gear
        /\ mem[s].active \/ \A t \in Slots : mem[t].kind = mem[s].kind => ~mem[t].active
        /\ starts < MaxStarts /\ starts' = starts + 1
        /\ mem' = [mem EXCEPT ![s].active = ~@]
        /\ db' = Update(db, s, mem'[s])
        /\ flaw' = IF {s} \cap UNION {Slotted(running[g].todo) : g \in Runners} # {}
                      \/ Pending({s})
                   THEN flaw \cup {"overlap"} ELSE flaw
        /\ UNCHANGED <<lastRow, running, late, packetSended, busy, owed>>

\* ArrangeInventory and, on the pages of the bank, ArrangeBank: items of equal
\* ids come in any order, free slots come last.  Everything is put back at
\* once, and every row is written by a goroutine with what it was then.
Arrange(S) ==
    \E f \in Bijection(S, S) :
        LET now == [s \in S |-> mem[f[s]]] IN
        /\ \A s, t \in S : s < t /\ mem[f[t]].kind # NoKind => mem[f[s]].kind # NoKind
        /\ \A s, t \in S : s < t /\ mem[f[s]].kind = NoKind /\ mem[f[t]].kind = NoKind => f[s] < f[t]
        /\ mem' = [s \in Slots |-> IF s \in S THEN now[s] ELSE mem[s]]
        /\ late' = late \cup {[slot |-> s, item |-> now[s]] : s \in {t \in S : now[t].row # 0}}
        /\ flaw' = IF (\E g \in Runners : Slotted(running[g].todo) \cap S # {})
                      \/ Pending(S)
                   THEN flaw \cup {"overlap"} ELSE flaw
    /\ UNCHANGED <<db, lastRow, running, owed>>

\* ArrangeFunction and ArrangeInventory of the client: once in three seconds.
ArrangeInventory ==
    /\ ~packetSended /\ packetSended' = TRUE
    /\ starts < MaxStarts /\ starts' = starts + 1
    /\ IF busy # "free" THEN UNCHANGED <<mem, db, lastRow, running, late, owed, flaw>> ELSE Arrange(BagSlots)
    /\ UNCHANGED busy
\* Three seconds later the timer arranges once more.
WaitFunctionTimer ==
    /\ packetSended /\ packetSended' = FALSE
    /\ IF busy # "free" THEN UNCHANGED <<mem, db, lastRow, running, late, owed, flaw>> ELSE Arrange(BagSlots)
    /\ UNCHANGED <<busy, starts>>
\* ArrangeBank asks only for a trade.
ArrangeBank ==
    /\ busy # "trade" /\ starts < MaxStarts /\ starts' = starts + 1
    /\ Arrange(BankSlots)
    /\ UNCHANGED <<packetSended, busy>>
LateWrite ==
    \E w \in late :
        /\ db' = Update(db, w.slot, IF w.item = NewSlot THEN mem[w.slot] ELSE w.item)
        /\ late' = late \ {w}
        /\ UNCHANGED <<mem, lastRow, running, packetSended, busy, owed, flaw, starts>>

\* A trade or a sale begins or ends (see Trade and Shop).
TradeOrSale ==
    /\ busy' \in {"free", "trade", "sale"} /\ "free" \in {busy, busy'} /\ busy' # busy
    /\ UNCHANGED <<mem, db, lastRow, running, late, packetSended, owed, flaw, starts>>

Init ==
    /\ mem \in InitBags
    /\ db = [r \in 1..MaxRow |-> IF \E s \in Slots : mem[s].row = r
                                 THEN LET s == CHOOSE s \in Slots : mem[s].row = r IN [slot |-> s, item |-> mem[s]]
                                 ELSE Gone]
    /\ lastRow = Cardinality(Held)
    /\ running = [h \in Runners |-> Idle]
    /\ late = {} /\ packetSended = FALSE /\ busy = "free" /\ flaw = {} /\ starts = 0
    /\ owed = [k \in Kinds |-> Pieces(k)]

Handlers ==
    \/ ReplaceItem \/ SwapItems \/ SplitItem \/ CombineItems \/ DestroyItem \/ SellItem \/ Loot
    \/ BuyHTItem \/ ReplaceHTItem \/ StrengthenHandler \/ ProductionHandler \/ AdvancedFusionHandler
    \/ DismantleHandler \/ ExtractionHandler \/ CreateSocketHandler \/ UpgradeSocketHandler
    \/ CoProductionHandler \/ HolyWaterUpgradeHandler \/ DiscriminateItem \/ OpenBox \/ ActivateTimeLimitedItem
    \/ ArrangeInventory \/ ArrangeBank
Next == Handlers \/ (\E h \in Runners : Step(h)) \/ LateWrite \/ WaitFunctionTimer \/ TradeOrSale
Spec == Init /\ [][Next]_vars

---------------------------------------------------------------------------
Quiet == late = {} /\ \A h \in Runners : running[h] = Idle

\* A relogin gives back exactly the bag and the bank the player saw, slot by
\* slot, unless handlers without AntiDupeMutex were at work on one slot, an item
\* was put, split or combined onto an occupied slot, or sockets were taken away
\* or an extraction stopped, which is not written (InventorySlots reads what
\* Update, Insert and Delete have written, characters.go 357-390).
BagSurvivesRelogin ==
    Quiet /\ flaw = {} =>
        \A s \in Slots :
            {db[r].item : r \in {x \in 1..MaxRow : db[x].slot = s}} = IF Occupied(s) THEN {mem[s]} ELSE {}

\* Nothing is made or lost by moving, swapping, splitting, combining and
\* arranging: of each kind there is what was got and not used up, sold or
\* destroyed, under the same conditions (DecrementItem, RemoveItem and AddItem
\* account for every piece).
NothingLost ==
    Quiet /\ flaw \subseteq {"unsaved"} =>
        \A k \in Kinds : Pieces(k) = owed[k]
============================================================================
