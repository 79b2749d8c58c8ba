---------------------------- MODULE TradeProofs ----------------------------
(***************************************************************************)
(* Theorems about Trade for any number of characters, slots, items and     *)
(* requests.  The inductive invariant adds to the typing how a trade, the  *)
(* request it came from and its two traders hang together.  Those about    *)
(* Sight, the other component a meeting of players is made of (MCMeeting), *)
(* are at the end.                                                         *)
(***************************************************************************)
EXTENDS Trade, Sight, Sums, FiniteSetTheorems, TLAPS

\* A character in a trade is one of its two traders, and his TradeID is the
\* trade's.
InHisTrade ==
    \A p \in Players : Trades[p] # 0 =>
        /\ TradeID[p] = Trades[p]
        /\ deals[Trades[p]] # NoDeal
        /\ \E side \in Sides : deals[Trades[p]].who[side] = p

\* Two characters share a TradeID only inside a trade; uuids are fresh.
OneRequestPerID ==
    /\ \A p, q \in Players :
          p # q /\ TradeID[p] # 0 /\ TradeID[p] = TradeID[q] => Trades[p] # 0
    /\ \A p \in Players : TradeID[p] <= lastID

TwoTraders == \A t \in Ids : deals[t] # NoDeal =>
                  deals[t].who["sender"] # deals[t].who["receiver"]

ProtocolInv ==
    /\ online \subseteq Players
    /\ TradeID \in [Players -> 0..MaxRequests]
    /\ Trades \in [Players -> 0..MaxRequests]
    /\ deals \in [Ids -> Deals \cup {NoDeal}]
    /\ timers \subseteq Players \X Ids
    /\ lastID \in 0..MaxRequests
    /\ InHisTrade /\ OneRequestPerID /\ TwoTraders

WealthInv ==
    /\ bags \in [Players -> Bags]
    /\ Gold \in [Players -> Amounts]
    /\ BankGold \in [Players -> Nat]
    /\ spent \in Nat
    /\ disturbed \in BOOLEAN

IInv == ProtocolInv /\ WealthInv

----------------------------------------------------------------------------
(* Facts about data *)

\* A remainder modulo W is an amount of gold.
LEMMA Remainder == \A n \in Int : n % W \in Amounts
  BY GoldAssumption DEF Amounts

\* Every deal is a record of Deals or the null record, never both.
LEMMA DealOrNone == NoDeal \notin Deals /\ \A d \in Deals : d.stage # "none"
  BY DEF NoDeal, Deals

LEMMA TwoSides == /\ Other("sender") = "receiver" /\ Other("receiver") = "sender"
                  /\ \A side \in Sides : Other(side) \in Sides
<1>1. Other("sender") = "receiver"
  BY DEF Other, Sides
<1>2. Other("receiver") = "sender"
  BY DEF Other, Sides
<1> QED
  BY <1>1, <1>2 DEF Sides

\* AddItem keeps a bag a bag.
LEMMA AddItemType ==
    ASSUME NEW b \in [Players -> Bags], NEW p \in Players, NEW row \in Rows
    PROVE  AddItem(b, p, row) \in [Players -> Bags]
  BY DEF AddItem, Bags

LEMMA RemoveItemType ==
    ASSUME NEW b \in [Players -> Bags], NEW p \in Players, NEW s \in Slots
    PROVE  RemoveItem(b, p, s) \in [Players -> Bags]
  BY DEF RemoveItem, Bags

\* Moving items between two bags keeps them bags.
LEMMA MoveRowsType ==
    ASSUME NEW b \in [Players -> Bags], NEW p \in Players, NEW q \in Players,
           NEW f, DOMAIN f \subseteq Slots
    PROVE  MoveRows(b, p, q, f) \in [Players -> Bags]
<1> DEFINE given == [s \in Slots |-> IF s \in DOMAIN f THEN NoRow ELSE b[p][s]]
           got == [s \in Slots |-> IF \E x \in DOMAIN f : f[x] = s
                                   THEN b[p][CHOOSE x \in DOMAIN f : f[x] = s]
                                   ELSE b[q][s]]
<1>1. given \in Bags
  BY DEF Bags
<1>2. got \in Bags
  <2> SUFFICES ASSUME NEW s \in Slots
               PROVE  (IF \E x \in DOMAIN f : f[x] = s
                       THEN b[p][CHOOSE x \in DOMAIN f : f[x] = s]
                       ELSE b[q][s]) \in Rows \cup {NoRow}
    BY DEF Bags
  <2>1. CASE \E x \in DOMAIN f : f[x] = s
    <3>1. (CHOOSE x \in DOMAIN f : f[x] = s) \in Slots
      BY <2>1
    <3> QED
      BY <2>1, <3>1 DEF Bags
  <2>2. CASE ~ \E x \in DOMAIN f : f[x] = s
    BY <2>2 DEF Bags
  <2> QED
    BY <2>1, <2>2
<1>3. MoveRows(b, p, q, f) = [b EXCEPT ![p] = given, ![q] = got]
  BY DEF MoveRows
<1> QED
  BY <1>1, <1>2, <1>3
\* The slots an exchange fills come from an injection into free slots.
LEMMA PlacementType ==
    ASSUME NEW from \in SUBSET Slots, NEW bag \in Bags, NEW f \in Placements(from, bag)
    PROVE  /\ DOMAIN f = from
           /\ \A x \in from : f[x] \in Slots
           /\ \A x, y \in from : f[x] = f[y] => x = y
  BY DEF Placements, Injection, IsInjective, FirstFree, Free

\* Moving items from one bag into another duplicates none: what a slot holds
\* after the move comes from a slot of p it was moved out of, or from the same
\* slot, which was not one of those.
LEMMA MoveRowsOnePlace ==
    ASSUME NEW b \in [Players -> Bags], OnePlace(b),
           NEW p \in Players, NEW q \in Players, p # q,
           NEW from \in SUBSET Slots, NEW bag \in Bags, NEW f \in Placements(from, bag)
    PROVE  OnePlace(MoveRows(b, p, q, f))
<1> DEFINE m == MoveRows(b, p, q, f)
<1>1. /\ DOMAIN f = from
      /\ \A x \in from : f[x] \in Slots
      /\ \A x, y \in from : f[x] = f[y] => x = y
  BY PlacementType
<1>2. ASSUME NEW r \in Players, NEW s \in Slots, m[r][s] # NoRow
      PROVE  \/ r = q /\ \E x \in from : f[x] = s /\ m[r][s] = b[p][x]
             \/ m[r][s] = b[r][s] /\ (r = p => s \notin from)
  <2>1. CASE r = p
    <3>1. m[r][s] = IF s \in from THEN NoRow ELSE b[p][s]
      BY <1>1, <2>1 DEF MoveRows
    <3> QED
      BY <1>2, <2>1, <3>1
  <2>2. CASE r = q
    <3>1. m[r] = [y \in Slots |-> IF \E x \in DOMAIN f : f[x] = y
                                  THEN b[p][CHOOSE x \in DOMAIN f : f[x] = y]
                                  ELSE b[q][y]]
      BY <2>2 DEF MoveRows
    <3>2. CASE \E x \in DOMAIN f : f[x] = s
      <4>1. m[r][s] = b[p][CHOOSE x \in DOMAIN f : f[x] = s]
        BY <3>1, <3>2
      <4>2. PICK x : x = CHOOSE y \in DOMAIN f : f[y] = s
        OBVIOUS
      <4>3. x \in from /\ f[x] = s
        BY <1>1, <3>2, <4>2
      <4> QED
        BY <2>2, <4>1, <4>2, <4>3
    <3>3. CASE ~ \E x \in DOMAIN f : f[x] = s
      BY <2>2, <3>1, <3>3
    <3> QED
      BY <3>2, <3>3
  <2>3. CASE r # p /\ r # q
    BY <2>3 DEF MoveRows
  <2> QED
    BY <2>1, <2>2, <2>3
<1> HIDE DEF m
<1>3. SUFFICES ASSUME NEW r \in Players, NEW r2 \in Players, NEW s \in Slots, NEW s2 \in Slots,
                      m[r][s] = m[r2][s2], m[r][s] # NoRow
               PROVE  r = r2 /\ s = s2
  BY DEF OnePlace, m
<1>4. \/ r = q /\ \E x \in from : f[x] = s /\ m[r][s] = b[p][x]
      \/ m[r][s] = b[r][s] /\ (r = p => s \notin from)
  BY <1>2, <1>3
<1>5. m[r2][s2] # NoRow
  BY <1>3
<1>6. \/ r2 = q /\ \E x \in from : f[x] = s2 /\ m[r2][s2] = b[p][x]
      \/ m[r2][s2] = b[r2][s2] /\ (r2 = p => s2 \notin from)
  BY <1>2, <1>5
<1>7. CASE /\ r = q /\ \E x \in from : f[x] = s /\ m[r][s] = b[p][x]
           /\ r2 = q /\ \E y \in from : f[y] = s2 /\ m[r2][s2] = b[p][y]
  <2>1. PICK x \in from : f[x] = s /\ m[r][s] = b[p][x]
    BY <1>7
  <2>2. PICK y \in from : f[y] = s2 /\ m[r2][s2] = b[p][y]
    BY <1>7
  <2>3. b[p][x] = b[p][y] /\ b[p][x] # NoRow /\ x \in Slots /\ y \in Slots
    BY <1>3, <2>1, <2>2
  <2>4. x = y
    BY <2>3 DEF OnePlace
  <2> QED
    BY <1>7, <2>1, <2>2, <2>4
<1>8. CASE /\ r = q /\ \E x \in from : f[x] = s /\ m[r][s] = b[p][x]
           /\ m[r2][s2] = b[r2][s2] /\ (r2 = p => s2 \notin from)
  <2>1. PICK x \in from : f[x] = s /\ m[r][s] = b[p][x]
    BY <1>8
  <2>2. b[p][x] = b[r2][s2] /\ b[p][x] # NoRow /\ x \in Slots
    BY <1>3, <1>8, <2>1
  <2>3. p = r2 /\ x = s2
    BY <2>2 DEF OnePlace
  <2> QED
    BY <1>8, <2>1, <2>3
<1>9. CASE /\ m[r][s] = b[r][s] /\ (r = p => s \notin from)
           /\ r2 = q /\ \E y \in from : f[y] = s2 /\ m[r2][s2] = b[p][y]
  <2>1. PICK y \in from : f[y] = s2 /\ m[r2][s2] = b[p][y]
    BY <1>9
  <2>2. b[r][s] = b[p][y] /\ b[r][s] # NoRow /\ y \in Slots
    BY <1>3, <1>9, <2>1
  <2>3. r = p /\ s = y
    BY <2>2 DEF OnePlace
  <2> QED
    BY <1>9, <2>1, <2>3
<1>10. CASE m[r][s] = b[r][s] /\ m[r2][s2] = b[r2][s2]
  <2>1. b[r][s] = b[r2][s2] /\ b[r][s] # NoRow
    BY <1>3, <1>10
  <2> QED
    BY <2>1 DEF OnePlace
<1> QED
  BY <1>4, <1>6, <1>7, <1>8, <1>9, <1>10

\* A new item in a free slot duplicates none.
LEMMA AddItemOnePlace ==
    ASSUME NEW b \in [Players -> Bags], OnePlace(b), NEW p \in Players, NEW row \in Rows,
           \A q \in Players, s \in Slots : b[q][s] # row
    PROVE  OnePlace(AddItem(b, p, row))
<1>1. \A s, x \in FirstFree(b[p], 1) : s = x
  <2> SUFFICES ASSUME NEW s \in FirstFree(b[p], 1), NEW x \in FirstFree(b[p], 1), x < s
               PROVE  FALSE
    BY SlotsAssumption DEF FirstFree, Free
  <2>1. x \in {y \in Free(b[p]) : y < s}
    BY DEF FirstFree
  <2>2. IsFiniteSet({y \in Free(b[p]) : y < s})
    BY SlotsAssumption, FS_Subset DEF Free
  <2>3. Cardinality({y \in Free(b[p]) : y < s}) # 0
    BY <2>1, <2>2, FS_EmptySet
  <2>4. Cardinality({y \in Free(b[p]) : y < s}) \in Nat
    BY <2>2, FS_CardinalityType
  <2> QED
    BY <2>3, <2>4 DEF FirstFree
<1> QED
  BY <1>1 DEF OnePlace, AddItem, Bags
----------------------------------------------------------------------------
(* Facts about deals *)

\* A null record has no trader: a deal is there if its stage says so.
LEMMA DealThere ==
    ASSUME ProtocolInv, NEW t \in Ids, deals[t] # NoDeal \/ deals[t].stage # "none"
    PROVE  deals[t] \in Deals
  BY DealOrNone DEF ProtocolInv, NoDeal

LEMMA FieldTypes ==
    ASSUME NEW d \in Deals
    PROVE  /\ d.who \in [Sides -> Players]
           /\ d.offer \in [Sides -> Offers]
           /\ d.accepted \in [Sides -> BOOLEAN]
           /\ d.due \in [Sides -> Amounts]
           /\ d.stage \in {"open", "failed", "moved"}
  BY DEF Deals

\* The edits of a deal leave its traders alone.
LEMMA WithdrawnType ==
    ASSUME NEW t \in Ids, deals[t] \in Deals
    PROVE  /\ Withdrawn(t) \in Deals
           /\ Withdrawn(t).who = deals[t].who
           /\ Withdrawn(t).offer = deals[t].offer
           /\ Withdrawn(t).stage = deals[t].stage /\ Withdrawn(t).due = deals[t].due
           /\ \A side \in Sides : Withdrawn(t).accepted[side] = FALSE
<1>1. [side \in Sides |-> FALSE] \in [Sides -> BOOLEAN]
  OBVIOUS
<1> QED
  BY <1>1 DEF Withdrawn, Deals

LEMMA AcceptedType ==
    ASSUME NEW t \in Ids, deals[t] \in Deals, NEW p \in Players, NEW accept \in BOOLEAN
    PROVE  /\ Accepted(t, p, accept) \in Deals
           /\ Accepted(t, p, accept).who = deals[t].who
           /\ Accepted(t, p, accept).offer = deals[t].offer
           /\ Accepted(t, p, accept).stage = deals[t].stage
<1> DEFINE given == [side \in Sides |-> IF side = SideOf(t, p) THEN accept
                                        ELSE accept /\ deals[t].accepted[side]]
<1>1. deals[t].accepted \in [Sides -> BOOLEAN]
  BY FieldTypes
<1>2. given \in [Sides -> BOOLEAN]
  BY <1>1
<1>3. Accepted(t, p, accept) = [deals[t] EXCEPT !.accepted = given]
  BY DEF Accepted
<1> HIDE DEF given
<1> QED
  BY <1>2, <1>3 DEF Deals

LEMMA SideOfType == \A t, p : SideOf(t, p) \in Sides
  BY DEF SideOf, Sides

\* Changing one slot or the gold of one side's offer gives a deal of the same
\* traders whose acceptances are those of the deal changed.
LEMMA OfferEditType ==
    ASSUME NEW d \in Deals, NEW side \in Sides
    PROVE  /\ \A x \in TradeSlots, s \in Slots \cup {0} :
                 LET e == [d EXCEPT !.offer[side].slots[x] = s]
                 IN  e \in Deals /\ e.who = d.who /\ e.accepted = d.accepted /\ e.stage = d.stage /\ e.due = d.due
           /\ \A g \in Amounts :
                 LET e == [d EXCEPT !.offer[side].gold = g]
                 IN  e \in Deals /\ e.who = d.who /\ e.accepted = d.accepted /\ e.stage = d.stage /\ e.due = d.due
<1>1. d.offer[side] \in Offers
  BY FieldTypes
<1>2. ASSUME NEW o \in Offers
      PROVE  LET e == [d EXCEPT !.offer[side] = o]
             IN  e \in Deals /\ e.who = d.who /\ e.accepted = d.accepted /\ e.stage = d.stage /\ e.due = d.due
  <2>1. [d.offer EXCEPT ![side] = o] \in [Sides -> Offers]
    BY <1>2, FieldTypes
  <2>2. [d EXCEPT !.offer[side] = o] = [d EXCEPT !.offer = [d.offer EXCEPT ![side] = o]]
    OBVIOUS
  <2> QED
    BY <2>1, <2>2 DEF Deals
<1>3. ASSUME NEW x \in TradeSlots, NEW s \in Slots \cup {0}
      PROVE  LET e == [d EXCEPT !.offer[side].slots[x] = s]
             IN  e \in Deals /\ e.who = d.who /\ e.accepted = d.accepted /\ e.stage = d.stage /\ e.due = d.due
  <2> DEFINE o == [d.offer[side] EXCEPT !.slots = [d.offer[side].slots EXCEPT ![x] = s]]
  <2>1. o \in Offers
    BY <1>1, <1>3 DEF Offers
  <2>2. [d EXCEPT !.offer[side].slots[x] = s] = [d EXCEPT !.offer[side] = o]
    OBVIOUS
  <2> HIDE DEF o
  <2> QED
    BY <1>2, <2>1, <2>2
<1>4. ASSUME NEW g \in Amounts
      PROVE  LET e == [d EXCEPT !.offer[side].gold = g]
             IN  e \in Deals /\ e.who = d.who /\ e.accepted = d.accepted /\ e.stage = d.stage /\ e.due = d.due
  <2> DEFINE o == [d.offer[side] EXCEPT !.gold = g]
  <2>1. o \in Offers
    BY <1>1, <1>4 DEF Offers
  <2>2. [d EXCEPT !.offer[side].gold = g] = [d EXCEPT !.offer[side] = o]
    OBVIOUS
  <2> HIDE DEF o
  <2> QED
    BY <1>2, <2>1, <2>2
<1> QED
  BY <1>3, <1>4

LEMMA NewDealType ==
    ASSUME NEW p \in Players, NEW q \in Players
    PROVE  /\ NewDeal(p, q) \in Deals
           /\ NewDeal(p, q).who["sender"] = p /\ NewDeal(p, q).who["receiver"] = q
           /\ \A side \in Sides : NewDeal(p, q).accepted[side] = FALSE
<1>1. 0 \in Amounts
  BY GoldAssumption DEF Amounts
<1>2. [slots |-> [x \in TradeSlots |-> 0], gold |-> 0] \in Offers
  BY <1>1 DEF Offers
<1> QED
  BY <1>1, <1>2 DEF NewDeal, Deals, Sides

\* What each side is owed is an amount.
LEMMA DueType == ASSUME NEW d \in Deals PROVE Due(d) \in [Sides -> Amounts]
<1>1. \A side \in Sides : d.offer[side].gold \in Int
  BY FieldTypes, GoldAssumption DEF Offers, Amounts
<1>2. \A side \in Sides : d.offer[Other(side)].gold \in Int
  BY <1>1, TwoSides
<1>3. ASSUME NEW side \in Sides
      PROVE  (d.offer[Other(side)].gold + W - d.offer[side].gold) % W \in Amounts
  <2>1. d.offer[Other(side)].gold + W - d.offer[side].gold \in Int
    BY <1>1, <1>2, GoldAssumption
  <2> QED
    BY <2>1, Remainder
<1> QED
  BY <1>3 DEF Due
----------------------------------------------------------------------------
(* The inductive invariant *)

LEMMA Typing == IInv => TypeOK
  BY DEF IInv, ProtocolInv, WealthInv, TypeOK

LEMMA InitIInv == Init => IInv
<1> SUFFICES ASSUME Init PROVE IInv
  OBVIOUS
<1>1. WealthInv
  BY InitBagAssumption, GoldAssumption DEF Init, WealthInv, Amounts
<1>2. /\ online \subseteq Players /\ timers \subseteq Players \X Ids
      /\ TradeID \in [Players -> 0..MaxRequests] /\ Trades \in [Players -> 0..MaxRequests]
      /\ deals \in [Ids -> Deals \cup {NoDeal}]
      /\ lastID \in 0..MaxRequests
  BY MaxRequestsAssumption DEF Init
<1>3. InHisTrade /\ OneRequestPerID /\ TwoTraders
  BY DEF Init, InHisTrade, OneRequestPerID, TwoTraders
<1> QED
  BY <1>1, <1>2, <1>3 DEF IInv, ProtocolInv

LEMMA SameWealth ==
    ASSUME WealthInv, UNCHANGED wealthVars, disturbed' \in BOOLEAN
    PROVE  WealthInv'
  BY DEF WealthInv, wealthVars

LEMMA SameProtocol ==
    ASSUME ProtocolInv, UNCHANGED protocolVars
    PROVE  ProtocolInv'
<1>1. /\ online' = online /\ TradeID' = TradeID /\ Trades' = Trades
      /\ deals' = deals /\ timers' = timers /\ lastID' = lastID
  BY DEF protocolVars
<1> QED
  BY <1>1 DEF ProtocolInv, InHisTrade, OneRequestPerID, TwoTraders

\* A character in a trade has a deal among those of Ids.
LEMMA TradeThere ==
    ASSUME ProtocolInv, NEW p \in Players, Trades[p] # 0
    PROVE  Trades[p] \in Ids /\ deals[Trades[p]] \in Deals
<1>1. Trades[p] \in Ids
  BY MaxRequestsAssumption DEF ProtocolInv, Ids
<1> QED
  BY <1>1, DealThere DEF ProtocolInv, InHisTrade

\* Replacing a deal by one of the same traders keeps the protocol.
LEMMA EditKeeps ==
    ASSUME ProtocolInv, NEW t \in Ids, deals[t] \in Deals,
           NEW d \in Deals, d.who = deals[t].who,
           deals' = [deals EXCEPT ![t] = d],
           UNCHANGED <<online, TradeID, Trades, timers, lastID>>
    PROVE  ProtocolInv'
<1>1. deals' \in [Ids -> Deals \cup {NoDeal}]
  BY DEF ProtocolInv
<1>2. InHisTrade'
  BY DealOrNone DEF ProtocolInv, InHisTrade, Ids
<1>3. OneRequestPerID'
  BY DEF ProtocolInv, OneRequestPerID
<1>4. TwoTraders'
  BY DealOrNone DEF ProtocolInv, TwoTraders
<1> QED
  BY <1>1, <1>2, <1>3, <1>4 DEF ProtocolInv

\* Deleting a trade ends it for its two traders and for nobody else.
LEMMA DeleteKeeps ==
    ASSUME ProtocolInv, NEW t \in Ids, deals[t] \in Deals, NEW settling \in BOOLEAN,
           Delete(t, settling), online' \subseteq online, UNCHANGED <<timers, lastID>>
    PROVE  ProtocolInv'
<1>1. /\ deals' \in [Ids -> Deals \cup {NoDeal}]
      /\ TradeID' \in [Players -> 0..MaxRequests]
      /\ Trades' \in [Players -> 0..MaxRequests]
  BY MaxRequestsAssumption DEF ProtocolInv, Delete
<1>2. \A u \in Ids : u # t => deals'[u] = deals[u]
  BY DEF ProtocolInv, Delete
<1>3. ASSUME NEW p \in Players
      PROVE  \/ TradeID'[p] = 0 /\ Trades'[p] = 0
             \/ /\ TradeID'[p] = TradeID[p] /\ Trades'[p] = Trades[p]
                /\ ~ \E side \in Sides : deals[t].who[side] = p
  BY DEF Delete
<1>4. InHisTrade'
  <2> SUFFICES ASSUME NEW p \in Players, Trades'[p] # 0
               PROVE  /\ TradeID'[p] = Trades'[p]
                      /\ deals'[Trades'[p]] # NoDeal
                      /\ \E side \in Sides : deals'[Trades'[p]].who[side] = p
    BY DEF InHisTrade
  <2>1. /\ TradeID'[p] = TradeID[p] /\ Trades'[p] = Trades[p]
        /\ ~ \E side \in Sides : deals[t].who[side] = p
    BY <1>3
  <2>2. /\ TradeID[p] = Trades[p]
        /\ deals[Trades[p]] # NoDeal
        /\ \E side \in Sides : deals[Trades[p]].who[side] = p
    BY <2>1 DEF ProtocolInv, InHisTrade
  <2>3. Trades[p] \in Ids
    BY <2>1, TradeThere
  <2>4. deals'[Trades[p]] = deals[Trades[p]]
    BY <1>2, <2>1, <2>2, <2>3
  <2> QED
    BY <2>1, <2>2, <2>4
<1>5. OneRequestPerID'
  <2>1. \A p \in Players : TradeID'[p] <= lastID'
    BY <1>3 DEF ProtocolInv, OneRequestPerID
  <2>2. ASSUME NEW p \in Players, NEW q \in Players, p # q,
               TradeID'[p] # 0, TradeID'[p] = TradeID'[q]
        PROVE  Trades'[p] # 0
    <3>1. TradeID'[p] = TradeID[p] /\ Trades'[p] = Trades[p]
      BY <1>3, <2>2
    <3>2. TradeID'[q] = TradeID[q]
      BY <1>3, <2>2
    <3> QED
      BY <2>2, <3>1, <3>2 DEF ProtocolInv, OneRequestPerID
  <2> QED
    BY <2>1, <2>2 DEF OneRequestPerID
<1>6. TwoTraders'
  <2> SUFFICES ASSUME NEW u \in Ids, deals'[u] # NoDeal
               PROVE  deals'[u].who["sender"] # deals'[u].who["receiver"]
    BY DEF TwoTraders
  <2>1. deals'[u] = deals[u]
    BY <1>2 DEF ProtocolInv, Delete
  <2> QED
    BY <2>1 DEF ProtocolInv, TwoTraders
<1> QED
  BY <1>1, <1>4, <1>5, <1>6 DEF ProtocolInv
\* A remainder of gold plus, or minus, an amount is an amount.
LEMMA GoldType ==
    ASSUME NEW g \in [Players -> Amounts], NEW p \in Players, NEW n \in Int
    PROVE  /\ [g EXCEPT ![p] = (@ + n) % W] \in [Players -> Amounts]
           /\ [g EXCEPT ![p] = (@ + W - n) % W] \in [Players -> Amounts]
<1>1. g[p] \in Int /\ W \in Int
  BY GoldAssumption DEF Amounts
<1>2. (g[p] + n) % W \in Amounts /\ (g[p] + W - n) % W \in Amounts
  BY <1>1, Remainder
<1> QED
  BY <1>2

LEMMA AmountsAreNumbers == Amounts \subseteq Nat
  BY GoldAssumption DEF Amounts

\* The world's actions leave the protocol alone.
LEMMA WorldKeeps ==
    ASSUME IInv, NEW p \in Players, World(p)
    PROVE  IInv'
<1>1. CASE \E row \in Rows : Loot(p, row)
  <2>1. PICK row \in Rows : Loot(p, row)
    BY <1>1
  <2>2. AddItem(bags, p, row) \in [Players -> Bags]
    BY AddItemType DEF IInv, WealthInv
  <2>3. WealthInv'
    BY <2>1, <2>2 DEF Loot, IInv, WealthInv
  <2> QED
    BY <2>1, <2>3, SameProtocol DEF Loot, IInv
<1>2. CASE \E row \in Rows, cost \in Amounts : BuyItem(p, row, cost)
  <2>1. PICK row \in Rows, cost \in Amounts : BuyItem(p, row, cost)
    BY <1>2
  <2>2. AddItem(bags, p, row) \in [Players -> Bags]
    BY AddItemType DEF IInv, WealthInv
  <2>3. [Gold EXCEPT ![p] = (@ + W - cost) % W] \in [Players -> Amounts]
    BY GoldType, AmountsAreNumbers DEF IInv, WealthInv
  <2>4. spent + cost \in Nat
    BY AmountsAreNumbers DEF IInv, WealthInv
  <2>5. WealthInv'
    BY <2>1, <2>2, <2>3, <2>4 DEF BuyItem, IInv, WealthInv
  <2> QED
    BY <2>1, <2>5, SameProtocol DEF BuyItem, IInv
<1>3. CASE \E slot \in Slots : Destroy(p, slot)
  <2>1. PICK slot \in Slots : Destroy(p, slot)
    BY <1>3
  <2>2. RemoveItem(bags, p, slot) \in [Players -> Bags]
    BY RemoveItemType DEF IInv, WealthInv
  <2>3. WealthInv'
    BY <2>1, <2>2 DEF Destroy, IInv, WealthInv
  <2> QED
    BY <2>1, <2>3, SameProtocol DEF Destroy, IInv
<1>4. CASE \E gold \in Amounts : Deposit(p, gold) \/ Withdraw(p, gold)
  <2>1. PICK gold \in Amounts : Deposit(p, gold) \/ Withdraw(p, gold)
    BY <1>4
  <2>2. /\ [Gold EXCEPT ![p] = (@ + W - gold) % W] \in [Players -> Amounts]
        /\ [Gold EXCEPT ![p] = (@ + gold) % W] \in [Players -> Amounts]
    BY GoldType, AmountsAreNumbers DEF IInv, WealthInv
  <2>3. gold \in Nat /\ BankGold[p] \in Nat
    BY AmountsAreNumbers DEF IInv, WealthInv
  <2>4. WealthInv'
    BY <2>1, <2>2, <2>3 DEF Deposit, Withdraw, IInv, WealthInv
  <2> QED
    BY <2>1, <2>4, SameProtocol DEF Deposit, Withdraw, IInv
<1> QED
  BY <1>1, <1>2, <1>3, <1>4 DEF World
\* Only bag slots are offered, so only their items are exchanged.
LEMMA OfferedSlots ==
    ASSUME NEW d \in Deals, NEW side \in Sides
    PROVE  Offered(d, side) \subseteq Slots
<1>1. d.offer[side] \in Offers
  BY FieldTypes
<1>2. d.offer[side].slots \in [TradeSlots -> Slots \cup {0}]
  BY <1>1 DEF Offers
<1> QED
  BY <1>2 DEF Offered

LEMMA MovesAreSlots ==
    ASSUME NEW d \in Deals, NEW b
    PROVE  /\ \A from \in SenderMoves(d) : from \in SUBSET Slots
           /\ ReceiverMoves(d, b) \in SUBSET Slots
<1>1. Offered(d, "sender") \subseteq Slots /\ Offered(d, "receiver") \subseteq Slots
  BY OfferedSlots DEF Sides
<1> QED
  BY <1>1 DEF SenderMoves, ReceiverMoves

\* An exchange leaves bags bags, and an item in one place stays in one place.
LEMMA ExchangeKeeps ==
    ASSUME bags \in [Players -> Bags], NEW d \in Deals, Exchange(d),
           d.who["sender"] # d.who["receiver"]
    PROVE  /\ bags' \in [Players -> Bags]
           /\ OnePlace(bags) => OnePlace(bags')
<1> DEFINE snd == d.who["sender"]
           rcv == d.who["receiver"]
<1>1. snd \in Players /\ rcv \in Players /\ snd # rcv
  BY FieldTypes DEF Sides
<1>2. PICK from \in SenderMoves(d) : \E f \in Placements(from, bags[rcv]) :
          LET after == MoveRows(bags, snd, rcv, f) IN
          \E g \in Placements(ReceiverMoves(d, after), after[snd]) :
              bags' = MoveRows(after, rcv, snd, g)
  BY DEF Exchange
<1>3. PICK f \in Placements(from, bags[rcv]) :
          LET after == MoveRows(bags, snd, rcv, f) IN
          \E g \in Placements(ReceiverMoves(d, after), after[snd]) :
              bags' = MoveRows(after, rcv, snd, g)
  BY <1>2
<1> DEFINE after == MoveRows(bags, snd, rcv, f)
           back == ReceiverMoves(d, after)
<1>4. PICK g \in Placements(back, after[snd]) : bags' = MoveRows(after, rcv, snd, g)
  BY <1>3
<1>5. from \in SUBSET Slots /\ back \in SUBSET Slots
  BY MovesAreSlots
<1>6. bags[rcv] \in Bags
  BY <1>1
<1>7. DOMAIN f \subseteq Slots
  <2>1. f \in Placements(from, bags[rcv])
    BY <1>3
  <2> HIDE DEF rcv
  <2>2. DOMAIN f = from
    BY <1>5, <1>6, <2>1, PlacementType
  <2> QED
    BY <1>5, <2>2
<1>8. after \in [Players -> Bags]
  BY <1>1, <1>7, MoveRowsType
<1>9. OnePlace(bags) => OnePlace(after)
  BY <1>1, <1>5, <1>6, MoveRowsOnePlace
<1> HIDE DEF after, back, snd, rcv
<1>10. after[snd] \in Bags
  BY <1>1, <1>8
<1>11. DOMAIN g \subseteq Slots
  <2>1. DOMAIN g = back
    BY <1>4, <1>5, <1>10, PlacementType
  <2> QED
    BY <1>5, <2>1
<1>12. bags' \in [Players -> Bags]
  BY <1>1, <1>4, <1>8, <1>11, MoveRowsType
<1>13. OnePlace(after) => OnePlace(bags')
  BY <1>1, <1>4, <1>5, <1>8, <1>10, MoveRowsOnePlace
<1> QED
  BY <1>9, <1>12, <1>13

\* What an exchange does to the bags: the rows of `from`, slots the sender
\* offered, go to the receiver, then those of `back`, which he offered, come back.
\* c are the bags after the rows of `from` went from p to q.
Moved(b, p, q, from, c) == \E f \in Placements(from, b[q]) : c = MoveRows(b, p, q, f)

LEMMA ExchangeMoves ==
    ASSUME bags \in [Players -> Bags], NEW d \in Deals, Exchange(d)
    PROVE  \E from \in SUBSET Offered(d, "sender"), back \in SUBSET Offered(d, "receiver"),
              mid \in [Players -> Bags] :
               /\ Moved(bags, d.who["sender"], d.who["receiver"], from, mid)
               /\ Moved(mid, d.who["receiver"], d.who["sender"], back, bags')
<1> DEFINE snd == d.who["sender"]
           rcv == d.who["receiver"]
<1>1. snd \in Players /\ rcv \in Players
  BY FieldTypes DEF Sides
<1>2. PICK from \in SenderMoves(d) : \E f \in Placements(from, bags[rcv]) :
          LET after == MoveRows(bags, snd, rcv, f) IN
          \E g \in Placements(ReceiverMoves(d, after), after[snd]) :
              bags' = MoveRows(after, rcv, snd, g)
  BY DEF Exchange
<1>3. PICK f \in Placements(from, bags[rcv]) :
          LET after == MoveRows(bags, snd, rcv, f) IN
          \E g \in Placements(ReceiverMoves(d, after), after[snd]) :
              bags' = MoveRows(after, rcv, snd, g)
  BY <1>2
<1> DEFINE mid == MoveRows(bags, snd, rcv, f)
           back == ReceiverMoves(d, mid)
<1>4. from \subseteq Offered(d, "sender") /\ back \subseteq Offered(d, "receiver")
  BY <1>2 DEF SenderMoves, ReceiverMoves
<1>5. Moved(bags, snd, rcv, from, mid) /\ Moved(mid, rcv, snd, back, bags')
  BY <1>3 DEF Moved
<1>6. from \in SUBSET Slots /\ f \in Placements(from, bags[rcv]) /\ bags[rcv] \in Bags
  BY <1>1, <1>3, MovesAreSlots
<1> HIDE DEF snd, rcv
<1>7. DOMAIN f \subseteq Slots
  <2>1. DOMAIN f = from
    BY <1>6, PlacementType
  <2> QED
    BY <1>6, <2>1
<1>8. mid \in [Players -> Bags]
  BY <1>1, <1>7, MoveRowsType
<1> HIDE DEF mid, back
<1> QED
  BY <1>4, <1>5, <1>8 DEF snd, rcv

\* A row in a bag after a move was in the same slot before, or in one of p's
\* slots it was moved out of.
Traced(b, p, q, from, c) ==
    \A r \in Players, s \in Slots :
        \/ c[r][s] = b[r][s]
        \/ c[r][s] = NoRow
        \/ r = q /\ \E x \in from : c[r][s] = b[p][x]

LEMMA MovedFrom ==
    ASSUME NEW b \in [Players -> Bags], NEW p \in Players, NEW q \in Players, p # q,
           NEW from \in SUBSET Slots, NEW c, Moved(b, p, q, from, c)
    PROVE  Traced(b, p, q, from, c)
<1> SUFFICES ASSUME NEW r \in Players, NEW s \in Slots
             PROVE  \/ c[r][s] = b[r][s]
                    \/ c[r][s] = NoRow
                    \/ r = q /\ \E x \in from : c[r][s] = b[p][x]
  BY DEF Traced
<1>1. PICK f \in Placements(from, b[q]) : c = MoveRows(b, p, q, f)
  BY DEF Moved
<1>2. DOMAIN f = from
  BY <1>1, PlacementType
<1>3. CASE r = p
  <2>1. c[r][s] = IF s \in from THEN NoRow ELSE b[p][s]
    BY <1>1, <1>2, <1>3 DEF MoveRows
  <2> QED
    BY <1>3, <2>1
<1>4. CASE r = q
  <2>1. c[r] = [y \in Slots |-> IF \E x \in from : f[x] = y
                                THEN b[p][CHOOSE x \in from : f[x] = y] ELSE b[q][y]]
    BY <1>1, <1>2, <1>4 DEF MoveRows
  <2>2. CASE \E x \in from : f[x] = s
    <3>1. (CHOOSE x \in from : f[x] = s) \in from
      BY <2>2
    <3> QED
      BY <1>4, <2>1, <2>2, <3>1
  <2>3. CASE ~ \E x \in from : f[x] = s
    BY <1>4, <2>1, <2>3
  <2> QED
    BY <2>2, <2>3
<1>5. CASE r # p /\ r # q
  BY <1>1, <1>5 DEF MoveRows
<1> QED
  BY <1>3, <1>4, <1>5

\* A row in a bag before a move is in a bag after it: the slots filled were free
\* and a row for each of them is what was taken out.
LEMMA MovedKeeps ==
    ASSUME NEW b \in [Players -> Bags], NEW p \in Players, NEW q \in Players, p # q,
           NEW from \in SUBSET Slots, NEW c, Moved(b, p, q, from, c)
    PROVE  \A r \in Players, s \in Slots : b[r][s] # NoRow =>
               \E r2 \in Players, s2 \in Slots : c[r2][s2] = b[r][s]
<1> SUFFICES ASSUME NEW r \in Players, NEW s \in Slots, b[r][s] # NoRow
             PROVE  \E r2 \in Players, s2 \in Slots : c[r2][s2] = b[r][s]
  OBVIOUS
<1>1. PICK f \in Placements(from, b[q]) : c = MoveRows(b, p, q, f)
  BY DEF Moved
<1>2. /\ DOMAIN f = from
      /\ \A x \in from : f[x] \in Slots
      /\ \A x, y \in from : f[x] = f[y] => x = y
  BY <1>1, PlacementType
<1>3. \A x \in from : b[q][f[x]] = NoRow
  BY <1>1 DEF Placements, Injection, IsInjective, FirstFree, Free
<1>4. c[q] = [y \in Slots |-> IF \E x \in from : f[x] = y
                              THEN b[p][CHOOSE x \in from : f[x] = y] ELSE b[q][y]]
  BY <1>1, <1>2 DEF MoveRows
<1>5. CASE r = p /\ s \in from
  <2>1. f[s] \in Slots /\ \E x \in from : f[x] = f[s]
    BY <1>2, <1>5
  <2>2. (CHOOSE x \in from : f[x] = f[s]) = s
    BY <1>2, <1>5
  <2>3. c[q][f[s]] = b[p][s]
    BY <1>4, <2>1, <2>2
  <2> QED
    BY <1>5, <2>1, <2>3
<1>6. CASE r = p /\ s \notin from
  BY <1>1, <1>2, <1>6 DEF MoveRows
<1>7. CASE r = q
  <2>1. ~ \E x \in from : f[x] = s
    BY <1>3, <1>7
  <2>2. c[q][s] = b[q][s]
    BY <1>4, <2>1
  <2> QED
    BY <1>7, <2>2
<1>8. CASE r # p /\ r # q
  BY <1>1, <1>8 DEF MoveRows
<1> QED
  BY <1>5, <1>6, <1>7, <1>8

\* A move neither adds nor loses a row.
Held(b) == {b[p][s] : p \in Players, s \in Slots} \ {NoRow}

LEMMA MovedHeld ==
    ASSUME NEW b \in [Players -> Bags], NEW p \in Players, NEW q \in Players, p # q,
           NEW from \in SUBSET Slots, NEW c, Moved(b, p, q, from, c)
    PROVE  Held(b) = Held(c)
<1>1. ASSUME NEW row \in Held(b) PROVE row \in Held(c)
  <2>1. PICK r \in Players, s \in Slots : b[r][s] = row /\ row # NoRow
    BY <1>1 DEF Held
  <2>2. PICK r2 \in Players, s2 \in Slots : c[r2][s2] = b[r][s]
    BY <2>1, MovedKeeps
  <2> QED
    BY <2>1, <2>2 DEF Held
<1>2. ASSUME NEW row \in Held(c) PROVE row \in Held(b)
  <2>1. PICK r \in Players, s \in Slots : c[r][s] = row /\ row # NoRow
    BY <1>2 DEF Held
  <2>2. \/ c[r][s] = b[r][s]
        \/ c[r][s] = NoRow
        \/ r = q /\ \E x \in from : c[r][s] = b[p][x]
    <3>1. Traced(b, p, q, from, c)
      BY MovedFrom
    <3> QED
      BY <3>1 DEF Traced
  <2>3. \E r2 \in Players, s2 \in Slots : b[r2][s2] = row
    BY <2>1, <2>2
  <2> QED
    BY <2>1, <2>3 DEF Held
<1> QED
  BY <1>1, <1>2

\* Only slots that were offered give a row to the other trader.
LEMMA ExchangeMovesOffered ==
    ASSUME bags \in [Players -> Bags], OnePlace(bags), NEW d \in Deals, Exchange(d),
           d.who["sender"] # d.who["receiver"],
           NEW p \in Players, NEW q \in Players, p # q, NEW s \in Slots, NEW u \in Slots,
           bags[p][s] # NoRow, bags'[q][u] = bags[p][s]
    PROVE  \E side \in Sides : /\ d.who[side] = p /\ d.who[Other(side)] = q
                               /\ s \in Offered(d, side)
<1> DEFINE snd == d.who["sender"]
           rcv == d.who["receiver"]
<1>1. snd \in Players /\ rcv \in Players /\ snd # rcv
  BY FieldTypes DEF Sides
<1>2. PICK from \in SUBSET Offered(d, "sender"), back \in SUBSET Offered(d, "receiver"),
           mid \in [Players -> Bags] :
          Moved(bags, snd, rcv, from, mid) /\ Moved(mid, rcv, snd, back, bags')
  BY ExchangeMoves
<1>3. from \in SUBSET Slots /\ back \in SUBSET Slots
  BY OfferedSlots DEF Sides
<1> HIDE DEF snd, rcv
<1>4. /\ Moved(bags, snd, rcv, from, mid)
      /\ Moved(mid, rcv, snd, back, bags')
      /\ rcv # snd
  BY <1>1, <1>2
<1>traced. Traced(bags, snd, rcv, from, mid) /\ Traced(mid, rcv, snd, back, bags')
  BY <1>1, <1>3, <1>4, MovedFrom
<1>5. \/ bags'[q][u] = mid[q][u]
      \/ bags'[q][u] = NoRow
      \/ q = snd /\ \E x \in back : bags'[q][u] = mid[rcv][x]
  BY <1>traced DEF Traced
<1>6. ASSUME NEW r \in Players, NEW x \in Slots, mid[r][x] = bags[p][s]
      PROVE  \/ p = r /\ s = x
             \/ r = rcv /\ p = snd /\ s \in from
  <2>1. \/ mid[r][x] = bags[r][x]
        \/ mid[r][x] = NoRow
        \/ r = rcv /\ \E y \in from : mid[r][x] = bags[snd][y]
    BY <1>traced DEF Traced
  <2>2. \A r2 \in Players, y \in Slots : bags[r2][y] = bags[p][s] => r2 = p /\ y = s
    BY DEF OnePlace
  <2> QED
    BY <1>1, <1>3, <1>6, <2>1, <2>2
<1>7. CASE bags'[q][u] = mid[q][u]
  <2>1. q = rcv /\ p = snd /\ s \in from
    BY <1>6, <1>7
  <2> QED
    BY <1>2, <2>1, TwoSides DEF snd, rcv, Sides
<1>8. CASE q = snd /\ \E x \in back : bags'[q][u] = mid[rcv][x]
  <2>1. PICK x \in back : mid[rcv][x] = bags[p][s]
    BY <1>8
  <2>2. p = rcv /\ s = x
    BY <1>1, <1>3, <1>6, <1>8, <2>1
  <2> QED
    BY <1>2, <1>8, <2>1, <2>2, TwoSides DEF snd, rcv, Sides
<1> QED
  BY <1>5, <1>7, <1>8

\* Both traders together hold after the exchange what they held before it.
LEMMA ExchangeLosesNothing ==
    ASSUME bags \in [Players -> Bags], NEW d \in Deals, Exchange(d),
           d.who["sender"] # d.who["receiver"]
    PROVE  Loaded' = Loaded
<1> DEFINE snd == d.who["sender"]
           rcv == d.who["receiver"]
<1>1. snd \in Players /\ rcv \in Players /\ snd # rcv
  BY FieldTypes DEF Sides
<1>2. PICK from \in SUBSET Offered(d, "sender"), back \in SUBSET Offered(d, "receiver"),
           mid \in [Players -> Bags] :
          Moved(bags, snd, rcv, from, mid) /\ Moved(mid, rcv, snd, back, bags')
  BY ExchangeMoves
<1>3. from \in SUBSET Slots /\ back \in SUBSET Slots
  BY OfferedSlots DEF Sides
<1> HIDE DEF snd, rcv
<1>4. /\ Moved(bags, snd, rcv, from, mid)
      /\ Moved(mid, rcv, snd, back, bags')
      /\ rcv # snd
  BY <1>1, <1>2
<1>5. Held(bags) = Held(mid)
  BY <1>1, <1>3, <1>4, MovedHeld
<1>6. Held(mid) = Held(bags')
  BY <1>1, <1>3, <1>4, MovedHeld
<1>7. Loaded = Held(bags) /\ Loaded' = Held(bags')
  BY DEF Held, Loaded
<1> QED
  BY <1>5, <1>6, <1>7
----------------------------------------------------------------------------
(* Every step of the trading protocol keeps the inductive invariant *)

LEMMA SendTradeRequestKeeps ==
    ASSUME IInv, NEW p \in Players, NEW q \in Players, SendTradeRequest(p, q)
    PROVE  IInv'
<1>1. lastID + 1 \in Ids /\ lastID + 1 > lastID
  BY MaxRequestsAssumption DEF SendTradeRequest, IInv, ProtocolInv, Ids
<1>2. /\ TradeID' \in [Players -> 0..MaxRequests]
      /\ timers' \subseteq Players \X Ids
      /\ lastID' \in 0..MaxRequests
  BY <1>1, MaxRequestsAssumption DEF SendTradeRequest, IInv, ProtocolInv, Ids
<1>3. TradeID[p] = 0 /\ Trades[p] = 0
  BY DEF SendTradeRequest, IInv, ProtocolInv, InHisTrade
<1>4. \A r \in Players : TradeID'[r] = IF r = p THEN lastID + 1 ELSE TradeID[r]
  BY DEF SendTradeRequest, IInv, ProtocolInv
<1>5. InHisTrade'
  BY <1>3, <1>4 DEF SendTradeRequest, IInv, ProtocolInv, InHisTrade
<1>6. \A r \in Players : TradeID[r] <= lastID /\ TradeID[r] \in Nat /\ lastID \in Nat
  BY MaxRequestsAssumption DEF IInv, ProtocolInv, OneRequestPerID
<1>7. OneRequestPerID'
  BY <1>1, <1>4, <1>6 DEF SendTradeRequest, IInv, ProtocolInv, OneRequestPerID
<1>8. TwoTraders'
  BY DEF SendTradeRequest, IInv, ProtocolInv, TwoTraders
<1>9. WealthInv'
  BY SameWealth DEF SendTradeRequest, IInv, WealthInv
<1>10. ProtocolInv'
  BY <1>2, <1>5, <1>7, <1>8 DEF SendTradeRequest, IInv, ProtocolInv
<1> QED
  BY <1>9, <1>10 DEF IInv

LEMMA RequestTimeoutKeeps ==
    ASSUME IInv, NEW p \in Players, NEW id \in Ids, RequestTimeout(p, id)
    PROVE  IInv'
<1>1. \A r \in Players : \/ TradeID'[r] = TradeID[r]
                         \/ r = p /\ TradeID'[r] = 0 /\ Trades[r] = 0
  BY DEF RequestTimeout, IInv, ProtocolInv
<1>2. TradeID' \in [Players -> 0..MaxRequests] /\ timers' \subseteq Players \X Ids
  BY MaxRequestsAssumption DEF RequestTimeout, IInv, ProtocolInv
<1>3. InHisTrade'
  BY <1>1 DEF RequestTimeout, IInv, ProtocolInv, InHisTrade
<1>4. OneRequestPerID'
  <2>1. \A r \in Players : TradeID'[r] <= lastID
    BY <1>1, MaxRequestsAssumption DEF IInv, ProtocolInv, OneRequestPerID
  <2> QED
    BY <1>1, <2>1 DEF RequestTimeout, IInv, ProtocolInv, OneRequestPerID
<1>5. TwoTraders'
  BY DEF RequestTimeout, IInv, ProtocolInv, TwoTraders
<1>6. WealthInv'
  BY SameWealth DEF RequestTimeout, IInv, WealthInv
<1> QED
  BY <1>2, <1>3, <1>4, <1>5, <1>6 DEF RequestTimeout, IInv, ProtocolInv

LEMMA RespondTradeRequestKeeps ==
    ASSUME IInv, NEW p \in Players, NEW q \in Players, NEW accept \in BOOLEAN,
           RespondTradeRequest(p, q, accept)
    PROVE  IInv'
<1> DEFINE t == TradeID[p]
<1>1. WealthInv'
  BY SameWealth DEF RespondTradeRequest, IInv, WealthInv
<1>2. /\ t \in Ids /\ p # q /\ TradeID[q] = 0 /\ Trades[p] = 0 /\ Trades[q] = 0
      /\ t \in 0..MaxRequests /\ 0 \in 0..MaxRequests
  BY MaxRequestsAssumption DEF RespondTradeRequest, IInv, ProtocolInv, InHisTrade, Ids
<1>3. CASE accept /\ p \in online
  <2>1. /\ deals' = [deals EXCEPT ![t] = NewDeal(p, q)]
        /\ Trades' = [Trades EXCEPT ![p] = t, ![q] = t]
        /\ TradeID' = [TradeID EXCEPT ![q] = t]
        /\ UNCHANGED <<online, timers, lastID>>
    BY <1>3 DEF RespondTradeRequest
  <2>2. /\ NewDeal(p, q) \in Deals
        /\ NewDeal(p, q).who["sender"] = p /\ NewDeal(p, q).who["receiver"] = q
    BY NewDealType DEF NewDeal
  <2>3. /\ deals' \in [Ids -> Deals \cup {NoDeal}]
        /\ Trades' \in [Players -> 0..MaxRequests]
        /\ TradeID' \in [Players -> 0..MaxRequests]
    BY <1>2, <2>1, <2>2 DEF IInv, ProtocolInv
  <2>4. \A r \in Players : r # p /\ r # q =>
            Trades'[r] = Trades[r] /\ TradeID'[r] = TradeID[r] /\ TradeID[r] # t
    <3>1. \A r \in Players : r # p => TradeID[r] # t
      BY <1>2 DEF IInv, ProtocolInv, OneRequestPerID, Ids
    <3> QED
      BY <1>2, <2>1, <3>1 DEF IInv, ProtocolInv
  <2>5. Trades'[p] = t /\ Trades'[q] = t /\ TradeID'[p] = t /\ TradeID'[q] = t
    BY <1>2, <2>1 DEF IInv, ProtocolInv
  <2>6. deals'[t] = NewDeal(p, q) /\ \A u \in Ids : u # t => deals'[u] = deals[u]
    BY <1>2, <2>1 DEF IInv, ProtocolInv
  <2> HIDE DEF t
  <2>7. InHisTrade'
    <3> SUFFICES ASSUME NEW r \in Players, Trades'[r] # 0
                 PROVE  /\ TradeID'[r] = Trades'[r]
                        /\ deals'[Trades'[r]] # NoDeal
                        /\ \E side \in Sides : deals'[Trades'[r]].who[side] = r
      BY DEF InHisTrade
    <3>1. CASE r = p \/ r = q
      BY <2>2, <2>5, <2>6, <3>1, DealOrNone DEF Sides
    <3>2. CASE r # p /\ r # q
      <4>1. Trades'[r] = Trades[r] /\ TradeID'[r] = TradeID[r] /\ TradeID[r] # t
        BY <2>4, <3>2
      <4>2. Trades[r] \in Ids /\ TradeID[r] = Trades[r]
        BY <4>1, TradeThere DEF IInv, ProtocolInv, InHisTrade
      <4>3. deals'[Trades[r]] = deals[Trades[r]]
        BY <2>6, <4>1, <4>2
      <4> QED
        BY <4>1, <4>2, <4>3 DEF IInv, ProtocolInv, InHisTrade
    <3> QED
      BY <3>1, <3>2
  <2>8. OneRequestPerID'
    <3>1. lastID' = lastID /\ \A r \in Players : TradeID[r] <= lastID
      BY <2>1 DEF IInv, ProtocolInv, OneRequestPerID
    <3>2. \A r \in Players : TradeID'[r] <= lastID'
      BY <2>4, <2>5, <3>1 DEF t
    <3>3. ASSUME NEW r \in Players, NEW v \in Players, r # v,
                 TradeID'[r] # 0, TradeID'[r] = TradeID'[v]
          PROVE  Trades'[r] # 0
      <4>1. CASE r = p \/ r = q
        BY <2>5, <3>3, <4>1
      <4>2. CASE (r # p /\ r # q) /\ (v = p \/ v = q)
        BY <2>4, <2>5, <3>3, <4>2
      <4>3. CASE r # p /\ r # q /\ v # p /\ v # q
        BY <2>4, <3>3, <4>3 DEF IInv, ProtocolInv, OneRequestPerID
      <4> QED
        BY <4>1, <4>2, <4>3
    <3> QED
      BY <3>2, <3>3 DEF OneRequestPerID
  <2>9. TwoTraders'
    BY <1>2, <2>2, <2>6 DEF IInv, ProtocolInv, TwoTraders
  <2> QED
    BY <1>1, <2>1, <2>3, <2>7, <2>8, <2>9 DEF IInv, ProtocolInv
<1>4. CASE ~(accept /\ p \in online)
  <2>1. /\ TradeID' = [TradeID EXCEPT ![p] = 0]
        /\ UNCHANGED <<online, Trades, deals, timers, lastID>>
    BY <1>4 DEF RespondTradeRequest
  <2>2. \A r \in Players : TradeID'[r] = IF r = p THEN 0 ELSE TradeID[r]
    BY <2>1 DEF IInv, ProtocolInv
  <2>3. InHisTrade'
    BY <1>2, <2>1, <2>2 DEF IInv, ProtocolInv, InHisTrade
  <2>4. OneRequestPerID'
    BY <2>1, <2>2, MaxRequestsAssumption DEF IInv, ProtocolInv, OneRequestPerID
  <2>5. TwoTraders'
    BY <2>1 DEF IInv, ProtocolInv, TwoTraders
  <2>6. TradeID' \in [Players -> 0..MaxRequests]
    BY <1>2, <2>1 DEF IInv, ProtocolInv
  <2> QED
    BY <1>1, <2>1, <2>3, <2>4, <2>5, <2>6 DEF IInv, ProtocolInv
<1> QED
  BY <1>3, <1>4
\* The three edits of an offer.
LEMMA EditsKeep ==
    ASSUME IInv, NEW p \in Players,
           \/ \E x \in TradeSlots, slot \in Slots : AddTradeItem(p, x, slot)
           \/ \E gold \in Amounts : AddTradeGold(p, gold)
           \/ \E x \in TradeSlots : RemoveTradeItem(p, x)
    PROVE  IInv'
<1> DEFINE t == Trades[p]
<1>1. /\ t # 0 /\ UNCHANGED wealthVars /\ disturbed' = disturbed
      /\ UNCHANGED <<online, TradeID, Trades, timers, lastID>>
  BY DEF AddTradeItem, AddTradeGold, RemoveTradeItem
<1>2. t \in Ids /\ deals[t] \in Deals
  BY <1>1, TradeThere DEF IInv
<1>3. WealthInv'
  BY <1>1, SameWealth DEF IInv, WealthInv
<1>4. Withdrawn(t) \in Deals /\ Withdrawn(t).who = deals[t].who
  BY <1>2, WithdrawnType
<1>5. SideOf(t, p) \in Sides
  BY SideOfType
<1>6. /\ \A x \in TradeSlots, s \in Slots \cup {0} :
            LET e == [Withdrawn(t) EXCEPT !.offer[SideOf(t, p)].slots[x] = s]
            IN  e \in Deals /\ e.who = deals[t].who
      /\ \A g \in Amounts :
            LET e == [Withdrawn(t) EXCEPT !.offer[SideOf(t, p)].gold = g]
            IN  e \in Deals /\ e.who = deals[t].who
  BY <1>4, <1>5, OfferEditType
<1>7. \E d \in Deals : d.who = deals[t].who /\ deals' = [deals EXCEPT ![t] = d]
  <2>1. CASE \E x \in TradeSlots, slot \in Slots : AddTradeItem(p, x, slot)
    BY <1>4, <1>6, <2>1 DEF AddTradeItem
  <2>2. CASE \E gold \in Amounts : AddTradeGold(p, gold)
    BY <1>4, <1>6, <2>2 DEF AddTradeGold
  <2>3. CASE \E x \in TradeSlots : RemoveTradeItem(p, x)
    BY <1>6, <2>3 DEF RemoveTradeItem
  <2> QED
    BY <2>1, <2>2, <2>3
<1> HIDE DEF t
<1>8. ProtocolInv'
  BY <1>1, <1>2, <1>7, EditKeeps DEF IInv
<1> QED
  BY <1>3, <1>8 DEF IInv

LEMMA CompleteTradeKeeps ==
    ASSUME IInv, NEW p \in Players, CompleteTrade(p)
    PROVE  IInv' /\ (OnePlace(bags) => OnePlace(bags'))
<1> DEFINE t == Trades[p]
           deal == Accepted(t, p, TRUE)
           moved == [deal EXCEPT !.stage = "moved", !.due = Due(deal)]
<1>1. /\ t # 0 /\ Exchange(deal)
      /\ deals' = [deals EXCEPT ![t] = moved]
      /\ UNCHANGED <<online, TradeID, Trades, timers, lastID, disturbed, Gold, BankGold, spent>>
  BY DEF CompleteTrade
<1>2. t \in Ids /\ deals[t] \in Deals
  BY <1>1, TradeThere DEF IInv
<1> HIDE DEF t
<1>3. deal \in Deals /\ deal.who = deals[t].who
  BY <1>2, AcceptedType
<1> HIDE DEF deal
<1>4. moved \in Deals /\ moved.who = deals[t].who
  <2>1. Due(deal) \in [Sides -> Amounts]
    BY <1>3, DueType
  <2> QED
    BY <1>3, <2>1 DEF Deals
<1> HIDE DEF moved
<1>5. ProtocolInv'
  BY <1>1, <1>2, <1>4, EditKeeps DEF IInv
<1>6. deal.who["sender"] # deal.who["receiver"]
  BY <1>2, <1>3, DealOrNone DEF IInv, ProtocolInv, TwoTraders
<1>7. bags' \in [Players -> Bags] /\ (OnePlace(bags) => OnePlace(bags'))
  BY <1>1, <1>3, <1>6, ExchangeKeeps DEF IInv, WealthInv
<1>8. WealthInv'
  BY <1>1, <1>7 DEF IInv, WealthInv
<1> QED
  BY <1>5, <1>7, <1>8 DEF IInv

LEMMA AcceptTradeKeeps ==
    ASSUME IInv, NEW p \in Players, NEW accept \in BOOLEAN, AcceptTrade(p, accept)
    PROVE  IInv'
<1> DEFINE t == Trades[p]
           deal == Accepted(t, p, accept)
           failed == [deal EXCEPT !.stage = "failed"]
<1>1. /\ t # 0 /\ UNCHANGED wealthVars /\ disturbed' = disturbed
      /\ deals' = [deals EXCEPT ![t] = failed] \/ deals' = [deals EXCEPT ![t] = deal]
      /\ UNCHANGED <<online, TradeID, Trades, timers, lastID>>
  BY DEF AcceptTrade
<1>2. t \in Ids /\ deals[t] \in Deals
  BY <1>1, TradeThere DEF IInv
<1> HIDE DEF t
<1>3. deal \in Deals /\ deal.who = deals[t].who
  BY <1>2, AcceptedType
<1> HIDE DEF deal
<1>4. failed \in Deals /\ failed.who = deals[t].who
  BY <1>3 DEF Deals
<1> HIDE DEF failed
<1>5. ProtocolInv'
  BY <1>1, <1>2, <1>3, <1>4, EditKeeps DEF IInv
<1>6. WealthInv'
  BY <1>1, SameWealth DEF IInv, WealthInv
<1> QED
  BY <1>5, <1>6 DEF IInv

LEMMA SettleTradeKeeps ==
    ASSUME IInv, NEW t \in Ids, SettleTrade(t)
    PROVE  IInv'
<1>1. deals[t] \in Deals
  BY DealThere DEF SettleTrade, IInv
<1>2. ProtocolInv'
  BY <1>1, DeleteKeeps DEF SettleTrade, IInv
<1>3. \A p \in Players : (Gold[p] + deals[t].due[SideOf(t, p)]) % W \in Amounts
  <2> SUFFICES ASSUME NEW p \in Players
               PROVE  (Gold[p] + deals[t].due[SideOf(t, p)]) % W \in Amounts
    OBVIOUS
  <2>1. deals[t].due[SideOf(t, p)] \in Amounts
    BY <1>1, FieldTypes, SideOfType
  <2>2. Gold[p] \in Amounts
    BY DEF IInv, WealthInv
  <2>3. Gold[p] \in Int /\ deals[t].due[SideOf(t, p)] \in Int
    BY <2>1, <2>2, GoldAssumption DEF Amounts
  <2>4. Gold[p] + deals[t].due[SideOf(t, p)] \in Int
    BY <2>3
  <2> QED
    BY <2>4, Remainder
<1>4. Gold' \in [Players -> Amounts]
  BY <1>3 DEF SettleTrade, IInv, WealthInv
<1>5. WealthInv'
  BY <1>4 DEF SettleTrade, IInv, WealthInv
<1> QED
  BY <1>2, <1>5 DEF IInv

LEMMA CancelTradeKeeps ==
    ASSUME IInv, NEW p \in Players, CancelTrade(p)
    PROVE  IInv'
<1>1. Trades[p] \in Ids /\ deals[Trades[p]] \in Deals
  BY TradeThere DEF CancelTrade, IInv
<1>2. ProtocolInv'
  BY <1>1, DeleteKeeps DEF CancelTrade, IInv
<1>3. WealthInv'
  BY SameWealth DEF CancelTrade, IInv, WealthInv
<1> QED
  BY <1>2, <1>3 DEF IInv

LEMMA LogoutKeeps ==
    ASSUME IInv, NEW p \in Players, Logout(p)
    PROVE  IInv'
<1>1. WealthInv'
  BY SameWealth DEF Logout, IInv, WealthInv
<1>2. CASE Trades[p] # 0
  <2>1. Trades[p] \in Ids /\ deals[Trades[p]] \in Deals
    BY <1>2, TradeThere DEF IInv
  <2>2. Delete(Trades[p], FALSE) /\ online' \subseteq online /\ UNCHANGED <<timers, lastID>>
    BY <1>2 DEF Logout
  <2>3. ProtocolInv'
    BY <2>1, <2>2, DeleteKeeps DEF IInv
  <2> QED
    BY <1>1, <2>3 DEF IInv
<1>3. CASE Trades[p] = 0
  <2>1. /\ online' = online \ {p} /\ TradeID' = [TradeID EXCEPT ![p] = 0]
        /\ UNCHANGED <<Trades, deals, timers, lastID>>
    BY <1>3 DEF Logout
  <2>2. \A r \in Players : TradeID'[r] = IF r = p THEN 0 ELSE TradeID[r]
    BY <2>1 DEF IInv, ProtocolInv
  <2>3. InHisTrade'
    BY <1>3, <2>1, <2>2 DEF IInv, ProtocolInv, InHisTrade
  <2>4. OneRequestPerID'
    BY <2>1, <2>2, MaxRequestsAssumption DEF IInv, ProtocolInv, OneRequestPerID
  <2>5. TwoTraders'
    BY <2>1 DEF IInv, ProtocolInv, TwoTraders
  <2>6. TradeID' \in [Players -> 0..MaxRequests]
    BY <2>1, MaxRequestsAssumption DEF IInv, ProtocolInv
  <2> QED
    BY <1>1, <2>1, <2>3, <2>4, <2>5, <2>6 DEF IInv, ProtocolInv
<1> QED
  BY <1>2, <1>3
LEMMA NextIInv == IInv /\ [Next]_vars => IInv'
<1> SUFFICES ASSUME IInv, [Next]_vars PROVE IInv'
  OBVIOUS
<1>1. CASE \E p \in Players : World(p)
  BY <1>1, WorldKeeps
<1>2. ASSUME NEW p \in Players, Negotiation(p) PROVE IInv'
  <2>1. CASE \E q \in Players : SendTradeRequest(p, q)
    BY <2>1, SendTradeRequestKeeps
  <2>2. CASE \E q \in Players, accept \in BOOLEAN : RespondTradeRequest(q, p, accept)
    BY <2>2, RespondTradeRequestKeeps
  <2>3. CASE \/ \E x \in TradeSlots, slot \in Slots : AddTradeItem(p, x, slot)
             \/ \E gold \in Amounts : AddTradeGold(p, gold)
             \/ \E x \in TradeSlots : RemoveTradeItem(p, x)
    BY <2>3, EditsKeep
  <2>4. CASE CompleteTrade(p)
    BY <2>4, CompleteTradeKeeps
  <2>5. CASE \E accept \in BOOLEAN : AcceptTrade(p, accept)
    BY <2>5, AcceptTradeKeeps
  <2>6. CASE CancelTrade(p)
    BY <2>6, CancelTradeKeeps
  <2>7. CASE Logout(p)
    BY <2>7, LogoutKeeps
  <2> QED
    BY <1>2, <2>1, <2>2, <2>3, <2>4, <2>5, <2>6, <2>7 DEF Negotiation
<1>3. CASE \E p \in Players, id \in Ids : RequestTimeout(p, id)
  BY <1>3, RequestTimeoutKeeps
<1>4. CASE \E t \in Ids : SettleTrade(t)
  BY <1>4, SettleTradeKeeps
<1>5. CASE UNCHANGED vars
  <2>1. UNCHANGED protocolVars /\ UNCHANGED wealthVars /\ disturbed' = disturbed
    BY <1>5 DEF vars, protocolVars, wealthVars
  <2> QED
    BY <2>1, SameProtocol, SameWealth DEF IInv, WealthInv
<1> QED
  BY <1>1, <1>2, <1>3, <1>4, <1>5 DEF Next, Trading

LEMMA Invariance == Spec => []IInv
<1> QED
  BY InitIInv, NextIInv, PTL DEF Spec

\* The bags change hands in an exchange only, and only an exchange marks a trade
\* as moved.
LEMMA OnlyExchangesMove ==
    ASSUME IInv, Next
    PROVE  /\ \/ bags' = bags
              \/ \E p \in Players, row \in Rows : row \notin Loaded /\ bags' = AddItem(bags, p, row)
              \/ \E p \in Players, slot \in Slots : bags' = RemoveItem(bags, p, slot)
              \/ \E p \in Players : CompleteTrade(p)
           /\ \A t \in Ids : deals[t].stage = "open" /\ deals'[t].stage = "moved" =>
                  \E p \in Players : CompleteTrade(p)
<1>1. ASSUME NEW p \in Players, World(p)
      PROVE  /\ deals' = deals
             /\ \/ bags' = bags
                \/ \E row \in Rows : row \notin Loaded /\ bags' = AddItem(bags, p, row)
                \/ \E slot \in Slots : bags' = RemoveItem(bags, p, slot)
  BY <1>1 DEF World, Loot, BuyItem, Destroy, Deposit, Withdraw, protocolVars
<1>2. ASSUME NEW p \in Players, Negotiation(p)
      PROVE  bags' = bags \/ CompleteTrade(p)
  BY <1>2 DEF Negotiation, SendTradeRequest, RespondTradeRequest, AddTradeItem,
     AddTradeGold, RemoveTradeItem, AcceptTrade, CancelTrade, Logout, wealthVars
<1>3. ASSUME NEW p \in Players, NEW id \in Ids, RequestTimeout(p, id)
      PROVE  bags' = bags /\ deals' = deals
  BY <1>3 DEF RequestTimeout, wealthVars
<1>4. ASSUME NEW t \in Ids, SettleTrade(t) PROVE bags' = bags
  BY <1>4 DEF SettleTrade
<1>5. ASSUME NEW t \in Ids, deals[t].stage = "open", deals'[t].stage = "moved",
             NEW p \in Players, Negotiation(p)
      PROVE  CompleteTrade(p)
  <2>1. deals \in [Ids -> Deals \cup {NoDeal}] /\ deals[t] \in Deals /\ deals'[t] # deals[t]
    BY <1>5, DealThere DEF IInv, ProtocolInv
  <2>2. ASSUME NEW q \in Players, SendTradeRequest(p, q) PROVE FALSE
    BY <2>1, <2>2 DEF SendTradeRequest
  <2>3. ASSUME NEW q \in Players, NEW accept \in BOOLEAN, RespondTradeRequest(q, p, accept)
        PROVE  FALSE
    BY <1>5, <2>1, <2>3 DEF RespondTradeRequest, NewDeal
  <2>4. ASSUME \/ \E x \in TradeSlots, slot \in Slots : AddTradeItem(p, x, slot)
               \/ \E gold \in Amounts : AddTradeGold(p, gold)
               \/ \E x \in TradeSlots : RemoveTradeItem(p, x)
        PROVE  FALSE
    <3>1. t = Trades[p]
      BY <2>1, <2>4 DEF AddTradeItem, AddTradeGold, RemoveTradeItem
    <3>2. Withdrawn(t) \in Deals /\ Withdrawn(t).stage = "open" /\ SideOf(t, p) \in Sides
      BY <1>5, <2>1, WithdrawnType, SideOfType
    <3>3. /\ \A x \in TradeSlots, s \in Slots \cup {0} :
                [Withdrawn(t) EXCEPT !.offer[SideOf(t, p)].slots[x] = s].stage = "open"
          /\ \A g \in Amounts :
                [Withdrawn(t) EXCEPT !.offer[SideOf(t, p)].gold = g].stage = "open"
      BY <3>2, OfferEditType
    <3>4. CASE \E x \in TradeSlots, slot \in Slots : AddTradeItem(p, x, slot)
      BY <1>5, <2>1, <3>1, <3>2, <3>3, <3>4 DEF AddTradeItem
    <3>5. CASE \E gold \in Amounts : AddTradeGold(p, gold)
      BY <1>5, <2>1, <3>1, <3>2, <3>3, <3>5 DEF AddTradeGold
    <3>6. CASE \E x \in TradeSlots : RemoveTradeItem(p, x)
      <4>1. PICK x \in TradeSlots : RemoveTradeItem(p, x)
        BY <3>6
      <4>2. deals'[t] = [Withdrawn(t) EXCEPT !.offer[SideOf(t, p)].slots[x] = 0]
        BY <2>1, <3>1, <4>1 DEF RemoveTradeItem
      <4> QED
        BY <1>5, <3>3, <4>2
    <3> QED
      BY <2>4, <3>4, <3>5, <3>6
  <2>5. ASSUME NEW accept \in BOOLEAN, AcceptTrade(p, accept) PROVE FALSE
    <3>1. t = Trades[p]
      BY <2>1, <2>5 DEF AcceptTrade
    <3>2. Accepted(t, p, accept) \in Deals /\ Accepted(t, p, accept).stage = "open"
      BY <1>5, <2>1, AcceptedType DEF Accepted, Deals
    <3>3. deals'[t] = Accepted(t, p, accept)
          \/ deals'[t] = [Accepted(t, p, accept) EXCEPT !.stage = "failed"]
      BY <2>1, <2>5, <3>1 DEF AcceptTrade
    <3> QED
      BY <1>5, <3>2, <3>3 DEF Deals
  <2>6. ASSUME NEW u, NEW settling, Delete(u, settling) PROVE FALSE
    BY <1>5, <2>1, <2>6 DEF Delete, NoDeal
  <2>7. ~CancelTrade(p) /\ ~Logout(p)
    BY <2>1, <2>6 DEF CancelTrade, Logout
  <2> QED
    BY <1>5, <2>2, <2>3, <2>4, <2>5, <2>7 DEF Negotiation
<1>6. ASSUME NEW t \in Ids, deals[t].stage = "open", deals'[t].stage = "moved",
             NEW u \in Ids, SettleTrade(u)
      PROVE  FALSE
  <2>1. deals \in [Ids -> Deals \cup {NoDeal}]
    BY DEF IInv, ProtocolInv
  <2> QED
    BY <1>6, <2>1 DEF SettleTrade, Delete, NoDeal
<1> QED
  BY <1>1, <1>2, <1>3, <1>4, <1>5, <1>6 DEF Next, Trading

\* An exchange is that of the trade of the two who accepted it.
LEMMA ExchangeOfATrade ==
    ASSUME IInv, NEW p \in Players, CompleteTrade(p)
    PROVE  \E t \in Ids, d \in Deals :
               /\ deals[t] # NoDeal /\ deals[t].stage = "open" /\ deals'[t].stage = "moved"
               /\ deals'[t].who = d.who /\ deals'[t].offer = d.offer
               /\ \A z \in Sides : deals'[t].accepted[z]
               /\ d.who["sender"] # d.who["receiver"]
               /\ Exchange(d)
<1> DEFINE t == Trades[p]
           d == Accepted(t, p, TRUE)
<1>1. t \in Ids /\ deals[t] \in Deals /\ deals[t] # NoDeal
  BY TradeThere, DealOrNone DEF CompleteTrade, IInv
<1>2. d \in Deals /\ d.who = deals[t].who
  BY <1>1, AcceptedType
<1>3. d.who["sender"] # d.who["receiver"]
  BY <1>1, <1>2 DEF IInv, ProtocolInv, TwoTraders
<1>4. /\ deals[t].stage = "open" /\ Exchange(d) /\ BothAccepted(d)
      /\ deals'[t] = [d EXCEPT !.stage = "moved", !.due = Due(d)]
  BY <1>1 DEF CompleteTrade, IInv, ProtocolInv
<1> HIDE DEF d
<1>5. /\ deals'[t].stage = "moved" /\ deals'[t].who = d.who /\ deals'[t].offer = d.offer
      /\ deals'[t].accepted = d.accepted
  BY <1>2, <1>4 DEF Deals
<1> HIDE DEF t
<1> QED
  BY <1>1, <1>2, <1>3, <1>4, <1>5 DEF BothAccepted

----------------------------------------------------------------------------
(* The theorems *)

\* Every variable keeps its type: gold stays a machine word, a deal a record
\* with two traders, an offer a set of bag slots.
THEOREM TypeCorrect == Spec => []TypeOK
  BY Invariance, Typing, PTL

\* For any characters, slots and items: no sequence of loot, purchases,
\* destruction and exchanges puts an item into two slots.
THEOREM NoDuplication == Spec => []NoDuplicateRow
<1>1. Init => NoDuplicateRow
  BY InitBagAssumption DEF Init, NoDuplicateRow
<1>2. IInv /\ NoDuplicateRow /\ [Next]_vars => NoDuplicateRow'
  <2> SUFFICES ASSUME IInv, OnePlace(bags), [Next]_vars
               PROVE  OnePlace(bags')
    BY DEF NoDuplicateRow
  <2>1. ASSUME NEW p \in Players, NEW row \in Rows, row \notin Loaded,
               bags' = AddItem(bags, p, row)
        PROVE  OnePlace(bags')
    <3>1. \A q \in Players, s \in Slots : bags[q][s] # row
      BY <2>1, RowsAssumption DEF Loaded
    <3>2. bags \in [Players -> Bags]
      BY DEF IInv, WealthInv
    <3> QED
      BY <2>1, <3>1, <3>2, AddItemOnePlace
  <2>2. ASSUME NEW p \in Players, NEW slot \in Slots, bags' = RemoveItem(bags, p, slot)
        PROVE  OnePlace(bags')
    BY <2>2 DEF OnePlace, RemoveItem, IInv, WealthInv, Bags
  <2>3. CASE \E p \in Players : CompleteTrade(p)
    BY <2>3, CompleteTradeKeeps
  <2>4. CASE bags' = bags
    BY <2>4
  <2>5. CASE \E p \in Players : World(p)
    BY <2>1, <2>2, <2>4, <2>5 DEF World, Loot, BuyItem, Destroy, Deposit, Withdraw
  <2>6. ASSUME NEW p \in Players, Negotiation(p)
        PROVE  bags' = bags \/ CompleteTrade(p)
    BY <2>6 DEF Negotiation, SendTradeRequest, RespondTradeRequest, AddTradeItem,
       AddTradeGold, RemoveTradeItem, AcceptTrade, CancelTrade, Logout, wealthVars
  <2>7. ASSUME \/ \E p \in Players, id \in Ids : RequestTimeout(p, id)
               \/ \E t \in Ids : SettleTrade(t)
        PROVE  bags' = bags
    BY <2>7 DEF RequestTimeout, SettleTrade, wealthVars
  <2>8. CASE UNCHANGED vars
    BY <2>8 DEF vars
  <2> QED
    BY <2>3, <2>4, <2>5, <2>6, <2>7, <2>8 DEF Next, Trading
<1> QED
  BY <1>1, <1>2, Invariance, PTL DEF Spec
\* Nobody is left with a TradeID that no trade, no timer and no answer clears:
\* the two ways a TradeID is set come with a timer or with a trade, and both are
\* taken away only together with it.
THEOREM NoLockOut == Spec => []NeverLockedOut
<1>1. Init => NeverLockedOut
  BY DEF Init, NeverLockedOut
<1>2. IInv /\ NeverLockedOut /\ [Next]_vars => NeverLockedOut'
  <2> SUFFICES ASSUME IInv, NeverLockedOut, [Next]_vars, NEW p \in Players, TradeID'[p] # 0
               PROVE  Trades'[p] # 0 \/ <<p, TradeID'[p]>> \in timers'
    BY DEF NeverLockedOut
  <2>1. TradeID[p] # 0 => Trades[p] # 0 \/ <<p, TradeID[p]>> \in timers
    BY DEF NeverLockedOut
  <2>2. TradeID \in [Players -> 0..MaxRequests] /\ Trades \in [Players -> 0..MaxRequests]
    BY DEF IInv, ProtocolInv
  <2>3. CASE TradeID' = TradeID /\ Trades' = Trades /\ timers' = timers
    BY <2>1, <2>3
  <2>4. CASE \E q \in Players : World(q)
    BY <2>3, <2>4 DEF World, Loot, BuyItem, Destroy, Deposit, Withdraw, protocolVars
  <2>5. ASSUME NEW q \in Players, NEW r \in Players, SendTradeRequest(q, r)
        PROVE  Trades'[p] # 0 \/ <<p, TradeID'[p]>> \in timers'
    BY <2>1, <2>2, <2>5 DEF SendTradeRequest
  <2>6. ASSUME NEW q \in Players, NEW r \in Players, NEW accept \in BOOLEAN,
               RespondTradeRequest(q, r, accept)
        PROVE  Trades'[p] # 0 \/ <<p, TradeID'[p]>> \in timers'
    <3>1. CASE accept /\ q \in online
      BY <2>1, <2>2, <2>6, <3>1 DEF RespondTradeRequest
    <3>2. CASE ~(accept /\ q \in online)
      BY <2>1, <2>2, <2>6, <3>2 DEF RespondTradeRequest
    <3> QED
      BY <3>1, <3>2
  <2>7. ASSUME NEW t, NEW settling, Delete(t, settling), timers' = timers
        PROVE  Trades'[p] # 0 \/ <<p, TradeID'[p]>> \in timers'
    BY <2>1, <2>7 DEF Delete
  <2>8. ASSUME NEW q \in Players, Logout(q)
        PROVE  Trades'[p] # 0 \/ <<p, TradeID'[p]>> \in timers'
    <3>1. CASE Trades[q] # 0
      BY <2>7, <2>8, <3>1 DEF Logout
    <3>2. CASE Trades[q] = 0
      BY <2>1, <2>2, <2>8, <3>2 DEF Logout
    <3> QED
      BY <3>1, <3>2
  <2>9. ASSUME NEW q \in Players, Negotiation(q)
        PROVE  Trades'[p] # 0 \/ <<p, TradeID'[p]>> \in timers'
    <3>1. CASE CancelTrade(q)
      BY <2>7, <3>1 DEF CancelTrade
    <3>2. CASE \/ \E x \in TradeSlots, slot \in Slots : AddTradeItem(q, x, slot)
               \/ \E gold \in Amounts : AddTradeGold(q, gold)
               \/ \E x \in TradeSlots : RemoveTradeItem(q, x)
               \/ CompleteTrade(q)
               \/ \E accept \in BOOLEAN : AcceptTrade(q, accept)
      BY <2>3, <3>2 DEF AddTradeItem, AddTradeGold, RemoveTradeItem, CompleteTrade, AcceptTrade
    <3> QED
      BY <2>5, <2>6, <2>8, <2>9, <3>1, <3>2 DEF Negotiation
  <2>10. ASSUME NEW q \in Players, NEW id \in Ids, RequestTimeout(q, id)
         PROVE  Trades'[p] # 0 \/ <<p, TradeID'[p]>> \in timers'
    BY <2>1, <2>2, <2>10 DEF RequestTimeout
  <2>11. ASSUME NEW t \in Ids, SettleTrade(t)
         PROVE  Trades'[p] # 0 \/ <<p, TradeID'[p]>> \in timers'
    BY <2>7, <2>11 DEF SettleTrade
  <2>12. CASE UNCHANGED vars
    BY <2>3, <2>12 DEF vars
  <2> QED
    BY <2>4, <2>9, <2>10, <2>11, <2>12 DEF Next, Trading
<1> QED
  BY <1>1, <1>2, Invariance, PTL DEF Spec
\* The 12 second timer compares the request it was started for, so it ends
\* neither a trade nor a request made after its own was answered.
THEOREM TimersSpareOthers == Spec => TimerSparesOthers
<1> DEFINE Spares == \A p \in Players, id \in Ids :
          <<p, id>> \in timers /\ <<p, id>> \notin timers' =>
              /\ Trades' = Trades
              /\ \A q \in Players : TradeID'[q] # TradeID[q] => q = p /\ TradeID[q] = id
<1>1. IInv /\ [Next]_vars => [Spares]_vars
  <2> SUFFICES ASSUME IInv, Next, NEW p \in Players, NEW id \in Ids,
                      <<p, id>> \in timers, <<p, id>> \notin timers'
               PROVE  /\ Trades' = Trades
                      /\ \A q \in Players : TradeID'[q] # TradeID[q] => q = p /\ TradeID[q] = id
    OBVIOUS
  <2>1. ASSUME NEW q \in Players, World(q) \/ Negotiation(q)
        PROVE  timers \subseteq timers'
    BY <2>1 DEF World, Loot, BuyItem, Destroy, Deposit, Withdraw, protocolVars,
       Negotiation, SendTradeRequest, RespondTradeRequest, AddTradeItem, AddTradeGold,
       RemoveTradeItem, CompleteTrade, AcceptTrade, CancelTrade, Logout
  <2>2. ASSUME NEW t \in Ids, SettleTrade(t) PROVE timers' = timers
    BY <2>2 DEF SettleTrade
  <2>3. PICK q \in Players, k \in Ids : RequestTimeout(q, k)
    BY <2>1, <2>2 DEF Next, Trading
  <2>4. q = p /\ k = id
    BY <2>3 DEF RequestTimeout
  <2> QED
    BY <2>3, <2>4 DEF RequestTimeout, IInv, ProtocolInv
<1> QED
  BY <1>1, Invariance, PTL DEF Spec, TimerSparesOthers

\* Both players know what they agree to: a standing acceptance and a changed
\* offer exclude each other.
THEOREM AcceptancesBind == Spec => AcceptanceBindsOffers
<1> DEFINE Binds == \A t \in Ids : \A side \in Sides :
          /\ deals[t] # NoDeal /\ deals[t].accepted[side]
          /\ deals'[t] # NoDeal /\ deals'[t].accepted[side]
          => deals'[t].offer = deals[t].offer
<1>1. IInv /\ [Next]_vars => [Binds]_vars
  <2> SUFFICES ASSUME IInv, Next, NEW t \in Ids, NEW side \in Sides,
                      deals[t] # NoDeal, deals'[t] # NoDeal, deals'[t].accepted[side]
               PROVE  deals'[t].offer = deals[t].offer
    OBVIOUS
  <2> DEFINE Same == deals'[t].offer = deals[t].offer
  <2>1. deals \in [Ids -> Deals \cup {NoDeal}] /\ deals[t] \in Deals
    BY DealThere DEF IInv, ProtocolInv
  <2>2. CASE deals'[t] = deals[t]
    BY <2>2
  <2>3. ASSUME NEW p \in Players, World(p) PROVE Same
    BY <2>2, <2>3 DEF World, Loot, BuyItem, Destroy, Deposit, Withdraw, protocolVars
  <2>4. ASSUME NEW p \in Players, NEW q \in Players,
               SendTradeRequest(p, q) \/ \E id \in Ids : RequestTimeout(p, id)
        PROVE  Same
    BY <2>2, <2>4 DEF SendTradeRequest, RequestTimeout
  <2>5. ASSUME NEW p \in Players, NEW q \in Players, NEW accept \in BOOLEAN,
               RespondTradeRequest(p, q, accept)
        PROVE  Same
    <3>1. CASE accept /\ p \in online /\ t = TradeID[p]
      <4>1. deals'[t] = NewDeal(p, q)
        BY <2>1, <2>5, <3>1 DEF RespondTradeRequest
      <4> QED
        BY <4>1 DEF NewDeal
    <3>2. CASE ~(accept /\ p \in online /\ t = TradeID[p])
      BY <2>1, <2>2, <2>5, <3>2 DEF RespondTradeRequest
    <3> QED
      BY <3>1, <3>2
  <2>6. ASSUME NEW p \in Players,
               \/ \E x \in TradeSlots, slot \in Slots : AddTradeItem(p, x, slot)
               \/ \E gold \in Amounts : AddTradeGold(p, gold)
               \/ \E x \in TradeSlots : RemoveTradeItem(p, x)
        PROVE  Same
    <3>1. CASE t # Trades[p]
      BY <2>1, <2>2, <2>6, <3>1 DEF AddTradeItem, AddTradeGold, RemoveTradeItem
    <3>2. CASE t = Trades[p]
      <4>1. /\ Withdrawn(t) \in Deals /\ Withdrawn(t).offer = deals[t].offer
            /\ \A z \in Sides : Withdrawn(t).accepted[z] = FALSE
        BY <2>1, WithdrawnType
      <4>2. SideOf(t, p) \in Sides
        BY SideOfType
      <4>3. /\ \A x \in TradeSlots, s \in Slots \cup {0} :
                  [Withdrawn(t) EXCEPT !.offer[SideOf(t, p)].slots[x] = s].accepted
                      = Withdrawn(t).accepted
            /\ \A g \in Amounts :
                  [Withdrawn(t) EXCEPT !.offer[SideOf(t, p)].gold = g].accepted
                      = Withdrawn(t).accepted
        BY <4>1, <4>2, OfferEditType
      <4>4. deals'[t].accepted = Withdrawn(t).accepted
        <5>1. CASE \E x \in TradeSlots, slot \in Slots : AddTradeItem(p, x, slot)
          BY <2>1, <3>2, <4>3, <5>1 DEF AddTradeItem
        <5>2. CASE \E gold \in Amounts : AddTradeGold(p, gold)
          BY <2>1, <3>2, <4>3, <5>2 DEF AddTradeGold
        <5>3. CASE \E x \in TradeSlots : RemoveTradeItem(p, x)
          <6>1. PICK x \in TradeSlots : RemoveTradeItem(p, x)
            BY <5>3
          <6>2. deals'[t] = [Withdrawn(t) EXCEPT !.offer[SideOf(t, p)].slots[x] = 0]
            BY <2>1, <3>2, <6>1 DEF RemoveTradeItem
          <6> QED
            BY <4>3, <6>2
        <5> QED
          BY <2>6, <5>1, <5>2, <5>3
      <4> QED
        BY <4>1, <4>4
    <3> QED
      BY <3>1, <3>2
  <2>7. ASSUME NEW p \in Players, CompleteTrade(p) PROVE Same
    <3>1. CASE t # Trades[p]
      BY <2>1, <2>2, <2>7, <3>1 DEF CompleteTrade
    <3>2. CASE t = Trades[p]
      <4>1. Accepted(t, p, TRUE) \in Deals /\ Accepted(t, p, TRUE).offer = deals[t].offer
        BY <2>1, AcceptedType
      <4>2. deals'[t].offer = Accepted(t, p, TRUE).offer
        BY <2>1, <2>7, <3>2, <4>1 DEF CompleteTrade, Deals
      <4> QED
        BY <4>1, <4>2
    <3> QED
      BY <3>1, <3>2
  <2>8. ASSUME NEW p \in Players, NEW accept \in BOOLEAN, AcceptTrade(p, accept) PROVE Same
    <3>1. CASE t # Trades[p]
      BY <2>1, <2>2, <2>8, <3>1 DEF AcceptTrade
    <3>2. CASE t = Trades[p]
      <4>1. Accepted(t, p, accept) \in Deals /\ Accepted(t, p, accept).offer = deals[t].offer
        BY <2>1, AcceptedType
      <4>2. deals'[t].offer = Accepted(t, p, accept).offer
        BY <2>1, <2>8, <3>2, <4>1 DEF AcceptTrade, Deals
      <4> QED
        BY <4>1, <4>2
    <3> QED
      BY <3>1, <3>2
  <2>9. ASSUME NEW u, NEW settling, Delete(u, settling) PROVE Same
    BY <2>1, <2>2, <2>9 DEF Delete
  <2>10. ASSUME NEW p \in Players, CancelTrade(p) \/ Logout(p) PROVE Same
    BY <2>2, <2>9, <2>10 DEF CancelTrade, Logout
  <2>11. ASSUME NEW u \in Ids, SettleTrade(u) PROVE Same
    BY <2>9, <2>11 DEF SettleTrade
  <2> QED
    BY <2>3, <2>4, <2>5, <2>6, <2>7, <2>8, <2>10, <2>11 DEF Next, Trading, Negotiation
<1> QED
  BY <1>1, Invariance, PTL DEF Spec, AcceptanceBindsOffers
\* Nobody loses a row he did not offer: a row reaches another character's bag
\* only in an exchange both accepted, out of a slot its owner had in the window.
THEOREM OnlyOffersChangeHands == Spec => OnlyOfferedRowsMove
<1> DEFINE Moves == \A p, q \in Players, s, u \in Slots :
          p # q /\ bags[p][s] # NoRow /\ bags'[q][u] = bags[p][s] =>
              \E t \in Ids, side \in Sides :
                  /\ deals[t] # NoDeal /\ deals[t].stage = "open"
                  /\ deals'[t].stage = "moved"
                  /\ deals'[t].who[side] = p /\ deals'[t].who[Other(side)] = q
                  /\ s \in Offered(deals'[t], side)
                  /\ \A z \in Sides : deals'[t].accepted[z]
<1>1. IInv /\ NoDuplicateRow /\ [Next]_vars => [Moves]_vars
  <2> SUFFICES ASSUME IInv, OnePlace(bags), Next,
                      NEW p \in Players, NEW q \in Players, NEW s \in Slots, NEW u \in Slots,
                      p # q, bags[p][s] # NoRow, bags'[q][u] = bags[p][s]
               PROVE  \E t \in Ids, side \in Sides :
                          /\ deals[t] # NoDeal /\ deals[t].stage = "open"
                          /\ deals'[t].stage = "moved"
                          /\ deals'[t].who[side] = p /\ deals'[t].who[Other(side)] = q
                          /\ s \in Offered(deals'[t], side)
                          /\ \A z \in Sides : deals'[t].accepted[z]
    BY DEF NoDuplicateRow
  <2>1. bags \in [Players -> Bags]
    BY DEF IInv, WealthInv
  <2>2. bags[q][u] # bags[p][s]
    BY DEF OnePlace
  <2>3. bags' # bags
    BY <2>2
  <2>4. ASSUME NEW r \in Players, NEW row \in Rows, row \notin Loaded,
               bags' = AddItem(bags, r, row)
        PROVE  FALSE
    <3>1. bags'[q][u] = bags[q][u] \/ bags'[q][u] = row
      BY <2>1, <2>4 DEF AddItem, Bags
    <3>2. bags[p][s] \in Loaded
      BY DEF Loaded
    <3> QED
      BY <2>2, <2>4, <3>1, <3>2
  <2>5. ASSUME NEW r \in Players, NEW slot \in Slots, bags' = RemoveItem(bags, r, slot)
        PROVE  FALSE
    <3>1. bags'[q][u] = bags[q][u] \/ bags'[q][u] = NoRow
      BY <2>1, <2>5 DEF RemoveItem, Bags
    <3> QED
      BY <2>2, <3>1
  <2>6. PICK r \in Players : CompleteTrade(r)
    BY <2>3, <2>4, <2>5, OnlyExchangesMove
  <2>7. PICK t \in Ids, d \in Deals :
            /\ deals[t] # NoDeal /\ deals[t].stage = "open" /\ deals'[t].stage = "moved"
            /\ deals'[t].who = d.who /\ deals'[t].offer = d.offer
            /\ \A z \in Sides : deals'[t].accepted[z]
            /\ d.who["sender"] # d.who["receiver"]
            /\ Exchange(d)
    BY <2>6, ExchangeOfATrade
  <2>8. PICK side \in Sides : d.who[side] = p /\ d.who[Other(side)] = q /\ s \in Offered(d, side)
    BY <2>1, <2>7, ExchangeMovesOffered
  <2>9. Offered(deals'[t], side) = Offered(d, side)
    BY <2>7 DEF Offered
  <2> QED
    BY <2>7, <2>8, <2>9
<1> QED
  BY <1>1, Invariance, NoDuplication, PTL DEF Spec, OnlyOfferedRowsMove

\* The rows an exchange moves go to slots that are free at that moment, the
\* slots just emptied by the other half of the exchange included.
THEOREM ExchangesOverwriteNothing == Spec => NothingOverwritten
<1> DEFINE Keeps == (\E t \in Ids : deals[t].stage = "open" /\ deals'[t].stage = "moved")
                        => Loaded' = Loaded
<1>1. IInv /\ [Next]_vars => [Keeps]_vars
  <2> SUFFICES ASSUME IInv, Next, NEW t \in Ids,
                      deals[t].stage = "open", deals'[t].stage = "moved"
               PROVE  Loaded' = Loaded
    OBVIOUS
  <2>1. PICK p \in Players : CompleteTrade(p)
    BY OnlyExchangesMove
  <2>2. PICK d \in Deals : d.who["sender"] # d.who["receiver"] /\ Exchange(d)
    BY <2>1, ExchangeOfATrade
  <2>3. bags \in [Players -> Bags]
    BY DEF IInv, WealthInv
  <2> QED
    BY <2>2, <2>3, ExchangeLosesNothing
<1> QED
  BY <1>1, Invariance, PTL DEF Spec, NothingOverwritten

----------------------------------------------------------------------------
(* Gold *)

\* Both traders of a trade are in it.
InBoth(t) == \A side \in Sides : Trades[deals[t].who[side]] = t
PairInv == \A p \in Players : Trades[p] # 0 => p \in online /\ InBoth(Trades[p])

\* Each trader can still pay what he gives, and is owed what he gets less that.
Backed(t) ==
    \E given \in [Sides -> Amounts] : \A side \in Sides :
        /\ deals[t].due[side] = (given[Other(side)] + W - given[side]) % W
        /\ Gold[deals[t].who[side]] >= given[side]
MovedInv == \A t \in Ids : deals[t].stage = "moved" => InBoth(t) /\ Backed(t)

Balanced == SumFunction(Gold) + SumFunction(BankGold) + spent = SumFunction(InitGold)

GoldInv == ~disturbed => PairInv /\ MovedInv /\ Balanced

----------------------------------------------------------------------------
(* Amounts *)

\* Unsigned arithmetic that does not leave the range is the plain one.
LEMMA SmallRemainder == \A n \in Amounts : n % W = n /\ (n + W) % W = n
<1> SUFFICES ASSUME NEW n \in Int, 0 <= n, n < W PROVE n % W = n /\ (n + W) % W = n
  BY GoldAssumption DEF Amounts
<1> QED
  BY GoldAssumption

\* What a trader has after `mine` left his account and `yours` came in.
LEMMA PaidOut ==
    ASSUME NEW a \in Amounts, NEW mine \in Amounts, NEW yours \in Amounts,
           mine <= a, (a - mine) + yours < W
    PROVE  (a + ((yours + W - mine) % W)) % W = (a - mine) + yours
<1>1. a \in Nat /\ mine \in Nat /\ yours \in Nat /\ W \in Nat /\ mine < W /\ yours < W /\ a < W
  BY GoldAssumption DEF Amounts
<1>2. PICK m \in Amounts : m = (a - mine) + yours
  BY <1>1 DEF Amounts
<1>3. PICK d : d = (yours + W - mine) % W
  OBVIOUS
<1>4. CASE mine <= yours
  <2>1. yours - mine \in Amounts
    BY <1>1, <1>4 DEF Amounts
  <2>2. yours + W - mine = (yours - mine) + W
    BY <1>1
  <2>3. d = yours - mine
    BY <1>3, <2>1, <2>2, SmallRemainder
  <2>4. a + d = m
    BY <1>1, <1>2, <2>3
  <2> QED
    BY <1>2, <1>3, <2>4, SmallRemainder
<1>5. CASE yours < mine
  <2>1. yours + W - mine \in Amounts
    BY <1>1, <1>5 DEF Amounts
  <2>2. d = yours + W - mine
    BY <1>3, <2>1, SmallRemainder
  <2>3. a + d = m + W
    BY <1>1, <1>2, <2>2
  <2> QED
    BY <1>2, <1>3, <2>3, SmallRemainder
<1>6. mine <= yours \/ yours < mine
  BY <1>1
<1> QED
  BY <1>4, <1>5, <1>6

----------------------------------------------------------------------------
(* The inductive invariant of the ledger *)

LEMMA InitGoldInv == Init => GoldInv
<1> SUFFICES ASSUME Init PROVE PairInv /\ MovedInv /\ Balanced
  BY DEF GoldInv
<1>1. PairInv /\ MovedInv
  BY DEF Init, PairInv, MovedInv, NoDeal
<1>2. InitGold \in [Players -> Nat] /\ BankGold \in [Players -> Nat]
  BY GoldAssumption DEF Init
<1>3. SumFunction(InitGold) \in Nat
  BY <1>2, PlayersAssumption, SumOverAll
<1>4. SumFunction(BankGold) = 0
  <2>1. SumFunction(BankGold) = SumFunctionOnSet(BankGold, Players)
    BY <1>2 DEF SumFunction
  <2>2. \A p \in Players : BankGold[p] = 0
    BY DEF Init
  <2>3. SumFunctionOnSet(BankGold, Players) = 0
    BY <2>2, SumOfZeros, PlayersAssumption
  <2> QED
    BY <2>1, <2>3
<1> QED
  BY <1>1, <1>3, <1>4 DEF Init, Balanced

\* What the sums of the accounts are worth before and after a step.
LEMMA Accounts ==
    ASSUME IInv
    PROVE  /\ Gold \in [Players -> Nat] /\ BankGold \in [Players -> Nat] /\ spent \in Nat
           /\ SumFunction(Gold) \in Nat /\ SumFunction(BankGold) \in Nat
<1>1. Gold \in [Players -> Nat] /\ BankGold \in [Players -> Nat] /\ spent \in Nat
  BY AmountsAreNumbers DEF IInv, WealthInv
<1> QED
  BY <1>1, PlayersAssumption, SumOverAll

\* No sum of two accounts leaves the range of unsigned integers.
LEMMA NothingWraps ==
    ASSUME IInv, Balanced
    PROVE  /\ \A p \in Players : Gold[p] + BankGold[p] < W
           /\ \A p, q \in Players : p # q => Gold[p] + Gold[q] < W
<1>1. /\ Gold \in [Players -> Nat] /\ BankGold \in [Players -> Nat] /\ spent \in Nat
      /\ SumFunction(Gold) \in Nat /\ SumFunction(BankGold) \in Nat
  BY Accounts
<1>2. SumFunction(Gold) + SumFunction(BankGold) < W
  <2>1. InitGold \in [Players -> Nat]
    BY GoldAssumption
  <2>2. SumFunction(InitGold) \in Nat /\ W \in Nat
    BY <2>1, GoldAssumption, PlayersAssumption, SumOverAll
  <2> QED
    BY <1>1, <2>2, WidthAssumption DEF Balanced
<1>3. ASSUME NEW p \in Players PROVE Gold[p] + BankGold[p] < W
  <2>1. Gold[p] <= SumFunction(Gold) /\ BankGold[p] <= SumFunction(BankGold)
    BY <1>1, PlayersAssumption, SumOverAll
  <2>2. Gold[p] \in Nat /\ BankGold[p] \in Nat /\ W \in Nat
    BY <1>1, GoldAssumption
  <2> QED
    BY <1>1, <1>2, <2>1, <2>2
<1>4. ASSUME NEW p \in Players, NEW q \in Players, p # q PROVE Gold[p] + Gold[q] < W
  <2>1. Gold[p] + Gold[q] <= SumFunction(Gold)
    BY <1>1, <1>4, PlayersAssumption, SumOverAll
  <2>2. Gold[p] \in Nat /\ Gold[q] \in Nat /\ W \in Nat
    BY <1>1, GoldAssumption
  <2> QED
    BY <1>1, <1>2, <2>1, <2>2
<1> QED
  BY <1>3, <1>4

\* Steps that neither begin, end nor move a trade keep the pairs.
LEMMA PairsKept ==
    ASSUME IInv, PairInv, UNCHANGED <<online, Trades>>,
           \A t \in Ids : deals[t] # NoDeal => deals'[t].who = deals[t].who
    PROVE  PairInv'
<1> SUFFICES ASSUME NEW p \in Players, Trades[p] # 0
             PROVE  p \in online /\ \A side \in Sides : Trades[deals'[Trades[p]].who[side]] = Trades[p]
  BY DEF PairInv, InBoth
<1>1. Trades[p] \in Ids /\ deals[Trades[p]] # NoDeal
  BY TradeThere DEF IInv, ProtocolInv, InHisTrade
<1>2. deals'[Trades[p]].who = deals[Trades[p]].who
  BY <1>1
<1> QED
  BY <1>2 DEF PairInv, InBoth

\* Steps that leave the exchanges under way and their traders' gold alone.
LEMMA MovedKept ==
    ASSUME IInv, MovedInv,
           \A t \in Ids : deals'[t].stage = "moved" =>
               /\ deals[t].stage = "moved"
               /\ deals'[t].who = deals[t].who /\ deals'[t].due = deals[t].due
               /\ \A side \in Sides : /\ Trades'[deals[t].who[side]] = Trades[deals[t].who[side]]
                                      /\ Gold'[deals[t].who[side]] = Gold[deals[t].who[side]]
    PROVE  MovedInv'
<1> SUFFICES ASSUME NEW t \in Ids, deals'[t].stage = "moved"
             PROVE  InBoth(t)' /\ Backed(t)'
  BY DEF MovedInv
<1>1. /\ deals[t].stage = "moved"
      /\ deals'[t].who = deals[t].who /\ deals'[t].due = deals[t].due
      /\ \A side \in Sides : /\ Trades'[deals[t].who[side]] = Trades[deals[t].who[side]]
                             /\ Gold'[deals[t].who[side]] = Gold[deals[t].who[side]]
  OBVIOUS
<1>2. InBoth(t) /\ Backed(t)
  BY <1>1 DEF MovedInv
<1>3. InBoth(t)'
  BY <1>1, <1>2 DEF InBoth
<1>4. Backed(t)'
  BY <1>1, <1>2 DEF Backed
<1> QED
  BY <1>3, <1>4

\* The trades are as they were, and so is the gold of everybody.
LEMMA QuietStep ==
    ASSUME IInv, GoldInv, UNCHANGED <<online, Trades, Gold, BankGold, spent, disturbed>>,
           \A t \in Ids : /\ deals[t] # NoDeal => deals'[t].who = deals[t].who
                          /\ deals'[t].stage = "moved" =>
                                deals[t].stage = "moved" /\ deals'[t].due = deals[t].due
    PROVE  GoldInv'
<1> SUFFICES ASSUME ~disturbed PROVE PairInv' /\ MovedInv' /\ Balanced'
  BY DEF GoldInv
<1>1. PairInv /\ MovedInv /\ Balanced
  BY DEF GoldInv
<1>2. PairInv'
  BY <1>1, PairsKept
<1>3. \A t \in Ids : deals[t].stage = "moved" => deals[t] # NoDeal
  BY DEF NoDeal
<1>4. MovedInv'
  BY <1>1, <1>3, MovedKept
<1>5. Balanced'
  BY <1>1 DEF Balanced
<1> QED
  BY <1>2, <1>4, <1>5

\* A character without a trade id is in no exchange.
LEMMA NotTrading ==
    ASSUME IInv, MovedInv, NEW p \in Players, TradeID[p] = 0
    PROVE  \A t \in Ids : deals[t].stage = "moved" => \A side \in Sides : deals[t].who[side] # p
<1> SUFFICES ASSUME NEW t \in Ids, deals[t].stage = "moved", NEW side \in Sides, deals[t].who[side] = p
             PROVE  FALSE
  OBVIOUS
<1>1. Trades[p] = t /\ t # 0
  BY MaxRequestsAssumption DEF MovedInv, InBoth, Ids
<1> QED
  BY <1>1 DEF IInv, ProtocolInv, InHisTrade

\* Taking an amount out of an account that holds it.
LEMMA Paid == \A n, c \in Amounts : c <= n => (n + W - c) % W = n - c
<1> SUFFICES ASSUME NEW n \in Amounts, NEW c \in Amounts, c <= n
             PROVE  (n + W - c) % W = n - c
  OBVIOUS
<1>1. n \in Nat /\ c \in Nat /\ W \in Nat /\ n < W
  BY GoldAssumption DEF Amounts
<1>2. n - c \in Amounts
  BY <1>1 DEF Amounts
<1>3. n + W - c = (n - c) + W
  BY <1>1
<1> QED
  BY <1>2, <1>3, SmallRemainder

LEMMA WorldGold ==
    ASSUME IInv, IInv', GoldInv, NEW p \in Players, World(p)
    PROVE  GoldInv'
<1>1. CASE (\E row \in Rows : Loot(p, row)) \/ (\E slot \in Slots : Destroy(p, slot))
  <2>1. UNCHANGED <<online, Trades, deals, Gold, BankGold, spent, disturbed>>
    BY <1>1 DEF Loot, Destroy, protocolVars
  <2> QED
    BY <2>1, QuietStep
<1> SUFFICES ASSUME UNCHANGED <<online, Trades, deals>>, ~disturbed, MovedInv, PairInv, Balanced,
                    \A t \in Ids : deals[t].stage = "moved" =>
                        \A side \in Sides : deals[t].who[side] # p,
                    \A q \in Players \ {p} : Gold'[q] = Gold[q],
                    NEW gold \in Amounts,
                    \/ /\ Gold[p] >= gold /\ Gold' = [Gold EXCEPT ![p] = (@ + W - gold) % W]
                       /\ BankGold' = BankGold /\ spent' = spent + gold
                    \/ /\ Gold[p] >= gold /\ Gold' = [Gold EXCEPT ![p] = (@ + W - gold) % W]
                       /\ BankGold' = [BankGold EXCEPT ![p] = @ + gold] /\ spent' = spent
                    \/ /\ BankGold[p] >= gold /\ Gold' = [Gold EXCEPT ![p] = (@ + gold) % W]
                       /\ BankGold' = [BankGold EXCEPT ![p] = @ - gold] /\ spent' = spent
             PROVE  PairInv' /\ MovedInv' /\ Balanced'
  <2>1. CASE \E row \in Rows, cost \in Amounts : BuyItem(p, row, cost)
    <3>1. PICK row \in Rows, cost \in Amounts : BuyItem(p, row, cost)
      BY <2>1
    <3>2. SUFFICES ASSUME ~disturbed' PROVE PairInv' /\ MovedInv' /\ Balanced'
      BY DEF GoldInv
    <3>3. /\ ~disturbed
          /\ \A t \in Ids : deals[t].stage = "moved" => \A side \in Sides : deals[t].who[side] # p
      BY <3>1, <3>2 DEF BuyItem, IInv, WealthInv
    <3>4. MovedInv /\ PairInv /\ Balanced
      BY <3>3 DEF GoldInv
    <3>5. /\ UNCHANGED <<online, Trades, deals>> /\ BankGold' = BankGold /\ spent' = spent + cost
          /\ Gold[p] >= cost /\ Gold' = [Gold EXCEPT ![p] = (@ + W - cost) % W]
      BY <3>1, Accounts, AmountsAreNumbers DEF BuyItem, protocolVars
    <3>6. \A q \in Players \ {p} : Gold'[q] = Gold[q]
      BY <3>5 DEF IInv, WealthInv
    <3> QED
      BY <3>3, <3>4, <3>5, <3>6
  <2>2. CASE \E gold \in Amounts : Deposit(p, gold) \/ Withdraw(p, gold)
    <3>1. PICK gold \in Amounts : Deposit(p, gold) \/ Withdraw(p, gold)
      BY <2>2
    <3>2. SUFFICES ASSUME ~disturbed' PROVE PairInv' /\ MovedInv' /\ Balanced'
      BY DEF GoldInv
    <3>3. ~disturbed /\ MovedInv /\ PairInv /\ Balanced
      BY <3>1, <3>2 DEF GoldInv, Deposit, Withdraw
    <3>4. \A t \in Ids : deals[t].stage = "moved" => \A side \in Sides : deals[t].who[side] # p
      BY <3>1, <3>3, NotTrading DEF Deposit, Withdraw
    <3>5. /\ UNCHANGED <<online, Trades, deals>>
          /\ \A q \in Players \ {p} : Gold'[q] = Gold[q]
      BY <3>1 DEF Deposit, Withdraw, protocolVars, IInv, WealthInv
    <3>6. CASE Deposit(p, gold)
      BY <3>3, <3>4, <3>5, <3>6 DEF Deposit
    <3>7. CASE Withdraw(p, gold)
      BY <3>3, <3>4, <3>5, <3>7 DEF Withdraw
    <3> QED
      BY <3>1, <3>6, <3>7
  <2> QED
    BY <1>1, <2>1, <2>2 DEF World
<1>2. PairInv'
  BY PairsKept
<1>3. MovedInv'
  <2>1. ASSUME NEW t \in Ids, deals[t].stage = "moved", NEW side \in Sides
        PROVE  Gold'[deals[t].who[side]] = Gold[deals[t].who[side]]
    <3>1. deals[t].who[side] \in Players \ {p}
      BY <2>1, DealThere, FieldTypes DEF IInv
    <3> QED
      BY <3>1
  <2> QED
    BY <2>1, MovedKept
<1>4. /\ Gold \in [Players -> Nat] /\ BankGold \in [Players -> Nat] /\ spent \in Nat
      /\ SumFunction(Gold) \in Nat /\ SumFunction(BankGold) \in Nat
  BY Accounts
<1>5. Gold' \in [Players -> Nat] /\ BankGold' \in [Players -> Nat] /\ spent' \in Nat
  BY AmountsAreNumbers DEF IInv, WealthInv
<1>6. Gold[p] \in Amounts /\ BankGold[p] \in Nat /\ gold \in Nat /\ Gold[p] \in Nat
  BY <1>4, AmountsAreNumbers DEF IInv, WealthInv
<1>7. SumFunction(Gold') = (SumFunction(Gold) - Gold[p]) + Gold'[p]
  BY <1>4, <1>5, PlayersAssumption, OneTerm
<1>8. ASSUME BankGold' = [BankGold EXCEPT ![p] = BankGold'[p]]
      PROVE  SumFunction(BankGold') = (SumFunction(BankGold) - BankGold[p]) + BankGold'[p]
  BY <1>4, <1>5, <1>8, PlayersAssumption, OneTerm
<1>9. CASE /\ Gold[p] >= gold /\ Gold' = [Gold EXCEPT ![p] = (@ + W - gold) % W]
           /\ BankGold' = BankGold /\ spent' = spent + gold
  <2>1. Gold'[p] = Gold[p] - gold
    BY <1>4, <1>6, <1>9, Paid
  <2> QED
    BY <1>2, <1>3, <1>4, <1>6, <1>7, <1>9, <2>1 DEF Balanced
<1>10. CASE /\ Gold[p] >= gold /\ Gold' = [Gold EXCEPT ![p] = (@ + W - gold) % W]
            /\ BankGold' = [BankGold EXCEPT ![p] = @ + gold] /\ spent' = spent
  <2>1. Gold'[p] = Gold[p] - gold
    BY <1>4, <1>6, <1>10, Paid
  <2>2. SumFunction(BankGold') = SumFunction(BankGold) + gold
    BY <1>4, <1>6, <1>8, <1>10
  <2> QED
    BY <1>2, <1>3, <1>4, <1>6, <1>7, <1>10, <2>1, <2>2 DEF Balanced
<1>11. CASE /\ BankGold[p] >= gold /\ Gold' = [Gold EXCEPT ![p] = (@ + gold) % W]
            /\ BankGold' = [BankGold EXCEPT ![p] = @ - gold] /\ spent' = spent
  <2>1. Gold[p] + gold \in Amounts
    <3>1. Gold[p] + BankGold[p] < W
      BY NothingWraps
    <3> QED
      BY <1>6, <1>11, <3>1, GoldAssumption DEF Amounts
  <2>2. Gold'[p] = Gold[p] + gold
    BY <1>4, <1>11, <2>1, SmallRemainder
  <2>3. SumFunction(BankGold') = SumFunction(BankGold) - gold
    BY <1>4, <1>6, <1>8, <1>11
  <2> QED
    BY <1>2, <1>3, <1>4, <1>6, <1>7, <1>11, <2>2, <2>3 DEF Balanced
<1> QED
  BY <1>9, <1>10, <1>11

\* Deleting a trade nobody is owed anything for, or whose gold was just paid out.
LEMMA DeleteGold ==
    ASSUME IInv, PairInv, MovedInv, NEW t \in Ids, deals[t] \in Deals, InBoth(t),
           NEW settling \in BOOLEAN, Delete(t, settling),
           deals[t].stage = "moved" => settling,
           online' \subseteq online, \A p \in online \ online' : Trades[p] = t \/ Trades[p] = 0,
           \A p \in Players : Trades[p] # t => Gold'[p] = Gold[p]
    PROVE  PairInv' /\ MovedInv'
<1>1. \A p \in Players : Trades'[p] = IF Trades[p] = t THEN 0 ELSE Trades[p]
  <2> SUFFICES ASSUME NEW p \in Players
               PROVE  Trades'[p] = IF Trades[p] = t THEN 0 ELSE Trades[p]
    OBVIOUS
  <2>1. Trades'[p] = IF \E side \in Sides : deals[t].who[side] = p THEN 0 ELSE Trades[p]
    BY DEF Delete
  <2>2. (\E side \in Sides : deals[t].who[side] = p) => Trades[p] = t
    BY DEF InBoth
  <2>3. Trades[p] = t => \E side \in Sides : deals[t].who[side] = p
    <3>1. t # 0
      BY DEF Ids
    <3> QED
      BY <3>1 DEF IInv, ProtocolInv, InHisTrade
  <2> QED
    BY <2>1, <2>2, <2>3
<1>2. \A u \in Ids : u # t => deals'[u] = deals[u]
  BY DEF Delete, IInv, ProtocolInv
<1>3. PairInv'
  <2> SUFFICES ASSUME NEW p \in Players, Trades'[p] # 0
               PROVE  /\ p \in online'
                      /\ \A side \in Sides : Trades'[deals'[Trades'[p]].who[side]] = Trades'[p]
    BY DEF PairInv, InBoth
  <2>1. Trades'[p] = Trades[p] /\ Trades[p] # t /\ Trades[p] # 0
    BY <1>1
  <2>2. Trades[p] \in Ids /\ deals[Trades[p]] \in Deals
    BY <2>1, TradeThere DEF IInv
  <2>3. p \in online /\ \A side \in Sides : Trades[deals[Trades[p]].who[side]] = Trades[p]
    BY <2>1 DEF PairInv, InBoth
  <2>4. deals'[Trades[p]] = deals[Trades[p]]
    BY <1>2, <2>1, <2>2
  <2>5. \A side \in Sides : deals[Trades[p]].who[side] \in Players
    BY <2>2, FieldTypes
  <2> QED
    BY <1>1, <2>1, <2>3, <2>4, <2>5
<1>4. MovedInv'
  <2>1. ASSUME NEW u \in Ids, deals'[u].stage = "moved"
        PROVE  /\ deals[u].stage = "moved"
               /\ deals'[u].who = deals[u].who /\ deals'[u].due = deals[u].due
               /\ \A side \in Sides : /\ Trades'[deals[u].who[side]] = Trades[deals[u].who[side]]
                                      /\ Gold'[deals[u].who[side]] = Gold[deals[u].who[side]]
    <3>1. u # t
      <4>1. deals'[t] = IF deals[t].stage = "moved" /\ ~settling THEN deals[t] ELSE NoDeal
        BY DEF Delete, IInv, ProtocolInv
      <4>2. deals'[t] = NoDeal
        BY <4>1
      <4> QED
        BY <2>1, <4>2 DEF NoDeal
    <3>2. deals'[u] = deals[u] /\ deals[u].stage = "moved"
      BY <1>2, <2>1, <3>1
    <3>3. deals[u] \in Deals
      BY <3>2, DealThere DEF IInv
    <3>4. \A side \in Sides : deals[u].who[side] \in Players /\ Trades[deals[u].who[side]] = u
      BY <3>2, <3>3, FieldTypes DEF MovedInv, InBoth
    <3> QED
      BY <1>1, <3>1, <3>2, <3>4
  <2> QED
    BY <2>1, MovedKept
<1> QED
  BY <1>3, <1>4

\* Edits and refused acceptances change neither the gold nor what is owed.
LEMMA EditsGold ==
    ASSUME IInv, GoldInv, NEW p \in Players,
           \/ \E x \in TradeSlots, slot \in Slots : AddTradeItem(p, x, slot)
           \/ \E gold \in Amounts : AddTradeGold(p, gold)
           \/ \E x \in TradeSlots : RemoveTradeItem(p, x)
           \/ \E accept \in BOOLEAN : AcceptTrade(p, accept)
    PROVE  GoldInv'
<1> DEFINE t == Trades[p]
           Same(d) == d.who = deals[t].who
                      /\ (d.stage = "moved" => deals[t].stage = "moved" /\ d.due = deals[t].due)
<1>1. /\ t # 0 /\ UNCHANGED <<online, Trades, Gold, BankGold, spent, disturbed>>
  BY DEF AddTradeItem, AddTradeGold, RemoveTradeItem, AcceptTrade, wealthVars
<1>2. t \in Ids /\ deals[t] \in Deals
  BY <1>1, TradeThere DEF IInv
<1>3. /\ Withdrawn(t) \in Deals /\ Withdrawn(t).who = deals[t].who
      /\ Withdrawn(t).stage = deals[t].stage /\ Withdrawn(t).due = deals[t].due
  BY <1>2, WithdrawnType
<1>4. SideOf(t, p) \in Sides
  BY SideOfType
<1>5. /\ \A x \in TradeSlots, s \in Slots \cup {0} :
            Same([Withdrawn(t) EXCEPT !.offer[SideOf(t, p)].slots[x] = s])
      /\ \A g \in Amounts : Same([Withdrawn(t) EXCEPT !.offer[SideOf(t, p)].gold = g])
      /\ Same(Withdrawn(t))
  BY <1>3, <1>4, OfferEditType
<1>6. \E d : Same(d) /\ deals' = [deals EXCEPT ![t] = d]
  <2>1. CASE \E x \in TradeSlots, slot \in Slots : AddTradeItem(p, x, slot)
    <3>1. PICK x \in TradeSlots, slot \in Slots : AddTradeItem(p, x, slot)
      BY <2>1
    <3> DEFINE d == IF bags[p][slot] = NoRow \/ bags[p][slot] \in Untradable THEN Withdrawn(t)
                    ELSE [Withdrawn(t) EXCEPT !.offer[SideOf(t, p)].slots[x] = slot]
    <3>2. Same(d)
      BY <1>5
    <3>3. deals' = [deals EXCEPT ![t] = d]
      BY <3>1 DEF AddTradeItem
    <3> HIDE DEF d, Same
    <3> QED
      BY <3>2, <3>3
  <2>2. CASE \E gold \in Amounts : AddTradeGold(p, gold)
    <3>1. PICK gold \in Amounts : AddTradeGold(p, gold)
      BY <2>2
    <3> DEFINE d == IF Gold[p] < gold THEN Withdrawn(t)
                    ELSE [Withdrawn(t) EXCEPT !.offer[SideOf(t, p)].gold = gold]
    <3>2. Same(d)
      BY <1>5
    <3>3. deals' = [deals EXCEPT ![t] = d]
      BY <3>1 DEF AddTradeGold
    <3> HIDE DEF d, Same
    <3> QED
      BY <3>2, <3>3
  <2>3. CASE \E x \in TradeSlots : RemoveTradeItem(p, x)
    <3>1. PICK x \in TradeSlots : RemoveTradeItem(p, x)
      BY <2>3
    <3> DEFINE d == [Withdrawn(t) EXCEPT !.offer[SideOf(t, p)].slots[x] = 0]
    <3>2. Same(d)
      BY <1>5
    <3>3. deals' = [deals EXCEPT ![t] = d]
      BY <3>1 DEF RemoveTradeItem
    <3> HIDE DEF d, Same
    <3> QED
      BY <3>2, <3>3
  <2>4. CASE \E accept \in BOOLEAN : AcceptTrade(p, accept)
    <3>1. PICK accept \in BOOLEAN : AcceptTrade(p, accept)
      BY <2>4
    <3> DEFINE a == Accepted(t, p, accept)
               failed == [a EXCEPT !.stage = "failed"]
    <3>2. /\ deals[t].stage = "open"
          /\ deals' = [deals EXCEPT ![t] = failed] \/ deals' = [deals EXCEPT ![t] = a]
      BY <3>1 DEF AcceptTrade
    <3>3. a \in Deals /\ a.who = deals[t].who /\ a.stage = deals[t].stage
      BY <1>2, AcceptedType
    <3> HIDE DEF a
    <3>4. failed.who = a.who /\ failed.stage = "failed"
      BY <3>3 DEF Deals
    <3> HIDE DEF failed
    <3>5. Same(a) /\ Same(failed)
      BY <3>2, <3>3, <3>4
    <3> HIDE DEF Same
    <3> QED
      BY <3>2, <3>5
  <2> QED
    BY <2>1, <2>2, <2>3, <2>4
<1>7. PICK d : Same(d) /\ deals' = [deals EXCEPT ![t] = d]
  BY <1>6
<1>8. \A u \in Ids : deals'[u] = IF u = t THEN d ELSE deals[u]
  BY <1>2, <1>7 DEF IInv, ProtocolInv
<1>9. \A u \in Ids : /\ deals[u] # NoDeal => deals'[u].who = deals[u].who
                     /\ deals'[u].stage = "moved" =>
                            deals[u].stage = "moved" /\ deals'[u].due = deals[u].due
  BY <1>7, <1>8
<1> QED
  BY <1>1, <1>9, QuietStep

\* An agreed exchange is backed by what both sides offered: the gold was checked.
LEMMA CompleteGold ==
    ASSUME IInv, GoldInv, NEW p \in Players, CompleteTrade(p)
    PROVE  GoldInv'
<1>0. PICK t : t = Trades[p]
  OBVIOUS
<1> DEFINE deal == Accepted(t, p, TRUE)
           moved == [deal EXCEPT !.stage = "moved", !.due = Due(deal)]
           given == [side \in Sides |-> deal.offer[side].gold]
<1>1. /\ t # 0 /\ CanPay(deal)
      /\ deals' = [deals EXCEPT ![t] = moved]
      /\ UNCHANGED <<online, TradeID, Trades, disturbed, Gold, BankGold, spent>>
  BY <1>0 DEF CompleteTrade
<1> SUFFICES ASSUME ~disturbed PROVE PairInv' /\ MovedInv' /\ Balanced'
  BY <1>1 DEF GoldInv
<1>2. t \in Ids /\ deals[t] \in Deals /\ PairInv /\ MovedInv /\ Balanced /\ InBoth(t)
  BY <1>0, <1>1, TradeThere DEF IInv, GoldInv, PairInv
<1>3. deal \in Deals /\ deal.who = deals[t].who
  BY <1>2, AcceptedType
<1> HIDE DEF deal
<1>4. moved.who = deals[t].who /\ moved.due = Due(deal) /\ moved.stage = "moved"
  BY <1>3 DEF Deals
<1> HIDE DEF moved
<1>5. \A u \in Ids : deals'[u] = IF u = t THEN moved ELSE deals[u]
  BY <1>1, <1>2 DEF IInv, ProtocolInv
<1>6. PairInv'
  BY <1>1, <1>2, <1>4, <1>5, PairsKept
<1>7. given \in [Sides -> Amounts]
  BY <1>3, FieldTypes DEF Offers
<1>8. \A side \in Sides : /\ Due(deal)[side] = (given[Other(side)] + W - given[side]) % W
                          /\ Gold[deals[t].who[side]] >= given[side]
  BY <1>1, <1>3, TwoSides DEF Due, CanPay
<1>9. \A side \in Sides : /\ deals'[t].due[side] = (given[Other(side)] + W - given[side]) % W
                          /\ Gold'[deals'[t].who[side]] >= given[side]
  BY <1>1, <1>2, <1>4, <1>5, <1>8
<1> HIDE DEF given
<1>10. Backed(t)'
  BY <1>7, <1>9 DEF Backed
<1>11. InBoth(t)'
  BY <1>1, <1>2, <1>4, <1>5 DEF InBoth
<1>12. MovedInv'
  <2> SUFFICES ASSUME NEW u \in Ids, deals'[u].stage = "moved" PROVE InBoth(u)' /\ Backed(u)'
    BY DEF MovedInv
  <2>1. CASE u = t
    BY <1>10, <1>11, <2>1
  <2>2. CASE u # t
    <3>1. deals'[u] = deals[u] /\ InBoth(u) /\ Backed(u)
      BY <1>2, <1>5, <2>2 DEF MovedInv
    <3> QED
      BY <1>1, <3>1 DEF InBoth, Backed
  <2> QED
    BY <2>1, <2>2
<1> QED
  BY <1>1, <1>2, <1>6, <1>12 DEF Balanced

\* The exchanged gold is paid out once, to both.
LEMMA SettleGold ==
    ASSUME IInv, IInv', GoldInv, NEW t \in Ids, SettleTrade(t)
    PROVE  GoldInv'
<1>1. /\ deals[t].stage = "moved" /\ Delete(t, TRUE) /\ online' = online
      /\ UNCHANGED <<BankGold, spent, disturbed>>
  BY DEF SettleTrade
<1> SUFFICES ASSUME ~disturbed PROVE PairInv' /\ MovedInv' /\ Balanced'
  BY <1>1 DEF GoldInv
<1>2. /\ deals[t] \in Deals /\ PairInv /\ MovedInv /\ Balanced /\ InBoth(t) /\ Backed(t)
      /\ t # 0 /\ deals[t] # NoDeal
  BY <1>1, DealThere, DealOrNone DEF IInv, GoldInv, MovedInv, Ids
<1>3. PICK snd \in Players, rcv \in Players :
          snd = deals[t].who["sender"] /\ rcv = deals[t].who["receiver"] /\ snd # rcv
  BY <1>2, FieldTypes DEF Sides, IInv, ProtocolInv, TwoTraders
<1>4. /\ Trades[snd] = t /\ Trades[rcv] = t /\ snd \in online /\ rcv \in online
  BY <1>2, <1>3 DEF InBoth, PairInv, Sides
<1>5. SideOf(t, snd) = "sender" /\ SideOf(t, rcv) = "receiver"
  BY <1>3 DEF SideOf
<1>6. \A p \in Players : Gold'[p] =
          IF p = snd THEN (Gold[p] + deals[t].due["sender"]) % W
          ELSE IF p = rcv THEN (Gold[p] + deals[t].due["receiver"]) % W ELSE Gold[p]
  <2>1. \A p \in Players : Gold'[p] =
            IF p \in online /\ \E side \in Sides : deals[t].who[side] = p
            THEN (Gold[p] + deals[t].due[SideOf(t, p)]) % W
            ELSE Gold[p]
    BY DEF SettleTrade
  <2>2. \A p \in Players : (\E side \in Sides : deals[t].who[side] = p) <=> p = snd \/ p = rcv
    BY <1>3 DEF Sides
  <2> QED
    BY <1>3, <1>4, <1>5, <2>1, <2>2
<1>7. PICK a \in Amounts, b \in Amounts :
          /\ deals[t].due["sender"] = (b + W - a) % W /\ a <= Gold[snd]
          /\ deals[t].due["receiver"] = (a + W - b) % W /\ b <= Gold[rcv]
  <2>1. PICK given \in [Sides -> Amounts] : \A side \in Sides :
            /\ deals[t].due[side] = (given[Other(side)] + W - given[side]) % W
            /\ Gold[deals[t].who[side]] >= given[side]
    BY <1>2 DEF Backed
  <2>2. "sender" \in Sides /\ "receiver" \in Sides
    BY DEF Sides
  <2>3. given["sender"] \in Nat /\ given["receiver"] \in Nat /\ Gold[snd] \in Nat /\ Gold[rcv] \in Nat
    BY <2>2, Accounts, AmountsAreNumbers
  <2> QED
    BY <1>3, <2>1, <2>2, <2>3, TwoSides
<1>8. Gold[snd] \in Amounts /\ Gold[rcv] \in Amounts /\ Gold[snd] + Gold[rcv] < W
  BY <1>2, <1>3, NothingWraps DEF IInv, WealthInv
<1>9. /\ a \in Nat /\ b \in Nat /\ W \in Nat /\ Gold[snd] \in Nat /\ Gold[rcv] \in Nat
  BY <1>8, AmountsAreNumbers, GoldAssumption
<1>10. (Gold[snd] - a) + b < W /\ (Gold[rcv] - b) + a < W
  BY <1>7, <1>8, <1>9
<1>11. /\ Gold'[snd] = (Gold[snd] - a) + b
       /\ Gold'[rcv] = (Gold[rcv] - b) + a
  <2>1. (Gold[snd] + ((b + W - a) % W)) % W = (Gold[snd] - a) + b
    BY <1>7, <1>8, <1>10, PaidOut
  <2>2. (Gold[rcv] + ((a + W - b) % W)) % W = (Gold[rcv] - b) + a
    BY <1>7, <1>8, <1>10, PaidOut
  <2> QED
    BY <1>3, <1>6, <1>7, <2>1, <2>2
<1>12. Gold \in [Players -> Nat] /\ Gold' \in [Players -> Nat]
  BY AmountsAreNumbers DEF IInv, WealthInv
<1>13. Gold'[snd] + Gold'[rcv] = Gold[snd] + Gold[rcv]
  BY <1>9, <1>11
<1>14. SumFunction(Gold') = SumFunction(Gold)
  BY <1>3, <1>6, <1>12, <1>13, PlayersAssumption, TwoTerms
<1>15. PairInv' /\ MovedInv'
  <2>1. \A p \in Players : Trades[p] # t => Gold'[p] = Gold[p]
    BY <1>4, <1>6
  <2> QED
    BY <1>1, <1>2, <2>1, DeleteGold
<1> QED
  BY <1>1, <1>2, <1>14, <1>15 DEF Balanced

\* Deleting a trade whose rows are being written sets `disturbed`.
LEMMA CancelGold ==
    ASSUME IInv, GoldInv, NEW p \in Players, CancelTrade(p) \/ Logout(p)
    PROVE  GoldInv'
<1>1. UNCHANGED <<Gold, BankGold, spent>> /\ online' \subseteq online
  BY DEF CancelTrade, Logout, wealthVars
<1>2. CASE Trades[p] # 0
  <2> DEFINE t == Trades[p]
  <2>1. /\ Delete(t, FALSE) /\ disturbed' = (disturbed \/ deals[t].stage = "moved")
        /\ \A q \in online \ online' : q = p
    BY <1>2 DEF CancelTrade, Logout
  <2> SUFFICES ASSUME ~disturbed' PROVE PairInv' /\ MovedInv' /\ Balanced'
    BY DEF GoldInv
  <2>2. PairInv /\ MovedInv /\ Balanced /\ deals[t].stage # "moved"
    BY <2>1 DEF GoldInv, IInv, WealthInv
  <2>3. t \in Ids /\ deals[t] \in Deals /\ InBoth(t)
    BY <1>2, <2>2, TradeThere DEF IInv, PairInv
  <2>4. \A q \in online \ online' : Trades[q] = t \/ Trades[q] = 0
    BY <2>1
  <2> HIDE DEF t
  <2>5. PairInv' /\ MovedInv'
    BY <1>1, <2>1, <2>2, <2>3, <2>4, DeleteGold
  <2> QED
    BY <1>1, <2>2, <2>5 DEF Balanced
<1>3. CASE Trades[p] = 0
  <2>1. online' = online \ {p} /\ UNCHANGED <<Trades, deals, disturbed>>
    BY <1>3 DEF CancelTrade, Logout
  <2> SUFFICES ASSUME ~disturbed PROVE PairInv' /\ MovedInv' /\ Balanced'
    BY <2>1 DEF GoldInv
  <2>2. PairInv /\ MovedInv /\ Balanced
    BY DEF GoldInv
  <2>3. PairInv'
    BY <1>3, <2>1, <2>2 DEF PairInv, InBoth
  <2>4. MovedInv'
    BY <1>1, <2>1, <2>2, MovedKept
  <2> QED
    BY <1>1, <2>2, <2>3, <2>4 DEF Balanced
<1> QED
  BY <1>2, <1>3

\* A new trade is between two characters who are in no other; nobody is in an
\* exchange under its id.
LEMMA RespondGold ==
    ASSUME IInv, GoldInv, NEW p \in Players, NEW q \in Players, NEW accept \in BOOLEAN,
           RespondTradeRequest(p, q, accept)
    PROVE  GoldInv'
<1>0. PICK t : t = TradeID[p]
  OBVIOUS
<1>1. UNCHANGED <<online, Gold, BankGold, spent, disturbed>>
  BY DEF RespondTradeRequest, wealthVars
<1>2. CASE ~(accept /\ p \in online)
  <2>1. UNCHANGED <<Trades, deals>>
    BY <1>2 DEF RespondTradeRequest
  <2> QED
    BY <1>1, <2>1, QuietStep
<1>3. CASE accept /\ p \in online
  <2> SUFFICES ASSUME ~disturbed PROVE PairInv' /\ MovedInv' /\ Balanced'
    BY <1>1 DEF GoldInv
  <2>1. PairInv /\ MovedInv /\ Balanced
    BY DEF GoldInv
  <2>2. /\ t \in Ids /\ t # 0 /\ p # q /\ Trades[p] = 0 /\ Trades[q] = 0
        /\ p \in online /\ q \in online
    BY <1>0, <1>3, MaxRequestsAssumption DEF RespondTradeRequest, IInv, ProtocolInv, InHisTrade, Ids
  <2>3. \A r \in Players : Trades[r] # t
    BY <1>0, <2>2 DEF IInv, ProtocolInv, InHisTrade, OneRequestPerID
  <2>4. /\ deals' = [deals EXCEPT ![t] = NewDeal(p, q)]
        /\ Trades' = [Trades EXCEPT ![p] = t, ![q] = t]
    BY <1>0, <1>3 DEF RespondTradeRequest
  <2>5. /\ NewDeal(p, q).who["sender"] = p /\ NewDeal(p, q).who["receiver"] = q
        /\ NewDeal(p, q).stage = "open"
    BY NewDealType DEF NewDeal, Sides
  <2>6. /\ \A r \in Players : Trades'[r] = IF r = p \/ r = q THEN t ELSE Trades[r]
        /\ \A u \in Ids : deals'[u] = IF u = t THEN NewDeal(p, q) ELSE deals[u]
    BY <2>2, <2>4 DEF IInv, ProtocolInv
  <2>7. InBoth(t)'
    BY <2>2, <2>5, <2>6 DEF InBoth, Sides
  <2>8. PairInv'
    <3> SUFFICES ASSUME NEW r \in Players, Trades'[r] # 0
                 PROVE  /\ r \in online
                        /\ \A side \in Sides : Trades'[deals'[Trades'[r]].who[side]] = Trades'[r]
      BY <1>1 DEF PairInv, InBoth
    <3>1. CASE r = p \/ r = q
      BY <2>2, <2>6, <2>7, <3>1 DEF InBoth
    <3>2. CASE r # p /\ r # q
      <4>1. Trades'[r] = Trades[r] /\ Trades[r] # 0
        BY <2>6, <3>2
      <4>2. Trades[r] \in Ids /\ deals[Trades[r]] \in Deals /\ Trades[r] # t
        BY <2>3, <4>1, TradeThere DEF IInv
      <4>3. r \in online /\ \A side \in Sides : Trades[deals[Trades[r]].who[side]] = Trades[r]
        BY <2>1, <4>1 DEF PairInv, InBoth
      <4>4. \A side \in Sides : deals[Trades[r]].who[side] \in Players
        BY <4>2, FieldTypes
      <4>5. \A side \in Sides : Trades'[deals[Trades[r]].who[side]] = Trades[r]
        BY <2>2, <2>6, <4>1, <4>3, <4>4
      <4>6. deals'[Trades[r]] = deals[Trades[r]]
        BY <2>6, <4>2
      <4> QED
        BY <4>1, <4>3, <4>5, <4>6 DEF InBoth
    <3> QED
      BY <3>1, <3>2
  <2>9. MovedInv'
    <3>1. ASSUME NEW u \in Ids, deals'[u].stage = "moved"
          PROVE  /\ deals[u].stage = "moved"
                 /\ deals'[u].who = deals[u].who /\ deals'[u].due = deals[u].due
                 /\ \A side \in Sides : /\ Trades'[deals[u].who[side]] = Trades[deals[u].who[side]]
                                        /\ Gold'[deals[u].who[side]] = Gold[deals[u].who[side]]
      <4>1. deals'[u] = deals[u] /\ deals[u].stage = "moved" /\ u # 0
        BY <2>5, <2>6, <3>1 DEF Ids
      <4>2. deals[u] \in Deals /\ InBoth(u)
        BY <2>1, <4>1, DealThere DEF IInv, MovedInv
      <4>3. \A side \in Sides : deals[u].who[side] \in Players /\ Trades[deals[u].who[side]] = u
        BY <4>2, FieldTypes DEF InBoth
      <4>4. \A side \in Sides : Trades'[deals[u].who[side]] = Trades[deals[u].who[side]]
        BY <2>2, <2>6, <4>1, <4>3
      <4> QED
        BY <1>1, <4>1, <4>4
    <3> QED
      BY <2>1, <3>1, MovedKept
  <2> QED
    BY <1>1, <2>1, <2>8, <2>9 DEF Balanced
<1> QED
  BY <1>2, <1>3

LEMMA NextGoldInv == IInv /\ IInv' /\ GoldInv /\ [Next]_vars => GoldInv'
<1> SUFFICES ASSUME IInv, IInv', GoldInv, [Next]_vars PROVE GoldInv'
  OBVIOUS
<1>1. CASE \E p \in Players : World(p)
  BY <1>1, WorldGold
<1>2. ASSUME NEW p \in Players, Negotiation(p) PROVE GoldInv'
  <2>1. CASE \E q \in Players : SendTradeRequest(p, q)
    <3>1. UNCHANGED <<online, Trades, deals, Gold, BankGold, spent, disturbed>>
      BY <2>1 DEF SendTradeRequest, wealthVars
    <3> QED
      BY <3>1, QuietStep
  <2>2. CASE \E q \in Players, accept \in BOOLEAN : RespondTradeRequest(q, p, accept)
    BY <2>2, RespondGold
  <2>3. CASE \/ \E x \in TradeSlots, slot \in Slots : AddTradeItem(p, x, slot)
             \/ \E gold \in Amounts : AddTradeGold(p, gold)
             \/ \E x \in TradeSlots : RemoveTradeItem(p, x)
             \/ \E accept \in BOOLEAN : AcceptTrade(p, accept)
    BY <2>3, EditsGold
  <2>4. CASE CompleteTrade(p)
    BY <2>4, CompleteGold
  <2>5. CASE CancelTrade(p) \/ Logout(p)
    BY <2>5, CancelGold
  <2> QED
    BY <1>2, <2>1, <2>2, <2>3, <2>4, <2>5 DEF Negotiation
<1>3. CASE \E p \in Players, id \in Ids : RequestTimeout(p, id)
  <2>1. UNCHANGED <<online, Trades, deals, Gold, BankGold, spent, disturbed>>
    BY <1>3 DEF RequestTimeout, wealthVars
  <2> QED
    BY <2>1, QuietStep
<1>4. CASE \E t \in Ids : SettleTrade(t)
  BY <1>4, SettleGold
<1>5. CASE UNCHANGED vars
  <2>1. UNCHANGED <<online, Trades, deals, Gold, BankGold, spent, disturbed>>
    BY <1>5 DEF vars
  <2> QED
    BY <2>1, QuietStep
<1> QED
  BY <1>1, <1>2, <1>3, <1>4, <1>5 DEF Next, Trading

\* Unsigned gold arithmetic creates and destroys nothing and nobody's gold wraps
\* around, unless a trade was deleted or a trader paid a shop while its rows
\* were being written: for any number of traders and trades.
THEOREM GoldIsConserved == Spec => []GoldConserved
<1>1. GoldInv => GoldConserved
  BY DEF GoldInv, Balanced, GoldConserved
<1> QED
  BY <1>1, InitGoldInv, NextGoldInv, Invariance, PTL DEF Spec

---------------------------------------------------------------------------
\* Sight, for any things, places and maps.
mobs == Of("mob")

\* Until ChangeMap has emptied OnSight, what is in it may be of the map before.
KnownInv ==
    moving # "map" =>
        \A t \in OnSight \cap mobs : SameMap(place[t], at) => t \in OnSightPlayers
SightInv ==
    /\ things \subseteq Things
    /\ place \in [Things -> Places]
    /\ mobs \subseteq out
    /\ KnownInv

LEMMA InitSight == SInit => SightInv
  BY SightAssumption DEF SInit, SightInv, KnownInv, mobs

\* Whoever is shown a mob is in its list, in every step of a pass.
LEMMA PassKeeps == SightInv /\ exploreWorld => SightInv'
<1> SUFFICES ASSUME SightInv, exploreWorld PROVE SightInv'
  OBVIOUS
<1> USE DEF SightInv, KnownInv, mobs, Of, SameMap, world
<1>1. CASE Look
  BY <1>1 DEF Look
<1>2. CASE Note
  BY <1>2 DEF Note
<1>3. CASE Tell
  BY <1>3 DEF Tell
<1> QED
  BY <1>1, <1>2, <1>3 DEF exploreWorld

\* The character's own moves: within a map nothing changes for the mobs, and on the
\* way to another OnSight loses them.
LEMMA MovesKeep ==
  ASSUME SightInv, Activate \/ Clear \/ Arrive \/ \E p \in Places : Walk(p) \/ Depart(p)
  PROVE  SightInv'
<1> USE DEF SightInv, KnownInv, mobs, Of, SameMap
<1>1. CASE Activate
  BY <1>1 DEF Activate
<1>2. CASE Clear
  BY <1>2 DEF Clear, Kept
<1>3. CASE Arrive
  BY <1>3 DEF Arrive
<1>4. ASSUME NEW p \in Places, Walk(p) PROVE SightInv'
  BY <1>4 DEF Walk
<1>5. ASSUME NEW p \in Places, Depart(p) PROVE SightInv'
  BY <1>5 DEF Depart
<1> QED
  BY <1>1, <1>2, <1>3, <1>4, <1>5

\* What the things do: a mob leaves neither its map nor, while the character is on
\* it, its list.
LEMMA ThingsKeep ==
  ASSUME SightInv, NEW t \in Things,
         \/ Go(t) \/ Taken(t) \/ Morph(t) \/ Fall(t) \/ Die(t) \/ Forget(t)
         \/ \E p \in Places : Roam(t, p) \/ Come(t, p) \/ Return(t, p)
  PROVE  SightInv'
<1> USE DEF SightInv, KnownInv, mobs, Of, SameMap, theMap
<1>1. CASE Go(t)
  BY <1>1 DEF Go
<1>2. CASE Taken(t)
  BY <1>2 DEF Taken
<1>3. CASE Morph(t)
  BY <1>3 DEF Morph
<1>4. CASE Fall(t)
  BY <1>4 DEF Fall
<1>5. CASE Die(t)
  BY <1>5 DEF Die
<1>6. CASE Forget(t)
  BY <1>6 DEF Forget, Elsewhere
<1>7. ASSUME NEW p \in Places, Roam(t, p) PROVE SightInv'
  <2>1. KindOf[t] = "mob" => SameMap(p, place[t])
    BY <1>7 DEF Roam
  <2> QED
    BY <1>7, <2>1 DEF Roam
<1>8. ASSUME NEW p \in Places, Come(t, p) PROVE SightInv'
  <2>1. t \notin mobs
    BY <1>8 DEF Come
  <2> QED
    BY <1>8, <2>1 DEF Come
<1>9. ASSUME NEW p \in Places, Return(t, p) PROVE SightInv'
  BY <1>9 DEF Return
<1> QED
  BY <1>1, <1>2, <1>3, <1>4, <1>5, <1>6, <1>7, <1>8, <1>9

LEMMA SightStep == SightInv /\ [SNext]_svars => SightInv'
<1> SUFFICES ASSUME SightInv, [SNext]_svars PROVE SightInv'
  OBVIOUS
<1>1. CASE exploreWorld
  BY <1>1, PassKeeps
<1>2. CASE Activate \/ Clear \/ Arrive \/ \E p \in Places : Walk(p) \/ Depart(p)
  BY <1>2, MovesKeep
<1>3. ASSUME NEW t \in Things,
             \/ Go(t) \/ Taken(t) \/ Morph(t) \/ Fall(t) \/ Die(t) \/ Forget(t)
             \/ \E p \in Places : Roam(t, p) \/ Come(t, p) \/ Return(t, p)
      PROVE  SightInv'
  BY <1>3, ThingsKeep
<1>4. CASE UNCHANGED svars
  BY <1>4 DEF svars, SightInv, KnownInv, mobs, Of, SameMap
<1> QED
  BY <1>1, <1>2, <1>3, <1>4 DEF SNext

\* A mob the client was shown knows of its player, however often he changes maps,
\* walks and comes back (exploreMobs, ChangeMap and AIHandler together).
THEOREM MobsKnowWhoSeesThem == SightSpec => []WatchedMobsKnow
<1>1. SightInv => WatchedMobsKnow
  BY DEF SightInv, KnownInv, mobs, WatchedMobsKnow
<1> QED
  BY <1>1, InitSight, SightStep, PTL DEF SightSpec
=============================================================================
