------------------------------- MODULE Trade -------------------------------
(***************************************************************************)
(* Trading between two characters (player/trade.go, database/trade.go):    *)
(* request, answer, offers of items and gold, acceptance, the exchange,    *)
(* cancellation and logout.  A packet handler is one step, up to the first *)
(* wait for the database or a timer: AcceptTrade moves the items in memory *)
(* and the gold only after the moved rows are written, so the exchange is  *)
(* two steps, and the 12 second timer of a request is a step of its own.   *)
(***************************************************************************)
EXTENDS Bag, Integers

CONSTANTS TradeSlots,   \* slots of one side of the trade window
          MaxRequests,  \* bound: trade requests of one behaviour
          InitGold,     \* gold of each character at the start
          W             \* gold is an unsigned integer modulo W (2^64 in the code)

ASSUME TradeSlotsAssumption == 0 \notin Slots
ASSUME MaxRequestsAssumption == MaxRequests \in Nat
ASSUME GoldAssumption == W \in Nat \ {0} /\ InitGold \in [Players -> 0..W - 1]
\* All the gold there is fits into one account (2^64 is out of the game's reach).
ASSUME WidthAssumption == SumFunction(InitGold) < W

VARIABLES online,    \* characters with IsOnline set (their IsActive is taken as set too)
          TradeID,   \* c.TradeID: 0 for the empty string, else the request's uuid
          Trades,    \* the trade FindTrade(c) finds, 0 for none
          deals,     \* the Trade objects, under the uuid of their request
          timers,    \* <<c, uuid>>: the 12 s timers still to fire
          lastID,    \* uuids handed out
          bags,      \* c.InventorySlots()
          Gold,      \* c.Gold
          BankGold,  \* user.BankGold
          spent,     \* gold paid to shops so far
          disturbed  \* history: between the two steps of an exchange the trade was
                     \* deleted or one of the two paid a shop

protocolVars == <<online, TradeID, Trades, deals, timers, lastID>>
wealthVars == <<bags, Gold, BankGold, spent>>
vars == <<online, TradeID, Trades, deals, timers, lastID, bags, Gold, BankGold, spent, disturbed>>

Sides == {"sender", "receiver"}
Ids == 1..MaxRequests
Amounts == 0..W - 1

NoDeal == [stage |-> "none"]
\* Slots of the window hold a bag slot, 0 when empty.
Offers == [slots : [TradeSlots -> Slots \cup {0}], gold : Amounts]
\* The stage is "open" until Completing is set; then "failed" if the gold check
\* failed, "moved" while the rows are being written.
Deals == [stage : {"open", "failed", "moved"},
          who : [Sides -> Players],
          offer : [Sides -> Offers],
          accepted : [Sides -> BOOLEAN],
          due : [Sides -> Amounts]]

TypeOK ==
    /\ online \subseteq Players
    /\ TradeID \in [Players -> 0..MaxRequests]
    /\ Trades \in [Players -> 0..MaxRequests]
    /\ deals \in [Ids -> Deals \cup {NoDeal}]
    /\ timers \subseteq Players \X Ids
    /\ lastID \in 0..MaxRequests
    /\ bags \in [Players -> Bags]
    /\ Gold \in [Players -> Amounts]
    /\ BankGold \in [Players -> Nat]
    /\ spent \in Nat
    /\ disturbed \in BOOLEAN

Init ==
    /\ online = Players
    /\ TradeID = [p \in Players |-> 0]
    /\ Trades = [p \in Players |-> 0]
    /\ deals = [t \in Ids |-> NoDeal]
    /\ timers = {}
    /\ lastID = 0
    /\ bags = InitBag
    /\ Gold = InitGold
    /\ BankGold = [p \in Players |-> 0]
    /\ spent = 0
    /\ disturbed = FALSE

Other(side) == CHOOSE x \in Sides : x # side
\* trade.Sender.Character.UserID == s.Character.UserID
SideOf(t, p) == IF deals[t].who["sender"] = p THEN "sender" ELSE "receiver"

----------------------------------------------------------------------------
(* The world around the trade window *)

Loaded == {bags[p][s] : p \in Players, s \in Slots} \ {NoRow}

\* A new item reaches a bag whatever its owner is doing.
Loot(p, row) ==
    /\ p \in online /\ row \notin Loaded
    /\ Free(bags[p]) # {}
    /\ bags' = AddItem(bags, p, row)
    /\ UNCHANGED <<Gold, BankGold, spent, disturbed, protocolVars>>

\* Paying for goods is allowed while trading.
BuyItem(p, row, cost) ==
    /\ p \in online /\ row \notin Loaded
    /\ Free(bags[p]) # {}
    /\ cost <= Gold[p]
    /\ Gold' = [Gold EXCEPT ![p] = (@ + W - cost) % W]
    /\ spent' = spent + cost
    /\ bags' = AddItem(bags, p, row)
    /\ disturbed' = (disturbed \/ \E t \in Ids, side \in Sides :
                         deals[t].stage = "moved" /\ deals[t].who[side] = p)
    /\ UNCHANGED <<BankGold, protocolVars>>

\* Destroying an item is allowed while trading.  The slot is emptied when the
\* row is deleted, whatever it holds by then.
Destroy(p, slot) ==
    /\ p \in online /\ bags[p][slot] # NoRow
    /\ bags' = RemoveItem(bags, p, slot)
    /\ UNCHANGED <<Gold, BankGold, spent, disturbed, protocolVars>>

\* "Cannot deposit gold while trading".
Deposit(p, gold) ==
    /\ p \in online /\ TradeID[p] = 0
    /\ Gold[p] >= gold
    /\ Gold' = [Gold EXCEPT ![p] = (@ + W - gold) % W]
    /\ BankGold' = [BankGold EXCEPT ![p] = @ + gold]
    /\ UNCHANGED <<bags, spent, disturbed, protocolVars>>

Withdraw(p, gold) ==
    /\ p \in online /\ TradeID[p] = 0
    /\ BankGold[p] >= gold
    /\ Gold' = [Gold EXCEPT ![p] = (@ + gold) % W]
    /\ BankGold' = [BankGold EXCEPT ![p] = @ - gold]
    /\ UNCHANGED <<bags, spent, disturbed, protocolVars>>

----------------------------------------------------------------------------
(* Asking for a trade *)

SendTradeRequest(p, q) ==
    /\ p \in online /\ TradeID[p] = 0
    /\ q \in online
    /\ lastID < MaxRequests
    /\ lastID' = lastID + 1
    /\ TradeID' = [TradeID EXCEPT ![p] = lastID + 1]
    /\ timers' = timers \cup {<<p, lastID + 1>>}
    /\ UNCHANGED <<online, Trades, deals, disturbed, wealthVars>>

\* As if the timer did not compare the request it was started for.
AnyRequestTimeout(p, id) ==
    /\ <<p, id>> \in timers
    /\ timers' = timers \ {<<p, id>>}
    /\ TradeID' = [TradeID EXCEPT ![p] = IF Trades[p] = 0 THEN 0 ELSE @]
    /\ UNCHANGED <<online, Trades, deals, lastID, disturbed, wealthVars>>
\* As if the timer only told the sender that nobody answered.
SilentRequestTimeout(p, id) ==
    /\ <<p, id>> \in timers
    /\ timers' = timers \ {<<p, id>>}
    /\ UNCHANGED <<online, TradeID, Trades, deals, lastID, disturbed, wealthVars>>
\* The timer of a request fires: an unanswered request is withdrawn.
RequestTimeout(p, id) ==
    /\ <<p, id>> \in timers
    /\ timers' = timers \ {<<p, id>>}
    /\ TradeID' = [TradeID EXCEPT ![p] = IF Trades[p] = 0 /\ @ = id THEN 0 ELSE @]
    /\ UNCHANGED <<online, Trades, deals, lastID, disturbed, wealthVars>>

NewDeal(p, q) ==
    [stage |-> "open",
     who |-> [side \in Sides |-> IF side = "sender" THEN p ELSE q],
     offer |-> [side \in Sides |-> [slots |-> [x \in TradeSlots |-> 0], gold |-> 0]],
     accepted |-> [side \in Sides |-> FALSE],
     due |-> [side \in Sides |-> 0]]

\* q answers the request of p.  Nothing checks that p asked q.
RespondTradeRequest(p, q, accept) ==
    /\ q \in online /\ TradeID[q] = 0
    /\ TradeID[p] # 0 /\ Trades[p] = 0
    /\ IF accept /\ p \in online
       THEN /\ deals' = [deals EXCEPT ![TradeID[p]] = NewDeal(p, q)]
            /\ Trades' = [Trades EXCEPT ![p] = TradeID[p], ![q] = TradeID[p]]
            /\ TradeID' = [TradeID EXCEPT ![q] = TradeID[p]]
       ELSE /\ TradeID' = [TradeID EXCEPT ![p] = 0]
            /\ UNCHANGED <<Trades, deals>>
    /\ UNCHANGED <<online, timers, lastID, disturbed, wealthVars>>

----------------------------------------------------------------------------
(* Offers: every edit first withdraws both acceptances *)

\* As if an edit withdrew only the sender's acceptance.
SenderWithdrawn(t) == [deals[t] EXCEPT !.accepted["sender"] = FALSE]
Withdrawn(t) == [deals[t] EXCEPT !.accepted = [side \in Sides |-> FALSE]]

AddTradeItem(p, x, slot) ==
    LET t == Trades[p] IN
    /\ p \in online /\ t # 0
    /\ deals' = [deals EXCEPT ![t] =
          IF bags[p][slot] = NoRow \/ bags[p][slot] \in Untradable THEN Withdrawn(t)
          ELSE [Withdrawn(t) EXCEPT !.offer[SideOf(t, p)].slots[x] = slot]]
    /\ UNCHANGED <<online, TradeID, Trades, timers, lastID, disturbed, wealthVars>>

AddTradeGold(p, gold) ==
    LET t == Trades[p] IN
    /\ p \in online /\ t # 0
    /\ deals' = [deals EXCEPT ![t] =
          IF Gold[p] < gold THEN Withdrawn(t)
          ELSE [Withdrawn(t) EXCEPT !.offer[SideOf(t, p)].gold = gold]]
    /\ UNCHANGED <<online, TradeID, Trades, timers, lastID, disturbed, wealthVars>>

RemoveTradeItem(p, x) ==
    LET t == Trades[p] IN
    /\ p \in online /\ t # 0
    /\ deals' = [deals EXCEPT ![t] =
          [Withdrawn(t) EXCEPT !.offer[SideOf(t, p)].slots[x] = 0]]
    /\ UNCHANGED <<online, TradeID, Trades, timers, lastID, disturbed, wealthVars>>

----------------------------------------------------------------------------
(* Acceptance and exchange *)

\* A side's acceptance; a refusal also withdraws the other side's.
Accepted(t, p, accept) ==
    [deals[t] EXCEPT !.accepted = [side \in Sides |->
        IF side = SideOf(t, p) THEN accept ELSE accept /\ @[side]]]

Offered(deal, side) == {deal.offer[side].slots[x] : x \in TradeSlots} \ {0}
Entries(deal, side) == {x \in TradeSlots : deal.offer[side].slots[x] # 0}

HasRoom(deal) ==
    \A side \in Sides :
        FindFreeSlots(bags[deal.who[side]], Cardinality(Entries(deal, Other(side))))

\* As if the check were an "or".
EitherAccepted(deal) == \E side \in Sides : deal.accepted[side]
BothAccepted(deal) == \A side \in Sides : deal.accepted[side]

\* As if only the sender's gold were checked.
SenderCanPay(deal) == Gold[deal.who["sender"]] >= deal.offer["sender"].gold
CanPay(deal) == \A side \in Sides : Gold[deal.who[side]] >= deal.offer[side].gold

\* The sender's items go in the order of a Go map, that is in any order, and
\* the loop stops at the first row that is untradable or in use.
SenderMoves(deal) ==
    LET loaded == {s \in Offered(deal, "sender") : bags[deal.who["sender"]][s] # NoRow}
        stopped == {s \in loaded : bags[deal.who["sender"]][s] \in Untradable \cup Activated}
    IN  IF stopped = {} THEN {loaded} ELSE SUBSET (loaded \ stopped)

\* The receiver's items go back after that, without those checks.
ReceiverMoves(deal, afterSender) ==
    {s \in Offered(deal, "receiver") : afterSender[deal.who["receiver"]][s] # NoRow}

\* sGold and rGold: what each side is owed, as unsigned differences.
Due(deal) ==
    [side \in Sides |-> (deal.offer[Other(side)].gold + W - deal.offer[side].gold) % W]

Exchange(deal) ==
    LET snd == deal.who["sender"]
        rcv == deal.who["receiver"]
    IN  \E from \in SenderMoves(deal) :
        \E f \in Placements(from, bags[rcv]) :
            LET after == MoveRows(bags, snd, rcv, f) IN
            \E g \in Placements(ReceiverMoves(deal, after), after[snd]) :
                bags' = MoveRows(after, rcv, snd, g)

\* AcceptTrade: both sides accept a trade there is room and gold for.
CompleteTrade(p) ==
    LET t == Trades[p]
        deal == Accepted(t, p, TRUE)
    IN  /\ p \in online /\ t # 0
        /\ deals[t].stage = "open"
        /\ HasRoom(deal)
        /\ BothAccepted(deal)
        /\ CanPay(deal)
        /\ Exchange(deal)
        /\ deals' = [deals EXCEPT ![t] = [deal EXCEPT !.stage = "moved", !.due = Due(deal)]]
        /\ UNCHANGED <<online, TradeID, Trades, timers, lastID, disturbed, Gold, BankGold, spent>>

\* AcceptTrade in the other cases: only the acceptances change, and a trade one
\* side cannot pay stays marked as completing.
AcceptTrade(p, accept) ==
    LET t == Trades[p]
        deal == Accepted(t, p, accept)
        agreed == HasRoom(deal) /\ BothAccepted(deal)
    IN  /\ p \in online /\ t # 0
        /\ deals[t].stage = "open"
        /\ ~(agreed /\ CanPay(deal))
        /\ deals' = [deals EXCEPT ![t] = IF agreed THEN [deal EXCEPT !.stage = "failed"]
                                         ELSE deal]
        /\ UNCHANGED <<online, TradeID, Trades, timers, lastID, disturbed, wealthVars>>

\* As if Delete cleared the TradeID of the sender only.
DeleteSender(t, settling) ==
    /\ deals' = [deals EXCEPT ![t] = IF @.stage = "moved" /\ ~settling THEN @ ELSE NoDeal]
    /\ TradeID' = [TradeID EXCEPT ![deals[t].who["sender"]] = 0]
    /\ Trades' = [p \in Players |-> IF \E side \in Sides : deals[t].who[side] = p
                                    THEN 0 ELSE Trades[p]]
\* Trade.Delete: whatever the map holds for the two users now.  The object is
\* kept only while the handler of its exchange still refers to it.
Delete(t, settling) ==
    /\ deals' = [deals EXCEPT ![t] = IF @.stage = "moved" /\ ~settling THEN @ ELSE NoDeal]
    /\ TradeID' = [p \in Players |-> IF \E side \in Sides : deals[t].who[side] = p
                                     THEN 0 ELSE TradeID[p]]
    /\ Trades' = [p \in Players |-> IF \E side \in Sides : deals[t].who[side] = p
                                    THEN 0 ELSE Trades[p]]

\* The moved rows are written: the gold follows and the trade is deleted.
\* LootGold of a character who left meanwhile changes an object nobody saves.
SettleTrade(t) ==
    /\ deals[t].stage = "moved"
    /\ Gold' = [p \in Players |->
          IF p \in online /\ \E side \in Sides : deals[t].who[side] = p
          THEN (Gold[p] + deals[t].due[SideOf(t, p)]) % W
          ELSE Gold[p]]
    /\ Delete(t, TRUE)
    /\ UNCHANGED <<online, timers, lastID, disturbed, bags, BankGold, spent>>

CancelTrade(p) ==
    /\ p \in online /\ Trades[p] # 0
    /\ Delete(Trades[p], FALSE)
    /\ disturbed' = (disturbed \/ deals[Trades[p]].stage = "moved")
    /\ UNCHANGED <<online, timers, lastID, wealthVars>>

\* Character.Logout: the request is dropped, the trade cancelled.
Logout(p) ==
    /\ p \in online
    /\ online' = online \ {p}
    /\ IF Trades[p] # 0
       THEN /\ Delete(Trades[p], FALSE)
            /\ disturbed' = (disturbed \/ deals[Trades[p]].stage = "moved")
       ELSE /\ TradeID' = [TradeID EXCEPT ![p] = 0]
            /\ UNCHANGED <<Trades, deals, disturbed>>
    /\ UNCHANGED <<timers, lastID, wealthVars>>

----------------------------------------------------------------------------

World(p) ==
    \/ \E row \in Rows : Loot(p, row) \/ \E cost \in Amounts : BuyItem(p, row, cost)
    \/ \E slot \in Slots : Destroy(p, slot)
    \/ \E gold \in Amounts : Deposit(p, gold) \/ Withdraw(p, gold)

Negotiation(p) ==
    \/ \E q \in Players : SendTradeRequest(p, q)
    \/ \E q \in Players, accept \in BOOLEAN : RespondTradeRequest(q, p, accept)
    \/ \E x \in TradeSlots, slot \in Slots : AddTradeItem(p, x, slot)
    \/ \E gold \in Amounts : AddTradeGold(p, gold)
    \/ \E x \in TradeSlots : RemoveTradeItem(p, x)
    \/ CompleteTrade(p)
    \/ \E accept \in BOOLEAN : AcceptTrade(p, accept)
    \/ CancelTrade(p)
    \/ Logout(p)

Trading ==
    \/ \E p \in Players : Negotiation(p)
    \/ \E p \in Players, id \in Ids : RequestTimeout(p, id)
    \/ \E t \in Ids : SettleTrade(t)

Next == Trading \/ \E p \in Players : World(p)

Spec == Init /\ [][Next]_vars

\* Runtime timers fire, and a handler that waits for the database goes on.
Fairness ==
    /\ \A p \in Players, id \in Ids : WF_vars(RequestTimeout(p, id))
    /\ \A t \in Ids : WF_vars(SettleTrade(t))

FairSpec == Spec /\ Fairness

----------------------------------------------------------------------------
(* Properties *)

\* No duplication: through loot, destruction and exchanges whose slots were
\* emptied or refilled after they were offered, an item is in one slot of one
\* bag.
NoDuplicateRow == OnePlace(bags)

\* An exchange never puts an item over another: what was in a bag before it is
\* in a bag after it.
NothingOverwritten ==
    [][(\E t \in Ids : deals[t].stage = "open" /\ deals'[t].stage = "moved")
          => Loaded' = Loaded]_vars

\* Unsigned gold arithmetic creates and destroys nothing and nobody's gold wraps
\* around below zero, unless a trade was deleted or a trader paid a shop between
\* the two steps of the exchange.
GoldConserved ==
    ~disturbed =>
        SumFunction(Gold) + SumFunction(BankGold) + spent = SumFunction(InitGold)

\* A character whose TradeID is set (who can then neither trade, deposit, sell,
\* split nor use an item) is in a trade he can cancel, or has asked for one
\* and the timer that withdraws the request is still to fire.
NeverLockedOut ==
    \A p \in Players : TradeID[p] # 0 => \/ Trades[p] # 0
                                         \/ <<p, TradeID[p]>> \in timers

\* An acceptance binds one offer: as long as it stands, neither side's offer
\* changes.
AcceptanceBindsOffers ==
    [][\A t \in Ids : \A side \in Sides :
          /\ deals[t] # NoDeal /\ deals[t].accepted[side]
          /\ deals'[t] # NoDeal /\ deals'[t].accepted[side]
          => deals'[t].offer = deals[t].offer]_vars

\* Nobody else's rows move: a row changes owner only in the exchange of a trade
\* both owners accepted, out of a slot its owner offered.
OnlyOfferedRowsMove ==
    [][\A p, q \in Players, s, u \in Slots :
          p # q /\ bags[p][s] # NoRow /\ bags'[q][u] = bags[p][s] =>
              \E t \in Ids, side \in Sides :
                  /\ deals[t] # NoDeal /\ deals[t].stage = "open"
                  /\ deals'[t].stage = "moved"
                  /\ deals'[t].who[side] = p /\ deals'[t].who[Other(side)] = q
                  /\ s \in Offered(deals'[t], side)
                  /\ \A z \in Sides : deals'[t].accepted[z]]_vars

\* A timer never ends a running trade and never withdraws a newer request.
TimerSparesOthers ==
    [][\A p \in Players, id \in Ids :
          <<p, id>> \in timers /\ <<p, id>> \notin timers' =>
              /\ Trades' = Trades
              /\ \A q \in Players : TradeID'[q] # TradeID[q] => q = p /\ TradeID[q] = id]_vars

\* A request does not stay pending: it becomes a trade or is withdrawn.
RequestResolved ==
    \A p \in Players :
        (TradeID[p] # 0 /\ Trades[p] = 0) ~> (TradeID[p] = 0 \/ Trades[p] # 0)

\* "not enough inventory space" (FindFreeSlots): if something is offered and both
\* sides accept, the trade stays as it is only if one of them has no room for
\* the items.
RefusedForSpaceOnly ==
    [][\A t \in Ids :
          /\ deals'[t] # deals[t] /\ deals'[t] # NoDeal
          /\ \A side \in Sides : deals'[t].accepted[side]
          /\ deals'[t].stage = "open"
          /\ \E side \in Sides : deals'[t].offer[side].gold > 0 \/ Entries(deals'[t], side) # {}
          => \E side \in Sides :
                 Cardinality(Free(bags[deals'[t].who[side]]))
                     < Cardinality(Entries(deals'[t], Other(side)))]_vars
============================================================================
