------------------------------- MODULE Escrow -------------------------------
(***************************************************************************)
(* What a place that keeps items for sale promises: an item is with one    *)
(* character, in custody or nowhere; who deposited it gets it back or is   *)
(* paid its price, and is paid exactly when somebody paid it.  An item     *)
(* that is `disputed` is outside of the promise from then on.              *)
(***************************************************************************)
EXTENDS Naturals

CONSTANTS Rows, Chars, Custody, Nowhere, NoChar

VARIABLES holder, depositor, paid, received, disputed

escrow == <<holder, depositor, paid, received, disputed>>

Ledger(r) == <<depositor[r], paid[r], received[r]>>

\* The price of r was paid and its depositor has not got it yet.
Owed(r) == paid[r] # received[r]

Deposit(r) ==
    /\ holder[r] \in Chars /\ ~Owed(r)
    /\ holder'[r] = Custody /\ depositor'[r] = holder[r]
    /\ paid'[r] = paid[r] /\ received'[r] = received[r]
Return(r) ==
    /\ holder[r] = Custody /\ ~Owed(r)
    /\ holder'[r] = depositor[r] /\ Ledger(r)' = Ledger(r)
Take(r) ==
    /\ holder[r] = Custody /\ ~Owed(r)
    /\ holder'[r] \in Chars /\ paid'[r] = paid[r] + 1
    /\ depositor'[r] = depositor[r] /\ received'[r] = received[r]
Settle(r) ==
    /\ Owed(r)
    /\ received'[r] = received[r] + 1
    /\ holder'[r] = holder[r] /\ depositor'[r] = depositor[r] /\ paid'[r] = paid[r]
Discard(r) ==
    /\ holder[r] \in Chars
    /\ holder'[r] = Nowhere /\ Ledger(r)' = Ledger(r)
Keep(r) == holder'[r] = holder[r] /\ Ledger(r)' = Ledger(r)

Init ==
    /\ holder \in [Rows -> Chars] /\ depositor = [r \in Rows |-> NoChar]
    /\ paid = [r \in Rows |-> 0] /\ received = [r \in Rows |-> 0] /\ disputed = {}

\* Every item on its own; what has become of a disputed one is open.
Next ==
    /\ disputed \subseteq disputed'
    /\ \A r \in Rows : r \in disputed' \/ Keep(r) \/ Deposit(r) \/ Return(r) \/ Take(r) \/ Settle(r) \/ Discard(r)
Spec == Init /\ [][Next]_escrow

---------------------------------------------------------------------------
\* No seller is paid more often than buyers have paid, and none waits for more
\* than one price, unless the item is disputed.
PaidOnce == \A r \in Rows : r \notin disputed => paid[r] \in {received[r], received[r] + 1}
=============================================================================
