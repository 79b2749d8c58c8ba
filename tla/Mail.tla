-------------------------------- MODULE Mail --------------------------------
(***************************************************************************)
(* The mail of player/messange.go: items are noted, sent with gold and     *)
(* received, expire or are deleted.  SendMessage takes each noted item out *)
(* of its slot, one database call after the other, and only then looks at  *)
(* the gold; ReceiveItems reads the mail, waits, gives item after item and *)
(* the gold and writes at the end that it was received.  Titles, texts and *)
(* the menus are left out.                                                 *)
(***************************************************************************)
EXTENDS Naturals, FiniteSets, Sequences, SequencesExt, FiniteSetsExt

CONSTANTS MRows, MChars, Nobody,
          MSlots,       \* the slots of the bag; the code's first is the least
          NoneIn,       \* the id of an empty slot
          Inserted,     \* who has which row in which slot at first
          Purse,        \* the gold of each character at first
          Fee,          \* 1000 for each item, at least once
          GoldSize,     \* 2^64 in the code: gold is unsigned
          MaxMails,     \* mails ever sent
          Postmen       \* handlers that run at once

AllGold == SumFunction(Purse)
ASSUME MailAssumption ==
    /\ NoneIn \notin MRows \cup {0} /\ Nobody \notin MChars /\ IsFiniteSet(MChars)
    /\ MSlots \subseteq Nat /\ MSlots # {}
    /\ Inserted \in [MRows -> [owner : MChars, slot : MSlots]]
    /\ \A q, r \in MRows : Inserted[q] = Inserted[r] => q = r
    /\ Purse \in [MChars -> Nat] /\ Fee \in Nat \ {0} /\ GoldSize \in Nat /\ MaxMails \in Nat
    /\ AllGold < GoldSize

VARIABLES satchel,      \* Character.inventory: character -> slot -> row
          itemRow,      \* hops.items_characters: row -> owner and slot
          noted,        \* Character.MessageItems: slots with the row that was in them
          mails,        \* hops.characters_mails, in the order of their ids
          purse,        \* Character.Gold
          work,         \* what each handler is at
          spent,        \* history: the commissions paid and the gold of mails deleted or expired
          lost,         \* history: rows of items that are lost for ever
          wrong         \* history: what the code does not guard against and happened

mvars == <<satchel, itemRow, noted, mails, purse, work, spent, lost, wrong>>

Removed == [owner |-> Nobody, slot |-> NoneIn]
Orphan == [owner |-> Nobody, slot |-> 0]        \* slot -1 and no character
Job(op, c, d, m, items, g) == [op |-> op, who |-> c, to |-> d, mail |-> m, items |-> items, put |-> <<>>, gold |-> g]
Off == Job("off", Nobody, Nobody, 0, <<>>, 0)
Letter(from, to, items, gold) == [from |-> from, to |-> to, items |-> items, gold |-> gold, done |-> FALSE]
NoLetter == [from |-> Nobody, to |-> Nobody, items |-> <<>>, gold |-> 0, done |-> TRUE]
SetRow(r, v) == IF r = NoneIn \/ itemRow[r] = Removed THEN itemRow ELSE [itemRow EXCEPT ![r] = v]
Contents == [m \in 1..Len(mails) |-> mails[m].gold]
MFree(c) == {s \in MSlots : satchel[c][s] = NoneIn}
First == Min(MSlots)

\* ItemAddMessageHandler; the client does not offer a slot twice.
ItemAddMessage ==
    \E c \in MChars, s \in MSlots :
        /\ satchel[c][s] # NoneIn /\ \A i \in 1..Len(noted[c]) : noted[c][i].slot # s
        /\ noted' = [noted EXCEPT ![c] = Append(@, [slot |-> s, row |-> satchel[c][s]])]
        /\ UNCHANGED <<satchel, itemRow, mails, purse, work, spent, lost, wrong>>
ItemRemoveMessage ==
    \E c \in MChars : \E i \in 1..Len(noted[c]) :
        /\ noted' = [noted EXCEPT ![c] = RemoveAt(@, i)]
        /\ UNCHANGED <<satchel, itemRow, mails, purse, work, spent, lost, wrong>>
\* OpenMessagerHandler forgets what was noted; a mail that has expired is
\* deleted with the rows of its items.
OpenMessager ==
    \E c \in MChars :
        /\ noted' = [noted EXCEPT ![c] = <<>>]
        /\ \E E \in SUBSET {m \in 1..Len(mails) : mails[m].to = c} :
              LET rows == UNION {Range(mails[m].items) : m \in E} IN
              /\ mails' = [m \in 1..Len(mails) |-> IF m \in E THEN NoLetter ELSE mails[m]]
              /\ itemRow' = [r \in MRows |-> IF r \in rows THEN Removed ELSE itemRow[r]]
              /\ lost' = lost \cup rows
              /\ spent' = spent + SumFunctionOnSet(Contents, E)
              /\ wrong' = IF \E p \in Postmen : work[p].mail \in E THEN wrong \cup {"overlap"} ELSE wrong
        /\ UNCHANGED <<satchel, purse, work>>

\* SendMessage: a trade refuses it (see Trade); the receiver is looked up.
SendMessage ==
    \E c, d \in MChars, g \in 0..AllGold, p \in Postmen :
        /\ work[p] = Off /\ c # d /\ Len(mails) < MaxMails
        /\ work' = [work EXCEPT ![p] = Job("send", c, d, 0, noted[c], g)]
        /\ wrong' = IF \E q \in Postmen : work[q].who = c THEN wrong \cup {"overlap"} ELSE wrong
        /\ UNCHANGED <<satchel, itemRow, noted, mails, purse, spent, lost>>
\* The next noted item: what is in its slot by now loses its owner and, after
\* the wait, its slot.  The mail will hold the row that was noted.
TakeOut(p) ==
    /\ work[p].op = "send" /\ Len(work[p].put) < Len(work[p].items)
    /\ LET c == work[p].who
           n == work[p].items[Len(work[p].put) + 1]
           r == satchel[c][n.slot]
       IN /\ itemRow' = SetRow(r, Orphan)
          /\ satchel' = [satchel EXCEPT ![c][n.slot] = NoneIn]
          /\ wrong' = IF r # n.row THEN wrong \cup {"stale"} ELSE wrong
          /\ work' = [work EXCEPT ![p].put = Append(@, n.row)]
    /\ UNCHANGED <<noted, mails, purse, spent, lost>>

\* Gold is unsigned.
Charged(have, due, g) == (have + 2 * GoldSize - due - g) % GoldSize
\* All items are out.  Without the gold nothing is sent, and the items stay
\* noted and out of the bag.  The commission is not looked at.
PostMail(p) ==
    /\ work[p].op = "send" /\ Len(work[p].put) = Len(work[p].items)
    /\ LET c == work[p].who
           g == work[p].gold
           due == Fee * Max({1, Len(work[p].put)})
       IN IF purse[c] < g
          THEN /\ wrong' = IF work[p].put # <<>> THEN wrong \cup {"short"} ELSE wrong
               /\ UNCHANGED <<noted, mails, purse, spent>>
          ELSE /\ purse' = [purse EXCEPT ![c] = Charged(@, due, g)]
               /\ wrong' = IF purse[c] < g + due THEN wrong \cup {"wrapped"} ELSE wrong
               /\ spent' = spent + due
               /\ mails' = Append(mails, Letter(c, work[p].to, work[p].put, g))
               /\ noted' = [noted EXCEPT ![c] = <<>>]
    /\ work' = [work EXCEPT ![p] = Off]
    /\ UNCHANGED <<satchel, itemRow, lost>>

\* As if a mail that was received were given out again.
StillThere(l) == [l EXCEPT !.done = TRUE]
Emptied(l) == [l EXCEPT !.done = TRUE, !.items = <<>>, !.gold = 0]
\* FindFreeSlots finds n slots: for none it fails when the first slot is free,
\* so that a mail with gold alone is refused then.
Room(c, n) == IF n = 0 THEN First \notin MFree(c) ELSE Cardinality(MFree(c)) >= n
\* The first n free slots, in their order.
FreeSlots(c, n) == {q \in [1..n -> MFree(c)] :
                      /\ \A i, j \in 1..n : i < j => q[i] < q[j]
                      /\ \A s \in MFree(c) \ Range(q), i \in 1..n : q[i] < s}
\* ReceiveItems reads the mail; the slots are chosen when the answer comes.
ReceiveItems ==
    \E m \in 1..Len(mails), p \in Postmen :
        LET l == mails[m] IN
        /\ l # NoLetter /\ work[p] = Off
        /\ work' = [work EXCEPT ![p] = Job("read", l.to, Nobody, m, l.items, l.gold)]
        /\ wrong' = IF \E q \in Postmen : work[q].who = l.to THEN wrong \cup {"overlap"} ELSE wrong
        /\ UNCHANGED <<satchel, itemRow, noted, mails, purse, spent, lost>>
ChooseSlots(p) ==
    /\ work[p].op = "read"
    /\ LET c == work[p].who n == Len(work[p].items) IN
          IF Room(c, n) THEN \E q \in FreeSlots(c, n) : work' = [work EXCEPT ![p] = [@ EXCEPT !.op = "give", !.put = q]]
          ELSE work' = [work EXCEPT ![p] = Off]
    /\ UNCHANGED <<satchel, itemRow, noted, mails, purse, spent, lost, wrong>>
\* One item: its row is written, and after the wait it is in the slot.
GiveItem(p) ==
    /\ work[p].op = "give" /\ work[p].items # <<>>
    /\ LET c == work[p].who r == Head(work[p].items) s == Head(work[p].put) IN
          IF itemRow[r] = Removed
          THEN work' = [work EXCEPT ![p] = Off] /\ UNCHANGED <<satchel, itemRow, wrong>>
          ELSE /\ itemRow' = SetRow(r, [owner |-> c, slot |-> s])
               /\ satchel' = [satchel EXCEPT ![c][s] = r]
               /\ wrong' = IF satchel[c][s] # NoneIn THEN wrong \cup {"stale"} ELSE wrong
               /\ work' = [work EXCEPT ![p].items = Tail(@), ![p].put = Tail(@)]
    /\ UNCHANGED <<noted, mails, purse, spent, lost>>
\* Then the gold, and the mail is marked.
MarkReceived(p) ==
    /\ work[p].op = "give" /\ work[p].items = <<>>
    /\ purse' = [purse EXCEPT ![work[p].who] = (@ + work[p].gold) % GoldSize]
    /\ mails' = IF mails[work[p].mail] = NoLetter THEN mails ELSE [mails EXCEPT ![work[p].mail] = Emptied(@)]
    /\ work' = [work EXCEPT ![p] = Off]
    /\ UNCHANGED <<satchel, itemRow, noted, spent, lost, wrong>>
\* DeleteMessageHandler: the rows of its items stay, without an owner.
DeleteMessage ==
    \E m \in 1..Len(mails) :
        /\ mails[m] # NoLetter
        /\ mails' = [mails EXCEPT ![m] = NoLetter]
        /\ lost' = lost \cup Range(mails[m].items)
        /\ spent' = spent + mails[m].gold
        /\ wrong' = IF \E p \in Postmen : work[p].mail = m THEN wrong \cup {"overlap"} ELSE wrong
        /\ UNCHANGED <<satchel, itemRow, noted, purse, work>>

\* The bag changes otherwise: an item moves to a free slot (see Inventory).
MoveInBag ==
    \E c \in MChars : \E s \in MSlots \ MFree(c), t \in MFree(c) :
        /\ satchel' = [satchel EXCEPT ![c][s] = NoneIn, ![c][t] = satchel[c][s]]
        /\ itemRow' = SetRow(satchel[c][s], [owner |-> c, slot |-> t])
        /\ UNCHANGED <<noted, mails, purse, work, spent, lost, wrong>>

MInit ==
    /\ satchel = [c \in MChars |-> [s \in MSlots |->
                    IF \E r \in MRows : Inserted[r] = [owner |-> c, slot |-> s]
                    THEN CHOOSE r \in MRows : Inserted[r] = [owner |-> c, slot |-> s] ELSE NoneIn]]
    /\ itemRow = Inserted
    /\ noted = [c \in MChars |-> <<>>] /\ mails = <<>>
    /\ purse = Purse
    /\ work = [p \in Postmen |-> Off] /\ spent = 0 /\ lost = {} /\ wrong = {}
MNext ==
    \/ ItemAddMessage \/ ItemRemoveMessage \/ OpenMessager \/ SendMessage \/ ReceiveItems \/ DeleteMessage \/ MoveInBag
    \/ \E p \in Postmen : TakeOut(p) \/ PostMail(p) \/ ChooseSlots(p) \/ GiveItem(p) \/ MarkReceived(p)
MSpec == MInit /\ [][MNext]_mvars

---------------------------------------------------------------------------
\* The places an item is at: the slots of the bags and the mails that still
\* hold it.
Places(r) == Cardinality({h \in MChars \X MSlots : satchel[h[1]][h[2]] = r})
             + Cardinality({m \in 1..Len(mails) : r \in Range(mails[m].items)})
Wealth == SumFunction(Contents) + SumFunction(purse)

\* What is sent arrives once: whenever no handler is at work, every item is in
\* one slot of one bag or in one mail that can still be received, or was lost
\* with a deleted or expired mail, and its row says so; and the gold is with
\* the characters, in such mails, or went for commissions.  Unless the sender
\* had not the gold (the items are gone then) or not the commission (its gold
\* wraps), the bag changed after the items were noted, or two handlers of one
\* character ran at once, which the code does not prevent (messange.go
\* 304-473).
MailedOnce ==
    wrong = {} /\ (\A p \in Postmen : work[p] = Off) =>
        /\ \A r \in MRows \ lost : Places(r) = 1
        /\ \A c \in MChars, s \in MSlots : satchel[c][s] # NoneIn => itemRow[satchel[c][s]] = [owner |-> c, slot |-> s]
        /\ \A m \in 1..Len(mails) : \A r \in Range(mails[m].items) : itemRow[r] = Orphan
        /\ Wealth + spent = AllGold
============================================================================
