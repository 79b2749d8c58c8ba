-------------------------- MODULE InventoryProofs --------------------------
(***************************************************************************)
(* A bag, its bank and their rows, for any slots, kinds and handlers.      *)
(* No step of a handler makes or loses a piece, as long as no two handlers *)
(* work on one slot: what a slot is worth is counted, and one that is      *)
(* about to be emptied is worth nothing.                                   *)
(* What a relogin loads is what was there.  The argument: every item that  *)
(* is not in a handler's hands has a row of its own, which its slot may    *)
(* not know yet, and every row has such an item; the row says where the    *)
(* item is and how it is, unless a handler or a goroutine is still to      *)
(* write it; and what a goroutine is to write is of a slot nobody works on.*)
(***************************************************************************)
EXTENDS Inventory, Sums, SequenceTheorems, TLAPS

----------------------------------------------------------------------------
(* The bag and its rows *)

Plain == {"put", "give", "take", "drop", "grade", "save", "insert"}
FirstOnly == {"wipe", "named", "join", "move", "swap", "copy"}
TwoSlots == {"move", "swap", "copy", "join"}
Calls ==
    {c \in [op : Plain \cup FirstOnly, slot : Slots \cup {AnySlot}, with : Slots \cup Kinds \cup {NoKind}, n : Nat] :
        /\ c.slot = AnySlot => c.op \in {"put", "give"}
        /\ c.op \in TwoSlots => c.with \in Slots
        /\ c.op \in {"put", "give"} => c.with \in Kinds
        /\ c.op = "named" => c.n <= MaxRow}
\* What may still be to do: only the first call empties a slot, names a row or needs two slots.
Todos == {todo \in Seq(Calls) : \A i \in 2..Len(todo) : todo[i].op \in Plain}
Records == [slot : Slots \cup {0}, item : Items]
ITypeOK ==
    /\ mem \in [Slots -> Items] /\ owed \in [Kinds -> Int]
    /\ running \in [Runners -> [lock : BOOLEAN, todo : Todos]]
    /\ lastRow \in 0..MaxRow /\ db \in [1..MaxRow -> Records] /\ late \subseteq [slot : Slots, item : Items]
\* Two handlers work on different slots.
Apart == \A g, h \in Runners : g # h => Slotted(running[g].todo) \cap Slotted(running[h].todo) = {}

HeadIs(todo, op, s) == todo # <<>> /\ Head(todo).op = op /\ Head(todo).slot = s
Wiped(s) == \E h \in Runners : HeadIs(running[h].todo, "wipe", s)
\* What is combined is still of one kind.
Joins(todo) ==
    LET c == Head(todo) IN
    todo # <<>> /\ c.op = "join" => Occupied(c.slot) /\ mem[c.slot].kind = mem[c.with].kind
JoinInv == \A h \in Runners : Joins(running[h].todo)
\* What is in a slot that is to be emptied is accounted for as gone.
Worth(k) == [s \in Slots |-> IF mem[s].kind = k /\ ~Wiped(s) THEN mem[s].qty ELSE 0]
LedgerInv == \A k \in Kinds : owed[k] = SumFunction(Worth(k))
Undisturbed == flaw \subseteq {"unsaved"}
NInv == ITypeOK /\ (Undisturbed => Apart /\ JoinInv /\ LedgerInv)

LEMMA CallIs ==
  ASSUME NEW c \in Calls
  PROVE  /\ c.op \in Plain \cup FirstOnly /\ c.slot \in Slots \cup {AnySlot} /\ c.n \in Nat
         /\ c.slot = AnySlot => c.op \in {"put", "give"}
         /\ c.op \in TwoSlots => c.with \in Slots
         /\ c.op \in {"put", "give"} => c.with \in Kinds
         /\ c.op = "named" => c.n <= MaxRow
         /\ SlotsOf(c) \subseteq Slots
         /\ c.slot # AnySlot => c.slot \in SlotsOf(c) /\ c.slot \in Slots
         /\ c.slot = AnySlot => SlotsOf(c) = BagSlots
         /\ c.slot # AnySlot /\ c.op \in TwoSlots => SlotsOf(c) = {c.slot, c.with}
         /\ c.slot # AnySlot /\ c.op \notin TwoSlots => SlotsOf(c) = {c.slot}
  BY SlotAssumption DEF Calls, SlotsOf, TwoSlots, Slots

\* The slots of the calls to come, call by call.
LEMMA SlottedIs ==
  ASSUME NEW todo \in Seq(Calls)
  PROVE  /\ \A s : s \in Slotted(todo) <=> \E i \in 1..Len(todo) : s \in SlotsOf(todo[i])
         /\ Slotted(todo) \subseteq Slots
<1>1. DOMAIN todo = 1..Len(todo) /\ \A i \in 1..Len(todo) : todo[i] \in Calls
  BY LenProperties, ElementOfSeq
<1>2. Range(todo) = {todo[i] : i \in 1..Len(todo)}
  BY <1>1 DEF Range
<1>3. \A s : s \in Slotted(todo) <=> \E i \in 1..Len(todo) : s \in SlotsOf(todo[i])
  BY <1>2 DEF Slotted
<1> QED
  BY <1>1, <1>3, CallIs

LEMMA InRange ==
  ASSUME NEW todo \in Seq(Calls)
  PROVE  Range(todo) = {todo[i] : i \in 1..Len(todo)}
  BY LenProperties DEF Range

\* What is left after the first call, and with another call in its place.
LEMMA TodoIs ==
  ASSUME NEW todo \in Todos, todo # <<>>
  PROVE  /\ Len(todo) \in Nat /\ Len(todo) >= 1 /\ Head(todo) = todo[1] /\ Head(todo) \in Calls
         /\ \A i \in 1..Len(todo) : todo[i] \in Calls
         /\ Tail(todo) \in Todos /\ Len(Tail(todo)) = Len(todo) - 1
         /\ \A i \in 1..Len(Tail(todo)) : Tail(todo)[i] = todo[i + 1] /\ Tail(todo)[i].op \in Plain
<1>1. todo \in Seq(Calls) /\ \A i \in 2..Len(todo) : todo[i].op \in Plain
  BY DEF Todos
<1>2. Len(todo) \in Nat /\ Len(todo) >= 1
  BY <1>1, EmptySeq
<1>3. /\ Head(todo) = todo[1] /\ Head(todo) \in Calls /\ Tail(todo) \in Seq(Calls) /\ Len(Tail(todo)) = Len(todo) - 1
      /\ \A i \in 1..Len(Tail(todo)) : Tail(todo)[i] = todo[i + 1]
  BY <1>1, <1>2, HeadTailProperties
<1>4. \A i \in 1..Len(Tail(todo)) : Tail(todo)[i].op \in Plain
  BY <1>1, <1>2, <1>3
<1>5. \A i \in 1..Len(todo) : todo[i] \in Calls
  BY <1>1, ElementOfSeq
<1>6. Tail(todo) \in Todos
  <2> DEFINE rest == Tail(todo)
  <2>1. rest \in Seq(Calls) /\ \A i \in 2..Len(rest) : rest[i].op \in Plain
    BY <1>2, <1>3, <1>4
  <2> HIDE DEF rest
  <2>2. rest \in Todos
    BY <2>1 DEF Todos
  <2> QED
    BY <2>2 DEF rest
<1> QED
  BY <1>2, <1>3, <1>4, <1>5, <1>6

LEMMA PutFirst ==
  ASSUME NEW todo \in Todos, todo # <<>>, NEW c \in Calls
  PROVE  /\ <<c>> \o Tail(todo) \in Todos /\ Len(<<c>> \o Tail(todo)) = Len(todo)
         /\ <<c>> \o Tail(todo) # <<>> /\ Head(<<c>> \o Tail(todo)) = c /\ (<<c>> \o Tail(todo))[1] = c
         /\ \A i \in 2..Len(todo) : (<<c>> \o Tail(todo))[i] = todo[i]
<1> DEFINE new == <<c>> \o Tail(todo)
<1>1. <<c>> \in Seq(Calls) /\ Len(<<c>>) = 1 /\ <<c>>[1] = c
  OBVIOUS
<1>2. Tail(todo) \in Seq(Calls)
  BY TodoIs DEF Todos
<1>3. /\ new \in Seq(Calls) /\ Len(new) = 1 + Len(Tail(todo))
      /\ \A i \in 1..1 + Len(Tail(todo)) : new[i] = IF i <= 1 THEN <<c>>[i] ELSE Tail(todo)[i - 1]
  BY <1>1, <1>2, ConcatProperties
<1>4. Len(new) = Len(todo) /\ new[1] = c /\ \A i \in 2..Len(todo) : new[i] = todo[i] /\ todo[i].op \in Plain
  BY <1>1, <1>3, TodoIs DEF Todos
<1>5. new # <<>> /\ Head(new) = new[1]
  BY <1>3, <1>4, TodoIs, EmptySeq, HeadTailProperties
<1> QED
  BY <1>3, <1>4, <1>5 DEF Todos

LEMMA NothingTodo == <<>> \in Todos /\ Slotted(<<>>) = {} /\ Len(<<>>) = 0
<1>1. <<>> \in Seq(Calls) /\ Len(<<>>) = 0
  BY EmptySeq
<1>2. \A i \in 2..Len(<<>>) : FALSE
  BY <1>1
<1>3. <<>> \in Todos
  BY <1>1, <1>2 DEF Todos
<1>4. Slotted(<<>>) = {}
  <2> DEFINE none == <<>>
  <2>1. none \in Seq(Calls) /\ Len(none) = 0
    BY <1>1
  <2> HIDE DEF none
  <2>2. \A i \in 1..Len(none) : FALSE
    BY <2>1
  <2>3. \A s : s \in Slotted(none) <=> \E i \in 1..Len(none) : s \in SlotsOf(none[i])
    BY <2>1, SlottedIs
  <2>4. Slotted(none) = {}
    BY <2>2, <2>3
  <2> QED
    BY <2>4 DEF none
<1> QED
  BY <1>1, <1>3, <1>4

\* A handler has its calls to make, the others have theirs.
LEMMA ThenIs ==
  ASSUME ITypeOK, NEW h \in Runners, NEW todo \in Todos, Then(h, todo)
  PROVE  /\ running' \in [Runners -> [lock : BOOLEAN, todo : Todos]]
         /\ running'[h].todo = todo
         /\ \A g \in Runners \ {h} : running'[g] = running[g]
<1>1. CASE todo = <<>>
  <2>1. running' = [running EXCEPT ![h] = Idle]
    BY <1>1 DEF Then
  <2>2. Idle \in [lock : BOOLEAN, todo : Todos] /\ Idle.todo = <<>>
    BY NothingTodo DEF Idle
  <2> QED
    BY <1>1, <2>1, <2>2 DEF ITypeOK
<1>2. CASE todo # <<>>
  <2>1. running' = [running EXCEPT ![h] = [running[h] EXCEPT !.todo = todo]]
    BY <1>2 DEF Then
  <2>2. [running[h] EXCEPT !.todo = todo] \in [lock : BOOLEAN, todo : Todos] /\ [running[h] EXCEPT !.todo = todo].todo = todo
    BY DEF ITypeOK
  <2> QED
    BY <2>1, <2>2 DEF ITypeOK
<1> QED
  BY <1>1, <1>2
\* What a handler has to do after a step: nothing new, and nothing elsewhere.
NoFirst(todo) == todo = <<>> \/ Head(todo).op \in Plain
Goes(todo, next) == next \in Todos /\ Slotted(next) \subseteq Slotted(todo)

LEMMA TailGoes ==
  ASSUME NEW todo \in Todos, todo # <<>>
  PROVE  Goes(todo, Tail(todo)) /\ NoFirst(Tail(todo))
<1> DEFINE rest == Tail(todo)
<1>1. /\ rest \in Todos /\ Len(rest) = Len(todo) - 1 /\ Len(todo) \in Nat
      /\ \A i \in 1..Len(rest) : rest[i] = todo[i + 1] /\ rest[i].op \in Plain
  BY TodoIs
<1>2. rest # <<>> => Len(rest) >= 1 /\ Head(rest) = rest[1]
  BY <1>1, TodoIs
<1>3. ASSUME NEW s \in Slotted(rest) PROVE s \in Slotted(todo)
  <2>1. PICK i \in 1..Len(rest) : s \in SlotsOf(rest[i])
    BY <1>1, SlottedIs DEF Todos
  <2>2. i + 1 \in 1..Len(todo) /\ s \in SlotsOf(todo[i + 1])
    BY <1>1, <2>1
  <2> QED
    BY <2>2, SlottedIs DEF Todos
<1>4. NoFirst(rest)
  BY <1>1, <1>2, SMTT(60) DEF NoFirst
<1> QED
  BY <1>1, <1>3, <1>4 DEF Goes

LEMMA FirstGoes ==
  ASSUME NEW todo \in Todos, todo # <<>>, NEW c \in Calls, SlotsOf(c) \subseteq SlotsOf(Head(todo))
  PROVE  Goes(todo, <<c>> \o Tail(todo))
<1> DEFINE next == <<c>> \o Tail(todo)
<1>1. /\ next \in Todos /\ Len(next) = Len(todo) /\ next[1] = c /\ Len(todo) \in Nat /\ Head(todo) = todo[1] /\ Len(todo) >= 1
      /\ \A i \in 2..Len(todo) : next[i] = todo[i]
  BY PutFirst, TodoIs
<1> HIDE DEF next
<1>2. ASSUME NEW s \in Slotted(next) PROVE s \in Slotted(todo)
  <2>1. PICK i \in 1..Len(next) : s \in SlotsOf(next[i])
    BY <1>1, SlottedIs DEF Todos
  <2>2. i \in 1..Len(todo) /\ s \in SlotsOf(todo[i])
    BY <1>1, <2>1
  <2> QED
    BY <2>2, SlottedIs DEF Todos
<1> QED
  BY <1>1, <1>2 DEF Goes, next

LEMMA NoneGoes == ASSUME NEW todo \in Todos PROVE Goes(todo, <<>>) /\ NoFirst(<<>>)
  BY NothingTodo DEF Goes, NoFirst

LEMMA RemovalsGo ==
  ASSUME NEW todo \in Todos, NEW rest \in Removals(todo)
  PROVE  Goes(todo, rest) /\ NoFirst(rest) /\ \A i \in 1..Len(rest) : rest[i].op = "drop"
<1>1. todo \in Seq(Calls) /\ Len(todo) \in Nat /\ \A i \in 1..Len(todo) : todo[i] \in Calls
  BY LenProperties, ElementOfSeq DEF Todos
<1>2. PICK m \in 1..Len(todo) + 1 : rest = SubSeq(todo, m, Len(todo)) /\ \A j \in 1..Len(todo) : todo[j].op = "drop" <=> j >= m
  BY DEF Removals
<1>3. \A i \in m..Len(todo) : todo[i] \in Calls
  BY <1>1, <1>2
<1>4. /\ rest \in Seq(Calls) /\ Len(rest) = IF m <= Len(todo) THEN Len(todo) - m + 1 ELSE 0
      /\ \A i \in 1..Len(todo) - m + 1 : rest[i] = todo[m + i - 1]
  BY <1>1, <1>2, <1>3, SubSeqProperties
<1>5. \A i \in 1..Len(rest) : m + i - 1 \in 1..Len(todo) /\ rest[i] = todo[m + i - 1] /\ rest[i].op = "drop"
  BY <1>1, <1>2, <1>4
<1>6. rest \in Todos
  BY <1>1, <1>4, <1>5 DEF Todos, Plain
<1>7. ASSUME NEW s \in Slotted(rest) PROVE s \in Slotted(todo)
  <2>1. PICK i \in 1..Len(rest) : s \in SlotsOf(rest[i])
    BY <1>4, SlottedIs
  <2>2. m + i - 1 \in 1..Len(todo) /\ s \in SlotsOf(todo[m + i - 1])
    BY <1>5, <2>1
  <2> QED
    BY <1>1, <2>2, SlottedIs
<1>8. NoFirst(rest)
  BY <1>5, <1>6, TodoIs DEF NoFirst, Plain
<1> QED
  BY <1>5, <1>6, <1>7, <1>8 DEF Goes

\* A step of h leaves the slots of others alone: they are apart as they were.
LEMMA Settles ==
  ASSUME ITypeOK, Apart, JoinInv, NEW h \in Runners, \A g \in Runners \ {h} : running'[g] = running[g],
         Goes(running[h].todo, running'[h].todo), running'[h].todo # <<>> => Head(running'[h].todo).op # "join",
         \A t \in Slots \ Slotted(running[h].todo) : mem'[t] = mem[t]
  PROVE  /\ Apart' /\ JoinInv'
         /\ \A t \in Slots \ Slotted(running[h].todo) : Wiped(t)' <=> Wiped(t)
         /\ \A t \in Slotted(running[h].todo) : /\ Wiped(t) <=> HeadIs(running[h].todo, "wipe", t)
                                                /\ Wiped(t)' <=> HeadIs(running'[h].todo, "wipe", t)
<1> DEFINE old == running[h].todo
           new == running'[h].todo
<1>0. old \in Todos /\ new \in Todos /\ Slotted(new) \subseteq Slotted(old) /\ \A g \in Runners : running[g].todo \in Todos
  BY DEF ITypeOK, Goes
<1>1. \A g \in Runners \ {h} : Slotted(running[g].todo) \cap Slotted(old) = {}
  BY DEF Apart
<1>2. Apart'
  <2> SUFFICES ASSUME NEW g \in Runners, NEW k \in Runners, g # k
               PROVE  Slotted(running'[g].todo) \cap Slotted(running'[k].todo) = {}
    BY DEF Apart
  <2>1. CASE g = h
    BY <1>0, <1>1, <2>1
  <2>2. CASE k = h
    BY <1>0, <1>1, <2>2
  <2>3. CASE g # h /\ k # h
    BY <2>3 DEF Apart
  <2> QED
    BY <2>1, <2>2, <2>3
<1>3. ASSUME NEW g \in Runners, NEW s, running[g].todo # <<>>, s = Head(running[g].todo).slot, Head(running[g].todo).op \in {"wipe", "join"}
      PROVE  s \in Slotted(running[g].todo) /\ (Head(running[g].todo).op = "join" => Head(running[g].todo).with \in Slotted(running[g].todo))
  <2>1. running[g].todo[1] \in Calls /\ Head(running[g].todo) = running[g].todo[1] /\ 1 \in 1..Len(running[g].todo)
    BY <1>0, <1>3, TodoIs
  <2>2. s \in SlotsOf(running[g].todo[1]) /\ (Head(running[g].todo).op = "join" => Head(running[g].todo).with \in SlotsOf(running[g].todo[1]))
    BY <1>3, <2>1, CallIs DEF TwoSlots
  <2> QED
    BY <1>0, <2>1, <2>2, SlottedIs DEF Todos
<1>4. JoinInv'
  <2> SUFFICES ASSUME NEW g \in Runners PROVE Joins(running[g].todo)'
    BY DEF JoinInv
  <2>1. CASE g = h
    BY <2>1 DEF Joins
  <2>2. CASE g # h
    <3> SUFFICES ASSUME running[g].todo # <<>>, Head(running[g].todo).op = "join"
                 PROVE  LET c == Head(running[g].todo) IN mem'[c.slot].kind # NoKind /\ mem'[c.slot].kind = mem'[c.with].kind
      BY <2>2 DEF Joins, Occupied
    <3> DEFINE c == Head(running[g].todo)
    <3>1. c.slot \in Slotted(running[g].todo) /\ c.with \in Slotted(running[g].todo)
      BY <1>3
    <3>2. c.slot \in Slots \ Slotted(old) /\ c.with \in Slots \ Slotted(old)
      BY <1>0, <1>1, <2>2, <3>1, SlottedIs DEF Todos
    <3>3. mem'[c.slot] = mem[c.slot] /\ mem'[c.with] = mem[c.with]
      BY <3>2
    <3>4. Joins(running[g].todo)
      BY DEF JoinInv
    <3> QED
      BY <3>3, <3>4 DEF Joins, Occupied
  <2> QED
    BY <2>1, <2>2
<1>5. \A g \in Runners : \A t : HeadIs(running[g].todo, "wipe", t) => t \in Slotted(running[g].todo)
  BY <1>3 DEF HeadIs
<1>6. \A t : HeadIs(new, "wipe", t) => t \in Slotted(old)
  <2> SUFFICES ASSUME NEW t, HeadIs(new, "wipe", t) PROVE t \in Slotted(new)
    BY <1>0
  <2>1. new[1] \in Calls /\ Head(new) = new[1] /\ 1 \in 1..Len(new) /\ new[1].op = "wipe" /\ new[1].slot = t
    BY <1>0, TodoIs DEF HeadIs
  <2>2. t \in SlotsOf(new[1])
    BY <2>1, CallIs DEF TwoSlots
  <2> QED
    BY <1>0, <2>1, <2>2, SlottedIs DEF Todos
<1>7. \A t \in Slots \ Slotted(old) : Wiped(t)' <=> Wiped(t)
  BY <1>5, <1>6 DEF Wiped
<1>8. \A t \in Slotted(old) : (Wiped(t) <=> HeadIs(old, "wipe", t)) /\ (Wiped(t)' <=> HeadIs(new, "wipe", t))
  BY <1>1, <1>5 DEF Wiped
<1> QED
  BY <1>2, <1>4, <1>7, <1>8
----------------------------------------------------------------------------
(* What the calls do *)

LEMMA EmptyItems == NewSlot \in Items /\ Gone \in Records /\ Gone.slot = 0 /\ NewSlot.kind = NoKind /\ NewSlot.row = 0 /\ NewSlot.qty = 0
  BY BoundAssumption DEF NewSlot, Items, Gone, Records

LEMMA ItemIs ==
  ASSUME NEW i \in Items
  PROVE  i.row \in 0..MaxRow /\ i.kind \in Kinds \cup {NoKind} /\ i.qty \in Nat /\ i.grade \in Nat /\ i.active \in BOOLEAN
  BY DEF Items

LEMMA UpdateIs ==
  ASSUME NEW rows \in [1..MaxRow -> Records], NEW s \in Slots, NEW i \in Items
  PROVE  /\ Update(rows, s, i) \in [1..MaxRow -> Records]
         /\ i.row = 0 => Update(rows, s, i) = rows
         /\ i.row # 0 => /\ i.row \in 1..MaxRow
                         /\ \A r \in 1..MaxRow : Update(rows, s, i)[r] =
                              IF r = i.row /\ rows[r] # Gone THEN [slot |-> s, item |-> i] ELSE rows[r]
<1>1. i.row \in 0..MaxRow /\ MaxRow \in Nat
  BY BoundAssumption, ItemIs
<1>2. [slot |-> s, item |-> i] \in Records
  BY DEF Records
<1>3. CASE i.row # 0 /\ rows[i.row] # Gone
  <2>1. Update(rows, s, i) = [rows EXCEPT ![i.row] = [slot |-> s, item |-> i]]
    BY <1>3 DEF Update
  <2>2. i.row \in 1..MaxRow
    BY <1>1, <1>3
  <2> QED
    BY <1>2, <1>3, <2>1, <2>2
<1>4. CASE ~(i.row # 0 /\ rows[i.row] # Gone)
  <2>1. Update(rows, s, i) = rows
    BY <1>4 DEF Update
  <2> QED
    BY <1>1, <1>4, <2>1
<1> QED
  BY <1>3, <1>4

LEMMA DeleteRowIs ==
  ASSUME NEW rows \in [1..MaxRow -> Records], NEW r \in 0..MaxRow
  PROVE  /\ Delete(rows, r) \in [1..MaxRow -> Records]
         /\ \A q \in 1..MaxRow : Delete(rows, r)[q] = IF q = r THEN Gone ELSE rows[q]
<1>1. MaxRow \in Nat /\ Gone \in Records
  BY BoundAssumption, EmptyItems
<1>2. CASE r = 0
  BY <1>1, <1>2 DEF Delete
<1>3. CASE r # 0
  <2>1. Delete(rows, r) = [rows EXCEPT ![r] = Gone] /\ r \in 1..MaxRow
    BY <1>1, <1>3 DEF Delete
  <2> QED
    BY <1>1, <2>1
<1> QED
  BY <1>2, <1>3

LEMMA WorkingIs ==
  ASSUME ITypeOK, NEW h \in Runners
  PROVE  running[h].todo \in Todos
  BY DEF ITypeOK

\* The ledger, if one slot changes its worth.
LEMMA LedgerOne ==
  ASSUME ITypeOK, ITypeOK', LedgerInv, NEW s \in Slots,
         \A t \in Slots \ {s} : mem'[t].kind = mem[t].kind /\ mem'[t].qty = mem[t].qty /\ (Wiped(t)' <=> Wiped(t)),
         \A k \in Kinds : owed'[k] = (owed[k] - Worth(k)[s]) + Worth(k)'[s]
  PROVE  LedgerInv'
<1> SUFFICES ASSUME NEW k \in Kinds PROVE owed'[k] = SumFunction(Worth(k)')
  BY DEF LedgerInv
<1> DEFINE f == Worth(k)
           g == Worth(k)'
<1>1. IsFiniteSet(Slots)
  BY SlotAssumption DEF Slots
<1>2. \A t \in Slots : mem[t] \in Items /\ mem'[t] \in Items
  BY DEF ITypeOK
<1>3. \A t \in Slots : mem[t].qty \in Nat /\ mem'[t].qty \in Nat
  BY <1>2, ItemIs
<1>4. f \in [Slots -> Nat] /\ g \in [Slots -> Nat]
  BY <1>3 DEF Worth
<1>5. \A t \in Slots \ {s} : f[t] = g[t]
  BY DEF Worth
<1>6. owed[k] = SumFunction(f) /\ owed'[k] = (owed[k] - f[s]) + g[s]
  BY DEF LedgerInv
<1> HIDE DEF f, g
<1>7. SumFunction(g) = (SumFunction(f) - f[s]) + g[s]
  BY <1>1, <1>4, <1>5, OneTerm
<1>8. owed'[k] = SumFunction(g)
  BY <1>6, <1>7
<1> QED
  BY <1>8 DEF g

\* The ledger, if what one slot loses another one gets.
LEMMA LedgerTwo ==
  ASSUME ITypeOK, ITypeOK', LedgerInv, NEW s \in Slots, NEW u \in Slots, s # u,
         \A t \in Slots \ {s, u} : mem'[t].kind = mem[t].kind /\ mem'[t].qty = mem[t].qty /\ (Wiped(t)' <=> Wiped(t)),
         \A k \in Kinds : Worth(k)'[s] + Worth(k)'[u] = Worth(k)[s] + Worth(k)[u] /\ owed'[k] = owed[k]
  PROVE  LedgerInv'
<1> SUFFICES ASSUME NEW k \in Kinds PROVE owed'[k] = SumFunction(Worth(k)')
  BY DEF LedgerInv
<1> DEFINE f == Worth(k)
           g == Worth(k)'
<1>1. IsFiniteSet(Slots)
  BY SlotAssumption DEF Slots
<1>2. \A t \in Slots : mem[t] \in Items /\ mem'[t] \in Items
  BY DEF ITypeOK
<1>3. \A t \in Slots : mem[t].qty \in Nat /\ mem'[t].qty \in Nat
  BY <1>2, ItemIs
<1>4. f \in [Slots -> Nat] /\ g \in [Slots -> Nat]
  BY <1>3 DEF Worth
<1>5. \A t \in Slots \ {s, u} : f[t] = g[t]
  BY DEF Worth
<1>6. owed[k] = SumFunction(f) /\ owed'[k] = owed[k] /\ g[s] + g[u] = f[s] + f[u]
  BY DEF LedgerInv
<1> HIDE DEF f, g
<1>7. SumFunction(g) = SumFunction(f)
  BY <1>1, <1>4, <1>5, <1>6, TwoTerms
<1>8. owed'[k] = SumFunction(g)
  BY <1>6, <1>7
<1> QED
  BY <1>8 DEF g

\* The ledger, if nothing changes that counts.
LEMMA LedgerSame ==
  ASSUME LedgerInv, owed' = owed,
         \A t \in Slots : mem'[t].kind = mem[t].kind /\ mem'[t].qty = mem[t].qty /\ (Wiped(t)' <=> Wiped(t))
  PROVE  LedgerInv'
<1> SUFFICES ASSUME NEW k \in Kinds PROVE owed'[k] = SumFunction(Worth(k)')
  BY DEF LedgerInv
<1>1. Worth(k)' = Worth(k)
  BY DEF Worth
<1> QED
  BY <1>1 DEF LedgerInv
OthersSame(h) == \A g \in Runners \ {h} : running'[g] = running[g]
Mild(todo) == todo # <<>> => Head(todo).op \notin {"wipe", "join"}
\* h goes on with what it had to do; after a wait for the table, with what it was told.
CarriesOn(h) ==
    /\ running' \in [Runners -> [lock : BOOLEAN, todo : Todos]] /\ OthersSame(h)
    /\ Goes(running[h].todo, running'[h].todo)
Tailed(h) == running'[h].todo = Tail(running[h].todo)

LEMMA MildIs == \A todo : NoFirst(todo) => Mild(todo)
  BY DEF NoFirst, Mild, Plain

LEMMA Tails ==
  ASSUME ITypeOK, NEW h \in Runners, running[h].todo # <<>>, Then(h, Tail(running[h].todo))
  PROVE  CarriesOn(h) /\ Tailed(h) /\ NoFirst(running'[h].todo)
<1>1. running[h].todo \in Todos
  BY WorkingIs
<1>2. Tail(running[h].todo) \in Todos /\ Goes(running[h].todo, Tail(running[h].todo)) /\ NoFirst(Tail(running[h].todo))
  BY <1>1, TailGoes DEF Goes
<1> QED
  BY <1>2, ThenIs DEF CarriesOn, Tailed, OthersSame

LEMMA Firsts ==
  ASSUME ITypeOK, NEW h \in Runners, running[h].todo # <<>>, NEW c \in Calls,
         SlotsOf(c) \subseteq SlotsOf(Head(running[h].todo)), Then(h, <<c>> \o Tail(running[h].todo))
  PROVE  /\ CarriesOn(h) /\ running'[h].todo = <<c>> \o Tail(running[h].todo)
         /\ running'[h].todo # <<>> /\ Head(running'[h].todo) = c
<1>1. running[h].todo \in Todos
  BY WorkingIs
<1> DEFINE new == <<c>> \o Tail(running[h].todo)
<1>2. new \in Todos /\ Goes(running[h].todo, new) /\ new # <<>> /\ Head(new) = c
  BY <1>1, FirstGoes, PutFirst DEF Goes
<1> HIDE DEF new
<1>3. Then(h, new)
  BY DEF new
<1>4. CarriesOn(h) /\ running'[h].todo = new
  BY <1>2, <1>3, ThenIs DEF CarriesOn, OthersSame
<1> QED
  BY <1>2, <1>4 DEF new

\* Rows: what a slot without a row is given.
Filed(h, s, i) ==
    /\ i.row = 0 /\ lastRow < MaxRow /\ lastRow' = lastRow + 1
    /\ running'[h].todo = <<Named(s, lastRow + 1)>> \o Tail(running[h].todo)
    /\ \A r \in 1..MaxRow : db'[r] = IF r # lastRow + 1 THEN db[r]
                                     ELSE IF i.kind = NoKind THEN Gone
                                     ELSE [slot |-> s, item |-> [i EXCEPT !.row = lastRow + 1]]
Rewritten(h, s, i) ==
    /\ i.row # 0 /\ lastRow' = lastRow /\ Tailed(h) /\ db' = Update(db, s, i)

LEMMA StoreIs ==
  ASSUME ITypeOK, NEW h \in Runners, running[h].todo # <<>>, NEW s \in Slots, s \in SlotsOf(Head(running[h].todo)),
         NEW i \in Items, Store(h, s, i)
  PROVE  /\ CarriesOn(h) /\ Mild(running'[h].todo) /\ lastRow' \in 0..MaxRow /\ db' \in [1..MaxRow -> Records]
         /\ Filed(h, s, i) \/ Rewritten(h, s, i)
<1>0. MaxRow \in Nat /\ lastRow \in 0..MaxRow /\ db \in [1..MaxRow -> Records]
  BY BoundAssumption DEF ITypeOK
<1>1. CASE i.row # 0
  <2>1. db' = Update(db, s, i) /\ Then(h, Tail(running[h].todo)) /\ lastRow' = lastRow
    BY <1>1 DEF Store
  <2>2. CarriesOn(h) /\ Tailed(h) /\ NoFirst(running'[h].todo)
    BY <2>1, Tails
  <2> QED
    BY <1>0, <1>1, <2>1, <2>2, UpdateIs, MildIs DEF Rewritten
<1>2. CASE i.row = 0
  <2> DEFINE n == lastRow + 1
             c == Named(s, n)
             new == IF i.kind = NoKind THEN Gone ELSE [slot |-> s, item |-> [i EXCEPT !.row = n]]
  <2>1. n \in 1..MaxRow /\ lastRow < MaxRow /\ lastRow' = n /\ db' = [db EXCEPT ![n] = new] /\ Then(h, <<c>> \o Tail(running[h].todo))
    BY <1>0, <1>2 DEF Store
  <2>2. c \in Calls /\ SlotsOf(c) = {s} /\ c.op = "named"
    BY <2>1, SlotAssumption DEF Calls, Named, Call, SlotsOf, FirstOnly, AnySlot, TwoSlots, Slots
  <2>3. CarriesOn(h) /\ running'[h].todo = <<c>> \o Tail(running[h].todo) /\ Mild(running'[h].todo)
    <3> HIDE DEF c
    <3> QED
      BY <2>1, <2>2, Firsts DEF Mild
  <2>4. [i EXCEPT !.row = n] \in Items
    BY <2>1 DEF Items
  <2>5. new \in Records
    BY <2>4, EmptyItems DEF Records
  <2> HIDE DEF new
  <2>6. db' \in [1..MaxRow -> Records] /\ \A r \in 1..MaxRow : db'[r] = IF r # n THEN db[r] ELSE new
    BY <1>0, <2>1, <2>5
  <2>7. Filed(h, s, i)
    BY <1>2, <2>1, <2>3, <2>6 DEF Filed, new
  <2> QED
    BY <2>1, <2>3, <2>6, <2>7
<1> QED
  BY <1>1, <1>2

LEMMA LowestIn ==
  ASSUME NEW S, S \subseteq Slots, S # {}
  PROVE  Lowest(S) \in S
<1>1. S \subseteq Nat
  BY SlotAssumption DEF Slots
<1>2. \E s \in S : \A t \in S : ~(t < s)
  BY <1>1, LeastOf
<1>3. \E s \in S : \A t \in S : s <= t
  BY <1>1, <1>2
<1> QED
  BY <1>3 DEF Lowest

\* AddItem puts the item into a free slot, onto a stack of its kind, or where it was told to.
LEMMA TargetIs ==
  ASSUME NEW c \in Calls, NEW s \in Target(c)
  PROVE  /\ s \in Slots /\ s \in SlotsOf(c)
         /\ c.slot # AnySlot => s = c.slot
         /\ c.slot = AnySlot => ~Occupied(s) \/ mem[s].kind = c.with
<1>1. CASE c.slot # AnySlot
  BY <1>1, CallIs DEF Target
<1>2. CASE c.slot = AnySlot
  <2>1. \/ s = Lowest(FindStackable(c.with)) /\ FindStackable(c.with) # {}
        \/ s = Lowest(FindFreeSlot) /\ FindFreeSlot # {}
    BY <1>2 DEF Target
  <2>2. FindStackable(c.with) \subseteq Slots /\ FindFreeSlot \subseteq Slots
    BY DEF FindStackable, FindFreeSlot, Slots
  <2>3. s \in FindStackable(c.with) \/ s \in FindFreeSlot
    BY <2>1, <2>2, LowestIn
  <2> QED
    BY <1>2, <2>2, <2>3, CallIs DEF FindStackable, FindFreeSlot
<1> QED
  BY <1>1, <1>2
\* h stops, and at most removes what was given to it.
Stopped(h) ==
    /\ mem' = mem /\ db' = db /\ lastRow' = lastRow /\ owed' = owed
    /\ \A i \in 1..Len(running'[h].todo) : running'[h].todo[i].op = "drop"
    /\ (\E i \in 1..Len(running[h].todo) : running[h].todo[i].op = "save") => "unsaved" \in flaw'

LEMMA StopIs ==
  ASSUME ITypeOK, NEW h \in Runners, running[h].todo # <<>>, NEW rest, Goes(running[h].todo, rest), Stop(h, rest),
         \A i \in 1..Len(rest) : rest[i].op = "drop", UNCHANGED <<mem, db, lastRow, owed>>
  PROVE  CarriesOn(h) /\ Stopped(h) /\ flaw \subseteq flaw' /\ Mild(running'[h].todo)
<1>1. running[h].todo \in Todos /\ rest \in Todos
  BY WorkingIs DEF Goes
<1>2. running[h].todo \in Seq(Calls)
  BY <1>1 DEF Todos
<1>3. Then(h, rest) /\ flaw' = IF \E c \in Range(running[h].todo) : c.op = "save" THEN flaw \cup {"unsaved"} ELSE flaw
  BY DEF Stop
<1>4. CarriesOn(h) /\ running'[h].todo = rest
  BY <1>1, <1>3, ThenIs DEF CarriesOn, OthersSame
<1>5. (\E i \in 1..Len(running[h].todo) : running[h].todo[i].op = "save") => "unsaved" \in flaw'
  <2>1. Range(running[h].todo) = {running[h].todo[i] : i \in 1..Len(running[h].todo)}
    BY <1>2, InRange
  <2> QED
    BY <1>3, <2>1
<1>6. Mild(rest)
  <2> SUFFICES ASSUME rest # <<>> PROVE Head(rest).op = "drop"
    BY DEF Mild
  <2> QED
    BY <1>1, TodoIs
<1> QED
  BY <1>3, <1>4, <1>5, <1>6 DEF Stopped

Added(h, c, s, i) ==
    /\ i \in Items /\ i.row = mem[s].row /\ i.kind = c.with /\ i.grade = 0
    /\ i.qty = c.n + (IF c.slot = AnySlot /\ Occupied(s) THEN mem[s].qty ELSE 0)
    /\ mem' = [mem EXCEPT ![s] = i]
    /\ owed' = [owed EXCEPT ![c.with] = @ + c.n]
    /\ c.slot = AnySlot => ~Occupied(s) \/ mem[s].kind = c.with
    /\ c.slot # AnySlot /\ Occupied(s) => "occupied" \in flaw'
    /\ Filed(h, s, i) \/ Rewritten(h, s, i)

LEMMA AddItemIs ==
  ASSUME ITypeOK, NEW h \in Runners, running[h].todo # <<>>, NEW c, c = Head(running[h].todo),
         c.op \in {"put", "give"}, AddItem(h, c)
  PROVE  /\ CarriesOn(h) /\ Mild(running'[h].todo) /\ flaw \subseteq flaw' /\ lastRow' \in 0..MaxRow /\ db' \in [1..MaxRow -> Records]
         /\ Stopped(h) \/ \E s \in Slots, i \in Items : s \in SlotsOf(c) /\ Added(h, c, s, i)
<1>0. running[h].todo \in Todos /\ c \in Calls
  BY WorkingIs, TodoIs
<1>1. CASE /\ Target(c) = {}
           /\ \E rest \in IF c.op = "give" THEN Removals(running[h].todo) ELSE {<<>>} : Stop(h, rest)
           /\ UNCHANGED <<mem, db, lastRow, owed>>
  <2>1. PICK rest \in IF c.op = "give" THEN Removals(running[h].todo) ELSE {<<>>} : Stop(h, rest)
    BY <1>1
  <2>2. Goes(running[h].todo, rest) /\ \A i \in 1..Len(rest) : rest[i].op = "drop"
    <3>1. CASE rest \in Removals(running[h].todo)
      BY <1>0, <3>1, RemovalsGo
    <3>2. CASE rest = <<>>
      <4>1. Goes(running[h].todo, rest) /\ Len(rest) = 0
        BY <1>0, <3>2, NoneGoes, NothingTodo
      <4> QED
        BY <4>1
    <3> QED
      BY <2>1, <3>1, <3>2
  <2> QED
    BY <1>1, <2>1, <2>2, StopIs DEF ITypeOK
<1>2. CASE ~(Target(c) = {} /\ \E rest \in IF c.op = "give" THEN Removals(running[h].todo) ELSE {<<>>} : Stop(h, rest))
  <2>1. PICK s \in Target(c) :
          LET stacked == c.slot = AnySlot /\ Occupied(s)
              i == Item(mem[s].row, c.with, c.n + (IF stacked THEN mem[s].qty ELSE 0), 0, FALSE)
          IN /\ mem' = [mem EXCEPT ![s] = i]
             /\ Store(h, s, i)
             /\ owed' = [owed EXCEPT ![c.with] = @ + c.n]
             /\ flaw' = IF c.slot # AnySlot /\ Occupied(s) THEN flaw \cup {"occupied"} ELSE flaw
    BY <1>2 DEF AddItem
  <2>2. /\ s \in Slots /\ s \in SlotsOf(c) /\ (c.slot = AnySlot => ~Occupied(s) \/ mem[s].kind = c.with)
    BY <1>0, <2>1, TargetIs
  <2> DEFINE n == c.n + (IF c.slot = AnySlot /\ Occupied(s) THEN mem[s].qty ELSE 0)
             i == Item(mem[s].row, c.with, n, 0, FALSE)
  <2>3. mem[s] \in Items
    BY <2>2 DEF ITypeOK
  <2>4. n \in Nat /\ mem[s].row \in 0..MaxRow /\ c.with \in Kinds
    <3>1. c.n \in Nat /\ c.with \in Kinds
      BY <1>0, CallIs
    <3>2. mem[s].qty \in Nat /\ mem[s].row \in 0..MaxRow
      BY <2>3, ItemIs
    <3> QED
      BY <3>1, <3>2
  <2>5. i \in Items /\ i.row = mem[s].row /\ i.kind = c.with /\ i.qty = n /\ i.grade = 0
    BY <2>4 DEF Item, Items
  <2> HIDE DEF i
  <2>6. /\ mem' = [mem EXCEPT ![s] = i] /\ Store(h, s, i) /\ owed' = [owed EXCEPT ![c.with] = @ + c.n]
        /\ flaw' = IF c.slot # AnySlot /\ Occupied(s) THEN flaw \cup {"occupied"} ELSE flaw
    BY <2>1 DEF i
  <2>7. /\ CarriesOn(h) /\ Mild(running'[h].todo) /\ lastRow' \in 0..MaxRow /\ db' \in [1..MaxRow -> Records]
        /\ Filed(h, s, i) \/ Rewritten(h, s, i)
    BY <2>2, <2>5, <2>6, StoreIs
  <2>8. Added(h, c, s, i)
    BY <2>2, <2>5, <2>6, <2>7 DEF Added
  <2> QED
    BY <2>2, <2>5, <2>6, <2>7, <2>8, SMTT(60)
<1> QED
  BY <1>1, <1>2 DEF AddItem
----------------------------------------------------------------------------
(* What the ledger says, step by step *)

LEMMA Undisturbs == ASSUME flaw \subseteq flaw', Undisturbed' PROVE Undisturbed
  BY DEF Undisturbed

LEMMA HeadSlots ==
  ASSUME ITypeOK, NEW h \in Runners, running[h].todo # <<>>
  PROVE  /\ running[h].todo \in Todos /\ Head(running[h].todo) \in Calls
         /\ SlotsOf(Head(running[h].todo)) \subseteq Slotted(running[h].todo)
         /\ Slotted(running[h].todo) \subseteq Slots
<1>1. running[h].todo \in Todos
  BY WorkingIs
<1>2. Head(running[h].todo) = running[h].todo[1] /\ 1 \in 1..Len(running[h].todo) /\ running[h].todo[1] \in Calls
  BY <1>1, TodoIs
<1> QED
  BY <1>1, <1>2, SlottedIs DEF Todos

\* A step after which nothing is to be emptied that was not before.
LEMMA MildStep ==
  ASSUME ITypeOK, Apart, JoinInv, NEW h \in Runners, running[h].todo # <<>>, Head(running[h].todo).op # "wipe",
         CarriesOn(h), Mild(running'[h].todo),
         \A t \in Slots \ Slotted(running[h].todo) : mem'[t] = mem[t]
  PROVE  /\ Apart' /\ JoinInv'
         /\ \A t \in Slots : Wiped(t)' <=> Wiped(t)
         /\ \A t \in Slotted(running[h].todo) : ~Wiped(t)
<1>1. running'[h].todo # <<>> => Head(running'[h].todo).op # "join"
  BY DEF Mild
<1>2. /\ Apart' /\ JoinInv'
      /\ \A t \in Slots \ Slotted(running[h].todo) : Wiped(t)' <=> Wiped(t)
      /\ \A t \in Slotted(running[h].todo) : /\ Wiped(t) <=> HeadIs(running[h].todo, "wipe", t)
                                             /\ Wiped(t)' <=> HeadIs(running'[h].todo, "wipe", t)
  BY <1>1, Settles DEF CarriesOn, OthersSame
<1>3. \A t : ~HeadIs(running[h].todo, "wipe", t) /\ ~HeadIs(running'[h].todo, "wipe", t)
  BY DEF HeadIs, Mild
<1> QED
  BY <1>2, <1>3

\* A step after which slot s is to be emptied.
LEMMA WipeStep ==
  ASSUME ITypeOK, Apart, JoinInv, NEW h \in Runners, running[h].todo # <<>>, Head(running[h].todo).op # "wipe",
         NEW s \in SlotsOf(Head(running[h].todo)),
         CarriesOn(h), running'[h].todo # <<>>, Head(running'[h].todo) = Wipe(s),
         \A t \in Slots \ Slotted(running[h].todo) : mem'[t] = mem[t]
  PROVE  /\ Apart' /\ JoinInv' /\ s \in Slots
         /\ \A t \in Slots \ {s} : Wiped(t)' <=> Wiped(t)
         /\ Wiped(s)' /\ \A t \in Slotted(running[h].todo) : ~Wiped(t)
<1>0. Wipe(s).op = "wipe" /\ Wipe(s).slot = s
  BY DEF Wipe, Call
<1>1. Head(running'[h].todo).op # "join"
  BY <1>0
<1>2. /\ Apart' /\ JoinInv'
      /\ \A t \in Slots \ Slotted(running[h].todo) : Wiped(t)' <=> Wiped(t)
      /\ \A t \in Slotted(running[h].todo) : /\ Wiped(t) <=> HeadIs(running[h].todo, "wipe", t)
                                             /\ Wiped(t)' <=> HeadIs(running'[h].todo, "wipe", t)
  BY <1>1, Settles DEF CarriesOn, OthersSame
<1>3. \A t : ~HeadIs(running[h].todo, "wipe", t) /\ (HeadIs(running'[h].todo, "wipe", t) <=> t = s)
  BY <1>0 DEF HeadIs
<1>4. s \in Slotted(running[h].todo) /\ s \in Slots
  BY HeadSlots
<1> QED
  BY <1>2, <1>3, <1>4

LEMMA AddN ==
  ASSUME NInv, NEW h \in Runners, running[h].todo # <<>>, NEW c, c = Head(running[h].todo),
         c.op \in {"put", "give"}, AddItem(h, c), late' = late
  PROVE  NInv' /\ flaw \subseteq flaw'
<1>0. ITypeOK /\ c \in Calls /\ c.n \in Nat /\ c.with \in Kinds
  <2>1. ITypeOK
    BY DEF NInv
  <2>2. running[h].todo \in Todos
    BY <2>1, WorkingIs
  <2>3. c \in Calls
    BY <2>2, TodoIs
  <2> QED
    BY <2>1, <2>3, CallIs
<1>1. /\ CarriesOn(h) /\ Mild(running'[h].todo) /\ flaw \subseteq flaw' /\ lastRow' \in 0..MaxRow /\ db' \in [1..MaxRow -> Records]
      /\ Stopped(h) \/ \E s \in Slots, i \in Items : s \in SlotsOf(c) /\ Added(h, c, s, i)
  BY <1>0, AddItemIs
<1>2. CASE Stopped(h)
  <2>1. ITypeOK'
    BY <1>0, <1>1, <1>2 DEF ITypeOK, Stopped, CarriesOn
  <2>2. ASSUME Undisturbed' PROVE Apart' /\ JoinInv' /\ LedgerInv'
    <3>1. Apart /\ JoinInv /\ LedgerInv
      BY <1>1, <2>2, Undisturbs DEF NInv
    <3>2. mem' = mem /\ owed' = owed
      BY <1>2 DEF Stopped
    <3>3. Apart' /\ JoinInv' /\ \A t \in Slots : Wiped(t)' <=> Wiped(t)
      BY <1>0, <1>1, <3>1, <3>2, MildStep
    <3>4. LedgerInv'
      BY <3>1, <3>2, <3>3, LedgerSame
    <3> QED
      BY <3>3, <3>4
  <2> QED
    BY <1>1, <2>1, <2>2 DEF NInv
<1>3. ASSUME NEW s \in Slots, NEW i \in Items, s \in SlotsOf(c), Added(h, c, s, i) PROVE NInv'
  <2>1. mem' = [mem EXCEPT ![s] = i] /\ owed' = [owed EXCEPT ![c.with] = @ + c.n]
    BY <1>3 DEF Added
  <2>2. ITypeOK'
    BY <1>0, <1>1, <1>3, <2>1 DEF ITypeOK, CarriesOn
  <2>3. ASSUME Undisturbed' PROVE Apart' /\ JoinInv' /\ LedgerInv'
    <3>1. Apart /\ JoinInv /\ LedgerInv
      BY <1>1, <2>3, Undisturbs DEF NInv
    <3>2. s \in Slotted(running[h].todo)
      BY <1>0, <1>3, HeadSlots
    <3>3. mem'[s] = i /\ \A t \in Slots \ {s} : mem'[t] = mem[t]
      BY <1>0, <2>1 DEF ITypeOK
    <3>4. Apart' /\ JoinInv' /\ (\A t \in Slots : Wiped(t)' <=> Wiped(t)) /\ ~Wiped(s)
      BY <1>0, <1>1, <3>1, <3>2, <3>3, MildStep
    <3>5. c.slot # AnySlot => ~Occupied(s)
      BY <1>3, <2>3 DEF Added, Undisturbed
    <3>6. ASSUME NEW k \in Kinds PROVE owed'[k] = (owed[k] - Worth(k)[s]) + Worth(k)'[s]
      <4>1. /\ i.kind = c.with /\ i.qty = c.n + (IF c.slot = AnySlot /\ Occupied(s) THEN mem[s].qty ELSE 0)
            /\ c.slot = AnySlot => ~Occupied(s) \/ mem[s].kind = c.with
        BY <1>3 DEF Added
      <4>2. Worth(k)[s] = (IF mem[s].kind = k THEN mem[s].qty ELSE 0) /\ Worth(k)'[s] = IF i.kind = k THEN i.qty ELSE 0
        BY <3>3, <3>4 DEF Worth
      <4>3. owed'[k] = (IF c.with = k THEN owed[k] + c.n ELSE owed[k]) /\ owed[k] \in Int /\ mem[s].qty \in Nat
        <5>1. mem[s] \in Items
          BY <1>0 DEF ITypeOK
        <5> QED
          BY <1>0, <2>1, <5>1, ItemIs DEF ITypeOK
      <4>4. ~Occupied(s) => mem[s].kind # k
        BY KindAssumption DEF Occupied
      <4>5. Occupied(s) => c.slot = AnySlot /\ mem[s].kind = c.with /\ i.qty = c.n + mem[s].qty
        BY <3>5, <4>1
      <4>6. ~Occupied(s) => i.qty = c.n
        BY <1>0, <4>1
      <4> QED
        BY <1>0, <4>1, <4>2, <4>3, <4>4, <4>5, <4>6
    <3>7. LedgerInv'
      BY <1>0, <2>2, <3>1, <3>3, <3>4, <3>6, LedgerOne
    <3> QED
      BY <3>4, <3>7
  <2> QED
    BY <2>2, <2>3 DEF NInv
<1> QED
  BY <1>1, <1>2, <1>3
Less(i, n) == [i EXCEPT !.qty = @ - n]
LEMMA LessIs ==
  ASSUME NEW i \in Items, NEW n \in Nat, n <= i.qty
  PROVE  /\ Less(i, n) \in Items /\ Less(i, n).kind = i.kind /\ Less(i, n).row = i.row /\ Less(i, n).qty = i.qty - n
         /\ Less(i, n).qty \in Nat
<1>1. i.qty \in Nat /\ i.qty - n \in Nat
  BY ItemIs
<1> QED
  BY <1>1 DEF Less, Items

Lessened(h, s, n) ==
    /\ Occupied(s) /\ n <= mem[s].qty /\ n \in Nat /\ lastRow' = lastRow /\ flaw' = flaw
    /\ mem' = [mem EXCEPT ![s] = Less(mem[s], n)]
    /\ owed' = [owed EXCEPT ![mem[s].kind] = @ - n]
    /\ \/ /\ n = mem[s].qty /\ db' = Delete(db, mem[s].row)
          /\ running'[h].todo = <<Wipe(s)>> \o Tail(running[h].todo)
          /\ running'[h].todo # <<>> /\ Head(running'[h].todo) = Wipe(s)
       \/ /\ n # mem[s].qty /\ db' = Update(db, s, Less(mem[s], n))
          /\ Tailed(h) /\ Mild(running'[h].todo)

LEMMA WipeCall ==
  ASSUME NEW s \in Slots
  PROVE  Wipe(s) \in Calls /\ SlotsOf(Wipe(s)) = {s}
  BY SlotAssumption DEF Wipe, Call, Calls, SlotsOf, FirstOnly, AnySlot, TwoSlots, Slots

LEMMA DecrementIs ==
  ASSUME ITypeOK, NEW h \in Runners, running[h].todo # <<>>, NEW c, c = Head(running[h].todo),
         c.op = "take", DecrementItem(h, c)
  PROVE  /\ CarriesOn(h) /\ flaw \subseteq flaw' /\ lastRow' \in 0..MaxRow /\ db' \in [1..MaxRow -> Records]
         /\ (Stopped(h) /\ Mild(running'[h].todo) /\ (~Occupied(c.slot) \/ ~(c.n <= mem[c.slot].qty))) \/ Lessened(h, c.slot, c.n)
<1> DEFINE s == c.slot
           n == c.n
<1>0. running[h].todo \in Todos /\ c \in Calls /\ s \in Slots /\ n \in Nat /\ SlotsOf(c) = {s}
  <2>1. running[h].todo \in Todos
    BY WorkingIs
  <2>2. c \in Calls
    BY <2>1, TodoIs
  <2>3. s # AnySlot
    BY <2>2, CallIs
  <2> QED
    BY <2>1, <2>2, <2>3, CallIs DEF TwoSlots
<1>1. mem[s] \in Items /\ mem[s].qty \in Nat /\ mem[s].row \in 0..MaxRow /\ db \in [1..MaxRow -> Records] /\ lastRow \in 0..MaxRow
  <2>1. mem[s] \in Items
    BY <1>0 DEF ITypeOK
  <2> QED
    BY <2>1, ItemIs DEF ITypeOK
<1>2. CASE ~Occupied(s) \/ mem[s].qty < n
  <2>1. Stop(h, <<>>) /\ UNCHANGED <<mem, db, lastRow, owed>>
    BY <1>2, ZenonT(60) DEF DecrementItem
  <2>2. Goes(running[h].todo, <<>>) /\ \A i \in 1..Len(<<>>) : <<>>[i].op = "drop"
    BY <1>0, NoneGoes, NothingTodo
  <2> DEFINE none == <<>>
  <2>3. Goes(running[h].todo, none) /\ (\A i \in 1..Len(none) : none[i].op = "drop") /\ Stop(h, none)
    BY <2>1, <2>2
  <2> HIDE DEF none
  <2>4. CarriesOn(h) /\ Stopped(h) /\ flaw \subseteq flaw' /\ Mild(running'[h].todo)
    BY <2>1, <2>3, StopIs
  <2> QED
    BY <1>1, <1>2, <1>0, <2>1, <2>4, SMTT(60)
<1>3. CASE ~(~Occupied(s) \/ mem[s].qty < n)
  <2> DEFINE i == Less(mem[s], n)
  <2>0. n <= mem[s].qty /\ Occupied(s)
    BY <1>0, <1>1, <1>3, SMTT(60)
  <2>1. /\ mem' = [mem EXCEPT ![s] = i] /\ owed' = [owed EXCEPT ![i.kind] = @ - n] /\ UNCHANGED <<lastRow, flaw>>
        /\ IF n = mem[s].qty
           THEN db' = Delete(db, i.row) /\ Then(h, <<Wipe(s)>> \o Tail(running[h].todo))
           ELSE db' = Update(db, s, i) /\ Then(h, Tail(running[h].todo))
    BY <1>3, ZenonT(60) DEF DecrementItem, Less
  <2>2. i \in Items /\ i.kind = mem[s].kind /\ i.row = mem[s].row
    BY <1>0, <1>1, <2>0, LessIs, SMTT(60)
  <2> HIDE DEF i
  <2>9. /\ mem' = [mem EXCEPT ![s] = Less(mem[s], n)] /\ owed' = [owed EXCEPT ![mem[s].kind] = @ - n]
        /\ lastRow' = lastRow /\ flaw' = flaw
    BY <2>1, <2>2, ZenonT(60) DEF i
  <2>3. CASE n = mem[s].qty
    <3>1. /\ CarriesOn(h) /\ running'[h].todo = <<Wipe(s)>> \o Tail(running[h].todo)
          /\ running'[h].todo # <<>> /\ Head(running'[h].todo) = Wipe(s)
      <4> DEFINE w == Wipe(s)
      <4>1. w \in Calls /\ SlotsOf(w) \subseteq SlotsOf(Head(running[h].todo)) /\ Then(h, <<w>> \o Tail(running[h].todo))
        BY <1>0, <2>1, <2>3, WipeCall
      <4> HIDE DEF w
      <4>2. /\ CarriesOn(h) /\ running'[h].todo = <<w>> \o Tail(running[h].todo)
            /\ running'[h].todo # <<>> /\ Head(running'[h].todo) = w
        BY <4>1, Firsts, SMTT(60)
      <4> QED
        BY <4>2 DEF w
    <3>2. db' = Delete(db, mem[s].row)
      BY <2>1, <2>2, <2>3, ZenonT(60)
    <3>3. db' \in [1..MaxRow -> Records]
      BY <1>1, <3>2, DeleteRowIs, SMTT(60)
    <3>4. Lessened(h, s, n)
      BY <1>0, <2>0, <2>3, <2>9, <3>1, <3>2, ZenonT(60) DEF Lessened
    <3> QED
      BY <1>1, <2>1, <3>1, <3>3, <3>4
  <2>4. CASE n # mem[s].qty
    <3>1. CarriesOn(h) /\ Tailed(h) /\ Mild(running'[h].todo)
      BY <2>1, <2>4, Tails, MildIs
    <3>2. db' = Update(db, s, i)
      BY <2>1, <2>4, SMTT(60)
    <3>3. db' \in [1..MaxRow -> Records]
      BY <1>0, <1>1, <2>2, <3>2, UpdateIs, ZenonT(60)
    <3>4. db' = Update(db, s, Less(mem[s], n))
      BY <3>2 DEF i
    <3>5. Lessened(h, s, n)
      BY <1>0, <2>0, <2>4, <2>9, <3>1, <3>4, ZenonT(60) DEF Lessened
    <3> QED
      BY <1>1, <2>1, <3>1, <3>3, <3>5
  <2> QED
    BY <2>3, <2>4
<1> QED
  BY <1>2, <1>3

LEMMA StoppedN ==
  ASSUME NInv, NEW h \in Runners, running[h].todo # <<>>, Head(running[h].todo).op # "wipe",
         CarriesOn(h), Stopped(h), Mild(running'[h].todo), flaw \subseteq flaw', late' = late
  PROVE  NInv'
<1>0. ITypeOK /\ mem' = mem /\ owed' = owed
  BY DEF NInv, Stopped
<1>1. ITypeOK'
  BY <1>0 DEF ITypeOK, Stopped, CarriesOn
<1>2. ASSUME Undisturbed' PROVE Apart' /\ JoinInv' /\ LedgerInv'
  <2>1. Apart /\ JoinInv /\ LedgerInv
    BY <1>2, Undisturbs DEF NInv
  <2>2. Apart' /\ JoinInv' /\ \A t \in Slots : Wiped(t)' <=> Wiped(t)
    BY <1>0, <2>1, MildStep
  <2>3. LedgerInv'
    BY <1>0, <2>1, <2>2, LedgerSame
  <2> QED
    BY <2>2, <2>3
<1> QED
  BY <1>1, <1>2 DEF NInv

LEMMA TakeN ==
  ASSUME NInv, NEW h \in Runners, running[h].todo # <<>>, NEW c, c = Head(running[h].todo),
         c.op = "take", DecrementItem(h, c), late' = late
  PROVE  NInv' /\ flaw \subseteq flaw'
<1> DEFINE s == c.slot
           n == c.n
<1>0. ITypeOK /\ c \in Calls /\ s \in Slots /\ s \in SlotsOf(c)
  <2>1. ITypeOK
    BY DEF NInv
  <2>2. c \in Calls
    BY <2>1, HeadSlots
  <2>3. s # AnySlot
    BY <2>2, CallIs
  <2> QED
    BY <2>1, <2>2, <2>3, CallIs
<1>1. /\ CarriesOn(h) /\ flaw \subseteq flaw' /\ lastRow' \in 0..MaxRow /\ db' \in [1..MaxRow -> Records]
      /\ (Stopped(h) /\ Mild(running'[h].todo)) \/ Lessened(h, s, n)
  BY <1>0, DecrementIs
<1>2. CASE Stopped(h) /\ Mild(running'[h].todo)
  BY <1>1, <1>2, StoppedN
<1>3. CASE Lessened(h, s, n)
  <2>0. /\ n <= mem[s].qty /\ n \in Nat
        /\ mem' = [mem EXCEPT ![s] = Less(mem[s], n)] /\ owed' = [owed EXCEPT ![mem[s].kind] = @ - n]
    BY <1>3, ZenonT(60) DEF Lessened
  <2>1. mem[s] \in Items /\ mem[s].qty \in Nat
    <3>1. mem[s] \in Items
      BY <1>0, SMTT(60) DEF ITypeOK
    <3> QED
      BY <3>1, ItemIs
  <2>2. Less(mem[s], n) \in Items /\ Less(mem[s], n).kind = mem[s].kind /\ Less(mem[s], n).qty = mem[s].qty - n
    BY <2>0, <2>1, LessIs, SMTT(60)
  <2>3. /\ owed' \in [Kinds -> Int] /\ \A k \in Kinds : owed'[k] = IF mem[s].kind = k THEN owed[k] - n ELSE owed[k]
        /\ mem' \in [Slots -> Items]
    <3>1. \A k \in Kinds : owed[k] \in Int /\ owed[k] - n \in Int
      BY <1>0, <2>0 DEF ITypeOK
    <3>2. owed \in [Kinds -> Int] /\ mem \in [Slots -> Items]
      BY <1>0, SMTT(60) DEF ITypeOK
    <3>3. owed' \in [Kinds -> Int] /\ \A k \in Kinds : owed'[k] = IF mem[s].kind = k THEN owed[k] - n ELSE owed[k]
      BY <2>0, <3>1, <3>2, ZenonT(60)
    <3> QED
      BY <1>0, <2>0, <2>2, <3>2, <3>3, ZenonT(60)
  <2>4. /\ mem'[s].kind = mem[s].kind /\ mem'[s].qty = mem[s].qty - n
        /\ \A t \in Slots \ {s} : mem'[t] = mem[t]
    BY <1>0, <2>0, <2>2, ZenonT(60) DEF ITypeOK
  <2>5. ITypeOK'
    BY <1>0, <1>1, <2>3 DEF ITypeOK, CarriesOn
  <2>6. ASSUME Undisturbed' PROVE Apart' /\ JoinInv' /\ LedgerInv'
    <3>1. Apart /\ JoinInv /\ LedgerInv
      BY <1>1, <2>6, Undisturbs DEF NInv
    <3>2. s \in Slotted(running[h].todo)
      BY <1>0, HeadSlots
    <3>3. /\ Apart' /\ JoinInv' /\ (\A t \in Slots \ {s} : Wiped(t)' <=> Wiped(t)) /\ ~Wiped(s)
          /\ Wiped(s)' => n = mem[s].qty
      <4>1. CASE n = mem[s].qty
        <5>1. running'[h].todo # <<>> /\ Head(running'[h].todo) = Wipe(s)
          BY <1>3, <4>1, ZenonT(60) DEF Lessened
        <5> QED
          BY <1>0, <1>1, <2>4, <3>1, <3>2, <4>1, <5>1, WipeStep, SMTT(60)
      <4>2. CASE n # mem[s].qty
        <5>1. Mild(running'[h].todo)
          BY <1>3, <4>2, ZenonT(60) DEF Lessened
        <5> QED
          BY <1>0, <1>1, <2>4, <3>1, <3>2, <5>1, MildStep, SMTT(60)
      <4> QED
        BY <4>1, <4>2, SMTT(60)
    <3>4. ASSUME NEW k \in Kinds PROVE owed'[k] = (owed[k] - Worth(k)[s]) + Worth(k)'[s]
      <4>1. Worth(k)[s] = IF mem[s].kind = k THEN mem[s].qty ELSE 0
        BY <1>0, <3>3 DEF Worth
      <4>2. Worth(k)'[s] = IF mem[s].kind = k THEN mem[s].qty - n ELSE 0
        <5>1. Worth(k)'[s] = IF mem'[s].kind = k /\ ~Wiped(s)' THEN mem'[s].qty ELSE 0
          BY <1>0 DEF Worth
        <5>2. CASE Wiped(s)'
          <6>1. n = mem[s].qty /\ mem[s].qty - n = 0
            BY <2>1, <3>3, <5>2
          <6> QED
            BY <5>1, <5>2, <6>1
        <5>3. CASE ~Wiped(s)'
          BY <2>4, <5>1, <5>3
        <5> QED
          BY <5>2, <5>3
      <4>3. owed'[k] = (IF mem[s].kind = k THEN owed[k] - n ELSE owed[k]) /\ owed[k] \in Int
        BY <1>0, <2>3 DEF ITypeOK
      <4>4. CASE mem[s].kind = k
        <5>1. owed'[k] = owed[k] - n /\ Worth(k)[s] = mem[s].qty /\ Worth(k)'[s] = mem[s].qty - n
          BY <4>1, <4>2, <4>3, <4>4
        <5> HIDE DEF n, s
        <5> QED
          BY <2>0, <2>1, <4>3, <5>1
      <4>5. CASE mem[s].kind # k
        <5>1. owed'[k] = owed[k] /\ Worth(k)[s] = 0 /\ Worth(k)'[s] = 0
          BY <4>1, <4>2, <4>3, <4>5, SMTT(60)
        <5> QED
          BY <4>3, <5>1
      <4> QED
        BY <4>4, <4>5
    <3>5. LedgerInv'
      BY <1>0, <2>4, <2>5, <3>1, <3>3, <3>4, LedgerOne
    <3> QED
      BY <3>3, <3>5
  <2> QED
    BY <1>1, <2>5, <2>6, SMTT(60) DEF NInv
<1> QED
  BY <1>1, <1>2, <1>3
LEMMA SingleSlot ==
  ASSUME ITypeOK, NEW h \in Runners, running[h].todo # <<>>, NEW c, c = Head(running[h].todo), c.op \notin {"put", "give"}
  PROVE  /\ c \in Calls /\ c.slot \in Slots /\ c.slot \in SlotsOf(c) /\ c.slot \in Slotted(running[h].todo) /\ c.n \in Nat
         /\ c.op \in TwoSlots => c.with \in Slots /\ c.with \in SlotsOf(c) /\ c.with \in Slotted(running[h].todo)
         /\ mem[c.slot] \in Items /\ mem[c.slot].qty \in Nat /\ mem[c.slot].row \in 0..MaxRow /\ mem[c.slot].kind \in Kinds \cup {NoKind}
         /\ db \in [1..MaxRow -> Records] /\ lastRow \in 0..MaxRow
<1>1. c \in Calls /\ SlotsOf(c) \subseteq Slotted(running[h].todo)
  BY HeadSlots
<1>2. c.slot # AnySlot
  BY <1>1, CallIs
<1>3. /\ c.slot \in Slots /\ c.slot \in SlotsOf(c) /\ c.n \in Nat
      /\ c.op \in TwoSlots => c.with \in Slots /\ c.with \in SlotsOf(c)
  BY <1>1, <1>2, CallIs
<1>4. mem[c.slot] \in Items
  BY <1>3 DEF ITypeOK
<1> QED
  BY <1>1, <1>3, <1>4, ItemIs DEF ITypeOK

\* The slot is to be emptied next.
LEMMA WipeNext ==
  ASSUME ITypeOK, NEW h \in Runners, running[h].todo # <<>>, NEW s \in Slots, s \in SlotsOf(Head(running[h].todo)),
         Then(h, <<Wipe(s)>> \o Tail(running[h].todo))
  PROVE  /\ CarriesOn(h) /\ running'[h].todo = <<Wipe(s)>> \o Tail(running[h].todo)
         /\ running'[h].todo # <<>> /\ Head(running'[h].todo) = Wipe(s)
<1> DEFINE w == Wipe(s)
<1>1. w \in Calls /\ SlotsOf(w) \subseteq SlotsOf(Head(running[h].todo)) /\ Then(h, <<w>> \o Tail(running[h].todo))
  BY WipeCall
<1> HIDE DEF w
<1>2. /\ CarriesOn(h) /\ running'[h].todo = <<w>> \o Tail(running[h].todo)
      /\ running'[h].todo # <<>> /\ Head(running'[h].todo) = w
  BY <1>1, Firsts, SMTT(60)
<1> QED
  BY <1>2 DEF w

LEMMA DropN ==
  ASSUME NInv, NEW h \in Runners, running[h].todo # <<>>, NEW c, c = Head(running[h].todo),
         c.op = "drop", RemoveItem(h, c), late' = late
  PROVE  NInv' /\ flaw \subseteq flaw'
<1> DEFINE s == c.slot
<1>0. ITypeOK
  BY DEF NInv
<1>1. /\ c \in Calls /\ s \in Slots /\ s \in SlotsOf(c) /\ s \in Slotted(running[h].todo)
      /\ mem[s] \in Items /\ mem[s].qty \in Nat /\ mem[s].row \in 0..MaxRow /\ mem[s].kind \in Kinds \cup {NoKind}
      /\ db \in [1..MaxRow -> Records] /\ lastRow \in 0..MaxRow
  BY <1>0, SingleSlot, SMTT(60)
<1>2. /\ db' = Delete(db, mem[s].row) /\ Then(h, <<Wipe(s)>> \o Tail(running[h].todo)) /\ mem' = mem /\ lastRow' = lastRow /\ flaw' = flaw
      /\ owed' = IF Occupied(s) THEN [owed EXCEPT ![mem[s].kind] = @ - mem[s].qty] ELSE owed
  BY ZenonT(60) DEF RemoveItem
<1>3. CarriesOn(h) /\ running'[h].todo # <<>> /\ Head(running'[h].todo) = Wipe(s)
  BY <1>0, <1>1, <1>2, WipeNext, ZenonT(60)
<1>4. db' \in [1..MaxRow -> Records]
  BY <1>1, <1>2, DeleteRowIs, ZenonT(60)
<1>5. owed' \in [Kinds -> Int] /\ \A k \in Kinds : owed'[k] = IF mem[s].kind = k THEN owed[k] - mem[s].qty ELSE owed[k]
  <2>1. \A k \in Kinds : owed[k] \in Int /\ owed[k] - mem[s].qty \in Int
    BY <1>0, <1>1, SMTT(60) DEF ITypeOK
  <2>2. owed \in [Kinds -> Int]
    BY <1>0 DEF ITypeOK
  <2>3. CASE Occupied(s)
    <3>1. owed' = [owed EXCEPT ![mem[s].kind] = @ - mem[s].qty]
      BY <1>2, <2>3, ZenonT(60)
    <3> QED
      BY <2>1, <2>2, <3>1, ZenonT(60)
  <2>4. CASE ~Occupied(s)
    <3>1. owed' = owed /\ mem[s].kind \notin Kinds
      BY <1>2, <2>4, KindAssumption, SMTT(60) DEF Occupied
    <3> QED
      BY <2>2, <3>1
  <2> QED
    BY <2>3, <2>4
<1>6. ITypeOK'
  BY <1>0, <1>1, <1>2, <1>3, <1>4, <1>5, ZenonT(60) DEF ITypeOK, CarriesOn
<1>7. ASSUME Undisturbed' PROVE Apart' /\ JoinInv' /\ LedgerInv'
  <2>1. Apart /\ JoinInv /\ LedgerInv
    BY <1>2, <1>7, Undisturbs, ZenonT(60) DEF NInv
  <2>2. /\ Apart' /\ JoinInv' /\ (\A t \in Slots \ {s} : Wiped(t)' <=> Wiped(t)) /\ Wiped(s)' /\ ~Wiped(s)
    BY <1>0, <1>1, <1>2, <1>3, <2>1, WipeStep, ZenonT(60)
  <2>3. ASSUME NEW k \in Kinds PROVE owed'[k] = (owed[k] - Worth(k)[s]) + Worth(k)'[s]
    <3>1. Worth(k)[s] = IF mem[s].kind = k THEN mem[s].qty ELSE 0
      BY <1>1, <2>2 DEF Worth
    <3>2. Worth(k)'[s] = 0
      BY <1>1, <2>2 DEF Worth
    <3>3. owed[k] \in Int /\ owed'[k] = IF mem[s].kind = k THEN owed[k] - mem[s].qty ELSE owed[k]
      BY <1>0, <1>5 DEF ITypeOK
    <3> HIDE DEF s
    <3>4. CASE mem[s].kind = k
      BY <1>1, <3>1, <3>2, <3>3, <3>4
    <3>5. CASE mem[s].kind # k
      BY <3>1, <3>2, <3>3, <3>5, SMTT(60)
    <3> QED
      BY <3>4, <3>5
  <2>4. LedgerInv'
    BY <1>0, <1>1, <1>2, <1>6, <2>1, <2>2, <2>3, LedgerOne, ZenonT(60)
  <2> QED
    BY <2>2, <2>4, SMTT(60)
<1> QED
  BY <1>2, <1>6, <1>7, ZenonT(60) DEF NInv

LEMMA WaitN ==
  ASSUME NInv, NEW h \in Runners, running[h].todo # <<>>, NEW c, c = Head(running[h].todo),
         c.op \in {"wipe", "named"}, AfterWait(h, c), late' = late
  PROVE  NInv' /\ flaw \subseteq flaw'
<1> DEFINE s == c.slot
<1>0. ITypeOK
  BY DEF NInv
<1>1. /\ c \in Calls /\ s \in Slots /\ s \in SlotsOf(c) /\ s \in Slotted(running[h].todo) /\ mem[s] \in Items
  BY <1>0, SingleSlot
<1>2. /\ mem' = (IF c.op = "wipe" THEN [mem EXCEPT ![s] = NewSlot] ELSE [mem EXCEPT ![s].row = c.n])
      /\ Then(h, Tail(running[h].todo)) /\ db' = db /\ lastRow' = lastRow /\ owed' = owed /\ flaw' = flaw
  BY DEF AfterWait
<1>3. CarriesOn(h) /\ NoFirst(running'[h].todo) /\ Mild(running'[h].todo)
  BY <1>0, <1>2, Tails, MildIs
<1>4. CASE c.op = "wipe"
  <2>1. mem' \in [Slots -> Items] /\ mem'[s] = NewSlot /\ \A t \in Slots \ {s} : mem'[t] = mem[t]
    BY <1>0, <1>1, <1>2, <1>4, EmptyItems DEF ITypeOK
  <2>2. ITypeOK'
    BY <1>0, <1>2, <1>3, <2>1 DEF ITypeOK, CarriesOn
  <2>3. ASSUME Undisturbed' PROVE Apart' /\ JoinInv' /\ LedgerInv'
    <3>1. Apart /\ JoinInv /\ LedgerInv
      BY <1>2, <2>3, Undisturbs DEF NInv
    <3>2. /\ Apart' /\ JoinInv'
          /\ \A t \in Slots \ Slotted(running[h].todo) : Wiped(t)' <=> Wiped(t)
          /\ \A t \in Slotted(running[h].todo) : /\ Wiped(t) <=> HeadIs(running[h].todo, "wipe", t)
                                                 /\ Wiped(t)' <=> HeadIs(running'[h].todo, "wipe", t)
      BY <1>0, <1>1, <1>3, <2>1, <3>1, Settles DEF CarriesOn, OthersSame, Mild
    <3>3. \A t : (HeadIs(running[h].todo, "wipe", t) <=> t = s) /\ ~HeadIs(running'[h].todo, "wipe", t)
      BY <1>3, <1>4 DEF HeadIs, Mild
    <3>4. Wiped(s) /\ \A t \in Slots \ {s} : Wiped(t)' <=> Wiped(t)
      BY <1>1, <3>2, <3>3
    <3>5. ASSUME NEW k \in Kinds PROVE owed'[k] = (owed[k] - Worth(k)[s]) + Worth(k)'[s]
      <4>1. Worth(k)[s] = 0
        BY <1>1, <3>4 DEF Worth
      <4>2. Worth(k)'[s] = 0
        BY <1>1, <2>1, EmptyItems, KindAssumption DEF Worth
      <4>3. owed'[k] = owed[k] /\ owed[k] \in Int
        BY <1>0, <1>2 DEF ITypeOK
      <4> QED
        BY <4>1, <4>2, <4>3
    <3>6. LedgerInv'
      BY <1>0, <1>1, <2>1, <2>2, <3>1, <3>4, <3>5, LedgerOne
    <3> QED
      BY <3>2, <3>6
  <2> QED
    BY <1>2, <2>2, <2>3 DEF NInv
<1>5. CASE c.op # "wipe"
  <2>0. c.n \in 0..MaxRow
    BY <1>1, <1>5, BoundAssumption, CallIs, SMTT(60)
  <2>1. [mem[s] EXCEPT !.row = c.n] \in Items /\ [mem[s] EXCEPT !.row = c.n].kind = mem[s].kind /\ [mem[s] EXCEPT !.row = c.n].qty = mem[s].qty
    BY <1>1, <2>0 DEF Items
  <2>2. mem' = [mem EXCEPT ![s] = [mem[s] EXCEPT !.row = c.n]]
    BY <1>2, <1>5, SMTT(60)
  <2>3. /\ mem' \in [Slots -> Items] /\ \A t \in Slots : mem'[t].kind = mem[t].kind /\ mem'[t].qty = mem[t].qty
        /\ \A t \in Slots \ {s} : mem'[t] = mem[t]
    BY <1>0, <1>1, <2>1, <2>2, SMTT(60) DEF ITypeOK
  <2>4. ITypeOK'
    BY <1>0, <1>2, <1>3, <2>3 DEF ITypeOK, CarriesOn
  <2>5. ASSUME Undisturbed' PROVE Apart' /\ JoinInv' /\ LedgerInv'
    <3>1. Apart /\ JoinInv /\ LedgerInv
      BY <1>2, <2>5, Undisturbs DEF NInv
    <3>2. Apart' /\ JoinInv' /\ \A t \in Slots : Wiped(t)' <=> Wiped(t)
      BY <1>0, <1>1, <1>3, <1>5, <2>3, <3>1, MildStep, SMTT(60)
    <3>3. LedgerInv'
      BY <1>2, <2>3, <3>1, <3>2, LedgerSame, ZenonT(60)
    <3> QED
      BY <3>2, <3>3
  <2> QED
    BY <1>2, <2>4, <2>5 DEF NInv
<1> QED
  BY <1>4, <1>5
\* A step after which every slot holds as many of its kind as before.
LEMMA SameN ==
  ASSUME NInv, ITypeOK', NEW h \in Runners, running[h].todo # <<>>, Head(running[h].todo).op # "wipe",
         CarriesOn(h), Mild(running'[h].todo), flaw \subseteq flaw', owed' = owed,
         \A t \in Slots : mem'[t].kind = mem[t].kind /\ mem'[t].qty = mem[t].qty,
         \A t \in Slots \ Slotted(running[h].todo) : mem'[t] = mem[t]
  PROVE  NInv'
<1>0. ITypeOK
  BY DEF NInv
<1>1. ASSUME Undisturbed' PROVE Apart' /\ JoinInv' /\ LedgerInv'
  <2>1. Apart /\ JoinInv /\ LedgerInv
    BY <1>1, Undisturbs DEF NInv
  <2>2. Apart' /\ JoinInv' /\ \A t \in Slots : Wiped(t)' <=> Wiped(t)
    BY <1>0, <2>1, MildStep
  <2>3. LedgerInv'
    BY <2>1, <2>2, LedgerSame
  <2> QED
    BY <2>2, <2>3
<1> QED
  BY <1>1 DEF NInv

LEMMA ChangeN ==
  ASSUME NInv, NEW h \in Runners, running[h].todo # <<>>, NEW c, c = Head(running[h].todo),
         c.op \in {"grade", "save"}, ChangeItem(h, c), late' = late
  PROVE  NInv' /\ flaw \subseteq flaw'
<1> DEFINE s == c.slot
<1>0. ITypeOK
  BY DEF NInv
<1>1. /\ c \in Calls /\ s \in Slots /\ s \in SlotsOf(c) /\ s \in Slotted(running[h].todo) /\ mem[s] \in Items /\ c.n \in Nat
      /\ db \in [1..MaxRow -> Records] /\ mem \in [Slots -> Items]
  BY <1>0, SingleSlot DEF ITypeOK
<1>2. /\ IF c.op = "grade" THEN mem' = [mem EXCEPT ![s].grade = c.n] /\ db' = db ELSE db' = Update(db, s, mem[s]) /\ mem' = mem
      /\ Then(h, Tail(running[h].todo)) /\ lastRow' = lastRow /\ owed' = owed /\ flaw \subseteq flaw'
  BY DEF ChangeItem
<1>3. CarriesOn(h) /\ Mild(running'[h].todo)
  BY <1>0, <1>2, Tails, MildIs
<1>4. /\ mem' \in [Slots -> Items] /\ \A t \in Slots : mem'[t].kind = mem[t].kind /\ mem'[t].qty = mem[t].qty
      /\ \A t \in Slots \ {s} : mem'[t] = mem[t]
  <2>1. CASE c.op = "grade"
    <3>1. [mem[s] EXCEPT !.grade = c.n] \in Items /\ [mem[s] EXCEPT !.grade = c.n].kind = mem[s].kind /\ [mem[s] EXCEPT !.grade = c.n].qty = mem[s].qty
      BY <1>1 DEF Items
    <3>2. mem' = [mem EXCEPT ![s] = [mem[s] EXCEPT !.grade = c.n]]
      BY <1>2, <2>1
    <3> QED
      BY <1>1, <3>1, <3>2, ZenonT(60)
  <2>2. CASE c.op # "grade"
    BY <1>1, <1>2, <2>2
  <2> QED
    BY <2>1, <2>2, SMTT(60)
<1>5. db' \in [1..MaxRow -> Records]
  <2>1. Update(db, s, mem[s]) \in [1..MaxRow -> Records]
    BY <1>1, UpdateIs
  <2> QED
    BY <1>1, <1>2, <2>1
<1>6. ITypeOK'
  BY <1>0, <1>2, <1>3, <1>4, <1>5 DEF ITypeOK, CarriesOn
<1> QED
  BY <1>1, <1>2, <1>3, <1>4, <1>6, SameN

LEMMA InsertN ==
  ASSUME NInv, NEW h \in Runners, running[h].todo # <<>>, NEW c, c = Head(running[h].todo),
         c.op = "insert", InsertPart(h, c), late' = late
  PROVE  NInv' /\ flaw \subseteq flaw'
<1> DEFINE s == c.slot
           i == [mem[s] EXCEPT !.row = 0]
<1>0. ITypeOK
  BY DEF NInv
<1>1. c \in Calls /\ s \in Slots /\ s \in SlotsOf(c) /\ mem[s] \in Items
  BY <1>0, SingleSlot
<1>2. Store(h, s, i) /\ mem' = mem /\ owed' = owed /\ flaw' = flaw
  BY DEF InsertPart
<1>3. i \in Items
  BY <1>1, BoundAssumption DEF Items
<1> HIDE DEF i
<1>4. CarriesOn(h) /\ Mild(running'[h].todo) /\ lastRow' \in 0..MaxRow /\ db' \in [1..MaxRow -> Records]
  BY <1>0, <1>1, <1>2, <1>3, StoreIs
<1>5. ITypeOK'
  BY <1>0, <1>2, <1>4 DEF ITypeOK, CarriesOn
<1> QED
  BY <1>2, <1>4, <1>5, SameN

LEMMA CopyN ==
  ASSUME NInv, NEW h \in Runners, running[h].todo # <<>>, NEW c, c = Head(running[h].todo),
         c.op = "copy", CopyPart(h, c), late' = late
  PROVE  NInv' /\ flaw \subseteq flaw'
<1> DEFINE s == c.slot
           u == c.with
           i == [mem[s] EXCEPT !.qty = c.n]
<1>0. ITypeOK
  BY DEF NInv
<1>1. /\ c \in Calls /\ s \in Slots /\ u \in Slots /\ u \in Slotted(running[h].todo) /\ mem[s] \in Items /\ c.n \in Nat
      /\ mem[s].kind \in Kinds \cup {NoKind}
  BY <1>0, SingleSlot, SMTT(60) DEF TwoSlots
<1>2. /\ mem' = [mem EXCEPT ![u] = i] /\ owed' = [owed EXCEPT ![mem[s].kind] = @ + c.n]
      /\ flaw' = IF s = u \/ Occupied(u) THEN flaw \cup {"occupied"} ELSE flaw
      /\ Then(h, Tail(running[h].todo)) /\ db' = db /\ lastRow' = lastRow
  BY SMTT(60) DEF CopyPart
<1>3. CarriesOn(h) /\ Mild(running'[h].todo)
  BY <1>0, <1>2, Tails, MildIs
<1>4. i \in Items /\ i.kind = mem[s].kind /\ i.qty = c.n
  BY <1>1, SMTT(60) DEF Items
<1> HIDE DEF i
<1>5. mem' \in [Slots -> Items] /\ mem'[u] = i /\ \A t \in Slots \ {u} : mem'[t] = mem[t]
  BY <1>0, <1>1, <1>2, <1>4, SMTT(60) DEF ITypeOK
<1>6. owed' \in [Kinds -> Int] /\ \A k \in Kinds : owed[k] \in Int /\ owed'[k] = IF mem[s].kind = k THEN owed[k] + c.n ELSE owed[k]
  <2>1. \A k \in Kinds : owed[k] \in Int /\ owed[k] + c.n \in Int
    BY <1>0, <1>1 DEF ITypeOK
  <2>2. owed \in [Kinds -> Int]
    BY <1>0, SMTT(60) DEF ITypeOK
  <2> QED
    BY <1>2, <2>1, <2>2
<1>7. ITypeOK'
  BY <1>0, <1>2, <1>3, <1>5, <1>6, ZenonT(60) DEF ITypeOK, CarriesOn
<1>8. ASSUME Undisturbed' PROVE Apart' /\ JoinInv' /\ LedgerInv'
  <2>0. flaw \subseteq flaw' /\ ~Occupied(u)
    BY <1>2, <1>8 DEF Undisturbed
  <2>1. Apart /\ JoinInv /\ LedgerInv
    BY <1>8, <2>0, Undisturbs DEF NInv
  <2>2. Apart' /\ JoinInv' /\ (\A t \in Slots : Wiped(t)' <=> Wiped(t)) /\ ~Wiped(u)
    BY <1>0, <1>1, <1>3, <1>5, <2>1, MildStep
  <2>3. ASSUME NEW k \in Kinds PROVE owed'[k] = (owed[k] - Worth(k)[u]) + Worth(k)'[u]
    <3>1. Worth(k)[u] = 0
      BY <1>1, <2>0, KindAssumption DEF Worth, Occupied
    <3>2. Worth(k)'[u] = IF mem[s].kind = k THEN c.n ELSE 0
      BY <1>1, <1>4, <1>5, <2>2 DEF Worth
    <3> QED
      BY <1>1, <1>6, <3>1, <3>2
  <2>4. LedgerInv'
    BY <1>0, <1>1, <1>5, <1>7, <2>1, <2>2, <2>3, LedgerOne, SMTT(60)
  <2> QED
    BY <2>2, <2>4
<1> QED
  BY <1>2, <1>7, <1>8 DEF NInv
\* What two slots hold changes places.
Exchanged(w, t) ==
    /\ w # t /\ mem'[t] = mem[w] /\ \A u \in Slots \ {w, t} : mem'[u] = mem[u]
    /\ mem'[w] = mem[t] \/ (mem'[w] = NewSlot /\ mem[t].kind = NoKind)

LEMMA MovesIs ==
  ASSUME ITypeOK, NEW h \in Runners, running[h].todo # <<>>, NEW c, c = Head(running[h].todo),
         c.op \in {"move", "swap"}, MoveItems(h, c)
  PROVE  /\ CarriesOn(h) /\ NoFirst(running'[h].todo) /\ lastRow' = lastRow /\ owed' = owed /\ flaw' = flaw
         /\ mem' \in [Slots -> Items] /\ db' \in [1..MaxRow -> Records]
         /\ \/ c.op = "move" /\ MayMove(c.slot, c.with) /\ Exchanged(c.slot, c.with) /\ mem'[c.slot] = NewSlot /\ db' = Update(db, c.with, mem[c.slot])
            \/ c.op = "swap" /\ MaySwap(c.slot, c.with) /\ Exchanged(c.slot, c.with) /\ mem'[c.slot] = mem[c.with]
               /\ db' = Update(Update(db, c.slot, mem[c.with]), c.with, mem[c.slot])
            \/ mem' = mem /\ c.slot = c.with /\ db' = Update(Update(db, c.slot, mem[c.with]), c.with, mem[c.slot])
            \/ mem' = mem /\ db' = db
<1> DEFINE w == c.slot
           t == c.with
<1>1. /\ c \in Calls /\ w \in Slots /\ t \in Slots /\ mem[w] \in Items /\ db \in [1..MaxRow -> Records] /\ mem \in [Slots -> Items]
  BY SingleSlot DEF TwoSlots, ITypeOK
<1>2. mem[t] \in Items
  BY <1>1
<1>3. /\ Then(h, Tail(running[h].todo)) /\ lastRow' = lastRow /\ owed' = owed /\ flaw' = flaw
      /\ IF c.op = "move" /\ MayMove(w, t)
         THEN mem' = [mem EXCEPT ![t] = mem[w], ![w] = NewSlot] /\ db' = Update(db, t, mem[w])
         ELSE IF c.op = "swap" /\ MaySwap(w, t)
         THEN mem' = [mem EXCEPT ![t] = mem[w], ![w] = mem[t]] /\ db' = Update(Update(db, w, mem[t]), t, mem[w])
         ELSE mem' = mem /\ db' = db
  BY DEF MoveItems
<1>4. CarriesOn(h) /\ NoFirst(running'[h].todo)
  BY <1>3, Tails, SMTT(60)
<1>5. CASE c.op = "move" /\ MayMove(w, t)
  <2>1. w # t /\ mem[t].kind = NoKind
    BY <1>5, SMTT(60) DEF MayMove, Occupied
  <2>2. mem' = [mem EXCEPT ![t] = mem[w], ![w] = NewSlot] /\ db' = Update(db, t, mem[w])
    BY <1>3, <1>5, SMTT(60)
  <2>3. mem' \in [Slots -> Items] /\ mem'[t] = mem[w] /\ mem'[w] = NewSlot /\ \A u \in Slots \ {w, t} : mem'[u] = mem[u]
    BY <1>1, <1>2, <2>1, <2>2, EmptyItems, ZenonT(60)
  <2>4. db' \in [1..MaxRow -> Records]
    BY <1>1, <2>2, UpdateIs
  <2> QED
    BY <1>3, <1>4, <1>5, <2>1, <2>2, <2>3, <2>4, ZenonT(60) DEF Exchanged
<1>6. CASE c.op = "swap" /\ MaySwap(w, t)
  <2>1. mem' = [mem EXCEPT ![t] = mem[w], ![w] = mem[t]] /\ db' = Update(Update(db, w, mem[t]), t, mem[w])
    BY <1>3, <1>6
  <2>2. Update(db, w, mem[t]) \in [1..MaxRow -> Records]
    BY <1>1, <1>2, UpdateIs, ZenonT(60)
  <2>3. db' \in [1..MaxRow -> Records]
    BY <1>1, <2>1, <2>2, UpdateIs, ZenonT(60)
  <2>4. CASE w = t
    <3>1. mem' = mem
      BY <1>1, <2>1, <2>4, SMTT(60)
    <3> QED
      BY <1>1, <1>3, <1>4, <2>1, <2>3, <2>4, <3>1, ZenonT(60)
  <2>5. CASE w # t
    <3>1. mem' \in [Slots -> Items] /\ mem'[t] = mem[w] /\ mem'[w] = mem[t] /\ \A u \in Slots \ {w, t} : mem'[u] = mem[u]
      BY <1>1, <1>2, <2>1, <2>5, ZenonT(60)
    <3> QED
      BY <1>3, <1>4, <1>6, <2>1, <2>3, <2>5, <3>1, ZenonT(60) DEF Exchanged
  <2> QED
    BY <2>4, <2>5
<1>7. CASE ~(c.op = "move" /\ MayMove(w, t)) /\ ~(c.op = "swap" /\ MaySwap(w, t))
  <2>1. mem' = mem /\ db' = db
    BY <1>3, <1>7
  <2> QED
    BY <1>1, <1>3, <1>4, <2>1
<1> QED
  BY <1>5, <1>6, <1>7

LEMMA MoveN ==
  ASSUME NInv, NEW h \in Runners, running[h].todo # <<>>, NEW c, c = Head(running[h].todo),
         c.op \in {"move", "swap"}, MoveItems(h, c), late' = late
  PROVE  NInv' /\ flaw \subseteq flaw'
<1> DEFINE w == c.slot
           t == c.with
<1>0. ITypeOK
  BY DEF NInv
<1>1. /\ CarriesOn(h) /\ NoFirst(running'[h].todo) /\ lastRow' = lastRow /\ owed' = owed /\ flaw' = flaw
      /\ mem' \in [Slots -> Items] /\ db' \in [1..MaxRow -> Records]
      /\ Exchanged(w, t) \/ mem' = mem
  BY <1>0, MovesIs
<1>2. w \in Slots /\ t \in Slots /\ w \in Slotted(running[h].todo) /\ t \in Slotted(running[h].todo)
  BY <1>0, SingleSlot DEF TwoSlots
<1>3. ITypeOK'
  BY <1>0, <1>1 DEF ITypeOK, CarriesOn
<1>4. Mild(running'[h].todo)
  BY <1>1, MildIs
<1>5. CASE mem' = mem
  BY <1>1, <1>3, <1>4, <1>5, SameN
<1>6. CASE Exchanged(w, t)
  <2>1. ASSUME Undisturbed' PROVE Apart' /\ JoinInv' /\ LedgerInv'
    <3>1. Apart /\ JoinInv /\ LedgerInv
      BY <1>1, <2>1, Undisturbs DEF NInv
    <3>2. \A u \in Slots \ Slotted(running[h].todo) : mem'[u] = mem[u]
      BY <1>2, <1>6 DEF Exchanged
    <3>3. Apart' /\ JoinInv' /\ (\A u \in Slots : Wiped(u)' <=> Wiped(u)) /\ ~Wiped(w) /\ ~Wiped(t)
      BY <1>0, <1>1, <1>2, <1>4, <3>1, <3>2, MildStep
    <3>4. ASSUME NEW k \in Kinds PROVE Worth(k)'[w] + Worth(k)'[t] = Worth(k)[w] + Worth(k)[t] /\ owed'[k] = owed[k]
      <4>1. /\ Worth(k)[w] = IF mem[w].kind = k THEN mem[w].qty ELSE 0
            /\ Worth(k)[t] = IF mem[t].kind = k THEN mem[t].qty ELSE 0
            /\ Worth(k)'[w] = IF mem'[w].kind = k THEN mem'[w].qty ELSE 0
            /\ Worth(k)'[t] = IF mem'[t].kind = k THEN mem'[t].qty ELSE 0
        BY <1>2, <3>3, SMTT(60) DEF Worth
      <4>2. Worth(k)'[t] = Worth(k)[w]
        BY <1>6, <4>1, SMTT(60) DEF Exchanged
      <4>3. Worth(k)'[w] = Worth(k)[t]
        BY <1>6, <4>1, EmptyItems, KindAssumption DEF Exchanged
      <4>4. mem[w] \in Items /\ mem[t] \in Items
        BY <1>0, <1>2 DEF ITypeOK
      <4>5. Worth(k)[w] \in Nat /\ Worth(k)[t] \in Nat
        BY <4>1, <4>4, ItemIs
      <4> QED
        BY <1>1, <4>2, <4>3, <4>5, SMTT(60)
    <3>5. LedgerInv'
      <4>1. \A u \in Slots \ {w, t} : mem'[u].kind = mem[u].kind /\ mem'[u].qty = mem[u].qty /\ (Wiped(u)' <=> Wiped(u))
        BY <1>6, <3>3 DEF Exchanged
      <4>2. w # t
        BY <1>6 DEF Exchanged
      <4> QED
        BY <1>0, <1>2, <1>3, <3>1, <3>4, <4>1, <4>2, LedgerTwo
    <3> QED
      BY <3>3, <3>5
  <2> QED
    BY <1>1, <1>3, <2>1 DEF NInv
<1> QED
  BY <1>1, <1>5, <1>6
More(i, n) == [i EXCEPT !.qty = @ + n]
LEMMA MoreIs ==
  ASSUME NEW i \in Items, NEW n \in Nat
  PROVE  More(i, n) \in Items /\ More(i, n).kind = i.kind /\ More(i, n).row = i.row /\ More(i, n).qty = i.qty + n
<1>1. i.qty \in Nat /\ i.qty + n \in Nat
  BY ItemIs, SMTT(60)
<1> QED
  BY <1>1 DEF More, Items

LEMMA JoinIs ==
  ASSUME ITypeOK, NEW h \in Runners, running[h].todo # <<>>, NEW c, c = Head(running[h].todo), c.op = "join", JoinStacks(h, c)
  PROVE  /\ CarriesOn(h) /\ running'[h].todo = <<Wipe(c.slot)>> \o Tail(running[h].todo)
         /\ running'[h].todo # <<>> /\ Head(running'[h].todo) = Wipe(c.slot)
         /\ mem' = [mem EXCEPT ![c.with] = More(mem[c.with], mem[c.slot].qty)] /\ mem' \in [Slots -> Items]
         /\ db' = Delete(db, mem[c.slot].row) /\ db' \in [1..MaxRow -> Records]
         /\ lastRow' = lastRow /\ owed' = owed /\ flaw \subseteq flaw' /\ (c.slot = c.with => "occupied" \in flaw')
<1> DEFINE s == c.slot
           u == c.with
<1>1. /\ c \in Calls /\ s \in Slots /\ u \in Slots /\ s \in SlotsOf(c)
      /\ mem[s].qty \in Nat /\ mem[s].row \in 0..MaxRow /\ db \in [1..MaxRow -> Records] /\ mem \in [Slots -> Items]
  BY SingleSlot, SMTT(60) DEF TwoSlots, ITypeOK
<1>2. /\ mem' = [mem EXCEPT ![u].qty = @ + mem[s].qty] /\ db' = Delete(db, mem[s].row)
      /\ flaw' = IF s = u THEN flaw \cup {"occupied"} ELSE flaw
      /\ Then(h, <<Wipe(s)>> \o Tail(running[h].todo)) /\ lastRow' = lastRow /\ owed' = owed
  BY SMTT(60) DEF JoinStacks
<1>3. /\ CarriesOn(h) /\ running'[h].todo = <<Wipe(s)>> \o Tail(running[h].todo)
      /\ running'[h].todo # <<>> /\ Head(running'[h].todo) = Wipe(s)
  BY <1>1, <1>2, WipeNext, ZenonT(60)
<1>4. mem' = [mem EXCEPT ![u] = More(mem[u], mem[s].qty)]
  BY <1>2 DEF More
<1>5. mem[u] \in Items
  BY <1>1
<1>6. More(mem[u], mem[s].qty) \in Items
  BY <1>1, <1>5, MoreIs
<1>7. mem' \in [Slots -> Items]
  BY <1>1, <1>4, <1>6
<1>8. db' \in [1..MaxRow -> Records]
  BY <1>1, <1>2, DeleteRowIs, ZenonT(60)
<1> QED
  BY <1>2, <1>3, <1>4, <1>7, <1>8, ZenonT(60)

LEMMA JoinN ==
  ASSUME NInv, NEW h \in Runners, running[h].todo # <<>>, NEW c, c = Head(running[h].todo),
         c.op = "join", JoinStacks(h, c), late' = late \cup {Later(c.with)}
  PROVE  NInv' /\ flaw \subseteq flaw'
<1> DEFINE s == c.slot
           u == c.with
<1>0. ITypeOK
  BY DEF NInv
<1>1. /\ CarriesOn(h) /\ running'[h].todo # <<>> /\ Head(running'[h].todo) = Wipe(s)
      /\ mem' = [mem EXCEPT ![u] = More(mem[u], mem[s].qty)] /\ mem' \in [Slots -> Items] /\ db' \in [1..MaxRow -> Records]
      /\ lastRow' = lastRow /\ owed' = owed /\ flaw \subseteq flaw' /\ (s = u => "occupied" \in flaw')
  BY <1>0, JoinIs
<1>2. /\ s \in Slots /\ u \in Slots /\ s \in SlotsOf(c) /\ s \in Slotted(running[h].todo) /\ u \in Slotted(running[h].todo) /\ c \in Calls
      /\ mem \in [Slots -> Items] /\ owed \in [Kinds -> Int]
  BY <1>0, SingleSlot DEF TwoSlots, ITypeOK
<1>3. mem[s] \in Items /\ mem[u] \in Items /\ mem[s].qty \in Nat /\ mem[u].qty \in Nat
  <2>1. mem[s] \in Items /\ mem[u] \in Items
    BY <1>2, SMTT(60)
  <2> QED
    BY <2>1, ItemIs
<1>4. mem'[u].kind = mem[u].kind /\ mem'[u].qty = mem[u].qty + mem[s].qty /\ \A t \in Slots \ {u} : mem'[t] = mem[t]
  BY <1>1, <1>2, <1>3, MoreIs, ZenonT(60)
<1>5. Later(u) \in [slot : Slots, item : Items]
  BY <1>2, EmptyItems DEF Later
<1>6. ITypeOK'
  BY <1>0, <1>1, <1>5 DEF ITypeOK, CarriesOn
<1>7. ASSUME Undisturbed' PROVE Apart' /\ JoinInv' /\ LedgerInv'
  <2>1. Apart /\ JoinInv /\ LedgerInv
    BY <1>1, <1>7, Undisturbs DEF NInv
  <2>2. s # u
    BY <1>1, <1>7 DEF Undisturbed
  <2>3. mem[s].kind = mem[u].kind
    BY <2>1 DEF JoinInv, Joins
  <2>4. \A t \in Slots \ Slotted(running[h].todo) : mem'[t] = mem[t]
    BY <1>2, <1>4
  <2>5. /\ Apart' /\ JoinInv' /\ (\A t \in Slots \ {s} : Wiped(t)' <=> Wiped(t)) /\ Wiped(s)' /\ ~Wiped(s) /\ ~Wiped(u)
    BY <1>0, <1>1, <1>2, <2>1, <2>4, WipeStep, ZenonT(60)
  <2>6. ~Wiped(u)'
    BY <1>2, <2>2, <2>5
  <2>7. ASSUME NEW k \in Kinds PROVE Worth(k)'[s] + Worth(k)'[u] = Worth(k)[s] + Worth(k)[u] /\ owed'[k] = owed[k]
    <3>1. /\ Worth(k)[s] = IF mem[s].kind = k THEN mem[s].qty ELSE 0
          /\ Worth(k)[u] = IF mem[u].kind = k THEN mem[u].qty ELSE 0
          /\ Worth(k)'[s] = 0
          /\ Worth(k)'[u] = IF mem'[u].kind = k THEN mem'[u].qty ELSE 0
      BY <1>2, <2>5, <2>6 DEF Worth
    <3> HIDE DEF s, u
    <3>2. CASE mem[s].kind = k
      BY <1>1, <1>3, <1>4, <2>3, <3>1, <3>2
    <3>3. CASE mem[s].kind # k
      BY <1>1, <1>4, <2>3, <3>1, <3>3
    <3> QED
      BY <3>2, <3>3, SMTT(60)
  <2>8. \A t \in Slots \ {s, u} : mem'[t].kind = mem[t].kind /\ mem'[t].qty = mem[t].qty /\ (Wiped(t)' <=> Wiped(t))
    BY <1>4, <2>5
  <2>9. LedgerInv'
    BY <1>0, <1>2, <1>6, <2>1, <2>2, <2>7, <2>8, LedgerTwo
  <2> QED
    BY <2>5, <2>9
<1> QED
  BY <1>1, <1>6, <1>7 DEF NInv

LEMMA StepN ==
  ASSUME NInv, NEW h \in Runners, Step(h)
  PROVE  NInv' /\ flaw \subseteq flaw'
<1> DEFINE c == Head(running[h].todo)
<1>1. running[h].todo # <<>> /\ late' = IF c.op = "join" THEN late \cup {Later(c.with)} ELSE late
  BY DEF Step
<1>2. \/ c.op \in {"put", "give"} /\ AddItem(h, c)
      \/ c.op = "take" /\ DecrementItem(h, c)
      \/ c.op = "drop" /\ RemoveItem(h, c)
      \/ c.op \in {"wipe", "named"} /\ AfterWait(h, c)
      \/ c.op \in {"grade", "save"} /\ ChangeItem(h, c)
      \/ c.op \in {"move", "swap"} /\ MoveItems(h, c)
      \/ c.op = "copy" /\ CopyPart(h, c)
      \/ c.op = "insert" /\ InsertPart(h, c)
      \/ c.op = "join" /\ JoinStacks(h, c)
  BY DEF Step
<1> HIDE DEF c
<1>0. c = Head(running[h].todo)
  BY DEF c
<1>3. c.op # "join" => late' = late
  BY <1>1
<1>4. c.op = "join" => late' = late \cup {Later(c.with)}
  BY <1>1
<1>5. CASE c.op \in {"put", "give"} /\ AddItem(h, c)
  BY <1>0, <1>1, <1>3, <1>5, AddN
<1>6. CASE c.op = "take" /\ DecrementItem(h, c)
  BY <1>0, <1>1, <1>3, <1>6, TakeN
<1>7. CASE c.op = "drop" /\ RemoveItem(h, c)
  BY <1>0, <1>1, <1>3, <1>7, DropN
<1>8. CASE c.op \in {"wipe", "named"} /\ AfterWait(h, c)
  BY <1>0, <1>1, <1>3, <1>8, WaitN
<1>9. CASE c.op \in {"grade", "save"} /\ ChangeItem(h, c)
  BY <1>0, <1>1, <1>3, <1>9, ChangeN
<1>10. CASE c.op \in {"move", "swap"} /\ MoveItems(h, c)
  BY <1>0, <1>1, <1>3, <1>10, MoveN
<1>11. CASE c.op = "copy" /\ CopyPart(h, c)
  BY <1>0, <1>1, <1>3, <1>11, CopyN
<1>12. CASE c.op = "insert" /\ InsertPart(h, c)
  BY <1>0, <1>1, <1>3, <1>12, InsertN
<1>13. CASE c.op = "join" /\ JoinStacks(h, c)
  BY <1>0, <1>1, <1>4, <1>13, JoinN
<1> QED
  BY <1>2, <1>5, <1>6, <1>7, <1>8, <1>9, <1>10, <1>11, <1>12, <1>13
----------------------------------------------------------------------------
(* The handlers *)

LEMMA BeginN ==
  ASSUME NInv, NEW lock \in BOOLEAN, NEW todo \in Todos, Joins(todo), Head(todo).op # "wipe", Begin(lock, todo)
  PROVE  NInv' /\ flaw \subseteq flaw'
<1>0. ITypeOK /\ todo # <<>> /\ Mutex(lock)
  BY DEF NInv, Begin
<1>1. PICK h \in Runners :
          /\ running[h] = Idle
          /\ running' = [running EXCEPT ![h] = [lock |-> lock, todo |-> todo]]
          /\ flaw' = IF Overlaps(h, lock, todo) THEN flaw \cup {"overlap"} ELSE flaw
  BY DEF Begin
<1>2. mem' = mem /\ db' = db /\ lastRow' = lastRow /\ late' = late /\ owed' = owed
  BY DEF Begin
<1>3. /\ running' \in [Runners -> [lock : BOOLEAN, todo : Todos]] /\ running'[h].todo = todo
      /\ \A g \in Runners \ {h} : running'[g] = running[g]
  BY <1>0, <1>1 DEF ITypeOK
<1>4. ITypeOK'
  BY <1>0, <1>2, <1>3 DEF ITypeOK
<1>5. ASSUME Undisturbed' PROVE Apart' /\ JoinInv' /\ LedgerInv'
  <2>1. flaw \subseteq flaw' /\ ~Overlaps(h, lock, todo)
    BY <1>1, <1>5 DEF Undisturbed
  <2>2. Apart /\ JoinInv /\ LedgerInv
    BY <1>5, <2>1, Undisturbs DEF NInv
  <2>3. \A g \in Runners \ {h} : ~(lock /\ running[g].lock)
    BY <1>0 DEF Mutex
  <2>4. \A g \in Runners \ {h} : Slotted(todo) \cap Slotted(running[g].todo) = {}
    BY <2>1, <2>3 DEF Overlaps
  <2>5. Apart'
    <3> SUFFICES ASSUME NEW g \in Runners, NEW k \in Runners, g # k
                 PROVE  Slotted(running'[g].todo) \cap Slotted(running'[k].todo) = {}
      BY DEF Apart
    <3>1. CASE g = h
      BY <1>3, <2>4, <3>1
    <3>2. CASE k = h
      BY <1>3, <2>4, <3>2
    <3>3. CASE g # h /\ k # h
      BY <1>3, <2>2, <3>3 DEF Apart
    <3> QED
      BY <3>1, <3>2, <3>3
  <2>6. JoinInv'
    <3> SUFFICES ASSUME NEW g \in Runners PROVE Joins(running[g].todo)'
      BY DEF JoinInv
    <3>1. CASE g = h
      BY <1>2, <1>3, <3>1 DEF Joins, Occupied
    <3>2. CASE g # h
      BY <1>2, <1>3, <2>2, <3>2 DEF JoinInv, Joins, Occupied
    <3> QED
      BY <3>1, <3>2
  <2>7. \A t : Wiped(t)' <=> Wiped(t)
    <3>1. running[h].todo = <<>>
      BY <1>1 DEF Idle
    <3>2. \A t : ~HeadIs(running[h].todo, "wipe", t) /\ ~HeadIs(running'[h].todo, "wipe", t)
      BY <1>3, <3>1 DEF HeadIs
    <3> QED
      BY <1>3, <3>2 DEF Wiped
  <2>8. LedgerInv'
    BY <1>2, <2>2, <2>7, LedgerSame
  <2> QED
    BY <2>5, <2>6, <2>8
<1>6. flaw \subseteq flaw'
  BY <1>1
<1> QED
  BY <1>4, <1>5, <1>6 DEF NInv

\* Calls on one slot each, of which at most `s` is changed in memory and written later.
Errand(c, s) ==
    c \in Calls /\ c.op \in {"put", "give", "take", "drop", "grade", "save"} /\ (c.op \in {"grade", "save"} => c.slot = s)
Errands(s) == {todo \in Seq(Calls) : \A i \in 1..Len(todo) : Errand(todo[i], s)}

LEMMA ErrandsJoin ==
  ASSUME NEW s, NEW a \in Errands(s), NEW b \in Errands(s)
  PROVE  a \o b \in Errands(s)
<1>1. /\ a \in Seq(Calls) /\ b \in Seq(Calls) /\ Len(a) \in Nat /\ Len(b) \in Nat
      /\ \A i \in 1..Len(a) : Errand(a[i], s)
      /\ \A i \in 1..Len(b) : Errand(b[i], s)
  BY LenProperties DEF Errands
<1> DEFINE ab == a \o b
<1>2. /\ ab \in Seq(Calls) /\ Len(ab) = Len(a) + Len(b)
      /\ \A i \in 1..Len(a) + Len(b) : ab[i] = IF i <= Len(a) THEN a[i] ELSE b[i - Len(a)]
  BY <1>1, ConcatProperties
<1> HIDE DEF ab
<1>3. ASSUME NEW i \in 1..Len(ab) PROVE Errand(ab[i], s)
  <2>1. CASE i <= Len(a)
    BY <1>1, <1>2, <2>1
  <2>2. CASE ~(i <= Len(a))
    <3>1. i - Len(a) \in 1..Len(b) /\ ab[i] = b[i - Len(a)]
      BY <1>1, <1>2, <2>2
    <3> QED
      BY <1>1, <3>1
  <2> QED
    BY <2>1, <2>2
<1>4. ab \in Errands(s)
  BY <1>2, <1>3 DEF Errands
<1> QED
  BY <1>4 DEF ab

LEMMA NoErrand == \A s : <<>> \in Errands(s)
<1>1. <<>> \in Seq(Calls) /\ Len(<<>>) = 0
  BY EmptySeq
<1>2. \A i \in 1..Len(<<>>) : FALSE
  BY <1>1
<1> QED
  BY <1>1, <1>2 DEF Errands

LEMMA OneErrand == ASSUME NEW s, NEW c, Errand(c, s) PROVE <<c>> \in Errands(s)
<1>1. c \in Calls
  BY DEF Errand
<1>2. <<c>> \in Seq(Calls) /\ Len(<<c>>) = 1 /\ <<c>>[1] = c
  BY <1>1
<1>3. \A i \in 1..Len(<<c>>) : i = 1
  BY <1>2
<1> QED
  BY <1>2, <1>3 DEF Errands

LEMMA TwoErrands == ASSUME NEW s, NEW c, Errand(c, s), NEW d, Errand(d, s) PROVE <<c, d>> \in Errands(s)
<1>1. c \in Calls /\ d \in Calls
  BY DEF Errand
<1>2. <<c, d>> \in Seq(Calls) /\ Len(<<c, d>>) = 2 /\ <<c, d>>[1] = c /\ <<c, d>>[2] = d
  BY <1>1
<1>3. \A i \in 1..Len(<<c, d>>) : i = 1 \/ i = 2
  BY <1>2
<1> QED
  BY <1>2, <1>3 DEF Errands

LEMMA ThreeErrands ==
  ASSUME NEW s, NEW c, Errand(c, s), NEW d, Errand(d, s), NEW e, Errand(e, s)
  PROVE  <<c, d, e>> \in Errands(s)
<1>1. c \in Calls /\ d \in Calls /\ e \in Calls
  BY DEF Errand
<1>2. <<c, d, e>> \in Seq(Calls) /\ Len(<<c, d, e>>) = 3 /\ <<c, d, e>>[1] = c /\ <<c, d, e>>[2] = d /\ <<c, d, e>>[3] = e
  BY <1>1
<1>3. \A i \in 1..Len(<<c, d, e>>) : i = 1 \/ i = 2 \/ i = 3
  BY <1>2
<1> QED
  BY <1>2, <1>3 DEF Errands

LEMMA TakeErrand == ASSUME NEW x \in Slots, NEW n \in Nat, NEW s PROVE Errand(Take(x, n), s)
  BY SlotAssumption DEF Errand, Take, Call, Calls, Plain, FirstOnly, AnySlot, TwoSlots, Slots
LEMMA DropErrand == ASSUME NEW x \in Slots, NEW s PROVE Errand(Drop(x), s)
  BY SlotAssumption DEF Errand, Drop, Call, Calls, Plain, FirstOnly, AnySlot, TwoSlots, Slots
LEMMA PutErrand == ASSUME NEW x \in Slots \cup {AnySlot}, NEW k \in Kinds, NEW n \in Nat, NEW s PROVE Errand(Put(x, k, n), s)
  BY SlotAssumption DEF Errand, Put, Call, Calls, Plain, FirstOnly, AnySlot, TwoSlots, Slots
LEMMA GiveErrand == ASSUME NEW k \in Kinds, NEW n \in Nat, NEW s PROVE Errand(Give(k, n), s)
  BY SlotAssumption DEF Errand, Give, Call, Calls, Plain, FirstOnly, AnySlot, TwoSlots, Slots
LEMMA GradeErrand == ASSUME NEW s \in Slots, NEW g \in Nat PROVE Errand(Grade(s, g), s)
  BY SlotAssumption DEF Errand, Grade, Call, Calls, Plain, FirstOnly, AnySlot, TwoSlots, Slots
LEMMA SaveErrand == ASSUME NEW s \in Slots PROVE Errand(Save(s), s)
  BY SlotAssumption DEF Errand, Save, Call, Calls, Plain, FirstOnly, AnySlot, TwoSlots, Slots
LEMMA SpendErrands ==
  ASSUME NEW x \in Slots \cup {AnySlot}, NEW s
  PROVE  Spend(x) \in Errands(s) /\ Lose(x) \in Errands(s)
<1>1. CASE x = AnySlot
  BY <1>1, NoErrand DEF Spend, Lose
<1>2. CASE x # AnySlot
  <2>1. Errand(Take(x, 1), s) /\ Errand(Drop(x), s)
    BY <1>2, TakeErrand, DropErrand
  <2>2. Spend(x) = <<Take(x, 1)>> /\ Lose(x) = <<Drop(x)>>
    BY <1>2 DEF Spend, Lose
  <2> HIDE DEF Spend, Lose
  <2> QED
    BY <2>1, <2>2, OneErrand
<1> QED
  BY <1>1, <1>2

LEMMA InTheBag ==
  ASSUME ITypeOK
  PROVE  /\ \A s \in Held : s \in Slots /\ mem[s] \in Items /\ mem[s].kind \in Kinds /\ mem[s].qty \in Nat
         /\ \A K : InBag(K) \subseteq Slots
         /\ FindFreeSlot \subseteq Slots /\ Extras \subseteq Slots \cup {AnySlot}
         /\ Gear \subseteq Kinds /\ Stackable \subseteq Kinds
<1>1. \A s \in Slots : mem[s] \in Items
  BY DEF ITypeOK
<1>2. \A s \in Held : s \in Slots /\ mem[s] \in Items /\ mem[s].kind \in Kinds /\ mem[s].qty \in Nat
  BY <1>1, ItemIs DEF Held, Occupied
<1>3. BagSlots \subseteq Slots
  BY DEF Slots
<1> QED
  BY <1>2, <1>3, KindAssumption DEF InBag, FindFreeSlot, Extras

StartsErrands == \E lock \in BOOLEAN, s \in Slots \cup {AnySlot} : \E todo \in Errands(s) : Begin(lock, todo)

LEMMA FewErrands ==
  ASSUME ITypeOK, DestroyItem \/ SellItem \/ Loot \/ BuyHTItem \/ ReplaceHTItem \/ DiscriminateItem
  PROVE  StartsErrands
<1>0. 1 \in Nat /\ AnySlot \in Slots \cup {AnySlot} /\ TRUE \in BOOLEAN /\ FALSE \in BOOLEAN
  OBVIOUS
<1>1. CASE DestroyItem \/ SellItem
  <2>1. PICK s \in Held, lock \in BOOLEAN : Begin(lock, <<Drop(s)>>)
    BY <1>1 DEF DestroyItem, SellItem
  <2>2. s \in Slots
    BY InTheBag
  <2>3. <<Drop(s)>> \in Errands(s)
    <3>1. Errand(Drop(s), s)
      BY <2>2, DropErrand
    <3> QED
      BY <3>1, OneErrand
  <2> QED
    BY <2>1, <2>2, <2>3 DEF StartsErrands
<1>2. CASE Loot
  <2>1. PICK k \in Kinds : Begin(FALSE, <<Put(AnySlot, k, 1)>>)
    BY <1>2 DEF Loot
  <2>2. Errand(Put(AnySlot, k, 1), AnySlot)
    BY PutErrand
  <2>3. <<Put(AnySlot, k, 1)>> \in Errands(AnySlot)
    BY <2>2, OneErrand
  <2> QED
    BY <1>0, <2>1, <2>3 DEF StartsErrands
<1>3. CASE BuyHTItem
  <2>1. PICK k \in Kinds, s \in FindFreeSlot : Begin(FALSE, <<Put(s, k, 1)>>)
    BY <1>3 DEF BuyHTItem
  <2>2. s \in Slots
    BY <2>1, InTheBag
  <2>3. Errand(Put(s, k, 1), s)
    BY <2>2, PutErrand
  <2>4. <<Put(s, k, 1)>> \in Errands(s)
    BY <2>3, OneErrand
  <2> QED
    BY <1>0, <2>1, <2>2, <2>4 DEF StartsErrands
<1>4. CASE ReplaceHTItem
  <2>1. PICK s \in Held : FindFreeSlot # {} /\ Begin(TRUE, <<Drop(s), Put(Lowest(FindFreeSlot), mem[s].kind, mem[s].qty)>>)
    BY <1>4 DEF ReplaceHTItem
  <2>2. Lowest(FindFreeSlot) \in Slots /\ s \in Slots /\ mem[s].kind \in Kinds /\ mem[s].qty \in Nat
    BY <2>1, InTheBag, LowestIn
  <2>3. Errand(Drop(s), s) /\ Errand(Put(Lowest(FindFreeSlot), mem[s].kind, mem[s].qty), s)
    BY <2>2, DropErrand, PutErrand
  <2>4. <<Drop(s), Put(Lowest(FindFreeSlot), mem[s].kind, mem[s].qty)>> \in Errands(s)
    BY <2>3, TwoErrands
  <2> QED
    BY <1>0, <2>1, <2>2, <2>4 DEF StartsErrands
<1>5. CASE DiscriminateItem
  <2>1. PICK s \in InBag(Gear) : Begin(FALSE, <<Grade(s, 1), Save(s)>>)
    BY <1>5 DEF DiscriminateItem
  <2>2. s \in Slots
    BY <2>1, InTheBag
  <2>3. Errand(Grade(s, 1), s) /\ Errand(Save(s), s)
    BY <2>2, GradeErrand, SaveErrand
  <2>4. <<Grade(s, 1), Save(s)>> \in Errands(s)
    BY <2>3, TwoErrands
  <2> QED
    BY <1>0, <2>1, <2>2, <2>4 DEF StartsErrands
<1> QED
  BY <1>1, <1>2, <1>3, <1>4, <1>5

LEMMA StrengthenErrands == ASSUME ITypeOK, StrengthenHandler PROVE StartsErrands
<1>1. PICK s \in InBag(Gear), g \in InBag(Stackable), x \in Extras : \E errand \in BSUpgrade(s, g, x) : Begin(FALSE, errand)
  BY DEF StrengthenHandler
<1>2. PICK errand \in BSUpgrade(s, g, x) : Begin(FALSE, errand)
  BY <1>1
<1>3. s \in Slots /\ g \in Slots /\ x \in Slots \cup {AnySlot} /\ 0 \in Nat /\ 1 \in Nat
  BY <1>1, InTheBag
<1>4. Spend(x) \in Errands(s)
  BY <1>3, SpendErrands
<1>5. Errand(Take(g, 1), s) /\ Errand(Grade(s, 1), s) /\ Errand(Grade(s, 0), s) /\ Errand(Drop(s), s) /\ Errand(Save(s), s)
  BY <1>3, TakeErrand, GradeErrand, DropErrand, SaveErrand
<1>6. <<Take(g, 1)>> \in Errands(s) /\ <<Save(s)>> \in Errands(s) /\ <<Grade(s, 0)>> \in Errands(s) /\ <<Drop(s)>> \in Errands(s)
      /\ <<Grade(s, 1), Save(s)>> \in Errands(s)
  BY <1>5, OneErrand, TwoErrands
<1> DEFINE rest == <<Take(g, 1)>> \o Spend(x) \o <<Save(s)>>
<1>7. rest \in Errands(s)
  <2>1. <<Take(g, 1)>> \o Spend(x) \in Errands(s)
    BY <1>4, <1>6, ErrandsJoin
  <2> QED
    BY <1>6, <2>1, ErrandsJoin
<1>8. errand \in {<<Grade(s, 1), Save(s)>> \o rest, <<Grade(s, 0)>> \o rest, <<Drop(s)>> \o rest}
  BY <1>2 DEF BSUpgrade, Unless
<1> HIDE DEF rest
<1>9. errand \in Errands(s)
  BY <1>6, <1>7, <1>8, ErrandsJoin
<1> QED
  BY <1>2, <1>3, <1>9 DEF StartsErrands

LEMMA ProductionErrands == ASSUME ITypeOK, ProductionHandler \/ CoProductionHandler PROVE StartsErrands
<1>1. CASE ProductionHandler
  <2>1. PICK b \in InBag(Stackable), m \in InBag(Stackable), p \in FindFreeSlot, k \in Kinds :
          \E errand \in BSProduction(b, m, p, k) : Begin(FALSE, errand)
    BY <1>1 DEF ProductionHandler
  <2>2. PICK errand \in BSProduction(b, m, p, k) : Begin(FALSE, errand)
    BY <2>1
  <2>3. b \in Slots /\ m \in Slots /\ p \in Slots \cup {AnySlot} /\ 1 \in Nat
    BY <2>1, InTheBag
  <2>4. Errand(Take(b, 1), b) /\ Errand(Take(m, 1), b) /\ Errand(Put(p, k, 1), b)
    BY <2>3, TakeErrand, PutErrand
  <2>5. <<Take(b, 1), Take(m, 1)>> \in Errands(b) /\ <<Put(p, k, 1), Take(b, 1), Take(m, 1)>> \in Errands(b)
    BY <2>4, TwoErrands, ThreeErrands
  <2>6. errand \in Errands(b)
    BY <2>2, <2>5 DEF BSProduction, Unless
  <2> QED
    BY <2>2, <2>3, <2>6 DEF StartsErrands
<1>2. CASE CoProductionHandler
  <2>1. PICK m \in InBag(Kinds), k \in Kinds : \E errand \in CoProduction(m, k) : Begin(FALSE, errand)
    BY <1>2 DEF CoProductionHandler
  <2>2. PICK errand \in CoProduction(m, k) : Begin(FALSE, errand)
    BY <2>1
  <2>3. m \in Slots /\ 1 \in Nat
    BY <2>1, InTheBag
  <2>4. Errand(Take(m, 1), m) /\ Errand(Put(AnySlot, k, 1), m)
    BY <2>3, TakeErrand, PutErrand
  <2>5. <<Take(m, 1)>> \in Errands(m) /\ <<Take(m, 1), Put(AnySlot, k, 1)>> \in Errands(m)
    BY <2>4, OneErrand, TwoErrands
  <2>6. errand \in Errands(m)
    BY <2>2, <2>5 DEF CoProduction, Unless
  <2> QED
    BY <2>2, <2>3, <2>6 DEF StartsErrands
<1> QED
  BY <1>1, <1>2
LEMMA FusionErrands == ASSUME ITypeOK, AdvancedFusionHandler PROVE StartsErrands
<1>1. PICK a \in InBag(Kinds), b \in InBag(Kinds), p \in FindFreeSlot, x \in Extras, k \in Kinds :
        \E made \in AdvancedFusion(p, k) : \E gone \in {made # <<>>, TRUE} :
              Begin(FALSE, made \o (IF gone THEN <<Drop(a), Drop(b)>> ELSE <<>>) \o Lose(x))
  BY DEF AdvancedFusionHandler
<1>2. PICK made \in AdvancedFusion(p, k) : \E gone \in {made # <<>>, TRUE} :
              Begin(FALSE, made \o (IF gone THEN <<Drop(a), Drop(b)>> ELSE <<>>) \o Lose(x))
  BY <1>1
<1>3. PICK gone \in {made # <<>>, TRUE} : Begin(FALSE, made \o (IF gone THEN <<Drop(a), Drop(b)>> ELSE <<>>) \o Lose(x))
  BY <1>2
<1>4. a \in Slots /\ b \in Slots /\ p \in Slots \cup {AnySlot} /\ x \in Slots \cup {AnySlot} /\ 1 \in Nat
  BY <1>1, InTheBag
<1>5. Errand(Drop(a), a) /\ Errand(Drop(b), a) /\ Errand(Put(p, k, 1), a)
  BY <1>4, DropErrand, PutErrand
<1>6. <<Drop(a), Drop(b)>> \in Errands(a) /\ <<Put(p, k, 1)>> \in Errands(a) /\ <<>> \in Errands(a) /\ Lose(x) \in Errands(a)
  BY <1>4, <1>5, TwoErrands, OneErrand, NoErrand, SpendErrands
<1>7. made \in Errands(a)
  BY <1>2, <1>6 DEF AdvancedFusion, Unless
<1> DEFINE costs == IF gone THEN <<Drop(a), Drop(b)>> ELSE <<>>
           all == made \o costs \o Lose(x)
<1>8. costs \in Errands(a)
  BY <1>6
<1>9. all \in Errands(a)
  <2> HIDE DEF costs
  <2>1. made \o costs \in Errands(a)
    BY <1>7, <1>8, ErrandsJoin
  <2> QED
    BY <1>6, <2>1, ErrandsJoin
<1>10. Begin(FALSE, all)
  BY <1>3
<1> HIDE DEF all
<1> QED
  BY <1>4, <1>9, <1>10 DEF StartsErrands

LEMMA SmithErrands == ASSUME ITypeOK, DismantleHandler \/ ExtractionHandler PROVE StartsErrands
<1>1. CASE DismantleHandler
  <2>1. PICK s \in InBag(Gear) : \E x \in Extras \ {s}, k \in Stackable :
          \E melted \in Dismantle(k) : Begin(FALSE, melted \o <<Drop(s)>> \o Lose(x))
    BY <1>1 DEF DismantleHandler
  <2>2. PICK x \in Extras \ {s}, k \in Stackable : \E melted \in Dismantle(k) : Begin(FALSE, melted \o <<Drop(s)>> \o Lose(x))
    BY <2>1
  <2>3. PICK melted \in Dismantle(k) : Begin(FALSE, melted \o <<Drop(s)>> \o Lose(x))
    BY <2>2
  <2>4. s \in Slots /\ x \in Slots \cup {AnySlot} /\ k \in Kinds /\ 1 \in Nat
    BY <2>1, <2>2, InTheBag
  <2>5. Errand(Give(k, 1), s) /\ Errand(Drop(s), s)
    BY <2>4, DropErrand, GiveErrand
  <2>6. <<Give(k, 1)>> \in Errands(s) /\ <<Drop(s)>> \in Errands(s) /\ <<>> \in Errands(s) /\ Lose(x) \in Errands(s)
    BY <2>4, <2>5, OneErrand, NoErrand, SpendErrands
  <2>7. melted \in Errands(s)
    BY <2>3, <2>6 DEF Dismantle, Unless
  <2>8. melted \o <<Drop(s)>> \in Errands(s)
    BY <2>6, <2>7, ErrandsJoin
  <2>9. melted \o <<Drop(s)>> \o Lose(x) \in Errands(s)
    BY <2>6, <2>8, ErrandsJoin
  <2> QED
    BY <2>3, <2>4, <2>9 DEF StartsErrands
<1>2. CASE ExtractionHandler
  <2>1. PICK s \in InBag(Gear) : \E x \in Extras \ {s}, k \in Stackable :
          mem[s].grade > 0 /\ \E taken \in Extraction(s, k) : Begin(FALSE, taken \o Lose(x))
    BY <1>2 DEF ExtractionHandler
  <2>2. PICK x \in Extras \ {s}, k \in Stackable : \E taken \in Extraction(s, k) : Begin(FALSE, taken \o Lose(x))
    BY <2>1
  <2>3. PICK taken \in Extraction(s, k) : Begin(FALSE, taken \o Lose(x))
    BY <2>2
  <2>4. s \in Slots /\ x \in Slots \cup {AnySlot} /\ k \in Kinds /\ 0 \in Nat /\ 1 \in Nat
    BY <2>1, <2>2, InTheBag
  <2>5. Errand(Give(k, 1), s) /\ Errand(Grade(s, 0), s) /\ Errand(Save(s), s)
    BY <2>4, GiveErrand, GradeErrand, SaveErrand
  <2>6. <<Grade(s, 0), Give(k, 1), Save(s)>> \in Errands(s) /\ <<>> \in Errands(s) /\ Lose(x) \in Errands(s)
    BY <2>4, <2>5, ThreeErrands, NoErrand, SpendErrands
  <2>7. taken \in Errands(s)
    BY <2>3, <2>6 DEF Extraction, Unless
  <2>8. taken \o Lose(x) \in Errands(s)
    BY <2>6, <2>7, ErrandsJoin
  <2> QED
    BY <2>3, <2>4, <2>8 DEF StartsErrands
<1> QED
  BY <1>1, <1>2

LEMMA SocketErrands == ASSUME ITypeOK, CreateSocketHandler \/ UpgradeSocketHandler PROVE StartsErrands
<1>1. CASE CreateSocketHandler
  <2>1. PICK s \in InBag(Gear) : \E x \in Extras \ {s} : \E errand \in CreateSocket(s, x) : Begin(FALSE, errand)
    BY <1>1 DEF CreateSocketHandler
  <2>2. PICK x \in Extras \ {s} : \E errand \in CreateSocket(s, x) : Begin(FALSE, errand)
    BY <2>1
  <2>3. PICK errand \in CreateSocket(s, x) : Begin(FALSE, errand)
    BY <2>2
  <2>4. s \in Slots /\ x \in Slots \cup {AnySlot} /\ 0 \in Nat /\ 1 \in Nat
    BY <2>1, <2>2, InTheBag
  <2>5. Errand(Grade(s, 1), s) /\ Errand(Grade(s, 0), s) /\ Errand(Save(s), s)
    BY <2>4, GradeErrand, SaveErrand
  <2>6. errand \in Errands(s)
    <3>1. CASE mem[s].grade = 0
      <4>1. errand = Spend(x) \o <<Grade(s, 1), Save(s)>>
        BY <2>3, <3>1 DEF CreateSocket
      <4>2. Spend(x) \in Errands(s) /\ <<Grade(s, 1), Save(s)>> \in Errands(s)
        BY <2>4, <2>5, SpendErrands, TwoErrands
      <4> QED
        BY <4>1, <4>2, ErrandsJoin
    <3>2. CASE mem[s].grade # 0
      <4>1. x \in InBag(Stackable) /\ errand = <<Take(x, 1), Grade(s, 0)>>
        BY <2>3, <3>2 DEF CreateSocket
      <4>2. x \in Slots
        BY <4>1, InTheBag
      <4>3. Errand(Take(x, 1), s)
        BY <2>4, <4>2, TakeErrand
      <4> QED
        BY <2>5, <4>1, <4>3, TwoErrands
    <3> QED
      BY <3>1, <3>2
  <2> QED
    BY <2>3, <2>4, <2>6 DEF StartsErrands
<1>2. CASE UpgradeSocketHandler
  <2>1. PICK s \in InBag(Gear), g \in InBag(Stackable) : \E x \in Extras \ {s} :
          mem[s].grade > 0 /\ \E errand \in UpgradeSocket(s, g, x) : Begin(FALSE, errand)
    BY <1>2 DEF UpgradeSocketHandler
  <2>2. PICK x \in Extras \ {s} : \E errand \in UpgradeSocket(s, g, x) : Begin(FALSE, errand)
    BY <2>1
  <2>3. PICK errand \in UpgradeSocket(s, g, x) : Begin(FALSE, errand)
    BY <2>2
  <2>4. s \in Slots /\ g \in Slots /\ x \in Slots \cup {AnySlot} /\ 1 \in Nat
    BY <2>1, <2>2, InTheBag
  <2>5. Errand(Grade(s, 1), s) /\ Errand(Save(s), s) /\ Errand(Take(g, 1), s)
    BY <2>4, GradeErrand, SaveErrand, TakeErrand
  <2>6. <<Grade(s, 1), Save(s), Take(g, 1)>> \in Errands(s) /\ Spend(x) \in Errands(s)
    BY <2>4, <2>5, ThreeErrands, SpendErrands
  <2>7. errand = <<Grade(s, 1), Save(s), Take(g, 1)>> \o Spend(x)
    BY <2>3 DEF UpgradeSocket, Unless
  <2>8. errand \in Errands(s)
    BY <2>6, <2>7, ErrandsJoin
  <2> QED
    BY <2>3, <2>4, <2>8 DEF StartsErrands
<1> QED
  BY <1>1, <1>2

LEMMA ConsumableErrands == ASSUME ITypeOK, HolyWaterUpgradeHandler \/ OpenBox PROVE StartsErrands
<1>1. CASE HolyWaterUpgradeHandler
  <2>1. PICK s \in InBag(Gear), w \in InBag(Stackable) : \E errand \in HolyWaterUpgrade(s, w) : Begin(FALSE, errand)
    BY <1>1 DEF HolyWaterUpgradeHandler
  <2>2. PICK errand \in HolyWaterUpgrade(s, w) : Begin(FALSE, errand)
    BY <2>1
  <2>3. s \in Slots /\ w \in Slots /\ 1 \in Nat
    BY <2>1, InTheBag
  <2>4. mem[s] \in Items
    BY <2>3 DEF ITypeOK
  <2>5. mem[s].grade \in Nat
    BY <2>4, ItemIs
  <2>6. errand \in {<<Grade(s, g), Drop(w), Save(s)>> : g \in {mem[s].grade, 1}}
    BY <2>2 DEF HolyWaterUpgrade, Unless
  <2>7. PICK g \in {mem[s].grade, 1} : errand = <<Grade(s, g), Drop(w), Save(s)>>
    BY <2>6
  <2>8. Errand(Grade(s, g), s) /\ Errand(Drop(w), s) /\ Errand(Save(s), s)
    BY <2>3, <2>5, <2>7, GradeErrand, DropErrand, SaveErrand
  <2>9. errand \in Errands(s)
    BY <2>7, <2>8, ThreeErrands
  <2> QED
    BY <2>2, <2>3, <2>9 DEF StartsErrands
<1>2. CASE OpenBox
  <2>1. PICK s \in InBag(Stackable) : \E errand \in UseConsumable(s) : Begin(TRUE, errand)
    BY <1>2 DEF OpenBox
  <2>2. PICK errand \in UseConsumable(s) : Begin(TRUE, errand)
    BY <2>1
  <2>3. s \in Slots /\ 0 \in Nat /\ 1 \in Nat
    BY <2>1, InTheBag
  <2>4. mem[s] \in Items
    BY <2>3 DEF ITypeOK
  <2>5. mem[s].qty \in Nat
    BY <2>4, ItemIs
  <2>6. \/ errand \in {<<Take(s, n)>> : n \in {0, 1}}
        \/ errand \in {<<Put(AnySlot, k, n), Take(s, n)>> : k \in Kinds \ {mem[s].kind}, n \in {1, mem[s].qty}}
    BY <2>2 DEF UseConsumable, Unless
  <2>7. CASE errand \in {<<Take(s, n)>> : n \in {0, 1}}
    <3>1. PICK n \in {0, 1} : errand = <<Take(s, n)>>
      BY <2>7
    <3>2. Errand(Take(s, n), s)
      BY <2>3, <3>1, TakeErrand
    <3>3. errand \in Errands(s)
      BY <3>1, <3>2, OneErrand
    <3> QED
      BY <2>2, <2>3, <3>3 DEF StartsErrands
  <2>8. CASE errand \in {<<Put(AnySlot, k, n), Take(s, n)>> : k \in Kinds \ {mem[s].kind}, n \in {1, mem[s].qty}}
    <3>1. PICK k \in Kinds \ {mem[s].kind}, n \in {1, mem[s].qty} : errand = <<Put(AnySlot, k, n), Take(s, n)>>
      BY <2>8
    <3>2. Errand(Put(AnySlot, k, n), s) /\ Errand(Take(s, n), s)
      BY <2>3, <2>5, <3>1, PutErrand, TakeErrand
    <3>3. errand \in Errands(s)
      BY <3>1, <3>2, TwoErrands
    <3> QED
      BY <2>2, <2>3, <3>3 DEF StartsErrands
  <2> QED
    BY <2>6, <2>7, <2>8
<1> QED
  BY <1>1, <1>2

\* The first call of a list of errands needs no second slot and empties none.
LEMMA ErrandsAreTodos ==
  ASSUME NEW s, NEW todo \in Errands(s), todo # <<>>
  PROVE  /\ todo \in Todos /\ Errand(Head(todo), s) /\ Joins(todo) /\ Head(todo).op # "wipe"
         /\ \A i \in 1..Len(todo) : Errand(todo[i], s)
<1>1. todo \in Seq(Calls) /\ \A i \in 1..Len(todo) : Errand(todo[i], s)
  BY DEF Errands
<1>2. \A i \in 2..Len(todo) : i \in 1..Len(todo)
  BY <1>1, LenProperties
<1>3. todo \in Todos
  BY <1>1, <1>2 DEF Todos, Errand, Plain
<1>4. Head(todo) = todo[1] /\ 1 \in 1..Len(todo)
  BY <1>3, TodoIs
<1> QED
  BY <1>1, <1>3, <1>4 DEF Errand, Joins

LEMMA ErrandsN == ASSUME NInv, StartsErrands PROVE NInv' /\ flaw \subseteq flaw'
<1>1. PICK lock \in BOOLEAN, s \in Slots \cup {AnySlot} : \E todo \in Errands(s) : Begin(lock, todo)
  BY DEF StartsErrands
<1>2. PICK todo \in Errands(s) : Begin(lock, todo)
  BY <1>1
<1>3. todo # <<>>
  BY <1>2 DEF Begin
<1>4. todo \in Todos /\ Joins(todo) /\ Head(todo).op # "wipe"
  BY <1>2, <1>3, ErrandsAreTodos
<1> QED
  BY <1>2, <1>4, BeginN
LEMMA TodosOne ==
  ASSUME NEW c \in Calls
  PROVE  <<c>> \in Todos /\ Head(<<c>>) = c
<1>1. <<c>> \in Seq(Calls) /\ Len(<<c>>) = 1 /\ Head(<<c>>) = c
  OBVIOUS
<1>2. \A i \in 2..Len(<<c>>) : FALSE
  BY <1>1
<1> QED
  BY <1>1, <1>2 DEF Todos

\* How a move, a swap, a combination or a split starts.
MoveOps == {"move", "swap", "join"}
StartsMove == \E lock \in BOOLEAN, w \in Held, t \in Slots :
    \E op \in MoveOps :
        /\ op = "join" => t \in Held /\ mem[w].kind = mem[t].kind
        /\ Begin(lock, <<Call(op, w, t, 0)>>)
SplitCalls(w, t, n) == <<Call("copy", w, t, n), Take(w, n), Call("insert", t, NoKind, 0)>>
StartsSplit == \E w \in Held, t \in Slots : \E n \in 1..mem[w].qty : Begin(TRUE, SplitCalls(w, t, n))

LEMMA MovesStart ==
  ASSUME ReplaceItem \/ SwapItems \/ CombineItems \/ SplitItem
  PROVE  StartsMove \/ StartsSplit
<1>0. TRUE \in BOOLEAN /\ Held \subseteq Slots
  BY DEF Held
<1>1. CASE ReplaceItem
  BY <1>0, <1>1 DEF ReplaceItem, StartsMove, MoveOps
<1>2. CASE SwapItems
  BY <1>0, <1>2 DEF SwapItems, StartsMove, MoveOps
<1>3. CASE CombineItems
  BY <1>0, <1>3 DEF CombineItems, StartsMove, MoveOps
<1>4. CASE SplitItem
  BY <1>4 DEF SplitItem, StartsSplit, SplitCalls
<1> QED
  BY <1>1, <1>2, <1>3, <1>4

LEMMA MoveCall ==
  ASSUME NEW w \in Slots, NEW t \in Slots, NEW op \in MoveOps
  PROVE  /\ <<Call(op, w, t, 0)>> \in Todos /\ Head(<<Call(op, w, t, 0)>>) = Call(op, w, t, 0)
         /\ Call(op, w, t, 0).op = op /\ Call(op, w, t, 0).slot = w /\ Call(op, w, t, 0).with = t
<1> DEFINE c == Call(op, w, t, 0)
<1>1. c \in Calls /\ c.op = op /\ c.slot = w /\ c.with = t
  BY SlotAssumption DEF Call, Calls, Plain, FirstOnly, AnySlot, TwoSlots, Slots, MoveOps
<1> HIDE DEF c
<1>2. <<c>> \in Todos /\ Head(<<c>>) = c
  BY <1>1, TodosOne
<1> QED
  BY <1>1, <1>2 DEF c

LEMMA SplitTodo ==
  ASSUME NEW w \in Slots, NEW t \in Slots, NEW n \in Nat
  PROVE  /\ SplitCalls(w, t, n) \in Todos /\ Head(SplitCalls(w, t, n)).op = "copy" /\ Len(SplitCalls(w, t, n)) = 3
         /\ SplitCalls(w, t, n)[1] = Call("copy", w, t, n) /\ SplitCalls(w, t, n)[2] = Take(w, n)
         /\ SplitCalls(w, t, n)[3] = Call("insert", t, NoKind, 0) /\ Head(SplitCalls(w, t, n)) = Call("copy", w, t, n)
<1> DEFINE a == Call("copy", w, t, n)
           b == Take(w, n)
           d == Call("insert", t, NoKind, 0)
<1>1. a \in Calls /\ b \in Calls /\ d \in Calls /\ a.op = "copy" /\ b.op = "take" /\ d.op = "insert"
  BY SlotAssumption DEF Take, Call, Calls, Plain, FirstOnly, AnySlot, TwoSlots, Slots
<1> HIDE DEF a, b, d
<1>2. <<a, b, d>> \in Seq(Calls) /\ Len(<<a, b, d>>) = 3 /\ Head(<<a, b, d>>) = a /\ <<a, b, d>>[1] = a /\ <<a, b, d>>[2] = b /\ <<a, b, d>>[3] = d
  BY <1>1
<1>3. \A i \in 2..Len(<<a, b, d>>) : i = 2 \/ i = 3
  BY <1>2
<1>4. <<a, b, d>> \in Todos
  BY <1>1, <1>2, <1>3 DEF Todos, Plain
<1> QED
  BY <1>1, <1>2, <1>4 DEF SplitCalls, a, b, d

LEMMA MovesN == ASSUME NInv, StartsMove \/ StartsSplit PROVE NInv' /\ flaw \subseteq flaw'
<1>0. Held \subseteq Slots
  BY DEF Held
<1>1. CASE StartsMove
  <2>1. PICK lock \in BOOLEAN, w \in Held, t \in Slots :
          \E op \in MoveOps :
            /\ op = "join" => t \in Held /\ mem[w].kind = mem[t].kind
            /\ Begin(lock, <<Call(op, w, t, 0)>>)
    BY <1>1 DEF StartsMove
  <2>2. PICK op \in MoveOps :
            /\ op = "join" => t \in Held /\ mem[w].kind = mem[t].kind
            /\ Begin(lock, <<Call(op, w, t, 0)>>)
    BY <2>1
  <2>8. w \in Slots
    BY <1>0
  <2>7. /\ <<Call(op, w, t, 0)>> \in Todos /\ Head(<<Call(op, w, t, 0)>>) = Call(op, w, t, 0)
        /\ Call(op, w, t, 0).op = op /\ Call(op, w, t, 0).slot = w /\ Call(op, w, t, 0).with = t
    BY <2>2, <2>8, MoveCall
  <2> DEFINE todo == <<Call(op, w, t, 0)>>
  <2>3. /\ todo \in Todos /\ Head(todo) = Call(op, w, t, 0)
        /\ Call(op, w, t, 0).op = op /\ Call(op, w, t, 0).slot = w /\ Call(op, w, t, 0).with = t
    BY <2>7
  <2>4. Begin(lock, todo)
    BY <2>2
  <2> HIDE DEF todo
  <2>5. Head(todo).op = op /\ Head(todo).slot = w /\ Head(todo).with = t
    BY <2>3
  <2>6. Joins(todo)
    BY <2>1, <2>2, <2>5 DEF Joins, Held, Occupied, MoveOps
  <2> QED
    BY <2>2, <2>3, <2>4, <2>5, <2>6, BeginN DEF MoveOps
<1>2. CASE StartsSplit
  <2>1. PICK w \in Held, t \in Slots : \E n \in 1..mem[w].qty : Begin(TRUE, SplitCalls(w, t, n))
    BY <1>2 DEF StartsSplit
  <2>2. PICK n \in 1..mem[w].qty : Begin(TRUE, SplitCalls(w, t, n))
    BY <2>1
  <2>3. n \in Nat
    BY <2>2
  <2>4. SplitCalls(w, t, n) \in Todos /\ Head(SplitCalls(w, t, n)).op = "copy"
    BY <1>0, <2>3, SplitTodo
  <2>5. Joins(SplitCalls(w, t, n))
    BY <2>4 DEF Joins
  <2> QED
    BY <2>2, <2>4, <2>5, BeginN
<1> QED
  BY <1>1, <1>2
\* What changes the bag at once, while no handler works on what changes.
LEMMA AtOnceN ==
  ASSUME NInv, ITypeOK', running' = running, owed' = owed, flaw \subseteq flaw',
         Undisturbed' => JoinInv' /\ \A k \in Kinds : SumFunction(Worth(k)') = SumFunction(Worth(k))
  PROVE  NInv'
<1>1. ASSUME Undisturbed' PROVE Apart' /\ JoinInv' /\ LedgerInv'
  <2>1. Apart /\ JoinInv /\ LedgerInv
    BY <1>1, Undisturbs DEF NInv
  <2>2. Apart'
    BY <2>1 DEF Apart
  <2>3. LedgerInv'
    BY <1>1, <2>1 DEF LedgerInv
  <2> QED
    BY <1>1, <2>2, <2>3
<1> QED
  BY <1>1 DEF NInv

Toggled(i) == [i EXCEPT !.active = ~@]
LEMMA ToggledIs ==
  ASSUME NEW i \in Items
  PROVE  /\ Toggled(i) \in Items /\ Toggled(i).kind = i.kind /\ Toggled(i).row = i.row /\ Toggled(i).qty = i.qty
         /\ Toggled(i).grade = i.grade
  BY DEF Toggled, Items

LEMMA ActivateIs ==
  ASSUME ITypeOK, ActivateTimeLimitedItem
  PROVE  \E s \in Held :
            /\ s \in Slots /\ mem' = [mem EXCEPT ![s] = Toggled(mem[s])] /\ mem' \in [Slots -> Items]
            /\ mem'[s] = Toggled(mem[s]) /\ db' = Update(db, s, Toggled(mem[s])) /\ db' \in [1..MaxRow -> Records]
            /\ flaw' = IF {s} \cap UNION {Slotted(running[g].todo) : g \in Runners} # {} \/ Pending({s})
                       THEN flaw \cup {"overlap"} ELSE flaw
            /\ lastRow' = lastRow /\ running' = running /\ late' = late /\ owed' = owed
<1>1. PICK s \in Held :
        /\ mem' = [mem EXCEPT ![s].active = ~@]
        /\ db' = Update(db, s, mem'[s])
        /\ flaw' = IF {s} \cap UNION {Slotted(running[g].todo) : g \in Runners} # {} \/ Pending({s})
                   THEN flaw \cup {"overlap"} ELSE flaw
        /\ UNCHANGED <<lastRow, running, late, packetSended, busy, owed>>
  BY DEF ActivateTimeLimitedItem
<1>2. s \in Slots /\ mem[s] \in Items /\ mem \in [Slots -> Items] /\ db \in [1..MaxRow -> Records]
  BY InTheBag DEF ITypeOK
<1>3. mem' = [mem EXCEPT ![s] = Toggled(mem[s])]
  BY <1>1 DEF Toggled
<1>4. Toggled(mem[s]) \in Items
  BY <1>2, ToggledIs
<1>5. mem'[s] = Toggled(mem[s]) /\ mem' \in [Slots -> Items]
  BY <1>2, <1>3, <1>4
<1>6. db' = Update(db, s, Toggled(mem[s]))
  BY <1>1, <1>5
<1>7. db' \in [1..MaxRow -> Records]
  BY <1>2, <1>4, <1>6, UpdateIs
<1> QED
  BY <1>1, <1>2, <1>3, <1>5, <1>6, <1>7

LEMMA ActivateN == ASSUME NInv, ActivateTimeLimitedItem PROVE NInv' /\ flaw \subseteq flaw'
<1>0. ITypeOK
  BY DEF NInv
<1>1. PICK s \in Held :
            /\ s \in Slots /\ mem' = [mem EXCEPT ![s] = Toggled(mem[s])] /\ mem' \in [Slots -> Items]
            /\ mem'[s] = Toggled(mem[s]) /\ db' \in [1..MaxRow -> Records]
            /\ flaw \subseteq flaw'
            /\ lastRow' = lastRow /\ running' = running /\ late' = late /\ owed' = owed
  BY <1>0, ActivateIs
<1>2. mem[s] \in Items /\ mem \in [Slots -> Items]
  BY <1>0, <1>1 DEF ITypeOK
<1>3. \A t \in Slots : mem'[t].kind = mem[t].kind /\ mem'[t].qty = mem[t].qty
  BY <1>1, <1>2, ToggledIs
<1>4. ITypeOK'
  BY <1>0, <1>1 DEF ITypeOK
<1>5. ASSUME Undisturbed' PROVE JoinInv' /\ \A k \in Kinds : SumFunction(Worth(k)') = SumFunction(Worth(k))
  <2>1. JoinInv
    BY <1>1, <1>5, Undisturbs DEF NInv
  <2>2. JoinInv'
    <3> SUFFICES ASSUME NEW h \in Runners PROVE Joins(running[h].todo)'
      BY DEF JoinInv
    <3>1. Joins(running[h].todo) /\ running'[h].todo = running[h].todo /\ running[h].todo \in Todos
      BY <1>0, <1>1, <2>1, WorkingIs DEF JoinInv
    <3>2. CASE running[h].todo # <<>> /\ Head(running[h].todo).op = "join"
      <4>1. Head(running[h].todo).slot \in Slots /\ Head(running[h].todo).with \in Slots
        BY <1>0, <3>2, SingleSlot DEF TwoSlots
      <4> QED
        BY <1>3, <3>1, <3>2, <4>1 DEF Joins, Occupied
    <3>3. CASE ~(running[h].todo # <<>> /\ Head(running[h].todo).op = "join")
      BY <3>1, <3>3 DEF Joins
    <3> QED
      BY <3>2, <3>3
  <2>3. \A k \in Kinds : Worth(k)' = Worth(k)
    BY <1>1, <1>3 DEF Worth, Wiped
  <2> QED
    BY <2>2, <2>3
<1> QED
  BY <1>0, <1>1, <1>4, <1>5, AtOnceN

\* The slots S get what they hold in another order, and goroutines are to write it.
Arranged(S) ==
    \E f \in [S -> S] :
        /\ \A s, t \in S : f[s] = f[t] => s = t
        /\ \A t \in S : \E s \in S : f[s] = t
        /\ \A s \in S : mem'[s] = mem[f[s]]
        /\ \A s \in Slots \ S : mem'[s] = mem[s]
        /\ late' = late \cup {[slot |-> s, item |-> mem[f[s]]] : s \in {t \in S : mem[f[t]].row # 0}}
        /\ ("overlap" \notin flaw' => /\ flaw' = flaw /\ ~Pending(S)
                                      /\ \A g \in Runners : Slotted(running[g].todo) \cap S = {})

LEMMA ArrangeIs ==
  ASSUME ITypeOK, NEW S, S \subseteq Slots, Arrange(S)
  PROVE  /\ Arranged(S) /\ mem' \in [Slots -> Items] /\ flaw \subseteq flaw' /\ late' \subseteq [slot : Slots, item : Items]
         /\ db' = db /\ lastRow' = lastRow /\ running' = running /\ owed' = owed
<1>1. PICK f \in Bijection(S, S) :
        LET now == [s \in S |-> mem[f[s]]] IN
        /\ mem' = [s \in Slots |-> IF s \in S THEN now[s] ELSE mem[s]]
        /\ late' = late \cup {[slot |-> s, item |-> now[s]] : s \in {t \in S : now[t].row # 0}}
        /\ flaw' = IF (\E g \in Runners : Slotted(running[g].todo) \cap S # {})
                      \/ Pending(S)
                   THEN flaw \cup {"overlap"} ELSE flaw
  BY DEF Arrange
<1>2. f \in [S -> S] /\ \A t \in S : \E s \in S : f[s] = t
  BY DEF Bijection, Surjection
<1>3. \A s, t \in S : f[s] = f[t] => s = t
  BY <1>2 DEF Bijection, Injection, IsInjective
<1> DEFINE now == [s \in S |-> mem[f[s]]]
<1>4. /\ mem' = [s \in Slots |-> IF s \in S THEN now[s] ELSE mem[s]]
      /\ late' = late \cup {[slot |-> s, item |-> now[s]] : s \in {t \in S : now[t].row # 0}}
      /\ flaw' = IF (\E g \in Runners : Slotted(running[g].todo) \cap S # {}) \/ Pending(S)
                 THEN flaw \cup {"overlap"} ELSE flaw
  BY <1>1
<1>5. \A s \in S : now[s] = mem[f[s]] /\ mem[f[s]] \in Items /\ s \in Slots
  BY <1>2 DEF ITypeOK
<1>6. mem' \in [Slots -> Items] /\ (\A s \in S : mem'[s] = mem[f[s]]) /\ \A s \in Slots \ S : mem'[s] = mem[s]
  BY <1>4, <1>5 DEF ITypeOK
<1>7. {[slot |-> s, item |-> now[s]] : s \in {t \in S : now[t].row # 0}} = {[slot |-> s, item |-> mem[f[s]]] : s \in {t \in S : mem[f[t]].row # 0}}
  BY <1>5
<1>8. late' \subseteq [slot : Slots, item : Items]
  <2>1. \A s \in S : [slot |-> s, item |-> now[s]] \in [slot : Slots, item : Items]
    BY <1>5
  <2> HIDE DEF now
  <2> QED
    BY <1>4, <2>1 DEF ITypeOK
<1>9. flaw \subseteq flaw' /\ ("overlap" \notin flaw' => /\ flaw' = flaw /\ ~Pending(S)
                                      /\ \A g \in Runners : Slotted(running[g].todo) \cap S = {})
  BY <1>4
<1>10. late' = late \cup {[slot |-> s, item |-> mem[f[s]]] : s \in {t \in S : mem[f[t]].row # 0}}
  BY <1>4, <1>7
<1>11. Arranged(S)
  BY <1>2, <1>3, <1>6, <1>9, <1>10 DEF Arranged
<1>12. db' = db /\ lastRow' = lastRow /\ running' = running /\ owed' = owed
  BY DEF Arrange
<1> QED
  BY <1>6, <1>8, <1>9, <1>11, <1>12
LEMMA ArrangeN == ASSUME NInv, NEW S, S \subseteq Slots, Arrange(S) PROVE NInv' /\ flaw \subseteq flaw'
<1>0. ITypeOK
  BY DEF NInv
<1>1. /\ Arranged(S) /\ mem' \in [Slots -> Items] /\ flaw \subseteq flaw' /\ late' \subseteq [slot : Slots, item : Items]
      /\ db' = db /\ lastRow' = lastRow /\ running' = running /\ owed' = owed
  BY <1>0, ArrangeIs
<1>2. PICK f \in [S -> S] :
        /\ \A s, t \in S : f[s] = f[t] => s = t
        /\ \A t \in S : \E s \in S : f[s] = t
        /\ \A s \in S : mem'[s] = mem[f[s]]
        /\ \A s \in Slots \ S : mem'[s] = mem[s]
        /\ ("overlap" \notin flaw' => \A g \in Runners : Slotted(running[g].todo) \cap S = {})
  BY <1>1 DEF Arranged
<1>3. ITypeOK'
  BY <1>0, <1>1 DEF ITypeOK
<1>4. ASSUME Undisturbed' PROVE JoinInv' /\ \A k \in Kinds : SumFunction(Worth(k)') = SumFunction(Worth(k))
  <2>1. JoinInv
    BY <1>1, <1>4, Undisturbs DEF NInv
  <2>2. \A g \in Runners : Slotted(running[g].todo) \cap S = {}
    BY <1>2, <1>4 DEF Undisturbed
  <2>3. JoinInv'
    <3> SUFFICES ASSUME NEW h \in Runners PROVE Joins(running[h].todo)'
      BY DEF JoinInv
    <3>1. Joins(running[h].todo) /\ running'[h].todo = running[h].todo
      BY <1>1, <2>1 DEF JoinInv
    <3>2. CASE running[h].todo # <<>> /\ Head(running[h].todo).op = "join"
      <4>1. /\ Head(running[h].todo).slot \in Slots /\ Head(running[h].todo).slot \in Slotted(running[h].todo)
            /\ Head(running[h].todo).with \in Slots /\ Head(running[h].todo).with \in Slotted(running[h].todo)
        BY <1>0, <3>2, SingleSlot DEF TwoSlots
      <4>2. mem'[Head(running[h].todo).slot] = mem[Head(running[h].todo).slot] /\ mem'[Head(running[h].todo).with] = mem[Head(running[h].todo).with]
        BY <1>2, <2>2, <4>1
      <4> QED
        BY <3>1, <3>2, <4>2 DEF Joins, Occupied
    <3>3. CASE ~(running[h].todo # <<>> /\ Head(running[h].todo).op = "join")
      BY <3>1, <3>3 DEF Joins
    <3> QED
      BY <3>2, <3>3
  <2>4. \A s \in S : ~Wiped(s)
    <3> SUFFICES ASSUME NEW s \in S, NEW h \in Runners, HeadIs(running[h].todo, "wipe", s) PROVE FALSE
      BY DEF Wiped
    <3>1. running[h].todo # <<>> /\ Head(running[h].todo).op = "wipe" /\ Head(running[h].todo).slot = s
      BY DEF HeadIs
    <3>2. s \in Slotted(running[h].todo)
      BY <1>0, <3>1, SingleSlot
    <3> QED
      BY <2>2, <3>2
  <2>5. \A s \in Slots : Wiped(s)' <=> Wiped(s)
    BY <1>1 DEF Wiped
  <2>6. ASSUME NEW k \in Kinds PROVE SumFunction(Worth(k)') = SumFunction(Worth(k))
    <3> DEFINE old == Worth(k)
               new == Worth(k)'
               p == [s \in Slots |-> IF s \in S THEN f[s] ELSE s]
    <3>1. p \in [Slots -> Slots] /\ (\A x, y \in Slots : p[x] = p[y] => x = y) /\ \A x \in Slots : \E y \in Slots : p[y] = x
      <4>1. \A s \in S : f[s] \in S
        OBVIOUS
      <4>2. \A s \in Slots : p[s] = IF s \in S THEN f[s] ELSE s
        OBVIOUS
      <4>3. p \in [Slots -> Slots]
        BY <4>1
      <4> HIDE DEF p
      <4>4. \A x, y \in Slots : p[x] = p[y] => x = y
        BY <1>2, <4>1, <4>2
      <4>5. ASSUME NEW x \in Slots PROVE \E y \in Slots : p[y] = x
        BY <1>2, <4>2
      <4> QED
        BY <4>3, <4>4, <4>5
    <3>2. \A s \in Slots : mem[s] \in Items
      BY <1>0 DEF ITypeOK
    <3>3. \A s \in Slots : old[s] \in Int
      <4>1. \A s \in Slots : mem[s].qty \in Nat
        BY <3>2, ItemIs
      <4> QED
        BY <4>1 DEF Worth
    <3>4. ASSUME NEW s \in Slots PROVE new[s] = old[p[s]]
      <4>1. new[s] = IF mem'[s].kind = k /\ ~Wiped(s) THEN mem'[s].qty ELSE 0
        BY <2>5 DEF Worth
      <4>2. CASE s \in S
        <5>1. p[s] = f[s] /\ f[s] \in S /\ f[s] \in Slots /\ mem'[s] = mem[f[s]] /\ ~Wiped(s) /\ ~Wiped(f[s])
          BY <1>2, <2>4, <4>2
        <5>2. old[f[s]] = IF mem[f[s]].kind = k /\ ~Wiped(f[s]) THEN mem[f[s]].qty ELSE 0
          BY <5>1 DEF Worth
        <5> QED
          BY <4>1, <5>1, <5>2
      <4>3. CASE s \notin S
        <5>1. p[s] = s /\ mem'[s] = mem[s]
          BY <1>2, <4>3
        <5>2. old[s] = IF mem[s].kind = k /\ ~Wiped(s) THEN mem[s].qty ELSE 0
          BY DEF Worth
        <5> QED
          BY <4>1, <5>1, <5>2
      <4> QED
        BY <4>2, <4>3
    <3>5. SumFunction(old) = SumFunctionOnSet(old, Slots) /\ SumFunction(new) = SumFunctionOnSet(new, Slots)
      BY DEF SumFunction, Worth
    <3>6. IsFiniteSet(Slots)
      BY SlotAssumption DEF Slots
    <3> HIDE DEF old, new, p
    <3>7. \A s \in Slots : old[s] \in Int /\ new[s] = old[p[s]]
      BY <3>3, <3>4
    <3>8. SumFunctionOnSet(new, Slots) = SumFunctionOnSet(old, Slots)
      BY <3>1, <3>6, <3>7, SumPermuted
    <3>9. SumFunction(new) = SumFunction(old)
      BY <3>5, <3>8
    <3> QED
      BY <3>9 DEF old, new
  <2> QED
    BY <2>3, <2>6
<1> QED
  BY <1>0, <1>1, <1>3, <1>4, AtOnceN

\* Nothing that the ledger is about changes.
LEMMA BesidesN ==
  ASSUME NInv, mem' = mem, running' = running, owed' = owed, flaw' = flaw, lastRow' = lastRow,
         db' \in [1..MaxRow -> Records], late' \subseteq [slot : Slots, item : Items]
  PROVE  NInv'
<1>1. ITypeOK'
  BY DEF NInv, ITypeOK
<1>2. ASSUME Undisturbed' PROVE JoinInv' /\ \A k \in Kinds : SumFunction(Worth(k)') = SumFunction(Worth(k))
  <2>1. JoinInv
    BY <1>2, Undisturbs DEF NInv
  <2>2. JoinInv'
    BY <2>1 DEF JoinInv, Joins, Occupied
  <2>3. \A k \in Kinds : Worth(k)' = Worth(k)
    BY DEF Worth, Wiped
  <2> QED
    BY <2>2, <2>3
<1> QED
  BY <1>1, <1>2, AtOnceN

LEMMA LateWriteIs ==
  ASSUME ITypeOK, LateWrite
  PROVE  \E w \in late :
            /\ w.slot \in Slots /\ w.item \in Items /\ mem[w.slot] \in Items
            /\ db' = Update(db, w.slot, IF w.item = NewSlot THEN mem[w.slot] ELSE w.item) /\ db' \in [1..MaxRow -> Records]
            /\ late' = late \ {w} /\ mem' = mem /\ lastRow' = lastRow /\ running' = running /\ owed' = owed /\ flaw' = flaw
<1>1. PICK w \in late :
        /\ db' = Update(db, w.slot, IF w.item = NewSlot THEN mem[w.slot] ELSE w.item)
        /\ late' = late \ {w}
        /\ UNCHANGED <<mem, lastRow, running, packetSended, busy, owed, flaw, starts>>
  BY DEF LateWrite
<1> DEFINE i == IF w.item = NewSlot THEN mem[w.slot] ELSE w.item
<1>2. w.slot \in Slots /\ w.item \in Items /\ db \in [1..MaxRow -> Records]
  BY DEF ITypeOK
<1>3. mem[w.slot] \in Items
  BY <1>2 DEF ITypeOK
<1>4. i \in Items
  BY <1>2, <1>3
<1>5. db' = Update(db, w.slot, i)
  BY <1>1
<1> HIDE DEF i
<1>6. db' \in [1..MaxRow -> Records]
  BY <1>2, <1>4, <1>5, UpdateIs
<1> QED
  BY <1>1, <1>2, <1>3, <1>6

LEMMA AlreadyN ==
  ASSUME NInv, UNCHANGED <<mem, db, lastRow, running, late, owed, flaw>>
  PROVE  NInv'
<1>1. db \in [1..MaxRow -> Records] /\ late \subseteq [slot : Slots, item : Items]
  BY DEF NInv, ITypeOK
<1> QED
  BY <1>1, BesidesN

LEMMA NextN == ASSUME NInv, [Next]_vars PROVE NInv'
<1>0. ITypeOK /\ BagSlots \subseteq Slots /\ BankSlots \subseteq Slots
  BY DEF NInv, Slots
<1>1. CASE UNCHANGED vars
  BY <1>1, AlreadyN DEF vars
<1>2. CASE \E h \in Runners : Step(h)
  BY <1>2, StepN
<1>3. CASE LateWrite
  <2>1. /\ db' \in [1..MaxRow -> Records] /\ late' \subseteq late /\ mem' = mem /\ lastRow' = lastRow /\ running' = running
        /\ owed' = owed /\ flaw' = flaw
    BY <1>0, <1>3, LateWriteIs
  <2>2. late' \subseteq [slot : Slots, item : Items]
    BY <1>0, <2>1 DEF ITypeOK
  <2> QED
    BY <2>1, <2>2, BesidesN
<1>4. CASE WaitFunctionTimer \/ ArrangeInventory
  <2>1. UNCHANGED <<mem, db, lastRow, running, late, owed, flaw>> \/ Arrange(BagSlots)
    BY <1>4 DEF WaitFunctionTimer, ArrangeInventory
  <2> QED
    BY <1>0, <2>1, ArrangeN, AlreadyN
<1>5. CASE ArrangeBank
  <2>1. Arrange(BankSlots)
    BY <1>5 DEF ArrangeBank
  <2> QED
    BY <1>0, <2>1, ArrangeN
<1>6. CASE TradeOrSale
  <2>1. UNCHANGED <<mem, db, lastRow, running, late, owed, flaw>>
    BY <1>6 DEF TradeOrSale
  <2> QED
    BY <2>1, AlreadyN
<1>7. CASE ActivateTimeLimitedItem
  BY <1>7, ActivateN
<1>8. CASE ReplaceItem \/ SwapItems \/ CombineItems \/ SplitItem
  BY <1>8, MovesStart, MovesN
<1>9. CASE DestroyItem \/ SellItem \/ Loot \/ BuyHTItem \/ ReplaceHTItem \/ DiscriminateItem
  BY <1>0, <1>9, FewErrands, ErrandsN
<1>10. CASE StrengthenHandler \/ ProductionHandler \/ CoProductionHandler \/ AdvancedFusionHandler
  BY <1>0, <1>10, StrengthenErrands, ProductionErrands, FusionErrands, ErrandsN
<1>11. CASE DismantleHandler \/ ExtractionHandler \/ CreateSocketHandler \/ UpgradeSocketHandler
  BY <1>0, <1>11, SmithErrands, SocketErrands, ErrandsN
<1>12. CASE HolyWaterUpgradeHandler \/ OpenBox
  BY <1>0, <1>12, ConsumableErrands, ErrandsN
<1> QED
  BY <1>1, <1>2, <1>3, <1>4, <1>5, <1>6, <1>7, <1>8, <1>9, <1>10, <1>11, <1>12 DEF Next, Handlers

LEMMA InitN == ASSUME Init PROVE NInv
<1> DEFINE b == mem
<1>1. /\ mem \in [Slots -> Items] /\ Cardinality(Held) <= MaxRow
      /\ \A s \in Held : mem[s].row \in 1..Cardinality(Held)
      /\ \A s \in Slots \ Held : mem[s] = NewSlot
  <2>1. mem \in InitBags
    BY DEF Init
  <2>2. {s \in Slots : mem[s].kind # NoKind} = Held
    BY DEF Held, Occupied
  <2> QED
    BY <2>1, <2>2, InitBagsAssumption
<1>2. Cardinality(Held) \in Nat
  <2>1. IsFiniteSet(Held)
    BY SlotAssumption, FS_Subset DEF Held, Slots
  <2> QED
    BY <2>1, FS_CardinalityType
<1>3. running = [h \in Runners |-> Idle] /\ late = {} /\ lastRow = Cardinality(Held) /\ owed = [k \in Kinds |-> Pieces(k)]
  BY DEF Init
<1>4. running \in [Runners -> [lock : BOOLEAN, todo : Todos]] /\ \A h \in Runners : running[h].todo = <<>>
  BY <1>3, NothingTodo DEF Idle
<1>5. \A t : ~Wiped(t)
  BY <1>4 DEF Wiped, HeadIs
<1>6. \A s \in Slots : mem[s].qty \in Nat
  <2>1. \A s \in Slots : mem[s] \in Items
    BY <1>1
  <2> QED
    BY <2>1, ItemIs
<1>7. \A k \in Kinds : Pieces(k) = SumFunction(Worth(k)) /\ Pieces(k) \in Int
  <2> SUFFICES ASSUME NEW k \in Kinds PROVE Pieces(k) = SumFunction(Worth(k)) /\ Pieces(k) \in Int
    OBVIOUS
  <2>1. Worth(k) = [s \in Slots |-> IF mem[s].kind = k THEN mem[s].qty ELSE 0]
    BY <1>5 DEF Worth
  <2>2. Pieces(k) = SumFunction(Worth(k))
    BY <2>1 DEF Pieces
  <2>3. Worth(k) \in [Slots -> Nat]
    BY <1>6, <2>1
  <2>4. IsFiniteSet(Slots)
    BY SlotAssumption DEF Slots
  <2> QED
    BY <2>2, <2>3, <2>4, SumOverAll
<1>8. db \in [1..MaxRow -> Records]
  <2>1. db = [r \in 1..MaxRow |-> IF \E s \in Slots : mem[s].row = r
                                 THEN LET s == CHOOSE s \in Slots : mem[s].row = r IN [slot |-> s, item |-> mem[s]]
                                 ELSE Gone]
    BY DEF Init
  <2>2. ASSUME NEW r \in 1..MaxRow, \E s \in Slots : mem[s].row = r
        PROVE  LET s == CHOOSE s \in Slots : mem[s].row = r IN [slot |-> s, item |-> mem[s]] \in Records
    <3> DEFINE c == CHOOSE s \in Slots : mem[s].row = r
    <3>1. c \in Slots
      BY <2>2
    <3> HIDE DEF c
    <3>2. [slot |-> c, item |-> mem[c]] \in Records
      BY <1>1, <3>1 DEF Records
    <3> QED
      BY <3>2 DEF c
  <2> QED
    BY <2>1, <2>2, EmptyItems
<1>9. owed \in [Kinds -> Int]
  BY <1>3, <1>7
<1>10. ITypeOK
  BY <1>1, <1>2, <1>3, <1>4, <1>8, <1>9, BoundAssumption DEF ITypeOK
<1>11. Apart
  <2>1. \A h \in Runners : Slotted(running[h].todo) = {}
    BY <1>4, NothingTodo
  <2> QED
    BY <2>1 DEF Apart
<1>12. JoinInv
  BY <1>4 DEF JoinInv, Joins
<1>13. LedgerInv
  BY <1>3, <1>7 DEF LedgerInv
<1> QED
  BY <1>10, <1>11, <1>12, <1>13 DEF NInv

LEMMA NAlways == Spec => []NInv
<1>1. Init => NInv
  BY InitN
<1>2. NInv /\ [Next]_vars => NInv'
  BY NextN
<1> QED
  BY <1>1, <1>2, PTL DEF Spec

\* Of each kind the bag and the bank hold what was got and not used up, when all
\* handlers are done and no two of them worked on one slot.
THEOREM NothingIsLost == Spec => []NothingLost
<1>1. NInv => NothingLost
  <2> SUFFICES ASSUME NInv, Quiet, Undisturbed, NEW k \in Kinds PROVE Pieces(k) = owed[k]
    BY DEF NothingLost, Undisturbed
  <2>1. \A h \in Runners : running[h].todo = <<>>
    BY DEF Quiet, Idle
  <2>2. \A t : ~Wiped(t)
    BY <2>1 DEF Wiped, HeadIs
  <2>3. Worth(k) = [s \in Slots |-> IF mem[s].kind = k THEN mem[s].qty ELSE 0]
    BY <2>2 DEF Worth
  <2>4. Pieces(k) = SumFunction(Worth(k))
    BY <2>3 DEF Pieces
  <2> QED
    BY <2>4 DEF NInv, LedgerInv
<1> QED
  BY <1>1, NAlways, PTL

----------------------------------------------------------------------------
(* The rows of the bag *)

\* The part of a stack, copied to t, is still to be inserted.
Inserts(todo, t) == \E i \in 1..Len(todo) : todo[i].op = "insert" /\ todo[i].slot = t
Saves(todo, t) == \E i \in 1..Len(todo) : todo[i].op = "save" /\ todo[i].slot = t
\* What is in slot t has no row any more, or not yet.
Hidden(todo, t) == HeadIs(todo, "wipe", t) \/ (Inserts(todo, t) /\ Head(todo).op # "copy")
RowBy(todo, m, t) ==
    IF Hidden(todo, t) THEN 0 ELSE IF HeadIs(todo, "named", t) THEN Head(todo).n ELSE m[t].row
HidIn(run, t) == \E h \in Runners : Hidden(run[h].todo, t)
SavedIn(run, t) == \E h \in Runners : Saves(run[h].todo, t)
Namers(run, t) == {h \in Runners : HeadIs(run[h].todo, "named", t)}
Hid(t) == HidIn(running, t)
\* The row of the item in slot t, which the slot may not know yet; 0 if it has none.
RowIn(run, m, t) ==
    IF HidIn(run, t) THEN 0
    ELSE IF Namers(run, t) # {} THEN Head(run[CHOOSE h : h \in Namers(run, t)].todo).n
    ELSE m[t].row
Row(t) == RowIn(running, mem, t)
\* A change of the item in slot t is still to be written; where it is is still to be written.
Dirty(t) == SavedIn(running, t) \/ \E w \in late : w.item = NewSlot /\ w.slot = t
Moved(t) == \E w \in late : w.item # NewSlot /\ w.slot = t
Worked(t) == \E h \in Runners : t \in Slotted(running[h].todo)

RowTells(t) ==
    Row(t) # 0 =>
        /\ Row(t) \in 1..lastRow /\ db[Row(t)] # Gone /\ Occupied(t)
        /\ ~Moved(t) => db[Row(t)].slot = t
        /\ ~Moved(t) /\ ~Dirty(t) => db[Row(t)].item = [mem[t] EXCEPT !.row = Row(t)]
\* Every item has a row of its own, and every row an item.
RowsInv ==
    /\ \A t \in Slots : RowTells(t) /\ (Occupied(t) => Hid(t) \/ Row(t) # 0)
    /\ \A s, t \in Slots : Row(s) = Row(t) /\ Row(s) # 0 => s = t
    /\ \A r \in 1..MaxRow : db[r] # Gone => r <= lastRow /\ \E t \in Slots : Row(t) = r
\* A goroutine writes a slot nobody works on, as it is.
LateInv ==
    /\ \A w \in late : ~Worked(w.slot) /\ mem[w.slot].row # 0 /\ (w.item # NewSlot => mem[w.slot] = w.item)
    /\ \A w, v \in late : w.slot = v.slot => w = v
\* The handlers know what they change.
NoSplit(todo) == \A i \in 1..Len(todo) : todo[i].op \notin {"copy", "insert"}
OneGear(todo) == \A i, j \in 1..Len(todo) :
    todo[i].op = "grade" /\ todo[j].op = "save" => todo[i].slot = todo[j].slot
Insert(t) == Call("insert", t, NoKind, 0)
Splits(todo) == \E w, t \in Slots : \E n \in Nat :
    \/ todo = SplitCalls(w, t, n) /\ Occupied(w) /\ n <= mem[w].qty
    \/ todo = <<Take(w, n), Insert(t)>> /\ w # t /\ Occupied(t) /\ Occupied(w) /\ n <= mem[w].qty
    \/ todo = <<Wipe(w), Insert(t)>> /\ w # t /\ Occupied(t)
    \/ todo = <<Insert(t)>> /\ Occupied(t)
Lonely(todo) == todo # <<>> /\ Head(todo).op = "join" => Len(todo) = 1
Ready(todo) == Lonely(todo) /\ ((NoSplit(todo) /\ OneGear(todo)) \/ Splits(todo))
ReadyInv == \A h \in Runners : Ready(running[h].todo)
BInv == NInv /\ (flaw = {} => RowsInv /\ LateInv /\ ReadyInv)

\* What the others know of slot t is as it was.
AsBefore(t) ==
    /\ (Occupied(t)' <=> Occupied(t)) /\ (mem'[t] = mem[t] \/ Dirty(t)') /\ Row(t)' = Row(t) /\ (Hid(t)' <=> Hid(t))
    /\ (Moved(t)' <=> Moved(t)) /\ (Dirty(t) => Dirty(t)')

\* One slot and its row change.
LEMMA OneHome ==
  ASSUME ITypeOK, RowsInv, NEW s \in Slots, \A t \in Slots \ {s} : AsBefore(t),
         lastRow \in Nat, MaxRow \in Nat,
         \/ Row(s)' \in {0, Row(s)} /\ lastRow' = lastRow
         \/ Row(s) = 0 /\ Row(s)' \in {0, lastRow + 1} /\ lastRow' = lastRow + 1,
         \A r \in 1..MaxRow : db'[r] # db[r] => r = Row(s)' \/ (r = Row(s) /\ db'[r] = Gone),
         Row(s) # 0 /\ Row(s)' = 0 => db'[Row(s)] = Gone,
         RowTells(s)', Occupied(s)' => Hid(s)' \/ Row(s)' # 0
  PROVE  RowsInv'
<1>1. \A t \in Slots \ {s} : RowTells(t)' /\ (Occupied(t)' => Hid(t)' \/ Row(t)' # 0)
  <2> SUFFICES ASSUME NEW t \in Slots \ {s} PROVE RowTells(t)' /\ (Occupied(t)' => Hid(t)' \/ Row(t)' # 0)
    OBVIOUS
  <2>1. (mem'[t] = mem[t] \/ Dirty(t)') /\ Row(t)' = Row(t) /\ (Hid(t)' <=> Hid(t)) /\ (Moved(t)' <=> Moved(t)) /\ (Dirty(t) => Dirty(t)')
    BY DEF AsBefore
  <2>2. RowTells(t) /\ (Occupied(t) => Hid(t) \/ Row(t) # 0)
    BY DEF RowsInv
  <2>3. Occupied(t)' <=> Occupied(t)
    BY DEF AsBefore
  <2>4. ASSUME Row(t) # 0 PROVE db'[Row(t)] = db[Row(t)] /\ Row(t) \in 1..lastRow'
    <3>1. Row(t) \in 1..lastRow /\ db[Row(t)] # Gone
      BY <2>2, <2>4 DEF RowTells
    <3>2. Row(t) # Row(s)
      BY <2>4 DEF RowsInv
    <3>3. Row(t) # lastRow + 1 /\ Row(t) \in 1..lastRow' /\ Row(t) # Row(s)'
      BY <3>1, <3>2
    <3>4. Row(t) \in 1..MaxRow
      BY <3>1 DEF ITypeOK
    <3> QED
      BY <3>2, <3>3, <3>4
  <2> QED
    BY <2>1, <2>2, <2>3, <2>4 DEF RowTells
<1>2. \A t \in Slots \ {s} : Row(t) # 0 => Row(t) # Row(s) /\ Row(t) \in 1..lastRow
  BY DEF RowsInv, RowTells
<1>3. \A t \in Slots \ {s} : Row(t)' = Row(t)
  BY DEF AsBefore
<1>4. \A t, u \in Slots : Row(t)' = Row(u)' /\ Row(t)' # 0 => t = u
  <2> SUFFICES ASSUME NEW t \in Slots, NEW u \in Slots, Row(t)' = Row(u)', Row(t)' # 0, t # u PROVE FALSE
    OBVIOUS
  <2>1. CASE t # s /\ u # s
    BY <1>3, <2>1 DEF RowsInv
  <2>2. CASE t = s
    BY <1>2, <1>3, <2>2
  <2>3. CASE u = s
    BY <1>2, <1>3, <2>3
  <2> QED
    BY <2>1, <2>2, <2>3
<1>5. ASSUME NEW r \in 1..MaxRow, db'[r] # Gone PROVE r <= lastRow' /\ \E t \in Slots : Row(t)' = r
  <2>1. CASE r = Row(s)'
    BY <1>5, <2>1 DEF RowTells
  <2>2. CASE r # Row(s)'
    <3>1. db[r] # Gone
      BY <1>5, <2>2
    <3>2. PICK t \in Slots : Row(t) = r
      BY <3>1 DEF RowsInv
    <3>3. t # s
      BY <1>5, <2>2, <3>2
    <3> QED
      BY <1>3, <3>1, <3>2, <3>3 DEF RowsInv
  <2> QED
    BY <2>1, <2>2
<1> QED
  BY <1>1, <1>4, <1>5 DEF RowsInv
\* Slots and their rows change places.
LEMMA Rehomed ==
  ASSUME ITypeOK, RowsInv, NEW f \in [Slots -> Slots], \A s, t \in Slots : f[s] = f[t] => s = t,
         \A t \in Slots : \E s \in Slots : f[s] = t,
         \A t \in Slots : Row(t)' = Row(f[t]) /\ RowTells(t)' /\ (Occupied(t)' => Hid(t)' \/ Row(t)' # 0),
         lastRow' = lastRow, \A r \in 1..MaxRow : db'[r] # Gone => db[r] # Gone
  PROVE  RowsInv'
<1>1. \A s, t \in Slots : Row(s)' = Row(t)' /\ Row(s)' # 0 => s = t
  BY DEF RowsInv
<1>2. \A r \in 1..MaxRow : db'[r] # Gone => r <= lastRow' /\ \E t \in Slots : Row(t)' = r
  BY DEF RowsInv
<1> QED
  BY <1>1, <1>2 DEF RowsInv

Works == [Runners -> [lock : BOOLEAN, todo : Todos]]

\* Whoever has to do with a slot works on it.
LEMMA Concerns ==
  ASSUME NEW todo \in Todos, NEW t, Hidden(todo, t) \/ Saves(todo, t) \/ Inserts(todo, t) \/ HeadIs(todo, "named", t)
  PROVE  t \in Slotted(todo) /\ t \in Slots
<1>1. todo \in Seq(Calls) /\ \A i \in 1..Len(todo) : todo[i] \in Calls
  BY DEF Todos
<1>2. ASSUME NEW i \in 1..Len(todo), todo[i].slot = t, todo[i].op \in {"wipe", "named", "save", "insert"}
      PROVE  t \in Slotted(todo) /\ t \in Slots
  <2>1. todo[i] \in Calls
    BY <1>1
  <2>2. todo[i].slot # AnySlot
    BY <1>2, <2>1, CallIs
  <2>3. t \in SlotsOf(todo[i]) /\ t \in Slots
    BY <1>2, <2>1, <2>2, CallIs
  <2> QED
    BY <1>1, <2>3, SlottedIs
<1>3. ASSUME todo # <<>> PROVE 1 \in 1..Len(todo) /\ Head(todo) = todo[1]
  BY <1>3, TodoIs
<1> QED
  BY <1>2, <1>3 DEF Hidden, Saves, Inserts, HeadIs

\* Only one handler works on slot t.
LEMMA OwnSlot ==
  ASSUME NEW run \in Works, NEW m, NEW h \in Runners, NEW t, \A g \in Runners \ {h} : t \notin Slotted(run[g].todo)
  PROVE  /\ HidIn(run, t) <=> Hidden(run[h].todo, t)
         /\ SavedIn(run, t) <=> Saves(run[h].todo, t)
         /\ RowIn(run, m, t) = RowBy(run[h].todo, m, t)
<1>1. \A g \in Runners : run[g].todo \in Todos
  BY DEF Works
<1>2. \A g \in Runners \ {h} : ~Hidden(run[g].todo, t) /\ ~Saves(run[g].todo, t) /\ ~HeadIs(run[g].todo, "named", t)
  BY <1>1, Concerns
<1>3. HidIn(run, t) <=> Hidden(run[h].todo, t)
  BY <1>2 DEF HidIn
<1>4. SavedIn(run, t) <=> Saves(run[h].todo, t)
  BY <1>2 DEF SavedIn
<1>5. Namers(run, t) = IF HeadIs(run[h].todo, "named", t) THEN {h} ELSE {}
  BY <1>2 DEF Namers
<1>6. (CHOOSE g : g \in {h}) = h
  OBVIOUS
<1> QED
  BY <1>3, <1>4, <1>5, <1>6 DEF RowIn, RowBy

\* Nobody works on slot t.
LEMMA IdleSlot ==
  ASSUME NEW run \in Works, NEW m, NEW t, \A g \in Runners : t \notin Slotted(run[g].todo)
  PROVE  ~HidIn(run, t) /\ ~SavedIn(run, t) /\ RowIn(run, m, t) = m[t].row
<1>1. \A g \in Runners : run[g].todo \in Todos
  BY DEF Works
<1>2. \A g \in Runners : ~Hidden(run[g].todo, t) /\ ~Saves(run[g].todo, t) /\ ~HeadIs(run[g].todo, "named", t)
  BY <1>1, Concerns
<1> QED
  BY <1>2 DEF HidIn, SavedIn, RowIn, Namers

\* What h does is nothing to slot t.
LEMMA OtherSlot ==
  ASSUME NEW run \in Works, NEW now \in Works, NEW m, NEW p, NEW h \in Runners, NEW t, p[t] = m[t],
         \A g \in Runners \ {h} : now[g] = run[g],
         t \notin Slotted(run[h].todo), t \notin Slotted(now[h].todo)
  PROVE  /\ HidIn(now, t) <=> HidIn(run, t)
         /\ SavedIn(now, t) <=> SavedIn(run, t)
         /\ RowIn(now, p, t) = RowIn(run, m, t)
<1>1. run[h].todo \in Todos /\ now[h].todo \in Todos
  BY DEF Works
<1>2. /\ ~Hidden(run[h].todo, t) /\ ~Saves(run[h].todo, t) /\ ~HeadIs(run[h].todo, "named", t)
      /\ ~Hidden(now[h].todo, t) /\ ~Saves(now[h].todo, t) /\ ~HeadIs(now[h].todo, "named", t)
  BY <1>1, Concerns
<1>3. HidIn(now, t) <=> HidIn(run, t)
  BY <1>2 DEF HidIn
<1>4. SavedIn(now, t) <=> SavedIn(run, t)
  BY <1>2 DEF SavedIn
<1>5. Namers(now, t) = Namers(run, t) /\ h \notin Namers(run, t)
  BY <1>2 DEF Namers
<1>6. Namers(run, t) # {} => (CHOOSE g : g \in Namers(run, t)) \in Namers(run, t)
  OBVIOUS
<1>7. Namers(run, t) \subseteq Runners
  BY DEF Namers
<1> QED
  BY <1>3, <1>4, <1>5, <1>6, <1>7 DEF RowIn
LEMMA WorksIs == ASSUME ITypeOK PROVE running \in Works
  BY DEF ITypeOK, Works

\* Row q has what is in slot s, or what is there is still to be saved.
Told(rows, m, s, q, saved) ==
    rows[q] # Gone /\ m[s].kind # NoKind /\ rows[q].slot = s /\ (~saved => rows[q].item = [m[s] EXCEPT !.row = q])

\* What a handler may rely on about a slot s it works on.
LEMMA Known ==
  ASSUME ITypeOK, Apart, RowsInv, LateInv, NEW h \in Runners, NEW s \in Slots, s \in Slotted(running[h].todo),
         NEW r \in Nat, r = RowBy(running[h].todo, mem, s)
  PROVE  /\ r = Row(s) /\ (Occupied(s) => Hidden(running[h].todo, s) \/ r # 0)
         /\ r # 0 => r \in 1..lastRow /\ Occupied(s) /\ Told(db, mem, s, r, Saves(running[h].todo, s))
<1>1. \A g \in Runners \ {h} : s \notin Slotted(running[g].todo)
  BY DEF Apart
<1>2. /\ Hid(s) <=> Hidden(running[h].todo, s)
      /\ SavedIn(running, s) <=> Saves(running[h].todo, s)
      /\ r = Row(s)
  BY <1>1, OwnSlot, WorksIs DEF Hid, Row
<1>3. \A w \in late : w.slot # s
  BY DEF LateInv, Worked
<1>4. ~Moved(s) /\ (Dirty(s) <=> Saves(running[h].todo, s))
  BY <1>2, <1>3 DEF Moved, Dirty
<1> QED
  BY <1>2, <1>4 DEF RowsInv, RowTells, Told, Occupied

\* A split and what is in the slots it works on.
LEMMA SplitKept ==
  ASSUME NEW todo \in Todos, Splits(todo), \A t \in Slotted(todo) : mem'[t] = mem[t]
  PROVE  Splits(todo)'
<1>1. PICK w \in Slots, t \in Slots : \E n \in Nat :
    \/ todo = SplitCalls(w, t, n) /\ Occupied(w) /\ n <= mem[w].qty
    \/ todo = <<Take(w, n), Insert(t)>> /\ w # t /\ Occupied(t) /\ Occupied(w) /\ n <= mem[w].qty
    \/ todo = <<Wipe(w), Insert(t)>> /\ w # t /\ Occupied(t)
    \/ todo = <<Insert(t)>> /\ Occupied(t)
  BY DEF Splits
<1>2. PICK n \in Nat :
    \/ todo = SplitCalls(w, t, n) /\ Occupied(w) /\ n <= mem[w].qty
    \/ todo = <<Take(w, n), Insert(t)>> /\ w # t /\ Occupied(t) /\ Occupied(w) /\ n <= mem[w].qty
    \/ todo = <<Wipe(w), Insert(t)>> /\ w # t /\ Occupied(t)
    \/ todo = <<Insert(t)>> /\ Occupied(t)
  BY <1>1
<1>3. \A i \in 1..Len(todo) : todo[i] \in Calls
  BY DEF Todos
<1>4. ASSUME NEW i \in 1..Len(todo), todo[i].slot # AnySlot PROVE mem'[todo[i].slot] = mem[todo[i].slot]
  BY <1>3, <1>4, CallIs, SlottedIs DEF Todos
<1>5. w # AnySlot /\ t # AnySlot
  BY SlotAssumption DEF Slots, AnySlot
<1>6. CASE todo = SplitCalls(w, t, n) /\ Occupied(w) /\ n <= mem[w].qty
  <2>1. Len(todo) = 3 /\ todo[1].slot = w
    BY <1>6 DEF SplitCalls, Call
  <2>2. mem'[w] = mem[w]
    BY <1>4, <1>5, <2>1
  <2> QED
    BY <1>6, <2>2 DEF Splits, Occupied
<1>7. CASE todo = <<Take(w, n), Insert(t)>> /\ w # t /\ Occupied(t) /\ Occupied(w) /\ n <= mem[w].qty
  <2>1. Len(todo) = 2 /\ todo[1].slot = w /\ todo[2].slot = t
    BY <1>7 DEF Take, Insert, Call
  <2>2. mem'[w] = mem[w] /\ mem'[t] = mem[t]
    BY <1>4, <1>5, <2>1
  <2> QED
    BY <1>7, <2>2 DEF Splits, Occupied
<1>8. CASE todo = <<Wipe(w), Insert(t)>> /\ w # t /\ Occupied(t)
  <2>1. Len(todo) = 2 /\ todo[2].slot = t
    BY <1>8 DEF Wipe, Insert, Call
  <2>2. mem'[t] = mem[t]
    BY <1>4, <1>5, <2>1
  <2> QED
    BY <1>8, <2>2 DEF Splits, Occupied
<1>9. CASE todo = <<Insert(t)>> /\ Occupied(t)
  <2>1. Len(todo) = 1 /\ todo[1].slot = t
    BY <1>9 DEF Insert, Call
  <2>2. mem'[t] = mem[t]
    BY <1>4, <1>5, <2>1
  <2> QED
    BY <1>9, <2>2 DEF Splits, Occupied
<1> QED
  BY <1>2, <1>6, <1>7, <1>8, <1>9

LEMMA ReadyKept ==
  ASSUME NEW todo \in Todos, Ready(todo), \A t \in Slotted(todo) : mem'[t] = mem[t]
  PROVE  Ready(todo)'
  BY SplitKept DEF Ready, NoSplit, OneGear, Lonely

\* What goroutines are to write is in slots h does not work on.
LEMMA LateKept ==
  ASSUME ITypeOK, LateInv, NEW h \in Runners, CarriesOn(h), late' = late,
         \A t \in Slots \ Slotted(running[h].todo) : mem'[t] = mem[t]
  PROVE  LateInv'
<1>1. running'[h].todo \in Todos /\ Slotted(running'[h].todo) \subseteq Slotted(running[h].todo)
  BY DEF CarriesOn, Goes
<1>2. \A g \in Runners \ {h} : running'[g] = running[g]
  BY DEF CarriesOn, OthersSame
<1>3. ASSUME NEW t \in Slots, Worked(t)' PROVE Worked(t)
  BY <1>1, <1>2, <1>3 DEF Worked
<1>4. \A w \in late : w.slot \in Slots /\ mem'[w.slot] = mem[w.slot]
  BY DEF ITypeOK, LateInv, Worked
<1> QED
  BY <1>3, <1>4 DEF LateInv

LEMMA ReadyOthers ==
  ASSUME ITypeOK, Apart, ReadyInv, NEW h \in Runners, CarriesOn(h), Ready(running[h].todo)',
         \A t \in Slots \ Slotted(running[h].todo) : mem'[t] = mem[t]
  PROVE  ReadyInv'
<1> SUFFICES ASSUME NEW g \in Runners PROVE Ready(running[g].todo)'
  BY DEF ReadyInv
<1>1. CASE g = h
  BY <1>1
<1>2. CASE g # h
  <2>1. running'[g] = running[g] /\ running[g].todo \in Todos /\ Ready(running[g].todo)
    BY <1>2, WorkingIs DEF ReadyInv, CarriesOn, OthersSame
  <2>2. Slotted(running[g].todo) \subseteq Slots
    BY <2>1, SlottedIs DEF Todos
  <2>3. \A t \in Slotted(running[g].todo) : mem'[t] = mem[t]
    BY <1>2, <2>2 DEF Apart
  <2> QED
    BY <2>1, <2>3, ReadyKept
<1> QED
  BY <1>1, <1>2

LEMMA OwnSlots ==
  ASSUME ITypeOK, Apart, NEW h \in Runners, CarriesOn(h), NEW t \in Slots, t \in Slotted(running[h].todo)
  PROVE  /\ Hid(t) <=> Hidden(running[h].todo, t)
         /\ SavedIn(running, t) <=> Saves(running[h].todo, t)
         /\ Row(t) = RowBy(running[h].todo, mem, t)
         /\ Hid(t)' <=> Hidden(running'[h].todo, t)
         /\ SavedIn(running, t)' <=> Saves(running'[h].todo, t)
         /\ Row(t)' = RowBy(running'[h].todo, mem', t)
<1>1. running \in Works /\ running' \in Works /\ \A g \in Runners \ {h} : running'[g] = running[g]
  BY WorksIs DEF CarriesOn, Works, OthersSame
<1>2. \A g \in Runners \ {h} : t \notin Slotted(running[g].todo)
  BY DEF Apart
<1>0. \A g \in Runners \ {h} : t \notin Slotted(running'[g].todo)
  BY <1>1, <1>2
<1>3. /\ Hid(t) <=> Hidden(running[h].todo, t)
      /\ SavedIn(running, t) <=> Saves(running[h].todo, t)
      /\ Row(t) = RowBy(running[h].todo, mem, t)
  BY <1>1, <1>2, OwnSlot, SMTT(60) DEF Hid, Row
<1>4. /\ HidIn(running', t) <=> Hidden(running'[h].todo, t)
      /\ SavedIn(running', t) <=> Saves(running'[h].todo, t)
      /\ RowIn(running', mem', t) = RowBy(running'[h].todo, mem', t)
  <2>1. running' \in Works
    BY <1>1
  <2>2. \A m : \A run \in Works : (\A g \in Runners \ {h} : t \notin Slotted(run[g].todo)) =>
          /\ HidIn(run, t) <=> Hidden(run[h].todo, t)
          /\ SavedIn(run, t) <=> Saves(run[h].todo, t)
          /\ RowIn(run, m, t) = RowBy(run[h].todo, m, t)
    BY OwnSlot
  <2> QED
    BY <1>0, <2>1, <2>2
<1>5. /\ Hid(t)' <=> HidIn(running', t)
      /\ SavedIn(running, t)' <=> SavedIn(running', t)
      /\ Row(t)' = RowIn(running', mem', t)
  BY DEF Hid, Row
<1> QED
  BY <1>3, <1>4, <1>5

\* h makes a call that changes slot s, or what is known of it.
LEMMA CallKeeps ==
  ASSUME ITypeOK, ITypeOK', Apart, RowsInv, LateInv, ReadyInv, NEW h \in Runners, CarriesOn(h), late' = late,
         NEW s \in Slots, s \in Slotted(running[h].todo), \A t \in Slots \ {s} : mem'[t] = mem[t],
         NEW todo \in Todos, todo = running[h].todo, NEW next \in Todos, next = running'[h].todo, Ready(next)',
         \A t \in Slotted(todo) \ {s} : /\ ~HeadIs(todo, "named", t) /\ ~HeadIs(next, "named", t)
                                        /\ Hidden(next, t) <=> Hidden(todo, t)
                                        /\ Saves(todo, t) => Saves(next, t),
         NEW r \in Nat, r = RowBy(todo, mem, s), NEW q \in Nat, q = RowBy(next, mem', s),
         \/ q \in {0, r} /\ lastRow' = lastRow
         \/ r = 0 /\ q \in {0, lastRow + 1} /\ lastRow' = lastRow + 1,
         \A x \in 1..MaxRow : db'[x] # db[x] => x = q \/ (x = r /\ db'[x] = Gone),
         r # 0 /\ q = 0 => db'[r] = Gone,
         q # 0 => Told(db', mem', s, q, Saves(next, s)),
         Occupied(s)' => Hidden(next, s) \/ q # 0
  PROVE  RowsInv' /\ LateInv' /\ ReadyInv'
<1>1. todo \in Todos /\ next \in Todos /\ Slotted(next) \subseteq Slotted(todo) /\ Slotted(todo) \subseteq Slots
  BY WorkingIs, SlottedIs DEF CarriesOn, Goes, Todos
<1>2. running \in Works /\ running' \in Works /\ \A g \in Runners \ {h} : running'[g] = running[g]
  BY WorksIs DEF CarriesOn, Works, OthersSame
<1>3. \A t \in Slotted(todo) : \A g \in Runners \ {h} : t \notin Slotted(running[g].todo) /\ t \notin Slotted(running'[g].todo)
  BY <1>2 DEF Apart
<1>4. ASSUME NEW t \in Slots \ {s} PROVE AsBefore(t)
  <2>1. mem'[t] = mem[t]
    OBVIOUS
  <2>2. Moved(t)' <=> Moved(t)
    BY DEF Moved
  <2>3. CASE t \notin Slotted(todo)
    <3>1. t \notin Slotted(next)
      BY <1>1, <2>3
    <3>2. (Hid(t)' <=> Hid(t)) /\ (SavedIn(running, t)' <=> SavedIn(running, t)) /\ Row(t)' = Row(t)
      BY <1>2, <2>1, <2>3, <3>1, OtherSlot DEF Hid, Row
    <3> QED
      BY <2>1, <2>2, <3>2 DEF AsBefore, Dirty, Occupied
  <2>4. CASE t \in Slotted(todo)
    <3>1. /\ Hid(t) <=> Hidden(todo, t)
          /\ SavedIn(running, t) <=> Saves(todo, t)
          /\ Row(t) = RowBy(todo, mem, t)
      BY <2>4, OwnSlots
    <3>2. /\ Hid(t)' <=> Hidden(next, t)
          /\ SavedIn(running, t)' <=> Saves(next, t)
          /\ Row(t)' = RowBy(next, mem', t)
      BY <2>4, OwnSlots, SMTT(60)
    <3>3. RowBy(next, mem', t) = RowBy(todo, mem, t)
      BY <2>1, <2>4 DEF RowBy
    <3> QED
      BY <2>1, <2>2, <2>4, <3>1, <3>2, <3>3 DEF AsBefore, Dirty, Occupied
  <2> QED
    BY <2>3, <2>4
<1>5. r = Row(s) /\ (r # 0 => r \in 1..lastRow)
  <2>1. r = RowBy(running[h].todo, mem, s)
    OBVIOUS
  <2>2. r = Row(s)
    BY <2>1, OwnSlots
  <2> QED
    BY <2>2 DEF RowsInv, RowTells
<1>6. q = Row(s)' /\ (Hid(s)' <=> Hidden(next, s)) /\ (SavedIn(running, s)' <=> Saves(next, s))
  BY OwnSlots
<1>7. \A w \in late : w.slot # s
  BY DEF LateInv, Worked
<1>8. lastRow \in Nat /\ MaxRow \in Nat
  BY BoundAssumption DEF ITypeOK
<1>9. RowTells(s)'
  <2>1. ~Moved(s)' /\ (Dirty(s)' <=> Saves(next, s))
    BY <1>6, <1>7 DEF Moved, Dirty
  <2>2. q # 0 => q \in 1..lastRow'
    BY <1>5, <1>8
  <2> QED
    BY <1>6, <2>1, <2>2 DEF RowTells, Told, Occupied
<1>10. RowsInv'
  <2>1. \/ Row(s)' \in {0, Row(s)} /\ lastRow' = lastRow
        \/ Row(s) = 0 /\ Row(s)' \in {0, lastRow + 1} /\ lastRow' = lastRow + 1
    BY <1>5, <1>6
  <2>2. \A x \in 1..MaxRow : db'[x] # db[x] => x = Row(s)' \/ (x = Row(s) /\ db'[x] = Gone)
    BY <1>5, <1>6
  <2>3. Row(s) # 0 /\ Row(s)' = 0 => db'[Row(s)] = Gone
    BY <1>5, <1>6
  <2>4. Occupied(s)' => Hid(s)' \/ Row(s)' # 0
    BY <1>6
  <2> QED
    BY <1>4, <1>5, <1>8, <1>9, <2>1, <2>2, <2>3, <2>4, OneHome
<1>11. \A t \in Slots \ Slotted(todo) : mem'[t] = mem[t]
  OBVIOUS
<1>12. LateInv' /\ ReadyInv'
  BY <1>11, LateKept, ReadyOthers
<1> QED
  BY <1>10, <1>12
\* Nothing changes but what is still to be written.
LEMMA SameHomes ==
  ASSUME RowsInv, \A t \in Slots : AsBefore(t), db' = db, lastRow' = lastRow
  PROVE  RowsInv'
<1>1. ASSUME NEW t \in Slots
      PROVE  Row(t)' = Row(t) /\ RowTells(t)' /\ (Occupied(t)' => Hid(t)' \/ Row(t)' # 0)
  <2>1. (mem'[t] = mem[t] \/ Dirty(t)') /\ Row(t)' = Row(t) /\ (Hid(t)' <=> Hid(t)) /\ (Moved(t)' <=> Moved(t)) /\ (Dirty(t) => Dirty(t)')
    BY DEF AsBefore
  <2>2. RowTells(t) /\ (Occupied(t) => Hid(t) \/ Row(t) # 0)
    BY DEF RowsInv
  <2>3. Occupied(t)' <=> Occupied(t)
    BY DEF AsBefore
  <2> QED
    BY <2>1, <2>2, <2>3 DEF RowTells
<1> QED
  BY <1>1 DEF RowsInv

\* How a handler goes on that splits no stack.
Follows(todo, next, s) ==
    next = Tail(todo) \/ \E c \in Calls : c.op \in {"wipe", "named"} /\ c.slot = s /\ next = <<c>> \o Tail(todo)

LEMMA FollowsIs ==
  ASSUME NEW todo \in Todos, todo # <<>>, NEW s, NEW next, Follows(todo, next, s)
  PROVE  /\ next \in Todos
         /\ \A i \in 1..Len(next) :
              \/ i + 1 \in 1..Len(todo) /\ next = Tail(todo) /\ next[i] = todo[i + 1]
              \/ i \in 2..Len(todo) /\ next[i] = todo[i]
              \/ i = 1 /\ next[i].op \in {"wipe", "named"} /\ next[i].slot = s
         /\ \A i \in 2..Len(todo) : \E j \in 1..Len(next) : next[j] = todo[i]
         /\ next # <<>> => Head(next) = next[1] /\ 1 \in 1..Len(next)
<1>0. /\ Len(todo) \in Nat /\ Len(todo) >= 1 /\ Tail(todo) \in Todos /\ Len(Tail(todo)) = Len(todo) - 1
      /\ \A i \in 1..Len(Tail(todo)) : Tail(todo)[i] = todo[i + 1]
  BY TodoIs
<1>1. CASE next = Tail(todo)
  <2>1. next \in Todos
    BY <1>0, <1>1
  <2>2. ASSUME NEW i \in 1..Len(next) PROVE i + 1 \in 1..Len(todo) /\ next[i] = todo[i + 1]
    BY <1>0, <1>1
  <2>3. ASSUME NEW i \in 2..Len(todo) PROVE i - 1 \in 1..Len(next) /\ next[i - 1] = todo[i]
    BY <1>0, <1>1
  <2>4. next # <<>> => Head(next) = next[1] /\ 1 \in 1..Len(next)
    BY <2>1, TodoIs
  <2> QED
    BY <1>1, <2>1, <2>2, <2>3, <2>4
<1>2. ASSUME NEW c \in Calls, c.op \in {"wipe", "named"}, c.slot = s, next = <<c>> \o Tail(todo)
      PROVE  /\ next \in Todos
             /\ \A i \in 1..Len(next) : \/ i \in 2..Len(todo) /\ next[i] = todo[i]
                                        \/ i = 1 /\ next[i].op \in {"wipe", "named"} /\ next[i].slot = s
             /\ \A i \in 2..Len(todo) : \E j \in 1..Len(next) : next[j] = todo[i]
             /\ next # <<>> => Head(next) = next[1] /\ 1 \in 1..Len(next)
  <2>1. next \in Todos /\ Len(next) = Len(todo) /\ next[1] = c /\ \A i \in 2..Len(todo) : next[i] = todo[i]
    BY <1>2, PutFirst
  <2>2. \A i \in 1..Len(next) : i = 1 \/ i \in 2..Len(todo)
    BY <1>0, <2>1
  <2>3. next # <<>> => Head(next) = next[1] /\ 1 \in 1..Len(next)
    BY <2>1, TodoIs
  <2>4. \A i \in 2..Len(todo) : i \in 1..Len(next)
    BY <1>0, <2>1
  <2> QED
    BY <1>2, <2>1, <2>2, <2>3, <2>4
<1> QED
  BY <1>1, <1>2 DEF Follows

LEMMA Continues ==
  ASSUME NEW todo \in Todos, todo # <<>>, NoSplit(todo), NEW s, NEW next, Follows(todo, next, s)
  PROVE  /\ NoSplit(next) /\ (OneGear(todo) => OneGear(next))
         /\ \A t : t # s /\ (Head(todo).op \in {"wipe", "named", "save"} => Head(todo).slot = s) =>
              /\ ~HeadIs(todo, "named", t) /\ ~HeadIs(next, "named", t)
              /\ Hidden(next, t) <=> Hidden(todo, t)
              /\ Saves(todo, t) => Saves(next, t)
<1>1. \A i \in 1..Len(next) : next[i].op \in {"wipe", "named"} \/ \E j \in 2..Len(todo) : next[i] = todo[j]
  <2> SUFFICES ASSUME NEW i \in 1..Len(next) PROVE next[i].op \in {"wipe", "named"} \/ \E j \in 2..Len(todo) : next[i] = todo[j]
    OBVIOUS
  <2>1. \/ i + 1 \in 1..Len(todo) /\ next[i] = todo[i + 1]
        \/ i \in 2..Len(todo) /\ next[i] = todo[i]
        \/ next[i].op \in {"wipe", "named"}
    BY FollowsIs
  <2>2. i + 1 \in 1..Len(todo) => i + 1 \in 2..Len(todo)
    OBVIOUS
  <2> QED
    BY <2>1, <2>2
<1>2. \A j \in 2..Len(todo) : j \in 1..Len(todo)
  OBVIOUS
<1>3. NoSplit(next)
  BY <1>1, <1>2 DEF NoSplit
<1>4. OneGear(todo) => OneGear(next)
  BY <1>1, <1>2 DEF OneGear
<1>5. ASSUME NEW t, t # s, Head(todo).op \in {"wipe", "named", "save"} => Head(todo).slot = s
      PROVE  /\ ~HeadIs(todo, "named", t) /\ ~HeadIs(next, "named", t)
             /\ Hidden(next, t) <=> Hidden(todo, t)
             /\ Saves(todo, t) => Saves(next, t)
  <2>1. ~HeadIs(todo, "named", t) /\ ~HeadIs(todo, "wipe", t)
    BY <1>5 DEF HeadIs
  <2>2. ~HeadIs(next, "named", t) /\ ~HeadIs(next, "wipe", t)
    <3> SUFFICES ASSUME next # <<>>, Head(next).op \in {"wipe", "named"}, Head(next).slot = t PROVE FALSE
      BY DEF HeadIs
    <3>1. next[1].op \in {"wipe", "named"} /\ next[1].slot = t /\ 1 \in 1..Len(next)
      BY FollowsIs
    <3>2. \/ 2 \in 1..Len(todo) /\ next[1] = todo[2]
          \/ 1 \in 2..Len(todo)
          \/ next[1].slot = s
      BY <3>1, FollowsIs
    <3>3. 2 \in 1..Len(todo) => 2 \in 2..Len(todo)
      OBVIOUS
    <3>4. \A i \in 2..Len(todo) : todo[i].op \in Plain
      BY DEF Todos
    <3> QED
      BY <1>5, <3>1, <3>2, <3>3, <3>4 DEF Plain
  <2>3. ~Hidden(todo, t) /\ ~Hidden(next, t)
    BY <1>3, <2>1, <2>2 DEF Hidden, NoSplit, Inserts
  <2>4. Saves(todo, t) => Saves(next, t)
    <3> SUFFICES ASSUME NEW i \in 1..Len(todo), todo[i].op = "save", todo[i].slot = t PROVE Saves(next, t)
      BY DEF Saves
    <3>1. i # 1
      <4>1. Head(todo) = todo[1]
        BY TodoIs
      <4> QED
        BY <1>5, <4>1
    <3>2. i \in 2..Len(todo)
      BY <3>1
    <3>3. PICK j \in 1..Len(next) : next[j] = todo[i]
      BY <3>2, FollowsIs
    <3> QED
      BY <3>3 DEF Saves
  <2> QED
    BY <2>1, <2>2, <2>3, <2>4
<1> QED
  BY <1>3, <1>4, <1>5
\* Only what a handler begins with combines stacks.
LEMMA LonelyOn ==
  ASSUME NEW todo \in Todos, todo # <<>>, NEW s, NEW next, Follows(todo, next, s)
  PROVE  Lonely(next)
<1> SUFFICES ASSUME next # <<>>, Head(next).op = "join" PROVE FALSE
  BY DEF Lonely
<1>1. next[1].op = "join" /\ 1 \in 1..Len(next)
  BY FollowsIs
<1>2. \/ 2 \in 1..Len(todo) /\ next[1] = todo[2]
      \/ 1 \in 2..Len(todo)
      \/ next[1].op \in {"wipe", "named"}
  BY <1>1, FollowsIs
<1>3. 2 \in 1..Len(todo) => todo[2].op \in Plain
  BY DEF Todos
<1> QED
  BY <1>1, <1>2, <1>3 DEF Plain
LEMMA RowOfPlain ==
  ASSUME NEW todo, NoSplit(todo), todo # <<>> => Head(todo).op \notin {"wipe", "named"}
  PROVE  \A m, t : RowBy(todo, m, t) = m[t].row /\ ~Hidden(todo, t)
  BY DEF NoSplit, RowBy, Hidden, HeadIs, Inserts

LEMMA RowOfTail ==
  ASSUME NEW todo \in Todos, todo # <<>>, NoSplit(todo)
  PROVE  \A m, t : RowBy(Tail(todo), m, t) = m[t].row /\ ~Hidden(Tail(todo), t)
<1>1. NoSplit(Tail(todo))
  BY Continues DEF Follows
<1>2. Tail(todo) # <<>> => Head(Tail(todo)).op \notin {"wipe", "named"}
  BY TailGoes DEF NoFirst, Plain
<1> QED
  BY <1>1, <1>2, RowOfPlain

LEMMA RowOfFirst ==
  ASSUME NEW todo \in Todos, todo # <<>>, NEW c \in Calls, NoSplit(<<c>> \o Tail(todo))
  PROVE  /\ c.op = "wipe" => Hidden(<<c>> \o Tail(todo), c.slot) /\ \A m : RowBy(<<c>> \o Tail(todo), m, c.slot) = 0
         /\ c.op = "named" => ~Hidden(<<c>> \o Tail(todo), c.slot) /\ \A m : RowBy(<<c>> \o Tail(todo), m, c.slot) = c.n
<1> DEFINE next == <<c>> \o Tail(todo)
<1>1. next # <<>> /\ Head(next) = c
  BY PutFirst
<1>2. \A t : ~Inserts(next, t)
  BY DEF NoSplit, Inserts
<1> HIDE DEF next
<1>3. c.op = "wipe" => Hidden(next, c.slot) /\ \A m : RowBy(next, m, c.slot) = 0
  BY <1>1 DEF Hidden, HeadIs, RowBy
<1>4. c.op = "named" => ~Hidden(next, c.slot) /\ \A m : RowBy(next, m, c.slot) = c.n
  BY <1>1, <1>2 DEF Hidden, HeadIs, RowBy
<1> QED
  BY <1>3, <1>4 DEF next

\* The calls of a split begin in one of four ways.
LEMMA NotSplit ==
  ASSUME NEW todo, Ready(todo), Head(todo).op \notin {"copy", "take", "wipe", "insert"}
  PROVE  NoSplit(todo) /\ OneGear(todo)
<1>1. ASSUME NEW w, NEW t, NEW n
      PROVE  /\ Head(SplitCalls(w, t, n)).op = "copy" /\ Head(<<Take(w, n), Insert(t)>>).op = "take"
             /\ Head(<<Wipe(w), Insert(t)>>).op = "wipe" /\ Head(<<Insert(t)>>).op = "insert"
  BY DEF SplitCalls, Call, Take, Wipe, Insert
<1> QED
  BY <1>1 DEF Ready, Splits

\* Everything is as it should be, and is still after the step.
Fine == ITypeOK /\ Apart /\ JoinInv /\ RowsInv /\ LateInv /\ ReadyInv
Kept == RowsInv' /\ LateInv' /\ ReadyInv'

\* h stops with nothing to write.
LEMMA StoppedB ==
  ASSUME Fine, ITypeOK', NEW h \in Runners, running[h].todo # <<>>, Head(running[h].todo).op \notin {"wipe", "named"},
         NoSplit(running[h].todo), CarriesOn(h), Stopped(h), flaw' = {}, late' = late
  PROVE  Kept
<1> DEFINE todo == running[h].todo
           next == running'[h].todo
<1>1. todo \in Todos /\ next \in Todos /\ Slotted(next) \subseteq Slotted(todo)
  BY WorkingIs DEF CarriesOn, Goes, Fine
<1>2. mem' = mem /\ db' = db /\ lastRow' = lastRow /\ \A i \in 1..Len(next) : next[i].op = "drop"
  BY DEF Stopped
<1>3. \A t : ~Saves(todo, t)
  BY DEF Stopped, Saves
<1>4. next # <<>> => Head(next).op = "drop"
  BY <1>1, <1>2, TodoIs
<1>5. NoSplit(next) /\ OneGear(next)
  BY <1>2 DEF NoSplit, OneGear
<1>6. running \in Works /\ running' \in Works /\ \A g \in Runners \ {h} : running'[g] = running[g]
  BY WorksIs DEF CarriesOn, Works, OthersSame, Fine
<1>7. \A t : ~Hidden(todo, t) /\ ~Hidden(next, t) /\ RowBy(todo, mem, t) = mem[t].row /\ RowBy(next, mem', t) = mem[t].row
  <2> HIDE DEF todo, next
  <2>1. \A m, t : RowBy(todo, m, t) = m[t].row /\ ~Hidden(todo, t)
    <3>1. Head(todo).op \notin {"wipe", "named"} /\ NoSplit(todo)
      BY DEF todo
    <3> QED
      BY <3>1, RowOfPlain
  <2>2. \A m, t : RowBy(next, m, t) = m[t].row /\ ~Hidden(next, t)
    BY <1>4, <1>5, RowOfPlain
  <2> QED
    BY <1>2, <2>1, <2>2
<1>8. ASSUME NEW t \in Slots PROVE AsBefore(t)
  <2>1. Moved(t)' <=> Moved(t)
    BY DEF Moved
  <2>2. CASE t \in Slotted(todo)
    <3>1. /\ Hid(t) <=> Hidden(todo, t)
          /\ SavedIn(running, t) <=> Saves(todo, t)
          /\ Row(t) = RowBy(todo, mem, t)
          /\ Hid(t)' <=> Hidden(next, t)
          /\ Row(t)' = RowBy(next, mem', t)
      BY <2>2, OwnSlots DEF Fine
    <3> QED
      BY <1>2, <1>3, <1>7, <2>1, <3>1 DEF AsBefore, Dirty, Occupied
  <2>3. CASE t \notin Slotted(todo)
    <3>1. t \notin Slotted(next)
      BY <1>1, <2>3
    <3>2. (Hid(t)' <=> Hid(t)) /\ (SavedIn(running, t)' <=> SavedIn(running, t)) /\ Row(t)' = Row(t)
      BY <1>2, <1>6, <2>3, <3>1, OtherSlot, SMTT(60) DEF Hid, Row
    <3> QED
      BY <1>2, <2>1, <3>2 DEF AsBefore, Dirty, Occupied
  <2> QED
    BY <2>2, <2>3
<1>9. RowsInv'
  BY <1>2, <1>8, SameHomes DEF Fine
<1>10. LateInv'
  BY <1>2, LateKept DEF Fine
<1>11. Ready(running[h].todo)'
  BY <1>4, <1>5 DEF Ready, NoSplit, OneGear, Lonely
<1>12. ReadyInv'
  BY <1>2, <1>11, ReadyOthers DEF Fine
<1> QED
  BY <1>9, <1>10, <1>12 DEF Kept
\* The head of a list that splits no stack: h makes the call on slot s.
LEMMA Goes1 ==
  ASSUME Fine, ITypeOK', NEW h \in Runners, CarriesOn(h), late' = late, running[h].todo # <<>>,
         NEW s \in Slots, s \in Slotted(running[h].todo), \A t \in Slots \ {s} : mem'[t] = mem[t],
         NoSplit(running[h].todo), OneGear(running[h].todo),
         Follows(running[h].todo, running'[h].todo, s),
         Head(running[h].todo).op \in {"wipe", "named", "save"} => Head(running[h].todo).slot = s,
         NEW r \in Nat, r = RowBy(running[h].todo, mem, s), NEW q \in Nat, q = RowBy(running'[h].todo, mem', s),
         \/ q \in {0, r} /\ lastRow' = lastRow
         \/ r = 0 /\ q \in {0, lastRow + 1} /\ lastRow' = lastRow + 1,
         \A x \in 1..MaxRow : db'[x] # db[x] => x = q \/ (x = r /\ db'[x] = Gone),
         r # 0 /\ q = 0 => db'[r] = Gone,
         q # 0 => Told(db', mem', s, q, Saves(running'[h].todo, s)),
         Occupied(s)' => Hidden(running'[h].todo, s) \/ q # 0
  PROVE  Kept
<1>1. PICK todo \in Todos : todo = running[h].todo
  BY WorkingIs DEF Fine
<1>2. PICK next \in Todos : next = running'[h].todo
  BY DEF CarriesOn, Goes
<1>3. todo \in Todos /\ todo # <<>>
  BY <1>1, WorkingIs DEF Fine
<1>4. NoSplit(next) /\ OneGear(next)
  BY <1>1, <1>2, <1>3, Continues
<1>5. \A t \in Slotted(todo) \ {s} : /\ ~HeadIs(todo, "named", t) /\ ~HeadIs(next, "named", t)
                                     /\ Hidden(next, t) <=> Hidden(todo, t)
                                     /\ Saves(todo, t) => Saves(next, t)
  <2>1. Follows(todo, next, s) /\ NoSplit(todo) /\ (Head(todo).op \in {"wipe", "named", "save"} => Head(todo).slot = s)
    BY <1>1, <1>2
  <2>2. \A t : t # s /\ (Head(todo).op \in {"wipe", "named", "save"} => Head(todo).slot = s) =>
              /\ ~HeadIs(todo, "named", t) /\ ~HeadIs(next, "named", t)
              /\ Hidden(next, t) <=> Hidden(todo, t)
              /\ Saves(todo, t) => Saves(next, t)
    BY <1>3, <2>1, Continues
  <2> QED
    BY <2>1, <2>2
<1>10. Lonely(next)
  BY <1>1, <1>2, <1>3, LonelyOn
<1>6. Ready(next)'
  BY <1>4, <1>10 DEF Ready, NoSplit, OneGear, Lonely
<1>7. r = RowBy(todo, mem, s) /\ q = RowBy(next, mem', s)
  BY <1>1, <1>2
<1>8. q # 0 => Told(db', mem', s, q, Saves(next, s))
  BY <1>2
<1>9. Occupied(s)' => Hidden(next, s) \/ q # 0
  BY <1>2
<1> QED
  BY <1>1, <1>2, <1>5, <1>6, <1>7, <1>8, <1>9, CallKeeps DEF Fine, Kept
LEMMA SameRow ==
  ASSUME NEW i \in Items
  PROVE  [i EXCEPT !.row = i.row] = i
  BY DEF Items

\* The row of slot s is written as the slot is by then.
LEMMA UpdatedRow ==
  ASSUME ITypeOK, NEW s \in Slots, NEW i \in Items, mem'[s] = i, db' = Update(db, s, i)
  PROVE  /\ \A x \in 1..MaxRow : db'[x] # db[x] => x = i.row
         /\ i.row # 0 /\ db[i.row] # Gone /\ i.kind # NoKind => \A b \in BOOLEAN : Told(db', mem', s, i.row, b)
<1>1. db \in [1..MaxRow -> Records]
  BY DEF ITypeOK
<1>2. /\ i.row = 0 => db' = db
      /\ i.row # 0 => /\ i.row \in 1..MaxRow
                      /\ \A r \in 1..MaxRow : db'[r] = IF r = i.row /\ db[r] # Gone THEN [slot |-> s, item |-> i] ELSE db[r]
  BY <1>1, UpdateIs, ZenonT(60)
<1>3. ASSUME i.row # 0, db[i.row] # Gone, i.kind # NoKind, NEW b \in BOOLEAN PROVE Told(db', mem', s, i.row, b)
  <2>1. db'[i.row] = [slot |-> s, item |-> i]
    BY <1>2, <1>3
  <2>2. db'[i.row].slot = s /\ db'[i.row].item = i
    BY <2>1
  <2>3. db'[i.row] # Gone
    BY <2>2, EmptyItems, SlotAssumption DEF Slots
  <2> QED
    BY <1>3, <2>2, <2>3, SameRow DEF Told
<1> QED
  BY <1>2, <1>3

LEMMA SavesBool == \A todo, t : Saves(todo, t) \in BOOLEAN
  BY DEF Saves

\* h rewrites the row of slot s and goes on.
LEMMA RewriteB ==
  ASSUME Fine, ITypeOK', NEW h \in Runners, CarriesOn(h), Tailed(h), late' = late, running[h].todo # <<>>,
         NEW s \in Slots, s \in Slotted(running[h].todo), \A t \in Slots \ {s} : mem'[t] = mem[t],
         NoSplit(running[h].todo), OneGear(running[h].todo),
         Head(running[h].todo).op \notin {"wipe", "named"}, Head(running[h].todo).op = "save" => Head(running[h].todo).slot = s,
         NEW i \in Items, mem'[s] = i, i.row = mem[s].row, db' = Update(db, s, i), lastRow' = lastRow,
         Occupied(s)' <=> Occupied(s)
  PROVE  Kept
<1>1. running[h].todo \in Todos
  BY WorkingIs DEF Fine
<1>2. Follows(running[h].todo, running'[h].todo, s)
  BY DEF Tailed, Follows
<1>3. RowBy(running[h].todo, mem, s) = mem[s].row /\ ~Hidden(running[h].todo, s)
  BY <1>1, RowOfPlain
<1>4. RowBy(running'[h].todo, mem', s) = mem'[s].row
  BY <1>1, RowOfTail DEF Tailed
<1>5. i.row \in 0..MaxRow /\ i.row \in Nat
  BY BoundAssumption, ItemIs
<1>6. PICK r \in Nat : r = i.row
  BY <1>5
<1>7. r = RowBy(running[h].todo, mem, s) /\ r = RowBy(running'[h].todo, mem', s)
  BY <1>3, <1>4, <1>6
<1>8. /\ Occupied(s) => r # 0
      /\ r # 0 => db[r] # Gone /\ Occupied(s)
  <2>1. /\ Occupied(s) => Hidden(running[h].todo, s) \/ r # 0
        /\ r # 0 => Occupied(s) /\ Told(db, mem, s, r, Saves(running[h].todo, s))
    <3>1. ITypeOK /\ Apart /\ RowsInv /\ LateInv
      BY DEF Fine
    <3> QED
      BY <1>7, <3>1, Known
  <2> QED
    BY <1>3, <2>1 DEF Told
<1>9. \A x \in 1..MaxRow : db'[x] # db[x] => x = r
  BY <1>6, UpdatedRow DEF Fine
<1>10. r # 0 => Told(db', mem', s, r, Saves(running'[h].todo, s))
  <2>1. r # 0 => i.kind # NoKind
    BY <1>8 DEF Occupied
  <2> QED
    BY <1>6, <1>8, <2>1, UpdatedRow, SavesBool DEF Fine
<1>11. Occupied(s)' => r # 0
  BY <1>8
<1> QED
  BY <1>2, <1>7, <1>9, <1>10, <1>11, Goes1
\* h gives the new item of slot s a row of its own and waits for its id.
LEMMA FiledB ==
  ASSUME Fine, ITypeOK', NEW h \in Runners, CarriesOn(h), late' = late, running[h].todo # <<>>,
         NEW s \in Slots, s \in Slotted(running[h].todo), \A t \in Slots \ {s} : mem'[t] = mem[t],
         NoSplit(running[h].todo), OneGear(running[h].todo), Head(running[h].todo).op \notin {"wipe", "named", "save"},
         NEW i \in Items, mem'[s] = i, i.kind # NoKind, mem[s].row = 0, Filed(h, s, i)
  PROVE  Kept
<1>1. running[h].todo \in Todos /\ lastRow \in 0..MaxRow /\ MaxRow \in Nat
  BY WorkingIs, BoundAssumption DEF Fine, ITypeOK
<1>2. PICK q \in Nat : q = lastRow + 1
  BY <1>1
<1> DEFINE c == Named(s, q)
<1>3. c \in Calls /\ c.op = "named" /\ c.slot = s /\ c.n = q
  <2>1. q <= MaxRow /\ s # AnySlot
    BY <1>1, <1>2, SlotAssumption DEF Filed, AnySlot, Slots
  <2> QED
    BY <1>2, <2>1 DEF Named, Call, Calls, FirstOnly, TwoSlots
<1>4. running'[h].todo = <<c>> \o Tail(running[h].todo)
  BY <1>2 DEF Filed
<1> HIDE DEF c
<1>5. Follows(running[h].todo, running'[h].todo, s)
  BY <1>3, <1>4 DEF Follows
<1>6. RowBy(running[h].todo, mem, s) = 0
  BY <1>1, RowOfPlain
<1>7. NoSplit(running'[h].todo)
  BY <1>1, <1>5, Continues
<1>8. RowBy(running'[h].todo, mem', s) = q
  BY <1>1, <1>3, <1>4, <1>7, RowOfFirst
<1>9. q \in 1..MaxRow /\ lastRow' = lastRow + 1
  BY <1>1, <1>2 DEF Filed
<1>10. /\ \A x \in 1..MaxRow : db'[x] # db[x] => x = q
       /\ db'[q] = [slot |-> s, item |-> [i EXCEPT !.row = q]]
  BY <1>2, <1>9 DEF Filed
<1>11. Told(db', mem', s, q, Saves(running'[h].todo, s))
  <2>1. db'[q].slot = s /\ db'[q].item = [mem'[s] EXCEPT !.row = q]
    BY <1>10
  <2>2. db'[q] # Gone
    BY <2>1, EmptyItems, SlotAssumption DEF Slots
  <2> QED
    BY <2>1, <2>2 DEF Told
<1>12. PICK r \in Nat : r = 0
  OBVIOUS
<1> QED
  BY <1>1, <1>2, <1>5, <1>6, <1>8, <1>9, <1>10, <1>11, <1>12, Goes1

LEMMA AddB ==
  ASSUME Fine, ITypeOK', flaw' = {}, NEW h \in Runners, running[h].todo # <<>>, NEW c, c = Head(running[h].todo),
         c.op \in {"put", "give"}, AddItem(h, c), late' = late
  PROVE  Kept
<1>1. ITypeOK /\ running[h].todo \in Todos /\ c \in Calls /\ SlotsOf(c) \subseteq Slotted(running[h].todo)
  BY HeadSlots DEF Fine
<1>2. CarriesOn(h)
  BY <1>1, AddItemIs
<1>3. Stopped(h) \/ \E s \in Slots, i \in Items : s \in SlotsOf(c) /\ Added(h, c, s, i)
  BY <1>1, AddItemIs
<1>4. NoSplit(running[h].todo) /\ OneGear(running[h].todo)
  BY NotSplit DEF Fine, ReadyInv
<1>5. CASE Stopped(h)
  BY <1>2, <1>4, <1>5, StoppedB
<1>6. ASSUME NEW s \in Slots, NEW i \in Items, s \in SlotsOf(c), Added(h, c, s, i) PROVE Kept
  <2>1. /\ i.row = mem[s].row /\ i.kind = c.with /\ mem' = [mem EXCEPT ![s] = i]
        /\ c.slot # AnySlot /\ Occupied(s) => "occupied" \in flaw'
        /\ Filed(h, s, i) \/ Rewritten(h, s, i)
    BY <1>6 DEF Added
  <2>2. mem'[s] = i /\ \A t \in Slots \ {s} : mem'[t] = mem[t]
    BY <1>1, <2>1 DEF ITypeOK
  <2>3. i.kind # NoKind
    BY <1>1, <2>1, CallIs, KindAssumption
  <2>4. s \in Slotted(running[h].todo)
    BY <1>1, <1>6
  <2>5. CASE Filed(h, s, i)
    <3>1. mem[s].row = 0
      BY <2>1, <2>5 DEF Filed
    <3> QED
      BY <1>2, <1>4, <2>2, <2>3, <2>4, <2>5, <3>1, FiledB
  <2>6. CASE Rewritten(h, s, i)
    <3>1. i.row # 0 /\ lastRow' = lastRow /\ Tailed(h) /\ db' = Update(db, s, i)
      BY <2>6 DEF Rewritten
    <3>6. mem[s] \in Items /\ MaxRow \in Nat
      BY <1>1, BoundAssumption DEF ITypeOK
    <3>7. mem[s].row \in 0..MaxRow
      BY <3>6, ItemIs
    <3>2. PICK r \in Nat : r = mem[s].row
      BY <3>6, <3>7
    <3>3. r = RowBy(running[h].todo, mem, s)
      BY <1>4, <3>2, RowOfPlain
    <3>4. Occupied(s)
      BY <1>1, <2>1, <2>4, <3>1, <3>2, <3>3, Known DEF Fine
    <3>5. Occupied(s)' <=> Occupied(s)
      BY <2>2, <2>3, <3>4 DEF Occupied
    <3> QED
      BY <1>2, <1>4, <2>1, <2>2, <2>4, <3>1, <3>5, RewriteB
  <2> QED
    BY <2>1, <2>5, <2>6
<1> QED
  BY <1>3, <1>5, <1>6
\* h deletes the row of slot s and waits to empty the slot.
LEMMA DeletedB ==
  ASSUME Fine, ITypeOK', NEW h \in Runners, CarriesOn(h), late' = late, running[h].todo # <<>>,
         NEW s \in Slots, s \in Slotted(running[h].todo), \A t \in Slots \ {s} : mem'[t] = mem[t],
         NoSplit(running[h].todo), OneGear(running[h].todo), Head(running[h].todo).op \notin {"wipe", "named", "save"},
         running'[h].todo = <<Wipe(s)>> \o Tail(running[h].todo), db' = Delete(db, mem[s].row), lastRow' = lastRow
  PROVE  Kept
<1>1. running[h].todo \in Todos /\ mem[s] \in Items /\ mem[s].row \in 0..MaxRow /\ MaxRow \in Nat /\ db \in [1..MaxRow -> Records]
  BY WorkingIs, BoundAssumption, ItemIs DEF Fine, ITypeOK
<1>2. Wipe(s) \in Calls /\ Wipe(s).op = "wipe" /\ Wipe(s).slot = s
  BY WipeCall DEF Wipe, Call
<1>3. Follows(running[h].todo, running'[h].todo, s)
  BY <1>2 DEF Follows
<1>4. RowBy(running[h].todo, mem, s) = mem[s].row
  BY <1>1, RowOfPlain
<1>5. NoSplit(running'[h].todo)
  BY <1>1, <1>3, Continues
<1>6. Hidden(running'[h].todo, s) /\ RowBy(running'[h].todo, mem', s) = 0
  BY <1>1, <1>2, <1>5, RowOfFirst
<1>7. PICK r \in Nat : r = mem[s].row
  BY <1>1
<1>8. PICK q \in Nat : q = 0
  OBVIOUS
<1>9. \A x \in 1..MaxRow : db'[x] = IF x = r THEN Gone ELSE db[x]
  BY <1>1, <1>7, DeleteRowIs
<1>10. r = RowBy(running[h].todo, mem, s) /\ q = RowBy(running'[h].todo, mem', s)
  BY <1>4, <1>6, <1>7, <1>8
<1>11. r # 0 /\ q = 0 => db'[r] = Gone
  BY <1>1, <1>7, <1>9
<1>12. q \in {0, r} /\ lastRow' = lastRow
  BY <1>8
<1>13. \A x \in 1..MaxRow : db'[x] # db[x] => x = q \/ (x = r /\ db'[x] = Gone)
  BY <1>9
<1>14. q # 0 => Told(db', mem', s, q, Saves(running'[h].todo, s))
  BY <1>8
<1>15. Occupied(s)' => Hidden(running'[h].todo, s) \/ q # 0
  BY <1>6
<1> QED
  BY <1>3, <1>10, <1>11, <1>12, <1>13, <1>14, <1>15, Goes1

LEMMA SavesOn ==
  ASSUME NEW todo \in Todos, todo # <<>>, NEW s, NEW next, Follows(todo, next, s), Head(todo).op # "save", NEW t, Saves(todo, t)
  PROVE  Saves(next, t)
<1>1. PICK i \in 1..Len(todo) : todo[i].op = "save" /\ todo[i].slot = t
  BY DEF Saves
<1>2. i \in 2..Len(todo)
  BY <1>1, TodoIs
<1>3. PICK j \in 1..Len(next) : next[j] = todo[i]
  BY <1>2, FollowsIs
<1> QED
  BY <1>1, <1>3 DEF Saves

LEMMA RowSet ==
  ASSUME NEW i \in Items, NEW n
  PROVE  /\ [i EXCEPT !.row = n].row = n /\ [i EXCEPT !.row = n].kind = i.kind
         /\ \A m : [[i EXCEPT !.row = n] EXCEPT !.row = m] = [i EXCEPT !.row = m]
  BY ZenonT(60) DEF Items

\* The slot is emptied, or is told its row.
LEMMA WaitB ==
  ASSUME Fine, ITypeOK', NEW h \in Runners, running[h].todo # <<>>, NEW c, c = Head(running[h].todo),
         c.op \in {"wipe", "named"}, AfterWait(h, c), late' = late, NoSplit(running[h].todo), OneGear(running[h].todo)
  PROVE  Kept
<1>1. ITypeOK /\ running[h].todo \in Todos /\ mem \in [Slots -> Items] /\ MaxRow \in Nat
  BY WorkingIs, BoundAssumption DEF Fine, ITypeOK
<1>2. c.slot \in Slots /\ c.slot \in Slotted(running[h].todo) /\ c.n \in Nat
  BY <1>1, SingleSlot
<1>3. /\ Then(h, Tail(running[h].todo)) /\ db' = db /\ lastRow' = lastRow
      /\ mem' = IF c.op = "wipe" THEN [mem EXCEPT ![c.slot] = NewSlot] ELSE [mem EXCEPT ![c.slot].row = c.n]
  BY DEF AfterWait
<1>4. CarriesOn(h) /\ Tailed(h)
  BY <1>1, <1>3, Tails
<1>5. Follows(running[h].todo, running'[h].todo, c.slot)
  BY <1>4 DEF Tailed, Follows
<1>6. RowBy(running'[h].todo, mem', c.slot) = mem'[c.slot].row
  BY <1>1, <1>4, RowOfTail, SMTT(60) DEF Tailed
<1>7. \A t \in Slots \ {c.slot} : mem'[t] = mem[t]
  BY <1>1, <1>2, <1>3, SMTT(60)
<1>8. CASE c.op = "wipe"
  <2>1. mem'[c.slot] = NewSlot
    BY <1>1, <1>2, <1>3, <1>8
  <2>2. ~Occupied(c.slot)' /\ mem'[c.slot].row = 0
    BY <2>1, EmptyItems DEF Occupied
  <2>3. Hidden(running[h].todo, c.slot)
    BY <1>8 DEF Hidden, HeadIs
  <2>4. PICK r \in Nat : r = 0
    OBVIOUS
  <2>5. r = RowBy(running[h].todo, mem, c.slot) /\ r = RowBy(running'[h].todo, mem', c.slot)
    BY <1>6, <2>2, <2>3, <2>4 DEF RowBy
  <2> QED
    BY <1>2, <1>3, <1>4, <1>5, <1>7, <2>2, <2>4, <2>5, Goes1, ZenonT(60)
<1>9. CASE c.op = "named"
  <2>1. mem'[c.slot] = [mem[c.slot] EXCEPT !.row = c.n]
    BY <1>1, <1>2, <1>3, <1>9
  <2>11. mem[c.slot] \in Items
    BY <1>1, <1>2
  <2>2. mem'[c.slot].row = c.n /\ mem'[c.slot].kind = mem[c.slot].kind /\ [mem'[c.slot] EXCEPT !.row = c.n] = [mem[c.slot] EXCEPT !.row = c.n]
    <3>1. PICK i \in Items : i = mem[c.slot]
      BY <2>11
    <3>2. mem'[c.slot] = [i EXCEPT !.row = c.n]
      BY <2>1, <3>1
    <3>3. /\ [i EXCEPT !.row = c.n].row = c.n /\ [i EXCEPT !.row = c.n].kind = i.kind
          /\ [[i EXCEPT !.row = c.n] EXCEPT !.row = c.n] = [i EXCEPT !.row = c.n]
      BY RowSet, ZenonT(60)
    <3> QED
      BY <3>1, <3>2, <3>3
  <2>3. ~Hidden(running[h].todo, c.slot)
    BY <1>9 DEF Hidden, HeadIs, NoSplit, Inserts
  <2>4. PICK r \in Nat : r = c.n
    BY <1>2, SMTT(60)
  <2>5. r = RowBy(running[h].todo, mem, c.slot) /\ r = RowBy(running'[h].todo, mem', c.slot)
    BY <1>6, <1>9, <2>2, <2>3, <2>4, ZenonT(60) DEF RowBy, HeadIs
  <2>6. /\ Occupied(c.slot) => Hidden(running[h].todo, c.slot) \/ r # 0
        /\ r # 0 => Occupied(c.slot) /\ Told(db, mem, c.slot, r, Saves(running[h].todo, c.slot))
    BY <1>2, <2>5, Known, SMTT(60) DEF Fine
  <2>7. Occupied(c.slot)' <=> Occupied(c.slot)
    BY <2>2, ZenonT(60) DEF Occupied
  <2>8. Saves(running[h].todo, c.slot) => Saves(running'[h].todo, c.slot)
    BY <1>1, <1>5, <1>9, SavesOn, SMTT(60)
  <2>9. r # 0 => Told(db', mem', c.slot, r, Saves(running'[h].todo, c.slot))
    BY <1>3, <2>2, <2>4, <2>6, <2>8, ZenonT(60) DEF Told
  <2> QED
    BY <1>2, <1>3, <1>4, <1>5, <1>7, <2>3, <2>5, <2>6, <2>7, <2>9, Goes1, ZenonT(60)
<1> QED
  BY <1>8, <1>9
\* The item in slot c.slot is changed, or written.
LEMMA ChangeB ==
  ASSUME Fine, ITypeOK', flaw' = {}, NEW h \in Runners, running[h].todo # <<>>, NEW c, c = Head(running[h].todo),
         c.op \in {"grade", "save"}, ChangeItem(h, c), late' = late
  PROVE  Kept
<1>1. ITypeOK /\ running[h].todo \in Todos /\ mem \in [Slots -> Items] /\ MaxRow \in Nat
  BY WorkingIs, BoundAssumption DEF Fine, ITypeOK
<1>2. /\ c.slot \in Slots /\ c.slot \in Slotted(running[h].todo) /\ mem[c.slot] \in Items
      /\ mem[c.slot].row \in 0..MaxRow
  BY <1>1, SingleSlot
<1>3. NoSplit(running[h].todo) /\ OneGear(running[h].todo)
  BY NotSplit DEF Fine, ReadyInv
<1>4. Then(h, Tail(running[h].todo)) /\ lastRow' = lastRow
  BY DEF ChangeItem
<1>5. CarriesOn(h) /\ Tailed(h)
  BY <1>1, <1>4, Tails
<1>6. CASE c.op = "save"
  <2>1. mem' = mem /\ db' = Update(db, c.slot, mem[c.slot])
    BY <1>6 DEF ChangeItem
  <2>2. \A t \in Slots \ {c.slot} : mem'[t] = mem[t]
    BY <2>1
  <2>3. mem'[c.slot] = mem[c.slot] /\ (Occupied(c.slot)' <=> Occupied(c.slot))
    BY <2>1, SMTT(60) DEF Occupied
  <2> QED
    BY <1>2, <1>3, <1>4, <1>5, <1>6, <2>1, <2>2, <2>3, RewriteB
<1>7. CASE c.op = "grade"
  <2>1. mem' = [mem EXCEPT ![c.slot].grade = c.n] /\ db' = db
    BY <1>7 DEF ChangeItem
  <2>2. \A t \in Slots \ {c.slot} : mem'[t] = mem[t]
    BY <1>1, <1>2, <2>1
  <2>3. mem'[c.slot].kind = mem[c.slot].kind /\ mem'[c.slot].row = mem[c.slot].row
    BY <1>1, <1>2, <2>1 DEF Items
  <2>4. Occupied(c.slot)' <=> Occupied(c.slot)
    BY <2>3 DEF Occupied
  <2>5. Follows(running[h].todo, running'[h].todo, c.slot)
    BY <1>5 DEF Tailed, Follows
  <2>6. Saves(running'[h].todo, c.slot)
    <3>1. \E d \in Range(running[h].todo) : d.op = "save"
      BY DEF ChangeItem
    <3>2. Range(running[h].todo) = {running[h].todo[i] : i \in 1..Len(running[h].todo)}
      BY <1>1, InRange DEF Todos
    <3>3. PICK i \in 1..Len(running[h].todo) : running[h].todo[i].op = "save"
      BY <3>1, <3>2
    <3>4. 1 \in 1..Len(running[h].todo) /\ running[h].todo[1] = c
      BY <1>1, TodoIs
    <3>5. running[h].todo[i].slot = c.slot
      BY <1>3, <1>7, <3>3, <3>4 DEF OneGear
    <3>6. Saves(running[h].todo, c.slot)
      BY <3>3, <3>5 DEF Saves
    <3> QED
      BY <1>1, <1>7, <2>5, <3>6, SavesOn
  <2>7. RowBy(running[h].todo, mem, c.slot) = mem[c.slot].row /\ ~Hidden(running[h].todo, c.slot)
    BY <1>3, <1>7, RowOfPlain
  <2>8. RowBy(running'[h].todo, mem', c.slot) = mem'[c.slot].row
    BY <1>1, <1>3, <1>5, RowOfTail DEF Tailed
  <2>9. PICK r \in Nat : r = mem[c.slot].row
    BY <1>1, <1>2
  <2>10. r = RowBy(running[h].todo, mem, c.slot) /\ r = RowBy(running'[h].todo, mem', c.slot)
    BY <2>3, <2>7, <2>8, <2>9
  <2>11. /\ Occupied(c.slot) => Hidden(running[h].todo, c.slot) \/ r # 0
         /\ r # 0 => Occupied(c.slot) /\ Told(db, mem, c.slot, r, Saves(running[h].todo, c.slot))
    BY <1>2, <2>10, Known, SMTT(60) DEF Fine
  <2>12. r # 0 => Told(db', mem', c.slot, r, Saves(running'[h].todo, c.slot))
    BY <2>1, <2>3, <2>6, <2>11, ZenonT(60) DEF Told
  <2>13. Occupied(c.slot)' => Hidden(running'[h].todo, c.slot) \/ r # 0
    BY <2>4, <2>7, <2>11
  <2>14. r \in {0, r} /\ lastRow' = lastRow
    BY <1>4
  <2>15. \A x \in 1..MaxRow : db'[x] # db[x] => x = r \/ (x = r /\ db'[x] = Gone)
    BY <2>1, SMTT(60)
  <2> QED
    BY <1>2, <1>3, <1>5, <1>7, <2>2, <2>5, <2>10, <2>12, <2>13, <2>14, <2>15, Goes1
<1> QED
  BY <1>6, <1>7

\* An item is removed.
LEMMA DropB ==
  ASSUME Fine, ITypeOK', NEW h \in Runners, running[h].todo # <<>>, NEW c, c = Head(running[h].todo),
         c.op = "drop", RemoveItem(h, c), late' = late
  PROVE  Kept
<1>1. ITypeOK
  BY DEF Fine
<1>2. c.slot \in Slots /\ c.slot \in Slotted(running[h].todo) /\ c.slot \in SlotsOf(c)
  BY <1>1, SingleSlot
<1>3. NoSplit(running[h].todo) /\ OneGear(running[h].todo)
  BY NotSplit, SMTT(60) DEF Fine, ReadyInv
<1>4. /\ Then(h, <<Wipe(c.slot)>> \o Tail(running[h].todo)) /\ lastRow' = lastRow
      /\ mem' = mem /\ db' = Delete(db, mem[c.slot].row)
  BY ZenonT(60) DEF RemoveItem
<1>5. CarriesOn(h) /\ running'[h].todo = <<Wipe(c.slot)>> \o Tail(running[h].todo)
  BY <1>1, <1>2, <1>4, WipeNext
<1>6. \A t \in Slots \ {c.slot} : mem'[t] = mem[t]
  BY <1>4
<1> QED
  BY <1>2, <1>3, <1>4, <1>5, <1>6, DeletedB

\* The two calls that are left of a split when the part is in its slot, and the last one.
LEMMA LoneIs ==
  ASSUME NEW t \in Slots
  PROVE  /\ Insert(t) \in Calls /\ Insert(t).op = "insert" /\ Insert(t).slot = t /\ SlotsOf(Insert(t)) = {t}
         /\ <<Insert(t)>> \in Todos /\ <<Insert(t)>> # <<>> /\ Head(<<Insert(t)>>) = Insert(t) /\ Tail(<<Insert(t)>>) = <<>>
         /\ Len(<<Insert(t)>>) = 1 /\ <<Insert(t)>>[1] = Insert(t)
         /\ Slotted(<<Insert(t)>>) = {t} /\ Lonely(<<Insert(t)>>)
         /\ \A s : /\ Hidden(<<Insert(t)>>, s) <=> s = t
                   /\ ~Saves(<<Insert(t)>>, s)
                   /\ ~HeadIs(<<Insert(t)>>, "named", s)
<1> DEFINE d == Insert(t)
<1>1. d \in Calls /\ d.op = "insert" /\ d.slot = t /\ SlotsOf(d) = {t}
  BY SlotAssumption DEF Insert, Call, Calls, Plain, FirstOnly, AnySlot, TwoSlots, Slots, SlotsOf
<1> HIDE DEF d
<1>2. <<d>> # <<>> /\ Head(<<d>>) = d /\ Tail(<<d>>) = <<>> /\ Len(<<d>>) = 1 /\ <<d>>[1] = d /\ <<d>> \in Seq(Calls)
  BY <1>1
<1>3. <<d>> \in Todos
  BY <1>1, TodosOne
<1>4. Slotted(<<d>>) = {t}
  BY <1>1, <1>2, SlottedIs, SMTT(60)
<1>5. \A s : Hidden(<<d>>, s) <=> s = t
  BY <1>1, <1>2 DEF Hidden, HeadIs, Inserts
<1>6. \A s : ~Saves(<<d>>, s) /\ ~HeadIs(<<d>>, "named", s)
  BY <1>1, <1>2 DEF Saves, HeadIs
<1>7. Lonely(<<d>>)
  BY <1>2 DEF Lonely
<1> QED
  BY <1>1, <1>2, <1>3, <1>4, <1>5, <1>6, <1>7 DEF d

LEMMA TwoInOne == ASSUME NEW a, NEW b PROVE <<a>> \o <<b>> = <<a, b>>
<1> DEFINE S == {a, b}
           s == <<a>> \o <<b>>
           t == <<a, b>>
<1>1. <<a>> \in Seq(S) /\ <<b>> \in Seq(S) /\ Len(<<a>>) = 1 /\ Len(<<b>>) = 1 /\ <<a>>[1] = a /\ <<b>>[1] = b
  OBVIOUS
<1>2. s \in Seq(S) /\ Len(s) = 2 /\ s[1] = a /\ s[2] = b
  BY <1>1
<1>3. t \in Seq(S) /\ Len(t) = 2 /\ t[1] = a /\ t[2] = b
  OBVIOUS
<1> HIDE DEF s, t, S
<1>4. \A i \in 1..Len(s) : i = 1 \/ i = 2
  BY <1>2
<1>5. s = t
  BY <1>2, <1>3, <1>4, SeqEqual
<1> QED
  BY <1>5 DEF s, t

LEMMA PairIs ==
  ASSUME NEW a \in Calls, a.op \in {"take", "wipe"}, NEW t \in Slots, NEW s \in Slots, a.slot = s, s # t,
         NEW todo, todo = <<a, Insert(t)>>
  PROVE  /\ todo \in Todos /\ todo # <<>> /\ Head(todo) = a /\ Tail(todo) = <<Insert(t)>>
         /\ Slotted(todo) = {s, t} /\ Lonely(todo)
         /\ \A u : /\ Hidden(todo, u) <=> u = t \/ (u = s /\ a.op = "wipe")
                   /\ ~Saves(todo, u)
                   /\ ~HeadIs(todo, "named", u)
<1> DEFINE d == Insert(t)
<1>1. d \in Calls /\ d.op = "insert" /\ d.slot = t /\ SlotsOf(d) = {t}
  BY LoneIs
<1>2. todo = <<a, d>>
  OBVIOUS
<1> HIDE DEF d
<1>3. SlotsOf(a) = {s}
  BY SlotAssumption DEF SlotsOf, AnySlot, Slots
<1>4. /\ todo \in Seq(Calls) /\ todo # <<>> /\ Head(todo) = a /\ Tail(todo) = <<d>> /\ Len(todo) = 2
      /\ todo[1] = a /\ todo[2] = d
  BY <1>1, <1>2
<1>5. todo \in Todos
  <2>1. \A i \in 2..Len(todo) : i = 2
    BY <1>4
  <2> QED
    BY <1>1, <1>4, <2>1 DEF Todos, Plain
<1>6. Slotted(todo) = {s, t}
  <2>1. \A u : u \in Slotted(todo) <=> \E i \in 1..Len(todo) : u \in SlotsOf(todo[i])
    BY <1>4, SlottedIs
  <2>2. \A i \in 1..Len(todo) : i = 1 \/ i = 2
    BY <1>4
  <2>3. 1 \in 1..Len(todo) /\ 2 \in 1..Len(todo)
    BY <1>4
  <2>4. \A u : u \in Slotted(todo) <=> u = s \/ u = t
    BY <1>1, <1>3, <1>4, <2>1, <2>2, <2>3
  <2> QED
    BY <2>4
<1>7. \A u : (Inserts(todo, u) <=> u = t) /\ ~Saves(todo, u)
  <2>1. \A i \in 1..Len(todo) : i = 1 \/ i = 2
    BY <1>4
  <2>2. 2 \in 1..Len(todo)
    BY <1>4
  <2>3. todo[1].op \notin {"insert", "save"} /\ todo[2].op = "insert" /\ todo[2].slot = t
    BY <1>1, <1>4
  <2>4. \A u : Inserts(todo, u) <=> u = t
    BY <2>1, <2>2, <2>3 DEF Inserts
  <2>5. \A u : ~Saves(todo, u)
    BY <2>1, <2>3 DEF Saves
  <2> QED
    BY <2>4, <2>5
<1>8. \A u : ~HeadIs(todo, "named", u) /\ (HeadIs(todo, "wipe", u) <=> u = s /\ a.op = "wipe")
  BY <1>4 DEF HeadIs
<1>9. \A u : Hidden(todo, u) <=> u = t \/ (u = s /\ a.op = "wipe")
  BY <1>4, <1>7, <1>8 DEF Hidden
<1>10. Lonely(todo)
  BY <1>4 DEF Lonely
<1> QED
  BY <1>4, <1>5, <1>6, <1>7, <1>8, <1>9, <1>10 DEF d

LEMMA TripleIs ==
  ASSUME NEW w \in Slots, NEW t \in Slots, NEW n \in Nat
  PROVE  /\ SplitCalls(w, t, n) \in Todos /\ SplitCalls(w, t, n) # <<>>
         /\ Head(SplitCalls(w, t, n)) = Call("copy", w, t, n)
         /\ Tail(SplitCalls(w, t, n)) = <<Take(w, n), Insert(t)>> /\ Slotted(SplitCalls(w, t, n)) = {w, t}
         /\ Lonely(SplitCalls(w, t, n))
         /\ \A u : /\ ~Hidden(SplitCalls(w, t, n), u)
                   /\ ~Saves(SplitCalls(w, t, n), u)
                   /\ ~HeadIs(SplitCalls(w, t, n), "named", u)
<1> DEFINE a == Call("copy", w, t, n)
           b == Take(w, n)
           d == Insert(t)
           todo == SplitCalls(w, t, n)
<1>1. /\ a \in Calls /\ b \in Calls /\ d \in Calls /\ a.op = "copy" /\ b.op = "take" /\ d.op = "insert"
      /\ SlotsOf(a) = {w, t} /\ SlotsOf(b) = {w} /\ SlotsOf(d) = {t}
  BY SlotAssumption DEF Take, Call, Calls, Insert, Plain, FirstOnly, AnySlot, TwoSlots, Slots, SlotsOf
<1>2. todo = <<a, b, d>>
  BY DEF SplitCalls, Insert
<1> HIDE DEF a, b, d, todo
<1>3. /\ todo \in Seq(Calls) /\ todo # <<>> /\ Head(todo) = a /\ Tail(todo) = <<b, d>> /\ Len(todo) = 3
      /\ todo[1] = a /\ todo[2] = b /\ todo[3] = d
  BY <1>1, <1>2
<1>4. \A i \in 1..Len(todo) : i = 1 \/ i = 2 \/ i = 3
  BY <1>3
<1>5. todo \in Todos
  <2>1. \A i \in 2..Len(todo) : i = 2 \/ i = 3
    BY <1>3
  <2> QED
    BY <1>1, <1>3, <2>1 DEF Todos, Plain
<1>6. Slotted(todo) = {w, t}
  <2>1. \A u : u \in Slotted(todo) <=> \E i \in 1..Len(todo) : u \in SlotsOf(todo[i])
    BY <1>3, SlottedIs
  <2>2. 1 \in 1..Len(todo)
    BY <1>3
  <2>3. \A u : u \in Slotted(todo) <=> u = w \/ u = t
    BY <1>1, <1>3, <1>4, <2>1, <2>2
  <2> QED
    BY <2>3
<1>7. \A u : ~HeadIs(todo, "named", u) /\ ~HeadIs(todo, "wipe", u)
  BY <1>1, <1>3 DEF HeadIs
<1>8. \A u : ~Hidden(todo, u)
  BY <1>1, <1>3, <1>7 DEF Hidden
<1>9. \A u : ~Saves(todo, u)
  BY <1>1, <1>3, <1>4 DEF Saves
<1>10. Lonely(todo)
  BY <1>1, <1>3 DEF Lonely
<1> QED
  BY <1>3, <1>5, <1>6, <1>7, <1>8, <1>9, <1>10 DEF a, b, d, todo
\* The stack a part was copied from is lessened.
LEMMA TakePart ==
  ASSUME Fine, ITypeOK', NEW h \in Runners, NEW c, c = Head(running[h].todo), DecrementItem(h, c), late' = late,
         NEW w \in Slots, NEW t \in Slots, NEW n \in Nat, running[h].todo = <<Take(w, n), Insert(t)>>, w # t,
         Occupied(t), Occupied(w), n <= mem[w].qty
  PROVE  Kept
<1>1. Take(w, n) \in Calls /\ Take(w, n).op = "take" /\ Take(w, n).slot = w /\ Take(w, n).n = n
  BY SlotAssumption DEF Take, Call, Calls, Plain, FirstOnly, AnySlot, TwoSlots, Slots
<1>2. PICK todo \in Todos : todo = running[h].todo
  BY WorkingIs DEF Fine
<1>3. /\ todo # <<>> /\ Head(todo) = Take(w, n) /\ Tail(todo) = <<Insert(t)>>
      /\ Slotted(todo) = {w, t}
      /\ \A u : /\ Hidden(todo, u) <=> u = t
                /\ ~Saves(todo, u)
                /\ ~HeadIs(todo, "named", u)
  BY <1>1, <1>2, PairIs
<1>4. ITypeOK /\ mem \in [Slots -> Items] /\ db \in [1..MaxRow -> Records] /\ MaxRow \in Nat
  BY BoundAssumption DEF Fine, ITypeOK
<1>5. c = Take(w, n) /\ c.op = "take" /\ c.slot = w /\ c.n = n /\ running[h].todo # <<>>
  BY <1>1, <1>2, <1>3
<1>6. CarriesOn(h) /\ Lessened(h, w, n)
  BY <1>4, <1>5, DecrementIs
<1>7. /\ mem' = [mem EXCEPT ![w] = Less(mem[w], n)] /\ lastRow' = lastRow
      /\ \/ db' = Delete(db, mem[w].row) /\ running'[h].todo = <<Wipe(w)>> \o Tail(running[h].todo)
         \/ db' = Update(db, w, Less(mem[w], n)) /\ Tailed(h)
  BY <1>6 DEF Lessened
<1>8. /\ mem[w] \in Items /\ Less(mem[w], n) \in Items /\ Less(mem[w], n).kind = mem[w].kind
      /\ Less(mem[w], n).row = mem[w].row /\ mem[w].row \in 0..MaxRow
  BY <1>4, LessIs, ItemIs
<1>9. mem'[w] = Less(mem[w], n) /\ \A u \in Slots \ {w} : mem'[u] = mem[u]
  BY <1>4, <1>7
<1>10. PICK next \in Todos : next = running'[h].todo
  BY <1>6 DEF CarriesOn, Goes
<1>11. RowBy(todo, mem, w) = mem[w].row
  BY <1>3 DEF RowBy
<1>12. PICK r \in Nat : r = mem[w].row
  BY <1>4, <1>8
<1>13. r = RowBy(running[h].todo, mem, w) /\ ~Hidden(running[h].todo, w) /\ w \in Slotted(running[h].todo)
  BY <1>2, <1>3, <1>11, <1>12
<1>14. /\ r # 0 /\ r \in 1..lastRow
       /\ Told(db, mem, w, r, Saves(running[h].todo, w))
  <2>1. /\ Occupied(w) => Hidden(running[h].todo, w) \/ r # 0
        /\ r # 0 => r \in 1..lastRow /\ Told(db, mem, w, r, Saves(running[h].todo, w))
    <3>1. ITypeOK /\ Apart /\ RowsInv /\ LateInv
      BY DEF Fine
    <3> QED
      BY <1>13, <3>1, Known
  <2> QED
    BY <1>13, <2>1
<1>15. Occupied(t)' /\ Occupied(w)'
  BY <1>8, <1>9 DEF Occupied
<1>16. CASE db' = Delete(db, mem[w].row) /\ running'[h].todo = <<Wipe(w)>> \o Tail(running[h].todo)
  <2>1. next = <<Wipe(w), Insert(t)>>
    <3>1. next = <<Wipe(w)>> \o <<Insert(t)>>
      BY <1>2, <1>3, <1>10, <1>16
    <3> QED
      BY <3>1, TwoInOne
  <2>2. Wipe(w) \in Calls /\ Wipe(w).op = "wipe" /\ Wipe(w).slot = w
    BY WipeCall DEF Wipe, Call
  <2>3. /\ Lonely(next) /\ Head(next) = Wipe(w)
        /\ \A u : /\ Hidden(next, u) <=> u = t \/ u = w
                  /\ ~Saves(next, u)
                  /\ ~HeadIs(next, "named", u)
    BY <2>1, <2>2, PairIs
  <2>4. Ready(next)'
    <3>1. Splits(next)'
      BY <1>15, <2>1 DEF Splits
    <3> QED
      BY <2>3, <3>1 DEF Ready, Lonely
  <2>5. PICK q \in Nat : q = 0
    OBVIOUS
  <2>6. q = RowBy(next, mem', w)
    BY <2>3, <2>5 DEF RowBy
  <2>7. \A x \in 1..MaxRow : db'[x] = IF x = r THEN Gone ELSE db[x]
    BY <1>4, <1>8, <1>12, <1>16, DeleteRowIs
  <2>8. q \in {0, r} /\ lastRow' = lastRow
    BY <1>7, <2>5
  <2>9. \A x \in 1..MaxRow : db'[x] # db[x] => x = q \/ (x = r /\ db'[x] = Gone)
    BY <2>7
  <2>10. r # 0 /\ q = 0 => db'[r] = Gone
    BY <1>8, <1>12, <2>7
  <2>11. q # 0 => Told(db', mem', w, q, Saves(next, w))
    BY <2>5
  <2>12. Occupied(w)' => Hidden(next, w) \/ q # 0
    BY <2>3
  <2>13. \A u \in Slotted(todo) \ {w} : /\ ~HeadIs(todo, "named", u) /\ ~HeadIs(next, "named", u)
                                        /\ Hidden(next, u) <=> Hidden(todo, u)
                                        /\ Saves(todo, u) => Saves(next, u)
    BY <1>3, <2>3
  <2>14. r = RowBy(todo, mem, w)
    BY <1>11, <1>12
  <2> QED
    BY <1>2, <1>6, <1>9, <1>10, <1>13, <2>4, <2>6, <2>8, <2>9, <2>10, <2>11, <2>12, <2>13, <2>14, CallKeeps DEF Fine, Kept
<1>17. CASE db' = Update(db, w, Less(mem[w], n)) /\ Tailed(h)
  <2>1. next = <<Insert(t)>>
    BY <1>2, <1>3, <1>10, <1>17 DEF Tailed
  <2>2. /\ Lonely(next)
        /\ \A u : /\ Hidden(next, u) <=> u = t
                  /\ ~Saves(next, u)
                  /\ ~HeadIs(next, "named", u)
    BY <2>1, LoneIs
  <2>3. Ready(next)'
    <3>1. Splits(next)'
      BY <1>15, <2>1 DEF Splits
    <3> QED
      BY <2>2, <3>1 DEF Ready, Lonely
  <2>13. PICK q \in Nat : q = r
    OBVIOUS
  <2>4. q = RowBy(next, mem', w)
    BY <1>8, <1>9, <1>12, <2>2, <2>13 DEF RowBy
  <2>5. \A x \in 1..MaxRow : db'[x] # db[x] => x = r
    BY <1>4, <1>8, <1>9, <1>12, <1>17, UpdatedRow
  <2>6. q # 0 => Told(db', mem', w, q, Saves(next, w))
    <3>1. db[r] # Gone
      BY <1>14 DEF Told
    <3> QED
      BY <1>4, <1>8, <1>9, <1>12, <1>14, <1>17, <2>13, <3>1, UpdatedRow, SavesBool DEF Occupied
  <2>7. q \in {0, r} /\ lastRow' = lastRow
    BY <1>7, <2>13
  <2>8. \A x \in 1..MaxRow : db'[x] # db[x] => x = q \/ (x = r /\ db'[x] = Gone)
    BY <2>5, <2>13
  <2>9. Occupied(w)' => Hidden(next, w) \/ q # 0
    BY <1>14, <2>13
  <2>10. \A u \in Slotted(todo) \ {w} : /\ ~HeadIs(todo, "named", u) /\ ~HeadIs(next, "named", u)
                                        /\ Hidden(next, u) <=> Hidden(todo, u)
                                        /\ Saves(todo, u) => Saves(next, u)
    BY <1>3, <2>2
  <2>11. r = RowBy(todo, mem, w)
    BY <1>11, <1>12
  <2>12. r # 0 /\ q = 0 => db'[r] = Gone
    BY <2>13
  <2> QED
    BY <1>2, <1>6, <1>9, <1>10, <1>13, <2>3, <2>4, <2>6, <2>7, <2>8, <2>9, <2>10, <2>11, <2>12, CallKeeps DEF Fine, Kept
<1> QED
  BY <1>7, <1>16, <1>17

\* Pieces of an item are used up.
LEMMA TakeB ==
  ASSUME Fine, ITypeOK', flaw' = {}, NEW h \in Runners, running[h].todo # <<>>, NEW c, c = Head(running[h].todo),
         c.op = "take", DecrementItem(h, c), late' = late
  PROVE  Kept
<1>1. ITypeOK /\ Ready(running[h].todo) /\ mem \in [Slots -> Items]
  BY DEF Fine, ReadyInv, ITypeOK
<1>2. c.slot \in Slots /\ c.slot \in Slotted(running[h].todo) /\ mem[c.slot] \in Items /\ c.n \in Nat
  BY <1>1, SingleSlot
<1>3. CASE NoSplit(running[h].todo) /\ OneGear(running[h].todo)
  <2>1. CarriesOn(h) /\ (Stopped(h) \/ Lessened(h, c.slot, c.n))
    BY <1>1, DecrementIs
  <2>2. CASE Stopped(h)
    BY <1>3, <2>1, <2>2, StoppedB, SMTT(60)
  <2>3. CASE Lessened(h, c.slot, c.n)
    <3>1. /\ mem' = [mem EXCEPT ![c.slot] = Less(mem[c.slot], c.n)] /\ lastRow' = lastRow /\ c.n <= mem[c.slot].qty
          /\ \/ db' = Delete(db, mem[c.slot].row) /\ running'[h].todo = <<Wipe(c.slot)>> \o Tail(running[h].todo)
             \/ db' = Update(db, c.slot, Less(mem[c.slot], c.n)) /\ Tailed(h)
      BY <2>3, ZenonT(60) DEF Lessened
    <3>2. PICK i \in Items : i = Less(mem[c.slot], c.n) /\ i.kind = mem[c.slot].kind /\ i.row = mem[c.slot].row
      BY <1>2, <3>1, LessIs, ZenonT(60)
    <3>3. mem'[c.slot] = i /\ \A u \in Slots \ {c.slot} : mem'[u] = mem[u]
      BY <1>1, <1>2, <3>1, <3>2, ZenonT(60)
    <3>4. Occupied(c.slot)' <=> Occupied(c.slot)
      BY <3>2, <3>3, SMTT(60) DEF Occupied
    <3>5. CASE db' = Delete(db, mem[c.slot].row) /\ running'[h].todo = <<Wipe(c.slot)>> \o Tail(running[h].todo)
      BY <1>2, <1>3, <2>1, <3>1, <3>3, <3>5, DeletedB, ZenonT(60)
    <3>6. CASE db' = Update(db, c.slot, i) /\ Tailed(h)
      BY <1>2, <1>3, <2>1, <3>1, <3>2, <3>3, <3>4, <3>6, RewriteB, ZenonT(60)
    <3> QED
      BY <3>1, <3>2, <3>5, <3>6, ZenonT(60)
  <2> QED
    BY <2>1, <2>2, <2>3
<1>4. CASE Splits(running[h].todo)
  <2>1. PICK w \in Slots, t \in Slots : \E n \in Nat :
      \/ running[h].todo = SplitCalls(w, t, n) /\ Occupied(w) /\ n <= mem[w].qty
      \/ running[h].todo = <<Take(w, n), Insert(t)>> /\ w # t /\ Occupied(t) /\ Occupied(w) /\ n <= mem[w].qty
      \/ running[h].todo = <<Wipe(w), Insert(t)>> /\ w # t /\ Occupied(t)
      \/ running[h].todo = <<Insert(t)>> /\ Occupied(t)
    BY <1>4 DEF Splits
  <2>2. PICK n \in Nat :
      \/ running[h].todo = SplitCalls(w, t, n) /\ Occupied(w) /\ n <= mem[w].qty
      \/ running[h].todo = <<Take(w, n), Insert(t)>> /\ w # t /\ Occupied(t) /\ Occupied(w) /\ n <= mem[w].qty
      \/ running[h].todo = <<Wipe(w), Insert(t)>> /\ w # t /\ Occupied(t)
      \/ running[h].todo = <<Insert(t)>> /\ Occupied(t)
    BY <2>1
  <2>3. Head(SplitCalls(w, t, n)).op = "copy" /\ Head(<<Wipe(w), Insert(t)>>).op = "wipe" /\ Head(<<Insert(t)>>).op = "insert"
    BY DEF SplitCalls, Call, Take, Wipe, Insert
  <2>4. running[h].todo = <<Take(w, n), Insert(t)>> /\ w # t /\ Occupied(t) /\ Occupied(w) /\ n <= mem[w].qty
    BY <2>2, <2>3
  <2> QED
    BY <2>4, TakePart
<1> QED
  BY <1>1, <1>3, <1>4 DEF Ready
\* The emptied stack of a split.
LEMMA WipePart ==
  ASSUME Fine, ITypeOK', NEW h \in Runners, NEW c, c = Head(running[h].todo), AfterWait(h, c), late' = late,
         NEW w \in Slots, NEW t \in Slots, running[h].todo = <<Wipe(w), Insert(t)>>, w # t, Occupied(t)
  PROVE  Kept
<1>1. Wipe(w) \in Calls /\ Wipe(w).op = "wipe" /\ Wipe(w).slot = w
  BY WipeCall DEF Wipe, Call
<1>2. PICK todo \in Todos : todo = running[h].todo
  BY WorkingIs DEF Fine
<1>3. /\ todo # <<>> /\ Head(todo) = Wipe(w) /\ Tail(todo) = <<Insert(t)>> /\ Slotted(todo) = {w, t}
      /\ \A u : /\ Hidden(todo, u) <=> u = t \/ u = w
                /\ ~Saves(todo, u)
                /\ ~HeadIs(todo, "named", u)
  BY <1>1, <1>2, PairIs
<1>4. ITypeOK /\ mem \in [Slots -> Items]
  BY DEF Fine, ITypeOK
<1>5. /\ Then(h, Tail(running[h].todo)) /\ db' = db /\ lastRow' = lastRow
      /\ mem' = [mem EXCEPT ![w] = NewSlot]
  BY <1>1, <1>2, <1>3 DEF AfterWait
<1>6. CarriesOn(h) /\ Tailed(h)
  BY <1>2, <1>3, <1>4, <1>5, Tails
<1>7. mem'[w] = NewSlot /\ \A u \in Slots \ {w} : mem'[u] = mem[u]
  BY <1>4, <1>5
<1>8. PICK next \in Todos : next = running'[h].todo
  BY <1>6 DEF CarriesOn, Goes
<1>9. next = <<Insert(t)>>
  BY <1>2, <1>3, <1>6, <1>8 DEF Tailed
<1>10. /\ Lonely(next)
       /\ \A u : /\ Hidden(next, u) <=> u = t
                 /\ ~Saves(next, u)
                 /\ ~HeadIs(next, "named", u)
  BY <1>9, LoneIs
<1>11. Ready(next)'
  <2>1. Occupied(t)'
    BY <1>7 DEF Occupied
  <2>2. Splits(next)'
    BY <1>9, <2>1 DEF Splits
  <2> QED
    BY <1>10, <2>2 DEF Ready, Lonely
<1>12. ~Occupied(w)' /\ mem'[w].row = 0
  BY <1>7, EmptyItems DEF Occupied
<1>13. PICK r \in Nat : r = 0
  OBVIOUS
<1>21. PICK q \in Nat : q = 0
  OBVIOUS
<1>14. r = RowBy(todo, mem, w)
  BY <1>3, <1>13 DEF RowBy
<1>22. q = RowBy(next, mem', w)
  BY <1>10, <1>12, <1>21 DEF RowBy
<1>15. q \in {0, r} /\ lastRow' = lastRow
  BY <1>5, <1>21
<1>16. \A x \in 1..MaxRow : db'[x] # db[x] => x = q \/ (x = r /\ db'[x] = Gone)
  BY <1>5
<1>17. r # 0 /\ q = 0 => db'[r] = Gone
  BY <1>13
<1>23. q # 0 => Told(db', mem', w, q, Saves(next, w))
  BY <1>21
<1>18. Occupied(w)' => Hidden(next, w) \/ q # 0
  BY <1>12
<1>19. \A u \in Slotted(todo) \ {w} : /\ ~HeadIs(todo, "named", u) /\ ~HeadIs(next, "named", u)
                                      /\ Hidden(next, u) <=> Hidden(todo, u)
                                      /\ Saves(todo, u) => Saves(next, u)
  BY <1>3, <1>10
<1>20. w \in Slotted(running[h].todo)
  BY <1>2, <1>3
<1> QED
  BY <1>2, <1>6, <1>7, <1>8, <1>11, <1>14, <1>15, <1>16, <1>17, <1>18, <1>19, <1>20, <1>22, <1>23, CallKeeps DEF Fine, Kept

LEMMA AfterWaitB ==
  ASSUME Fine, ITypeOK', NEW h \in Runners, running[h].todo # <<>>, NEW c, c = Head(running[h].todo),
         c.op \in {"wipe", "named"}, AfterWait(h, c), late' = late
  PROVE  Kept
<1>1. Ready(running[h].todo)
  BY DEF Fine, ReadyInv
<1>2. CASE NoSplit(running[h].todo) /\ OneGear(running[h].todo)
  BY <1>2, WaitB
<1>3. CASE Splits(running[h].todo)
  <2>1. PICK w \in Slots, t \in Slots : \E n \in Nat :
      \/ running[h].todo = SplitCalls(w, t, n) /\ Occupied(w) /\ n <= mem[w].qty
      \/ running[h].todo = <<Take(w, n), Insert(t)>> /\ w # t /\ Occupied(t) /\ Occupied(w) /\ n <= mem[w].qty
      \/ running[h].todo = <<Wipe(w), Insert(t)>> /\ w # t /\ Occupied(t)
      \/ running[h].todo = <<Insert(t)>> /\ Occupied(t)
    BY <1>3 DEF Splits
  <2>2. \A n : /\ Head(SplitCalls(w, t, n)).op = "copy" /\ Head(<<Take(w, n), Insert(t)>>).op = "take"
               /\ Head(<<Insert(t)>>).op = "insert"
    BY DEF SplitCalls, Call, Take, Wipe, Insert
  <2>3. running[h].todo = <<Wipe(w), Insert(t)>> /\ w # t /\ Occupied(t)
    BY <2>1, <2>2
  <2> QED
    BY <2>3, WipePart
<1> QED
  BY <1>1, <1>2, <1>3 DEF Ready

\* The part of a stack is copied to a free slot.
LEMMA CopyB ==
  ASSUME Fine, ITypeOK', flaw' = {}, NEW h \in Runners, running[h].todo # <<>>, NEW c, c = Head(running[h].todo),
         c.op = "copy", CopyPart(h, c), late' = late
  PROVE  Kept
<1>1. PICK w \in Slots, t \in Slots : \E n \in Nat : running[h].todo = SplitCalls(w, t, n) /\ Occupied(w) /\ n <= mem[w].qty
  <2>1. Ready(running[h].todo)
    BY DEF Fine, ReadyInv
  <2>2. ~NoSplit(running[h].todo)
    <3>1. running[h].todo \in Todos
      BY WorkingIs DEF Fine
    <3>2. 1 \in 1..Len(running[h].todo) /\ running[h].todo[1] = c
      BY <3>1, TodoIs
    <3> QED
      BY <3>2 DEF NoSplit
  <2>3. \A w, t, n : /\ Head(<<Take(w, n), Insert(t)>>).op = "take" /\ Head(<<Wipe(w), Insert(t)>>).op = "wipe"
                     /\ Head(<<Insert(t)>>).op = "insert"
    BY DEF Call, Take, Wipe, Insert
  <2>4. Splits(running[h].todo)
    BY <2>1, <2>2 DEF Ready
  <2> QED
    BY <2>3, <2>4 DEF Splits
<1>2. PICK n \in Nat : running[h].todo = SplitCalls(w, t, n) /\ Occupied(w) /\ n <= mem[w].qty
  BY <1>1
<1>3. PICK todo \in Todos : todo = running[h].todo
  BY WorkingIs DEF Fine
<1>4. /\ todo # <<>> /\ Head(todo) = Call("copy", w, t, n)
      /\ Tail(todo) = <<Take(w, n), Insert(t)>> /\ Slotted(todo) = {w, t}
      /\ \A u : /\ ~Hidden(todo, u)
                /\ ~Saves(todo, u)
                /\ ~HeadIs(todo, "named", u)
  <2>1. PICK s : s = SplitCalls(w, t, n)
    OBVIOUS
  <2>2. todo = s
    BY <1>2, <1>3, <2>1
  <2>3. /\ s # <<>> /\ Head(s) = Call("copy", w, t, n)
        /\ Tail(s) = <<Take(w, n), Insert(t)>> /\ Slotted(s) = {w, t}
        /\ \A u : /\ ~Hidden(s, u)
                  /\ ~Saves(s, u)
                  /\ ~HeadIs(s, "named", u)
    BY <2>1, TripleIs
  <2> QED
    BY <2>2, <2>3
<1>5. c.slot = w /\ c.with = t /\ c.n = n
  BY <1>3, <1>4 DEF Call
<1>6. ITypeOK /\ mem \in [Slots -> Items] /\ MaxRow \in Nat
  BY BoundAssumption DEF Fine, ITypeOK
<1>7. /\ mem' = [mem EXCEPT ![t] = [mem[w] EXCEPT !.qty = n]] /\ w # t /\ ~Occupied(t)
      /\ Then(h, Tail(running[h].todo)) /\ db' = db /\ lastRow' = lastRow
  BY <1>5, ZenonT(60) DEF CopyPart
<1>8. CarriesOn(h) /\ Tailed(h)
  BY <1>3, <1>4, <1>6, <1>7, Tails
<1>9. mem'[t] = [mem[w] EXCEPT !.qty = n] /\ \A u \in Slots \ {t} : mem'[u] = mem[u]
  BY <1>6, <1>7
<1>10. mem[w] \in Items /\ mem'[t].kind = mem[w].kind /\ mem'[w] = mem[w]
  <2>1. mem[w] \in Items
    BY <1>6
  <2> QED
    BY <1>7, <1>9, <2>1 DEF Items
<1>11. PICK next \in Todos : next = running'[h].todo
  BY <1>8 DEF CarriesOn, Goes
<1>12. next = <<Take(w, n), Insert(t)>>
  BY <1>3, <1>4, <1>8, <1>11 DEF Tailed
<1>13. Take(w, n) \in Calls /\ Take(w, n).op = "take" /\ Take(w, n).slot = w
  BY SlotAssumption DEF Take, Call, Calls, Plain, FirstOnly, AnySlot, TwoSlots, Slots
<1>14. /\ Lonely(next)
       /\ \A u : /\ Hidden(next, u) <=> u = t
                 /\ ~Saves(next, u)
                 /\ ~HeadIs(next, "named", u)
  BY <1>7, <1>12, <1>13, PairIs
<1>15. Ready(next)'
  <2>1. Occupied(t)' /\ Occupied(w)' /\ n <= mem'[w].qty
    BY <1>2, <1>10 DEF Occupied
  <2>2. Splits(next)'
    BY <1>7, <1>12, <2>1 DEF Splits
  <2> QED
    BY <1>14, <2>2 DEF Ready, Lonely
<1>16. PICK r \in Nat : r = mem[t].row
  <2>1. mem[t] \in Items
    BY <1>6
  <2>2. mem[t].row \in 0..MaxRow
    BY <2>1, ItemIs
  <2> QED
    BY <1>6, <2>2
<1>17. r = RowBy(todo, mem, t) /\ t \in Slotted(running[h].todo)
  BY <1>3, <1>4, <1>16 DEF RowBy
<1>18. r = 0
  <2>1. r = RowBy(running[h].todo, mem, t)
    BY <1>3, <1>17
  <2>2. ITypeOK /\ Apart /\ RowsInv /\ LateInv
    BY DEF Fine
  <2>3. r # 0 => Occupied(t)
    BY <1>17, <2>1, <2>2, Known
  <2> QED
    BY <1>7, <2>3
<1>25. PICK q \in Nat : q = 0
  OBVIOUS
<1>19. q = RowBy(next, mem', t)
  BY <1>14, <1>25 DEF RowBy
<1>20. q \in {0, r} /\ lastRow' = lastRow
  BY <1>7, <1>25
<1>21. \A x \in 1..MaxRow : db'[x] # db[x] => x = q \/ (x = r /\ db'[x] = Gone)
  BY <1>7
<1>22. r # 0 /\ q = 0 => db'[r] = Gone
  BY <1>18
<1>26. q # 0 => Told(db', mem', t, q, Saves(next, t))
  BY <1>25
<1>27. t \in Slotted(running[h].todo)
  BY <1>17
<1>28. r = RowBy(todo, mem, t)
  BY <1>17
<1>23. Occupied(t)' => Hidden(next, t) \/ q # 0
  BY <1>14
<1>24. \A u \in Slotted(todo) \ {t} : /\ ~HeadIs(todo, "named", u) /\ ~HeadIs(next, "named", u)
                                      /\ Hidden(next, u) <=> Hidden(todo, u)
                                      /\ Saves(todo, u) => Saves(next, u)
  BY <1>4, <1>14
<1> QED
  BY <1>3, <1>8, <1>9, <1>11, <1>15, <1>19, <1>20, <1>21, <1>22, <1>23, <1>24, <1>26, <1>27, <1>28, CallKeeps DEF Fine, Kept

LEMMA Rowless ==
  ASSUME NEW i \in Items, MaxRow \in Nat
  PROVE  [i EXCEPT !.row = 0] \in Items
BY DEF Items

\* The copy gets a row of its own.
LEMMA InsertB ==
  ASSUME Fine, ITypeOK', NEW h \in Runners, running[h].todo # <<>>, NEW c, c = Head(running[h].todo),
         c.op = "insert", InsertPart(h, c), late' = late
  PROVE  Kept
<1>1. PICK t \in Slots : running[h].todo = <<Insert(t)>> /\ Occupied(t)
  <2>1. Ready(running[h].todo)
    BY DEF Fine, ReadyInv
  <2>2. ~NoSplit(running[h].todo)
    <3>1. running[h].todo \in Todos
      BY WorkingIs DEF Fine
    <3>2. 1 \in 1..Len(running[h].todo) /\ running[h].todo[1] = c
      BY <3>1, TodoIs
    <3> QED
      BY <3>2 DEF NoSplit
  <2>3. \A w, t, n : /\ Head(<<Take(w, n), Insert(t)>>).op = "take" /\ Head(<<Wipe(w), Insert(t)>>).op = "wipe"
                     /\ Head(SplitCalls(w, t, n)).op = "copy"
    BY DEF Call, Take, Wipe, Insert, SplitCalls
  <2>4. Splits(running[h].todo)
    BY <2>1, <2>2 DEF Ready
  <2> QED
    BY <2>3, <2>4 DEF Splits
<1>2. PICK todo \in Todos : todo = running[h].todo
  BY WorkingIs DEF Fine
<1>3. /\ Insert(t).slot = t /\ SlotsOf(Insert(t)) = {t}
      /\ todo # <<>> /\ Head(todo) = Insert(t) /\ Tail(todo) = <<>> /\ Slotted(todo) = {t}
      /\ \A u : /\ Hidden(todo, u) <=> u = t
                /\ ~Saves(todo, u)
  BY <1>1, <1>2, LoneIs
<1>4. c = Insert(t) /\ c.slot = t /\ t \in SlotsOf(Head(running[h].todo)) /\ t \in Slotted(running[h].todo)
  BY <1>2, <1>3
<1>5. ITypeOK /\ mem \in [Slots -> Items] /\ lastRow \in 0..MaxRow /\ MaxRow \in Nat /\ mem[t] \in Items
  BY BoundAssumption DEF Fine, ITypeOK
<1>6. Store(h, t, [mem[t] EXCEPT !.row = 0]) /\ mem' = mem
  BY <1>4 DEF InsertPart
<1>7. PICK i \in Items : i = [mem[t] EXCEPT !.row = 0] /\ i.row = 0 /\ i.kind = mem[t].kind
  <2>1. PICK j \in Items : j = mem[t]
    BY <1>5
  <2>2. [j EXCEPT !.row = 0] \in Items
    BY <1>5, Rowless
  <2>3. 0 \in 0..MaxRow
    BY <1>5
  <2> QED
    BY <2>1, <2>2, <2>3, RowSet, ZenonT(60)
<1>8. CarriesOn(h) /\ (Filed(h, t, i) \/ Rewritten(h, t, i))
  BY <1>4, <1>5, <1>6, <1>7, StoreIs
<1>9. Filed(h, t, i)
  BY <1>7, <1>8 DEF Rewritten
<1>10. PICK q \in Nat : q = lastRow + 1
  BY <1>5
<1>11. q \in 1..MaxRow /\ lastRow' = lastRow + 1
  BY <1>5, <1>9, <1>10 DEF Filed
<1>12. PICK d \in Calls : d = Named(t, q) /\ d.op = "named" /\ d.slot = t /\ d.n = q
  <2>1. q <= MaxRow /\ t # AnySlot
    BY <1>11, SlotAssumption DEF AnySlot, Slots
  <2>2. Named(t, q) \in Calls
    BY <1>10, <2>1 DEF Named, Call, Calls, FirstOnly, TwoSlots
  <2> QED
    BY <2>2 DEF Named, Call
<1>13. PICK next \in Todos : next = running'[h].todo
  BY <1>8 DEF CarriesOn, Goes
<1>14. next = <<d>> \o Tail(todo)
  BY <1>2, <1>9, <1>10, <1>12, <1>13 DEF Filed
<1>15. next # <<>> /\ Head(next) = d /\ Len(next) = 1 /\ next[1] = d
  <2>1. todo # <<>> /\ Len(todo) = 1
    BY <1>1, <1>2, LoneIs
  <2> QED
    BY <1>14, <2>1, PutFirst
<1>16. NoSplit(next) /\ OneGear(next) /\ Lonely(next)
  BY <1>12, <1>15 DEF NoSplit, OneGear, Lonely
<1>17. Ready(next)'
  BY <1>16 DEF Ready, NoSplit, OneGear, Lonely
<1>18. q = RowBy(next, mem', t)
  BY <1>12, <1>15, <1>16 DEF Hidden, HeadIs, NoSplit, Inserts, RowBy
<1>19. PICK r \in Nat : r = 0
  OBVIOUS
<1>20. r = RowBy(todo, mem, t)
  BY <1>3, <1>19 DEF RowBy
<1>21. \/ q \in {0, r} /\ lastRow' = lastRow
       \/ r = 0 /\ q \in {0, lastRow + 1} /\ lastRow' = lastRow + 1
  BY <1>10, <1>11, <1>19
<1>22. db'[q] = [slot |-> t, item |-> [i EXCEPT !.row = q]] /\ \A x \in 1..MaxRow : db'[x] # db[x] => x = q
  BY <1>1, <1>7, <1>9, <1>10, <1>11 DEF Filed, Occupied
<1>23. Told(db', mem', t, q, Saves(next, t))
  <2>1. [i EXCEPT !.row = q] = [mem'[t] EXCEPT !.row = q]
    BY <1>5, <1>6, <1>7, RowSet, ZenonT(60)
  <2>2. db'[q].slot = t /\ db'[q].item = [mem'[t] EXCEPT !.row = q]
    BY <1>22, <2>1
  <2>3. db'[q] # Gone
    BY <2>2, EmptyItems, SlotAssumption DEF Slots
  <2>4. mem'[t].kind # NoKind
    BY <1>1, <1>6 DEF Occupied
  <2> QED
    BY <2>2, <2>3, <2>4 DEF Told
<1>24. \A x \in 1..MaxRow : db'[x] # db[x] => x = q \/ (x = r /\ db'[x] = Gone)
  BY <1>22
<1>25. r # 0 /\ q = 0 => db'[r] = Gone
  BY <1>19
<1>28. Occupied(t)' => Hidden(next, t) \/ q # 0
  BY <1>11
<1>29. q # 0 => Told(db', mem', t, q, Saves(next, t))
  BY <1>23
<1>30. t \in Slotted(running[h].todo)
  BY <1>4
<1>26. \A u \in Slotted(todo) \ {t} : /\ ~HeadIs(todo, "named", u) /\ ~HeadIs(next, "named", u)
                                      /\ Hidden(next, u) <=> Hidden(todo, u)
                                      /\ Saves(todo, u) => Saves(next, u)
  BY <1>3
<1>27. \A u \in Slots \ {t} : mem'[u] = mem[u]
  BY <1>6
<1> QED
  BY <1>2, <1>8, <1>13, <1>17, <1>18, <1>20, <1>21, <1>24, <1>25, <1>26, <1>27, <1>28, <1>29, <1>30, CallKeeps DEF Fine, Kept
\* Where else h works, nothing is known anew.
LEMMA OthersB ==
  ASSUME ITypeOK, Apart, NEW h \in Runners, CarriesOn(h), running[h].todo # <<>>, NoSplit(running[h].todo),
         NEW s \in Slots, Follows(running[h].todo, running'[h].todo, s),
         Head(running[h].todo).op \notin {"wipe", "named", "save"},
         NEW t \in Slots, t # s, mem'[t] = mem[t] \/ (t \in Slotted(running[h].todo) /\ mem'[t].row = mem[t].row)
  PROVE  Row(t)' = Row(t) /\ (Hid(t)' <=> Hid(t)) /\ (SavedIn(running, t) => SavedIn(running, t)')
<1>1. PICK todo \in Todos : todo = running[h].todo
  BY WorkingIs
<1>2. PICK next \in Todos : next = running'[h].todo /\ Slotted(next) \subseteq Slotted(todo)
  BY <1>1 DEF CarriesOn, Goes
<1>3. CASE t \in Slotted(todo)
  <2>1. /\ Hid(t) <=> Hidden(todo, t)
        /\ SavedIn(running, t) <=> Saves(todo, t)
        /\ Row(t) = RowBy(todo, mem, t)
        /\ Hid(t)' <=> Hidden(next, t)
        /\ SavedIn(running, t)' <=> Saves(next, t)
        /\ Row(t)' = RowBy(next, mem', t)
    BY <1>1, <1>2, <1>3, OwnSlots
  <2>2. /\ ~HeadIs(todo, "named", t) /\ ~HeadIs(next, "named", t)
        /\ Hidden(next, t) <=> Hidden(todo, t)
        /\ Saves(todo, t) => Saves(next, t)
    <3>1. todo # <<>> /\ NoSplit(todo) /\ Follows(todo, next, s) /\ (Head(todo).op \in {"wipe", "named", "save"} => Head(todo).slot = s)
      BY <1>1, <1>2
    <3> QED
      BY <3>1, Continues
  <2> QED
    BY <2>1, <2>2 DEF RowBy
<1>4. CASE t \notin Slotted(todo)
  <2>1. running \in Works /\ running' \in Works /\ \A g \in Runners \ {h} : running'[g] = running[g]
    BY WorksIs DEF CarriesOn, Works, OthersSame
  <2>2. t \notin Slotted(running[h].todo) /\ t \notin Slotted(running'[h].todo) /\ mem'[t] = mem[t]
    BY <1>1, <1>2, <1>4
  <2> QED
    BY <2>1, <2>2, OtherSlot DEF Hid, Row
<1> QED
  BY <1>3, <1>4

\* The rows after two slots have changed places.
LEMMA MovedRows ==
  ASSUME ITypeOK, NEW w \in Slots, NEW t \in Slots, w # t, mem' \in [Slots -> Items], mem'[t] = mem[w],
         mem[w].row = mem[t].row => mem[w].row = 0,
         \/ mem'[w] = NewSlot /\ db' = Update(db, t, mem[w])
         \/ mem'[w] = mem[t] /\ db' = Update(Update(db, w, mem[t]), t, mem[w])
  PROVE  \A x \in 1..MaxRow :
           /\ db'[x] = Gone <=> db[x] = Gone
           /\ x = mem'[t].row /\ db[x] # Gone => db'[x] = [slot |-> t, item |-> mem'[t]]
           /\ x = mem'[w].row /\ db[x] # Gone => db'[x] = [slot |-> w, item |-> mem'[w]]
           /\ x \notin {mem'[w].row, mem'[t].row} => db'[x] = db[x]
<1>1. db \in [1..MaxRow -> Records] /\ mem[w] \in Items /\ mem[t] \in Items
  BY DEF ITypeOK
<1>2. /\ \A x \in 1..MaxRow : Update(db, t, mem[w])[x] =
                                IF x = mem[w].row /\ db[x] # Gone THEN [slot |-> t, item |-> mem[w]] ELSE db[x]
      /\ \A x \in 1..MaxRow : Update(db, w, mem[t])[x] =
                                IF x = mem[t].row /\ db[x] # Gone THEN [slot |-> w, item |-> mem[t]] ELSE db[x]
      /\ Update(db, w, mem[t]) \in [1..MaxRow -> Records]
  <2>1. \A i \in Items : \A s \in Slots :
          /\ Update(db, s, i) \in [1..MaxRow -> Records]
          /\ \A x \in 1..MaxRow : Update(db, s, i)[x] = IF x = i.row /\ db[x] # Gone THEN [slot |-> s, item |-> i] ELSE db[x]
    <3> SUFFICES ASSUME NEW i \in Items, NEW s \in Slots
                 PROVE  /\ Update(db, s, i) \in [1..MaxRow -> Records]
                        /\ \A x \in 1..MaxRow : Update(db, s, i)[x] = IF x = i.row /\ db[x] # Gone THEN [slot |-> s, item |-> i] ELSE db[x]
      OBVIOUS
    <3>1. \A x \in 1..MaxRow : x # 0
      OBVIOUS
    <3>2. CASE i.row = 0
      BY <1>1, <3>1, <3>2, UpdateIs
    <3>3. CASE i.row # 0
      BY <1>1, <3>3, UpdateIs
    <3> QED
      BY <3>2, <3>3
  <2> QED
    BY <1>1, <2>1
<1>3. \A s \in Slots : \A i : [slot |-> s, item |-> i] # Gone
  <2> SUFFICES ASSUME NEW s \in Slots, NEW i PROVE [slot |-> s, item |-> i] # Gone
    OBVIOUS
  <2>1. [slot |-> s, item |-> i].slot # Gone.slot
    BY EmptyItems, SlotAssumption DEF Slots
  <2> QED
    BY <2>1
<1>4. \A x \in 1..MaxRow : x # 0
  OBVIOUS
<1>5. CASE mem'[w] = NewSlot /\ db' = Update(db, t, mem[w])
  BY <1>2, <1>3, <1>4, <1>5, EmptyItems
<1>6. CASE mem'[w] = mem[t] /\ db' = Update(Update(db, w, mem[t]), t, mem[w])
  <2>1. PICK mid \in [1..MaxRow -> Records] : mid = Update(db, w, mem[t])
    BY <1>2
  <2>2. \A x \in 1..MaxRow : db'[x] = IF x = mem[w].row /\ mid[x] # Gone THEN [slot |-> t, item |-> mem[w]] ELSE mid[x]
    <3>1. db' = Update(mid, t, mem[w])
      BY <1>6, <2>1
    <3>2. CASE mem[w].row = 0
      BY <1>1, <1>4, <3>1, <3>2, UpdateIs
    <3>3. CASE mem[w].row # 0
      BY <1>1, <3>1, <3>3, UpdateIs
    <3> QED
      BY <3>2, <3>3
  <2>3. \A x \in 1..MaxRow : mid[x] = IF x = mem[t].row /\ db[x] # Gone THEN [slot |-> w, item |-> mem[t]] ELSE db[x]
    BY <1>2, <2>1
  <2> QED
    BY <1>3, <1>4, <1>6, <2>2, <2>3
<1> QED
  BY <1>5, <1>6

\* A slot's own row is written once more, or not.
LEMMA StaysB ==
  ASSUME Fine, ITypeOK', NEW h \in Runners, running[h].todo # <<>>, NEW s \in Slots, s \in Slotted(running[h].todo),
         NoSplit(running[h].todo), OneGear(running[h].todo), Head(running[h].todo).op \in {"move", "swap"},
         CarriesOn(h), Tailed(h), late' = late, mem' = mem, lastRow' = lastRow,
         db' = db \/ db' = Update(Update(db, s, mem[s]), s, mem[s])
  PROVE  Kept
<1>1. /\ running[h].todo \in Todos /\ mem[s] \in Items /\ mem[s].row \in 0..MaxRow /\ MaxRow \in Nat
      /\ db \in [1..MaxRow -> Records]
  BY WorkingIs, ItemIs, BoundAssumption DEF Fine, ITypeOK
<1>2. Follows(running[h].todo, running'[h].todo, s)
  BY DEF Tailed, Follows
<1>3. RowBy(running[h].todo, mem, s) = mem[s].row /\ ~Hidden(running[h].todo, s)
  BY RowOfPlain
<1>4. RowBy(running'[h].todo, mem', s) = mem[s].row
  BY <1>1, RowOfTail DEF Tailed
<1>5. PICK r \in Nat : r = mem[s].row
  BY <1>1
<1>6. r = RowBy(running[h].todo, mem, s) /\ r = RowBy(running'[h].todo, mem', s)
  BY <1>3, <1>4, <1>5
<1>7. /\ Occupied(s) => r # 0
      /\ r # 0 => Told(db, mem, s, r, Saves(running[h].todo, s))
  <2>1. ITypeOK /\ Apart /\ RowsInv /\ LateInv
    BY DEF Fine
  <2> QED
    BY <1>3, <1>6, <2>1, Known
<1>8. Saves(running[h].todo, s) => Saves(running'[h].todo, s)
  BY <1>1, <1>2, SavesOn
<1>9. /\ \A x \in 1..MaxRow : db'[x] # db[x] => x = r
      /\ r # 0 => Told(db', mem', s, r, Saves(running'[h].todo, s))
  <2>1. CASE db' = db
    BY <1>7, <1>8, <2>1 DEF Told
  <2>2. CASE db' = Update(Update(db, s, mem[s]), s, mem[s])
    <3>1. CASE mem[s].row = 0
      <4>1. PICK mid \in [1..MaxRow -> Records] : mid = Update(db, s, mem[s])
        BY <1>1, UpdateIs
      <4>2. mid = db
        <5>1. \A x \in 1..MaxRow : mid[x] = db[x]
          BY <1>1, <3>1, <4>1, UpdateIs
        <5> QED
          BY <1>1, <5>1
      <4>3. db' = db
        <5>1. db' = Update(mid, s, mem[s])
          BY <2>2, <4>1
        <5> QED
          BY <4>1, <4>2, <5>1
      <4> QED
        BY <1>5, <3>1, <4>3
    <3>2. CASE mem[s].row # 0
      <4>1. PICK mid \in [1..MaxRow -> Records] : mid = Update(db, s, mem[s])
        BY <1>1, UpdateIs
      <4>2. \A x \in 1..MaxRow : mid[x] = IF x = r /\ db[x] # Gone THEN [slot |-> s, item |-> mem[s]] ELSE db[x]
        BY <1>1, <1>5, <3>2, <4>1, UpdateIs
      <4>3. \A x \in 1..MaxRow : db'[x] = IF x = r /\ mid[x] # Gone THEN [slot |-> s, item |-> mem[s]] ELSE mid[x]
        BY <1>1, <1>5, <2>2, <3>2, <4>1, UpdateIs
      <4>4. db[r] # Gone /\ mem[s].kind # NoKind /\ r \in 1..MaxRow
        BY <1>1, <1>5, <1>7, <3>2 DEF Told
      <4>5. [slot |-> s, item |-> mem[s]] # Gone
        <5>1. [slot |-> s, item |-> mem[s]].slot # Gone.slot
          BY EmptyItems, SlotAssumption DEF Slots
        <5> QED
          BY <5>1
      <4>6. db'[r] = [slot |-> s, item |-> mem[s]]
        BY <4>2, <4>3, <4>4, <4>5
      <4>7. [mem[s] EXCEPT !.row = r] = mem[s]
        BY <1>1, <1>5, SameRow
      <4>8. Told(db', mem', s, r, Saves(running'[h].todo, s))
        BY <4>4, <4>5, <4>6, <4>7 DEF Told
      <4> QED
        BY <4>2, <4>3, <4>8
    <3> QED
      BY <3>1, <3>2
  <2> QED
    BY <2>1, <2>2
<1>10. Occupied(s)' => Hidden(running'[h].todo, s) \/ r # 0
  BY <1>7 DEF Occupied
<1>11. r \in {0, r} /\ lastRow' = lastRow
  OBVIOUS
<1>12. \A x \in 1..MaxRow : db'[x] # db[x] => x = r \/ (x = r /\ db'[x] = Gone)
  BY <1>9
<1>13. \A t \in Slots \ {s} : mem'[t] = mem[t]
  OBVIOUS
<1> QED
  BY <1>2, <1>6, <1>9, <1>10, <1>11, <1>12, <1>13, Goes1
LEMMA AsideB ==
  ASSUME ITypeOK, Apart, NEW h \in Runners, CarriesOn(h), running[h].todo # <<>>, NoSplit(running[h].todo),
         Head(running[h].todo).op \in {"move", "swap"}, NEW w \in Slots, NEW t \in Slots,
         Follows(running[h].todo, running'[h].todo, w), \A u \in Slots \ {w, t} : mem'[u] = mem[u]
  PROVE  \A u \in Slots \ {w, t} : Row(u)' = Row(u) /\ (Hid(u)' <=> Hid(u)) /\ (SavedIn(running, u) => SavedIn(running, u)')
<1> SUFFICES ASSUME NEW u \in Slots, u # w, u # t
             PROVE  Row(u)' = Row(u) /\ (Hid(u)' <=> Hid(u)) /\ (SavedIn(running, u) => SavedIn(running, u)')
  OBVIOUS
<1>1. mem'[u] = mem[u]
  OBVIOUS
<1>2. Head(running[h].todo).op \notin {"wipe", "named", "save"}
  OBVIOUS
<1> QED
  BY <1>1, <1>2, OthersB

\* Two slots change places, or an item goes to a free one.
LEMMA ExchangeB ==
  ASSUME Fine, ITypeOK', NEW h \in Runners, running[h].todo # <<>>,
         NoSplit(running[h].todo), OneGear(running[h].todo), Head(running[h].todo).op \in {"move", "swap"},
         CarriesOn(h), Tailed(h), late' = late, lastRow' = lastRow,
         NEW w \in Slots, w \in Slotted(running[h].todo), NEW t \in Slots, t \in Slotted(running[h].todo), Exchanged(w, t),
         \/ mem'[w] = NewSlot /\ ~Occupied(t) /\ db' = Update(db, t, mem[w])
         \/ mem'[w] = mem[t] /\ db' = Update(Update(db, w, mem[t]), t, mem[w])
  PROVE  Kept
<1>1. /\ ITypeOK /\ Apart /\ RowsInv /\ LateInv /\ ReadyInv
      /\ running[h].todo \in Todos /\ mem \in [Slots -> Items] /\ mem' \in [Slots -> Items]
  BY WorkingIs DEF Fine, ITypeOK
<1>2. w # t /\ mem'[t] = mem[w] /\ \A u \in Slots \ {w, t} : mem'[u] = mem[u]
  BY DEF Exchanged
<1>3. Follows(running[h].todo, running'[h].todo, w)
  BY DEF Tailed, Follows
<1>4. \A m, u : RowBy(running[h].todo, m, u) = m[u].row /\ ~Hidden(running[h].todo, u)
  BY RowOfPlain
<1>5. \A m, u : RowBy(running'[h].todo, m, u) = m[u].row /\ ~Hidden(running'[h].todo, u)
  BY <1>1, RowOfTail DEF Tailed
<1>6. \A u \in {w, t} : Row(u) = mem[u].row /\ Row(u)' = mem'[u].row /\ ~Hid(u) /\ ~Hid(u)'
  <2> SUFFICES ASSUME NEW u \in {w, t} PROVE Row(u) = mem[u].row /\ Row(u)' = mem'[u].row /\ ~Hid(u) /\ ~Hid(u)'
    OBVIOUS
  <2>1. u \in Slots /\ u \in Slotted(running[h].todo)
    OBVIOUS
  <2>2. /\ Hid(u) <=> Hidden(running[h].todo, u)
        /\ Row(u) = RowBy(running[h].todo, mem, u)
        /\ Hid(u)' <=> Hidden(running'[h].todo, u)
        /\ Row(u)' = RowBy(running'[h].todo, mem', u)
    BY <1>1, <2>1, OwnSlots
  <2> QED
    BY <1>4, <1>5, <2>2
<1>7. \A u \in Slots \ {w, t} : Row(u)' = Row(u) /\ (Hid(u)' <=> Hid(u)) /\ (SavedIn(running, u) => SavedIn(running, u)')
  BY <1>1, <1>2, <1>3, AsideB
<1>8. \A u \in {w, t} : (Row(u) # 0 => Row(u) \in 1..lastRow /\ db[Row(u)] # Gone /\ Occupied(u)) /\ (Occupied(u) => Row(u) # 0)
  BY <1>1, <1>6 DEF RowsInv, RowTells
<1>9. Row(w)' = Row(t) /\ Row(t)' = Row(w) /\ (Occupied(w)' <=> Occupied(t)) /\ (Occupied(t)' <=> Occupied(w))
  <2>1. CASE mem'[w] = mem[t]
    BY <1>2, <1>6, <2>1 DEF Occupied
  <2>2. CASE mem'[w] = NewSlot /\ ~Occupied(t)
    <3>1. Row(t) = 0
      BY <1>8, <2>2
    <3> QED
      BY <1>2, <1>6, <2>2, <3>1, EmptyItems DEF Occupied
  <2> QED
    BY <2>1, <2>2
<1>10. \A x \in 1..MaxRow :
           /\ db'[x] = Gone <=> db[x] = Gone
           /\ x = mem'[t].row /\ db[x] # Gone => db'[x] = [slot |-> t, item |-> mem'[t]]
           /\ x = mem'[w].row /\ db[x] # Gone => db'[x] = [slot |-> w, item |-> mem'[w]]
           /\ x \notin {mem'[w].row, mem'[t].row} => db'[x] = db[x]
  <2>1. mem[w].row = mem[t].row => mem[w].row = 0
    BY <1>1, <1>2, <1>6 DEF RowsInv
  <2> QED
    BY <1>1, <1>2, <2>1, MovedRows
<1>11. \A r \in 1..lastRow : r \in 1..MaxRow
  BY BoundAssumption DEF Fine, ITypeOK
<1>12. \A u \in {w, t} : RowTells(u)'
  <2> SUFFICES ASSUME NEW u \in {w, t}, Row(u)' # 0 PROVE RowTells(u)'
    BY DEF RowTells
  <2>1. PICK r : r = Row(u)'
    OBVIOUS
  <2>2. r \in 1..lastRow /\ db[r] # Gone /\ Occupied(u)' /\ r = mem'[u].row
    BY <1>6, <1>8, <1>9, <2>1
  <2>3. db'[r] = [slot |-> u, item |-> mem'[u]] /\ db'[r] # Gone
    BY <1>10, <1>11, <2>2
  <2>4. [mem'[u] EXCEPT !.row = r] = mem'[u]
    BY <1>1, <2>2, SameRow
  <2> QED
    BY <2>1, <2>2, <2>3, <2>4 DEF RowTells
<1>13. \A u \in Slots \ {w, t} : RowTells(u)' /\ (Occupied(u)' => Hid(u)' \/ Row(u)' # 0)
  <2> SUFFICES ASSUME NEW u \in Slots \ {w, t} PROVE RowTells(u)' /\ (Occupied(u)' => Hid(u)' \/ Row(u)' # 0)
    OBVIOUS
  <2>1. RowTells(u) /\ (Occupied(u) => Hid(u) \/ Row(u) # 0)
    BY <1>1 DEF RowsInv
  <2>2. (Moved(u)' <=> Moved(u)) /\ (Dirty(u) => Dirty(u)') /\ (Occupied(u)' <=> Occupied(u)) /\ mem'[u] = mem[u]
    BY <1>2, <1>7 DEF Moved, Dirty, Occupied
  <2>3. Row(u) # 0 => db'[Row(u)] = db[Row(u)]
    <3> SUFFICES ASSUME Row(u) # 0 PROVE db'[Row(u)] = db[Row(u)]
      OBVIOUS
    <3>1. Row(u) \in 1..MaxRow
      BY <1>11, <2>1 DEF RowTells
    <3>2. Row(u) # Row(w) /\ Row(u) # Row(t)
      BY <1>1 DEF RowsInv
    <3>3. Row(u) \notin {mem'[w].row, mem'[t].row}
      BY <1>6, <1>9, <3>2
    <3> QED
      BY <1>10, <3>1, <3>3
  <2> QED
    BY <1>7, <2>1, <2>2, <2>3 DEF RowTells
<1> DEFINE f == [u \in Slots |-> IF u = w THEN t ELSE IF u = t THEN w ELSE u]
<1>14. f \in [Slots -> Slots] /\ (\A u, v \in Slots : f[u] = f[v] => u = v) /\ \A u \in Slots : \E v \in Slots : f[v] = u
  <2>1. \A u \in Slots : f[u] \in Slots /\ f[f[u]] = u
    BY <1>2
  <2>2. f \in [Slots -> Slots]
    OBVIOUS
  <2> HIDE DEF f
  <2> QED
    BY <2>1, <2>2
<1>15. \A u \in Slots : Row(u)' = Row(f[u]) /\ RowTells(u)' /\ (Occupied(u)' => Hid(u)' \/ Row(u)' # 0)
  <2> SUFFICES ASSUME NEW u \in Slots PROVE Row(u)' = Row(f[u]) /\ RowTells(u)' /\ (Occupied(u)' => Hid(u)' \/ Row(u)' # 0)
    OBVIOUS
  <2>1. CASE u = w
    <3>1. f[u] = t
      BY <2>1
    <3>2. Row(u)' = Row(t) /\ (Occupied(u)' <=> Occupied(t))
      BY <1>9, <2>1
    <3> QED
      BY <1>8, <1>12, <2>1, <3>1, <3>2
  <2>2. CASE u = t
    <3>1. f[u] = w
      BY <1>2, <2>2
    <3>2. Row(u)' = Row(w) /\ (Occupied(u)' <=> Occupied(w))
      BY <1>9, <2>2
    <3> QED
      BY <1>8, <1>12, <2>2, <3>1, <3>2
  <2>3. CASE u \notin {w, t}
    <3>1. f[u] = u
      BY <2>3
    <3> QED
      BY <1>7, <1>13, <2>3, <3>1
  <2> QED
    BY <2>1, <2>2, <2>3
<1>16. \A r \in 1..MaxRow : db'[r] # Gone => db[r] # Gone
  BY <1>10
<1>17. RowsInv'
  <2> HIDE DEF f
  <2> QED
    BY <1>1, <1>14, <1>15, <1>16, Rehomed
<1>18. \A u \in Slots \ Slotted(running[h].todo) : mem'[u] = mem[u]
  BY <1>2
<1>19. LateInv'
  BY <1>1, <1>18, LateKept
<1>20. Ready(running[h].todo)'
  <2>1. NoSplit(running'[h].todo) /\ OneGear(running'[h].todo) /\ Lonely(running'[h].todo)
    BY <1>1, <1>3, Continues, LonelyOn
  <2> QED
    BY <2>1 DEF Ready, NoSplit, OneGear, Lonely
<1>21. ReadyInv'
  BY <1>1, <1>18, <1>20, ReadyOthers
<1> QED
  BY <1>17, <1>19, <1>21 DEF Kept

LEMMA MoveB ==
  ASSUME Fine, ITypeOK', NEW h \in Runners, running[h].todo # <<>>, NEW c, c = Head(running[h].todo),
         c.op \in {"move", "swap"}, MoveItems(h, c), late' = late
  PROVE  Kept
<1>1. ITypeOK
  BY DEF Fine
<1>2. /\ CarriesOn(h) /\ lastRow' = lastRow
      /\ \/ c.op = "move" /\ MayMove(c.slot, c.with) /\ Exchanged(c.slot, c.with) /\ mem'[c.slot] = NewSlot /\ db' = Update(db, c.with, mem[c.slot])
         \/ c.op = "swap" /\ MaySwap(c.slot, c.with) /\ Exchanged(c.slot, c.with) /\ mem'[c.slot] = mem[c.with]
            /\ db' = Update(Update(db, c.slot, mem[c.with]), c.with, mem[c.slot])
         \/ mem' = mem /\ c.slot = c.with /\ db' = Update(Update(db, c.slot, mem[c.with]), c.with, mem[c.slot])
         \/ mem' = mem /\ db' = db
  BY <1>1, MovesIs
<1>3. /\ c.slot \in Slots /\ c.slot \in Slotted(running[h].todo)
      /\ c.with \in Slots /\ c.with \in Slotted(running[h].todo)
  BY <1>1, SingleSlot DEF TwoSlots
<1>4. NoSplit(running[h].todo) /\ OneGear(running[h].todo)
  BY NotSplit DEF Fine, ReadyInv
<1>5. Tailed(h)
  <2>1. Then(h, Tail(running[h].todo))
    BY SMTT(60) DEF MoveItems
  <2> QED
    BY <1>1, <2>1, Tails
<1>6. CASE c.op = "move" /\ MayMove(c.slot, c.with) /\ Exchanged(c.slot, c.with) /\ mem'[c.slot] = NewSlot /\ db' = Update(db, c.with, mem[c.slot])
  <2>1. ~Occupied(c.with)
    BY <1>6, SMTT(60) DEF MayMove
  <2> QED
    BY <1>2, <1>3, <1>4, <1>5, <1>6, <2>1, ExchangeB, ZenonT(60)
<1>7. CASE Exchanged(c.slot, c.with) /\ mem'[c.slot] = mem[c.with] /\ db' = Update(Update(db, c.slot, mem[c.with]), c.with, mem[c.slot])
  BY <1>2, <1>3, <1>4, <1>5, <1>7, ExchangeB, ZenonT(60)
<1>8. CASE mem' = mem /\ (db' = db \/ (c.slot = c.with /\ db' = Update(Update(db, c.slot, mem[c.with]), c.with, mem[c.slot])))
  BY <1>2, <1>3, <1>4, <1>5, <1>8, StaysB
<1> QED
  BY <1>2, <1>6, <1>7, <1>8

\* A stack grows, its row is still to be written, and the other row is deleted.
LEMMA JoinB ==
  ASSUME Fine, ITypeOK', flaw' = {}, NEW h \in Runners, running[h].todo # <<>>, NEW c, c = Head(running[h].todo), c.op = "join",
         JoinStacks(h, c), late' = late \cup {Later(c.with)}
  PROVE  Kept
<1>1. /\ ITypeOK /\ Apart /\ RowsInv /\ LateInv /\ ReadyInv
      /\ running[h].todo \in Todos /\ mem \in [Slots -> Items] /\ db \in [1..MaxRow -> Records]
      /\ lastRow \in Nat /\ MaxRow \in Nat
  BY WorkingIs, BoundAssumption DEF Fine, ITypeOK
<1>2. PICK w \in Slots, t \in Slots : w = c.slot /\ t = c.with /\ w \in Slotted(running[h].todo) /\ t \in Slotted(running[h].todo)
  BY <1>1, SingleSlot, SMTT(60) DEF TwoSlots
<1>3. /\ CarriesOn(h) /\ running'[h].todo = <<Wipe(w)>> \o Tail(running[h].todo)
      /\ mem' = [mem EXCEPT ![t] = More(mem[t], mem[w].qty)] /\ db' = Delete(db, mem[w].row) /\ lastRow' = lastRow /\ w # t
  BY <1>1, <1>2, JoinIs
<1>4. /\ mem[w] \in Items /\ mem[t] \in Items /\ mem[w].row \in 0..MaxRow /\ mem[w].qty \in Nat
      /\ mem'[t] = More(mem[t], mem[w].qty) /\ \A u \in Slots \ {t} : mem'[u] = mem[u]
  BY <1>1, <1>3, ItemIs
<1>5. mem'[t].kind = mem[t].kind /\ mem'[t].row = mem[t].row
  BY <1>4, MoreIs, ZenonT(60)
<1>6. Occupied(w) /\ Occupied(t) /\ Occupied(t)'
  <2>1. Occupied(w) /\ mem[w].kind = mem[t].kind
    BY <1>2 DEF Fine, JoinInv, Joins
  <2> QED
    BY <1>5, <2>1 DEF Occupied
<1>7. Lonely(running[h].todo) /\ NoSplit(running[h].todo) /\ OneGear(running[h].todo)
  <2>1. Ready(running[h].todo)
    BY <1>1 DEF ReadyInv
  <2> QED
    BY <2>1, NotSplit DEF Ready
<1>8. Wipe(w) \in Calls /\ Wipe(w).op = "wipe" /\ Wipe(w).slot = w /\ SlotsOf(Wipe(w)) = {w}
  BY WipeCall DEF Wipe, Call
<1>9. Follows(running[h].todo, running'[h].todo, w)
  BY <1>3, <1>8 DEF Follows
<1>10. PICK next \in Todos : next = running'[h].todo
  BY <1>3 DEF CarriesOn, Goes
<1>11. Slotted(next) = {w}
  <2>1. Len(running[h].todo) = 1
    BY <1>7 DEF Lonely
  <2>2. PICK todo \in Todos : todo = running[h].todo /\ todo # <<>> /\ Len(todo) = 1
    BY <1>1, <2>1
  <2>3. next = <<Wipe(w)>> \o Tail(todo)
    BY <1>3, <1>10, <2>2
  <2>4. next \in Seq(Calls) /\ Len(next) = 1 /\ next[1] = Wipe(w)
    BY <1>8, <2>2, <2>3, PutFirst DEF Todos
  <2>5. \A u : u \in Slotted(next) <=> \E i \in 1..Len(next) : u \in SlotsOf(next[i])
    BY <2>4, SlottedIs
  <2> QED
    BY <1>8, <2>4, <2>5
<1>12. NoSplit(next) /\ OneGear(next) /\ Lonely(next)
  BY <1>1, <1>7, <1>9, <1>10, Continues, LonelyOn
<1>13. Row(w) = mem[w].row /\ Row(w)' = 0 /\ Hid(w)'
  <2>1. /\ Row(w) = RowBy(running[h].todo, mem, w)
        /\ Hid(w)' <=> Hidden(next, w)
        /\ Row(w)' = RowBy(next, mem', w)
    BY <1>1, <1>2, <1>3, <1>10, OwnSlots, ZenonT(60)
  <2>2. RowBy(running[h].todo, mem, w) = mem[w].row
    BY <1>7, RowOfPlain
  <2>3. Hidden(next, w) /\ RowBy(next, mem', w) = 0
    BY <1>1, <1>3, <1>8, <1>10, <1>12, RowOfFirst
  <2> QED
    BY <2>1, <2>2, <2>3, SMTT(60)
<1>14. Row(t) = mem[t].row /\ mem[t].row # 0
  <2>1. /\ Row(t) = RowBy(running[h].todo, mem, t)
        /\ Hid(t) <=> Hidden(running[h].todo, t)
    BY <1>1, <1>2, <1>3, OwnSlots, ZenonT(60)
  <2>2. RowBy(running[h].todo, mem, t) = mem[t].row /\ ~Hidden(running[h].todo, t)
    BY <1>7, RowOfPlain
  <2> QED
    BY <1>1, <1>6, <2>1, <2>2 DEF RowsInv
<1>15. Later(t).slot = t /\ Later(t).item = NewSlot /\ late' = late \cup {Later(t)}
  BY <1>2 DEF Later
<1>16. \A u \in Slots \ {w} : AsBefore(u)
  <2> SUFFICES ASSUME NEW u \in Slots \ {w} PROVE AsBefore(u)
    BY SMTT(60)
  <2>1. mem'[u] = mem[u] \/ (u \in Slotted(running[h].todo) /\ mem'[u].row = mem[u].row)
    BY <1>2, <1>4, <1>5
  <2>2. Row(u)' = Row(u) /\ (Hid(u)' <=> Hid(u)) /\ (SavedIn(running, u) => SavedIn(running, u)')
    BY <1>1, <1>3, <1>7, <1>9, <2>1, OthersB
  <2>3. Moved(u)' <=> Moved(u)
    BY <1>15 DEF Moved
  <2>4. Dirty(u) => Dirty(u)'
    BY <1>15, <2>2 DEF Dirty
  <2>5. mem'[u] = mem[u] \/ Dirty(u)'
    BY <1>4, <1>15 DEF Dirty
  <2>6. Occupied(u)' <=> Occupied(u)
    BY <1>4, <1>5 DEF Occupied
  <2> QED
    BY <2>2, <2>3, <2>4, <2>5, <2>6 DEF AsBefore
<1>17. \A x \in 1..MaxRow : db'[x] = IF x = Row(w) THEN Gone ELSE db[x]
  BY <1>1, <1>3, <1>4, <1>13, DeleteRowIs
<1>18. RowsInv'
  <2>1. Row(w)' \in {0, Row(w)} /\ lastRow' = lastRow
    BY <1>3, <1>13
  <2>2. \A r \in 1..MaxRow : db'[r] # db[r] => r = Row(w)' \/ (r = Row(w) /\ db'[r] = Gone)
    BY <1>17
  <2>3. Row(w) # 0 /\ Row(w)' = 0 => db'[Row(w)] = Gone
    <3>1. Row(w) # 0 => Row(w) \in 1..MaxRow
      BY <1>1, <1>4, <1>13
    <3> QED
      BY <1>17, <3>1
  <2>4. RowTells(w)' /\ (Occupied(w)' => Hid(w)' \/ Row(w)' # 0)
    BY <1>13 DEF RowTells
  <2> QED
    BY <1>1, <1>16, <2>1, <2>2, <2>3, <2>4, OneHome
<1>19. \A g \in Runners \ {h} : running'[g] = running[g]
  BY <1>3 DEF CarriesOn, OthersSame
<1>20. ~Worked(t)'
  <2> SUFFICES ASSUME NEW g \in Runners, t \in Slotted(running'[g].todo) PROVE FALSE
    BY DEF Worked
  <2>1. CASE g = h
    BY <1>3, <1>10, <1>11, <2>1
  <2>2. CASE g # h
    BY <1>1, <1>2, <1>19, <2>2 DEF Apart
  <2> QED
    BY <2>1, <2>2
<1>21. \A v \in late : v.slot \in Slots /\ v.slot # t /\ ~Worked(v.slot)' /\ mem'[v.slot] = mem[v.slot]
  <2> SUFFICES ASSUME NEW v \in late PROVE v.slot \in Slots /\ v.slot # t /\ ~Worked(v.slot)' /\ mem'[v.slot] = mem[v.slot]
    OBVIOUS
  <2>1. v.slot \in Slots /\ ~Worked(v.slot)
    BY <1>1 DEF ITypeOK, LateInv
  <2>2. v.slot # t
    BY <1>2, <2>1 DEF Worked
  <2>3. ~Worked(v.slot)'
    BY <1>2, <1>10, <1>11, <1>19, <2>1 DEF Worked
  <2> QED
    BY <1>4, <2>1, <2>2, <2>3
<1>22. LateInv'
  <2>1. \A v \in late' : ~Worked(v.slot)' /\ mem'[v.slot].row # 0 /\ (v.item # NewSlot => mem'[v.slot] = v.item)
    <3> SUFFICES ASSUME NEW v \in late' PROVE ~Worked(v.slot)' /\ mem'[v.slot].row # 0 /\ (v.item # NewSlot => mem'[v.slot] = v.item)
      OBVIOUS
    <3>1. CASE v \in late
      BY <1>1, <1>21, <3>1 DEF LateInv
    <3>2. CASE v = Later(t)
      BY <1>5, <1>14, <1>15, <1>20, <3>2
    <3> QED
      BY <1>15, <3>1, <3>2
  <2>2. \A v, u \in late' : v.slot = u.slot => v = u
    BY <1>1, <1>15, <1>21 DEF LateInv
  <2> QED
    BY <2>1, <2>2 DEF LateInv
<1>23. Ready(running[h].todo)'
  BY <1>10, <1>12 DEF Ready, NoSplit, OneGear, Lonely
<1>24. \A u \in Slots \ Slotted(running[h].todo) : mem'[u] = mem[u]
  BY <1>2, <1>4
<1>25. ReadyInv'
  BY <1>1, <1>3, <1>23, <1>24, ReadyOthers
<1> QED
  BY <1>18, <1>22, <1>25 DEF Kept
LEMMA StepB ==
  ASSUME Fine, ITypeOK', flaw' = {}, NEW h \in Runners, Step(h)
  PROVE  Kept
<1> DEFINE c == Head(running[h].todo)
<1>1. running[h].todo # <<>> /\ late' = IF c.op = "join" THEN late \cup {Later(c.with)} ELSE late
  BY DEF Step
<1>2. \/ c.op \in {"put", "give"} /\ AddItem(h, c)
      \/ c.op = "take" /\ DecrementItem(h, c)
      \/ c.op = "drop" /\ RemoveItem(h, c)
      \/ c.op \in {"wipe", "named"} /\ AfterWait(h, c)
      \/ c.op \in {"grade", "save"} /\ ChangeItem(h, c)
      \/ c.op \in {"move", "swap"} /\ MoveItems(h, c)
      \/ c.op = "copy" /\ CopyPart(h, c)
      \/ c.op = "insert" /\ InsertPart(h, c)
      \/ c.op = "join" /\ JoinStacks(h, c)
  BY DEF Step
<1> HIDE DEF c
<1>0. c = Head(running[h].todo)
  BY DEF c
<1>3. c.op # "join" => late' = late
  BY <1>1
<1>4. c.op = "join" => late' = late \cup {Later(c.with)}
  BY <1>1
<1>5. CASE c.op \in {"put", "give"} /\ AddItem(h, c)
  BY <1>0, <1>1, <1>3, <1>5, AddB
<1>6. CASE c.op = "take" /\ DecrementItem(h, c)
  BY <1>0, <1>1, <1>3, <1>6, TakeB
<1>7. CASE c.op = "drop" /\ RemoveItem(h, c)
  BY <1>0, <1>1, <1>3, <1>7, DropB
<1>8. CASE c.op \in {"wipe", "named"} /\ AfterWait(h, c)
  BY <1>0, <1>1, <1>3, <1>8, AfterWaitB
<1>9. CASE c.op \in {"grade", "save"} /\ ChangeItem(h, c)
  BY <1>0, <1>1, <1>3, <1>9, ChangeB
<1>10. CASE c.op \in {"move", "swap"} /\ MoveItems(h, c)
  BY <1>0, <1>1, <1>3, <1>10, MoveB
<1>11. CASE c.op = "copy" /\ CopyPart(h, c)
  BY <1>0, <1>1, <1>3, <1>11, CopyB
<1>12. CASE c.op = "insert" /\ InsertPart(h, c)
  BY <1>0, <1>1, <1>3, <1>12, InsertB
<1>13. CASE c.op = "join" /\ JoinStacks(h, c)
  BY <1>0, <1>1, <1>4, <1>13, JoinB
<1> QED
  BY <1>2, <1>5, <1>6, <1>7, <1>8, <1>9, <1>10, <1>11, <1>12, <1>13

\* A handler starts: so far nothing is known anew.
LEMMA BeginB ==
  ASSUME Fine, ITypeOK', flaw' = {}, NEW lock \in BOOLEAN, NEW todo \in Todos, Begin(lock, todo), Ready(todo),
         \A t : ~Hidden(todo, t) /\ ~HeadIs(todo, "named", t)
  PROVE  Kept
<1>1. PICK h \in Runners :
          /\ running[h] = Idle
          /\ running' = [running EXCEPT ![h] = [lock |-> lock, todo |-> todo]]
          /\ flaw' = IF Overlaps(h, lock, todo) THEN flaw \cup {"overlap"} ELSE flaw
  BY DEF Begin
<1>2. mem' = mem /\ db' = db /\ lastRow' = lastRow /\ late' = late /\ ITypeOK /\ Apart /\ RowsInv /\ LateInv /\ ReadyInv
  BY DEF Begin, Fine
<1>3. /\ running' \in Works /\ running \in Works /\ running'[h].todo = todo /\ running[h].todo = <<>>
      /\ \A g \in Runners \ {h} : running'[g] = running[g]
  BY <1>1, <1>2, WorksIs DEF ITypeOK, Works, Idle
<1>4. ~Pending(Slotted(todo))
  BY <1>1 DEF Overlaps
<1>5. \A t : ~Hidden(<<>>, t) /\ ~HeadIs(<<>>, "named", t) /\ ~Saves(<<>>, t)
  BY NothingTodo DEF Hidden, HeadIs, Inserts, Saves
<1>6. ASSUME NEW t \in Slots PROVE AsBefore(t)
  <2>1. HidIn(running', t) <=> HidIn(running, t)
    BY <1>3, <1>5 DEF HidIn
  <2>2. SavedIn(running, t) => SavedIn(running', t)
    BY <1>3, <1>5 DEF SavedIn
  <2>3. Namers(running', t) = Namers(running, t) /\ h \notin Namers(running, t)
    BY <1>3, <1>5 DEF Namers
  <2>4. Namers(running, t) # {} => (CHOOSE g : g \in Namers(running, t)) \in Namers(running, t)
    OBVIOUS
  <2>5. Namers(running, t) \subseteq Runners
    BY DEF Namers
  <2>6. RowIn(running', mem', t) = RowIn(running, mem, t)
    BY <1>2, <1>3, <2>1, <2>3, <2>4, <2>5 DEF RowIn
  <2> QED
    BY <1>2, <2>1, <2>2, <2>6 DEF AsBefore, Row, Hid, Moved, Dirty, Occupied
<1>7. RowsInv'
  BY <1>2, <1>6, SameHomes
<1>8. LateInv'
  <2>1. ASSUME NEW w \in late PROVE ~Worked(w.slot)'
    <3>1. ~Worked(w.slot) /\ (w.item # NewSlot => mem[w.slot] = w.item)
      BY <1>2 DEF LateInv
    <3>2. w.slot \notin Slotted(todo)
      BY <1>4, <3>1 DEF Pending
    <3> QED
      BY <1>3, <3>1, <3>2 DEF Worked
  <2> QED
    BY <1>2, <2>1 DEF LateInv
<1>9. ReadyInv'
  <2> SUFFICES ASSUME NEW g \in Runners PROVE Ready(running[g].todo)'
    BY DEF ReadyInv
  <2>1. CASE g = h
    <3>1. Ready(todo)'
      BY <1>2, ReadyKept
    <3> QED
      BY <1>3, <2>1, <3>1
  <2>2. CASE g # h
    <3>1. running'[g] = running[g] /\ running[g].todo \in Todos /\ Ready(running[g].todo)
      BY <1>2, <1>3, <2>2, WorkingIs DEF ReadyInv
    <3> QED
      BY <1>2, <3>1, ReadyKept
  <2> QED
    BY <2>1, <2>2
<1> QED
  BY <1>7, <1>8, <1>9 DEF Kept

LEMMA ErrandsB == ASSUME Fine, ITypeOK', flaw' = {}, StartsErrands PROVE Kept
<1>1. PICK lock \in BOOLEAN, s \in Slots \cup {AnySlot} : \E todo \in Errands(s) : Begin(lock, todo)
  BY DEF StartsErrands
<1>2. PICK todo \in Errands(s) : Begin(lock, todo)
  BY <1>1
<1>3. todo # <<>>
  BY <1>2 DEF Begin
<1>4. todo \in Todos /\ \A i \in 1..Len(todo) : Errand(todo[i], s)
  BY <1>2, <1>3, ErrandsAreTodos
<1>5. Head(todo) = todo[1] /\ 1 \in 1..Len(todo)
  BY <1>3, <1>4, TodoIs
<1>6. Head(todo).op \in {"put", "give", "take", "drop", "grade", "save"}
  BY <1>4, <1>5 DEF Errand
<1>7. NoSplit(todo) /\ OneGear(todo) /\ Lonely(todo)
  BY <1>4, <1>6 DEF NoSplit, OneGear, Lonely, Errand
<1>8. \A t : ~Hidden(todo, t) /\ ~HeadIs(todo, "named", t)
  BY <1>6, <1>7, RowOfPlain DEF HeadIs
<1>9. Ready(todo)
  BY <1>7 DEF Ready
<1> QED
  BY <1>2, <1>4, <1>8, <1>9, BeginB

LEMMA MovesB == ASSUME Fine, ITypeOK', flaw' = {}, StartsMove \/ StartsSplit PROVE Kept
<1>0. Held \subseteq Slots
  BY DEF Held
<1>1. CASE StartsMove
  <2>1. PICK lock \in BOOLEAN, w \in Held, t \in Slots : \E op \in MoveOps : Begin(lock, <<Call(op, w, t, 0)>>)
    BY <1>1 DEF StartsMove
  <2>2. PICK op \in MoveOps : Begin(lock, <<Call(op, w, t, 0)>>)
    BY <2>1
  <2>3. w \in Slots
    BY <1>0
  <2>4. PICK todo \in Todos : todo = <<Call(op, w, t, 0)>> /\ Head(todo).op = op
    BY <2>2, <2>3, MoveCall
  <2>5. todo # <<>> /\ Len(todo) = 1
    BY <2>4
  <2>6. Head(todo) = todo[1] /\ \A i \in 1..Len(todo) : i = 1
    BY <2>4, <2>5, TodoIs
  <2>7. NoSplit(todo) /\ OneGear(todo) /\ Lonely(todo)
    BY <2>4, <2>5, <2>6 DEF NoSplit, OneGear, Lonely, MoveOps
  <2>8. \A t_1 : ~Hidden(todo, t_1) /\ ~HeadIs(todo, "named", t_1)
    BY <2>4, <2>7, RowOfPlain DEF HeadIs, MoveOps
  <2>9. Ready(todo) /\ Begin(lock, todo)
    BY <2>2, <2>4, <2>7 DEF Ready
  <2> QED
    BY <2>8, <2>9, BeginB
<1>2. CASE StartsSplit
  <2>1. PICK w \in Held, t \in Slots : \E n \in 1..mem[w].qty : Begin(TRUE, SplitCalls(w, t, n))
    BY <1>2 DEF StartsSplit
  <2>2. PICK n \in 1..mem[w].qty : Begin(TRUE, SplitCalls(w, t, n))
    BY <2>1
  <2>3. w \in Slots /\ Occupied(w) /\ mem[w].qty \in Nat
    <3>1. w \in Slots /\ Occupied(w)
      BY DEF Held
    <3>2. mem[w] \in Items
      BY <3>1 DEF Fine, ITypeOK
    <3> QED
      BY <3>1, <3>2, ItemIs
  <2>4. n \in Nat /\ n <= mem[w].qty
    BY <2>3
  <2>5. /\ SplitCalls(w, t, n) \in Todos /\ Lonely(SplitCalls(w, t, n))
        /\ \A u : ~Hidden(SplitCalls(w, t, n), u) /\ ~HeadIs(SplitCalls(w, t, n), "named", u)
    BY <2>3, <2>4, TripleIs
  <2>6. Splits(SplitCalls(w, t, n))
    BY <2>3, <2>4 DEF Splits
  <2>7. Ready(SplitCalls(w, t, n))
    BY <2>5, <2>6 DEF Ready
  <2> QED
    BY <2>2, <2>5, <2>7, BeginB
<1> QED
  BY <1>1, <1>2

\* What goroutines are to write is of no slot of S.
LEMMA NotLate ==
  ASSUME LateInv, NEW S, ~Pending(S)
  PROVE  \A w \in late : w.slot \notin S
  BY DEF LateInv, Pending

\* What changes at once, where nobody works.
LEMMA AtOnceB ==
  ASSUME ITypeOK, ReadyInv, running' = running, NEW S, \A t \in Slots \ S : mem'[t] = mem[t], \A t \in S : ~Worked(t)
  PROVE  /\ ReadyInv'
         /\ \A t \in Slots \ S : Row(t)' = Row(t) /\ (Hid(t)' <=> Hid(t)) /\ (SavedIn(running, t)' <=> SavedIn(running, t))
         /\ \A t \in S : /\ ~Hid(t) /\ ~Hid(t)' /\ ~SavedIn(running, t)
                         /\ Row(t) = mem[t].row /\ Row(t)' = mem'[t].row
         /\ \A t : Worked(t)' <=> Worked(t)
<1>1. running \in Works
  BY WorksIs
<1>2. ReadyInv'
  <2> SUFFICES ASSUME NEW g \in Runners PROVE Ready(running[g].todo)'
    BY DEF ReadyInv
  <2>1. running'[g] = running[g] /\ running[g].todo \in Todos /\ Ready(running[g].todo)
    BY WorkingIs DEF ReadyInv
  <2>2. Slotted(running[g].todo) \subseteq Slots
    BY <2>1, SlottedIs DEF Todos
  <2>3. \A t \in Slotted(running[g].todo) : mem'[t] = mem[t]
    BY <2>2 DEF Worked
  <2> QED
    BY <2>1, <2>3, ReadyKept
<1>3. ASSUME NEW t \in Slots \ S
      PROVE  Row(t)' = Row(t) /\ (Hid(t)' <=> Hid(t)) /\ (SavedIn(running, t)' <=> SavedIn(running, t))
  <2>1. RowIn(running, mem', t) = RowIn(running, mem, t)
    BY DEF RowIn
  <2> QED
    BY <2>1 DEF Row, Hid
<1>4. ASSUME NEW t \in S
      PROVE  /\ ~Hid(t) /\ ~Hid(t)' /\ ~SavedIn(running, t)
             /\ Row(t) = mem[t].row /\ Row(t)' = mem'[t].row
  <2>1. \A g \in Runners : t \notin Slotted(running[g].todo)
    BY DEF Worked
  <2>2. \A m : ~HidIn(running, t) /\ ~SavedIn(running, t) /\ RowIn(running, m, t) = m[t].row
    BY <1>1, <2>1, IdleSlot
  <2>3. Row(t) = RowIn(running, mem, t) /\ Row(t)' = RowIn(running, mem', t) /\ (Hid(t)' <=> HidIn(running, t)) /\ (Hid(t) <=> HidIn(running, t))
    BY DEF Row, Hid
  <2> QED
    BY <2>2, <2>3
<1>5. \A t : Worked(t)' <=> Worked(t)
  BY DEF Worked
<1> QED
  BY <1>2, <1>3, <1>4, <1>5
\* An item is activated or put off.
LEMMA ActivateB == ASSUME Fine, ITypeOK', flaw' = {}, ActivateTimeLimitedItem PROVE Kept
<1>1. /\ ITypeOK /\ RowsInv /\ LateInv /\ ReadyInv /\ mem \in [Slots -> Items] /\ db \in [1..MaxRow -> Records]
      /\ lastRow \in Nat /\ MaxRow \in Nat
  BY BoundAssumption DEF Fine, ITypeOK
<1>2. PICK s \in Slots :
        /\ Occupied(s) /\ mem' = [mem EXCEPT ![s] = Toggled(mem[s])]
        /\ mem'[s] = Toggled(mem[s]) /\ db' = Update(db, s, Toggled(mem[s]))
        /\ flaw' = IF {s} \cap UNION {Slotted(running[g].todo) : g \in Runners} # {} \/ Pending({s})
                   THEN flaw \cup {"overlap"} ELSE flaw
        /\ lastRow' = lastRow /\ running' = running /\ late' = late
  BY <1>1, ActivateIs DEF Held
<1>3. ~Pending({s}) /\ ~Worked(s)
  BY <1>2 DEF Worked
<1>4. \A t \in Slots \ {s} : mem'[t] = mem[t]
  BY <1>1, <1>2
<1>5. PICK i \in Items : i = mem'[s] /\ i.kind = mem[s].kind /\ i.row = mem[s].row
  <2>1. mem[s] \in Items
    BY <1>1
  <2> QED
    BY <1>2, <2>1, ToggledIs
<1>6. /\ ReadyInv' /\ ~Hid(s) /\ Row(s) = mem[s].row /\ Row(s)' = mem'[s].row
      /\ \A t \in Slots \ {s} : Row(t)' = Row(t) /\ (Hid(t)' <=> Hid(t)) /\ (SavedIn(running, t)' <=> SavedIn(running, t))
      /\ \A t : Worked(t)' <=> Worked(t)
  BY <1>1, <1>2, <1>3, <1>4, AtOnceB
<1>7. Row(s) # 0 /\ Row(s) \in 1..lastRow /\ db[Row(s)] # Gone
  BY <1>1, <1>2, <1>6 DEF RowsInv, RowTells
<1>8. \A w \in late : w.slot # s
  BY <1>1, <1>3, NotLate
<1>9. \A t \in Slots \ {s} : AsBefore(t)
  BY <1>2, <1>4, <1>6 DEF AsBefore, Moved, Dirty, Occupied
<1>10. db' = Update(db, s, i) /\ mem'[s] = i /\ i.kind # NoKind
  BY <1>2, <1>5 DEF Occupied
<1>11. (\A x \in 1..MaxRow : db'[x] # db[x] => x = Row(s)') /\ Told(db', mem', s, Row(s)', FALSE) /\ Row(s)' = Row(s)
  <2>1. \A x \in 1..MaxRow : db'[x] # db[x] => x = i.row
    BY <1>1, <1>10, UpdatedRow
  <2>2. Told(db', mem', s, i.row, FALSE)
    BY <1>1, <1>5, <1>6, <1>7, <1>10, UpdatedRow, ZenonT(60)
  <2>3. Row(s)' = i.row /\ Row(s)' = Row(s)
    BY <1>5, <1>6
  <2> QED
    BY <2>1, <2>2, <2>3
<1>12. RowTells(s)'
  BY <1>2, <1>7, <1>11 DEF RowTells, Told, Occupied
<1>13. RowsInv'
  <2>1. Row(s)' \in {0, Row(s)} /\ lastRow' = lastRow
    BY <1>2, <1>11
  <2>2. \A x \in 1..MaxRow : db'[x] # db[x] => x = Row(s)' \/ (x = Row(s) /\ db'[x] = Gone)
    BY <1>11
  <2>3. Row(s) # 0 /\ Row(s)' = 0 => db'[Row(s)] = Gone
    BY <1>11
  <2>4. Occupied(s)' => Hid(s)' \/ Row(s)' # 0
    BY <1>7, <1>11
  <2> QED
    BY <1>1, <1>9, <1>12, <2>1, <2>2, <2>3, <2>4, OneHome
<1>14. LateInv'
  <2>1. \A w \in late : w.slot \in Slots /\ mem'[w.slot] = mem[w.slot]
    BY <1>1, <1>4, <1>8 DEF ITypeOK
  <2> QED
    BY <1>1, <1>2, <1>6, <2>1 DEF LateInv
<1> QED
  BY <1>6, <1>13, <1>14 DEF Kept

\* Slots nobody works on are arranged.
LEMMA ArrangeB ==
  ASSUME Fine, ITypeOK', flaw' = {}, NEW S, S \subseteq Slots, Arrange(S)
  PROVE  Kept
<1>1. /\ ITypeOK /\ RowsInv /\ LateInv /\ ReadyInv /\ mem \in [Slots -> Items] /\ mem' \in [Slots -> Items]
  BY DEF Fine, ITypeOK
<1>2. Arranged(S) /\ db' = db /\ lastRow' = lastRow /\ running' = running
  BY <1>1, ArrangeIs
<1>3. PICK f \in [S -> S] :
        /\ \A s, t \in S : f[s] = f[t] => s = t
        /\ \A t \in S : \E s \in S : f[s] = t
        /\ \A s \in S : mem'[s] = mem[f[s]]
        /\ \A s \in Slots \ S : mem'[s] = mem[s]
        /\ late' = late \cup {[slot |-> s, item |-> mem[f[s]]] : s \in {t \in S : mem[f[t]].row # 0}}
        /\ ("overlap" \notin flaw' => /\ flaw' = flaw /\ ~Pending(S)
                                      /\ \A g \in Runners : Slotted(running[g].todo) \cap S = {})
  BY <1>2 DEF Arranged
<1>4. ~Pending(S) /\ \A t \in S : ~Worked(t)
  BY <1>3 DEF Worked
<1>5. /\ ReadyInv'
      /\ \A t \in Slots \ S : Row(t)' = Row(t) /\ (Hid(t)' <=> Hid(t)) /\ (SavedIn(running, t)' <=> SavedIn(running, t))
      /\ \A t \in S : ~Hid(t) /\ Row(t) = mem[t].row /\ Row(t)' = mem'[t].row
      /\ \A t : Worked(t)' <=> Worked(t)
  BY <1>1, <1>2, <1>3, <1>4, AtOnceB
<1>6. \A w \in late : w.slot \notin S /\ w.slot \in Slots
  BY <1>1, <1>4, NotLate DEF ITypeOK
<1>7. \A w : w \in late' <=> w \in late \/ \E s \in S : mem[f[s]].row # 0 /\ w = [slot |-> s, item |-> mem[f[s]]]
  BY <1>3
<1>8. \A t \in S : /\ f[t] \in S /\ f[t] \in Slots /\ t \in Slots
                   /\ Row(t)' = Row(f[t]) /\ Row(f[t]) = mem[f[t]].row /\ (Occupied(t)' <=> Occupied(f[t]))
  BY <1>3, <1>5 DEF Occupied
<1>9. ASSUME NEW t \in S PROVE RowTells(t)' /\ (Occupied(t)' => Hid(t)' \/ Row(t)' # 0)
  <2>1. RowTells(f[t]) /\ (Occupied(f[t]) => Row(f[t]) # 0)
    BY <1>1, <1>5, <1>8 DEF RowsInv
  <2>2. Row(t)' # 0 => Moved(t)'
    <3> SUFFICES ASSUME mem[f[t]].row # 0 PROVE Moved(t)'
      BY <1>8
    <3>1. PICK w : w = [slot |-> t, item |-> mem[f[t]]]
      OBVIOUS
    <3>2. w \in late'
      BY <1>7, <3>1
    <3>3. w.slot = t /\ w.item # NewSlot
      BY <3>1, EmptyItems
    <3> QED
      BY <3>2, <3>3 DEF Moved
  <2> QED
    BY <1>2, <1>8, <2>1, <2>2 DEF RowTells
<1>10. ASSUME NEW t \in Slots \ S PROVE RowTells(t)' /\ (Occupied(t)' => Hid(t)' \/ Row(t)' # 0)
  <2>1. RowTells(t) /\ (Occupied(t) => Hid(t) \/ Row(t) # 0)
    BY <1>1 DEF RowsInv
  <2>2. mem'[t] = mem[t] /\ (Occupied(t)' <=> Occupied(t))
    BY <1>3 DEF Occupied
  <2>3. \A w : w.slot = t => (w \in late' <=> w \in late)
    BY <1>7
  <2>4. (Moved(t)' <=> Moved(t)) /\ (Dirty(t)' <=> Dirty(t))
    BY <1>5, <2>3 DEF Moved, Dirty
  <2> QED
    BY <1>2, <1>5, <2>1, <2>2, <2>4 DEF RowTells
<1> DEFINE p == [t \in Slots |-> IF t \in S THEN f[t] ELSE t]
<1>11. p \in [Slots -> Slots] /\ (\A s, t \in Slots : p[s] = p[t] => s = t) /\ \A t \in Slots : \E s \in Slots : p[s] = t
  BY <1>3
<1>12. \A t \in Slots : Row(t)' = Row(p[t]) /\ RowTells(t)' /\ (Occupied(t)' => Hid(t)' \/ Row(t)' # 0)
  BY <1>5, <1>8, <1>9, <1>10
<1>13. RowsInv'
  <2> HIDE DEF p
  <2> QED
    BY <1>1, <1>2, <1>11, <1>12, Rehomed
<1>14. LateInv'
  <2>1. \A w \in late' : ~Worked(w.slot)' /\ mem'[w.slot].row # 0 /\ (w.item # NewSlot => mem'[w.slot] = w.item)
    <3> SUFFICES ASSUME NEW w \in late' PROVE ~Worked(w.slot)' /\ mem'[w.slot].row # 0 /\ (w.item # NewSlot => mem'[w.slot] = w.item)
      OBVIOUS
    <3>1. CASE w \in late
      BY <1>1, <1>3, <1>5, <1>6, <3>1 DEF LateInv
    <3>2. ASSUME NEW s \in S, mem[f[s]].row # 0, w = [slot |-> s, item |-> mem[f[s]]]
          PROVE  ~Worked(w.slot)' /\ mem'[w.slot].row # 0 /\ (w.item # NewSlot => mem'[w.slot] = w.item)
      BY <1>3, <1>4, <1>5, <3>2
    <3> QED
      BY <1>7, <3>1, <3>2
  <2>2. ASSUME NEW w \in late', NEW v \in late', w.slot = v.slot PROVE w = v
    <3>1. CASE w \in late /\ v \in late
      BY <1>1, <2>2, <3>1 DEF LateInv
    <3>2. CASE w \notin late
      <4>1. PICK s \in S : w = [slot |-> s, item |-> mem[f[s]]]
        BY <1>7, <3>2
      <4>2. v \notin late
        BY <1>6, <2>2, <4>1
      <4>3. PICK t \in S : v = [slot |-> t, item |-> mem[f[t]]]
        BY <1>7, <4>2
      <4> QED
        BY <2>2, <4>1, <4>3
    <3>3. CASE v \notin late
      <4>1. PICK s \in S : v = [slot |-> s, item |-> mem[f[s]]]
        BY <1>7, <3>3
      <4>2. w \notin late
        BY <1>6, <2>2, <4>1
      <4>3. PICK t \in S : w = [slot |-> t, item |-> mem[f[t]]]
        BY <1>7, <4>2
      <4> QED
        BY <2>2, <4>1, <4>3
    <3> QED
      BY <3>1, <3>2, <3>3
  <2> QED
    BY <2>1, <2>2 DEF LateInv
<1> QED
  BY <1>5, <1>13, <1>14 DEF Kept

\* A goroutine writes a slot.
LEMMA LateWriteB == ASSUME Fine, ITypeOK', LateWrite PROVE Kept
<1>1. /\ ITypeOK /\ RowsInv /\ LateInv /\ ReadyInv /\ mem \in [Slots -> Items] /\ db \in [1..MaxRow -> Records]
      /\ lastRow \in Nat /\ MaxRow \in Nat
  BY BoundAssumption DEF Fine, ITypeOK
<1>2. PICK w \in late :
            /\ w.slot \in Slots /\ mem[w.slot] \in Items
            /\ db' = Update(db, w.slot, IF w.item = NewSlot THEN mem[w.slot] ELSE w.item)
            /\ late' = late \ {w} /\ mem' = mem /\ lastRow' = lastRow /\ running' = running
  BY <1>1, LateWriteIs
<1>3. PICK s \in Slots : s = w.slot
  BY <1>2
<1>4. db' = Update(db, s, mem[s]) /\ ~Worked(s) /\ mem[s].row # 0
  BY <1>1, <1>2, <1>3 DEF LateInv
<1>5. /\ ReadyInv' /\ ~Hid(s) /\ ~SavedIn(running, s) /\ Row(s) = mem[s].row /\ Row(s)' = mem'[s].row
      /\ \A t \in Slots \ {s} : Row(t)' = Row(t) /\ (Hid(t)' <=> Hid(t)) /\ (SavedIn(running, t)' <=> SavedIn(running, t))
      /\ \A t : Worked(t)' <=> Worked(t)
  <2>1. PICK S : S = {s}
    OBVIOUS
  <2>2. running' = running /\ (\A t \in Slots \ S : mem'[t] = mem[t]) /\ \A t \in S : ~Worked(t)
    BY <1>2, <1>4, <2>1
  <2>3. /\ ReadyInv'
        /\ \A t \in Slots \ S : Row(t)' = Row(t) /\ (Hid(t)' <=> Hid(t)) /\ (SavedIn(running, t)' <=> SavedIn(running, t))
        /\ \A t \in S : /\ ~Hid(t) /\ ~Hid(t)' /\ ~SavedIn(running, t)
                        /\ Row(t) = mem[t].row /\ Row(t)' = mem'[t].row
        /\ \A t : Worked(t)' <=> Worked(t)
    BY <1>1, <2>2, AtOnceB
  <2> QED
    BY <2>1, <2>3
<1>6. Row(s) # 0 /\ Row(s) \in 1..lastRow /\ db[Row(s)] # Gone /\ Occupied(s)
  BY <1>1, <1>4, <1>5 DEF RowsInv, RowTells
<1>7. \A t \in Slots \ {s} : AsBefore(t)
  BY <1>2, <1>3, <1>5 DEF AsBefore, Moved, Dirty, Occupied
<1>8. (\A x \in 1..MaxRow : db'[x] # db[x] => x = Row(s)') /\ Told(db', mem', s, Row(s)', FALSE) /\ Row(s)' = Row(s)
  <2>1. mem'[s] = mem[s] /\ mem[s] \in Items /\ mem[s].kind # NoKind
    BY <1>2, <1>3, <1>6 DEF Occupied
  <2>2. \A x \in 1..MaxRow : db'[x] # db[x] => x = mem[s].row
    BY <1>1, <1>4, <2>1, UpdatedRow
  <2>3. Told(db', mem', s, mem[s].row, FALSE)
    BY <1>1, <1>4, <1>5, <1>6, <2>1, UpdatedRow
  <2>4. Row(s)' = mem[s].row /\ Row(s)' = Row(s)
    BY <1>5, <2>1
  <2> QED
    BY <2>2, <2>3, <2>4
<1>9. RowTells(s)'
  BY <1>2, <1>6, <1>8 DEF RowTells, Told, Occupied
<1>10. RowsInv'
  <2>1. Row(s)' \in {0, Row(s)} /\ lastRow' = lastRow
    BY <1>2, <1>8
  <2>2. \A x \in 1..MaxRow : db'[x] # db[x] => x = Row(s)' \/ (x = Row(s) /\ db'[x] = Gone)
    BY <1>8
  <2>3. Row(s) # 0 /\ Row(s)' = 0 => db'[Row(s)] = Gone
    BY <1>8
  <2>4. Occupied(s)' => Hid(s)' \/ Row(s)' # 0
    BY <1>6, <1>8
  <2> QED
    BY <1>1, <1>7, <1>9, <2>1, <2>2, <2>3, <2>4, OneHome
<1>11. LateInv'
  BY <1>1, <1>2, <1>5 DEF LateInv
<1> QED
  BY <1>5, <1>10, <1>11 DEF Kept

LEMMA AlreadyB ==
  ASSUME Fine, UNCHANGED <<mem, db, lastRow, running, late>>
  PROVE  Kept
<1>1. ITypeOK /\ RowsInv /\ LateInv /\ ReadyInv
  BY DEF Fine
<1>2. /\ ReadyInv'
      /\ \A t \in Slots : Row(t)' = Row(t) /\ (Hid(t)' <=> Hid(t)) /\ (SavedIn(running, t)' <=> SavedIn(running, t))
      /\ \A t : Worked(t)' <=> Worked(t)
  <2>1. PICK S : S = {}
    OBVIOUS
  <2> QED
    BY <1>1, <2>1, AtOnceB
<1>3. \A t \in Slots : AsBefore(t)
  BY <1>2 DEF AsBefore, Moved, Dirty, Occupied
<1>4. RowsInv'
  BY <1>1, <1>3, SameHomes
<1>5. LateInv'
  BY <1>1, <1>2 DEF LateInv
<1> QED
  BY <1>2, <1>4, <1>5 DEF Kept
LEMMA NextB == ASSUME Fine, ITypeOK', flaw' = {}, [Next]_vars PROVE Kept
<1>0. ITypeOK /\ BagSlots \subseteq Slots /\ BankSlots \subseteq Slots
  BY DEF Fine, Slots
<1>1. CASE UNCHANGED vars
  BY <1>1, AlreadyB DEF vars
<1>2. CASE \E h \in Runners : Step(h)
  BY <1>2, StepB
<1>3. CASE LateWrite
  BY <1>3, LateWriteB
<1>4. CASE WaitFunctionTimer \/ ArrangeInventory
  <2>1. UNCHANGED <<mem, db, lastRow, running, late>> \/ Arrange(BagSlots)
    BY <1>4 DEF WaitFunctionTimer, ArrangeInventory
  <2> QED
    BY <1>0, <2>1, ArrangeB, AlreadyB
<1>5. CASE ArrangeBank
  <2>1. Arrange(BankSlots)
    BY <1>5 DEF ArrangeBank
  <2> QED
    BY <1>0, <2>1, ArrangeB
<1>6. CASE TradeOrSale
  <2>1. UNCHANGED <<mem, db, lastRow, running, late>>
    BY <1>6 DEF TradeOrSale
  <2> QED
    BY <2>1, AlreadyB
<1>7. CASE ActivateTimeLimitedItem
  BY <1>7, ActivateB
<1>8. CASE ReplaceItem \/ SwapItems \/ CombineItems \/ SplitItem
  BY <1>8, MovesStart, MovesB
<1>9. CASE DestroyItem \/ SellItem \/ Loot \/ BuyHTItem \/ ReplaceHTItem \/ DiscriminateItem
  BY <1>0, <1>9, FewErrands, ErrandsB
<1>10. CASE StrengthenHandler \/ ProductionHandler \/ CoProductionHandler \/ AdvancedFusionHandler
  BY <1>0, <1>10, StrengthenErrands, ProductionErrands, FusionErrands, ErrandsB
<1>11. CASE DismantleHandler \/ ExtractionHandler \/ CreateSocketHandler \/ UpgradeSocketHandler
  BY <1>0, <1>11, SmithErrands, SocketErrands, ErrandsB
<1>12. CASE HolyWaterUpgradeHandler \/ OpenBox
  BY <1>0, <1>12, ConsumableErrands, ErrandsB
<1> QED
  BY <1>1, <1>2, <1>3, <1>4, <1>5, <1>6, <1>7, <1>8, <1>9, <1>10, <1>11, <1>12 DEF Next, Handlers

\* Every row that was loaded is the row of its slot.
LEMMA InitB == ASSUME Init PROVE RowsInv /\ LateInv /\ ReadyInv
<1>1. /\ mem \in [Slots -> Items] /\ Cardinality(Held) <= MaxRow
      /\ \A s \in Held : mem[s].row \in 1..Cardinality(Held)
      /\ \A s, t \in Held : mem[s].row = mem[t].row => s = t
      /\ \A s \in Slots \ Held : mem[s] = NewSlot
  <2>1. mem \in InitBags
    BY DEF Init
  <2>2. {s \in Slots : mem[s].kind # NoKind} = Held
    BY DEF Held, Occupied
  <2> QED
    BY <2>1, <2>2, InitBagsAssumption
<1>2. Cardinality(Held) \in Nat /\ MaxRow \in Nat
  <2>1. IsFiniteSet(Held)
    BY SlotAssumption, FS_Subset DEF Held, Slots
  <2> QED
    BY <2>1, FS_CardinalityType, BoundAssumption
<1>3. running = [h \in Runners |-> Idle] /\ late = {} /\ lastRow = Cardinality(Held)
  BY DEF Init
<1>4. running \in Works /\ \A h \in Runners : running[h].todo = <<>>
  BY <1>3, NothingTodo DEF Idle, Works
<1>5. \A t : ~Hid(t) /\ Row(t) = mem[t].row
  <2>1. \A t : \A g \in Runners : t \notin Slotted(running[g].todo)
    BY <1>4, NothingTodo
  <2> QED
    BY <1>4, <2>1, IdleSlot DEF Hid, Row
<1>6. \A s \in Slots : mem[s].row # 0 <=> s \in Held
  BY <1>1, EmptyItems
<1>7. db = [r \in 1..MaxRow |-> IF \E s \in Slots : mem[s].row = r
                                 THEN LET s == CHOOSE s \in Slots : mem[s].row = r IN [slot |-> s, item |-> mem[s]]
                                 ELSE Gone]
  BY DEF Init
<1>8. \A r \in 1..MaxRow : \A s \in Slots : mem[s].row = r => db[r] = [slot |-> s, item |-> mem[s]] /\ r <= lastRow
  <2> SUFFICES ASSUME NEW r \in 1..MaxRow, NEW s \in Slots, mem[s].row = r
               PROVE  db[r] = [slot |-> s, item |-> mem[s]] /\ r <= lastRow
    OBVIOUS
  <2>1. s \in Held
    BY <1>6
  <2>2. \A t \in Slots : mem[t].row = r => t = s
    BY <1>1, <1>6, <2>1
  <2>3. (CHOOSE t \in Slots : mem[t].row = r) = s
    BY <2>2
  <2>4. db[r] = [slot |-> s, item |-> mem[s]]
    BY <1>7, <2>3
  <2> QED
    BY <1>1, <1>2, <1>3, <2>1, <2>4
<1>9. \A r \in 1..MaxRow : (\A s \in Slots : mem[s].row # r) => db[r] = Gone
  BY <1>7
<1>10. ASSUME NEW t \in Slots PROVE RowTells(t) /\ (Occupied(t) => Hid(t) \/ Row(t) # 0)
  <2>1. Occupied(t) => Row(t) # 0
    BY <1>5, <1>6 DEF Held
  <2>2. ASSUME Row(t) # 0 PROVE RowTells(t)
    <3>1. t \in Held /\ Occupied(t) /\ mem[t] \in Items
      BY <1>1, <1>5, <1>6, <2>2 DEF Held
    <3>2. Row(t) \in 1..lastRow /\ Row(t) \in 1..MaxRow
      BY <1>1, <1>2, <1>3, <1>5, <3>1
    <3>3. db[Row(t)] = [slot |-> t, item |-> mem[t]]
      BY <1>5, <1>8, <3>2
    <3>4. db[Row(t)] # Gone
      <4>1. db[Row(t)].slot # Gone.slot
        BY <3>3, EmptyItems, SlotAssumption DEF Slots
      <4> QED
        BY <4>1
    <3>5. [mem[t] EXCEPT !.row = Row(t)] = mem[t]
      BY <1>5, <3>1, SameRow
    <3> QED
      BY <3>1, <3>2, <3>3, <3>4, <3>5 DEF RowTells
  <2> QED
    BY <2>1, <2>2 DEF RowTells
<1>11. RowsInv
  <2>1. \A s, t \in Slots : Row(s) = Row(t) /\ Row(s) # 0 => s = t
    BY <1>1, <1>5, <1>6
  <2>2. \A r \in 1..MaxRow : db[r] # Gone => r <= lastRow /\ \E t \in Slots : Row(t) = r
    BY <1>5, <1>8, <1>9
  <2> QED
    BY <1>10, <2>1, <2>2 DEF RowsInv
<1>12. LateInv
  BY <1>3 DEF LateInv
<1>13. ReadyInv
  <2>1. NoSplit(<<>>) /\ OneGear(<<>>) /\ Lonely(<<>>)
    BY NothingTodo DEF NoSplit, OneGear, Lonely
  <2> QED
    BY <1>4, <2>1 DEF ReadyInv, Ready
<1> QED
  BY <1>11, <1>12, <1>13

LEMMA FlawGrows == ASSUME NInv, [Next]_vars PROVE flaw \subseteq flaw'
<1>0. ITypeOK /\ BagSlots \subseteq Slots /\ BankSlots \subseteq Slots
  BY DEF NInv, Slots
<1>1. CASE UNCHANGED vars
  BY <1>1 DEF vars
<1>2. CASE \E h \in Runners : Step(h)
  BY <1>2, StepN
<1>3. CASE LateWrite
  BY <1>0, <1>3, LateWriteIs
<1>4. CASE WaitFunctionTimer \/ ArrangeInventory \/ ArrangeBank
  <2>1. flaw' = flaw \/ Arrange(BagSlots) \/ Arrange(BankSlots)
    BY <1>4 DEF WaitFunctionTimer, ArrangeInventory, ArrangeBank
  <2> QED
    BY <1>0, <2>1, ArrangeN
<1>5. CASE TradeOrSale
  BY <1>5 DEF TradeOrSale
<1>6. CASE ActivateTimeLimitedItem
  BY <1>6, ActivateN
<1>7. CASE ReplaceItem \/ SwapItems \/ CombineItems \/ SplitItem
  BY <1>7, MovesStart, MovesN
<1>8. CASE DestroyItem \/ SellItem \/ Loot \/ BuyHTItem \/ ReplaceHTItem \/ DiscriminateItem
  BY <1>0, <1>8, FewErrands, ErrandsN
<1>9. CASE StrengthenHandler \/ ProductionHandler \/ CoProductionHandler \/ AdvancedFusionHandler
  BY <1>0, <1>9, StrengthenErrands, ProductionErrands, FusionErrands, ErrandsN
<1>10. CASE DismantleHandler \/ ExtractionHandler \/ CreateSocketHandler \/ UpgradeSocketHandler
  BY <1>0, <1>10, SmithErrands, SocketErrands, ErrandsN
<1>11. CASE HolyWaterUpgradeHandler \/ OpenBox
  BY <1>0, <1>11, ConsumableErrands, ErrandsN
<1> QED
  BY <1>1, <1>2, <1>3, <1>4, <1>5, <1>6, <1>7, <1>8, <1>9, <1>10, <1>11 DEF Next, Handlers

LEMMA BAlways == Spec => []BInv
<1>1. Init => BInv
  BY InitN, InitB DEF BInv
<1>2. BInv /\ [Next]_vars => BInv'
  <2> SUFFICES ASSUME BInv, [Next]_vars PROVE BInv'
    OBVIOUS
  <2>1. NInv'
    BY NextN DEF BInv
  <2>2. ASSUME flaw' = {} PROVE RowsInv' /\ LateInv' /\ ReadyInv'
    <3>1. flaw = {}
      BY <2>2, FlawGrows DEF BInv
    <3>2. Fine
      BY <3>1 DEF BInv, NInv, Undisturbed, Fine
    <3>3. ITypeOK'
      BY <2>1 DEF NInv
    <3> QED
      BY <2>2, <3>2, <3>3, NextB DEF Kept
  <2> QED
    BY <2>1, <2>2 DEF BInv
<1> QED
  BY <1>1, <1>2, PTL DEF Spec

\* When all handlers and goroutines are done, and no two of them met, the rows
\* are exactly what is in the slots.
THEOREM WhatIsLoaded == Spec => []BagSurvivesRelogin
<1>1. BInv => BagSurvivesRelogin
  <2> SUFFICES ASSUME BInv, Quiet, flaw = {}, NEW s \in Slots
               PROVE  {db[r].item : r \in {x \in 1..MaxRow : db[x].slot = s}} = IF Occupied(s) THEN {mem[s]} ELSE {}
    BY DEF BagSurvivesRelogin
  <2>1. ITypeOK /\ RowsInv /\ late = {} /\ mem \in [Slots -> Items] /\ lastRow \in 0..MaxRow /\ MaxRow \in Nat
    BY BoundAssumption DEF BInv, NInv, ITypeOK, Quiet
  <2>2. \A t : ~HidIn(running, t) /\ ~SavedIn(running, t) /\ RowIn(running, mem, t) = mem[t].row
    <3>1. \A t : \A g \in Runners : t \notin Slotted(running[g].todo)
      BY NothingTodo DEF Quiet, Idle
    <3> QED
      BY <2>1, <3>1, WorksIs, IdleSlot
  <2>3. \A t : ~Hid(t) /\ ~Moved(t) /\ ~Dirty(t) /\ Row(t) = mem[t].row
    BY <2>1, <2>2 DEF Hid, Moved, Dirty, Row
  <2>4. \A t \in Slots : /\ Occupied(t) <=> Row(t) # 0
                         /\ Row(t) # 0 => Row(t) \in 1..MaxRow /\ db[Row(t)].slot = t /\ db[Row(t)].item = mem[t]
    <3> SUFFICES ASSUME NEW t \in Slots
                 PROVE  /\ Occupied(t) <=> Row(t) # 0
                        /\ Row(t) # 0 => Row(t) \in 1..MaxRow /\ db[Row(t)].slot = t /\ db[Row(t)].item = mem[t]
      OBVIOUS
    <3>1. RowTells(t) /\ (Occupied(t) => Row(t) # 0)
      BY <2>1, <2>3 DEF RowsInv
    <3>2. mem[t] \in Items
      BY <2>1
    <3>3. [mem[t] EXCEPT !.row = Row(t)] = mem[t]
      BY <2>3, <3>2, SameRow
    <3>4. Row(t) # 0 => Row(t) \in 1..lastRow /\ db[Row(t)].slot = t /\ db[Row(t)].item = mem[t] /\ Occupied(t)
      BY <2>3, <3>1, <3>3 DEF RowTells
    <3> QED
      BY <2>1, <3>1, <3>4
  <2>5. ASSUME NEW r \in 1..MaxRow, db[r].slot = s PROVE r = Row(s)
    <3>1. db[r] # Gone
      BY <2>5, EmptyItems, SlotAssumption DEF Slots
    <3>2. PICK t \in Slots : Row(t) = r
      BY <2>1, <3>1 DEF RowsInv
    <3>3. t = s
      BY <2>4, <2>5, <3>2
    <3> QED
      BY <3>2, <3>3
  <2>6. CASE Occupied(s)
    <3>1. Row(s) \in 1..MaxRow /\ db[Row(s)].slot = s /\ db[Row(s)].item = mem[s]
      BY <2>4, <2>6
    <3>2. {x \in 1..MaxRow : db[x].slot = s} = {Row(s)}
      BY <2>5, <3>1
    <3> QED
      BY <2>6, <3>1, <3>2
  <2>7. CASE ~Occupied(s)
    <3>1. {x \in 1..MaxRow : db[x].slot = s} = {}
      BY <2>4, <2>5, <2>7
    <3> QED
      BY <2>7, <3>1
  <2> QED
    BY <2>6, <2>7
<1> QED
  BY <1>1, BAlways, PTL
=============================================================================
