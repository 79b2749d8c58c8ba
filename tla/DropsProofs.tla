----------------------------- MODULE DropsProofs ----------------------------
(***************************************************************************)
(* Drops for any characters, maps, numbers and items: its types, and that  *)
(* a drop leaves the ground only by its own lifetime or a looter, or by    *)
(* what TakenOrExpired names.  The argument: a registered drop is the last *)
(* that got its number, so whatever else goes for the number is older.     *)
(* Then the account of every kind: what lies on the ground has never been  *)
(* picked up, so it weighs one, and who picks up is alone at his drop.     *)
(***************************************************************************)
EXTENDS Drops, Sums, FiniteSetTheorems, TLAPS

\* The register holds drops under their own map and number.
RegisterInv ==
    \A m \in Maps, n \in Numbers :
        DropRegister[m][n] # 0 =>
            /\ drops[DropRegister[m][n]].map = m
            /\ drops[DropRegister[m][n]].number = n
\* A registered drop is the last that got its number.
LatestInv ==
    \A m \in Maps, n \in Numbers : \A e \in Objects :
        DropRegister[m][n] # 0 /\ drops[e].map = m /\ drops[e].number = n
            => e <= DropRegister[m][n]
\* Who picks up knows the number of the drop, and has a piece if it does not stack.
LootingInv ==
    \A c \in Chars : looting[c] # NotLooting =>
        /\ looting[c].drop \in Objects
        /\ looting[c].number = drops[looting[c].drop].number
        /\ drops[looting[c].drop].item \notin Stackable => bag[c][drops[looting[c].drop].item] > 0
IInv == TypeOK /\ RegisterInv /\ LatestInv /\ LootingInv

LEMMA InitInv == Init => IInv
<1> SUFFICES ASSUME Init PROVE IInv
  OBVIOUS
<1> USE DropsAssumption DEF Init, NotLooting, Objects
<1>1. TypeOK
  <2>1. drops \in Seq(Drop) /\ Len(drops) = 0
    OBVIOUS
  <2>2. DropRegister \in [Maps -> [Numbers -> 0..Len(drops)]]
    BY <2>1
  <2>3. looting \in [Chars -> [drop : 0..Len(drops), number : Numbers \cup {0}]]
    BY <2>1
  <2>4. bag \in [Chars -> [Items -> Nat]] /\ removed \in [Items -> Nat] /\ failures \in 0..MaxFailures
    OBVIOUS
  <2>5. Map \in [Chars -> Maps] /\ Len(drops) <= MaxDrops
    BY <2>1
  <2>7. raced \in BOOLEAN
    OBVIOUS
  <2>6. freeTimers \subseteq Objects /\ lifeTimers \subseteq Objects
    OBVIOUS
  <2> HIDE DEF Init
  <2> QED
    BY <2>1, <2>2, <2>3, <2>4, <2>5, <2>6, <2>7 DEF TypeOK
<1>2. RegisterInv /\ LatestInv /\ LootingInv
  BY DEF RegisterInv, LatestInv, LootingInv
<1> QED
  BY <1>1, <1>2 DEF IInv

\* What an expired number adds to what timers took away.
LEMMA ExpiredType ==
  ASSUME TypeOK, NEW d \in 0..Len(drops) PROVE Expired(d) \in [Items -> Nat]
<1>1. CASE d = 0 \/ InFlight(d)
  BY <1>1 DEF Expired
<1>2. CASE ~(d = 0 \/ InFlight(d))
  <2>1. d \in 1..Len(drops)
    BY <1>2
  <2>2. drops[d] \in Drop
    BY <2>1 DEF TypeOK
  <2>3. drops[d].quantity \in Nat
    BY <2>2 DEF Drop
  <2> QED
    BY <1>2, <2>3 DEF Expired
<1> QED
  BY <1>1, <1>2

\* A new drop gets a number nobody has.
LEMMA DropHandlerKeeps ==
  ASSUME IInv, NEW k \in Killers, NEW m \in Maps, NEW item \in Items, DropHandler(k, m, item)
  PROVE  IInv'
<1> DEFINE top == Len(drops) + 1
<1>1. PICK n \in FreeNumbers(m) :
        /\ drops' = Append(drops, [map |-> m, number |-> n, item |-> item, quantity |-> 1,
                                   claimer |-> Claimer(k), killer |-> k])
        /\ DropRegister' = [DropRegister EXCEPT ![m][n] = top]
  BY DEF DropHandler
<1>2. n \in Numbers /\ DropRegister[m][n] = 0
  BY DEF FreeNumbers
<1>3. [map |-> m, number |-> n, item |-> item, quantity |-> 1,
       claimer |-> Claimer(k), killer |-> k] \in Drop
  BY <1>2, DropsAssumption DEF Drop, Claimer
<1>4. /\ Len(drops) \in Nat /\ Len(drops) < MaxDrops
      /\ drops' \in Seq(Drop) /\ Len(drops') = top
      /\ drops'[top].map = m /\ drops'[top].number = n
      /\ \A e \in 1..Len(drops) : drops'[e] = drops[e]
  BY <1>1, <1>3 DEF IInv, TypeOK, DropHandler
<1>5. UNCHANGED <<Map, looting, bag, failures, removed, raced>>
  BY DEF DropHandler
<1>6. freeTimers' \subseteq 1..top /\ lifeTimers' \subseteq 1..top
  <2>1. 1..Len(drops) \subseteq 1..top /\ top \in 1..top
    BY <1>4
  <2>2. freeTimers \subseteq 1..Len(drops) /\ lifeTimers \subseteq 1..Len(drops)
    BY DEF IInv, TypeOK, Objects
  <2>3. freeTimers' = freeTimers \cup {top} /\ lifeTimers' = lifeTimers \cup {top}
    BY DEF DropHandler
  <2> QED
    BY <2>1, <2>2, <2>3
<1>7. DropRegister' \in [Maps -> [Numbers -> 0..top]]
  BY <1>1, <1>2, <1>4 DEF IInv, TypeOK
<1>8. TypeOK'
  BY <1>4, <1>5, <1>6, <1>7, DropsAssumption DEF IInv, TypeOK, Objects
<1>9. \A x \in Maps, y \in Numbers :
        DropRegister'[x][y] = IF x = m /\ y = n THEN top ELSE DropRegister[x][y]
  BY <1>1, <1>2 DEF IInv, TypeOK
<1>10. \A x \in Maps, y \in Numbers : DropRegister[x][y] \in 0..Len(drops)
  BY DEF IInv, TypeOK
<1>11. RegisterInv'
  BY <1>4, <1>9, <1>10 DEF IInv, RegisterInv
<1>12. LatestInv'
  <2> SUFFICES ASSUME NEW x \in Maps, NEW y \in Numbers, NEW e \in 1..top,
                      DropRegister'[x][y] # 0, drops'[e].map = x, drops'[e].number = y
               PROVE  e <= DropRegister'[x][y]
    BY <1>4 DEF LatestInv, Objects
  <2>1. CASE x = m /\ y = n
    BY <1>4, <1>9, <2>1
  <2>2. CASE ~(x = m /\ y = n)
    <3>1. e # top /\ e \in 1..Len(drops) /\ drops'[e] = drops[e]
      BY <1>4, <2>2
    <3> QED
      BY <1>9, <2>2, <3>1 DEF IInv, LatestInv, Objects
  <2> QED
    BY <2>1, <2>2
<1>13. LootingInv'
  <2> SUFFICES ASSUME NEW c \in Chars, looting[c] # NotLooting
               PROVE /\ looting[c].drop \in 1..top
                     /\ looting[c].number = drops'[looting[c].drop].number
                     /\ drops'[looting[c].drop].item \notin Stackable
                            => bag[c][drops'[looting[c].drop].item] > 0
    BY <1>4, <1>5 DEF LootingInv, Objects, NotLooting
  <2> QED
    BY <1>4 DEF IInv, LootingInv, Objects
<1> QED
  BY <1>8, <1>11, <1>12, <1>13 DEF IInv

----------------------------------------------------------------------------
\* The other steps change neither the map, the number nor the kind of a drop, and
\* only take drops out of the register.
Alike ==
    /\ drops' \in Seq(Drop) /\ Len(drops') = Len(drops)
    /\ \A e \in Objects : /\ drops'[e].map = drops[e].map
                          /\ drops'[e].number = drops[e].number
                          /\ drops'[e].item = drops[e].item
Fewer ==
    /\ DropRegister' \in [Maps -> [Numbers -> 0..Len(drops)]]
    /\ \A m \in Maps, n \in Numbers : DropRegister'[m][n] \in {0, DropRegister[m][n]}

LEMMA RegisterKept ==
  ASSUME IInv, Alike, Fewer PROVE RegisterInv' /\ LatestInv'
<1>1. \A m \in Maps, n \in Numbers : DropRegister[m][n] \in 0..Len(drops) /\ Len(drops) \in Nat
  BY DEF IInv, TypeOK
<1>2. RegisterInv'
  BY <1>1 DEF IInv, RegisterInv, Alike, Fewer, Objects
<1>3. LatestInv'
  BY <1>1 DEF IInv, LatestInv, Alike, Fewer, Objects
<1> QED
  BY <1>2, <1>3

LEMMA SameDrops == ASSUME TypeOK, UNCHANGED drops PROVE Alike
  BY DEF TypeOK, Alike
LEMMA SameRegister == ASSUME TypeOK, UNCHANGED DropRegister PROVE Fewer
  BY DEF TypeOK, Fewer

\* One field of one drop is changed.
LEMMA OneClaimer ==
  ASSUME TypeOK, NEW d \in Objects, drops' = [drops EXCEPT ![d].claimer = NoOne]
  PROVE  Alike
<1>1. Len(drops) \in Nat /\ d \in 1..Len(drops) /\ \A e \in 1..Len(drops) : drops[e] \in Drop
  BY DEF TypeOK, Objects
<1>2. [drops[d] EXCEPT !.claimer = NoOne] \in Drop
  BY <1>1 DEF Drop
<1>3. drops' = [drops EXCEPT ![d] = [drops[d] EXCEPT !.claimer = NoOne]]
  OBVIOUS
<1>4. drops' \in Seq(Drop) /\ Len(drops') = Len(drops)
  BY <1>1, <1>2, <1>3 DEF TypeOK
<1>5. \A e \in 1..Len(drops) :
        drops'[e] = IF e = d THEN [drops[d] EXCEPT !.claimer = NoOne] ELSE drops[e]
  BY <1>1, <1>3 DEF TypeOK
<1> QED
  BY <1>1, <1>4, <1>5 DEF Alike, Objects, Drop

LEMMA OneQuantity ==
  ASSUME TypeOK, NEW d \in Objects, NEW q \in Nat, drops' = [drops EXCEPT ![d].quantity = q]
  PROVE  Alike
<1>1. Len(drops) \in Nat /\ d \in 1..Len(drops) /\ \A e \in 1..Len(drops) : drops[e] \in Drop
  BY DEF TypeOK, Objects
<1>2. [drops[d] EXCEPT !.quantity = q] \in Drop
  BY <1>1 DEF Drop
<1>3. drops' = [drops EXCEPT ![d] = [drops[d] EXCEPT !.quantity = q]]
  OBVIOUS
<1>4. drops' \in Seq(Drop) /\ Len(drops') = Len(drops)
  BY <1>1, <1>2, <1>3 DEF TypeOK
<1>5. \A e \in 1..Len(drops) :
        drops'[e] = IF e = d THEN [drops[d] EXCEPT !.quantity = q] ELSE drops[e]
  BY <1>1, <1>3 DEF TypeOK
<1> QED
  BY <1>1, <1>4, <1>5 DEF Alike, Objects, Drop

\* One number is freed.
LEMMA OneNumber ==
  ASSUME TypeOK, NEW m \in Maps, NEW n \in Numbers,
         DropRegister' = [DropRegister EXCEPT ![m][n] = 0]
  PROVE  /\ Fewer
         /\ \A x \in Maps, y \in Numbers :
              DropRegister'[x][y] # DropRegister[x][y] => x = m /\ y = n
<1> DEFINE R == [Maps -> [Numbers -> 0..Len(drops)]]
<1>1. 0 \in 0..Len(drops)
  BY DEF TypeOK
<1>2. DropRegister \in R
  BY DEF TypeOK
<1>3. \A x \in Maps, y \in Numbers :
        DropRegister'[x][y] = IF x = m /\ y = n THEN 0 ELSE DropRegister[x][y]
  BY <1>2
<1>4. DropRegister' \in R
  BY <1>1, <1>2
<1> QED
  BY <1>3, <1>4 DEF Fewer

\* The bag and the numbers of drops hold natural numbers.
LEMMA Quantities ==
  ASSUME TypeOK
  PROVE  /\ Len(drops) \in Nat
         /\ \A e \in 1..Len(drops) :
              /\ drops[e] \in Drop /\ drops[e].quantity \in Nat /\ drops[e].item \in Items
              /\ drops[e].map \in Maps /\ drops[e].number \in Numbers
         /\ \A c \in Chars, k \in Items : bag[c][k] \in Nat
<1>1. Len(drops) \in Nat /\ \A e \in 1..Len(drops) : drops[e] \in Drop
  BY DEF TypeOK
<1>2. bag \in [Chars -> [Items -> Nat]]
  BY DEF TypeOK
<1> QED
  BY <1>1, <1>2 DEF Drop

\* The rest of the types when the drops stay alike.
LEMMA TypesKept ==
  ASSUME TypeOK, Alike, Fewer,
         Map' \in [Chars -> Maps],
         looting' \in [Chars -> [drop : 0..Len(drops), number : Numbers \cup {0}]],
         freeTimers' \subseteq freeTimers, lifeTimers' \subseteq lifeTimers,
         bag' \in [Chars -> [Items -> Nat]], failures' \in 0..MaxFailures,
         removed' \in [Items -> Nat], raced' \in BOOLEAN
  PROVE  TypeOK'
<1>1. freeTimers' \subseteq Objects' /\ lifeTimers' \subseteq Objects'
  BY DEF TypeOK, Objects, Alike
<1>2. Len(drops') <= MaxDrops
  BY DEF TypeOK, Alike
<1> QED
  BY <1>1, <1>2 DEF TypeOK, Alike, Fewer

LEMMA FreeDropKeeps ==
  ASSUME IInv, NEW d \in Objects, FreeDrop(d) PROVE IInv'
<1>1. TypeOK /\ Alike /\ Fewer
  BY OneClaimer, SameRegister DEF IInv, FreeDrop
<1>2. TypeOK'
  <2>1. raced' \in BOOLEAN
    BY <1>1 DEF FreeDrop, TypeOK
  <2>2. /\ Map' = Map /\ looting' = looting /\ bag' = bag /\ failures' = failures
        /\ removed' = removed /\ lifeTimers' = lifeTimers /\ freeTimers' \subseteq freeTimers
    BY DEF FreeDrop
  <2>3. /\ Map' \in [Chars -> Maps] /\ bag' \in [Chars -> [Items -> Nat]]
        /\ looting' \in [Chars -> [drop : 0..Len(drops), number : Numbers \cup {0}]]
        /\ failures' \in 0..MaxFailures /\ removed' \in [Items -> Nat]
    BY <1>1, <2>2 DEF TypeOK
  <2> QED
    BY <1>1, <2>1, <2>2, <2>3, TypesKept
<1>3. LootingInv'
  BY <1>1 DEF IInv, LootingInv, Alike, FreeDrop, Objects, NotLooting
<1> QED
  BY <1>1, <1>2, <1>3, RegisterKept DEF IInv

LEMMA RemoveDropKeeps ==
  ASSUME IInv, NEW d \in Objects, RemoveDrop(d) PROVE IInv'
<1> DEFINE m == drops[d].map
           n == drops[d].number
<1>1. m \in Maps /\ n \in Numbers
  BY Quantities DEF IInv, Objects
<1>2. TypeOK /\ Alike /\ Fewer
  BY <1>1, OneNumber, SameDrops DEF IInv, RemoveDrop
<1>3. removed' \in [Items -> Nat]
  <2>1. DropRegister[m][n] \in 0..Len(drops)
    BY <1>1, <1>2 DEF TypeOK
  <2>2. Expired(DropRegister[m][n]) \in [Items -> Nat] /\ removed \in [Items -> Nat]
    BY <1>2, <2>1, ExpiredType DEF TypeOK
  <2>3. removed' = [k \in Items |-> removed[k] + Expired(DropRegister[m][n])[k]]
    BY DEF RemoveDrop
  <2> QED
    BY <2>2, <2>3
<1>4. TypeOK'
  <2>1. raced' \in BOOLEAN
    BY <1>2 DEF RemoveDrop, TypeOK
  <2>2. /\ Map' = Map /\ looting' = looting /\ bag' = bag /\ failures' = failures
        /\ freeTimers' = freeTimers /\ lifeTimers' \subseteq lifeTimers
    BY DEF RemoveDrop
  <2>3. /\ Map' \in [Chars -> Maps] /\ bag' \in [Chars -> [Items -> Nat]]
        /\ looting' \in [Chars -> [drop : 0..Len(drops), number : Numbers \cup {0}]]
        /\ failures' \in 0..MaxFailures
    BY <1>2, <2>2 DEF TypeOK
  <2> QED
    BY <1>2, <1>3, <2>1, <2>2, <2>3, TypesKept
<1>5. LootingInv'
  BY DEF IInv, LootingInv, RemoveDrop, Objects, NotLooting
<1> QED
  BY <1>2, <1>4, <1>5, RegisterKept DEF IInv

LEMMA ChangeMapKeeps ==
  ASSUME IInv, NEW c \in Chars, NEW m \in Maps, ChangeMap(c, m) PROVE IInv'
<1>1. TypeOK /\ Alike /\ Fewer
  BY SameDrops, SameRegister DEF IInv, ChangeMap
<1>2. TypeOK'
  <2>1. raced' \in BOOLEAN
    BY DEF ChangeMap
  <2>2. /\ looting' = looting /\ bag' = bag /\ failures' = failures
        /\ removed' = removed /\ freeTimers' = freeTimers /\ lifeTimers' = lifeTimers
    BY DEF ChangeMap
  <2>3. /\ bag' \in [Chars -> [Items -> Nat]]
        /\ looting' \in [Chars -> [drop : 0..Len(drops), number : Numbers \cup {0}]]
        /\ failures' \in 0..MaxFailures /\ removed' \in [Items -> Nat]
    BY <1>1, <2>2 DEF TypeOK
  <2>4. Map' \in [Chars -> Maps]
    BY <1>1 DEF TypeOK, ChangeMap
  <2> QED
    BY <1>1, <2>1, <2>2, <2>3, <2>4, TypesKept
<1>3. LootingInv'
  BY DEF IInv, LootingInv, ChangeMap, Objects, NotLooting
<1> QED
  BY <1>1, <1>2, <1>3, RegisterKept DEF IInv

\* Nobody's pieces of a kind that does not stack become fewer.
LEMMA LootKeeps ==
  ASSUME IInv, NEW c \in Chars, NEW n \in Numbers, Loot(c, n) PROVE IInv'
<1> DEFINE d == DropRegister[Map[c]][n]
           item == drops[d].item
           q == drops[d].quantity + (IF Stacks(c, item) THEN bag[c][item] ELSE 0)
<1>1. Map[c] \in Maps /\ d \in 1..Len(drops) /\ Len(drops) \in Nat
  BY DEF IInv, TypeOK, Loot
<1>2. /\ item \in Items /\ drops[d].quantity \in Nat /\ bag[c][item] \in Nat
      /\ drops[d].number = n /\ drops[d].map = Map[c]
  BY <1>1, Quantities DEF IInv, RegisterInv
<1>3. q \in Nat
  BY <1>2
<1>4. /\ looting' = [looting EXCEPT ![c] = [drop |-> d, number |-> n]]
      /\ drops' = [drops EXCEPT ![d].quantity = q]
      /\ bag' = [bag EXCEPT ![c][item] = IF item \in Stackable THEN q ELSE @ + 1]
      /\ UNCHANGED <<Map, DropRegister, freeTimers, lifeTimers, failures, removed>>
  BY DEF Loot
<1>5. TypeOK /\ Alike /\ Fewer
  BY <1>1, <1>3, <1>4, OneQuantity, SameRegister DEF IInv, Objects
<1>6. bag \in [Chars -> [Items -> Nat]] /\ bag' \in [Chars -> [Items -> Nat]]
  <2>1. bag \in [Chars -> [Items -> Nat]]
    BY <1>5 DEF TypeOK
  <2> DEFINE v == IF item \in Stackable THEN q ELSE bag[c][item] + 1
  <2>2. v \in Nat
    BY <1>2, <1>3
  <2>3. bag' = [bag EXCEPT ![c] = [bag[c] EXCEPT ![item] = v]]
    BY <1>4
  <2>4. [bag[c] EXCEPT ![item] = v] \in [Items -> Nat]
    BY <2>1, <2>2
  <2> QED
    BY <2>1, <2>3, <2>4
<1>7. looting' \in [Chars -> [drop : 0..Len(drops), number : Numbers \cup {0}]]
  BY <1>1, <1>4, <1>5 DEF TypeOK
<1>8. TypeOK'
  <2>1. raced' \in BOOLEAN
    BY DEF Loot
  <2>2. /\ Map' \in [Chars -> Maps] /\ failures' \in 0..MaxFailures /\ removed' \in [Items -> Nat]
    BY <1>4, <1>5 DEF TypeOK
  <2>3. freeTimers' = freeTimers /\ lifeTimers' = lifeTimers
    BY <1>4
  <2> QED
    BY <1>5, <1>6, <1>7, <2>1, <2>2, <2>3, TypesKept
<1>9. LootingInv'
  <2> SUFFICES ASSUME NEW x \in Chars, looting'[x] # NotLooting
               PROVE  /\ looting'[x].drop \in Objects
                      /\ looting'[x].number = drops[looting'[x].drop].number
                      /\ drops[looting'[x].drop].item \notin Stackable
                             => bag'[x][drops[looting'[x].drop].item] > 0
    BY <1>5 DEF LootingInv, Alike, Objects, NotLooting
  <2>1. CASE x = c
    <3>1. looting'[c] = [drop |-> d, number |-> n]
      BY <1>4, <1>5 DEF TypeOK
    <3>2. item \notin Stackable => bag'[c][item] = bag[c][item] + 1
      BY <1>2, <1>4, <1>6
    <3> QED
      BY <1>1, <1>2, <2>1, <3>1, <3>2 DEF Objects
  <2>2. CASE x # c
    BY <1>4, <1>5, <1>6, <2>2 DEF IInv, LootingInv, TypeOK
  <2> QED
    BY <2>1, <2>2
<1> QED
  BY <1>5, <1>8, <1>9, RegisterKept DEF IInv

\* Picking up ends: the number is one of the drops', on the map of the character.
LEMMA NumberFreed ==
  ASSUME IInv, NEW c \in Chars, looting[c] # NotLooting, RemoveFromDropRegister(c)
  PROVE  /\ Map[c] \in Maps /\ looting[c].number \in Numbers
         /\ looting[c].drop \in Objects
         /\ Fewer
         /\ \A x \in Maps, y \in Numbers :
              DropRegister'[x][y] # DropRegister[x][y] => x = Map[c] /\ y = looting[c].number
<1>1. Map[c] \in Maps
  BY DEF IInv, TypeOK
<1>2. looting[c].drop \in Objects /\ looting[c].number = drops[looting[c].drop].number
  BY DEF IInv, LootingInv
<1>3. looting[c].number \in Numbers
  BY <1>2, Quantities DEF IInv, Objects
<1> QED
  BY <1>1, <1>2, <1>3, OneNumber DEF IInv, RemoveFromDropRegister

LEMMA LootedKeeps ==
  ASSUME IInv, NEW c \in Chars, Looted(c) PROVE IInv'
<1>1. TypeOK /\ Alike /\ Fewer
  BY NumberFreed, SameDrops DEF IInv, Looted
<1>2. looting' = [looting EXCEPT ![c] = NotLooting] /\ UNCHANGED <<drops, bag>>
  BY DEF Looted
<1>3. TypeOK'
  <2>1. raced' \in BOOLEAN
    BY DEF Looted
  <2>2. /\ Map' = Map /\ bag' = bag /\ failures' = failures
        /\ removed' = removed /\ freeTimers' = freeTimers /\ lifeTimers' = lifeTimers
    BY DEF Looted
  <2>3. /\ bag' \in [Chars -> [Items -> Nat]] /\ Map' \in [Chars -> Maps]
        /\ failures' \in 0..MaxFailures /\ removed' \in [Items -> Nat]
    BY <1>1, <2>2 DEF TypeOK
  <2>4. looting' \in [Chars -> [drop : 0..Len(drops), number : Numbers \cup {0}]]
    <3>1. NotLooting \in [drop : 0..Len(drops), number : Numbers \cup {0}]
      BY <1>1 DEF TypeOK, NotLooting
    <3> QED
      BY <1>1, <1>2, <3>1 DEF TypeOK
  <2> QED
    BY <1>1, <2>1, <2>2, <2>3, <2>4, TypesKept
<1>4. LootingInv'
  BY <1>1, <1>2 DEF IInv, LootingInv, TypeOK, Objects, NotLooting
<1> QED
  BY <1>1, <1>3, <1>4, RegisterKept DEF IInv

LEMMA LootFailedKeeps ==
  ASSUME IInv, NEW c \in Chars, LootFailed(c) PROVE IInv'
<1> DEFINE item == drops[looting[c].drop].item
           v == IF item \in Stackable THEN 0 ELSE bag[c][item] - 1
<1>1. TypeOK /\ Alike /\ Fewer
  BY NumberFreed, SameDrops DEF IInv, LootFailed
<1>2. looting' = [looting EXCEPT ![c] = NotLooting] /\ bag' = EmptySlot(c) /\ drops' = drops
  BY DEF LootFailed
<1>3. looting[c].drop \in Objects /\ (item \notin Stackable => bag[c][item] > 0)
  BY DEF IInv, LootingInv, LootFailed
<1>4. item \in Items /\ bag[c][item] \in Nat
  BY <1>3, Quantities DEF IInv, Objects
<1>5. v \in Nat
  BY <1>3, <1>4
<1>6. bag \in [Chars -> [Items -> Nat]]
  BY <1>1 DEF TypeOK
<1>7. bag' = [bag EXCEPT ![c] = [bag[c] EXCEPT ![item] = v]]
  BY <1>2 DEF EmptySlot
<1>8. bag' \in [Chars -> [Items -> Nat]]
  <2>1. [bag[c] EXCEPT ![item] = v] \in [Items -> Nat]
    BY <1>5, <1>6
  <2> QED
    BY <1>6, <1>7, <2>1
<1>9. TypeOK'
  <2>1. raced' \in BOOLEAN
    BY DEF LootFailed
  <2>2. /\ Map' = Map /\ removed' = removed
        /\ freeTimers' = freeTimers /\ lifeTimers' = lifeTimers
    BY DEF LootFailed
  <2>3. Map' \in [Chars -> Maps] /\ removed' \in [Items -> Nat]
    BY <1>1, <2>2 DEF TypeOK
  <2>4. looting' \in [Chars -> [drop : 0..Len(drops), number : Numbers \cup {0}]]
    <3>1. NotLooting \in [drop : 0..Len(drops), number : Numbers \cup {0}]
      BY <1>1 DEF TypeOK, NotLooting
    <3> QED
      BY <1>1, <1>2, <3>1 DEF TypeOK
  <2>5. failures' \in 0..MaxFailures
    BY <1>1, DropsAssumption DEF TypeOK, LootFailed
  <2> QED
    BY <1>1, <1>8, <2>1, <2>2, <2>3, <2>4, <2>5, TypesKept
<1>10. \A x \in Chars : x # c => bag'[x] = bag[x] /\ looting'[x] = looting[x]
  BY <1>1, <1>2, <1>6, <1>7 DEF TypeOK
<1>11. looting'[c] = NotLooting
  BY <1>1, <1>2 DEF TypeOK
<1>12. LootingInv'
  BY <1>2, <1>10, <1>11 DEF IInv, LootingInv, Objects, NotLooting
<1> QED
  BY <1>1, <1>9, <1>12, RegisterKept DEF IInv

LEMMA NextInv == IInv /\ [Next]_vars => IInv'
<1> SUFFICES ASSUME IInv, [Next]_vars PROVE IInv'
  OBVIOUS
<1>1. CASE \E c \in Killers, m \in Maps, item \in Items : DropHandler(c, m, item)
  BY <1>1, DropHandlerKeeps
<1>2. CASE \E d \in Objects : FreeDrop(d) \/ RemoveDrop(d)
  BY <1>2, FreeDropKeeps, RemoveDropKeeps
<1>3. CASE \E c \in Chars, n \in Numbers : Loot(c, n)
  BY <1>3, LootKeeps
<1>4. CASE \E c \in Chars : Looted(c) \/ LootFailed(c)
  BY <1>4, LootedKeeps, LootFailedKeeps
<1>5. CASE \E c \in Chars, m \in Maps : ChangeMap(c, m)
  BY <1>5, ChangeMapKeeps
<1>6. CASE UNCHANGED vars
  BY <1>6 DEF vars, IInv, TypeOK, RegisterInv, LatestInv, LootingInv, Objects, NotLooting
<1> QED
  BY <1>1, <1>2, <1>3, <1>4, <1>5, <1>6 DEF Next

\* Drops keep their types: with any characters, maps, numbers and kinds, however
\* timers, lootings, failed writes and map changes meet, no quantity of a bag
\* falls below zero and the register names drops that were made.
THEOREM TypeCorrect == Spec => []TypeOK
<1>1. IInv => TypeOK
  BY DEF IInv
<1> QED
  BY <1>1, InitInv, NextInv, PTL DEF Spec

----------------------------------------------------------------------------
\* What TakenOrExpired says of one drop.
Accounted(d) ==
    \/ d \in lifeTimers \ lifeTimers'
    \/ InFlight(d)
    \/ \E e \in 1..d - 1 : /\ drops[e].map = drops[d].map
                           /\ drops[e].number = drops[d].number
                           /\ e \in lifeTimers \/ InFlight(e)
    \/ \E c \in Chars : /\ looting[c].number = drops[d].number
                        /\ drops[looting[c].drop].map # Map[c]

\* A timer takes its own drop or one that is younger.
LEMMA RemoveDropAccounts ==
  ASSUME IInv, NEW e \in Objects, RemoveDrop(e), NEW d \in Objects, Registered(d),
         DropRegister'[drops[d].map][drops[d].number] # d
  PROVE  Accounted(d)
<1> DEFINE m == drops[e].map
           n == drops[e].number
<1>1. /\ m \in Maps /\ n \in Numbers /\ drops[d].map \in Maps /\ drops[d].number \in Numbers
      /\ Len(drops) \in Nat
  BY Quantities DEF IInv, Objects
<1>2. drops[d].map = m /\ drops[d].number = n
  BY <1>1, OneNumber DEF IInv, RemoveDrop, Registered
<1>3. e <= d
  BY <1>1, <1>2 DEF IInv, LatestInv, Registered, Objects
<1>4. e \in lifeTimers /\ lifeTimers' = lifeTimers \ {e}
  BY DEF RemoveDrop
<1>5. e = d \/ e \in 1..d - 1
  BY <1>1, <1>3 DEF Objects
<1> QED
  BY <1>2, <1>4, <1>5 DEF Accounted

\* Who has picked up takes his drop, one that is younger, or is on another map.
LEMMA LooterAccounts ==
  ASSUME IInv, NEW c \in Chars, looting[c] # NotLooting, RemoveFromDropRegister(c),
         NEW d \in Objects, Registered(d),
         DropRegister'[drops[d].map][drops[d].number] # d
  PROVE  Accounted(d)
<1> DEFINE e == looting[c].drop
<1>1. /\ drops[d].map \in Maps /\ drops[d].number \in Numbers /\ Len(drops) \in Nat
  BY Quantities DEF IInv, Objects
<1>2. /\ drops[d].map = Map[c] /\ drops[d].number = looting[c].number
      /\ e \in Objects
  BY <1>1, NumberFreed DEF Registered
<1>3. looting[c].number = drops[e].number
  BY DEF IInv, LootingInv
<1>4. CASE drops[e].map # Map[c]
  BY <1>2, <1>4 DEF Accounted
<1>5. CASE drops[e].map = Map[c]
  <2>1. e <= d
    BY <1>1, <1>2, <1>3, <1>5 DEF IInv, LatestInv, Registered, Objects
  <2>2. e = d \/ e \in 1..d - 1
    BY <1>1, <1>2, <2>1 DEF Objects
  <2>3. InFlight(e)
    BY DEF InFlight
  <2> QED
    BY <1>2, <1>3, <1>5, <2>2, <2>3 DEF Accounted
<1> QED
  BY <1>4, <1>5

LEMMA NextAccounts ==
  ASSUME IInv, [Next]_vars, NEW d \in Objects, Registered(d),
         DropRegister'[drops[d].map][drops[d].number] # d
  PROVE  Accounted(d)
<1>1. ~UNCHANGED DropRegister
  BY DEF Registered
<1>2. CASE \E c \in Killers, m \in Maps, item \in Items : DropHandler(c, m, item)
  <2>1. PICK c \in Killers, m \in Maps, item \in Items : DropHandler(c, m, item)
    BY <1>2
  <2>2. PICK n \in FreeNumbers(m) : DropRegister' = [DropRegister EXCEPT ![m][n] = Len(drops) + 1]
    BY <2>1 DEF DropHandler
  <2>3. drops[d].map \in Maps /\ drops[d].number \in Numbers /\ d # 0
    BY Quantities DEF IInv, Objects
  <2>4. ~(drops[d].map = m /\ drops[d].number = n)
    BY <2>3 DEF FreeNumbers, Registered
  <2>5. DropRegister'[drops[d].map][drops[d].number] = d
    BY <2>2, <2>3, <2>4 DEF IInv, TypeOK, Registered
  <2> QED
    BY <2>5
<1>3. CASE \E e \in Objects : FreeDrop(e) \/ RemoveDrop(e)
  BY <1>1, <1>3, RemoveDropAccounts DEF FreeDrop
<1>4. CASE \E c \in Chars, n \in Numbers : Loot(c, n)
  BY <1>1, <1>4 DEF Loot
<1>5. CASE \E c \in Chars : Looted(c) \/ LootFailed(c)
  BY <1>5, LooterAccounts DEF Looted, LootFailed
<1>6. CASE \E c \in Chars, m \in Maps : ChangeMap(c, m)
  BY <1>1, <1>6 DEF ChangeMap
<1> QED
  BY <1>1, <1>2, <1>3, <1>4, <1>5, <1>6 DEF Next, vars

\* A drop leaves the ground only when its own lifetime is over or somebody picks
\* it up, unless an older drop had its number or a character left the map of the
\* drop he was picking up: whatever the number of characters, maps and drops.
THEOREM NothingDisappears == Spec => TakenOrExpired
<1>1. IInv /\ [Next]_vars =>
        [\A d \in Objects :
            Registered(d) /\ DropRegister'[drops[d].map][drops[d].number] # d => Accounted(d)]_vars
  BY NextAccounts
<1>2. Spec => [][\A d \in Objects :
            Registered(d) /\ DropRegister'[drops[d].map][drops[d].number] # d => Accounted(d)]_vars
  BY <1>1, InitInv, NextInv, PTL DEF Spec
<1> QED
  BY <1>2 DEF TakenOrExpired, Accounted
----------------------------------------------------------------------------
(* Conservation.  While nobody raced, a drop is picked up by one character  *)
(* at most, who is on its map, and what is registered and not being picked  *)
(* up still has the quantity it was made with.                              *)

\* Who picks up is on the map of the drop and the only one who picks it up.
AloneInv ==
    \A c \in Chars : looting[c] # NotLooting =>
        /\ drops[looting[c].drop].map = Map[c]
        /\ \A x \in Chars : looting[x].drop = looting[c].drop => x = c
\* What lies on the ground has never been picked up.
FreshInv == \A d \in Objects : Registered(d) /\ ~InFlight(d) => drops[d].quantity = 1
Balanced ==
    \A k \in Items : IF failures = 0 THEN Held(k) + Ground(k) + removed[k] = Made(k)
                     ELSE Held(k) + Ground(k) + removed[k] <= Made(k)
FairInv == ~raced => AloneInv /\ FreshInv /\ Balanced

\* What a drop adds to the ground.
Weight(d, k) ==
    IF Registered(d) /\ ~InFlight(d) /\ drops[d].item = k THEN drops[d].quantity ELSE 0

LEMMA GroundOf == ASSUME NEW k PROVE Ground(k) = SumFunctionOnSet([d \in Objects |-> Weight(d, k)], Objects)
  BY DEF Ground, Weight, SumFunction

\* There are finitely many drops, of natural weights.
LEMMA WeightType ==
  ASSUME TypeOK, NEW k
  PROVE  /\ IsFiniteSet(Objects) /\ Len(drops) \in Nat
         /\ \A d \in Objects : Weight(d, k) \in Nat
<1>1. Len(drops) \in Nat /\ \A d \in Objects : drops[d].quantity \in Nat
  BY Quantities DEF Objects
<1>2. IsFiniteSet(Objects)
  BY <1>1, FS_Interval DEF Objects
<1> QED
  BY <1>1, <1>2 DEF Weight

\* The ground when one drop at most changes its weight.
LEMMA GroundChange ==
  ASSUME TypeOK, TypeOK', Len(drops') = Len(drops), NEW d \in Objects, NEW k,
         \A e \in Objects \ {d} : Weight(e, k)' = Weight(e, k)
  PROVE  /\ Ground(k) \in Int /\ Ground(k)' \in Int /\ Weight(d, k) \in Nat
         /\ Ground(k)' = (Ground(k) - Weight(d, k)) + Weight(d, k)'
<1>1. Objects' = Objects
  BY DEF Objects
<1>2. PICK f : f = [e \in Objects |-> Weight(e, k)]
  OBVIOUS
<1>3. PICK g : g = [e \in Objects |-> Weight(e, k)']
  OBVIOUS
<1>4. Ground(k) = SumFunctionOnSet(f, Objects) /\ Ground(k)' = SumFunctionOnSet(g, Objects)
  <2>1. Ground(k)' = SumFunctionOnSet([e \in Objects |-> Weight(e, k)], Objects)'
    BY DEF Ground, Weight, SumFunction
  <2> QED
    BY <1>1, <1>2, <1>3, <2>1, GroundOf
<1>5. IsFiniteSet(Objects) /\ \A e \in Objects : Weight(e, k) \in Nat
  BY WeightType
<1>6. \A e \in Objects : Weight(e, k)' \in Nat
  <2>1. \A e \in Objects : drops'[e].quantity \in Nat
    <3>1. drops' \in Seq(Drop)
      BY DEF TypeOK
    <3>2. \A e \in 1..Len(drops) : drops'[e] \in Drop
      BY <3>1
    <3> QED
      BY <3>2 DEF Objects, Drop
  <2> QED
    BY <2>1 DEF Weight
<1>7. /\ \A e \in Objects : f[e] \in Int /\ g[e] \in Int
      /\ \A e \in Objects \ {d} : f[e] = g[e]
      /\ f[d] = Weight(d, k) /\ g[d] = Weight(d, k)'
  BY <1>2, <1>3, <1>5, <1>6
<1>8. /\ SumFunctionOnSet(f, Objects) \in Int /\ SumFunctionOnSet(g, Objects) \in Int
      /\ SumFunctionOnSet(g, Objects) = (SumFunctionOnSet(f, Objects) - f[d]) + g[d]
  <2>1. PICK S : S = Objects
    OBVIOUS
  <2>2. IsFiniteSet(S) /\ d \in S
    BY <1>5, <2>1
  <2>3. /\ \A e \in S : f[e] \in Int /\ g[e] \in Int
        /\ \A e \in S \ {d} : f[e] = g[e]
    BY <1>7, <2>1
  <2>4. /\ SumFunctionOnSet(f, S) \in Int /\ SumFunctionOnSet(g, S) \in Int
        /\ SumFunctionOnSet(g, S) = (SumFunctionOnSet(f, S) - f[d]) + g[d]
    BY <2>2, <2>3, SumChange
  <2> QED
    BY <2>1, <2>4
<1> QED
  BY <1>4, <1>5, <1>7, <1>8

\* The ground when no drop changes its weight.
LEMMA GroundSame ==
  ASSUME TypeOK, Len(drops') = Len(drops), NEW k,
         \A e \in Objects : Weight(e, k)' = Weight(e, k)
  PROVE  Ground(k)' = Ground(k)
<1>1. Objects' = Objects
  BY DEF Objects
<1>2. PICK f : f = [e \in Objects |-> Weight(e, k)]
  OBVIOUS
<1>3. PICK g : g = [e \in Objects |-> Weight(e, k)']
  OBVIOUS
<1>4. f = g
  BY <1>2, <1>3
<1>5. Ground(k)' = SumFunctionOnSet([e \in Objects |-> Weight(e, k)], Objects)'
  BY DEF Ground, Weight, SumFunction
<1> QED
  BY <1>1, <1>2, <1>3, <1>4, <1>5, GroundOf

\* What the bags hold when one of them changes.
LEMMA HeldChange ==
  ASSUME TypeOK, TypeOK', NEW k \in Items, NEW c \in Chars,
         \A x \in Chars \ {c} : bag'[x][k] = bag[x][k]
  PROVE  /\ Held(k) \in Nat /\ Held(k)' \in Nat /\ bag[c][k] \in Nat /\ bag'[c][k] \in Nat
         /\ Held(k)' = (Held(k) - bag[c][k]) + bag'[c][k]
<1>1. PICK f : f = [x \in Chars |-> bag[x][k]]
  OBVIOUS
<1>2. PICK g : g = [x \in Chars |-> bag'[x][k]]
  OBVIOUS
<1>3. f \in [Chars -> Nat] /\ g \in [Chars -> Nat]
  BY <1>1, <1>2 DEF TypeOK
<1>4. \A x \in Chars \ {c} : f[x] = g[x]
  BY <1>1, <1>2
<1>5. IsFiniteSet(Chars)
  BY DropsAssumption
<1>6. SumFunction(g) = (SumFunction(f) - f[c]) + g[c] /\ SumFunction(f) \in Nat /\ SumFunction(g) \in Nat
  BY <1>3, <1>4, <1>5, OneTerm, SumOverAll
<1>7. Held(k) = SumFunction(f) /\ Held(k)' = SumFunction(g)
  BY <1>1, <1>2 DEF Held
<1>8. f[c] = bag[c][k] /\ g[c] = bag'[c][k] /\ f[c] \in Nat /\ g[c] \in Nat
  BY <1>1, <1>2, <1>3
<1> QED
  BY <1>6, <1>7, <1>8

LEMMA HeldSame == ASSUME NEW k, UNCHANGED bag PROVE Held(k)' = Held(k)
  BY DEF Held

\* Alike drops were made of the same kinds.
LEMMA MadeSame == ASSUME Alike, NEW k PROVE Made(k)' = Made(k)
<1>1. Objects' = Objects
  BY DEF Alike, Objects
<1>2. {d \in Objects : drops[d].item = k}' = {d \in Objects : drops[d].item = k}
  BY <1>1 DEF Alike
<1> QED
  BY <1>2 DEF Made

\* How many of a kind were made is a number.
LEMMA MadeType == ASSUME TypeOK, NEW k PROVE Made(k) \in Nat
<1>1. IsFiniteSet(Objects)
  BY WeightType
<1>2. IsFiniteSet({d \in Objects : drops[d].item = k})
  BY <1>1, FS_Subset
<1> QED
  BY <1>2, FS_CardinalityType DEF Made

LEMMA InitFair == Init => FairInv
<1> SUFFICES ASSUME Init PROVE AloneInv /\ FreshInv /\ Balanced
  BY DEF FairInv
<1>1. TypeOK
  BY InitInv DEF IInv
<1>2. Objects = {}
  BY DEF Init, Objects
<1>3. AloneInv /\ FreshInv
  BY <1>2 DEF Init, AloneInv, FreshInv
<1>4. Balanced
  <2> SUFFICES ASSUME NEW k \in Items PROVE Held(k) + Ground(k) + removed[k] = Made(k)
    BY DEF Balanced, Init
  <2>1. Made(k) = 0
    BY <1>2, FS_EmptySet DEF Made
  <2>2. Ground(k) = 0
    BY <1>2, GroundOf, SumOfNone
  <2>3. Held(k) = 0
    <3>1. PICK f : f = [c \in Chars |-> bag[c][k]]
      OBVIOUS
    <3>2. \A c \in Chars : f[c] = 0
      BY <3>1 DEF Init
    <3>3. SumFunctionOnSet(f, Chars) = 0
      BY <3>2, DropsAssumption, SumOfZeros
    <3> QED
      BY <3>1, <3>3 DEF Held, SumFunction
  <2>4. removed[k] = 0
    BY DEF Init
  <2> QED
    BY <2>1, <2>2, <2>3, <2>4
<1> QED
  BY <1>3, <1>4

\* A new drop lies on the ground.
LEMMA DropHandlerFair ==
  ASSUME IInv, IInv', FairInv, NEW c \in Killers, NEW m \in Maps, NEW item \in Items,
         DropHandler(c, m, item), ~raced
  PROVE  AloneInv' /\ FreshInv' /\ Balanced'
<1>1. PICK top : top = Len(drops) + 1
  OBVIOUS
<1>2. PICK n \in FreeNumbers(m) :
        /\ drops' = Append(drops, [map |-> m, number |-> n, item |-> item, quantity |-> 1,
                                   claimer |-> Claimer(c), killer |-> c])
        /\ DropRegister' = [DropRegister EXCEPT ![m][n] = top]
  BY <1>1 DEF DropHandler
<1>3. n \in Numbers /\ DropRegister[m][n] = 0
  BY <1>2 DEF FreeNumbers
<1>4. PICK new : new = [map |-> m, number |-> n, item |-> item, quantity |-> 1,
                        claimer |-> Claimer(c), killer |-> c]
  OBVIOUS
<1>5. new \in Drop /\ drops' = Append(drops, new)
  BY <1>2, <1>3, <1>4, DropsAssumption DEF Drop, Claimer
<1>6. /\ Len(drops) \in Nat /\ Len(drops') = top /\ drops'[top] = new
      /\ \A e \in Objects : drops'[e] = drops[e] /\ e # top
  BY <1>1, <1>5 DEF IInv, TypeOK, Objects
<1>7. Objects = 1..Len(drops) /\ Objects' = 1..top /\ top \in Objects'
  BY <1>1, <1>6 DEF Objects
<1>8. Objects' = Objects \cup {top} /\ top \notin Objects
  BY <1>1, <1>6, <1>7
<1>9. UNCHANGED <<Map, looting, bag, failures, removed, raced>>
  BY DEF DropHandler
<1>10. \A x \in Chars : looting[x].drop # top
  BY <1>1, <1>6 DEF IInv, TypeOK
<1>11. \A x \in Maps, y \in Numbers :
         DropRegister'[x][y] = IF x = m /\ y = n THEN top ELSE DropRegister[x][y]
  BY <1>2, <1>3 DEF IInv, TypeOK
<1>12. \A e \in Objects : drops[e].map \in Maps /\ drops[e].number \in Numbers
  BY Quantities DEF IInv, Objects
<1>13. \A e \in Objects : Registered(e)' <=> Registered(e)
  BY <1>3, <1>6, <1>7, <1>11, <1>12 DEF Registered
<1>14. \A e \in Nat : InFlight(e)' <=> InFlight(e)
  BY <1>9 DEF InFlight
<1>15. Registered(top)' /\ ~InFlight(top)'
  BY <1>3, <1>4, <1>6, <1>9, <1>10, <1>11 DEF Registered, InFlight
<1>16. AloneInv'
  <2>1. AloneInv
    BY DEF FairInv
  <2> QED
    BY <1>6, <1>9, <2>1 DEF AloneInv, IInv, LootingInv, NotLooting
<1>17. FreshInv'
  <2>1. FreshInv
    BY DEF FairInv
  <2>2. drops'[top].quantity = 1
    BY <1>4, <1>6
  <2> QED
    BY <1>6, <1>7, <1>8, <1>13, <1>14, <2>1, <2>2 DEF FreshInv
<1>18. Balanced'
  <2> SUFFICES ASSUME NEW k \in Items
               PROVE  IF failures' = 0 THEN Held(k)' + Ground(k)' + removed'[k] = Made(k)'
                      ELSE Held(k)' + Ground(k)' + removed'[k] <= Made(k)'
    BY DEF Balanced
  <2>1. PICK one : one = IF item = k THEN 1 ELSE 0
    OBVIOUS
  <2>2. Ground(k)' = one + Ground(k) /\ Ground(k) \in Nat
    <3>1. PICK f : f = [e \in Objects |-> Weight(e, k)]
      OBVIOUS
    <3>2. PICK g : g = [e \in Objects' |-> Weight(e, k)']
      OBVIOUS
    <3>3. Ground(k) = SumFunctionOnSet(f, Objects)
      BY <3>1, GroundOf
    <3>4. Ground(k)' = SumFunctionOnSet(g, Objects')
      <4>1. Ground(k)' = SumFunctionOnSet([e \in Objects |-> Weight(e, k)], Objects)'
        BY DEF Ground, Weight, SumFunction
      <4> QED
        BY <3>2, <4>1
    <3>5. \A e \in Objects : Weight(e, k)' = Weight(e, k) /\ Weight(e, k) \in Nat
      <4>1. \A e \in Objects : Weight(e, k)' = Weight(e, k)
        BY <1>6, <1>7, <1>13, <1>14 DEF Weight
      <4> QED
        BY <4>1, WeightType DEF IInv
    <3>6. Weight(top, k)' = one
      BY <1>4, <1>6, <1>15, <2>1 DEF Weight
    <3>7. \A e \in Objects' : g[e] \in Nat
      BY <1>8, <2>1, <3>2, <3>5, <3>6
    <3>8. IsFiniteSet(Objects') /\ IsFiniteSet(Objects) /\ top \in Objects'
      <4>1. IsFiniteSet(Objects)
        BY WeightType DEF IInv
      <4>2. IsFiniteSet(Objects \cup {top})
        BY <4>1, FS_AddElement
      <4> QED
        BY <1>7, <1>8, <4>1, <4>2
    <3>9. SumFunctionOnSet(g, Objects') = g[top] + SumFunctionOnSet(g, Objects' \ {top})
      BY <3>7, <3>8, SumSplit
    <3>10. Objects' \ {top} = Objects
      BY <1>8
    <3>11. SumFunctionOnSet(f, Objects) = SumFunctionOnSet(g, Objects)
      <4>1. \A e \in Objects : f[e] = g[e]
        BY <1>8, <3>1, <3>2, <3>5
      <4> QED
        BY <3>8, <4>1, SumAgrees
    <3>12. SumFunctionOnSet(f, Objects) \in Nat
      BY <3>1, <3>5, <3>8, SumCovers
    <3> QED
      BY <1>8, <3>2, <3>3, <3>4, <3>6, <3>9, <3>10, <3>11, <3>12
  <2>3. Made(k)' = Made(k) + one /\ Made(k) \in Nat
    <3>1. PICK A : A = {e \in Objects : drops[e].item = k}
      OBVIOUS
    <3>2. PICK B : B = {e \in Objects' : drops'[e].item = k}
      OBVIOUS
    <3>3. IsFiniteSet(Objects) /\ A \subseteq Objects /\ top \notin A
      BY <1>8, <3>1, WeightType DEF IInv
    <3>4. IsFiniteSet(A)
      BY <3>3, FS_Subset
    <3>5. B = IF item = k THEN A \cup {top} ELSE A
      BY <1>4, <1>6, <1>8, <3>1, <3>2
    <3>6. Cardinality(B) = Cardinality(A) + one /\ Cardinality(A) \in Nat
      <4>1. Cardinality(A) \in Nat /\ Cardinality(A \cup {top}) = Cardinality(A) + 1
        BY <3>3, <3>4, FS_AddElement, FS_CardinalityType
      <4> QED
        BY <2>1, <3>5, <4>1
    <3> QED
      BY <3>1, <3>2, <3>6 DEF Made
  <2>4. Held(k)' = Held(k) /\ Held(k) \in Nat
    <3>1. PICK f : f = [x \in Chars |-> bag[x][k]]
      OBVIOUS
    <3>2. f \in [Chars -> Nat]
      BY <3>1 DEF IInv, TypeOK
    <3>3. SumFunction(f) \in Nat
      BY <3>2, DropsAssumption, SumOverAll
    <3> QED
      BY <1>9, <3>1, <3>3, HeldSame DEF Held
  <2>5. one \in Nat /\ removed[k] \in Nat /\ removed' = removed /\ failures' = failures
    BY <1>9, <2>1 DEF IInv, TypeOK
  <2>6. IF failures = 0 THEN Held(k) + Ground(k) + removed[k] = Made(k)
        ELSE Held(k) + Ground(k) + removed[k] <= Made(k)
    BY DEF FairInv, Balanced
  <2> QED
    BY <2>2, <2>3, <2>4, <2>5, <2>6
<1> QED
  BY <1>16, <1>17, <1>18

\* The balance in words of the step.
LEMMA StillBalanced ==
  ASSUME Balanced, Alike,
         \A k \in Items :
            /\ Held(k) \in Int /\ Ground(k) \in Int /\ removed[k] \in Int
            /\ Held(k)' \in Int /\ Ground(k)' \in Int /\ removed'[k] \in Int
            /\ IF failures' = failures
               THEN Held(k)' + Ground(k)' + removed'[k] = Held(k) + Ground(k) + removed[k]
               ELSE failures' # 0 /\ Held(k)' + Ground(k)' + removed'[k] <= Held(k) + Ground(k) + removed[k],
         TypeOK
  PROVE  Balanced'
<1> SUFFICES ASSUME NEW k \in Items
             PROVE  IF failures' = 0 THEN Held(k)' + Ground(k)' + removed'[k] = Made(k)'
                    ELSE Held(k)' + Ground(k)' + removed'[k] <= Made(k)'
  BY DEF Balanced
<1>1. Made(k)' = Made(k) /\ Made(k) \in Nat
  BY MadeSame, MadeType
<1>2. IF failures = 0 THEN Held(k) + Ground(k) + removed[k] = Made(k)
      ELSE Held(k) + Ground(k) + removed[k] <= Made(k)
  BY DEF Balanced
<1>3. PICK a, b : a = Held(k) + Ground(k) + removed[k] /\ b = Held(k)' + Ground(k)' + removed'[k]
  OBVIOUS
<1>4. a \in Int /\ b \in Int
  BY <1>3
<1> QED
  BY <1>1, <1>2, <1>3, <1>4

\* What the bags hold is a number.
LEMMA HeldType == ASSUME TypeOK, NEW k \in Items PROVE Held(k) \in Nat
<1>1. [c \in Chars |-> bag[c][k]] \in [Chars -> Nat]
  BY DEF TypeOK
<1> QED
  BY <1>1, DropsAssumption, SumOverAll DEF Held

\* So is what lies on the ground.
LEMMA GroundType == ASSUME TypeOK, NEW k PROVE Ground(k) \in Nat
<1>1. PICK f : f = [e \in Objects |-> Weight(e, k)]
  OBVIOUS
<1>2. IsFiniteSet(Objects) /\ \A e \in Objects : f[e] \in Nat
  BY <1>1, WeightType
<1>3. SumFunctionOnSet(f, Objects) \in Nat
  BY <1>2, SumCovers
<1> QED
  BY <1>1, <1>3, GroundOf

\* Steps that move nothing.
LEMMA NothingMoves ==
  ASSUME TypeOK, Alike, Balanced, UNCHANGED <<bag, removed, failures>>,
         \A k \in Items : \A e \in Objects : Weight(e, k)' = Weight(e, k)
  PROVE  Balanced'
<1>1. Len(drops') = Len(drops)
  BY DEF Alike
<1>2. \A k \in Items : Held(k) \in Nat /\ Ground(k) \in Nat /\ removed[k] \in Nat
  BY HeldType, GroundType DEF TypeOK
<1>3. \A k \in Items : Held(k)' = Held(k) /\ Ground(k)' = Ground(k)
  BY <1>1, HeldSame, GroundSame
<1>4. \A k \in Items :
            /\ Held(k) \in Int /\ Ground(k) \in Int /\ removed[k] \in Int
            /\ Held(k)' \in Int /\ Ground(k)' \in Int /\ removed'[k] \in Int
            /\ IF failures' = failures
               THEN Held(k)' + Ground(k)' + removed'[k] = Held(k) + Ground(k) + removed[k]
               ELSE failures' # 0 /\ Held(k)' + Ground(k)' + removed'[k] <= Held(k) + Ground(k) + removed[k]
  BY <1>2, <1>3
<1> QED
  BY <1>4, StillBalanced

LEMMA FreeDropFair ==
  ASSUME IInv, FairInv, NEW d \in Objects, FreeDrop(d), ~raced
  PROVE  AloneInv' /\ FreshInv' /\ Balanced'
<1>1. TypeOK /\ Alike /\ AloneInv /\ FreshInv /\ Balanced
  BY OneClaimer DEF IInv, FreeDrop, FairInv
<1>2. UNCHANGED <<Map, DropRegister, looting, bag, failures, removed>>
  BY DEF FreeDrop
<1>3. Objects' = Objects
  BY <1>1 DEF Alike, Objects
<1>4. \A e \in Objects : drops'[e].quantity = drops[e].quantity
  <2>1. drops' = [drops EXCEPT ![d] = [drops[d] EXCEPT !.claimer = NoOne]]
    BY DEF FreeDrop
  <2>2. Len(drops) \in Nat /\ \A e \in 1..Len(drops) : drops[e] \in Drop
    BY <1>1 DEF TypeOK
  <2>3. \A e \in 1..Len(drops) :
          drops'[e] = IF e = d THEN [drops[d] EXCEPT !.claimer = NoOne] ELSE drops[e]
    BY <1>1, <2>1, <2>2 DEF TypeOK, Objects
  <2>4. [drops[d] EXCEPT !.claimer = NoOne].quantity = drops[d].quantity
    BY <2>2 DEF Drop, Objects
  <2> QED
    BY <2>3, <2>4 DEF Objects
<1>5. \A e \in Objects : (Registered(e)' <=> Registered(e)) /\ (InFlight(e)' <=> InFlight(e))
  BY <1>1, <1>2 DEF Registered, InFlight, Alike
<1>6. \A k \in Items : \A e \in Objects : Weight(e, k)' = Weight(e, k)
  BY <1>1, <1>4, <1>5 DEF Weight, Alike
<1>7. Balanced'
  BY <1>1, <1>2, <1>6, NothingMoves
<1>8. FreshInv'
  BY <1>1, <1>3, <1>4, <1>5 DEF FreshInv
<1>9. AloneInv'
  BY <1>1, <1>2 DEF AloneInv, Alike, IInv, LootingInv, NotLooting
<1> QED
  BY <1>7, <1>8, <1>9

\* What goes with the number was on the ground, or somebody has it.
LEMMA RemoveDropFair ==
  ASSUME IInv, IInv', FairInv, NEW d \in Objects, RemoveDrop(d), ~raced
  PROVE  AloneInv' /\ FreshInv' /\ Balanced'
<1> DEFINE m == drops[d].map
           n == drops[d].number
<1>0. PICK there : there = DropRegister[m][n]
  OBVIOUS
<1>1. m \in Maps /\ n \in Numbers
  BY Quantities DEF IInv, Objects
<1>2. TypeOK /\ TypeOK' /\ Alike /\ AloneInv /\ FreshInv /\ Balanced
  BY SameDrops DEF IInv, RemoveDrop, FairInv
<1>3. UNCHANGED <<Map, drops, looting, bag, failures>>
  BY DEF RemoveDrop
<1>4. \A x \in Maps, y \in Numbers :
        DropRegister'[x][y] = IF x = m /\ y = n THEN 0 ELSE DropRegister[x][y]
  BY <1>1, <1>2 DEF RemoveDrop, TypeOK
<1>5. there \in 0..Len(drops) /\ Len(drops) \in Nat
  BY <1>0, <1>1, <1>2 DEF TypeOK
<1>6. \A e \in Objects : drops[e].map \in Maps /\ drops[e].number \in Numbers /\ e # 0
  BY <1>2, Quantities DEF Objects
<1>7. \A e \in Objects : Registered(e)' <=> Registered(e) /\ e # there
  <2> SUFFICES ASSUME NEW e \in Objects PROVE Registered(e)' <=> Registered(e) /\ e # there
    OBVIOUS
  <2>1. DropRegister'[drops[e].map][drops[e].number] =
          IF drops[e].map = m /\ drops[e].number = n THEN 0 ELSE DropRegister[drops[e].map][drops[e].number]
    BY <1>4, <1>6
  <2>2. there # 0 => drops[there].map = m /\ drops[there].number = n
    BY <1>0, <1>1 DEF IInv, RegisterInv
  <2> QED
    BY <1>0, <1>3, <1>6, <2>1, <2>2 DEF Registered
<1>8. \A e \in Objects : InFlight(e)' <=> InFlight(e)
  BY <1>3 DEF InFlight
<1>9. there # 0 => there \in Objects /\ Registered(there) /\ ~Registered(there)'
  <2>1. there # 0 => there \in Objects
    BY <1>5 DEF Objects
  <2>2. there # 0 => drops[there].map = m /\ drops[there].number = n
    BY <1>0, <1>1 DEF IInv, RegisterInv
  <2> QED
    BY <1>0, <1>7, <2>1, <2>2 DEF Registered
<1>10. AloneInv'
  BY <1>2, <1>3 DEF AloneInv
<1>11. FreshInv'
  BY <1>2, <1>3, <1>7, <1>8 DEF FreshInv, Objects
<1>12. \A k \in Items : Expired(there)[k] = IF there = 0 THEN 0 ELSE Weight(there, k)
  BY <1>9 DEF Expired, Weight
<1>13. \A k \in Items : \A e \in Objects : Weight(e, k)' = IF e = there THEN 0 ELSE Weight(e, k)
  BY <1>3, <1>7, <1>8 DEF Weight
<1>14. \A k \in Items : removed'[k] = removed[k] + Expired(there)[k]
  BY <1>0 DEF RemoveDrop
<1>15. \A k \in Items :
            /\ Held(k) \in Int /\ Ground(k) \in Int /\ removed[k] \in Int
            /\ Held(k)' \in Int /\ Ground(k)' \in Int /\ removed'[k] \in Int
            /\ IF failures' = failures
               THEN Held(k)' + Ground(k)' + removed'[k] = Held(k) + Ground(k) + removed[k]
               ELSE failures' # 0 /\ Held(k)' + Ground(k)' + removed'[k] <= Held(k) + Ground(k) + removed[k]
  <2> TAKE k \in Items
  <2>1. Held(k) \in Nat /\ Ground(k) \in Nat /\ removed[k] \in Nat
    BY <1>2, HeldType, GroundType DEF TypeOK
  <2>2. Held(k)' = Held(k)
    BY <1>3, HeldSame
  <2>3. CASE there = 0
    <3>1. \A e \in Objects : Weight(e, k)' = Weight(e, k)
      BY <1>6, <1>13, <2>3
    <3>2. Ground(k)' = Ground(k)
      BY <1>2, <1>3, <3>1, GroundSame
    <3>3. removed'[k] = removed[k]
      BY <1>12, <1>14, <2>1, <2>3
    <3> QED
      BY <1>3, <2>1, <2>2, <3>2, <3>3
  <2>4. CASE there # 0
    <3>1. there \in Objects
      BY <1>9, <2>4
    <3>2. \A e \in Objects \ {there} : Weight(e, k)' = Weight(e, k)
      BY <1>13
    <3>4. Weight(there, k) \in Nat /\ Ground(k)' = (Ground(k) - Weight(there, k)) + 0 /\ Ground(k)' \in Int
      <4>1. /\ Ground(k)' \in Int /\ Weight(there, k) \in Nat
            /\ Ground(k)' = (Ground(k) - Weight(there, k)) + Weight(there, k)'
        BY <1>2, <1>3, <3>1, <3>2, GroundChange
      <4>2. Weight(there, k)' = 0
        BY <1>13, <3>1
      <4> QED
        BY <4>1, <4>2
    <3>5. removed'[k] = removed[k] + Weight(there, k)
      BY <1>12, <1>14, <2>4
    <3> QED
      BY <1>3, <2>1, <2>2, <3>4, <3>5
  <2> QED
    BY <2>3, <2>4
<1>16. Balanced'
  BY <1>2, <1>15, StillBalanced
<1> QED
  BY <1>10, <1>11, <1>16

\* Nobody leaves the map of the drop he is picking up.
LEMMA ChangeMapFair ==
  ASSUME IInv, FairInv, NEW c \in Chars, NEW m \in Maps, ChangeMap(c, m), ~raced'
  PROVE  ~raced /\ AloneInv' /\ FreshInv' /\ Balanced'
<1>1. ~raced /\ looting[c] = NotLooting
  BY DEF ChangeMap
<1>2. TypeOK /\ Alike /\ AloneInv /\ FreshInv /\ Balanced
  BY <1>1, SameDrops DEF IInv, ChangeMap, FairInv
<1>3. UNCHANGED <<drops, DropRegister, looting, bag, failures, removed>>
  BY DEF ChangeMap
<1>4. \A x \in Chars : x # c => Map'[x] = Map[x]
  BY <1>2 DEF ChangeMap, TypeOK
<1>5. AloneInv'
  BY <1>1, <1>2, <1>3, <1>4 DEF AloneInv, NotLooting
<1>6. FreshInv'
  BY <1>2, <1>3 DEF FreshInv, Registered, InFlight, Objects
<1>7. \A k \in Items : \A e \in Objects : Weight(e, k)' = Weight(e, k)
  BY <1>3 DEF Weight, Registered, InFlight
<1>8. Balanced'
  BY <1>2, <1>3, <1>7, NothingMoves
<1> QED
  BY <1>1, <1>5, <1>6, <1>8

\* A drop nobody was picking up moves from the ground to a bag.
LEMMA LootFair ==
  ASSUME IInv, IInv', FairInv, NEW c \in Chars, NEW n \in Numbers, Loot(c, n), ~raced'
  PROVE  ~raced /\ AloneInv' /\ FreshInv' /\ Balanced'
<1>0. PICK d : d = DropRegister[Map[c]][n]
  OBVIOUS
<1>1. PICK item : item = drops[d].item
  OBVIOUS
<1>2. PICK q : q = drops[d].quantity + (IF Stacks(c, item) THEN bag[c][item] ELSE 0)
  OBVIOUS
<1>3. /\ looting[c] = NotLooting /\ d # 0
      /\ looting' = [looting EXCEPT ![c] = [drop |-> d, number |-> n]]
      /\ drops' = [drops EXCEPT ![d].quantity = q]
      /\ bag' = [bag EXCEPT ![c][item] = IF item \in Stackable THEN q ELSE @ + 1]
      /\ raced' = (raced \/ InFlight(d))
      /\ UNCHANGED <<Map, DropRegister, failures, removed>>
  BY <1>0, <1>1, <1>2 DEF Loot
<1>4. ~raced /\ ~InFlight(d)
  BY <1>3
<1>5. TypeOK /\ TypeOK' /\ AloneInv /\ FreshInv /\ Balanced
  BY <1>4 DEF IInv, FairInv
<1>6. Map[c] \in Maps /\ d \in 1..Len(drops) /\ Len(drops) \in Nat /\ d \in Objects
  BY <1>0, <1>3, <1>5 DEF TypeOK, Objects
<1>7. /\ item \in Items /\ drops[d].quantity \in Nat /\ bag[c][item] \in Nat
      /\ drops[d].number = n /\ drops[d].map = Map[c]
  BY <1>0, <1>1, <1>3, <1>6, Quantities DEF IInv, RegisterInv
<1>8. q \in Nat
  BY <1>2, <1>7
<1>9. Alike
  BY <1>3, <1>5, <1>6, <1>8, OneQuantity
<1>10. \A e \in Objects \ {d} : drops'[e] = drops[e]
  BY <1>3, <1>5 DEF TypeOK, Objects
<1>11. Registered(d) /\ drops[d].quantity = 1
  BY <1>0, <1>4, <1>5, <1>6, <1>7 DEF Registered, FreshInv
<1>12. \A x \in Chars : looting'[x] = IF x = c THEN [drop |-> d, number |-> n] ELSE looting[x]
  BY <1>3, <1>5 DEF TypeOK
<1>13. InFlight(d)' /\ \A e \in Objects \ {d} : InFlight(e)' <=> InFlight(e)
  BY <1>3, <1>12 DEF InFlight, NotLooting, Objects
<1>14. \A e \in Objects : Registered(e)' <=> Registered(e)
  BY <1>3, <1>9 DEF Registered, Alike
<1>15. Objects' = Objects /\ Len(drops') = Len(drops)
  BY <1>9 DEF Alike, Objects
<1>16. AloneInv'
  <2>1. \A x \in Chars : looting[x].drop # d
    BY <1>4 DEF InFlight
  <2>2. \A x \in Chars : looting[x] # NotLooting => looting[x].drop \in Objects
    BY DEF IInv, LootingInv
  <2> SUFFICES ASSUME NEW x \in Chars, looting'[x] # NotLooting
               PROVE  /\ drops'[looting'[x].drop].map = Map[x]
                      /\ \A y \in Chars : looting'[y].drop = looting'[x].drop => y = x
    BY <1>3 DEF AloneInv, NotLooting
  <2>3. CASE x = c
    BY <1>6, <1>7, <1>9, <1>12, <2>1, <2>3 DEF Alike
  <2>4. CASE x # c
    <3>1. looting'[x] = looting[x] /\ looting[x] # NotLooting /\ looting[x].drop \in Objects
      BY <1>12, <2>2, <2>4
    <3>2. \A y \in Chars : y # c => looting'[y] = looting[y]
      BY <1>12
    <3>3. looting'[c].drop # looting[x].drop
      BY <1>12, <2>1
    <3>4. drops'[looting[x].drop].map = Map[x]
      BY <1>5, <1>9, <3>1 DEF AloneInv, Alike
    <3>5. \A y \in Chars : looting[y].drop = looting[x].drop => y = x
      BY <1>5, <3>1 DEF AloneInv
    <3> QED
      BY <3>1, <3>2, <3>3, <3>4, <3>5
  <2> QED
    BY <2>3, <2>4
<1>17. FreshInv'
  BY <1>5, <1>10, <1>13, <1>14, <1>15 DEF FreshInv
<1>18. Balanced'
  <2>1. \A k \in Items :
          /\ \A e \in Objects \ {d} : Weight(e, k)' = Weight(e, k)
          /\ Weight(d, k) = (IF k = item THEN 1 ELSE 0) /\ Weight(d, k)' = 0
    BY <1>1, <1>4, <1>6, <1>10, <1>11, <1>13, <1>14 DEF Weight
  <2>2. \A k \in Items : Ground(k)' = (Ground(k) - Weight(d, k)) + Weight(d, k)'
    BY <1>5, <1>6, <1>15, <2>1, GroundChange
  <2>3. bag \in [Chars -> [Items -> Nat]]
    BY <1>5 DEF TypeOK
  <2>4. bag'[c][item] = bag[c][item] + 1
    <3>1. bag'[c][item] = IF item \in Stackable THEN q ELSE bag[c][item] + 1
      BY <1>3, <1>7, <2>3
    <3>2. item \in Stackable => q = bag[c][item] + 1
      BY <1>2, <1>7, <1>11 DEF Stacks
    <3> QED
      BY <3>1, <3>2
  <2>5. /\ \A x \in Chars \ {c} : bag'[x] = bag[x]
        /\ \A k \in Items \ {item} : bag'[c][k] = bag[c][k]
    BY <1>3, <2>3
  <2>6. \A k \in Items : Held(k)' = (Held(k) - bag[c][k]) + bag'[c][k] /\ bag[c][k] \in Nat
    BY <1>5, <2>5, HeldChange
  <2>7. \A k \in Items :
            /\ Held(k) \in Int /\ Ground(k) \in Int /\ removed[k] \in Int
            /\ Held(k)' \in Int /\ Ground(k)' \in Int /\ removed'[k] \in Int
            /\ IF failures' = failures
               THEN Held(k)' + Ground(k)' + removed'[k] = Held(k) + Ground(k) + removed[k]
               ELSE failures' # 0 /\ Held(k)' + Ground(k)' + removed'[k] <= Held(k) + Ground(k) + removed[k]
    <3> TAKE k \in Items
    <3>1. Held(k) \in Nat /\ Ground(k) \in Nat /\ removed[k] \in Nat
      BY <1>5, HeldType, GroundType DEF TypeOK
    <3>2. removed'[k] = removed[k] /\ failures' = failures
      BY <1>3
    <3>3. Ground(k)' = Ground(k) - (IF k = item THEN 1 ELSE 0)
      BY <2>1, <2>2, <3>1
    <3>4. Held(k)' = Held(k) + (IF k = item THEN 1 ELSE 0)
      BY <2>4, <2>5, <2>6, <3>1
    <3> QED
      BY <3>1, <3>2, <3>3, <3>4
  <2> QED
    BY <1>5, <1>9, <2>7, StillBalanced
<1> QED
  BY <1>4, <1>16, <1>17, <1>18

\* Picking up ends: the drop is not on the ground any more, nor was it.
LEMMA LootEnds ==
  ASSUME IInv, AloneInv, FreshInv, NEW c \in Chars, looting[c] # NotLooting,
         looting' = [looting EXCEPT ![c] = NotLooting], RemoveFromDropRegister(c),
         ~Mistaken(c), UNCHANGED <<Map, drops>>
  PROVE  /\ AloneInv' /\ FreshInv'
         /\ \A k \in Items : \A e \in Objects : Weight(e, k)' = Weight(e, k)
<1>1. PICK d : d = looting[c].drop
  OBVIOUS
<1>2. TypeOK
  BY DEF IInv
<1>3. d \in Objects /\ looting[c].number = drops[d].number /\ drops[d].map = Map[c]
  BY <1>1 DEF IInv, LootingInv, AloneInv
<1>4. \A e \in Objects : drops[e].map \in Maps /\ drops[e].number \in Numbers /\ e \in Nat /\ e # 0
  BY <1>2, Quantities DEF Objects
<1>5. \A x \in Maps, y \in Numbers :
        DropRegister'[x][y] = IF x = drops[d].map /\ y = drops[d].number THEN 0 ELSE DropRegister[x][y]
  BY <1>2, <1>3, <1>4 DEF RemoveFromDropRegister, TypeOK
<1>6. DropRegister[drops[d].map][drops[d].number] \in {0, d}
  BY <1>1, <1>3 DEF Mistaken
<1>7. \A e \in Objects : Registered(e)' <=> Registered(e) /\ e # d
  <2> SUFFICES ASSUME NEW e \in Objects PROVE Registered(e)' <=> Registered(e) /\ e # d
    OBVIOUS
  <2>1. DropRegister'[drops[e].map][drops[e].number] =
          IF drops[e].map = drops[d].map /\ drops[e].number = drops[d].number THEN 0
          ELSE DropRegister[drops[e].map][drops[e].number]
    BY <1>4, <1>5
  <2> QED
    BY <1>4, <1>6, <2>1 DEF Registered
<1>8. \A x \in Chars : looting'[x] = IF x = c THEN NotLooting ELSE looting[x]
  BY <1>2 DEF TypeOK
<1>9. InFlight(d) /\ \A e \in Objects \ {d} : InFlight(e)' <=> InFlight(e)
  BY <1>1, <1>4, <1>8 DEF InFlight, NotLooting
<1>10. \A k \in Items : \A e \in Objects : Weight(e, k)' = Weight(e, k)
  BY <1>7, <1>9 DEF Weight
<1>11. FreshInv'
  BY <1>7, <1>9 DEF FreshInv, Objects
<1>12. AloneInv'
  <2>1. \A x \in Chars : looting[x] # NotLooting => looting[x].drop \in Nat /\ looting[x].drop # 0
    BY <1>4 DEF IInv, LootingInv
  <2> QED
    BY <1>8, <2>1 DEF AloneInv, NotLooting
<1> QED
  BY <1>10, <1>11, <1>12

LEMMA LootedFair ==
  ASSUME IInv, FairInv, NEW c \in Chars, Looted(c), ~raced'
  PROVE  ~raced /\ AloneInv' /\ FreshInv' /\ Balanced'
<1>1. ~raced /\ ~Mistaken(c)
  BY DEF Looted
<1>2. TypeOK /\ Alike /\ AloneInv /\ FreshInv /\ Balanced
  BY <1>1, SameDrops DEF IInv, Looted, FairInv
<1>3. UNCHANGED <<Map, drops, bag, failures, removed>>
  BY DEF Looted
<1>4. AloneInv' /\ FreshInv' /\ \A k \in Items : \A e \in Objects : Weight(e, k)' = Weight(e, k)
  BY <1>1, <1>2, <1>3, LootEnds DEF Looted
<1>5. Balanced'
  BY <1>2, <1>3, <1>4, NothingMoves
<1> QED
  BY <1>1, <1>4, <1>5

\* The stack in the slot is lost, and the failure is counted.
LEMMA LootFailedFair ==
  ASSUME IInv, IInv', FairInv, NEW c \in Chars, LootFailed(c), ~raced'
  PROVE  ~raced /\ AloneInv' /\ FreshInv' /\ Balanced'
<1>1. ~raced /\ ~Mistaken(c)
  BY DEF LootFailed
<1>2. TypeOK /\ TypeOK' /\ Alike /\ AloneInv /\ FreshInv /\ Balanced
  BY <1>1, SameDrops DEF IInv, LootFailed, FairInv
<1>3. UNCHANGED <<Map, drops, removed>> /\ bag' = EmptySlot(c)
      /\ failures' = failures + 1 /\ looting[c] # NotLooting
  BY DEF LootFailed
<1>4. AloneInv' /\ FreshInv' /\ \A k \in Items : \A e \in Objects : Weight(e, k)' = Weight(e, k)
  BY <1>1, <1>2, <1>3, LootEnds DEF LootFailed
<1>5. PICK item : item = drops[looting[c].drop].item
  OBVIOUS
<1>6. looting[c].drop \in Objects /\ (item \notin Stackable => bag[c][item] > 0)
  BY <1>3, <1>5 DEF IInv, LootingInv
<1>7. item \in Items
  BY <1>2, <1>5, <1>6, Quantities DEF Objects
<1>8. bag \in [Chars -> [Items -> Nat]] /\ bag' \in [Chars -> [Items -> Nat]]
  BY <1>2 DEF TypeOK
<1>9. /\ \A x \in Chars \ {c} : bag'[x] = bag[x]
      /\ \A k \in Items \ {item} : bag'[c][k] = bag[c][k]
      /\ bag'[c][item] = IF item \in Stackable THEN 0 ELSE bag[c][item] - 1
  BY <1>3, <1>5, <1>7, <1>8 DEF EmptySlot
<1>10. \A k \in Items : bag'[c][k] <= bag[c][k]
  <2>1. bag[c][item] \in Nat
    BY <1>7, <1>8
  <2>2. bag'[c][item] <= bag[c][item]
    BY <1>9, <2>1
  <2> QED
    BY <1>8, <1>9, <2>2
<1>11. \A k \in Items :
            /\ Held(k) \in Int /\ Ground(k) \in Int /\ removed[k] \in Int
            /\ Held(k)' \in Int /\ Ground(k)' \in Int /\ removed'[k] \in Int
            /\ IF failures' = failures
               THEN Held(k)' + Ground(k)' + removed'[k] = Held(k) + Ground(k) + removed[k]
               ELSE failures' # 0 /\ Held(k)' + Ground(k)' + removed'[k] <= Held(k) + Ground(k) + removed[k]
  <2> TAKE k \in Items
  <2>1. Held(k) \in Nat /\ Ground(k) \in Nat /\ removed[k] \in Nat /\ failures \in Nat
    BY <1>2, HeldType, GroundType, DropsAssumption DEF TypeOK
  <2>2. /\ Held(k)' \in Nat /\ bag[c][k] \in Nat /\ bag'[c][k] \in Nat
        /\ Held(k)' = (Held(k) - bag[c][k]) + bag'[c][k]
    BY <1>2, <1>9, HeldChange
  <2>3. Held(k)' <= Held(k)
    BY <1>10, <2>1, <2>2
  <2>4. Ground(k)' = Ground(k)
    BY <1>2, <1>3, <1>4, GroundSame
  <2> QED
    BY <1>3, <2>1, <2>2, <2>3, <2>4
<1>12. Balanced'
  BY <1>2, <1>11, StillBalanced
<1> QED
  BY <1>1, <1>4, <1>12

LEMMA NextFair == IInv /\ IInv' /\ FairInv /\ [Next]_vars => FairInv'
<1> SUFFICES ASSUME IInv, IInv', FairInv, [Next]_vars, ~raced'
             PROVE  AloneInv' /\ FreshInv' /\ Balanced'
  BY DEF FairInv
<1>1. CASE \E c \in Killers, m \in Maps, item \in Items : DropHandler(c, m, item)
  <2>1. PICK c \in Killers, m \in Maps, item \in Items : DropHandler(c, m, item)
    BY <1>1
  <2>2. ~raced
    BY <2>1 DEF DropHandler
  <2> QED
    BY <2>1, <2>2, DropHandlerFair
<1>2. CASE \E d \in Objects : FreeDrop(d) \/ RemoveDrop(d)
  BY <1>2, FreeDropFair, RemoveDropFair DEF FreeDrop, RemoveDrop
<1>3. CASE \E c \in Chars, n \in Numbers : Loot(c, n)
  BY <1>3, LootFair
<1>4. CASE \E c \in Chars : Looted(c) \/ LootFailed(c)
  BY <1>4, LootedFair, LootFailedFair
<1>5. CASE \E c \in Chars, m \in Maps : ChangeMap(c, m)
  BY <1>5, ChangeMapFair
<1>6. CASE UNCHANGED vars
  <2>1. UNCHANGED <<Map, drops, DropRegister, looting, bag, failures, removed, raced>>
    BY <1>6 DEF vars
  <2>2. AloneInv /\ FreshInv /\ Balanced
    BY <2>1 DEF FairInv
  <2>3. AloneInv' /\ FreshInv'
    BY <2>1, <2>2 DEF AloneInv, FreshInv, Registered, InFlight, Objects, NotLooting
  <2>4. Balanced'
    BY <2>1, <2>2 DEF Balanced, Held, Ground, Made, Registered, InFlight, Objects
  <2> QED
    BY <2>3, <2>4
<1> QED
  BY <1>1, <1>2, <1>3, <1>4, <1>5, <1>6 DEF Next

\* What mobs dropped is in a bag, on the ground or was taken away by a timer, once,
\* as long as nobody picked up what another was picking up or left the map
\* meanwhile: whatever the number of characters, maps, kinds and drops.  A failed
\* write only loses.
THEOREM DropsAreConserved == Spec => []DropsConserved
<1>1. Init => IInv /\ FairInv
  BY InitInv, InitFair
<1>2. (IInv /\ FairInv) /\ [Next]_vars => (IInv /\ FairInv)'
  BY NextInv, NextFair
<1>3. FairInv => DropsConserved
  BY DEF FairInv, Balanced, DropsConserved
<1> QED
  BY <1>1, <1>2, <1>3, PTL DEF Spec
============================================================================
