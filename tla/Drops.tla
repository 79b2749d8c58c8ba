------------------------------- MODULE Drops -------------------------------
(***************************************************************************)
(* Drops on the ground (DropHandler and RemoveDrop in database/ai.go,      *)
(* database/drop.go) and picking them up (player/loot.go).  A mob's drop   *)
(* is an object registered under a random number of its map; two timers    *)
(* run for it.  Picking up is two steps, because AddItem waits for the     *)
(* database after the item is in the bag, and only then the number is      *)
(* removed from the register of the map the character is on by now.        *)
(***************************************************************************)
EXTENDS Naturals, Sequences, FiniteSets, Functions

CONSTANTS Chars,        \* characters
          Killers,      \* those of them who kill mobs
          NoOne,        \* a drop without claimer
          Maps,         \* server and map
          Numbers,      \* drop numbers of a map (1..65534 in the code)
          Items,        \* kinds of items
          Stackable,    \* kinds FindStackableByUIF knows
          Room,         \* bag slots of a character
          MaxDrops,     \* bound: drops of one behaviour
          MaxStack,     \* bound: quantity of a stack
          MaxFailures   \* bound: failed database writes

ASSUME DropsAssumption ==
    /\ IsFiniteSet(Chars)
    /\ NoOne \notin Chars /\ Killers \subseteq Chars /\ Stackable \subseteq Items
    /\ Room \in Nat /\ MaxDrops \in Nat /\ MaxStack \in Nat /\ MaxFailures \in Nat

VARIABLES Map,          \* c.Map
          drops,        \* the Drop objects made so far
          DropRegister, \* map -> number -> drop, 0 for none
          looting,      \* the drop a character is picking up: its object and number
          freeTimers,   \* drops whose FREEDROP_LIFETIME timer is to fire
          lifeTimers,   \* drops whose DROP_LIFETIME timer is to fire
          bag,          \* quantity of each kind in a character's bag
          failures,     \* failed writes so far
          removed,      \* history: quantity of each kind taken away by timers
          raced         \* history: somebody picked up a drop that another was picking up or
                        \* had picked up, or left the map while picking up

registerVars == <<drops, DropRegister, freeTimers, lifeTimers>>
vars == <<Map, drops, DropRegister, looting, freeTimers, lifeTimers, bag, failures, removed, raced>>

NotLooting == [drop |-> 0, number |-> 0]
Objects == 1..Len(drops)
InFlight(d) == \E c \in Chars : looting[c].drop = d
Registered(d) == DropRegister[drops[d].map][drops[d].number] = d

Drop == [map : Maps, number : Numbers, item : Items, quantity : Nat,
         claimer : Chars \cup {NoOne}, killer : Chars]

TypeOK ==
    /\ Map \in [Chars -> Maps]
    /\ drops \in Seq(Drop) /\ Len(drops) <= MaxDrops
    /\ DropRegister \in [Maps -> [Numbers -> 0..Len(drops)]]
    /\ looting \in [Chars -> [drop : 0..Len(drops), number : Numbers \cup {0}]]
    /\ freeTimers \subseteq Objects /\ lifeTimers \subseteq Objects
    /\ bag \in [Chars -> [Items -> Nat]]
    /\ failures \in 0..MaxFailures
    /\ removed \in [Items -> Nat]
    /\ raced \in BOOLEAN

Init ==
    /\ Map \in [Chars -> Maps]
    /\ drops = <<>>
    /\ DropRegister = [m \in Maps |-> [n \in Numbers |-> 0]]
    /\ looting = [c \in Chars |-> NotLooting]
    /\ freeTimers = {} /\ lifeTimers = {}
    /\ bag = [c \in Chars |-> [k \in Items |-> 0]]
    /\ failures = 0
    /\ removed = [k \in Items |-> 0]
    /\ raced = FALSE

----------------------------------------------------------------------------
(* A mob leaves a drop *)

\* As if a number were not compared with those in use.
AnyNumber(m) == Numbers
\* GenerateIDForDrop tries random numbers until one is free.
FreeNumbers(m) == {n \in Numbers : DropRegister[m][n] = 0}

\* isEventBoss is set where it is declared and never cleared: no drop has a claimer.
Claimer(killer) == NoOne

DropHandler(killer, m, item) ==
    /\ Len(drops) < MaxDrops
    /\ \E n \in FreeNumbers(m) :
          /\ drops' = Append(drops, [map |-> m, number |-> n, item |-> item, quantity |-> 1,
                                     claimer |-> Claimer(killer), killer |-> killer])
          /\ DropRegister' = [DropRegister EXCEPT ![m][n] = Len(drops) + 1]
    /\ freeTimers' = freeTimers \cup {Len(drops) + 1}
    /\ lifeTimers' = lifeTimers \cup {Len(drops) + 1}
    /\ UNCHANGED <<Map, looting, bag, failures, removed, raced>>

\* FREEDROP_LIFETIME is over.
FreeDrop(d) ==
    /\ d \in freeTimers
    /\ freeTimers' = freeTimers \ {d}
    /\ drops' = [drops EXCEPT ![d].claimer = NoOne]
    /\ UNCHANGED <<Map, DropRegister, looting, lifeTimers, bag, failures, removed, raced>>

Expired(d) == IF d = 0 \/ InFlight(d) THEN [k \in Items |-> 0]
              ELSE [k \in Items |-> IF k = drops[d].item THEN drops[d].quantity ELSE 0]

\* As if the timer left alone a drop that somebody is picking up.
PatientRemoveDrop(d) ==
    LET m == drops[d].map
        n == drops[d].number
        there == DropRegister[m][n]
    IN  /\ d \in lifeTimers /\ d \notin freeTimers
        /\ lifeTimers' = lifeTimers \ {d}
        /\ DropRegister' = [DropRegister EXCEPT ![m][n] = IF InFlight(there) THEN @ ELSE 0]
        /\ removed' = [k \in Items |-> removed[k] + Expired(there)[k]]
        /\ UNCHANGED <<Map, drops, looting, freeTimers, bag, failures, raced>>
\* DROP_LIFETIME is over (it is longer than FREEDROP_LIFETIME): whatever is
\* registered under the drop's number by now goes.
RemoveDrop(d) ==
    LET m == drops[d].map
        n == drops[d].number
    IN  /\ d \in lifeTimers /\ d \notin freeTimers
        /\ lifeTimers' = lifeTimers \ {d}
        /\ DropRegister' = [DropRegister EXCEPT ![m][n] = 0]
        /\ removed' = [k \in Items |-> removed[k] + Expired(DropRegister[m][n])[k]]
        /\ UNCHANGED <<Map, drops, looting, freeTimers, bag, failures, raced>>

----------------------------------------------------------------------------
(* Picking up *)

Stacks(c, item) == item \in Stackable /\ bag[c][item] > 0
UsedSlots(c) == SumFunction([k \in Items |-> IF Stacks(c, k) THEN 1 ELSE bag[c][k]])

\* AddItem puts the item on the stack the bag has of its kind, into a free slot
\* otherwise.  The drop's own quantity becomes that of the stack.
Loot(c, n) ==
    LET d == DropRegister[Map[c]][n]
        item == drops[d].item
        quantity == drops[d].quantity + (IF Stacks(c, item) THEN bag[c][item] ELSE 0)
    IN  /\ looting[c] = NotLooting
        /\ d # 0
        /\ drops[d].claimer \in {NoOne, c}
        /\ Stacks(c, item) \/ UsedSlots(c) < Room
        /\ quantity <= MaxStack
        /\ looting' = [looting EXCEPT ![c] = [drop |-> d, number |-> n]]
        /\ drops' = [drops EXCEPT ![d].quantity = quantity]
        /\ bag' = [bag EXCEPT ![c][item] = IF item \in Stackable THEN quantity ELSE @ + 1]
        /\ raced' = (raced \/ InFlight(d))
        /\ UNCHANGED <<Map, DropRegister, freeTimers, lifeTimers, failures, removed>>

\* As if the drop stayed registered until it expires.
KeepDrop(c) == UNCHANGED DropRegister
\* RemoveFromDropRegister with the map the character is on now.
RemoveFromDropRegister(c) ==
    DropRegister' = [DropRegister EXCEPT ![Map[c]][looting[c].number] = 0]

\* The number may belong to another drop by now.
Mistaken(c) == DropRegister[Map[c]][looting[c].number] \notin {0, looting[c].drop}

\* The row is written.
Looted(c) ==
    /\ looting[c] # NotLooting
    /\ looting' = [looting EXCEPT ![c] = NotLooting]
    /\ RemoveFromDropRegister(c)
    /\ raced' = (raced \/ Mistaken(c))
    /\ UNCHANGED <<Map, drops, freeTimers, lifeTimers, bag, failures, removed>>

\* The slot is emptied, with the stack that was in it.
EmptySlot(c) ==
    LET item == drops[looting[c].drop].item
    IN  [bag EXCEPT ![c][item] = IF item \in Stackable THEN 0 ELSE @ - 1]

\* The row cannot be written; the drop is removed all the same.
LootFailed(c) ==
    /\ looting[c] # NotLooting
    /\ failures < MaxFailures
    /\ failures' = failures + 1
    /\ looting' = [looting EXCEPT ![c] = NotLooting]
    /\ bag' = EmptySlot(c)
    /\ RemoveFromDropRegister(c)
    /\ raced' = (raced \/ Mistaken(c))
    /\ UNCHANGED <<Map, drops, freeTimers, lifeTimers, removed>>

ChangeMap(c, m) ==
    /\ m # Map[c]
    /\ Map' = [Map EXCEPT ![c] = m]
    /\ raced' = (raced \/ looting[c] # NotLooting)
    /\ UNCHANGED <<drops, DropRegister, looting, freeTimers, lifeTimers, bag, failures, removed>>

----------------------------------------------------------------------------

Next ==
    \/ \E c \in Killers, m \in Maps, item \in Items : DropHandler(c, m, item)
    \/ \E d \in Objects : FreeDrop(d) \/ RemoveDrop(d)
    \/ \E c \in Chars, n \in Numbers : Loot(c, n)
    \/ \E c \in Chars : Looted(c) \/ LootFailed(c)
    \/ \E c \in Chars, m \in Maps : ChangeMap(c, m)

Spec == Init /\ [][Next]_vars

\* Runtime timers fire.
Fairness == \A d \in 1..MaxDrops : WF_vars(d \in Objects /\ (FreeDrop(d) \/ RemoveDrop(d)))

FairSpec == Spec /\ Fairness

----------------------------------------------------------------------------
(* Properties *)

\* What was dropped of a kind, what of it lies where nobody is picking it up, what the bags hold.
Made(k) == Cardinality({d \in Objects : drops[d].item = k})
Ground(k) == SumFunction([d \in Objects |->
                 IF Registered(d) /\ ~InFlight(d) /\ drops[d].item = k THEN drops[d].quantity ELSE 0])
Held(k) == SumFunction([c \in Chars |-> bag[c][k]])

\* What mobs dropped is in a bag, still on the ground or was taken away by a
\* timer, once: unless two characters picked up the same drop at once or one left
\* the map meanwhile.  A failed write may lose items, never make them.
DropsConserved ==
    ~raced =>
        \A k \in Items :
            IF failures = 0 THEN Held(k) + Ground(k) + removed[k] = Made(k)
            ELSE Held(k) + Ground(k) + removed[k] <= Made(k)

\* A drop leaves the ground only when its own lifetime is over or somebody picks
\* it up, unless an older drop had its number or a character left the map of the
\* drop he was picking up.
TakenOrExpired ==
    [][\A d \in Objects :
          Registered(d) /\ DropRegister'[drops[d].map][drops[d].number] # d =>
              \/ d \in lifeTimers \ lifeTimers'
              \/ InFlight(d)
              \/ \E e \in 1..d - 1 : /\ drops[e].map = drops[d].map
                                     /\ drops[e].number = drops[d].number
                                     /\ e \in lifeTimers \/ InFlight(e)
              \/ \E c \in Chars : /\ looting[c].number = drops[d].number
                                  /\ drops[looting[c].drop].map # Map[c]]_vars

\* A drop does not stay on the ground for ever.
DropsExpire ==
    \A d \in 1..MaxDrops :
        (d \in Objects /\ Registered(d)) ~> ~(d \in Objects /\ Registered(d))

\* "ALL PLAYER CAN PICKUP THE ITEMS" when FREEDROP_LIFETIME is over: until then
\* only the character who earned the drop.
ReservedForClaimer ==
    [][\A c \in Chars : looting[c] = NotLooting /\ looting'[c] # NotLooting =>
          LET d == looting'[c].drop IN d \in freeTimers => c = drops[d].killer]_vars
============================================================================
