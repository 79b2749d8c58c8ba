-------------------------------- MODULE Sums --------------------------------
(***************************************************************************)
(* Sums of functions over finite sets (SumFunctionOnSet of Functions), as  *)
(* the ledgers of the components use them: how a sum changes when one or   *)
(* two of its terms do.  The facts are proved by induction on the size of  *)
(* the set; the induction hypothesis is a set (`P`) and not a predicate, so *)
(* that it can be given to the lemma.                                      *)
(***************************************************************************)
EXTENDS Integers, FiniteSets, Functions, FiniteSetTheorems, WellFoundedInduction, TLAPS

\* The recursive function the library's fold is made of.
PickOne(T) == CHOOSE x \in T : TRUE
Folding(g, f, S) ==
    g = [T \in SUBSET S |-> IF T = {} THEN 0 ELSE f[PickOne(T)] + g[T \ {PickOne(T)}]]
Folded(f, S) == CHOOSE g : Folding(g, f, S)

\* SumFunctionOnSet, its library definition expanded.
LEMMA SumIsFolded ==
  ASSUME NEW f, NEW S
  PROVE  SumFunctionOnSet(f, S) = Folded(f, S)[S]
  BY DEF SumFunctionOnSet, FoldFunctionOnSet, MapThenFoldSet, Folded, Folding, PickOne

----------------------------------------------------------------------------
(* Induction *)

\* A set of numbers has a least one.
LEMMA LeastOf == ASSUME NEW Q, Q \subseteq Nat, Q # {} PROVE \E n \in Q : \A m \in Q : ~(m < n)
<1>1. IsWellFoundedOn(OpToRel(<, Nat), Nat)
  BY NatLessThanWellFounded
<1>2. \E n \in Q : \A m \in Q : <<m, n>> \notin OpToRel(<, Nat)
  <2> DEFINE R == OpToRel(<, Nat)
  <2>1. IsWellFoundedOn(R, Nat)
    BY <1>1
  <2> HIDE DEF R
  <2>2. \E n \in Q : \A m \in Q : <<m, n>> \notin R
    BY <2>1, WFMin
  <2> QED
    BY <2>2 DEF R
<1> QED
  BY <1>2 DEF OpToRel

\* Induction: a set with 0 that has every successor holds all numbers.
LEMMA InduceOnNat ==
  ASSUME NEW P, 0 \in P, \A n \in Nat : n \in P => n + 1 \in P
  PROVE  Nat \subseteq P
<1> SUFFICES ASSUME Nat \ P # {} PROVE FALSE
  OBVIOUS
<1>1. PICK n \in Nat \ P : \A m \in Nat \ P : ~(m < n)
  BY LeastOf
<1>2. n # 0 /\ n - 1 \in Nat /\ n - 1 < n /\ n = (n - 1) + 1
  BY <1>1
<1>3. n - 1 \in P
  BY <1>1, <1>2
<1> QED
  BY <1>1, <1>2, <1>3

\* A family that has the empty set, and each set all of whose smaller ones (by one
\* element) it has, has all subsets of a finite set.
LEMMA InduceOnSize ==
  ASSUME NEW S, IsFiniteSet(S), NEW P,
         {} \in P,
         \A T \in SUBSET S : T # {} /\ (\A x \in T : T \ {x} \in P) => T \in P
  PROVE  SUBSET S \subseteq P
<1> DEFINE N == {n \in Nat : \A T \in SUBSET S : Cardinality(T) = n => T \in P}
<1>1. \A T \in SUBSET S : IsFiniteSet(T) /\ Cardinality(T) \in Nat
  BY FS_Subset, FS_CardinalityType
<1>2. 0 \in N
  BY <1>1, FS_EmptySet
<1>3. ASSUME NEW n \in Nat, n \in N PROVE n + 1 \in N
  <2> SUFFICES ASSUME NEW T \in SUBSET S, Cardinality(T) = n + 1 PROVE T \in P
    OBVIOUS
  <2>1. T # {}
    BY <1>1, FS_EmptySet
  <2>2. ASSUME NEW x \in T PROVE T \ {x} \in P
    <3>1. T \ {x} \in SUBSET S /\ Cardinality(T \ {x}) = n
      BY <1>1, FS_RemoveElement
    <3> QED
      BY <1>3, <3>1
  <2> QED
    BY <2>1, <2>2
<1> HIDE DEF N
<1>4. Nat \subseteq N
  BY <1>2, <1>3, InduceOnNat
<1> QED
  BY <1>1, <1>4 DEF N

\* The element a set is folded by first is one of its own.
LEMMA PickedIn == ASSUME NEW T, T # {} PROVE PickOne(T) \in T
  BY DEF PickOne

\* The fold on the subsets of S with at most n elements.
Small(S, n) == {T \in SUBSET S : Cardinality(T) <= n}
PartFolding(g, f, S, n) ==
   g = [T \in Small(S, n) |-> IF T = {} THEN 0 ELSE f[PickOne(T)] + g[T \ {PickOne(T)}]]

\* The fold is defined.
LEMMA FoldedExists ==
  ASSUME NEW f, NEW S, IsFiniteSet(S)
  PROVE  Folding(Folded(f, S), f, S)
<1> DEFINE N == {n \in Nat : \E g : PartFolding(g, f, S, n)}
<1>1. \A T \in SUBSET S : IsFiniteSet(T) /\ Cardinality(T) \in Nat
  BY FS_Subset, FS_CardinalityType
<1>2. 0 \in N
  <2>1. \A T \in Small(S, 0) : T = {}
    BY <1>1, FS_EmptySet DEF Small
  <2>2. PartFolding([T \in Small(S, 0) |-> 0], f, S, 0)
    BY <2>1 DEF PartFolding
  <2> QED
    BY <2>2
<1>3. ASSUME NEW n \in Nat, n \in N PROVE n + 1 \in N
  <2>1. PICK g : PartFolding(g, f, S, n)
    BY <1>3
  <2> DEFINE h == [T \in Small(S, n + 1) |-> IF T = {} THEN 0 ELSE f[PickOne(T)] + g[T \ {PickOne(T)}]]
  <2>2. ASSUME NEW T \in Small(S, n + 1), T # {} PROVE h[T \ {PickOne(T)}] = g[T \ {PickOne(T)}]
    <3> DEFINE U == T \ {PickOne(T)}
    <3>1. PickOne(T) \in T
      BY <2>2, PickedIn
    <3>2. U \in SUBSET S /\ Cardinality(U) <= n
      BY <1>1, <3>1, FS_RemoveElement DEF Small
    <3>3. U \in Small(S, n) /\ U \in Small(S, n + 1)
      BY <1>1, <3>2 DEF Small
    <3> QED
      BY <2>1, <3>3 DEF PartFolding
  <2>3. PartFolding(h, f, S, n + 1)
    BY <2>2 DEF PartFolding
  <2> HIDE DEF h
  <2> QED
    BY <2>3
<1> HIDE DEF N
<1>4. Nat \subseteq N
  BY <1>2, <1>3, InduceOnNat
<1>5. Cardinality(S) \in N
  BY <1>1, <1>4
<1>6. PICK g : PartFolding(g, f, S, Cardinality(S))
  BY <1>5 DEF N
<1>7. Small(S, Cardinality(S)) = SUBSET S
  BY FS_Subset DEF Small
<1>8. Folding(g, f, S)
  BY <1>6, <1>7 DEF Folding, PartFolding
<1> QED
  BY <1>8 DEF Folded

\* The fold of a set is its first element and the fold of the rest.
LEMMA FoldStep ==
  ASSUME NEW f, NEW S, IsFiniteSet(S), NEW T \in SUBSET S
  PROVE  Folded(f, S)[T] = IF T = {} THEN 0 ELSE f[PickOne(T)] + Folded(f, S)[T \ {PickOne(T)}]
<1> DEFINE g == Folded(f, S)
<1>1. Folding(g, f, S)
  BY FoldedExists
<1> HIDE DEF g
<1>2. g[T] = IF T = {} THEN 0 ELSE f[PickOne(T)] + g[T \ {PickOne(T)}]
  BY <1>1 DEF Folding
<1> QED
  BY <1>2 DEF g

\* A part of the fold is the fold of the part.
LEMMA FoldOfPart ==
  ASSUME NEW f, NEW S, IsFiniteSet(S), NEW U \in SUBSET S
  PROVE  Folded(f, S)[U] = SumFunctionOnSet(f, U)
<1> DEFINE P == {T \in SUBSET U : Folded(f, S)[T] = Folded(f, U)[T]}
<1>1. IsFiniteSet(U)
  BY FS_Subset
<1>2. {} \in P
  BY <1>1, FoldStep
<1>3. ASSUME NEW T \in SUBSET U, T # {}, \A x \in T : T \ {x} \in P PROVE T \in P
  <2>1. PickOne(T) \in T
    BY <1>3, PickedIn
  <2>2. Folded(f, S)[T \ {PickOne(T)}] = Folded(f, U)[T \ {PickOne(T)}]
    BY <1>3, <2>1
  <2>3. T \in SUBSET S /\ T \in SUBSET U
    OBVIOUS
  <2>4. Folded(f, S)[T] = IF T = {} THEN 0 ELSE f[PickOne(T)] + Folded(f, S)[T \ {PickOne(T)}]
    BY <2>3, FoldStep
  <2>5. Folded(f, U)[T] = IF T = {} THEN 0 ELSE f[PickOne(T)] + Folded(f, U)[T \ {PickOne(T)}]
    BY <1>1, <2>3, FoldStep
  <2> QED
    BY <1>3, <2>2, <2>4, <2>5
<1> HIDE DEF P
<1>4. SUBSET U \subseteq P
  BY <1>1, <1>2, <1>3, InduceOnSize
<1> QED
  BY <1>1, <1>4, SumIsFolded DEF P

\* Nothing sums up to zero.
LEMMA SumOfNone == ASSUME NEW f PROVE SumFunctionOnSet(f, {}) = 0
  BY FS_EmptySet, FoldStep, SumIsFolded

\* A sum is the term of the first element and the sum of the rest.
LEMMA SumStep ==
  ASSUME NEW f, NEW S, IsFiniteSet(S), S # {}
  PROVE  PickOne(S) \in S /\ SumFunctionOnSet(f, S) = f[PickOne(S)] + SumFunctionOnSet(f, S \ {PickOne(S)})
<1>1. PickOne(S) \in S
  BY PickedIn
<1>2. Folded(f, S)[S] = f[PickOne(S)] + Folded(f, S)[S \ {PickOne(S)}]
  BY FoldStep
<1>3. Folded(f, S)[S \ {PickOne(S)}] = SumFunctionOnSet(f, S \ {PickOne(S)})
  BY FoldOfPart
<1> QED
  BY <1>1, <1>2, <1>3, SumIsFolded

\* A sum of integers is an integer.
LEMMA SumType ==
  ASSUME NEW f, NEW S, IsFiniteSet(S), \A x \in S : f[x] \in Int
  PROVE  SumFunctionOnSet(f, S) \in Int
<1> DEFINE P == {T \in SUBSET S : SumFunctionOnSet(f, T) \in Int}
<1>1. {} \in P
  BY SumOfNone
<1>2. ASSUME NEW T \in SUBSET S, T # {}, \A x \in T : T \ {x} \in P PROVE T \in P
  <2>1. IsFiniteSet(T)
    BY FS_Subset
  <2>2. PickOne(T) \in T /\ SumFunctionOnSet(f, T) = f[PickOne(T)] + SumFunctionOnSet(f, T \ {PickOne(T)})
    BY <1>2, <2>1, SumStep
  <2>3. SumFunctionOnSet(f, T \ {PickOne(T)}) \in Int
    BY <1>2, <2>2
  <2> QED
    BY <2>2, <2>3
<1> HIDE DEF P
<1>3. SUBSET S \subseteq P
  BY <1>1, <1>2, InduceOnSize
<1> QED
  BY <1>3 DEF P

\* The order of the fold does not matter.
LEMMA SumSplit ==
  ASSUME NEW f, NEW S, IsFiniteSet(S), \A x \in S : f[x] \in Int, NEW y \in S
  PROVE  SumFunctionOnSet(f, S) = f[y] + SumFunctionOnSet(f, S \ {y})
<1> DEFINE P == {T \in SUBSET S : \A x \in T : SumFunctionOnSet(f, T) = f[x] + SumFunctionOnSet(f, T \ {x})}
<1>1. {} \in P
  OBVIOUS
<1>2. ASSUME NEW T \in SUBSET S, T # {}, \A x \in T : T \ {x} \in P PROVE T \in P
  <2> SUFFICES ASSUME NEW x \in T PROVE SumFunctionOnSet(f, T) = f[x] + SumFunctionOnSet(f, T \ {x})
    OBVIOUS
  <2> DEFINE c == PickOne(T)
  <2>1. \A U \in SUBSET T : IsFiniteSet(U) /\ SumFunctionOnSet(f, U) \in Int
    BY FS_Subset, SumType
  <2>2. c \in T /\ SumFunctionOnSet(f, T) = f[c] + SumFunctionOnSet(f, T \ {c})
    BY <1>2, <2>1, SumStep
  <2> HIDE DEF c
  <2>3. CASE c = x
    BY <2>2, <2>3
  <2>4. CASE c # x
    <3>1. x \in T \ {c} /\ T \ {c} \in P
      BY <1>2, <2>2, <2>4
    <3>2. SumFunctionOnSet(f, T \ {c}) = f[x] + SumFunctionOnSet(f, (T \ {c}) \ {x})
      BY <3>1
    <3>3. c \in T \ {x} /\ T \ {x} \in P
      BY <1>2, <2>2, <2>4
    <3>4. SumFunctionOnSet(f, T \ {x}) = f[c] + SumFunctionOnSet(f, (T \ {x}) \ {c})
      BY <3>3
    <3>5. (T \ {x}) \ {c} = (T \ {c}) \ {x}
      OBVIOUS
    <3>6. SumFunctionOnSet(f, (T \ {c}) \ {x}) \in Int /\ f[x] \in Int /\ f[c] \in Int
      BY <2>1, <2>2
    <3>7. SumFunctionOnSet(f, T) = f[c] + (f[x] + SumFunctionOnSet(f, (T \ {c}) \ {x}))
      BY <2>2, <3>2
    <3>8. SumFunctionOnSet(f, T \ {x}) = f[c] + SumFunctionOnSet(f, (T \ {c}) \ {x})
      BY <3>4, <3>5
    <3>9. \A a, b, d \in Int : a + (b + d) = b + (a + d)
      OBVIOUS
    <3> QED
      BY <3>6, <3>7, <3>8, <3>9
  <2> QED
    BY <2>3, <2>4
<1> HIDE DEF P
<1>3. SUBSET S \subseteq P
  BY <1>1, <1>2, InduceOnSize
<1> QED
  BY <1>3 DEF P

\* Nothing but zeros sums up to zero.
LEMMA SumOfZeros ==
  ASSUME NEW f, NEW S, IsFiniteSet(S), \A x \in S : f[x] = 0
  PROVE  SumFunctionOnSet(f, S) = 0
<1> DEFINE P == {T \in SUBSET S : SumFunctionOnSet(f, T) = 0}
<1>1. {} \in P
  BY SumOfNone
<1>2. ASSUME NEW T \in SUBSET S, T # {}, \A x \in T : T \ {x} \in P PROVE T \in P
  <2>1. IsFiniteSet(T)
    BY FS_Subset
  <2>2. PickOne(T) \in T /\ SumFunctionOnSet(f, T) = f[PickOne(T)] + SumFunctionOnSet(f, T \ {PickOne(T)})
    BY <1>2, <2>1, SumStep
  <2>3. SumFunctionOnSet(f, T \ {PickOne(T)}) = 0
    BY <1>2, <2>2
  <2> QED
    BY <2>2, <2>3
<1> HIDE DEF P
<1>3. SUBSET S \subseteq P
  BY <1>1, <1>2, InduceOnSize
<1> QED
  BY <1>3 DEF P

\* Functions that agree have the same total.
LEMMA SumAgrees ==
  ASSUME NEW f, NEW g, NEW S, IsFiniteSet(S), \A x \in S : f[x] = g[x]
  PROVE  SumFunctionOnSet(f, S) = SumFunctionOnSet(g, S)
<1> DEFINE P == {T \in SUBSET S : SumFunctionOnSet(f, T) = SumFunctionOnSet(g, T)}
<1>1. {} \in P
  BY SumOfNone
<1>2. ASSUME NEW T \in SUBSET S, T # {}, \A x \in T : T \ {x} \in P PROVE T \in P
  <2>1. IsFiniteSet(T)
    BY FS_Subset
  <2>2. /\ PickOne(T) \in T
        /\ SumFunctionOnSet(f, T) = f[PickOne(T)] + SumFunctionOnSet(f, T \ {PickOne(T)})
        /\ SumFunctionOnSet(g, T) = g[PickOne(T)] + SumFunctionOnSet(g, T \ {PickOne(T)})
    BY <1>2, <2>1, SumStep
  <2>3. SumFunctionOnSet(f, T \ {PickOne(T)}) = SumFunctionOnSet(g, T \ {PickOne(T)})
    BY <1>2, <2>2
  <2> QED
    BY <2>2, <2>3
<1> HIDE DEF P
<1>3. SUBSET S \subseteq P
  BY <1>1, <1>2, InduceOnSize
<1> QED
  BY <1>3 DEF P

\* Terms that are not greater have a sum that is not greater.
LEMMA SumGrows ==
  ASSUME NEW f, NEW g, NEW S, IsFiniteSet(S), \A x \in S : f[x] \in Int /\ g[x] \in Int /\ f[x] <= g[x]
  PROVE  SumFunctionOnSet(f, S) <= SumFunctionOnSet(g, S)
<1> DEFINE P == {T \in SUBSET S : SumFunctionOnSet(f, T) <= SumFunctionOnSet(g, T)}
<1>1. {} \in P
  BY SumOfNone
<1>2. ASSUME NEW T \in SUBSET S, T # {}, \A x \in T : T \ {x} \in P PROVE T \in P
  <2>1. IsFiniteSet(T) /\ IsFiniteSet(T \ {PickOne(T)})
    BY FS_Subset
  <2>2. /\ PickOne(T) \in T
        /\ SumFunctionOnSet(f, T) = f[PickOne(T)] + SumFunctionOnSet(f, T \ {PickOne(T)})
        /\ SumFunctionOnSet(g, T) = g[PickOne(T)] + SumFunctionOnSet(g, T \ {PickOne(T)})
    BY <1>2, <2>1, SumStep
  <2>3. SumFunctionOnSet(f, T \ {PickOne(T)}) <= SumFunctionOnSet(g, T \ {PickOne(T)})
    BY <1>2, <2>2
  <2>4. SumFunctionOnSet(f, T \ {PickOne(T)}) \in Int /\ SumFunctionOnSet(g, T \ {PickOne(T)}) \in Int
    BY <2>1, SumType
  <2> QED
    BY <2>2, <2>3, <2>4
<1> HIDE DEF P
<1>3. SUBSET S \subseteq P
  BY <1>1, <1>2, InduceOnSize
<1> QED
  BY <1>3 DEF P

\* One place changes, and the total changes as much.
LEMMA SumChange ==
  ASSUME NEW f, NEW g, NEW S, IsFiniteSet(S), NEW y \in S,
         \A x \in S : f[x] \in Int /\ g[x] \in Int, \A x \in S \ {y} : f[x] = g[x]
  PROVE  /\ SumFunctionOnSet(f, S) \in Int /\ SumFunctionOnSet(g, S) \in Int
         /\ SumFunctionOnSet(g, S) = (SumFunctionOnSet(f, S) - f[y]) + g[y]
<1>1. IsFiniteSet(S \ {y})
  BY FS_Subset
<1>2. SumFunctionOnSet(f, S) \in Int /\ SumFunctionOnSet(g, S) \in Int /\ SumFunctionOnSet(f, S \ {y}) \in Int
  BY <1>1, SumType
<1>3. SumFunctionOnSet(f, S) = f[y] + SumFunctionOnSet(f, S \ {y}) /\ SumFunctionOnSet(g, S) = g[y] + SumFunctionOnSet(g, S \ {y})
  BY SumSplit
<1>4. SumFunctionOnSet(f, S \ {y}) = SumFunctionOnSet(g, S \ {y})
  BY <1>1, SumAgrees
<1> QED
  BY <1>2, <1>3, <1>4

\* Two places change.
LEMMA SumExchange ==
  ASSUME NEW f, NEW g, NEW S, IsFiniteSet(S), NEW y \in S, NEW z \in S, y # z,
         \A x \in S : f[x] \in Int /\ g[x] \in Int, \A x \in S \ {y, z} : f[x] = g[x]
  PROVE  /\ SumFunctionOnSet(f, S) \in Int /\ SumFunctionOnSet(g, S) \in Int
         /\ SumFunctionOnSet(g, S) = (SumFunctionOnSet(f, S) + (g[y] - f[y])) + (g[z] - f[z])
<1> DEFINE h == [x \in S |-> IF x = y THEN g[y] ELSE f[x]]
<1>1. \A x \in S : h[x] \in Int
  OBVIOUS
<1>2. \A x \in S \ {y} : f[x] = h[x]
  OBVIOUS
<1>3. \A x \in S \ {z} : h[x] = g[x]
  OBVIOUS
<1>4. h[y] = g[y] /\ h[z] = f[z]
  OBVIOUS
<1> HIDE DEF h
<1>5. SumFunctionOnSet(f, S) \in Int /\ SumFunctionOnSet(h, S) \in Int /\ SumFunctionOnSet(h, S) = (SumFunctionOnSet(f, S) - f[y]) + h[y]
  BY <1>1, <1>2, SumChange
<1>6. SumFunctionOnSet(g, S) \in Int /\ SumFunctionOnSet(g, S) = (SumFunctionOnSet(h, S) - h[z]) + g[z]
  BY <1>1, <1>3, SumChange
<1>7. f[y] \in Int /\ f[z] \in Int /\ g[y] \in Int /\ g[z] \in Int
  OBVIOUS
<1> QED
  BY <1>4, <1>5, <1>6, <1>7

\* A sum of natural numbers is one, and is not less than one or two of its terms.
LEMMA SumCovers ==
  ASSUME NEW f, NEW S, IsFiniteSet(S), \A x \in S : f[x] \in Nat
  PROVE  /\ SumFunctionOnSet(f, S) \in Nat
         /\ \A y \in S : f[y] <= SumFunctionOnSet(f, S)
         /\ \A y, z \in S : y # z => f[y] + f[z] <= SumFunctionOnSet(f, S)
<1> DEFINE zero == [x \in S |-> 0]
           P == {T \in SUBSET S : SumFunctionOnSet(f, T) \in Nat}
<1>1. \A T \in SUBSET S : IsFiniteSet(T)
  BY FS_Subset
<1>2. \A T \in SUBSET S : SumFunctionOnSet(f, T) \in Nat
  <2>1. {} \in P
    BY SumOfNone
  <2>2. ASSUME NEW T \in SUBSET S, T # {}, \A x \in T : T \ {x} \in P PROVE T \in P
    <3>1. PickOne(T) \in T /\ SumFunctionOnSet(f, T) = f[PickOne(T)] + SumFunctionOnSet(f, T \ {PickOne(T)})
      BY <1>1, <2>2, SumStep
    <3>2. SumFunctionOnSet(f, T \ {PickOne(T)}) \in Nat
      BY <2>2, <3>1
    <3> QED
      BY <3>1, <3>2
  <2> HIDE DEF P
  <2>3. SUBSET S \subseteq P
    BY <2>1, <2>2, InduceOnSize
  <2> QED
    BY <2>3 DEF P
<1>3. ASSUME NEW T \in SUBSET S, NEW y \in T
      PROVE  SumFunctionOnSet(f, T) = f[y] + SumFunctionOnSet(f, T \ {y})
  <2>1. IsFiniteSet(T) /\ \A x \in T : f[x] \in Int
    BY <1>1
  <2> QED
    BY <2>1, SumSplit
<1>4. ASSUME NEW y \in S PROVE f[y] <= SumFunctionOnSet(f, S)
  <2>1. SumFunctionOnSet(f, S) = f[y] + SumFunctionOnSet(f, S \ {y})
    BY <1>3
  <2>2. SumFunctionOnSet(f, S \ {y}) \in Nat
    BY <1>2
  <2> QED
    BY <2>1, <2>2
<1>5. ASSUME NEW y \in S, NEW z \in S, y # z PROVE f[y] + f[z] <= SumFunctionOnSet(f, S)
  <2>1. SumFunctionOnSet(f, S) = f[y] + SumFunctionOnSet(f, S \ {y})
    BY <1>3
  <2>2. S \ {y} \in SUBSET S /\ z \in S \ {y}
    BY <1>5
  <2>3. SumFunctionOnSet(f, S \ {y}) = f[z] + SumFunctionOnSet(f, (S \ {y}) \ {z})
    BY <1>3, <2>2
  <2>4. SumFunctionOnSet(f, (S \ {y}) \ {z}) \in Nat
    BY <1>2
  <2> QED
    BY <2>1, <2>3, <2>4
<1> QED
  BY <1>2, <1>4, <1>5

\* Summing over a part is summing with zeros elsewhere.
LEMMA SumOfPart ==
  ASSUME NEW f, NEW S, IsFiniteSet(S), NEW T \in SUBSET S, \A x \in T : f[x] \in Int
  PROVE  SumFunctionOnSet(f, T) = SumFunctionOnSet([x \in S |-> IF x \in T THEN f[x] ELSE 0], S)
<1> DEFINE h == [x \in S |-> IF x \in T THEN f[x] ELSE 0]
           P == {U \in SUBSET S : SumFunctionOnSet(f, U \cap T) = SumFunctionOnSet(h, U)}
<1>0. \A x \in S : h[x] \in Int /\ (x \in T => h[x] = f[x]) /\ (x \notin T => h[x] = 0)
  OBVIOUS
<1> HIDE DEF h
<1>1. {} \in P
  <2>1. {} \cap T = {}
    OBVIOUS
  <2> QED
    BY <2>1, SumOfNone
<1>2. ASSUME NEW U \in SUBSET S, U # {}, \A x \in U : U \ {x} \in P PROVE U \in P
  <2>1. /\ IsFiniteSet(U) /\ IsFiniteSet(U \cap T) /\ IsFiniteSet(U \ {PickOne(U)})
        /\ U \cap T \in SUBSET S
    BY FS_Subset
  <2> DEFINE c == PickOne(U)
  <2>2. c \in U /\ SumFunctionOnSet(h, U) = h[c] + SumFunctionOnSet(h, U \ {c})
    BY <1>2, <2>1, SumStep
  <2> HIDE DEF c
  <2>3. SumFunctionOnSet(f, (U \ {c}) \cap T) = SumFunctionOnSet(h, U \ {c})
    BY <1>2, <2>2
  <2>4. CASE c \in T
    <3>1. c \in U \cap T /\ \A x \in U \cap T : f[x] \in Int
      BY <2>2, <2>4
    <3>2. SumFunctionOnSet(f, U \cap T) = f[c] + SumFunctionOnSet(f, (U \cap T) \ {c})
      BY <2>1, <3>1, SumSplit
    <3>3. (U \cap T) \ {c} = (U \ {c}) \cap T
      OBVIOUS
    <3>4. h[c] = f[c]
      BY <1>0, <2>2, <2>4
    <3> QED
      BY <2>2, <2>3, <3>2, <3>3, <3>4
  <2>5. CASE c \notin T
    <3>1. U \cap T = (U \ {c}) \cap T
      BY <2>5
    <3>2. h[c] = 0
      BY <1>0, <2>2, <2>5
    <3>3. SumFunctionOnSet(h, U \ {c}) \in Int
      <4>1. IsFiniteSet(U \ {c}) /\ \A x \in U \ {c} : h[x] \in Int
        BY <1>0, <2>1 DEF c
      <4> QED
        BY <4>1, SumType
    <3>4. SumFunctionOnSet(h, U) = SumFunctionOnSet(h, U \ {c})
      BY <2>2, <3>2, <3>3
    <3>5. SumFunctionOnSet(f, U \cap T) = SumFunctionOnSet(f, (U \ {c}) \cap T)
      BY <3>1
    <3> QED
      BY <2>3, <3>4, <3>5
  <2> QED
    BY <2>4, <2>5
<1> HIDE DEF P
<1>3. SUBSET S \subseteq P
  BY <1>1, <1>2, InduceOnSize
<1>4. S \cap T = T
  OBVIOUS
<1> QED
  BY <1>3, <1>4 DEF P, h

\* The sum of two functions' sums is that of their terms' sums.
LEMMA SumAdds ==
  ASSUME NEW f, NEW g, NEW h, NEW S, IsFiniteSet(S),
         \A x \in S : g[x] \in Int /\ h[x] \in Int /\ f[x] = g[x] + h[x]
  PROVE  SumFunctionOnSet(f, S) = SumFunctionOnSet(g, S) + SumFunctionOnSet(h, S)
<1> DEFINE P == {T \in SUBSET S : SumFunctionOnSet(f, T) = SumFunctionOnSet(g, T) + SumFunctionOnSet(h, T)}
<1>1. {} \in P
  BY SumOfNone
<1>2. ASSUME NEW T \in SUBSET S, T # {}, \A x \in T : T \ {x} \in P PROVE T \in P
  <2>1. IsFiniteSet(T) /\ IsFiniteSet(T \ {PickOne(T)})
    BY FS_Subset
  <2> DEFINE c == PickOne(T)
             U == T \ {c}
  <2>2. /\ c \in T
        /\ SumFunctionOnSet(f, T) = f[c] + SumFunctionOnSet(f, U)
        /\ SumFunctionOnSet(g, T) = g[c] + SumFunctionOnSet(g, U)
        /\ SumFunctionOnSet(h, T) = h[c] + SumFunctionOnSet(h, U)
    BY <1>2, <2>1, SumStep
  <2> HIDE DEF c
  <2>3. SumFunctionOnSet(f, U) = SumFunctionOnSet(g, U) + SumFunctionOnSet(h, U)
    BY <1>2, <2>2
  <2>4. SumFunctionOnSet(g, U) \in Int /\ SumFunctionOnSet(h, U) \in Int
    <3>1. IsFiniteSet(U) /\ \A x \in U : g[x] \in Int /\ h[x] \in Int
      BY <2>1 DEF c
    <3> QED
      BY <3>1, SumType
  <2>5. f[c] = g[c] + h[c] /\ g[c] \in Int /\ h[c] \in Int
    BY <2>2
  <2>6. \A a, b, x, y \in Int : (a + b) + (x + y) = (a + x) + (b + y)
    OBVIOUS
  <2>7. SumFunctionOnSet(f, T) = (g[c] + h[c]) + (SumFunctionOnSet(g, U) + SumFunctionOnSet(h, U))
    BY <2>2, <2>3, <2>5
  <2>8. SumFunctionOnSet(f, T) = (g[c] + SumFunctionOnSet(g, U)) + (h[c] + SumFunctionOnSet(h, U))
    BY <2>4, <2>5, <2>6, <2>7
  <2> QED
    BY <2>2, <2>8
<1> HIDE DEF P
<1>3. SUBSET S \subseteq P
  BY <1>1, <1>2, InduceOnSize
<1> QED
  BY <1>3 DEF P

----------------------------------------------------------------------------
(* Sums over the whole domain of a function *)

\* A sum of natural numbers is one and covers any one or two of them.
LEMMA SumOverAll ==
    ASSUME NEW S, IsFiniteSet(S), NEW f \in [S -> Nat]
    PROVE  /\ SumFunction(f) \in Nat
           /\ \A p \in S : f[p] <= SumFunction(f)
           /\ \A p, q \in S : p # q => f[p] + f[q] <= SumFunction(f)
<1>1. SumFunction(f) = SumFunctionOnSet(f, S)
  BY DEF SumFunction
<1>2. \A p \in S : f[p] \in Nat
  OBVIOUS
<1> QED
  BY <1>1, <1>2, SumCovers

\* One term changes.
LEMMA OneTerm ==
    ASSUME NEW S, IsFiniteSet(S), NEW f \in [S -> Nat], NEW g \in [S -> Nat], NEW p \in S,
           \A q \in S \ {p} : f[q] = g[q]
    PROVE  SumFunction(g) = (SumFunction(f) - f[p]) + g[p]
<1>1. SumFunction(f) = SumFunctionOnSet(f, S) /\ SumFunction(g) = SumFunctionOnSet(g, S)
  BY DEF SumFunction
<1>2. \A q \in S : f[q] \in Int /\ g[q] \in Int
  OBVIOUS
<1> QED
  BY <1>1, <1>2, SumChange

\* Two terms change, and not what they make up together.
LEMMA TwoTerms ==
    ASSUME NEW S, IsFiniteSet(S), NEW f \in [S -> Nat], NEW g \in [S -> Nat],
           NEW p \in S, NEW q \in S, p # q,
           \A r \in S \ {p, q} : f[r] = g[r],
           g[p] + g[q] = f[p] + f[q]
    PROVE  SumFunction(g) = SumFunction(f)
<1>1. SumFunction(f) = SumFunctionOnSet(f, S) /\ SumFunction(g) = SumFunctionOnSet(g, S)
  BY DEF SumFunction
<1>2. \A r \in S : f[r] \in Int /\ g[r] \in Int
  OBVIOUS
<1>3. /\ SumFunctionOnSet(f, S) \in Int /\ SumFunctionOnSet(g, S) \in Int
      /\ SumFunctionOnSet(g, S) = (SumFunctionOnSet(f, S) + (g[p] - f[p])) + (g[q] - f[q])
  BY <1>2, SumExchange
<1>4. \A a, b, c, d, s \in Int : b + d = a + c => (s + (b - a)) + (d - c) = s
  OBVIOUS
<1> QED
  BY <1>1, <1>2, <1>3, <1>4

\* A term is added at the end of a list.
LEMMA OneMore ==
    ASSUME NEW n \in Nat, NEW f \in [1..n -> Nat], NEW g \in [1..n + 1 -> Nat], \A i \in 1..n : f[i] = g[i]
    PROVE  SumFunction(g) = SumFunction(f) + g[n + 1]
<1> DEFINE S == 1..n + 1
           T == 1..n
<1>0. n + 1 \in S /\ S \ {n + 1} = T
  OBVIOUS
<1>1. SumFunction(f) = SumFunctionOnSet(f, T) /\ SumFunction(g) = SumFunctionOnSet(g, S)
  BY DEF SumFunction
<1>2. IsFiniteSet(S) /\ IsFiniteSet(T)
  BY FS_Interval
<1>3. \A x \in S : g[x] \in Int
  OBVIOUS
<1>4. \A x \in T : f[x] = g[x] /\ f[x] \in Int
  OBVIOUS
<1> HIDE DEF S, T
<1>5. SumFunctionOnSet(g, S) = g[n + 1] + SumFunctionOnSet(g, T)
  BY <1>0, <1>2, <1>3, SumSplit
<1>6. SumFunctionOnSet(f, T) = SumFunctionOnSet(g, T) /\ SumFunctionOnSet(f, T) \in Int
  BY <1>2, <1>4, SumAgrees, SumType
<1>7. g[n + 1] \in Int
  BY <1>0, <1>3
<1> QED
  BY <1>1, <1>5, <1>6, <1>7

\* Some terms go.
LEMMA SomeGone ==
    ASSUME NEW S, IsFiniteSet(S), NEW f \in [S -> Nat], NEW g \in [S -> Nat], NEW T, T \subseteq S,
           \A x \in S : x \in T => g[x] = 0, \A x \in S : x \notin T => g[x] = f[x]
    PROVE  SumFunction(f) = SumFunction(g) + SumFunctionOnSet(f, T)
<1> DEFINE h == [x \in S |-> IF x \in T THEN f[x] ELSE 0]
<1>1. SumFunction(f) = SumFunctionOnSet(f, S) /\ SumFunction(g) = SumFunctionOnSet(g, S)
  BY DEF SumFunction
<1>2. SumFunctionOnSet(f, T) = SumFunctionOnSet(h, S)
  BY SumOfPart
<1>3. \A x \in S : g[x] \in Int /\ h[x] \in Int /\ f[x] = g[x] + h[x]
  OBVIOUS
<1> HIDE DEF h
<1>4. SumFunctionOnSet(f, S) = SumFunctionOnSet(g, S) + SumFunctionOnSet(h, S)
  BY <1>3, SumAdds
<1> QED
  BY <1>1, <1>2, <1>4

\* The sum of a single term.
LEMMA SumOfOne == ASSUME NEW f, NEW x, f[x] \in Int PROVE SumFunctionOnSet(f, {x}) = f[x]
<1>1. IsFiniteSet({x}) /\ {x} \ {x} = {}
  BY FS_Singleton
<1>2. SumFunctionOnSet(f, {x}) = f[x] + SumFunctionOnSet(f, {x} \ {x})
  BY <1>1, SumSplit
<1> QED
  BY <1>1, <1>2, SumOfNone

\* The same terms in another order.
LEMMA SumPermuted ==
  ASSUME NEW S, IsFiniteSet(S), NEW f, NEW g, NEW p \in [S -> S], \A x, y \in S : p[x] = p[y] => x = y,
         \A x \in S : \E y \in S : p[y] = x, \A x \in S : g[x] \in Int /\ f[x] = g[p[x]]
  PROVE  SumFunctionOnSet(f, S) = SumFunctionOnSet(g, S)
<1> DEFINE To(T) == {p[x] : x \in T}
           P == {T \in SUBSET S : SumFunctionOnSet(f, T) = SumFunctionOnSet(g, To(T))}
<1>1. {} \in P
  <2>1. To({}) = {}
    OBVIOUS
  <2> QED
    BY <2>1, SumOfNone
<1>2. ASSUME NEW T \in SUBSET S, T # {}, \A x \in T : T \ {x} \in P PROVE T \in P
  <2>1. IsFiniteSet(T) /\ To(T) \in SUBSET S /\ IsFiniteSet(To(T))
    <3>1. To(T) \in SUBSET S
      OBVIOUS
    <3> QED
      BY <3>1, FS_Subset
  <2> DEFINE c == PickOne(T)
  <2>2. c \in T /\ SumFunctionOnSet(f, T) = f[c] + SumFunctionOnSet(f, T \ {c})
    BY <1>2, <2>1, SumStep
  <2> HIDE DEF c
  <2>3. SumFunctionOnSet(f, T \ {c}) = SumFunctionOnSet(g, To(T \ {c}))
    BY <1>2, <2>2
  <2>4. To(T \ {c}) = To(T) \ {p[c]} /\ p[c] \in To(T)
    BY <2>2
  <2>5. \A x \in To(T) : g[x] \in Int
    BY <2>1
  <2> HIDE DEF To
  <2>6. SumFunctionOnSet(g, To(T)) = g[p[c]] + SumFunctionOnSet(g, To(T) \ {p[c]})
    BY <2>1, <2>4, <2>5, SumSplit
  <2>7. f[c] = g[p[c]]
    BY <2>2
  <2>8. SumFunctionOnSet(f, T) = SumFunctionOnSet(g, To(T))
    BY <2>2, <2>3, <2>4, <2>6, <2>7
  <2> QED
    BY <2>8
<1>3. To(S) = S
  OBVIOUS
<1> HIDE DEF P
<1>4. SUBSET S \subseteq P
  BY <1>1, <1>2, InduceOnSize
<1>5. S \in P
  BY <1>4
<1> QED
  BY <1>3, <1>5 DEF P
=============================================================================
