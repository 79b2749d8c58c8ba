----------------------------- MODULE MobProofs -----------------------------
(***************************************************************************)
(* Proofs about the life and death of a mob, for any players, HP and       *)
(* number of deaths dealt with at the same time; and about the dungeons    *)
(* they live in, for any leaders, followers and servers.                   *)
(***************************************************************************)
EXTENDS Mob, Dungeon, Sums, FiniteSetTheorems, TLAPS

\* The two ways a look at the mob can end, with the HP it saw.
LEMMA LookEnds ==
    ASSUME NEW hp, CheckMobDead(hp)
    PROVE  \/ hp = 0 /\ \E d \in Deaths : Die(d)
           \/ hp # 0 /\ Live
  BY DEF CheckMobDead

\* What is left of HP by a blow is never more than the mob had.
LEMMA LeftIsLess ==
    ASSUME TypeOK, NEW dmg \in 0..MaxHp
    PROVE  Left(dmg) \in 0..MaxHp
  BY MobAssumption DEF Left, TypeOK

\* A death keeps the types of what it changes.
LEMMA DieTypes ==
    ASSUME TypeOK, NEW d \in Deaths, Die(d)
    PROVE  /\ Once' \in BOOLEAN /\ handled' \in BOOLEAN
           /\ poisoned' \in Players \cup {NoOne}
           /\ paying' \subseteq Deaths /\ respawns' \subseteq Deaths
           /\ crossed' \in BOOLEAN
  BY DEF TypeOK, Die, Ends, Return, Deaths, Busy

LEMMA LookTypes ==
    ASSUME TypeOK, NEW hp, CheckMobDead(hp)
    PROVE  /\ Once' \in BOOLEAN /\ handled' \in BOOLEAN
           /\ poisoned' \in Players \cup {NoOne}
           /\ paying' \subseteq Deaths /\ respawns' \subseteq Deaths
           /\ crossed' \in BOOLEAN
  <1>1. CASE \E d \in Deaths : Die(d)
    BY <1>1, DieTypes
  <1>2. CASE Live
    BY <1>2 DEF Live, TypeOK
  <1> QED
    BY <1>1, <1>2, LookEnds

LEMMA TypeStep == ASSUME TypeOK, [Next]_vars PROVE TypeOK'
  <1> USE MobAssumption
  <1>1. ASSUME NEW c \in Players, NEW dmg \in 0..MaxHp, DealDamage(c, dmg) PROVE TypeOK'
    <2>1. aim' \in [Hands -> 0..MaxHp \cup {Unset}]
      BY <1>1, LeftIsLess DEF DealDamage, TypeOK
    <2> QED
      BY <1>1, <2>1 DEF DealDamage, TypeOK, deathVars, historyVars
  <1>2. ASSUME NEW c \in Players, Strike(c) PROVE TypeOK'
    <2>1. aim[c] \in 0..MaxHp
      BY <1>2 DEF Strike, TypeOK, Hands
    <2> QED
      BY <1>2, <2>1 DEF Strike, Noted, TypeOK, deathVars, Revived
  <1>3. ASSUME NEW c \in Players, Cast(c) PROVE TypeOK'
    BY <1>3, LookTypes DEF Cast, Look, TypeOK
  <1>4. ASSUME NEW c \in Players, CastFails(c) PROVE TypeOK'
    BY <1>4 DEF CastFails, TypeOK, deathVars
  <1>5. ASSUME NEW c \in Players, Envenom(c) PROVE TypeOK'
    BY <1>5 DEF Envenom, TypeOK, blowVars, deathVars, historyVars
  <1>6. CASE HandleAIBuffs
    <2>1. aim' \in [Hands -> 0..MaxHp \cup {Unset}]
      BY <1>6, LeftIsLess DEF HandleAIBuffs, TypeOK
    <2>2. DamageDealers' \subseteq Players /\ poisoned' \in Players \cup {NoOne}
      BY <1>6 DEF HandleAIBuffs, TypeOK
    <2> QED
      BY <1>6, <2>1, <2>2 DEF HandleAIBuffs, TypeOK, deathVars, historyVars
  <1>7. CASE PoisonStrike
    <2>1. aim[Poison] \in 0..MaxHp /\ aim' \in [Hands -> 0..MaxHp \cup {Unset}]
      BY <1>7 DEF PoisonStrike, TypeOK, Hands
    <2>2. CASE aim[Poison] = 0
      BY <1>7, <2>1, <2>2, LookTypes DEF PoisonStrike, TypeOK
    <2>3. CASE aim[Poison] # 0
      BY <1>7, <2>1, <2>3 DEF PoisonStrike, TypeOK, Revived
    <2> QED
      BY <2>2, <2>3
  <1>8. CASE AIHandler
    BY <1>8 DEF AIHandler, TypeOK, blowVars, deathVars, historyVars
  <1>9. CASE Retreat
    <2>1. HP' \in 0..MaxHp
      BY <1>9 DEF Retreat
    <2>2. crossed' \in BOOLEAN
      BY <1>9 DEF Retreat
    <2> QED
      BY <1>9, <2>1, <2>2 DEF Retreat, TypeOK, blowVars, deathVars
  <1>10. CASE Act
    BY <1>10 DEF Act, TypeOK, blowVars, deathVars, historyVars
  <1>11. ASSUME NEW d \in Deaths, Reward(d) PROVE TypeOK'
    BY <1>11 DEF Reward, TypeOK, blowVars
  <1>12. ASSUME NEW d \in Deaths, ClearDealers(d) PROVE TypeOK'
    BY <1>12 DEF ClearDealers, TypeOK, blowVars, historyVars
  <1>13. ASSUME NEW d \in Deaths, Disappear(d) PROVE TypeOK'
    BY <1>13 DEF Disappear, TypeOK, blowVars, historyVars
  <1>14. ASSUME NEW d \in Deaths, Respawn(d) PROVE TypeOK'
    <2>1. HP' \in 0..MaxHp
      BY <1>14 DEF Respawn
    <2>2. late' \in BOOLEAN /\ crossed' \in BOOLEAN
      BY <1>14 DEF Respawn
    <2> QED
      BY <1>14, <2>1, <2>2 DEF Respawn, Show, TypeOK, blowVars
  <1>15. CASE UNCHANGED vars
    BY <1>15 DEF TypeOK, vars
  <1> QED
    BY <1>1, <1>2, <1>3, <1>4, <1>5, <1>6, <1>7, <1>8, <1>9, <1>10, <1>11, <1>12, <1>13,
       <1>14, <1>15 DEF Next

\* The types of Mob are kept by every step.
THEOREM TypeCorrect == Spec => []TypeOK
  <1>1. Init => TypeOK
    <2> SUFFICES ASSUME Init PROVE TypeOK
      OBVIOUS
    <2>1. HP \in 0..MaxHp
      BY MobAssumption DEF Init
    <2> QED
      BY <2>1 DEF Init, TypeOK
  <1>2. TypeOK /\ [Next]_vars => TypeOK'
    BY TypeStep
  <1> QED
    BY <1>1, <1>2, PTL DEF Spec

----------------------------------------------------------------------------
(* A dead mob is on its way to a death *)

\* A death that was found is paid for next, and comes back unless it is the last.
LEMMA DieSchedules ==
    ASSUME NEW d \in Deaths, Die(d)
    PROVE  d \in paying' /\ (Once' \/ d \in respawns')
  BY DEF Die, Return

LEMMA ScheduledStep ==
    ASSUME TypeOK, DeadIsScheduled, [Next]_vars
    PROVE  DeadIsScheduled'
  <1> USE MobAssumption
  <1>1. ASSUME NEW c \in Players, NEW dmg \in 0..MaxHp, DealDamage(c, dmg)
        PROVE  DeadIsScheduled'
    BY <1>1 DEF DealDamage, DeadIsScheduled, deathVars, historyVars
  <1>2. ASSUME NEW c \in Players, Strike(c) PROVE DeadIsScheduled'
    BY <1>2 DEF Strike, DeadIsScheduled
  <1>3. ASSUME NEW c \in Players, Cast(c) PROVE DeadIsScheduled'
    <2>1. CASE HP = 0
      BY <1>3, <2>1, LookEnds, DieSchedules DEF Cast, Look, DeadIsScheduled
    <2>2. CASE HP # 0
      BY <1>3, <2>2 DEF Cast, DeadIsScheduled
    <2> QED
      BY <2>1, <2>2
  <1>4. ASSUME NEW c \in Players, CastFails(c) PROVE DeadIsScheduled'
    BY <1>4 DEF CastFails, DeadIsScheduled, TypeOK
  <1>5. ASSUME NEW c \in Players, Envenom(c) PROVE DeadIsScheduled'
    BY <1>5 DEF Envenom, DeadIsScheduled, blowVars, deathVars, historyVars
  <1>6. CASE HandleAIBuffs
    BY <1>6 DEF HandleAIBuffs, DeadIsScheduled, deathVars, historyVars
  <1>7. CASE PoisonStrike
    <2>1. CASE aim[Poison] = 0
      BY <1>7, <2>1, LookEnds, DieSchedules DEF PoisonStrike, DeadIsScheduled
    <2>2. CASE aim[Poison] # 0
      BY <1>7, <2>2 DEF PoisonStrike, DeadIsScheduled
    <2> QED
      BY <2>1, <2>2
  <1>8. CASE AIHandler
    BY <1>8 DEF AIHandler, DeadIsScheduled, blowVars, deathVars, historyVars
  <1>9. CASE Retreat
    BY <1>9 DEF Retreat, DeadIsScheduled
  <1>10. CASE Act
    BY <1>10 DEF Act, DeadIsScheduled, blowVars, deathVars, historyVars
  <1>11. ASSUME NEW d \in Deaths, Reward(d) PROVE DeadIsScheduled'
    BY <1>11 DEF Reward, DeadIsScheduled, blowVars
  <1>12. ASSUME NEW d \in Deaths, ClearDealers(d) PROVE DeadIsScheduled'
    BY <1>12 DEF ClearDealers, DeadIsScheduled, blowVars, historyVars
  <1>13. ASSUME NEW d \in Deaths, Disappear(d) PROVE DeadIsScheduled'
    BY <1>13 DEF Disappear, DeadIsScheduled, blowVars, historyVars
  <1>14. ASSUME NEW d \in Deaths, Respawn(d) PROVE DeadIsScheduled'
    BY <1>14 DEF Respawn, DeadIsScheduled
  <1>15. CASE UNCHANGED vars
    BY <1>15 DEF DeadIsScheduled, vars
  <1> QED
    BY <1>1, <1>2, <1>3, <1>4, <1>5, <1>6, <1>7, <1>8, <1>9, <1>10, <1>11, <1>12, <1>13,
       <1>14, <1>15 DEF Next

\* A mob without HP is about to be looked at, to come back or, if it does not, to be
\* hidden, whichever blows, poison, retreats and timers cross.
THEOREM DeadAreScheduled == Spec => []DeadIsScheduled
  <1>1. Init => DeadIsScheduled
    BY MobAssumption DEF Init, DeadIsScheduled
  <1>2. TypeOK /\ DeadIsScheduled /\ [Next]_vars => DeadIsScheduled'
    BY ScheduledStep
  <1> QED
    BY <1>1, <1>2, TypeCorrect, PTL DEF Spec
----------------------------------------------------------------------------
(* A hidden mob comes back *)

\* Unless a mob came back early, what is still to be done for a death that ends with
\* a respawn is done before that.  Once a boss does not come back nothing is claimed.
PendingInv == (~Once /\ ~late) => paying \cup disappears \cup clears \subseteq respawns

HiddenInv == PendingInv /\ HiddenComesBack

LEMMA LookKeepsHidden ==
    ASSUME TypeOK, HiddenInv, NEW hp, CheckMobDead(hp),
           UNCHANGED <<IsDead, late, disappears, clears>>
    PROVE  HiddenInv'
  <1>1. ASSUME NEW d \in Deaths, Die(d) PROVE HiddenInv'
    <2>1. CASE Once'
      BY <2>1 DEF HiddenInv, PendingInv, HiddenComesBack
    <2>2. CASE ~Once'
      <3>1. ~Once /\ respawns' = respawns \cup {d} /\ paying' = paying \cup {d}
        <4>1. Once' = Once \/ Once' = TRUE
          BY <1>1 DEF Die, Ends
        <4>2. respawns' = respawns \cup {d} /\ paying' = paying \cup {d}
          BY <1>1, <2>2 DEF Die, Return
        <4> QED
          BY <2>2, <4>1, <4>2 DEF TypeOK
      <3> QED
        BY <2>2, <3>1 DEF HiddenInv, PendingInv, HiddenComesBack
    <2> QED
      BY <2>1, <2>2
  <1>2. CASE Live
    BY <1>2 DEF Live, HiddenInv, PendingInv, HiddenComesBack
  <1> QED
    BY <1>1, <1>2, LookEnds

LEMMA HiddenStep ==
    ASSUME TypeOK, HiddenInv, [Next]_vars
    PROVE  HiddenInv'
  <1> USE DEF HiddenInv, PendingInv, HiddenComesBack
  <1>1. ASSUME NEW c \in Players, NEW dmg \in 0..MaxHp, DealDamage(c, dmg)
        PROVE  HiddenInv'
    BY <1>1 DEF DealDamage, deathVars, historyVars
  <1>2. ASSUME NEW c \in Players, Strike(c) PROVE HiddenInv'
    BY <1>2 DEF Strike, deathVars
  <1>3. ASSUME NEW c \in Players, Cast(c) PROVE HiddenInv'
    BY <1>3, LookKeepsHidden DEF Cast, Look
  <1>4. ASSUME NEW c \in Players, CastFails(c) PROVE HiddenInv'
    BY <1>4 DEF CastFails, deathVars
  <1>5. ASSUME NEW c \in Players, Envenom(c) PROVE HiddenInv'
    BY <1>5 DEF Envenom, blowVars, deathVars, historyVars
  <1>6. CASE HandleAIBuffs
    BY <1>6 DEF HandleAIBuffs, deathVars, historyVars
  <1>7. CASE PoisonStrike
    <2>1. CASE aim[Poison] = 0
      BY <1>7, <2>1, LookKeepsHidden DEF PoisonStrike
    <2>2. CASE aim[Poison] # 0
      BY <1>7, <2>2 DEF PoisonStrike
    <2> QED
      BY <2>1, <2>2
  <1>8. CASE AIHandler
    BY <1>8 DEF AIHandler, blowVars, deathVars, historyVars
  <1>9. CASE Retreat
    BY <1>9 DEF Retreat, deathVars
  <1>10. CASE Act
    BY <1>10 DEF Act, deathVars, historyVars
  <1>11. ASSUME NEW d \in Deaths, Reward(d) PROVE HiddenInv'
    BY <1>11 DEF Reward
  <1>12. ASSUME NEW d \in Deaths, ClearDealers(d) PROVE HiddenInv'
    BY <1>12 DEF ClearDealers, historyVars
  <1>13. ASSUME NEW d \in Deaths, Disappear(d) PROVE HiddenInv'
    BY <1>13 DEF Disappear, historyVars
  <1>14. ASSUME NEW d \in Deaths, Respawn(d) PROVE HiddenInv'
    BY <1>14 DEF Respawn, Show
  <1>15. CASE UNCHANGED vars
    BY <1>15 DEF vars
  <1> QED
    BY <1>1, <1>2, <1>3, <1>4, <1>5, <1>6, <1>7, <1>8, <1>9, <1>10, <1>11, <1>12, <1>13,
       <1>14, <1>15 DEF Next

\* A mob that is not shown has a respawn timer, unless a mob came back before its
\* death was over or is not to come back.
THEOREM HiddenReturn == Spec => []HiddenComesBack
  <1>1. Init => HiddenInv
    BY DEF Init, HiddenInv, PendingInv, HiddenComesBack
  <1>2. TypeOK /\ HiddenInv /\ [Next]_vars => HiddenInv'
    BY HiddenStep
  <1>3. HiddenInv => HiddenComesBack
    BY DEF HiddenInv
  <1> QED
    BY <1>1, <1>2, <1>3, TypeCorrect, PTL DEF Spec
----------------------------------------------------------------------------
(* Lives do not meet *)

\* Undisturbed, one death is dealt with at a time and only while the mob has no HP; its
\* list of dealers is cleared after it was read, and again filled by the time the mob
\* may die: by the blow that kills it, or by the poison before it reads HP.
SerialInv ==
    (~crossed /\ ~late) =>
        /\ HP > 0 => Busy = {}
        /\ \A d, e \in Busy : d = e
        /\ paying \cap clears = {}
        /\ paying # {} => DamageDealers # {}
        /\ clears # {} => (disappears # {} \/ IsDead)
        /\ (HP = 0 /\ Busy = {}) => (IsDead \/ DamageDealers # {})
        /\ (HP > 0 /\ aim[Poison] # Unset) => DamageDealers # {}
        /\ ~unclaimed

LEMMA SerialImplies == SerialInv => LivesApart
  BY DEF SerialInv, LivesApart

\* A first death, of a mob that somebody hurt.
LEMMA DieSerial ==
    ASSUME TypeOK, SerialInv, NEW d \in Deaths, Die(d), HP' = 0,
           HP > 0 => DamageDealers # {},
           UNCHANGED <<IsDead, DamageDealers, disappears, clears, late, unclaimed>>
    PROVE  SerialInv'
  <1> SUFFICES ASSUME ~crossed', ~late' PROVE SerialInv'
    BY DEF SerialInv
  <1>1. ~crossed /\ ~late /\ Busy = {} /\ ~IsDead
    BY DEF Die
  <1>2. DamageDealers # {}
    BY <1>1, MobAssumption DEF SerialInv, TypeOK
  <1>3. paying' = {d} /\ respawns' \subseteq {d} /\ disappears' = {} /\ clears' = {}
    BY <1>1 DEF Die, Return, Busy
  <1>4. Busy' = {d}
    BY <1>3 DEF Busy
  <1>5. ~unclaimed'
    BY <1>1 DEF SerialInv
  <1> QED
    BY <1>2, <1>3, <1>4, <1>5 DEF SerialInv

LEMMA SerialStep ==
    ASSUME TypeOK, SerialInv, [Next]_vars
    PROVE  SerialInv'
  <1> USE MobAssumption
  <1>1. ASSUME NEW c \in Players, NEW dmg \in 0..MaxHp, DealDamage(c, dmg)
        PROVE  SerialInv'
    <2>1. aim'[Poison] = aim[Poison]
      BY <1>1 DEF DealDamage, TypeOK, Hands
    <2> QED
      BY <1>1, <2>1 DEF DealDamage, SerialInv, Busy, deathVars, historyVars
  <1>2. ASSUME NEW c \in Players, Strike(c) PROVE SerialInv'
    <2> SUFFICES ASSUME ~crossed', ~late' PROVE SerialInv'
      BY DEF SerialInv
    <2>1. ~crossed /\ ~late /\ ~Revived(aim[c]) /\ Busy' = Busy
      BY <1>2 DEF Strike, deathVars, Busy
    <2>2. aim[c] \in 0..MaxHp /\ HP' = aim[c] /\ HP \in 0..MaxHp
      BY <1>2 DEF Strike, TypeOK, Hands
    <2>3. HP' > 0 => HP > 0
      BY <2>1, <2>2 DEF Revived
    <2>4. DamageDealers' # {}
      BY <1>2 DEF Strike, Noted
    <2> QED
      BY <1>2, <2>1, <2>3, <2>4 DEF Strike, SerialInv, deathVars
  <1>3. ASSUME NEW c \in Players, Cast(c) PROVE SerialInv'
    <2>1. ASSUME NEW d \in Deaths, Die(d), HP = 0 PROVE SerialInv'
      BY <1>3, <2>1, DieSerial DEF Cast
    <2>2. CASE Live
      BY <1>3, <2>2 DEF Cast, Live, SerialInv, Busy
    <2> QED
      BY <1>3, <2>1, <2>2, LookEnds DEF Cast, Look
  <1>4. ASSUME NEW c \in Players, CastFails(c) PROVE SerialInv'
    BY <1>4 DEF CastFails, SerialInv, Busy, deathVars
  <1>5. ASSUME NEW c \in Players, Envenom(c) PROVE SerialInv'
    BY <1>5 DEF Envenom, SerialInv, Busy, blowVars, deathVars, historyVars
  <1>6. CASE HandleAIBuffs
    <2> SUFFICES ASSUME ~crossed', ~late' PROVE SerialInv'
      BY DEF SerialInv
    <2>1. ~crossed /\ ~late /\ Busy' = Busy
      BY <1>6 DEF HandleAIBuffs, deathVars, historyVars, Busy
    <2>2. CASE poisoned = NoOne
      BY <1>6, <2>1, <2>2 DEF HandleAIBuffs, SerialInv, deathVars, historyVars
    <2>3. CASE poisoned # NoOne
      <3>1. DamageDealers' # {}
        BY <1>6, <2>3 DEF HandleAIBuffs
      <3> QED
        BY <1>6, <2>1, <3>1 DEF HandleAIBuffs, SerialInv, deathVars, historyVars
    <2> QED
      BY <2>2, <2>3
  <1>7. CASE PoisonStrike
    <2>1. aim[Poison] \in 0..MaxHp /\ HP \in 0..MaxHp /\ aim'[Poison] = Unset
      BY <1>7 DEF PoisonStrike, TypeOK, Hands
    <2>2. CASE aim[Poison] = 0
      <3>1. PICK d \in Deaths : Die(d)
        BY <1>7, <2>2, LookEnds DEF PoisonStrike
      <3>2. HP' = 0 /\ UNCHANGED <<IsDead, DamageDealers, disappears, clears, late, unclaimed>>
        BY <1>7, <2>2 DEF PoisonStrike
      <3>3. CASE ~crossed /\ ~late
        <4>1. HP > 0 => DamageDealers # {}
          BY <1>7, <3>3 DEF PoisonStrike, SerialInv
        <4> QED
          BY <3>1, <3>2, <4>1, DieSerial
      <3>4. CASE crossed \/ late
        BY <3>1, <3>2, <3>4 DEF Die, SerialInv
      <3> QED
        BY <3>3, <3>4
    <2>3. CASE aim[Poison] # 0
      <3> SUFFICES ASSUME ~crossed', ~late' PROVE SerialInv'
        BY DEF SerialInv
      <3>1. ~crossed /\ ~late /\ ~Revived(aim[Poison]) /\ Busy' = Busy
        BY <1>7, <2>3 DEF PoisonStrike, Busy
      <3>2. HP > 0 /\ HP' > 0
        BY <1>7, <2>1, <2>3, <3>1 DEF PoisonStrike, Revived
      <3> QED
        BY <1>7, <2>1, <2>3, <3>1, <3>2 DEF PoisonStrike, SerialInv
    <2> QED
      BY <2>2, <2>3
  <1>8. CASE AIHandler
    BY <1>8 DEF AIHandler, SerialInv, Busy, blowVars, deathVars, historyVars
  <1>9. CASE Retreat
    <2> SUFFICES ASSUME ~crossed', ~late' PROVE SerialInv'
      BY DEF SerialInv
    <2>1. ~crossed /\ ~late /\ ~Revived(MaxHp) /\ Busy' = Busy
      BY <1>9 DEF Retreat, deathVars, Busy
    <2>2. HP > 0 /\ HP' > 0
      BY <1>9, <2>1 DEF Retreat, Revived, TypeOK
    <2> QED
      BY <1>9, <2>1, <2>2 DEF Retreat, SerialInv, blowVars, deathVars
  <1>10. CASE Act
    BY <1>10 DEF Act, SerialInv, Busy, blowVars, deathVars, historyVars
  <1>11. ASSUME NEW d \in Deaths, Reward(d) PROVE SerialInv'
    <2> SUFFICES ASSUME ~crossed', ~late' PROVE SerialInv'
      BY DEF SerialInv
    <2>1. ~crossed /\ ~late /\ DamageDealers # {}
      BY <1>11 DEF Reward, SerialInv
    <2>2. clears' = clears \cup {d} /\ ~unclaimed'
      BY <1>11, <2>1 DEF Reward, Claimers, SerialInv
    <2>3. Busy' = Busy
      BY <1>11, <2>2 DEF Reward, Busy, SerialInv
    <2>4. paying' = {}
      BY <1>11, <2>1 DEF Reward, SerialInv, Busy
    <2> QED
      BY <1>11, <2>1, <2>2, <2>3, <2>4 DEF Reward, SerialInv, blowVars
  <1>12. ASSUME NEW d \in Deaths, ClearDealers(d) PROVE SerialInv'
    <2> SUFFICES ASSUME ~crossed', ~late' PROVE SerialInv'
      BY DEF SerialInv
    <2>1. ~crossed /\ ~late
      BY <1>12 DEF ClearDealers, historyVars
    <2>2. ~(HP > 0) /\ paying = {} /\ Busy' \subseteq Busy
      BY <1>12, <2>1 DEF ClearDealers, SerialInv, Busy
    <2>3. disappears # {} \/ IsDead
      BY <1>12, <2>1 DEF ClearDealers, SerialInv
    <2>4. Busy' = {} => IsDead
      BY <1>12, <2>3 DEF ClearDealers, Busy
    <2> QED
      BY <1>12, <2>1, <2>2, <2>3, <2>4 DEF ClearDealers, SerialInv, historyVars
  <1>13. ASSUME NEW d \in Deaths, Disappear(d) PROVE SerialInv'
    <2>1. Busy' \subseteq Busy
      BY <1>13 DEF Disappear, Busy
    <2> QED
      BY <1>13, <2>1 DEF Disappear, SerialInv, blowVars, historyVars
  <1>14. ASSUME NEW d \in Deaths, Respawn(d) PROVE SerialInv'
    <2> SUFFICES ASSUME ~crossed', ~late' PROVE SerialInv'
      BY DEF SerialInv
    <2>1. ~crossed /\ ~late /\ Aiming = {} /\ d \notin paying \cup disappears \cup clears
      BY <1>14 DEF Respawn
    <2>2. Busy = {d}
      BY <1>14, <2>1 DEF Respawn, SerialInv, Busy
    <2>3. paying' = {} /\ clears' = {} /\ Busy' = {}
      BY <1>14, <2>1, <2>2 DEF Respawn, Busy
    <2>4. aim'[Poison] = Unset /\ HP' # 0
      BY <1>14, <2>1 DEF Respawn, Aiming, Hands, blowVars
    <2>5. ~unclaimed'
      BY <1>14, <2>1 DEF Respawn, SerialInv
    <2> QED
      BY <2>3, <2>4, <2>5 DEF SerialInv
  <1>15. CASE UNCHANGED vars
    BY <1>15 DEF SerialInv, Busy, vars
  <1> QED
    BY <1>1, <1>2, <1>3, <1>4, <1>5, <1>6, <1>7, <1>8, <1>9, <1>10, <1>11, <1>12, <1>13,
       <1>14, <1>15 DEF Next

\* Undisturbed, no timer of a death outlasts it into the next life, and every death
\* finds somebody to give the drops to.
THEOREM LivesStayApart == Spec => []LivesApart
  <1>1. Init => SerialInv
    <2> SUFFICES ASSUME Init PROVE SerialInv
      OBVIOUS
    <2>1. Busy = {} /\ HP # 0 /\ paying = {} /\ clears = {}
      BY MobAssumption DEF Init, Busy
    <2>2. aim[Poison] = Unset /\ ~unclaimed
      BY DEF Init, Hands
    <2> QED
      BY <2>1, <2>2 DEF SerialInv
  <1>2. TypeOK /\ SerialInv /\ [Next]_vars => SerialInv'
    BY SerialStep
  <1> QED
    BY <1>1, <1>2, SerialImplies, TypeCorrect, PTL DEF Spec
----------------------------------------------------------------------------
(* Dungeons.  While one is filled no other is started, because it is active *)
(* and loading; a server is chosen that never had one, so that the first    *)
(* guest of a leader finds nobody there.                                    *)

Handling == [server : Servers, moved : SUBSET Heroes, found : BOOLEAN]
DTypes ==
    /\ start \in [Leaders -> Handling \cup {None}]
    /\ party \in [Heroes -> Heroes \cup {None}]
    /\ on \in [Heroes -> Servers] /\ came \in [Heroes -> Leaders \cup {None}]
    /\ inside \subseteq Heroes /\ awake \subseteq Heroes /\ strayed \subseteq Heroes

Guests == (inside \cap awake) \ strayed
\* One dungeon loads at most; it bars the others; whoever is filling one fills this one.
LoadingInv ==
    /\ loading # {} => Barred
    /\ \A s, t \in loading : s = t
    /\ \A p \in Leaders : start[p] # None => start[p].server \in loading
    /\ \A p, q \in Leaders : start[p] # None /\ start[q] # None => p = q
\* There are guests where there is a dungeon only, and with the leader who fills it.
GuestsInv ==
    /\ \A c \in Guests : on[c] \in hosted \cup loading
    /\ \A p \in Leaders : start[p] # None => \A c \in Guests : on[c] = start[p].server => came[c] = p
Together == \A c, d \in Guests : on[c] = on[d] => came[c] = came[d]
Ending == unseen \/ \A c \in Guests : \E k \in DOMAIN active : active[k] = on[c]
DIInv == DTypes /\ LoadingInv /\ GuestsInv /\ Together /\ Ending

LEMMA DInitInv == DInit => DIInv
<1> SUFFICES ASSUME DInit PROVE DIInv
  OBVIOUS
<1>1. Guests = {}
  BY DEF DInit, Guests
<1>2. DTypes
  BY DungeonAssumption DEF DInit, DTypes, Heroes
<1>3. LoadingInv
  BY DEF DInit, LoadingInv
<1>4. GuestsInv /\ Together /\ Ending
  BY <1>1 DEF DInit, GuestsInv, Together, Ending
<1> QED
  BY <1>2, <1>3, <1>4 DEF DIInv

\* Steps that bring nobody in, begin nothing and end nothing.
LEMMA GuestsKept ==
  ASSUME GuestsInv, Together, Ending, UNCHANGED <<active, unseen>>,
         hosted \cup loading \subseteq hosted' \cup loading',
         \A p \in Leaders : start'[p] # None => start[p] # None /\ start'[p].server = start[p].server,
         Guests' \subseteq Guests,
         \A c \in Guests' : on'[c] = on[c] /\ came'[c] = came[c]
  PROVE  GuestsInv' /\ Together' /\ Ending'
<1>1. \A c \in Guests' : on'[c] \in hosted' \cup loading'
  BY DEF GuestsInv
<1>2. \A p \in Leaders : start'[p] # None => \A c \in Guests' : on'[c] = start'[p].server => came'[c] = p
  BY DEF GuestsInv
<1>3. Together'
  BY DEF Together
<1>4. Ending'
  BY DEF Ending
<1> QED
  BY <1>1, <1>2, <1>3, <1>4 DEF GuestsInv

\* Who goes in is with the leader on the server, unless he is in a trade; the others stay.
LEMMA EnterMoves ==
  ASSUME DTypes, NEW c \in Heroes, NEW p \in Leaders, NEW s \in Servers, Enter(c, p, s), UNCHANGED awake
  PROVE  /\ on' \in [Heroes -> Servers] /\ came' \in [Heroes -> Leaders \cup {None}]
         /\ inside' \subseteq Heroes /\ strayed' \subseteq Heroes
         /\ \A d \in Guests' : d # c => d \in Guests /\ on'[d] = on[d] /\ came'[d] = came[d]
         /\ c \in Guests' => on'[c] = s /\ came'[c] = p
<1>1. PICK trading \in BOOLEAN :
        /\ on' = [on EXCEPT ![c] = s]
        /\ inside' = IF trading THEN inside ELSE inside \cup {c}
        /\ came' = IF trading THEN came ELSE [came EXCEPT ![c] = p]
        /\ strayed' = IF ~trading THEN strayed \ {c} ELSE IF c \in inside THEN strayed \cup {c} ELSE strayed
  BY DEF Enter
<1>2. on' \in [Heroes -> Servers] /\ \A d \in Heroes : on'[d] = IF d = c THEN s ELSE on[d]
  BY <1>1 DEF DTypes
<1>3. /\ came' \in [Heroes -> Leaders \cup {None}]
      /\ \A d \in Heroes : came'[d] = IF d = c /\ ~trading THEN p ELSE came[d]
  BY <1>1 DEF DTypes
<1>4. inside' \subseteq Heroes /\ strayed' \subseteq Heroes
  BY <1>1 DEF DTypes
<1>5. Guests' \subseteq Heroes
  BY <1>4 DEF Guests
<1>6. \A d \in Guests' : d # c => d \in Guests
  BY <1>1 DEF Guests
<1>7. c \in Guests' => ~trading
  BY <1>1 DEF Guests
<1> QED
  BY <1>2, <1>3, <1>4, <1>5, <1>6, <1>7

\* The server of a new dungeon never had one.
LEMMA EmptyServer ==
  ASSUME NEW s \in FindEmptyServer PROVE s \in Servers /\ s \notin hosted
<1>1. PICK E : E = Servers \ hosted
  OBVIOUS
<1>2. E # {} /\ s = CHOOSE x \in E : \A t \in E : x <= t
  BY <1>1 DEF FindEmptyServer
<1>3. E \subseteq Nat
  BY <1>1, DungeonAssumption
<1>4. \E x \in E : \A t \in E : x <= t
  <2>1. PICK x \in E : \A t \in E : ~(t < x)
    BY <1>2, <1>3, LeastOf
  <2>2. \A t \in E : x <= t
    BY <1>3, <2>1
  <2> QED
    BY <2>2
<1>5. s \in E
  BY <1>2, <1>4
<1> QED
  BY <1>1, <1>5

LEMMA StartDungeonKeeps ==
  ASSUME DIInv, NEW p \in Leaders, StartDungeon(p) PROVE DIInv'
<1>1. DTypes /\ LoadingInv /\ GuestsInv /\ Together /\ Ending
  BY DEF DIInv
<1>2. PICK k : k = Cardinality(DOMAIN active)
  OBVIOUS
<1>3. PICK s \in FindEmptyServer :
        /\ active' = [i \in DOMAIN active \cup {k} |-> IF i = k THEN s ELSE active[i]]
        /\ unseen' = (unseen \/ k \in DOMAIN active)
        /\ loading' = loading \cup {s}
        /\ start' = [start EXCEPT ![p] = [server |-> s, moved |-> {p}, found |-> FALSE]]
        /\ Enter(p, p, s)
  BY <1>2 DEF StartDungeon
<1>4. ~Barred /\ DungeonLoading' = TRUE /\ UNCHANGED <<hosted, party, awake, locked>>
  BY DEF StartDungeon
<1>5. loading = {}
  BY <1>1, <1>4 DEF LoadingInv
<1>6. \A q \in Leaders : start[q] = None
  BY <1>1, <1>5 DEF LoadingInv
<1>7. s \in Servers /\ s \notin hosted
  BY <1>3, EmptyServer
<1>8. p \in Heroes
  BY DEF Heroes
<1>9. /\ on' \in [Heroes -> Servers] /\ came' \in [Heroes -> Leaders \cup {None}]
      /\ inside' \subseteq Heroes /\ strayed' \subseteq Heroes
      /\ \A d \in Guests' : d # p => d \in Guests /\ on'[d] = on[d] /\ came'[d] = came[d]
      /\ p \in Guests' => on'[p] = s /\ came'[p] = p
  BY <1>1, <1>3, <1>4, <1>7, <1>8, EnterMoves
<1>10. /\ start' \in [Leaders -> Handling \cup {None}]
       /\ \A q \in Leaders : q # p => start'[q] = None
       /\ start'[p].server = s
  <2>1. [server |-> s, moved |-> {p}, found |-> FALSE] \in Handling
    BY <1>7, <1>8 DEF Handling
  <2> QED
    BY <1>1, <1>3, <1>6, <2>1 DEF DTypes
<1>11. DTypes'
  BY <1>1, <1>4, <1>9, <1>10 DEF DTypes
<1>12. LoadingInv'
  <2>1. loading' = {s}
    BY <1>3, <1>5
  <2>2. Barred'
    BY <1>3, <1>4, <2>1 DEF Barred
  <2> QED
    BY <1>10, <2>1, <2>2 DEF LoadingInv
<1>13. \A d \in Guests' : d # p => on'[d] # s /\ on'[d] \in hosted
  BY <1>1, <1>5, <1>7, <1>9 DEF GuestsInv
<1>14. GuestsInv'
  <2>1. \A d \in Guests' : on'[d] \in hosted' \cup loading'
    BY <1>3, <1>4, <1>9, <1>13
  <2>2. \A q \in Leaders : start'[q] # None => \A d \in Guests' : on'[d] = start'[q].server => came'[d] = q
    BY <1>9, <1>10, <1>13
  <2> QED
    BY <2>1, <2>2 DEF GuestsInv
<1>15. Together'
  BY <1>1, <1>9, <1>13 DEF Together
<1>16. Ending'
  <2> SUFFICES ASSUME ~unseen', NEW d \in Guests' PROVE \E i \in DOMAIN active' : active'[i] = on'[d]
    BY DEF Ending
  <2>1. ~unseen /\ k \notin DOMAIN active
    BY <1>3
  <2>2. CASE d = p
    BY <1>3, <1>9, <2>2
  <2>3. CASE d # p
    <3>1. PICK i \in DOMAIN active : active[i] = on[d]
      BY <1>1, <1>9, <2>1, <2>3 DEF Ending
    <3>2. i # k
      BY <2>1
    <3> QED
      BY <1>3, <1>9, <2>3, <3>1, <3>2
  <2> QED
    BY <2>2, <2>3
<1> QED
  BY <1>11, <1>12, <1>14, <1>15, <1>16 DEF DIInv

\* A handler that asks for a server in vain, when none is loading.
LEMMA NoServerKeeps ==
  ASSUME DIInv, NEW p \in Leaders, NoServer(p) PROVE DIInv'
<1>1. DTypes /\ LoadingInv /\ GuestsInv /\ Together /\ Ending
  BY DEF DIInv
<1>2. UNCHANGED <<active, loading, hosted, start, party, awake, on, inside, came, strayed, unseen>> /\ ~Barred
  BY DEF NoServer, crowd
<1>3. DTypes' /\ Guests' = Guests
  BY <1>1, <1>2 DEF DTypes, Guests
<1>4. LoadingInv'
  BY <1>1, <1>2 DEF LoadingInv
<1>5. GuestsInv' /\ Together' /\ Ending'
  BY <1>1, <1>2, <1>3, GuestsKept
<1> QED
  BY <1>3, <1>4, <1>5 DEF DIInv

LEMMA FindPartyKeeps ==
  ASSUME DIInv, NEW p \in Leaders, FindParty(p) PROVE DIInv'
<1>1. DTypes /\ LoadingInv /\ GuestsInv /\ Together /\ Ending
  BY DEF DIInv
<1>2. /\ UNCHANGED <<DungeonLoading, active, loading, hosted, party, awake, on, inside, came, strayed, unseen>>
      /\ start[p] # None
      /\ start' = [start EXCEPT ![p] = IF party[p] = p THEN [@ EXCEPT !.found = TRUE] ELSE None]
  BY DEF FindParty, crowd
<1>3. start[p] \in Handling
  BY <1>1, <1>2 DEF DTypes
<1>4. [start[p] EXCEPT !.found = TRUE] \in Handling /\ [start[p] EXCEPT !.found = TRUE].server = start[p].server
  BY <1>3 DEF Handling
<1>5. /\ start' \in [Leaders -> Handling \cup {None}]
      /\ \A q \in Leaders : start'[q] # None => start[q] # None /\ start'[q].server = start[q].server
  BY <1>1, <1>2, <1>4 DEF DTypes
<1>6. DTypes' /\ Guests' = Guests
  BY <1>1, <1>2, <1>5 DEF DTypes, Guests
<1>7. LoadingInv'
  BY <1>1, <1>2, <1>5 DEF LoadingInv, Barred
<1>8. GuestsInv' /\ Together' /\ Ending'
  BY <1>1, <1>2, <1>5, <1>6, GuestsKept
<1> QED
  BY <1>6, <1>7, <1>8 DEF DIInv

\* Those on the server the handler fills came with its leader.
LEMMA MoveMemberKeeps ==
  ASSUME DIInv, NEW p \in Leaders, MoveMember(p) PROVE DIInv'
<1>1. DTypes /\ LoadingInv /\ GuestsInv /\ Together /\ Ending
  BY DEF DIInv
<1>2. UNCHANGED <<DungeonLoading, active, loading, hosted, party, awake, unseen>> /\ start[p] # None
  BY DEF MoveMember
<1>3. PICK c \in PartyOf(p) \ start[p].moved :
        /\ start' = [start EXCEPT ![p].moved = @ \cup {c}]
        /\ IF c \in awake THEN Enter(c, p, start[p].server) /\ locked' = locked \cup {c}
           ELSE UNCHANGED <<crowd, locked>>
  BY DEF MoveMember
<1>4. c \in Heroes
  BY DEF PartyOf
<1>5. PICK s : s = start[p].server
  OBVIOUS
<1>6. start[p] \in Handling /\ s \in Servers /\ s \in loading
  BY <1>1, <1>2, <1>5 DEF DTypes, Handling, LoadingInv
<1>7. /\ start' \in [Leaders -> Handling \cup {None}]
      /\ \A q \in Leaders : start'[q] # None => start[q] # None /\ start'[q].server = start[q].server
  <2>1. PICK h : h = [start[p] EXCEPT !.moved = @ \cup {c}]
    OBVIOUS
  <2>2. h \in Handling /\ h.server = start[p].server
    BY <1>4, <1>6, <2>1 DEF Handling
  <2>3. start' = [start EXCEPT ![p] = h]
    BY <1>3, <2>1
  <2> QED
    BY <1>1, <1>2, <2>2, <2>3 DEF DTypes
<1>8. LoadingInv'
  BY <1>1, <1>2, <1>7 DEF LoadingInv, Barred
<1>9. CASE c \notin awake
  <2>1. UNCHANGED <<on, inside, came, strayed>>
    BY <1>3, <1>9 DEF crowd
  <2>2. DTypes' /\ Guests' = Guests
    BY <1>1, <1>2, <1>7, <2>1 DEF DTypes, Guests
  <2>3. GuestsInv' /\ Together' /\ Ending'
    BY <1>1, <1>2, <1>7, <2>1, <2>2, GuestsKept
  <2> QED
    BY <1>8, <2>2, <2>3 DEF DIInv
<1>10. CASE c \in awake
  <2>1. Enter(c, p, s)
    BY <1>3, <1>5, <1>10
  <2>2. /\ on' \in [Heroes -> Servers] /\ came' \in [Heroes -> Leaders \cup {None}]
        /\ inside' \subseteq Heroes /\ strayed' \subseteq Heroes
        /\ \A d \in Guests' : d # c => d \in Guests /\ on'[d] = on[d] /\ came'[d] = came[d]
        /\ c \in Guests' => on'[c] = s /\ came'[c] = p
    BY <1>1, <1>2, <1>4, <1>6, <2>1, EnterMoves
  <2>3. DTypes'
    BY <1>1, <1>2, <1>7, <2>2 DEF DTypes
  <2>4. \A d \in Guests : on[d] = s => came[d] = p
    BY <1>1, <1>2, <1>5 DEF GuestsInv
  <2>5. Together'
    BY <1>1, <2>2, <2>4 DEF Together
  <2>6. \A q \in Leaders : start'[q] # None => q = p
    BY <1>1, <1>2, <1>7 DEF LoadingInv
  <2>7. GuestsInv'
    <3>1. \A d \in Guests' : on'[d] \in hosted' \cup loading'
      BY <1>1, <1>2, <1>6, <2>2 DEF GuestsInv
    <3>2. \A q \in Leaders : start'[q] # None => \A d \in Guests' : on'[d] = start'[q].server => came'[d] = q
      BY <1>5, <1>7, <2>2, <2>4, <2>6
    <3> QED
      BY <3>1, <3>2 DEF GuestsInv
  <2>8. Ending'
    <3>1. \E k \in DOMAIN active : active[k] = s
      BY <1>1, <1>6 DEF LoadingInv, Barred
    <3> QED
      BY <1>1, <1>2, <2>2, <3>1 DEF Ending
  <2> QED
    BY <1>8, <2>3, <2>5, <2>7, <2>8 DEF DIInv
<1> QED
  BY <1>9, <1>10

\* The dungeon is filled.
LEMMA CreateMobsKeeps ==
  ASSUME DIInv, NEW p \in Leaders, CreateMobsForNewDungeon(p) PROVE DIInv'
<1>1. DTypes /\ LoadingInv /\ GuestsInv /\ Together /\ Ending
  BY DEF DIInv
<1>2. /\ UNCHANGED <<active, party, awake, on, inside, came, strayed, unseen>>
      /\ start[p] # None /\ start' = [start EXCEPT ![p] = None]
      /\ hosted' = hosted \cup {start[p].server} /\ loading' = loading \ {start[p].server}
  BY DEF CreateMobsForNewDungeon, crowd
<1>3. \A q \in Leaders : start'[q] = None
  BY <1>1, <1>2 DEF DTypes, LoadingInv
<1>4. loading' = {}
  BY <1>1, <1>2 DEF LoadingInv
<1>5. DTypes' /\ Guests' = Guests
  BY <1>1, <1>2 DEF DTypes, Guests
<1>6. LoadingInv'
  BY <1>3, <1>4 DEF LoadingInv
<1>7. GuestsInv' /\ Together' /\ Ending'
  BY <1>1, <1>2, <1>3, <1>5, GuestsKept
<1> QED
  BY <1>5, <1>6, <1>7 DEF DIInv

\* When a dungeon ends nobody is left in it, but for those in a trade.
LEMMA ExploreDungeonKeeps == ASSUME DIInv, ExploreDungeon PROVE DIInv'
<1>1. DTypes /\ LoadingInv /\ GuestsInv /\ Together /\ Ending
  BY DEF DIInv
<1>2. PICK i \in DOMAIN active :
        LET s == active[i]
            chars == {c \in awake : on[c] = s}
        IN /\ s \notin loading
           /\ active' = Restrict(active, DOMAIN active \ {i})
           /\ unseen' = (unseen \/ ~Reached(active'))
           /\ \/ chars = {} /\ UNCHANGED crowd
              \/ \E T \in SUBSET (chars \cap inside) :
                    /\ on' = [c \in Heroes |-> IF c \in chars \cap inside THEN 1 ELSE on[c]]
                    /\ inside' = inside \ ((chars \cap inside) \ T)
                    /\ strayed' = (strayed \ (chars \cap inside)) \cup T
                    /\ came' = [c \in Heroes |-> IF c \in inside' THEN came[c] ELSE None]
           /\ UNCHANGED <<DungeonLoading, loading, hosted, start, party, awake, locked>>
  BY DEF ExploreDungeon
<1>3. PICK s : s = active[i]
  OBVIOUS
<1>4. PICK chars : chars = {c \in awake : on[c] = s}
  OBVIOUS
<1>5. /\ s \notin loading
      /\ active' = Restrict(active, DOMAIN active \ {i})
      /\ unseen' = (unseen \/ ~Reached(active'))
      /\ UNCHANGED <<DungeonLoading, loading, hosted, start, party, awake>>
      /\ \/ chars = {} /\ UNCHANGED <<on, inside, came, strayed>>
         \/ \E T \in SUBSET (chars \cap inside) :
               /\ on' = [c \in Heroes |-> IF c \in chars \cap inside THEN 1 ELSE on[c]]
               /\ inside' = inside \ ((chars \cap inside) \ T)
               /\ strayed' = (strayed \ (chars \cap inside)) \cup T
               /\ came' = [c \in Heroes |-> IF c \in inside' THEN came[c] ELSE None]
  BY <1>2, <1>3, <1>4 DEF crowd
<1>6. /\ on' \in [Heroes -> Servers] /\ came' \in [Heroes -> Leaders \cup {None}]
      /\ inside' \subseteq Heroes /\ strayed' \subseteq Heroes
      /\ \A c \in Guests' : c \in Guests /\ on'[c] = on[c] /\ came'[c] = came[c] /\ on[c] # s
  <2>1. CASE chars = {} /\ UNCHANGED <<on, inside, came, strayed>>
    BY <1>1, <1>4, <1>5, <2>1 DEF DTypes, Guests
  <2>2. ASSUME NEW T \in SUBSET (chars \cap inside),
               on' = [c \in Heroes |-> IF c \in chars \cap inside THEN 1 ELSE on[c]],
               inside' = inside \ ((chars \cap inside) \ T),
               strayed' = (strayed \ (chars \cap inside)) \cup T,
               came' = [c \in Heroes |-> IF c \in inside' THEN came[c] ELSE None]
        PROVE  /\ on' \in [Heroes -> Servers] /\ came' \in [Heroes -> Leaders \cup {None}]
               /\ inside' \subseteq Heroes /\ strayed' \subseteq Heroes
               /\ \A c \in Guests' : c \in Guests /\ on'[c] = on[c] /\ came'[c] = came[c] /\ on[c] # s
    <3>1. on' \in [Heroes -> Servers]
      BY <1>1, <2>2, DungeonAssumption DEF DTypes
    <3>2. came' \in [Heroes -> Leaders \cup {None}]
      BY <1>1, <2>2 DEF DTypes
    <3>3. inside' \subseteq Heroes /\ strayed' \subseteq Heroes
      BY <1>1, <2>2 DEF DTypes
    <3>4. ASSUME NEW c \in Guests'
          PROVE  c \in Guests /\ on'[c] = on[c] /\ came'[c] = came[c] /\ on[c] # s
      <4>1. c \in inside' /\ c \in awake /\ c \notin strayed' /\ c \in inside /\ c \in Heroes
        BY <1>5, <2>2, <3>3 DEF Guests
      <4>2. c \notin chars \cap inside
        BY <2>2, <4>1
      <4>3. c \notin strayed
        BY <2>2, <4>1, <4>2
      <4> QED
        BY <1>4, <2>2, <4>1, <4>2, <4>3 DEF Guests
    <3> QED
      BY <3>1, <3>2, <3>3, <3>4
  <2> QED
    BY <1>5, <2>1, <2>2
<1>7. DTypes'
  BY <1>1, <1>5, <1>6 DEF DTypes
<1>8. DOMAIN active' = DOMAIN active \ {i} /\ \A k \in DOMAIN active \ {i} : active'[k] = active[k]
  BY <1>5 DEF Restrict
<1>9. LoadingInv'
  <2>1. Barred => Barred'
    BY <1>3, <1>5, <1>8 DEF Barred
  <2> QED
    BY <1>1, <1>5, <2>1 DEF LoadingInv
<1>10. GuestsInv'
  BY <1>1, <1>5, <1>6 DEF GuestsInv
<1>11. Together'
  BY <1>1, <1>6 DEF Together
<1>12. Ending'
  <2> SUFFICES ASSUME ~unseen', NEW c \in Guests' PROVE \E k \in DOMAIN active' : active'[k] = on'[c]
    BY DEF Ending
  <2>1. PICK k \in DOMAIN active : active[k] = on[c]
    BY <1>1, <1>5, <1>6 DEF Ending
  <2>2. k # i
    BY <1>3, <1>6, <2>1
  <2> QED
    BY <1>6, <1>8, <2>1, <2>2
<1> QED
  BY <1>7, <1>9, <1>10, <1>11, <1>12 DEF DIInv

\* The other steps change neither dungeons nor who fills them, and bring nobody in.
LEMMA OthersKeep ==
  ASSUME DIInv, \/ Regroup \/ ChangeMap \/ Logout \/ EnterServer \/ HourIsOver \/ UNCHANGED dvars
  PROVE  DIInv'
<1>1. DTypes /\ LoadingInv /\ GuestsInv /\ Together /\ Ending
  BY DEF DIInv
<1>2. UNCHANGED <<DungeonLoading, active, loading, hosted, start, unseen>>
  BY DEF Regroup, ChangeMap, Logout, EnterServer, HourIsOver, dvars
<1>3. DTypes' /\ \A c \in Guests' : c \in Guests /\ on'[c] = on[c] /\ came'[c] = came[c]
  <2>1. CASE Regroup
    BY <1>1, <2>1 DEF Regroup, crowd, DTypes, Guests, Heroes
  <2>2. CASE ChangeMap
    BY <1>1, <2>2 DEF ChangeMap, DTypes, Guests
  <2>3. CASE Logout
    BY <1>1, <2>3 DEF Logout, crowd, DTypes, Guests
  <2>4. CASE EnterServer
    BY <1>1, <2>4 DEF EnterServer, DTypes, Guests
  <2>5. CASE HourIsOver \/ UNCHANGED dvars
    BY <1>1, <2>5 DEF HourIsOver, dvars, crowd, DTypes, Guests
  <2> QED
    BY <2>1, <2>2, <2>3, <2>4, <2>5
<1>4. LoadingInv'
  BY <1>1, <1>2 DEF LoadingInv, Barred
<1>5. GuestsInv' /\ Together' /\ Ending'
  <2>1. Guests' \subseteq Guests
    BY <1>3
  <2> QED
    BY <1>1, <1>2, <1>3, <2>1, GuestsKept
<1> QED
  BY <1>3, <1>4, <1>5 DEF DIInv

LEMMA DNextInv == DIInv /\ [DNext]_dvars => DIInv'
<1> SUFFICES ASSUME DIInv, [DNext]_dvars PROVE DIInv'
  OBVIOUS
<1>1. ASSUME NEW p \in Leaders,
             StartDungeon(p) \/ NoServer(p) \/ FindParty(p) \/ MoveMember(p) \/ CreateMobsForNewDungeon(p)
      PROVE  DIInv'
  BY <1>1, StartDungeonKeeps, NoServerKeeps, FindPartyKeeps, MoveMemberKeeps, CreateMobsKeeps
<1>2. CASE ExploreDungeon
  BY <1>2, ExploreDungeonKeeps
<1>3. CASE \/ Regroup \/ ChangeMap \/ Logout \/ EnterServer \/ HourIsOver \/ UNCHANGED dvars
  BY <1>3, OthersKeep
<1> QED
  BY <1>1, <1>2, <1>3 DEF DNext

\* Whatever the leaders, followers and servers: on map 246 of one server are those
\* who came with one leader, in a dungeon that will be ended, but for who was in a
\* trade and a dungeon whose key was used again or is not reached.
THEOREM PartiesDoNotMeet == DSpec => []DungeonsApart
<1>1. DIInv => DungeonsApart
  BY DEF DIInv, DungeonsApart, Guests, Together, Ending
<1> QED
  BY <1>1, DInitInv, DNextInv, PTL DEF DSpec
=============================================================================
