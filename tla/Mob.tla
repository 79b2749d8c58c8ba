-------------------------------- MODULE Mob --------------------------------
(***************************************************************************)
(* Life and death of one mob (DealDamage, DealPoisonDamageToMob and        *)
(* CheckMobDead in database/characters.go, AIHandler and HandleAIBuffs in  *)
(* database/ai.go).  Every blow is a goroutine of its own, HP has no lock, *)
(* and between the blow and the look whether the mob died the damage is    *)
(* broadcast.  Whoever finds the mob dead starts a death: the timer of the *)
(* respawn, the experience and the drops, and one second later the timers  *)
(* that hide the mob and clear the list of those who hurt it.              *)
(***************************************************************************)
EXTENDS Naturals, FiniteSets

CONSTANTS Players,      \* those who strike; each has one blow on its way at a time
          Poison,       \* the goroutine of HandleAIBuffs
          NoOne,        \* nobody's poison
          MaxHp,        \* npc.MaxHp
          Unset,        \* a blow that has not read HP
          MaxDeaths     \* bound: deaths being dealt with at the same time

ASSUME MobAssumption ==
    /\ Poison \notin Players /\ NoOne \notin Players
    /\ MaxHp \in Nat \ {0} /\ Unset \notin Nat /\ MaxDeaths \in Nat

VARIABLES HP,           \* ai.HP
          IsDead,       \* ai.IsDead: the mob is not shown
          Once,         \* ai.Once: the mob does not come back
          handled,      \* ai.Handler is set
          aim,          \* what a blow that has read HP is about to write
          casting,      \* players whose blow is being broadcast
          thinking,     \* AIHandler has seen a living mob and is choosing a target
          biting,       \* HandleAIBuffs has been started
          poisoned,     \* whose poison the row of ai_buffs is
          DamageDealers,\* who hurt the mob
          paying,       \* deaths whose experience is being given
          respawns,     \* deaths whose respawn timer runs
          disappears,   \* deaths whose timer "disappear mob 1 sec later" runs
          clears,       \* deaths whose timer that clears DamageDealers runs
          lost,         \* history: the broadcast of a blow to a dead mob failed
          late,         \* history: a mob came back before its death was over
          crossed,      \* history: a dead mob died again, got HP but by a respawn, or
                        \* came back while a blow was between reading and writing HP
          unclaimed     \* history: a death found nobody in DamageDealers

blowVars == <<aim, casting>>
deathVars == <<paying, respawns, disappears, clears>>
historyVars == <<lost, late, crossed, unclaimed>>
vars == <<HP, IsDead, Once, handled, aim, casting, thinking, biting, poisoned,
          DamageDealers, paying, respawns, disappears, clears, lost, late, crossed, unclaimed>>

Hands == Players \cup {Poison}
Deaths == 1..MaxDeaths
Busy == paying \cup respawns \cup disappears \cup clears
Aiming == {h \in Hands : aim[h] # Unset}
\* Every blow on its way may start a death.
Room == Cardinality(Busy) + Cardinality(casting) + Cardinality(Aiming) < MaxDeaths

TypeOK ==
    /\ HP \in 0..MaxHp
    /\ IsDead \in BOOLEAN /\ Once \in BOOLEAN /\ handled \in BOOLEAN
    /\ aim \in [Hands -> 0..MaxHp \cup {Unset}]
    /\ casting \subseteq Players
    /\ thinking \in BOOLEAN /\ biting \in BOOLEAN
    /\ poisoned \in Players \cup {NoOne}
    /\ DamageDealers \subseteq Players
    /\ paying \subseteq Deaths /\ respawns \subseteq Deaths
    /\ disappears \subseteq Deaths /\ clears \subseteq Deaths
    /\ lost \in BOOLEAN /\ late \in BOOLEAN /\ crossed \in BOOLEAN /\ unclaimed \in BOOLEAN

\* A mob of the map comes back, one that a dungeon or an event made does not.
Init ==
    /\ HP = MaxHp /\ IsDead = FALSE /\ Once \in BOOLEAN /\ handled = TRUE
    /\ aim = [h \in Hands |-> Unset] /\ casting = {}
    /\ thinking = FALSE /\ biting = FALSE /\ poisoned = NoOne
    /\ DamageDealers = {}
    /\ paying = {} /\ respawns = {} /\ disappears = {} /\ clears = {}
    /\ lost = FALSE /\ late = FALSE /\ crossed = FALSE /\ unclaimed = FALSE

----------------------------------------------------------------------------
(* CheckMobDead *)

\* A boss whose event is over is not to come back, whatever it was before.
Ends == {Once, TRUE}

\* As if no mob came back.
SilentDeath(d) == UNCHANGED respawns
\* As if a death that finds another one going on left the respawn to it.
SingleReturn(d) == respawns' = IF Once' \/ Busy # {} THEN respawns ELSE respawns \cup {d}
\* The timer of the respawn, for a mob that comes back.
Return(d) == respawns' = IF Once' THEN respawns ELSE respawns \cup {d}

\* The mob is found dead.
Die(d) ==
    /\ d \in Deaths \ Busy /\ \A e \in Deaths \ Busy : d <= e
    /\ Once' \in Ends
    /\ handled' = (handled /\ ~Once')
    /\ poisoned' = NoOne
    /\ paying' = paying \cup {d}
    /\ Return(d)
    /\ crossed' = (crossed \/ Busy # {} \/ IsDead)

Live == UNCHANGED <<Once, handled, poisoned, paying, respawns, crossed>>

CheckMobDead(hp) == IF hp = 0 THEN \E d \in Deaths : Die(d) ELSE Live

\* As if the list were cleared before it is read.
ClearedClaim == {}
\* FindClaimer: the one with the most damage among these.
Claimers == DamageDealers

\* Experience and gold are given; drops for the claimer, and both timers.
Reward(d) ==
    /\ d \in paying
    /\ paying' = paying \ {d}
    /\ disappears' = disappears \cup {d}
    /\ clears' = IF Claimers = {} THEN clears ELSE clears \cup {d}
    /\ unclaimed' = (unclaimed \/ Claimers = {})
    /\ UNCHANGED <<HP, IsDead, Once, handled, blowVars, thinking, biting, poisoned,
                   DamageDealers, respawns, lost, late, crossed>>

ClearDealers(d) ==
    /\ d \in clears
    /\ clears' = clears \ {d}
    /\ DamageDealers' = {}
    /\ UNCHANGED <<HP, IsDead, Once, handled, blowVars, thinking, biting, poisoned,
                   paying, respawns, disappears, historyVars>>

Disappear(d) ==
    /\ d \in disappears
    /\ disappears' = disappears \ {d}
    /\ IsDead' = TRUE
    /\ UNCHANGED <<HP, Once, handled, blowVars, thinking, biting, poisoned, DamageDealers,
                   paying, respawns, clears, historyVars>>

\* As if a mob that came back were still hidden.
HiddenRespawn == UNCHANGED IsDead
Show == IsDead' = FALSE

\* The mob is back, also one that somebody else found dead too and that came back before.
Respawn(d) ==
    /\ d \in respawns
    /\ respawns' = respawns \ {d}
    /\ HP' = MaxHp
    /\ Show
    /\ late' = (late \/ d \in paying \cup disappears \cup clears)
    /\ crossed' = (crossed \/ Aiming # {})
    /\ UNCHANGED <<Once, handled, blowVars, thinking, biting, poisoned, DamageDealers,
                   paying, disappears, clears, lost, unclaimed>>

----------------------------------------------------------------------------
(* Blows *)

\* A dead mob that is given HP by a blow that read it before or by its handler.
Revived(hp) == HP = 0 /\ hp > 0

\* As if the damage were not limited to what is left.
Below(dmg) == HP - dmg
\* What is left of HP.
Left(dmg) == IF dmg > HP THEN 0 ELSE HP - dmg

\* DealDamage reads HP.
DealDamage(c, dmg) ==
    /\ c \notin casting /\ aim[c] = Unset
    /\ Room
    /\ HP > 0
    /\ aim' = [aim EXCEPT ![c] = Left(dmg)]
    /\ UNCHANGED <<HP, IsDead, Once, handled, casting, thinking, biting, poisoned,
                   DamageDealers, deathVars, historyVars>>

Noted(c) == DamageDealers' = DamageDealers \cup {c}

\* It writes HP, whatever others have written meanwhile, and broadcasts the damage.
Strike(c) ==
    /\ aim[c] # Unset
    /\ aim' = [aim EXCEPT ![c] = Unset]
    /\ HP' = aim[c]
    /\ Noted(c)
    /\ casting' = casting \cup {c}
    /\ crossed' = (crossed \/ Revived(aim[c]))
    /\ UNCHANGED <<IsDead, Once, handled, thinking, biting, poisoned, deathVars,
                   lost, late, unclaimed>>

\* As if a mob whose death is being dealt with could not die.
LookIfIdle(c) == IF Busy = {} THEN CheckMobDead(HP) ELSE Live
Look(c) == CheckMobDead(HP)

Cast(c) ==
    /\ c \in casting
    /\ casting' = casting \ {c}
    /\ Look(c)
    /\ UNCHANGED <<HP, IsDead, aim, thinking, biting, DamageDealers, disappears, clears,
                   lost, late, unclaimed>>

\* The broadcast fails and DealDamage returns without looking whether the mob died.
CastFails(c) ==
    /\ c \in casting
    /\ casting' = casting \ {c}
    /\ lost' = (lost \/ HP = 0)
    /\ UNCHANGED <<HP, IsDead, Once, handled, aim, thinking, biting, poisoned,
                   DamageDealers, deathVars, late, crossed, unclaimed>>

----------------------------------------------------------------------------
(* Poison *)

\* AttackHandler writes the row, if there is none, some time after it saw the mob alive.
Envenom(c) ==
    /\ poisoned = NoOne
    /\ poisoned' = c
    /\ UNCHANGED <<HP, IsDead, Once, handled, blowVars, thinking, biting, DamageDealers,
                   deathVars, historyVars>>

\* HandleAIBuffs reads the rows, notes the poisoner and reads HP; an expired row goes.
HandleAIBuffs ==
    /\ biting /\ aim[Poison] = Unset
    /\ biting' = FALSE
    /\ IF poisoned = NoOne THEN UNCHANGED <<aim, poisoned, DamageDealers>>
       ELSE /\ DamageDealers' = DamageDealers \cup {poisoned}
            /\ poisoned' \in {poisoned, NoOne}
            /\ IF HP = 0 THEN UNCHANGED aim
               ELSE Room /\ \E dmg \in 1..MaxHp : aim' = [aim EXCEPT ![Poison] = Left(dmg)]
    /\ UNCHANGED <<HP, IsDead, Once, handled, casting, thinking, deathVars, historyVars>>

\* DealPoisonDamageToMob writes HP and looks at once, but only if none is left.
PoisonStrike ==
    /\ aim[Poison] # Unset
    /\ aim' = [aim EXCEPT ![Poison] = Unset]
    /\ HP' = aim[Poison]
    /\ IF aim[Poison] = 0
       THEN CheckMobDead(0)
       ELSE /\ crossed' = (crossed \/ Revived(aim[Poison]))
            /\ UNCHANGED <<Once, handled, poisoned, paying, respawns>>
    /\ UNCHANGED <<IsDead, casting, thinking, biting, DamageDealers, disappears, clears,
                   lost, late, unclaimed>>

----------------------------------------------------------------------------
(* AIHandler, which starts itself again after a second while Handler is set *)

AIHandler ==
    /\ handled /\ ~thinking
    /\ HP > 0
    /\ thinking' = TRUE
    /\ biting' = TRUE
    /\ UNCHANGED <<HP, IsDead, Once, handled, blowVars, poisoned, DamageDealers,
                   deathVars, historyVars>>

\* The target is out of reach, gone or mounting: the mob is healed, even if it has
\* died while the characters and their bags were read.
Retreat ==
    /\ thinking
    /\ thinking' = FALSE
    /\ HP' = MaxHp
    /\ crossed' = (crossed \/ Revived(MaxHp))
    /\ UNCHANGED <<IsDead, Once, handled, blowVars, biting, poisoned, DamageDealers,
                   deathVars, lost, late, unclaimed>>

\* Moving, attacking and choosing a target leave the mob as it is.
Act ==
    /\ thinking
    /\ thinking' = FALSE
    /\ UNCHANGED <<HP, IsDead, Once, handled, blowVars, biting, poisoned, DamageDealers,
                   deathVars, historyVars>>

----------------------------------------------------------------------------

Next ==
    \/ \E c \in Players : \/ \E dmg \in 0..MaxHp : DealDamage(c, dmg)
                          \/ Strike(c) \/ Cast(c) \/ CastFails(c) \/ Envenom(c)
    \/ HandleAIBuffs \/ PoisonStrike
    \/ AIHandler \/ Retreat \/ Act
    \/ \E d \in Deaths : Reward(d) \/ ClearDealers(d) \/ Disappear(d) \/ Respawn(d)

Spec == Init /\ [][Next]_vars

\* Broadcasts return and timers fire; nothing else is needed.
Fairness ==
    /\ \A c \in Players : WF_vars(Cast(c))
    /\ \A d \in Deaths : WF_vars(Respawn(d))

FairSpec == Spec /\ Fairness

----------------------------------------------------------------------------
(* Properties *)

\* A mob without HP is on its way to a death: a blow is about to look at it, or it
\* will come back, or, if it does not, it is being paid for and hidden or is hidden.
\* Unless the broadcast of a blow to a dead mob failed.  Nothing else would ever
\* raise its HP: blows and its handler leave a dead mob alone.
DeadIsScheduled ==
    (HP = 0 /\ ~lost) =>
        \/ casting # {}
        \/ IF Once THEN IsDead \/ paying \cup disappears # {} ELSE respawns # {}

\* A mob that is hidden will be shown again, unless a mob came back before the
\* second was over after which it disappears: that one is there and invisible for good.
HiddenComesBack == (IsDead /\ ~Once /\ ~late) => respawns # {}

\* As long as no dead mob dies again or is healed, no blow reads HP in one life and
\* writes it in the next, and every death is over before the mob is back, a living mob has no timer of an earlier life, and every death finds
\* somebody who gets the drops.
LivesApart == (~crossed /\ ~late) => /\ HP > 0 => Busy = {}
                                     /\ ~unclaimed

\* A mob that comes back does so in the end.
Returns == (HP = 0 /\ ~Once) ~> (HP > 0 \/ Once \/ lost)

\* A hidden mob is shown again.
ShownAgain == (IsDead /\ ~Once) ~> (~IsDead \/ Once \/ late)
============================================================================
