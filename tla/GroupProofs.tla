----------------------------- MODULE GroupProofs -----------------------------
(***************************************************************************)
(* Parties, arena matches and guilds, for any characters, invitations,      *)
(* matches, guilds and handlers that wait at once.                          *)
(* Parties: their types, and that whoever a registered party lists finds    *)
(* it.  A party is registered under its leader; a character is invited only *)
(* while he finds no party, so whoever is listed by one is listed by no     *)
(* other; and a leader of a party that lists anybody finds it himself.      *)
(* Matches: the types, and that verdicts are fair.  A match that is not     *)
(* over was won by nobody, or by both at once (Even), and has changed the   *)
(* honor only of who has left it (JudgedOnce).                              *)
(* Guilds: that members and lists, lists and rows agree.  While nobody went *)
(* astray no two handlers are about one character, so what a handler has    *)
(* seen of its character is still so when it goes on (AtWork); and whoever  *)
(* is on the list of a guild that stays has its id (CharInv).               *)
(***************************************************************************)
EXTENDS Arena, Guild, FiniteSetTheorems, TLAPS

\* A key finds a party of which it is the leader.
KeyInv == \A k \in Chars : Parties[k] # 0 => Leader[Parties[k]] = k
\* A party that is not made lists nobody.
UnmadeInv == \A p \in PartyObjs : Leader[p] = None => MembersOf(p) = {}
\* The member objects listed were made.
MadeInv == \A p \in PartyObjs : \A c \in Chars : Members[p][c] \in 0..invited
Sound == PartyTypeOK /\ KeyInv /\ UnmadeInv /\ MadeInv
\* A registered party does not list its leader; those it lists find it, invited or
\* accepted, and so does the leader if there are any.
Agrees(p) ==
    /\ Leader[p] \notin MembersOf(p)
    /\ \A c \in MembersOf(p) : PartyID[c] = Leader[p]
    /\ MembersOf(p) # {} => PartyID[Leader[p]] = Leader[p]
AgreeInv == \A p \in PartyObjs : Registered(p) => Agrees(p)
PInv == Sound /\ (~strayed => AgreeInv)

\* The types, piece by piece.
LEMMA Typed ==
  ASSUME PartyTypeOK
  PROVE  /\ \A c \in Chars : PartyID[c] \in Chars \cup {None} /\ Parties[c] \in {0} \cup PartyObjs
         /\ \A p \in PartyObjs : Leader[p] \in Chars \cup {None} /\ \A c \in Chars : Members[p][c] \in {0} \cup MemberObjs
         /\ 0 \notin PartyObjs /\ 0 \notin MemberObjs
         /\ \A p \in PartyObjs : MembersOf(p) \subseteq Chars
  BY DEF PartyTypeOK, PartyObjs, MemberObjs, MembersOf

\* What FindParty finds is a registered party, whose leader the PartyID names.
LEMMA Found ==
  ASSUME Sound, NEW c \in Chars, FindParty(c) # 0
  PROVE  /\ FindParty(c) \in PartyObjs /\ Registered(FindParty(c))
         /\ PartyID[c] = Leader[FindParty(c)] /\ PartyID[c] \in Chars
<1>1. PartyID[c] \in Chars /\ FindParty(c) = Parties[PartyID[c]]
  BY Typed DEF Sound, FindParty
<1>2. FindParty(c) \in PartyObjs /\ Leader[FindParty(c)] = PartyID[c]
  BY <1>1, Typed DEF Sound, KeyInv
<1> QED
  BY <1>1, <1>2, PartyAssumption DEF Registered

\* Whoever names the leader of a registered party finds it.
LEMMA Finds ==
  ASSUME Sound, NEW p \in PartyObjs, Registered(p), NEW c, PartyID[c] = Leader[p]
  PROVE  FindParty(c) = p /\ p # 0
  BY Typed DEF Sound, Registered, FindParty

\* At first there are no parties.
LEMMA PInitInv == PartyInit => PInv
<1> SUFFICES ASSUME PartyInit PROVE PInv
  OBVIOUS
<1>1. PartyTypeOK
  BY PartyAssumption DEF PartyInit, PartyTypeOK, PartyObjs, MemberObjs
<1>2. KeyInv /\ UnmadeInv /\ MadeInv
  BY DEF PartyInit, KeyInv, UnmadeInv, MembersOf, MadeInv
<1>3. AgreeInv
  BY DEF PartyInit, AgreeInv, Registered
<1> QED
  BY <1>1, <1>2, <1>3 DEF PInv, Sound

----------------------------------------------------------------------------
(* Invitations *)

\* One that is made first lists the invited character alone.
LEMMA FirstInvitation ==
  ASSUME PInv, NEW c \in Chars, NEW m \in Chars, c # m, NEW p \in PartyObjs,
         NEW i \in MemberObjs,
         FindParty(c) = 0, FindParty(m) = 0, NewParty(c, p),
         Leader' = [Leader EXCEPT ![p] = c],
         Parties' = [Parties EXCEPT ![c] = p],
         PartyID' = [PartyID EXCEPT ![c] = c, ![m] = c],
         Members' = [Members EXCEPT ![p][m] = i]
  PROVE  KeyInv' /\ UnmadeInv' /\ (AgreeInv => AgreeInv')
<1>1. Sound /\ PartyTypeOK /\ KeyInv /\ UnmadeInv
  BY DEF PInv, Sound
<1>2. Leader[p] = None /\ MembersOf(p) = {}
  BY <1>1 DEF NewParty, UnmadeInv
<1>3. i # 0 /\ c # None /\ p # 0
  BY PartyAssumption DEF MemberObjs, PartyObjs
<1>4. \A q \in PartyObjs : Leader'[q] = IF q = p THEN c ELSE Leader[q]
  BY <1>1 DEF PartyTypeOK
<1>5. \A k \in Chars : Parties'[k] = IF k = c THEN p ELSE Parties[k]
  BY <1>1 DEF PartyTypeOK
<1>6. \A d \in Chars : PartyID'[d] = IF d = c \/ d = m THEN c ELSE PartyID[d]
  BY <1>1 DEF PartyTypeOK
<1>7. \A q \in PartyObjs : \A d \in Chars : Members'[q][d] = IF q = p /\ d = m THEN i ELSE Members[q][d]
  BY <1>1 DEF PartyTypeOK
<1>8. \A q \in PartyObjs : MembersOf(q)' = IF q = p THEN {m} ELSE MembersOf(q)
  BY <1>2, <1>3, <1>7 DEF MembersOf
<1>9. KeyInv'
  BY <1>1, <1>2, <1>4, <1>5, Typed, PartyAssumption DEF KeyInv
<1>10. UnmadeInv'
  BY <1>1, <1>3, <1>4, <1>8 DEF UnmadeInv
<1>11. ASSUME AgreeInv PROVE AgreeInv'
  <2> SUFFICES ASSUME NEW q \in PartyObjs, Registered(q)' PROVE Agrees(q)'
    BY DEF AgreeInv
  <2>1. CASE q = p
    BY <1>4, <1>6, <1>8, <2>1 DEF Agrees
  <2>2. CASE q # p
    <3>1. Leader'[q] = Leader[q] /\ Leader[q] \in Chars
      BY <1>1, <1>4, <2>2, Typed DEF Registered
    <3>2. Leader[q] # c /\ Registered(q)
      BY <1>4, <1>5, <2>2, <3>1 DEF Registered
    <3>3. Agrees(q)
      BY <1>11, <3>2 DEF AgreeInv
    <3>4. \A d \in Chars : PartyID[d] = Leader[q] => PartyID'[d] = PartyID[d]
      <4>1. \A d \in Chars : PartyID[d] = Leader[q] => FindParty(d) # 0
        BY <1>1, <3>2, Finds
      <4> QED
        BY <1>6, <4>1
    <3> QED
      BY <1>1, <1>8, <2>2, <3>1, <3>3, <3>4, Typed DEF Agrees
  <2> QED
    BY <2>1, <2>2
<1> QED
  BY <1>9, <1>10, <1>11

\* A leader invites one more.
LEMMA NextInvitation ==
  ASSUME PInv, NEW c \in Chars, NEW m \in Chars, c # m, NEW p \in PartyObjs,
         NEW i \in MemberObjs,
         FindParty(c) = p, FindParty(m) = 0,
         PartyID' = [PartyID EXCEPT ![m] = c],
         Members' = [Members EXCEPT ![p][m] = i],
         UNCHANGED <<Leader, Parties>>
  PROVE  KeyInv' /\ UnmadeInv' /\ (AgreeInv /\ Leader[p] = c => AgreeInv')
<1>1. Sound /\ PartyTypeOK /\ KeyInv /\ UnmadeInv
  BY DEF PInv, Sound
<1>2. i # 0 /\ p # 0
  BY DEF MemberObjs, PartyObjs
<1>3. Registered(p) /\ PartyID[c] = Leader[p] /\ Leader[p] # None
  BY <1>1, <1>2, Found DEF Registered
<1>4. \A d \in Chars : PartyID'[d] = IF d = m THEN c ELSE PartyID[d]
  BY <1>1 DEF PartyTypeOK
<1>5. \A q \in PartyObjs : \A d \in Chars : Members'[q][d] = IF q = p /\ d = m THEN i ELSE Members[q][d]
  BY <1>1 DEF PartyTypeOK
<1>6. \A q \in PartyObjs : MembersOf(q)' = IF q = p THEN MembersOf(q) \cup {m} ELSE MembersOf(q)
  BY <1>2, <1>5 DEF MembersOf
<1>7. KeyInv' /\ UnmadeInv'
  BY <1>1, <1>3, <1>6 DEF KeyInv, UnmadeInv
<1>8. ASSUME AgreeInv, Leader[p] = c PROVE AgreeInv'
  <2> SUFFICES ASSUME NEW q \in PartyObjs, Registered(q) PROVE Agrees(q)'
    BY DEF AgreeInv, Registered
  <2>1. Agrees(q)
    BY <1>8 DEF AgreeInv
  <2>2. \A d \in Chars : PartyID[d] = Leader[q] => d # m /\ PartyID'[d] = PartyID[d]
    BY <1>1, <1>4, Finds
  <2>3. CASE q = p
    BY <1>1, <1>3, <1>4, <1>6, <1>8, <2>1, <2>2, <2>3, Typed DEF Agrees
  <2>4. CASE q # p
    BY <1>1, <1>6, <2>1, <2>2, <2>4, Typed DEF Agrees
  <2> QED
    BY <2>3, <2>4
<1> QED
  BY <1>7, <1>8

\* Both kinds of invitation.
LEMMA SendPartyRequestKeeps ==
  ASSUME PInv, NEW c \in Chars, NEW m \in Chars, SendPartyRequest(c, m) PROVE PInv'
<1>1. Sound /\ PartyTypeOK
  BY DEF PInv, Sound
<1>2. PICK i : i = invited + 1
  OBVIOUS
<1>3. i \in MemberObjs /\ invited' = i /\ invited \in Nat
  BY <1>1, <1>2, PartyAssumption DEF SendPartyRequest, PartyTypeOK, MemberObjs
<1>4. PICK p \in PartyObjs :
        /\ \/ /\ FindParty(c) = 0 /\ NewParty(c, p)
              /\ Leader' = [Leader EXCEPT ![p] = c]
              /\ Parties' = [Parties EXCEPT ![c] = p]
              /\ PartyID' = [PartyID EXCEPT ![c] = c, ![m] = c]
           \/ /\ FindParty(c) = p
              /\ PartyID' = [PartyID EXCEPT ![m] = c]
              /\ UNCHANGED <<Leader, Parties>>
        /\ Members' = [Members EXCEPT ![p][m] = i]
        /\ timers' = timers \cup {[party |-> p, char |-> m, member |-> i]}
        /\ asked' = asked \cup {m}
  BY <1>3 DEF SendPartyRequest
<1>5. /\ c # m /\ FindParty(m) = 0
      /\ strayed' = (strayed \/ (FindParty(c) # 0 /\ Leader[FindParty(c)] # c))
      /\ UNCHANGED <<online, Accepted>>
  BY DEF SendPartyRequest
<1>6. PartyTypeOK'
  <2>1. /\ PartyID' \in [Chars -> Chars \cup {None}]
        /\ Leader' \in [PartyObjs -> Chars \cup {None}]
        /\ Parties' \in [Chars -> {0} \cup PartyObjs]
    <3>1. CASE /\ Leader' = [Leader EXCEPT ![p] = c]
               /\ Parties' = [Parties EXCEPT ![c] = p]
               /\ PartyID' = [PartyID EXCEPT ![c] = c, ![m] = c]
      BY <1>1, <3>1 DEF PartyTypeOK
    <3>2. CASE PartyID' = [PartyID EXCEPT ![m] = c] /\ UNCHANGED <<Leader, Parties>>
      BY <1>1, <3>2 DEF PartyTypeOK
    <3> QED
      BY <1>4, <3>1, <3>2
  <2>2. Members' \in [PartyObjs -> [Chars -> {0} \cup MemberObjs]]
    <3>1. [Members[p] EXCEPT ![m] = i] \in [Chars -> {0} \cup MemberObjs]
      BY <1>1, <1>3 DEF PartyTypeOK
    <3>2. Members' = [Members EXCEPT ![p] = [Members[p] EXCEPT ![m] = i]]
      BY <1>4
    <3> QED
      BY <1>1, <3>1, <3>2 DEF PartyTypeOK
  <2>3. timers' \subseteq Timer /\ asked' \subseteq Chars
    BY <1>1, <1>3, <1>4 DEF PartyTypeOK, Timer
  <2>4. Accepted' \subseteq 1..invited' /\ invited' \in {0} \cup MemberObjs
    BY <1>1, <1>2, <1>3, <1>5 DEF PartyTypeOK
  <2>5. strayed' \in BOOLEAN /\ online' \subseteq Chars
    BY <1>1, <1>5 DEF PartyTypeOK
  <2> QED
    BY <2>1, <2>2, <2>3, <2>4, <2>5 DEF PartyTypeOK
<1>9. MadeInv'
  <2>1. \A q \in PartyObjs : \A d \in Chars : Members'[q][d] = IF q = p /\ d = m THEN i ELSE Members[q][d]
    BY <1>1, <1>4 DEF PartyTypeOK
  <2>2. \A q \in PartyObjs : \A d \in Chars : Members[q][d] \in 0..invited
    BY <1>1 DEF Sound, MadeInv
  <2> QED
    BY <1>2, <1>3, <2>1, <2>2 DEF MadeInv
<1>7. CASE /\ FindParty(c) = 0 /\ NewParty(c, p)
           /\ Leader' = [Leader EXCEPT ![p] = c]
           /\ Parties' = [Parties EXCEPT ![c] = p]
           /\ PartyID' = [PartyID EXCEPT ![c] = c, ![m] = c]
  BY <1>3, <1>4, <1>5, <1>6, <1>7, <1>9, FirstInvitation DEF PInv, Sound
<1>8. CASE /\ FindParty(c) = p
           /\ PartyID' = [PartyID EXCEPT ![m] = c]
           /\ UNCHANGED <<Leader, Parties>>
  <2>1. KeyInv' /\ UnmadeInv' /\ (AgreeInv /\ Leader[p] = c => AgreeInv')
    BY <1>3, <1>4, <1>5, <1>8, NextInvitation
  <2>2. p # 0
    BY DEF PartyObjs
  <2> QED
    BY <1>5, <1>6, <1>8, <1>9, <2>1, <2>2 DEF PInv, Sound
<1> QED
  BY <1>4, <1>7, <1>8

----------------------------------------------------------------------------
(* Answers and timers *)

\* The types when one name is taken off a list.
LEMMA RemoveTypes ==
  ASSUME PartyTypeOK, NEW p \in PartyObjs, NEW c \in Chars, Members' = RemoveMember(p, c)
  PROVE  /\ Members' \in [PartyObjs -> [Chars -> {0} \cup MemberObjs]]
         /\ \A q \in PartyObjs : \A d \in Chars : Members'[q][d] \in {0, Members[q][d]}
         /\ \A q \in PartyObjs : MembersOf(q)' = IF q = p THEN MembersOf(q) \ {c} ELSE MembersOf(q)
<1>1. [Members[p] EXCEPT ![c] = 0] \in [Chars -> {0} \cup MemberObjs]
  BY DEF PartyTypeOK
<1>2. Members' = [Members EXCEPT ![p] = [Members[p] EXCEPT ![c] = 0]]
  BY DEF RemoveMember
<1>3. \A q \in PartyObjs : \A d \in Chars : Members'[q][d] = IF q = p /\ d = c THEN 0 ELSE Members[q][d]
  BY <1>2 DEF PartyTypeOK
<1> QED
  BY <1>1, <1>2, <1>3 DEF PartyTypeOK, MembersOf

\* A list that gets shorter holds member objects that were made.
LEMMA FewerMade ==
  ASSUME MadeInv, invited' = invited, PartyTypeOK,
         \A q \in PartyObjs : \A d \in Chars : Members'[q][d] \in {0, Members[q][d]}
  PROVE  MadeInv'
<1>1. invited \in Nat
  BY PartyAssumption DEF PartyTypeOK, MemberObjs
<1> QED
  BY <1>1 DEF MadeInv

\* A timer makes a list shorter, or does nothing.
LEMMA InviteTimeoutKeeps ==
  ASSUME PInv, NEW t \in timers, InviteTimeout(t) PROVE PInv'
<1>1. Sound /\ PartyTypeOK /\ KeyInv /\ UnmadeInv
  BY DEF PInv, Sound
<1>2. t.party \in PartyObjs /\ t.char \in Chars
  BY <1>1 DEF PartyTypeOK, Timer
<1>3. /\ timers' = timers \ {t}
      /\ Members' = IF t.member \in Accepted THEN Members ELSE RemoveMember(t.party, t.char)
      /\ UNCHANGED <<online, PartyID, Parties, Leader, Accepted, invited, asked, strayed>>
  BY DEF InviteTimeout
<1>4. /\ Members' \in [PartyObjs -> [Chars -> {0} \cup MemberObjs]]
      /\ \A q \in PartyObjs : \A d \in Chars : Members'[q][d] \in {0, Members[q][d]}
      /\ \A q \in PartyObjs : MembersOf(q)' \subseteq MembersOf(q)
  <2>1. CASE t.member \in Accepted
    BY <1>1, <1>3, <2>1 DEF PartyTypeOK, MembersOf
  <2>2. CASE t.member \notin Accepted
    BY <1>1, <1>2, <1>3, <2>2, RemoveTypes
  <2> QED
    BY <2>1, <2>2
<1>5. PartyTypeOK'
  BY <1>1, <1>3, <1>4 DEF PartyTypeOK
<1>6. KeyInv' /\ UnmadeInv'
  BY <1>1, <1>3, <1>4 DEF KeyInv, UnmadeInv
<1>7. MadeInv'
  BY <1>1, <1>3, <1>4, FewerMade DEF Sound
<1>8. AgreeInv => AgreeInv'
  BY <1>3, <1>4 DEF AgreeInv, Registered, Agrees
<1> QED
  BY <1>3, <1>5, <1>6, <1>7, <1>8 DEF PInv, Sound

\* An answer changes no list.
LEMMA AcceptKeeps ==
  ASSUME PInv, NEW c \in Chars, Accept(c) PROVE PInv'
<1>1. Sound /\ PartyTypeOK /\ KeyInv /\ UnmadeInv /\ MadeInv
  BY DEF PInv, Sound
<1>2. UNCHANGED <<online, PartyID, Parties, Leader, Members, invited, timers, strayed>> /\ asked' = asked \ {c}
  BY DEF Accept
<1>3. \A q \in PartyObjs : MembersOf(q)' = MembersOf(q)
  BY <1>2 DEF MembersOf
<1>4. Accepted' \subseteq 1..invited
  <2>1. PICK p : p = FindParty(c)
    OBVIOUS
  <2>2. Accepted' = IF p # 0 /\ Members[p][c] # 0 THEN Accepted \cup {Members[p][c]} ELSE Accepted
    BY <2>1 DEF Accept
  <2>3. p # 0 => p \in PartyObjs
    BY <1>1, <2>1, Found
  <2>4. p # 0 => Members[p][c] \in 0..invited
    BY <1>1, <2>3 DEF MadeInv
  <2>5. invited \in Nat /\ Accepted \subseteq 1..invited
    BY <1>1, PartyAssumption DEF PartyTypeOK, MemberObjs
  <2>6. p # 0 /\ Members[p][c] # 0 => Members[p][c] \in 1..invited
    BY <2>4, <2>5
  <2> QED
    BY <2>2, <2>5, <2>6
<1>5. PartyTypeOK'
  BY <1>1, <1>2, <1>4 DEF PartyTypeOK
<1>6. KeyInv' /\ UnmadeInv' /\ MadeInv'
  BY <1>1, <1>2, <1>3 DEF KeyInv, UnmadeInv, MadeInv
<1>7. AgreeInv => AgreeInv'
  BY <1>2, <1>3 DEF AgreeInv, Registered, Agrees
<1> QED
  BY <1>2, <1>5, <1>6, <1>7 DEF PInv, Sound

----------------------------------------------------------------------------
(* Somebody is taken off a list *)

\* He has no party then; nor has the leader when nobody is left, and the party may
\* be deleted.
TakenOff(p, m) ==
    /\ Members' = RemoveMember(p, m)
    /\ PartyID' = [d \in Chars |-> IF d = m \/ (d = Leader[p] /\ EmptyWithout(p, m)) THEN None ELSE PartyID[d]]
    /\ Parties' = Parties \/ (Parties' = Delete(p) /\ EmptyWithout(p, m))
    /\ UNCHANGED <<online, Leader, Accepted, invited, timers>>
    /\ asked' \subseteq asked /\ strayed' \in BOOLEAN

LEMMA TakenOffKeeps ==
  ASSUME Sound, NEW p \in PartyObjs, Registered(p), NEW m \in Chars, TakenOff(p, m)
  PROVE  Sound' /\ (AgreeInv /\ m \in MembersOf(p) => AgreeInv')
<1>1. PartyTypeOK /\ KeyInv /\ UnmadeInv /\ MadeInv
  BY DEF Sound
<1>2. /\ Members' \in [PartyObjs -> [Chars -> {0} \cup MemberObjs]]
      /\ \A q \in PartyObjs : \A d \in Chars : Members'[q][d] \in {0, Members[q][d]}
      /\ \A q \in PartyObjs : MembersOf(q)' = IF q = p THEN MembersOf(q) \ {m} ELSE MembersOf(q)
  BY <1>1, RemoveTypes DEF TakenOff
<1>3. Leader[p] \in Chars
  BY <1>1, Typed DEF Registered
<1>4. /\ PartyID' \in [Chars -> Chars \cup {None}]
      /\ \A d \in Chars : PartyID'[d] = IF d = m \/ (d = Leader[p] /\ MembersOf(p) \subseteq {m}) THEN None ELSE PartyID[d]
  BY <1>1 DEF TakenOff, PartyTypeOK, EmptyWithout
<1>5. Parties' \in [Chars -> {0} \cup PartyObjs] /\ \A k \in Chars : Parties'[k] \in {0, Parties[k]}
  BY <1>1 DEF TakenOff, Delete, PartyTypeOK
<1>6. Leader' = Leader /\ invited' = invited
  BY DEF TakenOff
<1>7. PartyTypeOK'
  BY <1>1, <1>2, <1>4, <1>5 DEF PartyTypeOK, TakenOff
<1>8. KeyInv' /\ UnmadeInv'
  <2>1. KeyInv'
    BY <1>1, <1>5, <1>6 DEF KeyInv
  <2>2. UnmadeInv'
    BY <1>1, <1>2, <1>6 DEF UnmadeInv
  <2> QED
    BY <2>1, <2>2
<1>9. MadeInv'
  BY <1>1, <1>2, <1>6, FewerMade
<1>10. ASSUME AgreeInv, m \in MembersOf(p), NEW q \in PartyObjs, Registered(q)' PROVE Agrees(q)'
  <2>1. Registered(q) /\ Leader[q] \in Chars
    <3>1. Leader[q] \in Chars
      BY <1>1, <1>6, <1>10, Typed DEF Registered
    <3>2. q # 0
      BY DEF PartyObjs
    <3> QED
      BY <1>5, <1>6, <1>10, <3>1, <3>2 DEF Registered
  <2>2. Agrees(q) /\ Agrees(p)
    BY <1>10, <2>1 DEF AgreeInv
  <2>3. CASE q # p
    <3>1. Leader[q] # Leader[p]
      BY <2>1, <2>3 DEF Registered
    <3>2. PartyID[m] = Leader[p] /\ PartyID[Leader[p]] = Leader[p]
      BY <1>10, <2>2 DEF Agrees
    <3>3. \A d \in Chars : PartyID[d] = Leader[q] => PartyID'[d] = PartyID[d]
      BY <1>4, <3>1, <3>2
    <3> QED
      BY <1>1, <1>2, <1>6, <2>1, <2>2, <2>3, <3>3, Typed DEF Agrees
  <2>4. CASE q = p
    <3>1. m # Leader[p]
      BY <1>10, <2>2 DEF Agrees
    <3>2. MembersOf(p)' = MembersOf(p) \ {m} /\ MembersOf(p) \subseteq Chars
      BY <1>1, <1>2, Typed
    <3> QED
      BY <1>3, <1>4, <1>6, <2>2, <2>4, <3>1, <3>2 DEF Agrees
  <2> QED
    BY <2>3, <2>4
<1> QED
  BY <1>7, <1>8, <1>9, <1>10 DEF Sound, AgreeInv

\* Rejecting takes the character off the list of the party he finds.
LEMMA RejectKeeps ==
  ASSUME PInv, NEW c \in Chars, Reject(c) PROVE PInv'
<1>1. Sound /\ (~strayed => AgreeInv)
  BY DEF PInv
<1>2. PICK p : p = FindParty(c)
  OBVIOUS
<1>3. /\ asked' = asked \ {c}
      /\ strayed' = (strayed \/ (p # 0 /\ Members[p][c] \notin MemberObjs \ Accepted))
      /\ UNCHANGED <<online, Parties, Leader, Accepted, invited, timers>>
  BY <1>2 DEF Reject
<1>4. CASE p = 0
  <2>1. UNCHANGED <<PartyID, Members, Parties, Leader, online, Accepted, invited, timers, strayed>>
    BY <1>1, <1>2, <1>3, <1>4 DEF Reject, Sound, PartyTypeOK
  <2>2. Sound'
    BY <1>1, <1>3, <2>1 DEF Sound, PartyTypeOK, KeyInv, UnmadeInv, MadeInv, MembersOf
  <2>3. AgreeInv => AgreeInv'
    BY <2>1 DEF AgreeInv, Agrees, Registered, MembersOf
  <2> QED
    BY <1>1, <2>1, <2>2, <2>3 DEF PInv
<1>5. CASE p # 0
  <2>1. p \in PartyObjs /\ Registered(p)
    BY <1>1, <1>2, <1>5, Found
  <2>2. strayed' \in BOOLEAN
    BY <1>1, <1>3 DEF Sound, PartyTypeOK
  <2>3. TakenOff(p, c)
    BY <1>2, <1>3, <1>5, <2>2 DEF Reject, TakenOff
  <2>4. ~strayed' => ~strayed /\ c \in MembersOf(p)
    <3> SUFFICES ASSUME ~strayed' PROVE ~strayed /\ c \in MembersOf(p)
      OBVIOUS
    <3>1. ~strayed /\ Members[p][c] \in MemberObjs
      BY <1>3, <1>5
    <3>2. 0 \notin MemberObjs
      BY DEF MemberObjs
    <3> QED
      BY <3>1, <3>2 DEF MembersOf
  <2> QED
    BY <1>1, <2>1, <2>3, <2>4, TakenOffKeeps DEF PInv
<1> QED
  BY <1>4, <1>5

\* So does the leader who expels him.
LEMMA ExpelKeeps ==
  ASSUME PInv, NEW c \in Chars, NEW m \in Chars, Expel(c, m) PROVE PInv'
<1>1. Sound /\ (~strayed => AgreeInv)
  BY DEF PInv
<1>2. PICK p : p = FindParty(c)
  OBVIOUS
<1>3. p # 0 /\ m \in MembersOf(p) /\ UNCHANGED strayed
  BY <1>2 DEF Expel
<1>4. p \in PartyObjs /\ Registered(p)
  BY <1>1, <1>2, <1>3, Found
<1>5. TakenOff(p, m)
  <2>1. strayed' \in BOOLEAN
    BY <1>1, <1>3 DEF Sound, PartyTypeOK
  <2> QED
    BY <1>2, <2>1 DEF Expel, TakenOff
<1> QED
  BY <1>1, <1>3, <1>4, <1>5, TakenOffKeeps DEF PInv

----------------------------------------------------------------------------
(* Leaving *)

\* The leader disbands the party.
LEMMA DisbandKeeps ==
  ASSUME Sound, NEW p \in PartyObjs, Registered(p), Leader[p] \in Chars, PartyID[Leader[p]] = Leader[p],
         PartyID' = [d \in Chars |-> IF d = Leader[p] \/ d \in AcceptedOf(p) THEN None ELSE PartyID[d]],
         Parties' = Delete(p), UNCHANGED <<online, Leader, Members, Accepted, invited, asked, timers>>,
         strayed' \in BOOLEAN
  PROVE  Sound' /\ (AgreeInv => AgreeInv')
<1>1. PartyTypeOK /\ KeyInv /\ UnmadeInv /\ MadeInv
  BY DEF Sound
<1>2. /\ PartyID' \in [Chars -> Chars \cup {None}]
      /\ \A d \in Chars : PartyID'[d] = IF d = Leader[p] \/ d \in AcceptedOf(p) THEN None ELSE PartyID[d]
  BY <1>1 DEF PartyTypeOK
<1>3. /\ Parties' \in [Chars -> {0} \cup PartyObjs]
      /\ \A k \in Chars : Parties'[k] = IF k = Leader[p] THEN 0 ELSE Parties[k]
  BY <1>1 DEF Delete, PartyTypeOK
<1>4. \A q \in PartyObjs : MembersOf(q)' = MembersOf(q)
  BY DEF MembersOf
<1>5. PartyTypeOK'
  BY <1>1, <1>2, <1>3 DEF PartyTypeOK
<1>6. KeyInv' /\ UnmadeInv' /\ MadeInv'
  BY <1>1, <1>3, <1>4 DEF KeyInv, UnmadeInv, MadeInv
<1>7. ASSUME AgreeInv, NEW q \in PartyObjs, Registered(q)' PROVE Agrees(q)'
  <2>1. Leader[q] \in Chars
    BY <1>1, Typed, <1>7 DEF Registered
  <2>2. Registered(q) /\ Leader[q] # Leader[p]
    BY <1>3, <1>7, <2>1 DEF Registered, PartyObjs
  <2>3. Agrees(q) /\ Agrees(p)
    BY <1>7, <2>2 DEF AgreeInv
  <2>4. \A d \in AcceptedOf(p) : PartyID[d] = Leader[p]
    BY <2>3 DEF Agrees, AcceptedOf
  <2>5. MembersOf(q) # {} => PartyID'[Leader[q]] = Leader[q]
    <3>1. MembersOf(q) # {} => PartyID[Leader[q]] = Leader[q]
      BY <2>3 DEF Agrees
    <3> QED
      BY <1>2, <2>1, <2>2, <2>4, <3>1
  <2>6. \A d \in MembersOf(q) : PartyID'[d] = Leader[q]
    <3> SUFFICES ASSUME NEW d \in MembersOf(q) PROVE PartyID'[d] = Leader[q]
      OBVIOUS
    <3>1. d \in Chars /\ PartyID[d] = Leader[q]
      BY <2>3 DEF Agrees, MembersOf
    <3>2. d \notin AcceptedOf(p)
      BY <2>2, <2>4, <3>1
    <3>3. d # Leader[p]
      BY <2>2, <3>1, PartyID[Leader[p]] = Leader[p]
    <3> QED
      BY <1>2, <3>1, <3>2, <3>3
  <2> QED
    BY <1>4, <2>3, <2>5, <2>6 DEF Agrees
<1> QED
  BY <1>5, <1>6, <1>7 DEF Sound, AgreeInv

\* A leader disbands his party, a member is taken off its list.
LEMMA LeaveKeeps ==
  ASSUME PInv, NEW c \in Chars, Leave(c) PROVE PInv'
<1>1. Sound /\ (~strayed => AgreeInv)
  BY DEF PInv
<1>2. PICK p : p = FindParty(c)
  OBVIOUS
<1>3. /\ p # 0
      /\ LeaderLeaves(c, p, FALSE) \/ MemberLeaves(c, p)
      /\ strayed' = (strayed \/ (p # 0 /\ c \notin MembersOf(p) \cup {Leader[p]}))
      /\ UNCHANGED <<online, Accepted, invited, asked, timers>>
  BY <1>2 DEF Leave, LeaveParty
<1>4. p \in PartyObjs /\ Registered(p)
  BY <1>1, <1>2, <1>3, Found DEF Leave
<1>5. strayed' \in BOOLEAN
  BY <1>1, <1>3 DEF Sound, PartyTypeOK
<1>6. CASE LeaderLeaves(c, p, FALSE)
  <2>1. /\ Leader[p] = c /\ Leader[p] \in Chars /\ PartyID[Leader[p]] = Leader[p]
        /\ PartyID' = [d \in Chars |-> IF d = Leader[p] \/ d \in AcceptedOf(p) THEN None ELSE PartyID[d]]
        /\ Parties' = Delete(p) /\ UNCHANGED <<Leader, Members>>
    BY <1>1, <1>2, <1>3, <1>6, Found DEF LeaderLeaves
  <2>2. Sound' /\ (AgreeInv => AgreeInv')
    BY <1>1, <1>3, <1>4, <1>5, <2>1, DisbandKeeps
  <2> QED
    BY <1>1, <1>3, <2>2 DEF PInv
<1>7. CASE MemberLeaves(c, p)
  <2>1. Leader[p] # c /\ TakenOff(p, c)
    BY <1>3, <1>5, <1>7 DEF MemberLeaves, TakenOff
  <2>2. Sound' /\ (AgreeInv /\ c \in MembersOf(p) => AgreeInv')
    BY <1>1, <1>4, <2>1, TakenOffKeeps
  <2>3. ~strayed' => ~strayed /\ c \in MembersOf(p)
    BY <1>2, <1>3, <2>1 DEF Leave
  <2> QED
    BY <1>1, <2>2, <2>3 DEF PInv
<1> QED
  BY <1>3, <1>6, <1>7

\* The invariant is inductive.
LEMMA PNextInv == PInv /\ [PartyNext]_partyVars => PInv'
<1> SUFFICES ASSUME PInv, [PartyNext]_partyVars PROVE PInv'
  OBVIOUS
<1>1. ASSUME NEW c \in Chars, NEW m \in Chars, SendPartyRequest(c, m) \/ Expel(c, m) PROVE PInv'
  BY <1>1, SendPartyRequestKeeps, ExpelKeeps
<1>2. ASSUME NEW c \in Chars, Accept(c) \/ Reject(c) \/ Leave(c) PROVE PInv'
  BY <1>2, AcceptKeeps, RejectKeeps, LeaveKeeps
<1>3. ASSUME NEW t \in timers, InviteTimeout(t) PROVE PInv'
  BY <1>3, InviteTimeoutKeeps
<1>4. CASE UNCHANGED partyVars
  BY <1>4 DEF partyVars, PInv, Sound, PartyTypeOK, KeyInv, UnmadeInv, MadeInv, AgreeInv, Agrees, Registered, MembersOf
<1> QED
  BY <1>1, <1>2, <1>3, <1>4 DEF PartyNext

\* Parties keep their types, whoever invites, answers and leaves and whenever timers run.
THEOREM PartiesTyped == PartySpec => []PartyTypeOK
<1>1. PInv => PartyTypeOK
  BY DEF PInv, Sound
<1> QED
  BY <1>1, PInitInv, PNextInv, PTL DEF PartySpec

\* Whatever the number of characters, parties and invitations, a leader and an
\* accepted member of a registered party find it, as long as nobody who does not
\* lead invited and nobody acted on a party that does not list him.
THEOREM PartiesAlwaysAgree == PartySpec => []PartiesAgree
<1>1. PInv => PartiesAgree
  <2> SUFFICES ASSUME PInv, ~strayed, NEW p \in PartyObjs, Registered(p),
                      NEW c \in AcceptedOf(p) \cup (IF AcceptedOf(p) = {} THEN {} ELSE {Leader[p]})
               PROVE  FindParty(c) = p
    BY DEF PartiesAgree
  <2>1. Sound /\ Agrees(p)
    BY DEF PInv, AgreeInv
  <2>2. AcceptedOf(p) \subseteq MembersOf(p)
    BY DEF AcceptedOf
  <2>3. PartyID[c] = Leader[p]
    BY <2>1, <2>2 DEF Agrees
  <2> QED
    BY <2>1, <2>3, Finds
<1> QED
  BY <1>1, PInitInv, PNextInv, PTL DEF PartySpec
----------------------------------------------------------------------------
(* Matches.  A second of a match leaves it open with the teams level or none *)
(* at its number of wins, or the verdict goes to who has won as many rounds  *)
(* as the other at least.  Who was judged is in no match that goes on.       *)

MatchRec == [id : Nat, team : [Teams -> SUBSET Chars], wins : [Teams -> Nat],
             game : Nat, left : 0..RoundTime, wait : BOOLEAN, result : Result]
Scores == [wins : [Teams -> Nat], game : Nat, wait : BOOLEAN, pending : Nat, by : SUBSET Teams, result : Result]

LEMMA TwoTeams ==
  /\ Teams = {"A", "B"} /\ "A" # "B" /\ Cardinality(Teams) = 2
  /\ \A t \in Teams : Cardinality({t}) = 1 /\ Other(t) \in Teams /\ Other(t) # t /\ Teams = {t, Other(t)}
<1>1. \A t \in Teams : Cardinality({t}) = 1
  BY FS_Singleton
<1>2. Cardinality({"A", "B"}) = 2
  <2>1. IsFiniteSet({"A"}) /\ Cardinality({"A"}) = 1 /\ "B" \notin {"A"} /\ {"A"} \cup {"B"} = {"A", "B"}
    BY FS_Singleton
  <2> QED
    BY <2>1, FS_AddElement
<1> QED
  BY <1>1, <1>2 DEF Teams, Other

\* What a round changes.
LEMMA Scored ==
  ASSUME NEW s \in Scores, NEW w \in [Teams -> Nat], NEW n \in Nat
  PROVE  [s EXCEPT !.wins = w, !.game = n] \in Scores /\ [s EXCEPT !.wait = TRUE, !.pending = n] \in Scores
<1>1. [s EXCEPT !.wins = w, !.game = n] \in Scores
  BY DEF Scores
<1>2. [s EXCEPT !.wait = TRUE, !.pending = n] \in Scores
  BY DEF Scores
<1> QED
  BY <1>1, <1>2

\* A round that one team wins.
LEMMA ScoreOne ==
  ASSUME NEW s \in Scores, NEW t \in Teams
  PROVE  LET r == Score(s, {t}) IN
         /\ r \in Scores /\ r.result = s.result /\ r.game = s.game + 1
         /\ r.wins[t] = s.wins[t] + 1 /\ r.wins[Other(t)] = s.wins[Other(t)]
         /\ r.by = IF s.wins[t] + 1 >= WinNumber THEN s.by \cup {t} ELSE s.by
         /\ r.pending = s.pending \/ (r.pending = s.pending + 1 /\ r.game <= MaxGames)
<1> DEFINE w == [u \in Teams |-> IF u \in {t} THEN s.wins[u] + 1 ELSE s.wins[u]]
           r0 == [s EXCEPT !.wins = w, !.game = s.game + 1]
           goesOn == (\A u \in {t} : ~Wins(r0, u)) /\ r0.game <= MaxGames /\ r0.by \subseteq {t}
<1>1. /\ s.wins \in [Teams -> Nat] /\ s.game \in Nat /\ s.pending \in Nat /\ s.wait \in BOOLEAN
      /\ s.by \subseteq Teams /\ s.result \in Result
  BY DEF Scores
<1>2. w \in [Teams -> Nat] /\ w[t] = s.wins[t] + 1 /\ w[Other(t)] = s.wins[Other(t)]
  BY <1>1, TwoTeams
<1> HIDE DEF w
<1>3. /\ r0 \in Scores /\ r0.wins = w /\ r0.game = s.game + 1 /\ r0.by = s.by /\ r0.pending = s.pending
      /\ r0.result = s.result
  <2>1. r0 \in Scores
    <3>1. s.game + 1 \in Nat
      BY <1>1
    <3> QED
      BY <1>2, <3>1, Scored
  <2>2. r0.wins = w /\ r0.game = s.game + 1
    BY <1>1, <1>2 DEF Scores
  <2>3. r0.by = s.by /\ r0.pending = s.pending /\ r0.result = s.result
    BY <1>1, <1>2 DEF Scores
  <2> QED
    BY <2>1, <2>2, <2>3
<1>4. Score(s, {t}) = IF goesOn THEN [r0 EXCEPT !.wait = TRUE, !.pending = r0.pending + 1]
                      ELSE IF Cardinality({t}) = 1 /\ (\A u \in {t} : Wins(r0, u)) THEN [r0 EXCEPT !.by = r0.by \cup {t}]
                      ELSE IF Cardinality({t}) = 2 /\ Cardinality({u \in Teams : Wins(r0, u)}) = 1
                           THEN [r0 EXCEPT !.result = CHOOSE u \in Teams : Wins(r0, u)]
                      ELSE r0
  BY DEF Score, w
<1> HIDE DEF r0
<1>5. (\A u \in {t} : Wins(r0, u)) <=> s.wins[t] + 1 >= WinNumber
  BY <1>2, <1>3 DEF Wins
<1>6. CASE goesOn
  <2>1. Score(s, {t}) = [r0 EXCEPT !.wait = TRUE, !.pending = r0.pending + 1]
    BY <1>4, <1>6
  <2>2. ~(s.wins[t] + 1 >= WinNumber) /\ r0.game <= MaxGames
    BY <1>5, <1>6
  <2>3. LET r == Score(s, {t}) IN /\ r \in Scores /\ r.result = r0.result /\ r.game = r0.game /\ r.wins = r0.wins
                                  /\ r.by = r0.by /\ r.pending = r0.pending + 1
    <3>1. Score(s, {t}) \in Scores
      <4>1. r0.pending + 1 \in Nat
        BY <1>1, <1>3
      <4> QED
        BY <1>2, <1>3, <2>1, <4>1, Scored
    <3>2. LET r == Score(s, {t}) IN r.result = r0.result /\ r.game = r0.game /\ r.wins = r0.wins
      BY <1>3, <2>1 DEF Scores
    <3>3. LET r == Score(s, {t}) IN r.by = r0.by /\ r.pending = r0.pending + 1
      BY <1>3, <2>1 DEF Scores
    <3> QED
      BY <3>1, <3>2, <3>3
  <2> QED
    BY <1>2, <1>3, <2>2, <2>3
<1>7. CASE ~goesOn /\ s.wins[t] + 1 >= WinNumber
  <2>1. Score(s, {t}) = [r0 EXCEPT !.by = r0.by \cup {t}]
    BY <1>4, <1>5, <1>7, TwoTeams
  <2>2. LET r == Score(s, {t}) IN /\ r \in Scores /\ r.result = r0.result /\ r.game = r0.game /\ r.wins = r0.wins
                                  /\ r.by = r0.by \cup {t} /\ r.pending = r0.pending
    BY <1>3, <2>1 DEF Scores
  <2> QED
    BY <1>2, <1>3, <1>7, <2>2
<1>8. CASE ~goesOn /\ ~(s.wins[t] + 1 >= WinNumber)
  <2>1. Score(s, {t}) = r0
    BY <1>4, <1>5, <1>8, TwoTeams
  <2> QED
    BY <1>2, <1>3, <1>8, <2>1
<1> QED
  BY <1>6, <1>7, <1>8

\* A round that nobody wins.
LEMMA ScoreTwo ==
  ASSUME NEW s \in Scores, s.result = "open"
  PROVE  LET r == Score(s, Teams) IN
         /\ r \in Scores /\ r.game = s.game + 1 /\ r.by = s.by
         /\ \A t \in Teams : r.wins[t] = s.wins[t] + 1
         /\ r.pending = s.pending \/ (r.pending = s.pending + 1 /\ r.game <= MaxGames)
         /\ \/ r.result = s.result
            \/ r.result \in Teams /\ r.wins[r.result] >= WinNumber /\ r.wins[Other(r.result)] < WinNumber
         /\ r.result = s.result => \/ \A t \in Teams : r.wins[t] < WinNumber
                                   \/ \A t \in Teams : r.wins[t] >= WinNumber
<1> DEFINE w == [u \in Teams |-> IF u \in Teams THEN s.wins[u] + 1 ELSE s.wins[u]]
           r0 == [s EXCEPT !.wins = w, !.game = s.game + 1]
           goesOn == (\A u \in Teams : ~Wins(r0, u)) /\ r0.game <= MaxGames /\ r0.by \subseteq Teams
           c == CHOOSE u \in Teams : Wins(r0, u)
<1>1. /\ s.wins \in [Teams -> Nat] /\ s.game \in Nat /\ s.pending \in Nat /\ s.wait \in BOOLEAN
      /\ s.by \subseteq Teams /\ s.result \in Result
  BY DEF Scores
<1>2. w \in [Teams -> Nat] /\ \A t \in Teams : w[t] = s.wins[t] + 1
  BY <1>1, TwoTeams
<1> HIDE DEF w
<1>3. /\ r0 \in Scores /\ r0.wins = w /\ r0.game = s.game + 1 /\ r0.by = s.by /\ r0.pending = s.pending
      /\ r0.result = s.result
  <2>1. r0 \in Scores
    <3>1. s.game + 1 \in Nat
      BY <1>1
    <3> QED
      BY <1>2, <3>1, Scored
  <2>2. r0.wins = w /\ r0.game = s.game + 1
    BY <1>1, <1>2 DEF Scores
  <2>3. r0.by = s.by /\ r0.pending = s.pending /\ r0.result = s.result
    BY <1>1, <1>2 DEF Scores
  <2> QED
    BY <2>1, <2>2, <2>3
<1>4. Score(s, Teams) = IF goesOn THEN [r0 EXCEPT !.wait = TRUE, !.pending = r0.pending + 1]
                      ELSE IF Cardinality(Teams) = 1 /\ (\A u \in Teams : Wins(r0, u)) THEN [r0 EXCEPT !.by = r0.by \cup Teams]
                      ELSE IF Cardinality(Teams) = 2 /\ Cardinality({u \in Teams : Wins(r0, u)}) = 1
                           THEN [r0 EXCEPT !.result = c]
                      ELSE r0
  BY DEF Score, w
<1> HIDE DEF r0
<1>5. \A u \in Teams : Wins(r0, u) <=> r0.wins[u] >= WinNumber
  BY DEF Wins
<1>6. \A u \in Teams : r0.wins[u] = s.wins[u] + 1 /\ r0.wins[u] \in Nat
  BY <1>1, <1>2, <1>3
<1>7. CASE goesOn
  <2>1. Score(s, Teams) = [r0 EXCEPT !.wait = TRUE, !.pending = r0.pending + 1]
    BY <1>4, <1>7
  <2>2. (\A u \in Teams : ~(r0.wins[u] >= WinNumber)) /\ r0.game <= MaxGames
    BY <1>5, <1>7
  <2>3. LET r == Score(s, Teams) IN /\ r \in Scores /\ r.result = r0.result /\ r.game = r0.game /\ r.wins = r0.wins
                                  /\ r.by = r0.by /\ r.pending = r0.pending + 1
    <3>1. Score(s, Teams) \in Scores
      <4>1. r0.pending + 1 \in Nat
        BY <1>1, <1>3
      <4> QED
        BY <1>2, <1>3, <2>1, <4>1, Scored
    <3>2. LET r == Score(s, Teams) IN r.result = r0.result /\ r.game = r0.game /\ r.wins = r0.wins
      BY <1>3, <2>1 DEF Scores
    <3>3. LET r == Score(s, Teams) IN r.by = r0.by /\ r.pending = r0.pending + 1
      BY <1>3, <2>1 DEF Scores
    <3> QED
      BY <3>1, <3>2, <3>3
  <2>4. \A u \in Teams : r0.wins[u] < WinNumber
    BY <1>6, <2>2, ArenaAssumption
  <2> QED
    BY <1>3, <1>6, <2>2, <2>3, <2>4
<1>8. CASE ~goesOn /\ Cardinality({u \in Teams : Wins(r0, u)}) = 1
  <2>1. Score(s, Teams) = [r0 EXCEPT !.result = c]
    BY <1>4, <1>8, TwoTeams
  <2>2. PICK t \in Teams : {u \in Teams : Wins(r0, u)} = {t}
    <3>1. IsFiniteSet({u \in Teams : Wins(r0, u)})
      BY FS_Subset, FS_Singleton, FS_AddElement, TwoTeams, IsFiniteSet({"A"}), IsFiniteSet({"A"} \cup {"B"})
    <3>2. PICK t : {u \in Teams : Wins(r0, u)} = {t}
      BY <1>8, <3>1, FS_Singleton
    <3> QED
      BY <3>2
  <2>3. c = t
    <3>1. \A u \in Teams : Wins(r0, u) <=> u = t
      BY <2>2
    <3> QED
      BY <3>1
  <2>4. r0.wins[t] >= WinNumber /\ r0.wins[Other(t)] < WinNumber
    <3>1. ~(r0.wins[Other(t)] >= WinNumber) /\ r0.wins[t] >= WinNumber
      BY <1>5, <2>2, TwoTeams
    <3> QED
      BY <1>6, <3>1, TwoTeams, ArenaAssumption
  <2>5. t \in Result
    BY DEF Result, Teams
  <2>6. LET r == Score(s, Teams) IN /\ r \in Scores /\ r.result = t /\ r.game = r0.game /\ r.wins = r0.wins
                                  /\ r.by = r0.by /\ r.pending = r0.pending
    BY <1>3, <2>1, <2>3, <2>5 DEF Scores
  <2>7. s.result # t
    BY DEF Teams
  <2> QED
    BY <1>3, <1>6, <2>4, <2>6, <2>7
<1>9. CASE ~goesOn /\ Cardinality({u \in Teams : Wins(r0, u)}) # 1
  <2>1. Score(s, Teams) = r0
    BY <1>4, <1>9, TwoTeams
  <2>2. \/ \A t \in Teams : r0.wins[t] < WinNumber
        \/ \A t \in Teams : r0.wins[t] >= WinNumber
    <3> SUFFICES ASSUME NEW t \in Teams, ~(r0.wins[t] < WinNumber), NEW u \in Teams, ~(r0.wins[u] >= WinNumber) PROVE FALSE
      OBVIOUS
    <3>1. r0.wins[t] >= WinNumber
      BY <1>6, ArenaAssumption
    <3>2. u = Other(t)
      BY <3>1, TwoTeams
    <3>3. {v \in Teams : Wins(r0, v)} = {t}
      BY <1>5, <3>1, <3>2, TwoTeams
    <3> QED
      BY <1>9, <3>3, TwoTeams
  <2> QED
    BY <1>3, <1>6, <2>1, <2>2
<1> QED
  BY <1>7, <1>8, <1>9

----------------------------------------------------------------------------
(* The rounds of one second *)

Even(s) == (\A t \in Teams : s.wins[t] < WinNumber) \/ s.wins["A"] = s.wins["B"]
Undecided(s) == s.result = "open" /\ s.by = {} /\ Even(s)
Decided(s) == s.result \in Teams /\ s.by = {} /\ s.wins[s.result] >= s.wins[Other(s.result)]
WonBy(s, t) == s.result = "open" /\ s.by = {t} /\ s.wins[t] >= WinNumber /\ s.wins[t] > s.wins[Other(t)]
BothWon(s) == s.result = "open" /\ s.by = Teams /\ s.wins["B"] >= s.wins["A"]
\* n next rounds were counted down before.
Fits(s, n) == /\ n + s.pending <= s.game /\ n + s.pending <= MaxGames
              /\ \A t \in Teams : s.wins[t] < s.game

LEMMA FitsOn ==
  ASSUME NEW s \in Scores, s.result = "open", NEW n \in Nat, Fits(s, n), NEW ts \in {{"A"}, {"B"}, Teams}
  PROVE  /\ Score(s, ts) \in Scores /\ Score(s, ts).game = s.game + 1
         /\ Fits(Score(s, ts), n)
<1> DEFINE r == Score(s, ts)
<1>1. s.wins \in [Teams -> Nat] /\ s.game \in Nat /\ s.pending \in Nat
  BY DEF Scores
<1>2. /\ r \in Scores /\ r.game = s.game + 1
      /\ \A t \in Teams : r.wins[t] \in {s.wins[t], s.wins[t] + 1}
      /\ r.pending = s.pending \/ (r.pending = s.pending + 1 /\ r.game <= MaxGames)
  <2>1. CASE ts = Teams
    BY <2>1, ScoreTwo
  <2>2. ASSUME NEW t \in Teams, ts = {t}
        PROVE  /\ r \in Scores /\ r.game = s.game + 1
               /\ \A u \in Teams : r.wins[u] \in {s.wins[u], s.wins[u] + 1}
               /\ r.pending = s.pending \/ (r.pending = s.pending + 1 /\ r.game <= MaxGames)
    <3>1. \A u \in Teams : u = t \/ u = Other(t)
      BY TwoTeams
    <3>2. r = Score(s, {t})
      BY <2>2
    <3>3. PICK q : q = Score(s, {t})
      OBVIOUS
    <3>4. /\ q \in Scores /\ q.game = s.game + 1
          /\ q.wins[t] = s.wins[t] + 1 /\ q.wins[Other(t)] = s.wins[Other(t)]
          /\ q.pending = s.pending \/ (q.pending = s.pending + 1 /\ q.game <= MaxGames)
      BY <3>3, ScoreOne
    <3>5. r = q
      BY <3>2, <3>3
    <3> HIDE DEF r
    <3> QED
      BY <3>1, <3>4, <3>5
  <2>3. "A" \in Teams /\ "B" \in Teams
    BY TwoTeams
  <2> QED
    BY <2>1, <2>2, <2>3
<1> HIDE DEF r
<1>3. \A t \in Teams : r.wins[t] < r.game
  BY <1>1, <1>2 DEF Fits
<1>4. n + r.pending <= r.game /\ n + r.pending <= MaxGames
  BY <1>1, <1>2, ArenaAssumption DEF Fits
<1> QED
  BY <1>2, <1>3, <1>4 DEF Fits, r

\* One team wins a round.
LEMMA OneWins ==
  ASSUME NEW s \in Scores, NEW t \in Teams
  PROVE  LET r == Score(s, {t}) IN
         /\ Undecided(s) => Undecided(r) \/ WonBy(r, t)
         /\ WonBy(s, t) => WonBy(r, t)
         /\ WonBy(s, "B") /\ t = "A" => WonBy(r, "B") \/ BothWon(r)
<1> DEFINE r == Score(s, {t})
<1>1. s.wins \in [Teams -> Nat] /\ t \in Teams /\ Other(t) \in Teams /\ WinNumber \in Nat
  BY TwoTeams, ArenaAssumption DEF Scores
<1>2. /\ r.result = s.result
      /\ r.wins[t] = s.wins[t] + 1 /\ r.wins[Other(t)] = s.wins[Other(t)]
      /\ r.by = IF s.wins[t] + 1 >= WinNumber THEN s.by \cup {t} ELSE s.by
  BY ScoreOne
<1> HIDE DEF r
<1>3. s.wins[t] \in Nat /\ s.wins[Other(t)] \in Nat
  BY <1>1
<1>4. ASSUME Undecided(s) PROVE Undecided(r) \/ WonBy(r, t)
  <2>1. \/ s.wins[t] < WinNumber /\ s.wins[Other(t)] < WinNumber
        \/ s.wins[t] = s.wins[Other(t)]
    BY <1>1, <1>4, TwoTeams DEF Undecided, Even, Other
  <2>2. CASE s.wins[t] + 1 >= WinNumber
    <3>1. s.wins[t] + 1 > s.wins[Other(t)]
      BY <1>1, <1>3, <2>1, <2>2
    <3> QED
      BY <1>2, <1>4, <2>2, <3>1 DEF Undecided, WonBy
  <2>3. CASE ~(s.wins[t] + 1 >= WinNumber)
    <3>1. r.wins[t] < WinNumber /\ r.wins[Other(t)] < WinNumber
      BY <1>1, <1>2, <1>3, <2>1, <2>3
    <3>2. \A u \in Teams : u = t \/ u = Other(t)
      BY TwoTeams
    <3> QED
      BY <1>2, <1>4, <2>3, <3>1, <3>2 DEF Undecided, Even
  <2> QED
    BY <2>2, <2>3
<1>5. ASSUME WonBy(s, t) PROVE WonBy(r, t)
  <2>1. s.wins[t] + 1 >= WinNumber /\ s.wins[t] + 1 > s.wins[Other(t)]
    BY <1>1, <1>3, <1>5 DEF WonBy
  <2> QED
    BY <1>2, <1>5, <2>1 DEF WonBy
<1>6. ASSUME WonBy(s, "B"), t = "A" PROVE WonBy(r, "B") \/ BothWon(r)
  <2>1. Other(t) = "B" /\ Other("B") = t
    BY <1>6 DEF Other
  <2>2. s.wins["B"] >= WinNumber /\ s.wins["B"] > s.wins["A"] /\ s.by = {"B"} /\ s.result = "open"
    BY <1>6, <2>1 DEF WonBy
  <2>3. r.wins["B"] = s.wins["B"] /\ r.wins["A"] = s.wins["A"] + 1
    BY <1>2, <1>6, <2>1
  <2>4. CASE s.wins[t] + 1 >= WinNumber
    <3>1. r.by = Teams
      BY <1>2, <1>6, <2>2, <2>4, TwoTeams
    <3>2. r.wins["B"] >= r.wins["A"]
      BY <1>3, <1>6, <2>1, <2>2, <2>3
    <3> QED
      BY <1>2, <2>2, <3>1, <3>2 DEF BothWon
  <2>5. CASE ~(s.wins[t] + 1 >= WinNumber)
    <3>1. r.wins["B"] > r.wins["A"]
      BY <1>1, <1>3, <1>6, <2>1, <2>2, <2>3, <2>5
    <3> QED
      BY <1>2, <1>6, <2>1, <2>2, <2>3, <2>5, <3>1 DEF WonBy
  <2> QED
    BY <2>4, <2>5
<1> QED
  BY <1>4, <1>5, <1>6 DEF r

\* Nobody wins it.
LEMMA NobodyWins ==
  ASSUME NEW s \in Scores, Undecided(s)
  PROVE  Undecided(Score(s, Teams)) \/ Decided(Score(s, Teams))
<1> DEFINE r == Score(s, Teams)
<1>1. s.wins \in [Teams -> Nat] /\ WinNumber \in Nat /\ s.result = "open" /\ s.by = {}
  BY ArenaAssumption DEF Scores, Undecided
<1>2. /\ r.by = {} /\ r.result \in Result
      /\ \A t \in Teams : r.wins[t] = s.wins[t] + 1
      /\ \/ r.result = s.result
         \/ r.result \in Teams /\ r.wins[r.result] >= WinNumber /\ r.wins[Other(r.result)] < WinNumber
      /\ r.result = s.result => \/ \A t \in Teams : r.wins[t] < WinNumber
                                \/ \A t \in Teams : r.wins[t] >= WinNumber
  BY <1>1, ScoreTwo DEF Scores
<1> SUFFICES Undecided(r) \/ Decided(r)
  OBVIOUS
<1> HIDE DEF r
<1>3. CASE r.result = s.result
  <2>1. CASE s.wins["A"] = s.wins["B"]
    BY <1>1, <1>2, <1>3, <2>1, TwoTeams DEF Undecided, Even
  <2>2. CASE \A t \in Teams : s.wins[t] < WinNumber
    <3>1. CASE \A t \in Teams : r.wins[t] >= WinNumber
      <4>1. \A t \in Teams : s.wins[t] = WinNumber - 1
        BY <1>1, <1>2, <2>2, <3>1
      <4> QED
        BY <2>1, <4>1, TwoTeams
    <3> QED
      BY <1>1, <1>2, <1>3, <3>1 DEF Undecided, Even
  <2> QED
    BY <2>1, <2>2 DEF Undecided, Even
<1>4. CASE r.result # s.result
  <2>1. r.result \in Teams /\ r.wins[r.result] >= WinNumber /\ r.wins[Other(r.result)] < WinNumber
    BY <1>2, <1>4
  <2>2. r.wins[r.result] \in Nat /\ r.wins[Other(r.result)] \in Nat
    BY <1>1, <1>2, <2>1, TwoTeams
  <2>3. r.wins[r.result] >= r.wins[Other(r.result)]
    BY <1>1, <2>1, <2>2
  <2> QED
    BY <1>2, <2>1, <2>3 DEF Decided
<1> QED
  BY <1>3, <1>4

\* What a second leaves: nothing is decided, or who has won won as many rounds at least.
Outcome(s) == Undecided(s) \/ Decided(s) \/ BothWon(s) \/ \E t \in Teams : WonBy(s, t)

LEMMA RoundsEnd ==
  ASSUME NEW r \in MatchRec, Even(r), NEW n \in Nat, n <= r.game, n <= MaxGames, r.game <= MaxGames,
         \A t \in Teams : r.wins[t] < r.game,
         NEW left \in Nat, NEW dead \in SUBSET Teams, NEW ahead \in {{"A"}, {"B"}, Teams},
         \A t \in dead : ahead # {t}
  PROVE  LET s == Rounds(r, left, dead, ahead) IN
         /\ s \in Scores /\ Fits(s, n) /\ s.game <= MaxGames + 3
         /\ s.game >= r.game
         /\ Outcome(s)
<1> DEFINE s0 == Begun(r)
           s1 == IF left > 0 THEN s0 ELSE Score(s0, ahead)
           s2 == IF "A" \in dead /\ s1.result = "open" THEN Score(s1, {"B"}) ELSE s1
           s3 == IF "B" \in dead /\ s2.result = "open" THEN Score(s2, {"A"}) ELSE s2
<1>1. s3 = Rounds(r, left, dead, ahead)
  BY DEF Rounds
<1>2. /\ "A" \in Teams /\ "B" \in Teams /\ "A" # "B" /\ "open" \notin Teams
      /\ Other("A") = "B" /\ Other("B") = "A"
      /\ \A t \in Teams : t = "A" \/ t = "B"
      /\ MaxGames \in Nat
  BY ArenaAssumption DEF Teams, Other
<1>3. /\ s0 \in Scores /\ Fits(s0, n) /\ s0.game = r.game /\ r.game \in Nat /\ Undecided(s0)
  <2>1. /\ r.wins \in [Teams -> Nat] /\ r.game \in Nat
    BY DEF MatchRec
  <2>2. s0 \in Scores /\ s0.game = r.game /\ s0.wins = r.wins /\ s0.pending = 0 /\ s0.by = {} /\ s0.result = "open"
    BY <2>1 DEF Scores, Begun, Result
  <2>3. Fits(s0, n)
    BY <2>2 DEF Fits
  <2>4. Even(s0)
    BY <2>2 DEF Even
  <2> QED
    BY <2>1, <2>2, <2>3, <2>4 DEF Undecided
<1> HIDE DEF s0
<1>4. /\ s1 \in Scores /\ Fits(s1, n) /\ s1.game \in r.game..r.game + 1
      /\ Undecided(s1) \/ Decided(s1) \/ \E t \in Teams \ dead : WonBy(s1, t)
  <2>1. CASE left > 0
    BY <1>3, <2>1
  <2>2. CASE ~(left > 0)
    <3>1. s1 = Score(s0, ahead)
      BY <2>2
    <3>2. s1 \in Scores /\ Fits(s1, n) /\ s1.game = r.game + 1
      BY <1>3, <3>1, FitsOn DEF Undecided
    <3>3. CASE ahead = Teams
      BY <1>3, <3>1, <3>2, <3>3, NobodyWins
    <3>4. ASSUME NEW t \in Teams, ahead = {t}
          PROVE  Undecided(s1) \/ WonBy(s1, t)
      BY <1>3, <3>1, <3>4, OneWins
    <3>5. ASSUME NEW t \in Teams, ahead = {t} PROVE t \notin dead
      BY <3>5
    <3> HIDE DEF s1
    <3> QED
      BY <1>2, <1>3, <3>2, <3>3, <3>4, <3>5
  <2> QED
    BY <2>1, <2>2
<1> HIDE DEF s1
<1>5. /\ s2 \in Scores /\ Fits(s2, n) /\ s2.game \in r.game..r.game + 2
      /\ Undecided(s2) \/ Decided(s2) \/ WonBy(s2, "B") \/ (WonBy(s2, "A") /\ "A" \notin dead)
  <2>1. CASE "A" \in dead /\ s1.result = "open"
    <3>1. s2 = Score(s1, {"B"})
      BY <2>1
    <3>2. s2 \in Scores /\ Fits(s2, n) /\ s2.game = s1.game + 1
      BY <1>4, <2>1, <3>1, FitsOn
    <3>3. ~Decided(s1)
      BY <1>2, <2>1 DEF Decided
    <3>4. Undecided(s1) \/ WonBy(s1, "B")
      BY <1>2, <1>4, <2>1, <3>3
    <3>5. Undecided(s2) \/ WonBy(s2, "B")
      BY <1>2, <1>4, <3>1, <3>4, OneWins
    <3> HIDE DEF s2
    <3> QED
      BY <1>3, <1>4, <3>2, <3>5
  <2>2. CASE ~("A" \in dead /\ s1.result = "open")
    <3>1. s2 = s1
      BY <2>2
    <3>2. \A t \in Teams : WonBy(s1, t) => s1.result = "open"
      BY DEF WonBy
    <3>3. Undecided(s1) \/ Decided(s1) \/ WonBy(s1, "B") \/ (WonBy(s1, "A") /\ "A" \notin dead)
      BY <1>2, <1>4
    <3> HIDE DEF s2
    <3> QED
      BY <1>3, <1>4, <3>1, <3>3
  <2> QED
    BY <2>1, <2>2
<1> HIDE DEF s2
<1>6. /\ s3 \in Scores /\ Fits(s3, n) /\ s3.game \in r.game..r.game + 3
      /\ Outcome(s3)
  <2>1. CASE "B" \in dead /\ s2.result = "open"
    <3>1. s3 = Score(s2, {"A"})
      BY <2>1
    <3>2. s3 \in Scores /\ Fits(s3, n) /\ s3.game = s2.game + 1
      BY <1>5, <2>1, <3>1, FitsOn
    <3>3. ~Decided(s2)
      BY <1>2, <2>1 DEF Decided
    <3>4. Undecided(s3) \/ WonBy(s3, "A") \/ WonBy(s3, "B") \/ BothWon(s3)
      BY <1>2, <1>5, <3>1, <3>3, OneWins
    <3> HIDE DEF s3
    <3>5. Outcome(s3)
      BY <1>2, <3>4 DEF Outcome
    <3> QED
      BY <1>3, <1>5, <3>2, <3>5
  <2>2. CASE ~("B" \in dead /\ s2.result = "open")
    <3>1. s3 = s2
      BY <2>2
    <3> HIDE DEF s3
    <3>2. Outcome(s3)
      BY <1>2, <1>5, <3>1 DEF Outcome
    <3> QED
      BY <1>3, <1>5, <3>1, <3>2
  <2> QED
    BY <2>1, <2>2
<1> HIDE DEF s3
<1>7. s3.game <= MaxGames + 3 /\ s3.game >= r.game
  BY <1>2, <1>3, <1>6
<1> QED
  BY <1>1, <1>6, <1>7

\* The verdict on it.
LEMMA VerdictIsFair ==
  ASSUME NEW s \in Scores, Outcome(s), NEW empty \in SUBSET Teams
  PROVE  LET v == Verdict(s, empty) IN
         /\ v \in Result
         /\ v = "open" => s.game <= MaxGames /\ Even(s)
         /\ v \in Teams => s.wins[v] >= s.wins[Other(v)] \/ Other(v) \in empty
<1> DEFINE v == Verdict(s, empty)
<1>1. /\ "A" \in Teams /\ "B" \in Teams /\ "A" # "B" /\ "open" \notin Teams /\ "draw" \notin Teams
      /\ Other("A") = "B" /\ Other("B") = "A" /\ "draw" # "open"
      /\ Result = {"open", "A", "B", "draw"}
  BY DEF Teams, Other, Result
<1>2. s.wins["A"] \in Nat /\ s.wins["B"] \in Nat /\ s.game \in Nat /\ s.result \in Result
  BY <1>1 DEF Scores
<1>3. CASE s.result # "open"
  <2>1. v = s.result
    BY <1>3 DEF Verdict
  <2>2. Decided(s)
    BY <1>3 DEF Outcome, Undecided, BothWon, WonBy
  <2> QED
    BY <1>1, <1>2, <1>3, <2>1, <2>2 DEF Decided
<1>4. CASE s.result = "open" /\ ("A" \in empty \/ "B" \in s.by)
  <2>1. v = "B"
    BY <1>4 DEF Verdict
  <2>2. "B" \in s.by => s.wins["B"] >= s.wins["A"]
    <3>1. ASSUME "B" \in s.by PROVE WonBy(s, "B") \/ BothWon(s)
      BY <1>1, <1>4, <3>1 DEF Outcome, Undecided, Decided, WonBy
    <3> QED
      BY <1>1, <1>2, <3>1 DEF WonBy, BothWon
  <2> QED
    BY <1>1, <1>4, <2>1, <2>2
<1>5. CASE s.result = "open" /\ ~("A" \in empty \/ "B" \in s.by) /\ ("B" \in empty \/ "A" \in s.by)
  <2>1. v = "A"
    BY <1>5 DEF Verdict
  <2>2. "A" \in s.by => s.wins["A"] >= s.wins["B"]
    <3>1. ASSUME "A" \in s.by PROVE WonBy(s, "A")
      BY <1>1, <1>5, <3>1 DEF Outcome, Undecided, Decided, WonBy, BothWon
    <3> QED
      BY <1>1, <1>2, <3>1 DEF WonBy
  <2> QED
    BY <1>1, <1>5, <2>1, <2>2
<1>6. CASE s.result = "open" /\ ~("A" \in empty \/ "B" \in s.by) /\ ~("B" \in empty \/ "A" \in s.by)
  <2>1. v = IF s.game <= MaxGames THEN "open"
            ELSE IF s.wins["A"] > s.wins["B"] THEN "A" ELSE IF s.wins["B"] > s.wins["A"] THEN "B" ELSE "draw"
    BY <1>6 DEF Verdict
  <2>2. Even(s)
    BY <1>1, <1>6, TwoTeams DEF Outcome, Undecided, Decided, WonBy, BothWon
  <2>3. CASE s.game <= MaxGames
    BY <1>1, <2>1, <2>2, <2>3
  <2>4. CASE ~(s.game <= MaxGames)
    <3>1. v \in {"A", "B", "draw"} /\ (v = "A" => s.wins["A"] > s.wins["B"]) /\ (v = "B" => s.wins["B"] > s.wins["A"])
      BY <1>1, <2>1, <2>4
    <3>2. (s.wins["A"] > s.wins["B"] => s.wins["A"] >= s.wins["B"]) /\ (s.wins["B"] > s.wins["A"] => s.wins["B"] >= s.wins["A"])
      BY <1>2
    <3>3. \A t \in Teams : t = "A" \/ t = "B"
      BY DEF Teams
    <3> QED
      BY <1>1, <3>1, <3>2, <3>3
  <2> QED
    BY <2>3, <2>4
<1> QED
  BY <1>3, <1>4, <1>5, <1>6

----------------------------------------------------------------------------
(* Matches *)

Fair(r) == r.result \in Teams =>
              r.wins[r.result] >= r.wins[Other(r.result)] \/ r.team[Other(r.result)] = {}
Playing(o) ==
    /\ match[o].game \in 1..MaxGames + 3 /\ rounds[o] <= match[o].game
    /\ \A t \in Teams : match[o].wins[t] < match[o].game
    /\ ~Finished(o) => match[o].game <= MaxGames /\ Even(match[o])
    /\ Fair(match[o])
\* Who was judged once plays on only if the match is over.
JudgedOnce(o) == \A c \in Chars \ twice : verdicts[o][c] = 0 \/ (verdicts[o][c] = 1 /\ (Finished(o) \/ c \notin Players(o)))
MatchInv == \A o \in Matches : IF Made(o) THEN Playing(o) /\ JudgedOnce(o)
                                          ELSE rounds[o] = 0 /\ \A c \in Chars : verdicts[o][c] = 0
OneMatch == \A c \in Chars \ twice : \A i, j \in DOMAIN Arenas :
                c \in Players(Arenas[i]) /\ c \in Players(Arenas[j]) => Arenas[i] = Arenas[j]
PlayTypes ==
    /\ match \in [Matches -> MatchRec \cup {NoMatch}]
    /\ IsFiniteSet(DOMAIN Arenas) /\ \A i \in DOMAIN Arenas : Arenas[i] \in Matches /\ Made(Arenas[i])
    /\ rounds \in [Matches -> 0..MaxGames] /\ ends \subseteq Matches
    /\ verdicts \in [Matches -> [Chars -> Nat]] /\ twice \subseteq Chars
PlayInv == PlayTypes /\ MatchInv /\ OneMatch

LEMMA MadeIs ==
  ASSUME PlayTypes, NEW o \in Matches
  PROVE  /\ Made(o) <=> match[o] \in MatchRec
         /\ Made(o) => /\ match[o].team \in [Teams -> SUBSET Chars] /\ match[o].wins \in [Teams -> Nat] /\ match[o].game \in Nat
                       /\ match[o].result \in Result /\ match[o].left \in 0..RoundTime /\ match[o].id \in Nat
                       /\ match[o].wait \in BOOLEAN /\ Players(o) \subseteq Chars
<1>1. NoMatch \notin MatchRec
  BY DEF NoMatch, MatchRec
<1>2. Made(o) <=> match[o] \in MatchRec
  BY <1>1 DEF PlayTypes, Made
<1>3. Made(o) => /\ match[o].team \in [Teams -> SUBSET Chars] /\ match[o].wins \in [Teams -> Nat] /\ match[o].game \in Nat
                 /\ match[o].result \in Result /\ match[o].left \in 0..RoundTime /\ match[o].id \in Nat
                 /\ match[o].wait \in BOOLEAN
  BY <1>2 DEF MatchRec
<1>4. ASSUME Made(o) PROVE Players(o) \subseteq Chars
  BY <1>3, <1>4, TwoTeams DEF Players
<1> QED
  BY <1>2, <1>3, <1>4

\* A match stays, and is over as it was.
GoesOn(m) == Made(m)' /\ (Finished(m)' <=> Finished(m))
\* Who is in S leaves the match that g says.
Struck(S, g) == \A m \in Matches : Made(m) => GoesOn(m) /\ Players(m)' = Players(m) \ {c \in S : g[c] = m}

\* Those in S are taken for deserters in u, and leave the match that g says.
LEMMA DesertersKeep ==
  ASSUME PlayInv, UNCHANGED <<rounds, twice>>, ends' \subseteq ends,
         DOMAIN Arenas' \subseteq DOMAIN Arenas, \A i \in DOMAIN Arenas' : Arenas'[i] = Arenas[i],
         NEW S \in SUBSET Chars, NEW u \in [S -> Matches], NEW g \in [S -> Matches],
         \A c \in S : {u[c], g[c]} \subseteq MatchesOf(c) /\ ~Finished(u[c]),
         verdicts' = [m \in Matches |-> [c \in Chars |->
                         IF c \in S /\ u[c] = m THEN verdicts[m][c] + 1 ELSE verdicts[m][c]]],
         match' = [m \in Matches |->
                     IF \E c \in S : g[c] = m
                     THEN [match[m] EXCEPT !.team = [t \in Teams |-> @[t] \ {c \in S : g[c] = m}]] ELSE match[m]]
  PROVE  /\ PlayInv'
         /\ Struck(S, g)
<1>1. PlayTypes /\ MatchInv /\ OneMatch
  BY DEF PlayInv
<1>2. \A c \in S : u[c] \in Matches /\ g[c] \in Matches /\ Made(u[c]) /\ Made(g[c])
                   /\ c \in Players(u[c]) /\ c \in Players(g[c]) /\ \E i, j \in DOMAIN Arenas : u[c] = Arenas[i] /\ g[c] = Arenas[j]
  BY <1>1 DEF MatchesOf, PlayTypes
<1>3. ASSUME NEW m \in Matches
      PROVE  /\ Made(m)' <=> Made(m)
             /\ Made(m) => /\ match'[m] \in MatchRec /\ match'[m].id = match[m].id
                           /\ match'[m].wins = match[m].wins /\ match'[m].game = match[m].game
                           /\ match'[m].result = match[m].result
                           /\ \A t \in Teams : match'[m].team[t] = match[m].team[t] \ {c \in S : g[c] = m}
             /\ ~Made(m) => match'[m] = NoMatch
  <2>1. CASE \E c \in S : g[c] = m
    <3>1. Made(m) /\ match[m] \in MatchRec /\ match[m].team \in [Teams -> SUBSET Chars]
      BY <1>1, <1>2, <2>1, MadeIs
    <3>2. PICK X : X = {c \in S : g[c] = m}
      OBVIOUS
    <3>3. match'[m] = [match[m] EXCEPT !.team = [t \in Teams |-> match[m].team[t] \ X]]
      BY <2>1, <3>2
    <3>4. [t \in Teams |-> match[m].team[t] \ X] \in [Teams -> SUBSET Chars]
      BY <3>1
    <3>5. PICK r : r = match[m]
      OBVIOUS
    <3>6. PICK f : f = [t \in Teams |-> match[m].team[t] \ X]
      OBVIOUS
    <3>7. [r EXCEPT !.team = f] \in MatchRec
      BY <3>1, <3>4, <3>5, <3>6 DEF MatchRec
    <3>8. LET q == [r EXCEPT !.team = f] IN /\ q.id = r.id /\ q.wins = r.wins /\ q.game = r.game /\ q.result = r.result
                                            /\ q.team = f
      BY <3>1, <3>5 DEF MatchRec
    <3>9. match'[m] = [r EXCEPT !.team = f]
      BY <3>3, <3>5, <3>6
    <3>10. NoMatch \notin MatchRec
      BY DEF NoMatch, MatchRec
    <3>11. match'[m] \in MatchRec /\ Made(m)'
      BY <3>7, <3>9, <3>10 DEF Made
    <3>12. \A t \in Teams : f[t] = r.team[t] \ X
      BY <3>5, <3>6
    <3> QED
      BY <3>1, <3>2, <3>5, <3>8, <3>9, <3>11, <3>12
  <2>2. CASE ~\E c \in S : g[c] = m
    <3>1. match'[m] = match[m]
      BY <2>2
    <3>2. {c \in S : g[c] = m} = {}
      BY <2>2
    <3> QED
      BY <1>1, <3>1, <3>2, MadeIs DEF Made
  <2> QED
    BY <2>1, <2>2
<1>4. \A m \in Matches : \A c \in Chars : verdicts'[m][c] = IF c \in S /\ u[c] = m THEN verdicts[m][c] + 1 ELSE verdicts[m][c]
  OBVIOUS
<1>5. ASSUME NEW m \in Matches, Made(m)
      PROVE  /\ Players(m)' = Players(m) \ {c \in S : g[c] = m} /\ (Finished(m)' <=> Finished(m))
             /\ Playing(m)'
  <2>1. Players(m)' = Players(m) \ {c \in S : g[c] = m} /\ (Finished(m)' <=> Finished(m))
    BY <1>3, <1>5, TwoTeams DEF Players, Finished
  <2>2. Playing(m)
    BY <1>1, <1>5 DEF MatchInv
  <2>3. Even(match'[m]) <=> Even(match[m])
    BY <1>3, <1>5 DEF Even
  <2>4. Fair(match'[m])
    <3>1. Fair(match[m])
      BY <2>2 DEF Playing
    <3> QED
      BY <1>3, <1>5, <3>1, TwoTeams DEF Fair
  <2> QED
    BY <1>3, <1>5, <2>1, <2>2, <2>3, <2>4 DEF Playing
<1>6. PlayTypes'
  <2>1. match' \in [Matches -> MatchRec \cup {NoMatch}]
    BY <1>3
  <2>2. IsFiniteSet(DOMAIN Arenas')
    BY <1>1, FS_Subset DEF PlayTypes
  <2>3. (\A i \in DOMAIN Arenas : Arenas[i] \in Matches /\ Made(Arenas[i]))'
    <3> SUFFICES ASSUME NEW i \in DOMAIN Arenas' PROVE Arenas'[i] \in Matches /\ match'[Arenas'[i]] # NoMatch
      BY DEF Made
    <3>1. PICK o : o = Arenas'[i]
      OBVIOUS
    <3>2. o \in Matches /\ Made(o)
      BY <1>1, <3>1 DEF PlayTypes
    <3> QED
      BY <1>3, <3>1, <3>2 DEF Made
  <2>4. verdicts' \in [Matches -> [Chars -> Nat]]
    BY <1>1 DEF PlayTypes
  <2> QED
    BY <1>1, <2>1, <2>2, <2>3, <2>4 DEF PlayTypes
<1>7. ASSUME NEW m \in Matches, ~Made(m) PROVE rounds'[m] = 0 /\ \A c \in Chars : verdicts'[m][c] = 0
  BY <1>1, <1>2, <1>4, <1>7 DEF MatchInv
<1>8. \A c \in S \ twice : u[c] = g[c]
  BY <1>1, <1>2 DEF OneMatch
<1>9. ASSUME NEW m \in Matches, Made(m) PROVE JudgedOnce(m)'
  <2> SUFFICES ASSUME NEW c \in Chars \ twice
               PROVE  verdicts'[m][c] = 0 \/ (verdicts'[m][c] = 1 /\ (Finished(m)' \/ c \notin Players(m)'))
    BY DEF JudgedOnce
  <2>1. verdicts[m][c] = 0 \/ (verdicts[m][c] = 1 /\ (Finished(m) \/ c \notin Players(m)))
    BY <1>1, <1>9 DEF MatchInv, JudgedOnce
  <2>2. CASE c \in S /\ u[c] = m
    <3>1. verdicts[m][c] = 0 /\ g[c] = m
      BY <1>2, <1>8, <2>1, <2>2
    <3> QED
      BY <1>4, <1>5, <1>9, <2>2, <3>1
  <2>3. CASE ~(c \in S /\ u[c] = m)
    BY <1>4, <1>5, <1>9, <2>1, <2>3
  <2> QED
    BY <2>2, <2>3
<1>10. MatchInv'
  BY <1>3, <1>5, <1>7, <1>9 DEF MatchInv
<1>11. OneMatch'
  <2>0. ASSUME NEW c \in Chars \ twice, NEW i \in DOMAIN Arenas', NEW j \in DOMAIN Arenas',
               NEW o, o = Arenas'[i], NEW q, q = Arenas'[j], c \in Players(o)', c \in Players(q)'
        PROVE  o = q
    <3>1. o = Arenas[i] /\ q = Arenas[j] /\ i \in DOMAIN Arenas /\ j \in DOMAIN Arenas
      BY <2>0
    <3>2. o \in Matches /\ q \in Matches /\ Made(o) /\ Made(q)
      BY <1>1, <3>1 DEF PlayTypes
    <3>3. c \in Players(o) /\ c \in Players(q)
      BY <1>5, <2>0, <3>2
    <3> QED
      BY <1>1, <2>0, <3>1, <3>3 DEF OneMatch
  <2> SUFFICES ASSUME NEW c \in Chars \ twice, NEW i \in DOMAIN Arenas', NEW j \in DOMAIN Arenas',
                      (c \in Players(Arenas[i]))', (c \in Players(Arenas[j]))'
               PROVE  Arenas'[i] = Arenas'[j]
    BY DEF OneMatch
  <2>1. PICK o, q : o = Arenas'[i] /\ q = Arenas'[j]
    OBVIOUS
  <2>2. c \in Players(o)' /\ c \in Players(q)'
    BY <2>1 DEF Players
  <2> QED
    BY <2>0, <2>1, <2>2
<1> QED
  BY <1>3, <1>5, <1>6, <1>10, <1>11 DEF PlayInv, GoesOn, Struck

\* A player leaves as a deserter of the match that is found first, or nobody does.
LEMMA DesertKeeps ==
  ASSUME PlayInv, NEW c \in Chars, Desert(c), UNCHANGED <<Arenas, rounds, ends, twice>>
  PROVE  PlayInv' /\ \A m \in Matches : Made(m) => GoesOn(m)
<1>1. CASE UNCHANGED <<match, verdicts>>
  BY <1>1 DEF PlayInv, PlayTypes, MatchInv, OneMatch, Playing, JudgedOnce, Players, Finished, Made, GoesOn
<1>2. CASE ~UNCHANGED <<match, verdicts>>
  <2>1. PICK a \in MatchesOf(c), b \in MatchesOf(c) :
              /\ ~Finished(a)
              /\ verdicts' = [verdicts EXCEPT ![a][c] = @ + 1]
              /\ match' = [match EXCEPT ![b].team = [t \in Teams |-> @[t] \ {c}]]
    BY <1>2 DEF Desert
  <2>2. PlayTypes
    BY DEF PlayInv
  <2>3. a \in Matches /\ b \in Matches
    BY <2>1, <2>2 DEF MatchesOf, PlayTypes
  <2>4. PICK S, u, g : S = {c} /\ u = [x \in {c} |-> a] /\ g = [x \in {c} |-> b]
    OBVIOUS
  <2>5. S \in SUBSET Chars /\ u \in [S -> Matches] /\ g \in [S -> Matches]
        /\ \A x \in S : {u[x], g[x]} \subseteq MatchesOf(x) /\ ~Finished(u[x])
    BY <2>1, <2>3, <2>4
  <2>6. verdicts' = [m \in Matches |-> [x \in Chars |-> IF x \in S /\ u[x] = m THEN verdicts[m][x] + 1 ELSE verdicts[m][x]]]
    BY <2>1, <2>2, <2>3, <2>4 DEF PlayTypes
  <2>7. match' = [m \in Matches |->
                     IF \E x \in S : g[x] = m
                     THEN [match[m] EXCEPT !.team = [t \in Teams |-> @[t] \ {x \in S : g[x] = m}]] ELSE match[m]]
    <3>1. {x \in S : g[x] = b} = {c}
      BY <2>4
    <3>2. \A m \in Matches : (\E x \in S : g[x] = m) <=> m = b
      BY <2>4
    <3>3. PICK R : R = [match[b] EXCEPT !.team = [t \in Teams |-> @[t] \ {c}]]
      OBVIOUS
    <3>4. match' = [match EXCEPT ![b] = R]
      BY <2>1, <3>3
    <3>5. match' = [m \in Matches |-> IF m = b THEN R ELSE match[m]]
      BY <2>2, <2>3, <3>4 DEF PlayTypes
    <3>6. R = [match[b] EXCEPT !.team = [t \in Teams |-> @[t] \ {x \in S : g[x] = b}]]
      BY <3>1, <3>3
    <3>7. ASSUME NEW m \in Matches
          PROVE  (IF m = b THEN R ELSE match[m])
                 = IF \E x \in S : g[x] = m
                   THEN [match[m] EXCEPT !.team = [t \in Teams |-> @[t] \ {x \in S : g[x] = m}]] ELSE match[m]
      BY <3>2, <3>6
    <3> QED
      BY <3>5, <3>7
  <2>8. PlayInv' /\ Struck(S, g)
    BY <2>5, <2>6, <2>7, DesertersKeep
  <2> QED
    BY <2>8 DEF Struck
<1> QED
  BY <1>1, <1>2

LEMMA EndArenaKeeps ==
  ASSUME PlayInv, NEW o \in Matches, EndArena(o), online \subseteq Chars
  PROVE  /\ PlayInv'
         /\ \E S \in SUBSET Chars : \E g \in [S -> Matches] :
               /\ stranded' = stranded \cup ((PartiesOf(S) \cup Discarded(o)) \ InPlay')
               /\ Struck(S, g)
<1>1. PICK S \in SUBSET {c \in Players(o) \cap online : \E u \in MatchesOf(c) : ~Finished(u)} :
          \E u, g \in [S -> Matches] :
          /\ \A c \in S : {u[c], g[c]} \subseteq MatchesOf(c) /\ ~Finished(u[c])
          /\ verdicts' = [m \in Matches |-> [c \in Chars |->
                IF c \in S /\ u[c] = m THEN verdicts[m][c] + 1 ELSE verdicts[m][c]]]
          /\ match' = [m \in Matches |->
                IF \E c \in S : g[c] = m
                THEN [match[m] EXCEPT !.team = [t \in Teams |-> @[t] \ {c \in S : g[c] = m}]] ELSE match[m]]
          /\ UNCHANGED <<partyVars, lobbyVars, rounds, crashed, twice>>
          /\ stranded' = stranded \cup ((PartiesOf(S) \cup Discarded(o)) \ InPlay')
  BY ZenonT(60) DEF EndArena
<1>2. PICK u \in [S -> Matches], g \in [S -> Matches] :
          /\ \A c \in S : {u[c], g[c]} \subseteq MatchesOf(c) /\ ~Finished(u[c])
          /\ verdicts' = [m \in Matches |-> [c \in Chars |->
                IF c \in S /\ u[c] = m THEN verdicts[m][c] + 1 ELSE verdicts[m][c]]]
          /\ match' = [m \in Matches |->
                IF \E c \in S : g[c] = m
                THEN [match[m] EXCEPT !.team = [t \in Teams |-> @[t] \ {c \in S : g[c] = m}]] ELSE match[m]]
          /\ UNCHANGED <<partyVars, lobbyVars, rounds, crashed, twice>>
          /\ stranded' = stranded \cup ((PartiesOf(S) \cup Discarded(o)) \ InPlay')
  BY <1>1
<1>3. Arenas' = Without(Arenas, match[o].id) /\ ends' = ends \ {o} /\ UNCHANGED <<rounds, twice>>
  BY <1>2 DEF EndArena
<1>4. DOMAIN Arenas' \subseteq DOMAIN Arenas /\ \A i \in DOMAIN Arenas' : Arenas'[i] = Arenas[i]
  BY <1>3 DEF Without
<1>5. S \in SUBSET Chars /\ ends' \subseteq ends
  BY <1>1, <1>3
<1>6. /\ PlayInv'
      /\ Struck(S, g)
  <2>1. \A c \in S : {u[c], g[c]} \subseteq MatchesOf(c) /\ ~Finished(u[c])
    BY <1>2
  <2>2. verdicts' = [m \in Matches |-> [c \in Chars |->
                        IF c \in S /\ u[c] = m THEN verdicts[m][c] + 1 ELSE verdicts[m][c]]]
    BY <1>2
  <2>3. match' = [m \in Matches |->
                    IF \E c \in S : g[c] = m
                    THEN [match[m] EXCEPT !.team = [t \in Teams |-> @[t] \ {c \in S : g[c] = m}]] ELSE match[m]]
    BY <1>2
  <2>4. PlayInv'
    BY <1>3, <1>4, <1>5, <2>1, <2>2, <2>3, DesertersKeep
  <2>5. Struck(S, g)
    BY <1>3, <1>4, <1>5, <2>1, <2>2, <2>3, DesertersKeep
  <2> QED
    BY <2>4, <2>5
<1>7. stranded' = stranded \cup ((PartiesOf(S) \cup Discarded(o)) \ InPlay')
  BY <1>2
<1> QED
  BY <1>5, <1>6, <1>7

LEMMA NextRoundKeeps ==
  ASSUME PlayInv, NEW o \in Matches, NextRound(o)
  PROVE  PlayInv' /\ \A m \in Matches : Made(m) => GoesOn(m) /\ Players(m)' = Players(m)
<1>1. PlayTypes /\ MatchInv /\ OneMatch
  BY DEF PlayInv
<1>2. /\ rounds[o] > 0 /\ rounds' = [rounds EXCEPT ![o] = @ - 1]
      /\ match' = IF match[o].wait THEN StartRound(o) ELSE match
      /\ UNCHANGED <<Arenas, ends, verdicts, twice>>
  BY DEF NextRound
<1>3. Made(o) /\ match[o] \in MatchRec
  BY <1>1, <1>2, MadeIs DEF MatchInv
<1>4. rounds' \in [Matches -> 0..MaxGames] /\ \A m \in Matches : rounds'[m] <= rounds[m] /\ rounds'[m] \in Nat
  <2>1. rounds[o] - 1 \in 0..MaxGames
    BY <1>1, <1>2, ArenaAssumption DEF PlayTypes
  <2> QED
    BY <1>1, <1>2, <2>1, ArenaAssumption DEF PlayTypes
<1>5. PICK r : r = IF match[o].wait THEN [match[o] EXCEPT !.wait = FALSE, !.left = RoundTime - 1] ELSE match[o]
  OBVIOUS
<1>6. /\ r \in MatchRec /\ r.id = match[o].id /\ r.wins = match[o].wins /\ r.game = match[o].game
      /\ r.result = match[o].result /\ r.team = match[o].team
  <2>1. RoundTime - 1 \in 0..RoundTime
    BY ArenaAssumption
  <2>2. PICK n : n = RoundTime - 1
    OBVIOUS
  <2>3. PICK q : q = match[o]
    OBVIOUS
  <2>4. [q EXCEPT !.wait = FALSE, !.left = n] \in MatchRec
    BY <1>3, <2>1, <2>2, <2>3 DEF MatchRec
  <2>5. LET x == [q EXCEPT !.wait = FALSE, !.left = n] IN
        x.id = q.id /\ x.wins = q.wins /\ x.game = q.game
    BY <1>3, <2>3 DEF MatchRec
  <2>6. LET x == [q EXCEPT !.wait = FALSE, !.left = n] IN
        x.result = q.result /\ x.team = q.team
    BY <1>3, <2>3 DEF MatchRec
  <2> QED
    BY <1>3, <1>5, <2>2, <2>3, <2>4, <2>5, <2>6
<1>7. match' = [m \in Matches |-> IF m = o THEN r ELSE match[m]]
  BY <1>1, <1>2, <1>5 DEF PlayTypes, StartRound
<1>8. \A m \in Matches :
         /\ Made(m)' <=> Made(m)
         /\ Made(m) => /\ match'[m].wins = match[m].wins /\ match'[m].game = match[m].game
                       /\ match'[m].result = match[m].result /\ match'[m].team = match[m].team
         /\ match'[m] \in MatchRec \cup {NoMatch}
  <2>1. NoMatch \notin MatchRec
    BY DEF NoMatch, MatchRec
  <2> QED
    BY <1>1, <1>3, <1>6, <1>7, <2>1 DEF Made, PlayTypes
<1>9. PlayTypes'
  BY <1>1, <1>2, <1>4, <1>7, <1>8 DEF PlayTypes, Made
<1>10. ASSUME NEW m \in Matches, Made(m)
       PROVE  Players(m)' = Players(m) /\ (Finished(m)' <=> Finished(m)) /\ Playing(m)' /\ JudgedOnce(m)'
  <2>1. Players(m)' = Players(m) /\ (Finished(m)' <=> Finished(m))
    BY <1>8, <1>10 DEF Players, Finished
  <2>2. Playing(m) /\ JudgedOnce(m)
    BY <1>1, <1>10 DEF MatchInv
  <2>3. rounds'[m] <= match'[m].game
    <3>1. rounds[m] \in Nat /\ match[m].game \in Nat
      BY <1>1, <1>10, MadeIs, ArenaAssumption DEF PlayTypes
    <3> QED
      BY <1>4, <1>8, <1>10, <2>2, <3>1 DEF Playing
  <2>4. Playing(m)'
    BY <1>8, <1>10, <2>1, <2>2, <2>3 DEF Playing, Even, Fair
  <2> QED
    BY <1>2, <2>1, <2>2, <2>4 DEF JudgedOnce
<1>11. ASSUME NEW m \in Matches, ~Made(m) PROVE rounds'[m] = 0 /\ \A c \in Chars : verdicts'[m][c] = 0
  BY <1>1, <1>2, <1>3, <1>11 DEF MatchInv, PlayTypes
<1>12. MatchInv'
  BY <1>8, <1>10, <1>11 DEF MatchInv
<1>13. OneMatch'
  BY <1>1, <1>2, <1>10 DEF OneMatch, PlayTypes
<1> QED
  BY <1>8, <1>9, <1>10, <1>12, <1>13 DEF PlayInv, GoesOn

\* A second that leaves nobody of the teams in dead standing.
Second(o, dead, ahead) ==
    /\ dead \in SUBSET Teams /\ ahead \in {{"A"}, {"B"}, Teams}
    /\ \A t \in Teams : match[o].team[t] = {} => t \in dead
    /\ \A t \in dead : ahead # {t}
    /\ Judge(o, dead, ahead)

\* Who plays for a team is of the party that is freed, or of one of several.
LEMMA Freed ==
  ASSUME NEW team, NEW freed,
         \A t \in Teams : freed[t] \in IF PartiesOf(team[t]) = {} THEN {0} ELSE PartiesOf(team[t]),
         NEW p \in PartiesOf(team["A"] \cup team["B"])
  PROVE  p \in {freed[t] : t \in Teams} \/ \E t \in Teams : p \in Mixed(team[t])
<1>1. PICK t \in Teams : p \in PartiesOf(team[t])
  BY TwoTeams DEF PartiesOf
<1>2. freed[t] \in PartiesOf(team[t])
  BY <1>1
<1> QED
  BY <1>1, <1>2 DEF Mixed

LEMMA JudgeKeeps ==
  ASSUME PlayInv, NEW o \in Matches, Made(o), ~Finished(o),
         NEW dead, NEW ahead, Second(o, dead, ahead), UNCHANGED <<Arenas, twice>>
  PROVE  /\ PlayInv'
         /\ \A m \in Matches : Made(m) => Made(m)' /\ Players(m)' = Players(m) /\ (m # o => GoesOn(m))
         /\ ArenaFounded' \subseteq ArenaFounded /\ stranded \subseteq stranded'
         /\ IF Finished(o)' THEN ends' = ends \cup {o} /\ \A p \in PartiesIn(o) : p \in stranded' \/ p \notin ArenaFounded'
                           ELSE ends' = ends
<1>0. /\ dead \in SUBSET Teams /\ ahead \in {{"A"}, {"B"}, Teams}
      /\ \A t \in dead : ahead # {t}
  BY DEF Second
<1>1. PlayTypes /\ MatchInv /\ OneMatch /\ Playing(o) /\ JudgedOnce(o)
  BY DEF PlayInv, MatchInv
<1>2. PICK r : r = match[o]
  OBVIOUS
<1>3. PICK left : left = IF r.left > 1 THEN r.left - 1 ELSE 0
  OBVIOUS
<1>4. PICK s : s = Rounds(r, left, dead, ahead)
  OBVIOUS
<1>5. PICK v : v = Verdict(s, {t \in Teams : r.team[t] = {}})
  OBVIOUS
<1>6. /\ match' = [match EXCEPT ![o] = [id |-> r.id, team |-> r.team, wins |-> s.wins, game |-> s.game,
                                        left |-> left, wait |-> s.wait, result |-> v]]
      /\ rounds' = [rounds EXCEPT ![o] = @ + s.pending]
      /\ ends' = IF v = "open" THEN ends ELSE ends \cup {o}
      /\ verdicts' = [verdicts EXCEPT ![o] = [c \in Chars |-> IF Honored(c, r, v) THEN @[c] + 1 ELSE @[c]]]
  BY <1>2, <1>3, <1>4, <1>5 DEF Second, Judge
<1>7. /\ r \in MatchRec /\ r.team \in [Teams -> SUBSET Chars] /\ r.id \in Nat /\ r.left \in 0..RoundTime /\ r.game \in Nat
      /\ r.wins \in [Teams -> Nat]
  BY <1>1, <1>2, MadeIs
<1>8. left \in 0..RoundTime /\ left \in Nat
  BY <1>3, <1>7, ArenaAssumption
<1>9. Even(r) /\ rounds[o] \in Nat /\ rounds[o] <= r.game /\ rounds[o] <= MaxGames /\ r.game <= MaxGames /\ r.game >= 1
      /\ \A t \in Teams : r.wins[t] < r.game
  BY <1>1, <1>2, ArenaAssumption DEF Playing, PlayTypes
<1>10. s \in Scores /\ Fits(s, rounds[o]) /\ s.game <= MaxGames + 3 /\ s.game >= r.game /\ Outcome(s)
  BY <1>0, <1>4, <1>7, <1>8, <1>9, RoundsEnd
<1>11. /\ s.wins \in [Teams -> Nat] /\ s.game \in Nat /\ s.wait \in BOOLEAN /\ s.pending \in Nat
       /\ rounds[o] + s.pending <= s.game /\ rounds[o] + s.pending <= MaxGames /\ \A t \in Teams : s.wins[t] < s.game
  BY <1>10 DEF Scores, Fits
<1>12. /\ v \in Result
       /\ v = "open" => s.game <= MaxGames /\ Even(s)
       /\ v \in Teams => s.wins[v] >= s.wins[Other(v)] \/ r.team[Other(v)] = {}
  <2>1. {t \in Teams : r.team[t] = {}} \in SUBSET Teams
    OBVIOUS
  <2>2. PICK E : E = {t \in Teams : r.team[t] = {}}
    OBVIOUS
  <2>3. /\ v \in Result
        /\ v = "open" => s.game <= MaxGames /\ Even(s)
        /\ v \in Teams => s.wins[v] >= s.wins[Other(v)] \/ Other(v) \in E
    BY <1>5, <1>10, <2>1, <2>2, VerdictIsFair
  <2> QED
    BY <2>2, <2>3
<1>13. PICK q : q = [id |-> r.id, team |-> r.team, wins |-> s.wins, game |-> s.game,
                     left |-> left, wait |-> s.wait, result |-> v]
  OBVIOUS
<1>14. /\ q \in MatchRec /\ q.team = r.team /\ q.wins = s.wins /\ q.game = s.game /\ q.result = v
       /\ match' = [m \in Matches |-> IF m = o THEN q ELSE match[m]]
  <2>1. q \in MatchRec
    BY <1>7, <1>8, <1>11, <1>12, <1>13 DEF MatchRec
  <2>2. match' = [match EXCEPT ![o] = q]
    BY <1>6, <1>13
  <2> QED
    BY <1>1, <1>13, <2>1, <2>2 DEF PlayTypes
<1>15. NoMatch \notin MatchRec
  BY DEF NoMatch, MatchRec
<1>16. \A m \in Matches : (Made(m)' <=> Made(m)) /\ (m # o => match'[m] = match[m]) /\ match'[m] \in MatchRec \cup {NoMatch}
  BY <1>1, <1>14, <1>15 DEF Made, PlayTypes
<1>17. rounds' \in [Matches -> 0..MaxGames] /\ rounds'[o] = rounds[o] + s.pending
       /\ \A m \in Matches : m # o => rounds'[m] = rounds[m]
  <2>1. rounds[o] + s.pending \in 0..MaxGames
    BY <1>9, <1>11, ArenaAssumption
  <2> QED
    BY <1>1, <1>6, <2>1 DEF PlayTypes
<1>18. /\ verdicts' \in [Matches -> [Chars -> Nat]]
       /\ \A c \in Chars : verdicts'[o][c] = IF Honored(c, r, v) THEN verdicts[o][c] + 1 ELSE verdicts[o][c]
       /\ \A m \in Matches : m # o => verdicts'[m] = verdicts[m]
  <2>1. PICK f : f = [c \in Chars |-> IF Honored(c, r, v) THEN verdicts[o][c] + 1 ELSE verdicts[o][c]]
    OBVIOUS
  <2>2. verdicts' = [verdicts EXCEPT ![o] = f]
    BY <1>6, <2>1
  <2>3. f \in [Chars -> Nat] /\ \A c \in Chars : f[c] = IF Honored(c, r, v) THEN verdicts[o][c] + 1 ELSE verdicts[o][c]
    BY <1>1, <2>1 DEF PlayTypes
  <2> QED
    BY <1>1, <2>2, <2>3 DEF PlayTypes
<1>19. PlayTypes'
  <2>1. ends' \subseteq Matches
    BY <1>1, <1>6 DEF PlayTypes
  <2> QED
    BY <1>1, <1>14, <1>16, <1>17, <1>18, <2>1 DEF PlayTypes, Made
<1>20. \A m \in Matches : Made(m) => Players(m)' = Players(m)
  BY <1>2, <1>14, <1>16 DEF Players
<1>21. Playing(o)' /\ (Finished(o)' <=> v # "open")
  <2>1. Finished(o)' <=> v # "open"
    BY <1>14 DEF Finished
  <2>2. s.game \in 1..MaxGames + 3 /\ rounds'[o] <= s.game
    BY <1>7, <1>9, <1>10, <1>11, <1>17, ArenaAssumption
  <2>3. Fair(q)
    BY <1>12, <1>14 DEF Fair
  <2>4. v = "open" => Even(q)
    BY <1>12, <1>14 DEF Even
  <2>5. match'[o] = q
    BY <1>14
  <2> QED
    BY <1>11, <1>12, <1>14, <2>1, <2>2, <2>3, <2>4, <2>5 DEF Playing
<1>22. JudgedOnce(o)'
  <2> SUFFICES ASSUME NEW c \in Chars \ twice
               PROVE  verdicts'[o][c] = 0 \/ (verdicts'[o][c] = 1 /\ (Finished(o)' \/ c \notin Players(o)'))
    BY DEF JudgedOnce
  <2>1. verdicts[o][c] = 0 \/ (verdicts[o][c] = 1 /\ c \notin Players(o))
    BY <1>1 DEF JudgedOnce
  <2>2. CASE Honored(c, r, v)
    <3>1. c \in Players(o) /\ v # "open"
      BY <1>2, <2>2, TwoTeams DEF Honored, Players, Teams, Other
    <3> QED
      BY <1>18, <1>21, <2>1, <2>2, <3>1
  <2>3. CASE ~Honored(c, r, v)
    BY <1>18, <1>20, <2>1, <2>3
  <2> QED
    BY <2>2, <2>3
<1>23. ASSUME NEW m \in Matches, Made(m), m # o PROVE Playing(m)' /\ JudgedOnce(m)'
  <2>1. Playing(m) /\ JudgedOnce(m) /\ match'[m] = match[m] /\ rounds'[m] = rounds[m] /\ verdicts'[m] = verdicts[m]
    BY <1>1, <1>16, <1>17, <1>18, <1>23 DEF MatchInv
  <2> QED
    BY <2>1 DEF Playing, JudgedOnce, Players, Finished
<1>24. ASSUME NEW m \in Matches, ~Made(m) PROVE rounds'[m] = 0 /\ \A c \in Chars : verdicts'[m][c] = 0
  BY <1>1, <1>17, <1>18, <1>24 DEF MatchInv
<1>25. MatchInv'
  BY <1>16, <1>21, <1>22, <1>23, <1>24 DEF MatchInv
<1>26. OneMatch'
  BY <1>1, <1>20 DEF OneMatch, PlayTypes
<1>27. PICK freed \in [Teams -> Parties0] :
          /\ \A t \in Teams : freed[t] \in IF v = "open" \/ PartiesOf(r.team[t]) = {} THEN {0} ELSE PartiesOf(r.team[t])
          /\ ArenaFounded' = ArenaFounded \ {freed[t] : t \in Teams}
          /\ stranded' = IF v = "open" THEN stranded
                         ELSE stranded \cup ((Mixed(r.team["A"]) \cup Mixed(r.team["B"])) \ {freed[t] : t \in Teams})
  BY <1>2, <1>3, <1>4, <1>5 DEF Second, Judge
<1>28. ASSUME v # "open", NEW p \in PartiesIn(o) PROVE p \in stranded' \/ p \notin ArenaFounded'
  <2>1. \A t \in Teams : freed[t] \in IF PartiesOf(r.team[t]) = {} THEN {0} ELSE PartiesOf(r.team[t])
    BY <1>27, <1>28
  <2>2. p \in {freed[t] : t \in Teams} \/ \E t \in Teams : p \in Mixed(r.team[t])
    BY <1>2, <1>28, <2>1, Freed DEF PartiesIn, Players
  <2>3. CASE p \in {freed[t] : t \in Teams}
    BY <1>27, <2>3
  <2>4. CASE p \notin {freed[t] : t \in Teams}
    <3>1. PICK X : X = {freed[t] : t \in Teams}
      OBVIOUS
    <3>2. p \in Mixed(r.team["A"]) \cup Mixed(r.team["B"]) /\ p \notin X
      BY <2>2, <2>4, <3>1 DEF Teams
    <3>3. stranded' = stranded \cup ((Mixed(r.team["A"]) \cup Mixed(r.team["B"])) \ X)
      BY <1>27, <1>28, <3>1
    <3> QED
      BY <3>2, <3>3
  <2> QED
    BY <2>3, <2>4
<1>29. \A m \in Matches : Made(m) => Made(m)' /\ Players(m)' = Players(m) /\ (m # o => GoesOn(m))
  BY <1>16, <1>20 DEF GoesOn, Finished
<1> QED
  BY <1>6, <1>19, <1>21, <1>25, <1>26, <1>27, <1>28, <1>29 DEF PlayInv

LEMMA CreateArenaKeeps ==
  ASSUME PlayInv, NEW i, CreateArena(i), Queues[i].team \in [Teams -> SUBSET Chars]
  PROVE  /\ PlayInv'
         /\ \E o \in Matches : /\ ~Made(o) /\ Arenas' = Put(Arenas, NextArenaID, o) /\ ~Finished(o)'
                             /\ Players(o)' = Queues[i].team["A"] \cup Queues[i].team["B"]
         /\ ends' = ends /\ \A m \in Matches : Made(m) => GoesOn(m) /\ Players(m)' = Players(m)
<1>1. PlayTypes /\ MatchInv /\ OneMatch
  BY DEF PlayInv
<1>2. PICK team : team = Queues[i].team
  OBVIOUS
<1>3. PICK o \in Matches :
          /\ ~Made(o)
          /\ match' = [match EXCEPT ![o] = NewMatch(NextArenaID, team)]
          /\ Arenas' = Put(Arenas, NextArenaID, o)
          /\ twice' = twice \cup {c \in team["A"] \cup team["B"] : InArena(c)}
          /\ rounds' = IF crashed' THEN rounds ELSE [rounds EXCEPT ![o] = 1]
          /\ UNCHANGED <<ends, verdicts>>
  BY <1>2 DEF CreateArena
<1>4. PICK id : id = NextArenaID
  OBVIOUS
<1>5. id \in Nat /\ IsFiniteSet(DOMAIN Arenas)
  BY <1>1, <1>4, FS_CardinalityType DEF PlayTypes, NextArenaID, Size
<1>6. PICK r : r = NewMatch(id, team)
  OBVIOUS
<1>7. /\ r \in MatchRec /\ r.team = team /\ r.game = 1 /\ r.result = "open"
      /\ r.wins \in [Teams -> Nat] /\ \A t \in Teams : r.wins[t] = 0
  <2>1. [t \in Teams |-> 0] \in [Teams -> Nat] /\ 0 \in 0..RoundTime
    BY ArenaAssumption
  <2> QED
    BY <1>2, <1>5, <1>6, <2>1 DEF NewMatch, MatchRec, Result
<1>8. NoMatch \notin MatchRec /\ 1 \in 0..MaxGames /\ MaxGames \in Nat /\ WinNumber \in Nat \ {0}
  BY ArenaAssumption DEF NoMatch, MatchRec
<1>9. match' = [m \in Matches |-> IF m = o THEN r ELSE match[m]]
  BY <1>1, <1>3, <1>4, <1>6 DEF PlayTypes
<1>10. /\ match' \in [Matches -> MatchRec \cup {NoMatch}]
       /\ \A m \in Matches : Made(m)' <=> Made(m) \/ m = o
       /\ \A m \in Matches : Made(m) => match'[m] = match[m]
  BY <1>1, <1>3, <1>7, <1>8, <1>9 DEF Made, PlayTypes
<1>11. /\ rounds' \in [Matches -> 0..MaxGames] /\ rounds'[o] <= 1
       /\ \A m \in Matches : m # o => rounds'[m] = rounds[m]
  <2>1. rounds[o] = 0
    BY <1>1, <1>3 DEF MatchInv
  <2> QED
    BY <1>1, <1>3, <1>8, <2>1 DEF PlayTypes
<1>12. /\ DOMAIN Arenas' = DOMAIN Arenas \cup {id}
       /\ \A j \in DOMAIN Arenas' : Arenas'[j] = IF j = id THEN o ELSE Arenas[j]
  BY <1>3, <1>4 DEF Put
<1>13. PlayTypes'
  <2>1. IsFiniteSet(DOMAIN Arenas')
    BY <1>5, <1>12, FS_AddElement
  <2>2. (\A j \in DOMAIN Arenas : Arenas[j] \in Matches /\ Made(Arenas[j]))'
    <3> SUFFICES ASSUME NEW j \in DOMAIN Arenas' PROVE Arenas'[j] \in Matches /\ match'[Arenas'[j]] # NoMatch
      BY DEF Made
    <3>1. PICK m : m = Arenas'[j]
      OBVIOUS
    <3>2. m \in Matches /\ (m = o \/ Made(m))
      BY <1>1, <1>3, <1>12, <3>1 DEF PlayTypes
    <3> QED
      BY <1>10, <3>1, <3>2 DEF Made
  <2>3. twice' \subseteq Chars
    BY <1>1, <1>2, <1>3, TwoTeams DEF PlayTypes
  <2> QED
    BY <1>1, <1>3, <1>10, <1>11, <2>1, <2>2, <2>3 DEF PlayTypes
<1>14. Playing(o)' /\ JudgedOnce(o)'
  <2>1. match'[o] = r
    BY <1>9
  <2>2. 1 \in 1..MaxGames + 3 /\ 1 <= MaxGames
    BY <1>8
  <2>3. Even(r) /\ Fair(r)
    BY <1>7, <1>8, TwoTeams DEF Even, Fair, Teams
  <2>4. Playing(o)'
    BY <1>7, <1>11, <2>1, <2>2, <2>3 DEF Playing
  <2>5. \A c \in Chars : verdicts'[o][c] = 0
    BY <1>1, <1>3 DEF MatchInv
  <2> QED
    BY <2>4, <2>5 DEF JudgedOnce
<1>15. ASSUME NEW m \in Matches, Made(m)
       PROVE  Playing(m)' /\ JudgedOnce(m)' /\ Players(m)' = Players(m)
  <2>1. Playing(m) /\ JudgedOnce(m) /\ match'[m] = match[m] /\ rounds'[m] = rounds[m] /\ verdicts'[m] = verdicts[m]
    BY <1>1, <1>3, <1>10, <1>11, <1>15 DEF MatchInv
  <2>2. twice \subseteq twice'
    BY <1>3
  <2> QED
    BY <2>1, <2>2 DEF Playing, JudgedOnce, Players, Finished
<1>16. ASSUME NEW m \in Matches, ~Made(m), m # o PROVE rounds'[m] = 0 /\ \A c \in Chars : verdicts'[m][c] = 0
  BY <1>1, <1>3, <1>11, <1>16 DEF MatchInv
<1>17. MatchInv'
  BY <1>10, <1>14, <1>15, <1>16 DEF MatchInv
<1>18. OneMatch'
  <2>1. Players(o)' = team["A"] \cup team["B"]
    BY <1>7, <1>9 DEF Players
  <2>2. ASSUME NEW c \in Chars \ twice', NEW j \in DOMAIN Arenas, c \in Players(Arenas[j])
        PROVE  c \notin Players(o)'
    <3>1. Arenas[j] \in MatchesOf(c)
      BY <2>2 DEF MatchesOf
    <3> QED
      BY <1>3, <2>1, <2>2, <3>1 DEF InArena
  <2>3. ASSUME NEW c \in Chars \ twice', NEW j \in DOMAIN Arenas', NEW k \in DOMAIN Arenas',
               NEW m, m = Arenas'[j], NEW n, n = Arenas'[k], c \in Players(m)', c \in Players(n)'
        PROVE  m = n
    <3>1. c \in Chars \ twice
      BY <1>3
    <3>2. j = id \/ (j \in DOMAIN Arenas /\ m = Arenas[j] /\ Made(m) /\ m \in Matches)
      BY <1>1, <1>12, <2>3 DEF PlayTypes
    <3>3. k = id \/ (k \in DOMAIN Arenas /\ n = Arenas[k] /\ Made(n) /\ n \in Matches)
      BY <1>1, <1>12, <2>3 DEF PlayTypes
    <3>4. CASE j = id /\ k = id
      BY <1>12, <2>3, <3>4
    <3>5. CASE j = id /\ k # id
      BY <1>12, <1>15, <2>2, <2>3, <3>3, <3>5
    <3>6. CASE j # id /\ k = id
      BY <1>12, <1>15, <2>2, <2>3, <3>2, <3>6
    <3>7. CASE j # id /\ k # id
      <4>1. c \in Players(m) /\ c \in Players(n)
        BY <1>15, <2>3, <3>2, <3>3, <3>7
      <4> QED
        BY <1>1, <3>1, <3>2, <3>3, <3>7, <4>1 DEF OneMatch
    <3> QED
      BY <3>4, <3>5, <3>6, <3>7
  <2> SUFFICES ASSUME NEW c \in Chars \ twice', NEW j \in DOMAIN Arenas', NEW k \in DOMAIN Arenas',
                      (c \in Players(Arenas[j]))', (c \in Players(Arenas[k]))'
               PROVE  Arenas'[j] = Arenas'[k]
    BY DEF OneMatch
  <2>4. PICK m, n : m = Arenas'[j] /\ n = Arenas'[k]
    OBVIOUS
  <2>5. c \in Players(m)' /\ c \in Players(n)'
    BY <2>4 DEF Players
  <2> QED
    BY <2>3, <2>4, <2>5
<1>19. ~Finished(o)' /\ Players(o)' = team["A"] \cup team["B"]
  BY <1>7, <1>9 DEF Players, Finished
<1>20. \A m \in Matches : Made(m) => GoesOn(m) /\ Players(m)' = Players(m)
  BY <1>10, <1>15 DEF GoesOn, Finished
<1> QED
  BY <1>2, <1>3, <1>13, <1>17, <1>18, <1>19, <1>20 DEF PlayInv

----------------------------------------------------------------------------
(* Parties, the lobby and the queues *)

\* Who leads a party that was made is a character.
LeadersKept == \A p \in PartyObjs : Leader[p] \in Chars => Leader'[p] \in Chars

LEMMA MadeKept ==
  ASSUME PartyTypeOK, MadeInv, invited' \in {invited, invited + 1},
         \A p \in PartyObjs : \A c \in Chars : Members'[p][c] \in {Members[p][c], 0, invited'}
  PROVE  MadeInv'
  BY PartyAssumption DEF PartyTypeOK, MadeInv, MemberObjs

LEMMA LeavePartyTypes ==
  ASSUME PartyTypeOK, MadeInv, NEW c \in Chars, NEW b \in BOOLEAN, LeaveParty(c, b), online' \subseteq online
  PROVE  PartyTypeOK' /\ MadeInv' /\ LeadersKept
<1>1. PICK p : p = FindParty(c)
  OBVIOUS
<1>2. p \in {0} \cup PartyObjs /\ 0 \notin PartyObjs
  BY <1>1 DEF PartyTypeOK, FindParty, PartyObjs
<1>3. UNCHANGED <<Accepted, invited, asked, timers>> /\ strayed' \in BOOLEAN
  BY <1>1 DEF LeaveParty, PartyTypeOK
<1>4. /\ PartyID' \in [Chars -> Chars \cup {None}] /\ Parties' \in [Chars -> {0} \cup PartyObjs]
      /\ Leader' \in [PartyObjs -> Chars \cup {None}] /\ Members' \in [PartyObjs -> [Chars -> {0} \cup MemberObjs]]
      /\ LeadersKept
  <2>1. CASE p = 0
    BY <1>1, <2>1 DEF LeaveParty, PartyTypeOK, LeadersKept
  <2>2. CASE p # 0 /\ LeaderLeaves(c, p, b)
    <3>1. Parties' = Parties \/ Parties' = Delete(p)
      BY <2>2 DEF LeaderLeaves
    <3>2. Parties' \in [Chars -> {0} \cup PartyObjs]
      BY <3>1 DEF PartyTypeOK, Delete
    <3>3. Leader' = Leader \/ \E n \in Chars : Leader' = [Leader EXCEPT ![p] = n]
      BY <2>2 DEF LeaderLeaves, AcceptedOf, MembersOf
    <3>4. Leader' \in [PartyObjs -> Chars \cup {None}] /\ LeadersKept
      BY <1>2, <2>2, <3>3 DEF PartyTypeOK, LeadersKept
    <3>5. \/ PartyID' = [d \in Chars |-> IF d = c \/ d \in AcceptedOf(p) THEN None ELSE PartyID[d]]
          \/ PartyID' = [PartyID EXCEPT ![c] = None]
          \/ \E n \in Chars :
                PartyID' = [d \in Chars |-> IF d = c THEN None ELSE IF d \in AcceptedOf(p) THEN n ELSE PartyID[d]]
      BY <2>2 DEF LeaderLeaves, AcceptedOf, MembersOf
    <3>6. PartyID' \in [Chars -> Chars \cup {None}]
      BY <3>5 DEF PartyTypeOK
    <3> QED
      BY <2>2, <3>2, <3>4, <3>6 DEF LeaderLeaves, PartyTypeOK
  <2>3. CASE p # 0 /\ MemberLeaves(c, p)
    <3>1. Members' \in [PartyObjs -> [Chars -> {0} \cup MemberObjs]]
      BY <1>2, <2>3 DEF MemberLeaves, RemoveMember, PartyTypeOK
    <3>2. Parties' = Parties \/ Parties' = Delete(p)
      BY <2>3 DEF MemberLeaves
    <3> QED
      BY <2>3, <3>1, <3>2 DEF MemberLeaves, PartyTypeOK, Delete, LeadersKept
  <2> QED
    BY <1>1, <2>1, <2>2, <2>3 DEF LeaveParty
<1>5. \A q \in PartyObjs : \A d \in Chars : Members'[q][d] \in {Members[q][d], 0}
  <2>1. Members' = Members \/ Members' = RemoveMember(p, c)
    BY <1>1 DEF LeaveParty, LeaderLeaves, MemberLeaves
  <2> QED
    BY <1>2, <2>1 DEF PartyTypeOK, RemoveMember
<1>6. MadeInv'
  BY <1>3, <1>5, MadeKept
<1> QED
  BY <1>3, <1>4, <1>6 DEF PartyTypeOK

LEMMA ExpelTypes ==
  ASSUME PartyTypeOK, MadeInv, NEW c \in Chars, NEW m \in Chars, Expel(c, m)
  PROVE  PartyTypeOK' /\ MadeInv' /\ LeadersKept
<1>1. PICK p : p = FindParty(c)
  OBVIOUS
<1>2. p \in PartyObjs
  BY <1>1 DEF PartyTypeOK, FindParty, PartyObjs, Expel
<1>3. /\ Members' = RemoveMember(p, m)
      /\ PartyID' = [d \in Chars |-> IF d = m \/ (d = c /\ EmptyWithout(p, m)) THEN None ELSE PartyID[d]]
      /\ Parties' = Parties \/ Parties' = Delete(p)
      /\ UNCHANGED <<online, Leader, Accepted, invited, asked, timers, strayed>>
  BY <1>1 DEF Expel
<1>4. Members' \in [PartyObjs -> [Chars -> {0} \cup MemberObjs]]
  BY <1>2, <1>3 DEF PartyTypeOK, RemoveMember
<1>5. Parties' \in [Chars -> {0} \cup PartyObjs]
  BY <1>3 DEF PartyTypeOK, Delete
<1>6. \A q \in PartyObjs : \A d \in Chars : Members'[q][d] \in {Members[q][d], 0}
  BY <1>2, <1>3 DEF PartyTypeOK, RemoveMember
<1>7. MadeInv'
  BY <1>3, <1>6, MadeKept
<1> QED
  BY <1>3, <1>4, <1>5, <1>7 DEF PartyTypeOK, LeadersKept

LEMMA SendPartyRequestTypes ==
  ASSUME PartyTypeOK, MadeInv, NEW c \in Chars, NEW m \in Chars, SendPartyRequest(c, m)
  PROVE  PartyTypeOK' /\ MadeInv' /\ LeadersKept
<1>1. PICK p \in PartyObjs :
          /\ \/ /\ FindParty(c) = 0 /\ NewParty(c, p)
                /\ Leader' = [Leader EXCEPT ![p] = c]
                /\ Parties' = [Parties EXCEPT ![c] = p]
                /\ PartyID' = [PartyID EXCEPT ![c] = c, ![m] = c]
             \/ /\ FindParty(c) = p /\ Cardinality(MembersOf(p)) < MaxMembers
                /\ PartyID' = [PartyID EXCEPT ![m] = c]
                /\ UNCHANGED <<Leader, Parties>>
          /\ invited' = invited + 1
          /\ Members' = [Members EXCEPT ![p][m] = invited']
          /\ timers' = timers \cup {[party |-> p, char |-> m, member |-> invited']}
          /\ asked' = asked \cup {m}
  BY DEF SendPartyRequest
<1>2. invited < MaxInvites /\ strayed' \in BOOLEAN /\ UNCHANGED <<online, Accepted>>
  BY DEF SendPartyRequest, PartyTypeOK
<1>3. /\ invited' \in MemberObjs /\ invited' \in {0} \cup MemberObjs /\ Accepted' \subseteq 1..invited'
  BY <1>1, <1>2, PartyAssumption DEF PartyTypeOK, MemberObjs
<1>4. PICK n : n = invited'
  OBVIOUS
<1>5. Members' \in [PartyObjs -> [Chars -> {0} \cup MemberObjs]]
  <2>1. Members' = [Members EXCEPT ![p][m] = n]
    BY <1>1, <1>4
  <2> QED
    BY <1>3, <1>4, <2>1 DEF PartyTypeOK
<1>6. timers' \subseteq Timer
  BY <1>1, <1>3 DEF PartyTypeOK, Timer
<1>7. MadeInv'
  <2>1. \A q \in PartyObjs : \A d \in Chars : Members'[q][d] \in {Members[q][d], 0, invited'}
    BY <1>1 DEF PartyTypeOK
  <2> QED
    BY <1>1, <2>1, MadeKept
<1>8. /\ PartyID' \in [Chars -> Chars \cup {None}] /\ Parties' \in [Chars -> {0} \cup PartyObjs]
      /\ Leader' \in [PartyObjs -> Chars \cup {None}] /\ LeadersKept
  <2>1. /\ PartyID \in [Chars -> Chars \cup {None}] /\ Parties \in [Chars -> {0} \cup PartyObjs]
        /\ Leader \in [PartyObjs -> Chars \cup {None}]
    BY DEF PartyTypeOK
  <2>2. CASE /\ Leader' = [Leader EXCEPT ![p] = c]
             /\ Parties' = [Parties EXCEPT ![c] = p]
             /\ PartyID' = [PartyID EXCEPT ![c] = c, ![m] = c]
    <3>1. PartyID' \in [Chars -> Chars \cup {None}]
      BY <2>1, <2>2
    <3>2. Parties' \in [Chars -> {0} \cup PartyObjs]
      BY <2>1, <2>2
    <3>3. Leader' \in [PartyObjs -> Chars \cup {None}] /\ \A q \in PartyObjs : Leader'[q] \in {Leader[q], c}
      BY <2>1, <2>2
    <3> QED
      BY <3>1, <3>2, <3>3 DEF LeadersKept
  <2>3. CASE PartyID' = [PartyID EXCEPT ![m] = c] /\ UNCHANGED <<Leader, Parties>>
    BY <2>1, <2>3 DEF LeadersKept
  <2> QED
    BY <1>1, <2>2, <2>3
<1> QED
  BY <1>1, <1>2, <1>3, <1>5, <1>6, <1>7, <1>8 DEF PartyTypeOK

LEMMA InvitationsTypes ==
  ASSUME PartyTypeOK, MadeInv, Invitations PROVE PartyTypeOK' /\ MadeInv' /\ LeadersKept
<1>1. ASSUME NEW c \in Chars, Accept(c) PROVE PartyTypeOK' /\ MadeInv' /\ LeadersKept
  <2>1. PICK p : p = FindParty(c)
    OBVIOUS
  <2>2. p \in {0} \cup PartyObjs
    BY <2>1 DEF PartyTypeOK, FindParty
  <2>3. /\ Accepted' = IF p # 0 /\ Members[p][c] # 0 THEN Accepted \cup {Members[p][c]} ELSE Accepted
        /\ asked' = asked \ {c} /\ UNCHANGED <<online, PartyID, Parties, Leader, Members, invited, timers, strayed>>
    BY <1>1, <2>1 DEF Accept
  <2>4. Accepted' \subseteq 1..invited
    <3>1. p # 0 => Members[p][c] \in 0..invited /\ invited \in Nat
      BY <2>2, PartyAssumption DEF MadeInv, PartyTypeOK, MemberObjs
    <3>2. p # 0 /\ Members[p][c] # 0 => Members[p][c] \in 1..invited
      BY <3>1
    <3> QED
      BY <2>3, <3>2 DEF PartyTypeOK
  <2>5. MadeInv'
    BY <2>3 DEF MadeInv
  <2> QED
    BY <2>2, <2>3, <2>4, <2>5 DEF PartyTypeOK, LeadersKept
<1>2. ASSUME NEW c \in Chars, Reject(c) PROVE PartyTypeOK' /\ MadeInv' /\ LeadersKept
  <2>1. PICK p : p = FindParty(c)
    OBVIOUS
  <2>2. p \in {0} \cup PartyObjs
    BY <2>1 DEF PartyTypeOK, FindParty
  <2>3. /\ asked' = asked \ {c} /\ strayed' \in BOOLEAN /\ UNCHANGED <<online, Parties, Leader, Accepted, invited, timers>>
        /\ \/ p = 0 /\ UNCHANGED <<PartyID, Members>>
           \/ /\ p # 0 /\ Members' = RemoveMember(p, c)
              /\ PartyID' = [d \in Chars |->
                              IF d = c \/ (d = Leader[p] /\ EmptyWithout(p, c)) THEN None ELSE PartyID[d]]
    BY <1>2, <2>1 DEF Reject, PartyTypeOK
  <2>4. Members' \in [PartyObjs -> [Chars -> {0} \cup MemberObjs]] /\ PartyID' \in [Chars -> Chars \cup {None}]
    BY <2>2, <2>3 DEF RemoveMember, PartyTypeOK
  <2>5. \A q \in PartyObjs : \A d \in Chars : Members'[q][d] \in {Members[q][d], 0}
    BY <2>2, <2>3 DEF PartyTypeOK, RemoveMember
  <2>6. MadeInv'
    BY <2>3, <2>5, MadeKept
  <2> QED
    BY <2>3, <2>4, <2>6 DEF PartyTypeOK, LeadersKept
<1>3. ASSUME NEW t \in timers, InviteTimeout(t) PROVE PartyTypeOK' /\ MadeInv' /\ LeadersKept
  <2>1. t.party \in PartyObjs /\ t.char \in Chars
    BY DEF PartyTypeOK, Timer
  <2>2. Members' \in [PartyObjs -> [Chars -> {0} \cup MemberObjs]]
    BY <1>3, <2>1 DEF InviteTimeout, RemoveMember, PartyTypeOK
  <2>3. timers' \subseteq timers
    BY <1>3 DEF InviteTimeout
  <2>4. \A q \in PartyObjs : \A d \in Chars : Members'[q][d] \in {Members[q][d], 0}
    BY <1>3, <2>1 DEF PartyTypeOK, RemoveMember, InviteTimeout
  <2>5. MadeInv'
    BY <1>3, <2>4, MadeKept DEF InviteTimeout
  <2> QED
    BY <1>3, <2>2, <2>3, <2>5 DEF PartyTypeOK, LeadersKept, InviteTimeout
<1> QED
  BY <1>1, <1>2, <1>3, SendPartyRequestTypes DEF Invitations

Queue == [party : [Teams -> Parties0], team : [Teams -> SUBSET Chars], rest : 0..QueueTime]
LobbyTypes ==
    /\ Lobby \in [Chars -> Parties0]
    /\ ArenaFounded \subseteq PartyObjs /\ LeaderAccept \subseteq PartyObjs /\ AcceptedArena \subseteq MemberObjs
    /\ \A i \in DOMAIN Queues : Queues[i] \in Queue
    /\ crashed \in BOOLEAN /\ stranded \subseteq Parties0
LedInv == \A k \in Chars : Lobby[k] # 0 => Leader[Lobby[k]] \in Chars
LobbyInv == LobbyTypes /\ LedInv

LEMMA FoundTypes ==
  ASSUME PartyTypeOK, NEW S \in SUBSET Chars
  PROVE  /\ \A c \in S : FindParty(c) \in Parties0
         /\ PartiesOf(S) \subseteq PartyObjs
<1>1. \A c \in S : FindParty(c) \in Parties0
  BY DEF PartyTypeOK, FindParty, Parties0
<1> QED
  BY <1>1 DEF PartiesOf, Parties0

LEMMA PlayedTypes ==
  ASSUME PartyTypeOK, PlayTypes
  PROVE  /\ \A o \in Matches : Made(o) => PartiesIn(o) \subseteq PartyObjs
         /\ InPlay \subseteq PartyObjs
<1>1. \A o \in Matches : Made(o) => PartiesIn(o) \subseteq PartyObjs
  BY MadeIs, FoundTypes DEF PartiesIn
<1> QED
  BY <1>1 DEF InPlay, PlayTypes

\* The parties that are led by characters make teams of characters.
LEMMA TeamTypes ==
  ASSUME PartyTypeOK, NEW p \in PartyObjs, Leader[p] \in Chars
  PROVE  TeamOf(p) \subseteq Chars /\ QueuedParty(p) \subseteq Parties0
<1>1. TeamOf(p) \subseteq Chars
  BY DEF TeamOf, AcceptedOf, MembersOf
<1>2. PartiesOf(TeamOf(p) \ {Leader[p]}) \subseteq PartyObjs
  BY <1>1, FoundTypes
<1>3. FindParty(Leader[p]) \in Parties0 /\ 0 \in Parties0
  BY DEF PartyTypeOK, FindParty, Parties0
<1> QED
  BY <1>1, <1>2, <1>3 DEF QueuedParty, Parties0

LEMMA SidesType == ASSUME NEW S, NEW a \in S, NEW b \in S PROVE Sides(a, b) \in [Teams -> S]
  BY DEF Sides

LEMMA CreateSessionTypes ==
  ASSUME PartyTypeOK, LobbyTypes, NEW lobby \in [Chars -> Parties0],
         \A k \in Chars : lobby[k] # 0 => Leader[lobby[k]] \in Chars, CreateSession(lobby)
  PROVE  /\ ArenaFounded' \subseteq PartyObjs /\ stranded' \subseteq Parties0
         /\ \A i \in DOMAIN Queues' : Queues'[i] \in Queue
<1>1. CASE UNCHANGED <<ArenaFounded, Queues, stranded>>
  BY <1>1 DEF LobbyTypes
<1>2. CASE ~UNCHANGED <<ArenaFounded, Queues, stranded>>
  <2>1. PICK k1 \in Chars, k2 \in Chars : LET p == lobby[k1]
                                 q == lobby[k2] IN
          /\ k1 # k2 /\ p # 0 /\ q # 0
          /\ ArenaFounded' = ArenaFounded \cup PartiesOf(TeamOf(p) \cup TeamOf(q))
          /\ \E a \in QueuedParty(p), b \in QueuedParty(q) :
                /\ Queues' = Put(Queues, Size(Queues), [party |-> Sides(a, b), team |-> Sides(TeamOf(p), TeamOf(q)),
                                                        rest |-> QueueTime])
                /\ stranded' = stranded \cup ((Mixed(TeamOf(p)) \cup Mixed(TeamOf(q))) \ {a, b}) \cup Replaced
    BY <1>2 DEF CreateSession
  <2>2. PICK p, q : p = lobby[k1] /\ q = lobby[k2]
    OBVIOUS
  <2>3. p \in PartyObjs /\ q \in PartyObjs /\ Leader[p] \in Chars /\ Leader[q] \in Chars
    BY <2>1, <2>2 DEF Parties0
  <2>4. /\ TeamOf(p) \subseteq Chars /\ QueuedParty(p) \subseteq Parties0
        /\ TeamOf(q) \subseteq Chars /\ QueuedParty(q) \subseteq Parties0
    BY <2>3, TeamTypes
  <2>5. ArenaFounded' \subseteq PartyObjs
    <3>1. PartiesOf(TeamOf(p) \cup TeamOf(q)) \subseteq PartyObjs
      BY <2>4, FoundTypes
    <3> QED
      BY <2>1, <2>2, <3>1 DEF LobbyTypes
  <2>6. PICK a \in QueuedParty(p), b \in QueuedParty(q) :
                /\ Queues' = Put(Queues, Size(Queues), [party |-> Sides(a, b), team |-> Sides(TeamOf(p), TeamOf(q)),
                                                        rest |-> QueueTime])
                /\ stranded' = stranded \cup ((Mixed(TeamOf(p)) \cup Mixed(TeamOf(q))) \ {a, b}) \cup Replaced
    BY <2>1, <2>2
  <2>7. PICK x : x = [party |-> Sides(a, b), team |-> Sides(TeamOf(p), TeamOf(q)), rest |-> QueueTime]
    OBVIOUS
  <2>8. x \in Queue
    <3>1. Sides(a, b) \in [Teams -> Parties0]
      BY <2>4, SidesType
    <3>2. Sides(TeamOf(p), TeamOf(q)) \in [Teams -> SUBSET Chars]
      BY <2>4, SidesType
    <3> QED
      BY <2>7, <3>1, <3>2, ArenaAssumption DEF Queue
  <2>9. \A i \in DOMAIN Queues' : Queues'[i] \in Queue
    BY <2>6, <2>7, <2>8 DEF Put, LobbyTypes
  <2>10. stranded' \subseteq Parties0
    <3>1. Replaced \subseteq Parties0
      BY DEF Replaced, LobbyTypes, Queue
    <3>2. Mixed(TeamOf(p)) \subseteq PartyObjs /\ Mixed(TeamOf(q)) \subseteq PartyObjs
      BY <2>4, FoundTypes DEF Mixed
    <3> QED
      BY <2>6, <3>1, <3>2 DEF LobbyTypes, Parties0
  <2> QED
    BY <2>5, <2>9, <2>10
<1> QED
  BY <1>1, <1>2

\* Who is taken out of the lobby leaves the rest of it as it is.
LEMMA RemoveTyped ==
  ASSUME LobbyInv, NEW S, Lobby' = RemovePartyFromLobby(S)
  PROVE  Lobby' \in [Chars -> Parties0] /\ \A k \in Chars : Lobby'[k] \in {0, Lobby[k]}
  BY DEF LobbyInv, LobbyTypes, RemovePartyFromLobby, Parties0

LEMMA LedKept ==
  ASSUME LobbyInv, LeadersKept, \A k \in Chars : Lobby'[k] \in {0, Lobby[k]} PROVE LedInv'
  BY DEF LobbyInv, LobbyTypes, LedInv, LeadersKept, Parties0

\* A queue goes, with what its parties accepted.
LEMMA RemoveQueueTypes ==
  ASSUME LobbyInv, NEW i, RemoveQueue(i)
  PROVE  /\ \A j \in DOMAIN Queues' : Queues'[j] \in Queue
         /\ LeaderAccept' \subseteq PartyObjs /\ AcceptedArena' \subseteq MemberObjs
<1>1. Queues' = Without(Queues, i) /\ LeaderAccept' \subseteq LeaderAccept /\ AcceptedArena' \subseteq AcceptedArena
  BY DEF RemoveQueue
<1> QED
  BY <1>1 DEF Without, LobbyInv, LobbyTypes

----------------------------------------------------------------------------
(* One action after the other *)

PartyTyped == PartyTypeOK /\ MadeInv
AInv == PartyTyped /\ LobbyInv /\ PlayInv

LEMMA AInit == PartyInit /\ ArenaInit => AInv
<1> SUFFICES ASSUME PartyInit, ArenaInit PROVE AInv
  OBVIOUS
<1>1. PartyTyped
  <2>1. PartyTypeOK
    BY PartyAssumption DEF PartyInit, PartyTypeOK, PartyObjs, MemberObjs
  <2>2. MadeInv
    BY DEF PartyInit, MadeInv
  <2> QED
    BY <2>1, <2>2 DEF PartyTyped
<1>2. LobbyInv
  <2>1. DOMAIN Queues = {}
    BY DEF ArenaInit
  <2>2. LobbyTypes
    BY <2>1 DEF ArenaInit, LobbyTypes, Parties0
  <2>3. LedInv
    BY DEF ArenaInit, LedInv
  <2> QED
    BY <2>2, <2>3 DEF LobbyInv
<1>3. PlayTypes
  <2>1. DOMAIN Arenas = {}
    BY DEF ArenaInit
  <2> QED
    BY <2>1, FS_EmptySet, ArenaAssumption DEF ArenaInit, PlayTypes
<1>4. MatchInv /\ OneMatch
  BY DEF ArenaInit, MatchInv, OneMatch, Made
<1> QED
  BY <1>1, <1>2, <1>3, <1>4 DEF AInv, PlayInv

\* What does not change keeps what it says.
LEMMA PartySame == PartyTyped /\ UNCHANGED partyVars => PartyTyped' /\ LeadersKept
  BY DEF PartyTyped, PartyTypeOK, MadeInv, partyVars, LeadersKept

LEMMA LobbySame ==
  LobbyInv /\ LeadersKept /\ UNCHANGED <<lobbyVars, crashed>> /\ stranded' \subseteq Parties0 => LobbyInv'
  BY DEF LobbyInv, LobbyTypes, LedInv, lobbyVars, LeadersKept, Parties0

LEMMA ForsakeTypes == ASSUME PartyTyped, LobbyInv, PlayInv, Forsake PROVE stranded' \subseteq Parties0
  BY PlayedTypes DEF PartyTyped, LobbyInv, LobbyTypes, PlayInv, Forsake, Parties0

LEMMA PlaySame == PlayInv /\ UNCHANGED matchVars => PlayInv'
  BY DEF PlayInv, PlayTypes, MatchInv, OneMatch, Playing, JudgedOnce, Players, Finished, Made, matchVars

LEMMA JoinLobbyKeeps == ASSUME AInv, NEW c \in Chars, JoinLobby(c) PROVE AInv'
<1>1. PartyTyped /\ LobbyInv /\ PlayInv
  BY DEF AInv
<1>2. PartyTyped' /\ PlayInv' /\ LeadersKept
  BY <1>1, PartySame, PlaySame DEF JoinLobby
<1>3. UNCHANGED Leader
  BY DEF JoinLobby, partyVars
<1>4. PICK p : p = FindParty(c)
  OBVIOUS
<1>5. /\ p # 0 /\ Leader[p] = c
      /\ Lobby' = IF Lobby[PartyID[c]] = 0 THEN [Lobby EXCEPT ![PartyID[c]] = p] ELSE Lobby
      /\ CreateSession(Lobby')
      /\ UNCHANGED <<LeaderAccept, AcceptedArena, crashed>>
  BY <1>4 DEF JoinLobby
<1>6. p \in PartyObjs /\ PartyID[c] \in Chars
  BY <1>1, <1>4, <1>5 DEF PartyTyped, PartyTypeOK, FindParty
<1>7. /\ Lobby' \in [Chars -> Parties0]
      /\ \A k \in Chars : Lobby'[k] # 0 => Leader[Lobby'[k]] \in Chars
  BY <1>1, <1>5, <1>6 DEF LobbyInv, LobbyTypes, LedInv, Parties0
<1>8. PICK lobby : lobby = Lobby'
  OBVIOUS
<1>9. CreateSession(lobby)
  BY <1>5, <1>8
<1>10. /\ ArenaFounded' \subseteq PartyObjs /\ stranded' \subseteq Parties0
       /\ \A i \in DOMAIN Queues' : Queues'[i] \in Queue
  BY <1>1, <1>7, <1>8, <1>9, CreateSessionTypes DEF LobbyInv, PartyTyped
<1>11. LobbyTypes'
  BY <1>1, <1>5, <1>7, <1>10 DEF LobbyInv, LobbyTypes
<1>12. LedInv'
  BY <1>3, <1>7 DEF LedInv
<1> QED
  BY <1>2, <1>11, <1>12 DEF AInv, LobbyInv

LEMMA AcceptArenaKeeps == ASSUME AInv, NEW c \in Chars, AcceptArena(c) PROVE AInv'
<1>1. PartyTyped /\ LobbyInv /\ PlayInv
  BY DEF AInv
<1>2. PartyTyped' /\ PlayInv' /\ LeadersKept
  BY <1>1, PartySame, PlaySame DEF AcceptArena
<1>3. PICK p : p = FindParty(c)
  OBVIOUS
<1>4. /\ p \in ArenaFounded
      /\ \/ LeaderAccept' = LeaderAccept \cup {p} /\ UNCHANGED AcceptedArena
         \/ c \in MembersOf(p) /\ AcceptedArena' = AcceptedArena \cup {Members[p][c]} /\ UNCHANGED LeaderAccept
      /\ UNCHANGED <<Lobby, ArenaFounded, Queues, crashed, stranded>>
  BY <1>3 DEF AcceptArena
<1>5. p \in PartyObjs
  BY <1>1, <1>4 DEF LobbyInv, LobbyTypes
<1>6. c \in MembersOf(p) => Members[p][c] \in MemberObjs
  BY <1>1, <1>5 DEF PartyTyped, PartyTypeOK, MembersOf
<1>7. LobbyTypes'
  BY <1>1, <1>4, <1>5, <1>6 DEF LobbyInv, LobbyTypes
<1>8. LedInv'
  BY <1>1, <1>2, <1>4, LedKept DEF LobbyInv
<1> QED
  BY <1>2, <1>7, <1>8 DEF AInv, LobbyInv

LEMMA TickQueueKeeps == ASSUME AInv, NEW i \in DOMAIN Queues, TickQueue(i) PROVE AInv'
<1>1. PartyTyped /\ LobbyInv /\ PlayInv
  BY DEF AInv
<1>2. PartyTyped' /\ LeadersKept
  BY <1>1, PartySame DEF TickQueue
<1>3. Queues[i] \in Queue
  BY <1>1 DEF LobbyInv, LobbyTypes
<1>4. CASE QueueLapses(i)
  <2>1. PICK a, b : a = Queues[i].party["A"] /\ b = Queues[i].party["B"]
    OBVIOUS
  <2>2. a \in Parties0 /\ b \in Parties0
    BY <1>3, <2>1, TwoTeams DEF Queue, Teams
  <2>3. /\ \E S : Lobby' = RemovePartyFromLobby(S)
        /\ ArenaFounded' \subseteq ArenaFounded
        /\ stranded' \subseteq stranded \cup {a, b}
        /\ RemoveQueue(i) /\ UNCHANGED <<matchVars, crashed>>
    BY <1>4, <2>1 DEF QueueLapses, DeleteTeamFromLobby
  <2>4. Lobby' \in [Chars -> Parties0] /\ \A k \in Chars : Lobby'[k] \in {0, Lobby[k]}
    BY <1>1, <2>3, RemoveTyped
  <2>5. LobbyTypes'
    BY <1>1, <2>2, <2>3, <2>4, RemoveQueueTypes DEF LobbyInv, LobbyTypes
  <2>6. LedInv'
    BY <1>1, <1>2, <2>4, LedKept
  <2> QED
    BY <1>1, <1>2, <2>3, <2>5, <2>6, PlaySame DEF AInv, LobbyInv
<1>5. CASE CreateArena(i)
  <2>1. /\ \E S : Lobby' = RemovePartyFromLobby(S)
        /\ crashed' \in BOOLEAN
        /\ RemoveQueue(i) /\ UNCHANGED ArenaFounded
    BY <1>5 DEF CreateArena
  <2>6. stranded' \subseteq Parties0
    <3>1. PICK q : q = Queues[i]
      OBVIOUS
    <3>2. stranded' = stranded \cup Abandoned(q) \cup Overwritten
      BY <1>5, <3>1 DEF CreateArena
    <3>3. Abandoned(q) \subseteq Parties0
      BY <1>3, <3>1 DEF Queue, Abandoned
    <3>4. Overwritten \subseteq Parties0
      BY <1>1, PlayedTypes DEF PartyTyped, PlayInv, PlayTypes, Parties0, Overwritten
    <3> QED
      BY <1>1, <3>2, <3>3, <3>4 DEF LobbyInv, LobbyTypes
  <2>2. Lobby' \in [Chars -> Parties0] /\ \A k \in Chars : Lobby'[k] \in {0, Lobby[k]}
    BY <1>1, <2>1, RemoveTyped
  <2>3. LobbyTypes'
    BY <1>1, <2>1, <2>2, <2>6, RemoveQueueTypes DEF LobbyInv, LobbyTypes
  <2>4. LedInv'
    BY <1>1, <1>2, <2>2, LedKept
  <2>5. PlayInv'
    BY <1>1, <1>3, <1>5, CreateArenaKeeps DEF Queue
  <2> QED
    BY <1>2, <2>3, <2>4, <2>5 DEF AInv, LobbyInv
<1>6. CASE QueueWaits(i)
  <2>1. /\ Queues[i].rest > 0 /\ Queues' = [Queues EXCEPT ![i].rest = @ - 1]
        /\ UNCHANGED <<Lobby, ArenaFounded, LeaderAccept, AcceptedArena, matchVars, crashed, stranded>>
    BY <1>6 DEF QueueWaits
  <2>2. PICK q : q = [Queues[i] EXCEPT !.rest = @ - 1]
    OBVIOUS
  <2>3. q \in Queue
    <3>1. Queues[i].rest - 1 \in 0..QueueTime
      BY <1>3, <2>1, ArenaAssumption DEF Queue
    <3> QED
      BY <1>3, <2>2, <3>1 DEF Queue
  <2>4. Queues' = [Queues EXCEPT ![i] = q]
    BY <2>1, <2>2
  <2>5. \A j \in DOMAIN Queues' : Queues'[j] \in Queue
    BY <1>1, <2>3, <2>4 DEF LobbyInv, LobbyTypes
  <2>6. LobbyTypes'
    BY <1>1, <2>1, <2>5 DEF LobbyInv, LobbyTypes
  <2>7. LedInv'
    BY <1>1, <1>2, <2>1, LedKept DEF LobbyInv
  <2> QED
    BY <1>1, <1>2, <2>1, <2>6, <2>7, PlaySame DEF AInv, LobbyInv
<1> QED
  BY <1>4, <1>5, <1>6 DEF TickQueue

LEMMA PlayKeeps == ASSUME AInv, ArenaPlay PROVE AInv'
<1>1. PartyTyped /\ LobbyInv /\ PlayInv /\ online \subseteq Chars
  BY DEF AInv, PartyTyped, PartyTypeOK
<1>2. ASSUME NEW i \in DOMAIN Arenas, TickArena(i) PROVE AInv'
  <2>1. PartyTyped' /\ LeadersKept
    BY <1>1, <1>2, PartySame DEF TickArena
  <2>2. PICK o : o = Arenas[i]
    OBVIOUS
  <2>3. o \in Matches /\ Made(o)
    BY <1>1, <1>2, <2>2 DEF PlayInv, PlayTypes
  <2>4. PICK dead \in SUBSET Teams, ahead \in {{"A"}, {"B"}, Teams} :
                /\ \A t \in Teams : match[o].team[t] = {} => t \in dead
                /\ \A t \in dead : ahead # {t}
                /\ Judge(o, dead, ahead)
    BY <1>2, <2>2 DEF TickArena
  <2>5. ~Finished(o) /\ UNCHANGED <<Lobby, LeaderAccept, AcceptedArena, Queues, Arenas, crashed, twice>>
    BY <1>2, <2>2 DEF TickArena
  <2>6. PlayInv'
    <3>1. UNCHANGED <<Arenas, twice>>
      BY <2>5
    <3>2. Second(o, dead, ahead)
      BY <2>4 DEF Second
    <3> QED
      BY <1>1, <2>3, <2>5, <3>1, <3>2, JudgeKeeps
  <2>7. ArenaFounded' \subseteq ArenaFounded
    BY <2>4 DEF Judge
  <2>10. stranded' \subseteq Parties0
    <3>1. stranded' \subseteq stranded \cup Mixed(match[o].team["A"]) \cup Mixed(match[o].team["B"])
      BY <2>4 DEF Judge
    <3>2. \A t \in Teams : Mixed(match[o].team[t]) \subseteq PartyObjs
      <4>1. match[o].team \in [Teams -> SUBSET Chars]
        BY <1>1, <2>3, MadeIs DEF PlayInv
      <4> QED
        BY <1>1, <4>1, FoundTypes DEF Mixed, PartyTyped
    <3> QED
      BY <1>1, <3>1, <3>2, TwoTeams DEF LobbyInv, LobbyTypes, Parties0
  <2>8. LobbyTypes'
    BY <1>1, <2>5, <2>7, <2>10 DEF LobbyInv, LobbyTypes
  <2>9. LedInv'
    BY <1>1, <2>1, <2>5, LedKept DEF LobbyInv
  <2> QED
    BY <2>1, <2>6, <2>8, <2>9 DEF AInv, LobbyInv
<1>3. ASSUME NEW o \in Matches, NextRound(o) \/ EndArena(o) PROVE AInv'
  <2>1. UNCHANGED <<partyVars, lobbyVars, crashed>>
    BY <1>3 DEF NextRound, EndArena
  <2>3. stranded' \subseteq Parties0
    <3>1. CASE NextRound(o)
      BY <1>1, <3>1 DEF NextRound, LobbyInv, LobbyTypes
    <3>2. CASE EndArena(o)
      <4>1. PICK S \in SUBSET Chars : stranded' \subseteq stranded \cup PartiesOf(S) \cup Discarded(o)
        BY <1>1, <3>2 DEF EndArena
      <4>2. PartiesOf(S) \subseteq Parties0
        BY <1>1, FoundTypes DEF PartyTyped, Parties0
      <4>3. Discarded(o) \subseteq Parties0
        BY <1>1, PlayedTypes DEF PartyTyped, PlayInv, PlayTypes, Discarded, Parties0
      <4> QED
        BY <1>1, <4>1, <4>2, <4>3 DEF LobbyInv, LobbyTypes
    <3> QED
      BY <1>3, <3>1, <3>2
  <2>2. PlayInv'
    BY <1>1, <1>3, NextRoundKeeps, EndArenaKeeps
  <2> QED
    BY <1>1, <2>1, <2>2, <2>3, PartySame, LobbySame DEF AInv
<1> QED
  BY <1>2, <1>3 DEF ArenaPlay

LEMMA ArenaLeaveKeeps == ASSUME AInv, ArenaLeave PROVE AInv'
<1>1. PartyTyped /\ LobbyInv /\ PlayInv
  BY DEF AInv
<1>2. ASSUME NEW c \in Chars, LeaveZone(c) PROVE AInv'
  <2>1. UNCHANGED <<partyVars, lobbyVars, Arenas, rounds, ends, crashed, twice>> /\ Desert(c)
    BY <1>2 DEF LeaveZone
  <2>2. stranded' \subseteq Parties0
    BY <1>1, <1>2, ForsakeTypes DEF LeaveZone
  <2>3. PartyTyped' /\ LeadersKept
    BY <1>1, <2>1, PartySame
  <2> QED
    BY <1>1, <2>1, <2>2, <2>3, LobbySame, DesertKeeps DEF AInv
<1>3. ASSUME NEW c \in Chars, LeavePartyAndLobby(c), online' \subseteq online, Forsake
      PROVE  PartyTyped' /\ LobbyInv' /\ UNCHANGED <<Arenas, rounds, ends, twice>>
  <2>1. /\ LeaveParty(c, InArena(c))
        /\ Lobby' = Lobby \/ \E S : Lobby' = RemovePartyFromLobby(S)
        /\ UNCHANGED <<ArenaFounded, LeaderAccept, AcceptedArena, Queues, Arenas, rounds, ends, crashed, twice>>
    BY <1>3 DEF LeavePartyAndLobby
  <2>7. stranded' \subseteq Parties0
    BY <1>1, <1>3, ForsakeTypes
  <2>2. InArena(c) \in BOOLEAN
    BY DEF InArena
  <2>3. PartyTyped' /\ LeadersKept
    BY <1>1, <1>3, <2>1, <2>2, LeavePartyTypes DEF PartyTyped
  <2>4. Lobby' \in [Chars -> Parties0] /\ \A k \in Chars : Lobby'[k] \in {0, Lobby[k]}
    BY <1>1, <2>1, RemoveTyped DEF LobbyInv, LobbyTypes
  <2>5. LobbyTypes'
    BY <1>1, <2>1, <2>4, <2>7 DEF LobbyInv, LobbyTypes
  <2>6. LedInv'
    BY <1>1, <2>3, <2>4, LedKept
  <2> QED
    BY <2>1, <2>3, <2>5, <2>6 DEF LobbyInv
<1>4. ASSUME NEW c \in Chars, QuitParty(c) PROVE AInv'
  <2>1. LeavePartyAndLobby(c) /\ UNCHANGED <<online, match, verdicts>> /\ Forsake
    BY <1>4 DEF QuitParty
  <2>2. PartyTyped' /\ LobbyInv' /\ UNCHANGED <<Arenas, rounds, ends, twice>>
    BY <1>3, <2>1
  <2> QED
    BY <1>1, <2>1, <2>2, PlaySame DEF AInv, matchVars
<1>5. ASSUME NEW c \in Chars, Logout(c) PROVE AInv'
  <2>1. LeavePartyAndLobby(c) /\ Desert(c) /\ online' \subseteq online /\ Forsake
    BY <1>5 DEF Logout
  <2>2. PartyTyped' /\ LobbyInv' /\ UNCHANGED <<Arenas, rounds, ends, twice>>
    BY <1>3, <2>1
  <2> QED
    BY <1>1, <2>1, <2>2, DesertKeeps DEF AInv
<1>6. ASSUME NEW c \in Chars, NEW m \in Chars, ExpelMember(c, m) PROVE AInv'
  <2>1. Expel(c, m) /\ UNCHANGED <<lobbyVars, matchVars, crashed>> /\ Forsake
    BY <1>6 DEF ExpelMember
  <2>2. PartyTyped' /\ LeadersKept
    BY <1>1, <2>1, ExpelTypes DEF PartyTyped
  <2>3. stranded' \subseteq Parties0
    BY <1>1, <2>1, ForsakeTypes
  <2> QED
    BY <1>1, <2>1, <2>2, <2>3, LobbySame, PlaySame DEF AInv
<1> QED
  BY <1>2, <1>4, <1>5, <1>6 DEF ArenaLeave

LEMMA ANextInv == AInv /\ [ArenaNext \/ Invitations]_<<partyVars, arenaVars>> => AInv'
<1> SUFFICES ASSUME AInv, [ArenaNext \/ Invitations]_<<partyVars, arenaVars>> PROVE AInv'
  OBVIOUS
<1>1. PartyTyped /\ LobbyInv /\ PlayInv
  BY DEF AInv
<1>2. UNCHANGED arenaVars => UNCHANGED <<lobbyVars, crashed>> /\ stranded' = stranded /\ UNCHANGED matchVars
  BY DEF arenaVars, lobbyVars, matchVars
<1>6. stranded \subseteq Parties0
  BY <1>1 DEF LobbyInv, LobbyTypes
<1>3. CASE Invitations
  <2>1. PartyTyped' /\ LeadersKept /\ UNCHANGED <<lobbyVars, matchVars, crashed>> /\ Forsake
    BY <1>1, <1>3, InvitationsTypes DEF PartyTyped, Invitations
  <2>2. stranded' \subseteq Parties0
    BY <1>1, <2>1, ForsakeTypes
  <2> QED
    BY <1>1, <2>1, <2>2, LobbySame, PlaySame DEF AInv
<1>4. CASE UNCHANGED <<partyVars, arenaVars>>
  BY <1>1, <1>2, <1>4, <1>6, PartySame, LobbySame, PlaySame DEF AInv
<1>5. CASE ArenaLobby
  BY <1>5, JoinLobbyKeeps, AcceptArenaKeeps, TickQueueKeeps DEF ArenaLobby
<1> QED
  BY <1>3, <1>4, <1>5, PlayKeeps, ArenaLeaveKeeps DEF ArenaNext

\* Whoever joins, accepts and leaves and however rounds end, parties, queues, matches and
\* their counters have their types, and what is counted of a match is bounded by its games.
THEOREM ArenaTyped == ArenaSpec => []TypeOK
<1>1. AInv => TypeOK
  <2> SUFFICES ASSUME AInv PROVE TypeOK
    OBVIOUS
  <2>1. PartyTypeOK /\ LobbyTypes /\ PlayTypes /\ MatchInv
    BY DEF AInv, PartyTyped, LobbyInv, PlayInv
  <2>2. ASSUME NEW o \in {m \in Matches : Made(m)}
        PROVE  match[o] \in [id : Nat, team : [Teams -> SUBSET Chars], wins : [Teams -> 0..MaxGames + 2],
                             game : 1..MaxGames + 3, left : 0..RoundTime, wait : BOOLEAN, result : Result]
    <3>1. match[o] \in MatchRec /\ match[o].wins \in [Teams -> Nat]
      BY <2>1, MadeIs
    <3>2. match[o].game \in 1..MaxGames + 3 /\ \A t \in Teams : match[o].wins[t] < match[o].game
      BY <2>1 DEF MatchInv, Playing
    <3>3. match[o].wins \in [Teams -> 0..MaxGames + 2]
      <4>1. \A t \in Teams : match[o].wins[t] \in 0..MaxGames + 2
        BY <3>1, <3>2, ArenaAssumption
      <4> QED
        BY <3>1, <4>1
    <3> QED
      BY <3>1, <3>2, <3>3 DEF MatchRec
  <2> QED
    BY <2>1, <2>2 DEF TypeOK, LobbyTypes, PlayTypes, Queue
<1> QED
  BY <1>1, AInit, ANextInv, PTL DEF ArenaSpec

\* In matches between any parties, of any number of rounds, whoever leaves them: a player
\* is judged once, unless he was in two at once, and who wins has won as many rounds as
\* the other team at least, or the other team has left.
THEOREM VerdictsAlwaysFair == ArenaSpec => []VerdictsAreFair
<1>1. AInv => VerdictsAreFair
  <2> SUFFICES ASSUME AInv, NEW o \in Matches
               PROVE  /\ \A c \in Chars \ twice : verdicts[o][c] <= 1
                      /\ Made(o) /\ match[o].result \in Teams =>
                            LET w == match[o].result IN
                            match[o].wins[w] >= match[o].wins[Other(w)] \/ match[o].team[Other(w)] = {}
    BY DEF VerdictsAreFair
  <2>1. IF Made(o) THEN Playing(o) /\ JudgedOnce(o) ELSE rounds[o] = 0 /\ \A c \in Chars : verdicts[o][c] = 0
    BY DEF AInv, PlayInv, MatchInv
  <2> QED
    BY <2>1 DEF Playing, JudgedOnce, Fair
<1> QED
  BY <1>1, AInit, ANextInv, PTL DEF ArenaSpec

----------------------------------------------------------------------------
(* Parties that a match was found for *)

\* A match that an end timer runs for is over: so the timer takes no match that goes on out
\* of the registry, but one that has got its ID.
EndedInv == \A o \in ends : Made(o) /\ Finished(o)
\* What is inductive together with AInv.
ServedInv == FoundedIsServed /\ EndedInv

\* Who plays in a match that goes on stays, when nothing of matches and parties changes.
LEMMA SamePlay ==
  UNCHANGED <<match, Arenas, PartyID, Parties>> => InPlay' = InPlay /\ (EndedInv /\ ends' = ends => EndedInv')
  BY DEF InPlay, PartiesIn, PartiesOf, Players, Finished, FindParty, EndedInv, Made

\* A party stays in a match that goes on, if one of its players does.
LEMMA PlaysOn ==
  ASSUME UNCHANGED <<PartyID, Parties>>, NEW i \in DOMAIN Arenas', NEW o, o = Arenas'[i], ~Finished(o)',
         NEW c, c \in Players(o)', NEW p, p = FindParty(c), p # 0
  PROVE  p \in InPlay'
<1>1. FindParty(c)' = p
  BY DEF FindParty
<1>2. p \in PartiesOf(Players(o))'
  BY <1>1 DEF PartiesOf
<1>3. p \in PartiesIn(o)'
  BY <1>2 DEF PartiesIn
<1> QED
  BY <1>3 DEF InPlay

\* A party that plays has a player in a registered match that goes on.
LEMMA PlayedBy ==
  ASSUME NEW p \in InPlay
  PROVE  \E i \in DOMAIN Arenas : \E o : /\ o = Arenas[i] /\ ~Finished(o) /\ p \in PartiesIn(o)
                                       /\ \E c \in Players(o) : p = FindParty(c) /\ p # 0
  BY DEF InPlay, PartiesIn, PartiesOf

\* The parties of the queues stay when the queues do.
LEMMA SameQueues == Queues' = Queues => InQueue' = InQueue
  BY DEF InQueue

\* A team whose members are all of one party is queued as that party.
LEMMA OnlyParty ==
  ASSUME NEW p, NEW x, PartiesOf(TeamOf(p)) = {x}, NEW a \in QueuedParty(p)
  PROVE  a = x
<1>1. Leader[p] \in TeamOf(p)
  BY DEF TeamOf
<1>2. PICK rest : rest = PartiesOf(TeamOf(p) \ {Leader[p]})
  OBVIOUS
<1>3. a \in IF rest # {} THEN rest ELSE IF FindParty(Leader[p]) # 0 THEN {FindParty(Leader[p])} ELSE {0}
  BY <1>2 DEF QueuedParty
<1>4. rest \subseteq {x}
  BY <1>2 DEF PartiesOf
<1>5. ASSUME FindParty(Leader[p]) # 0 PROVE FindParty(Leader[p]) = x
  BY <1>1, <1>5 DEF PartiesOf
<1>6. ASSUME rest = {} PROVE FindParty(Leader[p]) # 0
  BY <1>1, <1>2, <1>6 DEF PartiesOf
<1> QED
  BY <1>3, <1>4, <1>5, <1>6

\* A match that is found puts both parties in a queue; only the queue it replaces is lost.
LEMMA JoinLobbyServes ==
  ASSUME AInv, ServedInv, NEW c \in Chars, JoinLobby(c)
  PROVE  ServedInv'
<1>1. ~crashed /\ FoundedIsServed /\ EndedInv
  BY DEF ServedInv, JoinLobby
<1>2. InPlay' = InPlay /\ EndedInv'
  BY <1>1, SamePlay DEF JoinLobby, partyVars, matchVars
<1>3. PICK lobby : CreateSession(lobby)
  BY DEF JoinLobby
<1>4. ASSUME NEW x \in ArenaFounded', x \notin stranded' PROVE x \in InQueue' \cup InPlay'
  <2>1. CASE UNCHANGED <<ArenaFounded, Queues, stranded>>
    BY <1>1, <1>2, <1>4, <2>1, SameQueues DEF FoundedIsServed
  <2>2. CASE ~UNCHANGED <<ArenaFounded, Queues, stranded>>
    <3>1. PICK p, q :
          /\ ArenaFounded' = ArenaFounded \cup PartiesOf(TeamOf(p) \cup TeamOf(q))
          /\ \E a \in QueuedParty(p), b \in QueuedParty(q) :
                /\ Queues' = Put(Queues, Size(Queues), [party |-> Sides(a, b), team |-> Sides(TeamOf(p), TeamOf(q)),
                                                        rest |-> QueueTime])
                /\ stranded' = stranded \cup ((Mixed(TeamOf(p)) \cup Mixed(TeamOf(q))) \ {a, b}) \cup Replaced
      BY <1>3, <2>2 DEF CreateSession
    <3>2. PICK a \in QueuedParty(p), b \in QueuedParty(q) :
                /\ Queues' = Put(Queues, Size(Queues), [party |-> Sides(a, b), team |-> Sides(TeamOf(p), TeamOf(q)),
                                                        rest |-> QueueTime])
                /\ stranded' = stranded \cup ((Mixed(TeamOf(p)) \cup Mixed(TeamOf(q))) \ {a, b}) \cup Replaced
      BY <3>1
    <3>3. PICK s, r : s = Size(Queues)
                      /\ r = [party |-> Sides(a, b), team |-> Sides(TeamOf(p), TeamOf(q)), rest |-> QueueTime]
      OBVIOUS
    <3>4. /\ DOMAIN Queues' = DOMAIN Queues \cup {s} /\ Queues'[s] = r
          /\ \A i \in DOMAIN Queues : i # s => Queues'[i] = Queues[i]
      BY <3>2, <3>3 DEF Put
    <3>5. r.party["A"] = a /\ r.party["B"] = b
      BY <3>3 DEF Sides, Teams
    <3>6. a \in InQueue' /\ b \in InQueue'
      BY <3>4, <3>5 DEF InQueue, Teams
    <3>7. CASE x \in ArenaFounded
      <4>1. x \in InQueue \cup InPlay
        BY <1>1, <1>4, <3>2, <3>7 DEF FoundedIsServed
      <4>2. CASE x \in InQueue
        <5>1. PICK i \in DOMAIN Queues, t \in Teams : x = Queues[i].party[t]
          BY <4>2 DEF InQueue
        <5>2. i # s
          BY <1>4, <3>2, <3>3, <5>1 DEF Replaced
        <5> QED
          BY <3>4, <5>1, <5>2 DEF InQueue
      <4> QED
        BY <1>2, <4>1, <4>2
    <3>8. CASE x \in PartiesOf(TeamOf(p) \cup TeamOf(q))
      <4>1. x \in PartiesOf(TeamOf(p)) \/ x \in PartiesOf(TeamOf(q))
        BY <3>8 DEF PartiesOf
      <4>2. CASE x \in {a, b}
        BY <3>6, <4>2
      <4>3. CASE x \notin {a, b}
        <5>1. x \notin Mixed(TeamOf(p)) /\ x \notin Mixed(TeamOf(q))
          BY <1>4, <3>2, <4>3
        <5>2. PartiesOf(TeamOf(p)) = {x} \/ PartiesOf(TeamOf(q)) = {x}
          BY <4>1, <5>1 DEF Mixed
        <5> QED
          BY <4>3, <5>2, OnlyParty
      <4> QED
        BY <4>2, <4>3
    <3> QED
      BY <1>4, <3>1, <3>7, <3>8
  <2> QED
    BY <2>1, <2>2
<1> QED
  BY <1>2, <1>4 DEF ServedInv, FoundedIsServed

\* An answer moves no party.
LEMMA AcceptArenaServes ==
  ASSUME AInv, ServedInv, NEW c \in Chars, AcceptArena(c)
  PROVE  ServedInv'
<1>1. /\ FoundedIsServed /\ EndedInv
      /\ UNCHANGED <<match, Arenas, PartyID, Parties, ends, Queues, ArenaFounded, stranded, crashed>>
  BY DEF ServedInv, AcceptArena, partyVars, matchVars
<1>2. InPlay' = InPlay /\ EndedInv' /\ InQueue' = InQueue
  BY <1>1, SamePlay, SameQueues
<1> QED
  BY <1>1, <1>2 DEF ServedInv, FoundedIsServed

\* The end of a queue takes its own parties out only.
LEMMA QueueGone ==
  ASSUME NEW i \in DOMAIN Queues, RemoveQueue(i), NEW x \in InQueue, x \notin {Queues[i].party[t] : t \in Teams}
  PROVE  x \in InQueue'
<1>1. PICK j \in DOMAIN Queues, t \in Teams : x = Queues[j].party[t]
  BY DEF InQueue
<1>2. j # i
  BY <1>1
<1>3. j \in DOMAIN Queues' /\ Queues'[j] = Queues[j]
  BY <1>2 DEF RemoveQueue, Without
<1> QED
  BY <1>1, <1>3 DEF InQueue

\* A queue that ran out frees its parties, or strands them when all had accepted.
LEMMA QueueLapsesServes ==
  ASSUME AInv, ServedInv, NEW i \in DOMAIN Queues, ~crashed, QueueLapses(i), UNCHANGED partyVars
  PROVE  ServedInv'
<1>1. FoundedIsServed /\ EndedInv
  BY DEF ServedInv
<1>2. InPlay' = InPlay /\ EndedInv'
  BY <1>1, SamePlay DEF QueueLapses, partyVars, matchVars
<1>3. PICK a, b : a = Queues[i].party["A"] /\ b = Queues[i].party["B"]
  OBVIOUS
<1>4. /\ RemoveQueue(i)
      /\ \/ ArenaFounded' = ArenaFounded \ {a, b} /\ stranded' = stranded
         \/ ArenaFounded' = ArenaFounded /\ stranded' = stranded \cup {a, b}
  BY <1>3 DEF QueueLapses, DeleteTeamFromLobby
<1>5. {Queues[i].party[t] : t \in Teams} = {a, b}
  BY <1>3 DEF Teams
<1>6. ASSUME NEW x \in ArenaFounded', x \notin stranded' PROVE x \in InQueue' \cup InPlay'
  <2>1. x \notin {a, b} /\ x \in ArenaFounded /\ x \notin stranded
    BY <1>4, <1>6
  <2>2. x \in InQueue \cup InPlay
    BY <1>1, <2>1 DEF FoundedIsServed
  <2> QED
    BY <1>2, <1>4, <1>5, <2>1, <2>2, QueueGone
<1> QED
  BY <1>2, <1>6 DEF ServedInv, FoundedIsServed

\* A tick moves no party.
LEMMA QueueWaitsServes ==
  ASSUME AInv, ServedInv, NEW i \in DOMAIN Queues, QueueWaits(i), UNCHANGED partyVars
  PROVE  ServedInv'
<1>1. /\ FoundedIsServed /\ EndedInv /\ Queues' = [Queues EXCEPT ![i].rest = @ - 1]
      /\ UNCHANGED <<match, Arenas, PartyID, Parties, ends, ArenaFounded, stranded, crashed>>
  BY DEF ServedInv, QueueWaits, partyVars, matchVars
<1>2. InPlay' = InPlay /\ EndedInv'
  BY <1>1, SamePlay
<1>3. PICK r : r = [Queues[i] EXCEPT !.rest = @ - 1]
  OBVIOUS
<1>4. r.party = Queues[i].party
  BY <1>3 DEF AInv, LobbyInv, LobbyTypes, Queue
<1>5. Queues' = [Queues EXCEPT ![i] = r]
  BY <1>1, <1>3
<1>6. InQueue' = InQueue
  BY <1>4, <1>5 DEF InQueue
<1> QED
  BY <1>1, <1>2, <1>6 DEF ServedInv, FoundedIsServed

\* The parties of the queue come to play, and who plays goes on, but in a replaced match.
LEMMA CreateArenaServes ==
  ASSUME AInv, ServedInv, NEW i \in DOMAIN Queues, ~crashed, CreateArena(i), UNCHANGED partyVars
  PROVE  ServedInv'
<1>1. FoundedIsServed /\ EndedInv /\ PlayInv /\ PlayTypes /\ Queues[i] \in Queue
  BY DEF ServedInv, AInv, PlayInv, LobbyInv, LobbyTypes
<1>2. PICK q : q = Queues[i]
  OBVIOUS
<1>3. q.team \in [Teams -> SUBSET Chars] /\ q.party \in [Teams -> Parties0]
  BY <1>1, <1>2 DEF Queue
<1>4. /\ RemoveQueue(i) /\ ArenaFounded' = ArenaFounded
      /\ stranded' = stranded \cup Abandoned(q) \cup Overwritten
      /\ UNCHANGED <<PartyID, Parties>>
  BY <1>2 DEF CreateArena, partyVars
<1>5. PICK o \in Matches : /\ ~Made(o) /\ Arenas' = Put(Arenas, NextArenaID, o) /\ ~Finished(o)'
                          /\ Players(o)' = q.team["A"] \cup q.team["B"]
  BY <1>1, <1>2, <1>3, CreateArenaKeeps
<1>6. ends' = ends /\ \A m \in Matches : Made(m) => GoesOn(m) /\ Players(m)' = Players(m)
  BY <1>1, <1>2, <1>3, CreateArenaKeeps
<1>7. EndedInv'
  BY <1>1, <1>6 DEF EndedInv, GoesOn, PlayTypes
<1>8. PICK id : id = NextArenaID
  OBVIOUS
<1>9. /\ DOMAIN Arenas' = DOMAIN Arenas \cup {id} /\ Arenas'[id] = o
      /\ \A j \in DOMAIN Arenas : j # id => Arenas'[j] = Arenas[j]
  BY <1>5, <1>8 DEF Put
<1>10. ASSUME NEW x \in ArenaFounded', x \notin stranded' PROVE x \in InQueue' \cup InPlay'
  <2>1. x \in ArenaFounded /\ x \in InQueue \cup InPlay /\ x \notin Abandoned(q) /\ x \notin Overwritten
    BY <1>1, <1>4, <1>10 DEF FoundedIsServed
  <2>2. x # 0
    BY <2>1 DEF AInv, LobbyInv, LobbyTypes, PartyObjs
  <2>3. CASE x \in {q.party[t] : t \in Teams}
    <3>1. PICK t \in Teams : x = q.party[t]
      BY <2>3
    <3>2. x \in PartiesOf(q.team[t])
      BY <2>1, <3>1 DEF Abandoned
    <3>3. PICK c \in q.team[t] : x = FindParty(c)
      BY <3>2 DEF PartiesOf
    <3>4. c \in Players(o)'
      BY <1>5, <3>3, TwoTeams
    <3> QED
      BY <1>4, <1>5, <1>9, <2>2, <3>3, <3>4, PlaysOn
  <2>4. CASE x \in InQueue /\ x \notin {q.party[t] : t \in Teams}
    BY <1>2, <1>4, <2>4, QueueGone
  <2>5. CASE x \in InPlay
    <3>0. PICK j \in DOMAIN Arenas : \E m : /\ m = Arenas[j] /\ ~Finished(m) /\ x \in PartiesIn(m)
                                            /\ \E c \in Players(m) : x = FindParty(c) /\ x # 0
      BY <2>5, PlayedBy
    <3>1. PICK m : /\ m = Arenas[j] /\ ~Finished(m) /\ x \in PartiesIn(m)
                   /\ \E c \in Players(m) : x = FindParty(c) /\ x # 0
      BY <3>0
    <3>2. j # id
      BY <1>8, <2>1, <3>1 DEF Overwritten
    <3>3. m \in Matches /\ Made(m)
      BY <1>1, <3>1 DEF PlayTypes
    <3>4. ~Finished(m)' /\ Players(m)' = Players(m)
      BY <1>6, <3>1, <3>3 DEF GoesOn
    <3>5. j \in DOMAIN Arenas' /\ m = Arenas'[j]
      BY <1>9, <3>1, <3>2
    <3>6. PICK c \in Players(m)' : x = FindParty(c) /\ x # 0
      BY <3>1, <3>4
    <3> QED
      BY <1>4, <3>4, <3>5, <3>6, PlaysOn
  <2> QED
    BY <2>1, <2>3, <2>4, <2>5
<1> QED
  BY <1>7, <1>10 DEF ServedInv, FoundedIsServed

\* A second of a match: a verdict frees the parties, or strands those of mixed teams.
LEMMA TickArenaServes ==
  ASSUME AInv, ServedInv, NEW i \in DOMAIN Arenas, TickArena(i)
  PROVE  ServedInv'
<1>1. FoundedIsServed /\ EndedInv /\ PlayInv /\ PlayTypes /\ ~crashed
  BY DEF ServedInv, AInv, PlayInv, TickArena
<1>2. PICK o : o = Arenas[i]
  OBVIOUS
<1>3. o \in Matches /\ Made(o) /\ ~Finished(o)
  BY <1>1, <1>2 DEF PlayTypes, TickArena
<1>4. UNCHANGED <<PartyID, Parties, Queues, Arenas, twice>>
  BY DEF TickArena, partyVars
<1>5. \E dead, ahead : Second(o, dead, ahead)
  BY <1>2 DEF TickArena, Second
<1>6. /\ \A m \in Matches : Made(m) => Made(m)' /\ Players(m)' = Players(m) /\ (m # o => GoesOn(m))
      /\ ArenaFounded' \subseteq ArenaFounded /\ stranded \subseteq stranded'
      /\ IF Finished(o)' THEN ends' = ends \cup {o} /\ \A p \in PartiesIn(o) : p \in stranded' \/ p \notin ArenaFounded'
                        ELSE ends' = ends
  BY <1>1, <1>3, <1>4, <1>5, JudgeKeeps
<1>7. EndedInv'
  <2>1. \A m \in ends : m \in Matches /\ Made(m) /\ Finished(m) /\ m # o
    BY <1>1, <1>3 DEF EndedInv, PlayTypes
  <2>2. \A m \in ends : Made(m)' /\ Finished(m)'
    BY <1>6, <2>1 DEF GoesOn
  <2>3. Made(o)'
    BY <1>3, <1>6
  <2> QED
    BY <1>6, <2>2, <2>3 DEF EndedInv
<1>8. ASSUME NEW x \in ArenaFounded', x \notin stranded' PROVE x \in InQueue' \cup InPlay'
  <2>1. x \in InQueue \cup InPlay
    BY <1>1, <1>6, <1>8 DEF FoundedIsServed
  <2>2. CASE x \in InQueue
    BY <1>4, <2>2, SameQueues
  <2>3. CASE x \in InPlay
    <3>0. PICK j \in DOMAIN Arenas : \E m : /\ m = Arenas[j] /\ ~Finished(m) /\ x \in PartiesIn(m)
                                            /\ \E c \in Players(m) : x = FindParty(c) /\ x # 0
      BY <2>3, PlayedBy
    <3>1. PICK m : /\ m = Arenas[j] /\ ~Finished(m) /\ x \in PartiesIn(m)
                   /\ \E c \in Players(m) : x = FindParty(c) /\ x # 0
      BY <3>0
    <3>2. m \in Matches /\ Made(m)
      BY <1>1, <3>1 DEF PlayTypes
    <3>3. ~Finished(m)'
      BY <1>6, <1>8, <3>1, <3>2 DEF GoesOn
    <3>4. j \in DOMAIN Arenas' /\ m = Arenas'[j]
      BY <1>4, <3>1
    <3>5. PICK c \in Players(m)' : x = FindParty(c) /\ x # 0
      BY <1>6, <3>1, <3>2
    <3> QED
      BY <1>4, <3>3, <3>4, <3>5, PlaysOn
  <2> QED
    BY <2>1, <2>2, <2>3
<1> QED
  BY <1>7, <1>8 DEF ServedInv, FoundedIsServed

\* The next round changes no player of any match.
LEMMA NextRoundServes ==
  ASSUME AInv, ServedInv, NEW o \in Matches, NextRound(o)
  PROVE  ServedInv'
<1>1. FoundedIsServed /\ EndedInv /\ PlayInv /\ PlayTypes /\ ~crashed
  BY DEF ServedInv, AInv, PlayInv, NextRound
<1>2. UNCHANGED <<PartyID, Parties, Queues, Arenas, ends, ArenaFounded, stranded>>
  BY DEF NextRound, partyVars, lobbyVars
<1>3. \A m \in Matches : Made(m) => GoesOn(m) /\ Players(m)' = Players(m)
  BY <1>1, NextRoundKeeps
<1>4. EndedInv'
  BY <1>1, <1>2, <1>3 DEF EndedInv, GoesOn, PlayTypes
<1>5. ASSUME NEW x \in InPlay PROVE x \in InPlay'
  <2>0. PICK j \in DOMAIN Arenas : \E m : /\ m = Arenas[j] /\ ~Finished(m) /\ x \in PartiesIn(m)
                                          /\ \E c \in Players(m) : x = FindParty(c) /\ x # 0
    BY <1>5, PlayedBy
  <2>1. PICK m : /\ m = Arenas[j] /\ ~Finished(m) /\ x \in PartiesIn(m)
                 /\ \E c \in Players(m) : x = FindParty(c) /\ x # 0
    BY <2>0
  <2>2. m \in Matches /\ Made(m)
    BY <1>1, <2>1 DEF PlayTypes
  <2>3. ~Finished(m)' /\ Players(m)' = Players(m) /\ j \in DOMAIN Arenas' /\ m = Arenas'[j]
    BY <1>2, <1>3, <2>1, <2>2 DEF GoesOn
  <2>4. PICK c \in Players(m)' : x = FindParty(c) /\ x # 0
    BY <2>1, <2>3
  <2> QED
    BY <1>2, <2>3, <2>4, PlaysOn
<1> QED
  BY <1>1, <1>2, <1>4, <1>5, SameQueues DEF ServedInv, FoundedIsServed

\* The end of a match takes a match that goes on from a party only when it strikes its
\* players, or when that match has the ended one's ID.
LEMMA EndArenaServes ==
  ASSUME AInv, ServedInv, NEW o \in Matches, EndArena(o)
  PROVE  ServedInv'
<1>1. FoundedIsServed /\ EndedInv /\ PlayInv /\ PlayTypes /\ ~crashed /\ online \subseteq Chars
  BY DEF ServedInv, AInv, PlayInv, EndArena, PartyTyped, PartyTypeOK
<1>2. /\ o \in ends /\ ends' = ends \ {o} /\ Arenas' = Without(Arenas, match[o].id)
      /\ UNCHANGED <<PartyID, Parties, Queues, ArenaFounded>>
  BY DEF EndArena, partyVars, lobbyVars
<1>0. PICK S \in SUBSET Chars : \E g \in [S -> Matches] :
               /\ stranded' = stranded \cup ((PartiesOf(S) \cup Discarded(o)) \ InPlay')
               /\ Struck(S, g)
  BY <1>1, EndArenaKeeps
<1>3. PICK g \in [S -> Matches] :
               /\ stranded' = stranded \cup ((PartiesOf(S) \cup Discarded(o)) \ InPlay')
               /\ Struck(S, g)
  BY <1>0
<1>4. \A m \in Matches : Made(m) => GoesOn(m) /\ Players(m)' = Players(m) \ {c \in S : g[c] = m}
  BY <1>3 DEF Struck
<1>5. EndedInv'
  BY <1>1, <1>2, <1>4 DEF EndedInv, GoesOn, PlayTypes
<1>6. ASSUME NEW x \in InPlay, x \notin stranded' PROVE x \in InPlay'
  <2>0. PICK j \in DOMAIN Arenas : \E m : /\ m = Arenas[j] /\ ~Finished(m) /\ x \in PartiesIn(m)
                                          /\ \E c \in Players(m) : x = FindParty(c) /\ x # 0
    BY <1>6, PlayedBy
  <2>1. PICK m : /\ m = Arenas[j] /\ ~Finished(m) /\ x \in PartiesIn(m)
                 /\ \E c \in Players(m) : x = FindParty(c) /\ x # 0
    BY <2>0
  <2>2. m \in Matches /\ Made(m)
    BY <1>1, <2>1 DEF PlayTypes
  <2>3. PICK c \in Players(m) : x = FindParty(c) /\ x # 0
    BY <2>1
  <2>4. CASE j = match[o].id
    <3>1. m # o
      BY <1>1, <1>2, <2>1 DEF EndedInv
    <3>2. x \in Discarded(o)
      BY <2>1, <2>4, <3>1 DEF Discarded
    <3> QED
      BY <1>3, <1>6, <3>2
  <2>5. CASE j # match[o].id
    <3>1. j \in DOMAIN Arenas' /\ m = Arenas'[j]
      BY <1>2, <2>1, <2>5 DEF Without
    <3>2. ~Finished(m)'
      BY <1>4, <2>1, <2>2 DEF GoesOn
    <3>3. CASE c \in Players(m)'
      BY <1>2, <2>3, <3>1, <3>2, <3>3, PlaysOn
    <3>4. CASE c \notin Players(m)'
      <4>1. c \in S
        BY <1>4, <2>2, <2>3, <3>4
      <4>2. x \in PartiesOf(S)
        BY <2>3, <4>1 DEF PartiesOf
      <4> QED
        BY <1>3, <1>6, <4>2
    <3> QED
      BY <3>3, <3>4
  <2> QED
    BY <2>4, <2>5
<1>7. stranded \subseteq stranded'
  BY <1>3
<1>8. InQueue' = InQueue
  BY <1>2, SameQueues
<1>9. ASSUME NEW x \in ArenaFounded', x \notin stranded' PROVE x \in InQueue' \cup InPlay'
  BY <1>1, <1>2, <1>6, <1>7, <1>8, <1>9 DEF FoundedIsServed
<1> QED
  BY <1>5, <1>9 DEF ServedInv, FoundedIsServed

\* Players who leave take their parties out of play.
LEMMA ForsakeServes ==
  ASSUME AInv, ServedInv, Forsake, UNCHANGED <<Queues, ArenaFounded, crashed, ends>>,
         \A m \in Matches : Made(m) => GoesOn(m)
  PROVE  ServedInv'
<1>1. FoundedIsServed /\ EndedInv /\ PlayTypes
  BY DEF ServedInv, AInv, PlayInv
<1>2. EndedInv'
  BY <1>1 DEF EndedInv, GoesOn, PlayTypes
<1>3. InQueue' = InQueue /\ stranded' = stranded \cup (InPlay \ InPlay')
  BY SameQueues DEF Forsake
<1> QED
  BY <1>1, <1>2, <1>3 DEF ServedInv, FoundedIsServed

LEMMA SameGoesOn == match' = match => \A m \in Matches : Made(m) => GoesOn(m)
  BY DEF GoesOn, Made, Finished

LEMMA LeaveServes ==
  ASSUME AInv, ServedInv, ArenaLeave
  PROVE  ServedInv'
<1>1. PlayInv
  BY DEF AInv
<1>2. ASSUME NEW c \in Chars, LeaveZone(c) PROVE ServedInv'
  <2>1. /\ Desert(c) /\ UNCHANGED <<Arenas, rounds, ends, twice>> /\ UNCHANGED <<Queues, ArenaFounded, crashed, ends>>
        /\ Forsake
    BY <1>2 DEF LeaveZone, lobbyVars
  <2> QED
    BY <1>1, <2>1, DesertKeeps, ForsakeServes
<1>3. ASSUME NEW c \in Chars, QuitParty(c) PROVE ServedInv'
  <2>1. match' = match /\ UNCHANGED <<Queues, ArenaFounded, crashed, ends>> /\ Forsake
    BY <1>3 DEF QuitParty, LeavePartyAndLobby
  <2> QED
    BY <2>1, SameGoesOn, ForsakeServes
<1>4. ASSUME NEW c \in Chars, Logout(c) PROVE ServedInv'
  <2>1. /\ Desert(c) /\ UNCHANGED <<Arenas, rounds, ends, twice>> /\ UNCHANGED <<Queues, ArenaFounded, crashed, ends>>
        /\ Forsake
    BY <1>4 DEF Logout, LeavePartyAndLobby
  <2> QED
    BY <1>1, <2>1, DesertKeeps, ForsakeServes
<1>5. ASSUME NEW c \in Chars, NEW m \in Chars, ExpelMember(c, m) PROVE ServedInv'
  <2>1. match' = match /\ UNCHANGED <<Queues, ArenaFounded, crashed, ends>> /\ Forsake
    BY <1>5 DEF ExpelMember, lobbyVars, matchVars
  <2> QED
    BY <2>1, SameGoesOn, ForsakeServes
<1> QED
  BY <1>2, <1>3, <1>4, <1>5 DEF ArenaLeave

LEMMA ANextServes ==
  ASSUME AInv, ServedInv, [ArenaNext \/ Invitations]_<<partyVars, arenaVars>>
  PROVE  ServedInv'
<1>1. CASE ArenaLobby
  <2>1. ASSUME NEW c \in Chars, JoinLobby(c) \/ AcceptArena(c) PROVE ServedInv'
    BY <2>1, JoinLobbyServes, AcceptArenaServes
  <2>2. ASSUME NEW i \in DOMAIN Queues, TickQueue(i) PROVE ServedInv'
    <3>1. ~crashed /\ UNCHANGED partyVars /\ (QueueLapses(i) \/ CreateArena(i) \/ QueueWaits(i))
      BY <2>2 DEF TickQueue
    <3> QED
      BY <3>1, QueueLapsesServes, CreateArenaServes, QueueWaitsServes
  <2> QED
    BY <1>1, <2>1, <2>2 DEF ArenaLobby
<1>2. CASE ArenaPlay
  BY <1>2, TickArenaServes, NextRoundServes, EndArenaServes DEF ArenaPlay
<1>3. CASE Invitations
  <2>1. match' = match /\ UNCHANGED <<Queues, ArenaFounded, crashed, ends>> /\ Forsake
    BY <1>3 DEF Invitations, lobbyVars, matchVars
  <2> QED
    BY <2>1, SameGoesOn, ForsakeServes
<1>4. CASE UNCHANGED <<partyVars, arenaVars>>
  <2>1. /\ FoundedIsServed /\ EndedInv
        /\ UNCHANGED <<match, Arenas, PartyID, Parties, ends, Queues, ArenaFounded, stranded, crashed>>
    BY <1>4 DEF ServedInv, partyVars, arenaVars
  <2>2. InPlay' = InPlay /\ EndedInv' /\ InQueue' = InQueue
    BY <2>1, SamePlay, SameQueues
  <2> QED
    BY <2>1, <2>2 DEF ServedInv, FoundedIsServed
<1> QED
  BY <1>1, <1>2, <1>3, <1>4, LeaveServes DEF ArenaNext

\* A party for which a match was found, of any number of members, in any number of queues
\* and matches, is in a queue, or has a player in a match that goes on, or it is among the
\* stranded; and a verdict, or a queue that is not accepted, frees it.
THEOREM FoundedAlwaysServed == ArenaSpec => []FoundedIsServed
<1>1. PartyInit /\ ArenaInit => AInv /\ ServedInv
  BY AInit DEF ArenaInit, ServedInv, EndedInv, FoundedIsServed
<1>2. AInv /\ ServedInv /\ [ArenaNext \/ Invitations]_<<partyVars, arenaVars>> => AInv' /\ ServedInv'
  BY ANextInv, ANextServes
<1>3. ServedInv => FoundedIsServed
  BY DEF ServedInv
<1> QED
  BY <1>1, <1>2, <1>3, PTL DEF ArenaSpec

----------------------------------------------------------------------------
(* Guilds: types *)

\* Lists of members, and what a handler may be at.
Rolls == UNION {[S -> Ranks] : S \in SUBSET People}
ClerkStates == [op : {"idle", "name", "insert", "data", "answer", "expel", "dissolve"},
                who : People \cup {NoGuild}, other : People \cup {NoGuild},
                guild : GuildIDs \cup {NoGuild}, left : SUBSET People]
GTypeOK ==
    /\ guildOf \in [People -> GuildIDs \cup {NoGuild}]
    /\ rolls \in [GuildIDs -> Rolls] /\ rollRow \in [GuildIDs -> Rolls]
    /\ leader \in [GuildIDs -> People \cup {NoGuild}]
    /\ founded \subseteq GuildIDs /\ gone \subseteq People /\ due \subseteq GuildIDs
    /\ clerk \in [Clerks -> ClerkStates]
    /\ writes \subseteq GuildIDs \X Rolls
    /\ strays \subseteq People /\ crossed \subseteq GuildIDs
\* Who waits is at something that names a character, and a guild that was founded.
ClerkInv == \A k \in Clerks :
    /\ clerk[k].op = "idle" => clerk[k] = Idle
    /\ clerk[k].op # "idle" => clerk[k].who \in People
    /\ clerk[k].op \in {"insert", "data", "expel", "dissolve"} => clerk[k].guild \in founded
    /\ clerk[k].op = "answer" => clerk[k].other \in People
\* Guilds there are, and those that are or will be written, were founded.
FoundedInv ==
    /\ \A g \in GuildIDs : Exists(g) => g \in founded
    /\ due \subseteq founded /\ \A w \in writes : w[1] \in founded
GTypes == GTypeOK /\ ClerkInv /\ FoundedInv

LEMMA EmptyRoll == NoRoll \in Rolls /\ DOMAIN NoRoll = {}
<1>1. DOMAIN NoRoll = {} /\ NoRoll = [m \in {} |-> LEADER]
  BY DEF NoRoll
<1>2. NoRoll \in [{} -> Ranks]
  BY <1>1
<1> QED
  BY <1>1, <1>2 DEF Rolls

LEMMA FirstRoll ==
  ASSUME NEW c \in People
  PROVE  [d \in {c} |-> LEADER] \in Rolls /\ DOMAIN [d \in {c} |-> LEADER] = {c}
<1>1. [d \in {c} |-> LEADER] \in [{c} -> Ranks]
  BY GuildAssumption
<1> QED
  BY <1>1 DEF Rolls

\* What the three changes of a list make of the lists.
LEMMA RollsChange ==
  ASSUME GTypeOK, NEW g \in GuildIDs, NEW c \in People
  PROVE  /\ AddMember(g, c) \in [GuildIDs -> Rolls]
         /\ \A h \in GuildIDs, d \in People : d \in DOMAIN AddMember(g, c)[h] <=> d \in DOMAIN rolls[h] \/ (h = g /\ d = c)
         /\ \A h \in GuildIDs \ {g} : AddMember(g, c)[h] = rolls[h]
         /\ DropMember(g, c) \in [GuildIDs -> Rolls]
         /\ \A h \in GuildIDs, d \in People : d \in DOMAIN DropMember(g, c)[h] <=> d \in DOMAIN rolls[h] /\ ~(h = g /\ d = c)
         /\ \A h \in GuildIDs \ {g} : DropMember(g, c)[h] = rolls[h]
<1>0. PICK S \in SUBSET People : rolls[g] \in [S -> Ranks]
  BY DEF GTypeOK, Rolls
<1>1. PICK a : a = [m \in DOMAIN rolls[g] \cup {c} |-> IF m \in DOMAIN rolls[g] THEN rolls[g][m] ELSE MEMBER]
  OBVIOUS
<1>2. a \in [S \cup {c} -> Ranks]
  BY <1>0, <1>1, GuildAssumption
<1>3. AddMember(g, c) = [rolls EXCEPT ![g] = a]
  BY <1>1 DEF AddMember
<1>4. PICK b : b = [m \in DOMAIN rolls[g] \ {c} |-> rolls[g][m]]
  OBVIOUS
<1>5. b \in [S \ {c} -> Ranks]
  BY <1>0, <1>4
<1>6. DropMember(g, c) = [rolls EXCEPT ![g] = b]
  BY <1>4 DEF DropMember
<1>7. a \in Rolls /\ b \in Rolls
  BY <1>2, <1>5 DEF Rolls
<1>8. DOMAIN a = DOMAIN rolls[g] \cup {c} /\ DOMAIN b = DOMAIN rolls[g] \ {c}
  BY <1>0, <1>2, <1>5
<1>9. rolls \in [GuildIDs -> Rolls]
  BY DEF GTypeOK
<1> QED
  BY <1>3, <1>6, <1>7, <1>8, <1>9

LEMMA RoleChange ==
  ASSUME GTypeOK, NEW g \in GuildIDs, NEW m \in DOMAIN rolls[g], NEW r \in Ranks, NEW R, R = [rolls EXCEPT ![g][m] = r]
  PROVE  /\ R \in [GuildIDs -> Rolls] /\ \A h \in GuildIDs : DOMAIN R[h] = DOMAIN rolls[h]
         /\ \A h \in GuildIDs \ {g} : R[h] = rolls[h]
<1>1. PICK S \in SUBSET People : rolls[g] \in [S -> Ranks]
  BY DEF GTypeOK, Rolls
<1>2. PICK a : a = [rolls[g] EXCEPT ![m] = r]
  OBVIOUS
<1>3. a \in [S -> Ranks]
  BY <1>1, <1>2
<1>4. R = [rolls EXCEPT ![g] = a]
  BY <1>2
<1>5. a \in Rolls /\ DOMAIN a = DOMAIN rolls[g]
  BY <1>1, <1>3 DEF Rolls
<1>6. rolls \in [GuildIDs -> Rolls]
  BY DEF GTypeOK
<1> QED
  BY <1>4, <1>5, <1>6

\* One handler goes on, and the others are at what they were at.
LEMMA ClerkStep ==
  ASSUME GTypeOK, NEW k \in Clerks, NEW v \in ClerkStates, clerk' = [clerk EXCEPT ![k] = v]
  PROVE  /\ clerk' \in [Clerks -> ClerkStates] /\ clerk'[k] = v
         /\ \A l \in Clerks \ {k} : clerk'[l] = clerk[l]
  BY DEF GTypeOK

\* The handlers that are called, and what they are at then.
Calls(k, v, c) ==
    /\ clerk[k] = Idle /\ clerk' = [clerk EXCEPT ![k] = v] /\ v \in ClerkStates /\ c \in Present
    /\ v.who = c /\ v.op \in {"name", "answer", "expel", "dissolve"}
    /\ UNCHANGED <<rollRow, leader, founded, gone, due, writes, crossed>>

LEMMA CreateGuildIs ==
  ASSUME GTypeOK, NEW k \in Clerks, CreateGuild(k)
  PROVE  \E c \in Present, v \in ClerkStates :
            /\ Calls(k, v, c) /\ v.op = "name" /\ v.left = {}
            /\ guildOf[c] = NoGuild /\ UNCHANGED <<guildOf, rolls>> /\ strays' = Astray({c})
<1>1. PICK c \in Present :
        /\ clerk[k] = Idle /\ coins[c] >= Fee /\ guildOf[c] = NoGuild
        /\ clerk' = [clerk EXCEPT ![k] = At("name", c, NoGuild, NoGuild, {})]
        /\ strays' = Astray({c})
        /\ Called /\ UNCHANGED <<guildOf, rolls, rollRow, leader, founded, coins, gone, due, writes, crossed>>
  BY DEF CreateGuild
<1>2. PICK v : v = At("name", c, NoGuild, NoGuild, {})
  OBVIOUS
<1>3. c \in People
  BY DEF Present
<1>4. v \in ClerkStates
  BY <1>2, <1>3 DEF ClerkStates, At
<1> QED
  BY <1>1, <1>2, <1>4 DEF Calls, At

LEMMA RespondIs ==
  ASSUME GTypeOK, NEW k \in Clerks, RespondGuildRequest(k)
  PROVE  \E c \in Present, v \in ClerkStates :
            /\ Calls(k, v, c) /\ v.op = "answer" /\ v.left = {} /\ v.other \in People
            /\ guildOf[c] = NoGuild /\ UNCHANGED <<guildOf, rolls>> /\ strays' = Astray({c})
<1>1. PICK c \in Present, d \in Present :
        /\ clerk[k] = Idle /\ guildOf[c] = NoGuild
        /\ clerk' = [clerk EXCEPT ![k] = At("answer", c, d, NoGuild, {})]
        /\ strays' = Astray({c})
        /\ Called /\ UNCHANGED <<guildOf, rolls, rollRow, leader, founded, coins, gone, due, writes, crossed>>
  BY DEF RespondGuildRequest
<1>2. PICK v : v = At("answer", c, d, NoGuild, {})
  OBVIOUS
<1>3. c \in People /\ d \in People
  BY DEF Present
<1>4. v \in ClerkStates
  BY <1>2, <1>3 DEF ClerkStates, At
<1> QED
  BY <1>1, <1>2, <1>3, <1>4 DEF Calls, At

LEMMA ExpelIs ==
  ASSUME GTypeOK, NEW k \in Clerks, ExpelFromGuild(k)
  PROVE  \E c \in Present, v \in ClerkStates, g \in GuildIDs :
            /\ Calls(k, v, c) /\ v.op = "expel" /\ v.left = {} /\ v.guild = g
            /\ Exists(g) /\ UNCHANGED guildOf /\ rolls' = DropMember(g, c)
            /\ strays' = Astray({c}) \cup (IF guildOf[c] = g THEN {} ELSE {c})
<1>1. PICK b \in Present, c \in Present, g \in GuildIDs :
        /\ g = guildOf[b] /\ clerk[k] = Idle /\ Exists(g) /\ MayExpel(g, b)
        /\ rolls' = DropMember(g, c)
        /\ clerk' = [clerk EXCEPT ![k] = At("expel", c, NoGuild, g, {})]
        /\ strays' = Astray({c}) \cup (IF guildOf[c] = g THEN {} ELSE {c})
        /\ Called /\ UNCHANGED <<guildOf, rollRow, leader, founded, coins, gone, due, writes, crossed>>
  BY DEF ExpelFromGuild, Exists
<1>2. PICK v : v = At("expel", c, NoGuild, g, {})
  OBVIOUS
<1>3. c \in People /\ g \in GuildIDs
  BY <1>1 DEF Present, Exists
<1>4. v \in ClerkStates
  BY <1>2, <1>3 DEF ClerkStates, At
<1>6. Calls(k, v, c) /\ v.op = "expel" /\ v.left = {} /\ v.guild = g
  BY <1>1, <1>2, <1>4 DEF Calls, At
<1> QED
  BY <1>1, <1>3, <1>4, <1>6

LEMMA DissolveIs ==
  ASSUME GTypeOK, NEW k \in Clerks, DissolveGuild(k)
  PROVE  \E c \in Present, v \in ClerkStates, g \in GuildIDs :
            /\ Calls(k, v, c) /\ v.op = "dissolve" /\ v.left = DOMAIN rolls[g] /\ v.guild = g
            /\ g = guildOf[c] /\ Exists(g) /\ leader[g] = c
            /\ guildOf' = [guildOf EXCEPT ![c] = NoGuild] /\ UNCHANGED rolls
            /\ strays' = Astray({c} \cup DOMAIN rolls[g])
<1>1. PICK c \in Present, g \in GuildIDs :
        /\ g = guildOf[c] /\ clerk[k] = Idle /\ Exists(g) /\ leader[g] = c
        /\ guildOf' = [guildOf EXCEPT ![c] = NoGuild]
        /\ clerk' = [clerk EXCEPT ![k] = At("dissolve", c, NoGuild, g, DOMAIN rolls[g])]
        /\ strays' = Astray({c} \cup DOMAIN rolls[g])
        /\ Called /\ UNCHANGED <<rolls, rollRow, leader, founded, coins, gone, due, writes, crossed>>
  BY DEF DissolveGuild, Exists
<1>2. PICK v : v = At("dissolve", c, NoGuild, g, DOMAIN rolls[g])
  OBVIOUS
<1>3. c \in People /\ g \in GuildIDs /\ DOMAIN rolls[g] \subseteq People
  BY <1>1 DEF Present, Exists, GTypeOK, Rolls
<1>4. v \in ClerkStates
  BY <1>2, <1>3 DEF ClerkStates, At
<1>6. Calls(k, v, c) /\ v.op = "dissolve" /\ v.left = DOMAIN rolls[g] /\ v.guild = g
  BY <1>1, <1>2, <1>4 DEF Calls, At
<1> QED
  BY <1>1, <1>3, <1>4, <1>6

\* The other steps keep types if what they leave to the handlers that wait is right.
Sensible(v) ==
    \/ v = Idle
    \/ /\ v.op # "idle" /\ v.who \in People
       /\ v.op \in {"insert", "data", "expel", "dissolve"} => v.guild \in founded
       /\ v.op = "answer" => v.other \in People

LEMMA SensibleStep ==
  ASSUME GTypes, NEW k \in Clerks, NEW v \in ClerkStates, clerk' = [clerk EXCEPT ![k] = v],
         Sensible(v) \/ Sensible(v)', founded \subseteq founded'
  PROVE  clerk' \in [Clerks -> ClerkStates] /\ ClerkInv'
<1>1. /\ clerk' \in [Clerks -> ClerkStates] /\ clerk'[k] = v
      /\ \A l \in Clerks \ {k} : clerk'[l] = clerk[l]
  BY ClerkStep DEF GTypes
<1>2. Sensible(v)'
  BY DEF Sensible
<1>3. Idle.op = "idle"
  BY DEF Idle, At
<1>4. ASSUME NEW l \in Clerks
      PROVE  /\ clerk'[l].op = "idle" => clerk'[l] = Idle
             /\ clerk'[l].op # "idle" => clerk'[l].who \in People
             /\ clerk'[l].op \in {"insert", "data", "expel", "dissolve"} => clerk'[l].guild \in founded'
             /\ clerk'[l].op = "answer" => clerk'[l].other \in People
  <2>1. CASE l = k
    BY <1>1, <1>2, <1>3, <2>1 DEF Sensible
  <2>2. CASE l # k
    <3>1. clerk'[l] = clerk[l]
      BY <1>1, <2>2
    <3> QED
      BY <3>1 DEF GTypes, ClerkInv
  <2> QED
    BY <2>1, <2>2
<1> QED
  BY <1>1, <1>4 DEF ClerkInv

LEMMA IdleState == Idle \in ClerkStates /\ Sensible(Idle) /\ Idle.op = "idle" /\ Idle.left = {}
  BY DEF Idle, At, ClerkStates, Sensible

LEMMA CallsTyped ==
  ASSUME GTypes, NEW k \in Clerks, NEW v \in ClerkStates, NEW c \in Present, Calls(k, v, c), Sensible(v),
         guildOf' \in [People -> GuildIDs \cup {NoGuild}], rolls' \in [GuildIDs -> Rolls], strays' \subseteq People
  PROVE  GTypes'
<1>1. clerk' \in [Clerks -> ClerkStates] /\ ClerkInv'
  BY SensibleStep DEF Calls
<1>2. UNCHANGED <<rollRow, leader, founded, gone, due, writes, crossed>>
  BY DEF Calls
<1>3. GTypeOK'
  BY <1>1, <1>2 DEF GTypes, GTypeOK
<1> QED
  BY <1>1, <1>2, <1>3 DEF GTypes, FoundedInv, Exists

LEMMA AstrayType == ASSUME GTypes, NEW S PROVE Astray(S) \subseteq People
<1>1. Busy \subseteq People
  <2> SUFFICES ASSUME NEW k \in Clerks PROVE Concerned(k) \subseteq People
    BY DEF Busy
  <2>1. clerk[k].left \subseteq People
    BY DEF GTypes, GTypeOK, ClerkStates
  <2>2. clerk[k] # Idle => clerk[k].who \in People
    BY DEF GTypes, ClerkInv
  <2> QED
    BY <2>1, <2>2 DEF Concerned
<1> QED
  BY <1>1 DEF Astray, GTypes, GTypeOK

LEMMA CallsGTypes ==
  ASSUME GTypes, NEW k \in Clerks, CreateGuild(k) \/ RespondGuildRequest(k) \/ ExpelFromGuild(k) \/ DissolveGuild(k)
  PROVE  GTypes'
<1>1. GTypeOK
  BY DEF GTypes
<1>2. CASE CreateGuild(k) \/ RespondGuildRequest(k)
  <2>1. PICK c \in Present, v \in ClerkStates :
           /\ Calls(k, v, c) /\ v.op \in {"name", "answer"} /\ (v.op = "answer" => v.other \in People)
           /\ UNCHANGED <<guildOf, rolls>> /\ strays' = Astray({c})
    BY <1>1, <1>2, CreateGuildIs, RespondIs
  <2>2. Sensible(v)
    BY <2>1 DEF Calls, Sensible, Present
  <2>3. strays' \subseteq People
    BY <2>1, AstrayType
  <2> QED
    BY <1>1, <2>1, <2>2, <2>3, CallsTyped DEF GTypeOK
<1>3. CASE ExpelFromGuild(k)
  <2>1. PICK c \in Present, v \in ClerkStates, g \in GuildIDs :
            /\ Calls(k, v, c) /\ v.op = "expel" /\ v.left = {} /\ v.guild = g
            /\ Exists(g) /\ UNCHANGED guildOf /\ rolls' = DropMember(g, c)
            /\ strays' = Astray({c}) \cup (IF guildOf[c] = g THEN {} ELSE {c})
    BY <1>1, <1>3, ExpelIs
  <2>2. Sensible(v) /\ c \in People
    BY <2>1 DEF Calls, Sensible, Present, GTypes, FoundedInv
  <2>3. strays' \subseteq People
    BY <2>1, <2>2, AstrayType
  <2>4. rolls' \in [GuildIDs -> Rolls]
    BY <1>1, <2>1, <2>2, RollsChange
  <2> QED
    BY <1>1, <2>1, <2>2, <2>3, <2>4, CallsTyped DEF GTypeOK
<1>4. CASE DissolveGuild(k)
  <2>1. PICK c \in Present, v \in ClerkStates, g \in GuildIDs :
            /\ Calls(k, v, c) /\ v.op = "dissolve" /\ v.left = DOMAIN rolls[g] /\ v.guild = g
            /\ g = guildOf[c] /\ Exists(g) /\ leader[g] = c
            /\ guildOf' = [guildOf EXCEPT ![c] = NoGuild] /\ UNCHANGED rolls
            /\ strays' = Astray({c} \cup DOMAIN rolls[g])
    BY <1>1, <1>4, DissolveIs
  <2>2. Sensible(v) /\ c \in People
    BY <2>1 DEF Calls, Sensible, Present, GTypes, FoundedInv
  <2>3. strays' \subseteq People
    BY <2>1, AstrayType
  <2>4. guildOf' \in [People -> GuildIDs \cup {NoGuild}]
    BY <1>1, <2>1 DEF GTypeOK
  <2> QED
    BY <1>1, <2>1, <2>2, <2>3, <2>4, CallsTyped DEF GTypeOK
<1> QED
  BY <1>2, <1>3, <1>4

\* The steps of a handler that waited: its next state, sensible.
LEMMA WaitsGTypes ==
  ASSUME GTypes, NEW k \in Clerks,
         \/ NameTaken(k) \/ InsertGuild(k) \/ Founded(k) \/ PayFee(k) \/ JoinGuild(k)
         \/ Expelled(k) \/ ClearMember(k) \/ DeleteGuild(k)
  PROVE  GTypes'
<1>1. GTypeOK /\ ClerkInv /\ FoundedInv
  BY DEF GTypes
<1>2. clerk[k] \in ClerkStates /\ clerk[k].left \subseteq People /\ clerk[k].other \in People \cup {NoGuild}
  BY <1>1 DEF GTypeOK, ClerkStates
<1>3. CASE NameTaken(k) \/ PayFee(k)
  <2>1. clerk' \in [Clerks -> ClerkStates] /\ ClerkInv'
    BY <1>3, SensibleStep, IdleState DEF NameTaken, PayFee
  <2>2. UNCHANGED <<guildOf, rolls, rollRow, leader, founded, gone, due, writes, strays, crossed>>
    BY <1>3 DEF NameTaken, PayFee
  <2> QED
    BY <1>1, <2>1, <2>2 DEF GTypes, GTypeOK, FoundedInv, Exists
<1>4. CASE InsertGuild(k)
  <2>1. PICK c, r : c = clerk[k].who /\ r = [d \in {c} |-> LEADER]
    OBVIOUS
  <2>2. PICK g \in GuildIDs :
          /\ founded' = founded \cup {g}
          /\ rolls' = [rolls EXCEPT ![g] = r] /\ rollRow' = [rollRow EXCEPT ![g] = r]
          /\ leader' = [leader EXCEPT ![g] = c]
          /\ clerk' = [clerk EXCEPT ![k] = At("insert", c, NoGuild, g, {})]
    BY <1>4, <2>1 DEF InsertGuild
  <2>3. UNCHANGED <<guildOf, gone, due, writes, strays, crossed>> /\ clerk[k].op = "name"
    BY <1>4 DEF InsertGuild
  <2>4. c \in People /\ r \in Rolls
    BY <1>1, <2>1, <2>3, FirstRoll DEF ClerkInv
  <2>5. PICK v : v = At("insert", c, NoGuild, g, {})
    OBVIOUS
  <2>6. v \in ClerkStates /\ Sensible(v)'
    BY <2>2, <2>4, <2>5 DEF ClerkStates, At, Sensible
  <2>7. clerk' \in [Clerks -> ClerkStates] /\ ClerkInv'
    BY <2>2, <2>5, <2>6, SensibleStep
  <2>8. GTypeOK'
    BY <1>1, <2>2, <2>3, <2>4, <2>7 DEF GTypeOK
  <2>9. FoundedInv'
    BY <1>1, <2>2, <2>3 DEF FoundedInv, GTypeOK, Exists
  <2> QED
    BY <2>7, <2>8, <2>9 DEF GTypes
<1>5. CASE Founded(k)
  <2>1. /\ guildOf' = [guildOf EXCEPT ![clerk[k].who] = clerk[k].guild]
        /\ clerk' = [clerk EXCEPT ![k] = [clerk[k] EXCEPT !.op = "data"]] /\ clerk[k].op = "insert"
        /\ UNCHANGED <<rolls, rollRow, leader, founded, gone, due, writes, strays, crossed>>
    BY <1>5 DEF Founded
  <2>2. PICK v : v = [clerk[k] EXCEPT !.op = "data"]
    OBVIOUS
  <2>3. v \in ClerkStates /\ v.op = "data" /\ v.who = clerk[k].who /\ v.guild = clerk[k].guild
    BY <1>2, <2>2 DEF ClerkStates
  <2>4. clerk[k].who \in People /\ clerk[k].guild \in founded
    BY <1>1, <2>1 DEF ClerkInv
  <2>5. Sensible(v)
    BY <2>3, <2>4 DEF Sensible
  <2>6. clerk' \in [Clerks -> ClerkStates] /\ ClerkInv'
    BY <2>1, <2>2, <2>3, <2>5, SensibleStep
  <2> QED
    BY <1>1, <2>1, <2>4, <2>6 DEF GTypes, GTypeOK, FoundedInv, Exists
<1>6. CASE JoinGuild(k)
  <2>1. clerk' \in [Clerks -> ClerkStates] /\ ClerkInv'
    BY <1>6, SensibleStep, IdleState DEF JoinGuild
  <2>2. UNCHANGED <<rollRow, leader, founded, gone, writes, crossed>>
    BY <1>6 DEF JoinGuild
  <2>3. clerk[k].who \in People
    BY <1>1, <1>6 DEF JoinGuild, ClerkInv
  <2>4. PICK g : g = guildOf[clerk[k].other]
    OBVIOUS
  <2>5. CASE Exists(g)
    <3>1. /\ rolls' = AddMember(g, clerk[k].who) /\ due' = due \cup {g}
          /\ guildOf' = [guildOf EXCEPT ![clerk[k].who] = g]
          /\ strays' \in {strays \cup {clerk[k].who}, strays} /\ g \in GuildIDs
      BY <1>6, <2>4, <2>5 DEF JoinGuild, Exists
    <3>2. rolls' \in [GuildIDs -> Rolls]
      BY <1>1, <2>3, <3>1, RollsChange
    <3>3. g \in founded
      BY <1>1, <2>5, <3>1 DEF FoundedInv
    <3> QED
      BY <1>1, <2>1, <2>2, <2>3, <3>1, <3>2, <3>3 DEF GTypes, GTypeOK, FoundedInv, Exists
  <2>6. CASE ~Exists(g)
    BY <1>1, <1>6, <2>1, <2>2, <2>4, <2>6 DEF JoinGuild, GTypes, GTypeOK, FoundedInv, Exists
  <2> QED
    BY <2>5, <2>6
<1>7. CASE Expelled(k)
  <2>1. clerk' \in [Clerks -> ClerkStates] /\ ClerkInv'
    BY <1>7, SensibleStep, IdleState DEF Expelled
  <2>2. /\ guildOf' = [guildOf EXCEPT ![clerk[k].who] = NoGuild]
        /\ due' \subseteq due \cup {clerk[k].guild} /\ clerk[k].op = "expel"
        /\ UNCHANGED <<rolls, rollRow, leader, founded, gone, writes, strays, crossed>>
    BY <1>7 DEF Expelled
  <2>3. clerk[k].guild \in founded /\ founded \subseteq GuildIDs
    BY <1>1, <2>2 DEF ClerkInv, GTypeOK
  <2> QED
    BY <1>1, <2>1, <2>2, <2>3 DEF GTypes, GTypeOK, FoundedInv, Exists
<1>8. CASE ClearMember(k)
  <2>1. PICK m \in clerk[k].left :
          /\ guildOf' = [guildOf EXCEPT ![m] = NoGuild]
          /\ clerk' = [clerk EXCEPT ![k] = [clerk[k] EXCEPT !.left = clerk[k].left \ {m}]]
    BY <1>8 DEF ClearMember
  <2>2. PICK v : v = [clerk[k] EXCEPT !.left = clerk[k].left \ {m}]
    OBVIOUS
  <2>3. v \in ClerkStates /\ v.op = clerk[k].op /\ v.who = clerk[k].who /\ v.guild = clerk[k].guild
    BY <1>2, <2>2 DEF ClerkStates
  <2>4. clerk[k].op = "dissolve" /\ UNCHANGED <<rolls, rollRow, leader, founded, gone, due, writes, strays, crossed>>
    BY <1>8 DEF ClearMember
  <2>5. Sensible(v)
    BY <1>1, <2>3, <2>4 DEF Sensible, ClerkInv
  <2>6. clerk' \in [Clerks -> ClerkStates] /\ ClerkInv'
    BY <2>1, <2>2, <2>3, <2>4, <2>5, SensibleStep
  <2> QED
    BY <1>1, <2>1, <2>4, <2>6 DEF GTypes, GTypeOK, FoundedInv, Exists
<1>9. CASE DeleteGuild(k)
  <2>1. clerk' \in [Clerks -> ClerkStates] /\ ClerkInv'
    BY <1>9, SensibleStep, IdleState DEF DeleteGuild
  <2>2. Deleted(clerk[k].guild) /\ UNCHANGED <<guildOf, rolls, founded, gone, writes, strays, crossed>>
    BY <1>9 DEF DeleteGuild
  <2> QED
    BY <1>1, <2>1, <2>2, EmptyRoll DEF Deleted, GTypes, GTypeOK, FoundedInv, Exists
<1> QED
  BY <1>3, <1>4, <1>5, <1>6, <1>7, <1>8, <1>9

\* The handlers and goroutines that do not wait.
LEMMA OthersGTypes ==
  ASSUME GTypes,
         \/ LeaveGuild \/ ChangeRole \/ ChangeGuildLogo \/ AddGuild \/ ChangeFaction \/ DeleteCharacter
         \/ BeginUpdate \/ EndUpdate \/ UNCHANGED gvars
  PROVE  GTypes'
<1>1. GTypeOK /\ ClerkInv /\ FoundedInv
  BY DEF GTypes
<1>2. UNCHANGED <<clerk, founded>>
  BY DEF LeaveGuild, ChangeRole, ChangeGuildLogo, AddGuild, ChangeFaction, DeleteCharacter, BeginUpdate, EndUpdate, gvars
<1>3. ClerkInv'
  BY <1>1, <1>2 DEF ClerkInv
<1>4. Present \subseteq People /\ founded \subseteq GuildIDs
  BY <1>1 DEF Present, GTypeOK
<1>5. CASE LeaveGuild \/ AddGuild
  <2>1. PICK c \in Present, g \in founded, h \in GuildIDs \cup {NoGuild} :
          /\ rolls' \in {DropMember(g, c), AddMember(g, c)} /\ due' = due \cup {g}
          /\ guildOf' = [guildOf EXCEPT ![c] = h]
          /\ strays' \in {Astray({c}), strays \cup {c}}
          /\ UNCHANGED <<rollRow, leader, gone, writes, crossed>>
    BY <1>1, <1>5 DEF LeaveGuild, AddGuild, Exists, FoundedInv, GTypeOK
  <2>2. rolls' \in [GuildIDs -> Rolls]
    BY <1>1, <1>4, <2>1, RollsChange
  <2>3. strays' \subseteq People
    BY <1>1, <1>4, <2>1, AstrayType DEF GTypeOK
  <2> QED
    BY <1>1, <1>2, <1>3, <1>4, <2>1, <2>2, <2>3 DEF GTypes, GTypeOK, FoundedInv, Exists
<1>6. CASE ChangeRole
  <2>1. PICK g \in founded, m \in Present, r \in Ranks :
          m \in DOMAIN rolls[g] /\ rolls' = [rolls EXCEPT ![g][m] = r] /\ due' = due \cup {g}
    BY <1>1, <1>6 DEF ChangeRole, Exists, FoundedInv
  <2>2. rolls' \in [GuildIDs -> Rolls]
    BY <1>1, <2>1, RoleChange DEF GTypeOK
  <2>3. UNCHANGED <<guildOf, rollRow, leader, gone, writes, strays, crossed>>
    BY <1>6 DEF ChangeRole
  <2> QED
    BY <1>1, <1>2, <1>3, <2>1, <2>2, <2>3 DEF GTypes, GTypeOK, FoundedInv, Exists
<1>7. CASE ChangeGuildLogo
  <2>1. due' \subseteq founded /\ UNCHANGED <<guildOf, rolls, rollRow, leader, gone, writes, strays, crossed>>
    BY <1>1, <1>7 DEF ChangeGuildLogo, Exists, FoundedInv
  <2> QED
    BY <1>1, <1>2, <1>3, <2>1 DEF GTypes, GTypeOK, FoundedInv, Exists
<1>8. CASE ChangeFaction
  <2>1. PICK S \in SUBSET Present :
          /\ guildOf' = [d \in People |-> IF d \in S THEN NoGuild ELSE guildOf[d]]
          /\ strays' = Astray(S) \cup {d \in S : guildOf[d] # NoGuild}
          /\ UNCHANGED <<rolls, rollRow, leader, gone, due, writes, crossed>>
    BY <1>8 DEF ChangeFaction
  <2>2. strays' \subseteq People
    BY <1>4, <2>1, AstrayType
  <2> QED
    BY <1>1, <1>2, <1>3, <2>1, <2>2 DEF GTypes, GTypeOK, FoundedInv, Exists
<1>9. CASE DeleteCharacter
  <2>1. PICK c \in Present, g \in GuildIDs \cup {NoGuild} :
          /\ g = guildOf[c] /\ gone' = gone \cup {c}
          /\ \/ UNCHANGED <<rolls, rollRow, leader, due, strays>>
             \/ g \in founded /\ Deleted(g) /\ strays' = strays \cup DOMAIN rolls[g] /\ UNCHANGED rolls
             \/ g \in founded /\ rolls' = DropMember(g, c) /\ due' = due \cup {g} /\ UNCHANGED <<rollRow, leader, strays>>
          /\ UNCHANGED <<guildOf, writes, crossed>>
    BY <1>1, <1>4, <1>9 DEF DeleteCharacter, Exists, GTypeOK, FoundedInv
  <2>2. CASE UNCHANGED <<rolls, rollRow, leader, due, strays>>
    BY <1>1, <1>2, <1>3, <1>4, <2>1, <2>2 DEF GTypes, GTypeOK, FoundedInv, Exists
  <2>3. CASE g \in founded /\ Deleted(g) /\ strays' = strays \cup DOMAIN rolls[g] /\ UNCHANGED rolls
    <3>1. DOMAIN rolls[g] \subseteq People
      BY <1>1, <2>3 DEF GTypeOK, Rolls
    <3> QED
      BY <1>1, <1>2, <1>3, <1>4, <2>1, <2>3, <3>1, EmptyRoll DEF Deleted, GTypes, GTypeOK, FoundedInv, Exists
  <2>4. CASE g \in founded /\ rolls' = DropMember(g, c) /\ due' = due \cup {g} /\ UNCHANGED <<rollRow, leader, strays>>
    <3>1. rolls' \in [GuildIDs -> Rolls]
      BY <1>1, <1>4, <2>1, <2>4, RollsChange
    <3> QED
      BY <1>1, <1>2, <1>3, <1>4, <2>1, <2>4, <3>1 DEF GTypes, GTypeOK, FoundedInv, Exists
  <2> QED
    BY <2>1, <2>2, <2>3, <2>4
<1>10. CASE BeginUpdate
  <2>1. PICK g \in due :
          /\ due' = due \ {g} /\ writes' = writes \cup {<<g, rolls[g]>>}
          /\ crossed' \in {crossed, crossed \cup {g}}
          /\ UNCHANGED <<guildOf, rolls, rollRow, leader, gone, strays>>
    BY <1>10 DEF BeginUpdate
  <2>2. g \in GuildIDs /\ rolls[g] \in Rolls
    BY <1>1 DEF GTypeOK
  <2> QED
    BY <1>1, <1>2, <1>3, <2>1, <2>2 DEF GTypes, GTypeOK, FoundedInv, Exists
<1>11. CASE EndUpdate
  <2>1. PICK w \in writes :
          /\ writes' = writes \ {w} /\ rollRow' \in {[rollRow EXCEPT ![w[1]] = w[2]], rollRow}
          /\ UNCHANGED <<guildOf, rolls, leader, gone, due, strays, crossed>>
    BY <1>11 DEF EndUpdate
  <2>2. w[1] \in GuildIDs /\ w[2] \in Rolls
    BY <1>1 DEF GTypeOK
  <2> QED
    BY <1>1, <1>2, <1>3, <2>1, <2>2 DEF GTypes, GTypeOK, FoundedInv, Exists
<1>12. CASE UNCHANGED gvars
  BY <1>1, <1>3, <1>12 DEF gvars, GTypes, GTypeOK, FoundedInv, Exists
<1> QED
  BY <1>5, <1>6, <1>7, <1>8, <1>9, <1>10, <1>11, <1>12

----------------------------------------------------------------------------
(* Guilds: lists and rows *)

\* No update is due and nobody is being expelled.
Quiet(g) == g \notin due /\ \A k \in Clerks : clerk[k].op # "expel" \/ clerk[k].guild # g
Written(g) ==
    /\ \A w \in writes : w[1] = g => w[2] = rolls[g]
    /\ (\A w \in writes : w[1] # g) => rollRow[g] = rolls[g]
\* One update at a time is under way; the list of a quiet guild is in it, or in the row.
RowInv(g) ==
    /\ \A w, v \in writes : w[1] = g /\ v[1] = g => w = v
    /\ Exists(g) /\ Quiet(g) => Written(g)
WritesInv == \A g \in GuildIDs \ crossed : RowInv(g)

LEMMA RowsKept ==
  ASSUME WritesInv, UNCHANGED <<writes, crossed>>,
         \A g \in GuildIDs : Exists(g)' /\ Quiet(g)' =>
             Exists(g) /\ Quiet(g) /\ rolls'[g] = rolls[g] /\ rollRow'[g] = rollRow[g]
  PROVE  WritesInv'
<1> SUFFICES ASSUME NEW g \in GuildIDs \ crossed PROVE RowInv(g)'
  BY DEF WritesInv
<1>1. RowInv(g)
  BY DEF WritesInv
<1> QED
  BY <1>1 DEF RowInv, Written

\* A handler that goes on and does not end an expulsion leaves no guild quiet that was not.
LEMMA QuietBefore ==
  ASSUME GTypeOK, NEW k \in Clerks, NEW v \in ClerkStates, clerk' = [clerk EXCEPT ![k] = v],
         clerk[k].op # "expel", NEW g, g \in due => g \in due', Quiet(g)'
  PROVE  Quiet(g)
<1>1. \A l \in Clerks \ {k} : clerk'[l] = clerk[l]
  BY ClerkStep
<1> QED
  BY <1>1 DEF Quiet

LEMMA CallsWrites ==
  ASSUME GTypes, WritesInv, NEW k \in Clerks,
         CreateGuild(k) \/ RespondGuildRequest(k) \/ ExpelFromGuild(k) \/ DissolveGuild(k)
  PROVE  WritesInv'
<1>1. GTypeOK /\ clerk[k].op = "idle"
  BY IdleState DEF GTypes, CreateGuild, RespondGuildRequest, ExpelFromGuild, DissolveGuild
<1>2. PICK c \in Present, v \in ClerkStates :
         /\ Calls(k, v, c)
         /\ \/ UNCHANGED rolls
            \/ v.op = "expel" /\ \E g \in GuildIDs : v.guild = g /\ rolls' = DropMember(g, c)
  BY <1>1, CreateGuildIs, RespondIs, ExpelIs, DissolveIs
<1>3. UNCHANGED <<writes, crossed, due, leader, rollRow>> /\ clerk' = [clerk EXCEPT ![k] = v]
  BY <1>2 DEF Calls
<1>4. clerk'[k] = v
  BY <1>1, <1>3, ClerkStep
<1>5. \A g \in GuildIDs : Quiet(g)' => Quiet(g) /\ rolls'[g] = rolls[g]
  <2> SUFFICES ASSUME NEW g \in GuildIDs, Quiet(g)' PROVE Quiet(g) /\ rolls'[g] = rolls[g]
    OBVIOUS
  <2>1. Quiet(g)
    BY <1>1, <1>3, QuietBefore
  <2>2. v.op = "expel" => v.guild # g
    BY <1>4 DEF Quiet
  <2>3. c \in People
    BY DEF Present
  <2> QED
    BY <1>1, <1>2, <2>1, <2>2, <2>3, RollsChange
<1> QED
  BY <1>3, <1>5, RowsKept DEF Exists

LEMMA WaitsWrites ==
  ASSUME GTypes, WritesInv, NEW k \in Clerks,
         \/ NameTaken(k) \/ InsertGuild(k) \/ Founded(k) \/ PayFee(k) \/ JoinGuild(k)
         \/ Expelled(k) \/ ClearMember(k) \/ DeleteGuild(k)
  PROVE  WritesInv'
<1>1. GTypeOK /\ ClerkInv /\ FoundedInv
  BY DEF GTypes
<1>2. clerk[k] \in ClerkStates
  BY <1>1 DEF GTypeOK
<1>3. CASE NameTaken(k) \/ Founded(k) \/ PayFee(k) \/ ClearMember(k)
  <2>1. PICK v : clerk' = [clerk EXCEPT ![k] = v] /\ v \in {Idle, [clerk[k] EXCEPT !.op = "data"]} \cup {[clerk[k] EXCEPT !.left = clerk[k].left \ {m}] : m \in People}
    BY <1>1, <1>2, <1>3 DEF NameTaken, Founded, PayFee, ClearMember, ClerkStates
  <2>2. v \in ClerkStates
    BY <1>2, <2>1, IdleState DEF ClerkStates
  <2>3. clerk[k].op # "expel" /\ UNCHANGED <<rolls, rollRow, leader, due, writes, crossed>>
    BY <1>3 DEF NameTaken, Founded, PayFee, ClearMember
  <2>4. \A g \in GuildIDs : Quiet(g)' => Quiet(g)
    BY <1>1, <2>1, <2>2, <2>3, QuietBefore
  <2> QED
    BY <2>3, <2>4, RowsKept DEF Exists
<1>4. CASE InsertGuild(k)
  <2>0. PICK r : r = [d \in {clerk[k].who} |-> LEADER]
    OBVIOUS
  <2>1. PICK g \in GuildIDs :
          /\ g \notin founded
          /\ rolls' = [rolls EXCEPT ![g] = r] /\ rollRow' = [rollRow EXCEPT ![g] = r]
          /\ leader' = [leader EXCEPT ![g] = clerk[k].who]
          /\ clerk' = [clerk EXCEPT ![k] = At("insert", clerk[k].who, NoGuild, g, {})]
    BY <1>4, <2>0 DEF InsertGuild
  <2>2. clerk[k].op # "expel" /\ UNCHANGED <<due, writes, crossed>>
    BY <1>4 DEF InsertGuild
  <2>3. PICK v : v = At("insert", clerk[k].who, NoGuild, g, {})
    OBVIOUS
  <2>4. v \in ClerkStates
    BY <1>2, <2>3 DEF ClerkStates, At
  <2> SUFFICES ASSUME NEW h \in GuildIDs \ crossed PROVE RowInv(h)'
    BY <2>2 DEF WritesInv
  <2>5. RowInv(h)
    BY DEF WritesInv
  <2>6. CASE h # g
    <3>1. rolls'[h] = rolls[h] /\ rollRow'[h] = rollRow[h] /\ leader'[h] = leader[h]
      BY <1>1, <2>1, <2>6 DEF GTypeOK
    <3>2. Quiet(h)' => Quiet(h)
      BY <1>1, <2>1, <2>2, <2>3, <2>4, QuietBefore
    <3> QED
      BY <2>2, <2>5, <3>1, <3>2 DEF RowInv, Written, Exists
  <2>7. CASE h = g
    <3>1. \A w \in writes : w[1] # h
      BY <1>1, <2>1, <2>7 DEF FoundedInv
    <3>2. rolls'[h] = rollRow'[h]
      BY <1>1, <2>1, <2>7 DEF GTypeOK
    <3> QED
      BY <2>2, <3>1, <3>2 DEF RowInv, Written
  <2> QED
    BY <2>6, <2>7
<1>5. CASE JoinGuild(k) \/ Expelled(k)
  <2>1. UNCHANGED <<rollRow, leader, writes, crossed>> /\ clerk' = [clerk EXCEPT ![k] = Idle] /\ due \subseteq due'
    BY <1>5 DEF JoinGuild, Expelled
  <2>2. \A g \in GuildIDs : Exists(g)' /\ Quiet(g)' => Quiet(g) /\ rolls'[g] = rolls[g]
    <3> SUFFICES ASSUME NEW g \in GuildIDs, Exists(g)', Quiet(g)' PROVE Quiet(g) /\ rolls'[g] = rolls[g]
      OBVIOUS
    <3>1. CASE JoinGuild(k)
      <4>1. Quiet(g)
        BY <1>1, <2>1, <3>1, QuietBefore, IdleState DEF JoinGuild
      <4>2. PICK h : h = guildOf[clerk[k].other]
        OBVIOUS
      <4>3. CASE Exists(h)
        <5>1. rolls' = AddMember(h, clerk[k].who) /\ due' = due \cup {h} /\ h \in GuildIDs /\ clerk[k].who \in People
          BY <1>1, <3>1, <4>2, <4>3 DEF JoinGuild, Exists, ClerkInv
        <5>2. g # h
          BY <5>1 DEF Quiet
        <5> QED
          BY <1>1, <4>1, <5>1, <5>2, RollsChange
      <4>4. CASE ~Exists(h)
        BY <3>1, <4>1, <4>2, <4>4 DEF JoinGuild
      <4> QED
        BY <4>3, <4>4
    <3>2. CASE Expelled(k)
      <4>1. clerk[k].guild # g /\ UNCHANGED rolls
        BY <2>1, <3>2 DEF Expelled, Quiet, Exists
      <4>2. \A l \in Clerks \ {k} : clerk'[l] = clerk[l]
        BY <1>1, <2>1, IdleState, ClerkStep
      <4> QED
        BY <2>1, <4>1, <4>2 DEF Quiet
    <3> QED
      BY <1>5, <3>1, <3>2
  <2> QED
    BY <2>1, <2>2, RowsKept DEF Exists
<1>6. CASE DeleteGuild(k)
  <2>1. Deleted(clerk[k].guild) /\ UNCHANGED <<rolls, writes, crossed>> /\ clerk' = [clerk EXCEPT ![k] = Idle] /\ clerk[k].op # "expel"
    BY <1>6 DEF DeleteGuild
  <2>2. \A g \in GuildIDs : Exists(g)' => g # clerk[k].guild /\ Exists(g) /\ rollRow'[g] = rollRow[g] /\ (g \in due => g \in due')
    BY <1>1, <2>1 DEF Deleted, Exists, GTypeOK
  <2>3. \A g \in GuildIDs : Exists(g)' /\ Quiet(g)' => Quiet(g)
    BY <1>1, <2>1, <2>2, QuietBefore, IdleState
  <2> QED
    BY <2>1, <2>2, <2>3, RowsKept
<1> QED
  BY <1>3, <1>4, <1>5, <1>6

LEMMA OthersWrites ==
  ASSUME GTypes, WritesInv,
         \/ LeaveGuild \/ ChangeRole \/ ChangeGuildLogo \/ AddGuild \/ ChangeFaction \/ DeleteCharacter
         \/ BeginUpdate \/ EndUpdate \/ UNCHANGED gvars
  PROVE  WritesInv'
<1>1. GTypeOK /\ ClerkInv /\ FoundedInv /\ Present \subseteq People
  BY DEF GTypes, Present
<1>2. clerk' = clerk
  BY DEF LeaveGuild, ChangeRole, ChangeGuildLogo, AddGuild, ChangeFaction, DeleteCharacter, BeginUpdate, EndUpdate, gvars
<1>3. ASSUME NEW g \in GuildIDs, UNCHANGED <<writes, crossed, leader, rollRow>>, due' = due \cup {g},
             \A h \in GuildIDs \ {g} : rolls'[h] = rolls[h]
      PROVE  WritesInv'
  BY <1>2, <1>3, RowsKept DEF Quiet, Exists
<1>4. ASSUME UNCHANGED <<writes, crossed, leader, rollRow, rolls>>, due \subseteq due' PROVE WritesInv'
  BY <1>2, <1>4, RowsKept DEF Quiet, Exists
<1>5. CASE LeaveGuild \/ AddGuild
  <2>1. PICK c \in Present, g \in GuildIDs :
          /\ rolls' \in {DropMember(g, c), AddMember(g, c)} /\ due' = due \cup {g}
          /\ UNCHANGED <<rollRow, leader, writes, crossed>>
    BY <1>5 DEF LeaveGuild, AddGuild, Exists
  <2>2. \A h \in GuildIDs \ {g} : rolls'[h] = rolls[h]
    BY <1>1, <2>1, RollsChange
  <2> QED
    BY <1>3, <2>1, <2>2
<1>6. CASE ChangeRole
  <2>1. PICK g \in GuildIDs, m \in Present, r \in Ranks :
          m \in DOMAIN rolls[g] /\ rolls' = [rolls EXCEPT ![g][m] = r] /\ due' = due \cup {g}
    BY <1>6 DEF ChangeRole, Exists
  <2>2. \A h \in GuildIDs \ {g} : rolls'[h] = rolls[h]
    BY <1>1, <2>1, RoleChange
  <2>3. UNCHANGED <<rollRow, leader, writes, crossed>>
    BY <1>6 DEF ChangeRole
  <2> QED
    BY <1>3, <2>1, <2>2, <2>3
<1>7. CASE ChangeGuildLogo \/ ChangeFaction \/ UNCHANGED gvars
  <2>1. UNCHANGED <<writes, crossed, leader, rollRow, rolls>> /\ due \subseteq due'
    BY <1>7 DEF ChangeGuildLogo, ChangeFaction, gvars
  <2> QED
    BY <1>4, <2>1
<1>8. CASE DeleteCharacter
  <2>1. PICK c \in Present, g \in GuildIDs \cup {NoGuild} :
          /\ \/ UNCHANGED <<rolls, rollRow, leader, due>>
             \/ g \in GuildIDs /\ Deleted(g) /\ UNCHANGED rolls
             \/ g \in GuildIDs /\ rolls' = DropMember(g, c) /\ due' = due \cup {g} /\ UNCHANGED <<rollRow, leader>>
          /\ UNCHANGED <<writes, crossed>>
    BY <1>1, <1>8 DEF DeleteCharacter, Exists, GTypeOK
  <2>2. CASE UNCHANGED <<rolls, rollRow, leader, due>>
    BY <1>4, <2>1, <2>2
  <2>3. CASE g \in GuildIDs /\ Deleted(g) /\ UNCHANGED rolls
    <3>1. \A h \in GuildIDs : Exists(h)' => h # g /\ Exists(h) /\ rollRow'[h] = rollRow[h]
      BY <1>1, <2>3 DEF Deleted, Exists, GTypeOK
    <3>2. \A h \in GuildIDs : Exists(h)' /\ Quiet(h)' => Quiet(h)
      BY <1>2, <2>3, <3>1 DEF Deleted, Quiet
    <3> QED
      BY <2>1, <2>3, <3>1, <3>2, RowsKept
  <2>4. CASE g \in GuildIDs /\ rolls' = DropMember(g, c) /\ due' = due \cup {g} /\ UNCHANGED <<rollRow, leader>>
    <3>1. \A h \in GuildIDs \ {g} : rolls'[h] = rolls[h]
      BY <1>1, <2>1, <2>4, RollsChange
    <3> QED
      BY <1>3, <2>1, <2>4, <3>1
  <2> QED
    BY <2>1, <2>2, <2>3, <2>4
<1>9. CASE BeginUpdate
  <2>1. PICK g \in GuildIDs :
          /\ due' = due \ {g} /\ writes' = writes \cup {<<g, rolls[g]>>}
          /\ crossed' = IF \E w \in writes : w[1] = g THEN crossed \cup {g} ELSE crossed
          /\ UNCHANGED <<rolls, rollRow, leader>>
    BY <1>1, <1>9 DEF BeginUpdate, GTypeOK
  <2> SUFFICES ASSUME NEW h \in GuildIDs \ crossed' PROVE RowInv(h)'
    BY DEF WritesInv
  <2>2. RowInv(h)
    BY <2>1 DEF WritesInv
  <2>3. CASE h # g
    <3>1. \A w \in writes' : w[1] = h => w \in writes
      BY <2>1, <2>3
    <3>2. Quiet(h)' => Quiet(h)
      BY <1>2, <2>1, <2>3 DEF Quiet
    <3>3. writes \subseteq writes'
      BY <2>1
    <3> QED
      BY <2>1, <2>2, <3>1, <3>2, <3>3 DEF RowInv, Written, Exists
  <2>4. CASE h = g
    <3>1. \A w \in writes : w[1] # h
      BY <2>1, <2>4
    <3>2. \A w \in writes' : w[1] = h => w = <<h, rolls[h]>>
      BY <2>1, <2>4, <3>1
    <3>3. <<h, rolls[h]>> \in writes'
      BY <2>1, <2>4
    <3> QED
      BY <2>1, <3>2, <3>3 DEF RowInv, Written
  <2> QED
    BY <2>3, <2>4
<1>10. CASE EndUpdate
  <2>1. PICK w \in writes :
          /\ writes' = writes \ {w}
          /\ rollRow' = IF Exists(w[1]) THEN [rollRow EXCEPT ![w[1]] = w[2]] ELSE rollRow
          /\ UNCHANGED <<rolls, leader, due, crossed>>
    BY <1>10 DEF EndUpdate
  <2> SUFFICES ASSUME NEW h \in GuildIDs \ crossed PROVE RowInv(h)'
    BY <2>1 DEF WritesInv
  <2>2. RowInv(h)
    BY DEF WritesInv
  <2>3. Quiet(h)' => Quiet(h)
    BY <1>2, <2>1 DEF Quiet
  <2>4. CASE h # w[1]
    <3>1. rollRow'[h] = rollRow[h]
      BY <1>1, <2>1, <2>4 DEF GTypeOK
    <3>2. \A v \in writes : v[1] = h => v \in writes'
      BY <2>1, <2>4
    <3>3. writes' \subseteq writes
      BY <2>1
    <3> QED
      BY <2>1, <2>2, <2>3, <3>1, <3>2, <3>3 DEF RowInv, Written, Exists
  <2>5. CASE h = w[1]
    <3>1. \A v \in writes' : v[1] # h
      BY <2>1, <2>2, <2>5 DEF RowInv
    <3>2. Exists(h) => rollRow'[h] = w[2]
      BY <1>1, <2>1, <2>5 DEF GTypeOK
    <3>3. Exists(h) /\ Quiet(h) => w[2] = rolls[h]
      BY <2>2, <2>5 DEF RowInv, Written
    <3>4. (Exists(h) /\ Quiet(h))' => Written(h)'
      BY <2>1, <2>3, <3>1, <3>2, <3>3 DEF Written, Exists
    <3> QED
      BY <3>1, <3>4 DEF RowInv
  <2> QED
    BY <2>4, <2>5
<1> QED
  BY <1>5, <1>6, <1>7, <1>8, <1>9, <1>10

----------------------------------------------------------------------------
(* Guilds: characters and lists *)

On(c, g) == c \in DOMAIN rolls[g]
Live(g) == Exists(g) /\ g \notin Dissolving
Founding(c, g) == \E k \in Clerks : clerk[k].op = "insert" /\ clerk[k].who = c /\ clerk[k].guild = g
\* No handler is about to change his guild.
Settled(c) == c \notin Busy \/ \E k \in Clerks : clerk[k].op = "data" /\ clerk[k].who = c
\* Who is on the list of a guild has its id, and where no handler is about him the converse.
CharInv(c) ==
    /\ \A g \in GuildIDs : Live(g) /\ On(c, g) => guildOf[c] = g \/ Founding(c, g)
    /\ Settled(c) => \A g \in GuildIDs : guildOf[c] = g => Live(g) /\ On(c, g)
\* No two handlers are about one character.
Apart == \A k, l \in Clerks : k # l => Concerned(k) \cap Concerned(l) = {}
\* What a handler that waits has seen is still so, if its character is there.
StillSo(k, c, g) ==
    /\ clerk[k].op \in {"name", "insert", "answer", "dissolve"} => guildOf[c] = NoGuild
    /\ clerk[k].op = "insert" => Live(g) /\ leader[g] = c /\ On(c, g)
    /\ clerk[k].op = "data" => guildOf[c] = g /\ leader[g] = c
    /\ clerk[k].op = "expel" => guildOf[c] = g /\ ~On(c, g)
AtWork(k) ==
    /\ \A c \in Present, g \in GuildIDs \cup {NoGuild} :
          clerk[k].who = c /\ clerk[k].guild = g => StillSo(k, c, g)
    /\ clerk[k].op = "dissolve" => \A d \in clerk[k].left \cap Present : guildOf[d] \in {clerk[k].guild, NoGuild}
    /\ clerk[k].op # "dissolve" => clerk[k].left = {}
StepsInv == Apart /\ (\A c \in Present : CharInv(c)) /\ \A k \in Clerks : AtWork(k)

LEMMA OnChange ==
  ASSUME GTypeOK, NEW g \in GuildIDs, NEW c \in People
  PROVE  /\ rolls' = AddMember(g, c) =>
               \A h \in GuildIDs, d \in People : On(d, h)' <=> On(d, h) \/ (h = g /\ d = c)
         /\ rolls' = DropMember(g, c) =>
               \A h \in GuildIDs, d \in People : On(d, h)' <=> On(d, h) /\ ~(h = g /\ d = c)
  BY RollsChange DEF On

\* A handler that waits is about its character.
LEMMA Waiting ==
  ASSUME GTypes, NEW k \in Clerks
  PROVE  /\ clerk[k].op # "idle" => clerk[k].who \in Concerned(k) /\ clerk[k].who \in People
         /\ clerk[k].left \subseteq Concerned(k)
         /\ Concerned(k) \subseteq Busy
  BY IdleState DEF Concerned, Busy, GTypes, ClerkInv

\* Characters that a step does not touch, in guilds it leaves alone.
LEMMA Bystanders ==
  ASSUME GTypes, StepsInv, Present' \subseteq Present, NEW T, NEW K,
         \A d \in Present' \ T :
            /\ guildOf'[d] = guildOf[d] /\ (Settled(d)' => Settled(d))
            /\ \A g \in GuildIDs :
                  /\ On(d, g)' => On(d, g) /\ (Live(g)' => Live(g))
                  /\ On(d, g) /\ Live(g) => On(d, g)' /\ Live(g)' /\ leader'[g] = leader[g]
                  /\ Founding(d, g) => Founding(d, g)',
         \A l \in Clerks \ K : clerk'[l] = clerk[l] /\ Concerned(l) \cap T = {}
  PROVE  (\A d \in Present' \ T : CharInv(d)') /\ (\A l \in Clerks \ K : AtWork(l)')
<1>1. ASSUME NEW d \in Present' \ T PROVE CharInv(d)'
  <2>1. CharInv(d) /\ d \in People
    BY DEF StepsInv, Present
  <2>2. \A g \in GuildIDs : Live(g)' /\ On(d, g)' => guildOf'[d] = g \/ Founding(d, g)'
    BY <2>1 DEF CharInv
  <2>3. Settled(d)' => \A g \in GuildIDs : guildOf'[d] = g => Live(g)' /\ On(d, g)'
    BY <2>1 DEF CharInv
  <2> QED
    BY <2>2, <2>3 DEF CharInv
<1>2. ASSUME NEW l \in Clerks \ K PROVE AtWork(l)'
  <2>1. clerk'[l] = clerk[l] /\ Concerned(l) \cap T = {} /\ AtWork(l)
    BY DEF StepsInv
  <2>2. ASSUME NEW c \in Present', NEW g \in GuildIDs \cup {NoGuild}, clerk'[l].who = c, clerk'[l].guild = g
        PROVE StillSo(l, c, g)'
    <3>0. clerk[l].op \in {"idle", "name", "insert", "data", "answer", "expel", "dissolve"}
      BY DEF GTypes, GTypeOK, ClerkStates
    <3>1. CASE clerk[l].op = "idle"
      BY <2>1, <3>1 DEF StillSo
    <3>2. CASE clerk[l].op # "idle"
      <4>1. c \in Present' \ T /\ c \in Present
        BY <2>1, <2>2, <3>2, Waiting
      <4>2. StillSo(l, c, g) /\ CharInv(c) /\ guildOf'[c] = guildOf[c]
        BY <2>1, <2>2, <4>1 DEF AtWork, StepsInv
      <4>3. clerk[l].op \in {"insert", "data", "expel"} => g \in GuildIDs
        BY <2>1, <2>2 DEF GTypes, ClerkInv, GTypeOK
      <4>4. clerk[l].op = "insert" => Live(g)' /\ leader'[g] = c /\ On(c, g)'
        BY <4>1, <4>2, <4>3 DEF StillSo
      <4>5. ASSUME clerk[l].op = "data" PROVE guildOf'[c] = g /\ leader'[g] = c
        <5>1. Settled(c) /\ guildOf[c] = g /\ leader[g] = c
          BY <2>1, <2>2, <4>2, <4>5 DEF StillSo, Settled
        <5>2. Live(g) /\ On(c, g)
          BY <4>2, <4>3, <4>5, <5>1 DEF CharInv
        <5> QED
          BY <4>1, <4>2, <4>3, <4>5, <5>1, <5>2
      <4>6. clerk[l].op = "expel" => guildOf'[c] = g /\ ~On(c, g)'
        BY <4>1, <4>2, <4>3 DEF StillSo
      <4>7. clerk[l].op \in {"name", "insert", "answer", "dissolve"} => guildOf'[c] = NoGuild
        BY <4>2 DEF StillSo
      <4> QED
        BY <2>1, <4>4, <4>5, <4>6, <4>7 DEF StillSo
    <3> QED
      BY <3>1, <3>2
  <2>3. ASSUME clerk[l].op = "dissolve", NEW d \in clerk[l].left \cap Present' PROVE guildOf'[d] \in {clerk[l].guild, NoGuild}
    <3>1. d \in Present' \ T /\ d \in Present
      BY <2>1, Waiting
    <3> QED
      BY <2>1, <2>3, <3>1 DEF AtWork
  <2> QED
    BY <2>1, <2>2, <2>3 DEF AtWork
<1> QED
  BY <1>1, <1>2

\* What a handler at v is about.
Concern(v) == IF v = Idle THEN {} ELSE {v.who} \cup v.left
Touched(k, v) == Concern(v) \cup Concerned(k)

\* A handler goes on, and is about nobody new another one is about.
LEMMA ClerkMoves ==
  ASSUME GTypes, Apart, NEW k \in Clerks, NEW v \in ClerkStates, clerk' = [clerk EXCEPT ![k] = v],
         (Concern(v) \ Concerned(k)) \cap Busy = {}, Sensible(v) \/ Sensible(v)'
  PROVE  /\ Apart'
         /\ \A l \in Clerks \ {k} : clerk'[l] = clerk[l] /\ Concerned(l) \cap Touched(k, v) = {}
         /\ \A d \in People \ Touched(k, v) : (Settled(d)' => Settled(d)) /\ \A g \in GuildIDs : Founding(d, g) => Founding(d, g)'
         /\ \A d \in Touched(k, v) : Settled(d)' => d \notin Concern(v) \/ (v.op = "data" /\ v.who = d)
         /\ \A d \in Touched(k, v), g \in GuildIDs :
               Founding(d, g) => clerk[k].op = "insert" /\ clerk[k].who = d /\ clerk[k].guild = g
         /\ \A g \in GuildIDs : g \in Dissolving' => g \in Dissolving \/ (v.op = "dissolve" /\ v.guild = g)
         /\ \A g \in GuildIDs : g \in Dissolving => g \in Dissolving' \/ (clerk[k].op = "dissolve" /\ clerk[k].guild = g)
<1>0. GTypeOK
  BY DEF GTypes
<1>1. clerk'[k] = v /\ \A l \in Clerks \ {k} : clerk'[l] = clerk[l]
  BY <1>0, ClerkStep
<1>2. Concerned(k)' = Concern(v) /\ \A l \in Clerks \ {k} : Concerned(l)' = Concerned(l)
  BY <1>1 DEF Concerned, Concern
<1>3. \A l \in Clerks \ {k} : Concerned(l) \cap Touched(k, v) = {}
  BY DEF Apart, Busy, Touched
<1>4. Apart'
  <2> SUFFICES ASSUME NEW m \in Clerks, NEW l \in Clerks, m # l PROVE (Concerned(m) \cap Concerned(l) = {})'
    BY DEF Apart
  <2>1. CASE m = k
    BY <1>2, <1>3, <2>1 DEF Touched
  <2>2. CASE l = k
    BY <1>2, <1>3, <2>2 DEF Touched
  <2>3. CASE m # k /\ l # k
    BY <1>2, <2>3 DEF Apart
  <2> QED
    BY <2>1, <2>2, <2>3
<1>5. ASSUME NEW d \in People \ Touched(k, v)
      PROVE  (Settled(d)' => Settled(d)) /\ \A g \in GuildIDs : Founding(d, g) => Founding(d, g)'
  <2>1. d \in Busy => d \in Busy'
    BY <1>2 DEF Busy, Touched
  <2>2. (\E l \in Clerks : clerk'[l].op = "data" /\ clerk'[l].who = d) => \E l \in Clerks : clerk[l].op = "data" /\ clerk[l].who = d
    <3>1. ~(v.op = "data" /\ v.who = d)
      BY IdleState DEF Concern, Touched
    <3> QED
      BY <1>1, <3>1
  <2>3. \A g \in GuildIDs : Founding(d, g) => Founding(d, g)'
    <3>1. ~(clerk[k].op = "insert" /\ clerk[k].who = d)
      BY Waiting DEF Touched
    <3> QED
      BY <1>1, <3>1 DEF Founding
  <2> QED
    BY <2>1, <2>2, <2>3 DEF Settled
<1>6. ASSUME NEW d \in Touched(k, v)
      PROVE  /\ Settled(d)' => d \notin Concern(v) \/ (v.op = "data" /\ v.who = d)
             /\ \A g \in GuildIDs : Founding(d, g) => clerk[k].op = "insert" /\ clerk[k].who = d /\ clerk[k].guild = g
  <2>1. d \in Concern(v) => d \in Busy'
    BY <1>2 DEF Busy
  <2>2. ASSUME NEW l \in Clerks \ {k}, clerk[l].op # "idle" PROVE clerk[l].who # d
    BY <1>3, <2>2, Waiting
  <2>3. (\E l \in Clerks : clerk'[l].op = "data" /\ clerk'[l].who = d) => v.op = "data" /\ v.who = d
    BY <1>1, <2>2
  <2>4. \A g \in GuildIDs : Founding(d, g) => clerk[k].op = "insert" /\ clerk[k].who = d /\ clerk[k].guild = g
    BY <2>2 DEF Founding
  <2> QED
    BY <2>1, <2>3, <2>4 DEF Settled
<1>7. ASSUME NEW g \in GuildIDs
      PROVE  /\ g \in Dissolving' => g \in Dissolving \/ (v.op = "dissolve" /\ v.guild = g)
             /\ g \in Dissolving => g \in Dissolving' \/ (clerk[k].op = "dissolve" /\ clerk[k].guild = g)
  <2>1. g \in Dissolving <=> \E l \in Clerks : clerk[l].op = "dissolve" /\ clerk[l].guild = g
    BY DEF Dissolving
  <2>2. g \in Dissolving' <=> \E l \in Clerks : clerk'[l].op = "dissolve" /\ clerk'[l].guild = g
    BY DEF Dissolving
  <2> QED
    BY <1>1, <2>1, <2>2
<1> QED
  BY <1>1, <1>3, <1>4, <1>5, <1>6, <1>7

LEMMA Moves ==
  ASSUME GTypes, StepsInv, UNCHANGED gone, NEW k \in Clerks, NEW v \in ClerkStates, clerk' = [clerk EXCEPT ![k] = v],
         (Concern(v) \ Concerned(k)) \cap Busy = {}, Sensible(v) \/ Sensible(v)',
         \A d \in Present \ Touched(k, v) :
            /\ guildOf'[d] = guildOf[d]
            /\ \A g \in GuildIDs :
                  /\ On(d, g)' => On(d, g) /\ (Live(g)' => Live(g))
                  /\ On(d, g) /\ Live(g) => On(d, g)' /\ Live(g)' /\ leader'[g] = leader[g],
         \A d \in Present \cap Touched(k, v) : CharInv(d)',
         AtWork(k)'
  PROVE  StepsInv'
<1>0. Apart
  BY DEF StepsInv
<1>1. /\ Apart' /\ \A l \in Clerks \ {k} : clerk'[l] = clerk[l] /\ Concerned(l) \cap Touched(k, v) = {}
      /\ \A d \in People \ Touched(k, v) : (Settled(d)' => Settled(d)) /\ \A g \in GuildIDs : Founding(d, g) => Founding(d, g)'
  BY <1>0, ClerkMoves
<1>2. Present' = Present /\ Present \subseteq People
  BY DEF Present
<1>3. PICK K, T : K = {k} /\ T = Touched(k, v)
  OBVIOUS
<1>4. (\A d \in Present' \ T : CharInv(d)') /\ (\A l \in Clerks \ K : AtWork(l)')
  BY <1>1, <1>2, <1>3, Bystanders
<1> QED
  BY <1>1, <1>2, <1>3, <1>4 DEF StepsInv

\* Who is called finds somebody no handler is about; what is on his list stays so.
LEMMA CallsMove ==
  ASSUME GTypes, StepsInv, NEW k \in Clerks, NEW v \in ClerkStates, NEW c \in Present, Calls(k, v, c), Sensible(v),
         ({c} \cup v.left) \cap Busy = {},
         \A d \in Present \ ({c} \cup v.left) :
            /\ guildOf'[d] = guildOf[d]
            /\ \A g \in GuildIDs :
                  /\ On(d, g)' => On(d, g)
                  /\ On(d, g) /\ Live(g) => On(d, g)' /\ ~(v.op = "dissolve" /\ v.guild = g),
         \A d \in Present \cap ({c} \cup v.left), g \in GuildIDs : Live(g)' /\ On(d, g)' => guildOf'[d] = g,
         AtWork(k)'
  PROVE  StepsInv'
<1>1. /\ clerk[k] = Idle /\ clerk' = [clerk EXCEPT ![k] = v] /\ UNCHANGED <<gone, leader>>
      /\ v.who = c /\ v # Idle /\ v.op # "data" /\ clerk[k].op = "idle"
  BY IdleState DEF Calls
<1>2. Concern(v) = {c} \cup v.left /\ Concerned(k) = {} /\ Touched(k, v) = {c} \cup v.left
  BY <1>1 DEF Concern, Concerned, Touched
<1>3. /\ \A d \in Touched(k, v) : Settled(d)' => d \notin Concern(v) \/ (v.op = "data" /\ v.who = d)
      /\ \A g \in GuildIDs : g \in Dissolving' => g \in Dissolving \/ (v.op = "dissolve" /\ v.guild = g)
      /\ \A g \in GuildIDs : g \in Dissolving => g \in Dissolving' \/ (clerk[k].op = "dissolve" /\ clerk[k].guild = g)
  BY <1>1, <1>2, ClerkMoves DEF StepsInv
<1>4. \A g \in GuildIDs : (Live(g)' => Live(g)) /\ (Live(g) => Live(g)' \/ (v.op = "dissolve" /\ v.guild = g))
  BY <1>1, <1>3 DEF Live, Exists
<1>5. \A d \in Present \ Touched(k, v) :
         /\ guildOf'[d] = guildOf[d]
         /\ \A g \in GuildIDs :
               /\ On(d, g)' => On(d, g) /\ (Live(g)' => Live(g))
               /\ On(d, g) /\ Live(g) => On(d, g)' /\ Live(g)' /\ leader'[g] = leader[g]
  BY <1>1, <1>2, <1>4
<1>6. \A d \in Present \cap Touched(k, v) : CharInv(d)'
  BY <1>1, <1>2, <1>3 DEF CharInv
<1>7. (Concern(v) \ Concerned(k)) \cap Busy = {}
  BY <1>2
<1> QED
  BY <1>1, <1>5, <1>6, <1>7, Moves

LEMMA Free ==
  ASSUME GTypes, StepsInv, NEW c \in Present, c \notin Busy
  PROVE  /\ \A g \in GuildIDs : Live(g) /\ On(c, g) => guildOf[c] = g
         /\ \A g \in GuildIDs : guildOf[c] = g => Live(g) /\ On(c, g)
         /\ \A g \in GuildIDs : ~Founding(c, g)
<1>1. \A g \in GuildIDs : ~Founding(c, g)
  BY Waiting DEF Founding
<1>2. CharInv(c)
  BY DEF StepsInv
<1>3. Settled(c)
  BY DEF Settled
<1> QED
  BY <1>1, <1>2, <1>3 DEF CharInv

LEMMA CallsSteps ==
  ASSUME GTypes, StepsInv, NEW k \in Clerks, strays' = {},
         CreateGuild(k) \/ RespondGuildRequest(k) \/ ExpelFromGuild(k) \/ DissolveGuild(k)
  PROVE  StepsInv'
<1>1. GTypeOK /\ Present \subseteq People
  BY DEF GTypes, Present
<1>2. CASE CreateGuild(k) \/ RespondGuildRequest(k)
  <2>1. PICK c \in Present, v \in ClerkStates :
           /\ Calls(k, v, c) /\ v.op \in {"name", "answer"} /\ v.left = {} /\ (v.op = "answer" => v.other \in People)
           /\ guildOf[c] = NoGuild /\ UNCHANGED <<guildOf, rolls>> /\ strays' = Astray({c})
    BY <1>1, <1>2, CreateGuildIs, RespondIs
  <2>2. Sensible(v) /\ c \notin Busy /\ c \in People
    BY <1>1, <2>1 DEF Calls, Sensible, Astray
  <2>3. \A g \in GuildIDs : ~(Live(g)' /\ On(c, g)')
    <3> SUFFICES ASSUME NEW g \in GuildIDs, Live(g)', On(c, g)' PROVE FALSE
      OBVIOUS
    <3>1. On(c, g) /\ Exists(g)
      BY <2>1 DEF On, Live, Exists, Calls
    <3>2. g \notin Dissolving
      <4> SUFFICES ASSUME NEW l \in Clerks, clerk[l].op = "dissolve", clerk[l].guild = g PROVE FALSE
        BY DEF Dissolving
      <4>1. clerk'[l] = clerk[l]
        BY <1>1, <2>1, ClerkStep, IdleState DEF Calls
      <4> QED
        BY <4>1 DEF Live, Dissolving
    <3> QED
      BY <2>1, <2>2, <3>1, <3>2, Free, GuildAssumption DEF Live
  <2>4. AtWork(k)'
    <3>1. clerk'[k] = v /\ v.who = c
      BY <1>1, <2>1, ClerkStep DEF Calls
    <3> QED
      BY <2>1, <3>1 DEF AtWork, StillSo
  <2>5. \A d, g : On(d, g)' <=> On(d, g)
    BY <2>1 DEF On
  <2>6. v.op # "dissolve" /\ {c} \cup v.left = {c}
    BY <2>1
  <2> QED
    BY <2>1, <2>2, <2>3, <2>4, <2>5, <2>6, CallsMove
<1>3. CASE ExpelFromGuild(k)
  <2>1. PICK c \in Present, v \in ClerkStates, g \in GuildIDs :
            /\ Calls(k, v, c) /\ v.op = "expel" /\ v.left = {} /\ v.guild = g
            /\ Exists(g) /\ UNCHANGED guildOf /\ rolls' = DropMember(g, c)
            /\ strays' = Astray({c}) \cup (IF guildOf[c] = g THEN {} ELSE {c})
    BY <1>1, <1>3, ExpelIs
  <2>2. Sensible(v) /\ c \notin Busy /\ c \in People /\ guildOf[c] = g
    BY <1>1, <2>1 DEF Calls, Sensible, Astray, GTypes, FoundedInv
  <2>3. \A h \in GuildIDs, d \in People : On(d, h)' <=> On(d, h) /\ ~(h = g /\ d = c)
    BY <1>1, <2>1, <2>2, OnChange
  <2>4. AtWork(k)'
    <3>1. clerk'[k] = v /\ v.who = c
      BY <1>1, <2>1, ClerkStep DEF Calls
    <3>2. guildOf'[c] = g /\ ~On(c, g)'
      BY <2>1, <2>2, <2>3
    <3> QED
      BY <2>1, <3>1, <3>2 DEF AtWork, StillSo
  <2>5. \A h \in GuildIDs : ~(Live(h)' /\ On(c, h)')
    <3> SUFFICES ASSUME NEW h \in GuildIDs, Live(h)', On(c, h)' PROVE FALSE
      OBVIOUS
    <3>1. On(c, h) /\ h # g /\ Exists(h)
      BY <2>1, <2>2, <2>3 DEF Live, Exists, Calls
    <3>2. h \notin Dissolving
      <4> SUFFICES ASSUME NEW l \in Clerks, clerk[l].op = "dissolve", clerk[l].guild = h PROVE FALSE
        BY DEF Dissolving
      <4>1. clerk'[l] = clerk[l]
        BY <1>1, <2>1, ClerkStep, IdleState DEF Calls
      <4> QED
        BY <4>1 DEF Live, Dissolving
    <3> QED
      BY <2>2, <3>1, <3>2, Free DEF Live
  <2>6. v.op # "dissolve" /\ {c} \cup v.left = {c}
    BY <2>1
  <2> QED
    BY <1>1, <2>1, <2>2, <2>3, <2>4, <2>5, <2>6, CallsMove
<1>4. CASE DissolveGuild(k)
  <2>1. PICK c \in Present, v \in ClerkStates, g \in GuildIDs :
            /\ Calls(k, v, c) /\ v.op = "dissolve" /\ v.left = DOMAIN rolls[g] /\ v.guild = g
            /\ g = guildOf[c] /\ Exists(g) /\ leader[g] = c
            /\ guildOf' = [guildOf EXCEPT ![c] = NoGuild] /\ UNCHANGED rolls
            /\ strays' = Astray({c} \cup DOMAIN rolls[g])
    BY <1>1, <1>4, DissolveIs
  <2>2. Sensible(v) /\ ({c} \cup v.left) \cap Busy = {} /\ c \notin Busy /\ c \in People
    BY <1>1, <2>1 DEF Calls, Sensible, Astray, GTypes, FoundedInv
  <2>3. Live(g) /\ On(c, g) /\ \A d : d \in v.left <=> On(d, g)
    BY <2>1, <2>2, Free DEF On
  <2>4. \A d, h : On(d, h)' <=> On(d, h)
    BY <2>1 DEF On
  <2>5. clerk'[k] = v /\ v.who = c /\ UNCHANGED <<gone, leader>> /\ \A l \in Clerks \ {k} : clerk'[l] = clerk[l]
    BY <1>1, <2>1, ClerkStep DEF Calls
  <2>6. \A h \in GuildIDs : Live(h)' => Live(h) /\ h # g
    <3> SUFFICES ASSUME NEW h \in GuildIDs, Live(h)' PROVE Live(h) /\ h # g
      OBVIOUS
    <3>1. clerk[k].op # "dissolve"
      BY <2>1, IdleState DEF Calls
    <3>2. h \notin Dissolving
      BY <2>5, <3>1 DEF Live, Dissolving
    <3>3. h # g
      BY <2>1, <2>5 DEF Live, Dissolving
    <3> QED
      BY <2>5, <3>2, <3>3 DEF Live, Exists
  <2>7. ASSUME NEW d \in Present \cap v.left PROVE guildOf[d] = g /\ guildOf'[d] \in {g, NoGuild}
    <3>1. d \notin Busy /\ On(d, g) /\ d \in People
      BY <1>1, <2>2, <2>3
    <3>2. guildOf[d] = g
      BY <2>3, <3>1, Free
    <3> QED
      BY <1>1, <2>1, <3>1, <3>2 DEF GTypeOK
  <2>8. AtWork(k)'
    <3>1. guildOf'[c] = NoGuild
      BY <1>1, <2>1, <2>2 DEF GTypeOK
    <3>2. Present' = Present
      BY <2>5 DEF Present
    <3> QED
      BY <2>1, <2>5, <2>7, <3>1, <3>2 DEF AtWork, StillSo
  <2>9. \A d \in Present \ ({c} \cup v.left) : guildOf'[d] = guildOf[d] /\ ~On(d, g)
    BY <1>1, <2>1, <2>3 DEF GTypeOK
  <2>10. \A d \in Present \cap ({c} \cup v.left), h \in GuildIDs : ~(Live(h)' /\ On(d, h)')
    <3> SUFFICES ASSUME NEW d \in Present \cap ({c} \cup v.left), NEW h \in GuildIDs, Live(h)', On(d, h)' PROVE FALSE
      OBVIOUS
    <3>1. Live(h) /\ h # g /\ On(d, h) /\ d \notin Busy
      BY <2>2, <2>4, <2>6
    <3>2. guildOf[d] = h /\ guildOf[d] = g
      BY <2>1, <2>7, <3>1, Free
    <3> QED
      BY <3>1, <3>2
  <2> QED
    BY <2>1, <2>2, <2>4, <2>8, <2>9, <2>10, CallsMove
<1> QED
  BY <1>2, <1>3, <1>4

LEMMA DissolvingKept ==
  ASSUME GTypeOK, NEW k \in Clerks, NEW v \in ClerkStates, clerk' = [clerk EXCEPT ![k] = v],
         clerk[k].op # "dissolve", v.op # "dissolve"
  PROVE  \A g : g \in Dissolving' <=> g \in Dissolving
<1>1. clerk'[k] = v /\ \A l \in Clerks \ {k} : clerk'[l] = clerk[l]
  BY ClerkStep
<1> QED
  BY <1>1 DEF Dissolving

\* What is so of a character a handler is at.
LEMMA AtIt ==
  ASSUME GTypes, StepsInv, NEW k \in Clerks, clerk[k].op # "idle", NEW c \in Present, c = clerk[k].who,
         NEW g, g = clerk[k].guild
  PROVE  /\ StillSo(k, c, g)
         /\ \A h \in GuildIDs : Live(h) /\ On(c, h) => guildOf[c] = h \/ (clerk[k].op = "insert" /\ g = h)
         /\ clerk[k].op = "data" => Live(g) /\ On(c, g)
<1>1. g \in GuildIDs \cup {NoGuild} /\ (clerk[k].op = "data" => g \in GuildIDs) /\ c \in People
  BY DEF GTypes, GTypeOK, ClerkStates, ClerkInv, Present
<1>2. StillSo(k, c, g) /\ CharInv(c)
  BY <1>1 DEF StepsInv, AtWork
<1>3. \A l \in Clerks \ {k} : clerk[l].op # "idle" => clerk[l].who # c
  BY <1>1, Waiting DEF StepsInv, Apart
<1>4. \A h \in GuildIDs : Founding(c, h) => clerk[k].op = "insert" /\ g = h
  BY <1>3 DEF Founding
<1>5. clerk[k].op = "data" => Settled(c) /\ guildOf[c] = g
  BY <1>2 DEF Settled, StillSo
<1> QED
  BY <1>1, <1>2, <1>4, <1>5 DEF CharInv

\* Nothing changes for anybody but him.
Alone(c) ==
    \A d \in Present \ {c} :
        /\ guildOf'[d] = guildOf[d]
        /\ \A g \in GuildIDs :
              /\ On(d, g)' => On(d, g) /\ (Exists(g)' => Exists(g))
              /\ On(d, g) /\ Live(g) => On(d, g)' /\ Exists(g)' /\ leader'[g] = leader[g]
\* He and the lists agree, as far as his handler at v lets them.
Tallies(c, v) ==
    c \in Present => \A g \in GuildIDs :
        /\ Exists(g)' /\ g \notin Dissolving /\ On(c, g)' => guildOf'[c] = g \/ (v.op = "insert" /\ v.guild = g)
        /\ v.op \in {"idle", "data"} /\ guildOf'[c] = g => Exists(g)' /\ g \notin Dissolving /\ On(c, g)'

\* A handler that is at one character goes on, and touches him alone.
LEMMA WaitsMove ==
  ASSUME GTypes, StepsInv, NEW k \in Clerks, NEW v \in ClerkStates, clerk' = [clerk EXCEPT ![k] = v], UNCHANGED gone,
         clerk[k].op \notin {"idle", "dissolve"}, NEW c, c = clerk[k].who,
         v = Idle \/ (v.who = c /\ v.left = {} /\ v.op \notin {"idle", "dissolve"}), Sensible(v) \/ Sensible(v)',
         Alone(c), Tallies(c, v),
         AtWork(k)'
  PROVE  StepsInv'
<1>1. AtWork(k) /\ clerk[k] # Idle /\ clerk[k].left = {}
  BY IdleState DEF StepsInv, AtWork
<1>2. Concerned(k) = {c} /\ Touched(k, v) = {c} /\ Concern(v) \subseteq {c}
  BY <1>1 DEF Concern, Concerned, Touched
<1>3. \A g : g \in Dissolving' <=> g \in Dissolving
  BY IdleState, DissolvingKept DEF GTypes
<1>4. \A d \in Present \ Touched(k, v) :
         /\ guildOf'[d] = guildOf[d]
         /\ \A g \in GuildIDs :
               /\ On(d, g)' => On(d, g) /\ (Live(g)' => Live(g))
               /\ On(d, g) /\ Live(g) => On(d, g)' /\ Live(g)' /\ leader'[g] = leader[g]
  BY <1>2, <1>3 DEF Live, Alone
<1>5. (Concern(v) \ Concerned(k)) \cap Busy = {}
  BY <1>2
<1>6. \A d \in Touched(k, v) : Settled(d)' => d \notin Concern(v) \/ (v.op = "data" /\ v.who = d)
  BY <1>5, ClerkMoves DEF StepsInv
<1>7. ASSUME c \in Present PROVE CharInv(c)'
  <2>1. Settled(c)' => v.op \in {"idle", "data"}
    BY <1>2, <1>6, IdleState DEF Concern
  <2>2. clerk'[k] = v
    BY ClerkStep DEF GTypes
  <2>3. \A g \in GuildIDs : v.op = "insert" /\ v.guild = g => Founding(c, g)'
    BY <2>2, IdleState DEF Founding
  <2> QED
    BY <1>3, <1>7, <2>1, <2>3 DEF CharInv, Live, Tallies
<1>8. \A d \in Present \cap Touched(k, v) : CharInv(d)'
  BY <1>2, <1>7
<1> QED
  BY <1>4, <1>5, <1>8, Moves

LEMMA WaitsEnd ==
  ASSUME GTypes, StepsInv, NEW k \in Clerks, clerk' = [clerk EXCEPT ![k] = Idle], UNCHANGED gone,
         clerk[k].op \notin {"idle", "dissolve"}, NEW c, c = clerk[k].who, Alone(c), Tallies(c, Idle)
  PROVE  StepsInv'
<1>1. Idle \in ClerkStates /\ Sensible(Idle)
  BY IdleState
<1>2. AtWork(k)'
  <2>1. clerk'[k] = Idle
    BY <1>1, ClerkStep DEF GTypes
  <2> QED
    BY <2>1, IdleState DEF AtWork, StillSo
<1> QED
  BY <1>1, <1>2, WaitsMove

LEMMA WaitsSteps ==
  ASSUME GTypes, StepsInv, NEW k \in Clerks, strays' = {},
         NameTaken(k) \/ InsertGuild(k) \/ Founded(k) \/ PayFee(k) \/ JoinGuild(k) \/ Expelled(k)
  PROVE  StepsInv'
<1>1. GTypeOK /\ ClerkInv /\ FoundedInv /\ Present \subseteq People
  BY DEF GTypes, Present
<1>2. PICK c, g0 : c = clerk[k].who /\ g0 = clerk[k].guild
  OBVIOUS
<1>3. clerk[k].op \notin {"idle", "dissolve"} /\ UNCHANGED gone
  BY DEF NameTaken, InsertGuild, Founded, PayFee, JoinGuild, Expelled
<1>4. /\ c \in People /\ clerk[k] \in ClerkStates /\ clerk[k].left = {}
      /\ clerk[k].op \in {"insert", "data", "expel"} => g0 \in founded /\ g0 \in GuildIDs
  BY <1>1, <1>2, <1>3 DEF ClerkInv, GTypeOK, StepsInv, AtWork
<1>5. c \in Present =>
         /\ StillSo(k, c, g0)
         /\ \A h \in GuildIDs : Live(h) /\ On(c, h) => guildOf[c] = h \/ (clerk[k].op = "insert" /\ g0 = h)
         /\ clerk[k].op = "data" => Live(g0) /\ On(c, g0)
  BY <1>2, <1>3, AtIt
<1>6. NoGuild \notin GuildIDs
  BY GuildAssumption
<1>9. CASE NameTaken(k) \/ PayFee(k)
  <2>1. UNCHANGED <<guildOf, rolls, leader>> /\ clerk' = [clerk EXCEPT ![k] = Idle] /\ clerk[k].op \in {"name", "data"}
    BY <1>9 DEF NameTaken, PayFee
  <2>2. \A d, g : (On(d, g)' <=> On(d, g)) /\ (Exists(g)' <=> Exists(g))
    BY <2>1 DEF On, Exists
  <2>3. Tallies(c, Idle)
    BY IdleState, <1>5, <1>6, <2>1, <2>2 DEF Live, StillSo, Tallies
  <2>4. Alone(c)
    BY <2>1, <2>2 DEF Live, Alone
  <2> QED
    BY <1>2, <1>3, <2>1, <2>3, <2>4, WaitsEnd
<1>10. CASE InsertGuild(k)
  <2>1. PICK r : r = [d \in {c} |-> LEADER]
    OBVIOUS
  <2>2. PICK g \in GuildIDs :
          /\ g \notin founded /\ rolls' = [rolls EXCEPT ![g] = r]
          /\ leader' = [leader EXCEPT ![g] = c]
          /\ clerk' = [clerk EXCEPT ![k] = At("insert", c, NoGuild, g, {})]
    BY <1>2, <1>10, <2>1 DEF InsertGuild
  <2>3. UNCHANGED guildOf /\ clerk[k].op = "name" /\ founded' = founded \cup {g}
    <3>1. g \in founded'
      <4>1. clerk'[k].guild = g /\ clerk'[k].op = "insert"
        BY <1>1, <2>2, <1>4, ClerkStep DEF At, GTypeOK
      <4>2. PICK h \in GuildIDs : founded' = founded \cup {h} /\ clerk' = [clerk EXCEPT ![k] = At("insert", c, NoGuild, h, {})]
        BY <1>2, <1>10 DEF InsertGuild
      <4>3. clerk'[k].guild = h
        BY <1>1, <4>2 DEF At, GTypeOK
      <4> QED
        BY <4>1, <4>2, <4>3
    <3>2. PICK h \in GuildIDs : founded' = founded \cup {h}
      BY <1>10 DEF InsertGuild
    <3>3. h = g
      BY <2>2, <3>1, <3>2
    <3> QED
      BY <1>10, <3>2, <3>3 DEF InsertGuild
  <2>4. PICK v : v = At("insert", c, NoGuild, g, {})
    OBVIOUS
  <2>5. v \in ClerkStates /\ Sensible(v)' /\ v.op = "insert" /\ v.who = c /\ v.left = {} /\ v.guild = g
    BY <1>4, <2>2, <2>3, <2>4 DEF ClerkStates, At, Sensible
  <2>6. ~Exists(g) /\ g \notin Dissolving
    BY <1>1, <2>2 DEF FoundedInv, Dissolving, ClerkInv
  <2>7. Exists(g)' /\ leader'[g] = c
    BY <1>1, <1>4, <2>2, GuildAssumption DEF Exists, GTypeOK
  <2>8. \A h \in GuildIDs : h # g => (Exists(h)' <=> Exists(h)) /\ leader'[h] = leader[h] /\ \A d \in People : On(d, h)' <=> On(d, h)
    BY <1>1, <2>2 DEF Exists, On, GTypeOK
  <2>9. \A d \in People : On(d, g)' <=> d = c
    <3>1. rolls'[g] = r
      BY <1>1, <2>2 DEF GTypeOK
    <3>2. DOMAIN rolls'[g] = {c}
      BY <2>1, <3>1
    <3> QED
      BY <3>2 DEF On
  <2>10. AtWork(k)'
    <3>1. clerk'[k] = v
      BY <1>1, <2>2, <2>4, <2>5, ClerkStep
    <3>2. g \notin Dissolving'
      BY <1>1, <1>3, <2>2, <2>4, <2>5, <2>6, DissolvingKept
    <3>3. c \in Present => guildOf'[c] = NoGuild
      BY <1>5, <2>3 DEF StillSo
    <3>4. Present' = Present
      BY <1>3 DEF Present
    <3> QED
      BY <1>4, <2>5, <2>7, <2>9, <3>1, <3>2, <3>3, <3>4 DEF AtWork, StillSo, Live
  <2>11. Alone(c)
    BY <1>1, <2>3, <2>6, <2>8, <2>9 DEF Live, Alone
  <2>12. Tallies(c, v)
    BY <1>4, <1>5, <2>3, <2>5, <2>8 DEF Live, Tallies
  <2>13. clerk' = [clerk EXCEPT ![k] = v] /\ v.op \notin {"idle", "dissolve"}
    BY <2>2, <2>4, <2>5
  <2> QED
    BY <1>2, <1>3, <2>5, <2>10, <2>11, <2>12, <2>13, WaitsMove
<1>11. CASE Founded(k)
  <2>1. /\ UNCHANGED <<rolls, leader>> /\ clerk[k].op = "insert" /\ UNCHANGED founded
        /\ guildOf' = [guildOf EXCEPT ![c] = g0] /\ clerk' = [clerk EXCEPT ![k].op = "data"]
    BY <1>2, <1>11 DEF Founded
  <2>2. PICK v : v = [clerk[k] EXCEPT !.op = "data"]
    OBVIOUS
  <2>3. /\ v \in ClerkStates /\ v.op = "data" /\ v.who = c /\ v.left = {} /\ v.guild = g0
        /\ clerk' = [clerk EXCEPT ![k] = v]
    BY <1>2, <1>4, <2>1, <2>2 DEF ClerkStates
  <2>4. Sensible(v)
    BY <1>4, <2>1, <2>3 DEF Sensible
  <2>5. \A d, g : (On(d, g)' <=> On(d, g)) /\ (Exists(g)' <=> Exists(g))
    BY <2>1 DEF On, Exists
  <2>6. guildOf'[c] = g0 /\ \A d \in People \ {c} : guildOf'[d] = guildOf[d]
    BY <1>1, <1>4, <2>1 DEF GTypeOK
  <2>7. AtWork(k)'
    <3>1. clerk'[k] = v /\ Present' = Present
      BY <1>1, <1>3, <2>3, ClerkStep DEF Present
    <3>2. c \in Present => leader'[g0] = c
      BY <1>5, <2>1 DEF StillSo
    <3> QED
      BY <2>3, <2>6, <3>1, <3>2 DEF AtWork, StillSo
  <2>8. Tallies(c, v)
    BY <1>5, <1>6, <2>1, <2>5, <2>6 DEF Live, StillSo, Tallies
  <2>9. Alone(c)
    BY <1>1, <2>1, <2>5, <2>6 DEF Live, Alone
  <2> QED
    BY <1>2, <1>3, <2>3, <2>4, <2>7, <2>8, <2>9, WaitsMove
<1>12. CASE JoinGuild(k)
  <2>1. clerk[k].op = "answer" /\ UNCHANGED leader /\ clerk' = [clerk EXCEPT ![k] = Idle]
    BY <1>12 DEF JoinGuild
  <2>2. PICK g : g = guildOf[clerk[k].other]
    OBVIOUS
  <2>3. \A h : Exists(h)' <=> Exists(h)
    BY <2>1 DEF Exists
  <2>4. CASE Exists(g)
    <3>1. /\ g \in GuildIDs /\ rolls' = AddMember(g, c) /\ guildOf' = [guildOf EXCEPT ![c] = g]
          /\ g \notin Dissolving
      BY <1>2, <1>12, <2>2, <2>4 DEF JoinGuild, Exists
    <3>2. \A h \in GuildIDs, d \in People : On(d, h)' <=> On(d, h) \/ (h = g /\ d = c)
      BY <1>1, <1>4, <3>1, OnChange
    <3>3. guildOf'[c] = g /\ \A d \in People \ {c} : guildOf'[d] = guildOf[d]
      BY <1>1, <1>4, <3>1 DEF GTypeOK
    <3>4. Tallies(c, Idle)
      BY IdleState, <1>4, <1>5, <1>6, <2>1, <2>3, <2>4, <3>1, <3>2, <3>3 DEF Live, StillSo, Tallies
    <3>5. Alone(c)
      BY <1>1, <2>1, <2>3, <3>2, <3>3 DEF Live, Alone
    <3> QED
      BY <1>2, <1>3, <2>1, <3>4, <3>5, WaitsEnd
  <2>5. CASE ~Exists(g)
    <3>1. UNCHANGED <<rolls, guildOf>>
      BY <1>12, <2>2, <2>5 DEF JoinGuild
    <3>2. \A d, h : On(d, h)' <=> On(d, h)
      BY <3>1 DEF On
    <3>3. Tallies(c, Idle)
      BY IdleState, <1>5, <1>6, <2>1, <2>3, <3>1, <3>2 DEF Live, StillSo, Tallies
    <3>4. Alone(c)
      BY <2>1, <2>3, <3>1, <3>2 DEF Live, Alone
    <3> QED
      BY <1>2, <1>3, <2>1, <3>3, <3>4, WaitsEnd
  <2> QED
    BY <2>4, <2>5
<1>13. CASE Expelled(k)
  <2>1. /\ clerk[k].op = "expel" /\ UNCHANGED <<rolls, leader>> /\ clerk' = [clerk EXCEPT ![k] = Idle]
        /\ guildOf' = [guildOf EXCEPT ![c] = NoGuild]
    BY <1>2, <1>13 DEF Expelled
  <2>2. \A d, g : (On(d, g)' <=> On(d, g)) /\ (Exists(g)' <=> Exists(g))
    BY <2>1 DEF On, Exists
  <2>3. guildOf'[c] = NoGuild /\ \A d \in People \ {c} : guildOf'[d] = guildOf[d]
    BY <1>1, <1>4, <2>1 DEF GTypeOK
  <2>4. Tallies(c, Idle)
    BY IdleState, <1>5, <1>6, <2>1, <2>2, <2>3 DEF Live, StillSo, Tallies
  <2>5. Alone(c)
    BY <1>1, <2>1, <2>2, <2>3 DEF Live, Alone
  <2> QED
    BY <1>2, <1>3, <2>1, <2>4, <2>5, WaitsEnd
<1> QED
  BY <1>9, <1>10, <1>11, <1>12, <1>13


LEMMA DissolveSteps ==
  ASSUME GTypes, StepsInv, NEW k \in Clerks, ClearMember(k) \/ DeleteGuild(k)
  PROVE  StepsInv'
<1>1. GTypeOK /\ ClerkInv /\ FoundedInv /\ Present \subseteq People /\ Present' = Present
  BY DEF GTypes, Present, ClearMember, DeleteGuild
<1>2. PICK c, g : c = clerk[k].who /\ g = clerk[k].guild
  OBVIOUS
<1>3. clerk[k].op = "dissolve" /\ UNCHANGED <<gone, rolls>>
  BY DEF ClearMember, DeleteGuild
<1>4. /\ c \in People /\ clerk[k] \in ClerkStates /\ clerk[k].left \subseteq People
      /\ g \in GuildIDs /\ g \in Dissolving
  BY <1>1, <1>2, <1>3 DEF ClerkInv, GTypeOK, ClerkStates, Dissolving
<1>5. c \in Present =>
         /\ guildOf[c] = NoGuild
         /\ \A h \in GuildIDs : ~(Live(h) /\ On(c, h))
  BY <1>2, <1>3, AtIt, GuildAssumption DEF StillSo
<1>6. Concerned(k) = {c} \cup clerk[k].left
  BY <1>2, <1>3, IdleState DEF Concerned
<1>7. \A d, h : On(d, h)' <=> On(d, h)
  BY <1>3 DEF On
<1>8. NoGuild \notin GuildIDs
  BY GuildAssumption
<1>9. CASE ClearMember(k)
  <2>1. PICK m \in clerk[k].left :
          /\ guildOf' = [guildOf EXCEPT ![m] = NoGuild]
          /\ clerk' = [clerk EXCEPT ![k].left = clerk[k].left \ {m}]
    BY <1>9 DEF ClearMember
  <2>2. PICK v : v = [clerk[k] EXCEPT !.left = clerk[k].left \ {m}]
    OBVIOUS
  <2>3. v \in ClerkStates /\ v.op = "dissolve" /\ v.who = c /\ v.guild = g /\ v.left = clerk[k].left \ {m}
    BY <1>2, <1>3, <1>4, <2>2 DEF ClerkStates
  <2>4. clerk' = [clerk EXCEPT ![k] = v] /\ UNCHANGED <<leader, founded>>
    BY <1>9, <2>1, <2>2 DEF ClearMember
  <2>5. Sensible(v) /\ v # Idle
    BY <1>1, <1>2, <1>3, <1>4, <2>3, IdleState DEF Sensible, ClerkInv
  <2>6. Concern(v) = {c} \cup (clerk[k].left \ {m}) /\ Touched(k, v) = Concerned(k)
    BY <1>6, <2>1, <2>3, <2>5 DEF Concern, Touched
  <2>7. (Concern(v) \ Concerned(k)) \cap Busy = {}
    BY <1>6, <2>6
  <2>8. /\ \A d \in Touched(k, v) : Settled(d)' => d \notin Concern(v) \/ (v.op = "data" /\ v.who = d)
        /\ \A d \in Touched(k, v), h \in GuildIDs :
               Founding(d, h) => clerk[k].op = "insert" /\ clerk[k].who = d /\ clerk[k].guild = h
        /\ \A h \in GuildIDs : h \in Dissolving' => h \in Dissolving \/ (v.op = "dissolve" /\ v.guild = h)
    BY <2>4, <2>5, <2>7, <2>3, ClerkMoves DEF StepsInv
  <2>9. clerk'[k] = v
    BY <1>1, <2>3, <2>4, ClerkStep
  <2>10. \A h \in GuildIDs : Live(h)' <=> Live(h)
    <3>1. \A l \in Clerks \ {k} : clerk'[l] = clerk[l]
      BY <1>1, <2>3, <2>4, ClerkStep
    <3>2. \A h : h \in Dissolving => h \in Dissolving'
      BY <1>2, <2>3, <2>9, <3>1 DEF Dissolving
    <3> QED
      BY <1>4, <2>3, <2>4, <2>8, <3>2 DEF Live, Exists
  <2>11. guildOf'[m] = NoGuild /\ m \in People /\ \A d \in People \ {m} : guildOf'[d] = guildOf[d]
    BY <1>1, <1>4, <2>1 DEF GTypeOK
  <2>12. \A d \in Present \cap clerk[k].left : guildOf[d] \in {g, NoGuild}
    BY <1>2, <1>3 DEF StepsInv, AtWork
  <2>13. AtWork(k)'
    <3>1. c \in Present => guildOf'[c] = NoGuild
      BY <1>4, <1>5, <2>11
    <3>2. \A d \in v.left \cap Present : guildOf'[d] \in {g, NoGuild}
      BY <1>1, <2>3, <2>11, <2>12
    <3> QED
      BY <1>1, <2>3, <2>9, <3>1, <3>2 DEF AtWork, StillSo
  <2>14. ASSUME NEW d \in Present \cap Touched(k, v) PROVE CharInv(d)'
    <3>1. ASSUME NEW h \in GuildIDs, Live(h), On(d, h) PROVE FALSE
      <4>1. d # c /\ d \in clerk[k].left
        BY <1>5, <1>6, <2>6, <3>1
      <4>2. guildOf[d] # h
        BY <1>4, <1>8, <2>12, <3>1, <4>1 DEF Live
      <4>3. ~Founding(d, h)
        BY <1>3, <2>8
      <4> QED
        BY <3>1, <4>2, <4>3 DEF StepsInv, CharInv
    <3>2. Settled(d)' => d = m
      BY <1>6, <2>3, <2>6, <2>8
    <3> QED
      BY <1>7, <1>8, <2>10, <2>11, <3>1, <3>2 DEF CharInv
  <2>15. \A d \in Present \ Touched(k, v) :
            /\ guildOf'[d] = guildOf[d]
            /\ \A h \in GuildIDs :
                  /\ On(d, h)' => On(d, h) /\ (Live(h)' => Live(h))
                  /\ On(d, h) /\ Live(h) => On(d, h)' /\ Live(h)' /\ leader'[h] = leader[h]
    BY <1>1, <1>6, <1>7, <2>4, <2>6, <2>10, <2>11
  <2> QED
    BY <1>3, <2>3, <2>4, <2>5, <2>7, <2>13, <2>14, <2>15, Moves
<1>10. CASE DeleteGuild(k)
  <2>1. /\ clerk[k].left = {} /\ Deleted(g) /\ clerk' = [clerk EXCEPT ![k] = Idle]
        /\ UNCHANGED guildOf
    BY <1>2, <1>10 DEF DeleteGuild
  <2>2. Idle \in ClerkStates /\ Sensible(Idle) /\ Idle.op = "idle" /\ Concern(Idle) = {}
    BY IdleState DEF Concern
  <2>3. Touched(k, Idle) = {c} /\ (Concern(Idle) \ Concerned(k)) \cap Busy = {}
    BY <1>6, <2>1, <2>2 DEF Touched
  <2>4. /\ \A h \in GuildIDs : h \in Dissolving' => h \in Dissolving \/ (Idle.op = "dissolve" /\ Idle.guild = h)
        /\ \A h \in GuildIDs : h \in Dissolving => h \in Dissolving' \/ (clerk[k].op = "dissolve" /\ clerk[k].guild = h)
    BY <2>1, <2>2, <2>3, ClerkMoves DEF StepsInv
  <2>5. ~Exists(g)' /\ \A h \in GuildIDs \ {g} : (Exists(h)' <=> Exists(h)) /\ leader'[h] = leader[h]
    BY <1>1, <1>4, <2>1 DEF Deleted, Exists, GTypeOK
  <2>6. \A h \in GuildIDs : (Live(h)' => Live(h)) /\ (Live(h) => Live(h)' /\ leader'[h] = leader[h])
    BY <1>2, <1>4, <2>2, <2>4, <2>5 DEF Live
  <2>7. AtWork(k)'
    <3>1. clerk'[k] = Idle
      BY <1>1, <2>1, <2>2, ClerkStep
    <3> QED
      BY <3>1, IdleState DEF AtWork, StillSo
  <2>8. \A d \in Present \cap Touched(k, Idle) : CharInv(d)'
    BY <1>5, <1>7, <1>8, <2>1, <2>3, <2>6 DEF CharInv
  <2>9. \A d \in Present \ Touched(k, Idle) :
            /\ guildOf'[d] = guildOf[d]
            /\ \A h \in GuildIDs :
                  /\ On(d, h)' => On(d, h) /\ (Live(h)' => Live(h))
                  /\ On(d, h) /\ Live(h) => On(d, h)' /\ Live(h)' /\ leader'[h] = leader[h]
    BY <1>7, <2>1, <2>6
  <2> QED
    BY <1>3, <2>1, <2>2, <2>3, <2>7, <2>8, <2>9, Moves
<1> QED
  BY <1>9, <1>10

\* The steps of no handler that waits: those they are about are untouched.
LEMMA Strolls ==
  ASSUME GTypes, StepsInv, UNCHANGED clerk, Present' \subseteq Present, NEW T, T \cap Busy = {},
         \A d \in Present' \ T :
            /\ guildOf'[d] = guildOf[d]
            /\ \A g \in GuildIDs :
                  /\ On(d, g)' => On(d, g) /\ (Exists(g)' => Exists(g))
                  /\ On(d, g) /\ Live(g) => On(d, g)' /\ Exists(g)' /\ leader'[g] = leader[g],
         \A d \in Present' \cap T, g \in GuildIDs :
            Exists(g)' /\ g \notin Dissolving /\ On(d, g)' <=> guildOf'[d] = g
  PROVE  StepsInv'
<1>1. Busy' = Busy /\ Dissolving' = Dissolving /\ \A k \in Clerks : Concerned(k)' = Concerned(k)
  BY DEF Busy, Dissolving, Concerned
<1>2. Apart'
  BY <1>1 DEF StepsInv, Apart
<1>3. \A d : (Settled(d)' <=> Settled(d)) /\ \A g : Founding(d, g)' <=> Founding(d, g)
  BY <1>1 DEF Settled, Founding
<1>4. \A g : Live(g)' <=> Exists(g)' /\ g \notin Dissolving
  BY <1>1 DEF Live
<1>5. PICK K : K = {}
  OBVIOUS
<1>6. \A l \in Clerks \ K : clerk'[l] = clerk[l] /\ Concerned(l) \cap T = {}
  BY Waiting
<1>7. \A d \in Present' \ T :
        /\ guildOf'[d] = guildOf[d] /\ (Settled(d)' => Settled(d))
        /\ \A g \in GuildIDs :
              /\ On(d, g)' => On(d, g) /\ (Live(g)' => Live(g))
              /\ On(d, g) /\ Live(g) => On(d, g)' /\ Live(g)' /\ leader'[g] = leader[g]
              /\ Founding(d, g) => Founding(d, g)'
  BY <1>3, <1>4 DEF Live
<1>8. (\A d \in Present' \ T : CharInv(d)') /\ (\A l \in Clerks \ K : AtWork(l)')
  BY <1>6, <1>7, Bystanders
<1>9. \A d \in Present' \cap T : CharInv(d)'
  BY <1>4 DEF CharInv
<1> QED
  BY <1>2, <1>5, <1>8, <1>9 DEF StepsInv


LEMMA OthersSteps ==
  ASSUME GTypes, StepsInv, strays' = {},
         \/ LeaveGuild \/ ChangeRole \/ ChangeGuildLogo \/ AddGuild \/ ChangeFaction \/ DeleteCharacter
         \/ BeginUpdate \/ EndUpdate \/ UNCHANGED gvars
  PROVE  StepsInv'
<1>1. GTypeOK /\ FoundedInv /\ Present \subseteq People
  BY DEF GTypes, Present
<1>2. UNCHANGED clerk
  BY DEF LeaveGuild, ChangeRole, ChangeGuildLogo, AddGuild, ChangeFaction, DeleteCharacter, BeginUpdate, EndUpdate, gvars
<1>3. NoGuild \notin GuildIDs
  BY GuildAssumption
<1>4. PICK T : T = {}
  OBVIOUS
<1>5. ASSUME UNCHANGED <<gone, leader>>, \A d \in Present : guildOf'[d] = guildOf[d] /\ \A g \in GuildIDs : On(d, g)' <=> On(d, g)
      PROVE  StepsInv'
  <2>1. Present' = Present /\ \A g : Exists(g)' <=> Exists(g)
    BY <1>5 DEF Present, Exists
  <2> QED
    BY <1>2, <1>4, <1>5, <2>1, Strolls DEF Live
\* Somebody no handler is about goes, or joins a guild that stays.
<1>6. ASSUME UNCHANGED <<gone, leader>>, NEW c \in Present, c \notin Busy,
             NEW g \in GuildIDs, guildOf[c] \in {g, NoGuild},
             \/ guildOf' = [guildOf EXCEPT ![c] = NoGuild] /\ rolls' = DropMember(g, c) /\ guildOf[c] = g
             \/ guildOf' = [guildOf EXCEPT ![c] = g] /\ rolls' = AddMember(g, c) /\ Live(g)
      PROVE  StepsInv'
  <2>1. Present' = Present /\ c \in People /\ \A h : Exists(h)' <=> Exists(h)
    BY <1>1, <1>6 DEF Present, Exists
  <2>2. /\ \A h \in GuildIDs : Live(h) /\ On(c, h) => guildOf[c] = h
        /\ \A h \in GuildIDs : guildOf[c] = h => Live(h) /\ On(c, h)
    BY <1>6, Free
  <2>3. PICK U : U = {c}
    OBVIOUS
  <2>4. \A d \in People \ {c} : guildOf'[d] = guildOf[d] /\ \A h \in GuildIDs : On(d, h)' <=> On(d, h)
    BY <1>1, <1>6, <2>1, OnChange DEF GTypeOK
  <2>5. \A h \in GuildIDs : Exists(h)' /\ h \notin Dissolving /\ On(c, h)' <=> guildOf'[c] = h
    <3>1. CASE guildOf' = [guildOf EXCEPT ![c] = NoGuild] /\ rolls' = DropMember(g, c) /\ guildOf[c] = g
      <4>1. guildOf'[c] = NoGuild
        BY <1>1, <2>1, <3>1 DEF GTypeOK
      <4>2. \A h \in GuildIDs : On(c, h)' <=> On(c, h) /\ h # g
        BY <1>1, <1>6, <2>1, <3>1, OnChange
      <4> QED
        BY <1>3, <2>1, <2>2, <3>1, <4>1, <4>2 DEF Live
    <3>2. CASE guildOf' = [guildOf EXCEPT ![c] = g] /\ rolls' = AddMember(g, c) /\ Live(g)
      <4>1. guildOf'[c] = g
        BY <1>1, <2>1, <3>2 DEF GTypeOK
      <4>2. \A h \in GuildIDs : On(c, h)' <=> On(c, h) \/ h = g
        BY <1>1, <1>6, <2>1, <3>2, OnChange
      <4> QED
        BY <1>3, <1>6, <2>1, <2>2, <3>2, <4>1, <4>2 DEF Live
    <3> QED
      BY <1>6, <3>1, <3>2
  <2>6. \A d \in Present' \ U :
            /\ guildOf'[d] = guildOf[d]
            /\ \A h \in GuildIDs :
                  /\ On(d, h)' => On(d, h) /\ (Exists(h)' => Exists(h))
                  /\ On(d, h) /\ Live(h) => On(d, h)' /\ Exists(h)' /\ leader'[h] = leader[h]
    BY <1>1, <1>6, <2>1, <2>3, <2>4 DEF Live
  <2>7. \A d \in Present' \cap U, h \in GuildIDs : Exists(h)' /\ h \notin Dissolving /\ On(d, h)' <=> guildOf'[d] = h
    BY <2>3, <2>5
  <2>8. U \cap Busy = {} /\ Present' \subseteq Present
    BY <1>6, <2>1, <2>3
  <2> QED
    BY <1>2, <2>6, <2>7, <2>8, Strolls
<1>7. CASE LeaveGuild
  <2>1. PICK c \in Present, g \in GuildIDs :
          /\ guildOf[c] = g /\ guildOf' = [guildOf EXCEPT ![c] = NoGuild] /\ rolls' = DropMember(g, c)
          /\ strays' = Astray({c}) /\ UNCHANGED <<gone, leader>>
    BY <1>7 DEF LeaveGuild, Exists
  <2>2. c \notin Busy
    BY <2>1 DEF Astray
  <2> QED
    BY <1>6, <2>1, <2>2
<1>8. CASE AddGuild
  <2>1. UNCHANGED <<gone, leader>>
    BY <1>8 DEF AddGuild
  <2>2. PICK c \in Present :
          \/ /\ Exists(guildOf[c]) /\ rolls' = DropMember(guildOf[c], c)
             /\ guildOf' = [guildOf EXCEPT ![c] = NoGuild] /\ strays' = Astray({c})
          \/ \E g \in GuildIDs :
              /\ Exists(g) /\ rolls' = AddMember(g, c) /\ guildOf' = [guildOf EXCEPT ![c] = g]
              /\ strays' = IF guildOf[c] # NoGuild \/ g \in Dissolving THEN strays \cup {c} ELSE Astray({c})
    BY <1>8 DEF AddGuild
  <2>3. CASE /\ Exists(guildOf[c]) /\ rolls' = DropMember(guildOf[c], c)
             /\ guildOf' = [guildOf EXCEPT ![c] = NoGuild] /\ strays' = Astray({c})
    <3>1. PICK g \in GuildIDs : g = guildOf[c]
      BY <2>3 DEF Exists
    <3>2. c \notin Busy
      BY <2>3 DEF Astray
    <3> QED
      BY <1>6, <2>1, <2>3, <3>1, <3>2
  <2>4. CASE \E g \in GuildIDs :
              /\ Exists(g) /\ rolls' = AddMember(g, c) /\ guildOf' = [guildOf EXCEPT ![c] = g]
              /\ strays' = IF guildOf[c] # NoGuild \/ g \in Dissolving THEN strays \cup {c} ELSE Astray({c})
    <3>1. PICK g \in GuildIDs :
              /\ Exists(g) /\ rolls' = AddMember(g, c) /\ guildOf' = [guildOf EXCEPT ![c] = g]
              /\ strays' = IF guildOf[c] # NoGuild \/ g \in Dissolving THEN strays \cup {c} ELSE Astray({c})
      BY <2>4
    <3>2. guildOf[c] = NoGuild /\ g \notin Dissolving /\ strays' = Astray({c})
      BY <3>1
    <3>3. c \notin Busy /\ Live(g)
      BY <3>1, <3>2 DEF Astray, Live
    <3> QED
      BY <1>6, <2>1, <3>1, <3>2, <3>3
  <2> QED
    BY <2>2, <2>3, <2>4
<1>9. CASE ChangeRole
  <2>1. PICK g \in GuildIDs, m \in Present, r \in Ranks :
          m \in DOMAIN rolls[g] /\ rolls' = [rolls EXCEPT ![g][m] = r]
    BY <1>9 DEF ChangeRole, Exists
  <2>2. \A h \in GuildIDs : DOMAIN rolls'[h] = DOMAIN rolls[h]
    BY <1>1, <2>1, RoleChange
  <2>3. UNCHANGED <<guildOf, gone, leader>>
    BY <1>9 DEF ChangeRole
  <2> QED
    BY <1>5, <2>2, <2>3 DEF On
<1>10. CASE ChangeGuildLogo \/ BeginUpdate \/ EndUpdate \/ UNCHANGED gvars
  <2>1. UNCHANGED <<guildOf, rolls, gone, leader>>
    BY <1>10 DEF ChangeGuildLogo, BeginUpdate, EndUpdate, gvars
  <2> QED
    BY <1>5, <2>1 DEF On
<1>11. CASE ChangeFaction
  <2>1. PICK S \in SUBSET Present :
          /\ guildOf' = [d \in People |-> IF d \in S THEN NoGuild ELSE guildOf[d]]
          /\ strays' = Astray(S) \cup {d \in S : guildOf[d] # NoGuild}
          /\ UNCHANGED <<rolls, gone, leader>>
    BY <1>11 DEF ChangeFaction
  <2>2. \A d \in S : guildOf[d] = NoGuild
    BY <2>1
  <2>3. \A d \in Present : guildOf'[d] = guildOf[d]
    BY <1>1, <2>1, <2>2
  <2> QED
    BY <1>5, <2>1, <2>3 DEF On
<1>12. CASE DeleteCharacter
  <2>1. PICK c \in Present, g \in GuildIDs \cup {NoGuild} :
          /\ g = guildOf[c] /\ gone' = gone \cup {c} /\ UNCHANGED guildOf
          /\ \/ UNCHANGED <<rolls, leader>>
             \/ g \in GuildIDs /\ leader[g] = c /\ Deleted(g) /\ strays' = strays \cup DOMAIN rolls[g] /\ UNCHANGED rolls
             \/ g \in GuildIDs /\ rolls' = DropMember(g, c) /\ UNCHANGED leader
    BY <1>1, <1>12 DEF DeleteCharacter, Exists, GTypeOK
  <2>2. Present' = Present \ {c} /\ c \in People
    BY <1>1, <2>1 DEF Present
  <2>3. CASE UNCHANGED <<rolls, leader>>
    <3>1. \A d, h : (On(d, h)' <=> On(d, h)) /\ (Exists(h)' <=> Exists(h))
      BY <2>3 DEF On, Exists
    <3> QED
      BY <1>2, <1>4, <2>1, <2>2, <2>3, <3>1, Strolls DEF Live
  <2>4. CASE g \in GuildIDs /\ leader[g] = c /\ Deleted(g) /\ strays' = strays \cup DOMAIN rolls[g] /\ UNCHANGED rolls
    <3>1. \A d, h : On(d, h)' <=> On(d, h)
      BY <2>4 DEF On
    <3>2. ~Exists(g)' /\ \A h \in GuildIDs \ {g} : (Exists(h)' <=> Exists(h)) /\ leader'[h] = leader[h]
      BY <1>1, <2>4 DEF Deleted, Exists, GTypeOK
    <3>3. \A d : ~On(d, g)
      BY <2>4 DEF On
    <3> QED
      BY <1>2, <1>4, <2>1, <2>2, <3>1, <3>2, <3>3, Strolls DEF Live
  <2>5. CASE g \in GuildIDs /\ rolls' = DropMember(g, c) /\ UNCHANGED leader
    <3>1. \A d \in People \ {c}, h \in GuildIDs : On(d, h)' <=> On(d, h)
      BY <1>1, <2>2, <2>5, OnChange
    <3>2. \A h : Exists(h)' <=> Exists(h)
      BY <2>5 DEF Exists
    <3> QED
      BY <1>1, <1>2, <1>4, <2>1, <2>2, <2>5, <3>1, <3>2, Strolls DEF Live
  <2> QED
    BY <2>1, <2>3, <2>4, <2>5
<1> QED
  BY <1>7, <1>8, <1>9, <1>10, <1>11, <1>12

\* A character that went astray stays so.
LEMMA StraysStay ==
  ASSUME [GNext]_gvars PROVE strays \subseteq strays'
  BY DEF GNext, gvars, Astray, LeaveGuild, ChangeRole, ChangeGuildLogo, AddGuild, ChangeFaction, DeleteCharacter,
         BeginUpdate, EndUpdate, CreateGuild, NameTaken, InsertGuild, Founded, PayFee, RespondGuildRequest,
         JoinGuild, ExpelFromGuild, Expelled, DissolveGuild, ClearMember, DeleteGuild

GInv == GTypes /\ WritesInv /\ (strays = {} => StepsInv)

LEMMA GInitInv == GInit => GInv
<1> SUFFICES ASSUME GInit PROVE GInv
  OBVIOUS
<1>1. /\ guildOf = [c \in People |-> NoGuild] /\ leader = [g \in GuildIDs |-> NoGuild]
      /\ rolls = [g \in GuildIDs |-> NoRoll] /\ rollRow = rolls /\ founded = {} /\ gone = {}
      /\ clerk = [k \in Clerks |-> Idle] /\ due = {} /\ writes = {} /\ strays = {} /\ crossed = {}
  BY DEF GInit
<1>2. GTypeOK
  BY <1>1, EmptyRoll, IdleState DEF GTypeOK
<1>3. ClerkInv /\ \A k \in Clerks : clerk[k] = Idle /\ Concerned(k) = {}
  BY <1>1, IdleState DEF ClerkInv, Concerned
<1>4. FoundedInv /\ \A g \in GuildIDs : ~Exists(g)
  BY <1>1 DEF FoundedInv, Exists
<1>5. WritesInv
  BY <1>1, <1>4 DEF WritesInv, RowInv
<1>6. Apart /\ \A k \in Clerks : AtWork(k)
  BY <1>3, IdleState DEF Apart, AtWork, StillSo
<1>7. \A c \in Present : CharInv(c)
  BY <1>1, <1>4, GuildAssumption DEF CharInv, Live, Present
<1> QED
  BY <1>2, <1>3, <1>4, <1>5, <1>6, <1>7 DEF GInv, GTypes, StepsInv

LEMMA GNextInv == GInv /\ [GNext]_gvars => GInv'
<1> SUFFICES ASSUME GInv, [GNext]_gvars PROVE GInv'
  OBVIOUS
<1>1. GTypes /\ WritesInv /\ (strays' = {} => StepsInv)
  BY StraysStay DEF GInv
<1>2. ASSUME NEW k \in Clerks, CreateGuild(k) \/ RespondGuildRequest(k) \/ ExpelFromGuild(k) \/ DissolveGuild(k)
      PROVE  GInv'
  BY <1>1, <1>2, CallsGTypes, CallsWrites, CallsSteps DEF GInv
<1>3. ASSUME NEW k \in Clerks, NameTaken(k) \/ InsertGuild(k) \/ Founded(k) \/ PayFee(k) \/ JoinGuild(k) \/ Expelled(k)
      PROVE  GInv'
  BY <1>1, <1>3, WaitsGTypes, WaitsWrites, WaitsSteps DEF GInv
<1>4. ASSUME NEW k \in Clerks, ClearMember(k) \/ DeleteGuild(k) PROVE GInv'
  BY <1>1, <1>4, WaitsGTypes, WaitsWrites, DissolveSteps DEF GInv
<1>5. ASSUME \/ LeaveGuild \/ ChangeRole \/ ChangeGuildLogo \/ AddGuild \/ ChangeFaction \/ DeleteCharacter
             \/ BeginUpdate \/ EndUpdate \/ UNCHANGED gvars
      PROVE  GInv'
  BY <1>1, <1>5, OthersGTypes, OthersWrites, OthersSteps DEF GInv
<1> QED
  BY <1>2, <1>3, <1>4, <1>5 DEF GNext

LEMMA GAgrees == GInv => RollsAgree
<1> SUFFICES ASSUME GInv PROVE RollsAgree
  OBVIOUS
<1>1. MembersAgree
  <2> SUFFICES ASSUME strays = {}, NEW c \in Present \ Busy
               PROVE  /\ guildOf[c] # NoGuild => Exists(guildOf[c])
                      /\ \A g \in GuildIDs \ Dissolving : Exists(g) => (guildOf[c] = g <=> c \in DOMAIN rolls[g])
    BY DEF MembersAgree
  <2>1. /\ \A g \in GuildIDs : Live(g) /\ On(c, g) => guildOf[c] = g
        /\ \A g \in GuildIDs : guildOf[c] = g => Live(g) /\ On(c, g)
    BY Free DEF GInv
  <2>2. guildOf[c] \in GuildIDs \cup {NoGuild}
    BY DEF GInv, GTypes, GTypeOK, Present
  <2> QED
    BY <2>1, <2>2 DEF Live, On
<1>2. RowsAgree
  BY DEF RowsAgree, GInv, WritesInv, RowInv, Written, Quiet
<1> QED
  BY <1>1, <1>2 DEF RollsAgree

\* Members and rolls agree (guild.go 165-490, guilds.go 83-200): a character
\* no handler is about has the id of a guild exactly if he is on its list, and
\* a list no update is due for is in its row, whatever the people, the guilds
\* and the handlers that wait at once, until the code loses track of somebody.
THEOREM RollsAlwaysAgree == GSpec => []RollsAgree
<1>1. GInit => GInv
  BY GInitInv
<1>2. GInv /\ [GNext]_gvars => GInv'
  BY GNextInv
<1>3. GInv => RollsAgree
  BY GAgrees
<1> QED
  BY <1>1, <1>2, <1>3, PTL DEF GSpec
=============================================================================
