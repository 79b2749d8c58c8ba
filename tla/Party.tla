------------------------------- MODULE Party -------------------------------
(***************************************************************************)
(* Parties (player/party.go, database/party.go, LeaveParty in              *)
(* database/characters.go).  A character names its party by PartyID, the   *)
(* key under which the map Parties holds it: the user id of its first      *)
(* leader, here the character itself.  A party lists its members by        *)
(* character id; an invitation is a member object that is not accepted     *)
(* yet, with a timer of 30 seconds that removes whatever member has its    *)
(* id.                                                                     *)
(***************************************************************************)
EXTENDS FiniteSets, Integers

CONSTANTS Chars,        \* characters, each with its user
          None,         \* the empty PartyID, no character
          MaxParties,   \* bound: party objects made
          MaxInvites,   \* bound: member objects made
          MaxMembers    \* members a party has room for, 4 in the code

ASSUME PartyAssumption ==
    /\ None \notin Chars
    /\ MaxParties \in Nat \ {0} /\ MaxInvites \in Nat \ {0} /\ MaxMembers \in Nat \ {0}

VARIABLES online,     \* characters in the game
          PartyID,    \* c.PartyID
          Parties,    \* the registered party of a key, 0 for none
          Leader,     \* the leader of a party object, None before it is made
          Members,    \* the member object of a character in a party, 0 for none
          Accepted,   \* the member objects with Accepted set
          invited,    \* member objects made so far
          asked,      \* characters whose client shows an invitation
          timers,     \* 30 second timers of invitations
          strayed     \* history: an answer or a timer that concerned another party
                      \* than the one the character was in

partyVars == <<online, PartyID, Parties, Leader, Members, Accepted, invited, asked, timers, strayed>>

PartyObjs == 1..MaxParties
MemberObjs == 1..MaxInvites
Timer == [party : PartyObjs, char : Chars, member : MemberObjs]

PartyTypeOK ==
    /\ online \subseteq Chars
    /\ PartyID \in [Chars -> Chars \cup {None}]
    /\ Parties \in [Chars -> {0} \cup PartyObjs]
    /\ Leader \in [PartyObjs -> Chars \cup {None}]
    /\ Members \in [PartyObjs -> [Chars -> {0} \cup MemberObjs]]
    /\ invited \in {0} \cup MemberObjs
    /\ Accepted \subseteq 1..invited
    /\ asked \subseteq Chars
    /\ timers \subseteq Timer
    /\ strayed \in BOOLEAN

PartyInit ==
    /\ online = Chars
    /\ PartyID = [c \in Chars |-> None]
    /\ Parties = [c \in Chars |-> 0]
    /\ Leader = [p \in PartyObjs |-> None]
    /\ Members = [p \in PartyObjs |-> [c \in Chars |-> 0]]
    /\ Accepted = {} /\ invited = 0
    /\ asked = {} /\ timers = {} /\ strayed = FALSE

----------------------------------------------------------------------------
FindParty(c) == IF PartyID[c] = None THEN 0 ELSE Parties[PartyID[c]]
MembersOf(p) == {c \in Chars : Members[p][c] # 0}
AcceptedOf(p) == {c \in MembersOf(p) : Members[p][c] \in Accepted}
Registered(p) == Leader[p] # None /\ Parties[Leader[p]] = p

RemoveMember(p, c) == [Members EXCEPT ![p][c] = 0]

\* As if a disbanded party stayed registered.
KeepParty(p) == Parties
Delete(p) == [Parties EXCEPT ![Leader[p]] = 0]

\* Nobody is left in the party: its leader has none any more.
EmptyWithout(p, c) == MembersOf(p) \subseteq {c}

NewParty(c, p) == Leader[p] = None /\ \A q \in PartyObjs : Leader[q] = None => p <= q

SendPartyRequest(c, m) ==
    /\ c \in online /\ m \in online /\ c # m
    /\ FindParty(m) = 0
    /\ invited < MaxInvites
    /\ \E p \in PartyObjs :
          /\ \/ /\ FindParty(c) = 0 /\ NewParty(c, p)
                /\ Leader' = [Leader EXCEPT ![p] = c]
                /\ Parties' = [Parties EXCEPT ![c] = p]
                /\ PartyID' = [PartyID EXCEPT ![c] = c, ![m] = c]
             \/ /\ FindParty(c) = p /\ Cardinality(MembersOf(p)) < MaxMembers
                /\ PartyID' = [PartyID EXCEPT ![m] = c]
                /\ UNCHANGED <<Leader, Parties>>
          /\ invited' = invited + 1
          /\ Members' = [Members EXCEPT ![p][m] = invited']
          /\ timers' = timers \cup {[party |-> p, char |-> m, member |-> invited']}
          /\ asked' = asked \cup {m}
    /\ strayed' = (strayed \/ (FindParty(c) # 0 /\ Leader[FindParty(c)] # c))
    /\ UNCHANGED <<online, Accepted>>

InviteTimeout(t) ==
    /\ timers' = timers \ {t}
    /\ Members' = IF t.member \in Accepted THEN Members ELSE RemoveMember(t.party, t.char)
    /\ UNCHANGED <<online, PartyID, Parties, Leader, Accepted, invited, asked, strayed>>

Accept(c) ==
    /\ c \in online /\ c \in asked
    /\ LET p == FindParty(c) IN
          Accepted' = IF p # 0 /\ Members[p][c] # 0 THEN Accepted \cup {Members[p][c]} ELSE Accepted
    /\ asked' = asked \ {c}
    /\ UNCHANGED <<online, PartyID, Parties, Leader, Members, invited, timers, strayed>>

Reject(c) ==
    /\ c \in online /\ c \in asked
    /\ LET p == FindParty(c) IN
       IF p = 0 THEN UNCHANGED <<PartyID, Members>>
       ELSE /\ Members' = RemoveMember(p, c)
            /\ PartyID' = [d \in Chars |->
                              IF d = c \/ (d = Leader[p] /\ EmptyWithout(p, c)) THEN None ELSE PartyID[d]]
    /\ asked' = asked \ {c}
    /\ strayed' = (strayed \/ (FindParty(c) # 0 /\ Members[FindParty(c)][c] \notin MemberObjs \ Accepted))
    /\ UNCHANGED <<online, Parties, Leader, Accepted, invited, timers>>

Expel(c, m) ==
    /\ c \in online /\ c # m
    /\ LET p == FindParty(c) IN
          /\ p # 0 /\ Leader[p] = c /\ m \in MembersOf(p)
          /\ Members' = RemoveMember(p, m)
          /\ PartyID' = [d \in Chars |->
                            IF d = m \/ (d = c /\ EmptyWithout(p, m)) THEN None ELSE PartyID[d]]
          /\ Parties' = IF EmptyWithout(p, m) THEN Delete(p) ELSE Parties
    /\ UNCHANGED <<online, Leader, Accepted, invited, asked, timers, strayed>>

\* LeaveParty, for a leader who is in an arena match or not: then somebody else
\* leads on, under the old key.
LeaderLeaves(c, p, inArena) ==
    /\ Leader[p] = c
    /\ IF ~inArena THEN
          /\ PartyID' = [d \in Chars |-> IF d = c \/ d \in AcceptedOf(p) THEN None ELSE PartyID[d]]
          /\ Parties' = Delete(p)
          /\ UNCHANGED Leader
       ELSE IF MembersOf(p) = {} THEN
          /\ PartyID' = [PartyID EXCEPT ![c] = None]
          /\ Parties' = Delete(p)
          /\ UNCHANGED Leader
       ELSE \E n \in IF AcceptedOf(p) = {} THEN {c} ELSE AcceptedOf(p) :
          /\ Leader' = [Leader EXCEPT ![p] = n]
          /\ PartyID' = [d \in Chars |-> IF d = c THEN None ELSE IF d \in AcceptedOf(p) THEN n ELSE PartyID[d]]
          /\ UNCHANGED Parties
    /\ UNCHANGED Members

MemberLeaves(c, p) ==
    /\ Leader[p] # c
    /\ Members' = RemoveMember(p, c)
    /\ PartyID' = [d \in Chars |->
                      IF d = c \/ (d = Leader[p] /\ EmptyWithout(p, c)) THEN None ELSE PartyID[d]]
    /\ Parties' = IF EmptyWithout(p, c) THEN Delete(p) ELSE Parties
    /\ UNCHANGED Leader

LeaveParty(c, inArena) ==
    LET p == FindParty(c) IN
    /\ IF p = 0 THEN UNCHANGED <<PartyID, Parties, Leader, Members>>
       ELSE LeaderLeaves(c, p, inArena) \/ MemberLeaves(c, p)
    /\ strayed' = (strayed \/ (p # 0 /\ c \notin MembersOf(p) \cup {Leader[p]}))
    /\ UNCHANGED <<Accepted, invited, asked, timers>>

Leave(c) == c \in online /\ FindParty(c) # 0 /\ LeaveParty(c, FALSE) /\ UNCHANGED online

PartyNext ==
    \/ \E c, m \in Chars : SendPartyRequest(c, m) \/ Expel(c, m)
    \/ \E c \in Chars : Accept(c) \/ Reject(c) \/ Leave(c)
    \/ \E t \in timers : InviteTimeout(t)

PartySpec == PartyInit /\ [][PartyNext]_partyVars

(* A leader and an accepted member of a registered party find it by their PartyID,  *)
(* so that leaving, expelling and disbanding work (FindParty), whatever timers run   *)
(* and whatever is answered too late; unless somebody who does not lead invited, or  *)
(* somebody acted on a party that his PartyID names and that does not list him.      *)
PartiesAgree ==
    ~strayed => \A p \in PartyObjs : Registered(p) =>
        \A c \in AcceptedOf(p) \cup (IF AcceptedOf(p) = {} THEN {} ELSE {Leader[p]}) : FindParty(c) = p
=============================================================================
