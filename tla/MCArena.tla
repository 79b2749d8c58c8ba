------------------------------ MODULE MCArena ------------------------------
\* Four scenes.  "parties": three characters without a party invite, answer, expel and
\* leave.  "queue": three parties of two, as accepted invitations have made them, register
\* and are matched, also while they are queued; the first leaves at any moment.  "play":
\* two of them play one match, from which the first leaves.  "both": the first plays
\* in two matches at once, as "queue" shows it can.
EXTENDS Arena

CONSTANTS ann, bob, cat, dan, eve, fay
VARIABLE scene
MCChars == {ann, bob, cat, dan, eve, fay}
MCLeader == <<ann, cat, eve>>
MCMember == <<bob, dan, fay>>
MCTeams == << ("A" :> {ann, bob} @@ "B" :> {cat, dan}), ("A" :> {ann, bob} @@ "B" :> {eve, fay}) >>
MCPartyOf(c) == CHOOSE p \in PartyObjs : c \in {MCLeader[p], MCMember[p]}
MCInit ==
    /\ scene \in {"parties", "queue", "play", "both"}
    /\ online = Chars /\ asked = {} /\ timers = {} /\ strayed = FALSE
    /\ IF scene = "parties" THEN PartyInit!2 /\ PartyInit!3 /\ PartyInit!4 /\ PartyInit!5 /\ PartyInit!6
       ELSE /\ PartyID = [c \in Chars |-> MCLeader[MCPartyOf(c)]]
            /\ Parties = [c \in Chars |-> IF c = PartyID[c] THEN MCPartyOf(c) ELSE 0]
            /\ Leader = [p \in PartyObjs |-> MCLeader[p]]
            /\ Members = [p \in PartyObjs |-> [c \in Chars |-> IF c = MCMember[p] THEN p ELSE 0]]
            /\ Accepted = MemberObjs /\ invited = MaxInvites
    /\ Lobby = [c \in Chars |-> 0]
    /\ LeaderAccept = {} /\ AcceptedArena = {} /\ Queues = <<>> /\ ends = {}
    /\ verdicts = [o \in Matches |-> [c \in Chars |-> 0]] /\ crashed = FALSE /\ stranded = {}
    /\ LET n == CASE scene = "play" -> 1 [] scene = "both" -> 2 [] OTHER -> 0 IN
          /\ match = [o \in Matches |-> IF o <= n THEN NewMatch(o - 1, MCTeams[o]) ELSE NoMatch]
          /\ Arenas = [i \in 0..n - 1 |-> i + 1]
          /\ rounds = [o \in Matches |-> IF o <= n THEN 1 ELSE 0]
          /\ ArenaFounded = IF n = 0 THEN {} ELSE 1..n + 1
          /\ twice = IF n = 2 THEN {ann, bob} ELSE {}

\* One party is made, its leader asks, and two answer; the other parties do not change.
MCOneParty ==
    scene = "parties" =>
        /\ Leader'[3] = None /\ \A c \in {dan, eve, fay} : PartyID'[c] = None /\ c \notin asked'
        /\ invited' = 1 => Leader'[1] = ann /\ PartyID'[bob] = ann /\ PartyID'[cat] = None
MCOthersStay ==
    /\ {cat, dan, eve, fay} \subseteq online'
    /\ scene = "queue" => online' = online
    /\ scene # "parties" => \A p \in {2, 3} : Members'[p] = Members[p]
    /\ scene = "play" => match'[1].team["B"] = {cat, dan}
\* Leaders accept before members, the third party never; two queues, of parties in order.
MCAcceptances ==
    /\ \A p \in PartyObjs : MemberObjsOf({p}) \cap AcceptedArena' # {} => p \in LeaderAccept'
    /\ 3 \notin LeaderAccept'
    /\ \A i \in DOMAIN Queues' : i < 2 /\ Queues'[i].party["A"] < Queues'[i].party["B"]

MCNext ==
    /\ UNCHANGED scene
    /\ \/ scene = "parties" /\ PartyNext /\ UNCHANGED arenaVars
       \/ scene = "queue" /\ ArenaLobby
       \/ scene \in {"play", "both"} /\ ArenaPlay
       \/ ((scene = "queue" /\ ~Made(1)) \/ scene = "play") /\ ArenaLeave
    /\ MCOneParty /\ MCOthersStay /\ MCAcceptances
MCSpec == MCInit /\ [][MCNext]_<<partyVars, arenaVars, scene>> /\ ArenaFairness
MCOrderly == ~strayed
=============================================================================
