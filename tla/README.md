# PSI Hero online server: TLA+ models and proofs

The repository is a game server written in Go. Clients keep a TCP connection,
packets are handled by goroutines, the state of accounts, characters, bags,
trades, shops and drops lives in maps in memory, and rows are written to
PostgreSQL through gorp as they change. This directory holds TLA+ models of the
parts where goroutines, timers and database waits meet, TLC configurations
that check them on small instances, and theorems about them for every instance,
checked by TLAPS.

Run the tools in this directory: `tlc -config MCTrade.cfg MCTrade`,
`tlapm TradeProofs.tla`. `PROJECT.json` lists the runs, the source lines every
definition stands for, the hazards, the theorems, and for every checked property
a mutation of the model that the property catches.

## The system

How the parts work on each other: `Socket.Read` starts a goroutine for every
packet and runs `OnClose` when the connection is gone; the packet factory maps
packet types to handlers, which change the socket's `User` and `Character` and
the shared maps. Timers (`time.AfterFunc`) and goroutines (`go x.Update()`) change
the same objects later. Nothing but a few mutexes orders them.

| part | state | operations | what is hard | what makes it correct |
| --- | --- | --- | --- | --- |
| Sessions (`auth/`, `player/system.go`, `database/socket.go`, `users.go`, `server/register.go`) | users and characters in the cache, `ConnectedIP`, `ConnectingIP`, registered socket and id of each player | login, server list, character list and selection, start, menus, quit, `OnClose` | packets handled after the close, late second `OnClose`, logouts waiting for the database, ids freed 10 s later | a character is found under its id, ids come back, nobody plays without a connection, a second login finds the first |
| Bag (`database/characters.go`, `inventory.go`) | slots of a character, rows | find free slots, add, remove, move, split, combine | slots remembered by number, a failing write | a row is in one slot |
| Trade (`player/trade.go`, `database/trade.go`) | requests, `TradeID`, offers, acceptances | request, answer, offer, accept, cancel | 12 s timers, bags and gold that change during the trade, the wait while rows are written | nothing duplicated, gold conserved, acceptance binds, nobody locked out |
| Players' shops (`database/sales.go`, `player/sales.go`) | sale of a character, its entries | open, close, buy | registration by a goroutine, entries that name slots, purchase in two steps | no duplicates, sellers are paid, buyers get what was listed |
| Drops (`database/ai.go`, `drop.go`, `player/loot.go`) | drops registered under a number of a map | drop, free, expire, pick up | two timers per drop, numbers used again, pick up in two steps | nothing is made twice or lost, everything leaves the ground |
| Consignment (`database/consignment.go`, `characters.go`) | bags, rows, listings | register, buy, claim, cancel | sold is written after the wait | one buyer, one payment |
| Mail (`player/messange.go`) | mails with gold and items | send, read, receive, delete, expire | no lock, check after moving | received once, nothing lost |
| Inventory handlers (`player/inventory.go`) | bag, bank | swap, replace, split, combine, arrange, deposit | only some take `AntiDupeMutex` | quantities conserved |
| Party (`player/party.go`, `database/party.go`) | parties by leader | invite, answer, leave, expel | 30 s timer, key of a changed leader | `PartyID` and membership agree |
| Guild (`player/guild.go`, `database/guilds.go`) | member list as JSON, `GuildID` | found, invite, promote, expel, dissolve | updates written out of order | list and `GuildID` agree |
| Arena (`database/arena.go`, `servers.go`) | lobby, queues, matches with teams and rounds | register, accept, play, desert, once a second | maps keyed by their size, leaders who leave, rounds that end twice | one verdict for each player, founded parties are served, matches end |
| War, five clan war (`database/startwar.go`, `wartimer.go`, `fiveclan_war.go`) | lists of fighters, points, stones, two flags | announce, count down, fight, reset | timers in goroutines, an automation and a master who announce | one war at a time, every war is over |
| A client's picture (`auth/start_game.go`, `database/characters.go`, `ai.go`) | `OnSight`, `OnSightPlayers`, what the client shows | the `exploreWorld` loop, `ChangeMap` | a pass in steps while things and the player move | what stays near is shown, what is gone is not |
| Mobs (`database/characters.go`, `ai.go`, `ai/init.go`) | HP, who hurt it, hidden or not, position, target | be struck, poisoned and healed, die, be paid for, hide, respawn; move, attack | a goroutine per blow and per mob, HP without a lock, timers of a death that outlast it | a dead mob comes back, a hidden one is shown, every death finds a claimer |
| Dungeon (`dungeon/`, `servers.go`) | servers in use, parties inside, an hour's lock | start, load, end once a second | check and act on free servers, parties that end meanwhile | parties do not meet, every dungeon is ended |
| Trivia, boss events (`asotrivia.go`, `event/`) | players, questions; mobs | ask, answer; appear | | |
| the rest | | | | tables, arithmetic, I/O: see the components in `PROJECT.json` |

## What a step is

A step of a model is what a goroutine does until it waits: for the database,
for a timer, for a lock, or because it was only started by `go`. Writing to a
socket and to a log is not a wait, and neither is looking up what is in a
cache. So `AcceptTrade` is two actions (exchange, then `SettleTrade` after the rows
have been written), buying from a shop, picking up and `Character.Logout` are two
as well, and a packet that was read is handled by an action that may come
after the connection was closed. Windows of a few instructions between two
goroutines that do not wait are not interleaved; those that matter are hazards
with a note. Mob goes further: many goroutines strike one mob at once, so a blow
reads HP, writes it and, after the broadcast through NATS, looks at it in three steps. The state is that of the memory; the rows of the database are
state where a relogin or another handler reads them (Inventory, Consignment, Mail, Guild) and
elsewhere only the wait for them and their failure.

An action is the whole handler: guards from its conditions and early returns,
and every change it makes up to its wait. Items, characters and maps are model
values; packets, texts and item data are left out.

Some variables record history for the properties and change nothing: `disturbed` in
Trade, `raced` in Drops and Shop, `late` in Shop, `overtaken` and `reselected` in
Session, `lost`, `late` and `crossed` in Mob, `strayed`, `twice`, `stranded` and `crashed` in
Party and Arena, `flaw` in Inventory, `disputed` in Consignment and Escrow, `wrong` in Mail,
`strays` and `crossed` in Guild, `overtaken` in War, `unseen` and `strayed` in Dungeon, `blind` in
Sight. They mark behaviours in which the code really breaks the property, so
that the property can be checked for all others; each is explained below. `crashed` also stops
the arena: its ticker has no recover.

## The modules

**Bag** — what trades and shops share: `FindFreeSlot`, `FindFreeSlots`, `AddItem`,
removal of a slot, and the moves of an exchange as `AcceptTrade` computes them.
A bag is a function from slots to item rows.

**Trade** — players with `TradeID` and gold, trades by their requests, offers and
acceptances, timers of requests, exchanges being settled. Actions are the
handlers of `player/trade.go`, the timer of a request, logout, and the
operations that change bag or gold during a trade because they do not look at
`TradeID`: looting, buying from an NPC or a player, destroying, and the bank. Gold is
unsigned, modulo W (2^64 in the code, 3 in the run, so that it wraps around). `MCTrade` has two players, three rows, one of them
activated, two slots each, so that an offered slot can be emptied and filled
again, bags can be full and one side can offer gold only. `MCMeeting` has
three players and two requests and no items to offer, to let timers cross
answers and a second trade begin before the first is settled.
- `GoldConserved`: gold is neither made nor lost by trading, unless between an
  exchange and its settling the trade was deleted or a trader paid a shop
  (`disturbed`): the code pays afterwards from what is left (trade.go:583).
- `NoDuplicateRow`, `OnlyOfferedRowsMove`, `NothingOverwritten`: a row is in one slot;
  it changes owner only in the exchange of a trade both accepted, out of a slot that
  was offered; and what was in a bag before an exchange is in a bag after it.
- `AcceptanceBindsOffers`: while somebody has accepted, the offers stand still.
- `NeverLockedOut`, `TimerSparesOthers`, `RequestResolved` (under `Fairness`:
  timers fire, and a handler that waits for the database goes on):
  who has a `TradeID` is in a trade or waits for a timer that clears it; a timer
  clears only its own request; every request ends.

**Drops** — drops of a mob under random numbers of a map, the timers of 10 and 30
seconds, `Loot` up to the write and `Looted` or `LootFailed` after it, `ChangeMap`.
Two characters, two maps with one number each, so that numbers are used again
at once, two drops, one failing write.
- `DropsConserved`: what was dropped is in a bag, on the ground or expired, once,
  unless two characters picked up one drop at once or one changed the map while
  picking up (`raced`), when the code really duplicates or removes the wrong drop.
- `TakenOrExpired`: a drop leaves the ground by its own lifetime or a looter; what
  else happens is named: an older drop with its number, a looter on another map.
- `DropsExpire`, with weak fairness of the timers.
- `ReservedForClaimer` is violated: see Findings.

**Shop** — `OpenSale` and the goroutine that registers the sale, `CloseSale`,
`BuySaleItem` up to the write and `Bought` after it, logout, and what changes a
listed slot. One seller with room for two items, a buyer who can pay twice, two
sales; both start with empty bags and loot what they sell, so the rows are symmetric. The constraint `MCOrderly` cuts behaviours after the first overlap
(`raced`): two purchases of one entry at once, or a purchase and a trade of the
slot, duplicate the item in the code, and nothing is claimed from there on.
- `NoDuplicateInShops`, `SellersArePaid` (money goes to a seller who is there, unless
  his sale was registered after he left: `late`), `SellsWhatWasListed` (a buyer
  gets what was listed, unless the slot was changed by other means since).
  Starting the game deletes a sale of the character's id; a seller does not come
  back in this model.

**Session** — connections (open, closed, closed and seen by `Read`), the users'
flags, the registered socket, cached characters as numbered objects, the register
of ids, timers, waiting logouts. Clients follow the protocol: login, server list,
server, new connection, character list, selection, start, menu or quit; they
may be gone at any moment. One user with one character, two connections, two
objects and two ids: enough for a connection to be late while the next one is
in the game, for two logouts of one character, and for the ids to run out.
The constraint `MCNoLeak` cuts behaviours after an id has leaked (`reselected`), which
happens only after a packet was handled late; what comes after is covered by the
theorems, which have no such bound.
- `FoundByID`: a character that has an id is registered under it, though timers
  remove ids ten seconds later whoever has them.
- `IdsComeBack`: an id is taken only while it is used or its timer runs, unless a
  character that had one was selected again (`reselected`), which leaks it.
- `NoGhosts`: a character in the game has a connection whose close was not yet
  handled, unless a packet was handled after it (`overtaken`).
- `LoginFindsOnline` is violated: see Findings.
  Abstractions: an object read from the database is offline; loading the list of
  characters is one step, selecting a character that is not cached two; after a
  quit the user's row may or may not have been written, so the flags of the next
  object are arbitrary; after a crash `ConnectedIP` is arbitrary because
  `RefreshOnline` only resets `loginfrompanel`; a connection or object nobody
  refers to stands for a new one. Nothing is fair here: no liveness is claimed.

**Mob** — one mob: HP, `IsDead`, `Once`, its handler, the blows on their way, poison,
`DamageDealers`, and the deaths being dealt with, each a number in the sets of those
that are being paid for, that wait for their respawn, their disappearance or the
clearing of the dealers. `DealDamage` (read), `Strike` (write) and `Cast` or `CastFails`
are one blow; `HandleAIBuffs` and `PoisonStrike` one of poison; `AIHandler` sees the mob
alive and then acts or retreats, which heals. `Die` is `CheckMobDead` up to the respawn
timer, `Reward` the rest of it. A mob with `Once` does not come back, and a boss may
get `Once` when its event is over. Two players with one blow each on its way and poison,
HP 2, so that blows share a kill, and two deaths at a time (`Room` keeps a number
free for every blow on its way).
- `DeadIsScheduled`: a mob without HP is about to be looked at, has a respawn timer or,
  with `Once`, is being paid for or hidden, unless the broadcast of a blow to it
  failed (`lost`): `DealDamage` then returns without looking, and nothing brings it back.
- `HiddenComesBack`, `ShownAgain`: a hidden mob has a respawn timer and is shown again,
  unless a mob came back before its death was over (`late`). The timer that hides it
  starts after the rewards with their database waits, that of the respawn before;
  if it fires last, the mob stays hidden with all its HP.
- `LivesApart`: a living mob has no timer of an earlier life, and every death finds a
  claimer, unless two blows both found it dead, its handler or a crossing blow gave
  a dead mob HP, or a blow read HP in one life and wrote it in the next (`crossed`).
  Two blows that cross do pay one death twice; nothing in the code prevents that.
- `Returns`: a mob that comes back does so in the end.
  Abstractions: who of `DamageDealers` has the most damage is open; drops are those of
  Drops; targets, movement, attacks, pets and what rewards are given are left out.

**Party** — party objects with leader and members, `PartyID`, the registered party of a
key, invitations (member objects not accepted yet) with their 30 second timers.
Actions: inviting, the timer, accepting, rejecting, expelling, leaving, disbanding, logout.
- `PartiesAgree`: a leader and an accepted member find the registered party that lists
  them. The timer removes whatever member has its id, and `PartyID` outlives the party; it
  holds as long as nobody answers, is timed out of or leaves a party other than
  the one he is in (`strayed`: somebody who does not lead invited, or the party of his
  `PartyID` does not list him).

**Arena** — extends Party: lobby, queues, acceptance, matches with teams, wins, games and
time left, the timers of the next round and of the end. Actions: `JoinLobby`,
`CreateSession`, `AcceptArena`, one look of the ticker at one queue (`TickQueue`) or match
(`TickArena`), `NextRound`, `Desert`, `EndArena`, logout. `MCArena` has four scenes: parties;
a queue of three parties; a match; a player in two matches.
- `VerdictsAreFair`: a player's honor changes once by one match and the rewarded team has
  not won fewer rounds than the other, unless that one has left. A third party can be matched with a queued one,
  so that a player is in two matches (`twice`); a round that is over by time and by death in
  the same second is scored twice.
- `FoundedIsServed`: a party with `ArenaFounded` set, which cannot register again, is
  queued, or somebody who plays in a match that goes on is in it, so that a verdict frees it. The code
  loses it (`stranded`) when the last acceptance comes with the time run out or no server is free; when a
  new queue or match gets the id of one that is there, or the end of a match
  unregisters another under its id, because ids are `len(map)`; and when the players of a team are of several parties as the
  match is found or over, of which `GetPlayerParty` (arena.go 209-218) frees one. `stranded` are too the parties whose
  players left party or match, by themselves or because another match they were in ended.
- `MatchesEnd`, with fairness of the ticker and its timers, for matches the ticker sees:
  it counts from 0 to the size of a map entries are deleted from.
- A leader who disbands or whose last member leaves after acceptance makes
  `TeleportToRestZone` dereference nil in the ticker, which has no recover: `crashed`.
  Abstractions: one lobby of the three levels; HP, honor order and free servers are open
  choices; the solo path, which nothing starts, and positions are left out.

**Inventory** — bag and bank in memory, the rows, the handlers under way. A handler is a
guard and a list of calls (`Put`, `Give`, `Take`, `Drop`, `Wipe`, `Named`, `Grade`, `Save`, and the
moves); every call that waits for the database splits the handler there, `Mutex` lets one
holder of `AntiDupeMutex` run at a time, and most handlers of the smith do not take it. Arranging
(`ArrangeInventory`) sorts and writes by goroutines (`LateWrite`). Rates and recipes are
open choices; equipment, pets' data and buff items are left out.
- `BagSurvivesRelogin`: what a relogin reads is what the player saw, slot by slot.
- `NothingLost`: of every kind there is what was got and not used up, sold or destroyed.
- Not (`flaw`) where two handlers without the mutex work on one slot, a stack is split onto an
  occupied slot, combined with itself, or swapped between bag and bank (the owner of the rows
  stays), or where sockets are taken out or an extraction finds no room (not saved: `"unsaved"`).

**Escrow**, **Consignment** — Escrow says what a place that keeps items for sale
promises: an item is with one character, in custody or nowhere; who deposited it gets it
back or is paid, and is paid exactly when somebody paid. Consignment is the code: bags,
rows of items, listings; registering, buying, claiming, cancelling and removing, each in the
steps its database waits make, and the goroutines that write the listing afterwards;
relogin, trades and moves of items come between. `holder` is the refinement mapping.
- `ImplementsEscrow` (refinement) and `PaidOnce`: not for an item (`disputed`) that two
  handlers, or a handler and the write of its listing, were at work on at once: two buyers
  of one listing, cancelling after a sale, claiming twice; or whose slot was filled during the wait.
  A buyer without a free slot gets slot -1 and the handler panics, but before it pays.

**Mail** — satchels, noted items, mails with items and gold, the steps of sending
(`TakeOut` per item, then `PostMail`) and receiving (`ChooseSlots`, `GiveItem` per item, `MarkReceived`),
deletion and expiry.
- `MailedOnce`: an item is in one slot or one mail that can be received, or lost with a
  deleted mail; gold is with the characters, in mails, or went for commissions. Not (`wrong`) when
  the sender has not the gold (the items are gone before it is looked at) or not the commission
  (unsigned gold wraps), the bag changed after noting, or two handlers ran at once.

**Guild** — `GuildID`s, lists in memory and in the row, handlers that wait between the two
(`Clerks`), updates started by `go` (`due`, `writes`). Founding with its fee, joining, leaving,
expelling, dissolving member by member, roles, logo, `addguild`, the faction item and the deletion of a
character.
- `RollsAgree`: outside of the handlers about a character his `GuildID` and the list say the
  same, and a row whose updates are over has the list. Not for characters (`strays`) two
  handlers were about at once, who were expelled from a guild that was not theirs, joined one that
  was being dissolved, or had `GuildID` set alone; nor for guilds (`crossed`) two
  updates of which ended in the wrong order.

**War** — the great war: automation, announcement by a game master, countdown by timers of ten
seconds, the fight by ticks with points and a stone, `ResetWar` with its wait, fighters who
come, leave the map, lose the connection. One stone stands for five; points are scaled.
- `WarsTakeTurns`: one war at a time although two announce and look only at two flags, and
  every war that is announced is over, under fairness of timers and of goroutines that wait. A
  war announced during the reset of the last is ended by the second reset timer (`overtaken`).
- Kept as it is: offline Shao stay in their list, fighters refused by `ChangeMap`
  in a trade stay listed, and stones are reset to 0, which Order holds at once in later wars. Left out: rewards and war types.

**Dungeon** — dungeons by number, servers that host one, parties, who is inside, the hour.
Starting, loading in steps that may find the party gone, the ticker that ends by time or
emptiness, login on any server.
- `DungeonsApart`: who is on map 246 of a server came with one leader, and the dungeon is one
  that will be ended; not for who was trading when he was to be moved (`strayed`), nor once a key,
  the size of the map, was used again or is out of the ticker's reach (`unseen`).
- A server whose `AIsByMap` was filled hosts no second dungeon until a restart, and a
  party that ends while loading leaves `DungeonLoading` set: both are in the model.
  Left out: the mobs' rounds.

**Sight** — what one client shows (`shown`) against `OnSight`, the mobs' `OnSightPlayers` and
where things are. A pass of `exploreWorld` over one kind is `Look` (who is near), `Note` (`OnSight`)
and `Tell` (packets); `ChangeMap` is `Depart`, `Clear` (`OnSight` is emptied but for players) and `Arrive`.
Things roam, come, go, are taken, change form, die and return; `Forget` is `AIHandler`. That a client
forgets all but players when it changes the map is assumed from what it is not told.
- `SightSettles` (under fairness of the loop and of `ChangeMap`): what stays near is
  shown as it looks now, what stays away or dead is not, once the player stays, unless the code lost
  sight of it (`blind`): it was told of when `OnSight` had lost it, shown between the
  emptying and the arrival, died or came back between two looks, got the number of one before,
  or changed its form when nobody looked.
- `WatchedMobsKnow`: a mob that a player on its map is shown has him in `OnSightPlayers`.
  Left out: mounts, detection, who may be attacked, war stones, deleted characters, a second
  loop after a quick relogin.

## Runs

| run | configuration | bounds | result |
| --- | --- | --- | --- |
| trade | MCTrade | 2 players, 2 slots, 3 rows, 1 request, gold modulo 3 | passes |
| meeting | MCMeeting | 3 players, 2 requests; one thing of each kind, 2 places of a field, a cave; fair | passes |
| trade_space | MCTradeSpace.cfg | as trade, roomy bags | violated |
| drops | MCDrops | 2 characters, 2 maps, 1 number, 2 drops, 1 failure, fair timers | passes |
| drops_claim | MCDropsClaim.cfg | as drops | violated |
| shop | MCShop | 1 seller, 1 buyer, 2 slots, 2 rows, 2 sales | passes |
| session | MCSession | 1 user, 1 character, 2 connections (symmetric), 2 objects, 2 ids | passes |
| session_online | MCSessionOnline.cfg | as session | violated |
| mob | MCMob | 2 players, poison, HP 2, 2 deaths at a time, fair timers | passes |
| arena | MCArena | 6 characters, 3 parties of two, queues of 1 tick, rounds of 2, 2 wins, 3 games, 2 matches, fair ticker | passes |
| events | MCEvents | guild: 3 characters, 2 guilds, 2 handlers, 4 orders; war: 2 fighters, 2 wars, 2 resets; dungeon: 2 leaders, 1 follower, 2 servers | passes |
| goods | MCGoods | bag: 3 + 1 slots, 2 handlers at once, 2 in all; consignment: 3 rows, 2 characters, 2 slots, 4 calls, 2 listings; mail: 2 rows, 2 characters, 2 mails | passes |

Components that do not touch each other are scenes of one run: a variable `scene`, chosen
at first, says which one moves. The bounds are the least with which each marked gap of
the code and each mutation shows: two handlers that wait at once, two of every object a
number or a key can be given to again, a bag that can be full, one unit of time more than the
code needs to tell "still" from "over".

The runs check no deadlock: players may all have left, and the bounds on
requests, drops, sales, calls and failures end behaviours. Symmetry (of connections in
`session`, of rows in `shop`) is used where invariants and single steps are checked, never
with liveness. Fairness is assumed of timers
(`time.AfterFunc` fires), of the rest of `AcceptTrade` after its writes
(`SettleTrade`), of blows that are being broadcast (`Cast`), of loops that sleep and go on (`exploreWorld`,
the tickers of arena and war) and of goroutines that wait for the database (`ChangeMap`, `ResetWar`),
never of players; with it `RequestResolved`, `DropsExpire`, `Returns`, `ShownAgain`, `SightSettles`,
`MatchesEnd` and `WarsTakeTurns` are checked.

Constraints cut behaviours off after a marked gap, because what follows is not claimed:
`MCOrderly` in `shop` (`raced`) and `arena` (`strayed`), `MCNoLeak` in `session`, `MCUndisturbed` in
`events` and `goods`. A liveness property of such a run is about behaviours without the gap.
The marks of Sight, Mob, Drops, Trade and the arena's `stranded` and `twice` are not cut: there
the properties except the objects marked and hold for the others afterwards.

## Findings

- `FindFreeSlots(0)` fails if a slot is free (characters.go:1648): a trade in which
  one side offers only gold is refused "for space" (run trade_space).
- `isEventBoss` is never false (ai.go:554), so no drop is reserved for who earned it,
  and the timer commented "ALL PLAYER CAN PICKUP THE ITEMS" does nothing (drops_claim).
- A late `OnClose` of the login connection clears `ConnectedIP` of a user in the
  game, and the check "user already online" lets the next login through
  (session_online).

## Proofs

**TradeProofs** proves for any players, slots, rows and requests `TypeCorrect`,
`NoDuplication`, `NoLockOut`, `TimersSpareOthers`, `AcceptancesBind`,
`OnlyOffersChangeHands` and `ExchangesOverwriteNothing`. None of the
invariants is inductive alone. The inductive invariant `IInv` has two halves.
`ProtocolInv` is the types of the protocol's variables and what the code relies on
without saying so: who is in a trade is one of its two traders and his `TradeID` is the
trade's (`InHisTrade`), two characters share a `TradeID` only in a trade, because
uuids are fresh (`OneRequestPerID`), and the two sides of a trade differ (`TwoTraders`).
`WealthInv` is the types of bags, gold, bank and history. `NoDuplicateRow` is
inductive together with `IInv`: the destinations of an exchange are free and
different slots, so rows stay in one place, which are the lemmas
`MoveRowsOnePlace` and `AddItemOnePlace` about Bag and `CompleteTradeKeeps` about the
two sides at once. `OnlyOffersChangeHands` (`OnlyOfferedRowsMove`) and
`ExchangesOverwriteNothing` (`NothingOverwritten`) follow an item through the two halves of an
exchange: `ExchangeMoves` names the bags in between, `MovedFrom` says of one half where what
is in a slot afterwards comes from, `MovedKeeps` where what was in a slot goes, and
`OnlyExchangesMove` that no other step moves a row between bags or marks a trade as moved.
`GoldIsConserved` (`GoldConserved`) adds `GoldInv`: undisturbed, whoever is in a trade is online and so is
the other in it (`PairInv`), and between an exchange and its settling each trader still has
the gold he gives, and what is due is what he gets less that, modulo W (`Backed`); so the
settling neither wraps nor loses gold, and the sums balance. The module also proves of Sight, for
any maps, places and things, `MobsKnowWhoSeesThem` (`WatchedMobsKnow`): a mob forgets who is on
another map, and `OnSight` is emptied before a player is back on a map; `KnownInv` says it
also between the emptying and the arrival, when only what is in `OnSight` from before the change of
map is excepted.

**SessionProofs** proves for any users, characters, connections and ids
`SessionTypes`, `EveryoneFoundByID`, `IdsAreReturned` and `NobodyIsLeftBehind` (`NoGhosts`), from `IInv`, the conjunction
of the types, `ClientInv` (what the phase of a client says about its socket),
`LeavingInv` (a menu or a quit waits for exactly one logout and keeps its user)
and `RegisterInv`. The last one is the argument that timers are harmless: an id
whose timer runs is still registered, so `GenerateID` gives it to nobody, and
nobody uses it; so when the timer fires it can remove nobody else. A second
logout of the same object finds id 0 and starts no timer that matters. Its step
rests on `GenerateIDStep`, the only way an id is taken. `NoGhosts` is not inductive, because a
connection keeps its character in the menu: `PresentInv` says which client answers for somebody in
the game, one that plays or one that has hung up and is still to be seen to, and the selection of
another character finds neither.

**MobProofs** proves for any players, HP and number of deaths `TypeCorrect`,
`DeadAreScheduled`, `HiddenReturn` and `LivesStayApart`. `DeadIsScheduled` is inductive with
the types: every step that writes 0 leaves a blow to be looked at or starts a death
(`DieSchedules`). `HiddenComesBack` needs `PendingInv`: what is still to be done for a
death is done before its respawn, as long as nothing was late. `LivesApart` needs
`SerialInv`: undisturbed there is one death at a time, its dealers are read before they
are cleared, and the list is filled again before the mob can die again, by the blow
itself or by the poison, which notes its owner before it reads HP. The module also proves of Dungeon
`PartiesDoNotMeet` (`DungeonsApart`), for any leaders, followers and servers. `LoadingInv`: one dungeon at most is being loaded, it bars the
others, and whoever fills a dungeon fills that one. `GuestsInv`: guests are only on servers where a dungeon is
hosted or loading, and on the one that is filled only with the leader who fills it. So no two leaders
have guests on one server (`Together`), and a dungeon with guests has a timer that ends it (`Ending`).

**DropsProofs** proves for any characters, maps, numbers and items `TypeCorrect`, which
includes that a failed write takes no more out of a bag than is in it (`LootingInv`), and
`NothingDisappears` (`TakenOrExpired`). A step property of timers that know only a
number needs `LatestInv`: the drop in the register is the last that got its number, so
whatever else goes for that number is an older drop, one of the named cases.
`DropsAreConserved` (`DropsConserved`) rests on two facts that hold while nobody raced: who picks up is
on the map of the drop and alone at it (`AloneInv`), and what lies on the ground has never been
picked up and weighs one (`FreshInv`).

**GoodsProofs** proves of shops, for any sellers, buyers, slots, rows and sales `TypeCorrect`,
`ShopsDuplicateNothing` (`NoDuplicateInShops`) and `BuyersGetWhatWasListed` (`SellsWhatWasListed`).
`ReferenceInv`: whoever is creating, has registered or is buying from a sale finds it, and with its
seller. `ListedInv`: an unsold entry's slot holds what was listed or is marked as changed, because
loot and exchanges need a free slot. `NoDuplicateInShops` is inductive with these two.
`ShopsKeepTheGold` (`SellersArePaid`) needs besides that who has left has no sale, unless one was
registered late: a seller who is paid is online, or his gold is counted as lost.

Of the consignment it proves, for any items, characters, slots and handlers at once,
`KeepsThePromise`, that it implements Escrow (`ImplementsEscrow`), and
`SellersArePaidOnce` (`PaidOnce`), which is `SellersPaidOnce` of the abstract Escrow, proved of whatever
implements it. The run cuts off what follows the first disputed item, the
theorems do not: the items that are not disputed keep the promise beside those that are. `RowInv` says
of an undisputed item that it is in one slot, that at most one handler or one write of its listing is
at work on it, and what that one may rely on (`AtWork`, `WriteInv`): where the item is, what its
row says, what its listing says and whether its price is owed. At rest it is with a
character, unlisted or sold and not claimed; gone; or stored and on sale (`RestInv`). `StartStep` shows
that a handler finds what it may rely on, one lemma for each step of a handler what it leaves to the
next, `SameStep` that whatever is done to other items leaves all this as it is, and `LoggedOut` that a
relogin reads the bag as it was.

The same module proves of Mail `MailArrivesOnce` (`MailedOnce`), for any characters, slots, mails and
handlers at once; the run has one handler. `MailedOnce` speaks of moments when no handler is
at work; the invariant `MInv` says what holds in between, while nothing has gone `wrong`.
`HomeInv`: an item that is not lost has exactly one home, a slot, a mail or the hands of one who
sends, and a mail that is being received is home only to what has not been given out of it
yet (`Holds`). `RowsTell`: the row of an item in a slot names the slot, and that of an item in a mail or in hands
names nobody, so a receiver never finds the row gone (`NeverGivesUp`). `Solo` and `ReadInv`: no character
has two handlers, so nobody else gives out the same mail (`OneGiver`) and what a handler has read of it
still holds. `DistinctInv`: no list names an item twice. `GoldInv` is the sum over mails, purses
and what was spent; all gold together is within the range of its type, so no receiver's purse wraps, and a sender's only where
`wrong` says so. `HomesKept` reduces a step to what it does to the home of each item.

**InventoryProofs** proves of the bag and the bank `NothingIsLost` (`NothingLost`), for any slots, kinds, bags
and handlers at once. `ITypeOK` says more than types: only the first call of what a handler still has to do may empty a
slot, name a row or need two slots, so a handler that goes on is one of few cases. `Apart`, as long as nothing went
wrong: no two handlers work on one slot. `JoinInv`: what is about to be combined is of one kind. `LedgerInv`: of every
kind what the character should have is the sum of what the slots are worth, and a slot that is about to be emptied
is worth nothing, because it was accounted for when its row was deleted. Each call is then a lemma about the slots it
touches (`AddItemIs`, `DecrementIs`, `MovesIs`, `JoinIs`, `ArrangeIs`), each handler one that its calls are such a list
(`StartsErrands`); arranging permutes the terms of the sum.

The same module proves `WhatIsLoaded` (`BagSurvivesRelogin`): the rows of each slot, the table a relogin
reads, are what is in it. The property speaks of moments when no handler and no goroutine is at work; the
invariant `BInv` says what is true in between, as long as nothing went wrong (`flaw` is empty). `Row` is the
row of the item in a slot, which the slot itself may not know yet (a handler that has inserted it is still to
name it) or still have (its row is deleted, the slot not emptied: `Hid`). `RowsInv`: no two slots have one
row, every occupied slot that is not `Hid` has one, every row there is belongs to a slot, and it says where the
item is and how, unless a handler is still to save it (`Dirty`) or a goroutine to write it (`Moved`). `LateInv`: a goroutine
is to write a slot nobody works on, one goroutine a slot, and what it was told is still so. `ReadyInv`: what a handler
still has to do has no part of a split in it, and saves what it upgrades, or it is the rest of one split, whose
copy is still to be inserted. `OneHome` reduces a step to one slot and its row, `Rehomed` one that moves items
among slots to a permutation of their rows; `FlawGrows` says that a step without a flaw comes from a state without.

**GroupProofs** proves of Party `PartiesTyped` (`PartyTypeOK`) and `PartiesAlwaysAgree` (`PartiesAgree`), for
any characters, parties, invitations and timers. `Sound`: a key finds a party of which it is the leader, a
party that is not made lists nobody. `AgreeInv`, while nobody strayed: whoever a registered party
lists, invited or accepted, finds that party, and so does its leader if it lists anybody. It is kept because a
character is invited only while he finds no party. 
Of Arena it proves `ArenaTyped` (`TypeOK`), `VerdictsAlwaysFair` (`VerdictsAreFair`) and `FoundedAlwaysServed`
(`FoundedIsServed`) of `ArenaSpec`, in
which any parties are made, invited to and left while they queue and play; the run starts from
scenes of it. `Playing`: a match that goes on has games left, and its teams are both below `WinNumber` or
level (`Even`), because the second of two scores in a second sees the first (`OneWins`, `NobodyWins`); so who
is rewarded is ahead. A round is counted down only when a game was counted too, which bounds both
(`RoundsEnd`). `JudgedOnce`: a player's honor changed once at most, and then the match is over or he has left it; `OneMatch`: a
player who was never in two matches at once is found in one. `FoundedIsServed` is inductive
together with that and `EndedInv`, that a match whose end timer runs is over: so a timer that takes no other
match under its id takes none that goes on. Of Guild it proves `RollsAlwaysAgree` (`RollsAgree`), for any
guilds, characters, handlers and updates at once. `WritesInv`: of a guild that is not crossed one update at
most is under way, and what a quiet guild has on its list is in that update, or in the row if there is none. `StepsInv`,
while nobody went astray: no two handlers are about one character (`Apart`), so what a handler has
seen of its character is still so when it goes on (`AtWork`), and whoever is on the list of a guild that
stays has its id (`CharInv`).

**Sums** holds what the ledgers of the other modules need of the library's `SumFunction` and
`SumFunctionOnSet`: a sum changes by what its terms do (`SumChange`, `SumExchange`), covers each of two terms
(`SumCovers`), is split by a part of the set (`SumOfPart`, `SomeGone`) and does not
change when its terms are permuted (`SumPermuted`). The library defines them by a fold, whose recursive function is shown to
exist first (`FoldedExists`). Induction is over a set of subsets instead of a predicate (`InduceOnSize`), so
that no lemma has an operator for a parameter.

The proofs rest on the named assumptions of the modules, which TLC evaluates in the runs:
`TradeSlotsAssumption`, `MaxRequestsAssumption`, `GoldAssumption` and `WidthAssumption` of Trade,
`PlayersAssumption` (finitely many players), `SlotsAssumption`, `RowsAssumption` and `InitBagAssumption` of Bag, `ShopAssumption` of
Shop, `DropsAssumption` of Drops, `SessionAssumption` of Session, `MobAssumption` of Mob, `DungeonAssumption` of
Dungeon, `ConsignmentAssumption` of Consignment, `MailAssumption` of Mail, `SlotAssumption`, `KindAssumption`, `BoundAssumption` and
`InitBagsAssumption` of Inventory, `PartyAssumption` of Party, `ArenaAssumption` of Arena, `GuildAssumption` of
Guild and `SightAssumption` of Sight; Escrow has none. Two of them say something about the game: `WidthAssumption` and
`MailAssumption` let all the gold there is fit into the type of one purse, 2^64 in the code.

Only model-checked is
everything under fairness (`RequestResolved`, `SightSettles`, `DropsExpire`, `Returns`, `ShownAgain`,
`WarsTakeTurns`, `MatchesEnd`), which TLAPS does not prove.

## Plan

Done: the modules and proofs above. What is left, in this order:

1. A second `ExploreWorld` loop of one character (start_game.go:266), which would
   run Sight twice; mobs' targets and attacks beside Mob.
2. The five clan war and the trivia.

## Not modelled

- The five clan war: five areas whose owner and expiry who kills a guardian overwrites,
  without a wait in between. Trivia: commands of one game master and one answer of each player.
- The arena's solo path (nothing calls it), the rounds of mobs in a dungeon, rewards of wars.
- Equipment, pets' experience, buffs, skills, quests, drop tables and combat formulas:
  arithmetic and tables of one character.
- NPC dialogs, chat commands that set a field, packets, logging, the gRPC
  service, start-up. `PROJECT.json` gives the reason for each.
