# TLA+ models of the Phantasmon backend

The backend (Spring Boot, PostgreSQL, WebSocket) keeps the players' Pokémon, lets players trade and battle them,
and shows players to each other across Minecraft servers. These modules model its core: who owns which Pokémon,
and what several players, threads and connections can do to that at once.

Paths below are relative to `src/main/java/com/mystaria/phantasmon_backend/`.

## 1. Inventory

| Component | State it keeps | Operations | Hard behaviour | Modelled in |
|---|---|---|---|---|
| Pokémon storage (`pokemon/`) | table `pokemon`: owner, PC slot, team slot | create, clone, move/swap (PATCH), delete, transfer, swap between teams | concurrent requests on one row; unique slots; a full PC | `PokemonStorage`, `PokemonTrading`, `PokemonTransactions` |
| Trades (`trade/TradeService`) | table `trades` | propose, accept, cancel, complete a live trade | a proposal may wait for ever while its Pokémon move; opposite trades lock rows in opposite orders | `OwnershipLedger`, `PokemonTrading`, `PokemonTransactions` |
| Live trades (`trade/LiveTradeService`) | invitations and sessions in memory, one lock | invite, respond, choose an offer, ready, leave, disconnect | messages in flight, crossing invitations, disconnection, expiry, changes by other requests | `LiveTrade` |
| Connections (`websocket/`) | one registered WebSocket per player | connect, replace, close, clean up, TTL sweep | the cleanup of an old connection against a new one | `Connections` |
| Live battles (`battle/LiveBattleService`) | invitations, lobbies, battles, spectators in memory; battle rows in the database | about thirty messages, timers, admin stop, start-up and shut-down | one lock, three places a player can be; teams that change meanwhile; crash; callbacks into the tournaments | `LiveBattle` |
| Battle rules (`battle/format/`) | the formats offered, resolved at the start from the Showdown data | resolve a format, validate a team | inheritance of formats, composite clauses, rules removed and bans lifted, against what Showdown's own functions ask | `ShowdownRules`, `TeamValidator`, `BattleFormats` |
| Tournaments (`events/tournament/`) | tables of tournaments, players, matches | register, check in, start, next round or wave, results, finish, erase; callbacks from battles | games that end after the tournament went on, walkovers that cascade, players added or dropped at any time | `Tournament` |
| Pairings (`Swiss`, `DoubleElimination`) | none | rank, pair a round, seed and route a bracket | byes, rematches, brackets that are not a power of two, the reset final | `Swiss`, `DoubleElimination` |
| Presence and hubs (`presence/`, `hub/HubService`, `hub/HubAnchorService`) | concurrent maps, one monitor for the hubs; table of anchors | change group, join and leave a hub, move, delete an anchor, chat, voice | the presence changes outside the monitor; a deletion is announced before it commits; cleanups | `Hub` (partly) |
| Idempotency (`common/`) | table of request uuids | claim, act, replay | duplicates of a request still running, a failure after the claim, a restart | `OnceOnly`, `Idempotency` |
| Authentication, rate limiter | challenges, tokens, buckets | issue, consume, refresh | cap and expiry | not modelled |
| Mirror hubs, NPCs, profiles, admin, logging, health | rows, files, feeds | CRUD, parsing, I/O | little | not modelled |

How they interact: HTTP controllers and the WebSocket handler run on Tomcat threads. The handler calls the services
directly; live trade and live battle each serialise their methods with their own lock and push messages through
`SessionRegistry`. A completed live trade calls `TradeService.completeLiveTrade`, a database transaction, under the
live-trade lock. A closing connection calls each service in turn; the sweeper does the same for a player whose heartbeat
stopped. Battles ask the tournaments who may meet, and call them back when a lobby or a game ends. Battles and tournaments
ask the formats whether a team is allowed.

What makes each component correct: no two Pokémon share a slot and none is without a place; a Pokémon changes hands only
by a trade, together with the other one; a trade is resolved once; a trade session joins exactly two players who are
reachable, and exchanges what both agreed on; a player is in at most one of lobby, battle and spectator seat; a match is
decided once and its result feeds the bracket once; a bracket loses nobody and comes to an end; a Swiss round is fair; a
hub is never overfull and its members see each other; a request is done once, however often it is sent; a format refuses
what its rules refuse. The hazards each
property is aimed at are listed, with their lines, under `hazards` in `PROJECT.json`.

## 2. Modules

```
OwnershipLedger        <== refinement ==  PokemonTrading  <== refinement (one thread) ==  PokemonTransactions
                                          extends PokemonStorage
Connections            <-- extended by -- LiveTrade
                       <-- extended by -- Hub
LiveBattle
DoubleElimination, Swiss  <-- extended by -- Tournament
OnceOnly               <== refinement ==  Idempotency
ShowdownRules          <-- extended by -- TeamValidator  <-- extended by -- BattleFormats
```

**`OwnershipLedger`** is the abstract promise: each Pokémon has one owner, each deal is pending, completed or cancelled,
and ownership moves only when a deal is settled, both ways at once.

**`PokemonStorage`** has the operators on the table `pokemon` (`findFreePcSlot`, `swapOrMove`, `transferOwnership`,
`swapTeamMembersBetweenOwners`), without state, so that the two modules below use the same ones. A row is its owner, PC
slot (box and slot numbered as one, 0 for none) and team slot; species, stats and properties are left out because no
branch of these operations reads them.

**`PokemonTrading`** is `PokemonService` and `TradeService` with one atomic action per method: what each method does when
it is alone. Variables: `pokemon`, `trades` (the tables) and `drawn` (the uuids ever drawn, a history variable).

**`PokemonTransactions`** is the same methods as Hibernate and PostgreSQL run them, one SQL statement per step, at READ
COMMITTED. `tx[h]` holds, for each request thread, the next statement, the persistence context (rows read, never read
again), the writes being flushed and the rows written and still locked. A write waits for the transactions that hold its
row or its unique keys; a cycle of waiters loses a member. Statements that PostgreSQL and Hibernate execute are external
to the repository and are modelled by what the mappings (`Pokemon`, `Trade`: no `@Version`, no `@DynamicUpdate`) imply.

**`Connections`** is the life of the WebSocket connections: `SessionRegistry`, the connection callbacks of
`PhantasmonWebSocketHandler`, `PresenceTtlSweeper`. A connection is open; taken out of the registry and about to be closed
by the thread that did so; closed; then, if it was the registered one, unregistered and cleaning up. Other threads run
between any two of these. A message read before a connection closes may be handled after it was cleaned up, because its
thread may be waiting for a service's lock.

**`LiveTrade`** extends it with `LiveTradeService`. Every public method is synchronized, so each is one action, the
transaction it ends with included. `invites` and `sessionsByPlayer` are the service's maps, `sessions` the session
objects. Two variables observe the service from outside: `screen` (what the messages pushed so far show on the player's
client) and `agreed` (the offers a player last declared itself ready for). Other requests change `team` at any moment (`TeamChanges`): `PokemonTransactions` says how.
The recall of a traded ghost, which follows a completion, is left out with the ghosts.

**`LiveBattle`** is `LiveBattleService`, again one action per method because of its one lock, with what the tournament
hook does to a match, the rows of `battle_sessions` and the end of the process. `lobbiesByPlayer`, `battlesByPlayer` and
`battlesBySpectator` are the service's maps, `lobbies` and `battles` the objects they point to, kept apart because the
question is whether maps and objects agree. A team is the set of the formats whose rules it respects, so that the
validator, a table lookup, is a membership test and the empty team is the empty set. A row is only ACTIVE or not, which
is all `closeOrphanedBattles` reads. Every way a lobby or battle ends goes through one operator, `End`: `cancelLobby`,
`finish` and `stopSpectating` with all they do to the maps, the spectators, the rows and the match. Its connections are
simpler than those of `Connections` (reachable or not; cleaned up or not yet), and a message may be handled at any time
after its connection was closed. Left out: leads, ambiance, the turn timer and the field viewers, which nothing else
depends on, which of two players hosts (either may), and a database that fails. `reinvite` and `setResult` are one step
each, and a match is only its status here: `Tournament` has the rest of it.

**`Tournament`** is `TournamentService` and `TournamentRunService` on the rows of one tournament, a transaction each.
`entries` are the players in the order of registration, `matches` a function from nodes (bracket, round, index) to rows, and
`games` the matches a lobby or battle is open for. The battles appear as the three calls they make: a lobby bound to a
match, a game won, a game not played; a game may end after its match, its tournament or the process did. It extends
**`DoubleElimination`** (the shape of a bracket, the wave of each match, where winners and losers go, the seeding) and
**`Swiss`** (standings, bye, pairing), which are operators over rows. Standings compare quotients of integers where the code
compares doubles. `pair` takes the first pairing without a rematch in the order the code searches, unless
finding it, or that there is none, takes more than `SEARCH_LIMIT` steps (`searchSteps`), which no run has players enough for.

**`Hub`** extends `Connections` with `PresenceService`, `HubService` and the deletion of anchors by `HubAnchorService`.
`join` and `leave` hold the monitor of the hubs; the presence and the table of anchors are read and changed outside, so that
a join, a change of group, a cleanup and a deletion each are several actions (`rest`, `joining` and `leaving` say what is
still to come). `seen` observes what the messages pushed to a player show. Positions, chat, voice and ghosts are left out.

**`OnceOnly`** promises that a request is done at most once and that every answer to it is the one stored when it was done,
given to nobody else. **`Idempotency`** is `executeIdempotent`: a delivery claims the uuid with `INSERT ... ON CONFLICT DO
NOTHING`, acts, stores the answer and commits; another one waits for the claim, then replays the answer or tries itself. The
transaction may fail at any point, the process may stop at any point.

**`ShowdownRules`** has what each rule of `rulesets.ts` brings into a format (its ruleset, banlist and unbanlist, which the
backend parses), and what the rule asks of a team (`Keeps`): its functions (`onValidateTeam`, `onValidateSet`,
`onChangeSet`), those of NatDex Mod and of Obtainable included, and its banlist. The backend does not run them, but rewrote
a part. What Showdown's team validator checks in its own code (learnsets, abilities of a species, formes outside of battle)
is not in the repository and no part of `Keeps`. **`TeamValidator`** is that rewriting. **`BattleFormats`** resolves the
formats one after the other, entry by entry (rules, values, "!", "+", "-" and parents), depth first, then puts a team
together member by member. A nickname is a value, and the constant `Ids` is what `toId` makes of it: several nicknames have
the same id, those without a letter or digit have none. The dex and the formats are constants, because the data files are
downloaded again at a start; `MCBattleFormats` gives them the shipped formats and a few species, items, abilities and moves
with the entries they have in the shipped files; two species are made up, because no shipped one has the tiers NatDex Mod
refuses.

`PokemonProofs`, `ConnectionsTheorems`, `LiveTradeProofs`, `LiveBattleProofs`, `HubProofs`, `IdempotencyProofs`,
`TournamentProofs` and `BattleFormatsProofs` hold the theorems, the `MC…` modules the small instances. An operator whose comment starts with "Mutant" is a plausible mistake in
the operator after it; no specification uses it. Every module with variables has a type invariant (`TypeOK`, `TxTypeOK`,
`TournamentTypeOK`); where no run lists it, it is an auxiliary one.

## 3. What the runs check

| Run | Question | Bounds and why they are enough |
|---|---|---|
| `trading` | types, unique slots, every Pokémon located, pending trades name existing Pokémon, the PC-room check suffices, a resolved trade is final; refinement of `OwnershipLedger` | 2 players, 4 Pokémon, 2 trades, 2 PC slots, 1 team slot: a PC can be full, a slot contested, a Pokémon promised twice |
| `tx_serial` | one thread's statements add up to the atomic operations of `PokemonTrading` | one thread serving any number of requests |
| `tx_concurrent` | what survives every interleaving of two requests: unique slots, deleted for good, a completed trade gives both away; and every request ends, though two opposite trades lock rows in opposite orders | 2 threads, one request each, of any kind, from the eight tables in which each of the two has a Pokémon, in its PC or its team, and a third Pokémon is absent or in one PC |
| `live_trade` | symmetric sessions, screens that show the server's state, readiness for the present offers, swaps only of offers, nobody left in a session without a connection or a cleanup to come; a player who never comes back leaves its session | 2 players, 2 Pokémon, 1 connection each at a time |
| `live_trade_sweep` | the sweeper and overlapping connections: the open connection is the registered one | 2 players, 2 connections each |
| `live_battle` | a player is in one place at most, its partner in the same; spectators and battles agree; Ghosts stay in; one challenger per NPC; only allowed teams fight; ACTIVE rows are the running battles, whatever a crash left; a match is released with its game and decided for good | 2 players (the second watches the first one's solo or NPC battle), 1 NPC, 1 match, 2 formats, teams allowed in one or both, 2 lobbies and 2 battles (or rows left ACTIVE) at a time |
| `tournament` | a bracket loses nobody, seats nobody twice and has one champion; it never comes to a halt; a Swiss round pairs everyone once, with a fair bye and no avoidable rematch; what was decided stays | 2 to 4 players in Swiss rounds (2 rounds planned at most), brackets of 2 to 4 played or decided, of 5 decided by an admin (five is the first size with byes that meet, and cascading walkovers); 1 dropped player, in Swiss only; 2 games open at a time, 1 in brackets of four while they run, none in Swiss of four after a drop, decided by an admin; series of three games by two players in the first round |
| `hub` | a hub is never overfull; clients show the members of their hub; a member is where its anchor stands | 2 players, 1 connection each, hubs of 1 or 2 places, 2 anchors of one hub and 1 of another in 2 dimensions; at most two of messages, closures, expiries and deletions under way at once, one anchor deleted |
| `requests` | a request is done once; answers are those of `OnceOnly`; every delivery that waits is answered | 3 deliveries, 2 uuids, 2 askers: a duplicate, a retry and a stranger with the same uuid |
| `formats` | but for what it overlooks, what the validator says agrees with the rules of `rulesets.ts`; a lower tier allows no team its parent refuses | the 19 formats the backend offers, every team of up to 3 of 15 members, chosen so that each clause has a team that keeps it and one that breaks it, and each exception of `RulesAgree` a team it is needed for |

Two players are the least for everything a session, a lobby or a battle joins; that sessions stay symmetric with three or
more, invitations crossing, is proved (`SessionsAlwaysPairTwo`).

Two further runs each show a disagreement between the code and what its documentation or comments say. They are the
`findings` of `PROJECT.json`, with the lines and the quotations:

| Run | What TLC shows |
|---|---|
| `tx_two_accepts` | two acceptances offering one Pokémon both complete |
| `tournament_late_entry` | a player added to a running bracket makes it look larger than it was built, and the next winner goes to a match that does not exist |

### Met while modelling

Other behaviours a reader of the code may not expect. The models contain those of the first two groups; no run is kept for
them. The others are at the edge of what is modelled.

Trades and transactions (no row is locked, and none has a version, between the read and the write):

- A PATCH that read its Pokémon before a trade committed writes the whole row, the former owner with it.
- `cancel` that read PENDING before an acceptance commits overwrites COMPLETED by CANCELLED, the Pokémon exchanged.
- `propose` commits between `delete`'s look for pending trades and its DELETE: a PENDING trade names a deleted Pokémon.
- `delete` that read its Pokémon before a trade commits deletes the new owner's.
- The PC room `accept` counted is taken before it transfers; the transfer then fails and the acceptance rolls back.
So `TradeHistoryStable` and `PendingPokemonExist` hold of the operations one at a time (`trading`, and proved) and fail when
transactions overlap; the difference is what a lock or a version column would have to restore.

Live trades, battles, hubs:

- A live-trade session accepted while the sweeper expires one of its players, between that player's cleanup and the closing
  of its connection, outlives the connection.
- A Ghost team changed after the lobby opened fights an NPC although the NPC's format does not allow it: `startNpcBattle`
  only asks that it not be empty.
- The late cleanup of an old connection cancels the live trade of the new one and tells only the partner. The battles'
  cleanup does the same to a lobby or battle, but tells both.
- `TradeSetReady` does not say for which offers: one on its way when the partner changes its offer counts for the new one.
- A `BattleNpcStart`, `BattleSoloStart` or `BattleSpectate` handled after its sender's cleanup leaves an absent player busy,
  and the NPC with it, until that player comes back or an admin stops it.
- `reinvite` while a match is being played sets it back to PENDING and tells both players that it waits.
- A member may stand in a hub by an anchor that is gone: `onAnchorDeleted` runs before the deletion commits, and takes out
  those who are members then (`HubAnchorService` 125–126); a join that has read the anchor goes on.
- A `HubJoin` handled after its sender's cleanup has left the hub, and before it has left the presence, makes it a member who
  takes a place, and whom the sweeper cannot find, until it connects again.
- With overlapping connections of one player, the group its presence says and the group of its anchor may differ.
- Two anchors posed at once may overlap: each checks the others before either has committed. A player refused by a full hub
  has left the one it was in without being told.

Tournaments:

- Two matches of one wave that end at the same time, each in its transaction, write whole rows: the player one of them
  placed in the next match may be lost to the other's write. The same whole-row writes may set a finished tournament running
  again or a round back. (`nextRound` sent twice is stopped by the unique key of the matches.)
- A game that ends after the tournament was finished still changes the results, where a comment of
  `TournamentRunService` has the standings stay as they are.
- A player in two running tournaments is paired by whichever open match is found first.
- The bye is chosen before the pairs: there may be a rematch that another bye would have avoided.

Formats (the models of the data follow the code here):

- A format that removes a composite rule keeps its parts: National Dex Ubers removes the Evasion Clause, and still refuses
  Sand Veil and Snow Cloak.
- A ban of a base forme by the name of the forme ("Deoxys-Normal", "Urshifu-Single-Strike", "Zygarde-50%") names no entry of
  the pokédex, and bans nothing; "Diglett-Base" and "Zigzagoon-Base" do ban the base forme alone. A ban of a combination
  ("A + B") is dropped: Hypnosis with Gengarite, which Sleep Clause Mod bans, is allowed.
- The cosmetic formes of `pokedex.js` (Gastrodon-East) have an entry with no number, types or tier, and `ShowdownData.parse`
  does not give them those of their base species. Gastrodon is of RU and refused in NU, PU and ZU, Gastrodon-East is
  allowed there; Shellos-East, without an evolution, is refused by Little Cup. They are not in the models.
- Of NatDex Mod the validator checks the illegal species. In the National Dex formats it allows the generation 9 moves
  nobody can learn (the five Torques), Light of Ruin, items no game has had since generation 7 (Berserk Gene), and would
  allow an unreleased species (no shipped one is).
- Of Obtainable it checks neither the fused Pokémon nor a move known twice. The Species Clause refuses a second fusion as a
  second Kyurem, Necrozma or Calyrex; the two formats without that clause (Anything Goes, National Dex AG) allow it.
- Monotype looks neither at the types a Mega Stone or Ultranecrozium Z takes from its bearer, nor at a team of unknown
  species.
- A nickname is compared by its letters and digits, even when it is the name of its species, where Showdown compares it as it is
  written: "Ace!" and "ace" are refused together, two Pokémon called "***" (or the same name in Japanese) are allowed.

`TeamValidator` says of itself that it is "a subset of Showdown's team validator" (TeamValidator.java:15). `RulesAgree` states
which subset: `Overlooked` is the rules an allowed team may break, and when, and `NicknamesTellApart` the teams of which a
nickname is rightly refused. Without any one of these exceptions TLC finds a team that violates it.

Every counter is bounded by the size of a constant set: uuids of Pokémon, trades and sessions, connection slots (a slot
is free again once its connection is gone), one sweeper. `CHECK_DEADLOCK FALSE` appears only where the finite supply of
uuids, requests, rounds or team members may run out, and where a tournament ends. Session uuids in `LiveTrade` are reused once no map and no client knows them, lobby and
battle uuids in `LiveBattle` once no object and no ACTIVE row has them (a message that names an old one is refused). In
`live_battle` the empty team does not occur: it is refused where a team allowed in no format would be. Symmetry is used
for safety only.

### Fairness

- `tx_concurrent`: strong fairness of each thread's next statement, because PostgreSQL queues the waiters of a lock and a
  waiter gets its turn; weak fairness of `Victim`, because `deadlock_timeout` always fires.
- `live_trade`: weak fairness of `Unregister` and `CleanUp`, because Tomcat calls `afterConnectionClosed` for every
  connection that is closed and the lock it needs is held for a bounded time. Nothing is assumed of clients: none has to
  send, answer or close anything.
- `requests`: weak fairness of each delivery's next step, because a transaction that waits for another's claim goes on when
  that one commits or rolls back. Nothing is assumed of arrivals.

The other runs check safety, and state no fairness.

## 4. What is proved

For every value of the constants, under the assumptions named in the modules (the `No…`/`Nobody` values are not members
of the sets; PC and team sizes are natural numbers):

- `PokemonProofs`, first part (the services, one operation at a time): it starts with what each storage operator does to a table. `CountedRoomIsASlot` is a pigeonhole
  argument (a PC that holds fewer Pokémon than it has slots has a free one); `MoveKeepsTable` shows that an exchange of
  locations keeps slots unique and every Pokémon located. Then, of the services: `TypeCorrect`, `StorageSound`, `NobodyIsLost`, `PendingTradesSound`, `PcRoomTheorem`, `TradeHistoryTheorem` and
  `Refinement` to the ledger. The inductive invariant adds to the checked properties that a row's uuid was drawn (an INSERT
  never overwrites) and that the parties of a trade differ (the first transfer of an acceptance takes nothing from the PC
  the second one needs).
- `PokemonProofs`, second part: the same services one SQL statement at a time, any number of requests at once. The inductive
  invariant `TxInv` has four parts. `TxTypeOK`. `Programs`: what the record of a transaction says of itself, whatever the
  others do (the kinds of its statements, which rows it will still write, that an acceptance which resolves its trade as
  COMPLETED hands over both Pokémon). `Isolation`: no row is written by two transactions, rows written by two do not claim
  one slot, and the table each transaction sees has no two Pokémon in a slot; it is what makes a commit keep the committed
  table so. `Uuids`: a row written exists in the table, or is the new row of its own transaction, whose uuid nobody else
  drew. From it: `TxTypeCorrect`, `SlotsUniqueUnderOverlap`, `DeletedForGood`, `ExchangesTogether`.
  `OneThreadImplementsTrading` is the refinement of `PokemonTrading` by the statements of one thread that starts from empty
  tables. Its invariant `Plan` says, for each request and statement, which tables the flush in progress leads to, and what
  the code may have concluded so far; with one thread nothing is committed in between, so these are the tables of the atomic
  action. `TransactionsAssumption` (Pokémon and trades have different uuids, the tables found at the start respect types and
  indexes) is what they rest on.
- `ConnectionsTheorems`: what the connection actions keep, for any service on top; `PresenceEndsInCleanup` says that without
  the sweeper a player stops being present only when its cleanup ends.
- `LiveTradeProofs`: the invariant `IInv` is the types, `InvitesJoinTwo` (nobody is invited by itself, or a session could
  join one player twice), `SessionsPairTwo` and `ReadyForTheseOffers`, one lemma per message. From it:
  `SessionsAlwaysPairTwo`, `ReadinessIsForTheOffers`, `SwapsAreOfOffers`, `OpenConnectionsAreRegistered`.
  `NobodyIsLeftInASession` adds `InviteesPresent` (whoever is invited is present): the accepting side is never asked
  whether it is connected, so this is what stands in for the question. It assumes `~ Sweeps`; with the sweeper it is
  false (the first behaviour listed under live trades above). `ScreensShowTheSession` (`ScreensAreCurrent`) follows from it:
  a push that `SessionRegistry` drops is one to a player whose connection is gone, whose screen starts blank when it comes
  back. It assumes `~ Sweeps` and `Connections = {c}`, that a player connects again only after the cleanup of its last
  connection, in any number of rounds: where they overlap, the late cleanup ends the session of the new connection, as said
  above.
- `IdempotencyProofs`: `DoneOncePerRequest` and `Refinement` to `OnceOnly`, from an invariant that says what each point of a
  delivery knows: whoever acts holds the only claim on its uuid, a row is that of a committed delivery with the same uuid
  and asker, and a committed delivery has a row.
- `LiveBattleProofs`: the types and every property the run checks, one theorem each, for any number of players, NPCs,
  formats, matches, lobbies and battles. The inductive invariant adds to them that maps and objects agree both ways (a player
  is in a lobby or battle exactly when that object names it, as `SpectatorsKnown` says of spectators), that nobody is in two
  of them, that an NPC's lobby has no match, and that no ACTIVE row has the id of a battle that is not stored (closing the
  orphans would keep it). `EveryStep` reduces the messages, timers, stops, disconnections and calls of the tournament to six
  changes (nothing, a lobby opens, is updated, a battle begins, somebody watches, things end), the closing of orphans and a
  crash; one lemma per change keeps the invariant, and the two action properties follow from the same reduction.
- `HubProofs`: `TypeCorrect`, `NeverOverfull` and `ScreensShowTheHub`, for any number of players, connections, hubs and things
  under way. Only three things change who is in a hub or what a client shows: the two halves of a change of hub that take
  the monitor (`Leave`, `Enter`) and a new connection; a lemma shows every step to be one of these or to leave members and
  screens alone. Each property is inductive over these; the types need that a call on the presence names a group
  (`CallsNameTheirGroup`). The players are assumed to be finitely many, so that members can be counted.
  `MembersStandByTheirAnchor` (`MembersAreOfTheirGroup`) takes more, because nothing but the order of the calls keeps the
  presence and the hubs together: `GroupInv` says that the thread of a cleanup, an expiry or a deletion only ever leaves a
  hub, that between the two calls of a message the player has left the hub its new group is not that of, and that a join in
  progress belongs to a player still where `join` read it to be, or of no group. It assumes `Connections = {c}` (false where
  connections of a player overlap, as said above), with or without the sweeper.
- `TournamentProofs`: `LateGamesChangeNothing` (`DecidedStays`). A result in a bracket changes many rows: it places two
  players, which may settle a walkover, which places a player, and so on. `Keeps` is what one such change leaves alone (the
  same matches, the decided ones as they were); a lemma each shows it of `place`, `advance` and one walkover, and
  `SettleWalkoversKeeps` of all of them, by unfolding the recursive `settleWalkovers` into its steps (`SettlesOneByOne`) and
  an induction on their number. The inductive invariant `ResultsInv` adds that there are no matches before the start, and
  that those of a Swiss tournament are of the rounds so far, so that a new round writes over nothing.
- `TournamentProofs`: `FairSwissRounds` (`SwissRoundsAreFair`), for every number of players and every results, from the
  assumptions that the players are finitely many and that a shuffle has the same players, each as often
  (`TournamentAssumption`, `ShufflesAssumption`). The players of a round are followed by `Lists` (a sequence with each
  member of a set once): the entries list the players entered (`EntriesListPlayers`, of which the inductive invariant
  `SwissInv` says that nobody enters twice), the standings rearrange them (`StandingsList`: the ranks are a strict order of
  the positions, and the swap of two tied players undoes itself), `Kept` keeps the active ones (`KeptLists`), and a shuffle
  lists them again (`ShuffledLists`). `ByesAreFair` says who sits out and that an even number is left. `SearchFinds` is the
  heart: what the search finds pairs everyone left once and avoids the rematches; when it finds nothing, every pairing has a
  rematch (take the pair of the first player out of one that had none: what is left would have been found, so this partner
  was possible); and with nothing to avoid an even number is always paired. It is an induction on sets of positions
  (`SetInduction`, itself proved from the well-foundedness of the naturals); that the recursive functions of the model, the
  sums of the standings included, satisfy their definitions is `SetRecursion`. `RoundIsFair` carries it over to the matches
  created (a rematch may also be drawn when the search gives up: `givesUp`, whose steps the proof need not
  count), and `OnlyNextRoundMakesMatches` shows that no other step has a part in it.
- `TournamentProofs`: `SurvivorsAreSeated` (`SurvivorsSeated`) and `BracketsGoOn` (`BracketGoesOn`), for every number of
  players and of byes, any draw and any results, where the run stops at five. Both assume `BuiltForItsEntries`, that no late
  entry makes a bracket look larger than it was built; `AdminAdd` does not see to it, and without it the first is false
  (the run `tournament_late_entry`). A late entry that leaves the size as it is, is within the theorems. The proof has
  three layers.
  1. *The wiring* (`BracketsAreWired`). `levels` is a power of two that fits (`LevelsFit`, from a small theory of powers,
     halves and integer division); then, for every size: each slot but the first ones is filled from exactly one match, of
     an earlier wave; a winner goes on to a slot for as many defeats as it has, the loser to one for a defeat more, or out;
     and some slots always get a player, whatever the byes.
  2. *The state*. `BracketInv` says of the rows that they are those of such a bracket, that a match is decided exactly
     when the slots it leads to are filled, and that every player `Stands`: it waits in one slot at most, with as many
     defeats as the slot is for, and if in none then it never played, is champion, or lost twice. `BuiltInvariant` shows it
     of the bracket as it is drawn (the seeding places each player once), `DecisionsKeepInvariant` of any match decided,
     the grand final and the reset final included, and `SettlesAll` that the walkovers end with none left: as each decides a
     match, as many turns as there are matches are enough, which is what the model gives `settleWalkovers`.
  3. *The tournament*. `SafeInv`, the inductive invariant, adds `ResultsInv`, that nobody enters twice, that nothing is
     played before the start, that the players of open games are known and that the waves before `currentRound` are over;
     one lemma per kind of step keeps it. Alone the two properties are far from inductive: they count the seats and the
     defeats of a player but do not say where a match leads, nor that what is still to be filled can be.

  `SafeSeats` and `SafeGoesOn` read the two properties off the invariant; the champion is the only one left because a
  bracket without undecided matches has, for each player in it, a second defeat or the last win (`OneChampion`), and the
  next wave can be played because the slots of its matches are filled from the waves before it (`FilledFrom`).

- `BattleFormatsProofs`: `ValidatorAgrees` (`RulesAgree`) and `LowerTiersRefuseMore` (`LowerTiersAreStricter`), for any
  formats and dex that the assumptions below allow, teams of any length and chains of tiers of any length. The inductive
  invariant `FormatsInv` is about the Builder: the entries it has seen and those on its stack are entries the format comes
  to, and whatever a seen entry brings is seen or on the stack; so when the stack is empty, the entries seen are the least
  set that has the format and is closed under rulesets (`Gathered`, `Reached`), in whatever order they came. Every resolved
  format `IsResolved`: its rules, bans and unbans are those of such a set, which the history of the Builder no longer shows.
  - *The validator* then has one lemma per clause and direction, because it rewrites the functions of `rulesets.ts` in
    its own terms: it compares base species where a rule compares numbers, marks the later of two equal members where a rule
    looks at pairs, and finds evasion, accuracy and sleep by the bans the clause brought. Monotype is the long one: the
    validator keeps the types that most members bear, a rule intersects the types of all; a team has a type in common
    exactly when the most frequent type is borne by as many as there are members (`Bearers`, counted). That no player has two
    of a fusion comes from another clause than the rule that asks it, the Species Clause (`FusionsKept`). The theorem has the
    exceptions of `RulesAgree` (see "Met while modelling") and no others: outside `Overlooked`, an allowed team keeps every
    rule of its format.
  - *The tiers*: the lower format comes to all that the upper one comes to, itself, bans and rules that bring only bans. What
    it adds can only refuse. It could allow more only if it unbanned something (in an unbanlist or by "+") or removed a rule
    where the upper one does not, or gave another team size; `TiersAssumption` excludes these, which no offered tier has.

  The data files are downloaded again at a start, so the theorems say what they have to satisfy, in four named
  assumptions: `FormatsAssumption` and `TiersAssumption` (of the formats), `MembersAssumption` (what a rule bans by name is
  in the data) and `DexAssumption` (formes have their base species' number, the formes of a fusion are of one species, and the
  moves that raise evasion or lower accuracy are those the clauses list). What a format unbans are classes (Past, Unobtainable):
  were a Pokémon or an item of a team unbanned by its own name, the bans of a rule would not hold for it. TLC evaluates them on the formats and members of the run, and they were compared
  with the shipped files: they hold of them, but for the cosmetic formes of `pokedex.js` (see "Met while modelling").

Only model-checked: liveness (the properties of the runs under Fairness), which the provers do not handle.
That the shipped data satisfies the assumptions of `BattleFormatsProofs` is TLC's to say, on the formats of the run.

## 5. Not modelled, and what is left

Not modelled, because there is nothing in them a model checker would find: parsing, formatting, logging, files, NBT, CRUD
without concurrency (NPCs, profiles, administration), the legality check of a single Pokémon (ranges of one request's
values), tokens and the call to Mojang, the token bucket of the rate limiter (one thread per connection). The mirror's feed
promises something only together with a client that is not in this repository.

Known and left for later, each at the line named:

- Ghosts inside presence groups: `GhostRecall` 42 makes two calls between which the Ghost may change hands; `SendOutGhost`
  (`PhantasmonWebSocketHandler` 273) reads the Pokémon before it takes the battle lock; `PresenceService.join` drops a Ghost
  that is out without telling anyone; the sweeper does not end a mirror subscription.
- Hub voice and chat: `setVoice` may outlive the membership (`HubService` 382); an expired mute is deleted by id and may take
  a fresh one with it (`HubService` 316–318); `toggleChatLock` is not atomic.
- The cap of authentication challenges, which concurrent calls can pass.
- Overlapping transactions on one tournament, statement by statement as in `PokemonTransactions`, and the order in which the
  battle lock and a pooled database connection are taken.
- An abstract specification of the battles (offered, running, over) and that `LiveBattle` implements it.
- The turn timer, leads and the alternation of hosts in `LiveBattle`.
