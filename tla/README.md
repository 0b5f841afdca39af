# Verification of the rooms and games of yorr

TLA+ models of the backend (`src/backend/src`) of a multiplayer game server and of the
part of its web client (`src/frontend/src`) that talks to it, the TLC runs that check them
on small instances and the TLAPS proofs about them. Every definition is translated from
the code; `PROJECT.json` maps it to its lines.

## The system

A single Node process serves rooms in which a few humans and bots play one of four
games. REST requests create, join, leave and start; a WebSocket per player carries
the game; timers play for those who do not. All state that must survive a restart is
in a Redis-like store inside the process (`infra/memoryRedis.ts`), changed by
*atomic scripts*, synchronous functions that run to their end; finished matches go to
SQLite.

| component | state | operations | what is hard |
|---|---|---|---|
| room scripts (`room/scripts`) | room hash, `:players`, `:scores`, `:bots`, game keys, each with an expiry | create, join, leave, close, add/remove bot, start, roll back, cancel, return, touch | a member counter, a host and four hashes that no script recomputes; expiry per key |
| score and completion (`game/score`, `game/completion`) | sheet per game and player, signature per round | confirm, finish | retries, stale game ids, a bonus counted once |
| yacht rounds (`game/round`, `game/yacht`) | round state, stored deadline; in memory: timer slot, remembered deadline, missed turns | roll, submit, expire, skip, remove, start, reset, rehydrate | chains of awaits; removal in three commits; timers against late answers |
| seats (`ws/roomLifecycle`, `ws/roomJoin`, `ws/registry`, `room/closeScheduler`) | online/offline seats, closing reservation | join, reconnect, close, leave, close when empty | disconnection means different things by phase |
| startup and sweeper | none | resume or close each playing room, drop orphan states | restart between any two handlers |
| quick match (`room/quickMatch*`) | queue, tickets, lock, marker | enter, status, cancel | polling drives everything; a lock with a lifetime |
| da vinci, duel, ping-pong (`game/davinci`, `game/duel`, `game/pingpong`) | a state with a version; one deadline per room | moves, deadline, leave, reset, rehydrate | deadlines of an older state; leaving in every step of a turn; a score hash written by nobody but the end |
| gateway (`ws/handler`, `ws/server`, `ws/broadcast`) | sockets and their seats | join, input, broadcast, idle kick, replaced sockets | the close of an old socket after the join of the new one |
| page (`frontend/src/app`, `realtime`, `store`) | connection, attempts, snapshot of room and game, input counter | dial, retry, give up, resume, reload, receive, start | snapshots, state messages and answers in every order; a reload forgets what the server remembers |
| login, profiles, sessions (`auth`, `user`) | rows of members and their links; session hash, index of its token, one-time codes | sign in, register, recover, adopt a name, exchange, rename, log out | registrations that race; a look that is old when it is acted upon; the session as a copy of the profile |
| archive and ranking (`game/match`, `game/ranking`) | rows of matches; cache of the weekly list | save, evict, list, own rank | a game finished twice; saving that fails; a cache that outlives a match; two queries for one number |
| snapshot (`infra/storeSnapshot.ts`, `infra/sqlite.ts`) | the snapshot file; transactions under one lock | save, load, roll back | what came back is older than what SQLite has |
| chat, score queries, monitoring | | | mostly input and output |

Interactions: a REST or socket handler calls a room script through `RoomService`,
then the game's module, which calls the round services; these call the store, the
timer, the completion service and back into the removal and next-turn paths. The
timer's callback enters the same paths. Restart enters them once for each playing room.
The three other games share one pattern: an input, a deadline or a leaver makes a new state,
and `changed` broadcasts it and either sets the deadline of that state or settles the game
(`game/module.ts` picks the module by the room's game). A page knows the room by what the
gateway sends: whole snapshots on a join, states and events between them.

## Modules

| module | models |
|---|---|
| `Room` | one room code with its key family and score sheets; an action per atomic script, plus `Tick`, which ages every key by itself |
| `OneRoom` | the abstract promise of a room; `Room` is shown to implement it |
| `YachtTurns` | the turns of one yacht room: handlers as chains of awaits, timers, sockets, leaving, restart, sweep |
| `TurnCycle` | the abstract promise about turns; `YachtTurns` is shown to implement it |
| `QuickMatch` | quick match of one game: waiting, matching, automatic start, and what the rest of the server does to the keys it reads |
| `GameRoom` | what a room of the other three games does, whatever is played: start, deadline, end, leaving, return, restart |
| `Davinci`, `Duel`, `PingPong` | one game each, on top of `GameRoom` |
| `Games` | their composition: a room of any of them, and what all of them owe the room |
| `Client` | the pages of a room and the gateway: connections, seats, messages, reloads and restarts |
| `Accounts` | members and their sessions: login, profile and logout over the database and the store |
| `Records` | what outlives a game, on top of `Accounts`: archive, ranking with its cache, snapshot, crash and restart |
| `MCRoom`, `MCYachtTurns`, `MCQuickMatch`, `MCGames`, `MCClient`, `MCRecords` | instances for TLC |
| `Room_proofs` | theorems about `Room`, with the refinement of `OneRoom` |
| `TwoPlayers_proofs`, `Davinci_proofs`, `Games_proofs` | theorems about `Games`: one game at a time, duel and ping-pong; the tile game; what all owe the room |
| `QuickMatch_proofs` | theorems about `QuickMatch` |
| `Client_proofs` | theorems about `Client` |
| `YachtTurns_proofs` | theorems about `YachtTurns`, with the refinement of `TurnCycle` |
| `Records_proofs` | theorems about `Records` and, with it, `Accounts` |

### Room

A script that refuses changes nothing, so that its action is just disabled. The room
hash is a record whose phase `NONE` means that the key does not exist; `members` is
kept apart from the roster because the code does, and `scores` has `Absent` for a
missing field because a missing field and a zero are different to the ranking. Every
key has a time to live in ticks (`ttl`): 0 is "no key", `Forever` "no expiry". Scripts
set, copy or forget it exactly where the code does, and an emptied hash loses its key
(`KeyOf`). `Tick` lets each key run out on its own, in the worst order the expiries allow.
User ids are numbers because succession is by smallest id. A game id is drawn once
(a UUID). `RollbackStart` and `CancelActiveGame` carry the precondition of their
callers, a game without scores: rollback is called when the module's start failed,
cancellation while a match is being prepared. Left out: nicknames, timestamps, settings.

`OneRoom` knows no keys: a room is its phase, who sits in it, their host, and the points of each seat. The mapping reads phase
and host from the room hash and takes the points of whoever is seated (`SeatPoints`). A bot is seated or unseated like a human; a touch, a new expiry and an
age of a key are stutters; an expiry of the room key, a close and the last leave are `Vanish`. What it adds to the
invariants is the order of things: that nobody sits down in a game, that no start is taken back once points were won, who may follow a host, that points
never shrink in a game, and that nothing of a room is missing, at any moment, without the rest.

### YachtTurns

A handler is a *flow*: a frame with a program counter and the values carried across
awaits, one step per await that reads or writes shared state. Calls between the parts
are tail calls, so a frame needs no stack. `Flows` is the number of handlers that may be
under way together:

- One flow is the shipped build. The store is in the process; its promises resolve as
  microtasks, so the chain of awaits of a handler runs to its end before the next message,
  request or timer, which are macrotasks.
- Two flows are what the ports allow: any await may be slow (the store used to be a
  separate Redis). Only properties that should survive this are checked there.
  Known not to survive it: two overlapping starts of a turn may overwrite each
  other's timer; a player who reconnects between the decision to remove them and the removal
  is removed; a return to the lobby may delete the state of a game started meanwhile.
  The shipped process cannot meet them, so they are neither hazards nor findings.

Correspondence: `Begin` is `beginTurn` up to the offline decision, `Arm` and
`ScheduleTurn` are `armTurn`; `Cancel`, `Finish` are `advanceTurn` with
`finishIfComplete`; `Skip`, `LeaveSeat` ... `Clear` are the offline handling and
`removePlayerFromRound`, commit by commit; `FireTimer`, `AutoRoll`, `Resolve`,
`ScoreForThem` are the deadline. `Disconnect`, `Connect`, `LeaveBySocket`,
`LeaveByRequest` and `CloseEmpty` are the seat handlers. `StartGame` merges the START
script with the module's start, and `Connect` the reads of a join with its commit. A
failure of the module's start is not composed: its script is `Room!RollbackStart`.
`CanAct` is the gateway's guard, membership of the socket; what the game then refuses is in `Roll` and `Submit`.

A room is normal or a party (`mode`). A party room was opened by a dashboard, which is not on the roster but has a
seat in the registry like a player (`Seats`): it connects, disconnects and leaves by the same handlers, keeps the
room from being closed as empty, and comes back into a running game only while the registry still has its seat
(`MayConnect`). `LEAVE` deletes a room with its last member unless it is a party (`LeaveRoster`). `Join` lets humans
who left sit down again in a lobby. A party room that its last participant leaves in the middle of a game is therefore still
`PLAYING`, with no roster; `removePlayerFromRound` has cancelled its timer and removed its round. This is `Deserted`:
`SeatsMatchTurns` says that only a party room gets there and that no round is left of it, `TimerFollowsTurn` that no timer or
deadline is, and `GameEnds` names it as the one way, besides the lone human, for a game not to end.
The room begins full; adding and removing bots, which is `Room`'s, and sockets of anybody else who is not on the
roster are left out.

Time is not counted: a scheduled deadline may fire at any moment after it was set,
which covers every duration. Faces of dice and held dice do not steer any transition and
are left out; `rolls` does and is kept. The room lock is not modelled: a mutation under
the lock is one step, and `remove`, which does not take it, is another.

`TurnCycle` knows only who has the turn, who waits and who has played.
The mapping turns the list and index of the code into these sets, so that an off-by-one
in a removal shows as a step the abstract game cannot take.

### QuickMatch

`ticket`, `age` (the queue, by time waited), `lock` and `marker` are the four keys of
`quickMatchKeys.ts`; `home` is the `roomId` of the session hash, `session` says whether
the hash exists; `phase` and `roster` are the room, `sockets` and `closing` the registry
and the closing reservation. `Look` is `statusOf` with its healing; `PutTicket` ...
`Unlock` are `enter` and `match` await by await, `StartIfReady` ... `Report` the rest of
`status`, `Unqueue` and `Forget` those of `cancel`. Flows are as in `YachtTurns`. An action
of the environment is a whole handler of the rest of the server, run between two
requests. `StoreFull` is the key limit of the store: a write that makes a key may throw, and
every such write of a request is a step at which it may.

`Happens` switches on what users do besides polling and entering, so that a
run can say what a property needs: `cancel`, `refresh` (a socket closes outside a game, which
clears session room and ticket but not the seat), `wander` (rooms opened and left while
waiting or in a lobby, and left while a match is being made), `expiry` (a session hash is gone before its wait; every
authenticated request renews it for a day, so this is what the code guards against
rather than what is usual). A ticket of a match and the marker live as long as their
room; the ticket of a wait and the score window count the same ticks. Left out: the
choice of the host, several games (their queues and locks share nothing), the
five-second life of the lock, a third person who joins a match by its code, and a start
that the game's module fails.

### GameRoom, Davinci, Duel, PingPong, Games

The operators of `GameRoom` are the room's half of a step: `StartRoom` is START with the
first deadline, `GoesOn` and `Ends` the two ends of `changed`, `LeaveIdle`, `ReturnRoom`,
`CloseRoom` the requests, `RestartRoom` the rehydration. A game's module conjoins its own
half. The scheduler keeps for each room the version the deadline was set for and the
callback compares it with the state, so that the deadline is `none`, `current` or `stale`
(`Fires`, `FiresStale`); no version number is needed. A handler is one step, for the reason
given above for one flow. `Leave` comes in two forms, as in the code: the request takes the
seat out of the roster before the module hears of it, the socket message does not.

`Davinci` is `davinciCore.ts`. The value of a tile is its number with its colour, jokers are
negative, and `PlaceFor` is `insertIndexOf`. `Advanced` is `advance` with every tile the deck
might give, `Concluded` is `concludeTurn`, `Forfeited` is `forfeit` in each of the steps a leaver may
leave behind. `DavinciDeadline` plays the default of the step it finds.

`Duel` keeps the reactions of a round as numbers with the two sentinels `FOUL` and `MISS` of
`duelRules.ts`, compared by `Faster`. `Shootout` and `Penalty` are the two ways to lose a
bullet or the duel, `TimedOut` the three meanings of the deadline.

`PingPong` abstracts the court to whose side the ball flies to and whether it is a fault. What a swing
does depends on when and how it comes, which the model leaves open. The gate,
the countdown, points, deuce and the order of serves are kept exactly. `Party` says whether a
dashboard judges the rallies (`isHostJudged`). What follows the gate in such a room cannot be
reached (see the findings) and is not modelled.

`Games` is a step of the module of the room's game or of the room alone; its properties are those that
every module owes the room.

### Client

A page has a link (`dialling`, `joining`, `connected`, and the states it waits or gives up in),
the number of its attempts and a snapshot (`shown`). `Receive` is the reducer with `keepGameState`
and the reconnect policy, `Answer` the response of START, which overtakes or follows the
messages of the same start. `Scheduled` counts an attempt; beyond the limit the
session is parked until the player resumes it. A connection is two queues; one that the page has lost stays with the
server in `late` until the server has read it and seen its close. `HandleJoin`, `ReadLate`,
`Closed` and `SeatAfterClose` are the gateway, `CloseRoom` the grace period, `Restart` the loss of
sockets, registry and grace. The state of a game is its number and a version, which is all that the
page's handling depends on. The games are those that send whole states; yacht's partial messages
are not modelled. What goes wrong is listed in `Happens`: the network
drops a connection, the page is reloaded, the process restarts, the gateway kicks an
idle socket; `MaxFaults` says how often.

### Accounts and Records

There are three memories. SQLite (`users`, `linked`, `matches`) keeps what was committed. The store (`session`, `index`,
`codes` and one room) loses in a crash what its last snapshot lacks. The process (the frames in `flow` and `closing`, the
list in `cached`) loses everything. `Restart` may come between any two steps, and what its user sees afterwards
is each memory at its own age.

A request is a flow with a step per statement, transaction or group of store commands, as in `YachtTurns`. A transaction holds
the lock of the one connection until its end, so it is one step that commits or leaves no trace; `DatabaseFails` is the other
outcome. In `Register` the unique link decides a race and the loser's member goes with the rollback. `Adopt`
looks again because its row may have been renamed since `Find`. `SignIn` begins when the provider has answered; the call to the
provider is the one place where other requests do run in between in the shipped build.

`Finish` is the compare-and-set that makes one call responsible for the rest: `FindMembers`, `Insert`, `Evict`, or
`ArchiveFails`, which the completion service swallows. The game itself is reduced to its start and its points. `Snapshot` waits until no
handler is under way, because a timer fires only between handlers; so what it finds is a finished game with its record or its
failure, or a game that goes on. A crash after the record and before the next snapshot brings the game back: it is played
again (`replayed`) and its second end leaves the first record as it is. `failed`, `replayed` and `had` (the names of a row so far) are
history that only properties read.

Left out: sessions of guests, the OAuth state, pictures, the expiry of sessions and codes, the limit of the list and the names in
it, and the room fields of a session, which `QuickMatch` has. The eviction comes before the work of the next owner of the
lock, so that a list read in between is not stored over it.

## Runs

| run | question | bounds |
|---|---|---|
| `MCRoom_seats` | do counter, hashes and host ever disagree; can half a room survive; do the scripts implement one room; does an untouched room vanish? | 3 humans, 1 bot, capacities 2 and 3, one game, one cell, 2 ticks |
| `MCRoom_scores` | are points those of the current game, counted once; does a room name its game, and does a game stay whole? | 2 players, 2 games, 2 rounds, 2 categories, 2 throws, 1 tick |
| `MCYachtTurns_game` | do seats, turns, timer and deadlines fit after every handler and restart; is the abstract game implemented; does a game end by timers alone? | normal and party rooms with a dashboard, 2 humans, 1 bot, 2 rounds, 2 rolls, 2 games, 1 restart |
| `MCYachtTurns_handlers` | what survives interleaving at every await? | normal rooms, 2 humans, 2 flows, 1 roll |
| `MCQuickMatch_queue` | is a complete group ever left waiting; do tickets, queue, sessions and rooms agree? | 3 users, 2 rooms, matches of 2, 5 entries, 2 ticks; cancel, expiry |
| `MCQuickMatch_starts` | does a match start itself, once, with everybody there and nobody who has gone elsewhere? | 2 users, 2 rooms, 2 entries, 1 tick; cancel, refresh, wander |
| `MCQuickMatch_requests` | does the lock hand nobody to two matches? | 3 users, 2 flows, 3 rooms, 3 entries, 1 refused write |
| `MCGames` | is every game timed, ranked, left and reset correctly, and do its own rules hold; does the clock move it on? | 3 players, 2 games, 1 restart; 5 tiles with a joker, hands of 1; 3 bullets, 2 fouls, reactions 0 and 1; 5 points to win, 12 at most |
| `MCGames_party` | a document's statement about ping-pong with a dashboard that the code does not keep | 2 players |
| `MCClient` | does a connected page show the room; is anybody turned away; does a result stay; does a page settle? | 2 pages, 1 attempt, 2 games of 2 states, 1 input, 1 fault: drop, reload, restart or idle |
| `MCClient_reload` | a document's statement about input numbers that the code does not keep | as `MCClient`, 1 page that plays |
| `MCRecords` | is a person one member under one name of their own; is every finished game archived, once and for good; is the cached ranking that of the archive? | 2 people, 2 ids, 3 names, 2 flows, 3 requests or games, points 0 and 1, 2 weeks, 1 failure or restart |

Why the bounds are enough. Succession and removal need a player before, at and
behind the one that leaves: three players. A stale game needs a second game; a
stale score a second round. Two ticks let one key be older than another. The code
compares rounds and rolls only with their last value, so that two of each reach every
branch; the second missed turn is the limit itself. `MaxGames` and
`MaxRestarts` bound the histories and are the reason for `CHECK_DEADLOCK FALSE` in the
runs of `YachtTurns` and `Games`: when they are used up and the room is gone, nothing is left to do.
`MCYachtTurns_handlers` has normal rooms only: party rooms would be another 11 million states, too many for a run, and neither of its
properties depends on the mode; for party rooms they rest on the theorems, which have any set of modes.
In `Room` nothing ever stops, so deadlock is checked. Members of the sets are numbers
with an order, which rules symmetry out; the users and rooms of `QuickMatch` have none, and its
safety runs use symmetry. A match of two with three users has a ghost before or between
the living; two rooms are a match and the next one, three the room of a match that was
rolled back besides. `MaxEntries` and the
rooms used up are why deadlock is not checked there.

In `MCGames` three players are what Da Vinci Code needs for an elimination that does not end the
game; the rooms of the other two have two seats, as in the catalogue. The tiles are two
of one number, two others and a joker: every order of equals, a joker before and behind.
Three bullets leave a shot, a lead and an end; two fouls are a warning and the last one.
Eleven is replaced by five, also odd, so that both have served equally often when deuce
begins, as `WinScore` assumes; twelve points are a deuce of several
exchanges. In `MCClient` a page that fails once gives up, so that parking and resuming
are within reach of a single fault; a second fault during the recovery is not explored, which a
larger `MaxFaults` would do. One of two pages plays, the other is only sent to. The second game
is what a late message of the first could be mistaken for. Pages may end removed, or parked in a room that is gone:
deadlock is not checked. In `MCRecords` logins, renames, logouts and games are counted together: three are two registrations of
a person and what follows, a registration, an adoption and a rename, or two games of a member. Two games give a member two results in a week
or one in each, and two members in a game are ahead of each other. The instance has no guests (the proofs have any number). People, ids, flows and the
two chosen names are interchangeable, so symmetry is used; requests are used up, so deadlock is not checked.

Several properties are conjunctions of named parts that share a question and a run
(`GamesStayWhole`, `SeatsInOrder`, `TimerFollowsTurn`, `TicketsAreTrue`, `StartsAreWhole`, `HandsAreKept`, `LivingPlay`,
`DuelIsFair`, `MatchIsFair`, `RankingIsFair`, `TimedGamesGoOn`, `OneMember`, `NamesAreKept`, `ArchiveIsKept`); each part has its own comment.
Each property of a passing run has a mutant of a definition, marked `\* mutant` in the
module in front of the definition it replaces, which the run must refute.

### Fairness

`Room!FairSpec` assumes only that time passes. `YachtTurns!FairSpec` assumes that a
handler that has begun goes on (a promise chain of the in-process store) and that a
scheduled timer fires (`setTimeout`). Nothing is assumed of players: `GameEnds` holds
if nobody ever acts. It has two exceptions, both the code's: a room with a single
human has no clock in that human's turn, and waits; and a party room that everybody has left has nothing to time. `QuickMatch!FairSpec` assumes that a
request goes on and that the page of each user polls again and again
(`QUICK_MATCH_POLL_INTERVAL_MS`); strongly, because the one flow may be busy with others.
`Games!FairSpec` assumes that a deadline that is set fires, and nothing of the players: what
only they can do, ping-pong's gate, has no liveness but `ReadyPairStarts`, whose premise is that
they did it. `Client!FairSpec` assumes that a page's retry timer fires, that a dial
succeeds or fails, and that what was sent is read or lost with its connection.

### Findings

1. `MCGames_party`. The frontend's decision record 0003 (lines 37 to 54) keeps the practice gate on the
   server and has the dashboard judge the rallies that follow. With a dashboard,
   `pingPongGameService.ts:149` relays every swing before the gate sees it: no swing is practice, no `ready` is
   accepted and the match never begins.
2. `MCClient_reload`. The notes on both games (`pingpong.md:25`, `davinci.md:87`) want a screen's
   inputs to be newer than those the server has seen. The counter starts at zero when the screen is mounted
   (`useDavinciGame.ts:46`); after a reload the server ignores as many inputs as it had heard
   before.

Others were met while modelling and are kept as hazards with a note:

- `reconnect.md:99` says the timer stops when the last socket is gone; `roomLifecycle.ts:60`
  returns before that in a playing room.
- `roundTimerService.ts:152` skips the offline check of the restored turn only; the chain
  of turns after a deadline that passed while the process was down finds everybody absent.
- `quickMatchRunner.ts:93` counts on the matching attempt of the next `status`, which makes none.
  With two overlapping requests, one that comes after the holder of the lock has read the queue is not
  seen (`:54`). If all players of a match refresh the lobby, no poll tries again (`:131`).
- A party yacht room that everybody leaves in the middle of a game stays `PLAYING` (`lifecycle.ts:89`, `roundPlayerRemoval.ts:58-62`). Nobody
  can join it (`JOIN` wants a lobby), start it or take it back to the lobby (both want a host on the roster). `rooms-and-sessions.md:158` says that
  such a room closes some time after the dashboard's socket, or by its expiry; but `roomLifecycle.ts:60` only marks that socket
  offline while the room plays, so that the expiry remains, or a restart, which closes a playing room that it cannot resume.
- After a restart the dashboard of a running game is refused (`roomJoin.ts:97`): it is in neither the registry nor the roster.
- A human left alone keeps the timer set before, although `roundTurnClock.ts:17` says that no
  timer is all there is to a practice room.
- `keepGameState` keeps the older of two results when a page missed everything between them.
- In a duel the winner may leave while the result is shown, and the forfeit replaces it
  (`duelRules.ts:189`); a report that arrives before the signal is a foul, however late it was sent (`:19`).
- Two tabs of one player replace each other's socket, and both retry.
- A test (`quickMatchService.test.ts:180`) is named "a match that ended FINISHED does not block a new one".
  `statusOf` clears the old room only by way of the ticket, which the report of `PLAYING` has spent; the
  session still names the room and `enter` answers `already_in_room`. The test skips that report.
- The document on persistence (`persistence.md:83` and `:166`) has the ranking show the current nickname; `rename` does not empty the
  cached list.
- `closeSession` looks the user up by the token it was given and clears the hash whatever token it stores: a page that logs
  out with a superseded token ends the session opened after it.
- A member who chooses the placeholder as a name is unnamed to the next login, which adopts the provider's (`profile.ts:134`).
- A crash brings back a login code that was spent and a session that was closed after the last snapshot.

## Proofs

All theorems hold for every value of the constants that satisfies the named assumptions of the
module (finite disjoint sets of ids, numbers where numbers are meant).

`Room_proofs` proves the type invariant, the
invariants `SeatsAgree`, `HumanHost`, `NoHalfRoom`, `GameMatchesPhase`,
`ScoresOfThisGame` and the action properties `RosterFrozenInGame`,
`ScoredGameNeverRolledBack`, `OnlyTheRunningGameScores`, together `GamesStayWhole`.
The argument is one inductive invariant, `IInv`, the conjunction of the invariants
with `TotalsCoverBonus`. They need each other: seats stay consistent when time passes only
if the seat hashes expire with the room (`NoHalfRoom`); that a start or a
touch keeps the family together needs to know which game key is meant
(`GameMatchesPhase`); that `:scores` holds the current totals needs the seats, the sheets
of unplayed games to be empty, and the common expiry, or a sheet could vanish
under its score. `TotalsCoverBonus` keeps a total apart from the value
that stands for a missing field. Each conjunct has a lemma with a step per script;
`SeatTaken`, `SeatLeft`, `FamilyAges` and `SheetWriters` are shared.

`YachtTurns_proofs` begins with the list of turns. `TurnOrder` chooses a function with a property, so it must be
shown that there is one: `ListExists` lists any finite set of numbers, by a smallest set without a list.
`AdvancedFields` and `WithoutIsWellFormed` say what the two transitions do to a well-formed list, `MapPassOn` to
`MapWithdraw` what that means for who waits and who has played.

For any number of handlers under way are proved: `TypeOK`, with the observation that a frame that carries a state carries
a well-formed one (`FrameOK`); `GameOverOnce`; `ScoredTurnsArePassed`, without its condition on the phase; and that
`YachtTurns` implements `TurnCycle` (`TurnsAreDealtInTurn`). `Changes` sums up what any step can do to the state,
so that the last two are arguments about five kinds of change. The refinement assumes `OneAtATime`, one handler or
one game: a start that came between the two steps of a return to the lobby would begin a game on top of the last one. `Cleared` is the
invariant that excludes it.

For handlers that run one after the other, which is how the process runs them (YachtTurns above), `RoomAgrees` gives for
each program counter what the handler may rely on: between `begin` and `schedule` seats are turns and the timer is off or set for this turn; after a
turn has ended the timer still set is the one about to be cut (`TurnOver`); somebody leaving is the only difference between turns and
roster (`Leaving`); a deadline is settled unless the leaver has the turn; and a party room without a roster has no round and nothing timed (`Abandoned`),
whatever late requests and sockets still do. At rest this is `SeatsMatchTurns`, `TimerFollowsTurn` and
`OnlineHasNoMisses`. The proof needs `ScoredTurnsArePassed`: a round in which all seats are full completes the game,
and `FullIsOver` shows from it that the turn state is over as well.

`TwoPlayers_proofs` first proves of `Games` that at most one game has a state, that of the room's code
(`OneGamePerRoom`). The other proofs rest on it: a step of one module leaves the states
of the others alone because they are empty, and each may be argued by itself.

Of a duel it proves `DuelOK`, the type with `DuelInv`. A duel goes on exactly as long as both stand
(`BothStand`), the reactions are those of the round (`ReactionsOfThisRound`), the loser of a shot was
not the faster (`NoFastLoser`). What makes them inductive is how the step fits the verdict of the last
round (`StepMatchesVerdict`) and that a duel nobody has left has one who stands (`OneStands`).

Of a match it proves `MatchOK`. `ServesAreShared` is not inductive, since it says nothing of who serves
next. `ServesCounted` gives the lead in serves after n points (`LeadAfter`), by the remainder of n by four
before deuce and its parity in deuce, for each step of a match. `PointsInOrder` is the winning rule for two named
players, for `WonByTwo`; `GateKept` says that ready players have practised and that
nobody has left a match that goes on, for `BegunTogether`.

`Games_proofs`: `AllOK`, the conjunction of these with `RoomOK`. `ClockOfTheGame`, `RankedByThisGame` and
`LobbyIsFresh` are proved together with two facts: a game's seats contain the roster
while it is played, and no points are written before its end. They
need each other: a stale deadline must find a game that has another one, and a
lobby must hand zeros to the next game. `StandingOutranksFallen` follows from the ranking and `OneStands`.

`Davinci_proofs`: `DavinciOK`, which says of a game between some of the players that the tiles are where they
should be (`Kept`), that who is out has nothing hidden (`OutIsRevealed`), that one of at least two who are alive has the turn
(`TurnIsLiving`), and that whoever is alive has a seat in the room. The rules are argued about any state and any set
of revealed tiles: what a turn may have left undone before it ends is `OutSoFar`, where only the player in turn may have
lost the last hidden tile, and `AdvancedKeeps` settles it. Guess, stop, placing, deadline and leaving are then ways to get there.
Disjoint hands are what makes a revealed tile matter to one player only. Each leaver can lose one tile, the one they held, and
goes out with it, which bounds what is lost. That a hand stays sorted is a fact about sequences (`StaysOrdered`: the place of a numbered tile
divides the smaller ones from the larger ones, whatever jokers are between); the place itself is a maximum, which again comes from the well-founded order
of the numbers. `HandsAreKept`, `LivingPlay` and, for all three games, `RoomTypeOK` follow.

Several theorems state a conjunction that a run checks: `SeatsKept` and `GamesKept` (`Room`), `DuelsAreFairToTheEnd`,
`MatchesAreFair`, `RankingsAreFair`, `TilesAreNeverLost` and `TurnsAreOfTheLiving` (`Games`).

`Records_proofs` has three invariants. `AccountsOK` says what the frame of a request may rely on (`FrameFits`) and that the sessions of
the store and of the snapshot show names their rows have had. It rests on one observation, `Grows`: links, members
and the names they have had are never taken back, so what an old frame or an old snapshot says of them is still true. `RecordsOK` is
about the archive: the finishing call works for the game the room shows as finished or for one before the game that is on, a
game the archive has before its finishing call inserted it was brought back by a restart, and numbers of games in the archive have been used, so that a new game is not among them;
the snapshot keeps what a finished room keeps (`EndKept`). `CacheOK` is the cache against the archive. From them come
`OneMember`, `NamesAreKept`, `ArchiveIsKept` and `RankingIsCurrent`. For the last, that the rank in the list is the rank of
the member's own query, `MaxOfScores` gets a greatest score from the bound on points and the well-founded order of the
numbers, since induction over a finite set is not available.

`QuickMatch_proofs` has four parts. `TypeInv` says with the types what a request carries at each step (`Sound`), and `FlowInv` what it may
rely on. `SeatInv` is the argument for `SeatedOnce`, with any number of requests that interleave at every await: a user with a seat has
its room in the session; a ticket of a match names the room of the session; who can be picked has a waiting ticket and no seat, unless the holder of
the lock has just seated them; and only one request is between `pick` and `mark`, the one that holds the lock. Most steps take
nobody's place and seat nobody; they are `Calm`, the frame that moves is `Tame`, and one lemma (`SeatsCalm`) covers them. The others
(`PutTicket`, `Enqueue`, `Pick`, `Create`, `Seat`, `Dequeue`, `MarkMatched`, the ticks) are argued one by one. `QueueInv` adds, for a
request that runs to its end, how many may wait at each of its steps: `PlayerCount` from the moment an enter is in the queue to the moment its
match is out of it, fewer otherwise. `NobodyWaitsInVain` and `TicketsAreTrue` follow. `StartInv` ties the start of a match to its
marker: a match that was started has none, or is about to lose it.

The hypotheses are those of the runs, and say what the code does not guard. Two seats are possible when people wander, or when a cancel or
a leave overlaps the making of a match: a player who leaves the new room between two seats of a match and enters again is
marked as matched to the old room while a new wait is under way, and the second match seats them again in the room it makes. It
takes two requests under way in the middle of each other, so the theorem and the run leave it out (`Leave` waits for rest without `wander`).
The waiting and the starts are theorems about one request at a time, the first of them with a store that is not full: after a match that failed nothing tries
again (Findings).

`Client_proofs` looks ahead. `Leads` says that the messages under way to a page take its screen, one after the other, over screens that the
room has been at or before, to its present screen if the connection has the seat. It is kept by a message more at the end
(`LeadsOn`) and one less at the front. With what the registry knows of a connection (`ConnectionOK`) and what a page may rely on in
each phase of the room (`RoomOK`) it is inductive, and gives `ScreenFollows`, `NobodyTurnedAway` and `ResultIsFinal`.

The fourth part of `Room_proofs` is about sums. The library adds up a function over a set by taking out chosen elements. `SumExists` shows that there is such a sum on the subsets
of any finite set, from one size of sets to the next, `SumsAgree` that there is one only, `SumTakesAny` that it does not matter which element
is taken out; each by a smallest set that would be an exception. `OnePointMore` is what a score does to
the points of a sheet, and `SheetsAddUp` follows without a bound on categories, rounds or throws.

Its last part is the refinement (`RoomIsOne`), a step of `OneRoom` or a stutter for each script. It rests on the invariants above and on
`Blank`: a room that does not exist has the empty hash, as the next `CREATE` expects. That points never shrink is not in
the guards of CONFIRM_SCORE, which takes the old bonus off the total before it adds the new one: `ScoreCounts` shows from `AddsUp` that the
new one is never less, since the upper subtotal does not fall.

Every invariant and action property of the passing runs is proved. Only model-checked is liveness (`UntouchedRoomExpires`,
`GameEnds`, `ReadyMatchesStart`, `TimedGamesGoOn`, `ReadyPairStarts`, `PagesSettle`), which is out of the
prover's reach.

## Plan

Done: all modules of the table above. Next, in this order:

1. `YachtKeys`: expiry of the yacht state key against that of its room.
2. `QuickMatch`: the life of the lock, a crash in a match, and the abstract
   specification: a user waits, or sits in one place, or neither.
3. `Client`: two tabs of one player, and the partial messages of yacht.

## Not modelled

Of the frontend: screens, sound, motion input, the link between a phone and a dashboard, and the yacht
screen's partial messages; a page is modelled as far as its connection and its copy of
the room go. Message formats, the protocol with the login providers, guests and pictures, chat, score queries, monitoring, a store that
fails in the middle of a handler (`INTERNAL`), messages about who is present, the
physics of ping-pong and the rallies a dashboard would judge, the choice of dice by bots, a damaged snapshot
file. In all modules but `Records` a restart comes back with the last state: an older snapshot is an
earlier reachable state of the same store, and what it disagrees about with SQLite is the subject of `Records`.
