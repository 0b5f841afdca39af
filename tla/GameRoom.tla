------------------------------ MODULE GameRoom ------------------------------
(***************************************************************************)
(* What the rooms of Da Vinci Code, duel and ping-pong have in common: the  *)
(* phase, the roster and the score hash, which room/scripts change, the one *)
(* deadline of a room in the scheduler, and how a game module uses them     *)
(* when a game starts, goes on, ends, is left, reset or recovered.  The     *)
(* operators here are the room's part of the actions of the modules that    *)
(* extend this one; each of those adds the state of its game.               *)
(*                                                                          *)
(* A handler is one step: its awaits are on the in-process store, whose     *)
(* promises are microtasks, while inputs, requests and timers are           *)
(* macrotasks.  A deadline remembers the version of the state it was set    *)
(* for; here it is "current" or "stale".                                    *)
(***************************************************************************)
EXTENDS Integers, FiniteSets, FiniteSetsExt

CONSTANTS
    Players,       \* numbered by seat: the host first, then by id
    Codes,         \* the games that rooms are opened for
    MinPlayers,    \* of the catalogue
    MaxPlayers,    \* of the catalogue, by game
    Party,         \* whether the room has a dashboard, which has no seat
    MaxGames,      \* bound: games started in the room
    MaxRestarts    \* bound: restarts of the process

ASSUME RoomAssumption ==
    /\ Players \subseteq Nat \ {0} /\ IsFiniteSet(Players)
    /\ Codes \subseteq {"davinci_code", "duel", "ping_pong"}
    /\ MinPlayers \in Nat \ {0, 1} /\ Party \in BOOLEAN
    /\ MaxPlayers \in [Codes -> Nat]
    /\ \A c \in Codes \cap {"duel", "ping_pong"} : MaxPlayers[c] = 2
    /\ MaxGames \in Nat /\ MaxRestarts \in Nat

VARIABLES
    code,      \* the game of the room, chosen when it is opened
    phase,     \* of the room; "GONE" when its keys are deleted
    roster,    \* fields of :players
    scores,    \* fields of :scores
    timer,     \* the deadline of the room: "none", "current" or "stale"
    games, restarts   \* history, for the bounds

room == <<code, phase, roster, scores, timer, games, restarts>>

Nobody == 0

RoomTypeOK ==
    /\ code \in Codes
    /\ phase \in {"LOBBY", "PLAYING", "FINISHED", "GONE"}
    /\ roster \subseteq Players
    /\ scores \in [roster -> Nat]
    /\ timer \in {"none", "current", "stale"}
    /\ games \in 0 .. MaxGames /\ restarts \in 0 .. MaxRestarts

\* CREATE and the JOINs that fill the room.
InitRoom ==
    /\ code \in Codes
    /\ phase = "LOBBY"
    /\ roster = {p \in Players : Cardinality({q \in Players : q <= p}) <= MaxPlayers[code]}
    /\ scores = [p \in roster |-> 0]
    /\ timer = "none" /\ games = 0 /\ restarts = 0

\* What no input changes.
Fixed == UNCHANGED <<code, games, restarts>>

\* START, and the deadline that the module sets for the first state.
StartRoom(clock) ==
    /\ phase = "LOBBY" /\ games < MaxGames
    /\ Cardinality(roster) >= MinPlayers
    /\ phase' = "PLAYING" /\ timer' = clock /\ games' = games + 1
    /\ UNCHANGED <<code, roster, scores, restarts>>

\* The score fields that LEAVE has left.
Remaining == [p \in roster' |-> scores[p]]

\* `changed`, while the game goes on: the deadline follows the new state.
GoesOn(clock) ==
    /\ timer' = clock /\ scores' = Remaining
    /\ UNCHANGED phase

\* `changed`, when the game is over: the deadline is cancelled, those who are
\* still in the roster get their points, FINISH_IF_COMPLETE(force) follows.
Ends(points) ==
    /\ timer' = "none"
    /\ scores' = [p \in roster' |-> IF p \in DOMAIN points THEN points[p] ELSE scores[p]]
    /\ phase' = IF phase = "PLAYING" THEN "FINISHED" ELSE phase

\* DELETE players/me outside a game: the last one out deletes the room, which
\* a dashboard would still need.
LeaveIdle(p) ==
    /\ p \in roster /\ phase \in {"LOBBY", "FINISHED"}
    /\ roster' = roster \ {p}
    /\ scores' = Remaining
    /\ phase' = IF roster' = {} /\ ~Party THEN "GONE" ELSE phase
    /\ UNCHANGED <<code, timer, games, restarts>>

\* RETURN_TO_LOBBY, then `reset` of the module.
ReturnRoom ==
    /\ phase = "FINISHED"
    /\ phase' = "LOBBY" /\ timer' = "none"
    /\ scores' = [p \in roster |-> 0]
    /\ UNCHANGED <<code, roster, games, restarts>>

NotRearmed(live, clock) ==   \* mutant: a restart does not bring the deadline back
    /\ restarts < MaxRestarts /\ phase # "GONE"
    /\ restarts' = restarts + 1
    /\ timer' = "none"
    /\ UNCHANGED <<code, phase, roster, scores, games>>

\* The process restarts: its deadlines are lost.  `rehydrate` sets the stored
\* one again, and throws when the game cannot go on, which closes the room.
RestartRoom(live, clock) ==
    /\ restarts < MaxRestarts /\ phase # "GONE"
    /\ restarts' = restarts + 1
    /\ timer' = IF phase = "PLAYING" /\ live THEN clock ELSE "none"
    /\ phase' = IF phase = "PLAYING" /\ ~live THEN "GONE" ELSE phase
    /\ UNCHANGED <<code, roster, scores, games>>

\* close, when the grace of a room without sockets has run out.
CloseRoom ==
    /\ phase \in {"LOBBY", "FINISHED"}
    /\ phase' = "GONE" /\ roster' = {} /\ scores' = <<>> /\ timer' = "none"
    /\ UNCHANGED <<code, games, restarts>>

\* The scheduler frees its slot before the deadline acts: one of an older
\* state finds another version and does nothing.
Fires == timer # "none"
FiresStale == timer' = "none" /\ UNCHANGED <<phase, scores>>

=============================================================================
