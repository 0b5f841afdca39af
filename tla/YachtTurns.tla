----------------------------- MODULE YachtTurns -----------------------------
(***************************************************************************)
(* The turns of one yacht room: the round state, its deadline timer, the   *)
(* seats and sockets of the players and the handlers that move them        *)
(* (src/backend/src/game/round, game/yacht, and the parts of ws/ and http/ *)
(* that call them).                                                        *)
(*                                                                         *)
(* A handler is a chain of awaits.  Here it is a flow: a frame with a      *)
(* program counter and the values the code carries across the awaits, one  *)
(* step per await.  All calls between the parts are tail calls (start ->   *)
(* handle -> removePlayer -> advanceTurn -> start ...), so that a frame    *)
(* needs no stack.  With one flow a handler runs to completion before the  *)
(* next event, which is what the shipped process does: its Redis is an     *)
(* in-process store whose promises resolve as microtasks, while messages,  *)
(* requests and timers are macrotasks.  With two flows any two handlers    *)
(* interleave at every await, as the ports allow.                          *)
(***************************************************************************)
EXTENDS Integers, FiniteSets, Sequences

CONSTANTS
    Humans, Bots,    \* numbers: the roster is sorted by id
    Modes,           \* of the rooms: NORMAL, PARTY
    Dashboard,       \* the screen that opened a party room, not a player
    TotalRounds,     \* DEFAULT_TOTAL_ROUNDS, also the number of categories
    MaxRolls,        \* MAX_ROLL_COUNT
    MaxMisses,       \* MAX_OFFLINE_TURNS
    MinPlayers,
    Flows,           \* handlers that may be under way at the same time
    MaxGames,        \* bound: games started in the room
    MaxRestarts      \* bound: restarts of the process

Players == Humans \cup Bots
Seats == Players \cup {Dashboard}    \* whoever may have a seat in the registry
Rounds == 1 .. TotalRounds

ASSUME PlayersAssumption ==
    /\ Humans \subseteq Nat \ {0} /\ Bots \subseteq Nat \ {0}
    /\ Humans \cap Bots = {} /\ Dashboard \notin Players
    /\ Modes \subseteq {"NORMAL", "PARTY"}
    /\ IsFiniteSet(Humans) /\ IsFiniteSet(Bots)

ASSUME LimitsAssumption ==
    /\ TotalRounds \in Nat \ {0} /\ MaxRolls \in Nat \ {0}
    /\ MaxMisses \in Nat \ {0} /\ MinPlayers \in Nat \ {0}
    /\ MaxGames \in Nat /\ MaxRestarts \in Nat

VARIABLES
    \* kept in Redis, survives a restart
    phase,       \* of the room, "GONE" when it does not exist
    mode,        \* a party room is opened by a dashboard
    roster,      \* :players
    state,       \* the round state, NoState when there is none
    stored,      \* the stored deadline: its round and whether it has a time
    confirmed,   \* rounds for which a player has a score in the current game
    \* kept in memory
    slot,        \* the scheduled deadline: round and player it was set for
    remembered,  \* activeDeadlines
    misses,      \* own turns met while offline
    presence,    \* the seat registry: "online", "offline" or "none"
    closing,     \* a reservation to close the empty room is pending
    flow,        \* frames of the handlers
    \* history
    games, restarts,
    overs        \* game.over broadcasts of the current game

redis == <<phase, mode, roster, state, stored, confirmed>>
memory == <<slot, remembered, misses, presence, closing>>
history == <<games, restarts, overs>>
vars == <<redis, memory, flow, history>>

-----------------------------------------------------------------------------
(* The round state (game/round/roundState.ts, roundTransitions.ts).        *)

StateRecord == [round : 0 .. TotalRounds, order : Seq(Players), index : Nat,
                rolls : 0 .. MaxRolls, finished : BOOLEAN]

NoState == [round |-> 0, order |-> <<>>, index |-> 0, rolls |-> 0,
            finished |-> FALSE]

StartState(order) == [round |-> 1, order |-> order, index |-> 1, rolls |-> 0,
                      finished |-> FALSE]

Participants(s) == {s.order[i] : i \in DOMAIN s.order}
Active(s) == s.order[s.index]

IsRound(s, r, p) == s # NoState /\ ~s.finished /\ s.round = r   \* mutant

\* validateCurrentPlayer / isStaleTurn: the turn somebody has in mind is on.
IsTurn(s, r, p) ==
    s # NoState /\ ~s.finished /\ s.round = r /\ Active(s) = p

\* A turn ends: the next participant, the next round, or the end of the last.
LastButOne(s) == s.index >= Len(s.order) - 1   \* mutant
LastOfRound(s) == s.index = Len(s.order)

OneRoundTooMany(s) ==   \* mutant
    IF ~LastOfRound(s) THEN [s EXCEPT !.index = @ + 1, !.rolls = 0]
    ELSE IF s.round <= TotalRounds
         THEN [s EXCEPT !.round = @ + 1, !.index = 1, !.rolls = 0]
         ELSE [s EXCEPT !.rolls = 0, !.finished = TRUE]

Advanced(s) ==
    IF ~LastOfRound(s) THEN [s EXCEPT !.index = @ + 1, !.rolls = 0]
    ELSE IF s.round < TotalRounds
         THEN [s EXCEPT !.round = @ + 1, !.index = 1, !.rolls = 0]
         ELSE [s EXCEPT !.rolls = 0, !.finished = TRUE]

\* completedRound of the transition: the round that ended, 0 for none.
Ended(s) == IF LastOfRound(s) THEN s.round ELSE 0

PositionOf(s, p) == CHOOSE i \in DOMAIN s.order : s.order[i] = p

PlayedStay(s, p) ==   \* mutant
    IF s.finished \/ p \notin Participants(s) \/ PositionOf(s, p) < s.index THEN s
    ELSE LET at == PositionOf(s, p) IN
         [s EXCEPT
            !.order = [i \in 1 .. Len(@) - 1 |-> IF i < at THEN @[i] ELSE @[i + 1]]]

\* withoutParticipant: positions behind the removed one move up.
Without(s, p) ==
    IF s.finished \/ p \notin Participants(s) THEN s
    ELSE LET at == PositionOf(s, p) IN
         [s EXCEPT
            !.order = [i \in 1 .. Len(@) - 1 |-> IF i < at THEN @[i] ELSE @[i + 1]],
            !.index = IF at < @ THEN @ - 1 ELSE @]

\* The host first, everybody else by id.
TurnOrder(host) ==
    CHOOSE o \in [1 .. Cardinality(roster) -> roster] :
        /\ o[1] = host
        /\ \A p \in roster : \E i \in DOMAIN o : o[i] = p
        /\ \A i, j \in DOMAIN o : 1 < i /\ i < j => o[i] < o[j]

-----------------------------------------------------------------------------
(* Values and frames.                                                      *)

Deadline == [round : 0 .. TotalRounds, timed : BOOLEAN]
NoDeadline == [round |-> 0, timed |-> FALSE]

Slot == [round : 0 .. TotalRounds, who : Players \cup {0}]
NoSlot == [round |-> 0, who |-> 0]

Steps == {"idle", "begin", "arm", "schedule", "skip", "cancel", "finish",
          "leave", "seat", "pass", "splice", "clear",
          "autoroll", "resolve", "score"}

\* pc; the player and turn at hand; the state, ended round and deadline in hand
Frame == [pc : Steps, who : Seats \cup {0}, round : 0 .. TotalRounds,
          st : StateRecord, ended : 0 .. TotalRounds, timed : BOOLEAN,
          bot : BOOLEAN, restored : BOOLEAN]

IdleFrame == [pc |-> "idle", who |-> 0, round |-> 0, st |-> NoState, ended |-> 0,
              timed |-> FALSE, bot |-> FALSE, restored |-> FALSE]

TypeOK ==
    /\ phase \in {"LOBBY", "PLAYING", "FINISHED", "GONE"}
    /\ mode \in Modes
    /\ roster \subseteq Players
    /\ state \in StateRecord
    /\ stored \in Deadline /\ remembered \in Deadline
    /\ confirmed \in [Players -> SUBSET Rounds]
    /\ slot \in Slot
    /\ misses \in [Players -> Nat]
    /\ presence \in [Seats -> {"online", "offline", "none"}]
    /\ closing \in BOOLEAN
    /\ flow \in [Flows -> Frame]
    /\ games \in 0 .. MaxGames /\ restarts \in 0 .. MaxRestarts
    /\ overs \in Nat

IsIdle(f) == flow[f].pc = "idle"
AtRest == \A f \in Flows : IsIdle(f)
SomeIdle == \E f \in Flows : IsIdle(f)

HumansIn(S) == S \cap Humans
Untimed == Cardinality(HumansIn(roster)) <= 1    \* UNTIMED_HUMAN_LIMIT
IsBot(p) == p \in roster \cap Bots

Return(f) == flow' = [flow EXCEPT ![f] = IdleFrame]
Goto(f, pc) == flow' = [flow EXCEPT ![f].pc = pc]
Call(f, frame) == flow' = [flow EXCEPT ![f] = frame]

BeginFrame(s) == [IdleFrame EXCEPT !.pc = "begin", !.st = s]
CancelFrame(s, ended) == [IdleFrame EXCEPT !.pc = "cancel", !.st = s, !.ended = ended]
LeaveFrame(p) == [IdleFrame EXCEPT !.pc = "leave", !.who = p]

NoMisses == [p \in Players |-> 0]
NobodyHere == [p \in Seats |-> "none"]

Init ==
    /\ phase = "LOBBY"
    /\ mode \in Modes
    /\ roster = Players
    /\ state = NoState
    /\ stored = NoDeadline /\ remembered = NoDeadline /\ slot = NoSlot
    /\ confirmed = [p \in Players |-> {}]
    /\ misses = NoMisses
    /\ presence = [p \in Seats |-> IF p \in Humans \/ (p = Dashboard /\ mode = "PARTY")
                                   THEN "online" ELSE "none"]
    /\ closing = FALSE
    /\ flow = [f \in Flows |-> IdleFrame]
    /\ games = 0 /\ restarts = 0 /\ overs = 0

-----------------------------------------------------------------------------
(* RoundTimerService: start.                                               *)

\* beginTurn: one roster read decides whether the turn is played at all.  An
\* offline owner is skipped the first time and removed the second time.
Begin(f) ==
    LET s == flow[f].st
        p == Active(s)
    IN  /\ flow[f].pc = "begin"
        /\ IF ~IsBot(p) /\ presence[p] # "online"
           THEN /\ misses' = [misses EXCEPT ![p] = @ + 1]
                /\ IF misses'[p] >= MaxMisses
                   THEN Call(f, LeaveFrame(p))
                   ELSE Call(f, [IdleFrame EXCEPT !.pc = "skip", !.who = p,
                                                  !.round = s.round])
           ELSE /\ Call(f, [IdleFrame EXCEPT !.pc = "arm", !.st = s,
                                             !.timed = ~Untimed, !.bot = IsBot(p)])
                /\ UNCHANGED misses
        /\ UNCHANGED <<redis, slot, remembered, presence, closing, history>>

\* armTurn: remember the deadline and save it; a restored one is saved already.
Arm(f) ==
    LET d == [round |-> flow[f].st.round, timed |-> flow[f].timed] IN
    /\ flow[f].pc = "arm"
    /\ remembered' = d
    /\ stored' = IF flow[f].restored THEN stored ELSE d
    /\ Goto(f, "schedule")
    /\ UNCHANGED <<phase, mode, roster, state, confirmed, slot, misses, presence,
                   closing, history>>

TimedOnly(f) == flow[f].timed   \* mutant
NeedsTimer(f) == flow[f].timed \/ flow[f].bot

\* ... and schedule it, unless it is the turn of a human without a clock.
ScheduleTurn(f) ==
    LET s == flow[f].st IN
    /\ flow[f].pc = "schedule"
    /\ slot' = IF NeedsTimer(f)
               THEN [round |-> s.round, who |-> Active(s)] ELSE slot
    /\ Return(f)
    /\ UNCHANGED <<redis, remembered, misses, presence, closing, history>>

(* advanceTurn                                                             *)

\* First of all the timer of the ended round is cut, in memory and in store.
Cancel(f) ==
    LET s == flow[f].st
        r == IF flow[f].ended = 0 THEN s.round ELSE flow[f].ended
    IN  /\ flow[f].pc = "cancel"
        /\ slot' = IF slot.round = r THEN NoSlot ELSE slot
        /\ remembered' = IF remembered.round = r THEN NoDeadline ELSE remembered
        /\ stored' = IF stored.round = r THEN NoDeadline ELSE stored
        /\ IF flow[f].ended # 0 THEN Goto(f, "finish")
           ELSE IF s.finished THEN Return(f) ELSE Call(f, BeginFrame(s))
        /\ UNCHANGED <<phase, mode, roster, state, confirmed, misses, presence, closing,
                       history>>

AllFull == roster # {} /\ \A p \in roster : confirmed[p] = Rounds

CompletesTwice(f) == flow[f].ended = TotalRounds \/ AllFull   \* mutant
Completes(f) == phase = "PLAYING" /\ (flow[f].ended = TotalRounds \/ AllFull)

\* finishIfComplete after a round, forced after the last one.
Finish(f) ==
    LET s == flow[f].st IN
    /\ flow[f].pc = "finish"
    /\ IF Completes(f)
       THEN /\ phase' = "FINISHED"
            /\ slot' = NoSlot
            /\ overs' = overs + 1
            /\ Return(f)
       ELSE /\ IF s.finished THEN Return(f) ELSE Call(f, BeginFrame(s))
            /\ UNCHANGED <<phase, slot, overs>>
    /\ UNCHANGED <<mode, roster, state, stored, confirmed, remembered, misses,
                   presence, closing, games, restarts>>

\* OfflineTurns.handle, first miss: the turn expires without a score.
Expire(f) ==
    LET s == state IN
    IF IsTurn(s, flow[f].round, flow[f].who)
    THEN /\ state' = Advanced(s)
         /\ Call(f, CancelFrame(Advanced(s), Ended(s)))
    ELSE Return(f) /\ UNCHANGED state

Skip(f) ==
    /\ flow[f].pc = "skip"
    /\ Expire(f)
    /\ UNCHANGED <<phase, mode, roster, stored, confirmed, memory, history>>

-----------------------------------------------------------------------------
(* removePlayerFromRound                                                   *)

\* LEAVE: a room goes with the last of its roster, a party room stays as it is.
LeaveRoster(p) ==
    /\ roster' = roster \ {p}
    /\ phase' = IF p \in roster /\ roster' = {} /\ mode # "PARTY" THEN "GONE" ELSE phase

NotForgiven(p) == misses   \* mutant
Forgiven(p) == [q \in Players |-> IF q = p THEN 0 ELSE misses[q]]

LeaveSeat(f) ==
    LET p == flow[f].who IN
    /\ flow[f].pc = "leave"
    /\ misses' = Forgiven(p)
    /\ presence' = [presence EXCEPT ![p] = "none"]
    /\ LeaveRoster(p)
    /\ Goto(f, "seat")
    /\ UNCHANGED <<mode, state, stored, confirmed, slot, remembered, closing,
                   history>>

\* What the round has to do about it: nothing, forget everything (the last
\* participant), end the leaver's own turn first, or just take them out.
DecideRemoval(f) ==
    LET p == flow[f].who IN
    /\ flow[f].pc = "seat"
    /\ IF state = NoState \/ state.finished \/ p \notin Participants(state)
       THEN Return(f)
       ELSE IF Len(state.order) = 1 THEN Goto(f, "clear")
       ELSE IF Active(state) = p
       THEN flow' = [flow EXCEPT ![f].pc = "pass", ![f].round = state.round]
       ELSE Goto(f, "splice")
    /\ UNCHANGED <<redis, memory, history>>

PassTurn(f) ==
    /\ flow[f].pc = "pass"
    /\ IF IsTurn(state, flow[f].round, flow[f].who)
       THEN /\ state' = Advanced(state)
            /\ flow' = [flow EXCEPT ![f].pc = "splice", ![f].ended = Ended(state)]
       ELSE /\ flow' = [flow EXCEPT ![f].pc = "splice", ![f].round = 0]
            /\ UNCHANGED state
    /\ UNCHANGED <<phase, mode, roster, stored, confirmed, memory, history>>

\* removeParticipant throws if the leaver has the turn; after an expired turn
\* the game goes on with what is left (round 0: no turn was expired).
Splice(f) ==
    LET p == flow[f].who
        refused == state = NoState \/ IsTurn(state, state.round, p)
    IN  /\ flow[f].pc = "splice"
        /\ state' = IF refused THEN state ELSE Without(state, p)
        /\ IF refused \/ flow[f].round = 0 THEN Return(f)
           ELSE Call(f, CancelFrame(state', flow[f].ended))
        /\ UNCHANGED <<phase, mode, roster, stored, confirmed, memory, history>>

\* cancelRoom: timer, deadlines and misses of the room.
CancelRoom ==
    /\ slot' = NoSlot /\ remembered' = NoDeadline /\ stored' = NoDeadline
    /\ misses' = NoMisses

\* cancelRoom, then remove: the last participant left, or back to the lobby.  A
\* party room is still PLAYING then, with nothing to play.
Clear(f) ==
    /\ flow[f].pc = "clear"
    /\ CancelRoom
    /\ state' = NoState
    /\ Return(f)
    /\ UNCHANGED <<phase, mode, roster, confirmed, presence, closing, history>>

-----------------------------------------------------------------------------
(* The deadline (deadlineScheduler.ts, roundTimeoutResolver.ts)            *)

\* runIfCurrent: the slot is emptied before the action runs.
FireTimer(f) ==
    /\ IsIdle(f)
    /\ slot # NoSlot
    /\ slot' = NoSlot
    /\ Call(f, [IdleFrame EXCEPT !.pc = "autoroll", !.who = slot.who,
                                 !.round = slot.round])
    /\ UNCHANGED <<redis, remembered, misses, presence, closing, history>>

AutoRollStops(f) ==   \* mutant
    /\ flow[f].pc = "autoroll"
    /\ IF IsTurn(state, flow[f].round, flow[f].who) /\ state.rolls < MaxRolls
       THEN state' = [state EXCEPT !.rolls = @ + 1] /\ Return(f)
       ELSE Goto(f, "resolve") /\ UNCHANGED state
    /\ UNCHANGED <<phase, mode, roster, stored, confirmed, memory, history>>

\* With rolls left the server rolls and the same turn gets a new deadline.
AutoRoll(f) ==
    /\ flow[f].pc = "autoroll"
    /\ IF IsTurn(state, flow[f].round, flow[f].who) /\ state.rolls < MaxRolls
       THEN /\ state' = [state EXCEPT !.rolls = @ + 1]
            /\ Call(f, BeginFrame(state'))
       ELSE Goto(f, "resolve") /\ UNCHANGED state
    /\ UNCHANGED <<phase, mode, roster, stored, confirmed, memory, history>>

Resolve(f) ==
    /\ flow[f].pc = "resolve"
    /\ IF IsTurn(state, flow[f].round, flow[f].who) THEN Goto(f, "score") ELSE Return(f)
    /\ UNCHANGED <<redis, memory, history>>

\* The guards of CONFIRM_SCORE (Room!ConfirmGuard).
CanConfirm(p, r) == phase = "PLAYING" /\ p \in roster /\ r \notin confirmed[p]

\* submitAtomically: score and transition under one room lock.
ScoreTurn(f, p) ==
    /\ IsTurn(state, state.round, p)
    /\ state.rolls > 0
    /\ CanConfirm(p, state.round)
    /\ confirmed' = [confirmed EXCEPT ![p] = @ \cup {state.round}]
    /\ state' = Advanced(state)
    /\ Call(f, CancelFrame(Advanced(state), Ended(state)))

\* No rolls left: the server scores a free category, or, when that fails for
\* whatever reason, lets the turn expire: it never stops here.
ScoreForThem(f) ==
    /\ flow[f].pc = "score"
    /\ \/ flow[f].round = state.round /\ ScoreTurn(f, flow[f].who)
       \/ Expire(f) /\ UNCHANGED confirmed
    /\ UNCHANGED <<phase, mode, roster, stored, memory, history>>

-----------------------------------------------------------------------------
(* Messages and requests                                                   *)

\* JOIN, into the lobby only: whoever has left may sit down again there.
Join(f, p) ==
    /\ IsIdle(f)
    /\ phase = "LOBBY"
    /\ p \in Humans \ roster
    /\ roster' = roster \cup {p}
    /\ UNCHANGED <<phase, mode, state, stored, confirmed, memory, flow, history>>

\* A game message is for whoever has a seat and a socket; bots act by themselves.
CanAct(p) == p \in Bots \/ presence[p] = "online"

Roll(f, p) ==
    /\ IsIdle(f) /\ CanAct(p)
    /\ IsTurn(state, state.round, p)
    /\ state.rolls < MaxRolls
    /\ state' = [state EXCEPT !.rolls = @ + 1]
    /\ Call(f, BeginFrame(state'))
    /\ UNCHANGED <<phase, mode, roster, stored, confirmed, memory, history>>

Submit(f, p) ==
    /\ IsIdle(f) /\ CanAct(p)
    /\ ScoreTurn(f, p)
    /\ UNCHANGED <<phase, mode, roster, stored, memory, history>>

\* room.leave over the socket.
LeaveBySocket(f, p) ==
    /\ IsIdle(f)
    /\ presence[p] = "online" /\ phase = "PLAYING"
    /\ Call(f, LeaveFrame(p))
    /\ UNCHANGED <<redis, memory, history>>

\* DELETE /rooms/{code}/players/me: the roster first, then the game.
LeaveByRequest(f, p) ==
    /\ IsIdle(f)
    /\ p \in HumansIn(roster)
    /\ LeaveRoster(p)
    /\ IF phase = "PLAYING" THEN Call(f, LeaveFrame(p)) ELSE UNCHANGED flow
    /\ UNCHANGED <<mode, state, stored, confirmed, memory, history>>

\* room.join: into a running game, or to a seat still held, it is a reconnect;
\* otherwise a first join, which also calls off the closing of the room.  The
\* dashboard is not on the roster: it comes back into a running game only while the
\* registry still has its seat.
MayConnect(p) ==
    IF p = Dashboard THEN mode = "PARTY" /\ (phase = "PLAYING" => presence[p] # "none")
    ELSE p \in HumansIn(roster)

Connect(f, p) ==
    LET again == phase = "PLAYING" \/ presence[p] # "none"
        resume == closing /\ state # NoState /\ ~state.finished
    IN  /\ IsIdle(f)
        /\ MayConnect(p) /\ phase # "GONE"
        /\ presence[p] # "online"
        /\ presence' = [presence EXCEPT ![p] = "online"]
        /\ IF again
           THEN misses' = Forgiven(p) /\ UNCHANGED <<closing, flow>>
           ELSE /\ closing' = FALSE
                /\ IF resume THEN Call(f, BeginFrame(state)) ELSE UNCHANGED flow
                /\ UNCHANGED misses
        /\ UNCHANGED <<redis, slot, remembered, history>>

\* RoomLifecycle.closed: in a game the seat goes offline, and that is all.
\* Elsewhere the seat is given up, and the last one to go pauses the game and
\* reserves the closing of the room.
Disconnect(p) ==
    /\ SomeIdle
    /\ presence[p] = "online"
    /\ IF phase = "PLAYING"
       THEN /\ presence' = [presence EXCEPT ![p] = "offline"]
            /\ UNCHANGED <<slot, remembered, stored, misses, closing>>
       ELSE /\ presence' = [presence EXCEPT ![p] = "none"]
            /\ IF presence' = NobodyHere
               THEN CancelRoom /\ closing' = TRUE
               ELSE UNCHANGED <<slot, remembered, stored, misses, closing>>
    /\ UNCHANGED <<phase, mode, roster, state, confirmed, flow, history>>

\* closeRoomIfStillEmpty, after the grace period.
CloseEmpty ==
    /\ SomeIdle
    /\ closing
    /\ closing' = FALSE
    /\ IF presence = NobodyHere
       THEN /\ CancelRoom
            /\ state' = NoState
            /\ phase' = "GONE" /\ roster' = {}
       ELSE UNCHANGED <<phase, roster, state, stored, slot, remembered, misses>>
    /\ UNCHANGED <<mode, confirmed, presence, flow, history>>

\* POST /rooms/{code}/games: START, then YachtLifecycle.start.
StartGame(f, host) ==
    /\ IsIdle(f)
    /\ phase = "LOBBY"
    /\ Cardinality(roster) >= MinPlayers
    /\ host \in HumansIn(roster)
    /\ games < MaxGames
    /\ games' = games + 1
    /\ phase' = "PLAYING"
    /\ state' = StartState(TurnOrder(host))
    /\ confirmed' = [p \in Players |-> {}]
    /\ overs' = 0
    /\ Call(f, BeginFrame(state'))
    /\ UNCHANGED <<mode, roster, stored, memory, restarts>>

ReturnToLobby(f) ==
    /\ IsIdle(f)
    /\ phase = "FINISHED" /\ HumansIn(roster) # {}
    /\ phase' = "LOBBY"
    /\ Goto(f, "clear")
    /\ UNCHANGED <<mode, roster, state, stored, confirmed, memory, history>>

-----------------------------------------------------------------------------
(* Restart and sweep                                                       *)

CanRehydrate ==
    state # NoState /\ ~state.finished /\ stored.round = state.round

\* The process comes back with what Redis holds (game/startupResume.ts): a game
\* goes on with its stored deadline and without asking who is online; a room
\* whose game cannot go on is closed.
Restart ==
    /\ AtRest
    /\ restarts < MaxRestarts
    /\ restarts' = restarts + 1
    /\ slot' = NoSlot /\ remembered' = NoDeadline /\ misses' = NoMisses
    /\ presence' = NobodyHere /\ closing' = FALSE
    /\ IF phase = "PLAYING" /\ CanRehydrate
       THEN /\ \E f \in Flows :
                 Call(f, [IdleFrame EXCEPT !.pc = "arm", !.st = state,
                            !.timed = stored.timed, !.bot = IsBot(Active(state)),
                            !.restored = TRUE])
            /\ UNCHANGED <<phase, roster>>
       ELSE /\ phase' = IF phase = "PLAYING" THEN "GONE" ELSE phase
            /\ roster' = IF phase = "PLAYING" THEN {} ELSE roster
            /\ UNCHANGED flow
    /\ UNCHANGED <<mode, state, stored, confirmed, games, overs>>

\* OrphanedRoundStateSweeper.
Sweep ==
    /\ SomeIdle
    /\ phase = "GONE" /\ state # NoState
    /\ CancelRoom
    /\ state' = NoState
    /\ UNCHANGED <<phase, mode, roster, confirmed, presence, closing, flow, history>>

-----------------------------------------------------------------------------
Step(f) ==
    \/ Begin(f) \/ Arm(f) \/ ScheduleTurn(f)
    \/ Cancel(f) \/ Finish(f) \/ Skip(f)
    \/ LeaveSeat(f) \/ DecideRemoval(f) \/ PassTurn(f) \/ Splice(f) \/ Clear(f)
    \/ AutoRoll(f) \/ Resolve(f) \/ ScoreForThem(f)

Request(f, p) ==
    \/ Join(f, p) \/ StartGame(f, p)
    \/ Roll(f, p) \/ Submit(f, p)
    \/ LeaveByRequest(f, p)

Socket(f, p) == Connect(f, p) \/ LeaveBySocket(f, p)

Next ==
    \/ \E f \in Flows :
        \/ Step(f)
        \/ FireTimer(f)
        \/ ReturnToLobby(f)
        \/ \E p \in Players : Request(f, p)
        \/ \E p \in Seats : Socket(f, p)
    \/ \E p \in Seats : Disconnect(p)
    \/ CloseEmpty \/ Restart \/ Sweep

Spec == Init /\ [][Next]_vars

\* A handler that has begun goes on, and a scheduled deadline fires.  Nothing is
\* assumed of the players.
Fairness ==
    /\ \A f \in Flows : WF_vars(Step(f))
    /\ WF_vars(\E f \in Flows : FireTimer(f))

FairSpec == Spec /\ Fairness

-----------------------------------------------------------------------------
(* Properties                                                              *)

\* A party room outlives its players, also in the middle of a game: LEAVE keeps it
\* PLAYING, with an empty roster and a round that is cleared.
Deserted == phase = "PLAYING" /\ roster = {} /\ AtRest
InGame == phase = "PLAYING" /\ roster # {} /\ AtRest

\* Between two handlers of a running game the turn list is the roster: LEAVE,
\* expire and removeParticipant are three steps, and every way of leaving ends
\* with both saying the same, a turn that can go on and somebody to take it.  A
\* game that everybody left is that of a party room, and no round is left of it.
SeatsMatchTurns ==
    /\ InGame => /\ state # NoState /\ ~state.finished
                 /\ state.index \in DOMAIN state.order
                 /\ Participants(state) = roster
                 /\ Len(state.order) = Cardinality(roster)
    /\ Deserted => mode = "PARTY" /\ state = NoState

\* The three copies of the deadline are about the turn that is on.  The stored
\* one is what a restart goes on with: a room without it is closed
\* (yachtLifecycle.ts:111).
DeadlinesAgree ==
    InGame => /\ stored = remembered
              /\ stored.round = state.round

\* The timer is the only thing that moves a game whose players do nothing: it is
\* set for the very turn that is on, or the turn belongs to the human of a room
\* without a clock.
TurnIsTimed ==
    InGame => \/ slot = [round |-> state.round, who |-> Active(state)]
              \/ slot = NoSlot /\ ~remembered.timed /\ Active(state) \in Humans

\* A game without players leaves no timer behind and no deadline to go on with.
NothingIsTimed ==
    Deserted => slot = NoSlot /\ stored = NoDeadline /\ remembered = NoDeadline

\* What moves the turn on, now or after a restart, is about this turn.
TimerFollowsTurn == DeadlinesAgree /\ TurnIsTimed /\ NothingIsTimed

\* Score and turn are committed together: whoever has a score for the current
\* round has had their turn in it, and nobody has one for a later round.
ScoredTurnsArePassed ==
    state # NoState /\ phase # "GONE" =>
        \A p \in Players :
            /\ \A r \in confirmed[p] : r <= state.round
            /\ state.round \in confirmed[p] /\ p \in Participants(state)
               => state.finished \/ PositionOf(state, p) < state.index

\* game.over is sent once per game, by whoever made the transition.
GameOverOnce ==
    /\ overs <= 1
    /\ phase = "PLAYING" => overs = 0
    /\ phase = "FINISHED" => overs = 1

\* Coming back counts: a player who is online in a running game has no missed
\* turns on the books, those of an earlier game included.
OnlineHasNoMisses ==
    InGame => \A p \in Humans : presence[p] = "online" => misses[p] = 0

\* The list with its index keeps the promise of TurnCycle: one turn for each
\* participant in each round, whoever leaves, at whatever position.
Turns == INSTANCE TurnCycle WITH
    round <- state.round,
    current <- IF state = NoState THEN {} ELSE {Active(state)},
    waiting <- {state.order[i] : i \in {j \in DOMAIN state.order : j > state.index}},
    played <- {state.order[i] : i \in {j \in DOMAIN state.order : j < state.index}},
    over <- state.finished

ImplementsTurnCycle == Turns!Spec

\* A game with a clock ends by itself, players acting or not: either it is over
\* or it waits for the human of a room without a clock, again and again, or it
\* was a party room's and everybody has left it.
WaitsForLoneHuman ==
    InGame /\ slot = NoSlot /\ ~remembered.timed /\ Active(state) \in Humans

GameEnds == []<>(phase # "PLAYING" \/ WaitsForLoneHuman \/ Deserted)

=============================================================================
