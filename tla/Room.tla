-------------------------------- MODULE Room --------------------------------
(***************************************************************************)
(* One room code and the Redis key family behind it: `room:{code}`, its    *)
(* `:players`, `:scores` and `:bots` hashes, the `game:{id}` hashes of the  *)
(* games played in it and the score sheets of those games.  Every action   *)
(* is one atomic script of src/backend/src/room/scripts, game/score and    *)
(* game/completion: a script runs synchronously, so nothing interleaves    *)
(* inside it, and a script that refuses changes nothing (a stuttering      *)
(* step).  Between two scripts anything may happen, time included: each    *)
(* key has its own time to live and disappears by itself.                  *)
(***************************************************************************)
EXTENDS Integers, FiniteSets, Functions

CONSTANTS
    Humans,        \* user ids; ids are numbers because heirs are chosen by order
    Bots,          \* bot ids
    GameIds,       \* the random UUIDs START may draw, each at most once
    Modes,         \* room modes in use, a subset of {"NORMAL", "PARTY"}
    Capacities,    \* capacities of the games in the catalogue
    MinPlayers,    \* minPlayers of the game played
    MaxTtl,        \* ROOM_TTL_SECONDS, in ticks
    Categories,    \* the score categories (12 in the game)
    UpperCategories,
    Dices,         \* distinguishable throws
    ScoreOf,       \* what a throw is worth in a category
    Rounds,
    BonusFrom,     \* upper subtotal that earns the bonus (63)
    Bonus          \* the bonus (35)

Players == Humans \cup Bots
NoOne == 0          \* the empty hostId
NoGame == 0         \* no gameId field
Absent == -1        \* no such hash field
Forever == MaxTtl + 1   \* a key that was created and never given an expiry
NoSignature == <<>>

ASSUME IdsAssumption ==
    /\ Humans \subseteq Nat \ {0} /\ Bots \subseteq Nat \ {0}
    /\ Humans \cap Bots = {}
    /\ IsFiniteSet(Humans) /\ IsFiniteSet(Bots)
    /\ GameIds \subseteq Nat \ {0}

ASSUME RuleAssumption ==
    /\ Modes \subseteq {"NORMAL", "PARTY"}
    /\ Capacities \subseteq Nat \ {0}
    /\ MinPlayers \in Nat \ {0}
    /\ MaxTtl \in Nat \ {0}

ASSUME ScoreAssumption ==
    /\ UpperCategories \subseteq Categories
    /\ ScoreOf \in [Categories \X Dices -> Nat]
    /\ BonusFrom \in Nat /\ Bonus \in Nat

VARIABLES
    room,     \* the room hash; phase "NONE" when the key does not exist
    roster,   \* fields of :players
    bots,     \* fields of :bots
    scores,   \* :scores, Absent for a missing field
    sheet,    \* scoreboard and score-submissions of each game and player
    ttl,      \* time to live of every key, 0 when the key does not exist
    used      \* game ids drawn so far (a UUID is never drawn twice)

vars == <<room, roster, bots, scores, sheet, ttl, used>>

-----------------------------------------------------------------------------
(* Values of the keys.                                                     *)

Phases == {"NONE", "LOBBY", "PLAYING", "FINISHED"}

RoomHash == [phase : Phases, gameId : GameIds \cup {NoGame},
             hostId : Players \cup {NoOne}, capacity : Nat, members : Int,
             mode : {"NORMAL", "PARTY"}]

NoRoom == [phase |-> "NONE", gameId |-> NoGame, hostId |-> NoOne,
           capacity |-> 0, members |-> 0, mode |-> "NORMAL"]

Signatures == (Categories \X Dices) \cup {NoSignature}

SheetHash == [cells : [Categories -> Nat \cup {Absent}],
              submitted : [Rounds -> Signatures],
              upper : Nat, bonus : {0, Bonus}, total : Int]

NoSheet == [cells |-> [c \in Categories |-> Absent],
            submitted |-> [r \in Rounds |-> NoSignature],
            upper |-> 0, bonus |-> 0, total |-> 0]

Ttl == 0 .. Forever

KeyTimes == [room : Ttl, players : Ttl, scores : Ttl, bots : Ttl,
             game : [GameIds -> Ttl], sheet : [GameIds -> [Players -> Ttl]]]

NoKeys == [room |-> 0, players |-> 0, scores |-> 0, bots |-> 0,
           game |-> [g \in GameIds |-> 0],
           sheet |-> [g \in GameIds |-> [p \in Players |-> 0]]]

TypeOK ==
    /\ room \in RoomHash
    /\ roster \subseteq Players
    /\ bots \subseteq Players
    /\ scores \in [Players -> Int]
    /\ sheet \in [GameIds -> [Players -> SheetHash]]
    /\ ttl \in KeyTimes
    /\ used \subseteq GameIds

Exists == room.phase # "NONE"
NoScores == [p \in Players |-> Absent]

\* A hash loses its key, and with it its expiry, when its last field goes.
KeyOf(fields, t) == IF fields = {} THEN 0 ELSE t

\* pexpire of a hash that may not exist.
AlignBots(t) == [t EXCEPT !.bots = KeyOf(bots, t.room)]

InLobby == room.phase = "LOBBY"

AnyPlaying(g) == room.phase = "PLAYING"   \* mutant
Playing(g) == room.phase = "PLAYING" /\ room.gameId = g

SeatFree == Cardinality(roster) < room.capacity

\* Somebody new: the seat hashes get what is left of the room's own time.
SeatRenewsRoom(withBots) ==   \* mutant
    [ttl EXCEPT !.room = MaxTtl, !.players = MaxTtl, !.scores = MaxTtl,
                !.bots = KeyOf(withBots, MaxTtl)]
Aligned(withBots) ==
    [ttl EXCEPT !.players = ttl.room, !.scores = ttl.room,
                !.bots = KeyOf(withBots, ttl.room)]

Init ==
    /\ room = NoRoom
    /\ roster = {} /\ bots = {}
    /\ scores = NoScores
    /\ sheet = [g \in GameIds |-> [p \in Players |-> NoSheet]]
    /\ ttl = NoKeys
    /\ used = {}

-----------------------------------------------------------------------------
(* room/scripts/lifecycle.ts                                               *)

\* CREATE, for a normal room (the creator joins next) or a party room (the
\* creator is the dashboard and never joins).
Create(h, capacity, mode) ==
    /\ ~Exists
    /\ room' = [phase |-> "LOBBY", gameId |-> NoGame, hostId |-> h,
                capacity |-> capacity, members |-> 0, mode |-> mode]
    /\ ttl' = [ttl EXCEPT !.room = MaxTtl]
    /\ UNCHANGED <<roster, bots, scores, sheet, used>>

\* JOIN.  Whoever enters a room whose host is not in it becomes its host.
Join(p) ==
    /\ InLobby
    /\ p \notin roster
    /\ SeatFree
    /\ roster' = roster \cup {p}
    /\ scores' = [scores EXCEPT ![p] = 0]
    /\ room' = [room EXCEPT
                  !.members = @ + 1,
                  !.hostId = IF @ = NoOne \/ @ \notin roster' THEN p ELSE @]
    /\ ttl' = Aligned(bots)
    /\ UNCHANGED <<bots, sheet, used>>

AnyHeir(left) ==   \* mutant
    IF left = {} THEN NoOne ELSE CHOOSE h \in left : \A o \in left : h <= o

\* The heir of a leaving host: the human with the smallest id, if any is left.
Heir(left) ==
    LET humans == left \ bots IN
    IF humans = {} THEN NoOne
    ELSE CHOOSE h \in humans : \A o \in humans : h <= o

DropFamily ==
    /\ room' = NoRoom
    /\ roster' = {} /\ bots' = {}
    /\ scores' = NoScores

\* LEAVE.  The last one out of a normal room takes the four room keys along,
\* but not the keys of its games; a party room survives without players.
Leave(p) ==
    /\ Exists
    /\ p \in roster
    /\ IF room.members - 1 <= 0 /\ room.mode # "PARTY"
       THEN /\ DropFamily
            /\ ttl' = [ttl EXCEPT !.room = 0, !.players = 0, !.scores = 0,
                                  !.bots = 0]
       ELSE LET left == roster \ {p} IN
            /\ roster' = left
            /\ bots' = bots \ {p}
            /\ scores' = [scores EXCEPT ![p] = Absent]
            /\ room' = [room EXCEPT
                          !.members = @ - 1,
                          !.hostId = IF @ = p THEN Heir(left) ELSE @]
            /\ ttl' = [ttl EXCEPT !.players = KeyOf(left, @),
                                  !.scores = KeyOf(left, @),
                                  !.bots = KeyOf(bots \ {p}, @)]
    /\ UNCHANGED <<sheet, used>>

\* CLOSE.  Deletes the current game too, with the sheets of those still seated.
Close ==
    /\ Exists
    /\ DropFamily
    /\ LET gone(g, p) == g = room.gameId /\ p \in roster IN
       /\ sheet' = [g \in GameIds |-> [p \in Players |->
                      IF gone(g, p) THEN NoSheet ELSE sheet[g][p]]]
       /\ ttl' = [room |-> 0, players |-> 0, scores |-> 0, bots |-> 0,
                  game |-> [g \in GameIds |->
                              IF g = room.gameId THEN 0 ELSE ttl.game[g]],
                  sheet |-> [g \in GameIds |-> [p \in Players |->
                              IF gone(g, p) THEN 0 ELSE ttl.sheet[g][p]]]]
    /\ UNCHANGED used

-----------------------------------------------------------------------------
(* room/scripts/bots.ts: both ask for a host who sits in the lobby.        *)

SeatedHost(requester) == room.hostId = requester /\ requester \in roster

BotAdd(requester, b) ==
    /\ InLobby
    /\ SeatedHost(requester)
    /\ SeatFree
    /\ b \notin roster
    /\ roster' = roster \cup {b}
    /\ bots' = bots \cup {b}
    /\ scores' = [scores EXCEPT ![b] = 0]
    /\ room' = [room EXCEPT !.members = @ + 1]
    /\ ttl' = Aligned(bots')
    /\ UNCHANGED <<sheet, used>>

\* Only a field of :bots can be removed, so that no human is evicted this way.
BotRemove(requester, b) ==
    /\ InLobby
    /\ SeatedHost(requester)
    /\ b \in bots
    /\ bots' = bots \ {b}
    /\ roster' = roster \ {b}
    /\ scores' = [scores EXCEPT ![b] = Absent]
    /\ room' = [room EXCEPT !.members = @ - 1]
    /\ ttl' = [ttl EXCEPT !.players = KeyOf(roster', @),
                          !.scores = KeyOf(roster', @),
                          !.bots = KeyOf(bots', @)]
    /\ UNCHANGED <<sheet, used>>

-----------------------------------------------------------------------------
(* room/scripts/gameFlow.ts                                                *)

Start(g) ==
    /\ InLobby
    /\ Cardinality(roster) >= MinPlayers
    /\ g \notin used
    /\ used' = used \cup {g}
    /\ room' = [room EXCEPT !.phase = "PLAYING", !.gameId = g]
    /\ ttl' = AlignBots([ttl EXCEPT !.game[g] = ttl.room])
    /\ UNCHANGED <<roster, bots, scores, sheet>>

LobbyWithGame == [room EXCEPT !.phase = "LOBBY"]   \* mutant
BackInLobby == [room EXCEPT !.phase = "LOBBY", !.gameId = NoGame]

Unscored(g) == \A p \in Players : sheet[g][p] = NoSheet

\* ROLLBACK_START(g), called when the game module failed to start game g: it
\* has taken no score.  Another game may have been started since.
RollbackStart(g) ==
    /\ g \in used /\ Unscored(g)
    /\ Playing(g)
    /\ room' = BackInLobby
    /\ ttl' = [ttl EXCEPT !.game[g] = 0]
    /\ UNCHANGED <<roster, bots, scores, sheet, used>>

\* CANCEL_ACTIVE_GAME, called while a match is being prepared: no score yet.
CancelActiveGame ==
    /\ room.phase = "PLAYING"
    /\ Unscored(room.gameId)
    /\ room' = BackInLobby
    /\ ttl' = [ttl EXCEPT !.game[room.gameId] = 0]
    /\ UNCHANGED <<roster, bots, scores, sheet, used>>

KeepScores == scores   \* mutant
ResetScores == [p \in Players |-> IF p \in roster THEN 0 ELSE scores[p]]

ReturnToLobby ==
    /\ room.phase = "FINISHED"
    /\ room' = BackInLobby
    /\ scores' = ResetScores
    /\ ttl' = AlignBots([ttl EXCEPT !.scores = KeyOf(roster, ttl.room)])
    /\ UNCHANGED <<roster, bots, sheet, used>>

-----------------------------------------------------------------------------
(* game/score/scripts.ts and game/completion/scripts.ts                    *)

\* The guard ladder of CONFIRM_SCORE: the game still maps to this room and the
\* room to this game, the player is seated, and neither the round nor the
\* category is taken (the same signature again is a retry that changes nothing).
ConfirmGuard(g, p, r, c) ==
    /\ ttl.game[g] > 0
    /\ Playing(g)
    /\ p \in roster
    /\ sheet[g][p].submitted[r] = NoSignature
    /\ sheet[g][p].cells[c] = Absent

BonusEveryTime(s, r, c, d) ==   \* mutant
    LET score == ScoreOf[<<c, d>>]
        upper == s.upper + (IF c \in UpperCategories THEN score ELSE 0)
        bonus == IF upper >= BonusFrom THEN Bonus ELSE 0
    IN  [cells |-> [s.cells EXCEPT ![c] = score],
         submitted |-> [s.submitted EXCEPT ![r] = <<c, d>>],
         upper |-> upper, bonus |-> bonus, total |-> s.total + score + bonus]

Scored(s, r, c, d) ==
    LET score == ScoreOf[<<c, d>>]
        upper == s.upper + (IF c \in UpperCategories THEN score ELSE 0)
        bonus == IF upper >= BonusFrom THEN Bonus ELSE 0
    IN  [cells |-> [s.cells EXCEPT ![c] = score],
         submitted |-> [s.submitted EXCEPT ![r] = <<c, d>>],
         upper |-> upper, bonus |-> bonus,
         total |-> s.total + score + bonus - s.bonus]

ConfirmScore(g, p, r, c, d) ==
    /\ ConfirmGuard(g, p, r, c)
    /\ sheet' = [sheet EXCEPT ![g][p] = Scored(@, r, c, d)]
    /\ scores' = [scores EXCEPT ![p] = sheet'[g][p].total]
    /\ ttl' = [ttl EXCEPT !.sheet[g][p] = ttl.game[g]]
    /\ UNCHANGED <<room, roster, bots, used>>

Complete(g) ==
    /\ roster # {}
    /\ \A p \in roster : \A c \in Categories : sheet[g][p].cells[c] # Absent

\* FINISH_IF_COMPLETE; force is set when the last round is over.
FinishIfComplete(g, force) ==
    /\ Playing(g)
    /\ force \/ Complete(g)
    /\ room' = [room EXCEPT !.phase = "FINISHED"]
    /\ UNCHANGED <<roster, bots, scores, sheet, ttl, used>>

-----------------------------------------------------------------------------
(* room/scripts/expiry.ts and the passing of time                          *)

SheetForgotten(g, p) == ttl.sheet[g][p]   \* mutant
SheetTouched(g, p) ==
    IF g = room.gameId /\ p \in roster /\ ttl.sheet[g][p] > 0 THEN MaxTtl
    ELSE ttl.sheet[g][p]

Touch ==
    /\ Exists
    /\ ttl' = [room |-> MaxTtl,
               players |-> KeyOf(roster, MaxTtl),
               scores |-> KeyOf(roster, MaxTtl),
               bots |-> KeyOf(bots, MaxTtl),
               game |-> [g \in GameIds |->
                   IF g = room.gameId /\ ttl.game[g] > 0 THEN MaxTtl
                   ELSE ttl.game[g]],
               sheet |-> [g \in GameIds |-> [p \in Players |-> SheetTouched(g, p)]]]
    /\ UNCHANGED <<room, roster, bots, scores, sheet, used>>

AgedForever(t) == t - 1   \* mutant
Aged(t) == IF t \in 1 .. MaxTtl THEN t - 1 ELSE t

\* A tick of the clock: every key with an expiry gets older and the keys that
\* run out vanish, each on its own.
Tick ==
    LET old == [room |-> Aged(ttl.room), players |-> Aged(ttl.players),
                scores |-> Aged(ttl.scores), bots |-> Aged(ttl.bots),
                game |-> [g \in GameIds |-> Aged(ttl.game[g])],
                sheet |-> [g \in GameIds |-> [p \in Players |->
                             Aged(ttl.sheet[g][p])]]]
    IN  /\ old # ttl
        /\ ttl' = old
        /\ room' = IF old.room = 0 THEN NoRoom ELSE room
        /\ roster' = IF old.players = 0 THEN {} ELSE roster
        /\ bots' = IF old.bots = 0 THEN {} ELSE bots
        /\ scores' = IF old.scores = 0 THEN NoScores ELSE scores
        /\ sheet' = [g \in GameIds |-> [p \in Players |->
                       IF old.sheet[g][p] = 0 THEN NoSheet ELSE sheet[g][p]]]
        /\ UNCHANGED used

-----------------------------------------------------------------------------
Lifecycle ==
    \/ \E h \in Humans, n \in Capacities, m \in Modes : Create(h, n, m)
    \/ \E p \in Humans : Join(p) \/ Leave(p)
    \/ Close
    \/ \E h \in Humans, b \in Bots : BotAdd(h, b) \/ BotRemove(h, b)

GameFlow ==
    \/ \E g \in GameIds : Start(g) \/ RollbackStart(g)
    \/ CancelActiveGame
    \/ ReturnToLobby
    \/ \E g \in GameIds, force \in BOOLEAN : FinishIfComplete(g, force)

Scoring ==
    \E g \in GameIds, p \in Players, r \in Rounds, c \in Categories, d \in Dices :
        ConfirmScore(g, p, r, c, d)

Next == Lifecycle \/ GameFlow \/ Scoring \/ Touch \/ Tick

Spec == Init /\ [][Next]_vars

\* Time passes; nobody owes the room a visit.
FairSpec == Spec /\ WF_vars(Tick)

-----------------------------------------------------------------------------
(* What the scripts promise together.                                      *)

\* The counter LEAVE decides by and the three hashes tell one story: `members`
\* counts the fields of :players, :bots names exactly the bots among them,
\* :scores has a field for each of them and no other, capacity is respected.
SeatsAgree ==
    /\ room.members = Cardinality(roster)
    /\ Cardinality(roster) <= room.capacity
    /\ bots = roster \cap Bots
    /\ \A p \in Players : scores[p] # Absent <=> p \in roster

\* The host is never a bot, and while a human is seated, the host is a seated
\* human and not one who left (bots.ts:14, lifecycle.ts:74).  Otherwise nobody
\* could start the game or manage the bots.
HumanHost ==
    /\ room.hostId \in Humans \cup {NoOne}
    /\ roster \cap Humans # {} => room.hostId \in roster \cap Humans

\* The room key and its hashes tell one story of who is seated and who is the host,
\* although each script writes them field by field (lifecycle.ts:79).
SeatsInOrder == SeatsAgree /\ HumanHost

\* The room key family expires together (game/score/scripts.ts:41): without the
\* room key there are no players, scores or bots, and while it lives every key
\* of the family, the current game and its sheets included, has its expiry.
NoHalfRoom ==
    /\ ttl.room = 0 <=> ~Exists
    /\ ttl.room # Forever
    /\ ttl.players = KeyOf(roster, ttl.room)
    /\ ttl.scores = KeyOf(roster, ttl.room)
    /\ ttl.bots = KeyOf(bots, ttl.room)
    /\ ~Exists => roster = {}
    /\ room.gameId # NoGame => ttl.game[room.gameId] = ttl.room
    /\ \A p \in roster : room.gameId # NoGame /\ sheet[room.gameId][p] # NoSheet
                         => ttl.sheet[room.gameId][p] = ttl.room

\* A room has a game exactly while one is running or waits to be cleared, and
\* that game was never played before.
GameMatchesPhase ==
    /\ room.gameId # NoGame <=> room.phase \in {"PLAYING", "FINISHED"}
    /\ room.gameId # NoGame => room.gameId \in used
    /\ \A g \in GameIds \ used : Unscored(g)

\* The ranking is computed from :scores, which outlives games: what it holds
\* for a player is what the sheet of the current game holds, and zero in the
\* lobby (gameFlow.ts:78).
ScoresOfThisGame ==
    \A p \in roster :
        scores[p] = IF room.gameId = NoGame THEN 0
                    ELSE sheet[room.gameId][p].total

FilledCells(s) == {c \in Categories : s.cells[c] # Absent}
FilledRounds(s) == {r \in Rounds : s.submitted[r] # NoSignature}

\* Points = the cells plus the bonus, earned exactly from BonusFrom on: a retry
\* or a second bonus is never counted, and a round fills exactly one cell.
SheetsAddUp ==
    \A g \in GameIds, p \in Players :
        LET s == sheet[g][p]
            points(S) == SumFunctionOnSet(s.cells, S \cap FilledCells(s))
        IN  /\ s.upper = points(UpperCategories)
            /\ s.bonus = IF s.upper >= BonusFrom /\ s # NoSheet THEN Bonus ELSE 0
            /\ s.total = points(Categories) + s.bonus
            /\ \A r \in FilledRounds(s) :
                   s.cells[s.submitted[r][1]] = ScoreOf[s.submitted[r]]
            /\ Cardinality(FilledRounds(s)) = Cardinality(FilledCells(s))

\* Nobody takes a seat while a game runs or its result is shown: turn order and
\* ranking are computed from a roster that can only shrink.
RosterFrozenInGame ==
    [][room.phase \in {"PLAYING", "FINISHED"} /\ room'.gameId = room.gameId
         => roster' \subseteq roster]_vars

\* A game with a score in it never falls back to the lobby: a late rollback or
\* cancellation of an earlier start cannot hit it (game/lifecycle.ts:31).
ScoredGameNeverRolledBack ==
    [][room.phase = "PLAYING" /\ room'.phase = "LOBBY" => Unscored(room.gameId)]_vars

\* A stale game id cannot score: sheets are written only for the game its room
\* is playing, for seated players; the result of a finished game is final.
OnlyTheRunningGameScores ==
    [][\A g \in GameIds, p \in Players :
          sheet'[g][p] # sheet[g][p] /\ sheet'[g][p] # NoSheet
            => room.phase = "PLAYING" /\ room.gameId = g /\ p \in roster]_vars

\* What belongs to a game stays with it: the roster, the scored game and its sheets.
GamesStayWhole ==
    RosterFrozenInGame /\ ScoredGameNeverRolledBack /\ OnlyTheRunningGameScores

\* Hashes, counter and expiries together are one room: nobody sits down in a game, a
\* host who leaves is followed by a human who stays, points are won in the game that is
\* on and never lost, a start that scored is not taken back, and no part of the room is
\* ever missing without the rest (the scripts of lifecycle, bots, gameFlow, expiry, score).
SeatPoints == [p \in Players |-> IF p \in roster THEN scores[p] ELSE 0]
TheRoom == INSTANCE OneRoom WITH
    phase <- room.phase, seats <- roster, host <- room.hostId, points <- SeatPoints

ImplementsOneRoom == TheRoom!Spec

\* A room that nobody touches any more disappears, whatever else is done to it:
\* no script but TOUCH (and CREATE) extends its life.
UntouchedRoomExpires ==
    <>[][~Touch]_vars => []<>(~Exists)
=============================================================================
