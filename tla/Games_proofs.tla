---------------------------- MODULE Games_proofs ----------------------------
(***************************************************************************)
(* What holds of a room whatever is played in it: it has a running game and *)
(* the deadline of that game exactly while it plays, it ranks by the points *)
(* of the game that was played, and its lobby has nothing left of one.  The *)
(* first part says what the steps of each game do to the room, the second   *)
(* puts them together.                                                      *)
(***************************************************************************)
EXTENDS TwoPlayers_proofs

\* Who plays, in the state of the room's game.
Participants ==
    CASE code = "davinci_code" -> Seated(game)
      [] code = "duel" -> Sides
      [] code = "ping_pong" -> DOMAIN match.points

\* The state of Da Vinci Code keeps its fields.
GameShape ==
    /\ DOMAIN game = DOMAIN NoGame
    /\ game.step \in {"NONE", "GUESSING", "DECIDING", "PLACING", "FINISHED"}

RoomOK ==
    /\ GameShape /\ ClockOfTheGame /\ RankedByThisGame /\ LobbyIsFresh
    /\ phase = "PLAYING" => roster \subseteq Participants /\ \A p \in roster : scores[p] = 0

AllOK == Dispatched /\ DuelOK /\ MatchOK /\ RoomOK

-----------------------------------------------------------------------------
(* The room's part of a step.                                              *)

\* The game goes on, for those who are left.
LEMMA PlaysOn ==
    ASSUME AllOK, phase = "PLAYING", roster' \subseteq roster, code' = code, GameShape',
           phase' = "PLAYING", scores' = Remaining, Participants' = Participants,
           Running', timer' = (IF Untimed' THEN "none" ELSE "current")
    PROVE  RoomOK'
  <1>1. ClockOfTheGame' /\ RankedByThisGame' /\ LobbyIsFresh'
    BY DEF ClockOfTheGame, RankedByThisGame, LobbyIsFresh
  <1>2. \A p \in roster' : scores'[p] = scores[p]
    BY DEF Remaining
  <1> QED BY <1>1, <1>2 DEF RoomOK, AllOK

\* The game is over, and whoever is left has what the state says.
LEMMA IsOver ==
    ASSUME AllOK, phase = "PLAYING", roster' \subseteq roster, code' = code, GameShape',
           phase' = "FINISHED", timer' = "none", ~Running',
           \A p \in roster' : scores'[p] = Earned(p)'
    PROVE  RoomOK'
  BY DEF ClockOfTheGame, RankedByThisGame, LobbyIsFresh, RoomOK

\* The module of a game takes its state away with the room's.
LEMMA BackToLobby ==
    ASSUME AllOK, code' = code, phase' \in {"LOBBY", "GONE"}, timer' = "none",
           game' = NoGame, duel' = NoDuel, match' = NoMatch,
           phase' = "LOBBY" => \A p \in roster' : scores'[p] = 0
    PROVE  RoomOK'
  <1>1. ~Running' /\ GameShape'
    BY DEF Running, Live, DuelLive, MatchLive, NoGame, NoDuel, NoMatch, GameShape
  <1> QED BY <1>1 DEF ClockOfTheGame, RankedByThisGame, LobbyIsFresh, RoomOK

\* Leaving a room that does not play.
LEMMA LeaveRoomOK ==
    ASSUME AllOK, NEW p \in Players, Leave(p)
    PROVE  RoomOK'
  <1>1. /\ UNCHANGED <<code, timer, game, shown, duel, match>>
        /\ phase \in {"LOBBY", "FINISHED"} /\ phase' \in {phase, "GONE"}
        /\ roster' \subseteq roster /\ \A q \in roster' : scores'[q] = scores[q]
    BY DEF Leave, LeaveIdle, gameVars, davinciVars, pingPongVars, Remaining
  <1>2. (Running' <=> Running) /\ (GameShape' <=> GameShape)
    BY <1>1 DEF Running, Live, DuelLive, MatchLive, GameShape
  <1>3. ASSUME NEW q \in roster'
        PROVE  Earned(q)' = Earned(q)
    BY <1>1 DEF Earned, ScoreOf, Hidden
  <1>4. ClockOfTheGame' /\ LobbyIsFresh'
    BY <1>1, <1>2 DEF AllOK, RoomOK, ClockOfTheGame, LobbyIsFresh
  <1>5. RankedByThisGame'
    BY <1>1, <1>3 DEF AllOK, RoomOK, RankedByThisGame
  <1> QED BY <1>1, <1>2, <1>4, <1>5 DEF RoomOK, AllOK

\* A restart finds the game as it was.
LEMMA RestartRoomOK ==
    ASSUME AllOK, DavinciRestart \/ DuelRestart \/ PingPongRestart,
           UNCHANGED <<davinciVars, duel, match>>
    PROVE  RoomOK'
  <1>1. /\ UNCHANGED <<code, roster, scores, game, shown, duel, match>>
        /\ phase # "PLAYING" => phase' = phase /\ timer' = "none"
    BY DEF DavinciRestart, DuelRestart, PingPongRestart, RestartRoom, davinciVars
  <1>2. phase = "PLAYING" =>
          phase' = phase /\ timer' = (IF Untimed THEN "none" ELSE "current")
    <2>1. phase = "PLAYING" => Running
      BY DEF AllOK, RoomOK, ClockOfTheGame
    <2>2. /\ Live => code = "davinci_code"
          /\ DuelLive => code = "duel"
          /\ MatchLive => code = "ping_pong"
      BY DEF AllOK, Dispatched, OwnGame, Live, DuelLive, MatchLive, NoGame, NoDuel, NoMatch
    <2> QED BY <2>1, <2>2 DEF DavinciRestart, DuelRestart, PingPongRestart, RestartRoom,
                              Running, Untimed, Clock
  <1>3. /\ Running' <=> Running
        /\ Untimed' <=> Untimed
        /\ GameShape' <=> GameShape
        /\ Participants' = Participants
    BY <1>1 DEF Running, Live, DuelLive, MatchLive, Untimed, HostJudged, GameShape,
                Participants, Seated, Sides
  <1>4. ASSUME NEW q \in roster'
        PROVE  Earned(q)' = Earned(q)
    BY <1>1 DEF Earned, ScoreOf, Hidden
  <1>5. ClockOfTheGame' /\ LobbyIsFresh'
    BY <1>1, <1>2, <1>3 DEF AllOK, RoomOK, ClockOfTheGame, LobbyIsFresh
  <1>6. RankedByThisGame'
    BY <1>1, <1>2, <1>4 DEF AllOK, RoomOK, RankedByThisGame
  <1> QED BY <1>1, <1>2, <1>3, <1>5, <1>6 DEF RoomOK, AllOK

-----------------------------------------------------------------------------
(* The three games.                                                        *)

\* The duel's part: `changed` sets the deadline or settles.
LEMMA DuelRoomOK ==
    ASSUME AllOK, DuelNext, UNCHANGED <<davinciVars, pingPongVars>>
    PROVE  RoomOK'
  <1>1. /\ code = "duel" /\ code' = code /\ roster' \subseteq roster
        /\ UNCHANGED <<game, shown, match>> /\ game = NoGame /\ match = NoMatch
    BY RightModule, RosterShrinks DEF AllOK, Dispatched, OwnGame, Next, davinciVars, pingPongVars
  <1>2. /\ GameShape' /\ ~Live /\ ~Live' /\ ~MatchLive /\ ~MatchLive' /\ ~Untimed'
        /\ Participants = Sides /\ Participants' = Sides'
    BY <1>1 DEF AllOK, RoomOK, GameShape, Live, MatchLive, Untimed, Participants, NoGame, NoMatch
  <1>3. phase = "PLAYING" <=> DuelLive
    BY <1>2 DEF AllOK, RoomOK, ClockOfTheGame, Running
  <1>5. ASSUME phase = "PLAYING", DuelChanged, Sides' = Sides, duel'.step # "NONE"
        PROVE  RoomOK'
    <2>1. CASE duel'.step # "FINISHED"
      <3>1. phase' = "PLAYING" /\ timer' = "current" /\ scores' = Remaining
        BY <1>5, <2>1 DEF DuelChanged, GoesOn
      <3> QED BY <1>1, <1>2, <1>5, <2>1, <3>1, PlaysOn DEF Running, DuelLive
    <2>2. CASE duel'.step = "FINISHED"
      <3>1. /\ phase' = "FINISHED" /\ timer' = "none"
            /\ Ends([p \in Sides |-> IF p = duel'.last.ko THEN 0 ELSE duel'.hp[p]])
        BY <1>5, <2>2 DEF DuelChanged, Ends
      <3>2. ASSUME NEW p \in roster'
            PROVE  scores'[p] = Earned(p)'
        <4>1. p \in Sides
          BY <1>1, <1>2, <1>5, <3>2 DEF AllOK, RoomOK
        <4> QED BY <1>1, <3>1, <3>2, <4>1 DEF Ends, Earned
      <3> QED BY <1>1, <1>2, <1>5, <2>2, <3>1, <3>2, IsOver DEF Running, DuelLive
    <2> QED BY <2>1, <2>2
  <1>6. CASE DuelStart
    <2>1. /\ phase' = "PLAYING" /\ timer' = "current" /\ roster' = roster /\ scores' = scores
          /\ phase = "LOBBY"
          /\ duel' = [step |-> "WAITING", hp |-> [p \in roster |-> MaxHp],
                      fouls |-> [p \in roster |-> 0], reactions |-> <<>>, last |-> NoRound]
      BY <1>6 DEF DuelStart, StartRoom, NoDuel
    <2>2. DuelLive' /\ Sides' = roster
      BY <2>1 DEF DuelLive, Sides
    <2>3. \A p \in roster : scores[p] = 0
      BY <2>1 DEF AllOK, RoomOK, LobbyIsFresh
    <2> QED BY <1>1, <1>2, <2>1, <2>2, <2>3
            DEF RoomOK, ClockOfTheGame, RankedByThisGame, LobbyIsFresh, Running
  <1>7. CASE DuelDeadline
    <2>1. /\ timer # "none" /\ phase = "PLAYING" /\ timer # "stale" /\ DuelLive
      BY <1>3, <1>7 DEF DuelDeadline, Fires, AllOK, RoomOK, ClockOfTheGame
    <2>2. duel' = TimedOut /\ DuelChanged
      BY <1>7, <2>1 DEF DuelDeadline
    <2>3. Sides' = Sides /\ duel'.step # "NONE"
      BY <1>7, <2>1, DuelDeadlineOK DEF AllOK
    <2> QED BY <1>5, <2>1, <2>2, <2>3
  <1>8. ASSUME NEW p \in Players, Draw(p)
        PROVE  RoomOK'
    <2>1. phase = "PLAYING" /\ DuelChanged
      BY <1>3, <1>8 DEF Draw
    <2>2. Sides' = Sides /\ duel'.step # "NONE"
      BY <1>8, DrawOK DEF AllOK
    <2> QED BY <1>5, <2>1, <2>2
  <1>9. ASSUME NEW p \in Players, DuelLeave(p)
        PROVE  RoomOK'
    <2>1. phase = "PLAYING" /\ DuelForfeit(p) /\ DuelLive /\ p \in Sides
      BY <1>2, <1>3, <1>9 DEF DuelLeave, AllOK, RoomOK
    <2>2. DuelChanged
      BY <2>1 DEF DuelForfeit
    <2>3. Sides' = Sides /\ duel'.step # "NONE"
      BY <2>1, DuelLeaveOK DEF AllOK
    <2> QED BY <1>5, <2>1, <2>2, <2>3
  <1>10. CASE DuelReset \/ DuelClose
    BY <1>1, <1>10, BackToLobby DEF DuelReset, DuelClose, ReturnRoom, CloseRoom
  <1>11. CASE DuelRestart
    BY <1>1, <1>11, RestartRoomOK DEF DuelRestart, davinciVars
  <1> QED BY <1>6, <1>7, <1>8, <1>9, <1>10, <1>11 DEF DuelNext

\* Inputs, deadlines and leavers keep the players of a match.
LEMMA PointsKept ==
    ASSUME MatchOK, MatchLive, NEW p \in Players, match' # match,
           \/ Practise(p) \/ Ready(p) \/ Swing(p)
           \/ match' = AfterPoint
           \/ \E who \in {match.receiver} :
                match' = [match EXCEPT !.step = "PLAYING", !.fault = FALSE, !.toward = who]
           \/ PingPongForfeit(p)
    PROVE  DOMAIN match'.points = DOMAIN match.points /\ match'.step # "NONE"
  <1>1. PICK a \in Players, b \in Players : match \in MatchState(a, b)
    <2>1. match.step # "NONE"
      BY Zenon DEF MatchLive
    <2>2. match # NoMatch
      BY <2>1 DEF NoMatch
    <2> QED BY <2>2, Zenon DEF MatchOK, MatchOf
  <1>2. match.step # "NONE"
    BY DEF MatchLive
  <1>3. CASE Practise(p)
    <2>1. match' = [match EXCEPT !.practised = match.practised \cup {p}]
      BY <1>3 DEF Practise
    <2> QED BY <1>1, <1>2, <2>1 DEF MatchState
  <1>4. CASE Ready(p)
    <2>1. match' = [match EXCEPT !.ready = match.ready \cup {p},
                      !.step = IF EveryoneReady(p) THEN "COUNTDOWN" ELSE match.step]
      BY <1>4 DEF Ready
    <2> QED BY <1>1, <1>2, <2>1 DEF MatchState
  <1>5. CASE Swing(p)
    <2>1. PICK f \in BOOLEAN : match' = [match EXCEPT !.toward = Other(p), !.fault = f]
      BY <1>5 DEF Swing
    <2> QED BY <1>1, <1>2, <2>1 DEF MatchState
  <1>6. CASE match' = AfterPoint
    <2> DEFINE points == [match.points EXCEPT ![Scorer] = match.points[Scorer] + 1]
               m == [match EXCEPT !.points = points, !.fault = FALSE]
    <2>1. \/ match' = [m EXCEPT !.step = "FINISHED", !.receiver = Nobody]
          \/ match' = [m EXCEPT !.step = "COUNTDOWN",
                                !.receiver = ServeReceiver(m.seats, m.points)]
      BY <1>1, <1>6 DEF AfterPoint, MatchState
    <2>2. /\ DOMAIN m = DOMAIN match /\ "points" \in DOMAIN m /\ "step" \in DOMAIN m
          /\ m.points = points
      BY <1>1 DEF MatchState
    <2>3. DOMAIN points = DOMAIN match.points
      OBVIOUS
    <2> HIDE DEF points, m
    <2> QED BY <2>1, <2>2, <2>3
  <1>7. ASSUME match' = [match EXCEPT !.step = "PLAYING", !.fault = FALSE,
                                      !.toward = match.receiver]
        PROVE  DOMAIN match'.points = DOMAIN match.points /\ match'.step # "NONE"
    BY <1>1, <1>7 DEF MatchState
  <1>8. CASE PingPongForfeit(p)
    <2> DEFINE points == [match.points EXCEPT ![Other(p)] = WinScore]
    <2>1. match' = [match EXCEPT !.step = "FINISHED", !.points = points,
                                 !.receiver = Nobody, !.left = p]
      BY <1>1, <1>8 DEF PingPongForfeit, MatchState
    <2>2. DOMAIN points = DOMAIN match.points
      OBVIOUS
    <2> HIDE DEF points
    <2> QED BY <1>1, <2>1, <2>2 DEF MatchState
  <1> QED BY <1>3, <1>4, <1>5, <1>6, <1>7, <1>8

\* Ping-pong's part: before a rally, and where the dashboard judges, no deadline.
LEMMA PingPongRoomOK ==
    ASSUME AllOK, PingPongNext, UNCHANGED <<davinciVars, duel>>
    PROVE  RoomOK'
  <1>1. /\ code = "ping_pong" /\ code' = code /\ roster' \subseteq roster
        /\ UNCHANGED <<game, shown, duel>> /\ game = NoGame /\ duel = NoDuel
    BY RightModule, RosterShrinks DEF AllOK, Dispatched, OwnGame, Next, davinciVars
  <1>2. /\ GameShape' /\ ~Live /\ ~Live' /\ ~DuelLive /\ ~DuelLive'
        /\ Participants = DOMAIN match.points /\ Participants' = DOMAIN match'.points
    BY <1>1 DEF AllOK, RoomOK, GameShape, Live, DuelLive, Participants, NoGame, NoDuel
  <1>3. /\ phase = "PLAYING" <=> MatchLive
        /\ Running' <=> MatchLive'
        /\ (IF Untimed' THEN "none" ELSE "current") = Clock(match)'
    BY <1>1, <1>2 DEF AllOK, RoomOK, ClockOfTheGame, Running, Untimed, Clock
  <1>5. ASSUME phase = "PLAYING", PingPongChanged, DOMAIN match'.points = DOMAIN match.points,
               match'.step # "NONE"
        PROVE  RoomOK'
    <2>1. CASE match'.step # "FINISHED"
      <3>1. phase' = "PLAYING" /\ timer' = Clock(match)' /\ scores' = Remaining
        BY <1>5, <2>1 DEF PingPongChanged, GoesOn, Clock, HostJudged
      <3> QED BY <1>1, <1>2, <1>3, <1>5, <2>1, <3>1, PlaysOn DEF MatchLive
    <2>2. CASE match'.step = "FINISHED"
      <3>1. phase' = "FINISHED" /\ timer' = "none" /\ Ends(match'.points)
        BY <1>5, <2>2 DEF PingPongChanged, Ends
      <3>2. ASSUME NEW p \in roster'
            PROVE  scores'[p] = Earned(p)'
        <4>1. p \in DOMAIN match'.points
          BY <1>1, <1>2, <1>5, <3>2 DEF AllOK, RoomOK
        <4> QED BY <1>1, <3>1, <3>2, <4>1 DEF Ends, Earned
      <3> QED BY <1>1, <1>2, <1>3, <1>5, <2>2, <3>1, <3>2, IsOver DEF MatchLive
    <2> QED BY <2>1, <2>2
  <1>6. CASE PingPongStart
    <2>1. /\ phase' = "PLAYING" /\ roster' = roster /\ scores' = scores
          /\ phase = "LOBBY" /\ timer' = "none"
          /\ match'.step = "PREPARING" /\ DOMAIN match'.points = roster
      BY <1>6 DEF PingPongStart, StartRoom, NoMatch
    <2>2. MatchLive' /\ Untimed'
      BY <1>1, <2>1 DEF MatchLive, Untimed
    <2>3. \A p \in roster : scores[p] = 0
      BY <2>1 DEF AllOK, RoomOK, LobbyIsFresh
    <2> QED BY <1>1, <1>2, <1>3, <2>1, <2>2, <2>3
            DEF RoomOK, ClockOfTheGame, RankedByThisGame, LobbyIsFresh
  <1>7. ASSUME NEW p \in Players, Practise(p), HostJudged
        PROVE  RoomOK'
    <2>1. UNCHANGED <<match, phase, timer, scores, roster>> /\ phase = "PLAYING" /\ MatchLive
          /\ match.step = "PREPARING"
      BY <1>3, <1>7 DEF Practise, MatchLive
    <2> QED BY <1>1, <1>2, <1>3, <2>1
            DEF RoomOK, AllOK, ClockOfTheGame, RankedByThisGame, LobbyIsFresh, Running, MatchLive,
                Untimed
  <1>8. ASSUME NEW p \in Players, (Practise(p) /\ ~HostJudged) \/ Ready(p) \/ Swing(p)
        PROVE  RoomOK'
    <2>1. MatchLive /\ PingPongChanged
      <3>1. match.step \in {"PREPARING", "COUNTDOWN", "PLAYING"} /\ PingPongChanged
        BY <1>8, Zenon DEF Practise, Ready, Swing
      <3> QED BY <3>1 DEF MatchLive
    <2>2. DOMAIN match'.points = DOMAIN match.points /\ match'.step # "NONE"
      BY <1>8, <2>1, PointsKept DEF AllOK, MatchLive
    <2> QED BY <1>3, <1>5, <2>1, <2>2
  <1>9. CASE PingPongDeadline
    <2>1. timer = "current" /\ phase = "PLAYING" /\ MatchLive
      BY <1>3, <1>9 DEF PingPongDeadline, Fires, AllOK, RoomOK, ClockOfTheGame, Untimed
    <2>2. /\ PingPongChanged
          /\ \/ match' = AfterPoint
             \/ match' = [match EXCEPT !.step = "PLAYING", !.fault = FALSE,
                                       !.toward = match.receiver]
      BY <1>9, <2>1 DEF PingPongDeadline
    <2>3. PICK p \in Players : TRUE
      BY <2>1 DEF AllOK, MatchOK, MatchLive, NoMatch
    <2>4. DOMAIN match'.points = DOMAIN match.points /\ match'.step # "NONE"
      BY <2>1, <2>2, <2>3, PointsKept DEF AllOK, MatchLive
    <2> QED BY <1>5, <2>1, <2>2, <2>4
  <1>10. ASSUME NEW p \in Players, PingPongLeave(p)
         PROVE  RoomOK'
    <2>1. phase = "PLAYING" /\ MatchLive
      BY <1>3, <1>10 DEF PingPongLeave
    <2>2. CASE match.step = "PREPARING"
      <3>1. /\ match' = NoMatch /\ phase' = "LOBBY" /\ timer' = "none"
            /\ \A q \in roster' : scores'[q] = 0
        BY <1>1, <1>10, <2>1, <2>2 DEF PingPongLeave, Cancelled, Remaining, AllOK, RoomOK
      <3> QED BY <1>1, <3>1, BackToLobby
    <2>3. CASE match.step # "PREPARING"
      <3>1. PingPongForfeit(p) /\ PingPongChanged
        BY <1>10, <2>3 DEF PingPongLeave
      <3>2. DOMAIN match'.points = DOMAIN match.points /\ match'.step # "NONE"
        BY <2>1, <3>1, PointsKept DEF AllOK, MatchLive
      <3> QED BY <1>5, <2>1, <3>1, <3>2
    <2> QED BY <2>2, <2>3
  <1>11. CASE PingPongReset \/ PingPongClose
    BY <1>1, <1>11, BackToLobby DEF PingPongReset, PingPongClose, ReturnRoom, CloseRoom
  <1>12. CASE PingPongRestart
    BY <1>1, <1>12, RestartRoomOK DEF PingPongRestart, pingPongVars, davinciVars
  <1> QED BY <1>6, <1>7, <1>8, <1>9, <1>10, <1>11, <1>12 DEF PingPongNext

\* What every move of Da Vinci Code keeps: the fields, the seats, and a step.
Moved(g, h) ==
    /\ DOMAIN h = DOMAIN NoGame /\ Seated(h) = Seated(g)
    /\ h.step \in {"GUESSING", "DECIDING", "PLACING", "FINISHED"}

\* The next turn, or the end.
LEMMA AdvancedMoves ==
    ASSUME NEW g, NEW seen, DOMAIN g = DOMAIN NoGame, NEW h \in Advanced(g, seen)
    PROVE  Moved(g, h)
  <1> DEFINE out == IF Hidden(g, seen, g.turn) = {} THEN g.out \cup {g.turn} ELSE g.out
             alive == Seated(g) \ out
  <1>1. DOMAIN g = {"step", "turn", "hands", "deck", "drawn", "out", "winner", "hits"}
    BY DEF NoGame
  <1>2. CASE Cardinality(alive) <= 1
    <2>1. PICK w : h = [g EXCEPT !.step = "FINISHED", !.out = out, !.winner = w]
      BY <1>2 DEF Advanced
    <2> QED BY <1>1, <2>1 DEF Moved, Seated
  <1>3. CASE ~(Cardinality(alive) <= 1)
    <2>1. PICK t, turn, deck : h = [g EXCEPT !.step = "GUESSING", !.out = out, !.turn = turn,
                                            !.deck = deck, !.drawn = t]
      BY <1>3, Zenon DEF Advanced
    <2> QED BY <1>1, <2>1 DEF Moved, Seated
  <1> QED BY <1>2, <1>3

\* Inserting a tile.
LEMMA InsertedMoves ==
    ASSUME NEW g, NEW at, DOMAIN g = DOMAIN NoGame
    PROVE  DOMAIN Inserted(g, at) = DOMAIN NoGame /\ Seated(Inserted(g, at)) = Seated(g)
  <1> DEFINE hands == [g.hands EXCEPT ![g.turn] = InsertAt(g.hands[g.turn], at, g.drawn)]
  <1>1. DOMAIN g = {"step", "turn", "hands", "deck", "drawn", "out", "winner", "hits"}
    BY DEF NoGame
  <1>2. Inserted(g, at) = [g EXCEPT !.hands = hands, !.drawn = NoTile]
    BY <1>1 DEF Inserted
  <1>3. DOMAIN hands = DOMAIN g.hands
    OBVIOUS
  <1> HIDE DEF hands
  <1> QED BY <1>1, <1>2, <1>3 DEF Seated

\* Concluding a turn.
LEMMA ConcludedMoves ==
    ASSUME NEW g, NEW seen, DOMAIN g = DOMAIN NoGame, NEW h \in Concluded(g, seen)
    PROVE  Moved(g, h)
  <1>1. CASE g.drawn = NoTile
    BY <1>1, AdvancedMoves DEF Concluded
  <1>2. CASE g.drawn # NoTile /\ g.drawn \in Jokers
    <2>1. h = [g EXCEPT !.step = "PLACING"]
      BY <1>2 DEF Concluded
    <2> QED BY <2>1 DEF Moved, Seated, NoGame
  <1>3. CASE g.drawn # NoTile /\ g.drawn \notin Jokers
    <2> DEFINE at == PlaceFor(g.hands[g.turn], g.drawn)
    <2>1. h \in Advanced(Inserted(g, at), seen)
      BY <1>3 DEF Concluded
    <2> HIDE DEF at
    <2>2. DOMAIN Inserted(g, at) = DOMAIN NoGame /\ Seated(Inserted(g, at)) = Seated(g)
      BY InsertedMoves
    <2>3. Moved(Inserted(g, at), h)
      BY <2>1, <2>2, AdvancedMoves
    <2> QED BY <2>2, <2>3 DEF Moved
  <1> QED BY <1>1, <1>2, <1>3

\* The player in turn, and the deadline, move.
LEMMA TurnMoves ==
    ASSUME GameShape, NEW p \in Players, Guess(p) \/ Continue(p) \/ Stop(p) \/ Place(p)
    PROVE  Moved(game, game') /\ DavinciChanged /\ Live
  <1>1. Live /\ DavinciChanged
    <2>1. game.step \in {"GUESSING", "DECIDING", "PLACING"} /\ DavinciChanged
      BY Zenon DEF Guess, Continue, Stop, Place
    <2> QED BY <2>1 DEF Live
  <1>2. CASE Guess(p)
    <2>1. PICK target \in Alive(game) \ {p} : \E t \in Nameable(target) :
            \E number \in {NumberOf(u) : u \in Tiles} :
              IF number # NumberOf(t)
              THEN /\ shown' = shown \cup Revealed(game, shown, TRUE)
                   /\ game' \in Concluded(game, shown')
              ELSE LET out == IF Hidden(game, shown \cup {t}, target) = {}
                              THEN game.out \cup {target} ELSE game.out
                       alive == Seated(game) \ out
                   IN  /\ shown' = shown \cup {t}
                       /\ game' = [game EXCEPT
                             !.out = out, !.hits[p] = @ + 1,
                             !.step = IF Cardinality(alive) <= 1 THEN "FINISHED"
                                      ELSE "DECIDING",
                             !.winner = IF Cardinality(alive) <= 1 THEN Min(alive)
                                        ELSE @]
      BY <1>2, Zenon DEF Guess
    <2>2. PICK seen : seen = shown'
      OBVIOUS
    <2>3. CASE game' \in Concluded(game, shown')
      BY <1>1, <2>2, <2>3, ConcludedMoves DEF GameShape
    <2>4. ASSUME NEW out, NEW hits, NEW step \in {"FINISHED", "DECIDING"}, NEW winner,
                 game' = [game EXCEPT !.out = out, !.hits = hits, !.step = step,
                                      !.winner = winner]
          PROVE  Moved(game, game')
      BY <2>4 DEF Moved, Seated, GameShape, NoGame
    <2>5. \/ game' \in Concluded(game, shown')
          \/ \E out, hits, winner : \E step \in {"FINISHED", "DECIDING"} :
               game' = [game EXCEPT !.out = out, !.hits = hits, !.step = step,
                                    !.winner = winner]
      <3>1. PICK t, number :
              IF number # NumberOf(t)
              THEN /\ shown' = shown \cup Revealed(game, shown, TRUE)
                   /\ game' \in Concluded(game, shown')
              ELSE LET out == IF Hidden(game, shown \cup {t}, target) = {}
                              THEN game.out \cup {target} ELSE game.out
                       alive == Seated(game) \ out
                   IN  /\ shown' = shown \cup {t}
                       /\ game' = [game EXCEPT
                             !.out = out, !.hits[p] = @ + 1,
                             !.step = IF Cardinality(alive) <= 1 THEN "FINISHED"
                                      ELSE "DECIDING",
                             !.winner = IF Cardinality(alive) <= 1 THEN Min(alive)
                                        ELSE @]
        BY <2>1, Zenon
      <3> DEFINE out == IF Hidden(game, shown \cup {t}, target) = {}
                        THEN game.out \cup {target} ELSE game.out
                 alive == Seated(game) \ out
                 step == IF Cardinality(alive) <= 1 THEN "FINISHED" ELSE "DECIDING"
                 winner == IF Cardinality(alive) <= 1 THEN Min(alive) ELSE game.winner
                 hits == [game.hits EXCEPT ![p] = game.hits[p] + 1]
      <3>2. CASE number = NumberOf(t)
        <4>1. game' = [game EXCEPT !.out = out, !.hits = hits, !.step = step,
                                   !.winner = winner]
          BY <3>1, <3>2 DEF GameShape, NoGame
        <4>2. step \in {"FINISHED", "DECIDING"}
          OBVIOUS
        <4> HIDE DEF out, step, winner, hits
        <4> QED BY <4>1, <4>2
      <3> QED BY <3>1, <3>2
    <2> QED BY <1>1, <2>3, <2>4, <2>5
  <1>3. CASE Continue(p)
    BY <1>1, <1>3 DEF Continue, Moved, Seated, GameShape, NoGame
  <1>4. CASE Stop(p)
    <2>1. game' \in Concluded(game, shown)
      BY <1>4, Zenon DEF Stop
    <2> QED BY <1>1, <2>1, ConcludedMoves DEF GameShape
  <1>5. CASE Place(p)
    <2>1. PICK at : game' \in Advanced(Inserted(game, at), shown)
      BY <1>5, Zenon DEF Place
    <2>2. /\ DOMAIN Inserted(game, at) = DOMAIN NoGame
          /\ Seated(Inserted(game, at)) = Seated(game)
      BY InsertedMoves DEF GameShape
    <2>3. Moved(Inserted(game, at), game')
      BY <2>1, <2>2, AdvancedMoves
    <2> QED BY <1>1, <2>2, <2>3 DEF Moved
  <1> QED BY <1>1, <1>2, <1>3, <1>4, <1>5

\* A missed guess, decision or placement is a move too.
LEMMA DavinciDeadlineMoves ==
    ASSUME GameShape, DavinciDeadline, timer # "stale", Live
    PROVE  Moved(game, game') /\ DavinciChanged
  <1>1. /\ DavinciChanged
        /\ game' \in IF game.step # "PLACING" THEN Concluded(game, shown')
                     ELSE Advanced(Inserted(game, Len(game.hands[game.turn]) + 1), shown)
    BY DEF DavinciDeadline
  <1>2. CASE game.step # "PLACING"
    <2>1. PICK seen : seen = shown'
      OBVIOUS
    <2> QED BY <1>1, <1>2, <2>1, ConcludedMoves DEF GameShape
  <1>3. CASE game.step = "PLACING"
    <2>1. PICK at : at = Len(game.hands[game.turn]) + 1
      OBVIOUS
    <2>2. game' \in Advanced(Inserted(game, at), shown)
      BY <1>1, <1>3, <2>1
    <2>3. /\ DOMAIN Inserted(game, at) = DOMAIN NoGame
          /\ Seated(Inserted(game, at)) = Seated(game)
      BY InsertedMoves DEF GameShape
    <2>4. Moved(Inserted(game, at), game')
      BY <2>2, <2>3, AdvancedMoves
    <2> QED BY <1>1, <2>3, <2>4 DEF Moved
  <1> QED BY <1>2, <1>3

\* Leaving is one unless the leaver was out already.
LEMMA ForfeitMoves ==
    ASSUME GameShape, NEW p \in Players, Forfeited(p), Live
    PROVE  \/ UNCHANGED <<phase, timer, game, shown>> /\ scores' = Remaining
           \/ Moved(game, game') /\ DavinciChanged
  <1>1. CASE p \notin Alive(game)
    BY <1>1 DEF Forfeited
  <1>2. CASE p \in Alive(game)
    <2> DEFINE g == [game EXCEPT !.out = game.out \cup {p}]
               l == [g EXCEPT !.drawn = NoTile]
    <2>1. /\ DOMAIN g = DOMAIN NoGame /\ Seated(g) = Seated(game)
          /\ g.step = game.step
      BY DEF GameShape, NoGame, Seated
    <2>2. DOMAIN l = DOMAIN NoGame /\ Seated(l) = Seated(game)
      BY DEF GameShape, NoGame, Seated
    <2>3. /\ DavinciChanged
          /\ \/ \E w : game' = [g EXCEPT !.step = "FINISHED", !.winner = w]
             \/ game' = g
             \/ game' \in Advanced(l, shown')
      BY <1>2 DEF Forfeited
    <2> HIDE DEF l
    <2>4. ASSUME game' \in Advanced(l, shown')
          PROVE  Moved(game, game')
      <3>1. PICK seen : seen = shown'
        OBVIOUS
      <3>2. Moved(l, game')
        BY <2>2, <2>4, <3>1, AdvancedMoves
      <3> QED BY <2>2, <3>2 DEF Moved
    <2>5. ASSUME NEW w, game' = [g EXCEPT !.step = "FINISHED", !.winner = w]
          PROVE  Moved(game, game')
      <3> HIDE DEF g
      <3> QED BY <2>1, <2>5 DEF Moved, Seated, NoGame
    <2>6. ASSUME game' = g
          PROVE  Moved(game, game')
      <3> HIDE DEF g
      <3>1. game.step \in {"GUESSING", "DECIDING", "PLACING"}
        BY DEF GameShape, Live
      <3> QED BY <2>1, <2>6, <3>1 DEF Moved, Seated, NoGame
    <2> QED BY <2>3, <2>4, <2>5, <2>6
  <1> QED BY <1>1, <1>2

\* The part of Da Vinci Code.
LEMMA DavinciRoomOK ==
    ASSUME AllOK, DavinciNext, UNCHANGED <<duel, pingPongVars>>
    PROVE  RoomOK'
  <1>1. /\ code = "davinci_code" /\ code' = code /\ roster' \subseteq roster
        /\ UNCHANGED <<duel, match>> /\ duel = NoDuel /\ match = NoMatch
    BY RightModule, RosterShrinks DEF AllOK, Dispatched, OwnGame, Next, pingPongVars
  <1>2. /\ ~DuelLive /\ ~DuelLive' /\ ~MatchLive /\ ~MatchLive' /\ ~Untimed'
        /\ Participants = Seated(game) /\ Participants' = Seated(game)'
    BY <1>1 DEF DuelLive, MatchLive, Untimed, Participants, NoDuel, NoMatch
  <1>3. /\ phase = "PLAYING" <=> Live
        /\ GameShape
    BY <1>2 DEF AllOK, RoomOK, ClockOfTheGame, Running
  <1>4. ASSUME phase = "PLAYING", DavinciChanged, Moved(game, game')
        PROVE  RoomOK'
    <2>1. GameShape' /\ Seated(game)' = Seated(game)
      BY <1>4 DEF Moved, GameShape, Seated
    <2>2. CASE game'.step # "FINISHED"
      <3>1. phase' = "PLAYING" /\ timer' = "current" /\ scores' = Remaining
        BY <1>4, <2>2 DEF DavinciChanged, GoesOn
      <3>2. Running'
        BY <1>4, <2>2 DEF Moved, Running, Live
      <3> QED BY <1>1, <1>2, <1>4, <2>1, <3>1, <3>2, PlaysOn
    <2>3. CASE game'.step = "FINISHED"
      <3>1. /\ phase' = "FINISHED" /\ timer' = "none"
            /\ Ends([p \in Seated(game') |-> ScoreOf(game', shown', p)])
        BY <1>4, <2>3 DEF DavinciChanged, Ends
      <3>2. ASSUME NEW p \in roster'
            PROVE  scores'[p] = Earned(p)'
        <4>1. p \in Seated(game')
          BY <1>1, <1>2, <1>4, <2>1, <3>2 DEF AllOK, RoomOK, Seated
        <4>2. scores'[p] = ScoreOf(game', shown', p)
          BY <3>1, <3>2, <4>1 DEF Ends
        <4> QED BY <1>1, <4>2 DEF Earned, ScoreOf, Hidden
      <3>3. ~Running'
        BY <1>2, <2>3 DEF Running, Live
      <3> QED BY <1>1, <1>4, <2>1, <3>1, <3>2, <3>3, IsOver
    <2> QED BY <2>2, <2>3
  <1>5. CASE DavinciStart
    <2>1. /\ phase' = "PLAYING" /\ timer' = "current" /\ roster' = roster /\ scores' = scores
          /\ phase = "LOBBY"
      BY <1>5 DEF DavinciStart, StartRoom
    <2>2. PICK h \in Deals(roster) : \E t \in Draws(Tiles \ UNION {Range(h[p]) : p \in roster}) :
            game' = [NoGame EXCEPT
                       !.step = "GUESSING", !.turn = Min(roster), !.hands = h,
                       !.deck = (Tiles \ UNION {Range(h[p]) : p \in roster}) \ {t}, !.drawn = t,
                       !.hits = [p \in roster |-> 0]]
      BY <1>5 DEF DavinciStart
    <2>3. /\ DOMAIN game' = DOMAIN NoGame /\ game'.step = "GUESSING" /\ game'.hands = h
      BY <2>2 DEF NoGame
    <2>4. DOMAIN h = roster
      BY <2>2 DEF Deals
    <2>5. GameShape' /\ Live' /\ Seated(game)' = roster
      BY <2>3, <2>4 DEF GameShape, Live, Seated, NoGame
    <2>6. \A p \in roster : scores[p] = 0
      BY <2>1 DEF AllOK, RoomOK, LobbyIsFresh
    <2> QED BY <1>1, <1>2, <2>1, <2>5, <2>6
            DEF RoomOK, ClockOfTheGame, RankedByThisGame, LobbyIsFresh, Running
  <1>6. CASE DavinciDeadline
    <2>1. timer # "stale" /\ phase = "PLAYING" /\ Live
      BY <1>3, <1>6 DEF DavinciDeadline, Fires, AllOK, RoomOK, ClockOfTheGame
    <2> QED BY <1>3, <1>4, <1>6, <2>1, DavinciDeadlineMoves
  <1>7. ASSUME NEW p \in Players, Guess(p) \/ Continue(p) \/ Stop(p) \/ Place(p)
        PROVE  RoomOK'
    <2>1. Moved(game, game') /\ DavinciChanged /\ Live
      BY <1>3, <1>7, TurnMoves
    <2> QED BY <1>3, <1>4, <2>1
  <1>8. ASSUME NEW p \in Players, DavinciLeave(p)
        PROVE  RoomOK'
    <2>1. phase = "PLAYING" /\ Forfeited(p) /\ Live
      BY <1>3, <1>8 DEF DavinciLeave
    <2>2. CASE UNCHANGED <<phase, timer, game, shown>> /\ scores' = Remaining
      <3>1. Running' /\ Participants' = Participants /\ GameShape' /\ timer' = "current"
        BY <1>1, <1>2, <1>3, <2>1, <2>2
           DEF Running, Live, Seated, GameShape, AllOK, RoomOK, ClockOfTheGame, Untimed
      <3> QED BY <1>1, <1>2, <2>1, <2>2, <3>1, PlaysOn
    <2>3. CASE Moved(game, game') /\ DavinciChanged
      BY <1>4, <2>1, <2>3
    <2> QED BY <1>3, <2>1, <2>2, <2>3, ForfeitMoves
  <1>9. CASE DavinciReset \/ DavinciClose
    BY <1>1, <1>9, BackToLobby DEF DavinciReset, DavinciClose, ReturnRoom, CloseRoom
  <1>10. CASE DavinciRestart
    BY <1>1, <1>10, RestartRoomOK DEF DavinciRestart
  <1> QED BY <1>5, <1>6, <1>7, <1>8, <1>9, <1>10 DEF DavinciNext

-----------------------------------------------------------------------------
(* The theorems.                                                           *)

\* Every step keeps the room and its game together.
LEMMA RoomStepOK ==
    ASSUME AllOK, [Next]_vars
    PROVE  RoomOK'
  <1>1. CASE UNCHANGED vars
    <2>1. UNCHANGED <<code, phase, timer, roster, scores, game, shown, duel, match>>
      BY <1>1 DEF vars, room, gameVars, davinciVars, pingPongVars
    <2>2. /\ Running' <=> Running
          /\ Untimed' <=> Untimed
          /\ GameShape' <=> GameShape
          /\ Participants' = Participants
      BY <2>1 DEF Running, Live, DuelLive, MatchLive, Untimed, HostJudged, GameShape,
                  Participants, Seated, Sides
    <2>3. ASSUME NEW q \in roster'
          PROVE  Earned(q)' = Earned(q)
      BY <2>1 DEF Earned, ScoreOf, Hidden
    <2>4. ClockOfTheGame' /\ LobbyIsFresh'
      BY <2>1, <2>2 DEF AllOK, RoomOK, ClockOfTheGame, LobbyIsFresh
    <2>5. RankedByThisGame'
      BY <2>1, <2>3 DEF AllOK, RoomOK, RankedByThisGame
    <2> QED BY <2>1, <2>2, <2>4, <2>5 DEF RoomOK, AllOK
  <1> QED BY <1>1, DavinciRoomOK, DuelRoomOK, PingPongRoomOK, LeaveRoomOK DEF Next

\* The inductive invariant, in every reachable state.
LEMMA AlwaysAllOK == Spec => []AllOK
  <1>1. Init => RoomOK
    BY DEF Init, InitRoom, InitDavinci, InitDuel, InitPingPong, RoomOK, GameShape,
           ClockOfTheGame, RankedByThisGame, LobbyIsFresh, Running, Live, DuelLive, MatchLive,
           NoGame, NoDuel, NoMatch
  <1>2. AllOK /\ [Next]_vars => RoomOK'
    BY RoomStepOK
  <1>3. Dispatched /\ DuelOK /\ MatchOK /\ RoomOK <=> AllOK
    BY DEF AllOK
  <1> QED BY <1>1, <1>2, <1>3, OneGamePerRoom, AlwaysDuelOK, AlwaysMatchOK, PTL DEF Spec

\* Whatever is played: a room that plays has a running game and the deadline that
\* moves it on, and no other room has either.
THEOREM RoomsAreTimed == Spec => []ClockOfTheGame
  <1>1. AllOK => ClockOfTheGame
    BY DEF AllOK, RoomOK
  <1> QED BY <1>1, AlwaysAllOK, PTL

\* The final ranking has the points of the game that was played, for all who are left.
THEOREM RankingIsOfThisGame == Spec => []RankedByThisGame
  <1>1. AllOK => RankedByThisGame
    BY DEF AllOK, RoomOK
  <1> QED BY <1>1, AlwaysAllOK, PTL

\* Nothing of a game survives in the lobby, so that the next one can start.
THEOREM LobbiesAreFresh == Spec => []LobbyIsFresh
  <1>1. AllOK => LobbyIsFresh
    BY DEF AllOK, RoomOK
  <1> QED BY <1>1, AlwaysAllOK, PTL

\* Who fell in a duel is ranked below who stands, disqualified or not.
THEOREM FallenRankBelow == Spec => []StandingOutranksFallen
  <1>1. ASSUME AllOK, code = "duel", phase = "FINISHED", duel.last.kind # "FORFEIT",
               NEW p \in roster \cap Sides, NEW q \in roster \cap Sides,
               p = duel.last.ko, q # p
        PROVE  scores[p] < scores[q]
    <2>1. scores[p] = Earned(p) /\ scores[q] = Earned(q)
      BY <1>1 DEF AllOK, RoomOK, RankedByThisGame
    <2>2. Earned(p) = 0 /\ Earned(q) = duel.hp[q]
      BY <1>1 DEF Earned
    <2>3. duel # NoDuel
      BY <1>1 DEF NoDuel, Sides
    <2>4. PICK a \in Players, b \in Players : duel \in DuelState(a, b)
      BY <1>1, <2>3, TypeForm DEF AllOK, DuelOK
    <2>5. Over
      BY <1>1, <2>4, RoomAssumption DEF Over, Sides, DuelState, Nobody
    <2>6. duel.hp[q] > 0
      BY <1>1, <2>3, <2>5 DEF AllOK, DuelOK, DuelInv, OneStands
    <2> QED BY <2>1, <2>2, <2>6
  <1>2. AllOK => StandingOutranksFallen
    BY <1>1 DEF StandingOutranksFallen
  <1> QED BY <1>2, AlwaysAllOK, PTL

\* The ranking of a finished room is the one its game deserves.
THEOREM RankingsAreFair == Spec => []RankingIsFair
  BY RankingIsOfThisGame, FallenRankBelow, PTL DEF RankingIsFair

=============================================================================
