------------------------------- MODULE Games -------------------------------
(***************************************************************************)
(* A room of one of the games that are not played in rounds of turns.  The  *)
(* lifecycle and the socket gateway call the module of the room's game and  *)
(* no other (game/module.ts), so that a step is one of that module, or one  *)
(* of the room alone.                                                       *)
(***************************************************************************)
EXTENDS Davinci, Duel, PingPong

gameVars == <<davinciVars, duel, pingPongVars>>
vars == <<room, gameVars>>

Init == InitRoom /\ InitDavinci /\ InitDuel /\ InitPingPong

Leave(p) == LeaveIdle(p) /\ UNCHANGED gameVars

Next ==
    \/ DavinciNext /\ UNCHANGED <<duel, pingPongVars>>
    \/ DuelNext /\ UNCHANGED <<davinciVars, pingPongVars>>
    \/ PingPongNext /\ UNCHANGED <<davinciVars, duel>>
    \/ \E p \in Players : Leave(p)

Spec == Init /\ [][Next]_vars

Deadline ==
    \/ DavinciDeadline /\ UNCHANGED <<duel, pingPongVars>>
    \/ DuelDeadline /\ UNCHANGED <<davinciVars, pingPongVars>>
    \/ PingPongDeadline /\ UNCHANGED <<davinciVars, duel>>

\* Only the clock is fair: nobody has to play, to leave or to come back.
FairSpec == Spec /\ WF_vars(Deadline)

-----------------------------------------------------------------------------
(* What the rooms promise, whatever is played.                             *)

Running == Live \/ DuelLive \/ MatchLive

\* What only players can move on, and what the dashboard judges.
Untimed == code = "ping_pong" /\ (match.step = "PREPARING" \/ HostJudged)

\* A room that plays has a running game, and a deadline of its current state when the
\* clock has to move it: no input, timeout, leaver or restart leaves it without one,
\* and no deadline outlives the game.
ClockOfTheGame ==
    /\ phase = "PLAYING" => Running /\ timer = (IF Untimed THEN "none" ELSE "current")
    /\ phase # "PLAYING" => ~Running /\ timer = "none"

\* What the state says a player has earned.
Earned(p) ==
    CASE code = "davinci_code" -> ScoreOf(game, shown, p)
      [] code = "duel" -> IF p = duel.last.ko THEN 0 ELSE duel.hp[p]
      [] code = "ping_pong" -> match.points[p]

\* The ranking is read from the score hash: when the game is over it names those who
\* are seated, with the points of this game.
RankedByThisGame ==
    phase = "FINISHED" => \A p \in roster : scores[p] = Earned(p)

\* The ranking tells who won, in a duel by who stands.
RankingIsFair == RankedByThisGame /\ StandingOutranksFallen

\* A lobby has nothing left of the last game: no state, which would refuse the next
\* start as already initialized, and no points.
LobbyIsFresh ==
    phase = "LOBBY" =>
      /\ game = NoGame /\ duel = NoDuel /\ match = NoMatch
      /\ \A p \in roster : scores[p] = 0

\* Where the clock has to move a game it does, whatever the players do: Da Vinci Code
\* ends, the next step of a duel comes, and so does the serve.
TimedGamesGoOn == DavinciEnds /\ DuelGoesOn /\ ServeComes

=============================================================================
