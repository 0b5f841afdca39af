------------------------------ MODULE PingPong ------------------------------
(***************************************************************************)
(* Ping-pong in a room: the gate of practice swings and ready presses, the  *)
(* serves, the rally, points and deuce, the deadline of a flight, leaving   *)
(* (src/backend/src/game/pingpong).                                         *)
(*                                                                          *)
(* The court is abstracted to whose side the ball flies to and whether it   *)
(* is a fault; whether a swing is too early, too late, a fault or a return   *)
(* depends on when it comes, so that every outcome is possible.  The number *)
(* of an input is kept as far as the gate asks for it: one has arrived.     *)
(***************************************************************************)
EXTENDS GameRoom

CONSTANTS
    WinScore,   \* WIN_SCORE
    MaxPoints   \* bound: points played in a match

\* Deuce begins with both having served equally often because 11 is odd.
ASSUME PingPongAssumption ==
    WinScore \in Nat \ {0, 1} /\ WinScore % 2 = 1 /\ MaxPoints \in Nat

VARIABLES
    match,     \* the state in the store, NoMatch when there is none
    swung,     \* history: who has swung since the match was made
    received   \* history: how many serves each player has received

pingPongVars == <<match, swung, received>>

NoMatch == [step |-> "NONE", seats |-> <<>>, points |-> <<>>, practised |-> {},
            ready |-> {}, receiver |-> Nobody, toward |-> Nobody, fault |-> FALSE,
            left |-> Nobody]

Seats == {match.seats[i] : i \in DOMAIN match.seats}
Other(p) == CHOOSE q \in Seats : q # p
MatchLive == match.step \notin {"NONE", "FINISHED"}

\* isHostJudged: the dashboard of a party room judges the rally.
HostJudged == Party

\* schedule: no deadline for a rally that the dashboard judges, nor before one.
Clock(m) ==
    IF HostJudged \/ m.step = "PREPARING" THEN "none" ELSE "current"

-----------------------------------------------------------------------------
(* Serves and points.                                                      *)

ChangesLate(seats, points) ==   \* mutant: the serve does not alternate in deuce
    LET total == points[seats[1]] + points[seats[2]] IN seats[((total \div 2) % 2) + 1]

\* serveReceiver: two serves each, one each from deuce on.
ServeReceiver(seats, points) ==
    LET total == points[seats[1]] + points[seats[2]]
        even == 2 * (WinScore - 1)
        turn == IF total < even THEN total \div 2 ELSE WinScore - 1 + (total - even)
    IN  seats[(turn % 2) + 1]

\* point: the winner is first to the score, and two ahead.
Won(m, p) ==
    m.points[p] >= WinScore /\ m.points[p] - m.points[Other(p)] >= 2

\* expire: a fault is the opponent's point, a ball nobody returned the hitter's.
Scorer == IF match.fault THEN match.toward ELSE Other(match.toward)

AfterPoint ==
    LET m == [match EXCEPT !.points[Scorer] = @ + 1, !.fault = FALSE] IN
    IF Won(m, Scorer) THEN [m EXCEPT !.step = "FINISHED", !.receiver = Nobody]
    ELSE [m EXCEPT !.step = "COUNTDOWN", !.receiver = ServeReceiver(m.seats, m.points)]

-----------------------------------------------------------------------------
(* The handlers.                                                           *)

InitPingPong == match = NoMatch /\ swung = {} /\ received = <<>>

\* The host is first and receives the first serve.
PingPongStart ==
    /\ code = "ping_pong" /\ match = NoMatch
    /\ Cardinality(roster) = 2
    /\ StartRoom("none")
    /\ LET host == Min(roster) IN
       match' = [NoMatch EXCEPT !.step = "PREPARING",
                                !.seats = <<host, Max(roster)>>,
                                !.points = [p \in roster |-> 0], !.receiver = host]
    /\ swung' = {} /\ received' = [p \in roster |-> 0]

\* changed
PingPongChanged ==
    IF match'.step # "FINISHED" THEN GoesOn(Clock(match')) ELSE Ends(match'.points)

\* A swing before the match is practice: its number is recorded.  Where the
\* dashboard judges, swings are relayed and the state does not see them.
Practise(p) ==
    /\ match.step = "PREPARING" /\ p \in Seats
    /\ swung' = swung \cup {p} /\ Fixed /\ UNCHANGED <<roster, received>>
    /\ IF HostJudged THEN UNCHANGED <<match, phase, timer, scores>>
       ELSE match' = [match EXCEPT !.practised = @ \cup {p}] /\ PingPongChanged

ReadyUnpractised(p) == TRUE   \* mutant: ready is accepted without a practice swing
Practised(p) == p \in match.practised

BothWereReady(p) == Seats \subseteq match.ready   \* mutant: the list before the press
EveryoneReady(p) == Seats \subseteq match.ready \cup {p}

\* ready: the second one starts the countdown.
Ready(p) ==
    /\ match.step = "PREPARING" /\ p \in Seats \ match.ready /\ Practised(p)
    /\ match' = [match EXCEPT
                   !.ready = @ \cup {p},
                   !.step = IF EveryoneReady(p) THEN "COUNTDOWN" ELSE @]
    /\ Fixed /\ UNCHANGED <<roster, swung, received>> /\ PingPongChanged

\* A swing in a rally: from the wrong side, at a fault, too early or too late it
\* changes nothing but the version; a return flies back, possibly as a fault.
Swing(p) ==
    /\ ~HostJudged
    /\ match.step \in {"COUNTDOWN", "PLAYING"} /\ p \in Seats
    /\ IF match.step # "PLAYING" \/ match.fault \/ match.toward # p THEN UNCHANGED match
       ELSE match' \in {match} \cup
              {[match EXCEPT !.toward = Other(p), !.fault = f] : f \in BOOLEAN}
    /\ Fixed /\ UNCHANGED <<roster, swung, received>> /\ PingPongChanged

\* timeout: serve, or the ball has landed.
PingPongDeadline ==
    /\ code = "ping_pong" /\ Fires /\ Fixed /\ UNCHANGED <<roster, swung>>
    /\ IF timer = "stale" \/ ~MatchLive
       THEN FiresStale /\ UNCHANGED <<match, received>>
       ELSE /\ IF match.step = "COUNTDOWN"
               THEN /\ match' = [match EXCEPT !.step = "PLAYING", !.fault = FALSE,
                                              !.toward = match.receiver]
                    /\ received' = [received EXCEPT ![match.receiver] = @ + 1]
               ELSE /\ match.points[match.seats[1]] + match.points[match.seats[2]] < MaxPoints
                    /\ match' = AfterPoint /\ UNCHANGED received
            /\ PingPongChanged

LobbyWithMatch ==   \* mutant: the lobby of a cancelled match keeps its state
    /\ phase' = "LOBBY" /\ timer' = "none" /\ scores' = Remaining
    /\ UNCHANGED match

\* cancelPreparation: nobody has won a match that had not begun.
Cancelled ==
    /\ phase' = "LOBBY" /\ timer' = "none" /\ scores' = Remaining
    /\ match' = NoMatch

\* forfeit: the survivor has the winning score, whatever the points were.
PingPongForfeit(p) ==
    match' = [match EXCEPT !.step = "FINISHED", !.points[Other(p)] = WinScore,
                           !.receiver = Nobody, !.left = p]

\* removePlayer gives up the seat in the registry and in the roster, also when the
\* request has done so before.
PingPongLeave(p) ==
    /\ code = "ping_pong" /\ p \in roster /\ phase = "PLAYING" /\ Fixed
    /\ roster' = roster \ {p}
    /\ IF match.step = "PREPARING" THEN Cancelled
       ELSE PingPongForfeit(p) /\ PingPongChanged
    /\ UNCHANGED <<swung, received>>

PingPongReset ==
    code = "ping_pong" /\ ReturnRoom /\ match' = NoMatch /\ UNCHANGED <<swung, received>>
PingPongClose ==
    code = "ping_pong" /\ CloseRoom /\ match' = NoMatch /\ UNCHANGED <<swung, received>>

PingPongRestart ==
    /\ code = "ping_pong" /\ RestartRoom(MatchLive, Clock(match))
    /\ UNCHANGED pingPongVars

PingPongNext ==
    \/ PingPongStart \/ PingPongDeadline
    \/ PingPongReset \/ PingPongClose \/ PingPongRestart
    \/ \E p \in Players : Practise(p) \/ Ready(p) \/ Swing(p) \/ PingPongLeave(p)

-----------------------------------------------------------------------------
(* What ping-pong promises.                                                *)

\* The type of the state: two seats, or none before the start.
PingPongTypeOK ==
    \/ match = NoMatch
    \/ \E a, b \in Players :
         /\ a # b
         /\ match \in [step : {"PREPARING", "COUNTDOWN", "PLAYING", "FINISHED"},
                       seats : {<<a, b>>}, points : [{a, b} -> Nat],
                       practised : SUBSET {a, b}, ready : SUBSET {a, b},
                       receiver : {a, b, Nobody}, toward : {a, b, Nobody},
                       fault : BOOLEAN, left : {a, b, Nobody}]

\* Serves are shared: nobody is ever two ahead of a full pair, and in deuce the
\* players take turns.
ServesAreShared ==
    match # NoMatch =>
      LET a == match.seats[1]
          b == match.seats[2]
          lead == received[a] - received[b]
      IN  /\ lead \in 0 .. 2
          /\ match.points[a] + match.points[b] > 2 * (WinScore - 1)
                /\ match.left = Nobody => lead \in 0 .. 1

\* A match goes on while nobody is two ahead with the winning score, and ends at the
\* first moment somebody is: past the winning score the lead is never more than two.
WonByTwo ==
    match # NoMatch /\ match.left = Nobody =>
      LET Lead(p) == match.points[p] - match.points[Other(p)] IN
      /\ \A p \in Seats : match.points[p] > WinScore => Lead(p) <= 2
      /\ match.step = "FINISHED" <=>
           \E p \in Seats : match.points[p] >= WinScore /\ Lead(p) >= 2

\* Serving and winning by the rules, also where deuce changes both.
MatchIsFair == ServesAreShared /\ WonByTwo

\* The match has begun only with both players there and ready, each with an input
\* that the server has seen.
BegunTogether ==
    match.step \in {"COUNTDOWN", "PLAYING"} =>
      match.ready = Seats /\ match.practised = Seats /\ Seats \subseteq roster

\* Two players who swing and then press ready start the match, if nobody leaves: the
\* gate is the server's in every room, with a dashboard too.
ReadyPairStarts ==
    (\A p \in Players : WF_pingPongVars(Practise(p)) /\ WF_pingPongVars(Ready(p))) =>
      (match.step = "PREPARING" /\ swung = Seats ~> match.step # "PREPARING")

\* The clock brings the serve.
ServeComes == match.step = "COUNTDOWN" ~> match.step # "COUNTDOWN"

=============================================================================
