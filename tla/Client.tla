------------------------------- MODULE Client -------------------------------
(***************************************************************************)
(* The pages of a room's players and the socket gateway: how a page         *)
(* connects, loses its connection, retries, gives up, is resumed and        *)
(* reloaded, how the gateway seats its sockets, and what of the room and    *)
(* its game the page shows (frontend/src/app, realtime and store; backend   *)
(* ws/).  The games are those that send whole states (duel, Da Vinci Code,  *)
(* ping-pong): a game is its number and the version of its state.           *)
(*                                                                          *)
(* A connection is a pair of queues.  One that the page has lost, or that   *)
(* the server has closed, stays with the server until it sees the close:    *)
(* its messages are still read, and the seat may still be its own.          *)
(***************************************************************************)
EXTENDS Integers, Sequences

CONSTANTS
    Players,                    \* each with one page, all in the roster
    Host,                       \* who starts the games
    MaxAttempts,                \* MAX_RECONNECT_ATTEMPTS
    MaxGames, MaxMoves,         \* bounds: games of the room, versions of a game
    Busy, MaxInputs,            \* bounds: whose screens give inputs, and how many
    Happens, MaxFaults          \* bounds: what goes wrong, and how often

ASSUME ClientAssumption ==
    /\ Host \in Players /\ Busy \subseteq Players
    /\ MaxAttempts \in Nat /\ MaxGames \in Nat /\ MaxMoves \in Nat /\ MaxInputs \in Nat
    /\ Happens \subseteq {"drop", "reload", "restart", "idle"} /\ MaxFaults \in Nat

VARIABLES
    phase, game, heard,   \* the room: its phase, the stored state, and lastInputSeq
    seat,      \* the registry: of the page's connection, of a lost one, without
    closing,   \* whether the empty room waits to be closed
    link,      \* the page's connection
    tries,     \* attempts since the last snapshot
    shown,     \* the page's snapshot of the room
    seq,       \* the last inputSeq of the game screen
    answer,    \* whether the response to the page's START is under way
    down, up,  \* the two directions of the page's connection
    lost, late,   \* the connection that is lost, and what the server has yet to read
    faults     \* history, for the bound

server == <<phase, game, heard, seat, closing>>
page == <<link, tries, shown, seq, answer>>
wires == <<down, up, lost, late>>
vars == <<server, page, wires, faults>>

NoGame == [id |-> 0, at |-> 0]
Phases == {"waiting", "playing", "finished", "gone"}

Message(kind, ph, g) == [kind |-> kind, phase |-> ph, game |-> g]
Plain(kind) == Message(kind, "waiting", NoGame)
State(g) == Message("state", "playing", g)
Sync(ph, g) == Message("sync", ph, g)

GamesOf == [id : 0 .. MaxGames, at : 0 .. MaxMoves + 1]
Screens == [phase : Phases, game : GamesOf]
Downs == [kind : {"state", "sync", "over", "removed", "gone", "closed"},
          phase : Phases, game : GamesOf]
Join == 0   \* the other messages up are the numbers of inputs

Init ==
    /\ phase = "waiting" /\ game = NoGame
    /\ heard = [p \in Players |-> 0]
    /\ seat = [p \in Players |-> "none"]
    /\ closing = FALSE
    /\ link = [p \in Players |-> "dialling"]
    /\ tries = [p \in Players |-> 0]
    /\ shown = [p \in Players |-> [phase |-> "waiting", game |-> NoGame]]
    /\ seq = [p \in Players |-> 0]
    /\ answer = [p \in Players |-> FALSE]
    /\ down = [p \in Players |-> <<>>] /\ up = [p \in Players |-> <<>>]
    /\ lost = [p \in Players |-> FALSE] /\ late = [p \in Players |-> <<>>]
    /\ faults = 0

Fault(kind) == kind \in Happens /\ faults < MaxFaults /\ faults' = faults + 1

-----------------------------------------------------------------------------
(* The gateway.                                                            *)

\* A broadcast reaches the connections that are seated.
Tell(msgs) == down' = [p \in Players |-> IF seat[p] = "live" THEN down[p] \o msgs ELSE down[p]]

\* POST games, of the host: the state is initialized and sent before the request is answered.
Start(p) ==
    /\ p = Host /\ link[p] = "connected" /\ shown[p].phase = "waiting" /\ ~answer[p]
    /\ phase = "waiting" /\ game.id < MaxGames
    /\ LET g == [id |-> (game.id + 1), at |-> 0] IN
       /\ game' = g /\ Tell(<<State(g), Sync("playing", g)>>)
    /\ phase' = "playing" /\ heard' = [q \in Players |-> 0]
    /\ answer' = [answer EXCEPT ![p] = TRUE]
    /\ UNCHANGED <<seat, closing, link, tries, shown, seq, up, lost, late, faults>>

\* The state changes: it is sent, at the bounds of a round with the room's snapshot.
Advance ==
    LET g == [game EXCEPT !.at = @ + 1] IN
    /\ game.at < MaxMoves /\ game' = g
    /\ \E msgs \in {<<State(g)>>, <<State(g), Sync(phase, g)>>} : Tell(msgs)

\* A deadline fires.
Move ==
    /\ phase = "playing" /\ Advance
    /\ UNCHANGED <<phase, heard, seat, closing, page, up, lost, late, faults>>

\* An input of p: one that is not newer than the last is ignored, others may be.
Heard(p, n) ==
    \/ /\ phase = "playing" /\ n > heard[p]
       /\ Advance
       /\ heard' = [heard EXCEPT ![p] = n]
    \/ UNCHANGED <<game, heard, down>>

\* game.over and the snapshot of the completion service, then what `changed` sends.
Finish ==
    /\ phase = "playing"
    /\ LET g == [game EXCEPT !.at = @ + 1] IN
       /\ game' = g
       /\ Tell(<<Plain("over"), Sync("finished", NoGame), State(g), Sync("finished", g)>>)
    /\ phase' = "finished"
    /\ UNCHANGED <<heard, seat, closing, page, up, lost, late, faults>>

\* POST lobby; the state is removed.  The number of the next game is kept.
ReturnToLobby ==
    /\ phase = "finished" /\ \A p \in Players : ~answer[p]
    /\ phase' = "waiting" /\ Tell(<<Sync("waiting", NoGame)>>)
    /\ game' = [game EXCEPT !.at = 0]
    /\ UNCHANGED <<heard, seat, closing, page, up, lost, late, faults>>

\* What is stored: nothing outside a game and its result.
Stored == IF phase \in {"playing", "finished"} THEN game ELSE NoGame

NoReseating(p) == FALSE   \* mutant: only the registry knows who has a seat

\* After a restart the registry is empty, and the roster says who plays.
Reseating(p) == seat[p] = "none" /\ phase = "playing"

Reconnects(p) == seat[p] # "none" \/ Reseating(p)

\* handleRoomJoin: the answer to a join of p.
Reply(p) ==
    CASE phase = "gone" -> Plain("gone")
      [] phase = "playing" /\ ~Reconnects(p) -> Plain("removed")
      [] phase # "gone" /\ Reconnects(p) -> Sync(phase, Stored)
      [] OTHER -> Sync(phase, NoGame)

Admitted(p) == Reply(p).kind = "sync"

\* Only a first join cancels the closing of the room.
Cancels(p) == Admitted(p) /\ ~Reconnects(p)

\* room.join on the page's connection: the seat is the socket's from now on.
HandleJoin(p) ==
    /\ seat' = IF Admitted(p) THEN [seat EXCEPT ![p] = "live"] ELSE seat
    /\ closing' = (closing /\ ~Cancels(p))
    /\ down' = [down EXCEPT ![p] = Append(@, Reply(p))]
    /\ UNCHANGED <<phase, game, heard>>

\* The gateway reads the page's connection; an input needs the seat.
Read(p) ==
    /\ up[p] # <<>>
    /\ up' = [up EXCEPT ![p] = Tail(@)]
    /\ IF Head(up[p]) = Join THEN HandleJoin(p)
       ELSE /\ seat[p] = "live" /\ Heard(p, Head(up[p]))
            /\ UNCHANGED <<phase, seat, closing>>
    /\ UNCHANGED <<page, lost, late, faults>>

\* The same for a lost connection: its join takes the seat from the page's socket,
\* which the gateway closes.
ReadLate(p) ==
    /\ late[p] # <<>>
    /\ late' = [late EXCEPT ![p] = Tail(@)]
    /\ IF Head(late[p]) = Join
       THEN /\ seat' = IF Admitted(p) THEN [seat EXCEPT ![p] = "dead"] ELSE seat
            /\ closing' = (closing /\ ~Cancels(p))
            /\ down' = IF Admitted(p) /\ seat[p] = "live"
                       THEN [down EXCEPT ![p] = Append(@, Plain("closed"))] ELSE down
            /\ UNCHANGED <<phase, game, heard>>
       ELSE /\ IF seat[p] = "dead" THEN Heard(p, Head(late[p]))
               ELSE UNCHANGED <<game, heard, down>>
            /\ UNCHANGED <<phase, seat, closing>>
    /\ UNCHANGED <<page, up, lost, faults>>

\* RoomLifecycle.closed: the seat of a player stays, outside a game it is given up.
\* The close of a socket that has been replaced changes nothing.
SeatAfterClose(p) ==
    IF seat[p] # "dead" THEN seat
    ELSE [seat EXCEPT ![p] = IF phase = "playing" THEN "offline" ELSE "none"]

\* The last one out leaves the room to the grace.
Closed(p) ==
    /\ lost[p] /\ late[p] = <<>>
    /\ lost' = [lost EXCEPT ![p] = FALSE]
    /\ seat' = SeatAfterClose(p)
    /\ closing' = (closing \/ (seat' # seat /\ \A q \in Players : seat'[q] = "none"))
    /\ UNCHANGED <<phase, game, heard, page, down, up, late, faults>>

NotChecked == TRUE   \* mutant: the grace is not checked again when it ends

StillEmpty == \A p \in Players : seat[p] = "none"

\* The grace is over.
CloseRoom ==
    /\ closing /\ closing' = FALSE
    /\ phase' = IF StillEmpty THEN "gone" ELSE phase
    /\ UNCHANGED <<game, heard, seat, page, wires, faults>>

\* No heartbeat for a while: the gateway closes the connection.
Idle(p) ==
    /\ seat[p] = "live" /\ ~lost[p] /\ Fault("idle")
    /\ seat' = [seat EXCEPT ![p] = "dead"]
    /\ lost' = [lost EXCEPT ![p] = TRUE]
    /\ late' = [late EXCEPT ![p] = up[p]] /\ up' = [up EXCEPT ![p] = <<>>]
    /\ down' = [down EXCEPT ![p] = Append(@, Plain("closed"))]
    /\ UNCHANGED <<phase, game, heard, closing, page>>

Attached(p) == link[p] \in {"joining", "connected"}

\* The process restarts: sockets, seats and the grace are gone.
Restart ==
    /\ Fault("restart") /\ phase # "gone"
    /\ seat' = [p \in Players |-> "none"] /\ closing' = FALSE
    /\ lost' = [p \in Players |-> FALSE] /\ late' = [p \in Players |-> <<>>]
    /\ up' = [p \in Players |-> <<>>]
    /\ down' = [p \in Players |->
                  IF Attached(p) THEN Append(down[p], Plain("closed")) ELSE down[p]]
    /\ UNCHANGED <<phase, game, heard, page>>

-----------------------------------------------------------------------------
(* The page.                                                               *)

\* keepGameState: a snapshot without a game does not take the game away, and a
\* result is not replaced by a result.
KeepGameState(snapshot, current) ==
    IF /\ snapshot.phase # "waiting" /\ current.game # NoGame
       /\ \/ snapshot.game = NoGame
          \/ snapshot.phase = "finished" /\ current.phase = "finished"
    THEN [snapshot EXCEPT !.game = current.game] ELSE snapshot

Reducer(screen, msg) ==
    CASE msg.kind = "sync" -> KeepGameState([phase |-> msg.phase, game |-> msg.game], screen)
      [] msg.kind = "state" -> [screen EXCEPT !.game = msg.game]
      [] msg.kind = "over" -> [screen EXCEPT !.phase = "finished"]
      [] OTHER -> screen

\* The game screen, which counts the inputs, is left with the game.
Counted(p, screen) == IF screen.phase = "playing" THEN seq[p] ELSE 0

NeverCounted(p) == tries[p]   \* mutant: failed attempts are not counted
Attempt(p) == tries[p] + 1

Exhausted(n) == n > MaxAttempts

\* The reconnect policy when a socket closes; it gives up by parking the session,
\* which leaves the game screen.
Scheduled(p) ==
    LET n == Attempt(p) IN
    /\ link' = [link EXCEPT ![p] = IF Exhausted(n) THEN "parked" ELSE "retry"]
    /\ tries' = [tries EXCEPT ![p] = IF Exhausted(n) THEN 0 ELSE n]
    /\ seq' = [seq EXCEPT ![p] = IF Exhausted(n) THEN 0 ELSE @]

\* A message arrives.  Any snapshot means that the connection works; an end of the
\* session disconnects the page.
Receive(p) ==
    /\ down[p] # <<>>
    /\ LET msg == Head(down[p]) IN
       /\ shown' = [shown EXCEPT ![p] = Reducer(@, msg)]
       /\ down' = [down EXCEPT ![p] = IF msg.kind \in {"closed", "removed", "gone"} THEN <<>> ELSE Tail(@)]
       /\ up' = [up EXCEPT ![p] = IF msg.kind = "closed" THEN <<>> ELSE @]
       /\ IF msg.kind = "closed" THEN Scheduled(p)
          ELSE /\ link' = [link EXCEPT ![p] =
                             CASE msg.kind = "sync" -> "connected"
                               [] msg.kind \in {"removed", "gone"} -> msg.kind
                               [] OTHER -> @]
               /\ tries' = [tries EXCEPT ![p] = IF msg.kind = "sync" THEN 0 ELSE @]
               /\ seq' = [seq EXCEPT ![p] = Counted(p, shown'[p])]
    /\ UNCHANGED <<server, answer, lost, late, faults>>

Order == [waiting |-> 0, playing |-> 1, finished |-> 2]

AnswerWins(current) == "playing"   \* mutant: the response is taken as it is

\* preserveRealtimeGame: the response of START does not take back what messages have
\* brought already.
LaterPhase(current) == IF Order[current.phase] > Order["playing"] THEN current.phase ELSE "playing"

\* The response arrives, while the lobby is mounted; it also resumes a parked session.
Answer(p) ==
    /\ answer[p] /\ link[p] \notin {"removed", "gone"}
    /\ answer' = [answer EXCEPT ![p] = FALSE]
    /\ shown' = [shown EXCEPT ![p].phase = LaterPhase(shown[p])]
    /\ link' = [link EXCEPT ![p] = IF @ = "parked" THEN "dialling" ELSE @]
    /\ UNCHANGED <<server, tries, seq, wires, faults>>

\* The lobby has been left first, which aborts the request.
Aborted(p) ==
    /\ answer[p] /\ (shown[p].phase # "waiting" \/ link[p] \in {"parked", "removed", "gone"})
    /\ answer' = [answer EXCEPT ![p] = FALSE]
    /\ UNCHANGED <<server, link, tries, shown, seq, wires, faults>>

\* The player acts on the game screen; without an open socket the number is used up.
Act(p) ==
    /\ p \in Busy /\ shown[p].phase = "playing" /\ shown[p].game # NoGame
    /\ link[p] \in {"retry", "dialling", "joining", "connected"} /\ seq[p] < MaxInputs
    /\ seq' = [seq EXCEPT ![p] = @ + 1]
    /\ up' = IF Attached(p) THEN [up EXCEPT ![p] = Append(@, seq[p] + 1)] ELSE up
    /\ UNCHANGED <<server, link, tries, shown, answer, down, lost, late, faults>>

\* The page's connection becomes the lost one.
Loses(p) ==
    /\ ~lost[p]
    /\ lost' = [lost EXCEPT ![p] = Attached(p)]
    /\ late' = [late EXCEPT ![p] = up[p]]
    /\ seat' = IF seat[p] = "live" THEN [seat EXCEPT ![p] = "dead"] ELSE seat
    /\ up' = [up EXCEPT ![p] = <<>>] /\ down' = [down EXCEPT ![p] = <<>>]

\* The network fails.
Drop(p) ==
    /\ Attached(p) /\ Fault("drop")
    /\ Loses(p) /\ Scheduled(p)
    /\ UNCHANGED <<phase, game, heard, closing, shown, answer>>

\* The page is loaded again: the session is restored, and waits to be resumed.
Reload(p) ==
    /\ link[p] \notin {"parked", "removed", "gone"} /\ Fault("reload")
    /\ Loses(p)
    /\ link' = [link EXCEPT ![p] = "parked"] /\ tries' = [tries EXCEPT ![p] = 0]
    /\ seq' = [seq EXCEPT ![p] = 0] /\ answer' = [answer EXCEPT ![p] = FALSE]
    /\ UNCHANGED <<phase, game, heard, closing, shown>>

Dial(p) ==
    /\ UNCHANGED <<server, shown, seq, answer, lost, late, faults>>
    /\ \/ /\ link[p] = "retry" /\ link' = [link EXCEPT ![p] = "dialling"]
          /\ UNCHANGED <<tries, down, up>>
       \/ /\ link[p] = "dialling" /\ link' = [link EXCEPT ![p] = "joining"]
          /\ up' = [up EXCEPT ![p] = <<Join>>]
          /\ UNCHANGED <<tries, down>>

Refused(p) ==
    /\ link[p] = "dialling" /\ Scheduled(p)
    /\ UNCHANGED <<server, shown, answer, wires, faults>>

\* The player returns to a parked session.
Resume(p) ==
    /\ link[p] = "parked" /\ link' = [link EXCEPT ![p] = "dialling"]
    /\ UNCHANGED <<server, tries, shown, seq, answer, wires, faults>>

-----------------------------------------------------------------------------
Gateway ==
    \/ Move \/ Finish \/ ReturnToLobby \/ CloseRoom \/ Restart
    \/ \E p \in Players :
         Start(p) \/ Read(p) \/ ReadLate(p) \/ Closed(p) \/ Idle(p)

Pages ==
    \E p \in Players :
      \/ Receive(p) \/ Answer(p) \/ Aborted(p) \/ Act(p)
      \/ Drop(p) \/ Reload(p) \/ Dial(p) \/ Refused(p) \/ Resume(p)

Next == Gateway \/ Pages

Spec == Init /\ [][Next]_vars

\* Timers fire, a dial has an outcome, and what is sent is read or lost.
FairSpec ==
    /\ Spec
    /\ \A p \in Players :
         WF_vars(Dial(p) \/ Refused(p)) /\ WF_vars(Read(p)) /\ WF_vars(Receive(p))

-----------------------------------------------------------------------------
(* What a page and the gateway promise.                                    *)

\* The types; a page keeps within its attempts.
TypeOK ==
    /\ phase \in Phases /\ game \in GamesOf
    /\ heard \in [Players -> 0 .. MaxInputs]
    /\ seat \in [Players -> {"none", "offline", "dead", "live"}]
    /\ closing \in BOOLEAN
    /\ link \in [Players -> {"parked", "retry", "dialling", "joining", "connected",
                             "removed", "gone"}]
    /\ tries \in [Players -> 0 .. MaxAttempts]
    /\ shown \in [Players -> Screens] /\ seq \in [Players -> 0 .. MaxInputs]
    /\ answer \in [Players -> BOOLEAN]
    /\ down \in [Players -> Seq(Downs)] /\ up \in [Players -> Seq(0 .. MaxInputs)]
    /\ lost \in [Players -> BOOLEAN] /\ late \in [Players -> Seq(0 .. MaxInputs)]

\* Everything sent to the page has arrived.
Quiet(p) == link[p] = "connected" /\ down[p] = <<>> /\ ~answer[p]

\* A page that counts as connected has the seat of its socket, and when nothing is
\* under way to it, it shows the phase and the game of the room, whatever was lost,
\* repeated, late or restarted before; only a result may be an older one.
ScreenFollows ==
    /\ TypeOK
    /\ \A p \in Players : Quiet(p) =>
         /\ seat[p] = "live" /\ shown[p].phase = phase
         /\ phase # "finished" => shown[p].game = Stored

\* Who is in the roster is never told that the game has begun without them, neither
\* after a restart nor when an old connection's messages come late.
NobodyTurnedAway == \A p \in Players : link[p] # "removed"

\* A page leaves a result for a game only when that is a later game: neither a late
\* response nor a snapshot brings a finished game back.
ResultIsFinal ==
    [][\A p \in Players :
         shown[p].phase = "finished" /\ shown'[p].phase = "playing"
           => shown'[p].game.id > shown[p].game.id]_vars

\* A page does not try for ever: it is connected again, or has given up.
PagesSettle ==
    \A p \in Players :
      link[p] \in {"retry", "dialling", "joining"}
        ~> link[p] \in {"connected", "parked", "removed", "gone"}

\* The inputs of a connected game screen are newer than those the server has heard,
\* since one that is not gets no answer (frontend docs/llmwiki/davinci.md:87-88: the
\* screen does not make inputs that are ignored).
InputsAreNew ==
    \A p \in Players :
      Quiet(p) /\ up[p] = <<>> /\ ~lost[p] /\ phase = "playing" => seq[p] >= heard[p]

=============================================================================
