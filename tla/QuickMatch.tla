----------------------------- MODULE QuickMatch -----------------------------
(***************************************************************************)
(* Quick match of one game (room/quickMatchService.ts and                  *)
(* quickMatchRunner.ts): users wait in a queue, a request that completes a *)
(* group of PlayerCount seats them in a new room, and the polls of those   *)
(* matched start its game once all their sockets are open.                 *)
(*                                                                         *)
(* As in YachtTurns a request is a flow with one step per await or group   *)
(* of awaits on the same keys: with one flow a request runs to its end     *)
(* before the next one, with two they interleave.  The rest of the server  *)
(* (joining and leaving rooms, sockets, games, expiries) does to the keys  *)
(* quick match reads what its handlers do, each in one step.               *)
(***************************************************************************)
EXTENDS Integers, FiniteSets

CONSTANTS
    Users,
    Rooms,          \* room codes that may be drawn, each at most once
    PlayerCount,    \* max(2, minPlayers), the size of a match
    WaitTtl,        \* QUICK_MATCH_WAIT_TTL_SECONDS, in ticks
    Flows,          \* requests that may be under way at the same time
    Happens,        \* what happens besides, of the four in HappensAssumption
    MaxEntries,     \* bound: times somebody is put into the queue
    MaxFailures     \* bound: writes refused because the store is full

ASSUME SizesAssumption ==
    /\ PlayerCount \in Nat \ {0, 1}
    /\ WaitTtl \in Nat \ {0}
    /\ MaxEntries \in Nat /\ MaxFailures \in Nat

\* cancel: the wait is cancelled; refresh: sockets close outside a game; wander:
\* users open and leave rooms as they like, the latter while a match is being made
\* too; expiry: a session ends before its wait.
ASSUME HappensAssumption == Happens \subseteq {"cancel", "refresh", "wander", "expiry"}

NoRoom == 0
ASSUME RoomsAssumption == NoRoom \notin Rooms

NoFlow == "none"
ASSUME ManyAssumption == IsFiniteSet(Users) /\ IsFiniteSet(Flows) /\ NoFlow \notin Flows

VARIABLES
    ticket,    \* quick-match:user:{id}
    age,       \* the queue: ticks since a user entered it, Absent otherwise
    lock,      \* quick-match:lock, the flow that holds it
    session,   \* users whose session hash exists
    home,      \* roomId in the session hash
    phase, roster, marker,
    sockets,   \* users with an open socket in a room, by the registry
    closing,   \* closing of the empty room is reserved
    flow,
    entries, failures,
    autoStarts \* games quick match has started in a room

server == <<phase, roster, sockets, closing>>
people == <<session, home>>
counts == <<entries, failures, autoStarts>>
vars == <<ticket, age, lock, people, server, marker, flow, counts>>

-----------------------------------------------------------------------------
Absent == -1
Nobody == "nobody"

Ticket == [status : {"NONE", "WAITING", "MATCHED"}, room : Rooms \cup {NoRoom},
           left : 0 .. WaitTtl]
NoTicket == [status |-> "NONE", room |-> NoRoom, left |-> 0]

\* A matched ticket lives as long as its room: `left` counts for waiting only.
Waiting == [status |-> "WAITING", room |-> NoRoom, left |-> WaitTtl]
Matched(r) == [status |-> "MATCHED", room |-> r, left |-> 0]

Steps == {"idle", "look", "ticket", "queue", "lock", "pick", "create", "seat",
          "dequeue", "mark", "marker", "unlock", "rollback", "fail", "ready",
          "start", "unmark", "report", "unqueue", "forget"}

\* "entered" is the status an enter answers with.
Calls == {"enter", "entered", "status", "cancel"}
Asks(f) == flow[f].call \in {"status", "entered"}

Frame == [pc : Steps, call : Calls, who : Users \cup {Nobody},
          room : Rooms \cup {NoRoom}, players : SUBSET Users, seated : SUBSET Users]
NewFrame(pc, call, u) == [pc |-> pc, call |-> call, who |-> u,
                          room |-> NoRoom, players |-> {}, seated |-> {}]
NoFrame == NewFrame("idle", "status", Nobody)

TypeOK ==
    /\ ticket \in [Users -> Ticket]
    /\ age \in [Users -> Absent .. WaitTtl]
    /\ lock \in Flows \cup {NoFlow}
    /\ session \subseteq Users
    /\ home \in [Users -> Rooms \cup {NoRoom}]
    /\ phase \in [Rooms -> {"NEW", "LOBBY", "PLAYING", "FINISHED", "GONE"}]
    /\ roster \in [Rooms -> SUBSET Users]
    /\ sockets \in [Rooms -> SUBSET Users]
    /\ marker \subseteq Rooms /\ closing \subseteq Rooms
    /\ flow \in [Flows -> Frame]
    /\ entries \in 0 .. MaxEntries /\ failures \in 0 .. MaxFailures
    /\ autoStarts \in [Rooms -> Nat]

Open(r) == phase[r] \in {"LOBBY", "PLAYING", "FINISHED"}
IsIdle(f) == flow[f].pc = "idle"
AtRest == \A f \in Flows : IsIdle(f)
Queue == {u \in Users : age[u] # Absent}

Goto(f, pc) == flow' = [flow EXCEPT ![f].pc = pc]
Return(f) == flow' = [flow EXCEPT ![f] = NoFrame]
\* enter goes on as a status.
ThenStatus(f) == flow' = [flow EXCEPT ![f] = NewFrame("look", "entered", flow[f].who)]

\* CLOSE, and LEAVE of one of a roster: the room goes with the last.
Closed(r) ==
    /\ phase' = [phase EXCEPT ![r] = "GONE"]
    /\ roster' = [roster EXCEPT ![r] = {}]

LeaveRoster(u, r) ==
    IF roster[r] = {u} THEN Closed(r)
    ELSE roster' = [roster EXCEPT ![r] = @ \ {u}] /\ UNCHANGED phase

\* clearRoom: the room in the session and the ticket, whatever it stands for.
ClearRoom(u) ==
    /\ home' = [home EXCEPT ![u] = NoRoom]
    /\ ticket' = [ticket EXCEPT ![u] = NoTicket]

Init ==
    /\ ticket = [u \in Users |-> NoTicket]
    /\ age = [u \in Users |-> Absent]
    /\ lock = NoFlow
    /\ session = Users
    /\ home = [u \in Users |-> NoRoom]
    /\ phase = [r \in Rooms |-> "NEW"]
    /\ roster = [r \in Rooms |-> {}] /\ sockets = [r \in Rooms |-> {}]
    /\ marker = {} /\ closing = {}
    /\ flow = [f \in Flows |-> NoFrame]
    /\ entries = 0 /\ failures = 0
    /\ autoStarts = [r \in Rooms |-> 0]

-----------------------------------------------------------------------------
(* The three calls and what they begin with: statusOf.                     *)

Request(f, u, call) ==
    /\ IsIdle(f) /\ \A g \in Flows : IsIdle(g) \/ flow[g].who # u
    /\ u \in session
    /\ flow' = [flow EXCEPT ![f] = NewFrame("look", call, u)]
    /\ UNCHANGED <<ticket, age, lock, people, server, marker, counts>>

Poll(f, u) == Request(f, u, "status")
Cancel(f, u) == "cancel" \in Happens /\ Request(f, u, "cancel")

Entering == {f \in Flows : flow[f].call = "enter"
                           /\ flow[f].pc \in {"look", "ticket", "queue"}}
Enter(f, u) ==
    /\ entries + Cardinality(Entering) < MaxEntries
    /\ Request(f, u, "enter")

\* The ticket of a room that is gone or has finished is cleared on the spot, and
\* the seat in a finished room is given up.
Outlived(u) == ticket[u].status = "MATCHED"
               /\ phase[ticket[u].room] \notin {"LOBBY", "PLAYING"}

Heal(u) ==
    LET r == ticket[u].room IN
    /\ Outlived(u)
    /\ ClearRoom(u)
    /\ IF phase[r] = "FINISHED" /\ u \in roster[r] THEN LeaveRoster(u, r)
       ELSE UNCHANGED <<phase, roster>>

\* What the call does when statusOf has answered s and the session names room r.
Refused(call, s, r) == call = "enter" /\ s = "NONE" /\ r # NoRoom   \* already_in_room

Continue(f, s, r) ==
    \/ /\ flow[f].call = "enter" /\ s = "NONE" /\ r = NoRoom
       /\ Goto(f, "ticket")
    \/ /\ Asks(f) /\ s = "MATCHED"
       /\ flow' = [flow EXCEPT ![f].pc = "ready", ![f].room = ticket[flow[f].who].room]
    \/ /\ Asks(f) /\ s # "MATCHED"
       /\ Goto(f, "report")
    \/ /\ flow[f].call = "cancel" /\ s = "WAITING"
       /\ Goto(f, "unqueue")
    \/ /\ \/ flow[f].call = "enter" /\ s # "NONE"
          \/ Refused(flow[f].call, s, r)
          \/ flow[f].call = "cancel" /\ s # "WAITING"
       /\ Return(f)

Look(f) ==
    LET u == flow[f].who IN
    /\ flow[f].pc = "look"
    /\ \/ Heal(u) /\ Continue(f, "NONE", NoRoom)
       \/ /\ ~Outlived(u)
          /\ Continue(f, ticket[u].status, home[u])
          /\ UNCHANGED <<ticket, home, phase, roster>>
    /\ UNCHANGED <<age, lock, session, sockets, closing, marker, counts>>

-----------------------------------------------------------------------------
(* enter                                                                   *)

PutTicket(f) ==
    /\ flow[f].pc = "ticket"
    /\ ticket' = [ticket EXCEPT ![flow[f].who] = Waiting]
    /\ Goto(f, "queue")
    /\ UNCHANGED <<age, lock, people, server, marker, counts>>

Enqueue(f) ==
    /\ flow[f].pc = "queue"
    /\ age' = [age EXCEPT ![flow[f].who] = 0]
    /\ entries' = entries + 1
    /\ Goto(f, "lock")
    /\ UNCHANGED <<ticket, lock, people, server, marker, failures, autoStarts>>

LockStolen(f) ==   \* mutant
    /\ flow[f].pc = "lock"
    /\ lock' = f /\ Goto(f, "pick")
    /\ UNCHANGED <<ticket, age, people, server, marker, counts>>

\* match: whoever does not get the lock goes home to status without a word.
Lock(f) ==
    /\ flow[f].pc = "lock"
    /\ IF lock = NoFlow THEN lock' = f /\ Goto(f, "pick")
       ELSE ThenStatus(f) /\ UNCHANGED lock
    /\ UNCHANGED <<ticket, age, people, server, marker, counts>>

Fresh == {u \in Queue : age[u] < WaitTtl}

Enough == Cardinality(Fresh) >= PlayerCount

\* The PlayerCount that wait longest; the order of equals is left open.
Longest(S) ==
    /\ S \subseteq Fresh /\ Cardinality(S) = PlayerCount
    /\ \A u \in S, v \in Fresh \ S : age[u] >= age[v]

NobodyEvicted(S) == {}   \* mutant
Evicted(S) == S \ session

\* Old entries are swept out.  A candidate without a session costs the others
\* this match, and itself its place.
Pick(f) ==
    /\ flow[f].pc = "pick"
    /\ \/ /\ ~Enough
          /\ age' = [u \in Users |-> IF u \in Fresh THEN age[u] ELSE Absent]
          /\ Goto(f, "unlock")
          /\ UNCHANGED ticket
       \/ \E S \in SUBSET Fresh :
          /\ Enough /\ Longest(S)
          /\ age' = [u \in Users |-> IF u \in Fresh \ Evicted(S) THEN age[u] ELSE Absent]
          /\ ticket' = [u \in Users |-> IF u \in Evicted(S) THEN NoTicket ELSE ticket[u]]
          /\ IF S \subseteq session
             THEN flow' = [flow EXCEPT ![f].pc = "create", ![f].players = S]
             ELSE Goto(f, "unlock")
    /\ UNCHANGED <<lock, people, server, marker, counts>>

Create(f) ==
    /\ flow[f].pc = "create"
    /\ \E r \in Rooms :
        /\ phase[r] = "NEW"
        /\ phase' = [phase EXCEPT ![r] = "LOBBY"]
        /\ flow' = [flow EXCEPT ![f].pc = "seat", ![f].room = r]
    /\ UNCHANGED <<ticket, age, lock, people, roster, sockets, closing, marker, counts>>

\* join and assignRoom, one player after the other, while the room takes them.
Seat(f) ==
    LET r == flow[f].room IN
    /\ flow[f].pc = "seat"
    /\ IF phase[r] = "LOBBY"
       THEN \E u \in flow[f].players \ flow[f].seated :
            /\ roster' = [roster EXCEPT ![r] = @ \cup {u}]
            /\ home' = [home EXCEPT ![u] = r]
            /\ flow' = [flow EXCEPT
                 ![f].seated = @ \cup {u},
                 ![f].pc = IF flow[f].seated \cup {u} = flow[f].players
                           THEN "dequeue" ELSE "seat"]
       ELSE Goto(f, "rollback") /\ UNCHANGED <<roster, home>>
    /\ UNCHANGED <<ticket, age, lock, session, phase, sockets, closing, marker, counts>>

\* A store at its limit refuses what would make a new key, before it writes: the
\* request ends there, after the way back its step has.
StoreFull(f) ==
    LET at == flow[f].pc IN
    /\ failures < MaxFailures
    /\ failures' = failures + 1
    /\ \/ at \in {"ticket", "lock"} /\ Return(f)
       \/ at = "queue" /\ Queue = {} /\ Return(f)
       \/ at \in {"create", "marker"} /\ Goto(f, "fail")
       \/ at = "seat" /\ flow[f].seated = {} /\ Goto(f, "rollback")
    /\ UNCHANGED <<ticket, age, lock, people, server, marker, entries, autoStarts>>

\* The room is closed again, the sessions keep naming it.
Rollback(f) ==
    /\ flow[f].pc = "rollback"
    /\ Closed(flow[f].room)
    /\ Goto(f, "fail")
    /\ UNCHANGED <<ticket, age, lock, people, sockets, closing, marker, counts>>

Dequeue(f) ==
    /\ flow[f].pc = "dequeue"
    /\ age' = [u \in Users |-> IF u \in flow[f].players THEN Absent ELSE age[u]]
    /\ Goto(f, "mark")
    /\ UNCHANGED <<ticket, lock, people, server, marker, counts>>

MarkMatched(f) ==
    /\ flow[f].pc = "mark"
    /\ ticket' = [u \in Users |-> IF u \in flow[f].players THEN Matched(flow[f].room)
                                  ELSE ticket[u]]
    /\ Goto(f, "marker")
    /\ UNCHANGED <<age, lock, people, server, marker, counts>>

SetMarker(f) ==
    /\ flow[f].pc = "marker"
    /\ marker' = marker \cup {flow[f].room}
    /\ Goto(f, "unlock")
    /\ UNCHANGED <<ticket, age, lock, people, server, counts>>

\* UNLOCK_IF_OWNER; an enter goes on with status unless the match threw.
Unlock(f) ==
    /\ flow[f].pc \in {"unlock", "fail"}
    /\ lock' = IF lock = f THEN NoFlow ELSE lock
    /\ IF flow[f].pc = "fail" THEN Return(f) ELSE ThenStatus(f)
    /\ UNCHANGED <<ticket, age, people, server, marker, counts>>

-----------------------------------------------------------------------------
(* status: startIfReady, and the answer.                                   *)

MembersReady(r) ==   \* mutant
    phase[r] = "LOBBY" /\ Cardinality(roster[r]) = PlayerCount

MoreThanAll(r) ==   \* mutant: who is counted must be more than the match has
    phase[r] = "LOBBY" /\ Cardinality(roster[r]) > PlayerCount
    /\ roster[r] \subseteq sockets[r]

AllHere(r) ==
    phase[r] = "LOBBY" /\ Cardinality(roster[r]) = PlayerCount
    /\ roster[r] \subseteq sockets[r]

StartIfReady(f) ==
    LET r == flow[f].room IN
    /\ flow[f].pc = "ready"
    /\ \/ r \in marker /\ phase[r] = "PLAYING" /\ Goto(f, "unmark")
       \/ r \in marker /\ AllHere(r) /\ Goto(f, "start")
       \/ /\ r \in marker => phase[r] # "PLAYING" /\ ~AllHere(r)
          /\ Goto(f, "report")
    /\ UNCHANGED <<ticket, age, lock, people, server, marker, counts>>

\* GameLifecycle.start; the loser of a race is content if the game runs.
Start(f) ==
    LET r == flow[f].room IN
    /\ flow[f].pc = "start"
    /\ IF phase[r] = "LOBBY" /\ roster[r] # {}
       THEN /\ phase' = [phase EXCEPT ![r] = "PLAYING"]
            /\ autoStarts' = [autoStarts EXCEPT ![r] = @ + 1]
            /\ Goto(f, "unmark")
       ELSE /\ IF phase[r] = "PLAYING" THEN Goto(f, "report") ELSE Return(f)
            /\ UNCHANGED <<phase, autoStarts>>
    /\ UNCHANGED <<ticket, age, lock, people, roster, sockets, closing, marker,
                   entries, failures>>

Unmark(f) ==
    /\ flow[f].pc = "unmark"
    /\ marker' = marker \ {flow[f].room}
    /\ Goto(f, "report")
    /\ UNCHANGED <<ticket, age, lock, people, server, counts>>

\* PLAYING is told once: the ticket is spent.
Spends(u) == ticket[u].status = "MATCHED" /\ phase[ticket[u].room] = "PLAYING"

Report(f) ==
    LET u == flow[f].who IN
    /\ flow[f].pc = "report"
    /\ \/ Heal(u)
       \/ /\ ~Outlived(u)
          /\ ticket' = IF Spends(u) THEN [ticket EXCEPT ![u] = NoTicket] ELSE ticket
          /\ UNCHANGED <<home, phase, roster>>
    /\ Return(f)
    /\ UNCHANGED <<age, lock, session, sockets, closing, marker, counts>>

(* cancel                                                                  *)

TicketOnly(f) ==   \* mutant
    /\ flow[f].pc = "unqueue"
    /\ Goto(f, "forget")
    /\ UNCHANGED <<ticket, age, lock, people, server, marker, counts>>

Unqueue(f) ==
    /\ flow[f].pc = "unqueue"
    /\ age' = [age EXCEPT ![flow[f].who] = Absent]
    /\ Goto(f, "forget")
    /\ UNCHANGED <<ticket, lock, people, server, marker, counts>>

Forget(f) ==
    /\ flow[f].pc = "forget"
    /\ ticket' = [ticket EXCEPT ![flow[f].who] = NoTicket]
    /\ Return(f)
    /\ UNCHANGED <<age, lock, people, server, marker, counts>>

-----------------------------------------------------------------------------
(* The rest of the server, between two requests.                           *)

SomeIdle == \E f \in Flows : IsIdle(f)
Elsewhere == UNCHANGED <<age, lock, session, flow, counts>>

\* room.join over a socket: for the roster only; back in an empty lobby it calls
\* off the closing.
Connect(u, r) ==
    /\ SomeIdle
    /\ u \in session /\ Open(r) /\ u \in roster[r] \ sockets[r]
    /\ sockets' = [sockets EXCEPT ![r] = @ \cup {u}]
    /\ closing' = IF phase[r] = "PLAYING" THEN closing ELSE closing \ {r}
    /\ UNCHANGED <<ticket, home, phase, roster, marker>> /\ Elsewhere

\* A socket closes: in a game that is all; elsewhere session and ticket go, but
\* the roster still has the seat.
Disconnect(u, r) ==
    /\ SomeIdle
    /\ u \in sockets[r]
    /\ phase[r] = "PLAYING" \/ "refresh" \in Happens
    /\ sockets' = [sockets EXCEPT ![r] = @ \ {u}]
    /\ IF phase[r] = "PLAYING" THEN UNCHANGED <<home, ticket, closing>>
       ELSE /\ ClearRoom(u)
            /\ closing' = IF sockets'[r] = {} THEN closing \cup {r} ELSE closing
    /\ UNCHANGED <<phase, roster, marker>> /\ Elsewhere

CloseEmpty(r) ==
    /\ SomeIdle
    /\ r \in closing
    /\ closing' = closing \ {r}
    /\ IF sockets[r] = {} THEN Closed(r) ELSE UNCHANGED <<phase, roster>>
    /\ UNCHANGED <<ticket, home, sockets, marker>> /\ Elsewhere

\* DELETE /rooms/{code}/players/me.  A wanderer's socket stays open in the lobby.
Leave(u, r) ==
    /\ SomeIdle
    /\ u \in session /\ Open(r) /\ u \in roster[r]
    /\ \/ "wander" \in Happens
       \/ AtRest /\ (phase[r] # "LOBBY" \/ u \notin sockets[r])
    /\ LeaveRoster(u, r)
    /\ ClearRoom(u)
    /\ sockets' = IF phase[r] = "PLAYING" THEN [sockets EXCEPT ![r] = @ \ {u}]
                  ELSE sockets
    /\ UNCHANGED <<closing, marker>> /\ Elsewhere

\* POST /rooms, for a new room: nothing asks whether the user waits in a queue.
OpenRoom(u, r) ==
    /\ SomeIdle
    /\ "wander" \in Happens
    /\ u \in session /\ phase[r] = "NEW"
    /\ phase' = [phase EXCEPT ![r] = "LOBBY"]
    /\ roster' = [roster EXCEPT ![r] = {u}]
    /\ home' = [home EXCEPT ![u] = r]
    /\ UNCHANGED <<ticket, sockets, closing, marker>> /\ Elsewhere

\* POST .../start by the host, who need not wait for everybody's socket.
HostStarts(r) ==
    /\ SomeIdle
    /\ phase[r] = "LOBBY" /\ roster[r] # {}
    /\ phase' = [phase EXCEPT ![r] = "PLAYING"]
    /\ UNCHANGED <<ticket, home, roster, sockets, closing, marker>> /\ Elsewhere

\* A game ends, is left by a player who stayed away too long, or goes back to
\* the lobby.
GameEnds(r) ==
    /\ SomeIdle
    /\ phase[r] = "PLAYING"
    /\ phase' = [phase EXCEPT ![r] = "FINISHED"]
    /\ UNCHANGED <<ticket, home, roster, sockets, closing, marker>> /\ Elsewhere

RemoveAbsent(u, r) ==
    /\ SomeIdle
    /\ phase[r] = "PLAYING" /\ u \in roster[r] \ sockets[r]
    /\ LeaveRoster(u, r)
    /\ UNCHANGED <<ticket, home, sockets, closing, marker>> /\ Elsewhere

ReturnToLobby(r) ==
    /\ SomeIdle
    /\ phase[r] = "FINISHED"
    /\ phase' = [phase EXCEPT ![r] = "LOBBY"]
    /\ UNCHANGED <<ticket, home, roster, sockets, closing, marker>> /\ Elsewhere

RunsOut(u) == ticket[u].status = "WAITING" /\ ticket[u].left = 1

\* A tick of the wait: waiting tickets expire, queue entries only grow old.
Tick ==
    LET aged == [u \in Users |-> IF age[u] \in 0 .. WaitTtl - 1 THEN age[u] + 1 ELSE age[u]]
        left == [u \in Users |->
                   IF RunsOut(u) THEN NoTicket
                   ELSE IF ticket[u].status = "WAITING"
                        THEN [ticket[u] EXCEPT !.left = @ - 1] ELSE ticket[u]]
    IN  /\ AtRest
        /\ <<aged, left>> # <<age, ticket>>
        /\ age' = aged /\ ticket' = left
        /\ UNCHANGED <<lock, people, server, marker, flow, counts>>

\* The room and its marker run out together.
RoomExpires(r) ==
    /\ AtRest
    /\ Open(r)
    /\ Closed(r)
    /\ marker' = marker \ {r}
    /\ UNCHANGED <<ticket, home, sockets, closing>> /\ Elsewhere

\* Never in a room: assignRoom renews the session for far longer than a room lives.
SessionExpires(u) ==
    /\ AtRest
    /\ "expiry" \in Happens
    /\ u \in session /\ home[u] = NoRoom
    /\ session' = session \ {u}
    /\ UNCHANGED <<ticket, age, lock, home, server, marker, flow, counts>>

-----------------------------------------------------------------------------
Step(f) ==
    \/ Look(f) \/ PutTicket(f) \/ Enqueue(f) \/ Lock(f) \/ Pick(f)
    \/ Create(f) \/ Seat(f) \/ StoreFull(f) \/ Rollback(f) \/ Dequeue(f) \/ MarkMatched(f)
    \/ SetMarker(f) \/ Unlock(f)
    \/ StartIfReady(f) \/ Start(f) \/ Unmark(f) \/ Report(f)
    \/ Unqueue(f) \/ Forget(f)

Environment ==
    \/ \E u \in Users, r \in Rooms :
        \/ Connect(u, r) \/ Disconnect(u, r)
        \/ Leave(u, r) \/ OpenRoom(u, r) \/ RemoveAbsent(u, r)
    \/ \E r \in Rooms :
        \/ CloseEmpty(r) \/ HostStarts(r) \/ GameEnds(r) \/ ReturnToLobby(r)
        \/ RoomExpires(r)
    \/ \E u \in Users : SessionExpires(u)
    \/ Tick

Next ==
    \/ \E f \in Flows :
        \/ Step(f)
        \/ \E u \in Users : Enter(f, u) \/ Poll(f, u) \/ Cancel(f, u)
    \/ Environment

Spec == Init /\ [][Next]_vars

\* Requests go on, and the page of every user polls.
Fairness ==
    /\ \A f \in Flows : WF_vars(Step(f))
    /\ \A u \in Users : SF_vars(\E f \in Flows : Poll(f, u))

FairSpec == Spec /\ Fairness

-----------------------------------------------------------------------------
(* What must hold.                                                         *)

Seats(u) == {r \in Rooms : Open(r) /\ u \in roster[r]}

\* At most PlayerCount - 1 people are ever left waiting: the request that makes
\* the group complete matches it, or loses a ghost in trying (match, identitiesOf).
\* With requests that interleave it is what quickMatchRunner.ts:54 says of the loser
\* of the lock: "그쪽이 내 큐 항목까지 함께 본다" (the holder sees my entry too).
NobodyWaitsInVain == AtRest => Cardinality(Fresh) < PlayerCount

\* The two records of a wait agree: who is told WAITING can be picked, and who can
\* be picked is told (enter, cancel, the expiry of the ticket and the score window).
QueueMatchesTickets ==
    AtRest => \A u \in Users : ticket[u].status = "WAITING" <=> u \in Fresh

\* A matched ticket names an open room where its owner has a seat, or one that
\* statusOf will clear (markMatched, clearRoom, statusOf).
TicketsHaveSeats ==
    AtRest => \A u \in Users :
        ticket[u].status = "MATCHED" =>
            Outlived(u) \/ phase[ticket[u].room] = "PLAYING" \/ home[u] = ticket[u].room

\* What a poll answers is true, for the waiting and for the matched.
TicketsAreTrue == TypeOK /\ QueueMatchesTickets /\ TicketsHaveSeats

\* Nobody is matched into a second room while a seat in the first is theirs: the
\* lock and the queue hand every waiter to one match (match).
SeatedOnce == \A u \in Users : Cardinality(Seats(u)) <= 1

\* Only people with an open socket are drawn into a game that starts by itself
\* (startIfReady: sockets, not the roster, decide).
NobodyDraggedIn ==
    [][\A r \in Rooms : autoStarts'[r] > autoStarts[r] => roster[r] \subseteq sockets[r]]_vars

\* A match starts by itself once: back in the lobby after the game, the polls of
\* a player who still holds a ticket do not start a second one (the marker).
AutoStartsOnce == \A r \in Rooms : autoStarts[r] <= 1

\* Once, and with everybody there.
StartsAreWhole == []AutoStartsOnce /\ NobodyDraggedIn

\* A match whose sockets are all open does not stay in the lobby while one of its
\* people still has the ticket: some poll starts it (status, startIfReady).
\* quickMatchRunner.ts:131: "다음 폴이 다시 시도한다" (the next poll tries again).
ReadyMatchesStart ==
    \A r \in Rooms :
        []<>~(/\ r \in marker /\ phase[r] = "LOBBY"
              /\ Cardinality(roster[r]) = PlayerCount /\ roster[r] \subseteq sockets[r]
              /\ \E u \in roster[r] : ticket[u].status = "MATCHED" /\ ticket[u].room = r)

=============================================================================
