-------------------------- MODULE QuickMatch_proofs --------------------------
(***************************************************************************)
(* What quick match owes its users, for any number of users, rooms, waits  *)
(* and entries: with any number of requests that interleave nobody has two *)
(* seats, and with requests that run to their end nobody waits in vain,    *)
(* every answer is true, and a match starts once and with everybody there. *)
(* The first part says what the steps do to a request, the second is about *)
(* seats, the third about the queue and the fourth about starts.           *)
(***************************************************************************)
EXTENDS QuickMatch, FiniteSetTheorems, TLAPS

-----------------------------------------------------------------------------
(* Requests.                                                               *)

LEMMA FrameFacts ==
    ASSUME NEW x \in Frame
    PROVE  /\ x.pc \in Steps /\ x.call \in Calls /\ x.who \in Users \cup {Nobody}
           /\ x.room \in Rooms \cup {NoRoom}
           /\ x.players \in SUBSET Users /\ x.seated \in SUBSET Users
  BY DEF Frame

LEMMA NewFrameFacts ==
    ASSUME NEW pc \in Steps, NEW call \in Calls, NEW u \in Users \cup {Nobody}
    PROVE  /\ NewFrame(pc, call, u) \in Frame
           /\ NewFrame(pc, call, u).pc = pc /\ NewFrame(pc, call, u).call = call
           /\ NewFrame(pc, call, u).who = u /\ NewFrame(pc, call, u).room = NoRoom
           /\ NewFrame(pc, call, u).players = {} /\ NewFrame(pc, call, u).seated = {}
  BY DEF NewFrame, Frame

\* The request of f goes on as x, the others do not move.
Becomes(f, x) ==
    /\ flow' \in [Flows -> Frame] /\ x \in Frame /\ flow'[f] = x
    /\ \A g \in Flows : g # f => flow'[g] = flow[g]

LEMMA Moves ==
    ASSUME flow \in [Flows -> Frame], NEW f \in Flows, NEW x \in Frame,
           flow' = [flow EXCEPT ![f] = x]
    PROVE  Becomes(f, x)
  BY DEF Becomes

At(f, pc) == [flow[f] EXCEPT !.pc = pc]

LEMMA AtFacts ==
    ASSUME flow \in [Flows -> Frame], NEW f \in Flows, NEW pc \in Steps
    PROVE  /\ At(f, pc) \in Frame /\ At(f, pc).pc = pc
           /\ At(f, pc).call = flow[f].call /\ At(f, pc).who = flow[f].who
           /\ At(f, pc).room = flow[f].room
           /\ At(f, pc).players = flow[f].players /\ At(f, pc).seated = flow[f].seated
<1>1. flow[f] \in Frame OBVIOUS
<1> QED BY <1>1 DEF At, Frame

LEMMA Goes ==
    ASSUME flow \in [Flows -> Frame], NEW f \in Flows, NEW pc \in Steps, Goto(f, pc)
    PROVE  Becomes(f, At(f, pc))
<1>1. flow' = [flow EXCEPT ![f] = At(f, pc)] BY DEF Goto, At
<1> QED BY <1>1, AtFacts, Moves

LEMMA Returns ==
    ASSUME flow \in [Flows -> Frame], NEW f \in Flows, Return(f)
    PROVE  Becomes(f, NoFrame) /\ NoFrame.pc = "idle"
<1>1. NoFrame \in Frame /\ NoFrame.pc = "idle"
  BY NewFrameFacts DEF NoFrame, Steps, Calls
<1> QED BY <1>1, Moves DEF Return

LEMMA GoesToStatus ==
    ASSUME flow \in [Flows -> Frame], NEW f \in Flows, ThenStatus(f)
    PROVE  Becomes(f, NewFrame("look", "entered", flow[f].who))
<1>1. flow[f].who \in Users \cup {Nobody} BY FrameFacts
<1>2. NewFrame("look", "entered", flow[f].who) \in Frame
  BY <1>1, NewFrameFacts DEF Steps, Calls
<1> QED BY <1>2, Moves DEF ThenStatus

\* x asks what the request of f asks, with these other fields.
Like(f, x, pc, r, P, S) ==
    /\ x \in Frame /\ x.pc = pc
    /\ x.call = flow[f].call /\ x.who = flow[f].who
    /\ x.room = r /\ x.players = P /\ x.seated = S

LEMMA Likeness ==
    ASSUME flow \in [Flows -> Frame], NEW f \in Flows, NEW pc \in Steps, NEW x
    PROVE  /\ \A r \in Rooms \cup {NoRoom} : x = [At(f, pc) EXCEPT !.room = r] =>
                Like(f, x, pc, r, flow[f].players, flow[f].seated)
           /\ \A P \in SUBSET Users : x = [At(f, pc) EXCEPT !.players = P] =>
                Like(f, x, pc, flow[f].room, P, flow[f].seated)
           /\ \A S \in SUBSET Users : x = [At(f, pc) EXCEPT !.seated = S] =>
                Like(f, x, pc, flow[f].room, flow[f].players, S)
<1>1. At(f, pc) \in Frame BY AtFacts
<1>2. ASSUME NEW r \in Rooms \cup {NoRoom}, x = [At(f, pc) EXCEPT !.room = r]
      PROVE  Like(f, x, pc, r, flow[f].players, flow[f].seated)
  BY <1>1, <1>2, AtFacts DEF Frame, Like
<1>3. ASSUME NEW P \in SUBSET Users, x = [At(f, pc) EXCEPT !.players = P]
      PROVE  Like(f, x, pc, flow[f].room, P, flow[f].seated)
  BY <1>1, <1>3, AtFacts DEF Frame, Like
<1>4. ASSUME NEW S \in SUBSET Users, x = [At(f, pc) EXCEPT !.seated = S]
      PROVE  Like(f, x, pc, flow[f].room, flow[f].players, S)
  BY <1>1, <1>4, AtFacts DEF Frame, Like
<1> QED BY <1>2, <1>3, <1>4

-----------------------------------------------------------------------------
(* Types.                                                                  *)

\* Somebody asks, only an enter goes to the queue, and a match has made its room
\* when it seats.
HasRoom(pc) == pc \in {"seat", "rollback", "dequeue", "mark", "marker"}
Sound(x) ==
    /\ x.pc # "idle" => x.who \in Users
    /\ HasRoom(x.pc) => x.room \in Rooms
    /\ x.pc \in {"ticket", "queue"} => x.call = "enter"

\* What the types need: a waiting ticket has time left, requests are sound, and the
\* entries that are under way are counted.
TypeInv ==
    /\ TypeOK
    /\ \A f \in Flows : Sound(flow[f])
    /\ \A u \in Users : ticket[u].status = "WAITING" => ticket[u].left >= 1
    /\ entries + Cardinality(Entering) <= MaxEntries

Enters(x) == x.call = "enter" /\ x.pc \in {"look", "ticket", "queue"}

LEMMA EnteringChanges ==
    ASSUME NEW f \in Flows, NEW x, Becomes(f, x)
    PROVE  /\ Cardinality(Entering) \in Nat /\ Cardinality(Entering)' \in Nat
           /\ ~Enters(x) => Cardinality(Entering)' <= Cardinality(Entering)
           /\ Enters(flow[f]) => Cardinality(Entering)' <= Cardinality(Entering)
           /\ Enters(flow[f]) /\ ~Enters(x) => Cardinality(Entering)' = Cardinality(Entering) - 1
           /\ Cardinality(Entering)' <= Cardinality(Entering) + 1
<1>1. /\ Entering = {g \in Flows : Enters(flow[g])} /\ Entering' = {g \in Flows : Enters(flow'[g])}
  BY DEF Entering, Enters
<1>2. flow'[f] = x /\ \A g \in Flows : g # f => flow'[g] = flow[g]
  BY DEF Becomes
<1> DEFINE A == Entering
           B == Entering'
<1>3. IsFiniteSet(A) /\ IsFiniteSet(B)
  <2>1. A \subseteq Flows /\ B \subseteq Flows BY <1>1
  <2> QED BY <2>1, ManyAssumption, FS_Subset
<1>4. Cardinality(A) \in Nat /\ Cardinality(B) \in Nat
  BY <1>3, FS_CardinalityType
<1>5. ASSUME ~Enters(x) \/ Enters(flow[f]) PROVE Cardinality(B) <= Cardinality(A)
  <2>1. B \subseteq A BY <1>1, <1>2, <1>5
  <2> QED BY <1>3, <2>1, FS_Subset
<1>6. ASSUME Enters(flow[f]), ~Enters(x) PROVE Cardinality(B) = Cardinality(A) - 1
  <2>1. B = A \ {f} /\ f \in A BY <1>1, <1>2, <1>6
  <2> QED BY <1>3, <2>1, FS_RemoveElement
<1>7. Cardinality(B) <= Cardinality(A) + 1
  <2>1. B \subseteq A \cup {f} BY <1>1, <1>2
  <2>2. IsFiniteSet(A \cup {f}) /\ Cardinality(A \cup {f}) <= Cardinality(A) + 1
    <3>1. IsFiniteSet(A \cup {f}) /\ (Cardinality(A \cup {f}) = Cardinality(A) \/ Cardinality(A \cup {f}) = Cardinality(A) + 1)
      BY <1>3, FS_AddElement
    <3> QED BY <1>4, <3>1
  <2>3. Cardinality(B) <= Cardinality(A \cup {f})
    BY <2>1, <2>2, FS_Subset
  <2>4. Cardinality(A \cup {f}) \in Nat BY <2>2, FS_CardinalityType
  <2> QED BY <1>4, <2>2, <2>3, <2>4
<1> QED BY <1>4, <1>5, <1>6, <1>7

LEMMA TicketFacts ==
    /\ NoTicket \in Ticket /\ NoTicket.status = "NONE"
    /\ Waiting \in Ticket /\ Waiting.status = "WAITING" /\ Waiting.left = WaitTtl
    /\ \A r \in Rooms \cup {NoRoom} :
         Matched(r) \in Ticket /\ Matched(r).status = "MATCHED" /\ Matched(r).room = r
    /\ \A t \in Ticket : /\ t.status \in {"NONE", "WAITING", "MATCHED"}
                         /\ t.room \in Rooms \cup {NoRoom} /\ t.left \in 0 .. WaitTtl
    /\ \A t \in Ticket : t.left >= 1 => /\ [t EXCEPT !.left = @ - 1] \in Ticket
                                        /\ [t EXCEPT !.left = @ - 1].status = t.status
                                        /\ [t EXCEPT !.left = @ - 1].room = t.room
                                        /\ [t EXCEPT !.left = @ - 1].left = t.left - 1
<1>1. \A t \in Ticket : t.left >= 1 => t.left - 1 \in 0 .. WaitTtl
  BY SizesAssumption DEF Ticket
<1> QED BY <1>1, SizesAssumption DEF NoTicket, Waiting, Matched, Ticket

\* What a room's closing, a leaver, or clearRoom does to the types.
LEMMA RoomTypes ==
    ASSUME TypeOK, NEW u \in Users, NEW r
    PROVE  /\ Closed(r) \/ LeaveRoster(u, r) =>
                /\ phase' \in [Rooms -> {"NEW", "LOBBY", "PLAYING", "FINISHED", "GONE"}]
                /\ roster' \in [Rooms -> SUBSET Users]
           /\ ClearRoom(u) => /\ home' \in [Users -> Rooms \cup {NoRoom}]
                              /\ ticket' \in [Users -> Ticket]
<1>1. Closed(r) => /\ phase' \in [Rooms -> {"NEW", "LOBBY", "PLAYING", "FINISHED", "GONE"}]
                   /\ roster' \in [Rooms -> SUBSET Users]
  BY DEF Closed, TypeOK
<1>2. LeaveRoster(u, r) => /\ phase' \in [Rooms -> {"NEW", "LOBBY", "PLAYING", "FINISHED", "GONE"}]
                           /\ roster' \in [Rooms -> SUBSET Users]
  BY <1>1 DEF LeaveRoster, TypeOK
<1>3. ClearRoom(u) => home' \in [Users -> Rooms \cup {NoRoom}]
  BY DEF ClearRoom, TypeOK
<1>4. ClearRoom(u) => ticket' \in [Users -> Ticket]
  BY TicketFacts DEF ClearRoom, TypeOK
<1> QED BY <1>1, <1>2, <1>3, <1>4

\* What of the tickets the types need, when one is dropped.
LEMMA DropsTicket ==
    ASSUME TypeInv, NEW u \in Users,
           ticket' = [ticket EXCEPT ![u] = NoTicket] \/ ticket' = ticket
    PROVE  /\ ticket' \in [Users -> Ticket]
           /\ \A v \in Users : ticket'[v].status = "WAITING" => ticket'[v].left >= 1
<1>1. ticket \in [Users -> Ticket] BY DEF TypeInv, TypeOK
<1> QED BY <1>1, TicketFacts DEF TypeInv

LEMMA HealTypes ==
    ASSUME TypeInv, NEW u \in Users, Heal(u)
    PROVE  /\ phase' \in [Rooms -> {"NEW", "LOBBY", "PLAYING", "FINISHED", "GONE"}]
           /\ roster' \in [Rooms -> SUBSET Users]
           /\ home' \in [Users -> Rooms \cup {NoRoom}]
           /\ ticket' \in [Users -> Ticket]
           /\ \A v \in Users : ticket'[v].status = "WAITING" => ticket'[v].left >= 1
<1>1. TypeOK BY DEF TypeInv
<1>2. ClearRoom(u) /\ ticket' = [ticket EXCEPT ![u] = NoTicket]
  BY DEF Heal, ClearRoom
<1>3. LeaveRoster(u, ticket[u].room) \/ UNCHANGED <<phase, roster>>
  BY DEF Heal
<1> QED BY <1>1, <1>2, <1>3, RoomTypes, DropsTicket DEF TypeOK

\* The request goes on, and enters only if it did.
LEMMA TypesOfFlow ==
    ASSUME TypeInv, NEW f \in Flows, NEW x, Becomes(f, x),
           ~Enters(x) \/ Enters(flow[f]), Sound(x), entries' = entries
    PROVE  /\ flow' \in [Flows -> Frame]
           /\ \A g \in Flows : Sound(flow'[g])
           /\ entries' + Cardinality(Entering)' <= MaxEntries
<1>1. flow' \in [Flows -> Frame] /\ flow'[f] = x /\ \A g \in Flows : g # f => flow'[g] = flow[g]
  BY DEF Becomes
<1>2. \A g \in Flows : Sound(flow'[g])
  BY <1>1 DEF TypeInv
<1>3. /\ Cardinality(Entering) \in Nat /\ Cardinality(Entering)' \in Nat
      /\ Cardinality(Entering)' <= Cardinality(Entering)
  BY EnteringChanges
<1>4. entries \in Nat /\ entries + Cardinality(Entering) <= MaxEntries
  BY DEF TypeInv, TypeOK
<1> QED BY <1>1, <1>2, <1>3, <1>4, SizesAssumption

LEMMA Continues ==
    ASSUME TypeInv, NEW f \in Flows, flow[f].pc = "look", NEW s, NEW r, Continue(f, s, r)
    PROVE  \E x : /\ Becomes(f, x)
                  /\ \/ x = NoFrame /\ x.pc = "idle"
                     \/ /\ x.call = flow[f].call /\ x.who = flow[f].who
                        /\ x.players = flow[f].players /\ x.seated = flow[f].seated
                        /\ \/ x.pc = "ticket" /\ x.call = "enter" /\ s = "NONE" /\ r = NoRoom
                           \/ x.pc \in {"ready", "report"} /\ Asks(f)
                           \/ x.pc = "unqueue" /\ x.call = "cancel" /\ s = "WAITING"
<1>1. flow \in [Flows -> Frame] /\ flow[f].who \in Users /\ ticket \in [Users -> Ticket]
  BY DEF TypeInv, TypeOK, Sound
<1>2. {"ticket", "report", "ready", "unqueue"} \subseteq Steps BY DEF Steps
<1>3. CASE flow[f].call = "enter" /\ s = "NONE" /\ r = NoRoom /\ Goto(f, "ticket")
  <2>1. Becomes(f, At(f, "ticket")) BY <1>1, <1>2, <1>3, Goes
  <2> QED BY <1>1, <1>2, <1>3, <2>1, AtFacts
<1>4. CASE Asks(f) /\ flow' = [flow EXCEPT ![f].pc = "ready", ![f].room = ticket[flow[f].who].room]
  <2> DEFINE x == [At(f, "ready") EXCEPT !.room = ticket[flow[f].who].room]
  <2>1. ticket[flow[f].who].room \in Rooms \cup {NoRoom} BY <1>1, TicketFacts
  <2>3. flow' = [flow EXCEPT ![f] = x] BY <1>4 DEF At
  <2>5. x = [At(f, "ready") EXCEPT !.room = ticket[flow[f].who].room] OBVIOUS
  <2> HIDE DEF x
  <2>6. Like(f, x, "ready", ticket[flow[f].who].room, flow[f].players, flow[f].seated)
    BY <1>1, <1>2, <2>5, <2>1, Likeness
  <2>2. /\ x \in Frame /\ x.pc = "ready" /\ x.call = flow[f].call /\ x.who = flow[f].who
        /\ x.players = flow[f].players /\ x.seated = flow[f].seated
    BY <2>6 DEF Like
  <2>4. Becomes(f, x) BY <1>1, <2>2, <2>3, Moves
  <2> QED BY <1>4, <2>2, <2>4
<1>5. CASE Asks(f) /\ s # "MATCHED" /\ Goto(f, "report")
  <2>1. Becomes(f, At(f, "report")) BY <1>1, <1>2, <1>5, Goes
  <2> QED BY <1>1, <1>2, <1>5, <2>1, AtFacts
<1>6. CASE flow[f].call = "cancel" /\ s = "WAITING" /\ Goto(f, "unqueue")
  <2>1. Becomes(f, At(f, "unqueue")) BY <1>1, <1>2, <1>6, Goes
  <2> QED BY <1>1, <1>2, <1>6, <2>1, AtFacts
<1>7. CASE Return(f)
  BY <1>1, <1>7, Returns
<1> QED BY <1>3, <1>4, <1>5, <1>6, <1>7 DEF Continue

\* Looking up the ticket: it may be cleared, and what is left of it decides.
LEMMA Looks ==
    ASSUME TypeInv, NEW f \in Flows, Look(f)
    PROVE  LET u == flow[f].who IN
           /\ flow[f].pc = "look" /\ u \in Users
           /\ UNCHANGED <<age, lock, session, sockets, closing, marker, counts>>
           /\ \/ Heal(u)
              \/ ~Outlived(u) /\ UNCHANGED <<ticket, home, phase, roster>>
           /\ \E x : /\ Becomes(f, x)
                     /\ \/ x = NoFrame /\ x.pc = "idle"
                        \/ /\ x.call = flow[f].call /\ x.who = u
                           /\ x.players = flow[f].players /\ x.seated = flow[f].seated
                           /\ \/ /\ x.pc = "ticket" /\ x.call = "enter"
                                 /\ \/ Heal(u)
                                    \/ ticket[u].status = "NONE" /\ home[u] = NoRoom /\ UNCHANGED <<ticket, home>>
                              \/ x.pc \in {"ready", "report"} /\ Asks(f)
                              \/ x.pc = "unqueue" /\ x.call = "cancel"
<1>1. flow[f].pc = "look" BY DEF Look
<1>2. flow[f].who \in Users BY <1>1 DEF TypeInv, Sound
<1>3. UNCHANGED <<age, lock, session, sockets, closing, marker, counts>>
  BY DEF Look
<1>4. CASE Heal(flow[f].who) /\ Continue(f, "NONE", NoRoom)
  BY <1>1, <1>2, <1>3, <1>4, Continues
<1>5. CASE /\ ~Outlived(flow[f].who)
           /\ Continue(f, ticket[flow[f].who].status, home[flow[f].who])
           /\ UNCHANGED <<ticket, home, phase, roster>>
  <2>1. PICK x : /\ Becomes(f, x)
                 /\ \/ x = NoFrame /\ x.pc = "idle"
                    \/ /\ x.call = flow[f].call /\ x.who = flow[f].who
                       /\ x.players = flow[f].players /\ x.seated = flow[f].seated
                       /\ \/ /\ x.pc = "ticket" /\ x.call = "enter"
                             /\ ticket[flow[f].who].status = "NONE" /\ home[flow[f].who] = NoRoom
                          \/ x.pc \in {"ready", "report"} /\ Asks(f)
                          \/ x.pc = "unqueue" /\ x.call = "cancel"
    BY <1>1, <1>5, Continues
  <2>2. UNCHANGED <<ticket, home>> BY <1>5
  <2> QED BY <1>1, <1>2, <1>3, <1>5, <2>1, <2>2
<1> QED BY <1>4, <1>5 DEF Look

\* Where the other steps take a request.
LEMMA PlainSteps ==
    ASSUME TypeInv, NEW f \in Flows
    PROVE  /\ PutTicket(f) => Becomes(f, At(f, "queue"))
           /\ Enqueue(f) => Becomes(f, At(f, "lock"))
           /\ Rollback(f) => Becomes(f, At(f, "fail"))
           /\ Dequeue(f) => Becomes(f, At(f, "mark"))
           /\ MarkMatched(f) => Becomes(f, At(f, "marker"))
           /\ SetMarker(f) => Becomes(f, At(f, "unlock"))
           /\ Unmark(f) => Becomes(f, At(f, "report"))
           /\ Unqueue(f) => Becomes(f, At(f, "forget"))
           /\ Forget(f) => Becomes(f, NoFrame)
           /\ Report(f) => Becomes(f, NoFrame)
<1>1. flow \in [Flows -> Frame] BY DEF TypeInv, TypeOK
<1>2. {"queue", "lock", "fail", "mark", "marker", "unlock", "report", "forget"} \subseteq Steps
  BY DEF Steps
<1>3. \A pc \in Steps : Goto(f, pc) => Becomes(f, At(f, pc)) BY <1>1, Goes
<1>4. Return(f) => Becomes(f, NoFrame) BY <1>1, Returns
<1> QED BY <1>2, <1>3, <1>4
        DEF PutTicket, Enqueue, Rollback, Dequeue, MarkMatched, SetMarker, Unmark, Unqueue,
            Forget, Report

LEMMA ForkedSteps ==
    ASSUME TypeInv, NEW f \in Flows
    PROVE  LET asks == NewFrame("look", "entered", flow[f].who) IN
           /\ Lock(f) => \/ lock = NoFlow /\ lock' = f /\ Becomes(f, At(f, "pick"))
                         \/ lock # NoFlow /\ lock' = lock /\ Becomes(f, asks)
           /\ Unlock(f) => Becomes(f, NoFrame) \/ Becomes(f, asks)
           /\ StartIfReady(f) => \E pc \in {"unmark", "start", "report"} : Becomes(f, At(f, pc))
           /\ Start(f) => \/ Becomes(f, At(f, "unmark"))
                          \/ Becomes(f, At(f, "report"))
                          \/ Becomes(f, NoFrame)
           /\ StoreFull(f) =>
                \/ flow[f].pc \in {"ticket", "lock", "queue"} /\ Becomes(f, NoFrame)
                \/ flow[f].pc \in {"create", "marker"} /\ Becomes(f, At(f, "fail"))
                \/ flow[f].pc = "seat" /\ flow[f].seated = {} /\ Becomes(f, At(f, "rollback"))
<1>1. flow \in [Flows -> Frame] BY DEF TypeInv, TypeOK
<1>2. {"pick", "unmark", "start", "report", "fail", "rollback"} \subseteq Steps
  BY DEF Steps
<1>3. \A pc \in Steps : Goto(f, pc) => Becomes(f, At(f, pc)) BY <1>1, Goes
<1>4. Return(f) => Becomes(f, NoFrame) BY <1>1, Returns
<1>5. ThenStatus(f) => Becomes(f, NewFrame("look", "entered", flow[f].who))
  BY <1>1, GoesToStatus
<1>6. Lock(f) => \/ lock = NoFlow /\ lock' = f /\ Becomes(f, At(f, "pick"))
                 \/ lock # NoFlow /\ lock' = lock /\ Becomes(f, NewFrame("look", "entered", flow[f].who))
  BY <1>2, <1>3, <1>5 DEF Lock
<1>7. Unlock(f) => Becomes(f, NoFrame) \/ Becomes(f, NewFrame("look", "entered", flow[f].who))
  BY <1>4, <1>5 DEF Unlock
<1>8. StartIfReady(f) => \E pc \in {"unmark", "start", "report"} : Becomes(f, At(f, pc))
  BY <1>2, <1>3 DEF StartIfReady
<1>9. Start(f) => \/ Becomes(f, At(f, "unmark"))
                  \/ Becomes(f, At(f, "report"))
                  \/ Becomes(f, NoFrame)
  BY <1>2, <1>3, <1>4 DEF Start
<1>10. StoreFull(f) =>
         \/ flow[f].pc \in {"ticket", "lock", "queue"} /\ Becomes(f, NoFrame)
         \/ flow[f].pc \in {"create", "marker"} /\ Becomes(f, At(f, "fail"))
         \/ flow[f].pc = "seat" /\ flow[f].seated = {} /\ Becomes(f, At(f, "rollback"))
  BY <1>2, <1>3, <1>4 DEF StoreFull
<1> QED BY <1>6, <1>7, <1>8, <1>9, <1>10

\* Picking: too few, or the group S, of whom some may have no session.
LEMMA Picks ==
    ASSUME TypeInv, NEW f \in Flows, Pick(f)
    PROVE  /\ flow[f].pc = "pick"
           /\ UNCHANGED <<lock, people, server, marker, counts>>
           /\ \/ /\ ~Enough /\ UNCHANGED ticket /\ Becomes(f, At(f, "unlock"))
                 /\ age' = [u \in Users |-> IF u \in Fresh THEN age[u] ELSE Absent]
              \/ \E S \in SUBSET Fresh :
                   /\ Enough /\ Longest(S)
                   /\ age' = [u \in Users |-> IF u \in Fresh \ Evicted(S) THEN age[u] ELSE Absent]
                   /\ ticket' = [u \in Users |-> IF u \in Evicted(S) THEN NoTicket ELSE ticket[u]]
                   /\ \/ /\ Evicted(S) = {}
                         /\ \E x : /\ Becomes(f, x)
                                   /\ Like(f, x, "create", flow[f].room, S, flow[f].seated)
                      \/ Evicted(S) # {} /\ Becomes(f, At(f, "unlock"))
<1>1. flow \in [Flows -> Frame] BY DEF TypeInv, TypeOK
<1>2. "unlock" \in Steps /\ "create" \in Steps BY DEF Steps
<1>3. Goto(f, "unlock") => Becomes(f, At(f, "unlock")) BY <1>1, <1>2, Goes
<1>4. flow[f].pc = "pick" /\ UNCHANGED <<lock, people, server, marker, counts>> BY DEF Pick
<1>5. CASE \E S \in SUBSET Fresh :
             /\ Enough /\ Longest(S)
             /\ age' = [u \in Users |-> IF u \in Fresh \ Evicted(S) THEN age[u] ELSE Absent]
             /\ ticket' = [u \in Users |-> IF u \in Evicted(S) THEN NoTicket ELSE ticket[u]]
             /\ IF S \subseteq session
                THEN flow' = [flow EXCEPT ![f].pc = "create", ![f].players = S]
                ELSE Goto(f, "unlock")
  <2>1. PICK S \in SUBSET Fresh :
             /\ Enough /\ Longest(S)
             /\ age' = [u \in Users |-> IF u \in Fresh \ Evicted(S) THEN age[u] ELSE Absent]
             /\ ticket' = [u \in Users |-> IF u \in Evicted(S) THEN NoTicket ELSE ticket[u]]
             /\ IF S \subseteq session
                THEN flow' = [flow EXCEPT ![f].pc = "create", ![f].players = S]
                ELSE Goto(f, "unlock")
    BY <1>5
  <2>2. CASE S \subseteq session
    <3>1. flow' = [flow EXCEPT ![f] = [At(f, "create") EXCEPT !.players = S]]
      BY <2>1, <2>2 DEF At
    <3>2. S \in SUBSET Users BY DEF Fresh, Queue
    <3>3. PICK x : x = [At(f, "create") EXCEPT !.players = S] OBVIOUS
    <3>4. Like(f, x, "create", flow[f].room, S, flow[f].seated)
      BY <1>1, <1>2, <3>2, <3>3, Likeness
    <3>6. Becomes(f, x) BY <1>1, <3>1, <3>3, <3>4, Moves DEF Like
    <3>5. Evicted(S) = {} BY <2>2 DEF Evicted
    <3> QED BY <1>4, <2>1, <3>4, <3>5, <3>6
  <2>3. CASE ~(S \subseteq session)
    <3>1. Evicted(S) # {} BY <2>3 DEF Evicted
    <3> QED BY <1>3, <1>4, <2>1, <2>3, <3>1
  <2> QED BY <2>2, <2>3
<1>6. CASE ~(\E S \in SUBSET Fresh :
             /\ Enough /\ Longest(S)
             /\ age' = [u \in Users |-> IF u \in Fresh \ Evicted(S) THEN age[u] ELSE Absent]
             /\ ticket' = [u \in Users |-> IF u \in Evicted(S) THEN NoTicket ELSE ticket[u]]
             /\ IF S \subseteq session
                THEN flow' = [flow EXCEPT ![f].pc = "create", ![f].players = S]
                ELSE Goto(f, "unlock"))
  BY <1>3, <1>4, <1>6 DEF Pick
<1> QED BY <1>5, <1>6

LEMMA Creates ==
    ASSUME TypeInv, NEW f \in Flows, Create(f)
    PROVE  /\ flow[f].pc = "create"
           /\ UNCHANGED <<ticket, age, lock, people, roster, sockets, closing, marker, counts>>
           /\ \E r \in Rooms : /\ phase[r] = "NEW" /\ phase' = [phase EXCEPT ![r] = "LOBBY"]
                               /\ \E x : /\ Becomes(f, x)
                                         /\ Like(f, x, "seat", r, flow[f].players,
                                                 flow[f].seated)
<1>1. flow \in [Flows -> Frame] /\ "seat" \in Steps BY DEF TypeInv, TypeOK, Steps
<1>2. PICK r \in Rooms : /\ phase[r] = "NEW" /\ phase' = [phase EXCEPT ![r] = "LOBBY"]
                         /\ flow' = [flow EXCEPT ![f].pc = "seat", ![f].room = r]
  BY DEF Create
<1>3. flow' = [flow EXCEPT ![f] = [At(f, "seat") EXCEPT !.room = r]] BY <1>2 DEF At
<1>4. PICK x : x = [At(f, "seat") EXCEPT !.room = r] OBVIOUS
<1>5. Like(f, x, "seat", r, flow[f].players, flow[f].seated) BY <1>1, <1>4, Likeness
<1>6. Becomes(f, x) BY <1>1, <1>3, <1>4, <1>5, Moves DEF Like
<1> QED BY <1>2, <1>5, <1>6 DEF Create

\* A seat for the next player, or no room any more.
LEMMA Sits ==
    ASSUME TypeInv, NEW f \in Flows, Seat(f)
    PROVE  LET r == flow[f].room IN
           /\ flow[f].pc = "seat"
           /\ UNCHANGED <<ticket, age, lock, session, phase, sockets, closing, marker, counts>>
           /\ \/ /\ phase[r] # "LOBBY" /\ UNCHANGED <<roster, home>>
                 /\ Becomes(f, At(f, "rollback"))
              \/ /\ phase[r] = "LOBBY"
                 /\ \E u \in flow[f].players \ flow[f].seated :
                      /\ roster' = [roster EXCEPT ![r] = @ \cup {u}]
                      /\ home' = [home EXCEPT ![u] = r]
                      /\ \E pc \in {"seat", "dequeue"} :
                           /\ pc = "dequeue" => flow[f].seated \cup {u} = flow[f].players
                           /\ \E x : /\ Becomes(f, x)
                                     /\ Like(f, x, pc, flow[f].room, flow[f].players,
                                             flow[f].seated \cup {u})
<1>1. flow \in [Flows -> Frame] /\ {"seat", "rollback", "dequeue"} \subseteq Steps
  BY DEF TypeInv, TypeOK, Steps
<1>2. CASE phase[flow[f].room] # "LOBBY"
  <2>1. Goto(f, "rollback") /\ UNCHANGED <<roster, home>> BY <1>2 DEF Seat
  <2> QED BY <1>1, <1>2, <2>1, Goes DEF Seat
<1>3. CASE phase[flow[f].room] = "LOBBY"
  <2> DEFINE to(u) == IF flow[f].seated \cup {u} = flow[f].players THEN "dequeue" ELSE "seat"
  <2>1. PICK u \in flow[f].players \ flow[f].seated :
          /\ roster' = [roster EXCEPT ![flow[f].room] = @ \cup {u}]
          /\ home' = [home EXCEPT ![u] = flow[f].room]
          /\ flow' = [flow EXCEPT ![f].seated = @ \cup {u}, ![f].pc = to(u)]
    BY <1>3 DEF Seat
  <2>2. to(u) \in {"seat", "dequeue"} /\ (to(u) = "dequeue" => flow[f].seated \cup {u} = flow[f].players)
    OBVIOUS
  <2>3. flow[f].seated \cup {u} \in SUBSET Users
    BY <1>1, <2>1, FrameFacts
  <2> HIDE DEF to
  <2>4. PICK x : x = [At(f, to(u)) EXCEPT !.seated = flow[f].seated \cup {u}] OBVIOUS
  <2>5. Like(f, x, to(u), flow[f].room, flow[f].players, flow[f].seated \cup {u})
    <3>1. to(u) \in Steps BY <1>1, <2>2
    <3> QED BY <1>1, <2>3, <2>4, <3>1, Likeness
  <2>6. flow' = [flow EXCEPT ![f] = x]
    <3>1. flow[f] \in Frame BY <1>1
    <3>2. x = [flow[f] EXCEPT !.seated = flow[f].seated \cup {u}, !.pc = to(u)]
      BY <2>4, <3>1 DEF At, Frame
    <3> QED BY <2>1, <3>2
  <2>7. Becomes(f, x) BY <1>1, <2>5, <2>6, Moves DEF Like
  <2> QED BY <1>3, <2>1, <2>2, <2>5, <2>7 DEF Seat
<1> QED BY <1>2, <1>3

LEMMA StepTypes ==
    ASSUME TypeInv, NEW f \in Flows, Step(f)
    PROVE  TypeInv'
<1>0. /\ TypeOK /\ flow \in [Flows -> Frame] /\ ticket \in [Users -> Ticket]
      /\ Sound(flow[f])
  BY DEF TypeInv, TypeOK
<1>1. ASSUME NEW x, Becomes(f, x), ~Enters(x) \/ Enters(flow[f]), Sound(x),
             entries' = entries,
             ticket' \in [Users -> Ticket],
             \A v \in Users : ticket'[v].status = "WAITING" => ticket'[v].left >= 1,
             age' \in [Users -> Absent .. WaitTtl], lock' \in Flows \cup {NoFlow},
             UNCHANGED <<session, sockets, closing>>, failures' \in 0 .. MaxFailures,
             home' \in [Users -> Rooms \cup {NoRoom}],
             phase' \in [Rooms -> {"NEW", "LOBBY", "PLAYING", "FINISHED", "GONE"}],
             roster' \in [Rooms -> SUBSET Users], marker' \subseteq Rooms,
             autoStarts' \in [Rooms -> Nat]
      PROVE  TypeInv'
  <2>1. /\ flow' \in [Flows -> Frame]
        /\ \A g \in Flows : Sound(flow'[g])
        /\ entries' + Cardinality(Entering)' <= MaxEntries
    BY <1>1, TypesOfFlow
  <2> QED BY <1>0, <1>1, <2>1 DEF TypeInv, TypeOK
<1>2. \A pc \in Steps : /\ At(f, pc).pc = pc /\ At(f, pc).call = flow[f].call
                        /\ At(f, pc).who = flow[f].who /\ At(f, pc).room = flow[f].room
  BY <1>0, AtFacts
<1>3. Sound(NoFrame) /\ ~Enters(NoFrame)
  BY NewFrameFacts DEF NoFrame, Enters, Sound, HasRoom, Steps, Calls
<1>4. flow[f].pc # "idle" => LET asks == NewFrame("look", "entered", flow[f].who) IN
                             ~Enters(asks) /\ Sound(asks)
  BY <1>0, NewFrameFacts DEF Enters, Sound, HasRoom, Steps, Calls
<1>5. \A v \in Users : ticket[v].status = "WAITING" => ticket[v].left >= 1
  BY DEF TypeInv
<1>6. flow[f].pc # "idle" =>
        /\ \A pc \in Steps : pc \notin {"ticket", "queue"} /\ (HasRoom(pc) => HasRoom(flow[f].pc))
                             => Sound(At(f, pc))
        /\ \A pc \in Steps : pc \notin {"look", "ticket", "queue"} => ~Enters(At(f, pc))
  BY <1>0, <1>2 DEF Enters, Sound, HasRoom
<1> USE DEF people, server, counts
<1>7. CASE Look(f)
  <2> DEFINE u == flow[f].who
  <2>1. /\ flow[f].pc = "look" /\ u \in Users
        /\ UNCHANGED <<age, lock, session, sockets, closing, marker, counts>>
        /\ Heal(u) \/ UNCHANGED <<ticket, home, phase, roster>>
    BY <1>7, Looks
  <2>2. PICK x : /\ Becomes(f, x)
                 /\ \/ x = NoFrame
                    \/ /\ x.call = flow[f].call /\ x.who = u
                       /\ x.pc \in {"ticket", "ready", "report", "unqueue"}
                       /\ x.pc = "ticket" => x.call = "enter"
    BY <1>7, Looks
  <2>3. (~Enters(x) \/ Enters(flow[f])) /\ Sound(x)
    BY <1>3, <2>1, <2>2 DEF Enters, Sound, HasRoom
  <2>4. CASE Heal(u)
    BY <1>0, <1>1, <2>1, <2>2, <2>3, <2>4, HealTypes DEF TypeOK
  <2>5. CASE UNCHANGED <<ticket, home, phase, roster>>
    BY <1>0, <1>1, <1>5, <2>1, <2>2, <2>3, <2>5 DEF TypeOK
  <2> QED BY <2>1, <2>4, <2>5
<1>8. CASE PutTicket(f)
  <2>1. flow[f].pc = "ticket" /\ flow[f].who \in Users /\ Becomes(f, At(f, "queue"))
    BY <1>0, <1>8, PlainSteps DEF PutTicket, Sound, HasRoom
  <2>2. (~Enters(At(f, "queue")) \/ Enters(flow[f])) /\ Sound(At(f, "queue"))
    BY <1>0, <1>2, <2>1 DEF Enters, Sound, HasRoom, Steps
  <2>3. /\ ticket' = [ticket EXCEPT ![flow[f].who] = Waiting]
        /\ UNCHANGED <<age, lock, people, server, marker, counts>>
    BY <1>8 DEF PutTicket
  <2>4. /\ ticket' \in [Users -> Ticket]
        /\ \A v \in Users : ticket'[v].status = "WAITING" => ticket'[v].left >= 1
    BY <1>0, <1>5, <2>1, <2>3, TicketFacts, SizesAssumption
  <2> QED BY <1>0, <1>1, <2>1, <2>2, <2>3, <2>4 DEF TypeOK
<1>9. CASE Enqueue(f)
  <2>1. flow[f].pc = "queue" /\ flow[f].who \in Users /\ Becomes(f, At(f, "lock"))
    BY <1>0, <1>9, PlainSteps DEF Enqueue, Sound, HasRoom
  <2>2. Sound(At(f, "lock")) /\ ~Enters(At(f, "lock"))
    BY <1>6, <2>1 DEF Steps, HasRoom
  <2>3. flow' \in [Flows -> Frame] /\ \A g \in Flows : Sound(flow'[g])
    BY <1>0, <2>1, <2>2 DEF Becomes, TypeInv
  <2>4. /\ age' = [age EXCEPT ![flow[f].who] = 0] /\ entries' = entries + 1
        /\ UNCHANGED <<ticket, lock, people, server, marker, failures, autoStarts>>
    BY <1>9 DEF Enqueue
  <2>5. entries' + Cardinality(Entering)' <= MaxEntries /\ entries' \in 0 .. MaxEntries
    <3>1. Enters(flow[f]) BY <1>0, <2>1 DEF Sound, HasRoom, Enters
    <3>2. /\ Cardinality(Entering) \in Nat /\ Cardinality(Entering)' \in Nat
          /\ Cardinality(Entering)' = Cardinality(Entering) - 1
      BY <2>1, <2>2, <3>1, EnteringChanges
    <3> QED BY <1>0, <2>4, <3>2, SizesAssumption DEF TypeInv, TypeOK
  <2>6. age' \in [Users -> Absent .. WaitTtl]
    BY <1>0, <2>1, <2>4, SizesAssumption DEF TypeOK, Absent
  <2> QED BY <1>0, <1>5, <2>3, <2>4, <2>5, <2>6 DEF TypeInv, TypeOK
<1>10. CASE Lock(f)
  <2>1. flow[f].pc = "lock" /\ UNCHANGED <<ticket, age, people, server, marker, counts>>
    BY <1>10 DEF Lock
  <2>2. flow[f].pc # "idle" BY <2>1
  <2>3. CASE lock = NoFlow /\ lock' = f /\ Becomes(f, At(f, "pick"))
    BY <1>0, <1>1, <1>2, <1>5, <1>6, <2>1, <2>2, <2>3 DEF TypeOK, Steps, HasRoom
  <2>4. CASE lock' = lock /\ Becomes(f, NewFrame("look", "entered", flow[f].who))
    BY <1>0, <1>1, <1>4, <1>5, <2>1, <2>2, <2>4 DEF TypeOK
  <2> QED BY <1>10, <2>3, <2>4, ForkedSteps
<1>11. CASE Pick(f)
  <2>1. flow[f].pc = "pick" /\ UNCHANGED <<lock, people, server, marker, counts>>
    BY <1>11, Picks
  <2>2. flow[f].pc # "idle" /\ flow[f].who \in Users BY <1>0, <2>1 DEF Sound, HasRoom
  <2>3. PICK x : Becomes(f, x) /\ Sound(x) /\ ~Enters(x)
    <3>1. CASE Becomes(f, At(f, "unlock"))
      BY <1>6, <2>2, <3>1 DEF Steps, HasRoom
    <3>2. CASE \E S, x : Becomes(f, x) /\ Like(f, x, "create", flow[f].room, S, flow[f].seated)
      BY <2>2, <3>2 DEF Like, Enters, Sound, HasRoom
    <3> QED BY <1>11, <3>1, <3>2, Picks
  <2>4. \/ UNCHANGED ticket /\ age' = [u \in Users |-> IF u \in Fresh THEN age[u] ELSE Absent]
        \/ \E S \in SUBSET Fresh :
             /\ age' = [u \in Users |-> IF u \in Fresh \ Evicted(S) THEN age[u] ELSE Absent]
             /\ ticket' = [u \in Users |-> IF u \in Evicted(S) THEN NoTicket ELSE ticket[u]]
    BY <1>11, Picks
  <2>5. age' \in [Users -> Absent .. WaitTtl]
    BY <1>0, <2>4, SizesAssumption DEF TypeOK, Absent
  <2>6. /\ ticket' \in [Users -> Ticket]
        /\ \A v \in Users : ticket'[v].status = "WAITING" => ticket'[v].left >= 1
    BY <1>0, <1>5, <2>4, TicketFacts
  <2> QED BY <1>0, <1>1, <2>1, <2>2, <2>3, <2>5, <2>6 DEF TypeOK
<1>12. ASSUME NEW pc \in Steps, Becomes(f, At(f, pc)), pc \notin {"look", "ticket", "queue"},
              flow[f].pc # "idle", HasRoom(pc) => HasRoom(flow[f].pc), UNCHANGED <<ticket, lock, session, sockets, closing, entries>>,
              failures' \in 0 .. MaxFailures,
              age' \in [Users -> Absent .. WaitTtl],
              home' \in [Users -> Rooms \cup {NoRoom}],
              phase' \in [Rooms -> {"NEW", "LOBBY", "PLAYING", "FINISHED", "GONE"}],
              roster' \in [Rooms -> SUBSET Users], marker' \subseteq Rooms,
              autoStarts' \in [Rooms -> Nat]
       PROVE  TypeInv'
  BY <1>0, <1>1, <1>5, <1>6, <1>12 DEF TypeOK, HasRoom
<1>13. CASE Create(f)
  <2>1. PICK r \in Rooms :
          /\ phase[r] = "NEW" /\ phase' = [phase EXCEPT ![r] = "LOBBY"]
          /\ \E x : Becomes(f, x) /\ Like(f, x, "seat", r, flow[f].players, flow[f].seated)
    BY <1>13, Creates
  <2>2. flow[f].pc = "create"
        /\ UNCHANGED <<ticket, age, lock, people, roster, sockets, closing, marker, counts>>
    BY <1>13, Creates
  <2>3. PICK x : Becomes(f, x) /\ Like(f, x, "seat", r, flow[f].players, flow[f].seated)
    BY <2>1
  <2>5. Sound(x) /\ ~Enters(x)
    BY <1>0, <2>2, <2>3 DEF Like, Enters, Sound, HasRoom
  <2>6. phase' \in [Rooms -> {"NEW", "LOBBY", "PLAYING", "FINISHED", "GONE"}]
    BY <1>0, <2>1 DEF TypeOK
  <2> QED BY <1>0, <1>1, <1>5, <2>2, <2>3, <2>5, <2>6 DEF TypeOK
<1>14. CASE Seat(f)
  <2> DEFINE r == flow[f].room
  <2>1. /\ flow[f].pc = "seat" /\ flow[f].pc # "idle"
        /\ UNCHANGED <<ticket, age, lock, session, phase, sockets, closing, marker, counts>>
    BY <1>14, Sits
  <2>2. CASE UNCHANGED <<roster, home>> /\ Becomes(f, At(f, "rollback"))
    BY <1>0, <1>12, <2>1, <2>2 DEF TypeOK, Steps, HasRoom
  <2>3. CASE \E u \in flow[f].players \ flow[f].seated :
               /\ roster' = [roster EXCEPT ![r] = @ \cup {u}]
               /\ home' = [home EXCEPT ![u] = r]
               /\ \E pc \in {"seat", "dequeue"} : \E x, S :
                    Becomes(f, x) /\ Like(f, x, pc, r, flow[f].players, S)
    <3>1. PICK u \in flow[f].players \ flow[f].seated :
               /\ roster' = [roster EXCEPT ![r] = @ \cup {u}]
               /\ home' = [home EXCEPT ![u] = r]
               /\ \E pc \in {"seat", "dequeue"} : \E x, S :
                    Becomes(f, x) /\ Like(f, x, pc, r, flow[f].players, S)
      BY <2>3
    <3>4. PICK pc \in {"seat", "dequeue"} :
                 \E x, S : Becomes(f, x) /\ Like(f, x, pc, r, flow[f].players, S)
      BY <3>1
    <3>2. PICK x, S : Becomes(f, x) /\ Like(f, x, pc, r, flow[f].players, S)
      BY <3>4
    <3>3. u \in Users /\ r \in Rooms \cup {NoRoom}
      BY <1>0, <3>1, FrameFacts
    <3>6. Sound(x) /\ ~Enters(x)
      BY <1>0, <2>1, <3>2 DEF Like, Enters, Sound, HasRoom
    <3>7. roster' \in [Rooms -> SUBSET Users] /\ home' \in [Users -> Rooms \cup {NoRoom}]
      BY <1>0, <3>1, <3>3 DEF TypeOK
    <3> QED BY <1>0, <1>1, <1>5, <2>1, <3>2, <3>6, <3>7 DEF TypeOK
  <2> QED BY <1>14, <2>2, <2>3, Sits
<1>15. CASE StoreFull(f)
  <2>1. /\ failures < MaxFailures /\ failures' = failures + 1
        /\ UNCHANGED <<ticket, age, lock, people, server, marker, entries, autoStarts>>
    BY <1>15 DEF StoreFull
  <2>2. failures' \in 0 .. MaxFailures BY <1>0, <2>1, SizesAssumption DEF TypeOK
  <2>3. \/ flow[f].pc \in {"ticket", "lock", "queue"} /\ Becomes(f, NoFrame)
        \/ flow[f].pc \in {"create", "marker"} /\ Becomes(f, At(f, "fail"))
        \/ flow[f].pc = "seat" /\ Becomes(f, At(f, "rollback"))
    BY <1>15, ForkedSteps
  <2>4. PICK x : Becomes(f, x) /\ Sound(x) /\ ~Enters(x)
    <3>1. {"fail", "rollback"} \subseteq Steps BY DEF Steps
    <3> QED BY <1>3, <1>6, <2>3, <3>1 DEF HasRoom
  <2> QED BY <1>0, <1>1, <1>5, <2>1, <2>2, <2>4 DEF TypeOK
<1>16. CASE Rollback(f)
  <2>1. /\ flow[f].pc = "rollback" /\ Closed(flow[f].room) /\ Becomes(f, At(f, "fail"))
        /\ UNCHANGED <<ticket, age, lock, people, sockets, closing, marker, counts>>
    BY <1>16, PlainSteps DEF Rollback
  <2>2. /\ phase' \in [Rooms -> {"NEW", "LOBBY", "PLAYING", "FINISHED", "GONE"}]
        /\ roster' \in [Rooms -> SUBSET Users]
    BY <1>0, <2>1 DEF Closed, TypeOK
  <2>3. "fail" \in Steps BY DEF Steps
  <2> QED BY <1>0, <1>12, <2>1, <2>2, <2>3 DEF TypeOK, HasRoom
<1>17. CASE Dequeue(f)
  <2>1. /\ flow[f].pc = "dequeue" /\ Becomes(f, At(f, "mark"))
        /\ age' = [u \in Users |-> IF u \in flow[f].players THEN Absent ELSE age[u]]
        /\ UNCHANGED <<ticket, lock, people, server, marker, counts>>
    BY <1>17, PlainSteps DEF Dequeue
  <2>2. age' \in [Users -> Absent .. WaitTtl]
    BY <1>0, <2>1, SizesAssumption DEF TypeOK, Absent
  <2>3. "mark" \in Steps BY DEF Steps
  <2> QED BY <1>0, <1>12, <2>1, <2>2, <2>3 DEF TypeOK, HasRoom
<1>18. CASE MarkMatched(f)
  <2>1. /\ flow[f].pc = "mark" /\ Becomes(f, At(f, "marker"))
        /\ ticket' = [u \in Users |-> IF u \in flow[f].players THEN Matched(flow[f].room)
                                       ELSE ticket[u]]
        /\ UNCHANGED <<age, lock, people, server, marker, counts>>
    BY <1>18, PlainSteps DEF MarkMatched
  <2>2. flow[f].room \in Rooms \cup {NoRoom} BY <1>0, FrameFacts
  <2>3. /\ Matched(flow[f].room) \in Ticket
        /\ Matched(flow[f].room).status = "MATCHED"
    BY <2>2, TicketFacts
  <2>4. /\ ticket' \in [Users -> Ticket]
        /\ \A v \in Users : ticket'[v].status = "WAITING" => ticket'[v].left >= 1
    BY <1>0, <1>5, <2>1, <2>3
  <2>5. Sound(At(f, "marker")) /\ ~Enters(At(f, "marker"))
    <3>1. "marker" \in Steps BY DEF Steps
    <3> QED BY <1>6, <2>1, <3>1 DEF HasRoom
  <2> QED BY <1>0, <1>1, <2>1, <2>4, <2>5 DEF TypeOK
<1>19. CASE SetMarker(f)
  <2>1. /\ flow[f].pc = "marker" /\ Becomes(f, At(f, "unlock"))
        /\ marker' = marker \cup {flow[f].room}
        /\ UNCHANGED <<ticket, age, lock, people, server, counts>>
    BY <1>19, PlainSteps DEF SetMarker
  <2>2. "unlock" \in Steps BY DEF Steps
  <2>3. marker' \subseteq Rooms BY <1>0, <2>1 DEF TypeOK, Sound, HasRoom
  <2> QED BY <1>0, <1>12, <2>1, <2>2, <2>3 DEF TypeOK, HasRoom
<1>20. CASE Unlock(f)
  <2>1. /\ flow[f].pc # "idle" /\ UNCHANGED <<ticket, age, people, server, marker, counts>>
        /\ lock' \in {NoFlow, lock}
    BY <1>20 DEF Unlock
  <2>2. CASE Becomes(f, NoFrame)
    BY <1>0, <1>1, <1>3, <1>5, <2>1, <2>2 DEF TypeOK
  <2>3. CASE Becomes(f, NewFrame("look", "entered", flow[f].who))
    BY <1>0, <1>1, <1>4, <1>5, <2>1, <2>3 DEF TypeOK
  <2> QED BY <1>20, <2>2, <2>3, ForkedSteps
<1>21. CASE StartIfReady(f)
  <2>1. /\ flow[f].pc # "idle"
        /\ UNCHANGED <<ticket, age, lock, people, server, marker, counts>>
    BY <1>21 DEF StartIfReady
  <2>2. PICK pc \in {"unmark", "start", "report"} : Becomes(f, At(f, pc))
    BY <1>21, ForkedSteps
  <2>3. pc \in Steps /\ pc \notin {"look", "ticket", "queue"} /\ ~HasRoom(pc)
    BY DEF Steps, HasRoom
  <2> QED BY <1>0, <1>12, <2>1, <2>2, <2>3 DEF TypeOK
<1>22. CASE Start(f)
  <2> DEFINE r == flow[f].room
  <2>1. /\ flow[f].pc = "start" /\ flow[f].pc # "idle"
        /\ UNCHANGED <<ticket, age, lock, people, roster, sockets, closing, marker,
                       entries, failures>>
        /\ \/ phase' = [phase EXCEPT ![r] = "PLAYING"] /\ autoStarts' = [autoStarts EXCEPT ![r] = @ + 1]
           \/ UNCHANGED <<phase, autoStarts>>
    BY <1>22 DEF Start
  <2>2. /\ phase' \in [Rooms -> {"NEW", "LOBBY", "PLAYING", "FINISHED", "GONE"}]
        /\ autoStarts' \in [Rooms -> Nat]
    BY <1>0, <2>1 DEF TypeOK
  <2>3. CASE Becomes(f, NoFrame)
    BY <1>0, <1>1, <1>3, <1>5, <2>1, <2>2, <2>3 DEF TypeOK
  <2>4. CASE Becomes(f, At(f, "unmark")) \/ Becomes(f, At(f, "report"))
    <3>1. PICK pc \in {"unmark", "report"} : Becomes(f, At(f, pc)) BY <2>4
    <3>2. pc \in Steps /\ pc \notin {"look", "ticket", "queue"} /\ ~HasRoom(pc)
      BY DEF Steps, HasRoom
    <3> QED BY <1>0, <1>12, <2>1, <2>2, <3>1, <3>2 DEF TypeOK
  <2> QED BY <1>22, <2>3, <2>4, ForkedSteps
<1>23. CASE Unmark(f)
  <2>1. /\ flow[f].pc = "unmark" /\ flow[f].pc # "idle" /\ Becomes(f, At(f, "report"))
        /\ marker' = marker \ {flow[f].room}
        /\ UNCHANGED <<ticket, age, lock, people, server, counts>>
    BY <1>23, PlainSteps DEF Unmark
  <2>2. "report" \in Steps /\ ~HasRoom("report") BY DEF Steps, HasRoom
  <2> QED BY <1>0, <1>12, <2>1, <2>2 DEF TypeOK
<1>24. CASE Report(f)
  <2>1. /\ flow[f].who \in Users /\ Becomes(f, NoFrame)
        /\ UNCHANGED <<age, lock, session, sockets, closing, marker, counts>>
        /\ \/ Heal(flow[f].who)
           \/ /\ ticket' \in {[ticket EXCEPT ![flow[f].who] = NoTicket], ticket}
              /\ UNCHANGED <<home, phase, roster>>
    BY <1>0, <1>24, PlainSteps DEF Report, Sound
  <2>2. CASE Heal(flow[f].who)
    BY <1>0, <1>1, <1>3, <2>1, <2>2, HealTypes DEF TypeOK
  <2>3. CASE /\ ticket' \in {[ticket EXCEPT ![flow[f].who] = NoTicket], ticket}
             /\ UNCHANGED <<home, phase, roster>>
    <3>1. /\ ticket' \in [Users -> Ticket]
          /\ \A v \in Users : ticket'[v].status = "WAITING" => ticket'[v].left >= 1
      BY <2>1, <2>3, DropsTicket
    <3> QED BY <1>0, <1>1, <1>3, <2>1, <2>3, <3>1 DEF TypeOK
  <2> QED BY <2>1, <2>2, <2>3
<1>25. CASE Unqueue(f)
  <2>1. /\ flow[f].pc = "unqueue" /\ flow[f].pc # "idle" /\ Becomes(f, At(f, "forget"))
        /\ age' = [age EXCEPT ![flow[f].who] = Absent]
        /\ UNCHANGED <<ticket, lock, people, server, marker, counts>>
    BY <1>25, PlainSteps DEF Unqueue
  <2>2. age' \in [Users -> Absent .. WaitTtl]
    <3>1. Absent \in Absent .. WaitTtl BY SizesAssumption DEF Absent
    <3> QED BY <1>0, <2>1, <3>1 DEF TypeOK
  <2>3. "forget" \in Steps /\ ~HasRoom("forget") BY DEF Steps, HasRoom
  <2> QED BY <1>0, <1>12, <2>1, <2>2, <2>3 DEF TypeOK
<1>26. CASE Forget(f)
  <2>1. /\ flow[f].who \in Users /\ Becomes(f, NoFrame)
        /\ ticket' = [ticket EXCEPT ![flow[f].who] = NoTicket]
        /\ UNCHANGED <<age, lock, people, server, marker, counts>>
    BY <1>0, <1>26, PlainSteps DEF Forget, Sound
  <2>2. /\ ticket' \in [Users -> Ticket]
        /\ \A v \in Users : ticket'[v].status = "WAITING" => ticket'[v].left >= 1
    BY <2>1, DropsTicket
  <2> QED BY <1>0, <1>1, <1>3, <2>1, <2>2 DEF TypeOK
<1> QED BY <1>7, <1>8, <1>9, <1>10, <1>11, <1>13, <1>14, <1>15, <1>16, <1>17, <1>18, <1>19,
           <1>20, <1>21, <1>22, <1>23, <1>24, <1>25, <1>26 DEF Step

\* A request comes in: it looks up its user's ticket.
LEMMA Requests ==
    ASSUME TypeInv, NEW f \in Flows, NEW u \in Users, NEW call \in Calls, Request(f, u, call)
    PROVE  LET x == NewFrame("look", call, u) IN
           /\ flow[f].pc = "idle" /\ u \in session
           /\ \A g \in Flows : IsIdle(g) \/ flow[g].who # u
           /\ Becomes(f, x) /\ x.pc = "look" /\ x.call = call /\ x.who = u
           /\ UNCHANGED <<ticket, age, lock, people, server, marker, counts>>
<1>1. flow \in [Flows -> Frame] BY DEF TypeInv, TypeOK
<1>2. /\ NewFrame("look", call, u) \in Frame /\ NewFrame("look", call, u).pc = "look"
      /\ NewFrame("look", call, u).call = call /\ NewFrame("look", call, u).who = u
  BY NewFrameFacts DEF Steps
<1>3. Becomes(f, NewFrame("look", call, u))
  BY <1>1, <1>2, Moves DEF Request
<1> QED BY <1>2, <1>3 DEF Request, IsIdle

LEMMA RequestTypes ==
    ASSUME TypeInv, NEW f \in Flows, NEW u \in Users,
           Enter(f, u) \/ Poll(f, u) \/ Cancel(f, u)
    PROVE  TypeInv'
<1> DEFINE call == IF Enter(f, u) THEN "enter" ELSE IF Poll(f, u) THEN "status" ELSE "cancel"
<1>1. call \in Calls /\ Request(f, u, call)
      /\ (call = "enter" => entries + Cardinality(Entering) < MaxEntries)
  BY DEF Enter, Poll, Cancel, Calls
<1> HIDE DEF call
<1>2. PICK x : Becomes(f, x) /\ x.pc = "look" /\ x.call = call /\ x.who = u
  BY <1>1, Requests
<1>3. UNCHANGED <<ticket, age, lock, people, server, marker, counts>>
  BY <1>1, Requests
<1>4. Sound(x) BY <1>2 DEF Sound, HasRoom
<1>5. flow' \in [Flows -> Frame] /\ \A g \in Flows : Sound(flow'[g])
  BY <1>2, <1>4 DEF Becomes, TypeInv
<1>6. entries' + Cardinality(Entering)' <= MaxEntries
  <2>1. /\ Cardinality(Entering) \in Nat /\ Cardinality(Entering)' \in Nat
        /\ ~Enters(x) => Cardinality(Entering)' <= Cardinality(Entering)
        /\ Cardinality(Entering)' <= Cardinality(Entering) + 1
    BY <1>2, EnteringChanges
  <2>2. entries' = entries /\ entries \in Nat /\ entries + Cardinality(Entering) <= MaxEntries
    BY <1>3 DEF TypeInv, TypeOK, counts
  <2>3. ~Enters(x) \/ entries + Cardinality(Entering) < MaxEntries
    BY <1>1, <1>2 DEF Enters
  <2> QED BY <2>1, <2>2, <2>3, SizesAssumption
<1>7. /\ TypeOK
      /\ \A v \in Users : ticket[v].status = "WAITING" => ticket[v].left >= 1
  BY DEF TypeInv
<1> QED BY <1>3, <1>5, <1>6, <1>7 DEF TypeInv, TypeOK, people, server, counts

\* What the rest of the server leaves to the requests.
LEMMA EnvironmentLeaves ==
    ASSUME Environment
    PROVE  UNCHANGED <<lock, flow, counts>>
  BY DEF Environment, Connect, Disconnect, Leave, OpenRoom, RemoveAbsent, CloseEmpty,
         HostStarts, GameEnds, ReturnToLobby, RoomExpires, SessionExpires, Tick, Elsewhere

LEMMA EnvironmentTypes ==
    ASSUME TypeInv, Environment
    PROVE  TypeInv'
<1>0. TypeOK /\ ticket \in [Users -> Ticket] BY DEF TypeInv, TypeOK
<1>1. ASSUME ticket' \in [Users -> Ticket],
             \A v \in Users : ticket'[v].status = "WAITING" => ticket'[v].left >= 1,
             age' \in [Users -> Absent .. WaitTtl], session' \subseteq Users,
             home' \in [Users -> Rooms \cup {NoRoom}],
             phase' \in [Rooms -> {"NEW", "LOBBY", "PLAYING", "FINISHED", "GONE"}],
             roster' \in [Rooms -> SUBSET Users], sockets' \in [Rooms -> SUBSET Users],
             marker' \subseteq Rooms, closing' \subseteq Rooms
      PROVE  TypeInv'
  <2>1. UNCHANGED <<lock, flow, entries, failures, autoStarts>>
    BY EnvironmentLeaves DEF counts
  <2>2. Entering' = Entering BY <2>1 DEF Entering
  <2>3. TypeOK' BY <1>0, <1>1, <2>1 DEF TypeOK
  <2>4. (\A f \in Flows : Sound(flow[f]))' BY <2>1 DEF TypeInv
  <2>5. entries' + Cardinality(Entering)' <= MaxEntries
    BY <2>1, <2>2 DEF TypeInv
  <2> QED BY <1>1, <2>3, <2>4, <2>5 DEF TypeInv
<1>2. \A v \in Users : ticket[v].status = "WAITING" => ticket[v].left >= 1
  BY DEF TypeInv
<1> USE DEF Elsewhere
<1>3. ASSUME NEW u \in Users, NEW r \in Rooms,
             Connect(u, r) \/ OpenRoom(u, r) \/ RemoveAbsent(u, r)
      PROVE  TypeInv'
  <2>1. CASE Connect(u, r)
    <3>1. sockets' = [sockets EXCEPT ![r] = @ \cup {u}] /\ closing' \in {closing, closing \ {r}}
          /\ UNCHANGED <<ticket, age, session, home, phase, roster, marker>>
      BY <2>1 DEF Connect
    <3>2. sockets' \in [Rooms -> SUBSET Users] /\ closing' \subseteq Rooms
      BY <1>0, <3>1 DEF TypeOK
    <3> QED BY <1>0, <1>1, <1>2, <3>1, <3>2 DEF TypeOK
  <2>2. CASE OpenRoom(u, r)
    <3>1. /\ phase' = [phase EXCEPT ![r] = "LOBBY"]
          /\ roster' = [roster EXCEPT ![r] = {u}]
          /\ home' = [home EXCEPT ![u] = r]
          /\ UNCHANGED <<ticket, age, session, sockets, closing, marker>>
      BY <2>2 DEF OpenRoom
    <3>2. /\ phase' \in [Rooms -> {"NEW", "LOBBY", "PLAYING", "FINISHED", "GONE"}]
          /\ roster' \in [Rooms -> SUBSET Users]
          /\ home' \in [Users -> Rooms \cup {NoRoom}]
      BY <1>0, <3>1 DEF TypeOK
    <3> QED BY <1>0, <1>1, <1>2, <3>1, <3>2 DEF TypeOK
  <2>3. CASE RemoveAbsent(u, r)
    <3>1. LeaveRoster(u, r) /\ UNCHANGED <<ticket, age, session, home, sockets, closing, marker>>
      BY <2>3 DEF RemoveAbsent
    <3> QED BY <1>0, <1>1, <1>2, <3>1, RoomTypes DEF TypeOK
  <2> QED BY <1>3, <2>1, <2>2, <2>3
<1>4. ASSUME NEW u \in Users, NEW r \in Rooms, Disconnect(u, r) PROVE TypeInv'
  <2>1. /\ sockets' = [sockets EXCEPT ![r] = @ \ {u}]
        /\ UNCHANGED <<age, session, phase, roster, marker>>
        /\ \/ UNCHANGED <<home, ticket, closing>>
           \/ ClearRoom(u) /\ closing' \in {closing \cup {r}, closing}
    BY <1>4 DEF Disconnect
  <2>2. sockets' \in [Rooms -> SUBSET Users] /\ closing' \subseteq Rooms
    BY <1>0, <2>1 DEF TypeOK
  <2>3. CASE UNCHANGED <<home, ticket, closing>>
    BY <1>0, <1>1, <1>2, <2>1, <2>2, <2>3 DEF TypeOK
  <2>4. CASE ClearRoom(u)
    <3>1. /\ home' \in [Users -> Rooms \cup {NoRoom}] /\ ticket' \in [Users -> Ticket]
          /\ \A v \in Users : ticket'[v].status = "WAITING" => ticket'[v].left >= 1
      BY <1>0, <2>4, RoomTypes, DropsTicket DEF ClearRoom
    <3> QED BY <1>0, <1>1, <2>1, <2>2, <3>1 DEF TypeOK
  <2> QED BY <2>1, <2>3, <2>4
<1>5. ASSUME NEW u \in Users, NEW r \in Rooms, Leave(u, r) PROVE TypeInv'
  <2>1. /\ LeaveRoster(u, r) /\ ClearRoom(u)
        /\ sockets' \in {[sockets EXCEPT ![r] = @ \ {u}], sockets}
        /\ UNCHANGED <<age, session, closing, marker>>
    BY <1>5 DEF Leave
  <2>2. sockets' \in [Rooms -> SUBSET Users]
    BY <1>0, <2>1 DEF TypeOK
  <2>3. /\ home' \in [Users -> Rooms \cup {NoRoom}] /\ ticket' \in [Users -> Ticket]
        /\ \A v \in Users : ticket'[v].status = "WAITING" => ticket'[v].left >= 1
    BY <1>0, <2>1, RoomTypes, DropsTicket DEF ClearRoom
  <2> QED BY <1>0, <1>1, <2>1, <2>2, <2>3, RoomTypes DEF TypeOK
<1>6. ASSUME NEW r \in Rooms,
             CloseEmpty(r) \/ HostStarts(r) \/ GameEnds(r) \/ ReturnToLobby(r) \/ RoomExpires(r)
      PROVE  TypeInv'
  <2>1. /\ UNCHANGED <<ticket, age, session, home, sockets>>
        /\ closing' \in {closing, closing \ {r}} /\ marker' \in {marker, marker \ {r}}
        /\ \/ Closed(r)
           \/ UNCHANGED <<phase, roster>>
           \/ \E p \in {"LOBBY", "PLAYING", "FINISHED"} :
                phase' = [phase EXCEPT ![r] = p] /\ UNCHANGED roster
    BY <1>6 DEF CloseEmpty, HostStarts, GameEnds, ReturnToLobby, RoomExpires
  <2>2. closing' \subseteq Rooms /\ marker' \subseteq Rooms
    BY <1>0, <2>1 DEF TypeOK
  <2>3. /\ phase' \in [Rooms -> {"NEW", "LOBBY", "PLAYING", "FINISHED", "GONE"}]
        /\ roster' \in [Rooms -> SUBSET Users]
    BY <1>0, <2>1 DEF TypeOK, Closed
  <2> QED BY <1>0, <1>1, <1>2, <2>1, <2>2, <2>3 DEF TypeOK
<1>7. ASSUME NEW u \in Users, SessionExpires(u) PROVE TypeInv'
  BY <1>0, <1>1, <1>2, <1>7 DEF SessionExpires, TypeOK, server
<1>8. ASSUME Tick PROVE TypeInv'
  <2>1. /\ age' = [u \in Users |-> IF age[u] \in 0 .. WaitTtl - 1 THEN age[u] + 1 ELSE age[u]]
        /\ ticket' = [u \in Users |->
                         IF RunsOut(u) THEN NoTicket
                         ELSE IF ticket[u].status = "WAITING"
                              THEN [ticket[u] EXCEPT !.left = @ - 1] ELSE ticket[u]]
        /\ UNCHANGED <<people, server, marker>>
    BY <1>8 DEF Tick
  <2>2. age' \in [Users -> Absent .. WaitTtl]
    BY <1>0, <2>1, SizesAssumption DEF TypeOK, Absent
  <2>3. ASSUME NEW u \in Users
        PROVE  ticket'[u] \in Ticket /\ (ticket'[u].status = "WAITING" => ticket'[u].left >= 1)
    <3>1. ticket[u] \in Ticket /\ (ticket[u].status = "WAITING" => ticket[u].left >= 1)
          /\ ticket[u].left \in Nat
      BY <1>0, <1>2, TicketFacts
    <3>2. CASE RunsOut(u)
      BY <2>1, <3>2, TicketFacts
    <3>3. CASE ~RunsOut(u) /\ ticket[u].status = "WAITING"
      <4>1. ticket'[u] = [ticket[u] EXCEPT !.left = @ - 1] BY <2>1, <3>3
      <4>2. ticket[u].left - 1 >= 1 BY <3>1, <3>3 DEF RunsOut
      <4> QED BY <3>1, <3>3, <4>1, <4>2, TicketFacts
    <3>4. CASE ~RunsOut(u) /\ ticket[u].status # "WAITING"
      BY <2>1, <3>1, <3>4
    <3> QED BY <3>2, <3>3, <3>4
  <2>4. ticket' \in [Users -> Ticket]
    <3>1. ticket' = [u \in Users |-> ticket'[u]] BY <2>1
    <3> QED BY <2>3, <3>1
  <2> QED BY <1>0, <1>1, <2>1, <2>2, <2>3, <2>4 DEF TypeOK, people, server
<1> QED BY <1>3, <1>4, <1>5, <1>6, <1>7, <1>8 DEF Environment

LEMMA InitTypes == Init => TypeInv
<1> SUFFICES ASSUME Init PROVE TypeInv OBVIOUS
<1>1. NoFrame \in Frame /\ NoFrame.pc = "idle" /\ NoFrame.call = "status"
  BY NewFrameFacts DEF NoFrame, Steps, Calls
<1>2. ticket \in [Users -> Ticket] /\ \A u \in Users : ticket[u].status = "NONE"
  BY TicketFacts DEF Init
<1>3. age \in [Users -> Absent .. WaitTtl]
  BY SizesAssumption DEF Init, Absent
<1>4. flow \in [Flows -> Frame] /\ \A f \in Flows : flow[f] = NoFrame
  BY <1>1 DEF Init
<1>5. Entering = {} BY <1>1, <1>4 DEF Entering
<1>6. Cardinality({}) = 0 BY FS_EmptySet
<1>7. entries = 0 /\ failures = 0 /\ entries \in 0 .. MaxEntries /\ failures \in 0 .. MaxFailures
  BY SizesAssumption DEF Init
<1>8. TypeOK BY <1>2, <1>3, <1>4, <1>7 DEF Init, TypeOK
<1>9. \A f \in Flows : Sound(flow[f]) BY <1>1, <1>4 DEF Sound, HasRoom
<1>10. entries + Cardinality(Entering) <= MaxEntries BY <1>5, <1>6, <1>7, SizesAssumption
<1> QED BY <1>2, <1>8, <1>9, <1>10 DEF TypeInv

LEMMA NextTypes == TypeInv /\ [Next]_vars => TypeInv'
<1> SUFFICES ASSUME TypeInv, [Next]_vars PROVE TypeInv' OBVIOUS
<1>1. CASE UNCHANGED vars
  <2>1. Entering' = Entering BY <1>1 DEF vars, Entering
  <2>2. TypeOK' BY <1>1 DEF vars, people, server, counts, TypeInv, TypeOK
  <2> QED BY <1>1, <2>1, <2>2 DEF vars, counts, TypeInv
<1>2. ASSUME NEW f \in Flows, Step(f) PROVE TypeInv' BY <1>2, StepTypes
<1>3. ASSUME NEW f \in Flows, NEW u \in Users, Enter(f, u) \/ Poll(f, u) \/ Cancel(f, u)
      PROVE  TypeInv'
  BY <1>3, RequestTypes
<1>4. CASE Environment BY <1>4, EnvironmentTypes
<1> QED BY <1>1, <1>2, <1>3, <1>4 DEF Next

LEMMA TypesAlways == Spec => []TypeInv
<1>1. Init => TypeInv BY InitTypes
<1>2. TypeInv /\ [Next]_vars => TypeInv' BY NextTypes
<1> QED BY <1>1, <1>2, PTL DEF Spec

\* Quick match keeps its types: the queue, the tickets, the rooms and what the requests
\* carry across their awaits (the states of quickMatchService.ts and quickMatchRunner.ts).
THEOREM QuickMatchIsOK == Spec => []TypeOK
<1>1. TypeInv => TypeOK BY DEF TypeInv
<1> QED BY <1>1, TypesAlways, PTL

-----------------------------------------------------------------------------
(* Who has the lock, and whom a request is for.                            *)

Locked == {"pick", "create", "seat", "rollback", "dequeue", "mark", "marker", "unlock", "fail"}
Unseated == Steps \ {"seat", "rollback", "dequeue", "mark", "marker", "unlock", "fail"}

\* One match at a time, one request of a user at a time, and nobody has a seat
\* before the room is there.
FrameOK(x) ==
    /\ x.call = "cancel" => "cancel" \in Happens
    /\ x.pc \in {"unqueue", "forget"} => x.call = "cancel"
    /\ x.pc = "forget" => age[x.who] = Absent
    /\ x.pc \in Unseated => x.seated = {}

FlowInv ==
    /\ \A f \in Flows : (flow[f].pc \in Locked <=> lock = f) /\ FrameOK(flow[f])
    /\ \A f, g \in Flows : flow[f].who = flow[g].who => f = g \/ IsIdle(f) \/ IsIdle(g)

\* A request goes on as x: the lock follows it, x is for the same user or for one
\* that has no other request, and only that user may come into the queue.
LEMMA FlowGoesOn ==
    ASSUME TypeInv, FlowInv, NEW f \in Flows, NEW x, Becomes(f, x),
           x.pc \in Locked <=> lock' = f,
           \A g \in Flows \ {f} : lock' = g <=> lock = g,
           \/ x.pc = "idle"
           \/ x.who = flow[f].who /\ flow[f].pc # "idle"
           \/ \A g \in Flows : IsIdle(g) \/ flow[g].who # x.who,
           \A u \in Users : \/ age'[u] \in {age[u], Absent}
                            \/ u = flow[f].who /\ flow[f].pc \notin {"idle", "forget"},
           FrameOK(x)'
    PROVE  FlowInv'
<1>1. flow'[f] = x /\ \A g \in Flows : g # f => flow'[g] = flow[g]
  BY DEF Becomes
<1>2. \A g \in Flows : (flow'[g].pc \in Locked <=> lock' = g)
  BY <1>1 DEF FlowInv
<1>3. \A g \in Flows : FrameOK(flow[g])'
  <2>1. x' = x /\ flow'[f] = x BY <1>1
  <2>2. ASSUME NEW g \in Flows, g # f PROVE FrameOK(flow[g])'
    <3>1. flow'[g] = flow[g] /\ FrameOK(flow[g]) BY <1>1, <2>2 DEF FlowInv
    <3>2. flow[g].pc = "forget" => age'[flow[g].who] = Absent
      <4>1. flow[g].pc = "forget" => flow[g].who \in Users /\ age[flow[g].who] = Absent
        BY <3>1 DEF FrameOK, TypeInv, Sound
      <4>2. flow[g].pc = "forget" /\ flow[f].pc # "idle" => flow[g].who # flow[f].who
        BY <2>2 DEF FlowInv, IsIdle
      <4> QED BY <4>1, <4>2
    <3> QED BY <3>1, <3>2 DEF FrameOK
  <2> QED BY <2>1, <2>2
<1>4. ASSUME NEW g \in Flows, NEW h \in Flows, flow'[g].who = flow'[h].who, g # h
      PROVE  IsIdle(g)' \/ IsIdle(h)'
  BY <1>1, <1>4 DEF FlowInv, IsIdle
<1> QED BY <1>2, <1>3, <1>4 DEF FlowInv

\* The same when only the place of the request changes.
LEMMA FlowGoesTo ==
    ASSUME TypeInv, FlowInv, NEW f \in Flows, NEW pc \in Steps, Becomes(f, At(f, pc)),
           flow[f].pc # "idle", pc \in Locked <=> lock' = f,
           \A g \in Flows \ {f} : lock' = g <=> lock = g,
           \A u \in Users : \/ age'[u] \in {age[u], Absent}
                            \/ u = flow[f].who /\ flow[f].pc \notin {"idle", "forget"},
           pc \in {"unqueue", "forget"} => flow[f].call = "cancel",
           pc = "forget" => age'[flow[f].who] = Absent,
           pc \in Unseated => flow[f].pc \in Unseated
    PROVE  FlowInv'
<1>1. flow \in [Flows -> Frame] BY DEF TypeInv, TypeOK
<1>2. PICK x : x = At(f, pc) OBVIOUS
<1>3. /\ x.pc = pc /\ x.call = flow[f].call /\ x.who = flow[f].who
      /\ x.seated = flow[f].seated /\ Becomes(f, x)
  BY <1>1, <1>2, AtFacts
<1>4. FrameOK(flow[f]) BY DEF FlowInv
<1>5. FrameOK(x)' BY <1>3, <1>4 DEF FrameOK
<1> QED BY <1>3, <1>5, FlowGoesOn

\* The same when the request is over, or goes on as a status.
LEMMA FlowIsOver ==
    ASSUME TypeInv, FlowInv, NEW f \in Flows,
           \/ Becomes(f, NoFrame)
           \/ Becomes(f, NewFrame("look", "entered", flow[f].who)) /\ flow[f].pc # "idle",
           lock' # f, \A g \in Flows \ {f} : lock' = g <=> lock = g,
           \A u \in Users : age'[u] \in {age[u], Absent}
    PROVE  FlowInv'
<1>1. flow \in [Flows -> Frame] /\ flow[f].who \in Users \cup {Nobody}
  BY FrameFacts DEF TypeInv, TypeOK
<1>2. PICK x : /\ Becomes(f, x) /\ x.pc \in {"idle", "look"} /\ x.call \in {"status", "entered"}
               /\ x.seated = {} /\ (x.pc = "look" => x.who = flow[f].who /\ flow[f].pc # "idle")
  <2>1. NoFrame.pc = "idle" /\ NoFrame.call = "status" /\ NoFrame.seated = {}
    BY NewFrameFacts DEF NoFrame, Steps, Calls
  <2>2. LET x == NewFrame("look", "entered", flow[f].who) IN
          x.pc = "look" /\ x.call = "entered" /\ x.seated = {} /\ x.who = flow[f].who
    BY <1>1, NewFrameFacts DEF Steps, Calls
  <2> QED BY <2>1, <2>2
<1>3. FrameOK(x)' BY <1>2 DEF FrameOK
<1>4. x.pc \notin Locked BY <1>2 DEF Locked
<1> QED BY <1>2, <1>3, <1>4, FlowGoesOn

LEMMA FlowInit == Init => FlowInv
<1> SUFFICES ASSUME Init PROVE FlowInv OBVIOUS
<1>1. \A f \in Flows : flow[f].pc = "idle" /\ flow[f].call = "status" /\ flow[f].seated = {}
  BY NewFrameFacts DEF Init, NoFrame, Steps, Calls
<1>2. \A f \in Flows : lock # f BY ManyAssumption DEF Init
<1> QED BY <1>1, <1>2 DEF FlowInv, FrameOK, Locked, IsIdle

LEMMA FlowSteps ==
    ASSUME TypeInv, FlowInv, NEW f \in Flows, Step(f)
    PROVE  FlowInv'
<1>0. /\ flow \in [Flows -> Frame] /\ age \in [Users -> Absent .. WaitTtl]
      /\ (flow[f].pc \in Locked <=> lock = f) /\ FrameOK(flow[f])
      /\ \A g \in Flows : g # NoFlow
  BY ManyAssumption DEF TypeInv, TypeOK, FlowInv
<1> USE DEF Locked, Unseated, Steps
<1>1. CASE Look(f)
  <2>1. flow[f].pc = "look" /\ UNCHANGED <<age, lock>> BY <1>1, Looks
  <2>2. PICK x : /\ Becomes(f, x)
                 /\ \/ x = NoFrame
                    \/ /\ x.call = flow[f].call /\ x.who = flow[f].who /\ x.seated = flow[f].seated
                       /\ x.pc \in {"ticket", "ready", "report", "unqueue"}
                       /\ x.pc = "unqueue" => x.call = "cancel"
    BY <1>1, Looks
  <2>3. CASE x = NoFrame
    BY <1>0, <2>1, <2>2, <2>3, FlowIsOver
  <2>4. CASE /\ x.call = flow[f].call /\ x.who = flow[f].who /\ x.seated = flow[f].seated
             /\ x.pc \in {"ticket", "ready", "report", "unqueue"}
             /\ x.pc = "unqueue" => x.call = "cancel"
    <3>1. FrameOK(x)' BY <1>0, <2>1, <2>4 DEF FrameOK
    <3> QED BY <1>0, <2>1, <2>2, <2>4, <3>1, FlowGoesOn
  <2> QED BY <2>2, <2>3, <2>4
<1>2. CASE PutTicket(f)
  <2>1. flow[f].pc = "ticket" /\ UNCHANGED <<age, lock>> /\ Becomes(f, At(f, "queue"))
    BY <1>2, PlainSteps DEF PutTicket
  <2> QED BY <1>0, <2>1, FlowGoesTo
<1>3. CASE Enqueue(f)
  <2>1. /\ flow[f].pc = "queue" /\ UNCHANGED lock /\ Becomes(f, At(f, "lock"))
        /\ age' = [age EXCEPT ![flow[f].who] = 0]
    BY <1>3, PlainSteps DEF Enqueue
  <2>2. \A u \in Users : age'[u] = age[u] \/ u = flow[f].who BY <1>0, <2>1
  <2> QED BY <1>0, <2>1, <2>2, FlowGoesTo
<1>4. CASE Lock(f)
  <2>1. flow[f].pc = "lock" /\ UNCHANGED age BY <1>4 DEF Lock
  <2>2. CASE lock = NoFlow /\ lock' = f /\ Becomes(f, At(f, "pick"))
    BY <1>0, <2>1, <2>2, FlowGoesTo
  <2>3. CASE lock' = lock /\ Becomes(f, NewFrame("look", "entered", flow[f].who))
    BY <1>0, <2>1, <2>3, FlowIsOver
  <2> QED BY <1>4, <2>2, <2>3, ForkedSteps
<1>5. CASE Pick(f)
  <2>1. flow[f].pc = "pick" /\ UNCHANGED lock BY <1>5, Picks
  <2>2. \A u \in Users : age'[u] \in {age[u], Absent}
    <3>1. PICK A : age' = [u \in Users |-> IF u \in A THEN age[u] ELSE Absent] BY <1>5, Picks
    <3> QED BY <3>1
  <2>3. CASE Becomes(f, At(f, "unlock"))
    BY <1>0, <2>1, <2>2, <2>3, FlowGoesTo
  <2>4. CASE \E S, x : Becomes(f, x) /\ Like(f, x, "create", flow[f].room, S, flow[f].seated)
    <3>1. PICK S, x : Becomes(f, x) /\ Like(f, x, "create", flow[f].room, S, flow[f].seated) BY <2>4
    <3>2. /\ x.pc = "create" /\ x.call = flow[f].call /\ x.who = flow[f].who
          /\ x.seated = flow[f].seated
      BY <3>1 DEF Like
    <3>3. FrameOK(x)' BY <1>0, <2>1, <3>2 DEF FrameOK
    <3> QED BY <1>0, <2>1, <2>2, <3>1, <3>2, <3>3, FlowGoesOn
  <2> QED BY <1>5, <2>3, <2>4, Picks
<1>6. CASE Create(f)
  <2>1. flow[f].pc = "create" /\ UNCHANGED <<age, lock>> BY <1>6, Creates
  <2>2. PICK x, r : Becomes(f, x) /\ Like(f, x, "seat", r, flow[f].players, flow[f].seated)
    BY <1>6, Creates
  <2>3. x.pc = "seat" /\ x.call = flow[f].call /\ x.who = flow[f].who BY <2>2 DEF Like
  <2>4. FrameOK(x)' BY <1>0, <2>1, <2>3 DEF FrameOK
  <2> QED BY <1>0, <2>1, <2>2, <2>3, <2>4, FlowGoesOn
<1>7. CASE Seat(f)
  <2>1. flow[f].pc = "seat" /\ UNCHANGED <<age, lock>> BY <1>7, Sits
  <2>2. CASE Becomes(f, At(f, "rollback"))
    BY <1>0, <2>1, <2>2, FlowGoesTo
  <2>3. CASE \E pc \in {"seat", "dequeue"} : \E x, S :
               Becomes(f, x) /\ Like(f, x, pc, flow[f].room, flow[f].players, S)
    <3>1. PICK pc \in {"seat", "dequeue"} : \E x, S :
               Becomes(f, x) /\ Like(f, x, pc, flow[f].room, flow[f].players, S)
      BY <2>3
    <3>2. PICK x, S : Becomes(f, x) /\ Like(f, x, pc, flow[f].room, flow[f].players, S) BY <3>1
    <3>3. x.pc \in {"seat", "dequeue"} /\ x.call = flow[f].call /\ x.who = flow[f].who
      BY <3>2 DEF Like
    <3>4. FrameOK(x)' BY <1>0, <2>1, <3>3 DEF FrameOK
    <3> QED BY <1>0, <2>1, <3>2, <3>3, <3>4, FlowGoesOn
  <2> QED BY <1>7, <2>2, <2>3, Sits
<1>8. CASE StoreFull(f)
  <2>1. UNCHANGED <<age, lock>> BY <1>8 DEF StoreFull
  <2>2. CASE flow[f].pc \in {"ticket", "lock", "queue"} /\ Becomes(f, NoFrame)
    BY <1>0, <2>1, <2>2, FlowIsOver
  <2>3. CASE flow[f].pc \in {"create", "marker"} /\ Becomes(f, At(f, "fail"))
    BY <1>0, <2>1, <2>3, FlowGoesTo
  <2>4. CASE flow[f].pc = "seat" /\ Becomes(f, At(f, "rollback"))
    BY <1>0, <2>1, <2>4, FlowGoesTo
  <2> QED BY <1>8, <2>2, <2>3, <2>4, ForkedSteps
<1>9. CASE Rollback(f)
  <2>1. flow[f].pc = "rollback" /\ UNCHANGED <<age, lock>> /\ Becomes(f, At(f, "fail"))
    BY <1>9, PlainSteps DEF Rollback
  <2> QED BY <1>0, <2>1, FlowGoesTo
<1>10. CASE Dequeue(f)
  <2>1. /\ flow[f].pc = "dequeue" /\ UNCHANGED lock /\ Becomes(f, At(f, "mark"))
        /\ age' = [u \in Users |-> IF u \in flow[f].players THEN Absent ELSE age[u]]
    BY <1>10, PlainSteps DEF Dequeue
  <2>2. \A u \in Users : age'[u] \in {age[u], Absent} BY <2>1
  <2> QED BY <1>0, <2>1, <2>2, FlowGoesTo
<1>11. CASE MarkMatched(f)
  <2>1. flow[f].pc = "mark" /\ UNCHANGED <<age, lock>> /\ Becomes(f, At(f, "marker"))
    BY <1>11, PlainSteps DEF MarkMatched
  <2> QED BY <1>0, <2>1, FlowGoesTo
<1>12. CASE SetMarker(f)
  <2>1. flow[f].pc = "marker" /\ UNCHANGED <<age, lock>> /\ Becomes(f, At(f, "unlock"))
    BY <1>12, PlainSteps DEF SetMarker
  <2> QED BY <1>0, <2>1, FlowGoesTo
<1>13. CASE Unlock(f)
  <2>1. flow[f].pc \in {"unlock", "fail"} /\ UNCHANGED age /\ lock = f /\ lock' = NoFlow
    BY <1>0, <1>13 DEF Unlock
  <2>2. CASE Becomes(f, NoFrame)
    BY <1>0, <2>1, <2>2, FlowIsOver
  <2>3. CASE Becomes(f, NewFrame("look", "entered", flow[f].who))
    BY <1>0, <2>1, <2>3, FlowIsOver
  <2> QED BY <1>13, <2>2, <2>3, ForkedSteps
<1>14. CASE StartIfReady(f)
  <2>1. flow[f].pc = "ready" /\ UNCHANGED <<age, lock>> BY <1>14 DEF StartIfReady
  <2>2. PICK pc \in {"unmark", "start", "report"} : Becomes(f, At(f, pc))
    BY <1>14, ForkedSteps
  <2> QED BY <1>0, <2>1, <2>2, FlowGoesTo
<1>15. CASE Start(f)
  <2>1. flow[f].pc = "start" /\ UNCHANGED <<age, lock>> BY <1>15 DEF Start
  <2>2. CASE \E pc \in {"unmark", "report"} : Becomes(f, At(f, pc))
    <3>1. PICK pc \in {"unmark", "report"} : Becomes(f, At(f, pc)) BY <2>2
    <3> QED BY <1>0, <2>1, <3>1, FlowGoesTo
  <2>3. CASE Becomes(f, NoFrame)
    BY <1>0, <2>1, <2>3, FlowIsOver
  <2> QED BY <1>15, <2>2, <2>3, ForkedSteps
<1>16. CASE Unmark(f)
  <2>1. flow[f].pc = "unmark" /\ UNCHANGED <<age, lock>> /\ Becomes(f, At(f, "report"))
    BY <1>16, PlainSteps DEF Unmark
  <2> QED BY <1>0, <2>1, FlowGoesTo
<1>17. CASE Report(f)
  <2>1. flow[f].pc = "report" /\ UNCHANGED <<age, lock>> /\ Becomes(f, NoFrame)
    BY <1>17, PlainSteps DEF Report
  <2> QED BY <1>0, <2>1, FlowIsOver
<1>18. CASE Unqueue(f)
  <2>1. /\ flow[f].pc = "unqueue" /\ UNCHANGED lock /\ Becomes(f, At(f, "forget"))
        /\ age' = [age EXCEPT ![flow[f].who] = Absent]
    BY <1>18, PlainSteps DEF Unqueue
  <2>2. flow[f].who \in Users BY <2>1 DEF TypeInv, Sound
  <2>3. age'[flow[f].who] = Absent /\ \A u \in Users : age'[u] \in {age[u], Absent}
    BY <1>0, <2>1, <2>2
  <2>4. flow[f].call = "cancel" BY <1>0, <2>1 DEF FrameOK
  <2> QED BY <1>0, <2>1, <2>3, <2>4, FlowGoesTo
<1>19. CASE Forget(f)
  <2>1. flow[f].pc = "forget" /\ UNCHANGED <<age, lock>> /\ Becomes(f, NoFrame)
    BY <1>19, PlainSteps DEF Forget
  <2> QED BY <1>0, <2>1, FlowIsOver
<1> QED BY <1>1, <1>2, <1>3, <1>4, <1>5, <1>6, <1>7, <1>8, <1>9, <1>10, <1>11, <1>12, <1>13,
           <1>14, <1>15, <1>16, <1>17, <1>18, <1>19 DEF Step

LEMMA FlowNext == TypeInv /\ FlowInv /\ [Next]_vars => FlowInv'
<1> SUFFICES ASSUME TypeInv, FlowInv, [Next]_vars PROVE FlowInv' OBVIOUS
<1>1. ASSUME UNCHANGED <<lock, flow>>,
             \A f \in Flows : flow[f].pc = "forget" =>
                (age[flow[f].who] = Absent => age'[flow[f].who] = Absent)
      PROVE  FlowInv'
  <2>1. \A f \in Flows : FrameOK(flow[f])' BY <1>1 DEF FlowInv, FrameOK
  <2> QED BY <1>1, <2>1 DEF FlowInv, IsIdle
<1>2. CASE UNCHANGED vars
  BY <1>1, <1>2 DEF vars
<1>3. ASSUME NEW f \in Flows, Step(f) PROVE FlowInv' BY <1>3, FlowSteps
<1>4. ASSUME NEW f \in Flows, NEW u \in Users, Enter(f, u) \/ Poll(f, u) \/ Cancel(f, u)
      PROVE  FlowInv'
  <2>1. PICK call \in Calls : Request(f, u, call) /\ (call = "cancel" => "cancel" \in Happens)
    BY <1>4 DEF Enter, Poll, Cancel, Calls
  <2>2. PICK x : /\ x = NewFrame("look", call, u) /\ Becomes(f, x)
                 /\ x.pc = "look" /\ x.call = call /\ x.who = u
    BY <2>1, Requests
  <2>3. /\ flow[f].pc = "idle" /\ UNCHANGED <<age, lock>>
        /\ \A g \in Flows : IsIdle(g) \/ flow[g].who # u
    BY <2>1, Requests
  <2>4. x.seated = {} BY <2>2, NewFrameFacts DEF Steps
  <2>5. FrameOK(x)' BY <2>1, <2>2, <2>4 DEF FrameOK
  <2>6. flow[f].pc \notin Locked /\ x.pc \notin Locked BY <2>2, <2>3 DEF Locked
  <2>7. lock # f BY <2>6 DEF FlowInv
  <2> QED BY <2>2, <2>3, <2>5, <2>6, <2>7, FlowGoesOn
<1>5. CASE Environment
  <2>1. UNCHANGED <<lock, flow>> BY <1>5, EnvironmentLeaves
  <2>2. UNCHANGED age \/ Tick
    BY <1>5 DEF Environment, Connect, Disconnect, Leave, OpenRoom, RemoveAbsent, CloseEmpty,
         HostStarts, GameEnds, ReturnToLobby, RoomExpires, SessionExpires, Elsewhere
  <2>3. Tick => \A f \in Flows : flow[f].pc # "forget"
    BY DEF Tick, AtRest, IsIdle
  <2> QED BY <1>1, <2>1, <2>2, <2>3
<1> QED BY <1>2, <1>3, <1>4, <1>5 DEF Next

-----------------------------------------------------------------------------
(* Seats.                                                                  *)

\* Whom a match has picked and not yet told, and to whom it has given a seat.
Taken(x) == IF x.pc \in {"create", "seat", "rollback", "dequeue", "mark"} THEN x.players ELSE {}
Held(x) == IF x.pc \in {"seat", "rollback"} THEN x.seated
           ELSE IF x.pc \in {"dequeue", "mark"} THEN x.players ELSE {}

Seated(u, r) == Open(r) /\ u \in roster[r]

\* An enter up to its place in the queue.
EnterOK(x) ==
    /\ x.pc \in {"ticket", "queue"} => home[x.who] = NoRoom /\ x.who \notin Fresh
    /\ x.pc = "ticket" => ticket[x.who].status = "NONE"
    /\ x.pc = "queue" => ticket[x.who] = Waiting

\* A match in the making: who is picked waits, and who has been given a seat knows it.
MatchOK(x) ==
    /\ Held(x) \subseteq Taken(x)
    /\ \A u \in Taken(x) :
         /\ ticket[u].status = "WAITING"
         /\ \A g \in Flows : flow[g].pc = "queue" => flow[g].who # u
    /\ \A u \in Held(x) : home[u] = x.room
    /\ x.pc = "mark" => x.players \cap Queue = {}

\* A user: the session knows of every seat, a ticket of a match names it, who waits has
\* no seat but one that is just being given, and whose entry may be picked waits.
UserOK(u) ==
    /\ \A r \in Rooms : Seated(u, r) => home[u] = r
    /\ ticket[u].status = "MATCHED" => home[u] = ticket[u].room /\ ticket[u].room \in Rooms
    /\ ticket[u].status = "WAITING" =>
         (\A r \in Rooms : ~Seated(u, r)) \/ \E f \in Flows : u \in Held(flow[f])
    /\ u \in Fresh => ticket[u].status = "WAITING" /\ ticket[u].left = WaitTtl - age[u]

NewRoomsEmpty == \A r \in Rooms : phase[r] = "NEW" => roster[r] = {}

SeatInv ==
    /\ TypeInv /\ FlowInv /\ NewRoomsEmpty
    /\ \A f \in Flows : EnterOK(flow[f]) /\ MatchOK(flow[f])
    /\ \A u \in Users : UserOK(u)

\* The request y goes on as x, and nobody is picked, seated or let go of.
Tame(y, x) ==
    /\ Taken(x) \subseteq Taken(y) /\ Held(x) = Held(y) /\ Held(x) \subseteq Taken(x)
    /\ Held(x) # {} => x.room = y.room
    /\ x.pc # "queue"
    /\ x.pc = "ticket" => home'[x.who] = NoRoom /\ x.who \notin Fresh' /\ ticket'[x.who].status = "NONE"
    /\ x.pc = "mark" => x.players \cap Queue' = {}

\* What a step does that picks, seats and lets go of nobody: seats are only lost,
\* places in the queue only given up, and a room is only forgotten by who is not
\* waiting and has no seat in it any more.
Calm ==
    /\ \A r \in Rooms : phase'[r] = "NEW" => roster'[r] = {}
    /\ \A u \in Users, r \in Rooms : Seated(u, r)' => Seated(u, r)
    /\ \A u \in Users : age'[u] \in {age[u], Absent}
    /\ \A u \in Users :
         \/ ticket'[u] = ticket[u] /\ home'[u] = home[u]
         \/ /\ ticket[u].status # "WAITING" /\ ticket'[u].status = "NONE"
            /\ \/ home'[u] = home[u]
               \/ home'[u] = NoRoom /\ \A r \in Rooms : ~Seated(u, r)'
    /\ \A g \in Flows : flow'[g] = flow[g] \/ Tame(flow[g], flow'[g])

LEMMA Shrinks ==
    ASSUME \A u \in Users : age'[u] \in {age[u], Absent}
    PROVE  /\ Queue' \subseteq Queue
           /\ \A u \in Fresh' : u \in Fresh /\ age'[u] = age[u]
  BY DEF Queue, Fresh

LEMMA TakenAreUsers ==
    ASSUME TypeInv, NEW f \in Flows
    PROVE  Taken(flow[f]) \subseteq Users /\ Held(flow[f]) \subseteq Users
  BY FrameFacts DEF TypeInv, TypeOK, Taken, Held

LEMMA CalmSteps ==
    ASSUME SeatInv, TypeInv', FlowInv', Calm
    PROVE  SeatInv'
<1>1. /\ Queue' \subseteq Queue
      /\ \A u \in Fresh' : u \in Fresh /\ age'[u] = age[u]
  BY Shrinks DEF Calm
<1>2. NewRoomsEmpty' BY DEF Calm, NewRoomsEmpty
<1>3. ASSUME NEW f \in Flows PROVE EnterOK(flow[f])'
  <2>1. CASE flow'[f] = flow[f]
    <3>1. flow[f].pc \in {"ticket", "queue"} => flow[f].who \in Users
      BY DEF SeatInv, TypeInv, Sound
    <3>2. EnterOK(flow[f]) BY DEF SeatInv
    <3>3. flow[f].pc \in {"ticket", "queue"} => home'[flow[f].who] = NoRoom /\ flow[f].who \notin Fresh'
      BY <1>1, <3>1, <3>2 DEF EnterOK, Calm
    <3>4. flow[f].pc = "ticket" => ticket'[flow[f].who].status = "NONE"
      BY <3>1, <3>2 DEF EnterOK, Calm
    <3>5. flow[f].pc = "queue" => ticket'[flow[f].who] = Waiting
      BY <3>1, <3>2, TicketFacts DEF EnterOK, Calm
    <3> QED BY <2>1, <3>3, <3>4, <3>5 DEF EnterOK
  <2>2. CASE Tame(flow[f], flow'[f])
    BY <2>2 DEF Tame, EnterOK
  <2> QED BY <2>1, <2>2 DEF Calm
<1>4. \A f \in Flows : /\ Taken(flow'[f]) \subseteq Taken(flow[f]) /\ Held(flow'[f]) = Held(flow[f])
                       /\ Held(flow'[f]) \subseteq Taken(flow'[f])
                       /\ Held(flow'[f]) # {} => flow'[f].room = flow[f].room
                       /\ flow'[f].pc = "queue" => flow'[f] = flow[f]
  BY DEF Calm, Tame, SeatInv, MatchOK
<1>5. ASSUME NEW f \in Flows PROVE MatchOK(flow[f])'
  <2>1. MatchOK(flow[f]) /\ Taken(flow[f]) \subseteq Users BY TakenAreUsers DEF SeatInv
  <2>2. ASSUME NEW u \in Taken(flow'[f])
        PROVE  /\ ticket'[u].status = "WAITING" /\ u \in Users /\ home'[u] = home[u]
               /\ \A g \in Flows : flow'[g].pc = "queue" => flow'[g].who # u
    <3>1. u \in Users /\ ticket[u].status = "WAITING" BY <1>4, <2>1 DEF MatchOK
    <3>2. ticket'[u].status = "WAITING" /\ home'[u] = home[u] BY <3>1 DEF Calm
    <3>3. \A g \in Flows : flow[g].pc = "queue" => flow[g].who # u
      BY <1>4, <2>1 DEF MatchOK
    <3> QED BY <1>4, <3>1, <3>2, <3>3
  <2>3. \A u \in Held(flow'[f]) : home'[u] = flow'[f].room
    BY <1>4, <2>1, <2>2 DEF MatchOK
  <2>4. flow'[f].pc = "mark" => flow'[f].players \cap Queue' = {}
    BY <1>1, <2>1 DEF MatchOK, Calm, Tame
  <2> QED BY <1>4, <2>2, <2>3, <2>4 DEF MatchOK
<1>6. ASSUME NEW u \in Users PROVE UserOK(u)'
  <2>1. UserOK(u) BY DEF SeatInv
  <2>2. \A r \in Rooms : Seated(u, r)' => home'[u] = r
    BY <2>1 DEF UserOK, Calm
  <2>3. ticket'[u].status = "MATCHED" => home'[u] = ticket'[u].room /\ ticket'[u].room \in Rooms
    BY <2>1 DEF UserOK, Calm
  <2>4. ticket'[u].status = "WAITING" =>
          (\A r \in Rooms : ~Seated(u, r)') \/ \E f \in Flows : u \in Held(flow'[f])
    BY <1>4, <2>1 DEF UserOK, Calm
  <2>5. u \in Fresh' => ticket'[u].status = "WAITING" /\ ticket'[u].left = WaitTtl - age'[u]
    BY <1>1, <2>1 DEF UserOK, Calm
  <2> QED BY <2>2, <2>3, <2>4, <2>5 DEF UserOK
<1> QED BY <1>2, <1>3, <1>5, <1>6 DEF SeatInv

LEMMA OneMatch ==
    ASSUME FlowInv, NEW f \in Flows, NEW g \in Flows,
           flow[f].pc \in Locked, Taken(flow[g]) # {}
    PROVE  g = f
<1>1. flow[g].pc \in Locked BY DEF Taken, Locked
<1> QED BY <1>1 DEF FlowInv

\* Closing a room takes the seats in it and gives none, and so does leaving it.
LEMMA Closes ==
    ASSUME TypeOK, NewRoomsEmpty, NEW r \in Rooms, Closed(r)
    PROVE  /\ \A q \in Rooms : phase'[q] = "NEW" => roster'[q] = {}
           /\ \A v \in Users, q \in Rooms : Seated(v, q)' => Seated(v, q)
           /\ \A v \in Users : ~Seated(v, r)'
<1>1. /\ phase' = [phase EXCEPT ![r] = "GONE"]
      /\ roster' = [roster EXCEPT ![r] = {}]
  BY DEF Closed
<1>2. phase'[r] = "GONE" /\ roster'[r] = {}
      /\ \A q \in Rooms : q # r => phase'[q] = phase[q] /\ roster'[q] = roster[q]
  BY <1>1 DEF TypeOK
<1> QED BY <1>2 DEF Seated, Open, NewRoomsEmpty

LEMMA Gives ==
    ASSUME TypeOK, NewRoomsEmpty, NEW u \in Users, NEW r \in Rooms, LeaveRoster(u, r)
    PROVE  /\ \A q \in Rooms : phase'[q] = "NEW" => roster'[q] = {}
           /\ \A v \in Users, q \in Rooms : Seated(v, q)' => Seated(v, q)
           /\ ~Seated(u, r)'
<1>1. CASE Closed(r) BY <1>1, Closes
<1>2. CASE roster' = [roster EXCEPT ![r] = @ \ {u}] /\ UNCHANGED phase
  <2>1. roster'[r] = roster[r] \ {u} /\ phase' = phase
        /\ \A q \in Rooms : q # r => roster'[q] = roster[q]
    BY <1>2 DEF TypeOK
  <2> QED BY <2>1 DEF Seated, Open, NewRoomsEmpty
<1> QED BY <1>1, <1>2 DEF LeaveRoster

\* Healing clears a ticket and a session of somebody who is nowhere any more.
LEMMA Heals ==
    ASSUME SeatInv, NEW u \in Users, Heal(u)
    PROVE  /\ \A r \in Rooms : phase'[r] = "NEW" => roster'[r] = {}
           /\ \A v \in Users, r \in Rooms : Seated(v, r)' => Seated(v, r)
           /\ \A v \in Users : v # u => ticket'[v] = ticket[v] /\ home'[v] = home[v]
           /\ ticket[u].status = "MATCHED" /\ ticket'[u] = NoTicket /\ home'[u] = NoRoom
           /\ \A r \in Rooms : ~Seated(u, r)'
<1>1. TypeOK /\ NewRoomsEmpty /\ UserOK(u) BY DEF SeatInv, TypeInv
<1>11. ticket[u].status = "MATCHED" BY DEF Heal, Outlived
<1>12. PICK r \in Rooms : r = ticket[u].room BY <1>1, <1>11 DEF UserOK
<1>2. /\ ticket[u].status = "MATCHED" /\ phase[r] \notin {"LOBBY", "PLAYING"}
      /\ ClearRoom(u)
      /\ \/ phase[r] = "FINISHED" /\ LeaveRoster(u, r)
         \/ ~Seated(u, r) /\ UNCHANGED <<phase, roster>>
  BY <1>12 DEF Heal, Outlived, Seated, Open
<1>3. home[u] = r BY <1>1, <1>2, <1>12 DEF UserOK
<1>4. /\ \A v \in Users : v # u => ticket'[v] = ticket[v] /\ home'[v] = home[v]
      /\ ticket'[u] = NoTicket /\ home'[u] = NoRoom
  BY <1>1, <1>2 DEF ClearRoom, TypeOK
<1>5. CASE LeaveRoster(u, r)
  <2>1. /\ \A q \in Rooms : phase'[q] = "NEW" => roster'[q] = {}
        /\ \A v \in Users, q \in Rooms : Seated(v, q)' => Seated(v, q)
        /\ ~Seated(u, r)'
    BY <1>1, <1>3, <1>5, Gives
  <2>2. \A q \in Rooms : ~Seated(u, q)'
    BY <1>1, <1>3, <2>1 DEF UserOK
  <2> QED BY <1>2, <1>4, <2>1, <2>2
<1>6. CASE ~Seated(u, r) /\ UNCHANGED <<phase, roster>>
  <2>1. \A v \in Users, q \in Rooms : Seated(v, q)' <=> Seated(v, q)
    BY <1>6 DEF Seated, Open
  <2>2. \A q \in Rooms : phase'[q] = "NEW" => roster'[q] = {}
    BY <1>1, <1>6 DEF NewRoomsEmpty
  <2>3. \A q \in Rooms : ~Seated(u, q)'
    BY <1>1, <1>3, <1>6, <2>1 DEF UserOK
  <2> QED BY <1>2, <1>4, <2>1, <2>2, <2>3
<1> QED BY <1>2, <1>5, <1>6

\* A request that goes on, and is not about to pick, seat or let go of anybody.
LEMMA GoesCalmly ==
    ASSUME NEW f \in Flows, NEW x, Becomes(f, x), Tame(flow[f], x)
    PROVE  \A g \in Flows : flow'[g] = flow[g] \/ Tame(flow[g], flow'[g])
  BY DEF Becomes

\* A request that has picked nobody goes to a place that picks nobody.
Quiet == Steps \ {"queue", "ticket", "create", "seat", "rollback", "dequeue", "mark"}

LEMMA QuietIsTame ==
    ASSUME NEW y, NEW x, Held(y) = {}, x.pc \in Quiet
    PROVE  Tame(y, x)
  BY DEF Tame, Held, Taken, Quiet

\* Steps that touch neither sessions nor tickets nor seats.
LEMMA CalmWhen ==
    ASSUME SeatInv, UNCHANGED <<ticket, home, phase, roster>>,
           \A u \in Users : age'[u] \in {age[u], Absent},
           \A g \in Flows : flow'[g] = flow[g] \/ Tame(flow[g], flow'[g])
    PROVE  Calm
<1>1. \A u \in Users, r \in Rooms : Seated(u, r)' <=> Seated(u, r) BY DEF Seated, Open
<1>2. \A r \in Rooms : phase'[r] = "NEW" => roster'[r] = {} BY DEF SeatInv, NewRoomsEmpty
<1> QED BY <1>1, <1>2 DEF Calm

LEMMA SeatsCalm ==
    ASSUME SeatInv, TypeInv', FlowInv', NEW f \in Flows,
           \/ Look(f) \/ Lock(f) \/ StoreFull(f) \/ Dequeue(f) \/ SetMarker(f) \/ Unlock(f)
           \/ StartIfReady(f) \/ Unmark(f) \/ Unqueue(f) \/ Report(f)
    PROVE  SeatInv'
<1>0. /\ TypeInv /\ flow \in [Flows -> Frame] /\ FlowInv
      /\ EnterOK(flow[f]) /\ MatchOK(flow[f]) /\ Sound(flow[f]) /\ FrameOK(flow[f])
      /\ age \in [Users -> Absent .. WaitTtl]
  BY DEF SeatInv, TypeInv, TypeOK, FlowInv
<1>1. ASSUME NEW x, Becomes(f, x), Tame(flow[f], x), UNCHANGED <<ticket, home, phase, roster>>,
             \A u \in Users : age'[u] \in {age[u], Absent}
      PROVE  SeatInv'
  BY <1>1, GoesCalmly, CalmWhen, CalmSteps
<1>2. \A pc \in Quiet : pc \in Steps /\ At(f, pc).pc = pc
  BY <1>0, AtFacts DEF Quiet
<1>3. \A pc \in Quiet : Held(flow[f]) = {} => Tame(flow[f], At(f, pc))
  BY <1>2, QuietIsTame
<1>4. Held(flow[f]) = {} => /\ Tame(flow[f], NoFrame)
                            /\ Tame(flow[f], NewFrame("look", "entered", flow[f].who))
  <2>1. NoFrame.pc = "idle" BY NewFrameFacts DEF NoFrame, Steps, Calls
  <2>2. NewFrame("look", "entered", flow[f].who).pc = "look"
    <3>1. flow[f].who \in Users \cup {Nobody} BY <1>0, FrameFacts
    <3> QED BY <3>1, NewFrameFacts DEF Steps, Calls
  <2> QED BY <2>1, <2>2, QuietIsTame DEF Quiet, Steps
<1> USE DEF people, server, counts
<1>5. CASE Look(f)
  <2>11. PICK u \in Users : u = flow[f].who BY <1>0, <1>5, Looks
  <2>1. /\ flow[f].pc = "look" /\ u \in Users /\ UNCHANGED age
        /\ Heal(u) \/ UNCHANGED <<ticket, home, phase, roster>>
    BY <1>0, <1>5, <2>11, Looks
  <2>2. PICK x : /\ Becomes(f, x)
                 /\ \/ x = NoFrame /\ x.pc = "idle"
                    \/ /\ x.who = u
                       /\ \/ /\ x.pc = "ticket"
                             /\ \/ Heal(u)
                                \/ ticket[u].status = "NONE" /\ home[u] = NoRoom /\ UNCHANGED <<ticket, home>>
                          \/ x.pc \in {"ready", "report", "unqueue"}
    BY <1>0, <1>5, <2>11, Looks
  <2>3. Held(flow[f]) = {} /\ Taken(flow[f]) = {} /\ UserOK(u)
    BY <2>1 DEF Held, Taken, SeatInv
  <2>4. Fresh' = Fresh BY <2>1 DEF Fresh, Queue
  <2>5. Heal(u) => /\ home'[u] = NoRoom /\ ticket'[u].status = "NONE"
                   /\ ticket[u].status = "MATCHED"
    BY <2>1, Heals, TicketFacts
  <2>6. Tame(flow[f], x)
    <3>1. CASE x.pc = "ticket"
      <4>1. home'[u] = NoRoom /\ ticket'[u].status = "NONE" /\ u \notin Fresh
        BY <2>2, <2>3, <2>5, <3>1 DEF UserOK
      <4>2. Held(x) = {} /\ Taken(x) = {} BY <3>1 DEF Held, Taken
      <4> QED BY <2>2, <2>3, <2>4, <3>1, <4>1, <4>2 DEF Tame
    <3>2. CASE x.pc # "ticket"
      <4>1. x.pc \in Quiet BY <2>2, <3>2 DEF Quiet, Steps
      <4> QED BY <2>3, <4>1, QuietIsTame
    <3> QED BY <3>1, <3>2
  <2>7. CASE UNCHANGED <<ticket, home, phase, roster>>
    BY <1>1, <2>1, <2>2, <2>6, <2>7
  <2>8. CASE Heal(u)
    <3>1. Calm BY <2>1, <2>2, <2>6, <2>8, Heals, GoesCalmly, TicketFacts DEF Calm
    <3> QED BY <3>1, CalmSteps
  <2> QED BY <2>1, <2>7, <2>8
<1>6. CASE Lock(f)
  <2>1. Held(flow[f]) = {} /\ UNCHANGED <<age, ticket, home, phase, roster>>
    BY <1>6 DEF Lock, Held
  <2>2. "pick" \in Quiet BY DEF Quiet, Steps
  <2> QED BY <1>1, <1>3, <1>4, <1>6, <2>1, <2>2, ForkedSteps, <1>0
<1>7. CASE StoreFull(f)
  <2>1. UNCHANGED <<age, ticket, home, phase, roster>> BY <1>7 DEF StoreFull
  <2>2. CASE flow[f].pc \in {"ticket", "lock", "queue"} /\ Becomes(f, NoFrame)
    BY <1>1, <1>4, <2>1, <2>2 DEF Held
  <2>3. CASE flow[f].pc \in {"create", "marker"} /\ Becomes(f, At(f, "fail"))
    BY <1>1, <1>3, <2>1, <2>3 DEF Held, Quiet, Steps
  <2>4. CASE flow[f].pc = "seat" /\ flow[f].seated = {} /\ Becomes(f, At(f, "rollback"))
    <3>1. PICK x : x = At(f, "rollback") OBVIOUS
    <3>2. x.pc = "rollback" /\ x.players = flow[f].players /\ x.seated = {}
      BY <1>0, <2>4, <3>1, AtFacts DEF Steps
    <3>3. Tame(flow[f], x) BY <2>4, <3>2 DEF Tame, Held, Taken
    <3> QED BY <1>1, <2>1, <2>4, <3>1, <3>3
  <2> QED BY <1>0, <1>7, <2>2, <2>3, <2>4, ForkedSteps
<1>8. CASE Dequeue(f)
  <2>1. /\ flow[f].pc = "dequeue" /\ UNCHANGED <<ticket, home, phase, roster>>
        /\ Becomes(f, At(f, "mark"))
        /\ age' = [u \in Users |-> IF u \in flow[f].players THEN Absent ELSE age[u]]
    BY <1>0, <1>8, PlainSteps DEF Dequeue
  <2>2. \A u \in Users : age'[u] \in {age[u], Absent} BY <2>1
  <2>3. PICK x : x = At(f, "mark") OBVIOUS
  <2>4. x.pc = "mark" /\ x.players = flow[f].players /\ x.room = flow[f].room
    BY <1>0, <2>3, AtFacts DEF Steps
  <2>5. flow[f].players \cap Queue' = {} BY <2>1 DEF Queue
  <2>6. Tame(flow[f], x) BY <2>1, <2>4, <2>5 DEF Tame, Held, Taken
  <2> QED BY <1>1, <2>1, <2>2, <2>3, <2>6
<1>9. CASE SetMarker(f)
  <2>1. Held(flow[f]) = {} /\ UNCHANGED <<age, ticket, home, phase, roster>>
    BY <1>9 DEF SetMarker, Held
  <2> QED BY <1>0, <1>1, <1>3, <1>9, <2>1, PlainSteps DEF Quiet, Steps
<1>10. CASE Unlock(f)
  <2>1. Held(flow[f]) = {} /\ UNCHANGED <<age, ticket, home, phase, roster>>
    BY <1>10 DEF Unlock, Held
  <2> QED BY <1>0, <1>1, <1>4, <1>10, <2>1, ForkedSteps
<1>11. CASE StartIfReady(f)
  <2>1. Held(flow[f]) = {} /\ UNCHANGED <<age, ticket, home, phase, roster>>
    BY <1>11 DEF StartIfReady, Held
  <2>2. PICK pc \in {"unmark", "start", "report"} : Becomes(f, At(f, pc))
    BY <1>0, <1>11, ForkedSteps
  <2>3. pc \in Quiet BY DEF Quiet, Steps
  <2> QED BY <1>1, <1>3, <2>1, <2>2, <2>3
<1>12. CASE Unmark(f)
  <2>1. Held(flow[f]) = {} /\ UNCHANGED <<age, ticket, home, phase, roster>>
    BY <1>12 DEF Unmark, Held
  <2> QED BY <1>0, <1>1, <1>3, <1>12, <2>1, PlainSteps DEF Quiet, Steps
<1>13. CASE Unqueue(f)
  <2>1. /\ Held(flow[f]) = {} /\ UNCHANGED <<ticket, home, phase, roster>>
        /\ age' = [age EXCEPT ![flow[f].who] = Absent] /\ Becomes(f, At(f, "forget"))
    BY <1>0, <1>13, PlainSteps DEF Unqueue, Held
  <2>2. \A u \in Users : age'[u] \in {age[u], Absent} BY <1>0, <2>1
  <2>3. "forget" \in Quiet BY DEF Quiet, Steps
  <2> QED BY <1>1, <1>3, <2>1, <2>2, <2>3
<1>14. CASE Report(f)
  <2>11. PICK u \in Users : u = flow[f].who BY <1>0, <1>14 DEF Report, Sound
  <2>1. /\ u \in Users /\ Becomes(f, NoFrame) /\ UNCHANGED age /\ Held(flow[f]) = {}
        /\ \/ Heal(u)
           \/ /\ UNCHANGED <<home, phase, roster>>
              /\ \/ ticket' = ticket
                 \/ ticket[u].status = "MATCHED" /\ ticket' = [ticket EXCEPT ![u] = NoTicket]
    BY <1>0, <1>14, <2>11, PlainSteps DEF Report, Held, Spends
  <2>2. \A g \in Flows : flow'[g] = flow[g] \/ Tame(flow[g], flow'[g])
    BY <1>4, <2>1, GoesCalmly
  <2>3. CASE Heal(u)
    <3>1. Calm BY <2>1, <2>2, <2>3, Heals, TicketFacts DEF Calm
    <3> QED BY <3>1, CalmSteps
  <2>4. CASE UNCHANGED <<home, phase, roster, ticket>>
    BY <2>1, <2>2, <2>4, CalmWhen, CalmSteps
  <2>5. CASE /\ UNCHANGED <<home, phase, roster>> /\ ticket[u].status = "MATCHED"
             /\ ticket' = [ticket EXCEPT ![u] = NoTicket]
    <3>1. \A v \in Users : \/ ticket'[v] = ticket[v]
                           \/ ticket[v].status # "WAITING" /\ ticket'[v].status = "NONE"
      BY <1>0, <2>5, TicketFacts DEF TypeInv, TypeOK
    <3>2. \A v \in Users, r \in Rooms : Seated(v, r)' <=> Seated(v, r) BY <2>5 DEF Seated, Open
    <3>3. \A r \in Rooms : phase'[r] = "NEW" => roster'[r] = {} BY <2>5 DEF SeatInv, NewRoomsEmpty
    <3>4. Calm BY <2>1, <2>2, <2>5, <3>1, <3>2, <3>3 DEF Calm
    <3> QED BY <3>4, CalmSteps
  <2> QED BY <2>1, <2>3, <2>4, <2>5
<1> QED BY <1>5, <1>6, <1>7, <1>8, <1>9, <1>10, <1>11, <1>12, <1>13, <1>14

\* Putting a ticket: its user has no seat, no place in the queue and no other request.
LEMMA SeatsPutTicket ==
    ASSUME SeatInv, TypeInv', FlowInv', NEW f \in Flows, PutTicket(f)
    PROVE  SeatInv'
<1>0. /\ TypeInv /\ FlowInv /\ flow \in [Flows -> Frame] /\ ticket \in [Users -> Ticket]
      /\ EnterOK(flow[f]) /\ flow[f].pc = "ticket" /\ Sound(flow[f])
  BY DEF SeatInv, TypeInv, TypeOK, PutTicket
<1>1. PICK u \in Users : u = flow[f].who BY <1>0 DEF Sound
<1>2. /\ UNCHANGED <<age, home, phase, roster>> /\ ticket' = [ticket EXCEPT ![u] = Waiting]
      /\ Becomes(f, At(f, "queue"))
  BY <1>0, <1>1, PlainSteps DEF PutTicket, people, server
<1>3. /\ home[u] = NoRoom /\ u \notin Fresh /\ ticket[u].status = "NONE"
  BY <1>0, <1>1 DEF EnterOK
<1>4. /\ ticket'[u] = Waiting /\ \A v \in Users : v # u => ticket'[v] = ticket[v]
  BY <1>0, <1>2
<1>5. PICK x : x = At(f, "queue") OBVIOUS
<1>6. x.pc = "queue" /\ x.who = u BY <1>0, <1>1, <1>5, AtFacts DEF Steps
<1>7. flow'[f] = x /\ \A g \in Flows : g # f => flow'[g] = flow[g]
  BY <1>2, <1>5 DEF Becomes
<1>8. /\ Fresh' = Fresh /\ Queue' = Queue
      /\ \A v \in Users, r \in Rooms : Seated(v, r)' <=> Seated(v, r)
  BY <1>2 DEF Fresh, Queue, Seated, Open
<1>9. \A g \in Flows : Taken(flow'[g]) \subseteq Taken(flow[g]) /\ Held(flow'[g]) = Held(flow[g])
  BY <1>0, <1>6, <1>7 DEF Taken, Held
<1>10. NewRoomsEmpty' BY <1>2 DEF SeatInv, NewRoomsEmpty
<1>11. ASSUME NEW g \in Flows PROVE EnterOK(flow[g])'
  <2>1. CASE g = f
    BY <1>2, <1>3, <1>4, <1>6, <1>7, <1>8, <2>1 DEF EnterOK
  <2>2. CASE g # f
    <3>1. flow'[g] = flow[g] /\ EnterOK(flow[g]) /\ Sound(flow[g])
      BY <1>7, <2>2 DEF SeatInv, TypeInv
    <3>2. flow[g].pc \in {"ticket", "queue"} => flow[g].who \in Users /\ flow[g].who # u
      BY <1>0, <1>1, <2>2, <3>1 DEF FlowInv, IsIdle, Sound
    <3> QED BY <1>2, <1>4, <1>8, <3>1, <3>2 DEF EnterOK
  <2> QED BY <2>1, <2>2
<1>12. ASSUME NEW g \in Flows PROVE MatchOK(flow[g])'
  <2>1. MatchOK(flow[g]) /\ Taken(flow[g]) \subseteq Users
    BY <1>0, TakenAreUsers DEF SeatInv
  <2>2. u \notin Taken(flow[g]) BY <1>3, <2>1 DEF MatchOK
  <2>3. g = f => Taken(flow'[g]) = {} /\ Held(flow'[g]) = {} /\ flow'[g].pc # "mark"
    BY <1>6, <1>7 DEF Taken, Held
  <2>4. \A v \in Taken(flow'[g]) :
          /\ ticket'[v].status = "WAITING"
          /\ \A h \in Flows : flow'[h].pc = "queue" => flow'[h].who # v
    BY <1>4, <1>6, <1>7, <1>9, <2>1, <2>2 DEF MatchOK
  <2>5. g # f => flow'[g] = flow[g] BY <1>7
  <2> QED BY <1>2, <1>8, <2>1, <2>3, <2>4, <2>5 DEF MatchOK
<1>13. ASSUME NEW v \in Users PROVE UserOK(v)'
  <2>1. UserOK(v) /\ UserOK(u) BY DEF SeatInv
  <2>2. CASE v = u
    <3>1. \A r \in Rooms : ~Seated(u, r)
      BY <1>3, <2>1, RoomsAssumption DEF UserOK
    <3> QED BY <1>2, <1>3, <1>4, <1>8, <2>2, <3>1, TicketFacts DEF UserOK
  <2>3. CASE v # u
    BY <1>2, <1>4, <1>8, <1>9, <2>1, <2>3 DEF UserOK
  <2> QED BY <2>2, <2>3
<1> QED BY <1>10, <1>11, <1>12, <1>13 DEF SeatInv

\* Coming into the queue: the ticket is there, and as old as the place.
LEMMA SeatsEnqueue ==
    ASSUME SeatInv, TypeInv', FlowInv', NEW f \in Flows, Enqueue(f)
    PROVE  SeatInv'
<1>0. /\ TypeInv /\ FlowInv /\ flow \in [Flows -> Frame] /\ age \in [Users -> Absent .. WaitTtl]
      /\ EnterOK(flow[f]) /\ flow[f].pc = "queue" /\ Sound(flow[f])
  BY DEF SeatInv, TypeInv, TypeOK, Enqueue
<1>1. PICK u \in Users : u = flow[f].who BY <1>0 DEF Sound
<1>2. /\ UNCHANGED <<ticket, home, phase, roster>> /\ age' = [age EXCEPT ![u] = 0]
      /\ Becomes(f, At(f, "lock"))
  BY <1>0, <1>1, PlainSteps DEF Enqueue, people, server
<1>3. ticket[u] = Waiting BY <1>0, <1>1 DEF EnterOK
<1>4. /\ age'[u] = 0 /\ \A v \in Users : v # u => age'[v] = age[v]
  BY <1>0, <1>2
<1>5. PICK x : x = At(f, "lock") OBVIOUS
<1>6. x.pc = "lock" BY <1>0, <1>5, AtFacts DEF Steps
<1>7. flow'[f] = x /\ \A g \in Flows : g # f => flow'[g] = flow[g]
  BY <1>2, <1>5 DEF Becomes
<1>8. /\ \A v \in Users : v # u => (v \in Fresh' <=> v \in Fresh) /\ (v \in Queue' <=> v \in Queue)
      /\ \A v \in Users, r \in Rooms : Seated(v, r)' <=> Seated(v, r)
  BY <1>2, <1>4 DEF Fresh, Queue, Seated, Open
<1>9. \A g \in Flows : Taken(flow'[g]) \subseteq Taken(flow[g]) /\ Held(flow'[g]) = Held(flow[g])
  BY <1>0, <1>6, <1>7 DEF Taken, Held
<1>10. NewRoomsEmpty' BY <1>2 DEF SeatInv, NewRoomsEmpty
<1>11. ASSUME NEW g \in Flows PROVE EnterOK(flow[g])'
  <2>1. CASE g = f
    BY <1>6, <1>7, <2>1 DEF EnterOK
  <2>2. CASE g # f
    <3>1. flow'[g] = flow[g] /\ EnterOK(flow[g]) /\ Sound(flow[g])
      BY <1>7, <2>2 DEF SeatInv, TypeInv
    <3>2. flow[g].pc \in {"ticket", "queue"} => flow[g].who \in Users /\ flow[g].who # u
      BY <1>0, <1>1, <2>2, <3>1 DEF FlowInv, IsIdle, Sound
    <3> QED BY <1>2, <1>8, <3>1, <3>2 DEF EnterOK
  <2> QED BY <2>1, <2>2
<1>12. ASSUME NEW g \in Flows PROVE MatchOK(flow[g])'
  <2>1. MatchOK(flow[g]) /\ Taken(flow[g]) \subseteq Users
    BY <1>0, TakenAreUsers DEF SeatInv
  <2>2. u \notin Taken(flow[g]) BY <1>0, <1>1, <2>1 DEF MatchOK
  <2>3. g = f => Taken(flow'[g]) = {} /\ Held(flow'[g]) = {} /\ flow'[g].pc # "mark"
    BY <1>6, <1>7 DEF Taken, Held
  <2>4. \A v \in Taken(flow'[g]) :
          /\ ticket'[v].status = "WAITING"
          /\ \A h \in Flows : flow'[h].pc = "queue" => flow'[h].who # v
    BY <1>2, <1>6, <1>7, <1>9, <2>1, <2>2 DEF MatchOK
  <2>5. g # f => flow'[g] = flow[g] BY <1>7
  <2>6. flow'[g].pc = "mark" => flow'[g].players \cap Queue' = {}
    <3>1. ASSUME flow'[g].pc = "mark" PROVE flow'[g].players \cap Queue' = {}
      <4>1. g # f /\ flow[g].pc = "mark" /\ Taken(flow[g]) = flow[g].players
        BY <2>3, <2>5, <3>1 DEF Taken
      <4> QED BY <1>8, <2>1, <2>2, <2>5, <4>1 DEF MatchOK
    <3> QED BY <3>1
  <2> QED BY <1>2, <2>1, <2>3, <2>4, <2>5, <2>6 DEF MatchOK
<1>13. ASSUME NEW v \in Users PROVE UserOK(v)'
  <2>1. UserOK(v) BY DEF SeatInv
  <2>2. v \in Fresh' => ticket'[v].status = "WAITING" /\ ticket'[v].left = WaitTtl - age'[v]
    BY <1>2, <1>3, <1>4, <1>8, <2>1, TicketFacts, SizesAssumption DEF UserOK
  <2> QED BY <1>2, <1>8, <1>9, <2>1, <2>2 DEF UserOK
<1> QED BY <1>10, <1>11, <1>12, <1>13 DEF SeatInv

\* Picking: all who are picked wait, and nobody else makes a match.
LEMMA SeatsPick ==
    ASSUME SeatInv, TypeInv', FlowInv', NEW f \in Flows, Pick(f)
    PROVE  SeatInv'
<1>0. /\ TypeInv /\ FlowInv /\ flow \in [Flows -> Frame] /\ ticket \in [Users -> Ticket]
      /\ age \in [Users -> Absent .. WaitTtl]
      /\ flow[f].pc = "pick" /\ UNCHANGED <<home, phase, roster>>
      /\ FrameOK(flow[f])
  BY Picks DEF SeatInv, TypeInv, TypeOK, people, server, FlowInv
<1>1. Held(flow[f]) = {} /\ Taken(flow[f]) = {} BY <1>0 DEF Held, Taken
<1>2. At(f, "unlock").pc = "unlock" BY <1>0, AtFacts DEF Steps
<1>3. \A v \in Users, r \in Rooms : Seated(v, r)' <=> Seated(v, r)
  BY <1>0 DEF Seated, Open
<1>4. NewRoomsEmpty' BY <1>0 DEF SeatInv, NewRoomsEmpty
<1>5. CASE /\ UNCHANGED ticket /\ Becomes(f, At(f, "unlock"))
           /\ age' = [u \in Users |-> IF u \in Fresh THEN age[u] ELSE Absent]
  <2>1. Tame(flow[f], At(f, "unlock")) BY <1>1, <1>2, QuietIsTame DEF Quiet, Steps
  <2>2. \A u \in Users : age'[u] \in {age[u], Absent} BY <1>5
  <2>3. Calm BY <1>0, <1>5, <2>1, <2>2, GoesCalmly, CalmWhen
  <2> QED BY <2>3, CalmSteps
<1>6. ASSUME NEW S \in SUBSET Fresh,
             age' = [u \in Users |-> IF u \in Fresh \ Evicted(S) THEN age[u] ELSE Absent],
             ticket' = [u \in Users |-> IF u \in Evicted(S) THEN NoTicket ELSE ticket[u]],
             NEW x, Becomes(f, x), Held(x) = {},
             Taken(x) \subseteq S \ Evicted(S), x.pc \notin {"ticket", "queue", "mark"}
      PROVE  SeatInv'
  <2>1. flow'[f] = x /\ \A g \in Flows : g # f => flow'[g] = flow[g]
    BY <1>6 DEF Becomes
  <2>2. Evicted(S) \subseteq Fresh /\ Fresh \subseteq Users BY DEF Evicted, Fresh, Queue
  <2>3. \A u \in Users : u \in Fresh => ticket[u].status = "WAITING"
    BY DEF SeatInv, UserOK
  <2>4. \A u \in Users : u \notin Evicted(S) => ticket'[u] = ticket[u]
    BY <1>6
  <2>5. \A u \in Evicted(S) : ticket'[u] = NoTicket /\ age'[u] = Absent
    BY <1>6, <2>2
  <2>6. \A u \in Users : age'[u] \in {age[u], Absent} BY <1>6
  <2>7. /\ Queue' \subseteq Queue
        /\ \A u \in Fresh' : u \in Fresh /\ age'[u] = age[u] /\ u \notin Evicted(S)
    BY <2>5, <2>6, Shrinks DEF Fresh, Queue
  <2>8. \A g \in Flows : g # f => Taken(flow'[g]) = {} /\ Held(flow'[g]) = {}
    <3>1. \A g \in Flows : g # f => Taken(flow[g]) = {} BY <1>0, OneMatch DEF Locked
    <3>2. \A g \in Flows : Held(flow[g]) \subseteq Taken(flow[g]) BY DEF SeatInv, MatchOK
    <3> QED BY <2>1, <3>1, <3>2
  <2>9. ASSUME NEW g \in Flows PROVE EnterOK(flow[g])'
    <3>1. CASE g = f
      BY <1>6, <2>1, <3>1 DEF EnterOK
    <3>2. CASE g # f
      <4>1. flow'[g] = flow[g] /\ EnterOK(flow[g]) /\ Sound(flow[g])
        BY <2>1, <3>2 DEF SeatInv, TypeInv
      <4>2. flow[g].pc \in {"ticket", "queue"} =>
              flow[g].who \in Users /\ flow[g].who \notin Fresh
        BY <4>1 DEF EnterOK, Sound
      <4> QED BY <1>0, <2>2, <2>4, <2>7, <4>1, <4>2 DEF EnterOK
    <3> QED BY <3>1, <3>2
  <2>10. ASSUME NEW g \in Flows PROVE MatchOK(flow[g])'
    <3>1. CASE g = f
      <4>1. \A u \in Taken(x) : /\ u \in Users /\ u \in Fresh /\ ticket'[u].status = "WAITING"
        BY <1>6, <2>2, <2>3, <2>4
      <4>2. \A h \in Flows : flow'[h].pc = "queue" => flow'[h].who \notin Fresh
        <5>1. \A h \in Flows : flow[h].pc = "queue" => flow[h].who \notin Fresh
          BY DEF SeatInv, EnterOK
        <5> QED BY <1>6, <2>1, <5>1
      <4>3. Held(flow'[f]) = {} /\ Taken(flow'[f]) = Taken(x) /\ flow'[f].pc # "mark"
        BY <1>6, <2>1
      <4> QED BY <3>1, <4>1, <4>2, <4>3 DEF MatchOK
    <3>2. CASE g # f
      <4>1. flow'[g].pc = "mark" => flow'[g].players \cap Queue' = {}
        BY <2>1, <2>7, <3>2 DEF SeatInv, MatchOK
      <4> QED BY <2>8, <3>2, <4>1 DEF MatchOK
    <3> QED BY <3>1, <3>2
  <2>11. ASSUME NEW u \in Users PROVE UserOK(u)'
    <3>1. UserOK(u) BY DEF SeatInv
    <3>2. \A g \in Flows : Held(flow[g]) = {}
      BY <1>1, <2>1, <2>8
    <3>3. CASE u \in Evicted(S)
      <4>1. u \notin Fresh' BY <2>7, <3>3
      <4> QED BY <1>0, <1>3, <2>5, <3>1, <3>3, <4>1, TicketFacts DEF UserOK
    <3>4. CASE u \notin Evicted(S)
      BY <1>0, <1>3, <2>4, <2>7, <3>1, <3>2, <3>4 DEF UserOK
    <3> QED BY <3>3, <3>4
  <2> QED BY <1>4, <2>9, <2>10, <2>11 DEF SeatInv
<1>7. CASE \E S \in SUBSET Fresh :
             /\ age' = [u \in Users |-> IF u \in Fresh \ Evicted(S) THEN age[u] ELSE Absent]
             /\ ticket' = [u \in Users |-> IF u \in Evicted(S) THEN NoTicket ELSE ticket[u]]
             /\ \/ Evicted(S) = {} /\ \E x : /\ Becomes(f, x)
                                             /\ Like(f, x, "create", flow[f].room, S, flow[f].seated)
                \/ Evicted(S) # {} /\ Becomes(f, At(f, "unlock"))
  <2>1. PICK S \in SUBSET Fresh :
             /\ age' = [u \in Users |-> IF u \in Fresh \ Evicted(S) THEN age[u] ELSE Absent]
             /\ ticket' = [u \in Users |-> IF u \in Evicted(S) THEN NoTicket ELSE ticket[u]]
             /\ \/ Evicted(S) = {} /\ \E x : /\ Becomes(f, x)
                                             /\ Like(f, x, "create", flow[f].room, S, flow[f].seated)
                \/ Evicted(S) # {} /\ Becomes(f, At(f, "unlock"))
    BY <1>7
  <2>2. CASE Becomes(f, At(f, "unlock"))
    <3>1. Held(At(f, "unlock")) = {} /\ Taken(At(f, "unlock")) = {}
      BY <1>2 DEF Held, Taken
    <3> QED BY <1>2, <1>6, <2>1, <2>2, <3>1
  <2>3. CASE /\ Evicted(S) = {}
             /\ \E x : Becomes(f, x) /\ Like(f, x, "create", flow[f].room, S, flow[f].seated)
    <3>1. PICK x : Becomes(f, x) /\ Like(f, x, "create", flow[f].room, S, flow[f].seated)
      BY <2>3
    <3>2. x.pc = "create" /\ x.players = S BY <3>1 DEF Like
    <3>3. Held(x) = {} /\ Taken(x) \subseteq S \ Evicted(S)
      BY <2>3, <3>2 DEF Held, Taken
    <3> QED BY <1>6, <2>1, <3>1, <3>2, <3>3
  <2> QED BY <2>1, <2>2, <2>3
<1> QED BY <1>0, <1>5, <1>7, Picks

\* Making the room, whose roster is empty.
LEMMA SeatsCreate ==
    ASSUME SeatInv, TypeInv', FlowInv', NEW f \in Flows, Create(f)
    PROVE  SeatInv'
<1>0. TypeInv /\ TypeOK /\ FrameOK(flow[f]) /\ NewRoomsEmpty BY DEF SeatInv, TypeInv, FlowInv
<1>1. /\ flow[f].pc = "create" /\ UNCHANGED <<ticket, age, home, roster>>
  BY <1>0, Creates DEF people
<1>2. PICK r \in Rooms :
        /\ phase[r] = "NEW" /\ phase' = [phase EXCEPT ![r] = "LOBBY"]
        /\ \E x : Becomes(f, x) /\ Like(f, x, "seat", r, flow[f].players, flow[f].seated)
  BY <1>0, Creates
<1>3. PICK x : Becomes(f, x) /\ Like(f, x, "seat", r, flow[f].players, flow[f].seated)
  BY <1>2
<1>4. x.pc = "seat" /\ x.players = flow[f].players /\ x.seated = {}
  BY <1>0, <1>1, <1>3 DEF Like, FrameOK, Unseated, Steps
<1>5. Tame(flow[f], x) BY <1>1, <1>4 DEF Tame, Held, Taken
<1>6. phase'[r] = "LOBBY" /\ \A q \in Rooms : q # r => phase'[q] = phase[q]
  BY <1>0, <1>2 DEF TypeOK
<1>7. roster[r] = {} BY <1>0, <1>2 DEF NewRoomsEmpty
<1>8. \A v \in Users, q \in Rooms : Seated(v, q)' => Seated(v, q)
  BY <1>1, <1>6, <1>7 DEF Seated, Open
<1>9. \A q \in Rooms : phase'[q] = "NEW" => roster'[q] = {}
  BY <1>0, <1>1, <1>6 DEF NewRoomsEmpty
<1>10. Calm BY <1>1, <1>3, <1>5, <1>8, <1>9, GoesCalmly DEF Calm
<1> QED BY <1>10, CalmSteps

\* Seating: the next player waits, and so has no seat but in this room.
LEMMA SeatsSeat ==
    ASSUME SeatInv, TypeInv', FlowInv', NEW f \in Flows, Seat(f)
    PROVE  SeatInv'
<1>0. /\ TypeInv /\ TypeOK /\ FlowInv /\ NewRoomsEmpty /\ flow[f] \in Frame /\ MatchOK(flow[f])
      /\ flow \in [Flows -> Frame] /\ Sound(flow[f])
  BY DEF SeatInv, TypeInv, TypeOK
<1>1. flow[f].pc = "seat" /\ UNCHANGED <<ticket, age, phase>>
  BY <1>0, Sits
<1>2. PICK r \in Rooms : r = flow[f].room BY <1>0, <1>1 DEF Sound, HasRoom
<1>3. CASE UNCHANGED <<roster, home>> /\ Becomes(f, At(f, "rollback"))
  <2>1. PICK x : x = At(f, "rollback") OBVIOUS
  <2>2. /\ x.pc = "rollback" /\ x.players = flow[f].players /\ x.seated = flow[f].seated
        /\ x.room = flow[f].room
    BY <1>0, <2>1, AtFacts DEF Steps
  <2>3. Held(flow[f]) \subseteq Taken(flow[f]) BY <1>0 DEF MatchOK
  <2>4. Tame(flow[f], x) BY <1>1, <2>2, <2>3 DEF Tame, Held, Taken
  <2>5. Calm BY <1>1, <1>3, <2>1, <2>4, GoesCalmly, CalmWhen
  <2> QED BY <2>5, CalmSteps
<1>4. ASSUME phase[r] = "LOBBY",
             NEW u \in flow[f].players \ flow[f].seated,
             roster' = [roster EXCEPT ![r] = @ \cup {u}], home' = [home EXCEPT ![u] = r],
             NEW pc \in {"seat", "dequeue"},
             pc = "dequeue" => flow[f].seated \cup {u} = flow[f].players,
             NEW x, Becomes(f, x),
             Like(f, x, pc, r, flow[f].players, flow[f].seated \cup {u})
      PROVE  SeatInv'
  <2>1. /\ flow'[f] = x /\ \A g \in Flows : g # f => flow'[g] = flow[g]
        /\ x.pc = pc /\ x.room = r /\ x.players = flow[f].players
        /\ x.seated = flow[f].seated \cup {u}
    BY <1>4 DEF Becomes, Like
  <2>2. /\ Taken(x) = flow[f].players /\ Held(x) = flow[f].seated \cup {u}
        /\ Taken(flow[f]) = flow[f].players /\ Held(flow[f]) = flow[f].seated
    BY <1>1, <1>4, <2>1 DEF Taken, Held
  <2>3. u \in Users /\ u \in Taken(flow[f]) /\ flow[f].players \subseteq Users
    BY <1>0, <1>4, <2>2, FrameFacts
  <2>4. /\ roster'[r] = roster[r] \cup {u} /\ \A q \in Rooms : q # r => roster'[q] = roster[q]
        /\ home'[u] = r /\ \A v \in Users : v # u => home'[v] = home[v]
    BY <1>0, <1>4, <2>3 DEF TypeOK
  <2>5. Fresh' = Fresh /\ Queue' = Queue BY <1>1 DEF Fresh, Queue
  <2>6. \A g \in Flows : g # f => Taken(flow[g]) = {} /\ Held(flow[g]) = {}
    <3>1. \A g \in Flows : g # f => Taken(flow[g]) = {} BY <1>0, <1>1, OneMatch DEF Locked
    <3>2. \A g \in Flows : Held(flow[g]) \subseteq Taken(flow[g]) BY DEF SeatInv, MatchOK
    <3> QED BY <3>1, <3>2
  <2>7. /\ ticket[u].status = "WAITING"
        /\ \A q \in Rooms : Seated(u, q) => q = r
    <3>1. ticket[u].status = "WAITING" BY <1>0, <2>3 DEF MatchOK
    <3>2. UserOK(u) BY <2>3 DEF SeatInv
    <3>3. u \notin Held(flow[f]) BY <1>4, <2>2
    <3> QED BY <2>3, <2>6, <3>1, <3>2, <3>3 DEF UserOK
  <2>8. /\ \A v \in Users, q \in Rooms : v # u \/ q # r => (Seated(v, q)' <=> Seated(v, q))
    BY <1>1, <2>4 DEF Seated, Open
  <2>9. NewRoomsEmpty' BY <1>0, <1>1, <1>4, <2>4 DEF NewRoomsEmpty
  <2>10. ASSUME NEW g \in Flows PROVE EnterOK(flow[g])'
    <3>1. CASE g = f
      BY <1>4, <2>1, <3>1 DEF EnterOK
    <3>2. CASE g # f
      <4>1. flow'[g] = flow[g] /\ EnterOK(flow[g]) /\ Sound(flow[g])
        BY <2>1, <3>2 DEF SeatInv, TypeInv
      <4>2. flow[g].pc \in {"ticket", "queue"} => flow[g].who \in Users /\ flow[g].who # u
        BY <1>0, <2>3, <2>7, <4>1 DEF EnterOK, MatchOK, Sound
      <4> QED BY <1>1, <2>4, <2>5, <4>1, <4>2 DEF EnterOK
    <3> QED BY <3>1, <3>2
  <2>11. ASSUME NEW g \in Flows PROVE MatchOK(flow[g])'
    <3>1. CASE g = f
      <4>1. \A v \in flow[f].players :
              /\ ticket'[v].status = "WAITING"
              /\ \A h \in Flows : flow'[h].pc = "queue" => flow'[h].who # v
        BY <1>0, <1>1, <1>4, <2>1, <2>2 DEF MatchOK
      <4>2. \A v \in flow[f].seated \cup {u} : home'[v] = r
        BY <1>0, <1>2, <2>2, <2>3, <2>4 DEF MatchOK
      <4>3. flow[f].seated \cup {u} \subseteq flow[f].players
        BY <1>0, <1>4, <2>2 DEF MatchOK
      <4> QED BY <1>4, <2>1, <2>2, <3>1, <4>1, <4>2, <4>3 DEF MatchOK
    <3>2. CASE g # f
      BY <2>1, <2>5, <2>6, <3>2 DEF SeatInv, MatchOK
    <3> QED BY <3>1, <3>2
  <2>12. ASSUME NEW v \in Users PROVE UserOK(v)'
    <3>1. UserOK(v) BY DEF SeatInv
    <3>2. CASE v = u
      <4>1. \A q \in Rooms : Seated(u, q)' => home'[u] = q
        BY <2>3, <2>4, <2>7, <2>8
      <4>2. u \in Held(flow'[f]) BY <2>1, <2>2
      <4> QED BY <1>1, <2>5, <2>7, <3>1, <3>2, <4>1, <4>2 DEF UserOK
    <3>3. CASE v # u
      <4>1. \A g \in Flows : Held(flow[g]) \subseteq Held(flow'[g])
        BY <2>1, <2>2, <2>6
      <4> QED BY <1>1, <2>4, <2>5, <2>8, <3>1, <3>3, <4>1 DEF UserOK
    <3> QED BY <3>2, <3>3
  <2> QED BY <2>9, <2>10, <2>11, <2>12 DEF SeatInv
<1>5. CASE /\ phase[r] = "LOBBY"
           /\ \E u \in flow[f].players \ flow[f].seated :
                /\ roster' = [roster EXCEPT ![r] = @ \cup {u}]
                /\ home' = [home EXCEPT ![u] = r]
                /\ \E pc \in {"seat", "dequeue"} :
                     /\ pc = "dequeue" => flow[f].seated \cup {u} = flow[f].players
                     /\ \E x : /\ Becomes(f, x)
                               /\ Like(f, x, pc, r, flow[f].players, flow[f].seated \cup {u})
  <2>1. PICK u \in flow[f].players \ flow[f].seated :
                /\ roster' = [roster EXCEPT ![r] = @ \cup {u}]
                /\ home' = [home EXCEPT ![u] = r]
                /\ \E pc \in {"seat", "dequeue"} :
                     /\ pc = "dequeue" => flow[f].seated \cup {u} = flow[f].players
                     /\ \E x : /\ Becomes(f, x)
                               /\ Like(f, x, pc, r, flow[f].players, flow[f].seated \cup {u})
    BY <1>5
  <2>2. PICK pc \in {"seat", "dequeue"} :
                     /\ pc = "dequeue" => flow[f].seated \cup {u} = flow[f].players
                     /\ \E x : /\ Becomes(f, x)
                               /\ Like(f, x, pc, r, flow[f].players, flow[f].seated \cup {u})
    BY <2>1
  <2>3. PICK x : /\ Becomes(f, x)
                 /\ Like(f, x, pc, r, flow[f].players, flow[f].seated \cup {u})
    BY <2>2
  <2> QED BY <1>4, <1>5, <2>1, <2>2, <2>3
<1> QED BY <1>0, <1>2, <1>3, <1>5, Sits

\* Giving up: the room is closed, and with it every seat in it.
LEMMA SeatsRollback ==
    ASSUME SeatInv, TypeInv', FlowInv', NEW f \in Flows, Rollback(f)
    PROVE  SeatInv'
<1>0. /\ TypeInv /\ TypeOK /\ FlowInv /\ NewRoomsEmpty /\ flow \in [Flows -> Frame]
      /\ Sound(flow[f]) /\ MatchOK(flow[f]) /\ flow[f].pc = "rollback"
  BY DEF SeatInv, TypeInv, TypeOK, Rollback
<1>1. PICK r \in Rooms : r = flow[f].room BY <1>0 DEF Sound, HasRoom
<1>2. /\ UNCHANGED <<ticket, age, home>> /\ Closed(r) /\ Becomes(f, At(f, "fail"))
  BY <1>0, <1>1, PlainSteps DEF Rollback, people
<1>3. PICK x : x = At(f, "fail") OBVIOUS
<1>4. x.pc = "fail" BY <1>0, <1>3, AtFacts DEF Steps
<1>5. flow'[f] = x /\ \A g \in Flows : g # f => flow'[g] = flow[g]
  BY <1>2, <1>3 DEF Becomes
<1>6. /\ \A q \in Rooms : phase'[q] = "NEW" => roster'[q] = {}
      /\ \A v \in Users, q \in Rooms : Seated(v, q)' => Seated(v, q)
  BY <1>0, <1>2, Closes
<1>7. \A v \in Users : ~Seated(v, r)'
  BY <1>0, <1>2 DEF Closed, Seated, Open, TypeOK
<1>8. Fresh' = Fresh /\ Queue' = Queue BY <1>2 DEF Fresh, Queue
<1>9. \A g \in Flows : g # f => flow'[g] = flow[g] /\ Held(flow'[g]) = Held(flow[g])
  BY <1>5
<1>10. NewRoomsEmpty' BY <1>6 DEF NewRoomsEmpty
<1>11. ASSUME NEW g \in Flows PROVE EnterOK(flow[g])'
  BY <1>2, <1>4, <1>5, <1>8 DEF SeatInv, EnterOK
<1>12. ASSUME NEW g \in Flows PROVE MatchOK(flow[g])'
  <2>1. \A h \in Flows : flow'[h].pc = "queue" => flow'[h] = flow[h]
    BY <1>4, <1>5
  <2>2. CASE g = f
    BY <1>4, <1>5, <2>2 DEF MatchOK, Taken, Held
  <2>3. CASE g # f
    BY <1>2, <1>5, <1>8, <2>1, <2>3 DEF SeatInv, MatchOK
  <2> QED BY <2>2, <2>3
<1>13. ASSUME NEW v \in Users PROVE UserOK(v)'
  <2>1. UserOK(v) BY DEF SeatInv
  <2>2. v \in Held(flow[f]) => \A q \in Rooms : ~Seated(v, q)'
    <3>1. v \in Held(flow[f]) => home[v] = r BY <1>0, <1>1 DEF MatchOK
    <3> QED BY <1>6, <1>7, <2>1, <3>1 DEF UserOK
  <2>3. ticket'[v].status = "WAITING" =>
          (\A q \in Rooms : ~Seated(v, q)') \/ \E g \in Flows : v \in Held(flow'[g])
    BY <1>2, <1>6, <1>9, <2>1, <2>2 DEF UserOK
  <2> QED BY <1>2, <1>6, <1>8, <2>1, <2>3 DEF UserOK
<1> QED BY <1>10, <1>11, <1>12, <1>13 DEF SeatInv

\* Telling the players: each has the seat the ticket names, and none a place.
LEMMA SeatsMark ==
    ASSUME SeatInv, TypeInv', FlowInv', NEW f \in Flows, MarkMatched(f)
    PROVE  SeatInv'
<1>0. /\ TypeInv /\ TypeOK /\ FlowInv /\ NewRoomsEmpty /\ flow \in [Flows -> Frame]
      /\ ticket \in [Users -> Ticket]
      /\ Sound(flow[f]) /\ MatchOK(flow[f]) /\ flow[f].pc = "mark"
  BY DEF SeatInv, TypeInv, TypeOK, MarkMatched
<1>1. PICK r \in Rooms : r = flow[f].room BY <1>0 DEF Sound, HasRoom
<1>2. PICK P : P = flow[f].players OBVIOUS
<1>3. /\ UNCHANGED <<age, home, phase, roster>> /\ Becomes(f, At(f, "marker"))
      /\ ticket' = [u \in Users |-> IF u \in P THEN Matched(r) ELSE ticket[u]]
  BY <1>0, <1>1, <1>2, PlainSteps DEF MarkMatched, people, server
<1>4. PICK x : x = At(f, "marker") OBVIOUS
<1>5. x.pc = "marker" BY <1>0, <1>4, AtFacts DEF Steps
<1>6. flow'[f] = x /\ \A g \in Flows : g # f => flow'[g] = flow[g]
  BY <1>3, <1>4 DEF Becomes
<1>7. /\ Held(flow[f]) = P /\ Taken(flow[f]) = P
      /\ \A u \in P : ticket[u].status = "WAITING" /\ home[u] = r /\ u \notin Queue
  BY <1>0, <1>1, <1>2 DEF MatchOK, Held, Taken
<1>8. /\ \A u \in Users : u \in P => ticket'[u].status = "MATCHED" /\ ticket'[u].room = r
      /\ \A u \in Users : u \notin P => ticket'[u] = ticket[u]
  BY <1>3, TicketFacts
<1>9. /\ Fresh' = Fresh /\ Queue' = Queue
      /\ \A v \in Users, q \in Rooms : Seated(v, q)' <=> Seated(v, q)
  BY <1>3 DEF Fresh, Queue, Seated, Open
<1>10. NewRoomsEmpty' BY <1>0, <1>3 DEF NewRoomsEmpty
<1>11. \A g \in Flows : g # f => Taken(flow[g]) = {} /\ Held(flow[g]) = {}
  <2>1. \A g \in Flows : g # f => Taken(flow[g]) = {} BY <1>0, OneMatch DEF Locked
  <2>2. \A g \in Flows : Held(flow[g]) \subseteq Taken(flow[g]) BY DEF SeatInv, MatchOK
  <2> QED BY <2>1, <2>2
<1>12. ASSUME NEW g \in Flows PROVE EnterOK(flow[g])'
  <2>1. CASE g = f
    BY <1>5, <1>6, <2>1 DEF EnterOK
  <2>2. CASE g # f
    <3>1. flow'[g] = flow[g] /\ EnterOK(flow[g]) /\ Sound(flow[g])
      BY <1>6, <2>2 DEF SeatInv, TypeInv
    <3>2. flow[g].pc \in {"ticket", "queue"} => flow[g].who \in Users /\ flow[g].who \notin P
      BY <1>0, <1>7, <3>1 DEF EnterOK, MatchOK, Sound
    <3> QED BY <1>3, <1>8, <1>9, <3>1, <3>2 DEF EnterOK
  <2> QED BY <2>1, <2>2
<1>13. ASSUME NEW g \in Flows PROVE MatchOK(flow[g])'
  <2>1. CASE g = f
    BY <1>5, <1>6, <2>1 DEF MatchOK, Taken, Held
  <2>2. CASE g # f
    BY <1>6, <1>9, <1>11, <2>2 DEF SeatInv, MatchOK
  <2> QED BY <2>1, <2>2
<1>14. ASSUME NEW v \in Users PROVE UserOK(v)'
  <2>1. UserOK(v) BY DEF SeatInv
  <2>2. v \in Fresh => v \notin P BY <1>7 DEF Fresh
  <2>3. ticket'[v].status = "WAITING" => \A q \in Rooms : ~Seated(v, q)
    BY <1>7, <1>8, <1>11, <2>1 DEF UserOK
  <2> QED BY <1>3, <1>7, <1>8, <1>9, <2>1, <2>2, <2>3 DEF UserOK
<1> QED BY <1>10, <1>12, <1>13, <1>14 DEF SeatInv

\* Starting moves the phase of an open room.
LEMMA SeatsStart ==
    ASSUME SeatInv, TypeInv', FlowInv', NEW f \in Flows, Start(f)
    PROVE  SeatInv'
<1>0. TypeInv /\ TypeOK /\ NewRoomsEmpty /\ flow \in [Flows -> Frame]
  BY DEF SeatInv, TypeInv, TypeOK
<1>1. /\ flow[f].pc = "start" /\ UNCHANGED <<ticket, age, home, roster>>
      /\ \/ phase[flow[f].room] = "LOBBY" /\ phase' = [phase EXCEPT ![flow[f].room] = "PLAYING"]
         \/ UNCHANGED phase
  BY DEF Start, people
<1>2. Held(flow[f]) = {} BY <1>1 DEF Held
<1>3. PICK x : Becomes(f, x) /\ x.pc \in {"unmark", "report", "idle"}
  <2>1. At(f, "unmark").pc = "unmark" /\ At(f, "report").pc = "report"
    BY <1>0, AtFacts DEF Steps
  <2>2. NoFrame.pc = "idle" BY NewFrameFacts DEF NoFrame, Steps, Calls
  <2> QED BY <1>0, <2>1, <2>2, ForkedSteps
<1>4. Tame(flow[f], x) BY <1>2, <1>3, QuietIsTame DEF Quiet, Steps
<1>5. \A q \in Rooms : phase'[q] = phase[q] \/ (phase[q] = "LOBBY" /\ phase'[q] = "PLAYING")
  BY <1>0, <1>1 DEF TypeOK
<1>6. \A v \in Users, q \in Rooms : Seated(v, q)' => Seated(v, q)
  BY <1>1, <1>5 DEF Seated, Open
<1>7. \A q \in Rooms : phase'[q] = "NEW" => roster'[q] = {}
  BY <1>0, <1>1, <1>5 DEF NewRoomsEmpty
<1>8. Calm BY <1>1, <1>3, <1>4, <1>6, <1>7, GoesCalmly DEF Calm
<1> QED BY <1>8, CalmSteps

\* Cancelling, when no match is under way: the place has gone before the ticket.
LEMMA SeatsForget ==
    ASSUME SeatInv, TypeInv', FlowInv', NEW f \in Flows, Forget(f), Flows = {f}
    PROVE  SeatInv'
<1>0. /\ TypeInv /\ flow \in [Flows -> Frame] /\ ticket \in [Users -> Ticket]
      /\ flow[f].pc = "forget" /\ Sound(flow[f]) /\ FrameOK(flow[f]) /\ NewRoomsEmpty
  BY DEF SeatInv, TypeInv, TypeOK, FlowInv, Forget
<1>1. PICK u \in Users : u = flow[f].who BY <1>0 DEF Sound
<1>2. /\ UNCHANGED <<age, home, phase, roster>> /\ ticket' = [ticket EXCEPT ![u] = NoTicket]
      /\ Becomes(f, NoFrame)
  BY <1>0, <1>1, PlainSteps DEF Forget, people, server
<1>3. ticket'[u].status = "NONE" /\ \A v \in Users : v # u => ticket'[v] = ticket[v]
  BY <1>0, <1>2, TicketFacts
<1>4. flow'[f].pc = "idle"
  <2>1. NoFrame.pc = "idle" BY NewFrameFacts DEF NoFrame, Steps, Calls
  <2> QED BY <1>2, <2>1 DEF Becomes
<1>5. /\ Fresh' = Fresh /\ \A v \in Users, r \in Rooms : Seated(v, r)' <=> Seated(v, r)
  BY <1>2 DEF Fresh, Queue, Seated, Open
<1>6. u \notin Fresh BY <1>0, <1>1 DEF FrameOK, Fresh, Queue
<1>7. NewRoomsEmpty' BY <1>0, <1>2 DEF NewRoomsEmpty
<1>8. \A g \in Flows : EnterOK(flow[g])' /\ MatchOK(flow[g])'
  BY <1>4 DEF EnterOK, MatchOK, Taken, Held
<1>9. ASSUME NEW v \in Users PROVE UserOK(v)'
  <2>1. UserOK(v) BY DEF SeatInv
  <2>2. \A g \in Flows : Held(flow[g]) = {} BY <1>0 DEF Held
  <2> QED BY <1>2, <1>3, <1>5, <1>6, <2>1, <2>2 DEF UserOK
<1> QED BY <1>7, <1>8, <1>9 DEF SeatInv

LEMMA SeatsRequest ==
    ASSUME SeatInv, TypeInv', FlowInv', NEW f \in Flows, NEW u \in Users,
           Enter(f, u) \/ Poll(f, u) \/ Cancel(f, u)
    PROVE  SeatInv'
<1>1. PICK call \in Calls : Request(f, u, call) BY DEF Enter, Poll, Cancel, Calls
<1>2. TypeInv BY DEF SeatInv
<1>3. /\ flow[f].pc = "idle" /\ UNCHANGED <<age, ticket, home, phase, roster>>
      /\ \E x : Becomes(f, x) /\ x.pc = "look"
  BY <1>1, <1>2, Requests DEF people, server
<1>4. PICK x : Becomes(f, x) /\ x.pc = "look" BY <1>3
<1>5. Held(flow[f]) = {} BY <1>3 DEF Held
<1>6. Tame(flow[f], x) BY <1>4, <1>5, QuietIsTame DEF Quiet, Steps
<1>7. Calm BY <1>3, <1>4, <1>6, GoesCalmly, CalmWhen
<1> QED BY <1>7, CalmSteps

\* Leaving at rest: who has a seat does not wait.
LEMMA SeatsLeave ==
    ASSUME SeatInv, TypeInv', FlowInv', NEW u \in Users, NEW r \in Rooms, Leave(u, r),
           "wander" \notin Happens
    PROVE  SeatInv'
<1>0. /\ TypeInv /\ TypeOK /\ NewRoomsEmpty /\ UserOK(u) /\ ticket \in [Users -> Ticket]
  BY DEF SeatInv, TypeInv, TypeOK
<1>1. /\ AtRest /\ Seated(u, r) /\ LeaveRoster(u, r) /\ ClearRoom(u) /\ UNCHANGED <<age, flow>>
  BY DEF Leave, Elsewhere, Seated
<1>2. \A g \in Flows : Held(flow[g]) = {} BY <1>1 DEF AtRest, IsIdle, Held
<1>3. ticket[u].status # "WAITING" /\ home[u] = r BY <1>0, <1>1, <1>2 DEF UserOK
<1>4. /\ \A v \in Users : v # u => ticket'[v] = ticket[v] /\ home'[v] = home[v]
      /\ ticket'[u].status = "NONE" /\ home'[u] = NoRoom
  BY <1>0, <1>1, TicketFacts DEF ClearRoom, TypeOK
<1>5. /\ \A q \in Rooms : phase'[q] = "NEW" => roster'[q] = {}
      /\ \A v \in Users, q \in Rooms : Seated(v, q)' => Seated(v, q)
      /\ ~Seated(u, r)'
  BY <1>0, <1>1, Gives
<1>6. \A q \in Rooms : ~Seated(u, q)' BY <1>0, <1>3, <1>5 DEF UserOK
<1>7. Calm BY <1>1, <1>3, <1>4, <1>5, <1>6 DEF Calm
<1> QED BY <1>7, CalmSteps

\* A tick takes as much from a ticket as it adds to the place in the queue.
LEMMA SeatsTick ==
    ASSUME SeatInv, TypeInv', FlowInv', Tick
    PROVE  SeatInv'
<1>0. /\ TypeInv /\ NewRoomsEmpty /\ ticket \in [Users -> Ticket]
      /\ age \in [Users -> Absent .. WaitTtl]
  BY DEF SeatInv, TypeInv, TypeOK
<1>1. /\ AtRest /\ UNCHANGED <<flow, home, phase, roster>>
      /\ age' = [u \in Users |-> IF age[u] \in 0 .. WaitTtl - 1 THEN age[u] + 1 ELSE age[u]]
      /\ ticket' = [u \in Users |->
                      IF RunsOut(u) THEN NoTicket
                      ELSE IF ticket[u].status = "WAITING"
                           THEN [ticket[u] EXCEPT !.left = @ - 1] ELSE ticket[u]]
  BY DEF Tick, people, server
<1>2. \A g \in Flows : flow[g].pc = "idle" /\ flow'[g].pc = "idle"
  BY <1>1 DEF AtRest, IsIdle
<1>3. \A g \in Flows : EnterOK(flow[g])' /\ MatchOK(flow[g])'
  BY <1>2 DEF EnterOK, MatchOK, Taken, Held
<1>4. NewRoomsEmpty' BY <1>0, <1>1 DEF NewRoomsEmpty
<1>5. \A v \in Users, r \in Rooms : Seated(v, r)' <=> Seated(v, r)
  BY <1>1 DEF Seated, Open
<1>6. ASSUME NEW v \in Users PROVE UserOK(v)'
  <2>1. UserOK(v) /\ ticket[v] \in Ticket
        /\ (ticket[v].status = "WAITING" => ticket[v].left >= 1)
    BY <1>0 DEF SeatInv, TypeInv
  <2>2. \A g \in Flows : Held(flow[g]) = {} BY <1>2 DEF Held
  <2>3. \/ ticket[v].status = "WAITING" /\ ticket[v].left = 1 /\ ticket'[v].status = "NONE"
        \/ /\ ticket[v].status = "WAITING" /\ ticket[v].left # 1
           /\ ticket'[v].status = "WAITING" /\ ticket'[v].left = ticket[v].left - 1
        \/ ticket[v].status # "WAITING" /\ ticket'[v] = ticket[v]
    <3>1. CASE RunsOut(v) BY <1>1, <3>1, TicketFacts DEF RunsOut
    <3>2. CASE ~RunsOut(v) /\ ticket[v].status = "WAITING"
      <4>1. ticket'[v] = [ticket[v] EXCEPT !.left = @ - 1] BY <1>1, <3>2
      <4> QED BY <2>1, <3>2, <4>1, TicketFacts DEF RunsOut
    <3>3. CASE ~RunsOut(v) /\ ticket[v].status # "WAITING" BY <1>1, <3>3
    <3> QED BY <3>1, <3>2, <3>3
  <2>4. v \in Fresh' => v \in Fresh /\ age'[v] = age[v] + 1 /\ age[v] + 1 < WaitTtl
    BY <1>0, <1>1, SizesAssumption DEF Fresh, Queue, Absent
  <2>5. age[v] \in Int /\ WaitTtl \in Nat BY <1>0, SizesAssumption DEF Absent
  <2>6. v \in Fresh' => ticket'[v].status = "WAITING" /\ ticket'[v].left = WaitTtl - age'[v]
    BY <2>1, <2>3, <2>4, <2>5 DEF UserOK
  <2>7. ticket'[v].status = "MATCHED" => ticket'[v] = ticket[v] BY <2>3
  <2>8. ticket'[v].status = "WAITING" => ticket[v].status = "WAITING" BY <2>3
  <2> QED BY <1>1, <1>5, <2>1, <2>2, <2>6, <2>7, <2>8 DEF UserOK
<1> QED BY <1>3, <1>4, <1>6 DEF SeatInv

LEMMA SeatsEnvironment ==
    ASSUME SeatInv, TypeInv', FlowInv', Environment,
           "wander" \notin Happens, "refresh" \notin Happens
    PROVE  SeatInv'
<1>0. TypeOK /\ NewRoomsEmpty BY DEF SeatInv, TypeInv
<1>1. UNCHANGED flow BY EnvironmentLeaves
<1> USE DEF Elsewhere, people, server
<1>2. ASSUME NEW u \in Users, NEW r \in Rooms, Connect(u, r) \/ Disconnect(u, r)
      PROVE  SeatInv'
  <2>1. UNCHANGED <<ticket, home, phase, roster, age>>
    BY <1>2 DEF Connect, Disconnect
  <2>2. Calm BY <1>1, <2>1, CalmWhen
  <2> QED BY <2>2, CalmSteps
<1>3. ASSUME NEW u \in Users, SessionExpires(u) PROVE SeatInv'
  <2>1. UNCHANGED <<ticket, home, phase, roster, age>> BY <1>3 DEF SessionExpires
  <2>2. Calm BY <1>1, <2>1, CalmWhen
  <2> QED BY <2>2, CalmSteps
<1>4. ASSUME NEW u \in Users, NEW r \in Rooms, RemoveAbsent(u, r) PROVE SeatInv'
  <2>1. UNCHANGED <<ticket, home, age>> /\ LeaveRoster(u, r) BY <1>4 DEF RemoveAbsent
  <2>2. Calm BY <1>0, <1>1, <2>1, Gives DEF Calm
  <2> QED BY <2>2, CalmSteps
<1>5. ASSUME NEW r \in Rooms, CloseEmpty(r) \/ RoomExpires(r) PROVE SeatInv'
  <2>1. /\ UNCHANGED <<ticket, home, age>>
        /\ Closed(r) \/ UNCHANGED <<phase, roster>>
    BY <1>5 DEF CloseEmpty, RoomExpires
  <2>2. Closed(r) => Calm BY <1>0, <1>1, <2>1, Closes DEF Calm
  <2>3. UNCHANGED <<phase, roster>> => Calm BY <1>1, <2>1, CalmWhen
  <2> QED BY <2>1, <2>2, <2>3, CalmSteps
<1>6. ASSUME NEW r \in Rooms, HostStarts(r) \/ GameEnds(r) \/ ReturnToLobby(r) PROVE SeatInv'
  <2>1. /\ UNCHANGED <<ticket, home, age, roster>> /\ Open(r)
        /\ \E p \in {"LOBBY", "PLAYING", "FINISHED"} : phase' = [phase EXCEPT ![r] = p]
    BY <1>6 DEF HostStarts, GameEnds, ReturnToLobby, Open
  <2>2. \A q \in Rooms : \/ phase'[q] = phase[q]
                         \/ Open(q) /\ phase'[q] # "NEW"
    BY <1>0, <2>1 DEF TypeOK
  <2>3. \A v \in Users, q \in Rooms : Seated(v, q)' => Seated(v, q)
    BY <2>1, <2>2 DEF Seated, Open
  <2>4. \A q \in Rooms : phase'[q] = "NEW" => roster'[q] = {}
    BY <1>0, <2>1, <2>2 DEF NewRoomsEmpty
  <2>5. Calm BY <1>1, <2>1, <2>3, <2>4 DEF Calm
  <2> QED BY <2>5, CalmSteps
<1>7. ASSUME NEW u \in Users, NEW r \in Rooms PROVE ~OpenRoom(u, r)
  BY DEF OpenRoom
<1>8. \A u \in Users, r \in Rooms : Leave(u, r) => SeatInv' BY SeatsLeave
<1>9. Tick => SeatInv' BY SeatsTick
<1> QED BY <1>2, <1>3, <1>4, <1>5, <1>6, <1>7, <1>8, <1>9 DEF Environment

LEMMA SeatsNext ==
    ASSUME Happens \cap {"refresh", "wander"} = {},
           "cancel" \in Happens => \A f, g \in Flows : f = g,
           SeatInv, [Next]_vars
    PROVE  SeatInv'
<1>0. TypeInv /\ FlowInv BY DEF SeatInv
<1>1. TypeInv' /\ FlowInv' BY <1>0, NextTypes, FlowNext
<1>2. CASE UNCHANGED vars
  <2>1. UNCHANGED <<ticket, home, phase, roster, age, flow>>
    BY <1>2 DEF vars, people, server
  <2>2. Calm BY <2>1, CalmWhen
  <2> QED BY <1>1, <2>2, CalmSteps
<1>3. ASSUME NEW f \in Flows, Step(f) PROVE SeatInv'
  <2>1. Forget(f) => Flows = {f}
    BY <1>0 DEF Forget, FlowInv, FrameOK
  <2> QED BY <1>1, <1>3, <2>1, SeatsCalm, SeatsPutTicket, SeatsEnqueue, SeatsPick, SeatsCreate,
             SeatsSeat, SeatsRollback, SeatsMark, SeatsStart, SeatsForget DEF Step
<1>4. ASSUME NEW f \in Flows, NEW u \in Users, Enter(f, u) \/ Poll(f, u) \/ Cancel(f, u)
      PROVE  SeatInv'
  BY <1>1, <1>4, SeatsRequest
<1>5. Environment => SeatInv' BY <1>1, SeatsEnvironment
<1> QED BY <1>2, <1>3, <1>4, <1>5 DEF Next

LEMMA SeatsInit == Init => SeatInv
<1> SUFFICES ASSUME Init PROVE SeatInv OBVIOUS
<1>1. TypeInv /\ FlowInv BY InitTypes, FlowInit
<1>2. \A f \in Flows : flow[f].pc = "idle"
  BY NewFrameFacts DEF Init, NoFrame, Steps, Calls
<1>3. /\ \A u \in Users : ticket[u].status = "NONE" /\ u \notin Fresh
      /\ \A u \in Users, r \in Rooms : ~Seated(u, r)
      /\ NewRoomsEmpty
  BY TicketFacts DEF Init, Fresh, Queue, Seated, Open, NewRoomsEmpty
<1>4. \A f \in Flows : EnterOK(flow[f]) /\ MatchOK(flow[f])
  BY <1>2 DEF EnterOK, MatchOK, Taken, Held
<1>5. \A u \in Users : UserOK(u) BY <1>3 DEF UserOK
<1> QED BY <1>1, <1>3, <1>4, <1>5 DEF SeatInv

LEMMA SeatsAlways ==
    ASSUME Happens \cap {"refresh", "wander"} = {},
           "cancel" \in Happens => \A f, g \in Flows : f = g
    PROVE  Spec => []SeatInv
<1>1. Init => SeatInv BY SeatsInit
<1>2. SeatInv /\ [Next]_vars => SeatInv' BY SeatsNext
<1> QED BY <1>1, <1>2, PTL DEF Spec

\* Nobody is matched into a second room while a seat in the first is theirs, with any
\* number of requests under way: the lock and the queue hand every waiter to one match
\* (match), as long as people stay where quick match put them and do not cancel while
\* another request is under way.
THEOREM OneSeatAlways ==
    ASSUME Happens \cap {"refresh", "wander"} = {},
           "cancel" \in Happens => \A f, g \in Flows : f = g
    PROVE  Spec => []SeatedOnce
<1>1. SeatInv => SeatedOnce
  <2> SUFFICES ASSUME SeatInv, NEW u \in Users PROVE Cardinality(Seats(u)) <= 1
    BY DEF SeatedOnce
  <2>1. Seats(u) \subseteq {home[u]} BY DEF Seats, Seated, SeatInv, UserOK
  <2>2. IsFiniteSet({home[u]}) /\ Cardinality({home[u]}) = 1 BY FS_Singleton
  <2> QED BY <2>1, <2>2, FS_Subset
<1> QED BY <1>1, SeatsAlways, PTL

-----------------------------------------------------------------------------
(* The queue, when a request runs to its end before the next one.          *)

Crowded == {"lock", "pick", "create", "seat", "dequeue"}

\* Everybody who waits is in the queue, and there are too few of them for a match,
\* but while it is made.
QueueOK(x) ==
    /\ \A u \in Users : ticket[u].status = "WAITING" =>
         \/ u \in Fresh
         \/ u = x.who /\ x.pc \in {"queue", "forget"}
         \/ u \in x.players /\ x.pc = "mark"
    /\ Cardinality(Fresh) <= PlayerCount
    /\ x.pc \notin Crowded => Cardinality(Fresh) < PlayerCount
    /\ x.pc \in {"create", "seat", "dequeue"} => Fresh = x.players
    /\ x.pc = "seat" => phase[x.room] = "LOBBY"
    /\ x.pc \notin {"rollback", "fail"}

QueueInv == SeatInv /\ \A f \in Flows : QueueOK(flow[f])

LEMMA FreshFinite ==
    /\ IsFiniteSet(Fresh) /\ Cardinality(Fresh) \in Nat
    /\ IsFiniteSet(Fresh') /\ Cardinality(Fresh') \in Nat
    /\ Fresh \subseteq Fresh' \/ Fresh' \subseteq Fresh =>
         /\ Fresh \subseteq Fresh' => Cardinality(Fresh) <= Cardinality(Fresh')
         /\ Fresh' \subseteq Fresh => Cardinality(Fresh') <= Cardinality(Fresh)
<1>1. Fresh \subseteq Users /\ Fresh' \subseteq Users BY DEF Fresh, Queue
<1>2. IsFiniteSet(Fresh) /\ IsFiniteSet(Fresh') BY <1>1, ManyAssumption, FS_Subset
<1> QED BY <1>2, FS_Subset, FS_CardinalityType

\* Before and after a step at which nobody who waits is out of the queue, and after
\* which nobody else waits: the queue is as it was, or smaller with whoever left it.
LEMMA QueueCalm ==
    ASSUME NEW y, NEW x, QueueOK(y), y.pc \notin Crowded \cup {"queue", "forget", "mark"},
           x.pc \notin Crowded \cup {"rollback", "fail"}, Fresh' \subseteq Fresh,
           \A u \in Users : ticket'[u].status = "WAITING" =>
             ticket[u].status = "WAITING"
             /\ (u \in Fresh => u \in Fresh' \/ (u = x.who /\ x.pc = "forget"))
    PROVE  QueueOK(x)'
<1>1. Cardinality(Fresh') <= Cardinality(Fresh) /\ Cardinality(Fresh') \in Nat
      /\ Cardinality(Fresh) \in Nat
  BY FreshFinite
<1>2. Cardinality(Fresh') < PlayerCount BY <1>1, SizesAssumption DEF QueueOK
<1>3. \A u \in Users : ticket'[u].status = "WAITING" => \/ u \in Fresh'
                                                        \/ u = x.who /\ x.pc = "forget"
  BY DEF QueueOK
<1>4. x.pc \notin {"create", "seat", "dequeue"} BY DEF Crowded
<1> QED BY <1>1, <1>2, <1>3, <1>4, SizesAssumption DEF QueueOK

LEMMA QueueSteps ==
    ASSUME QueueInv, TypeInv', FlowInv', NEW f \in Flows, Flows = {f}, MaxFailures = 0, Step(f)
    PROVE  QueueOK(flow[f])'
<1>0. /\ SeatInv /\ TypeInv /\ TypeOK /\ FlowInv /\ flow \in [Flows -> Frame]
      /\ flow[f] \in Frame
      /\ age \in [Users -> Absent .. WaitTtl] /\ ticket \in [Users -> Ticket]
      /\ QueueOK(flow[f]) /\ Sound(flow[f]) /\ EnterOK(flow[f]) /\ MatchOK(flow[f])
      /\ (flow[f].pc \in Locked <=> lock = f)
  BY DEF QueueInv, SeatInv, TypeInv, TypeOK, FlowInv
<1>1. \A x : Becomes(f, x) => flow'[f] = x BY DEF Becomes
<1>2. \A pc \in Steps : /\ At(f, pc).pc = pc /\ At(f, pc).who = flow[f].who
                        /\ At(f, pc).players = flow[f].players /\ At(f, pc).room = flow[f].room
  BY <1>0, AtFacts
<1>3. /\ NoFrame.pc = "idle" /\ NewFrame("look", "entered", flow[f].who).pc = "look"
  <2>1. flow[f].who \in Users \cup {Nobody} BY <1>0, FrameFacts
  <2> QED BY <2>1, NewFrameFacts DEF NoFrame, Steps, Calls
<1>4. ASSUME age' = age PROVE Fresh' = Fresh BY <1>4 DEF Fresh, Queue
<1>5. ASSUME NEW x, Becomes(f, x), age' = age,
             flow[f].pc \notin Crowded \cup {"queue", "forget", "mark"},
             x.pc \notin Crowded \cup {"rollback", "fail"},
             \A u \in Users : ticket'[u].status = "WAITING" => ticket[u].status = "WAITING"
      PROVE  QueueOK(flow[f])'
  <2>1. Fresh' = Fresh BY <1>4, <1>5
  <2>2. QueueOK(x)' BY <1>0, <1>5, <2>1, QueueCalm
  <2> QED BY <1>1, <1>5, <2>2 DEF QueueOK
<1> USE DEF Crowded, Steps
<1>6. CASE Look(f)
  <2>1. PICK u \in Users : u = flow[f].who BY <1>0, <1>6, Looks
  <2>2. /\ flow[f].pc = "look" /\ UNCHANGED age /\ (Heal(u) \/ UNCHANGED ticket)
    BY <1>0, <1>6, <2>1, Looks
  <2>3. PICK x : Becomes(f, x) /\ x.pc \in {"idle", "ticket", "ready", "report", "unqueue"}
    BY <1>0, <1>6, Looks
  <2>4. \A v \in Users : ticket'[v].status = "WAITING" => ticket[v].status = "WAITING"
    BY <1>0, <2>2, Heals, TicketFacts
  <2> QED BY <1>5, <2>2, <2>3, <2>4
<1>7. CASE PutTicket(f)
  <2>1. /\ flow[f].pc = "ticket" /\ UNCHANGED age /\ Becomes(f, At(f, "queue"))
        /\ ticket' = [ticket EXCEPT ![flow[f].who] = Waiting]
    BY <1>0, <1>7, PlainSteps DEF PutTicket
  <2>2. PICK x : x = At(f, "queue") OBVIOUS
  <2>3. x.pc = "queue" /\ x.who = flow[f].who /\ Becomes(f, x) BY <1>2, <2>1, <2>2
  <2>4. \A u \in Users : u # flow[f].who => ticket'[u] = ticket[u] BY <1>0, <2>1
  <2>5. \A u \in Users : ticket'[u].status = "WAITING" => u \in Fresh \/ u = x.who
    BY <1>0, <2>1, <2>3, <2>4 DEF QueueOK
  <2>6. QueueOK(x)' BY <1>0, <1>4, <2>1, <2>3, <2>5 DEF QueueOK
  <2> QED BY <1>1, <2>3, <2>6 DEF QueueOK
<1>8. CASE Enqueue(f)
  <2>1. /\ flow[f].pc = "queue" /\ UNCHANGED ticket /\ Becomes(f, At(f, "lock"))
        /\ age' = [age EXCEPT ![flow[f].who] = 0]
    BY <1>0, <1>8, PlainSteps DEF Enqueue
  <2>2. PICK x : x = At(f, "lock") OBVIOUS
  <2>3. x.pc = "lock" /\ Becomes(f, x) BY <1>2, <2>1, <2>2
  <2>4. PICK u \in Users : u = flow[f].who BY <1>0, <2>1 DEF Sound
  <2>5. Fresh' = Fresh \cup {u}
    BY <1>0, <2>1, <2>4, SizesAssumption DEF Fresh, Queue, Absent
  <2>6. Cardinality(Fresh') <= PlayerCount
    <3>1. Cardinality(Fresh) < PlayerCount BY <1>0, <2>1 DEF QueueOK
    <3>2. Cardinality(Fresh \cup {u}) \in {Cardinality(Fresh), Cardinality(Fresh) + 1}
      BY FreshFinite, FS_AddElement
    <3> QED BY <2>5, <3>1, <3>2, FreshFinite, SizesAssumption
  <2>7. \A v \in Users : ticket'[v].status = "WAITING" => v \in Fresh'
    BY <1>0, <2>1, <2>4, <2>5 DEF QueueOK
  <2>8. QueueOK(x)' BY <2>3, <2>6, <2>7 DEF QueueOK
  <2> QED BY <1>1, <2>3, <2>8 DEF QueueOK
<1>9. CASE Lock(f)
  <2>1. flow[f].pc = "lock" /\ UNCHANGED <<ticket, age>> BY <1>9 DEF Lock
  <2>2. lock = NoFlow BY <1>0, <2>1 DEF TypeOK, Locked
  <2>3. PICK x : x = At(f, "pick") OBVIOUS
  <2>4. x.pc = "pick" /\ Becomes(f, x) BY <1>0, <1>2, <1>9, <2>2, <2>3, ForkedSteps
  <2>5. QueueOK(x)' BY <1>0, <1>4, <2>1, <2>4 DEF QueueOK
  <2> QED BY <1>1, <2>4, <2>5 DEF QueueOK
<1>10. CASE Pick(f)
  <2>1. flow[f].pc = "pick" /\ \A u \in Users : ticket[u].status = "WAITING" => u \in Fresh
    BY <1>0, <1>10, Picks DEF QueueOK
  <2>2. PICK x : x = At(f, "unlock") OBVIOUS
  <2>3. x.pc = "unlock" BY <1>2, <2>2
  <2>4. CASE /\ ~Enough /\ UNCHANGED ticket /\ Becomes(f, At(f, "unlock"))
             /\ age' = [u \in Users |-> IF u \in Fresh THEN age[u] ELSE Absent]
    <3>1. Fresh' = Fresh BY <2>4 DEF Fresh, Queue
    <3>2. Cardinality(Fresh) < PlayerCount
      BY <2>4, FreshFinite, SizesAssumption DEF Enough
    <3>3. QueueOK(x)' BY <2>1, <2>3, <2>4, <3>1, <3>2, SizesAssumption, FreshFinite DEF QueueOK
    <3> QED BY <1>1, <2>2, <2>4, <3>3 DEF QueueOK
  <2>5. ASSUME NEW S \in SUBSET Fresh, Enough, Longest(S),
               age' = [u \in Users |-> IF u \in Fresh \ Evicted(S) THEN age[u] ELSE Absent],
               ticket' = [u \in Users |-> IF u \in Evicted(S) THEN NoTicket ELSE ticket[u]],
               \/ Evicted(S) = {} /\ \E z : /\ Becomes(f, z)
                                            /\ Like(f, z, "create", flow[f].room, S, flow[f].seated)
               \/ Evicted(S) # {} /\ Becomes(f, At(f, "unlock"))
        PROVE  QueueOK(flow[f])'
    <3>1. /\ Cardinality(Fresh) = PlayerCount /\ Cardinality(S) = PlayerCount
      BY <1>0, <2>5, FreshFinite, SizesAssumption DEF QueueOK, Enough, Longest
    <3>2. S = Fresh BY <2>5, <3>1, FreshFinite, FS_Subset
    <3>3. Fresh' = Fresh \ Evicted(S) BY <2>5 DEF Fresh, Queue
    <3>4. \A u \in Users : ticket'[u].status = "WAITING" => u \in Fresh'
      <4>1. \A u \in Users : u \in Evicted(S) => ticket'[u] = NoTicket BY <2>5
      <4>2. \A u \in Users : u \notin Evicted(S) => ticket'[u] = ticket[u] BY <2>5
      <4> QED BY <2>1, <3>3, <4>1, <4>2, TicketFacts
    <3>5. CASE Evicted(S) = {}
      <4>1. PICK z : Becomes(f, z) /\ Like(f, z, "create", flow[f].room, S, flow[f].seated)
        BY <2>5, <3>5
      <4>2. z.pc = "create" /\ z.players = S BY <4>1 DEF Like
      <4>3. Fresh' = S BY <3>2, <3>3, <3>5
      <4>4. QueueOK(z)' BY <3>1, <3>4, <4>2, <4>3, SizesAssumption DEF QueueOK
      <4> QED BY <1>1, <4>1, <4>4 DEF QueueOK
    <3>6. CASE Evicted(S) # {}
      <4>1. Becomes(f, x) BY <2>2, <2>5, <3>6
      <4>2. Evicted(S) \subseteq Fresh BY <3>2 DEF Evicted
      <4>3. Fresh' # Fresh /\ Fresh' \subseteq Fresh BY <3>3, <3>6, <4>2
      <4>4. Cardinality(Fresh') < PlayerCount
        <5>1. Cardinality(Fresh') <= Cardinality(Fresh)
              /\ (Cardinality(Fresh') = Cardinality(Fresh) => Fresh' = Fresh)
          BY <4>3, FreshFinite, FS_Subset
        <5> QED BY <3>1, <4>3, <5>1, FreshFinite, SizesAssumption
      <4>5. QueueOK(x)' BY <2>3, <3>4, <4>4, FreshFinite, SizesAssumption DEF QueueOK
      <4> QED BY <1>1, <4>1, <4>5 DEF QueueOK
    <3> QED BY <3>5, <3>6
  <2> QED BY <1>0, <1>10, <2>4, <2>5, Picks
<1>11. CASE Create(f)
  <2>1. /\ flow[f].pc = "create" /\ UNCHANGED <<ticket, age>> BY <1>0, <1>11, Creates
  <2>2. PICK r \in Rooms :
          /\ phase' = [phase EXCEPT ![r] = "LOBBY"]
          /\ \E x : Becomes(f, x) /\ Like(f, x, "seat", r, flow[f].players, flow[f].seated)
    BY <1>0, <1>11, Creates
  <2>3. PICK x : Becomes(f, x) /\ Like(f, x, "seat", r, flow[f].players, flow[f].seated)
    BY <2>2
  <2>4. x.pc = "seat" /\ x.players = flow[f].players /\ x.room = r BY <2>3 DEF Like
  <2>5. phase'[r] = "LOBBY" BY <1>0, <2>2 DEF TypeOK
  <2>6. QueueOK(x)' BY <1>0, <1>4, <2>1, <2>4, <2>5 DEF QueueOK
  <2> QED BY <1>1, <2>3, <2>6 DEF QueueOK
<1>12. CASE Seat(f)
  <2>1. /\ flow[f].pc = "seat" /\ UNCHANGED <<ticket, age, phase>> /\ phase[flow[f].room] = "LOBBY"
    BY <1>0, <1>12, Sits DEF QueueOK
  <2>2. PICK pc \in {"seat", "dequeue"} : \E x, S :
          Becomes(f, x) /\ Like(f, x, pc, flow[f].room, flow[f].players, S)
    BY <1>0, <1>12, <2>1, Sits
  <2>3. PICK x, S : Becomes(f, x) /\ Like(f, x, pc, flow[f].room, flow[f].players, S)
    BY <2>2
  <2>4. x.pc \in {"seat", "dequeue"} /\ x.players = flow[f].players /\ x.room = flow[f].room
    BY <2>3 DEF Like
  <2>5. QueueOK(x)' BY <1>0, <1>4, <2>1, <2>4 DEF QueueOK
  <2> QED BY <1>1, <2>3, <2>5 DEF QueueOK
<1>13. ~StoreFull(f) BY <1>0, SizesAssumption DEF StoreFull, TypeOK
<1>14. ~Rollback(f) BY <1>0 DEF Rollback, QueueOK
<1>15. CASE Dequeue(f)
  <2>1. /\ flow[f].pc = "dequeue" /\ UNCHANGED ticket /\ Becomes(f, At(f, "mark"))
        /\ age' = [u \in Users |-> IF u \in flow[f].players THEN Absent ELSE age[u]]
    BY <1>0, <1>15, PlainSteps DEF Dequeue
  <2>2. PICK x : x = At(f, "mark") OBVIOUS
  <2>3. x.pc = "mark" /\ x.players = flow[f].players /\ Becomes(f, x) BY <1>2, <2>1, <2>2
  <2>4. Fresh = flow[f].players BY <1>0, <2>1 DEF QueueOK
  <2>5. Fresh' = {} BY <2>1, <2>4 DEF Fresh, Queue
  <2>6. Cardinality(Fresh') = 0 BY <2>5, FS_EmptySet
  <2>7. \A u \in Users : ticket'[u].status = "WAITING" => u \in x.players
    BY <1>0, <2>1, <2>3, <2>4 DEF QueueOK
  <2>8. QueueOK(x)' BY <2>3, <2>6, <2>7, SizesAssumption DEF QueueOK
  <2> QED BY <1>1, <2>3, <2>8 DEF QueueOK
<1>16. CASE MarkMatched(f)
  <2>1. /\ flow[f].pc = "mark" /\ UNCHANGED age /\ Becomes(f, At(f, "marker"))
        /\ ticket' = [u \in Users |-> IF u \in flow[f].players THEN Matched(flow[f].room)
                                      ELSE ticket[u]]
    BY <1>0, <1>16, PlainSteps DEF MarkMatched
  <2>2. PICK x : x = At(f, "marker") OBVIOUS
  <2>3. x.pc = "marker" /\ Becomes(f, x) BY <1>2, <2>1, <2>2
  <2>4. flow[f].room \in Rooms \cup {NoRoom} BY <1>0, FrameFacts
  <2>5. \A u \in Users : ticket'[u].status = "WAITING" => u \in Fresh
    BY <1>0, <2>1, <2>4, TicketFacts DEF QueueOK
  <2>6. QueueOK(x)' BY <1>0, <1>4, <2>1, <2>3, <2>5 DEF QueueOK
  <2> QED BY <1>1, <2>3, <2>6 DEF QueueOK
<1>17. CASE SetMarker(f)
  BY <1>0, <1>2, <1>5, <1>17, PlainSteps DEF SetMarker
<1>18. CASE Unlock(f)
  <2>1. flow[f].pc = "unlock" /\ UNCHANGED <<ticket, age>>
    BY <1>0, <1>18 DEF Unlock, QueueOK
  <2> QED BY <1>0, <1>3, <1>5, <1>18, <2>1, ForkedSteps
<1>19. CASE StartIfReady(f)
  <2>1. flow[f].pc = "ready" /\ UNCHANGED <<ticket, age>> BY <1>19 DEF StartIfReady
  <2>2. PICK pc \in {"unmark", "start", "report"} : Becomes(f, At(f, pc))
    BY <1>0, <1>19, ForkedSteps
  <2> QED BY <1>2, <1>5, <2>1, <2>2
<1>20. CASE Start(f)
  <2>1. flow[f].pc = "start" /\ UNCHANGED <<ticket, age>> BY <1>20 DEF Start
  <2> QED BY <1>0, <1>2, <1>3, <1>5, <1>20, <2>1, ForkedSteps
<1>21. CASE Unmark(f)
  BY <1>0, <1>2, <1>5, <1>21, PlainSteps DEF Unmark
<1>22. CASE Report(f)
  <2>1. PICK u \in Users : u = flow[f].who BY <1>0, <1>22 DEF Report, Sound
  <2>2. /\ flow[f].pc = "report" /\ Becomes(f, NoFrame) /\ UNCHANGED age
        /\ \/ Heal(u)
           \/ ticket' \in {[ticket EXCEPT ![u] = NoTicket], ticket}
    BY <1>0, <1>22, <2>1, PlainSteps DEF Report
  <2>3. \A v \in Users : ticket'[v].status = "WAITING" => ticket[v].status = "WAITING"
    BY <1>0, <2>2, Heals, TicketFacts
  <2> QED BY <1>3, <1>5, <2>2, <2>3
<1>23. CASE Unqueue(f)
  <2>1. PICK u \in Users : u = flow[f].who BY <1>0, <1>23 DEF Unqueue, Sound
  <2>2. /\ flow[f].pc = "unqueue" /\ UNCHANGED ticket /\ Becomes(f, At(f, "forget"))
        /\ age' = [age EXCEPT ![u] = Absent]
    BY <1>0, <1>23, <2>1, PlainSteps DEF Unqueue
  <2>3. PICK x : x = At(f, "forget") OBVIOUS
  <2>4. x.pc = "forget" /\ x.who = u /\ Becomes(f, x) BY <1>2, <2>1, <2>2, <2>3
  <2>5. Fresh' = Fresh \ {u} BY <1>0, <2>2 DEF Fresh, Queue
  <2>6. QueueOK(x)' BY <1>0, <2>2, <2>4, <2>5, QueueCalm
  <2> QED BY <1>1, <2>4, <2>6 DEF QueueOK
<1>24. CASE Forget(f)
  <2>1. PICK u \in Users : u = flow[f].who BY <1>0, <1>24 DEF Forget, Sound
  <2>2. /\ flow[f].pc = "forget" /\ UNCHANGED age /\ Becomes(f, NoFrame)
        /\ ticket' = [ticket EXCEPT ![u] = NoTicket]
    BY <1>0, <1>24, <2>1, PlainSteps DEF Forget
  <2>3. \A v \in Users : ticket'[v].status = "WAITING" => v \in Fresh
    BY <1>0, <2>1, <2>2, TicketFacts DEF QueueOK
  <2>4. QueueOK(NoFrame)' BY <1>0, <1>3, <1>4, <2>2, <2>3 DEF QueueOK
  <2> QED BY <1>1, <2>2, <2>4 DEF QueueOK
<1> QED BY <1>6, <1>7, <1>8, <1>9, <1>10, <1>11, <1>12, <1>13, <1>14, <1>15, <1>16, <1>17,
           <1>18, <1>19, <1>20, <1>21, <1>22, <1>23, <1>24 DEF Step

LEMMA QueueEnvironment ==
    ASSUME QueueInv, TypeInv', NEW f \in Flows, Flows = {f}, Environment,
           "wander" \notin Happens, "refresh" \notin Happens
    PROVE  QueueOK(flow[f])'
<1>0. /\ SeatInv /\ TypeOK /\ QueueOK(flow[f])
      /\ age \in [Users -> Absent .. WaitTtl] /\ ticket \in [Users -> Ticket]
  BY DEF QueueInv, SeatInv, TypeInv, TypeOK
<1>1. UNCHANGED flow BY EnvironmentLeaves
<1>2. flow[f].pc = "idle"
  BY DEF Environment, Connect, Disconnect, Leave, OpenRoom, RemoveAbsent, CloseEmpty, HostStarts,
         GameEnds, ReturnToLobby, RoomExpires, SessionExpires, Tick, SomeIdle, AtRest, IsIdle
<1>3. PICK x : x = flow[f] OBVIOUS
<1>4. /\ Fresh' \subseteq Fresh
      /\ \A u \in Users : ticket'[u].status = "WAITING" =>
           ticket[u].status = "WAITING" /\ (u \in Fresh => u \in Fresh')
  <2>1. CASE Tick
    <3>1. /\ age' = [u \in Users |-> IF age[u] \in 0 .. WaitTtl - 1 THEN age[u] + 1 ELSE age[u]]
          /\ ticket' = [u \in Users |->
                          IF RunsOut(u) THEN NoTicket
                          ELSE IF ticket[u].status = "WAITING"
                               THEN [ticket[u] EXCEPT !.left = @ - 1] ELSE ticket[u]]
      BY <2>1 DEF Tick
    <3>2. \A u \in Users : age[u] \in Int BY <1>0, SizesAssumption DEF Absent
    <3>3. ASSUME NEW u \in Users, u \in Fresh' PROVE u \in Fresh
      BY <1>0, <3>1, <3>2, <3>3, SizesAssumption DEF Fresh, Queue, Absent
    <3>4. ASSUME NEW u \in Users, ticket'[u].status = "WAITING"
          PROVE  ticket[u].status = "WAITING" /\ (u \in Fresh => u \in Fresh')
      <4>1. ~RunsOut(u) BY <3>1, <3>4, TicketFacts
      <4>2. ticket[u].status = "WAITING" BY <3>1, <3>4, <4>1
      <4>3. ASSUME u \in Fresh PROVE u \in Fresh'
        <5>1. ticket[u].left = WaitTtl - age[u] /\ age[u] < WaitTtl /\ age[u] # Absent
          BY <1>0, <4>3 DEF SeatInv, UserOK, Fresh, Queue
        <5>2. ticket[u].left # 1 BY <4>1, <4>2 DEF RunsOut
        <5>3. age[u] \in 0 .. WaitTtl - 1 BY <1>0, <5>1, SizesAssumption DEF Absent
        <5>4. age'[u] = age[u] + 1 BY <3>1, <5>3
        <5>5. age'[u] < WaitTtl /\ age'[u] # Absent
          BY <5>1, <5>2, <5>3, <5>4, SizesAssumption DEF Absent
        <5> QED BY <5>5 DEF Fresh, Queue
      <4> QED BY <4>2, <4>3
    <3>5. Fresh' \subseteq Users BY DEF Fresh, Queue
    <3> QED BY <3>3, <3>4, <3>5
  <2>2. CASE \E u \in Users, r \in Rooms : Leave(u, r)
    <3>1. PICK u \in Users, r \in Rooms : Leave(u, r) BY <2>2
    <3>2. age' = age /\ ticket' = [ticket EXCEPT ![u] = NoTicket]
      BY <3>1 DEF Leave, ClearRoom, Elsewhere
    <3>3. Fresh' = Fresh BY <3>2 DEF Fresh, Queue
    <3> QED BY <1>0, <3>2, <3>3, TicketFacts
  <2>3. CASE UNCHANGED <<age, ticket>>
    <3>1. Fresh' = Fresh BY <2>3 DEF Fresh, Queue
    <3> QED BY <2>3, <3>1
  <2>4. \/ Tick \/ UNCHANGED <<age, ticket>>
        \/ \E u \in Users, r \in Rooms : Leave(u, r)
    BY DEF Environment, Connect, Disconnect, OpenRoom, RemoveAbsent, CloseEmpty, HostStarts,
           GameEnds, ReturnToLobby, RoomExpires, SessionExpires, Elsewhere
  <2> QED BY <2>1, <2>2, <2>3, <2>4
<1>5. QueueOK(x)' BY <1>0, <1>2, <1>3, <1>4, QueueCalm DEF Crowded
<1> QED BY <1>1, <1>3, <1>5 DEF QueueOK

LEMMA QueueNext ==
    ASSUME NEW f \in Flows, Flows = {f}, MaxFailures = 0,
           Happens \cap {"refresh", "wander"} = {}, QueueInv, [Next]_vars
    PROVE  QueueInv'
<1>0. SeatInv /\ TypeInv /\ FlowInv /\ QueueOK(flow[f]) BY DEF QueueInv, SeatInv
<1>1. SeatInv' /\ TypeInv' /\ FlowInv' BY <1>0, SeatsNext DEF SeatInv
<1>2. CASE UNCHANGED vars
  BY <1>0, <1>1, <1>2 DEF vars, server, QueueInv, QueueOK, Fresh, Queue
<1>3. Step(f) => QueueOK(flow[f])' BY <1>1, QueueSteps
<1>4. ASSUME NEW u \in Users, Enter(f, u) \/ Poll(f, u) \/ Cancel(f, u)
      PROVE  QueueOK(flow[f])'
  <2>1. PICK call \in Calls : Request(f, u, call) BY <1>4 DEF Enter, Poll, Cancel, Calls
  <2>2. /\ flow[f].pc = "idle" /\ UNCHANGED <<age, ticket>>
        /\ \E x : Becomes(f, x) /\ x.pc = "look"
    BY <1>0, <2>1, Requests
  <2>3. PICK x : Becomes(f, x) /\ x.pc = "look" BY <2>2
  <2>4. Fresh' = Fresh BY <2>2 DEF Fresh, Queue
  <2>5. QueueOK(x)' BY <1>0, <2>2, <2>3, <2>4, QueueCalm DEF Crowded
  <2>6. flow'[f] = x BY <2>3 DEF Becomes
  <2> QED BY <2>5, <2>6 DEF QueueOK
<1>5. Environment => QueueOK(flow[f])' BY <1>1, QueueEnvironment
<1>6. QueueOK(flow[f])' \/ UNCHANGED vars BY <1>3, <1>4, <1>5 DEF Next
<1> QED BY <1>1, <1>2, <1>6 DEF QueueInv

LEMMA QueueAlways ==
    ASSUME NEW f \in Flows, Flows = {f}, MaxFailures = 0,
           Happens \cap {"refresh", "wander"} = {}
    PROVE  Spec => []QueueInv
<1>1. Init => QueueInv
  <2> SUFFICES ASSUME Init PROVE QueueInv OBVIOUS
  <2>1. SeatInv BY SeatsInit
  <2>2. flow[f].pc = "idle" BY NewFrameFacts DEF Init, NoFrame, Steps, Calls
  <2>3. Fresh = {} /\ \A u \in Users : ticket[u].status = "NONE"
    BY TicketFacts DEF Init, Fresh, Queue
  <2>4. Cardinality(Fresh) = 0 BY <2>3, FS_EmptySet
  <2> QED BY <2>1, <2>2, <2>3, <2>4, SizesAssumption DEF QueueInv, QueueOK
<1>2. QueueInv /\ [Next]_vars => QueueInv' BY QueueNext
<1> QED BY <1>1, <1>2, PTL DEF Spec

\* One request at a time, a store with room and people who stay where they were put:
\* at most PlayerCount - 1 people are ever left waiting, because the request that makes
\* the group complete matches it, or loses a ghost in trying (match, identitiesOf).
THEOREM NobodyWaitsAlways ==
    ASSUME NEW f \in Flows, Flows = {f}, MaxFailures = 0,
           Happens \cap {"refresh", "wander"} = {}
    PROVE  Spec => []NobodyWaitsInVain
<1>1. QueueInv => NobodyWaitsInVain
  BY DEF QueueInv, QueueOK, NobodyWaitsInVain, AtRest, IsIdle, Crowded
<1> QED BY <1>1, QueueAlways, PTL

\* Under the same conditions every answer is true: who is told WAITING can be picked, who
\* can be picked is told, and a matched ticket names the room its owner has a seat in
\* (enter, cancel, statusOf, markMatched, and the expiry of ticket and place).
THEOREM TicketsTrueAlways ==
    ASSUME NEW f \in Flows, Flows = {f}, MaxFailures = 0,
           Happens \cap {"refresh", "wander"} = {}
    PROVE  Spec => []TicketsAreTrue
<1>1. QueueInv => TicketsAreTrue
  <2> SUFFICES ASSUME QueueInv PROVE TicketsAreTrue OBVIOUS
  <2>1. SeatInv /\ QueueOK(flow[f]) /\ TypeOK BY DEF QueueInv, SeatInv, TypeInv
  <2>2. QueueMatchesTickets
    BY <2>1 DEF QueueMatchesTickets, SeatInv, UserOK, QueueOK, AtRest, IsIdle
  <2>3. TicketsHaveSeats
    BY <2>1 DEF TicketsHaveSeats, SeatInv, UserOK
  <2> QED BY <2>1, <2>2, <2>3 DEF TicketsAreTrue
<1> QED BY <1>1, QueueAlways, PTL

-----------------------------------------------------------------------------
(* Starts, whatever happens besides.                                       *)

\* A match that has been started has lost its marker, or is about to, and none is
\* started before it has one.
StartOK(x) ==
    /\ \A r \in Rooms :
         /\ autoStarts[r] \in {0, 1}
         /\ phase[r] = "NEW" => autoStarts[r] = 0
         /\ autoStarts[r] = 1 =>
              \/ x.pc = "unmark" /\ x.room = r
              \/ r \notin marker /\ ~(HasRoom(x.pc) /\ x.room = r)
    /\ x.pc = "start" => x.room \in marker /\ AllHere(x.room)

StartInv == TypeInv /\ \A f \in Flows : StartOK(flow[f])

LEMMA StartCalm ==
    ASSUME NEW y, NEW x, StartOK(y), y.pc # "unmark", x.pc # "start",
           HasRoom(x.pc) => HasRoom(y.pc) /\ x.room = y.room,
           UNCHANGED autoStarts, marker' \subseteq marker,
           \A r \in Rooms : phase'[r] = "NEW" => phase[r] = "NEW"
    PROVE  StartOK(x)'
  BY DEF StartOK

LEMMA PhasesGoOn ==
    ASSUME TypeOK, NEW u \in Users, NEW r
    PROVE  Closed(r) \/ LeaveRoster(u, r) =>
             \A q \in Rooms : phase'[q] = "NEW" => phase[q] = "NEW"
<1>1. Closed(r) => \A q \in Rooms : phase'[q] = "NEW" => phase[q] = "NEW"
  BY DEF Closed, TypeOK
<1> QED BY <1>1 DEF LeaveRoster

LEMMA StartSteps ==
    ASSUME StartInv, NEW f \in Flows, Flows = {f}, Step(f)
    PROVE  /\ StartOK(flow[f])'
           /\ \A r \in Rooms : autoStarts'[r] > autoStarts[r] => roster[r] \subseteq sockets[r]
<1>0. /\ TypeInv /\ TypeOK /\ flow \in [Flows -> Frame] /\ StartOK(flow[f]) /\ Sound(flow[f])
      /\ autoStarts \in [Rooms -> Nat] /\ marker \subseteq Rooms
  BY DEF StartInv, TypeInv, TypeOK
<1>1. \A x : Becomes(f, x) => flow'[f] = x BY DEF Becomes
<1>2. \A pc \in Steps : At(f, pc).pc = pc /\ At(f, pc).room = flow[f].room
  BY <1>0, AtFacts
<1>3. /\ NoFrame.pc = "idle" /\ NewFrame("look", "entered", flow[f].who).pc = "look"
  <2>1. flow[f].who \in Users \cup {Nobody} BY <1>0, FrameFacts
  <2> QED BY <2>1, NewFrameFacts DEF NoFrame, Steps, Calls
<1> USE DEF Steps, HasRoom
<1>4. ASSUME NEW x, Becomes(f, x), flow[f].pc # "unmark", x.pc # "start",
             HasRoom(x.pc) => HasRoom(flow[f].pc) /\ x.room = flow[f].room,
             UNCHANGED <<autoStarts, marker>>,
             \A r \in Rooms : phase'[r] = "NEW" => phase[r] = "NEW"
      PROVE  /\ StartOK(flow[f])'
             /\ \A r \in Rooms : autoStarts'[r] > autoStarts[r] => roster[r] \subseteq sockets[r]
  <2>1. StartOK(x)' BY <1>0, <1>4, StartCalm
  <2>2. StartOK(flow[f])' BY <1>1, <1>4, <2>1 DEF StartOK
  <2> QED BY <1>0, <1>4, <2>2
<1> USE DEF server, counts
<1>5. CASE Look(f)
  <2>1. PICK u \in Users : u = flow[f].who BY <1>0, <1>5, Looks
  <2>2. /\ flow[f].pc = "look" /\ UNCHANGED <<marker, autoStarts>>
        /\ Heal(u) \/ UNCHANGED phase
    BY <1>0, <1>5, <2>1, Looks
  <2>3. PICK x : Becomes(f, x) /\ x.pc \in {"idle", "ticket", "ready", "report", "unqueue"}
    BY <1>0, <1>5, Looks
  <2>4. \A r \in Rooms : phase'[r] = "NEW" => phase[r] = "NEW"
    BY <1>0, <2>2, PhasesGoOn DEF Heal
  <2> QED BY <1>4, <2>2, <2>3, <2>4
<1>6. CASE PutTicket(f) \/ Enqueue(f) \/ Dequeue(f) \/ MarkMatched(f) \/ Unqueue(f)
  <2>1. flow[f].pc # "unmark" /\ UNCHANGED <<marker, autoStarts, phase>>
    BY <1>6 DEF PutTicket, Enqueue, Dequeue, MarkMatched, Unqueue
  <2>2. \E pc \in {"queue", "lock", "mark", "marker", "forget"} :
          /\ Becomes(f, At(f, pc)) /\ (HasRoom(pc) => HasRoom(flow[f].pc))
    BY <1>0, <1>6, PlainSteps DEF PutTicket, Enqueue, Dequeue, MarkMatched, Unqueue
  <2>3. PICK pc \in {"queue", "lock", "mark", "marker", "forget"} :
          /\ Becomes(f, At(f, pc)) /\ (HasRoom(pc) => HasRoom(flow[f].pc))
    BY <2>2
  <2> QED BY <1>2, <1>4, <2>1, <2>3
<1>7. CASE Lock(f)
  <2>1. flow[f].pc = "lock" /\ UNCHANGED <<marker, autoStarts, phase>> BY <1>7 DEF Lock
  <2> QED BY <1>0, <1>2, <1>3, <1>4, <1>7, <2>1, ForkedSteps
<1>8. CASE Pick(f)
  <2>1. flow[f].pc = "pick" /\ UNCHANGED <<marker, autoStarts, phase>> BY <1>0, <1>8, Picks
  <2>2. PICK x : Becomes(f, x) /\ x.pc \in {"unlock", "create"}
    <3>1. \/ Becomes(f, At(f, "unlock"))
          \/ \E S, x : Becomes(f, x) /\ Like(f, x, "create", flow[f].room, S, flow[f].seated)
      BY <1>0, <1>8, Picks
    <3> QED BY <1>2, <3>1 DEF Like
  <2> QED BY <1>4, <2>1, <2>2
<1>9. CASE Create(f)
  <2>1. flow[f].pc = "create" /\ UNCHANGED <<marker, autoStarts>> BY <1>0, <1>9, Creates
  <2>2. PICK r \in Rooms :
          /\ phase[r] = "NEW" /\ phase' = [phase EXCEPT ![r] = "LOBBY"]
          /\ \E x : Becomes(f, x) /\ Like(f, x, "seat", r, flow[f].players, flow[f].seated)
    BY <1>0, <1>9, Creates
  <2>3. PICK x : Becomes(f, x) /\ Like(f, x, "seat", r, flow[f].players, flow[f].seated)
    BY <2>2
  <2>4. x.pc = "seat" /\ x.room = r BY <2>3 DEF Like
  <2>5. autoStarts[r] = 0 BY <1>0, <2>2 DEF StartOK
  <2>6. \A q \in Rooms : phase'[q] = "NEW" => phase[q] = "NEW" BY <1>0, <2>2 DEF TypeOK
  <2>7. StartOK(x)' BY <1>0, <2>1, <2>4, <2>5, <2>6 DEF StartOK
  <2>8. StartOK(flow[f])' BY <1>1, <2>3, <2>7 DEF StartOK
  <2> QED BY <1>0, <2>1, <2>8
<1>10. CASE Seat(f)
  <2>1. flow[f].pc = "seat" /\ UNCHANGED <<marker, autoStarts, phase>> BY <1>0, <1>10, Sits
  <2>2. CASE Becomes(f, At(f, "rollback"))
    BY <1>2, <1>4, <2>1, <2>2
  <2>3. CASE \E pc \in {"seat", "dequeue"} : \E x, S :
               Becomes(f, x) /\ Like(f, x, pc, flow[f].room, flow[f].players, S)
    <3>1. PICK pc \in {"seat", "dequeue"} : \E x, S :
               Becomes(f, x) /\ Like(f, x, pc, flow[f].room, flow[f].players, S)
      BY <2>3
    <3>2. PICK x, S : Becomes(f, x) /\ Like(f, x, pc, flow[f].room, flow[f].players, S)
      BY <3>1
    <3>3. x.pc \in {"seat", "dequeue"} /\ x.room = flow[f].room BY <3>2 DEF Like
    <3> QED BY <1>4, <2>1, <3>2, <3>3
  <2> QED BY <1>0, <1>10, <2>2, <2>3, Sits
<1>11. CASE StoreFull(f)
  <2>1. UNCHANGED <<marker, autoStarts, phase>> BY <1>11 DEF StoreFull
  <2> QED BY <1>0, <1>2, <1>3, <1>4, <1>11, <2>1, ForkedSteps
<1>12. CASE Rollback(f)
  <2>1. /\ flow[f].pc = "rollback" /\ UNCHANGED <<marker, autoStarts>>
        /\ phase' = [phase EXCEPT ![flow[f].room] = "GONE"] /\ Becomes(f, At(f, "fail"))
    BY <1>0, <1>12, PlainSteps DEF Rollback, Closed
  <2>2. \A r \in Rooms : phase'[r] = "NEW" => phase[r] = "NEW" BY <1>0, <2>1 DEF TypeOK
  <2> QED BY <1>2, <1>4, <2>1, <2>2
<1>13. CASE SetMarker(f)
  <2>1. /\ flow[f].pc = "marker" /\ UNCHANGED <<autoStarts, phase>> /\ Becomes(f, At(f, "unlock"))
        /\ marker' = marker \cup {flow[f].room}
    BY <1>0, <1>13, PlainSteps DEF SetMarker
  <2>2. PICK x : x = At(f, "unlock") OBVIOUS
  <2>3. x.pc = "unlock" /\ Becomes(f, x) BY <1>2, <2>1, <2>2
  <2>4. StartOK(x)' BY <1>0, <2>1, <2>3 DEF StartOK
  <2>5. StartOK(flow[f])' BY <1>1, <2>3, <2>4 DEF StartOK
  <2> QED BY <1>0, <2>1, <2>5
<1>14. CASE Unlock(f)
  <2>1. flow[f].pc \in {"unlock", "fail"} /\ UNCHANGED <<marker, autoStarts, phase>>
    BY <1>14 DEF Unlock
  <2> QED BY <1>0, <1>3, <1>4, <1>14, <2>1, ForkedSteps
<1>15. CASE StartIfReady(f)
  <2>1. /\ flow[f].pc = "ready" /\ UNCHANGED <<marker, autoStarts, phase, roster, sockets>>
    BY <1>15 DEF StartIfReady
  <2>2. CASE flow[f].room \in marker /\ Goto(f, "unmark")
    <3>1. Becomes(f, At(f, "unmark")) BY <1>0, <2>2, Goes
    <3> QED BY <1>2, <1>4, <2>1, <3>1
  <2>3. CASE flow[f].room \in marker /\ AllHere(flow[f].room) /\ Goto(f, "start")
    <3>1. Becomes(f, At(f, "start")) BY <1>0, <2>3, Goes
    <3>2. PICK x : x = At(f, "start") OBVIOUS
    <3>3. x.pc = "start" /\ x.room = flow[f].room /\ Becomes(f, x) BY <1>2, <3>1, <3>2
    <3>4. StartOK(x)' BY <1>0, <2>1, <2>3, <3>3 DEF StartOK, AllHere
    <3>5. StartOK(flow[f])' BY <1>1, <3>3, <3>4 DEF StartOK, AllHere
    <3> QED BY <1>0, <2>1, <3>5
  <2>4. CASE Goto(f, "report")
    <3>1. Becomes(f, At(f, "report")) BY <1>0, <2>4, Goes
    <3> QED BY <1>2, <1>4, <2>1, <3>1
  <2> QED BY <1>15, <2>2, <2>3, <2>4 DEF StartIfReady
<1>16. CASE Start(f)
  <2>1. PICK r \in Rooms : r = flow[f].room BY <1>0, <1>16 DEF Start, StartOK
  <2>2. /\ flow[f].pc = "start" /\ UNCHANGED <<marker, roster, sockets>>
        /\ r \in marker /\ roster[r] \subseteq sockets[r] /\ autoStarts[r] = 0
    BY <1>0, <1>16, <2>1 DEF Start, StartOK, AllHere
  <2>3. CASE /\ phase' = [phase EXCEPT ![r] = "PLAYING"]
             /\ autoStarts' = [autoStarts EXCEPT ![r] = @ + 1]
             /\ Goto(f, "unmark")
    <3>1. Becomes(f, At(f, "unmark")) BY <1>0, <2>3, Goes
    <3>2. PICK x : x = At(f, "unmark") OBVIOUS
    <3>3. x.pc = "unmark" /\ x.room = r /\ Becomes(f, x) BY <1>2, <2>1, <3>1, <3>2
    <3>4. /\ autoStarts'[r] = 1 /\ \A q \in Rooms : q # r => autoStarts'[q] = autoStarts[q]
          /\ phase'[r] = "PLAYING" /\ \A q \in Rooms : q # r => phase'[q] = phase[q]
      BY <1>0, <2>2, <2>3 DEF TypeOK
    <3>5. StartOK(x)' BY <1>0, <2>2, <3>3, <3>4 DEF StartOK
    <3>6. StartOK(flow[f])' BY <1>1, <3>3, <3>5 DEF StartOK
    <3> QED BY <1>0, <2>2, <3>4, <3>6
  <2>4. CASE UNCHANGED <<phase, autoStarts>> /\ (Goto(f, "report") \/ Return(f))
    <3>1. Becomes(f, At(f, "report")) \/ Becomes(f, NoFrame) BY <1>0, <2>4, Goes, Returns
    <3> QED BY <1>2, <1>3, <1>4, <2>2, <2>4, <3>1
  <2> QED BY <1>16, <2>1, <2>3, <2>4 DEF Start
<1>17. CASE Unmark(f)
  <2>1. /\ flow[f].pc = "unmark" /\ UNCHANGED <<autoStarts, phase>> /\ Becomes(f, At(f, "report"))
        /\ marker' = marker \ {flow[f].room}
    BY <1>0, <1>17, PlainSteps DEF Unmark
  <2>2. PICK x : x = At(f, "report") OBVIOUS
  <2>3. x.pc = "report" /\ Becomes(f, x) BY <1>2, <2>1, <2>2
  <2>4. StartOK(x)' BY <1>0, <2>1, <2>3 DEF StartOK
  <2>5. StartOK(flow[f])' BY <1>1, <2>3, <2>4 DEF StartOK
  <2> QED BY <1>0, <2>1, <2>5
<1>18. CASE Report(f)
  <2>1. PICK u \in Users : u = flow[f].who BY <1>0, <1>18 DEF Report, Sound
  <2>2. /\ flow[f].pc = "report" /\ UNCHANGED <<marker, autoStarts>>
        /\ Becomes(f, NoFrame) /\ (Heal(u) \/ UNCHANGED phase)
    BY <1>0, <1>18, <2>1, PlainSteps DEF Report
  <2>3. \A r \in Rooms : phase'[r] = "NEW" => phase[r] = "NEW"
    BY <1>0, <2>2, PhasesGoOn DEF Heal
  <2> QED BY <1>3, <1>4, <2>2, <2>3
<1>19. CASE Forget(f)
  <2>1. flow[f].pc = "forget" /\ UNCHANGED <<marker, autoStarts, phase>> /\ Becomes(f, NoFrame)
    BY <1>0, <1>19, PlainSteps DEF Forget
  <2> QED BY <1>3, <1>4, <2>1
<1> QED BY <1>5, <1>6, <1>7, <1>8, <1>9, <1>10, <1>11, <1>12, <1>13, <1>14, <1>15, <1>16,
           <1>17, <1>18, <1>19 DEF Step


LEMMA StartEnvironment ==
    ASSUME StartInv, NEW f \in Flows, Flows = {f}, Environment
    PROVE  StartOK(flow[f])' /\ UNCHANGED autoStarts
<1>0. /\ TypeOK /\ StartOK(flow[f]) /\ phase \in [Rooms -> {"NEW", "LOBBY", "PLAYING", "FINISHED", "GONE"}]
  BY DEF StartInv, TypeInv, TypeOK
<1>1. UNCHANGED <<flow, autoStarts>> BY EnvironmentLeaves DEF counts
<1>2. flow[f].pc = "idle"
  BY DEF Environment, Connect, Disconnect, Leave, OpenRoom, RemoveAbsent, CloseEmpty, HostStarts,
         GameEnds, ReturnToLobby, RoomExpires, SessionExpires, Tick, SomeIdle, AtRest, IsIdle
<1>3. marker' \subseteq marker
  BY DEF Environment, Connect, Disconnect, Leave, OpenRoom, RemoveAbsent, CloseEmpty, HostStarts,
         GameEnds, ReturnToLobby, RoomExpires, SessionExpires, Tick
<1>4. \A q \in Rooms : phase'[q] = "NEW" => phase[q] = "NEW"
  <2>1. ASSUME NEW u \in Users, NEW r \in Rooms,
               Leave(u, r) \/ OpenRoom(u, r) \/ RemoveAbsent(u, r)
        PROVE  \A q \in Rooms : phase'[q] = "NEW" => phase[q] = "NEW"
    <3>1. CASE LeaveRoster(u, r) BY <1>0, <3>1, PhasesGoOn
    <3>2. CASE phase' = [phase EXCEPT ![r] = "LOBBY"] BY <1>0, <3>2
    <3> QED BY <2>1, <3>1, <3>2 DEF Leave, OpenRoom, RemoveAbsent
  <2>2. ASSUME NEW r \in Rooms,
               CloseEmpty(r) \/ HostStarts(r) \/ GameEnds(r) \/ ReturnToLobby(r) \/ RoomExpires(r)
        PROVE  \A q \in Rooms : phase'[q] = "NEW" => phase[q] = "NEW"
    <3>1. PICK p \in {"PLAYING", "FINISHED", "LOBBY", "GONE"} :
            phase' = [phase EXCEPT ![r] = p] \/ UNCHANGED phase
      BY <2>2 DEF CloseEmpty, HostStarts, GameEnds, ReturnToLobby, RoomExpires, Closed
    <3> QED BY <1>0, <3>1
  <2>3. ASSUME UNCHANGED phase
        PROVE  \A q \in Rooms : phase'[q] = "NEW" => phase[q] = "NEW"
    BY <2>3
  <2>4. ASSUME NEW u \in Users, NEW r \in Rooms, Connect(u, r) \/ Disconnect(u, r)
        PROVE  UNCHANGED phase
    BY <2>4 DEF Connect, Disconnect
  <2>5. ASSUME NEW u \in Users, SessionExpires(u) PROVE UNCHANGED phase
    BY <2>5 DEF SessionExpires, server
  <2>6. Tick => UNCHANGED phase BY DEF Tick, server
  <2> QED BY <2>1, <2>2, <2>3, <2>4, <2>5, <2>6 DEF Environment
<1>5. PICK x : x = flow[f] OBVIOUS
<1>6. StartOK(x)' BY <1>0, <1>1, <1>2, <1>3, <1>4, <1>5, StartCalm DEF HasRoom
<1> QED BY <1>1, <1>5, <1>6 DEF StartOK

LEMMA StartNext ==
    ASSUME NEW f \in Flows, Flows = {f}, StartInv, [Next]_vars
    PROVE  /\ StartInv'
           /\ \A r \in Rooms : autoStarts'[r] > autoStarts[r] => roster[r] \subseteq sockets[r]
<1>0. TypeInv /\ StartOK(flow[f]) /\ autoStarts \in [Rooms -> Nat]
  BY DEF StartInv, TypeInv, TypeOK
<1>1. TypeInv' BY <1>0, NextTypes
<1>2. ASSUME UNCHANGED autoStarts
      PROVE  \A r \in Rooms : autoStarts'[r] > autoStarts[r] => roster[r] \subseteq sockets[r]
  BY <1>0, <1>2
<1>3. CASE UNCHANGED vars
  <2>1. StartOK(flow[f])' BY <1>0, <1>3 DEF vars, server, counts, StartOK, AllHere
  <2> QED BY <1>1, <1>2, <1>3, <2>1 DEF StartInv, vars, counts
<1>4. CASE Step(f) BY <1>1, <1>4, StartSteps DEF StartInv
<1>5. ASSUME NEW u \in Users, Enter(f, u) \/ Poll(f, u) \/ Cancel(f, u)
      PROVE  StartOK(flow[f])' /\ UNCHANGED autoStarts
  <2>1. PICK call \in Calls : Request(f, u, call) BY <1>5 DEF Enter, Poll, Cancel, Calls
  <2>2. flow[f].pc = "idle" /\ UNCHANGED <<phase, marker, autoStarts>>
    BY <1>0, <2>1, Requests DEF server, counts
  <2>3. PICK x : Becomes(f, x) /\ x.pc = "look" BY <1>0, <2>1, Requests
  <2>4. StartOK(x)' BY <1>0, <2>2, <2>3, StartCalm DEF HasRoom
  <2>5. flow'[f] = x BY <2>3 DEF Becomes
  <2> QED BY <2>2, <2>4, <2>5 DEF StartOK
<1>6. CASE Environment BY <1>1, <1>2, <1>6, StartEnvironment DEF StartInv
<1>7. CASE \E u \in Users : Enter(f, u) \/ Poll(f, u) \/ Cancel(f, u)
  <2>1. StartOK(flow[f])' /\ UNCHANGED autoStarts BY <1>5, <1>7
  <2> QED BY <1>1, <1>2, <2>1 DEF StartInv
<1> QED BY <1>3, <1>4, <1>6, <1>7 DEF Next

\* One request at a time, whatever happens besides: a match starts by itself at most once,
\* and at that moment everybody in its roster has an open socket (startIfReady: sockets,
\* not the roster, decide; the marker is taken off before anyone can look again).
THEOREM StartsWholeAlways ==
    ASSUME NEW f \in Flows, Flows = {f}
    PROVE  Spec => StartsAreWhole
<1>1. Init => StartInv
  <2> SUFFICES ASSUME Init PROVE StartInv OBVIOUS
  <2>1. TypeInv BY InitTypes
  <2>2. flow[f].pc = "idle" BY NewFrameFacts DEF Init, NoFrame, Steps, Calls
  <2>3. \A r \in Rooms : autoStarts[r] = 0 BY DEF Init
  <2> QED BY <2>1, <2>2, <2>3 DEF StartInv, StartOK
<1>2. StartInv /\ [Next]_vars => StartInv' BY StartNext
<1>3. StartInv => AutoStartsOnce BY DEF StartInv, StartOK, AutoStartsOnce
<1>4. StartInv /\ [Next]_vars =>
        [\A r \in Rooms : autoStarts'[r] > autoStarts[r] => roster[r] \subseteq sockets[r]]_vars
  BY StartNext
<1> QED BY <1>1, <1>2, <1>3, <1>4, PTL DEF Spec, StartsAreWhole, NobodyDraggedIn
=============================================================================
