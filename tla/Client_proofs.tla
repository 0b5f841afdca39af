---------------------------- MODULE Client_proofs ----------------------------
(***************************************************************************)
(* What a page and the gateway owe each other, for any number of players,  *)
(* attempts, games, versions, inputs and faults.  The invariant looks      *)
(* ahead: what a page will show once everything under way to it has        *)
(* arrived, message by message.                                            *)
(***************************************************************************)
EXTENDS Client, TLAPS

-----------------------------------------------------------------------------
(* Screens that follow from each other.                                    *)

Later(s, t) == s.phase = "finished" /\ t.phase = "playing" => t.game.id > s.game.id

\* From `first` on, the messages lead to a screen of Last, over screens of Through.
Leads(first, msgs, Through, Last) ==
    \E s \in [1 .. Len(msgs) + 1 -> Through] :
        /\ s[1] = first /\ s[Len(msgs) + 1] \in Last
        /\ \A i \in 1 .. Len(msgs) : /\ s[i + 1] = Reducer(s[i], msgs[i])
                                     /\ Later(s[i], s[i + 1])

LEMMA LeadsNowhere ==
    ASSUME NEW first, NEW Through, NEW Last
    PROVE  Leads(first, <<>>, Through, Last) <=> first \in Through /\ first \in Last
<1>1. ASSUME first \in Through, first \in Last
      PROVE  Leads(first, <<>>, Through, Last)
  <2> DEFINE s == [i \in 1 .. 1 |-> first]
  <2>1. s \in [1 .. Len(<<>>) + 1 -> Through] /\ s[1] = first /\ s[Len(<<>>) + 1] \in Last
    BY <1>1
  <2> HIDE DEF s
  <2> QED BY <2>1 DEF Leads
<1>2. ASSUME Leads(first, <<>>, Through, Last)
      PROVE  first \in Through /\ first \in Last
  BY <1>2 DEF Leads
<1> QED BY <1>1, <1>2

LEMMA LeadsFrom ==
    ASSUME NEW first, NEW msgs \in Seq(Downs), NEW Through, NEW Last,
           Leads(first, msgs, Through, Last)
    PROVE  first \in Through
  BY DEF Leads

LEMMA LeadsWider ==
    ASSUME NEW first, NEW msgs, NEW Through, NEW Last, NEW Through2, NEW Last2,
           Leads(first, msgs, Through, Last), Through \subseteq Through2, Last \subseteq Last2
    PROVE  Leads(first, msgs, Through2, Last2)
<1>1. PICK s \in [1 .. Len(msgs) + 1 -> Through] :
        /\ s[1] = first /\ s[Len(msgs) + 1] \in Last
        /\ \A i \in 1 .. Len(msgs) : /\ s[i + 1] = Reducer(s[i], msgs[i])
                                     /\ Later(s[i], s[i + 1])
  BY DEF Leads
<1>2. s \in [1 .. Len(msgs) + 1 -> Through2] OBVIOUS
<1> QED BY <1>1, <1>2 DEF Leads

\* One message more.
LEMMA LeadsOn ==
    ASSUME NEW first, NEW msgs \in Seq(Downs), NEW m \in Downs,
           NEW Through, NEW Last, NEW Through2, NEW Last2,
           Leads(first, msgs, Through, Last), Through \subseteq Through2,
           \A x \in Last : x \in Through =>
               /\ Reducer(x, m) \in Through2 /\ Reducer(x, m) \in Last2
               /\ Later(x, Reducer(x, m))
    PROVE  Leads(first, Append(msgs, m), Through2, Last2)
<1> DEFINE n == Len(msgs)
           more == Append(msgs, m)
<1>1. PICK s \in [1 .. n + 1 -> Through] :
        /\ s[1] = first /\ s[n + 1] \in Last
        /\ \A i \in 1 .. n : /\ s[i + 1] = Reducer(s[i], msgs[i])
                             /\ Later(s[i], s[i + 1])
  BY DEF Leads
<1>2. n \in Nat /\ Len(more) = n + 1 /\ more[n + 1] = m /\ \A i \in 1 .. n : more[i] = msgs[i]
  OBVIOUS
<1> DEFINE next == Reducer(s[n + 1], m)
           t == [i \in 1 .. n + 2 |-> IF i = n + 2 THEN next ELSE s[i]]
<1>3. next \in Through2 /\ next \in Last2 /\ Later(s[n + 1], next)
  BY <1>1, <1>2
<1> HIDE DEF next, n, more
<1>4. t \in [1 .. Len(more) + 1 -> Through2]
  BY <1>2, <1>3
<1>5. t[1] = first /\ t[Len(more) + 1] \in Last2
  BY <1>1, <1>2, <1>3
<1>6. ASSUME NEW i \in 1 .. Len(more)
      PROVE  t[i + 1] = Reducer(t[i], more[i]) /\ Later(t[i], t[i + 1])
  <2>1. CASE i = n + 1
    BY <2>1, <1>2, <1>3 DEF next
  <2>2. CASE i # n + 1
    <3>1. i \in 1 .. n /\ i + 1 # n + 2 /\ i # n + 2 /\ i + 1 \in 1 .. n + 2 /\ i \in 1 .. n + 2
      BY <2>2, <1>2
    <3>2. t[i + 1] = s[i + 1] /\ t[i] = s[i] /\ more[i] = msgs[i]
      BY <3>1, <1>2
    <3> QED BY <3>1, <3>2, <1>1
  <2> QED BY <2>1, <2>2
<1> HIDE DEF t
<1>7. Leads(first, more, Through2, Last2)
  BY <1>4, <1>5, <1>6 DEF Leads
<1> QED BY <1>7 DEF more

\* One message less.
LEMMA LeadsAway ==
    ASSUME NEW first, NEW msgs \in Seq(Downs), msgs # <<>>, NEW Through, NEW Last,
           Leads(first, msgs, Through, Last)
    PROVE  /\ Leads(Reducer(first, Head(msgs)), Tail(msgs), Through, Last)
           /\ Later(first, Reducer(first, Head(msgs)))
<1> DEFINE n == Len(msgs)
           rest == Tail(msgs)
<1>1. PICK s \in [1 .. n + 1 -> Through] :
        /\ s[1] = first /\ s[n + 1] \in Last
        /\ \A i \in 1 .. n : /\ s[i + 1] = Reducer(s[i], msgs[i])
                             /\ Later(s[i], s[i + 1])
  BY DEF Leads
<1>2. n \in Nat \ {0} /\ Len(rest) = n - 1 /\ \A i \in 1 .. n - 1 : rest[i] = msgs[i + 1]
  OBVIOUS
<1>3. Head(msgs) = msgs[1] OBVIOUS
<1> DEFINE t == [i \in 1 .. n |-> s[i + 1]]
<1> HIDE DEF n, rest
<1>4. s[2] = Reducer(first, Head(msgs)) /\ Later(first, s[2])
  BY <1>1, <1>2, <1>3
<1>5. t \in [1 .. Len(rest) + 1 -> Through]
  BY <1>2
<1>6. t[1] = Reducer(first, Head(msgs)) /\ t[Len(rest) + 1] \in Last
  BY <1>1, <1>2, <1>4
<1>7. \A i \in 1 .. Len(rest) : t[i + 1] = Reducer(t[i], rest[i]) /\ Later(t[i], t[i + 1])
  BY <1>1, <1>2
<1> HIDE DEF t
<1>8. Leads(Reducer(first, Head(msgs)), rest, Through, Last)
  BY <1>5, <1>6, <1>7 DEF Leads
<1> QED BY <1>4, <1>8 DEF rest

-----------------------------------------------------------------------------
(* The invariant.                                                          *)

Shows == [phase : {"waiting", "playing", "finished"}, game : GamesOf]
Told == [kind : {"state", "sync", "over", "gone", "closed"},
         phase : {"waiting", "playing", "finished"}, game : GamesOf]

\* A screen a page may have while the room is in phase ph with game g: of a game that
\* has been, and a result only of one that is over.
Behind(ph, g) ==
    {s \in Shows : /\ s.game.id <= g.id
                   /\ s.phase = "finished" /\ ph = "playing" => s.game.id < g.id}

\* One that shows the room.
Current(ph, g) ==
    {s \in Behind(ph, g) :
        /\ s.phase = ph
        /\ ph # "finished" => s.game = IF ph = "playing" THEN g ELSE NoGame}

Ends(st, ph, g) == IF st = "live" THEN Current(ph, g) ELSE Behind(ph, g)

\* What is under way to a page shows it the room, if the seat is its socket's.
Follows(p) == Leads(shown[p], down[p], Behind(phase, game), Ends(seat[p], phase, game))

Has(msgs, kind) == \E i \in 1 .. Len(msgs) : msgs[i].kind = kind

Asks(msgs) == \E i \in 1 .. Len(msgs) : msgs[i] = Join

\* A connection: the join is the first that is sent, and what came back says whether
\* the seat is the socket's.
ConnectionOK(p) ==
    /\ down[p] \in Seq(Told)
    /\ link[p] \notin {"joining", "connected"} => down[p] = <<>> /\ seat[p] # "live"
    /\ Asks(up[p]) => /\ link[p] = "joining" /\ down[p] = <<>> /\ seat[p] # "live"
                      /\ \A i \in 1 .. Len(up[p]) : up[p][i] = Join => i = 1
    /\ Has(down[p], "closed") => seat[p] # "live"
    /\ Has(down[p], "gone") => phase = "gone"
    /\ link[p] = "connected" \/ Has(down[p], "sync") =>
          seat[p] = "live" \/ Has(down[p], "closed")
    /\ link[p] # "removed"

RoomOK ==
    /\ phase \in {"playing", "finished"} => game.id >= 1
    /\ phase = "playing" => game.at <= MaxMoves
    /\ phase = "gone" => StillEmpty
    /\ \A p \in Players : answer[p] => phase # "waiting"

ClientOK ==
    /\ TypeOK
    /\ RoomOK
    /\ \A p \in Players : ConnectionOK(p) /\ Follows(p)

-----------------------------------------------------------------------------
(* Types.                                                                  *)

LEMMA ToldIsDown == Told \subseteq Downs /\ Shows \subseteq Screens
  BY DEF Told, Downs, Shows, Screens, Phases

LEMMA GamesFacts ==
    /\ NoGame \in GamesOf
    /\ \A g \in GamesOf : g.id \in 0 .. MaxGames /\ g.at \in 0 .. MaxMoves + 1
    /\ \A g \in GamesOf : g.at <= MaxMoves =>
          /\ [g EXCEPT !.at = @ + 1] \in GamesOf
          /\ [g EXCEPT !.at = @ + 1].id = g.id
          /\ [g EXCEPT !.at = @ + 1].at = g.at + 1
    /\ \A g \in GamesOf : [g EXCEPT !.at = 0] \in GamesOf /\ [g EXCEPT !.at = 0].id = g.id
    /\ \A g \in GamesOf : g.id < MaxGames => [id |-> (g.id + 1), at |-> 0] \in GamesOf
  BY ClientAssumption DEF NoGame, GamesOf

LEMMA MessageFacts ==
    ASSUME NEW g \in GamesOf, NEW ph \in {"waiting", "playing", "finished"}
    PROVE  /\ State(g) \in Told /\ State(g).kind = "state" /\ State(g).game = g
           /\ Sync(ph, g) \in Told /\ Sync(ph, g).kind = "sync"
           /\ Sync(ph, g).phase = ph /\ Sync(ph, g).game = g
           /\ \A k \in {"over", "gone", "closed"} : Plain(k) \in Told /\ Plain(k).kind = k
           /\ Plain("removed") \in Downs
  BY GamesFacts DEF State, Sync, Plain, Message, Told, Downs, Phases

LEMMA ReducerTypes ==
    ASSUME NEW s \in Screens, NEW m \in Downs
    PROVE  Reducer(s, m) \in Screens
<1>1. s.phase \in Phases /\ s.game \in GamesOf /\ m.phase \in Phases /\ m.game \in GamesOf
  BY DEF Screens, Downs
<1>2. \A ph \in Phases, g \in GamesOf : [phase |-> ph, game |-> g] \in Screens
  BY DEF Screens
<1>3. \A t \in Screens : t.phase \in Phases /\ t.game \in GamesOf
  BY DEF Screens
<1>4. \A t \in Screens, g \in GamesOf : [t EXCEPT !.game = g] \in Screens
  BY DEF Screens
<1>5. [s EXCEPT !.phase = "finished"] \in Screens
  BY DEF Screens, Phases
<1>6. \A t \in Screens : KeepGameState(t, s) \in Screens
  BY <1>1, <1>4 DEF KeepGameState
<1> QED BY <1>1, <1>2, <1>4, <1>5, <1>6 DEF Reducer

LEMMA TellTypes ==
    ASSUME down \in [Players -> Seq(Downs)], NEW msgs \in Seq(Downs), Tell(msgs)
    PROVE  down' \in [Players -> Seq(Downs)]
<1>1. \A p \in Players : down[p] \o msgs \in Seq(Downs) OBVIOUS
<1> QED BY <1>1 DEF Tell

LEMMA ScheduledTypes ==
    ASSUME TypeOK, NEW p \in Players, Scheduled(p)
    PROVE  /\ link' \in [Players -> {"parked", "retry", "dialling", "joining", "connected",
                                     "removed", "gone"}]
           /\ tries' \in [Players -> 0 .. MaxAttempts]
           /\ seq' \in [Players -> 0 .. MaxInputs]
  BY ClientAssumption DEF TypeOK, Scheduled, Attempt, Exhausted

\* What an input does to the game, whoever sent it.
LEMMA AdvanceTypes ==
    ASSUME TypeOK, phase = "playing", Advance
    PROVE  /\ game' \in GamesOf /\ down' \in [Players -> Seq(Downs)] /\ game'.at <= MaxMoves
           /\ game'.id = game.id
<1> DEFINE g == [game EXCEPT !.at = @ + 1]
<1>1. game \in GamesOf /\ game.at < MaxMoves /\ game' = g
  BY DEF TypeOK, Advance
<1>2. game.at <= MaxMoves BY <1>1, GamesFacts, ClientAssumption
<1>3. g \in GamesOf /\ g.id = game.id /\ g.at = game.at + 1
  BY <1>1, <1>2, GamesFacts
<1>4. g.at <= MaxMoves BY <1>1, <1>3, GamesFacts, ClientAssumption
<1> HIDE DEF g
<1>5. State(g) \in Downs /\ Sync(phase, g) \in Downs
  BY <1>3, MessageFacts, ToldIsDown
<1>6. <<State(g)>> \in Seq(Downs) /\ <<State(g), Sync(phase, g)>> \in Seq(Downs)
  <2>1. \A a, b \in Downs : <<a>> \in Seq(Downs) /\ <<a, b>> \in Seq(Downs)
    OBVIOUS
  <2> QED BY <1>5, <2>1
<1>7. \E msgs \in {<<State(g)>>, <<State(g), Sync(phase, g)>>} : Tell(msgs)
  BY DEF Advance, g
<1>8. down' \in [Players -> Seq(Downs)]
  BY <1>6, <1>7, TellTypes DEF TypeOK
<1> QED BY <1>1, <1>3, <1>4, <1>8

LEMMA HeardTypes ==
    ASSUME TypeOK, RoomOK, NEW p \in Players, NEW n \in 0 .. MaxInputs, Heard(p, n), phase' = phase
    PROVE  /\ game' \in GamesOf /\ down' \in [Players -> Seq(Downs)]
           /\ game'.id = game.id
           /\ phase = "playing" => game'.at <= MaxMoves
           /\ heard' \in [Players -> 0 .. MaxInputs] \/ heard' = heard
  BY AdvanceTypes DEF Heard, TypeOK, RoomOK

LEMMA HeadAndTail ==
    ASSUME NEW S, NEW s \in Seq(S), s # <<>>
    PROVE  Head(s) \in S /\ Tail(s) \in Seq(S)
  OBVIOUS

LEMMA GatewayTypes ==
    ASSUME TypeOK, RoomOK, Move \/ Finish \/ ReturnToLobby \/ CloseRoom \/ Restart
    PROVE  TypeOK'
<1>1. CASE Move
  BY <1>1, AdvanceTypes DEF Move, TypeOK, page
<1>2. CASE Finish
  <2> DEFINE g == [game EXCEPT !.at = @ + 1]
  <2>1. game \in GamesOf /\ game.at <= MaxMoves /\ game' = g
    BY <1>2 DEF TypeOK, RoomOK, Finish
  <2>2. g \in GamesOf
    BY <2>1, GamesFacts
  <2> DEFINE msgs == <<Plain("over"), Sync("finished", NoGame), State(g), Sync("finished", g)>>
  <2>3. \A a, b, c, d \in Downs : <<a, b, c, d>> \in Seq(Downs)
    OBVIOUS
  <2>4. Plain("over") \in Downs /\ Sync("finished", NoGame) \in Downs /\ State(g) \in Downs
        /\ Sync("finished", g) \in Downs
    BY <2>2, GamesFacts, MessageFacts, ToldIsDown
  <2>5. msgs \in Seq(Downs)
    BY <2>3, <2>4
  <2>6. Tell(msgs)
    BY <1>2 DEF Finish
  <2>7. down' \in [Players -> Seq(Downs)]
    BY <2>5, <2>6, TellTypes DEF TypeOK
  <2> QED BY <1>2, <2>1, <2>2, <2>7 DEF Finish, TypeOK, page, Phases
<1>3. CASE ReturnToLobby
  <2>1. Sync("waiting", NoGame) \in Downs
    BY GamesFacts, MessageFacts, ToldIsDown
  <2>2. <<Sync("waiting", NoGame)>> \in Seq(Downs)
    BY <2>1
  <2>3. down' \in [Players -> Seq(Downs)]
    BY <1>3, <2>2, TellTypes DEF TypeOK, ReturnToLobby
  <2>4. game' \in GamesOf
    BY <1>3, GamesFacts DEF ReturnToLobby, TypeOK
  <2> QED BY <1>3, <2>3, <2>4 DEF ReturnToLobby, TypeOK, page, Phases
<1>4. CASE CloseRoom
  BY <1>4 DEF CloseRoom, TypeOK, page, wires, Phases
<1>5. CASE Restart
  <2>1. Plain("closed") \in Downs
    BY GamesFacts, MessageFacts, ToldIsDown
  <2>2. down' \in [Players -> Seq(Downs)]
    BY <1>5, <2>1 DEF Restart, TypeOK
  <2>3. /\ <<>> \in Seq(0 .. MaxInputs) /\ up' \in [Players -> Seq(0 .. MaxInputs)]
        /\ late' \in [Players -> Seq(0 .. MaxInputs)]
    BY <1>5 DEF Restart
  <2> QED BY <1>5, <2>2, <2>3 DEF Restart, TypeOK, page
<1> QED BY <1>1, <1>2, <1>3, <1>4, <1>5

LEMMA ReplyTypes ==
    ASSUME TypeOK, RoomOK, NEW p \in Players
    PROVE  /\ Reply(p) \in Told
           /\ Reply(p).kind = IF phase = "gone" THEN "gone" ELSE "sync"
           /\ phase # "gone" => \E h \in GamesOf :
                 /\ Reply(p) = Sync(phase, h)
                 /\ h = Stored \/ (phase = "finished" /\ h = NoGame)
<1>1. phase \in Phases /\ game \in GamesOf /\ Stored \in GamesOf
  BY GamesFacts DEF TypeOK, Stored
<1>2. phase = "playing" => Reconnects(p)
  BY DEF Reconnects, Reseating
<1>3. CASE phase = "gone"
  <2>1. Reply(p) = Plain("gone")
    BY <1>3 DEF Reply, RoomOK, StillEmpty, Reconnects, Reseating
  <2>2. Plain("gone") \in Told /\ Plain("gone").kind = "gone"
    BY MessageFacts, GamesFacts
  <2> QED BY <1>3, <2>1, <2>2
<1>4. CASE phase # "gone"
  <2>1. Reply(p) = IF Reconnects(p) THEN Sync(phase, Stored) ELSE Sync(phase, NoGame)
    BY <1>2, <1>4 DEF Reply
  <2>2. phase \in {"waiting", "playing", "finished"}
    BY <1>1, <1>4 DEF Phases
  <2>3. ~Reconnects(p) /\ phase # "finished" => Stored = NoGame
    BY <1>2, <2>2 DEF Stored
  <2> QED BY <1>1, <1>4, <2>1, <2>2, <2>3, MessageFacts, GamesFacts
<1> QED BY <1>3, <1>4

LEMMA PlayerTypes ==
    ASSUME TypeOK, RoomOK, NEW p \in Players,
           Start(p) \/ Read(p) \/ ReadLate(p) \/ Closed(p) \/ Idle(p)
    PROVE  TypeOK'
<1>0. /\ Reply(p) \in Downs /\ Plain("closed") \in Downs
  BY ReplyTypes, MessageFacts, GamesFacts, ToldIsDown
<1>1. CASE Start(p)
  <2> DEFINE g == [id |-> (game.id + 1), at |-> 0]
  <2>1. g \in GamesOf /\ game' = g
    BY <1>1, GamesFacts DEF Start, TypeOK
  <2> HIDE DEF g
  <2>2. State(g) \in Downs /\ Sync("playing", g) \in Downs
    BY <2>1, MessageFacts, ToldIsDown
  <2>3. <<State(g), Sync("playing", g)>> \in Seq(Downs)
    BY <2>2
  <2>4. Tell(<<State(g), Sync("playing", g)>>)
    BY <1>1 DEF Start, g
  <2>5. down' \in [Players -> Seq(Downs)]
    BY <2>3, <2>4, TellTypes DEF TypeOK
  <2>6. phase' = "playing" /\ heard' = [q \in Players |-> 0] /\ answer' = [answer EXCEPT ![p] = TRUE]
        /\ UNCHANGED <<seat, closing, link, tries, shown, seq, up, lost, late, faults>>
    BY <1>1 DEF Start
  <2>7. heard' \in [Players -> 0 .. MaxInputs] /\ answer' \in [Players -> BOOLEAN]
    BY <2>6, ClientAssumption DEF TypeOK
  <2> QED BY <2>1, <2>5, <2>6, <2>7 DEF TypeOK, Phases
<1>2. CASE Read(p)
  <2>1. /\ up[p] \in Seq(0 .. MaxInputs) /\ up[p] # <<>> /\ up' = [up EXCEPT ![p] = Tail(@)]
        /\ UNCHANGED <<page, lost, late, faults>>
    BY <1>2 DEF Read, TypeOK
  <2>2. Head(up[p]) \in 0 .. MaxInputs /\ Tail(up[p]) \in Seq(0 .. MaxInputs)
    BY <2>1, HeadAndTail
  <2>3. up' \in [Players -> Seq(0 .. MaxInputs)]
    BY <2>1, <2>2 DEF TypeOK
  <2>4. CASE Head(up[p]) = Join
    <3>1. HandleJoin(p) BY <1>2, <2>4 DEF Read
    <3>2. Append(down[p], Reply(p)) \in Seq(Downs) BY <1>0 DEF TypeOK
    <3>3. down' \in [Players -> Seq(Downs)]
      BY <3>1, <3>2 DEF HandleJoin, TypeOK
    <3>4. closing' \in BOOLEAN BY <3>1 DEF HandleJoin
    <3> QED BY <2>1, <2>3, <3>1, <3>3, <3>4 DEF HandleJoin, TypeOK, page
  <2>5. CASE Head(up[p]) # Join
    <3>1. Heard(p, Head(up[p])) /\ UNCHANGED <<phase, seat, closing>>
      BY <1>2, <2>5 DEF Read
    <3>2. /\ game' \in GamesOf /\ down' \in [Players -> Seq(Downs)]
          /\ heard' \in [Players -> 0 .. MaxInputs] \/ heard' = heard
      BY <2>2, <3>1, HeardTypes
    <3> QED BY <2>1, <2>3, <3>1, <3>2 DEF TypeOK, page
  <2> QED BY <2>4, <2>5
<1>3. CASE ReadLate(p)
  <2>1. /\ late[p] \in Seq(0 .. MaxInputs) /\ late[p] # <<>> /\ late' = [late EXCEPT ![p] = Tail(@)]
        /\ UNCHANGED <<page, up, lost, faults>>
    BY <1>3 DEF ReadLate, TypeOK
  <2>2. Head(late[p]) \in 0 .. MaxInputs /\ Tail(late[p]) \in Seq(0 .. MaxInputs)
    BY <2>1, HeadAndTail
  <2>3. late' \in [Players -> Seq(0 .. MaxInputs)]
    BY <2>1, <2>2 DEF TypeOK
  <2>4. CASE Head(late[p]) = Join
    <3>1. /\ seat' = IF Admitted(p) THEN [seat EXCEPT ![p] = "dead"] ELSE seat
          /\ closing' = (closing /\ ~Cancels(p))
          /\ down' = IF Admitted(p) /\ seat[p] = "live"
                     THEN [down EXCEPT ![p] = Append(@, Plain("closed"))] ELSE down
          /\ UNCHANGED <<phase, game, heard>>
      BY <1>3, <2>4 DEF ReadLate
    <3>2. Append(down[p], Plain("closed")) \in Seq(Downs) BY <1>0 DEF TypeOK
    <3>3. down' \in [Players -> Seq(Downs)]
      BY <3>1, <3>2 DEF TypeOK
    <3>4. seat' \in [Players -> {"none", "offline", "dead", "live"}] /\ closing' \in BOOLEAN
      BY <3>1 DEF TypeOK
    <3> QED BY <2>1, <2>3, <3>1, <3>3, <3>4 DEF TypeOK, page
  <2>5. CASE Head(late[p]) # Join
    <3>1. /\ Heard(p, Head(late[p])) \/ UNCHANGED <<game, heard, down>>
          /\ UNCHANGED <<phase, seat, closing>>
      BY <1>3, <2>5 DEF ReadLate
    <3>2. CASE Heard(p, Head(late[p]))
      <4>1. /\ game' \in GamesOf /\ down' \in [Players -> Seq(Downs)]
            /\ heard' \in [Players -> 0 .. MaxInputs] \/ heard' = heard
        BY <2>2, <3>1, <3>2, HeardTypes
      <4> QED BY <2>1, <2>3, <3>1, <4>1 DEF TypeOK, page
    <3>3. CASE UNCHANGED <<game, heard, down>>
      BY <2>1, <2>3, <3>1, <3>3 DEF TypeOK, page
    <3> QED BY <3>1, <3>2, <3>3
  <2> QED BY <2>4, <2>5
<1>4. CASE Closed(p)
  <2>1. lost' = [lost EXCEPT ![p] = FALSE] /\ seat' = SeatAfterClose(p)
        /\ closing' = (closing \/ (seat' # seat /\ \A q \in Players : seat'[q] = "none"))
        /\ UNCHANGED <<phase, game, heard, page, down, up, late, faults>>
    BY <1>4 DEF Closed
  <2>2. seat' \in [Players -> {"none", "offline", "dead", "live"}]
    BY <2>1 DEF SeatAfterClose, TypeOK
  <2>3. closing' \in BOOLEAN BY <2>1 DEF TypeOK
  <2> QED BY <2>1, <2>2, <2>3 DEF TypeOK, page
<1>5. CASE Idle(p)
  <2>1. Append(down[p], Plain("closed")) \in Seq(Downs) BY <1>0 DEF TypeOK
  <2>2. down' \in [Players -> Seq(Downs)]
    BY <1>5, <2>1 DEF Idle, TypeOK
  <2>3. <<>> \in Seq(0 .. MaxInputs) OBVIOUS
  <2>4. up' \in [Players -> Seq(0 .. MaxInputs)] /\ late' \in [Players -> Seq(0 .. MaxInputs)]
    BY <1>5, <2>3 DEF Idle, TypeOK
  <2> QED BY <1>5, <2>2, <2>4 DEF Idle, TypeOK, page
<1> QED BY <1>1, <1>2, <1>3, <1>4, <1>5

LEMMA PageTypes ==
    ASSUME TypeOK, NEW p \in Players,
           \/ Receive(p) \/ Answer(p) \/ Aborted(p) \/ Act(p)
           \/ Drop(p) \/ Reload(p) \/ Dial(p) \/ Refused(p) \/ Resume(p)
    PROVE  TypeOK'
<1>0. <<>> \in Seq(Downs) /\ <<>> \in Seq(0 .. MaxInputs) /\ 0 \in 0 .. MaxInputs /\ 0 \in 0 .. MaxAttempts
  BY ClientAssumption
<1>1. CASE Receive(p)
  <2> DEFINE msg == Head(down[p])
  <2>1. /\ down[p] \in Seq(Downs) /\ down[p] # <<>>
        /\ shown' = [shown EXCEPT ![p] = Reducer(@, msg)]
        /\ down' = [down EXCEPT ![p] = IF msg.kind \in {"closed", "removed", "gone"} THEN <<>> ELSE Tail(@)]
        /\ up' = [up EXCEPT ![p] = IF msg.kind = "closed" THEN <<>> ELSE @]
        /\ UNCHANGED <<server, answer, lost, late, faults>>
    BY <1>1 DEF Receive, TypeOK
  <2>2. msg \in Downs /\ Tail(down[p]) \in Seq(Downs)
    BY <2>1, HeadAndTail
  <2> HIDE DEF msg
  <2>3. Reducer(shown[p], msg) \in Screens
    BY <2>2, ReducerTypes DEF TypeOK
  <2>4. /\ shown' \in [Players -> Screens] /\ down' \in [Players -> Seq(Downs)]
        /\ up' \in [Players -> Seq(0 .. MaxInputs)]
    BY <1>0, <2>1, <2>2, <2>3 DEF TypeOK
  <2>5. CASE msg.kind = "closed"
    <3>1. Scheduled(p) BY <1>1, <2>5 DEF Receive, msg
    <3> QED BY <2>1, <2>4, <3>1, ScheduledTypes DEF TypeOK, server
  <2>6. CASE msg.kind # "closed"
    <3>1. /\ link' = [link EXCEPT ![p] =
                        CASE msg.kind = "sync" -> "connected"
                          [] msg.kind \in {"removed", "gone"} -> msg.kind
                          [] OTHER -> @]
          /\ tries' = [tries EXCEPT ![p] = IF msg.kind = "sync" THEN 0 ELSE @]
          /\ seq' = [seq EXCEPT ![p] = Counted(p, shown'[p])]
      BY <1>1, <2>6 DEF Receive, msg
    <3>2. link' \in [Players -> {"parked", "retry", "dialling", "joining", "connected",
                                 "removed", "gone"}]
      <4>1. (CASE msg.kind = "sync" -> "connected"
               [] msg.kind \in {"removed", "gone"} -> msg.kind
               [] OTHER -> link[p]) \in {"parked", "retry", "dialling", "joining", "connected",
                                         "removed", "gone"}
        BY DEF TypeOK
      <4> QED BY <3>1, <4>1 DEF TypeOK
    <3>3. tries' \in [Players -> 0 .. MaxAttempts]
      BY <1>0, <3>1 DEF TypeOK
    <3>4. seq' \in [Players -> 0 .. MaxInputs]
      BY <1>0, <3>1 DEF TypeOK, Counted
    <3> QED BY <2>1, <2>4, <3>2, <3>3, <3>4 DEF TypeOK, server
  <2> QED BY <2>5, <2>6
<1>2. CASE Answer(p)
  <2>1. /\ answer' = [answer EXCEPT ![p] = FALSE]
        /\ shown' = [shown EXCEPT ![p].phase = LaterPhase(shown[p])]
        /\ link' = [link EXCEPT ![p] = IF @ = "parked" THEN "dialling" ELSE @]
        /\ UNCHANGED <<server, tries, seq, wires, faults>>
    BY <1>2 DEF Answer
  <2>2. LaterPhase(shown[p]) \in Phases
    BY DEF LaterPhase, TypeOK, Screens, Phases
  <2>3. [shown[p] EXCEPT !.phase = LaterPhase(shown[p])] \in Screens
    BY <2>2 DEF TypeOK, Screens
  <2>4. shown' \in [Players -> Screens] /\ answer' \in [Players -> BOOLEAN]
    BY <2>1, <2>3 DEF TypeOK
  <2> QED BY <2>1, <2>4 DEF TypeOK, server, wires
<1>3. CASE Aborted(p)
  BY <1>3 DEF Aborted, TypeOK, server, wires
<1>4. CASE Act(p)
  <2>1. seq[p] + 1 \in 0 .. MaxInputs
    BY <1>4, ClientAssumption DEF Act, TypeOK
  <2>2. Append(up[p], seq[p] + 1) \in Seq(0 .. MaxInputs)
    BY <2>1 DEF TypeOK
  <2>3. seq' \in [Players -> 0 .. MaxInputs] /\ up' \in [Players -> Seq(0 .. MaxInputs)]
    BY <1>4, <2>1, <2>2 DEF Act, TypeOK
  <2> QED BY <1>4, <2>3 DEF Act, TypeOK, server
<1>5. ASSUME Loses(p)
      PROVE  /\ lost' \in [Players -> BOOLEAN] /\ late' \in [Players -> Seq(0 .. MaxInputs)]
             /\ seat' \in [Players -> {"none", "offline", "dead", "live"}]
             /\ up' \in [Players -> Seq(0 .. MaxInputs)] /\ down' \in [Players -> Seq(Downs)]
  <2>1. Attached(p) \in BOOLEAN BY DEF Attached
  <2> QED BY <1>0, <1>5, <2>1 DEF Loses, TypeOK
<1>6. CASE Drop(p)
  BY <1>5, <1>6, ScheduledTypes DEF Drop, TypeOK
<1>7. CASE Reload(p)
  <2>1. /\ link' = [link EXCEPT ![p] = "parked"] /\ tries' = [tries EXCEPT ![p] = 0]
        /\ seq' = [seq EXCEPT ![p] = 0] /\ answer' = [answer EXCEPT ![p] = FALSE]
        /\ UNCHANGED <<phase, game, heard, closing, shown>> /\ Loses(p)
    BY <1>7 DEF Reload
  <2> QED BY <1>0, <1>5, <2>1 DEF TypeOK
<1>8. CASE Dial(p)
  <2>1. <<Join>> \in Seq(0 .. MaxInputs) BY ClientAssumption DEF Join
  <2>2. up' \in [Players -> Seq(0 .. MaxInputs)] BY <1>8, <2>1 DEF Dial, TypeOK
  <2>3. link' \in [Players -> {"parked", "retry", "dialling", "joining", "connected",
                               "removed", "gone"}]
    BY <1>8 DEF Dial, TypeOK
  <2> QED BY <1>8, <2>2, <2>3 DEF Dial, TypeOK, server
<1>9. CASE Refused(p)
  BY <1>9, ScheduledTypes DEF Refused, TypeOK, server, wires
<1>10. CASE Resume(p)
  BY <1>10 DEF Resume, TypeOK, server, wires
<1> QED BY <1>1, <1>2, <1>3, <1>4, <1>6, <1>7, <1>8, <1>9, <1>10

-----------------------------------------------------------------------------
(* What messages do to screens.                                            *)

LEMMA ReducerFacts ==
    ASSUME NEW s \in Shows, NEW m \in Told
    PROVE  /\ Reducer(s, m) \in Shows
           /\ m.kind = "state" => Reducer(s, m).phase = s.phase /\ Reducer(s, m).game = m.game
           /\ m.kind = "over" => Reducer(s, m).phase = "finished" /\ Reducer(s, m).game = s.game
           /\ m.kind \in {"closed", "gone"} => Reducer(s, m) = s
           /\ m.kind = "sync" =>
                 /\ Reducer(s, m).phase = m.phase
                 /\ Reducer(s, m).game \in {m.game, s.game}
                 /\ m.phase = "waiting" => Reducer(s, m).game = m.game
                 /\ m.phase = "playing" /\ m.game # NoGame => Reducer(s, m).game = m.game
<1>1. /\ s.phase \in {"waiting", "playing", "finished"} /\ s.game \in GamesOf
      /\ m.phase \in {"waiting", "playing", "finished"} /\ m.game \in GamesOf
      /\ m.kind \in {"state", "sync", "over", "gone", "closed"}
  BY DEF Shows, Told
<1>2. CASE m.kind = "state"
  <2>1. Reducer(s, m) = [s EXCEPT !.game = m.game] BY <1>2 DEF Reducer
  <2> QED BY <1>1, <1>2, <2>1 DEF Shows
<1>3. CASE m.kind = "over"
  <2>1. Reducer(s, m) = [s EXCEPT !.phase = "finished"] BY <1>3 DEF Reducer
  <2> QED BY <1>1, <1>3, <2>1 DEF Shows
<1>4. CASE m.kind \in {"closed", "gone"}
  BY <1>4 DEF Reducer
<1>5. CASE m.kind = "sync"
  <2> DEFINE t == [phase |-> m.phase, game |-> m.game]
  <2>1. Reducer(s, m) = KeepGameState(t, s) BY <1>5 DEF Reducer
  <2>2. t \in Shows /\ t.phase = m.phase /\ t.game = m.game BY <1>1 DEF Shows
  <2> HIDE DEF t
  <2>3. /\ [t EXCEPT !.game = s.game] \in Shows /\ [t EXCEPT !.game = s.game].phase = t.phase
        /\ [t EXCEPT !.game = s.game].game = s.game
    BY <1>1, <2>2 DEF Shows
  <2>4. CASE t.phase # "waiting" /\ s.game # NoGame
             /\ (t.game = NoGame \/ (t.phase = "finished" /\ s.phase = "finished"))
    <3>1. Reducer(s, m) = [t EXCEPT !.game = s.game] BY <2>1, <2>4 DEF KeepGameState
    <3> QED BY <1>5, <2>2, <2>3, <2>4, <3>1
  <2>5. CASE ~(t.phase # "waiting" /\ s.game # NoGame
               /\ (t.game = NoGame \/ (t.phase = "finished" /\ s.phase = "finished")))
    <3>1. Reducer(s, m) = t BY <2>1, <2>5 DEF KeepGameState
    <3> QED BY <1>5, <2>2, <2>5, <3>1
  <2> QED BY <2>4, <2>5
<1> QED BY <1>1, <1>2, <1>3, <1>4, <1>5

\* The screens a page may have, when the room goes on.
LEMMA BehindGrows ==
    ASSUME NEW ph, NEW ph2, NEW g \in GamesOf, NEW g2 \in GamesOf,
           \/ g.id < g2.id
           \/ g.id = g2.id /\ (ph2 = "playing" => ph = "playing")
    PROVE  Behind(ph, g) \subseteq Behind(ph2, g2)
<1> SUFFICES ASSUME NEW s \in Behind(ph, g)
             PROVE  s \in Behind(ph2, g2)
  OBVIOUS
<1>1. s \in Shows /\ s.game \in GamesOf BY DEF Behind, Shows
<1>2. s.game.id \in Nat /\ g.id \in Nat /\ g2.id \in Nat BY <1>1, GamesFacts
<1> QED BY <1>1, <1>2 DEF Behind

LEMMA ShowsAreTyped ==
    ASSUME NEW ph, NEW g, NEW s \in Behind(ph, g)
    PROVE  s \in Shows /\ s.phase \in {"waiting", "playing", "finished"} /\ s.game \in GamesOf
  BY DEF Behind, Shows

\* A new state, in any phase.
LEMMA StateFollows ==
    ASSUME NEW ph \in {"waiting", "playing", "finished"}, NEW g2 \in GamesOf, NEW x \in Shows,
           x.phase = ph
    PROVE  /\ Reducer(x, State(g2)) \in Behind(ph, g2) /\ Later(x, Reducer(x, State(g2)))
           /\ Reducer(x, State(g2)).phase = ph /\ Reducer(x, State(g2)).game = g2
<1>1. State(g2) \in Told /\ State(g2).kind = "state" /\ State(g2).game = g2
  BY MessageFacts
<1>2. /\ Reducer(x, State(g2)) \in Shows /\ Reducer(x, State(g2)).phase = ph
      /\ Reducer(x, State(g2)).game = g2
  BY <1>1, ReducerFacts
<1>3. g2.id \in Nat BY GamesFacts
<1> QED BY <1>2, <1>3 DEF Behind, Later

\* The snapshot of a game that is on, on any screen.
LEMMA SyncFollows ==
    ASSUME NEW g \in GamesOf, g.id >= 1, NEW x \in Behind("playing", g)
    PROVE  /\ Reducer(x, Sync("playing", g)) \in Current("playing", g)
           /\ Later(x, Reducer(x, Sync("playing", g)))
<1>1. /\ Sync("playing", g) \in Told /\ Sync("playing", g).kind = "sync"
      /\ Sync("playing", g).phase = "playing" /\ Sync("playing", g).game = g
  BY MessageFacts
<1>2. g # NoGame /\ g.id \in Nat BY GamesFacts DEF NoGame
<1>3. x \in Shows BY DEF Behind
<1>4. /\ Reducer(x, Sync("playing", g)) \in Shows
      /\ Reducer(x, Sync("playing", g)).phase = "playing"
      /\ Reducer(x, Sync("playing", g)).game = g
  BY <1>1, <1>2, <1>3, ReducerFacts
<1> QED BY <1>2, <1>4 DEF Behind, Current, Later

\* The snapshot of a lobby or of a result.
LEMMA SyncEnds ==
    ASSUME NEW ph \in {"waiting", "finished"}, NEW g \in GamesOf, NEW h \in GamesOf, h.id <= g.id,
           ph = "waiting" => h = NoGame, NEW x \in Behind(ph, g)
    PROVE  /\ Reducer(x, Sync(ph, h)) \in Current(ph, g)
           /\ Later(x, Reducer(x, Sync(ph, h)))
<1>1. /\ Sync(ph, h) \in Told /\ Sync(ph, h).kind = "sync"
      /\ Sync(ph, h).phase = ph /\ Sync(ph, h).game = h
  BY MessageFacts
<1>2. x \in Shows /\ x.game.id <= g.id BY DEF Behind
<1>3. /\ Reducer(x, Sync(ph, h)) \in Shows /\ Reducer(x, Sync(ph, h)).phase = ph
      /\ Reducer(x, Sync(ph, h)).game \in {h, x.game}
      /\ ph = "waiting" => Reducer(x, Sync(ph, h)).game = h
  BY <1>1, <1>2, ReducerFacts
<1> QED BY <1>2, <1>3 DEF Behind, Current, Later

\* The response of START on a screen.
Answered(s) == [s EXCEPT !.phase = LaterPhase(s)]

LEMMA AnsweredFacts ==
    ASSUME NEW s \in Shows
    PROVE  /\ Answered(s) \in Shows /\ Answered(s).game = s.game
           /\ Answered(s).phase = IF s.phase = "waiting" THEN "playing" ELSE s.phase
           /\ s.phase # "waiting" => Answered(s) = s
<1>1. s.phase \in {"waiting", "playing", "finished"} /\ s.game \in GamesOf BY DEF Shows
<1>2. LaterPhase(s) = IF s.phase = "waiting" THEN "playing" ELSE s.phase
  BY <1>1 DEF LaterPhase, Order
<1> QED BY <1>1, <1>2 DEF Answered, Shows

\* It makes no difference to a message whether it comes before the response or after it,
\* but for the phase that only another message of the room may change.
LEMMA AnsweredBefore ==
    ASSUME NEW s \in Shows, NEW m \in Told
    PROVE  /\ m.kind \in {"sync", "over"} => Reducer(Answered(s), m) = Reducer(s, m)
           /\ m.kind \notin {"sync", "over"} =>
                 /\ Reducer(Answered(s), m) = Answered(Reducer(s, m))
                 /\ Reducer(s, m).phase = s.phase
<1>1. /\ s.phase \in {"waiting", "playing", "finished"} /\ s.game \in GamesOf
      /\ m.phase \in {"waiting", "playing", "finished"} /\ m.game \in GamesOf
      /\ m.kind \in {"state", "sync", "over", "gone", "closed"}
  BY DEF Shows, Told
<1>2. /\ Answered(s) \in Shows /\ Answered(s).game = s.game
      /\ Answered(s).phase = "finished" <=> s.phase = "finished"
  BY <1>1, AnsweredFacts
<1>3. CASE m.kind = "sync"
  <2> DEFINE t == [phase |-> m.phase, game |-> m.game]
  <2>1. Reducer(s, m) = KeepGameState(t, s) /\ Reducer(Answered(s), m) = KeepGameState(t, Answered(s))
    BY <1>3 DEF Reducer
  <2> HIDE DEF t
  <2>2. KeepGameState(t, s) = KeepGameState(t, Answered(s))
    BY <1>2 DEF KeepGameState
  <2> QED BY <1>3, <2>1, <2>2
<1>4. CASE m.kind = "over"
  <2>1. Reducer(s, m) = [s EXCEPT !.phase = "finished"]
        /\ Reducer(Answered(s), m) = [Answered(s) EXCEPT !.phase = "finished"]
    BY <1>4 DEF Reducer
  <2>2. \A x, y \in Shows : x.game = y.game => [x EXCEPT !.phase = "finished"] = [y EXCEPT !.phase = "finished"]
    BY DEF Shows
  <2> QED BY <1>2, <1>4, <2>1, <2>2
<1>5. CASE m.kind = "state"
  <2>1. Reducer(s, m) = [s EXCEPT !.game = m.game]
        /\ Reducer(Answered(s), m) = [Answered(s) EXCEPT !.game = m.game]
    BY <1>5 DEF Reducer
  <2> DEFINE r == Reducer(s, m)
             a == Answered(s)
             b == Answered(r)
  <2>2. r \in Shows /\ r.phase = s.phase /\ r.game = m.game
    BY <1>5, ReducerFacts
  <2>3. b \in Shows /\ b.game = m.game /\ b.phase = IF s.phase = "waiting" THEN "playing" ELSE s.phase
    BY <2>2, AnsweredFacts
  <2>4. a \in Shows /\ a.phase = IF s.phase = "waiting" THEN "playing" ELSE s.phase
    BY AnsweredFacts
  <2> HIDE DEF a, b, r
  <2>5. [a EXCEPT !.game = m.game] = b
    BY <1>1, <2>3, <2>4 DEF Shows
  <2> QED BY <1>5, <2>1, <2>2, <2>5 DEF a, b, r
<1>6. CASE m.kind \in {"gone", "closed"}
  BY <1>6 DEF Reducer
<1> QED BY <1>1, <1>3, <1>4, <1>5, <1>6

LEMMA LeadsAnswered ==
    ASSUME NEW first, NEW msgs \in Seq(Told), NEW Through \in SUBSET Shows, NEW Last,
           Leads(first, msgs, Through, Last),
           \A x \in Through : Answered(x) \in Through /\ (x \in Last => Answered(x) \in Last)
    PROVE  Leads(Answered(first), msgs, Through, Last)
<1> DEFINE n == Len(msgs)
           Before(i) == \A j \in 1 .. i - 1 : msgs[j].kind \notin {"sync", "over"}
<1>1. PICK s \in [1 .. n + 1 -> Through] :
        /\ s[1] = first /\ s[n + 1] \in Last
        /\ \A i \in 1 .. n : /\ s[i + 1] = Reducer(s[i], msgs[i])
                             /\ Later(s[i], s[i + 1])
  BY DEF Leads
<1>2. n \in Nat /\ \A i \in 1 .. n : msgs[i] \in Told
  OBVIOUS
<1> DEFINE t == [i \in 1 .. n + 1 |-> IF Before(i) THEN Answered(s[i]) ELSE s[i]]
<1> HIDE DEF n
<1>3. \A i \in 1 .. n + 1 : s[i] \in Through /\ s[i] \in Shows
  BY <1>1
<1>4. t \in [1 .. n + 1 -> Through]
  BY <1>3
<1>5. t[1] = Answered(first) /\ t[n + 1] \in Last
  <2>1. Before(1) OBVIOUS
  <2>2. 1 \in 1 .. n + 1 /\ n + 1 \in 1 .. n + 1 BY <1>2
  <2> QED BY <1>1, <1>3, <2>1, <2>2
<1>6. ASSUME NEW i \in 1 .. n
      PROVE  t[i + 1] = Reducer(t[i], msgs[i]) /\ Later(t[i], t[i + 1])
  <2>1. i \in 1 .. n + 1 /\ i + 1 \in 1 .. n + 1 /\ i + 1 - 1 = i BY <1>2
  <2>2. s[i + 1] = Reducer(s[i], msgs[i]) /\ Later(s[i], s[i + 1])
    BY <1>1
  <2>3. s[i] \in Shows /\ s[i + 1] \in Shows /\ msgs[i] \in Told
    BY <1>2, <1>3, <2>1
  <2>4. Before(i + 1) <=> Before(i) /\ msgs[i].kind \notin {"sync", "over"}
    BY <2>1
  <2>5. /\ t[i] = IF Before(i) THEN Answered(s[i]) ELSE s[i]
        /\ t[i + 1] = IF Before(i + 1) THEN Answered(s[i + 1]) ELSE s[i + 1]
    BY <2>1
  <2> HIDE DEF t, Before
  <2>6. CASE ~Before(i)
    BY <2>2, <2>4, <2>5, <2>6
  <2>7. CASE Before(i) /\ msgs[i].kind \in {"sync", "over"}
    <3>1. t[i + 1] = s[i + 1] /\ t[i] = Answered(s[i]) BY <2>4, <2>5, <2>7
    <3>2. Reducer(Answered(s[i]), msgs[i]) = s[i + 1]
      BY <2>2, <2>3, <2>7, AnsweredBefore
    <3>3. Later(Answered(s[i]), s[i + 1])
      BY <2>2, <2>3, AnsweredFacts DEF Later
    <3> QED BY <3>1, <3>2, <3>3
  <2>8. CASE Before(i) /\ msgs[i].kind \notin {"sync", "over"}
    <3>1. t[i + 1] = Answered(s[i + 1]) /\ t[i] = Answered(s[i]) BY <2>4, <2>5, <2>8
    <3>2. Reducer(Answered(s[i]), msgs[i]) = Answered(s[i + 1]) /\ s[i + 1].phase = s[i].phase
      BY <2>2, <2>3, <2>8, AnsweredBefore
    <3>3. Later(Answered(s[i]), Answered(s[i + 1]))
      <4>1. Answered(s[i]).phase = Answered(s[i + 1]).phase
        BY <2>3, <3>2, AnsweredFacts
      <4> QED BY <4>1 DEF Later
    <3> QED BY <3>1, <3>2, <3>3
  <2> QED BY <2>6, <2>7, <2>8
<1> HIDE DEF t, Before
<1> QED BY <1>4, <1>5, <1>6 DEF Leads, n

LEMMA AnsweredStays ==
    ASSUME NEW ph, ph # "waiting", NEW g \in GamesOf, NEW st, NEW x \in Behind(ph, g)
    PROVE  /\ Answered(x) \in Behind(ph, g)
           /\ x \in Ends(st, ph, g) => Answered(x) \in Ends(st, ph, g)
<1>1. x \in Shows BY DEF Behind
<1>2. Answered(x) \in Behind(ph, g)
  BY <1>1, AnsweredFacts DEF Behind
<1>3. x \in Current(ph, g) => Answered(x) = x
  BY <1>1, AnsweredFacts DEF Current
<1> QED BY <1>2, <1>3 DEF Ends

-----------------------------------------------------------------------------
(* Queues.                                                                 *)

LEMMA HasMore ==
    ASSUME NEW msgs \in Seq(Told), NEW m, NEW kind
    PROVE  Has(Append(msgs, m), kind) <=> Has(msgs, kind) \/ m.kind = kind
<1>1. /\ Len(Append(msgs, m)) = Len(msgs) + 1 /\ Append(msgs, m)[Len(msgs) + 1] = m
      /\ \A i \in 1 .. Len(msgs) : Append(msgs, m)[i] = msgs[i]
  OBVIOUS
<1> QED BY <1>1 DEF Has

LEMMA HasLess ==
    ASSUME NEW msgs \in Seq(Told), msgs # <<>>, NEW kind
    PROVE  Has(msgs, kind) <=> Has(Tail(msgs), kind) \/ Head(msgs).kind = kind
<1>1. /\ Len(msgs) \in Nat \ {0} /\ Len(Tail(msgs)) = Len(msgs) - 1 /\ Head(msgs) = msgs[1]
      /\ \A i \in 1 .. Len(msgs) - 1 : Tail(msgs)[i] = msgs[i + 1]
  OBVIOUS
<1>2. ASSUME Has(Tail(msgs), kind) PROVE Has(msgs, kind)
  <2>1. PICK i \in 1 .. Len(Tail(msgs)) : Tail(msgs)[i].kind = kind BY <1>2 DEF Has
  <2>2. i + 1 \in 1 .. Len(msgs) /\ msgs[i + 1].kind = kind BY <1>1, <2>1
  <2> QED BY <2>2 DEF Has
<1>3. ASSUME Has(msgs, kind), Head(msgs).kind # kind PROVE Has(Tail(msgs), kind)
  <2>1. PICK i \in 1 .. Len(msgs) : msgs[i].kind = kind BY <1>3 DEF Has
  <2>2. i - 1 \in 1 .. Len(Tail(msgs)) /\ Tail(msgs)[i - 1] = msgs[i] BY <1>1, <1>3, <2>1
  <2> QED BY <2>1, <2>2 DEF Has
<1>4. 1 \in 1 .. Len(msgs) BY <1>1
<1> QED BY <1>1, <1>2, <1>3, <1>4 DEF Has

LEMMA HasNothing ==
    ASSUME NEW kind PROVE ~Has(<<>>, kind) /\ ~Asks(<<>>)
  BY DEF Has, Asks

\* Nothing happens to a player's connection.
LEMMA Untouched ==
    ASSUME NEW q, ConnectionOK(q), Follows(q), UNCHANGED <<phase, game>>,
           link'[q] = link[q], down'[q] = down[q], up'[q] = up[q], seat'[q] = seat[q],
           shown'[q] = shown[q]
    PROVE  ConnectionOK(q)' /\ Follows(q)'
  BY DEF ConnectionOK, Follows

\* A broadcast leaves connections as they should be.
LEMMA TellConnection ==
    ASSUME NEW q, ConnectionOK(q), NEW msgs \in Seq(Told),
           \A i \in 1 .. Len(msgs) : msgs[i].kind \in {"state", "sync", "over"},
           down'[q] = IF seat[q] = "live" THEN down[q] \o msgs ELSE down[q],
           seat'[q] = seat[q], link'[q] = link[q],
           \/ up'[q] = up[q] \/ ~Asks(up'[q]),
           phase = "gone" => phase' = "gone"
    PROVE  ConnectionOK(q)'
<1>1. CASE seat[q] = "live"
  <2>1. down[q] \in Seq(Told) /\ down'[q] = down[q] \o msgs
    BY <1>1 DEF ConnectionOK
  <2>2. down'[q] \in Seq(Told) BY <2>1
  <2>3. ASSUME NEW k \in {"closed", "gone"}, Has(down'[q], k) PROVE Has(down[q], k)
    <3>1. PICK i \in 1 .. Len(down'[q]) : down'[q][i].kind = k BY <2>3 DEF Has
    <3>2. CASE i <= Len(down[q])
      <4>1. i \in 1 .. Len(down[q]) /\ down'[q][i] = down[q][i] BY <2>1, <3>1, <3>2
      <4> QED BY <3>1, <4>1 DEF Has
    <3>3. CASE i > Len(down[q])
      <4>1. i - Len(down[q]) \in 1 .. Len(msgs) /\ down'[q][i] = msgs[i - Len(down[q])]
        BY <2>1, <3>1, <3>3
      <4> QED BY <3>1, <4>1
    <3>4. i \in Nat /\ Len(down[q]) \in Nat BY <2>1, <2>2, <3>1
    <3> QED BY <3>2, <3>3, <3>4
  <2>4. ~Has(down'[q], "closed") /\ (Has(down'[q], "gone") => phase' = "gone")
    BY <1>1, <2>3 DEF ConnectionOK
  <2>5. ~Asks(up'[q]) BY <1>1 DEF ConnectionOK
  <2> QED BY <1>1, <2>2, <2>4, <2>5 DEF ConnectionOK
<1>2. CASE seat[q] # "live"
  BY <1>2 DEF ConnectionOK
<1> QED BY <1>1, <1>2

LEMMA ToldSeqs ==
    /\ \A a \in Told : /\ <<a>> \in Seq(Told)
                       /\ \A i \in 1 .. Len(<<a>>) : <<a>>[i] = a
    /\ \A a, b \in Told : /\ <<a, b>> \in Seq(Told)
                          /\ \A i \in 1 .. Len(<<a, b>>) : <<a, b>>[i] \in {a, b}
    /\ \A a, b, c, d \in Told :
          /\ <<a, b, c, d>> \in Seq(Told)
          /\ \A i \in 1 .. Len(<<a, b, c, d>>) : <<a, b, c, d>>[i] \in {a, b, c, d}
  OBVIOUS

LEMMA Appends ==
    ASSUME NEW s \in Seq(Told)
    PROVE  /\ \A a \in Told : s \o <<a>> = Append(s, a)
           /\ \A a, b \in Told : s \o <<a, b>> = Append(Append(s, a), b)
<1>1. \A a \in Told : s \o <<a>> = Append(s, a) OBVIOUS
<1>2. \A a, b \in Told : s \o <<a, b>> = Append(Append(s, a), b) OBVIOUS
<1> QED BY <1>1, <1>2

LEMMA AppendsFour ==
    ASSUME NEW s \in Seq(Told), NEW a \in Told, NEW b \in Told, NEW c \in Told, NEW d \in Told
    PROVE  s \o <<a, b, c, d>> = Append(Append(Append(Append(s, a), b), c), d)
  OBVIOUS

-----------------------------------------------------------------------------
(* Steps that broadcast.                                                   *)

LEMMA SeqsOfTold ==
    ASSUME NEW s \in Seq(Told), NEW m \in Told
    PROVE  s \in Seq(Downs) /\ m \in Downs /\ Append(s, m) \in Seq(Told)
  BY ToldIsDown

\* Two messages, one after the other.
LEMMA LeadsOnTwice ==
    ASSUME NEW first, NEW msgs \in Seq(Told), NEW a \in Told, NEW b \in Told,
           NEW Through, NEW Last, NEW Through2, NEW Last2, NEW Last3,
           Leads(first, msgs, Through, Last), Through \subseteq Through2,
           \A x \in Last : x \in Through =>
               /\ Reducer(x, a) \in Through2 /\ Reducer(x, a) \in Last2
               /\ Later(x, Reducer(x, a)),
           \A x \in Last2 : x \in Through2 =>
               /\ Reducer(x, b) \in Through2 /\ Reducer(x, b) \in Last3
               /\ Later(x, Reducer(x, b))
    PROVE  Leads(first, Append(Append(msgs, a), b), Through2, Last3)
<1>1. Append(msgs, a) \in Seq(Downs) /\ msgs \in Seq(Downs) /\ a \in Downs /\ b \in Downs
  BY SeqsOfTold
<1>2. Leads(first, Append(msgs, a), Through2, Last2)
  BY <1>1, LeadsOn
<1> QED BY <1>1, <1>2, LeadsOn

LEMMA AdvanceFollows ==
    ASSUME TypeOK, RoomOK, phase = "playing", Advance, UNCHANGED <<phase, seat, shown>>,
           NEW q \in Players, ConnectionOK(q), Follows(q)
    PROVE  Follows(q)'
<1> DEFINE g == [game EXCEPT !.at = @ + 1]
<1>1. game \in GamesOf /\ game.at <= MaxMoves /\ game' = g
  BY DEF Advance, TypeOK, RoomOK
<1>2. g \in GamesOf /\ g.id = game.id /\ g.id >= 1 /\ game.id \in Nat
  BY <1>1, GamesFacts DEF RoomOK
<1>3. PICK msgs \in {<<State(g)>>, <<State(g), Sync(phase, g)>>} : Tell(msgs)
  BY DEF Advance, g
<1> HIDE DEF g
<1>4. Behind("playing", game) \subseteq Behind("playing", g)
  BY <1>1, <1>2, BehindGrows
<1>5. down[q] \in Seq(Told) /\ State(g) \in Told /\ Sync(phase, g) \in Told
  BY <1>2, MessageFacts DEF ConnectionOK
<1>6. down'[q] = IF seat[q] = "live" THEN down[q] \o msgs ELSE down[q]
  BY <1>3 DEF Tell
<1>7. CASE seat[q] # "live"
  <2>1. Leads(shown[q], down[q], Behind("playing", game), Behind("playing", game))
    BY <1>7 DEF Follows, Ends
  <2>2. Leads(shown[q], down[q], Behind("playing", g), Behind("playing", g))
    BY <1>4, <2>1, LeadsWider
  <2> QED BY <1>1, <1>6, <1>7, <2>2 DEF Follows, Ends
<1>8. CASE seat[q] = "live"
  <2>1. Leads(shown[q], down[q], Behind("playing", game), Current("playing", game))
    BY <1>8 DEF Follows, Ends
  <2>2. \A x \in Current("playing", game) : x \in Behind("playing", game) =>
           /\ Reducer(x, State(g)) \in Behind("playing", g)
           /\ Reducer(x, State(g)) \in Current("playing", g)
           /\ Later(x, Reducer(x, State(g)))
    <3>1. SUFFICES ASSUME NEW x \in Current("playing", game)
                   PROVE  /\ Reducer(x, State(g)) \in Behind("playing", g)
                          /\ Reducer(x, State(g)) \in Current("playing", g)
                          /\ Later(x, Reducer(x, State(g)))
      OBVIOUS
    <3>2. x \in Shows /\ x.phase = "playing" BY DEF Current, Behind
    <3>3. /\ Reducer(x, State(g)) \in Behind("playing", g) /\ Later(x, Reducer(x, State(g)))
          /\ Reducer(x, State(g)).phase = "playing" /\ Reducer(x, State(g)).game = g
      BY <1>2, <3>2, StateFollows
    <3> QED BY <3>3 DEF Current
  <2>3. \A x \in Current("playing", g) : x \in Behind("playing", g) =>
           /\ Reducer(x, Sync("playing", g)) \in Behind("playing", g)
           /\ Reducer(x, Sync("playing", g)) \in Current("playing", g)
           /\ Later(x, Reducer(x, Sync("playing", g)))
    BY <1>2, SyncFollows DEF Current
  <2>4. Leads(shown[q], Append(down[q], State(g)), Behind("playing", g), Current("playing", g))
    BY <1>4, <1>5, <2>1, <2>2, LeadsOn, SeqsOfTold
  <2>5. Leads(shown[q], Append(Append(down[q], State(g)), Sync("playing", g)),
              Behind("playing", g), Current("playing", g))
    BY <1>5, <2>3, <2>4, LeadsOn, SeqsOfTold
  <2>6. down'[q] \in {Append(down[q], State(g)), Append(Append(down[q], State(g)), Sync("playing", g))}
    <3>1. down[q] \o <<State(g)>> = Append(down[q], State(g))
      BY <1>5, Appends, Zenon
    <3>2. down[q] \o <<State(g), Sync("playing", g)>>
            = Append(Append(down[q], State(g)), Sync("playing", g))
      BY <1>5, Appends, Zenon
    <3> QED BY <1>3, <1>6, <1>8, <3>1, <3>2
  <2>7. Leads(shown[q], down'[q], Behind("playing", g), Current("playing", g))
    BY <2>4, <2>5, <2>6
  <2> QED BY <1>1, <1>8, <2>7 DEF Follows, Ends
<1> QED BY <1>7, <1>8

LEMMA AdvanceConnection ==
    ASSUME TypeOK, RoomOK, phase = "playing", Advance, UNCHANGED <<phase, seat, link>>,
           NEW q \in Players, ConnectionOK(q), up'[q] = up[q] \/ ~Asks(up'[q])
    PROVE  ConnectionOK(q)'
<1> DEFINE g == [game EXCEPT !.at = @ + 1]
<1>1. g \in GamesOf
  BY GamesFacts DEF TypeOK, RoomOK
<1>2. PICK msgs \in {<<State(g)>>, <<State(g), Sync(phase, g)>>} : Tell(msgs)
  BY DEF Advance, g
<1> HIDE DEF g
<1>3. /\ State(g) \in Told /\ Sync(phase, g) \in Told
      /\ State(g).kind = "state" /\ Sync(phase, g).kind = "sync"
  BY <1>1, MessageFacts
<1>4. /\ msgs \in Seq(Told)
      /\ \A i \in 1 .. Len(msgs) : msgs[i].kind \in {"state", "sync", "over"}
  <2>1. CASE msgs = <<State(g)>>
    BY <1>3, <2>1, ToldSeqs
  <2>2. CASE msgs = <<State(g), Sync(phase, g)>>
    <3>1. /\ <<State(g), Sync(phase, g)>> \in Seq(Told)
          /\ \A i \in 1 .. Len(<<State(g), Sync(phase, g)>>) :
                <<State(g), Sync(phase, g)>>[i] \in {State(g), Sync(phase, g)}
      BY <1>3, ToldSeqs, Zenon
    <3> QED BY <1>3, <2>2, <3>1
  <2> QED BY <1>2, <2>1, <2>2
<1>5. down'[q] = IF seat[q] = "live" THEN down[q] \o msgs ELSE down[q]
  BY <1>2 DEF Tell
<1> QED BY <1>4, <1>5, TellConnection

LEMMA StartKeeps ==
    ASSUME ClientOK, NEW p \in Players, Start(p), NEW q \in Players
    PROVE  ConnectionOK(q)' /\ Follows(q)'
<1> DEFINE g == [id |-> (game.id + 1), at |-> 0]
<1>1. /\ game \in GamesOf /\ game' = g /\ phase = "waiting" /\ phase' = "playing"
      /\ Tell(<<State(g), Sync("playing", g)>>)
      /\ UNCHANGED <<seat, closing, link, tries, shown, seq, up, lost, late, faults>>
  BY DEF Start, ClientOK, TypeOK
<1>2. g \in GamesOf /\ g.id = game.id + 1 /\ game.id \in Nat
  BY <1>1, GamesFacts DEF Start
<1> HIDE DEF g
<1>3. ConnectionOK(q) /\ Follows(q)
  BY DEF ClientOK
<1>4. /\ State(g) \in Told /\ Sync("playing", g) \in Told
      /\ State(g).kind = "state" /\ Sync("playing", g).kind = "sync"
  BY <1>2, MessageFacts
<1>5. /\ <<State(g), Sync("playing", g)>> \in Seq(Told)
      /\ \A i \in 1 .. Len(<<State(g), Sync("playing", g)>>) :
            <<State(g), Sync("playing", g)>>[i].kind \in {"state", "sync", "over"}
  BY <1>4, ToldSeqs
<1>6. down'[q] = IF seat[q] = "live" THEN down[q] \o <<State(g), Sync("playing", g)>> ELSE down[q]
  BY <1>1 DEF Tell
<1>7. ConnectionOK(q)'
  BY <1>1, <1>3, <1>5, <1>6, TellConnection
<1>8. Behind("waiting", game) \subseteq Behind("playing", g)
  BY <1>1, <1>2, BehindGrows
<1>9. CASE seat[q] # "live"
  <2>1. Leads(shown[q], down[q], Behind("waiting", game), Behind("waiting", game))
    BY <1>1, <1>3, <1>9 DEF Follows, Ends
  <2>2. Leads(shown[q], down[q], Behind("playing", g), Behind("playing", g))
    BY <1>8, <2>1, LeadsWider
  <2>3. Follows(q)' BY <1>1, <1>6, <1>9, <2>2 DEF Follows, Ends
  <2> QED BY <1>7, <2>3
<1>10. CASE seat[q] = "live"
  <2>1. Leads(shown[q], down[q], Behind("waiting", game), Current("waiting", game))
    BY <1>1, <1>3, <1>10 DEF Follows, Ends
  <2>2. ASSUME NEW x \in Current("waiting", game)
        PROVE  Reducer(x, State(g)) \in Behind("playing", g) /\ Later(x, Reducer(x, State(g)))
    <3>1. x \in Shows /\ x.phase = "waiting" BY DEF Current, Behind
    <3>2. /\ Reducer(x, State(g)) \in Behind("waiting", g) /\ Later(x, Reducer(x, State(g)))
          /\ Reducer(x, State(g)).phase = "waiting"
      BY <1>2, <3>1, StateFollows
    <3> QED BY <3>2 DEF Behind
  <2>3. \A x \in Behind("playing", g) :
           /\ Reducer(x, Sync("playing", g)) \in Behind("playing", g)
           /\ Reducer(x, Sync("playing", g)) \in Current("playing", g)
           /\ Later(x, Reducer(x, Sync("playing", g)))
    BY <1>2, SyncFollows DEF Current
  <2>4. Leads(shown[q], Append(Append(down[q], State(g)), Sync("playing", g)),
              Behind("playing", g), Current("playing", g))
    <3>1. down[q] \in Seq(Told) BY <1>3 DEF ConnectionOK
    <3> QED BY <1>4, <1>8, <2>1, <2>2, <2>3, <3>1, LeadsOnTwice
  <2>5. down'[q] = Append(Append(down[q], State(g)), Sync("playing", g))
    BY <1>3, <1>4, <1>6, <1>10, Appends DEF ConnectionOK
  <2>6. Follows(q)' BY <1>1, <1>10, <2>4, <2>5 DEF Follows, Ends
  <2> QED BY <1>7, <2>6
<1> QED BY <1>9, <1>10

LEMMA FinishKeeps ==
    ASSUME ClientOK, Finish, NEW q \in Players
    PROVE  ConnectionOK(q)' /\ Follows(q)'
<1> DEFINE g == [game EXCEPT !.at = @ + 1]
           a == Plain("over")
           b == Sync("finished", NoGame)
           c == State(g)
           d == Sync("finished", g)
<1>1. /\ game \in GamesOf /\ game' = g /\ phase = "playing" /\ phase' = "finished"
      /\ game.at <= MaxMoves
      /\ Tell(<<a, b, c, d>>)
      /\ UNCHANGED <<seat, link, shown, up>>
  BY DEF Finish, ClientOK, TypeOK, RoomOK, page
<1>2. g \in GamesOf /\ g.id = game.id /\ game.id \in Nat
  BY <1>1, GamesFacts
<1> HIDE DEF g
<1>3. ConnectionOK(q) /\ Follows(q)
  BY DEF ClientOK
<1>4. /\ a \in Told /\ b \in Told /\ c \in Told /\ d \in Told
      /\ a.kind = "over" /\ b.kind = "sync" /\ c.kind = "state" /\ d.kind = "sync"
  BY <1>2, MessageFacts, GamesFacts
<1> HIDE DEF a, b, c, d
<1>5. /\ <<a, b, c, d>> \in Seq(Told)
      /\ \A i \in 1 .. Len(<<a, b, c, d>>) : <<a, b, c, d>>[i].kind \in {"state", "sync", "over"}
  BY <1>4, ToldSeqs
<1>6. down'[q] = IF seat[q] = "live" THEN down[q] \o <<a, b, c, d>> ELSE down[q]
  BY <1>1 DEF Tell
<1>7. ConnectionOK(q)'
  BY <1>1, <1>3, <1>5, <1>6, TellConnection
<1>8. Behind("playing", game) \subseteq Behind("finished", g)
  BY <1>1, <1>2, BehindGrows
<1>9. CASE seat[q] # "live"
  <2>1. Leads(shown[q], down[q], Behind("playing", game), Behind("playing", game))
    BY <1>1, <1>3, <1>9 DEF Follows, Ends
  <2>2. Leads(shown[q], down[q], Behind("finished", g), Behind("finished", g))
    BY <1>8, <2>1, LeadsWider
  <2>3. Follows(q)' BY <1>1, <1>6, <1>9, <2>2 DEF Follows, Ends
  <2> QED BY <1>7, <2>3
<1>10. CASE seat[q] = "live"
  <2> DEFINE F == Behind("finished", g)
             C == Current("finished", g)
  <2>1. Leads(shown[q], down[q], Behind("playing", game), Behind("playing", game))
    <3>1. Current("playing", game) \subseteq Behind("playing", game) BY DEF Current
    <3> QED BY <1>1, <1>3, <1>10, <3>1, LeadsWider DEF Follows, Ends
  <2>2. ASSUME NEW x \in Behind("playing", game)
        PROVE  Reducer(x, a) \in F /\ Later(x, Reducer(x, a))
    <3>1. x \in Shows /\ x.game.id <= game.id BY DEF Behind
    <3>2. Reducer(x, a) \in Shows /\ Reducer(x, a).phase = "finished" /\ Reducer(x, a).game = x.game
      BY <1>4, <3>1, ReducerFacts
    <3> QED BY <1>2, <3>1, <3>2 DEF Behind, Later
  <2>3. ASSUME NEW x \in F
        PROVE  /\ Reducer(x, b) \in F /\ Reducer(x, b) \in C /\ Later(x, Reducer(x, b))
               /\ Reducer(x, d) \in F /\ Reducer(x, d) \in C /\ Later(x, Reducer(x, d))
    <3>1. NoGame \in GamesOf /\ NoGame.id <= g.id /\ g.id <= g.id
      BY <1>2, GamesFacts DEF NoGame
    <3> QED BY <1>2, <3>1, SyncEnds DEF Current, b, d
  <2>4. ASSUME NEW x \in C
        PROVE  Reducer(x, c) \in F /\ Later(x, Reducer(x, c))
    <3>1. x \in Shows /\ x.phase = "finished" BY DEF Current, Behind
    <3> QED BY <1>2, <3>1, StateFollows DEF c
  <2> HIDE DEF F, C
  <2>5. down[q] \in Seq(Told) /\ Append(Append(down[q], a), b) \in Seq(Told)
    BY <1>3, <1>4, SeqsOfTold DEF ConnectionOK
  <2>6. Behind("playing", game) \subseteq F BY <1>8 DEF F
  <2>7. Leads(shown[q], Append(Append(down[q], a), b), F, C)
    BY <1>4, <2>1, <2>2, <2>3, <2>5, <2>6, LeadsOnTwice
  <2>8. Leads(shown[q], Append(Append(Append(Append(down[q], a), b), c), d), F, C)
    BY <1>4, <2>3, <2>4, <2>5, <2>7, LeadsOnTwice
  <2>9. down'[q] = Append(Append(Append(Append(down[q], a), b), c), d)
    <3>1. down[q] \o <<a, b, c, d>> = Append(Append(Append(Append(down[q], a), b), c), d)
      <4>1. PICK s \in Seq(Told) : s = down[q] BY <2>5
      <4>2. PICK w \in Told : w = a BY <1>4
      <4>3. PICK x \in Told : x = b BY <1>4
      <4>4. PICK y \in Told : y = c BY <1>4
      <4>5. PICK z \in Told : z = d BY <1>4
      <4>6. s \o <<w, x, y, z>> = Append(Append(Append(Append(s, w), x), y), z)
        OBVIOUS
      <4> QED BY <4>1, <4>2, <4>3, <4>4, <4>5, <4>6, Zenon
    <3> QED BY <1>6, <1>10, <3>1
  <2>10. Follows(q)' BY <1>1, <1>10, <2>8, <2>9 DEF Follows, Ends, F, C
  <2> QED BY <1>7, <2>10
<1> QED BY <1>9, <1>10

LEMMA ReturnKeeps ==
    ASSUME ClientOK, ReturnToLobby, NEW q \in Players
    PROVE  ConnectionOK(q)' /\ Follows(q)'
<1> DEFINE a == Sync("waiting", NoGame)
<1>1. /\ game \in GamesOf /\ phase = "finished" /\ phase' = "waiting"
      /\ game' = [game EXCEPT !.at = 0] /\ Tell(<<a>>) /\ UNCHANGED <<seat, link, shown, up>>
  BY DEF ReturnToLobby, ClientOK, TypeOK, page
<1>2. game' \in GamesOf /\ game'.id = game.id /\ game.id \in Nat
  BY <1>1, GamesFacts
<1>3. ConnectionOK(q) /\ Follows(q)
  BY DEF ClientOK
<1>4. a \in Told /\ a.kind = "sync"
  BY MessageFacts, GamesFacts
<1> HIDE DEF a
<1>5. <<a>> \in Seq(Told) /\ \A i \in 1 .. Len(<<a>>) : <<a>>[i].kind \in {"state", "sync", "over"}
  BY <1>4, ToldSeqs
<1>6. down'[q] = IF seat[q] = "live" THEN down[q] \o <<a>> ELSE down[q]
  BY <1>1 DEF Tell
<1>7. ConnectionOK(q)'
  BY <1>1, <1>3, <1>5, <1>6, TellConnection
<1>8. Behind("finished", game) \subseteq Behind("waiting", game')
  BY <1>1, <1>2, BehindGrows
<1>9. CASE seat[q] # "live"
  <2>1. Leads(shown[q], down[q], Behind("finished", game), Behind("finished", game))
    BY <1>1, <1>3, <1>9 DEF Follows, Ends
  <2>2. Leads(shown[q], down[q], Behind("waiting", game'), Behind("waiting", game'))
    BY <1>8, <2>1, LeadsWider
  <2>3. Follows(q)' BY <1>1, <1>6, <1>9, <2>2 DEF Follows, Ends
  <2> QED BY <1>7, <2>3
<1>10. CASE seat[q] = "live"
  <2>1. Leads(shown[q], down[q], Behind("finished", game), Current("finished", game))
    BY <1>1, <1>3, <1>10 DEF Follows, Ends
  <2>2. ASSUME NEW x \in Current("finished", game)
        PROVE  /\ Reducer(x, a) \in Behind("waiting", game')
               /\ Reducer(x, a) \in Current("waiting", game') /\ Later(x, Reducer(x, a))
    <3>1. x \in Behind("waiting", game') BY <1>8 DEF Current
    <3>2. NoGame \in GamesOf /\ NoGame.id <= game'.id BY <1>2, GamesFacts DEF NoGame
    <3> QED BY <1>2, <3>1, <3>2, SyncEnds DEF Current, a
  <2>3. down[q] \in Seq(Told) BY <1>3 DEF ConnectionOK
  <2>4. Leads(shown[q], Append(down[q], a), Behind("waiting", game'), Current("waiting", game'))
    BY <1>4, <1>8, <2>1, <2>2, <2>3, LeadsOn, SeqsOfTold
  <2>5. down'[q] = Append(down[q], a)
    BY <1>4, <1>6, <1>10, <2>3, Appends
  <2>6. Follows(q)' BY <1>1, <1>10, <2>4, <2>5 DEF Follows, Ends
  <2> QED BY <1>7, <2>6
<1> QED BY <1>9, <1>10

-----------------------------------------------------------------------------
(* Steps of the gateway with one connection.                               *)

\* The other players' connections are not concerned.
LEMMA JoinKeeps ==
    ASSUME ClientOK, NEW p \in Players, Read(p), Head(up[p]) = Join, NEW q \in Players
    PROVE  ConnectionOK(q)' /\ Follows(q)'
<1>1. /\ HandleJoin(p) /\ up[p] # <<>> /\ up' = [up EXCEPT ![p] = Tail(@)]
      /\ UNCHANGED <<phase, game, link, shown>>
  BY DEF Read, HandleJoin, page
<1>2. ConnectionOK(q) /\ Follows(q) /\ ConnectionOK(p) /\ Follows(p) /\ RoomOK /\ TypeOK
  BY DEF ClientOK
<1>3. up[p] \in Seq(0 .. MaxInputs) /\ down \in [Players -> Seq(Downs)] /\ game \in GamesOf
      /\ phase \in Phases
  BY <1>2 DEF TypeOK
<1>4. /\ seat' = IF Admitted(p) THEN [seat EXCEPT ![p] = "live"] ELSE seat
      /\ down' = [down EXCEPT ![p] = Append(@, Reply(p))]
  BY <1>1 DEF HandleJoin
<1>5. CASE q # p
  <2>1. seat'[q] = seat[q] /\ down'[q] = down[q] /\ up'[q] = up[q]
    BY <1>1, <1>2, <1>4, <1>5 DEF TypeOK
  <2> QED BY <1>1, <1>2, <2>1, Untouched
<1>6. CASE q = p
  <2>1. /\ Len(up[p]) \in Nat \ {0} /\ up[p][1] = Join /\ Len(Tail(up[p])) = Len(up[p]) - 1
        /\ \A i \in 1 .. Len(up[p]) - 1 : Tail(up[p])[i] = up[p][i + 1]
    BY <1>1, <1>3
  <2>2. Asks(up[p]) BY <2>1 DEF Asks
  <2>3. /\ link[p] = "joining" /\ down[p] = <<>> /\ seat[p] # "live"
        /\ \A i \in 1 .. Len(up[p]) : up[p][i] = Join => i = 1
    BY <1>2, <2>2 DEF ConnectionOK
  <2>4. ~Asks(Tail(up[p]))
    <3> SUFFICES ASSUME NEW i \in 1 .. Len(Tail(up[p])), Tail(up[p])[i] = Join PROVE FALSE
      BY DEF Asks
    <3>1. i + 1 \in 1 .. Len(up[p]) /\ up[p][i + 1] = Join /\ i + 1 # 1 BY <2>1
    <3> QED BY <2>3, <3>1
  <2>5. up'[p] = Tail(up[p]) BY <1>1, <1>2 DEF TypeOK
  <2>6. Reply(p) \in Told /\ Reply(p).kind = IF phase = "gone" THEN "gone" ELSE "sync"
    BY <1>2, ReplyTypes
  <2>7. down'[p] = Append(down[p], Reply(p)) /\ down[p] \in Seq(Told)
    BY <1>2, <1>3, <1>4 DEF ConnectionOK
  <2>8. \A k \in {"closed", "gone", "sync"} : Has(down'[p], k) <=> Reply(p).kind = k
    <3> TAKE k \in {"closed", "gone", "sync"}
    <3>1. Has(Append(down[p], Reply(p)), k) <=> Has(down[p], k) \/ Reply(p).kind = k
      BY <2>7, HasMore
    <3>2. ~Has(down[p], k) BY <2>3, HasNothing
    <3> QED BY <2>7, <3>1, <3>2
  <2>9. down'[p] \in Seq(Told) BY <2>6, <2>7, SeqsOfTold
  <2>10. Leads(shown[p], down[p], Behind(phase, game), Behind(phase, game))
    BY <1>2, <2>3 DEF Follows, Ends
  <2>11. CASE phase = "gone"
    <3>1. seat' = seat /\ Reply(p).kind = "gone" BY <1>4, <2>6, <2>11 DEF Admitted
    <3>2. ConnectionOK(p)'
      BY <1>1, <2>3, <2>4, <2>5, <2>8, <2>9, <2>11, <3>1 DEF ConnectionOK
    <3>3. \A x \in Behind(phase, game) : Reducer(x, Reply(p)) = x
      BY <2>6, <3>1, ReducerFacts DEF Behind
    <3>4. Leads(shown[p], Append(down[p], Reply(p)), Behind(phase, game), Behind(phase, game))
      <4>1. \A x \in Behind(phase, game) : Later(x, x) BY DEF Later
      <4> QED BY <2>6, <2>7, <2>10, <3>3, <4>1, LeadsOn, SeqsOfTold
    <3>5. Follows(p)' BY <1>1, <2>3, <2>7, <3>1, <3>4 DEF Follows, Ends
    <3> QED BY <1>6, <3>2, <3>5
  <2>12. CASE phase # "gone"
    <3>1. seat'[p] = "live" /\ Reply(p).kind = "sync"
      BY <1>2, <1>4, <2>6, <2>12 DEF Admitted, TypeOK
    <3>2. ConnectionOK(p)'
      BY <1>1, <2>3, <2>4, <2>5, <2>8, <2>9, <3>1 DEF ConnectionOK
    <3>3. PICK h \in GamesOf : /\ Reply(p) = Sync(phase, h)
                               /\ h = Stored \/ (phase = "finished" /\ h = NoGame)
      BY <1>2, <2>12, ReplyTypes
    <3>4. h = IF phase = "playing" THEN game ELSE IF phase = "waiting" THEN NoGame ELSE h
      BY <3>3 DEF Stored
    <3>5. h.id <= game.id
      <4>1. h \in {game, NoGame} BY <3>3 DEF Stored
      <4>2. NoGame.id = 0 /\ game.id \in Nat BY <1>3, GamesFacts DEF NoGame
      <4> QED BY <4>1, <4>2
    <3>6. ASSUME NEW x \in Behind(phase, game)
          PROVE  /\ Reducer(x, Reply(p)) \in Current(phase, game)
                 /\ Later(x, Reducer(x, Reply(p)))
      <4>1. CASE phase = "playing"
        <5>1. game.id >= 1 /\ h = game BY <1>2, <3>4, <4>1 DEF RoomOK
        <5> QED BY <1>3, <3>3, <4>1, <5>1, SyncFollows
      <4>2. CASE phase \in {"waiting", "finished"}
        <5>1. phase = "waiting" => h = NoGame BY <3>4
        <5> QED BY <1>3, <3>3, <3>5, <4>2, <5>1, SyncEnds
      <4> QED BY <1>3, <2>12, <4>1, <4>2 DEF Phases
    <3>7. Leads(shown[p], Append(down[p], Reply(p)), Behind(phase, game), Current(phase, game))
      <4>1. Current(phase, game) \subseteq Behind(phase, game) BY DEF Current
      <4> QED BY <2>6, <2>7, <2>10, <3>6, <4>1, LeadsOn, SeqsOfTold
    <3>8. Follows(p)' BY <1>1, <2>7, <3>1, <3>7 DEF Follows, Ends
    <3> QED BY <1>6, <3>2, <3>8
  <2> QED BY <2>11, <2>12
<1> QED BY <1>5, <1>6

LEMMA HeardKeeps ==
    ASSUME ClientOK, NEW p \in Players, NEW n, Heard(p, n), UNCHANGED <<phase, seat, link, shown>>,
           NEW q \in Players, up'[q] = up[q] \/ ~Asks(up'[q])
    PROVE  ConnectionOK(q)' /\ Follows(q)'
<1>1. ConnectionOK(q) /\ Follows(q) /\ RoomOK /\ TypeOK BY DEF ClientOK
<1>2. CASE phase = "playing" /\ Advance
  BY <1>1, <1>2, AdvanceFollows, AdvanceConnection
<1>3. CASE UNCHANGED <<game, heard, down>>
  <2>1. ConnectionOK(q)' BY <1>1, <1>3 DEF ConnectionOK
  <2>2. Follows(q)' BY <1>1, <1>3 DEF Follows
  <2> QED BY <2>1, <2>2
<1> QED BY <1>2, <1>3 DEF Heard

LEMMA ReadKeeps ==
    ASSUME ClientOK, NEW p \in Players, Read(p), NEW q \in Players
    PROVE  ConnectionOK(q)' /\ Follows(q)'
<1>1. CASE Head(up[p]) = Join
  BY <1>1, JoinKeeps
<1>2. CASE Head(up[p]) # Join
  <2>1. /\ Heard(p, Head(up[p])) /\ seat[p] = "live" /\ up[p] # <<>>
        /\ up' = [up EXCEPT ![p] = Tail(@)] /\ UNCHANGED <<phase, seat, link, shown>>
    BY <1>2 DEF Read, page
  <2>2. ConnectionOK(p) /\ up \in [Players -> Seq(0 .. MaxInputs)] BY DEF ClientOK, TypeOK
  <2>3. ~Asks(up[p]) BY <2>1, <2>2 DEF ConnectionOK
  <2>4. ~Asks(Tail(up[p]))
    <3> SUFFICES ASSUME NEW i \in 1 .. Len(Tail(up[p])), Tail(up[p])[i] = Join PROVE FALSE
      BY DEF Asks
    <3>0. up[p] \in Seq(0 .. MaxInputs) BY <2>2
    <3>1. i + 1 \in 1 .. Len(up[p]) /\ up[p][i + 1] = Tail(up[p])[i]
      BY <2>1, <3>0
    <3> QED BY <2>3, <3>1 DEF Asks
  <2>5. up'[q] = up[q] \/ ~Asks(up'[q])
    BY <2>1, <2>2, <2>4
  <2> QED BY <2>1, <2>5, HeardKeeps
<1> QED BY <1>1, <1>2

\* A socket that is closed by the gateway, or whose seat is given to another.
LEMMA ClosedKeeps ==
    ASSUME NEW q, ConnectionOK(q), Follows(q), down[q] \in Seq(Told),
           down'[q] = Append(down[q], Plain("closed")), seat'[q] # "live",
           link[q] \in {"joining", "connected"},
           ~Asks(up'[q]), UNCHANGED <<phase, game>>, link'[q] = link[q], shown'[q] = shown[q]
    PROVE  ConnectionOK(q)' /\ Follows(q)'
<1>1. Plain("closed") \in Told /\ Plain("closed").kind = "closed"
  BY MessageFacts, GamesFacts
<1>2. /\ down'[q] \in Seq(Told) /\ Has(down'[q], "closed")
      /\ \A k \in {"gone", "sync"} : Has(down'[q], k) <=> Has(down[q], k)
  BY <1>1, HasMore, SeqsOfTold
<1>3. ConnectionOK(q)'
  BY <1>2 DEF ConnectionOK
<1>4. Leads(shown[q], down[q], Behind(phase, game), Behind(phase, game))
  <2>1. Ends(seat[q], phase, game) \subseteq Behind(phase, game) BY DEF Ends, Current
  <2> QED BY <2>1, LeadsWider DEF Follows
<1>5. \A x \in Behind(phase, game) : Reducer(x, Plain("closed")) = x /\ Later(x, x)
  BY <1>1, ReducerFacts DEF Behind, Later
<1>6. Leads(shown[q], Append(down[q], Plain("closed")), Behind(phase, game), Behind(phase, game))
  BY <1>1, <1>4, <1>5, LeadsOn, SeqsOfTold
<1>7. Follows(q)' BY <1>6 DEF Follows, Ends
<1> QED BY <1>3, <1>7

LEMMA ReadLateKeeps ==
    ASSUME ClientOK, NEW p \in Players, ReadLate(p), NEW q \in Players
    PROVE  ConnectionOK(q)' /\ Follows(q)'
<1>1. /\ UNCHANGED <<phase, link, shown, up>>
      /\ ConnectionOK(q) /\ Follows(q) /\ ConnectionOK(p) /\ TypeOK
  BY DEF ReadLate, page, ClientOK
<1>2. CASE Head(late[p]) = Join
  <2>1. /\ seat' = IF Admitted(p) THEN [seat EXCEPT ![p] = "dead"] ELSE seat
        /\ down' = IF Admitted(p) /\ seat[p] = "live"
                   THEN [down EXCEPT ![p] = Append(@, Plain("closed"))] ELSE down
        /\ UNCHANGED <<phase, game, heard>>
    BY <1>2 DEF ReadLate
  <2>2. CASE q # p
    <3>1. seat'[q] = seat[q] /\ down'[q] = down[q] BY <1>1, <2>1, <2>2 DEF TypeOK
    <3> QED BY <1>1, <2>1, <3>1, Untouched
  <2>3. CASE q = p /\ ~Admitted(p)
    BY <1>1, <2>1, <2>3, Untouched
  <2>4. CASE q = p /\ Admitted(p) /\ seat[p] = "live"
    <3>1. down'[p] = Append(down[p], Plain("closed")) /\ seat'[p] = "dead" /\ down[p] \in Seq(Told)
      BY <1>1, <2>1, <2>4 DEF TypeOK, ConnectionOK
    <3>2. link[p] \in {"joining", "connected"} /\ ~Asks(up'[p])
      BY <1>1, <2>4 DEF ConnectionOK
    <3> QED BY <1>1, <2>1, <2>4, <3>1, <3>2, ClosedKeeps
  <2>5. CASE q = p /\ Admitted(p) /\ seat[p] # "live"
    <3>1. down'[p] = down[p] /\ seat'[p] = "dead"
      BY <1>1, <2>1, <2>5 DEF TypeOK
    <3>2. ConnectionOK(q)' BY <1>1, <2>1, <2>5, <3>1 DEF ConnectionOK
    <3>3. Follows(q)' BY <1>1, <2>1, <2>5, <3>1 DEF Follows, Ends
    <3> QED BY <3>2, <3>3
  <2> QED BY <2>2, <2>3, <2>4, <2>5
<1>3. CASE Head(late[p]) # Join
  <2>1. /\ Heard(p, Head(late[p])) \/ UNCHANGED <<game, heard, down>>
        /\ UNCHANGED <<phase, seat, closing>>
    BY <1>3 DEF ReadLate
  <2>2. CASE Heard(p, Head(late[p]))
    BY <1>1, <2>1, <2>2, HeardKeeps
  <2>3. CASE UNCHANGED <<game, heard, down>>
    BY <1>1, <2>1, <2>3, Untouched
  <2> QED BY <2>1, <2>2, <2>3
<1> QED BY <1>2, <1>3

LEMMA GatewayKeeps ==
    ASSUME ClientOK, NEW q \in Players,
           \/ Move \/ CloseRoom \/ Restart
           \/ \E p \in Players : Closed(p) \/ Idle(p)
    PROVE  ConnectionOK(q)' /\ Follows(q)'
<1>1. /\ ConnectionOK(q) /\ Follows(q) /\ RoomOK /\ TypeOK
      /\ \A p \in Players : ConnectionOK(p)
  BY DEF ClientOK
<1>2. CASE Move
  <2>1. /\ phase = "playing" /\ Advance /\ UNCHANGED <<phase, seat, link, shown, up>>
    BY <1>2 DEF Move, page
  <2> QED BY <1>1, <2>1, AdvanceFollows, AdvanceConnection
<1>3. CASE CloseRoom
  <2>1. /\ phase' = IF StillEmpty THEN "gone" ELSE phase
        /\ UNCHANGED <<game, seat, link, shown, up, down>>
    BY <1>3 DEF CloseRoom, page, wires
  <2>2. CASE ~StillEmpty
    <3>1. phase' = phase BY <2>1, <2>2
    <3> QED BY <1>1, <2>1, <3>1, Untouched
  <2>3. CASE StillEmpty
    <3>1. phase' = "gone" /\ seat[q] # "live" BY <2>1, <2>3 DEF StillEmpty
    <3>2. ConnectionOK(q)' BY <1>1, <2>1, <3>1 DEF ConnectionOK
    <3>3. Behind(phase, game) \subseteq Behind("gone", game)
      BY <1>1, BehindGrows, GamesFacts DEF TypeOK
    <3>4. Leads(shown[q], down[q], Behind("gone", game), Behind("gone", game))
      BY <1>1, <3>1, <3>3, LeadsWider DEF Follows, Ends
    <3>5. Follows(q)' BY <2>1, <3>1, <3>4 DEF Follows, Ends
    <3> QED BY <3>2, <3>5
  <2> QED BY <2>2, <2>3
<1>4. CASE Restart
  <2>1. /\ seat' = [p \in Players |-> "none"] /\ up' = [p \in Players |-> <<>>]
        /\ down' = [p \in Players |->
                      IF Attached(p) THEN Append(down[p], Plain("closed")) ELSE down[p]]
        /\ UNCHANGED <<phase, game, link, shown>>
    BY <1>4 DEF Restart, page
  <2>2. seat'[q] # "live" /\ ~Asks(up'[q]) /\ up'[q] = <<>>
    BY <2>1, HasNothing
  <2>3. CASE Attached(q)
    <3>1. down'[q] = Append(down[q], Plain("closed")) /\ link[q] \in {"joining", "connected"}
      BY <2>1, <2>3 DEF Attached
    <3> QED BY <1>1, <2>1, <2>2, <3>1, ClosedKeeps DEF ConnectionOK
  <2>4. CASE ~Attached(q)
    <3>1. down'[q] = down[q] /\ down[q] = <<>> /\ seat[q] # "live"
      BY <1>1, <2>1, <2>4 DEF Attached, ConnectionOK
    <3>2. \A k \in {"closed", "gone", "sync"} : ~Has(down'[q], k)
      BY <3>1, HasNothing
    <3>3. ConnectionOK(q)'
      BY <1>1, <2>1, <2>2, <2>4, <3>1, <3>2 DEF ConnectionOK, Attached
    <3>4. Follows(q)' BY <1>1, <2>1, <2>2, <3>1 DEF Follows, Ends
    <3> QED BY <3>3, <3>4
  <2> QED BY <2>3, <2>4
<1>5. ASSUME NEW p \in Players, Closed(p)
      PROVE  ConnectionOK(q)' /\ Follows(q)'
  <2>1. seat' = SeatAfterClose(p) /\ UNCHANGED <<phase, game, link, shown, down, up>>
    BY <1>5 DEF Closed, page
  <2>2. seat'[q] = seat[q] \/ (seat[q] # "live" /\ seat'[q] # "live")
    BY <1>1, <2>1 DEF SeatAfterClose, TypeOK
  <2>3. CASE seat'[q] = seat[q]
    BY <1>1, <2>1, <2>3, Untouched
  <2>4. CASE seat[q] # "live" /\ seat'[q] # "live"
    <3>1. ConnectionOK(q)' BY <1>1, <2>1, <2>4 DEF ConnectionOK
    <3>2. Follows(q)' BY <1>1, <2>1, <2>4 DEF Follows, Ends
    <3> QED BY <3>1, <3>2
  <2> QED BY <2>2, <2>3, <2>4
<1>6. ASSUME NEW p \in Players, Idle(p)
      PROVE  ConnectionOK(q)' /\ Follows(q)'
  <2>1. /\ seat[p] = "live" /\ seat' = [seat EXCEPT ![p] = "dead"]
        /\ up' = [up EXCEPT ![p] = <<>>]
        /\ down' = [down EXCEPT ![p] = Append(@, Plain("closed"))]
        /\ UNCHANGED <<phase, game, link, shown>>
    BY <1>6 DEF Idle, page
  <2>2. CASE q # p
    <3>1. seat'[q] = seat[q] /\ down'[q] = down[q] /\ up'[q] = up[q]
      BY <1>1, <2>1, <2>2 DEF TypeOK
    <3> QED BY <1>1, <2>1, <3>1, Untouched
  <2>3. CASE q = p
    <3>1. /\ seat'[q] = "dead" /\ down'[q] = Append(down[q], Plain("closed")) /\ up'[q] = <<>>
          /\ ~Asks(up'[q])
      BY <1>1, <2>1, <2>3, HasNothing DEF TypeOK
    <3>2. link[q] \in {"joining", "connected"} /\ down[q] \in Seq(Told)
      BY <1>1, <2>1, <2>3 DEF ConnectionOK
    <3> QED BY <1>1, <2>1, <3>1, <3>2, ClosedKeeps
  <2> QED BY <2>2, <2>3
<1> QED BY <1>2, <1>3, <1>4, <1>5, <1>6

-----------------------------------------------------------------------------
(* Steps of the page.                                                      *)

\* A page without a connection.
LEMMA Disconnected ==
    ASSUME NEW q, Follows(q), down'[q] = <<>>, seat'[q] # "live",
           link'[q] \in {"parked", "retry", "dialling", "gone"}, ~Asks(up'[q]),
           shown'[q] = shown[q], UNCHANGED <<phase, game>>, down[q] \in Seq(Downs)
    PROVE  ConnectionOK(q)' /\ Follows(q)'
<1>1. \A k \in {"closed", "gone", "sync"} : ~Has(down'[q], k)
  BY HasNothing
<1>2. <<>> \in Seq(Told) OBVIOUS
<1>3. ConnectionOK(q)' BY <1>1, <1>2 DEF ConnectionOK
<1>4. shown[q] \in Behind(phase, game) BY LeadsFrom DEF Follows
<1>5. Follows(q)' BY <1>4, LeadsNowhere DEF Follows, Ends
<1> QED BY <1>3, <1>5

LEMMA ReceiveKeeps ==
    ASSUME ClientOK, NEW p \in Players, Receive(p), NEW q \in Players
    PROVE  ConnectionOK(q)' /\ Follows(q)'
<1> DEFINE msg == Head(down[p])
<1>1. /\ ConnectionOK(q) /\ Follows(q) /\ ConnectionOK(p) /\ Follows(p) /\ RoomOK /\ TypeOK
  BY DEF ClientOK
<1>2. /\ down[p] # <<>>
      /\ shown' = [shown EXCEPT ![p] = Reducer(@, msg)]
      /\ down' = [down EXCEPT ![p] = IF msg.kind \in {"closed", "removed", "gone"} THEN <<>> ELSE Tail(@)]
      /\ up' = [up EXCEPT ![p] = IF msg.kind = "closed" THEN <<>> ELSE @]
      /\ UNCHANGED <<phase, game, seat>>
  BY DEF Receive, server
<1>3. /\ msg.kind = "closed" => Scheduled(p)
      /\ msg.kind # "closed" =>
            link' = [link EXCEPT ![p] = CASE msg.kind = "sync" -> "connected"
                                          [] msg.kind \in {"removed", "gone"} -> msg.kind
                                          [] OTHER -> @]
  BY DEF Receive
<1>4. CASE q # p
  <2>1. shown'[q] = shown[q] /\ down'[q] = down[q] /\ up'[q] = up[q] /\ seat'[q] = seat[q]
    BY <1>1, <1>2, <1>4 DEF TypeOK
  <2>2. link'[q] = link[q]
    BY <1>1, <1>3, <1>4 DEF TypeOK, Scheduled
  <2> QED BY <1>1, <1>2, <2>1, <2>2, Untouched
<1>5. CASE q = p
  <2>1. /\ down[p] \in Seq(Told) /\ down[p] \in Seq(Downs) /\ link[p] \in {"joining", "connected"}
        /\ ~Asks(up[p])
    BY <1>1, <1>2 DEF ConnectionOK, TypeOK
  <2>2. msg \in Told /\ Tail(down[p]) \in Seq(Told)
    BY <1>2, <2>1, HeadAndTail
  <2>3. \A k \in {"closed", "gone", "sync"} : Has(down[p], k) <=> Has(Tail(down[p]), k) \/ msg.kind = k
    BY <1>2, <2>1, HasLess
  <2>4. /\ Leads(Reducer(shown[p], msg), Tail(down[p]), Behind(phase, game), Ends(seat[p], phase, game))
        /\ shown[p] \in Behind(phase, game)
    BY <1>1, <1>2, <2>1, LeadsAway, LeadsFrom DEF Follows
  <2> HIDE DEF msg
  <2>5. msg.kind \in {"state", "sync", "over", "gone", "closed"} BY <2>2 DEF Told
  <2>6. /\ shown'[p] = Reducer(shown[p], msg) /\ seat'[p] = seat[p]
        /\ down'[p] = IF msg.kind \in {"closed", "gone"} THEN <<>> ELSE Tail(down[p])
        /\ up'[p] = IF msg.kind = "closed" THEN <<>> ELSE up[p]
    BY <1>1, <1>2, <2>5 DEF TypeOK
  <2>7. ~Asks(up'[p]) BY <2>1, <2>6, HasNothing
  <2>8. CASE msg.kind \in {"closed", "gone"}
    <3>1. shown'[p] = shown[p] /\ down'[p] = <<>>
      BY <2>2, <2>4, <2>6, <2>8, ReducerFacts DEF Behind
    <3>2. seat'[p] # "live"
      BY <1>1, <2>3, <2>6, <2>8 DEF ConnectionOK, RoomOK, StillEmpty
    <3>3. link'[p] \in {"parked", "retry", "gone"}
      BY <1>1, <1>3, <2>8 DEF TypeOK, Scheduled
    <3> QED BY <1>1, <1>2, <1>5, <2>1, <2>7, <3>1, <3>2, <3>3, Disconnected
  <2>9. CASE msg.kind \in {"state", "sync", "over"}
    <3>1. down'[p] = Tail(down[p]) /\ link'[p] \in {"joining", "connected"}
          /\ link'[p] = IF msg.kind = "sync" THEN "connected" ELSE link[p]
      BY <1>1, <1>3, <2>1, <2>6, <2>9 DEF TypeOK
    <3>2. \A k \in {"closed", "gone"} : Has(down'[p], k) <=> Has(down[p], k)
      BY <2>3, <2>9, <3>1
    <3>3. Has(down'[p], "sync") => Has(down[p], "sync")
      BY <2>3, <3>1
    <3>4. link'[p] = "connected" => link[p] = "connected" \/ Has(down[p], "sync")
      BY <2>3, <3>1
    <3>5. ConnectionOK(p)'
      BY <1>1, <1>2, <2>2, <2>6, <2>7, <3>1, <3>2, <3>3, <3>4 DEF ConnectionOK
    <3>6. Follows(p)' BY <1>2, <2>4, <2>6, <3>1 DEF Follows
    <3> QED BY <1>5, <3>5, <3>6
  <2> QED BY <2>5, <2>8, <2>9
<1> QED BY <1>4, <1>5

LEMMA PageKeeps ==
    ASSUME ClientOK, NEW p \in Players, NEW q \in Players,
           \/ Answer(p) \/ Aborted(p) \/ Act(p)
           \/ Drop(p) \/ Reload(p) \/ Dial(p) \/ Refused(p) \/ Resume(p)
    PROVE  ConnectionOK(q)' /\ Follows(q)'
<1>1. /\ ConnectionOK(q) /\ Follows(q) /\ ConnectionOK(p) /\ Follows(p) /\ RoomOK /\ TypeOK
  BY DEF ClientOK
<1>2. /\ down[q] \in Seq(Told) /\ down[q] \in Seq(Downs) /\ up[q] \in Seq(0 .. MaxInputs)
      /\ game \in GamesOf
  BY <1>1 DEF ConnectionOK, TypeOK
\* What does not concern q, or only its link while there is no connection.
<1>3. ASSUME UNCHANGED <<phase, game, seat, shown>>, down'[q] = down[q], up'[q] = up[q],
             \/ link'[q] = link[q]
             \/ /\ link[q] \in {"parked", "retry", "dialling"}
                /\ link'[q] \in {"parked", "retry", "dialling"}
      PROVE  ConnectionOK(q)' /\ Follows(q)'
  <2>1. CASE link'[q] = link[q]
    BY <1>1, <1>3, <2>1, Untouched
  <2>2. CASE /\ link[q] \in {"parked", "retry", "dialling"}
             /\ link'[q] \in {"parked", "retry", "dialling"}
    <3>1. down'[q] = <<>> /\ seat'[q] # "live" /\ ~Asks(up'[q]) /\ shown'[q] = shown[q]
      BY <1>1, <1>3, <2>2 DEF ConnectionOK
    <3> QED BY <1>1, <1>2, <1>3, <2>2, <3>1, Disconnected
  <2> QED BY <1>3, <2>1, <2>2
<1>4. CASE Answer(p)
  <2>1. /\ shown' = [shown EXCEPT ![p].phase = LaterPhase(shown[p])] /\ answer[p]
        /\ link' = [link EXCEPT ![p] = IF @ = "parked" THEN "dialling" ELSE @]
        /\ UNCHANGED <<phase, game, seat, down, up>>
    BY <1>4 DEF Answer, server, wires
  <2>2. CASE q # p
    <3>1. shown'[q] = shown[q] /\ link'[q] = link[q] BY <1>1, <2>1, <2>2 DEF TypeOK
    <3> QED BY <1>1, <2>1, <3>1, Untouched
  <2>3. CASE q = p
    <3>1. shown'[q] = Answered(shown[q]) /\ phase # "waiting"
      BY <1>1, <2>1, <2>3 DEF TypeOK, RoomOK, Answered
    <3>2. link'[q] = link[q] \/ (link[q] = "parked" /\ link'[q] = "dialling")
      BY <1>1, <2>1, <2>3 DEF TypeOK
    <3>3. ConnectionOK(q)'
      BY <1>1, <2>1, <3>2 DEF ConnectionOK
    <3>4. Leads(Answered(shown[q]), down[q], Behind(phase, game), Ends(seat[q], phase, game))
      <4>1. Behind(phase, game) \in SUBSET Shows BY DEF Behind
      <4>2. \A x \in Behind(phase, game) :
               /\ Answered(x) \in Behind(phase, game)
               /\ x \in Ends(seat[q], phase, game) => Answered(x) \in Ends(seat[q], phase, game)
        BY <1>2, <3>1, AnsweredStays
      <4> QED BY <1>1, <1>2, <4>1, <4>2, LeadsAnswered DEF Follows
    <3>5. Follows(q)' BY <2>1, <3>1, <3>4 DEF Follows
    <3> QED BY <3>3, <3>5
  <2> QED BY <2>2, <2>3
<1>5. CASE Aborted(p)
  BY <1>3, <1>5 DEF Aborted, server, wires
<1>6. CASE Act(p)
  <2>1. /\ UNCHANGED <<phase, game, seat, shown, link, down>>
        /\ up' = IF Attached(p) THEN [up EXCEPT ![p] = Append(@, seq[p] + 1)] ELSE up
    BY <1>6 DEF Act, server
  <2>2. CASE up'[q] = up[q]
    BY <1>3, <2>1, <2>2
  <2>3. CASE up'[q] # up[q]
    <3>1. q = p /\ Attached(p) /\ up'[q] = Append(up[q], seq[q] + 1) /\ seq[q] \in Nat
      BY <1>1, <2>1, <2>3, ClientAssumption DEF TypeOK
    <3> DEFINE n == seq[q] + 1
    <3>2. n # Join /\ up'[q] = Append(up[q], n) BY <3>1 DEF Join
    <3> HIDE DEF n
    <3>3. /\ Len(up'[q]) = Len(up[q]) + 1 /\ up'[q][Len(up[q]) + 1] = n
          /\ \A i \in 1 .. Len(up[q]) : up'[q][i] = up[q][i]
      BY <1>2, <3>2
    <3>4. \A i \in 1 .. Len(up'[q]) : up'[q][i] = Join => i \in 1 .. Len(up[q]) /\ up[q][i] = Join
      BY <1>2, <3>2, <3>3
    <3>5. Asks(up'[q]) => Asks(up[q]) BY <3>4 DEF Asks
    <3>6. ConnectionOK(q)' BY <1>1, <2>1, <3>4, <3>5 DEF ConnectionOK
    <3>7. Follows(q)' BY <1>1, <2>1 DEF Follows
    <3> QED BY <3>6, <3>7
  <2> QED BY <2>2, <2>3
<1>7. ASSUME Loses(p), UNCHANGED <<phase, game, shown>>, link' = [link EXCEPT ![p] = link'[p]],
             link'[p] \in {"parked", "retry"}
      PROVE  ConnectionOK(q)' /\ Follows(q)'
  <2>1. /\ seat' = IF seat[p] = "live" THEN [seat EXCEPT ![p] = "dead"] ELSE seat
        /\ up' = [up EXCEPT ![p] = <<>>] /\ down' = [down EXCEPT ![p] = <<>>]
    BY <1>7 DEF Loses
  <2>2. CASE q # p
    <3>1. seat'[q] = seat[q] /\ up'[q] = up[q] /\ down'[q] = down[q] /\ link'[q] = link[q]
      BY <1>1, <1>7, <2>1, <2>2 DEF TypeOK
    <3> QED BY <1>1, <1>7, <3>1, Untouched
  <2>3. CASE q = p
    <3>1. seat'[q] # "live" /\ up'[q] = <<>> /\ down'[q] = <<>> /\ ~Asks(up'[q])
      BY <1>1, <2>1, <2>3, HasNothing DEF TypeOK
    <3> QED BY <1>1, <1>2, <1>7, <2>3, <3>1, Disconnected
  <2> QED BY <2>2, <2>3
<1>8. CASE Drop(p)
  <2>1. Loses(p) /\ Scheduled(p) /\ UNCHANGED <<phase, game, shown>>
    BY <1>8 DEF Drop
  <2>2. link' = [link EXCEPT ![p] = link'[p]] /\ link'[p] \in {"parked", "retry"}
    BY <1>1, <2>1 DEF Scheduled, TypeOK
  <2> QED BY <1>7, <2>1, <2>2
<1>9. CASE Reload(p)
  <2>1. Loses(p) /\ UNCHANGED <<phase, game, shown>> /\ link' = [link EXCEPT ![p] = "parked"]
    BY <1>9 DEF Reload
  <2>2. link' = [link EXCEPT ![p] = link'[p]] /\ link'[p] \in {"parked", "retry"}
    BY <1>1, <2>1 DEF TypeOK
  <2> QED BY <1>7, <2>1, <2>2
<1>10. CASE Dial(p)
  <2>1. UNCHANGED <<phase, game, seat, shown, down>>
    BY <1>10 DEF Dial, server
  <2>2. CASE link[p] = "retry"
    <3>1. up' = up /\ link' = [link EXCEPT ![p] = "dialling"]
      BY <1>10, <2>2 DEF Dial
    <3>2. link'[q] = link[q] \/ (link[q] = "retry" /\ link'[q] = "dialling")
      BY <1>1, <2>2, <3>1 DEF TypeOK
    <3> QED BY <1>3, <2>1, <3>1, <3>2
  <2>3. CASE link[p] = "dialling"
    <3>1. up' = [up EXCEPT ![p] = <<Join>>] /\ link' = [link EXCEPT ![p] = "joining"]
      BY <1>10, <2>3 DEF Dial
    <3>2. CASE q # p
      BY <1>1, <1>3, <2>1, <3>1, <3>2 DEF TypeOK
    <3>3. CASE q = p
      <4>1. /\ link'[q] = "joining" /\ up'[q] = <<Join>> /\ down'[q] = <<>> /\ seat'[q] # "live"
        BY <1>1, <2>1, <2>3, <3>1, <3>3 DEF TypeOK, ConnectionOK
      <4>2. \A i \in 1 .. Len(up'[q]) : i = 1 BY <4>1
      <4>3. \A k \in {"closed", "gone", "sync"} : ~Has(down'[q], k)
        BY <4>1, HasNothing
      <4>4. ConnectionOK(q)' BY <1>2, <2>1, <4>1, <4>2, <4>3 DEF ConnectionOK
      <4>5. Follows(q)' BY <1>1, <2>1 DEF Follows
      <4> QED BY <4>4, <4>5
    <3> QED BY <3>2, <3>3
  <2> QED BY <1>10, <2>2, <2>3 DEF Dial
<1>11. CASE Refused(p)
  <2>1. /\ link[p] = "dialling" /\ Scheduled(p) /\ UNCHANGED <<phase, game, seat, shown, down, up>>
    BY <1>11 DEF Refused, server, wires
  <2>2. \/ link'[q] = link[q]
        \/ link[q] = "dialling" /\ link'[q] \in {"parked", "retry"}
    BY <1>1, <2>1 DEF Scheduled, TypeOK
  <2> QED BY <1>3, <2>1, <2>2
<1>12. CASE Resume(p)
  <2>1. /\ link[p] = "parked" /\ link' = [link EXCEPT ![p] = "dialling"]
        /\ UNCHANGED <<phase, game, seat, shown, down, up>>
    BY <1>12 DEF Resume, server, wires
  <2>2. link'[q] = link[q] \/ (link[q] = "parked" /\ link'[q] = "dialling")
    BY <1>1, <2>1 DEF TypeOK
  <2> QED BY <1>3, <2>1, <2>2
<1> QED BY <1>4, <1>5, <1>6, <1>8, <1>9, <1>10, <1>11, <1>12

-----------------------------------------------------------------------------
(* The room.                                                               *)

LEMMA RoomKeeps ==
    ASSUME ClientOK, Next
    PROVE  RoomOK'
<1>1. RoomOK /\ TypeOK BY DEF ClientOK
<1>2. game \in GamesOf /\ game.id \in Nat BY <1>1, GamesFacts DEF TypeOK
<1>3. CASE Move
  <2>1. game'.id = game.id /\ game'.at <= MaxMoves
    BY <1>1, <1>3, AdvanceTypes DEF Move
  <2> QED BY <1>1, <1>3, <2>1 DEF Move, RoomOK, StillEmpty, page
<1>4. CASE Finish
  <2>1. game'.id = game.id BY <1>1, <1>4, GamesFacts DEF Finish, RoomOK
  <2> QED BY <1>1, <1>4, <2>1 DEF Finish, RoomOK, page
<1>5. CASE ReturnToLobby
  BY <1>5 DEF ReturnToLobby, RoomOK, page
<1>6. CASE CloseRoom
  <2>1. phase' = IF StillEmpty THEN "gone" ELSE phase
    BY <1>6 DEF CloseRoom
  <2>2. UNCHANGED <<game, seat, answer>> BY <1>6 DEF CloseRoom, page
  <2> QED BY <1>1, <2>1, <2>2 DEF RoomOK, StillEmpty
<1>7. CASE Restart
  BY <1>1, <1>7 DEF Restart, RoomOK, page
<1>8. ASSUME NEW p \in Players, Start(p)
      PROVE  RoomOK'
  <2>1. /\ phase' = "playing" /\ game' = [id |-> (game.id + 1), at |-> 0]
    BY <1>8 DEF Start
  <2> QED BY <1>2, <2>1, ClientAssumption DEF RoomOK
<1>9. ASSUME NEW p \in Players, Read(p)
      PROVE  RoomOK'
  <2>1. CASE Head(up[p]) = Join
    <3>1. /\ UNCHANGED <<phase, game, answer>>
          /\ seat' = IF Admitted(p) THEN [seat EXCEPT ![p] = "live"] ELSE seat
      BY <1>9, <2>1 DEF Read, HandleJoin, page
    <3>2. phase = "gone" => ~Admitted(p)
      BY <1>1, ReplyTypes DEF Admitted
    <3> QED BY <1>1, <3>1, <3>2 DEF RoomOK, StillEmpty
  <2>2. CASE Head(up[p]) # Join
    <3>1. Heard(p, Head(up[p])) /\ UNCHANGED <<phase, seat, answer>>
      BY <1>9, <2>2 DEF Read, page
    <3>2. game' = game \/ (phase = "playing" /\ Advance)
      BY <3>1 DEF Heard
    <3>3. game'.id = game.id /\ (phase = "playing" => game'.at <= MaxMoves)
      BY <1>1, <3>2, AdvanceTypes DEF RoomOK
    <3> QED BY <1>1, <3>1, <3>3 DEF RoomOK, StillEmpty
  <2> QED BY <2>1, <2>2
<1>10. ASSUME NEW p \in Players, ReadLate(p)
       PROVE  RoomOK'
  <2>1. CASE Head(late[p]) = Join
    <3>1. /\ UNCHANGED <<phase, game, answer>>
          /\ seat' = IF Admitted(p) THEN [seat EXCEPT ![p] = "dead"] ELSE seat
      BY <1>10, <2>1 DEF ReadLate, page
    <3>2. phase = "gone" => ~Admitted(p)
      BY <1>1, ReplyTypes DEF Admitted
    <3> QED BY <1>1, <3>1, <3>2 DEF RoomOK, StillEmpty
  <2>2. CASE Head(late[p]) # Join
    <3>1. /\ Heard(p, Head(late[p])) \/ game' = game
          /\ UNCHANGED <<phase, seat, answer>>
      BY <1>10, <2>2 DEF ReadLate, page
    <3>2. game' = game \/ (phase = "playing" /\ Advance)
      BY <3>1 DEF Heard
    <3>3. game'.id = game.id /\ (phase = "playing" => game'.at <= MaxMoves)
      BY <1>1, <3>2, AdvanceTypes DEF RoomOK
    <3> QED BY <1>1, <3>1, <3>3 DEF RoomOK, StillEmpty
  <2> QED BY <2>1, <2>2
<1>11. ASSUME NEW p \in Players, Closed(p)
       PROVE  RoomOK'
  <2>1. seat' = SeatAfterClose(p) /\ UNCHANGED <<phase, game, answer>>
    BY <1>11 DEF Closed, page
  <2>2. phase = "gone" => seat' = seat
    BY <1>1, <2>1 DEF SeatAfterClose, RoomOK, StillEmpty
  <2> QED BY <1>1, <2>1, <2>2 DEF RoomOK, StillEmpty
<1>12. ASSUME NEW p \in Players, Idle(p)
       PROVE  RoomOK'
  <2>1. seat[p] = "live" /\ UNCHANGED <<phase, game, answer>>
    BY <1>12 DEF Idle, page
  <2> QED BY <1>1, <2>1 DEF RoomOK, StillEmpty
<1>13. ASSUME NEW p \in Players,
              \/ Receive(p) \/ Answer(p) \/ Aborted(p) \/ Act(p)
              \/ Drop(p) \/ Reload(p) \/ Dial(p) \/ Refused(p) \/ Resume(p)
       PROVE  RoomOK'
  <2>1. UNCHANGED <<phase, game>>
    BY <1>13 DEF Receive, Answer, Aborted, Act, Drop, Reload, Dial, Refused, Resume, server
  <2>2. seat' = seat \/ (seat[p] = "live" /\ seat' = [seat EXCEPT ![p] = "dead"])
    BY <1>13 DEF Receive, Answer, Aborted, Act, Drop, Reload, Dial, Refused, Resume, server, Loses
  <2>3. answer' = answer \/ answer' = [answer EXCEPT ![p] = FALSE]
    BY <1>13 DEF Receive, Answer, Aborted, Act, Drop, Reload, Dial, Refused, Resume, server
  <2>4. \A q \in Players : answer'[q] => answer[q]
    BY <1>1, <2>3 DEF TypeOK
  <2> QED BY <1>1, <2>1, <2>2, <2>4 DEF RoomOK, StillEmpty
<1> QED BY <1>3, <1>4, <1>5, <1>6, <1>7, <1>8, <1>9, <1>10, <1>11, <1>12, <1>13
        DEF Next, Gateway, Pages

-----------------------------------------------------------------------------
(* The theorems.                                                           *)

LEMMA InitIsOK == Init => ClientOK
<1> SUFFICES ASSUME Init PROVE ClientOK
  OBVIOUS
<1>1. /\ phase = "waiting" /\ game = NoGame
      /\ NoGame \in GamesOf /\ NoGame.id = 0
  BY GamesFacts DEF Init, NoGame
<1>2. TypeOK
  <2>1. [phase |-> "waiting", game |-> NoGame] \in Screens
    BY <1>1 DEF Screens, Phases
  <2>2. /\ shown \in [Players -> Screens]
        /\ down \in [Players -> Seq(Downs)]
        /\ up \in [Players -> Seq(0 .. MaxInputs)] /\ late \in [Players -> Seq(0 .. MaxInputs)]
    <3>1. <<>> \in Seq(Downs) /\ <<>> \in Seq(0 .. MaxInputs) OBVIOUS
    <3> QED BY <2>1, <3>1 DEF Init
  <2>3. /\ heard \in [Players -> 0 .. MaxInputs] /\ seq \in [Players -> 0 .. MaxInputs]
        /\ tries \in [Players -> 0 .. MaxAttempts]
    BY ClientAssumption DEF Init
  <2>4. /\ seat \in [Players -> {"none", "offline", "dead", "live"}]
        /\ link \in [Players -> {"parked", "retry", "dialling", "joining", "connected",
                                 "removed", "gone"}]
    BY DEF Init
  <2>5. /\ closing \in BOOLEAN /\ answer \in [Players -> BOOLEAN] /\ lost \in [Players -> BOOLEAN]
    BY DEF Init
  <2> QED BY <1>1, <2>2, <2>3, <2>4, <2>5 DEF TypeOK, Phases
<1>3. RoomOK BY <1>1 DEF Init, RoomOK
<1>4. ASSUME NEW p \in Players
      PROVE  ConnectionOK(p) /\ Follows(p)
  <2>1. /\ seat[p] = "none" /\ link[p] = "dialling" /\ down[p] = <<>> /\ up[p] = <<>>
        /\ shown[p] = [phase |-> "waiting", game |-> NoGame]
    BY DEF Init
  <2>2. ConnectionOK(p)
    <3>1. /\ <<>> \in Seq(Told) /\ ~Asks(<<>>) /\ ~Has(<<>>, "closed")
          /\ ~Has(<<>>, "gone") /\ ~Has(<<>>, "sync")
      BY HasNothing
    <3> QED BY <2>1, <3>1 DEF ConnectionOK
  <2>3. shown[p] \in Behind("waiting", NoGame)
    BY <1>1, <2>1 DEF Behind, Shows
  <2>4. Ends("none", "waiting", NoGame) = Behind("waiting", NoGame)
    BY DEF Ends
  <2>5. Follows(p)
    BY <1>1, <2>1, <2>3, <2>4, LeadsNowhere DEF Follows
  <2> QED BY <2>2, <2>5
<1> QED BY <1>2, <1>3, <1>4 DEF ClientOK

LEMMA NextIsOK == ClientOK /\ [Next]_vars => ClientOK'
<1> SUFFICES ASSUME ClientOK, [Next]_vars PROVE ClientOK'
  OBVIOUS
<1>1. CASE UNCHANGED vars
  BY <1>1 DEF vars, server, page, wires, ClientOK, TypeOK, RoomOK, StillEmpty,
              ConnectionOK, Follows
<1>2. CASE Next
  <2>1. TypeOK /\ RoomOK BY DEF ClientOK
  <2>2. TypeOK'
    BY <1>2, <2>1, GatewayTypes, PlayerTypes, PageTypes DEF Next, Gateway, Pages
  <2>3. RoomOK' BY <1>2, RoomKeeps
  <2>4. ASSUME NEW q \in Players
        PROVE  ConnectionOK(q)' /\ Follows(q)'
    BY <1>2, StartKeeps, FinishKeeps, ReturnKeeps, ReadKeeps, ReadLateKeeps, GatewayKeeps,
       ReceiveKeeps, PageKeeps DEF Next, Gateway, Pages
  <2> QED BY <2>2, <2>3, <2>4 DEF ClientOK
<1> QED BY <1>1, <1>2

\* The invariant holds for any number of players, games, moves and faults.
THEOREM ClientIsOK == Spec => []ClientOK
BY InitIsOK, NextIsOK, PTL DEF Spec

LEMMA QuietFollows == ClientOK => ScreenFollows
<1> SUFFICES ASSUME ClientOK, NEW p \in Players, Quiet(p)
             PROVE  /\ seat[p] = "live" /\ shown[p].phase = phase
                    /\ phase # "finished" => shown[p].game = Stored
  BY DEF ScreenFollows, ClientOK
<1>1. ConnectionOK(p) /\ Follows(p) /\ link[p] = "connected" /\ down[p] = <<>>
  BY DEF ClientOK, Quiet
<1>2. seat[p] = "live" BY <1>1, HasNothing DEF ConnectionOK
<1>3. shown[p] \in Current(phase, game)
  BY <1>1, <1>2, LeadsNowhere DEF Follows, Ends
<1>4. phase # "finished" => Stored = IF phase = "playing" THEN game ELSE NoGame
  BY DEF Stored
<1> QED BY <1>2, <1>3, <1>4 DEF Current

\* A connected page has the seat of its socket, and shows the room when nothing is
\* under way to it (realtimeHandlers.ts, RoomLifecycle): whatever was lost, came late or
\* came twice.
THEOREM FollowsAlways == Spec => []ScreenFollows
BY ClientIsOK, QuietFollows, PTL

\* Nobody of the roster is told that the game has begun without them (handleRoomJoin).
THEOREM TurnedAwayNever == Spec => []NobodyTurnedAway
<1>1. ClientOK => NobodyTurnedAway
  BY DEF ClientOK, ConnectionOK, NobodyTurnedAway
<1> QED BY <1>1, ClientIsOK, PTL

LEMMA ResultStays ==
    ASSUME ClientOK, [Next]_vars, NEW p \in Players
    PROVE  Later(shown[p], shown'[p])
<1>1. Follows(p) /\ TypeOK /\ shown[p] \in Shows
  <2>1. Follows(p) /\ TypeOK BY DEF ClientOK
  <2>2. down[p] \in Seq(Downs) BY <2>1 DEF TypeOK
  <2> QED BY <2>1, <2>2, LeadsFrom, ShowsAreTyped DEF Follows
<1>2. CASE shown'[p] = shown[p]
  BY <1>2 DEF Later
<1>3. CASE \E q \in Players : Receive(q)
  <2>1. PICK q \in Players : Receive(q) BY <1>3
  <2>2. shown' = [shown EXCEPT ![q] = Reducer(@, Head(down[q]))] /\ down[q] # <<>>
    BY <2>1 DEF Receive
  <2>3. CASE q = p
    <3>1. shown'[p] = Reducer(shown[p], Head(down[p])) BY <1>1, <2>2, <2>3 DEF TypeOK
    <3>2. down[p] \in Seq(Downs) BY <1>1 DEF TypeOK
    <3>3. Later(shown[p], Reducer(shown[p], Head(down[p])))
      BY <1>1, <2>2, <2>3, <3>2, LeadsAway DEF Follows
    <3> QED BY <3>1, <3>3
  <2>4. CASE q # p
    BY <1>1, <1>2, <2>2, <2>4 DEF TypeOK
  <2> QED BY <2>3, <2>4
<1>4. CASE \E q \in Players : Answer(q)
  <2>1. PICK q \in Players : shown' = [shown EXCEPT ![q].phase = LaterPhase(shown[q])]
    BY <1>4 DEF Answer
  <2>2. CASE q = p
    <3>1. shown'[p] = Answered(shown[p]) BY <1>1, <2>1, <2>2 DEF TypeOK, Answered
    <3> QED BY <1>1, <3>1, AnsweredFacts DEF Later
  <2>3. CASE q # p
    BY <1>1, <1>2, <2>1, <2>3 DEF TypeOK
  <2> QED BY <2>2, <2>3
<1>5. \/ shown' = shown
      \/ \E q \in Players : Receive(q) \/ Answer(q)
  BY DEF Next, Gateway, Pages, Move, Finish, ReturnToLobby, CloseRoom, Restart, Start, Read,
         ReadLate, Closed, Idle, Aborted, Act, Drop, Reload, Dial, Refused, Resume,
         vars, server, page
<1> QED BY <1>2, <1>3, <1>4, <1>5

\* A page leaves a result for a game only when that is a later one (keepGameState,
\* preserveRealtimeGame).
THEOREM ResultsAreFinal == Spec => ResultIsFinal
<1>1. ClientOK /\ [Next]_vars
        => [\A p \in Players :
              shown[p].phase = "finished" /\ shown'[p].phase = "playing"
                => shown'[p].game.id > shown[p].game.id]_vars
  BY ResultStays DEF Later
<1> QED BY <1>1, ClientIsOK, PTL DEF Spec, ResultIsFinal

=============================================================================
