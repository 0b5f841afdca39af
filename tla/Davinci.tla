------------------------------ MODULE Davinci ------------------------------
(***************************************************************************)
(* Da Vinci Code in a room: the rules (davinciRules, TurnFlow, Tiles,      *)
(* Setup), the deadline of each step, leaving, and the settlement of the    *)
(* scores (src/backend/src/game/davinci).                                   *)
(*                                                                          *)
(* A tile is a number that says how it sorts: 2k is the black k, 2k + 1 the *)
(* white k, the negative ones are jokers.  The order of the deck is not     *)
(* observed before a tile is drawn, so that the deck is a set and drawing   *)
(* picks any member.                                                        *)
(***************************************************************************)
EXTENDS GameRoom, Sequences, SequencesExt

CONSTANTS
    Tiles,           \* DAVINCI_TILES
    HandSizeFew, HandSizeMany, ManyPlayers

Jokers == {t \in Tiles : t < 0}
Numbered == Tiles \ Jokers
NoTile == 1000

ASSUME DavinciAssumption ==
    /\ Tiles \subseteq Int \ {NoTile} /\ IsFiniteSet(Tiles)
    /\ HandSizeFew \in Nat \ {0} /\ HandSizeMany \in Nat \ {0}
    /\ ManyPlayers \in Nat

VARIABLES
    game,      \* the state in the store, NoGame when there is none
    shown      \* tiles that are revealed

davinciVars == <<game, shown>>

-----------------------------------------------------------------------------
(* Tiles and hands.                                                        *)

NumberOf(t) == IF t < 0 THEN -1 ELSE t \div 2

BeforeFirstLarger(hand, t) ==   \* mutant: a joker counts as a small number
    LET below == {i \in DOMAIN hand : hand[i] <= t}
    IN  IF below = {} THEN 1 ELSE Cardinality(below) + 1

\* insertIndexOf: behind the last numbered tile that does not sort after it.
PlaceFor(hand, t) ==
    LET below == {i \in DOMAIN hand : hand[i] >= 0 /\ hand[i] <= t}
    IN  IF below = {} THEN 1 ELSE Max(below) + 1

NoGame == [step |-> "NONE", turn |-> Nobody, hands |-> <<>>, deck |-> {},
           drawn |-> NoTile, out |-> {}, winner |-> Nobody, hits |-> <<>>]

Seated(g) == DOMAIN g.hands
Alive(g) == Seated(g) \ g.out
Hidden(g, seen, p) == {t \in Range(g.hands[p]) : t \notin seen}
Live == game.step \notin {"NONE", "FINISHED"}

\* The next seat around the table that is still in the game.
NextSeat(p, alive) ==
    LET after == {q \in alive : q > p}
    IN  IF after # {} THEN Min(after) ELSE Min(alive)

HandSize(n) == IF n >= ManyPlayers THEN HandSizeMany ELSE HandSizeFew

Ascending(n) ==
    {hand \in [1 .. n -> Numbered] : \A i, j \in 1 .. n : i < j => hand[i] < hand[j]}

\* The hands hold no jokers at the start.
Deals(who) ==
    {h \in [who -> Ascending(HandSize(Cardinality(who)))] :
        \A p, q \in who : p # q => Range(h[p]) \cap Range(h[q]) = {}}

Draws(deck) == IF deck = {} THEN {NoTile} ELSE deck

\* advance: every state in which the next turn may begin, or the end.
Advanced(g, seen) ==
    LET out == IF Hidden(g, seen, g.turn) = {} THEN g.out \cup {g.turn} ELSE g.out
        alive == Seated(g) \ out
    IN  IF Cardinality(alive) <= 1
        THEN {[g EXCEPT !.step = "FINISHED", !.out = out,
                        !.winner = IF alive = {} THEN Nobody ELSE Min(alive)]}
        ELSE {[g EXCEPT !.step = "GUESSING", !.out = out,
                        !.turn = NextSeat(@, alive),
                        !.deck = @ \ {t}, !.drawn = t] : t \in Draws(g.deck)}

Inserted(g, at) ==
    [g EXCEPT !.hands[g.turn] = InsertAt(@, at, g.drawn), !.drawn = NoTile]

\* What concludeTurn reveals: the drawn tile, or the leftmost hidden one when
\* the deck is exhausted.
Revealed(g, seen, reveal) ==
    IF ~reveal THEN {}
    ELSE IF g.drawn # NoTile THEN {g.drawn}
    ELSE LET hand == g.hands[g.turn]
             hidden == {i \in DOMAIN hand : hand[i] \notin seen}
         IN  IF hidden = {} THEN {} ELSE {hand[Min(hidden)]}

\* concludeTurn: a drawn joker waits for its place, anything else ends the turn.
Concluded(g, seen) ==
    IF g.drawn = NoTile THEN Advanced(g, seen)
    ELSE IF g.drawn \in Jokers THEN {[g EXCEPT !.step = "PLACING"]}
    ELSE Advanced(Inserted(g, PlaceFor(g.hands[g.turn], g.drawn)), seen)

ScoreOf(g, seen, p) == g.hits[p] + Cardinality(Hidden(g, seen, p))

-----------------------------------------------------------------------------
(* The handlers.                                                           *)

InitDavinci == game = NoGame /\ shown = {}

\* initialize only sets a new key.
DavinciStart ==
    /\ code = "davinci_code" /\ game = NoGame
    /\ StartRoom("current")
    /\ \E h \in Deals(roster) :
         LET deck == Tiles \ UNION {Range(h[p]) : p \in roster} IN
         \E t \in Draws(deck) :
            game' = [NoGame EXCEPT
                       !.step = "GUESSING", !.turn = Min(roster), !.hands = h,
                       !.deck = deck \ {t}, !.drawn = t,
                       !.hits = [p \in roster |-> 0]]
    /\ shown' = {}

\* changed: the deadline follows the state, or the game is settled.
DavinciChanged ==
    IF game'.step # "FINISHED" THEN GoesOn("current")
    ELSE Ends([p \in Seated(game') |-> ScoreOf(game', shown', p)])

\* What may be named: a hidden tile of somebody who is still in the game.
Nameable(target) == Hidden(game, shown, target)

Guess(p) ==
    /\ game.step = "GUESSING" /\ game.turn = p
    /\ \E target \in Alive(game) \ {p} : \E t \in Nameable(target) :
       \E number \in {NumberOf(u) : u \in Tiles} :
         IF number # NumberOf(t)
         THEN /\ shown' = shown \cup Revealed(game, shown, TRUE)
              /\ game' \in Concluded(game, shown')
         ELSE LET out == IF Hidden(game, shown \cup {t}, target) = {}
                         THEN game.out \cup {target} ELSE game.out
                  alive == Seated(game) \ out
              IN  /\ shown' = shown \cup {t}
                  /\ game' = [game EXCEPT
                        !.out = out, !.hits[p] = @ + 1,
                        !.step = IF Cardinality(alive) <= 1 THEN "FINISHED"
                                 ELSE "DECIDING",
                        !.winner = IF Cardinality(alive) <= 1 THEN Min(alive)
                                   ELSE @]
    /\ Fixed /\ roster' = roster /\ DavinciChanged

Continue(p) ==
    /\ game.step = "DECIDING" /\ game.turn = p
    /\ game' = [game EXCEPT !.step = "GUESSING"]
    /\ UNCHANGED shown
    /\ Fixed /\ roster' = roster /\ DavinciChanged

Stop(p) ==
    /\ game.step = "DECIDING" /\ game.turn = p
    /\ game' \in Concluded(game, shown)
    /\ UNCHANGED shown
    /\ Fixed /\ roster' = roster /\ DavinciChanged

Place(p) ==
    /\ game.step = "PLACING" /\ game.turn = p
    /\ \E at \in 1 .. Len(game.hands[p]) + 1 :
         game' \in Advanced(Inserted(game, at), shown)
    /\ UNCHANGED shown
    /\ Fixed /\ roster' = roster /\ DavinciChanged

\* The deadline: a guess fails, a decision stops, a joker goes to the end.
DavinciDeadline ==
    /\ code = "davinci_code" /\ Fires /\ Fixed /\ roster' = roster
    /\ IF timer = "stale" \/ ~Live
       THEN FiresStale /\ UNCHANGED davinciVars
       ELSE /\ shown' = shown \cup Revealed(game, shown, game.step = "GUESSING")
            /\ game' \in
                 IF game.step # "PLACING" THEN Concluded(game, shown')
                 ELSE Advanced(Inserted(game, Len(game.hands[game.turn]) + 1), shown)
            /\ DavinciChanged

StaysInTurn(p) ==   \* mutant: the turn of a leaver is left to the deadline
    IF ~Live \/ p \notin Alive(game)
    THEN UNCHANGED <<phase, timer, game, shown>> /\ scores' = Remaining
    ELSE LET g == [game EXCEPT !.out = @ \cup {p}] IN
         /\ shown' = shown \cup Range(game.hands[p])
         /\ game' = IF Cardinality(Alive(g)) > 1 THEN g
                    ELSE [g EXCEPT !.step = "FINISHED", !.winner = Min(Alive(g))]
         /\ DavinciChanged

\* forfeit: everything of the leaver is revealed; a drawn tile is lost.
Forfeited(p) ==
    IF ~Live \/ p \notin Alive(game)
    THEN UNCHANGED <<phase, timer, game, shown>> /\ scores' = Remaining
    ELSE LET g == [game EXCEPT !.out = @ \cup {p}]
             alive == Alive(g)
         IN  /\ shown' = shown \cup Range(game.hands[p])
             /\ IF Cardinality(alive) <= 1
                THEN game' = [g EXCEPT !.step = "FINISHED",
                                       !.winner = IF alive = {} THEN Nobody ELSE Min(alive)]
                ELSE IF game.turn # p THEN game' = g
                ELSE game' \in Advanced([g EXCEPT !.drawn = NoTile], shown')
             /\ DavinciChanged

\* DELETE players/me takes the seat in the roster, then forfeits; room.leave on
\* the socket only forfeits.
DavinciLeave(p) ==
    /\ code = "davinci_code" /\ p \in roster /\ phase = "PLAYING" /\ Fixed
    /\ roster' \in {roster \ {p}, roster}
    /\ Forfeited(p)

DavinciReset == code = "davinci_code" /\ ReturnRoom /\ game' = NoGame /\ shown' = {}
DavinciClose == code = "davinci_code" /\ CloseRoom /\ game' = NoGame /\ shown' = {}

DavinciRestart ==
    code = "davinci_code" /\ RestartRoom(Live, "current") /\ UNCHANGED davinciVars

DavinciNext ==
    \/ DavinciStart \/ DavinciDeadline
    \/ DavinciReset \/ DavinciClose \/ DavinciRestart
    \/ \E p \in Players :
         Guess(p) \/ Continue(p) \/ Stop(p) \/ Place(p) \/ DavinciLeave(p)

-----------------------------------------------------------------------------
(* What the game promises.                                                 *)

\* The type of the game: whose turn it is has a seat.
DavinciTypeOK ==
    /\ DOMAIN game = DOMAIN NoGame
    /\ game.turn \in Seated(game) \cup {Nobody}
    /\ \A p \in Seated(game) : game.hands[p] \in Seq(Tiles)
    /\ game.drawn \in Tiles \cup {NoTile}
    /\ shown \subseteq Tiles

InHands == UNION {Range(game.hands[p]) : p \in Seated(game)}

\* No tile is in two places, and none disappears except the one a leaver was
\* holding: dealing, drawing, inserting and forfeiting move tiles one by one.
TilesAreKept ==
    game # NoGame =>
      /\ \A p, q \in Seated(game) :
           p # q => Range(game.hands[p]) \cap Range(game.hands[q]) = {}
      /\ \A p \in Seated(game) : Cardinality(Range(game.hands[p])) = Len(game.hands[p])
      /\ game.deck \cap InHands = {} /\ game.drawn \notin InHands \cup game.deck
      /\ Cardinality(Tiles \ (InHands \cup game.deck \cup {game.drawn}))
           <= Cardinality(Seated(game) \ Alive(game))

\* The numbered tiles of a hand ascend, the black one first, wherever the
\* jokers were put: the order is the clue that everybody reads.
HandsAscend ==
    \A p \in Seated(game) :
      LET hand == game.hands[p] IN
      \A i, j \in DOMAIN hand : i < j /\ hand[i] >= 0 /\ hand[j] >= 0 => hand[i] < hand[j]

\* The hands are what was dealt and drawn, in order.
HandsAreKept == TilesAreKept /\ HandsAscend

\* A player is out exactly when nothing of theirs is hidden: by the guesses of
\* others, by their own mistakes on an empty deck, or by leaving.
OutIsAllRevealed ==
    \A p \in Seated(game) : p \in game.out <=> Hidden(game, shown, p) = {}

\* While the game runs, two players are in it and one of them has the turn;
\* when it has ended one is left, who won.
TurnOfTheLiving ==
    /\ Live => /\ Cardinality(Alive(game)) >= 2
               /\ game.turn \in Alive(game) \cap roster
    /\ game.step = "FINISHED" => Alive(game) = {game.winner}

\* Who is in the game, whose turn it is and who has won follow from what is revealed.
LivingPlay == RoomTypeOK /\ DavinciTypeOK /\ OutIsAllRevealed /\ TurnOfTheLiving

\* Whatever the players do or do not do, the deadlines end the game: the deck
\* runs out, and then every missed turn reveals a tile.
DavinciEnds == (code = "davinci_code" /\ phase = "PLAYING") ~> phase # "PLAYING"

=============================================================================
