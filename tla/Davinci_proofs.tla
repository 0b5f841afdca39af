-------------------------- MODULE Davinci_proofs --------------------------
(***************************************************************************)
(* What holds of every game of Da Vinci Code, whatever the tiles and the    *)
(* hands: tiles are moved and never copied or lost, the hands stay sorted,  *)
(* who is out has nothing hidden, and the turn is with the living.  The     *)
(* first part is about hands as sequences, the second about the rules, the  *)
(* third about the handlers.                                                *)
(***************************************************************************)
EXTENDS Games_proofs, WellFoundedInduction

-----------------------------------------------------------------------------
(* Minima, maxima and hands.                                               *)

\* Seats and places are natural numbers, which have a least one.
LEMMA LeastOf ==
    ASSUME NEW S \in SUBSET Nat, S # {}
    PROVE  Min(S) \in S /\ \A y \in S : Min(S) <= y
  <1> DEFINE R == OpToRel(<, Nat)
  <1>1. IsWellFoundedOn(R, Nat)
    BY NatLessThanWellFounded
  <1>2. \A x, y \in Nat : <<x, y>> \in R <=> x < y
    BY DEF OpToRel
  <1> HIDE DEF R
  <1>3. PICK x \in S : \A y \in S : ~(<<y, x>> \in R)
    BY <1>1, WFMin
  <1>4. ASSUME NEW y \in S
        PROVE  x <= y
    <2>1. x \in Nat /\ y \in Nat /\ ~(<<y, x>> \in R)
      BY <1>3
    <2>2. ~(y < x)
      BY <1>2, <2>1
    <2> QED BY <2>1, <2>2
  <1> QED BY <1>3, <1>4 DEF Min

\* Of the places in a hand there is a last one.
LEMMA GreatestOf ==
    ASSUME NEW n \in Nat, NEW S \in SUBSET (1 .. n), S # {}
    PROVE  Max(S) \in S /\ \A y \in S : y <= Max(S)
  <1> DEFINE T == {n - x : x \in S}
  <1>1. T \in SUBSET Nat /\ T # {}
    <2>1. \A x \in S : n - x \in Nat
      OBVIOUS
    <2> QED BY <2>1
  <1>2. PICK y \in T : \A z \in T : y <= z
    BY <1>1, LeastOf
  <1>3. PICK x \in S : y = n - x
    BY <1>2
  <1>4. \A z \in S : z <= x
    <2> SUFFICES ASSUME NEW z \in S PROVE z <= x
      OBVIOUS
    <2>1. n - z \in T
      OBVIOUS
    <2>2. n - x <= n - z
      BY <1>2, <1>3, <2>1
    <2> QED BY <2>2
  <1> QED BY <1>4 DEF Max

\* A hand with one more tile.
LEMMA InsertAtFacts ==
    ASSUME NEW hand \in Seq(Tiles), NEW t \in Tiles, NEW at \in 1 .. Len(hand) + 1
    PROVE  LET new == InsertAt(hand, at, t) IN
           /\ new \in Seq(Tiles) /\ Len(new) = Len(hand) + 1
           /\ \A i \in 1 .. Len(new) :
                new[i] = IF i < at THEN hand[i] ELSE IF i = at THEN t ELSE hand[i - 1]
           /\ Range(new) = Range(hand) \cup {t}
  <1> DEFINE front == SubSeq(hand, 1, at - 1)
             back == SubSeq(hand, at, Len(hand))
             new == front \o <<t>> \o back
  <1>1. /\ front \in Seq(Tiles) /\ Len(front) = at - 1
        /\ \A i \in 1 .. at - 1 : front[i] = hand[i]
    OBVIOUS
  <1>2. /\ back \in Seq(Tiles) /\ Len(back) = Len(hand) - at + 1
        /\ \A i \in 1 .. Len(hand) - at + 1 : back[i] = hand[at + i - 1]
    OBVIOUS
  <1> HIDE DEF front, back
  <1>3. new \in Seq(Tiles) /\ Len(new) = Len(hand) + 1
    BY <1>1, <1>2
  <1>4. ASSUME NEW i \in 1 .. Len(new)
        PROVE  new[i] = IF i < at THEN hand[i] ELSE IF i = at THEN t ELSE hand[i - 1]
    <2>1. CASE i < at
      BY <1>1, <1>2, <1>3, <2>1
    <2>2. CASE i = at
      BY <1>1, <1>2, <1>3, <2>2
    <2>3. CASE i > at
      <3>1. new[i] = back[i - at]
        BY <1>1, <1>2, <1>3, <2>3
      <3>2. i - at \in 1 .. Len(hand) - at + 1
        BY <1>3, <2>3
      <3> QED BY <1>2, <2>3, <3>1, <3>2
    <2> QED BY <2>1, <2>2, <2>3
  <1> HIDE DEF new
  <1>5. Range(new) = Range(hand) \cup {t}
    <2>1. ASSUME NEW x \in Range(new)
          PROVE  x \in Range(hand) \cup {t}
      <3>1. PICK i \in 1 .. Len(new) : x = new[i]
        BY <1>3 DEF Range
      <3>2. \/ i < at /\ x = hand[i] /\ i \in 1 .. Len(hand)
            \/ x = t
            \/ i > at /\ x = hand[i - 1] /\ i - 1 \in 1 .. Len(hand)
        BY <1>3, <1>4, <3>1
      <3> QED BY <3>2 DEF Range
    <2>2. ASSUME NEW x \in Range(hand)
          PROVE  x \in Range(new)
      <3>1. PICK i \in 1 .. Len(hand) : x = hand[i]
        BY DEF Range
      <3>2. CASE i < at
        <4>1. new[i] = x /\ i \in 1 .. Len(new)
          BY <1>3, <1>4, <3>1, <3>2
        <4> QED BY <1>3, <4>1 DEF Range
      <3>3. CASE i >= at
        <4>1. i + 1 \in 1 .. Len(new) /\ i + 1 > at /\ (i + 1) - 1 = i
          BY <1>3, <3>3
        <4>2. new[i + 1] = x
          BY <1>4, <3>1, <4>1
        <4> QED BY <1>3, <4>1, <4>2 DEF Range
      <3> QED BY <3>2, <3>3
    <2>3. t \in Range(new)
      <3>1. new[at] = t /\ at \in 1 .. Len(new)
        BY <1>3, <1>4
      <3> QED BY <1>3, <3>1 DEF Range
    <2> QED BY <2>1, <2>2, <2>3
  <1>6. InsertAt(hand, at, t) = new
    BY DEF InsertAt, new, front, back
  <1> QED BY <1>3, <1>4, <1>5, <1>6

\* The numbered tiles of a hand ascend.
Ordered(hand) ==
    \A i, j \in DOMAIN hand : i < j /\ hand[i] >= 0 /\ hand[j] >= 0 => hand[i] < hand[j]

\* A joker may go anywhere, a numbered tile has its place.
LEMMA StaysOrdered ==
    ASSUME NEW hand \in Seq(Tiles), Ordered(hand), NEW t \in Tiles, t \notin Range(hand),
           NEW at, (t \in Jokers /\ at \in 1 .. Len(hand) + 1) \/ at = PlaceFor(hand, t)
    PROVE  at \in 1 .. Len(hand) + 1 /\ Ordered(InsertAt(hand, at, t))
  <1>1. Tiles \subseteq Int
    BY DavinciAssumption
  <1> DEFINE below == {i \in DOMAIN hand : hand[i] >= 0 /\ hand[i] <= t}
  <1>2. /\ DOMAIN hand = 1 .. Len(hand) /\ Len(hand) \in Nat
        /\ \A i \in 1 .. Len(hand) : hand[i] \in Int /\ hand[i] # t
    <2>1. DOMAIN hand = 1 .. Len(hand) /\ Len(hand) \in Nat
      OBVIOUS
    <2>2. ASSUME NEW i \in 1 .. Len(hand)
          PROVE  hand[i] \in Tiles /\ hand[i] # t
      BY <2>1 DEF Range
    <2> QED BY <1>1, <2>1, <2>2
  <1>3. /\ at \in 1 .. Len(hand) + 1
        /\ t \notin Jokers => \A i \in 1 .. Len(hand) : hand[i] >= 0 => (hand[i] < t <=> i < at)
    <2>1. CASE t \in Jokers /\ at \in 1 .. Len(hand) + 1
      BY <2>1
    <2>2. CASE at = PlaceFor(hand, t) /\ below = {}
      <3>1. at = 1
        BY <2>2 DEF PlaceFor
      <3>2. \A i \in 1 .. Len(hand) : hand[i] >= 0 => ~(hand[i] < t)
        BY <1>1, <1>2, <2>2
      <3> QED BY <1>2, <3>1, <3>2
    <2>3. CASE at = PlaceFor(hand, t) /\ below # {}
      <3>1. at = Max(below) + 1
        BY <2>3 DEF PlaceFor
      <3>2. below \in SUBSET (1 .. Len(hand))
        BY <1>2
      <3>3. Max(below) \in below /\ \A i \in below : i <= Max(below)
        BY <1>2, <2>3, <3>2, GreatestOf
      <3>4. PICK m : m = Max(below)
        OBVIOUS
      <3>5. /\ m \in 1 .. Len(hand) /\ at = m + 1 /\ hand[m] >= 0 /\ hand[m] <= t
            /\ \A i \in 1 .. Len(hand) : hand[i] >= 0 /\ hand[i] <= t => i <= m
        BY <1>2, <3>1, <3>3, <3>4
      <3>6. \A i \in 1 .. Len(hand) : i < m /\ hand[i] >= 0 => hand[i] < hand[m]
        BY <1>2, <3>5 DEF Ordered
      <3> QED BY <1>1, <1>2, <3>5, <3>6
    <2> QED BY <2>1, <2>2, <2>3
  <1> DEFINE new == InsertAt(hand, at, t)
  <1>4. /\ new \in Seq(Tiles) /\ Len(new) = Len(hand) + 1
        /\ \A i \in 1 .. Len(new) :
             new[i] = IF i < at THEN hand[i] ELSE IF i = at THEN t ELSE hand[i - 1]
    BY <1>3, InsertAtFacts
  <1> HIDE DEF new
  <1>5. ASSUME NEW i \in 1 .. Len(new), NEW j \in 1 .. Len(new), i < j,
               new[i] >= 0, new[j] >= 0
        PROVE  new[i] < new[j]
    <2>1. t \in Jokers <=> t < 0
      BY DEF Jokers
    <2>2. \A k, l \in 1 .. Len(hand) :
             k < l /\ hand[k] >= 0 /\ hand[l] >= 0 => hand[k] < hand[l]
      BY <1>2 DEF Ordered
    <2>3. CASE i # at /\ j # at
      <3> DEFINE k == IF i < at THEN i ELSE i - 1
                 l == IF j < at THEN j ELSE j - 1
      <3>1. k \in 1 .. Len(hand) /\ l \in 1 .. Len(hand) /\ k < l
        BY <1>2, <1>3, <1>4, <1>5, <2>3
      <3>2. new[i] = hand[k] /\ new[j] = hand[l]
        BY <1>3, <1>4, <2>3
      <3> HIDE DEF k, l
      <3> QED BY <1>5, <2>2, <3>1, <3>2
    <2>4. CASE i = at
      <3>1. new[i] = t /\ new[j] = hand[j - 1] /\ j - 1 \in 1 .. Len(hand) /\ ~(j - 1 < at)
        BY <1>2, <1>3, <1>4, <1>5, <2>4
      <3> QED BY <1>1, <1>2, <1>3, <1>5, <2>1, <3>1
    <2>5. CASE j = at
      <3>1. new[j] = t /\ new[i] = hand[i] /\ i \in 1 .. Len(hand) /\ i < at
        BY <1>2, <1>3, <1>4, <1>5, <2>5
      <3> QED BY <1>1, <1>2, <1>3, <1>5, <2>1, <3>1
    <2> QED BY <2>3, <2>4, <2>5
  <1>6. DOMAIN new = 1 .. Len(new)
    BY <1>4
  <1>7. Ordered(new)
    BY <1>5, <1>6, Zenon DEF Ordered
  <1> QED BY <1>3, <1>7 DEF new

-----------------------------------------------------------------------------
(* The invariant, of a state and the tiles that are revealed.              *)

\* A game between the players of who.
GameState(who) ==
    [step : {"GUESSING", "DECIDING", "PLACING", "FINISHED"}, turn : who,
     hands : [who -> Seq(Tiles)], deck : SUBSET Tiles, drawn : Tiles \cup {NoTile},
     out : SUBSET who, winner : who \cup {Nobody}, hits : [who -> Nat]]

HandsOf(g) == UNION {Range(g.hands[p]) : p \in Seated(g)}
Lost(g) == Tiles \ (HandsOf(g) \cup g.deck \cup {g.drawn})

\* No tile is in two places, and what is lost was held by somebody who is out.
Kept(g) ==
    /\ \A p, q \in Seated(g) : p # q => Range(g.hands[p]) \cap Range(g.hands[q]) = {}
    /\ \A p \in Seated(g) : Cardinality(Range(g.hands[p])) = Len(g.hands[p])
    /\ \A p \in Seated(g) : Ordered(g.hands[p])
    /\ g.deck \cap HandsOf(g) = {} /\ g.drawn \notin HandsOf(g) \cup g.deck
    /\ Cardinality(Lost(g)) <= Cardinality(g.out)

\* While a turn ends, only the player in turn may have lost the last hidden tile
\* without being out.
OutSoFar(g, seen) ==
    \A p \in Seated(g) :
      /\ p \in g.out => Hidden(g, seen, p) = {}
      /\ p # g.turn /\ Hidden(g, seen, p) = {} => p \in g.out

OutIsRevealed(g, seen) == \A p \in Seated(g) : p \in g.out <=> Hidden(g, seen, p) = {}

TurnIsLiving(g) ==
    /\ g.step # "FINISHED" => Cardinality(Alive(g)) >= 2 /\ g.turn \in Alive(g)
    /\ g.step = "FINISHED" => Alive(g) = {g.winner}
    /\ g.step = "PLACING" => g.drawn \in Jokers

GameKept(g, seen) == Kept(g) /\ OutIsRevealed(g, seen) /\ TurnIsLiving(g)

-----------------------------------------------------------------------------
(* The rules.                                                              *)

\* The seats of a game are finitely many natural numbers.
LEMMA SeatsAreFinite ==
    ASSUME NEW who \in SUBSET Players, NEW S \in SUBSET who
    PROVE  /\ IsFiniteSet(S) /\ Cardinality(S) \in Nat /\ S \in SUBSET Nat
           /\ Nobody \notin S
           /\ Cardinality(S) <= 1 /\ S # {} => S = {Min(S)}
           /\ \A x : Cardinality(S) >= 2 => S \ {x} # {}
  <1>1. Players \subseteq Nat \ {0} /\ IsFiniteSet(Players)
    BY RoomAssumption
  <1>2. IsFiniteSet(S) /\ Cardinality(S) \in Nat
    BY <1>1, FS_Subset, FS_CardinalityType
  <1>3. ASSUME Cardinality(S) <= 1, S # {}
        PROVE  S = {Min(S)}
    <2>1. Cardinality(S) = 1
      BY <1>2, <1>3, FS_EmptySet
    <2>2. PICK x : S = {x}
      BY <1>2, <2>1, FS_Singleton
    <2>3. Min(S) \in S
      BY <1>1, <1>3, LeastOf
    <2> QED BY <2>2, <2>3
  <1>4. ASSUME NEW x, Cardinality(S) >= 2
        PROVE  S \ {x} # {}
    <2>1. Cardinality(S \ {x}) >= 1 /\ IsFiniteSet(S \ {x})
      BY <1>2, <1>4, FS_RemoveElement
    <2> QED BY <2>1, FS_EmptySet
  <1> QED BY <1>1, <1>2, <1>3, <1>4 DEF Nobody

\* Fewer tiles than there are can be lost.
LEMMA LostIsFinite ==
    ASSUME NEW S \in SUBSET Tiles
    PROVE  IsFiniteSet(S) /\ Cardinality(S) \in Nat
  BY DavinciAssumption, FS_Subset, FS_CardinalityType

\* What was lost is covered by more players who are out.
LEMMA OutGrows ==
    ASSUME NEW who \in SUBSET Players, NEW g \in GameState(who), Kept(g),
           NEW out \in SUBSET who, g.out \subseteq out
    PROVE  Cardinality(Lost(g)) <= Cardinality(out)
  <1>1. IsFiniteSet(out) /\ Cardinality(out) \in Nat
    BY SeatsAreFinite
  <1>2. Cardinality(g.out) <= Cardinality(out) /\ Cardinality(g.out) \in Nat
    BY <1>1, FS_Subset, FS_CardinalityType
  <1>3. Cardinality(Lost(g)) \in Nat
    BY LostIsFinite DEF Lost
  <1> QED BY <1>1, <1>2, <1>3 DEF Kept

\* Hands are made of tiles.
LEMMA HandsAreTiles ==
    ASSUME NEW who, NEW g \in GameState(who)
    PROVE  /\ Seated(g) = who /\ HandsOf(g) \subseteq Tiles
           /\ \A p \in who : /\ g.hands[p] \in Seq(Tiles) /\ Range(g.hands[p]) \subseteq Tiles
                            /\ Range(g.hands[p]) \subseteq HandsOf(g)
  <1>1. Seated(g) = who /\ \A p \in who : g.hands[p] \in Seq(Tiles)
    BY DEF GameState, Seated
  <1>2. ASSUME NEW hand \in Seq(Tiles)
        PROVE  Range(hand) \subseteq Tiles
    BY DEF Range
  <1> QED BY <1>1, <1>2 DEF HandsOf

\* The turn goes to somebody who is still in the game.
LEMMA NextSeatLives ==
    ASSUME NEW alive \in SUBSET Players, alive # {}, NEW p
    PROVE  NextSeat(p, alive) \in alive
  <1>1. Players \subseteq Nat
    BY RoomAssumption
  <1> DEFINE after == {q \in alive : q > p}
  <1>2. CASE after # {}
    <2>1. Min(after) \in after
      BY <1>1, <1>2, LeastOf
    <2> QED BY <1>2, <2>1 DEF NextSeat
  <1>3. CASE after = {}
    <2>1. Min(alive) \in alive
      BY <1>1, LeastOf
    <2> QED BY <1>3, <2>1 DEF NextSeat
  <1> QED BY <1>2, <1>3

\* The next turn begins with the tiles in their places, or the game has a winner.
LEMMA AdvancedKeeps ==
    ASSUME NEW who \in SUBSET Players, NEW g \in GameState(who), NEW seen,
           Kept(g), OutSoFar(g, seen), g.drawn = NoTile, Cardinality(Alive(g)) >= 2,
           NEW h \in Advanced(g, seen)
    PROVE  h \in GameState(who) /\ GameKept(h, seen) /\ Alive(h) \subseteq Alive(g)
  <1> DEFINE out == IF Hidden(g, seen, g.turn) = {} THEN g.out \cup {g.turn} ELSE g.out
             alive == Seated(g) \ out
  <1>1. Seated(g) = who /\ out \in SUBSET who /\ alive \in SUBSET who /\ g.out \subseteq out
    BY DEF GameState, Seated
  <1>2. IsFiniteSet(alive) /\ Cardinality(alive) \in Nat
        /\ (Cardinality(alive) <= 1 /\ alive # {} => alive = {Min(alive)})
    BY <1>1, SeatsAreFinite
  <1>3. alive # {}
    <2>1. Alive(g) \in SUBSET who
      BY <1>1 DEF Alive
    <2>2. Alive(g) \ {g.turn} # {}
      BY <2>1, SeatsAreFinite
    <2> QED BY <2>2 DEF Alive
  <1>4. \A p \in who : p \in out <=> Hidden(g, seen, p) = {}
    BY <1>1 DEF OutSoFar
  <1>5. Cardinality(Lost(g)) <= Cardinality(out)
    BY <1>1, OutGrows
  <1>6. NoTile \notin Tiles
    BY DavinciAssumption
  <1>7. HandsOf(g) \subseteq Tiles
    BY <1>1, HandsAreTiles
  <1>8. CASE Cardinality(alive) <= 1
    <2>1. h = [g EXCEPT !.step = "FINISHED", !.out = out, !.winner = Min(alive)]
      BY <1>3, <1>8 DEF Advanced
    <2>2. Min(alive) \in who /\ alive = {Min(alive)}
      BY <1>1, <1>2, <1>3, <1>8
    <2> HIDE DEF out
    <2>3. /\ h \in GameState(who) /\ h.hands = g.hands /\ h.deck = g.deck /\ h.drawn = g.drawn
          /\ h.out = out /\ h.step = "FINISHED" /\ h.winner = Min(alive)
      BY <1>1, <2>1, <2>2 DEF GameState
    <2>4. Seated(h) = Seated(g) /\ HandsOf(h) = HandsOf(g) /\ Lost(h) = Lost(g)
          /\ \A p : Hidden(h, seen, p) = Hidden(g, seen, p)
      BY <2>3 DEF Seated, HandsOf, Lost, Hidden
    <2>5. Kept(h)
      BY <1>5, <2>3, <2>4 DEF Kept
    <2>6. OutIsRevealed(h, seen)
      BY <1>1, <1>4, <2>3, <2>4 DEF OutIsRevealed
    <2>7. TurnIsLiving(h) /\ Alive(h) \subseteq Alive(g)
      BY <1>1, <2>2, <2>3, <2>4 DEF TurnIsLiving, Alive
    <2> QED BY <2>3, <2>5, <2>6, <2>7 DEF GameKept
  <1>9. CASE ~(Cardinality(alive) <= 1)
    <2>1. PICK t \in Draws(g.deck) :
            h = [g EXCEPT !.step = "GUESSING", !.out = out, !.turn = NextSeat(g.turn, alive),
                          !.deck = g.deck \ {t}, !.drawn = t]
      BY <1>9, Zenon DEF Advanced
    <2>2. /\ t \in Tiles \cup {NoTile}
          /\ t # NoTile => t \in g.deck
          /\ t = NoTile => g.deck \ {t} = g.deck
      BY <1>6 DEF Draws, GameState
    <2>3. NextSeat(g.turn, alive) \in alive
      BY <1>1, <1>3, NextSeatLives
    <2> HIDE DEF out
    <2>4. /\ h \in GameState(who) /\ h.hands = g.hands /\ h.deck = g.deck \ {t} /\ h.drawn = t
          /\ h.out = out /\ h.step = "GUESSING" /\ h.turn = NextSeat(g.turn, alive)
      BY <1>1, <2>1, <2>2, <2>3 DEF GameState
    <2>5. Seated(h) = Seated(g) /\ HandsOf(h) = HandsOf(g)
          /\ \A p : Hidden(h, seen, p) = Hidden(g, seen, p)
      BY <2>4 DEF Seated, HandsOf, Hidden
    <2>6. Lost(h) = Lost(g)
      BY <1>6, <2>2, <2>4, <2>5 DEF Lost
    <2>7. h.deck \cap HandsOf(h) = {} /\ h.drawn \notin HandsOf(h) \cup h.deck
      BY <1>6, <1>7, <2>2, <2>4, <2>5 DEF Kept
    <2>8. Kept(h)
      BY <1>5, <2>4, <2>5, <2>6, <2>7 DEF Kept
    <2>9. OutIsRevealed(h, seen)
      BY <1>1, <1>4, <2>4, <2>5 DEF OutIsRevealed
    <2>10. TurnIsLiving(h) /\ Alive(h) \subseteq Alive(g)
      BY <1>1, <1>2, <1>9, <2>3, <2>4, <2>5 DEF TurnIsLiving, Alive
    <2> QED BY <2>4, <2>8, <2>9, <2>10 DEF GameKept
  <1> QED BY <1>8, <1>9

\* A drawn tile goes into the hand of the player in turn, where it belongs.
LEMMA InsertedKeeps ==
    ASSUME NEW who \in SUBSET Players, NEW g \in GameState(who), NEW seen,
           Kept(g), OutSoFar(g, seen), g.turn \notin g.out, g.drawn # NoTile,
           NEW at, \/ g.drawn \in Jokers /\ at \in 1 .. Len(g.hands[g.turn]) + 1
                   \/ at = PlaceFor(g.hands[g.turn], g.drawn)
    PROVE  LET i == Inserted(g, at) IN
           /\ i \in GameState(who) /\ Kept(i) /\ OutSoFar(i, seen)
           /\ i.drawn = NoTile /\ Alive(i) = Alive(g)
  <1> DEFINE hand == g.hands[g.turn]
             new == InsertAt(hand, at, g.drawn)
             hands == [g.hands EXCEPT ![g.turn] = new]
             i == [g EXCEPT !.hands = hands, !.drawn = NoTile]
  <1>1. /\ Seated(g) = who /\ g.turn \in who /\ g.drawn \in Tiles /\ HandsOf(g) \subseteq Tiles
        /\ hand \in Seq(Tiles) /\ Range(hand) \subseteq HandsOf(g)
    BY HandsAreTiles DEF GameState
  <1>2. g.drawn \notin HandsOf(g) /\ Ordered(hand) /\ Cardinality(Range(hand)) = Len(hand)
    BY <1>1 DEF Kept
  <1>3. at \in 1 .. Len(hand) + 1 /\ Ordered(new)
    BY <1>1, <1>2, StaysOrdered
  <1>4. new \in Seq(Tiles) /\ Len(new) = Len(hand) + 1 /\ Range(new) = Range(hand) \cup {g.drawn}
    BY <1>1, <1>3, InsertAtFacts
  <1>5. Cardinality(Range(new)) = Len(new)
    <2>1. IsFiniteSet(Range(hand))
      BY <1>1, LostIsFinite
    <2>2. g.drawn \notin Range(hand)
      BY <1>1, <1>2
    <2> HIDE DEF hand, new
    <2>3. Cardinality(Range(hand) \cup {g.drawn}) = Cardinality(Range(hand)) + 1
      BY <2>1, <2>2, FS_AddElement
    <2> QED BY <1>2, <1>4, <2>3
  <1> HIDE DEF new
  <1>6. /\ hands \in [who -> Seq(Tiles)] /\ hands[g.turn] = new
        /\ \A p \in who : p # g.turn => hands[p] = g.hands[p]
    BY <1>1, <1>4 DEF GameState
  <1>7. Inserted(g, at) = i
    BY DEF Inserted, GameState, hands, new
  <1> HIDE DEF hands
  <1>8. /\ i \in GameState(who) /\ i.hands = hands /\ i.drawn = NoTile /\ i.deck = g.deck
        /\ i.out = g.out /\ i.turn = g.turn
    BY <1>6 DEF GameState
  <1>9. Seated(i) = who
    BY <1>6, <1>8 DEF Seated
  <1> HIDE DEF i
  <1>10. HandsOf(i) = HandsOf(g) \cup {g.drawn}
    <2>1. \A x : x \in HandsOf(g) <=> \E p \in who : x \in Range(g.hands[p])
      BY <1>1 DEF HandsOf
    <2>2. \A x : x \in HandsOf(i) <=> \E p \in who : x \in Range(hands[p])
      BY <1>8, <1>9 DEF HandsOf
    <2>3. \A x : \A p \in who : x \in Range(hands[p]) <=>
             x \in Range(g.hands[p]) \/ (p = g.turn /\ x = g.drawn)
      BY <1>4, <1>6
    <2> QED BY <1>1, <2>1, <2>2, <2>3
  <1>11. Lost(i) = Lost(g)
    BY <1>1, <1>8, <1>10, DavinciAssumption DEF Lost
  <1>12. Kept(i)
    <2>1. ASSUME NEW p \in who, NEW q \in who, p # q
          PROVE  Range(hands[p]) \cap Range(hands[q]) = {}
      <3>1. \A r \in who : Range(g.hands[r]) \subseteq HandsOf(g)
        BY HandsAreTiles
      <3>2. Range(g.hands[p]) \cap Range(g.hands[q]) = {}
        BY <1>1, <2>1 DEF Kept
      <3> QED BY <1>2, <1>4, <1>6, <2>1, <3>1, <3>2
    <2>2. \A p \in who : Cardinality(Range(hands[p])) = Len(hands[p]) /\ Ordered(hands[p])
      BY <1>1, <1>3, <1>5, <1>6 DEF Kept
    <2>3. i.deck \cap HandsOf(i) = {} /\ i.drawn \notin HandsOf(i) \cup i.deck
      <3>1. g.deck \subseteq Tiles /\ NoTile \notin Tiles
        BY DavinciAssumption DEF GameState
      <3> QED BY <1>1, <1>8, <1>10, <3>1 DEF Kept
    <2>4. Cardinality(Lost(i)) <= Cardinality(i.out)
      BY <1>8, <1>11 DEF Kept
    <2> QED BY <1>8, <1>9, <2>1, <2>2, <2>3, <2>4 DEF Kept
  <1>13. OutSoFar(i, seen)
    BY <1>1, <1>6, <1>8, <1>9 DEF OutSoFar, Hidden
  <1>14. Alive(i) = Alive(g)
    BY <1>1, <1>8, <1>9 DEF Alive
  <1> QED BY <1>7, <1>8, <1>12, <1>13, <1>14

\* A turn ends where its tile is put, except that a joker waits for its place.
LEMMA ConcludedKeeps ==
    ASSUME NEW who \in SUBSET Players, NEW g \in GameState(who), NEW seen,
           Kept(g), OutSoFar(g, seen), Cardinality(Alive(g)) >= 2, g.turn \in Alive(g),
           g.drawn # NoTile => OutIsRevealed(g, seen),
           NEW h \in Concluded(g, seen)
    PROVE  h \in GameState(who) /\ GameKept(h, seen) /\ Alive(h) \subseteq Alive(g)
  <1>1. CASE g.drawn = NoTile
    BY <1>1, AdvancedKeeps DEF Concluded
  <1>2. CASE g.drawn # NoTile /\ g.drawn \in Jokers
    <2>1. h = [g EXCEPT !.step = "PLACING"]
      BY <1>2 DEF Concluded
    <2>2. /\ h \in GameState(who) /\ h.step = "PLACING" /\ h.hands = g.hands /\ h.turn = g.turn
          /\ h.out = g.out /\ h.drawn = g.drawn /\ h.deck = g.deck
      BY <2>1 DEF GameState
    <2>3. Seated(h) = Seated(g) /\ HandsOf(h) = HandsOf(g) /\ Lost(h) = Lost(g)
          /\ Alive(h) = Alive(g) /\ \A p : Hidden(h, seen, p) = Hidden(g, seen, p)
      BY <2>2 DEF Seated, HandsOf, Lost, Hidden, Alive
    <2>4. Kept(h)
      BY <2>2, <2>3 DEF Kept
    <2>5. OutIsRevealed(h, seen)
      BY <1>2, <2>2, <2>3 DEF OutIsRevealed
    <2>6. TurnIsLiving(h)
      BY <1>2, <2>2, <2>3 DEF TurnIsLiving
    <2> QED BY <2>2, <2>3, <2>4, <2>5, <2>6 DEF GameKept
  <1>3. CASE g.drawn # NoTile /\ g.drawn \notin Jokers
    <2> DEFINE at == PlaceFor(g.hands[g.turn], g.drawn)
               i == Inserted(g, at)
    <2>1. h \in Advanced(i, seen)
      BY <1>3 DEF Concluded
    <2>2. /\ i \in GameState(who) /\ Kept(i) /\ OutSoFar(i, seen)
          /\ i.drawn = NoTile /\ Alive(i) = Alive(g)
      <3>1. g.turn \notin g.out
        BY DEF Alive
      <3> HIDE DEF at
      <3>2. at = PlaceFor(g.hands[g.turn], g.drawn)
        BY DEF at
      <3> QED BY <1>3, <3>1, <3>2, InsertedKeeps
    <2> HIDE DEF i
    <2> QED BY <2>1, <2>2, AdvancedKeeps
  <1> QED BY <1>1, <1>2, <1>3

\* A mistake reveals a tile that nobody else has.
LEMMA RevealedKeeps ==
    ASSUME NEW who \in SUBSET Players, NEW g \in GameState(who), NEW seen \in SUBSET Tiles,
           GameKept(g, seen), g.step # "FINISHED", NEW reveal \in BOOLEAN
    PROVE  LET after == seen \cup Revealed(g, seen, reveal) IN
           /\ after \subseteq Tiles /\ OutSoFar(g, after)
           /\ g.drawn # NoTile => OutIsRevealed(g, after)
  <1> DEFINE R == Revealed(g, seen, reveal)
             hand == g.hands[g.turn]
             hidden == {i \in DOMAIN hand : hand[i] \notin seen}
  <1>1. /\ Seated(g) = who /\ g.turn \in who /\ HandsOf(g) \subseteq Tiles /\ hand \in Seq(Tiles)
        /\ \A p \in who : Range(g.hands[p]) \subseteq HandsOf(g)
    BY HandsAreTiles DEF GameState
  <1>2. R = {} \/ (g.drawn # NoTile /\ R = {g.drawn}) \/ (g.drawn = NoTile /\ R \subseteq Range(hand))
    <2>1. CASE reveal /\ g.drawn = NoTile /\ hidden # {}
      <3>1. R = {hand[Min(hidden)]}
        BY <2>1 DEF Revealed
      <3>2. DOMAIN hand = 1 .. Len(hand) /\ Len(hand) \in Nat
        BY <1>1
      <3>3. hidden \in SUBSET Nat
        BY <3>2
      <3> HIDE DEF hand
      <3>4. Min(hidden) \in hidden
        BY <2>1, <3>3, LeastOf
      <3>5. hand[Min(hidden)] \in Range(hand)
        BY <3>4 DEF Range
      <3> QED BY <2>1, <3>1, <3>5
    <2>2. CASE ~reveal \/ g.drawn # NoTile \/ hidden = {}
      BY <2>2 DEF Revealed
    <2> QED BY <2>1, <2>2
  <1> HIDE DEF R
  <1>3. R \subseteq Tiles
    BY <1>1, <1>2 DEF GameState
  <1>4. \A p \in who : p # g.turn \/ g.drawn # NoTile => R \cap Range(g.hands[p]) = {}
    BY <1>1, <1>2 DEF GameKept, Kept
  <1>5. \A p \in who : /\ Hidden(g, seen \cup R, p) \subseteq Hidden(g, seen, p)
                       /\ p # g.turn \/ g.drawn # NoTile =>
                            Hidden(g, seen \cup R, p) = Hidden(g, seen, p)
    BY <1>4 DEF Hidden
  <1>6. OutSoFar(g, seen \cup R)
    BY <1>1, <1>5 DEF GameKept, OutIsRevealed, OutSoFar
  <1>7. g.drawn # NoTile => OutIsRevealed(g, seen \cup R)
    BY <1>1, <1>5 DEF GameKept, OutIsRevealed
  <1> QED BY <1>3, <1>6, <1>7 DEF R

-----------------------------------------------------------------------------
(* The handlers.                                                           *)

\* What every move keeps.
GameOK(who) ==
    game \in GameState(who) /\ GameKept(game, shown) /\ shown \in SUBSET Tiles

MoveKeeps(who) == GameOK(who)' /\ Alive(game)' \subseteq Alive(game)

\* Before a move two are alive, one of them in turn.
LEMMA BeforeMove ==
    ASSUME NEW who \in SUBSET Players, GameOK(who), Live
    PROVE  /\ game.step # "FINISHED" /\ Cardinality(Alive(game)) >= 2 /\ game.turn \in Alive(game)
           /\ game.turn \notin game.out /\ OutSoFar(game, shown) /\ Kept(game)
           /\ Seated(game) = who
  BY DEF GameOK, GameKept, Live, TurnIsLiving, Alive, OutIsRevealed, OutSoFar, GameState, Seated

\* A hit reveals a tile of the target, and a last one puts the target out.
LEMMA HitKeeps ==
    ASSUME NEW who \in SUBSET Players, GameOK(who), Live,
           NEW target \in Alive(game) \ {game.turn}, NEW t \in Nameable(target),
           NEW out, out = IF Hidden(game, shown \cup {t}, target) = {}
                          THEN game.out \cup {target} ELSE game.out,
           NEW alive, alive = Seated(game) \ out,
           shown' = shown \cup {t},
           game' = [game EXCEPT
                      !.out = out, !.hits[game.turn] = @ + 1,
                      !.step = IF Cardinality(alive) <= 1 THEN "FINISHED" ELSE "DECIDING",
                      !.winner = IF Cardinality(alive) <= 1 THEN Min(alive) ELSE @]
    PROVE  MoveKeeps(who)
  <1>1. /\ game \in GameState(who) /\ shown \subseteq Tiles /\ Kept(game)
        /\ OutIsRevealed(game, shown) /\ game.turn \in Alive(game)
        /\ Seated(game) = who /\ game.turn \in who /\ target \in who
    BY BeforeMove DEF GameOK, GameKept, Alive
  <1>2. HandsOf(game) \subseteq Tiles /\ \A p \in who : Range(game.hands[p]) \subseteq HandsOf(game)
    BY <1>1, HandsAreTiles
  <1>3. t \in Range(game.hands[target]) /\ t \in Tiles
    BY <1>1, <1>2 DEF Nameable, Hidden
  <1>4. out \in SUBSET who /\ game.out \subseteq out /\ alive \in SUBSET who /\ alive = who \ out
    BY <1>1 DEF GameState
  <1>5. IsFiniteSet(alive) /\ Cardinality(alive) \in Nat
        /\ (Cardinality(alive) <= 1 /\ alive # {} => alive = {Min(alive)})
    BY <1>4, SeatsAreFinite
  <1>6. game.turn \in alive
    BY <1>1, <1>4 DEF Alive
  <1> DEFINE hits == [game.hits EXCEPT ![game.turn] = @ + 1]
             step == IF Cardinality(alive) <= 1 THEN "FINISHED" ELSE "DECIDING"
             winner == IF Cardinality(alive) <= 1 THEN Min(alive) ELSE game.winner
  <1>7. hits \in [who -> Nat]
    BY <1>1 DEF GameState
  <1>8. winner \in who \cup {Nobody} /\ step \in {"FINISHED", "DECIDING"}
    BY <1>1, <1>4, <1>5, <1>6 DEF GameState
  <1>9. game' = [game EXCEPT !.out = out, !.hits = hits, !.step = step, !.winner = winner]
    BY <1>1 DEF GameState
  <1> HIDE DEF hits, step, winner
  <1>10. /\ game' \in GameState(who) /\ game'.hands = game.hands /\ game'.deck = game.deck
         /\ game'.drawn = game.drawn /\ game'.out = out /\ game'.turn = game.turn
         /\ game'.step = step /\ game'.winner = winner
    BY <1>1, <1>4, <1>7, <1>8, <1>9 DEF GameState
  <1>11. Seated(game') = who /\ HandsOf(game') = HandsOf(game) /\ Lost(game') = Lost(game)
    BY <1>1, <1>10 DEF Seated, HandsOf, Lost
  <1>12. Kept(game')
    <2>1. Cardinality(Lost(game)) <= Cardinality(out)
      BY <1>1, <1>4, OutGrows
    <2> QED BY <1>1, <1>10, <1>11, <2>1 DEF Kept
  <1>13. OutIsRevealed(game', shown')
    <2> SUFFICES ASSUME NEW p \in who
                 PROVE  p \in out <=> Hidden(game', shown', p) = {}
      BY <1>10, <1>11 DEF OutIsRevealed
    <2>1. Hidden(game', shown', p) = Hidden(game, shown \cup {t}, p)
      BY <1>10 DEF Hidden
    <2>2. p \in game.out <=> Hidden(game, shown, p) = {}
      BY <1>1 DEF OutIsRevealed
    <2>3. CASE p = target
      BY <1>1, <2>1, <2>3 DEF Alive
    <2>4. CASE p # target
      <3>1. t \notin Range(game.hands[p])
        BY <1>1, <1>3, <2>4 DEF Kept
      <3>2. Hidden(game, shown \cup {t}, p) = Hidden(game, shown, p)
        BY <3>1 DEF Hidden
      <3> QED BY <2>1, <2>2, <2>4, <3>2
    <2> QED BY <2>3, <2>4
  <1>14. TurnIsLiving(game') /\ Alive(game') = alive
    <2>1. Alive(game') = alive
      BY <1>4, <1>10, <1>11 DEF Alive
    <2>2. game'.step = IF Cardinality(alive) <= 1 THEN "FINISHED" ELSE "DECIDING"
      BY <1>10 DEF step
    <2>3. Cardinality(alive) <= 1 => alive = {winner}
      BY <1>5, <1>6 DEF winner
    <2>4. CASE Cardinality(alive) <= 1
      <3>1. game'.step = "FINISHED"
        BY <2>2, <2>4
      <3>2. Alive(game') = {game'.winner}
        BY <1>10, <2>1, <2>3, <2>4
      <3> QED BY <2>1, <3>1, <3>2 DEF TurnIsLiving
    <2>5. CASE ~(Cardinality(alive) <= 1)
      <3>1. Cardinality(alive) >= 2 /\ game'.step = "DECIDING"
        BY <1>5, <2>2, <2>5
      <3>2. game'.turn \in Alive(game') /\ Cardinality(Alive(game')) >= 2
        BY <1>6, <1>10, <2>1, <3>1
      <3> QED BY <2>1, <3>1, <3>2 DEF TurnIsLiving
    <2> QED BY <2>1, <2>4, <2>5
  <1>15. shown' \in SUBSET Tiles
    BY <1>1, <1>3
  <1> QED BY <1>1, <1>4, <1>10, <1>12, <1>13, <1>14, <1>15 DEF MoveKeeps, GameOK, GameKept, Alive

\* A turn that ends, with or without a tile revealed.
LEMMA TurnEnds ==
    ASSUME NEW who \in SUBSET Players, GameOK(who), Live, NEW reveal \in BOOLEAN,
           shown' = shown \cup Revealed(game, shown, reveal), game' \in Concluded(game, shown')
    PROVE  MoveKeeps(who)
  <1>1. PICK after : after = shown'
    OBVIOUS
  <1>2. /\ after \subseteq Tiles /\ OutSoFar(game, after)
        /\ game.drawn # NoTile => OutIsRevealed(game, after)
    BY <1>1, BeforeMove, RevealedKeeps DEF GameOK
  <1>3. /\ game' \in GameState(who) /\ GameKept(game', after) /\ Alive(game') \subseteq Alive(game)
    BY <1>1, <1>2, BeforeMove, ConcludedKeeps DEF GameOK
  <1> QED BY <1>1, <1>2, <1>3 DEF MoveKeeps, GameOK, Alive

\* A joker that is put somewhere.
LEMMA JokerIsPlaced ==
    ASSUME NEW who \in SUBSET Players, GameOK(who), game.step = "PLACING",
           NEW at \in 1 .. Len(game.hands[game.turn]) + 1,
           UNCHANGED shown, game' \in Advanced(Inserted(game, at), shown)
    PROVE  MoveKeeps(who)
  <1>1. Live
    BY DEF Live
  <1>2. game.drawn \in Jokers /\ game.drawn # NoTile
    BY DavinciAssumption DEF GameOK, GameKept, TurnIsLiving, Jokers
  <1> DEFINE i == Inserted(game, at)
  <1>3. /\ i \in GameState(who) /\ Kept(i) /\ OutSoFar(i, shown)
        /\ i.drawn = NoTile /\ Alive(i) = Alive(game)
    BY <1>1, <1>2, BeforeMove, InsertedKeeps DEF GameOK
  <1> HIDE DEF i
  <1>4. game' \in Advanced(i, shown)
    BY DEF i
  <1>5. /\ game' \in GameState(who) /\ GameKept(game', shown) /\ Alive(game') \subseteq Alive(i)
    BY <1>1, <1>3, <1>4, BeforeMove, AdvancedKeeps
  <1> QED BY <1>3, <1>5 DEF MoveKeeps, GameOK, Alive

\* The inputs of a player in turn.
LEMMA InputKeeps ==
    ASSUME NEW who \in SUBSET Players, GameOK(who), NEW p \in Players,
           Guess(p) \/ Continue(p) \/ Stop(p) \/ Place(p)
    PROVE  MoveKeeps(who)
  <1>1. Live /\ game.turn = p
    <2>1. game.step \in {"GUESSING", "DECIDING", "PLACING"} /\ game.turn = p
      BY Zenon DEF Guess, Continue, Stop, Place
    <2> QED BY <2>1 DEF Live
  <1>2. CASE Guess(p)
    <2>1. PICK target \in Alive(game) \ {p} : \E t \in Nameable(target) :
            \E number \in {NumberOf(u) : u \in Tiles} :
              IF number # NumberOf(t)
              THEN /\ shown' = shown \cup Revealed(game, shown, TRUE)
                   /\ game' \in Concluded(game, shown')
              ELSE LET out == IF Hidden(game, shown \cup {t}, target) = {}
                              THEN game.out \cup {target} ELSE game.out
                       alive == Seated(game) \ out
                   IN  /\ shown' = shown \cup {t}
                       /\ game' = [game EXCEPT
                             !.out = out, !.hits[p] = @ + 1,
                             !.step = IF Cardinality(alive) <= 1 THEN "FINISHED"
                                      ELSE "DECIDING",
                             !.winner = IF Cardinality(alive) <= 1 THEN Min(alive)
                                        ELSE @]
      BY <1>2, Zenon DEF Guess
    <2>2. PICK t \in Nameable(target), number \in {NumberOf(u) : u \in Tiles} :
            IF number # NumberOf(t)
            THEN /\ shown' = shown \cup Revealed(game, shown, TRUE)
                 /\ game' \in Concluded(game, shown')
            ELSE LET out == IF Hidden(game, shown \cup {t}, target) = {}
                            THEN game.out \cup {target} ELSE game.out
                     alive == Seated(game) \ out
                 IN  /\ shown' = shown \cup {t}
                     /\ game' = [game EXCEPT
                           !.out = out, !.hits[p] = @ + 1,
                           !.step = IF Cardinality(alive) <= 1 THEN "FINISHED"
                                    ELSE "DECIDING",
                           !.winner = IF Cardinality(alive) <= 1 THEN Min(alive)
                                      ELSE @]
      BY <2>1, Zenon
    <2>3. CASE number # NumberOf(t)
      BY <1>1, <2>2, <2>3, TurnEnds
    <2>4. CASE number = NumberOf(t)
      BY <1>1, <2>2, <2>4, HitKeeps
    <2> QED BY <2>3, <2>4
  <1>3. CASE Continue(p)
    <2>1. game' = [game EXCEPT !.step = "GUESSING"] /\ shown' = shown /\ game.step = "DECIDING"
      BY <1>3, Zenon DEF Continue
    <2>2. /\ game' \in GameState(who) /\ game'.step = "GUESSING" /\ game'.hands = game.hands
          /\ game'.turn = game.turn /\ game'.out = game.out /\ game'.drawn = game.drawn
          /\ game'.deck = game.deck
      BY <2>1 DEF GameState, GameOK
    <2>3. /\ Seated(game') = Seated(game) /\ HandsOf(game') = HandsOf(game)
          /\ Lost(game') = Lost(game) /\ Alive(game') = Alive(game)
          /\ \A q : Hidden(game', shown', q) = Hidden(game, shown, q)
      BY <2>1, <2>2 DEF Seated, HandsOf, Lost, Alive, Hidden
    <2>4. Kept(game')
      BY <2>2, <2>3 DEF Kept, GameOK, GameKept
    <2>5. OutIsRevealed(game', shown')
      BY <2>2, <2>3 DEF OutIsRevealed, GameOK, GameKept
    <2>6. TurnIsLiving(game')
      BY <1>1, <2>2, <2>3, BeforeMove DEF TurnIsLiving
    <2> QED BY <2>1, <2>2, <2>3, <2>4, <2>5, <2>6 DEF MoveKeeps, GameOK, GameKept, Alive
  <1>4. CASE Stop(p)
    <2>1. game' \in Concluded(game, shown) /\ shown' = shown
      BY <1>4, Zenon DEF Stop
    <2>2. shown' = shown \cup Revealed(game, shown, FALSE)
      BY <2>1 DEF Revealed
    <2> QED BY <1>1, <2>1, <2>2, TurnEnds
  <1>5. CASE Place(p)
    <2>1. PICK at \in 1 .. Len(game.hands[p]) + 1 : game' \in Advanced(Inserted(game, at), shown)
      BY <1>5, Zenon DEF Place
    <2>2. game.step = "PLACING" /\ shown' = shown
      BY <1>5, Zenon DEF Place
    <2> QED BY <1>1, <2>1, <2>2, JokerIsPlaced
  <1> QED BY <1>2, <1>3, <1>4, <1>5

\* A deadline that has come plays for the player in turn.
LEMMA DeadlineKeeps ==
    ASSUME NEW who \in SUBSET Players, GameOK(who), DavinciDeadline, timer # "stale", Live
    PROVE  MoveKeeps(who)
  <1>1. /\ shown' = shown \cup Revealed(game, shown, game.step = "GUESSING")
        /\ game' \in
             IF game.step # "PLACING" THEN Concluded(game, shown')
             ELSE Advanced(Inserted(game, Len(game.hands[game.turn]) + 1), shown)
    BY DEF DavinciDeadline
  <1>2. CASE game.step # "PLACING"
    BY <1>1, <1>2, TurnEnds
  <1>3. CASE game.step = "PLACING"
    <2>1. shown' = shown
      BY <1>1, <1>3 DEF Revealed
    <2>2. Len(game.hands[game.turn]) \in Nat
      BY HandsAreTiles DEF GameOK, GameState
    <2> QED BY <1>1, <1>3, <2>1, <2>2, JokerIsPlaced
  <1> QED BY <1>2, <1>3

\* Leaving reveals the leaver's tiles, loses the drawn one, and passes the turn on.
LEMMA ForfeitKeeps ==
    ASSUME NEW who \in SUBSET Players, GameOK(who), Live, NEW p \in Alive(game), Forfeited(p)
    PROVE  MoveKeeps(who) /\ p \notin Alive(game)'
  <1> DEFINE g == [game EXCEPT !.out = game.out \cup {p}]
             alive == Alive(g)
             l == [g EXCEPT !.drawn = NoTile]
  <1>1. /\ game \in GameState(who) /\ shown \subseteq Tiles /\ Kept(game) /\ Seated(game) = who
        /\ OutIsRevealed(game, shown) /\ p \in who /\ p \notin game.out
    BY BeforeMove DEF GameOK, GameKept, Alive
  <1>2. /\ g \in GameState(who) /\ g.out = game.out \cup {p} /\ g.hands = game.hands
        /\ g.drawn = game.drawn /\ g.deck = game.deck /\ g.turn = game.turn /\ g.step = game.step
    BY <1>1 DEF GameState
  <1>3. /\ Seated(g) = who /\ HandsOf(g) = HandsOf(game) /\ Lost(g) = Lost(game)
        /\ alive = Alive(game) \ {p}
    BY <1>1, <1>2 DEF Seated, HandsOf, Lost, Alive
  <1>4. shown' = shown \cup Range(game.hands[p])
        /\ \/ /\ Cardinality(alive) <= 1
              /\ game' = [g EXCEPT !.step = "FINISHED",
                                   !.winner = IF alive = {} THEN Nobody ELSE Min(alive)]
           \/ /\ ~(Cardinality(alive) <= 1) /\ game.turn # p /\ game' = g
           \/ /\ ~(Cardinality(alive) <= 1) /\ game.turn = p /\ game' \in Advanced(l, shown')
    BY DEF Forfeited
  <1>5. shown' \in SUBSET Tiles /\ Range(game.hands[p]) \subseteq HandsOf(game)
    BY <1>1, <1>4, HandsAreTiles
  <1>6. ASSUME NEW q \in who
        PROVE  q \in g.out <=> Hidden(game, shown', q) = {}
    <2>1. CASE q = p
      BY <1>2, <1>4, <2>1 DEF Hidden
    <2>2. CASE q # p
      <3>1. Range(game.hands[q]) \cap Range(game.hands[p]) = {}
        BY <1>1, <2>2 DEF Kept
      <3>2. Hidden(game, shown', q) = Hidden(game, shown, q)
        BY <1>4, <3>1 DEF Hidden
      <3> QED BY <1>1, <1>2, <2>2, <3>2 DEF OutIsRevealed
    <2> QED BY <2>1, <2>2
  <1>7. IsFiniteSet(alive) /\ Cardinality(alive) \in Nat /\ alive # {}
        /\ (Cardinality(alive) <= 1 /\ alive # {} => alive = {Min(alive)})
    <2>1. Alive(game) \in SUBSET who /\ alive \in SUBSET who
      BY <1>1, <1>3 DEF Alive
    <2>2. Alive(game) \ {p} # {}
      <3>1. Cardinality(Alive(game)) >= 2
        BY BeforeMove
      <3> QED BY <2>1, <3>1, SeatsAreFinite
    <2> HIDE DEF alive
    <2> QED BY <1>3, <2>1, <2>2, SeatsAreFinite
  <1>8. /\ Cardinality(Lost(game)) <= Cardinality(g.out)
        /\ Cardinality(Lost(game)) + 1 <= Cardinality(g.out)
    <2>1. IsFiniteSet(game.out) /\ Cardinality(game.out) \in Nat
      <3>1. game.out \in SUBSET who
        BY <1>1 DEF GameState
      <3> QED BY <3>1, SeatsAreFinite
    <2>2. Cardinality(game.out \cup {p}) = Cardinality(game.out) + 1
      BY <1>1, <2>1, FS_AddElement
    <2>3. Cardinality(Lost(game)) \in Nat
      BY LostIsFinite DEF Lost
    <2>4. Cardinality(Lost(game)) <= Cardinality(game.out)
      BY <1>1 DEF Kept
    <2> QED BY <1>2, <2>1, <2>2, <2>3, <2>4
  <1>9. Kept(g)
    BY <1>1, <1>2, <1>3, <1>8 DEF Kept
  <1>10. CASE Cardinality(alive) <= 1
    <2>1. PICK winner : winner = Min(alive)
      OBVIOUS
    <2>2. winner \in who /\ alive = {winner}
      BY <1>3, <1>7, <1>10, <2>1 DEF Alive
    <2>3. game' = [g EXCEPT !.step = "FINISHED", !.winner = winner]
      BY <1>4, <1>7, <1>10, <2>1
    <2> HIDE DEF g
    <2>4. /\ game' \in GameState(who) /\ game'.hands = g.hands /\ game'.out = g.out
          /\ game'.drawn = g.drawn /\ game'.deck = g.deck
          /\ game'.step = "FINISHED" /\ game'.winner = winner
      BY <1>2, <2>2, <2>3 DEF GameState
    <2>5. /\ Seated(game') = who /\ HandsOf(game') = HandsOf(g) /\ Lost(game') = Lost(g)
          /\ Alive(game') = alive /\ \A q : Hidden(game', shown', q) = Hidden(game, shown', q)
      BY <1>2, <1>3, <2>4 DEF Seated, HandsOf, Lost, Alive, Hidden
    <2>6. Kept(game')
      BY <1>3, <1>9, <2>4, <2>5 DEF Kept
    <2>7. OutIsRevealed(game', shown')
      BY <1>6, <2>4, <2>5 DEF OutIsRevealed
    <2>8. TurnIsLiving(game')
      BY <2>2, <2>4, <2>5 DEF TurnIsLiving
    <2>9. p \notin alive /\ alive \subseteq Alive(game)
      BY <1>3
    <2>10. Alive(game)' = alive
      BY <2>5 DEF Alive
    <2> QED BY <1>5, <2>4, <2>6, <2>7, <2>8, <2>9, <2>10 DEF MoveKeeps, GameOK, GameKept
  <1>11. CASE ~(Cardinality(alive) <= 1) /\ game.turn # p
    <2>1. game' = g
      BY <1>4, <1>11
    <2>2. OutIsRevealed(g, shown')
      BY <1>2, <1>3, <1>6 DEF OutIsRevealed, Hidden
    <2>3. TurnIsLiving(g)
      <3>1. Cardinality(alive) >= 2
        BY <1>7, <1>11
      <3>2. game.turn \in alive /\ game.step # "FINISHED"
        BY <1>3, <1>11, BeforeMove
      <3>3. game.step = "PLACING" => game.drawn \in Jokers
        BY DEF GameOK, GameKept, TurnIsLiving
      <3> HIDE DEF g
      <3> QED BY <1>2, <3>1, <3>2, <3>3 DEF TurnIsLiving
    <2>4. p \notin alive /\ alive \subseteq Alive(game)
      BY <1>3
    <2>5. Alive(game)' = alive
      BY <2>1 DEF Alive, Seated
    <2> HIDE DEF g
    <2> QED BY <1>2, <1>5, <1>9, <2>1, <2>2, <2>3, <2>4, <2>5 DEF MoveKeeps, GameOK, GameKept
  <1>12. CASE ~(Cardinality(alive) <= 1) /\ game.turn = p
    <2>1. PICK after : after = shown'
      OBVIOUS
    <2>2. game' \in Advanced(l, after)
      BY <1>4, <1>12, <2>1
    <2> HIDE DEF g
    <2>3. /\ l \in GameState(who) /\ l.hands = g.hands /\ l.out = g.out /\ l.turn = g.turn
          /\ l.drawn = NoTile /\ l.deck = g.deck
      BY <1>2 DEF GameState
    <2> HIDE DEF l
    <2>4. /\ Seated(l) = who /\ HandsOf(l) = HandsOf(g) /\ Alive(l) = alive
          /\ Lost(l) \subseteq Lost(g) \cup {g.drawn}
          /\ \A q : Hidden(l, after, q) = Hidden(game, shown', q)
      BY <1>2, <1>3, <2>1, <2>3 DEF Seated, HandsOf, Alive, Lost, Hidden
    <2>5. Cardinality(Lost(l)) <= Cardinality(l.out)
      <3>1. IsFiniteSet(Lost(game)) /\ Cardinality(Lost(game)) \in Nat
            /\ Cardinality(Lost(l)) \in Nat
        BY LostIsFinite DEF Lost
      <3>2. IsFiniteSet(Lost(game) \cup {g.drawn})
            /\ Cardinality(Lost(game) \cup {g.drawn}) \in Nat
            /\ Cardinality(Lost(game) \cup {g.drawn}) <= Cardinality(Lost(game)) + 1
        <4>1. PICK S, x : S = Lost(game) /\ x = g.drawn
          OBVIOUS
        <4>2. /\ IsFiniteSet(S \cup {x})
              /\ Cardinality(S \cup {x}) = IF x \in S THEN Cardinality(S) ELSE Cardinality(S) + 1
          BY <3>1, <4>1, FS_AddElement
        <4> QED BY <3>1, <4>1, <4>2
      <3>3. Cardinality(Lost(l)) <= Cardinality(Lost(game) \cup {g.drawn})
        BY <1>3, <2>4, <3>2, FS_Subset
      <3>4. Cardinality(l.out) \in Nat
        <4>1. l.out \in SUBSET who
          BY <2>3 DEF GameState
        <4> QED BY <4>1, SeatsAreFinite
      <3>5. Cardinality(Lost(game)) + 1 <= Cardinality(l.out)
        BY <1>8, <2>3
      <3> QED BY <3>1, <3>2, <3>3, <3>4, <3>5
    <2>6. Kept(l)
      <3>1. l.drawn \notin HandsOf(l) \cup l.deck
        BY <2>3, <2>4, <1>1, <1>3, HandsAreTiles, DavinciAssumption DEF GameState
      <3> QED BY <1>3, <1>9, <2>3, <2>4, <2>5, <3>1 DEF Kept
    <2>7. OutSoFar(l, after)
      BY <1>6, <2>3, <2>4 DEF OutSoFar
    <2>8. Cardinality(Alive(l)) >= 2
      BY <1>7, <1>12, <2>4
    <2>9. game' \in GameState(who) /\ GameKept(game', after) /\ Alive(game') \subseteq Alive(l)
      BY <2>2, <2>3, <2>6, <2>7, <2>8, AdvancedKeeps
    <2>10. p \notin alive /\ alive \subseteq Alive(game)
      BY <1>3
    <2>11. Alive(game)' = Alive(game')
      BY DEF Alive, Seated
    <2> QED BY <1>5, <2>1, <2>4, <2>9, <2>10, <2>11 DEF MoveKeeps, GameOK
  <1> QED BY <1>4, <1>10, <1>11, <1>12

\* A hand that is dealt ascends, and has as many tiles as places.
LEMMA DealtHand ==
    ASSUME NEW n \in Nat \ {0}, NEW hand \in Ascending(n)
    PROVE  /\ hand \in Seq(Tiles) /\ Len(hand) = n /\ Range(hand) # {}
           /\ Range(hand) \subseteq Tiles /\ Ordered(hand)
           /\ Cardinality(Range(hand)) = n
  <1>1. /\ hand \in [1 .. n -> Numbered] /\ Numbered \subseteq Tiles /\ Tiles \subseteq Int
        /\ \A i, j \in 1 .. n : i < j => hand[i] < hand[j]
    BY DavinciAssumption DEF Ascending, Numbered
  <1> DEFINE Places == 1 .. n
  <1>2. DOMAIN hand = Places /\ \A i \in Places : hand[i] \in Tiles /\ hand[i] \in Int
    <2>1. hand \in [Places -> Tiles]
      BY <1>1
    <2> HIDE DEF Places
    <2> QED BY <1>1, <2>1
  <1>3. hand \in Seq(Tiles) /\ Len(hand) = n
    <2>1. hand = [i \in 1 .. n |-> hand[i]]
      BY <1>1
    <2>2. hand \in Seq(Tiles)
      BY <1>2, <2>1
    <2> QED BY <1>2, <2>2
  <1>4. Ordered(hand)
    BY <1>1 DEF Ordered
  <1>5. Range(hand) \subseteq Tiles /\ hand[1] \in Range(hand)
    <2>1. 1 \in Places
      OBVIOUS
    <2> HIDE DEF Places
    <2> QED BY <1>2, <2>1 DEF Range
  <1>6. Cardinality(Range(hand)) = n
    <2>1. hand \in Surjection(1 .. n, Range(hand))
      BY <1>1 DEF Surjection, Range
    <2>2. \A i, j \in 1 .. n : hand[i] = hand[j] => i = j
      <3> SUFFICES ASSUME NEW i \in 1 .. n, NEW j \in 1 .. n, i # j
                   PROVE  hand[i] # hand[j]
        OBVIOUS
      <3>1. hand[i] \in Int /\ hand[j] \in Int /\ (i < j \/ j < i)
        BY <1>2
      <3>2. hand[i] < hand[j] \/ hand[j] < hand[i]
        BY <1>1, <3>1
      <3> QED BY <3>1, <3>2
    <2>3. hand \in Injection(1 .. n, Range(hand))
      BY <1>1, <2>1, <2>2 DEF Injection, IsInjective, Surjection
    <2>4. IsFiniteSet(1 .. n) /\ Cardinality(1 .. n) = n
      BY FS_Interval
    <2> QED BY <2>1, <2>3, <2>4, FS_Surjection
  <1> QED BY <1>3, <1>4, <1>5, <1>6

\* A game begins with sorted hands, all hidden, and everybody in it.
LEMMA StartKeeps ==
    ASSUME DavinciStart, roster \subseteq Players
    PROVE  GameOK(roster)' /\ Alive(game)' = roster
  <1>0. PICK h \in Deals(roster) : \E t \in Draws(Tiles \ UNION {Range(h[p]) : p \in roster}) :
          game' = [NoGame EXCEPT
                     !.step = "GUESSING", !.turn = Min(roster), !.hands = h,
                     !.deck = (Tiles \ UNION {Range(h[p]) : p \in roster}) \ {t}, !.drawn = t,
                     !.hits = [p \in roster |-> 0]]
    BY DEF DavinciStart
  <1>1. PICK t \in Draws(Tiles \ UNION {Range(h[p]) : p \in roster}) :
          game' = [NoGame EXCEPT
                     !.step = "GUESSING", !.turn = Min(roster), !.hands = h,
                     !.deck = (Tiles \ UNION {Range(h[p]) : p \in roster}) \ {t}, !.drawn = t,
                     !.hits = [p \in roster |-> 0]]
    BY <1>0, Zenon
  <1> DEFINE dealt == UNION {Range(h[p]) : p \in roster}
             n == HandSize(Cardinality(roster))
  <1>2. n \in Nat \ {0}
    BY DavinciAssumption DEF HandSize
  <1>3. /\ h \in [roster -> Ascending(n)]
        /\ \A p, q \in roster : p # q => Range(h[p]) \cap Range(h[q]) = {}
    BY DEF Deals
  <1> HIDE DEF n
  <1>4. ASSUME NEW p \in roster
        PROVE  /\ h[p] \in Seq(Tiles) /\ Range(h[p]) # {} /\ Range(h[p]) \subseteq Tiles
               /\ Ordered(h[p]) /\ Cardinality(Range(h[p])) = Len(h[p])
    BY <1>2, <1>3, DealtHand
  <1>5. dealt \subseteq Tiles
    BY <1>4
  <1>6. /\ IsFiniteSet(roster) /\ Cardinality(roster) >= 2 /\ Min(roster) \in roster
        /\ shown' = {} /\ roster' = roster
    <2>1. Cardinality(roster) >= MinPlayers /\ MinPlayers \in Nat \ {0, 1}
      BY RoomAssumption DEF DavinciStart, StartRoom
    <2>2. IsFiniteSet(roster) /\ Cardinality(roster) \in Nat /\ roster \in SUBSET Nat
      BY SeatsAreFinite
    <2>3. roster # {}
      BY <2>1, <2>2, FS_EmptySet
    <2> QED BY <2>1, <2>2, <2>3, LeastOf DEF DavinciStart, StartRoom
  <1>7. /\ t \in Tiles \cup {NoTile} /\ t \notin dealt
        /\ t # NoTile => t \in Tiles \ dealt
        /\ t = NoTile => Tiles \ dealt = {}
    BY <1>5, DavinciAssumption DEF Draws
  <1> HIDE DEF dealt
  <1>8. game' = [step |-> "GUESSING", turn |-> Min(roster), hands |-> h,
                 deck |-> (Tiles \ dealt) \ {t}, drawn |-> t, out |-> {}, winner |-> Nobody,
                 hits |-> [p \in roster |-> 0]]
    BY <1>1 DEF NoGame, dealt
  <1>9. game' \in GameState(roster)
    <2>1. h \in [roster -> Seq(Tiles)]
      BY <1>3, <1>4
    <2>2. [p \in roster |-> 0] \in [roster -> Nat]
      OBVIOUS
    <2>3. (Tiles \ dealt) \ {t} \in SUBSET Tiles /\ {} \in SUBSET roster
      OBVIOUS
    <2> QED BY <1>6, <1>7, <1>8, <2>1, <2>2, <2>3 DEF GameState
  <1>10. /\ Seated(game') = roster /\ HandsOf(game') = dealt /\ Alive(game') = roster
         /\ Lost(game') = {}
    <2>1. Seated(game') = roster /\ game'.hands = h
      BY <1>3, <1>8 DEF Seated
    <2>2. HandsOf(game') = dealt
      BY <2>1 DEF HandsOf, dealt
    <2>3. Lost(game') = {}
      BY <1>7, <1>8, <2>2 DEF Lost
    <2>4. Alive(game') = roster
      BY <1>8, <2>1 DEF Alive
    <2> QED BY <2>1, <2>2, <2>3, <2>4
  <1>11. Kept(game')
    <2>1. Cardinality(Lost(game')) <= Cardinality(game'.out)
      <3>1. game'.out = {} /\ Lost(game') = {}
        BY <1>8, <1>10
      <3>2. Cardinality({}) <= Cardinality({})
        BY FS_EmptySet
      <3> QED BY <3>1, <3>2
    <2>2. game'.deck \cap dealt = {} /\ game'.drawn \notin dealt \cup game'.deck
      BY <1>7, <1>8
    <2>3. /\ \A p, q \in roster : p # q => Range(game'.hands[p]) \cap Range(game'.hands[q]) = {}
          /\ \A p \in roster : /\ Cardinality(Range(game'.hands[p])) = Len(game'.hands[p])
                               /\ Ordered(game'.hands[p])
      BY <1>3, <1>4, <1>8
    <2> QED BY <1>10, <2>1, <2>2, <2>3 DEF Kept
  <1>12. OutIsRevealed(game', shown')
    <2> SUFFICES ASSUME NEW p \in roster
                 PROVE  Hidden(game', shown', p) # {} /\ p \notin game'.out
      BY <1>10 DEF OutIsRevealed
    <2> QED BY <1>4, <1>6, <1>8 DEF Hidden
  <1>13. TurnIsLiving(game')
    <2>1. game'.step = "GUESSING" /\ game'.turn = Min(roster)
      BY <1>8
    <2> QED BY <1>6, <1>10, <2>1 DEF TurnIsLiving
  <1>14. Alive(game)' = roster
    BY <1>10 DEF Alive, Seated
  <1> QED BY <1>6, <1>9, <1>11, <1>12, <1>13, <1>14 DEF GameOK, GameKept

-----------------------------------------------------------------------------
(* The invariant in a room.                                                *)

\* A game is in order, and whoever is alive in it has a seat in the room.
DavinciOK ==
    /\ game = NoGame \/ \E who \in SUBSET Players : GameOK(who)
    /\ shown \in SUBSET Tiles
    /\ Live => Alive(game) \subseteq roster

\* Steps that leave the game alone, or take it away.
LEMMA GameUntouched ==
    ASSUME DavinciOK, UNCHANGED davinciVars, Live => Alive(game) \subseteq roster'
    PROVE  DavinciOK'
  <1>1. game' = game /\ shown' = shown
    BY DEF davinciVars
  <1>2. \A who : GameOK(who)' <=> GameOK(who)
    BY <1>1 DEF GameOK
  <1> QED BY <1>1, <1>2 DEF DavinciOK, Live, Alive, Seated

LEMMA GameTaken ==
    ASSUME game' = NoGame, shown' = {}
    PROVE  DavinciOK'
  <1>1. ~Live'
    BY DEF Live, NoGame
  <1> QED BY <1>1 DEF DavinciOK

\* Steps that move it.
LEMMA GameMoved ==
    ASSUME NEW who \in SUBSET Players, MoveKeeps(who), Alive(game)' \subseteq roster'
    PROVE  DavinciOK'
  BY DEF MoveKeeps, DavinciOK, GameOK

\* The steps of the module keep it.
LEMMA DavinciNextKeeps ==
    ASSUME AllOK, DavinciOK, DavinciNext
    PROVE  DavinciOK'
  <1>1. roster \subseteq Players
    BY DEF AllOK, Dispatched
  <1>2. ASSUME Live
        PROVE  \E who \in SUBSET Players : GameOK(who)
    <2>1. game # NoGame
      BY <1>2 DEF Live, NoGame
    <2> QED BY <2>1 DEF DavinciOK
  <1>3. CASE DavinciStart
    <2>1. GameOK(roster)' /\ Alive(game)' = roster /\ roster' = roster
      BY <1>1, <1>3, StartKeeps DEF DavinciStart, StartRoom
    <2>2. roster \in SUBSET Players
      BY <1>1
    <2> QED BY <2>1, <2>2 DEF DavinciOK, GameOK
  <1>4. CASE DavinciDeadline
    <2>1. CASE timer = "stale" \/ ~Live
      <3>1. UNCHANGED davinciVars /\ roster' = roster
        BY <1>4, <2>1 DEF DavinciDeadline
      <3> QED BY <3>1, GameUntouched DEF DavinciOK
    <2>2. CASE timer # "stale" /\ Live
      <3>1. PICK who \in SUBSET Players : GameOK(who)
        BY <1>2, <2>2
      <3>2. roster' = roster
        BY <1>4 DEF DavinciDeadline
      <3>3. MoveKeeps(who)
        BY <1>4, <2>2, <3>1, DeadlineKeeps
      <3> QED BY <2>2, <3>2, <3>3, GameMoved DEF MoveKeeps, DavinciOK
    <2> QED BY <2>1, <2>2
  <1>5. ASSUME NEW p \in Players, Guess(p) \/ Continue(p) \/ Stop(p) \/ Place(p)
        PROVE  DavinciOK'
    <2>1. Live
      <3>1. game.step \in {"GUESSING", "DECIDING", "PLACING"}
        BY <1>5, Zenon DEF Guess, Continue, Stop, Place
      <3> QED BY <3>1 DEF Live
    <2>2. PICK who \in SUBSET Players : GameOK(who)
      BY <1>2, <2>1
    <2>3. MoveKeeps(who)
      BY <1>5, <2>2, InputKeeps
    <2>4. roster' = roster
      BY <1>5, Zenon DEF Guess, Continue, Stop, Place
    <2> QED BY <2>1, <2>3, <2>4, GameMoved DEF MoveKeeps, DavinciOK
  <1>6. ASSUME NEW p \in Players, DavinciLeave(p)
        PROVE  DavinciOK'
    <2>1. roster' \in {roster \ {p}, roster} /\ Forfeited(p)
      BY <1>6 DEF DavinciLeave
    <2>2. CASE ~Live \/ p \notin Alive(game)
      <3>1. UNCHANGED davinciVars
        BY <2>1, <2>2 DEF Forfeited, davinciVars
      <3>2. Live => Alive(game) \subseteq roster'
        BY <2>1, <2>2 DEF DavinciOK
      <3> QED BY <3>1, <3>2, GameUntouched
    <2>3. CASE Live /\ p \in Alive(game)
      <3>1. PICK who \in SUBSET Players : GameOK(who)
        BY <1>2, <2>3
      <3>2. MoveKeeps(who) /\ p \notin Alive(game)'
        BY <2>1, <2>3, <3>1, ForfeitKeeps
      <3>3. Alive(game)' \subseteq roster'
        BY <2>1, <2>3, <3>2 DEF MoveKeeps, DavinciOK
      <3> QED BY <3>2, <3>3, GameMoved
    <2> QED BY <2>2, <2>3
  <1>7. CASE DavinciReset \/ DavinciClose
    BY <1>7, GameTaken DEF DavinciReset, DavinciClose
  <1>8. CASE DavinciRestart
    <2>1. UNCHANGED davinciVars /\ roster' = roster
      BY <1>8 DEF DavinciRestart, RestartRoom
    <2> QED BY <2>1, GameUntouched DEF DavinciOK
  <1> QED BY <1>3, <1>4, <1>5, <1>6, <1>7, <1>8 DEF DavinciNext

\* The rest of the room does not touch it.
LEMMA DavinciStepOK ==
    ASSUME AllOK, DavinciOK, [Next]_vars
    PROVE  DavinciOK'
  <1>1. CASE DavinciNext
    BY <1>1, DavinciNextKeeps
  <1>2. ASSUME UNCHANGED davinciVars, Live => roster' = roster
        PROVE  DavinciOK'
    BY <1>2, GameUntouched DEF DavinciOK
  <1>3. Live => code = "davinci_code" /\ phase = "PLAYING"
    BY DEF Live, NoGame, AllOK, Dispatched, OwnGame, RoomOK, ClockOfTheGame, Running
  <1>4. CASE (DuelNext /\ UNCHANGED <<davinciVars, pingPongVars>>)
             \/ (PingPongNext /\ UNCHANGED <<davinciVars, duel>>)
    <2>1. ~Live
      BY <1>3, <1>4, RightModule DEF AllOK, Dispatched
    <2> QED BY <1>2, <1>4, <2>1
  <1>5. ASSUME NEW p \in Players, Leave(p)
        PROVE  DavinciOK'
    BY <1>2, <1>3, <1>5 DEF Leave, LeaveIdle, gameVars
  <1>6. CASE UNCHANGED vars
    BY <1>2, <1>6 DEF vars, gameVars, room
  <1> QED BY <1>1, <1>4, <1>5, <1>6 DEF Next

LEMMA AlwaysDavinciOK == Spec => []DavinciOK
  <1>1. Init => DavinciOK
    BY DEF Init, InitDavinci, DavinciOK, Live, NoGame
  <1>2. AllOK /\ DavinciOK /\ [Next]_vars => DavinciOK'
    BY DavinciStepOK
  <1> QED BY <1>1, <1>2, AlwaysAllOK, PTL DEF Spec

-----------------------------------------------------------------------------
(* The room around it.                                                     *)

\* The end of a game is the end of a game between the same players.
LEMMA SamePlayers ==
    ASSUME AllOK, [Next]_vars, phase = "PLAYING", phase' = "FINISHED"
    PROVE  Participants' = Participants
  <1>1. /\ Dispatched /\ DuelOK /\ MatchOK /\ GameShape /\ code' = code
        /\ Live => code = "davinci_code"
        /\ DuelLive => code = "duel"
        /\ MatchLive => code = "ping_pong"
        /\ Live \/ DuelLive \/ MatchLive
    BY RosterShrinks DEF AllOK, RoomOK, Dispatched, OwnGame, Live, DuelLive, MatchLive, NoGame,
           NoDuel, NoMatch, ClockOfTheGame, Running
  <1>2. CASE DavinciNext
    <2>1. code = "davinci_code" /\ Live
      BY <1>1, <1>2, RightModule DEF Dispatched, Live, DuelLive, MatchLive
    <2>2. CASE DavinciDeadline
      <3>1. timer # "stale"
        BY <2>2, <1>1 DEF DavinciDeadline, FiresStale
      <3> QED BY <1>1, <2>1, <2>2, <3>1, DavinciDeadlineMoves DEF Moved, Participants, Seated
    <2>3. ASSUME NEW p \in Players, Guess(p) \/ Continue(p) \/ Stop(p) \/ Place(p)
          PROVE  Participants' = Participants
      BY <1>1, <2>1, <2>3, TurnMoves DEF Moved, Participants, Seated
    <2>4. ASSUME NEW p \in Players, DavinciLeave(p)
          PROVE  Participants' = Participants
      <3>1. Forfeited(p)
        BY <2>4 DEF DavinciLeave
      <3> QED BY <1>1, <2>1, <3>1, ForfeitMoves DEF Moved, Participants, Seated
    <2> QED BY <1>2, <2>2, <2>3, <2>4
            DEF DavinciNext, DavinciStart, StartRoom, DavinciReset, ReturnRoom,
                DavinciClose, CloseRoom, DavinciRestart, RestartRoom
  <1>3. CASE DuelNext
    <2>1. code = "duel" /\ DuelLive
      BY <1>1, <1>3, RightModule DEF Dispatched
    <2>2. Sides' = Sides => Participants' = Participants
      BY <1>1, <2>1 DEF Participants
    <2>3. CASE DuelDeadline
      <3>1. timer # "stale"
        BY <2>3 DEF DuelDeadline, FiresStale
      <3> QED BY <1>1, <2>1, <2>2, <2>3, <3>1, DuelDeadlineOK
    <2>4. ASSUME NEW p \in Players, Draw(p)
          PROVE  Participants' = Participants
      BY <1>1, <2>2, <2>4, DrawOK
    <2>5. ASSUME NEW p \in Players, DuelLeave(p)
          PROVE  Participants' = Participants
      <3>1. p \in Sides /\ DuelForfeit(p)
        BY <2>1, <2>5 DEF DuelLeave, AllOK, RoomOK, Participants
      <3> QED BY <1>1, <2>1, <2>2, <3>1, DuelLeaveOK
    <2> QED BY <1>3, <2>3, <2>4, <2>5
            DEF DuelNext, DuelStart, StartRoom, DuelReset, ReturnRoom,
                DuelClose, CloseRoom, DuelRestart, RestartRoom
  <1>4. CASE PingPongNext
    <2>1. code = "ping_pong" /\ MatchLive
      BY <1>1, <1>4, RightModule DEF Dispatched
    <2> SUFFICES DOMAIN match'.points = DOMAIN match.points
      BY <1>1, <2>1 DEF Participants
    <2>2. PICK p \in Players : TRUE
      BY <1>1, <2>1 DEF MatchOK, MatchLive, NoMatch
    <2>3. CASE match' = match
      BY <2>3
    <2>4. CASE match' # match /\ PingPongDeadline
      <3>1. timer # "stale"
        BY <2>4 DEF PingPongDeadline, FiresStale, pingPongVars
      <3>2. \/ match' = AfterPoint
            \/ match' = [match EXCEPT !.step = "PLAYING", !.fault = FALSE,
                                      !.toward = match.receiver]
        BY <2>1, <2>4, <3>1 DEF PingPongDeadline
      <3> QED BY <1>1, <2>1, <2>2, <2>4, <3>2, PointsKept DEF MatchLive
    <2>5. ASSUME match' # match, NEW q \in Players, Practise(q) \/ Ready(q) \/ Swing(q)
          PROVE  DOMAIN match'.points = DOMAIN match.points
      BY <1>1, <2>1, <2>5, PointsKept DEF MatchLive
    <2>6. ASSUME match' # match, NEW q \in Players, PingPongLeave(q)
          PROVE  DOMAIN match'.points = DOMAIN match.points
      <3>1. PingPongForfeit(q)
        BY <2>6 DEF PingPongLeave, Cancelled
      <3> QED BY <1>1, <2>1, <2>6, <3>1, PointsKept DEF MatchLive
    <2> QED BY <1>4, <2>3, <2>4, <2>5, <2>6
            DEF PingPongNext, PingPongStart, StartRoom, PingPongReset, ReturnRoom,
                PingPongClose, CloseRoom, PingPongRestart, RestartRoom
  <1> QED BY <1>2, <1>3, <1>4 DEF Next, Leave, LeaveIdle, vars, room

\* What a finished game pays out is a number of points.
LEMMA PointsAreNumbers ==
    ASSUME AllOK, AllOK', DavinciOK', RoomTypeOK, [Next]_vars,
           phase = "PLAYING", phase' = "FINISHED", NEW p \in roster'
    PROVE  scores'[p] \in Nat
  <1>1. /\ scores'[p] = Earned(p)' /\ p \in Participants'
        /\ Dispatched' /\ DuelOK' /\ MatchOK'
    BY SamePlayers, RosterShrinks DEF AllOK, RoomOK, RankedByThisGame
  <1>2. code' \in {"davinci_code", "duel", "ping_pong"}
    BY RosterShrinks, RoomAssumption DEF RoomTypeOK
  <1>3. CASE code' = "davinci_code"
    <2>1. p \in Seated(game)' /\ scores'[p] = ScoreOf(game', shown', p)
      BY <1>1, <1>3 DEF Participants, Earned, ScoreOf, Hidden, Seated
    <2>2. game' # NoGame
      BY <2>1 DEF Seated, NoGame
    <2>3. PICK who \in SUBSET Players : game' \in GameState(who)
      BY <2>2 DEF DavinciOK, GameOK
    <2>4. game'.hits[p] \in Nat /\ p \in who
      BY <2>1, <2>3 DEF GameState, Seated
    <2>5. Range(game'.hands[p]) \subseteq Tiles
      BY <2>3, <2>4, HandsAreTiles
    <2>6. Cardinality(Hidden(game', shown', p)) \in Nat
      BY <2>5, LostIsFinite DEF Hidden
    <2> QED BY <2>1, <2>4, <2>6 DEF ScoreOf
  <1>4. CASE code' = "duel"
    <2>1. p \in Sides' /\ scores'[p] = IF p = duel'.last.ko THEN 0 ELSE duel'.hp[p]
      BY <1>1, <1>4 DEF Participants, Earned
    <2>2. duel' # NoDuel
      BY <2>1 DEF Sides, NoDuel
    <2>3. PICK a \in Players, b \in Players :
            duel'.hp \in [{a, b} -> 0 .. MaxHp]
      BY <1>1, <2>2 DEF DuelOK, DuelTypeOK
    <2> QED BY <2>1, <2>3, DuelAssumption DEF Sides
  <1>5. CASE code' = "ping_pong"
    <2>1. p \in DOMAIN match'.points /\ scores'[p] = match'.points[p]
      BY <1>1, <1>5 DEF Participants, Earned
    <2>2. match' # NoMatch
      BY <2>1 DEF NoMatch
    <2>3. PICK a \in Players, b \in Players : match'.points \in [{a, b} -> Nat]
      BY <1>1, <2>2, Zenon DEF MatchOK, MatchOf, MatchState
    <2> QED BY <2>1, <2>3
  <1> QED BY <1>1, <1>2, <1>3, <1>4, <1>5

\* What a step may do to the room: points other than zero come with the end of a game.
RoomMoves ==
    /\ phase' \in {"LOBBY", "PLAYING", "FINISHED", "GONE"}
    /\ timer' \in {"none", "current", "stale"}
    /\ games' \in 0 .. MaxGames /\ restarts' \in 0 .. MaxRestarts
    /\ scores' = [p \in roster' |-> scores'[p]]
    /\ \/ phase = "PLAYING" /\ phase' = "FINISHED"
       \/ \A p \in roster' : scores'[p] \in {scores[p], 0}

\* Starting, going on, ending and restarting.
LEMMA RoomParts ==
    ASSUME RoomTypeOK, roster' \subseteq roster, NEW clock \in {"none", "current"}
    PROVE  /\ StartRoom(clock) => RoomMoves
           /\ Fixed /\ GoesOn(clock) => RoomMoves
           /\ \A points : Fixed /\ Ends(points) /\ phase = "PLAYING" => RoomMoves
           /\ Fixed /\ UNCHANGED <<phase, timer>> /\ scores' = Remaining => RoomMoves
           /\ Fixed /\ FiresStale /\ roster' = roster => RoomMoves
           /\ ReturnRoom => RoomMoves
           /\ CloseRoom => RoomMoves
           /\ \A live : RestartRoom(live, clock) => RoomMoves
  <1>1. /\ phase \in {"LOBBY", "PLAYING", "FINISHED", "GONE"}
        /\ timer \in {"none", "current", "stale"}
        /\ games \in 0 .. MaxGames /\ restarts \in 0 .. MaxRestarts
        /\ MaxGames \in Nat /\ MaxRestarts \in Nat
        /\ scores = [p \in roster |-> scores[p]]
    BY RoomAssumption DEF RoomTypeOK
  <1>2. StartRoom(clock) => RoomMoves
    BY <1>1 DEF StartRoom, RoomMoves
  <1>3. Fixed /\ GoesOn(clock) => RoomMoves
    BY <1>1 DEF Fixed, GoesOn, Remaining, RoomMoves
  <1>4. ASSUME NEW points, Fixed, Ends(points), phase = "PLAYING"
        PROVE  RoomMoves
    BY <1>1, <1>4 DEF Fixed, Ends, RoomMoves
  <1>5. Fixed /\ UNCHANGED <<phase, timer>> /\ scores' = Remaining => RoomMoves
    BY <1>1 DEF Fixed, Remaining, RoomMoves
  <1>6. Fixed /\ FiresStale /\ roster' = roster => RoomMoves
    BY <1>1 DEF Fixed, FiresStale, RoomMoves
  <1>7. ReturnRoom => RoomMoves
    BY <1>1 DEF ReturnRoom, RoomMoves
  <1>8. CloseRoom => RoomMoves
    <2> SUFFICES ASSUME CloseRoom PROVE RoomMoves
      OBVIOUS
    <2>1. /\ phase' = "GONE" /\ roster' = {} /\ scores' = <<>> /\ timer' = "none"
          /\ games' = games /\ restarts' = restarts
      BY DEF CloseRoom
    <2>2. scores' = [p \in roster' |-> scores'[p]]
      BY <2>1
    <2> QED BY <1>1, <2>1, <2>2 DEF RoomMoves
  <1>9. ASSUME NEW live, RestartRoom(live, clock)
        PROVE  RoomMoves
    BY <1>1, <1>9 DEF RestartRoom, RoomMoves
  <1> QED BY <1>2, <1>3, <1>4, <1>5, <1>6, <1>7, <1>8, <1>9

LEMMA EveryRoomMoves ==
    ASSUME AllOK, RoomTypeOK, [Next]_vars
    PROVE  RoomMoves
  <1>1. /\ Running => phase = "PLAYING"
        /\ roster' \subseteq roster
    BY RosterShrinks DEF AllOK, RoomOK, ClockOfTheGame
  <1> USE <1>1 DEF Running
  <1>2. CASE DavinciNext
    <2>1. DavinciChanged /\ Fixed /\ Live => RoomMoves
      BY RoomParts DEF DavinciChanged
    <2>2. CASE DavinciDeadline
      BY <2>1, <2>2, RoomParts DEF DavinciDeadline
    <2>3. ASSUME NEW p \in Players, Guess(p) \/ Continue(p) \/ Stop(p) \/ Place(p)
          PROVE  RoomMoves
      <3>1. game.step \in {"GUESSING", "DECIDING", "PLACING"} /\ DavinciChanged /\ Fixed
        BY <2>3, Zenon DEF Guess, Continue, Stop, Place
      <3>2. Live
        BY <3>1 DEF Live
      <3> QED BY <2>1, <3>1, <3>2
    <2>4. ASSUME NEW p \in Players, DavinciLeave(p)
          PROVE  RoomMoves
      BY <2>1, <2>4, RoomParts DEF DavinciLeave, Forfeited
    <2> QED BY <1>2, <2>2, <2>3, <2>4, RoomParts
            DEF DavinciNext, DavinciStart, DavinciReset, DavinciClose, DavinciRestart
  <1>3. CASE DuelNext
    <2>1. DuelChanged /\ Fixed /\ DuelLive => RoomMoves
      BY RoomParts DEF DuelChanged
    <2>2. CASE DuelDeadline
      BY <2>1, <2>2, RoomParts DEF DuelDeadline
    <2>3. ASSUME NEW p \in Players, Draw(p)
          PROVE  RoomMoves
      BY <2>1, <2>3 DEF Draw
    <2>4. ASSUME NEW p \in Players, DuelLeave(p)
          PROVE  RoomMoves
      BY <2>1, <2>4, RoomParts DEF DuelLeave, DuelForfeit
    <2> QED BY <1>3, <2>2, <2>3, <2>4, RoomParts
            DEF DuelNext, DuelStart, DuelReset, DuelClose, DuelRestart
  <1>4. CASE PingPongNext
    <2>1. Clock(match) \in {"none", "current"} /\ Clock(match') \in {"none", "current"}
      BY DEF Clock
    <2>2. PingPongChanged /\ Fixed /\ MatchLive => RoomMoves
      BY <2>1, RoomParts DEF PingPongChanged
    <2>3. CASE PingPongDeadline
      BY <2>2, <2>3, RoomParts DEF PingPongDeadline
    <2>4. ASSUME NEW p \in Players, Practise(p) \/ Ready(p) \/ Swing(p)
          PROVE  RoomMoves
      <3>1. /\ match.step \in {"PREPARING", "COUNTDOWN", "PLAYING"} /\ Fixed /\ roster' = roster
            /\ PingPongChanged \/ UNCHANGED <<phase, timer, scores>>
        BY <2>4, Zenon DEF Practise, Ready, Swing
      <3>2. MatchLive
        BY <3>1 DEF MatchLive
      <3>3. UNCHANGED <<phase, timer, scores>> => UNCHANGED <<phase, timer>> /\ scores' = Remaining
        BY <3>1 DEF RoomTypeOK, Remaining
      <3> QED BY <2>2, <3>1, <3>2, <3>3, RoomParts
    <2>5. ASSUME NEW p \in Players, PingPongLeave(p)
          PROVE  RoomMoves
      <3>1. CASE match.step = "PREPARING"
        <4>1. Fixed /\ phase' = "LOBBY" /\ timer' = "none" /\ scores' = Remaining
          BY <2>5, <3>1 DEF PingPongLeave, Cancelled
        <4> QED BY <4>1 DEF RoomTypeOK, RoomMoves, Remaining, Fixed
      <3>2. CASE match.step # "PREPARING"
        <4>1. PingPongChanged /\ Fixed /\ phase = "PLAYING"
          BY <2>5, <3>2 DEF PingPongLeave
        <4> QED BY <2>1, <4>1, RoomParts DEF PingPongChanged
      <3> QED BY <3>1, <3>2
    <2> QED BY <1>4, <2>1, <2>3, <2>4, <2>5, RoomParts
            DEF PingPongNext, PingPongStart, PingPongReset, PingPongClose, PingPongRestart
  <1>5. ASSUME NEW p \in Players, Leave(p)
        PROVE  RoomMoves
    BY <1>5 DEF Leave, LeaveIdle, RoomTypeOK, RoomMoves, Remaining
  <1>6. CASE UNCHANGED vars
    BY <1>6 DEF vars, room, RoomTypeOK, RoomMoves
  <1> QED BY <1>2, <1>3, <1>4, <1>5, <1>6 DEF Next

LEMMA RoomTyped ==
    ASSUME AllOK, AllOK', DavinciOK', RoomTypeOK, [Next]_vars
    PROVE  RoomTypeOK'
  <1>1. RoomMoves /\ code' = code /\ roster' \subseteq roster
    BY EveryRoomMoves, RosterShrinks
  <1>2. ASSUME NEW p \in roster'
        PROVE  scores'[p] \in Nat
    <2>1. CASE phase = "PLAYING" /\ phase' = "FINISHED"
      BY <2>1, PointsAreNumbers
    <2>2. CASE ~(phase = "PLAYING" /\ phase' = "FINISHED")
      BY <1>1, <2>2 DEF RoomMoves, RoomTypeOK
    <2> QED BY <2>1, <2>2
  <1>3. scores' \in [roster' -> Nat]
    BY <1>1, <1>2 DEF RoomMoves
  <1> QED BY <1>1, <1>3 DEF RoomTypeOK, RoomMoves

\* Every room has the type of a room.
THEOREM RoomsAreTyped == Spec => []RoomTypeOK
  <1>1. Init => RoomTypeOK
    BY RoomAssumption DEF Init, InitRoom, RoomTypeOK
  <1>2. AllOK /\ AllOK' /\ DavinciOK' /\ RoomTypeOK /\ [Next]_vars => RoomTypeOK'
    BY RoomTyped
  <1> QED BY <1>1, <1>2, AlwaysAllOK, AlwaysDavinciOK, PTL DEF Spec

-----------------------------------------------------------------------------
(* The theorems.                                                           *)

\* Tiles are dealt, drawn, inserted and revealed one by one: none is in two places,
\* none is lost but the one a leaver was holding, and every hand can be read in order.
THEOREM TilesAreNeverLost == Spec => []HandsAreKept
  <1>1. ASSUME NEW who \in SUBSET Players, GameOK(who)
        PROVE  HandsAreKept
    <2>1. game \in GameState(who) /\ Kept(game) /\ Seated(game) = who /\ InHands = HandsOf(game)
      BY <1>1, HandsAreTiles DEF GameOK, GameKept, InHands, HandsOf
    <2>2. Seated(game) \ Alive(game) = game.out
      BY <2>1 DEF Alive, GameState
    <2>3. TilesAreKept
      BY <2>1, <2>2 DEF TilesAreKept, Kept, Lost
    <2>4. HandsAscend
      BY <2>1 DEF HandsAscend, Kept, Ordered
    <2> QED BY <2>3, <2>4 DEF HandsAreKept
  <1>2. game = NoGame => HandsAreKept
    BY DEF HandsAreKept, TilesAreKept, HandsAscend, Seated, NoGame
  <1>3. DavinciOK => HandsAreKept
    BY <1>1, <1>2 DEF DavinciOK
  <1> QED BY <1>3, AlwaysDavinciOK, PTL

\* A player is out exactly when nothing of theirs is hidden; as long as the game runs two
\* are left and one of them, who has a seat in the room, has the turn; the last one wins.
THEOREM TurnsAreOfTheLiving == Spec => []LivingPlay
  <1>1. ASSUME NEW who \in SUBSET Players, GameOK(who), DavinciOK
        PROVE  DavinciTypeOK /\ OutIsAllRevealed /\ TurnOfTheLiving
    <2>1. game \in GameState(who) /\ GameKept(game, shown) /\ shown \subseteq Tiles
          /\ Seated(game) = who
      BY <1>1, HandsAreTiles DEF GameOK
    <2>2. DavinciTypeOK
      BY <2>1 DEF DavinciTypeOK, GameState, NoGame
    <2>3. OutIsAllRevealed
      BY <2>1 DEF OutIsAllRevealed, GameKept, OutIsRevealed
    <2>4. TurnOfTheLiving
      BY <1>1, <2>1 DEF TurnOfTheLiving, GameKept, TurnIsLiving, DavinciOK, Live
    <2> QED BY <2>2, <2>3, <2>4
  <1>2. ASSUME game = NoGame, DavinciOK
        PROVE  DavinciTypeOK /\ OutIsAllRevealed /\ TurnOfTheLiving
    BY <1>2 DEF DavinciTypeOK, OutIsAllRevealed, TurnOfTheLiving, DavinciOK, Live, Seated, NoGame
  <1>3. DavinciOK /\ RoomTypeOK => LivingPlay
    BY <1>1, <1>2 DEF DavinciOK, LivingPlay
  <1> QED BY <1>3, AlwaysDavinciOK, RoomsAreTyped, PTL

=============================================================================
