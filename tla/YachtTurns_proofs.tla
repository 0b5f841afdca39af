-------------------------- MODULE YachtTurns_proofs --------------------------
(***************************************************************************)
(* What holds of YachtTurns for any number of players, rounds, rolls,      *)
(* games, restarts and handlers under way together.  First the list of     *)
(* turns: how it is made, advanced and shortened.  Then types, game.over,  *)
(* scores, and that the list implements TurnCycle.  Last what handlers     *)
(* that run one after the other may rely on: seats, timer, missed turns.   *)
(***************************************************************************)
EXTENDS YachtTurns, FiniteSetTheorems, SequenceTheorems, WellFoundedInduction, TLAPS

-----------------------------------------------------------------------------
(* The order of the turns.                                                   *)

\* q lists S from the smallest number on.
Lists(q, S) ==
    /\ q \in [1 .. Cardinality(S) -> S]
    /\ \A x \in S : \E i \in 1 .. Cardinality(S) : q[i] = x
    /\ \A i, j \in 1 .. Cardinality(S) : i < j => q[i] < q[j]

\* Sets of numbers have a smallest one.
LEMMA SmallestOf ==
    ASSUME NEW S \in SUBSET Nat, S # {}
    PROVE  \E m \in S : \A x \in S : m <= x
  <1>1. PICK m \in S : \A x \in S : ~ <<x, m>> \in OpToRel(<, Nat)
    BY NatLessThanWellFounded, WFMin
  <1>2. ASSUME NEW x \in S
        PROVE  m <= x
    <2>1. ~ (x < m)
      BY <1>1 DEF OpToRel
    <2> QED BY <2>1
  <1> QED BY <1>2

\* A list of all but the smallest, with the smallest in front.
LEMMA ListsMore ==
    ASSUME NEW S \in SUBSET Nat, IsFiniteSet(S), NEW m \in S, \A x \in S : m <= x,
           NEW q, Lists(q, S \ {m})
    PROVE  \E r : Lists(r, S)
  <1> DEFINE n == Cardinality(S)
             r == [i \in 1 .. n |-> IF i = 1 THEN m ELSE q[i - 1]]
  <1>1. n \in Nat /\ n > 0 /\ Cardinality(S \ {m}) = n - 1
    <2>1. n \in Nat
      BY FS_CardinalityType
    <2>2. n # 0
      BY FS_EmptySet
    <2>3. Cardinality(S \ {m}) = n - 1
      BY FS_RemoveElement
    <2> QED BY <2>1, <2>2, <2>3
  <1>2. /\ q \in [1 .. (n - 1) -> S \ {m}]
        /\ \A i \in 2 .. n : i - 1 \in 1 .. (n - 1) /\ q[i - 1] \in S \ {m}
    <2>1. q \in [1 .. (n - 1) -> S \ {m}]
      BY <1>1 DEF Lists
    <2>2. \A i \in 2 .. n : i - 1 \in 1 .. (n - 1)
      BY <1>1
    <2> QED BY <2>1, <2>2
  <1>3. r \in [1 .. n -> S]
    BY <1>1, <1>2
  <1>4. ASSUME NEW x \in S
        PROVE  \E i \in 1 .. n : r[i] = x
    <2>1. CASE x = m
      BY <1>1, <2>1
    <2>2. CASE x # m
      <3>1. PICK i \in 1 .. (n - 1) : q[i] = x
        BY <1>1, <2>2 DEF Lists
      <3>2. i + 1 \in 1 .. n /\ i + 1 # 1 /\ (i + 1) - 1 = i
        BY <1>1
      <3> QED BY <3>1, <3>2
    <2> QED BY <2>1, <2>2
  <1>5. ASSUME NEW i \in 1 .. n, NEW j \in 1 .. n, i < j
        PROVE  r[i] < r[j]
    <2>1. j \in 2 .. n /\ r[j] = q[j - 1]
      BY <1>1, <1>5
    <2>2. CASE i = 1
      <3>1. q[j - 1] \in S /\ q[j - 1] # m
        BY <1>2, <2>1
      <3>2. m <= q[j - 1] /\ m \in Nat /\ q[j - 1] \in Nat
        BY <3>1
      <3>3. r[i] = m
        BY <2>2
      <3> HIDE DEF r
      <3> QED BY <2>1, <3>1, <3>2, <3>3
    <2>3. CASE i # 1
      <3>1. r[i] = q[i - 1]
        BY <2>3
      <3>2. i - 1 \in 1 .. (n - 1) /\ j - 1 \in 1 .. (n - 1) /\ i - 1 < j - 1
        BY <1>1, <1>5, <2>3
      <3>3. q[i - 1] < q[j - 1]
        BY <1>1, <3>2 DEF Lists
      <3> QED BY <2>1, <3>1, <3>3
    <2> QED BY <2>2, <2>3
  <1> HIDE DEF r
  <1> QED BY <1>3, <1>4, <1>5 DEF Lists

\* Every finite set of numbers can be listed: a smallest set without a list would
\* have one by its smallest element.
LEMMA ListExists ==
    ASSUME NEW S \in SUBSET Nat, IsFiniteSet(S)
    PROVE  \E q : Lists(q, S)
  <1> DEFINE Bad == {T \in SUBSET S : ~ \E q : Lists(q, T)}
             Sizes == {Cardinality(T) : T \in Bad}
  <1> SUFFICES ASSUME Bad # {} PROVE FALSE
    OBVIOUS
  <1>1. \A T \in Bad : IsFiniteSet(T) /\ Cardinality(T) \in Nat /\ T \subseteq Nat
    BY FS_Subset, FS_CardinalityType
  <1>2. Sizes \in SUBSET Nat /\ Sizes # {}
    BY <1>1
  <1>3. PICK n \in Sizes : \A k \in Sizes : n <= k
    BY <1>2, SmallestOf
  <1>4. PICK T \in Bad : Cardinality(T) = n
    OBVIOUS
  <1>5. CASE T = {}
    <2>1. Cardinality(T) = 0
      BY <1>5, FS_EmptySet
    <2>2. Lists([i \in 1 .. 0 |-> i], T)
      BY <1>5, <2>1 DEF Lists
    <2> QED BY <2>2
  <1>6. CASE T # {}
    <2>1. PICK m \in T : \A x \in T : m <= x
      BY <1>1, <1>6, SmallestOf
    <2>2. Cardinality(T \ {m}) = n - 1 /\ n \in Nat
      BY <1>1, <1>4, FS_RemoveElement
    <2>3. T \ {m} \notin Bad
      <3>1. T \ {m} \in Bad => n - 1 \in Sizes
        BY <2>2
      <3>2. n - 1 \notin Sizes
        BY <1>3, <2>2
      <3> QED BY <3>1, <3>2
    <2>4. PICK q : Lists(q, T \ {m})
      BY <2>3
    <2>5. \E r : Lists(r, T)
      BY <1>1, <2>1, <2>4, ListsMore
    <2> QED BY <2>5
  <1> QED BY <1>5, <1>6

\* What the order of a game is chosen to be.
IsOrder(o, host) ==
    /\ o \in [1 .. Cardinality(roster) -> roster]
    /\ o[1] = host
    /\ \A p \in roster : \E i \in DOMAIN o : o[i] = p
    /\ \A i, j \in DOMAIN o : 1 < i /\ i < j => o[i] < o[j]

\* There is such an order, and it gives everybody one place.
LEMMA TurnOrderLists ==
    ASSUME roster \subseteq Players, NEW host \in roster
    PROVE  /\ Cardinality(roster) \in Nat \ {0}
           /\ TurnOrder(host) \in [1 .. Cardinality(roster) -> roster]
           /\ TurnOrder(host)[1] = host
           /\ \A p \in roster : \E i \in 1 .. Cardinality(roster) : TurnOrder(host)[i] = p
           /\ \A i, j \in 1 .. Cardinality(roster) :
                 TurnOrder(host)[i] = TurnOrder(host)[j] => i = j
  <1> DEFINE n == Cardinality(roster)
             rest == roster \ {host}
             o == TurnOrder(host)
  <1>1. IsFiniteSet(roster) /\ roster \subseteq Nat
    <2>1. IsFiniteSet(Players) /\ Players \subseteq Nat
      BY PlayersAssumption, FS_Union DEF Players
    <2> QED BY <2>1, FS_Subset
  <1>2. n \in Nat \ {0} /\ IsFiniteSet(rest) /\ Cardinality(rest) = n - 1
    BY <1>1, FS_CardinalityType, FS_EmptySet, FS_RemoveElement
  <1>3. PICK q : Lists(q, rest)
    BY <1>1, <1>2, ListExists
  <1> DEFINE r == [i \in 1 .. n |-> IF i = 1 THEN host ELSE q[i - 1]]
  <1>4. IsOrder(r, host)
    <2>1. \A i \in 2 .. n : i - 1 \in 1 .. (n - 1) /\ q[i - 1] \in rest
      <3>1. q \in [1 .. (n - 1) -> rest]
        BY <1>2, <1>3 DEF Lists
      <3>2. \A i \in 2 .. n : i - 1 \in 1 .. (n - 1)
        BY <1>2
      <3> QED BY <3>1, <3>2
    <2>2. r \in [1 .. n -> roster] /\ r[1] = host
      BY <1>2, <2>1
    <2>3. ASSUME NEW p \in roster
          PROVE  \E i \in 1 .. n : r[i] = p
      <3>1. CASE p = host
        BY <1>2, <3>1
      <3>2. CASE p # host
        <4>1. PICK i \in 1 .. (n - 1) : q[i] = p
          BY <1>2, <1>3, <3>2 DEF Lists
        <4>2. i + 1 \in 1 .. n /\ i + 1 # 1 /\ (i + 1) - 1 = i
          BY <1>2
        <4> QED BY <4>1, <4>2
      <3> QED BY <3>1, <3>2
    <2>4. ASSUME NEW i \in 1 .. n, NEW j \in 1 .. n, 1 < i, i < j
          PROVE  r[i] < r[j]
      <3>1. i - 1 \in 1 .. (n - 1) /\ j - 1 \in 1 .. (n - 1) /\ i - 1 < j - 1
        BY <1>2, <2>4
      <3>2. r[i] = q[i - 1] /\ r[j] = q[j - 1]
        BY <2>4, <1>2
      <3> QED BY <1>2, <1>3, <3>1, <3>2 DEF Lists
    <2> HIDE DEF r
    <2> QED BY <2>2, <2>3, <2>4 DEF IsOrder
  <1>5. IsOrder(o, host)
    <2>1. o = CHOOSE x \in [1 .. n -> roster] : IsOrder(x, host)
      BY DEF TurnOrder, IsOrder
    <2> QED BY <1>4, <2>1 DEF IsOrder
  <1>6. o \in Surjection(1 .. n, roster)
    BY <1>5 DEF IsOrder, Surjection
  <1>7. IsFiniteSet(1 .. n) /\ Cardinality(1 .. n) = n
    BY <1>2, FS_Interval
  <1>8. o \in Injection(1 .. n, roster)
    BY <1>6, <1>7, FS_Surjection
  <1> QED BY <1>2, <1>5, <1>8 DEF IsOrder, Injection, IsInjective

-----------------------------------------------------------------------------
(* The state of a round.                                                     *)

\* A state with a list that names nobody twice and an index into it.
WellFormed(s) ==
    /\ s \in StateRecord
    /\ s.round \in Rounds
    /\ s.order \in [1 .. Len(s.order) -> Players]
    /\ s.index \in 1 .. Len(s.order)
    /\ \A i, j \in 1 .. Len(s.order) : s.order[i] = s.order[j] => i = j

LEMMA NoStateType == NoState \in StateRecord
  <1>1. <<>> \in Seq(Players)
    BY EmptySeq
  <1> QED BY <1>1, LimitsAssumption DEF NoState, StateRecord

LEMMA WellFormedIsSome ==
    ASSUME NEW s, WellFormed(s)
    PROVE  s # NoState /\ Len(s.order) \in Nat \ {0} /\ DOMAIN s.order = 1 .. Len(s.order)
           /\ s.index \in Nat /\ s.round \in Nat /\ Active(s) \in Players
  <1>1. s.order \in Seq(Players)
    BY DEF WellFormed, StateRecord
  <1>2. Len(s.order) \in Nat /\ DOMAIN s.order = 1 .. Len(s.order)
    BY <1>1, LenProperties
  <1> QED BY <1>2, LimitsAssumption DEF WellFormed, NoState, Rounds, Active

\* A list made as a function is a sequence.
LEMMA FunctionIsSeq ==
    ASSUME NEW n \in Nat, NEW o \in [1 .. n -> Players]
    PROVE  o \in Seq(Players) /\ Len(o) = n
  <1>1. o \in Seq(Players)
    BY SeqDef
  <1>2. DOMAIN o = 1 .. n
    OBVIOUS
  <1> QED BY <1>1, <1>2, LenProperties

LEMMA StartIsWellFormed ==
    ASSUME roster \subseteq Players, NEW host \in roster
    PROVE  WellFormed(StartState(TurnOrder(host)))
           /\ Len(TurnOrder(host)) = Cardinality(roster)
  <1> DEFINE o == TurnOrder(host)
             n == Cardinality(roster)
  <1>1. n \in Nat \ {0} /\ o \in [1 .. n -> Players] /\ o \in [1 .. n -> roster]
        /\ \A i, j \in 1 .. n : o[i] = o[j] => i = j
    BY TurnOrderLists
  <1>2. o \in Seq(Players) /\ Len(o) = n
    BY <1>1, FunctionIsSeq
  <1> HIDE DEF o, n
  <1> QED BY <1>1, <1>2, LimitsAssumption DEF WellFormed, StartState, StateRecord, Rounds, o, n

\* The list stays well formed while round and index stay in range.
LEMMA SameList ==
    ASSUME NEW s, WellFormed(s), NEW w \in StateRecord, w.order = s.order, w.round \in Rounds,
           w.index \in 1 .. Len(s.order)
    PROVE  WellFormed(w)
  BY DEF WellFormed

\* A roll.
LEMMA RolledIsWellFormed ==
    ASSUME NEW s, WellFormed(s), s.rolls < MaxRolls
    PROVE  WellFormed([s EXCEPT !.rolls = @ + 1])
  <1> DEFINE w == [s EXCEPT !.rolls = @ + 1]
  <1>1. s \in StateRecord /\ s.rolls + 1 \in 0 .. MaxRolls
    BY LimitsAssumption DEF WellFormed, StateRecord
  <1>2. w \in StateRecord /\ w.order = s.order /\ w.round = s.round /\ w.index = s.index
    BY <1>1 DEF StateRecord
  <1> HIDE DEF w
  <1>3. WellFormed(w)
    BY <1>2, SameList DEF WellFormed
  <1> QED BY <1>3 DEF w

\* The three ways to advance, field by field.
LEMMA AdvancedFields ==
    ASSUME NEW s, WellFormed(s)
    PROVE  LET w == Advanced(s) IN
           /\ w \in StateRecord /\ w.order = s.order /\ w.rolls = 0
           /\ ~LastOfRound(s) => /\ w.index = s.index + 1 /\ s.index < Len(s.order)
                                /\ w.round = s.round /\ w.finished = s.finished
           /\ LastOfRound(s) /\ s.round < TotalRounds =>
                 w.index = 1 /\ w.round = s.round + 1 /\ w.finished = s.finished
           /\ LastOfRound(s) /\ ~(s.round < TotalRounds) =>
                 w.index = s.index /\ w.round = s.round /\ w.finished
  <1> DEFINE w == Advanced(s)
  <1>1. /\ s.index \in Nat /\ s.index \in 1 .. Len(s.order) /\ s.round \in Nat
        /\ Len(s.order) \in Nat \ {0} /\ s \in StateRecord
        /\ TotalRounds \in Nat /\ 0 \in 0 .. MaxRolls
    <2>1. s.index \in Nat /\ s.round \in Nat /\ Len(s.order) \in Nat \ {0}
      BY WellFormedIsSome
    <2>2. s.index \in 1 .. Len(s.order) /\ s \in StateRecord
      BY DEF WellFormed
    <2>3. TotalRounds \in Nat /\ 0 \in 0 .. MaxRolls
      BY LimitsAssumption
    <2> QED BY <2>1, <2>2, <2>3
  <1>2. CASE ~LastOfRound(s)
    <2>1. w = [s EXCEPT !.index = @ + 1, !.rolls = 0]
      BY <1>2 DEF Advanced
    <2>2. s.index + 1 \in Nat /\ s.index < Len(s.order)
      BY <1>1, <1>2 DEF LastOfRound
    <2>3. w \in StateRecord
      BY <1>1, <2>1, <2>2 DEF StateRecord
    <2>4. w.order = s.order /\ w.rolls = 0 /\ w.index = s.index + 1 /\ w.round = s.round
          /\ w.finished = s.finished
      BY <1>1, <2>1 DEF StateRecord
    <2> QED BY <1>2, <2>2, <2>3, <2>4
  <1>3. CASE LastOfRound(s) /\ s.round < TotalRounds
    <2>1. w = [s EXCEPT !.round = @ + 1, !.index = 1, !.rolls = 0]
      BY <1>3 DEF Advanced
    <2>2. s.round + 1 \in 0 .. TotalRounds /\ 1 \in Nat
      BY <1>1, <1>3
    <2>3. w \in StateRecord
      BY <1>1, <2>1, <2>2 DEF StateRecord
    <2>4. w.order = s.order /\ w.rolls = 0 /\ w.index = 1 /\ w.round = s.round + 1
          /\ w.finished = s.finished
      BY <1>1, <2>1 DEF StateRecord
    <2> QED BY <1>3, <2>3, <2>4
  <1>4. CASE LastOfRound(s) /\ ~(s.round < TotalRounds)
    <2>1. w = [s EXCEPT !.rolls = 0, !.finished = TRUE]
      BY <1>4 DEF Advanced
    <2>2. w \in StateRecord
      BY <1>1, <2>1 DEF StateRecord
    <2>3. w.order = s.order /\ w.rolls = 0 /\ w.index = s.index /\ w.round = s.round
          /\ w.finished
      BY <1>1, <2>1 DEF StateRecord
    <2> QED BY <1>4, <2>2, <2>3
  <1> QED BY <1>2, <1>3, <1>4

LEMMA AdvancedIsWellFormed ==
    ASSUME NEW s, WellFormed(s)
    PROVE  WellFormed(Advanced(s)) /\ Advanced(s).order = s.order
  <1> DEFINE w == Advanced(s)
  <1>1. s.index \in Nat /\ s.round \in Nat /\ Len(s.order) \in Nat \ {0}
        /\ s.index \in 1 .. Len(s.order) /\ s.round \in Rounds
    BY WellFormedIsSome DEF WellFormed
  <1>2. w \in StateRecord /\ w.order = s.order
    BY AdvancedFields
  <1>3. w.index \in 1 .. Len(s.order)
    BY <1>1, AdvancedFields
  <1>4. w.round \in Rounds
    BY <1>1, AdvancedFields, LimitsAssumption DEF Rounds
  <1> HIDE DEF w
  <1>5. WellFormed(w)
    BY <1>2, <1>3, <1>4, SameList
  <1> QED BY <1>2, <1>5 DEF w

LEMMA PositionIs ==
    ASSUME NEW s, WellFormed(s), NEW p \in Participants(s)
    PROVE  /\ PositionOf(s, p) \in 1 .. Len(s.order)
           /\ s.order[PositionOf(s, p)] = p
           /\ \A i \in 1 .. Len(s.order) : s.order[i] = p => i = PositionOf(s, p)
  <1>1. DOMAIN s.order = 1 .. Len(s.order)
    BY WellFormedIsSome
  <1>2. \E i \in 1 .. Len(s.order) : s.order[i] = p
    BY <1>1 DEF Participants
  <1>3. PositionOf(s, p) = CHOOSE i \in 1 .. Len(s.order) : s.order[i] = p
    BY <1>1 DEF PositionOf
  <1> QED BY <1>2, <1>3 DEF WellFormed

\* Where the others sit when somebody at position at is taken out.
Behind(at, i) == IF i < at THEN i ELSE i + 1

\* The list without somebody who does not have the turn.
LEMMA WithoutIsWellFormed ==
    ASSUME NEW s, WellFormed(s), ~s.finished, NEW p \in Participants(s), p # Active(s)
    PROVE  LET at == PositionOf(s, p)
               n == Len(s.order)
               w == Without(s, p)
           IN  /\ WellFormed(w)
               /\ Len(w.order) = n - 1 /\ n - 1 \in Nat \ {0}
               /\ \A i \in 1 .. n - 1 : w.order[i] = s.order[Behind(at, i)]
               /\ at # s.index
               /\ w.index = IF at < s.index THEN s.index - 1 ELSE s.index
               /\ w.round = s.round /\ w.finished = s.finished /\ w.rolls = s.rolls
  <1> DEFINE at == PositionOf(s, p)
             n == Len(s.order)
             w == Without(s, p)
             o == [i \in 1 .. n - 1 |-> IF i < at THEN s.order[i] ELSE s.order[i + 1]]
             x == IF at < s.index THEN s.index - 1 ELSE s.index
  <1>1. /\ at \in 1 .. n /\ s.order[at] = p /\ n \in Nat \ {0} /\ s.index \in 1 .. n
        /\ s.order \in [1 .. n -> Players] /\ s \in StateRecord
        /\ \A i, j \in 1 .. n : s.order[i] = s.order[j] => i = j
    BY PositionIs, WellFormedIsSome DEF WellFormed
  <1>2. at # s.index
    BY <1>1 DEF Active
  <1>3. n - 1 \in Nat \ {0}
    BY <1>1, <1>2
  <1>4. w = [s EXCEPT !.order = o, !.index = x]
    BY DEF Without
  <1>5. o \in [1 .. (n - 1) -> Players]
    <2>1. \A i \in 1 .. (n - 1) : i \in 1 .. n /\ i + 1 \in 1 .. n
      BY <1>1, <1>3
    <2>2. \A i \in 1 .. n : s.order[i] \in Players
      BY <1>1
    <2> QED BY <2>1, <2>2
  <1>6. o \in Seq(Players) /\ Len(o) = n - 1
    BY <1>3, <1>5, FunctionIsSeq
  <1>7. x \in 1 .. (n - 1) /\ x \in Nat
    BY <1>1, <1>2, <1>3
  <1>8. \A i \in 1 .. n - 1 : o[i] = s.order[Behind(at, i)] /\ Behind(at, i) \in 1 .. n
    BY <1>1, <1>3 DEF Behind
  <1>9. ASSUME NEW i \in 1 .. (n - 1), NEW j \in 1 .. (n - 1), o[i] = o[j]
        PROVE  i = j
    <2>1. Behind(at, i) = Behind(at, j)
      BY <1>1, <1>8, <1>9
    <2> QED BY <1>1, <1>3, <2>1 DEF Behind
  <1> HIDE DEF o, x, w, at, n
  <1>10. /\ w.order = o /\ w.index = x /\ w.round = s.round /\ w.finished = s.finished
         /\ w.rolls = s.rolls /\ w \in StateRecord
    BY <1>1, <1>4, <1>6, <1>7 DEF StateRecord
  <1>11. WellFormed(w)
    BY <1>5, <1>6, <1>7, <1>9, <1>10 DEF WellFormed
  <1> QED BY <1>2, <1>3, <1>6, <1>8, <1>10, <1>11 DEF x, w, at, n

-----------------------------------------------------------------------------
(* Types and frames.                                                         *)

\* A frame that goes on with a state has one with a list.
Carries == {"begin", "arm", "schedule", "cancel", "finish"}

FrameOK(fr) == fr \in Frame /\ (fr.pc \in Carries => WellFormed(fr.st))

StateOK == state = NoState \/ WellFormed(state)

TypesOK ==
    /\ TypeOK
    /\ StateOK
    /\ \A f \in Flows : FrameOK(flow[f])

LEMMA IdleType == IdleFrame \in Frame /\ IdleFrame.pc = "idle"
  BY NoStateType, LimitsAssumption DEF IdleFrame, Frame, Steps

LEMMA IdleFits == FrameOK(IdleFrame)
  BY IdleType DEF FrameOK, Carries

LEMMA BeginFits ==
    ASSUME NEW s, WellFormed(s)
    PROVE  FrameOK(BeginFrame(s))
  <1>1. s \in StateRecord
    BY DEF WellFormed
  <1>2. BeginFrame(s) \in Frame /\ BeginFrame(s).st = s
    BY <1>1, IdleType DEF BeginFrame, Frame, Steps
  <1> QED BY <1>2 DEF FrameOK

LEMMA CancelFits ==
    ASSUME NEW s, WellFormed(s), NEW r \in 0 .. TotalRounds
    PROVE  FrameOK(CancelFrame(s, r))
  <1>1. s \in StateRecord
    BY DEF WellFormed
  <1>2. CancelFrame(s, r) \in Frame /\ CancelFrame(s, r).st = s
    BY <1>1, IdleType DEF CancelFrame, Frame, Steps
  <1> QED BY <1>2 DEF FrameOK

LEMMA LeaveFits ==
    ASSUME NEW p \in Seats
    PROVE  FrameOK(LeaveFrame(p))
  <1>1. LeaveFrame(p) \in Frame /\ LeaveFrame(p).pc = "leave"
    BY IdleType DEF LeaveFrame, Frame, Steps
  <1> QED BY <1>1 DEF FrameOK, Carries

\* A frame that goes on with what it has.
LEMMA MovedFits ==
    ASSUME NEW fr, FrameOK(fr), NEW pc \in Steps, pc \in Carries => WellFormed(fr.st)
    PROVE  FrameOK([fr EXCEPT !.pc = pc])
  BY DEF FrameOK, Frame

\* One handler goes on and the others wait.
LEMMA FlowsFit ==
    ASSUME TypesOK, NEW f \in Flows, NEW fr, FrameOK(fr), flow' = [flow EXCEPT ![f] = fr]
    PROVE  flow' \in [Flows -> Frame] /\ \A g \in Flows : FrameOK(flow'[g])
  BY DEF TypesOK, TypeOK, FrameOK

\* Parts of the state that most steps leave as they are.
DataOK ==
    /\ phase \in {"LOBBY", "PLAYING", "FINISHED", "GONE"}
    /\ mode \in Modes
    /\ roster \subseteq Players
    /\ StateOK
    /\ stored \in Deadline /\ remembered \in Deadline
    /\ confirmed \in [Players -> SUBSET Rounds]
    /\ slot \in Slot
    /\ misses \in [Players -> Nat]
    /\ presence \in [Seats -> {"online", "offline", "none"}]
    /\ closing \in BOOLEAN
    /\ games \in 0 .. MaxGames /\ restarts \in 0 .. MaxRestarts
    /\ overs \in Nat

LEMMA TypesFrom ==
    TypesOK <=> DataOK /\ flow \in [Flows -> Frame] /\ \A f \in Flows : FrameOK(flow[f])
  BY NoStateType DEF TypesOK, TypeOK, DataOK, StateOK, WellFormed

\* A step whose data are of their types and which puts a good frame.
LEMMA StepKeepsTypes ==
    ASSUME TypesOK, DataOK', NEW f \in Flows, NEW fr, FrameOK(fr), flow' = [flow EXCEPT ![f] = fr]
    PROVE  TypesOK'
  <1>1. flow' \in [Flows -> Frame] /\ \A g \in Flows : FrameOK(flow'[g])
    BY FlowsFit
  <1>2. TypeOK' /\ StateOK'
    BY <1>1, NoStateType DEF DataOK, TypeOK, StateOK, WellFormed
  <1> QED BY <1>1, <1>2 DEF TypesOK, FrameOK

LEMMA NoValues ==
    NoDeadline \in Deadline /\ NoSlot \in Slot /\ NoMisses \in [Players -> Nat]
    /\ NobodyHere \in [Seats -> {"online", "offline", "none"}]
  BY LimitsAssumption DEF NoDeadline, Deadline, NoSlot, Slot, NoMisses, NobodyHere

\* The turn of a state that is on.
LEMMA TurnIsOn ==
    ASSUME StateOK, NEW r, NEW p, IsTurn(state, r, p)
    PROVE  WellFormed(state) /\ ~state.finished /\ WellFormed(Advanced(state))
           /\ p \in Players /\ Ended(state) \in 0 .. TotalRounds /\ Active(state) = p
  <1>1. WellFormed(state) /\ ~state.finished /\ Active(state) = p
    BY DEF StateOK, IsTurn
  <1>2. WellFormed(Advanced(state)) /\ p \in Players
    BY <1>1, AdvancedIsWellFormed, WellFormedIsSome
  <1>3. Ended(state) \in 0 .. TotalRounds
    BY <1>1, LimitsAssumption DEF Ended, WellFormed, Rounds
  <1> QED BY <1>1, <1>2, <1>3

LEMMA ExpireFits ==
    ASSUME TypesOK, NEW f \in Flows, Expire(f)
    PROVE  StateOK' /\ \E fr : FrameOK(fr) /\ flow' = [flow EXCEPT ![f] = fr]
  <1>1. CASE IsTurn(state, flow[f].round, flow[f].who)
    <2>1. WellFormed(Advanced(state)) /\ Ended(state) \in 0 .. TotalRounds
      BY <1>1, TurnIsOn DEF TypesOK
    <2>2. FrameOK(CancelFrame(Advanced(state), Ended(state)))
      BY <2>1, CancelFits
    <2> QED BY <1>1, <2>1, <2>2 DEF Expire, Call, StateOK
  <1>2. CASE ~IsTurn(state, flow[f].round, flow[f].who)
    BY <1>2, IdleFits DEF Expire, Return, TypesOK, StateOK
  <1> QED BY <1>1, <1>2

LEMMA ScoreFits ==
    ASSUME TypesOK, NEW f \in Flows, NEW p, ScoreTurn(f, p)
    PROVE  /\ StateOK' /\ \E fr : FrameOK(fr) /\ flow' = [flow EXCEPT ![f] = fr]
           /\ confirmed' \in [Players -> SUBSET Rounds]
  <1>1. /\ WellFormed(state) /\ WellFormed(Advanced(state)) /\ Ended(state) \in 0 .. TotalRounds
        /\ p \in Players
    BY TurnIsOn DEF ScoreTurn, TypesOK
  <1>2. FrameOK(CancelFrame(Advanced(state), Ended(state)))
    BY <1>1, CancelFits
  <1>3. confirmed' \in [Players -> SUBSET Rounds]
    BY <1>1 DEF ScoreTurn, TypesOK, TypeOK, WellFormed
  <1> QED BY <1>1, <1>2, <1>3 DEF ScoreTurn, Call, StateOK

LEMMA RollFits ==
    ASSUME TypesOK, NEW f \in Flows, NEW r, NEW p, IsTurn(state, r, p), state.rolls < MaxRolls,
           state' = [state EXCEPT !.rolls = @ + 1], Call(f, BeginFrame(state'))
    PROVE  StateOK' /\ \E fr : FrameOK(fr) /\ flow' = [flow EXCEPT ![f] = fr]
  <1>1. WellFormed(state')
    BY TurnIsOn, RolledIsWellFormed DEF TypesOK
  <1>2. FrameOK(BeginFrame(state'))
    BY <1>1, BeginFits
  <1> QED BY <1>1, <1>2 DEF Call, StateOK, WellFormed

-----------------------------------------------------------------------------
(* Every step keeps the types.                                               *)

\* The steps of a handler that has begun: its next frame is good, and so are the data.
GoodStep(f) == DataOK' /\ \E fr : FrameOK(fr) /\ flow' = [flow EXCEPT ![f] = fr]

LEMMA GotoFits ==
    ASSUME TypesOK, NEW f \in Flows, NEW pc \in Steps, Goto(f, pc),
           pc \in Carries => flow[f].pc \in Carries
    PROVE  \E fr : FrameOK(fr) /\ flow' = [flow EXCEPT ![f] = fr]
  <1>1. FrameOK(flow[f])
    BY DEF TypesOK
  <1>2. pc \in Carries => WellFormed(flow[f].st)
    BY <1>1 DEF FrameOK
  <1>3. FrameOK([flow[f] EXCEPT !.pc = pc])
    BY <1>1, <1>2, MovedFits
  <1>4. flow' = [flow EXCEPT ![f] = [flow[f] EXCEPT !.pc = pc]]
    BY DEF Goto
  <1> QED BY <1>3, <1>4

LEMMA BeginTypes ==
    ASSUME TypesOK, NEW f \in Flows, Begin(f)
    PROVE  GoodStep(f)
  <1> DEFINE s == flow[f].st
             p == Active(s)
  <1>1. FrameOK(flow[f]) /\ DataOK /\ flow[f].pc = "begin"
    BY TypesFrom DEF Begin, TypesOK
  <1>2. WellFormed(s) /\ p \in Players /\ s \in StateRecord
    BY <1>1, WellFormedIsSome DEF FrameOK, Carries, WellFormed
  <1>3. DataOK'
    <2>1. misses' \in [Players -> Nat]
      BY <1>1, <1>2 DEF Begin, DataOK
    <2> QED BY <1>1, <2>1
            DEF DataOK, Begin, redis, history, StateOK, WellFormed
  <1>4. FrameOK(LeaveFrame(p))
    BY <1>2, LeaveFits DEF Seats
  <1>5. FrameOK([IdleFrame EXCEPT !.pc = "skip", !.who = p, !.round = s.round])
    <2>1. s.round \in 0 .. TotalRounds
      BY <1>2 DEF StateRecord
    <2>2. [IdleFrame EXCEPT !.pc = "skip", !.who = p, !.round = s.round] \in Frame
      BY <1>2, <2>1, IdleType DEF Frame, Steps, Seats
    <2>3. [IdleFrame EXCEPT !.pc = "skip", !.who = p, !.round = s.round].pc = "skip"
      BY <2>2, IdleType DEF Frame
    <2> QED BY <2>2, <2>3 DEF FrameOK, Carries
  <1>6. FrameOK([IdleFrame EXCEPT !.pc = "arm", !.st = s, !.timed = ~Untimed, !.bot = IsBot(p)])
    <2> DEFINE fr == [IdleFrame EXCEPT !.pc = "arm", !.st = s, !.timed = ~Untimed, !.bot = IsBot(p)]
    <2>1. (~Untimed) \in BOOLEAN /\ IsBot(p) \in BOOLEAN
      <3>1. (Cardinality(HumansIn(roster)) <= 1) \in BOOLEAN
        BY SMT
      <3>2. (~Untimed) \in BOOLEAN
        BY <3>1, Zenon DEF Untimed
      <3>3. (p \in roster \cap Bots) \in BOOLEAN
        BY SMT
      <3> QED BY <3>2, <3>3, Zenon DEF IsBot
    <2>2. fr \in Frame
      BY <1>2, <2>1, IdleType DEF Frame, Steps
    <2>3. fr.st = s
      BY IdleType DEF Frame
    <2> QED BY <1>2, <2>2, <2>3 DEF FrameOK
  <1>7. \E fr : FrameOK(fr) /\ flow' = [flow EXCEPT ![f] = fr]
    BY <1>4, <1>5, <1>6 DEF Begin, Call
  <1> QED BY <1>3, <1>7 DEF GoodStep

LEMMA TurnTypes ==
    ASSUME TypesOK, NEW f \in Flows, Arm(f) \/ ScheduleTurn(f) \/ Cancel(f) \/ Finish(f)
    PROVE  GoodStep(f)
  <1> DEFINE s == flow[f].st
  <1>1. FrameOK(flow[f]) /\ DataOK /\ flow[f].pc \in Carries
    BY TypesFrom DEF TypesOK, Carries, Arm, ScheduleTurn, Cancel, Finish
  <1>2. /\ WellFormed(s) /\ Active(s) \in Players /\ s.round \in 0 .. TotalRounds
        /\ flow[f].timed \in BOOLEAN
    BY <1>1, WellFormedIsSome DEF FrameOK, WellFormed, StateRecord, Frame
  <1>3. FrameOK(BeginFrame(s)) /\ FrameOK(IdleFrame)
    BY <1>2, BeginFits, IdleFits
  <1>4. CASE Arm(f)
    <2>1. [round |-> s.round, timed |-> flow[f].timed] \in Deadline
      BY <1>2 DEF Deadline
    <2>2. DataOK'
      BY <1>1, <1>4, <2>1 DEF Arm, DataOK, StateOK, WellFormed, history
    <2>3. \E fr : FrameOK(fr) /\ flow' = [flow EXCEPT ![f] = fr]
      BY <1>4, GotoFits DEF Arm, Steps, Carries
    <2> QED BY <2>2, <2>3 DEF GoodStep
  <1>5. CASE ScheduleTurn(f)
    <2>1. slot' \in Slot
      BY <1>1, <1>2, <1>5 DEF ScheduleTurn, DataOK, Slot
    <2>2. DataOK'
      BY <1>1, <1>5, <2>1 DEF ScheduleTurn, DataOK, StateOK, WellFormed, redis, history
    <2> QED BY <1>3, <1>5, <2>2 DEF GoodStep, ScheduleTurn, Return
  <1>6. CASE Cancel(f)
    <2>1. DataOK'
      BY <1>1, <1>6, NoValues DEF Cancel, DataOK, StateOK, WellFormed, history
    <2>2. \E fr : FrameOK(fr) /\ flow' = [flow EXCEPT ![f] = fr]
      <3>1. CASE Goto(f, "finish")
        BY <1>1, <3>1, GotoFits DEF Steps, Carries
      <3>2. CASE Return(f) \/ Call(f, BeginFrame(s))
        BY <1>3, <3>2 DEF Return, Call
      <3> QED BY <1>6, <3>1, <3>2 DEF Cancel
    <2> QED BY <2>1, <2>2 DEF GoodStep
  <1>7. CASE Finish(f)
    <2>1. DataOK'
      BY <1>1, <1>7, NoValues DEF Finish, DataOK, StateOK, WellFormed
    <2>2. Return(f) \/ Call(f, BeginFrame(s))
      BY <1>7 DEF Finish
    <2> QED BY <1>3, <2>1, <2>2 DEF GoodStep, Return, Call
  <1> QED BY <1>4, <1>5, <1>6, <1>7

LEMMA RemovalTypes ==
    ASSUME TypesOK, NEW f \in Flows,
           Skip(f) \/ LeaveSeat(f) \/ DecideRemoval(f) \/ PassTurn(f) \/ Splice(f) \/ Clear(f)
    PROVE  GoodStep(f)
  <1>1. FrameOK(flow[f]) /\ DataOK /\ flow[f] \in Frame
    BY TypesFrom DEF TypesOK, FrameOK
  <1>2. CASE Skip(f)
    <2>1. StateOK' /\ \E fr : FrameOK(fr) /\ flow' = [flow EXCEPT ![f] = fr]
      BY <1>2, ExpireFits DEF Skip
    <2> QED BY <1>1, <1>2, <2>1 DEF GoodStep, Skip, DataOK, memory, history
  <1>3. CASE LeaveSeat(f)
    <2>1. DataOK'
      <3>1. misses' \in [Players -> Nat] /\ presence' \in [Seats -> {"online", "offline", "none"}]
        BY <1>1, <1>3 DEF LeaveSeat, Forgiven, DataOK
      <3>2. roster' \subseteq Players /\ phase' \in {"LOBBY", "PLAYING", "FINISHED", "GONE"}
        BY <1>1, <1>3 DEF LeaveSeat, LeaveRoster, DataOK
      <3> QED BY <1>1, <1>3, <3>1, <3>2 DEF LeaveSeat, DataOK, StateOK, WellFormed, history
    <2> QED BY <1>3, <2>1, GotoFits DEF GoodStep, LeaveSeat, Steps, Carries
  <1>4. CASE DecideRemoval(f)
    <2>1. DataOK'
      BY <1>1, <1>4 DEF DecideRemoval, DataOK, StateOK, WellFormed, redis, memory, history
    <2>2. \E fr : FrameOK(fr) /\ flow' = [flow EXCEPT ![f] = fr]
      <3>1. CASE Return(f)
        BY <3>1, IdleFits DEF Return
      <3>2. CASE Goto(f, "clear") \/ Goto(f, "splice")
        BY <3>2, GotoFits DEF Steps, Carries
      <3>3. CASE flow' = [flow EXCEPT ![f].pc = "pass", ![f].round = state.round]
        <4> DEFINE fr == [flow[f] EXCEPT !.pc = "pass", !.round = state.round]
        <4>1. state.round \in 0 .. TotalRounds
          BY DEF TypesOK, TypeOK, StateRecord
        <4>2. fr \in Frame /\ fr.pc = "pass"
          BY <1>1, <4>1 DEF Frame, Steps
        <4>3. FrameOK(fr)
          BY <4>2 DEF FrameOK, Carries
        <4> QED BY <3>3, <4>3 DEF TypesOK, TypeOK
      <3> QED BY <1>4, <3>1, <3>2, <3>3 DEF DecideRemoval
    <2> QED BY <2>1, <2>2 DEF GoodStep
  <1>5. CASE PassTurn(f)
    <2>1. StateOK'
      BY <1>1, <1>5, TurnIsOn DEF PassTurn, DataOK, StateOK, WellFormed
    <2>2. \E fr : FrameOK(fr) /\ flow' = [flow EXCEPT ![f] = fr]
      <3>1. CASE IsTurn(state, flow[f].round, flow[f].who)
        <4> DEFINE fr == [flow[f] EXCEPT !.pc = "splice", !.ended = Ended(state)]
        <4>1. Ended(state) \in 0 .. TotalRounds
          BY <1>1, <3>1, TurnIsOn DEF DataOK
        <4>2. fr \in Frame /\ fr.pc = "splice"
          BY <1>1, <4>1 DEF Frame, Steps
        <4>3. FrameOK(fr)
          BY <4>2 DEF FrameOK, Carries
        <4> QED BY <1>5, <3>1, <4>3 DEF PassTurn, TypesOK, TypeOK
      <3>2. CASE ~IsTurn(state, flow[f].round, flow[f].who)
        <4> DEFINE fr == [flow[f] EXCEPT !.pc = "splice", !.round = 0]
        <4>1. fr \in Frame /\ fr.pc = "splice"
          <5>1. 0 \in 0 .. TotalRounds /\ "splice" \in Steps
            BY LimitsAssumption DEF Steps
          <5> QED BY <1>1, <5>1 DEF Frame
        <4>2. FrameOK(fr)
          BY <4>1 DEF FrameOK, Carries
        <4> QED BY <1>5, <3>2, <4>2 DEF PassTurn, TypesOK, TypeOK
      <3> QED BY <3>1, <3>2
    <2> QED BY <1>1, <1>5, <2>1, <2>2 DEF GoodStep, PassTurn, DataOK, memory, history
  <1>6. CASE Splice(f)
    <2> DEFINE p == flow[f].who
               refused == state = NoState \/ IsTurn(state, state.round, p)
    <2>1. ~refused => WellFormed(Without(state, p))
      <3>1. SUFFICES ASSUME ~refused PROVE WellFormed(Without(state, p))
        OBVIOUS
      <3>2. WellFormed(state)
        BY <1>1, <3>1 DEF DataOK, StateOK
      <3>3. CASE state.finished \/ p \notin Participants(state)
        BY <3>2, <3>3 DEF Without
      <3>4. CASE ~state.finished /\ p \in Participants(state)
        <4>1. p # Active(state)
          BY <3>1, <3>4 DEF IsTurn
        <4> QED BY <3>2, <3>4, <4>1, WithoutIsWellFormed
      <3> QED BY <3>3, <3>4
    <2>2. StateOK' /\ (~refused => WellFormed(state'))
      BY <1>1, <1>6, <2>1 DEF Splice, DataOK, StateOK, WellFormed
    <2>3. \E fr : FrameOK(fr) /\ flow' = [flow EXCEPT ![f] = fr]
      <3>1. CASE Return(f)
        BY <3>1, IdleFits DEF Return
      <3>2. CASE ~refused /\ Call(f, CancelFrame(state', flow[f].ended))
        <4>1. flow[f].ended \in 0 .. TotalRounds
          BY <1>1 DEF Frame
        <4> QED BY <2>2, <3>2, <4>1, CancelFits DEF Call
      <3> QED BY <1>6, <3>1, <3>2 DEF Splice
    <2> QED BY <1>1, <1>6, <2>2, <2>3 DEF GoodStep, Splice, DataOK, memory, history
  <1>7. CASE Clear(f)
    <2>1. DataOK'
      BY <1>1, <1>7, NoValues DEF Clear, CancelRoom, DataOK, StateOK, history
    <2> QED BY <1>7, <2>1, IdleFits DEF GoodStep, Clear, Return
  <1> QED BY <1>2, <1>3, <1>4, <1>5, <1>6, <1>7

LEMMA DeadlineTypes ==
    ASSUME TypesOK, NEW f \in Flows,
           FireTimer(f) \/ AutoRoll(f) \/ Resolve(f) \/ ScoreForThem(f)
    PROVE  GoodStep(f)
  <1>1. FrameOK(flow[f]) /\ DataOK /\ flow[f] \in Frame
    BY TypesFrom DEF TypesOK, FrameOK
  <1>2. CASE FireTimer(f)
    <2> DEFINE fr == [IdleFrame EXCEPT !.pc = "autoroll", !.who = slot.who, !.round = slot.round]
    <2>1. slot.who \in Players \cup {0} /\ slot.round \in 0 .. TotalRounds
      BY <1>1 DEF DataOK, Slot
    <2>2. fr \in Frame
      BY <2>1, IdleType DEF Frame, Steps, Seats
    <2>3. fr.pc = "autoroll"
      BY IdleType DEF Frame
    <2>4. FrameOK(fr)
      BY <2>2, <2>3 DEF FrameOK, Carries
    <2>5. DataOK'
      BY <1>1, <1>2, NoValues DEF FireTimer, DataOK, StateOK, WellFormed, redis, history
    <2> QED BY <1>2, <2>4, <2>5 DEF GoodStep, FireTimer, Call
  <1>3. CASE AutoRoll(f)
    <2>1. StateOK' /\ \E fr : FrameOK(fr) /\ flow' = [flow EXCEPT ![f] = fr]
      <3>1. CASE IsTurn(state, flow[f].round, flow[f].who) /\ state.rolls < MaxRolls
        BY <1>3, <3>1, RollFits DEF AutoRoll
      <3>2. CASE Goto(f, "resolve") /\ UNCHANGED state
        BY <1>1, <3>2, GotoFits DEF Steps, Carries, DataOK, StateOK, WellFormed
      <3> QED BY <1>3, <3>1, <3>2 DEF AutoRoll
    <2> QED BY <1>1, <1>3, <2>1 DEF GoodStep, AutoRoll, DataOK, memory, history
  <1>4. CASE Resolve(f)
    <2>1. \E fr : FrameOK(fr) /\ flow' = [flow EXCEPT ![f] = fr]
      <3>1. CASE Goto(f, "score")
        BY <3>1, GotoFits DEF Steps, Carries
      <3>2. CASE Return(f)
        BY <3>2, IdleFits DEF Return
      <3> QED BY <1>4, <3>1, <3>2 DEF Resolve
    <2> QED BY <1>1, <1>4, <2>1
            DEF GoodStep, Resolve, DataOK, StateOK, WellFormed, redis, memory, history
  <1>5. CASE ScoreForThem(f)
    <2>1. StateOK' /\ confirmed' \in [Players -> SUBSET Rounds]
          /\ \E fr : FrameOK(fr) /\ flow' = [flow EXCEPT ![f] = fr]
      BY <1>1, <1>5, ExpireFits, ScoreFits DEF ScoreForThem, DataOK
    <2> QED BY <1>1, <1>5, <2>1 DEF GoodStep, ScoreForThem, DataOK, memory, history
  <1> QED BY <1>2, <1>3, <1>4, <1>5

LEMMA RequestTypes ==
    ASSUME TypesOK, NEW f \in Flows, NEW p \in Players, Request(f, p)
    PROVE  GoodStep(f)
  <1>1. FrameOK(flow[f]) /\ DataOK /\ flow[f] \in Frame /\ flow = [flow EXCEPT ![f] = flow[f]]
    BY TypesFrom DEF TypesOK, FrameOK
  <1>2. CASE Join(f, p)
    <2>1. DataOK'
      BY <1>1, <1>2 DEF Join, DataOK, StateOK, WellFormed, memory, history
    <2>2. flow' = flow
      BY <1>2 DEF Join
    <2> QED BY <1>1, <2>1, <2>2 DEF GoodStep
  <1>3. CASE Roll(f, p)
    <2>1. StateOK' /\ \E fr : FrameOK(fr) /\ flow' = [flow EXCEPT ![f] = fr]
      BY <1>3, RollFits DEF Roll
    <2> QED BY <1>1, <1>3, <2>1 DEF GoodStep, Roll, DataOK, memory, history
  <1>4. CASE Submit(f, p)
    <2>1. StateOK' /\ confirmed' \in [Players -> SUBSET Rounds]
          /\ \E fr : FrameOK(fr) /\ flow' = [flow EXCEPT ![f] = fr]
      BY <1>4, ScoreFits DEF Submit
    <2> QED BY <1>1, <1>4, <2>1 DEF GoodStep, Submit, DataOK, memory, history
  <1>5. CASE LeaveByRequest(f, p)
    <2>1. DataOK'
      BY <1>1, <1>5 DEF LeaveByRequest, LeaveRoster, DataOK, StateOK, WellFormed, memory, history
    <2>2. flow' = flow \/ flow' = [flow EXCEPT ![f] = LeaveFrame(p)]
      BY <1>5 DEF LeaveByRequest, Call
    <2>3. FrameOK(LeaveFrame(p))
      BY LeaveFits DEF Seats
    <2> QED BY <1>1, <2>1, <2>2, <2>3 DEF GoodStep
  <1>6. CASE StartGame(f, p)
    <2>1. WellFormed(state')
      BY <1>1, <1>6, StartIsWellFormed DEF StartGame, DataOK, HumansIn
    <2>2. games' \in 0 .. MaxGames
      BY <1>1, <1>6, LimitsAssumption DEF StartGame, DataOK
    <2>3. confirmed' \in [Players -> SUBSET Rounds] /\ overs' \in Nat
      BY <1>6 DEF StartGame
    <2>4. StateOK'
      BY <2>1 DEF StateOK, WellFormed
    <2>5. DataOK'
      BY <1>1, <1>6, <2>2, <2>3, <2>4 DEF StartGame, DataOK, memory
    <2>6. FrameOK(BeginFrame(state'))
      BY <2>1, BeginFits
    <2> QED BY <1>6, <2>5, <2>6 DEF GoodStep, StartGame, Call
  <1> QED BY <1>2, <1>3, <1>4, <1>5, <1>6 DEF Request

LEMMA SocketTypes ==
    ASSUME TypesOK, NEW f \in Flows, NEW p \in Seats, Socket(f, p)
    PROVE  GoodStep(f)
  <1>1. FrameOK(flow[f]) /\ DataOK /\ flow[f] \in Frame /\ flow = [flow EXCEPT ![f] = flow[f]]
    BY TypesFrom DEF TypesOK, FrameOK
  <1>2. CASE LeaveBySocket(f, p)
    <2>1. DataOK'
      BY <1>1, <1>2 DEF LeaveBySocket, DataOK, StateOK, WellFormed, redis, memory, history
    <2>2. FrameOK(LeaveFrame(p))
      BY LeaveFits
    <2> QED BY <1>2, <2>1, <2>2 DEF GoodStep, LeaveBySocket, Call
  <1>3. CASE Connect(f, p)
    <2>1. DataOK'
      <3>1. presence' \in [Seats -> {"online", "offline", "none"}]
        BY <1>1, <1>3 DEF Connect, DataOK
      <3>2. misses' \in [Players -> Nat]
        BY <1>1, <1>3 DEF Connect, Forgiven, DataOK
      <3>3. closing' \in BOOLEAN
        BY <1>1, <1>3 DEF Connect, DataOK
      <3> QED BY <1>1, <1>3, <3>1, <3>2, <3>3
              DEF Connect, DataOK, StateOK, WellFormed, redis, history
    <2>2. flow' = flow \/ (state # NoState /\ flow' = [flow EXCEPT ![f] = BeginFrame(state)])
      BY <1>3 DEF Connect, Call
    <2>3. state # NoState => FrameOK(BeginFrame(state))
      BY <1>1, BeginFits DEF DataOK, StateOK
    <2> QED BY <1>1, <2>1, <2>2, <2>3 DEF GoodStep
  <1> QED BY <1>2, <1>3 DEF Socket

\* The steps of the process as a whole.
LEMMA ProcessTypes ==
    ASSUME TypesOK, (\E p \in Seats : Disconnect(p)) \/ CloseEmpty \/ Restart \/ Sweep
    PROVE  TypesOK'
  <1>1. DataOK /\ flow \in [Flows -> Frame] /\ \A f \in Flows : FrameOK(flow[f])
    BY TypesFrom
  <1>2. CASE UNCHANGED flow
    <2>1. DataOK'
      <3>1. ASSUME NEW p \in Seats, Disconnect(p)
            PROVE  DataOK'
        BY <1>1, <3>1, NoValues
           DEF Disconnect, CancelRoom, DataOK, StateOK, WellFormed, history
      <3>2. CASE CloseEmpty
        BY <1>1, <3>2, NoValues DEF CloseEmpty, CancelRoom, DataOK, StateOK, WellFormed, history
      <3>3. CASE Sweep
        BY <1>1, <3>3, NoValues DEF Sweep, CancelRoom, DataOK, StateOK, history
      <3>4. CASE Restart
        <4>1. restarts' \in 0 .. MaxRestarts
          BY <1>1, <3>4, LimitsAssumption DEF Restart, DataOK
        <4> QED BY <1>1, <3>4, <4>1, NoValues DEF Restart, DataOK, StateOK, WellFormed
      <3> QED BY <3>1, <3>2, <3>3, <3>4
    <2>2. flow' = flow
      BY <1>2
    <2> QED BY <1>1, <2>1, <2>2, NoStateType DEF TypesOK, TypeOK, DataOK, StateOK, WellFormed
  <1>3. CASE Restart /\ CanRehydrate
    <2>1. restarts' \in 0 .. MaxRestarts
      BY <1>1, <1>3, LimitsAssumption DEF Restart, DataOK
    <2>2. CASE UNCHANGED flow
      BY <1>2, <2>2
    <2>3. CASE ~UNCHANGED flow
      <3> DEFINE fr == [IdleFrame EXCEPT !.pc = "arm", !.st = state, !.timed = stored.timed,
                                         !.bot = IsBot(Active(state)), !.restored = TRUE]
      <3>1. WellFormed(state) /\ state \in StateRecord /\ stored.timed \in BOOLEAN
            /\ IsBot(Active(state)) \in BOOLEAN
        BY <1>1, <1>3 DEF DataOK, StateOK, CanRehydrate, WellFormed, Deadline, IsBot
      <3>2. fr \in Frame
        BY <3>1, IdleType DEF Frame, Steps
      <3>3. fr.st = state
        BY IdleType DEF Frame
      <3>4. FrameOK(fr)
        BY <3>1, <3>2, <3>3 DEF FrameOK
      <3>5. PICK f \in Flows : flow' = [flow EXCEPT ![f] = fr]
        BY <1>3, <2>3 DEF Restart, Call
      <3>6. DataOK'
        BY <1>1, <1>3, <2>1, <2>3, NoValues DEF Restart, DataOK, StateOK, WellFormed
      <3> HIDE DEF fr
      <3> QED BY <3>4, <3>5, <3>6, StepKeepsTypes
    <2> QED BY <2>2, <2>3
  <1>4. CASE ~CanRehydrate
    BY <1>2, <1>4 DEF Restart, Disconnect, CloseEmpty, Sweep
  <1> QED BY <1>2, <1>3, <1>4 DEF Disconnect, CloseEmpty, Sweep

\* What a handler does, or what begins one.
FlowStep(f) ==
    \/ Step(f) \/ FireTimer(f) \/ ReturnToLobby(f)
    \/ \E p \in Players : Request(f, p)
    \/ \E p \in Seats : Socket(f, p)

LEMMA FlowTypes ==
    ASSUME TypesOK, NEW f \in Flows, FlowStep(f)
    PROVE  GoodStep(f)
  <1>1. CASE Step(f) \/ FireTimer(f)
    BY <1>1, BeginTypes, TurnTypes, RemovalTypes, DeadlineTypes DEF Step
  <1>2. CASE ReturnToLobby(f)
    <2>1. DataOK' /\ \E fr : FrameOK(fr) /\ flow' = [flow EXCEPT ![f] = fr]
      BY <1>2, TypesFrom, GotoFits
         DEF ReturnToLobby, DataOK, StateOK, WellFormed, memory, history, Steps, Carries
    <2> QED BY <2>1 DEF GoodStep
  <1>3. ASSUME NEW p \in Players, Request(f, p)
        PROVE  GoodStep(f)
    BY <1>3, RequestTypes
  <1>4. ASSUME NEW p \in Seats, Socket(f, p)
        PROVE  GoodStep(f)
    BY <1>4, SocketTypes
  <1> QED BY <1>1, <1>2, <1>3, <1>4 DEF FlowStep

LEMMA TypesInvariant == Spec => []TypesOK
  <1>1. Init => TypesOK
    <2> SUFFICES ASSUME Init PROVE TypesOK
      OBVIOUS
    <2>1. DataOK
      <3>1. presence \in [Seats -> {"online", "offline", "none"}]
        BY DEF Init
      <3>2. confirmed \in [Players -> SUBSET Rounds] /\ misses \in [Players -> Nat]
        BY NoValues DEF Init
      <3>3. 0 \in 0 .. MaxGames /\ 0 \in 0 .. MaxRestarts
        BY LimitsAssumption
      <3> QED BY <3>1, <3>2, <3>3, NoValues DEF Init, DataOK, StateOK
    <2>2. flow \in [Flows -> Frame] /\ \A f \in Flows : FrameOK(flow[f])
      BY IdleType, IdleFits DEF Init
    <2> QED BY <2>1, <2>2, TypesFrom
  <1>2. TypesOK /\ [Next]_vars => TypesOK'
    <2> SUFFICES ASSUME TypesOK, [Next]_vars PROVE TypesOK'
      OBVIOUS
    <2>1. ASSUME NEW f \in Flows, GoodStep(f)
          PROVE  TypesOK'
      BY <2>1, StepKeepsTypes DEF GoodStep
    <2>2. ASSUME NEW f \in Flows, FlowStep(f)
          PROVE  GoodStep(f)
      BY <2>2, FlowTypes
    <2>3. CASE UNCHANGED vars
      BY <2>3, NoStateType DEF vars, redis, memory, history, TypesOK, TypeOK, StateOK, WellFormed
    <2> QED BY <2>1, <2>2, <2>3, ProcessTypes DEF Next, FlowStep
  <1> QED BY <1>1, <1>2, PTL DEF Spec

\* Every variable has its type, round and index of the turns among them: no turn is
\* played in a round after the last one (YachtTurns.TypeOK).
THEOREM TurnsAreTyped == Spec => []TypeOK
  <1>1. TypesOK => TypeOK
    BY DEF TypesOK
  <1> QED BY <1>1, TypesInvariant, PTL

-----------------------------------------------------------------------------
(* One game.over per game.                                                   *)

LEMMA OversBegin == Init => GameOverOnce
  BY DEF Init, GameOverOnce

LEMMA OversKept ==
    ASSUME GameOverOnce, [Next]_vars
    PROVE  GameOverOnce'
  <1>1. CASE UNCHANGED vars
    BY <1>1 DEF vars, redis, history, GameOverOnce
  <1>2. ASSUME NEW f \in Flows, Step(f)
        PROVE  GameOverOnce'
    <2>1. CASE Finish(f)
      BY <2>1 DEF Finish, Completes, GameOverOnce
    <2>2. CASE LeaveSeat(f)
      BY <2>2 DEF LeaveSeat, LeaveRoster, GameOverOnce, history
    <2>3. CASE Begin(f) \/ Arm(f) \/ ScheduleTurn(f) \/ Cancel(f) \/ Skip(f)
      BY <2>3 DEF Begin, Arm, ScheduleTurn, Cancel, Skip, redis, history, GameOverOnce
    <2>4. CASE DecideRemoval(f) \/ PassTurn(f) \/ Splice(f) \/ Clear(f)
      BY <2>4 DEF DecideRemoval, PassTurn, Splice, Clear, redis, history, GameOverOnce
    <2>5. CASE AutoRoll(f) \/ Resolve(f) \/ ScoreForThem(f)
      BY <2>5 DEF AutoRoll, Resolve, ScoreForThem, redis, history, GameOverOnce
    <2> QED BY <1>2, <2>1, <2>2, <2>3, <2>4, <2>5 DEF Step
  <1>3. ASSUME NEW f \in Flows, FireTimer(f) \/ ReturnToLobby(f)
        PROVE  GameOverOnce'
    BY <1>3 DEF FireTimer, ReturnToLobby, redis, history, GameOverOnce
  <1>4. ASSUME NEW f \in Flows, NEW p \in Players, Request(f, p)
        PROVE  GameOverOnce'
    <2>1. CASE LeaveByRequest(f, p) \/ StartGame(f, p)
      BY <2>1 DEF LeaveByRequest, LeaveRoster, StartGame, history, GameOverOnce
    <2>2. CASE Join(f, p) \/ Roll(f, p) \/ Submit(f, p)
      BY <2>2 DEF Join, Roll, Submit, history, GameOverOnce
    <2> QED BY <1>4, <2>1, <2>2 DEF Request
  <1>5. CASE (\E p \in Seats : Disconnect(p)) \/ CloseEmpty \/ Restart \/ Sweep
    BY <1>5 DEF Disconnect, CloseEmpty, Restart, Sweep, history, GameOverOnce
  <1>6. ASSUME NEW f \in Flows, NEW p \in Seats, Socket(f, p)
        PROVE  GameOverOnce'
    BY <1>6 DEF Socket, LeaveBySocket, Connect, redis, history, GameOverOnce
  <1> QED BY <1>1, <1>2, <1>3, <1>4, <1>5, <1>6 DEF Next

\* Whatever handlers meet at the end of a game, one of them completes it: game.over is
\* sent once per game (YachtTurns.GameOverOnce).
THEOREM GameOverIsSentOnce == Spec => []GameOverOnce
  <1>1. GameOverOnce /\ [Next]_vars => GameOverOnce'
    BY OversKept
  <1> QED BY <1>1, OversBegin, PTL DEF Spec

-----------------------------------------------------------------------------
(* What a step may do to the state and the scores.                           *)

Rolled ==
    state.rolls < MaxRolls /\ state' = [state EXCEPT !.rolls = @ + 1] /\ UNCHANGED confirmed

Passed ==
    /\ ~state.finished
    /\ state' = Advanced(state)
    /\ \/ UNCHANGED confirmed
       \/ confirmed' = [confirmed EXCEPT ![Active(state)] = @ \cup {state.round}]

Shortened(p) ==
    /\ ~state.finished /\ p \in Participants(state) /\ p # Active(state)
    /\ state' = Without(state, p)
    /\ UNCHANGED confirmed

Started(host) ==
    /\ phase = "LOBBY" /\ games < MaxGames /\ SomeIdle
    /\ host \in roster
    /\ state' = StartState(TurnOrder(host)) /\ games' = games + 1 /\ phase' = "PLAYING"
    /\ confirmed' = [p \in Players |-> {}]

Change ==
    \/ /\ games' = games
       /\ \/ UNCHANGED <<state, confirmed>>
          \/ state' = NoState /\ UNCHANGED confirmed
          \/ WellFormed(state) /\ (Rolled \/ Passed \/ \E p \in Players : Shortened(p))
    \/ \E host \in Players : Started(host)

LEMMA ExpireChanges ==
    ASSUME TypesOK, NEW f \in Flows, Expire(f), UNCHANGED <<confirmed, games>>
    PROVE  Change
  BY TurnIsOn DEF TypesOK, Expire, Change, Passed

LEMMA ScoreChanges ==
    ASSUME TypesOK, NEW f \in Flows, NEW p, ScoreTurn(f, p), games' = games
    PROVE  Change
  BY TurnIsOn DEF TypesOK, ScoreTurn, Change, Passed

LEMMA Changes ==
    ASSUME TypesOK, [Next]_vars
    PROVE  Change
  <1>1. CASE UNCHANGED vars
    BY <1>1 DEF vars, redis, history, Change
  <1>2. ASSUME NEW f \in Flows, Step(f)
        PROVE  Change
    <2>1. CASE Begin(f) \/ Arm(f) \/ ScheduleTurn(f) \/ Cancel(f) \/ Finish(f)
      BY <2>1 DEF Begin, Arm, ScheduleTurn, Cancel, Finish, redis, history, Change
    <2>2. CASE Skip(f)
      BY <2>2, ExpireChanges DEF Skip, history
    <2>3. CASE LeaveSeat(f) \/ DecideRemoval(f) \/ Clear(f) \/ Resolve(f)
      BY <2>3 DEF LeaveSeat, DecideRemoval, Clear, Resolve, redis, history, Change
    <2>4. CASE PassTurn(f)
      BY <2>4, TurnIsOn DEF PassTurn, history, TypesOK, Change, Passed
    <2>5. CASE Splice(f)
      <3> DEFINE p == flow[f].who
      <3>1. UNCHANGED <<confirmed, games>> /\ (state' = state \/ (state' = Without(state, p)
                /\ state # NoState /\ ~IsTurn(state, state.round, p)))
        BY <2>5 DEF Splice, history
      <3>2. CASE state' = state
        BY <3>1, <3>2 DEF Change
      <3>3. CASE state' # state
        <4>1. state # NoState /\ WellFormed(state)
          BY <3>1, <3>3 DEF TypesOK, StateOK
        <4>2. ~state.finished /\ p \in Participants(state)
          BY <3>1, <3>3 DEF Without
        <4>3. p # Active(state)
          BY <3>1, <3>3, <4>2 DEF IsTurn
        <4>4. p \in Players
          BY <4>1, <4>2, WellFormedIsSome DEF Participants, WellFormed
        <4> QED BY <3>1, <3>3, <4>1, <4>2, <4>3, <4>4 DEF Change, Shortened
      <3> QED BY <3>2, <3>3
    <2>6. CASE AutoRoll(f)
      BY <2>6, TurnIsOn DEF AutoRoll, history, TypesOK, Change, Rolled
    <2>7. CASE ScoreForThem(f)
      BY <2>7, ExpireChanges, ScoreChanges DEF ScoreForThem, history
    <2> QED BY <1>2, <2>1, <2>2, <2>3, <2>4, <2>5, <2>6, <2>7 DEF Step
  <1>3. ASSUME NEW f \in Flows, FireTimer(f) \/ ReturnToLobby(f)
        PROVE  Change
    BY <1>3 DEF FireTimer, ReturnToLobby, redis, history, Change
  <1>4. ASSUME NEW f \in Flows, NEW p \in Players, Request(f, p)
        PROVE  Change
    <2>1. CASE Roll(f, p)
      BY <2>1, TurnIsOn DEF Roll, history, TypesOK, Change, Rolled
    <2>2. CASE Submit(f, p)
      BY <2>2, ScoreChanges DEF Submit, history
    <2>3. CASE Join(f, p) \/ LeaveByRequest(f, p)
      BY <2>3 DEF Join, LeaveByRequest, history, Change
    <2>4. CASE StartGame(f, p)
      BY <2>4 DEF StartGame, HumansIn, SomeIdle, Change, Started
    <2> QED BY <1>4, <2>1, <2>2, <2>3, <2>4 DEF Request
  <1>5. CASE (\E p \in Seats : Disconnect(p)) \/ CloseEmpty \/ Restart \/ Sweep
    BY <1>5 DEF Disconnect, CloseEmpty, Restart, Sweep, history, Change
  <1>6. ASSUME NEW f \in Flows, NEW p \in Seats, Socket(f, p)
        PROVE  Change
    BY <1>6 DEF Socket, LeaveBySocket, Connect, redis, history, Change
  <1> QED BY <1>1, <1>2, <1>3, <1>4, <1>5, <1>6 DEF Next

-----------------------------------------------------------------------------
(* Scores and turns.                                                         *)

\* What ScoredTurnsArePassed says of a state and the scores that go with it.
ScoresPassed(s, c) ==
    \A p \in Players :
        /\ \A r \in c[p] : r <= s.round
        /\ s.round \in c[p] /\ p \in Participants(s)
           => s.finished \/ PositionOf(s, p) < s.index

ScoresOK == state # NoState => ScoresPassed(state, confirmed)

LEMMA AdvancedPasses ==
    ASSUME NEW s, WellFormed(s), ~s.finished, NEW c \in [Players -> SUBSET Rounds],
           ScoresPassed(s, c), NEW d,
           d = c \/ d = [c EXCEPT ![Active(s)] = @ \cup {s.round}]
    PROVE  ScoresPassed(Advanced(s), d)
  <1> DEFINE w == Advanced(s)
  <1>1. /\ s.round \in Nat /\ Active(s) \in Players /\ TotalRounds \in Nat /\ s.round \in Rounds
        /\ s.index \in 1 .. Len(s.order) /\ DOMAIN s.order = 1 .. Len(s.order) /\ s.index \in Nat
    BY WellFormedIsSome, LimitsAssumption DEF WellFormed
  <1>2. Participants(w) = Participants(s) /\ \A p : PositionOf(w, p) = PositionOf(s, p)
    BY AdvancedIsWellFormed DEF Participants, PositionOf
  <1> SUFFICES ASSUME NEW p \in Players
               PROVE  /\ \A r \in d[p] : r <= w.round
                      /\ w.round \in d[p] /\ p \in Participants(w)
                         => w.finished \/ PositionOf(w, p) < w.index
    BY DEF ScoresPassed
  <1>3. /\ d[p] \subseteq c[p] \cup {s.round}
        /\ s.round \in d[p] => p = Active(s) \/ s.round \in c[p]
        /\ \A r \in d[p] : r \in Nat /\ r <= s.round
    <2>1. d[p] \subseteq c[p] \cup {s.round} /\ (p # Active(s) => d[p] = c[p])
      BY <1>1
    <2>2. c[p] \subseteq Nat /\ \A r \in c[p] : r <= s.round
      BY DEF ScoresPassed, Rounds
    <2> QED BY <1>1, <2>1, <2>2
  <1>4. CASE ~LastOfRound(s)
    <2>1. w.round = s.round /\ w.index = s.index + 1
      BY <1>4, AdvancedFields
    <2>2. ASSUME s.round \in d[p], p \in Participants(s)
          PROVE  PositionOf(s, p) < s.index + 1
      <3>1. PositionOf(s, p) \in Nat
        BY <1>1, <2>2, PositionIs
      <3>2. CASE p = Active(s)
        <4>1. s.order[s.index] = p
          BY <3>2 DEF Active
        <4>2. PositionOf(s, p) = s.index
          BY <1>1, <2>2, <4>1, PositionIs
        <4> QED BY <1>1, <4>2
      <3>3. CASE s.round \in c[p]
        <4>1. PositionOf(s, p) < s.index
          BY <2>2, <3>3 DEF ScoresPassed
        <4> QED BY <1>1, <3>1, <4>1
      <3> QED BY <1>3, <2>2, <3>2, <3>3
    <2> HIDE DEF w
    <2> QED BY <1>2, <1>3, <2>1, <2>2
  <1>5. CASE LastOfRound(s) /\ s.round < TotalRounds
    <2>1. w.round = s.round + 1
      BY <1>5, AdvancedFields
    <2>2. \A r \in d[p] : r <= s.round + 1 /\ r # s.round + 1
      BY <1>1, <1>3
    <2> HIDE DEF w
    <2> QED BY <2>1, <2>2
  <1>6. CASE LastOfRound(s) /\ ~(s.round < TotalRounds)
    <2>1. w.round = s.round /\ w.finished
      BY <1>6, AdvancedFields
    <2> HIDE DEF w
    <2> QED BY <1>3, <2>1
  <1> QED BY <1>4, <1>5, <1>6

LEMMA WithoutPasses ==
    ASSUME NEW s, WellFormed(s), ~s.finished, NEW q \in Participants(s), q # Active(s),
           NEW c \in [Players -> SUBSET Rounds], ScoresPassed(s, c)
    PROVE  ScoresPassed(Without(s, q), c)
  <1> DEFINE w == Without(s, q)
             at == PositionOf(s, q)
             n == Len(s.order)
  <1>1. /\ WellFormed(w) /\ Len(w.order) = n - 1 /\ n - 1 \in Nat \ {0}
        /\ \A i \in 1 .. n - 1 : w.order[i] = s.order[Behind(at, i)]
        /\ at # s.index /\ w.index = IF at < s.index THEN s.index - 1 ELSE s.index
        /\ w.round = s.round
    BY WithoutIsWellFormed
  <1>2. at \in 1 .. n /\ s.index \in 1 .. n /\ n \in Nat
    BY PositionIs, WellFormedIsSome DEF WellFormed
  <1> SUFFICES ASSUME NEW p \in Players, s.round \in c[p], p \in Participants(w)
               PROVE  PositionOf(w, p) < w.index
    BY <1>1 DEF ScoresPassed
  <1> DEFINE i == PositionOf(w, p)
  <1>3. i \in 1 .. n - 1 /\ w.order[i] = p
    BY <1>1, PositionIs
  <1>4. Behind(at, i) \in 1 .. n /\ s.order[Behind(at, i)] = p
    BY <1>1, <1>2, <1>3 DEF Behind
  <1>5. p \in Participants(s)
    BY <1>4, WellFormedIsSome DEF Participants
  <1>6. Behind(at, i) = PositionOf(s, p)
    BY <1>4, <1>5, PositionIs
  <1>7. Behind(at, i) < s.index
    BY <1>5, <1>6 DEF ScoresPassed
  <1> HIDE DEF i, at, n, w
  <1>8. i < w.index
    BY <1>1, <1>2, <1>3, <1>7 DEF Behind
  <1> QED BY <1>8 DEF i, w

LEMMA ScoresKept ==
    ASSUME TypesOK, ScoresOK, [Next]_vars
    PROVE  ScoresOK'
  <1>1. Change
    BY Changes
  <1>2. confirmed \in [Players -> SUBSET Rounds]
    BY DEF TypesOK, TypeOK
  <1>3. CASE UNCHANGED <<state, confirmed>>
    BY <1>3 DEF ScoresOK, ScoresPassed, Participants, PositionOf
  <1>4. CASE state' = NoState
    BY <1>4 DEF ScoresOK, NoState
  <1>5. CASE WellFormed(state) /\ Rolled
    <2>1. /\ state'.round = state.round /\ state'.order = state.order
          /\ state'.index = state.index /\ state'.finished = state.finished
          /\ confirmed' = confirmed
      BY <1>5 DEF Rolled, WellFormed, StateRecord
    <2>2. ScoresPassed(state, confirmed)
      BY <1>5, WellFormedIsSome DEF ScoresOK
    <2>3. ScoresPassed(state', confirmed')
      BY <2>1, <2>2 DEF ScoresPassed, Participants, PositionOf
    <2> QED BY <2>3 DEF ScoresOK, ScoresPassed
  <1>6. CASE WellFormed(state) /\ Passed
    <2>1. ScoresPassed(state, confirmed)
      BY <1>6, WellFormedIsSome DEF ScoresOK
    <2>2. ScoresPassed(state', confirmed')
      BY <1>2, <1>6, <2>1, AdvancedPasses DEF Passed
    <2> QED BY <2>2 DEF ScoresOK, ScoresPassed
  <1>7. ASSUME NEW p \in Players, WellFormed(state), Shortened(p)
        PROVE  ScoresOK'
    <2>1. ScoresPassed(state, confirmed)
      BY <1>7, WellFormedIsSome DEF ScoresOK
    <2>2. ScoresPassed(state', confirmed')
      BY <1>2, <1>7, <2>1, WithoutPasses DEF Shortened
    <2> QED BY <2>2 DEF ScoresOK, ScoresPassed
  <1>8. ASSUME NEW host \in Players, Started(host)
        PROVE  ScoresOK'
    <2>1. \A p \in Players : confirmed'[p] = {}
      BY <1>8 DEF Started
    <2> QED BY <2>1 DEF ScoresOK, ScoresPassed
  <1> QED BY <1>1, <1>3, <1>4, <1>5, <1>6, <1>7, <1>8 DEF Change

\* Score and turn go together, whatever handlers interleave: a player with a score for
\* the round being played has had their turn in it, and nobody has a score for a later
\* round (YachtTurns.ScoredTurnsArePassed).
THEOREM ScoresNeverRunAhead == Spec => []ScoredTurnsArePassed
  <1>1. Init => ScoresOK
    BY DEF Init, ScoresOK
  <1>2. TypesOK /\ ScoresOK /\ [Next]_vars => ScoresOK'
    BY ScoresKept
  <1>3. ScoresOK => ScoredTurnsArePassed
    BY DEF ScoresOK, ScoresPassed, ScoredTurnsArePassed
  <1> QED BY <1>1, <1>2, <1>3, TypesInvariant, PTL DEF Spec

-----------------------------------------------------------------------------
(* The list implements TurnCycle.                                            *)

Now(s) == IF s = NoState THEN {} ELSE {Active(s)}
After(s) == {s.order[i] : i \in {j \in DOMAIN s.order : j > s.index}}
Before(s) == {s.order[i] : i \in {j \in DOMAIN s.order : j < s.index}}

LEMMA MapNoState ==
    /\ NoState.round = 0 /\ NoState.finished = FALSE
    /\ Now(NoState) = {} /\ After(NoState) = {} /\ Before(NoState) = {}
  <1>1. NoState.order = << >> /\ DOMAIN << >> = {}
    BY DEF NoState
  <1> QED BY <1>1 DEF NoState, Now, After, Before

LEMMA MapStart ==
    ASSUME roster \subseteq Players, NEW host \in roster
    PROVE  LET w == StartState(TurnOrder(host)) IN
           /\ w.round = 1 /\ w.finished = FALSE
           /\ Now(w) = {host} /\ After(w) = roster \ {host} /\ Before(w) = {}
  <1> DEFINE o == TurnOrder(host)
             n == Cardinality(roster)
             w == StartState(o)
  <1>1. /\ n \in Nat \ {0} /\ o \in [1 .. n -> roster] /\ o[1] = host
        /\ \A p \in roster : \E i \in 1 .. n : o[i] = p
        /\ \A i, j \in 1 .. n : o[i] = o[j] => i = j
    BY TurnOrderLists
  <1>2. /\ w.round = 1 /\ w.finished = FALSE /\ w.order = o /\ w.index = 1 /\ w # NoState
        /\ DOMAIN o = 1 .. n
    BY <1>1 DEF StartState, NoState
  <1> HIDE DEF w, o, n
  <1>3. Now(w) = {host}
    BY <1>1, <1>2 DEF Now, Active
  <1>4. Before(w) = {}
    BY <1>1, <1>2 DEF Before
  <1>5. After(w) = roster \ {host}
    <2>1. After(w) = {o[i] : i \in {j \in 1 .. n : j > 1}}
      BY <1>2 DEF After
    <2>2. ASSUME NEW p \in After(w)
          PROVE  p \in roster \ {host}
      <3>1. PICK i \in 1 .. n : i > 1 /\ p = o[i]
        BY <2>1, <2>2
      <3>2. o[i] # o[1]
        BY <1>1, <3>1
      <3> QED BY <1>1, <3>1, <3>2
    <2>3. ASSUME NEW p \in roster \ {host}
          PROVE  p \in After(w)
      <3>1. PICK i \in 1 .. n : o[i] = p
        BY <1>1
      <3>2. i > 1
        BY <1>1, <3>1
      <3> QED BY <2>1, <3>1, <3>2
    <2> QED BY <2>2, <2>3
  <1> QED BY <1>2, <1>3, <1>4, <1>5 DEF w, o

\* Where everybody is in a list.
LEMMA MapList ==
    ASSUME NEW s, WellFormed(s)
    PROVE  /\ Now(s) = {s.order[s.index]}
           /\ \A p : p \in After(s) <=> \E i \in 1 .. Len(s.order) : i > s.index /\ s.order[i] = p
           /\ \A p : p \in Before(s) <=> \E i \in 1 .. Len(s.order) : i < s.index /\ s.order[i] = p
           /\ s.round \in Nat \ {0} /\ s.round \in 1 .. TotalRounds
  BY WellFormedIsSome DEF Now, Active, After, Before, WellFormed, Rounds

LEMMA MapPassOn ==
    ASSUME NEW s, WellFormed(s), ~LastOfRound(s)
    PROVE  LET w == Advanced(s) IN
           \E p \in After(s) :
              /\ p \in Players
              /\ Now(w) = {p} /\ After(w) = After(s) \ {p} /\ Before(w) = Before(s) \cup Now(s)
              /\ w.round = s.round /\ w.finished = s.finished
  <1> DEFINE w == Advanced(s)
             n == Len(s.order)
             x == s.index
             o == s.order
             p == o[x + 1]
  <1>1. /\ WellFormed(w) /\ w.order = o /\ w.index = x + 1 /\ x < n
        /\ w.round = s.round /\ w.finished = s.finished
    BY AdvancedFields, AdvancedIsWellFormed
  <1>2. n \in Nat /\ x \in 1 .. n /\ o \in [1 .. n -> Players]
        /\ \A i, j \in 1 .. n : o[i] = o[j] => i = j
    BY WellFormedIsSome DEF WellFormed
  <1>3. /\ Now(s) = {o[x]} /\ Now(w) = {p}
        /\ \A q : q \in After(s) <=> \E i \in 1 .. n : i > x /\ o[i] = q
        /\ \A q : q \in Before(s) <=> \E i \in 1 .. n : i < x /\ o[i] = q
        /\ \A q : q \in After(w) <=> \E i \in 1 .. n : i > x + 1 /\ o[i] = q
        /\ \A q : q \in Before(w) <=> \E i \in 1 .. n : i < x + 1 /\ o[i] = q
    <2>1. /\ Now(s) = {o[x]}
          /\ \A q : q \in After(s) <=> \E i \in 1 .. n : i > x /\ o[i] = q
          /\ \A q : q \in Before(s) <=> \E i \in 1 .. n : i < x /\ o[i] = q
      BY MapList
    <2>2. /\ Now(w) = {w.order[w.index]}
          /\ \A q : q \in After(w) <=> \E i \in 1 .. Len(w.order) : i > w.index /\ w.order[i] = q
          /\ \A q : q \in Before(w) <=> \E i \in 1 .. Len(w.order) : i < w.index /\ w.order[i] = q
      BY <1>1, MapList
    <2> HIDE DEF w
    <2> QED BY <1>1, <2>1, <2>2
  <1> HIDE DEF w, n, x, o
  <1>4. x + 1 \in 1 .. n /\ p \in Players
    BY <1>1, <1>2
  <1>5. p \in After(s)
    BY <1>2, <1>3, <1>4
  <1>6. After(w) = After(s) \ {p}
    <2>1. ASSUME NEW q
          PROVE  q \in After(w) <=> q \in After(s) /\ q # p
      <3>1. ASSUME q \in After(w)
            PROVE  q \in After(s) /\ q # p
        BY <1>2, <1>3, <1>4, <3>1
      <3>2. ASSUME q \in After(s), q # p
            PROVE  q \in After(w)
        BY <1>2, <1>3, <1>4, <3>2
      <3> QED BY <3>1, <3>2
    <2> QED BY <2>1
  <1>7. Before(w) = Before(s) \cup Now(s)
    <2>1. ASSUME NEW q
          PROVE  q \in Before(w) <=> q \in Before(s) \/ q = o[x]
      BY <1>2, <1>3
    <2> QED BY <1>3, <2>1
  <1> QED BY <1>1, <1>3, <1>4, <1>5, <1>6, <1>7 DEF w

\* The end of a round: nobody waits any more.
LEMMA MapEndOfRound ==
    ASSUME NEW s, WellFormed(s), LastOfRound(s)
    PROVE  After(s) = {}
  <1>1. \A i \in 1 .. Len(s.order) : ~ (i > s.index)
    BY WellFormedIsSome DEF LastOfRound
  <1>2. \A p : p \notin After(s)
    BY <1>1, MapList
  <1> QED BY <1>2

LEMMA MapNextRound ==
    ASSUME NEW s, WellFormed(s), LastOfRound(s), s.round < TotalRounds
    PROVE  LET w == Advanced(s) IN
           \E p \in Before(s) \cup Now(s) :
              /\ p \in Players
              /\ Now(w) = {p} /\ After(w) = (Before(s) \cup Now(s)) \ {p} /\ Before(w) = {}
              /\ w.round = s.round + 1 /\ w.finished = s.finished
  <1> DEFINE w == Advanced(s)
             n == Len(s.order)
             x == s.index
             o == s.order
             p == o[1]
  <1>1. /\ WellFormed(w) /\ w.order = o /\ w.index = 1 /\ x = n
        /\ w.round = s.round + 1 /\ w.finished = s.finished
    BY AdvancedFields, AdvancedIsWellFormed DEF LastOfRound
  <1>2. n \in Nat \ {0} /\ x \in 1 .. n /\ o \in [1 .. n -> Players]
        /\ \A i, j \in 1 .. n : o[i] = o[j] => i = j
    BY WellFormedIsSome DEF WellFormed
  <1>3. /\ Now(s) = {o[x]} /\ Now(w) = {p}
        /\ \A q : q \in Before(s) <=> \E i \in 1 .. n : i < x /\ o[i] = q
        /\ \A q : q \in After(w) <=> \E i \in 1 .. n : i > 1 /\ o[i] = q
        /\ \A q : q \in Before(w) <=> \E i \in 1 .. n : i < 1 /\ o[i] = q
    <2>1. /\ Now(s) = {o[x]}
          /\ \A q : q \in Before(s) <=> \E i \in 1 .. n : i < x /\ o[i] = q
      BY MapList
    <2>2. /\ Now(w) = {w.order[w.index]}
          /\ \A q : q \in After(w) <=> \E i \in 1 .. Len(w.order) : i > w.index /\ w.order[i] = q
          /\ \A q : q \in Before(w) <=> \E i \in 1 .. Len(w.order) : i < w.index /\ w.order[i] = q
      BY <1>1, MapList
    <2> HIDE DEF w
    <2> QED BY <1>1, <2>1, <2>2
  <1> HIDE DEF w, n, x, o
  <1>4. 1 \in 1 .. n /\ p \in Players
    BY <1>2
  <1>5. \A q : q \in Before(s) \cup Now(s) <=> \E i \in 1 .. n : o[i] = q
    <2>1. ASSUME NEW q
          PROVE  q \in Before(s) \cup Now(s) <=> \E i \in 1 .. n : o[i] = q
      <3>1. q \in Before(s) \cup Now(s) => \E i \in 1 .. n : o[i] = q
        BY <1>2, <1>3
      <3>2. ASSUME NEW i \in 1 .. n, o[i] = q
            PROVE  q \in Before(s) \cup Now(s)
        <4>1. i < x \/ i = x
          BY <1>1, <1>2
        <4> QED BY <1>3, <3>2, <4>1
      <3> QED BY <3>1, <3>2
    <2> QED BY <2>1
  <1>6. After(w) = (Before(s) \cup Now(s)) \ {p}
    <2>1. ASSUME NEW q
          PROVE  q \in After(w) <=> q \in Before(s) \cup Now(s) /\ q # p
      <3>1. ASSUME q \in After(w)
            PROVE  q \in Before(s) \cup Now(s) /\ q # p
        <4>1. PICK i \in 1 .. n : i > 1 /\ o[i] = q
          BY <1>3, <3>1
        <4>2. q # p
          BY <1>2, <1>4, <4>1
        <4> QED BY <1>5, <4>1, <4>2
      <3>2. ASSUME q \in Before(s) \cup Now(s), q # p
            PROVE  q \in After(w)
        <4>1. PICK i \in 1 .. n : o[i] = q
          BY <1>5, <3>2
        <4>2. i > 1
          BY <1>2, <3>2, <4>1
        <4> QED BY <1>3, <4>1, <4>2
      <3> QED BY <3>1, <3>2
    <2> QED BY <2>1
  <1>7. Before(w) = {}
    <2>1. \A q : q \notin Before(w)
      BY <1>2, <1>3
    <2> QED BY <2>1
  <1>8. p \in Before(s) \cup Now(s)
    BY <1>4, <1>5
  <1> QED BY <1>1, <1>3, <1>4, <1>6, <1>7, <1>8 DEF w

LEMMA MapLastTurn ==
    ASSUME NEW s, WellFormed(s), LastOfRound(s), ~(s.round < TotalRounds)
    PROVE  LET w == Advanced(s) IN
           /\ Now(w) = Now(s) /\ After(w) = After(s) /\ Before(w) = Before(s)
           /\ w.round = s.round /\ s.round = TotalRounds /\ w.finished
  <1> DEFINE w == Advanced(s)
  <1>1. /\ WellFormed(w) /\ w.order = s.order /\ w.index = s.index /\ w.round = s.round
        /\ w.finished
    BY AdvancedFields, AdvancedIsWellFormed
  <1>2. w # NoState /\ s # NoState
    BY <1>1, WellFormedIsSome
  <1>3. s.round = TotalRounds
    BY MapList, LimitsAssumption
  <1> HIDE DEF w
  <1>4. Now(w) = Now(s) /\ After(w) = After(s) /\ Before(w) = Before(s)
    BY <1>1, <1>2 DEF Now, Active, After, Before
  <1> QED BY <1>1, <1>3, <1>4 DEF w

\* Somebody without the turn is taken out: the others keep their side of it.
LEMMA MapWithdraw ==
    ASSUME NEW s, WellFormed(s), ~s.finished, NEW q \in Participants(s), q # Active(s)
    PROVE  LET w == Without(s, q) IN
           /\ q \in After(s) \cup Before(s)
           /\ Now(w) = Now(s) /\ After(w) = After(s) \ {q} /\ Before(w) = Before(s) \ {q}
           /\ w.round = s.round /\ w.finished = s.finished
  <1> DEFINE w == Without(s, q)
             at == PositionOf(s, q)
             n == Len(s.order)
             x == s.index
             y == w.index
             o == s.order
  <1>1. /\ WellFormed(w) /\ Len(w.order) = n - 1 /\ n - 1 \in Nat \ {0}
        /\ \A i \in 1 .. n - 1 : w.order[i] = o[Behind(at, i)]
        /\ at # x /\ y = IF at < x THEN x - 1 ELSE x
        /\ w.round = s.round /\ w.finished = s.finished
    BY WithoutIsWellFormed
  <1>2. /\ at \in 1 .. n /\ o[at] = q /\ x \in 1 .. n /\ n \in Nat
        /\ \A i, j \in 1 .. n : o[i] = o[j] => i = j
    BY PositionIs, WellFormedIsSome DEF WellFormed
  <1>3. /\ Now(s) = {o[x]}
        /\ \A p : p \in After(s) <=> \E i \in 1 .. n : i > x /\ o[i] = p
        /\ \A p : p \in Before(s) <=> \E i \in 1 .. n : i < x /\ o[i] = p
    BY MapList
  <1>4. /\ Now(w) = {w.order[y]} /\ y \in 1 .. n - 1
        /\ \A p : p \in After(w) <=> \E i \in 1 .. n - 1 : i > y /\ w.order[i] = p
        /\ \A p : p \in Before(w) <=> \E i \in 1 .. n - 1 : i < y /\ w.order[i] = p
    <2>1. /\ Now(w) = {w.order[y]}
          /\ \A p : p \in After(w) <=> \E i \in 1 .. Len(w.order) : i > y /\ w.order[i] = p
          /\ \A p : p \in Before(w) <=> \E i \in 1 .. Len(w.order) : i < y /\ w.order[i] = p
      BY <1>1, MapList
    <2>2. y \in 1 .. n - 1
      BY <1>1 DEF WellFormed
    <2> HIDE DEF w, y, n
    <2> QED BY <1>1, <2>1, <2>2
  <1> HIDE DEF w, at, n, x, y, o
  <1>5. Now(w) = Now(s)
    <2>1. Behind(at, y) = x
      BY <1>1, <1>2 DEF Behind
    <2> QED BY <1>1, <1>3, <1>4, <2>1
  \* An old place other than at is a new place on the same side.
  <1>6. ASSUME NEW i \in 1 .. n, i # at
        PROVE  \E j \in 1 .. n - 1 : Behind(at, j) = i /\ (j > y <=> i > x) /\ (j < y <=> i < x)
    <2> DEFINE j == IF i < at THEN i ELSE i - 1
    <2>1. j \in 1 .. n - 1 /\ Behind(at, j) = i
      BY <1>2, <1>6 DEF Behind
    <2>2. (j > y <=> i > x) /\ (j < y <=> i < x)
      BY <1>1, <1>2, <1>6
    <2> QED BY <2>1, <2>2
  <1>7. ASSUME NEW j \in 1 .. n - 1
        PROVE  /\ Behind(at, j) \in 1 .. n /\ Behind(at, j) # at
               /\ (j > y <=> Behind(at, j) > x) /\ (j < y <=> Behind(at, j) < x)
    BY <1>1, <1>2 DEF Behind
  <1>8. ASSUME NEW p
        PROVE  (p \in After(w) <=> p \in After(s) /\ p # q)
               /\ (p \in Before(w) <=> p \in Before(s) /\ p # q)
    <2>1. ASSUME NEW j \in 1 .. n - 1, w.order[j] = p
          PROVE  /\ p # q
                 /\ j > y => p \in After(s)
                 /\ j < y => p \in Before(s)
      <3>1. o[Behind(at, j)] = p
        BY <1>1, <2>1
      <3>2. p # q
        BY <1>2, <1>7, <3>1
      <3> QED BY <1>3, <1>7, <3>1, <3>2
    <2>2. ASSUME NEW i \in 1 .. n, o[i] = p, p # q
          PROVE  /\ i > x => p \in After(w)
                 /\ i < x => p \in Before(w)
      <3>1. i # at
        BY <1>2, <2>2
      <3>2. PICK j \in 1 .. n - 1 : Behind(at, j) = i /\ (j > y <=> i > x) /\ (j < y <=> i < x)
        BY <1>6, <3>1
      <3>3. w.order[j] = p
        BY <1>1, <2>2, <3>2
      <3> QED BY <1>4, <3>2, <3>3
    <2> QED BY <1>3, <1>4, <2>1, <2>2
  <1>9. q \in After(s) \cup Before(s)
    <2>1. at > x \/ at < x
      BY <1>1, <1>2
    <2> QED BY <1>2, <1>3, <2>1
  <1>10. After(w) = After(s) \ {q} /\ Before(w) = Before(s) \ {q}
    BY <1>8
  <1> QED BY <1>1, <1>5, <1>9, <1>10 DEF w

\* A list and index that stay where they are.
LEMMA MapSame ==
    ASSUME NEW s, WellFormed(s), NEW w, WellFormed(w), w.order = s.order, w.index = s.index
    PROVE  Now(w) = Now(s) /\ After(w) = After(s) /\ Before(w) = Before(s)
  BY WellFormedIsSome DEF Now, Active, After, Before

\* Before a game begins the last one has been cleared away: the lobby is only entered by
\* ReturnToLobby, whose handler clears the state next.
Cleared ==
    /\ phase = "LOBBY" => state = NoState \/ \E f \in Flows : flow[f].pc = "clear"
    /\ games = 0 => state = NoState

\* A handler about to clear the state does that and nothing else.
LEMMA ClearIsNext ==
    ASSUME TypesOK, NEW f \in Flows, flow[f].pc = "clear", [Next]_vars
    PROVE  state' = NoState \/ flow'[f].pc = "clear"
  <1>1. ASSUME NEW g \in Flows, FlowStep(g), g # f
        PROVE  flow'[f] = flow[f]
    <2>1. PICK fr : flow' = [flow EXCEPT ![g] = fr]
      BY <1>1, FlowTypes DEF GoodStep
    <2> QED BY <1>1, <2>1 DEF TypesOK, TypeOK
  <1>2. CASE FlowStep(f)
    <2>1. Clear(f)
      BY <1>2 DEF FlowStep, Step, Begin, Arm, ScheduleTurn, Cancel, Finish, Skip, LeaveSeat,
           DecideRemoval, PassTurn, Splice, AutoRoll, Resolve, ScoreForThem, FireTimer,
           ReturnToLobby, Request, Join, Roll, Submit, LeaveByRequest, StartGame, Socket,
           LeaveBySocket, Connect, IsIdle
    <2> QED BY <2>1 DEF Clear
  <1>3. CASE (\E p \in Seats : Disconnect(p)) \/ CloseEmpty \/ Sweep \/ UNCHANGED vars
    BY <1>3 DEF Disconnect, CloseEmpty, Sweep, vars
  <1>4. ~Restart
    BY DEF Restart, AtRest, IsIdle
  <1> QED BY <1>1, <1>2, <1>3, <1>4 DEF Next, FlowStep

LEMMA LobbyIsEntered ==
    ASSUME TypesOK, [Next]_vars, phase' = "LOBBY"
    PROVE  phase = "LOBBY" \/ \E f \in Flows : ReturnToLobby(f)
  <1>1. ASSUME NEW f \in Flows, Step(f)
        PROVE  phase = "LOBBY"
    BY <1>1 DEF Step, Begin, Arm, ScheduleTurn, Cancel, Finish, Skip, LeaveSeat, LeaveRoster,
         DecideRemoval, PassTurn, Splice, Clear, AutoRoll, Resolve, ScoreForThem, redis
  <1>2. ASSUME NEW f \in Flows, NEW p \in Players, FireTimer(f) \/ Request(f, p)
        PROVE  phase = "LOBBY"
    BY <1>2 DEF FireTimer, Request, Join, Roll, Submit, LeaveByRequest, LeaveRoster, StartGame,
         redis
  <1>3. CASE (\E p \in Seats : Disconnect(p)) \/ CloseEmpty \/ Sweep \/ Restart
             \/ UNCHANGED vars
    BY <1>3 DEF Disconnect, CloseEmpty, Sweep, Restart, vars, redis
  <1>4. ASSUME NEW f \in Flows, FireTimer(f)
        PROVE  phase = "LOBBY"
    BY <1>4 DEF FireTimer, redis
  <1>5. ASSUME NEW f \in Flows, NEW p \in Seats, Socket(f, p)
        PROVE  phase = "LOBBY"
    BY <1>5 DEF Socket, LeaveBySocket, Connect, redis
  <1> QED BY <1>1, <1>2, <1>3, <1>4, <1>5 DEF Next

LEMMA ClearedKept ==
    ASSUME TypesOK, Cleared, [Next]_vars
    PROVE  Cleared'
  <1>1. games \in Nat /\ flow \in [Flows -> Frame]
    BY LimitsAssumption DEF TypesOK, TypeOK
  <1>2. state = NoState => state' = NoState \/ (games' = games + 1 /\ phase' = "PLAYING")
    BY Changes, WellFormedIsSome DEF Change, Started
  <1>3. games' = games \/ games' = games + 1
    BY Changes DEF Change, Started
  <1>4. games' = 0 => state' = NoState
    BY <1>1, <1>2, <1>3 DEF Cleared
  <1>5. ASSUME phase' = "LOBBY"
        PROVE  state' = NoState \/ \E f \in Flows : flow'[f].pc = "clear"
    <2>1. ASSUME NEW f \in Flows, ReturnToLobby(f)
          PROVE  flow'[f].pc = "clear"
      BY <1>1, <2>1 DEF ReturnToLobby, Goto, Frame
    <2>2. CASE phase = "LOBBY" /\ state = NoState
      BY <1>2, <1>5, <2>2
    <2>3. CASE phase = "LOBBY" /\ state # NoState
      <3>1. PICK f \in Flows : flow[f].pc = "clear"
        BY <2>3 DEF Cleared
      <3> QED BY <3>1, ClearIsNext
    <2> QED BY <1>5, <2>1, <2>2, <2>3, LobbyIsEntered
  <1> QED BY <1>4, <1>5 DEF Cleared, NoState

LEMMA ClearedInvariant == Spec => []Cleared
  <1>1. Init => Cleared
    BY DEF Init, Cleared
  <1>2. TypesOK /\ Cleared /\ [Next]_vars => Cleared'
    BY ClearedKept
  <1> QED BY <1>1, <1>2, TypesInvariant, PTL DEF Spec

\* Handlers run one after the other, or the room plays one game.
OneAtATime == (\A f, g \in Flows : f = g) \/ MaxGames <= 1

LEMMA TurnsBegin == Init => Turns!Init
  BY MapNoState DEF Init, Turns!Init, Now, After, Before

LEMMA TurnsGoOn ==
    ASSUME OneAtATime, TypesOK, Cleared, [Next]_vars
    PROVE  [Turns!Next]_(Turns!vars)
  <1> DEFINE s == state
             w == state'
  <1>1. Change /\ StateOK /\ roster \subseteq Players
    BY Changes DEF TypesOK, TypeOK
  <1>2. CASE Now(w) = Now(s) /\ After(w) = After(s) /\ Before(w) = Before(s)
             /\ w.round = s.round /\ w.finished = s.finished
    BY <1>2 DEF Turns!vars, Now, After, Before
  <1>3. CASE w = s
    BY <1>2, <1>3
  <1>4. CASE w = NoState /\ w # s
    <2>1. /\ s.round > 0
          /\ Now(w) = {} /\ After(w) = {} /\ Before(w) = {} /\ w.round = 0 /\ w.finished = FALSE
      BY <1>1, <1>4, MapNoState, MapList DEF StateOK
    <2>2. Turns!Discard
      BY <2>1 DEF Turns!Discard, Now, After, Before
    <2> QED BY <2>2 DEF Turns!Next
  <1>5. CASE WellFormed(s) /\ Rolled
    <2>1. WellFormed(w) /\ w.order = s.order /\ w.index = s.index
          /\ w.round = s.round /\ w.finished = s.finished
      BY <1>5, RolledIsWellFormed DEF Rolled, WellFormed, StateRecord
    <2> QED BY <1>2, <1>5, <2>1, MapSame
  <1>6. CASE WellFormed(s) /\ Passed
    <2>1. w = Advanced(s) /\ ~s.finished /\ s.round \in Nat /\ s.round > 0
          /\ s.finished \in BOOLEAN
      BY <1>6, MapList DEF Passed, WellFormed, StateRecord
    <2>2. CASE ~LastOfRound(s)
      <3>1. PICK p \in After(s) :
               /\ p \in Players
               /\ Now(w) = {p} /\ After(w) = After(s) \ {p} /\ Before(w) = Before(s) \cup Now(s)
               /\ w.round = s.round /\ w.finished = s.finished
        BY <1>6, <2>1, <2>2, MapPassOn
      <3>2. Turns!PassOn(p)
        BY <2>1, <3>1 DEF Turns!PassOn, Turns!InGame, Now, After, Before
      <3> QED BY <3>1, <3>2 DEF Turns!Next
    <2>3. CASE LastOfRound(s) /\ s.round < TotalRounds
      <3>1. PICK p \in Before(s) \cup Now(s) :
               /\ p \in Players
               /\ Now(w) = {p} /\ After(w) = (Before(s) \cup Now(s)) \ {p} /\ Before(w) = {}
               /\ w.round = s.round + 1 /\ w.finished = s.finished
        BY <1>6, <2>1, <2>3, MapNextRound
      <3>2. After(s) = {}
        BY <1>6, <2>3, MapEndOfRound
      <3>3. Turns!NextRound(p)
        BY <2>1, <2>3, <3>1, <3>2 DEF Turns!NextRound, Turns!InGame, Now, After, Before
      <3> QED BY <3>1, <3>3 DEF Turns!Next
    <2>4. CASE LastOfRound(s) /\ ~(s.round < TotalRounds)
      <3>1. /\ Now(w) = Now(s) /\ After(w) = After(s) /\ Before(w) = Before(s)
            /\ w.round = s.round /\ s.round = TotalRounds /\ w.finished
        BY <1>6, <2>1, <2>4, MapLastTurn
      <3>2. After(s) = {} /\ w.finished = TRUE
        <4>1. w.finished \in BOOLEAN
          BY <1>6, <2>1, AdvancedFields DEF StateRecord
        <4> QED BY <1>6, <2>4, <3>1, <4>1, MapEndOfRound
      <3>3. Turns!LastTurn
        BY <2>1, <3>1, <3>2 DEF Turns!LastTurn, Turns!InGame, Now, After, Before
      <3> QED BY <3>3 DEF Turns!Next
    <2> QED BY <2>2, <2>3, <2>4
  <1>7. ASSUME NEW p \in Players, WellFormed(s), Shortened(p)
        PROVE  [Turns!Next]_(Turns!vars)
    <2>1. /\ p \in After(s) \cup Before(s)
          /\ Now(w) = Now(s) /\ After(w) = After(s) \ {p} /\ Before(w) = Before(s) \ {p}
          /\ w.round = s.round /\ w.finished = s.finished
      BY <1>7, MapWithdraw DEF Shortened
    <2>2. ~s.finished /\ s.round > 0
      BY <1>7, MapList DEF Shortened
    <2>3. Turns!Withdraw(p)
      BY <2>1, <2>2 DEF Turns!Withdraw, Turns!InGame, Now, After, Before
    <2> QED BY <2>3 DEF Turns!Next
  <1>8. ASSUME NEW host \in Players, Started(host)
        PROVE  [Turns!Next]_(Turns!vars)
    <2>1. s = NoState
      <3>1. CASE \A f, g \in Flows : f = g
        <4>1. ~ \E f \in Flows : flow[f].pc = "clear"
          BY <1>8, <3>1 DEF Started, SomeIdle, IsIdle
        <4> QED BY <1>8, <4>1 DEF Started, Cleared
      <3>2. CASE MaxGames <= 1
        <4>1. games = 0
          BY <1>8, <3>2, LimitsAssumption DEF Started, TypesOK, TypeOK
        <4> QED BY <4>1 DEF Cleared
      <3> QED BY <3>1, <3>2 DEF OneAtATime
    <2>2. /\ w.round = 1 /\ w.finished = FALSE
          /\ Now(w) = {host} /\ After(w) = roster \ {host} /\ Before(w) = {}
      BY <1>1, <1>8, MapStart DEF Started
    <2>3. s.round = 0
      BY <2>1, MapNoState
    <2>4. Turns!Begin(roster, host)
      BY <2>2, <2>3 DEF Turns!Begin, Now, After, Before
    <2>5. roster \in SUBSET Players /\ host \in roster
      BY <1>1, <1>8 DEF Started
    <2> QED BY <2>4, <2>5 DEF Turns!Next
  <1> QED BY <1>1, <1>3, <1>4, <1>5, <1>6, <1>7, <1>8 DEF Change

\* The list of turns, with its index, gives everybody one turn in every round, whoever
\* leaves and at whatever position, and begins a game only where the last one is gone: it
\* implements TurnCycle while handlers run one after the other, and with any number of
\* handlers in the first game (YachtTurns.ImplementsTurnCycle).
THEOREM TurnsAreDealtInTurn ==
    ASSUME OneAtATime
    PROVE  Spec => ImplementsTurnCycle
  <1>1. OneAtATime /\ TypesOK /\ Cleared /\ [Next]_vars => [Turns!Next]_(Turns!vars)
    BY TurnsGoOn
  <1> QED BY <1>1, OneAtATime, TurnsBegin, TypesInvariant, ClearedInvariant, PTL
          DEF Spec, ImplementsTurnCycle, Turns!Spec

-----------------------------------------------------------------------------
(* Handlers that run one after the other: what each of them may rely on.     *)

LEMMA TypesKept ==
    ASSUME TypesOK, [Next]_vars
    PROVE  TypesOK'
  <1>1. ASSUME NEW f \in Flows, FlowStep(f)
        PROVE  TypesOK'
    BY <1>1, FlowTypes, StepKeepsTypes DEF GoodStep
  <1>2. CASE UNCHANGED vars
    BY <1>2, NoStateType DEF vars, redis, memory, history, TypesOK, TypeOK, StateOK, WellFormed
  <1> QED BY <1>1, <1>2, ProcessTypes DEF Next, FlowStep

LEMMA IdleFields == IdleFrame.pc = "idle" /\ IdleFrame.round = 0 /\ IdleFrame.ended = 0
  BY DEF IdleFrame

LEMMA FrameFields ==
    ASSUME NEW s, WellFormed(s), NEW r \in 0 .. TotalRounds
    PROVE  /\ BeginFrame(s).pc = "begin" /\ BeginFrame(s).st = s
           /\ CancelFrame(s, r).pc = "cancel" /\ CancelFrame(s, r).st = s
           /\ CancelFrame(s, r).ended = r
  BY IdleType DEF BeginFrame, CancelFrame, Frame

LEMMA LeaveFields ==
    ASSUME NEW p \in Seats
    PROVE  /\ LeaveFrame(p).pc = "leave" /\ LeaveFrame(p).who = p
           /\ LeaveFrame(p).round = 0 /\ LeaveFrame(p).ended = 0
  BY IdleType, IdleFields DEF LeaveFrame, Frame

\* Lists and what becomes of them.
LEMMA SeatsAreTurns ==
    ASSUME NEW s, WellFormed(s)
    PROVE  /\ Cardinality(Participants(s)) = Len(s.order)
           /\ Participants(s) \subseteq Players
           /\ Active(s) \in Participants(s)
           /\ Participants(s) = Before(s) \cup Now(s) \cup After(s)
           /\ Len(s.order) = 1 => \A p \in Participants(s) : Participants(s) \ {p} = {}
           /\ Len(s.order) # 1 => \A p : Participants(s) \ {p} # {}
  <1> DEFINE n == Len(s.order)
             o == s.order
             S == Participants(s)
  <1>1. /\ n \in Nat \ {0} /\ DOMAIN o = 1 .. n /\ o \in [1 .. n -> Players]
        /\ s.index \in 1 .. n /\ \A i, j \in 1 .. n : o[i] = o[j] => i = j
    BY WellFormedIsSome DEF WellFormed
  <1>2. S = {o[i] : i \in 1 .. n}
    BY <1>1 DEF Participants
  <1>3. Cardinality(S) = n
    <2>1. o \in Bijection(1 .. n, S)
      BY <1>1, <1>2 DEF Bijection, Injection, Surjection, IsInjective
    <2>2. IsFiniteSet(1 .. n) /\ Cardinality(1 .. n) = n
      BY <1>1, FS_Interval
    <2> HIDE DEF n, o, S
    <2>3. ExistsBijection(1 .. n, S)
      BY <2>1 DEF ExistsBijection
    <2> QED BY <2>2, <2>3, FS_Bijection
  <1>4. Active(s) \in S /\ S \subseteq Players
    BY <1>1, <1>2 DEF Active
  <1>5. S = Before(s) \cup Now(s) \cup After(s)
    <2>1. \A i \in 1 .. n : i < s.index \/ i = s.index \/ i > s.index
      BY <1>1
    <2> HIDE DEF n, o, S
    <2>2. /\ Now(s) = {o[s.index]}
          /\ \A p : p \in After(s) <=> \E i \in 1 .. n : i > s.index /\ o[i] = p
          /\ \A p : p \in Before(s) <=> \E i \in 1 .. n : i < s.index /\ o[i] = p
      BY MapList DEF n, o
    <2>3. ASSUME NEW p
          PROVE  p \in S <=> p \in Before(s) \cup Now(s) \cup After(s)
      BY <1>1, <1>2, <2>1, <2>2
    <2> QED BY <2>3
  <1>6. n = 1 => \A p \in S : S \ {p} = {}
    BY <1>1, <1>2
  <1>7. ASSUME n # 1, NEW p
        PROVE  S \ {p} # {}
    <2> HIDE DEF n, o
    <2>1. 1 \in 1 .. n /\ 2 \in 1 .. n /\ o[1] # o[2]
      BY <1>1, <1>7
    <2> QED BY <1>2, <2>1
  <1> QED BY <1>3, <1>4, <1>5, <1>6, <1>7

\* The round whose timer is cut when a turn ends, and how it ends.
CutRound(s, ended) == IF ended = 0 THEN s.round ELSE ended
EndFits(s, ended) == s.finished <=> ended = TotalRounds

LEMMA TurnEnds ==
    ASSUME NEW s, WellFormed(s), ~s.finished
    PROVE  LET w == Advanced(s) IN
           /\ WellFormed(w) /\ Participants(w) = Participants(s)
           /\ EndFits(w, Ended(s)) /\ CutRound(w, Ended(s)) = s.round
           /\ Ended(s) \in 0 .. TotalRounds
           /\ Len(s.order) # 1 => w.finished \/ Active(w) # Active(s)
  <1> DEFINE w == Advanced(s)
  <1>1. /\ s.round \in 1 .. TotalRounds /\ TotalRounds \in Nat \ {0}
        /\ s.index \in 1 .. Len(s.order) /\ Len(s.order) \in Nat \ {0}
        /\ \A i, j \in 1 .. Len(s.order) : s.order[i] = s.order[j] => i = j
    BY WellFormedIsSome, LimitsAssumption DEF WellFormed, Rounds
  <1>2. WellFormed(w) /\ w.order = s.order
    BY AdvancedIsWellFormed
  <1>3. CASE ~LastOfRound(s)
    <2>1. /\ w.index = s.index + 1 /\ s.index < Len(s.order)
          /\ w.round = s.round /\ w.finished = s.finished /\ Ended(s) = 0
      BY <1>3, AdvancedFields DEF Ended
    <2> HIDE DEF w
    <2>2. Active(w) # Active(s)
      BY <1>1, <1>2, <2>1 DEF Active
    <2> QED BY <1>1, <1>2, <2>1, <2>2 DEF w, EndFits, CutRound, Participants
  <1>4. CASE LastOfRound(s) /\ s.round < TotalRounds
    <2>1. /\ w.index = 1 /\ s.index = Len(s.order)
          /\ w.finished = s.finished /\ Ended(s) = s.round
      BY <1>4, AdvancedFields DEF Ended, LastOfRound
    <2> HIDE DEF w
    <2>2. Len(s.order) # 1 => Active(w) # Active(s)
      <3>1. 1 \in 1 .. Len(s.order)
        BY <1>1
      <3> QED BY <1>1, <1>2, <2>1, <3>1 DEF Active
    <2> QED BY <1>1, <1>2, <1>4, <2>1, <2>2 DEF w, EndFits, CutRound, Participants
  <1>5. CASE LastOfRound(s) /\ ~(s.round < TotalRounds)
    <2>1. w.finished /\ Ended(s) = s.round
      BY <1>5, AdvancedFields DEF Ended
    <2> HIDE DEF w
    <2>2. s.round = TotalRounds
      BY <1>1, <1>5
    <2> QED BY <1>1, <1>2, <2>1, <2>2 DEF w, EndFits, CutRound, Participants
  <1> QED BY <1>3, <1>4, <1>5

LEMMA SeatEnds ==
    ASSUME NEW s, WellFormed(s), ~s.finished, NEW p, p # Active(s)
    PROVE  LET w == Without(s, p) IN
           /\ WellFormed(w) /\ Participants(w) = Participants(s) \ {p}
           /\ Active(w) = Active(s) /\ w.round = s.round /\ w.finished = s.finished
  <1> DEFINE w == Without(s, p)
  <1>1. CASE p \notin Participants(s)
    BY <1>1 DEF Without
  <1>2. CASE p \in Participants(s)
    <2>1. WellFormed(w)
      BY <1>2, WithoutIsWellFormed
    <2>2. /\ Now(w) = Now(s) /\ After(w) = After(s) \ {p} /\ Before(w) = Before(s) \ {p}
          /\ w.round = s.round /\ w.finished = s.finished
      BY <1>2, MapWithdraw
    <2>3. Now(w) = {Active(w)} /\ Now(s) = {Active(s)}
      BY <2>1, WellFormedIsSome DEF Now
    <2> HIDE DEF w
    <2>4. Participants(w) = Before(w) \cup Now(w) \cup After(w)
          /\ Participants(s) = Before(s) \cup Now(s) \cup After(s)
      BY <2>1, SeatsAreTurns
    <2>5. Participants(w) = Participants(s) \ {p}
      BY <2>2, <2>3, <2>4
    <2> QED BY <2>1, <2>2, <2>3, <2>5 DEF w
  <1> QED BY <1>1, <1>2

\* The turn that is on, and a timer that is set for it or not at all.
Current == [round |-> state.round, who |-> Active(state)]
Live == WellFormed(state) /\ ~state.finished
InPlay ==
    /\ phase = "PLAYING" /\ Live
    /\ Participants(state) = roster
    /\ slot \in {NoSlot, Current}

\* All that is set for a turn is.
Settled ==
    /\ stored = remembered /\ stored.round = state.round
    /\ \/ slot = Current
       \/ slot = NoSlot /\ ~remembered.timed /\ Active(state) \in Humans

\* Everybody has left a party room in the middle of a game.
Abandoned ==
    /\ phase = "PLAYING" /\ mode = "PARTY" /\ roster = {}
    /\ state = NoState /\ slot = NoSlot
    /\ stored = NoDeadline /\ remembered = NoDeadline

RestOK ==
    IF phase = "PLAYING" THEN Abandoned \/ (InPlay /\ Settled)
    ELSE /\ slot = NoSlot
         /\ state = NoState \/ state.finished
         /\ phase = "LOBBY" => state = NoState /\ misses = NoMisses

\* A turn has ended: what is left to do is about the state it left.
TurnOver(ended) ==
    /\ phase = "PLAYING" /\ WellFormed(state)
    /\ EndFits(state, ended)
    /\ slot = NoSlot \/ slot.round = CutRound(state, ended)

\* Somebody is leaving: they are the only difference between turns and seats.
Leaving(p) ==
    /\ phase = "PLAYING" \/ (phase = "GONE" /\ roster = {})
    /\ Participants(state) \ {p} = roster \ {p}

DeadlineOf(fr) == [round |-> state.round, timed |-> fr.timed]

FrameAgrees(fr) ==
    /\ fr.pc = "idle" => RestOK
    /\ fr.pc \in {"begin", "arm", "schedule"} => InPlay /\ fr.st = state
    /\ fr.pc \in {"arm", "schedule"} => (fr.bot <=> IsBot(Active(state)))
    /\ fr.pc = "arm" /\ fr.restored => stored = DeadlineOf(fr)
    /\ fr.pc = "schedule" => stored = DeadlineOf(fr) /\ remembered = DeadlineOf(fr)
    /\ fr.pc \in {"skip", "autoroll", "resolve", "score"} =>
          InPlay /\ fr.who = Active(state) /\ fr.round = state.round
    /\ fr.pc \in {"cancel", "finish"} =>
          /\ TurnOver(fr.ended) /\ fr.st = state
          /\ state.finished \/ Participants(state) = roster
    /\ fr.pc = "finish" => slot = NoSlot
    /\ fr.pc \in {"leave", "seat"} =>
          \/ Abandoned
          \/ /\ Live /\ Leaving(fr.who) /\ slot \in {NoSlot, Current}
             /\ fr.who = Active(state) \/ Settled
             /\ fr.round = 0 /\ fr.ended = 0
    /\ fr.pc \in {"seat", "pass", "splice"} => fr.who \notin roster
    /\ fr.pc = "pass" =>
          /\ phase = "PLAYING" /\ Live /\ Participants(state) \ {fr.who} = roster
          /\ slot \in {NoSlot, Current} /\ Len(state.order) # 1
          /\ fr.who = Active(state) /\ fr.round = state.round
    /\ fr.pc = "splice" =>
          /\ TurnOver(fr.ended) /\ Participants(state) \ {fr.who} = roster
          /\ state.finished \/ fr.who # Active(state)
          /\ fr.round = 0 => ~state.finished /\ slot \in {NoSlot, Current} /\ Settled
    /\ fr.pc = "clear" => \/ phase \in {"LOBBY", "GONE"}
                          \/ phase = "PLAYING" /\ mode = "PARTY" /\ roster = {}

\* Whoever is online has no missed turns on the books while a game is on, and only a
\* party room plays without players.
BooksAgree ==
    phase = "PLAYING" => /\ roster # {} \/ mode = "PARTY"
                         /\ \A p \in Humans : presence[p] = "online" => misses[p] = 0

RoomAgrees(f) == FrameAgrees(flow[f]) /\ BooksAgree

-----------------------------------------------------------------------------
LEMMA AgreeAtFirst ==
    ASSUME NEW f \in Flows, Init
    PROVE  RoomAgrees(f)
  BY IdleFields DEF Init, RoomAgrees, FrameAgrees, BooksAgree, RestOK

\* Leaving the roster.
LEMMA RosterLeft ==
    ASSUME NEW p, LeaveRoster(p), phase = "PLAYING" \/ (phase = "GONE" /\ roster = {}),
           phase = "PLAYING" => roster # {} \/ mode = "PARTY"
    PROVE  /\ roster' = roster \ {p}
           /\ phase' = "PLAYING" \/ (phase' = "GONE" /\ roster' = {})
           /\ phase' = "PLAYING" => phase = "PLAYING" /\ (roster' # {} \/ mode = "PARTY")
  BY DEF LeaveRoster

\* A player who is scored in the last round has had their last turn.
LEMMA FullIsOver ==
    ASSUME WellFormed(state), Participants(state) = roster, ScoresOK, AllFull
    PROVE  state.finished
  <1> DEFINE p == Active(state)
  <1>1. /\ state.round \in 1 .. TotalRounds /\ TotalRounds \in Nat \ {0}
        /\ state.index \in 1 .. Len(state.order) /\ state.index \in Nat
        /\ state.order[state.index] = p /\ p \in Players
        /\ state # NoState
    BY WellFormedIsSome, LimitsAssumption DEF WellFormed, Rounds, Active
  <1>2. p \in Participants(state) /\ ScoresPassed(state, confirmed)
    BY <1>1, SeatsAreTurns DEF ScoresOK
  <1>3. TotalRounds \in confirmed[p]
    BY <1>1, <1>2 DEF AllFull, Rounds
  <1>4. state.round = TotalRounds
    <2>1. TotalRounds <= state.round
      BY <1>1, <1>2, <1>3 DEF ScoresPassed
    <2> QED BY <1>1, <2>1
  <1>5. state.finished \/ PositionOf(state, p) < state.index
    BY <1>1, <1>2, <1>3, <1>4 DEF ScoresPassed
  <1>6. PositionOf(state, p) = state.index
    BY <1>1, <1>2, PositionIs
  <1> QED BY <1>1, <1>5, <1>6

-----------------------------------------------------------------------------
(* One lemma per group of steps.  All of them take this for granted:         *)

Agreed(f) ==
    /\ f \in Flows /\ TypesOK /\ ScoresOK /\ RoomAgrees(f)
    /\ TypesOK'

LEMMA Given ==
    ASSUME NEW f, Agreed(f)
    PROVE  /\ flow \in [Flows -> Frame] /\ flow[f] \in Frame /\ f \in Flows
           /\ FrameOK(flow[f]) /\ DataOK /\ FrameAgrees(flow[f]) /\ BooksAgree
           /\ \A fr : flow' = [flow EXCEPT ![f] = fr] => flow'[f] = fr
           /\ StateOK /\ roster \subseteq Players
  BY TypesFrom DEF Agreed, RoomAgrees, TypesOK, TypeOK

LEMMA TurnsAgree ==
    ASSUME NEW f, Agreed(f), Begin(f) \/ Arm(f) \/ ScheduleTurn(f)
    PROVE  RoomAgrees(f)'
  <1> DEFINE s == flow[f].st
             p == Active(s)
  <1>1. /\ flow[f] \in Frame /\ FrameAgrees(flow[f]) /\ BooksAgree
        /\ \A fr : flow' = [flow EXCEPT ![f] = fr] => flow'[f] = fr
        /\ roster \subseteq Players /\ DataOK
    BY Given
  <1>2. InPlay /\ s = state /\ WellFormed(s) /\ p \in Players /\ p \in roster
        /\ s.round \in 0 .. TotalRounds
    <2>1. flow[f].pc \in {"begin", "arm", "schedule"}
      BY DEF Begin, Arm, ScheduleTurn
    <2>2. InPlay /\ s = state
      BY <1>1, <2>1 DEF FrameAgrees
    <2> QED BY <2>2, SeatsAreTurns, WellFormedIsSome DEF InPlay, Live, WellFormed, StateRecord
  <1>3. /\ state' = state /\ roster' = roster /\ phase' = phase /\ presence' = presence
        /\ mode' = mode
    BY DEF Begin, Arm, ScheduleTurn, redis
  <1>4. CASE Begin(f)
    <2>1. UNCHANGED <<slot, stored, remembered>>
      BY <1>4 DEF Begin, redis
    <2>2. InPlay'
      BY <1>2, <1>3, <2>1 DEF InPlay, Live, Current, Participants, Active, WellFormed
    <2>3. CASE ~IsBot(p) /\ presence[p] # "online"
      <3>1. misses' = [misses EXCEPT ![p] = @ + 1]
        BY <1>4, <2>3 DEF Begin
      <3>2. BooksAgree'
        BY <1>1, <1>3, <2>3, <3>1 DEF BooksAgree, DataOK
      <3>3. CASE misses'[p] >= MaxMisses
        <4>1. flow'[f] = LeaveFrame(p)
          BY <1>1, <1>4, <2>3, <3>3 DEF Begin, Call
        <4>2. flow'[f].pc = "leave" /\ flow'[f].who = p /\ flow'[f].round = 0 /\ flow'[f].ended = 0
          BY <1>2, <4>1, LeaveFields DEF Seats
        <4>3. /\ Live' /\ slot' \in {NoSlot, Current'} /\ p = Active(state') /\ phase' = "PLAYING"
              /\ Participants(state') \ {p} = roster' \ {p}
          BY <1>2, <1>3, <2>2 DEF InPlay
        <4>4. PICK q : q = p
          OBVIOUS
        <4> HIDE DEF p
        <4>5. Leaving(q)' /\ q = Active(state)'
          <5>1. q = Active(state)'
            BY <4>3, <4>4 DEF Active
          <5>2. phase' = "PLAYING" /\ Participants(state)' \ {q} = roster' \ {q}
            BY <4>3, <4>4 DEF Participants
          <5>3. Leaving(q)'
            BY <5>2 DEF Leaving, Participants
          <5> QED BY <5>1, <5>3
        <4>6. flow'[f].pc = "leave" /\ flow'[f].who = q /\ flow'[f].round = 0 /\ flow'[f].ended = 0
          BY <4>2, <4>4
        <4>7. FrameAgrees(flow[f])'
          BY <4>3, <4>5, <4>6 DEF FrameAgrees, Leaving
        <4> QED BY <3>2, <4>7 DEF RoomAgrees
      <3>4. CASE ~(misses'[p] >= MaxMisses)
        <4> DEFINE fr == [IdleFrame EXCEPT !.pc = "skip", !.who = p, !.round = s.round]
        <4>1. flow'[f] = fr
          BY <1>1, <1>4, <2>3, <3>4 DEF Begin, Call
        <4>2. fr.pc = "skip" /\ fr.who = p /\ fr.round = s.round
          BY IdleType DEF Frame
        <4> HIDE DEF fr
        <4>3. flow'[f].pc = "skip" /\ flow'[f].who = Active(state') /\ flow'[f].round = state'.round
          BY <1>2, <1>3, <4>1, <4>2
        <4> QED BY <2>2, <3>2, <4>3 DEF RoomAgrees, FrameAgrees, Active
      <3> QED BY <3>3, <3>4
    <2>4. CASE ~(~IsBot(p) /\ presence[p] # "online")
      <3> DEFINE fr == [IdleFrame EXCEPT !.pc = "arm", !.st = s, !.timed = ~Untimed,
                                         !.bot = IsBot(p)]
      <3>1. flow'[f] = fr /\ misses' = misses
        BY <1>1, <1>4, <2>4 DEF Begin, Call
      <3>2. fr.pc = "arm" /\ fr.st = s /\ (fr.bot <=> IsBot(p)) /\ fr.restored = FALSE
        BY IdleType DEF Frame, IdleFrame
      <3> HIDE DEF fr
      <3>3. BooksAgree'
        BY <1>1, <1>3, <3>1 DEF BooksAgree
      <3>4. flow'[f].pc = "arm" /\ flow'[f].st = state' /\ ~flow'[f].restored
            /\ (flow'[f].bot <=> IsBot(Active(state))')
        BY <1>2, <1>3, <3>1, <3>2 DEF IsBot, Active
      <3> QED BY <2>2, <3>3, <3>4 DEF RoomAgrees, FrameAgrees
    <2> QED BY <2>3, <2>4
  <1>5. CASE Arm(f)
    <2>1. /\ remembered' = DeadlineOf(flow[f])
          /\ stored' = IF flow[f].restored THEN stored ELSE DeadlineOf(flow[f])
          /\ UNCHANGED <<slot, misses>>
          /\ flow[f].restored => stored = DeadlineOf(flow[f])
          /\ flow[f].bot <=> IsBot(Active(state))
      BY <1>1, <1>2, <1>5 DEF Arm, DeadlineOf, FrameAgrees
    <2>2. /\ flow'[f].pc = "schedule" /\ flow'[f].st = s /\ flow'[f].timed = flow[f].timed
          /\ flow'[f].bot = flow[f].bot
      BY <1>1, <1>5, Given DEF Arm, Goto, Frame
    <2>3. InPlay' /\ BooksAgree'
      BY <1>1, <1>2, <1>3, <2>1
         DEF InPlay, Live, Current, Participants, Active, WellFormed, BooksAgree
    <2>4. stored' = DeadlineOf(flow[f]) /\ remembered' = DeadlineOf(flow[f])
      BY <2>1
    <2>5. stored' = DeadlineOf(flow[f])' /\ remembered' = DeadlineOf(flow[f])'
      BY <1>3, <2>2, <2>4 DEF DeadlineOf
    <2>6. flow'[f].bot <=> IsBot(Active(state))'
      BY <1>3, <2>1, <2>2 DEF IsBot, Active
    <2> QED BY <1>2, <1>3, <2>2, <2>3, <2>5, <2>6 DEF RoomAgrees, FrameAgrees
  <1>6. CASE ScheduleTurn(f)
    <2>1. /\ stored = DeadlineOf(flow[f]) /\ remembered = DeadlineOf(flow[f])
          /\ flow[f].bot <=> IsBot(Active(state))
          /\ UNCHANGED <<stored, remembered, misses>>
      BY <1>1, <1>6 DEF ScheduleTurn, FrameAgrees, redis
    <2>2. flow'[f].pc = "idle"
      BY <1>1, <1>6, IdleFields DEF ScheduleTurn, Return
    <2>3. slot' = IF flow[f].timed \/ flow[f].bot THEN Current ELSE slot
      BY <1>2, <1>6 DEF ScheduleTurn, NeedsTimer, Current
    <2>4. InPlay' /\ BooksAgree'
      BY <1>1, <1>2, <1>3, <2>1, <2>3
         DEF InPlay, Live, Current, Participants, Active, WellFormed, BooksAgree
    <2>5. stored.round = state.round /\ remembered.timed = flow[f].timed /\ stored = remembered
      BY <2>1 DEF DeadlineOf
    <2>6. p \in Humans \/ IsBot(p)
      BY <1>2 DEF IsBot, Players
    <2>7. slot' = Current \/ (slot' = NoSlot /\ ~remembered.timed /\ p \in Humans)
      <3>1. CASE flow[f].timed \/ flow[f].bot
        BY <2>3, <3>1
      <3>2. CASE ~(flow[f].timed \/ flow[f].bot)
        <4>1. p \in Humans /\ slot' = slot /\ ~remembered.timed
          BY <1>2, <2>1, <2>3, <2>5, <2>6, <3>2
        <4> QED BY <1>2, <4>1 DEF InPlay
      <3> QED BY <3>1, <3>2
    <2>8. Settled'
      BY <1>2, <1>3, <2>1, <2>5, <2>7 DEF Settled, Current, Active
    <2> QED BY <1>2, <1>3, <2>2, <2>4, <2>8 DEF RoomAgrees, FrameAgrees, RestOK, InPlay
  <1> QED BY <1>4, <1>5, <1>6

\* The end of a turn: whoever ends it, the state goes on and its timer is to be cut.
LEMMA EndsAgree ==
    ASSUME NEW f, Agreed(f), InPlay, state' = Advanced(state),
           flow' = [flow EXCEPT ![f] = CancelFrame(Advanced(state), Ended(state))],
           UNCHANGED <<phase, mode, roster, slot, presence, misses>>
    PROVE  RoomAgrees(f)'
  <1>1. BooksAgree /\ \A fr : flow' = [flow EXCEPT ![f] = fr] => flow'[f] = fr
    BY Given
  <1>2. PICK w, e : w = Advanced(state) /\ e = Ended(state)
    OBVIOUS
  <1>3. /\ WellFormed(w) /\ Participants(w) = Participants(state)
        /\ EndFits(w, e) /\ CutRound(w, e) = state.round /\ e \in 0 .. TotalRounds
    BY <1>2, TurnEnds DEF InPlay, Live
  <1>4. flow'[f].pc = "cancel" /\ flow'[f].st = w /\ flow'[f].ended = e
    <2>1. Active(state) \in Players
      BY WellFormedIsSome DEF InPlay, Live
    <2>2. flow'[f] = CancelFrame(w, e)
      BY <1>1, <1>2
    <2> QED BY <1>3, <2>1, <2>2, FrameFields
  <1>5. TurnOver(e)'
    <2>1. state' = w /\ phase' = "PLAYING" /\ (slot' = NoSlot \/ slot'.round = CutRound(w, e))
      BY <1>2, <1>3 DEF InPlay, Current
    <2> QED BY <1>3, <2>1 DEF TurnOver, WellFormed, EndFits, CutRound
  <1>6. Participants(state)' = roster'
    BY <1>2, <1>3 DEF InPlay, Participants
  <1>7. FrameAgrees(flow[f])'
    BY <1>2, <1>4, <1>5, <1>6 DEF FrameAgrees
  <1>8. BooksAgree'
    BY <1>1 DEF BooksAgree
  <1> QED BY <1>7, <1>8 DEF RoomAgrees

\* The turn at hand is the one that is on: nobody else has moved it on meanwhile.
LEMMA TurnAtHand ==
    ASSUME NEW f, Agreed(f), flow[f].pc \in {"skip", "autoroll", "resolve", "score"}
    PROVE  InPlay /\ flow[f].who = Active(state) /\ flow[f].round = state.round
           /\ IsTurn(state, flow[f].round, flow[f].who)
  <1>1. InPlay /\ flow[f].who = Active(state) /\ flow[f].round = state.round
    BY Given DEF FrameAgrees
  <1> QED BY <1>1, WellFormedIsSome DEF InPlay, Live, IsTurn

\* A roll: the same turn begins again.
LEMMA RollAgrees ==
    ASSUME NEW f, Agreed(f), InPlay, state.rolls < MaxRolls,
           state' = [state EXCEPT !.rolls = @ + 1], Call(f, BeginFrame(state')),
           UNCHANGED <<phase, mode, roster, slot, presence, misses>>
    PROVE  RoomAgrees(f)'
  <1>1. BooksAgree /\ \A fr : flow' = [flow EXCEPT ![f] = fr] => flow'[f] = fr
    BY Given
  <1>2. PICK w : w = state'
    OBVIOUS
  <1>3. /\ WellFormed(w) /\ w.order = state.order /\ w.index = state.index
        /\ w.round = state.round /\ w.finished = state.finished
    BY <1>2, RolledIsWellFormed DEF InPlay, Live, WellFormed, StateRecord
  <1>4. flow'[f].pc = "begin" /\ flow'[f].st = w
    <2>1. Active(state) \in Players
      BY WellFormedIsSome DEF InPlay, Live
    <2>2. flow'[f] = BeginFrame(w)
      BY <1>1, <1>2 DEF Call
    <2> QED BY <1>3, <2>1, <2>2, FrameFields, LimitsAssumption
  <1>5. InPlay'
    BY <1>2, <1>3 DEF InPlay, Live, Participants, Current, Active, WellFormed
  <1>6. FrameAgrees(flow[f])'
    BY <1>2, <1>4, <1>5 DEF FrameAgrees
  <1>7. BooksAgree'
    BY <1>1 DEF BooksAgree
  <1> QED BY <1>6, <1>7 DEF RoomAgrees

\* A step that only moves the handler on.
LEMMA SameTurn ==
    ASSUME InPlay, UNCHANGED <<phase, roster, state, slot>>
    PROVE  InPlay' /\ Active(state)' = Active(state)
  BY DEF InPlay, Live, Current, Participants, Active, WellFormed

LEMMA ExpiryAgrees ==
    ASSUME NEW f, Agreed(f), Skip(f) \/ AutoRoll(f) \/ Resolve(f) \/ ScoreForThem(f)
    PROVE  RoomAgrees(f)'
  <1>1. /\ InPlay /\ flow[f].who = Active(state) /\ flow[f].round = state.round
        /\ IsTurn(state, flow[f].round, flow[f].who) /\ BooksAgree /\ f \in Flows
        /\ flow \in [Flows -> Frame] /\ flow[f] \in Frame
    BY TurnAtHand, Given DEF Skip, AutoRoll, Resolve, ScoreForThem
  <1>2. UNCHANGED <<phase, mode, roster, slot, presence, misses>>
    BY DEF Skip, AutoRoll, Resolve, ScoreForThem, redis, memory
  <1>3. CASE Expire(f)
    BY <1>1, <1>2, <1>3, EndsAgree DEF Expire, Call
  <1>4. ASSUME NEW p, ScoreTurn(f, p)
        PROVE  RoomAgrees(f)'
    BY <1>1, <1>2, <1>4, EndsAgree DEF ScoreTurn, Call
  <1>5. CASE UNCHANGED state /\ (Goto(f, "resolve") \/ Goto(f, "score"))
    <2>1. /\ flow'[f].pc \in {"resolve", "score"} /\ flow'[f].who = flow[f].who
          /\ flow'[f].round = flow[f].round
      BY <1>1, <1>5 DEF Goto, Frame
    <2>2. InPlay' /\ Active(state)' = Active(state)
      BY <1>1, <1>2, <1>5, SameTurn
    <2>3. BooksAgree'
      BY <1>1, <1>2 DEF BooksAgree
    <2>4. FrameAgrees(flow[f])'
      BY <1>1, <1>5, <2>1, <2>2 DEF FrameAgrees
    <2> QED BY <2>3, <2>4 DEF RoomAgrees
  <1>6. CASE AutoRoll(f)
    BY <1>1, <1>2, <1>5, <1>6, RollAgrees DEF AutoRoll
  <1>7. CASE Resolve(f)
    BY <1>1, <1>2, <1>5, <1>7 DEF Resolve, redis
  <1> QED BY <1>3, <1>4, <1>6, <1>7 DEF Skip, ScoreForThem

LEMMA CompletionAgrees ==
    ASSUME NEW f, Agreed(f), Cancel(f) \/ Finish(f)
    PROVE  RoomAgrees(f)'
  <1>1. PICK s, e : s = flow[f].st /\ e = flow[f].ended
    OBVIOUS
  <1>2. /\ TurnOver(e) /\ s = state /\ (state.finished \/ Participants(state) = roster)
        /\ flow[f].pc = "finish" => slot = NoSlot
        /\ BooksAgree /\ flow \in [Flows -> Frame] /\ flow[f] \in Frame /\ f \in Flows
        /\ \A fr : flow' = [flow EXCEPT ![f] = fr] => flow'[f] = fr
    BY <1>1, Given DEF Cancel, Finish, FrameAgrees
  <1>3. /\ WellFormed(s) /\ s.round \in 1 .. TotalRounds /\ Active(s) \in Players
        /\ e \in 0 .. TotalRounds /\ TotalRounds \in Nat \ {0}
    BY <1>1, <1>2, WellFormedIsSome, LimitsAssumption DEF TurnOver, WellFormed, Rounds, Frame
  <1>4. UNCHANGED <<state, mode, roster, presence, misses>>
    BY DEF Cancel, Finish
  <1>5. BooksAgree' \/ phase' # phase
    BY <1>2, <1>4 DEF BooksAgree
  \* The next turn begins.
  <1>6. ASSUME Call(f, BeginFrame(s)), slot' = NoSlot, phase' = phase, ~s.finished
        PROVE  RoomAgrees(f)'
    <2>1. flow'[f].pc = "begin" /\ flow'[f].st = s
      BY <1>2, <1>3, <1>6, FrameFields DEF Call
    <2>2. InPlay'
      BY <1>2, <1>3, <1>4, <1>6
         DEF TurnOver, InPlay, Live, Participants, WellFormed
    <2>3. FrameAgrees(flow[f])'
      BY <1>2, <1>4, <2>1, <2>2 DEF FrameAgrees
    <2> QED BY <1>5, <1>6, <2>3 DEF RoomAgrees
  <1>7. CASE Cancel(f)
    <2>1. phase' = phase /\ slot' = NoSlot
      <3>1. slot = NoSlot \/ slot.round = CutRound(s, e)
        BY <1>2 DEF TurnOver
      <3>2. phase' = phase /\ slot' = IF slot.round = CutRound(s, e) THEN NoSlot ELSE slot
        BY <1>1, <1>7 DEF Cancel, CutRound
      <3> QED BY <3>1, <3>2
    <2>2. CASE e # 0
      <3>1. flow'[f].pc = "finish" /\ flow'[f].st = s /\ flow'[f].ended = e
        BY <1>1, <1>2, <1>7, <2>2 DEF Cancel, Goto, Frame
      <3>2. TurnOver(e)'
        BY <1>2, <1>3, <1>4, <2>1 DEF TurnOver, WellFormed, EndFits
      <3>3. Participants(state)' = Participants(state)
        BY <1>4 DEF Participants
      <3>4. FrameAgrees(flow[f])'
        BY <1>2, <1>4, <2>1, <3>1, <3>2, <3>3 DEF FrameAgrees
      <3> QED BY <1>5, <2>1, <3>4 DEF RoomAgrees
    <2>3. CASE e = 0
      <3>1. ~s.finished
        BY <1>2, <1>3, <2>3 DEF TurnOver, EndFits
      <3>2. Call(f, BeginFrame(s))
        BY <1>1, <1>7, <2>3, <3>1 DEF Cancel
      <3> QED BY <1>6, <2>1, <3>1, <3>2
    <2> QED BY <2>2, <2>3
  <1>8. CASE Finish(f)
    <2>1. CASE Completes(f)
      <3>1. phase' = "FINISHED" /\ slot' = NoSlot /\ flow'[f] = IdleFrame
        BY <1>2, <1>8, <2>1 DEF Finish, Return
      <3>2. state.finished
        <4>1. CASE e = TotalRounds
          BY <1>2, <4>1 DEF TurnOver, EndFits
        <4>2. CASE AllFull /\ Participants(state) = roster
          BY <1>2, <1>3, <4>2, FullIsOver DEF Agreed
        <4> QED BY <1>1, <1>2, <2>1, <4>1, <4>2 DEF Completes
      <3> QED BY <1>4, <3>1, <3>2, IdleFields DEF RoomAgrees, FrameAgrees, RestOK, BooksAgree
    <2>2. CASE ~Completes(f)
      <3>1. ~s.finished
        BY <1>1, <1>2, <2>2 DEF Completes, TurnOver, EndFits
      <3>2. Call(f, BeginFrame(s)) /\ slot' = NoSlot /\ phase' = phase
        BY <1>1, <1>2, <1>8, <2>2, <3>1 DEF Finish
      <3> QED BY <1>6, <3>1, <3>2
    <2> QED BY <2>1, <2>2
  <1> QED BY <1>7, <1>8

-----------------------------------------------------------------------------
(* Somebody leaves.                                                          *)

\* Whoever leaves an abandoned room was not playing in it.
LEMMA LeavingNothing ==
    ASSUME NEW f, Agreed(f), Abandoned, LeaveSeat(f) \/ DecideRemoval(f)
    PROVE  RoomAgrees(f)'
  <1>1. /\ flow \in [Flows -> Frame] /\ flow[f] \in Frame /\ f \in Flows /\ BooksAgree /\ DataOK
        /\ \A fr : flow' = [flow EXCEPT ![f] = fr] => flow'[f] = fr
    BY Given
  <1>2. UNCHANGED <<mode, state, slot, stored, remembered>>
    BY DEF LeaveSeat, DecideRemoval, redis, memory
  <1>3. CASE LeaveSeat(f)
    <2>1. roster' = {} /\ phase' = "PLAYING"
      BY <1>3 DEF LeaveSeat, LeaveRoster, Abandoned
    <2>2. Abandoned'
      BY <1>2, <2>1 DEF Abandoned
    <2>3. flow'[f].pc = "seat"
      BY <1>1, <1>3 DEF LeaveSeat, Goto, Frame
    <2>4. BooksAgree'
      <3>1. PICK p : p = flow[f].who
        OBVIOUS
      <3>2. /\ misses' = [q \in Players |-> IF q = p THEN 0 ELSE misses[q]]
            /\ presence' = [presence EXCEPT ![p] = "none"]
        BY <1>3, <3>1 DEF LeaveSeat, Forgiven
      <3> QED BY <1>1, <2>2, <3>2 DEF BooksAgree, Abandoned, DataOK, Players, Seats
    <2>5. FrameAgrees(flow[f])'
      BY <2>1, <2>2, <2>3 DEF FrameAgrees
    <2> QED BY <2>4, <2>5 DEF RoomAgrees
  <1>4. CASE DecideRemoval(f)
    <2>1. UNCHANGED <<phase, roster, misses, presence>>
      BY <1>4 DEF DecideRemoval, redis, memory
    <2>2. flow'[f].pc = "idle"
      BY <1>1, <1>4, IdleFields DEF DecideRemoval, Return, Abandoned
    <2>3. Abandoned' /\ BooksAgree'
      BY <1>1, <1>2, <2>1 DEF Abandoned, BooksAgree
    <2>4. FrameAgrees(flow[f])'
      BY <2>2, <2>3 DEF FrameAgrees, RestOK, Abandoned
    <2> QED BY <2>3, <2>4 DEF RoomAgrees
  <1> QED BY <1>3, <1>4

LEMMA LeavingAgrees ==
    ASSUME NEW f, Agreed(f), ~Abandoned, LeaveSeat(f) \/ DecideRemoval(f)
    PROVE  RoomAgrees(f)'
  <1>1. PICK p : p = flow[f].who
    OBVIOUS
  <1>2. /\ Live /\ Leaving(p) /\ slot \in {NoSlot, Current}
        /\ p = Active(state) \/ Settled
        /\ flow[f].round = 0 /\ flow[f].ended = 0
        /\ flow[f].pc = "seat" => p \notin roster
        /\ BooksAgree /\ flow \in [Flows -> Frame] /\ flow[f] \in Frame /\ f \in Flows
        /\ \A fr : flow' = [flow EXCEPT ![f] = fr] => flow'[f] = fr
        /\ DataOK /\ WellFormed(state)
    BY <1>1, Given DEF LeaveSeat, DecideRemoval, FrameAgrees, Live
  <1>3. UNCHANGED <<mode, state, slot, stored, remembered>>
    BY DEF LeaveSeat, DecideRemoval, redis, memory
  <1>4. CASE LeaveSeat(f)
    <2>1. /\ flow'[f].pc = "seat" /\ flow'[f].who = p /\ flow'[f].round = 0 /\ flow'[f].ended = 0
      BY <1>1, <1>2, <1>4 DEF LeaveSeat, Goto, Frame
    <2>2. /\ roster' = roster \ {p}
          /\ phase' = "PLAYING" \/ (phase' = "GONE" /\ roster' = {})
          /\ phase' = "PLAYING" => phase = "PLAYING" /\ (roster' # {} \/ mode = "PARTY")
      <3>1. LeaveRoster(p)
        BY <1>1, <1>4 DEF LeaveSeat
      <3> QED BY <1>2, <3>1, RosterLeft DEF Leaving, BooksAgree
    <2>3. BooksAgree'
      <3>1. /\ misses' = [q \in Players |-> IF q = p THEN 0 ELSE misses[q]]
            /\ presence' = [presence EXCEPT ![p] = "none"]
        BY <1>1, <1>4 DEF LeaveSeat, Forgiven
      <3> QED BY <1>2, <1>3, <2>2, <3>1 DEF BooksAgree, DataOK, Players, Seats
    <2>4. Leaving(p)'
      BY <1>2, <1>3, <2>2 DEF Leaving, Participants
    <2>5. Live' /\ slot' \in {NoSlot, Current'} /\ (p = Active(state)' \/ Settled')
      BY <1>2, <1>3 DEF Live, Current, Settled, Active, WellFormed
    <2>6. FrameAgrees(flow[f])'
      BY <2>1, <2>2, <2>4, <2>5 DEF FrameAgrees
    <2> QED BY <2>3, <2>6 DEF RoomAgrees
  <1>5. CASE DecideRemoval(f)
    <2>1. /\ p \notin roster /\ Participants(state) \ {p} = roster
          /\ UNCHANGED <<phase, roster, misses, presence>>
      BY <1>2, <1>5 DEF DecideRemoval, redis, memory, Leaving
    <2>2. BooksAgree'
      BY <1>2, <1>3, <2>1 DEF BooksAgree
    <2>3. state # NoState /\ ~state.finished /\ Active(state) \in Participants(state)
      BY <1>2, WellFormedIsSome, SeatsAreTurns DEF Live
    <2>4. CASE p \notin Participants(state)
      <3>1. flow'[f].pc = "idle"
        BY <1>1, <1>2, <1>5, <2>4, IdleFields DEF DecideRemoval, Return
      <3>2. Participants(state) = roster /\ roster # {} /\ phase = "PLAYING" /\ Settled
        BY <1>2, <2>1, <2>3, <2>4 DEF Leaving
      <3>3. RestOK'
        <4>1. InPlay'
          BY <1>2, <1>3, <2>1, <3>2
             DEF InPlay, Live, Current, Participants, Active, WellFormed
        <4>2. Settled'
          BY <1>3, <3>2 DEF Settled, Current, Active
        <4> QED BY <2>1, <3>2, <4>1, <4>2 DEF RestOK
      <3>4. FrameAgrees(flow[f])'
        BY <3>1, <3>3 DEF FrameAgrees
      <3> QED BY <2>2, <3>4 DEF RoomAgrees
    <2>5. CASE p \in Participants(state) /\ Len(state.order) = 1
      <3>1. flow'[f].pc = "clear"
        BY <1>1, <1>2, <1>5, <2>3, <2>5 DEF DecideRemoval, Goto, Frame
      <3>2. roster = {}
        BY <1>2, <2>1, <2>5, SeatsAreTurns
      <3>3. /\ roster' = {} /\ mode' = mode
            /\ phase' = "GONE" \/ (phase' = "PLAYING" /\ mode = "PARTY")
        BY <1>2, <1>3, <2>1, <3>2 DEF Leaving, BooksAgree
      <3>4. FrameAgrees(flow[f])'
        BY <3>1, <3>3 DEF FrameAgrees
      <3> QED BY <2>2, <3>4 DEF RoomAgrees
    <2>6. CASE p \in Participants(state) /\ Len(state.order) # 1
      <3>1. phase = "PLAYING"
        <4>1. roster # {}
          BY <1>2, <2>1, <2>6, SeatsAreTurns
        <4> QED BY <1>2, <4>1 DEF Leaving
      <3>2. /\ Participants(state)' = Participants(state) /\ Active(state)' = Active(state)
            /\ Live' /\ slot' \in {NoSlot, Current'} /\ (Settled => Settled')
        BY <1>2, <1>3 DEF Live, Current, Settled, Active, Participants, WellFormed
      <3>3. CASE Active(state) = p
        <4>1. /\ flow'[f].pc = "pass" /\ flow'[f].who = p /\ flow'[f].round = state.round
          BY <1>1, <1>2, <1>5, <2>3, <2>6, <3>3 DEF DecideRemoval, Frame
        <4>2. FrameAgrees(flow[f])'
          BY <1>3, <2>1, <2>6, <3>1, <3>2, <3>3, <4>1 DEF FrameAgrees
        <4> QED BY <2>2, <4>2 DEF RoomAgrees
      <3>4. CASE Active(state) # p
        <4>1. /\ flow'[f].pc = "splice" /\ flow'[f].who = p /\ flow'[f].round = 0
              /\ flow'[f].ended = 0
          BY <1>1, <1>2, <1>5, <2>3, <2>6, <3>4 DEF DecideRemoval, Goto, Frame
        <4>2. Settled /\ ~state.finished
          BY <1>2, <3>4 DEF Live
        <4>3. TurnOver(0)'
          BY <1>2, <1>3, <2>1, <3>1, LimitsAssumption
             DEF TurnOver, Live, EndFits, CutRound, Current, WellFormed
        <4>4. FrameAgrees(flow[f])'
          BY <1>3, <2>1, <3>1, <3>2, <3>4, <4>1, <4>2, <4>3 DEF FrameAgrees
        <4> QED BY <2>2, <4>4 DEF RoomAgrees
      <3> QED BY <3>3, <3>4
    <2> QED BY <2>4, <2>5, <2>6
  <1> QED BY <1>4, <1>5

LEMMA PassAgrees ==
    ASSUME NEW f, Agreed(f), PassTurn(f)
    PROVE  RoomAgrees(f)'
  <1>1. PICK p, w, e : p = flow[f].who /\ w = Advanced(state) /\ e = Ended(state)
    OBVIOUS
  <1>2. /\ phase = "PLAYING" /\ Live /\ Participants(state) \ {p} = roster /\ p \notin roster
        /\ slot \in {NoSlot, Current} /\ Len(state.order) # 1
        /\ p = Active(state) /\ flow[f].round = state.round
        /\ BooksAgree /\ flow \in [Flows -> Frame] /\ flow[f] \in Frame /\ f \in Flows
        /\ WellFormed(state)
    BY <1>1, Given DEF PassTurn, FrameAgrees, Live
  <1>3. IsTurn(state, flow[f].round, p) /\ state.round # 0
    BY <1>2, WellFormedIsSome DEF IsTurn, Live, WellFormed, Rounds
  <1>4. /\ state' = w /\ UNCHANGED <<phase, mode, roster, slot, misses, presence>>
        /\ flow'[f].pc = "splice" /\ flow'[f].who = p /\ flow'[f].round = state.round
        /\ flow'[f].ended = e
    <2>1. flow' = [flow EXCEPT ![f].pc = "splice", ![f].ended = e] /\ state' = w
      BY <1>1, <1>3 DEF PassTurn
    <2>2. flow'[f] = [flow[f] EXCEPT !.pc = "splice", !.ended = e]
      BY <1>2, <2>1
    <2>3. /\ flow'[f].pc = "splice" /\ flow'[f].who = flow[f].who
          /\ flow'[f].round = flow[f].round /\ flow'[f].ended = e
      BY <1>2, <2>2 DEF Frame
    <2>4. UNCHANGED <<phase, mode, roster, slot, misses, presence>>
      BY DEF PassTurn, memory
    <2> QED BY <1>1, <1>2, <2>1, <2>3, <2>4
  <1>5. /\ WellFormed(w) /\ Participants(w) = Participants(state)
        /\ EndFits(w, e) /\ CutRound(w, e) = state.round
        /\ w.finished \/ Active(w) # p
    BY <1>1, <1>2, TurnEnds DEF Live
  <1>6. TurnOver(e)'
    <2>1. slot = NoSlot \/ slot.round = CutRound(w, e)
      BY <1>2, <1>5 DEF Current
    <2> QED BY <1>2, <1>4, <1>5, <2>1 DEF TurnOver, WellFormed, EndFits, CutRound
  <1>7. Participants(state)' \ {p} = roster' /\ (state'.finished \/ p # Active(state)')
    BY <1>2, <1>4, <1>5 DEF Participants, Active
  <1>8. FrameAgrees(flow[f])'
    BY <1>2, <1>3, <1>4, <1>6, <1>7 DEF FrameAgrees
  <1>9. BooksAgree'
    BY <1>2, <1>4 DEF BooksAgree
  <1> QED BY <1>8, <1>9 DEF RoomAgrees

LEMMA SpliceAgrees ==
    ASSUME NEW f, Agreed(f), Splice(f)
    PROVE  RoomAgrees(f)'
  <1>1. PICK p, e, w : p = flow[f].who /\ e = flow[f].ended /\ w = Without(state, p)
    OBVIOUS
  <1>2. /\ TurnOver(e) /\ Participants(state) \ {p} = roster /\ p \notin roster
        /\ state.finished \/ p # Active(state)
        /\ flow[f].round = 0 => ~state.finished /\ slot \in {NoSlot, Current} /\ Settled
        /\ BooksAgree /\ flow \in [Flows -> Frame] /\ flow[f] \in Frame /\ f \in Flows
        /\ \A fr : flow' = [flow EXCEPT ![f] = fr] => flow'[f] = fr
        /\ WellFormed(state) /\ phase = "PLAYING" /\ e \in 0 .. TotalRounds
    BY <1>1, Given DEF Splice, FrameAgrees, TurnOver, Frame
  <1>3. state # NoState /\ ~IsTurn(state, state.round, p)
    BY <1>2, WellFormedIsSome DEF IsTurn
  <1>4. state' = w /\ UNCHANGED <<phase, mode, roster, stored, memory>>
    BY <1>1, <1>3 DEF Splice
  <1>5. UNCHANGED <<slot, remembered, misses, presence>>
    BY <1>4 DEF memory
  <1>6. /\ WellFormed(w) /\ w.round = state.round /\ w.finished = state.finished
        /\ w.finished \/ Participants(w) = roster
        /\ ~w.finished => Active(w) = Active(state)
    <2>1. CASE state.finished
      BY <1>1, <1>2, <2>1 DEF Without
    <2>2. CASE ~state.finished
      BY <1>1, <1>2, <2>2, SeatEnds
    <2> QED BY <2>1, <2>2
  <1>7. BooksAgree'
    BY <1>2, <1>4, <1>5 DEF BooksAgree
  <1>8. CASE flow[f].round = 0
    <2>1. flow'[f].pc = "idle"
      BY <1>2, <1>8, IdleFields DEF Splice, Return
    <2>2. InPlay' /\ Settled'
      <3>1. /\ ~w.finished /\ Participants(w) = roster /\ Active(w) = Active(state)
            /\ slot \in {NoSlot, Current} /\ Settled
        BY <1>2, <1>6, <1>8
      <3>2. Current' = Current /\ Active(state)' = Active(state) /\ Participants(state)' = roster
        BY <1>4, <1>6, <3>1 DEF Current, Active, Participants
      <3>3. Live'
        BY <1>4, <1>6, <3>1 DEF Live, WellFormed
      <3>4. InPlay'
        BY <1>2, <1>4, <1>5, <3>1, <3>2, <3>3 DEF InPlay
      <3>5. Settled'
        BY <1>4, <1>5, <1>6, <3>1, <3>2 DEF Settled
      <3> QED BY <3>4, <3>5
    <2>3. FrameAgrees(flow[f])'
      BY <1>2, <1>4, <2>1, <2>2 DEF FrameAgrees, RestOK
    <2> QED BY <1>7, <2>3 DEF RoomAgrees
  <1>9. CASE flow[f].round # 0
    <2>1. flow'[f].pc = "cancel" /\ flow'[f].st = w /\ flow'[f].ended = e
      <3>1. flow'[f] = CancelFrame(w, e)
        BY <1>1, <1>2, <1>3, <1>4, <1>9 DEF Splice, Call
      <3>2. Active(w) \in Players
        BY <1>6, WellFormedIsSome
      <3> QED BY <1>2, <1>6, <3>1, <3>2, FrameFields
    <2>2. TurnOver(e)'
      BY <1>2, <1>4, <1>5, <1>6 DEF TurnOver, WellFormed, EndFits, CutRound
    <2>3. state'.finished \/ Participants(state)' = roster'
      BY <1>4, <1>6 DEF Participants
    <2>4. FrameAgrees(flow[f])'
      BY <1>4, <2>1, <2>2, <2>3 DEF FrameAgrees
    <2> QED BY <1>7, <2>4 DEF RoomAgrees
  <1> QED BY <1>8, <1>9

LEMMA ClearAgrees ==
    ASSUME NEW f, Agreed(f), Clear(f)
    PROVE  RoomAgrees(f)'
  <1>1. /\ \/ phase \in {"LOBBY", "GONE"}
           \/ phase = "PLAYING" /\ mode = "PARTY" /\ roster = {}
        /\ \A fr : flow' = [flow EXCEPT ![f] = fr] => flow'[f] = fr
    BY Given DEF Clear, FrameAgrees
  <1>2. flow'[f].pc = "idle"
    BY <1>1, IdleFields DEF Clear, Return
  <1>3. /\ UNCHANGED <<phase, mode, roster>> /\ state' = NoState /\ slot' = NoSlot
        /\ stored' = NoDeadline /\ remembered' = NoDeadline /\ misses' = NoMisses
    BY DEF Clear, CancelRoom
  <1>4. RestOK'
    BY <1>1, <1>3 DEF RestOK, Abandoned
  <1>5. BooksAgree'
    BY <1>1, <1>3 DEF BooksAgree, NoMisses, Players
  <1> QED BY <1>2, <1>4, <1>5 DEF RoomAgrees, FrameAgrees

-----------------------------------------------------------------------------
(* What comes from outside finds the room at rest.                           *)

LEMMA AtIdle ==
    ASSUME NEW f, Agreed(f), IsIdle(f)
    PROVE  /\ RestOK /\ BooksAgree /\ flow \in [Flows -> Frame] /\ f \in Flows
           /\ flow[f] \in Frame /\ DataOK /\ StateOK
           /\ \A fr : flow' = [flow EXCEPT ![f] = fr] => flow'[f] = fr
           /\ phase = "PLAYING" => Abandoned \/ (InPlay /\ Settled /\ WellFormed(state))
           /\ phase # "PLAYING" => slot = NoSlot /\ (state = NoState \/ state.finished)
  BY Given DEF IsIdle, FrameAgrees, RestOK, InPlay, Live

\* A step that leaves the round and its deadline as they are.
LEMMA RestKept ==
    ASSUME RestOK, UNCHANGED <<phase, mode, roster, state, slot, stored, remembered>>,
           phase = "LOBBY" => misses' = misses
    PROVE  RestOK'
  <1>1. CASE InPlay /\ Settled
    <2>1. InPlay' /\ Active(state)' = Active(state)
      BY <1>1, SameTurn
    <2>2. Settled'
      BY <1>1, <2>1 DEF Settled, Current, Active
    <2> QED BY <2>1, <2>2 DEF RestOK, InPlay
  <1>2. CASE Abandoned \/ phase # "PLAYING"
    BY <1>2 DEF RestOK, Abandoned
  <1> QED BY <1>1, <1>2 DEF RestOK

LEMMA TimerAgrees ==
    ASSUME NEW f, Agreed(f), FireTimer(f)
    PROVE  RoomAgrees(f)'
  <1> DEFINE fr == [IdleFrame EXCEPT !.pc = "autoroll", !.who = slot.who, !.round = slot.round]
  <1>1. /\ InPlay /\ slot = Current /\ BooksAgree
        /\ flow' = [flow EXCEPT ![f] = fr] => flow'[f] = fr
    BY AtIdle DEF FireTimer, InPlay, Abandoned
  <1>2. flow'[f] = fr
    BY <1>1 DEF FireTimer, Call
  <1>3. fr.pc = "autoroll" /\ fr.who = slot.who /\ fr.round = slot.round
    BY IdleType DEF Frame
  <1> HIDE DEF fr
  <1>4. flow'[f].pc = "autoroll" /\ flow'[f].who = Active(state) /\ flow'[f].round = state.round
    BY <1>1, <1>2, <1>3 DEF Current
  <1>5. UNCHANGED <<phase, mode, roster, state, misses, presence>> /\ slot' = NoSlot
    BY DEF FireTimer, redis
  <1>6. InPlay' /\ Active(state)' = Active(state)
    BY <1>1, <1>5 DEF InPlay, Live, Current, Participants, Active, WellFormed
  <1>7. FrameAgrees(flow[f])'
    BY <1>4, <1>5, <1>6 DEF FrameAgrees
  <1>8. BooksAgree'
    BY <1>1, <1>5 DEF BooksAgree
  <1> QED BY <1>7, <1>8 DEF RoomAgrees

LEMMA TurnRequestsAgree ==
    ASSUME NEW f, Agreed(f), NEW p \in Players, Roll(f, p) \/ Submit(f, p)
    PROVE  RoomAgrees(f)'
  <1>1. IsTurn(state, state.round, p)
    BY DEF Roll, Submit, ScoreTurn
  <1>2. InPlay
    BY <1>1, AtIdle DEF Roll, Submit, IsTurn, Abandoned
  <1>3. UNCHANGED <<phase, mode, roster, slot, misses, presence>>
    BY DEF Roll, Submit, memory
  <1> QED BY <1>2, <1>3, RollAgrees, EndsAgree DEF Roll, Submit, ScoreTurn, Call

LEMMA LeaveRequestsAgree ==
    ASSUME NEW f, Agreed(f), NEW p \in Seats, LeaveBySocket(f, p) \/ LeaveByRequest(f, p)
    PROVE  RoomAgrees(f)'
  <1>1. /\ RestOK /\ BooksAgree
        /\ \A fr : flow' = [flow EXCEPT ![f] = fr] => flow'[f] = fr
        /\ phase = "PLAYING" => Abandoned \/ (InPlay /\ Settled /\ WellFormed(state))
        /\ phase # "PLAYING" => slot = NoSlot /\ (state = NoState \/ state.finished)
    BY AtIdle DEF LeaveBySocket, LeaveByRequest
  <1>2. UNCHANGED <<mode, state, slot, stored, remembered, misses, presence>>
    BY DEF LeaveBySocket, LeaveByRequest, redis, memory
  <1>3. /\ roster' = roster \/ roster' = roster \ {p}
        /\ phase = "PLAYING" => \/ phase' = "PLAYING" /\ (roster' # {} \/ mode = "PARTY")
                                \/ phase' = "GONE" /\ roster' = {}
        /\ phase # "PLAYING" => phase' = phase \/ phase' = "GONE"
    BY <1>1 DEF LeaveBySocket, LeaveByRequest, LeaveRoster, redis, BooksAgree
  <1>4. BooksAgree'
    BY <1>1, <1>2, <1>3 DEF BooksAgree
  <1>5. ASSUME phase = "PLAYING"
        PROVE  flow'[f].pc = "leave" /\ flow'[f].who = p /\ flow'[f].round = 0 /\ flow'[f].ended = 0
    <2>1. flow'[f] = LeaveFrame(p)
      BY <1>1, <1>5 DEF LeaveBySocket, LeaveByRequest, Call
    <2> QED BY <2>1, LeaveFields
  <1>6. CASE phase = "PLAYING" /\ ~Abandoned
    <2>1. Leaving(p)'
      <3>1. Participants(state)' = Participants(state) /\ Participants(state) = roster
        BY <1>1, <1>2, <1>6 DEF Participants, InPlay
      <3>2. Participants(state)' \ {p} = roster' \ {p}
        BY <1>3, <3>1
      <3>3. phase' = "PLAYING" \/ (phase' = "GONE" /\ roster' = {})
        BY <1>3, <1>6
      <3> QED BY <3>2, <3>3 DEF Leaving, Participants
    <2>2. Live' /\ slot' \in {NoSlot, Current'} /\ Settled'
      BY <1>1, <1>2, <1>6 DEF InPlay, Live, Current, Settled, Active, WellFormed
    <2>3. FrameAgrees(flow[f])'
      BY <1>5, <1>6, <2>1, <2>2 DEF FrameAgrees
    <2> QED BY <1>4, <2>3 DEF RoomAgrees
  <1>7. CASE Abandoned
    <2>1. phase' = phase /\ roster' = roster
      BY <1>7 DEF Abandoned, LeaveBySocket, LeaveByRequest, LeaveRoster, HumansIn, redis
    <2>2. Abandoned'
      BY <1>2, <1>7, <2>1 DEF Abandoned
    <2>3. FrameAgrees(flow[f])'
      BY <1>5, <1>7, <2>2 DEF FrameAgrees, Abandoned
    <2> QED BY <1>4, <2>3 DEF RoomAgrees
  <1>8. CASE phase # "PLAYING"
    <2>1. flow' = flow /\ flow[f].pc = "idle"
      BY <1>8 DEF LeaveBySocket, LeaveByRequest, IsIdle
    <2>2. RestOK'
      BY <1>1, <1>2, <1>3, <1>8 DEF RestOK
    <2>3. FrameAgrees(flow[f])'
      BY <2>1, <2>2 DEF FrameAgrees
    <2> QED BY <1>4, <2>3 DEF RoomAgrees
  <1> QED BY <1>6, <1>7, <1>8

\* Sitting down in the lobby.
LEMMA JoinAgrees ==
    ASSUME NEW f, Agreed(f), NEW p \in Players, Join(f, p)
    PROVE  RoomAgrees(f)'
  <1>1. RestOK /\ phase = "LOBBY" /\ flow[f].pc = "idle"
    BY AtIdle DEF Join, IsIdle
  <1>2. UNCHANGED <<phase, state, slot, misses, flow>>
    BY DEF Join, memory
  <1>3. RestOK' /\ BooksAgree'
    BY <1>1, <1>2 DEF RestOK, BooksAgree
  <1>4. FrameAgrees(flow[f])'
    BY <1>1, <1>2, <1>3 DEF FrameAgrees
  <1> QED BY <1>3, <1>4 DEF RoomAgrees

LEMMA ConnectAgrees ==
    ASSUME NEW f, Agreed(f), NEW p \in Seats, Connect(f, p)
    PROVE  RoomAgrees(f)'
  <1>1. /\ RestOK /\ BooksAgree /\ DataOK
        /\ phase # "PLAYING" => slot = NoSlot /\ (state = NoState \/ state.finished)
    BY AtIdle DEF Connect
  <1>2. /\ UNCHANGED <<phase, mode, roster, state, slot, stored, remembered>>
        /\ flow[f].pc = "idle"
    BY DEF Connect, redis, IsIdle
  <1>3. flow' = flow
    BY <1>1 DEF Connect
  <1>4. misses' = misses \/ misses' = [q \in Players |-> IF q = p THEN 0 ELSE misses[q]]
    BY DEF Connect, Forgiven
  <1>5. phase = "LOBBY" => misses' = misses
    BY <1>1, <1>4 DEF RestOK, NoMisses
  <1>6. RestOK'
    BY <1>1, <1>2, <1>5, RestKept
  <1>7. BooksAgree'
    <2>1. phase = "PLAYING" => misses' = [q \in Players |-> IF q = p THEN 0 ELSE misses[q]]
      BY DEF Connect, Forgiven
    <2>2. presence' = [presence EXCEPT ![p] = "online"]
      BY DEF Connect
    <2> QED BY <1>1, <1>2, <2>1, <2>2 DEF BooksAgree, DataOK, Players, Seats
  <1>8. FrameAgrees(flow[f])'
    BY <1>2, <1>3, <1>6 DEF FrameAgrees
  <1> QED BY <1>7, <1>8 DEF RoomAgrees

LEMMA GameAgrees ==
    ASSUME NEW f, Agreed(f), NEW host \in Players, StartGame(f, host)
    PROVE  RoomAgrees(f)'
  <1>1. PICK w : w = StartState(TurnOrder(host))
    OBVIOUS
  <1>2. /\ slot = NoSlot /\ misses = NoMisses /\ host \in roster /\ roster \subseteq Players
        /\ \A fr : flow' = [flow EXCEPT ![f] = fr] => flow'[f] = fr
    BY AtIdle DEF StartGame, RestOK, HumansIn, DataOK
  <1>3. /\ state' = w /\ phase' = "PLAYING" /\ flow'[f] = BeginFrame(w)
        /\ UNCHANGED <<roster, slot, misses, presence>>
    BY <1>1, <1>2 DEF StartGame, Call, memory
  <1>4. /\ WellFormed(w) /\ ~w.finished /\ Participants(w) = roster
    <2>1. WellFormed(w)
      BY <1>1, <1>2, StartIsWellFormed
    <2>2. /\ w.finished = FALSE
          /\ Now(w) = {host} /\ After(w) = roster \ {host} /\ Before(w) = {}
      BY <1>1, <1>2, MapStart
    <2>3. Participants(w) = Before(w) \cup Now(w) \cup After(w)
      BY <2>1, SeatsAreTurns
    <2> QED BY <1>2, <2>1, <2>2, <2>3
  <1>5. flow'[f].pc = "begin" /\ flow'[f].st = w
    BY <1>3, <1>4, FrameFields, LimitsAssumption
  <1>6. InPlay'
    BY <1>2, <1>3, <1>4 DEF InPlay, Live, Participants, WellFormed
  <1>7. BooksAgree'
    BY <1>2, <1>3 DEF BooksAgree, NoMisses, Players
  <1>8. FrameAgrees(flow[f])'
    BY <1>3, <1>5, <1>6 DEF FrameAgrees
  <1> QED BY <1>7, <1>8 DEF RoomAgrees

LEMMA LobbyAgrees ==
    ASSUME NEW f, Agreed(f), ReturnToLobby(f)
    PROVE  RoomAgrees(f)'
  <1>1. flow'[f].pc = "clear" /\ phase' = "LOBBY"
    BY AtIdle DEF ReturnToLobby, Goto, Frame
  <1> QED BY <1>1 DEF RoomAgrees, FrameAgrees, BooksAgree

-----------------------------------------------------------------------------
(* The process as a whole.                                                   *)

LEMMA ProcessAgrees ==
    ASSUME NEW f, Agreed(f), Flows = {f},
           (\E p \in Seats : Disconnect(p)) \/ CloseEmpty \/ Restart \/ Sweep
    PROVE  RoomAgrees(f)'
  <1>1. IsIdle(f)
    BY DEF Disconnect, CloseEmpty, Restart, Sweep, SomeIdle, AtRest
  <1>2. /\ RestOK /\ BooksAgree /\ DataOK /\ flow[f].pc = "idle"
        /\ \A fr : flow' = [flow EXCEPT ![f] = fr] => flow'[f] = fr
        /\ phase = "PLAYING" => Abandoned \/ (InPlay /\ Settled /\ WellFormed(state))
        /\ phase # "PLAYING" => slot = NoSlot /\ (state = NoState \/ state.finished)
    BY <1>1, AtIdle DEF IsIdle
  <1>3. ASSUME flow' = flow, RestOK', BooksAgree'
        PROVE  RoomAgrees(f)'
    <2>1. flow'[f].pc = "idle"
      BY <1>2, <1>3
    <2>2. FrameAgrees(flow[f])'
      BY <1>3, <2>1 DEF FrameAgrees
    <2> QED BY <1>3, <2>2 DEF RoomAgrees
  <1>4. ASSUME NEW p \in Seats, Disconnect(p)
        PROVE  RoomAgrees(f)'
    <2>1. UNCHANGED <<phase, mode, roster, state, flow>>
      BY <1>4 DEF Disconnect
    <2>2. CASE phase = "PLAYING"
      <3>1. UNCHANGED <<slot, stored, remembered, misses>>
            /\ presence' = [presence EXCEPT ![p] = "offline"]
        BY <1>4, <2>2 DEF Disconnect
      <3>2. RestOK'
        BY <1>2, <2>1, <3>1, RestKept
      <3>3. BooksAgree'
        BY <1>2, <2>1, <3>1 DEF BooksAgree, DataOK, Players, Seats
      <3> QED BY <1>3, <2>1, <3>2, <3>3
    <2>3. CASE phase # "PLAYING"
      <3>1. slot' = NoSlot /\ (misses' = misses \/ misses' = NoMisses)
        BY <1>2, <1>4, <2>3 DEF Disconnect, CancelRoom
      <3>2. RestOK' /\ BooksAgree'
        BY <1>2, <2>1, <2>3, <3>1 DEF RestOK, BooksAgree
      <3> QED BY <1>3, <2>1, <3>2
    <2> QED BY <2>2, <2>3
  <1>5. CASE CloseEmpty
    <2>1. CASE presence = NobodyHere
      <3>1. phase' = "GONE" /\ slot' = NoSlot /\ state' = NoState /\ flow' = flow
        BY <1>5, <2>1 DEF CloseEmpty, CancelRoom
      <3> QED BY <1>3, <3>1 DEF RestOK, BooksAgree
    <2>2. CASE presence # NobodyHere
      <3>1. /\ UNCHANGED <<phase, mode, roster, state, slot, stored, remembered, misses, flow>>
            /\ presence' = presence
        BY <1>5, <2>2 DEF CloseEmpty
      <3>2. RestOK' /\ BooksAgree'
        BY <1>2, <3>1, RestKept DEF BooksAgree
      <3> QED BY <1>3, <3>1, <3>2
    <2> QED BY <2>1, <2>2
  <1>6. CASE Sweep
    BY <1>2, <1>3, <1>6 DEF Sweep, CancelRoom, RestOK, BooksAgree
  <1>7. CASE Restart /\ phase # "PLAYING"
    BY <1>2, <1>3, <1>7 DEF Restart, RestOK, BooksAgree
  <1>8. CASE Restart /\ Abandoned
    <2>1. ~CanRehydrate
      BY <1>8 DEF Abandoned, CanRehydrate
    <2>2. phase' = "GONE" /\ slot' = NoSlot /\ state' = NoState /\ flow' = flow
      BY <1>8, <2>1 DEF Restart, Abandoned
    <2> QED BY <1>3, <2>2 DEF RestOK, BooksAgree
  <1>9. CASE Restart /\ phase = "PLAYING" /\ ~Abandoned
    <2>1. CanRehydrate /\ stored.round = state.round
      BY <1>2, <1>9, WellFormedIsSome DEF CanRehydrate, Settled, InPlay, Live
    <2> DEFINE fr == [IdleFrame EXCEPT !.pc = "arm", !.st = state, !.timed = stored.timed,
                                       !.bot = IsBot(Active(state)), !.restored = TRUE]
    <2>2. flow'[f] = fr
      <3>1. flow' = [flow EXCEPT ![f] = fr]
        BY <1>9, <2>1 DEF Restart, Call
      <3> HIDE DEF fr
      <3> QED BY <1>2, <3>1
    <2>3. /\ fr.pc = "arm" /\ fr.st = state /\ fr.timed = stored.timed
          /\ (fr.bot <=> IsBot(Active(state)))
      BY IdleType DEF Frame
    <2> HIDE DEF fr
    <2>4. /\ UNCHANGED <<phase, mode, roster, state, stored>> /\ slot' = NoSlot
          /\ presence' = NobodyHere
      BY <1>9, <2>1 DEF Restart
    <2>5. stored = [round |-> state.round, timed |-> stored.timed]
      BY <1>2, <2>1 DEF DataOK, Deadline
    <2>6. InPlay'
      BY <1>2, <1>9, <2>4 DEF InPlay, Live, Participants, WellFormed
    <2>7. flow'[f].bot <=> IsBot(Active(state))'
      BY <2>2, <2>3, <2>4 DEF IsBot, Active
    <2>8. stored' = DeadlineOf(flow[f])'
      BY <2>2, <2>3, <2>4, <2>5 DEF DeadlineOf
    <2>9. FrameAgrees(flow[f])'
      BY <2>2, <2>3, <2>4, <2>6, <2>7, <2>8 DEF FrameAgrees
    <2>10. BooksAgree'
      BY <1>2, <2>4 DEF BooksAgree, NobodyHere, Players, Seats
    <2> QED BY <2>9, <2>10 DEF RoomAgrees
  <1> QED BY <1>4, <1>5, <1>6, <1>7, <1>8, <1>9

LEMMA AgreementKept ==
    ASSUME NEW f, Flows = {f}, TypesOK, ScoresOK, RoomAgrees(f), [Next]_vars
    PROVE  RoomAgrees(f)'
  <1>1. Agreed(f)
    BY TypesKept DEF Agreed
  <1>2. CASE UNCHANGED vars
    <2>1. RestOK => RestOK'
      BY <1>2, RestKept DEF vars, redis, memory
    <2>2. InPlay => InPlay'
      BY <1>2, SameTurn DEF vars, redis, memory
    <2> QED BY <1>2, <2>1, <2>2
            DEF vars, redis, memory, RoomAgrees, FrameAgrees, BooksAgree, Live, Current, Settled,
                TurnOver, Leaving, Abandoned, DeadlineOf, IsBot, Participants, Active, WellFormed, EndFits,
                CutRound
  <1>3. CASE Step(f)
    BY <1>1, <1>3, TurnsAgree, ExpiryAgrees, CompletionAgrees, LeavingNothing, LeavingAgrees,
       PassAgrees, SpliceAgrees, ClearAgrees DEF Step
  <1>4. CASE FireTimer(f) \/ ReturnToLobby(f)
    BY <1>1, <1>4, TimerAgrees, LobbyAgrees
  <1>5. ASSUME NEW p \in Players, Request(f, p)
        PROVE  RoomAgrees(f)'
    BY <1>1, <1>5, TurnRequestsAgree, LeaveRequestsAgree, JoinAgrees, GameAgrees
       DEF Request, Seats
  <1>6. ASSUME NEW p \in Seats, Socket(f, p)
        PROVE  RoomAgrees(f)'
    BY <1>1, <1>6, LeaveRequestsAgree, ConnectAgrees DEF Socket
  <1>7. CASE (\E p \in Seats : Disconnect(p)) \/ CloseEmpty \/ Restart \/ Sweep
    BY <1>1, <1>7, ProcessAgrees
  <1> QED BY <1>2, <1>3, <1>4, <1>5, <1>6, <1>7 DEF Next

LEMMA AgreementInvariant ==
    ASSUME NEW f, Flows = {f}
    PROVE  Spec => [](TypesOK /\ RoomAgrees(f))
  <1>1. Init => ScoresOK /\ RoomAgrees(f)
    BY AgreeAtFirst DEF Init, ScoresOK
  <1>2. TypesOK /\ ScoresOK /\ RoomAgrees(f) /\ [Next]_vars => ScoresOK' /\ RoomAgrees(f)'
    BY ScoresKept, AgreementKept
  <1> QED BY <1>1, <1>2, TypesInvariant, PTL DEF Spec

\* A list that names everybody at the table names each of them once, and an empty table
\* has none.
LEMMA SeatsMatch ==
    ASSUME NEW f, Flows = {f}, RoomAgrees(f)
    PROVE  SeatsMatchTurns /\ TimerFollowsTurn /\ OnlineHasNoMisses
  <1>1. ASSUME phase = "PLAYING", AtRest
        PROVE  /\ roster # {} => InPlay /\ Settled
               /\ roster = {} => Abandoned
    <2>1. Abandoned \/ (InPlay /\ Settled)
      BY <1>1 DEF AtRest, IsIdle, RoomAgrees, FrameAgrees, RestOK
    <2>2. InPlay => roster # {}
      BY SeatsAreTurns DEF InPlay, Live
    <2> QED BY <2>1, <2>2 DEF Abandoned
  <1>2. SeatsMatchTurns
    <2>1. ASSUME InGame
          PROVE  /\ state # NoState /\ state.index \in DOMAIN state.order /\ ~state.finished
                 /\ Participants(state) = roster
                 /\ Cardinality(Participants(state)) = Len(state.order)
      <3>1. InPlay
        BY <1>1, <2>1 DEF InGame
      <3> QED BY <3>1, WellFormedIsSome, SeatsAreTurns DEF InPlay, Live, WellFormed
    <2>2. Deserted => mode = "PARTY" /\ state = NoState
      BY <1>1 DEF Deserted, Abandoned
    <2> QED BY <2>1, <2>2 DEF SeatsMatchTurns
  <1>3. TimerFollowsTurn
    <2>1. InGame => Settled
      BY <1>1 DEF InGame
    <2>2. Deserted => Abandoned
      BY <1>1 DEF Deserted
    <2> QED BY <2>1, <2>2
            DEF TimerFollowsTurn, DeadlinesAgree, TurnIsTimed, NothingIsTimed, Settled, Current,
                Abandoned
  <1>4. OnlineHasNoMisses
    BY DEF OnlineHasNoMisses, InGame, RoomAgrees, BooksAgree
  <1> QED BY <1>2, <1>3, <1>4

\* With handlers that run one after the other, every way of leaving ends with a turn list
\* that names exactly the roster, and with a turn that can go on (YachtTurns.SeatsMatchTurns).
THEOREM SeatsAlwaysMatchTurns ==
    ASSUME NEW f, Flows = {f}
    PROVE  Spec => []SeatsMatchTurns
  <1>1. RoomAgrees(f) => SeatsMatchTurns
    BY SeatsMatch
  <1> QED BY <1>1, AgreementInvariant, PTL

\* What moves a game on, the timer and after a restart the stored deadline, is about the
\* very turn that is on, whatever happened before: rolls, scores, expired turns, players
\* leaving, restarts (YachtTurns.TimerFollowsTurn).
THEOREM TimerAlwaysFollowsTurn ==
    ASSUME NEW f, Flows = {f}
    PROVE  Spec => []TimerFollowsTurn
  <1>1. RoomAgrees(f) => TimerFollowsTurn
    BY SeatsMatch
  <1> QED BY <1>1, AgreementInvariant, PTL

\* No player who is online in a running game has missed turns on the books
\* (YachtTurns.OnlineHasNoMisses).
THEOREM MissesAreForgiven ==
    ASSUME NEW f, Flows = {f}
    PROVE  Spec => []OnlineHasNoMisses
  <1>1. RoomAgrees(f) => OnlineHasNoMisses
    BY SeatsMatch
  <1> QED BY <1>1, AgreementInvariant, PTL
=============================================================================
