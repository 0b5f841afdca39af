---------------------------- MODULE Room_proofs ----------------------------
(***************************************************************************)
(* What holds of Room for every number of players, games, categories and   *)
(* ticks.  The first part proves the types; the second proves that IInv is *)
(* inductive, one lemma per conjunct, each with one step per script; the   *)
(* third draws the theorems from it; the fourth is about sums of points;   *)
(* the last shows that Room implements OneRoom.                            *)
(***************************************************************************)
EXTENDS Room, FiniteSetTheorems, WellFoundedInduction, TLAPS

\* If a human stays behind, LEAVE finds an heir among them: the smallest id exists.
LEMMA HeirIsLeft ==
    ASSUME NEW left, left \subseteq Players, left \ bots # {}
    PROVE  Heir(left) \in left \ bots
  <1> DEFINE humans == left \ bots
  <1>1. humans \in SUBSET Nat /\ humans # {}
    BY IdsAssumption DEF Players
  <1>2. PICK h \in humans : \A o \in humans : ~ <<o, h>> \in OpToRel(<, Nat)
    <2> HIDE DEF humans
    <2> QED BY <1>1, NatLessThanWellFounded, WFMin
  <1>3. \A o \in humans : h <= o
    <2> SUFFICES ASSUME NEW o \in humans, ~ (h <= o) PROVE FALSE
      OBVIOUS
    <2>1. h \in Nat /\ o \in Nat /\ o < h
      BY <1>1
    <2>2. <<o, h>> \in OpToRel(<, Nat)
      BY <2>1 DEF OpToRel
    <2> QED BY <1>2, <2>2
  <1> QED BY <1>1, <1>3 DEF Heir

\* The values that stand for missing keys have the types of the keys.
LEMMA NullTypes ==
    /\ NoRoom \in RoomHash
    /\ NoSheet \in SheetHash
    /\ NoKeys \in KeyTimes
    /\ NoScores \in [Players -> Int]
  <1>1. NoRoom \in RoomHash
    BY DEF NoRoom, RoomHash, Phases
  <1>2. NoSheet \in SheetHash
    BY DEF NoSheet, SheetHash, Signatures
  <1>3. NoKeys \in KeyTimes
    BY RuleAssumption DEF NoKeys, KeyTimes, Ttl, Forever
  <1>4. NoScores \in [Players -> Int]
    BY DEF NoScores, Absent
  <1> QED BY <1>1, <1>2, <1>3, <1>4

\* A sheet stays a sheet when a score is entered.
LEMMA ScoredType ==
    ASSUME NEW s \in SheetHash, NEW r \in Rounds, NEW c \in Categories, NEW d \in Dices
    PROVE  Scored(s, r, c, d) \in SheetHash
  <1> DEFINE score == ScoreOf[<<c, d>>]
             upper == s.upper + (IF c \in UpperCategories THEN score ELSE 0)
             bonus == IF upper >= BonusFrom THEN Bonus ELSE 0
  <1>1. score \in Nat
    BY ScoreAssumption
  <1>2. upper \in Nat /\ bonus \in {0, Bonus}
    BY <1>1 DEF SheetHash
  <1>3. s.total + score + bonus - s.bonus \in Int
    BY <1>1, <1>2, ScoreAssumption DEF SheetHash
  <1>4. [s.cells EXCEPT ![c] = score] \in [Categories -> Nat \cup {Absent}]
    BY <1>1 DEF SheetHash
  <1>5. [s.submitted EXCEPT ![r] = <<c, d>>] \in [Rounds -> Signatures]
    BY DEF SheetHash, Signatures
  <1> QED BY <1>2, <1>3, <1>4, <1>5 DEF Scored, SheetHash

\* The two fields JOIN and LEAVE write keep the room hash a room hash.
LEMMA RoomUpdateType ==
    ASSUME NEW rm \in RoomHash, NEW n \in Int, NEW h \in Players \cup {NoOne}
    PROVE  [rm EXCEPT !.members = n, !.hostId = h] \in RoomHash
  BY DEF RoomHash

\* Aligning the bots hash with the room keeps the expiries expiries.
LEMMA AlignTypes ==
    ASSUME NEW t \in KeyTimes
    PROVE  AlignBots(t) \in KeyTimes
  <1>1. KeyOf(bots, t.room) \in Ttl
    BY RuleAssumption DEF KeyTimes, KeyOf, Ttl, Forever
  <1> QED BY <1>1 DEF AlignBots, KeyTimes

\* Before the first script everything has its type.
LEMMA TypeInit == Init => TypeOK
  BY NullTypes DEF Init, TypeOK

\* Every script and every tick of the clock preserves the types.
LEMMA TypeStep == TypeOK /\ [Next]_vars => TypeOK'
  <1> SUFFICES ASSUME TypeOK, [Next]_vars PROVE TypeOK'
    OBVIOUS
  <1> USE DEF TypeOK
  <1>0. /\ 0 \in Ttl /\ MaxTtl \in Ttl
        /\ \A fs : \A t \in Ttl : KeyOf(fs, t) \in Ttl
        /\ \A t \in Ttl : Aged(t) \in Ttl
    BY RuleAssumption DEF Ttl, Forever, KeyOf, Aged
  <1>drop. ASSUME DropFamily
           PROVE  /\ room' \in RoomHash /\ roster' \subseteq Players
                  /\ bots' \subseteq Players /\ scores' \in [Players -> Int]
    BY <1>drop, NullTypes DEF DropFamily
  <1>1. ASSUME NEW h \in Humans, NEW n \in Capacities, NEW m \in Modes, Create(h, n, m)
        PROVE  TypeOK'
    <2>1. room' \in RoomHash
      BY <1>1, RuleAssumption DEF Create, RoomHash, Phases, Players
    <2>2. ttl' \in KeyTimes
      BY <1>1, <1>0 DEF Create, KeyTimes
    <2> QED BY <1>1, <2>1, <2>2 DEF Create
  <1>2. ASSUME NEW p \in Humans, Join(p)
        PROVE  TypeOK'
    <2> p \in Players
      BY DEF Players
    <2>0. PICK host \in Players \cup {NoOne} :
             room' = [room EXCEPT !.members = room.members + 1, !.hostId = host]
      <3>1. CASE room.hostId = NoOne \/ room.hostId \notin roster'
        BY <1>2, <3>1 DEF Join, InLobby, SeatFree, Aligned
      <3>2. CASE ~ (room.hostId = NoOne \/ room.hostId \notin roster')
        <4>1. room.hostId \in Players \cup {NoOne}
          BY DEF RoomHash
        <4>2. room' = [room EXCEPT !.members = room.members + 1, !.hostId = room.hostId]
          BY <1>2, <3>2 DEF Join, InLobby, SeatFree, Aligned
        <4> QED BY <4>1, <4>2
      <3> QED BY <3>1, <3>2
    <2>1. room' \in RoomHash
      <3>1. room.members + 1 \in Int
        BY DEF RoomHash
      <3> QED BY <2>0, <3>1, RoomUpdateType
    <2>4. ttl' \in KeyTimes
      BY <1>2, <1>0 DEF Join, Aligned, KeyTimes
    <2> QED BY <1>2, <2>1, <2>4 DEF Join, InLobby, SeatFree, Aligned
  <1>3. ASSUME NEW p \in Humans, Leave(p)
        PROVE  TypeOK'
    <2> p \in Players
      BY DEF Players
    <2>1. CASE room.members - 1 <= 0 /\ room.mode # "PARTY"
      <3>1. ttl' \in KeyTimes
        BY <1>3, <2>1, <1>0 DEF Leave, KeyTimes
      <3> QED BY <1>3, <2>1, <3>1, <1>drop DEF Leave
    <2>2. CASE ~ (room.members - 1 <= 0 /\ room.mode # "PARTY")
      <3>1. Heir(roster \ {p}) \in Players \cup {NoOne}
        <4>1. CASE (roster \ {p}) \ bots = {}
          BY <4>1 DEF Heir
        <4>2. CASE (roster \ {p}) \ bots # {}
          BY <4>2, HeirIsLeft
        <4> QED BY <4>1, <4>2
      <3>2. room' \in RoomHash
        <4>1. PICK host \in Players \cup {NoOne} :
                 room' = [room EXCEPT !.members = room.members - 1, !.hostId = host]
          <5>1. CASE room.hostId = p
            BY <1>3, <2>2, <3>1, <5>1 DEF Leave
          <5>2. CASE room.hostId # p
            <6>1. room.hostId \in Players \cup {NoOne}
              BY DEF RoomHash
            <6>2. room' = [room EXCEPT !.members = room.members - 1,
                                       !.hostId = room.hostId]
              BY <1>3, <2>2, <5>2 DEF Leave
            <6> QED BY <6>1, <6>2
          <5> QED BY <5>1, <5>2
        <4>2. room.members - 1 \in Int
          BY DEF RoomHash
        <4> QED BY <4>1, <4>2, RoomUpdateType
      <3>3. ttl' \in KeyTimes
        <4>1. ttl' = [ttl EXCEPT !.players = KeyOf(roster \ {p}, ttl.players),
                                 !.scores = KeyOf(roster \ {p}, ttl.scores),
                                 !.bots = KeyOf(bots \ {p}, ttl.bots)]
          BY <1>3, <2>2 DEF Leave
        <4> QED BY <4>1, <1>0 DEF KeyTimes
      <3>4. /\ roster' \subseteq Players /\ bots' \subseteq Players
            /\ scores' \in [Players -> Int]
            /\ UNCHANGED <<sheet, used>>
        BY <1>3, <2>2 DEF Leave, Absent
      <3> QED BY <3>2, <3>3, <3>4
    <2> QED BY <2>1, <2>2
  <1>4. ASSUME Close PROVE TypeOK'
    <2>1. sheet' \in [GameIds -> [Players -> SheetHash]]
      BY <1>4, NullTypes DEF Close
    <2>2. ttl' \in KeyTimes
      BY <1>4, <1>0 DEF Close, KeyTimes
    <2> QED BY <1>4, <2>1, <2>2, <1>drop DEF Close
  <1>5. ASSUME NEW h \in Humans, NEW b \in Bots, BotAdd(h, b)
        PROVE  TypeOK'
    <2> b \in Players
      BY DEF Players
    <2>1. room' \in RoomHash
      BY <1>5 DEF BotAdd, RoomHash, InLobby, SeatFree, Aligned
    <2>2. ttl' \in KeyTimes
      BY <1>5, <1>0 DEF BotAdd, Aligned, KeyTimes
    <2> QED BY <1>5, <2>1, <2>2 DEF BotAdd, InLobby, SeatFree, Aligned
  <1>6. ASSUME NEW h \in Humans, NEW b \in Bots, BotRemove(h, b)
        PROVE  TypeOK'
    <2> b \in Players
      BY DEF Players
    <2>1. room' \in RoomHash
      BY <1>6 DEF BotRemove, RoomHash, InLobby
    <2>2. ttl' \in KeyTimes
      BY <1>6, <1>0 DEF BotRemove, KeyTimes, InLobby
    <2> QED BY <1>6, <2>1, <2>2 DEF BotRemove, Absent, InLobby
  <1>7. ASSUME NEW g \in GameIds, Start(g)
        PROVE  TypeOK'
    <2>1. room' \in RoomHash
      BY <1>7 DEF Start, RoomHash, Phases, InLobby
    <2>2. [ttl EXCEPT !.game[g] = ttl.room] \in KeyTimes
      BY DEF KeyTimes
    <2>3. ttl' \in KeyTimes
      BY <1>7, <2>2, AlignTypes DEF Start, InLobby
    <2> QED BY <1>7, <2>1, <2>3 DEF Start, InLobby
  <1>8. ASSUME NEW g \in GameIds, RollbackStart(g)
        PROVE  TypeOK'
    <2>1. room' \in RoomHash
      BY <1>8 DEF RollbackStart, RoomHash, Phases, Playing, BackInLobby
    <2>2. ttl' \in KeyTimes
      BY <1>8, <1>0 DEF RollbackStart, KeyTimes, Playing, BackInLobby
    <2> QED BY <1>8, <2>1, <2>2 DEF RollbackStart, Playing, BackInLobby
  <1>9. ASSUME CancelActiveGame PROVE TypeOK'
    <2>1. room' \in RoomHash
      BY <1>9 DEF CancelActiveGame, RoomHash, Phases, BackInLobby
    <2>2. ttl' \in KeyTimes
      BY <1>9, <1>0 DEF CancelActiveGame, KeyTimes, BackInLobby
    <2> QED BY <1>9, <2>1, <2>2 DEF CancelActiveGame, BackInLobby
  <1>10. ASSUME ReturnToLobby PROVE TypeOK'
    <2>1. room' \in RoomHash
      BY <1>10 DEF ReturnToLobby, RoomHash, Phases, BackInLobby
    <2>2. [ttl EXCEPT !.scores = KeyOf(roster, ttl.room)] \in KeyTimes
      BY <1>0 DEF KeyTimes
    <2>3. ttl' \in KeyTimes
      BY <1>10, <2>2, AlignTypes DEF ReturnToLobby, BackInLobby
    <2>4. scores' \in [Players -> Int]
      BY <1>10 DEF ReturnToLobby, ResetScores, BackInLobby
    <2> QED BY <1>10, <2>1, <2>3, <2>4 DEF ReturnToLobby, BackInLobby
  <1>11. ASSUME NEW g \in GameIds, NEW force \in BOOLEAN, FinishIfComplete(g, force)
         PROVE  TypeOK'
    BY <1>11 DEF FinishIfComplete, RoomHash, Phases, Playing
  <1>12. ASSUME NEW g \in GameIds, NEW p \in Players, NEW r \in Rounds,
                NEW c \in Categories, NEW d \in Dices, ConfirmScore(g, p, r, c, d)
         PROVE  TypeOK'
    <2>1. sheet[g][p] \in SheetHash
      OBVIOUS
    <2>2. Scored(sheet[g][p], r, c, d) \in SheetHash
      BY <2>1, ScoredType
    <2>3. sheet' \in [GameIds -> [Players -> SheetHash]]
      BY <1>12, <2>2 DEF ConfirmScore
    <2>4. sheet'[g][p].total \in Int
      BY <2>3 DEF SheetHash
    <2>5. scores' \in [Players -> Int]
      BY <1>12, <2>4 DEF ConfirmScore
    <2>6. ttl' \in KeyTimes
      BY <1>12 DEF ConfirmScore, KeyTimes
    <2> QED BY <1>12, <2>3, <2>5, <2>6 DEF ConfirmScore
  <1>13. ASSUME Touch PROVE TypeOK'
    <2>1. ttl' \in KeyTimes
      BY <1>13, <1>0 DEF Touch, KeyTimes, SheetTouched
    <2> QED BY <1>13, <2>1 DEF Touch, SheetTouched
  <1>14. ASSUME Tick PROVE TypeOK'
    <2>1. ttl' \in KeyTimes
      BY <1>14, <1>0 DEF Tick, KeyTimes
    <2>2. sheet' \in [GameIds -> [Players -> SheetHash]]
      BY <1>14, NullTypes DEF Tick
    <2> QED BY <1>14, <2>1, <2>2, NullTypes DEF Tick
  <1>15. CASE UNCHANGED vars
    BY <1>15 DEF vars
  <1> QED
    BY <1>1, <1>2, <1>3, <1>4, <1>5, <1>6, <1>7, <1>8, <1>9, <1>10, <1>11, <1>12,
       <1>13, <1>14, <1>15 DEF Next, Lifecycle, GameFlow, Scoring

\* Whatever scripts run and whatever keys expire, every key, sheet and expiry
\* has its type (TypeOK): lifecycle.ts, bots.ts, gameFlow.ts, score/scripts.ts.
THEOREM TypeCorrect == Spec => []TypeOK
  BY TypeInit, TypeStep, PTL DEF Spec

-----------------------------------------------------------------------------
\* A total is never below the bonus it contains, hence never the value that
\* stands for a missing field of :scores.
TotalsCoverBonus ==
    \A g \in GameIds, p \in Players : sheet[g][p].total >= sheet[g][p].bonus

\* The inductive invariant.  Seats, expiries and scores are not inductive alone:
\* the seats need the expiries (a roster must not outlive its room), the expiries
\* need the phase (whose game key is meant), and the scores need both.
IInv ==
    /\ TypeOK
    /\ NoHalfRoom
    /\ GameMatchesPhase
    /\ SeatsAgree
    /\ HumanHost
    /\ ScoresOfThisGame
    /\ TotalsCoverBonus

\* A roster is finite, so that its cardinality can be counted with.
LEMMA RosterIsFinite ==
    ASSUME TypeOK
    PROVE  IsFiniteSet(roster) /\ Cardinality(roster) \in Nat
  <1>1. IsFiniteSet(Players)
    BY IdsAssumption, FS_Union DEF Players
  <1>2. IsFiniteSet(roster)
    BY <1>1, FS_Subset DEF TypeOK
  <1> QED BY <1>2, FS_CardinalityType

\* The inductive invariant holds where no room exists.
LEMMA InitIInv == Init => IInv
  <1> SUFFICES ASSUME Init PROVE IInv
    OBVIOUS
  <1>1. NoHalfRoom
    BY RuleAssumption DEF Init, NoHalfRoom, NoRoom, NoKeys, KeyOf, Exists, Forever, NoGame
  <1>2. GameMatchesPhase
    BY DEF Init, GameMatchesPhase, NoRoom, NoGame, Unscored
  <1>3. SeatsAgree
    BY FS_EmptySet DEF Init, SeatsAgree, NoRoom, NoScores
  <1>4. HumanHost
    BY DEF Init, HumanHost, NoRoom
  <1>5. TotalsCoverBonus
    BY DEF Init, TotalsCoverBonus, NoSheet
  <1>6. ScoresOfThisGame
    BY DEF Init, ScoresOfThisGame
  <1> QED BY <1>1, <1>2, <1>3, <1>4, <1>5, <1>6, TypeInit DEF IInv

\* Every step preserves the agreement of phase and game id.
LEMMA PhaseStep == IInv /\ [Next]_vars => GameMatchesPhase'
  <1> SUFFICES ASSUME IInv, [Next]_vars PROVE GameMatchesPhase'
    OBVIOUS
  <1> USE IdsAssumption DEF IInv, TypeOK, GameMatchesPhase, RoomHash, NoGame
  <1>1. ASSUME NEW h \in Humans, NEW n \in Capacities, NEW m \in Modes, Create(h, n, m)
        PROVE  GameMatchesPhase'
    BY <1>1 DEF Create, Unscored
  <1>2. ASSUME NEW p \in Humans, Join(p)
        PROVE  GameMatchesPhase'
    BY <1>2 DEF Join, Unscored, InLobby, SeatFree, Aligned
  <1>3. ASSUME NEW p \in Humans, Leave(p)
        PROVE  GameMatchesPhase'
    <2>1. CASE room.members - 1 <= 0 /\ room.mode # "PARTY"
      BY <1>3, <2>1 DEF Leave, DropFamily, NoRoom, Unscored
    <2>2. CASE ~ (room.members - 1 <= 0 /\ room.mode # "PARTY")
      <3>1. room'.phase = room.phase /\ room'.gameId = room.gameId
        BY <1>3, <2>2 DEF Leave
      <3> QED BY <1>3, <3>1 DEF Leave, Unscored
    <2> QED BY <2>1, <2>2
  <1>4. ASSUME Close PROVE GameMatchesPhase'
    BY <1>4 DEF Close, DropFamily, NoRoom, Unscored
  <1>5. ASSUME NEW h \in Humans, NEW b \in Bots, BotAdd(h, b)
        PROVE  GameMatchesPhase'
    BY <1>5 DEF BotAdd, Unscored, InLobby, SeatFree, Aligned
  <1>6. ASSUME NEW h \in Humans, NEW b \in Bots, BotRemove(h, b)
        PROVE  GameMatchesPhase'
    BY <1>6 DEF BotRemove, Unscored, InLobby
  <1>7. ASSUME NEW g \in GameIds, Start(g)
        PROVE  GameMatchesPhase'
    BY <1>7 DEF Start, Unscored, InLobby
  <1>8. ASSUME NEW g \in GameIds, RollbackStart(g)
        PROVE  GameMatchesPhase'
    BY <1>8 DEF RollbackStart, Unscored, Playing, BackInLobby
  <1>9. ASSUME CancelActiveGame PROVE GameMatchesPhase'
    BY <1>9 DEF CancelActiveGame, Unscored, BackInLobby
  <1>10. ASSUME ReturnToLobby PROVE GameMatchesPhase'
    BY <1>10 DEF ReturnToLobby, Unscored, BackInLobby
  <1>11. ASSUME NEW g \in GameIds, NEW force \in BOOLEAN, FinishIfComplete(g, force)
         PROVE  GameMatchesPhase'
    BY <1>11 DEF FinishIfComplete, Unscored, Playing
  <1>12. ASSUME NEW g \in GameIds, NEW p \in Players, NEW r \in Rounds,
                NEW c \in Categories, NEW d \in Dices, ConfirmScore(g, p, r, c, d)
         PROVE  GameMatchesPhase'
    <2>1. g \in used
      BY <1>12 DEF ConfirmScore, ConfirmGuard, Playing
    <2>2. \A o \in GameIds \ used : Unscored(o)'
      BY <1>12, <2>1 DEF ConfirmScore, Unscored
    <2> QED BY <1>12, <2>2 DEF ConfirmScore
  <1>13. ASSUME Touch PROVE GameMatchesPhase'
    BY <1>13 DEF Touch, Unscored, SheetTouched
  <1>14. ASSUME Tick PROVE GameMatchesPhase'
    BY <1>14 DEF Tick, NoRoom, Unscored
  <1>15. CASE UNCHANGED vars
    BY <1>15 DEF vars, Unscored
  <1> QED
    BY <1>1, <1>2, <1>3, <1>4, <1>5, <1>6, <1>7, <1>8, <1>9, <1>10, <1>11, <1>12,
       <1>13, <1>14, <1>15 DEF Next, Lifecycle, GameFlow, Scoring

\* Joining and leaving move the counter, the roster, the bots and the scores
\* together.
LEMMA SeatTaken ==
    ASSUME IInv, NEW p \in Players, p \notin roster,
           Cardinality(roster) < room.capacity,
           NEW R \in RoomHash, R.members = room.members + 1, R.capacity = room.capacity,
           room' = R, roster' = roster \cup {p}, scores' = [scores EXCEPT ![p] = 0],
           bots' = IF p \in Bots THEN bots \cup {p} ELSE bots
    PROVE  SeatsAgree'
  <1> USE DEF IInv
  <1>1. IsFiniteSet(roster) /\ Cardinality(roster) \in Nat
    BY RosterIsFinite
  <1>2. Cardinality(roster') = Cardinality(roster) + 1
    BY <1>1, FS_AddElement
  <1>3. room'.members = Cardinality(roster') /\ Cardinality(roster') <= room'.capacity
    BY <1>1, <1>2 DEF SeatsAgree, RoomHash
  <1>4. bots' = roster' \cap Bots
    BY DEF SeatsAgree
  <1>5. \A q \in Players : scores'[q] # Absent <=> q \in roster'
    BY DEF SeatsAgree, TypeOK, Absent
  <1> QED BY <1>3, <1>4, <1>5 DEF SeatsAgree

\* The same for one who leaves or is removed.
LEMMA SeatLeft ==
    ASSUME IInv, NEW p \in Players, p \in roster,
           NEW R \in RoomHash, R.members = room.members - 1, R.capacity = room.capacity,
           room' = R, roster' = roster \ {p}, bots' = bots \ {p},
           scores' = [scores EXCEPT ![p] = Absent]
    PROVE  SeatsAgree'
  <1> USE DEF IInv
  <1>1. IsFiniteSet(roster) /\ Cardinality(roster) \in Nat
    BY RosterIsFinite
  <1>2. Cardinality(roster') = Cardinality(roster) - 1
    BY <1>1, FS_RemoveElement
  <1>3. room'.members = Cardinality(roster') /\ Cardinality(roster') <= room'.capacity
    BY <1>1, <1>2 DEF SeatsAgree, RoomHash
  <1>4. bots' = roster' \cap Bots
    BY DEF SeatsAgree
  <1>5. \A q \in Players : scores'[q] # Absent <=> q \in roster'
    BY DEF SeatsAgree, TypeOK
  <1> QED BY <1>3, <1>4, <1>5 DEF SeatsAgree

\* An erased family has no seats to disagree about.
LEMMA NoSeats ==
    ASSUME room' = NoRoom, roster' = {}, bots' = {}, scores' = NoScores
    PROVE  SeatsAgree'
  BY FS_EmptySet DEF SeatsAgree, NoRoom, NoScores

\* A step that moves no seat and no score field disturbs no seat.
LEMMA SameSeats ==
    ASSUME SeatsAgree, UNCHANGED <<roster, bots>>,
           room'.members = room.members, room'.capacity = room.capacity,
           \A p \in Players : scores'[p] # Absent <=> scores[p] # Absent
    PROVE  SeatsAgree'
  BY DEF SeatsAgree

\* A sheet is written by CONFIRM_SCORE and erased by CLOSE and by time.
LEMMA SheetWriters ==
    ASSUME TypeOK, [Next]_vars, NEW g \in GameIds, NEW p \in Players
    PROVE  \/ sheet'[g][p] = sheet[g][p]
           \/ sheet'[g][p] = NoSheet
           \/ \E r \in Rounds, c \in Categories, d \in Dices :
                 /\ ConfirmGuard(g, p, r, c)
                 /\ sheet'[g][p] = Scored(sheet[g][p], r, c, d)
  <1>1. CASE Scoring
    <2>1. PICK h \in GameIds, q \in Players, r \in Rounds, c \in Categories, d \in Dices :
              ConfirmScore(h, q, r, c, d)
      BY <1>1 DEF Scoring
    <2>2. sheet \in [GameIds -> [Players -> SheetHash]]
      BY DEF TypeOK
    <2> QED BY <2>1, <2>2 DEF ConfirmScore
  <1>2. CASE Close \/ Tick
    BY <1>2 DEF Close, Tick
  <1>3. ASSUME Next, ~ Scoring, ~ Close, ~ Tick
        PROVE  sheet' = sheet
    BY <1>3 DEF Next, Lifecycle, GameFlow, Create, Join, Leave, BotAdd, BotRemove, Start,
       RollbackStart, CancelActiveGame, ReturnToLobby, FinishIfComplete, Touch,
       InLobby, SeatFree, Aligned, Playing, BackInLobby, SheetTouched
  <1> QED BY <1>1, <1>2, <1>3 DEF vars

\* Every step keeps the totals above their bonus.
LEMMA TotalsStep == IInv /\ [Next]_vars => TotalsCoverBonus'
  <1> SUFFICES ASSUME IInv, [Next]_vars, NEW g \in GameIds, NEW p \in Players
               PROVE  sheet'[g][p].total >= sheet'[g][p].bonus
    BY DEF TotalsCoverBonus
  <1>0. /\ sheet[g][p].total \in Int /\ sheet[g][p].bonus \in Nat
        /\ sheet[g][p].total >= sheet[g][p].bonus
        /\ NoSheet.total >= NoSheet.bonus
    <2>1. sheet[g][p] \in SheetHash
      BY DEF IInv, TypeOK
    <2> QED BY <2>1, ScoreAssumption DEF IInv, TotalsCoverBonus, SheetHash, NoSheet
  <1>1. ASSUME NEW r \in Rounds, NEW c \in Categories, NEW d \in Dices,
               sheet'[g][p] = Scored(sheet[g][p], r, c, d)
        PROVE  sheet'[g][p].total >= sheet'[g][p].bonus
    <2> DEFINE score == ScoreOf[<<c, d>>]
               upper == sheet[g][p].upper + (IF c \in UpperCategories THEN score ELSE 0)
               bonus == IF upper >= BonusFrom THEN Bonus ELSE 0
    <2>1. score \in Nat /\ bonus \in Nat
      BY ScoreAssumption
    <2>2. /\ sheet'[g][p].bonus = bonus
          /\ sheet'[g][p].total = sheet[g][p].total + score + bonus - sheet[g][p].bonus
      BY <1>1 DEF Scored
    <2> HIDE DEF score, bonus
    <2> QED BY <1>0, <2>1, <2>2
  <1> QED BY <1>0, <1>1, SheetWriters DEF IInv

\* A tick makes the whole family of the room older, or takes all of it away.
LEMMA FamilyAges ==
    ASSUME IInv, Tick
    PROVE  \/ /\ room' = NoRoom /\ roster' = {} /\ bots' = {} /\ scores' = NoScores
              /\ ttl'.room = 0 /\ ttl'.players = 0 /\ ttl'.scores = 0 /\ ttl'.bots = 0
           \/ /\ UNCHANGED <<room, roster, bots, scores>>
              /\ ttl'.room = Aged(ttl.room) /\ ttl'.room \in 1 .. MaxTtl
              /\ ttl'.players = KeyOf(roster, ttl'.room)
              /\ ttl'.scores = KeyOf(roster, ttl'.room)
              /\ ttl'.bots = KeyOf(bots, ttl'.room)
  <1> USE RuleAssumption DEF IInv
  <1>1. ttl.room \in 0 .. MaxTtl
    BY DEF TypeOK, KeyTimes, Ttl, Forever, NoHalfRoom
  <1>2. /\ ttl'.room = Aged(ttl.room) /\ ttl'.players = Aged(ttl.players)
        /\ ttl'.scores = Aged(ttl.scores) /\ ttl'.bots = Aged(ttl.bots)
        /\ room' = IF ttl'.room = 0 THEN NoRoom ELSE room
        /\ roster' = IF ttl'.players = 0 THEN {} ELSE roster
        /\ bots' = IF ttl'.bots = 0 THEN {} ELSE bots
        /\ scores' = IF ttl'.scores = 0 THEN NoScores ELSE scores
    BY DEF Tick
  <1>3. Aged(0) = 0
    BY DEF Aged
  <1>4. /\ ttl'.players = KeyOf(roster, ttl'.room)
        /\ ttl'.scores = KeyOf(roster, ttl'.room)
        /\ ttl'.bots = KeyOf(bots, ttl'.room)
    BY <1>2, <1>3 DEF NoHalfRoom, KeyOf
  <1>5. /\ roster = {} => bots = {} /\ scores = NoScores
        /\ bots \subseteq roster
    BY DEF SeatsAgree, TypeOK, NoScores
  <1>6. CASE ttl'.room = 0
    BY <1>2, <1>4, <1>6 DEF KeyOf
  <1>7. CASE ttl'.room # 0
    <2>1. ttl'.room \in 1 .. MaxTtl
      BY <1>1, <1>2, <1>7 DEF Aged
    <2>2. UNCHANGED <<room, roster, bots, scores>>
      BY <1>2, <1>4, <1>5, <1>7 DEF KeyOf
    <2> QED BY <1>2, <1>4, <2>1, <2>2
  <1> QED BY <1>6, <1>7

\* Every step preserves the agreement of counter, roster, bots and scores.
LEMMA SeatsStep == IInv /\ [Next]_vars => SeatsAgree'
  <1> SUFFICES ASSUME IInv, [Next]_vars PROVE SeatsAgree'
    OBVIOUS
  <1> USE DEF IInv
  <1>0. TypeOK'
    BY TypeStep
  <1>1. ASSUME NEW h \in Humans, NEW n \in Capacities, NEW m \in Modes, Create(h, n, m)
        PROVE  SeatsAgree'
    <2>1. roster = {} /\ bots = {}
      BY <1>1 DEF Create, NoHalfRoom, SeatsAgree
    <2> QED BY <1>1, <2>1, FS_EmptySet, RuleAssumption DEF Create, SeatsAgree
  <1>2. ASSUME NEW p \in Humans, Join(p)
        PROVE  SeatsAgree'
    <2>1. p \in Players /\ p \notin Bots
      BY IdsAssumption DEF Players
    <2>2. room' \in RoomHash
      BY <1>0 DEF TypeOK
    <2>3. room'.members = room.members + 1 /\ room'.capacity = room.capacity
      BY <1>2 DEF Join, TypeOK, RoomHash, InLobby, SeatFree, Aligned
    <2>4. /\ roster' = roster \cup {p}
          /\ scores' = [scores EXCEPT ![p] = 0] /\ bots' = bots
          /\ p \notin roster /\ Cardinality(roster) < room.capacity
      BY <1>2 DEF Join, InLobby, SeatFree, Aligned
    <2> QED BY <2>1, <2>2, <2>3, <2>4, SeatTaken
  <1>3. ASSUME NEW p \in Humans, Leave(p)
        PROVE  SeatsAgree'
    <2>1. CASE room.members - 1 <= 0 /\ room.mode # "PARTY"
      BY <1>3, <2>1, NoSeats DEF Leave, DropFamily
    <2>2. CASE ~ (room.members - 1 <= 0 /\ room.mode # "PARTY")
      <3>1. p \in Players /\ room' \in RoomHash
        BY <1>0 DEF Players, TypeOK
      <3>2. room'.members = room.members - 1 /\ room'.capacity = room.capacity
        BY <1>3, <2>2 DEF Leave, TypeOK, RoomHash
      <3>3. /\ p \in roster /\ roster' = roster \ {p} /\ bots' = bots \ {p}
            /\ scores' = [scores EXCEPT ![p] = Absent]
        BY <1>3, <2>2 DEF Leave
      <3> QED BY <3>1, <3>2, <3>3, SeatLeft
    <2> QED BY <2>1, <2>2
  <1>4. ASSUME Close PROVE SeatsAgree'
    BY <1>4, NoSeats DEF Close, DropFamily
  <1>5. ASSUME NEW h \in Humans, NEW b \in Bots, BotAdd(h, b)
        PROVE  SeatsAgree'
    <2>1. b \in Players /\ room' \in RoomHash
      BY <1>0 DEF Players, TypeOK
    <2>2. room'.members = room.members + 1 /\ room'.capacity = room.capacity
      BY <1>5 DEF BotAdd, TypeOK, RoomHash, InLobby, SeatFree, Aligned
    <2>3. /\ roster' = roster \cup {b} /\ bots' = bots \cup {b}
          /\ scores' = [scores EXCEPT ![b] = 0]
          /\ b \notin roster /\ Cardinality(roster) < room.capacity
      BY <1>5 DEF BotAdd, InLobby, SeatFree, Aligned
    <2> QED BY <2>1, <2>2, <2>3, SeatTaken
  <1>6. ASSUME NEW h \in Humans, NEW b \in Bots, BotRemove(h, b)
        PROVE  SeatsAgree'
    <2>1. b \in Players /\ room' \in RoomHash
      BY <1>0 DEF Players, TypeOK
    <2>2. room'.members = room.members - 1 /\ room'.capacity = room.capacity
      BY <1>6 DEF BotRemove, TypeOK, RoomHash, InLobby
    <2>3. /\ roster' = roster \ {b} /\ bots' = bots \ {b}
          /\ scores' = [scores EXCEPT ![b] = Absent]
          /\ b \in roster
      BY <1>6 DEF BotRemove, SeatsAgree, InLobby
    <2> QED BY <2>1, <2>2, <2>3, SeatLeft
  <1>7. ASSUME NEW g \in GameIds, Start(g)
        PROVE  SeatsAgree'
    BY <1>7, SameSeats DEF Start, TypeOK, RoomHash, InLobby
  <1>8. ASSUME NEW g \in GameIds, RollbackStart(g)
        PROVE  SeatsAgree'
    BY <1>8, SameSeats DEF RollbackStart, TypeOK, RoomHash, Playing, BackInLobby
  <1>9. ASSUME CancelActiveGame PROVE SeatsAgree'
    BY <1>9, SameSeats DEF CancelActiveGame, TypeOK, RoomHash, BackInLobby
  <1>10. ASSUME ReturnToLobby PROVE SeatsAgree'
    <2>1. \A p \in Players : scores'[p] # Absent <=> scores[p] # Absent
      BY <1>10 DEF ReturnToLobby, ResetScores, SeatsAgree, Absent, BackInLobby
    <2> QED BY <1>10, <2>1, SameSeats DEF ReturnToLobby, TypeOK, RoomHash, BackInLobby
  <1>11. ASSUME NEW g \in GameIds, NEW force \in BOOLEAN, FinishIfComplete(g, force)
         PROVE  SeatsAgree'
    BY <1>11, SameSeats DEF FinishIfComplete, TypeOK, RoomHash, Playing
  <1>12. ASSUME NEW g \in GameIds, NEW p \in Players, NEW r \in Rounds,
                NEW c \in Categories, NEW d \in Dices, ConfirmScore(g, p, r, c, d)
         PROVE  SeatsAgree'
    <2>1. scores[p] # Absent
      BY <1>12 DEF ConfirmScore, ConfirmGuard, SeatsAgree, Playing
    <2>2. scores'[p] # Absent
      <3>1. sheet'[g][p].total \in Int /\ sheet'[g][p].bonus \in Nat
        <4>1. sheet'[g][p] \in SheetHash
          BY <1>0 DEF TypeOK
        <4> QED BY <4>1, ScoreAssumption DEF SheetHash
      <3>2. sheet'[g][p].total >= sheet'[g][p].bonus
        BY TotalsStep DEF TotalsCoverBonus
      <3>3. scores'[p] = sheet'[g][p].total
        BY <1>12 DEF ConfirmScore, TypeOK
      <3> QED BY <3>1, <3>2, <3>3 DEF Absent
    <2>3. \A q \in Players \ {p} : scores'[q] = scores[q]
      BY <1>12 DEF ConfirmScore, TypeOK
    <2> QED BY <1>12, <2>1, <2>2, <2>3, SameSeats DEF ConfirmScore, TypeOK
  <1>13. ASSUME Touch PROVE SeatsAgree'
    BY <1>13, SameSeats DEF Touch, SheetTouched
  <1>14. ASSUME Tick PROVE SeatsAgree'
    BY <1>14, FamilyAges, NoSeats, SameSeats
  <1>15. CASE UNCHANGED vars
    BY <1>15, SameSeats DEF vars
  <1> QED
    BY <1>1, <1>2, <1>3, <1>4, <1>5, <1>6, <1>7, <1>8, <1>9, <1>10, <1>11, <1>12,
       <1>13, <1>14, <1>15 DEF Next, Lifecycle, GameFlow, Scoring

\* Every step preserves that the host is a seated human while there is one.
LEMMA HostStep == IInv /\ [Next]_vars => HumanHost'
  <1> SUFFICES ASSUME IInv, [Next]_vars PROVE HumanHost'
    OBVIOUS
  <1> USE IdsAssumption DEF IInv, NoOne
  <1>0. ASSUME room'.hostId = room.hostId, roster' \cap Humans = roster \cap Humans
        PROVE  HumanHost'
    BY <1>0 DEF HumanHost
  <1>gone. ASSUME room' = NoRoom, roster' = {}
           PROVE  HumanHost'
    BY <1>gone DEF HumanHost, NoRoom
  <1>1. ASSUME NEW h \in Humans, NEW n \in Capacities, NEW m \in Modes, Create(h, n, m)
        PROVE  HumanHost'
    BY <1>1 DEF Create, HumanHost, NoHalfRoom
  <1>2. ASSUME NEW p \in Humans, Join(p)
        PROVE  HumanHost'
    <2>1. CASE room.hostId = NoOne \/ room.hostId \notin roster'
      <3>1. room'.hostId = p
        BY <1>2, <2>1 DEF Join, TypeOK, RoomHash, InLobby, SeatFree, Aligned
      <3> QED BY <1>2, <3>1 DEF Join, HumanHost, InLobby, SeatFree, Aligned
    <2>2. CASE ~ (room.hostId = NoOne \/ room.hostId \notin roster')
      <3>1. room'.hostId = room.hostId
        BY <1>2, <2>2 DEF Join, TypeOK, RoomHash, InLobby, SeatFree, Aligned
      <3> QED BY <2>2, <3>1 DEF HumanHost
    <2> QED BY <2>1, <2>2
  <1>3. ASSUME NEW p \in Humans, Leave(p)
        PROVE  HumanHost'
    <2>1. CASE room.members - 1 <= 0 /\ room.mode # "PARTY"
      BY <1>3, <2>1, <1>gone DEF Leave, DropFamily
    <2>2. CASE ~ (room.members - 1 <= 0 /\ room.mode # "PARTY")
      <3> DEFINE left == roster \ {p}
      <3>1. roster' = left
        BY <1>3, <2>2 DEF Leave
      <3>2. left \ bots = left \cap Humans
        BY DEF SeatsAgree, TypeOK, Players
      <3>3. CASE room.hostId # p
        <4>1. room'.hostId = room.hostId
          BY <1>3, <2>2, <3>3 DEF Leave, TypeOK, RoomHash
        <4> QED BY <3>1, <3>3, <4>1 DEF HumanHost
      <3>4. CASE room.hostId = p
        <4>1. room'.hostId = Heir(left)
          BY <1>3, <2>2, <3>4 DEF Leave, TypeOK, RoomHash
        <4>2. CASE left \ bots = {}
          BY <3>1, <3>2, <4>1, <4>2 DEF Heir, HumanHost
        <4>3. CASE left \ bots # {}
          <5>1. Heir(left) \in left \ bots
            BY <4>3, HeirIsLeft DEF TypeOK
          <5> QED BY <3>1, <3>2, <4>1, <5>1 DEF HumanHost
        <4> QED BY <4>2, <4>3
      <3> QED BY <3>3, <3>4
    <2> QED BY <2>1, <2>2
  <1>4. ASSUME Close PROVE HumanHost'
    BY <1>4, <1>gone DEF Close, DropFamily
  <1>5. ASSUME NEW h \in Humans, NEW b \in Bots, BotAdd(h, b)
        PROVE  HumanHost'
    BY <1>5, <1>0 DEF BotAdd, TypeOK, RoomHash, InLobby, SeatFree, Aligned
  <1>6. ASSUME NEW h \in Humans, NEW b \in Bots, BotRemove(h, b)
        PROVE  HumanHost'
    BY <1>6, <1>0 DEF BotRemove, TypeOK, RoomHash, InLobby
  <1>7. ASSUME NEW g \in GameIds, Start(g)
        PROVE  HumanHost'
    BY <1>7, <1>0 DEF Start, TypeOK, RoomHash, InLobby
  <1>8. ASSUME NEW g \in GameIds, RollbackStart(g)
        PROVE  HumanHost'
    BY <1>8, <1>0 DEF RollbackStart, TypeOK, RoomHash, Playing, BackInLobby
  <1>9. ASSUME CancelActiveGame PROVE HumanHost'
    BY <1>9, <1>0 DEF CancelActiveGame, TypeOK, RoomHash, BackInLobby
  <1>10. ASSUME ReturnToLobby PROVE HumanHost'
    BY <1>10, <1>0 DEF ReturnToLobby, TypeOK, RoomHash, BackInLobby
  <1>11. ASSUME NEW g \in GameIds, NEW force \in BOOLEAN, FinishIfComplete(g, force)
         PROVE  HumanHost'
    BY <1>11, <1>0 DEF FinishIfComplete, TypeOK, RoomHash, Playing
  <1>12. ASSUME NEW g \in GameIds, NEW p \in Players, NEW r \in Rounds,
                NEW c \in Categories, NEW d \in Dices, ConfirmScore(g, p, r, c, d)
         PROVE  HumanHost'
    BY <1>12, <1>0 DEF ConfirmScore
  <1>13. ASSUME Touch PROVE HumanHost'
    BY <1>13, <1>0 DEF Touch, SheetTouched
  <1>14. ASSUME Tick PROVE HumanHost'
    BY <1>14, FamilyAges, <1>0, <1>gone
  <1>15. CASE UNCHANGED vars
    BY <1>15, <1>0 DEF vars
  <1> QED
    BY <1>1, <1>2, <1>3, <1>4, <1>5, <1>6, <1>7, <1>8, <1>9, <1>10, <1>11, <1>12,
       <1>13, <1>14, <1>15 DEF Next, Lifecycle, GameFlow, Scoring

\* What a room without a game must still show of its keys.
LEMMA NoGameNoHalfRoom ==
    ASSUME room'.gameId = NoGame, room'.phase # "NONE",
           ttl'.room # 0, ttl'.room # Forever,
           ttl'.players = KeyOf(roster', ttl'.room),
           ttl'.scores = KeyOf(roster', ttl'.room),
           ttl'.bots = KeyOf(bots', ttl'.room)
    PROVE  NoHalfRoom'
  BY DEF NoHalfRoom, Exists, KeyOf

\* An erased family is no half room.
LEMMA GoneNoHalfRoom ==
    ASSUME room' = NoRoom, roster' = {}, bots' = {},
           ttl'.room = 0, ttl'.players = 0, ttl'.scores = 0, ttl'.bots = 0
    PROVE  NoHalfRoom'
  BY RuleAssumption DEF NoHalfRoom, Exists, KeyOf, NoRoom, Forever

\* Every step preserves that the keys of a room live and die together.
LEMMA FamilyStep == IInv /\ [Next]_vars => NoHalfRoom'
  <1> SUFFICES ASSUME IInv, [Next]_vars PROVE NoHalfRoom'
    OBVIOUS
  <1> USE RuleAssumption DEF IInv
  <1>0. /\ room \in RoomHash /\ ttl \in KeyTimes
        /\ ttl.room \in 0 .. MaxTtl
        /\ ttl.room = 0 <=> room.phase = "NONE"
        /\ room.phase = "LOBBY" => room.gameId = NoGame
        /\ ttl.players = KeyOf(roster, ttl.room)
        /\ ttl.scores = KeyOf(roster, ttl.room)
        /\ ttl.bots = KeyOf(bots, ttl.room)
        /\ bots \subseteq roster
    BY DEF TypeOK, KeyTimes, Ttl, Forever, NoHalfRoom, GameMatchesPhase, SeatsAgree, Exists
  <1>1. ASSUME NEW h \in Humans, NEW n \in Capacities, NEW m \in Modes, Create(h, n, m)
        PROVE  NoHalfRoom'
    <2>1. roster = {} /\ bots = {}
      BY <1>1, <1>0 DEF Create, NoHalfRoom
    <2>2. ttl'.room = MaxTtl /\ ttl'.players = 0 /\ ttl'.scores = 0 /\ ttl'.bots = 0
      BY <1>1, <1>0, <2>1 DEF Create, KeyTimes, KeyOf
    <2> QED BY <1>1, <2>1, <2>2, NoGameNoHalfRoom DEF Create, KeyOf, Forever
  <1>2. ASSUME NEW p \in Humans, Join(p)
        PROVE  NoHalfRoom'
    <2>1. room'.gameId = NoGame /\ room'.phase = "LOBBY" /\ ttl.room # 0
      BY <1>2, <1>0 DEF Join, RoomHash, InLobby, SeatFree, Aligned
    <2>2. /\ ttl'.room = ttl.room /\ ttl'.players = ttl.room /\ ttl'.scores = ttl.room
          /\ ttl'.bots = KeyOf(bots, ttl.room)
      BY <1>2, <1>0 DEF Join, AlignBots, KeyTimes, InLobby, SeatFree, Aligned
    <2>3. roster' # {} /\ bots' = bots
      BY <1>2 DEF Join, InLobby, SeatFree, Aligned
    <2> QED BY <1>0, <2>1, <2>2, <2>3, NoGameNoHalfRoom DEF KeyOf, Forever
  <1>3. ASSUME NEW p \in Humans, Leave(p)
        PROVE  NoHalfRoom'
    <2>1. CASE room.members - 1 <= 0 /\ room.mode # "PARTY"
      BY <1>3, <2>1, <1>0, GoneNoHalfRoom DEF Leave, DropFamily, KeyTimes
    <2>2. CASE ~ (room.members - 1 <= 0 /\ room.mode # "PARTY")
      <3>1. /\ p \in roster /\ roster' = roster \ {p} /\ bots' = bots \ {p}
            /\ sheet' = sheet
        BY <1>3, <2>2 DEF Leave
      <3>2. /\ room'.gameId = room.gameId /\ room'.phase = room.phase
            /\ room.phase # "NONE"
        BY <1>3, <2>2, <1>0 DEF Leave, RoomHash, Exists
      <3>3. /\ ttl'.room = ttl.room /\ ttl'.game = ttl.game /\ ttl'.sheet = ttl.sheet
            /\ ttl'.players = KeyOf(roster', ttl.players)
            /\ ttl'.scores = KeyOf(roster', ttl.scores)
            /\ ttl'.bots = KeyOf(bots', ttl.bots)
        BY <1>3, <2>2, <1>0, <3>1 DEF Leave, KeyTimes
      <3>4. /\ ttl'.players = KeyOf(roster', ttl'.room)
            /\ ttl'.scores = KeyOf(roster', ttl'.room)
            /\ ttl'.bots = KeyOf(bots', ttl'.room)
        BY <1>0, <3>1, <3>3 DEF KeyOf
      <3> QED BY <1>0, <3>1, <3>2, <3>3, <3>4 DEF NoHalfRoom, Exists
    <2> QED BY <2>1, <2>2
  <1>4. ASSUME Close PROVE NoHalfRoom'
    BY <1>4, GoneNoHalfRoom DEF Close, DropFamily
  <1>5. ASSUME NEW h \in Humans, NEW b \in Bots, BotAdd(h, b)
        PROVE  NoHalfRoom'
    <2>1. room'.gameId = NoGame /\ room'.phase = "LOBBY" /\ ttl.room # 0
      BY <1>5, <1>0 DEF BotAdd, RoomHash, InLobby, SeatFree, Aligned
    <2>2. /\ ttl'.room = ttl.room /\ ttl'.players = ttl.room /\ ttl'.scores = ttl.room
          /\ ttl'.bots = KeyOf(bots', ttl.room)
      BY <1>5, <1>0 DEF BotAdd, Aligned, KeyTimes
    <2>3. roster' # {} /\ bots' # {}
      BY <1>5 DEF BotAdd, InLobby, SeatFree, Aligned
    <2> QED BY <1>0, <2>1, <2>2, <2>3, NoGameNoHalfRoom DEF KeyOf, Forever
  <1>6. ASSUME NEW h \in Humans, NEW b \in Bots, BotRemove(h, b)
        PROVE  NoHalfRoom'
    <2>1. room'.gameId = NoGame /\ room'.phase = "LOBBY" /\ ttl.room # 0
      BY <1>6, <1>0 DEF BotRemove, RoomHash, InLobby
    <2>2. /\ ttl'.room = ttl.room
          /\ ttl'.players = KeyOf(roster', ttl.players)
          /\ ttl'.scores = KeyOf(roster', ttl.scores)
          /\ ttl'.bots = KeyOf(bots', ttl.bots)
      BY <1>6, <1>0 DEF BotRemove, KeyTimes, InLobby
    <2>3. /\ ttl'.players = KeyOf(roster', ttl'.room)
          /\ ttl'.scores = KeyOf(roster', ttl'.room)
          /\ ttl'.bots = KeyOf(bots', ttl'.room)
      BY <1>6, <1>0, <2>2 DEF BotRemove, KeyOf, InLobby
    <2> QED BY <1>0, <2>1, <2>2, <2>3, NoGameNoHalfRoom DEF Forever
  <1>7. ASSUME NEW g \in GameIds, Start(g)
        PROVE  NoHalfRoom'
    <2>1. room'.gameId = g /\ room'.phase = "PLAYING" /\ ttl.room # 0
      BY <1>7, <1>0 DEF Start, RoomHash, InLobby
    <2>2. /\ ttl'.room = ttl.room /\ ttl'.players = ttl.players
          /\ ttl'.scores = ttl.scores /\ ttl'.bots = KeyOf(bots, ttl.room)
          /\ ttl'.game[g] = ttl.room
      BY <1>7, <1>0 DEF Start, AlignBots, KeyTimes, InLobby
    <2>3. \A p \in Players : sheet'[g][p] = NoSheet
      BY <1>7 DEF Start, GameMatchesPhase, Unscored, InLobby
    <2>4. roster' = roster /\ bots' = bots /\ roster \subseteq Players
      BY <1>7 DEF Start, TypeOK, InLobby
    <2> QED BY <1>0, <2>1, <2>2, <2>3, <2>4 DEF NoHalfRoom, Exists, Forever
  <1>8. ASSUME NEW g \in GameIds, RollbackStart(g)
        PROVE  NoHalfRoom'
    <2>1. room'.gameId = NoGame /\ room'.phase = "LOBBY" /\ ttl.room # 0
      BY <1>8, <1>0 DEF RollbackStart, RoomHash, Playing, BackInLobby
    <2>2. /\ ttl'.room = ttl.room /\ ttl'.players = ttl.players
          /\ ttl'.scores = ttl.scores /\ ttl'.bots = ttl.bots
      BY <1>8, <1>0 DEF RollbackStart, KeyTimes, Playing, BackInLobby
    <2> QED BY <1>0, <1>8, <2>1, <2>2, NoGameNoHalfRoom DEF RollbackStart, Forever,
           Playing, BackInLobby
  <1>9. ASSUME CancelActiveGame PROVE NoHalfRoom'
    <2>1. room'.gameId = NoGame /\ room'.phase = "LOBBY" /\ ttl.room # 0
      BY <1>9, <1>0 DEF CancelActiveGame, RoomHash, BackInLobby
    <2>2. /\ ttl'.room = ttl.room /\ ttl'.players = ttl.players
          /\ ttl'.scores = ttl.scores /\ ttl'.bots = ttl.bots
      BY <1>9, <1>0 DEF CancelActiveGame, KeyTimes, BackInLobby
    <2> QED BY <1>0, <1>9, <2>1, <2>2, NoGameNoHalfRoom DEF CancelActiveGame, Forever,
           BackInLobby
  <1>10. ASSUME ReturnToLobby PROVE NoHalfRoom'
    <2>1. room'.gameId = NoGame /\ room'.phase = "LOBBY" /\ ttl.room # 0
      BY <1>10, <1>0 DEF ReturnToLobby, RoomHash, BackInLobby
    <2>2. /\ ttl'.room = ttl.room /\ ttl'.players = ttl.players
          /\ ttl'.scores = KeyOf(roster, ttl.room) /\ ttl'.bots = KeyOf(bots, ttl.room)
      BY <1>10, <1>0 DEF ReturnToLobby, AlignBots, KeyTimes, BackInLobby
    <2> QED BY <1>0, <1>10, <2>1, <2>2, NoGameNoHalfRoom DEF ReturnToLobby, Forever,
           BackInLobby
  <1>11. ASSUME NEW g \in GameIds, NEW force \in BOOLEAN, FinishIfComplete(g, force)
         PROVE  NoHalfRoom'
    <2>1. room'.gameId = room.gameId /\ room'.phase = "FINISHED" /\ ttl.room # 0
      BY <1>11, <1>0 DEF FinishIfComplete, RoomHash, Playing
    <2> QED BY <1>0, <1>11, <2>1 DEF FinishIfComplete, NoHalfRoom, Exists, Forever, Playing
  <1>12. ASSUME NEW g \in GameIds, NEW p \in Players, NEW r \in Rounds,
                NEW c \in Categories, NEW d \in Dices, ConfirmScore(g, p, r, c, d)
         PROVE  NoHalfRoom'
    <2>1. /\ room.gameId = g /\ UNCHANGED <<room, roster, bots>>
          /\ \A q \in Players \ {p} : sheet'[g][q] = sheet[g][q]
      BY <1>12 DEF ConfirmScore, ConfirmGuard, TypeOK, Playing
    <2>2. /\ ttl'.room = ttl.room /\ ttl'.players = ttl.players
          /\ ttl'.scores = ttl.scores /\ ttl'.bots = ttl.bots /\ ttl'.game = ttl.game
          /\ ttl'.sheet[g][p] = ttl.game[g]
          /\ \A q \in Players \ {p} : ttl'.sheet[g][q] = ttl.sheet[g][q]
      BY <1>12, <1>0 DEF ConfirmScore, KeyTimes
    <2>3. g # NoGame
      BY IdsAssumption DEF NoGame
    <2> QED BY <2>1, <2>2, <2>3 DEF NoHalfRoom, TypeOK, Exists
  <1>13. ASSUME Touch PROVE NoHalfRoom'
    <2>1. /\ UNCHANGED <<room, roster, bots, sheet>> /\ room.phase # "NONE"
          /\ ttl.room # 0
      BY <1>13, <1>0 DEF Touch, Exists, SheetTouched
    <2>2. /\ ttl'.room = MaxTtl /\ ttl'.players = KeyOf(roster, MaxTtl)
          /\ ttl'.scores = KeyOf(roster, MaxTtl) /\ ttl'.bots = KeyOf(bots, MaxTtl)
      BY <1>13 DEF Touch, SheetTouched
    <2>3. room.gameId # NoGame => ttl'.game[room.gameId] = MaxTtl
      <3> SUFFICES ASSUME room.gameId # NoGame PROVE ttl'.game[room.gameId] = MaxTtl
        OBVIOUS
      <3>1. room.gameId \in GameIds /\ ttl.game[room.gameId] = ttl.room
        BY <1>0 DEF RoomHash, NoHalfRoom
      <3> QED BY <1>13, <1>0, <2>1, <3>1 DEF Touch, SheetTouched
    <2>4. \A p \in roster : room.gameId # NoGame /\ sheet[room.gameId][p] # NoSheet
                            => ttl'.sheet[room.gameId][p] = MaxTtl
      <3> SUFFICES ASSUME NEW p \in roster, room.gameId # NoGame,
                          sheet[room.gameId][p] # NoSheet
                   PROVE  ttl'.sheet[room.gameId][p] = MaxTtl
        OBVIOUS
      <3>1. /\ room.gameId \in GameIds /\ p \in Players
            /\ ttl.sheet[room.gameId][p] = ttl.room
        BY <1>0 DEF RoomHash, NoHalfRoom, TypeOK
      <3> QED BY <1>13, <1>0, <2>1, <3>1 DEF Touch, SheetTouched
    <2> QED BY <2>1, <2>2, <2>3, <2>4 DEF NoHalfRoom, Exists, Forever
  <1>14. ASSUME Tick PROVE NoHalfRoom'
    <2>1. CASE /\ room' = NoRoom /\ roster' = {} /\ bots' = {}
               /\ ttl'.room = 0 /\ ttl'.players = 0 /\ ttl'.scores = 0 /\ ttl'.bots = 0
      BY <2>1, GoneNoHalfRoom
    <2>2. CASE /\ UNCHANGED <<room, roster, bots, scores>>
               /\ ttl'.room = Aged(ttl.room) /\ ttl'.room \in 1 .. MaxTtl
               /\ ttl'.players = KeyOf(roster, ttl'.room)
               /\ ttl'.scores = KeyOf(roster, ttl'.room)
               /\ ttl'.bots = KeyOf(bots, ttl'.room)
      <3>1. /\ \A g \in GameIds : ttl'.game[g] = Aged(ttl.game[g])
            /\ \A g \in GameIds, p \in Players :
                  /\ ttl'.sheet[g][p] = Aged(ttl.sheet[g][p])
                  /\ sheet'[g][p] \in {NoSheet, sheet[g][p]}
        BY <1>14 DEF Tick
      <3>2. ttl.room # 0
        BY <2>2 DEF Aged
      <3>3. room.gameId \in GameIds \cup {NoGame} /\ roster \subseteq Players
        BY <1>0 DEF RoomHash, TypeOK
      <3>4. room.gameId # NoGame => ttl'.game[room.gameId] = ttl'.room
        BY <2>2, <3>1, <3>3 DEF NoHalfRoom
      <3>5. \A p \in roster : room.gameId # NoGame /\ sheet'[room.gameId][p] # NoSheet
                              => ttl'.sheet[room.gameId][p] = ttl'.room
        BY <2>2, <3>1, <3>3 DEF NoHalfRoom
      <3> QED BY <1>0, <2>2, <3>2, <3>4, <3>5 DEF NoHalfRoom, Exists, Forever
    <2> QED BY <1>14, <2>1, <2>2, FamilyAges
  <1>15. CASE UNCHANGED vars
    BY <1>15 DEF vars, NoHalfRoom, Exists
  <1> QED
    BY <1>1, <1>2, <1>3, <1>4, <1>5, <1>6, <1>7, <1>8, <1>9, <1>10, <1>11, <1>12,
       <1>13, <1>14, <1>15 DEF Next, Lifecycle, GameFlow, Scoring

\* Every step preserves that :scores holds the totals of the current game.
LEMMA ScoresStep == IInv /\ [Next]_vars => ScoresOfThisGame'
  <1> SUFFICES ASSUME IInv, [Next]_vars PROVE ScoresOfThisGame'
    OBVIOUS
  <1> USE DEF IInv
  <1>0. /\ room \in RoomHash /\ roster \subseteq Players /\ scores \in [Players -> Int]
        /\ room.phase = "LOBBY" => room.gameId = NoGame
        /\ NoGame \notin GameIds /\ NoSheet.total = 0
    BY IdsAssumption DEF TypeOK, GameMatchesPhase, NoGame, NoSheet
  <1>empty. ASSUME roster' = {} PROVE ScoresOfThisGame'
    BY <1>empty DEF ScoresOfThisGame
  <1>same. ASSUME room'.gameId = room.gameId, roster' \subseteq roster, sheet' = sheet,
                  \A p \in roster' : scores'[p] = scores[p]
           PROVE  ScoresOfThisGame'
    BY <1>same DEF ScoresOfThisGame
  <1>lobby. ASSUME room'.gameId = NoGame, \A p \in roster' : scores'[p] = 0
            PROVE  ScoresOfThisGame'
    BY <1>lobby DEF ScoresOfThisGame
  <1>1. ASSUME NEW h \in Humans, NEW n \in Capacities, NEW m \in Modes, Create(h, n, m)
        PROVE  ScoresOfThisGame'
    BY <1>1, <1>empty DEF Create, NoHalfRoom
  <1>2. ASSUME NEW p \in Humans, Join(p)
        PROVE  ScoresOfThisGame'
    <2>1. room.gameId = NoGame /\ room'.gameId = NoGame
      BY <1>2, <1>0 DEF Join, RoomHash, InLobby, SeatFree, Aligned
    <2>2. \A q \in roster' : scores'[q] = 0
      <3>1. \A q \in roster : scores[q] = 0
        BY <2>1 DEF ScoresOfThisGame
      <3>2. /\ p \in Players /\ roster' = roster \cup {p}
            /\ scores' = [scores EXCEPT ![p] = 0]
        BY <1>2 DEF Join, Players, InLobby, SeatFree, Aligned
      <3> QED BY <1>0, <3>1, <3>2
    <2> QED BY <2>1, <2>2, <1>lobby
  <1>3. ASSUME NEW p \in Humans, Leave(p)
        PROVE  ScoresOfThisGame'
    <2>1. CASE room.members - 1 <= 0 /\ room.mode # "PARTY"
      BY <1>3, <2>1, <1>empty DEF Leave, DropFamily
    <2>2. CASE ~ (room.members - 1 <= 0 /\ room.mode # "PARTY")
      <3>1. /\ roster' = roster \ {p} /\ scores' = [scores EXCEPT ![p] = Absent]
            /\ sheet' = sheet
        BY <1>3, <2>2 DEF Leave
      <3>2. room'.gameId = room.gameId
        BY <1>3, <2>2, <1>0 DEF Leave, RoomHash
      <3>3. \A q \in roster' : scores'[q] = scores[q]
        BY <1>0, <3>1
      <3> QED BY <3>1, <3>2, <3>3, <1>same
    <2> QED BY <2>1, <2>2
  <1>4. ASSUME Close PROVE ScoresOfThisGame'
    BY <1>4, <1>empty DEF Close, DropFamily
  <1>5. ASSUME NEW h \in Humans, NEW b \in Bots, BotAdd(h, b)
        PROVE  ScoresOfThisGame'
    <2>1. room.gameId = NoGame /\ room'.gameId = NoGame
      BY <1>5, <1>0 DEF BotAdd, RoomHash, InLobby, SeatFree, Aligned
    <2>2. \A q \in roster' : scores'[q] = 0
      <3>1. \A q \in roster : scores[q] = 0
        BY <2>1 DEF ScoresOfThisGame
      <3>2. /\ b \in Players /\ roster' = roster \cup {b}
            /\ scores' = [scores EXCEPT ![b] = 0]
        BY <1>5 DEF BotAdd, Players, InLobby, SeatFree, Aligned
      <3> QED BY <1>0, <3>1, <3>2
    <2> QED BY <2>1, <2>2, <1>lobby
  <1>6. ASSUME NEW h \in Humans, NEW b \in Bots, BotRemove(h, b)
        PROVE  ScoresOfThisGame'
    <2>1. room.gameId = NoGame /\ room'.gameId = NoGame
      BY <1>6, <1>0 DEF BotRemove, RoomHash, InLobby
    <2>2. \A q \in roster' : scores'[q] = 0
      BY <1>6, <1>0, <2>1 DEF BotRemove, ScoresOfThisGame, InLobby
    <2> QED BY <2>1, <2>2, <1>lobby
  <1>7. ASSUME NEW g \in GameIds, Start(g)
        PROVE  ScoresOfThisGame'
    <2>1. room.gameId = NoGame /\ room'.gameId = g /\ g # NoGame
      BY <1>7, <1>0 DEF Start, RoomHash, InLobby
    <2>2. \A p \in roster : sheet[g][p].total = 0 /\ scores[p] = 0
      BY <1>7, <1>0, <2>1 DEF Start, GameMatchesPhase, Unscored, ScoresOfThisGame, InLobby
    <2> QED BY <1>7, <2>1, <2>2 DEF Start, ScoresOfThisGame, InLobby
  <1>8. ASSUME NEW g \in GameIds, RollbackStart(g)
        PROVE  ScoresOfThisGame'
    <2>1. room.gameId = g /\ g # NoGame /\ room'.gameId = NoGame
      BY <1>8, <1>0 DEF RollbackStart, RoomHash, Playing, BackInLobby
    <2>2. \A p \in roster : scores[p] = 0
      BY <1>8, <1>0, <2>1 DEF RollbackStart, Unscored, ScoresOfThisGame, Playing,
             BackInLobby
    <2> QED BY <1>8, <2>1, <2>2, <1>lobby DEF RollbackStart, Playing, BackInLobby
  <1>9. ASSUME CancelActiveGame PROVE ScoresOfThisGame'
    <2>1. room'.gameId = NoGame
      BY <1>9, <1>0 DEF CancelActiveGame, RoomHash, BackInLobby
    <2>2. \A p \in roster : scores[p] = 0
      BY <1>9, <1>0 DEF CancelActiveGame, Unscored, ScoresOfThisGame, BackInLobby
    <2> QED BY <1>9, <2>1, <2>2, <1>lobby DEF CancelActiveGame, BackInLobby
  <1>10. ASSUME ReturnToLobby PROVE ScoresOfThisGame'
    <2>1. room'.gameId = NoGame
      BY <1>10, <1>0 DEF ReturnToLobby, RoomHash, BackInLobby
    <2>2. roster' = roster /\ \A p \in roster : scores'[p] = 0
      BY <1>10, <1>0 DEF ReturnToLobby, ResetScores, BackInLobby
    <2> QED BY <2>1, <2>2, <1>lobby
  <1>11. ASSUME NEW g \in GameIds, NEW force \in BOOLEAN, FinishIfComplete(g, force)
         PROVE  ScoresOfThisGame'
    <2>1. room'.gameId = room.gameId
      BY <1>11, <1>0 DEF FinishIfComplete, RoomHash, Playing
    <2> QED BY <1>11, <2>1, <1>same DEF FinishIfComplete, Playing
  <1>12. ASSUME NEW g \in GameIds, NEW p \in Players, NEW r \in Rounds,
                NEW c \in Categories, NEW d \in Dices, ConfirmScore(g, p, r, c, d)
         PROVE  ScoresOfThisGame'
    <2>1. room.gameId = g /\ g # NoGame /\ UNCHANGED <<room, roster>>
      BY <1>12, <1>0 DEF ConfirmScore, ConfirmGuard, Playing
    <2>2. \A q \in roster \ {p} : sheet'[g][q] = sheet[g][q] /\ scores'[q] = scores[q]
      BY <1>12, <1>0 DEF ConfirmScore, TypeOK
    <2>3. scores'[p] = sheet'[g][p].total
      BY <1>12, <1>0 DEF ConfirmScore
    <2> QED BY <2>1, <2>2, <2>3 DEF ScoresOfThisGame
  <1>13. ASSUME Touch PROVE ScoresOfThisGame'
    BY <1>13, <1>same DEF Touch, SheetTouched
  <1>14. ASSUME Tick PROVE ScoresOfThisGame'
    <2>1. CASE /\ UNCHANGED <<room, roster, bots, scores>>
               /\ ttl'.room = Aged(ttl.room) /\ ttl'.room \in 1 .. MaxTtl
      <3>1. room.gameId \in GameIds \cup {NoGame}
        BY <1>0 DEF RoomHash
      <3>2. \A p \in roster :
                room.gameId # NoGame => sheet'[room.gameId][p] = sheet[room.gameId][p]
        <4> SUFFICES ASSUME NEW p \in roster, room.gameId # NoGame,
                            sheet[room.gameId][p] # NoSheet
                     PROVE  sheet'[room.gameId][p] = sheet[room.gameId][p]
          BY <1>14, <1>0, <3>1 DEF Tick
        <4>1. ttl.sheet[room.gameId][p] = ttl.room
          BY DEF NoHalfRoom
        <4>2. Aged(ttl.sheet[room.gameId][p]) # 0
          BY <2>1, <4>1
        <4> QED BY <1>14, <1>0, <3>1, <4>2 DEF Tick
      <3> QED BY <2>1, <3>2 DEF ScoresOfThisGame
    <2>2. CASE roster' = {}
      BY <2>2, <1>empty
    <2> QED BY <1>14, <2>1, <2>2, FamilyAges
  <1>15. CASE UNCHANGED vars
    BY <1>15, <1>same DEF vars
  <1> QED
    BY <1>1, <1>2, <1>3, <1>4, <1>5, <1>6, <1>7, <1>8, <1>9, <1>10, <1>11, <1>12,
       <1>13, <1>14, <1>15 DEF Next, Lifecycle, GameFlow, Scoring

\* The invariant holds in every reachable state.
LEMMA Inductive == Spec => []IInv
  <1>1. IInv /\ [Next]_vars => IInv'
    BY TypeStep, FamilyStep, PhaseStep, SeatsStep, HostStep, ScoresStep, TotalsStep
    DEF IInv
  <1> QED BY InitIInv, <1>1, PTL DEF Spec

-----------------------------------------------------------------------------
\* The member counter LEAVE decides by, the roster, the bots and the scores
\* agree after any sequence of scripts and expiries (SeatsAgree).
THEOREM SeatsCorrect == Spec => []SeatsAgree
  BY Inductive, PTL DEF IInv

\* A seated human, if there is one, is the host (HumanHost): no succession and no
\* removal of a bot leaves a room that nobody can start.
THEOREM HostCorrect == Spec => []HumanHost
  BY Inductive, PTL DEF IInv

\* Both (SeatsInOrder): whatever the scripts write, field by field, the room key and
\* its hashes agree on who is seated and who is the host.
THEOREM SeatsKept == Spec => []SeatsInOrder
  BY SeatsCorrect, HostCorrect, PTL DEF SeatsInOrder

\* No expiry leaves half a room behind (NoHalfRoom): every script that writes a key
\* of the family aligns its expiry.
THEOREM FamilyLivesTogether == Spec => []NoHalfRoom
  BY Inductive, PTL DEF IInv

\* A room has a game id exactly while a game runs or its result is shown
\* (GameMatchesPhase).
THEOREM PhaseCorrect == Spec => []GameMatchesPhase
  BY Inductive, PTL DEF IInv

\* The ranking read from :scores is that of the current game (ScoresOfThisGame).
THEOREM ScoresCorrect == Spec => []ScoresOfThisGame
  BY Inductive, PTL DEF IInv

\* Nobody takes a seat while a game runs or its result is shown
\* (RosterFrozenInGame).
THEOREM RosterFrozen == Spec => RosterFrozenInGame
  <1> DEFINE A == room.phase \in {"PLAYING", "FINISHED"} /\ room'.gameId = room.gameId
                    => roster' \subseteq roster
  <1>1. IInv /\ [Next]_vars => [A]_vars
    BY DEF Next, Lifecycle, GameFlow, Scoring, Create, Join, Leave, Close, BotAdd,
           BotRemove,
       Start, RollbackStart, CancelActiveGame, ReturnToLobby, FinishIfComplete,
       ConfirmScore, Touch, Tick, DropFamily, Exists, vars, InLobby, SeatFree, Aligned,
       Playing, BackInLobby, SheetTouched
  <1> QED BY Inductive, <1>1, PTL DEF Spec, RosterFrozenInGame

\* No rollback or cancellation, however late, takes a game with scores back to
\* the lobby (ScoredGameNeverRolledBack).
THEOREM ScoredGamesStay == Spec => ScoredGameNeverRolledBack
  <1> DEFINE A == room.phase = "PLAYING" /\ room'.phase = "LOBBY" => Unscored(room.gameId)
  <1>1. ASSUME IInv, [Next]_vars, room.phase = "PLAYING", room'.phase = "LOBBY"
        PROVE  Unscored(room.gameId)
    <2>1. room \in RoomHash
      BY <1>1 DEF IInv, TypeOK
    <2>2. ~ Lifecycle
      <3>1. ASSUME NEW p \in Humans, Leave(p) PROVE FALSE
        <4>1. CASE room.members - 1 <= 0 /\ room.mode # "PARTY"
          BY <1>1, <3>1, <4>1 DEF Leave, DropFamily, NoRoom
        <4>2. CASE ~ (room.members - 1 <= 0 /\ room.mode # "PARTY")
          BY <1>1, <2>1, <3>1, <4>2 DEF Leave, RoomHash
        <4> QED BY <4>1, <4>2
      <3>2. ~ Close
        BY <1>1 DEF Close, DropFamily, NoRoom
      <3> QED BY <1>1, <3>1, <3>2 DEF Lifecycle, Create, Join, BotAdd, BotRemove,
             Exists, InLobby, SeatFree, Aligned
    <2>3. ~ Scoring /\ ~ Touch /\ room' # room
      BY <1>1 DEF Scoring, ConfirmScore, Touch, SheetTouched
    <2>4. ~ Tick
      BY <1>1 DEF Tick, NoRoom
    <2>5. (\E g \in GameIds : RollbackStart(g)) \/ CancelActiveGame
      BY <1>1, <2>1, <2>2, <2>3, <2>4 DEF Next, GameFlow, Start, ReturnToLobby,
         FinishIfComplete, RoomHash, vars, InLobby, BackInLobby, Playing
    <2> QED BY <2>5 DEF RollbackStart, CancelActiveGame, Playing, BackInLobby
  <1>2. IInv /\ [Next]_vars => [A]_vars
    BY <1>1
  <1> QED BY Inductive, <1>2, PTL DEF Spec, ScoredGameNeverRolledBack

\* CONFIRM_SCORE writes only to the game that runs and for a seated player
\* (OnlyTheRunningGameScores).
THEOREM StaleGamesNeverScore == Spec => OnlyTheRunningGameScores
  <1> DEFINE A == \A g \in GameIds, p \in Players :
                    sheet'[g][p] # sheet[g][p] /\ sheet'[g][p] # NoSheet
                      => room.phase = "PLAYING" /\ room.gameId = g /\ p \in roster
  <1>1. IInv /\ [Next]_vars => [A]_vars
    BY SheetWriters DEF IInv, ConfirmGuard, Playing
  <1> QED BY Inductive, <1>1, PTL DEF Spec, OnlyTheRunningGameScores

\* A game keeps its players, its scores and its sheets (GamesStayWhole).
THEOREM GamesKept == Spec => GamesStayWhole
  BY RosterFrozen, ScoredGamesStay, StaleGamesNeverScore DEF GamesStayWhole

-----------------------------------------------------------------------------
(* Sums of points, and the score sheets.                                   *)

\* The sums of f over the subsets of S, as the library builds them.
Adds(f, S, sum) ==
    sum = [T \in SUBSET S |->
             IF T = {} THEN 0
             ELSE f[CHOOSE c \in T : TRUE] + sum[T \ {CHOOSE c \in T : TRUE}]]

LEMMA SmallestSet ==
    ASSUME NEW S, IsFiniteSet(S), NEW B \in SUBSET SUBSET S, B # {}
    PROVE  \E T \in B : \A U \in B : Cardinality(T) <= Cardinality(U)
<1> DEFINE sizes == {Cardinality(T) : T \in B}
<1>1. \A T \in B : Cardinality(T) \in Nat BY FS_Subset, FS_CardinalityType
<1>2. sizes \subseteq Nat /\ sizes # {} BY <1>1
<1>3. PICK n \in sizes : \A m \in sizes : ~(<<m, n>> \in OpToRel(<, Nat))
  <2> HIDE DEF sizes
  <2> QED BY <1>2, NatLessThanWellFounded, WFMin
<1>4. PICK T \in B : n = Cardinality(T) BY <1>3
<1>5. ASSUME NEW U \in B PROVE Cardinality(T) <= Cardinality(U)
  <2>1. Cardinality(U) \in sizes /\ Cardinality(U) \in Nat /\ n \in Nat BY <1>1, <1>2
  <2>2. ~(Cardinality(U) < n) BY <1>3, <2>1 DEF OpToRel
  <2> QED BY <1>4, <2>1, <2>2
<1> QED BY <1>5

\* A step from one size of sets to the next, and no size is the first that fails.
LEMMA SumExists ==
    ASSUME NEW S, IsFiniteSet(S), NEW f
    PROVE  \E sum : Adds(f, S, sum)
<1> DEFINE Level(n) == {T \in SUBSET S : Cardinality(T) <= n}
           Rest(T) == T \ {CHOOSE c \in T : TRUE}
           Value(T, g) == IF T = {} THEN 0 ELSE f[CHOOSE c \in T : TRUE] + g[Rest(T)]
           Good(n) == \E g : g = [T \in Level(n) |-> Value(T, g)]
<1>1. \A T \in SUBSET S : Cardinality(T) \in Nat /\ (T # {} => Rest(T) \in SUBSET S /\ Cardinality(Rest(T)) = Cardinality(T) - 1)
  BY FS_Subset, FS_CardinalityType, FS_RemoveElement
<1> HIDE DEF Rest
<1>2. Good(0)
  <2>1. \A T \in Level(0) : T = {} BY <1>1
  <2> DEFINE g == [T \in Level(0) |-> 0]
  <2>2. g = [T \in Level(0) |-> Value(T, g)] BY <2>1
  <2> QED BY <2>2
<1>3. ASSUME NEW n \in Nat, Good(n) PROVE Good(n + 1)
  <2>1. PICK g : g = [T \in Level(n) |-> Value(T, g)] BY <1>3
  <2> DEFINE h == [T \in Level(n + 1) |-> Value(T, g)]
  <2>2. \A T \in Level(n) : T \in Level(n + 1) BY <1>1
  <2>3. \A T \in Level(n + 1) : T # {} => Rest(T) \in Level(n) BY <1>1
  <2>4. \A T \in Level(n) : g[T] = Value(T, g)
    <3> HIDE DEF Level, Value
    <3> QED BY <2>1
  <2>5. \A T \in Level(n + 1) : h[T] = Value(T, g)
    <3> HIDE DEF Level, Value
    <3> QED OBVIOUS
  <2>6. \A T \in Level(n) : h[T] = g[T] BY <2>2, <2>4, <2>5
  <2>7. \A T \in Level(n + 1) : Value(T, g) = Value(T, h)
    <3> HIDE DEF Level, h
    <3> QED BY <2>3, <2>6
  <2>8. h = [T \in Level(n + 1) |-> Value(T, h)]
    <3> HIDE DEF Level, Value
    <3> QED BY <2>7
  <2> QED BY <2>8
<1>4. ASSUME NEW n \in Nat, ~Good(n) PROVE FALSE
  <2> HIDE DEF Good
  <2> DEFINE bad == {m \in Nat : ~Good(m)}
  <2>1. PICK m \in bad : \A k \in bad : ~(<<k, m>> \in OpToRel(<, Nat))
    <3>1. bad \subseteq Nat /\ bad # {} BY <1>4
    <3> HIDE DEF bad
    <3> QED BY <3>1, NatLessThanWellFounded, WFMin
  <2>2. m # 0 BY <1>2
  <2>3. m \in Nat /\ ~Good(m) BY <2>1
  <2>4. PICK k \in Nat : k + 1 = m BY <2>2, <2>3
  <2>5. k \notin bad
    <3>1. <<k, m>> \in OpToRel(<, Nat) BY <2>3, <2>4 DEF OpToRel
    <3> QED BY <2>1, <3>1
  <2>6. Good(k) BY <2>4, <2>5
  <2>7. Good(k + 1) BY <1>3, <2>6
  <2> QED BY <2>3, <2>4, <2>7
<1>5. Cardinality(S) \in Nat /\ Good(Cardinality(S)) BY <1>4, FS_CardinalityType
<1>6. Level(Cardinality(S)) = SUBSET S BY FS_Subset, FS_CardinalityType
<1>7. PICK g : g = [T \in SUBSET S |-> Value(T, g)] BY <1>5, <1>6
<1> QED BY <1>7 DEF Adds, Rest

LEMMA SumIsSum ==
    ASSUME NEW S, IsFiniteSet(S), NEW f
    PROVE  \E sum : Adds(f, S, sum) /\ SumFunctionOnSet(f, S) = sum[S]
<1> DEFINE iter == CHOOSE sum : Adds(f, S, sum)
<1>1. Adds(f, S, iter) BY SumExists
<1>2. SumFunctionOnSet(f, S) = iter[S]
  BY DEF SumFunctionOnSet, FoldFunctionOnSet, MapThenFoldSet, Adds
<1> QED BY <1>1, <1>2

LEMMA SumsAgree ==
    ASSUME NEW S, IsFiniteSet(S), NEW f, NEW sum, Adds(f, S, sum),
           NEW R, NEW h, NEW other, Adds(h, R, other), S \subseteq R,
           \A c \in S : f[c] = h[c]
    PROVE  sum[S] = other[S]
<1> DEFINE bad == {T \in SUBSET S : sum[T] # other[T]}
<1>1. SUFFICES ASSUME bad # {} PROVE FALSE OBVIOUS
<1>2. PICK T \in bad : \A U \in bad : Cardinality(T) <= Cardinality(U)
  <2>1. bad \in SUBSET SUBSET S OBVIOUS
  <2> HIDE DEF bad
  <2> QED BY <1>1, <2>1, SmallestSet
<1>3. T \in SUBSET S /\ T \in SUBSET R /\ sum[T] # other[T] BY <1>2
<1>4. T # {} BY <1>3 DEF Adds
<1>5. PICK c \in T : c = (CHOOSE x \in T : TRUE) BY <1>4
<1>6. sum[T] = f[c] + sum[T \ {c}] /\ other[T] = h[c] + other[T \ {c}]
  BY <1>3, <1>4, <1>5 DEF Adds
<1>7. T \ {c} \in bad BY <1>3, <1>6
<1>8. Cardinality(T \ {c}) = Cardinality(T) - 1 /\ Cardinality(T) \in Nat
  BY <1>3, FS_Subset, FS_RemoveElement, FS_CardinalityType
<1> QED BY <1>2, <1>7, <1>8

\* Whichever is taken out first.
LEMMA SumTakesAny ==
    ASSUME NEW S, IsFiniteSet(S), NEW f, NEW sum, Adds(f, S, sum), \A c \in S : f[c] \in Int
    PROVE  \A T \in SUBSET S : sum[T] \in Int /\ \A c \in T : sum[T] = f[c] + sum[T \ {c}]
<1> DEFINE bad == {T \in SUBSET S : ~(sum[T] \in Int /\ \A c \in T : sum[T] = f[c] + sum[T \ {c}])}
<1>1. SUFFICES ASSUME bad # {} PROVE FALSE OBVIOUS
<1>2. PICK T \in bad : \A U \in bad : Cardinality(T) <= Cardinality(U)
  <2>1. bad \in SUBSET SUBSET S OBVIOUS
  <2> HIDE DEF bad
  <2> QED BY <1>1, <2>1, SmallestSet
<1>3. T \in SUBSET S BY <1>2
<1>4. T # {} BY <1>2 DEF Adds
<1>5. PICK x \in T : x = (CHOOSE y \in T : TRUE) BY <1>4
<1>6. sum[T] = f[x] + sum[T \ {x}] BY <1>3, <1>4, <1>5 DEF Adds
<1>7. ASSUME NEW c \in T
      PROVE  sum[T \ {c}] \in Int /\ \A d \in T \ {c} : sum[T \ {c}] = f[d] + sum[T \ {c, d}]
  <2>1. Cardinality(T \ {c}) = Cardinality(T) - 1 /\ Cardinality(T) \in Nat
    BY <1>3, FS_Subset, FS_RemoveElement, FS_CardinalityType
  <2>2. T \ {c} \in SUBSET S /\ T \ {c} \notin bad
    <3>1. T \ {c} \in bad => Cardinality(T) <= Cardinality(T \ {c}) BY <1>2
    <3> QED BY <1>3, <2>1, <3>1
  <2>3. \A d \in T \ {c} : (T \ {c}) \ {d} = T \ {c, d} OBVIOUS
  <2> QED BY <2>2, <2>3
<1>8. sum[T] \in Int BY <1>3, <1>6, <1>7
<1>9. ASSUME NEW c \in T, c # x PROVE sum[T] = f[c] + sum[T \ {c}]
  <2>1. sum[T \ {x}] = f[c] + sum[T \ {x, c}] BY <1>7, <1>9
  <2>2. sum[T \ {c}] = f[x] + sum[T \ {c, x}] BY <1>7, <1>9
  <2>3. {x, c} = {c, x} OBVIOUS
  <2>4. T \ {x, c} \in SUBSET S /\ sum[T \ {x, c}] \in Int
    <3>1. IsFiniteSet(T) /\ IsFiniteSet(T \ {x}) BY <1>3, FS_Subset, FS_RemoveElement
    <3>2. Cardinality(T \ {x}) = Cardinality(T) - 1 /\ Cardinality(T) \in Nat
      BY <3>1, FS_RemoveElement, FS_CardinalityType
    <3>3. Cardinality((T \ {x}) \ {c}) = Cardinality(T \ {x}) - 1
      BY <1>9, <3>1, FS_RemoveElement
    <3>4. (T \ {x}) \ {c} = T \ {x, c} OBVIOUS
    <3>5. T \ {x, c} \in bad => Cardinality(T) <= Cardinality(T \ {x, c}) BY <1>2
    <3>6. ~(Cardinality(T) <= Cardinality(T \ {x, c})) BY <3>2, <3>3, <3>4
    <3>7. T \ {x, c} \in SUBSET S BY <1>3
    <3>8. T \ {x, c} \notin bad BY <3>5, <3>6
    <3> QED BY <3>7, <3>8
  <2>5. f[x] \in Int /\ f[c] \in Int BY <1>3
  <2>6. sum[T] = f[x] + (f[c] + sum[T \ {x, c}]) BY <1>6, <2>1
  <2>7. sum[T \ {c}] = f[x] + sum[T \ {x, c}] BY <2>2, <2>3
  <2> QED BY <2>4, <2>5, <2>6, <2>7
<1> QED BY <1>2, <1>6, <1>8, <1>9

\* Points are counted one cell at a time.
LEMMA NoPoints == ASSUME NEW f PROVE SumFunctionOnSet(f, {}) = 0
<1>1. PICK sum : Adds(f, {}, sum) /\ SumFunctionOnSet(f, {}) = sum[{}]
  BY SumIsSum, FS_EmptySet
<1> QED BY <1>1 DEF Adds

LEMMA OnePointMore ==
    ASSUME NEW S, IsFiniteSet(S), NEW c, c \notin S, NEW f, NEW h,
           \A x \in S : h[x] = f[x], \A x \in S \cup {c} : h[x] \in Int
    PROVE  SumFunctionOnSet(h, S \cup {c}) = SumFunctionOnSet(f, S) + h[c]
<1>1. IsFiniteSet(S \cup {c}) BY FS_AddElement
<1>2. PICK sum : Adds(f, S, sum) /\ SumFunctionOnSet(f, S) = sum[S] BY SumIsSum
<1>3. PICK all : Adds(h, S \cup {c}, all) /\ SumFunctionOnSet(h, S \cup {c}) = all[S \cup {c}]
  BY <1>1, SumIsSum
<1>4. all[S \cup {c}] = h[c] + all[S] /\ all[S] \in Int
  <2>1. (S \cup {c}) \ {c} = S OBVIOUS
  <2>2. S \in SUBSET (S \cup {c}) /\ S \cup {c} \in SUBSET (S \cup {c}) OBVIOUS
  <2>3. \A T \in SUBSET (S \cup {c}) :
          all[T] \in Int /\ \A d \in T : all[T] = h[d] + all[T \ {d}]
    BY <1>1, <1>3, SumTakesAny
  <2>4. c \in S \cup {c} OBVIOUS
  <2> QED BY <2>1, <2>2, <2>3, <2>4
<1>5. sum[S] = all[S]
  BY <1>2, <1>3, SumsAgree
<1> QED BY <1>2, <1>3, <1>4, <1>5

LEMMA PointsAreInt ==
    ASSUME NEW S, IsFiniteSet(S), NEW f, \A x \in S : f[x] \in Int
    PROVE  SumFunctionOnSet(f, S) \in Int
<1>1. PICK sum : Adds(f, S, sum) /\ SumFunctionOnSet(f, S) = sum[S] BY SumIsSum
<1> QED BY <1>1, SumTakesAny

LEMMA SamePoints ==
    ASSUME NEW S, IsFiniteSet(S), NEW f, NEW h, \A x \in S : h[x] = f[x]
    PROVE  SumFunctionOnSet(h, S) = SumFunctionOnSet(f, S)
<1>1. PICK sum : Adds(f, S, sum) /\ SumFunctionOnSet(f, S) = sum[S] BY SumIsSum
<1>2. PICK other : Adds(h, S, other) /\ SumFunctionOnSet(h, S) = other[S] BY SumIsSum
<1> QED BY <1>1, <1>2, SumsAgree

\* What SheetsAddUp says of one sheet, and that cells are filled one by one.
AddsUp(s) ==
    /\ IsFiniteSet(FilledCells(s)) /\ IsFiniteSet(FilledRounds(s))
    /\ s.upper = SumFunctionOnSet(s.cells, UpperCategories \cap FilledCells(s))
    /\ s.bonus = IF s.upper >= BonusFrom /\ s # NoSheet THEN Bonus ELSE 0
    /\ s.total = SumFunctionOnSet(s.cells, Categories \cap FilledCells(s)) + s.bonus
    /\ \A r \in FilledRounds(s) : s.cells[s.submitted[r][1]] = ScoreOf[s.submitted[r]]
    /\ Cardinality(FilledRounds(s)) = Cardinality(FilledCells(s))

LEMMA NoSheetAddsUp == AddsUp(NoSheet)
<1>1. FilledCells(NoSheet) = {} /\ FilledRounds(NoSheet) = {}
  BY DEF NoSheet, FilledCells, FilledRounds, Absent
<1>2. NoSheet.upper = 0 /\ NoSheet.bonus = 0 /\ NoSheet.total = 0 BY DEF NoSheet
<1>3. SumFunctionOnSet(NoSheet.cells, {}) = 0 BY NoPoints
<1>4. UpperCategories \cap {} = {} /\ Categories \cap {} = {} OBVIOUS
<1> QED BY <1>1, <1>2, <1>3, <1>4, FS_EmptySet DEF AddsUp

LEMMA ScoredAddsUp ==
    ASSUME NEW s \in SheetHash, AddsUp(s),
           NEW r \in Rounds, NEW c \in Categories, NEW d \in Dices,
           s.submitted[r] = NoSignature, s.cells[c] = Absent
    PROVE  AddsUp(Scored(s, r, c, d))
<1> DEFINE score == ScoreOf[<<c, d>>]
           upper == s.upper + (IF c \in UpperCategories THEN score ELSE 0)
           bonus == IF upper >= BonusFrom THEN Bonus ELSE 0
<1>1. PICK t : t = Scored(s, r, c, d) OBVIOUS
<1>2. /\ score \in Nat /\ s.upper \in Nat /\ s.total \in Int /\ s.bonus \in Int
      /\ upper \in Nat /\ bonus \in Int
      /\ s.cells \in [Categories -> Nat \cup {Absent}] /\ s.submitted \in [Rounds -> Signatures]
  BY ScoreAssumption DEF SheetHash
<1>3. /\ t.cells = [s.cells EXCEPT ![c] = score] /\ t.submitted = [s.submitted EXCEPT ![r] = <<c, d>>]
      /\ t.upper = upper /\ t.bonus = bonus
      /\ t.total = s.total + score + bonus - s.bonus
  BY <1>1 DEF Scored
<1> HIDE DEF score, bonus
<1>4. t.cells[c] = score /\ \A x \in Categories \ {c} : t.cells[x] = s.cells[x]
  BY <1>2, <1>3
<1>5. score # Absent BY <1>2 DEF Absent
<1>6. <<c, d>> # NoSignature BY DEF NoSignature
<1>7. FilledCells(t) = FilledCells(s) \cup {c} /\ c \notin FilledCells(s)
  BY <1>4, <1>5 DEF FilledCells
<1>8. t.submitted[r] = <<c, d>> /\ \A x \in Rounds \ {r} : t.submitted[x] = s.submitted[x]
  BY <1>2, <1>3
<1>9. FilledRounds(t) = FilledRounds(s) \cup {r} /\ r \notin FilledRounds(s)
  BY <1>6, <1>8 DEF FilledRounds
<1>10. /\ IsFiniteSet(FilledCells(t)) /\ IsFiniteSet(FilledRounds(t))
       /\ Cardinality(FilledRounds(t)) = Cardinality(FilledCells(t))
  <2>1. /\ IsFiniteSet(FilledCells(s)) /\ IsFiniteSet(FilledRounds(s))
        /\ Cardinality(FilledRounds(s)) = Cardinality(FilledCells(s))
    BY DEF AddsUp
  <2>2. IsFiniteSet(FilledCells(t)) /\ Cardinality(FilledCells(t)) = Cardinality(FilledCells(s)) + 1
    BY <1>7, <2>1, FS_AddElement
  <2>3. IsFiniteSet(FilledRounds(t)) /\ Cardinality(FilledRounds(t)) = Cardinality(FilledRounds(s)) + 1
    BY <1>9, <2>1, FS_AddElement
  <2> QED BY <2>1, <2>2, <2>3
<1>12. ASSUME NEW S
       PROVE  /\ SumFunctionOnSet(s.cells, S \cap FilledCells(s)) \in Int
              /\ SumFunctionOnSet(t.cells, S \cap FilledCells(t)) =
                   SumFunctionOnSet(s.cells, S \cap FilledCells(s)) + (IF c \in S THEN score ELSE 0)
  <2>1. PICK old : old = S \cap FilledCells(s) OBVIOUS
  <2>2. IsFiniteSet(old) /\ c \notin old BY <1>7, <2>1, FS_Subset DEF AddsUp
  <2>3. \A x \in old : t.cells[x] = s.cells[x] /\ s.cells[x] \in Int
    BY <1>2, <1>4, <1>7, <2>1 DEF FilledCells, Absent
  <2>4. SumFunctionOnSet(s.cells, old) \in Int BY <2>2, <2>3, PointsAreInt
  <2>5. CASE c \in S
    <3>1. S \cap FilledCells(t) = old \cup {c} BY <1>7, <2>1, <2>5
    <3>2. \A x \in old \cup {c} : t.cells[x] \in Int BY <1>2, <1>4, <2>3
    <3>3. PICK f, h : f = s.cells /\ h = t.cells OBVIOUS
    <3>4. SumFunctionOnSet(h, old \cup {c}) = SumFunctionOnSet(f, old) + h[c]
      <4>1. (\A x \in old : h[x] = f[x]) /\ (\A x \in old \cup {c} : h[x] \in Int)
        BY <2>3, <3>2, <3>3
      <4> QED BY <2>2, <4>1, OnePointMore
    <3>5. h[c] = score BY <1>4, <3>3
    <3>6. SumFunctionOnSet(t.cells, old \cup {c}) = SumFunctionOnSet(s.cells, old) + score
      BY <3>3, <3>4, <3>5
    <3> QED BY <2>1, <2>4, <2>5, <3>1, <3>6
  <2>6. CASE c \notin S
    <3>1. S \cap FilledCells(t) = old BY <1>7, <2>1, <2>6
    <3>2. SumFunctionOnSet(t.cells, old) = SumFunctionOnSet(s.cells, old)
      BY <2>2, <2>3, SamePoints
    <3>3. PICK points : points = SumFunctionOnSet(s.cells, old) OBVIOUS
    <3>4. points + 0 = points BY <2>4, <3>3
    <3> QED BY <2>1, <2>4, <2>6, <3>1, <3>2, <3>3, <3>4
  <2> QED BY <2>5, <2>6
<1>13. \A x \in FilledRounds(t) : t.cells[t.submitted[x][1]] = ScoreOf[t.submitted[x]]
  <2>1. t.submitted[r][1] = c BY <1>8
  <2> SUFFICES ASSUME NEW x \in FilledRounds(s)
               PROVE  t.cells[t.submitted[x][1]] = ScoreOf[t.submitted[x]]
    BY <1>4, <1>8, <1>9, <2>1 DEF score
  <2>2. t.submitted[x] = s.submitted[x] BY <1>8, <1>9 DEF FilledRounds
  <2>3. s.cells[s.submitted[x][1]] = ScoreOf[s.submitted[x]] BY DEF AddsUp
  <2>4. s.submitted[x] \in Categories \X Dices BY <1>2 DEF FilledRounds, Signatures
  <2>5. ScoreOf[s.submitted[x]] \in Nat /\ s.submitted[x][1] \in Categories
    BY <2>4, ScoreAssumption
  <2>6. s.submitted[x][1] # c BY <2>3, <2>5 DEF Absent
  <2> QED BY <1>4, <2>2, <2>3, <2>5, <2>6
<1>14. t # NoSheet
  <2>1. NoSheet.submitted[r] = NoSignature BY DEF NoSheet
  <2> QED BY <1>6, <1>8, <2>1
<1>15. t.upper = SumFunctionOnSet(t.cells, UpperCategories \cap FilledCells(t))
  <2>1. s.upper = SumFunctionOnSet(s.cells, UpperCategories \cap FilledCells(s)) BY DEF AddsUp
  <2> QED BY <1>3, <1>12, <2>1
<1>16. t.bonus = IF t.upper >= BonusFrom /\ t # NoSheet THEN Bonus ELSE 0
  BY <1>3, <1>14 DEF bonus
<1>17. t.total = SumFunctionOnSet(t.cells, Categories \cap FilledCells(t)) + t.bonus
  <2>1. s.total = SumFunctionOnSet(s.cells, Categories \cap FilledCells(s)) + s.bonus
    BY DEF AddsUp
  <2>2. /\ SumFunctionOnSet(s.cells, Categories \cap FilledCells(s)) \in Int
        /\ SumFunctionOnSet(t.cells, Categories \cap FilledCells(t)) =
             SumFunctionOnSet(s.cells, Categories \cap FilledCells(s)) + score
    BY <1>12
  <2> QED BY <1>2, <1>3, <2>1, <2>2
<1> QED BY <1>1, <1>10, <1>13, <1>15, <1>16, <1>17 DEF AddsUp

AllAddUp == \A g \in GameIds, p \in Players : AddsUp(sheet[g][p])

LEMMA SheetsStep == TypeOK /\ AllAddUp /\ [Next]_vars => AllAddUp'
<1> SUFFICES ASSUME TypeOK, AllAddUp, [Next]_vars, NEW g \in GameIds, NEW p \in Players
             PROVE  AddsUp(sheet[g][p])'
  BY DEF AllAddUp
<1>1. PICK s, t : s = sheet[g][p] /\ t = sheet'[g][p] OBVIOUS
<1>2. s \in SheetHash /\ AddsUp(s) BY <1>1 DEF TypeOK, AllAddUp
<1>3. ASSUME NEW r \in Rounds, NEW c \in Categories, NEW d \in Dices,
             ConfirmGuard(g, p, r, c), t = Scored(s, r, c, d)
      PROVE  AddsUp(t)
  <2>1. s.submitted[r] = NoSignature /\ s.cells[c] = Absent
    BY <1>1, <1>3 DEF ConfirmGuard
  <2> QED BY <1>2, <1>3, <2>1, ScoredAddsUp
<1>4. AddsUp(t)
  <2>1. \/ t = s \/ t = NoSheet
        \/ \E r \in Rounds, c \in Categories, d \in Dices :
             ConfirmGuard(g, p, r, c) /\ t = Scored(s, r, c, d)
    BY <1>1, SheetWriters
  <2> QED BY <1>2, <1>3, <2>1, NoSheetAddsUp
<1> QED BY <1>1, <1>4 DEF AddsUp, FilledCells, FilledRounds

\* Points = the cells plus the bonus, earned exactly from BonusFrom on, whatever is sent
\* again: a retry or a second bonus is never counted, and a round fills exactly one cell
\* (CONFIRM_SCORE), for any number of categories, rounds and throws.
THEOREM SheetsAlwaysAddUp == Spec => []SheetsAddUp
<1>1. Init => TypeOK /\ AllAddUp
  <2>1. Init => AllAddUp BY NoSheetAddsUp DEF Init, AllAddUp
  <2> QED BY <2>1, TypeInit
<1>2. TypeOK /\ AllAddUp /\ [Next]_vars => (TypeOK /\ AllAddUp)' BY TypeStep, SheetsStep
<1>3. TypeOK /\ AllAddUp => SheetsAddUp BY DEF AllAddUp, SheetsAddUp, AddsUp
<1> QED BY <1>1, <1>2, <1>3, PTL DEF Spec

-----------------------------------------------------------------------------
(* The refinement of OneRoom.                                              *)

\* Where there is no room nothing of the last one is left in the hash.
Blank == ~Exists => room = NoRoom

LEMMA BlankStep == TypeOK /\ Blank /\ [Next]_vars => Blank'
<1> SUFFICES ASSUME TypeOK, Blank, [Next]_vars, room'.phase = "NONE" PROVE room' = NoRoom
  BY DEF Blank, Exists
<1>1. room \in RoomHash BY DEF TypeOK
<1>2. CASE room' = room BY <1>2 DEF Blank, Exists
<1>3. CASE Lifecycle
  <2>1. CASE DropFamily BY <2>1 DEF DropFamily
  <2>2. ASSUME NEW h \in Humans, NEW n \in Capacities, NEW m \in Modes, Create(h, n, m)
        PROVE  FALSE
    BY <2>2 DEF Create
  <2>3. ASSUME NEW h, NEW p, Join(p) \/ BotAdd(h, p) \/ BotRemove(h, p) PROVE FALSE
    BY <1>1, <2>3 DEF Join, BotAdd, BotRemove, InLobby, RoomHash
  <2>4. ASSUME NEW p \in Humans, Leave(p), ~DropFamily PROVE FALSE
    BY <1>1, <2>4 DEF Leave, Exists, RoomHash
  <2> QED BY <1>3, <2>1, <2>2, <2>3, <2>4 DEF Lifecycle, Close
<1>4. CASE GameFlow
  BY <1>1, <1>4 DEF GameFlow, Start, RollbackStart, CancelActiveGame, ReturnToLobby,
                    FinishIfComplete, BackInLobby, RoomHash
<1>5. CASE Tick BY <1>2, <1>5 DEF Tick
<1>6. Scoring \/ Touch \/ UNCHANGED vars => room' = room
  BY DEF Scoring, ConfirmScore, Touch, vars
<1> QED BY <1>2, <1>3, <1>4, <1>5, <1>6 DEF Next

\* What a score is worth is not less than nothing: the bonus is never taken back.
LEMMA ScoreCounts ==
    ASSUME NEW s \in SheetHash, AddsUp(s), NEW r, NEW c \in Categories, NEW d \in Dices
    PROVE  Scored(s, r, c, d).total >= s.total
<1> DEFINE score == ScoreOf[<<c, d>>]
           upper == s.upper + (IF c \in UpperCategories THEN score ELSE 0)
           bonus == IF upper >= BonusFrom THEN Bonus ELSE 0
<1>1. score \in Nat /\ s.upper \in Nat /\ s.total \in Int BY ScoreAssumption DEF SheetHash
<1>2. upper >= s.upper /\ upper \in Nat BY <1>1
<1>3. bonus >= s.bonus /\ bonus \in Nat /\ s.bonus \in Nat
  <2>1. s.bonus = IF s.upper >= BonusFrom /\ s # NoSheet THEN Bonus ELSE 0 BY DEF AddsUp
  <2> HIDE DEF upper
  <2> QED BY <1>1, <1>2, <2>1, ScoreAssumption
<1>4. Scored(s, r, c, d).total = s.total + score + bonus - s.bonus BY DEF Scored
<1> HIDE DEF score, bonus
<1> QED BY <1>1, <1>3, <1>4

LEMMA RoomGoesOn ==
    ASSUME IInv, AllAddUp, Blank, [Next]_vars
    PROVE  [TheRoom!Next]_(TheRoom!vars)
<1>0. /\ TypeOK /\ room \in RoomHash /\ roster \subseteq Players /\ scores \in [Players -> Int]
      /\ bots = roster \cap Bots
      /\ room.hostId \in Humans \cup {NoOne}
      /\ ~Exists => roster = {}
  BY DEF IInv, TypeOK, SeatsAgree, HumanHost, NoHalfRoom
<1>1. /\ Players = Humans \cup Bots /\ Humans \cap Bots = {} /\ NoOne \notin Players
      /\ NoGame \notin GameIds
  BY IdsAssumption DEF Players, NoOne, NoGame
<1>2. ASSUME UNCHANGED <<room, roster, scores>>
      PROVE  UNCHANGED TheRoom!vars
  BY <1>2 DEF TheRoom!vars, SeatPoints
<1>3. ASSUME Exists, room' = NoRoom, roster' = {}
      PROVE  TheRoom!Vanish
  BY <1>1, <1>3 DEF TheRoom!Vanish, TheRoom!NoPoints, SeatPoints, Exists, NoRoom
<1>4. ASSUME NEW h \in Humans, NEW n \in Capacities, NEW m \in Modes, Create(h, n, m)
      PROVE  TheRoom!Open(h)
  BY <1>4 DEF Create, TheRoom!Open, Exists, SeatPoints
<1>5. ASSUME NEW p \in Players, p \notin roster, room.phase = "LOBBY",
             roster' = roster \cup {p}, scores' = [scores EXCEPT ![p] = 0],
             p \in Bots => room.hostId \in roster,
             room'.phase = room.phase,
             room'.hostId = IF room.hostId \in roster' THEN room.hostId ELSE p
      PROVE  TheRoom!Sit(p)
  <2>1. SeatPoints' = SeatPoints BY <1>0, <1>5 DEF SeatPoints
  <2> QED BY <1>5, <2>1 DEF TheRoom!Sit
<1>6. ASSUME NEW p \in Humans, Join(p)
      PROVE  TheRoom!Sit(p)
  <2>1. /\ room.phase = "LOBBY" /\ p \notin roster /\ roster' = roster \cup {p}
        /\ scores' = [scores EXCEPT ![p] = 0]
        /\ room' = [room EXCEPT !.members = @ + 1,
                      !.hostId = IF @ = NoOne \/ @ \notin roster' THEN p ELSE @]
    BY <1>6 DEF Join, InLobby
  <2>2. NoOne \notin roster' BY <1>0, <1>1, <2>1
  <2>3. /\ room'.phase = room.phase
        /\ room'.hostId = IF room.hostId \in roster' THEN room.hostId ELSE p
    BY <1>0, <2>1, <2>2 DEF RoomHash
  <2> QED BY <1>1, <1>5, <2>1, <2>3
<1>7. ASSUME NEW h \in Humans, NEW b \in Bots, BotAdd(h, b)
      PROVE  TheRoom!Sit(b)
  <2>1. /\ room.phase = "LOBBY" /\ b \notin roster /\ roster' = roster \cup {b}
        /\ scores' = [scores EXCEPT ![b] = 0] /\ room.hostId \in roster
        /\ room' = [room EXCEPT !.members = @ + 1]
    BY <1>7 DEF BotAdd, InLobby, SeatedHost
  <2>2. room'.phase = room.phase /\ room'.hostId = room.hostId BY <1>0, <2>1 DEF RoomHash
  <2> QED BY <1>1, <1>5, <2>1, <2>2
<1>8. ASSUME NEW p \in Players, p \in roster, Exists, p \in Bots => room.phase = "LOBBY",
             roster' = roster \ {p}, scores' = [scores EXCEPT ![p] = Absent],
             room'.phase = room.phase,
             room'.hostId = IF room.hostId = p THEN Heir(roster \ {p}) ELSE room.hostId,
             bots' = bots \ {p}
      PROVE  TheRoom!Rise(p)
  <2>1. SeatPoints' = [SeatPoints EXCEPT ![p] = 0] BY <1>0, <1>8 DEF SeatPoints
  <2>2. /\ (roster \ {p}) \cap Humans # {} => Heir(roster \ {p}) \in (roster \ {p}) \cap Humans
        /\ (roster \ {p}) \cap Humans = {} => Heir(roster \ {p}) = NoOne
    <3>1. (roster \ {p}) \ bots = (roster \ {p}) \cap Humans BY <1>0, <1>1
    <3>2. roster \ {p} \subseteq Players BY <1>0
    <3>3. CASE (roster \ {p}) \ bots # {} BY <3>1, <3>2, <3>3, HeirIsLeft
    <3>4. CASE (roster \ {p}) \ bots = {} BY <3>1, <3>4 DEF Heir
    <3> QED BY <3>1, <3>3, <3>4
  <2> QED BY <1>8, <2>1, <2>2 DEF TheRoom!Rise, Exists
<1>9. ASSUME NEW p \in Humans, Leave(p)
      PROVE  TheRoom!Rise(p) \/ TheRoom!Vanish
  <2>1. CASE DropFamily BY <1>3, <1>9, <2>1 DEF Leave, DropFamily
  <2>2. CASE /\ roster' = roster \ {p} /\ bots' = bots \ {p}
             /\ scores' = [scores EXCEPT ![p] = Absent]
             /\ room' = [room EXCEPT !.members = @ - 1,
                           !.hostId = IF @ = p THEN Heir(roster \ {p}) ELSE @]
    <3>1. /\ room'.phase = room.phase
          /\ room'.hostId = IF room.hostId = p THEN Heir(roster \ {p}) ELSE room.hostId
      BY <1>0, <2>2 DEF RoomHash
    <3>2. Exists /\ p \in roster /\ p \notin Bots /\ p \in Players BY <1>1, <1>9 DEF Leave
    <3> QED BY <1>8, <2>2, <3>1, <3>2
  <2> QED BY <1>9, <2>1, <2>2 DEF Leave
<1>10. ASSUME NEW h \in Humans, NEW b \in Bots, BotRemove(h, b)
       PROVE  TheRoom!Rise(b)
  <2>1. /\ room.phase = "LOBBY" /\ room.hostId = h /\ b \in bots
        /\ bots' = bots \ {b} /\ roster' = roster \ {b}
        /\ scores' = [scores EXCEPT ![b] = Absent]
        /\ room' = [room EXCEPT !.members = @ - 1]
    BY <1>10 DEF BotRemove, InLobby, SeatedHost
  <2>2. room'.phase = room.phase /\ room'.hostId = room.hostId BY <1>0, <2>1 DEF RoomHash
  <2>3. room.hostId # b /\ b \in roster /\ b \in Players BY <1>0, <1>1, <2>1
  <2>4. Exists BY <2>1 DEF Exists
  <2> QED BY <1>8, <2>1, <2>2, <2>3, <2>4
<1>11. ASSUME NEW g \in GameIds, Start(g) PROVE TheRoom!Begin
  <2>1. /\ room.phase = "LOBBY" /\ Cardinality(roster) >= MinPlayers
        /\ UNCHANGED <<roster, scores>>
        /\ room' = [room EXCEPT !.phase = "PLAYING", !.gameId = g]
    BY <1>11 DEF Start, InLobby
  <2>2. room'.phase = "PLAYING" /\ room'.hostId = room.hostId BY <1>0, <2>1 DEF RoomHash
  <2>3. SeatPoints' = SeatPoints BY <2>1 DEF SeatPoints
  <2>4. TheRoom!Cardinality(roster) = Cardinality(roster)
    BY DEF Cardinality, TheRoom!Cardinality
  <2> QED BY <2>1, <2>2, <2>3, <2>4 DEF TheRoom!Begin
<1>12. ASSUME room.phase = "PLAYING", Unscored(room.gameId), room' = BackInLobby,
              UNCHANGED <<roster, scores>>
       PROVE  TheRoom!TakeBack
  <2>1. room.gameId # NoGame BY <1>12 DEF IInv, GameMatchesPhase
  <2>2. \A p \in roster : scores[p] = 0
    BY <1>0, <1>12, <2>1 DEF IInv, ScoresOfThisGame, Unscored, NoSheet
  <2>3. SeatPoints = TheRoom!NoPoints BY <1>1, <2>2 DEF SeatPoints, TheRoom!NoPoints
  <2>4. room'.phase = "LOBBY" /\ room'.hostId = room.hostId
    BY <1>0, <1>12 DEF BackInLobby, RoomHash
  <2> QED BY <1>12, <2>3, <2>4 DEF TheRoom!TakeBack, SeatPoints
<1>13. ASSUME NEW g \in GameIds, RollbackStart(g) PROVE TheRoom!TakeBack
  BY <1>12, <1>13 DEF RollbackStart, Playing
<1>14. CancelActiveGame => TheRoom!TakeBack BY <1>12 DEF CancelActiveGame
<1>15. ASSUME ReturnToLobby PROVE TheRoom!PlayAgain
  <2>1. SeatPoints' = TheRoom!NoPoints
    BY <1>0, <1>1, <1>15 DEF ReturnToLobby, ResetScores, SeatPoints, TheRoom!NoPoints
  <2>2. room'.phase = "LOBBY" /\ room'.hostId = room.hostId
    BY <1>0, <1>15 DEF ReturnToLobby, BackInLobby, RoomHash
  <2> QED BY <1>15, <2>1, <2>2 DEF ReturnToLobby, TheRoom!PlayAgain
<1>16. ASSUME NEW g \in GameIds, NEW force \in BOOLEAN, FinishIfComplete(g, force)
       PROVE  TheRoom!End
  BY <1>0, <1>16 DEF FinishIfComplete, Playing, TheRoom!End, SeatPoints, RoomHash
<1>17. ASSUME NEW g \in GameIds, NEW p \in Players, NEW r \in Rounds, NEW c \in Categories,
              NEW d \in Dices, ConfirmScore(g, p, r, c, d)
       PROVE  TheRoom!Score(p)
  <2>1. /\ room.phase = "PLAYING" /\ room.gameId = g /\ p \in roster
        /\ UNCHANGED <<room, roster>> /\ scores' = [scores EXCEPT ![p] = sheet'[g][p].total]
    BY <1>17 DEF ConfirmScore, ConfirmGuard, Playing
  <2>2. sheet'[g][p] = Scored(sheet[g][p], r, c, d)
    BY <1>0, <1>17 DEF ConfirmScore, TypeOK
  <2>3. sheet[g][p] \in SheetHash /\ AddsUp(sheet[g][p]) BY <1>0 DEF TypeOK, AllAddUp
  <2>4. scores[p] = sheet[g][p].total BY <1>1, <2>1 DEF IInv, ScoresOfThisGame
  <2>5. scores'[p] >= scores[p] BY <1>0, <2>1, <2>2, <2>3, <2>4, ScoreCounts
  <2>6. SeatPoints' = [SeatPoints EXCEPT ![p] = scores'[p]]
    BY <1>0, <2>1 DEF SeatPoints
  <2>7. SeatPoints'[p] = scores'[p] /\ SeatPoints[p] = scores[p] BY <1>0, <2>1 DEF SeatPoints
  <2> QED BY <2>1, <2>5, <2>6, <2>7 DEF TheRoom!Score
<1>18. Close => TheRoom!Vanish BY <1>3 DEF Close, DropFamily
<1>19. CASE Tick
  <2>1. CASE UNCHANGED <<room, roster, bots, scores>> BY <1>2, <2>1
  <2>2. CASE room' = NoRoom /\ roster' = {} /\ ~Exists
    <3>1. room = NoRoom /\ roster = {} BY <1>0, <2>2 DEF Blank
    <3>2. SeatPoints' = SeatPoints BY <2>2, <3>1 DEF SeatPoints
    <3> QED BY <2>2, <3>1, <3>2 DEF TheRoom!vars
  <2>3. CASE room' = NoRoom /\ roster' = {} /\ Exists BY <1>3, <2>3 DEF TheRoom!Next
  <2> QED BY <1>19, <2>1, <2>2, <2>3, FamilyAges
<1>20. CASE Touch \/ UNCHANGED vars BY <1>2, <1>20 DEF Touch, vars
<1>21. CASE Lifecycle
  <2>1. \A p \in Humans \cup Bots : TheRoom!Sit(p) \/ TheRoom!Rise(p) => TheRoom!Next
    BY DEF TheRoom!Next
  <2>2. \A p \in Humans : TheRoom!Open(p) => TheRoom!Next BY DEF TheRoom!Next
  <2>3. TheRoom!Vanish => TheRoom!Next BY DEF TheRoom!Next
  <2> QED BY <1>4, <1>6, <1>7, <1>9, <1>10, <1>18, <1>21, <2>1, <2>2, <2>3 DEF Lifecycle
<1>22. CASE GameFlow
  BY <1>11, <1>13, <1>14, <1>15, <1>16, <1>22 DEF GameFlow, TheRoom!Next
<1>23. CASE Scoring
  <2>1. \A p \in Players : TheRoom!Score(p) => TheRoom!Next BY <1>1 DEF TheRoom!Next
  <2> QED BY <1>17, <1>23, <2>1 DEF Scoring
<1> QED BY <1>19, <1>20, <1>21, <1>22, <1>23 DEF Next

\* Hashes, counter and expiries together are one room: every script, and every expiry, does
\* to it what OneRoom lets happen to a room that is one thing, or nothing at all
\* (lifecycle.ts, bots.ts, gameFlow.ts, expiry.ts, game/score, game/completion).
THEOREM RoomIsOne == Spec => ImplementsOneRoom
<1>1. Init => TheRoom!Init
  BY DEF Init, NoRoom, TheRoom!Init, TheRoom!NoPoints, SeatPoints, Players
<1>2. Init => IInv /\ AllAddUp /\ Blank
  BY InitIInv, NoSheetAddsUp DEF Init, AllAddUp, Blank
<1>3. IInv /\ [Next]_vars => IInv'
  BY TypeStep, FamilyStep, PhaseStep, SeatsStep, HostStep, ScoresStep, TotalsStep DEF IInv
<1>4. IInv /\ AllAddUp /\ Blank /\ [Next]_vars => (AllAddUp /\ Blank)'
  BY SheetsStep, BlankStep DEF IInv
<1>5. IInv /\ AllAddUp /\ Blank /\ [Next]_vars => [TheRoom!Next]_(TheRoom!vars)
  BY RoomGoesOn
<1> QED BY <1>1, <1>2, <1>3, <1>4, <1>5, PTL DEF Spec, ImplementsOneRoom, TheRoom!Spec
=============================================================================
