------------------------- MODULE TwoPlayers_proofs -------------------------
(***************************************************************************)
(* What holds of every duel and of every match of ping-pong.                *)
(*                                                                          *)
(* The first part says that a room only ever runs the module of its own     *)
(* game, and that nobody sits down in it once it is open: what the proofs   *)
(* about each game start from.                                              *)
(*                                                                          *)
(* The second is about the duel, whatever the numbers of bullets and        *)
(* warnings: a judgement, each handler, and the theorems drawn from the     *)
(* inductive invariant.                                                     *)
(*                                                                          *)
(* The third is about ping-pong, whatever the winning score: the serves are *)
(* shared, the match ends two ahead, and it has begun only with both.  The  *)
(* argument counts serves: as many as points before a serve, one more in a  *)
(* rally, so that the number of points says who has received how many of    *)
(* them.                                                                    *)
(***************************************************************************)
EXTENDS Games, FiniteSetTheorems, TLAPS

\* The states of the games that a room does not play are absent.
OwnGame ==
    /\ code # "davinci_code" => game = NoGame
    /\ code # "duel" => duel = NoDuel
    /\ code # "ping_pong" => match = NoMatch

Dispatched == OwnGame /\ roster \subseteq Players

\* An input of another game finds no state of that game, and a deadline, a leaver
\* or a restart is passed to the module of the room's game.
LEMMA RightModule ==
    ASSUME OwnGame
    PROVE  /\ DavinciNext => code = "davinci_code"
           /\ DuelNext => code = "duel"
           /\ PingPongNext => code = "ping_pong"
  <1>1. DavinciNext => code = "davinci_code"
    <2>1. ASSUME NEW p \in Players, Guess(p) \/ Continue(p) \/ Stop(p) \/ Place(p)
          PROVE  code = "davinci_code"
      <3>1. game.step \in {"GUESSING", "DECIDING", "PLACING"}
        BY <2>1, Zenon DEF Guess, Continue, Stop, Place
      <3>2. game # NoGame
        BY <3>1 DEF NoGame
      <3> QED BY <3>2 DEF OwnGame
    <2> QED BY <2>1 DEF DavinciNext, DavinciStart, DavinciDeadline, DavinciReset,
                        DavinciClose, DavinciRestart, DavinciLeave
  <1>2. DuelNext => code = "duel"
    BY Zenon DEF DuelNext, DuelStart, DuelDeadline, DuelReset, DuelClose, DuelRestart,
                 Draw, DuelLeave
  <1>3. PingPongNext => code = "ping_pong"
    <2>1. ASSUME NEW p \in Players, Practise(p) \/ Ready(p) \/ Swing(p)
          PROVE  code = "ping_pong"
      <3>1. match.step \in {"PREPARING", "COUNTDOWN", "PLAYING"}
        BY <2>1, Zenon DEF Practise, Ready, Swing
      <3>2. match # NoMatch
        BY <3>1 DEF NoMatch
      <3> QED BY <3>2 DEF OwnGame
    <2> QED BY <2>1 DEF PingPongNext, PingPongStart, PingPongDeadline, PingPongReset,
                        PingPongClose, PingPongRestart, PingPongLeave
  <1> QED BY <1>1, <1>2, <1>3

\* The game of a room is chosen once, and its roster only shrinks.
LEMMA RosterShrinks ==
    ASSUME [Next]_vars
    PROVE  code' = code /\ roster' \subseteq roster
  <1>1. DavinciNext => code' = code /\ roster' \subseteq roster
    BY DEF DavinciNext, DavinciStart, DavinciDeadline, DavinciReset, DavinciClose,
           DavinciRestart, Guess, Continue, Stop, Place, DavinciLeave,
           StartRoom, ReturnRoom, CloseRoom, RestartRoom, Fixed
  <1>2. DuelNext => code' = code /\ roster' \subseteq roster
    BY DEF DuelNext, DuelStart, DuelDeadline, DuelReset, DuelClose, DuelRestart, Draw,
           DuelLeave, StartRoom, ReturnRoom, CloseRoom, RestartRoom, Fixed
  <1>3. PingPongNext => code' = code /\ roster' \subseteq roster
    BY DEF PingPongNext, PingPongStart, PingPongDeadline, PingPongReset, PingPongClose,
           PingPongRestart, Practise, Ready, Swing, PingPongLeave,
           StartRoom, ReturnRoom, CloseRoom, RestartRoom, Fixed
  <1>4. ASSUME NEW p \in Players, Leave(p)
        PROVE  code' = code /\ roster' \subseteq roster
    BY <1>4 DEF Leave, LeaveIdle
  <1>5. UNCHANGED vars => code' = code /\ roster' \subseteq roster
    BY DEF vars, room
  <1> QED BY <1>1, <1>2, <1>3, <1>4, <1>5 DEF Next

\* Every step keeps this.
LEMMA DispatchStep ==
    ASSUME Dispatched, [Next]_vars
    PROVE  Dispatched'
  <1>1. code' = code /\ roster' \subseteq Players
    BY RosterShrinks DEF Dispatched
  <1>2. CASE DavinciNext /\ UNCHANGED <<duel, pingPongVars>>
    BY <1>1, <1>2, RightModule DEF Dispatched, OwnGame, pingPongVars
  <1>3. CASE DuelNext /\ UNCHANGED <<davinciVars, pingPongVars>>
    BY <1>1, <1>3, RightModule DEF Dispatched, OwnGame, davinciVars, pingPongVars
  <1>4. CASE PingPongNext /\ UNCHANGED <<davinciVars, duel>>
    BY <1>1, <1>4, RightModule DEF Dispatched, OwnGame, davinciVars
  <1>5. CASE UNCHANGED gameVars
    BY <1>1, <1>5 DEF Dispatched, OwnGame, gameVars, davinciVars, pingPongVars
  <1> QED BY <1>2, <1>3, <1>4, <1>5 DEF Next, Leave, vars

\* In every reachable state the room has no state but its own game's.
THEOREM OneGamePerRoom == Spec => []Dispatched
  <1>1. Init => Dispatched
    BY DEF Init, InitRoom, InitDavinci, InitDuel, InitPingPong, Dispatched, OwnGame
  <1> QED BY <1>1, DispatchStep, PTL DEF Spec

-----------------------------------------------------------------------------
(* The duel.                                                               *)

\* The reactions that may have arrived from a and b.
Answers(a, b) == UNION {[answered -> Reactions] : answered \in SUBSET {a, b}}

\* A duel between a and b.
DuelState(a, b) ==
    [step : {"WAITING", "SIGNAL", "RESULT", "FINISHED"},
     hp : [{a, b} -> 0 .. MaxHp], fouls : [{a, b} -> 0 .. MaxFouls],
     reactions : Answers(a, b),
     last : [kind : Kinds, hit : {a, b, Nobody}, ko : {a, b, Nobody},
             foul : {a, b, Nobody}]]

\* Somebody is down only in a result, and is down when the duel has ended.
StepMatchesVerdict ==
    /\ duel.step \in {"WAITING", "SIGNAL"} => ~Over
    /\ duel.step = "FINISHED" => Over

\* Unless it was lost by leaving, a duel has one who fell and one who stands.
OneStands ==
    Over /\ duel.last.kind # "FORFEIT" => \A p \in Sides \ {duel.last.ko} : duel.hp[p] > 0

DuelInv ==
    duel # NoDuel =>
      /\ StepMatchesVerdict /\ OneStands
      /\ BothStand /\ ReactionsOfThisRound /\ NoFastLoser

\* The type of the state, with the reactions of whoever has answered.
LEMMA TypeForm ==
    DuelTypeOK <=> (duel = NoDuel \/ \E a, b \in Players : a # b /\ duel \in DuelState(a, b))
  <1>1. ASSUME NEW a \in Players, NEW b \in Players, NEW answered \in SUBSET {a, b},
               duel \in [step : {"WAITING", "SIGNAL", "RESULT", "FINISHED"},
                      hp : [{a, b} -> 0 .. MaxHp], fouls : [{a, b} -> 0 .. MaxFouls],
                      reactions : [answered -> Reactions],
                      last : [kind : Kinds, hit : {a, b, Nobody}, ko : {a, b, Nobody},
                              foul : {a, b, Nobody}]]
        PROVE  duel \in DuelState(a, b)
    BY <1>1 DEF DuelState, Answers
  <1>2. ASSUME NEW a \in Players, NEW b \in Players, duel \in DuelState(a, b)
        PROVE  \E answered \in SUBSET {a, b} :
                 duel \in [step : {"WAITING", "SIGNAL", "RESULT", "FINISHED"},
                      hp : [{a, b} -> 0 .. MaxHp], fouls : [{a, b} -> 0 .. MaxFouls],
                      reactions : [answered -> Reactions],
                      last : [kind : Kinds, hit : {a, b, Nobody}, ko : {a, b, Nobody},
                              foul : {a, b, Nobody}]]
    BY <1>2 DEF DuelState, Answers
  <1>3. DuelTypeOK => (duel = NoDuel \/ \E a, b \in Players : a # b /\ duel \in DuelState(a, b))
    BY <1>1 DEF DuelTypeOK
  <1>4. ASSUME NEW a \in Players, NEW b \in Players, a # b, duel \in DuelState(a, b)
        PROVE  DuelTypeOK
    BY <1>2, <1>4 DEF DuelTypeOK
  <1>5. duel = NoDuel => DuelTypeOK
    BY DEF DuelTypeOK
  <1> QED BY <1>3, <1>4, <1>5

\* A penalty is a warning, or the end for who has it.
LEMMA PenaltyFacts ==
    ASSUME NEW a \in Players, NEW b \in Players, a # b, duel \in DuelState(a, b),
           ~Over, BothStand, duel # NoDuel, NEW p \in {a, b}
    PROVE  LET d == Penalty(p) IN
           /\ d \in DuelState(a, b)
           /\ d.last.kind \in {"WARNING", "SELF_SHOT"}
           /\ d.last.ko # Nobody <=> \E q \in {a, b} : d.hp[q] = 0 \/ d.fouls[q] >= MaxFouls
           /\ \A q \in {a, b} \ {d.last.ko} : d.hp[q] > 0
  <1> USE RoomAssumption, DuelAssumption
  <1>1. Nobody \notin {a, b}
    BY DEF Nobody
  <1>2. /\ DOMAIN duel.hp = {a, b}
        /\ \A q \in {a, b} : duel.hp[q] \in 1 .. MaxHp /\ duel.fouls[q] \in 0 .. MaxFouls - 1
    BY DEF DuelState, BothStand, Over, Sides
  <1>3. CASE duel.fouls[p] + 1 < MaxFouls
    <2> DEFINE fouls == [duel.fouls EXCEPT ![p] = duel.fouls[p] + 1]
               last == [kind |-> "WARNING", hit |-> Nobody, ko |-> Nobody, foul |-> p]
    <2>1. Penalty(p) = [duel EXCEPT !.fouls = fouls, !.last = last]
      BY <1>3 DEF Penalty, DuelState
    <2>2. fouls \in [{a, b} -> 0 .. MaxFouls] /\ \A q \in {a, b} : fouls[q] < MaxFouls
      BY <1>2, <1>3 DEF DuelState
    <2>3. /\ last \in [kind : Kinds, hit : {a, b, Nobody}, ko : {a, b, Nobody}, foul : {a, b, Nobody}]
          /\ last.kind = "WARNING" /\ last.ko = Nobody
      BY DEF Kinds
    <2> HIDE DEF fouls, last
    <2>4. /\ Penalty(p) \in DuelState(a, b) /\ Penalty(p).last = last
          /\ Penalty(p).fouls = fouls /\ Penalty(p).hp = duel.hp
      BY <2>1, <2>2, <2>3 DEF DuelState
    <2> QED BY <1>2, <2>2, <2>3, <2>4
  <1>4. CASE ~(duel.fouls[p] + 1 < MaxFouls)
    <2> DEFINE fouls == [duel.fouls EXCEPT ![p] = duel.fouls[p] + 1]
               hp == [duel.hp EXCEPT ![p] = Less(duel.hp[p])]
               last == [kind |-> "SELF_SHOT", hit |-> p, ko |-> p, foul |-> p]
    <2>1. Penalty(p) = [duel EXCEPT !.fouls = fouls, !.hp = hp, !.last = last]
      BY <1>4 DEF Penalty, DuelState
    <2>2. fouls \in [{a, b} -> 0 .. MaxFouls] /\ fouls[p] >= MaxFouls
      BY <1>2, <1>4 DEF DuelState
    <2>3. hp \in [{a, b} -> 0 .. MaxHp] /\ \A q \in {a, b} \ {p} : hp[q] > 0
      BY <1>2 DEF DuelState, Less
    <2>4. /\ last \in [kind : Kinds, hit : {a, b, Nobody}, ko : {a, b, Nobody}, foul : {a, b, Nobody}]
          /\ last.kind = "SELF_SHOT" /\ last.ko = p
      BY DEF Kinds
    <2> HIDE DEF fouls, hp, last
    <2>5. /\ Penalty(p) \in DuelState(a, b) /\ Penalty(p).last = last
          /\ Penalty(p).fouls = fouls /\ Penalty(p).hp = hp
      BY <2>1, <2>2, <2>3, <2>4 DEF DuelState
    <2> QED BY <1>1, <2>2, <2>3, <2>4, <2>5
  <1> QED BY <1>3, <1>4

\* A shootout is a tie, or costs the slower one a bullet.
LEMMA ShootoutFacts ==
    ASSUME NEW a \in Players, NEW b \in Players, a # b, duel \in DuelState(a, b),
           ~Over, BothStand, duel # NoDuel, NEW r \in [{a, b} -> Reactions]
    PROVE  LET d == Shootout(r) IN
           /\ d \in DuelState(a, b)
           /\ d.last.kind \in {"TIE", "SHOT"}
           /\ d.last.ko # Nobody <=> \E q \in {a, b} : d.hp[q] = 0 \/ d.fouls[q] >= MaxFouls
           /\ \A q \in {a, b} \ {d.last.ko} : d.hp[q] > 0
           /\ d.last.kind = "SHOT" =>
                d.last.hit \in {a, b} /\ \A q \in {a, b} \ {d.last.hit} : Faster(r[q], r[d.last.hit])
  <1> USE RoomAssumption, DuelAssumption
  <1> DEFINE lost == {p \in {a, b} : \E q \in {a, b} \ {p} : Faster(r[q], r[p])}
             hit == CHOOSE p \in lost : TRUE
             left == Less(duel.hp[hit])
  <1>1. Nobody \notin {a, b}
    BY DEF Nobody
  <1>2. /\ Sides = {a, b}
        /\ \A q \in {a, b} : duel.hp[q] \in 1 .. MaxHp /\ duel.fouls[q] \in 0 .. MaxFouls - 1
    BY DEF DuelState, BothStand, Over, Sides
  <1>3. CASE lost = {}
    <2>1. Shootout(r) = [duel EXCEPT !.last = [NoRound EXCEPT !.kind = "TIE"]]
      BY <1>2, <1>3 DEF Shootout
    <2> DEFINE last == [kind |-> "TIE", hit |-> Nobody, ko |-> Nobody, foul |-> Nobody]
    <2>2. /\ last \in [kind : Kinds, hit : {a, b, Nobody}, ko : {a, b, Nobody}, foul : {a, b, Nobody}]
          /\ last.kind = "TIE" /\ last.ko = Nobody
          /\ last = [NoRound EXCEPT !.kind = "TIE"]
      BY DEF Kinds, NoRound
    <2> HIDE DEF last
    <2>3. /\ Shootout(r) \in DuelState(a, b) /\ Shootout(r).last = last
          /\ Shootout(r).fouls = duel.fouls /\ Shootout(r).hp = duel.hp
      BY <2>1, <2>2 DEF DuelState
    <2> QED BY <1>2, <2>2, <2>3
  <1>4. CASE lost # {}
    <2>1. hit \in {a, b} /\ \A q \in {a, b} \ {hit} : Faster(r[q], r[hit])
      BY <1>4
    <2>2. left \in 0 .. MaxHp
      <3>1. duel.hp[hit] \in 1 .. MaxHp
        BY <1>2, <2>1
      <3> HIDE DEF hit
      <3> QED BY <3>1 DEF Less
    <2>3. Shootout(r) = [duel EXCEPT
                !.hp[hit] = left,
                !.last = [kind |-> "SHOT", hit |-> hit,
                          ko |-> IF left = 0 THEN hit ELSE Nobody, foul |-> Nobody]]
      BY <1>2, <1>4 DEF Shootout
    <2> HIDE DEF lost, hit
    <2> DEFINE hp == [duel.hp EXCEPT ![hit] = left]
               last == [kind |-> "SHOT", hit |-> hit,
                        ko |-> IF left = 0 THEN hit ELSE Nobody, foul |-> Nobody]
    <2>4. /\ hp \in [{a, b} -> 0 .. MaxHp] /\ hp[hit] = left
          /\ \A q \in {a, b} \ {hit} : hp[q] > 0
      BY <1>2, <2>1, <2>2 DEF DuelState
    <2>5. /\ last \in [kind : Kinds, hit : {a, b, Nobody}, ko : {a, b, Nobody}, foul : {a, b, Nobody}]
          /\ last.kind = "SHOT" /\ last.hit = hit
          /\ last.ko = IF left = 0 THEN hit ELSE Nobody
      BY <2>1 DEF Kinds
    <2>6. Shootout(r) = [duel EXCEPT !.hp = hp, !.last = last]
      BY <2>3 DEF DuelState
    <2> HIDE DEF left, hp, last
    <2>7. /\ Shootout(r) \in DuelState(a, b) /\ Shootout(r).last = last
          /\ Shootout(r).fouls = duel.fouls /\ Shootout(r).hp = hp
      BY <2>4, <2>5, <2>6 DEF DuelState
    <2>8. left > 0 \/ left = 0
      BY <2>2
    <2> QED BY <1>1, <1>2, <2>1, <2>4, <2>5, <2>7, <2>8
  <1> QED BY <1>3, <1>4

\* A judgement leaves a result that is consistent with the bullets and warnings.
LEMMA Judgement ==
    ASSUME NEW a \in Players, NEW b \in Players, a # b, duel \in DuelState(a, b),
           ~Over, BothStand,
           NEW answered \in SUBSET {a, b}, NEW r \in [answered -> Reactions],
           (\E p \in answered : r[p] = FOUL) \/ answered = {a, b},
           duel' = Resolved(r)
    PROVE  duel' \in DuelState(a, b) /\ duel'.step = "RESULT" /\ DuelInv'
  <1> DEFINE fouled == {p \in answered : r[p] = FOUL}
             verdict == IF fouled # {} THEN Penalty(CHOOSE p \in fouled : TRUE) ELSE Shootout(r)
  <1>1. duel # NoDuel /\ Nobody \notin {a, b}
    BY RoomAssumption DEF DuelState, NoDuel, Nobody
  <1>2. /\ verdict \in DuelState(a, b)
        /\ verdict.last.kind \in {"TIE", "SHOT", "WARNING", "SELF_SHOT"}
        /\ verdict.last.ko # Nobody
             <=> \E q \in {a, b} : verdict.hp[q] = 0 \/ verdict.fouls[q] >= MaxFouls
        /\ \A q \in {a, b} \ {verdict.last.ko} : verdict.hp[q] > 0
        /\ verdict.last.kind = "SHOT" =>
             /\ verdict.last.hit \in {a, b} /\ answered = {a, b}
             /\ \A q \in {a, b} \ {verdict.last.hit} : Faster(r[q], r[verdict.last.hit])
    <2>1. CASE fouled # {}
      <3> DEFINE p == CHOOSE q \in fouled : TRUE
      <3>1. p \in {a, b} /\ verdict = Penalty(p)
        BY <2>1
      <3> HIDE DEF fouled, verdict, p
      <3>2. /\ Penalty(p) \in DuelState(a, b)
            /\ Penalty(p).last.kind \in {"WARNING", "SELF_SHOT"}
            /\ Penalty(p).last.ko # Nobody
                 <=> \E q \in {a, b} : Penalty(p).hp[q] = 0 \/ Penalty(p).fouls[q] >= MaxFouls
            /\ \A q \in {a, b} \ {Penalty(p).last.ko} : Penalty(p).hp[q] > 0
        BY <1>1, <3>1, PenaltyFacts
      <3> QED BY <3>1, <3>2
    <2>2. CASE fouled = {}
      <3>1. answered = {a, b} /\ r \in [{a, b} -> Reactions] /\ verdict = Shootout(r)
        BY <2>2
      <3> HIDE DEF fouled, verdict
      <3> QED BY <1>1, <3>1, ShootoutFacts
    <2> QED BY <2>1, <2>2
  <1>3. duel' = [verdict EXCEPT !.step = "RESULT", !.reactions = r]
    BY DEF Resolved
  <1>. r \in Answers(a, b)
    BY DEF Answers
  <1> HIDE DEF fouled, verdict
  <1>4. /\ duel' \in DuelState(a, b)
        /\ duel'.step = "RESULT" /\ duel'.reactions = r /\ duel'.last = verdict.last
        /\ duel'.hp = verdict.hp /\ duel'.fouls = verdict.fouls
    BY <1>2, <1>3 DEF DuelState
  <1>5. DOMAIN duel'.hp = {a, b}
    BY <1>4 DEF DuelState
  <1>6. StepMatchesVerdict' /\ ReactionsOfThisRound'
    BY <1>4 DEF StepMatchesVerdict, ReactionsOfThisRound
  <1>7. OneStands' /\ BothStand'
    BY <1>2, <1>4, <1>5 DEF OneStands, BothStand, Sides, Over
  <1>8. NoFastLoser'
    <2> SUFFICES ASSUME duel'.last.kind = "SHOT", NEW p \in {a, b} \ {duel'.last.hit}
                 PROVE  /\ duel'.reactions[p] >= 0
                        /\ duel'.reactions[duel'.last.hit] < 0
                             \/ duel'.reactions[p] < duel'.reactions[duel'.last.hit]
      BY <1>4, <1>5 DEF NoFastLoser, Sides
    <2> QED BY <1>2, <1>4 DEF Faster
  <1> QED BY <1>4, <1>6, <1>7, <1>8 DEF DuelInv

-----------------------------------------------------------------------------
(* The handlers.                                                           *)

DuelOK == DuelTypeOK /\ DuelInv

\* What a state with two sides needs to be one of a duel.
LEMMA DuelIntroduced ==
    ASSUME NEW a \in Players, NEW b \in Players, a # b, duel' \in DuelState(a, b), DuelInv'
    PROVE  DuelOK' /\ Sides' = {a, b} /\ duel'.step # "NONE"
  <1>1. PICK answered \in SUBSET {a, b} : duel'.reactions \in [answered -> Reactions]
    BY DEF DuelState, Answers
  <1>2. duel' \in [step : {"WAITING", "SIGNAL", "RESULT", "FINISHED"},
                   hp : [{a, b} -> 0 .. MaxHp], fouls : [{a, b} -> 0 .. MaxFouls],
                   reactions : [answered -> Reactions],
                   last : [kind : Kinds, hit : {a, b, Nobody}, ko : {a, b, Nobody},
                           foul : {a, b, Nobody}]]
    BY <1>1 DEF DuelState
  <1>3. Sides' = {a, b} /\ duel'.step # "NONE"
    BY DEF DuelState, Sides
  <1> QED BY <1>2, <1>3 DEF DuelOK, DuelTypeOK

\* What does not touch the state.
LEMMA DuelUnchangedOK ==
    ASSUME DuelOK, UNCHANGED duel
    PROVE  DuelOK' /\ Sides' = Sides
  <1>1. DuelTypeOK' <=> DuelTypeOK
    BY DEF DuelTypeOK
  <1>2. Sides' = Sides /\ Over' = Over
    BY DEF Sides, Over
  <1>3. /\ StepMatchesVerdict' <=> StepMatchesVerdict
        /\ OneStands' <=> OneStands
        /\ BothStand' <=> BothStand
    BY <1>2 DEF StepMatchesVerdict, OneStands, BothStand
  <1>4. /\ ReactionsOfThisRound' <=> ReactionsOfThisRound
        /\ NoFastLoser' <=> NoFastLoser
    BY <1>2 DEF ReactionsOfThisRound, NoFastLoser
  <1> QED BY <1>1, <1>2, <1>3, <1>4 DEF DuelOK, DuelInv

\* The first round.
LEMMA DuelStartOK ==
    ASSUME roster \subseteq Players, DuelStart
    PROVE  DuelOK'
  <1>1. PICK a \in Players, b \in Players : a # b /\ roster = {a, b}
    <2>1. IsFiniteSet(roster) /\ Cardinality(roster) = 2
      BY FS_Subset, RoomAssumption DEF DuelStart
    <2>2. PICK a \in roster : TRUE
      BY <2>1, FS_EmptySet
    <2>3. IsFiniteSet(roster \ {a}) /\ Cardinality(roster \ {a}) = 1
      BY <2>1, <2>2, FS_RemoveElement
    <2>4. PICK b : roster \ {a} = {b}
      BY <2>3, FS_Singleton
    <2>5. roster = {a, b} /\ a # b
      BY <2>2, <2>4
    <2> QED BY <2>5
  <1> DEFINE hp == [p \in {a, b} |-> MaxHp]
             fouls == [p \in {a, b} |-> 0]
  <1>2. duel' = [NoDuel EXCEPT !.step = "WAITING", !.hp = hp, !.fouls = fouls]
    BY <1>1 DEF DuelStart
  <1>3. hp \in [{a, b} -> 1 .. MaxHp] /\ fouls \in [{a, b} -> {0}]
    BY DuelAssumption
  <1>4. <<>> \in Answers(a, b) /\ DOMAIN <<>> = {}
    <2>1. <<>> \in [{} -> Reactions]
      OBVIOUS
    <2> QED BY <2>1 DEF Answers
  <1>. NoRound \in [kind : Kinds, hit : {a, b, Nobody}, ko : {a, b, Nobody},
                    foul : {a, b, Nobody}]
    BY DEF NoRound, Kinds
  <1> HIDE DEF hp, fouls
  <1>5. /\ duel'.step = "WAITING" /\ duel'.hp = hp /\ duel'.fouls = fouls
        /\ duel'.reactions = <<>> /\ duel'.last = NoRound
        /\ duel' \in DuelState(a, b)
    <2>1. duel' = [step |-> "WAITING", hp |-> hp, fouls |-> fouls, reactions |-> <<>>,
                   last |-> NoRound]
      BY <1>2 DEF NoDuel
    <2>2. hp \in [{a, b} -> 0 .. MaxHp] /\ fouls \in [{a, b} -> 0 .. MaxFouls]
      BY <1>3, DuelAssumption
    <2> QED BY <1>4, <2>1, <2>2 DEF DuelState
  <1>6. DuelInv'
    BY <1>3, <1>5, DuelAssumption
       DEF DuelInv, StepMatchesVerdict, OneStands, BothStand, ReactionsOfThisRound,
           NoFastLoser, Over, Sides, NoRound
  <1> QED BY <1>1, <1>5, <1>6, DuelIntroduced

\* A draw, in time or not.
LEMMA DrawOK ==
    ASSUME DuelOK, NEW p \in Players, Draw(p)
    PROVE  DuelOK' /\ Sides' = Sides /\ duel'.step # "NONE"
  <1>1. PICK a \in Players, b \in Players : a # b /\ duel \in DuelState(a, b)
    BY TypeForm DEF DuelOK, Draw, DuelLive, NoDuel
  <1>2. CASE UNCHANGED duel
    BY <1>2, DuelUnchangedOK DEF Draw, DuelLive
  <1>3. CASE duel' # duel
    <2>1. PICK ms \in 0 .. Slowest \cup {FOUL} :
            LET mine == IF duel.step = "WAITING" THEN FOUL ELSE ms
                r == [q \in DOMAIN duel.reactions \cup {p} |->
                        IF q = p THEN mine ELSE duel.reactions[q]]
            IN  /\ duel.step # "RESULT" /\ p \notin DOMAIN duel.reactions
                /\ duel' = IF mine = FOUL \/ DOMAIN r = Sides THEN Resolved(r)
                           ELSE [duel EXCEPT !.reactions = r, !.last = NoRound]
      BY <1>3 DEF Draw
    <2> DEFINE mine == IF duel.step = "WAITING" THEN FOUL ELSE ms
               answered == DOMAIN duel.reactions \cup {p}
               r == [q \in answered |-> IF q = p THEN mine ELSE duel.reactions[q]]
    <2>2. /\ Sides = {a, b} /\ p \in {a, b}
          /\ DOMAIN duel.reactions \in SUBSET {a, b}
          /\ duel.reactions \in [DOMAIN duel.reactions -> Reactions]
      BY <1>1 DEF DuelState, Sides, Draw, Answers
    <2>3. /\ answered \in SUBSET {a, b} /\ r \in [answered -> Reactions]
          /\ mine \in 0 .. Slowest \cup {FOUL} /\ r[p] = mine /\ p \in answered
      BY <2>2 DEF Reactions
    <2>4. /\ duel.step \in {"WAITING", "SIGNAL"} /\ duel # NoDuel
          /\ ~Over /\ BothStand /\ ReactionsOfThisRound
      BY <1>1, <2>1 DEF DuelState, DuelOK, DuelInv, StepMatchesVerdict, Draw, DuelLive, NoDuel
    <2>5. CASE mine = FOUL \/ answered = {a, b}
      <3>1. duel' = Resolved(r)
        BY <2>1, <2>2, <2>5
      <3>2. (\E q \in answered : r[q] = FOUL) \/ answered = {a, b}
        BY <2>3, <2>5
      <3> HIDE DEF mine, answered, r
      <3> QED BY <1>1, <2>3, <2>4, <2>2, <3>1, <3>2, Judgement, DuelIntroduced
    <2>6. CASE ~(mine = FOUL \/ answered = {a, b})
      <3>1. duel' = [duel EXCEPT !.reactions = r, !.last = NoRound]
        BY <2>1, <2>2, <2>6
      <3>2. duel.step = "SIGNAL" /\ \A q \in answered : r[q] >= 0
        BY <2>3, <2>4, <2>6 DEF ReactionsOfThisRound
      <3>3. r \in Answers(a, b) /\ DOMAIN r = answered
        BY <2>3 DEF Answers
      <3>4. NoRound \in [kind : Kinds, hit : {a, b, Nobody}, ko : {a, b, Nobody},
                         foul : {a, b, Nobody}]
        BY DEF NoRound, Kinds
      <3> HIDE DEF mine, answered, r
      <3>5. /\ duel' \in DuelState(a, b) /\ duel'.step = "SIGNAL" /\ duel'.reactions = r
            /\ duel'.last = NoRound /\ duel'.hp = duel.hp /\ duel'.fouls = duel.fouls
        BY <1>1, <3>1, <3>2, <3>3, <3>4 DEF DuelState
      <3>6. NoRound.ko = Nobody
        BY DEF NoRound
      <3>7. DuelInv'
        BY <2>2, <2>4, <2>6, <3>2, <3>3, <3>5, <3>6
           DEF DuelInv, StepMatchesVerdict, OneStands, BothStand, ReactionsOfThisRound,
               NoFastLoser, Over, Sides
      <3> QED BY <1>1, <2>2, <3>5, <3>7, DuelIntroduced
    <2> QED BY <2>5, <2>6
  <1> QED BY <1>2, <1>3

\* A state whose verdict is undisputed: nobody is down, and a round is open.
LEMMA OpenRound ==
    ASSUME NEW a \in Players, NEW b \in Players, a # b, duel \in DuelState(a, b),
           DuelInv, ~Over,
           duel' \in DuelState(a, b), duel'.hp = duel.hp, duel'.fouls = duel.fouls,
           duel'.last = NoRound, duel'.step \in {"WAITING", "SIGNAL"},
           ReactionsOfThisRound'
    PROVE  DuelOK' /\ Sides' = {a, b} /\ duel'.step # "NONE"
  <1>1. duel # NoDuel /\ NoRound.ko = Nobody
    BY DEF DuelState, NoDuel, NoRound
  <1>2. Sides' = Sides /\ ~Over'
    BY <1>1 DEF Sides, Over
  <1>3. StepMatchesVerdict' /\ OneStands' /\ NoFastLoser'
    BY <1>2 DEF StepMatchesVerdict, OneStands, NoFastLoser
  <1>4. BothStand'
    BY <1>1, <1>2 DEF BothStand, DuelInv
  <1> QED BY <1>3, <1>4, DuelIntroduced DEF DuelInv

\* The deadline: the signal, the result, the next round or the end.
LEMMA DuelDeadlineOK ==
    ASSUME DuelOK, DuelDeadline
    PROVE  DuelOK' /\ (DuelLive => Sides' = Sides /\ duel'.step # "NONE")
  <1>1. CASE timer = "stale" \/ ~DuelLive
    BY <1>1, DuelUnchangedOK DEF DuelDeadline, DuelLive
  <1>2. CASE ~(timer = "stale" \/ ~DuelLive)
    <2>1. PICK a \in Players, b \in Players : a # b /\ duel \in DuelState(a, b)
      BY <1>2, TypeForm DEF DuelOK, DuelLive, NoDuel
    <2>2. /\ duel' = TimedOut /\ DuelInv /\ Sides = {a, b} /\ duel # NoDuel
          /\ duel.step \in {"WAITING", "SIGNAL", "RESULT"}
      BY <1>2, <2>1 DEF DuelDeadline, DuelOK, DuelState, DuelLive, Sides, NoDuel
    <2>3. NoRound \in [kind : Kinds, hit : {a, b, Nobody}, ko : {a, b, Nobody},
                       foul : {a, b, Nobody}]
      BY DEF NoRound, Kinds
    <2>4. CASE duel.step = "WAITING"
      <3>1. duel' = [duel EXCEPT !.step = "SIGNAL", !.last = NoRound]
        BY <2>2, <2>4 DEF TimedOut
      <3>2. /\ duel' \in DuelState(a, b) /\ duel'.step = "SIGNAL" /\ duel'.last = NoRound
            /\ duel'.hp = duel.hp /\ duel'.fouls = duel.fouls
            /\ duel'.reactions = duel.reactions
        BY <2>1, <2>3, <3>1 DEF DuelState
      <3>3. ~Over /\ duel.reactions = <<>>
        BY <2>2, <2>4 DEF DuelInv, StepMatchesVerdict, ReactionsOfThisRound
      <3>4. ReactionsOfThisRound'
        <4>1. DOMAIN duel'.reactions = {} /\ Sides' = {a, b}
          BY <3>2, <3>3 DEF Sides, DuelState
        <4> QED BY <3>2, <4>1 DEF ReactionsOfThisRound
      <3> QED BY <2>1, <2>2, <3>2, <3>3, <3>4, OpenRound
    <2>5. CASE duel.step = "SIGNAL"
      <3> DEFINE r == [p \in {a, b} |-> IF p \in DOMAIN duel.reactions
                                         THEN duel.reactions[p] ELSE MISS]
      <3>1. duel' = Resolved(r)
        BY <2>2, <2>5 DEF TimedOut
      <3>2. r \in [{a, b} -> Reactions]
        BY <2>1 DEF DuelState, Answers, Reactions
      <3>3. ~Over /\ BothStand
        BY <2>2, <2>5 DEF DuelInv, StepMatchesVerdict
      <3> HIDE DEF r
      <3>4. duel' \in DuelState(a, b) /\ DuelInv'
        BY <2>1, <3>1, <3>2, <3>3, Judgement
      <3> QED BY <2>1, <2>2, <3>4, DuelIntroduced
    <2>6. CASE duel.step = "RESULT" /\ Over
      <3>1. duel' = [duel EXCEPT !.step = "FINISHED"]
        BY <2>2, <2>6 DEF TimedOut
      <3>2. /\ duel' \in DuelState(a, b) /\ duel'.step = "FINISHED" /\ duel'.last = duel.last
            /\ duel'.hp = duel.hp /\ duel'.fouls = duel.fouls
        BY <2>1, <3>1 DEF DuelState
      <3>3. Sides' = Sides /\ Over'
        BY <2>6, <3>2 DEF Sides, Over
      <3>4. StepMatchesVerdict' /\ ReactionsOfThisRound' /\ NoFastLoser'
        BY <3>2, <3>3 DEF StepMatchesVerdict, ReactionsOfThisRound, NoFastLoser
      <3>5. OneStands' /\ BothStand'
        BY <2>2, <2>6, <3>2, <3>3 DEF OneStands, BothStand, DuelInv
      <3> QED BY <2>1, <2>2, <3>2, <3>4, <3>5, DuelIntroduced DEF DuelInv
    <2>7. CASE duel.step = "RESULT" /\ ~Over
      <3>1. duel' = [duel EXCEPT !.step = "WAITING", !.reactions = <<>>, !.last = NoRound]
        BY <2>2, <2>7 DEF TimedOut, NextRound
      <3>2. <<>> \in Answers(a, b)
        <4>1. <<>> \in [{} -> Reactions]
          OBVIOUS
        <4> QED BY <4>1 DEF Answers
      <3>3. /\ duel' \in DuelState(a, b) /\ duel'.step = "WAITING" /\ duel'.last = NoRound
            /\ duel'.hp = duel.hp /\ duel'.fouls = duel.fouls
            /\ duel'.reactions = <<>>
        BY <2>1, <2>3, <3>1, <3>2 DEF DuelState
      <3>4. ReactionsOfThisRound'
        BY <3>3 DEF ReactionsOfThisRound
      <3> QED BY <2>1, <2>2, <2>7, <3>3, <3>4, OpenRound
    <2> QED BY <2>2, <2>4, <2>5, <2>6, <2>7
  <1> QED BY <1>1, <1>2

\* Leaving loses the duel, also while a result is shown.
LEMMA DuelLeaveOK ==
    ASSUME DuelOK, NEW p \in Players, DuelForfeit(p)
    PROVE  DuelOK' /\ (DuelLive => Sides' = Sides /\ duel'.step # "NONE")
  <1>1. CASE ~DuelLive \/ p \notin Sides
    BY <1>1, DuelUnchangedOK DEF DuelForfeit, DuelLive
  <1>2. CASE DuelLive /\ p \in Sides
    <2>1. PICK a \in Players, b \in Players : a # b /\ duel \in DuelState(a, b)
      BY <1>2, TypeForm DEF DuelOK, DuelLive, NoDuel
    <2> DEFINE hp == [duel.hp EXCEPT ![p] = 0]
               last == [kind |-> "FORFEIT", hit |-> p, ko |-> p, foul |-> Nobody]
    <2>2. p \in {a, b} /\ p # Nobody /\ Sides = {a, b}
      BY <1>2, <2>1, RoomAssumption DEF Sides, DuelState, Nobody
    <2>3. duel' = [duel EXCEPT !.step = "FINISHED", !.hp = hp, !.reactions = <<>>,
                               !.last = last]
      BY <1>2, <2>1 DEF DuelForfeit, DuelState
    <2>4. /\ hp \in [{a, b} -> 0 .. MaxHp] /\ hp[p] = 0
          /\ last \in [kind : Kinds, hit : {a, b, Nobody}, ko : {a, b, Nobody},
                       foul : {a, b, Nobody}]
          /\ last.kind = "FORFEIT" /\ last.ko = p
      BY <2>1, <2>2, DuelAssumption DEF DuelState, Kinds
    <2>5. <<>> \in Answers(a, b)
      <3>1. <<>> \in [{} -> Reactions]
        OBVIOUS
      <3> QED BY <3>1 DEF Answers
    <2> HIDE DEF hp, last
    <2>6. /\ duel' \in DuelState(a, b) /\ duel'.step = "FINISHED" /\ duel'.last = last
          /\ duel'.hp = hp
      BY <2>1, <2>3, <2>4, <2>5 DEF DuelState
    <2>7. Over' /\ p \in Sides'
      BY <2>2, <2>4, <2>6 DEF Over, Sides, DuelState
    <2>8. StepMatchesVerdict' /\ OneStands' /\ BothStand'
      BY <2>4, <2>6, <2>7 DEF StepMatchesVerdict, OneStands, BothStand
    <2>9. ReactionsOfThisRound' /\ NoFastLoser'
      BY <2>6 DEF ReactionsOfThisRound, NoFastLoser
    <2> QED BY <2>1, <2>2, <2>6, <2>8, <2>9, DuelIntroduced DEF DuelInv
  <1> QED BY <1>1, <1>2

\* A new room, and the lobby after a game.
LEMMA NoDuelOK ==
    /\ duel = NoDuel => DuelOK
    /\ duel' = NoDuel => DuelOK'
  BY DEF DuelOK, DuelTypeOK, DuelInv

\* Every step of a room keeps the duel in order.
LEMMA DuelStepOK ==
    ASSUME DuelOK, roster \subseteq Players, [Next]_vars
    PROVE  DuelOK'
  <1>1. CASE UNCHANGED duel
    BY <1>1, DuelUnchangedOK
  <1>2. CASE DuelStart
    BY <1>2, DuelStartOK
  <1>3. CASE DuelDeadline
    BY <1>3, DuelDeadlineOK
  <1>4. CASE DuelReset \/ DuelClose
    BY <1>4, NoDuelOK DEF DuelReset, DuelClose
  <1>5. ASSUME NEW p \in Players, Draw(p) \/ DuelLeave(p)
        PROVE  DuelOK'
    BY <1>5, DrawOK, DuelLeaveOK DEF DuelLeave
  <1> QED BY <1>1, <1>2, <1>3, <1>4, <1>5
          DEF Next, DuelNext, DuelRestart, Leave, vars, gameVars

-----------------------------------------------------------------------------
(* The theorems.                                                           *)

\* The duel is in order in every reachable state.
LEMMA AlwaysDuelOK == Spec => []DuelOK
  <1>1. Init => DuelOK
    BY NoDuelOK DEF Init, InitDuel
  <1>2. DuelOK /\ Dispatched /\ [Next]_vars => DuelOK'
    BY DuelStepOK DEF Dispatched
  <1> QED BY <1>1, <1>2, OneGamePerRoom, PTL DEF Spec

\* The types of a duel: two sides, their bullets and warnings within the rules,
\* reactions of those two only.
THEOREM DuelTypeCorrect == Spec => []DuelTypeOK
  <1>1. DuelOK => DuelTypeOK
    BY DEF DuelOK
  <1> QED BY <1>1, AlwaysDuelOK, PTL

\* A duel goes on exactly as long as both have bullets and less than all warnings.
THEOREM DuelsEndInTime == Spec => []BothStand
  <1>1. DuelOK => BothStand
    BY DEF DuelOK, DuelInv, BothStand
  <1> QED BY <1>1, AlwaysDuelOK, PTL

\* No round is judged with reactions of another, and none stays unjudged.
THEOREM RoundsAreSeparate == Spec => []ReactionsOfThisRound
  <1>1. DuelOK => ReactionsOfThisRound
    BY DEF DuelOK, DuelInv, ReactionsOfThisRound, NoDuel
  <1> QED BY <1>1, AlwaysDuelOK, PTL

\* Who reacted first never loses a bullet.
THEOREM FastestIsSafe == Spec => []NoFastLoser
  <1>1. DuelOK => NoFastLoser
    BY DEF DuelOK, DuelInv, NoFastLoser, NoDuel
  <1> QED BY <1>1, AlwaysDuelOK, PTL

\* Rounds are judged by their own reactions, and never against the faster player.
THEOREM DuelsAreFair == Spec => []RoundsAreFair
  BY RoundsAreSeparate, FastestIsSafe, PTL DEF RoundsAreFair

\* With the end of the duel (DuelIsFair): fair rounds until somebody is down, and none
\* after that.
THEOREM DuelsAreFairToTheEnd == Spec => []DuelIsFair
  BY DuelsEndInTime, DuelsAreFair, PTL DEF DuelIsFair

-----------------------------------------------------------------------------
(* Ping-pong.                                                              *)

\* A match between a, who receives first, and b.
MatchState(a, b) ==
    [step : {"PREPARING", "COUNTDOWN", "PLAYING", "FINISHED"},
     seats : {<<a, b>>}, points : [{a, b} -> Nat],
     practised : SUBSET {a, b}, ready : SUBSET {a, b},
     receiver : {a, b, Nobody}, toward : {a, b, Nobody},
     fault : BOOLEAN, left : {a, b, Nobody}]

\* By how many serves the first receiver is ahead after n: two each, then one each.
LeadAfter(n) ==
    IF n <= 2 * (WinScore - 1) THEN IF n % 4 = 3 THEN 1 ELSE n % 4
    ELSE (n - 2 * (WinScore - 1)) % 2

Played(a, b) == match.points[a] + match.points[b]
Lead(a, b) == received[a] - received[b]

\* The count of serves, in each step of a match.
ServesCounted(a, b) ==
    /\ match.step = "PREPARING" =>
         Played(a, b) = 0 /\ Lead(a, b) = 0 /\ match.receiver = a
    /\ match.step = "COUNTDOWN" =>
         /\ Lead(a, b) = LeadAfter(Played(a, b))
         /\ match.receiver = ServeReceiver(<<a, b>>, match.points)
    /\ match.step = "PLAYING" => Lead(a, b) = LeadAfter(Played(a, b) + 1)
    /\ match.step = "FINISHED" =>
         /\ Lead(a, b) \in 0 .. 2
         /\ match.left = Nobody => Lead(a, b) = LeadAfter(Played(a, b))

\* Who is ahead, as long as nobody has left.
AheadBy(x, y) == x >= WinScore /\ x - y >= 2
PointsInOrder(a, b) ==
    match.left = Nobody =>
      /\ match.points[a] > WinScore => match.points[a] - match.points[b] <= 2
      /\ match.points[b] > WinScore => match.points[b] - match.points[a] <= 2
      /\ match.step = "FINISHED" <=>
           \/ AheadBy(match.points[a], match.points[b])
           \/ AheadBy(match.points[b], match.points[a])

GateKept(a, b) ==
    /\ match.ready \subseteq match.practised
    /\ match.step \in {"COUNTDOWN", "PLAYING"} => match.ready = {a, b}
    /\ match.step = "PLAYING" => match.toward \in {a, b}
    /\ match.step # "FINISHED" => match.left = Nobody /\ roster = {a, b}

MatchOf(a, b) ==
    /\ a # b /\ match \in MatchState(a, b) /\ received \in [{a, b} -> Nat]
    /\ ServesCounted(a, b) /\ PointsInOrder(a, b) /\ GateKept(a, b)

\* A room of ping-pong plays, and has its deadline, exactly as long as its match.
MatchOK ==
    /\ Dispatched
    /\ code = "ping_pong" => 
         /\ phase = "PLAYING" <=> MatchLive
         /\ timer = IF phase = "PLAYING" THEN Clock(match) ELSE "none"
    /\ match = NoMatch \/ \E a, b \in Players : MatchOf(a, b)

-----------------------------------------------------------------------------
(* Serves and points.                                                      *)

\* The next serve goes where the count wants it, in pairs and in deuce.
LEMMA NextServe ==
    ASSUME NEW a, NEW b, a # b, NEW points \in [{a, b} -> Nat],
           NEW n \in Nat, n = points[a] + points[b],
           NEW who, who = ServeReceiver(<<a, b>>, points)
    PROVE  /\ who \in {a, b} /\ LeadAfter(n) \in 0 .. 2
           /\ who = a => LeadAfter(n + 1) = LeadAfter(n) + 1
           /\ who = b => LeadAfter(n + 1) = LeadAfter(n) - 1
  <1> DEFINE even == 2 * (WinScore - 1)
             turn == IF n < even THEN n \div 2 ELSE WinScore - 1 + (n - even)
  <1>1. who = <<a, b>>[(turn % 2) + 1]
    BY DEF ServeReceiver
  <1>2. turn \in Nat /\ WinScore \in Nat /\ WinScore % 2 = 1 /\ even \in Nat /\ even % 4 = 0
    BY PingPongAssumption
  <1>3. who = IF turn % 2 = 0 THEN a ELSE b
    <2>1. turn % 2 \in {0, 1}
      BY <1>2
    <2> HIDE DEF turn
    <2> QED BY <1>1, <2>1
  <1>4. CASE n < even
    BY <1>2, <1>3, <1>4 DEF LeadAfter
  <1>5. CASE n >= even
    BY <1>2, <1>3, <1>5 DEF LeadAfter
  <1> QED BY <1>2, <1>4, <1>5

\* The opponent is the other of two.
LEMMA OtherIs ==
    ASSUME NEW a, NEW b, a # b, match.seats = <<a, b>>
    PROVE  Seats = {a, b} /\ Other(a) = b /\ Other(b) = a
  <1>1. Seats = {a, b}
    <2>1. DOMAIN <<a, b>> = {1, 2} /\ <<a, b>>[1] = a /\ <<a, b>>[2] = b
      OBVIOUS
    <2> QED BY <2>1 DEF Seats
  <1>2. ASSUME NEW p \in {a, b}
        PROVE  Other(p) \in {a, b} \ {p}
    BY <1>1 DEF Other
  <1> QED BY <1>1, <1>2

\* Who scores is the one the ball was not left to, or the other at a fault.
LEMMA ScorerIs ==
    ASSUME NEW a, NEW b, a # b, match.seats = <<a, b>>, match.toward \in {a, b}
    PROVE  Scorer \in {a, b}
  BY OtherIs DEF Scorer

\* A point: the match ends, or the serve follows.
LEMMA PointOK ==
    ASSUME NEW a \in Players, NEW b \in Players, MatchOf(a, b), match.step = "PLAYING",
           match' = AfterPoint, UNCHANGED <<received, roster>>
    PROVE  MatchOf(a, b)'
  <1> DEFINE s == Scorer
             o == Other(s)
             points == [match.points EXCEPT ![s] = match.points[s] + 1]
             m == [match EXCEPT !.points = points, !.fault = FALSE]
  <1>1. /\ match \in MatchState(a, b) /\ a # b /\ match.seats = <<a, b>>
        /\ match.toward \in {a, b} /\ match.ready = {a, b} /\ match.left = Nobody
        /\ roster = {a, b} /\ match.ready \subseteq match.practised
        /\ received \in [{a, b} -> Nat] /\ Lead(a, b) = LeadAfter(Played(a, b) + 1)
    BY DEF MatchOf, GateKept, MatchState, ServesCounted
  <1>2. s \in {a, b} /\ o \in {a, b} \ {s}
    BY <1>1, ScorerIs, OtherIs
  <1>3. AfterPoint = IF Won(m, s) THEN [m EXCEPT !.step = "FINISHED", !.receiver = Nobody]
                     ELSE [m EXCEPT !.step = "COUNTDOWN",
                                    !.receiver = ServeReceiver(m.seats, m.points)]
    BY <1>1 DEF AfterPoint, MatchState
  <1> HIDE DEF s
  <1>4. /\ points \in [{a, b} -> Nat] /\ match.points \in [{a, b} -> Nat]
        /\ points[s] = match.points[s] + 1 /\ points[o] = match.points[o]
        /\ points[a] + points[b] = Played(a, b) + 1
    BY <1>1, <1>2 DEF MatchState, Played
  <1>5. /\ m \in MatchState(a, b) /\ m.points = points /\ m.seats = <<a, b>>
        /\ m.left = Nobody /\ m.ready = match.ready /\ m.practised = match.practised
    BY <1>1, <1>4 DEF MatchState
  <1> HIDE DEF points, m
  <1>6. /\ (Won(m, s) <=> AheadBy(points[s], points[o]))
        /\ ~AheadBy(points[o], points[s])
        /\ points[s] > WinScore => points[s] - points[o] <= 2
        /\ points[o] > WinScore => points[o] - points[s] <= 2
    <2>1. /\ ~AheadBy(match.points[s], match.points[o])
          /\ ~AheadBy(match.points[o], match.points[s])
      BY <1>1, <1>2 DEF MatchOf, PointsInOrder
    <2>2. Won(m, s) <=> AheadBy(points[s], points[o])
      BY <1>5 DEF Won, AheadBy
    <2>3. match.points[s] \in Nat /\ match.points[o] \in Nat /\ WinScore \in Nat
      BY <1>2, <1>4, PingPongAssumption
    <2> QED BY <1>4, <2>1, <2>2, <2>3 DEF AheadBy
  <1>7. PICK n \in Nat : n = Played(a, b) + 1 /\ Lead(a, b) = LeadAfter(n)
    BY <1>1, <1>4 DEF Played
  <1>8. ServeReceiver(<<a, b>>, points) \in {a, b} /\ LeadAfter(n) \in 0 .. 2
    BY <1>1, <1>4, <1>7, NextServe
  <1>9. /\ match' \in MatchState(a, b) /\ match'.points = points /\ match'.left = Nobody
        /\ match'.ready = match.ready /\ match'.practised = match.practised
        /\ match'.step = IF Won(m, s) THEN "FINISHED" ELSE "COUNTDOWN"
        /\ ~Won(m, s) => match'.receiver = ServeReceiver(<<a, b>>, points)
    BY <1>3, <1>5, <1>8 DEF MatchState
  <1>10. ServesCounted(a, b)'
    <2>1. Played(a, b)' = n /\ Lead(a, b)' = LeadAfter(n)
      BY <1>4, <1>7, <1>9 DEF Played, Lead
    <2> QED BY <1>8, <1>9, <2>1 DEF ServesCounted, LeadAfter
  <1>11. PointsInOrder(a, b)'
    BY <1>2, <1>6, <1>9 DEF PointsInOrder, AheadBy
  <1>12. GateKept(a, b)'
    BY <1>1, <1>9 DEF GateKept
  <1> QED BY <1>1, <1>9, <1>10, <1>11, <1>12 DEF MatchOf

-----------------------------------------------------------------------------
(* The handlers.                                                           *)

\* The two players of a room that starts are the host and the other.
LEMMA MatchStartOK ==
    ASSUME MatchOK, PingPongStart, Dispatched'
    PROVE  MatchOK'
  <1>1. PICK a \in Players, b \in Players :
          a # b /\ roster = {a, b} /\ Min(roster) = a /\ Max(roster) = b
    <2>1. IsFiniteSet(roster) /\ Cardinality(roster) = 2
      BY FS_Subset, RoomAssumption DEF PingPongStart, MatchOK, Dispatched
    <2>2. PICK x \in roster : TRUE
      BY <2>1, FS_EmptySet
    <2>3. IsFiniteSet(roster \ {x}) /\ Cardinality(roster \ {x}) = 1
      BY <2>1, <2>2, FS_RemoveElement
    <2>4. PICK y : roster \ {x} = {y}
      BY <2>3, FS_Singleton
    <2>5. roster = {x, y} /\ x # y /\ x \in Nat /\ y \in Nat /\ roster \subseteq Players
      BY <2>2, <2>4, RoomAssumption DEF MatchOK, Dispatched
    <2>6. CASE x < y
      <3>1. Min(roster) = x /\ Max(roster) = y
        BY <2>5, <2>6 DEF Min, Max
      <3> QED BY <2>5, <3>1
    <2>7. CASE y < x
      <3>1. Min(roster) = y /\ Max(roster) = x
        BY <2>5, <2>7 DEF Min, Max
      <3> QED BY <2>5, <3>1
    <2> QED BY <2>5, <2>6, <2>7
  <1> DEFINE points == [p \in {a, b} |-> 0]
             seats == <<a, b>>
  <1>2. /\ match' = [step |-> "PREPARING", seats |-> seats, points |-> points,
                     practised |-> {}, ready |-> {}, receiver |-> a, toward |-> Nobody,
                     fault |-> FALSE, left |-> Nobody]
        /\ received' = points
    BY <1>1 DEF PingPongStart, NoMatch
  <1>3. points \in [{a, b} -> Nat] /\ points[a] = 0 /\ points[b] = 0
    OBVIOUS
  <1> HIDE DEF points
  <1>4. match' \in MatchState(a, b)
    BY <1>2, <1>3 DEF MatchState
  <1>5. roster' = {a, b} /\ code = "ping_pong" /\ code' = code /\ phase' = "PLAYING"
        /\ timer' = Clock(match)'
    BY <1>1, <1>2 DEF PingPongStart, StartRoom, Clock
  <1>6. ServesCounted(a, b)' /\ GateKept(a, b)'
    BY <1>2, <1>3, <1>5 DEF ServesCounted, GateKept, Played, Lead
  <1>7. PointsInOrder(a, b)'
    BY <1>2, <1>3, PingPongAssumption DEF PointsInOrder, AheadBy
  <1>8. MatchOf(a, b)' /\ MatchLive'
    BY <1>1, <1>2, <1>3, <1>4, <1>6, <1>7 DEF MatchOf, MatchLive
  <1> QED BY <1>1, <1>5, <1>8 DEF MatchOK

\* What an input may do to the room: it plays on, or the match has ended.
LEMMA MatchChanged ==
    ASSUME PingPongChanged, phase = "PLAYING"
    PROVE  /\ phase' = IF match'.step = "FINISHED" THEN "FINISHED" ELSE "PLAYING"
           /\ timer' = IF match'.step = "FINISHED" THEN "none" ELSE Clock(match)'
  BY DEF PingPongChanged, GoesOn, Ends, Clock, HostJudged

\* From the two players to the room.
LEMMA MatchIntroduced ==
    ASSUME NEW a \in Players, NEW b \in Players, MatchOf(a, b)',
           Dispatched', code = "ping_pong", code' = code,
           phase' = "PLAYING" <=> match'.step # "FINISHED",
           timer' = IF match'.step = "FINISHED" THEN "none" ELSE Clock(match)'
    PROVE  MatchOK'
  <1>1. match'.step \in {"PREPARING", "COUNTDOWN", "PLAYING", "FINISHED"}
    BY DEF MatchOf, MatchState
  <1> QED BY <1>1 DEF MatchOK, MatchLive

\* A practice swing, and the second press of ready, open the gate.
LEMMA GateOK ==
    ASSUME MatchOK, NEW p \in Players, Practise(p) \/ Ready(p), Dispatched'
    PROVE  MatchOK'
  <1>1. match # NoMatch /\ match.step = "PREPARING"
    BY DEF Practise, Ready, NoMatch
  <1>2. PICK a \in Players, b \in Players : MatchOf(a, b)
    BY <1>1 DEF MatchOK
  <1>3. /\ code = "ping_pong" /\ code' = code /\ phase = "PLAYING" /\ roster' = roster
        /\ received' = received /\ roster \subseteq Players
    BY <1>1 DEF MatchOK, MatchLive, Practise, Ready, Fixed, Dispatched, OwnGame
  <1>4. match \in MatchState(a, b) /\ match.seats = <<a, b>> /\ a # b
    BY <1>2 DEF MatchOf, MatchState
  <1>5. Seats = {a, b}
    BY <1>4, OtherIs
  <1>6. /\ Played(a, b) = 0 /\ Lead(a, b) = 0 /\ match.receiver = a /\ match.left = Nobody
        /\ match.ready \subseteq match.practised /\ roster = {a, b}
    BY <1>1, <1>2 DEF MatchOf, ServesCounted, GateKept
  <1>7. CASE UNCHANGED <<match, phase, timer>>
    <2>1. MatchOf(a, b)'
      BY <1>2, <1>3, <1>7 DEF MatchOf, ServesCounted, PointsInOrder, GateKept, Played, Lead
    <2>2. timer' = Clock(match)'
      BY <1>3, <1>7 DEF MatchOK, Clock
    <2> QED BY <1>1, <1>3, <1>7, <2>1, <2>2, MatchIntroduced
  <1>8. ASSUME match' = [match EXCEPT !.practised = match.practised \cup {p}],
               p \in Seats, PingPongChanged
        PROVE  MatchOK'
    <2>1. /\ match' \in MatchState(a, b) /\ match'.step = "PREPARING"
          /\ match'.points = match.points /\ match'.receiver = a /\ match'.left = Nobody
          /\ match.practised \subseteq match'.practised /\ match'.ready = match.ready
      BY <1>1, <1>4, <1>5, <1>6, <1>8 DEF MatchState
    <2>2. MatchOf(a, b)'
      BY <1>2, <1>3, <1>4, <1>6, <2>1, <1>1
         DEF MatchOf, ServesCounted, PointsInOrder, GateKept, Played, Lead
    <2> QED BY <1>3, <1>8, <2>1, <2>2, MatchChanged, MatchIntroduced
  <1>9. CASE Ready(p)
    <2> DEFINE step == IF EveryoneReady(p) THEN "COUNTDOWN" ELSE "PREPARING"
    <2>1. /\ match' = [match EXCEPT !.ready = match.ready \cup {p}, !.step = step]
          /\ PingPongChanged /\ p \in match.practised /\ p \in {a, b}
      BY <1>1, <1>4, <1>5, <1>9 DEF Ready, Practised, MatchState
    <2>2. step = "COUNTDOWN" => match.ready \cup {p} = {a, b}
      BY <1>4, <1>5, <2>1 DEF EveryoneReady, MatchState
    <2>3. step \in {"COUNTDOWN", "PREPARING"}
      OBVIOUS
    <2> HIDE DEF step
    <2>4. /\ match' \in MatchState(a, b) /\ match'.step = step
          /\ match'.points = match.points /\ match'.receiver = a /\ match'.left = Nobody
          /\ match'.practised = match.practised /\ match'.ready = match.ready \cup {p}
      BY <1>4, <1>6, <2>1, <2>3 DEF MatchState
    <2>5. ServesCounted(a, b)'
      <3>1. Played(a, b)' = 0 /\ Lead(a, b)' = 0 /\ LeadAfter(0) = 0
        BY <1>3, <1>6, <2>4, PingPongAssumption DEF Played, Lead, LeadAfter
      <3>2. ServeReceiver(<<a, b>>, match'.points) = a
        <4>1. match'.points[a] + match'.points[b] = 0
          BY <1>6, <2>4 DEF Played
        <4> QED BY <4>1, PingPongAssumption DEF ServeReceiver
      <3> QED BY <2>3, <2>4, <3>1, <3>2 DEF ServesCounted
    <2>6. PointsInOrder(a, b)' /\ GateKept(a, b)'
      BY <1>1, <1>2, <1>3, <1>6, <2>1, <2>2, <2>3, <2>4
         DEF MatchOf, PointsInOrder, GateKept
    <2>7. MatchOf(a, b)'
      BY <1>2, <1>3, <2>4, <2>5, <2>6 DEF MatchOf
    <2> QED BY <1>3, <2>1, <2>3, <2>4, <2>7, MatchChanged, MatchIntroduced
  <1> QED BY <1>7, <1>8, <1>9 DEF Practise

\* A swing sends the ball back or changes nothing.
LEMMA SwingOK ==
    ASSUME MatchOK, NEW p \in Players, Swing(p), Dispatched'
    PROVE  MatchOK'
  <1>1. match # NoMatch /\ match.step \in {"COUNTDOWN", "PLAYING"}
    <2>1. match.step \in {"COUNTDOWN", "PLAYING"}
      BY Zenon DEF Swing
    <2> QED BY <2>1 DEF NoMatch
  <1>2. PICK a \in Players, b \in Players : MatchOf(a, b)
    BY <1>1 DEF MatchOK
  <1>3. /\ code = "ping_pong" /\ code' = code /\ phase = "PLAYING" /\ roster' = roster
        /\ received' = received /\ roster \subseteq Players /\ PingPongChanged
    BY <1>1 DEF MatchOK, MatchLive, Swing, Fixed, Dispatched, OwnGame
  <1>4. match \in MatchState(a, b) /\ match.seats = <<a, b>> /\ a # b
    BY <1>2 DEF MatchOf, MatchState
  <1>5. CASE UNCHANGED match
    <2>1. MatchOf(a, b)'
      BY <1>2, <1>3, <1>5 DEF MatchOf, ServesCounted, PointsInOrder, GateKept, Played, Lead
    <2> QED BY <1>1, <1>3, <1>5, <2>1, MatchChanged, MatchIntroduced
  <1>6. CASE match' # match
    <2>1. PICK f \in BOOLEAN : match' = [match EXCEPT !.toward = Other(p), !.fault = f]
      BY <1>6 DEF Swing
    <2>2. match.step = "PLAYING" /\ Other(p) \in {a, b}
      <3>1. match.step = "PLAYING" /\ p \in Seats
        BY <1>6, Zenon DEF Swing
      <3> QED BY <1>4, <3>1, OtherIs
    <2>3. /\ match' \in MatchState(a, b) /\ match'.step = "PLAYING" /\ match'.toward \in {a, b}
          /\ match'.points = match.points /\ match'.left = match.left
          /\ match'.practised = match.practised /\ match'.ready = match.ready
      BY <1>4, <2>1, <2>2 DEF MatchState
    <2>4. MatchOf(a, b)'
      BY <1>2, <1>3, <2>2, <2>3
         DEF MatchOf, ServesCounted, PointsInOrder, GateKept, Played, Lead
    <2> QED BY <1>3, <2>3, <2>4, MatchChanged, MatchIntroduced
  <1> QED BY <1>5, <1>6

\* The deadline: a serve, or the point of the ball that has landed.
LEMMA MatchDeadlineOK ==
    ASSUME MatchOK, PingPongDeadline, Dispatched'
    PROVE  MatchOK'
  <1>1. /\ code = "ping_pong" /\ code' = code /\ roster' = roster
        /\ roster \subseteq Players /\ Dispatched
    BY DEF PingPongDeadline, Fixed, MatchOK, Dispatched
  <1>2. CASE timer = "stale" \/ ~MatchLive
    <2>1. FALSE
      BY <1>1, <1>2 DEF PingPongDeadline, Fires, MatchOK, MatchLive, Clock
    <2> QED BY <2>1
  <1>3. CASE ~(timer = "stale" \/ ~MatchLive)
    <2>1. PICK a \in Players, b \in Players : MatchOf(a, b)
      BY <1>3 DEF MatchOK, MatchLive, NoMatch
    <2>2. /\ match \in MatchState(a, b) /\ match.seats = <<a, b>> /\ a # b
          /\ match.step \in {"PREPARING", "COUNTDOWN", "PLAYING"} /\ phase = "PLAYING"
          /\ PingPongChanged
      BY <1>1, <1>3, <2>1
         DEF MatchOf, MatchState, MatchOK, MatchLive, PingPongDeadline, NoMatch
    <2>3. CASE match.step = "COUNTDOWN"
      <3> DEFINE who == match.receiver
      <3>1. /\ match' = [match EXCEPT !.step = "PLAYING", !.fault = FALSE, !.toward = who]
            /\ received' = [received EXCEPT ![who] = received[who] + 1]
        BY <1>3, <2>3 DEF PingPongDeadline
      <3>2. /\ who = ServeReceiver(<<a, b>>, match.points)
            /\ Lead(a, b) = LeadAfter(Played(a, b)) /\ received \in [{a, b} -> Nat]
            /\ match.points \in [{a, b} -> Nat] /\ Played(a, b) \in Nat
            /\ match.ready = {a, b} /\ match.ready \subseteq match.practised
            /\ match.left = Nobody /\ roster = {a, b}
        BY <2>1, <2>2, <2>3 DEF MatchOf, ServesCounted, GateKept, MatchState, Played
      <3>3. /\ who \in {a, b}
            /\ who = a => LeadAfter(Played(a, b) + 1) = LeadAfter(Played(a, b)) + 1
            /\ who = b => LeadAfter(Played(a, b) + 1) = LeadAfter(Played(a, b)) - 1
        <4>1. PICK n \in Nat : n = Played(a, b) /\ n = match.points[a] + match.points[b]
          BY <3>2 DEF Played
        <4>2. PICK points \in [{a, b} -> Nat] : points = match.points
          BY <3>2
        <4> HIDE DEF who
        <4>3. who = ServeReceiver(<<a, b>>, points) /\ n = points[a] + points[b]
          BY <3>2, <4>1, <4>2
        <4>4. /\ who \in {a, b}
              /\ who = a => LeadAfter(n + 1) = LeadAfter(n) + 1
              /\ who = b => LeadAfter(n + 1) = LeadAfter(n) - 1
          BY <2>2, <4>3, NextServe
        <4> QED BY <4>1, <4>4
      <3> HIDE DEF who
      <3>4. /\ match' \in MatchState(a, b) /\ match'.step = "PLAYING" /\ match'.toward = who
            /\ match'.points = match.points /\ match'.left = Nobody
            /\ match'.ready = match.ready /\ match'.practised = match.practised
        BY <2>2, <3>1, <3>2, <3>3 DEF MatchState
      <3>5. /\ received' \in [{a, b} -> Nat]
            /\ Lead(a, b)' = LeadAfter(Played(a, b) + 1) /\ Played(a, b)' = Played(a, b)
        <4>1. Played(a, b)' = Played(a, b)
          BY <3>4 DEF Played
        <4>2. CASE who = a
          BY <2>2, <3>1, <3>2, <3>3, <4>1, <4>2 DEF Lead
        <4>3. CASE who = b
          BY <2>2, <3>1, <3>2, <3>3, <4>1, <4>3 DEF Lead
        <4> QED BY <3>3, <4>2, <4>3
      <3>6. ServesCounted(a, b)'
        BY <3>4, <3>5 DEF ServesCounted
      <3>7. PointsInOrder(a, b)' /\ GateKept(a, b)'
        BY <1>1, <2>1, <2>3, <3>2, <3>3, <3>4 DEF MatchOf, PointsInOrder, GateKept
      <3>8. MatchOf(a, b)'
        BY <2>2, <3>4, <3>5, <3>6, <3>7 DEF MatchOf
      <3> QED BY <1>1, <2>2, <3>4, <3>8, MatchChanged, MatchIntroduced
    <2>4. CASE match.step = "PLAYING"
      <3>1. match' = AfterPoint /\ received' = received
        BY <1>3, <2>4 DEF PingPongDeadline
      <3>2. MatchOf(a, b)'
        BY <1>1, <2>1, <2>4, <3>1, PointOK
      <3> QED BY <1>1, <2>2, <3>2, MatchChanged, MatchIntroduced
    <2>5. CASE match.step = "PREPARING"
      <3>1. timer = "none"
        BY <1>1, <2>2, <2>5 DEF MatchOK, Clock
      <3> QED BY <3>1 DEF PingPongDeadline, Fires
    <2> QED BY <2>2, <2>3, <2>4, <2>5
  <1> QED BY <1>2, <1>3

\* The count never says more than two.
LEMMA LeadBound ==
    ASSUME NEW n \in Nat
    PROVE  LeadAfter(n) \in 0 .. 2
  BY PingPongAssumption DEF LeadAfter

\* Leaving cancels the preparation, and ends a match that has begun.
LEMMA MatchLeaveOK ==
    ASSUME MatchOK, NEW p \in Players, PingPongLeave(p), Dispatched'
    PROVE  MatchOK'
  <1>1. /\ code = "ping_pong" /\ code' = code /\ phase = "PLAYING" /\ MatchLive
        /\ roster' = roster \ {p} /\ p \in roster /\ received' = received
    BY DEF PingPongLeave, Fixed, MatchOK
  <1>2. CASE match.step = "PREPARING"
    BY <1>1, <1>2 DEF PingPongLeave, Cancelled, MatchOK, MatchLive, NoMatch
  <1>3. CASE match.step # "PREPARING"
    <2>1. PICK a \in Players, b \in Players : MatchOf(a, b)
      BY <1>1 DEF MatchOK, MatchLive, NoMatch
    <2>2. /\ match \in MatchState(a, b) /\ match.seats = <<a, b>> /\ a # b
          /\ match.step \in {"COUNTDOWN", "PLAYING"} /\ roster = {a, b}
          /\ match.ready \subseteq match.practised /\ received \in [{a, b} -> Nat]
      BY <1>1, <1>3, <2>1 DEF MatchOf, MatchState, MatchLive, GateKept
    <2> DEFINE o == Other(p)
               points == [match.points EXCEPT ![o] = WinScore]
    <2>3. o \in {a, b} /\ p \in {a, b} /\ p # Nobody
      BY <1>1, <2>2, OtherIs, RoomAssumption DEF Nobody
    <2>4. /\ match' = [match EXCEPT !.step = "FINISHED", !.points = points,
                                    !.receiver = Nobody, !.left = p]
          /\ PingPongChanged
      BY <1>3, <2>2 DEF PingPongLeave, PingPongForfeit, MatchState
    <2>5. points \in [{a, b} -> Nat]
      BY <2>2, <2>3, PingPongAssumption DEF MatchState
    <2> HIDE DEF o, points
    <2>6. /\ match' \in MatchState(a, b) /\ match'.step = "FINISHED" /\ match'.left = p
          /\ match'.ready = match.ready /\ match'.practised = match.practised
      BY <2>2, <2>3, <2>4, <2>5 DEF MatchState
    <2>7. Lead(a, b) \in 0 .. 2
      <3>1. Played(a, b) \in Nat
        BY <2>2 DEF MatchState, Played
      <3>2. PICK n \in Nat : Lead(a, b) = LeadAfter(n)
        BY <2>1, <2>2, <3>1 DEF MatchOf, ServesCounted
      <3> QED BY <3>2, LeadBound
    <2>8. ServesCounted(a, b)' /\ PointsInOrder(a, b)' /\ GateKept(a, b)'
      BY <1>1, <2>2, <2>3, <2>6, <2>7 DEF ServesCounted, PointsInOrder, GateKept, Lead
    <2>9. MatchOf(a, b)'
      BY <1>1, <2>2, <2>6, <2>8 DEF MatchOf
    <2> QED BY <1>1, <2>4, <2>6, <2>9, MatchChanged, MatchIntroduced
  <1> QED BY <1>2, <1>3

\* The room after a match that is over, or before it has begun.
LEMMA IdleOK ==
    ASSUME MatchOK, UNCHANGED <<code, match, received>>, phase # "PLAYING",
           phase' # "PLAYING", timer' = "none", Dispatched'
    PROVE  MatchOK'
  <1>1. CASE match = NoMatch
    BY <1>1 DEF MatchOK, MatchLive, NoMatch
  <1>2. CASE match # NoMatch
    <2>1. PICK a \in Players, b \in Players : MatchOf(a, b)
      BY <1>2 DEF MatchOK
    <2>2. code = "ping_pong" /\ match.step = "FINISHED"
      BY <1>2, <2>1 DEF MatchOK, MatchLive, Dispatched, OwnGame, MatchOf, MatchState
    <2>3. MatchOf(a, b)'
      BY <2>1, <2>2 DEF MatchOf, ServesCounted, PointsInOrder, GateKept, Played, Lead
    <2> QED BY <2>2, <2>3 DEF MatchOK, MatchLive
  <1> QED BY <1>1, <1>2

\* Back to the lobby, and the end of the room.
LEMMA ClearedOK ==
    ASSUME MatchOK, PingPongReset \/ PingPongClose, Dispatched'
    PROVE  MatchOK'
  BY DEF PingPongReset, PingPongClose, ReturnRoom, CloseRoom, MatchOK, MatchLive, NoMatch

\* A restart sets the deadline of the stored state again.
LEMMA MatchRestartOK ==
    ASSUME MatchOK, PingPongRestart, Dispatched'
    PROVE  MatchOK'
  <1>1. /\ code = "ping_pong" /\ UNCHANGED <<code, match, received, roster>>
        /\ phase = "PLAYING" <=> MatchLive
    BY DEF PingPongRestart, RestartRoom, MatchOK, pingPongVars
  <1>2. CASE phase = "PLAYING"
    <2>1. PICK a \in Players, b \in Players : MatchOf(a, b)
      BY <1>1, <1>2 DEF MatchOK, MatchLive, NoMatch
    <2>2. MatchOf(a, b)' /\ phase' = "PLAYING" /\ timer' = Clock(match)'
          /\ match'.step # "FINISHED"
      BY <1>1, <1>2, <2>1 DEF MatchOf, ServesCounted, PointsInOrder, GateKept, Played, Lead,
                              PingPongRestart, RestartRoom, MatchLive, Clock, HostJudged
    <2> QED BY <1>1, <2>2, MatchIntroduced
  <1>3. CASE phase # "PLAYING"
    <2>1. phase' # "PLAYING" /\ timer' = "none"
      BY <1>1, <1>3 DEF PingPongRestart, RestartRoom
    <2> QED BY <1>1, <1>3, <2>1, IdleOK
  <1> QED BY <1>2, <1>3

\* Every step of a room keeps its match in order.
LEMMA MatchStepOK ==
    ASSUME MatchOK, [Next]_vars
    PROVE  MatchOK'
  <1>1. Dispatched' /\ code' = code
    BY DispatchStep, RosterShrinks DEF MatchOK
  <1>2. CASE PingPongNext
    BY <1>1, <1>2, MatchStartOK, MatchDeadlineOK, ClearedOK, MatchRestartOK, GateOK, SwingOK,
       MatchLeaveOK DEF PingPongNext
  <1>3. CASE (DavinciNext \/ DuelNext) /\ UNCHANGED pingPongVars
    <2>1. code # "ping_pong"
      BY <1>3, RightModule DEF MatchOK, Dispatched
    <2> QED BY <1>1, <1>3, <2>1 DEF MatchOK, Dispatched, OwnGame, pingPongVars
  <1>4. ASSUME NEW p \in Players, Leave(p)
        PROVE  MatchOK'
    <2>1. /\ UNCHANGED <<code, match, received, timer>>
          /\ phase # "PLAYING" /\ phase' # "PLAYING"
      BY <1>4 DEF Leave, LeaveIdle, gameVars, pingPongVars
    <2>2. CASE code = "ping_pong"
      BY <1>1, <2>1, <2>2, IdleOK DEF MatchOK
    <2>3. CASE code # "ping_pong"
      BY <1>1, <2>1, <2>3 DEF MatchOK, Dispatched, OwnGame
    <2> QED BY <2>2, <2>3
  <1>5. CASE UNCHANGED vars
    <2>1. UNCHANGED <<code, phase, timer, roster, match, received>>
      BY <1>5 DEF vars, room, gameVars, pingPongVars
    <2>2. ASSUME NEW a \in Players, NEW b \in Players, MatchOf(a, b)
          PROVE  MatchOf(a, b)'
      BY <2>1, <2>2 DEF MatchOf, ServesCounted, PointsInOrder, GateKept, Played, Lead
    <2> QED BY <1>1, <2>1, <2>2 DEF MatchOK, MatchLive, Clock, HostJudged
  <1> QED BY <1>2, <1>3, <1>4, <1>5 DEF Next

-----------------------------------------------------------------------------
(* The theorems.                                                           *)

\* The match is in order in every reachable state.
LEMMA AlwaysMatchOK == Spec => []MatchOK
  <1>1. Init => MatchOK
    BY DEF Init, InitRoom, InitDavinci, InitDuel, InitPingPong, MatchOK,
       MatchLive, NoMatch, Dispatched, OwnGame
  <1> QED BY <1>1, MatchStepOK, PTL DEF Spec

\* The seats, points and presses are those of two players of the room.
THEOREM MatchTypeCorrect == Spec => []PingPongTypeOK
  <1>1. MatchOK => PingPongTypeOK
    BY DEF MatchOK, MatchOf, MatchState, PingPongTypeOK
  <1> QED BY <1>1, AlwaysMatchOK, PTL

\* Whatever the winning score: nobody is two serves ahead of a full pair, and deuce
\* alternates.
THEOREM ServesShared == Spec => []ServesAreShared
  <1>1. ASSUME MatchOK, match # NoMatch
        PROVE  ServesAreShared
    <2>1. PICK a \in Players, b \in Players : MatchOf(a, b)
      BY <1>1 DEF MatchOK
    <2>2. /\ match \in MatchState(a, b) /\ match.seats[1] = a /\ match.seats[2] = b
          /\ Played(a, b) \in Nat
      BY <2>1 DEF MatchOf, MatchState, Played
    <2>3. Lead(a, b) \in 0 .. 2
      BY <2>1, <2>2, LeadBound DEF MatchOf, ServesCounted, MatchState
    <2>4. ASSUME Played(a, b) > 2 * (WinScore - 1), match.left = Nobody
          PROVE  Lead(a, b) \in 0 .. 1
      BY <2>1, <2>2, <2>4, PingPongAssumption DEF MatchOf, ServesCounted, MatchState, LeadAfter
    <2> QED BY <2>2, <2>3, <2>4 DEF ServesAreShared, Lead, Played
  <1>2. MatchOK => ServesAreShared
    BY <1>1 DEF ServesAreShared
  <1> QED BY <1>2, AlwaysMatchOK, PTL

\* A match ends at the first moment somebody has the score and is two ahead.
THEOREM MatchesAreWonByTwo == Spec => []WonByTwo
  <1>1. ASSUME MatchOK, match # NoMatch, match.left = Nobody
        PROVE  WonByTwo
    <2>1. PICK a \in Players, b \in Players : MatchOf(a, b)
      BY <1>1 DEF MatchOK
    <2>2. Seats = {a, b} /\ Other(a) = b /\ Other(b) = a
      BY <2>1, OtherIs DEF MatchOf, MatchState
    <2>3. PointsInOrder(a, b)
      BY <2>1 DEF MatchOf
    <2> QED BY <1>1, <2>2, <2>3 DEF WonByTwo, PointsInOrder, AheadBy
  <1>2. MatchOK => WonByTwo
    BY <1>1 DEF WonByTwo
  <1> QED BY <1>2, AlwaysMatchOK, PTL

\* Both (MatchIsFair): for any odd winning score, deuce included.
THEOREM MatchesAreFair == Spec => []MatchIsFair
  BY ServesShared, MatchesAreWonByTwo, PTL DEF MatchIsFair

\* No match begins before both have swung and pressed ready, nor goes on with one.
THEOREM MatchesBeginTogether == Spec => []BegunTogether
  <1>1. ASSUME MatchOK, match.step \in {"COUNTDOWN", "PLAYING"}
        PROVE  BegunTogether
    <2>1. PICK a \in Players, b \in Players : MatchOf(a, b)
      BY <1>1 DEF MatchOK, NoMatch
    <2>2. Seats = {a, b}
      BY <2>1, OtherIs DEF MatchOf, MatchState
    <2> QED BY <1>1, <2>1, <2>2 DEF BegunTogether, MatchOf, MatchState, GateKept
  <1>2. MatchOK => BegunTogether
    BY <1>1 DEF BegunTogether
  <1> QED BY <1>2, AlwaysMatchOK, PTL

=============================================================================
