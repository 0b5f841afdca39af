-------------------------------- MODULE Duel --------------------------------
(***************************************************************************)
(* The duel in a room: rounds of waiting, signal and result, two reactions  *)
(* that may arrive in any order or not at all, false starts, and the one    *)
(* deadline that moves everything on (src/backend/src/game/duel).           *)
(*                                                                          *)
(* A reaction is a time in 0 .. Slowest, FOUL or MISS.  The code bounds the *)
(* reported time by the time elapsed on the server, which may be any; round *)
(* numbers and times of day are left out.  Input numbers are too: what an   *)
(* old number does is the subject of module Client.                         *)
(***************************************************************************)
EXTENDS GameRoom

CONSTANTS
    MaxHp,      \* MAX_HP
    MaxFouls,   \* MAX_FOULS
    Slowest     \* bound: the slowest reaction

FOUL == -1
MISS == -2

ASSUME DuelAssumption ==
    MaxHp \in Nat \ {0} /\ MaxFouls \in Nat \ {0} /\ Slowest \in Nat

VARIABLE duel   \* the state in the store, NoDuel when there is none

Kinds == {"NONE", "TIE", "SHOT", "WARNING", "SELF_SHOT", "FORFEIT"}

NoRound == [kind |-> "NONE", hit |-> Nobody, ko |-> Nobody, foul |-> Nobody]

NoDuel == [step |-> "NONE", hp |-> <<>>, fouls |-> <<>>, reactions |-> <<>>,
           last |-> NoRound]

Sides == DOMAIN duel.hp
Over == duel.last.ko # Nobody
DuelLive == duel.step \notin {"NONE", "FINISHED"}

-----------------------------------------------------------------------------
(* The judgement of a round.                                               *)

FirstDrawWins(a, b) ==   \* mutant: sentinels are compared as if they were times
    a < b

\* compareDraw: who reacted at all wins against who did not, else the faster.
Faster(a, b) == a >= 0 /\ (b < 0 \/ a < b)

Less(n) == IF n > 0 THEN n - 1 ELSE 0

\* shootout: no winner, or the loser takes a bullet.
Shootout(r) ==
    LET lost == {p \in Sides : \E q \in Sides \ {p} : Faster(r[q], r[p])} IN
    IF lost = {} THEN [duel EXCEPT !.last = [NoRound EXCEPT !.kind = "TIE"]]
    ELSE LET hit == CHOOSE p \in lost : TRUE
             left == Less(duel.hp[hit])
         IN  [duel EXCEPT
                !.hp[hit] = left,
                !.last = [kind |-> "SHOT", hit |-> hit,
                          ko |-> IF left = 0 THEN hit ELSE Nobody, foul |-> Nobody]]

\* penalty: a warning, then the end of the duel whatever bullets are left.
Penalty(p) ==
    LET count == duel.fouls[p] + 1 IN
    IF count < MaxFouls
    THEN [duel EXCEPT !.fouls[p] = count,
                      !.last = [kind |-> "WARNING", hit |-> Nobody, ko |-> Nobody, foul |-> p]]
    ELSE [duel EXCEPT !.fouls[p] = count, !.hp[p] = Less(@),
                      !.last = [kind |-> "SELF_SHOT", hit |-> p, ko |-> p, foul |-> p]]

\* resolveRound, from the reactions of both; one of them may have fouled.
Resolved(r) ==
    LET fouled == {p \in DOMAIN r : r[p] = FOUL} IN
    [(IF fouled # {} THEN Penalty(CHOOSE p \in fouled : TRUE) ELSE Shootout(r))
        EXCEPT !.step = "RESULT", !.reactions = r]

-----------------------------------------------------------------------------
(* The handlers.                                                           *)

InitDuel == duel = NoDuel

\* Exactly two: anything else fails in the module, and START is rolled back.
DuelStart ==
    /\ code = "duel" /\ duel = NoDuel
    /\ Cardinality(roster) = 2
    /\ StartRoom("current")
    /\ duel' = [NoDuel EXCEPT !.step = "WAITING",
                              !.hp = [p \in roster |-> MaxHp],
                              !.fouls = [p \in roster |-> 0]]

BulletsCount ==   \* mutant: who is disqualified keeps the bullets as points
    IF duel'.step # "FINISHED" THEN GoesOn("current") ELSE Ends(duel'.hp)

\* changed: whoever went down has nothing, the others the bullets they have left.
DuelChanged ==
    IF duel'.step # "FINISHED" THEN GoesOn("current")
    ELSE Ends([p \in Sides |-> IF p = duel'.last.ko THEN 0 ELSE duel'.hp[p]])

\* A draw of a fresh number.  One that comes too late, or again, only counts the
\* version, with which the deadline is set again.
Draw(p) ==
    /\ code = "duel" /\ DuelLive /\ p \in Sides
    /\ \E ms \in 0 .. Slowest \cup {FOUL} :
         IF duel.step = "RESULT" \/ p \in DOMAIN duel.reactions THEN UNCHANGED duel
         ELSE LET mine == IF duel.step = "WAITING" THEN FOUL ELSE ms
                  r == [q \in DOMAIN duel.reactions \cup {p} |->
                          IF q = p THEN mine ELSE duel.reactions[q]]
              IN  duel' = IF mine = FOUL \/ DOMAIN r = Sides THEN Resolved(r)
                          ELSE [duel EXCEPT !.reactions = r, !.last = NoRound]
    /\ Fixed /\ roster' = roster /\ DuelChanged

\* nextRound
NextRound == [duel EXCEPT !.step = "WAITING", !.reactions = <<>>, !.last = NoRound]

NothingMissed ==   \* mutant: a signal nobody answers is not resolved
    IF duel.step = "SIGNAL" /\ duel.reactions = <<>> THEN duel
    ELSE IF duel.step = "SIGNAL"
    THEN Resolved([p \in Sides |-> IF p \in DOMAIN duel.reactions
                                   THEN duel.reactions[p] ELSE MISS])
    ELSE IF duel.step = "WAITING" THEN [duel EXCEPT !.step = "SIGNAL", !.last = NoRound]
    ELSE IF Over THEN [duel EXCEPT !.step = "FINISHED"] ELSE NextRound

\* timeout: signal, then expire with a MISS for who has not drawn, then the next
\* round or the end.
TimedOut ==
    CASE duel.step = "WAITING" -> [duel EXCEPT !.step = "SIGNAL", !.last = NoRound]
      [] duel.step = "SIGNAL" ->
           Resolved([p \in Sides |-> IF p \in DOMAIN duel.reactions
                                     THEN duel.reactions[p] ELSE MISS])
      [] duel.step = "RESULT" ->
           IF Over THEN [duel EXCEPT !.step = "FINISHED"] ELSE NextRound

DuelDeadline ==
    /\ code = "duel" /\ Fires /\ Fixed /\ roster' = roster
    /\ IF timer = "stale" \/ ~DuelLive
       THEN FiresStale /\ UNCHANGED duel
       ELSE duel' = TimedOut /\ DuelChanged

\* forfeit, at any moment before the end: also while the result is shown.
DuelForfeit(p) ==
    IF ~DuelLive \/ p \notin Sides
    THEN UNCHANGED <<phase, timer, duel>> /\ scores' = Remaining
    ELSE /\ duel' = [duel EXCEPT !.step = "FINISHED", !.hp[p] = 0, !.reactions = <<>>,
                       !.last = [kind |-> "FORFEIT", hit |-> p, ko |-> p, foul |-> Nobody]]
         /\ DuelChanged

\* DELETE players/me takes the seat in the roster, then forfeits; room.leave on
\* the socket only forfeits.
DuelLeave(p) ==
    /\ code = "duel" /\ p \in roster /\ phase = "PLAYING" /\ Fixed
    /\ roster' \in {roster \ {p}, roster}
    /\ DuelForfeit(p)

DuelReset == code = "duel" /\ ReturnRoom /\ duel' = NoDuel
DuelClose == code = "duel" /\ CloseRoom /\ duel' = NoDuel

DuelRestart == code = "duel" /\ RestartRoom(DuelLive, "current") /\ UNCHANGED duel

DuelNext ==
    \/ DuelStart \/ DuelDeadline \/ DuelReset \/ DuelClose \/ DuelRestart
    \/ \E p \in Players : Draw(p) \/ DuelLeave(p)

-----------------------------------------------------------------------------
(* What the duel promises.                                                 *)

Reactions == 0 .. Slowest \cup {FOUL, MISS}

\* The type of the state: two sides, or none before the start.
DuelTypeOK ==
    \/ duel = NoDuel
    \/ \E a, b \in Players : \E answered \in SUBSET {a, b} :
         /\ a # b
         /\ duel \in [step : {"WAITING", "SIGNAL", "RESULT", "FINISHED"},
                      hp : [{a, b} -> 0 .. MaxHp], fouls : [{a, b} -> 0 .. MaxFouls],
                      reactions : [answered -> Reactions],
                      last : [kind : Kinds, hit : {a, b, Nobody}, ko : {a, b, Nobody},
                              foul : {a, b, Nobody}]]

\* A duel goes on exactly as long as both stand: nobody without bullets and
\* nobody with the last warning plays another round, and no duel is over while
\* both could.
BothStand ==
    duel # NoDuel =>
      (Over <=> \E p \in Sides : duel.hp[p] = 0 \/ duel.fouls[p] >= MaxFouls)

\* The deadline brings no round to an end twice: reactions are those of the
\* round being played, and nobody has fouled or missed without its result.
ReactionsOfThisRound ==
    /\ duel.step = "WAITING" => duel.reactions = <<>>
    /\ duel.step = "SIGNAL" =>
         /\ DOMAIN duel.reactions # Sides
         /\ \A p \in DOMAIN duel.reactions : duel.reactions[p] >= 0

\* Unless a player leaves, the one who stands outranks the one who went down, also
\* when the loser was disqualified with more bullets than the winner.
StandingOutranksFallen ==
    (code = "duel" /\ phase = "FINISHED" /\ duel.last.kind # "FORFEIT") =>
      \A p, q \in roster \cap Sides :
        p = duel.last.ko /\ q # p => scores[p] < scores[q]

\* A bullet is lost to a faster opponent, to the last warning or by leaving, and a
\* player who reacted first never loses one.
NoFastLoser ==
    duel.step = "RESULT" /\ duel.last.kind = "SHOT" =>
      \A p \in Sides \ {duel.last.hit} :
        /\ duel.reactions[p] >= 0
        /\ duel.reactions[duel.last.hit] < 0
             \/ duel.reactions[p] < duel.reactions[duel.last.hit]

\* A round is judged by its own reactions, against the slower player.
RoundsAreFair == ReactionsOfThisRound /\ NoFastLoser

\* Fair rounds, and as many of them as it takes until somebody is down.
DuelIsFair == BothStand /\ RoundsAreFair

\* No step of a duel lasts for ever, whatever the players do: the clock brings the
\* signal, the result and the next round.
DuelGoesOn ==
    \A s \in {"WAITING", "SIGNAL", "RESULT"} : duel.step = s ~> duel.step # s

=============================================================================
