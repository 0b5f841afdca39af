----------------------------- MODULE TurnCycle -----------------------------
(***************************************************************************)
(* What a yacht game promises about turns, without saying how: in every    *)
(* round each participant gets exactly one turn, one after the other;      *)
(* somebody who leaves takes no further turn and costs nobody else theirs; *)
(* after the last round there are no turns any more.  YachtTurns           *)
(* implements this with a list and an index into it.                       *)
(***************************************************************************)
EXTENDS Integers

CONSTANTS Players, TotalRounds

VARIABLES
    round,     \* round being played, 0 when there is no game
    current,   \* whose turn it is ({} or a singleton)
    waiting,   \* who still has a turn coming in this round
    played,    \* who had theirs
    over       \* the last round is over

vars == <<round, current, waiting, played, over>>

TypeOK ==
    /\ round \in 0 .. TotalRounds
    /\ current \subseteq Players /\ \A p, q \in current : p = q
    /\ waiting \subseteq Players
    /\ played \subseteq Players
    /\ over \in BOOLEAN

Init ==
    /\ round = 0
    /\ current = {} /\ waiting = {} /\ played = {}
    /\ over = FALSE

\* A game begins with everybody waiting but the one who starts.
Begin(S, first) ==
    /\ round = 0
    /\ round' = 1
    /\ current' = {first} /\ waiting' = S \ {first} /\ played' = {}
    /\ over' = FALSE

InGame == round > 0 /\ ~over

\* The turn passes to somebody who has not had one in this round.
PassOn(next) ==
    /\ InGame
    /\ next \in waiting
    /\ current' = {next} /\ waiting' = waiting \ {next}
    /\ played' = played \cup current
    /\ UNCHANGED <<round, over>>

\* The last turn of a round opens the next one, in which everybody plays.
NextRound(first) ==
    /\ InGame
    /\ waiting = {} /\ round < TotalRounds
    /\ first \in played \cup current
    /\ round' = round + 1
    /\ current' = {first}
    /\ waiting' = (played \cup current) \ {first}
    /\ played' = {}
    /\ UNCHANGED over

\* The last turn of the last round ends the game.
LastTurn ==
    /\ InGame
    /\ waiting = {} /\ round = TotalRounds
    /\ over' = TRUE
    /\ UNCHANGED <<round, current, waiting, played>>

\* Somebody whose turn it is not leaves: everybody else keeps their place.
Withdraw(p) ==
    /\ InGame
    /\ p \in waiting \cup played
    /\ waiting' = waiting \ {p}
    /\ played' = played \ {p}
    /\ UNCHANGED <<round, current, over>>

\* The game is cleared away, finished or not.
Discard ==
    /\ round > 0
    /\ round' = 0
    /\ current' = {} /\ waiting' = {} /\ played' = {}
    /\ over' = FALSE

Next ==
    \/ \E S \in SUBSET Players : \E first \in S : Begin(S, first)
    \/ \E p \in Players : PassOn(p) \/ NextRound(p) \/ Withdraw(p)
    \/ LastTurn
    \/ Discard

Spec == Init /\ [][Next]_vars
=============================================================================
