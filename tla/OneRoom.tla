------------------------------ MODULE OneRoom ------------------------------
(***************************************************************************)
(* What a room promises, as if it were one thing: people who sit in it, a  *)
(* host among them, points for every seat, and a game that begins and ends *)
(* for all of them.  Nothing of it can be missing by itself, and it goes   *)
(* all at once.  Room implements it with hashes, a counter and an expiry   *)
(* for each key.                                                           *)
(***************************************************************************)
EXTENDS Integers, FiniteSets

CONSTANTS Humans, Bots, NoOne, MinPlayers

VARIABLES
    phase,     \* "NONE" when there is no room
    seats,     \* who sits in it
    host,
    points     \* of each seat, 0 for who has none

vars == <<phase, seats, host, points>>

NoPoints == [p \in Humans \cup Bots |-> 0]

Init == phase = "NONE" /\ seats = {} /\ host = NoOne /\ points = NoPoints

Open(h) ==
    /\ phase = "NONE"
    /\ phase' = "LOBBY" /\ host' = h
    /\ UNCHANGED <<seats, points>>

\* Before a game only, with nothing to one's name; a room whose host is not there
\* gets one.  A bot sits down where a host is there to ask for it.
Sit(p) ==
    /\ phase = "LOBBY"
    /\ p \notin seats
    /\ p \in Bots => host \in seats
    /\ seats' = seats \cup {p}
    /\ host' = IF host \in seats' THEN host ELSE p
    /\ UNCHANGED <<phase, points>>

\* A host is followed by a human who stays, if one does.
Rise(p) ==
    /\ phase # "NONE"
    /\ p \in seats
    /\ p \in Bots => phase = "LOBBY"
    /\ seats' = seats \ {p}
    /\ points' = [points EXCEPT ![p] = 0]
    /\ \/ host # p /\ UNCHANGED host
       \/ host = p /\ host' \in seats' \cap Humans
       \/ host = p /\ seats' \cap Humans = {} /\ host' = NoOne
    /\ UNCHANGED phase

Begin ==
    /\ phase = "LOBBY" /\ Cardinality(seats) >= MinPlayers
    /\ phase' = "PLAYING"
    /\ UNCHANGED <<seats, host, points>>

\* Points are won, never lost, by somebody who sits in the game that is on.
Score(p) ==
    /\ phase = "PLAYING"
    /\ p \in seats
    /\ points'[p] >= points[p]
    /\ points' = [points EXCEPT ![p] = points'[p]]
    /\ UNCHANGED <<phase, seats, host>>

\* A start is taken back only while nobody has won anything.
TakeBack ==
    /\ phase = "PLAYING" /\ points = NoPoints
    /\ phase' = "LOBBY"
    /\ UNCHANGED <<seats, host, points>>

End ==
    /\ phase = "PLAYING"
    /\ phase' = "FINISHED"
    /\ UNCHANGED <<seats, host, points>>

PlayAgain ==
    /\ phase = "FINISHED"
    /\ phase' = "LOBBY" /\ points' = NoPoints
    /\ UNCHANGED <<seats, host>>

Vanish ==
    /\ phase # "NONE"
    /\ phase' = "NONE" /\ seats' = {} /\ host' = NoOne /\ points' = NoPoints

Next ==
    \/ \E p \in Humans : Open(p)
    \/ \E p \in Humans \cup Bots : Sit(p) \/ Rise(p) \/ Score(p)
    \/ Begin \/ TakeBack \/ End \/ PlayAgain \/ Vanish

Spec == Init /\ [][Next]_vars
=============================================================================
