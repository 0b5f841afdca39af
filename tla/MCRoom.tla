------------------------------- MODULE MCRoom -------------------------------
(* Small instances of Room for TLC.                                        *)
EXTENDS Room

\* Two throws in two categories: one upper, worth the bonus at once with the
\* first throw, and one lower.
MCScoreOf ==
    [<<c, d>> \in Categories \X Dices |-> IF d = "low" THEN 0
                                     ELSE IF c \in UpperCategories THEN 3 ELSE 2]
=============================================================================
