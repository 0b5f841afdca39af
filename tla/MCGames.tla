------------------------------ MODULE MCGames ------------------------------
(* Three seats; Da Vinci Code with black and white 0, black 1 and 2 and a    *)
(* joker; three bullets; matches to five points.                             *)
EXTENDS Games
MCTiles == {0, 1, 2, 4, -1}
MCMaxPlayers == [c \in Codes |-> IF c = "davinci_code" THEN 3 ELSE 2]
=============================================================================
