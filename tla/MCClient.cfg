SPECIFICATION FairSpec
CONSTANTS
  Players = {p1, p2}
  Host = p1
  MaxAttempts = 1
  MaxGames = 2
  MaxMoves = 1
  Busy = {p2}
  MaxInputs = 1
  Happens = {"drop", "reload", "restart", "idle"}
  MaxFaults = 1
CHECK_DEADLOCK FALSE
INVARIANTS ScreenFollows NobodyTurnedAway
PROPERTIES ResultIsFinal PagesSettle
