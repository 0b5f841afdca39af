SPECIFICATION Spec
CONSTANTS
  Players = {p1, p2}
  Host = p1
  MaxAttempts = 1
  MaxGames = 1
  MaxMoves = 1
  Busy = {p2}
  MaxInputs = 1
  Happens = {"reload"}
  MaxFaults = 1
CHECK_DEADLOCK FALSE
INVARIANTS InputsAreNew
