SPECIFICATION FairSpec
CONSTANTS
  Players = {1, 2}
  Codes = {"ping_pong"}
  MinPlayers = 2
  MaxPlayers <- MCMaxPlayers
  Party = TRUE
  MaxGames = 2
  MaxRestarts = 1
  Tiles <- MCTiles
  HandSizeFew = 2
  HandSizeMany = 1
  ManyPlayers = 3
  MaxHp = 3
  MaxFouls = 2
  Slowest = 1
  WinScore = 5
  MaxPoints = 12
CHECK_DEADLOCK FALSE
PROPERTY ReadyPairStarts
