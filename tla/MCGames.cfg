SPECIFICATION FairSpec
CONSTANTS
  Players = {1, 2, 3}
  Codes = {"davinci_code", "duel", "ping_pong"}
  MinPlayers = 2
  MaxPlayers <- MCMaxPlayers
  Party = FALSE
  MaxGames = 2
  MaxRestarts = 1
  Tiles <- MCTiles
  HandSizeFew = 1
  HandSizeMany = 1
  ManyPlayers = 3
  MaxHp = 3
  MaxFouls = 2
  Slowest = 1
  WinScore = 5
  MaxPoints = 12
CHECK_DEADLOCK FALSE
INVARIANTS ClockOfTheGame RankingIsFair LobbyIsFresh HandsAreKept LivingPlay
  DuelIsFair MatchIsFair BegunTogether
PROPERTIES TimedGamesGoOn ReadyPairStarts
