\* Two games scored one after the other by two players in two rounds.
SPECIFICATION Spec
CONSTANTS
    Humans = {1, 2}
    Bots = {}
    GameIds = {1, 2}
    Modes = {"NORMAL"}
    Capacities = {2}
    MinPlayers = 1
    MaxTtl = 1
    Categories = {"ones", "choice"}
    UpperCategories = {"ones"}
    Dices = {"low", "high"}
    ScoreOf <- MCScoreOf
    Rounds = {1, 2}
    BonusFrom = 3
    Bonus = 5
INVARIANTS GameMatchesPhase ScoresOfThisGame SheetsAddUp
PROPERTY GamesStayWhole
