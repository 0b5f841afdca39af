SPECIFICATION Spec
CONSTANTS
    Humans = {1, 2}
    Bots = {}
    Modes = {"NORMAL"}
    Dashboard = dashboard
    TotalRounds = 2
    MaxRolls = 1
    MaxMisses = 2
    MinPlayers = 2
    Flows = {f1, f2}
    MaxGames = 1
    MaxRestarts = 0
CHECK_DEADLOCK FALSE
INVARIANTS GameOverOnce ScoredTurnsArePassed
