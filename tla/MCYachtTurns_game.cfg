SPECIFICATION FairSpec
CONSTANTS
    Humans = {1, 3}
    Bots = {2}
    Modes = {"NORMAL", "PARTY"}
    Dashboard = dashboard
    TotalRounds = 2
    MaxRolls = 2
    MaxMisses = 2
    MinPlayers = 2
    Flows = {f1}
    MaxGames = 2
    MaxRestarts = 1
CHECK_DEADLOCK FALSE
INVARIANTS TypeOK SeatsMatchTurns TimerFollowsTurn OnlineHasNoMisses
PROPERTIES ImplementsTurnCycle GameEnds
