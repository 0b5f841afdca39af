\* Seats, hosts, phases and a clock for every key: three humans, a bot, one cell to score.
SPECIFICATION FairSpec
CONSTANTS
    Humans = {1, 3, 4}
    Bots = {2}
    GameIds = {1}
    Modes = {"NORMAL", "PARTY"}
    Capacities = {2, 3}
    MinPlayers = 2
    MaxTtl = 2
    Categories = {"ones"}
    UpperCategories = {"ones"}
    Dices = {"high"}
    ScoreOf <- MCScoreOf
    Rounds = {1}
    BonusFrom = 3
    Bonus = 5
INVARIANTS TypeOK SeatsInOrder NoHalfRoom
PROPERTIES UntouchedRoomExpires ImplementsOneRoom
