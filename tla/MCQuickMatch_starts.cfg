SPECIFICATION FairSpec
CONSTANTS
    u1 = u1
    u2 = u2
    r1 = r1
    r2 = r2
    f1 = f1
    Users = {u1, u2}
    Rooms = {r1, r2}
    Flows = {f1}
    PlayerCount = 2
    WaitTtl = 1
    Happens = {"cancel", "refresh", "wander"}
    MaxEntries = 2
    MaxFailures = 0
CHECK_DEADLOCK FALSE
PROPERTY StartsAreWhole
PROPERTY ReadyMatchesStart
