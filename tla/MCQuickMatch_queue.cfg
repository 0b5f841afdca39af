SPECIFICATION Spec
CONSTANTS
    u1 = u1
    u2 = u2
    u3 = u3
    r1 = r1
    r2 = r2
    f1 = f1
    Users = {u1, u2, u3}
    Rooms = {r1, r2}
    Flows = {f1}
    PlayerCount = 2
    WaitTtl = 2
    Happens = {"cancel", "expiry"}
    MaxEntries = 5
    MaxFailures = 0
SYMMETRY People
CHECK_DEADLOCK FALSE
INVARIANT NobodyWaitsInVain
INVARIANT TicketsAreTrue
