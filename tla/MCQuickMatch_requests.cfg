SPECIFICATION Spec
CONSTANTS
    u1 = u1
    u2 = u2
    u3 = u3
    r1 = r1
    r2 = r2
    r3 = r3
    f1 = f1
    f2 = f2
    Users = {u1, u2, u3}
    Rooms = {r1, r2, r3}
    Flows = {f1, f2}
    PlayerCount = 2
    WaitTtl = 1
    Happens = {}
    MaxEntries = 3
    MaxFailures = 1
SYMMETRY People
CHECK_DEADLOCK FALSE
INVARIANT SeatedOnce
