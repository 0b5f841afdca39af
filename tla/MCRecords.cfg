SPECIFICATION Spec
CONSTANTS
    p1 = p1
    p2 = p2
    i1 = i1
    i2 = i2
    nameA = nameA
    nameB = nameB
    placeholder = placeholder
    f1 = f1
    f2 = f2
    NoName = NoName
    Nobody = Nobody
    People = {p1, p2}
    Ids = {i1, i2}
    Names = {nameA, nameB, placeholder}
    Placeholder = placeholder
    Flows = {f1, f2}
    MaxRequests = 3
    MaxFaults = 1
    Guests = {}
    MaxScore = 1
    MaxWeek = 1
CHECK_DEADLOCK FALSE
SYMMETRY Unordered
INVARIANT OneMember
INVARIANT RankingIsCurrent
PROPERTY NamesAreKept
PROPERTY ArchiveIsKept
