SPECIFICATION ServerSpec
CONSTANTS
    Parts = {"store"}
    d1 = d1
    p1 = p1
    p2 = p2
    c1 = c1
    c2 = c2
    None = None
    Project = {p1, p2}
    Caller = {c1, c2}
    Keys <- MCKeys
    MaxAgents = 3
    Jobs = 3
    Every <- MCEvery
    w1 = w1
    w2 = w2
    r1 = r1
    i1 = i1
    i2 = i2
    i3 = i3
    NoInode = NoInode
    Missing = Missing
    Writer = {w1, w2}
    Reader = {r1}
    Inode = {i1, i2, i3}
    Data <- MCData
INVARIANTS
    WritesAreAtomic
CHECK_DEADLOCK FALSE
