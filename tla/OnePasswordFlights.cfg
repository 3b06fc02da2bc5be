SPECIFICATION FairSpec
CONSTANTS
    t1 = t1
    t2 = t2
    t3 = t3
    NoThread = NoThread
    Thread = {t1, t2, t3}
    Name = {1}
    MaxName = 1
    Pinned = {}
    Stranger = 2
    TTL = 1
    Vaults <- NoRotation
    MaxTime = 0
PROPERTIES
    EveryCallReturns
