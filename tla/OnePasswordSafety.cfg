SPECIFICATION Spec
CONSTANTS
    t1 = t1
    t2 = t2
    NoThread = NoThread
    Thread = {t1, t2}
    Name = {1, 2}
    MaxName = 2
    Pinned = {1}
    Stranger = 3
    TTL = 1
    Vaults <- FewRotations
    MaxTime = 2
SYMMETRY Symmetry
INVARIANTS
    IInv
    ResultsAreSecrets
    OneResolverPerCredential
    GetResolvesOnlyStale
    RefreshTakesEffect
    NoCircularWait
PROPERTIES
    PinnedFixedUntilRefresh
    BatchIsAllOrNothing
    ImplementsStore
