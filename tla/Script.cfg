SPECIFICATION FairSpec
CONSTANTS
    t1 = t1
    t2 = t2
    NoThread = NoThread
    Caller = {t1, t2}
    ExpiresIn = {1, 2}
    Timeout = 1
    Safety = 1
    MaxCred = 2
    MaxTime = 2
INVARIANTS
    CachedIsAlive
    

    
