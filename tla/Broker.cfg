SPECIFICATION BrokerSpec
CONSTANTS
    t1 = t1
    t2 = t2
    Thread = {t1, t2}
    Token = {}
    NoToken = NoToken
    Id = {}
    NoId = NoId
    Route = {"api"}
    RouteList = "_routes"
    Path <- MCPath
    Base <- MCBase
    Tables <- MCTables
    Configs <- MCConfigs
    NoRequest = NoRequest
    Requests <- MCRequests
    Large = {FALSE}
    NoThread = NoThread
    ExpiresIn = {2}
    Timeout = 1
    Safety = 1
    MaxCred = 2
    MaxTime = 1
INVARIANTS
    FailureMeansRotation

    
