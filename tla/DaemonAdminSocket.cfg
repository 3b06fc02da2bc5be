SPECIFICATION ProxySpec
CONSTANTS
    Parts = {"daemon"}
    ci = ci
    dev = dev
    k1 = k1
    k2 = k2
    d1 = d1
    d2 = d2
    auth = auth
    beta = beta
    param = param
    b1 = b1
    b2 = b2
    v1 = v1
    v2 = v2
    mine = mine
    blank = blank
    Name = {auth, beta}
    Authorization = auth
    HeaderToken = {b1, b2, v1, v2, mine, blank}
    Blank = blank
    Inbounds <- MCInbounds
    Injections <- MCInjections
    Daemon = {d1, d2}
    MaxStarts = 3
    DefaultTTL = 3600
    Deployments <- MCDeployments
    CredentialLists <- MCCredentialLists
    RouteLists <- MCRouteLists
    TokenFiles <- MCTokenFiles
    t1 = t1
    Thread = {t1}
    Token = {k1, k2}
    NoToken = NoToken
    Id = {ci, dev}
    NoId = NoId
    Route = {"api", "env"}
    RouteList = "_routes"
    Cred = {1}
    Path <- MCPath
    Base <- MCBase
    Tables <- MCTables
    Configs <- MCConfigs
    NoRequest = NoRequest
    Requests <- MCRequests
INVARIANTS
    AdminSocketKept
CHECK_DEADLOCK FALSE
