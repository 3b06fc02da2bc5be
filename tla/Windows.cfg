SPECIFICATION WindowsSpec
CONSTANTS
    dialer = dialer
    stranger = stranger
    other = other
    t1 = t1
    t2 = t2
    None = None
    Object <- MCObjects
    Root = "root"
    Kind <- MCKind
    Valid = {"d1", "d2", "f1", "link"}
    Depth = 3
    Opener = {t1, t2}
    Client <- MCClients
    Dialer = {dialer, stranger}
    SidOf <- MCSidOf
    Expected = "peer"
    Sid <- MCSids
    Current = "me"
    Dacls <- MCDacls
INVARIANTS
    PipeIsSafe
    
    SecretsAreConfidential
    ImagesAreIntact
PROPERTIES
    AcceptsAgain
CHECK_DEADLOCK FALSE
