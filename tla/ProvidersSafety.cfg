SPECIFICATION ProvidersSpec
CONSTANTS
    t1 = t1
    t2 = t2
    p1 = p1
    p2 = p2
    s1 = s1
    s2 = s2
    None = None
    Project = {p1, p2}
    Profile = {s1, s2}
    Call = {t1, t2}
    ProfileSets = {{}, {s1}, {s2}}
    Sessions = {"session"}
    Lifetimes = {0, 2}
    Margin = 1
    MaxTime = 2
    MaxCreds = 2
    Thread = {t1, t2}
    GcpProject = {p1, p2}
    GCPConfig <- MCConfigs
    NoTarget = None
    TokenLen <- MCTokenLen
    MaxAsync = 2
SYMMETRY Symmetry
INVARIANTS
    
    TokenFilesHold
PROPERTIES
    AnswersAreDue
CHECK_DEADLOCK FALSE
