SPECIFICATION CommandSpec
CONSTANTS
    c1 = c1
    c2 = c2
    None = None
    Options <- CommandLines
    RouteOrder <- RoutesInOrder
    Addressable = {"a", "b"}
    Env <- Served
    ValidNames = {"K", "A", "X"}
    Base <- Inherited
    MaxChanges = 2
INVARIANTS
    CommandOutput
PROPERTIES
    RelayReturns
    
CHECK_DEADLOCK FALSE
