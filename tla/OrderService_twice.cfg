SPECIFICATION Spec
CONSTANTS
    p1 = p1  p2 = p2
    Products = {p1}
    Orders = {o1}
    Callers = {a, b}
    Ops = {"create", "status"}
    Targets = {"cancelled"}
    Baskets <- OneEach
    Deltas <- SmallDeltas
    InitialStock <- SmallStock
    MaxConns = 3
    MaxCalls = 3
    None = None
PROPERTY CancelledOnce
CHECK_DEADLOCK FALSE
