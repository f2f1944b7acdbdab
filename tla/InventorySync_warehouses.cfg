SPECIFICATION FairSpec
CONSTANTS
    i1 = i1  i2 = i2  w1 = w1
    Items = {i1, i2}
    Warehouses = {w1, w2}
    Orders = {o1, o2}
    Clients = {rest, grpc}
    RestClients = {rest}
    GrpcOps = {"reserve", "release", "commit"}
    Quantities = {1, 2}
    Baskets <- MixedLines
    InitialStock <- TwoStocked
    Deletable = {}
    MaxConns = 2
    MaxCalls = 3
    MaxRestarts = 0
    None = None
INVARIANT ReservedBacked
PROPERTY EveryRequestReturns
CHECK_DEADLOCK FALSE
