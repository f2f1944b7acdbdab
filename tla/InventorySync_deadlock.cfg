SPECIFICATION FairSpec
CONSTANTS
    i1 = i1  i2 = i2  w1 = w1
    Items = {i1, i2}
    Warehouses = {w1, w2}
    Orders = {o1, o2}
    Clients = {g1, g2}
    RestClients = {}
    GrpcOps = {"reserve", "release"}
    Quantities = {1}
    Baskets <- OneOfEach
    InitialStock <- FirstStocked
    Deletable = {}
    MaxConns = 2
    MaxCalls = 4
    MaxRestarts = 0
    None = None
PROPERTY EveryRequestReturns
CHECK_DEADLOCK FALSE
