SPECIFICATION Spec
CONSTANTS
    i1 = i1  i2 = i2  w1 = w1
    Items = {i1}
    Warehouses = {w1}
    Orders = {o1, o2}
    Clients = {rest, grpc}
    RestClients = {rest}
    GrpcOps = {"adjust", "allocate", "reserve", "release", "commit", "cancel"}
    Quantities <- AnySign
    Baskets <- OneLine
    InitialStock <- OneStocked
    Deletable = {i1, w1}
    MaxConns = 4
    MaxCalls = 4
    MaxRestarts = 1
    None = None
INVARIANTS TypeOK Balanced NeverOversold ReservedIsPending
PROPERTIES SettledOnce ImplementsBook
CHECK_DEADLOCK FALSE
