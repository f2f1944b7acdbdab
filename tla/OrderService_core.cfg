SPECIFICATION FairSpec
CONSTANTS
    p1 = p1  p2 = p2
    Products = {p1, p2}
    Orders = {o1, o2, o3}
    Callers = {a, b}
    Ops = {"create", "status", "put", "edit_item", "drop_item", "adjust", "transact", "edit_stock"}
    Targets = {"processing", "cancelled", "out_of_stock"}
    Baskets <- SmallBaskets
    Deltas <- SmallDeltas
    InitialStock <- SmallStock
    MaxConns = 2
    MaxCalls = 3
    None = None
INVARIANTS TypeOK StockNonNegative EventsTruthful
PROPERTIES UnitsMoved EveryRequestReturns
CHECK_DEADLOCK FALSE
