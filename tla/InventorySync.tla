--------------------------- MODULE InventorySync ---------------------------
(***************************************************************************)
(* The stock core of inventory-sync-service: the inventory_levels,         *)
(* inventory_reservations and inventory_transactions tables, the Postgres  *)
(* repository that changes them, and the gRPC and REST handlers whose      *)
(* steps interleave over a bounded database/sql connection pool.           *)
(*                                                                         *)
(* A repository transaction that locks the rows it reads (FOR UPDATE) and  *)
(* commits is one step.  Everything the handlers do between transactions   *)
(* (unlocked reads, the ledger insert, the loop over the lines of a        *)
(* request) is a step of its own.                                          *)
(*                                                                         *)
(* A transaction that returns an error while its own err variable is nil   *)
(* is neither committed nor rolled back by its deferred function.  It      *)
(* keeps its connection and row locks until the request's context is       *)
(* cancelled: when the handler returns for gRPC, never for REST, whose     *)
(* handlers pass the *gin.Context (its Done channel is nil).               *)
(***************************************************************************)
EXTENDS Integers, Sequences, FiniteSets, FiniteSetsExt

CONSTANTS Items,         \* item ids
          Warehouses,    \* warehouse ids
          Orders,        \* reservation ids (column order_id)
          Clients,       \* concurrent callers
          RestClients,   \* those that use the REST API; the others use gRPC
          GrpcOps,       \* the operations gRPC callers use
          Quantities,    \* the quantities requests carry, of either sign
          Baskets,       \* the item lists of CheckAndReserveStock requests
          InitialStock,  \* the quantity of each row at the start, 0: no row
          Deletable,     \* bound: the items and warehouses that may be deleted
          MaxConns,      \* DB_MAX_CONNECTIONS
          MaxCalls,      \* bound: how many requests arrive
          MaxRestarts,   \* bound: how often the process restarts
          None           \* no row, no order, no warehouse

Rows == Items \X Warehouses

Level == [quantity : Int, reserved : Int, available : Int]

Line == [item : Items, qty : Quantities]

\* A line of a basket may name neither a product id nor a sku.
BasketLine == [item : Items \cup {None}, qty : Quantities]

\* REST offers no reserve and no commit endpoint.
RestOps == {"adjust", "allocate", "release"}

\* CancelReservation is in the service's interface and has no endpoint yet.
SettleOps == {"release", "commit", "cancel"}

ASSUME ConstantsAssumption ==
    /\ RestClients \subseteq Clients
    /\ GrpcOps \subseteq {"adjust", "allocate", "reserve"} \cup SettleOps
    /\ Quantities \subseteq Int
    /\ Baskets \subseteq Seq(BasketLine)
    /\ InitialStock \in [Rows -> Nat]
    /\ MaxConns \in Nat
    /\ MaxCalls \in Nat
    /\ MaxRestarts \in Nat
    /\ None \notin Level
    /\ None \notin Int
    /\ None \notin Items

\* A table has finitely many rows.
ASSUME FiniteTables == IsFiniteSet(Orders) /\ IsFiniteSet(Warehouses)

VARIABLES itemState,     \* inventory_items: "absent", "live" or "deleted"
          whState,       \* warehouses, likewise
          levels,        \* inventory_levels: each row's level, or None
          reservations,  \* inventory_reservations: by status, order and item,
                         \* the total quantity of the rows
          pendingRows,   \* the orders and items that have a pending row
          negatives,     \* the items with a row of negative quantity
          ledger,        \* inventory_transactions: adds minus removes of a row
          pc,            \* where the handler of each caller stands
          call,          \* its arguments and local variables
          abandoned,     \* the transactions its errors left open
          calls, restarts

reservationRows == <<reservations, pendingRows, negatives>>
tables == <<itemState, whState, levels, reservationRows, ledger>>
control == <<pc, call, abandoned>>
vars == <<tables, control, calls, restarts>>

-----------------------------------------------------------------------------
(* Tables *)

Statuses == {"pending", "released", "committed", "cancelled"}

NoReservations == [s \in Statuses |-> [o \in Orders |-> [i \in Items |-> 0]]]

LevelOf(quantity, reserved, available) ==
    [quantity |-> quantity, reserved |-> reserved, available |-> available]

ZeroLevel == LevelOf(0, 0, 0)

NewLevel(q) == LevelOf(q, 0, q)

\* GetInventoryLevel: a missing row reads as a zero level; takes no lock.
GetInventoryLevel(r) == IF levels[r] = None THEN ZeroLevel ELSE levels[r]

\* The foreign keys of a row that refers to an item and a warehouse.
KeysExist(r) == itemState[r[1]] = "live" /\ whState[r[2]] = "live"

-----------------------------------------------------------------------------
(* Connections and locks *)

\* Between BeginTx and the end of addInventory or removeInventory the outer
\* transaction holds a connection though no statement runs on it.
OuterTx == {"validate", "record", "apply", "insert"}

ConnsInUse == 
    MapThenSumSet(LAMBDA c : abandoned[c].conns, Clients)
      + Cardinality({c \in Clients : pc[c] \in OuterTx})
      + Cardinality({c \in Clients : pc[c] = "insert"})

\* A statement outside the caller's own transaction needs a connection.
ConnFree == ConnsInUse < MaxConns

NothingOpen == [conns |-> 0, rows |-> {}]

\* The deferred rollback is skipped: one more connection, and the row locks.
AbandonTx(c, rows) == [conns |-> abandoned[c].conns + 1,
                       rows  |-> abandoned[c].rows \cup rows]

Unlocked(r) == \A c \in Clients : r \notin abandoned[c].rows

-----------------------------------------------------------------------------
(* Requests *)

Request(op, w, o, lines) == [op |-> op, wh |-> w, order |-> o, lines |-> lines]

NoCall == Request("none", None, None, <<>>)

Requests ==
    {Request("adjust", w, None, <<l>>) : w \in Warehouses, l \in Line}
      \cup {Request("allocate", w, o, <<l>>) :
              w \in Warehouses, o \in Orders, l \in Line}
      \cup {Request("reserve", w, o, b) :
              w \in Warehouses, o \in Orders, b \in Baskets}
      \cup {Request(op, None, o, <<>>) : op \in SettleOps, o \in Orders}

\* An adjustment by zero only reads the level; an empty basket is answered.
FirstStep(r) ==
    CASE r.op = "adjust"    -> IF Head(r.lines).qty = 0 THEN "level" ELSE "begin"
      [] r.op = "allocate"  -> "precheck"
      [] r.op = "reserve"   -> IF r.lines = <<>> THEN "reply" ELSE "lookup"
      [] r.op \in SettleOps -> "settle"

\* The line of the request being worked on, and the row it is about.
Qty(c) == Head(call[c].lines).qty
Row(c) == <<Head(call[c].lines).item, call[c].wh>>

\* binding:"required" of the REST handlers refuses zero, and only zero.
Accepted(c, r) ==
    /\ r.op \in (IF c \in RestClients THEN RestOps ELSE GrpcOps)
    /\ c \in RestClients => \A k \in DOMAIN r.lines : r.lines[k].qty # 0

Call(c) ==
    /\ pc[c] = "idle"
    /\ calls < MaxCalls
    /\ \E r \in Requests :
        /\ Accepted(c, r)
        /\ call' = [call EXCEPT ![c] = r]
        /\ pc' = [pc EXCEPT ![c] = FirstStep(r)]
    /\ calls' = calls + 1
    /\ UNCHANGED <<tables, abandoned, restarts>>

Goto(c, step) == pc' = [pc EXCEPT ![c] = step]

\* Mutant: the context of a gRPC request is not cancelled either.
ReturnKeepingTx(c, open) ==
    /\ Goto(c, "idle")
    /\ call' = [call EXCEPT ![c] = NoCall]
    /\ abandoned' = [abandoned EXCEPT ![c] = open]

\* The handler returns.  A gRPC context is then cancelled, which rolls back
\* what the request left open; a gin context never is.
Return(c, open) ==
    /\ Goto(c, "idle")
    /\ call' = [call EXCEPT ![c] = NoCall]
    /\ abandoned' = [abandoned EXCEPT ![c] =
                       IF c \in RestClients THEN open ELSE NothingOpen]

\* It returns having changed no table.
Finish(c) == Return(c, abandoned[c]) /\ UNCHANGED tables

\* A gRPC caller that goes away cancels the request's context.
Disconnect(c) ==
    /\ c \notin RestClients
    /\ pc[c] # "idle"
    /\ Finish(c)
    /\ UNCHANGED <<calls, restarts>>

-----------------------------------------------------------------------------
(* AdjustInventory: addInventory of a positive quantity, removeInventory of *)
(* a negative one                                                           *)

Adds(c) == Qty(c) > 0

BeginTx(c) ==
    /\ pc[c] = "begin"
    /\ ConnFree
    /\ Goto(c, "validate")
    /\ UNCHANGED <<tables, call, abandoned>>

\* add: the item and the warehouse exist; remove: the item exists and the
\* level, read without a lock, has enough available.  "insufficient inventory
\* available" is returned with err nil, and leaves the outer transaction open.
Validate(c) ==
    /\ pc[c] = "validate"
    /\ ConnFree
    /\ LET r == Row(c)
           found == /\ itemState[r[1]] = "live"
                    /\ Adds(c) => whState[r[2]] = "live"
           short == ~Adds(c) /\ GetInventoryLevel(r).available < -Qty(c)
       IN  \/ ~found /\ Finish(c)
           \/ found /\ short /\ Return(c, AbandonTx(c, {})) /\ UNCHANGED tables
           \/ found /\ ~short /\ Goto(c, "record") /\ UNCHANGED <<tables, call, abandoned>>

\* CreateTransaction runs on the pool, outside the handler's transaction.
CreateTransaction(c) ==
    /\ pc[c] = "record"
    /\ ConnFree
    /\ \/ /\ KeysExist(Row(c))
          /\ ledger' = [ledger EXCEPT ![Row(c)] = @ + Qty(c)]
          /\ Goto(c, "apply")
          /\ UNCHANGED <<itemState, whState, levels, reservationRows, call, abandoned>>
       \/ ~KeysExist(Row(c)) /\ Finish(c)

\* What adding delta units, or removing -delta, does to a level.
Adjust(level, delta) ==
    LevelOf(level.quantity + delta, level.reserved, level.available + delta)

\* AdjustInventory of the repository, on a row that exists.  The two range
\* errors return with err nil.
AdjustLevel(c) ==
    /\ pc[c] = "apply"
    /\ ConnFree
    /\ Unlocked(Row(c))
    /\ levels[Row(c)] # None
    /\ LET old == levels[Row(c)]
           new == Adjust(old, Qty(c))
       IN  \/ /\ new.quantity >= 0 /\ new.available >= 0
              /\ levels' = [levels EXCEPT ![Row(c)] = new]
              /\ Return(c, abandoned[c])
              /\ UNCHANGED <<itemState, whState, reservationRows, ledger>>
           \/ /\ new.quantity < 0 \/ new.available < 0
              /\ Return(c, AbandonTx(c, {Row(c)}))
              /\ UNCHANGED tables

\* The same on a missing row: the SELECT finds nothing to lock, so another
\* transaction may insert the row before this one does.
AdjustMissing(c) ==
    /\ pc[c] = "apply"
    /\ ConnFree
    /\ levels[Row(c)] = None
    /\ \/ ~Adds(c) /\ Finish(c)
       \/ /\ Adds(c)
          /\ Goto(c, "insert")
          /\ UNCHANGED <<tables, call, abandoned>>

InsertLevel(c) ==
    /\ pc[c] = "insert"
    /\ \/ /\ levels[Row(c)] = None /\ KeysExist(Row(c))
          /\ levels' = [levels EXCEPT ![Row(c)] = NewLevel(Qty(c))]
          /\ Return(c, abandoned[c])
          /\ UNCHANGED <<itemState, whState, reservationRows, ledger>>
       \/ (levels[Row(c)] # None \/ ~KeysExist(Row(c))) /\ Finish(c)

-----------------------------------------------------------------------------
(* AllocateInventory and CheckAndReserveStock *)

\* A line is done.  AllocateInventory returns, after a look at the new level
\* if it succeeded; a basket goes on with its next line, or with the response.
NextLine(c, allocated, open) ==
    \/ call[c].op = "allocate" /\ ~allocated /\ Return(c, open)
    \/ /\ call[c].op = "allocate" /\ allocated
       /\ Goto(c, "level")
       /\ UNCHANGED <<call, abandoned>>
    \/ /\ call[c].op = "reserve"
       /\ call' = [call EXCEPT ![c].lines = Tail(@)]
       /\ abandoned' = [abandoned EXCEPT ![c] = open]
       /\ Goto(c, IF Len(call[c].lines) = 1 THEN "reply" ELSE "lookup")

\* Item lookup and the first, unlocked look at the level.  A line that names
\* no product ends the request; the lines before it keep what they reserved.
LookupLine(c) ==
    /\ pc[c] = "lookup"
    /\ ConnFree
    /\ LET i == Head(call[c].lines).item
           enough == GetInventoryLevel(Row(c)).available >= Qty(c)
       IN  \/ i = None /\ Finish(c)
           \/ /\ i # None /\ itemState[i] = "live" /\ enough
              /\ Goto(c, "precheck")
              /\ UNCHANGED <<tables, call, abandoned>>
           \/ /\ i # None /\ ~(itemState[i] = "live" /\ enough)
              /\ NextLine(c, FALSE, abandoned[c])
              /\ UNCHANGED tables

\* The service's own unlocked check before the repository's transaction.
PreCheck(c) ==
    /\ pc[c] = "precheck"
    /\ ConnFree
    /\ LET enough == GetInventoryLevel(Row(c)).available >= Qty(c)
       IN  \/ enough /\ Goto(c, "allocate") /\ UNCHANGED <<call, abandoned>>
           \/ ~enough /\ NextLine(c, FALSE, abandoned[c])
    /\ UNCHANGED tables

\* Mutant: the reserved column is forgotten.
ReserveAvailableOnly(level, q) ==
    LevelOf(level.quantity, level.reserved, level.available - q)

Reserve(level, q) ==
    LevelOf(level.quantity, level.reserved + q, level.available - q)

\* Mutant: what is on hand is compared, reserved or not.
EnoughOnHand(level, q) == level.quantity >= q

\* The check under the row lock.
Enough(level, q) == level.available >= q

\* The repository's transaction.  ErrInsufficientInventory returns with err
\* nil; a missing row does not, sql.ErrNoRows is still in it.
AllocateInventory(c) ==
    /\ pc[c] = "allocate"
    /\ ConnFree
    /\ Unlocked(Row(c))
    /\ LET r == Row(c) IN
       \/ /\ levels[r] = None
          /\ NextLine(c, FALSE, abandoned[c])
          /\ UNCHANGED tables
       \/ /\ levels[r] # None /\ ~Enough(levels[r], Qty(c))
          /\ NextLine(c, FALSE, AbandonTx(c, {r}))
          /\ UNCHANGED tables
       \/ /\ levels[r] # None /\ Enough(levels[r], Qty(c))
          /\ levels' = [levels EXCEPT ![r] = Reserve(@, Qty(c))]
          /\ reservations' =
               [reservations EXCEPT !["pending"][call[c].order][r[1]] = @ + Qty(c)]
          /\ pendingRows' = pendingRows \cup {<<call[c].order, r[1]>>}
          /\ negatives' = IF Qty(c) < 0 THEN negatives \cup {r[1]} ELSE negatives
          /\ NextLine(c, TRUE, abandoned[c])
          /\ UNCHANGED <<itemState, whState, ledger>>

\* CheckAndReserveStock answers with success, or with what could not be had.
Reply(c) ==
    /\ pc[c] = "reply"
    /\ Finish(c)

\* GetInventoryLevelForItem, for the answer of AllocateInventory and of an
\* adjustment by zero.
ReadLevel(c) ==
    /\ pc[c] = "level"
    /\ ConnFree
    /\ Finish(c)

-----------------------------------------------------------------------------
(* ReleaseInventory, CommitReservation, CancelReservation *)

Outcome == [release |-> "released", commit |-> "committed", cancel |-> "cancelled"]

\* Mutant: commit ships free units and leaves the reserved ones.
ShipFree(op, level, q) ==
    IF op = "commit"
    THEN LevelOf(level.quantity - q, level.reserved, level.available - q)
    ELSE LevelOf(level.quantity, level.reserved - q, level.available + q)

\* What settling q units does to a level: commit ships them.
SettleLevel(op, level, q) ==
    IF op = "commit"
    THEN LevelOf(level.quantity - q, level.reserved - q, level.available)
    ELSE LevelOf(level.quantity, level.reserved - q, level.available + q)

\* UPDATE inventory_levels ... WHERE item_id = $3: the item's row in every
\* warehouse, not only in the one the stock was reserved in.
SettledLevels(op, held) ==
    [r \in Rows |-> IF levels[r] = None THEN None
                    ELSE SettleLevel(op, levels[r], held[r[1]])]

\* Mutant: the rows stay pending as well.
SettledRowsStillPending(o, outcome) ==
    [reservations EXCEPT
       ![outcome][o] = [i \in Items |-> @[i] + reservations["pending"][o][i]]]

\* UPDATE inventory_reservations SET status ...: o's pending rows are settled.
SettledRows(o, outcome) ==
    [reservations EXCEPT
       !["pending"][o] = [i \in Items |-> 0],
       ![outcome][o] = [i \in Items |-> @[i] + reservations["pending"][o][i]]]

Settle(c) ==
    /\ pc[c] = "settle"
    /\ ConnFree
    /\ LET op   == call[c].op
           o    == call[c].order
           held == reservations["pending"][o]
           mine == {i \in Items : <<o, i>> \in pendingRows}
       IN  \/ /\ mine = {}
              /\ Return(c, AbandonTx(c, {}))
              /\ UNCHANGED tables
           \/ /\ mine # {}
              /\ \A r \in Rows : r[1] \in mine => Unlocked(r)
              /\ levels' = SettledLevels(op, held)
              /\ reservations' = SettledRows(o, Outcome[op])
              /\ pendingRows' = {row \in pendingRows : row[1] # o}
              /\ Return(c, abandoned[c])
              /\ UNCHANGED <<itemState, whState, negatives, ledger>>

\* Items of order o that are pending and have a level row to update.
ContendedItems(o) ==
    {i \in Items : /\ <<o, i>> \in pendingRows
                   /\ \E w \in Warehouses : levels[<<i, w>>] # None}

\* Two settlements that update the levels of two items in opposite orders:
\* Postgres aborts one of them.  The loop's err shadows the function's, so
\* the deferred rollback is skipped here too; the locks are gone.
SettleDeadlock(c) ==
    /\ pc[c] = "settle"
    /\ ConnsInUse + 1 < MaxConns
    /\ \E d \in Clients \ {c} :
        /\ pc[d] = "settle"
        /\ call[d].order # call[c].order
        /\ Cardinality(ContendedItems(call[c].order)
                         \cap ContendedItems(call[d].order)) > 1
    /\ Return(c, AbandonTx(c, {}))
    /\ UNCHANGED tables

-----------------------------------------------------------------------------
(* Catalogue changes and restarts *)

CreateItem(i) ==
    /\ itemState[i] = "absent"
    /\ ConnFree
    /\ itemState' = [itemState EXCEPT ![i] = "live"]
    /\ UNCHANGED <<whState, levels, reservationRows, ledger, control, calls, restarts>>

\* Mutant: the levels of the item do not go with it.
DeleteItemKeepingLevels(i) ==
    /\ i \in Deletable
    /\ itemState[i] = "live"
    /\ ConnFree
    /\ itemState' = [itemState EXCEPT ![i] = "deleted"]
    /\ UNCHANGED <<whState, levels, reservationRows, ledger, control, calls, restarts>>

\* DELETE FROM inventory_items, cascading to every table that refers to it.
DeleteItem(i) ==
    /\ i \in Deletable
    /\ itemState[i] = "live"
    /\ ConnFree
    /\ \A w \in Warehouses : Unlocked(<<i, w>>)
    /\ itemState' = [itemState EXCEPT ![i] = "deleted"]
    /\ levels' = [r \in Rows |-> IF r[1] = i THEN None ELSE levels[r]]
    /\ ledger' = [r \in Rows |-> IF r[1] = i THEN 0 ELSE ledger[r]]
    /\ reservations' =
         [s \in Statuses |-> [o \in Orders |-> [reservations[s][o] EXCEPT ![i] = 0]]]
    /\ pendingRows' = {row \in pendingRows : row[2] # i}
    /\ negatives' = negatives \ {i}
    /\ UNCHANGED <<whState, control, calls, restarts>>

CreateWarehouse(w) ==
    /\ whState[w] = "absent"
    /\ ConnFree
    /\ whState' = [whState EXCEPT ![w] = "live"]
    /\ UNCHANGED <<itemState, levels, reservationRows, ledger, control, calls, restarts>>

\* Reservations do not refer to a warehouse and stay.
DeleteWarehouse(w) ==
    /\ w \in Deletable
    /\ whState[w] = "live"
    /\ ConnFree
    /\ \A i \in Items : Unlocked(<<i, w>>)
    /\ whState' = [whState EXCEPT ![w] = "deleted"]
    /\ levels' = [r \in Rows |-> IF r[2] = w THEN None ELSE levels[r]]
    /\ ledger' = [r \in Rows |-> IF r[2] = w THEN 0 ELSE ledger[r]]
    /\ UNCHANGED <<itemState, reservationRows, control, calls, restarts>>

\* The process ends and starts again.  RunMigrations drops and recreates
\* every inventory table; warehouses survive.
Restart ==
    /\ restarts < MaxRestarts
    /\ itemState' = [i \in Items |-> "absent"]
    /\ levels' = [r \in Rows |-> None]
    /\ reservations' = NoReservations /\ pendingRows' = {} /\ negatives' = {}
    /\ ledger' = [r \in Rows |-> 0]
    /\ pc' = [c \in Clients |-> "idle"]
    /\ call' = [c \in Clients |-> NoCall]
    /\ abandoned' = [c \in Clients |-> NothingOpen]
    /\ restarts' = restarts + 1
    /\ UNCHANGED <<whState, calls>>

-----------------------------------------------------------------------------
(* Specification *)

\* An item or a warehouse with initial stock exists; the others may come.
Init ==
    /\ itemState = [i \in Items |-> IF \E w \in Warehouses : InitialStock[<<i, w>>] # 0
                                    THEN "live" ELSE "absent"]
    /\ whState = [w \in Warehouses |-> IF \E i \in Items : InitialStock[<<i, w>>] # 0
                                       THEN "live" ELSE "absent"]
    /\ levels = [r \in Rows |-> IF InitialStock[r] = 0 THEN None
                                ELSE NewLevel(InitialStock[r])]
    /\ reservations = NoReservations /\ pendingRows = {} /\ negatives = {}
    /\ ledger = InitialStock
    /\ pc = [c \in Clients |-> "idle"]
    /\ call = [c \in Clients |-> NoCall]
    /\ abandoned = [c \in Clients |-> NothingOpen]
    /\ calls = 0
    /\ restarts = 0

\* The next step of a request that is under way.
Step(c) ==
    /\ \/ BeginTx(c) \/ Validate(c) \/ CreateTransaction(c)
       \/ AdjustLevel(c) \/ AdjustMissing(c) \/ InsertLevel(c)
       \/ LookupLine(c) \/ PreCheck(c) \/ AllocateInventory(c) \/ Reply(c) \/ ReadLevel(c)
       \/ Settle(c) \/ SettleDeadlock(c)
    /\ UNCHANGED <<calls, restarts>>

Next ==
    \/ \E c \in Clients : Call(c) \/ Step(c) \/ Disconnect(c)
    \/ \E i \in Items : CreateItem(i) \/ DeleteItem(i)
    \/ \E w \in Warehouses : CreateWarehouse(w) \/ DeleteWarehouse(w)
    \/ Restart

Spec == Init /\ [][Next]_vars

\* Every goroutine that can take its next step eventually does.
FairSpec == Spec /\ \A c \in Clients : WF_vars(Step(c))

-----------------------------------------------------------------------------
(* Properties *)

Existence == {"absent", "live", "deleted"}

Steps == {"idle", "begin", "lookup", "precheck", "allocate", "reply", "level", "settle"}
           \cup OuterTx

CallRecord ==
    [op : {"none", "adjust", "allocate", "reserve"} \cup SettleOps,
     wh : Warehouses \cup {None}, order : Orders \cup {None}, lines : Seq(BasketLine)]

OpenTx == [conns : Nat, rows : SUBSET Rows]

TablesType ==
    /\ itemState \in [Items -> Existence]
    /\ whState \in [Warehouses -> Existence]
    /\ levels \in [Rows -> Level \cup {None}]
    /\ reservations \in [Statuses -> [Orders -> [Items -> Int]]]
    /\ pendingRows \subseteq Orders \X Items
    /\ negatives \subseteq Items
    /\ ledger \in [Rows -> Int]

ControlType ==
    /\ pc \in [Clients -> Steps]
    /\ call \in [Clients -> CallRecord]
    /\ abandoned \in [Clients -> OpenTx]

\* The steps of a handler that work on the row its first line names, and those
\* of them that reserve for an order.
OrderSteps == {"precheck", "allocate"}
LineSteps == {"begin"} \cup OrderSteps \cup OuterTx

\* A handler only reaches a step whose arguments it has: a line to work on and
\* the row it names, an order to reserve for or to settle, units to stock.
HandlerOK ==
    \A c \in Clients :
        /\ pc[c] \in LineSteps \cup {"lookup"} =>
             Len(call[c].lines) > 0 /\ call[c].wh \in Warehouses
        /\ pc[c] \in LineSteps => Head(call[c].lines).item \in Items
        /\ pc[c] = "insert" => Adds(c)
        /\ pc[c] \in OrderSteps \cup {"lookup"} =>
             call[c].op \in {"allocate", "reserve"} /\ call[c].order \in Orders
        /\ pc[c] = "lookup" => call[c].op = "reserve"
        /\ pc[c] = "settle" => call[c].op \in SettleOps /\ call[c].order \in Orders

\* A level refers to an item and a warehouse that exist, a reservation to an
\* item that exists, and nothing is pending where there is no pending row.
RefersOK ==
    /\ \A r \in Rows : levels[r] # None => KeysExist(r)
    /\ \A o \in Orders, i \in Items :
         /\ <<o, i>> \in pendingRows => itemState[i] = "live"
         /\ <<o, i>> \notin pendingRows => reservations["pending"][o][i] = 0

\* Every variable has its type, and no row is left referring to an item or a
\* warehouse that a delete or a restart has removed, however the deletion
\* interleaves with the handlers that insert and reserve.
TypeOK ==
    TablesType /\ ControlType /\ HandlerOK /\ RefersOK /\ calls \in Nat /\ restarts \in Nat

\* The three columns of a level, which every statement of the repository
\* updates separately, always agree: what is on hand is reserved or free.
Balanced ==
    \A r \in Rows :
        levels[r] # None =>
            levels[r].quantity = levels[r].reserved + levels[r].available

\* However requests interleave between their unlocked checks and their
\* transactions, no row promises more than it has: available stays >= 0 until
\* a reservation of a negative quantity is made of its item.  The handlers
\* accept one, and releasing it takes units that others may have reserved.
NeverOversold ==
    \A r \in Rows : levels[r] # None /\ r[1] \notin negatives => levels[r].available >= 0

\* The total that pending reservations hold of an item.
PendingOf(i) == SumFunctionOnSet([o \in Orders |-> reservations["pending"][o][i]], Orders)

ReservedOf(i) ==
    SumFunctionOnSet([w \in Warehouses |-> GetInventoryLevel(<<i, w>>).reserved], Warehouses)

\* What the levels of an item in live warehouses show as reserved is what the
\* pending reservations hold: allocate, release, commit and cancel keep the
\* two tables in step.
ReservedIsPending ==
    \A i \in Items :
        (\E w \in Warehouses : levels[<<i, w>>] # None) => ReservedOf(i) = PendingOf(i)

\* No row of any warehouse shows more units reserved than pending reservations
\* of the item hold, so whatever a refused or an abandoned basket has left
\* behind is given back by settling its order.  Settling an order changes the
\* item's row in every warehouse, so the converse fails.
ReservedBacked ==
    \A r \in Rows :
        levels[r] # None /\ r[1] \notin negatives => levels[r].reserved <= PendingOf(r[1])

\* What a step may do to the rows of one order and item: nothing, reserve,
\* settle all that is pending one way, or lose them with the item.
LegalReservationStep(o, i) ==
    \/ /\ \A s \in Statuses \ {"pending"} :
            reservations'[s][o][i] = reservations[s][o][i]
       /\ \/ reservations'["pending"][o][i] = reservations["pending"][o][i]
          \/ <<o, i>> \in pendingRows'
    \/ /\ reservations'["pending"][o][i] = 0
       /\ \E out \in Statuses \ {"pending"} :
            /\ reservations'[out][o][i] =
                 reservations[out][o][i] + reservations["pending"][o][i]
            /\ \A s \in Statuses \ {"pending", out} :
                 reservations'[s][o][i] = reservations[s][o][i]
    \/ itemState'[i] # "live"

\* A reservation is settled once: a settled total only ever changes by what was
\* pending, which is then gone, so neither a retried nor a concurrent
\* release, commit or cancel gives stock back twice.  Only deleting the item
\* and the DROP TABLE of a restart remove rows.
SettledOnce == [][\A o \in Orders, i \in Items : LegalReservationStep(o, i)]_vars

\* The only warehouse, when there is one.
Here == CHOOSE w \in Warehouses : TRUE

Book == INSTANCE StockBook WITH
    onHand <- [i \in Items |-> IF levels[<<i, Here>>] = None THEN None
                               ELSE levels[<<i, Here>>].quantity],
    held   <- reservations["pending"]

\* With one warehouse the tables implement the book: free stock, which the
\* code keeps in its own column, is always what is on hand and not held.
ImplementsBook == Book!Spec

\* The rows whose lock the handler's next step needs.
NeededRows(c) ==
    CASE pc[c] \in {"apply", "allocate"} -> {Row(c)}
      [] pc[c] = "settle" -> {r \in Rows : <<call[c].order, r[1]>> \in pendingRows}
      [] OTHER -> {}

\* A transaction that an error left open holds up c: by a row lock, or by the
\* last connection.  It belongs to a request that is still running or to one
\* of the REST API.
HeldUp(c) ==
    \E d \in Clients :
        /\ pc[d] # "idle" \/ d \in RestClients
        /\ abandoned[d].conns > 0
        /\ ~ConnFree \/ NeededRows(c) \cap abandoned[d].rows # {}

\* With more connections than adjustments that run at once, every request
\* returns, unless it waits for good for what a skipped rollback has kept, of
\* a request that is still running or of the REST API: a basket that repeats
\* an item can wait for itself.
EveryRequestReturns ==
    \A c \in Clients : pc[c] # "idle" ~> (pc[c] = "idle" \/ []HeldUp(c))
=============================================================================
