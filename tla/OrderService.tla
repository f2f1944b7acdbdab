---------------------------- MODULE OrderService ----------------------------
(***************************************************************************)
(* Orders and their stock in logistics-engine: the orders, order_items and *)
(* inventory_items tables, the REST and gRPC handlers of OrderService that *)
(* change them, the handlers of InventoryService that change the same      *)
(* quantities, and the events the handlers publish.                        *)
(*                                                                         *)
(* A database transaction, or a statement on the pool, is one step.  What  *)
(* a handler reads in one step and uses in a later one is in its call      *)
(* record, and may be stale by then.  A handler can end at any await: its  *)
(* caller disconnects and the future is dropped, the database aborts it as *)
(* a deadlock victim, or the process stops; an open transaction then rolls *)
(* back and nothing after the await happens.                               *)
(***************************************************************************)
EXTENDS Integers, FiniteSets, Functions

CONSTANTS Products,       \* ids of inventory_items
          Orders,         \* ids of orders
          Callers,        \* concurrent requests
          Ops,            \* the operations callers use
          Targets,        \* the statuses they ask for
          Baskets,        \* the quantities of each product create requests ask for
          Deltas,         \* the quantities of adjustments, transactions and item updates
          InitialStock,   \* each product's quantity at the start
          MaxConns,       \* max_connections of the pool
          MaxCalls,       \* bound: how many requests arrive
          None            \* no such order

\* The labels of the order_status type.
DbStatuses == {"pending", "processing", "shipped", "delivered", "cancelled", "returned"}

\* OrderStatus has one more variant, for which the type has no label.
OrderStatus == DbStatuses \cup {"out_of_stock"}

AllOps == {"create", "status", "put", "edit_item", "drop_item", "adjust", "transact",
           "edit_stock"}

\* Quantities of each product, the lines of one product together; no handler
\* calls validate(), so they may be negative.
Basket == [Products -> Int]

ASSUME ConstantsAssumption ==
    /\ Ops \subseteq AllOps
    /\ Targets \subseteq OrderStatus
    /\ Baskets \subseteq Basket
    /\ Deltas \subseteq Int
    /\ InitialStock \in [Products -> Nat]
    /\ MaxConns \in Nat
    /\ MaxCalls \in Nat
    /\ None \notin OrderStatus

\* A table has finitely many rows.
ASSUME FiniteOrders == IsFiniteSet(Orders)

VARIABLES stock,   \* inventory_items.quantity
          orders,  \* orders.status, None when there is no such order
          items,   \* order_items: what each order has of each product
          events,  \* what has been published
          pc,      \* where the handler of each caller stands
          call,    \* its arguments and local variables
          calls,
          unguarded  \* history: the products no check protects any more

tables == <<stock, orders, items>>
vars == <<tables, events, pc, call, calls, unguarded>>

-----------------------------------------------------------------------------
(* Requests *)

Nothing == [p \in Products |-> 0]

Request(op, order, target, basket, product, qty) ==
    [op |-> op, order |-> order, target |-> target, basket |-> basket,
     product |-> product, qty |-> qty]

NoCall == Request("none", None, "pending", Nothing, None, 0)

Requests ==
    {Request("create", None, "pending", b, None, 0) : b \in Baskets}
      \cup {Request(op, o, s, Nothing, None, 0) :
              op \in {"status", "put"}, o \in Orders, s \in Targets}
      \cup {Request("edit_item", o, "pending", Nothing, p, q) :
              o \in Orders, p \in Products, q \in Deltas \cap (Nat \ {0})}
      \cup {Request("drop_item", o, "pending", Nothing, p, 0) :
              o \in Orders, p \in Products}
      \cup {Request(op, None, "pending", Nothing, p, q) :
              op \in {"adjust", "transact"}, p \in Products, q \in Deltas}
      \cup {Request("edit_stock", None, "pending", Nothing, p, 0) : p \in Products}

FirstStep ==
    [create |-> "reserve", status |-> "find", put |-> "put", edit_item |-> "edit_item",
     drop_item |-> "drop_item", adjust |-> "check", transact |-> "record",
     edit_stock |-> "read"]

Call(c) ==
    /\ pc[c] = "idle"
    /\ calls < MaxCalls
    /\ \E r \in Requests :
        /\ r.op \in Ops
        /\ call' = [call EXCEPT ![c] = r]
        /\ pc' = [pc EXCEPT ![c] = FirstStep[r.op]]
    /\ calls' = calls + 1
    /\ UNCHANGED <<tables, events, unguarded>>

Goto(c, step) == pc' = [pc EXCEPT ![c] = step]

Return(c) ==
    /\ Goto(c, "idle")
    /\ call' = [call EXCEPT ![c] = NoCall]

\* The handler ends at an await.
Abort(c) ==
    /\ pc[c] # "idle"
    /\ Return(c)
    /\ UNCHANGED <<tables, events, calls, unguarded>>

-----------------------------------------------------------------------------
(* The connection pool *)

\* A cancellation holds a connection from the start of its transaction.
ConnsInUse == Cardinality({c \in Callers : pc[c] \in {"items", "cancel"}})

ConnFree == ConnsInUse < MaxConns

NeedsConn == {"create", "out_of_stock", "find", "begin", "items", "update", "put",
              "edit_item", "drop_item", "check", "record", "adjust", "read", "write"}

\* Mutant: a handler waits for a connection as long as it takes.
PoolWaitsForever(c) == FALSE

\* acquire_timeout: no connection became free, and the handler fails.
PoolTimeout(c) ==
    /\ pc[c] \in NeedsConn
    /\ ~ConnFree
    /\ Return(c)
    /\ UNCHANGED <<tables, events>>

-----------------------------------------------------------------------------
(* create_order *)

\* The inventory service refuses, or accepts, or cannot be asked; only a
\* refusal stops the order.
CheckAndReserveStock(c) ==
    /\ pc[c] = "reserve"
    /\ \/ Goto(c, "create") /\ UNCHANGED call
       \/ Return(c)
    /\ UNCHANGED <<tables, events>>

\* An id that no order has and no other handler was given.
Fresh(o) == orders[o] = None /\ \A d \in Callers : call[d].order # o

\* Mutant: one product with enough stock is enough.
EnoughOfOne(basket) == \E p \in Products : stock[p] >= basket[p]

\* Every UPDATE ... WHERE quantity >= $1 finds its row; a negative quantity
\* always does while the stock is not below it.
Enough(basket) == \A p \in Products : basket[p] # 0 => stock[p] >= basket[p]

\* One transaction: lock the products, insert the order and its items, and
\* take each quantity if there is enough; otherwise roll everything back.
CreateOrder(c) ==
    /\ pc[c] = "create"
    /\ ConnFree
    /\ \E o \in Orders :
        /\ Fresh(o)
        /\ call' = [call EXCEPT ![c].order = o]
        /\ LET basket == call[c].basket IN
           \/ /\ Enough(basket)
              /\ stock' = [p \in Products |-> stock[p] - basket[p]]
              /\ orders' = [orders EXCEPT ![o] = "pending"]
              /\ items' = [items EXCEPT ![o] = basket]
              /\ Goto(c, "publish_created")
           \/ /\ ~Enough(basket)
              /\ Goto(c, "out_of_stock")
              /\ UNCHANGED tables
    /\ UNCHANGED events

\* Mutant: the order is announced although it was rolled back.
MarkAndPublish(c) ==
    /\ pc[c] = "out_of_stock"
    /\ ConnFree
    /\ Goto(c, "publish_created")
    /\ UNCHANGED <<tables, events, call>>

\* The update to OutOfStock looks for the order that was rolled back.
MarkOutOfStock(c) ==
    /\ pc[c] = "out_of_stock"
    /\ ConnFree
    /\ Return(c)
    /\ UNCHANGED <<tables, events>>

\* publish_event: a failure is logged and forgotten.
Publish(event) == events' = events \cup {event} \/ UNCHANGED events

PublishCreated(c) ==
    /\ pc[c] = "publish_created"
    /\ Publish(<<"created", call[c].order>>)
    /\ Return(c)
    /\ UNCHANGED tables

-----------------------------------------------------------------------------
(* update_order_status *)

\* There is no such order, or it already has the status asked for.
NothingToDo(c) == orders[call[c].order] \in {None, call[c].target}

\* The order is read without a lock, and compared with what is asked for.
FindOrder(c) ==
    /\ pc[c] = "find"
    /\ ConnFree
    /\ \/ NothingToDo(c) /\ Return(c)
       \/ /\ ~NothingToDo(c)
          /\ Goto(c, IF call[c].target = "cancelled" THEN "begin" ELSE "update")
          /\ UNCHANGED call
    /\ UNCHANGED <<tables, events>>

BeginCancel(c) ==
    /\ pc[c] = "begin"
    /\ ConnFree
    /\ Goto(c, "items")
    /\ UNCHANGED <<tables, events, call>>

\* The items are read on the pool, outside the transaction.
ReadItems(c) ==
    /\ pc[c] = "items"
    /\ ConnFree
    /\ call' = [call EXCEPT ![c].basket = items[call[c].order]]
    /\ Goto(c, "cancel")
    /\ UNCHANGED <<tables, events>>

\* Mutant: the restored quantities are not written.
NotRestored(basket) == stock

Restored(basket) == [p \in Products |-> stock[p] + basket[p]]

\* The transaction: restore what was read, whatever the status is by now.
CancelOrder(c) ==
    /\ pc[c] = "cancel"
    /\ stock' = Restored(call[c].basket)
    /\ orders' = [orders EXCEPT ![call[c].order] = "cancelled"]
    /\ Goto(c, "publish_status")
    /\ UNCHANGED <<items, events, call>>

\* Mutant: every variant of the enum is taken to have a label.
HasVariant(status) == status \in OrderStatus

\* The column can hold the status.
HasLabel(status) == status \in DbStatuses

\* Any other status is written over whatever is there.
UpdateStatus(c) ==
    /\ pc[c] = "update"
    /\ ConnFree
    /\ \/ /\ HasLabel(call[c].target)
          /\ orders' = [orders EXCEPT ![call[c].order] = call[c].target]
          /\ Goto(c, "publish_status")
          /\ UNCHANGED <<stock, items, call>>
       \/ ~HasLabel(call[c].target) /\ Return(c) /\ UNCHANGED tables
    /\ UNCHANGED events

PublishStatus(c) ==
    /\ pc[c] = "publish_status"
    /\ Publish(<<"status", call[c].order, call[c].target>>)
    /\ \/ call[c].target = "cancelled" /\ Goto(c, "publish_cancelled") /\ UNCHANGED call
       \/ call[c].target # "cancelled" /\ Return(c)
    /\ UNCHANGED tables

PublishCancelled(c) ==
    /\ pc[c] = "publish_cancelled"
    /\ Publish(<<"cancelled", call[c].order>>)
    /\ Goto(c, "release")
    /\ UNCHANGED <<tables, call>>

\* The inventory service is told, under an id it never gave out; whatever it
\* answers is logged.
ReleaseReservedStock(c) ==
    /\ pc[c] = "release"
    /\ Return(c)
    /\ UNCHANGED <<tables, events>>

-----------------------------------------------------------------------------
(* update_order, update_order_item, delete_order_item: no stock moves *)

UpdateOrder(c) ==
    /\ pc[c] = "put"
    /\ ConnFree
    /\ Return(c)
    /\ LET o == call[c].order
           accepted == orders[o] # None /\ HasLabel(call[c].target)
       IN  \/ accepted /\ orders' = [orders EXCEPT ![o] = call[c].target]
           \/ ~accepted /\ UNCHANGED orders
    /\ UNCHANGED <<stock, items, events>>

\* An order has a row for each product it has a quantity of.
HasRow(c) == orders[call[c].order] # None /\ items[call[c].order][call[c].product] # 0

UpdateOrderItem(c) ==
    /\ pc[c] = "edit_item"
    /\ ConnFree
    /\ Return(c)
    /\ \/ /\ HasRow(c)
          /\ items' = [items EXCEPT ![call[c].order][call[c].product] = call[c].qty]
       \/ ~HasRow(c) /\ UNCHANGED items
    /\ UNCHANGED <<stock, orders, events>>

DeleteOrderItem(c) ==
    /\ pc[c] = "drop_item"
    /\ ConnFree
    /\ Return(c)
    /\ \/ HasRow(c) /\ items' = [items EXCEPT ![call[c].order][call[c].product] = 0]
       \/ ~HasRow(c) /\ UNCHANGED items
    /\ UNCHANGED <<stock, orders, events>>

-----------------------------------------------------------------------------
(* InventoryService: adjust_quantity, create_transaction and update_item *)

CheckAdjust(c) ==
    /\ pc[c] = "check"
    /\ ConnFree
    /\ \/ stock[call[c].product] + call[c].qty >= 0 /\ Goto(c, "adjust") /\ UNCHANGED call
       \/ stock[call[c].product] + call[c].qty < 0 /\ Return(c)
    /\ UNCHANGED <<tables, events>>

\* create_transaction finds the item and the warehouse and inserts its row;
\* the quantity it is about to change is not looked at.
RecordTransaction(c) ==
    /\ pc[c] = "record"
    /\ ConnFree
    /\ Goto(c, "adjust")
    /\ UNCHANGED <<tables, events, call>>

AdjustQuantity(c) ==
    /\ pc[c] = "adjust"
    /\ ConnFree
    /\ stock' = [stock EXCEPT ![call[c].product] = @ + call[c].qty]
    /\ Return(c)
    /\ UNCHANGED <<orders, items, events>>

\* An update reads the whole row, and keeps the quantity it read unless the
\* request carries one ...
ReadStock(c) ==
    /\ pc[c] = "read"
    /\ ConnFree
    /\ \E q \in {stock[call[c].product]} \cup (Deltas \cap Nat) :
        call' = [call EXCEPT ![c].qty = q]
    /\ Goto(c, "write")
    /\ UNCHANGED <<tables, events>>

\* ... and writes every column back.
WriteStock(c) ==
    /\ pc[c] = "write"
    /\ ConnFree
    /\ stock' = [stock EXCEPT ![call[c].product] = call[c].qty]
    /\ Return(c)
    /\ UNCHANGED <<orders, items, events>>

-----------------------------------------------------------------------------
(* Specification *)

Init ==
    /\ stock = InitialStock
    /\ orders = [o \in Orders |-> None]
    /\ items = [o \in Orders |-> Nothing]
    /\ events = {}
    /\ pc = [c \in Callers |-> "idle"]
    /\ call = [c \in Callers |-> NoCall]
    /\ calls = 0
    /\ unguarded = {}

\* What the step of c takes out of the checks' protection: a product ordered
\* in a negative quantity, which a cancellation will take from the shelf; one
\* that a transaction removes without a check; one whose quantity changes
\* between another handler's check of it and the write.
Exposes(c) ==
    {p \in Products :
        \/ pc[c] = "create" /\ call[c].basket[p] < 0
        \/ pc[c] = "record" /\ call[c].product = p /\ call[c].qty < 0
        \/ /\ stock'[p] # stock[p]
           /\ \E d \in Callers \ {c} : pc[d] = "adjust" /\ call[d].product = p}

Step(c) ==
    /\ \/ CheckAndReserveStock(c) \/ CreateOrder(c) \/ MarkOutOfStock(c) \/ PublishCreated(c)
       \/ FindOrder(c) \/ BeginCancel(c) \/ ReadItems(c) \/ CancelOrder(c) \/ UpdateStatus(c)
       \/ PublishStatus(c) \/ PublishCancelled(c) \/ ReleaseReservedStock(c)
       \/ UpdateOrder(c) \/ UpdateOrderItem(c) \/ DeleteOrderItem(c)
       \/ CheckAdjust(c) \/ RecordTransaction(c) \/ AdjustQuantity(c)
       \/ ReadStock(c) \/ WriteStock(c) \/ PoolTimeout(c)
    /\ unguarded' = unguarded \cup Exposes(c)
    /\ UNCHANGED calls

Next == \E c \in Callers : Call(c) \/ Step(c) \/ Abort(c)

Spec == Init /\ [][Next]_vars

\* Every task that can take its next step eventually does.
FairSpec == Spec /\ \A c \in Callers : WF_vars(Step(c))

-----------------------------------------------------------------------------
(* Properties *)

Event == ({"created", "cancelled"} \X Orders) \cup ({"status"} \X Orders \X OrderStatus)

Steps == {"idle", "reserve", "publish_created", "cancel", "publish_status",
          "publish_cancelled", "release"} \cup NeedsConn

CallRecord ==
    [op : AllOps \cup {"none"}, order : Orders \cup {None}, target : OrderStatus,
     basket : Basket, product : Products \cup {None}, qty : Int]

\* Every variable has its type; an order never has a status that the
\* database has no label for.
TypeOK ==
    /\ stock \in [Products -> Int]
    /\ orders \in [Orders -> DbStatuses \cup {None}]
    /\ items \in [Orders -> Basket]
    /\ events \subseteq Event
    /\ pc \in [Callers -> Steps]
    /\ call \in [Callers -> CallRecord]
    /\ calls \in Nat
    /\ unguarded \subseteq Products

\* The checks keep the shelf from selling what is not there: with every
\* operation interleaved in every way, a quantity falls below zero only after
\* a negative line was ordered, a transaction removed units unchecked, or the
\* quantity changed between adjust_quantity's check and its write.
StockNonNegative == \A p \in Products \ unguarded : stock[p] >= 0

\* The units of p on the shelf and in orders that still want them.
LiveOrders == {o \in Orders : orders[o] \notin {None, "cancelled"}}
Units(p) == stock[p] + SumFunctionOnSet([o \in Orders |-> items[o][p]], LiveOrders)

\* The writes after which the units of p are not what they were: a status over
\* an order that is cancelled by then, a cancellation of items that changed
\* since they were read, update_order making an order cancelled, or no longer
\* cancelled, without touching the shelf, and the writes of p's own quantities.
MovesUnits(c, p) ==
    LET r == call[c] IN
    \/ pc[c] \in {"cancel", "update"} /\ orders[r.order] = "cancelled"
    \/ pc[c] = "cancel" /\ r.basket[p] # items[r.order][p]
    \/ pc[c] = "put" /\ (orders[r.order] = "cancelled") # (r.target = "cancelled")
    \/ pc[c] \in {"edit_item", "drop_item", "adjust", "write"} /\ r.product = p

\* No other step of any operation makes units appear or vanish: creating, rolling
\* back, an abort at any await, and cancelling for the first time only move
\* them between the shelf and the orders.
UnitsMoved ==
    [][\A p \in Products : \/ Units(p)' = Units(p)
                           \/ \E c \in Callers : pc'[c] # pc[c] /\ MovesUnits(c, p)]_vars

\* An order that was announced as created exists: no event is published for
\* a transaction that rolled back.
EventsTruthful == \A o \in Orders : <<"created", o>> \in events => orders[o] # None

\* Every request is answered: a cancellation that waits for a second
\* connection while holding its first gives up.
EveryRequestReturns == \A c \in Callers : pc[c] # "idle" ~> pc[c] = "idle"

\* Cancelling an order that is already cancelled moves no stock.
CancelledOnce ==
    [][\A c \in Callers : pc[c] = "cancel" /\ stock' # stock /\ pc'[c] = "publish_status"
                            => orders[call[c].order] # "cancelled"]_vars
=============================================================================
