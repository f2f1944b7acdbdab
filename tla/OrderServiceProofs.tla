------------------------- MODULE OrderServiceProofs -------------------------
(***************************************************************************)
(* Theorems about OrderService, for every number of products, orders,      *)
(* callers and connections.                                                *)
(***************************************************************************)
EXTENDS OrderService, SumProofs, TLAPS

\* Steps that work on the order of the request, and on its product.
OrderSteps == {"publish_created", "find", "begin", "items", "cancel", "update", "put",
               "publish_status", "publish_cancelled", "release", "edit_item", "drop_item"}

ProductSteps == {"edit_item", "drop_item", "check", "record", "adjust", "read", "write"}

\* A handler with call record r has the arguments that a step uses.
Fits(step, r) ==
    /\ step \in OrderSteps => r.order \in Orders
    /\ step \in ProductSteps => r.product \in Products
    /\ step = "edit_item" => r.qty \in Nat

ControlOK ==
    /\ pc \in [Callers -> Steps]
    /\ call \in [Callers -> CallRecord]
    /\ \A c \in Callers : Fits(pc[c], call[c])

TablesOK ==
    /\ stock \in [Products -> Int]
    /\ orders \in [Orders -> DbStatuses \cup {None}]
    /\ items \in [Orders -> Basket]
    /\ events \subseteq Event

\* A handler that is about to announce a creation has committed it.
Committed == \A c \in Callers : pc[c] = "publish_created" => orders[call[c].order] # None

\* Inductive: an order never disappears, so one that exists when its handler
\* reaches the announcement exists when it is published.
IInv == ControlOK /\ TablesOK /\ Committed /\ EventsTruthful /\ calls \in Nat

-----------------------------------------------------------------------------
(* Handlers *)

\* A record without a request has the type of a call.
LEMMA NoCallType == NoCall \in CallRecord
BY ConstantsAssumption DEF Request, NoCall, CallRecord, Nothing, Basket, OrderStatus, DbStatuses

\* What a request has to be: a call record that fits its first step.
GoodRequest(r) ==
    /\ r \in CallRecord
    /\ r.op \in AllOps
    /\ Fits(FirstStep[r.op], r)

\* Every request of every operation is one.
LEMMA RequestFacts == \A r \in Requests : GoodRequest(r)
<1> SUFFICES ASSUME NEW r \in Requests PROVE GoodRequest(r)
  OBVIOUS
<1> USE ConstantsAssumption
    DEF Request, NoCall, CallRecord, Nothing, Basket, OrderStatus, DbStatuses, AllOps, FirstStep,
        OrderSteps, ProductSteps, GoodRequest, Fits
<1>1. ASSUME NEW b \in Baskets, r = Request("create", None, "pending", b, None, 0)
      PROVE  GoodRequest(r)
  BY <1>1
<1>2. ASSUME NEW op \in {"status", "put"}, NEW o \in Orders, NEW s \in Targets,
             r = Request(op, o, s, Nothing, None, 0)
      PROVE  GoodRequest(r)
  BY <1>2
<1>3. ASSUME NEW o \in Orders, NEW p \in Products, NEW q \in Deltas \cap (Nat \ {0}),
             r = Request("edit_item", o, "pending", Nothing, p, q)
      PROVE  GoodRequest(r)
  BY <1>3
<1>4. ASSUME NEW o \in Orders, NEW p \in Products,
             r = Request("drop_item", o, "pending", Nothing, p, 0)
      PROVE  GoodRequest(r)
  BY <1>4
<1>5. ASSUME NEW op \in {"adjust", "transact"}, NEW p \in Products, NEW q \in Deltas,
             r = Request(op, None, "pending", Nothing, p, q)
      PROVE  GoodRequest(r)
  BY <1>5
<1>6. ASSUME NEW p \in Products, r = Request("edit_stock", None, "pending", Nothing, p, 0)
      PROVE  GoodRequest(r)
  BY <1>6
<1> HIDE ConstantsAssumption
    DEF Request, NoCall, CallRecord, Nothing, Basket, OrderStatus, DbStatuses, AllOps, FirstStep,
        OrderSteps, ProductSteps, GoodRequest, Fits
<1>7. \/ \E b \in Baskets : r = Request("create", None, "pending", b, None, 0)
      \/ \E op \in {"status", "put"}, o \in Orders, s \in Targets :
            r = Request(op, o, s, Nothing, None, 0)
      \/ \E o \in Orders, p \in Products, q \in Deltas \cap (Nat \ {0}) :
            r = Request("edit_item", o, "pending", Nothing, p, q)
      \/ \E o \in Orders, p \in Products :
            r = Request("drop_item", o, "pending", Nothing, p, 0)
      \/ \E op \in {"adjust", "transact"}, p \in Products, q \in Deltas :
            r = Request(op, None, "pending", Nothing, p, q)
      \/ \E p \in Products : r = Request("edit_stock", None, "pending", Nothing, p, 0)
  BY DEF Requests
<1>8. QED
  BY <1>1, <1>2, <1>3, <1>4, <1>5, <1>6, <1>7

\* The first step of an operation is a step.
LEMMA FirstSteps ==
    \A op \in AllOps : FirstStep[op] \in Steps \ {"publish_created", "adjust", "write", "idle"}
BY DEF AllOps, FirstStep, Steps, NeedsConn

\* A handler moves to a step that fits its record; the others stay.
LEMMA MoveControl ==
    ASSUME ControlOK, NEW c \in Callers, NEW r \in CallRecord, NEW step \in Steps,
           Fits(step, r),
           pc' = [pc EXCEPT ![c] = step], call' = [call EXCEPT ![c] = r]
    PROVE  /\ ControlOK'
           /\ pc'[c] = step /\ call'[c] = r
           /\ \A d \in Callers \ {c} : pc'[d] = pc[d] /\ call'[d] = call[d]
BY DEF ControlOK, Fits

\* A handler returns.
LEMMA ReturnControl ==
    ASSUME ControlOK, NEW c \in Callers, Return(c)
    PROVE  /\ ControlOK'
           /\ pc'[c] = "idle"
           /\ \A d \in Callers \ {c} : pc'[d] = pc[d] /\ call'[d] = call[d]
<1>1. Fits("idle", NoCall) /\ "idle" \in Steps
  BY DEF Fits, OrderSteps, ProductSteps, Steps
<1>2. QED
  BY <1>1, MoveControl, NoCallType DEF Return, Goto

\* A handler goes to another step with the record it has.
LEMMA GotoControl ==
    ASSUME ControlOK, NEW c \in Callers, NEW step \in Steps, Fits(step, call[c]),
           Goto(c, step), UNCHANGED call
    PROVE  /\ ControlOK'
           /\ pc'[c] = step /\ call'[c] = call[c]
           /\ \A d \in Callers \ {c} : pc'[d] = pc[d] /\ call'[d] = call[d]
<1>1. call[c] \in CallRecord /\ call' = [call EXCEPT ![c] = call[c]]
  BY DEF ControlOK
<1>2. QED
  BY <1>1, MoveControl DEF Goto

\* Only the handler of c moves.
OthersStay(c) == \A d \in Callers \ {c} : pc'[d] = pc[d] /\ call'[d] = call[d]

\* No order disappears.
OrdersStay == \A o \in Orders : orders[o] # None => orders'[o] # None

-----------------------------------------------------------------------------
(* Every step keeps the invariant *)

\* A step that keeps the handlers and the tables well formed, loses no order
\* and announces none that does not exist keeps the whole invariant.
LEMMA KeepsInv ==
    ASSUME IInv, NEW c \in Callers, OthersStay(c), ControlOK', TablesOK', OrdersStay,
           pc'[c] = "publish_created" => orders'[call'[c].order] # None,
           \A o \in Orders : <<"created", o>> \in events' =>
               <<"created", o>> \in events \/ orders'[o] # None,
           calls' \in Nat
    PROVE  IInv'
<1>1. Committed'
  <2> SUFFICES ASSUME NEW d \in Callers, pc'[d] = "publish_created"
               PROVE  orders'[call'[d].order] # None
    BY DEF Committed
  <2>1. CASE d = c
    BY <2>1
  <2>2. CASE d # c
    <3>1. pc[d] = "publish_created" /\ call'[d] = call[d]
      BY <2>2 DEF OthersStay
    <3>2. orders[call[d].order] # None /\ call[d].order \in Orders
      BY <3>1 DEF IInv, Committed, ControlOK, Fits, OrderSteps
    <3>3. QED
      BY <3>1, <3>2 DEF OrdersStay
  <2>3. QED
    BY <2>1, <2>2
<1>2. EventsTruthful'
  BY DEF EventsTruthful, IInv, OrdersStay
<1>3. QED
  BY <1>1, <1>2 DEF IInv

\* In particular one that only moves the handler on.
LEMMA QuietStep ==
    ASSUME IInv, NEW c \in Callers, OthersStay(c), ControlOK',
           pc'[c] # "publish_created", UNCHANGED <<tables, events>>, calls' \in Nat
    PROVE  IInv'
<1>1. TablesOK' /\ OrdersStay
  BY DEF IInv, TablesOK, OrdersStay, tables
<1>2. QED
  BY <1>1, KeepsInv

\* And one that changes the tables but no announcement, and returns or goes
\* on to announce a status.
LEMMA WriteStep ==
    ASSUME IInv, NEW c \in Callers, OthersStay(c), ControlOK', TablesOK', OrdersStay,
           pc'[c] # "publish_created", UNCHANGED <<events, calls>>
    PROVE  IInv'
<1>1. calls' \in Nat
  BY DEF IInv
<1>2. QED
  BY <1>1, KeepsInv

\* create_order: the call to the inventory service, the transaction, the
\* failed mark and the announcement.
LEMMA CreateInv ==
    ASSUME IInv, NEW c \in Callers, UNCHANGED calls,
           \/ CheckAndReserveStock(c) \/ CreateOrder(c)
           \/ MarkOutOfStock(c) \/ PublishCreated(c)
    PROVE  IInv'
<1>0. ControlOK /\ TablesOK /\ calls' \in Nat /\ Fits(pc[c], call[c])
  BY DEF IInv, ControlOK
<1>1. CASE CheckAndReserveStock(c)
  <2>1. CASE Return(c)
    BY <1>0, <1>1, <2>1, ReturnControl, QuietStep DEF CheckAndReserveStock, OthersStay
  <2>2. CASE Goto(c, "create") /\ UNCHANGED call
    <3>1. Fits("create", call[c]) /\ "create" \in Steps
      BY DEF Fits, OrderSteps, ProductSteps, Steps, NeedsConn
    <3>2. QED
      BY <1>0, <1>1, <2>2, <3>1, GotoControl, QuietStep DEF CheckAndReserveStock, OthersStay
  <2>3. QED
    BY <1>1, <2>1, <2>2 DEF CheckAndReserveStock
<1>2. CASE CreateOrder(c)
  <2>1. PICK o \in Orders :
          /\ Fresh(o)
          /\ call' = [call EXCEPT ![c].order = o]
          /\ \/ /\ Enough(call[c].basket)
                /\ stock' = [p \in Products |-> stock[p] - call[c].basket[p]]
                /\ orders' = [orders EXCEPT ![o] = "pending"]
                /\ items' = [items EXCEPT ![o] = call[c].basket]
                /\ Goto(c, "publish_created")
             \/ /\ ~Enough(call[c].basket)
                /\ Goto(c, "out_of_stock")
                /\ UNCHANGED tables
    BY <1>2 DEF CreateOrder
  <2> DEFINE r == Request(call[c].op, o, call[c].target, call[c].basket,
                          call[c].product, call[c].qty)
  <2>2. call[c] \in CallRecord /\ call[c].basket \in Basket
    BY <1>0 DEF ControlOK, CallRecord
  <2>3. r \in CallRecord /\ r.order = o
    BY <2>2 DEF CallRecord, Request
  <2>4. call' = [call EXCEPT ![c] = r]
    <3>1. [call[c] EXCEPT !.order = o] = r
      BY <2>2 DEF CallRecord, Request
    <3>2. call' = [call EXCEPT ![c] = [call[c] EXCEPT !.order = o]]
      BY <1>0, <2>1, Zenon DEF ControlOK
    <3>3. QED
      BY <3>1, <3>2
  <2> HIDE DEF r
  <2>5. /\ Fits("publish_created", r) /\ "publish_created" \in Steps
        /\ Fits("out_of_stock", r) /\ "out_of_stock" \in Steps
    BY <2>3 DEF Fits, OrderSteps, ProductSteps, Steps, NeedsConn
  <2>6. CASE Goto(c, "out_of_stock") /\ UNCHANGED tables
    <3>1. ControlOK' /\ OthersStay(c) /\ pc'[c] = "out_of_stock"
      BY <1>0, <2>3, <2>4, <2>5, <2>6, MoveControl DEF Goto, OthersStay
    <3>2. QED
      BY <1>0, <1>2, <2>6, <3>1, QuietStep DEF CreateOrder
  <2>7. CASE /\ Goto(c, "publish_created")
             /\ stock' = [p \in Products |-> stock[p] - call[c].basket[p]]
             /\ orders' = [orders EXCEPT ![o] = "pending"]
             /\ items' = [items EXCEPT ![o] = call[c].basket]
    <3>1. ControlOK' /\ OthersStay(c) /\ pc'[c] = "publish_created" /\ call'[c] = r
      BY <1>0, <2>3, <2>4, <2>5, <2>7, MoveControl DEF Goto, OthersStay
    <3>2. stock' \in [Products -> Int]
      BY <1>0, <2>2, <2>7 DEF TablesOK, Basket
    <3>3. orders' \in [Orders -> DbStatuses \cup {None}]
      BY <1>0, <2>7 DEF TablesOK, DbStatuses
    <3>4. items' \in [Orders -> Basket]
      BY <1>0, <2>2, <2>7 DEF TablesOK
    <3>5. OrdersStay /\ orders'[r.order] # None
      BY <1>0, <2>3, <2>7, ConstantsAssumption
      DEF TablesOK, OrdersStay, OrderStatus, DbStatuses
    <3>6. TablesOK' /\ UNCHANGED events
      BY <1>0, <1>2, <3>2, <3>3, <3>4 DEF CreateOrder, TablesOK
    <3>7. QED
      BY <1>0, <3>1, <3>5, <3>6, KeepsInv
  <2>8. QED
    BY <2>1, <2>6, <2>7
<1>3. CASE MarkOutOfStock(c)
  BY <1>0, <1>3, ReturnControl, QuietStep DEF MarkOutOfStock, OthersStay
<1>4. CASE PublishCreated(c)
  <2>1. ControlOK' /\ OthersStay(c) /\ pc'[c] = "idle"
    BY <1>0, <1>4, ReturnControl DEF PublishCreated, OthersStay
  <2>2. call[c].order \in Orders /\ orders[call[c].order] # None
    BY <1>0, <1>4 DEF PublishCreated, Fits, OrderSteps, IInv, Committed
  <2>3. UNCHANGED <<stock, orders, items>>
    BY <1>4 DEF PublishCreated, tables
  <2>4. TablesOK' /\ OrdersStay
    BY <1>0, <1>4, <2>2, <2>3 DEF PublishCreated, Publish, TablesOK, Event, OrdersStay
  <2>5. \A o \in Orders : <<"created", o>> \in events' =>
           <<"created", o>> \in events \/ orders'[o] # None
    BY <1>4, <2>2, <2>3 DEF PublishCreated, Publish
  <2>6. QED
    BY <1>0, <2>1, <2>4, <2>5, KeepsInv
<1>5. QED
  BY <1>1, <1>2, <1>3, <1>4

\* Announcing anything but a creation keeps the invariant.
LEMMA PublishStep ==
    ASSUME IInv, NEW c \in Callers, OthersStay(c), ControlOK', pc'[c] # "publish_created",
           NEW e \in Event, \A o \in Orders : e # <<"created", o>>,
           Publish(e), UNCHANGED <<tables, calls>>
    PROVE  IInv'
<1>1. TablesOK' /\ OrdersStay /\ calls' \in Nat
  BY DEF IInv, TablesOK, OrdersStay, Publish, tables
<1>2. \A o \in Orders : <<"created", o>> \in events' => <<"created", o>> \in events
  BY DEF Publish
<1>3. QED
  BY <1>1, <1>2, KeepsInv

\* Writing a status over an order's keeps the tables well formed.
LEMMA StatusWritten ==
    ASSUME TablesOK, NEW o \in Orders, NEW s \in DbStatuses,
           orders' = [orders EXCEPT ![o] = s]
    PROVE  orders' \in [Orders -> DbStatuses \cup {None}] /\ OrdersStay
BY ConstantsAssumption DEF TablesOK, OrdersStay, OrderStatus

\* update_order_status: reading the order, the transaction of a cancellation,
\* the update of another status and the announcements.
LEMMA StatusInv ==
    ASSUME IInv, NEW c \in Callers, UNCHANGED calls,
           \/ FindOrder(c) \/ BeginCancel(c) \/ ReadItems(c) \/ CancelOrder(c)
           \/ UpdateStatus(c) \/ PublishStatus(c) \/ PublishCancelled(c)
           \/ ReleaseReservedStock(c) \/ PoolTimeout(c)
    PROVE  IInv'
<1>0. /\ ControlOK /\ TablesOK /\ calls' \in Nat /\ Fits(pc[c], call[c])
      /\ call[c] \in CallRecord
  BY DEF IInv, ControlOK
<1>a. {"begin", "update", "items", "cancel", "publish_status", "publish_cancelled",
       "release"} \subseteq (Steps \cap OrderSteps) \ (ProductSteps \cup {"publish_created"})
  BY DEF Steps, NeedsConn, OrderSteps, ProductSteps
<1>1. CASE FindOrder(c)
  <2>1. CASE Return(c)
    BY <1>0, <1>1, <2>1, ReturnControl, QuietStep DEF FindOrder, OthersStay
  <2>2. CASE ~Return(c)
    <3>1. PICK step \in {"begin", "update"} : Goto(c, step) /\ UNCHANGED call
      BY <1>1, <2>2 DEF FindOrder
    <3>2. Fits(step, call[c]) /\ step \in Steps
      BY <1>0, <1>1, <1>a DEF FindOrder, Fits, OrderSteps
    <3>3. ControlOK' /\ OthersStay(c) /\ pc'[c] = step
      BY <1>0, <3>1, <3>2, GotoControl DEF OthersStay
    <3>4. QED
      BY <1>0, <1>1, <3>3, QuietStep DEF FindOrder
  <2>3. QED
    BY <2>1, <2>2
<1>2. CASE BeginCancel(c)
  <2>1. Fits("items", call[c]) /\ "items" \in Steps
    BY <1>0, <1>2, <1>a DEF BeginCancel, Fits, OrderSteps
  <2>2. QED
    BY <1>0, <1>2, <2>1, GotoControl, QuietStep DEF BeginCancel, OthersStay
<1>3. CASE ReadItems(c)
  <2> DEFINE b == items[call[c].order]
             r == Request(call[c].op, call[c].order, call[c].target, b,
                          call[c].product, call[c].qty)
  <2>1. call[c].order \in Orders
    BY <1>0, <1>3 DEF ReadItems, Fits, OrderSteps
  <2>2. r \in CallRecord /\ r.order = call[c].order
    BY <1>0, <2>1 DEF TablesOK, CallRecord, Request
  <2>3. [call[c] EXCEPT !.basket = b] = r
    BY <1>0 DEF CallRecord, Request
  <2>4. call' = [call EXCEPT ![c] = r]
    <3>1. call' = [call EXCEPT ![c] = [call[c] EXCEPT !.basket = b]]
      BY <1>0, <1>3, Zenon DEF ReadItems, ControlOK
    <3>2. QED
      BY <2>3, <3>1
  <2> HIDE DEF r
  <2>5. Fits("cancel", r) /\ "cancel" \in Steps
    BY <1>a, <2>1, <2>2 DEF Fits
  <2>6. ControlOK' /\ OthersStay(c) /\ pc'[c] = "cancel"
    <3>1. pc' = [pc EXCEPT ![c] = "cancel"]
      BY <1>3 DEF ReadItems, Goto
    <3>2. QED
      BY <1>0, <2>2, <2>4, <2>5, <3>1, MoveControl DEF OthersStay
  <2>7. QED
    BY <1>0, <1>3, <2>6, QuietStep DEF ReadItems
<1>4. CASE CancelOrder(c)
  <2>1. call[c].order \in Orders /\ call[c].basket \in Basket
    BY <1>0, <1>4 DEF CancelOrder, Fits, OrderSteps, CallRecord
  <2>2. Fits("publish_status", call[c]) /\ "publish_status" \in Steps
    BY <1>a, <2>1 DEF Fits
  <2>3. ControlOK' /\ OthersStay(c) /\ pc'[c] = "publish_status"
    BY <1>0, <1>4, <2>2, GotoControl DEF CancelOrder, OthersStay
  <2>4. stock' \in [Products -> Int]
    BY <1>0, <1>4, <2>1 DEF CancelOrder, Restored, TablesOK, Basket
  <2>5. orders' \in [Orders -> DbStatuses \cup {None}] /\ OrdersStay
    BY <1>0, <1>4, <2>1, StatusWritten DEF CancelOrder, DbStatuses
  <2>6. TablesOK'
    BY <1>0, <1>4, <2>4, <2>5 DEF CancelOrder, TablesOK
  <2>7. QED
    BY <1>4, <2>3, <2>5, <2>6, WriteStep DEF CancelOrder
<1>5. CASE UpdateStatus(c)
  <2>1. CASE Return(c) /\ UNCHANGED tables
    BY <1>0, <1>5, <2>1, ReturnControl, QuietStep DEF UpdateStatus, OthersStay
  <2>2. CASE /\ HasLabel(call[c].target)
             /\ orders' = [orders EXCEPT ![call[c].order] = call[c].target]
             /\ Goto(c, "publish_status")
             /\ UNCHANGED <<stock, items, call>>
    <3>1. call[c].order \in Orders
      BY <1>0, <1>5 DEF UpdateStatus, Fits, OrderSteps
    <3>2. Fits("publish_status", call[c]) /\ "publish_status" \in Steps
      BY <1>a, <3>1 DEF Fits
    <3>3. ControlOK' /\ OthersStay(c) /\ pc'[c] = "publish_status"
      BY <1>0, <2>2, <3>2, GotoControl DEF OthersStay
    <3>4. orders' \in [Orders -> DbStatuses \cup {None}] /\ OrdersStay
      BY <1>0, <2>2, <3>1, StatusWritten DEF HasLabel
    <3>5. TablesOK' /\ UNCHANGED events
      BY <1>0, <1>5, <2>2, <3>4 DEF UpdateStatus, TablesOK
    <3>6. QED
      BY <3>3, <3>4, <3>5, WriteStep
  <2>3. QED
    BY <1>5, <2>1, <2>2 DEF UpdateStatus
<1>6. CASE PublishStatus(c)
  <2>1. call[c].order \in Orders /\ call[c].target \in OrderStatus
    BY <1>0, <1>6 DEF PublishStatus, Fits, OrderSteps, CallRecord
  <2>2. ControlOK' /\ OthersStay(c) /\ pc'[c] # "publish_created"
    <3>1. CASE Return(c)
      BY <1>0, <3>1, ReturnControl DEF OthersStay
    <3>2. CASE Goto(c, "publish_cancelled") /\ UNCHANGED call
      <4>1. Fits("publish_cancelled", call[c]) /\ "publish_cancelled" \in Steps
        BY <1>a, <2>1 DEF Fits
      <4>2. QED
        BY <1>0, <3>2, <4>1, GotoControl DEF OthersStay
    <3>3. QED
      BY <1>6, <3>1, <3>2 DEF PublishStatus
  <2>3. <<"status", call[c].order, call[c].target>> \in Event
    BY <2>1 DEF Event
  <2>4. QED
    BY <1>6, <2>2, <2>3, PublishStep DEF PublishStatus
<1>7. CASE PublishCancelled(c)
  <2>1. call[c].order \in Orders
    BY <1>0, <1>7 DEF PublishCancelled, Fits, OrderSteps
  <2>2. Fits("release", call[c]) /\ "release" \in Steps
    BY <1>a, <2>1 DEF Fits
  <2>3. ControlOK' /\ OthersStay(c) /\ pc'[c] # "publish_created"
    BY <1>0, <1>7, <2>2, GotoControl DEF PublishCancelled, OthersStay
  <2>4. <<"cancelled", call[c].order>> \in Event
    BY <2>1 DEF Event
  <2>5. QED
    BY <1>7, <2>3, <2>4, PublishStep DEF PublishCancelled
<1>8. CASE ReleaseReservedStock(c) \/ PoolTimeout(c)
  BY <1>0, <1>8, ReturnControl, QuietStep DEF ReleaseReservedStock, PoolTimeout, OthersStay
<1>9. QED
  BY <1>1, <1>2, <1>3, <1>4, <1>5, <1>6, <1>7, <1>8

\* The other writers: update_order, update_order_item, delete_order_item, and
\* adjust_quantity, create_transaction and update_item of the inventory service.
LEMMA EditInv ==
    ASSUME IInv, NEW c \in Callers, UNCHANGED calls,
           \/ UpdateOrder(c) \/ UpdateOrderItem(c) \/ DeleteOrderItem(c)
           \/ CheckAdjust(c) \/ RecordTransaction(c) \/ AdjustQuantity(c)
           \/ ReadStock(c) \/ WriteStock(c)
    PROVE  IInv'
<1>0. /\ ControlOK /\ TablesOK /\ calls' \in Nat /\ Fits(pc[c], call[c])
      /\ call[c] \in CallRecord
  BY DEF IInv, ControlOK
<1>a. ASSUME Return(c) PROVE ControlOK' /\ OthersStay(c) /\ pc'[c] # "publish_created"
  BY <1>0, <1>a, ReturnControl DEF OthersStay
<1>1. CASE UpdateOrder(c)
  <2>1. call[c].order \in Orders
    BY <1>0, <1>1 DEF UpdateOrder, Fits, OrderSteps
  <2>2. orders' \in [Orders -> DbStatuses \cup {None}] /\ OrdersStay
    <3>1. CASE UNCHANGED orders
      BY <1>0, <3>1 DEF TablesOK, OrdersStay
    <3>2. CASE ~UNCHANGED orders
      BY <1>0, <1>1, <2>1, <3>2, StatusWritten DEF UpdateOrder, HasLabel
    <3>3. QED
      BY <3>1, <3>2
  <2>3. TablesOK'
    BY <1>0, <1>1, <2>2 DEF UpdateOrder, TablesOK
  <2>4. QED
    BY <1>1, <1>a, <2>2, <2>3, WriteStep DEF UpdateOrder
<1>2. CASE UpdateOrderItem(c) \/ DeleteOrderItem(c)
  <2> DEFINE o == call[c].order
             p == call[c].product
  <2>1. o \in Orders /\ p \in Products /\ Return(c) /\ UNCHANGED <<stock, orders, events>>
    BY <1>0, <1>2 DEF UpdateOrderItem, DeleteOrderItem, Fits, OrderSteps, ProductSteps
  <2>2. \/ UNCHANGED items
        \/ \E q \in Nat : items' = [items EXCEPT ![o][p] = q]
    BY <1>0, <1>2 DEF UpdateOrderItem, DeleteOrderItem, Fits
  <2>3. items' \in [Orders -> Basket]
    <3>1. ASSUME NEW q \in Nat, items' = [items EXCEPT ![o][p] = q]
          PROVE  items' \in [Orders -> Basket]
      <4>1. items[o] \in [Products -> Int] /\ items \in [Orders -> Basket]
        BY <1>0, <2>1 DEF TablesOK, Basket
      <4>0. q \in Int
        OBVIOUS
      <4>2. [items[o] EXCEPT ![p] = q] \in Basket
        BY <4>0, <4>1, Zenon DEF Basket
      <4>3. items' = [items EXCEPT ![o] = [items[o] EXCEPT ![p] = q]]
        BY <2>1, <3>1, <4>1, Zenon
      <4>4. QED
        BY <2>1, <4>1, <4>2, <4>3
    <3>2. QED
      BY <1>0, <2>2, <3>1 DEF TablesOK
  <2>4. TablesOK' /\ OrdersStay
    BY <1>0, <2>1, <2>3 DEF TablesOK, OrdersStay
  <2>5. QED
    BY <1>a, <2>1, <2>4, WriteStep
<1>3. CASE CheckAdjust(c) \/ RecordTransaction(c)
  <2>1. CASE Return(c)
    BY <1>0, <1>3, <1>a, <2>1, QuietStep DEF CheckAdjust, RecordTransaction
  <2>2. CASE Goto(c, "adjust") /\ UNCHANGED call
    <3>1. Fits("adjust", call[c]) /\ "adjust" \in Steps
      BY <1>0, <1>3 DEF CheckAdjust, RecordTransaction, Fits, OrderSteps, ProductSteps, Steps, NeedsConn
    <3>2. QED
      BY <1>0, <1>3, <2>2, <3>1, GotoControl, QuietStep
      DEF CheckAdjust, RecordTransaction, OthersStay
  <2>3. QED
    BY <1>3, <2>1, <2>2 DEF CheckAdjust, RecordTransaction
<1>4. CASE AdjustQuantity(c) \/ WriteStock(c)
  <2>1. call[c].product \in Products /\ call[c].qty \in Int
    BY <1>0, <1>4 DEF AdjustQuantity, WriteStock, Fits, ProductSteps, CallRecord
  <2>2. stock' \in [Products -> Int]
    BY <1>0, <1>4, <2>1 DEF AdjustQuantity, WriteStock, TablesOK
  <2>3. TablesOK' /\ OrdersStay
    BY <1>0, <1>4, <2>2 DEF AdjustQuantity, WriteStock, TablesOK, OrdersStay
  <2>4. QED
    BY <1>4, <1>a, <2>3, WriteStep DEF AdjustQuantity, WriteStock
<1>5. CASE ReadStock(c)
  <2>1. call[c].product \in Products
    BY <1>0, <1>5 DEF ReadStock, Fits, ProductSteps
  <2>2. PICK q \in {stock[call[c].product]} \cup (Deltas \cap Nat) :
          call' = [call EXCEPT ![c].qty = q]
    BY <1>5 DEF ReadStock
  <2>3. q \in Int
    BY <1>0, <2>1, <2>2 DEF TablesOK
  <2> DEFINE r == Request(call[c].op, call[c].order, call[c].target, call[c].basket,
                          call[c].product, q)
  <2>4. r \in CallRecord /\ r.product = call[c].product
    BY <1>0, <2>3 DEF CallRecord, Request
  <2>5. call' = [call EXCEPT ![c] = r]
    <3>1. [call[c] EXCEPT !.qty = q] = r
      BY <1>0 DEF CallRecord, Request
    <3>2. call' = [call EXCEPT ![c] = [call[c] EXCEPT !.qty = q]]
      BY <1>0, <2>2, Zenon DEF ControlOK
    <3>3. QED
      BY <3>1, <3>2
  <2> HIDE DEF r
  <2>6. Fits("write", r) /\ "write" \in Steps
    BY <2>1, <2>4 DEF Fits, OrderSteps, ProductSteps, Steps, NeedsConn
  <2>7. ControlOK' /\ OthersStay(c) /\ pc'[c] = "write"
    <3>1. pc' = [pc EXCEPT ![c] = "write"]
      BY <1>5 DEF ReadStock, Goto
    <3>2. QED
      BY <1>0, <2>4, <2>5, <2>6, <3>1, MoveControl DEF OthersStay
  <2>8. QED
    BY <1>0, <1>5, <2>7, QuietStep DEF ReadStock
<1>6. QED
  BY <1>1, <1>2, <1>3, <1>4, <1>5

-----------------------------------------------------------------------------
(* Theorems *)

\* The empty tables of the first start satisfy the invariant.
LEMMA InitInv == Init => IInv
<1> SUFFICES ASSUME Init PROVE IInv
  OBVIOUS
<1>1. ControlOK
  BY NoCallType DEF Init, ControlOK, Fits, OrderSteps, ProductSteps, Steps
<1>2. TablesOK
  BY ConstantsAssumption DEF Init, TablesOK, Basket, Nothing
<1>3. Committed /\ EventsTruthful /\ calls \in Nat
  BY DEF Init, Committed, EventsTruthful
<1>4. QED
  BY <1>1, <1>2, <1>3 DEF IInv

\* Every step keeps it: a request's arrival, each step of each handler, and
\* a handler that ends at an await.
LEMMA NextInv == IInv /\ [Next]_vars => IInv'
<1> SUFFICES ASSUME IInv, [Next]_vars PROVE IInv'
  OBVIOUS
<1>0. ControlOK /\ TablesOK /\ calls \in Nat
  BY DEF IInv
<1>1. CASE UNCHANGED vars
  BY <1>1 DEF vars, tables, IInv, ControlOK, TablesOK, Committed, EventsTruthful
<1>2. ASSUME NEW c \in Callers, Call(c) PROVE IInv'
  <2>1. PICK r \in Requests : /\ call' = [call EXCEPT ![c] = r]
                              /\ pc' = [pc EXCEPT ![c] = FirstStep[r.op]]
    BY <1>2 DEF Call
  <2>2. r \in CallRecord /\ r.op \in AllOps /\ Fits(FirstStep[r.op], r)
    BY RequestFacts DEF GoodRequest
  <2>3. FirstStep[r.op] \in Steps /\ FirstStep[r.op] # "publish_created"
    BY <2>2, FirstSteps
  <2>4. ControlOK' /\ OthersStay(c) /\ pc'[c] # "publish_created"
    <3> DEFINE step == FirstStep[r.op]
    <3>1. step \in Steps /\ Fits(step, r) /\ pc' = [pc EXCEPT ![c] = step]
      BY <2>1, <2>2, <2>3
    <3>2. step # "publish_created"
      BY <2>3
    <3> HIDE DEF step
    <3>3. QED
      BY <1>0, <2>1, <2>2, <3>1, <3>2, MoveControl DEF OthersStay
  <2>5. QED
    BY <1>0, <1>2, <2>4, QuietStep DEF Call
<1>3. ASSUME NEW c \in Callers, Step(c) PROVE IInv'
  BY <1>3, CreateInv, StatusInv, EditInv DEF Step
<1>4. ASSUME NEW c \in Callers, Abort(c) PROVE IInv'
  BY <1>0, <1>4, ReturnControl, QuietStep DEF Abort, OthersStay
<1>5. QED
  BY <1>1, <1>2, <1>3, <1>4 DEF Next

\* The inductive invariant holds in every reachable state.
THEOREM Invariance == Spec => []IInv
BY InitInv, NextInv, PTL DEF Spec

UnguardedOK == unguarded \subseteq Products

\* The history only ever names products.
LEMMA UnguardedType == Spec => []UnguardedOK
<1>1. Init => UnguardedOK
  BY DEF Init, UnguardedOK
<1>2. UnguardedOK /\ [Next]_vars => UnguardedOK'
  BY DEF Next, Call, Step, Abort, Exposes, vars, UnguardedOK
<1>3. QED
  BY <1>1, <1>2, PTL DEF Spec

\* Every table and every handler's state keeps its type; in particular no
\* order gets a status that the order_status type has no label for.
THEOREM TypeCorrect == Spec => []TypeOK
<1>1. IInv /\ UnguardedOK => TypeOK
  BY DEF UnguardedOK, IInv, ControlOK, TablesOK, TypeOK
<1>2. QED
  BY <1>1, Invariance, UnguardedType, PTL

\* An order that was announced as created exists, whatever handlers were
\* ended between their commit and their announcement, or rolled back.
THEOREM AlwaysEventsTruthful == Spec => []EventsTruthful
<1>1. IInv => EventsTruthful
  BY DEF IInv
<1>2. QED
  BY <1>1, Invariance, PTL

-----------------------------------------------------------------------------
(* What the checks protect *)

\* The step of a handler moves no other handler.
LEMMA StepOwn == ASSUME ControlOK, NEW c \in Callers, Step(c) PROVE OthersStay(c)
<1>1. /\ UNCHANGED call \/ \E r : call' = [call EXCEPT ![c] = r]
      /\ \E step : pc' = [pc EXCEPT ![c] = step]
  BY DEF Step, CheckAndReserveStock, CreateOrder, MarkOutOfStock, PublishCreated, FindOrder,
         BeginCancel, ReadItems, CancelOrder, UpdateStatus, PublishStatus, PublishCancelled,
         ReleaseReservedStock, UpdateOrder, UpdateOrderItem, DeleteOrderItem, CheckAdjust,
         RecordTransaction, AdjustQuantity, ReadStock, WriteStock, PoolTimeout, Return, Goto
<1>2. QED
  BY <1>1 DEF ControlOK, OthersStay

\* What a handler is about to do to the quantity of a protected product: give
\* back what is not negative, write what is not negative, or make a change
\* that was checked against the quantity there is.
Guards(step, r, st, p) ==
    /\ step = "cancel" => r.basket[p] >= 0
    /\ step = "write" /\ r.product = p => r.qty >= 0
    /\ step = "adjust" /\ r.product = p => st[p] + r.qty >= 0

\* A protected product in the tables and for one handler.
Safe(st, its, step, r, p) ==
    /\ st[p] >= 0
    /\ \A o \in Orders : its[o][p] >= 0
    /\ Guards(step, r, st, p)

\* StockNonNegative is not inductive: it rests on what the lines of the orders
\* and the handlers between their steps hold.
GuardOK ==
    \A p \in Products \ unguarded :
        /\ stock[p] >= 0
        /\ \A o \in Orders : items[o][p] >= 0
        /\ \A c \in Callers : Guards(pc[c], call[c], stock, p)

\* create_order takes what is there; a negative line ends the protection.
LEMMA CreateSafe ==
    ASSUME IInv, GuardOK, NEW c \in Callers, CreateOrder(c),
           NEW p \in Products \ unguarded, p \notin Exposes(c)
    PROVE  Safe(stock', items', pc'[c], call'[c], p)
<1>0. ControlOK /\ TablesOK /\ call[c] \in CallRecord
  BY DEF IInv, ControlOK
<1>1. /\ stock[p] >= 0 /\ stock[p] \in Int /\ \A o \in Orders : items[o][p] >= 0
      /\ call[c].basket[p] \in Int
  BY <1>0 DEF GuardOK, TablesOK, CallRecord, Basket
<1>2. call[c].basket[p] >= 0
  BY <1>1 DEF Exposes, CreateOrder
<1>3. CASE UNCHANGED tables
  <2>1. pc'[c] \in {"out_of_stock", "publish_created"}
    BY <1>0 DEF CreateOrder, Goto, ControlOK
  <2>2. QED
    BY <1>1, <1>3, <2>1 DEF Safe, Guards, tables
<1>4. CASE ~UNCHANGED tables
  <2>1. PICK o \in Orders : /\ Enough(call[c].basket)
                            /\ stock' = [q \in Products |-> stock[q] - call[c].basket[q]]
                            /\ items' = [items EXCEPT ![o] = call[c].basket]
                            /\ Goto(c, "publish_created")
    BY <1>4 DEF CreateOrder
  <2>2. stock'[p] = stock[p] - call[c].basket[p] /\ stock'[p] >= 0
    BY <1>1, <1>2, <2>1 DEF Enough
  <2>3. \A x \in Orders : items'[x][p] >= 0
    BY <1>0, <1>1, <1>2, <2>1 DEF TablesOK
  <2>4. pc'[c] = "publish_created"
    BY <1>0, <2>1 DEF Goto, ControlOK
  <2>5. QED
    BY <2>2, <2>3, <2>4 DEF Safe, Guards
<1>5. QED
  BY <1>3, <1>4

\* A cancellation gives back the lines it read.
LEMMA CancelSafe ==
    ASSUME IInv, GuardOK, NEW c \in Callers, ReadItems(c) \/ CancelOrder(c),
           NEW p \in Products \ unguarded
    PROVE  Safe(stock', items', pc'[c], call'[c], p)
<1>0. /\ ControlOK /\ TablesOK /\ call[c] \in CallRecord /\ Fits(pc[c], call[c])
      /\ Guards(pc[c], call[c], stock, p)
  BY DEF IInv, ControlOK, GuardOK
<1>1. /\ stock[p] >= 0 /\ stock[p] \in Int /\ \A o \in Orders : items[o][p] >= 0
      /\ call[c].basket[p] \in Int
  BY <1>0 DEF GuardOK, TablesOK, CallRecord, Basket
<1>2. CASE ReadItems(c)
  <2> DEFINE b == items[call[c].order]
  <2>1. call[c].order \in Orders /\ stock' = stock /\ items' = items /\ pc'[c] = "cancel"
    BY <1>0, <1>2 DEF ReadItems, Fits, OrderSteps, tables, Goto, ControlOK
  <2>2. b[p] >= 0
    BY <1>1, <2>1
  <2>3. call' = [call EXCEPT ![c] = [call[c] EXCEPT !.basket = b]]
    BY <1>0, <1>2, Zenon DEF ReadItems, ControlOK
  <2> HIDE DEF b
  <2>4. call'[c].basket = b
    BY <1>0, <2>3 DEF ControlOK, CallRecord
  <2>5. QED
    BY <1>1, <2>1, <2>2, <2>4 DEF Safe, Guards
<1>3. CASE CancelOrder(c)
  <2>1. /\ stock' = [q \in Products |-> stock[q] + call[c].basket[q]] /\ items' = items
        /\ pc'[c] = "publish_status" /\ pc[c] = "cancel"
    BY <1>0, <1>3 DEF CancelOrder, Restored, Goto, ControlOK
  <2>2. call[c].basket[p] >= 0 /\ stock'[p] = stock[p] + call[c].basket[p]
    BY <1>0, <2>1 DEF Guards
  <2>3. stock'[p] >= 0
    BY <1>1, <2>2
  <2>4. QED
    BY <1>1, <2>1, <2>3 DEF Safe, Guards
<1>4. QED
  BY <1>2, <1>3

\* The inventory service writes a quantity it read, was given or checked.
LEMMA StockSafe ==
    ASSUME IInv, GuardOK, NEW c \in Callers,
           \/ CheckAdjust(c) \/ RecordTransaction(c) \/ AdjustQuantity(c)
           \/ ReadStock(c) \/ WriteStock(c),
           NEW p \in Products \ unguarded, p \notin Exposes(c)
    PROVE  Safe(stock', items', pc'[c], call'[c], p)
<1>0. /\ ControlOK /\ TablesOK /\ call[c] \in CallRecord /\ Fits(pc[c], call[c])
      /\ Guards(pc[c], call[c], stock, p)
  BY DEF IInv, ControlOK, GuardOK
<1>1. /\ stock[p] >= 0 /\ stock[p] \in Int /\ \A o \in Orders : items[o][p] >= 0
      /\ call[c].product \in Products /\ call[c].qty \in Int
  BY <1>0 DEF GuardOK, TablesOK, CallRecord, CheckAdjust, RecordTransaction, AdjustQuantity,
              ReadStock, WriteStock, Fits, ProductSteps
<1>2. CASE CheckAdjust(c)
  <2>1. stock' = stock /\ items' = items
    BY <1>2 DEF CheckAdjust, tables
  <2>2. CASE stock[call[c].product] + call[c].qty >= 0 /\ Goto(c, "adjust") /\ UNCHANGED call
    <3>1. pc'[c] = "adjust" /\ call'[c] = call[c]
      BY <1>0, <2>2 DEF Goto, ControlOK
    <3>2. QED
      BY <1>1, <2>1, <2>2, <3>1 DEF Safe, Guards
  <2>3. CASE Return(c)
    <3>1. pc'[c] = "idle"
      BY <1>0, <2>3 DEF Return, Goto, ControlOK
    <3>2. QED
      BY <1>1, <2>1, <3>1 DEF Safe, Guards
  <2>4. QED
    BY <1>2, <2>2, <2>3 DEF CheckAdjust
<1>3. CASE RecordTransaction(c)
  <2>1. stock' = stock /\ items' = items /\ pc'[c] = "adjust" /\ call'[c] = call[c]
    BY <1>0, <1>3 DEF RecordTransaction, tables, Goto, ControlOK
  <2>2. call[c].product = p => call[c].qty >= 0
    BY <1>1, <1>3 DEF RecordTransaction, Exposes
  <2>3. QED
    BY <1>1, <2>1, <2>2 DEF Safe, Guards
<1>4. CASE AdjustQuantity(c) \/ WriteStock(c)
  <2>1. items' = items /\ pc'[c] = "idle"
    BY <1>0, <1>4 DEF AdjustQuantity, WriteStock, Return, Goto, ControlOK
  <2>2. stock'[p] >= 0
    BY <1>0, <1>1, <1>4 DEF AdjustQuantity, WriteStock, TablesOK, Guards
  <2>3. QED
    BY <1>1, <2>1, <2>2 DEF Safe, Guards
<1>5. CASE ReadStock(c)
  <2>1. stock' = stock /\ items' = items /\ pc'[c] = "write"
    BY <1>0, <1>5 DEF ReadStock, tables, Goto, ControlOK
  <2>2. PICK q \in {stock[call[c].product]} \cup (Deltas \cap Nat) :
          call' = [call EXCEPT ![c].qty = q]
    BY <1>5 DEF ReadStock
  <2>3. call[c].product = p => q >= 0
    BY <1>1, <2>2
  <2>4. call'[c].qty = q /\ call'[c].product = call[c].product
    BY <1>0, <2>2 DEF ControlOK, CallRecord
  <2>5. QED
    BY <1>1, <2>1, <2>3, <2>4 DEF Safe, Guards
<1>6. QED
  BY <1>2, <1>3, <1>4, <1>5

\* The items of an order are replaced by what is not negative.
LEMMA EditSafe ==
    ASSUME IInv, GuardOK, NEW c \in Callers, UpdateOrderItem(c) \/ DeleteOrderItem(c),
           NEW p \in Products \ unguarded
    PROVE  Safe(stock', items', pc'[c], call'[c], p)
<1>0. /\ ControlOK /\ TablesOK /\ call[c] \in CallRecord /\ Fits(pc[c], call[c])
  BY DEF IInv, ControlOK
<1>1. /\ stock[p] >= 0 /\ \A o \in Orders : items[o][p] >= 0 /\ items[o] \in [Products -> Int]
      /\ call[c].order \in Orders /\ stock' = stock /\ pc'[c] = "idle"
  BY <1>0 DEF GuardOK, TablesOK, Basket, UpdateOrderItem, DeleteOrderItem, Fits, OrderSteps,
              Return, Goto, ControlOK
<1>2. \/ UNCHANGED items
      \/ \E q \in Nat : items' = [items EXCEPT ![call[c].order][call[c].product] = q]
  BY <1>0 DEF UpdateOrderItem, DeleteOrderItem, Fits
<1>3. ASSUME NEW q \in Nat, items' = [items EXCEPT ![call[c].order][call[c].product] = q],
             NEW o \in Orders
      PROVE  items'[o][p] >= 0
  BY <1>0, <1>1, <1>3 DEF TablesOK
<1>4. QED
  BY <1>1, <1>2, <1>3 DEF Safe, Guards

\* Every step of a handler keeps what is protected.
LEMMA StepGuard ==
    ASSUME IInv, GuardOK, NEW c \in Callers, Step(c)
    PROVE  GuardOK'
<1>0. ControlOK /\ TablesOK /\ OthersStay(c) /\ unguarded' = unguarded \cup Exposes(c)
  BY StepOwn DEF IInv, Step
<1> SUFFICES ASSUME NEW p \in Products, p \notin unguarded'
             PROVE  /\ stock'[p] >= 0
                    /\ \A o \in Orders : items'[o][p] >= 0
                    /\ \A d \in Callers : Guards(pc'[d], call'[d], stock', p)
  BY DEF GuardOK
<1>1. p \in Products \ unguarded /\ p \notin Exposes(c)
  BY <1>0
<1>2. /\ stock[p] >= 0 /\ \A o \in Orders : items[o][p] >= 0
      /\ \A d \in Callers : Guards(pc[d], call[d], stock, p)
  BY <1>1 DEF GuardOK
<1>3. Safe(stock', items', pc'[c], call'[c], p)
  <2>1. CASE CreateOrder(c)
    BY <1>1, <2>1, CreateSafe
  <2>2. CASE ReadItems(c) \/ CancelOrder(c)
    BY <1>1, <2>2, CancelSafe
  <2>3. CASE \/ CheckAdjust(c) \/ RecordTransaction(c) \/ AdjustQuantity(c)
             \/ ReadStock(c) \/ WriteStock(c)
    BY <1>1, <2>3, StockSafe
  <2>4. CASE UpdateOrderItem(c) \/ DeleteOrderItem(c)
    BY <1>1, <2>4, EditSafe
  <2>5. CASE \/ CheckAndReserveStock(c) \/ MarkOutOfStock(c) \/ PublishCreated(c)
             \/ FindOrder(c) \/ BeginCancel(c) \/ UpdateStatus(c) \/ PublishStatus(c)
             \/ PublishCancelled(c) \/ ReleaseReservedStock(c) \/ UpdateOrder(c)
             \/ PoolTimeout(c)
    <3>1. stock' = stock /\ items' = items
      BY <2>5 DEF CheckAndReserveStock, MarkOutOfStock, PublishCreated, FindOrder, BeginCancel,
                  UpdateStatus, PublishStatus, PublishCancelled, ReleaseReservedStock,
                  UpdateOrder, PoolTimeout, tables
    <3>2. \E step : /\ step \notin {"cancel", "write", "adjust"}
                    /\ pc' = [pc EXCEPT ![c] = step]
      BY <2>5 DEF CheckAndReserveStock, MarkOutOfStock, PublishCreated, FindOrder, BeginCancel,
                  UpdateStatus, PublishStatus, PublishCancelled, ReleaseReservedStock,
                  UpdateOrder, PoolTimeout, Return, Goto
    <3>3. pc'[c] \notin {"cancel", "write", "adjust"}
      BY <1>0, <3>2 DEF ControlOK
    <3>4. QED
      BY <1>2, <3>1, <3>3 DEF Safe, Guards
  <2>6. QED
    BY <2>1, <2>2, <2>3, <2>4, <2>5 DEF Step
<1>4. ASSUME NEW d \in Callers, d # c PROVE Guards(pc'[d], call'[d], stock', p)
  <2>1. pc'[d] = pc[d] /\ call'[d] = call[d] /\ Guards(pc[d], call[d], stock, p)
    BY <1>0, <1>2, <1>4 DEF OthersStay
  <2>2. pc[d] = "adjust" /\ call[d].product = p => stock'[p] = stock[p]
    BY <1>1, <1>4 DEF Exposes
  <2>3. QED
    BY <2>1, <2>2 DEF Guards
<1>5. QED
  BY <1>3, <1>4 DEF Safe

\* Whatever is called, in any interleaving and ended at any await: the quantity
\* of a product is never negative unless a negative line of it was ordered, a
\* transaction removed units of it, or it changed between the check and the
\* write of an adjustment.
THEOREM NeverNegative == Spec => []StockNonNegative
<1>1. ASSUME Init PROVE GuardOK
  BY <1>1, ConstantsAssumption DEF Init, GuardOK, Guards, Nothing
<1>2. ASSUME IInv, GuardOK, [Next]_vars PROVE GuardOK'
  <2>0. ControlOK
    BY <1>2 DEF IInv
  <2>1. CASE UNCHANGED vars
    BY <1>2, <2>1 DEF vars, tables, GuardOK
  <2>2. ASSUME NEW c \in Callers, Call(c) \/ Abort(c) PROVE GuardOK'
    <3>1. \E step, r : /\ step \notin {"cancel", "write", "adjust"}
                       /\ pc' = [pc EXCEPT ![c] = step]
                       /\ call' = [call EXCEPT ![c] = r]
      <4>1. CASE Abort(c)
        BY <4>1 DEF Abort, Return, Goto
      <4>2. CASE Call(c)
        <5>1. PICK r \in Requests : /\ call' = [call EXCEPT ![c] = r]
                                    /\ pc' = [pc EXCEPT ![c] = FirstStep[r.op]]
          BY <4>2 DEF Call
        <5>2. r.op \in AllOps
          BY RequestFacts DEF GoodRequest
        <5>3. FirstStep[r.op] \notin {"cancel", "write", "adjust"}
          BY <5>2 DEF AllOps, FirstStep
        <5>4. QED
          BY <5>1, <5>3
      <4>3. QED
        BY <2>2, <4>1, <4>2
    <3>2. pc'[c] \notin {"cancel", "write", "adjust"} /\ OthersStay(c)
      BY <2>0, <3>1 DEF ControlOK, OthersStay
    <3>3. stock' = stock /\ items' = items /\ unguarded' = unguarded
      BY <2>2 DEF Call, Abort, tables
    <3>4. \A d \in Callers, p \in Products \ unguarded : Guards(pc'[d], call'[d], stock', p)
      BY <1>2, <3>2, <3>3 DEF GuardOK, Guards, OthersStay
    <3>5. QED
      BY <1>2, <3>3, <3>4 DEF GuardOK
  <2>3. ASSUME NEW c \in Callers, Step(c) PROVE GuardOK'
    BY <1>2, <2>3, StepGuard
  <2>4. QED
    BY <1>2, <2>1, <2>2, <2>3 DEF Next
<1>3. GuardOK => StockNonNegative
  BY DEF GuardOK, StockNonNegative
<1>4. QED
  BY <1>1, <1>2, <1>3, Invariance, PTL DEF Spec

-----------------------------------------------------------------------------
(* Units are moved, not made or lost *)

\* What a handler at a step knows of its order: that it exists, and that it is
\* not to be cancelled.
Knows(step, r, os) ==
    /\ step \in {"begin", "items", "cancel", "update"} => os[r.order] # None
    /\ step = "update" => r.target # "cancelled"

KnowledgeOK == \A c \in Callers : Knows(pc[c], call[c], orders)

\* No step deletes an order.
LEMMA StepOrders ==
    ASSUME IInv, NEW c \in Callers, Step(c)
    PROVE  OrdersStay
<1>0. ControlOK /\ TablesOK /\ Fits(pc[c], call[c])
  BY DEF IInv, ControlOK
<1>1. \/ orders' = orders
      \/ \E o \in Orders, s \in DbStatuses : orders' = [orders EXCEPT ![o] = s]
  <2>1. CASE CreateOrder(c)
    BY <2>1 DEF CreateOrder, tables, DbStatuses
  <2>2. CASE CancelOrder(c) \/ UpdateStatus(c) \/ UpdateOrder(c)
    <3>1. call[c].order \in Orders
      BY <1>0, <2>2 DEF CancelOrder, UpdateStatus, UpdateOrder, Fits, OrderSteps
    <3>2. QED
      BY <2>2, <3>1 DEF CancelOrder, UpdateStatus, UpdateOrder, HasLabel, DbStatuses, tables
  <2>3. QED
    BY <2>1, <2>2
    DEF Step, CheckAndReserveStock, MarkOutOfStock, PublishCreated, FindOrder,
        BeginCancel, ReadItems, PublishStatus, PublishCancelled, ReleaseReservedStock,
        UpdateOrderItem, DeleteOrderItem, CheckAdjust, RecordTransaction, AdjustQuantity,
        ReadStock, WriteStock, PoolTimeout, tables
<1>2. QED
  BY <1>0, <1>1, ConstantsAssumption DEF OrdersStay, TablesOK, OrderStatus

\* Every step keeps what handlers know: an order that was found stays.
LEMMA StepKnowledge ==
    ASSUME IInv, KnowledgeOK, NEW c \in Callers, Step(c)
    PROVE  KnowledgeOK'
<1>0. ControlOK /\ TablesOK /\ Fits(pc[c], call[c]) /\ Knows(pc[c], call[c], orders)
      /\ OthersStay(c) /\ OrdersStay /\ call[c] \in CallRecord
  BY StepOwn, StepOrders DEF IInv, ControlOK, KnowledgeOK
<1> SUFFICES ASSUME NEW d \in Callers PROVE Knows(pc'[d], call'[d], orders')
  BY DEF KnowledgeOK
<1>1. CASE d # c
  <2>1. pc'[d] = pc[d] /\ call'[d] = call[d] /\ Knows(pc[d], call[d], orders)
    BY <1>0, <1>1 DEF OthersStay, KnowledgeOK
  <2>2. pc[d] \in {"begin", "items", "cancel", "update"} => call[d].order \in Orders
    BY <1>0 DEF ControlOK, Fits, OrderSteps
  <2>3. QED
    BY <1>0, <2>1, <2>2 DEF Knows, OrdersStay
<1>2. CASE d = c /\ pc'[c] \in {"begin", "items", "cancel", "update"}
  <2>1. FindOrder(c) \/ BeginCancel(c) \/ ReadItems(c)
    <3>1. CASE \/ CheckAndReserveStock(c) \/ CreateOrder(c) \/ MarkOutOfStock(c)
               \/ PublishCreated(c) \/ CancelOrder(c) \/ UpdateStatus(c) \/ PublishStatus(c)
               \/ PublishCancelled(c) \/ ReleaseReservedStock(c) \/ UpdateOrder(c)
               \/ UpdateOrderItem(c) \/ DeleteOrderItem(c) \/ CheckAdjust(c)
               \/ RecordTransaction(c) \/ AdjustQuantity(c) \/ ReadStock(c) \/ WriteStock(c)
               \/ PoolTimeout(c)
      <4>1. \E step : /\ step \notin {"begin", "items", "cancel", "update"}
                      /\ pc' = [pc EXCEPT ![c] = step]
        BY <3>1
        DEF CheckAndReserveStock, CreateOrder, MarkOutOfStock, PublishCreated, CancelOrder,
            UpdateStatus, PublishStatus, PublishCancelled, ReleaseReservedStock, UpdateOrder,
            UpdateOrderItem, DeleteOrderItem, CheckAdjust, RecordTransaction, AdjustQuantity,
            ReadStock, WriteStock, PoolTimeout, Return, Goto
      <4>2. QED
        BY <1>0, <1>2, <4>1 DEF ControlOK
    <3>2. QED
      BY <3>1 DEF Step
  <2>2. call[c].order \in Orders
    BY <1>0, <2>1 DEF FindOrder, BeginCancel, ReadItems, Fits, OrderSteps
  <2>3. CASE FindOrder(c)
    <3>1. ~NothingToDo(c)
      BY <1>0, <1>2, <2>3 DEF FindOrder, Return, Goto, ControlOK
    <3>2. /\ pc'[c] = IF call[c].target = "cancelled" THEN "begin" ELSE "update"
          /\ call'[c] = call[c] /\ orders' = orders /\ orders[call[c].order] # None
      BY <1>0, <2>3, <3>1 DEF FindOrder, NothingToDo, Goto, ControlOK, tables
    <3>3. QED
      BY <1>2, <3>2 DEF Knows
  <2>4. CASE BeginCancel(c)
    BY <1>0, <1>2, <2>4 DEF BeginCancel, Goto, ControlOK, tables, Knows
  <2>5. CASE ReadItems(c)
    <3>1. pc'[c] = "cancel" /\ orders' = orders /\ orders[call[c].order] # None
      BY <1>0, <2>5 DEF ReadItems, Goto, ControlOK, tables, Knows
    <3>2. call'[c].order = call[c].order
      BY <1>0, <2>5 DEF ReadItems, ControlOK, CallRecord
    <3>3. QED
      BY <1>2, <3>1, <3>2 DEF Knows
  <2>6. QED
    BY <2>1, <2>3, <2>4, <2>5
<1>3. CASE d = c /\ pc'[c] \notin {"begin", "items", "cancel", "update"}
  BY <1>3 DEF Knows
<1>4. QED
  BY <1>1, <1>2, <1>3

\* The orders that want their items, and the units of p they want.
Live(os) == {o \in Orders : os[o] \notin {None, "cancelled"}}

Wanted(os, its, p) == SumFunctionOnSet([o \in Orders |-> its[o][p]], Live(os))

\* An order that starts to want its items adds them; read from right to left,
\* one that no longer does gives them up.
LEMMA WantedAdd ==
    ASSUME NEW os, NEW new, NEW its \in [Orders -> Basket], NEW nit \in [Orders -> Basket],
           NEW p \in Products, NEW o \in Orders, o \notin Live(os), Live(new) = Live(os) \cup {o},
           \A x \in Orders \ {o} : nit[x] = its[x]
    PROVE  Wanted(new, nit, p) = Wanted(os, its, p) + nit[o][p]
<1> DEFINE f == [x \in Orders |-> its[x][p]]
           g == [x \in Orders |-> nit[x][p]]
           S == Live(os)
<1>1. S \subseteq Orders /\ o \notin S /\ Live(new) = S \cup {o} /\ (S \cup {o}) \ {o} = S
  BY DEF Live
<1>2. IsFiniteSet(S) /\ IsFiniteSet(S \cup {o})
  BY <1>1, FiniteOrders, FS_Subset, FS_AddElement
<1>3. \A x \in S : g[x] = f[x]
  BY <1>1
<1>4. \A x \in Orders : f[x] \in Int /\ g[x] \in Int
  BY DEF Basket
<1>5. g[o] = nit[o][p]
  OBVIOUS
<1> HIDE DEF f, g, S
<1>6. SumFunctionOnSet(g, S \cup {o}) = g[o] + SumFunctionOnSet(g, S)
  <2>1. \A x \in S \cup {o} : g[x] \in Int
    BY <1>1, <1>4
  <2>2. SumFunctionOnSet(g, S \cup {o}) = g[o] + SumFunctionOnSet(g, (S \cup {o}) \ {o})
    BY <1>2, <2>1, SumRemove
  <2>3. QED
    BY <1>1, <2>2
<1>7. SumFunctionOnSet(g, S) = SumFunctionOnSet(f, S)
  BY <1>2, <1>3, SumSame
<1>8. SumFunctionOnSet(f, S) \in Int
  <2>1. \A x \in S : f[x] \in Int
    BY <1>1, <1>4
  <2>2. QED
    BY <1>2, <2>1, SumType
<1>9. SumFunctionOnSet(g, S \cup {o}) = SumFunctionOnSet(f, S) + g[o]
  BY <1>4, <1>6, <1>7, <1>8
<1>10. QED
  BY <1>1, <1>5, <1>9 DEF Wanted, f, g, S

\* What is wanted is a number.
LEMMA WantedType ==
    ASSUME NEW os, NEW its \in [Orders -> Basket], NEW p \in Products
    PROVE  Wanted(os, its, p) \in Int
<1> DEFINE f == [x \in Orders |-> its[x][p]]
           S == Live(os)
<1>1. S \subseteq Orders
  BY DEF Live
<1>2. IsFiniteSet(S)
  BY <1>1, FiniteOrders, FS_Subset
<1>3. \A x \in S : f[x] \in Int
  BY <1>1 DEF Basket
<1> HIDE DEF f, S
<1>4. SumFunctionOnSet(f, S) \in Int
  BY <1>2, <1>3, SumType
<1>5. QED
  BY <1>4 DEF Wanted, f, S

\* Units counts what is on the shelf and what live orders want.
LEMMA UnitsAre ==
    \A p : /\ Units(p) = stock[p] + Wanted(orders, items, p)
           /\ Units(p)' = stock'[p] + Wanted(orders', items', p)
BY DEF Units, Wanted, Live, LiveOrders

\* A step of c moves units only where MovesUnits says so.
Kept(c) == \A p \in Products : \/ Units(p)' = Units(p)
                               \/ pc'[c] # pc[c] /\ MovesUnits(c, p)

\* A step that leaves the tables alone.
LEMMA StillUnits == ASSUME UNCHANGED tables PROVE \A p \in Products : Units(p)' = Units(p)
BY UnitsAre DEF tables

\* create_order moves its basket from the shelf to the new order.
LEMMA CreateUnits ==
    ASSUME IInv, IInv', NEW c \in Callers, CreateOrder(c)
    PROVE  Kept(c)
<1>0. ControlOK /\ TablesOK /\ TablesOK'
  BY DEF IInv
<1>1. CASE UNCHANGED tables
  BY <1>1, StillUnits DEF Kept
<1>2. CASE ~UNCHANGED tables
  <2> DEFINE b == call[c].basket
  <2>1. PICK o \in Orders : /\ orders[o] = None
                            /\ stock' = [p \in Products |-> stock[p] - b[p]]
                            /\ orders' = [orders EXCEPT ![o] = "pending"]
                            /\ items' = [items EXCEPT ![o] = b]
    BY <1>2 DEF CreateOrder, Fresh
  <2>2. b \in Basket
    BY <1>0 DEF ControlOK, CallRecord
  <2> HIDE DEF b
  <2>3. o \notin Live(orders) /\ Live(orders') = Live(orders) \cup {o}
    BY <1>0, <2>1, ConstantsAssumption DEF Live, TablesOK, OrderStatus, DbStatuses
  <2>4. items'[o] = b /\ \A x \in Orders \ {o} : items'[x] = items[x]
    BY <1>0, <2>1 DEF TablesOK
  <2>5. ASSUME NEW p \in Products PROVE Units(p)' = Units(p)
    <3>1. Wanted(orders', items', p) = Wanted(orders, items, p) + b[p]
      BY <1>0, <2>3, <2>4, WantedAdd DEF TablesOK
    <3>2. stock'[p] = stock[p] - b[p]
      BY <2>1
    <3>3. stock[p] \in Int /\ b[p] \in Int
      BY <1>0, <2>2 DEF TablesOK, Basket
    <3>4. Wanted(orders, items, p) \in Int
      BY <1>0, WantedType DEF TablesOK
    <3>5. QED
      BY <3>1, <3>2, <3>3, <3>4, UnitsAre
  <2>6. QED
    BY <2>5 DEF Kept
<1>3. QED
  BY <1>1, <1>2

\* A cancellation moves the items it read back to the shelf.
LEMMA CancelUnits ==
    ASSUME IInv, IInv', KnowledgeOK, NEW c \in Callers, CancelOrder(c)
    PROVE  Kept(c)
<1>0. ControlOK /\ TablesOK /\ TablesOK'
  BY DEF IInv
<1>o. PICK o \in Orders : o = call[c].order
  BY <1>0 DEF CancelOrder, ControlOK, Fits, OrderSteps
<1> DEFINE b == call[c].basket
<1>1. orders[o] # None /\ b \in Basket
  BY <1>0, <1>o DEF CancelOrder, KnowledgeOK, Knows, ControlOK, CallRecord
<1>2. /\ stock' = [p \in Products |-> stock[p] + b[p]]
      /\ orders' = [orders EXCEPT ![o] = "cancelled"] /\ items' = items
      /\ pc[c] = "cancel" /\ pc'[c] # pc[c]
  BY <1>0, <1>o DEF CancelOrder, Restored, Goto, ControlOK
<1>3. CASE orders[o] = "cancelled"
  BY <1>2, <1>3, <1>o DEF Kept, MovesUnits
<1>4. CASE orders[o] # "cancelled"
  <2>1. o \notin Live(orders') /\ Live(orders) = Live(orders') \cup {o}
    BY <1>0, <1>1, <1>2, <1>4 DEF Live, TablesOK
  <2> SUFFICES ASSUME NEW p \in Products, b[p] = items[o][p] PROVE Units(p)' = Units(p)
    BY <1>2, <1>o DEF Kept, MovesUnits
  <2> HIDE DEF b
  <2>2. items \in [Orders -> Basket] /\ stock[p] \in Int /\ b[p] \in Int
    BY <1>0, <1>1 DEF TablesOK, Basket
  <2>3. Wanted(orders, items, p) = Wanted(orders', items, p) + items[o][p]
    BY <2>1, <2>2, WantedAdd
  <2>4. Units(p) = stock[p] + Wanted(orders, items, p)
    BY UnitsAre
  <2>5. Units(p)' = stock[p] + b[p] + Wanted(orders', items, p)
    BY <1>2, UnitsAre
  <2>6. Wanted(orders', items, p) \in Int
    BY <2>2, WantedType
  <2>7. QED
    BY <2>2, <2>3, <2>4, <2>5, <2>6
<1>5. QED
  BY <1>3, <1>4

\* Another status keeps the order's units where they are, whoever writes it,
\* unless the order is cancelled before or after.
LEMMA StatusUnits ==
    ASSUME IInv, IInv', KnowledgeOK, NEW c \in Callers, UpdateStatus(c) \/ UpdateOrder(c)
    PROVE  Kept(c)
<1>0. ControlOK /\ TablesOK /\ TablesOK'
  BY DEF IInv
<1>o. PICK o \in Orders : o = call[c].order
  BY <1>0 DEF UpdateStatus, UpdateOrder, ControlOK, Fits, OrderSteps
<1> DEFINE s == call[c].target
<1>1. CASE UNCHANGED tables
  BY <1>1, StillUnits DEF Kept
<1>2. CASE ~UNCHANGED tables
  <2>1. /\ orders' = [orders EXCEPT ![o] = s] /\ s \in DbStatuses
        /\ stock' = stock /\ items' = items /\ pc'[c] # pc[c]
        /\ pc[c] \in {"update", "put"} /\ orders[o] # None
        /\ pc[c] = "update" => s # "cancelled"
    BY <1>0, <1>2, <1>o
    DEF UpdateStatus, UpdateOrder, HasLabel, Return, Goto, ControlOK, KnowledgeOK, Knows, tables
  <2>2. CASE \/ pc[c] = "update" /\ orders[o] = "cancelled"
             \/ pc[c] = "put" /\ (orders[o] = "cancelled") # (s = "cancelled")
    BY <1>o, <2>1, <2>2 DEF Kept, MovesUnits
  <2>3. CASE (orders[o] = "cancelled") = (s = "cancelled")
    <3>1. Live(orders') = Live(orders)
      BY <1>0, <2>1, <2>3, ConstantsAssumption DEF Live, TablesOK, OrderStatus
    <3>2. \A p : Wanted(orders', items', p) = Wanted(orders, items, p)
      BY <2>1, <3>1 DEF Wanted
    <3>3. QED
      BY <2>1, <3>2, UnitsAre DEF Kept
  <2>4. QED
    BY <2>1, <2>2, <2>3
<1>3. QED
  BY <1>1, <1>2

\* The edits of an item's lines and of its quantity touch no other product.
LEMMA EditUnits ==
    ASSUME IInv, IInv', NEW c \in Callers,
           UpdateOrderItem(c) \/ DeleteOrderItem(c) \/ AdjustQuantity(c) \/ WriteStock(c)
    PROVE  Kept(c)
<1>0. ControlOK /\ TablesOK /\ TablesOK' /\ Fits(pc[c], call[c])
  BY DEF IInv, ControlOK
<1>1. /\ pc[c] \in {"edit_item", "drop_item", "adjust", "write"} /\ pc'[c] # pc[c]
      /\ orders' = orders
  BY <1>0 DEF UpdateOrderItem, DeleteOrderItem, AdjustQuantity, WriteStock, Return, Goto,
              ControlOK
<1> SUFFICES ASSUME NEW p \in Products, call[c].product # p PROVE Units(p)' = Units(p)
  BY <1>1 DEF Kept, MovesUnits
<1>2. stock'[p] = stock[p]
  BY <1>0 DEF UpdateOrderItem, DeleteOrderItem, AdjustQuantity, WriteStock, TablesOK
<1>3. \A o \in Orders : items'[o][p] = items[o][p]
  <2>1. \/ items' = items
        \/ \E q : items' = [items EXCEPT ![call[c].order][call[c].product] = q]
    BY DEF UpdateOrderItem, DeleteOrderItem, AdjustQuantity, WriteStock
  <2>2. \A o \in Orders : items[o] \in [Products -> Int]
    BY <1>0 DEF TablesOK, Basket
  <2>3. ASSUME NEW q, items' = [items EXCEPT ![call[c].order][call[c].product] = q],
               NEW o \in Orders
        PROVE  items'[o][p] = items[o][p]
    <3>1. CASE o = call[c].order
      <4>1. items'[o] = [items[o] EXCEPT ![call[c].product] = q]
        BY <1>0, <2>3, <3>1 DEF TablesOK
      <4>2. QED
        BY <2>2, <4>1
    <3>2. CASE o # call[c].order
      BY <1>0, <2>3, <3>2 DEF TablesOK
    <3>3. QED
      BY <3>1, <3>2
  <2>4. QED
    BY <2>1, <2>3
<1>4. Wanted(orders', items', p) = Wanted(orders, items, p)
  BY <1>1, <1>3 DEF Wanted
<1>5. QED
  BY <1>2, <1>4, UnitsAre

\* Every step of every handler.
LEMMA StepUnits ==
    ASSUME IInv, IInv', KnowledgeOK, NEW c \in Callers, Step(c)
    PROVE  Kept(c)
<1>1. CASE UNCHANGED tables
  BY <1>1, StillUnits DEF Kept
<1>2. CASE \/ CreateOrder(c) \/ CancelOrder(c) \/ UpdateStatus(c) \/ UpdateOrder(c)
           \/ UpdateOrderItem(c) \/ DeleteOrderItem(c) \/ AdjustQuantity(c) \/ WriteStock(c)
  BY <1>2, CreateUnits, CancelUnits, StatusUnits, EditUnits
<1>3. QED
  BY <1>1, <1>2
  DEF Step, CheckAndReserveStock, MarkOutOfStock, PublishCreated, FindOrder, BeginCancel,
      ReadItems, PublishStatus, PublishCancelled, ReleaseReservedStock, PoolTimeout,
      CheckAdjust, RecordTransaction, ReadStock

\* An order that a handler found exists as long as the handler works on it.
LEMMA Knowledge == Spec => []KnowledgeOK
<1>1. Init => KnowledgeOK
  BY DEF Init, KnowledgeOK, Knows
<1>2. ASSUME IInv, KnowledgeOK, [Next]_vars PROVE KnowledgeOK'
  <2>0. ControlOK
    BY <1>2 DEF IInv
  <2>1. CASE UNCHANGED vars
    BY <1>2, <2>1 DEF KnowledgeOK, vars, tables
  <2>2. ASSUME NEW c \in Callers, Call(c) \/ Abort(c) PROVE KnowledgeOK'
    <3>1. \E step, r : /\ step \notin {"begin", "items", "cancel", "update"}
                       /\ pc' = [pc EXCEPT ![c] = step]
                       /\ call' = [call EXCEPT ![c] = r]
      <4>1. CASE Abort(c)
        BY <4>1 DEF Abort, Return, Goto
      <4>2. CASE Call(c)
        <5>1. PICK r \in Requests : /\ call' = [call EXCEPT ![c] = r]
                                    /\ pc' = [pc EXCEPT ![c] = FirstStep[r.op]]
          BY <4>2 DEF Call
        <5>2. r.op \in AllOps
          BY RequestFacts DEF GoodRequest
        <5>3. FirstStep[r.op] \notin {"begin", "items", "cancel", "update"}
          BY <5>2 DEF AllOps, FirstStep
        <5>4. QED
          BY <5>1, <5>3
      <4>3. QED
        BY <2>2, <4>1, <4>2
    <3>2. pc'[c] \notin {"begin", "items", "cancel", "update"} /\ OthersStay(c)
      BY <2>0, <3>1 DEF ControlOK, OthersStay
    <3>3. orders' = orders
      BY <2>2 DEF Call, Abort, tables
    <3>4. QED
      BY <1>2, <3>2, <3>3 DEF KnowledgeOK, Knows, OthersStay
  <2>3. ASSUME NEW c \in Callers, Step(c) PROVE KnowledgeOK'
    BY <1>2, <2>3, StepKnowledge
  <2>4. QED
    BY <1>2, <2>1, <2>2, <2>3 DEF Next
<1>3. QED
  BY <1>1, <1>2, Invariance, PTL DEF Spec

\* Whatever is called, PUT and the direct edits included, in any interleaving
\* and ended at any await, for any number of products, orders and callers: the
\* units of a product change only by the writes that MovesUnits lists.
THEOREM AlwaysUnitsMoved == Spec => UnitsMoved
<1> DEFINE Moved == \A p \in Products : \/ Units(p)' = Units(p)
                                        \/ \E c \in Callers : pc'[c] # pc[c] /\ MovesUnits(c, p)
<1>1. ASSUME IInv, IInv', KnowledgeOK, [Next]_vars PROVE [Moved]_vars
  <2>1. ASSUME NEW c \in Callers, Call(c) \/ Abort(c) PROVE Moved
    BY <2>1, StillUnits DEF Call, Abort
  <2>2. ASSUME NEW c \in Callers, Step(c) PROVE Moved
    BY <1>1, <2>2, StepUnits DEF Kept
  <2>3. QED
    BY <1>1, <2>1, <2>2 DEF Next
<1>2. QED
  BY <1>1, Invariance, Knowledge, PTL DEF Spec, UnitsMoved
=============================================================================
