------------------------------- MODULE Pages -------------------------------
(***************************************************************************)
(* The dashboard's pages and data hooks while their requests are in        *)
(* flight.  One view is mounted at a time:                                 *)
(*   an analytics page, which awaits Promise.all over its getters;         *)
(*   the real-time panel (templates/ChartBuilder.tsx), which fetches again *)
(*   on an interval and does not wait for the previous fetch;              *)
(*   the two AI pages, which fetch predictions, then models;               *)
(*   a consumer of one of the CRUD hooks, whose calls share one loading    *)
(*   flag and one error.                                                   *)
(* Leaving a view drops its state: React ignores what a late answer sets.  *)
(***************************************************************************)
EXTENDS Integers, FiniteSets

CONSTANTS
    MaxStarts    \* how many requests one mounted view starts after its first

ASSUME PagesAssumption == MaxStarts \in Nat

VARIABLES
    view,         \* the mounted view, or "none"
    calls,        \* its requests in flight, each [op, n]
    starts,       \* the number of requests started after mounting
    loading,      \* its loading flag
    error,        \* the operation whose failure it shows, or "none"
    answered,     \* Promise.all: the getters that have resolved
    filled,       \* the panels that have data
    intervals,    \* pending setInterval timers of ChartBuilder
    predictions,  \* the list of the predictions page: 0 for the first page, and the generated ones
    models,       \* whether models are loaded, so that one is selected
    generated     \* the predictions the service has generated for this page

vars == <<view, calls, starts, loading, error, answered, filled, intervals,
          predictions, models, generated>>

-----------------------------------------------------------------------------
(* What each view requests.                                                *)

inventoryPage    == {"StockLevelTrends", "InventoryDistribution",
                     "WarehouseDistribution", "ReorderPoints"}
ordersPage       == {"OrderFlow", "OrderLifecycle", "OrderVolumeTrends",
                     "OrderValueDistribution", "OrderPeakTimes"}
transactionsPage == {"TransactionVolume", "StockMovements", "TransactionMetrics",
                     "TransactionPatterns", "TransactionClusters", "TransactionFlow"}
performancePage  == {"RealTimeMetrics", "PerformanceTrends", "SystemHealth",
                     "ResourceUtilization"}
businessPage     == {"FinancialAnalytics", "RevenueAnalysis", "HierarchicalData",
                     "ForecastData", "TrendPredictions"}

Analytics == [inventory |-> inventoryPage, orders |-> ordersPage,
              transactions |-> transactionsPage, performance |-> performancePage,
              business |-> businessPage]
AnalyticsPages == DOMAIN Analytics

useInventory == {"listInventoryItems", "getInventoryItem", "createInventoryItem",
                 "updateInventoryItem", "deleteInventoryItem", "adjustQuantity",
                 "listTransactions", "createTransaction", "listReservations",
                 "createReservation", "updateReservation", "deleteReservation"}
useOrders    == {"listOrders", "getOrder", "createOrder", "updateOrder",
                 "updateOrderStatus", "getOrderItems", "updateOrderItem", "deleteOrderItem"}
useShipping  == {"listShipments", "getShipment", "createShipment", "updateShipment",
                 "deleteShipment", "updateShipmentStatus", "markAsDelivered",
                 "getShipmentByTracking"}
usePayments  == {"listPayments", "getPayment", "createPayment", "updatePayment",
                 "deletePayment", "processPayment", "refundPayment"}
useCustomers == {"listCustomers", "getCustomer", "createCustomer", "updateCustomer",
                 "deleteCustomer"}

Hooks == [useInventory |-> useInventory, useOrders |-> useOrders,
          useShipping |-> useShipping, usePayments |-> usePayments,
          useCustomers |-> useCustomers]

AIPages == {"ai", "predictions"}
Views == AnalyticsPages \cup DOMAIN Hooks \cup AIPages \cup {"realtime"}

Call(op, n) == [op |-> op, n |-> n]

-----------------------------------------------------------------------------
(* Mounting and leaving.                                                   *)

Init ==
    /\ view = "none" /\ calls = {} /\ starts = 0
    /\ loading = FALSE /\ error = "none"
    /\ answered = {} /\ filled = {} /\ intervals = 0
    /\ predictions = {} /\ models = FALSE /\ generated = {}

\* The first render's effects: a page starts its fetches, a hook none.
Open(v) ==
    /\ view = "none"
    /\ view' = v
    /\ calls' = CASE v \in AnalyticsPages -> {Call(g, 0) : g \in Analytics[v]}
                  [] v = "realtime"       -> {Call("RealTimeMetrics", 0)}
                  [] v \in AIPages        -> {Call("getPredictions", 0)}
                  [] OTHER                -> {}
    /\ loading' = (v \notin DOMAIN Hooks)
    /\ intervals' = IF v = "realtime" THEN intervals + 1 ELSE intervals
    /\ UNCHANGED <<starts, error, answered, filled, predictions, models, generated>>

Leave_KeepInterval ==
    /\ view # "none"
    /\ view' = "none" /\ calls' = {} /\ starts' = 0
    /\ loading' = FALSE /\ error' = "none"
    /\ answered' = {} /\ filled' = {}
    /\ predictions' = {} /\ models' = FALSE /\ generated' = {}
    /\ UNCHANGED intervals

\* Unmounting (also the reload behind "Try Again"): the cleanup of ChartBuilder's
\* effect clears its interval.
Leave ==
    /\ view # "none"
    /\ view' = "none" /\ calls' = {} /\ starts' = 0
    /\ loading' = FALSE /\ error' = "none"
    /\ answered' = {} /\ filled' = {} /\ intervals' = 0
    /\ predictions' = {} /\ models' = FALSE /\ generated' = {}

-----------------------------------------------------------------------------
(* Analytics pages.  A getter catches every error and resolves with mock    *)
(* data; the page sets its panels when all have resolved.                  *)

AnswerGetter_Rethrow(c) ==
    /\ view \in AnalyticsPages /\ c \in calls
    /\ calls' = calls \ {c}
    /\ loading' = FALSE
    /\ \E ok \in BOOLEAN :
        /\ answered' = IF ok THEN answered \cup {c.op} ELSE answered
        /\ filled' = IF answered' = Analytics[view] THEN answered' ELSE filled
    /\ UNCHANGED <<view, starts, error, intervals, predictions, models, generated>>

AnswerGetter(c) ==
    /\ view \in AnalyticsPages /\ c \in calls
    /\ calls' = calls \ {c}
    /\ loading' = FALSE
    /\ answered' = answered \cup {c.op}
    /\ filled' = IF answered' = Analytics[view] THEN answered' ELSE filled
    /\ UNCHANGED <<view, starts, error, intervals, predictions, models, generated>>

-----------------------------------------------------------------------------
(* The refreshing panel.  Its data source is a getter, which never rejects. *)

Refresh ==
    /\ view = "realtime" /\ intervals > 0 /\ starts < MaxStarts
    /\ starts' = starts + 1
    /\ calls' = calls \cup {Call("RealTimeMetrics", starts')}
    /\ loading' = TRUE
    /\ UNCHANGED <<view, error, answered, filled, intervals, predictions, models, generated>>

AnswerRefresh(c) ==
    /\ view = "realtime" /\ c \in calls
    /\ calls' = calls \ {c}
    /\ filled' = {c.op}
    /\ error' = "none"
    /\ loading' = FALSE
    /\ UNCHANGED <<view, starts, answered, intervals, predictions, models, generated>>

-----------------------------------------------------------------------------
(* The AI pages.                                                           *)

AnswerPredictions(c) ==
    /\ view \in AIPages /\ c \in calls /\ c.op = "getPredictions"
    /\ \/ /\ predictions' = {0}
          /\ calls' = (calls \ {c}) \cup {Call("getModels", 0)}
          /\ UNCHANGED <<loading, error>>
       \/ /\ error' = "getPredictions" /\ loading' = FALSE
          /\ calls' = calls \ {c}
          /\ UNCHANGED predictions
    /\ UNCHANGED <<view, starts, answered, filled, intervals, models, generated>>

AnswerModels(c) ==
    /\ view \in AIPages /\ c \in calls /\ c.op = "getModels"
    /\ calls' = calls \ {c}
    /\ loading' = FALSE
    /\ \/ models' \in BOOLEAN /\ UNCHANGED error       \* the list may be empty
       \/ error' = "getModels" /\ UNCHANGED models
    /\ UNCHANGED <<view, starts, answered, filled, intervals, predictions, generated>>

Generate_NoModel ==
    /\ view = "predictions" /\ error = "none"
    /\ starts < MaxStarts
    /\ starts' = starts + 1
    /\ calls' = calls \cup {Call("generatePrediction", starts')}
    /\ UNCHANGED <<view, loading, error, answered, filled, intervals, predictions, models, generated>>

\* handleGenerateNewPrediction; an error screen has no button.
Generate ==
    /\ view = "predictions" /\ error = "none"
    /\ ~loading /\ models
    /\ starts < MaxStarts
    /\ starts' = starts + 1
    /\ calls' = calls \cup {Call("generatePrediction", starts')}
    /\ UNCHANGED <<view, loading, error, answered, filled, intervals, predictions, models, generated>>

AnswerGenerate(c) ==
    /\ view = "predictions" /\ c \in calls /\ c.op = "generatePrediction"
    /\ calls' = calls \ {c}
    /\ \/ /\ predictions' = predictions \cup {c.n}
          /\ generated' = generated \cup {c.n}
          /\ UNCHANGED error
       \/ error' = "generatePrediction" /\ UNCHANGED <<predictions, generated>>
    /\ UNCHANGED <<view, starts, loading, answered, filled, intervals, models>>

-----------------------------------------------------------------------------
(* The CRUD hooks: every operation has the same body.                      *)

Start(op) ==
    /\ view \in DOMAIN Hooks /\ op \in Hooks[view]
    /\ starts < MaxStarts
    /\ starts' = starts + 1
    /\ calls' = calls \cup {Call(op, starts')}
    /\ loading' = TRUE
    /\ error' = "none"
    /\ UNCHANGED <<view, answered, filled, intervals, predictions, models, generated>>

AnswerHook_NoFinally(c) ==
    /\ view \in DOMAIN Hooks /\ c \in calls
    /\ calls' = calls \ {c}
    /\ \/ error' = c.op /\ UNCHANGED loading
       \/ loading' = FALSE /\ UNCHANGED error
    /\ UNCHANGED <<view, starts, answered, filled, intervals, predictions, models, generated>>

\* A failure sets the error; a success leaves it as it is.
AnswerHook(c) ==
    /\ view \in DOMAIN Hooks /\ c \in calls
    /\ calls' = calls \ {c}
    /\ loading' = FALSE
    /\ error' \in {error, c.op}
    /\ UNCHANGED <<view, starts, answered, filled, intervals, predictions, models, generated>>

-----------------------------------------------------------------------------
AnswerCall(c) ==
    \/ AnswerGetter(c) \/ AnswerRefresh(c) \/ AnswerPredictions(c)
    \/ AnswerModels(c) \/ AnswerGenerate(c) \/ AnswerHook(c)

Next ==
    \/ \E v \in Views : Open(v)
    \/ Leave
    \/ \E c \in calls : AnswerCall(c)
    \/ Refresh
    \/ Generate
    \/ \E h \in DOMAIN Hooks : \E op \in Hooks[h] : Start(op)

Spec == Init /\ [][Next]_vars

\* Every request ends: fetchWithTimeout aborts one that is not answered.
FairSpec == Spec /\ WF_vars(\E c \in calls : AnswerCall(c))

-----------------------------------------------------------------------------
(* Properties.                                                             *)

Ops == (UNION {Hooks[h] : h \in DOMAIN Hooks})
         \cup (UNION {Analytics[p] : p \in AnalyticsPages})
         \cup {"getPredictions", "getModels", "generatePrediction"}

\* The types of the state; ChartBuilder's interval exists exactly while the
\* panel is mounted, so a panel that was left never fetches again.
TypeOK ==
    /\ view \in Views \cup {"none"}
    /\ \A c \in calls : c.op \in Ops /\ c.n \in 0..MaxStarts
    /\ starts \in 0..MaxStarts
    /\ loading \in BOOLEAN /\ models \in BOOLEAN
    /\ error \in Ops \cup {"none"}
    /\ answered \subseteq Ops /\ filled \subseteq Ops
    /\ intervals = (IF view = "realtime" THEN 1 ELSE 0)
    /\ predictions \subseteq 0..MaxStarts

\* No view shows its loading state once nothing it waits for is in flight,
\* whichever order concurrent answers and failures came in.
IdleNotLoading ==
    {c \in calls : c.op # "generatePrediction"} = {} => ~loading

\* A prediction the service has generated stays in the list: the list is not
\* overwritten by the first page, because no prediction can be requested
\* before models are loaded, and models are loaded after the first page.
GeneratedStays == view = "predictions" => generated \subseteq predictions

\* Every panel of an analytics page gets data, whichever of its endpoints
\* fail: no getter rejects, so Promise.all never drops the answers of the rest.
PageFills ==
    \A p \in AnalyticsPages : view = p ~> view # p \/ filled = Analytics[p]
=============================================================================
