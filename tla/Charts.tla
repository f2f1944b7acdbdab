------------------------------- MODULE Charts -------------------------------
(***************************************************************************)
(* One chart of the dashboard's analytics pages: the answer of the         *)
(* analytics endpoint, what the getter of hooks/useAnalytics.ts turns it   *)
(* into, and what components/builders/D3Chart.tsx draws of it.             *)
(*                                                                         *)
(* A chart is its rows and its metadata.  The code branches only on which  *)
(* columns the rows have and on which columns the metadata names, so rows  *)
(* are a kind and each metadata key has one of five values:                *)
(*   "none"   absent            "snake"  present, in snake case            *)
(*   "field"  a fitting column  "wrong"  a column that holds no number     *)
(*   "stray"  no column at all                                             *)
(***************************************************************************)
EXTENDS Integers, Sequences, FiniteSets, FiniteSetsExt, SequencesExt

CONSTANTS
    Volumes,      \* the hourly counts the transaction volume endpoint answers
    MaxPaths,     \* the most parallel paths of a transaction flow
    WeekPoints,   \* more points than this are grouped by week (50 in the code)
    MonthPoints,  \* more points than this are grouped by month (100)
    MaxAnswers    \* how many answers one behaviour receives

ASSUME ChartsAssumption ==
    /\ \A v \in Volumes : v \in Seq(Nat \X Nat) /\ v # <<>>
    /\ MaxPaths \in Nat \ {0}
    /\ WeekPoints \in Nat /\ MonthPoints \in Nat /\ WeekPoints < MonthPoints
    /\ MaxAnswers \in Nat

VARIABLES
    getter,    \* the getter of useAnalytics this chart is fetched by
    response,  \* the last answer of its endpoint
    chart,     \* the data prop of D3Chart
    timers,    \* the pending 100 ms timers, each with the data it will draw
    status,    \* renderStatus
    shown,     \* the content of the svg: what was drawn, and of which data
    answers    \* the number of answers received

chartVars == <<getter, response, chart, timers, status, shown, answers>>

-----------------------------------------------------------------------------
(* Charts.                                                                 *)

Keys  == {"xAxis", "yAxis", "groupBy", "dimension", "metric", "metrics",
          "nodes", "source", "target", "value"}
Types == {"line", "pie", "stacked-bar", "bar", "sankey", "funnel", "gauge",
          "combo", "area", "treemap", "none"}

Named(type, rows, keys, name) ==
    [type |-> type, rows |-> rows, links |-> {}, points |-> <<>>,
     key |-> [k \in Keys |-> IF k \in keys THEN name ELSE "none"]]

Chart(type, rows, keys) == Named(type, rows, keys, "field")

NoChart == Chart("none", "empty", {})

\* What a reader of metadata.<key> sees: a snake case key is not there.
Has(c, k) == c.key[k] \notin {"none", "snake"}
Fits(c, ks) == \A k \in ks : c.key[k] = "field"

StatusRows == {"status", "single"}

\* The column of the first row validateChartData finds for a text role ...
textColumn(rows) == IF rows \in {"empty", "orders"} THEN "stray" ELSE "field"

\* ... and for a number role: parseFloat also accepts the year of a date and
\* the hour of a time, and that column comes first.
numberColumn(rows) ==
    CASE rows = "empty" -> "stray" [] rows = "dated" -> "wrong" [] OTHER -> "field"

linkColumn(rows) == IF rows = "links" THEN "field" ELSE "stray"

\* The keys validateChartData adds, by chart type; nothing for bar, gauge, combo.
Missing(c) ==
    CASE c.type = "sankey" ->
            [k \in {"source", "target", "value"} |-> linkColumn(c.rows)]
      [] c.type = "pie" ->
            [dimension |-> textColumn(c.rows), metric |-> numberColumn(c.rows)]
      [] c.type = "funnel" ->
            [dimension |-> textColumn(c.rows), metric |-> numberColumn(c.rows),
             metrics |-> IF c.rows \in {"stages", "orders"} THEN "field" ELSE "none"]
      [] c.type \in {"line", "area"} ->
            [xAxis |-> textColumn(c.rows), yAxis |-> numberColumn(c.rows)]
      [] c.type = "stacked-bar" ->
            [k \in {"xAxis", "yAxis", "groupBy"} |-> "stray"]
      [] OTHER -> [k \in {} |-> "none"]

camelCase(c) ==
    [c EXCEPT !.key = [k \in Keys |-> IF @[k] = "snake" THEN "field" ELSE @[k]]]

\* Status counts labelled as a sankey become a pie.
statusPie(c) ==
    IF c.type = "sankey" /\ Fits(c, {"nodes", "value"}) /\ c.rows \in StatusRows
    THEN [c EXCEPT !.type = "pie",
            !.key = [k \in Keys |-> CASE k \in {"dimension", "metric"} -> "field"
                                      [] k \in {"nodes", "source", "target"} -> "none"
                                      [] OTHER -> @[k]]]
    ELSE c

validateChartData_NoCamel(data) ==
    IF data.type = "none" THEN data
    ELSE LET c == statusPie(data)
         IN  [c EXCEPT !.key = [k \in Keys |->
                IF @[k] = "none" /\ k \in DOMAIN Missing(c) THEN Missing(c)[k] ELSE @[k]]]

validateChartData(data) ==
    IF data.type = "none" THEN data
    ELSE LET c == statusPie(camelCase(data))
         IN  [c EXCEPT !.key = [k \in Keys |->
                IF @[k] = "none" /\ k \in DOMAIN Missing(c) THEN Missing(c)[k] ELSE @[k]]]

-----------------------------------------------------------------------------
(* utils/chartHelpers.ts.  A point is <<hour, count>>; a calendar month is  *)
(* taken to have 30 days.                                                  *)

Day == 24

Length(period) ==
    CASE period = "hour" -> 1 [] period = "day" -> Day
      [] period = "week" -> 7 * Day [] period = "month" -> 30 * Day

\* The members of S, which R orders, from the first to the last.
InOrder(S, R) ==
    [n \in 1..Cardinality(S) |-> CHOOSE x \in S : Cardinality({y \in S : <<y, x>> \in R}) = n]

\* The points by time; the sort is stable.
inTimeOrder(points) ==
    LET order == InOrder(DOMAIN points,
                    {p \in (DOMAIN points) \X (DOMAIN points) :
                        \/ points[p[1]][1] < points[p[2]][1]
                        \/ points[p[1]][1] = points[p[2]][1] /\ p[1] <= p[2]})
    IN  [n \in DOMAIN points |-> points[order[n]]]

Counts(points) == [i \in DOMAIN points |-> points[i][2]]

\* The starts of the periods, by point and in order of time.
periodStart(points, period) ==
    [i \in DOMAIN points |-> points[i][1] - (points[i][1] % Length(period))]
periodStarts(points, period) ==
    LET starts == Range(periodStart(points, period))
    IN  InOrder(starts, {p \in starts \X starts : p[1] <= p[2]})

aggregateTimeSeries_Last(points, period) ==
    LET starts  == periodStarts(points, period)
        last(g) == Max({i \in DOMAIN points : periodStart(points, period)[i] = g})
    IN  [n \in DOMAIN starts |-> <<starts[n], points[last(starts[n])][2]>>]

\* One point per period that has data, in order of time, with its counts summed.
aggregateTimeSeries(points, period) ==
    LET starts == periodStarts(points, period)
        sum(g) == SumFunctionOnSet(Counts(points),
                    {i \in DOMAIN points : periodStart(points, period)[i] = g})
    IN  [n \in DOMAIN starts |-> <<starts[n], sum(starts[n])>>]

\* The period is chosen from the days spanned, then from the number of points.
aggregationPeriod(points) ==
    LET days == (points[Len(points)][1] - points[1][1]) \div Day
    IN  CASE Len(points) > MonthPoints -> "month"
          [] Len(points) \in (WeekPoints + 1)..MonthPoints -> "week"
          [] Len(points) = 1 -> "day"
          [] days > 60 -> "month"
          [] days \in 15..60 -> "week"
          [] days \in 3..14 -> "day"
          [] OTHER -> "hour"

transformTransactionVolumeData(points) ==
    LET sorted == inTimeOrder(points)
    IN  [Chart("line", "table", {"xAxis", "yAxis"}) EXCEPT
            !.points = aggregateTimeSeries(sorted, aggregationPeriod(sorted))]

-----------------------------------------------------------------------------
(* The getters of useAnalytics.  A response is an error, an empty body or   *)
(* an answer; flat says the metadata is at the top level of the answer.    *)

NoAnswer(kind) == [kind |-> kind, chart |-> NoChart, flat |-> FALSE, whole |-> FALSE]
Answer(c, flat, whole) == [kind |-> "answer", chart |-> c, flat |-> flat, whole |-> whole]

\* Read as { data, metadata }: a flat answer has no metadata.
body(r) == IF r.flat THEN [r.chart EXCEPT !.type = "none", !.key = NoChart.key] ELSE r.chart

\* The shape most getters share: mock data for an error and for an empty body.
validated(r, mock) == validateChartData(IF r.kind = "answer" THEN body(r) ELSE mock)

\* The transaction getters: mock data for an error only; flat metadata is
\* rewrapped, the keys the getter names kept and the others dropped.
rewrapped(r, mock, keys) ==
    CASE r.kind = "error"  -> validateChartData(mock)
      [] r.kind = "empty"  -> NoChart
      [] r.flat            -> validateChartData([r.chart EXCEPT !.key =
                                [k \in Keys |-> IF k \in keys THEN camelCase(r.chart).key[k] ELSE "none"]])
      [] OTHER             -> validateChartData(r.chart)

\* The business getters return what they get, unvalidated.
raw(r, mock) == CASE r.kind = "error" -> mock [] r.kind = "empty" -> NoChart [] OTHER -> body(r)

\* The links of n statuses in one chain, and of n paths from one node to another.
chain(n) == {<<i, i + 1>> : i \in 1..(n - 1)}
paths(n) == {<<0, i>> : i \in 1..n} \cup {<<i, n + 1>> : i \in 1..n}

Linked(keys, links) == [Chart("sankey", "links", keys) EXCEPT !.links = links]

getStockLevelTrends(r)      == validated(r, Chart("line", "dated", {"xAxis", "yAxis"}))
getInventoryDistribution(r) == validated(r, Chart("pie", "table", {"dimension", "metric"}))
getWarehouseDistribution(r) == validated(r, Chart("stacked-bar", "table", {"xAxis", "yAxis", "groupBy"}))
getReorderPoints(r)         == validated(r, Chart("bar", "stages", {"xAxis", "yAxis"}))

\* Status counts become the links between the statuses in order of count.
getOrderFlow(r) ==
    LET c == body(r)
        flow == IF c.type # "none" /\ c.rows \in StatusRows
                THEN [c EXCEPT !.type = "sankey",
                        !.rows = IF c.rows = "single" THEN "empty" ELSE "links",
                        !.links = IF c.rows = "single" THEN {} ELSE chain(3),
                        !.key = [k \in Keys |->
                            CASE k \in {"source", "target", "value"} -> "field"
                              [] k \in {"dimension", "metric"} -> "none"
                              [] OTHER -> @[k]]]
                ELSE c
    IN  validated([r EXCEPT !.chart = IF r.flat THEN @ ELSE flow],
                  Linked({"source", "target", "value"}, chain(5)))

getOrderPipeline(r)         == validated(r, Chart("funnel", "table", {"dimension", "metric"}))
getOrderLifecycle(r)        == validated(r, Chart("funnel", "table", {"dimension", "metric", "metrics"}))

getOrderVolumeTrends_NoMetric(r) == validated(r, Chart("line", "dated", {"xAxis"}))

\* Forced to a line whatever the server calls it.
getOrderVolumeTrends(r) ==
    LET c == body(r)
        line == IF c.type \notin {"none", "line"}
                THEN [c EXCEPT !.type = "line",
                        !.key["xAxis"] = IF ~Has(c, "xAxis") /\ c.rows = "dated" THEN "field" ELSE @,
                        !.key["yAxis"] = IF ~Has(c, "yAxis") /\ c.rows \in StatusRows THEN "field" ELSE @]
                ELSE c
    IN  validated([r EXCEPT !.chart = IF r.flat THEN @ ELSE line],
                  Chart("line", "dated", {"xAxis", "yAxis"}))

\* Status counts replaced by rows of the getter's own, which share the total.
Replaced(c, type, rows, keys) ==
    IF c.type \notin {"none", type} /\ c.rows \in StatusRows
    THEN [c EXCEPT !.type = type, !.rows = rows,
            !.key = [k \in Keys |-> CASE k \in keys -> "field"
                                      [] k \in {"nodes", "value"} -> "none"
                                      [] OTHER -> @[k]]]
    ELSE c

getOrderValueDistribution(r) ==
    validated([r EXCEPT !.chart = IF r.flat THEN @ ELSE Replaced(@, "pie", "table", {"dimension", "metric"})],
              Chart("pie", "table", {"dimension", "metric"}))

getOrderPeakTimes(r) ==
    validated([r EXCEPT !.chart = IF r.flat THEN @ ELSE Replaced(@, "line", "dated", {"xAxis", "yAxis"})],
              Chart("line", "dated", {"xAxis", "yAxis"}))

\* No rows count as an empty answer here.
getTransactionVolume(r) ==
    validateChartData(
        IF r.kind = "answer" /\ r.chart.rows # "empty"
        THEN transformTransactionVolumeData(r.chart.points)
        ELSE Chart("line", "table", {"xAxis", "yAxis"}))

getStockMovements(r)      == rewrapped(r, Chart("stacked-bar", "table", {"xAxis", "yAxis", "groupBy"}),
                                       {"xAxis", "yAxis", "groupBy"})
getTransactionMetrics(r)  == rewrapped(r, Chart("pie", "table", {"dimension", "metric"}), {"dimension", "metric"})
getTransactionPatterns(r) == rewrapped(r, Chart("line", "dated", {"xAxis", "yAxis"}), {"xAxis", "yAxis"})
getTransactionClusters(r) == rewrapped(r, Chart("pie", "table", {"dimension", "metric"}), {"dimension", "metric"})

\* source, target and value are given their usual names where absent.
getTransactionFlow(r) ==
    LET named == [k \in Keys |->
                    IF k \in {"source", "target", "value"} /\ r.chart.key[k] = "none"
                    THEN linkColumn(r.chart.rows) ELSE r.chart.key[k]]
    IN  rewrapped([r EXCEPT !.chart.key = IF r.flat THEN named ELSE @],
                  Linked({"nodes", "source", "target", "value"}, chain(5)),
                  {"nodes", "source", "target", "value"})

\* The performance getters keep the rows and write the metadata themselves.
getRealTimeMetrics(r) ==
    Chart("gauge", IF r.kind = "answer" THEN r.chart.rows ELSE "orders", {"metrics"})
getPerformanceTrends(r) ==
    Chart("line", IF r.kind = "answer" /\ r.chart.rows = "empty" THEN "empty" ELSE "dated",
          {"xAxis", "yAxis", "metrics"})
getSystemHealth(r) ==
    Chart("gauge", IF r.kind = "answer" /\ r.chart.rows = "empty" THEN "empty" ELSE "orders", {"metrics"})
\* Without a first row the getter throws and falls back like any error.
getResourceUtilization(r) == Chart("stacked-bar", "resource", {"xAxis", "yAxis", "groupBy"})

getFinancialAnalytics(r) == raw(r, Chart("combo", "stages", {"xAxis", "yAxis"}))
getRevenueAnalysis(r)    == raw(r, Chart("pie", "table", {"dimension", "metric"}))
getHierarchicalData(r)   == raw(r, Linked({"nodes", "source", "target", "value"},
                                      {<<0, 1>>, <<0, 2>>, <<0, 3>>, <<1, 4>>, <<1, 5>>}))
getForecastData(r)       == raw(r, Chart("line", "stages", {"xAxis", "yAxis"}))
getTrendPredictions(r)   == raw(r, Chart("area", "dated", {"xAxis", "yAxis"}))

Getters == {"StockLevelTrends", "InventoryDistribution", "WarehouseDistribution",
            "ReorderPoints", "OrderFlow", "OrderPipeline", "OrderLifecycle",
            "OrderVolumeTrends", "OrderValueDistribution", "OrderPeakTimes",
            "TransactionVolume", "StockMovements", "TransactionMetrics",
            "TransactionPatterns", "TransactionClusters", "TransactionFlow",
            "RealTimeMetrics", "PerformanceTrends", "SystemHealth",
            "ResourceUtilization", "FinancialAnalytics", "RevenueAnalysis",
            "HierarchicalData", "ForecastData", "TrendPredictions"}

Business == {"FinancialAnalytics", "RevenueAnalysis", "HierarchicalData",
             "ForecastData", "TrendPredictions"}

Get(g, r) ==
    CASE g = "StockLevelTrends"       -> getStockLevelTrends(r)
      [] g = "InventoryDistribution"  -> getInventoryDistribution(r)
      [] g = "WarehouseDistribution"  -> getWarehouseDistribution(r)
      [] g = "ReorderPoints"          -> getReorderPoints(r)
      [] g = "OrderFlow"              -> getOrderFlow(r)
      [] g = "OrderPipeline"          -> getOrderPipeline(r)
      [] g = "OrderLifecycle"         -> getOrderLifecycle(r)
      [] g = "OrderVolumeTrends"      -> getOrderVolumeTrends(r)
      [] g = "OrderValueDistribution" -> getOrderValueDistribution(r)
      [] g = "OrderPeakTimes"         -> getOrderPeakTimes(r)
      [] g = "TransactionVolume"      -> getTransactionVolume(r)
      [] g = "StockMovements"         -> getStockMovements(r)
      [] g = "TransactionMetrics"     -> getTransactionMetrics(r)
      [] g = "TransactionPatterns"    -> getTransactionPatterns(r)
      [] g = "TransactionClusters"    -> getTransactionClusters(r)
      [] g = "TransactionFlow"        -> getTransactionFlow(r)
      [] g = "RealTimeMetrics"        -> getRealTimeMetrics(r)
      [] g = "PerformanceTrends"      -> getPerformanceTrends(r)
      [] g = "SystemHealth"           -> getSystemHealth(r)
      [] g = "ResourceUtilization"    -> getResourceUtilization(r)
      [] g = "FinancialAnalytics"     -> getFinancialAnalytics(r)
      [] g = "RevenueAnalysis"        -> getRevenueAnalysis(r)
      [] g = "HierarchicalData"       -> getHierarchicalData(r)
      [] g = "ForecastData"           -> getForecastData(r)
      [] OTHER                        -> getTrendPredictions(r)

\* The answer of the logistics engine to each endpoint, when it has rows.
Axes(type, rows, keys) == Named(type, rows, keys, "snake")
StatusCounts == Chart("sankey", "status", {"nodes", "value"})
Orders(type) == Chart(type, "orders", {"metrics"})
Business3(type) == [Axes(type, "stages", {"xAxis"}) EXCEPT !.key["metrics"] = "field"]

Served ==
    [g \in Getters |->
        CASE g = "StockLevelTrends"      -> Axes("line", "dated", {"xAxis", "yAxis"})
          [] g = "InventoryDistribution" -> Chart("pie", "table", {"dimension", "metric"})
          [] g = "WarehouseDistribution" -> Axes("stacked-bar", "table", {"xAxis", "yAxis", "groupBy"})
          [] g = "ReorderPoints"         -> Axes("bar", "stages", {"xAxis", "yAxis"})
          [] g \in {"OrderFlow", "OrderVolumeTrends", "OrderValueDistribution",
                    "OrderPeakTimes"}    -> StatusCounts
          [] g \in {"OrderPipeline", "OrderLifecycle"} ->
                Chart("funnel", "stages", {"dimension", "metrics"})
          [] g = "TransactionVolume"     -> Axes("line", "dated", {"xAxis", "yAxis"})
          [] g = "StockMovements"        -> [Axes("stacked-bar", "stages", {"xAxis"}) EXCEPT
                                                !.key["yAxis"] = "stray", !.key["groupBy"] = "stray"]
          [] g \in {"TransactionMetrics", "TransactionClusters"} ->
                Chart("pie", "table", {"dimension", "metric"})
          [] g = "TransactionPatterns"   -> Axes("line", "dated", {"xAxis", "yAxis"})
          [] g = "TransactionFlow"       -> Chart("sankey", "links", {"nodes", "value"})
          [] g = "PerformanceTrends"     -> Orders("line")
          [] g \in {"RealTimeMetrics", "SystemHealth", "ResourceUtilization"} -> Orders("gauge")
          [] g = "RevenueAnalysis"       -> Business3("bar")
          [] g = "HierarchicalData"      -> Business3("treemap")
          [] OTHER                       -> Business3("combo")]

Flat(g) == g \in {"TransactionVolume", "StockMovements", "TransactionMetrics",
                  "TransactionPatterns", "TransactionClusters", "TransactionFlow"}

\* With all the rows the tables can give the endpoint.
ServedCharts(g) ==
    CASE g = "TransactionVolume" -> {[Served[g] EXCEPT !.points = v] : v \in Volumes}
      [] g = "TransactionFlow"   -> {[Served[g] EXCEPT !.links = paths(n)] : n \in 1..MaxPaths}
      [] Served[g].rows = "status" -> {Served[g], [Served[g] EXCEPT !.rows = "single"]}
      [] OTHER                   -> {Served[g]}

\* An error, an empty body, the server's answer, the answer over empty tables,
\* and an answer that lacks one of its metadata keys.
Responses(g) ==
    {NoAnswer("error"), NoAnswer("empty")}
    \cup {Answer(c, Flat(g), TRUE) : c \in ServedCharts(g)}
    \cup {Answer([Served[g] EXCEPT !.rows = "empty"], Flat(g), TRUE)}
    \cup {Answer([c EXCEPT !.key[k] = "none"], Flat(g), FALSE) :
            c \in ServedCharts(g), k \in {j \in Keys : Served[g].key[j] # "none"}}

SankeyLayers_Depth(links) ==
    LET nodes == {l[1] : l \in links} \cup {l[2] : l \in links}
        roots == {n \in nodes : \A l \in links : l[2] # n}
    IN  <<roots, nodes \ roots>>

-----------------------------------------------------------------------------
\* The layers of a sankey: first the nodes no link leads to, then, layer by
\* layer, the unplaced targets of the placed nodes; nodes no link reaches go
\* together into the next layer.  A layer without nodes takes no size.
SankeyLayers(links) ==
    LET nodes == {l[1] : l \in links} \cup {l[2] : l \in links}
        roots == {n \in nodes : \A l \in links : l[2] # n}
        next(placed) == {l[2] : l \in {m \in links : m[1] \in placed /\ m[2] \notin placed}}
        grow[layers \in Seq(SUBSET nodes)] ==
            LET placed == UNION Range(layers)
            IN  IF placed = nodes THEN layers
                ELSE Append(layers, IF next(placed) # {} THEN next(placed) ELSE nodes \ placed)
        run[k \in 0..Cardinality(nodes)] == IF k = 0 THEN <<roots>> ELSE grow[run[k - 1]]
    IN  run[Cardinality(nodes)]

(* The draw functions of D3Chart.  "drawn": the rows are in the picture.    *)
(* "flat": a picture without them (undefined, NaN or 0 for every row).      *)
(* "text": the function threw and wrote its error message instead.          *)

Picture(refused, ok) == IF refused THEN "text" ELSE IF ok THEN "drawn" ELSE "flat"

drawLineChart(c) ==
    Picture(~Has(c, "xAxis") \/ ~Has(c, "yAxis"),
            Fits(c, {"xAxis", IF Has(c, "metrics") THEN "metrics" ELSE "yAxis"}))

drawPieChart(c) ==
    Picture(\E k \in {"dimension", "metric"} : ~Has(c, k) \/ c.key[k] = "stray",
            Fits(c, {"dimension", "metric"}))

drawStackedBarChart(c) == Picture(FALSE, Fits(c, {"xAxis", "yAxis", "groupBy"}))
drawBarChart(c)  == Picture(~Has(c, "xAxis") \/ ~Has(c, "yAxis"), Fits(c, {"xAxis", "yAxis"}))
drawAreaChart(c) == Picture(~Has(c, "xAxis") \/ ~Has(c, "yAxis"), Fits(c, {"xAxis", "yAxis"}))
drawGaugeChart(c) == Picture(FALSE, c.rows = "orders")

\* Always on a time scale: an x value that is no date, as the quarters "Q1" to
\* "Q4" of the financial mock, has no position.  (What new Date makes of such a
\* text is left to the browser; here none of them is a date.)
drawComboChart(c) == Picture(FALSE, c.rows = "dated" /\ Fits(c, {"xAxis", "yAxis"}))

drawFunnelChart(c) ==
    Picture(~Has(c, "dimension"),
            Fits(c, {"dimension", IF Has(c, "metrics") THEN "metrics" ELSE "metric"}))

\* Without source and target the rows are drawn as a pie of nodes and value.
drawSankeyDiagram(c) ==
    IF ~Has(c, "source") \/ ~Has(c, "target")
    THEN drawPieChart([c EXCEPT !.key = [k \in Keys |->
            LET from == IF k = "dimension" THEN "nodes" ELSE "value"
            IN  CASE k \notin {"dimension", "metric"} -> @[k]
                  [] Has(c, from) -> @[from]
                  [] OTHER -> IF c.rows \in StatusRows THEN "field" ELSE "stray"]])
    ELSE Picture(FALSE, Fits(c, {"source", "target"}) /\ {} \notin Range(SankeyLayers(c.links)))

draw(c) ==
    CASE c.type = "line"        -> drawLineChart(c)
      [] c.type = "pie"         -> drawPieChart(c)
      [] c.type = "stacked-bar" -> drawStackedBarChart(c)
      [] c.type = "area"        -> drawAreaChart(c)
      [] c.type = "sankey"      -> drawSankeyDiagram(c)
      [] c.type = "gauge"       -> drawGaugeChart(c)
      [] c.type = "combo"       -> drawComboChart(c)
      [] c.type = "funnel"      -> drawFunnelChart(c)
      [] c.type = "bar"         -> drawBarChart(c)

Drawable == Types \ {"treemap", "none"}

-----------------------------------------------------------------------------
(* The component.  Its effect runs on every new data prop; the cleanup of   *)
(* the previous effect clears that effect's timer first.                   *)

Blank == [picture |-> "blank", of |-> NoChart]

ChartInit ==
    /\ getter \in Getters
    /\ response = NoAnswer("none")
    /\ chart = NoChart
    /\ timers = <<>>
    /\ status = "idle"
    /\ shown = Blank
    /\ answers = 0

Receive_KeepTimers ==
    /\ answers < MaxAnswers
    /\ answers' = answers + 1
    /\ \E r \in Responses(getter) :
        LET c == Get(getter, r)
        IN  /\ response' = r
            /\ chart' = c
            /\ timers' = Append(timers, c)
            /\ status' = "loading"
    /\ UNCHANGED <<getter, shown>>

\* The getter resolves and the page passes the result down; a page renders no
\* chart for a null result.
Receive ==
    /\ answers < MaxAnswers
    /\ answers' = answers + 1
    /\ \E r \in Responses(getter) :
        LET c == Get(getter, r)
        IN  /\ response' = r
            /\ chart' = c
            /\ IF c = NoChart
               THEN timers' = <<>> /\ status' = "idle" /\ shown' = Blank
               ELSE timers' = <<c>> /\ status' = "loading" /\ UNCHANGED shown
    /\ UNCHANGED getter

\* The timer fires.  Data without rows or without a type leave the svg alone;
\* an unknown type clears it.
Fire ==
    /\ timers # <<>>
    /\ timers' = Tail(timers)
    /\ LET c == Head(timers)
       IN  IF c.rows = "empty" \/ c.type = "none"
           THEN status' = "error" /\ UNCHANGED shown
           ELSE IF c.type \notin Drawable
           THEN status' = "error" /\ shown' = Blank
           ELSE status' = "success" /\ shown' = [picture |-> draw(c), of |-> c]
    /\ UNCHANGED <<getter, response, chart, answers>>

\* The page is left: the component unmounts and its cleanup clears the timer.
Unmount ==
    /\ chart # NoChart
    /\ response' = NoAnswer("none")
    /\ chart' = NoChart
    /\ timers' = <<>>
    /\ status' = "idle"
    /\ shown' = Blank
    /\ UNCHANGED <<getter, answers>>

ChartNext == Receive \/ Fire \/ Unmount

ChartSpec == ChartInit /\ [][ChartNext]_chartVars

-----------------------------------------------------------------------------
(* Properties.                                                             *)

Settled == status \in {"success", "error"}

\* When an endpoint fails, the mock data of its getter go through validation
\* and the draw function of their type and their rows are in the picture (the
\* catch blocks of useAnalytics.ts), for 24 of the 25 getters: the quarters of
\* getFinancialAnalytics are no dates, and drawComboChart places dates only.
FallbackDraws ==
    Settled /\ response.kind = "error" /\ getter # "FinancialAnalytics" =>
        status = "success" /\ shown.picture = "drawn"

\* What the logistics engine answers today, sent over non-empty tables and
\* naming columns its rows have, is drawn: the snake case, the flat metadata
\* and the status counts labelled sankey are all put right on the way.  The
\* business getters skip validation, and one single order status leaves the
\* order flow without a link; see the hazards.
LiveAnswerDraws ==
    /\ Settled /\ response.kind = "answer" /\ response.whole
    /\ response.chart.rows # "empty"
    /\ "stray" \notin Range(response.chart.key)
    /\ getter \notin Business
    /\ ~(getter = "OrderFlow" /\ response.chart.rows = "single")
    => status = "success" /\ shown.picture = "drawn"

\* The chart on the screen under a success status is the chart of the data the
\* component holds, not of data an earlier timer was set for.
SuccessIsCurrent == status = "success" => shown.of = chart

\* Every node of a drawn sankey diagram has its layer, and every link leads to
\* a later layer than it starts from.
SankeyPlaced ==
    shown.picture = "drawn" /\ shown.of.type = "sankey" =>
        LET layers == SankeyLayers(shown.of.links)
            at(n)  == {i \in DOMAIN layers : n \in layers[i]}
        IN  \A l \in shown.of.links :
                \E i \in at(l[1]), j \in at(l[2]) :
                    i < j /\ at(l[1]) = {i} /\ at(l[2]) = {j}

Total(points) == SumFunction(Counts(points))

\* Grouping by hour, day, week or month loses no transaction, counts none
\* twice and keeps the periods in order of time.
VolumeConserved ==
    getter = "TransactionVolume" /\ response.kind = "answer" /\ response.chart.rows # "empty" =>
        /\ Total(chart.points) = Total(response.chart.points)
        /\ \A i, j \in DOMAIN chart.points : i < j => chart.points[i][1] < chart.points[j][1]

=============================================================================
