------------------------ MODULE InventorySyncProofs ------------------------
(***************************************************************************)
(* Theorems about InventorySync, for every number of items, warehouses,    *)
(* orders, callers and connections.                                        *)
(***************************************************************************)
EXTENDS InventorySync, SequenceTheorems, SumProofs, TLAPS

ControlOK == ControlType /\ HandlerOK

TablesOK == TablesType /\ Balanced /\ RefersOK

\* Inductive: a handler's arguments fit its step, so what it writes has the
\* right type, refers to rows that exist and keeps every level balanced.
IInv == TablesOK /\ ControlOK /\ calls \in Nat /\ restarts \in Nat

-----------------------------------------------------------------------------
(* Handlers *)

\* A handler at a line step has a line and the row it names.
LEMMA LineFacts ==
    ASSUME ControlOK, NEW c \in Clients, pc[c] \in LineSteps
    PROVE  /\ Row(c) \in Rows
           /\ Qty(c) \in Int
           /\ Row(c)[1] \in Items
           /\ Row(c)[2] \in Warehouses
<1>1. /\ call[c] \in CallRecord /\ Len(call[c].lines) > 0 /\ call[c].wh \in Warehouses
      /\ Head(call[c].lines).item \in Items
  BY DEF ControlOK, ControlType, HandlerOK
<1>2. call[c].lines \in Seq(BasketLine) /\ call[c].lines # <<>>
  BY <1>1 DEF CallRecord
<1>3. Head(call[c].lines) \in BasketLine
  BY <1>2
<1>4. Head(call[c].lines).qty \in Int
  BY <1>3, ConstantsAssumption DEF BasketLine
<1>5. QED
  BY <1>1, <1>4 DEF Row, Qty, Rows

\* The quantity of that line is one that requests carry.
LEMMA LineQuantity ==
    ASSUME ControlOK, NEW c \in Clients, pc[c] \in LineSteps
    PROVE  Qty(c) \in Quantities
<1>1. call[c].lines \in Seq(BasketLine) /\ call[c].lines # <<>>
  BY DEF ControlOK, ControlType, HandlerOK, CallRecord
<1>2. Head(call[c].lines) \in BasketLine
  BY <1>1
<1>3. QED
  BY <1>2 DEF BasketLine, Qty

\* A record without a request has the type of a call.
LEMMA NoCallType == NoCall \in CallRecord
BY DEF NoCall, Request, CallRecord

\* The rest of a request's lines.
LEMMA TailFacts ==
    ASSUME NEW l \in Seq(BasketLine), Len(l) > 0
    PROVE  Tail(l) \in Seq(BasketLine) /\ (Len(l) # 1 => Len(Tail(l)) > 0)
<1>1. l # <<>>
  OBVIOUS
<1>2. Tail(l) \in Seq(BasketLine) /\ Len(Tail(l)) = Len(l) - 1
  BY <1>1, HeadTailProperties
<1> DEFINE n == Len(l)
<1>3. n \in Nat /\ n > 0
  OBVIOUS
<1> HIDE DEF n
<1>4. n # 1 => n - 1 > 0
  BY <1>3
<1>5. QED
  BY <1>2, <1>4 DEF n

\* Returning from a handler keeps the control state well formed.
LEMMA ReturnControl ==
    ASSUME ControlOK, NEW c \in Clients, NEW open \in OpenTx, Return(c, open)
    PROVE  ControlOK'
<1>1. NothingOpen \in OpenTx
  BY DEF NothingOpen, OpenTx
<1>2. pc' \in [Clients -> Steps]
  BY DEF Return, Goto, ControlOK, ControlType, Steps
<1>3. call' \in [Clients -> CallRecord]
  BY NoCallType DEF Return, ControlOK, ControlType
<1>4. abandoned' \in [Clients -> OpenTx]
  BY <1>1 DEF Return, ControlOK, ControlType
<1>5. HandlerOK'
  BY DEF Return, Goto, ControlOK, ControlType, HandlerOK, LineSteps, OrderSteps, OuterTx, Adds, Qty
<1>6. QED
  BY <1>2, <1>3, <1>4, <1>5 DEF ControlOK, ControlType

\* So does going on to another step of the same line, and a last look at its
\* level.
LEMMA GotoControl ==
    ASSUME ControlOK, NEW c \in Clients, NEW s \in LineSteps \cup {"level"},
           pc[c] \in LineSteps, s \in OrderSteps => pc[c] \in OrderSteps,
           s = "insert" => Adds(c),
           Goto(c, s), UNCHANGED <<call, abandoned>>
    PROVE  ControlOK'
<1>1. pc' \in [Clients -> Steps]
  BY DEF Goto, ControlOK, ControlType, Steps, LineSteps, OrderSteps
<1>2. HandlerOK'
  BY DEF Goto, ControlOK, ControlType, HandlerOK, LineSteps, OrderSteps, OuterTx, Adds, Qty
<1>3. QED
  BY <1>1, <1>2 DEF ControlOK, ControlType

\* What a handler has left open, with or without one more transaction.
LEMMA OpenTypes ==
    ASSUME ControlOK, NEW c \in Clients
    PROVE  /\ abandoned[c] \in OpenTx
           /\ AbandonTx(c, {}) \in OpenTx
           /\ pc[c] \in LineSteps => AbandonTx(c, {Row(c)}) \in OpenTx
BY LineFacts DEF ControlOK, ControlType, OpenTx, AbandonTx

\* So does finishing a line, which moves on to the next line or the answer.
LEMMA NextLineControl ==
    ASSUME ControlOK, NEW c \in Clients, pc[c] \in OrderSteps \cup {"lookup"},
           NEW allocated, allocated => pc[c] = "allocate",
           NEW open \in OpenTx, NextLine(c, allocated, open)
    PROVE  ControlOK'
<1>1. CASE Return(c, open)
  BY <1>1, ReturnControl
<1>2. CASE call[c].op = "allocate" /\ Goto(c, "level") /\ UNCHANGED <<call, abandoned>>
  <2>1. pc[c] \in OrderSteps
    BY <1>2 DEF ControlOK, HandlerOK
  <2>2. QED
    BY <1>2, <2>1, GotoControl DEF LineSteps, OrderSteps, OuterTx
<1>3. CASE /\ call[c].op = "reserve"
           /\ call' = [call EXCEPT ![c].lines = Tail(@)]
           /\ abandoned' = [abandoned EXCEPT ![c] = open]
           /\ Goto(c, IF Len(call[c].lines) = 1 THEN "reply" ELSE "lookup")
  <2> DEFINE lines == call[c].lines
             rest == Tail(lines)
             new == [call[c] EXCEPT !.lines = rest]
  <2>1. /\ call[c] \in CallRecord
        /\ lines \in Seq(BasketLine)
        /\ Len(lines) > 0
        /\ call[c].wh \in Warehouses
        /\ call[c].order \in Orders
    BY DEF ControlOK, ControlType, HandlerOK, CallRecord, LineSteps
  <2>2. rest \in Seq(BasketLine) /\ (Len(lines) # 1 => Len(rest) > 0)
    BY <2>1, TailFacts
  <2>3. /\ call' = [call EXCEPT ![c] = new]
        /\ abandoned' = [abandoned EXCEPT ![c] = open]
        /\ pc' = [pc EXCEPT ![c] = IF Len(lines) = 1 THEN "reply" ELSE "lookup"]
    BY <1>3 DEF Goto
  <2>4. /\ new \in CallRecord /\ new.lines = rest /\ new.wh = call[c].wh
        /\ new.op = "reserve" /\ new.order = call[c].order
    <3> HIDE DEF rest
    <3> QED
      BY <1>3, <2>1, <2>2 DEF CallRecord
  <2> HIDE DEF new, rest
  <2>5. ControlType'
    BY <2>3, <2>4 DEF ControlOK, ControlType, Steps
  <2>6. HandlerOK'
    <3> SUFFICES ASSUME NEW d \in Clients
                 PROVE  /\ pc'[d] \in LineSteps \cup {"lookup"} =>
                             Len(call'[d].lines) > 0 /\ call'[d].wh \in Warehouses
                        /\ pc'[d] \in LineSteps => Head(call'[d].lines).item \in Items
                        /\ pc'[d] = "insert" => Head(call'[d].lines).qty > 0
                        /\ pc'[d] \in OrderSteps \cup {"lookup"} =>
                             call'[d].op \in {"allocate", "reserve"} /\ call'[d].order \in Orders
                        /\ pc'[d] = "lookup" => call'[d].op = "reserve"
                        /\ pc'[d] = "settle" => call'[d].op \in SettleOps /\ call'[d].order \in Orders
      BY DEF HandlerOK, Adds, Qty
    <3>1. CASE d # c
      <4>1. pc'[d] = pc[d] /\ call'[d] = call[d]
        BY <2>3, <3>1 DEF ControlOK, ControlType
      <4>2. QED
        BY <4>1 DEF ControlOK, HandlerOK, Adds, Qty
    <3>2. CASE d = c
      <4>1. /\ pc'[d] = IF Len(lines) = 1 THEN "reply" ELSE "lookup"
            /\ call'[d] = new
        BY <2>3, <3>2 DEF ControlOK, ControlType
      <4>2. QED
        BY <2>1, <2>2, <2>4, <4>1 DEF LineSteps, OrderSteps, OuterTx
    <3>3. QED
      BY <3>1, <3>2
  <2>7. QED
    BY <2>5, <2>6 DEF ControlOK
<1>4. QED
  BY <1>1, <1>2, <1>3 DEF NextLine

-----------------------------------------------------------------------------
(* Levels *)

GoodLevel(l) == l \in Level /\ l.quantity = l.reserved + l.available

\* A table of good levels, stated row by row.
GoodLevels(f) ==
    /\ f \in [Rows -> Level \cup {None}]
    /\ \A r \in Rows : f[r] = None \/ GoodLevel(f[r])

\* TablesOK says that every row that exists is a good level.
LEMMA GoodLevelsIff ==
    ASSUME TablesOK
    PROVE  GoodLevels(levels)
BY DEF TablesOK, TablesType, Balanced, GoodLevels, GoodLevel

\* What the rows of the reservations table add up to.
ResType == [Statuses -> [Orders -> [Items -> Int]]]

\* The tables other than the levels have their types.
OtherTypes ==
    /\ itemState \in [Items -> Existence] /\ whState \in [Warehouses -> Existence]
    /\ reservations \in ResType /\ ledger \in [Rows -> Int]
    /\ pendingRows \subseteq Orders \X Items /\ negatives \subseteq Items

\* So TablesOK gives both.
LEMMA TablesFacts == TablesOK => GoodLevels(levels) /\ OtherTypes /\ RefersOK
BY GoodLevelsIff DEF TablesOK, TablesType, OtherTypes, ResType

\* And both, with the references intact, are what TablesOK asks for.
LEMMA GoodLevelsSuffice == GoodLevels(levels') /\ OtherTypes' /\ RefersOK' => TablesOK'
BY DEF TablesOK, TablesType, Balanced, GoodLevels, GoodLevel, OtherTypes, ResType

\* A step that changes no table keeps them all well formed.
LEMMA TablesStutter == TablesOK /\ UNCHANGED tables => TablesOK'
BY DEF tables, reservationRows, TablesOK, TablesType, Balanced, RefersOK, KeysExist

\* Rows of the tables that refer to others may only disappear, or change
\* in place, while what they refer to stays.
LEMMA RefersKept ==
    ASSUME RefersOK,
           \A r \in Rows : levels'[r] # None => levels[r] # None \/ KeysExist(r),
           UNCHANGED <<itemState, whState, pendingRows, reservations>>
    PROVE  RefersOK'
BY DEF RefersOK, KeysExist

\* Replacing one row of a good table by a good level.
LEMMA SetRow ==
    ASSUME NEW f, GoodLevels(f), NEW r, NEW l, GoodLevel(l)
    PROVE  GoodLevels([f EXCEPT ![r] = l])
BY DEF GoodLevels, GoodLevel

\* Adding and removing stock, first stock, and reserving what is available.
LEMMA ChangeLevel ==
    ASSUME NEW l, GoodLevel(l), NEW q \in Int
    PROVE  GoodLevel(Adjust(l, q)) /\ GoodLevel(Reserve(l, q)) /\ GoodLevel(NewLevel(q))
BY DEF GoodLevel, Level, Adjust, Reserve, NewLevel, LevelOf

\* Settling a reservation, whichever way.
LEMMA SettleGood ==
    ASSUME NEW l, GoodLevel(l), NEW q \in Int, NEW op
    PROVE  GoodLevel(SettleLevel(op, l, q))
BY DEF GoodLevel, Level, SettleLevel, LevelOf

-----------------------------------------------------------------------------
(* Every step keeps the tables well formed *)

\* Stock arrives or leaves: addInventory and removeInventory.
LEMMA AdjustTables ==
    ASSUME TablesOK, ControlOK, NEW c \in Clients,
           CreateTransaction(c) \/ AdjustLevel(c) \/ InsertLevel(c)
    PROVE  TablesOK'
<1>0. GoodLevels(levels) /\ OtherTypes /\ RefersOK
  BY TablesFacts
<1>1. Row(c) \in Rows /\ Qty(c) \in Int
  BY LineFacts DEF CreateTransaction, AdjustLevel, InsertLevel, LineSteps, OuterTx
<1>2. CASE UNCHANGED tables
  BY <1>2, TablesStutter
<1>3. CASE CreateTransaction(c) /\ ~UNCHANGED tables
  <2>1. /\ ledger' = [ledger EXCEPT ![Row(c)] = @ + Qty(c)]
        /\ UNCHANGED <<itemState, whState, levels, reservationRows>>
    BY <1>3 DEF CreateTransaction, Finish
  <2>2. ledger[Row(c)] + Qty(c) \in Int
    BY <1>0, <1>1 DEF OtherTypes
  <2>3. OtherTypes'
    BY <1>0, <2>1, <2>2 DEF OtherTypes, reservationRows
  <2>4. RefersOK'
    BY <1>0, <2>1, RefersKept DEF reservationRows
  <2>5. QED
    BY <1>0, <2>1, <2>3, <2>4, GoodLevelsSuffice
<1>4. CASE AdjustLevel(c) /\ ~UNCHANGED tables
  <2> DEFINE old == levels[Row(c)]
             new == Adjust(old, Qty(c))
  <2>1. /\ old # None
        /\ levels' = [levels EXCEPT ![Row(c)] = new]
        /\ UNCHANGED <<itemState, whState, reservationRows, ledger>>
    BY <1>4 DEF AdjustLevel
  <2>2. GoodLevel(old)
    BY <1>0, <1>1, <2>1 DEF GoodLevels
  <2>3. GoodLevel(new)
    BY <1>1, <2>2, ChangeLevel
  <2>4. GoodLevels(levels')
    BY <1>0, <2>1, <2>3, SetRow
  <2>5. RefersOK'
    <3>1. \A r \in Rows : levels'[r] # None => levels[r] # None
      BY <1>0, <2>1 DEF GoodLevels
    <3>2. QED
      BY <1>0, <2>1, <3>1, RefersKept DEF reservationRows
  <2>6. QED
    BY <1>0, <2>1, <2>4, <2>5, GoodLevelsSuffice DEF OtherTypes, reservationRows
<1>5. CASE InsertLevel(c) /\ ~UNCHANGED tables
  <2>1. /\ levels' = [levels EXCEPT ![Row(c)] = NewLevel(Qty(c))]
        /\ KeysExist(Row(c))
        /\ UNCHANGED <<itemState, whState, reservationRows, ledger>>
    BY <1>5 DEF InsertLevel, Finish
  <2>2. GoodLevel(NewLevel(Qty(c)))
    BY <1>1 DEF GoodLevel, NewLevel, Level, LevelOf
  <2>3. GoodLevels(levels')
    BY <1>0, <2>1, <2>2, SetRow
  <2>4. RefersOK'
    <3>1. \A r \in Rows : levels'[r] # None => levels[r] # None \/ KeysExist(r)
      BY <1>0, <2>1 DEF GoodLevels
    <3>2. QED
      BY <1>0, <2>1, <3>1, RefersKept DEF reservationRows
  <2>5. QED
    BY <1>0, <2>1, <2>3, <2>4, GoodLevelsSuffice DEF OtherTypes, reservationRows
<1>6. QED
  BY <1>2, <1>3, <1>4, <1>5

\* A reservation takes available stock only, and records it as pending.
LEMMA AllocateTables ==
    ASSUME TablesOK, ControlOK, NEW c \in Clients, AllocateInventory(c)
    PROVE  TablesOK'
<1>0. GoodLevels(levels) /\ OtherTypes /\ RefersOK
  BY TablesFacts
<1>1. Row(c) \in Rows /\ Row(c)[1] \in Items /\ Qty(c) \in Int /\ call[c].order \in Orders
  BY LineFacts DEF AllocateInventory, LineSteps, OrderSteps, ControlOK, HandlerOK
<1>2. CASE UNCHANGED tables
  BY <1>2, TablesStutter
<1>3. CASE ~UNCHANGED tables
  <2> DEFINE r == Row(c)
             o == call[c].order
             i == r[1]
  <2>1. /\ levels[r] # None
        /\ levels' = [levels EXCEPT ![r] = Reserve(levels[r], Qty(c))]
        /\ reservations' =
             [reservations EXCEPT !["pending"][o][i] = @ + Qty(c)]
        /\ pendingRows' = pendingRows \cup {<<o, i>>}
        /\ negatives' = IF Qty(c) < 0 THEN negatives \cup {i} ELSE negatives
        /\ UNCHANGED <<itemState, whState, ledger>>
    BY <1>3 DEF AllocateInventory
  <2>2. GoodLevel(levels[r])
    BY <1>0, <1>1, <2>1 DEF GoodLevels
  <2>3. GoodLevel(Reserve(levels[r], Qty(c)))
    BY <1>1, <2>2, ChangeLevel
  <2>4. GoodLevels(levels')
    BY <1>0, <2>1, <2>3, SetRow
  <2>5. reservations' \in ResType /\ \A p \in Orders, j \in Items :
            <<p, j>> # <<o, i>> => reservations'["pending"][p][j] = reservations["pending"][p][j]
    <3> DEFINE pend == reservations["pending"]
               n == pend[o][i] + Qty(c)
    <3>1. pend \in [Orders -> [Items -> Int]]
      BY <1>0 DEF OtherTypes, ResType, Statuses
    <3>2. n \in Int
      BY <1>1, <3>1
    <3>3. reservations' = [reservations EXCEPT !["pending"] = [pend EXCEPT ![o] = [pend[o] EXCEPT ![i] = n]]]
      BY <2>1
    <3> HIDE DEF n
    <3>4. [pend[o] EXCEPT ![i] = n] \in [Items -> Int]
      BY <1>1, <3>1, <3>2
    <3>5. [pend EXCEPT ![o] = [pend[o] EXCEPT ![i] = n]] \in [Orders -> [Items -> Int]]
      BY <3>1, <3>4
    <3>6. QED
      BY <1>0, <1>1, <3>1, <3>3, <3>5 DEF OtherTypes, ResType, Statuses
  <2>6. OtherTypes'
    BY <1>0, <1>1, <2>1, <2>5 DEF OtherTypes
  <2>7. RefersOK'
    <3>1. \A q \in Rows : levels'[q] # None => levels[q] # None
      BY <1>0, <2>1 DEF GoodLevels
    <3>2. itemState[i] = "live"
      BY <1>0, <1>1, <2>1 DEF RefersOK, KeysExist
    <3>3. QED
      BY <1>0, <2>1, <2>5, <3>1, <3>2 DEF RefersOK, KeysExist
  <2>8. QED
    BY <2>4, <2>6, <2>7, GoodLevelsSuffice
<1>4. QED
  BY <1>2, <1>3

\* Settling an order moves its pending total to the outcome's.
LEMMA SettledTotals ==
    ASSUME NEW o \in Orders, NEW out \in Statuses \ {"pending"}, reservations \in ResType,
           reservations' = SettledRows(o, out)
    PROVE  /\ reservations' \in ResType
           /\ reservations'["pending"] = [reservations["pending"] EXCEPT ![o] = [i \in Items |-> 0]]
           /\ \A i \in Items : reservations'[out][o][i] =
                                  reservations[out][o][i] + reservations["pending"][o][i]
           /\ \A p \in Orders \ {o}, i \in Items, s \in Statuses :
                 reservations'[s][p][i] = reservations[s][p][i]
           /\ \A i \in Items, s \in Statuses \ {"pending", out} :
                 reservations'[s][o][i] = reservations[s][o][i]
<1> DEFINE held == reservations["pending"][o]
           zero == [i \in Items |-> 0]
           done == reservations[out][o]
           sum  == [i \in Items |-> done[i] + held[i]]
           pend == [reservations["pending"] EXCEPT ![o] = zero]
           outs == [reservations[out] EXCEPT ![o] = sum]
<1>1. held \in [Items -> Int] /\ done \in [Items -> Int]
  BY DEF ResType, Statuses
<1>2. reservations' = [reservations EXCEPT !["pending"][o] = zero,
                         ![out][o] = [i \in Items |-> @[i] + held[i]]]
  BY DEF SettledRows
<1>3. reservations' = [[reservations EXCEPT !["pending"] = pend] EXCEPT ![out] = outs]
  BY <1>2 DEF ResType
<1>4. zero \in [Items -> Int] /\ sum \in [Items -> Int]
  BY <1>1
<1>5. pend \in [Orders -> [Items -> Int]] /\ outs \in [Orders -> [Items -> Int]]
  BY <1>4 DEF ResType, Statuses
<1>6. /\ \A p \in Orders \ {o} : pend[p] = reservations["pending"][p] /\ outs[p] = reservations[out][p]
      /\ outs[o] = sum
  BY DEF ResType, Statuses
<1>7. \A i \in Items : sum[i] = reservations[out][o][i] + reservations["pending"][o][i]
  OBVIOUS
<1>8. pend = [reservations["pending"] EXCEPT ![o] = [i \in Items |-> 0]]
  OBVIOUS
<1> HIDE DEF pend, outs, sum
<1>9. /\ reservations'["pending"] = pend /\ reservations'[out] = outs
      /\ \A s \in Statuses \ {"pending", out} : reservations'[s] = reservations[s]
      /\ reservations' \in ResType
  BY <1>3, <1>5 DEF ResType, Statuses
<1>10. \A i \in Items : reservations'[out][o][i] =
                           reservations[out][o][i] + reservations["pending"][o][i]
  BY <1>6, <1>7, <1>9
<1>11. ASSUME NEW p \in Orders \ {o}, NEW i \in Items, NEW s \in Statuses
       PROVE  reservations'[s][p][i] = reservations[s][p][i]
  BY <1>6, <1>9
<1>12. QED
  BY <1>8, <1>9, <1>10, <1>11

\* What a settlement that finds pending rows does.
LEMMA SettleFacts ==
    ASSUME TablesOK, ControlOK, NEW c \in Clients, Settle(c), ~UNCHANGED tables
    PROVE  /\ call[c].order \in Orders
           /\ Outcome[call[c].op] \in Statuses \ {"pending"}
           /\ levels' = SettledLevels(call[c].op, reservations["pending"][call[c].order])
           /\ reservations' = SettledRows(call[c].order, Outcome[call[c].op])
           /\ pendingRows' = {row \in pendingRows : row[1] # call[c].order}
           /\ UNCHANGED <<itemState, whState, negatives, ledger>>
<1>1. call[c].op \in SettleOps /\ call[c].order \in Orders
  BY DEF Settle, ControlOK, HandlerOK
<1>2. QED
  BY <1>1 DEF Settle, Outcome, Statuses, SettleOps

\* So the tables stay well formed.
LEMMA SettleTables ==
    ASSUME TablesOK, ControlOK, NEW c \in Clients, Settle(c)
    PROVE  TablesOK'
<1>0. GoodLevels(levels) /\ OtherTypes /\ RefersOK
  BY TablesFacts
<1>1. CASE UNCHANGED tables
  BY <1>1, TablesStutter
<1>2. CASE ~UNCHANGED tables
  <2> DEFINE op   == call[c].op
             o    == call[c].order
             held == reservations["pending"][o]
             out  == Outcome[op]
  <2>1. /\ o \in Orders /\ out \in Statuses \ {"pending"}
        /\ levels' = SettledLevels(op, held)
        /\ reservations' = SettledRows(o, out)
        /\ pendingRows' = {row \in pendingRows : row[1] # o}
        /\ UNCHANGED <<itemState, whState, negatives, ledger>>
    BY <1>2, SettleFacts
  <2> HIDE DEF o, out, op
  <2>2. held \in [Items -> Int]
    BY <1>0, <2>1 DEF OtherTypes, ResType, Statuses
  <2>3. GoodLevels(levels')
    <3>1. \A r \in Rows : levels'[r] = None \/ GoodLevel(levels'[r])
      <4> TAKE r \in Rows
      <4>1. CASE levels[r] = None
        BY <2>1, <4>1 DEF SettledLevels
      <4>2. CASE levels[r] # None
        <5>1. GoodLevel(levels[r])
          BY <1>0, <4>2 DEF GoodLevels
        <5>2. held[r[1]] \in Int
          BY <2>2 DEF Rows
        <5>3. GoodLevel(SettleLevel(op, levels[r], held[r[1]]))
          BY <5>1, <5>2, SettleGood
        <5>4. QED
          BY <2>1, <4>2, <5>3 DEF SettledLevels
      <4>3. QED
        BY <4>1, <4>2
    <3>2. levels' = [r \in Rows |-> levels'[r]]
      BY <2>1 DEF SettledLevels
    <3>3. QED
      BY <3>1, <3>2 DEF GoodLevels, GoodLevel
  <2>4. /\ reservations' \in ResType
        /\ reservations'["pending"] = [reservations["pending"] EXCEPT ![o] = [i \in Items |-> 0]]
    BY <1>0, <2>1, SettledTotals DEF OtherTypes
  <2>5. OtherTypes'
    BY <1>0, <2>1, <2>4 DEF OtherTypes
  <2>6. RefersOK'
    <3>1. \A r \in Rows : levels'[r] # None => KeysExist(r)'
      BY <1>0, <2>1 DEF SettledLevels, RefersOK, KeysExist
    <3>2. ASSUME NEW p \in Orders, NEW i \in Items
          PROVE  /\ <<p, i>> \in pendingRows' => itemState'[i] = "live"
                 /\ <<p, i>> \notin pendingRows' => reservations'["pending"][p][i] = 0
      <4>1. <<p, i>> \in pendingRows' <=> <<p, i>> \in pendingRows /\ p # o
        BY <2>1
      <4>2. reservations'["pending"][p][i] = IF p = o THEN 0 ELSE reservations["pending"][p][i]
        BY <1>0, <2>4 DEF OtherTypes, ResType, Statuses
      <4>3. QED
        BY <1>0, <2>1, <4>1, <4>2 DEF RefersOK
    <3>3. QED
      BY <3>1, <3>2 DEF RefersOK
  <2>7. QED
    BY <2>3, <2>5, <2>6, GoodLevelsSuffice
<1>3. QED
  BY <1>1, <1>2

\* Deleting an item or a warehouse removes rows and changes no other.
LEMMA DeleteTables ==
    ASSUME TablesOK,
           \/ \E i \in Items : CreateItem(i) \/ DeleteItem(i)
           \/ \E w \in Warehouses : CreateWarehouse(w) \/ DeleteWarehouse(w)
    PROVE  TablesOK'
<1>0. GoodLevels(levels) /\ OtherTypes /\ RefersOK
  BY TablesFacts
<1>1. ASSUME NEW i \in Items, CreateItem(i) PROVE TablesOK'
  <2>1. /\ itemState' = [itemState EXCEPT ![i] = "live"]
        /\ UNCHANGED <<whState, levels, reservationRows, ledger>>
    BY <1>1 DEF CreateItem
  <2>2. OtherTypes'
    BY <1>0, <2>1 DEF OtherTypes, Existence, reservationRows
  <2>3. RefersOK'
    BY <1>0, <2>1 DEF RefersOK, KeysExist, OtherTypes, Rows, reservationRows
  <2>4. QED
    BY <1>0, <2>1, <2>2, <2>3, GoodLevelsSuffice
<1>2. ASSUME NEW w \in Warehouses, CreateWarehouse(w) PROVE TablesOK'
  <2>1. /\ whState' = [whState EXCEPT ![w] = "live"]
        /\ UNCHANGED <<itemState, levels, reservationRows, ledger>>
    BY <1>2 DEF CreateWarehouse
  <2>2. OtherTypes'
    BY <1>0, <2>1 DEF OtherTypes, Existence, reservationRows
  <2>3. RefersOK'
    BY <1>0, <2>1 DEF RefersOK, KeysExist, OtherTypes, Rows, reservationRows
  <2>4. QED
    BY <1>0, <2>1, <2>2, <2>3, GoodLevelsSuffice
<1>3. ASSUME NEW i \in Items, DeleteItem(i) PROVE TablesOK'
  <2>1. GoodLevels(levels')
    BY <1>0, <1>3 DEF DeleteItem, GoodLevels
  <2>2. reservations' \in ResType
    BY <1>0, <1>3 DEF DeleteItem, OtherTypes, ResType
  <2>3. OtherTypes'
    BY <1>0, <1>3, <2>2 DEF DeleteItem, OtherTypes, Existence
  <2>4. RefersOK'
    <3>1. \A r \in Rows : levels'[r] # None => KeysExist(r)'
      BY <1>0, <1>3 DEF DeleteItem, RefersOK, KeysExist, OtherTypes, Rows
    <3>2. ASSUME NEW p \in Orders, NEW j \in Items
          PROVE  /\ <<p, j>> \in pendingRows' => itemState'[j] = "live"
                 /\ <<p, j>> \notin pendingRows' => reservations'["pending"][p][j] = 0
      <4>1. <<p, j>> \in pendingRows' <=> <<p, j>> \in pendingRows /\ j # i
        BY <1>3 DEF DeleteItem
      <4>2. reservations'["pending"][p][j] = IF j = i THEN 0 ELSE reservations["pending"][p][j]
        BY <1>0, <1>3 DEF DeleteItem, OtherTypes, ResType, Statuses
      <4>3. itemState'[j] = IF j = i THEN "deleted" ELSE itemState[j]
        BY <1>0, <1>3 DEF DeleteItem, OtherTypes
      <4>4. QED
        BY <1>0, <4>1, <4>2, <4>3 DEF RefersOK
    <3>3. QED
      BY <3>1, <3>2 DEF RefersOK
  <2>5. QED
    BY <2>1, <2>3, <2>4, GoodLevelsSuffice
<1>4. ASSUME NEW w \in Warehouses, DeleteWarehouse(w) PROVE TablesOK'
  <2>1. GoodLevels(levels')
    BY <1>0, <1>4 DEF DeleteWarehouse, GoodLevels
  <2>2. OtherTypes'
    BY <1>0, <1>4 DEF DeleteWarehouse, OtherTypes, Existence, reservationRows
  <2>3. RefersOK'
    BY <1>0, <1>4 DEF DeleteWarehouse, RefersOK, KeysExist, OtherTypes, Rows, reservationRows
  <2>4. QED
    BY <2>1, <2>2, <2>3, GoodLevelsSuffice
<1>5. QED
  BY <1>1, <1>2, <1>3, <1>4

\* Empty tables are well formed, which is what a restart leaves.
LEMMA RestartTables ==
    ASSUME TablesOK, Restart
    PROVE  TablesOK'
<1>1. GoodLevels(levels')
  BY DEF Restart, GoodLevels
<1>2. OtherTypes'
  BY DEF Restart, TablesOK, TablesType, Existence, OtherTypes, NoReservations, ResType
<1>3. RefersOK'
  BY DEF Restart, RefersOK, NoReservations, Statuses
<1>4. QED
  BY <1>1, <1>2, <1>3, GoodLevelsSuffice

-----------------------------------------------------------------------------
(* Every step keeps the handlers well formed *)

\* What a request that is at a step needs.
Fits(step, r) ==
    /\ step \in LineSteps \cup {"lookup"} => Len(r.lines) > 0 /\ r.wh \in Warehouses
    /\ step \in LineSteps => Head(r.lines).item \in Items
    /\ step = "insert" => Head(r.lines).qty > 0
    /\ step \in OrderSteps \cup {"lookup"} =>
         r.op \in {"allocate", "reserve"} /\ r.order \in Orders
    /\ step = "lookup" => r.op = "reserve"
    /\ step = "settle" => r.op \in SettleOps /\ r.order \in Orders

\* A request names a step whose arguments it carries.
LEMMA RequestFacts ==
    ASSUME NEW r \in Requests
    PROVE  r \in CallRecord /\ FirstStep(r) \in Steps /\ Fits(FirstStep(r), r)
<1>0. ASSUME NEW l \in Line
      PROVE  /\ <<l>> \in Seq(BasketLine) /\ Len(<<l>>) = 1
             /\ Head(<<l>>) = l /\ l.item \in Items
  BY <1>0 DEF Line, BasketLine
<1>1. CASE \E w \in Warehouses, l \in Line : r = Request("adjust", w, None, <<l>>)
  <2>1. PICK w \in Warehouses, l \in Line : r = Request("adjust", w, None, <<l>>)
    BY <1>1
  <2>2. r \in CallRecord /\ r.op = "adjust" /\ r.lines = <<l>> /\ r.wh = w
    BY <1>0, <2>1 DEF Request, CallRecord
  <2>3. FirstStep(r) \in {"level", "begin"}
    BY <2>2 DEF FirstStep, SettleOps
  <2>4. QED
    BY <1>0, <2>2, <2>3 DEF Fits, Steps, LineSteps, OrderSteps, OuterTx
<1>2. CASE \E w \in Warehouses, o \in Orders, l \in Line :
             r = Request("allocate", w, o, <<l>>)
  <2>1. PICK w \in Warehouses, o \in Orders, l \in Line :
             r = Request("allocate", w, o, <<l>>)
    BY <1>2
  <2>2. r \in CallRecord /\ r.op = "allocate" /\ r.lines = <<l>> /\ r.wh = w /\ r.order = o
    BY <1>0, <2>1 DEF Request, CallRecord
  <2>3. FirstStep(r) = "precheck"
    BY <2>2 DEF FirstStep, SettleOps
  <2>4. QED
    BY <1>0, <2>2, <2>3 DEF Fits, Steps, LineSteps, OrderSteps, OuterTx
<1>3. CASE \E w \in Warehouses, o \in Orders, b \in Baskets :
             r = Request("reserve", w, o, b)
  <2>1. PICK w \in Warehouses, o \in Orders, b \in Baskets :
             r = Request("reserve", w, o, b)
    BY <1>3
  <2>2. b \in Seq(BasketLine)
    BY ConstantsAssumption
  <2>3. r \in CallRecord /\ r.op = "reserve" /\ r.lines = b /\ r.wh = w /\ r.order = o
    BY <2>1, <2>2 DEF Request, CallRecord
  <2>4. FirstStep(r) = IF b = <<>> THEN "reply" ELSE "lookup"
    BY <2>3 DEF FirstStep, SettleOps
  <2>5. b # <<>> => Len(b) > 0
    BY <2>2
  <2>6. QED
    BY <2>3, <2>4, <2>5 DEF Fits, Steps, LineSteps, OrderSteps, OuterTx
<1>4. CASE \E op \in SettleOps, o \in Orders : r = Request(op, None, o, <<>>)
  <2>1. PICK op \in SettleOps, o \in Orders : r = Request(op, None, o, <<>>)
    BY <1>4
  <2>2. <<>> \in Seq(BasketLine) /\ Len(<<>>) = 0
    OBVIOUS
  <2>3. r \in CallRecord /\ r.op = op /\ r.order = o
    BY <2>1, <2>2 DEF Request, CallRecord
  <2>4. FirstStep(r) = "settle"
    BY <2>3 DEF FirstStep, SettleOps
  <2>5. QED
    BY <2>3, <2>4 DEF Fits, Steps, LineSteps, OrderSteps, OuterTx
<1>5. \/ \E w \in Warehouses, l \in Line : r = Request("adjust", w, None, <<l>>)
      \/ \E w \in Warehouses, o \in Orders, l \in Line : r = Request("allocate", w, o, <<l>>)
      \/ \E w \in Warehouses, o \in Orders, b \in Baskets : r = Request("reserve", w, o, b)
      \/ \E op \in SettleOps, o \in Orders : r = Request(op, None, o, <<>>)
  <2> DEFINE adj(w, l) == Request("adjust", w, None, <<l>>)
             all(w, o, l) == Request("allocate", w, o, <<l>>)
             A == {adj(w, l) : w \in Warehouses, l \in Line}
             B == {all(w, o, l) : w \in Warehouses, o \in Orders, l \in Line}
             C == {Request("reserve", w, o, b) : w \in Warehouses, o \in Orders, b \in Baskets}
             D == {Request(op, None, o, <<>>) : op \in SettleOps, o \in Orders}
  <2>0. Requests = A \cup B \cup C \cup D
    BY DEF Requests
  <2>1. r \in A \cup B \cup C \cup D
    <3> HIDE DEF A, B, C, D
    <3> QED
      BY <2>0
  <2> HIDE DEF adj, all
  <2>2. r \in A => \E w \in Warehouses, l \in Line : r = adj(w, l)
    OBVIOUS
  <2>3. r \in B => \E w \in Warehouses, o \in Orders, l \in Line : r = all(w, o, l)
    OBVIOUS
  <2>4. /\ r \in C => \E w \in Warehouses, o \in Orders, b \in Baskets :
                         r = Request("reserve", w, o, b)
        /\ r \in D => \E op \in SettleOps, o \in Orders : r = Request(op, None, o, <<>>)
    OBVIOUS
  <2> HIDE DEF A, B, C, D
  <2>5. QED
    BY <2>1, <2>2, <2>3, <2>4 DEF adj, all
<1>6. QED
  BY <1>1, <1>2, <1>3, <1>4, <1>5

\* A request arrives.
LEMMA CallControl ==
    ASSUME ControlOK, NEW c \in Clients, Call(c)
    PROVE  ControlOK'
<1>1. PICK r \in Requests : /\ call' = [call EXCEPT ![c] = r]
                            /\ pc' = [pc EXCEPT ![c] = FirstStep(r)]
  BY DEF Call
<1>2. r \in CallRecord /\ FirstStep(r) \in Steps /\ Fits(FirstStep(r), r)
  BY RequestFacts
<1>3. UNCHANGED abandoned
  BY DEF Call
<1>4. ControlType'
  BY <1>1, <1>2, <1>3 DEF ControlOK, ControlType
<1>5. HandlerOK'
  <2>1. \A d \in Clients : Fits(pc'[d], call'[d])
    <3> TAKE d \in Clients
    <3>1. CASE d = c
      BY <1>1, <1>2, <3>1 DEF ControlOK, ControlType
    <3>2. CASE d # c
      <4>1. pc'[d] = pc[d] /\ call'[d] = call[d]
        BY <1>1, <3>2 DEF ControlOK, ControlType
      <4>2. QED
        BY <4>1 DEF ControlOK, HandlerOK, Fits, Adds, Qty
    <3>3. QED
      BY <3>1, <3>2
  <2>2. QED
    BY <2>1 DEF HandlerOK, Fits, Adds, Qty
<1>6. QED
  BY <1>4, <1>5 DEF ControlOK

\* A line whose product is known goes on to the check of its level.
LEMMA FoundControl ==
    ASSUME ControlOK, NEW c \in Clients, pc[c] = "lookup",
           Head(call[c].lines).item \in Items,
           Goto(c, "precheck"), UNCHANGED <<call, abandoned>>
    PROVE  ControlOK'
<1>1. pc' \in [Clients -> Steps]
  BY DEF Goto, ControlOK, ControlType, Steps
<1>2. HandlerOK'
  BY DEF Goto, ControlOK, ControlType, HandlerOK, LineSteps, OrderSteps, OuterTx, Adds, Qty
<1>3. QED
  BY <1>1, <1>2 DEF ControlOK, ControlType

\* A handler takes its next step, or its caller goes away.
LEMMA StepControl ==
    ASSUME ControlOK, NEW c \in Clients, Step(c) \/ Disconnect(c)
    PROVE  ControlOK'
<1>0. /\ abandoned[c] \in OpenTx
      /\ AbandonTx(c, {}) \in OpenTx
      /\ pc[c] \in LineSteps => AbandonTx(c, {Row(c)}) \in OpenTx
  BY OpenTypes
<1>1. ASSUME Finish(c) PROVE ControlOK'
  BY <1>0, <1>1, ReturnControl DEF Finish
<1>2. CASE Disconnect(c)
  BY <1>1, <1>2 DEF Disconnect
<1>3. CASE BeginTx(c)
  BY <1>3, GotoControl DEF BeginTx, LineSteps, OrderSteps, OuterTx
<1>4. CASE Validate(c)
  BY <1>0, <1>1, <1>4, GotoControl, ReturnControl DEF Validate, LineSteps, OrderSteps, OuterTx
<1>5. CASE CreateTransaction(c)
  BY <1>1, <1>5, GotoControl DEF CreateTransaction, LineSteps, OrderSteps, OuterTx
<1>6. CASE AdjustLevel(c)
  BY <1>0, <1>6, ReturnControl DEF AdjustLevel, LineSteps, OuterTx
<1>7. CASE AdjustMissing(c)
  BY <1>1, <1>7, GotoControl DEF AdjustMissing, LineSteps, OrderSteps, OuterTx
<1>8. CASE InsertLevel(c)
  BY <1>0, <1>1, <1>8, ReturnControl DEF InsertLevel, LineSteps, OuterTx
<1>9. CASE LookupLine(c)
  <2>1. CASE Finish(c)
    BY <1>1, <2>1
  <2>2. CASE NextLine(c, FALSE, abandoned[c])
    BY <1>0, <1>9, <2>2, NextLineControl DEF LookupLine
  <2>3. CASE /\ Head(call[c].lines).item # None
             /\ Goto(c, "precheck") /\ UNCHANGED <<call, abandoned>>
    <3>1. call[c].lines \in Seq(BasketLine) /\ Len(call[c].lines) > 0
      BY <1>9 DEF LookupLine, ControlOK, ControlType, HandlerOK, CallRecord
    <3>2. Head(call[c].lines) \in BasketLine
      BY <3>1
    <3>3. Head(call[c].lines).item \in Items
      BY <2>3, <3>2 DEF BasketLine
    <3>4. QED
      BY <1>9, <2>3, <3>3, FoundControl DEF LookupLine
  <2>4. QED
    BY <1>9, <2>1, <2>2, <2>3 DEF LookupLine
<1>10. CASE PreCheck(c)
  BY <1>0, <1>10, GotoControl, NextLineControl DEF PreCheck, LineSteps, OrderSteps
<1>11. CASE AllocateInventory(c)
  BY <1>0, <1>11, NextLineControl DEF AllocateInventory, LineSteps, OrderSteps
<1>12. CASE Reply(c) \/ ReadLevel(c)
  BY <1>1, <1>12 DEF Reply, ReadLevel
<1>13. CASE Settle(c)
  BY <1>0, <1>13, ReturnControl DEF Settle
<1>14. CASE SettleDeadlock(c)
  BY <1>0, <1>14, ReturnControl DEF SettleDeadlock
<1>15. QED
  BY <1>2, <1>3, <1>4, <1>5, <1>6, <1>7, <1>8, <1>9, <1>10, <1>11, <1>12, <1>13, <1>14
  DEF Step

-----------------------------------------------------------------------------
(* Theorems *)

\* The tables a start finds, and the idle handlers, satisfy the invariant.
LEMMA InitInv == Init => IInv
<1> SUFFICES ASSUME Init PROVE IInv
  OBVIOUS
<1>1. TablesType
  BY ConstantsAssumption
  DEF Init, TablesType, Existence, NewLevel, LevelOf, Level, NoReservations
<1>2. Balanced /\ RefersOK
  <2>1. Balanced
    BY ConstantsAssumption DEF Init, Balanced, NewLevel, LevelOf
  <2>2. RefersOK
    <3>1. ASSUME NEW r \in Rows, levels[r] # None PROVE KeysExist(r)
      <4>1. PICK i \in Items, w \in Warehouses : r = <<i, w>>
        BY DEF Rows
      <4>2. InitialStock[<<i, w>>] # 0
        BY <3>1, <4>1 DEF Init
      <4>3. itemState[i] = "live" /\ whState[w] = "live"
        BY <4>2 DEF Init
      <4>4. QED
        BY <4>1, <4>3 DEF KeysExist
    <3>2. QED
      BY <3>1 DEF Init, RefersOK, NoReservations, Statuses
  <2>3. QED
    BY <2>1, <2>2
<1>3. ControlType
  BY NoCallType DEF Init, ControlType, Steps, NothingOpen, OpenTx
<1>4. HandlerOK
  BY DEF Init, HandlerOK, LineSteps, OrderSteps, OuterTx
<1>5. QED
  BY <1>1, <1>2, <1>3, <1>4 DEF Init, IInv, TablesOK, ControlOK

\* Every step of the service keeps it: a request's arrival, each handler step,
\* a disconnect, the catalogue's creations and deletions, a restart.
LEMMA NextInv == IInv /\ [Next]_vars => IInv'
<1> SUFFICES ASSUME IInv, [Next]_vars PROVE IInv'
  OBVIOUS
<1>0. TablesOK /\ ControlOK /\ calls \in Nat /\ restarts \in Nat
  BY DEF IInv
<1>1. ASSUME NEW c \in Clients, Call(c) PROVE IInv'
  <2>1. TablesOK'
    BY <1>0, <1>1, TablesStutter DEF Call
  <2>2. ControlOK'
    BY <1>0, <1>1, CallControl
  <2>3. QED
    BY <1>0, <1>1, <2>1, <2>2 DEF IInv, Call
<1>2. ASSUME NEW c \in Clients, Step(c) \/ Disconnect(c) PROVE IInv'
  <2>1. TablesOK'
    <3>1. CASE CreateTransaction(c) \/ AdjustLevel(c) \/ InsertLevel(c)
      BY <1>0, <3>1, AdjustTables
    <3>2. CASE AllocateInventory(c)
      BY <1>0, <3>2, AllocateTables
    <3>3. CASE Settle(c)
      BY <1>0, <3>3, SettleTables
    <3>4. CASE UNCHANGED tables
      BY <1>0, <3>4, TablesStutter
    <3>5. QED
      BY <1>2, <3>1, <3>2, <3>3, <3>4
      DEF Step, Disconnect, BeginTx, Validate, AdjustMissing, LookupLine, PreCheck,
          Reply, ReadLevel, SettleDeadlock, Finish
  <2>2. ControlOK'
    BY <1>0, <1>2, StepControl
  <2>3. UNCHANGED <<calls, restarts>>
    BY <1>2 DEF Step, Disconnect
  <2>4. QED
    BY <1>0, <2>1, <2>2, <2>3 DEF IInv
<1>3. ASSUME UNCHANGED control, TablesOK', UNCHANGED <<calls, restarts>> PROVE IInv'
  BY <1>0, <1>3 DEF IInv, control, ControlOK, ControlType, HandlerOK, Adds, Qty
<1>4. CASE \/ \E i \in Items : CreateItem(i) \/ DeleteItem(i)
           \/ \E w \in Warehouses : CreateWarehouse(w) \/ DeleteWarehouse(w)
  <2>1. TablesOK'
    BY <1>0, <1>4, DeleteTables
  <2>2. UNCHANGED control /\ UNCHANGED <<calls, restarts>>
    BY <1>4 DEF CreateItem, DeleteItem, CreateWarehouse, DeleteWarehouse
  <2>3. QED
    BY <1>3, <2>1, <2>2
<1>5. CASE Restart
  <2>1. TablesOK'
    BY <1>0, <1>5, RestartTables
  <2>2. ControlType'
    BY <1>5, NoCallType DEF Restart, ControlType, Steps, NothingOpen, OpenTx
  <2>3. HandlerOK'
    BY <1>5 DEF Restart, HandlerOK, LineSteps, OrderSteps, OuterTx
  <2>4. calls' \in Nat /\ restarts' \in Nat
    BY <1>0, <1>5 DEF Restart
  <2>5. QED
    BY <2>1, <2>2, <2>3, <2>4 DEF IInv, ControlOK
<1>6. CASE UNCHANGED vars
  BY <1>0, <1>3, <1>6, TablesStutter DEF vars
<1>7. QED
  BY <1>1, <1>2, <1>4, <1>5, <1>6 DEF Next

\* The inductive invariant holds in every reachable state: levels that exist
\* are balanced, references are intact, and every handler has what its step
\* needs.
THEOREM Invariance == Spec => []IInv
BY InitInv, NextInv, PTL DEF Spec

\* Every table and every handler's state keeps its type, for quantities of any
\* sign, and no row is left referring to what a delete or a restart removed.
THEOREM TypeCorrect == Spec => []TypeOK
<1>1. IInv => TypeOK
  BY DEF IInv, TablesOK, ControlOK, TypeOK
<1>2. QED
  BY <1>1, Invariance, PTL

\* The quantity, reserved and available columns of a level always agree,
\* whatever adjust, allocate, release, commit and cancel requests interleave,
\* in however many warehouses and callers, with restarts in between.
THEOREM AlwaysBalanced == Spec => []Balanced
<1>1. IInv => Balanced
  BY DEF IInv, TablesOK
<1>2. QED
  BY <1>1, Invariance, PTL

-----------------------------------------------------------------------------
(* Nothing is oversold and nothing stays reserved *)

\* The total that the pending rows of res hold of item i.
Pending(res, i) == SumFunctionOnSet([o \in Orders |-> res["pending"][o][i]], Orders)

\* Totals are integers, natural when every row is, and zero when no row holds
\* anything.
LEMMA PendingType ==
    ASSUME NEW res \in ResType, NEW i \in Items
    PROVE  /\ Pending(res, i) \in Int
           /\ (\A o \in Orders : res["pending"][o][i] >= 0) => Pending(res, i) >= 0
           /\ (\A o \in Orders : res["pending"][o][i] = 0) => Pending(res, i) = 0
<1> DEFINE f == [o \in Orders |-> res["pending"][o][i]]
<1>1. \A o \in Orders : f[o] \in Int
  BY DEF ResType, Statuses
<1>2. SumFunctionOnSet(f, Orders) \in Int
  <2> HIDE DEF f
  <2> QED
    BY <1>1, FiniteTables, SumType
<1>n. ASSUME \A o \in Orders : res["pending"][o][i] >= 0 PROVE SumFunctionOnSet(f, Orders) >= 0
  <2>1. \A o \in Orders : f[o] \in Nat
    BY <1>1, <1>n
  <2>2. SumFunctionOnSet(f, Orders) \in Nat
    <3> HIDE DEF f
    <3> QED
      BY <2>1, FiniteTables, SumType
  <2>3. QED
    BY <2>2
<1>3. ASSUME \A o \in Orders : res["pending"][o][i] = 0 PROVE SumFunctionOnSet(f, Orders) = 0
  <2>1. \A o \in Orders : f[o] = 0
    BY <1>3
  <2> HIDE DEF f
  <2> QED
    BY <2>1, FiniteTables, SumZero
<1>4. QED
  BY <1>2, <1>n, <1>3 DEF Pending

\* A change to the rows of one order changes the total by as much.
LEMMA PendingChange ==
    ASSUME NEW res \in ResType, NEW new \in ResType, NEW i \in Items, NEW p \in Orders,
           \A o \in Orders \ {p} : new["pending"][o][i] = res["pending"][o][i]
    PROVE  Pending(new, i) = Pending(res, i) + (new["pending"][p][i] - res["pending"][p][i])
<1> DEFINE f == [o \in Orders |-> res["pending"][o][i]]
           g == [o \in Orders |-> new["pending"][o][i]]
<1>1. \A o \in Orders : f[o] \in Int /\ g[o] \in Int
  BY DEF ResType, Statuses
<1>2. \A o \in Orders \ {p} : g[o] = f[o]
  OBVIOUS
<1>3. f[p] = res["pending"][p][i] /\ g[p] = new["pending"][p][i]
  OBVIOUS
<1>4. SumFunctionOnSet(g, Orders) = SumFunctionOnSet(f, Orders) + (g[p] - f[p])
  <2> HIDE DEF f, g
  <2> QED
    BY <1>1, <1>2, FiniteTables, SumChange
<1>5. QED
  BY <1>3, <1>4 DEF Pending

\* Rows that stay as they are keep their total.
LEMMA PendingSame ==
    ASSUME NEW res, NEW new, NEW i,
           \A o \in Orders : new["pending"][o][i] = res["pending"][o][i]
    PROVE  Pending(new, i) = Pending(res, i)
<1>1. [o \in Orders |-> new["pending"][o][i]] = [o \in Orders |-> res["pending"][o][i]]
  OBVIOUS
<1>2. QED
  BY <1>1 DEF Pending

\* The rows of an item that was never reserved in a negative quantity hold
\* nothing negative.
HeldNonNegative(res, neg) ==
    \A o \in Orders, i \in Items \ neg : res["pending"][o][i] >= 0

\* A level promises only what it has, and shows only what is pending.
SoundRow(level, pending) == level.available >= 0 /\ level.reserved <= pending

SoundRows(lv, res, neg) ==
    \A r \in Rows : lv[r] # None /\ r[1] \notin neg => SoundRow(lv[r], Pending(res, r[1]))

\* Inductive: the locked check keeps available from falling below zero only
\* while what is later given back is not negative.
Sound == SoundRows(levels, reservations, negatives) /\ HeldNonNegative(reservations, negatives)

\* What Sound says of the next state.
LEMMA SoundPrime ==
    ASSUME SoundRows(levels', reservations', negatives'), HeldNonNegative(reservations', negatives')
    PROVE  Sound'
BY DEF Sound, SoundRows, HeldNonNegative, Pending

\* Rows that change in place, appear sound or disappear.
LEMMA SoundLevels ==
    ASSUME Sound, UNCHANGED <<reservations, negatives>>,
           \A r \in Rows : levels'[r] # None /\ r[1] \notin negatives =>
               levels'[r] = levels[r] \/ SoundRow(levels'[r], Pending(reservations, r[1]))
    PROVE  Sound'
<1>1. SoundRows(levels', reservations, negatives)
  BY DEF Sound, SoundRows
<1>2. QED
  BY <1>1, SoundPrime DEF Sound

\* Stock arrives or leaves.
LEMMA AdjustSound ==
    ASSUME IInv, Sound, NEW c \in Clients, AdjustLevel(c) \/ InsertLevel(c)
    PROVE  Sound'
<1>0. GoodLevels(levels) /\ OtherTypes /\ ControlOK
  BY TablesFacts DEF IInv
<1>1. Row(c) \in Rows /\ Qty(c) \in Int /\ Row(c)[1] \in Items
  BY <1>0, LineFacts DEF AdjustLevel, InsertLevel, LineSteps, OuterTx
<1>2. UNCHANGED <<reservations, negatives>>
  BY DEF AdjustLevel, InsertLevel, Finish, tables, reservationRows
<1>3. CASE UNCHANGED levels
  BY <1>2, <1>3, SoundLevels
<1>4. CASE AdjustLevel(c) /\ ~UNCHANGED levels
  <2> DEFINE new == Adjust(levels[Row(c)], Qty(c))
  <2>1. levels[Row(c)] # None /\ new.available >= 0 /\ levels' = [levels EXCEPT ![Row(c)] = new]
    BY <1>4 DEF AdjustLevel, tables
  <2>2. new.reserved = levels[Row(c)].reserved
    BY DEF Adjust, LevelOf
  <2> HIDE DEF new
  <2>3. \A r \in Rows : levels'[r] = IF r = Row(c) THEN new ELSE levels[r]
    BY <1>0, <2>1 DEF GoodLevels
  <2>4. Row(c)[1] \notin negatives => SoundRow(new, Pending(reservations, Row(c)[1]))
    BY <1>1, <2>1, <2>2 DEF Sound, SoundRows, SoundRow
  <2>5. QED
    BY <1>2, <2>3, <2>4, SoundLevels
<1>5. CASE InsertLevel(c) /\ ~UNCHANGED levels
  <2> DEFINE new == NewLevel(Qty(c))
  <2>1. levels' = [levels EXCEPT ![Row(c)] = new] /\ Qty(c) > 0
    BY <1>0, <1>5 DEF InsertLevel, Finish, tables, ControlOK, HandlerOK, Adds
  <2>2. new.reserved = 0 /\ new.available >= 0
    BY <1>1, <2>1 DEF NewLevel, LevelOf
  <2> HIDE DEF new
  <2>3. \A r \in Rows : levels'[r] = IF r = Row(c) THEN new ELSE levels[r]
    BY <1>0, <2>1 DEF GoodLevels
  <2>4. Row(c)[1] \notin negatives => SoundRow(new, Pending(reservations, Row(c)[1]))
    <3>1. Row(c)[1] \notin negatives => Pending(reservations, Row(c)[1]) >= 0
      BY <1>0, <1>1, PendingType DEF OtherTypes, Sound, HeldNonNegative
    <3>2. QED
      BY <2>2, <3>1 DEF SoundRow
  <2>5. QED
    BY <1>2, <2>3, <2>4, SoundLevels
<1>6. QED
  BY <1>3, <1>4, <1>5

\* What a reservation that is made does to the totals.
LEMMA AllocateFacts ==
    ASSUME IInv, IInv', NEW c \in Clients, AllocateInventory(c), ~UNCHANGED tables
    PROVE  /\ call[c].order \in Orders /\ Row(c) \in Rows /\ Row(c)[1] \in Items
           /\ Qty(c) \in Int
           /\ levels[Row(c)] \in Level /\ levels[Row(c)] # None
           /\ levels[Row(c)].available >= Qty(c)
           /\ levels' = [levels EXCEPT ![Row(c)] = Reserve(levels[Row(c)], Qty(c))]
           /\ \A r \in Rows \ {Row(c)} : levels'[r] = levels[r]
           /\ levels'[Row(c)] = LevelOf(levels[Row(c)].quantity, levels[Row(c)].reserved + Qty(c),
                                        levels[Row(c)].available - Qty(c))
           /\ reservations \in ResType /\ reservations' \in ResType
           /\ reservations'["pending"] = [reservations["pending"] EXCEPT
                                            ![call[c].order][Row(c)[1]] = @ + Qty(c)]
           /\ reservations'["pending"][call[c].order][Row(c)[1]] =
                reservations["pending"][call[c].order][Row(c)[1]] + Qty(c)
           /\ \A p \in Orders, j \in Items : p # call[c].order \/ j # Row(c)[1] =>
                reservations'["pending"][p][j] = reservations["pending"][p][j]
           /\ Pending(reservations', Row(c)[1]) = Pending(reservations, Row(c)[1]) + Qty(c)
           /\ \A j \in Items \ {Row(c)[1]} : Pending(reservations', j) = Pending(reservations, j)
           /\ negatives' = IF Qty(c) < 0 THEN negatives \cup {Row(c)[1]} ELSE negatives
           /\ UNCHANGED whState
<1> DEFINE r == Row(c)
           o == call[c].order
           i == r[1]
           q == Qty(c)
<1>0. /\ reservations \in ResType /\ reservations' \in ResType
      /\ GoodLevels(levels) /\ ControlOK
  BY TablesFacts DEF IInv, OtherTypes, TablesOK, TablesType, ResType
<1>1. r \in Rows /\ i \in Items /\ q \in Int
  BY <1>0, LineFacts DEF AllocateInventory, LineSteps, OrderSteps
<1>2. o \in Orders
  BY <1>0 DEF ControlOK, HandlerOK, OrderSteps, AllocateInventory
<1>3. /\ levels[r] # None /\ levels[r].available >= q
      /\ levels' = [levels EXCEPT ![r] = Reserve(levels[r], q)]
      /\ reservations' = [reservations EXCEPT !["pending"][o][i] = @ + q]
      /\ negatives' = IF q < 0 THEN negatives \cup {i} ELSE negatives
      /\ whState' = whState
  BY DEF AllocateInventory, Enough
<1> HIDE DEF r, o, i, q
<1>4. /\ reservations'["pending"][o][i] = reservations["pending"][o][i] + q
      /\ \A p \in Orders, j \in Items :
           p # o \/ j # i => reservations'["pending"][p][j] = reservations["pending"][p][j]
  BY <1>0, <1>1, <1>2, <1>3 DEF ResType, Statuses
<1>5. Pending(reservations', i) = Pending(reservations, i) + q
  <2>1. Pending(reservations', i) = Pending(reservations, i)
            + (reservations'["pending"][o][i] - reservations["pending"][o][i])
    BY <1>0, <1>1, <1>2, <1>4, PendingChange
  <2>2. reservations["pending"][o][i] \in Int
    BY <1>0, <1>1, <1>2 DEF ResType, Statuses
  <2>3. Pending(reservations, i) \in Int
    BY <1>0, <1>1, PendingType
  <2>4. QED
    BY <1>1, <1>4, <2>1, <2>2, <2>3
<1>6. \A j \in Items \ {i} : Pending(reservations', j) = Pending(reservations, j)
  BY <1>4, PendingSame
<1>7. levels[r] \in Level
  BY <1>0, <1>1, <1>3 DEF GoodLevels
<1>8. /\ levels'[r] = LevelOf(levels[r].quantity, levels[r].reserved + q, levels[r].available - q)
      /\ \A s \in Rows \ {r} : levels'[s] = levels[s]
  BY <1>0, <1>1, <1>3 DEF GoodLevels, Reserve
<1>9. reservations'["pending"] = [reservations["pending"] EXCEPT ![o][i] = @ + q]
  BY <1>0, <1>3 DEF ResType, Statuses
<1>10. QED
  BY <1>0, <1>1, <1>2, <1>3, <1>4, <1>5, <1>6, <1>7, <1>8, <1>9 DEF r, o, i, q

\* A reservation of a quantity that is not negative.
LEMMA AllocateSound ==
    ASSUME IInv, IInv', Sound, NEW c \in Clients, AllocateInventory(c), ~UNCHANGED tables
    PROVE  Sound'
<1> DEFINE r == Row(c)
           o == call[c].order
           i == r[1]
           q == Qty(c)
           l == levels[r]
<1>1. /\ o \in Orders /\ r \in Rows /\ i \in Items /\ q \in Int
      /\ l \in Level /\ l # None /\ l.available >= q
      /\ \A s \in Rows \ {r} : levels'[s] = levels[s]
      /\ levels'[r] = LevelOf(l.quantity, l.reserved + q, l.available - q)
      /\ reservations \in ResType
      /\ reservations'["pending"][o][i] = reservations["pending"][o][i] + q
      /\ \A p \in Orders, j \in Items : p # o \/ j # i =>
           reservations'["pending"][p][j] = reservations["pending"][p][j]
      /\ Pending(reservations', i) = Pending(reservations, i) + q
      /\ \A j \in Items \ {i} : Pending(reservations', j) = Pending(reservations, j)
      /\ negatives' = IF q < 0 THEN negatives \cup {i} ELSE negatives
  BY AllocateFacts
<1> HIDE DEF r, o, i, q, l
<1>2. negatives \subseteq negatives' /\ (i \notin negatives' => q >= 0)
  BY <1>1
<1>3. Pending(reservations, i) \in Int
  BY <1>1, PendingType
<1>4. ASSUME NEW s \in Rows, levels'[s] # None, s[1] \notin negatives'
      PROVE  SoundRow(levels'[s], Pending(reservations', s[1]))
  <2>1. s[1] \in Items /\ s[1] \notin negatives
    BY <1>2, <1>4 DEF Rows
  <2>2. CASE s = r
    <3>1. l.available \in Int /\ l.reserved \in Int /\ l.reserved <= Pending(reservations, i)
      BY <1>1, <2>1, <2>2 DEF Level, Sound, SoundRows, SoundRow, l, i
    <3>2. l.available - q >= 0 /\ l.reserved + q <= Pending(reservations, i) + q
      BY <1>1, <1>3, <3>1
    <3>3. levels'[s].available = l.available - q /\ levels'[s].reserved = l.reserved + q
      BY <1>1, <2>2 DEF LevelOf
    <3>4. s[1] = i
      BY <2>2 DEF i
    <3>5. QED
      BY <1>1, <3>2, <3>3, <3>4 DEF SoundRow
  <2>3. CASE s # r
    <3>1. levels'[s] = levels[s]
      BY <1>1, <2>3
    <3>2. SoundRow(levels[s], Pending(reservations, s[1])) /\ levels[s] \in Level
      BY <1>4, <2>1, <3>1 DEF Sound, SoundRows, IInv, TablesOK, TablesType
    <3>3. CASE s[1] # i
      BY <1>1, <2>1, <3>1, <3>2, <3>3
    <3>4. CASE s[1] = i
      <4>1. q >= 0
        BY <1>2, <1>4, <3>4
      <4>2. levels[s].reserved \in Int
        BY <3>2 DEF Level
      <4>3. levels[s].reserved <= Pending(reservations, i) + q
        BY <1>1, <1>3, <3>2, <3>4, <4>1, <4>2 DEF SoundRow
      <4>4. QED
        BY <1>1, <3>1, <3>2, <3>4, <4>3 DEF SoundRow
    <3>5. QED
      BY <3>3, <3>4
  <2>4. QED
    BY <2>2, <2>3
<1>5. ASSUME NEW p \in Orders, NEW j \in Items \ negatives'
      PROVE  reservations'["pending"][p][j] >= 0
  <2>1. reservations["pending"][p][j] >= 0 /\ reservations["pending"][p][j] \in Int
    BY <1>1, <1>2 DEF Sound, HeldNonNegative, ResType, Statuses
  <2>2. CASE p = o /\ j = i
    BY <1>1, <1>2, <2>1, <2>2
  <2>3. CASE p # o \/ j # i
    BY <1>1, <2>1, <2>3
  <2>4. QED
    BY <2>2, <2>3
<1>6. QED
  BY <1>4, <1>5, SoundPrime DEF SoundRows, HeldNonNegative

\* What a settlement does to the totals.
LEMMA SettlePending ==
    ASSUME IInv, IInv', NEW c \in Clients, Settle(c), ~UNCHANGED tables
    PROVE  LET o == call[c].order
               held == reservations["pending"][o]
           IN  /\ o \in Orders /\ held \in [Items -> Int]
               /\ reservations \in ResType /\ reservations' \in ResType
               /\ levels' = SettledLevels(call[c].op, held)
               /\ reservations'["pending"] = [reservations["pending"] EXCEPT ![o] = [j \in Items |-> 0]]
               /\ \A j \in Items : Pending(reservations', j) = Pending(reservations, j) - held[j]
               /\ UNCHANGED <<whState, negatives>>
<1> DEFINE op == call[c].op
           o == call[c].order
           out == Outcome[op]
           held == reservations["pending"][o]
<1>0. reservations \in ResType /\ reservations' \in ResType
  BY TablesFacts DEF IInv, OtherTypes, TablesOK, TablesType, ResType
<1>1. /\ o \in Orders /\ out \in Statuses \ {"pending"}
      /\ levels' = SettledLevels(op, held)
      /\ reservations' = SettledRows(o, out)
      /\ UNCHANGED <<whState, negatives>>
  BY SettleFacts DEF IInv
<1> HIDE DEF op, o, out
<1>2. reservations'["pending"] = [reservations["pending"] EXCEPT ![o] = [j \in Items |-> 0]]
  BY <1>0, <1>1, SettledTotals
<1>3. held \in [Items -> Int]
  BY <1>0, <1>1 DEF ResType, Statuses
<1>4. \A j \in Items : Pending(reservations', j) = Pending(reservations, j) - held[j]
  <2> TAKE j \in Items
  <2>1. /\ reservations'["pending"][o][j] = 0
        /\ \A p \in Orders \ {o} : reservations'["pending"][p][j] = reservations["pending"][p][j]
    BY <1>0, <1>1, <1>2 DEF ResType, Statuses
  <2>2. Pending(reservations', j) = Pending(reservations, j)
            + (reservations'["pending"][o][j] - reservations["pending"][o][j])
    BY <1>0, <1>1, <2>1, PendingChange
  <2>3. Pending(reservations, j) \in Int /\ held[j] \in Int
    BY <1>0, <1>3, PendingType
  <2>4. QED
    BY <2>1, <2>2, <2>3
<1>5. QED
  BY <1>0, <1>1, <1>2, <1>3, <1>4 DEF op, o

\* A settlement takes as much from every row of the item as from the total.
LEMMA SettleSound ==
    ASSUME IInv, IInv', Sound, NEW c \in Clients, Settle(c), ~UNCHANGED tables
    PROVE  Sound'
<1> DEFINE op == call[c].op
           o == call[c].order
           held == reservations["pending"][o]
<1>1. /\ o \in Orders /\ held \in [Items -> Int]
      /\ reservations \in ResType
      /\ levels' = SettledLevels(op, held)
      /\ reservations'["pending"] = [reservations["pending"] EXCEPT ![o] = [j \in Items |-> 0]]
      /\ \A j \in Items : Pending(reservations', j) = Pending(reservations, j) - held[j]
      /\ UNCHANGED negatives
  BY SettlePending
<1>2. \A j \in Items \ negatives : held[j] >= 0
  BY <1>1 DEF Sound, HeldNonNegative
<1> HIDE DEF op, o, held
<1>3. ASSUME NEW s \in Rows, levels'[s] # None, s[1] \notin negatives'
      PROVE  SoundRow(levels'[s], Pending(reservations', s[1]))
  <2> DEFINE l == levels[s]
             h == held[s[1]]
  <2>1. s[1] \in Items \ negatives
    BY <1>1, <1>3 DEF Rows
  <2>2. l # None /\ levels'[s] = SettleLevel(op, l, h)
    BY <1>1, <1>3 DEF SettledLevels
  <2>3. SoundRow(l, Pending(reservations, s[1])) /\ l \in Level
    BY <2>1, <2>2 DEF Sound, SoundRows, IInv, TablesOK, TablesType
  <2>4. h \in Int /\ h >= 0 /\ Pending(reservations, s[1]) \in Int
    BY <1>1, <1>2, <2>1, PendingType
  <2> HIDE DEF l, h
  <2>5. l.available \in Int /\ l.reserved \in Int
    BY <2>3 DEF Level
  <2>6. SoundRow(SettleLevel(op, l, h), Pending(reservations, s[1]) - h)
    BY <2>3, <2>4, <2>5 DEF SoundRow, SettleLevel, LevelOf
  <2>7. QED
    BY <1>1, <2>1, <2>2, <2>6 DEF h
<1>4. ASSUME NEW p \in Orders, NEW j \in Items \ negatives'
      PROVE  reservations'["pending"][p][j] >= 0
  BY <1>1 DEF Sound, HeldNonNegative, ResType, Statuses
<1>5. QED
  BY <1>3, <1>4, SoundPrime DEF SoundRows, HeldNonNegative

\* Deleting and restarting only remove rows.
LEMMA DeleteSound ==
    ASSUME IInv, Sound,
           \/ \E i \in Items : DeleteItem(i)
           \/ \E w \in Warehouses : DeleteWarehouse(w)
           \/ Restart
    PROVE  Sound'
<1>0. reservations \in ResType
  BY TablesFacts DEF IInv, OtherTypes
<1>1. ASSUME NEW i \in Items, DeleteItem(i) PROVE Sound'
  <2>1. \A o \in Orders, j \in Items :
           reservations'["pending"][o][j] = IF j = i THEN 0 ELSE reservations["pending"][o][j]
    BY <1>0, <1>1 DEF DeleteItem, ResType, Statuses
  <2>2. /\ \A r \in Rows : levels'[r] = IF r[1] = i THEN None ELSE levels[r]
        /\ negatives' = negatives \ {i}
    BY <1>1 DEF DeleteItem
  <2>3. ASSUME NEW r \in Rows, levels'[r] # None, r[1] \notin negatives'
        PROVE  SoundRow(levels'[r], Pending(reservations', r[1]))
    <3>1. r[1] \in Items /\ r[1] # i /\ levels'[r] = levels[r] /\ r[1] \notin negatives
      BY <2>2, <2>3 DEF Rows
    <3>2. Pending(reservations', r[1]) = Pending(reservations, r[1])
      BY <2>1, <3>1, PendingSame
    <3>3. QED
      BY <2>3, <3>1, <3>2 DEF Sound, SoundRows
  <2>4. HeldNonNegative(reservations', negatives')
    BY <2>1, <2>2 DEF Sound, HeldNonNegative
  <2>5. QED
    BY <2>3, <2>4, SoundPrime DEF SoundRows
<1>2. ASSUME NEW w \in Warehouses, DeleteWarehouse(w) PROVE Sound'
  <2>1. \A r \in Rows : levels'[r] # None => levels'[r] = levels[r]
    BY <1>2 DEF DeleteWarehouse
  <2>2. UNCHANGED <<reservations, negatives>>
    BY <1>2 DEF DeleteWarehouse, reservationRows
  <2>3. QED
    BY <2>1, <2>2, SoundLevels
<1>3. CASE Restart
  <2>1. /\ \A r \in Rows : levels'[r] = None
        /\ \A o \in Orders, j \in Items : reservations'["pending"][o][j] = 0
    BY <1>3 DEF Restart, NoReservations, Statuses
  <2>2. SoundRows(levels', reservations', negatives') /\ HeldNonNegative(reservations', negatives')
    BY <2>1 DEF SoundRows, HeldNonNegative
  <2>3. QED
    BY <2>2, SoundPrime
<1>4. QED
  BY <1>1, <1>2, <1>3

\* Every step keeps the rows sound.
LEMMA NextSound == IInv /\ IInv' /\ Sound /\ [Next]_vars => Sound'
<1> SUFFICES ASSUME IInv, IInv', Sound, [Next]_vars PROVE Sound'
  OBVIOUS
<1>1. CASE UNCHANGED <<levels, reservations, negatives>>
  BY <1>1, SoundLevels
<1>2. ASSUME NEW c \in Clients, Step(c) PROVE Sound'
  <2>1. CASE AdjustLevel(c) \/ InsertLevel(c)
    BY <2>1, AdjustSound
  <2>2. CASE AllocateInventory(c) /\ ~UNCHANGED tables
    BY <2>2, AllocateSound
  <2>3. CASE Settle(c) /\ ~UNCHANGED tables
    BY <2>3, SettleSound
  <2>4. CASE CreateTransaction(c)
    BY <1>1, <2>4 DEF CreateTransaction, Finish, tables, reservationRows
  <2>5. CASE UNCHANGED tables
    BY <1>1, <2>5 DEF tables, reservationRows
  <2>6. QED
    BY <1>2, <2>1, <2>2, <2>3, <2>4, <2>5
    DEF Step, BeginTx, Validate, AdjustMissing, LookupLine, PreCheck,
        Reply, ReadLevel, SettleDeadlock, Finish
<1>3. CASE \/ \E i \in Items : DeleteItem(i)
           \/ \E w \in Warehouses : DeleteWarehouse(w)
           \/ Restart
  BY <1>3, DeleteSound
<1>4. QED
  BY <1>1, <1>2, <1>3
  DEF Next, vars, tables, reservationRows, Call, Disconnect, Finish, CreateItem, CreateWarehouse

\* The rows are sound in every reachable state.
LEMMA Soundness == Spec => []Sound
<1>1. Init => Sound
  <2> SUFFICES ASSUME Init PROVE Sound
    OBVIOUS
  <2>1. \A o \in Orders, i \in Items : reservations["pending"][o][i] = 0
    BY DEF Init, NoReservations, Statuses
  <2>2. reservations \in ResType
    BY DEF Init, NoReservations, ResType
  <2>3. \A i \in Items : Pending(reservations, i) = 0
    BY <2>1, <2>2, PendingType
  <2>4. ASSUME NEW r \in Rows, levels[r] # None PROVE SoundRow(levels[r], Pending(reservations, r[1]))
    <3>1. levels[r] = LevelOf(InitialStock[r], 0, InitialStock[r]) /\ InitialStock[r] \in Nat
      BY <2>4, ConstantsAssumption DEF Init, NewLevel
    <3>2. r[1] \in Items
      BY DEF Rows
    <3>3. QED
      BY <2>3, <3>1, <3>2 DEF SoundRow, LevelOf
  <2>5. QED
    BY <2>1, <2>4 DEF Sound, SoundRows, HeldNonNegative
<1>2. QED
  BY <1>1, NextSound, Invariance, PTL DEF Spec

\* The available column is never negative while no negative quantity of the
\* item has been reserved: the locked check inside the repository's
\* transaction is enough, whatever the unlocked checks saw.
THEOREM AlwaysNeverOversold == Spec => []NeverOversold
<1>1. Sound => NeverOversold
  BY DEF Sound, SoundRows, SoundRow, NeverOversold
<1>2. QED
  BY <1>1, Soundness, PTL

\* No row of any warehouse shows more reserved than the pending reservations of
\* its item hold, for any number of warehouses and whatever baskets were
\* refused, abandoned or cut short.
THEOREM AlwaysReservedBacked == Spec => []ReservedBacked
<1>1. Sound => ReservedBacked
  BY DEF Sound, SoundRows, SoundRow, ReservedBacked, Pending, PendingOf
<1>2. QED
  BY <1>1, Soundness, PTL

-----------------------------------------------------------------------------
(* Reservations are settled once *)

\* A step that leaves an order's rows of an item alone is legal for them.
LEMMA SameReservations ==
    ASSUME NEW o \in Orders, NEW i \in Items,
           \A s \in Statuses : reservations'[s][o][i] = reservations[s][o][i]
    PROVE  LegalReservationStep(o, i)
BY DEF LegalReservationStep, Statuses

\* Reserving changes what is pending, of a row that is then pending.
LEMMA AllocateLegal ==
    ASSUME TablesOK, ControlOK, NEW c \in Clients, AllocateInventory(c),
           NEW o \in Orders, NEW i \in Items
    PROVE  LegalReservationStep(o, i)
<1>0. reservations \in ResType
  BY TablesFacts DEF OtherTypes
<1>1. CASE reservations' = reservations
  BY <1>1, SameReservations
<1>2. CASE reservations' # reservations
  <2> DEFINE p == call[c].order
             j == Row(c)[1]
             n == reservations["pending"][p][j] + Qty(c)
  <2>1. /\ reservations' = [reservations EXCEPT !["pending"][p][j] = n]
        /\ <<p, j>> \in pendingRows'
    BY <1>2 DEF AllocateInventory, tables, reservationRows
  <2> HIDE DEF n
  <2>2. \A s \in Statuses \ {"pending"} : reservations'[s][o][i] = reservations[s][o][i]
    BY <1>0, <2>1 DEF ResType
  <2>3. o # p \/ i # j => reservations'["pending"][o][i] = reservations["pending"][o][i]
    BY <1>0, <2>1 DEF ResType, Statuses
  <2>4. QED
    BY <2>1, <2>2, <2>3 DEF LegalReservationStep
<1>3. QED
  BY <1>1, <1>2

\* Settling moves the whole pending total into one outcome.
LEMMA SettleLegal ==
    ASSUME TablesOK, ControlOK, NEW c \in Clients, Settle(c),
           NEW o \in Orders, NEW i \in Items
    PROVE  LegalReservationStep(o, i)
<1>0. reservations \in ResType
  BY TablesFacts DEF OtherTypes
<1>1. CASE UNCHANGED tables
  BY <1>1, SameReservations DEF tables, reservationRows
<1>2. CASE ~UNCHANGED tables
  <2> DEFINE p == call[c].order
             out == Outcome[call[c].op]
  <2>1. p \in Orders /\ out \in Statuses \ {"pending"} /\ reservations' = SettledRows(p, out)
    BY <1>2, SettleFacts
  <2> HIDE DEF p, out
  <2>2. /\ reservations'["pending"] = [reservations["pending"] EXCEPT ![p] = [k \in Items |-> 0]]
        /\ \A k \in Items : reservations'[out][p][k] =
                               reservations[out][p][k] + reservations["pending"][p][k]
        /\ \A q \in Orders \ {p}, k \in Items, s \in Statuses :
             reservations'[s][q][k] = reservations[s][q][k]
        /\ \A k \in Items, s \in Statuses \ {"pending", out} :
             reservations'[s][p][k] = reservations[s][p][k]
    BY <1>0, <2>1, SettledTotals
  <2>3. CASE o # p
    BY <2>2, <2>3, SameReservations
  <2>4. CASE o = p
    <3>1. reservations'["pending"][o][i] = 0
      BY <1>0, <2>1, <2>2, <2>4 DEF ResType, Statuses
    <3>2. QED
      BY <2>1, <2>2, <2>4, <3>1 DEF LegalReservationStep
  <2>5. QED
    BY <2>3, <2>4
<1>3. QED
  BY <1>1, <1>2

\* Neither a retried nor a concurrent release, commit or cancel settles units
\* that are no longer pending, for any number of callers and orders.
THEOREM AlwaysSettledOnce == Spec => SettledOnce
<1>1. ASSUME IInv, [Next]_vars
      PROVE  [\A o \in Orders, i \in Items : LegalReservationStep(o, i)]_vars
  <2>0. TablesOK /\ ControlOK /\ reservations \in ResType
    BY <1>1, TablesFacts DEF IInv, OtherTypes
  <2> SUFFICES ASSUME Next, NEW o \in Orders, NEW i \in Items
               PROVE  LegalReservationStep(o, i)
    BY <1>1
  <2>1. CASE UNCHANGED reservations
    BY <2>1, SameReservations
  <2>2. ASSUME NEW c \in Clients, Step(c) PROVE LegalReservationStep(o, i)
    <3>1. CASE AllocateInventory(c)
      BY <2>0, <3>1, AllocateLegal
    <3>2. CASE Settle(c)
      BY <2>0, <3>2, SettleLegal
    <3>3. QED
      BY <2>1, <2>2, <3>1, <3>2
      DEF Step, BeginTx, Validate, CreateTransaction, AdjustLevel, AdjustMissing,
          InsertLevel, LookupLine, PreCheck, Reply, ReadLevel, SettleDeadlock, Finish,
          tables, reservationRows
  <2>3. ASSUME NEW j \in Items, DeleteItem(j) PROVE LegalReservationStep(o, i)
    <3>1. CASE i = j
      <4>1. itemState'[i] = "deleted"
        BY <2>0, <2>3, <3>1 DEF DeleteItem, TablesOK, TablesType
      <4>2. QED
        BY <4>1 DEF LegalReservationStep
    <3>2. CASE i # j
      <4>1. \A s \in Statuses : reservations'[s][o][i] = reservations[s][o][i]
        BY <2>0, <2>3, <3>2 DEF DeleteItem, ResType
      <4>2. QED
        BY <4>1, SameReservations
    <3>3. QED
      BY <3>1, <3>2
  <2>4. CASE Restart
    <3>1. itemState'[i] = "absent"
      BY <2>4 DEF Restart
    <3>2. QED
      BY <3>1 DEF LegalReservationStep
  <2>5. QED
    BY <2>1, <2>2, <2>3, <2>4
    DEF Next, Call, Disconnect, Finish, CreateItem, CreateWarehouse, DeleteWarehouse,
        tables, reservationRows
<1>2. QED
  BY <1>1, Invariance, PTL DEF Spec, SettledOnce
-----------------------------------------------------------------------------
(* One warehouse: the tables implement the book *)

OneWarehouse == \E w : Warehouses = {w}

\* The only warehouse gives every row its second column.
LEMMA HereFacts ==
    ASSUME OneWarehouse
    PROVE  /\ Here \in Warehouses /\ Warehouses = {Here}
           /\ \A i \in Items : <<i, Here>> \in Rows
           /\ \A r \in Rows : r[1] \in Items /\ r = <<r[1], Here>>
<1>1. Here \in Warehouses /\ Warehouses = {Here}
  BY DEF OneWarehouse, Here
<1>2. QED
  BY <1>1 DEF Rows

\* Where the item has a level, its reserved column is the pending total; where
\* it has none and may still get one, nothing of it is pending.
BookItem(lv, res, wh, i) ==
    /\ lv[<<i, Here>>] # None => lv[<<i, Here>>].reserved = Pending(res, i)
    /\ (lv[<<i, Here>>] = None /\ wh[Here] # "deleted") =>
         \A o \in Orders : res["pending"][o][i] = 0

BookOK == \A i \in Items : BookItem(levels, reservations, whState, i)

\* What the book holds of an item is the pending total.
LEMMA HeldIsPending == \A i : Book!HeldOf(i) = Pending(reservations, i)
BY DEF Book!HeldOf, Book!SumFunctionOnSet, Book!FoldFunctionOnSet, Book!MapThenFoldSet,
       Pending, SumFunctionOnSet, FoldFunctionOnSet, MapThenFoldSet

\* What BookOK says of the next state.
LEMMA BookOKPrime ==
    ASSUME \A i \in Items : BookItem(levels', reservations', whState', i)
    PROVE  BookOK'
BY DEF BookOK, BookItem, Pending

\* A reservation takes free units and holds them for its order.
LEMMA AllocateBook ==
    ASSUME OneWarehouse, IInv, IInv', BookOK,
           NEW c \in Clients, AllocateInventory(c), ~UNCHANGED tables
    PROVE  /\ BookOK'
           /\ Book!Hold(call[c].order, Row(c)[1], Qty(c))
           /\ call[c].order \in Orders /\ Row(c)[1] \in Items /\ Qty(c) \in Quantities
<1> DEFINE r == Row(c)
           o == call[c].order
           i == r[1]
           q == Qty(c)
<1>0. GoodLevels(levels) /\ ControlOK
  BY GoodLevelsIff DEF IInv
<1>1. /\ o \in Orders /\ r \in Rows /\ i \in Items /\ q \in Int
      /\ levels[r] \in Level /\ levels[r] # None /\ levels[r].available >= q
      /\ \A s \in Rows \ {r} : levels'[s] = levels[s]
      /\ levels'[r] = LevelOf(levels[r].quantity, levels[r].reserved + q, levels[r].available - q)
      /\ reservations'["pending"] = [reservations["pending"] EXCEPT ![o][i] = @ + q]
      /\ Pending(reservations', i) = Pending(reservations, i) + q
      /\ \A j \in Items \ {i} : Pending(reservations', j) = Pending(reservations, j)
      /\ whState' = whState
  BY AllocateFacts
<1>2. r = <<i, Here>>
  BY <1>1, HereFacts
<1>3. q \in Quantities
  BY <1>0, LineQuantity DEF AllocateInventory, LineSteps, OrderSteps
<1> HIDE DEF r, o, i, q
<1>8. /\ levels[r].reserved = Pending(reservations, i)
      /\ levels[r].quantity = levels[r].reserved + levels[r].available
  BY <1>0, <1>1, <1>2 DEF GoodLevels, GoodLevel, BookOK, BookItem
<1>10. BookOK'
  <2> SUFFICES ASSUME NEW j \in Items PROVE BookItem(levels', reservations', whState', j)
    BY BookOKPrime
  <2>1. CASE j = i
    <3>1. levels'[r].reserved = Pending(reservations', i)
      BY <1>1, <1>8 DEF LevelOf
    <3>2. levels'[r] # None
      BY <1>1, ConstantsAssumption DEF LevelOf, Level
    <3>3. QED
      BY <1>2, <2>1, <3>1, <3>2 DEF BookItem
  <2>2. CASE j # i
    <3>1. levels'[<<j, Here>>] = levels[<<j, Here>>]
      <4>1. <<j, Here>> \in Rows /\ <<j, Here>> # r
        BY <1>2, <2>2, HereFacts
      <4>2. QED
        BY <1>1, <4>1
    <3>2. QED
      BY <1>1, <2>2, <3>1 DEF BookOK, BookItem
  <2>3. QED
    BY <2>1, <2>2
<1>11. Book!Hold(o, i, q)
  <2> DEFINE on == [j \in Items |-> IF levels[<<j, Here>>] = None THEN None
                                    ELSE levels[<<j, Here>>].quantity]
             onP == [j \in Items |-> IF levels'[<<j, Here>>] = None THEN None
                                    ELSE levels'[<<j, Here>>].quantity]
  <2>1. on[i] = levels[r].quantity /\ on[i] # None
    BY <1>1, <1>2, ConstantsAssumption DEF Level
  <2>2. on[i] - Pending(reservations, i) >= q
    <3>1. levels[r].available \in Int /\ levels[r].reserved \in Int
      BY <1>1 DEF Level
    <3>2. QED
      BY <1>1, <1>8, <2>1, <3>1
  <2>4. onP = on
    <3> SUFFICES ASSUME NEW j \in Items PROVE onP[j] = on[j]
      OBVIOUS
    <3>1. CASE j = i
      BY <1>1, <1>2, <3>1, ConstantsAssumption DEF LevelOf, Level
    <3>2. CASE j # i
      <4>1. <<j, Here>> \in Rows /\ <<j, Here>> # r
        BY <1>2, <3>2, HereFacts
      <4>2. QED
        BY <1>1, <4>1
    <3>3. QED
      BY <3>1, <3>2
  <2>5. QED
    BY <1>1, <2>1, <2>2, <2>4, HeldIsPending DEF Book!Hold, Book!Free
<1>12. QED
  BY <1>1, <1>3, <1>10, <1>11 DEF r, o, i, q

\* The steps of the book that several steps of the service take.
LEMMA BookMoves ==
    /\ \A i \in Items, q \in Quantities : Book!Receive(i, q) \/ Book!Remove(i, -q) => Book!Next
    /\ \A o \in Orders : Book!GiveBack(o) \/ Book!Ship(o) => Book!Next
<1>1. ASSUME NEW i \in Items, NEW q \in Quantities, Book!Receive(i, q) \/ Book!Remove(i, -q)
      PROVE  Book!Next
  BY <1>1, Zenon DEF Book!Next
<1>2. ASSUME NEW o \in Orders, Book!GiveBack(o) \/ Book!Ship(o)
      PROVE  Book!Next
  BY <1>2, Zenon DEF Book!Next
<1>3. QED
  BY <1>1, <1>2

\* Stock arrives at, or leaves, a row that exists.
LEMMA AdjustBook ==
    ASSUME OneWarehouse, IInv, BookOK, NEW c \in Clients, AdjustLevel(c), ~UNCHANGED tables
    PROVE  BookOK' /\ [Book!Next]_(Book!vars)
<1> DEFINE r == Row(c)
           on == [j \in Items |-> IF levels[<<j, Here>>] = None THEN None
                                  ELSE levels[<<j, Here>>].quantity]
<1>0. GoodLevels(levels) /\ ControlOK
  BY GoodLevelsIff DEF IInv
<1>1. PICK i \in Items, q \in Quantities : r \in Rows /\ r = <<i, Here>> /\ q = Qty(c)
  BY <1>0, HereFacts, LineFacts, LineQuantity DEF AdjustLevel, LineSteps, OuterTx
<1>2. q \in Int
  BY ConstantsAssumption
<1>3. /\ levels[r] # None
      /\ levels[r].available + q >= 0
      /\ levels' = [levels EXCEPT ![r] = LevelOf(levels[r].quantity + q, levels[r].reserved,
                                                 levels[r].available + q)]
      /\ reservations' = reservations /\ whState' = whState
  BY <1>1 DEF AdjustLevel, Adjust, LevelOf, reservationRows
<1> HIDE DEF r
<1>5. levels'[r] = LevelOf(levels[r].quantity + q, levels[r].reserved, levels[r].available + q)
  BY <1>0, <1>1, <1>3 DEF GoodLevels
<1>6. /\ levels[r] \in Level /\ levels[r].reserved = Pending(reservations, i)
      /\ levels[r].quantity = levels[r].reserved + levels[r].available
  BY <1>0, <1>1, <1>3 DEF GoodLevels, GoodLevel, BookOK, BookItem
<1>7. levels[r].quantity \in Int /\ levels[r].reserved \in Int /\ levels[r].available \in Int
  BY <1>6 DEF Level
<1>8. \A j \in Items \ {i} : levels'[<<j, Here>>] = levels[<<j, Here>>]
  BY <1>0, <1>1, <1>3 DEF GoodLevels
<1>9. levels'[r] # None
  BY <1>1, <1>2, <1>5, <1>7, ConstantsAssumption DEF LevelOf, Level
<1>10. BookOK'
  <2> SUFFICES ASSUME NEW j \in Items PROVE BookItem(levels', reservations', whState', j)
    BY BookOKPrime
  <2>1. CASE j = i
    BY <1>1, <1>3, <1>5, <1>6, <1>9, <2>1 DEF BookItem, LevelOf
  <2>2. CASE j # i
    BY <1>3, <1>8, <2>2 DEF BookOK, BookItem
  <2>3. QED
    BY <2>1, <2>2
<1>11. on[i] = levels[r].quantity /\ on[i] # None
  BY <1>1, <1>3, <1>7, ConstantsAssumption
<1>12. on' = [on EXCEPT ![i] = @ + q]
  <2> SUFFICES ASSUME NEW j \in Items PROVE on'[j] = IF j = i THEN on[i] + q ELSE on[j]
    OBVIOUS
  <2>1. CASE j = i
    BY <1>1, <1>5, <1>9, <1>11, <2>1 DEF LevelOf
  <2>2. CASE j # i
    BY <1>8, <2>2
  <2>3. QED
    BY <2>1, <2>2
<1>13. CASE q > 0
  <2>1. Book!Receive(i, q)
    BY <1>3, <1>11, <1>12, <1>13 DEF Book!Receive
  <2>2. QED
    BY <1>10, <2>1, BookMoves
<1>14. CASE q < 0
  <2>1. on[i] - Pending(reservations, i) >= -q /\ -q > 0
    BY <1>1, <1>2, <1>3, <1>6, <1>7, <1>11, <1>14
  <2>2. on' = [on EXCEPT ![i] = @ - (-q)]
    <3>1. on[i] + q = on[i] - (-q)
      BY <1>1, <1>2, <1>7, <1>11
    <3>2. QED
      BY <1>12, <3>1
  <2>3. Book!Remove(i, -q)
    BY <1>3, <1>11, <2>1, <2>2, HeldIsPending DEF Book!Remove, Book!Free
  <2>4. QED
    BY <1>10, <2>3, BookMoves
<1>15. CASE q = 0
  <2>1. on' = on
    <3>1. on[i] + q = on[i]
      BY <1>1, <1>7, <1>11, <1>15
    <3>2. QED
      BY <1>12, <3>1
  <2>2. UNCHANGED Book!vars
    BY <1>3, <2>1 DEF Book!vars
  <2>3. QED
    BY <1>10, <2>2
<1>16. QED
  BY <1>2, <1>13, <1>14, <1>15

\* The first stock of an item: nothing of it was held before.
LEMMA InsertBook ==
    ASSUME OneWarehouse, IInv, BookOK, NEW c \in Clients, InsertLevel(c), ~UNCHANGED tables
    PROVE  BookOK' /\ Book!Next
<1> DEFINE r == Row(c)
           on == [j \in Items |-> IF levels[<<j, Here>>] = None THEN None
                                  ELSE levels[<<j, Here>>].quantity]
<1>0. GoodLevels(levels) /\ ControlOK
  BY GoodLevelsIff DEF IInv
<1>1. PICK i \in Items, q \in Quantities : r \in Rows /\ r = <<i, Here>> /\ q = Qty(c)
  BY <1>0, HereFacts, LineFacts, LineQuantity DEF InsertLevel, LineSteps, OuterTx
<1>2. q \in Int /\ q > 0
  BY <1>0, <1>1, ConstantsAssumption DEF InsertLevel, ControlOK, HandlerOK, Adds
<1>3. /\ levels[r] = None /\ KeysExist(r)
      /\ levels' = [levels EXCEPT ![r] = LevelOf(q, 0, q)]
      /\ reservations' = reservations /\ whState' = whState
  BY <1>1 DEF InsertLevel, NewLevel, Finish, reservationRows
<1> HIDE DEF r
<1>4. Pending(reservations, i) = 0
  <2>1. whState[Here] = "live"
    BY <1>1, <1>3 DEF KeysExist
  <2>2. \A o \in Orders : reservations["pending"][o][i] = 0
    BY <1>1, <1>3, <2>1 DEF BookOK, BookItem
  <2>3. reservations \in ResType
    BY DEF IInv, TablesOK, TablesType, ResType
  <2>4. QED
    BY <2>2, <2>3, PendingType
<1>5. levels'[r] = LevelOf(q, 0, q)
  BY <1>0, <1>1, <1>3 DEF GoodLevels
<1>6. levels'[r] # None
  BY <1>1, <1>2, <1>5, ConstantsAssumption DEF LevelOf, Level
<1>7. \A j \in Items \ {i} : levels'[<<j, Here>>] = levels[<<j, Here>>]
  BY <1>0, <1>1, <1>3 DEF GoodLevels
<1>8. BookOK'
  <2> SUFFICES ASSUME NEW j \in Items PROVE BookItem(levels', reservations', whState', j)
    BY BookOKPrime
  <2>1. CASE j = i
    BY <1>1, <1>3, <1>4, <1>5, <1>6, <2>1 DEF BookItem, LevelOf
  <2>2. CASE j # i
    BY <1>3, <1>7, <2>2 DEF BookOK, BookItem
  <2>3. QED
    BY <2>1, <2>2
<1>9. on[i] = None
  BY <1>1, <1>3
<1>10. on' = [on EXCEPT ![i] = q]
  <2> SUFFICES ASSUME NEW j \in Items PROVE on'[j] = IF j = i THEN q ELSE on[j]
    OBVIOUS
  <2>1. CASE j = i
    BY <1>1, <1>5, <1>6, <2>1 DEF LevelOf
  <2>2. CASE j # i
    BY <1>7, <2>2
  <2>3. QED
    BY <2>1, <2>2
<1>11. Book!Receive(i, q)
  BY <1>2, <1>3, <1>4, <1>9, <1>10, HeldIsPending DEF Book!Receive
<1>12. QED
  BY <1>8, <1>11, BookMoves

\* A settlement ends the order's hold: commit ships it, the others give it back.
LEMMA SettleBook ==
    ASSUME OneWarehouse, IInv, IInv', BookOK, NEW c \in Clients, Settle(c), ~UNCHANGED tables
    PROVE  BookOK' /\ Book!Next
<1>o. PICK o \in Orders : o = call[c].order
  BY DEF Settle, IInv, ControlOK, HandlerOK
<1> DEFINE op   == call[c].op
           held == reservations["pending"][o]
           zero == [j \in Items |-> 0]
           on == [j \in Items |-> IF levels[<<j, Here>>] = None THEN None
                                  ELSE levels[<<j, Here>>].quantity]
<1>0. GoodLevels(levels)
  BY GoodLevelsIff DEF IInv
<1>1. /\ o \in Orders /\ held \in [Items -> Int]
      /\ reservations \in ResType /\ reservations' \in ResType
      /\ levels' = SettledLevels(op, held)
      /\ reservations'["pending"] = [reservations["pending"] EXCEPT ![o] = zero]
      /\ \A j \in Items : Pending(reservations', j) = Pending(reservations, j) - held[j]
      /\ whState' = whState
  BY <1>o, SettlePending
<1>6. \A j \in Items : levels'[<<j, Here>>] = IF levels[<<j, Here>>] = None THEN None
                           ELSE SettleLevel(op, levels[<<j, Here>>], held[j])
  BY <1>1, HereFacts DEF SettledLevels, Rows
<1>7. \A j \in Items : levels[<<j, Here>>] # None => levels[<<j, Here>>] \in Level
  BY <1>0, HereFacts DEF GoodLevels, GoodLevel
<1> HIDE DEF op
<1>9. \A j \in Items : levels[<<j, Here>>] # None =>
           /\ levels'[<<j, Here>>] # None
           /\ levels'[<<j, Here>>].reserved = levels[<<j, Here>>].reserved - held[j]
           /\ levels'[<<j, Here>>].quantity = IF op = "commit"
                  THEN levels[<<j, Here>>].quantity - held[j] ELSE levels[<<j, Here>>].quantity
  <2> SUFFICES ASSUME NEW j \in Items, levels[<<j, Here>>] # None
               PROVE  /\ levels'[<<j, Here>>] # None
                      /\ levels'[<<j, Here>>].reserved = levels[<<j, Here>>].reserved - held[j]
                      /\ levels'[<<j, Here>>].quantity = IF op = "commit"
                             THEN levels[<<j, Here>>].quantity - held[j]
                             ELSE levels[<<j, Here>>].quantity
    OBVIOUS
  <2> DEFINE l == levels[<<j, Here>>]
             h == held[j]
  <2>1. l \in Level /\ h \in Int /\ levels'[<<j, Here>>] = SettleLevel(op, l, h)
    BY <1>1, <1>6, <1>7
  <2> HIDE DEF l, h
  <2>2. SettleLevel(op, l, h) \in Level
    BY <2>1 DEF SettleLevel, LevelOf, Level
  <2>3. /\ SettleLevel(op, l, h).reserved = l.reserved - h
        /\ SettleLevel(op, l, h).quantity = IF op = "commit" THEN l.quantity - h ELSE l.quantity
    BY DEF SettleLevel, LevelOf
  <2>4. QED
    BY <2>1, <2>2, <2>3, ConstantsAssumption DEF l, h
<1>10. BookOK'
  <2> SUFFICES ASSUME NEW j \in Items PROVE BookItem(levels', reservations', whState', j)
    BY BookOKPrime
  <2>1. CASE levels[<<j, Here>>] # None
    BY <1>1, <1>9, <2>1 DEF BookOK, BookItem
  <2>2. CASE levels[<<j, Here>>] = None
    <3>1. levels'[<<j, Here>>] = None
      BY <1>6, <2>2
    <3>2. CASE whState[Here] = "deleted"
      BY <1>1, <3>1, <3>2 DEF BookItem
    <3>3. CASE whState[Here] # "deleted"
      <4>1. \A p \in Orders : reservations["pending"][p][j] = 0
        BY <2>2, <3>3 DEF BookOK, BookItem
      <4>2. \A p \in Orders : reservations'["pending"][p][j] = 0
        BY <1>1, <4>1 DEF ResType, Statuses
      <4>3. QED
        BY <3>1, <4>2 DEF BookItem
    <3>4. QED
      BY <3>2, <3>3
  <2>3. QED
    BY <2>1, <2>2
<1>11. \A j \in Items : on[j] = None <=> levels[<<j, Here>>] = None
  BY <1>7, ConstantsAssumption DEF Level
<1>12. CASE op = "commit"
  <2>1. on' = [j \in Items |-> IF on[j] = None THEN None ELSE on[j] - held[j]]
    <3> SUFFICES ASSUME NEW j \in Items
                 PROVE  on'[j] = IF on[j] = None THEN None ELSE on[j] - held[j]
      OBVIOUS
    <3>1. CASE levels[<<j, Here>>] # None
      BY <1>9, <1>11, <1>12, <3>1
    <3>2. CASE levels[<<j, Here>>] = None
      BY <1>6, <3>2
    <3>3. QED
      BY <3>1, <3>2
  <2>2. Book!Ship(o)
    BY <1>1, <2>1 DEF Book!Ship, Book!NothingHeld
  <2>3. QED
    BY <1>10, <2>2, BookMoves
<1>13. CASE op # "commit"
  <2>1. on' = on
    <3> SUFFICES ASSUME NEW j \in Items PROVE on'[j] = on[j]
      OBVIOUS
    <3>1. CASE levels[<<j, Here>>] # None
      BY <1>9, <1>13, <3>1
    <3>2. CASE levels[<<j, Here>>] = None
      BY <1>6, <3>2
    <3>3. QED
      BY <3>1, <3>2
  <2>2. Book!GiveBack(o)
    BY <1>1, <2>1 DEF Book!GiveBack, Book!NothingHeld
  <2>3. QED
    BY <1>10, <2>2, BookMoves
<1>14. QED
  BY <1>12, <1>13

\* A deleted item leaves the book.
LEMMA DeleteItemBook ==
    ASSUME OneWarehouse, IInv, IInv', BookOK, NEW i \in Items, DeleteItem(i)
    PROVE  BookOK' /\ Book!Discard(i)
<1> DEFINE on == [j \in Items |-> IF levels[<<j, Here>>] = None THEN None
                                  ELSE levels[<<j, Here>>].quantity]
<1>0. reservations \in ResType /\ reservations' \in ResType
  BY DEF IInv, TablesOK, TablesType, ResType
<1>1. \A j \in Items : levels'[<<j, Here>>] = IF j = i THEN None ELSE levels[<<j, Here>>]
  BY HereFacts DEF DeleteItem, Rows
<1>2. reservations'["pending"] = [o \in Orders |-> [reservations["pending"][o] EXCEPT ![i] = 0]]
  BY DEF DeleteItem, Statuses
<1>3. whState' = whState
  BY DEF DeleteItem
<1>4. BookOK'
  <2> SUFFICES ASSUME NEW j \in Items PROVE BookItem(levels', reservations', whState', j)
    BY BookOKPrime
  <2>1. CASE j = i
    <3>1. \A o \in Orders : reservations'["pending"][o][i] = 0
      BY <1>0, <1>2 DEF ResType, Statuses
    <3>2. QED
      BY <1>1, <2>1, <3>1 DEF BookItem
  <2>2. CASE j # i
    <3>1. \A o \in Orders : reservations'["pending"][o][j] = reservations["pending"][o][j]
      BY <1>0, <1>2, <2>2 DEF ResType, Statuses
    <3>2. Pending(reservations', j) = Pending(reservations, j)
      BY <3>1, PendingSame
    <3>3. QED
      BY <1>1, <1>3, <2>2, <3>1, <3>2 DEF BookOK, BookItem
  <2>3. QED
    BY <2>1, <2>2
<1>5. on' = [on EXCEPT ![i] = None]
  BY <1>1
<1>6. QED
  BY <1>2, <1>4, <1>5 DEF Book!Discard

\* Deleting the warehouse closes the book, a restart empties it.
LEMMA CloseBook ==
    ASSUME OneWarehouse, IInv', BookOK
    PROVE  /\ \A w \in Warehouses : DeleteWarehouse(w) => BookOK' /\ Book!Close
           /\ Restart => BookOK' /\ Book!Wipe
<1> DEFINE on == [j \in Items |-> IF levels[<<j, Here>>] = None THEN None
                                  ELSE levels[<<j, Here>>].quantity]
<1>0. reservations' \in ResType /\ whState' \in [Warehouses -> Existence]
  BY DEF IInv, TablesOK, TablesType, ResType
<1>1. ASSUME NEW w \in Warehouses, DeleteWarehouse(w) PROVE BookOK' /\ Book!Close
  <2>1. w = Here
    BY HereFacts
  <2>2. whState'[Here] = "deleted"
    BY <1>0, <1>1, <2>1 DEF DeleteWarehouse
  <2>3. \A j \in Items : levels'[<<j, Here>>] = None
    BY <1>1, <2>1, HereFacts DEF DeleteWarehouse, Rows
  <2>4. on' = [j \in Items |-> None]
    BY <2>3
  <2>5. reservations' = reservations
    BY <1>1 DEF DeleteWarehouse, reservationRows
  <2>6. BookOK'
    BY <2>2, <2>3, BookOKPrime DEF BookItem
  <2>7. QED
    BY <2>4, <2>5, <2>6 DEF Book!Close
<1>2. ASSUME Restart PROVE BookOK' /\ Book!Wipe
  <2>1. \A j \in Items : levels'[<<j, Here>>] = None
    BY <1>2, HereFacts DEF Restart
  <2>2. reservations'["pending"] = [o \in Orders |-> [j \in Items |-> 0]]
    BY <1>2 DEF Restart, NoReservations, Statuses
  <2>3. \A j \in Items, o \in Orders : reservations'["pending"][o][j] = 0
    BY <2>2
  <2>4. BookOK'
    BY <2>1, <2>3, BookOKPrime DEF BookItem
  <2>5. on' = [j \in Items |-> None]
    BY <2>1
  <2>6. QED
    BY <2>2, <2>4, <2>5 DEF Book!Wipe
<1>3. QED
  BY <1>1, <1>2

\* A step that leaves the levels and the reservations alone is no step of the
\* book; a warehouse is only ever added by such a step.
LEMMA StutterBook ==
    ASSUME OneWarehouse, BookOK, UNCHANGED <<levels, reservations>>,
           UNCHANGED whState \/ \E w \in Warehouses : CreateWarehouse(w)
    PROVE  BookOK' /\ UNCHANGED Book!vars
<1>1. whState[Here] = "deleted" => whState'[Here] = "deleted"
  <2>1. CASE UNCHANGED whState
    BY <2>1
  <2>2. ASSUME NEW w \in Warehouses, CreateWarehouse(w)
        PROVE  whState[Here] = "deleted" => whState'[Here] = "deleted"
    BY <2>2, HereFacts DEF CreateWarehouse
  <2>3. QED
    BY <2>1, <2>2
<1>2. BookOK'
  <2> SUFFICES ASSUME NEW j \in Items PROVE BookItem(levels', reservations', whState', j)
    BY BookOKPrime
  <2> QED
    BY <1>1 DEF BookOK, BookItem
<1>3. UNCHANGED Book!vars
  BY DEF Book!vars
<1>4. QED
  BY <1>2, <1>3

\* The tables start in agreement with the book.
LEMMA InitBook == ASSUME OneWarehouse, Init PROVE BookOK /\ Book!Init
<1> DEFINE on == [j \in Items |-> IF levels[<<j, Here>>] = None THEN None
                                  ELSE levels[<<j, Here>>].quantity]
<1>1. reservations \in ResType /\ reservations["pending"] = [o \in Orders |-> [j \in Items |-> 0]]
  BY DEF Init, NoReservations, ResType, Statuses
<1>2. \A j \in Items : /\ Pending(reservations, j) = 0
                       /\ \A o \in Orders : reservations["pending"][o][j] = 0
  BY <1>1, PendingType
<1>3. \A j \in Items : /\ InitialStock[<<j, Here>>] \in Nat
                       /\ levels[<<j, Here>>] = IF InitialStock[<<j, Here>>] = 0 THEN None
                            ELSE LevelOf(InitialStock[<<j, Here>>], 0, InitialStock[<<j, Here>>])
  BY HereFacts, ConstantsAssumption DEF Init, NewLevel
<1>4. BookOK
  <2> SUFFICES ASSUME NEW j \in Items PROVE BookItem(levels, reservations, whState, j)
    BY DEF BookOK
  <2>1. CASE InitialStock[<<j, Here>>] = 0
    BY <1>2, <1>3, <2>1 DEF BookItem
  <2>2. CASE InitialStock[<<j, Here>>] # 0
    <3>1. levels[<<j, Here>>] = LevelOf(InitialStock[<<j, Here>>], 0, InitialStock[<<j, Here>>])
      BY <1>3, <2>2
    <3>2. levels[<<j, Here>>] \in Level /\ levels[<<j, Here>>].reserved = 0
      BY <1>3, <3>1 DEF LevelOf, Level
    <3>3. QED
      BY <1>2, <3>2, ConstantsAssumption DEF BookItem
  <2>3. QED
    BY <2>1, <2>2
<1>5. on \in [Items -> Nat \cup {None}]
  <2> SUFFICES ASSUME NEW j \in Items PROVE on[j] \in Nat \cup {None}
    OBVIOUS
  <2>1. CASE InitialStock[<<j, Here>>] = 0
    BY <1>3, <2>1
  <2>2. CASE InitialStock[<<j, Here>>] # 0
    <3>1. levels[<<j, Here>>] = LevelOf(InitialStock[<<j, Here>>], 0, InitialStock[<<j, Here>>])
      BY <1>3, <2>2
    <3>2. levels[<<j, Here>>].quantity \in Nat
      BY <1>3, <3>1 DEF LevelOf
    <3>3. QED
      BY <3>2
  <2>3. QED
    BY <2>1, <2>2
<1>6. QED
  BY <1>1, <1>4, <1>5 DEF Book!Init

\* Every step of the service is a step of the book, or changes nothing in it.
LEMMA NextBook ==
    ASSUME OneWarehouse, IInv, IInv', BookOK, [Next]_vars
    PROVE  BookOK' /\ [Book!Next]_(Book!vars)
<1>1. CASE UNCHANGED tables
  BY <1>1, StutterBook DEF tables, reservationRows
<1>2. ASSUME NEW c \in Clients, Step(c), ~UNCHANGED tables
      PROVE  BookOK' /\ [Book!Next]_(Book!vars)
  <2>1. CASE CreateTransaction(c)
    BY <2>1, StutterBook DEF CreateTransaction, Finish, tables, reservationRows
  <2>2. CASE AdjustLevel(c)
    BY <1>2, <2>2, AdjustBook
  <2>3. CASE InsertLevel(c)
    BY <1>2, <2>3, InsertBook
  <2>4. CASE AllocateInventory(c)
    BY <1>2, <2>4, AllocateBook DEF Book!Next
  <2>5. CASE Settle(c)
    BY <1>2, <2>5, SettleBook
  <2>6. QED
    BY <1>2, <2>1, <2>2, <2>3, <2>4, <2>5
    DEF Step, BeginTx, Validate, AdjustMissing, LookupLine, PreCheck,
        Reply, ReadLevel, SettleDeadlock, Finish
<1>3. ASSUME NEW i \in Items, CreateItem(i) \/ DeleteItem(i)
      PROVE  BookOK' /\ [Book!Next]_(Book!vars)
  <2>1. CASE CreateItem(i)
    BY <2>1, StutterBook DEF CreateItem, reservationRows
  <2>2. CASE DeleteItem(i)
    BY <2>2, DeleteItemBook DEF Book!Next
  <2>3. QED
    BY <1>3, <2>1, <2>2
<1>4. ASSUME NEW w \in Warehouses, CreateWarehouse(w) \/ DeleteWarehouse(w)
      PROVE  BookOK' /\ [Book!Next]_(Book!vars)
  <2>1. CASE CreateWarehouse(w)
    BY <2>1, StutterBook DEF CreateWarehouse, reservationRows
  <2>2. CASE DeleteWarehouse(w)
    BY <2>2, CloseBook DEF Book!Next
  <2>3. QED
    BY <1>4, <2>1, <2>2
<1>5. CASE Restart
  BY <1>5, CloseBook DEF Book!Next
<1>6. QED
  BY <1>1, <1>2, <1>3, <1>4, <1>5 DEF Next, vars, Call, Disconnect, Finish

\* With one warehouse, the reserved column of an item is always what the
\* pending reservations hold of it.
THEOREM AlwaysReservedIsPending ==
    ASSUME OneWarehouse PROVE Spec => []ReservedIsPending
<1>1. ASSUME BookOK, IInv PROVE ReservedIsPending
  <2> SUFFICES ASSUME NEW i \in Items, NEW v \in Warehouses, levels[<<i, v>>] # None
               PROVE  ReservedOf(i) = PendingOf(i)
    BY DEF ReservedIsPending
  <2> DEFINE f == [w \in Warehouses |-> GetInventoryLevel(<<i, w>>).reserved]
  <2>1. v = Here /\ Here \in Warehouses
    BY HereFacts
  <2>2. f[Here] = levels[<<i, Here>>].reserved /\ levels[<<i, Here>>].reserved = Pending(reservations, i)
    BY <1>1, <2>1 DEF GetInventoryLevel, BookOK, BookItem
  <2>3. f[Here] \in Int
    <3>1. <<i, Here>> \in Rows
      BY HereFacts
    <3>2. levels[<<i, Here>>] \in Level
      BY <1>1, <2>1, <3>1 DEF IInv, TablesOK, TablesType
    <3>3. QED
      BY <2>2, <3>2 DEF Level
  <2> HIDE DEF f
  <2>4. SumFunctionOnSet(f, {Here}) = f[Here]
    <3>1. SumFunctionOnSet(f, {Here} \ {Here}) = 0
      <4>1. {Here} \ {Here} = {}
        OBVIOUS
      <4>2. QED
        BY <4>1, SumEmpty
    <3>2. IsFiniteSet({Here})
      BY FS_Singleton
    <3>3. \A w \in {Here} : f[w] \in Int
      BY <2>3
    <3>4. SumFunctionOnSet(f, {Here}) = f[Here] + SumFunctionOnSet(f, {Here} \ {Here})
      BY <3>2, <3>3, SumRemove
    <3>5. QED
      BY <2>3, <3>1, <3>4
  <2>5. QED
    BY <2>2, <2>4, HereFacts DEF f, ReservedOf, PendingOf, Pending
<1>2. Init => BookOK
  BY InitBook
<1>3. IInv /\ IInv' /\ BookOK /\ [Next]_vars => BookOK'
  BY NextBook
<1>4. QED
  BY <1>1, <1>2, <1>3, Invariance, PTL DEF Spec

\* With one warehouse the handlers, their unlocked checks, their abandoned
\* transactions, the catalogue and the restarts implement the book: free stock
\* is never stored and never disagrees with what is on hand and held.
THEOREM BookRefinement ==
    ASSUME OneWarehouse PROVE Spec => ImplementsBook
<1>1. Init => BookOK /\ Book!Init
  BY InitBook
<1>2. IInv /\ IInv' /\ BookOK /\ [Next]_vars
        => BookOK' /\ [Book!Next]_(Book!vars)
  BY NextBook
<1>3. QED
  BY <1>1, <1>2, Invariance, PTL DEF Spec, ImplementsBook, Book!Spec
=============================================================================
