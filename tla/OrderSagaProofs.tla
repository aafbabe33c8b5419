-------------------------- MODULE OrderSagaProofs --------------------------
(***************************************************************************)
(* The safety properties of OrderSaga, for any number of orders, carts,    *)
(* products and faults.                                                    *)
(*                                                                         *)
(* The argument follows an order.  While CreateOrder reserves, it holds    *)
(* what lies behind it and nobody else knows of the order; it compensates  *)
(* only what it holds; order.created leaves once, when everything is held, *)
(* so there is one verdict, and each payment event, queued or in hand,     *)
(* carries that verdict.                                                   *)
(*                                                                         *)
(* A second invariant (Calm) adds what holds until the first fault: an     *)
(* order that is compensated was never announced, and a payment event is   *)
(* delivered once, so that each item has one stock event at most.          *)
(*                                                                         *)
(* A third one (AccountInv) keeps the accounts of the products table: no   *)
(* item is reserved twice, the items in play are finitely many, and each   *)
(* step changes a row by what it changes in the sums over them.            *)
(***************************************************************************)
EXTENDS OrderSaga, StockRowProofs

\* CreateOrder knows its cart, what it has reserved and what to compensate.
Reserving(o) ==
    /\ create[o].pc # "idle" => cart[o] \in Carts
    /\ create[o].pc = "reserve" =>
          create[o].item \in Items(o) /\ \A j \in Items(o) : j < create[o].item => held[o][j]
    /\ create[o].pc \in {"persist", "publish"} => \A j \in Items(o) : held[o][j]
    /\ create[o].pc = "compensate" =>
          /\ create[o].item \in 1 .. create[o].last
          /\ create[o].last \in Items(o)
          /\ \A j \in 1 .. create[o].last : held[o][j]

\* The order is stored after the reservations and announced after that, once.
Announcing(o) ==
    /\ create[o].pc \in {"idle", "reserve", "persist"} => status[o] = "none"
    /\ create[o].pc \in {"idle", "reserve", "persist", "publish"} =>
          o \notin orderEvents /\ verdict[o] = "none"
    /\ o \in orderEvents => verdict[o] = "none"
    /\ o \in orderEvents \/ verdict[o] # "none" => \A j \in Items(o) : held[o][j]

\* A payment event carries the verdict, and its handler has asked for the
\* items behind it.
Handles(v) ==
    /\ \A o \in queue[v] : verdict[o] = v
    /\ handler[v].pc # "idle" => handler[v].order \in Order /\ verdict[handler[v].order] = v
    /\ handler[v].pc \in {"update", "publish"} =>
          /\ handler[v].item \in Items(handler[v].order)
          /\ \A j \in Items(handler[v].order) :
                j < handler[v].item => Requests(handler[v].order, j, StockKind(v)) > 0
    /\ handler[v].pc = "ack" =>
          \A j \in Items(handler[v].order) : Requests(handler[v].order, j, StockKind(v)) > 0

GoodRows == \A p \in Product : row[p].reserved <= row[p].total

\* The inductive invariant.
Inv == /\ TypeOK /\ GoodRows
       /\ \A o \in Order : Reserving(o) /\ Announcing(o)
       /\ \A v \in Verdict : Handles(v)
       /\ OnlyHeldSettled /\ PaymentBacked /\ VerdictNotLost

-----------------------------------------------------------------------------
\* Carts.
LEMMA CartFacts ==
    ASSUME TypeOK, NEW o \in Order
    PROVE  /\ cart[o] \in Seq(Item)
           /\ Len(cart[o]) \in Nat
           /\ Items(o) = 1 .. Len(cart[o])
           /\ Items(o) \subseteq Index
           /\ \A i \in Items(o) : cart[o][i] \in Item
<1>1. cart[o] \in Carts \/ cart[o] = <<>>
  BY DEF TypeOK
<1>2. cart[o] \in Seq(Item)
  <2>1. \A c \in Carts : c \in Seq(Item)
    BY SagaAssumption, Zenon
  <2>2. <<>> \in Seq(Item)
    OBVIOUS
  <2>3. QED
    BY <1>1, <2>1, <2>2, Zenon
<1>3. Items(o) = 1 .. Len(cart[o]) /\ Len(cart[o]) \in Nat /\ \A i \in Items(o) : cart[o][i] \in Item
  BY <1>2 DEF Items
<1>4. Items(o) \subseteq Index
  BY <1>1, <1>3 DEF Items, Index
<1>5. QED
  BY <1>2, <1>3, <1>4

\* An item of a cart has a product and a quantity.
LEMMA ItemFacts ==
    ASSUME NEW it \in Item
    PROVE  it.product \in Product /\ it.quantity \in Quantity /\ it.quantity \in Int
  BY QuantityAssumption DEF Item

\* Counters of stock events.
LEMMA Counted ==
    ASSUME NEW f \in [Order -> [Index -> [Kind -> Nat]]], NEW o \in Order, NEW i \in Index, NEW k \in Kind,
           NEW d \in Int, f[o][i][k] + d >= 0
    PROVE  LET g == [f EXCEPT ![o][i][k] = @ + d]
           IN  /\ g \in [Order -> [Index -> [Kind -> Nat]]]
               /\ \A p \in Order, j \in Index, l \in Kind :
                     g[p][j][l] = IF p = o /\ j = i /\ l = k THEN f[p][j][l] + d ELSE f[p][j][l]
<1>1. f[o] \in [Index -> [Kind -> Nat]] /\ f[o][i] \in [Kind -> Nat] /\ f[o][i][k] \in Nat
  OBVIOUS
<1>2. f[o][i][k] + d \in Nat
  BY <1>1
<1> DEFINE h == [f[o][i] EXCEPT ![k] = @ + d]
           e == [f[o] EXCEPT ![i] = h]
           g == [f EXCEPT ![o] = e]
<1>3. h \in [Kind -> Nat] /\ \A l \in Kind : h[l] = IF l = k THEN f[o][i][l] + d ELSE f[o][i][l]
  BY <1>1, <1>2
<1> HIDE DEF h
<1>4. e \in [Index -> [Kind -> Nat]] /\ \A j \in Index : e[j] = IF j = i THEN h ELSE f[o][j]
  BY <1>1, <1>3
<1> HIDE DEF e
<1>5. g \in [Order -> [Index -> [Kind -> Nat]]] /\ \A p \in Order : g[p] = IF p = o THEN e ELSE f[p]
  BY <1>1, <1>4
<1> HIDE DEF g
<1>6. \A p \in Order, j \in Index, l \in Kind :
         g[p][j][l] = IF p = o /\ j = i /\ l = k THEN f[p][j][l] + d ELSE f[p][j][l]
  BY <1>3, <1>4, <1>5
<1>7. g = [f EXCEPT ![o][i][k] = @ + d]
  BY DEF g, e, h
<1>8. QED
  BY <1>5, <1>6, <1>7

\* Publishing a stock event raises one counter.
LEMMA AskFacts ==
    ASSUME TypeOK, NEW o \in Order, NEW i \in Index, NEW k \in Kind, Ask(o, i, k)
    PROVE  /\ asked' \in [Order -> [Index -> [Kind -> Nat]]]
           /\ \A p \in Order, j \in Index, l \in Kind :
                 asked'[p][j][l] = IF p = o /\ j = i /\ l = k THEN asked[p][j][l] + 1 ELSE asked[p][j][l]
<1>1. asked \in [Order -> [Index -> [Kind -> Nat]]] /\ asked[o][i][k] + 1 >= 0
  BY DEF TypeOK
<1>2. QED
  BY <1>1, Counted DEF Ask

\* The bound on faults holds.
LEMMA FaultType ==
    ASSUME faults \in 0 .. MaxFaults, NEW res, Fault \/ NoFault \/ PublishResult(res)
    PROVE  faults' \in 0 .. MaxFaults
  BY SagaAssumption DEF Fault, NoFault, PublishResult

\* How CreateOrder moves: to another place, with another item or without, ...
LEMMA GotoFacts ==
    ASSUME TypeOK, NEW o \in Order, NEW pc \in CreatePC, Goto(o, pc)
    PROVE  /\ create' \in [Order -> Creating]
           /\ create'[o].pc = pc
           /\ \A p \in Order : p # o => create'[p] = create[p]
<1>1. create[o] \in Creating
  BY DEF TypeOK
<1>2. [create[o] EXCEPT !.pc = pc] \in Creating /\ [create[o] EXCEPT !.pc = pc].pc = pc
  BY <1>1 DEF Creating
<1>3. QED
  BY <1>2 DEF Goto, TypeOK

\* ... with the next item, ...
LEMMA AdvanceFacts ==
    ASSUME TypeOK, NEW o \in Order, NEW pc \in CreatePC, NEW n \in Nat,
           create' = [create EXCEPT ![o] = [@ EXCEPT !.pc = pc, !.item = n]]
    PROVE  /\ create' \in [Order -> Creating]
           /\ create'[o].pc = pc /\ create'[o].item = n /\ create'[o].last = create[o].last
           /\ \A p \in Order : p # o => create'[p] = create[p]
<1>1. create[o] \in Creating
  BY DEF TypeOK
<1> DEFINE x == [create[o] EXCEPT !.pc = pc, !.item = n]
<1>2. x \in Creating /\ x.pc = pc /\ x.item = n /\ x.last = create[o].last
  BY <1>1 DEF Creating
<1>3. create' = [create EXCEPT ![o] = x]
  BY DEF TypeOK
<1> HIDE DEF x
<1>4. QED
  BY <1>2, <1>3 DEF TypeOK

\* ... or to compensation.
LEMMA Compensating ==
    ASSUME TypeOK, NEW o \in Order, NEW n \in Nat, NEW then \in {"fail", "rejected"},
           StartCompensation(o, n, then)
    PROVE  /\ create' \in [Order -> Creating]
           /\ create'[o].pc = IF n = 0 THEN then ELSE "compensate"
           /\ create'[o].item = 1 /\ create'[o].last = n
           /\ \A p \in Order : p # o => create'[p] = create[p]
  BY DEF TypeOK, StartCompensation, Creating, CreatePC

\* How a payment handler moves.
LEMMA HandlerFacts ==
    ASSUME TypeOK, NEW v \in Verdict, NEW pc \in HandlerPC, NEW n \in Nat,
           handler' = [handler EXCEPT ![v] = [@ EXCEPT !.pc = pc, !.item = n]]
    PROVE  /\ handler' \in [Verdict -> Handling]
           /\ handler'[v].pc = pc /\ handler'[v].item = n /\ handler'[v].order = handler[v].order
           /\ \A w \in Verdict : w # v => handler'[w] = handler[w]
<1>1. handler[v] \in Handling
  BY DEF TypeOK
<1> DEFINE x == [handler[v] EXCEPT !.pc = pc, !.item = n]
<1>2. x \in Handling /\ x.pc = pc /\ x.item = n /\ x.order = handler[v].order
  BY <1>1 DEF Handling
<1>3. handler' = [handler EXCEPT ![v] = x]
  BY DEF TypeOK
<1> HIDE DEF x
<1>4. QED
  BY <1>2, <1>3 DEF TypeOK

\* A handler between two messages.
LEMMA IdleType == IdleHandler \in Handling /\ IdleHandler.pc = "idle"
  BY DEF IdleHandler, Handling, HandlerPC

\* The service starts with no order.
LEMMA InitInv == Init => Inv
<1> SUFFICES ASSUME Init PROVE Inv
  OBVIOUS
<1>1. \A p \in Product : NewRow(InitStock[p]) \in Row /\ NewRow(InitStock[p]).reserved <= NewRow(InitStock[p]).total
  <2>1. \A n \in Nat : NewRow(n) \in Row /\ NewRow(n).reserved <= NewRow(n).total
    BY DEF NewRow, Row
  <2>2. \A p \in Product : InitStock[p] \in Nat
    BY SagaAssumption, Zenon
  <2>3. QED
    BY <2>1, <2>2, Zenon
<1> USE DEF Init
<1>2. NoStockEvents \in [Order -> [Index -> [Kind -> Nat]]]
  BY DEF NoStockEvents
<1>3. TypeOK
  BY <1>1, <1>2, SagaAssumption
     DEF TypeOK, Status, Creating, CreatePC, NotStarted, Handling, HandlerPC, IdleHandler, Verdict
<1>4. \A o \in Order : Reserving(o) /\ Announcing(o)
  BY DEF Reserving, Announcing, NotStarted
<1>5. \A v \in Verdict : Handles(v)
  BY DEF Handles, IdleHandler
<1>6. \A o \in Order, i \in Index, k \in Kind : Requests(o, i, k) = 0
  BY DEF Requests, NoStockEvents
<1>7. OnlyHeldSettled /\ PaymentBacked /\ VerdictNotLost
  BY <1>6 DEF OnlyHeldSettled, PaymentBacked, VerdictNotLost, Kind, Verdict
<1>8. QED
  BY <1>1, <1>3, <1>4, <1>5, <1>7 DEF Inv, GoodRows

-----------------------------------------------------------------------------
\* One row changes, for a well-formed one.
LEMMA RowFacts ==
    ASSUME TypeOK, GoodRows, NEW p \in Product, NEW x, GoodRow(x), row' = [row EXCEPT ![p] = x]
    PROVE  row' \in [Product -> Row] /\ GoodRows'
  BY DEF TypeOK, GoodRows, GoodRow

\* One reservation takes effect.
LEMMA HeldFacts ==
    ASSUME TypeOK, NEW o \in Order, NEW i \in Index, held' = [held EXCEPT ![o][i] = TRUE]
    PROVE  /\ held' \in [Order -> [Index -> BOOLEAN]]
           /\ held'[o][i]
           /\ \A p \in Order, j \in Index : held[p][j] => held'[p][j]
           /\ \A p \in Order, j \in Index : ~(p = o /\ j = i) => held'[p][j] = held[p][j]
<1>1. held \in [Order -> [Index -> BOOLEAN]]
  BY DEF TypeOK
<1> DEFINE h == [held[o] EXCEPT ![i] = TRUE]
<1>2. h \in [Index -> BOOLEAN] /\ h[i] = TRUE /\ \A j \in Index : j # i => h[j] = held[o][j]
  BY <1>1, Zenon
<1> HIDE DEF h
<1>3. held' = [held EXCEPT ![o] = h]
  BY DEF h
<1>4. held' \in [Order -> [Index -> BOOLEAN]] /\ held'[o] = h /\ \A p \in Order : p # o => held'[p] = held[p]
  BY <1>1, <1>2, <1>3, Zenon
<1>5. \A p \in Order, j \in Index : held[p][j] => held'[p][j]
  BY <1>2, <1>4, Zenon
<1>6. \A p \in Order, j \in Index : ~(p = o /\ j = i) => held'[p][j] = held[p][j]
  BY <1>2, <1>4, Zenon
<1>7. QED
  BY <1>2, <1>4, <1>5, <1>6, Zenon

\* ReserveStock succeeds for the next item of the cart.
LEMMA ReserveFacts ==
    ASSUME Inv, NEW o \in Order, create[o].pc = "reserve",
           LET it == cart[o][create[o].item] IN
              /\ CanReserve(row[it.product], it.quantity)
              /\ row' = [row EXCEPT ![it.product] = ReserveStock(@, it.quantity)],
           held' = [held EXCEPT ![o][create[o].item] = TRUE]
    PROVE  /\ row' \in [Product -> Row] /\ GoodRows'
           /\ held' \in [Order -> [Index -> BOOLEAN]]
           /\ held'[o][create[o].item]
           /\ \A p \in Order, j \in Index : held[p][j] => held'[p][j]
<1> DEFINE i == create[o].item
           it == cart[o][i]
<1>1. i \in Items(o)
  BY DEF Inv, Reserving
<1>2. i \in Index /\ it \in Item
  BY <1>1, CartFacts DEF Inv
<1>3. it.product \in Product /\ it.quantity \in Int
  BY <1>2, ItemFacts
<1>4. GoodRow(row[it.product])
  BY <1>3 DEF Inv, TypeOK, GoodRows, GoodRow
<1>5. GoodRow(ReserveStock(row[it.product], it.quantity))
  BY <1>3, <1>4, ReserveGood DEF Follows
<1>6. row' = [row EXCEPT ![it.product] = ReserveStock(row[it.product], it.quantity)]
  BY <1>3 DEF Inv, TypeOK
<1>7. row' \in [Product -> Row] /\ GoodRows'
  BY <1>3, <1>5, <1>6, RowFacts DEF Inv
<1>8. QED
  BY <1>2, <1>7, HeldFacts DEF Inv

\* The product service applies a stock event.
LEMMA ApplyFacts ==
    ASSUME Inv, NEW o \in Order, NEW i \in Items(o), NEW k \in Kind, ApplyStockEvent(o, i, k)
    PROVE  /\ row' \in [Product -> Row] /\ GoodRows'
           /\ asked' \in [Order -> [Index -> [Kind -> Nat]]]
           /\ applied' \in [Order -> [Index -> [Kind -> Nat]]]
           /\ \A p \in Order, j \in Index, l \in Kind : Requests(p, j, l)' = Requests(p, j, l)
<1> DEFINE it == cart[o][i]
           e == [kind |-> k, quantity |-> it.quantity]
<1>1. i \in Index /\ it \in Item
  BY CartFacts DEF Inv
<1>2. it.product \in Product /\ it.quantity \in Int
  BY <1>1, ItemFacts
<1>3. GoodRow(row[it.product])
  BY <1>2 DEF Inv, TypeOK, GoodRows, GoodRow
<1>4. e.quantity \in Int /\ CanApply(row[it.product], e)
  BY <1>2 DEF ApplyStockEvent
<1>5. GoodRow(Apply(row[it.product], e))
  BY <1>3, <1>4, ApplyGood DEF Follows
<1>6. row' = [row EXCEPT ![it.product] = Apply(row[it.product], e)]
  BY <1>2 DEF ApplyStockEvent, Inv, TypeOK
<1>7. row' \in [Product -> Row] /\ GoodRows'
  BY <1>2, <1>5, <1>6, RowFacts DEF Inv
<1>8. /\ asked \in [Order -> [Index -> [Kind -> Nat]]] /\ asked[o][i][k] + (-1) >= 0
      /\ applied \in [Order -> [Index -> [Kind -> Nat]]] /\ applied[o][i][k] + 1 >= 0
  BY <1>1 DEF ApplyStockEvent, Inv, TypeOK
<1>9. asked' = [asked EXCEPT ![o][i][k] = @ + (-1)] /\ applied' = [applied EXCEPT ![o][i][k] = @ + 1]
  <2>1. asked[o][i][k] - 1 = asked[o][i][k] + (-1)
    BY <1>1 DEF Inv, TypeOK
  <2>2. QED
    BY <2>1 DEF ApplyStockEvent
<1>10. /\ asked' \in [Order -> [Index -> [Kind -> Nat]]]
       /\ \A p \in Order, j \in Index, l \in Kind :
             asked'[p][j][l] = IF p = o /\ j = i /\ l = k THEN asked[p][j][l] + (-1) ELSE asked[p][j][l]
  BY <1>1, <1>8, <1>9, Counted
<1>11. /\ applied' \in [Order -> [Index -> [Kind -> Nat]]]
       /\ \A p \in Order, j \in Index, l \in Kind :
             applied'[p][j][l] = IF p = o /\ j = i /\ l = k THEN applied[p][j][l] + 1 ELSE applied[p][j][l]
  BY <1>1, <1>8, <1>9, Counted
<1>12. \A p \in Order, j \in Index, l \in Kind : Requests(p, j, l)' = Requests(p, j, l)
  <2> TAKE p \in Order, j \in Index, l \in Kind
  <2>1. asked[p][j][l] \in Nat /\ applied[p][j][l] \in Nat
    BY <1>8
  <2>2. asked'[p][j][l] + applied'[p][j][l] = asked[p][j][l] + applied[p][j][l]
    <3>1. asked'[p][j][l] = IF p = o /\ j = i /\ l = k THEN asked[p][j][l] + (-1) ELSE asked[p][j][l]
      BY <1>10, Zenon
    <3>2. applied'[p][j][l] = IF p = o /\ j = i /\ l = k THEN applied[p][j][l] + 1 ELSE applied[p][j][l]
      BY <1>11, Zenon
    <3>3. CASE p = o /\ j = i /\ l = k
      BY <2>1, <3>1, <3>2, <3>3
    <3>4. CASE ~(p = o /\ j = i /\ l = k)
      BY <3>1, <3>2, <3>4
    <3>5. QED
      BY <3>3, <3>4
  <2>3. QED
    BY <2>2 DEF Requests
<1>13. QED
  BY <1>7, <1>10, <1>11, <1>12

\* What compensation and the payment handlers ask for are items of the order.
LEMMA AskedItems ==
    ASSUME Inv
    PROVE  /\ \A o \in Order : create[o].pc = "compensate" =>
                 create[o].item \in Items(o) /\ create[o].item \in Index /\ held[o][create[o].item]
           /\ \A v \in Verdict : handler[v].pc = "publish" =>
                 LET o == handler[v].order IN
                 o \in Order /\ handler[v].item \in Items(o) /\ handler[v].item \in Index
                 /\ held[o][handler[v].item]
           /\ \A v \in Verdict : StockKind(v) \in Kind
<1>1. ASSUME NEW o \in Order, create[o].pc = "compensate"
      PROVE  create[o].item \in Items(o) /\ create[o].item \in Index /\ held[o][create[o].item]
  <2>1. create[o].item \in 1 .. create[o].last /\ create[o].last \in Items(o)
        /\ \A j \in 1 .. create[o].last : held[o][j]
    BY <1>1 DEF Inv, Reserving
  <2>2. QED
    BY <2>1, CartFacts DEF Inv
<1>2. ASSUME NEW v \in Verdict, handler[v].pc = "publish"
      PROVE  LET o == handler[v].order IN
             o \in Order /\ handler[v].item \in Items(o) /\ handler[v].item \in Index
             /\ held[o][handler[v].item]
  <2> DEFINE o == handler[v].order
  <2>1. o \in Order /\ verdict[o] = v /\ handler[v].item \in Items(o)
    BY <1>2 DEF Inv, Handles
  <2>2. v # "none"
    BY DEF Verdict
  <2>3. held[o][handler[v].item]
    BY <2>1, <2>2 DEF Inv, Announcing
  <2>4. QED
    BY <2>1, <2>3, CartFacts DEF Inv
<1>3. \A v \in Verdict : StockKind(v) \in Kind
  BY DEF StockKind, Kind
<1>4. QED
  BY <1>1, <1>2, <1>3

\* Every step keeps the types and reserved within total.
LEMMA TypeStep == ASSUME Inv, [Next]_vars PROVE TypeOK' /\ GoodRows'
<1> USE DEF Inv, TypeOK, createVars, paymentVars, consumerVars, stockVars
<1>0. UNCHANGED row => GoodRows'
  BY DEF GoodRows
<1>1. ASSUME NEW o \in Order, NEW c \in Carts, BeginCreate(o, c) PROVE TypeOK' /\ GoodRows'
  BY <1>0, <1>1 DEF BeginCreate, NotStarted, Creating, CreatePC
<1>2. ASSUME NEW o \in Order, ReserveAnswered(o) \/ ReserveFails(o) PROVE TypeOK' /\ GoodRows'
  <2>1. create[o].pc = "reserve" /\ create[o].item \in Items(o) /\ create[o].item - 1 \in Nat
    BY <1>2, CartFacts DEF ReserveAnswered, ReserveFails, Reserving
  <2>2. row' \in [Product -> Row] /\ GoodRows' /\ held' \in [Order -> [Index -> BOOLEAN]]
    BY <1>0, <1>2, <2>1, ReserveFacts DEF ReserveAnswered, ReserveFails
  <2>3. create' \in [Order -> Creating]
    <3>1. CASE StartCompensation(o, create[o].item - 1, "rejected")
      BY <2>1, <3>1, Compensating
    <3>2. CASE create' = [create EXCEPT ![o] =
                            [@ EXCEPT !.pc = IF create[o].item = Len(cart[o]) THEN "persist" ELSE "reserve",
                                      !.item = create[o].item + 1]]
      <4>1. create[o].item + 1 \in Nat
        BY <2>1, CartFacts
      <4>2. QED
        BY <3>2, <4>1, AdvanceFacts DEF CreatePC
    <3>3. QED
      BY <1>2, <3>1, <3>2 DEF ReserveAnswered, ReserveFails
  <2>4. faults' \in 0 .. MaxFaults
    BY <1>2, FaultType DEF ReserveAnswered, ReserveFails, NoFault
  <2>5. QED
    BY <1>2, <2>2, <2>3, <2>4 DEF ReserveAnswered, ReserveFails
<1>3. ASSUME NEW o \in Order, PersistOrder(o) \/ PersistFails(o) PROVE TypeOK' /\ GoodRows'
  <2>1. create' \in [Order -> Creating]
    BY <1>3, CartFacts, Compensating, GotoFacts DEF PersistOrder, PersistFails, CreatePC
  <2>2. faults' \in 0 .. MaxFaults
    BY <1>3, FaultType DEF PersistOrder, PersistFails, NoFault
  <2>3. status' \in [Order -> Status]
    BY <1>3 DEF PersistOrder, PersistFails, Status
  <2>4. QED
    BY <1>0, <1>3, <2>1, <2>2, <2>3 DEF PersistOrder, PersistFails
<1>4. ASSUME NEW o \in Order, NEW res \in Results, PublishOrderCreated(o, res) PROVE TypeOK' /\ GoodRows'
  <2>1. create' \in [Order -> Creating]
    BY <1>4, CartFacts, Compensating, GotoFacts DEF PublishOrderCreated, CreatePC
  <2>2. faults' \in 0 .. MaxFaults
    BY <1>4, FaultType DEF PublishOrderCreated
  <2>3. QED
    BY <1>0, <1>4, <2>1, <2>2 DEF PublishOrderCreated
<1>5. ASSUME NEW o \in Order, NEW res \in Results, CompensateItem(o, res) PROVE TypeOK' /\ GoodRows'
  <2>1. create' \in [Order -> Creating]
    <3>1. create[o].item + 1 \in Nat /\ create[o].then \in CreatePC
      BY <1>5 DEF Creating, CreatePC
    <3>2. QED
      BY <1>5, <3>1, AdvanceFacts DEF CompensateItem, CreatePC
  <2>2. asked' \in [Order -> [Index -> [Kind -> Nat]]]
    BY <1>5, AskFacts, AskedItems DEF CompensateItem, Kind
  <2>3. faults' \in 0 .. MaxFaults
    BY <1>5, FaultType DEF CompensateItem
  <2>4. QED
    BY <1>0, <1>5, <2>1, <2>2, <2>3 DEF CompensateItem
<1>6. ASSUME NEW o \in Order, MarkFailed(o) \/ CreateDies(o) PROVE TypeOK' /\ GoodRows'
  <2>1. create' \in [Order -> Creating]
    BY <1>6, GotoFacts DEF MarkFailed, CreateDies, CreatePC
  <2>2. status' \in [Order -> Status]
    BY <1>6 DEF MarkFailed, CreateDies, UpdateStatus, Status
  <2>3. faults' \in 0 .. MaxFaults
    BY <1>6, FaultType DEF MarkFailed, CreateDies
  <2>4. QED
    BY <1>0, <1>6, <2>1, <2>2, <2>3 DEF MarkFailed, CreateDies
<1>7. ASSUME NEW o \in Order, NEW v \in Verdict, PaymentDecides(o, v) PROVE TypeOK' /\ GoodRows'
  BY <1>0, <1>7 DEF PaymentDecides
<1>8. ASSUME NEW o \in Order, NEW v \in Verdict, Deliver(v, o) PROVE TypeOK' /\ GoodRows'
  BY <1>0, <1>8 DEF Deliver, Handling, HandlerPC
<1>9. ASSUME NEW v \in Verdict, HandleUpdate(v) PROVE TypeOK' /\ GoodRows'
  <2>1. status' \in [Order -> Status]
    BY <1>9 DEF HandleUpdate, UpdateStatus, NextStatus, Status
  <2>2. handler' \in [Verdict -> Handling]
    <3>1. handler \in [Verdict -> Handling] /\ handler' = [handler EXCEPT ![v].pc = "publish"]
      BY <1>9 DEF HandleUpdate
    <3>2. \A h \in Handling : [h EXCEPT !.pc = "publish"] \in Handling
      BY DEF Handling, HandlerPC
    <3> HIDE DEF Inv, TypeOK
    <3>3. QED
      BY <3>1, <3>2
  <2>3. QED
    BY <1>0, <1>9, <2>1, <2>2 DEF HandleUpdate
<1>20. ASSUME NEW v \in Verdict, DoneWith(v)
       PROVE  /\ handler' \in [Verdict -> Handling]
              /\ channelOpen' \in BOOLEAN /\ listening' \in [Verdict -> BOOLEAN]
  <2>1. handler' \in [Verdict -> Handling]
    BY <1>20, IdleType DEF DoneWith
  <2>2. channelOpen' \in BOOLEAN /\ listening' \in [Verdict -> BOOLEAN]
    BY <1>20, Zenon DEF DoneWith
  <2>3. QED
    BY <2>1, <2>2
<1>10. ASSUME NEW v \in Verdict, Requeue(v), handler[v].pc # "idle"
       PROVE  /\ queue' \in [Verdict -> SUBSET Order] /\ handler' \in [Verdict -> Handling]
              /\ channelOpen' \in BOOLEAN /\ listening' \in [Verdict -> BOOLEAN]
  <2>1. queue' \in [Verdict -> SUBSET Order]
    BY <1>10 DEF Requeue, Handles
  <2>2. QED
    BY <1>10, <1>20, <2>1 DEF Requeue
<1>11. ASSUME NEW v \in Verdict, NEW res \in Results, HandlePublish(v, res) PROVE TypeOK' /\ GoodRows'
  <2>1. asked' \in [Order -> [Index -> [Kind -> Nat]]]
    BY <1>11, AskFacts, AskedItems DEF HandlePublish
  <2>2. /\ queue' \in [Verdict -> SUBSET Order] /\ handler' \in [Verdict -> Handling]
        /\ channelOpen' \in BOOLEAN /\ listening' \in [Verdict -> BOOLEAN]
    <3>1. handler[v].item + 1 \in Nat
      BY <1>11 DEF Handling
    <3>2. CASE res \in PublishError
      BY <1>10, <1>11, <3>2 DEF HandlePublish
    <3>3. CASE res \notin PublishError
      BY <1>11, <3>1, <3>3, HandlerFacts DEF HandlePublish, HandlerPC
    <3>4. QED
      BY <3>2, <3>3
  <2>3. faults' \in 0 .. MaxFaults
    BY <1>11, FaultType DEF HandlePublish
  <2>4. QED
    BY <1>0, <1>11, <2>1, <2>2, <2>3 DEF HandlePublish
<1>12. ASSUME NEW v \in Verdict, Ack(v) \/ HandlerFails(v) PROVE TypeOK' /\ GoodRows'
  <2>1. /\ queue' \in [Verdict -> SUBSET Order] /\ handler' \in [Verdict -> Handling]
        /\ channelOpen' \in BOOLEAN /\ listening' \in [Verdict -> BOOLEAN]
    BY <1>10, <1>12, <1>20 DEF Ack, HandlerFails
  <2>2. faults' \in 0 .. MaxFaults
    BY <1>12, FaultType DEF Ack, HandlerFails, NoFault
  <2>3. QED
    BY <1>0, <1>12, <2>1, <2>2 DEF Ack, HandlerFails
<1>13. ASSUME NEW o \in Order, NEW i \in Items(o), NEW k \in Kind, ApplyStockEvent(o, i, k)
       PROVE  TypeOK' /\ GoodRows'
  BY <1>13, ApplyFacts DEF ApplyStockEvent
<1>14. CASE UNCHANGED vars
  BY <1>0, <1>14 DEF vars
<1>15. ASSUME NEW o \in Order, CompensateHangs(o) PROVE TypeOK' /\ GoodRows'
  <2>1. create' \in [Order -> Creating]
    BY <1>15, GotoFacts DEF CompensateHangs, CreatePC
  <2>2. asked' \in [Order -> [Index -> [Kind -> Nat]]]
    BY <1>15, AskFacts, AskedItems DEF CompensateHangs, Kind
  <2>3. QED
    BY <1>0, <1>15, <2>1, <2>2 DEF CompensateHangs
<1>16. ASSUME NEW v \in Verdict, HandlerHangs(v) PROVE TypeOK' /\ GoodRows'
  <2>1. asked' \in [Order -> [Index -> [Kind -> Nat]]]
    BY <1>16, AskFacts, AskedItems DEF HandlerHangs
  <2>2. handler' \in [Verdict -> Handling]
    <3>1. handler \in [Verdict -> Handling] /\ handler' = [handler EXCEPT ![v].pc = "hung"]
      BY <1>16 DEF HandlerHangs
    <3>2. \A h \in Handling : [h EXCEPT !.pc = "hung"] \in Handling
      BY DEF Handling, HandlerPC
    <3> HIDE DEF Inv, TypeOK
    <3>3. QED
      BY <3>1, <3>2
  <2>3. QED
    BY <1>0, <1>16, <2>1, <2>2 DEF HandlerHangs
<1>17. ASSUME NEW v \in Verdict, LoopEnds(v) PROVE TypeOK' /\ GoodRows'
  <2>1. listening' \in [Verdict -> BOOLEAN]
    BY <1>17, Zenon DEF LoopEnds
  <2>2. QED
    BY <1>0, <1>17, <2>1 DEF LoopEnds
<1>18. ASSUME ChannelCloses \/ Restart PROVE TypeOK' /\ GoodRows'
  <2>1. queue' \in [Verdict -> SUBSET Order]
    <3>1. \A v \in Verdict : queue[v] \cup Unacked(v) \in SUBSET Order
      BY DEF Unacked, Handles
    <3>2. QED
      BY <1>18, <3>1, Zenon DEF ChannelCloses, Restart
  <2>2. handler' \in [Verdict -> Handling]
    BY <1>18, IdleType DEF ChannelCloses, Restart
  <2>3. channelOpen' \in BOOLEAN /\ listening' \in [Verdict -> BOOLEAN]
    BY <1>18, Zenon DEF ChannelCloses, Restart
  <2>4. faults' \in 0 .. MaxFaults
    BY <1>18, FaultType DEF ChannelCloses, Restart
  <2>5. QED
    BY <1>0, <1>18, <2>1, <2>2, <2>3, <2>4 DEF ChannelCloses, Restart
<1>19. QED
  BY <1>1, <1>2, <1>3, <1>4, <1>5, <1>6, <1>7, <1>8, <1>9, <1>11, <1>12, <1>13, <1>14, <1>15, <1>16, <1>17, <1>18
     DEF Next, CreateStep, HandlerStep

-----------------------------------------------------------------------------
\* Reservations and published stock events are not taken back, nor verdicts.
LEMMA Mono ==
    ASSUME Inv, [Next]_vars
    PROVE  /\ \A p \in Order, j \in Index : held[p][j] => held'[p][j]
           /\ \A p \in Order, j \in Index, l \in Kind : Requests(p, j, l)' >= Requests(p, j, l)
           /\ \A p \in Order : verdict[p] # "none" => verdict'[p] = verdict[p]
<1> DEFINE HeldOK == \A p \in Order, j \in Index : held[p][j] => held'[p][j]
           AskedOK == \A p \in Order, j \in Index, l \in Kind : Requests(p, j, l)' >= Requests(p, j, l)
           VerdictOK == \A p \in Order : verdict[p] # "none" => verdict'[p] = verdict[p]
<1>1. UNCHANGED held => HeldOK
  OBVIOUS
<1>2. \A p \in Order, j \in Index, l \in Kind : asked[p][j][l] \in Nat /\ applied[p][j][l] \in Nat
  BY DEF Inv, TypeOK
<1>3. UNCHANGED <<asked, applied>> => AskedOK
  BY <1>2 DEF Requests
<1>4. UNCHANGED verdict => VerdictOK
  OBVIOUS
<1>5. ASSUME NEW o \in Order, NEW i \in Index, NEW k \in Kind, Ask(o, i, k), UNCHANGED applied
      PROVE  AskedOK
  <2> SUFFICES ASSUME NEW p \in Order, NEW j \in Index, NEW l \in Kind
               PROVE  Requests(p, j, l)' >= Requests(p, j, l)
    OBVIOUS
  <2>1. asked'[p][j][l] = asked[p][j][l] \/ asked'[p][j][l] = asked[p][j][l] + 1
    BY <1>5, AskFacts DEF Inv
  <2>2. applied'[p][j][l] = applied[p][j][l]
    BY <1>5
  <2>3. QED
    BY <1>2, <2>1, <2>2 DEF Requests
<1> USE DEF createVars, paymentVars, stockVars
<1>6. ASSUME NEW o \in Order, ReserveAnswered(o) \/ ReserveFails(o) PROVE HeldOK /\ AskedOK /\ VerdictOK
  <2>1. HeldOK
    BY <1>1, <1>6, ReserveFacts DEF ReserveAnswered, ReserveFails
  <2>2. QED
    BY <1>3, <1>4, <1>6, <2>1 DEF ReserveAnswered, ReserveFails
<1>7. ASSUME NEW o \in Order, NEW res \in Results, CompensateItem(o, res) PROVE HeldOK /\ AskedOK /\ VerdictOK
  <2>1. AskedOK
    BY <1>3, <1>5, <1>7, AskedItems DEF CompensateItem, Kind
  <2>2. QED
    BY <1>1, <1>4, <1>7, <2>1 DEF CompensateItem
<1>8. ASSUME NEW v \in Verdict, NEW res \in Results, HandlePublish(v, res) PROVE HeldOK /\ AskedOK /\ VerdictOK
  <2>1. AskedOK
    BY <1>3, <1>5, <1>8, AskedItems DEF HandlePublish
  <2>2. QED
    BY <1>1, <1>4, <1>8, <2>1 DEF HandlePublish
<1>9. ASSUME NEW o \in Order, NEW v \in Verdict, PaymentDecides(o, v) PROVE HeldOK /\ AskedOK /\ VerdictOK
  <2>1. VerdictOK
    BY <1>9 DEF PaymentDecides, Inv, TypeOK, Announcing
  <2>2. QED
    BY <1>1, <1>3, <1>9, <2>1 DEF PaymentDecides
<1>10. ASSUME NEW o \in Order, NEW i \in Items(o), NEW k \in Kind, ApplyStockEvent(o, i, k)
       PROVE  HeldOK /\ AskedOK /\ VerdictOK
  <2>1. AskedOK
    <3> SUFFICES ASSUME NEW p \in Order, NEW j \in Index, NEW l \in Kind
                 PROVE  Requests(p, j, l)' >= Requests(p, j, l)
      OBVIOUS
    <3>1. Requests(p, j, l)' = Requests(p, j, l)
      BY <1>10, ApplyFacts
    <3>2. Requests(p, j, l) \in Nat
      BY <1>2 DEF Requests
    <3>3. QED
      BY <3>1, <3>2
  <2>2. QED
    BY <1>1, <1>4, <1>10, <2>1 DEF ApplyStockEvent
<1>11. ASSUME NEW o \in Order, CompensateHangs(o) PROVE HeldOK /\ AskedOK /\ VerdictOK
  <2>1. AskedOK
    BY <1>5, <1>11, AskedItems DEF CompensateHangs, Kind
  <2>2. QED
    BY <1>1, <1>4, <1>11, <2>1 DEF CompensateHangs
<1>12. ASSUME NEW v \in Verdict, HandlerHangs(v) PROVE HeldOK /\ AskedOK /\ VerdictOK
  <2>1. AskedOK
    BY <1>5, <1>12, AskedItems DEF HandlerHangs
  <2>2. QED
    BY <1>1, <1>4, <1>12, <2>1 DEF HandlerHangs
<1>13. QED
  BY <1>1, <1>3, <1>4, <1>6, <1>7, <1>8, <1>9, <1>10, <1>11, <1>12
     DEF Next, CreateStep, HandlerStep, vars, BeginCreate, PersistOrder, PersistFails,
         PublishOrderCreated, MarkFailed, CreateDies, Deliver, HandleUpdate, Ack, HandlerFails,
         LoopEnds, ChannelCloses, Restart

\* A call of CreateOrder that a step does not touch, ...
LEMMA ElsewhereCall ==
    ASSUME Inv, [Next]_vars, NEW o \in Order, create'[o] = create[o], cart'[o] = cart[o]
    PROVE  /\ Reserving(o)' /\ Items(o)' = Items(o)
           /\ \A j \in Items(o) : held[o][j] => held'[o][j]
<1>1. Items(o)' = Items(o)
  BY DEF Items
<1>2. \A j \in Items(o) : j \in Index
  BY CartFacts DEF Inv
<1>3. \A j \in Items(o) : held[o][j] => held'[o][j]
  BY <1>2, Mono
<1>4. Reserving(o) /\ Items(o) = 1 .. Len(cart[o])
  BY CartFacts DEF Inv
<1>5. create[o].pc = "compensate" => \A j \in 1 .. create[o].last : j \in Items(o)
  BY <1>4 DEF Reserving
<1>6. QED
  BY <1>1, <1>3, <1>4, <1>5 DEF Reserving

\* ... and an order that it does not touch.
LEMMA Elsewhere ==
    ASSUME Inv, [Next]_vars, NEW o \in Order,
           create'[o] = create[o], cart'[o] = cart[o], status'[o] = status[o],
           o \in orderEvents' <=> o \in orderEvents, verdict'[o] = verdict[o]
    PROVE  Reserving(o)' /\ Announcing(o)'
  BY ElsewhereCall DEF Inv, Announcing

\* CreateOrder compensates what it holds.
LEMMA CompensatingOK ==
    ASSUME Inv, [Next]_vars, NEW o \in Order, NEW n \in Nat, NEW then \in {"fail", "rejected"},
           StartCompensation(o, n, then), n <= Len(cart[o]), cart[o] \in Carts, UNCHANGED cart,
           \A j \in 1 .. n : held[o][j]
    PROVE  Reserving(o)'
<1>1. /\ create'[o].pc = IF n = 0 THEN then ELSE "compensate"
      /\ create'[o].item = 1 /\ create'[o].last = n
  BY Compensating DEF Inv
<1>2. Items(o)' = 1 .. Len(cart[o]) /\ Len(cart[o]) \in Nat /\ \A j \in 1 .. Len(cart[o]) : j \in Index
  BY CartFacts DEF Inv, Items
<1>3. \A j \in 1 .. n : held'[o][j]
  BY <1>2, Mono
<1>4. QED
  BY <1>1, <1>2, <1>3 DEF Reserving

\* The steps of CreateOrder on its own order.
LEMMA CreateOK ==
    ASSUME Inv, [Next]_vars, NEW o \in Order,
           \/ \E c \in Carts : BeginCreate(o, c)
           \/ CreateStep(o) \/ ReserveFails(o) \/ PersistFails(o) \/ CreateDies(o)
    PROVE  Reserving(o)' /\ Announcing(o)'
<1> USE DEF createVars, paymentVars, stockVars
<1>1. cart[o] \in Seq(Item) /\ Len(cart[o]) \in Nat /\ Items(o) = 1 .. Len(cart[o])
      /\ Items(o) \subseteq Index /\ Reserving(o) /\ Announcing(o)
  BY CartFacts DEF Inv
<1>2. \A j \in Items(o) : held[o][j] => held'[o][j]
  BY <1>1, Mono
<1>3. ASSUME NEW c \in Carts, BeginCreate(o, c) PROVE Reserving(o)' /\ Announcing(o)'
  <2>1. /\ create'[o].pc = "reserve" /\ create'[o].item = 1
        /\ cart'[o] = c /\ UNCHANGED <<status, orderEvents, verdict>>
    BY <1>3 DEF BeginCreate, NotStarted, Inv, TypeOK
  <2>2. c \in Seq(Item) /\ c # <<>>
    BY SagaAssumption, Zenon
  <2>3. Len(c) \in Nat /\ Len(c) > 0 /\ DOMAIN c = 1 .. Len(c)
    BY <2>2
  <2>4. Items(o)' = 1 .. Len(c)
    BY <2>1, <2>3 DEF Items
  <2>5. status[o] = "none" /\ o \notin orderEvents /\ verdict[o] = "none"
    BY <1>1, <1>3 DEF BeginCreate, Announcing
  <2>6. QED
    BY <2>1, <2>3, <2>4, <2>5 DEF Reserving, Announcing
<1>4. ASSUME UNCHANGED <<cart, status, orderEvents, verdict>>, create[o].pc # "idle",
             create[o].pc \notin {"reserve", "persist"} => create'[o].pc \notin {"idle", "reserve", "persist"},
             create'[o].pc \notin {"idle", "publish"}
      PROVE  Announcing(o)'
  <2>1. Items(o)' = Items(o)
    BY <1>4 DEF Items
  <2>2. create[o].pc \in {"reserve", "persist"} => status[o] = "none" /\ o \notin orderEvents /\ verdict[o] = "none"
    BY <1>1 DEF Announcing
  <2>3. QED
    BY <1>1, <1>2, <1>4, <2>1, <2>2 DEF Announcing
<1>5. ASSUME ReserveAnswered(o) \/ ReserveFails(o) PROVE Reserving(o)' /\ Announcing(o)'
  <2> DEFINE i == create[o].item
  <2>1. /\ create[o].pc = "reserve" /\ UNCHANGED <<cart, status, orderEvents, verdict>>
        /\ cart[o] \in Carts /\ i \in 1 .. Len(cart[o])
        /\ \A j \in Items(o) : j < i => held[o][j]
    BY <1>1, <1>5 DEF ReserveAnswered, ReserveFails, Reserving
  <2>2. CASE StartCompensation(o, i - 1, "rejected")
    <3>1. i - 1 \in Nat /\ i - 1 <= Len(cart[o]) /\ \A j \in 1 .. (i - 1) : held[o][j]
      BY <1>1, <2>1
    <3>2. create'[o].pc \in {"rejected", "compensate"}
      BY <2>2, <3>1, Compensating DEF Inv
    <3>3. QED
      BY <1>4, <2>1, <2>2, <3>1, <3>2, CompensatingOK
  <2>3. CASE /\ held' = [held EXCEPT ![o][i] = TRUE]
             /\ create' = [create EXCEPT ![o] =
                             [@ EXCEPT !.pc = IF i = Len(cart[o]) THEN "persist" ELSE "reserve",
                                       !.item = i + 1]]
    <3>1. i \in Index /\ held'[o][i]
      BY <1>1, <2>1, <2>3, HeldFacts DEF Inv
    <3>2. /\ create'[o].pc = IF i = Len(cart[o]) THEN "persist" ELSE "reserve"
          /\ create'[o].item = i + 1
      <4> DEFINE next == IF i = Len(cart[o]) THEN "persist" ELSE "reserve"
      <4>1. next \in CreatePC /\ i + 1 \in Nat /\ TypeOK
        BY <2>1 DEF CreatePC, Inv
      <4>2. create' = [create EXCEPT ![o] = [@ EXCEPT !.pc = next, !.item = i + 1]]
        BY <2>3
      <4> HIDE DEF next
      <4>3. create'[o] = [create[o] EXCEPT !.pc = next, !.item = i + 1] /\ create[o] \in Creating
        BY <4>1, <4>2 DEF TypeOK
      <4>4. create'[o].pc = next /\ create'[o].item = i + 1
        BY <4>3 DEF Creating
      <4>5. QED
        BY <4>4 DEF next
    <3>3. \A j \in Items(o) : j < i + 1 => held'[o][j]
      BY <1>1, <1>2, <2>1, <3>1
    <3>4. Items(o)' = 1 .. Len(cart[o]) /\ cart'[o] = cart[o]
      BY <1>1, <2>1 DEF Items
    <3>5. Reserving(o)'
      BY <1>1, <2>1, <3>2, <3>3, <3>4 DEF Reserving
    <3>6. QED
      BY <1>4, <2>1, <3>2, <3>5
  <2>4. QED
    BY <1>5, <2>2, <2>3 DEF ReserveAnswered, ReserveFails
<1>6. ASSUME PersistOrder(o) \/ PersistFails(o) PROVE Reserving(o)' /\ Announcing(o)'
  <2>1. /\ create[o].pc = "persist" /\ UNCHANGED <<cart, orderEvents, verdict>>
        /\ cart[o] \in Carts /\ (\A j \in Items(o) : held[o][j])
        /\ o \notin orderEvents /\ verdict[o] = "none"
    BY <1>1, <1>6 DEF PersistOrder, PersistFails, Reserving, Announcing
  <2>2. CASE StartCompensation(o, Len(cart[o]), "rejected")
    <3>1. create'[o].pc \in {"rejected", "compensate"}
      BY <1>1, <2>2, Compensating DEF Inv
    <3>2. Reserving(o)'
      BY <1>1, <2>1, <2>2, CompensatingOK
    <3>3. QED
      BY <2>1, <3>1, <3>2 DEF Announcing
  <2>3. CASE Goto(o, "publish")
    <3>1. create'[o].pc = "publish"
      BY <2>3, GotoFacts DEF Inv, CreatePC
    <3>2. Items(o)' = Items(o) /\ cart'[o] = cart[o]
      BY <2>1 DEF Items
    <3>3. QED
      BY <1>2, <2>1, <3>1, <3>2 DEF Reserving, Announcing
  <2>4. QED
    BY <1>6, <2>2, <2>3 DEF PersistOrder, PersistFails
<1>7. ASSUME NEW res \in Results, PublishOrderCreated(o, res) PROVE Reserving(o)' /\ Announcing(o)'
  <2>1. /\ create[o].pc = "publish" /\ UNCHANGED <<cart, status, verdict>>
        /\ cart[o] \in Carts /\ (\A j \in Items(o) : held[o][j]) /\ verdict[o] = "none"
    BY <1>1, <1>7 DEF PublishOrderCreated, Reserving, Announcing
  <2>2. Items(o)' = Items(o) /\ cart'[o] = cart[o]
    BY <2>1 DEF Items
  <2>3. create'[o].pc \in {"fail", "compensate", "accepted"} => Announcing(o)'
    BY <1>2, <2>1, <2>2 DEF Announcing
  <2>4. CASE StartCompensation(o, Len(cart[o]), "fail")
    <3>1. create'[o].pc \in {"fail", "compensate"}
      BY <1>1, <2>4, Compensating DEF Inv
    <3>2. QED
      BY <1>1, <2>1, <2>3, <2>4, <3>1, CompensatingOK
  <2>5. CASE Goto(o, "accepted")
    <3>1. create'[o].pc = "accepted"
      BY <2>5, GotoFacts DEF Inv, CreatePC
    <3>2. QED
      BY <2>1, <2>2, <2>3, <3>1 DEF Reserving
  <2>6. QED
    BY <1>7, <2>4, <2>5 DEF PublishOrderCreated
<1>8. ASSUME NEW res \in Results, CompensateItem(o, res) PROVE Reserving(o)' /\ Announcing(o)'
  <2> DEFINE i == create[o].item
             next == IF i = create[o].last THEN create[o].then ELSE "compensate"
  <2>1. /\ create[o].pc = "compensate" /\ UNCHANGED <<cart, status, orderEvents, verdict, held>>
        /\ cart[o] \in Carts /\ i \in 1 .. create[o].last /\ create[o].last \in Items(o)
        /\ \A j \in 1 .. create[o].last : held[o][j]
    BY <1>1, <1>8 DEF CompensateItem, Reserving
  <2>2. i + 1 \in Nat /\ next \in {"fail", "rejected", "compensate"} /\ next \in CreatePC
    BY DEF Inv, TypeOK, Creating, CreatePC
  <2>3. create'[o].pc = next /\ create'[o].item = i + 1 /\ create'[o].last = create[o].last
    <3>1. create' = [create EXCEPT ![o] = [@ EXCEPT !.pc = next, !.item = i + 1]]
      BY <1>8 DEF CompensateItem
    <3> HIDE DEF next
    <3>2. create'[o] = [create[o] EXCEPT !.pc = next, !.item = i + 1] /\ create[o] \in Creating
      BY <3>1 DEF Inv, TypeOK
    <3>3. QED
      BY <3>2 DEF Creating
  <2>4. Items(o)' = Items(o) /\ cart'[o] = cart[o]
    BY <2>1 DEF Items
  <2>5. Reserving(o)'
    <3>1. create'[o].pc = "compensate" => i # create[o].last
      BY <2>2, <2>3 DEF Inv, TypeOK, Creating
    <3>2. create[o].last \in Nat
      BY <1>1, <2>1
    <3>3. create'[o].pc = "compensate" => i + 1 \in 1 .. create[o].last
      BY <2>1, <3>1, <3>2
    <3>4. create'[o].pc \in {"fail", "rejected", "compensate"}
      BY <2>2, <2>3
    <3> HIDE DEF next
    <3>5. QED
      BY <2>1, <2>3, <2>4, <3>3, <3>4 DEF Reserving
  <2>6. QED
    BY <1>4, <2>1, <2>2, <2>3, <2>5
<1>9. ASSUME MarkFailed(o) \/ CreateDies(o) PROVE Reserving(o)' /\ Announcing(o)'
  <2>1. /\ create[o].pc # "idle" /\ UNCHANGED <<cart, orderEvents, verdict>>
        /\ create'[o].pc \in {"rejected", "dead"}
    BY <1>9, GotoFacts DEF MarkFailed, CreateDies, CreatePC, Inv
  <2>2. Items(o)' = Items(o) /\ cart'[o] = cart[o]
    BY <2>1 DEF Items
  <2>3. QED
    BY <1>1, <1>2, <2>1, <2>2 DEF Reserving, Announcing
<1>10. ASSUME CompensateHangs(o) PROVE Reserving(o)' /\ Announcing(o)'
  <2>1. /\ create[o].pc = "compensate" /\ create'[o].pc = "hung"
        /\ cart[o] \in Carts /\ UNCHANGED <<cart, status, orderEvents, verdict>>
    BY <1>1, <1>10, GotoFacts DEF CompensateHangs, CreatePC, Inv, Reserving
  <2>2. QED
    BY <1>4, <2>1 DEF Reserving
<1>11. QED
  BY <1>3, <1>5, <1>6, <1>7, <1>8, <1>9, <1>10 DEF CreateStep

\* Every step keeps what CreateOrder relies on.
LEMMA OrderStep ==
    ASSUME Inv, [Next]_vars, NEW o \in Order PROVE Reserving(o)' /\ Announcing(o)'
<1> USE DEF createVars, paymentVars, stockVars
<1>1. ASSUME NEW q \in Order,
             \/ \E c \in Carts : BeginCreate(q, c)
             \/ CreateStep(q) \/ ReserveFails(q) \/ PersistFails(q) \/ CreateDies(q)
      PROVE  Reserving(o)' /\ Announcing(o)'
  <2>1. CASE q = o
    BY <1>1, <2>1, CreateOK
  <2>2. CASE q # o
    <3>1. create'[o] = create[o]
      BY <1>1, <2>2 DEF BeginCreate, CreateStep, ReserveAnswered, ReserveFails, PersistOrder, PersistFails,
                        PublishOrderCreated, CompensateItem, CompensateHangs, MarkFailed, CreateDies,
                        StartCompensation, Goto, Inv, TypeOK
    <3>2. cart'[o] = cart[o] /\ status'[o] = status[o] /\ verdict'[o] = verdict[o]
      BY <1>1, <2>2 DEF BeginCreate, CreateStep, ReserveAnswered, ReserveFails, PersistOrder, PersistFails,
                        PublishOrderCreated, CompensateItem, CompensateHangs, MarkFailed, CreateDies,
                        UpdateStatus, Inv, TypeOK
    <3>3. o \in orderEvents' <=> o \in orderEvents
      BY <1>1, <2>2 DEF BeginCreate, CreateStep, ReserveAnswered, ReserveFails, PersistOrder, PersistFails,
                        PublishOrderCreated, CompensateItem, CompensateHangs, MarkFailed, CreateDies
    <3>4. QED
      BY <3>1, <3>2, <3>3, Elsewhere
  <2>3. QED
    BY <2>1, <2>2
<1>2. ASSUME NEW q \in Order, NEW v \in Verdict, PaymentDecides(q, v) PROVE Reserving(o)' /\ Announcing(o)'
  <2>1. CASE q = o
    <3>1. Reserving(o)' /\ Items(o)' = Items(o) /\ (\A j \in Items(o) : held[o][j] => held'[o][j])
          /\ create'[o] = create[o] /\ status'[o] = status[o]
      BY <1>2, ElsewhereCall DEF PaymentDecides
    <3>2. o \in orderEvents /\ o \notin orderEvents'
      BY <1>2, <2>1 DEF PaymentDecides
    <3>3. QED
      BY <3>1, <3>2 DEF Announcing, Inv
  <2>2. CASE q # o
    BY <1>2, <2>2, Elsewhere DEF PaymentDecides, Inv, TypeOK
  <2>3. QED
    BY <2>1, <2>2
<1>3. ASSUME NEW v \in Verdict, HandleUpdate(v) PROVE Reserving(o)' /\ Announcing(o)'
  <2>1. /\ handler[v].pc = "update" /\ UNCHANGED <<create, cart, orderEvents, verdict>>
        /\ handler[v].order \in Order /\ verdict[handler[v].order] # "none"
    BY <1>3 DEF HandleUpdate, Inv, Handles, Verdict
  <2>2. CASE handler[v].order = o
    <3>1. Reserving(o)' /\ Items(o)' = Items(o) /\ \A j \in Items(o) : held[o][j] => held'[o][j]
      BY <2>1, ElsewhereCall
    <3>2. QED
      BY <2>1, <2>2, <3>1 DEF Announcing, Inv
  <2>3. CASE handler[v].order # o
    <3>1. status'[o] = status[o]
      BY <1>3, <2>3 DEF HandleUpdate, UpdateStatus, Inv, TypeOK
    <3>2. QED
      BY <2>1, <3>1, Elsewhere
  <2>4. QED
    BY <2>2, <2>3
<1>4. CASE UNCHANGED <<createVars, verdict>>
  BY <1>4, Elsewhere
<1>5. QED
  BY <1>1, <1>2, <1>3, <1>4
     DEF Next, HandlerStep, vars, Deliver, HandlePublish, HandlerHangs, Ack, HandlerFails,
         LoopEnds, ChannelCloses, Restart, ApplyStockEvent

-----------------------------------------------------------------------------

\* An order with a verdict keeps its items, and what was asked for them.
LEMMA Decided ==
    ASSUME Inv, [Next]_vars, NEW q \in Order, verdict[q] # "none"
    PROVE  /\ Items(q)' = Items(q) /\ Len(cart[q])' = Len(cart[q])
           /\ verdict'[q] = verdict[q]
           /\ 1 \in Items(q) /\ Items(q) \subseteq Index /\ Items(q) = 1 .. Len(cart[q])
           /\ \A j \in Items(q), k \in Kind :
                 /\ Requests(q, j, k) \in Nat /\ Requests(q, j, k)' \in Nat
                 /\ Requests(q, j, k) > 0 => Requests(q, j, k)' > 0
<1>1. create[q].pc # "idle"
  BY DEF Inv, Announcing
<1>2. cart'[q] = cart[q]
  BY <1>1 DEF Inv, TypeOK, Next, vars, createVars, CreateStep, HandlerStep, BeginCreate, ReserveAnswered,
         ReserveFails, PersistOrder, PersistFails, PublishOrderCreated, CompensateItem, CompensateHangs,
         MarkFailed, CreateDies, PaymentDecides, Deliver, HandleUpdate, HandlePublish, HandlerHangs, Ack,
         HandlerFails, LoopEnds, ChannelCloses, Restart, ApplyStockEvent
<1>3. cart[q] \in Carts
  BY <1>1 DEF Inv, Reserving
<1>4. cart[q] \in Seq(Item) /\ cart[q] # <<>>
  BY <1>3, SagaAssumption, Zenon
<1>5. 1 \in Items(q) /\ Items(q) \subseteq Index /\ Items(q) = 1 .. Len(cart[q])
  <2>1. Items(q) \subseteq Index /\ Items(q) = 1 .. Len(cart[q])
    BY CartFacts DEF Inv
  <2>2. Len(cart[q]) \in Nat /\ Len(cart[q]) > 0
    BY <1>4
  <2>3. QED
    BY <2>1, <2>2
<1>6. ASSUME NEW j \in Items(q), NEW k \in Kind
      PROVE  /\ Requests(q, j, k) \in Nat /\ Requests(q, j, k)' \in Nat
             /\ Requests(q, j, k) > 0 => Requests(q, j, k)' > 0
  <2>1. Requests(q, j, k) \in Nat
    BY <1>5, <1>6 DEF Requests, Inv, TypeOK
  <2>2. Requests(q, j, k)' \in Nat
    BY <1>5, <1>6, TypeStep DEF Requests, TypeOK
  <2>3. Requests(q, j, k)' >= Requests(q, j, k)
    BY <1>5, <1>6, Mono
  <2>4. QED
    BY <2>1, <2>2, <2>3
<1>7. QED
  BY <1>2, <1>5, <1>6, Mono DEF Items

\* A handler that has asked for an item has a request for it on record.
LEMMA Asked ==
    ASSUME Inv, [Next]_vars, NEW o \in Order, NEW i \in Index, NEW k \in Kind, Ask(o, i, k), UNCHANGED applied
    PROVE  Requests(o, i, k)' > 0
<1>1. asked'[o][i][k] = asked[o][i][k] + 1 /\ applied'[o][i][k] = applied[o][i][k]
  BY AskFacts DEF Inv
<1>2. asked[o][i][k] \in Nat /\ applied[o][i][k] \in Nat
  BY DEF Inv, TypeOK
<1>3. QED
  BY <1>1, <1>2 DEF Requests

\* Payment events.
LEMMA HandlesStep ==
    ASSUME Inv, [Next]_vars, NEW v \in Verdict PROVE Handles(v)'
<1> USE DEF createVars, paymentVars, stockVars
<1> DEFINE h == handler[v].order
<1>0. v # "none" /\ StockKind(v) \in Kind /\ Handles(v)
  BY DEF Verdict, StockKind, Kind, Inv
<1>1. \A q \in queue[v] : q \in Order /\ verdict[q] = v /\ verdict'[q] = v
  BY <1>0, Decided DEF Handles, Inv, TypeOK
<1>2. handler[v].pc # "idle" =>
         /\ h \in Order
         /\ \A q \in Order : q = h =>
               /\ verdict[q] = v /\ verdict'[q] = v /\ Items(q)' = Items(q)
               /\ \A j \in Items(q) : Requests(q, j, StockKind(v)) > 0 => Requests(q, j, StockKind(v))' > 0
  BY <1>0, Decided DEF Handles
<1>3. ASSUME \A q \in queue'[v] : q \in Order /\ verdict'[q] = v,
             handler'[v] = handler[v] \/ handler'[v].pc = "idle"
      PROVE  Handles(v)'
  <2>1. CASE handler'[v].pc = "idle"
    BY <1>3, <2>1 DEF Handles
  <2>2. CASE handler'[v].pc # "idle"
    BY <1>0, <1>2, <1>3, <2>2 DEF Handles
  <2>3. QED
    BY <2>1, <2>2
<1>4. CASE UNCHANGED <<queue, handler>>
  BY <1>1, <1>3, <1>4
<1>5. ASSUME NEW w \in Verdict, NEW q \in Order, PaymentDecides(q, w) PROVE Handles(v)'
  <2>1. handler' = handler /\ verdict' = [verdict EXCEPT ![q] = w] /\ queue' = [queue EXCEPT ![w] = @ \cup {q}]
    BY <1>5 DEF PaymentDecides
  <2>2. \A p \in queue'[v] : p \in Order /\ verdict'[p] = v
    BY <1>1, <2>1 DEF Inv, TypeOK
  <2>3. QED
    BY <1>3, <2>1, <2>2
<1>6. ASSUME NEW w \in Verdict, NEW q \in Order, Deliver(w, q) PROVE Handles(v)'
  <2>1. \A p \in queue'[v] : p \in queue[v]
    BY <1>6 DEF Deliver, Inv, TypeOK
  <2>2. CASE w # v
    BY <1>1, <1>3, <1>6, <2>1, <2>2 DEF Deliver, Inv, TypeOK
  <2>3. CASE w = v
    <3>1. q \in queue[v] /\ handler'[v] = [pc |-> "update", order |-> q, item |-> 1]
      BY <1>6, <2>3 DEF Deliver, Inv, TypeOK
    <3>2. verdict[q] = v /\ verdict'[q] = v
      BY <1>1, <3>1
    <3>3. 1 \in Items(q) /\ Items(q)' = Items(q) /\ Items(q) = 1 .. Len(cart[q])
      BY <1>0, <3>2, Decided
    <3>4. \A j \in Items(q) : ~(j < 1)
      BY <3>3
    <3>5. QED
      BY <1>1, <2>1, <3>1, <3>2, <3>3, <3>4 DEF Handles
  <2>4. QED
    BY <2>2, <2>3
<1>7. ASSUME NEW w \in Verdict, HandleUpdate(w) PROVE Handles(v)'
  <2>1. CASE w # v
    BY <1>1, <1>3, <1>7, <2>1 DEF HandleUpdate, Inv, TypeOK
  <2>2. CASE w = v
    <3>1. handler[v].pc = "update" /\ handler' = [handler EXCEPT ![v].pc = "publish"] /\ UNCHANGED queue
      BY <1>7, <2>2 DEF HandleUpdate
    <3>2. handler'[v].pc = "publish" /\ handler'[v].order = h /\ handler'[v].item = handler[v].item
      BY <3>1 DEF Inv, TypeOK, Handling
    <3>3. QED
      BY <1>0, <1>1, <1>2, <3>1, <3>2 DEF Handles
  <2>3. QED
    BY <2>1, <2>2
<1>8. ASSUME NEW w \in Verdict, Requeue(w), handler[w].pc # "idle" PROVE Handles(v)'
  <2>1. CASE w # v
    BY <1>1, <1>3, <1>8, <2>1 DEF Requeue, DoneWith, Inv, TypeOK
  <2>2. CASE w = v
    <3>1. queue'[v] = queue[v] \cup {h} /\ handler'[v].pc = "idle"
      BY <1>8, <2>2, IdleType DEF Requeue, DoneWith, Inv, TypeOK
    <3>2. QED
      BY <1>1, <1>2, <1>3, <1>8, <2>2, <3>1
  <2>3. QED
    BY <2>1, <2>2
<1>9. ASSUME NEW w \in Verdict, NEW res \in Results, HandlePublish(w, res) PROVE Handles(v)'
  <2>1. CASE res \in PublishError
    BY <1>8, <1>9, <2>1 DEF HandlePublish
  <2>2. CASE res \notin PublishError /\ w # v
    BY <1>1, <1>3, <1>9, <2>2 DEF HandlePublish, Inv, TypeOK
  <2>3. CASE res \notin PublishError /\ w = v
    <3>0. PICK q \in Order, i \in Index : q = h /\ i = handler[v].item
      BY <1>9, <2>3, AskedItems DEF HandlePublish
    <3> DEFINE next == IF i = Len(cart[q]) THEN "ack" ELSE "publish"
    <3>1. /\ handler[v].pc = "publish" /\ UNCHANGED <<queue, applied>>
          /\ Ask(q, i, StockKind(v))
          /\ handler' = [handler EXCEPT ![v] = [@ EXCEPT !.pc = next, !.item = i + 1]]
      BY <1>9, <2>3, <3>0 DEF HandlePublish, Results, Published, PublishError
    <3>2. i \in Items(q) /\ Items(q) = 1 .. Len(cart[q]) /\ Len(cart[q]) \in Nat
      BY <3>0, <3>1, AskedItems, CartFacts DEF Inv
    <3>3. Requests(q, i, StockKind(v))' > 0
      BY <1>0, <3>1, Asked
    <3>4. \A j \in Items(q) : j < i + 1 => Requests(q, j, StockKind(v))' > 0
      <4> SUFFICES ASSUME NEW j \in Items(q), j < i + 1 PROVE Requests(q, j, StockKind(v))' > 0
        OBVIOUS
      <4>1. j = i \/ j < i
        BY <3>2
      <4>2. j < i => Requests(q, j, StockKind(v)) > 0
        BY <1>0, <3>0, <3>1 DEF Handles
      <4>3. QED
        BY <1>2, <3>0, <3>1, <3>3, <4>1, <4>2
    <3>5. handler'[v].pc = next /\ handler'[v].item = i + 1 /\ handler'[v].order = q
      <4> HIDE DEF next
      <4>1. handler'[v] = [handler[v] EXCEPT !.pc = next, !.item = i + 1] /\ handler[v] \in Handling
        BY <3>1 DEF Inv, TypeOK
      <4>2. QED
        BY <3>0, <4>1 DEF Handling
    <3>6. next = "publish" => i + 1 \in Items(q)
      BY <3>2
    <3>7. next = "ack" => \A j \in Items(q) : j < i + 1
      BY <3>2
    <3>8. next \in {"ack", "publish"}
      OBVIOUS
    <3> HIDE DEF next
    <3>9. QED
      BY <1>1, <1>2, <3>0, <3>1, <3>4, <3>5, <3>6, <3>7, <3>8 DEF Handles
  <2>4. QED
    BY <2>1, <2>2, <2>3
<1>10. ASSUME NEW w \in Verdict, Ack(w) PROVE Handles(v)'
  <2>1. UNCHANGED queue /\ (handler'[v] = handler[v] \/ handler'[v].pc = "idle")
    BY <1>10, IdleType DEF Ack, DoneWith, Inv, TypeOK
  <2>2. QED
    BY <1>1, <1>3, <2>1
<1>11. ASSUME NEW w \in Verdict, HandlerFails(w) PROVE Handles(v)'
  BY <1>8, <1>11 DEF HandlerFails
<1>12. ASSUME NEW w \in Verdict, HandlerHangs(w) PROVE Handles(v)'
  <2>1. UNCHANGED queue /\ handler[w].pc = "publish" /\ handler' = [handler EXCEPT ![w].pc = "hung"]
    BY <1>12 DEF HandlerHangs
  <2>2. CASE w # v
    BY <1>1, <1>3, <2>1, <2>2 DEF Inv, TypeOK
  <2>3. CASE w = v
    <3>1. handler'[v] = [handler[v] EXCEPT !.pc = "hung"] /\ handler[v] \in Handling
      BY <2>1, <2>3 DEF Inv, TypeOK
    <3>2. handler'[v].pc = "hung" /\ handler'[v].order = h
      BY <3>1 DEF Handling
    <3>3. QED
      BY <1>1, <1>2, <2>1, <2>3, <3>2 DEF Handles
  <2>4. QED
    BY <2>2, <2>3
<1>13. ASSUME ChannelCloses \/ Restart PROVE Handles(v)'
  <2>1. queue'[v] = queue[v] \cup Unacked(v)
    BY <1>13 DEF ChannelCloses, Restart
  <2>2. handler'[v] = handler[v] \/ handler'[v].pc = "idle"
    BY <1>13, IdleType DEF ChannelCloses, Restart
  <2>3. \A q \in Unacked(v) : q \in Order /\ verdict'[q] = v
    BY <1>2 DEF Unacked
  <2>4. QED
    BY <1>1, <1>3, <2>1, <2>2, <2>3
<1>14. QED
  BY <1>4, <1>5, <1>6, <1>7, <1>9, <1>10, <1>11, <1>12, <1>13
     DEF Next, HandlerStep, CreateStep, vars, BeginCreate, ReserveAnswered, ReserveFails, PersistOrder,
         PersistFails, PublishOrderCreated, CompensateItem, CompensateHangs, MarkFailed, CreateDies,
         LoopEnds, ApplyStockEvent

-----------------------------------------------------------------------------
\* Who publishes a stock event for an item.
LEMMA Asker ==
    ASSUME Inv, [Next]_vars, NEW o \in Order, NEW i \in Index, NEW k \in Kind
    PROVE  \/ Requests(o, i, k)' = Requests(o, i, k)
           \/ create[o].pc = "compensate" /\ create[o].item = i /\ k = "release"
           \/ \E v \in Verdict : /\ handler[v].pc = "publish" /\ handler[v].order = o
                                 /\ handler[v].item = i /\ k = StockKind(v)
<1> USE DEF createVars, paymentVars, stockVars
<1>1. CASE UNCHANGED <<asked, applied>>
  BY <1>1 DEF Requests
<1>2. ASSUME NEW p \in Order, NEW j \in Index, NEW l \in Kind, Ask(p, j, l), UNCHANGED applied,
             ~(p = o /\ j = i /\ l = k)
      PROVE  Requests(o, i, k)' = Requests(o, i, k)
  <2>1. asked'[o][i][k] = asked[o][i][k]
    BY <1>2, AskFacts DEF Inv
  <2>2. QED
    BY <1>2, <2>1 DEF Requests
<1>3. ASSUME NEW p \in Order, NEW res \in Results, CompensateItem(p, res)
      PROVE  \/ Requests(o, i, k)' = Requests(o, i, k)
             \/ create[o].pc = "compensate" /\ create[o].item = i /\ k = "release"
  <2>1. create[p].pc = "compensate" /\ create[p].item \in Index /\ UNCHANGED applied
        /\ (Ask(p, create[p].item, "release") \/ UNCHANGED asked)
    BY <1>3, AskedItems DEF CompensateItem
  <2>2. CASE UNCHANGED asked
    BY <2>1, <2>2 DEF Requests
  <2>3. CASE Ask(p, create[p].item, "release")
    <3>1. CASE p = o /\ create[p].item = i /\ k = "release"
      BY <2>1, <3>1
    <3>2. CASE ~(p = o /\ create[p].item = i /\ k = "release")
      BY <1>2, <2>1, <2>3, <3>2 DEF Kind
    <3>3. QED
      BY <3>1, <3>2
  <2>4. QED
    BY <2>1, <2>2, <2>3
<1>4. ASSUME NEW v \in Verdict, NEW res \in Results, HandlePublish(v, res)
      PROVE  \/ Requests(o, i, k)' = Requests(o, i, k)
             \/ handler[v].pc = "publish" /\ handler[v].order = o /\ handler[v].item = i /\ k = StockKind(v)
  <2>1. handler[v].pc = "publish" /\ handler[v].order \in Order /\ handler[v].item \in Index
        /\ StockKind(v) \in Kind /\ UNCHANGED applied
        /\ (Ask(handler[v].order, handler[v].item, StockKind(v)) \/ UNCHANGED asked)
    BY <1>4, AskedItems DEF HandlePublish
  <2>2. CASE UNCHANGED asked
    BY <2>1, <2>2 DEF Requests
  <2>3. CASE Ask(handler[v].order, handler[v].item, StockKind(v))
    <3>1. CASE handler[v].order = o /\ handler[v].item = i /\ k = StockKind(v)
      BY <2>1, <3>1
    <3>2. CASE ~(handler[v].order = o /\ handler[v].item = i /\ k = StockKind(v))
      BY <1>2, <2>1, <2>3, <3>2
    <3>3. QED
      BY <3>1, <3>2
  <2>4. QED
    BY <2>1, <2>2, <2>3
<1>5. ASSUME NEW p \in Order, NEW j \in Items(p), NEW l \in Kind, ApplyStockEvent(p, j, l)
      PROVE  Requests(o, i, k)' = Requests(o, i, k)
  BY <1>5, ApplyFacts
<1>6. ASSUME NEW p \in Order, CompensateHangs(p)
      PROVE  \/ Requests(o, i, k)' = Requests(o, i, k)
             \/ create[o].pc = "compensate" /\ create[o].item = i /\ k = "release"
  <2>1. create[p].pc = "compensate" /\ create[p].item \in Index /\ UNCHANGED applied
        /\ Ask(p, create[p].item, "release")
    BY <1>6, AskedItems DEF CompensateHangs
  <2>2. CASE ~(p = o /\ create[p].item = i /\ k = "release")
    BY <1>2, <2>1, <2>2 DEF Kind
  <2>3. QED
    BY <2>1, <2>2
<1>7. ASSUME NEW v \in Verdict, HandlerHangs(v)
      PROVE  \/ Requests(o, i, k)' = Requests(o, i, k)
             \/ handler[v].pc = "publish" /\ handler[v].order = o /\ handler[v].item = i /\ k = StockKind(v)
  <2>1. handler[v].pc = "publish" /\ handler[v].order \in Order /\ handler[v].item \in Index
        /\ StockKind(v) \in Kind /\ UNCHANGED applied
        /\ Ask(handler[v].order, handler[v].item, StockKind(v))
    BY <1>7, AskedItems DEF HandlerHangs
  <2>2. CASE ~(handler[v].order = o /\ handler[v].item = i /\ k = StockKind(v))
    BY <1>2, <2>1, <2>2
  <2>3. QED
    BY <2>1, <2>2
<1>8. QED
  BY <1>1, <1>3, <1>4, <1>5, <1>6, <1>7
     DEF Next, HandlerStep, CreateStep, vars, BeginCreate, ReserveAnswered, ReserveFails, PersistOrder,
         PersistFails, PublishOrderCreated, MarkFailed, CreateDies, PaymentDecides, Deliver,
         HandleUpdate, Ack, HandlerFails, LoopEnds, ChannelCloses, Restart

\* Every stock event is for an item that is held.
LEMMA HeldStep == ASSUME Inv, [Next]_vars PROVE OnlyHeldSettled'
<1> SUFFICES ASSUME NEW o \in Order, NEW i \in Index, NEW k \in Kind, Requests(o, i, k)' > 0
             PROVE  held'[o][i]
  BY DEF OnlyHeldSettled
<1>1. held[o][i]
  BY Asker, AskedItems DEF Inv, OnlyHeldSettled
<1>2. QED
  BY <1>1, Mono

\* Who changes the status of an order.
LEMMA StatusChanges ==
    ASSUME Inv, [Next]_vars, NEW o \in Order
    PROVE  \/ status'[o] = status[o]
           \/ status[o] = "none" /\ status'[o] = "pending"
           \/ status[o] = "pending" /\ status'[o] = "failed"
           \/ status[o] = "pending" /\ \E v \in Verdict : verdict[o] = v /\ status'[o] = NextStatus(v)
<1> USE DEF createVars, paymentVars, stockVars
<1>1. ASSUME NEW q \in Order, PersistOrder(q) \/ PersistFails(q)
      PROVE  status'[o] = status[o] \/ (status[o] = "none" /\ status'[o] = "pending")
  <2>1. status[q] = "none"
    BY <1>1 DEF PersistOrder, PersistFails, Inv, Announcing
  <2>2. status' = status \/ status' = [status EXCEPT ![q] = "pending"]
    BY <1>1 DEF PersistOrder, PersistFails
  <2>3. QED
    BY <2>1, <2>2 DEF Inv, TypeOK
<1>2. ASSUME NEW q \in Order, MarkFailed(q)
      PROVE  status'[o] = status[o] \/ (status[o] = "pending" /\ status'[o] = "failed")
  <2>1. status' = status \/ (status[q] = "pending" /\ status' = [status EXCEPT ![q] = "failed"])
    BY <1>2 DEF MarkFailed, UpdateStatus
  <2>2. QED
    BY <2>1 DEF Inv, TypeOK
<1>3. ASSUME NEW v \in Verdict, HandleUpdate(v)
      PROVE  \/ status'[o] = status[o]
             \/ status[o] = "pending" /\ verdict[o] = v /\ status'[o] = NextStatus(v)
  <2>1. handler[v].order \in Order /\ verdict[handler[v].order] = v
    BY <1>3 DEF HandleUpdate, Inv, Handles
  <2>2. QED
    BY <1>3, <2>1 DEF HandleUpdate, UpdateStatus, Inv, TypeOK
<1>4. CASE UNCHANGED status
  BY <1>4
<1>5. QED
  BY <1>1, <1>2, <1>3, <1>4
     DEF Next, HandlerStep, CreateStep, vars, BeginCreate, ReserveAnswered, ReserveFails,
         PublishOrderCreated, CompensateItem, CompensateHangs, CreateDies, PaymentDecides, Deliver,
         HandlePublish, HandlerHangs, Ack, HandlerFails, LoopEnds, ChannelCloses, Restart, ApplyStockEvent

\* Statuses and confirmations follow the verdict.
LEMMA BackedStep == ASSUME Inv, [Next]_vars PROVE PaymentBacked'
<1> SUFFICES ASSUME NEW o \in Order
             PROVE  /\ status'[o] = "confirmed" => verdict'[o] = "completed"
                    /\ status'[o] = "cancelled" => verdict'[o] = "failed"
                    /\ \A i \in Index : Requests(o, i, "confirm")' > 0 => verdict'[o] = "completed"
  BY DEF PaymentBacked
<1>0. verdict[o] # "none" => verdict'[o] = verdict[o]
  BY Mono
<1>1. /\ status'[o] = "confirmed" => verdict[o] = "completed"
      /\ status'[o] = "cancelled" => verdict[o] = "failed"
  BY StatusChanges DEF Inv, PaymentBacked, NextStatus, Verdict
<1>2. ASSUME NEW i \in Index, Requests(o, i, "confirm")' > 0 PROVE verdict[o] = "completed"
  <2>1. CASE Requests(o, i, "confirm")' = Requests(o, i, "confirm")
    BY <1>2, <2>1 DEF Inv, PaymentBacked
  <2>2. ASSUME NEW v \in Verdict, handler[v].pc = "publish", handler[v].order = o, "confirm" = StockKind(v)
        PROVE  verdict[o] = "completed"
    <3>1. v = "completed"
      BY <2>2 DEF StockKind
    <3>2. QED
      BY <2>2, <3>1 DEF Inv, Handles
  <2>3. QED
    BY <2>1, <2>2, Asker DEF Kind
<1>3. QED
  BY <1>0, <1>1, <1>2

\* An event leaves queue and handler only when its items are dealt with.
LEMMA NotLostStep == ASSUME Inv, [Next]_vars PROVE VerdictNotLost'
<1> USE DEF createVars, paymentVars, stockVars
<1> SUFFICES ASSUME NEW o \in Order, NEW v \in Verdict, verdict'[o] = v
             PROVE  \/ o \in queue'[v]
                    \/ handler'[v].pc # "idle" /\ handler'[v].order = o
                    \/ \A i \in Items(o)' : Requests(o, i, StockKind(v))' > 0
  BY DEF VerdictNotLost
<1> DEFINE Kept == o \in queue'[v] \/ (handler'[v].pc # "idle" /\ handler'[v].order = o)
<1>0. v # "none" /\ StockKind(v) \in Kind
  BY DEF Verdict, StockKind, Kind
<1>1. CASE verdict[o] # v
  <2>1. verdict[o] = "none"
    BY <1>1, Mono DEF Inv, TypeOK
  <2>2. UNCHANGED verdict \/ \E q \in Order, w \in Verdict : PaymentDecides(q, w)
    BY Zenon DEF Next, HandlerStep, CreateStep, vars, BeginCreate, ReserveAnswered, ReserveFails,
           PersistOrder, PersistFails, PublishOrderCreated, CompensateItem, CompensateHangs, MarkFailed,
           CreateDies, Deliver, HandleUpdate, HandlePublish, HandlerHangs, Ack, HandlerFails,
           LoopEnds, ChannelCloses, Restart, ApplyStockEvent
  <2>3. PICK q \in Order, w \in Verdict : PaymentDecides(q, w)
    BY <1>0, <1>1, <2>1, <2>2
  <2>4. q = o /\ w = v
    BY <1>0, <1>1, <2>1, <2>3 DEF PaymentDecides, Inv, TypeOK
  <2>5. QED
    BY <2>3, <2>4 DEF PaymentDecides, Inv, TypeOK
<1>2. CASE verdict[o] = v /\ \A i \in Items(o) : Requests(o, i, StockKind(v)) > 0
  BY <1>0, <1>2, Decided
<1>3. CASE verdict[o] = v /\ (o \in queue[v] \/ (handler[v].pc # "idle" /\ handler[v].order = o))
  <2>1. CASE handler'[v] = handler[v] /\ queue[v] \subseteq queue'[v]
    BY <1>3, <2>1
  <2>2. ASSUME NEW w \in Verdict, NEW q \in Order, PaymentDecides(q, w) PROVE Kept
    BY <1>3, <2>2 DEF PaymentDecides, Inv, TypeOK
  <2>3. ASSUME NEW w \in Verdict, NEW q \in Order, Deliver(w, q) PROVE Kept
    <3>1. CASE w = v /\ q = o
      BY <2>3, <3>1 DEF Deliver, Inv, TypeOK
    <3>2. CASE w = v /\ q # o
      <4>1. handler[v].pc = "idle" /\ queue'[v] = queue[v] \ {q}
        BY <2>3, <3>2 DEF Deliver, Inv, TypeOK
      <4>2. QED
        BY <1>3, <3>2, <4>1
    <3>3. CASE w # v
      BY <1>3, <2>3, <3>3 DEF Deliver, Inv, TypeOK
    <3>4. QED
      BY <3>1, <3>2, <3>3
  <2>4. ASSUME NEW w \in Verdict, HandleUpdate(w) PROVE Kept
    <3>1. UNCHANGED queue /\ handler' = [handler EXCEPT ![w].pc = "publish"]
      BY <2>4 DEF HandleUpdate
    <3>2. handler[v] \in Handling
      BY DEF Inv, TypeOK
    <3>3. handler'[v] = handler[v] \/ handler'[v] = [handler[v] EXCEPT !.pc = "publish"]
      BY <3>1 DEF Inv, TypeOK
    <3>4. QED
      BY <1>3, <3>1, <3>2, <3>3 DEF Handling
  <2>5. ASSUME NEW w \in Verdict, Requeue(w) PROVE Kept
    <3>1. queue \in [Verdict -> SUBSET Order] /\ handler \in [Verdict -> Handling]
      BY DEF Inv, TypeOK
    <3>2. CASE w = v
      BY <1>3, <2>5, <3>1, <3>2 DEF Requeue, DoneWith
    <3>3. CASE w # v
      BY <1>3, <2>5, <3>1, <3>3 DEF Requeue, DoneWith
    <3>4. QED
      BY <3>2, <3>3
  <2>6. ASSUME NEW w \in Verdict, NEW res \in Results, HandlePublish(w, res) PROVE Kept
    <3>1. CASE res \in PublishError
      BY <2>5, <2>6, <3>1 DEF HandlePublish
    <3>2. CASE res \notin PublishError
      <4> DEFINE next == IF handler[w].item = Len(cart[handler[w].order]) THEN "ack" ELSE "publish"
                 n == handler[w].item + 1
      <4>1. UNCHANGED queue /\ handler' = [handler EXCEPT ![w] = [@ EXCEPT !.pc = next, !.item = n]]
        BY <2>6, <3>2 DEF HandlePublish
      <4>2. next # "idle"
        OBVIOUS
      <4> HIDE DEF next, n
      <4>3. handler'[v] = handler[v] \/ handler'[v] = [handler[v] EXCEPT !.pc = next, !.item = n]
        BY <4>1 DEF Inv, TypeOK
      <4>4. handler[v] \in Handling
        BY DEF Inv, TypeOK
      <4>5. QED
        BY <1>3, <4>1, <4>2, <4>3, <4>4 DEF Handling
    <3>3. QED
      BY <3>1, <3>2
  <2>7. ASSUME NEW w \in Verdict, Ack(w) PROVE Kept \/ \A i \in Items(o)' : Requests(o, i, StockKind(v))' > 0
    <3>1. CASE w = v /\ handler[v].order = o
      <4>1. \A i \in Items(o) : Requests(o, i, StockKind(v)) > 0
        BY <2>7, <3>1 DEF Ack, Inv, Handles
      <4>2. QED
        BY <1>2, <1>3, <4>1
    <3>2. CASE w = v /\ handler[v].order # o
      BY <1>3, <2>7, <3>2 DEF Ack
    <3>3. CASE w # v
      BY <1>3, <2>7, <3>3 DEF Ack, DoneWith, Inv, TypeOK
    <3>4. QED
      BY <3>1, <3>2, <3>3
  <2>8. ASSUME NEW w \in Verdict, HandlerFails(w) PROVE Kept
    BY <2>5, <2>8 DEF HandlerFails
  <2>9. ASSUME NEW w \in Verdict, HandlerHangs(w) PROVE Kept
    <3>1. UNCHANGED queue /\ handler' = [handler EXCEPT ![w].pc = "hung"]
      BY <2>9 DEF HandlerHangs
    <3>2. handler[v] \in Handling
      BY DEF Inv, TypeOK
    <3>3. handler'[v] = handler[v] \/ handler'[v] = [handler[v] EXCEPT !.pc = "hung"]
      BY <3>1 DEF Inv, TypeOK
    <3>4. QED
      BY <1>3, <3>1, <3>2, <3>3 DEF Handling
  <2>10. ASSUME ChannelCloses \/ Restart PROVE Kept
    <3>1. queue'[v] = queue[v] \cup Unacked(v)
      BY <2>10 DEF ChannelCloses, Restart
    <3>2. QED
      BY <1>3, <3>1 DEF Unacked
  <2>11. QED
    BY <2>1, <2>2, <2>3, <2>4, <2>6, <2>7, <2>8, <2>9, <2>10
       DEF Next, HandlerStep, CreateStep, vars, BeginCreate, ReserveAnswered, ReserveFails,
           PersistOrder, PersistFails, PublishOrderCreated, CompensateItem, CompensateHangs, MarkFailed,
           CreateDies, LoopEnds, ApplyStockEvent
<1>4. QED
  <2>1. VerdictNotLost
    BY DEF Inv
  <2>2. CASE verdict[o] = v
    BY <1>2, <1>3, <2>1, <2>2 DEF VerdictNotLost
  <2>3. QED
    BY <1>1, <2>2

-----------------------------------------------------------------------------
\* The invariant is inductive.
THEOREM Invariance == Spec => []Inv
<1>1. ASSUME Inv, [Next]_vars PROVE Inv'
  <2>1. TypeOK' /\ GoodRows'
    BY <1>1, TypeStep
  <2>2. \A o \in Order : Reserving(o)' /\ Announcing(o)'
    BY <1>1, OrderStep
  <2>3. \A v \in Verdict : Handles(v)'
    BY <1>1, HandlesStep
  <2>4. OnlyHeldSettled' /\ PaymentBacked' /\ VerdictNotLost'
    BY <1>1, HeldStep, BackedStep, NotLostStep
  <2>5. QED
    BY <2>1, <2>2, <2>3, <2>4 DEF Inv
<1>2. QED
  BY <1>1, InitInv, PTL DEF Spec

\* The tables, the queues and what the goroutines of the saga hold keep their
\* types; reserved and total stock never become negative.
THEOREM TypeCorrect == Spec => []TypeOK
<1>1. Inv => TypeOK
  BY DEF Inv
<1>2. QED
  BY <1>1, Invariance, PTL

\* compensateReservations and the payment handlers release and confirm only
\* what CreateOrder has reserved.
THEOREM SettlesOnlyHeld == Spec => []OnlyHeldSettled
<1>1. Inv => OnlyHeldSettled
  BY DEF Inv
<1>2. QED
  BY <1>1, Invariance, PTL

\* Orders are confirmed and cancelled, and stock is consumed, by the verdict
\* of the payment service only.
THEOREM BackedByPayment == Spec => []PaymentBacked
<1>1. Inv => PaymentBacked
  BY DEF Inv
<1>2. QED
  BY <1>1, Invariance, PTL

\* handlePaymentSucceeded and handlePaymentFailed do not forget an order
\* before each of its items has been settled.
THEOREM VerdictKept == Spec => []VerdictNotLost
<1>1. Inv => VerdictNotLost
  BY DEF Inv
<1>2. QED
  BY <1>1, Invariance, PTL

\* UpdateStatus never takes an order out of a final status.
THEOREM FinalStays == Spec => StatusFinal
<1>1. ASSUME Inv, [Next]_vars, NEW o \in Order, status[o] \in Final PROVE status'[o] = status[o]
  BY <1>1, StatusChanges DEF Final
<1>2. ASSUME Inv, [Next]_vars PROVE \A o \in Order : status[o] \in Final => status'[o] = status[o]
  BY <1>1, <1>2
<1>3. QED
  BY <1>2, Invariance, PTL DEF Spec, StatusFinal
-----------------------------------------------------------------------------
(* As long as nothing has failed: one stock event for an item at most. *)

Untouched(o) == \A i \in Index, k \in Kind : Requests(o, i, k) = 0

\* Stock events of kind k only, and for no item twice.
Once(o, k) ==
    \A i \in Index : Requests(o, i, k) <= 1 /\ \A l \in Kind : l # k => Requests(o, i, l) = 0

\* Nothing has been published for the items from n on.
AheadFree(o, k, n) == \A i \in Index : i >= n => Requests(o, i, k) = 0

\* CreateOrder compensates what it does not announce.
CalmCall(o) ==
    /\ create[o].pc \notin {"fail", "dead"}
    /\ create[o].pc \in {"idle", "reserve", "persist", "publish"} => Untouched(o)
    /\ create[o].pc = "publish" => status[o] = "pending"
    /\ create[o].pc \in {"compensate", "rejected", "hung"} =>
          status[o] = "none" /\ o \notin orderEvents /\ verdict[o] = "none" /\ Once(o, "release")
    /\ create[o].pc = "compensate" =>
          create[o].then = "rejected" /\ AheadFree(o, "release", create[o].item)

\* What it announces is settled as its verdict says, after the status is.
CalmVerdict(o) ==
    /\ create[o].pc = "accepted" /\ verdict[o] = "none" => Untouched(o) /\ status[o] = "pending"
    /\ \A v \in Verdict : verdict[o] = v =>
          /\ Once(o, StockKind(v))
          /\ status[o] = NextStatus(v) \/ (status[o] = "pending" /\ Untouched(o))

\* A payment event is delivered once.
CalmHandler(v) ==
    /\ \A o \in queue[v] : status[o] = "pending" /\ (handler[v].pc # "idle" => handler[v].order # o)
    /\ handler[v].pc = "update" => status[handler[v].order] = "pending"
    /\ handler[v].pc = "publish" =>
          /\ status[handler[v].order] = NextStatus(v)
          /\ AheadFree(handler[v].order, StockKind(v), handler[v].item)

Calm == /\ \A o \in Order : CalmCall(o) /\ CalmVerdict(o)
        /\ \A v \in Verdict : CalmHandler(v)

\* The second inductive invariant, relative to the first.
CalmInv == faults = 0 => Calm

\* Nothing happens to the order o.
Same(o) ==
    /\ create'[o] = create[o] /\ status'[o] = status[o] /\ verdict'[o] = verdict[o]
    /\ o \in orderEvents' <=> o \in orderEvents
    /\ \A i \in Index, k \in Kind : Requests(o, i, k)' = Requests(o, i, k)

\* What is known of an order stays true when nothing happens to it.
LEMMA SameCalm == ASSUME NEW o \in Order, CalmCall(o), CalmVerdict(o), Same(o) PROVE CalmCall(o)' /\ CalmVerdict(o)'
<1>1. /\ Untouched(o) => Untouched(o)'
      /\ \A k \in Kind : Once(o, k) => Once(o, k)'
      /\ \A k \in Kind, n \in Nat : AheadFree(o, k, n) => AheadFree(o, k, n)'
  BY DEF Same, Untouched, Once, AheadFree
<1>2. "release" \in Kind /\ \A v \in Verdict : StockKind(v) \in Kind
  BY DEF Kind, StockKind
<1>3. AheadFree(o, "release", create[o].item) => AheadFree(o, "release", create[o].item)'
  BY <1>2 DEF Same, AheadFree
<1>4. CalmCall(o)'
  BY <1>1, <1>2, <1>3 DEF CalmCall, Same
<1>5. CalmVerdict(o)'
  BY <1>1, <1>2 DEF CalmVerdict, Same
<1>6. QED
  BY <1>4, <1>5

\* Nothing happens to the payment events of kind v.
LEMMA SameHandler ==
    ASSUME Inv, NEW v \in Verdict, CalmHandler(v), handler'[v] = handler[v], queue'[v] = queue[v],
           \A o \in Order : verdict[o] = v => Same(o)
    PROVE  CalmHandler(v)'
<1>1. /\ \A o \in queue[v] : o \in Order /\ Same(o)
      /\ handler[v].pc # "idle" => handler[v].order \in Order /\ Same(handler[v].order)
  BY DEF Inv, TypeOK, Handles
<1>2. StockKind(v) \in Kind
  BY DEF Kind, StockKind
<1>3. \A o \in queue'[v] : status'[o] = "pending" /\ (handler'[v].pc # "idle" => handler'[v].order # o)
  BY <1>1 DEF CalmHandler, Same
<1>4. handler'[v].pc = "update" => status'[handler'[v].order] = "pending"
  BY <1>1 DEF CalmHandler, Same
<1>5. handler'[v].pc = "publish" => status'[handler'[v].order] = NextStatus(v)
  BY <1>1 DEF CalmHandler, Same
<1>6. ASSUME handler'[v].pc = "publish" PROVE AheadFree(handler[v].order, StockKind(v), handler[v].item)'
  BY <1>1, <1>2, <1>6 DEF CalmHandler, Same, AheadFree
<1>7. QED
  BY <1>3, <1>4, <1>5, <1>6 DEF CalmHandler

\* Where a call stands whose order has been announced, or has its verdict.
LEMMA Announced ==
    ASSUME Inv, Calm, NEW o \in Order, o \in orderEvents \/ verdict[o] # "none"
    PROVE  create[o].pc = "accepted"
<1>1. create[o].pc \in CreatePC
  BY DEF Inv, TypeOK, Creating
<1>2. CalmCall(o) /\ Announcing(o)
  BY DEF Calm, Inv
<1>3. QED
  BY <1>1, <1>2 DEF CalmCall, Announcing, CreatePC

\* Items and what was published for them are counted.
LEMMA CountFacts ==
    ASSUME TypeOK
    PROVE  /\ \A i \in Index : i \in Nat
           /\ \A o \in Order, i \in Index, k \in Kind : Requests(o, i, k) \in Nat
<1>1. \A i \in Index : i \in Nat
  <2>1. ASSUME NEW c \in Carts, NEW i \in DOMAIN c PROVE i \in Nat
    <3>1. c \in Seq(Item)
      BY SagaAssumption, Zenon
    <3>2. QED
      BY <3>1
  <2>2. QED
    BY <2>1 DEF Index
<1>2. QED
  BY <1>1 DEF TypeOK, Requests

\* One more stock event, for an item that had none.
LEMMA AskOnce ==
    ASSUME TypeOK, NEW o \in Order, NEW i \in Index, NEW k \in Kind, NEW n \in Nat,
           Ask(o, i, k), UNCHANGED applied, Once(o, k), AheadFree(o, k, n), i = n
    PROVE  /\ Once(o, k)' /\ AheadFree(o, k, n + 1)'
           /\ \A p \in Order, j \in Index, l \in Kind : p # o => Requests(p, j, l)' = Requests(p, j, l)
<1>1. \A p \in Order, j \in Index, l \in Kind :
         /\ p = o /\ j = i /\ l = k => Requests(p, j, l)' = Requests(p, j, l) + 1
         /\ ~(p = o /\ j = i /\ l = k) => Requests(p, j, l)' = Requests(p, j, l)
  <2> TAKE p \in Order, j \in Index, l \in Kind
  <2>1. asked[p][j][l] \in Nat /\ applied[p][j][l] \in Nat
    BY DEF TypeOK
  <2>2. asked'[p][j][l] = IF p = o /\ j = i /\ l = k THEN asked[p][j][l] + 1 ELSE asked[p][j][l]
    BY AskFacts
  <2>3. QED
    BY <2>1, <2>2 DEF Requests
<1>2. Requests(o, i, k) = 0
  BY CountFacts DEF AheadFree
<1>3. Once(o, k)'
  <2> SUFFICES ASSUME NEW j \in Index
               PROVE  Requests(o, j, k)' <= 1 /\ \A l \in Kind : l # k => Requests(o, j, l)' = 0
    BY DEF Once
  <2>1. Requests(o, j, k) \in Nat /\ Requests(o, j, k) <= 1 /\ \A l \in Kind : l # k => Requests(o, j, l) = 0
    BY CountFacts DEF Once
  <2>2. QED
    BY <1>1, <1>2, <2>1
<1>4. AheadFree(o, k, n + 1)'
  <2> SUFFICES ASSUME NEW j \in Index, j >= n + 1 PROVE Requests(o, j, k)' = 0
    BY DEF AheadFree
  <2>1. j \in Nat /\ j # i /\ j >= n
    BY CountFacts
  <2>2. QED
    BY <1>1, <2>1 DEF AheadFree
<1>5. QED
  BY <1>1, <1>3, <1>4

\* A calm order that the steps of other orders do not touch.
LEMMA Others ==
    ASSUME Inv, Calm, NEW q \in Order, \A o \in Order : o # q => Same(o),
           CalmCall(q)', CalmVerdict(q)', verdict[q] = "none", UNCHANGED <<queue, handler>>
    PROVE  Calm'
<1>1. ASSUME NEW o \in Order PROVE CalmCall(o)' /\ CalmVerdict(o)'
  BY SameCalm DEF Calm
<1>2. ASSUME NEW v \in Verdict PROVE CalmHandler(v)'
  <2>1. v # "none"
    BY DEF Verdict
  <2>2. QED
    BY <2>1, SameHandler DEF Calm
<1>3. QED
  BY <1>1, <1>2 DEF Calm

\* Where no stock event is published or applied, only q changes.
LEMMA OnlyOne ==
    ASSUME TypeOK, NEW q \in Order, UNCHANGED <<asked, applied, verdict>>,
           \A o \in Order : o # q => create'[o] = create[o] /\ status'[o] = status[o],
           \A o \in Order : o # q => (o \in orderEvents' <=> o \in orderEvents)
    PROVE  /\ \A o \in Order : o # q => Same(o)
           /\ Untouched(q) => Untouched(q)' /\ Once(q, "release")'
<1>1. \A o \in Order, i \in Index, k \in Kind : Requests(o, i, k)' = Requests(o, i, k)
  BY DEF Requests
<1>2. Untouched(q) => Untouched(q)'
  BY <1>1 DEF Untouched
<1>3. Untouched(q)' => Once(q, "release")'
  BY DEF Untouched, Once, Kind
<1>4. QED
  BY <1>1, <1>2, <1>3 DEF Same

\* A refused order compensates from its first item on.
LEMMA RefusedCalm ==
    ASSUME Inv, NEW q \in Order, NEW n \in Nat, StartCompensation(q, n, "rejected"),
           Untouched(q)', Once(q, "release")', status'[q] = "none", q \notin orderEvents', verdict'[q] = "none"
    PROVE  CalmCall(q)' /\ CalmVerdict(q)'
<1>1. /\ create'[q].pc = IF n = 0 THEN "rejected" ELSE "compensate"
      /\ create'[q].then = "rejected"
  BY DEF Inv, TypeOK, StartCompensation
<1>2. AheadFree(q, "release", create[q].item)'
  BY DEF Untouched, AheadFree, Kind
<1>3. CalmCall(q)'
  BY <1>1, <1>2 DEF CalmCall
<1>4. CalmVerdict(q)'
  BY <1>1 DEF CalmVerdict, Verdict
<1>5. QED
  BY <1>3, <1>4

\* CreateOrder up to the compensation, without a failure.
LEMMA CallCalm ==
    ASSUME Inv, Calm, NEW q \in Order,
           \/ \E c \in Carts : BeginCreate(q, c)
           \/ ReserveAnswered(q) \/ PersistOrder(q) \/ PublishOrderCreated(q, "ok")
    PROVE  Calm'
<1> USE DEF paymentVars, stockVars
<1>0. /\ TypeOK /\ Announcing(q) /\ CalmCall(q) /\ CalmVerdict(q)
      /\ cart[q] \in Seq(Item) /\ Len(cart[q]) \in Nat
  BY CartFacts DEF Inv, Calm
<1>1. /\ create[q].pc \in {"idle", "reserve", "persist", "publish"}
      /\ UNCHANGED <<asked, applied, verdict, queue, handler>>
  BY DEF BeginCreate, ReserveAnswered, PersistOrder, PublishOrderCreated
<1>2. verdict[q] = "none" /\ verdict'[q] = "none" /\ q \notin orderEvents /\ Untouched(q)
  BY <1>0, <1>1 DEF Announcing, CalmCall
<1>3. \A o \in Order : o # q => create'[o] = create[o] /\ status'[o] = status[o]
  BY <1>0 DEF BeginCreate, ReserveAnswered, PersistOrder, PublishOrderCreated, StartCompensation, Goto, TypeOK
<1>4. \A o \in Order : o # q => (o \in orderEvents' <=> o \in orderEvents)
  BY DEF BeginCreate, ReserveAnswered, PersistOrder, PublishOrderCreated
<1>5. (\A o \in Order : o # q => Same(o)) /\ Untouched(q)' /\ Once(q, "release")'
  BY <1>0, <1>1, <1>2, <1>3, <1>4, OnlyOne
<1>6. CalmCall(q)' /\ CalmVerdict(q)'
  <2>1. ASSUME NEW c \in Carts, BeginCreate(q, c) PROVE CalmCall(q)' /\ CalmVerdict(q)'
    <3>1. create' = [create EXCEPT ![q] = [NotStarted EXCEPT !.pc = "reserve", !.item = 1]]
      BY <2>1 DEF BeginCreate
    <3>2. [NotStarted EXCEPT !.pc = "reserve", !.item = 1].pc = "reserve"
      BY DEF NotStarted
    <3>3. create'[q].pc = "reserve"
      BY <1>0, <3>1, <3>2 DEF TypeOK
    <3>4. QED
      BY <1>2, <1>5, <3>3 DEF CalmCall, CalmVerdict, Verdict
  <2>2. ASSUME ReserveAnswered(q) PROVE CalmCall(q)' /\ CalmVerdict(q)'
    <3>1. create[q].pc = "reserve" /\ status'[q] = "none" /\ q \notin orderEvents'
      BY <1>0, <1>2, <2>2 DEF ReserveAnswered, Announcing
    <3>2. create[q].item \in Items(q) /\ create[q].item \in Nat /\ create[q].item - 1 \in Nat
      BY <3>1, CartFacts DEF Inv, Reserving
    <3>3. CASE StartCompensation(q, create[q].item - 1, "rejected")
      <4>1. PICK n \in Nat : n = create[q].item - 1
        BY <3>2
      <4>2. QED
        BY <1>2, <1>5, <3>1, <3>3, <4>1, RefusedCalm
    <3>4. CASE ~StartCompensation(q, create[q].item - 1, "rejected")
      <4> DEFINE next == IF create[q].item = Len(cart[q]) THEN "persist" ELSE "reserve"
      <4>1. next \in {"persist", "reserve"}
        OBVIOUS
      <4>2. create' = [create EXCEPT ![q] = [@ EXCEPT !.pc = next, !.item = create[q].item + 1]]
        BY <2>2, <3>4 DEF ReserveAnswered
      <4> HIDE DEF next
      <4>3. create'[q] = [create[q] EXCEPT !.pc = next, !.item = create[q].item + 1] /\ create[q] \in Creating
        BY <1>0, <4>2 DEF TypeOK
      <4>4. create'[q].pc = next
        BY <4>3 DEF Creating
      <4>5. QED
        BY <1>2, <1>5, <4>1, <4>4 DEF CalmCall, CalmVerdict, Verdict
    <3>5. QED
      BY <3>3, <3>4
  <2>3. ASSUME PersistOrder(q) PROVE CalmCall(q)' /\ CalmVerdict(q)'
    <3>1. create[q].pc = "persist" /\ status[q] = "none" /\ q \notin orderEvents'
      BY <1>0, <1>2, <2>3 DEF PersistOrder, Announcing
    <3>2. CASE StartCompensation(q, Len(cart[q]), "rejected") /\ UNCHANGED status
      BY <1>0, <1>2, <1>5, <3>1, <3>2, RefusedCalm
    <3>3. CASE Goto(q, "publish") /\ status' = [status EXCEPT ![q] = "pending"]
      <4>1. create'[q].pc = "publish" /\ status'[q] = "pending"
        BY <1>0, <3>3, GotoFacts DEF CreatePC, TypeOK
      <4>2. QED
        BY <1>2, <1>5, <4>1 DEF CalmCall, CalmVerdict, Verdict
    <3>4. QED
      BY <2>3, <3>2, <3>3 DEF PersistOrder
  <2>4. ASSUME PublishOrderCreated(q, "ok") PROVE CalmCall(q)' /\ CalmVerdict(q)'
    <3>1. create[q].pc = "publish" /\ UNCHANGED status /\ Goto(q, "accepted")
      BY <2>4 DEF PublishOrderCreated, PublishError
    <3>2. create'[q].pc = "accepted" /\ status'[q] = "pending"
      BY <1>0, <3>1, GotoFacts DEF CreatePC, CalmCall
    <3>3. QED
      BY <1>2, <1>5, <3>2 DEF CalmCall, CalmVerdict, Verdict
  <2>5. QED
    BY <2>1, <2>2, <2>3, <2>4
<1>7. QED
  BY <1>1, <1>2, <1>5, <1>6, Others

\* One round of compensateReservations, without a failure.
LEMMA CompensateCalm == ASSUME Inv, Calm, NEW q \in Order, CompensateItem(q, "ok") PROVE Calm'
<1> USE DEF paymentVars
<1>1. /\ TypeOK /\ CalmCall(q) /\ create[q].pc = "compensate"
      /\ create[q].item \in Index /\ "release" \in Kind
  BY AskedItems DEF Inv, Calm, CompensateItem, Kind
<1>2. /\ status[q] = "none" /\ q \notin orderEvents /\ verdict[q] = "none"
      /\ Once(q, "release") /\ create[q].then = "rejected" /\ AheadFree(q, "release", create[q].item)
  BY <1>1 DEF CalmCall
<1>3. /\ Ask(q, create[q].item, "release")
      /\ UNCHANGED <<status, orderEvents, verdict, queue, handler, applied>>
  BY DEF CompensateItem, Published
<1>4. PICK n \in Nat : n = create[q].item
  BY <1>1 DEF TypeOK, Creating
<1>5. /\ Once(q, "release")' /\ AheadFree(q, "release", n + 1)'
      /\ \A p \in Order, j \in Index, l \in Kind : p # q => Requests(p, j, l)' = Requests(p, j, l)
  BY <1>1, <1>2, <1>3, <1>4, AskOnce
<1>6. /\ create'[q].pc \in {"rejected", "compensate"} /\ create'[q].then = "rejected"
      /\ create'[q].item = n + 1 /\ \A o \in Order : o # q => create'[o] = create[o]
  <2>1. PICK pc \in {"rejected", "compensate"} :
          pc = IF create[q].item = create[q].last THEN create[q].then ELSE "compensate"
    BY <1>2
  <2>2. create' = [create EXCEPT ![q] = [@ EXCEPT !.pc = pc, !.item = n + 1]]
    BY <1>4, <2>1 DEF CompensateItem
  <2>3. create[q] \in Creating /\ create \in [Order -> Creating]
    BY <1>1 DEF TypeOK
  <2>4. create'[q] = [create[q] EXCEPT !.pc = pc, !.item = n + 1] /\ \A o \in Order : o # q => create'[o] = create[o]
    BY <2>2, <2>3
  <2>5. QED
    BY <1>2, <2>1, <2>3, <2>4 DEF Creating
<1>7. CalmCall(q)'
  <2>1. create'[q].pc = "compensate" => AheadFree(q, "release", create[q].item)'
    BY <1>5, <1>6 DEF AheadFree
  <2>2. QED
    BY <1>2, <1>3, <1>5, <1>6, <2>1 DEF CalmCall
<1>8. CalmVerdict(q)'
  BY <1>2, <1>3, <1>6 DEF CalmVerdict, Verdict
<1>9. \A o \in Order : o # q => Same(o)
  BY <1>3, <1>5, <1>6 DEF Same
<1>10. QED
  BY <1>2, <1>3, <1>7, <1>8, <1>9, Others

\* The last round, if Publish does not return.
LEMMA CompensateHungCalm == ASSUME Inv, Calm, NEW q \in Order, CompensateHangs(q) PROVE Calm'
<1> USE DEF paymentVars
<1>1. /\ TypeOK /\ CalmCall(q) /\ create[q].pc = "compensate"
      /\ create[q].item \in Index /\ "release" \in Kind
  BY AskedItems DEF Inv, Calm, CompensateHangs, Kind
<1>2. /\ status[q] = "none" /\ q \notin orderEvents /\ verdict[q] = "none"
      /\ Once(q, "release") /\ AheadFree(q, "release", create[q].item)
  BY <1>1 DEF CalmCall
<1>3. /\ Ask(q, create[q].item, "release") /\ Goto(q, "hung")
      /\ UNCHANGED <<status, orderEvents, verdict, queue, handler, applied>>
  BY DEF CompensateHangs
<1>4. PICK n \in Nat : n = create[q].item
  BY <1>1 DEF TypeOK, Creating
<1>5. /\ Once(q, "release")'
      /\ \A p \in Order, j \in Index, l \in Kind : p # q => Requests(p, j, l)' = Requests(p, j, l)
  BY <1>1, <1>2, <1>3, <1>4, AskOnce
<1>6. create'[q].pc = "hung" /\ \A o \in Order : o # q => create'[o] = create[o]
  BY <1>1, <1>3, GotoFacts DEF CreatePC
<1>7. CalmCall(q)'
  BY <1>2, <1>3, <1>5, <1>6 DEF CalmCall
<1>8. CalmVerdict(q)'
  BY <1>2, <1>3, <1>6 DEF CalmVerdict, Verdict
<1>9. \A o \in Order : o # q => Same(o)
  BY <1>3, <1>5, <1>6 DEF Same
<1>10. QED
  BY <1>2, <1>3, <1>7, <1>8, <1>9, Others

\* A handler changes its own kind of payment events and touches one order.
LEMMA HandlerCalm ==
    ASSUME Inv, Calm, NEW q \in Order, NEW v \in Verdict, verdict[q] = v,
           \A o \in Order : o # q => Same(o), CalmCall(q)', CalmVerdict(q)', CalmHandler(v)',
           \A w \in Verdict : w # v => handler'[w] = handler[w] /\ queue'[w] = queue[w]
    PROVE  Calm'
<1>1. ASSUME NEW o \in Order PROVE CalmCall(o)' /\ CalmVerdict(o)'
  BY SameCalm DEF Calm
<1>2. ASSUME NEW w \in Verdict, w # v PROVE CalmHandler(w)'
  BY <1>2, SameHandler DEF Calm
<1>3. QED
  BY <1>1, <1>2 DEF Calm

\* An accepted order, and one that has its verdict.
LEMMA AcceptedCalm == ASSUME NEW o \in Order, create[o].pc = "accepted" PROVE CalmCall(o)
  BY DEF CalmCall

\* Where the message of a handler is, and what is known of its order.
LEMMA InHand ==
    ASSUME Inv, Calm, NEW v \in Verdict, handler[v].pc # "idle"
    PROVE  LET q == handler[v].order IN
           /\ q \in Order /\ verdict[q] = v /\ v # "none" /\ create[q].pc = "accepted"
           /\ q \notin queue[v] /\ StockKind(v) \in Kind /\ Once(q, StockKind(v))
           /\ status[q] = NextStatus(v) \/ (status[q] = "pending" /\ Untouched(q))
           /\ NextStatus(v) # "pending"
<1> DEFINE q == handler[v].order
<1>1. q \in Order /\ verdict[q] = v /\ v # "none"
  BY DEF Inv, Handles, Verdict
<1>2. create[q].pc = "accepted"
  BY <1>1, Announced
<1>3. CalmVerdict(q) /\ CalmHandler(v)
  BY <1>1 DEF Calm
<1>4. q \notin queue[v]
  BY <1>3 DEF CalmHandler
<1>5. StockKind(v) \in Kind /\ NextStatus(v) # "pending"
  BY DEF StockKind, Kind, NextStatus
<1>6. Once(q, StockKind(v)) /\ (status[q] = NextStatus(v) \/ (status[q] = "pending" /\ Untouched(q)))
  BY <1>1, <1>3 DEF CalmVerdict
<1>7. QED
  BY <1>1, <1>2, <1>4, <1>5, <1>6

\* The payment service decides on an order nobody has touched.
LEMMA DecidesCalm ==
    ASSUME Inv, Calm, NEW q \in Order, NEW v \in Verdict, PaymentDecides(q, v) PROVE Calm'
<1> USE DEF stockVars
<1>1. /\ q \in orderEvents /\ orderEvents' = orderEvents \ {q}
      /\ verdict' = [verdict EXCEPT ![q] = v] /\ queue' = [queue EXCEPT ![v] = @ \cup {q}]
      /\ UNCHANGED <<status, create, handler, asked, applied>>
  BY DEF PaymentDecides
<1>2. TypeOK /\ verdict[q] = "none" /\ v # "none" /\ create[q].pc = "accepted"
  BY <1>1, Announced DEF Inv, Announcing, Verdict
<1>3. Untouched(q) /\ status[q] = "pending"
  BY <1>2 DEF Calm, CalmVerdict
<1>4. \A o \in Order, i \in Index, k \in Kind : Requests(o, i, k)' = Requests(o, i, k)
  BY <1>1 DEF Requests
<1>5. Untouched(q)' /\ Once(q, StockKind(v))'
  BY <1>3, <1>4 DEF Untouched, Once, Kind, StockKind
<1>6. ASSUME NEW o \in Order PROVE CalmCall(o)' /\ CalmVerdict(o)'
  <2>1. CASE o = q
    <3>1. create'[q].pc = "accepted" /\ verdict'[q] = v /\ status'[q] = "pending"
      BY <1>1, <1>2, <1>3 DEF TypeOK
    <3>2. CalmCall(q)'
      BY <3>1 DEF CalmCall
    <3>3. CalmVerdict(q)'
      BY <1>2, <1>5, <3>1 DEF CalmVerdict
    <3>4. QED
      BY <2>1, <3>2, <3>3
  <2>2. CASE o # q
    <3>1. Same(o)
      BY <1>1, <1>2, <1>4, <2>2 DEF Same, TypeOK
    <3>2. QED
      BY <3>1, SameCalm DEF Calm
  <2>3. QED
    BY <2>1, <2>2
<1>7. ASSUME NEW w \in Verdict PROVE CalmHandler(w)'
  <2>1. /\ CalmHandler(w) /\ handler'[w] = handler[w] /\ queue'[w] \subseteq queue[w] \cup {q}
        /\ handler[w].pc # "idle" => handler[w].order \in Order /\ handler[w].order # q
    BY <1>1, <1>2, InHand DEF Calm, TypeOK
  <2>2. \A o \in queue'[w] : status'[o] = "pending" /\ (handler'[w].pc # "idle" => handler'[w].order # o)
    BY <1>1, <1>3, <2>1 DEF CalmHandler
  <2>3. handler[w].pc = "publish" => AheadFree(handler[w].order, StockKind(w), handler[w].item)'
    BY <1>4, <2>1 DEF CalmHandler, AheadFree, StockKind, Kind
  <2>4. QED
    BY <1>1, <2>1, <2>2, <2>3 DEF CalmHandler
<1>8. QED
  BY <1>6, <1>7 DEF Calm

\* The event comes into the hand of its handler.
LEMMA DeliverCalm ==
    ASSUME Inv, Calm, NEW q \in Order, NEW v \in Verdict, Deliver(v, q) PROVE Calm'
<1> USE DEF stockVars, createVars
<1>1. /\ handler[v].pc = "idle" /\ q \in queue[v] /\ queue' = [queue EXCEPT ![v] = @ \ {q}]
      /\ handler' = [handler EXCEPT ![v] = [pc |-> "update", order |-> q, item |-> 1]]
      /\ UNCHANGED <<status, create, orderEvents, verdict, asked, applied>>
  BY DEF Deliver
<1>2. \A o \in Order : Same(o)
  BY <1>1 DEF Same, Requests
<1>3. verdict[q] = v /\ CalmHandler(v) /\ TypeOK
  BY <1>1 DEF Inv, Handles, Calm
<1>4. CalmHandler(v)'
  <2>1. handler'[v].pc = "update" /\ handler'[v].order = q /\ queue'[v] = queue[v] \ {q}
    BY <1>1, <1>3 DEF TypeOK
  <2>2. QED
    BY <1>1, <1>3, <2>1 DEF CalmHandler
<1>5. \A w \in Verdict : w # v => handler'[w] = handler[w] /\ queue'[w] = queue[w]
  BY <1>1, <1>3 DEF TypeOK
<1>6. CalmCall(q)' /\ CalmVerdict(q)'
  BY <1>2, SameCalm DEF Calm
<1>7. QED
  BY <1>2, <1>3, <1>4, <1>5, <1>6, HandlerCalm

\* The handler sets the status of the order in its hand.
LEMMA UpdateCalm == ASSUME Inv, Calm, NEW v \in Verdict, HandleUpdate(v) PROVE Calm'
<1> USE DEF stockVars
<1>1. PICK q : q = handler[v].order
  OBVIOUS
<1>2. /\ handler[v].pc = "update" /\ UpdateStatus(q, NextStatus(v))
      /\ handler' = [handler EXCEPT ![v].pc = "publish"]
      /\ UNCHANGED <<create, orderEvents, verdict, queue, asked, applied>>
  BY <1>1 DEF HandleUpdate
<1>3. /\ q \in Order /\ verdict[q] = v /\ v # "none" /\ create[q].pc = "accepted"
      /\ q \notin queue[v] /\ StockKind(v) \in Kind /\ Once(q, StockKind(v)) /\ NextStatus(v) # "pending"
      /\ status[q] = NextStatus(v) \/ (status[q] = "pending" /\ Untouched(q))
  BY <1>1, <1>2, InHand
<1>4. TypeOK /\ CalmHandler(v)
  BY DEF Inv, Calm
<1>5. status[q] = "pending" /\ Untouched(q)
  BY <1>1, <1>2, <1>3, <1>4 DEF CalmHandler
<1>6. status'[q] = NextStatus(v) /\ \A o \in Order : o # q => status'[o] = status[o]
  BY <1>2, <1>3, <1>4, <1>5 DEF UpdateStatus, TypeOK
<1>7. \A o \in Order, i \in Index, k \in Kind : Requests(o, i, k)' = Requests(o, i, k)
  BY <1>2 DEF Requests
<1>8. \A o \in Order : o # q => Same(o)
  BY <1>2, <1>6, <1>7 DEF Same
<1>9. CalmCall(q)'
  BY <1>2, <1>3 DEF CalmCall
<1>10. CalmVerdict(q)'
  <2>1. Once(q, StockKind(v))'
    BY <1>3, <1>7 DEF Once
  <2>2. QED
    BY <1>2, <1>3, <1>6, <2>1 DEF CalmVerdict
<1>11. handler'[v].pc = "publish" /\ handler'[v].order = q
  <2>1. handler[v] \in Handling /\ handler'[v] = [handler[v] EXCEPT !.pc = "publish"]
    BY <1>2, <1>4 DEF TypeOK
  <2>2. QED
    BY <1>1, <2>1 DEF Handling
<1>12. CalmHandler(v)'
  <2>1. \A o \in queue[v] : o \in Order /\ o # q /\ status'[o] = "pending"
    BY <1>3, <1>4, <1>6 DEF CalmHandler, TypeOK
  <2>2. AheadFree(handler[v].order, StockKind(v), handler[v].item)'
    BY <1>3, <1>5, <1>7, <1>11 DEF AheadFree, Untouched
  <2>3. QED
    BY <1>2, <1>6, <1>11, <2>1, <2>2 DEF CalmHandler
<1>13. \A w \in Verdict : w # v => handler'[w] = handler[w] /\ queue'[w] = queue[w]
  BY <1>2, <1>4 DEF TypeOK
<1>14. QED
  BY <1>3, <1>8, <1>9, <1>10, <1>12, <1>13, HandlerCalm

\* The handler publishes a stock event for the next item.
LEMMA PublishCalm == ASSUME Inv, Calm, NEW v \in Verdict, HandlePublish(v, "ok") PROVE Calm'
<1> USE DEF createVars
<1>1. PICK q : q = handler[v].order
  OBVIOUS
<1>2. handler[v].pc = "publish" /\ TypeOK /\ CalmHandler(v)
  BY DEF HandlePublish, Inv, Calm
<1>3. PICK n \in Nat : n = handler[v].item
  BY <1>2 DEF TypeOK, Handling
<1>4. /\ q \in Order /\ verdict[q] = v /\ v # "none" /\ create[q].pc = "accepted"
      /\ q \notin queue[v] /\ StockKind(v) \in Kind /\ Once(q, StockKind(v))
  BY <1>1, <1>2, InHand
<1>5. n \in Index /\ status[q] = NextStatus(v) /\ AheadFree(q, StockKind(v), n)
  BY <1>1, <1>2, <1>3, AskedItems DEF CalmHandler
<1>6. /\ Ask(q, n, StockKind(v)) /\ UNCHANGED <<status, create, orderEvents, verdict, queue, applied>>
  BY <1>1, <1>3 DEF HandlePublish, Published, PublishError
<1>7. PICK next \in {"ack", "publish"} :
        handler' = [handler EXCEPT ![v] = [@ EXCEPT !.pc = next, !.item = n + 1]]
  BY <1>3 DEF HandlePublish, PublishError
<1>8. /\ Once(q, StockKind(v))' /\ AheadFree(q, StockKind(v), n + 1)'
      /\ \A p \in Order, j \in Index, l \in Kind : p # q => Requests(p, j, l)' = Requests(p, j, l)
  BY <1>2, <1>4, <1>5, <1>6, AskOnce
<1>9. \A o \in Order : o # q => Same(o)
  BY <1>6, <1>8 DEF Same
<1>10. CalmCall(q)'
  BY <1>4, <1>6 DEF CalmCall
<1>11. CalmVerdict(q)'
  BY <1>4, <1>5, <1>6, <1>8 DEF CalmVerdict
<1>12. /\ handler'[v].pc = next /\ handler'[v].order = q /\ handler'[v].item = n + 1
       /\ \A w \in Verdict : w # v => handler'[w] = handler[w]
  <2>1. handler'[v] = [handler[v] EXCEPT !.pc = next, !.item = n + 1] /\ handler[v] \in Handling
    BY <1>2, <1>7 DEF TypeOK
  <2>2. \A w \in Verdict : w # v => handler'[w] = handler[w]
    BY <1>2, <1>7 DEF TypeOK
  <2>3. QED
    BY <1>1, <2>1, <2>2 DEF Handling
<1>13. CalmHandler(v)'
  <2>1. \A o \in queue[v] : o # q /\ status'[o] = "pending"
    BY <1>2, <1>4, <1>6 DEF CalmHandler
  <2>2. AheadFree(handler[v].order, StockKind(v), handler[v].item)'
    BY <1>8, <1>12 DEF AheadFree
  <2>3. QED
    BY <1>5, <1>6, <1>7, <1>12, <2>1, <2>2 DEF CalmHandler
<1>14. QED
  BY <1>4, <1>6, <1>9, <1>10, <1>11, <1>12, <1>13, HandlerCalm

\* The same, if Publish does not return.
LEMMA PublishHungCalm == ASSUME Inv, Calm, NEW v \in Verdict, HandlerHangs(v) PROVE Calm'
<1> USE DEF createVars
<1>1. PICK q : q = handler[v].order
  OBVIOUS
<1>2. handler[v].pc = "publish" /\ TypeOK /\ CalmHandler(v)
  BY DEF HandlerHangs, Inv, Calm
<1>3. PICK n \in Nat : n = handler[v].item
  BY <1>2 DEF TypeOK, Handling
<1>4. /\ q \in Order /\ verdict[q] = v /\ v # "none" /\ create[q].pc = "accepted"
      /\ q \notin queue[v] /\ StockKind(v) \in Kind /\ Once(q, StockKind(v))
  BY <1>1, <1>2, InHand
<1>5. n \in Index /\ status[q] = NextStatus(v) /\ AheadFree(q, StockKind(v), n)
  BY <1>1, <1>2, <1>3, AskedItems DEF CalmHandler
<1>6. /\ Ask(q, n, StockKind(v)) /\ UNCHANGED <<status, create, orderEvents, verdict, queue, applied>>
      /\ handler' = [handler EXCEPT ![v].pc = "hung"]
  BY <1>1, <1>3 DEF HandlerHangs
<1>7. /\ Once(q, StockKind(v))'
      /\ \A p \in Order, j \in Index, l \in Kind : p # q => Requests(p, j, l)' = Requests(p, j, l)
  BY <1>2, <1>4, <1>5, <1>6, AskOnce
<1>8. \A o \in Order : o # q => Same(o)
  BY <1>6, <1>7 DEF Same
<1>9. CalmCall(q)'
  BY <1>4, <1>6 DEF CalmCall
<1>10. CalmVerdict(q)'
  BY <1>4, <1>5, <1>6, <1>7 DEF CalmVerdict
<1>11. /\ handler'[v].pc = "hung" /\ handler'[v].order = q
       /\ \A w \in Verdict : w # v => handler'[w] = handler[w]
  <2>1. handler'[v] = [handler[v] EXCEPT !.pc = "hung"] /\ handler[v] \in Handling
    BY <1>2, <1>6 DEF TypeOK
  <2>2. \A w \in Verdict : w # v => handler'[w] = handler[w]
    BY <1>2, <1>6 DEF TypeOK
  <2>3. QED
    BY <1>1, <2>1, <2>2 DEF Handling
<1>12. CalmHandler(v)'
  <2>1. \A o \in queue[v] : o # q /\ status'[o] = "pending"
    BY <1>2, <1>4, <1>6 DEF CalmHandler
  <2>2. QED
    BY <1>6, <1>11, <2>1 DEF CalmHandler
<1>13. QED
  BY <1>4, <1>6, <1>8, <1>9, <1>10, <1>11, <1>12, HandlerCalm

\* Steps that change nothing but who holds what: Ack, the end of a loop, and
\* what the product service does.
LEMMA QuietCalm ==
    ASSUME Inv, Calm, \/ \E v \in Verdict : Ack(v) \/ LoopEnds(v)
                      \/ \E o \in Order : \E i \in Items(o), k \in Kind : ApplyStockEvent(o, i, k)
                      \/ UNCHANGED vars
    PROVE  Calm'
<1> USE DEF stockVars, createVars, paymentVars
<1>1. \A o \in Order, i \in Index, k \in Kind : Requests(o, i, k)' = Requests(o, i, k)
  <2>1. UNCHANGED <<asked, applied>> \/ \E o \in Order : \E i \in Items(o), k \in Kind : ApplyStockEvent(o, i, k)
    BY DEF Ack, LoopEnds, vars
  <2>2. QED
    BY <2>1, ApplyFacts DEF Requests
<1>2. UNCHANGED <<create, status, verdict, orderEvents, queue>>
  BY DEF Ack, LoopEnds, vars, ApplyStockEvent
<1>3. \A o \in Order : Same(o)
  BY <1>1, <1>2 DEF Same
<1>4. \A v \in Verdict : handler'[v] = handler[v] \/ handler'[v].pc = "idle"
  BY IdleType DEF Ack, DoneWith, LoopEnds, vars, ApplyStockEvent, Inv, TypeOK
<1>5. ASSUME NEW o \in Order PROVE CalmCall(o)' /\ CalmVerdict(o)'
  BY <1>3, SameCalm DEF Calm
<1>6. ASSUME NEW v \in Verdict PROVE CalmHandler(v)'
  <2>1. CASE handler'[v] = handler[v]
    BY <1>2, <1>3, <2>1, SameHandler DEF Calm
  <2>2. CASE handler'[v].pc = "idle"
    BY <1>2, <2>2 DEF Calm, CalmHandler
  <2>3. QED
    BY <1>4, <2>1, <2>2
<1>7. QED
  BY <1>5, <1>6 DEF Calm

\* A step that is no fault is one of these.
LEMMA CalmStep == ASSUME Inv, CalmInv, [Next]_vars PROVE CalmInv'
<1> SUFFICES ASSUME faults' = 0 PROVE Calm'
  BY DEF CalmInv
<1>1. faults \in Nat /\ ~Fault
  BY SagaAssumption DEF Inv, TypeOK, Fault
<1>2. faults = 0 /\ Calm
  <2>1. faults' = faults \/ Fault
    BY DEF Next, vars, CreateStep, HandlerStep, BeginCreate, ReserveAnswered, ReserveFails, PersistOrder,
           PersistFails, PublishOrderCreated, CompensateItem, CompensateHangs, MarkFailed, CreateDies,
           PaymentDecides, Deliver, HandleUpdate, HandlePublish, HandlerHangs, Ack, HandlerFails, LoopEnds,
           ChannelCloses, Restart, ApplyStockEvent, PublishResult, NoFault
  <2>2. QED
    BY <1>1, <2>1 DEF CalmInv
<1>3. ASSUME NEW res \in Results, PublishResult(res) PROVE res = "ok"
  BY <1>1, <1>3 DEF Results, PublishResult, PublishError
<1>4. ASSUME NEW o \in Order, \/ \E c \in Carts : BeginCreate(o, c)
                              \/ CreateStep(o) \/ ReserveFails(o) \/ PersistFails(o) \/ CreateDies(o)
      PROVE  Calm'
  <2>1. ~ReserveFails(o) /\ ~PersistFails(o) /\ ~CreateDies(o)
    BY <1>1 DEF ReserveFails, PersistFails, CreateDies
  <2>2. ~MarkFailed(o)
    BY <1>2 DEF MarkFailed, Calm, CalmCall
  <2>3. ASSUME NEW res \in Results, PublishOrderCreated(o, res) \/ CompensateItem(o, res) PROVE Calm'
    <3>1. res = "ok"
      BY <1>3, <2>3 DEF PublishOrderCreated, CompensateItem
    <3>2. QED
      BY <1>2, <2>3, <3>1, CallCalm, CompensateCalm
  <2>4. QED
    BY <1>2, <1>4, <2>1, <2>2, <2>3, CallCalm, CompensateHungCalm DEF CreateStep
<1>5. ASSUME NEW v \in Verdict, HandlerStep(v) \/ HandlerFails(v) PROVE Calm'
  <2>1. ~HandlerFails(v)
    BY <1>1 DEF HandlerFails
  <2>2. ASSUME NEW res \in Results, HandlePublish(v, res) PROVE Calm'
    <3>1. res = "ok"
      BY <1>3, <2>2 DEF HandlePublish
    <3>2. QED
      BY <1>2, <2>2, <3>1, PublishCalm
  <2>3. QED
    BY <1>2, <1>5, <2>1, <2>2, UpdateCalm, PublishHungCalm, QuietCalm DEF HandlerStep
<1>6. ~ChannelCloses /\ ~Restart
  BY <1>1 DEF ChannelCloses, Restart
<1>7. QED
  BY <1>2, <1>4, <1>5, <1>6, DecidesCalm, DeliverCalm, QuietCalm DEF Next

\* As long as nothing has failed every order is settled in one way, once.
THEOREM CalmInvariance == Spec => []CalmInv
<1>1. Init => CalmInv
  <2> SUFFICES ASSUME Init PROVE Calm
    BY DEF CalmInv
  <2>1. \A o \in Order, i \in Index, k \in Kind : Requests(o, i, k) = 0
    BY DEF Init, Requests, NoStockEvents
  <2>2. ASSUME NEW o \in Order PROVE CalmCall(o) /\ CalmVerdict(o)
    <3>1. create[o].pc = "idle" /\ verdict[o] = "none" /\ Untouched(o)
      BY <2>1 DEF Init, NotStarted, Untouched
    <3>2. QED
      BY <3>1 DEF CalmCall, CalmVerdict, Verdict
  <2>3. ASSUME NEW v \in Verdict PROVE CalmHandler(v)
    BY DEF Init, IdleHandler, CalmHandler
  <2>4. QED
    BY <2>2, <2>3 DEF Calm
<1>2. Inv /\ CalmInv /\ [Next]_vars => CalmInv'
  BY CalmStep
<1>3. QED
  BY <1>1, <1>2, Invariance, PTL DEF Spec

\* What is published for an order, by where it stands.
LEMMA CalmSettled ==
    ASSUME Inv, Calm, NEW o \in Order
    PROVE  \/ Untouched(o)
           \/ Once(o, "release") /\ status[o] # "confirmed"
           \/ Once(o, "confirm") /\ status[o] = "confirmed"
<1>1. create[o].pc \in CreatePC /\ verdict[o] \in Verdict \cup {"none"}
  BY DEF Inv, TypeOK, Creating
<1>2. CalmCall(o) /\ CalmVerdict(o)
  BY DEF Calm
<1>3. CASE create[o].pc # "accepted"
  BY <1>1, <1>2, <1>3 DEF CreatePC, CalmCall
<1>4. CASE create[o].pc = "accepted" /\ verdict[o] = "none"
  BY <1>2, <1>4 DEF CalmVerdict
<1>5. CASE verdict[o] \in Verdict
  BY <1>2, <1>5 DEF CalmVerdict, Verdict, StockKind, NextStatus
<1>6. QED
  BY <1>1, <1>3, <1>4, <1>5

\* CreateOrder and the two consumers publish one stock event for an item at
\* most, as long as nothing fails: compensation is for orders that were not
\* announced, and a verdict is handled once.
THEOREM SettledOnlyOnce == Spec => []SettledOnce
<1>1. Inv /\ CalmInv => SettledOnce
  <2> SUFFICES ASSUME Inv, Calm, NEW o \in Order, NEW i \in Index
               PROVE  Requests(o, i, "release") + Requests(o, i, "confirm") <= 1
    BY DEF CalmInv, SettledOnce
  <2>1. Requests(o, i, "release") \in Nat /\ Requests(o, i, "confirm") \in Nat
    BY CountFacts DEF Inv, Kind
  <2>2. \/ Requests(o, i, "release") = 0 /\ Requests(o, i, "confirm") <= 1
        \/ Requests(o, i, "confirm") = 0 /\ Requests(o, i, "release") <= 1
    BY <2>1, CalmSettled DEF Untouched, Once, Kind
  <2>3. QED
    BY <2>1, <2>2
<1>2. QED
  BY <1>1, Invariance, CalmInvariance, PTL

\* Stock follows the status of the order, as long as nothing fails.
THEOREM StockFollowsStatus == Spec => []SettlementMatchesStatus
<1>1. Inv /\ CalmInv => SettlementMatchesStatus
  <2> SUFFICES ASSUME Inv, Calm, NEW o \in Order, NEW i \in Index
               PROVE  /\ Requests(o, i, "confirm") > 0 => status[o] = "confirmed"
                      /\ Requests(o, i, "release") > 0 => status[o] # "confirmed"
    BY DEF CalmInv, SettlementMatchesStatus
  <2>1. \/ Requests(o, i, "release") = 0 /\ Requests(o, i, "confirm") = 0
        \/ Requests(o, i, "confirm") = 0 /\ status[o] # "confirmed"
        \/ Requests(o, i, "release") = 0 /\ status[o] = "confirmed"
    BY CalmSettled DEF Untouched, Once, Kind
  <2>2. QED
    BY <2>1
<1>2. QED
  BY <1>1, Invariance, CalmInvariance, PTL

-----------------------------------------------------------------------------
\* A call that has not begun holds nothing, and one that reserves nothing from
\* the next item on: no item is reserved twice.
Fresh(o) ==
    /\ create[o].pc = "idle" => cart[o] = <<>> /\ \A i \in Index : ~held[o][i]
    /\ create[o].pc = "reserve" => \A i \in Index : i >= create[o].item => ~held[o][i]

\* The invariant behind StockAccounted; Order itself may be infinite.
AccountInv == /\ \A o \in Order : Fresh(o)
              /\ \A p \in Product : IsFiniteSet(ItemsOf(p))
              /\ StockAccounted

\* The summands of the two sums.
OpenPart(p) == [oi \in ItemsOf(p) |-> cart[oi[1]][oi[2]].quantity * Open(oi[1], oi[2])]
ConfirmedPart(p) ==
    [oi \in ItemsOf(p) |-> cart[oi[1]][oi[2]].quantity * applied[oi[1]][oi[2]]["confirm"]]

\* The sums, over their index sets.
LEMMA Units ==
    ASSUME NEW p
    PROVE  /\ OpenUnits(p) = SumFunctionOnSet(OpenPart(p), ItemsOf(p))
           /\ ConfirmedUnits(p) = SumFunctionOnSet(ConfirmedPart(p), ItemsOf(p))
  BY DEF OpenUnits, ConfirmedUnits, OpenPart, ConfirmedPart, SumFunction

\* The same in the next state.
LEMMA UnitsNext ==
    ASSUME NEW p
    PROVE  /\ OpenUnits(p)' = SumFunctionOnSet(OpenPart(p)', ItemsOf(p)')
           /\ ConfirmedUnits(p)' = SumFunctionOnSet(ConfirmedPart(p)', ItemsOf(p)')
  BY DEF OpenUnits, ConfirmedUnits, OpenPart, ConfirmedPart, SumFunction

\* Open items are counted in integers.
LEMMA OpenInt == ASSUME TypeOK, NEW o \in Order, NEW i \in Index PROVE Open(o, i) \in Int
<1>1. applied[o][i]["release"] \in Int /\ applied[o][i]["confirm"] \in Int
  BY DEF TypeOK, Kind
<1>2. QED
  BY <1>1 DEF Open

\* The summands are integers.
LEMMA Parts ==
    ASSUME TypeOK, NEW p, NEW oi \in ItemsOf(p)
    PROVE  /\ oi[1] \in Order /\ oi[2] \in Index /\ oi[2] \in Items(oi[1]) /\ oi = <<oi[1], oi[2]>>
           /\ cart[oi[1]][oi[2]].product = p /\ cart[oi[1]][oi[2]].quantity \in Int
           /\ OpenPart(p)[oi] = cart[oi[1]][oi[2]].quantity * Open(oi[1], oi[2])
           /\ ConfirmedPart(p)[oi] = cart[oi[1]][oi[2]].quantity * applied[oi[1]][oi[2]]["confirm"]
           /\ OpenPart(p)[oi] \in Int /\ ConfirmedPart(p)[oi] \in Int
<1>1. /\ oi[1] \in Order /\ oi[2] \in Index /\ oi[2] \in Items(oi[1]) /\ oi = <<oi[1], oi[2]>>
      /\ cart[oi[1]][oi[2]].product = p
  BY DEF ItemsOf
<1>2. cart[oi[1]][oi[2]].quantity \in Int
  BY <1>1, CartFacts, ItemFacts
<1>3. Open(oi[1], oi[2]) \in Int /\ applied[oi[1]][oi[2]]["confirm"] \in Int
  BY <1>1, OpenInt DEF TypeOK, Kind
<1>4. /\ OpenPart(p)[oi] = cart[oi[1]][oi[2]].quantity * Open(oi[1], oi[2])
      /\ ConfirmedPart(p)[oi] = cart[oi[1]][oi[2]].quantity * applied[oi[1]][oi[2]]["confirm"]
  BY DEF OpenPart, ConfirmedPart
<1>5. QED
  BY <1>1, <1>2, <1>3, <1>4

\* The same in the next state.
LEMMA PartsNext ==
    ASSUME TypeOK', NEW p, NEW oi \in ItemsOf(p)'
    PROVE  /\ oi[1] \in Order /\ oi[2] \in Index /\ oi[2] \in Items(oi[1])' /\ oi = <<oi[1], oi[2]>>
           /\ cart'[oi[1]][oi[2]].product = p
           /\ OpenPart(p)'[oi] = cart'[oi[1]][oi[2]].quantity * Open(oi[1], oi[2])'
           /\ ConfirmedPart(p)'[oi] = cart'[oi[1]][oi[2]].quantity * applied'[oi[1]][oi[2]]["confirm"]
           /\ OpenPart(p)'[oi] \in Int /\ ConfirmedPart(p)'[oi] \in Int
<1>1. /\ oi[1] \in Order /\ oi[2] \in Index /\ oi[2] \in Items(oi[1])' /\ oi = <<oi[1], oi[2]>>
      /\ cart'[oi[1]][oi[2]].product = p
  BY DEF ItemsOf
<1>2. cart'[oi[1]][oi[2]].quantity \in Int
  <2>1. cart'[oi[1]] \in Carts \/ cart'[oi[1]] = <<>>
    BY <1>1 DEF TypeOK
  <2>2. \A c \in Carts : c \in Seq(Item)
    BY SagaAssumption, Zenon
  <2>3. cart'[oi[1]] \in Seq(Item) /\ oi[2] \in DOMAIN cart'[oi[1]]
    BY <1>1, <2>1, <2>2 DEF Items
  <2>4. cart'[oi[1]][oi[2]] \in Item
    BY <2>3
  <2>5. QED
    BY <2>4, ItemFacts
<1>3. Open(oi[1], oi[2])' \in Int /\ applied'[oi[1]][oi[2]]["confirm"] \in Int
  <2>1. applied'[oi[1]][oi[2]]["release"] \in Int /\ applied'[oi[1]][oi[2]]["confirm"] \in Int
    BY <1>1 DEF TypeOK, Kind
  <2>2. QED
    BY <2>1 DEF Open
<1>4. /\ OpenPart(p)'[oi] = cart'[oi[1]][oi[2]].quantity * Open(oi[1], oi[2])'
      /\ ConfirmedPart(p)'[oi] = cart'[oi[1]][oi[2]].quantity * applied'[oi[1]][oi[2]]["confirm"]
  BY DEF OpenPart, ConfirmedPart
<1>5. QED
  BY <1>1, <1>2, <1>3, <1>4

\* q * (n + d) in full; the two sums need no more arithmetic than this.
LEMMA Distributes == \A q, n, d \in Int : q * (n + d) = q * n + q * d /\ q * 0 = 0 /\ q * 1 = q /\ q * (-1) = -q
  OBVIOUS

\* What one item adds to the sums: its reservation takes effect or one of its
\* stock events is applied.
LEMMA Moved ==
    ASSUME TypeOK, TypeOK', UNCHANGED cart, NEW p, IsFiniteSet(ItemsOf(p)),
           NEW o \in Order, NEW i \in Items(o), NEW d \in Int, NEW c \in Int,
           \A s \in Order, j \in Index : ~(s = o /\ j = i) =>
               Open(s, j)' = Open(s, j) /\ applied'[s][j]["confirm"] = applied[s][j]["confirm"],
           Open(o, i)' = Open(o, i) + d,
           applied'[o][i]["confirm"] = applied[o][i]["confirm"] + c
    PROVE  /\ IsFiniteSet(ItemsOf(p)')
           /\ OpenUnits(p) \in Int /\ ConfirmedUnits(p) \in Int
           /\ cart[o][i].product # p =>
                 OpenUnits(p)' = OpenUnits(p) /\ ConfirmedUnits(p)' = ConfirmedUnits(p)
           /\ cart[o][i].product = p =>
                 /\ OpenUnits(p)' = OpenUnits(p) + cart[o][i].quantity * d
                 /\ ConfirmedUnits(p)' = ConfirmedUnits(p) + cart[o][i].quantity * c
<1>1. PICK S : S = ItemsOf(p)
  OBVIOUS
<1>2. S = ItemsOf(p)'
  BY <1>1 DEF ItemsOf, Items
<1>3. PICK F, G, H, K : F = OpenPart(p) /\ G = OpenPart(p)' /\ H = ConfirmedPart(p) /\ K = ConfirmedPart(p)'
  OBVIOUS
<1>4. /\ OpenUnits(p) = SumFunctionOnSet(F, S) /\ OpenUnits(p)' = SumFunctionOnSet(G, S)
      /\ ConfirmedUnits(p) = SumFunctionOnSet(H, S) /\ ConfirmedUnits(p)' = SumFunctionOnSet(K, S)
  BY <1>1, <1>2, <1>3, Units, UnitsNext, Zenon
<1>5. \A x \in S : F[x] \in Int /\ G[x] \in Int /\ H[x] \in Int /\ K[x] \in Int
  BY <1>1, <1>2, <1>3, Parts, PartsNext, Zenon
<1>6. ASSUME NEW x \in S, x # <<o, i>> PROVE G[x] = F[x] /\ K[x] = H[x]
  <2>1. /\ x[1] \in Order /\ x[2] \in Index /\ x = <<x[1], x[2]>>
        /\ F[x] = cart[x[1]][x[2]].quantity * Open(x[1], x[2])
        /\ H[x] = cart[x[1]][x[2]].quantity * applied[x[1]][x[2]]["confirm"]
    BY <1>1, <1>3, Parts, Zenon
  <2>2. /\ G[x] = cart'[x[1]][x[2]].quantity * Open(x[1], x[2])'
        /\ K[x] = cart'[x[1]][x[2]].quantity * applied'[x[1]][x[2]]["confirm"]
    BY <1>2, <1>3, PartsNext, Zenon
  <2>3. ~(x[1] = o /\ x[2] = i)
    BY <1>6, <2>1, Zenon
  <2>4. Open(x[1], x[2])' = Open(x[1], x[2]) /\ applied'[x[1]][x[2]]["confirm"] = applied[x[1]][x[2]]["confirm"]
    BY <2>1, <2>3
  <2>5. QED
    BY <2>1, <2>2, <2>4, Zenon
<1>7. i \in Index /\ cart[o][i].quantity \in Int /\ IsFiniteSet(S)
  BY <1>1, CartFacts, ItemFacts
<1>8. SumFunctionOnSet(F, S) \in Int /\ SumFunctionOnSet(H, S) \in Int
  BY <1>5, <1>7, SumInt
<1>9. CASE cart[o][i].product # p
  <2>1. <<o, i>> \notin S
    BY <1>1, <1>9 DEF ItemsOf
  <2>2. \A x \in S : G[x] = F[x] /\ K[x] = H[x]
    BY <1>6, <2>1
  <2>3. SumFunctionOnSet(G, S) = SumFunctionOnSet(F, S) /\ SumFunctionOnSet(K, S) = SumFunctionOnSet(H, S)
    BY <1>7, <2>2, SumSame
  <2>4. QED
    BY <1>2, <1>4, <1>7, <1>8, <1>9, <2>3, Zenon
<1>10. CASE cart[o][i].product = p
  <2>1. PICK y : y = <<o, i>>
    OBVIOUS
  <2>2. y \in S /\ y[1] = o /\ y[2] = i
    BY <1>1, <1>7, <1>10, <2>1 DEF ItemsOf
  <2>3. PICK q, n, m \in Int : q = cart[o][i].quantity /\ n = Open(o, i) /\ m = applied[o][i]["confirm"]
    <3>1. applied[o][i]["confirm"] \in Int
      BY <1>7 DEF TypeOK, Kind
    <3>2. Open(o, i) \in Int /\ cart[o][i].quantity \in Int
      BY <1>7, OpenInt
    <3>3. QED
      BY <3>1, <3>2, Zenon
  <2>4. F[y] = q * n /\ H[y] = q * m /\ G[y] = q * (n + d) /\ K[y] = q * (m + c)
    <3>1. F[y] = cart[o][i].quantity * Open(o, i) /\ H[y] = cart[o][i].quantity * applied[o][i]["confirm"]
      BY <1>1, <1>3, <2>2, Parts
    <3>2. /\ G[y] = cart'[o][i].quantity * Open(o, i)'
          /\ K[y] = cart'[o][i].quantity * applied'[o][i]["confirm"]
      BY <1>2, <1>3, <2>2, PartsNext
    <3>3. QED
      BY <2>3, <3>1, <3>2, Zenon
  <2>5. \A x \in S : x # y => G[x] = F[x] /\ K[x] = H[x]
    BY <1>6, <2>1
  <2>6. /\ SumFunctionOnSet(G, S) = SumFunctionOnSet(F, S) + (G[y] - F[y])
        /\ SumFunctionOnSet(K, S) = SumFunctionOnSet(H, S) + (K[y] - H[y])
    BY <1>5, <1>7, <2>2, <2>5, SumChange
  <2>7. G[y] - F[y] = q * d /\ K[y] - H[y] = q * c
    BY <2>4, Distributes
  <2>8. QED
    BY <1>2, <1>4, <1>7, <1>8, <1>10, <2>3, <2>6, <2>7, Zenon
<1>11. QED
  BY <1>9, <1>10

\* Most steps leave stock, carts and what was settled alone.
LEMMA StillAccounted ==
    ASSUME TypeOK, TypeOK', StockAccounted, \A p \in Product : IsFiniteSet(ItemsOf(p)),
           UNCHANGED <<row, cart, held, applied>>
    PROVE  StockAccounted' /\ \A p \in Product : IsFiniteSet(ItemsOf(p)')
<1> SUFFICES ASSUME NEW p \in Product
             PROVE  /\ IsFiniteSet(ItemsOf(p)')
                    /\ OpenUnits(p)' = OpenUnits(p) /\ ConfirmedUnits(p)' = ConfirmedUnits(p)
  BY DEF StockAccounted
<1>1. PICK S : S = ItemsOf(p) /\ IsFiniteSet(S)
  OBVIOUS
<1>2. S = ItemsOf(p)'
  BY <1>1 DEF ItemsOf, Items
<1>3. PICK F, G, H, K : F = OpenPart(p) /\ G = OpenPart(p)' /\ H = ConfirmedPart(p) /\ K = ConfirmedPart(p)'
  OBVIOUS
<1>4. /\ OpenUnits(p) = SumFunctionOnSet(F, S) /\ OpenUnits(p)' = SumFunctionOnSet(G, S)
      /\ ConfirmedUnits(p) = SumFunctionOnSet(H, S) /\ ConfirmedUnits(p)' = SumFunctionOnSet(K, S)
  BY <1>1, <1>2, <1>3, Units, UnitsNext, Zenon
<1>5. ASSUME NEW x \in S PROVE G[x] = F[x] /\ K[x] = H[x]
  <2>1. /\ F[x] = cart[x[1]][x[2]].quantity * Open(x[1], x[2])
        /\ H[x] = cart[x[1]][x[2]].quantity * applied[x[1]][x[2]]["confirm"]
    BY <1>1, <1>3, Parts, Zenon
  <2>2. /\ G[x] = cart'[x[1]][x[2]].quantity * Open(x[1], x[2])'
        /\ K[x] = cart'[x[1]][x[2]].quantity * applied'[x[1]][x[2]]["confirm"]
    BY <1>2, <1>3, PartsNext, Zenon
  <2>3. Open(x[1], x[2])' = Open(x[1], x[2])
    BY DEF Open
  <2>4. QED
    BY <2>1, <2>2, <2>3, Zenon
<1>6. SumFunctionOnSet(G, S) = SumFunctionOnSet(F, S) /\ SumFunctionOnSet(K, S) = SumFunctionOnSet(H, S)
  BY <1>1, <1>5, SumSame
<1>7. QED
  BY <1>1, <1>2, <1>4, <1>6, Zenon

\* An order begins: its items are new, and add nothing yet.
LEMMA BeginAccounted ==
    ASSUME Inv, TypeOK', AccountInv, NEW o \in Order, NEW c \in Carts, BeginCreate(o, c)
    PROVE  StockAccounted' /\ \A p \in Product : IsFiniteSet(ItemsOf(p)')
<1>1. TypeOK /\ OnlyHeldSettled
  BY DEF Inv
<1>2. cart[o] = <<>> /\ \A i \in Index : ~held[o][i]
  BY DEF BeginCreate, AccountInv, Fresh
<1>3. UNCHANGED <<row, held, applied>> /\ cart'[o] = c /\ \A s \in Order : s # o => cart'[s] = cart[s]
  BY <1>1 DEF BeginCreate, stockVars, TypeOK
<1>4. \A i \in Index : Open(o, i)' = 0 /\ applied'[o][i]["confirm"] = 0
  <2> TAKE i \in Index
  <2>1. \A k \in Kind : Requests(o, i, k) \in Nat /\ asked[o][i][k] \in Nat /\ applied[o][i][k] \in Nat
    BY <1>1, CountFacts DEF TypeOK
  <2>2. \A k \in Kind : Requests(o, i, k) = 0
    BY <1>1, <1>2, <2>1 DEF OnlyHeldSettled
  <2>3. \A k \in Kind : applied[o][i][k] = 0
    BY <2>1, <2>2 DEF Requests
  <2>4. applied[o][i]["release"] = 0 /\ applied[o][i]["confirm"] = 0
    BY <2>3 DEF Kind
  <2>5. QED
    BY <1>2, <1>3, <2>4 DEF Open
<1> SUFFICES ASSUME NEW p \in Product
             PROVE  /\ IsFiniteSet(ItemsOf(p)')
                    /\ OpenUnits(p)' = OpenUnits(p) /\ ConfirmedUnits(p)' = ConfirmedUnits(p)
  BY <1>3 DEF StockAccounted, AccountInv
<1>5. PICK S, T : S = ItemsOf(p) /\ T = ItemsOf(p)'
  OBVIOUS
<1>6. \A x \in Order \X Index : x[1] # o => (x \in T <=> x \in S)
  BY <1>3, <1>5 DEF ItemsOf, Items
<1>7. S \subseteq T /\ \A x \in T \ S : x[1] = o
  <2>1. \A x \in S : x \in Order \X Index /\ x[2] \in DOMAIN cart[x[1]]
    BY <1>5 DEF ItemsOf, Items
  <2>2. \A x \in S : x[1] # o
    BY <1>2, <2>1
  <2>3. \A x \in T : x \in Order \X Index
    BY <1>5 DEF ItemsOf
  <2>4. QED
    BY <1>6, <2>1, <2>2, <2>3, Zenon
<1>8. IsFiniteSet(S) /\ IsFiniteSet(T)
  <2>1. IsFiniteSet(S)
    BY <1>5 DEF AccountInv
  <2>2. c \in Seq(Item)
    BY SagaAssumption, Zenon
  <2>3. Len(c) \in Nat /\ DOMAIN c = 1 .. Len(c)
    BY <2>2
  <2>4. IsFiniteSet(DOMAIN c)
    BY <2>3, FS_Interval
  <2>5. IsFiniteSet({o} \X DOMAIN c)
    BY <2>4, FS_Singleton, FS_Product
  <2>6. \A x \in T \ S : x \in {o} \X DOMAIN c
    BY <1>3, <1>5, <1>7 DEF ItemsOf, Items
  <2>7. T \subseteq S \cup ({o} \X DOMAIN c)
    BY <2>6
  <2>8. IsFiniteSet(S \cup ({o} \X DOMAIN c))
    BY <2>1, <2>5, FS_Union
  <2>9. QED
    BY <2>1, <2>7, <2>8, FS_Subset
<1>9. PICK F, G, H, K : F = OpenPart(p) /\ G = OpenPart(p)' /\ H = ConfirmedPart(p) /\ K = ConfirmedPart(p)'
  OBVIOUS
<1>10. /\ OpenUnits(p) = SumFunctionOnSet(F, S) /\ OpenUnits(p)' = SumFunctionOnSet(G, T)
       /\ ConfirmedUnits(p) = SumFunctionOnSet(H, S) /\ ConfirmedUnits(p)' = SumFunctionOnSet(K, T)
  BY <1>5, <1>9, Units, UnitsNext, Zenon
<1>11. ASSUME NEW x \in T
       PROVE  /\ x[1] \in Order /\ x[2] \in Index /\ G[x] \in Int /\ K[x] \in Int
              /\ G[x] = cart'[x[1]][x[2]].quantity * Open(x[1], x[2])'
              /\ K[x] = cart'[x[1]][x[2]].quantity * applied'[x[1]][x[2]]["confirm"]
  BY <1>5, <1>9, PartsNext, Zenon
<1>12. ASSUME NEW x \in S PROVE G[x] = F[x] /\ K[x] = H[x]
  <2>1. /\ F[x] = cart[x[1]][x[2]].quantity * Open(x[1], x[2])
        /\ H[x] = cart[x[1]][x[2]].quantity * applied[x[1]][x[2]]["confirm"]
        /\ x[1] \in Order /\ x[2] \in DOMAIN cart[x[1]]
    BY <1>1, <1>5, <1>9, Parts, Zenon DEF Items
  <2>2. x \in T /\ cart'[x[1]] = cart[x[1]]
    BY <1>2, <1>3, <1>7, <2>1
  <2>3. Open(x[1], x[2])' = Open(x[1], x[2])
    BY <1>3 DEF Open
  <2>4. QED
    BY <1>3, <1>11, <2>1, <2>2, <2>3, Zenon
<1>13. ASSUME NEW x \in T \ S PROVE G[x] = 0 /\ K[x] = 0
  <2>1. x[1] = o /\ x[2] \in Index
    BY <1>7, <1>11, <1>13
  <2>2. cart'[x[1]][x[2]].quantity \in Int
    <3>1. c \in Seq(Item)
      BY SagaAssumption, Zenon
    <3>2. x[2] \in DOMAIN c
      BY <1>3, <1>5, <1>13, <2>1 DEF ItemsOf, Items
    <3>3. c[x[2]] \in Item
      BY <3>1, <3>2
    <3>4. QED
      BY <1>3, <2>1, <3>3, ItemFacts
  <2>3. G[x] = cart'[x[1]][x[2]].quantity * 0 /\ K[x] = cart'[x[1]][x[2]].quantity * 0
    BY <1>4, <1>11, <2>1
  <2>4. QED
    BY <2>2, <2>3
<1>14. /\ SumFunctionOnSet(G, T) = SumFunctionOnSet(G, S) /\ SumFunctionOnSet(K, T) = SumFunctionOnSet(K, S)
       /\ SumFunctionOnSet(G, S) = SumFunctionOnSet(F, S) /\ SumFunctionOnSet(K, S) = SumFunctionOnSet(H, S)
  <2>1. SumFunctionOnSet(G, T) = SumFunctionOnSet(G, S) /\ SumFunctionOnSet(K, T) = SumFunctionOnSet(K, S)
    BY <1>7, <1>8, <1>11, <1>13, SumZeros
  <2>2. SumFunctionOnSet(G, S) = SumFunctionOnSet(F, S) /\ SumFunctionOnSet(K, S) = SumFunctionOnSet(H, S)
    BY <1>8, <1>12, SumSame
  <2>3. QED
    BY <2>1, <2>2
<1>15. QED
  BY <1>5, <1>8, <1>10, <1>14, Zenon

\* One row moves by what one item adds to the sums.
LEMMA RowMoves ==
    ASSUME TypeOK, TypeOK', StockAccounted, \A p \in Product : IsFiniteSet(ItemsOf(p)), UNCHANGED cart,
           NEW o \in Order, NEW i \in Items(o), NEW d \in Int, NEW c \in Int,
           \A s \in Order, j \in Index : ~(s = o /\ j = i) =>
               Open(s, j)' = Open(s, j) /\ applied'[s][j]["confirm"] = applied[s][j]["confirm"],
           Open(o, i)' = Open(o, i) + d,
           applied'[o][i]["confirm"] = applied[o][i]["confirm"] + c,
           \A p \in Product : p # cart[o][i].product => row'[p] = row[p],
           row'[cart[o][i].product].reserved =
               row[cart[o][i].product].reserved + cart[o][i].quantity * d,
           row'[cart[o][i].product].total =
               row[cart[o][i].product].total - cart[o][i].quantity * c
    PROVE  StockAccounted' /\ \A p \in Product : IsFiniteSet(ItemsOf(p)')
<1> SUFFICES ASSUME NEW p \in Product
             PROVE  /\ IsFiniteSet(ItemsOf(p)')
                    /\ row'[p].reserved = OpenUnits(p)'
                    /\ row'[p].total = InitStock[p] - ConfirmedUnits(p)'
  BY DEF StockAccounted
<1>1. /\ IsFiniteSet(ItemsOf(p)')
      /\ OpenUnits(p) \in Int /\ ConfirmedUnits(p) \in Int
      /\ cart[o][i].product # p =>
            OpenUnits(p)' = OpenUnits(p) /\ ConfirmedUnits(p)' = ConfirmedUnits(p)
      /\ cart[o][i].product = p =>
            /\ OpenUnits(p)' = OpenUnits(p) + cart[o][i].quantity * d
            /\ ConfirmedUnits(p)' = ConfirmedUnits(p) + cart[o][i].quantity * c
  BY Moved
<1>2. row[p].reserved = OpenUnits(p) /\ row[p].total = InitStock[p] - ConfirmedUnits(p)
  BY DEF StockAccounted
<1>3. CASE cart[o][i].product # p
  BY <1>1, <1>2, <1>3
<1>4. CASE cart[o][i].product = p
  <2>1. PICK q \in Int : q = cart[o][i].quantity
    BY CartFacts, ItemFacts
  <2>2. InitStock[p] \in Int /\ q * d \in Int /\ q * c \in Int
    BY <2>1, SagaAssumption
  <2>3. PICK x \in Int, y \in Int : x = q * d /\ y = q * c
    BY <2>2
  <2>4. /\ row'[p].reserved = OpenUnits(p) + x /\ row'[p].total = (InitStock[p] - ConfirmedUnits(p)) - y
        /\ OpenUnits(p)' = OpenUnits(p) + x /\ ConfirmedUnits(p)' = ConfirmedUnits(p) + y
    BY <1>1, <1>2, <1>4, <2>1, <2>3, Zenon
  <2>5. QED
    BY <1>1, <2>2, <2>4
<1>5. QED
  BY <1>3, <1>4

\* The reservation of item i takes effect.
Reserves(o, i) ==
    /\ create[o].pc = "reserve" /\ create[o].item = i
    /\ row' = [row EXCEPT ![cart[o][i].product] = ReserveStock(@, cart[o][i].quantity)]
    /\ held' = [held EXCEPT ![o][i] = TRUE]
    /\ UNCHANGED <<cart, applied>>

\* The item was not held, and is open now.
LEMMA ReserveAccounted ==
    ASSUME Inv, TypeOK', AccountInv, NEW o \in Order, NEW i, Reserves(o, i)
    PROVE  StockAccounted' /\ \A p \in Product : IsFiniteSet(ItemsOf(p)')
<1>1. create[o].pc = "reserve" /\ i = create[o].item /\ UNCHANGED <<cart, applied>>
  BY DEF Reserves
<1>2. TypeOK /\ i \in Items(o)
  BY <1>1 DEF Inv, Reserving
<1>3. i \in Index /\ i \in Nat /\ cart[o][i].product \in Product /\ cart[o][i].quantity \in Int
  BY <1>2, CartFacts, ItemFacts, CountFacts
<1>4. ~held[o][i]
  BY <1>1, <1>3 DEF AccountInv, Fresh
<1>5. held'[o][i] /\ \A s \in Order, j \in Index : ~(s = o /\ j = i) => held'[s][j] = held[s][j]
  <2>1. held' = [held EXCEPT ![o][i] = TRUE]
    BY Zenon DEF Reserves
  <2>2. QED
    BY <1>2, <1>3, <2>1, HeldFacts, Zenon
<1>6. \A s \in Order, j \in Index : ~(s = o /\ j = i) =>
         Open(s, j)' = Open(s, j) /\ applied'[s][j]["confirm"] = applied[s][j]["confirm"]
  BY <1>1, <1>5 DEF Open
<1>7. applied[o][i]["release"] \in Nat /\ applied[o][i]["confirm"] \in Nat
  BY <1>2, <1>3 DEF TypeOK, Kind
<1>8. Open(o, i)' = Open(o, i) + 1 /\ applied'[o][i]["confirm"] = applied[o][i]["confirm"] + 0
  BY <1>1, <1>4, <1>5, <1>7 DEF Open
<1>9. PICK r, q : r = row[cart[o][i].product] /\ q = cart[o][i].quantity /\ r \in Row /\ q \in Int
  BY <1>2, <1>3 DEF TypeOK
<1>10. row'[cart[o][i].product] = [r EXCEPT !.reserved = @ + q]
       /\ \A p \in Product : p # cart[o][i].product => row'[p] = row[p]
  BY <1>2, <1>3, <1>9 DEF Reserves, TypeOK, ReserveStock
<1>11. r.reserved \in Int /\ r.total \in Int /\ [r EXCEPT !.reserved = @ + q].reserved = r.reserved + q
       /\ [r EXCEPT !.reserved = @ + q].total = r.total
  BY <1>9 DEF Row
<1>12. r.reserved + q = r.reserved + q * 1 /\ r.total = r.total - q * 0
  BY <1>9, <1>11
<1>13. /\ row'[cart[o][i].product].reserved = row[cart[o][i].product].reserved + cart[o][i].quantity * 1
       /\ row'[cart[o][i].product].total = row[cart[o][i].product].total - cart[o][i].quantity * 0
  BY <1>9, <1>10, <1>11, <1>12, Zenon
<1>14. StockAccounted /\ \A p \in Product : IsFiniteSet(ItemsOf(p))
  BY DEF AccountInv
<1>15. PICK d \in Int, c \in Int : d = 1 /\ c = 0
  OBVIOUS
<1>16. /\ Open(o, i)' = Open(o, i) + d /\ applied'[o][i]["confirm"] = applied[o][i]["confirm"] + c
       /\ row'[cart[o][i].product].reserved = row[cart[o][i].product].reserved + cart[o][i].quantity * d
       /\ row'[cart[o][i].product].total = row[cart[o][i].product].total - cart[o][i].quantity * c
  BY <1>8, <1>13, <1>15, Zenon
<1>17. (UNCHANGED cart) /\ \A p \in Product : p # cart[o][i].product => row'[p] = row[p]
  BY <1>1, <1>10
<1>18. QED
  BY <1>2, <1>6, <1>14, <1>16, <1>17, RowMoves

\* A stock event is applied: one unit of the item less is open, and one more
\* is confirmed if the event says so.
LEMMA ApplyAccounted ==
    ASSUME Inv, TypeOK', AccountInv, NEW o \in Order, NEW i \in Items(o), NEW k \in Kind,
           ApplyStockEvent(o, i, k)
    PROVE  StockAccounted' /\ \A p \in Product : IsFiniteSet(ItemsOf(p)')
<1>1. TypeOK /\ UNCHANGED <<cart, held>>
  BY DEF Inv, ApplyStockEvent, createVars
<1>2. i \in Index /\ cart[o][i].product \in Product /\ cart[o][i].quantity \in Int
  BY <1>1, CartFacts, ItemFacts
<1>3. PICK c : c = IF k = "confirm" THEN 1 ELSE 0
  OBVIOUS
<1>4. /\ applied \in [Order -> [Index -> [Kind -> Nat]]]
      /\ \A s \in Order, j \in Index, l \in Kind :
            applied'[s][j][l] = IF s = o /\ j = i /\ l = k THEN applied[s][j][l] + 1 ELSE applied[s][j][l]
  <2>1. applied \in [Order -> [Index -> [Kind -> Nat]]] /\ applied[o][i][k] + 1 >= 0
    BY <1>1, <1>2 DEF TypeOK
  <2>2. applied' = [applied EXCEPT ![o][i][k] = @ + 1]
    BY DEF ApplyStockEvent
  <2>3. QED
    BY <1>2, <2>1, <2>2, Counted
<1>5. "release" \in Kind /\ "confirm" \in Kind /\ (k = "release" \/ k = "confirm")
  BY DEF Kind
<1>6. \A s \in Order, j \in Index : ~(s = o /\ j = i) =>
         Open(s, j)' = Open(s, j) /\ applied'[s][j]["confirm"] = applied[s][j]["confirm"]
  <2> SUFFICES ASSUME NEW s \in Order, NEW j \in Index, ~(s = o /\ j = i)
               PROVE  Open(s, j)' = Open(s, j) /\ applied'[s][j]["confirm"] = applied[s][j]["confirm"]
    OBVIOUS
  <2>1. applied'[s][j]["release"] = applied[s][j]["release"] /\ applied'[s][j]["confirm"] = applied[s][j]["confirm"]
    BY <1>4, <1>5, Zenon
  <2>2. QED
    BY <1>1, <2>1 DEF Open
<1>7. applied[o][i]["release"] \in Nat /\ applied[o][i]["confirm"] \in Nat
  BY <1>2, <1>4, <1>5
<1>8. Open(o, i)' = Open(o, i) + (-1) /\ applied'[o][i]["confirm"] = applied[o][i]["confirm"] + c
  <2>1. CASE k = "release"
    <3>1. applied'[o][i]["release"] = applied[o][i]["release"] + 1 /\ applied'[o][i]["confirm"] = applied[o][i]["confirm"]
      BY <1>2, <1>4, <1>5, <2>1
    <3>2. QED
      BY <1>1, <1>3, <1>7, <2>1, <3>1 DEF Open
  <2>2. CASE k = "confirm"
    <3>1. applied'[o][i]["confirm"] = applied[o][i]["confirm"] + 1 /\ applied'[o][i]["release"] = applied[o][i]["release"]
      BY <1>2, <1>4, <1>5, <2>2
    <3>2. QED
      BY <1>1, <1>3, <1>7, <2>2, <3>1 DEF Open
  <2>3. QED
    BY <1>5, <2>1, <2>2
<1>9. PICK r, q : r = row[cart[o][i].product] /\ q = cart[o][i].quantity /\ r \in Row /\ q \in Int
  BY <1>1, <1>2 DEF TypeOK
<1>10. row'[cart[o][i].product] = Apply(r, [kind |-> k, quantity |-> q])
       /\ \A p \in Product : p # cart[o][i].product => row'[p] = row[p]
  BY <1>1, <1>2, <1>9 DEF ApplyStockEvent, TypeOK
<1>11. r.reserved \in Int /\ r.total \in Int
  BY <1>9 DEF Row
<1>12. /\ Apply(r, [kind |-> k, quantity |-> q]).reserved = r.reserved + q * (-1)
       /\ Apply(r, [kind |-> k, quantity |-> q]).total = r.total - q * c
  <2>1. CASE k = "release"
    BY <1>3, <1>9, <1>11, <2>1 DEF Apply, ReleaseStock, Row
  <2>2. CASE k = "confirm"
    BY <1>3, <1>9, <1>11, <2>2 DEF Apply, ConfirmStock, ReleaseStock, Row
  <2>3. QED
    BY <1>5, <2>1, <2>2
<1>13. /\ row'[cart[o][i].product].reserved = row[cart[o][i].product].reserved + cart[o][i].quantity * (-1)
       /\ row'[cart[o][i].product].total = row[cart[o][i].product].total - cart[o][i].quantity * c
  BY <1>9, <1>10, <1>12, Zenon
<1>14. StockAccounted /\ (\A p \in Product : IsFiniteSet(ItemsOf(p))) /\ -1 \in Int /\ c \in Int
  BY <1>3 DEF AccountInv
<1>15. QED
  BY <1>1, <1>6, <1>8, <1>10, <1>13, <1>14, RowMoves

\* Which steps touch carts, reservations and stock.
LEMMA StockSteps ==
    ASSUME [Next]_vars
    PROVE  \/ UNCHANGED <<row, cart, held, applied>>
           \/ \E o \in Order, c \in Carts : BeginCreate(o, c)
           \/ \E o \in Order : Reserves(o, create[o].item)
           \/ \E o \in Order : \E i \in Items(o), k \in Kind : ApplyStockEvent(o, i, k)
<1> USE DEF createVars, paymentVars, stockVars
<1>1. ASSUME NEW o \in Order, ReserveAnswered(o) \/ ReserveFails(o)
      PROVE  UNCHANGED <<row, cart, held, applied>> \/ Reserves(o, create[o].item)
  BY <1>1, Zenon DEF ReserveAnswered, ReserveFails, Reserves
<1> DEFINE Quiet == UNCHANGED <<row, cart, held, applied>>
<1>2. ASSUME NEW o \in Order, NEW res \in Results,
             \/ PersistOrder(o) \/ PersistFails(o) \/ MarkFailed(o) \/ CreateDies(o)
             \/ PublishOrderCreated(o, res) \/ CompensateItem(o, res) \/ CompensateHangs(o)
      PROVE  Quiet
  BY <1>2, Zenon DEF PersistOrder, PersistFails, MarkFailed, CreateDies, PublishOrderCreated, CompensateItem,
                     CompensateHangs
<1>3. ASSUME NEW o \in Order, NEW v \in Verdict, NEW res \in Results,
             \/ PaymentDecides(o, v) \/ Deliver(v, o) \/ HandleUpdate(v) \/ Ack(v) \/ HandlerFails(v)
             \/ HandlePublish(v, res)
      PROVE  Quiet
  BY <1>3, Zenon DEF PaymentDecides, Deliver, HandleUpdate, Ack, HandlerFails, HandlePublish
<1>4. ASSUME NEW v \in Verdict, HandlerStep(v) \/ HandlerFails(v) PROVE Quiet
  BY <1>4, Zenon DEF HandlerStep, HandleUpdate, Ack, HandlerFails, HandlePublish, HandlerHangs, LoopEnds
<1>5. ASSUME NEW o \in Order, CreateStep(o) \/ ReserveFails(o) \/ PersistFails(o) \/ CreateDies(o)
      PROVE  Quiet \/ Reserves(o, create[o].item)
  <2>1. "ok" \in Results
    BY DEF Results
  <2>2. QED
    BY <1>1, <1>2, <1>5, <2>1, Zenon DEF CreateStep
<1>6. UNCHANGED vars \/ ChannelCloses \/ Restart => Quiet
  BY Zenon DEF vars, ChannelCloses, Restart
<1>7. QED
  <2>1. "ok" \in Results
    BY DEF Results
  <2> HIDE DEF Quiet
  <2>2. \/ Quiet
        \/ \E o \in Order, c \in Carts : BeginCreate(o, c)
        \/ \E o \in Order : Reserves(o, create[o].item)
        \/ \E o \in Order : \E i \in Items(o), k \in Kind : ApplyStockEvent(o, i, k)
    BY <1>3, <1>4, <1>5, <1>6, <2>1, Zenon DEF Next
  <2>3. QED
    BY <2>2, Zenon DEF Quiet

\* A call that is past its reservations is not fresh any more.
LEMMA NotFresh == ASSUME NEW o, create'[o].pc \notin {"idle", "reserve"} PROVE Fresh(o)'
  BY DEF Fresh

\* An order that a step does not touch.
LEMMA SameFresh ==
    ASSUME NEW o, Fresh(o), create'[o] = create[o], cart'[o] = cart[o],
           \A i \in Index : held'[o][i] = held[o][i]
    PROVE  Fresh(o)'
  BY DEF Fresh

\* Whose progress a step changes.
LEMMA FreshCall ==
    ASSUME Inv, AccountInv, NEW q \in Order,
           \/ \E c \in Carts : BeginCreate(q, c)
           \/ CreateStep(q) \/ ReserveFails(q) \/ PersistFails(q) \/ CreateDies(q)
    PROVE  \A o \in Order : Fresh(o)'
<1>1. TypeOK /\ \A o \in Order : Fresh(o)
  BY DEF Inv, AccountInv
<1> USE DEF createVars, paymentVars, stockVars
<1>2. CASE \E c \in Carts : BeginCreate(q, c)
  <2>1. PICK c \in Carts : BeginCreate(q, c)
    BY <1>2
  <2>2. UNCHANGED held /\ create'[q].pc = "reserve" /\ \A i \in Index : ~held[q][i]
    BY <1>1, <2>1 DEF BeginCreate, Fresh, TypeOK, NotStarted
  <2>3. \A o \in Order : o # q => create'[o] = create[o] /\ cart'[o] = cart[o]
    BY <1>1, <2>1 DEF BeginCreate, TypeOK
  <2>4. Fresh(q)'
    BY <2>2 DEF Fresh
  <2>5. QED
    BY <1>1, <2>2, <2>3, <2>4, SameFresh
<1>3. ASSUME NEW n \in Nat, NEW then \in {"fail", "rejected"}, StartCompensation(q, n, then), UNCHANGED cart,
             \A o \in Order : o # q => \A i \in Index : held'[o][i] = held[o][i]
      PROVE  \A o \in Order : Fresh(o)'
  <2>1. create'[q].pc \notin {"idle", "reserve"} /\ \A o \in Order : o # q => create'[o] = create[o]
    BY <1>1, <1>3, Compensating
  <2>2. QED
    BY <1>1, <1>3, <2>1, NotFresh, SameFresh
<1>4. ASSUME NEW pc \in CreatePC \ {"idle", "reserve"}, Goto(q, pc), UNCHANGED <<cart, held>>
      PROVE  \A o \in Order : Fresh(o)'
  <2>1. create'[q].pc \notin {"idle", "reserve"} /\ \A o \in Order : o # q => create'[o] = create[o]
    BY <1>1, <1>4, GotoFacts
  <2>2. QED
    BY <1>1, <1>4, <2>1, NotFresh, SameFresh
<1>5. CASE ReserveAnswered(q) \/ ReserveFails(q)
  <2>1. PICK i : i = create[q].item
    OBVIOUS
  <2>2. create[q].pc = "reserve" /\ UNCHANGED cart /\ i \in Items(q) /\ i \in Index /\ i \in Nat /\ i - 1 \in Nat
    <3>1. create[q].pc = "reserve" /\ UNCHANGED cart
      BY <1>5, Zenon DEF ReserveAnswered, ReserveFails
    <3>2. i \in Items(q)
      BY <2>1, <3>1 DEF Inv, Reserving
    <3>3. QED
      BY <1>1, <3>1, <3>2, CartFacts
  <2>3. \A s \in Order, j \in Index : ~(s = q /\ j = i) => held'[s][j] = held[s][j]
    <3>1. UNCHANGED held \/ held' = [held EXCEPT ![q][i] = TRUE]
      BY <1>5, <2>1, Zenon DEF ReserveAnswered, ReserveFails
    <3>2. CASE UNCHANGED held
      BY <3>2
    <3>3. CASE held' = [held EXCEPT ![q][i] = TRUE]
      BY <1>1, <2>2, <3>3, HeldFacts, Zenon
    <3>4. QED
      BY <3>1, <3>2, <3>3
  <2>4. CASE StartCompensation(q, i - 1, "rejected")
    BY <1>3, <2>2, <2>3, <2>4
  <2>5. CASE create' = [create EXCEPT ![q] =
                          [@ EXCEPT !.pc = IF i = Len(cart[q]) THEN "persist" ELSE "reserve", !.item = i + 1]]
    <3>1. PICK pc \in CreatePC : pc = IF i = Len(cart[q]) THEN "persist" ELSE "reserve"
      BY DEF CreatePC
    <3>2. create'[q].pc = pc /\ create'[q].item = i + 1 /\ \A o \in Order : o # q => create'[o] = create[o]
      <4>1. PICK n \in Nat : n = i + 1
        BY <2>2
      <4>2. create' = [create EXCEPT ![q] = [@ EXCEPT !.pc = pc, !.item = n]]
        BY <2>5, <3>1, <4>1, Zenon
      <4>3. create'[q].pc = pc /\ create'[q].item = n /\ \A o \in Order : o # q => create'[o] = create[o]
        <5>1. PICK x : x = [create[q] EXCEPT !.pc = pc, !.item = n]
          OBVIOUS
        <5>2. create[q] \in Creating /\ create \in [Order -> Creating]
          BY <1>1 DEF TypeOK
        <5>3. x.pc = pc /\ x.item = n
          BY <5>1, <5>2 DEF Creating
        <5>4. create' = [create EXCEPT ![q] = x]
          BY <4>2, <5>1, Zenon
        <5>5. QED
          BY <5>2, <5>3, <5>4
      <4>4. QED
        BY <4>1, <4>3, Zenon
    <3>3. \A j \in Index : j \in Nat /\ (j >= i => ~held[q][j])
      BY <1>1, <2>1, <2>2, CountFacts DEF Fresh
    <3>4. \A j \in Index : j >= i + 1 => ~held'[q][j]
      BY <2>2, <2>3, <3>3
    <3>5. Fresh(q)'
      BY <3>1, <3>2, <3>4 DEF Fresh
    <3>6. QED
      BY <1>1, <2>2, <2>3, <3>2, <3>5, SameFresh
  <2>6. QED
    BY <1>5, <2>1, <2>4, <2>5 DEF ReserveAnswered, ReserveFails
<1>6. CASE PersistOrder(q) \/ PersistFails(q)
  <2>1. UNCHANGED <<cart, held>> /\ Len(cart[q]) \in Nat
        /\ (Goto(q, "publish") \/ StartCompensation(q, Len(cart[q]), "rejected"))
    BY <1>1, <1>6, CartFacts DEF PersistOrder, PersistFails
  <2>2. QED
    BY <1>3, <1>4, <2>1 DEF CreatePC
<1>7. ASSUME NEW res \in Results, PublishOrderCreated(q, res) PROVE \A o \in Order : Fresh(o)'
  <2>1. UNCHANGED <<cart, held>> /\ Len(cart[q]) \in Nat
        /\ (Goto(q, "accepted") \/ StartCompensation(q, Len(cart[q]), "fail"))
    BY <1>1, <1>7, CartFacts DEF PublishOrderCreated
  <2>2. QED
    BY <1>3, <1>4, <2>1 DEF CreatePC
<1>8. ASSUME NEW res \in Results, CompensateItem(q, res) PROVE \A o \in Order : Fresh(o)'
  <2>1. UNCHANGED <<cart, held>>
    BY <1>8 DEF CompensateItem
  <2>2. PICK pc, n : /\ pc = IF create[q].item = create[q].last THEN create[q].then ELSE "compensate"
                     /\ n = create[q].item + 1
    OBVIOUS
  <2>3. create[q].item \in Nat /\ create[q].then \in {"fail", "rejected"}
    BY <1>1 DEF TypeOK, Creating
  <2>4. pc \in CreatePC /\ pc \notin {"idle", "reserve"} /\ n \in Nat
    BY <2>2, <2>3 DEF CreatePC
  <2>5. create' = [create EXCEPT ![q] = [@ EXCEPT !.pc = pc, !.item = n]]
    BY <1>8, <2>2 DEF CompensateItem
  <2>6. create'[q].pc = pc /\ \A o \in Order : o # q => create'[o] = create[o]
    BY <1>1, <2>4, <2>5, AdvanceFacts
  <2>7. QED
    BY <1>1, <2>1, <2>4, <2>6, NotFresh, SameFresh
<1>9. CASE MarkFailed(q)
  BY <1>4, <1>9 DEF MarkFailed, CreatePC
<1>10. CASE CreateDies(q)
  BY <1>4, <1>10 DEF CreateDies, CreatePC
<1>11. CASE CompensateHangs(q)
  BY <1>4, <1>11 DEF CompensateHangs, CreatePC
<1>12. QED
  BY <1>2, <1>5, <1>6, <1>7, <1>8, <1>9, <1>10, <1>11, Zenon DEF CreateStep

\* The payment service, the consumers and the product service reserve nothing.
LEMMA FreshStep == ASSUME Inv, AccountInv, [Next]_vars PROVE \A o \in Order : Fresh(o)'
<1>1. CASE UNCHANGED <<create, cart, held>>
  BY <1>1, SameFresh DEF AccountInv
<1> USE DEF createVars, paymentVars, stockVars
<1>2. ASSUME NEW o \in Order, NEW v \in Verdict, PaymentDecides(o, v) \/ Deliver(v, o)
      PROVE  UNCHANGED <<create, cart, held>>
  BY <1>2, Zenon DEF PaymentDecides, Deliver
<1>3. ASSUME NEW v \in Verdict, HandlerStep(v) \/ HandlerFails(v)
      PROVE  UNCHANGED <<create, cart, held>>
  BY <1>3, Zenon DEF HandlerStep, HandleUpdate, Ack, HandlerFails, HandlePublish, HandlerHangs, LoopEnds
<1>4. ASSUME NEW o \in Order, NEW i \in Items(o), NEW k \in Kind, ApplyStockEvent(o, i, k)
      PROVE  UNCHANGED <<create, cart, held>>
  BY <1>4, Zenon DEF ApplyStockEvent
<1>5. UNCHANGED vars \/ ChannelCloses \/ Restart => UNCHANGED <<create, cart, held>>
  BY Zenon DEF vars, ChannelCloses, Restart
<1>6. QED
  BY <1>1, <1>2, <1>3, <1>4, <1>5, FreshCall, Zenon DEF Next

\* Every step keeps the accounts.
LEMMA AccountStep == ASSUME Inv, TypeOK', AccountInv, [Next]_vars PROVE AccountInv'
<1>1. StockAccounted' /\ \A p \in Product : IsFiniteSet(ItemsOf(p)')
  <2>1. CASE UNCHANGED <<row, cart, held, applied>>
    BY <2>1, StillAccounted DEF Inv, AccountInv
  <2>2. QED
    BY <2>1, StockSteps, BeginAccounted, ReserveAccounted, ApplyAccounted, Zenon
<1>2. QED
  BY <1>1, FreshStep DEF AccountInv

\* No order, no item, no unit.
LEMMA InitAccount == Init => AccountInv
<1> SUFFICES ASSUME Init PROVE AccountInv
  OBVIOUS
<1>1. \A o \in Order : Fresh(o)
  BY DEF Init, Fresh, NotStarted
<1>2. \A p \in Product : ItemsOf(p) = {}
  <2>1. \A o \in Order : Items(o) = {}
    BY DEF Init, Items
  <2>2. QED
    BY <2>1 DEF ItemsOf
<1>3. IsFiniteSet({})
  BY FS_EmptySet
<1>4. \A F : SumFunctionOnSet(F, {}) = 0
  BY <1>3, SumFirst
<1>5. \A p \in Product : OpenUnits(p) = 0 /\ ConfirmedUnits(p) = 0
  BY <1>2, <1>4, Units, Zenon
<1>6. \A p \in Product : row[p].reserved = 0 /\ row[p].total = InitStock[p] /\ InitStock[p] \in Nat
  BY SagaAssumption DEF Init, NewRow
<1>7. StockAccounted
  <2> SUFFICES ASSUME NEW p \in Product
               PROVE  row[p].reserved = OpenUnits(p) /\ row[p].total = InitStock[p] - ConfirmedUnits(p)
    BY DEF StockAccounted
  <2>1. InitStock[p] - 0 = InitStock[p]
    BY <1>6
  <2>2. QED
    BY <1>5, <1>6, <2>1, Zenon
<1>8. QED
  BY <1>1, <1>2, <1>3, <1>7 DEF AccountInv

\* The products table agrees with the saga to the last unit, for any orders,
\* carts and faults: what CreateOrder reserves, and what compensation and the
\* two consumers make the product service settle, is all there is in a row.
THEOREM StockAgrees == Spec => []StockAccounted
<1>1. Init => AccountInv
  BY InitAccount
<1>2. Inv /\ Inv' /\ AccountInv /\ [Next]_vars => AccountInv'
  BY AccountStep DEF Inv
<1>3. AccountInv => StockAccounted
  BY DEF AccountInv
<1>4. QED
  BY <1>1, <1>2, <1>3, Invariance, PTL DEF Spec

=============================================================================
