----------------------------- MODULE OrderSaga -----------------------------
(***************************************************************************)
(* The order saga: CreateOrder with its compensation, the two consumers of *)
(* payment events, and what they make the product service do.              *)
(*                                                                         *)
(* The product service appears as the ledger it implements (StockLedger):  *)
(* a reservation is one conditional UPDATE, and a stock event that was     *)
(* published takes effect at most once, when its row allows it.  Stock     *)
(* events differ only in their uuid, so the model counts them per order    *)
(* item instead of naming them.  The payment service appears as an         *)
(* environment that may answer an order.created event, with one verdict.   *)
(* Whether a verdict ever comes, and whether a stock event ever reaches    *)
(* the product service, is left open here (see LinkRecorded in             *)
(* PaymentService and StockEventArrives in Lifecycle).                     *)
(*                                                                         *)
(* A lost call, a lost answer, a closed channel and a crash are faults; a  *)
(* behaviour has at most MaxFaults of them.  That Publish never returns    *)
(* (PublisherConfirms) is not a fault: it takes no failure.                *)
(***************************************************************************)
EXTENDS StockRow, Sequences, Functions

CONSTANTS Order,       \* order ids; one CreateOrder call each
          Carts,       \* carts a client may send: sequences of items
          InitStock,   \* InitStock[p]: total_stock of p at the start
          MaxFaults,   \* how many faults a behaviour has
          NoOrder      \* no order in a handler's hands

Item == [product : Product, quantity : Quantity]

ASSUME SagaAssumption ==
    /\ Carts \subseteq Seq(Item) \ {<<>>}
    /\ \A q \in Quantity : q > 0
    /\ InitStock \in [Product -> Nat]
    /\ MaxFaults \in Nat
    /\ NoOrder \notin Order

VARIABLES row,         \* products table of the product service
          status,      \* orders table: status[o], "none" before it exists
          cart,        \* cart[o]: the items of o (order_items once it exists)
          create,      \* create[o]: progress of CreateOrder
          orderEvents, \* orders whose order.created waits for the payment service
          verdict,     \* verdict[o]: what the payment service decided
          queue,       \* queue[v]: orders in the payment.v queue
          handler,     \* handler[v]: the consumer goroutine of that queue
          channelOpen, \* the AMQP channel that both consumers share is open
          listening,   \* listening[v]: Consume of that queue is still in its loop
          held,        \* history: held[o][i], the reservation took effect
          asked,       \* asked[o][i][k]: stock events published, not applied yet
          applied,     \* history: applied[o][i][k], stock events applied
          faults       \* faults so far (a bound of the model)

vars == <<row, status, cart, create, orderEvents, verdict, queue, handler,
          channelOpen, listening, held, asked, applied, faults>>

Verdict == {"completed", "failed"}
Status  == {"none", "pending", "confirmed", "cancelled", "failed"}
Final   == {"confirmed", "cancelled", "failed"}

\* item is the next item to work on, last the last one to compensate.  An
\* accepted order is announced and its call does nothing more: it has returned,
\* or waits for a confirmation that does not come.  A hung call waits for that
\* of a compensation.
CreatePC == {"idle", "reserve", "persist", "publish", "compensate", "fail",
             "accepted", "rejected", "hung", "dead"}
Creating == [pc : CreatePC, item : Nat, last : Nat, then : {"fail", "rejected"}]
NotStarted == [pc |-> "idle", item |-> 0, last |-> 0, then |-> "rejected"]

HandlerPC == {"idle", "update", "publish", "ack", "hung"}
Handling  == [pc : HandlerPC, order : Order \cup {NoOrder}, item : Nat]
IdleHandler == [pc |-> "idle", order |-> NoOrder, item |-> 0]

Items(o) == DOMAIN cart[o]
Index    == UNION {DOMAIN c : c \in Carts}

NoStockEvents == [o \in Order |-> [i \in Index |-> [k \in Kind |-> 0]]]

Init == /\ row = [p \in Product |-> NewRow(InitStock[p])]
        /\ status = [o \in Order |-> "none"]
        /\ cart = [o \in Order |-> <<>>]
        /\ create = [o \in Order |-> NotStarted]
        /\ orderEvents = {}
        /\ verdict = [o \in Order |-> "none"]
        /\ queue = [v \in Verdict |-> {}]
        /\ handler = [v \in Verdict |-> IdleHandler]
        /\ channelOpen = TRUE
        /\ listening = [v \in Verdict |-> TRUE]
        /\ held = [o \in Order |-> [i \in Index |-> FALSE]]
        /\ asked = NoStockEvents
        /\ applied = NoStockEvents
        /\ faults = 0

Fault   == faults < MaxFaults /\ faults' = faults + 1
NoFault == UNCHANGED faults

createVars  == <<status, cart, create, orderEvents>>
consumerVars == <<channelOpen, listening>>
paymentVars == <<verdict, queue, handler, consumerVars>>
stockVars   == <<row, held, asked, applied>>

Goto(o, pc) == create' = [create EXCEPT ![o].pc = pc]

\* A stock event for item i of o is on its way to the product service.
Ask(o, i, k) == asked' = [asked EXCEPT ![o][i][k] = @ + 1]

\* Publish returns nil; or an error, with the message lost or delivered after
\* all (the confirmation was lost or belonged to another message).  That it
\* delivers the message and never returns are actions of their own.
Published    == {"ok", "unknown"}
PublishError == {"lost", "unknown"}
PublishResult(res) == IF res \in PublishError THEN Fault ELSE NoFault

(***************************************************************************)
(* CreateOrder.                                                            *)
(***************************************************************************)
\* The cart is not empty and its products exist and are active.
BeginCreate(o, c) ==
    /\ create[o].pc = "idle"
    /\ cart' = [cart EXCEPT ![o] = c]
    /\ create' = [create EXCEPT ![o] = [NotStarted EXCEPT !.pc = "reserve", !.item = 1]]
    /\ UNCHANGED <<status, orderEvents, paymentVars, stockVars, faults>>

\* Mutants: compensate the whole cart instead of what was reserved, and
\* return the error without compensating.
StartCompensationAll(o, n, then) ==
    create' = [create EXCEPT ![o] =
                 [pc |-> "compensate", item |-> 1, last |-> Len(cart[o]), then |-> then]]

StartCompensationSkipped(o, n, then) ==
    create' = [create EXCEPT ![o] = [pc |-> then, item |-> 1, last |-> n, then |-> then]]

\* compensateReservations over the first n items, then `then'.
StartCompensation(o, n, then) ==
    create' = [create EXCEPT ![o] =
                 [pc |-> IF n = 0 THEN then ELSE "compensate", item |-> 1, last |-> n, then |-> then]]

\* The ReserveStock call for the next item is answered: granted or refused.
ReserveAnswered(o) ==
    LET i == create[o].item  IN  LET it == cart[o][i] IN
    /\ create[o].pc = "reserve"
    /\ \/ /\ CanReserve(row[it.product], it.quantity)
          /\ row' = [row EXCEPT ![it.product] = ReserveStock(@, it.quantity)]
          /\ held' = [held EXCEPT ![o][i] = TRUE]
          /\ create' = [create EXCEPT ![o] =
                          [@ EXCEPT !.pc = IF i = Len(cart[o]) THEN "persist" ELSE "reserve",
                                    !.item = i + 1]]
       \/ /\ ~CanReserve(row[it.product], it.quantity)
          /\ StartCompensation(o, i - 1, "rejected")
          /\ UNCHANGED <<row, held>>
    /\ UNCHANGED <<status, cart, orderEvents, paymentVars, asked, applied, faults>>

\* The call fails, or its three seconds pass, before or after the UPDATE.
ReserveFails(o) ==
    LET i == create[o].item  IN  LET it == cart[o][i] IN
    /\ create[o].pc = "reserve"
    /\ StartCompensation(o, i - 1, "rejected")
    /\ \/ UNCHANGED <<row, held>>
       \/ /\ CanReserve(row[it.product], it.quantity)
          /\ row' = [row EXCEPT ![it.product] = ReserveStock(@, it.quantity)]
          /\ held' = [held EXCEPT ![o][i] = TRUE]
    /\ Fault
    /\ UNCHANGED <<status, cart, orderEvents, paymentVars, asked, applied>>

\* order_items has a unique (order_id, product_id).
HasDuplicates(c) ==
    \E i, j \in DOMAIN c : i # j /\ c[i].product = c[j].product

\* orderRepo.Create commits the order and its items in one transaction.
PersistOrder(o) ==
    /\ create[o].pc = "persist"
    /\ \/ /\ ~HasDuplicates(cart[o])
          /\ status' = [status EXCEPT ![o] = "pending"]
          /\ Goto(o, "publish")
       \/ /\ HasDuplicates(cart[o])
          /\ StartCompensation(o, Len(cart[o]), "rejected")
          /\ UNCHANGED status
    /\ UNCHANGED <<cart, orderEvents, paymentVars, stockVars, faults>>

\* The transaction fails, or commits with its answer lost.
PersistFails(o) ==
    /\ create[o].pc = "persist"
    /\ \/ UNCHANGED status
       \/ ~HasDuplicates(cart[o]) /\ status' = [status EXCEPT ![o] = "pending"]
    /\ StartCompensation(o, Len(cart[o]), "rejected")
    /\ Fault
    /\ UNCHANGED <<cart, orderEvents, paymentVars, stockVars>>

PublishOrderCreated(o, res) ==
    /\ create[o].pc = "publish"
    /\ orderEvents' = IF res \in Published THEN orderEvents \cup {o} ELSE orderEvents
    /\ IF res \in PublishError THEN StartCompensation(o, Len(cart[o]), "fail")
                               ELSE Goto(o, "accepted")
    /\ PublishResult(res)
    /\ UNCHANGED <<status, cart, paymentVars, stockVars>>

\* One round of the loop in compensateReservations; errors are only logged.
CompensateItem(o, res) ==
    LET i == create[o].item IN
    /\ create[o].pc = "compensate"
    /\ IF res \in Published THEN Ask(o, i, "release") ELSE UNCHANGED asked
    /\ create' = [create EXCEPT ![o] =
                    [@ EXCEPT !.pc = IF i = create[o].last THEN create[o].then ELSE "compensate",
                              !.item = i + 1]]
    /\ PublishResult(res)
    /\ UNCHANGED <<status, cart, orderEvents, paymentVars, row, held, applied>>

\* The release is out, and the loop waits for its confirmation for ever.
CompensateHangs(o) ==
    /\ create[o].pc = "compensate"
    /\ Ask(o, create[o].item, "release")
    /\ Goto(o, "hung")
    /\ UNCHANGED <<status, cart, orderEvents, paymentVars, row, held, applied, faults>>

\* Mutants: the UPDATE without its condition, and with the wrong one.
UpdateStatusAnyway(o, next) == status' = [status EXCEPT ![o] = next]

UpdateStatusWrongWhere(o, next) ==
    status' = IF status[o] = "failed" THEN [status EXCEPT ![o] = next] ELSE status

\* UPDATE orders SET status = next WHERE id = o AND status = 'pending'.
UpdateStatus(o, next) ==
    status' = IF status[o] = "pending" THEN [status EXCEPT ![o] = next] ELSE status

\* After a failed publication; an error of UpdateStatus is only logged.
MarkFailed(o) ==
    /\ create[o].pc = "fail"
    /\ \/ UpdateStatus(o, "failed") /\ NoFault
       \/ UNCHANGED status /\ Fault
    /\ Goto(o, "rejected")
    /\ UNCHANGED <<cart, orderEvents, paymentVars, stockVars>>

\* The order service dies in the middle of the call.
CreateDies(o) ==
    /\ create[o].pc \in {"reserve", "persist", "publish", "compensate", "fail"}
    /\ Goto(o, "dead")
    /\ Fault
    /\ UNCHANGED <<status, cart, orderEvents, paymentVars, stockVars>>

(***************************************************************************)
(* The payment service, as seen from here: it may decide, once.            *)
(***************************************************************************)
PaymentDecides(o, v) ==
    /\ o \in orderEvents
    /\ orderEvents' = orderEvents \ {o}
    /\ verdict' = [verdict EXCEPT ![o] = v]
    /\ queue' = [queue EXCEPT ![v] = @ \cup {o}]
    /\ UNCHANGED <<status, cart, create, handler, consumerVars, stockVars, faults>>

(***************************************************************************)
(* PaymentEventConsumer: handlePaymentSucceeded, handlePaymentFailed.      *)
(***************************************************************************)
\* Mutants: handlePaymentFailed copied from handlePaymentSucceeded.
NextStatusCopied(v) == "confirmed"
StockKindCopied(v)  == "confirm"

NextStatus(v) == IF v = "completed" THEN "confirmed" ELSE "cancelled"
StockKind(v)  == IF v = "completed" THEN "confirm" ELSE "release"

Deliver(v, o) ==
    /\ channelOpen /\ listening[v] /\ handler[v].pc = "idle"
    /\ o \in queue[v]
    /\ queue' = [queue EXCEPT ![v] = @ \ {o}]
    /\ handler' = [handler EXCEPT ![v] = [pc |-> "update", order |-> o, item |-> 1]]
    /\ UNCHANGED <<createVars, verdict, consumerVars, stockVars, faults>>

\* "Not pending any more" is taken for a redelivery: the handler goes on and
\* loads the order with its items.
HandleUpdate(v) ==
    /\ handler[v].pc = "update"
    /\ UpdateStatus(handler[v].order, NextStatus(v))
    /\ handler' = [handler EXCEPT ![v].pc = "publish"]
    /\ UNCHANGED <<cart, create, orderEvents, verdict, queue, consumerVars, stockVars, faults>>

\* Ack and Nack: the goroutine is done with its message.  On a closed channel
\* they fail and Consume returns, for good.
DoneWith(v) ==
    /\ handler' = [handler EXCEPT ![v] = IdleHandler]
    /\ listening' = [listening EXCEPT ![v] = channelOpen]
    /\ UNCHANGED channelOpen

\* Mutant: a failed message is dropped.
RequeueDrops(v) == UNCHANGED queue /\ DoneWith(v)

\* Nack with requeue; on a closed channel the broker has the message back
\* already.
Requeue(v) ==
    /\ queue' = [queue EXCEPT ![v] = @ \cup {handler[v].order}]
    /\ DoneWith(v)

\* One round of the loop over order.Items; an error ends it with a nack.
HandlePublish(v, res) ==
    LET o == handler[v].order  i == handler[v].item IN
    /\ handler[v].pc = "publish"
    /\ IF res \in Published THEN Ask(o, i, StockKind(v)) ELSE UNCHANGED asked
    /\ IF res \in PublishError
       THEN Requeue(v)
       ELSE /\ handler' = [handler EXCEPT ![v] =
                             [@ EXCEPT !.pc = IF i = Len(cart[o]) THEN "ack" ELSE "publish",
                                       !.item = i + 1]]
            /\ UNCHANGED <<queue, consumerVars>>
    /\ PublishResult(res)
    /\ UNCHANGED <<createVars, verdict, row, held, applied>>

\* The stock event is out, and the handler waits for its confirmation for ever.
HandlerHangs(v) ==
    /\ handler[v].pc = "publish"
    /\ Ask(handler[v].order, handler[v].item, StockKind(v))
    /\ handler' = [handler EXCEPT ![v].pc = "hung"]
    /\ UNCHANGED <<createVars, verdict, queue, consumerVars, row, held, applied, faults>>

\* Mutant: a handled message is nacked.
AckRequeues(v) ==
    /\ handler[v].pc = "ack"
    /\ Requeue(v)
    /\ UNCHANGED <<createVars, verdict, stockVars, faults>>

Ack(v) ==
    /\ handler[v].pc = "ack"
    /\ DoneWith(v)
    /\ UNCHANGED <<createVars, verdict, queue, stockVars, faults>>

\* The database fails at the UPDATE or at GetByID after it: nack.
HandlerFails(v) ==
    /\ handler[v].pc = "update" \/ (handler[v].pc = "publish" /\ handler[v].item = 1)
    /\ Requeue(v)
    /\ Fault
    /\ UNCHANGED <<createVars, verdict, stockVars>>

\* What the handler of v has in its hands, not acknowledged yet.
Unacked(v) == IF handler[v].pc = "idle" THEN {} ELSE {handler[v].order}

\* The channel closes: the broker takes back what is not acknowledged, while
\* the handlers go on with what they have in hand.
ChannelCloses ==
    /\ channelOpen /\ channelOpen' = FALSE
    /\ queue' = [v \in Verdict |-> queue[v] \cup Unacked(v)]
    /\ Fault
    /\ UNCHANGED <<createVars, verdict, handler, listening, stockVars>>

\* The Go channel of deliveries is closed: Consume returns, and nothing calls
\* it again.
LoopEnds(v) ==
    /\ ~channelOpen /\ listening[v] /\ handler[v].pc = "idle"
    /\ listening' = [listening EXCEPT ![v] = FALSE]
    /\ UNCHANGED <<createVars, verdict, queue, handler, channelOpen, stockVars, faults>>

\* The service dies and starts again, with a new channel and new consumers.
\* (The calls of CreateOrder that die with it are CreateDies.)
Restart ==
    /\ channelOpen' = TRUE
    /\ listening' = [v \in Verdict |-> TRUE]
    /\ handler' = [v \in Verdict |-> IdleHandler]
    /\ queue' = [v \in Verdict |-> queue[v] \cup Unacked(v)]
    /\ Fault
    /\ UNCHANGED <<createVars, verdict, stockVars>>

(***************************************************************************)
(* The product service applies a stock event, if one reaches it.           *)
(***************************************************************************)
ApplyStockEvent(o, i, k) ==
    LET it == cart[o][i]  IN  LET e == [kind |-> k, quantity |-> it.quantity] IN
    /\ asked[o][i][k] > 0
    /\ CanApply(row[it.product], e)
    /\ row' = [row EXCEPT ![it.product] = Apply(@, e)]
    /\ asked' = [asked EXCEPT ![o][i][k] = @ - 1]
    /\ applied' = [applied EXCEPT ![o][i][k] = @ + 1]
    /\ UNCHANGED <<createVars, paymentVars, held, faults>>

-----------------------------------------------------------------------------
Results == {"ok", "lost", "unknown"}

CreateStep(o) ==
    \/ ReserveAnswered(o) \/ PersistOrder(o) \/ CompensateHangs(o) \/ MarkFailed(o)
    \/ \E res \in Results : PublishOrderCreated(o, res) \/ CompensateItem(o, res)

HandlerStep(v) ==
    \/ HandleUpdate(v) \/ HandlerHangs(v) \/ Ack(v) \/ LoopEnds(v)
    \/ \E res \in Results : HandlePublish(v, res)

Next ==
    \/ \E o \in Order, c \in Carts : BeginCreate(o, c)
    \/ \E o \in Order : CreateStep(o) \/ ReserveFails(o) \/ PersistFails(o) \/ CreateDies(o)
    \/ \E o \in Order, v \in Verdict : PaymentDecides(o, v) \/ Deliver(v, o)
    \/ \E v \in Verdict : HandlerStep(v) \/ HandlerFails(v)
    \/ ChannelCloses \/ Restart
    \/ \E o \in Order : \E i \in Items(o), k \in Kind : ApplyStockEvent(o, i, k)

Spec == Init /\ [][Next]_vars

\* Calls run on, and so do the two consumer goroutines, whom the broker hands
\* what is queued.  Nothing makes the payment service decide, the product
\* service apply a stock event, or anybody restart the service.
Fairness ==
    /\ \A o \in Order : WF_vars(CreateStep(o))
    /\ \A v \in Verdict : WF_vars(HandlerStep(v) \/ \E o \in Order : Deliver(v, o))

FairSpec == Spec /\ Fairness

(***************************************************************************)
(* Properties.                                                             *)
(***************************************************************************)
\* Type invariant.
TypeOK ==
    /\ row \in [Product -> Row]
    /\ status \in [Order -> Status]
    /\ cart \in [Order -> Carts \cup {<<>>}]
    /\ create \in [Order -> Creating]
    /\ orderEvents \subseteq Order
    /\ verdict \in [Order -> Verdict \cup {"none"}]
    /\ queue \in [Verdict -> SUBSET Order]
    /\ handler \in [Verdict -> Handling]
    /\ channelOpen \in BOOLEAN
    /\ listening \in [Verdict -> BOOLEAN]
    /\ held \in [Order -> [Index -> BOOLEAN]]
    /\ asked \in [Order -> [Index -> [Kind -> Nat]]]
    /\ applied \in [Order -> [Index -> [Kind -> Nat]]]
    /\ faults \in 0 .. MaxFaults

\* Stock events of kind k that were ever published for item i of order o.
Requests(o, i, k) == asked[o][i][k] + applied[o][i][k]

\* The items of all orders that are for product p, as pairs of order and index.
ItemsOf(p) ==
    {oi \in Order \X Index : oi[2] \in Items(oi[1]) /\ cart[oi[1]][oi[2]].product = p}

\* How often item i of order o is reserved and not settled.
Open(o, i) == (IF held[o][i] THEN 1 ELSE 0) - applied[o][i]["release"] - applied[o][i]["confirm"]

\* The units of p that this makes, and those that were confirmed.
OpenUnits(p) ==
    SumFunction([oi \in ItemsOf(p) |-> cart[oi[1]][oi[2]].quantity * Open(oi[1], oi[2])])
ConfirmedUnits(p) ==
    SumFunction([oi \in ItemsOf(p) |-> cart[oi[1]][oi[2]].quantity * applied[oi[1]][oi[2]]["confirm"]])

\* The products table and the saga agree to the last unit, whatever fails:
\* reserved_stock is what was reserved and neither released nor confirmed,
\* and total_stock has shrunk by what was confirmed.
StockAccounted ==
    \A p \in Product : /\ row[p].reserved = OpenUnits(p)
                       /\ row[p].total = InitStock[p] - ConfirmedUnits(p)

\* Nothing is released or confirmed that was not reserved, also when a
\* reservation, the database or a publication failed half way.
OnlyHeldSettled ==
    \A o \in Order, i \in Index, k \in Kind : Requests(o, i, k) > 0 => held[o][i]

\* The outcome of an order is the payment service's: it is confirmed, and its
\* stock consumed, only if its payment completed, cancelled only if it failed.
PaymentBacked ==
    \A o \in Order :
        /\ status[o] = "confirmed" => verdict[o] = "completed"
        /\ status[o] = "cancelled" => verdict[o] = "failed"
        /\ \A i \in Index : Requests(o, i, "confirm") > 0 => verdict[o] = "completed"

\* A verdict is not forgotten: until every item of the order has been
\* released, or confirmed, the payment event is in its queue or in hand.
VerdictNotLost ==
    \A o \in Order, v \in Verdict : verdict[o] = v =>
        \/ o \in queue[v]
        \/ handler[v].pc # "idle" /\ handler[v].order = o
        \/ \A i \in Items(o) : Requests(o, i, StockKind(v)) > 0

\* A final status is final: confirmed, cancelled and failed orders stay so,
\* whichever of CreateOrder and the two consumers comes late.
StatusFinal ==
    [][\A o \in Order : status[o] \in Final => status'[o] = status[o]]_vars

\* Until something fails an item is settled once: whoever gets to it,
\* compensation or one of the two consumers, at most one stock event is ever
\* published for it.
SettledOnce ==
    faults = 0 => \A o \in Order, i \in Index :
        Requests(o, i, "release") + Requests(o, i, "confirm") <= 1

\* Until something fails stock follows the status: it is consumed for confirmed
\* orders only, and given back for all others only.
SettlementMatchesStatus ==
    faults = 0 => \A o \in Order, i \in Index :
        /\ Requests(o, i, "confirm") > 0 => status[o] = "confirmed"
        /\ Requests(o, i, "release") > 0 => status[o] # "confirmed"

\* No reservation is forgotten: CreateOrder hands it on to the payment service
\* with the order, or asks for its release, also when another item is refused.
\* (Unless Publish hangs in its compensation, or something fails.)
ReservationResolved ==
    \A o \in Order, i \in Index :
        held[o][i] ~> \/ create[o].pc = "accepted" \/ Requests(o, i, "release") > 0
                      \/ create[o].pc = "hung" \/ faults > 0

\* A verdict takes effect, database errors, redeliveries and restarts
\* notwithstanding, where the consumer of its queue stays in its loop and
\* Publish returns: the order becomes final and every item is asked to be
\* released, or confirmed.
VerdictTakesEffect ==
    \A o \in Order, v \in Verdict :
        <>[](listening[v] /\ handler[v].pc # "hung") =>
            ((verdict[o] = v) ~> /\ status[o] \in Final
                                 /\ \A i \in Items(o) : Requests(o, i, StockKind(v)) > 0)

\* What compensateReservations is for: when CreateOrder has returned an error,
\* the release of all stock it reserved is published.
CompensationSettles ==
    \A o \in Order, i \in Index :
        (held[o][i] /\ create[o].pc = "rejected") ~> (Requests(o, i, "release") > 0)
=============================================================================
