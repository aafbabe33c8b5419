--------------------------- MODULE ProductService ---------------------------
(***************************************************************************)
(* The product service: the products and processed_events tables, the      *)
(* cache-aside layer in front of them, the gRPC handlers, and the two      *)
(* goroutines per replica that consume stock release and confirm events.   *)
(*                                                                         *)
(* A transaction (postgres.WithTx) and a single statement are atomic;      *)
(* everything between two of them, a cache call or an acknowledgement, is  *)
(* a step of its own, so that handlers interleave and may die in between.  *)
(* The broker redelivers what was not acknowledged.                        *)
(***************************************************************************)
EXTENDS StockRow, FiniteSets

CONSTANTS MaxStock,    \* largest total_stock a product is created with
          Replica,     \* processes of the service
          Caller,      \* gRPC handlers that may run at the same time
          MaxFaults,   \* how many faults (lost calls, crashes) a behaviour has
          NoEvent,     \* no message in a consumer's hands
          NoProduct    \* no product in a caller's hands

ASSUME ServiceAssumption == /\ MaxStock \in Nat
                            /\ MaxFaults \in Nat
                            /\ NoEvent \notin StockEvent
                            /\ NoProduct \notin Product

VARIABLES row,         \* table products
          processed,   \* event ids in table processed_events
          cache,       \* Redis: product-service:product:<id>
          excused,     \* history: products with an entry no handler will delete
          published,   \* every stock event ever published
          corrupt,     \* ids of published events whose body is not valid JSON
          ready,       \* events in the queues, ready for delivery
          unacked,     \* unacked[r]: delivered to r, not yet acknowledged
          open,        \* open[r]: r's AMQP channel is open
          consumer,    \* consumer[r, k]: goroutine in Consume on queue k
          caller,      \* caller[c]: gRPC handler
          faults,      \* faults so far (a bound of the model)
          effects      \* history: how often an event has changed stock

dbVars     == <<row, processed, effects>>
cacheVars  == <<cache, excused>>
brokerVars == <<published, corrupt, ready, unacked, open>>
vars == <<dbVars, cacheVars, brokerVars, consumer, caller, faults>>

Consumer == Replica \X Kind

ConsumerPC == {"idle", "handle", "invalidate", "ack", "nack", "stopped"}
CallerPC   == {"idle", "invalidate", "refresh", "get", "read", "fill"}

ConsumerState == [pc : ConsumerPC, event : StockEvent \cup {NoEvent}]
CallerState   == [pc : CallerPC, product : Product \cup {NoProduct},
                  onlyActive : BOOLEAN, row : Row]

IdleConsumer == [pc |-> "idle", event |-> NoEvent]
IdleCaller   == [pc |-> "idle", product |-> NoProduct, onlyActive |-> FALSE, row |-> Absent]

Init == /\ row = [p \in Product |-> Absent]
        /\ processed = {}
        /\ cache = [p \in Product |-> Absent]
        /\ excused = {}
        /\ published = {}
        /\ corrupt = {}
        /\ ready = {}
        /\ unacked = [r \in Replica |-> {}]
        /\ open = [r \in Replica |-> TRUE]
        /\ consumer = [w \in Consumer |-> IdleConsumer]
        /\ caller = [c \in Caller |-> IdleCaller]
        /\ faults = 0
        /\ effects = [i \in EventID |-> 0]

\* One of the calls that may fail does: it counts against MaxFaults.
Fault == faults < MaxFaults /\ faults' = faults + 1
NoFault == UNCHANGED faults

(***************************************************************************)
(* The cache.  DEL and SET may fail; the service ignores the error.  Two    *)
(* things leave a stale entry to its TTL, and are kept in `excused': a DEL  *)
(* that was not done, and a SET of a row that has changed since it was read.*)
(***************************************************************************)
InvalidateProduct(p) ==
    \/ cache' = [cache EXCEPT ![p] = Absent] /\ excused' = excused \ {p} /\ NoFault
    \/ UNCHANGED cache /\ excused' = excused \cup {p} /\ Fault

SetProduct(p, r) ==
    \/ /\ cache' = [cache EXCEPT ![p] = r]
       /\ excused' = IF r = row[p] THEN excused \ {p} ELSE excused \cup {p}
       /\ NoFault
    \/ UNCHANGED cacheVars /\ Fault

\* The TTL of an entry runs out.
Expire(p) == /\ cache[p].exists
             /\ cache' = [cache EXCEPT ![p] = Absent]
             /\ excused' = excused \ {p}
             /\ UNCHANGED <<dbVars, brokerVars, consumer, caller, faults>>

(***************************************************************************)
(* gRPC handlers.  A write is one statement, followed by the deletion of   *)
(* the cached product.  A call that fails before its statement takes       *)
(* effect changes nothing.                                                 *)
(***************************************************************************)
CreateProduct(p) ==
    /\ ~row[p].exists
    /\ \E n \in 0 .. MaxStock : row' = [row EXCEPT ![p] = NewRow(n)]
    /\ UNCHANGED <<processed, effects, cacheVars, brokerVars, consumer, caller, faults>>

\* Handler c has executed its statement on p; `then' names what it does next.
Written(c, p, then) ==
    /\ caller' = [caller EXCEPT ![c] = [IdleCaller EXCEPT !.pc = then, !.product = p]]
    /\ UNCHANGED <<processed, effects, cacheVars, brokerVars, consumer, faults>>

\* Does not touch the stock columns; the product is read back afterwards.
UpdateProduct(c, p) ==
    /\ caller[c].pc = "idle"
    /\ row[p].exists
    /\ \E b \in BOOLEAN : row' = [row EXCEPT ![p].active = b]
    /\ Written(c, p, "refresh")

DeleteProduct(c, p) ==
    /\ caller[c].pc = "idle"
    /\ row[p].exists /\ row[p].active
    /\ row' = [row EXCEPT ![p].active = FALSE]
    /\ Written(c, p, "invalidate")

CallReserveStock(c, p, q) ==
    /\ caller[c].pc = "idle"
    /\ CanReserve(row[p], q)
    /\ row' = [row EXCEPT ![p] = ReserveStock(@, q)]
    /\ Written(c, p, "invalidate")

CallReleaseStock(c, p, q) ==
    /\ caller[c].pc = "idle"
    /\ CanRelease(row[p], q)
    /\ row' = [row EXCEPT ![p] = ReleaseStock(@, q)]
    /\ Written(c, p, "invalidate")

CallConfirmStock(c, p, q) ==
    /\ caller[c].pc = "idle"
    /\ CanConfirm(row[p], q)
    /\ row' = [row EXCEPT ![p] = ConfirmStock(@, q)]
    /\ Written(c, p, "invalidate")

\* InvalidateProduct after a write; UpdateProduct goes on to GetByID.
CallerInvalidates(c) ==
    /\ caller[c].pc \in {"invalidate", "refresh"}
    /\ InvalidateProduct(caller[c].product)
    /\ caller' = [caller EXCEPT ![c] =
                     IF caller[c].pc = "refresh" THEN [@ EXCEPT !.pc = "get"] ELSE IdleCaller]
    /\ UNCHANGED <<dbVars, brokerVars, consumer>>

\* GetProduct, or one id of GetProductsByIDs.
GetProduct(c, p) ==
    /\ caller[c].pc = "idle"
    /\ \E only \in BOOLEAN :
          caller' = [caller EXCEPT ![c] =
                        [IdleCaller EXCEPT !.pc = "get", !.product = p, !.onlyActive = only]]
    /\ UNCHANGED <<dbVars, cacheVars, brokerVars, consumer, faults>>

\* A hit ends the call; a miss, or an error from Redis, goes to the database.
CacheLookup(c) ==
    /\ caller[c].pc = "get"
    /\ \/ /\ cache[caller[c].product].exists
          /\ caller' = [caller EXCEPT ![c] = IdleCaller]
          /\ NoFault
       \/ /\ ~cache[caller[c].product].exists
          /\ caller' = [caller EXCEPT ![c].pc = "read"]
          /\ NoFault
       \/ /\ cache[caller[c].product].exists
          /\ caller' = [caller EXCEPT ![c].pc = "read"]
          /\ Fault
    /\ UNCHANGED <<dbVars, cacheVars, brokerVars, consumer>>

\* GetByID returns any row, GetByIDs only active ones.
Loads(c) == LET r == row[caller[c].product]
            IN  r.exists /\ (caller[c].onlyActive => r.active)

DatabaseRead(c) ==
    /\ caller[c].pc = "read"
    /\ caller' = [caller EXCEPT ![c] =
                     IF Loads(c)
                     THEN [@ EXCEPT !.pc = "fill", !.row = row[caller[c].product]]
                     ELSE IdleCaller]
    /\ UNCHANGED <<dbVars, cacheVars, brokerVars, consumer, faults>>

CacheFill(c) ==
    /\ caller[c].pc = "fill"
    /\ SetProduct(caller[c].product, caller[c].row)
    /\ caller' = [caller EXCEPT ![c] = IdleCaller]
    /\ UNCHANGED <<dbVars, brokerVars, consumer>>

\* The handler's process dies, or its context ends, before it is done.
CallerDies(c) ==
    /\ caller[c].pc # "idle"
    /\ caller' = [caller EXCEPT ![c] = IdleCaller]
    /\ excused' = IF caller[c].pc \in {"invalidate", "refresh"}
                   THEN excused \cup {caller[c].product} ELSE excused
    /\ Fault
    /\ UNCHANGED <<dbVars, cache, brokerVars, consumer>>

(***************************************************************************)
(* The broker and the channel.                                             *)
(***************************************************************************)
\* The order service publishes an event under an id of its own.
Publish(e, bad) ==
    /\ \A m \in published : m.id # e.id
    /\ published' = published \cup {e}
    /\ ready' = ready \cup {e}
    /\ corrupt' = IF bad THEN corrupt \cup {e.id} ELSE corrupt
    /\ UNCHANGED <<dbVars, cacheVars, unacked, open, consumer, caller, faults>>

\* An event reaches an idle consumer of its queue.
Deliver(w, e) ==
    /\ e \in ready /\ e.kind = w[2]
    /\ open[w[1]]
    /\ consumer[w].pc = "idle"
    /\ ready' = ready \ {e}
    /\ unacked' = [unacked EXCEPT ![w[1]] = @ \cup {e}]
    /\ consumer' = [consumer EXCEPT ![w] = [pc |-> "handle", event |-> e]]
    /\ UNCHANGED <<dbVars, cacheVars, published, corrupt, open, caller, faults>>

\* The connection of r is lost: the broker takes back what r has not
\* acknowledged, while a handler that is running goes on.
ChannelCloses(r) ==
    /\ open[r]
    /\ open' = [open EXCEPT ![r] = FALSE]
    /\ ready' = ready \cup unacked[r]
    /\ unacked' = [unacked EXCEPT ![r] = {}]
    /\ Fault
    /\ UNCHANGED <<dbVars, cacheVars, published, corrupt, consumer, caller>>

\* Replica r dies and is started again, with a new channel.
Restart(r) ==
    /\ open' = [open EXCEPT ![r] = TRUE]
    /\ ready' = ready \cup unacked[r]
    /\ unacked' = [unacked EXCEPT ![r] = {}]
    /\ consumer' = [w \in Consumer |-> IF w[1] = r THEN IdleConsumer ELSE consumer[w]]
    /\ Fault
    /\ UNCHANGED <<dbVars, cacheVars, published, corrupt, caller>>

(***************************************************************************)
(* StockReleaseConsumer.Handle and StockConfirmConsumer.Handle.            *)
(***************************************************************************)
Goto(w, pc) == consumer' = [consumer EXCEPT ![w].pc = pc]

\* A body that does not parse is acknowledged, so as not to block the queue.
SkipCorrupt(w) ==
    /\ consumer[w].pc = "handle"
    /\ consumer[w].event.id \in corrupt
    /\ Goto(w, "ack")
    /\ UNCHANGED <<dbVars, cacheVars, brokerVars, caller, faults>>

\* Mutant: an event processed before is acknowledged without another DEL.
SkipProcessedAtOnce(w) ==
    /\ consumer[w].pc = "handle"
    /\ consumer[w].event.id \notin corrupt
    /\ consumer[w].event.id \in processed
    /\ Goto(w, "ack")
    /\ UNCHANGED <<dbVars, cacheVars, brokerVars, caller, faults>>

\* MarkProcessed finds the id: commit nothing, and go on after the commit.
SkipProcessed(w) ==
    /\ consumer[w].pc = "handle"
    /\ consumer[w].event.id \notin corrupt
    /\ consumer[w].event.id \in processed
    /\ Goto(w, "invalidate")
    /\ UNCHANGED <<dbVars, cacheVars, brokerVars, caller, faults>>

\* Mutant: what MarkProcessed answers is ignored.
CommitTxUnchecked(e) ==
    /\ e.id \notin corrupt
    /\ CanApply(row[e.product], e)
    /\ row' = [row EXCEPT ![e.product] = Apply(@, e)]
    /\ processed' = processed \cup {e.id}
    /\ effects' = [effects EXCEPT ![e.id] = @ + 1]

\* MarkProcessed and the UPDATE commit together.
CommitTx(e) ==
    /\ e.id \notin corrupt
    /\ e.id \notin processed
    /\ CanApply(row[e.product], e)
    /\ row' = [row EXCEPT ![e.product] = Apply(@, e)]
    /\ processed' = processed \cup {e.id}
    /\ effects' = [effects EXCEPT ![e.id] = @ + 1]

ApplyEvent(w) ==
    /\ consumer[w].pc = "handle"
    /\ CommitTx(consumer[w].event)
    /\ Goto(w, "invalidate")
    /\ UNCHANGED <<cacheVars, brokerVars, caller, faults>>

\* COMMIT takes effect but its answer is lost, so the handler fails.
CommitAnswerLost(w) ==
    /\ consumer[w].pc = "handle"
    /\ CommitTx(consumer[w].event)
    /\ Goto(w, "nack")
    /\ Fault
    /\ UNCHANGED <<cacheVars, brokerVars, caller>>

\* Mutant: the error of the UPDATE is logged but not returned.
RejectEventSwallowed(w) ==
    /\ consumer[w].pc = "handle"
    /\ consumer[w].event.id \notin corrupt \cup processed
    /\ ~CanApply(row[consumer[w].event.product], consumer[w].event)
    /\ Goto(w, "invalidate")
    /\ UNCHANGED <<dbVars, cacheVars, brokerVars, caller, faults>>

\* The UPDATE matches no row: the transaction, its mark included, is undone.
RejectEvent(w) ==
    /\ consumer[w].pc = "handle"
    /\ consumer[w].event.id \notin corrupt \cup processed
    /\ ~CanApply(row[consumer[w].event.product], consumer[w].event)
    /\ Goto(w, "nack")
    /\ UNCHANGED <<dbVars, cacheVars, brokerVars, caller, faults>>

\* A statement, or the connection, fails.
TxFails(w) ==
    /\ consumer[w].pc = "handle"
    /\ consumer[w].event.id \notin corrupt
    /\ Goto(w, "nack")
    /\ Fault
    /\ UNCHANGED <<dbVars, cacheVars, brokerVars, caller>>

ConsumerInvalidates(w) ==
    /\ consumer[w].pc = "invalidate"
    /\ InvalidateProduct(consumer[w].event.product)
    /\ Goto(w, "ack")
    /\ UNCHANGED <<dbVars, brokerVars, caller>>

(***************************************************************************)
(* The loop in Consume.  On a closed channel it returns, and is not        *)
(* started again.                                                          *)
(***************************************************************************)
Ack(w) ==
    /\ consumer[w].pc = "ack" /\ open[w[1]]
    /\ unacked' = [unacked EXCEPT ![w[1]] = @ \ {consumer[w].event}]
    /\ consumer' = [consumer EXCEPT ![w] = IdleConsumer]
    /\ UNCHANGED <<dbVars, cacheVars, published, corrupt, ready, open, caller, faults>>

\* Mutants: a nack without requeue, and a failed message left alone.
NackDiscards(w) ==
    /\ consumer[w].pc = "nack" /\ open[w[1]]
    /\ unacked' = [unacked EXCEPT ![w[1]] = @ \ {consumer[w].event}]
    /\ consumer' = [consumer EXCEPT ![w] = IdleConsumer]
    /\ UNCHANGED <<dbVars, cacheVars, published, corrupt, ready, open, caller, faults>>

NackForgotten(w) ==
    /\ consumer[w].pc = "nack" /\ open[w[1]]
    /\ consumer' = [consumer EXCEPT ![w] = IdleConsumer]
    /\ UNCHANGED <<dbVars, cacheVars, brokerVars, caller, faults>>

Nack(w) ==
    /\ consumer[w].pc = "nack" /\ open[w[1]]
    /\ unacked' = [unacked EXCEPT ![w[1]] = @ \ {consumer[w].event}]
    /\ ready' = ready \cup {consumer[w].event}
    /\ consumer' = [consumer EXCEPT ![w] = IdleConsumer]
    /\ UNCHANGED <<dbVars, cacheVars, published, corrupt, open, caller, faults>>

ConsumerStops(w) ==
    /\ consumer[w].pc \in {"idle", "ack", "nack"} /\ ~open[w[1]]
    /\ consumer' = [consumer EXCEPT ![w] = [IdleConsumer EXCEPT !.pc = "stopped"]]
    /\ UNCHANGED <<dbVars, cacheVars, brokerVars, caller, faults>>

-----------------------------------------------------------------------------
CallerStep(c) ==
    \/ CallerInvalidates(c) \/ CacheLookup(c) \/ DatabaseRead(c) \/ CacheFill(c)

ConsumerStep(w) ==
    \/ SkipCorrupt(w) \/ SkipProcessed(w) \/ ApplyEvent(w) \/ RejectEvent(w)
    \/ ConsumerInvalidates(w) \/ Ack(w) \/ Nack(w) \/ ConsumerStops(w)

Next ==
    \/ \E p \in Product : CreateProduct(p) \/ Expire(p)
    \/ \E c \in Caller : CallerStep(c) \/ CallerDies(c)
    \/ \E c \in Caller, p \in Product :
          UpdateProduct(c, p) \/ DeleteProduct(c, p) \/ GetProduct(c, p)
    \/ \E c \in Caller, p \in Product, q \in Quantity :
          CallReserveStock(c, p, q) \/ CallReleaseStock(c, p, q) \/ CallConfirmStock(c, p, q)
    \/ \E e \in StockEvent, bad \in BOOLEAN : Publish(e, bad)
    \/ \E w \in Consumer, e \in StockEvent : Deliver(w, e)
    \/ \E w \in Consumer : ConsumerStep(w) \/ CommitAnswerLost(w) \/ TxFails(w)
    \/ \E r \in Replica : ChannelCloses(r) \/ Restart(r)

Spec == Init /\ [][Next]_vars

\* Goroutines are scheduled, a delivery that keeps being possible is made
\* (the broker offers a requeued message again).  Faults, restarts, expiry
\* and callers' requests are under no obligation.
Fairness ==
    /\ \A w \in Consumer : WF_vars(ConsumerStep(w))
    /\ \A e \in StockEvent : SF_vars(\E w \in Consumer : Deliver(w, e))
    /\ \A c \in Caller : WF_vars(CallerStep(c))

FairSpec == Spec /\ Fairness

(***************************************************************************)
(* Properties.                                                             *)
(***************************************************************************)
\* Type invariant.  Rows, in the table and in the cache, have the types of
\* the table's columns: in particular neither stock column goes negative, as
\* the CHECK constraints demand, through no statement of the repository.
TypeOK ==
    /\ row \in [Product -> Row]
    /\ processed \subseteq EventID
    /\ effects \in [EventID -> Nat]
    /\ cache \in [Product -> Row]
    /\ excused \subseteq Product
    /\ published \subseteq StockEvent
    /\ corrupt \subseteq EventID
    /\ ready \subseteq published
    /\ unacked \in [Replica -> SUBSET published]
    /\ open \in [Replica -> BOOLEAN]
    /\ consumer \in [Consumer -> ConsumerState]
    /\ caller \in [Caller -> CallerState]
    /\ faults \in 0 .. MaxFaults

\* The shop never promises more than it has: whatever direct calls, events,
\* redeliveries and administrators do, reserved_stock <= total_stock, by the
\* WHERE clauses alone (the CHECK constraint never has to refuse a statement).
NoOversell == \A p \in Product : row[p].reserved <= row[p].total

\* The inbox works: an event changes stock once at most, however often it is
\* delivered, to whichever replicas, with whatever answer of COMMIT lost; and
\* an event recorded as processed is one that did change stock.
EventAppliedOnce ==
    \A i \in EventID : effects[i] = IF i \in processed THEN 1 ELSE 0

\* No event is lost: one that parses and has not taken effect is still with
\* the broker, ready or unacknowledged, whatever died or failed meanwhile.
NoEventLost ==
    \A e \in published :
        \/ e.id \in processed \cup corrupt
        \/ e \in ready
        \/ \E r \in Replica : e \in unacked[r]

\* A cached product may be stale but is never impossible: it is a product
\* that exists, it never shows more reserved than there is (AvailableStock
\* is not negative), and since no operation adds to total_stock it never
\* understates it.
CachedRowPlausible ==
    \A p \in Product : cache[p].exists =>
        /\ row[p].exists
        /\ cache[p].reserved <= cache[p].total
        /\ row[p].total <= cache[p].total

\* A handler will still delete the entry of p: a gRPC handler that has written
\* the row, or the handler of an event that has changed it and has not been
\* acknowledged.
OwedByCall(p) ==
    \E c \in Caller : caller[c].pc \in {"invalidate", "refresh"} /\ caller[c].product = p

OwedByEvent(p) ==
    \/ \E e \in ready : e.product = p /\ e.id \in processed
    \/ \E w \in Consumer :
          /\ consumer[w].pc \in {"handle", "invalidate", "nack"}
          /\ consumer[w].event \in unacked[w[1]]
          /\ consumer[w].event.product = p
          /\ consumer[w].event.id \in processed

\* Whoever changes a product deletes its cached entry (the promise of the
\* comments on the cached repository's Update and ReserveStock): a stale entry
\* has a deletion ahead of it, unless a DEL failed or its handler died, or a
\* reader was overtaken between its read and its SET.  For an event the
\* deletion survives crashes, lost answers of COMMIT and redelivery to another
\* replica, where the event is found processed and DEL is done once more.
StaleOnlyWhileOwed ==
    \A p \in Product :
        cache[p].exists /\ cache[p] # row[p] =>
            p \in excused \/ OwedByCall(p) \/ OwedByEvent(p)

\* What a handler relies on after it has let go of the database: an event
\* about to be acknowledged has been dealt with for good, and a product about
\* to be written to the cache is one the table has held, with at least as
\* much total stock as it holds now.
HandlerKnowledge ==
    /\ \A w \in Consumer :
          /\ consumer[w].pc \notin {"idle", "stopped"} => consumer[w].event \in published
          /\ consumer[w].pc = "invalidate" => consumer[w].event.id \in processed
          /\ consumer[w].pc = "ack" => consumer[w].event.id \in processed \cup corrupt
    /\ \A c \in Caller :
          /\ caller[c].pc # "idle" => caller[c].product \in Product
          /\ caller[c].pc = "fill" =>
                /\ caller[c].row.exists /\ row[caller[c].product].exists
                /\ caller[c].row.reserved <= caller[c].row.total
                /\ row[caller[c].product].total <= caller[c].row.total

\* The service implements the ledger: seen through the products table, every
\* step of a handler, a consumer, the broker or a fault is one legal stock
\* movement, one event changing stock for the first time, or nothing at all.
Ledger == INSTANCE StockLedger
ImplementsLedger == Ledger!LedgerSpec

Pending(e)    == e \in published /\ e.id \notin processed \cup corrupt
Applicable(e) == CanApply(row[e.product], e)
Served(k)     == \E r \in Replica : consumer[<<r, k>>].pc # "stopped"

\* An event is not ignored for ever: while its queue has a consumer left, an
\* event that stays applicable takes effect, also when it was nacked before
\* because it was not applicable yet.
EventuallyApplied ==
    \A e \in StockEvent : []<>~(Pending(e) /\ Applicable(e) /\ Served(e.kind))
=============================================================================
