--------------------------- MODULE PaymentService ---------------------------
(***************************************************************************)
(* The payment service's handling of order.created: the inbox and the      *)
(* pending payment in one transaction, then the gateway, the outcome in    *)
(* the payments table and the payment.failed event, each on its own.       *)
(*                                                                         *)
(* The order service publishes one order.created per order, so an event is *)
(* named by its order.  The service consumes under the context of the      *)
(* start hook, which expires some time after the start: from then on every *)
(* database and gateway call of that process fails and the loop ends.  The *)
(* channel stays open, with its consumer registered: the broker goes on    *)
(* handing events to a process that does not look at them any more.  (The  *)
(* prefetch limit of ten is left out: it would only keep some away.)       *)
(*                                                                         *)
(* VerifyPayment, the bank's callback, looks a payment up by its authority *)
(* code.  UpdateFromPending does not store that code and nothing else runs *)
(* before the callback, so the callback finds no payment and changes       *)
(* nothing: it has no action here.                                         *)
(***************************************************************************)
EXTENDS Naturals

CONSTANTS Order,       \* order ids
          Amount,      \* Amount[o]: total_amount of o
          Replica,     \* processes of the service
          MaxFaults,   \* how many faults a behaviour has
          NoOrder      \* no event in a handler's hands

ASSUME PaymentAssumption == /\ Amount \in [Order -> Nat]
                            /\ MaxFaults \in Nat
                            /\ NoOrder \notin Order

VARIABLES published,   \* orders whose order.created was published
          corrupt,     \* those whose body does not parse
          ready,       \* events ready for delivery
          unacked,     \* unacked[r]: handed to r, in its buffer or its hands
          open,        \* open[r]: the channel of r's consumer is open
          live,        \* live[r]: the context of r's start hook has not expired
          handler,     \* handler[r]: the consumer goroutine of r
          processed,   \* table processed_events
          payment,     \* table payments: status of the order's payment
          links,       \* gateway: links[o], payment sessions opened for o
          verdicts,    \* verdicts[o]: payment.failed events published for o
          faults       \* faults so far (a bound of the model)

brokerVars == <<published, corrupt, ready, unacked, open>>
dbVars     == <<processed, payment>>
vars == <<brokerVars, live, handler, dbVars, links, verdicts, faults>>

\* The CHECK on payments.status; "awaiting", a status of the Go code, is not
\* in it.
StatusCheck == {"pending", "completed", "failed", "canceled", "refunded", "expired"}

HandlerPC == {"idle", "handle", "gateway", "await", "fail", "publish", "hung", "ack", "nack", "stopped"}
Handling  == [pc : HandlerPC, order : Order \cup {NoOrder}]
IdleHandler == [pc |-> "idle", order |-> NoOrder]

Init == /\ published = {} /\ corrupt = {} /\ ready = {}
        /\ unacked = [r \in Replica |-> {}]
        /\ open = [r \in Replica |-> TRUE]
        /\ live = [r \in Replica |-> TRUE]
        /\ handler = [r \in Replica |-> IdleHandler]
        /\ processed = {}
        /\ payment = [o \in Order |-> "none"]
        /\ links = [o \in Order |-> 0]
        /\ verdicts = [o \in Order |-> 0]
        /\ faults = 0

Fault   == faults < MaxFaults /\ faults' = faults + 1
NoFault == UNCHANGED faults

\* A call of r under the handler's context fails: by a fault, or for sure
\* once the context has expired.
CallFails(r) == IF live[r] THEN Fault ELSE NoFault

Goto(r, pc) == handler' = [handler EXCEPT ![r].pc = pc]

(***************************************************************************)
(* The broker and the process.                                             *)
(***************************************************************************)
Publish(o, bad) ==
    /\ o \notin published
    /\ published' = published \cup {o}
    /\ ready' = ready \cup {o}
    /\ corrupt' = IF bad THEN corrupt \cup {o} ELSE corrupt
    /\ UNCHANGED <<unacked, open, live, handler, dbVars, links, verdicts, faults>>

\* The broker hands an event to any process with an open channel, also to one
\* that is busy or whose loop has ended; ...
Deliver(r, o) ==
    /\ open[r] /\ o \in ready
    /\ ready' = ready \ {o}
    /\ unacked' = [unacked EXCEPT ![r] = @ \cup {o}]
    /\ UNCHANGED <<published, corrupt, open, live, handler, dbVars, links, verdicts, faults>>

\* ... Consume takes it from the buffer.
Take(r, o) ==
    /\ handler[r].pc = "idle" /\ o \in unacked[r]
    /\ handler' = [handler EXCEPT ![r] = [pc |-> "handle", order |-> o]]
    /\ UNCHANGED <<brokerVars, live, dbVars, links, verdicts, faults>>

StartContextExpires(r) ==
    /\ live[r]
    /\ live' = [live EXCEPT ![r] = FALSE]
    /\ UNCHANGED <<brokerVars, handler, dbVars, links, verdicts, faults>>

\* The select in Consume sees the expired context between two messages.  It
\* returns without cancelling its consumer: what r has not acknowledged stays
\* with it, and more may come.
ConsumeReturns(r) ==
    /\ ~live[r] /\ handler[r].pc = "idle"
    /\ Goto(r, "stopped")
    /\ UNCHANGED <<brokerVars, live, dbVars, links, verdicts, faults>>

\* The process dies and is started again; the broker takes its messages back.
Restart(r) ==
    /\ live' = [live EXCEPT ![r] = TRUE]
    /\ handler' = [handler EXCEPT ![r] = IdleHandler]
    /\ ready' = ready \cup unacked[r]
    /\ unacked' = [unacked EXCEPT ![r] = {}]
    /\ open' = [open EXCEPT ![r] = TRUE]
    /\ Fault
    /\ UNCHANGED <<published, corrupt, dbVars, links, verdicts>>

\* The broker closes r's channel and requeues: an idle consumer returns, one
\* at work goes on and fails to acknowledge in the end.
ChannelCloses(r) ==
    /\ open[r] /\ open' = [open EXCEPT ![r] = FALSE]
    /\ handler' = IF handler[r].pc = "idle" THEN [handler EXCEPT ![r].pc = "stopped"] ELSE handler
    /\ ready' = ready \cup unacked[r]
    /\ unacked' = [unacked EXCEPT ![r] = {}]
    /\ Fault
    /\ UNCHANGED <<published, corrupt, live, dbVars, links, verdicts>>

(***************************************************************************)
(* OrderCreatedConsumer.Handle and PaymentService.HandleOrderCreated.      *)
(***************************************************************************)
\* Neither an unreadable body nor an empty id improves with a retry.
SkipCorrupt(r) ==
    /\ handler[r].pc = "handle" /\ handler[r].order \in corrupt
    /\ Goto(r, "ack")
    /\ UNCHANGED <<brokerVars, live, dbVars, links, verdicts, faults>>

Readable(r) == handler[r].pc = "handle" /\ handler[r].order \notin corrupt

SkipProcessed(r) ==
    /\ Readable(r) /\ live[r]
    /\ handler[r].order \in processed
    /\ Goto(r, "ack")
    /\ UNCHANGED <<brokerVars, live, dbVars, links, verdicts, faults>>

\* Payment.Validate refuses an amount of zero; the transaction is undone.
RejectPayment(r) ==
    /\ Readable(r) /\ live[r]
    /\ handler[r].order \notin processed
    /\ Amount[handler[r].order] = 0
    /\ Goto(r, "nack")
    /\ UNCHANGED <<brokerVars, live, dbVars, links, verdicts, faults>>

\* Mutant: the inbox is written, but its answer is not looked at.
CommitTxUnchecked(o) ==
    /\ Amount[o] > 0
    /\ processed' = processed \cup {o}
    /\ payment' = [payment EXCEPT ![o] = "pending"]

\* Mutant: the payment is created outside the transaction of the inbox.
CommitTxInboxOnly(o) ==
    /\ o \notin processed /\ Amount[o] > 0
    /\ processed' = processed \cup {o}
    /\ UNCHANGED payment

\* MarkProcessed and Create commit together.
CommitTx(o) ==
    /\ o \notin processed /\ Amount[o] > 0
    /\ processed' = processed \cup {o}
    /\ payment' = [payment EXCEPT ![o] = "pending"]

CreatePayment(r) ==
    /\ Readable(r) /\ live[r]
    /\ CommitTx(handler[r].order)
    /\ Goto(r, "gateway")
    /\ UNCHANGED <<brokerVars, live, links, verdicts, faults>>

CommitAnswerLost(r) ==
    /\ Readable(r) /\ live[r]
    /\ CommitTx(handler[r].order)
    /\ Goto(r, "nack")
    /\ Fault
    /\ UNCHANGED <<brokerVars, live, links, verdicts>>

TxFails(r) ==
    /\ Readable(r)
    /\ Goto(r, "nack")
    /\ CallFails(r)
    /\ UNCHANGED <<brokerVars, live, dbVars, links, verdicts>>

\* RequestPayment opens a payment session, ...
GatewayAccepts(r) ==
    /\ handler[r].pc = "gateway" /\ live[r]
    /\ links' = [links EXCEPT ![handler[r].order] = @ + 1]
    /\ Goto(r, "await")
    /\ UNCHANGED <<brokerVars, live, dbVars, verdicts, faults>>

\* ... refuses or cannot be reached, ...
GatewayRefuses(r) ==
    /\ handler[r].pc = "gateway"
    /\ Goto(r, "fail")
    /\ UNCHANGED <<brokerVars, live, dbVars, links, verdicts, faults>>

\* ... or opens a session nobody hears of.
GatewayAnswerLost(r) ==
    /\ handler[r].pc = "gateway" /\ live[r]
    /\ links' = [links EXCEPT ![handler[r].order] = @ + 1]
    /\ Goto(r, "fail")
    /\ Fault
    /\ UNCHANGED <<brokerVars, live, dbVars, verdicts>>

\* Mutant: a statement that gets round the CHECK.
AcceptedUnchecked(o, s) == payment[o] = "pending"

\* UPDATE payments SET status = s WHERE id = ... AND status = 'pending'.
Accepted(o, s) == payment[o] = "pending" /\ s \in StatusCheck

UpdateFromPending(o, s) ==
    payment' = IF Accepted(o, s) THEN [payment EXCEPT ![o] = s] ELSE payment

StoreAwaiting(r) ==
    /\ handler[r].pc = "await"
    /\ \/ /\ live[r]
          /\ UpdateFromPending(handler[r].order, "awaiting")
          /\ Goto(r, IF Accepted(handler[r].order, "awaiting") THEN "ack" ELSE "nack")
          /\ NoFault
       \/ /\ UNCHANGED payment
          /\ Goto(r, "nack")
          /\ CallFails(r)
    /\ UNCHANGED <<brokerVars, live, processed, links, verdicts>>

\* An error of the UPDATE is ignored.
StoreFailed(r) ==
    /\ handler[r].pc = "fail"
    /\ \/ live[r] /\ UpdateFromPending(handler[r].order, "failed") /\ NoFault
       \/ UNCHANGED payment /\ CallFails(r)
    /\ Goto(r, "publish")
    /\ UNCHANGED <<brokerVars, live, processed, links, verdicts>>

\* Mutant: an error of the publication is returned, and the event retried.
PublishPaymentFailedRetries(r) ==
    /\ handler[r].pc = "publish"
    /\ \/ /\ verdicts' = [verdicts EXCEPT ![handler[r].order] = @ + 1]
          /\ Goto(r, "ack")
          /\ NoFault
       \/ /\ verdicts' = [verdicts EXCEPT ![handler[r].order] = @ + 1]
          /\ Goto(r, "gateway")
          /\ Fault
    /\ UNCHANGED <<brokerVars, live, dbVars, links>>

\* So is an error of the publication, with the event lost.
PublishPaymentFailed(r) ==
    /\ handler[r].pc = "publish"
    /\ \/ verdicts' = [verdicts EXCEPT ![handler[r].order] = @ + 1] /\ NoFault
       \/ UNCHANGED verdicts /\ Fault
    /\ Goto(r, "ack")
    /\ UNCHANGED <<brokerVars, live, dbVars, links>>

\* The event is out, and Publish waits for its confirmation for ever.
PublishHangs(r) ==
    /\ handler[r].pc = "publish"
    /\ verdicts' = [verdicts EXCEPT ![handler[r].order] = @ + 1]
    /\ Goto(r, "hung")
    /\ UNCHANGED <<brokerVars, live, dbVars, links, faults>>

(***************************************************************************)
(* The end of a round in Consume.  On a closed channel the broker has the  *)
(* message back already, neither call reaches it and the loop ends.        *)
(***************************************************************************)
Settle(r) == handler' = [handler EXCEPT ![r] =
    [IdleHandler EXCEPT !.pc = IF open[r] THEN "idle" ELSE "stopped"]]

Ack(r) ==
    /\ handler[r].pc = "ack"
    /\ unacked' = [unacked EXCEPT ![r] = @ \ {handler[r].order}]
    /\ Settle(r)
    /\ UNCHANGED <<published, corrupt, ready, open, live, dbVars, links, verdicts, faults>>

\* Mutant: a nack without requeue.
NackDiscards(r) ==
    /\ handler[r].pc = "nack"
    /\ unacked' = [unacked EXCEPT ![r] = @ \ {handler[r].order}]
    /\ Settle(r)
    /\ UNCHANGED <<published, corrupt, ready, open, live, dbVars, links, verdicts, faults>>

Nack(r) ==
    /\ handler[r].pc = "nack"
    /\ unacked' = [unacked EXCEPT ![r] = @ \ {handler[r].order}]
    /\ ready' = ready \cup (unacked[r] \cap {handler[r].order})
    /\ Settle(r)
    /\ UNCHANGED <<published, corrupt, open, live, dbVars, links, verdicts, faults>>

-----------------------------------------------------------------------------
HandlerStep(r) ==
    \/ SkipCorrupt(r) \/ SkipProcessed(r) \/ RejectPayment(r) \/ CreatePayment(r)
    \/ GatewayAccepts(r) \/ GatewayRefuses(r) \/ StoreAwaiting(r) \/ StoreFailed(r)
    \/ PublishPaymentFailed(r) \/ PublishHangs(r) \/ TxFails(r) \/ Ack(r) \/ Nack(r) \/ ConsumeReturns(r)

Next ==
    \/ \E o \in Order, bad \in BOOLEAN : Publish(o, bad)
    \/ \E r \in Replica, o \in Order : Deliver(r, o) \/ Take(r, o)
    \/ \E r \in Replica : \/ HandlerStep(r) \/ CommitAnswerLost(r) \/ GatewayAnswerLost(r)
                          \/ StartContextExpires(r) \/ Restart(r) \/ ChannelCloses(r)

Spec == Init /\ [][Next]_vars

\* Goroutines run, calls return within their timeouts, and the broker and the
\* buffer hand out what has waited longest.  Go's select chooses at random
\* among what is ready, so an expired context is not overlooked for ever.
Fairness ==
    /\ \A r \in Replica : WF_vars(HandlerStep(r)) /\ SF_vars(ConsumeReturns(r))
    /\ \A r \in Replica, o \in Order : SF_vars(Take(r, o))
    /\ \A o \in Order : SF_vars(\E r \in Replica : Deliver(r, o))

FairSpec == Spec /\ Fairness

(***************************************************************************)
(* Properties.                                                             *)
(***************************************************************************)
\* Type invariant; the payments table satisfies its CHECK constraint.
TypeOK ==
    /\ published \subseteq Order /\ corrupt \subseteq Order
    /\ ready \subseteq published
    /\ unacked \in [Replica -> SUBSET published]
    /\ open \in [Replica -> BOOLEAN]
    /\ live \in [Replica -> BOOLEAN]
    /\ handler \in [Replica -> Handling]
    /\ processed \subseteq Order
    /\ payment \in [Order -> StatusCheck \cup {"none"}]
    /\ links \in [Order -> Nat]
    /\ verdicts \in [Order -> Nat]
    /\ faults \in 0 .. MaxFaults

\* The inbox and the payments table agree: an event is recorded exactly when
\* its payment exists, whatever fails between the statements.
InboxMatchesPayments == \A o \in Order : o \in processed <=> payment[o] # "none"

\* However often order.created is delivered, and to whichever replicas, one
\* order leads to one payment session with the gateway and one verdict at most.
OneAttempt == \A o \in Order : links[o] <= 1 /\ verdicts[o] <= 1

\* A verdict is final: once payment.failed is out no replica works on the
\* payment any more, and the table does not change its mind about it.
VerdictFinal ==
    [][\A o \in Order : verdicts[o] > 0 =>
          payment'[o] = payment[o] /\ links'[o] = links[o]]_vars

\* No order is lost before its payment exists: until then the broker has it.
NoOrderLost ==
    \A o \in published :
        \/ o \in processed \cup corrupt
        \/ o \in ready
        \/ \E r \in Replica : o \in unacked[r]

Waiting(o) == o \in published /\ o \notin processed \cup corrupt /\ Amount[o] > 0

\* Consume of r is in its loop, with a context that lets its calls succeed.
Serving(r) == live[r] /\ handler[r].pc \notin {"hung", "stopped"}

\* Every payable order gets its payment, as long as some channel is open and
\* those that are belong to processes that serve: a process that has ended or
\* hung in its loop keeps for ever what it is handed.
EventuallyCreated ==
    \A o \in Order :
        []<>~(Waiting(o) /\ (\E r \in Replica : open[r]) /\ \A r \in Replica : open[r] => Serving(r))

\* What HandleOrderCreated says it does with the gateway's answer: the
\* payment session is recorded, and the payment awaits the customer.
LinkRecorded ==
    \A o \in Order : links[o] > 0 =>
        \/ payment[o] = "awaiting"
        \/ \E r \in Replica : handler[r] = [pc |-> "await", order |-> o]
=============================================================================
