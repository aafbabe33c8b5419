------------------------------ MODULE Lifecycle ------------------------------
(***************************************************************************)
(* How the processes start and stop, and the exchanges, queues and         *)
(* bindings they set up in RabbitMQ while doing so.  fx builds what a      *)
(* service is made of, runs the start hooks in the order they were         *)
(* registered and the stop hooks in the reverse order; the gateway does    *)
(* the same by hand.  Meanwhile calls are served and events published,     *)
(* routed to the queues that are bound at that moment, and handled, and    *)
(* the broker may restart.                                                 *)
(*                                                                         *)
(* What a handler does with an event is the subject of the modules of the  *)
(* services; here an event is the routing key it is published with.        *)
(***************************************************************************)
EXTENDS Integers, FiniteSets, Sequences

CONSTANTS
  Services,     \* the processes of the instance, among the ones below
  Provided,     \* the broker definitions the operator has loaded, or not
  MaxFaults,    \* bound on the faults of a behaviour
  MaxEvents,    \* bound on the events of a behaviour
  MaxCalls,     \* bound on the calls in progress at the same time
  MaxMoving,    \* bound on the processes that start or stop at the same time
  None

\* What each process acquires, in the order in which the hooks are registered.
\* The pool registers its own hook when it is built, which the first module
\* that needs a repository brings about.
ApiHooks == <<"redis", "clients", "server">>
UserHooks == <<"redis", "rabbit", "pg", "server">>
OrderHooks == <<"redis", "rabbit", "clients", "pg", "messaging", "server">>
PaymentHooks == <<"redis", "rabbit", "clients", "pg", "messaging", "server">>
ProductHooks == <<"redis", "rabbit", "pg", "messaging", "server">>

Hooks == [api |-> ApiHooks, user |-> UserHooks, order |-> OrderHooks,
          payment |-> PaymentHooks, product |-> ProductHooks]

ASSUME LifecycleAssumption ==
  /\ Services \subseteq DOMAIN Hooks
  /\ Provided \subseteq BOOLEAN /\ Provided # {}
  /\ MaxFaults \in Nat /\ MaxEvents \in Nat
  /\ MaxCalls \in Nat /\ MaxMoving \in Nat

Keys == {"order.created", "payment.completed", "payment.failed",
         "stock.release", "stock.confirm", "user.otp"}

\* The exchange every publisher uses, and the one the product service binds to.
Published == "payment_events"
OrderEvents == "order_events"

\* The queues a service binds: their routing keys name them, except for the
\* queue order.created, which no service declares.
QueuesOf == [order   |-> {"payment.completed", "payment.failed"},
             product |-> {"stock.release", "stock.confirm"},
             payment |-> {"order.created"},
             user    |-> {}, api |-> {}]
Queues == UNION {QueuesOf[s] : s \in DOMAIN QueuesOf}

\* The events a call may publish, and the ones the handler of a queue may.
Calls == [order |-> {"order.created", "stock.release"}, user |-> {"user.otp"},
          payment |-> {}, product |-> {}, api |-> {}]
Emits(q) == CASE q = "order.created" -> {"payment.failed", None}
              [] q = "payment.failed" -> {"stock.release"}
              [] q = "payment.completed" -> {"stock.confirm"}
              [] OTHER -> {None}

VARIABLES
  phase,       \* down, building, starting, up or stopping
  pos,         \* the hook a process is at
  open,        \* what it has acquired and not closed
  link,        \* whether its connection to the broker stands
  rpc,         \* whether a call is in progress
  subscribed,  \* the queues the broker delivers to it
  loop,        \* whether its consumer loops run
  busy,        \* the queues of which it holds a message
  handled,     \* the ones among them whose message has been handled
  exchanges, queues, durable, bindings,  \* the broker: names, and what outlives it
  content,     \* the messages in each queue
  events,      \* the events so far
  faults       \* the faults so far

\* History: the services that have once set up their queues, and the events
\* no queue got although their consumer had set up its queues; and how many
\* messages each queue has got that were not handled and acknowledged yet.
VARIABLES ready, misrouted, owed

process == <<phase, pos, open, link, rpc, subscribed, loop, busy, handled>>
topology == <<exchanges, queues, durable, bindings>>
vars == <<process, topology, content, events, faults, ready, misrouted, owed>>

Init ==
  /\ phase = [s \in Services |-> "down"]
  /\ pos = [s \in Services |-> 0]
  /\ open = [s \in Services |-> {}]
  /\ link = [s \in Services |-> FALSE]
  /\ rpc = [s \in Services |-> FALSE]
  /\ subscribed = [s \in Services |-> {}]
  /\ loop = [s \in Services |-> FALSE]
  /\ busy = [s \in Services |-> {}]
  /\ handled = [s \in Services |-> {}]
  /\ \E p \in Provided :
       /\ exchanges = IF p THEN {Published, OrderEvents} ELSE {}
       /\ queues = IF p THEN {"order.created"} ELSE {}
       /\ bindings = IF p THEN {<<Published, "order.created">>} ELSE {}
       /\ durable = exchanges \cup queues
  /\ content = [q \in Queues |-> 0]
  /\ events = 0 /\ faults = 0
  /\ ready = {} /\ misrouted = {} /\ owed = [q \in Queues |-> 0]

Fault == faults < MaxFaults /\ faults' = faults + 1

\* Another process may start or stop in this instance.
MayMove == Cardinality({s \in Services : phase[s] \notin {"down", "up"}}) < MaxMoving

\* The hook the process s is at.
Hook(s) == Hooks[s][pos[s]]

-----------------------------------------------------------------------------
(* The broker *)

ExchangeDeclare(x) == exchanges' = exchanges \cup {x}

\* Mutant: the queues are not durable.
QueueDeclareTransient(Q) ==
  /\ queues' = queues \cup Q
  /\ durable' = durable \cup exchanges'

\* Queues and exchanges are declared durable.
QueueDeclare(Q) ==
  /\ queues' = queues \cup Q
  /\ durable' = durable \cup exchanges' \cup Q

\* The queues of s are bound, by their own keys, to the exchange x.
BindQueue(s, x) ==
  /\ QueueDeclare(QueuesOf[s])
  /\ bindings' = bindings \cup ({x} \X QueuesOf[s])
  /\ ready' = ready \cup {s}

\* What the processes S hold goes back to the queues.
Requeued(S) ==
  [q \in Queues |-> content[q] + Cardinality({s \in S : q \in busy[s]})]

\* Publish: the broker confirms a message whether or not a queue gets it.
Publish(k) ==
  /\ events < MaxEvents /\ events' = events + 1
  /\ IF <<Published, k>> \in bindings
     THEN /\ content' = [content EXCEPT ![k] = @ + 1]
          /\ owed' = [owed EXCEPT ![k] = @ + 1]
          /\ UNCHANGED misrouted
     ELSE /\ misrouted' = misrouted \cup {key \in {k} : \E s \in ready : k \in QueuesOf[s]}
          /\ UNCHANGED <<content, owed>>

\* A publisher works as long as the connection does; the order service closes
\* the channel of its publisher before the connection.
CanPublish(s) == link[s] /\ (s = "order" => "messaging" \in open[s])

\* The broker goes down and comes back: what is durable is still there, and no
\* process connects again.
BrokerRestarts ==
  /\ Fault
  /\ exchanges' = exchanges \cap durable
  /\ queues' = queues \cap durable
  /\ bindings' = {b \in bindings : b[1] \in durable /\ b[2] \in durable}
  /\ content' = [q \in Queues |-> IF q \in durable THEN Requeued(Services)[q] ELSE 0]
  /\ link' = [s \in Services |-> FALSE]
  /\ subscribed' = [s \in Services |-> {}]
  /\ busy' = [s \in Services |-> {}]
  /\ handled' = [s \in Services |-> {}]
  /\ loop' = [s \in Services |-> FALSE]
  /\ UNCHANGED <<phase, pos, open, rpc, durable, events, ready, misrouted, owed>>

-----------------------------------------------------------------------------
(* Start *)

\* The process ends, in whatever way.
Exit(s) ==
  /\ phase' = [phase EXCEPT ![s] = "down"]
  /\ pos' = [pos EXCEPT ![s] = 0]
  /\ open' = [open EXCEPT ![s] = {}]
  /\ link' = [link EXCEPT ![s] = FALSE]
  /\ rpc' = [rpc EXCEPT ![s] = FALSE]
  /\ subscribed' = [subscribed EXCEPT ![s] = {}]
  /\ loop' = [loop EXCEPT ![s] = FALSE]
  /\ content' = Requeued({s})
  /\ busy' = [busy EXCEPT ![s] = {}]
  /\ handled' = [handled EXCEPT ![s] = {}]
  /\ UNCHANGED <<topology, events, ready, misrouted, owed>>

Launch(s) ==
  /\ phase[s] = "down" /\ MayMove
  /\ phase' = [phase EXCEPT ![s] = "building"]
  /\ pos' = [pos EXCEPT ![s] = 1]
  /\ UNCHANGED <<open, link, rpc, subscribed, loop, busy, handled, topology, content, events, faults,
                 ready, misrouted, owed>>

\* On to the next hook, and from the last one to the next phase.
Advance(s, next) ==
  IF pos[s] < Len(Hooks[s])
  THEN pos' = [pos EXCEPT ![s] = @ + 1] /\ UNCHANGED phase
  ELSE /\ phase' = [phase EXCEPT ![s] = next]
       /\ pos' = [pos EXCEPT ![s] = IF next = "up" THEN @ ELSE 1]

\* The steps that open a channel: a publisher, a consumer, or both.
OpensChannel(s) == Hook(s) = "messaging" \/ (s = "user" /\ Hook(s) = "server")

\* A constructor: a connection is opened and tried, a publisher declares its
\* exchange, and the consumer of the order service binds its queues.
Construct(s) ==
  /\ phase[s] = "building"
  /\ OpensChannel(s) => link[s]
  /\ open' = [open EXCEPT ![s] = @ \cup {Hook(s)}]
  /\ link' = [link EXCEPT ![s] = @ \/ Hook(s) = "rabbit"]
  /\ IF OpensChannel(s) /\ s # "product"
     THEN /\ ExchangeDeclare(Published)
          /\ IF s = "order" THEN BindQueue(s, Published)
             ELSE QueueDeclare({}) /\ UNCHANGED <<bindings, ready>>
     ELSE UNCHANGED <<topology, ready>>
  /\ Advance(s, "starting")
  /\ UNCHANGED <<rpc, subscribed, loop, busy, handled, content, events, faults, misrouted, owed>>

\* A constructor fails: the process ends with what it has acquired.
ConstructFails(s) ==
  /\ phase[s] = "building"
  /\ \/ Fault
     \/ OpensChannel(s) /\ ~link[s] /\ UNCHANGED faults
  /\ Exit(s)

\* A start hook fails: fx stops what has been started before it; the gateway
\* just exits.
Abort(s) ==
  IF s = "api" THEN Exit(s)
  ELSE /\ phase' = [phase EXCEPT ![s] = "stopping"]
       /\ pos' = [pos EXCEPT ![s] = @ - 1]
       /\ UNCHANGED <<open, link, rpc, subscribed, loop, busy, handled, topology, content, events,
                      ready, misrouted, owed>>

\* RegisterConsumers of the product service binds its queues in its start hook.
Bindable(s) == s = "product" => link[s] /\ OrderEvents \in exchanges

\* Consume: the error for a queue that does not exist is not looked at.
StartHook(s) ==
  /\ phase[s] = "starting"
  /\ IF Hook(s) = "messaging"
     THEN /\ Bindable(s)
          /\ IF s = "product" THEN UNCHANGED exchanges /\ BindQueue(s, OrderEvents)
             ELSE UNCHANGED <<topology, ready>>
          /\ subscribed' = [subscribed EXCEPT ![s] = IF link[s] THEN QueuesOf[s] \cap queues' ELSE {}]
          /\ loop' = [loop EXCEPT ![s] = subscribed'[s] # {}]
     ELSE UNCHANGED <<topology, ready, subscribed, loop>>
  /\ Advance(s, "up")
  /\ UNCHANGED <<open, link, rpc, busy, handled, content, events, faults, misrouted, owed>>

\* The port is taken, or the queues cannot be bound.
StartFails(s) ==
  /\ phase[s] = "starting"
  /\ \/ Hook(s) = "server" /\ Fault
     \/ Hook(s) = "messaging" /\ ~Bindable(s) /\ UNCHANGED faults
  /\ Abort(s)

-----------------------------------------------------------------------------
(* Calls and events *)

BeginCall(s) ==
  /\ phase[s] = "up" /\ ~rpc[s]
  /\ Cardinality({t \in Services : rpc[t]}) < MaxCalls
  /\ rpc' = [rpc EXCEPT ![s] = TRUE]
  /\ UNCHANGED <<phase, pos, open, link, subscribed, loop, busy, handled, topology, content, events,
                 faults, ready, misrouted, owed>>

EndCall(s) ==
  /\ rpc[s]
  /\ rpc' = [rpc EXCEPT ![s] = FALSE]
  /\ \/ UNCHANGED <<content, events, misrouted, owed>>
     \/ CanPublish(s) /\ \E k \in Calls[s] : Publish(k)
  /\ UNCHANGED <<phase, pos, open, link, subscribed, loop, busy, handled, topology, faults, ready>>

\* The broker delivers, whether or not the loop is still there to receive.
Deliver(s, q) ==
  /\ q \in subscribed[s] \ busy[s] /\ content[q] > 0
  /\ content' = [content EXCEPT ![q] = @ - 1]
  /\ busy' = [busy EXCEPT ![s] = @ \cup {q}]
  /\ UNCHANGED <<phase, pos, open, link, rpc, subscribed, loop, handled, topology, events, faults,
                 ready, misrouted, owed>>

\* The handler does its work and publishes what follows.
Handle(s, q) ==
  /\ q \in busy[s] \ handled[s] /\ loop[s] /\ "pg" \in open[s]
  /\ handled' = [handled EXCEPT ![s] = @ \cup {q}]
  /\ \E k \in Emits(q) :
       IF k = None THEN UNCHANGED <<content, events, misrouted, owed>> ELSE CanPublish(s) /\ Publish(k)
  /\ UNCHANGED <<phase, pos, open, link, rpc, subscribed, loop, busy, topology, faults, ready>>

Ack(s, q) ==
  /\ q \in handled[s]
  /\ busy' = [busy EXCEPT ![s] = @ \ {q}]
  /\ handled' = [handled EXCEPT ![s] = @ \ {q}]
  /\ owed' = [owed EXCEPT ![q] = @ - 1]
  /\ UNCHANGED <<phase, pos, open, link, rpc, subscribed, loop, topology, content, events,
                 faults, ready, misrouted>>

\* s sends the messages it has of the queues N back to them.
GivesBack(s, N) ==
  /\ content' = [q \in Queues |-> IF q \in N THEN content[q] + 1 ELSE content[q]]
  /\ busy' = [busy EXCEPT ![s] = @ \ N]

\* What a handler that cannot do its work finds.
Hindered(s) == "pg" \notin open[s] \/ ~CanPublish(s)

\* Mutant: a message that has been sent back is still held.
NackHeld(s, q) ==
  /\ q \in busy[s] \ handled[s] /\ loop[s] /\ Hindered(s)
  /\ content' = [content EXCEPT ![q] = @ + 1]
  /\ UNCHANGED <<process, topology, events, faults, ready, misrouted, owed>>

\* Mutant: a message is rejected without being queued again.
NackDiscards(s, q) ==
  /\ q \in busy[s] \ handled[s] /\ loop[s]
  /\ (Hindered(s) /\ UNCHANGED faults) \/ Fault
  /\ busy' = [busy EXCEPT ![s] = @ \ {q}]
  /\ UNCHANGED <<phase, pos, open, link, rpc, subscribed, loop, handled, topology, content, events,
                 ready, misrouted, owed>>

\* The handler fails, or finds closed what it needs.
Nack(s, q) ==
  /\ q \in busy[s] \ handled[s] /\ loop[s]
  /\ (Hindered(s) /\ UNCHANGED faults) \/ Fault
  /\ GivesBack(s, {q})
  /\ UNCHANGED <<phase, pos, open, link, rpc, subscribed, loop, handled, topology, events,
                 ready, misrouted, owed>>

\* The context of the loops of s ends: a message in hand is sent back, and one
\* that no loop has taken stays with the channel, which nobody closes.
ContextEnds(s) ==
  /\ UNCHANGED handled
  /\ \E N \in SUBSET (busy[s] \ handled[s]) : GivesBack(s, N)

\* The payment service consumes under the context of its start hook.
StartContextEnds(s) ==
  /\ s = "payment" /\ loop[s]
  /\ loop' = [loop EXCEPT ![s] = FALSE]
  /\ ContextEnds(s)
  /\ UNCHANGED <<phase, pos, open, link, rpc, subscribed, topology, events, faults, ready,
                 misrouted, owed>>

-----------------------------------------------------------------------------
(* Stop *)

Signal(s) ==
  /\ phase[s] = "up" /\ MayMove
  /\ phase' = [phase EXCEPT ![s] = "stopping"]
  /\ UNCHANGED <<pos, open, link, rpc, subscribed, loop, busy, handled, topology, content, events, faults,
                 ready, misrouted, owed>>

\* The hook of the product service cancels the context of its loops.
Cancels(s, h) == s = "product" /\ h = "messaging"

\* What is closed when the hook h of s has run.
Closes(s, h) ==
  /\ open' = [open EXCEPT ![s] = @ \ {h}]
  /\ link' = [link EXCEPT ![s] = @ /\ h # "rabbit"]
  /\ loop' = [loop EXCEPT ![s] = @ /\ h # "rabbit" /\ ~Cancels(s, h)]
  /\ subscribed' = [subscribed EXCEPT ![s] = IF h = "rabbit" THEN {} ELSE @]
  /\ \/ /\ h = "rabbit"
        /\ content' = Requeued({s})
        /\ busy' = [busy EXCEPT ![s] = {}] /\ handled' = [handled EXCEPT ![s] = {}]
     \/ Cancels(s, h) /\ ContextEnds(s)
     \/ h # "rabbit" /\ ~Cancels(s, h) /\ UNCHANGED <<content, busy, handled>>

\* Mutant: the server does not wait for the calls in progress.
DrainedAtOnce(s) == TRUE

\* GracefulStop: the calls in progress have ended.
Drained(s) == Hook(s) = "server" => ~rpc[s]

StopHook(s) ==
  /\ phase[s] = "stopping" /\ pos[s] > 0
  /\ Drained(s)
  /\ Closes(s, Hook(s))
  /\ pos' = [pos EXCEPT ![s] = @ - 1]
  /\ UNCHANGED <<phase, rpc, topology, events, faults, ready, misrouted, owed>>

\* The time for stopping is over, with a hook that still waits: the server is
\* stopped by force, fx skips the hooks that are left, the process ends.
Deadline(s) ==
  /\ phase[s] = "stopping" /\ pos[s] > 0
  /\ Exit(s) /\ UNCHANGED faults

Stopped(s) ==
  /\ phase[s] = "stopping" /\ pos[s] = 0
  /\ Exit(s) /\ UNCHANGED faults

Crash(s) == phase[s] # "down" /\ Fault /\ Exit(s)

-----------------------------------------------------------------------------

Next ==
  \/ BrokerRestarts
  \/ \E s \in Services :
       \/ Launch(s) \/ Construct(s) \/ ConstructFails(s) \/ StartHook(s) \/ StartFails(s)
       \/ BeginCall(s) \/ EndCall(s) \/ StartContextEnds(s)
       \/ \E q \in QueuesOf[s] : Deliver(s, q) \/ Handle(s, q) \/ Ack(s, q) \/ Nack(s, q)
       \/ Signal(s) \/ StopHook(s) \/ Deadline(s) \/ Stopped(s) \/ Crash(s)

Spec == Init /\ [][Next]_vars

-----------------------------------------------------------------------------
(* Properties *)

\* Type invariant of the processes and of the broker.
TypeOK ==
  /\ phase \in [Services -> {"down", "building", "starting", "up", "stopping"}]
  /\ \A s \in Services : /\ pos[s] \in 0..Len(Hooks[s])
                         /\ open[s] \subseteq {Hooks[s][i] : i \in 1..Len(Hooks[s])}
                         /\ subscribed[s] \subseteq QueuesOf[s]
                         /\ handled[s] \subseteq busy[s] /\ busy[s] \subseteq QueuesOf[s]
  /\ link \in [Services -> BOOLEAN] /\ rpc \in [Services -> BOOLEAN]
  /\ loop \in [Services -> BOOLEAN]
  /\ exchanges \subseteq {Published, OrderEvents} /\ queues \subseteq Queues
  /\ durable \subseteq {Published, OrderEvents} \cup Queues
  /\ bindings \subseteq {Published, OrderEvents} \X Queues
  /\ content \in [Queues -> 0..MaxEvents]
  /\ events \in 0..MaxEvents /\ faults \in 0..MaxFaults
  /\ ready \subseteq Services /\ misrouted \subseteq Keys /\ owed \in [Queues -> 0..MaxEvents]

\* A call in progress never finds a pool, a client or a connection that its own
\* process has closed, however the calls and a stop interleave: the server is
\* drained before anything it uses is closed, and hooks stop in reverse order.
ResourcesOutliveCalls ==
  \A s \in Services : rpc[s] => open[s] = {Hooks[s][i] : i \in 1..Len(Hooks[s])}

\* Once the order service has set up its queues, the verdict of a payment
\* reaches them: while the order service is down or starting again, after the
\* broker has restarted, and whichever service declared the exchange.
VerdictRouted == misrouted \cap QueuesOf["order"] = {}

\* Once a queue has an event, the event is not lost (publisher.go: "durable",
\* "Persistent"; consumer.go: no auto-ack): were all consumers gone now, every
\* queue would have exactly the messages that have not been handled and
\* acknowledged.  Stops that run out of time, crashes, failing handlers,
\* contexts that end and restarts of the broker do not change that.
EventsSurvive == Requeued(Services) = owed

\* The exchange the product service binds its queues to is the one "on which
\* the events of orders and stock are published" (messaging/module.go): once it
\* has bound them, a stock event reaches its queue.
StockEventArrives == misrouted \cap QueuesOf["product"] = {}

=============================================================================
