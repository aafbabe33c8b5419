# Verification of the shop's services

TLA+ models of the Go services in this repository (order, product, payment and
user service, the API gateway and the shared packages they run on), TLC configurations that check them on small
instances, and TLAPS proofs of their main safety properties for all instances.
`PROJECT.json` lists components, runs, mutants, the map from definitions to
source lines, findings, hazards and theorems.

## The system

Orders are a saga over three services that share nothing but messages.
`CreateOrder` reserves stock by gRPC calls to the product service, item by item,
stores the order as *pending*, and publishes `order.created`.  The payment
service answers with `payment.completed` or `payment.failed`; the order service
then makes the order *confirmed* or *cancelled* and publishes one stock event
per item, which the product service applies.  When a step fails, `CreateOrder`
publishes release events for what it has reserved.

Clients come in through the API gateway, which turns HTTP requests into gRPC
calls and keeps the refresh token in a cookie.  The user service issues these
tokens against a password, a one-time password or an older refresh token.  Every
process is put together by fx (the gateway by hand): connections are opened,
exchanges, queues and bindings declared, servers started, and on a signal all of
it is stopped in the reverse order.

| Component | State | Operations | What is hard | What makes it correct |
|---|---|---|---|---|
| product repository | `products`, `processed_events` | reserve, release, confirm as conditional `UPDATE`s; create, update, soft delete | concurrent writers on a row | never oversold; an event counts once |
| product cache | Redis entries with a TTL | look up, fill, delete | fill races a write; errors are ignored | stale at worst, and then with a deletion ahead |
| stock event consumers | two goroutines per replica | inbox, update, invalidate, ack / nack | redelivery, crash, lost answer of `COMMIT`, closed channel | no event lost or applied twice; pending events are applied |
| order service | `orders`, `order_items` | `CreateOrder`, compensation | partial failure, timeouts, no outbox | reservations end in an order or are asked back, as the order's status says |
| payment event consumers | two goroutines | status update, stock event per item | redelivery, race with `CreateOrder` | verdicts are not lost; final is final |
| payment service | `payments`, `processed_events` | `HandleOrderCreated`, `VerifyPayment` | gateway call outside the transaction, expiring context | one payment, session and verdict per order |
| rabbitmq publisher | confirmation listeners of a channel | `Publish` | shared by goroutines, listener after publication | the result is that of the message; the call returns |
| rabbitmq consumer | delivered, unacknowledged messages | `Consume` | ends on a closed channel or expired context | at-least-once handling |
| user service | `users`, `refresh_tokens`, one-time passwords in Redis, calls in progress | `Register`, `PasswordLogin`, `OTPLogin`, `VerifyOTP`, `RefreshToken`, `GetUser`, `Logout` | two requests with one code or token, a statement that fails between spending a credential and replacing it | a code or token leads to one session, of its own user |
| auth, rate limit and recovery interceptors, error mapping | none, or a Redis key | one decision per call | a limiter that is down; kinds of errors | a failure does not pass for a refusal |
| api gateway | none; the browser keeps cookie and access token | auth and user routes | tabs that share a cookie, answers that overtake each other or are lost | no spent cookie is left behind |
| start and stop, connection and topology | what is open, consumer loops; exchanges, queues, bindings | constructors, start and stop hooks | calls in progress at a stop, a call that hangs, restart of the broker | nothing is closed under a call; a verdict finds its queue; no event is lost on the way |
| notification service | — | named in the documents, no code | — | — |

## Modules

`StockRow` — a row of `products` with the guard (early return and `WHERE`) and
the effect (`SET`) of each statement of `repository/product.go`.  Both the
product service and the saga are built on it.

`StockLedger` — the abstract specification: stock moves only by these
statements and an event changes it once, in one step.  No broker, cache or crash.

`ProductService` — gRPC handlers (`caller`), the two consumers of each replica
(`consumer`), tables, cache and broker.  One transaction or statement is one
step; each cache call, acknowledgement and loop exit is another, so everything
between two of them can interleave or be cut off.  `ApplyEvent`, `RejectEvent`,
`SkipProcessed`, `SkipCorrupt`, `TxFails` and `CommitAnswerLost` are the ways
through `Handle`; `Ack`, `Nack` and `ConsumerStops` those through the loop of
`Consume`.  `excused` records the products whose entry the code gives up on: a
`DEL` failed or its handler died, or a reader was overtaken between read and fill.

`OrderSaga` — `create[o]` is the progress of a `CreateOrder` call, `handler[v]`
the consumer of a payment queue.  A publication ends in `ok`, `lost` (error, not
delivered) or `unknown` (error, delivered).  `ReserveFails` covers timeouts
before and after the reservation.  A publication may also hang
(`CompensateHangs`, `HandlerHangs`).  The channel of the consumers may close
(`ChannelCloses`), after which their loops end one by one (`LoopEnds`, `DoneWith`)
and only a restart of the process brings them back (`Restart`).  The product
service is the ledger it is shown to implement; its stock events differ only in
their uuid, so they are counted per item.  The payment service is an environment
that may give one verdict per order, and the product service one that may apply
an event; neither has to.

`PaymentService` — replicas handling `order.created`: transaction with inbox and
payment, gateway, status, event.  `live[r]` is the context of the start hook,
under which `Consume` runs, and `open[r]` its channel.  The broker delivers to
every open channel (`Deliver`), and the loop takes from what was delivered
(`Take`).  `ConsumeReturns` ends the loop and leaves the channel open, so that a
replica that serves nothing any more is still handed messages, which stay with
it until its channel or process goes.  `StatusCheck` is the table's `CHECK`.

`PublisherConfirms` — `Publish` on a channel in confirm mode.  `Dispatch` and
`Send` are the client library's side: confirmations go, in order of tags, to
every listener, under the lock that `NotifyPublish` needs, and sending waits for
a full buffer of one.  On a channel that is closed already `Publish` fails
without a tag and changes nothing, so there is no action for it.

`OneTime` — the abstract specification of a credential: handed out, won by one
user of it, redeemed for one session at most, or void.

`UserService` — `call[c]` is a gRPC handler in progress.  `Arrive` is the
interceptor chain (rate limit, then authentication) and the checks a handler
makes before it touches a table; each statement or Redis command after that is an
action named for it (`CreateUser`, `LookUp`, `SaveChallenge`, `PublishOTP`,
`GetChallenge`, `DeleteChallenge`, `GetTok`, `Revoke`, `GetByID`,
`IssueTokens`).  A row of `users` is an email and a phone number, each unique in
its own column; `Unstorable` stands for values PostgreSQL refuses (too long for
their column, or with a NUL byte), which come back as internal errors.  `Break`
is a statement that fails, `Panic` a handler that panics, `Proceed` lets the answer of
one that took effect be lost, `Crash` ends all handlers.  A refresh token is its
row, a password or code is right or wrong, an access token the user in its
claims.  `FromAppError` maps kinds of errors to gRPC codes.  `rotated` and
`verified` record the sessions a credential has led to; `INSTANCE OneTime WITH`
maps rows and handlers to the abstract phases, once for refresh tokens
(`Rotation`) and once for one-time passwords (`Verification`).

`Gateway` — composes the user service with browsers, whose tabs share a cookie
(`jar`), and with programs that call the gRPC port directly.  `Send` is a request
that passes the gateway's own checks, `Respond` the answer with its status
(`HttpStatus`) and cookie (`CookieAfter`), `ResponseLost` an answer that does not
arrive.

`Lifecycle` — all processes and the broker they set up.  `Construct` and
`StartHook` go through the hooks of a process in their order, `StopHook` back
through them; `Drained` is `GracefulStop`, `Deadline` the end of the time a stop
may take.  An event is its routing key; `Publish` routes it by the bindings of
that moment and is confirmed in any case.  `Deliver` hands a message to whoever
is subscribed, its loop running or not; when the context of a loop ends
(`StartContextEnds`, the product service's stop hook) a message in hand goes back
and one that nobody has taken stays.  `owed` counts what a queue has got and is
not handled and acknowledged.

`MC…` modules give small instances; `…Proofs` modules hold the proofs.
Definitions called mutants are plausible bugs, one for every checked property;
they are not used by the specifications.

## Runs

| Run | Instance | Shows |
|---|---|---|
| `product_faults` | 2 handlers, 2 replicas, 1 event, quantities −1, 1 and 2, stock up to 1, 1 fault | `TypeOK`, `NoOversell`, `EventAppliedOnce`, `NoEventLost`, `CachedRowPlausible`, `StaleOnlyWhileOwed`, `HandlerKnowledge` |
| `product_live` | 1 handler, 1 replica, 2 events, 1 fault, fair | `ImplementsLedger`, `EventuallyApplied` |
| `saga_faults` | 2 orders, 2 products, 2 faults | `TypeOK`, `StockAccounted`, `OnlyHeldSettled`, `PaymentBacked`, `VerdictNotLost`, `StatusFinal`; until the first fault `SettledOnce`, `SettlementMatchesStatus` |
| `saga_live` | the same, 1 fault, fair | `VerdictTakesEffect` for a consumer that stays alive; without a fault and a publication that hangs `ReservationResolved` |
| `payment_faults` | 2 replicas, a payable and a free order, 2 faults, fair | `TypeOK`, `InboxMatchesPayments`, `OneAttempt`, `NoOrderLost`, `VerdictFinal`, `EventuallyCreated` |
| `publisher_shared` | 3 goroutines, 4 messages | `TypeOK`, `ErrorMeansTrouble`, and `OwnConfirmation` until two calls overlap |
| `user_gateway` | 2 tabs of a browser, 2 direct calls, a user and an admin, 3 refresh tokens, 1 one-time password, 3 requests, 1 fault | `TypeOK`, `SessionOwner`, `LogoutRevokes`, `NoDeadCookie`, `RefusedTokenSpent`, and the refinements `RotatesOnce`, `VerifiesOnce` |
| `lifecycle` | gateway, order, payment and product service, 3 events, 2 faults, with and without broker definitions by the operator | `TypeOK`, `ResourcesOutliveCalls`, `VerdictRouted`, `EventsSurvive` |

Runs that are expected to end in a violation; each contradicts a comment or
document quoted under `findings`:

| Run | Property | What happens |
|---|---|---|
| `saga_leak` | `CompensationSettles` | a reservation whose answer was lost, or whose release event was lost, is never asked back |
| `payment_link` | `LinkRecorded` | the table refuses the status `awaiting`, and the retry is skipped as processed |
| `publisher_hang` | `PublishReturns` | the confirmation precedes the listener, or abandoned listeners block the library |
| `lifecycle_stock` | `StockEventArrives` | stock events go to `payment_events`, the queues are bound to `order_events` |

The models show more than has a run of its own:

* once calls of `Publish` overlap, one may return nil on the confirmation of
  another (`OwnConfirmation` without its first condition fails);
* a reader can fill the cache with the old row after the writer has deleted the
  entry (`cache/product.go:67`), although the comment at 129-130 promises fresh
  data from then on; `StaleOnlyWhileOwed` excepts such a reader, and the entry
  stays until its TTL or the next write;
* a redelivered payment event publishes stock events under new ids
  (`messaging/consumer.go:145`), so that an item can be confirmed twice, which
  `docs/architecture.md:239` excludes; `SettledOnce` is therefore stated until the
  first fault;
* `CreateOrder` makes a pending order failed, which the unused `CanTransitionTo`
  forbids;
* when `order.created` was delivered although `Publish` failed, the payment event
  of the failed order is taken for a redelivery and confirms stock already
  released;
* the gateway's `Logout` does not forward the Authorization header
  (`endpoints.go:185`), and `Logout` is not among the public methods: the user
  service answers Unauthenticated, the cookie is cleared and the refresh token
  stays live.  `LogoutRevokes` is about the calls that get through;
* the product service does not start unless somebody else has declared
  `order_events`, and the payment service consumes a queue, `order.created`, that
  no service declares.

Deadlock checking is off where the instance really comes to rest (all orders
ended, all tags used, every consumer stopped, the requests used up); the product
service and life-cycle runs have it on.

### Bounds

`MaxFaults` bounds crashes, lost calls, lost answers and closed channels
together; one fault is what each of the protocols is meant to survive, two let
a redelivery be interrupted again.  Two replicas suffice for an event in two
hands, two orders for contention and for one order's compensation between the
steps of another.  The carts are one item, two items of which the second may be
sold out, and a product named twice (refused by `order_items`).  Quantities
include an illegal one.  Four tags let two abandoned listeners fill.  Safety
runs use symmetry in replicas, callers or orders; runs with fairness do not.
`MaxRequests` is three, of which `MaxOpen`, two, are in progress at the same time:
one request creates a session and two more compete for its token, or for the
code; the third refresh token is the one a second rotation would need.  In
`lifecycle` `MaxMoving` lets one process start or stop at a time (the others are
up, down, or have crashed), `MaxCalls` bounds calls in progress and `MaxEvents`
lets an event be followed by those that its handlers publish.  Five processes are
too many for one run; the user service, which consumes nothing and whose hooks
the order service has too, is left out, and the properties hold as well with it
in the place of the product service.
`product_faults` has one event in two hands, `product_live` two events behind
each other; the proofs cover any number of both.

### Fairness

Goroutines are scheduled and calls return (every call but `Publish` has a timeout
or a server that answers), hence weak fairness of handler steps.  Strong fairness
of a delivery, and of `Take` in the payment service: the broker offers a requeued
message again and again, and not always to a consumer that is busy.  Strong
fairness of `ConsumeReturns`: Go's `select` chooses at random among ready cases.
Nothing is assumed of faults, restarts, requests, the expiry of cache entries,
the end of a stop, the verdict of a payment, and the arrival of a stock event: the
code guarantees none of them (`payment_link` and `lifecycle_stock` show why for
the last two).  The liveness properties of the saga are therefore about what the
order service does by itself: a reservation ends in `order.created` or in a release
that is published (`ReservationResolved`), a verdict in the status and in one stock
event per item (`VerdictTakesEffect`).  A call or a handler that hangs in `Publish`
may stay there for ever, which counts as a step, and a consumer that has ended is
never started again by itself.  `EventuallyApplied` is stated while a queue is
served, `VerdictTakesEffect` for a consumer that from some point on listens and
does not hang, and `EventuallyCreated` while every process with an open channel is
in its loop with a live context: one that is not may be handed the order and keep
it.

## Proofs

Every theorem holds for all values of the constants under the named
assumptions `QuantityAssumption`, `ServiceAssumption`, `SagaAssumption`,
`PaymentAssumption`, `ConfirmsAssumption`, `UserAssumption`, `GatewayAssumption`
and `LifecycleAssumption`: quantities are integers (positive in the saga, which
`buildOrderItems` enforces), carts are nonempty sequences of items, bounds are
naturals, "none" differs from everything it stands in for, the callers of a
browser are its tabs, and the processes are among the five of the repository.

* `StockRowProofs`: a statement keeps a row well formed, and what it does to
  `total_stock`; and what a sum over a finite set (`SumFunctionOnSet` of the
  community modules) is and how it changes with one summand.  The library's
  induction theorems cannot be instantiated by the provers, so that induction over
  finite sets is done as a smallest counterexample (`Smallest`).
* `ProductServiceProofs`: `TypeOK`, `NoOversell`, `EventAppliedOnce`,
  `NoEventLost`, `CachedRowPlausible` with `HandlerKnowledge`, `StaleOnlyWhileOwed`,
  and refinement of the ledger.  The inductive invariant has a part for the tables, one for cache
  and readers, one for broker and consumers.  `HandlerKnowledge` is the needed
  strengthening: an event about to be acknowledged has been dealt with, and a
  row about to be cached is one the table has held.
* `OrderSagaProofs`: `TypeOK`, `OnlyHeldSettled`, `PaymentBacked`,
  `VerdictNotLost`, `StatusFinal`.  Strengthening: what `CreateOrder` holds at
  each of its steps (`Reserving`), that `order.created` leaves once and after all
  reservations (`Announcing`), and that a payment event, queued or in hand,
  carries the one verdict and its handler has asked for the items behind it
  (`Handles`).  `SettledOnce` and `SettlementMatchesStatus` need a second
  invariant on top of the first (`CalmInv`), about states without a fault so far:
  an order that is compensated has no status and was not announced (`CalmCall`),
  one with a verdict has stock events of that verdict's kind only (`CalmVerdict`),
  and a payment event is in the queue or in hand, with nothing published for the
  items ahead (`CalmHandler`).  `StockAccounted` rests on a third (`AccountInv`):
  a call that has not begun, or is still reserving, holds nothing from its next
  item on (`Fresh`), so that no item is reserved twice, and the items in play are
  finitely many although `Order` need not be.  A step then changes a row by what it
  changes in the two sums: one summand when a reservation or a stock event takes
  effect, zeros added when an order begins.
* `PaymentServiceProofs`: `TypeOK`, `InboxMatchesPayments`, `OneAttempt`,
  `NoOrderLost`, `VerdictFinal`.  Strengthening: whoever is past its transaction
  created the payment (`Working`) and is alone in that (`Alone`).
* `UserServiceProofs`: `SessionOwner`, `LogoutRevokes` and the two refinements of
  `OneTime`, `RotatesOnce` and `VerifiesOnce`.  A handler issues tokens on the
  strength of what it read several statements before; the invariant says what it
  has at each stage (`Holds`) and that one handler at most is past the statement
  that spends a credential (`TokenSpent`, `ChallengeSpent`).
* `GatewayProofs`: every step of the composition is a step of the user service or
  leaves it alone (`UsesUserService`), so that the theorems above hold behind the
  gateway; and `TypeOK`, `NoDeadCookie`, `RefusedTokenSpent`.  `NoDeadCookie`
  needs that a token is in the hands of one browser (`CookiesDiffer`, `Carried`)
  and a session on its way in nobody's (`Undelivered`).
* `PublisherConfirmsProofs`: `TypeOK`, `ErrorMeansTrouble`, `OwnConfirmation`.
  Strengthening: when nobody publishes, the library has handed out the last
  confirmation or is about to (`InStep`), so that a call alone reads its own
  (`Own`).
* `LifecycleProofs`: `TypeOK`, `ResourcesOutliveCalls`, `VerdictRouted`,
  `EventsSurvive`.
  Strengthening: what a process has acquired at each hook, and that with a call in
  progress the next hook to stop is the server's (`Standing`); that what is owed
  of a queue is in it or held by its one consumer, and the queue durable
  (`Counted`), because what is bound is durable (`BoundLast`); that what the order
  service declared is durable and bound (`Routed`).

The invariants were checked with TLC on the instances of the runs before they
were proved.

Only model-checked: everything under fairness (`EventuallyApplied`,
`ReservationResolved`, `VerdictTakesEffect`, `EventuallyCreated`), which is outside
the reach of the prover.

## What the models take for granted

* In the services' modules, the bindings `docs/architecture.md` draws: an event
  may reach the queue of its consumer.  `Lifecycle` models the bindings the code
  sets up, by which payment verdicts arrive and stock events do not; what
  `ProductService` shows of stock events is about those that reach its queues.
* The broker keeps durable queues, their bindings and its messages (published as
  persistent) across a restart.
* PostgreSQL transactions and single statements are atomic.
* The client library behaves as its documentation says (see `PublisherConfirms`).
* One `order.created` per order, as `PublishOrderCreated` is called once.

## Not modelled

Search and its cache entries, prices and amounts (and their overflow), reads of
orders and payments, the limit of ten on what a consumer is handed in advance (the models have none, or
one message of each queue), the counting of the rate
limiter (a library's script in Redis), `ToAppError` and the gateway's routes to
the other services, which pass one call on and keep nothing, configuration,
logging, generated code.  `userRepository.Update` has no caller.
`VerifyPayment` looks a payment up by an authority code that no statement stores
before, so it changes nothing as the code stands.  The notification service has
no code.

## Plan

1. Done: stock rows and ledger, product service, saga, payment service,
   publisher, user service with gateway, start and stop with the broker's
   topology; proofs of every safety property the passing runs check.
2. `Checkout`: saga and payment service composed, in place of the saga's
   environment; the saga shown to see at most one verdict.
3. The bank's callback as it would run with a stored authority code: two
   callbacks, verification that answers late, publication that fails.
4. Order totals on 64 bits.
