------------------------ MODULE PaymentServiceProofs ------------------------
(***************************************************************************)
(* The safety properties of PaymentService for any number of orders,       *)
(* replicas and faults.                                                    *)
(*                                                                         *)
(* Why one attempt per order: only the replica whose transaction created   *)
(* the payment goes on to the gateway (Working), so that replica is the    *)
(* only one at work on the order (Alone), it opens a session and publishes *)
(* a verdict once each, and the inbox keeps everybody else out for good.   *)
(***************************************************************************)
EXTENDS PaymentService, TLAPS

\* What a handler does after its transaction and before it acknowledges.
Past == {"gateway", "await", "fail", "publish"}

AtWork(r, o) == handler[r].order = o /\ handler[r].pc \in Past

\* A busy handler holds an event; one that acknowledges has dealt with it.
InHand ==
    \A r \in Replica :
        /\ handler[r].pc \notin {"idle", "stopped"} => handler[r].order \in published
        /\ handler[r].pc = "ack" => handler[r].order \in processed \cup corrupt

\* Who is at work on an order has created its payment, and neither session
\* nor verdict exists before its step.
Working ==
    \A r \in Replica, o \in Order : AtWork(r, o) =>
        /\ o \in processed
        /\ verdicts[o] = 0
        /\ handler[r].pc = "gateway" => links[o] = 0

Alone == \A r, s \in Replica, o \in Order : AtWork(r, o) /\ AtWork(s, o) => r = s

Untouched == \A o \in Order : o \notin processed => links[o] = 0 /\ verdicts[o] = 0

\* The inductive invariant.
Inv == /\ TypeOK /\ InHand /\ NoOrderLost
       /\ InboxMatchesPayments /\ Working /\ Alone /\ Untouched /\ OneAttempt

\* The service starts with no order.
LEMMA InitInv == Init => Inv
  BY PaymentAssumption
     DEF Init, Inv, TypeOK, Handling, HandlerPC, IdleHandler, StatusCheck, InHand, NoOrderLost,
         InboxMatchesPayments, Working, Alone, AtWork, Past, Untouched, OneAttempt

\* Types.
LEMMA GotoType ==
    ASSUME handler \in [Replica -> Handling], NEW r \in Replica, NEW pc \in HandlerPC, Goto(r, pc)
    PROVE  handler' \in [Replica -> Handling]
  BY DEF Goto, Handling

\* The bound on faults holds.
LEMMA FaultType ==
    ASSUME faults \in 0 .. MaxFaults, NEW r, Fault \/ NoFault \/ CallFails(r)
    PROVE  faults' \in 0 .. MaxFaults
  BY PaymentAssumption DEF Fault, NoFault, CallFails

\* Every step keeps the types.
LEMMA TypeStep == ASSUME TypeOK, InHand, [Next]_vars PROVE TypeOK'
<1> USE DEF TypeOK, brokerVars, dbVars
<1>1. ASSUME NEW o \in Order, NEW bad \in BOOLEAN, Publish(o, bad) PROVE TypeOK'
  BY <1>1 DEF Publish
<1>2. ASSUME NEW r \in Replica, NEW o \in Order, Deliver(r, o) \/ Take(r, o) PROVE TypeOK'
  BY <1>2 DEF Deliver, Take, Handling, HandlerPC
<1>3. ASSUME NEW r \in Replica,
             SkipCorrupt(r) \/ SkipProcessed(r) \/ RejectPayment(r) \/ GatewayRefuses(r) \/ ConsumeReturns(r)
      PROVE  TypeOK'
  <2>1. \E pc \in HandlerPC : Goto(r, pc)
    BY <1>3 DEF SkipCorrupt, SkipProcessed, RejectPayment, GatewayRefuses, ConsumeReturns, HandlerPC
  <2>2. UNCHANGED <<brokerVars, live, dbVars, links, verdicts, faults>>
    BY <1>3 DEF SkipCorrupt, SkipProcessed, RejectPayment, GatewayRefuses, ConsumeReturns
  <2>3. QED
    BY <2>1, <2>2, GotoType
<1>4. ASSUME NEW r \in Replica, TxFails(r) PROVE TypeOK'
  BY <1>4, GotoType, FaultType DEF TxFails, HandlerPC
<1>5. ASSUME NEW r \in Replica, StartContextExpires(r) PROVE TypeOK'
  BY <1>5 DEF StartContextExpires
<1>6. ASSUME NEW r \in Replica, CreatePayment(r) \/ CommitAnswerLost(r) PROVE TypeOK'
  <2>1. handler' \in [Replica -> Handling]
    BY <1>6, GotoType DEF CreatePayment, CommitAnswerLost, HandlerPC
  <2>2. faults' \in 0 .. MaxFaults
    BY <1>6, FaultType DEF CreatePayment, CommitAnswerLost
  <2>3. CommitTx(handler[r].order) /\ handler[r].order \in Order
    BY <1>6 DEF CreatePayment, CommitAnswerLost, Readable, InHand
  <2>4. processed' \subseteq Order /\ payment' \in [Order -> StatusCheck \cup {"none"}]
    BY <2>3 DEF CommitTx, StatusCheck
  <2>5. QED
    BY <1>6, <2>1, <2>2, <2>4 DEF CreatePayment, CommitAnswerLost
<1>7. ASSUME NEW r \in Replica, GatewayAccepts(r) \/ GatewayAnswerLost(r) PROVE TypeOK'
  <2>1. handler' \in [Replica -> Handling]
    BY <1>7, GotoType DEF GatewayAccepts, GatewayAnswerLost, HandlerPC
  <2>2. faults' \in 0 .. MaxFaults
    BY <1>7, FaultType DEF GatewayAccepts, GatewayAnswerLost
  <2>3. QED
    BY <1>7, <2>1, <2>2 DEF GatewayAccepts, GatewayAnswerLost
<1>8. ASSUME NEW r \in Replica, StoreAwaiting(r) \/ StoreFailed(r) PROVE TypeOK'
  <2>1. payment' \in [Order -> StatusCheck \cup {"none"}]
    BY <1>8 DEF StoreAwaiting, StoreFailed, UpdateFromPending, Accepted
  <2>2. handler' \in [Replica -> Handling]
    BY <1>8, GotoType DEF StoreAwaiting, StoreFailed, HandlerPC
  <2>3. faults' \in 0 .. MaxFaults
    BY <1>8, FaultType DEF StoreAwaiting, StoreFailed
  <2>4. QED
    BY <1>8, <2>1, <2>2, <2>3 DEF StoreAwaiting, StoreFailed
<1>9. ASSUME NEW r \in Replica, PublishPaymentFailed(r) \/ PublishHangs(r) PROVE TypeOK'
  <2>1. handler' \in [Replica -> Handling]
    BY <1>9, GotoType DEF PublishPaymentFailed, PublishHangs, HandlerPC
  <2>2. faults' \in 0 .. MaxFaults
    BY <1>9, FaultType DEF PublishPaymentFailed, PublishHangs
  <2>3. verdicts' \in [Order -> Nat]
    BY <1>9 DEF PublishPaymentFailed, PublishHangs
  <2>4. QED
    BY <1>9, <2>1, <2>2, <2>3 DEF PublishPaymentFailed, PublishHangs
<1>10. ASSUME NEW r \in Replica, Ack(r) \/ Nack(r) PROVE TypeOK'
  <2>1. handler' \in [Replica -> Handling]
    BY <1>10 DEF Ack, Nack, Settle, IdleHandler, Handling, HandlerPC
  <2>2. unacked' \in [Replica -> SUBSET published] /\ ready' \subseteq published
    BY <1>10 DEF Ack, Nack
  <2>3. QED
    BY <1>10, <2>1, <2>2 DEF Ack, Nack
<1>11. ASSUME NEW r \in Replica, Restart(r) \/ ChannelCloses(r) PROVE TypeOK'
  <2>1. handler' \in [Replica -> Handling]
    BY <1>11 DEF Restart, ChannelCloses, IdleHandler, Handling, HandlerPC
  <2>2. faults' \in 0 .. MaxFaults
    BY <1>11, FaultType DEF Restart, ChannelCloses
  <2>3. open' \in [Replica -> BOOLEAN] /\ live' \in [Replica -> BOOLEAN]
    BY <1>11, Zenon DEF Restart, ChannelCloses
  <2>4. ready' \subseteq published /\ unacked' \in [Replica -> SUBSET published]
    BY <1>11 DEF Restart, ChannelCloses
  <2>5. QED
    BY <1>11, <2>1, <2>2, <2>3, <2>4 DEF Restart, ChannelCloses
<1>12. CASE UNCHANGED vars
  BY <1>12 DEF vars
<1>13. QED
  BY <1>1, <1>2, <1>3, <1>4, <1>5, <1>6, <1>7, <1>8, <1>9, <1>10, <1>11, <1>12
     DEF Next, HandlerStep

-----------------------------------------------------------------------------
\* What a step leaves alone, grown monotonically.
LEMMA Grow ==
    ASSUME TypeOK, [Next]_vars
    PROVE  published \subseteq published' /\ corrupt \subseteq corrupt' /\ processed \subseteq processed'
  BY DEF Next, HandlerStep, vars, brokerVars, dbVars, Publish, Deliver, Take, SkipCorrupt, SkipProcessed,
         RejectPayment, CreatePayment, CommitAnswerLost, CommitTx, TxFails, GatewayAccepts,
         GatewayRefuses, GatewayAnswerLost, StoreAwaiting, StoreFailed, PublishPaymentFailed,
         PublishHangs, Ack, Nack, ConsumeReturns, StartContextExpires, Restart, ChannelCloses

\* Who acknowledges has dealt with the event.
LEMMA InHandStep == ASSUME Inv, [Next]_vars PROVE InHand'
<1> USE DEF Inv, TypeOK, brokerVars, dbVars
<1>0. published \subseteq published' /\ corrupt \subseteq corrupt' /\ processed \subseteq processed'
  BY Grow
<1>1. CASE handler' = handler
  BY <1>0, <1>1 DEF InHand
<1>2. ASSUME NEW r \in Replica, NEW o \in Order, Take(r, o) PROVE InHand'
  <2>1. o \in published /\ handler' = [handler EXCEPT ![r] = [pc |-> "handle", order |-> o]]
    BY <1>2 DEF Take
  <2>2. QED
    BY <1>0, <2>1 DEF InHand
<1>3. ASSUME NEW r \in Replica, NEW pc, Goto(r, pc),
             pc \notin {"idle", "stopped"} => handler[r].pc \notin {"idle", "stopped"},
             pc = "ack" => handler[r].order \in processed' \cup corrupt'
      PROVE InHand'
  BY <1>0, <1>3 DEF InHand, Goto, Handling
<1>4. ASSUME NEW r \in Replica, NEW pc \in {"idle", "stopped"},
             handler' = [handler EXCEPT ![r] = [IdleHandler EXCEPT !.pc = pc]]
      PROVE InHand'
  BY <1>0, <1>4 DEF InHand, IdleHandler
<1>5. ASSUME NEW r \in Replica,
             \/ SkipCorrupt(r) \/ SkipProcessed(r) \/ RejectPayment(r) \/ TxFails(r)
             \/ CreatePayment(r) \/ CommitAnswerLost(r) \/ ConsumeReturns(r)
      PROVE InHand'
  BY <1>3, <1>5 DEF SkipCorrupt, SkipProcessed, RejectPayment, TxFails, CreatePayment,
                    CommitAnswerLost, ConsumeReturns, Readable
<1>6. ASSUME NEW r \in Replica,
             \/ GatewayAccepts(r) \/ GatewayRefuses(r) \/ GatewayAnswerLost(r)
             \/ StoreAwaiting(r) \/ StoreFailed(r) \/ PublishPaymentFailed(r) \/ PublishHangs(r)
      PROVE InHand'
  <2>1. handler[r].pc \in Past
    BY <1>6 DEF GatewayAccepts, GatewayRefuses, GatewayAnswerLost, StoreAwaiting, StoreFailed,
                PublishPaymentFailed, PublishHangs, Past
  <2>2. handler[r].order \in processed'
    BY <1>0, <2>1 DEF InHand, Working, AtWork, Past
  <2>3. \E pc : Goto(r, pc)
    BY <1>6 DEF GatewayAccepts, GatewayRefuses, GatewayAnswerLost, StoreAwaiting, StoreFailed,
                PublishPaymentFailed, PublishHangs
  <2>4. QED
    BY <1>3, <2>1, <2>2, <2>3 DEF Past
<1>7. ASSUME NEW r \in Replica, Ack(r) \/ Nack(r) PROVE InHand'
  <2>1. Settle(r)
    BY <1>7 DEF Ack, Nack
  <2>2. QED
    BY <1>4, <2>1 DEF Settle
<1>8. ASSUME NEW r \in Replica, Restart(r) PROVE InHand'
  BY <1>4, <1>8 DEF Restart, IdleHandler
<1>9. ASSUME NEW r \in Replica, ChannelCloses(r) PROVE InHand'
  BY <1>1, <1>3, <1>9 DEF ChannelCloses, Goto
<1>10. QED
  BY <1>1, <1>2, <1>5, <1>6, <1>7, <1>8, <1>9
     DEF Next, HandlerStep, Publish, Deliver, StartContextExpires, vars

\* Nothing is lost.
LEMMA LostStep == ASSUME Inv, [Next]_vars PROVE NoOrderLost'
<1> USE DEF Inv, TypeOK, brokerVars, dbVars, NoOrderLost
<1>0. published \subseteq published' /\ corrupt \subseteq corrupt' /\ processed \subseteq processed'
  BY Grow
<1>1. CASE UNCHANGED <<published, ready, unacked>>
  BY <1>0, <1>1
<1>2. ASSUME NEW o \in Order, NEW bad \in BOOLEAN, Publish(o, bad) PROVE NoOrderLost'
  BY <1>0, <1>2 DEF Publish
<1>3. ASSUME NEW r \in Replica, NEW o \in Order, Deliver(r, o) PROVE NoOrderLost'
  <2> SUFFICES ASSUME NEW m \in published, m \notin processed \cup corrupt
               PROVE  m \in ready' \/ \E q \in Replica : m \in unacked'[q]
    BY <1>0, <1>3 DEF Deliver
  <2>1. CASE m = o
    BY <1>3, <2>1 DEF Deliver
  <2>2. CASE m # o
    BY <1>3, <2>2 DEF Deliver
  <2>3. QED
    BY <2>1, <2>2
<1>4. ASSUME NEW r \in Replica, Ack(r) PROVE NoOrderLost'
  <2>1. handler[r].order \in processed \cup corrupt
    BY <1>4 DEF Ack, InHand
  <2>2. QED
    BY <1>0, <1>4, <2>1 DEF Ack
<1>5. ASSUME NEW r \in Replica, Nack(r) PROVE NoOrderLost'
  BY <1>0, <1>5 DEF Nack
<1>6. ASSUME NEW r \in Replica, Restart(r) \/ ChannelCloses(r) PROVE NoOrderLost'
  BY <1>0, <1>6 DEF Restart, ChannelCloses
<1>7. QED
  BY <1>1, <1>2, <1>3, <1>4, <1>5, <1>6
     DEF Next, HandlerStep, vars, SkipCorrupt, SkipProcessed, RejectPayment, CreatePayment,
         CommitAnswerLost, TxFails, GatewayAccepts, GatewayRefuses, GatewayAnswerLost,
         StoreAwaiting, StoreFailed, PublishPaymentFailed, PublishHangs, Take, ConsumeReturns, StartContextExpires

-----------------------------------------------------------------------------
\* The part of the invariant that says who may do what to an order.
Work == InboxMatchesPayments /\ Working /\ Alone /\ Untouched /\ OneAttempt

\* A step that puts nobody to work and leaves tables, gateway and verdicts
\* alone preserves it, ...
LEMMA Retreat ==
    ASSUME Inv, UNCHANGED <<dbVars, links, verdicts>>,
           \A q \in Replica : handler'[q].pc \in Past =>
              /\ handler'[q].order = handler[q].order
              /\ handler[q].pc \in Past
              /\ handler'[q].pc = "gateway" => handler[q].pc = "gateway"
    PROVE  Work'
  BY DEF Work, Inv, InboxMatchesPayments, Working, Alone, AtWork, Untouched, OneAttempt, dbVars

\* ... and so does a jump of one handler that does not.
LEMMA Jump ==
    ASSUME Inv, UNCHANGED <<dbVars, links, verdicts>>, NEW r \in Replica, NEW pc, Goto(r, pc),
           pc \in Past => handler[r].pc \in Past /\ pc # "gateway"
    PROVE  Work'
<1>1. \A q \in Replica : handler'[q] = IF q = r THEN [handler[r] EXCEPT !.pc = pc] ELSE handler[q]
  BY DEF Goto, Inv, TypeOK
<1>2. handler[r] \in Handling
  BY DEF Inv, TypeOK
<1>3. handler'[r].order = handler[r].order /\ handler'[r].pc = pc
  BY <1>1, <1>2 DEF Handling
<1>4. QED
  BY <1>1, <1>3, Retreat DEF Past

\* The transaction: the event was not in the inbox, so nobody is at work on it.
LEMMA WorkCreate ==
    ASSUME Inv, NEW r \in Replica, CreatePayment(r) \/ CommitAnswerLost(r) PROVE Work'
<1> DEFINE o == handler[r].order
<1> USE DEF Inv, TypeOK
<1>1. /\ o \in Order /\ o \notin processed /\ handler[r].pc = "handle"
      /\ processed' = processed \cup {o}
      /\ payment' = [payment EXCEPT ![o] = "pending"]
      /\ UNCHANGED <<links, verdicts>>
  BY DEF CreatePayment, CommitAnswerLost, CommitTx, Readable, InHand
<1>2. PICK pc : Goto(r, pc) /\ pc \in {"gateway", "nack"}
  BY DEF CreatePayment, CommitAnswerLost
<1>3. \A q \in Replica : handler'[q].order = handler[q].order
                         /\ handler'[q].pc = IF q = r THEN pc ELSE handler[q].pc
  BY <1>2 DEF Goto, Handling
<1>4. \A q \in Replica : ~ AtWork(q, o)
  BY <1>1 DEF Working
<1>5. InboxMatchesPayments'
  BY <1>1 DEF InboxMatchesPayments
<1>6. Working'
  BY <1>1, <1>3 DEF Working, AtWork, Untouched
<1>7. Alone'
  BY <1>1, <1>3, <1>4 DEF Alone, AtWork
<1>8. Untouched' /\ OneAttempt'
  BY <1>1 DEF Untouched, OneAttempt
<1>9. QED
  BY <1>5, <1>6, <1>7, <1>8 DEF Work

\* The gateway: it has no session for the order yet.
LEMMA WorkGateway ==
    ASSUME Inv, NEW r \in Replica, GatewayAccepts(r) \/ GatewayAnswerLost(r) PROVE Work'
<1> DEFINE o == handler[r].order
<1> USE DEF Inv, TypeOK
<1>1. /\ o \in Order /\ handler[r].pc = "gateway"
      /\ links' = [links EXCEPT ![o] = @ + 1]
      /\ UNCHANGED <<processed, payment, verdicts>>
  BY DEF GatewayAccepts, GatewayAnswerLost, InHand, dbVars
<1>2. PICK pc : Goto(r, pc) /\ pc \in {"await", "fail"}
  BY DEF GatewayAccepts, GatewayAnswerLost
<1>3. \A q \in Replica : handler'[q].order = handler[q].order
                         /\ handler'[q].pc = IF q = r THEN pc ELSE handler[q].pc
  BY <1>2 DEF Goto, Handling
<1>4. AtWork(r, o) /\ o \in processed /\ links[o] = 0
  BY <1>1 DEF Working, AtWork, Past
<1>5. InboxMatchesPayments' /\ Untouched' /\ OneAttempt'
  BY <1>1, <1>4 DEF InboxMatchesPayments, Untouched, OneAttempt
<1>6. \A q \in Replica, p \in Order : AtWork(q, p)' <=> AtWork(q, p)
  BY <1>1, <1>2, <1>3 DEF AtWork, Past
<1>7. Working'
  BY <1>1, <1>2, <1>3, <1>4, <1>6 DEF Working, Alone, AtWork
<1>8. Alone'
  BY <1>6 DEF Alone
<1>9. QED
  BY <1>5, <1>7, <1>8 DEF Work

\* The outcome in the payments table: a payment stays a payment.
LEMMA WorkStore ==
    ASSUME Inv, NEW r \in Replica, StoreAwaiting(r) \/ StoreFailed(r) PROVE Work'
<1> DEFINE o == handler[r].order
<1> USE DEF Inv, TypeOK
<1>1. /\ o \in Order /\ handler[r].pc \in {"await", "fail"}
      /\ UNCHANGED <<processed, links, verdicts>>
  BY DEF StoreAwaiting, StoreFailed, InHand
<1>2. PICK pc : Goto(r, pc) /\ pc \in {"ack", "nack", "publish"}
  BY DEF StoreAwaiting, StoreFailed
<1>3. \A q \in Replica : handler'[q].order = handler[q].order
                         /\ handler'[q].pc = IF q = r THEN pc ELSE handler[q].pc
  BY <1>2 DEF Goto, Handling
<1>4. \A p \in Order : payment'[p] # "none" <=> payment[p] # "none"
  BY <1>1 DEF StoreAwaiting, StoreFailed, UpdateFromPending, Accepted, StatusCheck
<1>5. InboxMatchesPayments' /\ Untouched' /\ OneAttempt'
  BY <1>1, <1>4 DEF InboxMatchesPayments, Untouched, OneAttempt
<1>6. \A q \in Replica, p \in Order : AtWork(q, p)' => AtWork(q, p)
  BY <1>1, <1>2, <1>3 DEF AtWork, Past
<1>7. Working' /\ Alone'
  BY <1>1, <1>2, <1>3, <1>6 DEF Working, Alone
<1>8. QED
  BY <1>5, <1>7 DEF Work

\* The verdict: the handler leaves its work with it.
LEMMA WorkPublish ==
    ASSUME Inv, NEW r \in Replica, PublishPaymentFailed(r) \/ PublishHangs(r) PROVE Work'
<1> DEFINE o == handler[r].order
<1> USE DEF Inv, TypeOK
<1>1. /\ o \in Order /\ handler[r].pc = "publish"
      /\ UNCHANGED <<processed, payment, links>>
      /\ verdicts' = verdicts \/ verdicts' = [verdicts EXCEPT ![o] = @ + 1]
  BY DEF PublishPaymentFailed, PublishHangs, InHand, dbVars
<1>0. PICK pc : Goto(r, pc) /\ pc \in {"ack", "hung"}
  BY DEF PublishPaymentFailed, PublishHangs
<1>2. AtWork(r, o) /\ o \in processed /\ verdicts[o] = 0
  BY <1>1 DEF Working, AtWork, Past
<1>3. \A q \in Replica : handler'[q].order = handler[q].order
                         /\ handler'[q].pc = IF q = r THEN pc ELSE handler[q].pc
  BY <1>0 DEF Goto, Handling
<1>4. \A q \in Replica, p \in Order : AtWork(q, p)' => AtWork(q, p) /\ p # o
  BY <1>0, <1>2, <1>3 DEF AtWork, Past, Alone
<1>5. InboxMatchesPayments' /\ Untouched' /\ OneAttempt'
  BY <1>1, <1>2 DEF InboxMatchesPayments, Untouched, OneAttempt
<1>6. Alone'
  BY <1>4 DEF Alone
<1>7. \A p \in Order : p # o => verdicts'[p] = verdicts[p]
  BY <1>1
<1>8. Working'
  BY <1>0, <1>1, <1>3, <1>4, <1>7 DEF Working, AtWork, Past
<1>9. QED
  BY <1>5, <1>6, <1>8 DEF Work

\* Every step keeps who may do what to an order.
LEMMA WorkStep == ASSUME Inv, [Next]_vars PROVE Work'
<1>1. CASE UNCHANGED <<handler, dbVars, links, verdicts>>
  BY <1>1, Retreat
<1>2. ASSUME NEW r \in Replica, NEW o \in Order, Take(r, o) PROVE Work'
  BY <1>2, Retreat DEF Take, Past, Inv, TypeOK
<1>3. ASSUME NEW r \in Replica,
             \/ SkipCorrupt(r) \/ SkipProcessed(r) \/ RejectPayment(r) \/ TxFails(r)
             \/ ConsumeReturns(r) \/ GatewayRefuses(r)
      PROVE Work'
  BY <1>3, Jump DEF SkipCorrupt, SkipProcessed, RejectPayment, TxFails, ConsumeReturns,
                    GatewayRefuses, Past
<1>4. ASSUME NEW r \in Replica, Ack(r) \/ Nack(r) \/ Restart(r) PROVE Work'
  <2>1. UNCHANGED <<dbVars, links, verdicts>>
    BY <1>4 DEF Ack, Nack, Restart
  <2>2. \A q \in Replica : handler'[q].pc \in Past => handler'[q] = handler[q]
    BY <1>4 DEF Ack, Nack, Settle, Restart, IdleHandler, Past, Inv, TypeOK
  <2>3. QED
    BY <2>1, <2>2, Retreat
<1>5. ASSUME NEW r \in Replica, ChannelCloses(r) PROVE Work'
  BY <1>1, <1>5, Jump DEF ChannelCloses, Goto, Past
<1>6. QED
  BY <1>1, <1>2, <1>3, <1>4, <1>5, WorkCreate, WorkGateway, WorkStore, WorkPublish
     DEF Next, HandlerStep, vars, Publish, Deliver, StartContextExpires, brokerVars

-----------------------------------------------------------------------------
\* The invariant is inductive.
THEOREM Invariance == Spec => []Inv
<1>1. ASSUME Inv, [Next]_vars PROVE Inv'
  <2>1. TypeOK'
    BY <1>1, TypeStep DEF Inv
  <2>2. InHand' /\ NoOrderLost' /\ Work'
    BY <1>1, InHandStep, LostStep, WorkStep
  <2>3. QED
    BY <2>1, <2>2 DEF Inv, Work
<1>2. QED
  BY <1>1, InitInv, PTL DEF Spec

\* The tables and queues keep their types, the CHECK on payments.status
\* included.
THEOREM TypeCorrect == Spec => []TypeOK
<1>1. Inv => TypeOK
  BY DEF Inv
<1>2. QED
  BY <1>1, Invariance, PTL

\* The inbox and the payments table of HandleOrderCreated agree always.
THEOREM InboxConsistent == Spec => []InboxMatchesPayments
<1>1. Inv => InboxMatchesPayments
  BY DEF Inv
<1>2. QED
  BY <1>1, Invariance, PTL

\* One payment session and one payment.failed per order, for any number of
\* replicas and redeliveries.
THEOREM SingleAttempt == Spec => []OneAttempt
<1>1. Inv => OneAttempt
  BY DEF Inv
<1>2. QED
  BY <1>1, Invariance, PTL

\* An order without payment is with the broker still.
THEOREM NothingLost == Spec => []NoOrderLost
<1>1. Inv => NoOrderLost
  BY DEF Inv
<1>2. QED
  BY <1>1, Invariance, PTL

\* After payment.failed neither the payments table nor the gateway changes
\* for that order: who could change them would be at work on it.
THEOREM VerdictIsFinal == Spec => VerdictFinal
<1>1. ASSUME Inv, [Next]_vars, NEW o \in Order, verdicts[o] > 0
      PROVE  payment'[o] = payment[o] /\ links'[o] = links[o]
  <2> USE DEF Inv, TypeOK
  <2>1. o \in processed /\ \A r \in Replica : ~ AtWork(r, o)
    BY <1>1 DEF Untouched, Working
  <2>2. CASE UNCHANGED <<payment, links>>
    BY <2>2
  <2>3. ASSUME NEW r \in Replica, CreatePayment(r) \/ CommitAnswerLost(r)
        PROVE  payment'[o] = payment[o] /\ links'[o] = links[o]
    BY <1>1, <2>1, <2>3 DEF CreatePayment, CommitAnswerLost, CommitTx
  <2>4. ASSUME NEW r \in Replica,
               GatewayAccepts(r) \/ GatewayAnswerLost(r) \/ StoreAwaiting(r) \/ StoreFailed(r)
        PROVE  payment'[o] = payment[o] /\ links'[o] = links[o]
    <3>1. handler[r].order # o
      BY <2>1, <2>4 DEF AtWork, Past, GatewayAccepts, GatewayAnswerLost, StoreAwaiting, StoreFailed
    <3>2. QED
      BY <1>1, <2>4, <3>1 DEF GatewayAccepts, GatewayAnswerLost, StoreAwaiting, StoreFailed,
                              UpdateFromPending, dbVars
  <2>5. QED
    BY <1>1, <2>2, <2>3, <2>4
       DEF Next, HandlerStep, vars, dbVars, Publish, Deliver, Take, SkipCorrupt, SkipProcessed,
           RejectPayment, TxFails, GatewayRefuses, PublishPaymentFailed, PublishHangs, Ack, Nack,
           ConsumeReturns, StartContextExpires, Restart, ChannelCloses
<1>2. ASSUME Inv, [Next]_vars
      PROVE  \A o \in Order : verdicts[o] > 0 => payment'[o] = payment[o] /\ links'[o] = links[o]
  BY <1>1, <1>2
<1>3. QED
  BY <1>2, Invariance, PTL DEF Spec, VerdictFinal
=============================================================================
