--------------------------- MODULE LifecycleProofs ---------------------------
(***************************************************************************)
(* The safety properties of starting and stopping, for any of the services *)
(* and any number of calls, events and faults.                             *)
(*                                                                         *)
(* ResourcesOutliveCalls rests on where a process stands (Standing): its   *)
(* constructors acquire everything before the first start hook runs, it    *)
(* takes calls only when all hooks have run, and the last of the hooks is  *)
(* the server's, which stops first and only when no call is in progress.   *)
(* EventsSurvive needs to know that a queue has one consumer, which holds  *)
(* a message of it or does not (Counted), and that what a queue owes its   *)
(* consumer is in a durable queue; what is bound is durable (Broker).      *)
(* VerdictRouted rests on what the order service has declared being there  *)
(* after a restart of the broker, too (Routed).                            *)
(***************************************************************************)
EXTENDS Lifecycle, FiniteSetTheorems, TLAPS

-----------------------------------------------------------------------------
(* The inductive invariant *)

Resources == {"redis", "rabbit", "clients", "pg", "messaging", "server"}

\* What the first n constructors of s acquire, and what all of them do.
Before(s, n) == {Hooks[s][i] : i \in 1 .. n}
All(s) == Before(s, Len(Hooks[s]))

Shape ==
  /\ pos \in [Services -> Nat]
  /\ open \in [Services -> SUBSET Resources]
  /\ subscribed \in [Services -> SUBSET Queues]
  /\ busy \in [Services -> SUBSET Queues]
  /\ handled \in [Services -> SUBSET Queues]

Standing(s) ==
  /\ phase[s] = "down" => open[s] = {} /\ ~rpc[s]
  /\ phase[s] = "building" => pos[s] >= 1 /\ open[s] = Before(s, pos[s] - 1) /\ ~rpc[s]
  /\ phase[s] = "starting" => pos[s] >= 1 /\ open[s] = All(s) /\ ~rpc[s]
  /\ phase[s] = "up" => pos[s] = Len(Hooks[s]) /\ open[s] = All(s)
  /\ (phase[s] = "stopping" /\ rpc[s]) => pos[s] = Len(Hooks[s]) /\ open[s] = All(s)

\* What a queue has got and is not acknowledged is in it or held by its
\* consumer, was published, and outlives the broker.
Held(q) == \E s \in Services : q \in busy[s]
Counted ==
  \A q \in Queues :
    /\ owed[q] = content[q] + (IF Held(q) THEN 1 ELSE 0)
    /\ owed[q] <= events
    /\ owed[q] > 0 => q \in durable

\* What the order service has declared.
Routed ==
  "order" \in ready =>
    /\ Published \in durable /\ QueuesOf["order"] \subseteq durable
    /\ \A q \in QueuesOf["order"] : <<Published, q>> \in bindings

\* A queue that is bound is durable.
BoundLast ==
  \A q \in Queues : (\E x \in {Published, OrderEvents} : <<x, q>> \in bindings) => q \in durable

Inv ==
  /\ TypeOK /\ Shape /\ Counted /\ BoundLast /\ Routed /\ VerdictRouted
  /\ \A s \in Services : Standing(s)

-----------------------------------------------------------------------------
(* Hooks and queues *)

Names == {"api", "user", "order", "payment", "product"}

\* The services have the names of the tables above.
LEMMA ServiceNames == Services \subseteq Names
  BY LifecycleAssumption DEF Hooks, Names

\* The server's hook comes last.
LEMMA HookFacts ==
  ASSUME NEW s \in Services
  PROVE  /\ Len(Hooks[s]) \in Nat /\ Len(Hooks[s]) >= 1
         /\ Hooks[s][Len(Hooks[s])] = "server"
         /\ \A i \in 1 .. Len(Hooks[s]) : Hooks[s][i] \in Resources
  <1>1. CASE s = "api"
    BY <1>1 DEF Hooks, ApiHooks, Resources
  <1>2. CASE s = "user"
    BY <1>2 DEF Hooks, UserHooks, Resources
  <1>3. CASE s = "order"
    BY <1>3 DEF Hooks, OrderHooks, Resources
  <1>4. CASE s = "payment"
    BY <1>4 DEF Hooks, PaymentHooks, Resources
  <1>5. CASE s = "product"
    BY <1>5 DEF Hooks, ProductHooks, Resources
  <1>6. QED
    BY <1>1, <1>2, <1>3, <1>4, <1>5, ServiceNames DEF Names

\* One constructor more.
LEMMA BeforeFacts ==
  ASSUME NEW s \in Services, NEW n \in Nat
  PROVE  /\ Before(s, 0) = {}
         /\ n >= 1 => Before(s, n) = Before(s, n - 1) \cup {Hooks[s][n]}
         /\ n <= Len(Hooks[s]) => Before(s, n) \subseteq All(s)
         /\ All(s) \subseteq Resources
  <1>1. Before(s, 0) = {}
    BY DEF Before
  <1>2. n >= 1 => Before(s, n) = Before(s, n - 1) \cup {Hooks[s][n]}
    BY DEF Before
  <1>3. n <= Len(Hooks[s]) => Before(s, n) \subseteq All(s)
    BY HookFacts DEF Before, All
  <1>4. All(s) \subseteq Resources
    BY HookFacts DEF Before, All
  <1>5. QED
    BY <1>1, <1>2, <1>3, <1>4

\* A queue has one consumer.
LEMMA QueueFacts ==
  /\ \A s \in Services : QueuesOf[s] \subseteq Queues
  /\ \A s, t \in Names : \A q \in QueuesOf[s] : q \in QueuesOf[t] => s = t
  /\ QueuesOf["order"] \subseteq Queues /\ Queues \subseteq Keys
  <1>1. DOMAIN QueuesOf = Names
    BY DEF QueuesOf, Names
  <1>2. \A s \in Names : QueuesOf[s] \subseteq Queues
    BY <1>1 DEF Queues
  <1>3. \A s, t \in Names : \A q \in QueuesOf[s] : q \in QueuesOf[t] => s = t
    BY DEF QueuesOf, Names
  <1>4. \A s \in Names : QueuesOf[s] \subseteq Keys
    BY DEF QueuesOf, Names, Keys
  <1>5. Queues \subseteq Keys
    BY <1>1, <1>4 DEF Queues
  <1>6. QED
    BY <1>2, <1>3, <1>5, ServiceNames DEF Names

\* What calls and handlers publish.
LEMMA EventFacts ==
  /\ \A s \in Services : Calls[s] \subseteq Keys
  /\ \A q \in Queues : Emits(q) \subseteq Keys \cup {None}
  <1>1. \A s \in Names : Calls[s] \subseteq Keys
    BY DEF Calls, Keys, Names
  <1>2. \A q \in Queues : Emits(q) \subseteq Keys \cup {None}
    BY DEF Emits, Keys
  <1>3. QED
    BY <1>1, <1>2, ServiceNames

\* What the numbers of messages are.
LEMMA CountFacts ==
  ASSUME Inv, NEW q \in Queues
  PROVE  /\ content[q] \in Nat /\ owed[q] \in Nat /\ events \in Nat /\ MaxEvents \in Nat
         /\ owed[q] = content[q] + (IF Held(q) THEN 1 ELSE 0)
         /\ owed[q] <= events /\ events <= MaxEvents
         /\ \A s, t \in Services : (q \in busy[s] /\ q \in busy[t]) => s = t
  <1>1. /\ content \in [Queues -> 0 .. MaxEvents] /\ owed \in [Queues -> 0 .. MaxEvents]
        /\ events \in 0 .. MaxEvents /\ MaxEvents \in Nat
        /\ \A s \in Services : busy[s] \subseteq QueuesOf[s]
    BY LifecycleAssumption DEF Inv, TypeOK
  <1>2. /\ owed[q] = content[q] + (IF Held(q) THEN 1 ELSE 0)
        /\ owed[q] <= events
    BY DEF Inv, Counted
  <1>3. \A s, t \in Services : (q \in busy[s] /\ q \in busy[t]) => s = t
    BY <1>1, QueueFacts, ServiceNames
  <1>4. QED
    BY <1>1, <1>2, <1>3

\* A queue gets back the message that its consumer held, if it held one.
LEMMA RequeuedFacts ==
  ASSUME Inv, NEW S \in SUBSET Services
  PROVE  /\ Requeued(S) = [q \in Queues |-> Requeued(S)[q]]
         /\ \A q \in Queues :
              /\ Requeued(S)[q] \in Nat
              /\ owed[q] = Requeued(S)[q] + (IF \E s \in Services \ S : q \in busy[s] THEN 1 ELSE 0)
  <1>1. ASSUME NEW q \in Queues
        PROVE  /\ Requeued(S)[q] \in Nat
               /\ owed[q] = Requeued(S)[q] + (IF \E s \in Services \ S : q \in busy[s] THEN 1 ELSE 0)
    <2> DEFINE H == {s \in S : q \in busy[s]}
    <2>1. Requeued(S)[q] = content[q] + Cardinality(H)
      BY DEF Requeued
    <2>2. /\ content[q] \in Nat /\ owed[q] = content[q] + (IF Held(q) THEN 1 ELSE 0)
          /\ \A s, t \in Services : (q \in busy[s] /\ q \in busy[t]) => s = t
      BY CountFacts
    <2>3. CASE H = {}
      <3>1. Cardinality(H) = 0
        BY <2>3, FS_EmptySet
      <3>2. Held(q) <=> \E s \in Services \ S : q \in busy[s]
        BY <2>3 DEF Held
      <3> HIDE DEF H
      <3>3. Requeued(S)[q] = content[q]
        BY <2>1, <2>2, <3>1
      <3>4. QED
        BY <2>2, <3>2, <3>3
    <2>4. CASE H # {}
      <3>1. PICK s \in S : q \in busy[s]
        BY <2>4
      <3>2. H = {s}
        BY <2>2, <3>1
      <3>3. Cardinality(H) = 1
        BY <3>2, FS_Singleton
      <3>4. Held(q) /\ ~\E t \in Services \ S : q \in busy[t]
        BY <2>2, <3>1 DEF Held
      <3> HIDE DEF H
      <3>5. Requeued(S)[q] = content[q] + 1
        BY <2>1, <2>2, <3>3
      <3>6. QED
        BY <2>2, <3>4, <3>5
    <2>5. QED
      BY <2>3, <2>4
  <1>2. Requeued(S) = [q \in Queues |-> Requeued(S)[q]]
    BY DEF Requeued
  <1>3. QED
    BY <1>1, <1>2

-----------------------------------------------------------------------------
(* The parts of the invariant: processes, broker and traffic *)

Phases == {"down", "building", "starting", "up", "stopping"}

\* The state of the processes is kept in functions.
Kept ==
  /\ phase \in [Services -> Phases]
  /\ link \in [Services -> BOOLEAN] /\ rpc \in [Services -> BOOLEAN]
  /\ loop \in [Services -> BOOLEAN]
  /\ Shape

Proc(s) ==
  /\ pos[s] \in 0 .. Len(Hooks[s]) /\ open[s] \subseteq All(s)
  /\ subscribed[s] \subseteq QueuesOf[s]
  /\ handled[s] \subseteq busy[s] /\ busy[s] \subseteq QueuesOf[s]
  /\ Standing(s)

Broker ==
  /\ exchanges \subseteq {Published, OrderEvents} /\ queues \subseteq Queues
  /\ durable \subseteq {Published, OrderEvents} \cup Queues
  /\ bindings \subseteq {Published, OrderEvents} \X Queues
  /\ BoundLast
  /\ Routed

Traffic ==
  /\ content \in [Queues -> 0 .. MaxEvents] /\ owed \in [Queues -> 0 .. MaxEvents]
  /\ events \in 0 .. MaxEvents /\ faults \in 0 .. MaxFaults
  /\ ready \subseteq Services /\ misrouted \subseteq Keys
  /\ Counted /\ VerdictRouted

\* The invariant, taken apart.
LEMMA Parts == Inv <=> Kept /\ (\A s \in Services : Proc(s)) /\ Broker /\ Traffic
  <1>1. \A s \in Services : All(s) = {Hooks[s][i] : i \in 1 .. Len(Hooks[s])}
    BY DEF All, Before
  <1>2. QED
    BY <1>1 DEF Inv, TypeOK, Kept, Proc, Broker, Traffic, Phases

\* Only the process s does something.
Only(s) ==
  \A d \in Services \ {s} :
    /\ phase'[d] = phase[d] /\ pos'[d] = pos[d] /\ open'[d] = open[d] /\ rpc'[d] = rpc[d]
    /\ subscribed'[d] = subscribed[d] /\ busy'[d] = busy[d] /\ handled'[d] = handled[d]

\* The other processes stay as they are.
LEMMA Together ==
  ASSUME Inv, NEW s \in Services, Kept', Proc(s)', Only(s), Broker', Traffic'
  PROVE  Inv'
  <1>1. \A d \in Services : Proc(d)
    BY Parts
  <1>2. ASSUME NEW d \in Services \ {s} PROVE Proc(d)'
    BY <1>1 DEF Only, Proc, Standing
  <1>3. \A d \in Services : All(d)' = {Hooks[d][i] : i \in 1 .. Len(Hooks[d])}
    BY DEF All, Before
  <1>4. \A d \in Services : Proc(d)'
    BY <1>2
  <1>5. TypeOK'
    BY <1>3, <1>4 DEF TypeOK, Kept, Proc, Broker, Traffic, Phases
  <1>6. \A d \in Services : Standing(d)'
    BY <1>4 DEF Proc
  <1>7. QED
    BY <1>5, <1>6 DEF Inv, Kept, Broker, Traffic

\* The broker is not asked for anything.
LEMMA BrokerStays == ASSUME Inv, UNCHANGED <<topology, ready>> PROVE Broker'
  <1>1. Broker
    BY Parts
  <1>2. QED
    BY <1>1 DEF Broker, BoundLast, Routed, topology

\* The bound on faults holds.
LEMMA FaultType ==
  ASSUME Inv, Fault \/ UNCHANGED faults PROVE faults' \in 0 .. MaxFaults
  BY LifecycleAssumption DEF Inv, TypeOK, Fault

\* Messages move between their queues and the consumers of these.
LEMMA TrafficMoves ==
  ASSUME Inv, content' = [q \in Queues |-> content'[q]],
         \A q \in Queues : /\ content'[q] \in Nat
                           /\ owed[q] = content'[q] + (IF Held(q)' THEN 1 ELSE 0),
         UNCHANGED <<events, misrouted, owed>>, Fault \/ UNCHANGED faults,
         ready' \subseteq Services, durable \subseteq durable'
  PROVE  Traffic'
  <1>1. Traffic
    BY Parts
  <1>2. ASSUME NEW q \in Queues PROVE content'[q] \in 0 .. MaxEvents
    BY CountFacts
  <1>3. content' \in [Queues -> 0 .. MaxEvents]
    BY <1>2
  <1>4. ASSUME NEW q \in Queues
        PROVE  /\ owed'[q] = content'[q] + (IF Held(q)' THEN 1 ELSE 0)
               /\ owed'[q] <= events' /\ (owed'[q] > 0 => q \in durable')
    BY <1>1 DEF Traffic, Counted
  <1>5. Counted'
    BY <1>4 DEF Counted
  <1>6. QED
    BY <1>1, <1>3, <1>5, FaultType DEF Traffic, VerdictRouted

\* No message moves.
LEMMA TrafficStays ==
  ASSUME Inv, UNCHANGED <<content, busy, events, misrouted, owed>>, Fault \/ UNCHANGED faults,
         ready' \subseteq Services, durable \subseteq durable'
  PROVE  Traffic'
  <1>1. content' = [q \in Queues |-> content'[q]]
    BY Parts DEF Traffic
  <1>2. ASSUME NEW q \in Queues
        PROVE  /\ content'[q] \in Nat
               /\ owed[q] = content'[q] + (IF Held(q)' THEN 1 ELSE 0)
    <2>1. Held(q)' <=> Held(q)
      BY DEF Held
    <2>2. QED
      BY <2>1, CountFacts
  <1>3. QED
    BY <1>1, <1>2, TrafficMoves

\* What the process s holds goes back.
LEMMA TrafficReturns ==
  ASSUME Inv, NEW s \in Services, content' = Requeued({s}), busy'[s] = {},
         \A d \in Services \ {s} : busy'[d] = busy[d],
         UNCHANGED <<topology, events, ready, misrouted, owed>>, Fault \/ UNCHANGED faults
  PROVE  Traffic'
  <1>1. content' = [q \in Queues |-> content'[q]]
    BY RequeuedFacts
  <1>2. ASSUME NEW q \in Queues
        PROVE  /\ content'[q] \in Nat
               /\ owed[q] = content'[q] + (IF Held(q)' THEN 1 ELSE 0)
    <2>1. Held(q)' <=> \E d \in Services \ {s} : q \in busy[d]
      BY DEF Held
    <2>2. QED
      BY <2>1, RequeuedFacts
  <1>3. ready' \subseteq Services /\ durable' = durable
    BY Parts DEF Traffic, topology
  <1>4. QED
    BY <1>1, <1>2, <1>3, TrafficMoves

\* s gives back some of the messages that it holds.
LEMMA TrafficGivenBack ==
  ASSUME Inv, NEW s \in Services, NEW N \in SUBSET busy[s], GivesBack(s, N),
         UNCHANGED <<topology, events, ready, misrouted, owed>>, Fault \/ UNCHANGED faults
  PROVE  /\ Traffic' /\ busy' \in [Services -> SUBSET Queues] /\ busy'[s] = busy[s] \ N
         /\ \A d \in Services \ {s} : busy'[d] = busy[d]
  <1>1. /\ content' = [q \in Queues |-> IF q \in N THEN content[q] + 1 ELSE content[q]]
        /\ busy' = [busy EXCEPT ![s] = @ \ N] /\ busy \in [Services -> SUBSET Queues]
    BY Parts DEF GivesBack, Kept, Shape
  <1>2. /\ busy' \in [Services -> SUBSET Queues] /\ busy'[s] = busy[s] \ N
        /\ \A d \in Services \ {s} : busy'[d] = busy[d]
    BY <1>1
  <1>3. content' = [q \in Queues |-> content'[q]]
    BY <1>1
  <1>4. ASSUME NEW q \in Queues
        PROVE  /\ content'[q] \in Nat
               /\ owed[q] = content'[q] + (IF Held(q)' THEN 1 ELSE 0)
    <2>1. /\ content[q] \in Nat /\ owed[q] = content[q] + (IF Held(q) THEN 1 ELSE 0)
          /\ \A d, t \in Services : (q \in busy[d] /\ q \in busy[t]) => d = t
      BY CountFacts
    <2>2. CASE q \in N
      <3>1. content'[q] = content[q] + 1 /\ Held(q) /\ ~Held(q)'
        BY <1>1, <1>2, <2>1, <2>2 DEF Held
      <3>2. QED
        BY <2>1, <3>1
    <2>3. CASE q \notin N
      <3>1. content'[q] = content[q] /\ (Held(q)' <=> Held(q))
        BY <1>1, <1>2, <2>3 DEF Held
      <3>2. QED
        BY <2>1, <3>1
    <2>4. QED
      BY <2>2, <2>3
  <1>5. ready' \subseteq Services /\ durable' = durable
    BY Parts DEF Traffic, topology
  <1>6. QED
    BY <1>2, <1>3, <1>4, <1>5, TrafficMoves

\* An event is published: a verdict finds the binding of its queue, and a queue
\* that gets the event is durable.
LEMMA TrafficPublished ==
  ASSUME Inv, NEW k \in Keys, Publish(k), UNCHANGED <<busy, faults, topology, ready>>
  PROVE  Traffic'
  <1>1. Traffic /\ Broker
    BY Parts
  <1>2. events' = events + 1 /\ events' \in 0 .. MaxEvents /\ durable' = durable
    BY <1>1, LifecycleAssumption DEF Publish, Traffic, topology
  <1>3. \A q \in Queues : Held(q)' <=> Held(q)
    BY DEF Held
  <1>4. CASE <<Published, k>> \in bindings
    <2>1. k \in Queues /\ k \in durable
      BY <1>1, <1>4 DEF Broker, BoundLast
    <2>2. /\ content' = [content EXCEPT ![k] = @ + 1] /\ owed' = [owed EXCEPT ![k] = @ + 1]
          /\ UNCHANGED misrouted
      BY <1>4 DEF Publish
    <2>3. content \in [Queues -> 0 .. MaxEvents] /\ owed \in [Queues -> 0 .. MaxEvents]
      BY <1>1 DEF Traffic
    <2>4. /\ content' = [q \in Queues |-> content'[q]] /\ owed' = [q \in Queues |-> owed'[q]]
          /\ content'[k] = content[k] + 1 /\ owed'[k] = owed[k] + 1
          /\ \A q \in Queues \ {k} : content'[q] = content[q] /\ owed'[q] = owed[q]
      BY <2>1, <2>2, <2>3
    <2>5. ASSUME NEW q \in Queues
          PROVE  /\ content'[q] \in 0 .. MaxEvents /\ owed'[q] \in 0 .. MaxEvents
                 /\ owed'[q] = content'[q] + (IF Held(q)' THEN 1 ELSE 0)
                 /\ owed'[q] <= events' /\ (owed'[q] > 0 => q \in durable')
      <3>1. /\ content[q] \in Nat /\ owed[q] \in Nat /\ events \in Nat /\ MaxEvents \in Nat
            /\ owed[q] = content[q] + (IF Held(q) THEN 1 ELSE 0) /\ owed[q] <= events
        BY CountFacts
      <3>2. owed[q] > 0 => q \in durable
        BY <1>1 DEF Traffic, Counted
      <3>3. CASE q = k
        BY <1>2, <1>3, <2>1, <2>4, <3>1, <3>3
      <3>4. CASE q # k
        BY <1>2, <1>3, <2>4, <3>1, <3>2, <3>4
      <3>5. QED
        BY <3>3, <3>4
    <2>6. content' \in [Queues -> 0 .. MaxEvents] /\ owed' \in [Queues -> 0 .. MaxEvents]
      BY <2>4, <2>5
    <2>7. Counted'
      BY <2>5 DEF Counted
    <2>8. QED
      BY <1>1, <1>2, <2>2, <2>6, <2>7 DEF Traffic, VerdictRouted
  <1>5. CASE <<Published, k>> \notin bindings
    <2>1. /\ misrouted' = misrouted \cup {key \in {k} : \E s \in ready : k \in QueuesOf[s]}
          /\ UNCHANGED <<content, owed>>
      BY <1>5 DEF Publish
    <2>2. k \in QueuesOf["order"] => "order" \notin ready
      BY <1>1, <1>5 DEF Broker, Routed
    <2>3. k \in QueuesOf["order"] => ~\E s \in ready : k \in QueuesOf[s]
      <3>1. ready \subseteq Names /\ "order" \in Names
        BY <1>1, ServiceNames DEF Traffic, Names
      <3>2. QED
        BY <2>2, <3>1, QueueFacts
    <2>4. VerdictRouted'
      BY <1>1, <2>1, <2>3 DEF Traffic, VerdictRouted
    <2>5. misrouted' \subseteq Keys
      BY <1>1, <2>1 DEF Traffic
    <2>6. ASSUME NEW q \in Queues
          PROVE  /\ owed'[q] = content'[q] + (IF Held(q)' THEN 1 ELSE 0)
                 /\ owed'[q] <= events' /\ (owed'[q] > 0 => q \in durable')
      <3>1. owed[q] > 0 => q \in durable
        BY <1>1 DEF Traffic, Counted
      <3>2. QED
        BY <1>2, <1>3, <2>1, <3>1, CountFacts
    <2>7. Counted'
      BY <2>6 DEF Counted
    <2>8. QED
      BY <1>1, <1>2, <2>1, <2>4, <2>5, <2>7 DEF Traffic
  <1>6. QED
    BY <1>4, <1>5

\* A service declares its queues and binds them.
LEMMA BrokerBinds ==
  ASSUME Inv, NEW s \in Services, NEW x \in {Published, OrderEvents},
         exchanges \subseteq exchanges', exchanges' \subseteq {Published, OrderEvents},
         s = "order" => x = Published /\ Published \in exchanges', BindQueue(s, x)
  PROVE  Broker' /\ ready' \subseteq Services /\ durable \subseteq durable'
  <1>1. Broker /\ Traffic
    BY Parts
  <1>2. /\ queues' = queues \cup QueuesOf[s]
        /\ durable' = durable \cup exchanges' \cup QueuesOf[s]
        /\ bindings' = bindings \cup ({x} \X QueuesOf[s])
        /\ ready' = ready \cup {s}
    BY DEF BindQueue, QueueDeclare
  <1>3. QueuesOf[s] \subseteq Queues
    BY QueueFacts
  <1>4. /\ queues' \subseteq Queues /\ durable' \subseteq {Published, OrderEvents} \cup Queues
        /\ bindings' \subseteq {Published, OrderEvents} \X Queues
        /\ ready' \subseteq Services
    BY <1>1, <1>2, <1>3 DEF Broker, Traffic
  <1>5. Routed'
    <2>1. CASE s = "order"
      BY <1>2, <2>1 DEF Routed
    <2>2. CASE s # "order"
      BY <1>1, <1>2, <2>2 DEF Broker, Routed
    <2>3. QED
      BY <2>1, <2>2
  <1>6. BoundLast'
    BY <1>1, <1>2 DEF Broker, BoundLast
  <1>7. QED
    BY <1>2, <1>4, <1>5, <1>6 DEF Broker

-----------------------------------------------------------------------------
(* Starting *)

\* What the proofs of the steps know of the process s.
LEMMA ProcFacts ==
  ASSUME Inv, NEW s \in Services
  PROVE  /\ Kept /\ Proc(s) /\ Standing(s)
         /\ pos[s] \in Nat /\ pos[s] <= Len(Hooks[s])
         /\ Len(Hooks[s]) \in Nat /\ Len(Hooks[s]) >= 1
         /\ open[s] \subseteq All(s) /\ All(s) \subseteq Resources
         /\ QueuesOf[s] \subseteq Queues
  <1>1. Kept /\ Proc(s)
    BY Parts
  <1>2. All(s) \subseteq Resources
    <2>1. 0 \in Nat
      OBVIOUS
    <2>2. QED
      BY <2>1, BeforeFacts
  <1>3. QED
    BY <1>1, <1>2, HookFacts, QueueFacts DEF Proc

\* However a process ends, nothing is left of it.
LEMMA ExitKeeps ==
  ASSUME Inv, NEW s \in Services, Exit(s), Fault \/ UNCHANGED faults
  PROVE  Inv'
  <1>1. Kept
    BY ProcFacts
  <1>2. Kept'
    BY <1>1 DEF Exit, Kept, Shape, Phases
  <1>3. /\ phase'[s] = "down" /\ pos'[s] = 0 /\ open'[s] = {} /\ ~rpc'[s]
        /\ subscribed'[s] = {} /\ busy'[s] = {} /\ handled'[s] = {}
    BY <1>1 DEF Exit, Kept, Shape
  <1>4. Only(s)
    BY <1>1 DEF Exit, Kept, Shape, Only
  <1>5. Proc(s)'
    BY <1>3, HookFacts DEF Proc, Standing
  <1>6. Broker'
    BY BrokerStays DEF Exit
  <1>7. Traffic'
    <2>1. /\ content' = Requeued({s}) /\ UNCHANGED <<topology, events, ready, misrouted, owed>>
          /\ \A d \in Services \ {s} : busy'[d] = busy[d]
      BY <1>4 DEF Exit, Only
    <2>2. QED
      BY <1>3, <2>1, TrafficReturns
  <1>8. QED
    BY <1>2, <1>4, <1>5, <1>6, <1>7, Together

\* A process starts with nothing.
LEMMA LaunchKeeps == ASSUME Inv, NEW s \in Services, Launch(s) PROVE Inv'
  <1>1. Kept /\ Proc(s)
    BY ProcFacts
  <1>2. /\ phase[s] = "down" /\ phase' = [phase EXCEPT ![s] = "building"]
        /\ pos' = [pos EXCEPT ![s] = 1]
        /\ UNCHANGED <<open, link, rpc, subscribed, loop, busy, handled, topology, content, events,
                       faults, ready, misrouted, owed>>
    BY DEF Launch
  <1>3. phase'[s] = "building" /\ pos'[s] = 1 /\ Kept' /\ Only(s)
    BY <1>1, <1>2 DEF Kept, Shape, Phases, Only
  <1>4. Before(s, pos'[s] - 1) = {}
    <2>1. pos'[s] - 1 = 0 /\ 0 \in Nat
      BY <1>3
    <2>2. QED
      BY <2>1, BeforeFacts
  <1>5. Proc(s)'
    <2>1. open'[s] = Before(s, pos'[s] - 1) /\ ~rpc'[s] /\ pos'[s] >= 1
      <3>1. open[s] = {} /\ ~rpc[s]
        BY <1>2, ProcFacts DEF Standing
      <3>2. open' = open /\ rpc' = rpc
        BY <1>2
      <3>3. QED
        BY <1>3, <1>4, <3>1, <3>2
    <2>2. Standing(s)'
      BY <1>3, <2>1 DEF Standing
    <2>3. pos'[s] \in 0 .. Len(Hooks[s])
      BY <1>3, HookFacts
    <2>4. QED
      BY <1>1, <1>2, <2>2, <2>3 DEF Proc
  <1>6. Broker' /\ Traffic'
    <2>1. ready' \subseteq Services /\ durable \subseteq durable'
      BY <1>2, Parts DEF Traffic, topology
    <2>2. QED
      BY <1>2, <2>1, BrokerStays, TrafficStays
  <1>7. QED
    BY <1>3, <1>5, <1>6, Together

\* The next hook, or the next phase.
LEMMA AdvanceFacts ==
  ASSUME Inv, NEW s \in Services, NEW next \in {"starting", "up"}, Advance(s, next),
         pos[s] >= 1
  PROVE  /\ phase' \in [Services -> Phases] /\ pos' \in [Services -> Nat]
         /\ \A d \in Services \ {s} : phase'[d] = phase[d] /\ pos'[d] = pos[d]
         /\ pos'[s] \in 1 .. Len(Hooks[s])
         /\ \/ /\ pos[s] < Len(Hooks[s]) /\ pos'[s] = pos[s] + 1 /\ phase'[s] = phase[s]
            \/ /\ pos[s] = Len(Hooks[s]) /\ phase'[s] = next
               /\ next = "up" => pos'[s] = Len(Hooks[s])
  <1>1. /\ phase \in [Services -> Phases] /\ pos \in [Services -> Nat]
        /\ pos[s] \in Nat /\ pos[s] <= Len(Hooks[s])
        /\ Len(Hooks[s]) \in Nat /\ Len(Hooks[s]) >= 1
    BY ProcFacts DEF Kept, Shape
  <1>2. CASE pos[s] < Len(Hooks[s])
    <2>1. pos' = [pos EXCEPT ![s] = pos[s] + 1] /\ UNCHANGED phase
      BY <1>2 DEF Advance
    <2>2. QED
      BY <1>1, <1>2, <2>1
  <1>3. CASE pos[s] = Len(Hooks[s])
    <2>1. PICK n \in {1, pos[s]} : pos' = [pos EXCEPT ![s] = n] /\ (next = "up" => n = pos[s])
      BY <1>1, <1>3 DEF Advance
    <2>2. phase' = [phase EXCEPT ![s] = next]
      BY <1>1, <1>3 DEF Advance
    <2>3. n \in Nat /\ n >= 1 /\ n <= Len(Hooks[s])
      BY <1>1, <1>3, <2>1
    <2>4. pos' \in [Services -> Nat] /\ pos'[s] = n /\ \A d \in Services \ {s} : pos'[d] = pos[d]
      BY <1>1, <2>1, <2>3
    <2>5. /\ phase' \in [Services -> Phases] /\ phase'[s] = next
          /\ \A d \in Services \ {s} : phase'[d] = phase[d]
      BY <1>1, <2>2 DEF Phases
    <2>6. QED
      BY <1>3, <2>1, <2>3, <2>4, <2>5
  <1>4. QED
    BY <1>1, <1>2, <1>3

\* A constructor acquires what its hook is about.
LEMMA ConstructKeeps == ASSUME Inv, NEW s \in Services, Construct(s) PROVE Inv'
  <1>1. /\ Kept /\ Proc(s) /\ Standing(s)
        /\ pos[s] \in Nat /\ pos[s] <= Len(Hooks[s])
        /\ Len(Hooks[s]) \in Nat /\ Len(Hooks[s]) >= 1
        /\ open[s] \subseteq All(s) /\ All(s) \subseteq Resources
    BY ProcFacts
  <1>2. phase[s] = "building" /\ Advance(s, "starting")
    BY DEF Construct
  <1>3. pos[s] >= 1 /\ open[s] = Before(s, pos[s] - 1) /\ ~rpc[s]
    BY <1>1, <1>2 DEF Standing
  <1>4. UNCHANGED <<rpc, subscribed, loop, busy, handled, content, events, faults, misrouted, owed>>
    BY DEF Construct
  <1>5. /\ phase' \in [Services -> Phases] /\ pos' \in [Services -> Nat]
        /\ \A d \in Services \ {s} : phase'[d] = phase[d] /\ pos'[d] = pos[d]
        /\ pos'[s] \in 1 .. Len(Hooks[s])
        /\ \/ pos[s] < Len(Hooks[s]) /\ pos'[s] = pos[s] + 1 /\ phase'[s] = "building"
           \/ pos[s] = Len(Hooks[s]) /\ phase'[s] = "starting"
    BY <1>2, <1>3, AdvanceFacts
  <1>6. Before(s, pos[s]) = open[s] \cup {Hook(s)} /\ Before(s, pos[s]) \subseteq All(s)
    BY <1>1, <1>3, BeforeFacts DEF Hook
  <1>7. /\ open' \in [Services -> SUBSET Resources] /\ open'[s] = Before(s, pos[s])
        /\ \A d \in Services \ {s} : open'[d] = open[d]
    <2>1. PICK o \in SUBSET Resources : o = Before(s, pos[s])
      BY <1>1, <1>6
    <2>2. open' = [open EXCEPT ![s] = o]
      BY <1>6, <2>1 DEF Construct
    <2>3. open \in [Services -> SUBSET Resources]
      BY <1>1 DEF Kept, Shape
    <2>4. QED
      BY <2>1, <2>2, <2>3
  <1>8. link' \in [Services -> BOOLEAN]
    <2>1. PICK v \in BOOLEAN : v = (link[s] \/ Hook(s) = "rabbit")
      OBVIOUS
    <2>2. link' = [link EXCEPT ![s] = v]
      BY <2>1 DEF Construct
    <2>3. QED
      BY <1>1, <2>1, <2>2 DEF Kept
  <1>9. Kept' /\ Only(s)
    BY <1>1, <1>4, <1>5, <1>7, <1>8 DEF Kept, Shape, Only
  <1>10. Proc(s)'
    <2>1. CASE pos'[s] = pos[s] + 1 /\ phase'[s] = "building"
      <3>1. open'[s] = Before(s, pos'[s] - 1)
        <4>1. pos'[s] - 1 = pos[s]
          BY <1>1, <2>1
        <4>2. QED
          BY <1>7, <4>1
      <3>2. Standing(s)'
        BY <1>3, <1>4, <1>5, <2>1, <3>1 DEF Standing
      <3>3. QED
        BY <1>1, <1>4, <1>5, <1>6, <1>7, <3>2 DEF Proc
    <2>2. CASE pos[s] = Len(Hooks[s]) /\ phase'[s] = "starting"
      <3>1. open'[s] = All(s)
        BY <1>7, <2>2 DEF All
      <3>2. Standing(s)'
        BY <1>3, <1>4, <1>5, <2>2, <3>1 DEF Standing
      <3>3. QED
        BY <1>1, <1>4, <1>5, <1>6, <1>7, <3>2 DEF Proc
    <2>3. QED
      BY <1>5, <2>1, <2>2
  <1>11. Broker' /\ ready' \subseteq Services /\ durable \subseteq durable'
    <2>0. Broker /\ Traffic
      BY Parts
    <2>1. CASE UNCHANGED <<topology, ready>>
      BY <2>0, <2>1, BrokerStays DEF Traffic, topology
    <2>2. CASE ExchangeDeclare(Published) /\ s = "order" /\ BindQueue(s, Published)
      <3>1. exchanges' = exchanges \cup {Published} /\ exchanges \subseteq {Published, OrderEvents}
        BY <2>0, <2>2 DEF ExchangeDeclare, Broker
      <3>2. QED
        BY <2>2, <3>1, BrokerBinds
    <2>3. CASE ExchangeDeclare(Published) /\ QueueDeclare({}) /\ UNCHANGED <<bindings, ready>>
      <3>1. /\ exchanges' = exchanges \cup {Published} /\ queues' = queues
            /\ durable' = durable \cup exchanges'
        BY <2>3 DEF ExchangeDeclare, QueueDeclare
      <3>2. Routed'
        BY <2>0, <2>3, <3>1 DEF Broker, Routed
      <3>3. BoundLast'
        BY <2>0, <2>3, <3>1 DEF Broker, BoundLast
      <3>4. QED
        BY <2>0, <2>3, <3>1, <3>2, <3>3 DEF Broker, Traffic
    <2>4. QED
      BY <2>1, <2>2, <2>3 DEF Construct
  <1>12. Traffic'
    BY <1>4, <1>11, TrafficStays
  <1>13. QED
    BY <1>9, <1>10, <1>11, <1>12, Together

\* A process whose constructor fails ends.
LEMMA ConstructFailsKeeps == ASSUME Inv, NEW s \in Services, ConstructFails(s) PROVE Inv'
  BY ExitKeeps DEF ConstructFails

\* The product service binds its queues; the others consume what there is.
LEMMA StartHookKeeps == ASSUME Inv, NEW s \in Services, StartHook(s) PROVE Inv'
  <1>1. /\ Kept /\ Proc(s) /\ Standing(s)
        /\ pos[s] \in Nat /\ pos[s] <= Len(Hooks[s])
        /\ Len(Hooks[s]) \in Nat /\ QueuesOf[s] \subseteq Queues
    BY ProcFacts
  <1>2. phase[s] = "starting" /\ Advance(s, "up")
    BY DEF StartHook
  <1>3. pos[s] >= 1 /\ open[s] = All(s) /\ ~rpc[s]
    BY <1>1, <1>2 DEF Standing
  <1>4. UNCHANGED <<open, link, rpc, busy, handled, content, events, faults, misrouted, owed>>
    BY DEF StartHook
  <1>5. /\ phase' \in [Services -> Phases] /\ pos' \in [Services -> Nat]
        /\ \A d \in Services \ {s} : phase'[d] = phase[d] /\ pos'[d] = pos[d]
        /\ pos'[s] \in 1 .. Len(Hooks[s])
        /\ \/ phase'[s] = "starting"
           \/ phase'[s] = "up" /\ pos'[s] = Len(Hooks[s])
    BY <1>2, <1>3, AdvanceFacts
  <1>6. /\ subscribed' \in [Services -> SUBSET Queues] /\ subscribed'[s] \subseteq QueuesOf[s]
        /\ \A d \in Services \ {s} : subscribed'[d] = subscribed[d]
        /\ loop' \in [Services -> BOOLEAN]
    <2>0. /\ subscribed \in [Services -> SUBSET Queues] /\ subscribed[s] \subseteq QueuesOf[s]
          /\ loop \in [Services -> BOOLEAN]
      BY <1>1 DEF Kept, Shape, Proc
    <2>1. CASE UNCHANGED <<subscribed, loop>>
      BY <2>0, <2>1
    <2>2. CASE Hook(s) = "messaging"
      <3>1. PICK S \in SUBSET QueuesOf[s] : subscribed' = [subscribed EXCEPT ![s] = S]
        BY <2>2 DEF StartHook
      <3>2. PICK v \in BOOLEAN : v = (subscribed'[s] # {})
        OBVIOUS
      <3>3. loop' = [loop EXCEPT ![s] = v]
        BY <2>2, <3>2 DEF StartHook
      <3>4. loop' \in [Services -> BOOLEAN]
        BY <2>0, <3>2, <3>3
      <3>5. S \in SUBSET Queues
        BY <1>1, <3>1
      <3>6. QED
        BY <2>0, <3>1, <3>4, <3>5
    <2>3. QED
      BY <2>1, <2>2 DEF StartHook
  <1>7. Kept' /\ Only(s)
    BY <1>1, <1>4, <1>5, <1>6 DEF Kept, Shape, Only
  <1>8. Proc(s)'
    <2>1. open'[s] = All(s) /\ ~rpc'[s] /\ pos'[s] >= 1 /\ pos'[s] \in 0 .. Len(Hooks[s])
      BY <1>1, <1>3, <1>4, <1>5
    <2>2. Standing(s)'
      BY <1>5, <2>1 DEF Standing
    <2>3. QED
      BY <1>1, <1>4, <1>6, <2>1, <2>2 DEF Proc
  <1>9. Broker' /\ ready' \subseteq Services /\ durable \subseteq durable'
    <2>0. Broker /\ Traffic
      BY Parts
    <2>1. CASE UNCHANGED <<topology, ready>>
      BY <2>0, <2>1, BrokerStays DEF Traffic, topology
    <2>2. CASE s = "product" /\ UNCHANGED exchanges /\ BindQueue(s, OrderEvents)
      <3>1. exchanges' = exchanges /\ exchanges \subseteq {Published, OrderEvents} /\ s # "order"
        BY <2>0, <2>2 DEF Broker
      <3>2. QED
        BY <2>2, <3>1, BrokerBinds
    <2>3. QED
      BY <2>1, <2>2 DEF StartHook
  <1>10. Traffic'
    BY <1>4, <1>9, TrafficStays
  <1>11. QED
    BY <1>7, <1>8, <1>9, <1>10, Together

\* A process begins to stop: at the server's hook if a call is in progress.
LEMMA StoppingKeeps ==
  ASSUME Inv, NEW s \in Services, NEW n \in 0 .. Len(Hooks[s]),
         phase' = [phase EXCEPT ![s] = "stopping"], pos' = [pos EXCEPT ![s] = n],
         UNCHANGED <<open, link, rpc, subscribed, loop, busy, handled, topology, content, events,
                     ready, misrouted, owed>>,
         Fault \/ UNCHANGED faults,
         rpc[s] => n = Len(Hooks[s]) /\ open[s] = All(s)
  PROVE  Inv'
  <1>1. Kept /\ Proc(s)
    BY ProcFacts
  <1>2. n \in Nat
    BY HookFacts
  <1>3. phase'[s] = "stopping" /\ pos'[s] = n /\ Kept' /\ Only(s)
    BY <1>1, <1>2 DEF Kept, Shape, Phases, Only
  <1>4. Standing(s)'
    BY <1>3 DEF Standing
  <1>5. Proc(s)'
    BY <1>1, <1>3, <1>4 DEF Proc
  <1>6. Broker'
    BY BrokerStays
  <1>7. Traffic'
    <2>1. ready' \subseteq Services /\ durable \subseteq durable'
      BY Parts DEF Traffic, topology
    <2>2. QED
      BY <2>1, TrafficStays
  <1>8. QED
    BY <1>3, <1>5, <1>6, <1>7, Together

\* A start hook fails before any call is taken.
LEMMA StartFailsKeeps == ASSUME Inv, NEW s \in Services, StartFails(s) PROVE Inv'
  <1>1. phase[s] = "starting" /\ (Fault \/ UNCHANGED faults) /\ Abort(s)
    BY DEF StartFails
  <1>2. CASE s = "api"
    BY <1>1, <1>2, ExitKeeps DEF Abort
  <1>3. CASE s # "api"
    <2>1. pos[s] >= 1 /\ ~rpc[s] /\ pos[s] \in Nat /\ pos[s] <= Len(Hooks[s]) /\ Len(Hooks[s]) \in Nat
      BY <1>1, ProcFacts DEF Standing
    <2>2. PICK n \in 0 .. Len(Hooks[s]) : n = pos[s] - 1
      BY <2>1
    <2>3. /\ phase' = [phase EXCEPT ![s] = "stopping"] /\ pos' = [pos EXCEPT ![s] = n]
          /\ UNCHANGED <<open, link, rpc, subscribed, loop, busy, handled, topology, content, events,
                         ready, misrouted, owed>>
      BY <1>1, <1>3, <2>2 DEF Abort
    <2>4. QED
      BY <1>1, <2>1, <2>3, StoppingKeeps
  <1>4. QED
    BY <1>2, <1>3

\* A signal finds a process with all it needs, at the hook of its server.
LEMMA SignalKeeps == ASSUME Inv, NEW s \in Services, Signal(s) PROVE Inv'
  <1>1. /\ phase[s] = "up" /\ phase' = [phase EXCEPT ![s] = "stopping"] /\ UNCHANGED <<pos, faults>>
        /\ UNCHANGED <<open, link, rpc, subscribed, loop, busy, handled, topology, content, events,
                       ready, misrouted, owed>>
    BY DEF Signal
  <1>2. /\ Kept /\ pos[s] \in Nat /\ pos[s] <= Len(Hooks[s]) /\ Len(Hooks[s]) \in Nat
        /\ pos[s] = Len(Hooks[s]) /\ open[s] = All(s)
    BY <1>1, ProcFacts DEF Standing
  <1>3. PICK n \in 0 .. Len(Hooks[s]) : n = pos[s]
    BY <1>2
  <1>4. pos' = [pos EXCEPT ![s] = n]
    BY <1>1, <1>2, <1>3 DEF Kept, Shape
  <1>5. QED
    BY <1>1, <1>2, <1>3, <1>4, StoppingKeeps

-----------------------------------------------------------------------------
(* Calls and events *)

\* A step of a process that stays at its hook, and of which the broker knows
\* nothing but the messages it takes and gives.
LEMMA WorkKeeps ==
  ASSUME Inv, NEW s \in Services,
         UNCHANGED <<phase, pos, open, link, subscribed, topology, ready>>,
         rpc' \in [Services -> BOOLEAN], loop' \in [Services -> BOOLEAN],
         rpc'[s] => (phase[s] = "up" \/ rpc[s]),
         busy' \in [Services -> SUBSET Queues], handled' \in [Services -> SUBSET Queues],
         handled'[s] \subseteq busy'[s], busy'[s] \subseteq QueuesOf[s],
         \A d \in Services \ {s} : rpc'[d] = rpc[d] /\ busy'[d] = busy[d] /\ handled'[d] = handled[d],
         Traffic'
  PROVE  Inv'
  <1>1. Kept /\ Proc(s)
    BY ProcFacts
  <1>2. Kept' /\ Only(s)
    BY <1>1 DEF Kept, Shape, Only
  <1>3. Proc(s)'
    <2>1. Standing(s)'
      BY <1>1 DEF Proc, Standing
    <2>2. QED
      BY <1>1, <2>1 DEF Proc
  <1>4. Broker'
    BY BrokerStays
  <1>5. QED
    BY <1>2, <1>3, <1>4, Together

\* Where nothing is taken, given or handled.
LEMMA Holding ==
  ASSUME Inv, NEW s \in Services
  PROVE  /\ rpc \in [Services -> BOOLEAN] /\ loop \in [Services -> BOOLEAN]
         /\ busy \in [Services -> SUBSET Queues] /\ handled \in [Services -> SUBSET Queues]
         /\ handled[s] \subseteq busy[s] /\ busy[s] \subseteq QueuesOf[s]
         /\ ready \subseteq Services /\ Traffic
         /\ UNCHANGED topology => durable \subseteq durable'
  BY ProcFacts, Parts DEF Kept, Shape, Proc, Traffic, topology

\* Calls begin when all hooks have run.
LEMMA BeginCallKeeps == ASSUME Inv, NEW s \in Services, BeginCall(s) PROVE Inv'
  <1>1. /\ phase[s] = "up" /\ rpc' = [rpc EXCEPT ![s] = TRUE]
        /\ UNCHANGED <<phase, pos, open, link, subscribed, topology, ready>>
        /\ UNCHANGED <<loop, busy, handled, content, events, faults, misrouted, owed>>
    BY DEF BeginCall
  <1>2. rpc' \in [Services -> BOOLEAN] /\ \A d \in Services \ {s} : rpc'[d] = rpc[d]
    BY <1>1, Holding
  <1>3. Traffic'
    BY <1>1, Holding, TrafficStays
  <1>4. QED
    BY <1>1, <1>2, <1>3, Holding, WorkKeeps

\* A call ends, with or without an event.
LEMMA EndCallKeeps == ASSUME Inv, NEW s \in Services, EndCall(s) PROVE Inv'
  <1>1. /\ rpc' = [rpc EXCEPT ![s] = FALSE]
        /\ UNCHANGED <<phase, pos, open, link, subscribed, topology, ready>>
        /\ UNCHANGED <<loop, busy, handled, faults>>
    BY DEF EndCall
  <1>2. /\ rpc' \in [Services -> BOOLEAN] /\ ~rpc'[s]
        /\ \A d \in Services \ {s} : rpc'[d] = rpc[d]
    BY <1>1, Holding
  <1>3. Traffic'
    <2>1. CASE UNCHANGED <<content, events, misrouted, owed>>
      BY <1>1, <2>1, Holding, TrafficStays
    <2>2. CASE \E k \in Calls[s] : Publish(k)
      <3>1. PICK k \in Calls[s] : Publish(k)
        BY <2>2
      <3>2. k \in Keys
        BY <3>1, EventFacts
      <3>3. QED
        BY <1>1, <3>1, <3>2, TrafficPublished
    <2>3. QED
      BY <2>1, <2>2 DEF EndCall
  <1>4. QED
    BY <1>1, <1>2, <1>3, Holding, WorkKeeps

\* Some of what s holds goes back.
LEMMA GivesBackKeeps ==
  ASSUME Inv, NEW s \in Services, NEW N \in SUBSET (busy[s] \ handled[s]), GivesBack(s, N),
         UNCHANGED <<phase, pos, open, link, subscribed, topology, ready>>,
         UNCHANGED <<rpc, handled, events, misrouted, owed>>,
         loop' \in [Services -> BOOLEAN], Fault \/ UNCHANGED faults
  PROVE  Inv'
  <1>1. N \in SUBSET busy[s]
    OBVIOUS
  <1>2. /\ Traffic' /\ busy' \in [Services -> SUBSET Queues] /\ busy'[s] = busy[s] \ N
        /\ \A d \in Services \ {s} : busy'[d] = busy[d]
    BY <1>1, TrafficGivenBack
  <1>3. handled'[s] \subseteq busy'[s] /\ busy'[s] \subseteq QueuesOf[s]
    BY <1>2, Holding
  <1>4. QED
    BY <1>2, <1>3, Holding, WorkKeeps

\* The loops of the payment service end.
LEMMA StartContextEndsKeeps == ASSUME Inv, NEW s \in Services, StartContextEnds(s) PROVE Inv'
  <1>1. /\ loop' = [loop EXCEPT ![s] = FALSE] /\ UNCHANGED faults
        /\ UNCHANGED <<phase, pos, open, link, subscribed, topology, ready>>
        /\ UNCHANGED <<rpc, handled, events, misrouted, owed>>
        /\ \E N \in SUBSET (busy[s] \ handled[s]) : GivesBack(s, N)
    BY DEF StartContextEnds, ContextEnds
  <1>2. loop' \in [Services -> BOOLEAN]
    BY <1>1, Holding
  <1>3. PICK N \in SUBSET (busy[s] \ handled[s]) : GivesBack(s, N)
    BY <1>1
  <1>4. QED
    BY <1>1, <1>2, <1>3, GivesBackKeeps

\* The message that is delivered leaves its queue for its one consumer.
LEMMA DeliverKeeps ==
  ASSUME Inv, NEW s \in Services, NEW q \in QueuesOf[s], Deliver(s, q) PROVE Inv'
  <1>1. /\ content[q] > 0 /\ content' = [content EXCEPT ![q] = @ - 1]
        /\ q \notin busy[s] /\ busy' = [busy EXCEPT ![s] = @ \cup {q}]
        /\ UNCHANGED <<phase, pos, open, link, subscribed, topology, ready>>
        /\ UNCHANGED <<rpc, loop, handled, events, faults, misrouted, owed>>
    BY DEF Deliver
  <1>2. q \in Queues
    BY QueueFacts
  <1>3. /\ busy' \in [Services -> SUBSET Queues] /\ busy'[s] = busy[s] \cup {q}
        /\ \A d \in Services \ {s} : busy'[d] = busy[d]
    BY <1>1, <1>2, Holding
  <1>4. /\ content' = [r \in Queues |-> content'[r]] /\ content'[q] = content[q] - 1
        /\ \A r \in Queues \ {q} : content'[r] = content[r]
    BY <1>1, <1>2, Holding DEF Traffic
  <1>5. ASSUME NEW r \in Queues
        PROVE  /\ content'[r] \in Nat
               /\ owed[r] = content'[r] + (IF Held(r)' THEN 1 ELSE 0)
    <2>1. content[r] \in Nat /\ owed[r] = content[r] + (IF Held(r) THEN 1 ELSE 0)
      BY CountFacts
    <2>2. CASE r = q
      <3>1. Held(r)'
        BY <1>3, <2>2 DEF Held
      <3>2. ~Held(r)
        <4>1. \A d \in Services : busy[d] \subseteq QueuesOf[d]
          BY Parts DEF Proc
        <4>2. \A d \in Services : q \in QueuesOf[d] => d = s
          BY QueueFacts, ServiceNames
        <4>3. QED
          BY <1>1, <2>2, <4>1, <4>2 DEF Held
      <3>3. QED
        BY <1>1, <1>4, <2>1, <2>2, <3>1, <3>2
    <2>3. CASE r # q
      <3>1. Held(r)' <=> Held(r)
        BY <1>3, <2>3 DEF Held
      <3>2. QED
        BY <1>4, <2>1, <2>3, <3>1
    <2>4. QED
      BY <2>2, <2>3
  <1>6. Traffic'
    BY <1>1, <1>4, <1>5, Holding, TrafficMoves
  <1>7. QED
    BY <1>1, <1>3, <1>6, Holding, WorkKeeps

\* A message is handled while it is held.
LEMMA HandleKeeps ==
  ASSUME Inv, NEW s \in Services, NEW q \in QueuesOf[s], Handle(s, q) PROVE Inv'
  <1>1. /\ q \in busy[s] /\ handled' = [handled EXCEPT ![s] = @ \cup {q}]
        /\ UNCHANGED <<phase, pos, open, link, subscribed, topology, ready>>
        /\ UNCHANGED <<rpc, loop, busy, faults>>
    BY DEF Handle
  <1>2. q \in Queues
    BY QueueFacts
  <1>3. /\ handled' \in [Services -> SUBSET Queues] /\ handled'[s] \subseteq busy'[s]
        /\ \A d \in Services \ {s} : handled'[d] = handled[d]
    BY <1>1, <1>2, Holding
  <1>4. Traffic'
    <2>1. CASE UNCHANGED <<content, events, misrouted, owed>>
      BY <1>1, <2>1, Holding, TrafficStays
    <2>2. CASE \E k \in Emits(q) : k # None /\ Publish(k)
      <3>1. PICK k \in Emits(q) : k # None /\ Publish(k)
        BY <2>2
      <3>2. k \in Keys
        BY <1>2, <3>1, EventFacts
      <3>3. QED
        BY <1>1, <3>1, <3>2, TrafficPublished
    <2>3. QED
      BY <2>1, <2>2 DEF Handle
  <1>5. QED
    BY <1>1, <1>3, <1>4, Holding, WorkKeeps

\* A message that has been handled is given up for good.
LEMMA AckKeeps ==
  ASSUME Inv, NEW s \in Services, NEW q \in QueuesOf[s], Ack(s, q) PROVE Inv'
  <1>1. /\ busy' = [busy EXCEPT ![s] = @ \ {q}] /\ handled' = [handled EXCEPT ![s] = @ \ {q}]
        /\ q \in handled[s] /\ owed' = [owed EXCEPT ![q] = @ - 1]
        /\ UNCHANGED <<phase, pos, open, link, subscribed, topology, ready>>
        /\ UNCHANGED <<rpc, loop, content, events, faults, misrouted>>
    BY DEF Ack
  <1>2. /\ busy' \in [Services -> SUBSET Queues] /\ handled' \in [Services -> SUBSET Queues]
        /\ busy'[s] = busy[s] \ {q} /\ handled'[s] = handled[s] \ {q}
        /\ \A d \in Services \ {s} : busy'[d] = busy[d] /\ handled'[d] = handled[d]
    BY <1>1, Holding
  <1>3. q \in Queues /\ q \in busy[s]
    BY <1>1, QueueFacts, Holding
  <1>4. /\ owed' = [r \in Queues |-> owed'[r]] /\ owed'[q] = owed[q] - 1
        /\ \A r \in Queues \ {q} : owed'[r] = owed[r]
    BY <1>1, <1>3, Holding DEF Traffic
  <1>5. durable' = durable /\ events' = events /\ content' = content
    BY <1>1 DEF topology
  <1>6. ASSUME NEW r \in Queues
        PROVE  /\ owed'[r] \in 0 .. MaxEvents
               /\ owed'[r] = content'[r] + (IF Held(r)' THEN 1 ELSE 0)
               /\ owed'[r] <= events' /\ (owed'[r] > 0 => r \in durable')
    <2>1. /\ content[r] \in Nat /\ owed[r] \in Nat /\ events \in Nat /\ MaxEvents \in Nat
          /\ owed[r] = content[r] + (IF Held(r) THEN 1 ELSE 0)
          /\ owed[r] <= events /\ events <= MaxEvents
          /\ \A d, t \in Services : (r \in busy[d] /\ r \in busy[t]) => d = t
      BY CountFacts
    <2>2. owed[r] > 0 => r \in durable
      BY Holding DEF Traffic, Counted
    <2>3. CASE r = q
      <3>1. Held(r) /\ ~Held(r)'
        BY <1>2, <1>3, <2>1, <2>3 DEF Held
      <3>2. QED
        BY <1>4, <1>5, <2>1, <2>2, <2>3, <3>1
    <2>4. CASE r # q
      <3>1. Held(r)' <=> Held(r)
        BY <1>2, <2>4 DEF Held
      <3>2. QED
        BY <1>4, <1>5, <2>1, <2>2, <2>4, <3>1
    <2>5. QED
      BY <2>3, <2>4
  <1>7. Traffic'
    <2>1. Counted'
      BY <1>6 DEF Counted
    <2>2. owed' \in [Queues -> 0 .. MaxEvents]
      BY <1>4, <1>6
    <2>3. Traffic
      BY Holding
    <2>4. QED
      BY <1>1, <2>1, <2>2, <2>3 DEF Traffic, VerdictRouted
  <1>8. QED
    BY <1>1, <1>2, <1>7, Holding, WorkKeeps

\* The message goes back to its queue, and nobody else held one of that queue.
LEMMA NackKeeps ==
  ASSUME Inv, NEW s \in Services, NEW q \in QueuesOf[s], Nack(s, q) PROVE Inv'
  <1>1. /\ {q} \in SUBSET (busy[s] \ handled[s]) /\ GivesBack(s, {q})
        /\ Fault \/ UNCHANGED faults
        /\ UNCHANGED <<phase, pos, open, link, subscribed, topology, ready>>
        /\ UNCHANGED <<rpc, loop, handled, events, misrouted, owed>>
    BY DEF Nack
  <1>2. loop' \in [Services -> BOOLEAN]
    BY <1>1, Holding
  <1>3. QED
    BY <1>1, <1>2, GivesBackKeeps

-----------------------------------------------------------------------------
(* Stopping *)

\* With a call in progress the next hook would be the server's, which waits:
\* whatever is closed is closed when no call is left.
LEMMA StopHookKeeps == ASSUME Inv, NEW s \in Services, StopHook(s) PROVE Inv'
  <1>1. /\ Kept /\ Proc(s) /\ Standing(s)
        /\ pos[s] \in Nat /\ pos[s] <= Len(Hooks[s]) /\ Len(Hooks[s]) \in Nat
        /\ open[s] \subseteq All(s) /\ All(s) \subseteq Resources
    BY ProcFacts
  <1>2. /\ phase[s] = "stopping" /\ pos[s] > 0 /\ pos' = [pos EXCEPT ![s] = @ - 1]
        /\ Drained(s) /\ Closes(s, Hook(s))
        /\ UNCHANGED <<phase, rpc, topology, events, faults, ready, misrouted, owed>>
    BY DEF StopHook
  <1>3. ~rpc[s]
    <2>1. rpc[s] => Hook(s) = "server"
      BY <1>1, <1>2, HookFacts DEF Standing, Hook
    <2>2. QED
      BY <1>2, <2>1 DEF Drained
  <1>4. PICK h \in Resources : h = Hook(s)
    BY <1>1, <1>2, HookFacts DEF Hook
  <1>5. Closes(s, h)
    BY <1>2, <1>4
  <1>6. /\ pos' \in [Services -> Nat] /\ pos'[s] \in 0 .. Len(Hooks[s])
        /\ \A d \in Services \ {s} : pos'[d] = pos[d]
    <2>1. PICK n \in Nat : n = pos[s] - 1
      BY <1>1, <1>2
    <2>2. pos \in [Services -> Nat] /\ pos' = [pos EXCEPT ![s] = n]
      BY <1>1, <1>2, <2>1 DEF Kept, Shape
    <2>3. n <= Len(Hooks[s])
      BY <1>1, <2>1
    <2>4. QED
      BY <1>1, <2>2, <2>3
  <1>7. /\ open' \in [Services -> SUBSET Resources] /\ open'[s] \subseteq All(s)
        /\ \A d \in Services \ {s} : open'[d] = open[d]
    <2>1. open \in [Services -> SUBSET Resources] /\ open' = [open EXCEPT ![s] = @ \ {h}]
      BY <1>1, <1>5 DEF Kept, Shape, Closes
    <2>2. QED
      BY <1>1, <2>1
  <1>8. link' \in [Services -> BOOLEAN] /\ loop' \in [Services -> BOOLEAN]
    <2>1. PICK v \in BOOLEAN : v = (link[s] /\ h # "rabbit")
      OBVIOUS
    <2>2. PICK w \in BOOLEAN :
            w = (loop[s] /\ h # "rabbit" /\ ~Cancels(s, h))
      OBVIOUS
    <2>3. link' = [link EXCEPT ![s] = v] /\ loop' = [loop EXCEPT ![s] = w]
      BY <1>5, <2>1, <2>2 DEF Closes
    <2>4. QED
      BY <1>1, <2>1, <2>2, <2>3 DEF Kept
  <1>9. /\ subscribed' \in [Services -> SUBSET Queues] /\ busy' \in [Services -> SUBSET Queues]
        /\ handled' \in [Services -> SUBSET Queues]
        /\ subscribed'[s] \subseteq QueuesOf[s]
        /\ handled'[s] \subseteq busy'[s] /\ busy'[s] \subseteq QueuesOf[s]
        /\ \A d \in Services \ {s} : /\ subscribed'[d] = subscribed[d] /\ busy'[d] = busy[d]
                                     /\ handled'[d] = handled[d]
        /\ Traffic'
    <2>0. /\ subscribed \in [Services -> SUBSET Queues] /\ busy \in [Services -> SUBSET Queues]
          /\ handled \in [Services -> SUBSET Queues]
          /\ subscribed[s] \subseteq QueuesOf[s]
          /\ handled[s] \subseteq busy[s] /\ busy[s] \subseteq QueuesOf[s] /\ ready \subseteq Services
      BY <1>1, Holding DEF Kept, Shape, Proc
    <2>1. CASE h = "rabbit"
      <3>1. /\ subscribed' = [subscribed EXCEPT ![s] = {}] /\ busy' = [busy EXCEPT ![s] = {}]
            /\ handled' = [handled EXCEPT ![s] = {}] /\ content' = Requeued({s})
        BY <1>5, <2>1 DEF Closes, Cancels
      <3>2. busy'[s] = {} /\ \A d \in Services \ {s} : busy'[d] = busy[d]
        BY <2>0, <3>1
      <3>3. Traffic'
        BY <1>2, <3>1, <3>2, TrafficReturns
      <3>4. QED
        BY <2>0, <3>1, <3>3
    <2>2. CASE Cancels(s, h)
      <3>1. subscribed' = subscribed /\ handled' = handled
        BY <1>5, <2>0, <2>2 DEF Closes, Cancels, ContextEnds
      <3>2. PICK N \in SUBSET (busy[s] \ handled[s]) : GivesBack(s, N)
        BY <1>5, <2>2 DEF Closes, Cancels, ContextEnds
      <3>3. /\ Traffic' /\ busy' \in [Services -> SUBSET Queues] /\ busy'[s] = busy[s] \ N
            /\ \A d \in Services \ {s} : busy'[d] = busy[d]
        <4>1. N \in SUBSET busy[s]
          BY <3>2
        <4>2. QED
          BY <1>2, <3>2, <4>1, TrafficGivenBack
      <3>4. QED
        BY <2>0, <3>1, <3>3
    <2>3. CASE h # "rabbit" /\ ~Cancels(s, h)
      <3>1. /\ subscribed' = subscribed /\ busy' = busy /\ handled' = handled
            /\ content' = content
        BY <1>5, <2>0, <2>3 DEF Closes
      <3>2. Traffic'
        BY <1>2, <2>0, <3>1, Holding, TrafficStays
      <3>3. QED
        BY <2>0, <3>1, <3>2
    <2>4. QED
      BY <2>1, <2>2, <2>3
  <1>10. Kept' /\ Only(s)
    BY <1>1, <1>2, <1>6, <1>7, <1>8, <1>9 DEF Kept, Shape, Only
  <1>11. Proc(s)'
    <2>1. phase'[s] = "stopping" /\ ~rpc'[s]
      BY <1>2, <1>3
    <2>2. Standing(s)'
      BY <2>1 DEF Standing
    <2>3. QED
      BY <1>6, <1>7, <1>9, <2>2 DEF Proc
  <1>12. Broker'
    BY <1>2, BrokerStays
  <1>13. QED
    BY <1>9, <1>10, <1>11, <1>12, Together

\* The broker has kept what is durable, the messages of durable queues included.
LEMMA BrokerRestartsKeeps == ASSUME Inv, BrokerRestarts PROVE Inv'
  <1>1. /\ Fault /\ UNCHANGED <<phase, pos, open, rpc, durable, events, ready, misrouted, owed>>
        /\ exchanges' = exchanges \cap durable /\ queues' = queues \cap durable
        /\ bindings' = {b \in bindings : b[1] \in durable /\ b[2] \in durable}
        /\ content' = [q \in Queues |-> IF q \in durable THEN Requeued(Services)[q] ELSE 0]
        /\ link' = [s \in Services |-> FALSE] /\ subscribed' = [s \in Services |-> {}]
        /\ busy' = [s \in Services |-> {}] /\ handled' = [s \in Services |-> {}]
        /\ loop' = [s \in Services |-> FALSE]
    BY DEF BrokerRestarts
  <1>2. Kept /\ (\A s \in Services : Proc(s)) /\ Broker /\ Traffic
    BY Parts
  <1>3. Kept'
    BY <1>1, <1>2 DEF Kept, Shape
  <1>4. ASSUME NEW s \in Services PROVE Proc(s)'
    BY <1>1, <1>2 DEF Proc, Standing
  <1>5. Broker'
    <2>1. Routed'
      BY <1>1, <1>2 DEF Broker, Routed
    <2>2. BoundLast'
      BY <1>1, <1>2 DEF Broker, BoundLast
    <2>3. QED
      BY <1>1, <1>2, <2>1, <2>2 DEF Broker
  <1>6. Traffic'
    <2>1. content' = [q \in Queues |-> content'[q]]
      BY <1>1
    <2>2. ASSUME NEW q \in Queues
          PROVE  /\ content'[q] \in Nat
                 /\ owed[q] = content'[q] + (IF Held(q)' THEN 1 ELSE 0)
      <3>1. ~Held(q)'
        BY <1>1 DEF Held
      <3>2. Requeued(Services)[q] \in Nat /\ owed[q] = Requeued(Services)[q]
        BY RequeuedFacts
      <3>3. owed[q] > 0 => q \in durable
        BY <1>2 DEF Traffic, Counted
      <3>4. content'[q] = IF q \in durable THEN Requeued(Services)[q] ELSE 0
        BY <1>1
      <3>5. QED
        BY <3>1, <3>2, <3>3, <3>4
    <2>3. ready' \subseteq Services /\ durable \subseteq durable'
      BY <1>1, <1>2 DEF Traffic
    <2>4. QED
      BY <1>1, <2>1, <2>2, <2>3, TrafficMoves
  <1>7. \A s \in Services : All(s)' = {Hooks[s][i] : i \in 1 .. Len(Hooks[s])}
    BY DEF All, Before
  <1>8. TypeOK'
    BY <1>3, <1>4, <1>5, <1>6, <1>7 DEF TypeOK, Kept, Proc, Broker, Traffic, Phases
  <1>9. QED
    BY <1>3, <1>4, <1>5, <1>6, <1>8 DEF Inv, Kept, Proc, Broker, Traffic

-----------------------------------------------------------------------------
(* The theorems *)

\* Nothing runs at the start, with or without definitions in the broker.
LEMMA Initially == Init => Inv
  <1> SUFFICES ASSUME Init PROVE Inv
    OBVIOUS
  <1>1. Kept
    BY DEF Init, Kept, Shape, Phases
  <1>2. ASSUME NEW s \in Services PROVE Proc(s)
    BY HookFacts DEF Init, Proc, Standing
  <1>3. Broker
    <2>1. "order.created" \in Queues
      BY DEF Queues, QueuesOf
    <2>2. Routed
      BY DEF Init, Routed
    <2>3. BoundLast
      BY DEF Init, BoundLast
    <2>4. QED
      BY <2>1, <2>2, <2>3 DEF Init, Broker
  <1>4. Traffic
    <2>1. Counted
      BY DEF Init, Counted, Held
    <2>2. QED
      BY <2>1, LifecycleAssumption DEF Init, Traffic, VerdictRouted
  <1>5. QED
    BY <1>1, <1>2, <1>3, <1>4, Parts

\* Nothing happens.
LEMMA Stutter == ASSUME Inv, UNCHANGED vars PROVE Inv'
  <1>1. UNCHANGED <<phase, pos, open, link, rpc, subscribed, loop, busy, handled>>
    BY DEF vars, process
  <1>2. /\ UNCHANGED <<topology, ready>> /\ UNCHANGED <<content, events, misrouted, faults, owed>>
        /\ UNCHANGED <<exchanges, queues, durable, bindings>>
    BY DEF vars, topology
  <1>3. QED
    BY <1>1, <1>2
       DEF Inv, TypeOK, Shape, Counted, Held, BoundLast, Routed, VerdictRouted, Standing, All, Before

\* Every step keeps the invariant.
LEMMA NextKeeps == ASSUME Inv, [Next]_vars PROVE Inv'
  <1>1. CASE BrokerRestarts
    BY <1>1, BrokerRestartsKeeps
  <1>2. ASSUME NEW s \in Services, Launch(s) \/ Construct(s) \/ ConstructFails(s) PROVE Inv'
    BY <1>2, LaunchKeeps, ConstructKeeps, ConstructFailsKeeps
  <1>3. ASSUME NEW s \in Services, StartHook(s) \/ StartFails(s) \/ StartContextEnds(s) PROVE Inv'
    BY <1>3, StartHookKeeps, StartFailsKeeps, StartContextEndsKeeps
  <1>4. ASSUME NEW s \in Services, BeginCall(s) \/ EndCall(s) PROVE Inv'
    BY <1>4, BeginCallKeeps, EndCallKeeps
  <1>5. ASSUME NEW s \in Services, NEW q \in QueuesOf[s],
               Deliver(s, q) \/ Handle(s, q) \/ Ack(s, q) \/ Nack(s, q)
        PROVE  Inv'
    BY <1>5, DeliverKeeps, HandleKeeps, AckKeeps, NackKeeps
  <1>6. ASSUME NEW s \in Services, Signal(s) \/ StopHook(s) PROVE Inv'
    BY <1>6, SignalKeeps, StopHookKeeps
  <1>7. ASSUME NEW s \in Services, Deadline(s) \/ Stopped(s) \/ Crash(s) PROVE Inv'
    BY <1>7, ExitKeeps DEF Deadline, Stopped, Crash
  <1>8. CASE UNCHANGED vars
    BY <1>8, Stutter
  <1>9. QED
    BY <1>1, <1>2, <1>3, <1>4, <1>5, <1>6, <1>7, <1>8 DEF Next

\* The inductive invariant holds throughout.
THEOREM Invariance == Spec => []Inv
  <1>1. Spec => Init /\ [][Next]_vars
    BY PTL DEF Spec
  <1>2. Inv /\ [Next]_vars => Inv'
    BY NextKeeps
  <1>3. QED
    BY <1>1, <1>2, Initially, PTL

\* The variables keep their types: at most as many messages as were published
\* are in a queue, through deliveries, nacks, exits and restarts of the broker.
THEOREM TypeCorrect == Spec => []TypeOK
  <1>1. Inv => TypeOK
    BY DEF Inv
  <1>2. QED
    BY <1>1, Invariance, PTL

\* A call in progress never finds closed what its process has acquired: the
\* order of the hooks and GracefulStop see to it, for every service.
THEOREM ResourcesOutlive == Spec => []ResourcesOutliveCalls
  <1>1. Inv => ResourcesOutliveCalls
    <2> SUFFICES ASSUME Inv, NEW s \in Services, rpc[s]
                 PROVE  open[s] = {Hooks[s][i] : i \in 1 .. Len(Hooks[s])}
      BY DEF ResourcesOutliveCalls
    <2>1. phase[s] \in Phases /\ Standing(s)
      BY ProcFacts DEF Kept
    <2>2. open[s] = All(s)
      BY <2>1 DEF Standing, Phases
    <2>3. QED
      BY <2>2 DEF All, Before
  <1>2. QED
    BY <1>1, Invariance, PTL

\* The verdict of a payment reaches the queues the order service has once set
\* up, whoever publishes it and whatever has restarted since.
THEOREM VerdictsRouted == Spec => []VerdictRouted
  <1>1. Inv => VerdictRouted
    BY DEF Inv
  <1>2. QED
    BY <1>1, Invariance, PTL

\* No event that a queue has got is lost before it was handled: auto-ack is
\* off, what fails is queued again, and queues and messages outlive the broker.
THEOREM EventsSurviveAll == Spec => []EventsSurvive
  <1>1. Inv => EventsSurvive
    <2> SUFFICES ASSUME Inv PROVE Requeued(Services) = owed
      BY DEF EventsSurvive
    <2>1. owed = [q \in Queues |-> owed[q]]
      BY Parts DEF Traffic
    <2>2. \A q \in Queues : owed[q] = Requeued(Services)[q] /\ owed[q] \in Nat
      <3>1. \A q \in Queues : Requeued(Services)[q] \in Nat /\ owed[q] = Requeued(Services)[q]
        BY RequeuedFacts
      <3>2. QED
        BY <3>1
    <2>3. Requeued(Services) = [q \in Queues |-> Requeued(Services)[q]]
      BY RequeuedFacts
    <2>4. QED
      BY <2>1, <2>2, <2>3
  <1>2. QED
    BY <1>1, Invariance, PTL

=============================================================================
