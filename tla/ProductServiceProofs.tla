------------------------ MODULE ProductServiceProofs ------------------------
(***************************************************************************)
(* Proofs about ProductService, for any set of products, events, replicas  *)
(* and callers and any number of faults.                                   *)
(***************************************************************************)
EXTENDS ProductService, StockRowProofs

\* An event of the service is one of those of the repository's statements.
LEMMA EventGood ==
    ASSUME NEW r, GoodRow(r), NEW e \in StockEvent, CanApply(r, e)
    PROVE  Follows(r, Apply(r, e))
  BY ApplyGood, QuantityAssumption DEF StockEvent

\* Creating a product, or no product at all, leaves a well-formed row.
LEMMA NewRowGood ==
    /\ GoodRow(Absent) /\ ~Absent.exists
    /\ \A n \in 0 .. MaxStock : GoodRow(NewRow(n)) /\ NewRow(n).exists
BY ServiceAssumption DEF GoodRow, Row, Absent, NewRow

\* (De)activating a product leaves its stock alone.
LEMMA SwitchGood ==
    ASSUME NEW r, GoodRow(r), NEW b \in BOOLEAN
    PROVE  Follows(r, [r EXCEPT !.active = b])
BY DEF GoodRow, Follows, Row
(***************************************************************************)
(* The inductive invariant, in parts by the state they are about: the      *)
(* tables, the cache and its readers, the broker and its consumers, who    *)
(* holds an event, and which cached rows are out of date.                  *)
(***************************************************************************)
TablesInv == /\ row \in [Product -> Row]
             /\ NoOversell
             /\ processed \subseteq EventID
             /\ effects \in [EventID -> Nat]
             /\ EventAppliedOnce

CallerKnowledge ==
    \A c \in Caller :
        /\ caller[c].pc # "idle" => caller[c].product \in Product
        /\ caller[c].pc = "fill" =>
              /\ caller[c].row.exists /\ row[caller[c].product].exists
              /\ caller[c].row.reserved <= caller[c].row.total
              /\ row[caller[c].product].total <= caller[c].row.total

CacheInv == /\ cache \in [Product -> Row]
            /\ caller \in [Caller -> CallerState]
            /\ CachedRowPlausible
            /\ CallerKnowledge

ConsumerKnowledge ==
    \A w \in Consumer :
        /\ consumer[w].pc \notin {"idle", "stopped"} => consumer[w].event \in published
        /\ consumer[w].pc = "invalidate" => consumer[w].event.id \in processed
        /\ consumer[w].pc = "ack" => consumer[w].event.id \in processed \cup corrupt

BrokerInv == /\ published \subseteq StockEvent
             /\ corrupt \subseteq EventID
             /\ ready \subseteq published
             /\ unacked \in [Replica -> SUBSET published]
             /\ open \in [Replica -> BOOLEAN]
             /\ consumer \in [Consumer -> ConsumerState]
             /\ ConsumerKnowledge
             /\ NoEventLost

\* What is unacknowledged is in the hands of its queue's consumer, a closed
\* channel holds nothing, and only published events that parse are processed.
HeldInv == /\ \A r \in Replica : \A e \in unacked[r] :
                 /\ consumer[<<r, e.kind>>].event = e
                 /\ consumer[<<r, e.kind>>].pc \notin {"idle", "stopped"}
           /\ \A w \in Consumer :
                 consumer[w].pc \notin {"idle", "stopped"} => consumer[w].event.kind = w[2]
           /\ \A r \in Replica : ~open[r] => unacked[r] = {}
           /\ \A i \in processed : i \notin corrupt /\ \E e \in published : e.id = i

FreshInv == excused \subseteq Product /\ StaleOnlyWhileOwed

Inv == /\ TablesInv /\ CacheInv /\ BrokerInv /\ HeldInv /\ FreshInv
       /\ faults \in 0 .. MaxFaults

\* How any step may change the tables, as far as readers are concerned.
TablesGrow ==
    /\ \A p \in Product : row[p].exists => row'[p].exists /\ row'[p].total <= row[p].total
    /\ processed \subseteq processed'

\* Replacing the row of one product by one that follows it.
LEMMA RowStep ==
    ASSUME TablesInv, NEW p \in Product, NEW s,
           GoodRow(s), row[p].exists => s.exists /\ s.total <= row[p].total,
           row' = [row EXCEPT ![p] = s]
    PROVE  /\ row' \in [Product -> Row]
           /\ NoOversell'
           /\ \A x \in Product : row[x].exists => row'[x].exists /\ row'[x].total <= row[x].total
BY DEF TablesInv, NoOversell, GoodRow, Row

\* Rows of the table are well formed.
LEMMA TableRows == ASSUME TablesInv, NEW p \in Product PROVE GoodRow(row[p])
BY DEF TablesInv, NoOversell, GoodRow

\* The transaction of a stock consumer keeps the tables and the inbox in step.
LEMMA CommitStep ==
    ASSUME TablesInv, NEW e \in StockEvent, CommitTx(e)
    PROVE  TablesInv' /\ TablesGrow
<1>1. e.product \in Product /\ e.id \in EventID
  BY DEF StockEvent
<1>2. Follows(row[e.product], Apply(row[e.product], e))
  BY <1>1, TableRows, EventGood DEF CommitTx
<1>3. row' = [row EXCEPT ![e.product] = Apply(row[e.product], e)]
  BY DEF CommitTx
<1>4. /\ row' \in [Product -> Row]
      /\ NoOversell'
      /\ \A x \in Product : row[x].exists => row'[x].exists /\ row'[x].total <= row[x].total
  BY <1>1, <1>2, <1>3, RowStep DEF Follows
<1>5. processed' \subseteq EventID /\ processed \subseteq processed'
  BY <1>1 DEF TablesInv, CommitTx
<1>6. effects' \in [EventID -> Nat] /\ EventAppliedOnce'
  BY <1>1 DEF TablesInv, CommitTx, EventAppliedOnce
<1>7. QED
  BY <1>4, <1>5, <1>6 DEF TablesInv, TablesGrow

\* Every step keeps the tables well formed and lets them only grow.
LEMMA TablesStep ==
    ASSUME TablesInv, BrokerInv, [Next]_vars
    PROVE  TablesInv' /\ TablesGrow
<1>1. ASSUME NEW p \in Product, CreateProduct(p)
      PROVE  TablesInv' /\ TablesGrow
  <2>1. PICK n \in 0 .. MaxStock : row' = [row EXCEPT ![p] = NewRow(n)]
    BY <1>1 DEF CreateProduct
  <2>2. GoodRow(NewRow(n)) /\ ~row[p].exists
    BY <1>1, NewRowGood DEF CreateProduct
  <2>3. QED
    BY <1>1, <2>1, <2>2, RowStep DEF CreateProduct, TablesInv, TablesGrow, EventAppliedOnce
<1>2. ASSUME NEW c \in Caller, NEW p \in Product, UpdateProduct(c, p)
      PROVE  TablesInv' /\ TablesGrow
  <2>1. PICK b \in BOOLEAN : row' = [row EXCEPT ![p].active = b]
    BY <1>2 DEF UpdateProduct
  <2>2. Follows(row[p], [row[p] EXCEPT !.active = b])
    BY SwitchGood, TableRows
  <2>3. row' = [row EXCEPT ![p] = [row[p] EXCEPT !.active = b]]
    BY <2>1
  <2>4. QED
    BY <1>2, <2>2, <2>3, RowStep
       DEF UpdateProduct, Written, TablesInv, TablesGrow, EventAppliedOnce, Follows
<1>3. ASSUME NEW c \in Caller, NEW p \in Product, DeleteProduct(c, p)
      PROVE  TablesInv' /\ TablesGrow
  <2>1. Follows(row[p], [row[p] EXCEPT !.active = FALSE])
    BY SwitchGood, TableRows
  <2>2. row' = [row EXCEPT ![p] = [row[p] EXCEPT !.active = FALSE]]
    BY <1>3 DEF DeleteProduct
  <2>3. QED
    BY <1>3, <2>1, <2>2, RowStep
       DEF DeleteProduct, Written, TablesInv, TablesGrow, EventAppliedOnce, Follows
<1>4. ASSUME NEW c \in Caller, NEW p \in Product, NEW q \in Quantity, CallReserveStock(c, p, q)
      PROVE  TablesInv' /\ TablesGrow
  <2>1. Follows(row[p], ReserveStock(row[p], q))
    BY <1>4, ReserveGood, TableRows, QuantityAssumption DEF CallReserveStock
  <2>2. QED
    BY <1>4, <2>1, RowStep
       DEF CallReserveStock, Written, TablesInv, TablesGrow, EventAppliedOnce, Follows
<1>5. ASSUME NEW c \in Caller, NEW p \in Product, NEW q \in Quantity, CallReleaseStock(c, p, q)
      PROVE  TablesInv' /\ TablesGrow
  <2>1. Follows(row[p], ReleaseStock(row[p], q))
    BY <1>5, ReleaseGood, TableRows, QuantityAssumption DEF CallReleaseStock
  <2>2. QED
    BY <1>5, <2>1, RowStep
       DEF CallReleaseStock, Written, TablesInv, TablesGrow, EventAppliedOnce, Follows
<1>6. ASSUME NEW c \in Caller, NEW p \in Product, NEW q \in Quantity, CallConfirmStock(c, p, q)
      PROVE  TablesInv' /\ TablesGrow
  <2>1. Follows(row[p], ConfirmStock(row[p], q))
    BY <1>6, ConfirmGood, TableRows, QuantityAssumption DEF CallConfirmStock
  <2>2. QED
    BY <1>6, <2>1, RowStep
       DEF CallConfirmStock, Written, TablesInv, TablesGrow, EventAppliedOnce, Follows
<1>7. ASSUME NEW w \in Consumer, ApplyEvent(w) \/ CommitAnswerLost(w)
      PROVE  TablesInv' /\ TablesGrow
  <2>1. consumer[w].event \in StockEvent
    BY <1>7 DEF ApplyEvent, CommitAnswerLost, BrokerInv, ConsumerKnowledge
  <2>2. QED
    BY <1>7, <2>1, CommitStep DEF ApplyEvent, CommitAnswerLost
<1>8. CASE UNCHANGED dbVars
  BY <1>8 DEF dbVars, TablesInv, TablesGrow, NoOversell, EventAppliedOnce, Row
<1>9. QED
  BY <1>1, <1>2, <1>3, <1>4, <1>5, <1>6, <1>7, <1>8
     DEF Next, vars, cacheVars, CallerStep, ConsumerStep, Expire, CallerInvalidates, CacheLookup,
         DatabaseRead, CacheFill, CallerDies, GetProduct, Publish, Deliver, ChannelCloses,
         Restart, SkipCorrupt, SkipProcessed, RejectEvent, TxFails, ConsumerInvalidates,
         Ack, Nack, ConsumerStops
\* Cached rows and rows in a reader's hands stay plausible while the tables
\* change under them, as long as neither the cache nor a handler moves.
LEMMA CacheUntouched ==
    ASSUME TablesInv, CacheInv, TablesInv', TablesGrow, UNCHANGED <<cache, caller>>
    PROVE  CacheInv'
<1>1. /\ cache' \in [Product -> Row]
      /\ caller' \in [Caller -> CallerState]
  BY DEF CacheInv
<1>2. \A p \in Product : row[p].total \in Nat /\ row'[p].total \in Nat /\ cache[p].total \in Nat
  BY DEF TablesInv, CacheInv, Row
<1>3. CachedRowPlausible'
  BY <1>2 DEF CacheInv, CachedRowPlausible, TablesGrow
<1>4. \A c \in Caller : caller[c].row.total \in Nat
  BY DEF CacheInv, CallerState, Row
<1>5. CallerKnowledge'
  BY <1>2, <1>4 DEF CacheInv, CallerKnowledge, TablesGrow
<1>6. QED
  BY <1>1, <1>3, <1>5 DEF CacheInv

\* The same with one entry deleted or expired.
LEMMA EntryDeleted ==
    ASSUME CacheInv, NEW p \in Product, cache' = [cache EXCEPT ![p] = Absent], UNCHANGED row
    PROVE  cache' \in [Product -> Row] /\ CachedRowPlausible'
BY NewRowGood DEF CacheInv, CachedRowPlausible, GoodRow

\* Handler c moves on and holds no row that waits to be cached.
LEMMA CallerMoves ==
    ASSUME CacheInv, TablesInv, TablesInv', TablesGrow, NEW c \in Caller, NEW s \in CallerState,
           caller' = [caller EXCEPT ![c] = s],
           s.pc # "fill", s.pc # "idle" => s.product \in Product
    PROVE  caller' \in [Caller -> CallerState] /\ CallerKnowledge'
<1>1. \A p \in Product : row[p].total \in Nat /\ row'[p].total \in Nat
  BY DEF TablesInv, Row
<1>2. \A x \in Caller : caller[x].row.total \in Nat
  BY DEF CacheInv, CallerState, Row
<1>3. \A x \in Caller : caller'[x] = IF x = c THEN s ELSE caller[x]
  BY DEF CacheInv
<1>4. QED
  BY <1>1, <1>2, <1>3 DEF CacheInv, CallerKnowledge, TablesGrow

\* The idle state of a handler is one.
LEMMA IdleCallerState == IdleCaller \in CallerState /\ IdleCaller.pc = "idle"
BY NewRowGood DEF IdleCaller, CallerState, CallerPC, GoodRow

\* A handler on product p that holds no row.
LEMMA BusyCallerState ==
    ASSUME NEW p \in Product, NEW pc \in CallerPC
    PROVE  /\ [IdleCaller EXCEPT !.pc = pc, !.product = p] \in CallerState
           /\ [IdleCaller EXCEPT !.pc = pc, !.product = p].pc = pc
           /\ [IdleCaller EXCEPT !.pc = pc, !.product = p].product = p
BY NewRowGood DEF IdleCaller, CallerState, GoodRow

\* A handler that has written to the tables.
LEMMA WriterStep ==
    ASSUME CacheInv, TablesInv, TablesInv', TablesGrow,
           NEW c \in Caller, NEW p \in Product, NEW then \in {"invalidate", "refresh"},
           Written(c, p, then)
    PROVE  CacheInv'
<1> DEFINE s == [IdleCaller EXCEPT !.pc = then, !.product = p]
<1>0. then \in CallerPC
  BY DEF CallerPC
<1>1. s \in CallerState /\ s.pc = then /\ s.product = p
  BY <1>0, BusyCallerState
<1>2. caller' = [caller EXCEPT ![c] = s] /\ UNCHANGED cache
  BY DEF Written, cacheVars
<1> HIDE DEF s
<1>3. caller' \in [Caller -> CallerState] /\ CallerKnowledge'
  BY <1>1, <1>2, CallerMoves
<1>4. \A x \in Product : row[x].total \in Nat /\ row'[x].total \in Nat /\ cache[x].total \in Nat
  BY DEF TablesInv, CacheInv, Row
<1>5. cache' \in [Product -> Row] /\ CachedRowPlausible'
  BY <1>2, <1>4 DEF CacheInv, CachedRowPlausible, TablesGrow
<1>6. QED
  BY <1>3, <1>5 DEF CacheInv

\* A step of a handler that leaves the tables alone.
LEMMA ReaderStep ==
    ASSUME CacheInv, TablesInv, TablesInv', TablesGrow, NEW c \in Caller,
           CallerStep(c) \/ CallerDies(c)
    PROVE  CacheInv'
<1>0. caller[c] \in CallerState /\ (caller[c].pc # "idle" => caller[c].product \in Product)
  BY DEF CacheInv, CallerKnowledge
<1>1. CASE CallerInvalidates(c)
  <2>1. caller[c].product \in Product /\ UNCHANGED row
    BY <1>0, <1>1 DEF CallerInvalidates, dbVars
  <2>2. cache' \in [Product -> Row] /\ CachedRowPlausible'
    BY <1>1, <2>1, EntryDeleted DEF CallerInvalidates, InvalidateProduct, CacheInv, CachedRowPlausible
  <2>3. [caller[c] EXCEPT !.pc = "get"] \in CallerState
    BY <1>0 DEF CallerState, CallerPC
  <2>4. [caller[c] EXCEPT !.pc = "get"].pc = "get"
        /\ [caller[c] EXCEPT !.pc = "get"].product = caller[c].product
    BY <1>0 DEF CallerState
  <2>5. CASE caller[c].pc = "refresh"
    <3>1. caller' = [caller EXCEPT ![c] = [caller[c] EXCEPT !.pc = "get"]]
      BY <1>1, <2>5 DEF CallerInvalidates
    <3>2. QED
      BY <2>1, <2>2, <2>3, <2>4, <3>1, CallerMoves DEF CacheInv
  <2>6. CASE caller[c].pc # "refresh"
    <3>1. caller' = [caller EXCEPT ![c] = IdleCaller]
      BY <1>1, <2>6 DEF CallerInvalidates
    <3>2. QED
      BY <2>2, <3>1, CallerMoves, IdleCallerState DEF CacheInv
  <2>7. QED
    BY <2>5, <2>6
<1>2. CASE CacheLookup(c)
  <2>1. caller[c].product \in Product /\ UNCHANGED <<row, cache>>
    BY <1>0, <1>2 DEF CacheLookup, dbVars, cacheVars
  <2>2. cache' \in [Product -> Row] /\ CachedRowPlausible'
    BY <2>1 DEF CacheInv, CachedRowPlausible
  <2>3. /\ [caller[c] EXCEPT !.pc = "read"] \in CallerState
        /\ [caller[c] EXCEPT !.pc = "read"].pc = "read"
        /\ [caller[c] EXCEPT !.pc = "read"].product = caller[c].product
    BY <1>0 DEF CallerState, CallerPC
  <2>4. \/ caller' = [caller EXCEPT ![c] = IdleCaller]
        \/ caller' = [caller EXCEPT ![c] = [caller[c] EXCEPT !.pc = "read"]]
    BY <1>2 DEF CacheLookup
  <2>5. QED
    BY <2>1, <2>2, <2>3, <2>4, CallerMoves, IdleCallerState DEF CacheInv
<1>3. CASE DatabaseRead(c)
  <2> DEFINE r == row[caller[c].product]
             s == [caller[c] EXCEPT !.pc = "fill", !.row = r]
  <2>1. caller[c].product \in Product /\ UNCHANGED <<row, cache>>
    BY <1>0, <1>3 DEF DatabaseRead, dbVars, cacheVars
  <2>2. cache' \in [Product -> Row] /\ CachedRowPlausible'
    BY <2>1 DEF CacheInv, CachedRowPlausible
  <2>3. GoodRow(r)
    BY <2>1, TableRows
  <2>4. CASE Loads(c)
    <3>1. r.exists /\ caller' = [caller EXCEPT ![c] = s]
      BY <1>3, <2>4 DEF DatabaseRead, Loads
    <3>2. s \in CallerState /\ s.pc = "fill" /\ s.row = r /\ s.product = caller[c].product
      BY <1>0, <2>3 DEF CallerState, CallerPC, GoodRow
    <3> HIDE DEF s
    <3>3. caller' \in [Caller -> CallerState]
          /\ \A x \in Caller : caller'[x] = IF x = c THEN s ELSE caller[x]
      BY <3>1, <3>2 DEF CacheInv
    <3>4. r.total \in Nat /\ r.reserved <= r.total
      BY <2>3 DEF GoodRow, Row
    <3>5. CallerKnowledge'
      BY <2>1, <3>1, <3>2, <3>3, <3>4 DEF CacheInv, CallerKnowledge
    <3>6. QED
      BY <2>2, <3>3, <3>5 DEF CacheInv
  <2>5. CASE ~Loads(c)
    <3>1. caller' = [caller EXCEPT ![c] = IdleCaller]
      BY <1>3, <2>5 DEF DatabaseRead
    <3>2. QED
      BY <2>2, <3>1, CallerMoves, IdleCallerState DEF CacheInv
  <2>6. QED
    BY <2>4, <2>5
<1>4. CASE CacheFill(c)
  <2>1. /\ caller[c].product \in Product /\ UNCHANGED row
        /\ caller' = [caller EXCEPT ![c] = IdleCaller]
    BY <1>0, <1>4 DEF CacheFill, dbVars
  <2>2. \/ UNCHANGED cache
        \/ cache' = [cache EXCEPT ![caller[c].product] = caller[c].row]
    BY <1>4 DEF CacheFill, SetProduct, cacheVars
  <2>3. /\ caller[c].row \in Row /\ row[caller[c].product].exists
        /\ caller[c].row.reserved <= caller[c].row.total
        /\ row[caller[c].product].total <= caller[c].row.total
    BY <1>0, <1>4 DEF CacheFill, CacheInv, CallerKnowledge, CallerState
  <2>4. cache' \in [Product -> Row]
    BY <2>1, <2>2, <2>3 DEF CacheInv
  <2>5. CachedRowPlausible'
    BY <2>1, <2>2, <2>3 DEF CacheInv, CachedRowPlausible
  <2>6. QED
    BY <2>1, <2>4, <2>5, CallerMoves, IdleCallerState DEF CacheInv
<1>5. CASE CallerDies(c)
  <2>1. UNCHANGED <<row, cache>> /\ caller' = [caller EXCEPT ![c] = IdleCaller]
    BY <1>5 DEF CallerDies, dbVars
  <2>2. cache' \in [Product -> Row] /\ CachedRowPlausible'
    BY <2>1 DEF CacheInv, CachedRowPlausible
  <2>3. QED
    BY <2>1, <2>2, CallerMoves, IdleCallerState DEF CacheInv
<1>6. QED
  BY <1>1, <1>2, <1>3, <1>4, <1>5 DEF CallerStep
\* Every step keeps the cache, and what readers are about to put there,
\* plausible.
LEMMA CacheStep ==
    ASSUME TablesInv, CacheInv, BrokerInv, [Next]_vars
    PROVE  CacheInv'
<1>0. TablesInv' /\ TablesGrow
  BY TablesStep
<1>1. ASSUME NEW p \in Product, CreateProduct(p) \/ Expire(p)
      PROVE  CacheInv'
  <2>1. CASE CreateProduct(p)
    BY <1>0, <2>1, CacheUntouched DEF CreateProduct, cacheVars
  <2>2. CASE Expire(p)
    <3>1. UNCHANGED <<row, caller>> /\ cache' = [cache EXCEPT ![p] = Absent]
      BY <2>2 DEF Expire, dbVars
    <3>2. QED
      BY <3>1, EntryDeleted DEF CacheInv, CallerKnowledge
  <2>3. QED
    BY <1>1, <2>1, <2>2
<1>2. ASSUME NEW c \in Caller, CallerStep(c) \/ CallerDies(c)
      PROVE  CacheInv'
  BY <1>0, <1>2, ReaderStep
<1>3. ASSUME NEW c \in Caller, NEW p \in Product, GetProduct(c, p)
      PROVE  CacheInv'
  <2>1. PICK b \in BOOLEAN :
           caller' = [caller EXCEPT ![c] =
                        [IdleCaller EXCEPT !.pc = "get", !.product = p, !.onlyActive = b]]
    BY <1>3 DEF GetProduct
  <2> DEFINE s == [IdleCaller EXCEPT !.pc = "get", !.product = p, !.onlyActive = b]
  <2>2. s \in CallerState /\ s.pc = "get" /\ s.product = p
    BY NewRowGood DEF IdleCaller, CallerState, CallerPC, GoodRow
  <2>3. cache' \in [Product -> Row] /\ CachedRowPlausible'
    BY <1>3 DEF GetProduct, dbVars, cacheVars, CacheInv, CachedRowPlausible
  <2> HIDE DEF s
  <2>4. QED
    BY <1>0, <2>1, <2>2, <2>3, CallerMoves DEF CacheInv, s
<1>4. ASSUME NEW c \in Caller, NEW p \in Product,
             \/ UpdateProduct(c, p) \/ DeleteProduct(c, p)
             \/ \E q \in Quantity : \/ CallReserveStock(c, p, q) \/ CallReleaseStock(c, p, q)
                                    \/ CallConfirmStock(c, p, q)
      PROVE  CacheInv'
  <2>1. \E then \in {"invalidate", "refresh"} : Written(c, p, then)
    BY <1>4 DEF UpdateProduct, DeleteProduct, CallReserveStock, CallReleaseStock, CallConfirmStock
  <2>2. QED
    BY <1>0, <2>1, WriterStep
<1>5. ASSUME NEW w \in Consumer, ConsumerInvalidates(w)
      PROVE  CacheInv'
  <2>1. consumer[w].event.product \in Product
    BY <1>5 DEF ConsumerInvalidates, BrokerInv, ConsumerKnowledge, StockEvent
  <2>2. UNCHANGED <<row, caller>>
    BY <1>5 DEF ConsumerInvalidates, dbVars
  <2>3. cache' \in [Product -> Row] /\ CachedRowPlausible'
    BY <1>5, <2>1, <2>2, EntryDeleted
       DEF ConsumerInvalidates, InvalidateProduct, CacheInv, CachedRowPlausible
  <2>4. QED
    BY <2>2, <2>3 DEF CacheInv, CallerKnowledge
<1>6. CASE UNCHANGED <<cache, caller>>
  BY <1>0, <1>6, CacheUntouched
<1>7. QED
  BY <1>1, <1>2, <1>3, <1>4, <1>5, <1>6
     DEF Next, vars, cacheVars, ConsumerStep, Publish, Deliver, ChannelCloses, Restart, SkipCorrupt,
         SkipProcessed, ApplyEvent, CommitAnswerLost, RejectEvent, TxFails, Ack, Nack,
         ConsumerStops

\* Consumers of replica w[1] and the type of their states.
LEMMA ConsumerFacts ==
    ASSUME BrokerInv, NEW w \in Consumer
    PROVE  /\ w[1] \in Replica /\ w[2] \in Kind
           /\ consumer[w] \in ConsumerState
           /\ consumer[w].pc \notin {"idle", "stopped"} => consumer[w].event \in published
BY DEF BrokerInv, Consumer, ConsumerKnowledge

\* Consumer w goes on to pc with the event it holds, the broker untouched.
LEMMA ConsumerGoes ==
    ASSUME BrokerInv, processed \subseteq processed', NEW w \in Consumer,
           NEW pc \in {"invalidate", "ack", "nack"},
           consumer[w].pc \notin {"idle", "stopped"}, Goto(w, pc), UNCHANGED brokerVars,
           pc = "invalidate" => consumer[w].event.id \in processed',
           pc = "ack" => consumer[w].event.id \in processed' \cup corrupt
    PROVE  BrokerInv'
<1>1. UNCHANGED <<published, corrupt, ready, unacked, open>>
  BY DEF brokerVars
<1> DEFINE s == [consumer[w] EXCEPT !.pc = pc]
<1>2. s \in ConsumerState /\ s.pc = pc /\ s.event = consumer[w].event
  BY ConsumerFacts DEF ConsumerState, ConsumerPC
<1>3. consumer' = [consumer EXCEPT ![w] = s]
  BY DEF Goto
<1> HIDE DEF s
<1>4. /\ consumer' \in [Consumer -> ConsumerState]
      /\ \A x \in Consumer : consumer'[x] = IF x = w THEN s ELSE consumer[x]
  BY <1>2, <1>3 DEF BrokerInv
<1>5. ConsumerKnowledge'
  BY <1>1, <1>2, <1>4, ConsumerFacts DEF BrokerInv, ConsumerKnowledge
<1>6. NoEventLost'
  BY <1>1 DEF BrokerInv, NoEventLost
<1>7. QED
  BY <1>1, <1>4, <1>5, <1>6 DEF BrokerInv
\* Every step keeps the broker's side: no event is lost.
LEMMA BrokerStep ==
    ASSUME TablesInv, BrokerInv, [Next]_vars
    PROVE  BrokerInv'
<1>0. processed \subseteq processed'
  BY TablesStep DEF TablesGrow
<1> USE DEF ConsumerState, ConsumerPC
<1>1. ASSUME NEW e \in StockEvent, NEW bad \in BOOLEAN, Publish(e, bad)
      PROVE  BrokerInv'
  <2>1. /\ published' = published \cup {e} /\ ready' = ready \cup {e}
        /\ corrupt \subseteq corrupt' /\ corrupt' \subseteq EventID
        /\ UNCHANGED <<processed, unacked, open, consumer>>
    BY <1>1 DEF Publish, BrokerInv, dbVars, StockEvent
  <2>2. ConsumerKnowledge'
    BY <2>1 DEF BrokerInv, ConsumerKnowledge
  <2>3. NoEventLost'
    BY <2>1 DEF BrokerInv, NoEventLost
  <2>4. QED
    BY <2>1, <2>2, <2>3 DEF BrokerInv
<1>2. ASSUME NEW w \in Consumer, NEW e \in StockEvent, Deliver(w, e)
      PROVE  BrokerInv'
  <2>1. /\ e \in ready /\ w[1] \in Replica
        /\ ready' = ready \ {e}
        /\ unacked' = [unacked EXCEPT ![w[1]] = @ \cup {e}]
        /\ consumer' = [consumer EXCEPT ![w] = [pc |-> "handle", event |-> e]]
        /\ UNCHANGED <<processed, published, corrupt, open>>
    BY <1>2, ConsumerFacts DEF Deliver, dbVars
  <2>2. /\ unacked' \in [Replica -> SUBSET published]
        /\ e \in unacked'[w[1]]
        /\ \A r \in Replica : unacked[r] \subseteq unacked'[r]
    BY <2>1 DEF BrokerInv
  <2>3. consumer' \in [Consumer -> ConsumerState] /\ ConsumerKnowledge'
    BY <2>1 DEF BrokerInv, ConsumerKnowledge
  <2>4. NoEventLost'
    BY <2>1, <2>2 DEF BrokerInv, NoEventLost
  <2>5. QED
    BY <2>1, <2>2, <2>3, <2>4 DEF BrokerInv
<1>3. ASSUME NEW r \in Replica, ChannelCloses(r) \/ Restart(r)
      PROVE  BrokerInv'
  <2>1. /\ ready' = ready \cup unacked[r]
        /\ unacked' = [unacked EXCEPT ![r] = {}]
        /\ \E b \in BOOLEAN : open' = [open EXCEPT ![r] = b]
        /\ UNCHANGED <<processed, published, corrupt>>
    BY <1>3 DEF ChannelCloses, Restart, dbVars
  <2>2. \A x \in Consumer : consumer'[x] = consumer[x] \/ consumer'[x] = IdleConsumer
    BY <1>3 DEF ChannelCloses, Restart, BrokerInv
  <2>3. consumer' \in [Consumer -> ConsumerState]
    BY <1>3 DEF ChannelCloses, Restart, BrokerInv, IdleConsumer
  <2>4. ConsumerKnowledge'
    BY <2>1, <2>2 DEF BrokerInv, ConsumerKnowledge, IdleConsumer
  <2>5. NoEventLost'
    BY <2>1 DEF BrokerInv, NoEventLost
  <2>6. QED
    BY <2>1, <2>3, <2>4, <2>5 DEF BrokerInv
<1>4. ASSUME NEW w \in Consumer, SkipCorrupt(w)
      PROVE  BrokerInv'
  BY <1>0, <1>4, ConsumerGoes DEF SkipCorrupt
<1>5. ASSUME NEW w \in Consumer, SkipProcessed(w)
      PROVE  BrokerInv'
  BY <1>0, <1>5, ConsumerGoes DEF SkipProcessed
<1>6. ASSUME NEW w \in Consumer, ApplyEvent(w)
      PROVE  BrokerInv'
  BY <1>0, <1>6, ConsumerGoes DEF ApplyEvent, CommitTx
<1>7. ASSUME NEW w \in Consumer, CommitAnswerLost(w) \/ RejectEvent(w) \/ TxFails(w)
      PROVE  BrokerInv'
  BY <1>0, <1>7, ConsumerGoes DEF CommitAnswerLost, RejectEvent, TxFails
<1>8. ASSUME NEW w \in Consumer, ConsumerInvalidates(w)
      PROVE  BrokerInv'
  <2>1. consumer[w].event.id \in processed
    BY <1>8 DEF ConsumerInvalidates, BrokerInv, ConsumerKnowledge
  <2>2. QED
    BY <1>0, <1>8, <2>1, ConsumerGoes DEF ConsumerInvalidates
<1>9. ASSUME NEW w \in Consumer, Ack(w) \/ Nack(w)
      PROVE  BrokerInv'
  <2> DEFINE e == consumer[w].event
  <2>1. /\ e \in published /\ w[1] \in Replica
        /\ unacked' = [unacked EXCEPT ![w[1]] = @ \ {e}]
        /\ consumer' = [consumer EXCEPT ![w] = IdleConsumer]
        /\ UNCHANGED <<processed, published, corrupt, open>>
    BY <1>9, ConsumerFacts DEF Ack, Nack, dbVars
  <2>2. /\ ready \subseteq ready' /\ ready' \subseteq published
        /\ e.id \in processed \cup corrupt \/ e \in ready'
    BY <1>9, <2>1 DEF Ack, Nack, BrokerInv, ConsumerKnowledge
  <2>3. /\ unacked' \in [Replica -> SUBSET published]
        /\ \A r \in Replica : unacked[r] \subseteq unacked'[r] \cup {e}
    BY <2>1 DEF BrokerInv
  <2>4. consumer' \in [Consumer -> ConsumerState] /\ ConsumerKnowledge'
    BY <2>1 DEF BrokerInv, ConsumerKnowledge, IdleConsumer
  <2> HIDE DEF e
  <2>5. NoEventLost'
    BY <2>1, <2>2, <2>3 DEF BrokerInv, NoEventLost
  <2>6. QED
    BY <2>1, <2>2, <2>3, <2>4, <2>5 DEF BrokerInv
<1>10. ASSUME NEW w \in Consumer, ConsumerStops(w)
       PROVE  BrokerInv'
  <2>1. /\ consumer' = [consumer EXCEPT ![w] = [IdleConsumer EXCEPT !.pc = "stopped"]]
        /\ UNCHANGED <<processed, published, corrupt, ready, unacked, open>>
    BY <1>10 DEF ConsumerStops, dbVars, brokerVars
  <2>2. consumer' \in [Consumer -> ConsumerState] /\ ConsumerKnowledge'
    BY <2>1 DEF BrokerInv, ConsumerKnowledge, IdleConsumer
  <2>3. QED
    BY <2>1, <2>2 DEF BrokerInv, NoEventLost
<1>11. CASE UNCHANGED <<brokerVars, consumer>>
  BY <1>0, <1>11 DEF brokerVars, BrokerInv, ConsumerKnowledge, NoEventLost
<1>12. QED
  BY <1>1, <1>2, <1>3, <1>4, <1>5, <1>6, <1>7, <1>8, <1>9, <1>10, <1>11
     DEF Next, vars, cacheVars, CallerStep, ConsumerStep, Expire, CallerInvalidates, CacheLookup,
         DatabaseRead, CacheFill, CallerDies, GetProduct, CreateProduct, UpdateProduct,
         DeleteProduct, CallReserveStock, CallReleaseStock, CallConfirmStock, Written
\* Consumer w goes on with the event it holds: still in its hands.
LEMMA HeldGoes ==
    ASSUME BrokerInv, HeldInv, NEW w \in Consumer, NEW pc \in {"invalidate", "ack", "nack"},
           Goto(w, pc), UNCHANGED unacked
    PROVE  \A r \in Replica : \A e \in unacked'[r] :
              /\ consumer'[<<r, e.kind>>].event = e
              /\ consumer'[<<r, e.kind>>].pc \notin {"idle", "stopped"}
<1>1. SUFFICES ASSUME NEW r \in Replica, NEW e \in unacked[r]
               PROVE  /\ consumer'[<<r, e.kind>>].event = e
                      /\ consumer'[<<r, e.kind>>].pc \notin {"idle", "stopped"}
  OBVIOUS
<1>2. consumer[<<r, e.kind>>].event = e /\ consumer[<<r, e.kind>>].pc \notin {"idle", "stopped"}
  BY DEF HeldInv
<1>3. e \in StockEvent
  BY DEF BrokerInv
<1>4. <<r, e.kind>> \in Consumer
  BY <1>3 DEF Consumer, StockEvent
<1>5. CASE <<r, e.kind>> = w
  <2>1. consumer'[w] = [consumer[w] EXCEPT !.pc = pc] /\ consumer[w] \in ConsumerState
    BY DEF Goto, BrokerInv
  <2>2. consumer'[w].event = consumer[w].event /\ consumer'[w].pc = pc
    BY <2>1 DEF ConsumerState
  <2>3. QED
    BY <1>2, <1>5, <2>2
<1>6. CASE <<r, e.kind>> # w
  BY <1>2, <1>4, <1>6 DEF Goto, BrokerInv
<1>7. QED
  BY <1>5, <1>6

\* Who holds what, through every step.
LEMMA HeldStep ==
    ASSUME TablesInv, BrokerInv, HeldInv, [Next]_vars
    PROVE  HeldInv'
<1> DEFINE Hands == \A r \in Replica : \A e \in unacked[r] :
                       /\ consumer[<<r, e.kind>>].event = e
                       /\ consumer[<<r, e.kind>>].pc \notin {"idle", "stopped"}
           Kinds == \A w \in Consumer :
                       consumer[w].pc \notin {"idle", "stopped"} => consumer[w].event.kind = w[2]
           Closed == \A r \in Replica : ~open[r] => unacked[r] = {}
           Parsed == \A i \in processed : i \notin corrupt /\ \E e \in published : e.id = i
<1>0. /\ Hands /\ Kinds /\ Closed /\ Parsed
      /\ Hands' /\ Kinds' /\ Closed' /\ Parsed' => HeldInv'
  BY DEF HeldInv
<1>1. ASSUME NEW e \in StockEvent, NEW bad \in BOOLEAN, Publish(e, bad)
      PROVE  HeldInv'
  <2>1. /\ UNCHANGED <<processed, unacked, open, consumer>>
        /\ published' = published \cup {e} /\ corrupt' \subseteq corrupt \cup {e.id}
        /\ \A m \in published : m.id # e.id
    BY <1>1 DEF Publish, dbVars
  <2>2. QED
    BY <1>0, <2>1
<1>2. ASSUME NEW w \in Consumer, NEW e \in StockEvent, Deliver(w, e)
      PROVE  HeldInv'
  <2>1. /\ e.kind = w[2] /\ open[w[1]] /\ consumer[w].pc = "idle" /\ w[1] \in Replica
        /\ unacked' = [unacked EXCEPT ![w[1]] = @ \cup {e}]
        /\ consumer' = [consumer EXCEPT ![w] = [pc |-> "handle", event |-> e]]
        /\ UNCHANGED <<processed, published, corrupt, open>>
    BY <1>2, ConsumerFacts DEF Deliver, dbVars
  <2>2. w = <<w[1], e.kind>>
    BY <2>1 DEF Consumer
  <2>3. ASSUME NEW x \in Replica, NEW m \in unacked'[x]
        PROVE  /\ consumer'[<<x, m.kind>>].event = m
               /\ consumer'[<<x, m.kind>>].pc \notin {"idle", "stopped"}
    <3>1. CASE x = w[1] /\ m = e
      <4>1. consumer'[w] = [pc |-> "handle", event |-> e]
        BY <2>1 DEF BrokerInv
      <4>2. QED
        BY <2>2, <3>1, <4>1
    <3>2. CASE ~(x = w[1] /\ m = e)
      <4>1. m \in unacked[x]
        BY <2>1, <2>3, <3>2 DEF BrokerInv
      <4>2. /\ consumer[<<x, m.kind>>].event = m
            /\ consumer[<<x, m.kind>>].pc \notin {"idle", "stopped"}
        BY <1>0, <4>1
      <4>3. consumer'[<<x, m.kind>>] = consumer[<<x, m.kind>>]
        BY <2>1, <4>1, <4>2 DEF BrokerInv, Consumer, StockEvent
      <4>4. QED
        BY <4>2, <4>3
    <3>3. QED
      BY <3>1, <3>2
  <2>4. Closed' /\ Parsed'
    BY <1>0, <2>1 DEF BrokerInv
  <2>5. Hands'
    BY <2>3
  <2>6. Kinds'
    BY <1>0, <2>1 DEF BrokerInv
  <2>7. QED
    BY <1>0, <2>4, <2>5, <2>6
<1>3. ASSUME NEW r \in Replica, ChannelCloses(r) \/ Restart(r)
      PROVE  HeldInv'
  <2>1. /\ unacked' = [unacked EXCEPT ![r] = {}]
        /\ \E b \in BOOLEAN : open' = [open EXCEPT ![r] = b]
        /\ UNCHANGED <<processed, published, corrupt>>
    BY <1>3 DEF ChannelCloses, Restart, dbVars
  <2>2. \A x \in Consumer : x[1] # r => consumer'[x] = consumer[x]
    BY <1>3 DEF ChannelCloses, Restart, BrokerInv
  <2>3. Closed' /\ Parsed'
    BY <1>0, <2>1 DEF BrokerInv
  <2>4. ASSUME NEW x \in Replica, NEW e \in unacked'[x]
        PROVE  x # r /\ e \in unacked[x] /\ <<x, e.kind>> \in Consumer
    BY <2>1, <2>4 DEF BrokerInv, Consumer, StockEvent
  <2>5. ASSUME NEW x \in Replica, NEW e \in unacked'[x]
        PROVE  /\ consumer'[<<x, e.kind>>].event = e
               /\ consumer'[<<x, e.kind>>].pc \notin {"idle", "stopped"}
    <3>1. x # r /\ e \in unacked[x] /\ <<x, e.kind>> \in Consumer
      BY <2>4, <2>5
    <3>2. consumer'[<<x, e.kind>>] = consumer[<<x, e.kind>>]
      BY <2>2, <3>1
    <3>3. QED
      BY <1>0, <3>1, <3>2
  <2>6. Kinds'
    BY <1>0, <1>3 DEF ChannelCloses, Restart, BrokerInv, IdleConsumer
  <2>7. QED
    BY <1>0, <2>3, <2>5, <2>6
<1>4. ASSUME NEW w \in Consumer, NEW pc \in {"invalidate", "ack", "nack"}, Goto(w, pc),
             UNCHANGED brokerVars, consumer[w].pc \notin {"idle", "stopped"},
             \/ UNCHANGED processed
             \/ consumer[w].event \in published /\ CommitTx(consumer[w].event)
      PROVE  HeldInv'
  <2>1. UNCHANGED <<published, corrupt, unacked, open>>
    BY <1>4 DEF brokerVars
  <2>2. Hands'
    BY <1>4, <2>1, HeldGoes
  <2>3. Parsed'
    BY <1>0, <1>4, <2>1 DEF CommitTx
  <2>4. consumer'[w] = [consumer[w] EXCEPT !.pc = pc] /\ consumer[w] \in ConsumerState
    BY <1>4 DEF Goto, BrokerInv
  <2>5. consumer'[w].event = consumer[w].event
    BY <2>4 DEF ConsumerState
  <2>6. \A x \in Consumer : x # w => consumer'[x] = consumer[x]
    BY <1>4 DEF Goto, BrokerInv
  <2>7. Kinds'
    BY <1>0, <1>4, <2>5, <2>6
  <2>8. QED
    BY <1>0, <2>1, <2>2, <2>3, <2>7
<1>5. ASSUME NEW w \in Consumer, Ack(w) \/ Nack(w)
      PROVE  HeldInv'
  <2>1. /\ w[1] \in Replica
        /\ unacked' = [unacked EXCEPT ![w[1]] = @ \ {consumer[w].event}]
        /\ consumer' = [consumer EXCEPT ![w] = IdleConsumer]
        /\ UNCHANGED <<processed, published, corrupt, open>>
    BY <1>5, ConsumerFacts DEF Ack, Nack, dbVars
  <2>2. Closed' /\ Parsed'
    BY <1>0, <2>1 DEF BrokerInv
  <2>3. ASSUME NEW x \in Replica, NEW e \in unacked'[x]
        PROVE  e \in unacked[x] /\ <<x, e.kind>> \in Consumer /\ <<x, e.kind>> # w
    <3>1. e \in unacked[x] /\ (x = w[1] => e # consumer[w].event)
      BY <2>1, <2>3 DEF BrokerInv
    <3>2. <<x, e.kind>> \in Consumer
      BY <3>1 DEF BrokerInv, Consumer, StockEvent
    <3>3. consumer[<<x, e.kind>>].event = e
      BY <1>0, <3>1
    <3>4. ASSUME <<x, e.kind>> = w PROVE FALSE
      <4>1. x = w[1]
        BY <3>4
      <4>2. QED
        BY <3>1, <3>3, <3>4, <4>1
    <3>5. QED
      BY <3>1, <3>2, <3>4
  <2>4. ASSUME NEW x \in Replica, NEW e \in unacked'[x]
        PROVE  /\ consumer'[<<x, e.kind>>].event = e
               /\ consumer'[<<x, e.kind>>].pc \notin {"idle", "stopped"}
    <3>1. e \in unacked[x] /\ <<x, e.kind>> \in Consumer /\ <<x, e.kind>> # w
      BY <2>3, <2>4
    <3>2. consumer'[<<x, e.kind>>] = consumer[<<x, e.kind>>]
      BY <2>1, <3>1 DEF BrokerInv
    <3>3. QED
      BY <1>0, <3>1, <3>2
  <2>5. Kinds'
    BY <1>0, <2>1 DEF BrokerInv, IdleConsumer
  <2>6. QED
    BY <1>0, <2>2, <2>4, <2>5
<1>6. ASSUME NEW w \in Consumer, ConsumerStops(w)
      PROVE  HeldInv'
  <2>1. /\ w[1] \in Replica /\ ~open[w[1]]
        /\ consumer' = [consumer EXCEPT ![w] = [IdleConsumer EXCEPT !.pc = "stopped"]]
        /\ UNCHANGED <<processed, published, corrupt, unacked, open>>
    BY <1>6, ConsumerFacts DEF ConsumerStops, dbVars, brokerVars
  <2>2. unacked[w[1]] = {}
    BY <1>0, <2>1
  <2>3. ASSUME NEW x \in Replica, NEW e \in unacked'[x]
        PROVE  /\ consumer'[<<x, e.kind>>].event = e
               /\ consumer'[<<x, e.kind>>].pc \notin {"idle", "stopped"}
    <3>1. e \in unacked[x] /\ x # w[1]
      BY <2>1, <2>2, <2>3
    <3>2. <<x, e.kind>> \in Consumer
      BY <3>1 DEF BrokerInv, Consumer, StockEvent
    <3>3. <<x, e.kind>> # w
      BY <3>1
    <3>4. consumer'[<<x, e.kind>>] = consumer[<<x, e.kind>>]
      BY <2>1, <3>2, <3>3 DEF BrokerInv
    <3>5. QED
      BY <1>0, <3>1, <3>4
  <2>4. Kinds'
    BY <1>0, <2>1 DEF BrokerInv, IdleConsumer
  <2>5. QED
    BY <1>0, <2>1, <2>3, <2>4
<1>7. CASE UNCHANGED <<brokerVars, consumer, processed>>
  BY <1>0, <1>7 DEF brokerVars
<1>8. ASSUME NEW w \in Consumer, \/ SkipCorrupt(w) \/ SkipProcessed(w) \/ ApplyEvent(w)
                                 \/ CommitAnswerLost(w) \/ RejectEvent(w) \/ TxFails(w)
                                 \/ ConsumerInvalidates(w)
      PROVE  HeldInv'
  <2>1. /\ UNCHANGED brokerVars /\ \E pc \in {"invalidate", "ack", "nack"} : Goto(w, pc)
        /\ consumer[w].pc \notin {"idle", "stopped"}
    BY <1>8 DEF SkipCorrupt, SkipProcessed, ApplyEvent, CommitAnswerLost, RejectEvent,
                TxFails, ConsumerInvalidates
  <2>2. \/ UNCHANGED processed
        \/ consumer[w].event \in published /\ CommitTx(consumer[w].event)
    BY <1>8, ConsumerFacts
       DEF SkipCorrupt, SkipProcessed, ApplyEvent, CommitAnswerLost, RejectEvent,
           TxFails, ConsumerInvalidates, dbVars
  <2>3. QED
    BY <1>4, <2>1, <2>2
<1>9. QED
  BY <1>1, <1>2, <1>3, <1>5, <1>6, <1>7, <1>8
     DEF Next, vars, cacheVars, dbVars, CallerStep, ConsumerStep, Expire, CallerInvalidates,
         CacheLookup, DatabaseRead, CacheFill, CallerDies, GetProduct, CreateProduct,
         UpdateProduct, DeleteProduct, CallReserveStock, CallReleaseStock, CallConfirmStock,
         Written
\* The entry of p is gone, or kept stale for a reason.
Excused(p) == ~cache'[p].exists \/ p \in excused'

\* A consumer holds, unacknowledged, an event that has changed p.
Owes(w, p) == /\ consumer[w].pc \in {"handle", "invalidate", "nack"}
              /\ consumer[w].event \in unacked[w[1]]
              /\ consumer[w].event.product = p
              /\ consumer[w].event.id \in processed

\* Deleting an entry, or failing to.
LEMMA InvalidateExcuses ==
    ASSUME CacheInv, NEW p \in Product, InvalidateProduct(p)
    PROVE  Excused(p)
BY NewRowGood DEF InvalidateProduct, Excused, CacheInv

\* What an event owes to the cache stays owed until it is done, across nacks,
\* lost channels and restarts.
LEMMA EventOwedStep ==
    ASSUME TablesInv, CacheInv, BrokerInv, HeldInv, [Next]_vars,
           NEW p \in Product, OwedByEvent(p)
    PROVE  OwedByEvent(p)' \/ Excused(p)
<1>0. processed \subseteq processed'
  BY TablesStep DEF TablesGrow
<1>1. ASSUME NEW e \in ready', e \in ready, e.product = p, e.id \in processed
      PROVE  OwedByEvent(p)'
  BY <1>0, <1>1 DEF OwedByEvent
<1>2. ASSUME NEW w \in Consumer, Owes(w, p)'
      PROVE  OwedByEvent(p)'
  BY <1>2 DEF OwedByEvent, Owes
<1>3. ASSUME NEW w \in Consumer, Owes(w, p), ready \subseteq ready',
             consumer'[w] = consumer[w], unacked'[w[1]] = unacked[w[1]]
      PROVE  OwedByEvent(p)'
  BY <1>0, <1>2, <1>3 DEF Owes
<1>4. \/ \E e \in ready : e.product = p /\ e.id \in processed
      \/ \E w \in Consumer : Owes(w, p)
  BY DEF OwedByEvent, Owes
<1>5. CASE UNCHANGED <<brokerVars, consumer>>
  BY <1>1, <1>3, <1>4, <1>5 DEF brokerVars
<1>6. ASSUME NEW e \in StockEvent, NEW bad \in BOOLEAN, Publish(e, bad)
      PROVE  OwedByEvent(p)'
  BY <1>1, <1>3, <1>4, <1>6 DEF Publish
<1>7. ASSUME NEW w \in Consumer, NEW e \in StockEvent, Deliver(w, e)
      PROVE  OwedByEvent(p)'
  <2>1. /\ consumer[w].pc = "idle" /\ w[1] \in Replica
        /\ ready' = ready \ {e}
        /\ unacked' = [unacked EXCEPT ![w[1]] = @ \cup {e}]
        /\ consumer' = [consumer EXCEPT ![w] = [pc |-> "handle", event |-> e]]
    BY <1>7, ConsumerFacts DEF Deliver
  <2>2. CASE e.product = p /\ e.id \in processed
    <3>1. consumer'[w] = [pc |-> "handle", event |-> e] /\ e \in unacked'[w[1]]
      BY <2>1 DEF BrokerInv
    <3>2. Owes(w, p)'
      BY <1>0, <2>2, <3>1 DEF Owes
    <3>3. QED
      BY <1>2, <3>2
  <2>3. ASSUME NEW x \in Consumer, Owes(x, p)
        PROVE  Owes(x, p)'
    <3>1. x # w /\ x[1] \in Replica
      BY <2>1, <2>3 DEF Owes, Consumer
    <3>2. consumer'[x] = consumer[x] /\ unacked[x[1]] \subseteq unacked'[x[1]]
      BY <2>1, <3>1 DEF BrokerInv
    <3>3. QED
      BY <1>0, <2>3, <3>2 DEF Owes
  <2>4. QED
    BY <1>1, <1>2, <1>4, <2>1, <2>2, <2>3
<1>8. ASSUME NEW r \in Replica, ChannelCloses(r) \/ Restart(r)
      PROVE  OwedByEvent(p)'
  <2>1. ready' = ready \cup unacked[r] /\ unacked' = [unacked EXCEPT ![r] = {}]
    BY <1>8 DEF ChannelCloses, Restart
  <2>2. ASSUME NEW w \in Consumer, Owes(w, p)
        PROVE  OwedByEvent(p)'
    <3>1. CASE w[1] = r
      BY <1>0, <2>1, <2>2, <3>1 DEF Owes, OwedByEvent
    <3>2. CASE w[1] # r
      <4>1. consumer'[w] = consumer[w]
        BY <1>8, <3>2 DEF ChannelCloses, Restart, BrokerInv
      <4>2. unacked'[w[1]] = unacked[w[1]]
        BY <2>1, <3>2 DEF BrokerInv, Consumer
      <4>3. QED
        BY <1>3, <2>1, <2>2, <4>1, <4>2
    <3>3. QED
      BY <3>1, <3>2
  <2>3. QED
    BY <1>1, <1>4, <2>1, <2>2
<1>9. ASSUME NEW w \in Consumer, NEW pc \in {"invalidate", "ack", "nack"}, Goto(w, pc),
             UNCHANGED brokerVars, pc = "ack" /\ Owes(w, p) => Excused(p)
      PROVE  OwedByEvent(p)' \/ Excused(p)
  <2>1. UNCHANGED <<ready, unacked>>
    BY <1>9 DEF brokerVars
  <2>2. ASSUME NEW x \in Consumer, Owes(x, p)
        PROVE  OwedByEvent(p)' \/ Excused(p)
    <3>1. CASE x # w
      <4>1. consumer'[x] = consumer[x]
        BY <1>9, <3>1 DEF Goto, BrokerInv
      <4>2. QED
        BY <1>3, <2>1, <2>2, <4>1
    <3>2. CASE x = w /\ pc # "ack"
      <4>1. consumer'[w] = [consumer[w] EXCEPT !.pc = pc] /\ consumer[w] \in ConsumerState
        BY <1>9 DEF Goto, BrokerInv
      <4>2. consumer'[w].event = consumer[w].event /\ consumer'[w].pc = pc
        BY <4>1 DEF ConsumerState
      <4>3. Owes(w, p)'
        BY <1>0, <2>1, <2>2, <3>2, <4>2 DEF Owes
      <4>4. QED
        BY <1>2, <4>3
    <3>3. CASE x = w /\ pc = "ack"
      BY <1>9, <2>2, <3>3
    <3>4. QED
      BY <3>1, <3>2, <3>3
  <2>3. QED
    BY <1>1, <1>4, <2>1, <2>2
<1>10. ASSUME NEW w \in Consumer, SkipCorrupt(w)
       PROVE  OwedByEvent(p)' \/ Excused(p)
  <2>1. ~Owes(w, p)
    BY <1>10 DEF SkipCorrupt, Owes, HeldInv
  <2>2. Goto(w, "ack") /\ UNCHANGED brokerVars
    BY <1>10 DEF SkipCorrupt
  <2>3. QED
    BY <1>9, <2>1, <2>2
<1>11. ASSUME NEW w \in Consumer, \/ SkipProcessed(w) \/ ApplyEvent(w) \/ CommitAnswerLost(w)
                                  \/ RejectEvent(w) \/ TxFails(w)
       PROVE  OwedByEvent(p)' \/ Excused(p)
  <2>1. UNCHANGED brokerVars /\ \E pc \in {"invalidate", "nack"} : Goto(w, pc)
    BY <1>11 DEF SkipProcessed, ApplyEvent, CommitAnswerLost, RejectEvent, TxFails
  <2>2. QED
    BY <1>9, <2>1
<1>12. ASSUME NEW w \in Consumer, ConsumerInvalidates(w)
       PROVE  OwedByEvent(p)' \/ Excused(p)
  <2>1. Goto(w, "ack") /\ UNCHANGED brokerVars /\ InvalidateProduct(consumer[w].event.product)
    BY <1>12 DEF ConsumerInvalidates
  <2>2. Owes(w, p) => Excused(p)
    BY <2>1, InvalidateExcuses DEF Owes
  <2>3. QED
    BY <1>9, <2>1, <2>2
<1>13. ASSUME NEW w \in Consumer, Ack(w) \/ Nack(w)
       PROVE  OwedByEvent(p)'
  <2>1. /\ w[1] \in Replica /\ ready \subseteq ready'
        /\ unacked' = [unacked EXCEPT ![w[1]] = @ \ {consumer[w].event}]
        /\ consumer' = [consumer EXCEPT ![w] = IdleConsumer]
    BY <1>13, ConsumerFacts DEF Ack, Nack
  <2>2. ASSUME Owes(w, p) PROVE OwedByEvent(p)'
    BY <1>0, <1>13, <2>2 DEF Ack, Nack, Owes, OwedByEvent
  <2>3. ASSUME NEW x \in Consumer, x # w, Owes(x, p)
        PROVE  Owes(x, p)'
    <3>1. consumer'[x] = consumer[x] /\ x[1] \in Replica
      BY <2>1, <2>3 DEF BrokerInv, Consumer
    <3>2. consumer[w].pc \in {"ack", "nack"}
      BY <1>13 DEF Ack, Nack
    <3>3. consumer[x].event # consumer[w].event \/ x[1] # w[1]
      <4>1. SUFFICES ASSUME x[1] = w[1], consumer[x].event = consumer[w].event
                     PROVE  FALSE
        OBVIOUS
      <4>2. consumer[x].event.kind = x[2] /\ consumer[w].event.kind = w[2]
        BY <2>3, <3>2, ConsumerFacts DEF Owes, HeldInv
      <4>3. QED
        BY <2>3, <4>1, <4>2 DEF Consumer
    <3>4. consumer[x].event \in unacked'[x[1]]
      BY <2>1, <2>3, <3>1, <3>3 DEF Owes, BrokerInv
    <3>5. QED
      BY <1>0, <2>3, <3>1, <3>4 DEF Owes
  <2>4. QED
    BY <1>1, <1>2, <1>4, <2>1, <2>2, <2>3
<1>14. ASSUME NEW w \in Consumer, ConsumerStops(w)
       PROVE  OwedByEvent(p)'
  <2>1. /\ ~open[w[1]] /\ w[1] \in Replica
        /\ consumer' = [consumer EXCEPT ![w] = [IdleConsumer EXCEPT !.pc = "stopped"]]
        /\ UNCHANGED <<ready, unacked>>
    BY <1>14, ConsumerFacts DEF ConsumerStops, brokerVars
  <2>2. ~Owes(w, p)
    BY <2>1 DEF Owes, HeldInv
  <2>3. \A x \in Consumer : x # w => consumer'[x] = consumer[x]
    BY <2>1 DEF BrokerInv
  <2>4. QED
    BY <1>1, <1>3, <1>4, <2>1, <2>2, <2>3
<1>15. QED
  BY <1>5, <1>6, <1>7, <1>8, <1>10, <1>11, <1>12, <1>13, <1>14
     DEF Next, vars, CallerStep, ConsumerStep, Expire, CallerInvalidates, CacheLookup,
         DatabaseRead, CacheFill, CallerDies, GetProduct, CreateProduct, UpdateProduct,
         DeleteProduct, CallReserveStock, CallReleaseStock, CallConfirmStock, Written
\* A gRPC handler that has written deletes the entry, fails to, or dies.
LEMMA CallOwedStep ==
    ASSUME TablesInv, CacheInv, BrokerInv, [Next]_vars, NEW p \in Product, OwedByCall(p)
    PROVE  OwedByCall(p)' \/ Excused(p)
<1>1. PICK c \in Caller : caller[c].pc \in {"invalidate", "refresh"} /\ caller[c].product = p
  BY DEF OwedByCall
<1>2. CASE caller'[c] = caller[c]
  BY <1>1, <1>2 DEF OwedByCall
<1>3. ASSUME NEW d \in Caller, NEW x, caller' = [caller EXCEPT ![d] = x], caller[d].pc = "idle"
      PROVE  caller'[c] = caller[c]
  BY <1>1, <1>3 DEF CacheInv
<1>4. ASSUME NEW d \in Caller, NEW q \in Product,
             \/ UpdateProduct(d, q) \/ DeleteProduct(d, q) \/ GetProduct(d, q)
             \/ \E n \in Quantity : \/ CallReserveStock(d, q, n) \/ CallReleaseStock(d, q, n)
                                    \/ CallConfirmStock(d, q, n)
      PROVE  caller'[c] = caller[c]
  <2>1. caller[d].pc = "idle" /\ \E x : caller' = [caller EXCEPT ![d] = x]
    BY <1>4 DEF UpdateProduct, DeleteProduct, GetProduct, CallReserveStock, CallReleaseStock,
                CallConfirmStock, Written
  <2>2. QED
    BY <1>3, <2>1
<1>5. ASSUME NEW d \in Caller, CallerStep(d) \/ CallerDies(d)
      PROVE  caller'[c] = caller[c] \/ Excused(p)
  <2>1. CASE d # c
    BY <1>5, <2>1 DEF CacheInv, CallerStep, CallerInvalidates, CacheLookup, DatabaseRead,
                      CacheFill, CallerDies
  <2>2. CASE d = c
    <3>1. CallerInvalidates(c) \/ CallerDies(c)
      BY <1>1, <1>5, <2>2 DEF CallerStep, CacheLookup, DatabaseRead, CacheFill
    <3>2. CASE CallerInvalidates(c)
      BY <1>1, <3>2, InvalidateExcuses DEF CallerInvalidates
    <3>3. CASE CallerDies(c)
      BY <1>1, <3>3 DEF CallerDies, Excused
    <3>4. QED
      BY <3>1, <3>2, <3>3
  <2>3. QED
    BY <2>1, <2>2
<1>6. CASE UNCHANGED caller
  BY <1>2, <1>6
<1>7. QED
  BY <1>2, <1>4, <1>5, <1>6
     DEF Next, vars, ConsumerStep, Expire, CreateProduct, Publish, Deliver, ChannelCloses,
         Restart, SkipCorrupt, SkipProcessed, ApplyEvent, CommitAnswerLost, RejectEvent,
         TxFails, ConsumerInvalidates, Ack, Nack, ConsumerStops

\* Entry and row of p are as they were, and so is the excuse.
Untouched(p) == /\ UNCHANGED <<cache[p], row[p]>>
                /\ p \in excused => p \in excused'

\* An event that changes p has a deletion ahead of it: whoever holds it has
\* not acknowledged it, also when the one that commits it holds it no more.
LEMMA CommitOwes ==
    ASSUME TablesInv, BrokerInv, HeldInv, NEW w \in Consumer,
           ApplyEvent(w) \/ CommitAnswerLost(w),
           NEW p \in Product, p = consumer[w].event.product
    PROVE  OwedByEvent(p)'
<1> DEFINE e == consumer[w].event
<1>1. /\ e \in published /\ CommitTx(e) /\ UNCHANGED <<ready, unacked>>
      /\ \E pc \in {"invalidate", "nack"} : Goto(w, pc)
  BY ConsumerFacts DEF ApplyEvent, CommitAnswerLost, brokerVars
<1>2. e.id \notin processed /\ e.id \notin corrupt /\ e.id \in processed'
  BY <1>1 DEF CommitTx
<1>3. p = e.product
  OBVIOUS
<1> HIDE DEF e
<1>4. CASE e \in ready
  BY <1>1, <1>2, <1>3, <1>4 DEF OwedByEvent
<1>5. ASSUME NEW r \in Replica, e \in unacked[r]
      PROVE  OwedByEvent(p)'
  <2>1. PICK x : x = <<r, e.kind>>
    OBVIOUS
  <2>2. consumer[x].event = e /\ consumer[x].pc \notin {"idle", "stopped"}
    BY <1>5, <2>1 DEF HeldInv
  <2>3. x \in Consumer /\ x[1] = r
    BY <1>1, <2>1 DEF Consumer, BrokerInv, StockEvent
  <2>4. consumer[x] \in ConsumerState /\ consumer[x].pc \in {"handle", "nack"}
    BY <1>2, <2>2, <2>3 DEF BrokerInv, ConsumerKnowledge, ConsumerState, ConsumerPC
  <2>5. consumer'[x].event = e /\ consumer'[x].pc \in {"handle", "invalidate", "nack"}
    <3>1. CASE x = w
      <4>1. PICK pc \in {"invalidate", "nack"} : Goto(w, pc)
        BY <1>1
      <4>2. consumer'[x] = [consumer[x] EXCEPT !.pc = pc]
        BY <2>3, <3>1, <4>1 DEF Goto, BrokerInv
      <4>3. QED
        BY <2>2, <2>4, <4>2 DEF ConsumerState
    <3>2. CASE x # w
      BY <1>1, <2>2, <2>3, <2>4, <3>2 DEF Goto, BrokerInv
    <3>3. QED
      BY <3>1, <3>2
  <2>6. Owes(x, p)'
    BY <1>1, <1>2, <1>3, <1>5, <2>3, <2>5 DEF Owes
  <2>7. QED
    BY <2>3, <2>6 DEF Owes, OwedByEvent
<1>6. e \in ready \/ \E r \in Replica : e \in unacked[r]
  BY <1>1, <1>2 DEF BrokerInv, NoEventLost
<1>7. QED
  BY <1>4, <1>5, <1>6

\* How a step may leave the entry of p.
Left(p) == \/ Excused(p) \/ cache'[p] = row'[p]
           \/ OwedByCall(p)' \/ OwedByEvent(p)' \/ Untouched(p)

\* A step that makes an entry stale leaves somebody to delete it.
LEMMA EntryStep ==
    ASSUME TablesInv, CacheInv, BrokerInv, HeldInv, [Next]_vars, NEW p \in Product
    PROVE  Left(p)
<1>1. ASSUME NEW q \in Product, InvalidateProduct(q), UNCHANGED row
      PROVE  Left(p)
  <2>1. CASE p = q
    BY <1>1, <2>1, InvalidateExcuses DEF Left
  <2>2. CASE p # q
    BY <1>1, <2>2 DEF InvalidateProduct, CacheInv, Left, Untouched
  <2>3. QED
    BY <2>1, <2>2
<1>2. ASSUME NEW q \in Product, CreateProduct(q)
      PROVE  Left(p)
  <2>1. ~row[q].exists /\ UNCHANGED <<cache, excused>> /\ \A x \in Product : x # q => row'[x] = row[x]
    BY <1>2 DEF CreateProduct, cacheVars, TablesInv
  <2>2. CASE p = q
    BY <2>1, <2>2 DEF Left, Excused, CacheInv, CachedRowPlausible
  <2>3. CASE p # q
    BY <2>1, <2>3 DEF Left, Untouched
  <2>4. QED
    BY <2>2, <2>3
<1>3. ASSUME NEW q \in Product, Expire(q)
      PROVE  Left(p)
  BY <1>3, NewRowGood DEF Expire, Left, Excused, Untouched, CacheInv, dbVars
<1>4. ASSUME NEW c \in Caller, NEW q \in Product,
             \/ UpdateProduct(c, q) \/ DeleteProduct(c, q)
             \/ \E n \in Quantity : \/ CallReserveStock(c, q, n) \/ CallReleaseStock(c, q, n)
                                    \/ CallConfirmStock(c, q, n)
      PROVE  Left(p)
  <2>1. PICK then \in {"invalidate", "refresh"} : Written(c, q, then)
    BY <1>4 DEF UpdateProduct, DeleteProduct, CallReserveStock, CallReleaseStock, CallConfirmStock
  <2>2. \A x \in Product : x # q => row'[x] = row[x]
    BY <1>4 DEF UpdateProduct, DeleteProduct, CallReserveStock, CallReleaseStock,
                CallConfirmStock, TablesInv
  <2>3. CASE p = q
    <3>1. then \in CallerPC
      BY DEF CallerPC
    <3>2. PICK s : s = [IdleCaller EXCEPT !.pc = then, !.product = q]
      OBVIOUS
    <3>3. s.pc = then /\ s.product = q
      BY <3>1, <3>2, BusyCallerState
    <3>4. caller'[c] = s
      BY <2>1, <3>2 DEF Written, CacheInv
    <3>5. QED
      BY <2>3, <3>3, <3>4 DEF Left, OwedByCall
  <2>4. CASE p # q
    BY <2>1, <2>2, <2>4 DEF Written, cacheVars, Left, Untouched
  <2>5. QED
    BY <2>3, <2>4
<1>5. ASSUME NEW c \in Caller, CallerInvalidates(c)
      PROVE  Left(p)
  BY <1>1, <1>5 DEF CallerInvalidates, CacheInv, CallerKnowledge, dbVars
<1>6. ASSUME NEW w \in Consumer, ConsumerInvalidates(w)
      PROVE  Left(p)
  <2>1. consumer[w].event.product \in Product
    BY <1>6 DEF ConsumerInvalidates, BrokerInv, ConsumerKnowledge, StockEvent
  <2>2. QED
    BY <1>1, <1>6, <2>1 DEF ConsumerInvalidates, dbVars
<1>7. ASSUME NEW c \in Caller, CacheFill(c)
      PROVE  Left(p)
  <2>1. /\ SetProduct(caller[c].product, caller[c].row) /\ UNCHANGED row
        /\ caller[c].product \in Product
    BY <1>7 DEF CacheFill, dbVars, CacheInv, CallerKnowledge
  <2>2. CASE UNCHANGED cacheVars
    BY <2>1, <2>2 DEF cacheVars, Left, Untouched
  <2>3. CASE ~UNCHANGED cacheVars
    <3>1. /\ cache' = [cache EXCEPT ![caller[c].product] = caller[c].row]
          /\ excused' = IF caller[c].row = row[caller[c].product]
                        THEN excused \ {caller[c].product} ELSE excused \cup {caller[c].product}
      BY <2>1, <2>3 DEF SetProduct
    <3>2. CASE p = caller[c].product
      BY <2>1, <3>1, <3>2 DEF Left, Excused, CacheInv
    <3>3. CASE p # caller[c].product
      BY <2>1, <3>1, <3>3 DEF Left, Untouched, CacheInv
    <3>4. QED
      BY <3>2, <3>3
  <2>4. QED
    BY <2>2, <2>3
<1>8. ASSUME NEW w \in Consumer, ApplyEvent(w) \/ CommitAnswerLost(w)
      PROVE  Left(p)
  <2>1. PICK e : e = consumer[w].event
    OBVIOUS
  <2>2. UNCHANGED <<cache, excused>> /\ CommitTx(e)
    BY <1>8, <2>1 DEF ApplyEvent, CommitAnswerLost, cacheVars
  <2>3. CASE p = e.product
    BY <1>8, <2>1, <2>3, CommitOwes DEF Left
  <2>4. CASE p # e.product
    BY <2>2, <2>4 DEF CommitTx, TablesInv, Left, Untouched
  <2>5. QED
    BY <2>3, <2>4
<1>9. ASSUME NEW c \in Caller, CallerDies(c)
      PROVE  Left(p)
  BY <1>9 DEF CallerDies, dbVars, Left, Untouched
<1>10. CASE UNCHANGED <<dbVars, cacheVars>>
  BY <1>10 DEF dbVars, cacheVars, Left, Untouched
<1>11. QED
  BY <1>2, <1>3, <1>4, <1>5, <1>6, <1>7, <1>8, <1>9, <1>10
     DEF Next, vars, CallerStep, ConsumerStep, CacheLookup, DatabaseRead, GetProduct, Publish,
         Deliver, ChannelCloses, Restart, SkipCorrupt, SkipProcessed, RejectEvent, TxFails,
         Ack, Nack, ConsumerStops

\* Every step leaves stale entries only where they are owed a deletion.
LEMMA FreshStep ==
    ASSUME TablesInv, CacheInv, BrokerInv, HeldInv, FreshInv, [Next]_vars
    PROVE  FreshInv'
<1>1. ASSUME NEW q \in Product, InvalidateProduct(q) \/ Expire(q) \/ \E r : SetProduct(q, r)
      PROVE  excused' \subseteq Product
  BY <1>1 DEF InvalidateProduct, Expire, SetProduct, cacheVars, FreshInv
<1>2. ASSUME NEW c \in Caller, CallerInvalidates(c) \/ CacheFill(c) \/ CallerDies(c)
      PROVE  excused' \subseteq Product
  <2>1. caller[c].product \in Product
    BY <1>2 DEF CallerInvalidates, CacheFill, CallerDies, CacheInv, CallerKnowledge
  <2>2. CASE CallerDies(c)
    BY <2>1, <2>2 DEF CallerDies, FreshInv
  <2>3. QED
    BY <1>1, <1>2, <2>1, <2>2 DEF CallerInvalidates, CacheFill
<1>3. ASSUME NEW w \in Consumer, ConsumerInvalidates(w)
      PROVE  excused' \subseteq Product
  <2>1. consumer[w].event.product \in Product
    BY <1>3 DEF ConsumerInvalidates, BrokerInv, ConsumerKnowledge, StockEvent
  <2>2. QED
    BY <1>1, <1>3, <2>1 DEF ConsumerInvalidates
<1>4. UNCHANGED excused => excused' \subseteq Product
  BY DEF FreshInv
<1>5. excused' \subseteq Product
  BY <1>1, <1>2, <1>3, <1>4
     DEF Next, vars, cacheVars, CallerStep, ConsumerStep, CacheLookup, DatabaseRead, GetProduct,
         Publish, Deliver, ChannelCloses, Restart, SkipCorrupt, SkipProcessed, ApplyEvent,
         CommitAnswerLost, RejectEvent, TxFails, Ack, Nack, ConsumerStops, CreateProduct,
         UpdateProduct, DeleteProduct, CallReserveStock, CallReleaseStock, CallConfirmStock,
         Written
<1>6. ASSUME NEW p \in Product, cache'[p].exists, cache'[p] # row'[p]
      PROVE  p \in excused' \/ OwedByCall(p)' \/ OwedByEvent(p)'
  <2>1. Left(p)
    BY EntryStep
  <2>2. CASE Untouched(p)
    <3>1. cache[p].exists /\ cache[p] # row[p]
      BY <1>6, <2>2 DEF Untouched
    <3>2. p \in excused \/ OwedByCall(p) \/ OwedByEvent(p)
      BY <3>1 DEF FreshInv, StaleOnlyWhileOwed
    <3>3. QED
      BY <1>6, <2>2, <3>2, EventOwedStep, CallOwedStep DEF Untouched, Excused
  <2>3. QED
    BY <1>6, <2>1, <2>2 DEF Left, Excused
<1>7. QED
  BY <1>5, <1>6 DEF FreshInv, StaleOnlyWhileOwed
-----------------------------------------------------------------------------
\* The invariant holds at the start: empty tables, cache and queues.
LEMMA InitInv == Init => Inv
<1> SUFFICES ASSUME Init PROVE Inv
  OBVIOUS
<1>1. TablesInv
  BY NewRowGood DEF Init, TablesInv, NoOversell, EventAppliedOnce, Absent, GoodRow
<1>2. CacheInv
  BY NewRowGood, IdleCallerState
     DEF Init, CacheInv, CachedRowPlausible, CallerKnowledge, GoodRow
<1>3. IdleConsumer \in ConsumerState /\ IdleConsumer.pc = "idle"
  BY DEF IdleConsumer, ConsumerState, ConsumerPC
<1>4. BrokerInv
  BY <1>3 DEF Init, BrokerInv, ConsumerKnowledge, NoEventLost
<1>5. faults \in 0 .. MaxFaults
  BY ServiceAssumption DEF Init
<1>6. HeldInv
  BY <1>3 DEF Init, HeldInv
<1>7. FreshInv
  BY NewRowGood DEF Init, FreshInv, StaleOnlyWhileOwed
<1>8. QED
  BY <1>1, <1>2, <1>4, <1>5, <1>6, <1>7 DEF Inv

\* The fault counter stays within its bound.
LEMMA FaultsStep ==
    ASSUME faults \in 0 .. MaxFaults, [Next]_vars
    PROVE  faults' \in 0 .. MaxFaults
<1>1. UNCHANGED faults \/ Fault
  BY DEF Next, vars, cacheVars, CallerStep, ConsumerStep, Expire, CallerInvalidates, CacheLookup,
         DatabaseRead, CacheFill, CallerDies, GetProduct, CreateProduct, UpdateProduct,
         DeleteProduct, CallReserveStock, CallReleaseStock, CallConfirmStock, Written,
         Publish, Deliver, ChannelCloses, Restart, SkipCorrupt, SkipProcessed, ApplyEvent,
         CommitAnswerLost, RejectEvent, TxFails, ConsumerInvalidates, Ack, Nack,
         ConsumerStops, InvalidateProduct, SetProduct, NoFault
<1>2. QED
  BY <1>1, ServiceAssumption DEF Fault

\* The inductive invariant of the product service.
THEOREM Invariance == Spec => []Inv
<1>1. Inv /\ [Next]_vars => Inv'
  BY TablesStep, CacheStep, BrokerStep, HeldStep, FreshStep, FaultsStep DEF Inv
<1>2. QED
  BY InitInv, <1>1, PTL DEF Spec

\* Type correctness: no statement drives a stock column negative, and every
\* component of the state keeps its type.
THEOREM TypeCorrect == Spec => []TypeOK
<1>1. Inv => TypeOK
  BY DEF Inv, TablesInv, CacheInv, BrokerInv, HeldInv, FreshInv, TypeOK
<1>2. QED
  BY <1>1, Invariance, PTL

\* Reserved stock never exceeds total stock.
THEOREM NeverOversold == Spec => []NoOversell
<1>1. Inv => NoOversell
  BY DEF Inv, TablesInv
<1>2. QED
  BY <1>1, Invariance, PTL

\* The effect of an event is exactly once: at most once however often it is
\* delivered, and recorded if and only if it happened.
THEOREM AppliedOnce == Spec => []EventAppliedOnce
<1>1. Inv => EventAppliedOnce
  BY DEF Inv, TablesInv
<1>2. QED
  BY <1>1, Invariance, PTL

\* No event that parses is dropped before it has taken effect.
THEOREM NothingLost == Spec => []NoEventLost
<1>1. Inv => NoEventLost
  BY DEF Inv, BrokerInv
<1>2. QED
  BY <1>1, Invariance, PTL

\* Cached products are plausible, and so is what handlers rely on after they
\* have let go of the database.
THEOREM CacheAndHandlers == Spec => [](CachedRowPlausible /\ HandlerKnowledge)
<1>1. Inv => CachedRowPlausible /\ HandlerKnowledge
  BY DEF Inv, CacheInv, BrokerInv, CallerKnowledge, ConsumerKnowledge, HandlerKnowledge
<1>2. QED
  BY <1>1, Invariance, PTL

\* A cached product is out of date only while its deletion is still to come,
\* or for one of the two reasons the code puts up with.
THEOREM StaleIsOwed == Spec => []StaleOnlyWhileOwed
<1>1. Inv => StaleOnlyWhileOwed
  BY DEF Inv, FreshInv
<1>2. QED
  BY <1>1, Invariance, PTL

-----------------------------------------------------------------------------
\* Every step of the service is a step of the ledger, or leaves stock alone;
\* that an event applied now was never applied before is the inbox's merit.
LEMMA LedgerStep ==
    ASSUME Inv, [Next]_vars
    PROVE  [Ledger!LedgerNext]_(Ledger!ledgerVars)
<1>1. ASSUME NEW p \in Product, CreateProduct(p)
      PROVE  Ledger!Stocked(p)
  BY <1>1 DEF CreateProduct, Ledger!Stocked, NewRow, Ledger!NewRow
<1>2. ASSUME NEW c \in Caller, NEW p \in Product, UpdateProduct(c, p) \/ DeleteProduct(c, p)
      PROVE  Ledger!Switched(p)
  BY <1>2 DEF UpdateProduct, DeleteProduct, Written, Ledger!Switched
<1>3. ASSUME NEW c \in Caller, NEW p \in Product, NEW q \in Quantity,
             \/ CallReserveStock(c, p, q) \/ CallReleaseStock(c, p, q)
             \/ CallConfirmStock(c, p, q)
      PROVE  Ledger!Moved(p)
  BY <1>3 DEF CallReserveStock, CallReleaseStock, CallConfirmStock, Written, Ledger!Moved,
             CanReserve, CanRelease, CanConfirm, ReserveStock, ReleaseStock, ConfirmStock,
             Ledger!CanReserve, Ledger!CanRelease, Ledger!CanConfirm,
             Ledger!ReserveStock, Ledger!ReleaseStock, Ledger!ConfirmStock
<1>4. ASSUME NEW w \in Consumer, ApplyEvent(w) \/ CommitAnswerLost(w)
      PROVE  \E e \in StockEvent : Ledger!Applied(e)
  <2>1. consumer[w].event \in StockEvent /\ CommitTx(consumer[w].event)
    BY <1>4 DEF ApplyEvent, CommitAnswerLost, Inv, BrokerInv, ConsumerKnowledge
  <2>2. effects[consumer[w].event.id] = 0
    BY <2>1 DEF CommitTx, Inv, TablesInv, EventAppliedOnce, StockEvent
  <2>3. effects' = [effects EXCEPT ![consumer[w].event.id] = 1]
    BY <2>1, <2>2 DEF CommitTx
  <2>4. Ledger!Applied(consumer[w].event)
    BY <2>1, <2>2, <2>3 DEF CommitTx, Ledger!Applied, CanApply, Apply, Ledger!CanApply, Ledger!Apply,
                CanRelease, CanConfirm, ReleaseStock, ConfirmStock, Ledger!CanRelease,
                Ledger!CanConfirm, Ledger!ReleaseStock, Ledger!ConfirmStock
  <2>5. QED
    BY <2>1, <2>4
<1>5. CASE UNCHANGED dbVars
  BY <1>5 DEF dbVars, Ledger!ledgerVars
<1>6. QED
  BY <1>1, <1>2, <1>3, <1>4, <1>5
     DEF Ledger!LedgerNext, Ledger!StockEvent, StockEvent, Kind, Ledger!Kind, Next, vars,
         CallerStep, ConsumerStep, Expire, CallerInvalidates, CacheLookup, DatabaseRead, CacheFill, CallerDies, GetProduct,
         Publish, Deliver, ChannelCloses, Restart, SkipCorrupt, SkipProcessed, RejectEvent,
         TxFails, ConsumerInvalidates, Ack, Nack, ConsumerStops

\* The product service implements the stock ledger.
THEOREM Refinement == Spec => ImplementsLedger
<1>1. Init => Ledger!LedgerInit
  BY DEF Init, Ledger!LedgerInit, Absent, Ledger!Absent
<1>2. Inv /\ [Next]_vars => [Ledger!LedgerNext]_(Ledger!ledgerVars)
  BY LedgerStep
<1>3. QED
  BY <1>1, <1>2, Invariance, PTL DEF Spec, ImplementsLedger, Ledger!LedgerSpec
=============================================================================
