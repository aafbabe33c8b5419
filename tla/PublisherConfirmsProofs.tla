----------------------- MODULE PublisherConfirmsProofs -----------------------
(***************************************************************************)
(* The safety properties of Publisher.Publish, for any number of           *)
(* goroutines that share the publisher and any number of messages.         *)
(*                                                                         *)
(* OwnConfirmation says something of results only; that a call which runs  *)
(* alone reads the confirmation of its own message follows from where the  *)
(* library stands in handing them out.  When nobody publishes, it has      *)
(* handed out the last one or is about to (InStep): the last caller has    *)
(* read it.  A new call registers its listener while nothing is handed     *)
(* out, so the first confirmation the listener gets is the call's own      *)
(* (Own).                                                                  *)
(***************************************************************************)
EXTENDS PublisherConfirms, SequenceTheorems, TLAPS

-----------------------------------------------------------------------------
(* The inductive invariant *)

Answered == \A t \in Tag : answer[t] # "none" => t <= published

\* A confirmation that is handed out has arrived.
Handing == sending # 0 => open /\ expecting \in Tag /\ answer[expecting] # "none"

\* What a listener has not read was handed out, or is being handed out.
Buffered ==
    \A i \in DOMAIN listeners : listeners[i].buffer # 0 =>
        /\ answer[listeners[i].buffer] # "none"
        /\ listeners[i].buffer < expecting \/ (listeners[i].buffer = expecting /\ sending # 0)

Tagged == /\ \A c \in Caller : caller[c].pc # "idle" => caller[c].tag \in 1 .. published
          /\ \A i \in DOMAIN listeners : listeners[i].tag <= published

\* Calls that do not overlap: there is one at most, and its message is the
\* last one published.
Alone ==
    /\ \A c, d \in Caller : (caller[c].pc # "idle" /\ caller[d].pc # "idle") => c = d
    /\ \A c \in Caller : caller[c].pc # "idle" => caller[c].tag = published
    /\ \A c \in Caller : caller[c].pc = "listen" =>
          \A i \in DOMAIN listeners : listeners[i].tag # caller[c].tag

InStep ==
    open =>
      /\ (\A c \in Caller : caller[c].pc = "idle")
         => expecting = published + 1 \/ (expecting = published /\ sending # 0)
      /\ \A c \in Caller : caller[c].pc = "listen"
         => expecting >= published \/ (expecting + 1 = published /\ sending # 0)
      /\ \A c \in Caller : caller[c].pc = "wait" => expecting >= published

Own ==
    \A c \in Caller : caller[c].pc = "wait" =>
        \A i \in DOMAIN listeners :
            listeners[i].tag = caller[c].tag => listeners[i].buffer \in {0, caller[c].tag}

Inv ==
    /\ TypeOK /\ Answered /\ Handing /\ Buffered /\ Tagged /\ ErrorMeansTrouble
    /\ ~overlapped => Alone /\ InStep /\ Own
    /\ OwnConfirmation

-----------------------------------------------------------------------------
(* Listeners *)

\* The buffer of a listener is filled or read.
LEMMA BufferFacts ==
    ASSUME listeners \in Seq(Listener), NEW i \in DOMAIN listeners, NEW v \in 0 .. MaxTag,
           listeners' = [listeners EXCEPT ![i].buffer = v]
    PROVE  /\ listeners' \in Seq(Listener)
           /\ Len(listeners') = Len(listeners) /\ DOMAIN listeners' = DOMAIN listeners
           /\ \A j \in DOMAIN listeners : listeners'[j].tag = listeners[j].tag
           /\ listeners'[i].buffer = v
           /\ \A j \in DOMAIN listeners \ {i} : listeners'[j].buffer = listeners[j].buffer
    <1>1. i \in 1 .. Len(listeners) /\ listeners[i] \in Listener
      OBVIOUS
    <1>2. PICK l \in Listener : l = [listeners[i] EXCEPT !.buffer = v]
      BY <1>1 DEF Listener
    <1>3. l.tag = listeners[i].tag /\ l.buffer = v
      BY <1>1, <1>2 DEF Listener
    <1>4. listeners' = [listeners EXCEPT ![i] = l]
      BY <1>2
    <1>5. /\ listeners' \in Seq(Listener) /\ Len(listeners') = Len(listeners)
          /\ \A j \in 1 .. Len(listeners) : listeners'[j] = IF j = i THEN l ELSE listeners[j]
      BY <1>1, <1>2, <1>4, ExceptSeq
    <1>6. QED
      BY <1>1, <1>3, <1>5

\* A listener is registered.
LEMMA AppendFacts ==
    ASSUME listeners \in Seq(Listener), NEW t \in Tag,
           listeners' = Append(listeners, [tag |-> t, buffer |-> 0])
    PROVE  /\ listeners' \in Seq(Listener) /\ Len(listeners') = Len(listeners) + 1
           /\ \A i \in DOMAIN listeners' :
                 \/ i \in DOMAIN listeners /\ listeners'[i] = listeners[i]
                 \/ listeners'[i].tag = t /\ listeners'[i].buffer = 0
    <1>1. [tag |-> t, buffer |-> 0] \in Listener
      BY ConfirmsAssumption DEF Listener
    <1>2. QED
      BY <1>1, AppendProperties

\* Types as the proofs use them.
LEMMA Types ==
    ASSUME TypeOK
    PROVE  /\ MaxTag \in Nat /\ published \in Nat /\ published <= MaxTag
           /\ expecting \in Nat /\ expecting >= 1 /\ expecting <= published + 1
           /\ sending \in Nat /\ sending <= Len(listeners)
           /\ \A i \in DOMAIN listeners : /\ listeners[i].tag \in Tag
                                         /\ listeners[i].buffer \in 0 .. MaxTag
    <1>1. \A i \in DOMAIN listeners : listeners[i] \in Listener
      BY DEF TypeOK
    <1>2. QED
      BY <1>1, ConfirmsAssumption DEF TypeOK, Listener

\* Nothing is published at the start.
LEMMA InitInv == Init => Inv
    <1> SUFFICES ASSUME Init PROVE Inv
      OBVIOUS
    <1> USE DEF Init
    <1>1. TypeOK
      <2>1. caller \in [Caller -> Calling]
        BY ConfirmsAssumption DEF Calling
      <2>2. listeners \in Seq(Listener) /\ sending \in 0 .. Len(listeners)
        OBVIOUS
      <2>3. published \in 0 .. MaxTag /\ expecting \in 1 .. published + 1
        BY ConfirmsAssumption
      <2>4. QED
        BY <2>1, <2>2, <2>3 DEF TypeOK
    <1>2. Answered /\ Handing /\ Buffered /\ Tagged
      BY DEF Answered, Handing, Buffered, Tagged
    <1>3. ErrorMeansTrouble /\ OwnConfirmation
      BY DEF ErrorMeansTrouble, OwnConfirmation
    <1>4. Alone /\ InStep /\ Own
      BY DEF Alone, InStep, Own
    <1>5. QED
      BY <1>1, <1>2, <1>3, <1>4 DEF Inv

-----------------------------------------------------------------------------
(* The steps *)

\* A message is published.
LEMMA PublishKeeps == ASSUME Inv, NEW c \in Caller, Publish(c) PROVE Inv'
    <1> USE DEF Inv
    <1>0. TypeOK
      OBVIOUS
    <1>1. /\ caller[c].pc = "idle" /\ open /\ published < MaxTag /\ published' = published + 1
          /\ UNCHANGED <<answer, listeners, expecting, sending, open, result>>
          /\ overlapped' = (overlapped \/ \E d \in Caller : caller[d].pc # "idle")
      BY DEF Publish
    <1>2. /\ caller'[c].pc = "listen" /\ caller'[c].tag = published + 1
          /\ \A d \in Caller \ {c} : caller'[d] = caller[d]
          /\ caller' \in [Caller -> Calling]
      <2>1. [pc |-> "listen", tag |-> published + 1] \in Calling
        BY <1>0, <1>1, Types DEF Calling
      <2>2. QED
        BY <2>1 DEF Publish, TypeOK
    <1>3. TypeOK'
      BY <1>0, <1>1, <1>2, Types DEF TypeOK
    <1>4. Answered' /\ Handing' /\ Buffered'
      BY <1>0, <1>1, Types DEF Answered, Handing, Buffered, Tag
    <1>5. Tagged'
      BY <1>0, <1>1, <1>2, Types DEF Tagged, Tag
    <1>6. ErrorMeansTrouble' /\ OwnConfirmation'
      BY <1>1 DEF ErrorMeansTrouble, OwnConfirmation
    <1>7. ASSUME ~overlapped' PROVE Alone' /\ InStep' /\ Own'
      <2>1. ~overlapped /\ \A d \in Caller : caller[d].pc = "idle"
        BY <1>1, <1>7
      <2>2. \A d \in Caller : caller'[d].pc # "idle" => d = c
        BY <1>2, <2>1
      <2>3. Alone'
        BY <1>0, <1>1, <1>2, <2>2, Types DEF Alone, Tagged, Tag
      <2>4. InStep'
        BY <1>0, <1>1, <1>2, <2>1, <2>2, Types DEF InStep
      <2>5. Own'
        BY <1>2, <2>2 DEF Own
      <2>6. QED
        BY <2>3, <2>4, <2>5
    <1>8. QED
      BY <1>3, <1>4, <1>5, <1>6, <1>7

\* The listener is registered.
LEMMA NotifyKeeps == ASSUME Inv, NEW c \in Caller, NotifyPublish(c) PROVE Inv'
    <1> USE DEF Inv
    <1>0. TypeOK
      OBVIOUS
    <1>1. /\ caller[c].pc = "listen" /\ sending = 0
          /\ UNCHANGED <<published, answer, expecting, sending, open, result, overlapped>>
      BY DEF NotifyPublish
    <1>2. /\ caller'[c].pc = "wait" /\ caller'[c].tag = caller[c].tag
          /\ \A d \in Caller \ {c} : caller'[d] = caller[d]
          /\ caller' \in [Caller -> Calling]
      BY DEF NotifyPublish, TypeOK, Calling
    <1>3. PICK t \in Tag : t = caller[c].tag /\ t <= published
      BY <1>0, <1>1, Types DEF Tagged, Tag
    <1>4. /\ listeners' \in Seq(Listener) /\ Len(listeners') >= Len(listeners)
          /\ \A i \in DOMAIN listeners' :
                \/ i \in DOMAIN listeners /\ listeners'[i] = listeners[i]
                \/ open /\ listeners'[i].tag = t /\ listeners'[i].buffer = 0
      <2>1. CASE open
        <3>1. listeners' = Append(listeners, [tag |-> t, buffer |-> 0])
          BY <1>3, <2>1 DEF NotifyPublish
        <3>2. QED
          BY <1>0, <1>3, <2>1, <3>1, AppendFacts DEF TypeOK
      <2>2. CASE ~open
        BY <2>2 DEF NotifyPublish, TypeOK
      <2>3. QED
        BY <2>1, <2>2
    <1>5. TypeOK'
      BY <1>0, <1>1, <1>2, <1>4, Types DEF TypeOK
    <1>6. Answered' /\ Handing' /\ Buffered'
      BY <1>1, <1>4 DEF Answered, Handing, Buffered
    <1>7. Tagged'
      BY <1>1, <1>2, <1>3, <1>4 DEF Tagged
    <1>8. ErrorMeansTrouble' /\ OwnConfirmation'
      BY <1>1 DEF ErrorMeansTrouble, OwnConfirmation
    <1>9. ASSUME ~overlapped PROVE Alone' /\ InStep' /\ Own'
      <2>1. \A d \in Caller : caller'[d].pc # "idle" => d = c
        BY <1>1, <1>2, <1>9 DEF Alone
      <2>2. Alone'
        BY <1>1, <1>2, <1>9, <2>1 DEF Alone
      <2>3. InStep'
        BY <1>0, <1>1, <1>2, <1>9, <2>1, Types DEF InStep
      <2>4. Own'
        BY <1>1, <1>2, <1>3, <1>4, <1>9, <2>1 DEF Own, Alone
      <2>5. QED
        BY <2>2, <2>3, <2>4
    <1>10. QED
      BY <1>1, <1>5, <1>6, <1>7, <1>8, <1>9

\* A call is over: what is left of it, apart from its result.
LEMMA CallEnds ==
    ASSUME Inv, NEW c \in Caller, caller[c].pc = "wait",
           caller' = [caller EXCEPT ![c] = [pc |-> "idle", tag |-> 0]]
    PROVE  /\ caller'[c].pc = "idle"
           /\ \A d \in Caller \ {c} : caller'[d] = caller[d]
           /\ caller' \in [Caller -> Calling]
           /\ caller[c].tag \in Tag
           /\ ~overlapped => caller[c].tag = published /\ \A d \in Caller : caller'[d].pc = "idle"
    <1>0. TypeOK
      BY DEF Inv
    <1>1. [pc |-> "idle", tag |-> 0] \in Calling
      BY ConfirmsAssumption DEF Calling
    <1>2. /\ caller'[c].pc = "idle" /\ caller' \in [Caller -> Calling]
          /\ \A d \in Caller \ {c} : caller'[d] = caller[d]
      BY <1>0, <1>1 DEF TypeOK
    <1>3. caller[c].tag \in Tag
      BY <1>0, Types DEF Inv, Tagged, Tag
    <1>4. ~overlapped => caller[c].tag = published /\ \A d \in Caller : caller'[d].pc = "idle"
      BY <1>2 DEF Inv, Alone
    <1>5. QED
      BY <1>2, <1>3, <1>4

\* A call returns with what its listener got.
LEMMA ReceiveKeeps == ASSUME Inv, NEW c \in Caller, Receive(c) PROVE Inv'
    <1> USE DEF Inv
    <1>0. TypeOK
      OBVIOUS
    <1>1. /\ caller[c].pc = "wait"
          /\ UNCHANGED <<published, answer, expecting, sending, open, overlapped>>
      BY DEF Receive
    <1>2. /\ caller'[c].pc = "idle"
          /\ \A d \in Caller \ {c} : caller'[d] = caller[d]
          /\ caller' \in [Caller -> Calling]
          /\ caller[c].tag \in Tag
          /\ ~overlapped => caller[c].tag = published /\ \A d \in Caller : caller'[d].pc = "idle"
      BY <1>1, CallEnds DEF Receive
    <1>3. PICK i \in DOMAIN listeners :
             /\ listeners[i].tag = caller[c].tag /\ listeners[i].buffer # 0
             /\ result' = [result EXCEPT ![caller[c].tag] = Outcome(listeners[i].buffer)]
             /\ listeners' = [listeners EXCEPT ![i].buffer = 0]
      BY DEF Receive
    <1>4. /\ listeners' \in Seq(Listener)
          /\ Len(listeners') = Len(listeners) /\ DOMAIN listeners' = DOMAIN listeners
          /\ \A j \in DOMAIN listeners : listeners'[j].tag = listeners[j].tag
          /\ \A j \in DOMAIN listeners : listeners'[j].buffer \in {0, listeners[j].buffer}
      <2>1. 0 \in 0 .. MaxTag /\ listeners \in Seq(Listener)
        BY <1>0, ConfirmsAssumption DEF TypeOK
      <2>2. QED
        BY <1>3, <2>1, BufferFacts
    <1>5. PICK b \in Tag : b = listeners[i].buffer /\ answer[b] # "none"
      BY <1>0, <1>3, Types DEF Buffered, Tag
    <1>6. PICK t \in Tag : t = caller[c].tag
      BY <1>2
    <1>7. /\ result'[t] = (IF answer[b] = "ack" THEN "nil" ELSE "error")
          /\ \A u \in Tag \ {t} : result'[u] = result[u]
          /\ result' \in [Tag -> {"none", "nil", "error"}]
      BY <1>0, <1>3, <1>5, <1>6 DEF TypeOK, Outcome
    <1>8. TypeOK'
      BY <1>0, <1>1, <1>2, <1>4, <1>7 DEF TypeOK
    <1>9. Answered' /\ Handing'
      BY <1>1 DEF Answered, Handing
    <1>10. Buffered'
      BY <1>1, <1>4 DEF Buffered
    <1>11. Tagged'
      BY <1>1, <1>2, <1>4 DEF Tagged
    <1>12. ErrorMeansTrouble'
      <2>1. answer[b] \in {"none", "ack", "nack"}
        BY <1>0, <1>5 DEF TypeOK
      <2>2. result'[t] = "error" => answer[b] = "nack"
        BY <1>5, <1>7, <2>1
      <2>3. QED
        BY <1>1, <1>5, <1>6, <1>7, <2>2 DEF ErrorMeansTrouble
    <1>13. ASSUME ~overlapped PROVE Alone' /\ InStep' /\ Own' /\ b = t
      <2>1. b = t
        BY <1>1, <1>3, <1>5, <1>6, <1>13, ConfirmsAssumption DEF Own, Tag
      <2>2. Alone' /\ Own'
        BY <1>2, <1>13 DEF Alone, Own
      <2>3. b < expecting \/ (b = expecting /\ sending # 0)
        BY <1>3, <1>5 DEF Buffered
      <2>4. InStep'
        BY <1>0, <1>1, <1>2, <1>5, <1>6, <1>13, <2>1, <2>3, Types DEF InStep
      <2>5. QED
        BY <2>1, <2>2, <2>4
    <1>14. OwnConfirmation'
      BY <1>1, <1>5, <1>6, <1>7, <1>13 DEF OwnConfirmation
    <1>15. QED
      BY <1>1, <1>8, <1>9, <1>10, <1>11, <1>12, <1>13, <1>14

\* A call returns because the channel was closed.
LEMMA ReceiveClosedKeeps == ASSUME Inv, NEW c \in Caller, ReceiveClosed(c) PROVE Inv'
    <1> USE DEF Inv
    <1>0. TypeOK
      OBVIOUS
    <1>1. /\ caller[c].pc = "wait" /\ ~open
          /\ UNCHANGED <<published, answer, listeners, expecting, sending, open, overlapped>>
      BY DEF ReceiveClosed
    <1>2. /\ caller'[c].pc = "idle"
          /\ \A d \in Caller \ {c} : caller'[d] = caller[d]
          /\ caller' \in [Caller -> Calling]
          /\ caller[c].tag \in Tag
          /\ ~overlapped => caller[c].tag = published /\ \A d \in Caller : caller'[d].pc = "idle"
      BY <1>1, CallEnds DEF ReceiveClosed
    <1>3. /\ \A u \in Tag : result'[u] \in {result[u], "error"}
          /\ result' \in [Tag -> {"none", "nil", "error"}]
      BY <1>0, <1>2 DEF TypeOK, ReceiveClosed
    <1>4. TypeOK'
      BY <1>0, <1>1, <1>2, <1>3 DEF TypeOK
    <1>5. Answered' /\ Handing' /\ Buffered'
      BY <1>1 DEF Answered, Handing, Buffered
    <1>6. Tagged'
      BY <1>1, <1>2 DEF Tagged
    <1>7. ErrorMeansTrouble' /\ OwnConfirmation'
      BY <1>1, <1>3 DEF ErrorMeansTrouble, OwnConfirmation
    <1>8. ASSUME ~overlapped PROVE Alone' /\ InStep' /\ Own'
      BY <1>1, <1>2, <1>8 DEF Alone, InStep, Own
    <1>9. QED
      BY <1>1, <1>4, <1>5, <1>6, <1>7, <1>8

\* The broker answers.
LEMMA AnswerKeeps ==
    ASSUME Inv, NEW t \in Tag, NEW a \in {"ack", "nack"}, BrokerAnswers(t, a) PROVE Inv'
    <1> USE DEF Inv
    <1>1. /\ t <= published /\ answer[t] = "none"
          /\ UNCHANGED <<caller, published, listeners, expecting, sending, open, result, overlapped>>
      BY DEF BrokerAnswers
    <1>2. /\ answer'[t] = a /\ \A u \in Tag \ {t} : answer'[u] = answer[u]
          /\ answer' \in [Tag -> {"none", "ack", "nack"}]
      BY DEF BrokerAnswers, TypeOK
    <1>3. \A u \in Tag : answer[u] # "none" => answer'[u] = answer[u]
      BY <1>1, <1>2
    <1>4. TypeOK'
      BY <1>1, <1>2 DEF TypeOK
    <1>5. Answered' /\ Handing'
      BY <1>1, <1>2, <1>3 DEF Answered, Handing
    <1>6. Buffered'
      <2>1. TypeOK
        OBVIOUS
      <2>2. \A i \in DOMAIN listeners : listeners[i].buffer # 0 => listeners[i].buffer \in Tag
        BY <2>1, Types DEF Tag
      <2>3. QED
        BY <1>1, <1>3, <2>2 DEF Buffered
    <1>7. Tagged'
      BY <1>1 DEF Tagged
    <1>8. ErrorMeansTrouble' /\ OwnConfirmation'
      BY <1>1, <1>3 DEF ErrorMeansTrouble, OwnConfirmation
    <1>9. ~overlapped => Alone' /\ InStep' /\ Own'
      BY <1>1 DEF Alone, InStep, Own
    <1>10. QED
      BY <1>1, <1>4, <1>5, <1>6, <1>7, <1>8, <1>9

\* The library takes the next confirmation.
LEMMA DispatchKeeps == ASSUME Inv, Dispatch PROVE Inv'
    <1> USE DEF Inv
    <1>0. TypeOK
      OBVIOUS
    <1>1. /\ open /\ sending = 0 /\ expecting <= MaxTag /\ answer[expecting] # "none"
          /\ \/ listeners = <<>> /\ expecting' = expecting + 1 /\ UNCHANGED sending
             \/ listeners # <<>> /\ sending' = 1 /\ UNCHANGED expecting
          /\ UNCHANGED <<caller, published, answer, listeners, open, result, overlapped>>
      BY DEF Dispatch, DispatchReady
    <1>2. expecting \in Tag /\ expecting <= published
      BY <1>0, <1>1, Types DEF Answered, Tag
    <1>3. listeners # <<>> => 1 <= Len(listeners)
      BY <1>0 DEF TypeOK
    <1>4. TypeOK'
      BY <1>0, <1>1, <1>2, <1>3, Types DEF TypeOK
    <1>5. Answered' /\ Handing' /\ Tagged'
      BY <1>1, <1>2 DEF Answered, Handing, Tagged
    <1>6. Buffered'
      BY <1>0, <1>1, Types DEF Buffered
    <1>7. ErrorMeansTrouble' /\ OwnConfirmation'
      BY <1>1 DEF ErrorMeansTrouble, OwnConfirmation
    <1>8. ASSUME ~overlapped PROVE Alone' /\ InStep' /\ Own'
      <2>1. Alone' /\ Own'
        BY <1>1, <1>8 DEF Alone, Own
      <2>2. InStep'
        BY <1>0, <1>1, <1>2, <1>8, Types DEF InStep
      <2>3. QED
        BY <2>1, <2>2
    <1>9. QED
      BY <1>1, <1>4, <1>5, <1>6, <1>7, <1>8

\* The library hands the confirmation to one listener.
LEMMA SendKeeps == ASSUME Inv, Send PROVE Inv'
    <1> USE DEF Inv
    <1>0. TypeOK
      OBVIOUS
    <1>1. /\ sending # 0
          /\ listeners' = [listeners EXCEPT ![sending].buffer = expecting]
          /\ \/ sending < Len(listeners) /\ sending' = sending + 1 /\ UNCHANGED expecting
             \/ sending = Len(listeners) /\ sending' = 0 /\ expecting' = expecting + 1
          /\ UNCHANGED <<caller, published, answer, open, result, overlapped>>
      BY DEF Send
    <1>2. open /\ expecting \in Tag /\ answer[expecting] # "none" /\ expecting <= published
      BY <1>1 DEF Handing, Answered
    <1>3. PICK i \in DOMAIN listeners : i = sending
      BY <1>0, <1>1, Types DEF TypeOK
    <1>4. /\ listeners' \in Seq(Listener)
          /\ Len(listeners') = Len(listeners) /\ DOMAIN listeners' = DOMAIN listeners
          /\ \A j \in DOMAIN listeners : listeners'[j].tag = listeners[j].tag
          /\ \A j \in DOMAIN listeners : listeners'[j].buffer \in {expecting, listeners[j].buffer}
      <2>1. expecting \in 0 .. MaxTag /\ listeners \in Seq(Listener)
        BY <1>0, <1>2, ConfirmsAssumption DEF TypeOK, Tag
      <2>2. QED
        BY <1>1, <1>3, <2>1, BufferFacts
    <1>5. TypeOK'
      BY <1>0, <1>1, <1>2, <1>4, Types DEF TypeOK
    <1>6. Answered' /\ Handing'
      BY <1>0, <1>1, <1>2, Types DEF Answered, Handing
    <1>7. Buffered'
      BY <1>0, <1>1, <1>2, <1>4, Types DEF Buffered
    <1>8. Tagged'
      BY <1>1, <1>4 DEF Tagged
    <1>9. ErrorMeansTrouble' /\ OwnConfirmation'
      BY <1>1 DEF ErrorMeansTrouble, OwnConfirmation
    <1>10. ASSUME ~overlapped PROVE Alone' /\ InStep' /\ Own'
      <2>1. Alone'
        BY <1>1, <1>4, <1>10 DEF Alone
      <2>2. InStep'
        BY <1>0, <1>1, <1>2, <1>10, Types DEF InStep
      <2>3. Own'
        <3>1. ASSUME NEW c \in Caller, caller[c].pc = "wait" PROVE expecting = caller[c].tag
          BY <1>0, <1>2, <1>10, <3>1, Types DEF Alone, InStep
        <3>2. QED
          BY <1>1, <1>4, <1>10, <3>1 DEF Own
      <2>4. QED
        BY <2>1, <2>2, <2>3
    <1>11. QED
      BY <1>1, <1>5, <1>6, <1>7, <1>8, <1>9, <1>10

\* The channel closes; stuttering.
LEMMA CloseKeeps == ASSUME Inv, ChannelCloses \/ UNCHANGED vars PROVE Inv'
    <1> USE DEF Inv
    <1>1. /\ UNCHANGED <<caller, published, answer, listeners, expecting, sending, result, overlapped>>
          /\ open' = open \/ (open' = FALSE /\ sending = 0)
      BY DEF ChannelCloses, vars
    <1>2. TypeOK'
      BY <1>1 DEF TypeOK
    <1>3. Answered' /\ Handing' /\ Buffered' /\ Tagged'
      BY <1>1 DEF Answered, Handing, Buffered, Tagged
    <1>4. ErrorMeansTrouble' /\ OwnConfirmation'
      BY <1>1 DEF ErrorMeansTrouble, OwnConfirmation
    <1>5. ~overlapped => Alone' /\ InStep' /\ Own'
      BY <1>1 DEF Alone, InStep, Own
    <1>6. QED
      BY <1>1, <1>2, <1>3, <1>4, <1>5

-----------------------------------------------------------------------------

\* The inductive invariant holds in every reachable state.
THEOREM Invariance == Spec => []Inv
    <1>1. Inv /\ [Next]_vars => Inv'
      <2> SUFFICES ASSUME Inv, [Next]_vars PROVE Inv'
        OBVIOUS
      <2>1. ASSUME NEW c \in Caller, CallStep(c) PROVE Inv'
        BY <2>1, PublishKeeps, NotifyKeeps, ReceiveKeeps, ReceiveClosedKeeps DEF CallStep
      <2>2. ASSUME NEW t \in Tag, NEW a \in {"ack", "nack"}, BrokerAnswers(t, a) PROVE Inv'
        BY <2>2, AnswerKeeps
      <2>3. CASE Dispatch \/ Send \/ ChannelCloses \/ UNCHANGED vars
        BY <2>3, DispatchKeeps, SendKeeps, CloseKeeps
      <2>4. QED
        BY <2>1, <2>2, <2>3 DEF Next
    <1>2. QED
      BY <1>1, InitInv, PTL DEF Spec

\* Types, and no confirmation is handed out that was not published.
THEOREM TypeCorrect == Spec => []TypeOK
    <1>1. Inv => TypeOK
      BY DEF Inv
    <1>2. QED
      BY <1>1, Invariance, PTL

\* An error of Publish comes from a refusal or a closed channel.
THEOREM ErrorsMeanTrouble == Spec => []ErrorMeansTrouble
    <1>1. Inv => ErrorMeansTrouble
      BY DEF Inv
    <1>2. QED
      BY <1>1, Invariance, PTL

\* Publish that runs alone succeeds on the acknowledgement of its own message.
THEOREM ConfirmsOwn == Spec => []OwnConfirmation
    <1>1. Inv => OwnConfirmation
      BY DEF Inv
    <1>2. QED
      BY <1>1, Invariance, PTL

=============================================================================
