------------------------- MODULE PublisherConfirms -------------------------
(***************************************************************************)
(* Publisher.Publish on one channel in confirm mode.  A call publishes     *)
(* first and registers a listener for confirmations afterwards, reads one  *)
(* confirmation from it, and leaves it registered.                         *)
(*                                                                         *)
(* The client library hands every confirmation, in the order of delivery   *)
(* tags, to every registered listener.  It holds the lock of the listeners *)
(* meanwhile, and waits for a listener whose buffer of one is full.        *)
(***************************************************************************)
EXTENDS Naturals, Sequences

CONSTANTS Caller,      \* goroutines that share the publisher
          MaxTag       \* bound on publications

ASSUME ConfirmsAssumption == MaxTag \in Nat

VARIABLES caller,      \* caller[c]: where its call of Publish is, and its tag
          published,   \* delivery tag of the last publication
          answer,      \* answer[t]: what the broker says of message t
          listeners,   \* registered channels: tag of their call, buffered tag or 0
          expecting,   \* the next tag to hand out
          sending,     \* next listener to serve, 0 if nothing is handed out
          open,        \* the AMQP channel is open
          result,      \* result[t]: what the call for t returned
          overlapped   \* history: two calls were under way at the same time

vars == <<caller, published, answer, listeners, expecting, sending, open, result, overlapped>>

Tag == 1 .. MaxTag
Calling == [pc : {"idle", "listen", "wait"}, tag : 0 .. MaxTag]
Listener == [tag : Tag, buffer : 0 .. MaxTag]

Init == /\ caller = [c \in Caller |-> [pc |-> "idle", tag |-> 0]]
        /\ published = 0
        /\ answer = [t \in Tag |-> "none"]
        /\ listeners = <<>>
        /\ expecting = 1
        /\ sending = 0
        /\ open = TRUE
        /\ result = [t \in Tag |-> "none"]
        /\ overlapped = FALSE

\* PublishWithContext.
Publish(c) ==
    /\ caller[c].pc = "idle" /\ open /\ published < MaxTag
    /\ published' = published + 1
    /\ caller' = [caller EXCEPT ![c] = [pc |-> "listen", tag |-> published + 1]]
    /\ overlapped' = (overlapped \/ \E d \in Caller : caller[d].pc # "idle")
    /\ UNCHANGED <<answer, listeners, expecting, sending, open, result>>

\* NotifyPublish, which takes the lock of the listeners.  On a closed channel
\* it closes the Go channel, so that reading it yields no acknowledgement.
NotifyPublish(c) ==
    /\ caller[c].pc = "listen" /\ sending = 0
    /\ listeners' = IF open THEN Append(listeners, [tag |-> caller[c].tag, buffer |-> 0])
                            ELSE listeners
    /\ caller' = [caller EXCEPT ![c].pc = "wait"]
    /\ UNCHANGED <<published, answer, expecting, sending, open, result, overlapped>>

\* Mutants: whatever comes is success; the test of Ack is inverted.
OutcomeAlwaysNil(t)  == "nil"
OutcomeInverted(t)   == IF answer[t] = "ack" THEN "error" ELSE "nil"

\* What a call makes of the confirmation of message t.
Outcome(t) == IF answer[t] = "ack" THEN "nil" ELSE "error"

\* The call reads a confirmation and returns; the listener stays.
Receive(c) ==
    /\ caller[c].pc = "wait"
    /\ \E i \in DOMAIN listeners :
          /\ listeners[i].tag = caller[c].tag /\ listeners[i].buffer # 0
          /\ result' = [result EXCEPT ![caller[c].tag] = Outcome(listeners[i].buffer)]
          /\ listeners' = [listeners EXCEPT ![i].buffer = 0]
    /\ caller' = [caller EXCEPT ![c] = [pc |-> "idle", tag |-> 0]]
    /\ UNCHANGED <<published, answer, expecting, sending, open, overlapped>>

\* The Go channel was closed with nothing in it.
ReceiveClosed(c) ==
    /\ caller[c].pc = "wait" /\ ~open
    /\ \A i \in DOMAIN listeners : listeners[i].tag = caller[c].tag => listeners[i].buffer = 0
    /\ result' = [result EXCEPT ![caller[c].tag] = "error"]
    /\ caller' = [caller EXCEPT ![c] = [pc |-> "idle", tag |-> 0]]
    /\ UNCHANGED <<published, answer, listeners, expecting, sending, open, overlapped>>

(***************************************************************************)
(* The broker, and the library's reader goroutine.                         *)
(***************************************************************************)
BrokerAnswers(t, a) ==
    /\ open /\ t <= published /\ answer[t] = "none"
    /\ answer' = [answer EXCEPT ![t] = a]
    /\ UNCHANGED <<caller, published, listeners, expecting, sending, open, result, overlapped>>

\* Mutant: confirmations are handed out before they have arrived.
DispatchReadyEarly == TRUE

DispatchReady == expecting <= MaxTag /\ answer[expecting] # "none"

\* A confirmation is next: without listeners it is gone at once.
Dispatch ==
    /\ open /\ sending = 0 /\ DispatchReady
    /\ \/ listeners = <<>> /\ expecting' = expecting + 1 /\ UNCHANGED sending
       \/ listeners # <<>> /\ sending' = 1 /\ UNCHANGED expecting
    /\ UNCHANGED <<caller, published, answer, listeners, open, result, overlapped>>

\* l <- confirmation.
Send ==
    /\ sending # 0 /\ listeners[sending].buffer = 0
    /\ listeners' = [listeners EXCEPT ![sending].buffer = expecting]
    /\ \/ sending < Len(listeners) /\ sending' = sending + 1 /\ UNCHANGED expecting
       \/ sending = Len(listeners) /\ sending' = 0 /\ expecting' = expecting + 1
    /\ UNCHANGED <<caller, published, answer, open, result, overlapped>>

\* Closing the listeners takes their lock, too.
ChannelCloses ==
    /\ open /\ sending = 0
    /\ open' = FALSE
    /\ UNCHANGED <<caller, published, answer, listeners, expecting, sending, result, overlapped>>

-----------------------------------------------------------------------------
CallStep(c) == Publish(c) \/ NotifyPublish(c) \/ Receive(c) \/ ReceiveClosed(c)

Next ==
    \/ \E c \in Caller : CallStep(c)
    \/ \E t \in Tag, a \in {"ack", "nack"} : BrokerAnswers(t, a)
    \/ Dispatch \/ Send \/ ChannelCloses

Spec == Init /\ [][Next]_vars

\* Goroutines run on and the broker answers every message.
Fairness ==
    /\ \A c \in Caller : WF_vars(NotifyPublish(c) \/ Receive(c) \/ ReceiveClosed(c))
    /\ \A t \in Tag : WF_vars(\E a \in {"ack", "nack"} : BrokerAnswers(t, a))
    /\ WF_vars(Dispatch \/ Send)

FairSpec == Spec /\ Fairness

(***************************************************************************)
(* Properties.                                                             *)
(***************************************************************************)
\* Type invariant; nothing is handed out that was not published.
TypeOK ==
    /\ caller \in [Caller -> Calling]
    /\ published \in 0 .. MaxTag
    /\ answer \in [Tag -> {"none", "ack", "nack"}]
    /\ listeners \in Seq(Listener)
    /\ expecting \in 1 .. published + 1
    /\ sending \in 0 .. Len(listeners)
    /\ open \in BOOLEAN
    /\ result \in [Tag -> {"none", "nil", "error"}]
    /\ overlapped \in BOOLEAN

\* Publish reports an error only if the broker refused some message or the
\* channel is closed, whoever shares the publisher.
ErrorMeansTrouble ==
    \A t \in Tag : result[t] = "error" => ~open \/ \E u \in Tag : answer[u] = "nack"

\* Publish waits for the acknowledgement of its message: as long as no two
\* calls have overlapped, nil means that the broker has taken that very message.
\* (Once they have, a call may return on the confirmation of another one.)
OwnConfirmation == ~overlapped => \A t \in Tag : result[t] = "nil" => answer[t] = "ack"

\* Publish returns once the broker has answered.
PublishReturns ==
    \A c \in Caller : (caller[c].pc = "listen") ~> (caller[c].pc = "idle")
=============================================================================
