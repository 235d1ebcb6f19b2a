------------------------------ MODULE Session ------------------------------
(***************************************************************************)
(* The client's session layer and a broker over one connection after       *)
(* another, with the faults of the network and of the broker.              *)
(***************************************************************************)
EXTENDS ClientSession, Broker

CONSTANTS PublishWhen,  \* the states of the connection in which the application publishes
          OutQos,       \* the QoS it publishes with
          Faults,       \* the kinds of fault that may happen, see FaultKinds
          MaxFaults,    \* bound: the number of faults
          MaxConsumed   \* bound: the message ids taken by other calls

(* lost, lost_early: the connection breaks after and before CONNACK is      *)
(* handled.  lost_in_connack: it breaks while the handler of CONNACK sends  *)
(* messages again.  no_route: no socket can be opened.  refused: the broker *)
(* refuses CONNECT.                                                         *)
FaultKinds == {"lost", "lost_early", "lost_in_connack", "no_route", "refused"}

ASSUME SessionAssumption ==
    /\ PublishWhen \subseteq Connections
    /\ OutQos \subseteq 1..2
    /\ Faults \subseteq FaultKinds
    /\ MaxFaults \in Nat
    /\ MaxConsumed \in Nat

VARIABLES faults,    \* faults so far
          consumed   \* message ids taken by other calls so far

others == <<faults, consumed, cleanMode>>
vars == <<clientVars, brokerVars, wireVars, others>>

TypeOK ==
    /\ WireTypeOK
    /\ ClientTypeOK
    /\ BrokerTypeOK
    /\ faults \in Nat
    /\ consumed \in Nat

Init ==
    /\ ClientInit
    /\ BrokerInit
    /\ toBroker = <<>> /\ toClient = <<>>
    /\ faults = 0 /\ consumed = 0

-----------------------------------------------------------------------------
(* The application *)

AppPublish(q) ==
    /\ conn \in PublishWhen
    /\ PublishCall(q)
    /\ UNCHANGED <<brokerVars, others>>

AppConsume ==
    /\ consumed < MaxConsumed
    /\ consumed' = consumed + 1
    /\ ConsumeMid
    /\ UNCHANGED <<brokerVars, faults, cleanMode>>

AppAck(i, q) == Ack(i, q) /\ UNCHANGED <<brokerVars, others>>

(* The network thread *)

Open == SocketOpened /\ UNCHANGED <<brokerVars, others>>
BeginReconnect == ReconnectReset /\ UNCHANGED <<brokerVars, others>>

(* A new connection: the broker has accepted nothing on it yet.             *)
EndReconnect ==
    /\ SendConnect
    /\ bUp' = FALSE
    /\ UNCHANGED <<bFresh, bRecv, delivered, bState, bQos, others>>

Handler ==
    \/ ConnackAccepted
    \/ ConnackRefused
    \/ HandleAck("PUBACK")
    \/ HandleAck("PUBCOMP")
    \/ HandlePubrec
    \/ HandlePublish
    \/ HandlePubrel
    \/ FreeSlot
    \/ HandOnSlot

Handle == Handler /\ UNCHANGED <<brokerVars, others>>

(* The broker.  After ConnackBroken it may still read what was written.     *)

BrokerReads == conn \in {"down", "connecting", "up"}

BrokerHandles ==
    /\ BrokerReads
    /\ BrokerAccept \/ BrokerReceives
    /\ UNCHANGED <<clientVars, others>>

BrokerSends(i, q) ==
    /\ conn \in {"connecting", "up"}
    /\ BrokerPublish(i, q)
    /\ UNCHANGED <<clientVars, others>>

(* A first packet other than CONNECT makes the broker close the connection. *)
BrokerCloses ==
    /\ conn = "connecting" /\ ~bUp
    /\ toBroker # <<>> /\ Head(toBroker).type # "CONNECT"
    /\ Break
    /\ UNCHANGED <<brokerVars, others>>

-----------------------------------------------------------------------------
(* Faults *)

Fault(kind) ==
    /\ kind \in Faults
    /\ faults < MaxFaults
    /\ faults' = faults + 1
    /\ UNCHANGED <<consumed, cleanMode>>

Lost == Fault("lost") /\ conn = "up" /\ Break /\ UNCHANGED brokerVars
LostEarly == Fault("lost_early") /\ conn = "connecting" /\ Break /\ UNCHANGED brokerVars
LostInConnack(f) == Fault("lost_in_connack") /\ ConnackBroken(f) /\ UNCHANGED brokerVars
NoRoute == Fault("no_route") /\ SocketFailed /\ UNCHANGED brokerVars
Refused ==
    /\ Fault("refused")
    /\ conn = "connecting"
    /\ BrokerRefuse
    /\ UNCHANGED clientVars

AnyFault ==
    \/ Lost \/ LostEarly \/ NoRoute \/ Refused
    \/ \E f \in Pub : LostInConnack(f)

-----------------------------------------------------------------------------
Next ==
    \/ \E q \in OutQos : AppPublish(q)
    \/ AppConsume
    \/ \E i \in In, q \in 1..2 : AppAck(i, q)
    \/ BeginReconnect \/ Open \/ EndReconnect
    \/ Handle
    \/ BrokerHandles
    \/ \E i \in In, q \in InQos : BrokerSends(i, q)
    \/ BrokerCloses
    \/ AnyFault

Spec == Init /\ [][Next]_vars

(* The network thread never stops (loop_forever with retry), the broker     *)
(* answers, and the application acknowledges what it was given.  Publishing *)
(* and faults are never forced.                                             *)
Fairness ==
    /\ WF_vars(BeginReconnect) /\ WF_vars(Open) /\ WF_vars(EndReconnect)
    /\ WF_vars(Handle)
    /\ WF_vars(BrokerHandles) /\ WF_vars(BrokerCloses)
    /\ \A i \in In, q \in 1..2 : WF_vars(AppAck(i, q))

FairSpec == Spec /\ Fairness

-----------------------------------------------------------------------------
(* Properties *)

(* A message is left queued only while the window is full: whoever frees a  *)
(* slot (PUBACK, PUBCOMP, an incoming PUBREL, the reset of a reconnect)     *)
(* hands it on at once, so no queued message waits for an event that never  *)
(* comes.  Only while _handle_pubrel has freed a slot and not yet taken     *)
(* _out_message_mutex is one free.                                          *)
WorkConserving ==
    QueuedPubs # {} =>
        MaxInflight > 0 /\ (pubrel.step = "freed" \/ inflight >= MaxInflight)

(* The loop of _handle_connack over the store stops at the first queued     *)
(* message.  No message it has to send again stands behind one, whoever     *)
(* stored it, in whatever state of the connection: it would not be sent     *)
(* before the next reconnect.                                               *)
ResumeReachesAll ==
    \A p \in QueuedPubs, q \in Live :
        p < q => state[q] \notin {"publish", "resend_pubrel"}

(* No slot of the window leaks: _inflight_messages never exceeds the number *)
(* of messages that wait for an answer of the broker.  A leaked slot would  *)
(* shrink the window for the rest of the connection.                        *)
NoSlotLeak == inflight <= Cardinality(Inflight)

(* on_publish, is_published() and wait_for_publish() report a QoS 1 or 2    *)
(* message only after the broker has passed it on.                          *)
PublishedDelivered == \A p \in Pub : state[p] = "published" => delivered[p] > 0

(* README: with clean_session False, QoS 2 gives "the guarantee of only one *)
(* delivery".                                                               *)
ExactlyOnce == \A p \in Pub : qos[p] = 2 => delivered[p] <= 1

(* A PUBLISH without the DUP flag is the first transmission of its message: *)
(* m.dup follows the message through resets, promotions and resumptions.    *)
RetransmissionsMarked ==
    \A k \in DOMAIN toBroker :
        LET pkt == toBroker[k]
        IN  pkt.type = "PUBLISH" /\ ~pkt.dup => delivered[pkt.msg] = 0

(* The store is a dictionary keyed by mid: after the counter has wrapped no *)
(* two stored messages may share one, whatever other calls took mids.       *)
OneHolder == \A m \in Mid : Cardinality(Holders(m)) <= 1

(* on_message runs once for a QoS 2 message, across duplicates of PUBLISH   *)
(* and PUBREL and across reconnections.                                     *)
InboundOnce == \A i \in In : bQos[i] = 2 => got[i] <= 1

(* The broker forgets a message for good only after on_message got it.      *)
InboundNotLost == \A i \in In : bState[i] = "done" /\ bQos[i] > 0 => got[i] > 0

(* What the session layer promises an application that publishes, stated    *)
(* without packets, windows and connections.                                *)
Promise(p) ==
    IF state[p] \in {"new", "rejected"} THEN "none"
    ELSE IF qos[p] = 1 THEN "at_least_once" ELSE "exactly_once"

Abstract == INSTANCE Delivery WITH
    Messages <- Pub,
    promise <- [p \in Pub |-> Promise(p)],
    copies <- delivered,
    reported <- [p \in Pub |-> state[p] = "published"]

(* Every step of the session is a step of Delivery or leaves it alone: a    *)
(* stored message is never dropped, is passed on at least or exactly once   *)
(* as its QoS says, and is reported once, afterwards.                       *)
ImplementsDelivery == Abstract!Spec

(* Subscribers first see the publications in the order of the publish()     *)
(* calls, although those are sent by publish(), by promotion and by         *)
(* _handle_connack.                                                         *)
FirstDeliveriesInOrder ==
    \A p, q \in Pub :
        p < q /\ state[p] # "rejected" /\ delivered[q] > 0 => delivered[p] > 0

(* connect(clean_start=MQTT_CLEAN_START_FIRST_ONLY): the clean_start flag   *)
(* is sent "on the first successful connect only", so the first session     *)
(* never is one left over from an earlier run of the program.               *)
NoStaleSession == conn = "up" /\ cleanMode # "never" => bFresh

(* Every message publish() accepted is reported as published in the end, if *)
(* the faults end.                                                          *)
EventuallyPublished == \A p \in Pub : p \in Live ~> state[p] = "published"

(* Every message of the broker is completely acknowledged in the end.       *)
InboundCompletes == \A i \in In : Pending(i) ~> ~Pending(i)
=============================================================================
