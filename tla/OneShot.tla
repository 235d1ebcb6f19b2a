------------------------------ MODULE OneShot -------------------------------
(***************************************************************************)
(* The one-shot helpers against a broker: one program calls                *)
(* publish.multiple(), another subscribe.simple().  Both use clean         *)
(* sessions, the default of the helpers.                                   *)
(***************************************************************************)
EXTENDS PublishMultiple, SubscribeSimple

CONSTANTS LiveTopic,      \* where the messages are published
          RetainedTopic,  \* where the broker holds a retained message
          MaxFaults       \* bound: connections that are lost or refused

VARIABLES got,        \* how often the broker received each message
          subscribed, \* the topics of the other program's subscription
          early,      \* the subscription was in force before the first message, and still is
          faults,     \* connections lost
          refusals    \* connections refused

vars == <<pubAll, subAll, got, subscribed, early, faults, refusals>>

OldMessage == 0   \* the retained message

Init ==
    /\ PubInit
    /\ SubInit
    /\ got = [m \in 1..Len(qos) |-> 0]
    /\ subscribed = {}
    /\ early = FALSE
    /\ faults = 0
    /\ refusals = 0

brokerVars == <<got, subscribed, early, faults, refusals>>

-----------------------------------------------------------------------------
PublisherRuns == Loop /\ UNCHANGED <<subAll, brokerVars>>
PublisherFails == ConnectFails /\ UNCHANGED <<subAll, brokerVars>>
SubscriberRuns == SubLoop /\ UNCHANGED <<pubAll, brokerVars>>
SubscriberFails == SubConnectFails /\ UNCHANGED <<pubAll, brokerVars>>

Fault == faults + refusals < MaxFaults

PublisherBreaks ==
    /\ Fault
    /\ faults' = faults + 1
    /\ Break
    /\ UNCHANGED <<subAll, got, subscribed, early, refusals>>

(* What a closed socket had still to deliver is lost with the network.      *)
TailLost ==
    /\ Fault
    /\ conn = "closed"
    /\ toBroker # <<>>
    /\ faults' = faults + 1
    /\ toBroker' = <<>>
    /\ UNCHANGED <<pubVars, toClient, subAll, got, subscribed, early, refusals>>

(* A clean session ends with its connection.                                *)
SubscriberBreaks ==
    /\ Fault
    /\ faults' = faults + 1
    /\ SubBreak
    /\ subscribed' = {}
    /\ early' = FALSE
    /\ UNCHANGED <<pubAll, got, refusals>>

-----------------------------------------------------------------------------
PubTake(type) ==
    /\ toBroker # <<>>
    /\ Head(toBroker).type = type
    /\ toBroker' = Tail(toBroker)
    /\ UNCHANGED pubVars

BrokerAccepts ==
    /\ PubTake("CONNECT")
    /\ \/ /\ toClient' = Append(toClient, Packet("CONNACK"))
          /\ UNCHANGED refusals
       \/ /\ Fault
          /\ refusals' = refusals + 1
          /\ toClient' = Append(toClient, Packet("REFUSED"))
    /\ UNCHANGED <<subAll, got, subscribed, early, faults>>

BrokerReceives ==
    /\ PubTake("PUBLISH")
    /\ LET m == Head(toBroker).msg
       IN  /\ got' = [got EXCEPT ![m] = @ + 1]
           /\ toClient' = IF qos[m] = 0
                          THEN toClient
                          ELSE Append(toClient, [type |-> "PUBACK", msg |-> m])
           /\ subToClient' = IF LiveTopic \in subscribed
                             THEN Append(subToClient, Incoming(m, FALSE))
                             ELSE subToClient
           /\ early' = IF \A k \in 1..Len(qos) : got[k] = 0
                       THEN LiveTopic \in subscribed
                       ELSE early
    /\ UNCHANGED <<subVars, subToBroker, subscribed, faults, refusals>>

BrokerDisconnected ==
    /\ PubTake("DISCONNECT")
    /\ UNCHANGED <<toClient, subAll, brokerVars>>

SubTake(type) ==
    /\ subToBroker # <<>>
    /\ Head(subToBroker).type = type
    /\ subToBroker' = Tail(subToBroker)
    /\ UNCHANGED subVars

BrokerAcceptsSub ==
    /\ SubTake("CONNECT")
    /\ \/ /\ subToClient' = Append(subToClient, SubPacket("CONNACK", ""))
          /\ UNCHANGED refusals
       \/ /\ Fault
          /\ refusals' = refusals + 1
          /\ subToClient' = Append(subToClient, SubPacket("REFUSED", ""))
    /\ UNCHANGED <<pubAll, got, subscribed, early, faults>>

(* A retained message is sent for every SUBSCRIBE, also a repeated one.     *)
BrokerSubscribes ==
    /\ SubTake("SUBSCRIBE")
    /\ LET topic == Head(subToBroker).topic
       IN  /\ subscribed' = subscribed \cup {topic}
           /\ subToClient' = subToClient \o <<SubPacket("SUBACK", topic)>> \o
                  (IF topic = RetainedTopic THEN <<Incoming(OldMessage, TRUE)>> ELSE <<>>)
    /\ UNCHANGED <<pubAll, got, early, faults, refusals>>

BrokerSubDisconnected ==
    /\ SubTake("DISCONNECT")
    /\ subscribed' = {}
    /\ UNCHANGED <<subToClient, pubAll, got, early, faults, refusals>>

Broker ==
    \/ BrokerAccepts \/ BrokerReceives \/ BrokerDisconnected
    \/ BrokerAcceptsSub \/ BrokerSubscribes \/ BrokerSubDisconnected

Next ==
    \/ PublisherRuns \/ PublisherFails \/ PublisherBreaks \/ TailLost
    \/ SubscriberRuns \/ SubscriberFails \/ SubscriberBreaks
    \/ Broker

(* loop_forever() goes on as long as it runs, and the broker answers.       *)
Spec ==
    /\ Init /\ [][Next]_vars
    /\ WF_vars(PublisherRuns) /\ WF_vars(SubscriberRuns) /\ WF_vars(Broker)

-----------------------------------------------------------------------------
TypeOK ==
    /\ next \in 1..(Len(qos) + 1)
    /\ ToSet(store) \subseteq 1..Len(qos)
    /\ unsent \subseteq ToSet(store)
    /\ conn \in {"new", "down", "opening", "up", "closed"}
    /\ result \in {"running", "returned", "raised"}
    /\ msgCount \in 0..MsgCount
    /\ subConn \in {"new", "down", "opening", "up", "closed"}
    /\ subResult \in {"running", "returned", "raised"}

OnTheWay(m) == \E k \in 1..Len(toBroker) : toBroker[k] = PublishPacket(m)

(* multiple() "publishes the messages, then disconnects": when it returns,  *)
(* the broker has every message of QoS 1, or the last bytes of the closed   *)
(* socket hold it, although a reconnection runs two chains of on_publish    *)
(* side by side; and it raises only if the broker refuses it or cannot be   *)
(* reached at first.  Two lost connections are too many for both parts.     *)
EndsAsPromised ==
    faults <= 1 =>
        /\ result = "returned" =>
               /\ Finished
               /\ \A m \in Message : qos[m] = 1 => got[m] > 0 \/ OnTheWay(m)
        /\ result = "raised" => refusals > 0 \/ conn = "new"

(* simple() returns exactly as many messages as it was asked for, whatever  *)
(* else arrives before its DISCONNECT is out and however often it has to    *)
(* subscribe again, and none of the retained ones it was told to ignore.    *)
GathersExactly ==
    /\ TypeOK
    /\ subResult = "returned" =>
          /\ Len(messages) = MsgCount
          /\ ~retained => \A k \in 1..MsgCount : ~messages[k].retain

(* multiple() returns or raises, however often the connection breaks, if    *)
(* the last message has QoS 1: on_connect or the answer to a message that   *)
(* is sent again takes the chain of on_publish up where it broke.           *)
PublisherReturns == qos[Len(qos)] = 1 => <>(result # "running")

(* Both helpers together: simple() returns if its subscription is in force  *)
(* before multiple() sends the first of enough messages, all of QoS 1, and  *)
(* stays so, also if the publisher loses its connection once.               *)
EnoughMessages == Len(qos) >= MsgCount /\ \A m \in Message : qos[m] = 1

HandedOver ==
    <>[](early /\ result = "returned" /\ faults <= 1 /\ EnoughMessages)
        => <>(subResult = "returned")
=============================================================================
