------------------------------- MODULE Broker -------------------------------
(***************************************************************************)
(* The broker at the other end of the connection.  It is not code of this  *)
(* repository: it does what the MQTT specification asks of a server, which *)
(* is what the handlers of client.py rely on and what the tests of         *)
(* tests/lib play.  Its session outlives the connections.                  *)
(***************************************************************************)
EXTENDS Wire

CONSTANTS StaleMids,  \* mids a session left by an earlier run of the program may hold
          InQos       \* the QoS of the messages the broker sends

ASSUME BrokerAssumption == StaleMids \subseteq Mid /\ InQos \subseteq 0..2

VARIABLES bUp,        \* CONNECT was accepted on this connection
          bFresh,     \* the session was created for this Client object
          bRecv,      \* mids of QoS 2 messages received and not yet released
          delivered,  \* how often each publication was passed on to the subscribers
          bState,     \* progress of each message to the client
          bQos        \* its QoS

brokerVars == <<bUp, bFresh, bRecv, delivered, bState, bQos>>

BStates == {"idle", "sent", "rel", "done", "dropped"}

BrokerTypeOK ==
    /\ bUp \in BOOLEAN
    /\ bFresh \in BOOLEAN
    /\ bRecv \subseteq Mid
    /\ delivered \in [Pub -> Nat]
    /\ bState \in [In -> BStates]
    /\ bQos \in [In -> 0..2]

BrokerInit ==
    /\ bUp = FALSE
    /\ bFresh = (StaleMids = {})
    /\ bRecv \in SUBSET StaleMids
    /\ delivered = [p \in Pub |-> 0]
    /\ bState = [i \in In |-> "idle"]
    /\ bQos = [i \in In |-> 0]

-----------------------------------------------------------------------------
Take(t) == Arrives(toBroker, t) /\ toBroker' = Tail(toBroker)

Reply(pkt) == toClient' = Append(toClient, pkt)

(* What a resumed session sends again after CONNACK.                        *)
Pending(i) == bState[i] \in {"sent", "rel"}
PendingSeq ==
    LET S == {i \in In : Pending(i)}
    IN  [k \in 1..Cardinality(S) |->
            LET i == InOrder(S)[k]
            IN  IF bState[i] = "sent" THEN InPublish(i, bQos[i]) ELSE WithMid("PUBREL", i)]

BrokerAccept ==
    /\ ~bUp
    /\ Take("CONNECT")
    /\ bUp' = TRUE
    /\ \/ /\ Head(toBroker).clean
          /\ bFresh' = TRUE
          /\ bRecv' = {}
          /\ bState' = [i \in In |-> IF Pending(i) THEN "dropped" ELSE bState[i]]
          /\ Reply(Connack(TRUE))
       \/ /\ ~Head(toBroker).clean
          /\ toClient' = Append(toClient, Connack(TRUE)) \o PendingSeq
          /\ UNCHANGED <<bFresh, bRecv, bState>>
    /\ UNCHANGED <<delivered, bQos>>

BrokerRefuse ==
    /\ ~bUp
    /\ Take("CONNECT")
    /\ Reply(Connack(FALSE))
    /\ UNCHANGED brokerVars

(* A QoS 2 publication is passed on when its PUBLISH arrives, and its mid   *)
(* is remembered until PUBREL so that a repeated PUBLISH is not.            *)
BrokerPublished ==
    /\ bUp
    /\ Take("PUBLISH")
    /\ LET pkt == Head(toBroker)
       IN  \/ /\ pkt.qos = 1
              /\ delivered' = [delivered EXCEPT ![pkt.msg] = @ + 1]
              /\ Reply(WithMid("PUBACK", pkt.mid))
              /\ UNCHANGED bRecv
           \/ /\ pkt.qos = 2
              /\ delivered' = IF pkt.mid \in bRecv
                              THEN delivered
                              ELSE [delivered EXCEPT ![pkt.msg] = @ + 1]
              /\ bRecv' = bRecv \cup {pkt.mid}
              /\ Reply(WithMid("PUBREC", pkt.mid))
    /\ UNCHANGED <<bUp, bFresh, bState, bQos>>

BrokerReleased ==
    /\ bUp
    /\ Take("PUBREL")
    /\ bRecv' = bRecv \ {Head(toBroker).mid}
    /\ Reply(WithMid("PUBCOMP", Head(toBroker).mid))
    /\ UNCHANGED <<bUp, bFresh, delivered, bState, bQos>>

BrokerPublish(i, q) ==
    /\ bUp
    /\ bState[i] = "idle"
    /\ \A j \in In : j < i => bState[j] # "idle"
    /\ bState' = [bState EXCEPT ![i] = IF q = 0 THEN "done" ELSE "sent"]
    /\ bQos' = [bQos EXCEPT ![i] = q]
    /\ Reply(InPublish(i, q))
    /\ UNCHANGED <<bUp, bFresh, bRecv, delivered, toBroker>>

(* An acknowledgement that fits no pending message is ignored.              *)
BrokerAcked(t, q, from, to) ==
    /\ bUp
    /\ Take(t)
    /\ LET i == Head(toBroker).mid
           fits == bState[i] = from /\ bQos[i] = q
       IN  /\ bState' = IF fits THEN [bState EXCEPT ![i] = to] ELSE bState
           /\ toClient' = IF fits /\ to = "rel"
                          THEN Append(toClient, WithMid("PUBREL", i))
                          ELSE toClient
    /\ UNCHANGED <<bUp, bFresh, bRecv, delivered, bQos>>

BrokerAck ==
    \/ BrokerAcked("PUBACK", 1, "sent", "done")
    \/ BrokerAcked("PUBREC", 2, "sent", "rel")
    \/ BrokerAcked("PUBCOMP", 2, "rel", "done")

BrokerReceives == BrokerPublished \/ BrokerReleased \/ BrokerAck
=============================================================================
