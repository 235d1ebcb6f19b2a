------------------------------- MODULE Wire -------------------------------
(***************************************************************************)
(* The packets the session layer of paho.mqtt exchanges with a broker and  *)
(* the two directions of one TCP connection.  A packet carries the fields  *)
(* the handlers of src/paho/mqtt/client.py look at; topic, payload,        *)
(* properties and encoding are represented by the identity of the message. *)
(***************************************************************************)
EXTENDS Integers, Sequences, FiniteSets

CONSTANTS MaxMid,   \* the last message id before the counter wraps (65535 in the code)
          MaxPub,   \* bound: the calls of publish() with QoS 1 or 2
          MaxIn     \* bound: the messages the broker sends to the client

ASSUME WireAssumption ==
    /\ MaxMid \in Nat \ {0}
    /\ MaxPub \in Nat \ {0}
    /\ MaxIn \in Nat

Mid == 1..MaxMid
Pub == 1..MaxPub    \* publications, numbered in the order of the publish() calls
In == 1..MaxIn      \* messages of the broker; message i travels under the broker's mid i

VARIABLES toBroker,  \* the client's out queue and the bytes on their way, as one FIFO
          toClient   \* the FIFO of the other direction

wireVars == <<toBroker, toClient>>

-----------------------------------------------------------------------------
Connect(clean) == [type |-> "CONNECT", clean |-> clean]
Connack(ok) == [type |-> "CONNACK", ok |-> ok]
Publish(p, m, q, d) == [type |-> "PUBLISH", msg |-> p, mid |-> m, qos |-> q, dup |-> d]
InPublish(i, q) == [type |-> "PUBLISH", mid |-> i, qos |-> q]
WithMid(t, m) == [type |-> t, mid |-> m]    \* PUBACK, PUBREC, PUBREL and PUBCOMP

ToBrokerPacket ==
         [type : {"CONNECT"}, clean : BOOLEAN]
    \cup [type : {"PUBLISH"}, msg : Pub, mid : Mid, qos : 1..2, dup : BOOLEAN]
    \cup [type : {"PUBREL"}, mid : Mid]
    \cup [type : {"PUBACK", "PUBREC", "PUBCOMP"}, mid : In]

ToClientPacket ==
         [type : {"CONNACK"}, ok : BOOLEAN]
    \cup [type : {"PUBACK", "PUBREC", "PUBCOMP"}, mid : Mid]
    \cup [type : {"PUBLISH"}, mid : In, qos : 0..2]
    \cup [type : {"PUBREL"}, mid : In]

WireTypeOK ==
    /\ toBroker \in Seq(ToBrokerPacket)
    /\ toClient \in Seq(ToClientPacket)

(* A finite set of numbers in ascending order: the order of the store of    *)
(* the client and of the session of the broker.                             *)
Rank(S, n) == Cardinality({k \in S : k <= n})
InOrder(S) == [r \in 1..Cardinality(S) |-> CHOOSE n \in S : Rank(S, n) = r]

Arrives(channel, t) == channel # <<>> /\ Head(channel).type = t
=============================================================================
