-------------------------- MODULE SubscribeSimple ---------------------------
(***************************************************************************)
(* subscribe.simple() over subscribe.callback() and the client they drive  *)
(* from callbacks, on one thread: on_connect subscribes to each topic of   *)
(* the list, on_message collects MsgCount messages and disconnects.        *)
(***************************************************************************)
EXTENDS Naturals, Sequences, SequencesExt

CONSTANTS SubTopics,  \* the list of topics
          MsgCount,   \* msg_count
          Retained    \* the values of the parameter retained to try

ASSUME SimpleAssumption ==
    SubTopics \in Seq(ToSet(SubTopics)) /\ MsgCount \in Nat \ {0} /\ Retained \subseteq BOOLEAN

VARIABLES retained,   \* the parameter
          msgCount,   \* messages still wanted
          messages,   \* messages collected
          subOutq,    \* _out_packet
          subConn,    \* the connection
          subEnding,  \* MQTT_CS_DISCONNECTING
          subResult,  \* how simple() has ended
          subToBroker, subToClient

subVars == <<retained, msgCount, messages, subOutq, subConn, subEnding, subResult>>
subAll == <<subVars, subToBroker, subToClient>>

SubPacket(type, topic) == [type |-> type, topic |-> topic]
Incoming(m, flag) == [type |-> "PUBLISH", msg |-> m, retain |-> flag]

SubInit ==
    /\ retained \in Retained
    /\ msgCount = MsgCount
    /\ messages = <<>>
    /\ subOutq = <<>>
    /\ subConn = "new"
    /\ subEnding = FALSE
    /\ subResult = "running"
    /\ subToBroker = <<>> /\ subToClient = <<>>

SubRunning == subResult = "running"

SubConnect ==
    /\ SubRunning
    /\ subConn \in {"new", "down"}
    /\ subConn' = "opening"
    /\ subOutq' = <<SubPacket("CONNECT", "")>>
    /\ subToBroker' = <<>> /\ subToClient' = <<>>
    /\ UNCHANGED <<retained, msgCount, messages, subEnding, subResult>>

SubConnectFails ==
    /\ SubRunning
    /\ subConn = "new"
    /\ subResult' = "raised"
    /\ UNCHANGED <<retained, msgCount, messages, subOutq, subConn, subEnding,
                   subToBroker, subToClient>>

(* The socket is closed behind DISCONNECT, and loop_forever() returns.      *)
SubWrite ==
    /\ SubRunning
    /\ subConn \in {"opening", "up"}
    /\ subOutq # <<>>
    /\ subOutq' = Tail(subOutq)
    /\ subToBroker' = Append(subToBroker, Head(subOutq))
    /\ IF Head(subOutq).type = "DISCONNECT"
       THEN subConn' = "closed" /\ subResult' = "returned"
       ELSE UNCHANGED <<subConn, subResult>>
    /\ UNCHANGED <<retained, msgCount, messages, subEnding, subToClient>>

SubArrived(type) ==
    /\ SubRunning
    /\ subConn \in {"opening", "up"}
    /\ subToClient # <<>>
    /\ Head(subToClient).type = type
    /\ subToClient' = Tail(subToClient)
    /\ UNCHANGED <<retained, subToBroker>>

(* subscribe() in a callback: one SUBSCRIBE for each topic is queued.       *)
Subscribe(topics) ==
    subOutq' = subOutq \o [i \in 1..Len(topics) |-> SubPacket("SUBSCRIBE", topics[i])]

SubConnack ==
    /\ SubArrived("CONNACK")
    /\ subConn' = "up"
    /\ Subscribe(SubTopics)
    /\ UNCHANGED <<msgCount, messages, subEnding, subResult>>

SubConnackRefused ==
    /\ SubArrived("REFUSED")
    /\ subResult' = "raised"
    /\ UNCHANGED <<msgCount, messages, subOutq, subConn, subEnding>>

(* _handle_suback only calls on_subscribe, which the helper does not set.   *)
Suback ==
    /\ SubArrived("SUBACK")
    /\ UNCHANGED <<msgCount, messages, subOutq, subConn, subEnding, subResult>>

(* mutants: the first test is not there; the parameter asks for retained    *)
(* messages only                                                            *)
Wanted_All(pkt) == pkt.retain => retained
Wanted_OnlyRetained(pkt) == msgCount > 0 /\ pkt.retain = retained

(* Messages behind the last one wanted are ignored until the client has     *)
(* written DISCONNECT, and so are retained ones if they are not wanted.     *)
Wanted(pkt) == msgCount > 0 /\ (pkt.retain => retained)

OnMessageSimple ==
    /\ SubArrived("PUBLISH")
    /\ LET pkt == Head(subToClient)
       IN  \/ /\ Wanted(pkt)
              /\ msgCount' = IF msgCount = 0 THEN 0 ELSE msgCount - 1
              /\ messages' = Append(messages, pkt)
              /\ \/ /\ msgCount' = 0
                    /\ subEnding' = TRUE
                    /\ subOutq' = Append(subOutq, SubPacket("DISCONNECT", ""))
                 \/ /\ msgCount' > 0
                    /\ UNCHANGED <<subEnding, subOutq>>
           \/ /\ ~Wanted(pkt)
              /\ UNCHANGED <<msgCount, messages, subEnding, subOutq>>
    /\ UNCHANGED <<subConn, subResult>>

SubBreak ==
    /\ SubRunning
    /\ subConn \in {"opening", "up"}
    /\ subToBroker' = <<>> /\ subToClient' = <<>>
    /\ subConn' = IF subEnding THEN "closed" ELSE "down"
    /\ subResult' = IF subEnding THEN "returned" ELSE subResult
    /\ UNCHANGED <<retained, msgCount, messages, subOutq, subEnding>>

SubLoop ==
    \/ SubConnect \/ SubWrite
    \/ SubConnack \/ SubConnackRefused \/ Suback \/ OnMessageSimple
=============================================================================
