-------------------------- MODULE PublishMultiple ---------------------------
(***************************************************************************)
(* publish.multiple() and the client it drives from callbacks, on one      *)
(* thread: on_connect and each on_publish take the next message from the   *)
(* deque, an on_publish that finds the deque empty disconnects, and        *)
(* loop_forever() reconnects after a lost connection.  Messages are        *)
(* numbered in the order of the list.  What the client does with one       *)
(* message of QoS 1 or 2 is the subject of ClientSession; here a message   *)
(* that is not QoS 0 is stored until one answer comes.                     *)
(***************************************************************************)
EXTENDS Naturals, Sequences, FiniteSets, SequencesExt

CONSTANTS QosLists   \* the lists of QoS of the messages, 0 or 1 each

ASSUME MultipleAssumption == QosLists \subseteq Seq({0, 1}) \ {<<>>}

VARIABLES qos,      \* the QoS of each message
          next,     \* the message at the left end of the deque
          store,    \* _out_messages
          unsent,   \* those of them in state mqtt_ms_publish
          resume,   \* what the loop of _handle_connack has still to visit
          flushing, \* that loop is inside loop_write()
          mutated,  \* _out_messages has grown since that loop began
          outq,     \* _out_packet
          conn,     \* the connection
          ending,   \* MQTT_CS_DISCONNECTING
          result,   \* how multiple() has ended
          toBroker, toClient

pubVars == <<qos, next, store, unsent, resume, flushing, mutated, outq, conn, ending, result>>
pubAll == <<pubVars, toBroker, toClient>>

Message == 1..Len(qos)
Packet(type) == [type |-> type, msg |-> 0]
PublishPacket(m) == [type |-> "PUBLISH", msg |-> m]

PubInit ==
    /\ qos \in QosLists
    /\ next = 1
    /\ store = <<>> /\ unsent = {}
    /\ resume = <<>> /\ flushing = FALSE /\ mutated = FALSE
    /\ outq = <<>>
    /\ conn = "new"
    /\ ending = FALSE
    /\ result = "running"
    /\ toBroker = <<>> /\ toClient = <<>>

-----------------------------------------------------------------------------
(* mutant: the last message is sent and nobody waits for its answer *)
Finished_TooSoon == next >= Len(qos)

Finished == next > Len(qos)

(* _do_publish(), and publish() in a callback: _packet_queue leaves the     *)
(* packet to loop_write().                                                  *)
DoPublish(queue) ==
    /\ next' = next + 1
    /\ outq' = Append(queue, PublishPacket(next))

Stored == IF Finished \/ qos[next] = 0 THEN store ELSE Append(store, next)

(* on_publish; queue is what _out_packet holds when it is called.           *)
OnPublish(queue) ==
    \/ /\ Finished
       /\ ending' = TRUE
       /\ outq' = Append(queue, Packet("DISCONNECT"))
       /\ UNCHANGED next
    \/ ~Finished /\ DoPublish(queue) /\ UNCHANGED ending

-----------------------------------------------------------------------------
Running == result = "running"
Idle == Running /\ resume = <<>> /\ ~flushing

(* reconnect(): what is queued is dropped, what is stored starts again.     *)
Reset_Never == unsent   \* mutant: the stored messages count as sent

Reset == ToSet(store)

Connect ==
    /\ Running
    /\ conn \in {"new", "down"}
    /\ conn' = "opening"
    /\ outq' = <<Packet("CONNECT")>>
    /\ unsent' = Reset
    /\ toBroker' = <<>> /\ toClient' = <<>>
    /\ UNCHANGED <<qos, next, store, resume, flushing, mutated, ending, result>>

(* connect() raises when its first attempt fails; loop_forever() retries    *)
(* later ones.                                                              *)
ConnectFails ==
    /\ Running
    /\ conn = "new"
    /\ result' = "raised"
    /\ UNCHANGED <<qos, next, store, unsent, resume, flushing, mutated, outq, conn, ending,
                   toBroker, toClient>>

(* _packet_write: one packet leaves, the others may have to wait.           *)
WritePublish ==
    /\ LET m == Head(outq).msg
       IN  /\ Head(outq).type = "PUBLISH"
           /\ \/ qos[m] = 0 /\ OnPublish(Tail(outq)) /\ store' = Stored
              \/ qos[m] = 1 /\ outq' = Tail(outq) /\ UNCHANGED <<next, store, ending>>
    /\ mutated' = (mutated \/ (resume # <<>> /\ store' # store))
    /\ UNCHANGED <<conn, result>>

WriteConnect ==
    /\ Head(outq).type = "CONNECT"
    /\ outq' = Tail(outq)
    /\ UNCHANGED <<next, store, mutated, conn, ending, result>>

(* The socket is closed behind DISCONNECT, and loop_forever() returns.      *)
WriteDisconnect ==
    /\ Head(outq).type = "DISCONNECT"
    /\ outq' = Tail(outq)
    /\ conn' = "closed"
    /\ result' = "returned"
    /\ UNCHANGED <<next, store, mutated, ending>>

Write ==
    /\ Running
    /\ conn \in {"opening", "up"}
    /\ resume # <<>> => flushing
    /\ outq # <<>>
    /\ toBroker' = Append(toBroker, Head(outq))
    /\ WriteConnect \/ WritePublish \/ WriteDisconnect
    /\ UNCHANGED <<qos, unsent, resume, flushing, toClient>>

-----------------------------------------------------------------------------
Arrived(type) ==
    /\ Idle
    /\ conn \in {"opening", "up"}
    /\ toClient # <<>>
    /\ Head(toClient).type = type
    /\ toClient' = Tail(toClient)
    /\ UNCHANGED toBroker

(* on_connect comes first; then the loop over _out_messages, which finds    *)
(* the message on_connect has just published too.                           *)
Connack ==
    /\ Arrived("CONNACK")
    /\ conn' = "up"
    /\ IF Finished THEN UNCHANGED <<next, outq>> ELSE DoPublish(outq)
    /\ store' = Stored
    /\ resume' = Stored
    /\ mutated' = FALSE
    /\ UNCHANGED <<qos, unsent, flushing, ending, result>>

(* on_connect raises MQTTException.                                         *)
ConnackRefused ==
    /\ Arrived("REFUSED")
    /\ result' = "raised"
    /\ UNCHANGED <<qos, next, store, unsent, resume, flushing, mutated, outq, conn, ending>>

(* One turn of the loop: the message is sent if the reset has put it into   *)
(* state mqtt_ms_publish, and loop_write() runs in any case.                *)
ResumeNext ==
    /\ Running
    /\ resume # <<>> /\ ~flushing /\ ~mutated
    /\ LET m == Head(resume)
       IN  /\ outq' = IF m \in unsent THEN Append(outq, PublishPacket(m)) ELSE outq
           /\ unsent' = unsent \ {m}
    /\ resume' = Tail(resume)
    /\ flushing' = TRUE
    /\ UNCHANGED <<qos, next, store, mutated, conn, ending, result, toBroker, toClient>>

(* loop_write() has written everything, or all the socket takes.            *)
FlushEnds ==
    /\ Running
    /\ flushing
    /\ flushing' = FALSE
    /\ UNCHANGED <<qos, next, store, unsent, resume, mutated, outq, conn, ending, result,
                   toBroker, toClient>>

(* An on_publish inside loop_write() has added to the dictionary the loop   *)
(* iterates over: Python raises RuntimeError.                               *)
ResumeRaises ==
    /\ Running
    /\ resume # <<>> /\ ~flushing /\ mutated
    /\ result' = "raised"
    /\ UNCHANGED <<qos, next, store, unsent, resume, flushing, mutated, outq, conn, ending,
                   toBroker, toClient>>

(* on_publish runs before the message is taken out of _out_messages.        *)
Puback ==
    /\ Arrived("PUBACK")
    /\ LET m == Head(toClient).msg
       IN  \/ /\ m \in ToSet(store)
              /\ OnPublish(outq)
              /\ store' = RemoveFirst(Stored, m)
           \/ /\ m \notin ToSet(store)
              /\ UNCHANGED <<outq, ending, next, store>>
    /\ UNCHANGED <<qos, unsent, resume, flushing, mutated, conn, result>>

(* The connection is lost; after disconnect() that ends loop_forever() too. *)
(* Inside the loop of _handle_connack its exception would come first.       *)
Break ==
    /\ Running
    /\ ~(mutated /\ resume # <<>>)
    /\ conn \in {"opening", "up"}
    /\ toBroker' = <<>> /\ toClient' = <<>>
    /\ resume' = <<>> /\ flushing' = FALSE
    /\ conn' = IF ending THEN "closed" ELSE "down"
    /\ result' = IF ending THEN "returned" ELSE result
    /\ UNCHANGED <<qos, next, store, unsent, mutated, outq, ending>>

Loop ==
    \/ Connect \/ Write
    \/ Connack \/ ConnackRefused \/ Puback
    \/ ResumeNext \/ FlushEnds \/ ResumeRaises
=============================================================================
