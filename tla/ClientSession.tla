--------------------------- MODULE ClientSession ---------------------------
(***************************************************************************)
(* The session layer of the paho.mqtt Client (src/paho/mqtt/client.py) in  *)
(* the threaded interface (loop_start): publish() and ack() run on the     *)
(* application's threads, everything else on the network thread.           *)
(* publish() and the handlers of PUBACK, PUBREC, PUBCOMP and CONNACK hold  *)
(* _out_message_mutex while they work on the store, so each is one step.   *)
(* reconnect() is three steps, because it holds no lock from one to the    *)
(* next, and so is _handle_pubrel, which changes _inflight_messages        *)
(* without that lock.                                                      *)
(*                                                                         *)
(* _out_messages is an OrderedDict in publish() order.  Publications are   *)
(* numbered in that order, so the store is the set Live and its order the  *)
(* order of the numbers.                                                   *)
(***************************************************************************)
EXTENDS Wire

CONSTANTS MaxInflight,   \* _max_inflight_messages, 0 for no limit
          MaxQueued,     \* _max_queued_messages, 0 for no limit
          CleanModes,    \* the ways CONNECT may ask for a clean session, see CleanSession
          ManualAck      \* _manual_ack

ASSUME ClientAssumption ==
    /\ MaxInflight \in Nat
    /\ MaxQueued \in Nat
    /\ CleanModes \subseteq {"always", "never", "first"}
    /\ ManualAck \in BOOLEAN

VARIABLES cleanMode,     \* clean_session or clean_start, fixed for the run
          conn,          \* where the connection is, see Connections
          firstConnect,  \* _mqttv5_first_connect
          nextPub,       \* the next publication the application makes
          state,         \* MQTTMessage.state of each publication
          qos, mid, dup, \* MQTTMessage.qos, mid and dup of each publication
          inflight,      \* _inflight_messages
          lastMid,       \* _last_mid
          inMsg,         \* the keys of _in_messages
          got,           \* how often on_message ran for each message of the broker
          unacked,       \* <<message, QoS>> the application still has to ack() by hand
          pubrel         \* how far _handle_pubrel is, see Releases

outVars == <<nextPub, state, qos, mid, dup>>
inVars == <<inMsg, got, unacked, pubrel>>
clientVars == <<conn, firstConnect, outVars, inflight, lastMid, inVars>>

(* down: no socket.  opening: reconnect() has reset the session and opens   *)
(* the socket.  opened: _sock is set, CONNECT is not queued yet.            *)
(* connecting: CONNECT is queued.  up: CONNACK with result 0 was handled.   *)
Connections == {"down", "opening", "opened", "connecting", "up"}
HasSocket == conn \in {"opened", "connecting", "up"}

(* read: _handle_pubrel has passed message mid on and is to lower           *)
(* _inflight_messages, which was read then.  freed: it has, and waits for   *)
(* _out_message_mutex.  Until it is done the network thread does nothing    *)
(* else.                                                                    *)
NoRelease == [step |-> "none", mid |-> 0, read |-> 0]
Releases == {NoRelease} \cup [step : {"read", "freed"}, mid : In, read : Int]
Idle == pubrel.step = "none"

Waiting == {"wait_for_puback", "wait_for_pubrec", "wait_for_pubcomp"}
Stored == Waiting \cup {"publish", "resend_pubrel", "queued"}
States == Stored \cup {"new", "rejected", "published"}

In_(S) == {p \in Pub : state[p] \in S}
Live == In_(Stored)                    \* the values of _out_messages
Inflight == In_(Waiting)
QueuedPubs == In_({"queued"})
Holders(m) == {p \in Live : mid[p] = m}  \* _out_messages[m], if there is one

ClientTypeOK ==
    /\ cleanMode \in CleanModes
    /\ conn \in Connections
    /\ firstConnect \in BOOLEAN
    /\ nextPub \in 1..MaxPub + 1
    /\ state \in [Pub -> States]
    /\ qos \in [Pub -> 1..2]
    /\ mid \in [Pub -> Mid]
    /\ dup \in [Pub -> BOOLEAN]
    /\ inflight \in Int
    /\ lastMid \in 0..MaxMid
    /\ inMsg \subseteq In
    /\ got \in [In -> Nat]
    /\ unacked \subseteq In \X (1..2)
    /\ pubrel \in Releases

ClientInit ==
    /\ cleanMode \in CleanModes
    /\ conn = "down"
    /\ firstConnect = TRUE
    /\ nextPub = 1
    /\ state = [p \in Pub |-> "new"]
    /\ qos = [p \in Pub |-> 1]
    /\ mid = [p \in Pub |-> 1]
    /\ dup = [p \in Pub |-> FALSE]
    /\ inflight = 0
    /\ lastMid = 0
    /\ inMsg = {}
    /\ got = [i \in In |-> 0]
    /\ unacked = {}
    /\ pubrel = NoRelease

-----------------------------------------------------------------------------
(* Helpers *)

(* mutant: MQTT_CLEAN_START_FIRST_ONLY is taken for False *)
CleanSession_NeverFirst == cleanMode = "always"

(* clean_session of MQTT 3, or clean_start of MQTT 5; "first" is            *)
(* MQTT_CLEAN_START_FIRST_ONLY.                                             *)
CleanSession == cleanMode = "always" \/ (cleanMode = "first" /\ firstConnect)

NextMid_NoWrap == lastMid + 1   \* mutant: the counter is never set back to 1

NextMid == IF lastMid = MaxMid THEN 1 ELSE lastMid + 1

HasSlot(n) == MaxInflight = 0 \/ n < MaxInflight

WaitState(q) == IF q = 1 THEN "wait_for_puback" ELSE "wait_for_pubrec"

(* mutant: the free slots are computed one too low *)
Promoted_OffByOne(st, n) ==
    LET Q == {p \in Pub : st[p] = "queued"}
    IN  {p \in Q : MaxInflight > 0 /\ n + Rank(Q, p) < MaxInflight}

Promoted_None(st, n) == {}   \* mutant: nothing is promoted

(* mutant: the youngest queued messages are promoted *)
Promoted_Youngest(st, n) ==
    LET Q == {p \in Pub : st[p] = "queued"}
    IN  {p \in Q : MaxInflight > 0 /\ n + Cardinality({q \in Q : q >= p}) <= MaxInflight}

(* The queued messages that n messages in flight leave room for.            *)
Promoted(st, n) ==
    LET Q == {p \in Pub : st[p] = "queued"}
    IN  {p \in Q : MaxInflight > 0 /\ n + Rank(Q, p) <= MaxInflight}

PublishPackets(S) ==
    [k \in 1..Cardinality(S) |->
        LET p == InOrder(S)[k] IN Publish(p, mid[p], qos[p], dup[p])]

(* _update_inflight, called with the store st and n messages in flight: the *)
(* promoted messages are sent after the packets queued so far and before    *)
(* those in last.                                                           *)
UpdateInflight(st, n, last) ==
    LET S == Promoted(st, n)
    IN  /\ state' = [p \in Pub |-> IF p \in S THEN WaitState(qos[p]) ELSE st[p]]
        /\ inflight' = n + Cardinality(S)
        /\ toBroker' = toBroker \o PublishPackets(S) \o last

-----------------------------------------------------------------------------
(* publish() with QoS 1 or 2, on an application thread *)

(* mutant: the store is not searched for the new message id *)
CanStore_AnyMid(m) == MaxQueued = 0 \/ Cardinality(Live) < MaxQueued

CanStore(m) ==
    /\ MaxQueued = 0 \/ Cardinality(Live) < MaxQueued
    /\ Holders(m) = {}

(* publish() takes a message id before it looks whether it may store.       *)
Call(q, st) ==
    /\ nextPub \in Pub
    /\ nextPub' = nextPub + 1
    /\ lastMid' = NextMid
    /\ state' = [state EXCEPT ![nextPub] = st]
    /\ qos' = [qos EXCEPT ![nextPub] = q]
    /\ mid' = [mid EXCEPT ![nextPub] = NextMid]
    /\ UNCHANGED <<conn, firstConnect, dup, inVars, toClient>>

PublishRejected(q) ==
    /\ ~CanStore(NextMid)
    /\ Call(q, "rejected")
    /\ UNCHANGED <<inflight, toBroker>>

PublishSent(q) ==
    /\ CanStore(NextMid) /\ HasSlot(inflight) /\ HasSocket
    /\ Call(q, WaitState(q))
    /\ inflight' = inflight + 1
    /\ toBroker' = Append(toBroker, Publish(nextPub, NextMid, q, FALSE))

(* mutant: the slot is not given back when there is no socket *)
PublishOffline_Leak(q) ==
    /\ CanStore(NextMid) /\ HasSlot(inflight) /\ ~HasSocket
    /\ Call(q, "publish")
    /\ inflight' = inflight + 1
    /\ UNCHANGED toBroker

(* Without a socket the message stays in state publish, not in flight.      *)
PublishOffline(q) ==
    /\ CanStore(NextMid) /\ HasSlot(inflight) /\ ~HasSocket
    /\ Call(q, "publish")
    /\ UNCHANGED <<inflight, toBroker>>

PublishQueued(q) ==
    /\ CanStore(NextMid) /\ ~HasSlot(inflight)
    /\ Call(q, "queued")
    /\ UNCHANGED <<inflight, toBroker>>

PublishCall(q) ==
    PublishRejected(q) \/ PublishSent(q) \/ PublishOffline(q) \/ PublishQueued(q)

(* subscribe(), unsubscribe() and publish() with QoS 0 draw from the same   *)
(* counter and look at no store.                                            *)
ConsumeMid ==
    /\ lastMid' = NextMid
    /\ UNCHANGED <<conn, firstConnect, outVars, inflight, inVars, wireVars>>

-----------------------------------------------------------------------------
(* reconnect(), on the network thread *)

(* mutant: the session is not resumed at PUBREL *)
ResetState_Republish(p) == "publish"

(* mutant: every QoS 2 message in flight is resumed at PUBREL *)
ResetState_Pubrel(p) ==
    IF qos[p] = 2 /\ state[p] \in Waiting THEN "resend_pubrel" ELSE "publish"

ResetState(p) ==
    IF qos[p] = 2 /\ ~CleanSession /\ state[p] = "wait_for_pubcomp"
    THEN "resend_pubrel"
    ELSE "publish"

ResetDup_QoS1Only(p) == dup[p] \/ state[p] = "wait_for_puback"   \* mutant

ResetDup(p) ==
    \/ dup[p]
    \/ qos[p] = 1 /\ state[p] = "wait_for_puback"
    \/ qos[p] = 2 /\ IF CleanSession THEN state[p] # "publish"
                                     ELSE state[p] = "wait_for_pubrec"

(* _messages_reconnect_reset_out sets _inflight_messages to 0 and nothing   *)
(* in its loop raises it, so its branch for a full window is not taken.     *)
ResetOut ==
    /\ state' = [p \in Pub |-> IF p \in Live THEN ResetState(p) ELSE state[p]]
    /\ dup' = [p \in Pub |-> IF p \in Live THEN ResetDup(p) ELSE dup[p]]
    /\ inflight' = 0

ResetIn_Forget == inMsg' = {}   \* mutant: the session is forgotten

(* Only QoS 2 messages are ever put into _in_messages.                      *)
ResetIn == inMsg' = IF CleanSession THEN {} ELSE inMsg

ReconnectReset ==
    /\ conn = "down"
    /\ conn' = "opening"
    /\ ResetOut
    /\ ResetIn
    /\ toBroker' = <<>> /\ toClient' = <<>>
    /\ UNCHANGED <<firstConnect, nextPub, qos, mid, lastMid, got, unacked, pubrel>>

SocketOpened ==
    /\ conn = "opening"
    /\ conn' = "opened"
    /\ UNCHANGED <<firstConnect, outVars, inflight, lastMid, inVars, wireVars>>

SocketFailed ==
    /\ conn = "opening"
    /\ conn' = "down"
    /\ toBroker' = <<>>
    /\ UNCHANGED <<firstConnect, outVars, inflight, lastMid, inVars, toClient>>

SendConnect ==
    /\ conn = "opened"
    /\ conn' = "connecting"
    /\ toBroker' = Append(toBroker, Connect(CleanSession))
    /\ UNCHANGED <<firstConnect, outVars, inflight, lastMid, inVars, toClient>>

(* The connection breaks and the loop closes the socket.                    *)
Break ==
    /\ Idle
    /\ conn' = "down"
    /\ toBroker' = <<>> /\ toClient' = <<>>
    /\ UNCHANGED <<firstConnect, outVars, inflight, lastMid, inVars>>

-----------------------------------------------------------------------------
(* The handlers of the packets from the broker *)

Receive(t) ==
    /\ Idle
    /\ conn \in {"connecting", "up"}
    /\ Arrives(toClient, t)
    /\ toClient' = Tail(toClient)

(* What the loop of _handle_connack over _out_messages sends again: it      *)
(* returns at the first queued message.                                     *)
Resumable ==
    {p \in In_({"publish", "resend_pubrel"}) : \A q \in QueuedPubs : p < q}

ResumedState(p) ==
    IF state[p] = "resend_pubrel" THEN "wait_for_pubcomp" ELSE WaitState(qos[p])

ResumePackets(S) ==
    [k \in 1..Cardinality(S) |->
        LET p == InOrder(S)[k]
        IN  IF state[p] = "resend_pubrel"
            THEN WithMid("PUBREL", mid[p])
            ELSE Publish(p, mid[p], qos[p], dup[p])]

Resume(S) ==
    /\ state' = [p \in Pub |-> IF p \in S THEN ResumedState(p) ELSE state[p]]
    /\ inflight' = inflight + Cardinality(S)

ConnackAccepted ==
    /\ Receive("CONNACK")
    /\ Head(toClient).ok
    /\ conn' = "up"
    /\ firstConnect' = FALSE
    /\ Resume(Resumable)
    /\ toBroker' = toBroker \o ResumePackets(Resumable)
    /\ UNCHANGED <<nextPub, qos, mid, dup, lastMid, inVars>>

(* loop_write() after message f finds the connection broken and closes it.  *)
(* The loop goes on: _send_pubrel does not look at the socket, the next     *)
(* _send_publish does, but only after its message is marked in flight.      *)
(* What was written up to f may still reach the broker.                     *)
ConnackBroken(f) ==
    LET Written == {p \in Resumable : p <= f}
        Marked == {p \in Resumable :
                     \A q \in Resumable : f < q /\ q < p => state[q] = "resend_pubrel"}
    IN  /\ Receive("CONNACK")
        /\ Head(toClient).ok
        /\ f \in Resumable
        /\ conn' = "down"
        /\ firstConnect' = FALSE
        /\ Resume(Marked)
        /\ toBroker' = toBroker \o ResumePackets(Written)
        /\ UNCHANGED <<nextPub, qos, mid, dup, lastMid, inVars>>

(* The error code of a refused CONNACK makes the loop close the socket.     *)
ConnackRefused ==
    /\ Receive("CONNACK")
    /\ ~Head(toClient).ok
    /\ conn' = "down"
    /\ firstConnect' = FALSE
    /\ toBroker' = <<>>
    /\ UNCHANGED <<outVars, inflight, lastMid, inVars>>

(* _handle_pubackcomp and _do_on_publish: PUBACK and PUBCOMP end a message  *)
(* whatever its state and its QoS.                                          *)
HandleAck(t) ==
    /\ Receive(t)
    /\ LET m == Head(toClient).mid
       IN  \/ \E p \in Holders(m) :
                UpdateInflight([state EXCEPT ![p] = "published"], inflight - 1, <<>>)
           \/ /\ Holders(m) = {}
              /\ UNCHANGED <<state, inflight, toBroker>>
    /\ UNCHANGED <<conn, firstConnect, nextPub, qos, mid, dup, lastMid, inVars>>

HandlePubrec ==
    /\ Receive("PUBREC")
    /\ LET m == Head(toClient).mid
       IN  \/ \E p \in Holders(m) :
                /\ state' = [state EXCEPT ![p] = "wait_for_pubcomp"]
                /\ toBroker' = Append(toBroker, WithMid("PUBREL", m))
           \/ /\ Holders(m) = {}
              /\ UNCHANGED <<state, toBroker>>
    /\ UNCHANGED <<conn, firstConnect, nextPub, qos, mid, dup, inflight, lastMid, inVars>>

(* on_message runs; with manual acknowledgement the application owes ack(). *)
Deliver(i, q) ==
    /\ got' = [got EXCEPT ![i] = @ + 1]
    /\ unacked' = IF ManualAck /\ q > 0 THEN unacked \cup {<<i, q>>} ELSE unacked

HandlePublish ==
    /\ Receive("PUBLISH")
    /\ LET i == Head(toClient).mid
           q == Head(toClient).qos
       IN  \/ /\ q < 2
              /\ Deliver(i, q)
              /\ toBroker' = IF q = 1 /\ ~ManualAck
                             THEN Append(toBroker, WithMid("PUBACK", i))
                             ELSE toBroker
              /\ UNCHANGED inMsg
           \/ /\ q = 2
              /\ inMsg' = inMsg \cup {i}
              /\ toBroker' = Append(toBroker, WithMid("PUBREC", i))
              /\ UNCHANGED <<got, unacked>>
    /\ UNCHANGED <<conn, firstConnect, outVars, inflight, lastMid, pubrel>>

(* mutant: the message stays in _in_messages *)
PopMessage_Keep(i) == inMsg' = inMsg

PopMessage(i) == inMsg' = inMsg \ {i}

(* mutant: what the FIXME in _handle_pubrel proposes *)
PubcompReply_KnownOnly(i) ==
    IF ManualAck \/ i \notin inMsg THEN <<>> ELSE <<WithMid("PUBCOMP", i)>>

(* An unknown message is acknowledged too; with manual acknowledgement      *)
(* neither a known nor an unknown one is.                                   *)
PubcompReply(i) == IF ManualAck THEN <<>> ELSE <<WithMid("PUBCOMP", i)>>

(* A message still in _in_messages is passed on; then its slot is freed and *)
(* handed on in the two steps below.                                        *)
HandlePubrel ==
    /\ Receive("PUBREL")
    /\ LET i == Head(toClient).mid
       IN  \/ /\ i \in inMsg
              /\ PopMessage(i)
              /\ Deliver(i, 2)
              /\ pubrel' = [step |-> "read", mid |-> i, read |-> inflight]
              /\ UNCHANGED toBroker
           \/ /\ i \notin inMsg
              /\ toBroker' = toBroker \o PubcompReply(i)
              /\ UNCHANGED inVars
    /\ UNCHANGED <<conn, firstConnect, outVars, inflight, lastMid>>

(* _inflight_messages -= 1 without _out_message_mutex, although an incoming *)
(* message never entered that count.  publish() may have raised it since it *)
(* was read; then the decrement may lose increments of publish(), or be     *)
(* lost itself.                                                             *)
FreeSlot ==
    /\ pubrel.step = "read"
    /\ pubrel' = [pubrel EXCEPT !.step = "freed"]
    /\ \E n \in (pubrel.read - 1)..inflight :
          /\ n = inflight => inflight # pubrel.read
          /\ inflight' = n
    /\ UNCHANGED <<conn, firstConnect, outVars, lastMid, inMsg, got, unacked, wireVars>>

HandOnSlot ==
    /\ pubrel.step = "freed"
    /\ pubrel' = NoRelease
    /\ UpdateInflight(state, inflight, PubcompReply(pubrel.mid))
    /\ UNCHANGED <<conn, firstConnect, nextPub, qos, mid, dup, lastMid,
                   inMsg, got, unacked, toClient>>

-----------------------------------------------------------------------------
(* ack() by the application, for a message on_message was called with.      *)
(* The packet is queued whatever the connection is; what is queued without  *)
(* a connection is dropped by the next reconnect().                         *)
Ack(i, q) ==
    /\ <<i, q>> \in unacked
    /\ unacked' = unacked \ {<<i, q>>}
    /\ toBroker' = IF conn = "down"
                   THEN toBroker
                   ELSE Append(toBroker, WithMid(IF q = 1 THEN "PUBACK" ELSE "PUBCOMP", i))
    /\ UNCHANGED <<conn, firstConnect, outVars, inflight, lastMid, inMsg, got, pubrel, toClient>>
=============================================================================
