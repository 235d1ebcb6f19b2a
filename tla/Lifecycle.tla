----------------------------- MODULE Lifecycle -----------------------------
(***************************************************************************)
(* The life of a connection under the threaded interface of the Client     *)
(* (src/paho/mqtt/client.py): loop_forever on the network thread against   *)
(* connect(), connect_async(), disconnect(), loop_start() and loop_stop()  *)
(* on an application thread.  They share _state, _sock and _out_packet     *)
(* without a lock, so every access of the one thread that the other can    *)
(* come before is a step of its own.  CONNECT and DISCONNECT are the only  *)
(* packets that matter; the messages waiting in _out_messages are one bit. *)
(***************************************************************************)
EXTENDS Integers, Sequences

CONSTANTS DisconnectIn,        \* where the application calls disconnect(), see Callers
          ReconnectOnFailure,  \* _reconnect_on_failure
          Fallbacks,           \* what _handle_connack can still change, see Refusals
          MaxFaults,           \* bound: failures of the network and the broker
          MaxLives,            \* bound: the calls of connect() and connect_async()
          MaxStarts            \* bound: the calls of loop_start()

Callers == {"thread", "on_connect", "on_disconnect"}

(* With MQTT 3.1.1 a broker that refuses the version is tried again with    *)
(* MQTT 3.1, one that refuses an empty client id with a generated one.      *)
Refusals == {"version", "identifier"}

ASSUME LifecycleAssumption ==
    /\ DisconnectIn \subseteq Callers
    /\ ReconnectOnFailure \in BOOLEAN
    /\ Fallbacks \subseteq Refusals
    /\ MaxFaults \in Nat /\ MaxLives \in Nat /\ MaxStarts \in Nat

VARIABLES state,      \* _state
          sock,       \* _sock is not None
          outPacket,  \* _out_packet
          terminate,  \* _thread_terminate
          net,        \* where the network thread is; "none": _thread is None
          within,     \* the code that called: loop_forever's first loop, its second, or
                      \* _handle_connack
          rc,         \* the error _loop_rc_handle works on
          app,        \* where the application thread is in a call
          stored,     \* _out_messages is not empty
          pinged,     \* _ping_t > 0: a PINGREQ is not answered
          fallbacks,  \* the refusals _handle_connack has not met yet
          link,       \* the connection, as the peer leaves it
          fate,       \* how the last socket that was opened ended, see Fates
          calls,      \* how often on_disconnect was called since it was opened
          asked,      \* who called disconnect() or loop_stop() since the last connect()
          faults, lives, starts

netVars == <<net, within, rc>>
kept == <<pinged, fallbacks>>
record == <<fate, calls>>
bounds == <<faults, lives, starts>>
vars == <<state, sock, outPacket, terminate, netVars, app, stored, kept, link, record,
          asked, bounds>>

Disconnecting == {"DISCONNECTING", "DISCONNECTED"}
ConnectionStates ==
    {"NEW", "CONNECT_ASYNC", "CONNECTING", "CONNECTED", "CONNECTION_LOST"} \cup Disconnecting

(* greeted: the broker has CONNECT.  accept, refuse: its CONNACK is on the  *)
(* way.  up: it was read.  closing: the broker's DISCONNECT (MQTT 5) is on  *)
(* the way.  broken: reads and writes fail.                                 *)
Links == {"quiet", "greeted", "accept", "refuse", "up", "closing", "broken"}

(* none: no socket was opened yet.  held: it is open, or the loop closed    *)
(* it.  silent: connect(), connect_async() or reconnect() closed it while   *)
(* it was open.  pinged: the loop closed it while a PINGREQ was not         *)
(* answered.  resuming: _handle_connack lost it while it sent the messages  *)
(* of the session again.                                                    *)
Fates == {"none", "held", "silent", "pinged", "resuming"}

TypeOK ==
    /\ state \in ConnectionStates
    /\ sock \in BOOLEAN
    /\ outPacket \in Seq({"CONNECT", "DISCONNECT"})
    /\ terminate \in BOOLEAN
    /\ net \in {"none", "enter", "loop", "resume", "lost", "close", "closed", "notify", "settle",
                "bye", "bye_close", "bye_state", "keepalive", "keepalive_notify",
                "misc", "misc_lost", "misc_notify", "ended", "wait", "retry",
                "reconnect", "clear", "open", "greet"}
    /\ within \in {"first", "second", "connack"}
    /\ rc \in {"SUCCESS", "CONN_LOST", "CONN_REFUSED", "PROTOCOL", "NO_CONN"}
    /\ app \in {"idle", "no_sock", "with_sock", "queue", "connect", "join"}
    /\ stored \in BOOLEAN
    /\ pinged \in BOOLEAN
    /\ fallbacks \subseteq Refusals
    /\ link \in Links
    /\ fate \in Fates
    /\ calls \in Nat
    /\ asked \subseteq Callers \cup {"loop_stop"}
    /\ faults \in Nat /\ lives \in Nat /\ starts \in Nat

Init ==
    /\ state = "NEW"
    /\ sock = FALSE
    /\ outPacket = <<>>
    /\ terminate = FALSE
    /\ net = "none" /\ within = "first" /\ rc = "SUCCESS"
    /\ app = "idle"
    /\ stored = FALSE
    /\ pinged = FALSE /\ fallbacks = Fallbacks
    /\ link = "quiet"
    /\ fate = "none" /\ calls = 0
    /\ asked = {}
    /\ faults = 0 /\ lives = 0 /\ starts = 0

-----------------------------------------------------------------------------
(* The application thread *)

Idle == app = "idle"
Running == net # "none"

(* _sock_close() outside the loop: nobody is told of an open socket.        *)
Replaced == IF sock THEN "silent" ELSE fate

(* connect_async(), before the network thread is started.                   *)
ConnectAsync ==
    /\ Idle /\ ~Running /\ lives < MaxLives
    /\ lives' = lives + 1
    /\ sock' = FALSE
    /\ fate' = Replaced
    /\ state' = "CONNECT_ASYNC"
    /\ asked' = {}
    /\ UNCHANGED <<outPacket, terminate, netVars, app, stored, kept, link, calls, faults, starts>>

(* connect() without a network thread: reconnect() runs on this thread.     *)
Connect ==
    /\ Idle /\ ~Running /\ lives < MaxLives
    /\ lives' = lives + 1
    /\ app' = "connect"
    /\ sock' = FALSE
    /\ fate' = Replaced
    /\ pinged' = FALSE
    /\ state' = "CONNECTING"
    /\ outPacket' = <<>>
    /\ asked' = {}
    /\ UNCHANGED <<terminate, netVars, stored, fallbacks, link, calls, faults, starts>>

(* It opens the socket, and _packet_queue writes CONNECT at once,           *)
ConnectOpens ==
    /\ app = "connect"
    /\ app' = "idle"
    /\ sock' = TRUE
    /\ fate' = "held" /\ calls' = 0
    /\ link' = "greeted"
    /\ UNCHANGED <<state, outPacket, terminate, netVars, stored, kept, asked, bounds>>

(* or, without a route to the broker, the application sees an OSError.      *)
ConnectFails ==
    /\ app = "connect" /\ faults < MaxFaults
    /\ faults' = faults + 1
    /\ app' = "idle"
    /\ UNCHANGED <<state, sock, outPacket, terminate, netVars, stored, kept, link, record,
                   asked, lives, starts>>

LoopStart ==
    /\ Idle /\ ~Running /\ lives > 0 /\ starts < MaxStarts
    /\ starts' = starts + 1
    /\ terminate' = FALSE
    /\ net' = "enter" /\ within' = "first"
    /\ asked' = asked \ {"loop_stop"}
    /\ UNCHANGED <<state, sock, outPacket, rc, app, stored, kept, link, record, faults, lives>>

LoopStop ==
    /\ Idle /\ Running
    /\ terminate' = TRUE
    /\ app' = "join"
    /\ asked' = asked \cup {"loop_stop"}
    /\ UNCHANGED <<state, sock, outPacket, netVars, stored, kept, link, record, bounds>>

Joined ==
    /\ app = "join" /\ ~Running
    /\ app' = "idle"
    /\ UNCHANGED <<state, sock, outPacket, terminate, netVars, stored, kept, link, record,
                   asked, bounds>>

(* disconnect(): it looks at _sock, then sets _state, then queues.  Bound:  *)
(* this thread calls it once per connect().                                 *)
DisconnectCall ==
    /\ "thread" \in DisconnectIn \ asked
    /\ Idle /\ Running
    /\ app' = IF sock THEN "with_sock" ELSE "no_sock"
    /\ asked' = asked \cup {"thread"}
    /\ UNCHANGED <<state, sock, outPacket, terminate, netVars, stored, kept, link, record, bounds>>

DisconnectState ==
    /\ \/ /\ app = "no_sock"
          /\ state' = "DISCONNECTED"
          /\ app' = "idle"
       \/ /\ app = "with_sock"
          /\ state' = "DISCONNECTING"
          /\ app' = "queue"
    /\ UNCHANGED <<sock, outPacket, terminate, netVars, stored, kept, link, record, asked, bounds>>

DisconnectQueue ==
    /\ app = "queue"
    /\ outPacket' = Append(outPacket, "DISCONNECT")
    /\ app' = "idle"
    /\ UNCHANGED <<state, sock, terminate, netVars, stored, kept, link, record, asked, bounds>>

(* publish() with QoS 1 or 2                                                *)
Store ==
    /\ Idle /\ Running /\ ~stored
    /\ stored' = TRUE
    /\ UNCHANGED <<state, sock, outPacket, terminate, netVars, app, kept, link, record,
                   asked, bounds>>

Application ==
    \/ ConnectAsync \/ Connect \/ ConnectOpens \/ ConnectFails \/ LoopStart \/ LoopStop
    \/ Joined \/ DisconnectCall \/ DisconnectState \/ DisconnectQueue \/ Store

-----------------------------------------------------------------------------
(* The callbacks, on the network thread *)

(* on_connect runs with a socket: disconnect() queues its packet.           *)
OnConnect(st) ==
    \/ state' = st /\ UNCHANGED <<outPacket, asked>>
    \/ /\ "on_connect" \in DisconnectIn
       /\ state' = "DISCONNECTING"
       /\ outPacket' = Append(outPacket, "DISCONNECT")
       /\ asked' = asked \cup {"on_connect"}

(* on_disconnect runs after _sock is None: disconnect() only sets _state.   *)
OnDisconnect(st) ==
    /\ calls' = calls + 1
    /\ \/ state' = st /\ UNCHANGED asked
       \/ /\ "on_disconnect" \in DisconnectIn
          /\ state' = "DISCONNECTED"
          /\ asked' = asked \cup {"on_disconnect"}

-----------------------------------------------------------------------------
(* loop_forever *)

ShouldExit == state \in Disconnecting \/ terminate

(* Its first loop: only a pending connect_async() connects from here.       *)
Enter ==
    /\ net = "enter"
    /\ net' = IF ~terminate /\ state = "CONNECT_ASYNC" THEN "reconnect" ELSE "loop"
    /\ within' = IF net' = "reconnect" THEN "first" ELSE "second"
    /\ UNCHANGED <<state, sock, outPacket, terminate, rc, app, stored, kept, link, record,
                   asked, bounds>>

(* After the inner loop ended with an error code.                           *)
Ended ==
    /\ net = "ended"
    /\ net' = IF ShouldExit \/ ~ReconnectOnFailure THEN "none" ELSE "wait"
    /\ UNCHANGED <<state, sock, outPacket, terminate, within, rc, app, stored, kept, link, record,
                   asked, bounds>>

(* The end of _reconnect_wait *)
Waited ==
    /\ net = "wait"
    /\ net' = IF within = "first" THEN "enter" ELSE "retry"
    /\ UNCHANGED <<state, sock, outPacket, terminate, within, rc, app, stored, kept, link, record,
                   asked, bounds>>

Retry ==
    /\ net = "retry"
    /\ net' = IF ShouldExit THEN "none" ELSE "reconnect"
    /\ UNCHANGED <<state, sock, outPacket, terminate, within, rc, app, stored, kept, link, record,
                   asked, bounds>>

(* reconnect(): _ping_t and _state first, *)
ReconnectState ==
    /\ net = "reconnect"
    /\ pinged' = FALSE
    /\ state' = "CONNECTING"
    /\ net' = "clear"
    /\ UNCHANGED <<sock, outPacket, terminate, within, rc, app, stored, fallbacks, link, record,
                   asked, bounds>>

(* then the old socket and the old packets, *)
ReconnectClear ==
    /\ net = "clear"
    /\ sock' = FALSE
    /\ fate' = Replaced
    /\ outPacket' = <<>>
    /\ net' = "open"
    /\ UNCHANGED <<state, terminate, within, rc, app, stored, kept, link, calls, asked, bounds>>

(* then the new socket, *)
ReconnectOpen ==
    /\ net = "open"
    /\ sock' = TRUE
    /\ link' = "quiet"
    /\ fate' = "held" /\ calls' = 0
    /\ net' = "greet"
    /\ UNCHANGED <<state, outPacket, terminate, within, rc, app, stored, kept, asked, bounds>>

(* (or an OSError: the first loop waits, the second one just goes on, and   *)
(* nobody expects it of _handle_connack: it ends loop_forever), *)
ReconnectFails ==
    /\ net = "open"
    /\ faults < MaxFaults
    /\ faults' = faults + 1
    /\ net' = CASE within = "first"   -> "wait"
                [] within = "second"  -> "loop"
                [] within = "connack" -> "none"
    /\ UNCHANGED <<state, sock, outPacket, terminate, within, rc, app, stored, kept, link, record,
                   asked, lives, starts>>

ReconnectGreet_Silent ==   \* mutant: no CONNECT on the new socket
    /\ net = "greet"
    /\ net' = IF within = "first" THEN "enter" ELSE "loop"
    /\ within' = IF within = "first" THEN "first" ELSE "second"
    /\ UNCHANGED <<state, sock, outPacket, terminate, rc, app, stored, kept, link, record,
                   asked, bounds>>

(* then CONNECT.                                                            *)
ReconnectGreet ==
    /\ net = "greet"
    /\ outPacket' = Append(outPacket, "CONNECT")
    /\ net' = IF within = "first" THEN "enter" ELSE "loop"
    /\ within' = IF within = "first" THEN "first" ELSE "second"
    /\ UNCHANGED <<state, sock, terminate, rc, app, stored, kept, link, record, asked, bounds>>

-----------------------------------------------------------------------------
(* _loop *)

(* select() raises TypeError without a socket.  _state is read, *)
NoSocket ==
    /\ net = "loop" /\ ~sock
    /\ net' = IF state \in Disconnecting THEN "ended" ELSE "lost"
    /\ UNCHANGED <<state, sock, outPacket, terminate, within, rc, app, stored, kept, link, record,
                   asked, bounds>>

(* and then written.                                                        *)
MarkLost ==
    /\ net = "lost"
    /\ state' = "CONNECTION_LOST"
    /\ net' = "ended"
    /\ UNCHANGED <<sock, outPacket, terminate, within, rc, app, stored, kept, link, record,
                   asked, bounds>>

Terminated_Never == FALSE   \* mutant: the inner loop ignores _thread_terminate

(* loop_stop() is obeyed only when nothing is left to send or to be         *)
(* acknowledged; the socket stays open.                                     *)
Terminated ==
    /\ net = "loop" /\ sock
    /\ terminate /\ outPacket = <<>> /\ ~stored
    /\ net' = "none"
    /\ UNCHANGED <<state, sock, outPacket, terminate, within, rc, app, stored, kept, link, record,
                   asked, bounds>>

(* The end of loop_read: without a socket it returns an error of its own    *)
(* when it was to read further packets.                                     *)
AfterRead(open) == IF open THEN {"loop"} ELSE {"loop", "ended"}

(* on_connect, and then the messages of the session are sent again.         *)
ReadConnack ==
    /\ net = "loop" /\ sock /\ link = "accept"
    /\ link' = "up"
    /\ OnConnect("CONNECTED")
    /\ net' = IF stored THEN "resume" ELSE "loop"
    /\ within' = IF stored THEN "connack" ELSE "second"
    /\ UNCHANGED <<sock, terminate, rc, app, stored, kept, record, bounds>>

(* The last of them was sent, *)
ResumeEnds ==
    /\ net = "resume"
    /\ net' \in AfterRead(sock)
    /\ within' = "second"
    /\ UNCHANGED <<state, sock, outPacket, terminate, rc, app, stored, kept, link, record,
                   asked, bounds>>

(* or loop_write() for the one before has lost the socket.                  *)
ResumeFails ==
    /\ net = "resume" /\ ~sock
    /\ rc' = "NO_CONN"
    /\ net' = "close"
    /\ within' = "second"
    /\ UNCHANGED <<state, sock, outPacket, terminate, app, stored, kept, link, record,
                   asked, bounds>>

(* A CONNACK that refuses: on_connect, and an error code.                   *)
ReadRefusal ==
    /\ net = "loop" /\ sock /\ link = "refuse"
    /\ OnConnect(state)
    /\ rc' = "CONN_REFUSED"
    /\ net' = "close"
    /\ UNCHANGED <<sock, terminate, within, app, stored, kept, link, record, bounds>>

(* One that refuses what the client can change: reconnect() at once.  Once  *)
(* MQTT 3.1 is spoken there is no further attempt.                          *)
ReadFallback ==
    /\ net = "loop" /\ sock /\ link = "refuse"
    /\ IF ReconnectOnFailure
       THEN /\ \E r \in fallbacks :
                  fallbacks' = IF r = "version" THEN {} ELSE fallbacks \ {r}
            /\ net' = "reconnect" /\ within' = "connack"
            /\ UNCHANGED rc
       ELSE /\ fallbacks # {}
            /\ net' = "close" /\ rc' = "PROTOCOL"
            /\ UNCHANGED <<fallbacks, within>>
    /\ UNCHANGED <<state, sock, outPacket, terminate, app, stored, pinged, link, record,
                   asked, bounds>>

(* Where loop_write() is called; how the socket ends there.                 *)
Writing == net \in {"loop", "resume"} /\ sock
LostWhile(n) == IF n = "resume" THEN "resuming" ELSE fate

(* An error code for _loop_rc_handle, from read() or write().               *)
Failure ==
    /\ Writing /\ link = "broken"
    /\ rc' = "CONN_LOST"
    /\ net' = "close"
    /\ fate' = LostWhile(net)
    /\ UNCHANGED <<state, sock, outPacket, terminate, within, app, stored, kept, link, calls,
                   asked, bounds>>

(* mutant: the handler's result is an error code as well *)
ReadDisconnect_AndFail ==
    /\ net = "loop" /\ sock /\ link = "closing"
    /\ sock' = FALSE
    /\ OnDisconnect(state)
    /\ rc' = "CONN_LOST"
    /\ net' = "close"
    /\ UNCHANGED <<outPacket, terminate, within, app, stored, kept, link, fate, bounds>>

(* _handle_disconnect: the loop goes on and finds no socket.                *)
ReadDisconnect ==
    /\ net = "loop" /\ sock /\ link = "closing"
    /\ sock' = FALSE
    /\ OnDisconnect(state)
    /\ net' \in AfterRead(FALSE)
    /\ UNCHANGED <<outPacket, terminate, within, rc, app, stored, kept, link, fate, bounds>>

WriteConnect ==
    /\ net = "loop" /\ sock /\ link # "broken"
    /\ outPacket # <<>> /\ Head(outPacket) = "CONNECT"
    /\ outPacket' = Tail(outPacket)
    /\ link' = IF link = "quiet" THEN "greeted" ELSE link
    /\ UNCHANGED <<state, sock, terminate, netVars, app, stored, kept, record, asked, bounds>>

(* _packet_write after DISCONNECT: on_disconnect, the socket, _state.       *)
WriteDisconnect ==
    /\ Writing /\ link # "broken"
    /\ outPacket # <<>> /\ Head(outPacket) = "DISCONNECT"
    /\ outPacket' = Tail(outPacket)
    /\ net' = "bye"
    /\ fate' = LostWhile(net)
    /\ UNCHANGED <<state, sock, terminate, within, rc, app, stored, kept, link, calls,
                   asked, bounds>>

(* disconnect() from on_disconnect finds a socket here.                     *)
Bye ==
    /\ net = "bye"
    /\ calls' = calls + 1
    /\ net' = "bye_close"
    /\ \/ UNCHANGED <<state, outPacket, asked>>
       \/ /\ "on_disconnect" \in DisconnectIn
          /\ state' = "DISCONNECTING"
          /\ outPacket' = Append(outPacket, "DISCONNECT")
          /\ asked' = asked \cup {"on_disconnect"}
    /\ UNCHANGED <<sock, terminate, within, rc, app, stored, kept, link, fate, bounds>>

ByeClose ==
    /\ net = "bye_close"
    /\ sock' = FALSE
    /\ net' = "bye_state"
    /\ UNCHANGED <<state, outPacket, terminate, within, rc, app, stored, kept, link, record,
                   asked, bounds>>

(* The end of loop_write: back in the loop, or in _handle_connack.          *)
AfterWrite == IF within = "connack" THEN "resume" ELSE "loop"

ByeState ==
    /\ net = "bye_state"
    /\ state' = IF state = "DISCONNECTING" THEN "DISCONNECTED" ELSE state
    /\ net' = AfterWrite
    /\ UNCHANGED <<sock, outPacket, terminate, within, rc, app, stored, kept, link, record,
                   asked, bounds>>

(* _loop_rc_handle: the socket is closed, *)
CloseSocket ==
    /\ net = "close"
    /\ sock' = FALSE
    /\ net' = "closed"
    /\ UNCHANGED <<state, outPacket, terminate, within, rc, app, stored, kept, link, record,
                   asked, bounds>>

(* mutant: the wish to disconnect is not looked up *)
CloseState_Ignored ==
    /\ net = "closed"
    /\ net' = "notify"
    /\ UNCHANGED <<state, sock, outPacket, terminate, within, rc, app, stored, kept, link, record,
                   asked, bounds>>

(* _state tells whether that was wanted, *)
CloseState ==
    /\ net = "closed"
    /\ IF state \in Disconnecting
       THEN state' = "DISCONNECTED" /\ rc' = "SUCCESS"
       ELSE UNCHANGED <<state, rc>>
    /\ net' = "notify"
    /\ UNCHANGED <<sock, outPacket, terminate, within, app, stored, kept, link, record,
                   asked, bounds>>

(* on_disconnect runs, *)
CloseNotify ==
    /\ net = "notify"
    /\ OnDisconnect(state)
    /\ net' = "settle"
    /\ UNCHANGED <<sock, outPacket, terminate, within, rc, app, stored, kept, link, fate, bounds>>

(* The end of _loop_rc_handle; _handle_connack ignores what it returns.     *)
AfterClose ==
    IF within = "connack" THEN "resume"
    ELSE IF rc = "SUCCESS" THEN "loop" ELSE "ended"

CloseSettle_Disconnected ==   \* mutant: the lost connection counts as wanted
    /\ net = "settle"
    /\ state' = IF rc = "CONN_LOST" THEN "DISCONNECTED" ELSE state
    /\ net' = AfterClose
    /\ UNCHANGED <<sock, outPacket, terminate, within, rc, app, stored, kept, link, record,
                   asked, bounds>>

(* and a lost connection is recorded last.                                  *)
CloseSettle ==
    /\ net = "settle"
    /\ state' = IF rc = "CONN_LOST" THEN "CONNECTION_LOST" ELSE state
    /\ net' = AfterClose
    /\ UNCHANGED <<sock, outPacket, terminate, within, rc, app, stored, kept, link, record,
                   asked, bounds>>

-----------------------------------------------------------------------------
(* loop_misc *)

Ping ==
    /\ net = "loop" /\ sock
    /\ state = "CONNECTED" /\ ~pinged
    /\ pinged' = TRUE
    /\ UNCHANGED <<state, sock, outPacket, terminate, netVars, app, stored, fallbacks, link,
                   record, asked, bounds>>

Pingresp ==
    /\ net = "loop" /\ sock /\ link = "up"
    /\ pinged
    /\ pinged' = FALSE
    /\ UNCHANGED <<state, sock, outPacket, terminate, netVars, app, stored, fallbacks, link,
                   record, asked, bounds>>

(* _check_keepalive gives up on a silent broker when no PINGREQ may be      *)
(* sent: the socket is closed, *)
KeepaliveClose ==
    /\ net = "loop" /\ sock
    /\ state # "CONNECTED" \/ pinged
    /\ faults < MaxFaults
    /\ faults' = faults + 1
    /\ sock' = FALSE
    /\ fate' = IF pinged THEN "pinged" ELSE fate
    /\ net' = "keepalive"
    /\ UNCHANGED <<state, outPacket, terminate, within, rc, app, stored, kept, link, calls,
                   asked, lives, starts>>

KeepaliveState ==
    /\ net = "keepalive"
    /\ state' = IF state \in Disconnecting THEN "DISCONNECTED" ELSE state
    /\ net' = "keepalive_notify"
    /\ UNCHANGED <<sock, outPacket, terminate, within, rc, app, stored, kept, link, record,
                   asked, bounds>>

(* on_disconnect runs, and loop_misc goes on to look at the PINGREQ: it is  *)
(* too old, or only the last packet is.                                     *)
KeepaliveNotify ==
    /\ net = "keepalive_notify"
    /\ OnDisconnect(state)
    /\ net' \in {"loop"} \cup (IF pinged THEN {"misc"} ELSE {})
    /\ UNCHANGED <<sock, outPacket, terminate, within, rc, app, stored, kept, link, fate, bounds>>

(* A PINGREQ that was not answered in the keepalive time, with packets of   *)
(* both sides in that time.                                                 *)
MiscClose ==
    /\ net = "loop" /\ sock
    /\ pinged
    /\ faults < MaxFaults
    /\ faults' = faults + 1
    /\ sock' = FALSE
    /\ fate' = "pinged"
    /\ net' = "misc"
    /\ UNCHANGED <<state, outPacket, terminate, within, rc, app, stored, kept, link, calls,
                   asked, lives, starts>>

(* _state is read, *)
MiscState ==
    /\ net = "misc"
    /\ IF state \in Disconnecting
       THEN state' = "DISCONNECTED" /\ net' = "misc_notify"
       ELSE net' = "misc_lost" /\ UNCHANGED state
    /\ UNCHANGED <<sock, outPacket, terminate, within, rc, app, stored, kept, link, record,
                   asked, bounds>>

(* and then written,  *)
MiscLost ==
    /\ net = "misc_lost"
    /\ state' = "CONNECTION_LOST"
    /\ net' = "misc_notify"
    /\ UNCHANGED <<sock, outPacket, terminate, within, rc, app, stored, kept, link, record,
                   asked, bounds>>

(* before on_disconnect runs.                                               *)
MiscNotify ==
    /\ net = "misc_notify"
    /\ OnDisconnect(state)
    /\ net' = "ended"
    /\ UNCHANGED <<sock, outPacket, terminate, within, rc, app, stored, kept, link, fate, bounds>>

Network ==
    \/ Enter \/ Ended \/ Waited \/ Retry
    \/ ReconnectState \/ ReconnectClear \/ ReconnectOpen \/ ReconnectGreet
    \/ NoSocket \/ MarkLost \/ Terminated
    \/ ReadConnack \/ ResumeEnds \/ ResumeFails \/ ReadRefusal \/ ReadFallback
    \/ Failure \/ ReadDisconnect \/ WriteConnect \/ WriteDisconnect
    \/ Bye \/ ByeClose \/ ByeState
    \/ CloseSocket \/ CloseState \/ CloseNotify \/ CloseSettle
    \/ KeepaliveState \/ KeepaliveNotify \/ MiscState \/ MiscLost \/ MiscNotify

(* What time and the network decide *)
Chance == ReconnectFails \/ Ping \/ Pingresp \/ KeepaliveClose \/ MiscClose

-----------------------------------------------------------------------------
(* The peer *)

Connack ==
    /\ sock /\ link = "greeted"
    /\ link' = "accept"
    /\ UNCHANGED <<state, sock, outPacket, terminate, netVars, app, stored, kept, record,
                   asked, bounds>>

(* The last message is acknowledged, and the acknowledgement read.          *)
Acknowledge ==
    /\ net = "loop" /\ sock /\ link = "up" /\ stored
    /\ stored' = FALSE
    /\ UNCHANGED <<state, sock, outPacket, terminate, netVars, app, kept, link, record,
                   asked, bounds>>

PeerFault ==
    /\ faults < MaxFaults
    /\ faults' = faults + 1
    /\ sock
    /\ \/ link # "broken" /\ link' = "broken"
       \/ link = "greeted" /\ link' = "refuse"
       \/ link = "up" /\ link' = "closing"
    /\ UNCHANGED <<state, sock, outPacket, terminate, netVars, app, stored, kept, record,
                   asked, lives, starts>>

Next ==
    \/ Application
    \/ Network \/ Chance
    \/ Connack \/ Acknowledge \/ PeerFault

Spec == Init /\ [][Next]_vars

(* The network thread runs on; a call that has begun goes on; the broker    *)
(* answers CONNECT and acknowledges.  No call is ever forced to begin.      *)
Fairness ==
    /\ WF_vars(Network)
    /\ WF_vars(Joined) /\ WF_vars(DisconnectState) /\ WF_vars(DisconnectQueue)
    /\ WF_vars(Connack) /\ WF_vars(Acknowledge)

FairSpec == Spec /\ Fairness

-----------------------------------------------------------------------------
(* Properties *)

(* Before the thread waits, ends or opens the next socket, on_disconnect    *)
(* was called for the last one, unless that was closed while it was open:   *)
(* by connect() or connect_async(), or by _handle_connack when it answers a *)
(* refusal with reconnect(); loop_forever itself never does so.  It is      *)
(* called once, and a second time only when a PINGREQ was not answered or   *)
(* the socket was lost while the messages of the session were sent again.   *)
EndsReported ==
    /\ TypeOK
    /\ calls <= IF fate \in {"pinged", "resuming"} THEN 2 ELSE 1
    /\ net \in {"none", "wait", "open"} /\ ~sock =>
          (calls = 0 <=> fate \in {"none", "silent"})
    /\ net = "clear" /\ sock => within = "connack"

(* reconnect() in _handle_connack raised an OSError.                        *)
Abandoned == ~Running /\ within = "connack"

(* The network thread ends only when it was asked to, or with an OSError of *)
(* reconnect() in _handle_connack: no lost connection, refused CONNACK or   *)
(* DISCONNECT of the broker, and nothing left over from an earlier          *)
(* disconnect(), stops it.                                                  *)
RunsUntilAsked ==
    [][Running /\ ~Running' => asked' # {} \/ ~ReconnectOnFailure \/ Abandoned']_vars

(* disconnect() in on_connect ends the network thread, whatever the network *)
(* does to the connection and whoever else calls disconnect().              *)
OnConnectDisconnectEnds == "on_connect" \in asked ~> ~Running

(* loop_forever: "If you call `disconnect()` in a callback it will return." *)
CallbackDisconnectEnds ==
    asked \cap {"on_connect", "on_disconnect"} # {} ~> ~Running

(* Until it is asked to stop, the thread connects again after any failure   *)
(* but the OSError of reconnect() in _handle_connack.                       *)
Reconnects ==
    Running /\ asked = {} ~> (sock /\ state = "CONNECTED") \/ asked # {} \/ Abandoned

(* loop_stop() returns, however the connection ends and whatever is left to *)
(* be sent.                                                                 *)
LoopStopReturns == app = "join" ~> app = "idle"
=============================================================================
