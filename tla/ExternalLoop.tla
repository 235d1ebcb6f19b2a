---------------------------- MODULE ExternalLoop ----------------------------
(***************************************************************************)
(* A client that an external event loop drives, the way AsyncioHelper      *)
(* does: the on_socket_ callbacks tell the loop which socket to watch, and *)
(* the loop calls loop_read(), loop_write() and loop_misc().  All of this  *)
(* happens on one thread, whose calls are the stack of steps still to be   *)
(* done; a second thread may publish.  Callbacks of the user may publish,  *)
(* disconnect or raise.  Sockets are numbered in the order they are made.  *)
(***************************************************************************)
EXTENDS Naturals, Sequences

CONSTANTS MaxSockets,  \* bound: sockets made
          MaxCalls,    \* bound: calls of publish() and disconnect()
          MaxPackets,  \* bound: packets from the broker that call the user back
          MaxFaults,   \* bound: sends that block or fail, ends of the stream
          Threads      \* may a second thread publish?  The answers to try

ASSUME ExternalLoopAssumption ==
    /\ MaxSockets \in Nat /\ MaxCalls \in Nat /\ MaxPackets \in Nat /\ MaxFaults \in Nat
    /\ Threads \subseteq BOOLEAN

VARIABLES sock,       \* _sock, 0 for None
          made,       \* how many sockets were made
          registered, \* _registered_write
          outq,       \* _out_packet
          state,      \* _state
          ping,       \* _ping_t: "no" if zero; PINGREQ is "asked" or "sent"
          greeted,    \* CONNECT is written: CONNACK may come
          stack,      \* what the thread of the loop has still to do
          pub,        \* where the second thread is
          readers, writers, misc,  \* what the event loop watches, and runs
          told,       \* history: the last callback about each socket
          threaded,   \* there is a second thread
          calls, packets, faults   \* counters for the bounds

client == <<sock, made, registered, outq, state, ping, greeted>>
watches == <<readers, writers, misc, told>>
counts == <<calls, packets, faults>>
vars == <<client, stack, pub, watches, threaded, counts>>

Socket == 1..MaxSockets
Step(do, arg) == <<[do |-> do, arg |-> arg]>>
LoopWrite == Step("flush", 0) \o Step("finally", 0)

Init ==
    /\ sock = 0 /\ made = 0
    /\ registered = FALSE
    /\ outq = <<>>
    /\ state = "new"
    /\ ping = "no"
    /\ greeted = FALSE
    /\ stack = <<>>
    /\ pub = "idle"
    /\ readers = {} /\ writers = {} /\ misc = {}
    /\ told = [s \in Socket |-> "nothing"]
    /\ threaded \in Threads
    /\ calls = 0 /\ packets = 0 /\ faults = 0

-----------------------------------------------------------------------------
Idle == stack = <<>>
Running(do) == stack # <<>> /\ Head(stack).do = do
Arg == Head(stack).arg
Then(steps) == stack' = steps \o Tail(stack)

(* The order the README gives for one socket, and no two sockets open.      *)
Follows ==
    {<<"nothing", "open">>, <<"open", "register">>, <<"register", "unregister">>,
     <<"unregister", "register">>, <<"open", "close">>, <<"unregister", "close">>}

Told(what, s) ==
    told' = [told EXCEPT ![s] =
                IF /\ <<@, what>> \in Follows
                   /\ what = "open" => \A t \in 1..(s - 1) : told[t] \in {"nothing", "close"}
                THEN what
                ELSE "disorder"]

-----------------------------------------------------------------------------
(* AsyncioHelper: on_socket_open, on_socket_close and the two for writing.  *)
OnSocketOpen(s) ==
    /\ Told("open", s)
    /\ readers' = readers \cup {s}
    /\ misc' = {s}
    /\ UNCHANGED writers

OnSocketClose(s) ==
    /\ Told("close", s)
    /\ readers' = readers \ {s}
    /\ misc' = {}
    /\ UNCHANGED writers

OnSocketRegisterWrite(s) ==
    /\ Told("register", s)
    /\ writers' = writers \cup {s}
    /\ UNCHANGED <<readers, misc>>

OnSocketUnregisterWrite(s) ==
    /\ Told("unregister", s)
    /\ writers' = writers \ {s}
    /\ UNCHANGED <<readers, misc>>

Callback ==
    /\ \/ Running("on_socket_open") /\ OnSocketOpen(Arg)
       \/ Running("on_socket_close") /\ OnSocketClose(Arg)
       \/ Running("on_socket_register_write") /\ OnSocketRegisterWrite(Arg)
       \/ Running("on_socket_unregister_write") /\ OnSocketUnregisterWrite(Arg)
    /\ Then(<<>>)
    /\ UNCHANGED <<client, pub, threaded, counts>>

-----------------------------------------------------------------------------
CallSocketRegisterWrite ==
    /\ Running("register")
    /\ IF sock = 0 \/ registered
       THEN UNCHANGED registered /\ Then(<<>>)
       ELSE registered' = TRUE /\ Then(Step("on_socket_register_write", sock))
    /\ UNCHANGED <<sock, made, outq, state, ping, greeted, pub, watches, threaded, counts>>

CallSocketUnregisterWrite ==
    /\ Running("unregister")
    /\ IF Arg = 0 \/ ~registered
       THEN UNCHANGED registered /\ Then(<<>>)
       ELSE registered' = FALSE /\ Then(Step("on_socket_unregister_write", Arg))
    /\ UNCHANGED <<sock, made, outq, state, ping, greeted, pub, watches, threaded, counts>>

(* mutant: the callbacks the other way round                                *)
CloseSteps_Swapped(s) == Step("on_socket_close", s) \o Step("unregister", s)

CloseSteps(s) == Step("unregister", s) \o Step("on_socket_close", s)

SockClose ==
    /\ Running("close")
    /\ sock' = 0
    /\ Then(IF sock = 0 THEN <<>> ELSE CloseSteps(sock))
    /\ UNCHANGED <<made, registered, outq, state, ping, greeted, pub, watches, threaded, counts>>

-----------------------------------------------------------------------------
(* _packet_queue: with on_socket_register_write set it never writes itself. *)
PacketQueue(packet) ==
    /\ outq' = Append(outq, packet)
    /\ Then(Step("register", 0))

Publish ==
    /\ calls < MaxCalls
    /\ calls' = calls + 1
    /\ sock # 0
    /\ UNCHANGED state

Disconnect ==
    /\ calls < MaxCalls
    /\ calls' = calls + 1
    /\ state' = IF sock = 0 THEN "disconnected" ELSE "disconnecting"

(* Only a finally clause stops an exception for a moment.                   *)
Unwound ==
    IF \E k \in 1..Len(stack) : stack[k].do = "finally" THEN Step("finally", 0) ELSE <<>>

(* on_connect, on_message, on_publish or on_disconnect.  reconnect() is not *)
(* among what they may call: it would wait for _in_callback_mutex forever.  *)
UserCallback ==
    /\ Running("user")
    /\ \/ Then(<<>>) /\ UNCHANGED <<outq, state, calls>>
       \/ stack' = Unwound /\ UNCHANGED <<outq, state, calls>>
       \/ Publish /\ PacketQueue("PUBLISH")
       \/ sock # 0 /\ Disconnect /\ PacketQueue("DISCONNECT")
       \/ sock = 0 /\ Disconnect /\ Then(<<>>) /\ UNCHANGED outq
    /\ UNCHANGED <<sock, made, registered, ping, greeted, pub, watches, threaded, packets, faults>>

(* The application, between two events.                                     *)
Application ==
    /\ Idle
    /\ \/ Publish /\ outq' = Append(outq, "PUBLISH") /\ stack' = Step("register", 0)
       \/ /\ sock # 0 /\ Disconnect
          /\ outq' = Append(outq, "DISCONNECT") /\ stack' = Step("register", 0)
       \/ sock = 0 /\ Disconnect /\ UNCHANGED <<outq, stack>>
    /\ UNCHANGED <<sock, made, registered, ping, greeted, pub, watches, threaded, packets, faults>>

-----------------------------------------------------------------------------
(* reconnect().                                                             *)
Reconnect ==
    /\ Idle
    /\ made < MaxSockets
    /\ state' = "connecting"
    /\ ping' = "no"
    /\ stack' = Step("close", 0) \o Step("clear", 0)
    /\ UNCHANGED <<sock, made, registered, outq, greeted, pub, watches, threaded, counts>>

Clear ==
    /\ Running("clear")
    /\ outq' = <<>>
    /\ Then(Step("create", 0))
    /\ UNCHANGED <<sock, made, registered, state, ping, greeted, pub, watches, threaded, counts>>

(* _create_socket() raises, or returns a connected socket.                  *)
CreateSocket ==
    /\ Running("create")
    /\ made' = made + 1
    /\ \/ /\ stack' = <<>>
          /\ UNCHANGED <<sock, greeted>>
       \/ /\ sock' = made + 1
          /\ greeted' = FALSE
          /\ Then(Step("fresh", 0))
    /\ UNCHANGED <<registered, outq, state, ping, pub, watches, threaded, counts>>

Fresh ==
    /\ Running("fresh")
    /\ registered' = FALSE
    /\ Then(Step("on_socket_open", sock) \o Step("greet", 0))
    /\ UNCHANGED <<sock, made, outq, state, ping, greeted, pub, watches, threaded, counts>>

SendConnect ==
    /\ Running("greet")
    /\ PacketQueue("CONNECT")
    /\ UNCHANGED <<sock, made, registered, state, ping, greeted, pub, watches, threaded, counts>>

-----------------------------------------------------------------------------
Fault == faults < MaxFaults /\ faults' = faults + 1

(* loop_write(), called by the event loop.                                  *)
Writable ==
    /\ Idle
    /\ writers # {}
    /\ stack' = IF sock = 0 THEN <<>> ELSE LoopWrite
    /\ UNCHANGED <<client, pub, watches, threaded, counts>>

(* One turn of _packet_write.  The socket is closed behind DISCONNECT.      *)
Sent(packet) ==
    CASE packet = "PUBLISH" -> Step("user", 0) \o Step("flush", 0)
      [] packet = "DISCONNECT" -> Step("user", 0) \o Step("close", 0) \o Step("settle", 0)
      [] OTHER -> Step("flush", 0)

PacketWrite ==
    /\ Running("flush")
    /\ \/ /\ outq = <<>>
          /\ Then(<<>>)
          /\ UNCHANGED <<outq, ping, greeted, faults>>
       \/ /\ outq # <<>>
          /\ outq' = Tail(outq)
          /\ greeted' = (greeted \/ Head(outq) = "CONNECT")
          /\ ping' = IF Head(outq) = "PINGREQ" THEN "sent" ELSE ping
          /\ Then(Sent(Head(outq)))
          /\ UNCHANGED faults
       \/ /\ outq # <<>> /\ Fault
          /\ \/ Then(Step("register", 0))                        \* BlockingIOError
             \/ Then(Step("close", 0) \o Step("ended", "lost"))  \* OSError
          /\ UNCHANGED <<outq, ping, greeted>>
    /\ UNCHANGED <<sock, made, registered, state, pub, watches, threaded, calls, packets>>

Settle ==
    /\ Running("settle")
    /\ state' = IF state = "disconnecting" THEN "disconnected" ELSE state
    /\ Then(<<>>)
    /\ UNCHANGED <<sock, made, registered, outq, ping, greeted, pub, watches, threaded, counts>>

(* mutant: the watch for writing always ends                                *)
FinallySteps_Unregister == Step("unregister", sock)

FinallySteps == IF outq # <<>> THEN Step("register", 0) ELSE Step("unregister", sock)

(* The finally clause of loop_write(); it may still hold an exception.      *)
Finally ==
    /\ Running("finally")
    /\ Then(FinallySteps)
    /\ UNCHANGED <<client, pub, watches, threaded, counts>>

(* The end of a connection, behind _sock_close: _loop_rc_handle with its rc *)
(* and the two places that notice silence.                                  *)
Ended ==
    /\ Running("ended")
    /\ LET wanted == state \in {"disconnecting", "disconnected"}
       IN  /\ state' = IF wanted THEN "disconnected"
                       ELSE IF Arg = "no PINGRESP" THEN "lost" ELSE state
           /\ Then(Step("user", 0) \o
                       (IF ~wanted /\ Arg = "lost" THEN Step("lost", 0) ELSE <<>>))
    /\ UNCHANGED <<sock, made, registered, outq, ping, greeted, pub, watches, threaded, counts>>

Lost ==
    /\ Running("lost")
    /\ state' = "lost"
    /\ Then(<<>>)
    /\ UNCHANGED <<sock, made, registered, outq, ping, greeted, pub, watches, threaded, counts>>

-----------------------------------------------------------------------------
(* loop_read(), called by the event loop: it reads one packet or several.   *)
Readable ==
    /\ Idle
    /\ readers # {}
    /\ stack' = Step("read", 0)
    /\ UNCHANGED <<client, pub, watches, threaded, counts>>

Arrives == sock # 0 /\ packets < MaxPackets /\ packets' = packets + 1 /\ UNCHANGED faults
Ending(rc) == Step("close", 0) \o Step("ended", rc)

(* Nothing more to read; a packet; the end of the stream.  A packet whose   *)
(* callback has raised is read again: CONNACK may come twice.               *)
PacketRead ==
    /\ Running("read")
    /\ \/ Then(<<>>) /\ UNCHANGED <<state, ping, packets, faults>>
       \/ /\ Arrives /\ greeted
          /\ state' = "connected"                                \* CONNACK
          /\ Then(Step("user", 0) \o Step("resume", 0) \o Step("read", 0))
          /\ UNCHANGED ping
       \/ /\ Arrives /\ greeted
          /\ \/ Then(Ending("refused"))                          \* CONNACK
             \/ Then(Step("user", 0) \o Step("read", 0))         \* PUBLISH
             \/ Then(Step("close", 0) \o Step("user", 0))        \* DISCONNECT
          /\ UNCHANGED <<state, ping>>
       \/ /\ sock # 0 /\ ping = "sent"
          /\ ping' = "no"                                        \* PINGRESP
          /\ Then(Step("read", 0))
          /\ UNCHANGED <<state, packets, faults>>
       \/ /\ sock # 0 /\ Fault
          /\ Then(Ending("lost"))
          /\ UNCHANGED <<state, ping, packets>>
    /\ UNCHANGED <<sock, made, registered, outq, greeted, pub, watches, threaded, calls>>

(* The loop of _handle_connack over the stored messages, if there are any:  *)
(* each is queued, and loop_write() runs at once.  When it has lost the     *)
(* connection, the next message ends the loop with MQTT_ERR_NO_CONN.        *)
Resume ==
    /\ Running("resume")
    /\ \/ Then(<<>>) /\ UNCHANGED <<outq, calls>>
       \/ /\ Publish
          /\ outq' = Append(outq, "PUBLISH")
          /\ Then(Step("register", 0) \o LoopWrite \o Step("resume", 0))
       \/ /\ sock = 0
          /\ Then(Ending("no connection"))
          /\ UNCHANGED <<outq, calls>>
    /\ UNCHANGED <<sock, made, registered, state, ping, greeted, pub, watches, threaded, packets,
                   faults>>

-----------------------------------------------------------------------------
(* mutant: PINGREQ without an answer ends nothing                           *)
Overdue_Connecting == state # "connected"

Overdue == ~(state = "connected" /\ ping = "no")

(* loop_misc(), when the keepalive time has passed: PINGREQ, or the end.    *)
(* Both tests may report the end, the one for silence and the one for       *)
(* PINGRESP.                                                                *)
Misc ==
    /\ Idle
    /\ misc # {}
    /\ \/ /\ state = "connected" /\ ping = "no"
          /\ ping' = "asked"
          /\ outq' = Append(outq, "PINGREQ")
          /\ stack' = Step("register", 0)
       \/ /\ Overdue
          /\ \/ stack' = Ending("keepalive")
             \/ /\ ping # "no"
                /\ stack' \in {Ending("no PINGRESP"),
                               Ending("keepalive") \o Ending("no PINGRESP")}
          /\ UNCHANGED <<ping, outq>>
    /\ UNCHANGED <<sock, made, registered, state, greeted, pub, watches, threaded, counts>>

-----------------------------------------------------------------------------
(* publish() on a second thread: nothing it shares with the loop is locked. *)
ThreadCalls ==
    /\ threaded /\ pub = "idle"
    /\ Publish
    /\ pub' = "append"
    /\ UNCHANGED <<client, stack, watches, threaded, packets, faults>>

ThreadAppends ==
    /\ pub = "append"
    /\ outq' = Append(outq, "PUBLISH")
    /\ pub' = "test"
    /\ UNCHANGED <<sock, made, registered, state, ping, greeted, stack, watches, threaded, counts>>

ThreadTests ==
    /\ pub = "test"
    /\ pub' = IF sock = 0 \/ registered THEN "idle" ELSE "set"
    /\ UNCHANGED <<client, stack, watches, threaded, counts>>

ThreadSets ==
    /\ pub = "set"
    /\ registered' = TRUE
    /\ pub' = "call"
    /\ UNCHANGED <<sock, made, outq, state, ping, greeted, stack, watches, threaded, counts>>

(* The socket is the one of this moment, or None.                           *)
ThreadRegisters ==
    /\ pub = "call"
    /\ pub' = "idle"
    /\ IF sock = 0 THEN UNCHANGED watches ELSE OnSocketRegisterWrite(sock)
    /\ UNCHANGED <<client, stack, threaded, counts>>

-----------------------------------------------------------------------------
Thread == ThreadCalls \/ ThreadAppends \/ ThreadTests \/ ThreadSets \/ ThreadRegisters

Continue ==
    \/ Callback \/ CallSocketRegisterWrite \/ CallSocketUnregisterWrite \/ SockClose
    \/ UserCallback \/ Clear \/ CreateSocket \/ Fresh \/ SendConnect
    \/ PacketWrite \/ Settle \/ Finally \/ Ended \/ Lost
    \/ PacketRead \/ Resume

Next ==
    \/ Application \/ Reconnect
    \/ Writable \/ Readable \/ Misc
    \/ Continue \/ Thread

(* A call goes on; the event loop runs the callback of a writable socket    *)
(* and, every second, misc_loop(); a thread that has begun goes on.         *)
Spec ==
    /\ Init /\ [][Next]_vars
    /\ WF_vars(Continue) /\ SF_vars(Writable) /\ SF_vars(Misc)
    /\ WF_vars(ThreadAppends \/ ThreadTests \/ ThreadSets \/ ThreadRegisters)

-----------------------------------------------------------------------------
TypeOK ==
    /\ sock \in 0..made /\ made \in 0..MaxSockets
    /\ registered \in BOOLEAN /\ greeted \in BOOLEAN
    /\ outq \in Seq({"CONNECT", "PUBLISH", "PINGREQ", "DISCONNECT"})
    /\ state \in {"new", "connecting", "connected", "disconnecting", "disconnected", "lost"}
    /\ ping \in {"no", "asked", "sent"}
    /\ pub \in {"idle", "append", "test", "set", "call"}
    /\ readers \subseteq 1..made /\ writers \subseteq 1..made /\ misc \subseteq 1..made

(* If one thread makes all calls, then between two events the loop reads    *)
(* from the client's socket and runs misc_loop() for it, watches it for     *)
(* writing exactly while packets are queued, and watches no closed socket,  *)
(* whatever the callbacks have published, ended or raised.                  *)
Open == IF sock = 0 THEN {} ELSE {sock}

WatchesFit ==
    /\ TypeOK
    /\ Idle /\ ~threaded =>
          /\ readers = Open
          /\ misc = Open
          /\ writers = IF outq = <<>> THEN {} ELSE Open

(* README: "The callbacks are always called in this order": open, register  *)
(* and unregister in turn, close; here for calls from one thread.           *)
CallbacksInOrder == ~threaded => \A s \in Socket : told[s] # "disorder"

(* A packet in the queue is written, dropped by reconnect() or overtaken by *)
(* the end of its connection, also if two threads have lost the watch for   *)
(* writing: the keepalive time ends what no PINGREQ wakes up.               *)
QueuedIsWritten == (outq # <<>>) ~> (outq = <<>> \/ sock = 0)
=============================================================================
