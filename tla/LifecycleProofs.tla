-------------------------- MODULE LifecycleProofs --------------------------
(***************************************************************************)
(* Two properties of Lifecycle for every number of failures, of calls of   *)
(* connect() and of loop_start(), wherever disconnect() is called and      *)
(* whatever _handle_connack may change after a refusal.  Account says at   *)
(* each place of the network thread how often the end of the last socket   *)
(* was reported, Wish why the thread may see a reason to end.              *)
(***************************************************************************)
EXTENDS Lifecycle, TLAPS

(* The places without and with a socket, and those in _handle_connack.      *)
Without == {"closed", "notify", "settle", "bye_state", "keepalive", "keepalive_notify",
            "misc", "misc_lost", "misc_notify", "lost", "ended", "wait", "retry", "open"}
With == {"bye", "bye_close", "greet"}
Handler == {"resume", "close", "closed", "notify", "settle", "bye", "bye_close", "bye_state",
            "reconnect", "clear", "open", "greet", "none"}

(* The places where _loop_rc_handle, _packet_write or _check_keepalive owes *)
(* a call of on_disconnect, where loop_misc does, and where _loop_rc_handle *)
(* and _packet_write have made it.                                          *)
Reporting == {"close", "closed", "notify", "bye", "keepalive", "keepalive_notify"}
Misc == {"misc", "misc_lost", "misc_notify"}
Leaving == {"settle", "bye_close", "bye_state"}
GivingUp == {"keepalive", "keepalive_notify"}

(* Where there is a socket.  reconnect() finds one only in _handle_connack, *)
(* _loop_rc_handle finds none only after a failure in that handler.         *)
Places ==
    /\ net \in Without => ~sock
    /\ net \in With => sock
    /\ net \in {"reconnect", "clear"} => (sock <=> within = "connack")
    /\ net = "close" /\ ~sock => fate = "resuming" /\ within # "connack"
    /\ within = "connack" => net \in Handler
    /\ net = "resume" => within = "connack"
    /\ state = "CONNECT_ASYNC" => ~sock /\ net \notin {"clear", "open", "greet"}
    /\ app = "connect" => ~Running /\ ~sock /\ state # "CONNECT_ASYNC"

(* How often on_disconnect was called, for each fate of the socket.         *)
Count ==
    /\ fate \in {"none", "silent"} =>
          /\ ~sock /\ calls = 0
          /\ net \notin Reporting \cup Misc \cup Leaving \cup {"resume"}
    /\ fate = "held" =>
          /\ calls = IF (sock /\ net # "bye_close") \/ net \in Reporting THEN 0 ELSE 1
          /\ net \notin Misc
          /\ net \in GivingUp => ~pinged
          /\ net = "resume" => sock
          /\ within = "connack" => net \notin Reporting \cup Leaving
    /\ fate = "pinged" =>
          /\ ~sock
          /\ net \notin (Reporting \ GivingUp) \cup Leaving \cup {"resume"}
          /\ IF net \in GivingUp THEN calls = 0
             ELSE IF net \in Misc THEN calls \in {0, 1}
             ELSE calls \in {1, 2}
    /\ fate = "resuming" =>
          /\ sock => net \in {"bye", "bye_close", "close"} /\ within = "connack"
          /\ net \notin GivingUp \cup Misc
          /\ net \in {"bye", "bye_close", "bye_state"} => within = "connack"
          /\ IF net \in Reporting THEN calls = IF within = "connack" THEN 0 ELSE 1
             ELSE IF net \in Leaving THEN calls = IF within = "connack" THEN 1 ELSE 2
             ELSE IF net = "resume" THEN calls = 1
             ELSE calls \in {1, 2}

Account == Places /\ Count

(* _state and _thread_terminate ask the thread to end only when a caller    *)
(* did so.                                                                  *)
Wish ==
    /\ state \in Disconnecting => asked \cap Callers # {}
    /\ app \in {"no_sock", "with_sock"} => "thread" \in asked
    /\ Running /\ terminate => "loop_stop" \in asked

LifeInv == TypeOK /\ Account /\ Wish

(* The type invariant in two parts: the flags, and everything else.         *)
Flags ==
    /\ sock \in BOOLEAN /\ terminate \in BOOLEAN /\ stored \in BOOLEAN /\ pinged \in BOOLEAN

Fields ==
    /\ state \in ConnectionStates
    /\ outPacket \in Seq({"CONNECT", "DISCONNECT"})
    /\ net \in {"none", "enter", "loop", "resume", "lost", "close", "closed", "notify", "settle",
                "bye", "bye_close", "bye_state", "keepalive", "keepalive_notify",
                "misc", "misc_lost", "misc_notify", "ended", "wait", "retry",
                "reconnect", "clear", "open", "greet"}
    /\ within \in {"first", "second", "connack"}
    /\ rc \in {"SUCCESS", "CONN_LOST", "CONN_REFUSED", "PROTOCOL", "NO_CONN"}
    /\ app \in {"idle", "no_sock", "with_sock", "queue", "connect", "join"}
    /\ fallbacks \subseteq Refusals
    /\ link \in Links
    /\ fate \in Fates
    /\ calls \in Nat
    /\ asked \subseteq Callers \cup {"loop_stop"}
    /\ faults \in Nat /\ lives \in Nat /\ starts \in Nat

-----------------------------------------------------------------------------
(* The two parts are the type invariant.                                    *)
LEMMA TypeParts == TypeOK <=> Flags /\ Fields
BY DEF TypeOK, Flags, Fields

(* What a callback may leave behind by a disconnect() of its own.           *)
LEMMA OnConnectEffect ==
    ASSUME NEW st, OnConnect(st)
    PROVE  /\ state' \in {st, "DISCONNECTING"}
           /\ outPacket' \in {outPacket, Append(outPacket, "DISCONNECT")}
           /\ asked' \in {asked, asked \cup {"on_connect"}}
           /\ state' = st \/ "on_connect" \in asked'
BY DEF OnConnect

(* on_disconnect is counted, and disconnect() in it finds no socket.        *)
LEMMA OnDisconnectEffect ==
    ASSUME NEW st, OnDisconnect(st)
    PROVE  /\ calls' = calls + 1
           /\ state' \in {st, "DISCONNECTED"}
           /\ asked' \in {asked, asked \cup {"on_disconnect"}}
           /\ state' = st \/ "on_disconnect" \in asked'
BY DEF OnDisconnect

(* After the written DISCONNECT disconnect() in on_disconnect finds one.    *)
LEMMA ByeEffect ==
    ASSUME Bye
    PROVE  /\ net = "bye" /\ net' = "bye_close" /\ calls' = calls + 1
           /\ UNCHANGED <<sock, terminate, within, rc, app, stored, pinged, fallbacks, link, fate,
                          faults, lives, starts>>
           /\ state' \in {state, "DISCONNECTING"}
           /\ outPacket' \in {outPacket, Append(outPacket, "DISCONNECT")}
           /\ asked' \in {asked, asked \cup {"on_disconnect"}}
           /\ state' = state \/ "on_disconnect" \in asked'
BY DEF Bye, kept, bounds

(* The application thread keeps the flags.                                  *)
LEMMA ApplicationFlags ==
    ASSUME Flags, ConnectAsync \/ Connect \/ ConnectOpens \/ ConnectFails \/
              LoopStart \/ LoopStop \/ Joined \/ DisconnectCall \/
              DisconnectState \/ DisconnectQueue \/ Store
    PROVE  Flags'
<1> USE DEF Flags, netVars, kept, record, bounds
<1>1. CASE ConnectAsync        BY <1>1 DEF ConnectAsync, Replaced
<1>2. CASE Connect             BY <1>2 DEF Connect, Replaced
<1>3. CASE ConnectOpens        BY <1>3 DEF ConnectOpens
<1>4. CASE ConnectFails        BY <1>4 DEF ConnectFails
<1>5. CASE LoopStart           BY <1>5 DEF LoopStart
<1>6. CASE LoopStop            BY <1>6 DEF LoopStop
<1>7. CASE Joined              BY <1>7 DEF Joined
<1>8. CASE DisconnectCall      BY <1>8 DEF DisconnectCall
<1>9. CASE DisconnectState     BY <1>9 DEF DisconnectState
<1>10. CASE DisconnectQueue    BY <1>10 DEF DisconnectQueue
<1>11. CASE Store              BY <1>11 DEF Store
<1> QED  BY <1>1, <1>2, <1>3, <1>4, <1>5, <1>6, <1>7, <1>8, <1>9, <1>10, <1>11

(* loop_forever and reconnect() keep them.                                  *)
LEMMA ReconnectFlags ==
    ASSUME Flags, Enter \/ Ended \/ Waited \/ Retry \/ ReconnectState \/
              ReconnectClear \/ ReconnectOpen \/ ReconnectFails \/
              ReconnectGreet
    PROVE  Flags'
<1> USE DEF Flags, netVars, kept, record, bounds
<1>1. CASE Enter               BY <1>1 DEF Enter
<1>2. CASE Ended               BY <1>2 DEF Ended
<1>3. CASE Waited              BY <1>3 DEF Waited
<1>4. CASE Retry               BY <1>4 DEF Retry
<1>5. CASE ReconnectState      BY <1>5 DEF ReconnectState
<1>6. CASE ReconnectClear      BY <1>6 DEF ReconnectClear, Replaced
<1>7. CASE ReconnectOpen       BY <1>7 DEF ReconnectOpen
<1>8. CASE ReconnectFails      BY <1>8 DEF ReconnectFails
<1>9. CASE ReconnectGreet      BY <1>9 DEF ReconnectGreet
<1> QED  BY <1>1, <1>2, <1>3, <1>4, <1>5, <1>6, <1>7, <1>8, <1>9

(* What _loop reads and writes keeps them.                                  *)
LEMMA LoopFlags ==
    ASSUME Flags, NoSocket \/ MarkLost \/ Terminated \/ ReadConnack \/
              ResumeEnds \/ ResumeFails \/ ReadRefusal \/ ReadFallback \/
              Failure \/ ReadDisconnect \/ WriteConnect \/
              WriteDisconnect
    PROVE  Flags'
<1> USE DEF Flags, netVars, kept, record, bounds
<1>1. CASE NoSocket            BY <1>1 DEF NoSocket
<1>2. CASE MarkLost            BY <1>2 DEF MarkLost
<1>3. CASE Terminated          BY <1>3 DEF Terminated
<1>4. CASE ReadConnack         BY <1>4 DEF ReadConnack, OnConnect
<1>5. CASE ResumeEnds          BY <1>5 DEF ResumeEnds, AfterRead
<1>6. CASE ResumeFails         BY <1>6 DEF ResumeFails
<1>7. CASE ReadRefusal         BY <1>7 DEF ReadRefusal, OnConnect
<1>8. CASE ReadFallback        BY <1>8 DEF ReadFallback
<1>9. CASE Failure             BY <1>9 DEF Failure, Writing, LostWhile
<1>10. CASE ReadDisconnect     BY <1>10 DEF ReadDisconnect, AfterRead, OnDisconnect
<1>11. CASE WriteConnect       BY <1>11 DEF WriteConnect
<1>12. CASE WriteDisconnect    BY <1>12 DEF WriteDisconnect, Writing, LostWhile
<1> QED  BY <1>1, <1>2, <1>3, <1>4, <1>5, <1>6, <1>7, <1>8, <1>9, <1>10, <1>11, <1>12

(* The ends of a connection keep them.                                      *)
LEMMA EndFlags ==
    ASSUME Flags, Bye \/ ByeClose \/ ByeState \/ CloseSocket \/ CloseState \/
              CloseNotify \/ CloseSettle
    PROVE  Flags'
<1> USE DEF Flags, netVars, kept, record, bounds
<1>1. CASE Bye                 BY <1>1 DEF Bye
<1>2. CASE ByeClose            BY <1>2 DEF ByeClose
<1>3. CASE ByeState            BY <1>3 DEF ByeState, AfterWrite
<1>4. CASE CloseSocket         BY <1>4 DEF CloseSocket
<1>5. CASE CloseState          BY <1>5 DEF CloseState
<1>6. CASE CloseNotify         BY <1>6 DEF CloseNotify, OnDisconnect
<1>7. CASE CloseSettle         BY <1>7 DEF CloseSettle, AfterClose
<1> QED  BY <1>1, <1>2, <1>3, <1>4, <1>5, <1>6, <1>7

(* loop_misc keeps them.                                                    *)
LEMMA MiscFlags ==
    ASSUME Flags, Ping \/ Pingresp \/ KeepaliveClose \/ KeepaliveState \/
              KeepaliveNotify \/ MiscClose \/ MiscState \/ MiscLost \/
              MiscNotify
    PROVE  Flags'
<1> USE DEF Flags, netVars, kept, record, bounds
<1>1. CASE Ping                BY <1>1 DEF Ping
<1>2. CASE Pingresp            BY <1>2 DEF Pingresp
<1>3. CASE KeepaliveClose      BY <1>3 DEF KeepaliveClose
<1>4. CASE KeepaliveState      BY <1>4 DEF KeepaliveState
<1>5. CASE KeepaliveNotify     BY <1>5 DEF KeepaliveNotify, OnDisconnect
<1>6. CASE MiscClose           BY <1>6 DEF MiscClose
<1>7. CASE MiscState           BY <1>7 DEF MiscState
<1>8. CASE MiscLost            BY <1>8 DEF MiscLost
<1>9. CASE MiscNotify          BY <1>9 DEF MiscNotify, OnDisconnect
<1> QED  BY <1>1, <1>2, <1>3, <1>4, <1>5, <1>6, <1>7, <1>8, <1>9

(* The peer keeps them.                                                     *)
LEMMA PeerFlags ==
    ASSUME Flags, Connack \/ Acknowledge \/ PeerFault
    PROVE  Flags'
<1> USE DEF Flags, netVars, kept, record, bounds
<1>1. CASE Connack             BY <1>1 DEF Connack
<1>2. CASE Acknowledge         BY <1>2 DEF Acknowledge
<1>3. CASE PeerFault           BY <1>3 DEF PeerFault
<1> QED  BY <1>1, <1>2, <1>3

(* The application thread keeps the fields.                                 *)
LEMMA ApplicationFields ==
    ASSUME Fields, ConnectAsync \/ Connect \/ ConnectOpens \/ ConnectFails \/
              LoopStart \/ LoopStop \/ Joined \/ DisconnectCall \/
              DisconnectState \/ DisconnectQueue \/ Store
    PROVE  Fields'
<1> USE DEF Fields, ConnectionStates, Disconnecting, Links, Fates, Refusals, Callers, netVars,
           kept, record, bounds
<1>1. CASE ConnectAsync        BY <1>1 DEF ConnectAsync, Replaced
<1>2. CASE Connect             BY <1>2 DEF Connect, Replaced
<1>3. CASE ConnectOpens        BY <1>3 DEF ConnectOpens
<1>4. CASE ConnectFails        BY <1>4 DEF ConnectFails
<1>5. CASE LoopStart           BY <1>5 DEF LoopStart
<1>6. CASE LoopStop            BY <1>6 DEF LoopStop
<1>7. CASE Joined              BY <1>7 DEF Joined
<1>8. CASE DisconnectCall      BY <1>8 DEF DisconnectCall
<1>9. CASE DisconnectState     BY <1>9 DEF DisconnectState
<1>10. CASE DisconnectQueue    BY <1>10 DEF DisconnectQueue
<1>11. CASE Store              BY <1>11 DEF Store
<1> QED  BY <1>1, <1>2, <1>3, <1>4, <1>5, <1>6, <1>7, <1>8, <1>9, <1>10, <1>11

(* loop_forever and reconnect() keep them.                                  *)
LEMMA ReconnectFields ==
    ASSUME Fields, Enter \/ Ended \/ Waited \/ Retry \/ ReconnectState \/
              ReconnectClear \/ ReconnectOpen \/ ReconnectFails \/
              ReconnectGreet
    PROVE  Fields'
<1> USE DEF Fields, ConnectionStates, Disconnecting, Links, Fates, Refusals, Callers, netVars,
           kept, record, bounds
<1>1. CASE Enter               BY <1>1 DEF Enter
<1>2. CASE Ended               BY <1>2 DEF Ended
<1>3. CASE Waited              BY <1>3 DEF Waited
<1>4. CASE Retry               BY <1>4 DEF Retry
<1>5. CASE ReconnectState      BY <1>5 DEF ReconnectState
<1>6. CASE ReconnectClear      BY <1>6 DEF ReconnectClear, Replaced
<1>7. CASE ReconnectOpen       BY <1>7 DEF ReconnectOpen
<1>8. CASE ReconnectFails      BY <1>8 DEF ReconnectFails
<1>9. CASE ReconnectGreet      BY <1>9 DEF ReconnectGreet
<1> QED  BY <1>1, <1>2, <1>3, <1>4, <1>5, <1>6, <1>7, <1>8, <1>9

(* What _loop reads and writes keeps them.                                  *)
LEMMA LoopFields ==
    ASSUME Fields, NoSocket \/ MarkLost \/ Terminated \/ ReadConnack \/
              ResumeEnds \/ ResumeFails \/ ReadRefusal \/ ReadFallback \/
              Failure \/ ReadDisconnect \/ WriteConnect \/
              WriteDisconnect
    PROVE  Fields'
<1> USE DEF Fields, ConnectionStates, Disconnecting, Links, Fates, Refusals, Callers, netVars,
           kept, record, bounds
<1>1. CASE NoSocket            BY <1>1 DEF NoSocket
<1>2. CASE MarkLost            BY <1>2 DEF MarkLost
<1>3. CASE Terminated          BY <1>3 DEF Terminated
<1>4. CASE ReadConnack
  <2>1. state' \in ConnectionStates
    BY <1>4, OnConnectEffect DEF ReadConnack
  <2>2. outPacket' \in Seq({"CONNECT", "DISCONNECT"})
    BY <1>4, OnConnectEffect DEF ReadConnack
  <2>3. asked' \subseteq Callers \cup {"loop_stop"}
    BY <1>4, OnConnectEffect DEF ReadConnack
  <2>4. net' \in {"loop", "resume"} /\ within' \in {"second", "connack"} /\ UNCHANGED <<rc, app>>
    BY <1>4, OnConnectEffect DEF ReadConnack
  <2>5. link' \in Links /\ fate' \in Fates /\ calls' \in Nat /\ fallbacks' \subseteq Refusals
    BY <1>4, OnConnectEffect DEF ReadConnack
  <2>6. faults' \in Nat /\ lives' \in Nat /\ starts' \in Nat
    BY <1>4, OnConnectEffect DEF ReadConnack
  <2> QED  BY <2>1, <2>2, <2>3, <2>4, <2>5, <2>6
<1>5. CASE ResumeEnds          BY <1>5 DEF ResumeEnds, AfterRead
<1>6. CASE ResumeFails         BY <1>6 DEF ResumeFails
<1>7. CASE ReadRefusal
  <2>1. state' \in ConnectionStates
    BY <1>7, OnConnectEffect DEF ReadRefusal
  <2>2. outPacket' \in Seq({"CONNECT", "DISCONNECT"})
    BY <1>7, OnConnectEffect DEF ReadRefusal
  <2>3. asked' \subseteq Callers \cup {"loop_stop"}
    BY <1>7, OnConnectEffect DEF ReadRefusal
  <2>4. net' = "close" /\ within' = within /\ rc' = "CONN_REFUSED" /\ UNCHANGED app
    BY <1>7, OnConnectEffect DEF ReadRefusal
  <2>5. link' \in Links /\ fate' \in Fates /\ calls' \in Nat /\ fallbacks' \subseteq Refusals
    BY <1>7, OnConnectEffect DEF ReadRefusal
  <2>6. faults' \in Nat /\ lives' \in Nat /\ starts' \in Nat
    BY <1>7, OnConnectEffect DEF ReadRefusal
  <2> QED  BY <2>1, <2>2, <2>3, <2>4, <2>5, <2>6
<1>8. CASE ReadFallback
  <2>1. fallbacks' \subseteq fallbacks
    BY <1>8 DEF ReadFallback
  <2>2. /\ net' \in {"reconnect", "close"} /\ within' \in {within, "connack"}
        /\ rc' \in {rc, "PROTOCOL"}
    BY <1>8 DEF ReadFallback
  <2>3. UNCHANGED <<state, outPacket, app, link, fate, calls, asked, faults, lives, starts>>
    BY <1>8 DEF ReadFallback
  <2> QED  BY <2>1, <2>2, <2>3
<1>9. CASE Failure             BY <1>9 DEF Failure, Writing, LostWhile
<1>10. CASE ReadDisconnect
  <2>1. state' \in ConnectionStates
    BY <1>10, OnDisconnectEffect DEF ReadDisconnect, AfterRead
  <2>2. outPacket' \in Seq({"CONNECT", "DISCONNECT"})
    BY <1>10, OnDisconnectEffect DEF ReadDisconnect, AfterRead
  <2>3. asked' \subseteq Callers \cup {"loop_stop"}
    BY <1>10, OnDisconnectEffect DEF ReadDisconnect, AfterRead
  <2>4. net' \in {"loop", "ended"} /\ UNCHANGED <<within, rc, app>>
    BY <1>10, OnDisconnectEffect DEF ReadDisconnect, AfterRead
  <2>5. link' \in Links /\ fate' \in Fates /\ calls' \in Nat /\ fallbacks' \subseteq Refusals
    BY <1>10, OnDisconnectEffect DEF ReadDisconnect, AfterRead
  <2>6. faults' \in Nat /\ lives' \in Nat /\ starts' \in Nat
    BY <1>10, OnDisconnectEffect DEF ReadDisconnect, AfterRead
  <2> QED  BY <2>1, <2>2, <2>3, <2>4, <2>5, <2>6
<1>11. CASE WriteConnect       BY <1>11 DEF WriteConnect
<1>12. CASE WriteDisconnect    BY <1>12 DEF WriteDisconnect, Writing, LostWhile
<1> QED  BY <1>1, <1>2, <1>3, <1>4, <1>5, <1>6, <1>7, <1>8, <1>9, <1>10, <1>11, <1>12

(* The ends of a connection keep them.                                      *)
LEMMA EndFields ==
    ASSUME Fields, Bye \/ ByeClose \/ ByeState \/ CloseSocket \/ CloseState \/
              CloseNotify \/ CloseSettle
    PROVE  Fields'
<1> USE DEF Fields, ConnectionStates, Disconnecting, Links, Fates, Refusals, Callers, netVars,
           kept, record, bounds
<1>1. CASE Bye
  <2>1. state' \in ConnectionStates
    BY <1>1, ByeEffect
  <2>2. outPacket' \in Seq({"CONNECT", "DISCONNECT"})
    BY <1>1, ByeEffect
  <2>3. asked' \subseteq Callers \cup {"loop_stop"}
    BY <1>1, ByeEffect
  <2>4. net' = "bye_close" /\ UNCHANGED <<within, rc, app>>
    BY <1>1, ByeEffect
  <2>5. link' \in Links /\ fate' \in Fates /\ calls' \in Nat /\ fallbacks' \subseteq Refusals
    BY <1>1 DEF Bye
  <2>6. faults' \in Nat /\ lives' \in Nat /\ starts' \in Nat
    BY <1>1, ByeEffect
  <2> QED  BY <2>1, <2>2, <2>3, <2>4, <2>5, <2>6
<1>2. CASE ByeClose            BY <1>2 DEF ByeClose
<1>3. CASE ByeState            BY <1>3 DEF ByeState, AfterWrite
<1>4. CASE CloseSocket         BY <1>4 DEF CloseSocket
<1>5. CASE CloseState          BY <1>5 DEF CloseState
<1>6. CASE CloseNotify
  <2>1. state' \in ConnectionStates
    BY <1>6, OnDisconnectEffect DEF CloseNotify
  <2>2. outPacket' \in Seq({"CONNECT", "DISCONNECT"})
    BY <1>6, OnDisconnectEffect DEF CloseNotify
  <2>3. asked' \subseteq Callers \cup {"loop_stop"}
    BY <1>6, OnDisconnectEffect DEF CloseNotify
  <2>4. net' = "settle" /\ UNCHANGED <<within, rc, app>>
    BY <1>6, OnDisconnectEffect DEF CloseNotify
  <2>5. link' \in Links /\ fate' \in Fates /\ calls' \in Nat /\ fallbacks' \subseteq Refusals
    BY <1>6, OnDisconnectEffect DEF CloseNotify
  <2>6. faults' \in Nat /\ lives' \in Nat /\ starts' \in Nat
    BY <1>6, OnDisconnectEffect DEF CloseNotify
  <2> QED  BY <2>1, <2>2, <2>3, <2>4, <2>5, <2>6
<1>7. CASE CloseSettle         BY <1>7 DEF CloseSettle, AfterClose
<1> QED  BY <1>1, <1>2, <1>3, <1>4, <1>5, <1>6, <1>7

(* loop_misc keeps them.                                                    *)
LEMMA MiscFields ==
    ASSUME Fields, Ping \/ Pingresp \/ KeepaliveClose \/ KeepaliveState \/
              KeepaliveNotify \/ MiscClose \/ MiscState \/ MiscLost \/
              MiscNotify
    PROVE  Fields'
<1> USE DEF Fields, ConnectionStates, Disconnecting, Links, Fates, Refusals, Callers, netVars,
           kept, record, bounds
<1>1. CASE Ping                BY <1>1 DEF Ping
<1>2. CASE Pingresp            BY <1>2 DEF Pingresp
<1>3. CASE KeepaliveClose      BY <1>3 DEF KeepaliveClose
<1>4. CASE KeepaliveState      BY <1>4 DEF KeepaliveState
<1>5. CASE KeepaliveNotify
  <2>1. state' \in ConnectionStates
    BY <1>5, OnDisconnectEffect DEF KeepaliveNotify
  <2>2. outPacket' \in Seq({"CONNECT", "DISCONNECT"})
    BY <1>5, OnDisconnectEffect DEF KeepaliveNotify
  <2>3. asked' \subseteq Callers \cup {"loop_stop"}
    BY <1>5, OnDisconnectEffect DEF KeepaliveNotify
  <2>4. net' \in {"loop", "misc"} /\ UNCHANGED <<within, rc, app>>
    BY <1>5, OnDisconnectEffect DEF KeepaliveNotify
  <2>5. link' \in Links /\ fate' \in Fates /\ calls' \in Nat /\ fallbacks' \subseteq Refusals
    BY <1>5, OnDisconnectEffect DEF KeepaliveNotify
  <2>6. faults' \in Nat /\ lives' \in Nat /\ starts' \in Nat
    BY <1>5, OnDisconnectEffect DEF KeepaliveNotify
  <2> QED  BY <2>1, <2>2, <2>3, <2>4, <2>5, <2>6
<1>6. CASE MiscClose           BY <1>6 DEF MiscClose
<1>7. CASE MiscState           BY <1>7 DEF MiscState
<1>8. CASE MiscLost            BY <1>8 DEF MiscLost
<1>9. CASE MiscNotify
  <2>1. state' \in ConnectionStates
    BY <1>9, OnDisconnectEffect DEF MiscNotify
  <2>2. outPacket' \in Seq({"CONNECT", "DISCONNECT"})
    BY <1>9, OnDisconnectEffect DEF MiscNotify
  <2>3. asked' \subseteq Callers \cup {"loop_stop"}
    BY <1>9, OnDisconnectEffect DEF MiscNotify
  <2>4. net' = "ended" /\ UNCHANGED <<within, rc, app>>
    BY <1>9, OnDisconnectEffect DEF MiscNotify
  <2>5. link' \in Links /\ fate' \in Fates /\ calls' \in Nat /\ fallbacks' \subseteq Refusals
    BY <1>9, OnDisconnectEffect DEF MiscNotify
  <2>6. faults' \in Nat /\ lives' \in Nat /\ starts' \in Nat
    BY <1>9, OnDisconnectEffect DEF MiscNotify
  <2> QED  BY <2>1, <2>2, <2>3, <2>4, <2>5, <2>6
<1> QED  BY <1>1, <1>2, <1>3, <1>4, <1>5, <1>6, <1>7, <1>8, <1>9

(* The peer keeps them.                                                     *)
LEMMA PeerFields ==
    ASSUME Fields, Connack \/ Acknowledge \/ PeerFault
    PROVE  Fields'
<1> USE DEF Fields, ConnectionStates, Disconnecting, Links, Fates, Refusals, Callers, netVars,
           kept, record, bounds
<1>1. CASE Connack             BY <1>1 DEF Connack
<1>2. CASE Acknowledge         BY <1>2 DEF Acknowledge
<1>3. CASE PeerFault           BY <1>3 DEF PeerFault
<1> QED  BY <1>1, <1>2, <1>3

-----------------------------------------------------------------------------
(* connect() starts a new account; only it and connect_async() replace a    *)
(* socket.                                                                  *)
LEMMA ApplicationAccount ==
    ASSUME Fields, Account, ConnectAsync \/ Connect \/ ConnectOpens \/ ConnectFails \/
              LoopStart \/ LoopStop \/ Joined \/ DisconnectCall \/
              DisconnectState \/ DisconnectQueue \/ Store
    PROVE  Account'
<1> USE DEF Fields, Fates, Account, Places, Count, With, Without, Handler, Reporting, GivingUp,
           Misc, Leaving, Disconnecting, netVars, kept, record, bounds, Idle, Running
<1>1. CASE ConnectAsync        BY <1>1 DEF ConnectAsync, Replaced
<1>2. CASE Connect             BY <1>2 DEF Connect, Replaced
<1>3. CASE ConnectOpens        BY <1>3 DEF ConnectOpens
<1>4. CASE ConnectFails        BY <1>4 DEF ConnectFails
<1>5. CASE LoopStart           BY <1>5 DEF LoopStart
<1>6. CASE LoopStop            BY <1>6 DEF LoopStop
<1>7. CASE Joined              BY <1>7 DEF Joined
<1>8. CASE DisconnectCall      BY <1>8 DEF DisconnectCall
<1>9. CASE DisconnectState     BY <1>9 DEF DisconnectState
<1>10. CASE DisconnectQueue    BY <1>10 DEF DisconnectQueue
<1>11. CASE Store              BY <1>11 DEF Store
<1> QED  BY <1>1, <1>2, <1>3, <1>4, <1>5, <1>6, <1>7, <1>8, <1>9, <1>10, <1>11

(* A new socket starts a new account, and only _handle_connack replaces     *)
(* one.                                                                     *)
LEMMA ReconnectAccount ==
    ASSUME Fields, Account, Enter \/ Ended \/ Waited \/ Retry \/ ReconnectState \/
              ReconnectClear \/ ReconnectOpen \/ ReconnectFails \/
              ReconnectGreet
    PROVE  Account'
<1> USE DEF Fields, Fates, Account, Places, Count, With, Without, Handler, Reporting, GivingUp,
           Misc, Leaving, Disconnecting, netVars, kept, record, bounds, Idle, Running
<1>1. CASE Enter               BY <1>1 DEF Enter
<1>2. CASE Ended               BY <1>2 DEF Ended
<1>3. CASE Waited              BY <1>3 DEF Waited
<1>4. CASE Retry               BY <1>4 DEF Retry
<1>5. CASE ReconnectState      BY <1>5 DEF ReconnectState
<1>6. CASE ReconnectClear      BY <1>6 DEF ReconnectClear, Replaced
<1>7. CASE ReconnectOpen       BY <1>7 DEF ReconnectOpen
<1>8. CASE ReconnectFails      BY <1>8 DEF ReconnectFails
<1>9. CASE ReconnectGreet      BY <1>9 DEF ReconnectGreet
<1> QED  BY <1>1, <1>2, <1>3, <1>4, <1>5, <1>6, <1>7, <1>8, <1>9

(* Every way to lose a socket opens the question who reports it.            *)
LEMMA LoopAccount ==
    ASSUME Fields, Account, NoSocket \/ MarkLost \/ Terminated \/ ReadConnack \/
              ResumeEnds \/ ResumeFails \/ ReadRefusal \/ ReadFallback \/
              Failure \/ ReadDisconnect \/ WriteConnect \/
              WriteDisconnect
    PROVE  Account'
<1> USE DEF Fields, Fates, Account, Places, Count, With, Without, Handler, Reporting, GivingUp,
           Misc, Leaving, Disconnecting, netVars, kept, record, bounds, Idle, Running
<1>1. CASE NoSocket            BY <1>1 DEF NoSocket
<1>2. CASE MarkLost            BY <1>2 DEF MarkLost
<1>3. CASE Terminated          BY <1>3 DEF Terminated
<1>4. CASE ReadConnack         BY <1>4, OnConnectEffect DEF ReadConnack
<1>5. CASE ResumeEnds          BY <1>5 DEF ResumeEnds, AfterRead
<1>6. CASE ResumeFails         BY <1>6 DEF ResumeFails
<1>7. CASE ReadRefusal         BY <1>7, OnConnectEffect DEF ReadRefusal
<1>8. CASE ReadFallback        BY <1>8 DEF ReadFallback
<1>9. CASE Failure             BY <1>9 DEF Failure, Writing, LostWhile
<1>10. CASE ReadDisconnect     BY <1>10, OnDisconnectEffect DEF ReadDisconnect, AfterRead
<1>11. CASE WriteConnect       BY <1>11 DEF WriteConnect
<1>12. CASE WriteDisconnect    BY <1>12 DEF WriteDisconnect, Writing, LostWhile
<1> QED  BY <1>1, <1>2, <1>3, <1>4, <1>5, <1>6, <1>7, <1>8, <1>9, <1>10, <1>11, <1>12

(* Each end reports once; the second one of _handle_connack is the second   *)
(* report.                                                                  *)
LEMMA EndAccount ==
    ASSUME Fields, Account, Bye \/ ByeClose \/ ByeState \/ CloseSocket \/ CloseState \/
              CloseNotify \/ CloseSettle
    PROVE  Account'
<1> USE DEF Fields, Fates, Account, Places, Count, With, Without, Handler, Reporting, GivingUp,
           Misc, Leaving, Disconnecting, netVars, kept, record, bounds, Idle, Running
<1>1. CASE Bye                 BY <1>1, ByeEffect
<1>2. CASE ByeClose            BY <1>2 DEF ByeClose
<1>3. CASE ByeState            BY <1>3 DEF ByeState, AfterWrite
<1>4. CASE CloseSocket         BY <1>4 DEF CloseSocket
<1>5. CASE CloseState          BY <1>5 DEF CloseState
<1>6. CASE CloseNotify         BY <1>6, OnDisconnectEffect DEF CloseNotify
<1>7. CASE CloseSettle         BY <1>7 DEF CloseSettle, AfterClose
<1> QED  BY <1>1, <1>2, <1>3, <1>4, <1>5, <1>6, <1>7

(* loop_misc reports once, and a second time for an unanswered PINGREQ.     *)
LEMMA MiscAccount ==
    ASSUME Fields, Account, Ping \/ Pingresp \/ KeepaliveClose \/ KeepaliveState \/
              KeepaliveNotify \/ MiscClose \/ MiscState \/ MiscLost \/
              MiscNotify
    PROVE  Account'
<1> USE DEF Fields, Fates, Account, Places, Count, With, Without, Handler, Reporting, GivingUp,
           Misc, Leaving, Disconnecting, netVars, kept, record, bounds, Idle, Running
<1>1. CASE Ping                BY <1>1 DEF Ping
<1>2. CASE Pingresp            BY <1>2 DEF Pingresp
<1>3. CASE KeepaliveClose      BY <1>3 DEF KeepaliveClose
<1>4. CASE KeepaliveState      BY <1>4 DEF KeepaliveState
<1>5. CASE KeepaliveNotify     BY <1>5, OnDisconnectEffect DEF KeepaliveNotify
<1>6. CASE MiscClose           BY <1>6 DEF MiscClose
<1>7. CASE MiscState           BY <1>7 DEF MiscState
<1>8. CASE MiscLost            BY <1>8 DEF MiscLost
<1>9. CASE MiscNotify          BY <1>9, OnDisconnectEffect DEF MiscNotify
<1> QED  BY <1>1, <1>2, <1>3, <1>4, <1>5, <1>6, <1>7, <1>8, <1>9

(* The peer does not touch the account.                                     *)
LEMMA PeerAccount ==
    ASSUME Fields, Account, Connack \/ Acknowledge \/ PeerFault
    PROVE  Account'
<1> USE DEF Fields, Fates, Account, Places, Count, With, Without, Handler, Reporting, GivingUp,
           Misc, Leaving, Disconnecting, netVars, kept, record, bounds, Idle, Running
<1>1. CASE Connack             BY <1>1 DEF Connack
<1>2. CASE Acknowledge         BY <1>2 DEF Acknowledge
<1>3. CASE PeerFault           BY <1>3 DEF PeerFault
<1> QED  BY <1>1, <1>2, <1>3

(* disconnect() and loop_stop() are recorded before they are obeyed.        *)
LEMMA ApplicationWish ==
    ASSUME Wish, ConnectAsync \/ Connect \/ ConnectOpens \/ ConnectFails \/
              LoopStart \/ LoopStop \/ Joined \/ DisconnectCall \/
              DisconnectState \/ DisconnectQueue \/ Store
    PROVE  Wish'
<1> USE DEF Wish, Disconnecting, Callers, netVars, kept, record, bounds, Running, Idle
<1>1. CASE ConnectAsync        BY <1>1 DEF ConnectAsync, Replaced
<1>2. CASE Connect             BY <1>2 DEF Connect, Replaced
<1>3. CASE ConnectOpens        BY <1>3 DEF ConnectOpens
<1>4. CASE ConnectFails        BY <1>4 DEF ConnectFails
<1>5. CASE LoopStart           BY <1>5 DEF LoopStart
<1>6. CASE LoopStop            BY <1>6 DEF LoopStop
<1>7. CASE Joined              BY <1>7 DEF Joined
<1>8. CASE DisconnectCall      BY <1>8 DEF DisconnectCall
<1>9. CASE DisconnectState     BY <1>9 DEF DisconnectState
<1>10. CASE DisconnectQueue    BY <1>10 DEF DisconnectQueue
<1>11. CASE Store              BY <1>11 DEF Store
<1> QED  BY <1>1, <1>2, <1>3, <1>4, <1>5, <1>6, <1>7, <1>8, <1>9, <1>10, <1>11

(* No reason to end is left over or made up on the way to a connection.     *)
LEMMA ReconnectWish ==
    ASSUME Wish, Enter \/ Ended \/ Waited \/ Retry \/ ReconnectState \/
              ReconnectClear \/ ReconnectOpen \/ ReconnectFails \/
              ReconnectGreet
    PROVE  Wish'
<1> USE DEF Wish, Disconnecting, Callers, netVars, kept, record, bounds, Running, Idle
<1>1. CASE Enter               BY <1>1 DEF Enter
<1>2. CASE Ended               BY <1>2 DEF Ended
<1>3. CASE Waited              BY <1>3 DEF Waited
<1>4. CASE Retry               BY <1>4 DEF Retry
<1>5. CASE ReconnectState      BY <1>5 DEF ReconnectState
<1>6. CASE ReconnectClear      BY <1>6 DEF ReconnectClear, Replaced
<1>7. CASE ReconnectOpen       BY <1>7 DEF ReconnectOpen
<1>8. CASE ReconnectFails      BY <1>8 DEF ReconnectFails
<1>9. CASE ReconnectGreet      BY <1>9 DEF ReconnectGreet
<1> QED  BY <1>1, <1>2, <1>3, <1>4, <1>5, <1>6, <1>7, <1>8, <1>9

(* What is read or written asks the thread to end only through a callback.  *)
LEMMA LoopWish ==
    ASSUME Wish, NoSocket \/ MarkLost \/ Terminated \/ ReadConnack \/
              ResumeEnds \/ ResumeFails \/ ReadRefusal \/ ReadFallback \/
              Failure \/ ReadDisconnect \/ WriteConnect \/
              WriteDisconnect
    PROVE  Wish'
<1> USE DEF Wish, Disconnecting, Callers, netVars, kept, record, bounds, Running, Idle
<1>1. CASE NoSocket            BY <1>1 DEF NoSocket
<1>2. CASE MarkLost            BY <1>2 DEF MarkLost
<1>3. CASE Terminated          BY <1>3 DEF Terminated
<1>4. CASE ReadConnack         BY <1>4, OnConnectEffect DEF ReadConnack
<1>5. CASE ResumeEnds          BY <1>5 DEF ResumeEnds, AfterRead
<1>6. CASE ResumeFails         BY <1>6 DEF ResumeFails
<1>7. CASE ReadRefusal         BY <1>7, OnConnectEffect DEF ReadRefusal
<1>8. CASE ReadFallback        BY <1>8 DEF ReadFallback
<1>9. CASE Failure             BY <1>9 DEF Failure, Writing, LostWhile
<1>10. CASE ReadDisconnect     BY <1>10, OnDisconnectEffect DEF ReadDisconnect, AfterRead
<1>11. CASE WriteConnect       BY <1>11 DEF WriteConnect
<1>12. CASE WriteDisconnect    BY <1>12 DEF WriteDisconnect, Writing, LostWhile
<1> QED  BY <1>1, <1>2, <1>3, <1>4, <1>5, <1>6, <1>7, <1>8, <1>9, <1>10, <1>11, <1>12

(* No end of a connection becomes a wish to disconnect.                     *)
LEMMA EndWish ==
    ASSUME Wish, Bye \/ ByeClose \/ ByeState \/ CloseSocket \/ CloseState \/
              CloseNotify \/ CloseSettle
    PROVE  Wish'
<1> USE DEF Wish, Disconnecting, Callers, netVars, kept, record, bounds, Running, Idle
<1>1. CASE Bye                 BY <1>1, ByeEffect
<1>2. CASE ByeClose            BY <1>2 DEF ByeClose
<1>3. CASE ByeState            BY <1>3 DEF ByeState, AfterWrite
<1>4. CASE CloseSocket         BY <1>4 DEF CloseSocket
<1>5. CASE CloseState          BY <1>5 DEF CloseState
<1>6. CASE CloseNotify         BY <1>6, OnDisconnectEffect DEF CloseNotify
<1>7. CASE CloseSettle         BY <1>7 DEF CloseSettle, AfterClose
<1> QED  BY <1>1, <1>2, <1>3, <1>4, <1>5, <1>6, <1>7

(* Nor does a broker that is silent.                                        *)
LEMMA MiscWish ==
    ASSUME Wish, Ping \/ Pingresp \/ KeepaliveClose \/ KeepaliveState \/
              KeepaliveNotify \/ MiscClose \/ MiscState \/ MiscLost \/
              MiscNotify
    PROVE  Wish'
<1> USE DEF Wish, Disconnecting, Callers, netVars, kept, record, bounds, Running, Idle
<1>1. CASE Ping                BY <1>1 DEF Ping
<1>2. CASE Pingresp            BY <1>2 DEF Pingresp
<1>3. CASE KeepaliveClose      BY <1>3 DEF KeepaliveClose
<1>4. CASE KeepaliveState      BY <1>4 DEF KeepaliveState
<1>5. CASE KeepaliveNotify     BY <1>5, OnDisconnectEffect DEF KeepaliveNotify
<1>6. CASE MiscClose           BY <1>6 DEF MiscClose
<1>7. CASE MiscState           BY <1>7 DEF MiscState
<1>8. CASE MiscLost            BY <1>8 DEF MiscLost
<1>9. CASE MiscNotify          BY <1>9, OnDisconnectEffect DEF MiscNotify
<1> QED  BY <1>1, <1>2, <1>3, <1>4, <1>5, <1>6, <1>7, <1>8, <1>9

(* Nor does the peer ask the thread to end.                                 *)
LEMMA PeerWish ==
    ASSUME Wish, Connack \/ Acknowledge \/ PeerFault
    PROVE  Wish'
<1> USE DEF Wish, Disconnecting, Callers, netVars, kept, record, bounds, Running, Idle
<1>1. CASE Connack             BY <1>1 DEF Connack
<1>2. CASE Acknowledge         BY <1>2 DEF Acknowledge
<1>3. CASE PeerFault           BY <1>3 DEF PeerFault
<1> QED  BY <1>1, <1>2, <1>3

-----------------------------------------------------------------------------
(* The invariant holds before the first connect().                          *)
LEMMA InitLife == Init => LifeInv
<1> SUFFICES ASSUME Init PROVE LifeInv
  OBVIOUS
<1>1. Flags
  BY DEF Init, Flags
<1>2. Fields
  BY LifecycleAssumption DEF Init, Fields, ConnectionStates, Links, Fates, Callers
<1>3. Account /\ Wish
  BY DEF Init, Account, Places, Count, With, Without, Handler, Reporting, GivingUp, Misc, Leaving,
     Wish, Disconnecting, Running
<1> QED  BY <1>1, <1>2, <1>3, TypeParts DEF LifeInv

(* Every step keeps the invariant.                                          *)
LEMMA StepLife == ASSUME LifeInv, [Next]_vars PROVE LifeInv'
<1> DEFINE Rec == Enter \/ Ended \/ Waited \/ Retry \/
                         ReconnectState \/ ReconnectClear \/
                         ReconnectOpen \/ ReconnectFails \/
                         ReconnectGreet
           Loop == NoSocket \/ MarkLost \/ Terminated \/
                         ReadConnack \/ ResumeEnds \/ ResumeFails \/
                         ReadRefusal \/ ReadFallback \/ Failure \/
                         ReadDisconnect \/ WriteConnect \/
                         WriteDisconnect
           End == Bye \/ ByeClose \/ ByeState \/ CloseSocket \/
                         CloseState \/ CloseNotify \/ CloseSettle
           Idling == Ping \/ Pingresp \/ KeepaliveClose \/
                         KeepaliveState \/ KeepaliveNotify \/
                         MiscClose \/ MiscState \/ MiscLost \/ MiscNotify
           Peer == Connack \/ Acknowledge \/ PeerFault
<1>1. \/ Application \/ Rec \/ Loop \/ End \/ Idling \/ Peer
      \/ UNCHANGED vars
  BY DEF Next, Network, Chance
<1>2. Flags /\ Fields /\ Account /\ Wish
  BY TypeParts DEF LifeInv
<1>3. (Flags /\ Fields => TypeOK)'
  BY TypeParts, PTL
<1>4. CASE Application
  BY <1>2, <1>3, <1>4, ApplicationFlags, ApplicationFields, ApplicationAccount, ApplicationWish
     DEF LifeInv, Application
<1>5. CASE Rec
  BY <1>2, <1>3, <1>5, ReconnectFlags, ReconnectFields, ReconnectAccount, ReconnectWish DEF LifeInv
<1>6. CASE Loop
  BY <1>2, <1>3, <1>6, LoopFlags, LoopFields, LoopAccount, LoopWish DEF LifeInv
<1>7. CASE End
  BY <1>2, <1>3, <1>7, EndFlags, EndFields, EndAccount, EndWish DEF LifeInv
<1>8. CASE Idling
  BY <1>2, <1>3, <1>8, MiscFlags, MiscFields, MiscAccount, MiscWish DEF LifeInv
<1>9. CASE Peer
  BY <1>2, <1>3, <1>9, PeerFlags, PeerFields, PeerAccount, PeerWish DEF LifeInv
<1>10. CASE UNCHANGED vars
  <2>1. TypeOK'
    BY <1>2, <1>10, TypeParts DEF TypeOK, vars, netVars, kept, record, bounds
  <2>2. Account' /\ Wish'
    BY <1>2, <1>10 DEF Account, Places, Count, Wish, Running, vars, netVars, kept, record, bounds
  <2> QED  BY <2>1, <2>2 DEF LifeInv
<1> QED  BY <1>1, <1>4, <1>5, <1>6, <1>7, <1>8, <1>9, <1>10

(* The invariant holds in every behaviour.                                  *)
LEMMA AlwaysLife == Spec => []LifeInv
BY InitLife, StepLife, PTL DEF Spec

(* Before the thread waits, ends or opens the next socket, on_disconnect    *)
(* was called for the last one, unless connect(), connect_async() or the    *)
(* reconnect() of _handle_connack closed it; it was called twice at most,   *)
(* and only for an unanswered PINGREQ or a failure in _handle_connack.      *)
THEOREM EndsAreReported == Spec => []EndsReported
<1>1. LifeInv => EndsReported
  <2> SUFFICES ASSUME LifeInv PROVE EndsReported
    OBVIOUS
  <2>1. TypeOK /\ Places /\ Count
    BY DEF LifeInv, Account
  <2>2. fate \in Fates /\ calls \in Nat
    BY <2>1 DEF TypeOK
  <2>3. calls <= IF fate \in {"pinged", "resuming"} THEN 2 ELSE 1
    BY <2>1, <2>2 DEF Count, Fates
  <2>4. net \in {"none", "wait", "open"} /\ ~sock =>
           (calls = 0 <=> fate \in {"none", "silent"})
    BY <2>1, <2>2 DEF Count, Fates, Reporting, GivingUp, Misc, Leaving
  <2>5. net = "clear" /\ sock => within = "connack"
    BY <2>1 DEF Places
  <2> QED  BY <2>1, <2>3, <2>4, <2>5 DEF EndsReported
<1> QED  BY <1>1, AlwaysLife, PTL

(* The network thread ends in one of four places.                           *)
LEMMA WhoEnds ==
    ASSUME [Next]_vars, Running, ~Running'
    PROVE  Ended \/ Retry \/ Terminated \/ ReconnectFails
<1> USE DEF Running
<1>1. net' = "none" /\ net # "none"
  OBVIOUS
<1>2. ~Application
  BY <1>1 DEF Application, ConnectAsync, Connect, ConnectOpens, ConnectFails, LoopStart, LoopStop,
     Joined, DisconnectCall, DisconnectState, DisconnectQueue, Store, netVars
<1>3. ~(Enter \/ Waited \/ ReconnectState \/ ReconnectClear \/ ReconnectOpen \/ ReconnectGreet)
  BY <1>1 DEF Enter, Waited, ReconnectState, ReconnectClear, ReconnectOpen, ReconnectGreet
<1>4. ~(NoSocket \/ MarkLost \/ ReadConnack \/ ResumeEnds \/ ResumeFails \/ ReadRefusal
        \/ ReadFallback \/ Failure \/ ReadDisconnect \/ WriteConnect \/ WriteDisconnect)
  BY <1>1 DEF NoSocket, MarkLost, ReadConnack, ResumeEnds, ResumeFails, ReadRefusal, ReadFallback,
     Failure, ReadDisconnect, WriteConnect, WriteDisconnect, AfterRead, netVars
<1>5. ~(Bye \/ ByeClose \/ ByeState \/ CloseSocket \/ CloseState \/ CloseNotify \/ CloseSettle
        \/ Connack \/ Acknowledge \/ PeerFault)
  BY <1>1 DEF Bye, ByeClose, ByeState, CloseSocket, CloseState, CloseNotify, CloseSettle,
     AfterWrite, AfterClose, Connack, Acknowledge, PeerFault, netVars
<1>6. ~(Ping \/ Pingresp \/ KeepaliveClose \/ KeepaliveState \/ KeepaliveNotify \/ MiscClose
        \/ MiscState \/ MiscLost \/ MiscNotify)
  BY <1>1 DEF Ping, Pingresp, KeepaliveClose, KeepaliveState, KeepaliveNotify, MiscClose,
     MiscState, MiscLost, MiscNotify, netVars
<1>7. ~UNCHANGED vars
  BY <1>1 DEF vars, netVars
<1> QED  BY <1>2, <1>3, <1>4, <1>5, <1>6, <1>7 DEF Next, Network, Chance

(* The network thread ends only when disconnect() or loop_stop() was called *)
(* since the last connect(), or reconnect_on_failure is off, or reconnect() *)
(* of _handle_connack raised: no other failure, no refusal and no old call  *)
(* stops it.                                                                *)
THEOREM EndsWhenAsked == Spec => RunsUntilAsked
<1>1. ASSUME LifeInv, [Next]_vars, Running, ~Running'
      PROVE  asked' # {} \/ ~ReconnectOnFailure \/ Abandoned'
  <2>1. CASE ReconnectFails
    BY <1>1, <2>1 DEF ReconnectFails, Abandoned, Running, LifeInv, TypeOK
  <2>2. CASE Ended \/ Retry \/ Terminated
    <3>1. asked' = asked
      BY <2>2 DEF Ended, Retry, Terminated
    <3>2. ShouldExit \/ ~ReconnectOnFailure
      BY <1>1, <2>2 DEF Ended, Retry, Terminated, ShouldExit, Running
    <3>3. ShouldExit => asked # {}
      BY <1>1 DEF ShouldExit, Wish, LifeInv
    <3> QED  BY <3>1, <3>2, <3>3
  <2> QED  BY <1>1, <2>1, <2>2, WhoEnds
<1>2. LifeInv /\ [Next]_vars =>
         (Running /\ ~Running' => asked' # {} \/ ~ReconnectOnFailure \/ Abandoned')
  BY <1>1
<1> QED  BY <1>2, AlwaysLife, PTL DEF Spec, RunsUntilAsked
=============================================================================
