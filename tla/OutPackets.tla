----------------------------- MODULE OutPackets -----------------------------
(***************************************************************************)
(* The out-packet queue of the Client (src/paho/mqtt/client.py) and the    *)
(* MQTTMessageInfo of QoS 0 messages: publish() and wait_for_publish() on  *)
(* application threads or in callbacks, _packet_write and reconnect() on   *)
(* the network thread.  _out_packet has no lock.  Each packet has its own  *)
(* length, in pieces; it is written over TCP or over _WebsocketWrapper, so *)
(* that a write may end in the middle of one.                              *)
(***************************************************************************)
EXTENDS Integers, Sequences, Functions

CONSTANTS MaxPub,       \* bound: the calls of publish() with QoS 0
          Size,         \* the pieces of each message's packet and of CONNECT's
          Waiters,      \* the threads that call wait_for_publish() for each message
          PublishFrom,  \* where publish() is called: on threads of the application
                        \* ("app"), on the network thread ("callback")
          Transports,   \* "tcp"; "websockets", over a socket that takes a frame
                        \* as a whole or not at all; "websockets_parts", over one
                        \* that may take a part of it
          MaxBreaks     \* bound: the connections that break

ASSUME OutPacketsAssumption ==
    /\ MaxPub \in Nat /\ MaxBreaks \in Nat
    /\ Size \in [0..MaxPub -> Nat \ {0}]
    /\ PublishFrom \subseteq {"app", "callback"}
    /\ Transports \subseteq {"tcp", "websockets", "websockets_parts"}

Msg == 1..MaxPub
NoInfo == 0            \* the packet is CONNECT
Names == Msg \cup {NoInfo}

VARIABLES from,       \* where publish() is called, fixed for the run
          transport,  \* _transport, fixed for the run
          sock,       \* _sock is not None
          outPacket,  \* _out_packet: the packets, pos of each (to_process is the rest)
          held,       \* the packet _packet_write has popped, if any
          net,        \* where the network thread is
          next,       \* the position in the loop of reconnect() over _out_packet
          length,     \* the length of _out_packet that loop expects
          call,       \* how far publish() is
          rc,         \* MQTTMessageInfo.rc
          published,  \* MQTTMessageInfo._published
          waiting,    \* how far each wait_for_publish() is
          sendbuffer, \* _WebsocketWrapper._sendbuffer: the packet of the frame that is
                      \* begun, and pos in it; the frame's header is no piece
          requested,  \* _WebsocketWrapper._requested_size
          stream,     \* the pieces written to the connection
          written,    \* the messages of which the last piece is written
          breaks

infoVars == <<rc, published, waiting>>
loopVars == <<net, next, length>>
fixed == <<from, transport>>
wireVars == <<sendbuffer, requested, stream, written>>
vars == <<fixed, sock, outPacket, held, loopVars, call, infoVars, wireVars, breaks>>

Packet == [msg : Names, pos : Nat]
Piece == Names \X Nat

TypeOK ==
    /\ from \in PublishFrom /\ transport \in Transports
    /\ sock \in BOOLEAN
    /\ outPacket \in Seq(Packet)
    /\ held \in Seq(Packet) /\ Len(held) <= 1
    /\ net \in {"turn", "closed", "marking", "clear", "open", "greet", "dead"}
    /\ next \in Nat /\ length \in Nat
    /\ call \in [Msg -> {"idle", "checked", "queued", "returned"}]
    /\ rc \in [Msg -> {"SUCCESS", "NO_CONN", "CONN_LOST"}]
    /\ published \in [Msg -> BOOLEAN]
    /\ waiting \in [Msg \X Waiters -> {"no", "asleep", "done"}]
    /\ sendbuffer \in Seq(Packet) /\ Len(sendbuffer) <= 1
    /\ requested \in Nat
    /\ stream \in Seq(Piece)
    /\ written \subseteq Msg
    /\ breaks \in Nat

Init ==
    /\ from \in PublishFrom /\ transport \in Transports
    /\ sock = TRUE
    /\ outPacket = <<>> /\ held = <<>>
    /\ net = "turn" /\ next = 0 /\ length = 0
    /\ call = [m \in Msg |-> "idle"]
    /\ rc = [m \in Msg |-> "SUCCESS"]
    /\ published = [m \in Msg |-> FALSE]
    /\ waiting = [mw \in Msg \X Waiters |-> "no"]
    /\ sendbuffer = <<>> /\ requested = 0 /\ stream = <<>> /\ written = {}
    /\ breaks = 0

NewPacket(m) == [msg |-> m, pos |-> 0]

-----------------------------------------------------------------------------
(* publish() with QoS 0: it looks at _sock, queues, and then stores rc.     *)

PublishCheck(m) ==
    /\ from = "app"
    /\ call[m] = "idle"
    /\ call' = [call EXCEPT ![m] = IF sock THEN "checked" ELSE "returned"]
    /\ rc' = [rc EXCEPT ![m] = IF sock THEN @ ELSE "NO_CONN"]
    /\ UNCHANGED <<fixed, sock, outPacket, held, loopVars, published, waiting, wireVars, breaks>>

PublishQueue(m) ==
    /\ call[m] = "checked"
    /\ call' = [call EXCEPT ![m] = "queued"]
    /\ outPacket' = Append(outPacket, NewPacket(m))
    /\ UNCHANGED <<fixed, sock, held, loopVars, infoVars, wireVars, breaks>>

PublishReturn(m) ==
    /\ call[m] = "queued"
    /\ call' = [call EXCEPT ![m] = "returned"]
    /\ rc' = [rc EXCEPT ![m] = "SUCCESS"]
    /\ UNCHANGED <<fixed, sock, outPacket, held, loopVars, published, waiting, wireVars, breaks>>

(* In a callback the network thread does nothing else meanwhile.            *)
PublishInCallback(m) ==
    /\ from = "callback"
    /\ net \in {"turn", "closed", "open", "greet"} /\ held = <<>>
    /\ call[m] = "idle"
    /\ call' = [call EXCEPT ![m] = "returned"]
    /\ \/ /\ sock
          /\ outPacket' = Append(outPacket, NewPacket(m))
          /\ UNCHANGED rc
       \/ /\ ~sock
          /\ rc' = [rc EXCEPT ![m] = "NO_CONN"]
          /\ UNCHANGED outPacket
    /\ UNCHANGED <<fixed, sock, held, loopVars, published, waiting, wireVars, breaks>>

(* wait_for_publish() without a timeout; an rc other than SUCCESS raises.   *)
Wait(m, w) ==
    /\ call[m] = "returned"
    /\ waiting[<<m, w>>] = "no"
    /\ waiting' = [waiting EXCEPT ![<<m, w>>] =
                      IF rc[m] # "SUCCESS" \/ published[m] THEN "done" ELSE "asleep"]
    /\ UNCHANGED <<fixed, sock, outPacket, held, loopVars, call, rc, published, wireVars, breaks>>

-----------------------------------------------------------------------------
Wake_Nobody(m) == UNCHANGED waiting   \* mutant: the condition is not notified

(* _set_as_published: notify() wakes one of the threads that sleep.         *)
Wake(m) ==
    LET asleep == {w \in Waiters : waiting[<<m, w>>] = "asleep"}
    IN  \/ asleep = {} /\ UNCHANGED waiting
        \/ \E w \in asleep : waiting' = [waiting EXCEPT ![<<m, w>>] = "done"]

SetAsPublished(m) ==
    /\ published' = [published EXCEPT ![m] = TRUE]
    /\ Wake(m)

(* _packet_write pops the first packet, *)
Pop ==
    /\ net = "turn" /\ sock /\ held = <<>>
    /\ outPacket # <<>>
    /\ held' = <<Head(outPacket)>>
    /\ outPacket' = Tail(outPacket)
    /\ UNCHANGED <<fixed, sock, loopVars, call, infoVars, wireVars, breaks>>

PutBack_Last(pkt) == Append(outPacket, pkt)   \* mutant: append for appendleft
PutBack(pkt) == <<pkt>> \o outPacket

Left(p) == IF p.pos < Size[p.msg] THEN Size[p.msg] - p.pos ELSE 0

Part(m, o, n) == [k \in 1..n |-> <<m, o + k>>]   \* n pieces after the first o

(* The socket takes n pieces of what is left of p.                          *)
Emit(p, n) ==
    /\ stream' = stream \o Part(p.msg, p.pos, n)
    /\ written' = IF p.pos + n = Size[p.msg] THEN written \cup ({p.msg} \ {NoInfo}) ELSE written

(* What _packet_write does when it is told that n pieces are sent: nothing  *)
(* for 0, which ends its loop; it reports a packet of which nothing is left *)
(* and puts any other in front again.                                       *)
Wrote(n) ==
    LET pkt == held[1]
    IN  /\ held' = <<>>
        /\ \/ /\ n = 0
              /\ UNCHANGED <<outPacket, published, waiting>>
           \/ /\ n # 0 /\ pkt.pos + n = Size[pkt.msg]
              /\ IF pkt.msg = NoInfo THEN UNCHANGED <<published, waiting>>
                 ELSE SetAsPublished(pkt.msg)
              /\ UNCHANGED outPacket
           \/ /\ n # 0 /\ pkt.pos + n # Size[pkt.msg]
              /\ outPacket' = PutBack([pkt EXCEPT !.pos = @ + n])
              /\ UNCHANGED <<published, waiting>>

(* Over TCP the socket takes some of the packet, or all that is left of it. *)
SendTcp ==
    /\ net = "turn" /\ held # <<>> /\ transport = "tcp"
    /\ \E n \in 1..Left(held[1]) : Emit(held[1], n) /\ Wrote(n)
    /\ UNCHANGED <<fixed, sock, loopVars, call, rc, sendbuffer, requested, breaks>>

(* The wrapper goes on with the frame it has begun, whatever packet it is   *)
(* called with, and when that frame is out it returns the length its        *)
(* payload had, which may be that of another packet.                        *)
Buffer == IF sendbuffer = <<>> THEN held[1] ELSE sendbuffer[1]
Requested == IF sendbuffer = <<>> THEN Left(held[1]) ELSE requested

SendFrame ==
    /\ net = "turn" /\ held # <<>> /\ transport # "tcp"
    /\ Emit(Buffer, Left(Buffer))
    /\ Wrote(Requested)
    /\ sendbuffer' = <<>> /\ requested' = Requested
    /\ UNCHANGED <<fixed, sock, loopVars, call, rc, breaks>>

(* If the socket takes only a part of the frame the wrapper keeps the rest  *)
(* and returns 0.                                                           *)
SendPart ==
    /\ net = "turn" /\ held # <<>> /\ transport = "websockets_parts"
    /\ \E n \in {0} \cup 1..Left(Buffer) - 1 :
          /\ Emit(Buffer, n)
          /\ sendbuffer' = <<[Buffer EXCEPT !.pos = @ + n]>>
    /\ requested' = Requested
    /\ Wrote(0)
    /\ UNCHANGED <<fixed, sock, loopVars, call, rc, breaks>>

(* The socket is full (BlockingIOError): the packet goes back in front, and *)
(* the wrapper keeps its frame.                                             *)
Blocked ==
    /\ net = "turn" /\ held # <<>>
    /\ outPacket' = PutBack(held[1])
    /\ held' = <<>>
    /\ IF transport = "tcp" THEN UNCHANGED <<sendbuffer, requested>>
       ELSE sendbuffer' = <<Buffer>> /\ requested' = Requested
    /\ UNCHANGED <<fixed, sock, loopVars, call, infoVars, stream, written, breaks>>

Break_Drops ==   \* mutant: a failed write does not put its packet back
    /\ net = "turn" /\ sock
    /\ breaks < MaxBreaks
    /\ breaks' = breaks + 1
    /\ sock' = FALSE
    /\ held' = <<>>
    /\ net' = "closed"
    /\ UNCHANGED <<fixed, outPacket, next, length, call, infoVars, wireVars>>

(* The connection breaks, in the middle of a write or between two.          *)
Break ==
    /\ net = "turn" /\ sock
    /\ breaks < MaxBreaks
    /\ breaks' = breaks + 1
    /\ sock' = FALSE
    /\ outPacket' = IF held = <<>> THEN outPacket ELSE PutBack(held[1])
    /\ held' = <<>>
    /\ net' = "closed"
    /\ UNCHANGED <<fixed, next, length, call, infoVars, wireVars>>

-----------------------------------------------------------------------------
(* reconnect() *)

MarkBegin ==
    /\ net = "closed"
    /\ net' = "marking" /\ next' = 1 /\ length' = Len(outPacket)
    /\ UNCHANGED <<fixed, sock, outPacket, held, call, infoVars, wireVars, breaks>>

MarkLost_KeepsRc(m) == UNCHANGED rc /\ SetAsPublished(m)   \* mutant: no CONN_LOST

MarkLost(m) ==
    /\ rc' = [rc EXCEPT ![m] = "CONN_LOST"]
    /\ SetAsPublished(m)

(* One round of the loop over the deque.  Python raises RuntimeError when   *)
(* the deque has grown since the loop began, which ends the network thread. *)
MarkNext ==
    /\ net = "marking"
    /\ \/ /\ Len(outPacket) # length
          /\ net' = "dead"
          /\ UNCHANGED <<next, infoVars>>
       \/ /\ Len(outPacket) = length /\ next > length
          /\ net' = "clear"
          /\ UNCHANGED <<next, infoVars>>
       \/ /\ Len(outPacket) = length /\ next <= length
          /\ next' = next + 1
          /\ LET m == outPacket[next].msg
             IN  IF m = NoInfo THEN UNCHANGED infoVars ELSE MarkLost(m)
          /\ UNCHANGED net
    /\ UNCHANGED <<fixed, sock, outPacket, held, length, call, wireVars, breaks>>

Clear ==
    /\ net = "clear"
    /\ outPacket' = <<>>
    /\ net' = "open"
    /\ UNCHANGED <<fixed, sock, held, next, length, call, infoVars, wireVars, breaks>>

Open ==
    /\ net = "open"
    /\ sock' = TRUE
    /\ sendbuffer' = <<>> /\ requested' = 0 /\ stream' = <<>>
    /\ net' = "greet"
    /\ UNCHANGED <<fixed, outPacket, held, next, length, call, infoVars, written, breaks>>

Greet ==
    /\ net = "greet"
    /\ outPacket' = Append(outPacket, NewPacket(NoInfo))
    /\ net' = "turn"
    /\ UNCHANGED <<fixed, sock, held, next, length, call, infoVars, wireVars, breaks>>

Network == Pop \/ SendTcp \/ SendFrame \/ MarkBegin \/ MarkNext \/ Clear \/ Open \/ Greet

Next ==
    \/ \E m \in Msg :
          PublishCheck(m) \/ PublishQueue(m) \/ PublishReturn(m) \/ PublishInCallback(m)
    \/ \E m \in Msg, w \in Waiters : Wait(m, w)
    \/ Network
    \/ Blocked \/ SendPart
    \/ Break

Spec == Init /\ [][Next]_vars

(* The network thread runs on as long as it lives, and the socket is not    *)
(* full for ever; nobody has to publish.                                    *)
FairSpec == Spec /\ WF_vars(Network) /\ SF_vars(SendTcp \/ SendFrame)

-----------------------------------------------------------------------------
(* Properties *)

(* Where no frame is split, what the broker reads on a connection is whole  *)
(* packets, whatever write ended in the middle of one and whoever queues    *)
(* meanwhile: a packet that was begun is finished before the next one and   *)
(* begun anew, never continued, on a new connection.                        *)
WholePackets ==
    /\ TypeOK
    /\ transport # "websockets_parts" =>
          \A k \in DOMAIN stream :
             \/ /\ stream[k][2] = 1
                /\ k = 1 \/ stream[k - 1][2] = Size[stream[k - 1][1]]
             \/ k # 1 /\ stream[k] = <<stream[k - 1][1], stream[k - 1][2] + 1>>

(* The following hold when publish() is called on the network thread and no *)
(* WebSocket frame is split.                                                *)
Orderly == from = "callback" /\ transport # "websockets_parts"

(* A message reported without an error was written.  publish() on another   *)
(* thread may break this: it stores rc after reconnect() has done so.       *)
SuccessIsWritten ==
    Orderly =>
        \A m \in Msg : published[m] /\ rc[m] = "SUCCESS" => m \in written

(* An accepted message is in the queue until it is reported: none is        *)
(* dropped silently.                                                        *)
NoneForgotten ==
    Orderly =>
        \A m \in Msg :
            call[m] = "returned" /\ rc[m] = "SUCCESS" /\ ~published[m] =>
                \E k \in DOMAIN (held \o outPacket) : (held \o outPacket)[k].msg = m

(* wait_for_publish() returns for these messages: reconnect() leaves none   *)
(* behind ("or `wait_for_publish()` could hang forever").                   *)
CallbackWaitReturns ==
    \A m \in Msg, w \in Waiters :
        Orderly /\ waiting[<<m, w>>] = "asleep" ~> waiting[<<m, w>>] = "done"
=============================================================================
