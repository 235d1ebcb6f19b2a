---------------------------- MODULE PacketReader ----------------------------
(***************************************************************************)
(* The reading side of the Client (src/paho/mqtt/client.py): _packet_read  *)
(* over a TCP socket or over _WebsocketWrapper, which must find the MQTT   *)
(* packets and the WebSocket frames again in a stream that arrives in any  *)
(* pieces.  A remaining length has digits of base 128 and a frame of 126   *)
(* bytes or more a longer header; both limits are constants here.          *)
(***************************************************************************)
EXTENDS Integers, Sequences, SequencesExt

CONSTANTS Base,        \* 128, the base of the remaining length
          MaxDigits,   \* 4, the bytes a remaining length may have
          LongFrame,   \* 126, the size that makes the header of a frame longer
          MaxReads,    \* 100, the recv() calls for the body of a packet
          Transports,  \* "tcp", "websockets"
          Bodies,      \* the streams of the broker: the body lengths of their packets
          FrameSizes,  \* the sizes of its data frames
          Extras,      \* [op, size] of the other frames it sends,
          MaxAt,       \* bound: after at most so many data frames
          MaxRaises,   \* bound: exceptions of callbacks
          MaxLives     \* bound: connections

CONTINUATION == 0
BINARY == 2
CONNCLOSE == 8
PING == 9
PONG == 10

ASSUME ReaderAssumption ==
    /\ Base \in Nat \ {0, 1} /\ MaxDigits \in Nat \ {0}
    /\ LongFrame \in Nat /\ MaxReads \in Nat \ {0}
    /\ Transports \subseteq {"tcp", "websockets"}
    /\ Bodies \subseteq Seq(Nat)
    /\ FrameSizes \subseteq Nat \ {0}
    /\ \A x \in Extras :   \* the data is in the data frames
          x.op \in 0..15 /\ x.size \in Nat /\ (x.op \in {CONTINUATION, BINARY} => x.size = 0)
    /\ MaxAt \in Nat
    /\ MaxRaises \in Nat /\ MaxLives \in Nat \ {0}

VARIABLES stream,       \* what the broker sends on this connection, see Streams
          wire,         \* its bytes,
          arrived,      \* how many of them have arrived
          taken,        \* and how many were received from the socket
          eof,          \* the peer has closed the connection
          readbuffer,   \* _WebsocketWrapper._readbuffer
          payloadHead,  \* _payload_head
          replies,      \* the control frames the wrapper has given to the socket,
          sends,        \* and what the socket made of each, see Sends
          inPacket,     \* _in_packet
          count,        \* the local of _packet_read
          phase,        \* "select": the loop waits for the socket; "reading": it is
                        \* in loop_read; "lost": the socket is closed
          handled,      \* what _packet_handle was called with, and returned
          raises,
          lives

connVars == <<stream, wire, lives>>
sockVars == <<taken, readbuffer, payloadHead, replies, sends>>
readVars == <<inPacket, count, phase>>
vars == <<connVars, arrived, eof, sockVars, readVars, handled, raises>>

-----------------------------------------------------------------------------
(* The stream of the broker.  A byte is its value and the bit that says     *)
(* "more follows" in a remaining length, "longer header" in a frame.        *)

Byte(v, f) == [val |-> v, flag |-> f]

(* _pack_remaining_length *)
Digits[n \in Nat] ==
    IF n < Base THEN <<Byte(n, FALSE)>>
    ELSE <<Byte(n % Base, TRUE)>> \o Digits[n \div Base]

Body(i, n) == [k \in 1..n |-> Byte(i, FALSE)]
PacketBytes(ls) ==
    FlattenSeq([i \in 1..Len(ls) |-> <<Byte(i, FALSE)>> \o Digits[ls[i]] \o Body(i, ls[i])])

Frame(op, payload) ==
    (IF Len(payload) < LongFrame
     THEN <<Byte(op, FALSE), Byte(Len(payload), FALSE)>>
     ELSE <<Byte(op, FALSE), Byte(0, TRUE), Byte(Len(payload), FALSE), Byte(0, FALSE)>>)
    \o payload

(* Data frames of size f; all but the first are continuation frames.        *)
DataFrames(bytes, f) ==
    [k \in 1..(Len(bytes) + f - 1) \div f |->
        Frame(IF k = 1 THEN BINARY ELSE CONTINUATION,
              SubSeq(bytes, f * (k - 1) + 1,
                     IF f * k < Len(bytes) THEN f * k ELSE Len(bytes)))]

ExtraFrame(x) == Frame(x.op, [k \in 1..x.size |-> Byte(k, FALSE)])

(* What the broker sends on a connection: packets with bodies of these      *)
(* lengths, in data frames of size f, of which the first at come before the *)
(* frames in extra.                                                         *)
Streams ==
    [transport : {"tcp"} \cap Transports, lens : Bodies, f : {1}, extra : {<<>>}, at : {0}]
    \cup [transport : {"websockets"} \cap Transports, lens : Bodies, f : FrameSizes,
          extra : {<<>>} \cup {<<x>> : x \in Extras}, at : 0..MaxAt]

Wire(s) ==
    LET bytes == PacketBytes(s.lens)
        data == DataFrames(bytes, s.f)
        at == IF s.at < Len(data) THEN s.at ELSE Len(data)
    IN  IF s.transport = "tcp" THEN bytes
        ELSE IF s.extra = <<>> THEN FlattenSeq(data)
        ELSE FlattenSeq(InsertAt(data, at + 1, ExtraFrame(s.extra[1])))

EmptyPacket ==
    [command |-> 0, haveRemaining |-> FALSE, digits |-> 0, mult |-> 1,
     length |-> 0, toProcess |-> 0, packet |-> <<>>]

Bytes == [val : Nat, flag : BOOLEAN]

(* What send() of a non-blocking socket does: it takes the frame; it takes  *)
(* less, a part (the wrapper does not look at the number it returns) or     *)
(* nothing (BlockingIOError); or it finds the connection broken.            *)
Sends == {"all", "less", "broken"}

TypeOK ==
    /\ stream \in Streams
    /\ arrived \in 0..Len(wire) /\ taken \in 0..arrived
    /\ eof \in BOOLEAN
    /\ readbuffer \in Seq(Bytes) /\ payloadHead \in Nat
    /\ replies \in Seq([op : {CONNCLOSE, PONG}, payload : Seq(Bytes)])
    /\ sends \in Seq(Sends)
    /\ inPacket \in [command : Nat, haveRemaining : BOOLEAN, digits : 0..MaxDigits + 1,
                     mult : Nat \ {0}, length : Nat, toProcess : Nat, packet : Seq(Bytes)]
    /\ Len(inPacket.packet) + inPacket.toProcess =
          IF inPacket.haveRemaining THEN inPacket.length ELSE 0
    /\ count \in 0..MaxReads
    /\ phase \in {"select", "reading", "lost"}
    /\ handled \in Seq([command : Nat, body : Seq(Bytes)])
    /\ raises \in 0..MaxRaises
    /\ lives \in 1..MaxLives

Init ==
    /\ stream \in Streams
    /\ wire = Wire(stream)
    /\ arrived = 0 /\ taken = 0 /\ eof = FALSE
    /\ readbuffer = <<>> /\ payloadHead = 0 /\ replies = <<>> /\ sends = <<>>
    /\ inPacket = EmptyPacket
    /\ count = MaxReads
    /\ phase = "select"
    /\ handled = <<>>
    /\ raises = 0
    /\ lives = 1

-----------------------------------------------------------------------------
(* recv(n) of the socket and of the wrapper: what it does and what it       *)
(* returns ("data"), raises ("again": BlockingIOError), or that the         *)
(* connection is at its end ("closed": b'' or an OSError).                  *)

Waiting == SubSeq(wire, taken + 1, arrived)    \* in the buffer of the kernel

TcpRecv(n) ==
    LET m == IF n < Len(Waiting) THEN n ELSE Len(Waiting)
    IN  [out |-> IF m > 0 THEN "data" ELSE IF eof THEN "closed" ELSE "again",
         data |-> SubSeq(Waiting, 1, m),
         taken |-> taken + m, buffer |-> <<>>, head |-> 0, reply |-> <<>>]

Received_All(need) == arrived   \* mutant: it receives whatever there is
Received(need) == taken + need - Len(readbuffer)

FrameRead_NotEmpty(readindex, size) == readindex > 0 /\ readindex = size   \* mutant
FrameRead(readindex, size) == readindex = size

(* mutant: each chunk of a control frame is answered *)
Reply_EachChunk(opcode, payload, full) ==
    IF opcode = PING THEN <<[op |-> PONG, payload |-> payload]>> ELSE <<>>

(* The frame a whole PING or CONNCLOSE is answered with.  The buffer is     *)
(* reset by then, so what the socket does not take is never tried again.    *)
Reply(opcode, payload, full) ==
    IF full /\ opcode \in {PING, CONNCLOSE}
    THEN <<[op |-> IF opcode = PING THEN PONG ELSE CONNCLOSE, payload |-> payload]>>
    ELSE <<>>

(* The wrapper parses the frame anew from _readbuffer on each call and      *)
(* receives no byte it does not need yet.  When it comes to the end of what *)
(* has arrived between two fields it sees the end of the connection.        *)
WsRecv(n) ==
    LET have == readbuffer \o Waiting
        header == IF Len(have) > 1 /\ have[2].flag THEN 4 ELSE 2
        opcode == have[1].val
        size == IF header = 4 THEN have[3].val ELSE have[2].val
        readindex == IF payloadHead + n < size THEN payloadHead + n ELSE size
        payload == SubSeq(have, header + 1, header + readindex)
        full == FrameRead(readindex, size)
    IN  IF Len(have) < header \/ Len(have) < header + readindex
        THEN [out |-> IF eof /\ (Waiting = <<>> \/ Len(have) \in {1, 2, header})
                      THEN "closed" ELSE "again",
              data |-> <<>>, taken |-> arrived,
              buffer |-> have, head |-> payloadHead, reply |-> <<>>]
        ELSE [out |-> IF opcode \in {BINARY, CONTINUATION} /\ size > 0
                      THEN "data" ELSE "again",
              data |-> SubSeq(payload, payloadHead + 1, readindex),
              taken |-> Received(header + readindex),
              buffer |-> IF full THEN <<>> ELSE SubSeq(have, 1, header + readindex),
              head |-> IF full THEN 0 ELSE readindex,
              reply |-> Reply(opcode, payload, full)]

Recv(n) == IF stream.transport = "tcp" THEN TcpRecv(n) ELSE WsRecv(n)

Receive(r) ==
    /\ taken' = r.taken
    /\ readbuffer' = r.buffer
    /\ payloadHead' = r.head
    /\ replies' = replies \o r.reply
    /\ \E s \in Sends : sends' = IF r.reply = <<>> THEN sends ELSE Append(sends, s)

(* send() has raised a ConnectionError, which recv() turns into b''.        *)
SendBroke(r) == r.reply # <<>> /\ sends' = Append(sends, "broken")

(* MQTT_ERR_AGAIN ends loop_read, any other error closes the connection.    *)
NoData(r) ==
    /\ r.out # "data"
    /\ phase' = IF r.out = "again" /\ ~SendBroke(r) THEN "select" ELSE "lost"
    /\ UNCHANGED <<inPacket, count>>

-----------------------------------------------------------------------------
(* _loop: select() sees the bytes in the kernel, and pending() those in the *)
(* TLS layer; neither sees _readbuffer.                                     *)
Select ==
    /\ phase = "select"
    /\ taken < arrived \/ eof
    /\ phase' = "reading"
    /\ count' = MaxReads
    /\ UNCHANGED <<connVars, arrived, eof, sockVars, inPacket, handled, raises>>

(* _packet_read *)

ReadCommand ==
    /\ phase = "reading" /\ inPacket.command = 0
    /\ \E r \in {Recv(1)} :
          /\ Receive(r)
          /\ \/ NoData(r)
             \/ /\ r.out = "data"
                /\ inPacket' = [inPacket EXCEPT !.command = r.data[1].val]
                /\ UNCHANGED <<count, phase>>
    /\ UNCHANGED <<connVars, arrived, eof, handled, raises>>

AddDigit(b) ==
    [inPacket EXCEPT !.digits = @ + 1,
                     !.length = @ + b.val * inPacket.mult,
                     !.mult = @ * Base,
                     !.haveRemaining = ~b.flag,
                     !.toProcess = IF b.flag THEN 0
                                   ELSE inPacket.length + b.val * inPacket.mult]

ReadLength ==
    /\ phase = "reading" /\ inPacket.command # 0 /\ ~inPacket.haveRemaining
    /\ \E r \in {Recv(1)} :
          /\ Receive(r)
          /\ \/ NoData(r)
             \/ /\ r.out = "data"
                /\ inPacket' = IF inPacket.digits < MaxDigits
                               THEN AddDigit(r.data[1])
                               ELSE [inPacket EXCEPT !.digits = @ + 1]
                /\ phase' = IF inPacket.digits < MaxDigits THEN phase ELSE "lost"
                /\ UNCHANGED count
    /\ UNCHANGED <<connVars, arrived, eof, handled, raises>>

(* After MaxReads calls it leaves, even if the packet is complete now.      *)
ReadBody ==
    /\ phase = "reading" /\ inPacket.haveRemaining /\ inPacket.toProcess > 0
    /\ \E r \in {Recv(inPacket.toProcess)} :
          /\ Receive(r)
          /\ \/ NoData(r)
             \/ /\ r.out = "data"
                /\ inPacket' = [inPacket EXCEPT !.toProcess = @ - Len(r.data),
                                                !.packet = @ \o r.data]
                /\ count' = count - 1
                /\ phase' = IF count = 1 THEN "select" ELSE phase
    /\ UNCHANGED <<connVars, arrived, eof, handled, raises>>

HandleReady == phase = "reading" /\ inPacket.haveRemaining /\ inPacket.toProcess = 0

(* loop_read goes on with another packet or leaves.                         *)
Handle ==
    /\ HandleReady
    /\ handled' = Append(handled, [command |-> inPacket.command, body |-> inPacket.packet])
    /\ inPacket' = EmptyPacket
    /\ count' = MaxReads
    /\ phase' \in {"reading", "select"}
    /\ UNCHANGED <<connVars, arrived, eof, sockVars, raises>>

(* A callback raises: the exception leaves the loop past the reset of       *)
(* _in_packet, and the application enters the loop again.                   *)
HandleRaises ==
    /\ HandleReady
    /\ raises < MaxRaises
    /\ raises' = raises + 1
    /\ phase' = "select"
    /\ UNCHANGED <<connVars, arrived, eof, sockVars, inPacket, count, handled>>

ReconnectReset_KeepsPacket == UNCHANGED inPacket   \* mutant
ReconnectReset == inPacket' = EmptyPacket

(* reconnect(): _in_packet is reset, the wrapper is a new one.  The broker  *)
(* sends the same stream once more.                                         *)
Reconnect ==
    /\ phase = "lost"
    /\ lives < MaxLives
    /\ lives' = lives + 1
    /\ ReconnectReset
    /\ count' = MaxReads
    /\ phase' = "select"
    /\ arrived' = 0 /\ taken' = 0 /\ eof' = FALSE
    /\ readbuffer' = <<>> /\ payloadHead' = 0 /\ replies' = <<>> /\ sends' = <<>>
    /\ handled' = <<>> /\ raises' = 0
    /\ UNCHANGED <<stream, wire>>

-----------------------------------------------------------------------------
(* The network and the broker *)

Arrive ==
    /\ phase # "lost" /\ ~eof
    /\ \E n \in arrived + 1..Len(wire) : arrived' = n
    /\ UNCHANGED <<connVars, eof, sockVars, readVars, handled, raises>>

HangUp ==
    /\ phase # "lost" /\ ~eof
    /\ eof' = TRUE
    /\ UNCHANGED <<connVars, arrived, sockVars, readVars, handled, raises>>

Client == Select \/ ReadCommand \/ ReadLength \/ ReadBody \/ Handle \/ Reconnect

Next == Client \/ HandleRaises \/ Arrive \/ HangUp

Spec == Init /\ [][Next]_vars
FairSpec == Spec /\ WF_vars(Client)

-----------------------------------------------------------------------------
(* Properties *)

Sent ==
    [i \in 1..Len(stream.lens) |-> [command |-> i, body |-> Body(i, stream.lens[i])]]

(* The handlers of the client finish the packets of the broker whole, in    *)
(* order and each once, in whatever pieces they arrive; an exception of a   *)
(* callback or a connection lost in the middle of a packet disturbs none    *)
(* that follows.                                                            *)
HandledAsSent == TypeOK /\ IsPrefix(handled, Sent)

(* For each PING and each CONNCLOSE of the broker the wrapper gives the     *)
(* socket one answer, with the whole payload, in order, and for nothing     *)
(* else: not one for each piece in which it arrived, and none again when    *)
(* the socket did not take it.  That an answer arrives is not promised.     *)
Answer(x) ==
    IF x.op \in {PING, CONNCLOSE}
    THEN <<[op |-> IF x.op = PING THEN PONG ELSE CONNCLOSE,
            payload |-> [k \in 1..x.size |-> Byte(k, FALSE)]]>>
    ELSE <<>>
Answers == IF stream.extra = <<>> THEN <<>> ELSE Answer(stream.extra[1])

PingsAnsweredOnce ==
    /\ IsPrefix(replies, Answers)
    /\ taken = Len(wire) /\ readbuffer = <<>> => replies = Answers

(* The loop never sleeps on a packet it could handle: when it waits for the *)
(* socket and everything has arrived, every packet is handled.  Two cases   *)
(* are left out: a callback has raised, and the body of the last packet     *)
(* took exactly MaxReads calls, so that it waits for the next byte.         *)
NothingHidden ==
    phase = "select" /\ taken = Len(wire) /\ raises = 0 /\ count > 0 => handled = Sent

(* When everything has arrived, every packet but the last, which may be     *)
(* one of those cases, is handled in the end.                               *)
Settled == phase = "lost" \/ eof \/ Len(handled) >= Len(stream.lens) - 1
EventuallyHandled == arrived = Len(wire) ~> Settled
=============================================================================
