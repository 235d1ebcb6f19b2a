--------------------------- MODULE MCPacketReader ---------------------------
(* Instances of PacketReader for TLC: lengths at the limits of one and two *)
(* digits of base 2 and one too long, frames with short and long headers.                   *)
EXTENDS PacketReader

BothTransports == {"tcp", "websockets"}
BodyLens == {<<0, 1>>, <<3, 0>>, <<1, 4>>}
Sizes == {1, 3, 8}
ExtraFrames ==
    {[op |-> PING, size |-> 0], [op |-> PING, size |-> 3], [op |-> CONNCLOSE, size |-> 2],
     [op |-> PONG, size |-> 1], [op |-> BINARY, size |-> 0]}
=============================================================================
