---------------------------- MODULE MCOutPackets ----------------------------
(* Instances of OutPackets for TLC.                                        *)
EXTENDS OutPackets

CONSTANTS w1

OneWaiter == {w1}
Unequal == [m \in 0..MaxPub |-> m + 1]   \* CONNECT is the shortest packet
AppOrCallback == {"app", "callback"}
AllTransports == {"tcp", "websockets", "websockets_parts"}
=============================================================================
