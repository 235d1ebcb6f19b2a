---------------------------- MODULE MCKeepalive ----------------------------
(* Instances of Keepalive for TLC.                                         *)
EXTENDS Keepalive

OffOrSome == {0, 2, 3}
=============================================================================
