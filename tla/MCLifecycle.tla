---------------------------- MODULE MCLifecycle ----------------------------
(* Instances of Lifecycle for TLC.                                         *)
EXTENDS Lifecycle

Anywhere == Callers
OnDisconnectOnly == {"on_disconnect"}
Nowhere == {}
OldVersion == {"version"}
NoFallback == {}
=============================================================================
