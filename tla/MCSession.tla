----------------------------- MODULE MCSession -----------------------------
(* Instances of Session for TLC: the values the configurations share.      *)
EXTENDS Session

(* The application publishes in any state of the connection, *)
Anytime == Connections

(* only once it is connected (from on_connect on), or *)
WhenUp == {"up"}

(* at any time but while a connection is being set up. *)
NotDuringConnect == {"down", "up"}

AllFaults == FaultKinds
FaultsWhenUp == {"lost"}
NotRefused == FaultKinds \ {"refused"}
NoFaults == {}
SlowFaults == {"lost", "no_route", "refused", "lost_early"}

QoS12 == {1, 2}
QoS2Only == {2}
AnyQoS == 0..2
QoS1Only == {1}
Never == {"never"}
NeverOrAlways == {"never", "always"}
FirstOrAlways == {"first", "always"}
NoMids == {}
OneStaleMid == {1}
=============================================================================
