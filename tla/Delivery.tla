------------------------------ MODULE Delivery ------------------------------
(***************************************************************************)
(* What publish() with QoS 1 or 2 promises, as README.rst and the          *)
(* docstrings of src/paho/mqtt/client.py state it: an accepted message is  *)
(* passed on at least once or exactly once, and reported (on_publish,      *)
(* is_published, wait_for_publish) when it has been.                       *)
(***************************************************************************)
EXTENDS Naturals

CONSTANT Messages

VARIABLES promise,   \* what publish() promised for each message
          copies,    \* how often it was passed on
          reported   \* whether the application was told that it was

deliveryVars == <<promise, copies, reported>>

Init ==
    /\ promise = [m \in Messages |-> "none"]
    /\ copies = [m \in Messages |-> 0]
    /\ reported = [m \in Messages |-> FALSE]

Accept(m, what) ==
    /\ promise[m] = "none"
    /\ promise' = [promise EXCEPT ![m] = what]
    /\ UNCHANGED <<copies, reported>>

PassOn(m) ==
    /\ promise[m] # "none" /\ ~reported[m]
    /\ promise[m] = "exactly_once" => copies[m] = 0
    /\ copies' = [copies EXCEPT ![m] = @ + 1]
    /\ UNCHANGED <<promise, reported>>

Report(m) ==
    /\ ~reported[m] /\ copies[m] > 0
    /\ reported' = [reported EXCEPT ![m] = TRUE]
    /\ UNCHANGED <<promise, copies>>

Next ==
    \E m \in Messages :
        \/ \E what \in {"at_least_once", "exactly_once"} : Accept(m, what)
        \/ PassOn(m)
        \/ Report(m)

Spec == Init /\ [][Next]_deliveryVars
=============================================================================
