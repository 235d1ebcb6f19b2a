------------------------------ MODULE Registry ------------------------------
(***************************************************************************)
(* What message_callback_add() and message_callback_remove() promise: a    *)
(* plain dictionary from topic filters to callbacks.  A message is given   *)
(* to the callback of every filter that matches its topic, to on_message   *)
(* if there is none.  MQTT defines which filters match.  A callback that   *)
(* raises ends the handling of the message.                                *)
(***************************************************************************)
EXTENDS Naturals, Sequences, FiniteSets

CONSTANTS Filters,    \* topic filters: sequences of levels
          Topics,     \* topic names: the same, without wildcards
          Reserved,   \* the levels that begin with $
          Callbacks,
          OnMessage   \* the callback for all other messages

VARIABLES registered, \* the callback of each filter in the dictionary
          calls       \* how many calls of each callback the message still needs

vars == <<registered, calls>>

Handlers == Callbacks \cup {OnMessage}
NoCalls == [c \in Handlers |-> 0]

(* MQTT 4.7: + stands for one level, # at the end for any number of them,   *)
(* the parent included; a wildcard in the first level does not match $.     *)
Matches(f, t) ==
    LET rest == f[Len(f)] = "#"
        n == IF rest THEN Len(f) - 1 ELSE Len(f)
    IN  /\ IF rest THEN Len(t) >= n ELSE Len(t) = n
        /\ \A i \in 1..n : f[i] \in {"+", t[i]}
        /\ t[1] \in Reserved => f[1] \notin {"+", "#"}

Matching(t) == {f \in DOMAIN registered : Matches(f, t)}

Due(t) ==
    [c \in Handlers |->
        IF c = OnMessage
        THEN IF Matching(t) = {} THEN 1 ELSE 0
        ELSE Cardinality({f \in Matching(t) : registered[f] = c})]

Init ==
    /\ registered = <<>>
    /\ calls = NoCalls

Add(f, c) ==
    /\ registered' = [g \in DOMAIN registered \cup {f} |-> IF g = f THEN c ELSE registered[g]]
    /\ UNCHANGED calls

Remove(f) ==
    /\ registered' = [g \in DOMAIN registered \ {f} |-> registered[g]]
    /\ UNCHANGED calls

Message(t) ==
    /\ calls = NoCalls
    /\ calls' = Due(t)
    /\ UNCHANGED registered

Call(c) ==
    /\ calls[c] > 0
    /\ calls' = [calls EXCEPT ![c] = @ - 1]
    /\ UNCHANGED registered

Raise(c) ==
    /\ calls[c] > 0
    /\ calls' = NoCalls
    /\ UNCHANGED registered

Next ==
    \/ \E f \in Filters : Remove(f) \/ \E c \in Callbacks : Add(f, c)
    \/ \E t \in Topics : Message(t)
    \/ \E c \in Handlers : Call(c) \/ Raise(c)

Spec == Init /\ [][Next]_vars
=============================================================================
