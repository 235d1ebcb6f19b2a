------------------------------ MODULE Matcher -------------------------------
(***************************************************************************)
(* MQTTMatcher, the trie behind message_callback_add(), and                *)
(* _handle_on_message, which finds the callbacks of a message under        *)
(* _callback_mutex and then runs them one by one without it, while the     *)
(* application goes on adding and removing callbacks, also from inside     *)
(* them.  A node of the trie is the path that leads to it.                 *)
(***************************************************************************)
EXTENDS Naturals, Sequences, FiniteSets

CONSTANTS Filters, Topics, Reserved, Callbacks, OnMessage,
          MaxFilters  \* bound: filters registered at a time

Level == UNION {{x[i] : i \in DOMAIN x} : x \in Filters \cup Topics}

ASSUME MatcherAssumption ==
    /\ Filters \cup Topics \subseteq Seq(Level) \ {<<>>}
    /\ \A t \in Topics : \A i \in 1..Len(t) : t[i] \notin {"+", "#"}
    /\ OnMessage \notin Callbacks
    /\ Reserved \cap {"+", "#"} = {}
    /\ MaxFilters \in Nat

VARIABLES nodes,    \* the nodes of the trie, the root included
          content,  \* _content of the nodes where it is not None
          wanted,   \* history: the dictionary the application asked for
          topic,    \* the message that is handled, <<>> for none
          todo      \* callbacks _handle_on_message has found and not yet called

vars == <<nodes, content, wanted, topic, todo>>

Root == <<>>
Prefixes(f) == {SubSeq(f, 1, n) : n \in 0..Len(f)}
With(f, c, g) == [h \in DOMAIN g \cup {f} |-> IF h = f THEN c ELSE g[h]]
Without(f, g) == [h \in DOMAIN g \ {f} |-> g[h]]

Init ==
    /\ nodes = {Root}
    /\ content = <<>>
    /\ wanted = <<>>
    /\ topic = <<>>
    /\ todo = <<>>

-----------------------------------------------------------------------------
(* The dictionary.                                                          *)
SetItem(f, c) ==
    /\ nodes' = nodes \cup Prefixes(f)
    /\ content' = With(f, c, content)

Children(p) == {q \in nodes : Len(q) = Len(p) + 1 /\ SubSeq(q, 1, Len(p)) = p}

(* The loop of __delitem__ climbs from the node of f and stops at the first *)
(* node that has other children or a value of its own.                      *)
Needed(p, f) == Children(p) \ Prefixes(f) # {} \/ (p # f /\ p \in DOMAIN content)

(* mutant: the loop does not stop at a value                                *)
Pruned_Values(f) ==
    {p \in Prefixes(f) \ {Root} :
        \A q \in Prefixes(f) : Len(q) >= Len(p) => Children(q) \subseteq Prefixes(f)}

Pruned(f) ==
    {p \in Prefixes(f) \ {Root} :
        \A q \in Prefixes(f) : Len(q) >= Len(p) => ~Needed(q, f)}

(* A filter that is not in the trie raises KeyError, which                  *)
(* message_callback_remove() ignores.                                       *)
DelItem(f) ==
    IF f \in nodes
    THEN LET gone == Pruned(f)
         IN  /\ nodes' = nodes \ gone
             /\ content' = [p \in DOMAIN content \ (gone \cup {f}) |-> content[p]]
    ELSE UNCHANGED <<nodes, content>>

-----------------------------------------------------------------------------
(* rec() of iter_match, for every node; a node at depth i is only asked     *)
(* about the levels of the topic behind i.                                  *)
Value(p) == IF p \in DOMAIN content THEN <<content[p]>> ELSE <<>>

Wild_Always(t, i) == TRUE   \* mutant: $ is a level like any other

(* Wildcards do not match the first level of a topic that begins with $.    *)
Wild(t, i) == t[1] \notin Reserved \/ i > 0

IterMatch(t) ==
    LET rec[p \in nodes] ==
            LET i == Len(p)
                Child(level) == IF Append(p, level) \in nodes
                                THEN rec[Append(p, level)]
                                ELSE <<>>
                own == IF i = Len(t)
                       THEN Value(p)
                       ELSE IF i < Len(t)
                       THEN Child(t[i + 1]) \o (IF Wild(t, i) THEN Child("+") ELSE <<>>)
                       ELSE <<>>
            IN  own \o (IF Wild(t, i) THEN Value(Append(p, "#")) ELSE <<>>)
    IN  rec[Root]

-----------------------------------------------------------------------------
MessageCallbackAdd(f, c) ==
    /\ Cardinality(DOMAIN wanted \cup {f}) <= MaxFilters
    /\ SetItem(f, c)
    /\ wanted' = With(f, c, wanted)
    /\ UNCHANGED <<topic, todo>>

MessageCallbackRemove(f) ==
    /\ DelItem(f)
    /\ wanted' = Without(f, wanted)
    /\ UNCHANGED <<topic, todo>>

(* Finds the callbacks and on_message under one lock.                       *)
HandleOnMessage(t) ==
    /\ todo = <<>>
    /\ topic \in {<<>>, t}
    /\ topic' = t
    /\ todo' = IF IterMatch(t) = <<>> THEN <<OnMessage>> ELSE IterMatch(t)
    /\ UNCHANGED <<nodes, content, wanted>>

CallbackReturns ==
    /\ todo # <<>>
    /\ todo' = Tail(todo)
    /\ topic' = IF Len(todo) = 1 THEN <<>> ELSE topic
    /\ UNCHANGED <<nodes, content, wanted>>

(* The exception leaves _packet_read before it has cleared _in_packet: the  *)
(* rest is skipped, and the next read of this connection handles the packet *)
(* again; a PUBREL finds its message gone then.                             *)
CallbackRaises ==
    /\ todo # <<>>
    /\ todo' = <<>>
    /\ topic' \in {topic, <<>>}
    /\ UNCHANGED <<nodes, content, wanted>>

Next ==
    \/ \E f \in Filters, c \in Callbacks : MessageCallbackAdd(f, c)
    \/ \E f \in Filters : MessageCallbackRemove(f)
    \/ \E t \in Topics : HandleOnMessage(t)
    \/ CallbackReturns
    \/ CallbackRaises

Spec == Init /\ [][Next]_vars

-----------------------------------------------------------------------------
TypeOK ==
    /\ nodes \subseteq {Root} \cup UNION {Prefixes(f) : f \in Filters}
    /\ DOMAIN content \subseteq nodes
    /\ DOMAIN wanted \subseteq Filters
    /\ topic \in Topics \cup {<<>>}

(* Whatever was added and removed in whatever order, the trie holds what    *)
(* the application asked for and no node more: a removed filter leaves no   *)
(* dead branch, and takes nothing of another filter with it.                *)
TrieShape ==
    /\ TypeOK
    /\ content = wanted
    /\ nodes = {Root} \cup UNION {Prefixes(f) : f \in DOMAIN wanted}

(* iter_match, walking the trie, finds for each topic the callbacks that    *)
(* MQTT's definition of matching gives it, each as often as filters of it   *)
(* match, and _handle_on_message falls back to on_message for no other      *)
(* topic, while callbacks are added and removed between the calls.          *)
Plain == INSTANCE Registry WITH
    registered <- wanted,
    calls <- [c \in Callbacks \cup {OnMessage} |->
                 Cardinality({k \in 1..Len(todo) : todo[k] = c})]

ImplementsRegistry == Plain!Spec
=============================================================================
