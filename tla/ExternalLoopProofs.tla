------------------------- MODULE ExternalLoopProofs -------------------------
(***************************************************************************)
(* Proofs about ExternalLoop: between two events the loop watches what the *)
(* client needs, and the callbacks about a socket come in order.           *)
(***************************************************************************)
EXTENDS ExternalLoop, TLAPS

-----------------------------------------------------------------------------
(* The steps still to be done *)

(* Steps that may stand behind another one, and the others.                 *)
Later == {"close", "user", "flush", "finally", "settle", "ended", "lost", "read", "resume"}
Callbacks ==
    {"on_socket_open", "on_socket_close", "on_socket_register_write", "on_socket_unregister_write"}
Dos == Later \cup Callbacks \cup {"register", "unregister", "clear", "create", "fresh", "greet"}
Args == Nat \cup {"lost", "refused", "keepalive", "no PINGRESP", "no connection"}
Steps == [do : Dos, arg : Args]

Do(k) == stack[k].do
Is(do) == stack # <<>> /\ Do(1) = do
Behind(do) == \E k \in 2..Len(stack) : Do(k) = do

StepsOK ==
    \A k \in DOMAIN stack :
        /\ Do(k) \in Callbacks => stack[k].arg \in 1..made
        /\ Do(k) = "unregister" => stack[k].arg \in 0..made

(* What stands behind the first step: on_socket_close belongs to the end of *)
(* the socket in front of it, greet to a new socket, clear to reconnect(),  *)
(* which has closed the old socket.                                         *)
TailOK ==
    \A k \in 2..Len(stack) :
        /\ Do(k) \in Later \cup {"on_socket_close", "greet", "clear"}
        /\ Do(k) = "on_socket_close" =>
              /\ k = 2 /\ Do(1) \in {"unregister", "on_socket_unregister_write"}
              /\ stack[2].arg = stack[1].arg
              /\ sock = 0
        /\ Do(k) = "greet" => k = 2 /\ Do(1) = "on_socket_open"

Reconnecting ==
    \A k \in DOMAIN stack :
        /\ Do(k) = "clear" =>
              /\ k = Len(stack) /\ made < MaxSockets
              /\ sock = 0 \/ (k = 2 /\ Do(1) = "close")
        /\ Do(k) \in {"create", "fresh"} => Len(stack) = 1
        /\ Do(k) = "create" => made < MaxSockets /\ sock = 0
        /\ Do(k) = "fresh" => sock = made /\ made # 0
        /\ Do(k) = "on_socket_open" => stack[k].arg = sock

(* Every flush stands in front of a finally clause.                         *)
FlushEnds ==
    \A k \in DOMAIN stack : Do(k) = "flush" => \E j \in k + 1..Len(stack) : Do(j) = "finally"

StackOK == stack \in Seq(Steps) /\ StepsOK /\ TailOK /\ Reconnecting /\ FlushEnds

-----------------------------------------------------------------------------
(* Sequences *)

LEMMA Joined ==
    ASSUME NEW S, NEW s \in Seq(S), NEW t \in Seq(S)
    PROVE  /\ s \o t \in Seq(S)
           /\ Len(s) \in Nat /\ Len(t) \in Nat /\ Len(s \o t) = Len(s) + Len(t)
           /\ DOMAIN s = 1..Len(s) /\ DOMAIN t = 1..Len(t)
           /\ DOMAIN (s \o t) = 1..Len(s) + Len(t)
           /\ \A k \in 1..Len(s) : (s \o t)[k] = s[k]
           /\ \A k \in 1..Len(t) : (s \o t)[Len(s) + k] = t[k]
OBVIOUS

LEMMA Replaced ==
    ASSUME NEW S, NEW s \in Seq(S), NEW t \in Seq(S), t # <<>>
    PROVE  /\ s \o Tail(t) \in Seq(S)
           /\ Len(s) \in Nat /\ Len(t) \in Nat \ {0}
           /\ DOMAIN s = 1..Len(s) /\ DOMAIN t = 1..Len(t)
           /\ Len(s \o Tail(t)) = Len(s) + Len(t) - 1
           /\ DOMAIN (s \o Tail(t)) = 1..Len(s) + Len(t) - 1
           /\ \A k \in 1..Len(s) : (s \o Tail(t))[k] = s[k]
           /\ \A k \in 2..Len(t) : (s \o Tail(t))[Len(s) + k - 1] = t[k]
<1> DEFINE u == Tail(t)
<1>1. /\ u \in Seq(S) /\ Len(t) \in Nat \ {0} /\ Len(u) = Len(t) - 1 /\ DOMAIN t = 1..Len(t)
      /\ \A k \in 1..Len(t) - 1 : u[k] = t[k + 1]
    OBVIOUS
<1> HIDE DEF u
<1>2. /\ s \o u \in Seq(S)
      /\ Len(s) \in Nat /\ Len(u) \in Nat /\ Len(s \o u) = Len(s) + Len(u)
      /\ DOMAIN s = 1..Len(s) /\ DOMAIN u = 1..Len(u) /\ DOMAIN (s \o u) = 1..Len(s) + Len(u)
      /\ \A k \in 1..Len(s) : (s \o u)[k] = s[k]
      /\ \A k \in 1..Len(u) : (s \o u)[Len(s) + k] = u[k]
  <2>1. u \in Seq(S)
      BY <1>1
  <2> QED
      BY <2>1
<1>3. ASSUME NEW k \in 2..Len(t) PROVE (s \o u)[Len(s) + k - 1] = t[k]
  <2>1. k - 1 \in 1..Len(u) /\ Len(s) + (k - 1) = Len(s) + k - 1 /\ k = (k - 1) + 1
      BY <1>1, <1>2
  <2>2. (s \o u)[Len(s) + (k - 1)] = u[k - 1] /\ u[k - 1] = t[(k - 1) + 1]
      BY <1>1, <1>2, <2>1
  <2> QED
      BY <2>1, <2>2
<1>4. Len(s) + Len(u) = Len(s) + Len(t) - 1
    BY <1>1, <1>2
<1> QED
    BY <1>1, <1>2, <1>3, <1>4 DEF u

LEMMA Pair ==
    ASSUME NEW S, NEW s \in Seq(S), NEW t \in Seq(S), Len(s) = 1, Len(t) = 1
    PROVE  /\ s \o t \in Seq(S) /\ Len(s \o t) = 2 /\ DOMAIN (s \o t) = 1..2
           /\ (s \o t)[1] = s[1] /\ (s \o t)[2] = t[1]
<1>1. Len(s) + Len(t) = 2 /\ Len(s) + 1 = 2 /\ 1 \in 1..Len(t) /\ 1 \in 1..Len(s)
    OBVIOUS
<1> QED
    BY <1>1, Joined

LEMMA TailOfOne ==
    ASSUME NEW S, NEW s \in Seq(S), Len(s) = 1
    PROVE  Tail(s) = <<>>
<1>1. Tail(s) \in Seq(S) /\ Len(Tail(s)) = 0
  <2>1. s # <<>>
      OBVIOUS
  <2> QED
      BY <2>1
<1>2. \A t \in Seq(S) : Len(t) = 0 => t = <<>>
    OBVIOUS
<1> QED
    BY <1>1, <1>2

-----------------------------------------------------------------------------
(* What a step puts in its place: one step, and later ones.                 *)

Push(s) ==
    /\ s \in Seq(Steps) /\ s # <<>>
    /\ \A k \in 2..Len(s) : s[k].do \in Later

Safe(s) ==
    \A k \in DOMAIN s : s[k].do = "flush" => \E j \in k + 1..Len(s) : s[j].do = "finally"

LEMMA OneStep ==
    ASSUME NEW d \in Dos, NEW a \in Args
    PROVE  /\ Step(d, a) \in Seq(Steps) /\ Len(Step(d, a)) = 1 /\ DOMAIN Step(d, a) = {1}
           /\ Step(d, a)[1].do = d /\ Step(d, a)[1].arg = a
           /\ Push(Step(d, a))
           /\ d # "flush" => Safe(Step(d, a))
<1>1. [do |-> d, arg |-> a] \in Steps
    BY DEF Steps
<1>2. /\ Step(d, a) \in Seq(Steps) /\ Len(Step(d, a)) = 1 /\ DOMAIN Step(d, a) = {1}
      /\ Step(d, a)[1] = [do |-> d, arg |-> a] /\ Step(d, a) # <<>>
    BY <1>1 DEF Step
<1>3. d # "flush" => Safe(Step(d, a))
    BY <1>2 DEF Safe
<1> QED
    BY <1>2, <1>3 DEF Push

LEMMA MoreSteps ==
    ASSUME NEW s, Push(s), NEW t, Push(t), t[1].do \in Later
    PROVE  /\ Push(s \o t) /\ (s \o t)[1] = s[1]
           /\ Safe(s) /\ Safe(t) => Safe(s \o t)
<1>1. /\ s \in Seq(Steps) /\ s # <<>> /\ \A k \in 2..Len(s) : s[k].do \in Later
      /\ t \in Seq(Steps) /\ t # <<>> /\ \A k \in 2..Len(t) : t[k].do \in Later
    BY DEF Push
<1> DEFINE u == s \o t
<1>2. /\ u \in Seq(Steps) /\ Len(s) \in Nat \ {0} /\ Len(t) \in Nat \ {0} /\ Len(u) = Len(s) + Len(t)
      /\ DOMAIN s = 1..Len(s) /\ DOMAIN t = 1..Len(t) /\ DOMAIN u = 1..Len(s) + Len(t)
      /\ \A k \in 1..Len(s) : u[k] = s[k]
      /\ \A k \in 1..Len(t) : u[Len(s) + k] = t[k]
    BY <1>1, Joined
<1> HIDE DEF u
<1>3. \A j \in DOMAIN u : \/ j \in 1..Len(s) /\ u[j] = s[j]
                          \/ \E k \in 1..Len(t) : j = Len(s) + k /\ u[j] = t[k]
  <2> SUFFICES ASSUME NEW j \in DOMAIN u, j \notin 1..Len(s)
               PROVE  \E k \in 1..Len(t) : j = Len(s) + k /\ u[j] = t[k]
      BY <1>2
  <2>1. j - Len(s) \in 1..Len(t) /\ j = Len(s) + (j - Len(s))
      BY <1>2
  <2> QED
      BY <1>2, <2>1
<1>4. \A k \in 2..Len(u) : u[k].do \in Later
  <2>1. \A k \in 1..Len(t) : t[k].do \in Later
    <3>1. \A k \in 1..Len(t) : k = 1 \/ k \in 2..Len(t)
        BY <1>2
    <3> QED
        BY <1>1, <3>1
  <2>2. \A k \in 2..Len(u) : k \in DOMAIN u /\ (k \in 1..Len(s) => k \in 2..Len(s))
      BY <1>2
  <2> QED
      BY <1>1, <1>3, <2>1, <2>2
<1>5. u # <<>> /\ u[1] = s[1]
    BY <1>2
<1>6. ASSUME Safe(s), Safe(t), NEW j \in DOMAIN u, u[j].do = "flush"
      PROVE  \E i \in j + 1..Len(u) : u[i].do = "finally"
  <2>1. CASE j \in 1..Len(s) /\ u[j] = s[j]
    <3>1. PICK i \in j + 1..Len(s) : s[i].do = "finally"
        BY <1>2, <1>6, <2>1 DEF Safe
    <3>2. i \in j + 1..Len(u) /\ u[i] = s[i]
        BY <1>2, <2>1
    <3> QED
        BY <3>1, <3>2
  <2>2. CASE \E k \in 1..Len(t) : j = Len(s) + k /\ u[j] = t[k]
    <3>1. PICK k \in 1..Len(t) : j = Len(s) + k /\ u[j] = t[k]
        BY <2>2
    <3>2. PICK i \in k + 1..Len(t) : t[i].do = "finally"
        BY <1>2, <1>6, <3>1 DEF Safe
    <3>3. Len(s) + i \in j + 1..Len(u) /\ u[Len(s) + i] = t[i]
        BY <1>2, <3>1
    <3> QED
        BY <3>2, <3>3
  <2> QED
      BY <1>3, <2>1, <2>2
<1>7. Safe(s) /\ Safe(t) => Safe(u)
    BY <1>6 DEF Safe
<1> QED
    BY <1>2, <1>4, <1>5, <1>7 DEF Push, u

-----------------------------------------------------------------------------
(* A step is done and replaced by others, which do not begin or end the     *)
(* life of a socket.                                                        *)

Plain == Later \cup {"register", "unregister", "on_socket_register_write"}

Replaces(s) ==
    /\ stack # <<>> /\ stack' = s \o Tail(stack)
    /\ made' = made
    /\ Do(1) \notin {"unregister", "on_socket_unregister_write", "on_socket_open"}
    /\ sock' = sock \/ sock' = 0
    /\ Do(1) = "close" => sock' = 0
    /\ s = <<>> \/ Push(s)
    /\ s # <<>> =>
          /\ s[1].do \in Plain
          /\ s[1].do = "on_socket_register_write" => s[1].arg \in 1..made
          /\ s[1].do = "unregister" => s[1].arg \in 0..made
    /\ \A k \in DOMAIN s : s[k].do = "flush" =>
          (\E j \in k + 1..Len(s) : s[j].do = "finally") \/ Behind("finally")

(* Nothing of a socket that ends, or is new, is left to be done.            *)
Regular ==
    /\ ~Is("on_socket_close") /\ ~Is("on_socket_open") /\ ~Is("on_socket_unregister_write")
    /\ ~Is("fresh") /\ ~Is("create") /\ ~Is("greet")
    /\ Len(stack) > 1 => Do(2) # "on_socket_close"

LEMMA TailIs ==
    ASSUME StackOK, stack # <<>>,
           Do(1) \notin {"unregister", "on_socket_unregister_write", "on_socket_open"}
    PROVE  \A k \in 2..Len(stack) : Do(k) \in Later \cup {"clear"}
BY DEF StackOK, TailOK

LEMMA ReplaceKeeps ==
    ASSUME StackOK, NEW s, Replaces(s)
    PROVE  /\ StackOK' /\ Regular'
           /\ Behind("finally") => \E k \in DOMAIN stack' : stack'[k].do = "finally"
           /\ s = <<>> => stack' = <<>> \/ stack'[1].do \in Later \cup {"clear"}
           /\ s # <<>> => stack' # <<>> /\ stack'[1] = s[1]
<1> DEFINE t == stack
           u == stack'
<1>1. t \in Seq(Steps) /\ t # <<>> /\ s \in Seq(Steps)
  <2>1. <<>> \in Seq(Steps)
      OBVIOUS
  <2> QED
      BY <2>1 DEF StackOK, Replaces, Push
<1>2. /\ u \in Seq(Steps)
      /\ Len(s) \in Nat /\ Len(t) \in Nat \ {0}
      /\ DOMAIN s = 1..Len(s) /\ DOMAIN t = 1..Len(t)
      /\ Len(u) = Len(s) + Len(t) - 1
      /\ DOMAIN u = 1..Len(s) + Len(t) - 1
      /\ \A k \in 1..Len(s) : u[k] = s[k]
      /\ \A k \in 2..Len(t) : u[Len(s) + k - 1] = t[k]
    BY <1>1, Replaced DEF Replaces
<1>3. \A k \in 2..Len(t) : t[k].do \in Later \cup {"clear"}
    BY TailIs DEF Replaces, Do
<1> HIDE DEF u
<1>4. ASSUME NEW j \in DOMAIN u
      PROVE  \/ j \in 1..Len(s) /\ u[j] = s[j]
             \/ \E k \in 2..Len(t) : j = Len(s) + k - 1 /\ u[j] = t[k]
  <2>1. CASE j \in 1..Len(s)
      BY <1>2, <2>1
  <2>2. CASE j \notin 1..Len(s)
    <3>1. j - Len(s) + 1 \in 2..Len(t) /\ j = Len(s) + (j - Len(s) + 1) - 1
        BY <1>2, <2>2
    <3> QED
        BY <1>2, <3>1
  <2> QED
      BY <2>1, <2>2
<1>5. \A k \in 2..Len(t) : Len(s) + k - 1 \in DOMAIN u
    BY <1>2
<1>6. s = <<>> => Len(s) = 0
    OBVIOUS
<1>7. \A j \in 1..Len(s) : j = 1 \/ (j \in 2..Len(s) /\ s[j].do \in Later)
  <2> SUFFICES ASSUME NEW j \in 1..Len(s) PROVE j = 1 \/ (j \in 2..Len(s) /\ s[j].do \in Later)
      OBVIOUS
  <2>1. s # <<>>
      BY <1>2, <1>6
  <2> QED
      BY <1>2, <2>1 DEF Replaces, Push
<1>8. \A j \in 1..Len(s) :
          /\ s[j].do \in Plain
          /\ s[j].do \in Callbacks => s[j].arg \in 1..made
          /\ s[j].do = "unregister" => s[j].arg \in 0..made
  <2> SUFFICES ASSUME NEW j \in 1..Len(s)
               PROVE  /\ s[j].do \in Plain
                      /\ s[j].do \in Callbacks => s[j].arg \in 1..made
                      /\ s[j].do = "unregister" => s[j].arg \in 0..made
      OBVIOUS
  <2>1. CASE j = 1
    <3>1. s # <<>>
        BY <1>2, <1>6
    <3> QED
        BY <2>1, <3>1 DEF Replaces, Plain, Later, Callbacks
  <2>2. CASE j # 1
      BY <1>7, <2>2 DEF Plain, Later, Callbacks
  <2> QED
      BY <2>1, <2>2
<1>9. \A j \in DOMAIN u : u[j].do \in Plain \cup {"clear"}
    BY <1>3, <1>4, <1>8 DEF Plain
<1>10. \A j \in DOMAIN u : u[j].do \in Callbacks => u[j].arg \in 1..made
    BY <1>3, <1>4, <1>8 DEF Callbacks, Later
<1>11. \A j \in DOMAIN u : u[j].do = "unregister" => u[j].arg \in 0..made
    BY <1>3, <1>4, <1>8 DEF Later
<1>12. \A j \in 2..Len(u) : u[j].do \in Later \cup {"clear"}
  <2> SUFFICES ASSUME NEW j \in 2..Len(u) PROVE u[j].do \in Later \cup {"clear"}
      OBVIOUS
  <2>1. j \in DOMAIN u /\ j # 1
      BY <1>2
  <2> QED
      BY <1>3, <1>4, <1>7, <2>1
<1>13. \A j \in DOMAIN u : u[j].do = "clear" => j = Len(u) /\ made < MaxSockets /\ sock' = 0
  <2> SUFFICES ASSUME NEW j \in DOMAIN u, u[j].do = "clear"
               PROVE  j = Len(u) /\ made < MaxSockets /\ sock' = 0
      OBVIOUS
  <2>1. "clear" \notin Plain
      BY DEF Plain, Later
  <2>2. PICK k \in 2..Len(t) : j = Len(s) + k - 1 /\ t[k].do = "clear"
      BY <1>4, <1>8, <2>1
  <2>3. k = Len(t) /\ made < MaxSockets /\ (sock = 0 \/ t[1].do = "close")
    <3>1. k \in DOMAIN t
        BY <1>2
    <3> QED
        BY <2>2, <3>1 DEF StackOK, Reconnecting, Do
  <2> QED
      BY <1>2, <2>2, <2>3 DEF Replaces, Do
<1>14. \A j \in DOMAIN u : u[j].do = "flush" => \E i \in j + 1..Len(u) : u[i].do = "finally"
  <2> SUFFICES ASSUME NEW j \in DOMAIN u, u[j].do = "flush"
               PROVE  \E i \in j + 1..Len(u) : u[i].do = "finally"
      OBVIOUS
  <2>1. ASSUME NEW k \in 2..Len(t), t[k].do = "finally", j < Len(s) + k - 1
        PROVE  \E i \in j + 1..Len(u) : u[i].do = "finally"
    <3>1. Len(s) + k - 1 \in j + 1..Len(u) /\ u[Len(s) + k - 1] = t[k]
        BY <1>2, <2>1
    <3> QED
        BY <2>1, <3>1
  <2>2. CASE j \in 1..Len(s) /\ u[j] = s[j]
    <3>1. CASE \E i \in j + 1..Len(s) : s[i].do = "finally"
      <4>1. PICK i \in j + 1..Len(s) : s[i].do = "finally"
          BY <3>1
      <4>2. i \in j + 1..Len(u) /\ u[i] = s[i]
          BY <1>2, <2>2
      <4> QED
          BY <4>1, <4>2
    <3>2. CASE Behind("finally")
      <4>1. PICK k \in 2..Len(t) : t[k].do = "finally"
          BY <3>2 DEF Behind, Do
      <4>2. j < Len(s) + k - 1
          BY <1>2, <2>2
      <4> QED
          BY <2>1, <4>1, <4>2
    <3> QED
        BY <1>2, <2>2, <3>1, <3>2 DEF Replaces
  <2>3. CASE j \notin 1..Len(s) \/ u[j] # s[j]
    <3>1. PICK k \in 2..Len(t) : j = Len(s) + k - 1 /\ u[j] = t[k]
        BY <1>4, <2>3
    <3>2. PICK i \in k + 1..Len(t) : t[i].do = "finally"
        BY <1>2, <3>1 DEF StackOK, FlushEnds, Do
    <3>3. i \in 2..Len(t) /\ j < Len(s) + i - 1
        BY <1>2, <3>1
    <3> QED
        BY <2>1, <3>2, <3>3
  <2> QED
      BY <2>2, <2>3
<1>15. StepsOK'
    BY <1>10, <1>11 DEF StepsOK, Do, Replaces, u
<1>16. TailOK'
  <2>1. \A k \in 2..Len(u) : k \in DOMAIN u
      BY <1>2
  <2> QED
      BY <1>12, <1>13, <2>1 DEF TailOK, Do, u, Later
<1>17. Reconnecting'
    BY <1>9, <1>13 DEF Reconnecting, Do, Replaces, u, Plain, Later
<1>18. FlushEnds'
    BY <1>14 DEF FlushEnds, Do, u
<1>19. Regular'
  <2>1. u # <<>> => 1 \in DOMAIN u
      BY <1>2
  <2>2. Len(u) > 1 => 2 \in 2..Len(u)
      BY <1>2
  <2> QED
      BY <1>9, <1>12, <2>1, <2>2 DEF Regular, Is, Do, u, Plain, Later
<1>20. Behind("finally") => \E k \in DOMAIN u : u[k].do = "finally"
    BY <1>2, <1>5 DEF Behind, Do
<1>21. s = <<>> => u = <<>> \/ u[1].do \in Later \cup {"clear"}
    BY <1>2, <1>3, <1>6
<1>22. s # <<>> => u # <<>> /\ u[1] = s[1]
    BY <1>2
<1> QED
    BY <1>2, <1>15, <1>16, <1>17, <1>18, <1>19, <1>20, <1>21, <1>22 DEF StackOK, u

-----------------------------------------------------------------------------
(* The sequences of the actions *)

LEMMA FixedSteps ==
    \A d \in Dos : /\ Push(Step(d, 0)) /\ Step(d, 0)[1].do = d
                   /\ d # "flush" => Safe(Step(d, 0))
BY OneStep DEF Args

LEMMA LoopWriteIs == Push(LoopWrite) /\ Safe(LoopWrite) /\ LoopWrite[1].do = "flush"
<1>1. /\ Push(Step("flush", 0)) /\ Push(Step("finally", 0))
      /\ Step("flush", 0)[1].do = "flush" /\ Step("finally", 0)[1].do = "finally"
    BY FixedSteps DEF Dos, Later
<1>2. Push(LoopWrite) /\ LoopWrite[1].do = "flush"
    BY <1>1, MoreSteps DEF LoopWrite, Later
<1>3. /\ Step("flush", 0) \in Seq(Steps) /\ Len(Step("flush", 0)) = 1
      /\ Step("finally", 0) \in Seq(Steps) /\ Len(Step("finally", 0)) = 1
    BY OneStep DEF Dos, Later, Args
<1>4. Len(LoopWrite) = 2 /\ DOMAIN LoopWrite = 1..2 /\ LoopWrite[2] = Step("finally", 0)[1]
  <2> DEFINE f == Step("flush", 0)
             g == Step("finally", 0)
  <2>1. f \in Seq(Steps) /\ g \in Seq(Steps) /\ Len(f) = 1 /\ Len(g) = 1
      BY <1>3
  <2> HIDE DEF f, g
  <2>2. /\ Len(f \o g) = Len(f) + Len(g) /\ DOMAIN (f \o g) = 1..Len(f) + Len(g)
        /\ \A k \in 1..Len(g) : (f \o g)[Len(f) + k] = g[k]
      BY <2>1, Joined
  <2>3. Len(f) + Len(g) = 2 /\ Len(f) + 1 = 2 /\ 1 \in 1..Len(g)
      BY <2>1
  <2>4. (f \o g)[2] = g[1]
      BY <2>2, <2>3
  <2> QED
      BY <2>2, <2>3, <2>4 DEF LoopWrite, f, g
<1>5. LoopWrite[2].do = "finally"
    BY <1>1, <1>4
<1>6. Safe(LoopWrite)
  <2> SUFFICES ASSUME NEW k \in 1..2, LoopWrite[k].do = "flush"
               PROVE  \E j \in k + 1..2 : LoopWrite[j].do = "finally"
      BY <1>4 DEF Safe
  <2>1. k = 1
      BY <1>5
  <2> QED
      BY <1>5, <2>1
<1> QED
    BY <1>2, <1>6

LEMMA EndingIs ==
    ASSUME NEW rc \in Args
    PROVE  Push(Ending(rc)) /\ Safe(Ending(rc)) /\ Ending(rc)[1].do = "close"
<1>1. Push(Step("ended", rc)) /\ Safe(Step("ended", rc)) /\ Step("ended", rc)[1].do = "ended"
    BY OneStep DEF Dos, Later
<1>2. Push(Step("close", 0)) /\ Safe(Step("close", 0)) /\ Step("close", 0)[1].do = "close"
    BY FixedSteps DEF Dos, Later
<1> QED
    BY <1>1, <1>2, MoreSteps DEF Ending, Later

LEMMA SentIs ==
    ASSUME NEW packet
    PROVE  /\ Push(Sent(packet)) /\ Sent(packet)[1].do \in {"user", "flush"}
<1>1. Push(Step("user", 0) \o Step("flush", 0)) /\ (Step("user", 0) \o Step("flush", 0))[1].do = "user"
    BY FixedSteps, MoreSteps DEF Dos, Later
<1>2. Push(Step("user", 0) \o Step("close", 0)) /\ (Step("user", 0) \o Step("close", 0))[1].do = "user"
    BY FixedSteps, MoreSteps DEF Dos, Later
<1>3. /\ Push(Step("user", 0) \o Step("close", 0) \o Step("settle", 0))
      /\ (Step("user", 0) \o Step("close", 0) \o Step("settle", 0))[1].do = "user"
    BY <1>2, FixedSteps, MoreSteps DEF Dos, Later
<1>4. Push(Step("flush", 0)) /\ Step("flush", 0)[1].do = "flush"
    BY FixedSteps DEF Dos, Later
<1> QED
    BY <1>1, <1>3, <1>4 DEF Sent

LEMMA ReadStepsAre ==
    /\ \A s \in {Step("user", 0) \o Step("resume", 0) \o Step("read", 0),
                 Step("user", 0) \o Step("read", 0), Step("close", 0) \o Step("user", 0),
                 Step("read", 0)} :
          Push(s) /\ Safe(s) /\ s[1].do \in Later
    /\ LET s == Step("register", 0) \o LoopWrite \o Step("resume", 0)
       IN  Push(s) /\ Safe(s) /\ s[1].do = "register"
<1> USE FixedSteps, MoreSteps DEF Dos, Later
<1>1. LET s == Step("user", 0) \o Step("resume", 0) IN Push(s) /\ Safe(s) /\ s[1].do = "user"
    OBVIOUS
<1>2. LET s == Step("user", 0) \o Step("resume", 0) \o Step("read", 0)
      IN  Push(s) /\ Safe(s) /\ s[1].do = "user"
    BY <1>1
<1>3. LET s == Step("user", 0) \o Step("read", 0) IN Push(s) /\ Safe(s) /\ s[1].do = "user"
    OBVIOUS
<1>4. LET s == Step("close", 0) \o Step("user", 0) IN Push(s) /\ Safe(s) /\ s[1].do = "close"
    OBVIOUS
<1>5. LET s == Step("register", 0) \o LoopWrite IN Push(s) /\ Safe(s) /\ s[1].do = "register"
    BY LoopWriteIs
<1>6. LET s == Step("register", 0) \o LoopWrite \o Step("resume", 0)
      IN  Push(s) /\ Safe(s) /\ s[1].do = "register"
    BY <1>5
<1>7. Push(Step("read", 0)) /\ Safe(Step("read", 0)) /\ Step("read", 0)[1].do = "read"
    OBVIOUS
<1> QED
    BY <1>2, <1>3, <1>4, <1>6, <1>7

-----------------------------------------------------------------------------
(* What the event loop watches and was told.                                *)

(* The socket the event loop knows: it is told of a new one and of the end  *)
(* of an old one later than _sock is set.                                   *)
Known ==
    IF Is("on_socket_close") THEN stack[1].arg
    ELSE IF Len(stack) > 1 /\ Do(2) = "on_socket_close" THEN stack[2].arg
    ELSE IF Is("fresh") \/ Is("on_socket_open") THEN 0
    ELSE sock

Events == {"nothing", "open", "register", "unregister", "close", "disorder"}

Told0(s) == told[s] \in {"nothing", "close"}

(* It watches the socket s, and for writing if it was told last to do so.   *)
WatchesFor(s) ==
    /\ \A t \in Socket \ {s} : Told0(t)
    /\ s # 0 => told[s] \in {"open", "register", "unregister"}
    /\ \A t \in Socket : t > made => told[t] = "nothing"
    /\ readers = {s} \ {0} /\ misc = {s} \ {0}
    /\ writers = IF s # 0 /\ told[s] = "register" THEN {s} ELSE {}

Fit ==
    /\ WatchesFor(Known)
    /\ Known # sock => Known = 0 \/ sock = 0
    /\ Is("on_socket_close") => sock = 0 /\ ~registered
    /\ Is("on_socket_register_write") => registered /\ writers = {} /\ stack[1].arg = sock
    /\ Is("on_socket_unregister_write") =>
          /\ ~registered /\ stack[1].arg = Known
          /\ told[Known] = "register"
    /\ ~Is("on_socket_register_write") /\ ~Is("on_socket_unregister_write") =>
          (registered <=> writers # {})
    /\ Is("unregister") => stack[1].arg = Known
    /\ Is("fresh") \/ Is("on_socket_open") => told[sock] = "nothing"
    /\ Is("create") \/ Is("fresh") \/ Is("on_socket_open") \/ Is("greet") => outq = <<>>

(* A packet in the queue has the socket watched for writing, or will have.  *)
Due ==
    /\ Is("register") \/ Is("on_socket_register_write") => outq # <<>>
    /\ Is("unregister") /\ sock # 0 => outq = <<>>
    /\ sock # 0 /\ outq # <<>> /\ ~registered => Is("register")
    /\ sock # 0 /\ outq = <<>> /\ registered =>
          Is("unregister") \/ \E k \in DOMAIN stack : Do(k) = "finally"

OneThread == pub = "idle" /\ told \in [Socket -> Events] /\ Fit /\ Due

LoopInv == TypeOK /\ StackOK /\ (~threaded => OneThread)

(* Actions that leave the socket and what is watched alone.                 *)
Leaves == UNCHANGED <<sock, made, registered, readers, writers, misc, told, pub, threaded>>

LEMMA HeadIs ==
    ASSUME StackOK, stack # <<>>
    PROVE  /\ Head(stack) = stack[1] /\ 1 \in DOMAIN stack /\ stack[1] \in Steps
           /\ Len(stack) \in Nat \ {0} /\ DOMAIN stack = 1..Len(stack)
<1>1. stack \in Seq(Steps)
    BY DEF StackOK
<1>2. Len(stack) \in Nat \ {0} /\ DOMAIN stack = 1..Len(stack) /\ Head(stack) = stack[1]
    BY <1>1
<1>3. stack[1] \in Steps
    BY <1>1, <1>2
<1> QED
    BY <1>2, <1>3

LEMMA FlushIsClosed ==
    ASSUME StackOK, Is("flush")
    PROVE  Behind("finally")
<1>1. PICK j \in 2..Len(stack) : Do(j) = "finally"
    BY HeadIs DEF StackOK, FlushEnds, Is
<1> QED
    BY <1>1 DEF Behind

(* With a first step that has no part in the life of a socket the event     *)
(* loop knows the socket of the client.                                     *)
LEMMA KnownIs ==
    ASSUME StackOK, stack = <<>> \/ Do(1) \in Later \cup {"register", "greet", "clear", "create",
                                                          "on_socket_register_write"}
    PROVE  Known = sock
<1>1. ~Is("on_socket_close") /\ ~Is("fresh") /\ ~Is("on_socket_open")
    BY DEF Is, Later
<1>2. ~(Len(stack) > 1 /\ Do(2) = "on_socket_close")
  <2> SUFFICES ASSUME Len(stack) > 1, Do(2) = "on_socket_close" PROVE FALSE
      OBVIOUS
  <2>1. stack # <<>>
      OBVIOUS
  <2>2. 2 \in 2..Len(stack)
      BY <2>1, HeadIs
  <2>3. Do(1) \in {"unregister", "on_socket_unregister_write"}
      BY <2>2 DEF StackOK, TailOK
  <2> QED
      BY <2>1, <2>3 DEF Later
<1> QED
    BY <1>1, <1>2 DEF Known

(* A step in a call that goes on: it pushes later steps, queues a packet    *)
(* and asks for the watch, or finds the queue empty and ends the watch.     *)
RunsOn(s) ==
    /\ Replaces(s) /\ Leaves
    /\ \/ /\ Do(1) \in Later \ {"finally"}
          /\ s = <<>> \/ s[1].do \in Later
          /\ outq' = outq \/ (outq # <<>> /\ Behind("finally"))
       \/ /\ Do(1) \in Later \cup {"greet"}
          /\ s # <<>> /\ s[1].do = "register" /\ outq' # <<>>
       \/ /\ Do(1) = "finally"
          /\ s # <<>> /\ s[1].do = "unregister" /\ s[1].arg = sock /\ outq' = <<>>

LEMMA RunsOnFits ==
    ASSUME LoopInv, NEW s, RunsOn(s)
    PROVE  StackOK' /\ (~threaded' => OneThread')
<1>1. /\ StackOK /\ StackOK' /\ Regular'
      /\ Behind("finally") => \E k \in DOMAIN stack' : stack'[k].do = "finally"
      /\ s = <<>> => stack' = <<>> \/ stack'[1].do \in Later \cup {"clear"}
      /\ s # <<>> => stack' # <<>> /\ stack'[1] = s[1]
    BY ReplaceKeeps DEF LoopInv, RunsOn
<1>2. Do(1) \in Later \cup {"greet"} /\ stack # <<>>
    BY DEF RunsOn, Replaces, Later
<1>3. Known = sock /\ Known' = sock'
  <2>1. Known = sock
      BY <1>1, <1>2, KnownIs
  <2>2. Known' = sock'
      BY <1>1 DEF Regular, Known
  <2> QED
      BY <2>1, <2>2
<1> SUFFICES ASSUME ~threaded' PROVE OneThread'
    BY <1>1
<1>4. OneThread /\ Leaves
    BY DEF LoopInv, RunsOn, Leaves
<1>5. ~Is("on_socket_register_write") /\ ~Is("on_socket_unregister_write") /\ ~Is("unregister")
      /\ ~Is("register")
    BY <1>2 DEF Is, Later
<1>6. stack' = <<>> \/ stack'[1].do \in Later \cup {"clear", "register", "unregister"}
    BY <1>1 DEF RunsOn
<1>7. /\ ~Is("on_socket_register_write")' /\ ~Is("on_socket_unregister_write")'
      /\ Is("unregister")' => s # <<>> /\ s[1].do = "unregister"
      /\ Is("register")' => s # <<>> /\ s[1].do = "register"
    BY <1>1, <1>6 DEF Is, Do, Later
<1>8. WatchesFor(sock)'
    BY <1>3, <1>4 DEF OneThread, Fit, WatchesFor, Leaves, Told0
<1>9. Fit'
  <2>1. Is("unregister")' => stack'[1].arg = sock'
      BY <1>1, <1>7 DEF RunsOn, Leaves, Later
  <2>2. registered' <=> writers' # {}
      BY <1>4, <1>5 DEF OneThread, Fit, Leaves
  <2>3. ~Is("create")' /\ ~Is("fresh")' /\ ~Is("on_socket_open")' /\ ~Is("greet")' /\ ~Is("on_socket_close")'
      BY <1>1 DEF Regular
  <2> QED
      BY <1>3, <1>7, <1>8, <2>1, <2>2, <2>3 DEF Fit, WatchesFor, Told0, Do
<1>10. Due'
  <2>1. sock' = sock /\ registered' = registered
      BY <1>4 DEF Leaves
  <2>2. sock # 0 /\ outq # <<>> => registered
      BY <1>4, <1>5 DEF OneThread, Due
  <2>3. CASE Do(1) # "finally" /\ (s = <<>> \/ s[1].do \in Later) /\
             (outq' = outq \/ (outq # <<>> /\ Behind("finally")))
    <3>1. ~Is("register")' /\ ~Is("unregister")'
        BY <1>7, <2>3 DEF Later
    <3>2. sock # 0 /\ outq = <<>> /\ registered => Behind("finally")
      <4>1. ASSUME sock # 0, outq = <<>>, registered PROVE Behind("finally")
        <5>1. PICK k \in DOMAIN stack : Do(k) = "finally"
            BY <1>4, <1>5, <4>1 DEF OneThread, Due
        <5>2. k \in 2..Len(stack)
            BY <1>1, <1>2, <2>3, <5>1, HeadIs
        <5> QED
            BY <5>1, <5>2 DEF Behind
      <4> QED
          BY <4>1
    <3>3. sock' # 0 /\ outq' = <<>> /\ registered' => \E k \in DOMAIN stack' : stack'[k].do = "finally"
        BY <1>1, <2>1, <2>3, <3>2
    <3>4. sock' # 0 /\ outq' # <<>> => registered'
        BY <2>1, <2>2, <2>3
    <3> QED
        BY <1>7, <3>1, <3>3, <3>4 DEF Due, Do
  <2>4. CASE s # <<>> /\ s[1].do = "register" /\ outq' # <<>>
    <3>1. Is("register")' /\ ~Is("unregister")'
        BY <1>1, <1>7, <2>4 DEF Is, Do
    <3> QED
        BY <1>7, <2>4, <3>1 DEF Due
  <2>5. CASE s # <<>> /\ s[1].do = "unregister" /\ outq' = <<>>
    <3>1. Is("unregister")' /\ ~Is("register")'
        BY <1>1, <1>7, <2>5 DEF Is, Do
    <3> QED
        BY <1>7, <2>5, <3>1 DEF Due
  <2> QED
      BY <2>3, <2>4, <2>5 DEF RunsOn
<1> QED
    BY <1>4, <1>9, <1>10 DEF OneThread, Leaves

-----------------------------------------------------------------------------
(* The steps of a call, one by one *)

LEMMA GoesOn ==
    ASSUME LoopInv, NEW d \in Later \cup {"greet"}, Running(d), NEW s, Then(s), Leaves,
           d = "close" => sock = 0,
           s = <<>> \/ (Push(s) /\ (Safe(s) \/ d = "flush")),
           \/ /\ d # "finally" /\ d # "greet"
              /\ s = <<>> \/ s[1].do \in Later
              /\ outq' = outq \/ (outq # <<>> /\ d = "flush")
           \/ s # <<>> /\ s[1].do = "register" /\ outq' # <<>>
           \/ /\ d = "finally"
              /\ s # <<>> /\ s[1].do = "unregister" /\ s[1].arg = sock /\ outq' = <<>>
    PROVE  StackOK' /\ (~threaded' => OneThread')
<1>1. stack # <<>> /\ Do(1) = d /\ Is(d)
    BY HeadIs DEF LoopInv, Running, Do, Is
<1>2. d = "flush" => Behind("finally")
    BY <1>1, FlushIsClosed DEF LoopInv
<1>3. \A k \in DOMAIN s : s[k].do = "flush" =>
          (\E j \in k + 1..Len(s) : s[j].do = "finally") \/ Behind("finally")
    BY <1>2 DEF Safe
<1>4. s # <<>> => s[1].do \in Plain /\ s[1].do # "on_socket_register_write"
                  /\ (s[1].do = "unregister" => s[1].arg \in 0..made)
    BY DEF Plain, Later, LoopInv, TypeOK
<1>5. Replaces(s)
    BY <1>1, <1>3, <1>4 DEF Replaces, Then, Leaves, Later
<1>6. RunsOn(s)
    BY <1>1, <1>2, <1>5 DEF RunsOn
<1> QED
    BY <1>6, RunsOnFits

LEMMA RegisterIs ==
    /\ Push(Step("register", 0)) /\ Safe(Step("register", 0))
    /\ Step("register", 0) # <<>> /\ Step("register", 0)[1].do = "register"
BY FixedSteps DEF Dos, Push

LEMMA LaterSteps ==
    \A d \in Later \ {"flush"} : /\ Push(Step(d, 0)) /\ Safe(Step(d, 0))
                                 /\ Step(d, 0)[1].do \in Later
BY FixedSteps DEF Dos, Later

LEMMA Queued ==
    ASSUME TypeOK, NEW packet
    PROVE  Append(outq, packet) # <<>>
BY DEF TypeOK

LEMMA PacketWriteFits ==
    ASSUME LoopInv, PacketWrite
    PROVE  StackOK' /\ (~threaded' => OneThread')
<1> USE DEF watches, Later
<1>1. Running("flush") /\ Leaves
    BY DEF PacketWrite, Leaves
<1>2. CASE outq = <<>> /\ Then(<<>>) /\ outq' = outq
    BY <1>1, <1>2, GoesOn
<1>3. CASE outq # <<>> /\ outq' = Tail(outq) /\ Then(Sent(Head(outq)))
  <2>1. Push(Sent(Head(outq))) /\ Sent(Head(outq))[1].do \in {"user", "flush"}
      BY SentIs
  <2> QED
      BY <1>1, <1>3, <2>1, GoesOn
<1>4. CASE outq # <<>> /\ outq' = outq /\ Then(Step("register", 0))
    BY <1>1, <1>4, RegisterIs, GoesOn
<1>5. CASE outq' = outq /\ Then(Step("close", 0) \o Step("ended", "lost"))
  <2>1. /\ Push(Ending("lost")) /\ Safe(Ending("lost")) /\ Ending("lost")[1].do = "close"
        /\ Ending("lost") = Step("close", 0) \o Step("ended", "lost")
      BY EndingIs DEF Args, Ending
  <2> DEFINE s == Ending("lost")
  <2>2. Push(s) /\ Safe(s) /\ s[1].do \in Later /\ Then(s)
      BY <1>5, <2>1
  <2> HIDE DEF s
  <2> QED
      BY <1>1, <1>5, <2>2, GoesOn
<1> QED
    BY <1>2, <1>3, <1>4, <1>5 DEF PacketWrite

LEMMA FinallyFits ==
    ASSUME LoopInv, Finally
    PROVE  StackOK' /\ (~threaded' => OneThread')
<1> USE DEF watches, client, Later
<1>1. Running("finally") /\ Leaves /\ Then(FinallySteps) /\ outq' = outq
    BY DEF Finally, Leaves
<1>2. CASE outq # <<>>
    BY <1>1, <1>2, RegisterIs, GoesOn DEF FinallySteps
<1>3. CASE outq = <<>>
  <2>1. FinallySteps = Step("unregister", sock) /\ sock \in Args
    <3>1. made \in Nat /\ sock \in Nat
        BY ExternalLoopAssumption DEF LoopInv, TypeOK
    <3> QED
        BY <1>3, <3>1 DEF FinallySteps, Args
  <2>2. /\ Push(FinallySteps) /\ Safe(FinallySteps) /\ FinallySteps # <<>>
        /\ FinallySteps[1].do = "unregister" /\ FinallySteps[1].arg = sock
      BY <2>1, OneStep DEF Dos, Push
  <2> QED
      BY <1>1, <1>3, <2>2, GoesOn
<1> QED
    BY <1>2, <1>3

LEMMA ReadFits ==
    ASSUME LoopInv, PacketRead \/ Resume
    PROVE  StackOK' /\ (~threaded' => OneThread')
<1> USE DEF watches
<1>1. Leaves /\ (Running("read") \/ Running("resume"))
    BY DEF PacketRead, Resume, Leaves, Publish
<1>2. PICK d \in {"read", "resume"} : Running(d)
    BY <1>1
<1>3. ASSUME NEW s, Then(s), outq' = outq, s = <<>> \/ (Push(s) /\ Safe(s) /\ s[1].do \in Later)
      PROVE  StackOK' /\ (~threaded' => OneThread')
    BY <1>1, <1>2, <1>3, GoesOn DEF Later
<1>4. ASSUME NEW rc \in Args, Then(Ending(rc)), outq' = outq
      PROVE  StackOK' /\ (~threaded' => OneThread')
    BY <1>3, <1>4, EndingIs DEF Later
<1>5. CASE PacketRead
  <2>1. outq' = outq
      BY <1>5 DEF PacketRead
  <2>2. \/ Then(<<>>) \/ Then(Step("user", 0) \o Step("resume", 0) \o Step("read", 0))
        \/ Then(Ending("refused")) \/ Then(Step("user", 0) \o Step("read", 0))
        \/ Then(Step("close", 0) \o Step("user", 0)) \/ Then(Step("read", 0)) \/ Then(Ending("lost"))
      BY <1>5 DEF PacketRead
  <2> QED
      BY <1>3, <1>4, <2>1, <2>2, ReadStepsAre DEF Args
<1>6. CASE Resume
  <2>1. CASE Then(<<>>) /\ outq' = outq
      BY <1>3, <2>1
  <2>2. CASE Then(Ending("no connection")) /\ outq' = outq
      BY <1>4, <2>2 DEF Args
  <2>3. CASE Publish /\ outq' = Append(outq, "PUBLISH")
             /\ Then(Step("register", 0) \o LoopWrite \o Step("resume", 0))
    <3> DEFINE s == Step("register", 0) \o LoopWrite \o Step("resume", 0)
    <3>1. Push(s) /\ Safe(s) /\ s[1].do = "register" /\ s # <<>>
        BY ReadStepsAre DEF Push
    <3>2. outq' # <<>>
        BY <2>3, Queued DEF LoopInv
    <3>3. Then(s)
        BY <2>3
    <3> HIDE DEF s
    <3> QED
        BY <1>1, <1>2, <3>1, <3>2, <3>3, GoesOn DEF Later
  <2> QED
      BY <1>6, <2>1, <2>2, <2>3 DEF Resume
<1> QED
    BY <1>5, <1>6

LEMMA OtherStepsFit ==
    ASSUME LoopInv, Settle \/ Ended \/ Lost \/ SendConnect
    PROVE  StackOK' /\ (~threaded' => OneThread')
<1> USE DEF watches
<1>1. CASE Settle \/ Lost
  <2>1. Leaves /\ outq' = outq /\ Then(<<>>) /\ (Running("settle") \/ Running("lost"))
      BY <1>1 DEF Settle, Lost, Leaves
  <2> QED
      BY <2>1, GoesOn DEF Later
<1>2. CASE Ended
  <2>1. Leaves /\ outq' = outq /\ Running("ended")
      BY <1>2 DEF Ended, Leaves
  <2>2. PICK t \in {<<>>, Step("lost", 0)} : Then(Step("user", 0) \o t)
      BY <1>2 DEF Ended
  <2>3. /\ Push(Step("user", 0)) /\ Safe(Step("user", 0)) /\ Step("user", 0)[1].do = "user"
        /\ Push(Step("lost", 0)) /\ Safe(Step("lost", 0)) /\ Step("lost", 0)[1].do = "lost"
      BY FixedSteps DEF Dos, Later
  <2>4. Step("user", 0) \o <<>> = Step("user", 0)
      BY <2>3 DEF Push
  <2> DEFINE s == Step("user", 0) \o t
  <2>5. Push(s) /\ Safe(s) /\ s[1].do = "user"
    <3>1. CASE t = <<>>
        BY <2>3, <2>4, <3>1
    <3>2. CASE t = Step("lost", 0)
        BY <2>3, <3>2, MoreSteps DEF Later
    <3> QED
        BY <3>1, <3>2
  <2>6. Then(s)
      BY <2>2
  <2> HIDE DEF s
  <2> QED
      BY <2>1, <2>5, <2>6, GoesOn DEF Later
<1>3. CASE SendConnect
  <2>1. /\ Leaves /\ outq' = Append(outq, "CONNECT") /\ Then(Step("register", 0)) /\ Running("greet")
      BY <1>3 DEF SendConnect, PacketQueue, Leaves
  <2>2. outq' # <<>>
      BY <2>1, Queued DEF LoopInv
  <2> QED
      BY <2>1, <2>2, RegisterIs, GoesOn
<1> QED
    BY <1>1, <1>2, <1>3

LEMMA UserCallbackFits ==
    ASSUME LoopInv, UserCallback
    PROVE  StackOK' /\ (~threaded' => OneThread')
<1> USE DEF watches
<1>1. Running("user") /\ Leaves
    BY DEF UserCallback, Leaves
<1>2. CASE Then(<<>>) /\ outq' = outq
    BY <1>1, <1>2, GoesOn DEF Later
<1>3. CASE \E packet \in {"PUBLISH", "DISCONNECT"} : PacketQueue(packet)
  <2>1. outq' # <<>> /\ Then(Step("register", 0))
      BY <1>3, Queued DEF LoopInv, PacketQueue
  <2> QED
      BY <1>1, <2>1, RegisterIs, GoesOn DEF Later
<1>4. CASE stack' = Unwound /\ outq' = outq
  <2>1. stack # <<>> /\ Do(1) = "user" /\ StackOK
      BY <1>1, HeadIs DEF LoopInv, Running, Do
  <2>2. stack' = <<>> \/ (stack' = Step("finally", 0) /\ \E k \in DOMAIN stack' : stack'[k].do = "finally")
    <3> DEFINE f == Step("finally", 0)
    <3>1. f[1].do = "finally" /\ DOMAIN f = {1}
        BY OneStep DEF Dos, Later, Args
    <3>2. stack' = f \/ stack' = <<>>
        BY <1>4 DEF Unwound
    <3> HIDE DEF f
    <3>3. stack' = f => \E k \in DOMAIN stack' : stack'[k].do = "finally"
        BY <3>1
    <3> QED
        BY <3>2, <3>3 DEF f
  <2>3. (\E k \in DOMAIN stack : Do(k) = "finally") => \E k \in DOMAIN stack' : stack'[k].do = "finally"
    <3>1. DOMAIN stack = 1..Len(stack)
        BY <2>1, HeadIs
    <3>2. (\E k \in DOMAIN stack : Do(k) = "finally") => stack' = Step("finally", 0)
        BY <1>4, <3>1 DEF Unwound, Do
    <3>3. Step("finally", 0) # <<>>
        BY FixedSteps DEF Dos, Later, Push
    <3> QED
        BY <2>2, <3>2, <3>3
  <2>4. /\ stack' \in Seq(Steps) /\ DOMAIN stack' \subseteq {1} /\ \A k \in DOMAIN stack' : stack'[k].do = "finally"
        /\ 2..Len(stack') = {}
    <3>1. /\ Step("finally", 0) \in Seq(Steps) /\ Len(Step("finally", 0)) = 1
          /\ DOMAIN Step("finally", 0) = {1} /\ Step("finally", 0)[1].do = "finally"
        BY OneStep DEF Dos, Later, Args
    <3>2. <<>> \in Seq(Steps) /\ Len(<<>>) = 0 /\ DOMAIN <<>> = {}
        OBVIOUS
    <3> DEFINE f == Step("finally", 0)
               e == <<>>
    <3>3. stack' = f \/ stack' = e
        BY <2>2
    <3>4. f \in Seq(Steps) /\ Len(f) = 1 /\ DOMAIN f = {1} /\ f[1].do = "finally"
        BY <3>1
    <3>5. e \in Seq(Steps) /\ Len(e) = 0 /\ DOMAIN e = {}
        BY <3>2
    <3> HIDE DEF e, f
    <3>6. CASE stack' = f
      <4>1. stack' \in Seq(Steps) /\ Len(stack') = 1 /\ DOMAIN stack' = {1} /\ stack'[1].do = "finally"
          BY <3>4, <3>6
      <4>2. 2..Len(stack') = {}
          BY <4>1
      <4> QED
          BY <4>1, <4>2
    <3>7. CASE stack' = e
        BY <3>5, <3>7
    <3> QED
        BY <3>3, <3>6, <3>7
  <2>5. StackOK'
      BY <2>4 DEF StackOK, StepsOK, TailOK, Reconnecting, FlushEnds, Do, Callbacks
  <2>6. ASSUME NEW d, d # "finally" PROVE ~Is(d)'
    <3>1. stack' # <<>> => 1 \in DOMAIN stack'
        BY <2>4
    <3> QED
        BY <2>4, <2>6, <3>1 DEF Is, Do
  <2>7. Known = sock /\ Known' = sock'
    <3>1. Known = sock
        BY <2>1, KnownIs DEF Later
    <3>2. ~(Len(stack') > 1)
        BY <2>4
    <3> QED
        BY <2>6, <3>1, <3>2 DEF Known
  <2>8. ASSUME ~threaded' PROVE OneThread'
    <3>1. OneThread
        BY <1>1, <2>8 DEF LoopInv, Leaves
    <3>2. ~Is("on_socket_register_write") /\ ~Is("on_socket_unregister_write") /\ ~Is("unregister")
          /\ ~Is("register")
        BY <2>1 DEF Is
    <3>3. Fit'
        BY <1>1, <2>6, <2>7, <3>1, <3>2 DEF OneThread, Fit, WatchesFor, Told0, Leaves
    <3>4. Due'
        BY <1>1, <1>4, <2>3, <2>6, <3>1, <3>2 DEF OneThread, Due, Leaves, Do
    <3> QED
        BY <1>1, <3>1, <3>3, <3>4 DEF OneThread, Leaves
  <2> QED
      BY <2>5, <2>8
<1> QED
    BY <1>2, <1>3, <1>4 DEF UserCallback

-----------------------------------------------------------------------------
(* Steps about one socket: its callbacks, its end, a new one *)

LEMMA Popped ==
    ASSUME StackOK, stack # <<>>, stack' = Tail(stack), sock' = sock, made' = made,
           Do(1) # "close"
    PROVE  /\ StackOK'
           /\ stack' = <<>> \/ stack'[1].do \in Later \cup {"on_socket_close", "greet", "clear"}
           /\ ~(Len(stack') > 1 /\ stack'[2].do = "on_socket_close")
           /\ stack' # <<>> => Len(stack) > 1 /\ stack'[1] = stack[2]
           /\ Len(stack) > 1 => stack' # <<>>
<1> DEFINE t == stack
           u == stack'
<1>1. /\ t \in Seq(Steps) /\ u \in Seq(Steps) /\ Len(t) \in Nat \ {0} /\ DOMAIN t = 1..Len(t)
      /\ Len(u) = Len(t) - 1 /\ DOMAIN u = 1..Len(u) /\ \A k \in 1..Len(u) : u[k] = t[k + 1]
    BY DEF StackOK
<1> HIDE DEF u
<1>2. \A k \in DOMAIN u : k + 1 \in 2..Len(t) /\ k + 1 \in DOMAIN t /\ u[k] = t[k + 1]
    BY <1>1
<1>3. \A k \in DOMAIN u : u[k].do \in Later \cup {"on_socket_close", "greet", "clear"}
    BY <1>2 DEF StackOK, TailOK, Do
<1>4. \A k \in DOMAIN u : u[k].do \in {"on_socket_close", "greet"} => k = 1
  <2> SUFFICES ASSUME NEW k \in DOMAIN u, u[k].do \in {"on_socket_close", "greet"} PROVE k = 1
      OBVIOUS
  <2>1. k + 1 = 2
      BY <1>2 DEF StackOK, TailOK, Do
  <2> QED
      BY <1>1, <2>1
<1>5. \A k \in DOMAIN u : u[k].do = "clear" => k = Len(u) /\ made < MaxSockets /\ sock = 0
  <2> SUFFICES ASSUME NEW k \in DOMAIN u, u[k].do = "clear"
               PROVE  k = Len(u) /\ made < MaxSockets /\ sock = 0
      OBVIOUS
  <2>1. k + 1 = Len(t) /\ made < MaxSockets /\ sock = 0
      BY <1>2 DEF StackOK, Reconnecting, Do
  <2> QED
      BY <1>1, <2>1
<1>6. \A k \in DOMAIN u : u[k].do = "flush" => \E j \in k + 1..Len(u) : u[j].do = "finally"
  <2> SUFFICES ASSUME NEW k \in DOMAIN u, u[k].do = "flush"
               PROVE  \E j \in k + 1..Len(u) : u[j].do = "finally"
      OBVIOUS
  <2>1. PICK j \in (k + 1) + 1..Len(t) : t[j].do = "finally"
      BY <1>2 DEF StackOK, FlushEnds, Do
  <2>2. j - 1 \in k + 1..Len(u) /\ u[j - 1] = t[j]
    <3>1. j - 1 \in 1..Len(u) /\ (j - 1) + 1 = j /\ j - 1 \in k + 1..Len(u)
        BY <1>1
    <3> QED
        BY <1>1, <3>1
  <2> QED
      BY <2>1, <2>2
<1>7. StepsOK'
    BY <1>2 DEF StackOK, StepsOK, Do, u
<1>8. TailOK'
  <2>1. \A k \in 2..Len(u) : k \in DOMAIN u /\ k # 1
      BY <1>1
  <2> QED
      BY <1>3, <1>4, <2>1 DEF TailOK, Do, u, Later
<1>9. Reconnecting'
    BY <1>3, <1>5 DEF Reconnecting, Do, u, Later
<1>10. FlushEnds'
    BY <1>6 DEF FlushEnds, Do, u
<1>11. /\ u = <<>> \/ u[1].do \in Later \cup {"on_socket_close", "greet", "clear"}
       /\ ~(Len(u) > 1 /\ u[2].do = "on_socket_close")
       /\ u # <<>> => Len(t) > 1 /\ u[1] = t[2]
       /\ Len(t) > 1 => u # <<>>
  <2>1. u # <<>> => 1 \in DOMAIN u
      BY <1>1
  <2>2. Len(u) > 1 => 2 \in DOMAIN u
      BY <1>1
  <2>3. u # <<>> => Len(t) > 1 /\ u[1] = t[2]
      BY <1>1, <2>1
  <2>4. Len(t) > 1 => u # <<>>
      BY <1>1
  <2> QED
      BY <1>3, <1>4, <2>1, <2>2, <2>3, <2>4
<1> QED
    BY <1>1, <1>7, <1>8, <1>9, <1>10, <1>11 DEF StackOK, u

LEMMA KnownAfterPop ==
    ASSUME StackOK, stack # <<>>, stack' = Tail(stack), sock' = sock, made' = made,
           Do(1) \in {"unregister", "on_socket_unregister_write"}
    PROVE  /\ StackOK' /\ Known' = Known
           /\ stack' = <<>> \/ stack'[1].do \in Later \cup {"on_socket_close", "clear"}
           /\ Known # sock => Is("on_socket_close")'
           /\ Is("on_socket_close")' => sock = 0 /\ Known = stack[1].arg
<1> DEFINE u == stack'
<1>1. /\ StackOK'
      /\ u = <<>> \/ u[1].do \in Later \cup {"on_socket_close", "greet", "clear"}
      /\ ~(Len(u) > 1 /\ u[2].do = "on_socket_close")
      /\ u # <<>> => Len(stack) > 1 /\ u[1] = stack[2]
      /\ Len(stack) > 1 => u # <<>>
    BY Popped
<1> HIDE DEF u
<1>2. ~Is("on_socket_close") /\ ~Is("fresh") /\ ~Is("on_socket_open")
    BY DEF Is
<1>3. ~(u # <<>> /\ u[1].do \in {"greet", "fresh", "on_socket_open"})
  <2>1. u # <<>> /\ u[1].do = "greet" => FALSE
    <3>1. Len(stack) > 1 => 2 \in 2..Len(stack)
        BY HeadIs
    <3> QED
        BY <1>1, <3>1 DEF StackOK, TailOK, Do
  <2> QED
      BY <1>1, <2>1 DEF Later
<1>4. CASE Len(stack) > 1 /\ Do(2) = "on_socket_close"
  <2>1. u # <<>> /\ u[1] = stack[2] /\ u[1].do = "on_socket_close"
      BY <1>1, <1>4 DEF Do
  <2>2. stack[2].arg = stack[1].arg /\ sock = 0
    <3>1. 2 \in 2..Len(stack)
        BY <1>4, HeadIs
    <3> QED
        BY <1>4, <3>1 DEF StackOK, TailOK, Do
  <2>3. Known = stack[2].arg /\ Known' = u[1].arg /\ Is("on_socket_close")'
      BY <1>2, <1>4, <2>1 DEF Known, Is, Do, u
  <2> QED
      BY <1>1, <1>3, <2>1, <2>2, <2>3 DEF u
<1>5. CASE ~(Len(stack) > 1 /\ Do(2) = "on_socket_close")
  <2>1. ~(u # <<>> /\ u[1].do = "on_socket_close")
      BY <1>1, <1>5 DEF Do
  <2>2. Known = sock /\ Known' = sock'
      BY <1>1, <1>2, <1>3, <1>5, <2>1 DEF Known, Is, Do, u
  <2> QED
      BY <1>1, <1>3, <2>1, <2>2 DEF Is, Do, u
<1> QED
    BY <1>4, <1>5

LEMMA CallUnregisterFits ==
    ASSUME LoopInv, CallSocketUnregisterWrite
    PROVE  StackOK' /\ (~threaded' => OneThread')
<1> USE DEF watches
<1>1. /\ StackOK /\ stack # <<>> /\ Do(1) = "unregister" /\ Arg = stack[1].arg
      /\ UNCHANGED <<sock, made, outq, readers, writers, misc, told, pub, threaded>>
    BY HeadIs DEF LoopInv, CallSocketUnregisterWrite, Running, Do, Arg
<1>2. /\ Is("unregister") /\ ~Is("register") /\ ~Is("on_socket_register_write")
      /\ ~Is("on_socket_unregister_write") /\ ~Is("on_socket_close")
    BY <1>1 DEF Is
<1>3. ASSUME ~threaded'
      PROVE  /\ OneThread /\ Arg = Known /\ (registered <=> writers # {})
             /\ sock # 0 => outq = <<>>
    BY <1>1, <1>2, <1>3 DEF LoopInv, OneThread, Fit, Due
<1>4. CASE (Arg = 0 \/ ~registered) /\ registered' = registered /\ Then(<<>>)
  <2>1. stack' = Tail(stack)
      BY <1>1, <1>4 DEF Then, LoopInv, StackOK
  <2>2. /\ StackOK' /\ Known' = Known
        /\ stack' = <<>> \/ stack'[1].do \in Later \cup {"on_socket_close", "clear"}
        /\ Known # sock => Is("on_socket_close")'
        /\ Is("on_socket_close")' => sock = 0 /\ Known = stack[1].arg
      BY <1>1, <2>1, KnownAfterPop
  <2>3. ASSUME ~threaded' PROVE OneThread'
    <3>1. /\ ~Is("on_socket_register_write")' /\ ~Is("on_socket_unregister_write")'
          /\ ~Is("unregister")' /\ ~Is("register")' /\ ~Is("fresh")' /\ ~Is("create")'
          /\ ~Is("on_socket_open")' /\ ~Is("greet")'
        BY <2>2 DEF Is, Do, Later
    <3>2. Is("on_socket_close")' => ~registered'
      <4>1. stack[1].arg \in 0..made
          BY <1>1, HeadIs DEF StackOK, StepsOK
      <4>2. ASSUME Is("on_socket_close")', Arg = 0 PROVE FALSE
        <5>1. stack'[1].do = "on_socket_close" /\ stack' # <<>>
            BY <4>2 DEF Is, Do
        <5>2. 1 \in DOMAIN stack'
            BY <2>2, <5>1 DEF StackOK
        <5>3. stack'[1].arg \in 1..made'
            BY <2>2, <5>1, <5>2 DEF StackOK, StepsOK, Do, Callbacks
        <5>4. Known' = stack'[1].arg
            BY <4>2 DEF Known
        <5> QED
            BY <1>1, <2>2, <4>2, <5>3, <5>4
      <4> QED
          BY <1>4, <4>2
    <3>3. Fit'
        BY <1>1, <1>2, <1>3, <1>4, <2>2, <2>3, <3>1, <3>2 DEF OneThread, Fit, WatchesFor, Told0
    <3>4. Due'
      <4>1. sock # 0 => outq = <<>> /\ ~registered
          BY <1>1, <1>3, <1>4, <2>2, <2>3 DEF Is, Do
      <4> QED
          BY <1>1, <1>4, <3>1, <4>1 DEF Due
    <3> QED
        BY <1>1, <1>3, <2>3, <3>3, <3>4 DEF OneThread
  <2> QED
      BY <2>2, <2>3
<1>5. CASE /\ Arg # 0 /\ registered /\ registered' = FALSE
           /\ Then(Step("on_socket_unregister_write", Arg))
  <2> DEFINE x == Step("on_socket_unregister_write", Arg)
             u == stack'
  <2>1. /\ x \in Seq(Steps) /\ Len(x) = 1
        /\ x[1].do = "on_socket_unregister_write" /\ x[1].arg = Arg
    <3>1. Arg \in Args
        BY <1>1, HeadIs DEF Steps
    <3> QED
        BY <3>1, OneStep DEF Dos, Callbacks
  <2>2. u = x \o Tail(stack)
      BY <1>5 DEF Then
  <2> HIDE DEF x
  <2>3. /\ u \in Seq(Steps) /\ Len(u) = Len(stack) /\ DOMAIN u = 1..Len(stack)
        /\ DOMAIN stack = 1..Len(stack) /\ Len(stack) \in Nat \ {0}
        /\ u[1] = x[1] /\ \A k \in 2..Len(stack) : u[k] = stack[k]
    <3>1. /\ u \in Seq(Steps) /\ Len(x) = 1 /\ Len(stack) \in Nat \ {0}
          /\ DOMAIN stack = 1..Len(stack)
          /\ Len(u) = Len(x) + Len(stack) - 1 /\ DOMAIN u = 1..Len(x) + Len(stack) - 1
          /\ \A k \in 1..Len(x) : u[k] = x[k]
          /\ \A k \in 2..Len(stack) : u[Len(x) + k - 1] = stack[k]
      <4>1. stack \in Seq(Steps) /\ stack # <<>> /\ x \in Seq(Steps)
          BY <1>1, <2>1 DEF StackOK
      <4> HIDE DEF u
      <4>2. /\ u \in Seq(Steps) /\ Len(stack) \in Nat \ {0}
            /\ DOMAIN stack = 1..Len(stack)
            /\ Len(u) = Len(x) + Len(stack) - 1 /\ DOMAIN u = 1..Len(x) + Len(stack) - 1
            /\ \A k \in 1..Len(x) : u[k] = x[k]
            /\ \A k \in 2..Len(stack) : u[Len(x) + k - 1] = stack[k]
          BY <2>2, <4>1, Replaced
      <4> QED
          BY <2>1, <4>2
    <3>2. \A k \in 2..Len(stack) : Len(x) + k - 1 = k
        BY <3>1
    <3>3. Len(x) + Len(stack) - 1 = Len(stack) /\ 1 \in 1..Len(x)
        BY <3>1
    <3> QED
        BY <3>1, <3>2, <3>3
  <2> HIDE DEF u
  <2>4. \A k \in DOMAIN u : k = 1 \/ (k \in 2..Len(stack) /\ u[k] = stack[k] /\ k \in DOMAIN stack)
      BY <2>3
  <2>5. StackOK'
    <3>1. Arg \in 1..made
        BY <1>1, <1>5, HeadIs DEF StackOK, StepsOK
    <3>2. StepsOK'
        BY <1>1, <2>1, <2>3, <2>4, <3>1 DEF StackOK, StepsOK, Do, u, Callbacks
    <3>3. TailOK'
        BY <1>1, <2>1, <2>3, <2>4 DEF StackOK, TailOK, Do, u
    <3>4. Reconnecting'
        BY <1>1, <2>1, <2>3, <2>4 DEF StackOK, Reconnecting, TailOK, Do, u
    <3>5. FlushEnds'
      <4> SUFFICES ASSUME NEW k \in DOMAIN u, u[k].do = "flush"
                   PROVE  \E j \in k + 1..Len(u) : u[j].do = "finally"
          BY DEF FlushEnds, Do, u
      <4>1. k \in 2..Len(stack) /\ u[k] = stack[k]
          BY <2>1, <2>3, <2>4
      <4>2. PICK j \in k + 1..Len(stack) : stack[j].do = "finally"
          BY <2>3, <4>1 DEF StackOK, FlushEnds, Do, LoopInv
      <4>3. j \in 2..Len(stack) /\ j \in k + 1..Len(u)
          BY <2>3, <4>1
      <4> QED
          BY <2>3, <4>2, <4>3
    <3> QED
        BY <2>3, <3>2, <3>3, <3>4, <3>5 DEF StackOK, u
  <2>6. /\ Is("on_socket_unregister_write")' /\ stack'[1].arg = Arg
        /\ \A d : d # "on_socket_unregister_write" => ~Is(d)'
    <3>1. u # <<>>
        BY <2>3
    <3> QED
        BY <2>1, <2>3, <3>1 DEF Is, Do, u
  <2>7. Known' = Known
    <3>1. Len(stack) > 1 => u[2] = stack[2]
      <4>1. Len(stack) > 1 => 2 \in 2..Len(stack)
          BY <2>3
      <4> QED
          BY <2>3, <4>1
    <3>2. ~Is("on_socket_close")' /\ ~Is("fresh")' /\ ~Is("on_socket_open")'
        BY <2>6
    <3>3. ~Is("on_socket_close") /\ ~Is("fresh") /\ ~Is("on_socket_open")
        BY <1>1 DEF Is
    <3> QED
        BY <1>1, <2>3, <3>1, <3>2, <3>3 DEF Known, Do, u
  <2>8. ASSUME ~threaded' PROVE OneThread'
    <3>1. told[Known] = "register"
        BY <1>3, <1>5, <2>8 DEF OneThread, Fit, WatchesFor
    <3>2. Fit'
        BY <1>1, <1>3, <1>5, <2>6, <2>7, <2>8, <3>1 DEF OneThread, Fit, WatchesFor, Told0
    <3>3. Due'
        BY <1>1, <1>3, <1>5, <2>6, <2>8 DEF Due
    <3> QED
        BY <1>1, <1>3, <2>8, <3>2, <3>3 DEF OneThread
  <2> QED
      BY <2>5, <2>8
<1> QED
    BY <1>4, <1>5 DEF CallSocketUnregisterWrite

LEMMA Popping ==
    ASSUME StackOK, stack # <<>>, Then(<<>>)
    PROVE  stack' = Tail(stack)
BY DEF StackOK, Then

(* CALL OF on_socket_register_write, and the callback.                      *)
LEMMA CallRegisterFits ==
    ASSUME LoopInv, CallSocketRegisterWrite
    PROVE  StackOK' /\ (~threaded' => OneThread')
<1> USE DEF watches
<1>1. /\ StackOK /\ stack # <<>> /\ Do(1) = "register" /\ Is("register")
      /\ UNCHANGED <<sock, made, outq, readers, writers, misc, told, pub, threaded>>
    BY HeadIs DEF LoopInv, CallSocketRegisterWrite, Running, Do, Is
<1>2. Known = sock
    BY <1>1, KnownIs
<1>3. ASSUME ~threaded'
      PROVE  OneThread /\ outq # <<>> /\ (registered <=> writers # {})
  <2>1. ~Is("on_socket_register_write") /\ ~Is("on_socket_unregister_write")
      BY <1>1 DEF Is
  <2> QED
      BY <1>1, <1>3, <2>1 DEF LoopInv, OneThread, Fit, Due
<1>4. CASE (sock = 0 \/ registered) /\ registered' = registered /\ Then(<<>>)
  <2>1. Replaces(<<>>)
      BY <1>1, <1>4 DEF Replaces, Then
  <2>2. StackOK' /\ Regular' /\ (stack' = <<>> \/ stack'[1].do \in Later \cup {"clear"})
      BY <1>1, <2>1, ReplaceKeeps
  <2>3. Known' = sock'
      BY <2>2 DEF Regular, Known
  <2>4. /\ ~Is("on_socket_register_write")' /\ ~Is("unregister")' /\ ~Is("register")'
        /\ ~Is("create")'
      BY <2>2 DEF Is, Do, Later
  <2>5. ASSUME ~threaded' PROVE OneThread'
    <3>1. Fit'
        BY <1>1, <1>2, <1>3, <1>4, <2>2, <2>3, <2>4, <2>5
        DEF OneThread, Fit, WatchesFor, Told0, Regular
    <3>2. Due'
        BY <1>1, <1>3, <1>4, <2>4, <2>5 DEF Due
    <3> QED
        BY <1>1, <1>3, <2>5, <3>1, <3>2 DEF OneThread
  <2> QED
      BY <2>2, <2>5
<1>5. CASE /\ sock # 0 /\ ~registered /\ registered' = TRUE
           /\ Then(Step("on_socket_register_write", sock))
  <2> DEFINE x == Step("on_socket_register_write", sock)
  <2>1. made \in Nat /\ sock \in 1..made /\ sock \in Args
    <3>1. made \in Nat /\ sock \in 0..made
        BY ExternalLoopAssumption DEF LoopInv, TypeOK
    <3>2. sock \in 1..made /\ sock \in Nat
        BY <1>5, <3>1
    <3> QED
        BY <3>1, <3>2 DEF Args
  <2>2. /\ Push(x) /\ Safe(x) /\ x # <<>>
        /\ x[1].do = "on_socket_register_write" /\ x[1].arg = sock
      BY <2>1, OneStep DEF Dos, Callbacks, Push
  <2>3. Then(x)
      BY <1>5
  <2> HIDE DEF x
  <2>4. Replaces(x)
      BY <1>1, <2>1, <2>2, <2>3 DEF Replaces, Then, Safe, Plain
  <2>5. StackOK' /\ Regular' /\ stack' # <<>> /\ stack'[1] = x[1]
      BY <1>1, <2>2, <2>4, ReplaceKeeps
  <2>6. /\ Known' = sock' /\ stack'[1].arg = sock
        /\ Is("on_socket_register_write")'
        /\ \A d : d # "on_socket_register_write" => ~Is(d)'
      BY <2>2, <2>5 DEF Regular, Known, Is, Do
  <2>7. ASSUME ~threaded' PROVE OneThread'
    <3>1. writers = {}
        BY <1>3, <1>5, <2>7
    <3>2. Fit'
        BY <1>1, <1>2, <1>3, <1>5, <2>6, <2>7, <3>1 DEF OneThread, Fit, WatchesFor, Told0
    <3>3. Due'
        BY <1>1, <1>3, <1>5, <2>6, <2>7 DEF Due
    <3> QED
        BY <1>1, <1>3, <2>7, <3>2, <3>3 DEF OneThread
  <2> QED
      BY <2>5, <2>7
<1> QED
    BY <1>4, <1>5 DEF CallSocketRegisterWrite

LEMMA Answered ==
    ASSUME NEW what \in {"open", "close", "register", "unregister"}, NEW s \in Socket,
           told \in [Socket -> Events], Told(what, s), <<told[s], what>> \in Follows,
           what = "open" => \A t \in 1..(s - 1) : told[t] \in {"nothing", "close"}
    PROVE  /\ told' \in [Socket -> Events] /\ told'[s] = what
           /\ \A t \in Socket \ {s} : told'[t] = told[t]
<1>1. told' = [told EXCEPT ![s] = what]
    BY DEF Told
<1>2. what \in Events
    BY DEF Events
<1> QED
    BY <1>1, <1>2

LEMMA SocketIs ==
    ASSUME LoopInv, NEW s \in 1..made
    PROVE  /\ s \in Socket /\ s # 0 /\ s \in Nat
           /\ \A t \in Socket : t > made => t # s
<1>1. made \in Nat /\ made <= MaxSockets /\ MaxSockets \in Nat
    BY ExternalLoopAssumption DEF LoopInv, TypeOK
<1> QED
    BY <1>1 DEF Socket

LEMMA OnRegisterFits ==
    ASSUME LoopInv, Callback, Running("on_socket_register_write"), OnSocketRegisterWrite(Arg)
    PROVE  StackOK' /\ (~threaded' => OneThread')
<1>1. /\ StackOK /\ stack # <<>> /\ Do(1) = "on_socket_register_write" /\ Arg = stack[1].arg
      /\ UNCHANGED <<sock, made, registered, outq, pub, threaded>> /\ Then(<<>>)
    BY HeadIs DEF LoopInv, Callback, Running, Do, Arg, client
<1>2. Is("on_socket_register_write") /\ ~Is("on_socket_unregister_write") /\ Known = sock
  <2>1. Known = sock
      BY <1>1, KnownIs
  <2> QED
      BY <1>1, <2>1 DEF Is
<1>3. Replaces(<<>>)
    BY <1>1 DEF Replaces, Then
<1>4. StackOK' /\ Regular' /\ (stack' = <<>> \/ stack'[1].do \in Later \cup {"clear"})
    BY <1>1, <1>3, ReplaceKeeps
<1>5. Known' = sock'
    BY <1>4 DEF Regular, Known
<1>6. ~Is("on_socket_register_write")' /\ ~Is("unregister")' /\ ~Is("register")' /\ ~Is("create")'
    BY <1>4 DEF Is, Do, Later
<1>7. ASSUME ~threaded' PROVE OneThread'
  <2>1. /\ OneThread /\ outq # <<>> /\ registered /\ writers = {} /\ Arg = sock
        /\ WatchesFor(sock)
      BY <1>1, <1>2, <1>7 DEF LoopInv, OneThread, Fit, Due
  <2>2. Arg \in 1..made /\ Arg \in Socket /\ sock # 0
    <3>1. Arg \in 1..made
        BY <1>1, HeadIs DEF StackOK, StepsOK, Callbacks
    <3> QED
        BY <2>1, <3>1, SocketIs DEF WatchesFor
  <2>3. told[sock] \in {"open", "unregister"}
      BY <2>1, <2>2 DEF WatchesFor
  <2>4. /\ told' \in [Socket -> Events] /\ told'[sock] = "register"
        /\ \A t \in Socket \ {sock} : told'[t] = told[t]
    <3>1. Told("register", sock) /\ <<told[sock], "register">> \in Follows
        BY <2>1, <2>3 DEF OnSocketRegisterWrite, Follows
    <3> QED
        BY <2>1, <2>2, <3>1, Answered DEF OneThread
  <2>5. writers' = {sock} /\ readers' = readers /\ misc' = misc
      BY <2>1 DEF OnSocketRegisterWrite
  <2>6. WatchesFor(sock)'
    <3>1. \A t \in Socket : t > made => t # sock
        BY <2>1, <2>2, SocketIs
    <3> QED
        BY <1>1, <2>1, <2>2, <2>4, <2>5, <3>1 DEF WatchesFor, Told0
  <2>7. Fit'
      BY <1>1, <1>4, <1>5, <1>6, <2>1, <2>5, <2>6 DEF Fit, Regular, WatchesFor, Told0
  <2>8. Due'
      BY <1>1, <1>6, <2>1 DEF Due
  <2> QED
      BY <1>1, <2>1, <2>4, <2>7, <2>8 DEF OneThread
<1> QED
    BY <1>4, <1>7

LEMMA OnUnregisterFits ==
    ASSUME LoopInv, Callback, Running("on_socket_unregister_write"), OnSocketUnregisterWrite(Arg)
    PROVE  StackOK' /\ (~threaded' => OneThread')
<1>1. /\ StackOK /\ stack # <<>> /\ Do(1) = "on_socket_unregister_write" /\ Arg = stack[1].arg
      /\ UNCHANGED <<sock, made, registered, outq, pub, threaded>> /\ stack' = Tail(stack)
  <2>1. StackOK /\ stack # <<>> /\ Then(<<>>)
      BY DEF LoopInv, Callback, Running
  <2>2. stack' = Tail(stack)
      BY <2>1, Popping
  <2> QED
      BY <2>1, <2>2, HeadIs DEF LoopInv, Callback, Running, Do, Arg, client
<1>2. /\ Is("on_socket_unregister_write") /\ ~Is("on_socket_register_write") /\ ~Is("register")
    BY <1>1 DEF Is
<1>3. /\ StackOK' /\ Known' = Known
      /\ stack' = <<>> \/ stack'[1].do \in Later \cup {"on_socket_close", "clear"}
      /\ Known # sock => Is("on_socket_close")'
      /\ Is("on_socket_close")' => sock = 0 /\ Known = stack[1].arg
    BY <1>1, KnownAfterPop
<1>4. /\ ~Is("on_socket_register_write")' /\ ~Is("on_socket_unregister_write")'
      /\ ~Is("unregister")' /\ ~Is("register")' /\ ~Is("fresh")' /\ ~Is("create")'
      /\ ~Is("on_socket_open")' /\ ~Is("greet")'
    BY <1>3 DEF Is, Do, Later
<1>5. ASSUME ~threaded' PROVE OneThread'
  <2>1. /\ OneThread /\ ~registered /\ Arg = Known /\ told[Known] = "register"
        /\ WatchesFor(Known)
      BY <1>1, <1>2, <1>5 DEF LoopInv, OneThread, Fit
  <2>2. Arg \in 1..made /\ Arg \in Socket /\ Known # 0
    <3>1. Arg \in 1..made
        BY <1>1, HeadIs DEF StackOK, StepsOK, Callbacks
    <3> QED
        BY <2>1, <3>1, SocketIs DEF WatchesFor
  <2>3. /\ told' \in [Socket -> Events] /\ told'[Known] = "unregister"
        /\ \A t \in Socket \ {Known} : told'[t] = told[t]
    <3>1. Told("unregister", Known) /\ <<told[Known], "unregister">> \in Follows
        BY <2>1 DEF OnSocketUnregisterWrite, Follows
    <3> QED
        BY <2>1, <2>2, <3>1, Answered DEF OneThread
  <2>4. writers' = {} /\ readers' = readers /\ misc' = misc
      BY <2>1 DEF OnSocketUnregisterWrite, WatchesFor
  <2>5. /\ \A t \in Socket \ {Known} : told'[t] \in {"nothing", "close"}
        /\ \A t \in Socket : t > made => told'[t] = "nothing"
    <3>1. \A t \in Socket : t > made => t # Known
        BY <2>1, <2>2, SocketIs
    <3> QED
        BY <2>1, <2>3, <3>1 DEF WatchesFor, Told0
  <2>6. WatchesFor(Known)'
      BY <1>1, <1>3, <2>1, <2>2, <2>3, <2>4, <2>5 DEF WatchesFor, Told0
  <2>7. Fit'
      BY <1>1, <1>3, <1>4, <2>1, <2>4, <2>6 DEF Fit, WatchesFor, Told0, OneThread
  <2>8. Due'
    <3>1. sock # 0 => outq = <<>>
        BY <1>2, <2>1 DEF OneThread, Due
    <3> QED
        BY <1>1, <1>4, <2>1, <3>1 DEF Due
  <2> QED
      BY <1>1, <2>1, <2>3, <2>7, <2>8 DEF OneThread
<1> QED
    BY <1>3, <1>5

LEMMA OnCloseFits ==
    ASSUME LoopInv, Callback, Running("on_socket_close"), OnSocketClose(Arg)
    PROVE  StackOK' /\ (~threaded' => OneThread')
<1>1. /\ StackOK /\ stack # <<>> /\ Do(1) = "on_socket_close" /\ Arg = stack[1].arg
      /\ UNCHANGED <<sock, made, registered, outq, pub, threaded>> /\ Then(<<>>)
    BY HeadIs DEF LoopInv, Callback, Running, Do, Arg, client
<1>2. /\ Is("on_socket_close") /\ ~Is("on_socket_register_write")
      /\ ~Is("on_socket_unregister_write") /\ Known = Arg
    BY <1>1 DEF Is, Known
<1>3. Replaces(<<>>)
    BY <1>1 DEF Replaces, Then
<1>4. StackOK' /\ Regular' /\ (stack' = <<>> \/ stack'[1].do \in Later \cup {"clear"})
    BY <1>1, <1>3, ReplaceKeeps
<1>5. Known' = sock'
    BY <1>4 DEF Regular, Known
<1>6. ~Is("on_socket_register_write")' /\ ~Is("unregister")' /\ ~Is("register")' /\ ~Is("create")'
    BY <1>4 DEF Is, Do, Later
<1>7. ASSUME ~threaded' PROVE OneThread'
  <2>1. OneThread /\ sock = 0 /\ ~registered /\ writers = {} /\ WatchesFor(Arg)
      BY <1>1, <1>2, <1>7 DEF LoopInv, OneThread, Fit
  <2>2. Arg \in 1..made /\ Arg \in Socket /\ Arg # 0
    <3>1. Arg \in 1..made
        BY <1>1, HeadIs DEF StackOK, StepsOK, Callbacks
    <3> QED
        BY <3>1, SocketIs
  <2>3. told[Arg] \in {"open", "unregister"}
      BY <2>1, <2>2 DEF WatchesFor
  <2>4. /\ told' \in [Socket -> Events] /\ told'[Arg] = "close"
        /\ \A t \in Socket \ {Arg} : told'[t] = told[t]
    <3>1. Told("close", Arg) /\ <<told[Arg], "close">> \in Follows
        BY <2>3 DEF OnSocketClose, Follows
    <3> QED
        BY <2>1, <2>2, <3>1, Answered DEF OneThread
  <2>5. writers' = {} /\ readers' = {} /\ misc' = {}
      BY <2>1 DEF OnSocketClose, WatchesFor
  <2>6. /\ \A t \in Socket : told'[t] \in {"nothing", "close"}
        /\ \A t \in Socket : t > made => told'[t] = "nothing"
    <3>1. \A t \in Socket : t > made => t # Arg
        BY <2>2, SocketIs
    <3> QED
        BY <2>1, <2>4, <3>1 DEF WatchesFor, Told0
  <2>7. WatchesFor(sock)'
      BY <1>1, <2>1, <2>5, <2>6 DEF WatchesFor, Told0
  <2>8. Fit'
      BY <1>1, <1>4, <1>5, <1>6, <2>1, <2>5, <2>7 DEF Fit, Regular, WatchesFor, Told0
  <2>9. Due'
      BY <1>1, <1>6, <2>1 DEF Due
  <2> QED
      BY <1>1, <2>1, <2>4, <2>8, <2>9 DEF OneThread
<1> QED
    BY <1>4, <1>7

LEMMA OnOpenFits ==
    ASSUME LoopInv, Callback, Running("on_socket_open"), OnSocketOpen(Arg)
    PROVE  StackOK' /\ (~threaded' => OneThread')
<1>1. /\ StackOK /\ stack # <<>> /\ Do(1) = "on_socket_open" /\ Arg = stack[1].arg
      /\ UNCHANGED <<sock, made, registered, outq, pub, threaded>> /\ stack' = Tail(stack)
  <2>1. StackOK /\ stack # <<>> /\ Then(<<>>)
      BY DEF LoopInv, Callback, Running
  <2>2. stack' = Tail(stack)
      BY <2>1, Popping
  <2> QED
      BY <2>1, <2>2, HeadIs DEF LoopInv, Callback, Running, Do, Arg, client
<1>2. /\ StackOK'
      /\ stack' = <<>> \/ stack'[1].do \in Later \cup {"on_socket_close", "greet", "clear"}
      /\ ~(Len(stack') > 1 /\ stack'[2].do = "on_socket_close")
      /\ stack' # <<>> => Len(stack) > 1 /\ stack'[1] = stack[2]
    BY <1>1, Popped
<1>3. ~(Len(stack) > 1 /\ Do(2) = "on_socket_close")
  <2>1. Len(stack) > 1 => 2 \in 2..Len(stack)
      BY <1>1, HeadIs
  <2> QED
      BY <1>1, <2>1 DEF StackOK, TailOK
<1>4. /\ Known = 0 /\ Known' = sock' /\ ~Is("on_socket_close")'
  <2>1. ~Is("on_socket_close")'
      BY <1>2, <1>3 DEF Is, Do
  <2>2. Is("on_socket_open") /\ ~Is("on_socket_close") /\ ~Is("fresh")' /\ ~Is("on_socket_open")'
      BY <1>1, <1>2 DEF Is, Do, Later
  <2> QED
      BY <1>2, <1>3, <2>1, <2>2 DEF Known, Do
<1>5. /\ ~Is("on_socket_register_write")' /\ ~Is("unregister")' /\ ~Is("register")'
      /\ ~Is("create")' /\ ~Is("on_socket_unregister_write")'
      /\ ~Is("fresh")' /\ ~Is("on_socket_open")'
    BY <1>2 DEF Is, Do, Later
<1>6. Arg = sock
    BY <1>1, HeadIs DEF StackOK, Reconnecting
<1>7. ASSUME ~threaded' PROVE OneThread'
  <2>1. /\ OneThread /\ ~registered /\ WatchesFor(0) /\ told[sock] = "nothing" /\ outq = <<>>
        /\ writers = {}
    <3>1. /\ Is("on_socket_open") /\ ~Is("on_socket_register_write")
          /\ ~Is("on_socket_unregister_write")
        BY <1>1 DEF Is
    <3>2. OneThread
        BY <1>1, <1>7 DEF LoopInv
    <3> QED
        BY <1>4, <3>1, <3>2 DEF OneThread, Fit, WatchesFor
  <2>2. sock \in 1..made /\ sock \in Socket /\ sock # 0
    <3>1. Arg \in 1..made
        BY <1>1, HeadIs DEF StackOK, StepsOK, Callbacks
    <3> QED
        BY <1>6, <3>1, SocketIs
  <2>3. \A t \in Socket : told[t] \in {"nothing", "close"}
      BY <2>1 DEF WatchesFor, Told0, Socket
  <2>4. /\ told' \in [Socket -> Events] /\ told'[sock] = "open"
        /\ \A t \in Socket \ {sock} : told'[t] = told[t]
    <3>1. Told("open", sock) /\ <<told[sock], "open">> \in Follows
        BY <1>6, <2>1 DEF OnSocketOpen, Follows
    <3>2. \A t \in 1..sock - 1 : t \in Socket
        BY <2>2, ExternalLoopAssumption DEF Socket
    <3> QED
        BY <2>1, <2>2, <2>3, <3>1, <3>2, Answered DEF OneThread
  <2>5. writers' = {} /\ readers' = {sock} /\ misc' = {sock}
      BY <1>6, <2>1 DEF OnSocketOpen, WatchesFor
  <2>6. /\ \A t \in Socket \ {sock} : told'[t] \in {"nothing", "close"}
        /\ \A t \in Socket : t > made => told'[t] = "nothing"
    <3>1. \A t \in Socket : t > made => t # sock
        BY <2>2, SocketIs
    <3> QED
        BY <2>1, <2>3, <2>4, <3>1 DEF WatchesFor
  <2>7. WatchesFor(sock)'
      BY <1>1, <2>1, <2>2, <2>4, <2>5, <2>6 DEF WatchesFor, Told0
  <2>8. Fit'
      BY <1>1, <1>4, <1>5, <2>1, <2>5, <2>7 DEF Fit, WatchesFor, Told0
  <2>9. Due'
      BY <1>1, <1>5, <2>1 DEF Due
  <2> QED
      BY <1>1, <2>1, <2>4, <2>8, <2>9 DEF OneThread
<1> QED
    BY <1>2, <1>7

-----------------------------------------------------------------------------
(* The end of a socket and a new one *)

(* The stack as one or two given steps.                                     *)
LEMMA Two ==
    ASSUME NEW c \in Dos, NEW a \in Args, NEW d \in Dos, NEW b \in Args
    PROVE  LET s == Step(c, a) \o Step(d, b)
           IN  /\ s \in Seq(Steps) /\ s # <<>> /\ Len(s) = 2 /\ DOMAIN s = 1..2
               /\ s[1].do = c /\ s[1].arg = a /\ s[2].do = d /\ s[2].arg = b
<1> DEFINE f == Step(c, a)
           g == Step(d, b)
<1>1. /\ f \in Seq(Steps) /\ Len(f) = 1 /\ f[1].do = c /\ f[1].arg = a
      /\ g \in Seq(Steps) /\ Len(g) = 1 /\ g[1].do = d /\ g[1].arg = b
    BY OneStep
<1> HIDE DEF f, g
<1>2. /\ f \o g \in Seq(Steps) /\ Len(f \o g) = 2 /\ DOMAIN (f \o g) = 1..2
      /\ (f \o g)[1] = f[1] /\ (f \o g)[2] = g[1]
  <2>1. f \in Seq(Steps) /\ g \in Seq(Steps) /\ Len(f) = 1 /\ Len(g) = 1
      BY <1>1
  <2> QED
      BY <2>1, Pair
<1>3. f \o g # <<>>
    BY <1>2
<1> QED
    BY <1>1, <1>2, <1>3 DEF f, g

LEMMA SockCloseFits ==
    ASSUME LoopInv, SockClose
    PROVE  StackOK' /\ (~threaded' => OneThread')
<1> USE DEF watches
<1>1. /\ StackOK /\ stack # <<>> /\ Do(1) = "close" /\ sock' = 0
      /\ UNCHANGED <<made, registered, outq, readers, writers, misc, told, pub, threaded>>
    BY HeadIs DEF LoopInv, SockClose, Running, Do
<1>2. CASE sock = 0
  <2>1. Then(<<>>) /\ Leaves /\ outq' = outq /\ Running("close")
      BY <1>1, <1>2 DEF SockClose, Leaves
  <2> QED
      BY <1>2, <2>1, GoesOn DEF Later
<1>3. CASE sock # 0
  <2> DEFINE s == CloseSteps(sock)
             t == stack
             u == stack'
  <2>1. sock \in 1..made /\ sock \in Args /\ made \in Nat
    <3>1. made \in Nat /\ sock \in 0..made
        BY ExternalLoopAssumption DEF LoopInv, TypeOK
    <3>2. sock \in 1..made /\ sock \in Nat
        BY <1>3, <3>1
    <3> QED
        BY <3>1, <3>2 DEF Args
  <2>2. /\ s \in Seq(Steps) /\ Len(s) = 2 /\ DOMAIN s = 1..2
        /\ s[1].do = "unregister" /\ s[1].arg = sock
        /\ s[2].do = "on_socket_close" /\ s[2].arg = sock
    <3>1. "unregister" \in Dos /\ "on_socket_close" \in Dos
        BY DEF Dos, Callbacks
    <3> QED
        BY <2>1, <3>1, Two DEF CloseSteps
  <2>3. u = s \o Tail(t)
      BY <1>3 DEF SockClose, Then
  <2> HIDE DEF s
  <2>4. /\ u \in Seq(Steps) /\ Len(t) \in Nat \ {0} /\ DOMAIN t = 1..Len(t)
        /\ Len(u) = Len(t) + 1 /\ DOMAIN u = 1..Len(t) + 1
        /\ u[1] = s[1] /\ u[2] = s[2]
        /\ \A k \in 2..Len(t) : u[k + 1] = t[k]
    <3>1. t \in Seq(Steps) /\ t # <<>>
        BY <1>1 DEF StackOK
    <3> HIDE DEF u
    <3>2. /\ u \in Seq(Steps) /\ Len(t) \in Nat \ {0} /\ DOMAIN t = 1..Len(t)
          /\ Len(u) = Len(s) + Len(t) - 1 /\ DOMAIN u = 1..Len(s) + Len(t) - 1
          /\ \A k \in 1..Len(s) : u[k] = s[k]
          /\ \A k \in 2..Len(t) : u[Len(s) + k - 1] = t[k]
      <4>1. s \in Seq(Steps)
          BY <2>2
      <4> QED
          BY <2>3, <3>1, <4>1, Replaced
    <3>3. \A k \in 2..Len(t) : Len(s) + k - 1 = k + 1
        BY <2>2
    <3>4. Len(s) + Len(t) - 1 = Len(t) + 1 /\ 1 \in 1..Len(s) /\ 2 \in 1..Len(s)
        BY <2>2, <3>2
    <3> QED
        BY <3>2, <3>3, <3>4
  <2> HIDE DEF u
  <2>5. \A j \in DOMAIN u : j = 1 \/ j = 2 \/ (j - 1 \in 2..Len(t) /\ u[j] = t[j - 1])
    <3> SUFFICES ASSUME NEW j \in DOMAIN u, j # 1, j # 2
                 PROVE  j - 1 \in 2..Len(t) /\ u[j] = t[j - 1]
        OBVIOUS
    <3>1. j - 1 \in 2..Len(t) /\ (j - 1) + 1 = j
        BY <2>4
    <3> QED
        BY <2>4, <3>1
  <2>6. \A k \in 2..Len(t) : t[k].do \in Later \cup {"clear"}
      BY <1>1, TailIs DEF Do
  <2>7. \A j \in DOMAIN u : j # 1 /\ j # 2 => u[j].do \in Later \cup {"clear"}
      BY <2>5, <2>6
  <2>8. \A j \in DOMAIN u : u[j].do = "clear" => j = Len(u) /\ made < MaxSockets
    <3> SUFFICES ASSUME NEW j \in DOMAIN u, u[j].do = "clear"
                 PROVE  j = Len(u) /\ made < MaxSockets
        OBVIOUS
    <3>1. j - 1 \in DOMAIN t /\ t[j - 1].do = "clear"
        BY <2>2, <2>4, <2>5
    <3>2. j - 1 = Len(t) /\ made < MaxSockets
        BY <1>1, <3>1 DEF StackOK, Reconnecting, Do
    <3> QED
        BY <2>4, <3>2
  <2>9. \A j \in DOMAIN u : u[j].do = "flush" => \E i \in j + 1..Len(u) : u[i].do = "finally"
    <3> SUFFICES ASSUME NEW j \in DOMAIN u, u[j].do = "flush"
                 PROVE  \E i \in j + 1..Len(u) : u[i].do = "finally"
        OBVIOUS
    <3>1. j - 1 \in 2..Len(t) /\ t[j - 1].do = "flush"
        BY <2>2, <2>4, <2>5
    <3>2. PICK i \in (j - 1) + 1..Len(t) : t[i].do = "finally"
        BY <1>1, <2>4, <3>1 DEF StackOK, FlushEnds, Do
    <3>3. i \in 2..Len(t) /\ i + 1 \in j + 1..Len(u)
        BY <2>4, <3>1
    <3>4. u[i + 1] = t[i]
        BY <2>4, <3>3
    <3> QED
        BY <3>2, <3>3, <3>4
  <2>10. StackOK'
    <3>1. StepsOK'
        BY <1>1, <2>1, <2>2, <2>4, <2>7 DEF StepsOK, Do, u, Callbacks, Later
    <3>2. TailOK'
      <4>1. \A k \in 2..Len(u) : k \in DOMAIN u /\ k # 1
          BY <2>4
      <4>2. \A k \in 2..Len(u) : u[k].do \in Later \cup {"on_socket_close", "greet", "clear"}
          BY <2>2, <2>4, <2>7, <4>1
      <4>3. \A k \in 2..Len(u) : u[k].do = "on_socket_close" => k = 2
          BY <2>7, <4>1 DEF Later
      <4>4. \A k \in 2..Len(u) : u[k].do # "greet"
          BY <2>2, <2>4, <2>7, <4>1 DEF Later
      <4> QED
          BY <1>1, <2>2, <2>4, <4>2, <4>3, <4>4 DEF TailOK, Do, u
    <3>3. Reconnecting'
      <4>1. \A k \in DOMAIN u : u[k].do \notin {"create", "fresh", "on_socket_open"}
          BY <2>2, <2>4, <2>7 DEF Later
      <4> QED
          BY <1>1, <2>8, <4>1 DEF Reconnecting, Do, u
    <3>4. FlushEnds'
        BY <2>9 DEF FlushEnds, Do, u
    <3> QED
        BY <2>4, <3>1, <3>2, <3>3, <3>4 DEF StackOK, u
  <2>11. /\ u # <<>> /\ Len(u) > 1 /\ u[1].do = "unregister" /\ u[1].arg = sock
         /\ u[2].do = "on_socket_close" /\ u[2].arg = sock
      BY <2>2, <2>4
  <2>12. Is("unregister")' /\ \A d : d # "unregister" => ~Is(d)'
      BY <2>11 DEF Is, Do, u
  <2>13. Known' = sock /\ Known = sock
    <3>1. Known = sock
        BY <1>1, KnownIs DEF Later
    <3> QED
        BY <2>11, <2>12, <3>1 DEF Known, Do, u
  <2>14. ASSUME ~threaded' PROVE OneThread'
    <3>1. OneThread /\ WatchesFor(sock) /\ (registered <=> writers # {})
      <4>1. ~Is("on_socket_register_write") /\ ~Is("on_socket_unregister_write")
          BY <1>1 DEF Is
      <4> QED
          BY <1>1, <2>13, <2>14, <4>1 DEF LoopInv, OneThread, Fit
    <3>2. Fit'
        BY <1>1, <2>11, <2>12, <2>13, <3>1 DEF Fit, WatchesFor, Told0, u
    <3>3. Due'
        BY <1>1, <2>12 DEF Due
    <3> QED
        BY <1>1, <3>1, <3>2, <3>3 DEF OneThread
  <2> QED
      BY <2>10, <2>14
<1> QED
    BY <1>2, <1>3

(* One step on the stack, or none.                                          *)
LEMMA Alone ==
    ASSUME NEW d \in {"create", "fresh"}, stack' = Step(d, 0),
           d = "create" => made' < MaxSockets /\ sock' = 0,
           d = "fresh" => sock' = made' /\ made' # 0
    PROVE  StackOK' /\ Is(d)' /\ Len(stack') = 1 /\ \A e : e # d => ~Is(e)'
<1>1. /\ stack' \in Seq(Steps) /\ Len(stack') = 1 /\ DOMAIN stack' = {1} /\ stack'[1].do = d
    BY OneStep DEF Dos, Args
<1>2. 2..Len(stack') = {} /\ stack' # <<>>
    BY <1>1
<1>3. Is(d)' /\ \A e : e # d => ~Is(e)'
    BY <1>1, <1>2 DEF Is, Do
<1> QED
    BY <1>1, <1>2, <1>3 DEF StackOK, StepsOK, TailOK, Reconnecting, FlushEnds, Do, Callbacks

LEMMA Nothing ==
    ASSUME stack' = <<>>
    PROVE  StackOK' /\ Len(stack') = 0 /\ DOMAIN stack' = {} /\ \A e : ~Is(e)'
<1>1. /\ stack' \in Seq(Steps) /\ Len(stack') = 0 /\ DOMAIN stack' = {} /\ 2..Len(stack') = {}
    OBVIOUS
<1> QED
    BY <1>1 DEF StackOK, StepsOK, TailOK, Reconnecting, FlushEnds, Is

LEMMA ClearFits ==
    ASSUME LoopInv, Clear
    PROVE  StackOK' /\ (~threaded' => OneThread')
<1> USE DEF watches
<1>1. /\ StackOK /\ stack # <<>> /\ Do(1) = "clear" /\ outq' = <<>>
      /\ UNCHANGED <<sock, made, registered, readers, writers, misc, told, pub, threaded>>
    BY HeadIs DEF LoopInv, Clear, Running, Do
<1>2. Len(stack) = 1 /\ made < MaxSockets /\ sock = 0
    BY <1>1, HeadIs DEF StackOK, Reconnecting
<1>3. stack' = Step("create", 0)
  <2> DEFINE f == Step("create", 0)
  <2>1. f \in Seq(Steps)
      BY OneStep DEF Dos, Args
  <2>2. stack' = f \o Tail(stack)
      BY DEF Clear, Then
  <2> HIDE DEF f
  <2>3. Tail(stack) = <<>>
      BY <1>1, <1>2, TailOfOne DEF StackOK
  <2>4. f \o <<>> = f
      BY <2>1
  <2> QED
      BY <2>2, <2>3, <2>4 DEF f
<1>4. StackOK' /\ Is("create")' /\ Len(stack') = 1 /\ \A e : e # "create" => ~Is(e)'
    BY <1>1, <1>2, <1>3, Alone
<1>5. Known = sock /\ Known' = sock'
  <2>1. Known = sock
      BY <1>1, KnownIs
  <2> QED
      BY <1>4, <2>1 DEF Known
<1>6. ASSUME ~threaded' PROVE OneThread'
  <2>1. OneThread /\ WatchesFor(sock) /\ (registered <=> writers # {})
    <3>1. ~Is("on_socket_register_write") /\ ~Is("on_socket_unregister_write")
        BY <1>1 DEF Is
    <3> QED
        BY <1>1, <1>5, <1>6, <3>1 DEF LoopInv, OneThread, Fit
  <2>2. Fit'
      BY <1>1, <1>4, <1>5, <2>1 DEF Fit, WatchesFor, Told0
  <2>3. Due'
      BY <1>1, <1>2, <1>4 DEF Due
  <2> QED
      BY <1>1, <2>1, <2>2, <2>3 DEF OneThread
<1> QED
    BY <1>4, <1>6

LEMMA CreateSocketFits ==
    ASSUME LoopInv, CreateSocket
    PROVE  StackOK' /\ (~threaded' => OneThread')
<1> USE DEF watches
<1>1. /\ StackOK /\ stack # <<>> /\ Do(1) = "create" /\ made' = made + 1 /\ made \in Nat
      /\ UNCHANGED <<registered, outq, readers, writers, misc, told, pub, threaded>>
    BY HeadIs, ExternalLoopAssumption DEF LoopInv, CreateSocket, Running, Do, TypeOK
<1>2. Len(stack) = 1 /\ made < MaxSockets /\ sock = 0
    BY <1>1, HeadIs DEF StackOK, Reconnecting
<1>3. Known = sock /\ Is("create")
  <2>1. Known = sock
      BY <1>1, KnownIs
  <2> QED
      BY <1>1, <2>1 DEF Is
<1>4. ASSUME ~threaded'
      PROVE  /\ OneThread /\ WatchesFor(0) /\ writers = {} /\ ~registered /\ outq = <<>>
             /\ \A t \in Socket : t > made' => told[t] = "nothing"
             /\ told[made + 1] = "nothing"
  <2>1. ~Is("on_socket_register_write") /\ ~Is("on_socket_unregister_write")
      BY <1>1 DEF Is
  <2>2. /\ OneThread /\ WatchesFor(0) /\ writers = {} /\ ~registered /\ outq = <<>>
      BY <1>1, <1>2, <1>3, <1>4, <2>1 DEF LoopInv, OneThread, Fit, WatchesFor
  <2>3. \A t \in Socket : t > made => told[t] = "nothing"
      BY <2>2 DEF WatchesFor
  <2>4. made + 1 \in Socket /\ made + 1 > made /\ \A t \in Socket : t > made' => t > made
      BY <1>1, <1>2, ExternalLoopAssumption DEF Socket
  <2> QED
      BY <2>2, <2>3, <2>4
<1>5. CASE stack' = <<>> /\ sock' = sock
  <2>1. StackOK' /\ Len(stack') = 0 /\ \A e : ~Is(e)'
      BY <1>5, Nothing
  <2>2. Known' = 0
      BY <1>2, <1>5, <2>1 DEF Known
  <2>3. ASSUME ~threaded' PROVE OneThread'
    <3>1. Fit'
        BY <1>1, <1>2, <1>4, <1>5, <2>1, <2>2, <2>3 DEF Fit, WatchesFor, Told0
    <3>2. Due'
        BY <1>2, <1>5, <2>1 DEF Due
    <3> QED
        BY <1>1, <1>4, <2>3, <3>1, <3>2 DEF OneThread
  <2> QED
      BY <2>1, <2>3
<1>6. CASE sock' = made + 1 /\ Then(Step("fresh", 0))
  <2>1. stack' = Step("fresh", 0)
    <3> DEFINE f == Step("fresh", 0)
    <3>1. f \in Seq(Steps)
        BY OneStep DEF Dos, Args
    <3>2. stack' = f \o Tail(stack)
        BY <1>6 DEF Then
    <3> HIDE DEF f
    <3>3. Tail(stack) = <<>>
        BY <1>1, <1>2, TailOfOne DEF StackOK
    <3>4. f \o <<>> = f
        BY <3>1
    <3> QED
        BY <3>2, <3>3, <3>4 DEF f
  <2>2. sock' = made' /\ made' # 0
      BY <1>1, <1>6
  <2>3. StackOK' /\ Is("fresh")' /\ Len(stack') = 1 /\ \A e : e # "fresh" => ~Is(e)'
      BY <2>1, <2>2, Alone
  <2>4. Known' = 0
      BY <2>3 DEF Known
  <2>5. ASSUME ~threaded' PROVE OneThread'
    <3>1. Fit'
        BY <1>1, <1>2, <1>4, <1>6, <2>3, <2>4, <2>5 DEF Fit, WatchesFor, Told0
    <3>2. Due'
        BY <1>1, <1>4, <2>3, <2>5 DEF Due
    <3> QED
        BY <1>1, <1>4, <2>5, <3>1, <3>2 DEF OneThread
  <2> QED
      BY <2>3, <2>5
<1> QED
    BY <1>5, <1>6 DEF CreateSocket

LEMMA FreshFits ==
    ASSUME LoopInv, Fresh
    PROVE  StackOK' /\ (~threaded' => OneThread')
<1> USE DEF watches
<1>1. /\ StackOK /\ stack # <<>> /\ Do(1) = "fresh" /\ ~registered'
      /\ UNCHANGED <<sock, made, outq, readers, writers, misc, told, pub, threaded>>
    BY HeadIs DEF LoopInv, Fresh, Running, Do
<1>2. Len(stack) = 1 /\ sock = made /\ made # 0
    BY <1>1, HeadIs DEF StackOK, Reconnecting
<1>3. made \in Nat /\ sock \in 1..made /\ sock \in Args
  <2>1. made \in Nat
      BY ExternalLoopAssumption DEF LoopInv, TypeOK
  <2>2. sock \in 1..made /\ sock \in Nat
      BY <1>2, <2>1
  <2> QED
      BY <2>1, <2>2 DEF Args
<1> DEFINE s == Step("on_socket_open", sock) \o Step("greet", 0)
           u == stack'
<1>4. /\ s \in Seq(Steps) /\ s # <<>> /\ Len(s) = 2 /\ DOMAIN s = 1..2
      /\ s[1].do = "on_socket_open" /\ s[1].arg = sock /\ s[2].do = "greet"
  <2>1. "on_socket_open" \in Dos /\ "greet" \in Dos /\ 0 \in Args
      BY DEF Dos, Callbacks, Args
  <2> QED
      BY <1>3, <2>1, Two, SMTT(30)
<1>5. u = s
  <2>1. u = s \o Tail(stack)
      BY DEF Fresh, Then
  <2>2. Tail(stack) = <<>>
      BY <1>1, <1>2, TailOfOne DEF StackOK
  <2> HIDE DEF s
  <2>3. s \o <<>> = s
      BY <1>4
  <2> QED
      BY <2>1, <2>2, <2>3
<1> HIDE DEF s, u
<1>6. \A k \in 2..Len(u) : k = 2
  <2>1. Len(u) = 2
      BY <1>4, <1>5
  <2> QED
      BY <2>1
<1>7. StackOK'
  <2>1. StepsOK'
      BY <1>1, <1>3, <1>4, <1>5 DEF StepsOK, Do, u, Callbacks
  <2>2. TailOK'
      BY <1>4, <1>5, <1>6 DEF TailOK, Do, u
  <2>3. Reconnecting'
      BY <1>1, <1>4, <1>5 DEF Reconnecting, Do, u
  <2>4. FlushEnds'
      BY <1>4, <1>5 DEF FlushEnds, Do, u
  <2> QED
      BY <1>4, <1>5, <2>1, <2>2, <2>3, <2>4 DEF StackOK, u
<1>8. Is("on_socket_open")' /\ \A e : e # "on_socket_open" => ~Is(e)'
    BY <1>4, <1>5 DEF Is, Do, u
<1>9. Known = 0 /\ Known' = 0
  <2>1. ~(Len(stack) > 1) /\ Is("fresh") /\ ~Is("on_socket_close")
      BY <1>1, <1>2 DEF Is
  <2>2. stack'[2].do = "greet"
      BY <1>4, <1>5 DEF u
  <2> QED
      BY <1>8, <2>1, <2>2 DEF Known, Do
<1>10. ASSUME ~threaded' PROVE OneThread'
  <2>1. /\ OneThread /\ WatchesFor(0) /\ writers = {} /\ outq = <<>> /\ told[sock] = "nothing"
    <3>1. Is("fresh")
        BY <1>1 DEF Is
    <3> QED
        BY <1>1, <1>9, <1>10, <3>1 DEF LoopInv, OneThread, Fit, WatchesFor
  <2>2. Fit'
      BY <1>1, <1>8, <1>9, <2>1 DEF Fit, WatchesFor, Told0
  <2>3. Due'
      BY <1>1, <1>8, <2>1 DEF Due
  <2> QED
      BY <1>1, <2>1, <2>2, <2>3 DEF OneThread
<1> QED
    BY <1>7, <1>10

-----------------------------------------------------------------------------
(* The event loop or the application calls *)

LEMMA IdleIs ==
    ASSUME LoopInv, Idle
    PROVE  /\ Known = sock /\ \A d : ~Is(d)
           /\ ~threaded =>
                 /\ OneThread /\ WatchesFor(sock)
                 /\ registered <=> writers # {}
                 /\ sock # 0 => (outq # <<>> <=> registered)
<1>1. \A d : ~Is(d)
    BY DEF Is, Idle
<1>2. Known = sock
    BY KnownIs DEF LoopInv, Idle
<1>3. DOMAIN stack = {}
    BY DEF Idle
<1> QED
    BY <1>1, <1>2, <1>3 DEF LoopInv, OneThread, Fit, Due, TypeOK

(* A call begins: what it does first may queue a packet.                    *)
LEMMA Begins ==
    ASSUME LoopInv, Idle, Leaves, NEW s, stack' = s, Push(s), Safe(s),
           \/ s[1].do \in Later /\ outq' = outq
           \/ s[1].do = "register" /\ outq' # <<>>
    PROVE  StackOK' /\ (~threaded' => OneThread')
<1> DEFINE u == stack'
<1>1. /\ u \in Seq(Steps) /\ u # <<>> /\ \A k \in 2..Len(u) : u[k].do \in Later
      /\ u[1].do \in Later \cup {"register"}
      /\ u[1] = s[1]
    BY DEF Push
<1>2. /\ \A j \in DOMAIN u : u[j].do = "flush" => \E i \in j + 1..Len(u) : u[i].do = "finally"
    BY DEF Safe
<1> HIDE DEF u
<1>3. DOMAIN u = 1..Len(u) /\ Len(u) \in Nat \ {0}
    BY <1>1
<1>4. \A k \in DOMAIN u : u[k].do \in Later \cup {"register"}
  <2>1. \A k \in DOMAIN u : k = 1 \/ k \in 2..Len(u)
      BY <1>3
  <2> QED
      BY <1>1, <2>1
<1>5. StackOK'
  <2>1. StepsOK'
      BY <1>4 DEF StepsOK, Do, u, Callbacks, Later
  <2>2. TailOK'
      BY <1>1 DEF TailOK, Do, u, Later
  <2>3. Reconnecting'
      BY <1>4 DEF Reconnecting, Do, u, Later
  <2>4. FlushEnds'
      BY <1>2 DEF FlushEnds, Do, u
  <2> QED
      BY <1>1, <2>1, <2>2, <2>3, <2>4 DEF StackOK, u
<1>6. \A d : Is(d)' => d \in Later \cup {"register"} /\ d = s[1].do
    BY <1>1 DEF Is, Do, u
<1>7. Known' = sock'
  <2>1. ~(Len(u) > 1 /\ u[2].do = "on_socket_close")
    <3>1. Len(u) > 1 => 2 \in 2..Len(u)
        BY <1>3
    <3> QED
        BY <1>1, <3>1 DEF Later
  <2> QED
      BY <1>6, <2>1 DEF Known, Do, u, Later
<1>8. ASSUME ~threaded' PROVE OneThread'
  <2>1. /\ Known = sock /\ OneThread /\ WatchesFor(sock) /\ (registered <=> writers # {})
        /\ sock # 0 => (outq # <<>> <=> registered)
      BY <1>8, IdleIs DEF Leaves
  <2>2. Fit'
      BY <1>6, <1>7, <2>1 DEF Fit, WatchesFor, Told0, Leaves, Later
  <2>3. Due'
    <3>1. CASE s[1].do = "register" /\ outq' # <<>>
      <4>1. Is("register")'
          BY <1>1, <3>1 DEF Is, Do, u
      <4> QED
          BY <1>6, <3>1, <4>1 DEF Due, Later
    <3>2. CASE s[1].do \in Later /\ outq' = outq
        BY <1>6, <2>1, <3>2 DEF Due, Later, Leaves
    <3> QED
        BY <3>1, <3>2
  <2> QED
      BY <2>1, <2>2, <2>3 DEF OneThread, Leaves
<1> QED
    BY <1>5, <1>8

(* Nothing that matters has changed.                                        *)
LEMMA Still ==
    ASSUME LoopInv, Leaves, outq' = outq \/ sock = 0, stack' = stack, Idle \/ outq' = outq
    PROVE  StackOK' /\ (~threaded' => OneThread')
<1>1. StackOK'
    BY DEF LoopInv, Leaves, StackOK, StepsOK, TailOK, Reconnecting, FlushEnds, Do
<1>2. Known' = Known /\ \A d : Is(d)' <=> Is(d)
    BY DEF Known, Is, Do, Leaves
<1>3. ASSUME ~threaded' PROVE OneThread'
  <2>1. OneThread
      BY <1>3 DEF LoopInv, Leaves
  <2>2. Idle => \A d : ~Is(d)
      BY DEF Idle, Is
  <2>3. Fit'
      BY <1>2, <2>1, <2>2 DEF OneThread, Fit, WatchesFor, Told0, Leaves
  <2>4. Due'
      BY <1>2, <2>1, <2>2 DEF OneThread, Due, Leaves, Do
  <2> QED
      BY <2>1, <2>3, <2>4 DEF OneThread, Leaves
<1> QED
    BY <1>1, <1>3

LEMMA ApplicationFits ==
    ASSUME LoopInv, Application
    PROVE  StackOK' /\ (~threaded' => OneThread')
<1> USE DEF watches
<1>1. Idle /\ Leaves
    BY DEF Application, Leaves
<1>2. CASE /\ outq' \in {Append(outq, "PUBLISH"), Append(outq, "DISCONNECT")}
           /\ stack' = Step("register", 0)
  <2>1. outq' # <<>>
      BY <1>2, Queued DEF LoopInv
  <2> QED
      BY <1>1, <1>2, <2>1, RegisterIs, Begins
<1>3. CASE outq' = outq /\ stack' = stack
    BY <1>1, <1>3, Still
<1> QED
    BY <1>2, <1>3 DEF Application

LEMMA EventsFit ==
    ASSUME LoopInv, Writable \/ Readable \/ Misc
    PROVE  StackOK' /\ (~threaded' => OneThread')
<1> USE DEF watches
<1>1. Idle /\ Leaves
    BY DEF Writable, Readable, Misc, Leaves, client
<1>2. CASE Writable
  <2>1. outq' = outq
      BY <1>2 DEF Writable, client
  <2>2. CASE sock = 0
      BY <1>1, <1>2, <2>1, <2>2, Still DEF Writable, Idle
  <2>3. CASE sock # 0
    <3>1. stack' = LoopWrite
        BY <1>2, <2>3 DEF Writable
    <3> QED
        BY <1>1, <2>1, <3>1, LoopWriteIs, Begins DEF Later
  <2> QED
      BY <2>2, <2>3
<1>3. CASE Readable
  <2>1. outq' = outq /\ stack' = Step("read", 0)
      BY <1>3 DEF Readable, client
  <2> QED
      BY <1>1, <2>1, LaterSteps, Begins DEF Later
<1>4. CASE Misc
  <2>1. CASE outq' = Append(outq, "PINGREQ") /\ stack' = Step("register", 0)
    <3>1. outq' # <<>>
        BY <2>1, Queued DEF LoopInv
    <3> QED
        BY <1>1, <2>1, <3>1, RegisterIs, Begins
  <2>2. ASSUME NEW s \in {Ending("keepalive"), Ending("no PINGRESP"),
                          Ending("keepalive") \o Ending("no PINGRESP")},
               stack' = s, outq' = outq
        PROVE  StackOK' /\ (~threaded' => OneThread')
    <3>1. /\ Push(Ending("keepalive")) /\ Safe(Ending("keepalive"))
          /\ Ending("keepalive")[1].do = "close"
          /\ Push(Ending("no PINGRESP")) /\ Safe(Ending("no PINGRESP"))
          /\ Ending("no PINGRESP")[1].do = "close"
        BY EndingIs DEF Args
    <3>2. LET t == Ending("keepalive") \o Ending("no PINGRESP")
          IN  Push(t) /\ Safe(t) /\ t[1].do = "close"
        BY <3>1, MoreSteps DEF Later
    <3>3. Push(s) /\ Safe(s) /\ s[1].do \in Later
        BY <2>2, <3>1, <3>2 DEF Later
    <3> QED
        BY <1>1, <2>2, <3>3, Begins
  <2> QED
      BY <1>4, <2>1, <2>2 DEF Misc
<1> QED
    BY <1>2, <1>3, <1>4

LEMMA ReconnectFits ==
    ASSUME LoopInv, Reconnect
    PROVE  StackOK' /\ (~threaded' => OneThread')
<1> USE DEF watches
<1>1. Idle /\ Leaves /\ outq' = outq /\ made < MaxSockets
    BY DEF Reconnect, Leaves
<1> DEFINE s == Step("close", 0) \o Step("clear", 0)
           u == stack'
<1>2. /\ s \in Seq(Steps) /\ s # <<>> /\ Len(s) = 2 /\ DOMAIN s = 1..2
      /\ s[1].do = "close" /\ s[2].do = "clear"
  <2>1. "close" \in Dos /\ "clear" \in Dos /\ 0 \in Args
      BY DEF Dos, Later, Args
  <2> QED
      BY <2>1, Two
<1>3. u = s
    BY DEF Reconnect
<1> HIDE DEF s, u
<1>4. Len(u) = 2 /\ DOMAIN u = 1..2 /\ u[1].do = "close" /\ u[2].do = "clear" /\ u # <<>>
      /\ u \in Seq(Steps)
    BY <1>2, <1>3
<1>5. \A k \in 2..Len(u) : k = 2
    BY <1>4
<1>6. StackOK'
  <2>1. StepsOK'
      BY <1>4 DEF StepsOK, Do, u, Callbacks
  <2>2. TailOK'
      BY <1>4, <1>5 DEF TailOK, Do, u
  <2>3. Reconnecting'
      BY <1>1, <1>4 DEF Reconnecting, Do, u, Leaves
  <2>4. FlushEnds'
      BY <1>4 DEF FlushEnds, Do, u
  <2> QED
      BY <1>4, <2>1, <2>2, <2>3, <2>4 DEF StackOK, u
<1>7. \A d : Is(d)' => d = "close"
    BY <1>4 DEF Is, Do, u
<1>8. Known' = sock'
    BY <1>4, <1>7 DEF Known, Do, u
<1>9. ASSUME ~threaded' PROVE OneThread'
  <2>1. /\ Known = sock /\ OneThread /\ WatchesFor(sock) /\ (registered <=> writers # {})
        /\ sock # 0 => (outq # <<>> <=> registered)
      BY <1>1, <1>9, IdleIs DEF Leaves
  <2>2. Fit'
      BY <1>1, <1>7, <1>8, <2>1 DEF Fit, WatchesFor, Told0, Leaves
  <2>3. Due'
      BY <1>1, <1>7, <2>1 DEF Due, Leaves
  <2> QED
      BY <1>1, <2>1, <2>2, <2>3 DEF OneThread, Leaves
<1> QED
    BY <1>6, <1>9

(* The second thread leaves the stack alone.                                *)
LEMMA ThreadFits ==
    ASSUME LoopInv, Thread
    PROVE  StackOK' /\ (~threaded' => OneThread')
<1> USE DEF Thread, ThreadCalls, ThreadAppends, ThreadTests, ThreadSets, ThreadRegisters, client
<1>1. stack' = stack /\ sock' = sock /\ made' = made /\ threaded' = threaded
    OBVIOUS
<1>2. StackOK'
    BY <1>1 DEF LoopInv, StackOK, StepsOK, TailOK, Reconnecting, FlushEnds, Do
<1>3. pub # "idle" \/ threaded
    OBVIOUS
<1>4. ~threaded => pub = "idle"
    BY DEF LoopInv, OneThread
<1> QED
    BY <1>1, <1>2, <1>3, <1>4

-----------------------------------------------------------------------------
(* Types *)

Packets == {"CONNECT", "PUBLISH", "PINGREQ", "DISCONNECT"}

LEMMA QueueTypes ==
    ASSUME TypeOK
    PROVE  /\ \A p \in Packets : Append(outq, p) \in Seq(Packets)
           /\ outq # <<>> => Tail(outq) \in Seq(Packets) /\ Head(outq) \in Packets
           /\ <<>> \in Seq(Packets)
<1>1. outq \in Seq(Packets)
    BY DEF TypeOK, Packets
<1> QED
    BY <1>1

LEMMA CallbackTypes ==
    ASSUME LoopInv, Callback
    PROVE  TypeOK'
<1>1. Arg \in 1..made
    BY HeadIs DEF Callback, Running, Arg, LoopInv, StackOK, StepsOK, Callbacks, Do
<1>2. TypeOK /\ UNCHANGED <<client, pub>>
    BY DEF Callback, LoopInv
<1>3. readers' \subseteq 1..made /\ writers' \subseteq 1..made /\ misc' \subseteq 1..made
    BY <1>1, <1>2
    DEF Callback, OnSocketOpen, OnSocketClose, OnSocketRegisterWrite, OnSocketUnregisterWrite,
        TypeOK
<1> QED
    BY <1>2, <1>3 DEF TypeOK, client

LEMMA ThreadTypes ==
    ASSUME LoopInv, Thread
    PROVE  TypeOK'
<1>1. TypeOK
    BY DEF LoopInv
<1>2. CASE ThreadCalls \/ ThreadTests \/ ThreadSets
    BY <1>1, <1>2 DEF ThreadCalls, ThreadTests, ThreadSets, Publish, TypeOK, client, watches
<1>3. CASE ThreadAppends
  <2>1. outq' \in Seq(Packets)
      BY <1>1, <1>3, QueueTypes DEF ThreadAppends, Packets
  <2> QED
      BY <1>1, <1>3, <2>1 DEF ThreadAppends, TypeOK, watches, Packets
<1>4. CASE ThreadRegisters
  <2>1. made \in Nat
      BY <1>1, ExternalLoopAssumption DEF TypeOK
  <2>2. readers' \subseteq 1..made /\ writers' \subseteq 1..made /\ misc' \subseteq 1..made
    <3>1. CASE sock = 0
        BY <1>1, <1>4, <3>1 DEF ThreadRegisters, watches, TypeOK
    <3>2. CASE sock # 0
      <4>1. sock \in 1..made
          BY <1>1, <2>1, <3>2 DEF TypeOK
      <4> QED
          BY <1>1, <1>4, <3>2, <4>1 DEF ThreadRegisters, OnSocketRegisterWrite, TypeOK
    <3> QED
        BY <3>1, <3>2
  <2> QED
      BY <1>1, <1>4, <2>2 DEF ThreadRegisters, TypeOK, client
<1> QED
    BY <1>2, <1>3, <1>4 DEF Thread

LEMMA CreateTypes ==
    ASSUME LoopInv, CreateSocket
    PROVE  TypeOK'
<1>1. TypeOK
    BY DEF LoopInv
<1>2. made < MaxSockets /\ made \in Nat
    BY <1>1, HeadIs, ExternalLoopAssumption
    DEF LoopInv, CreateSocket, Running, Do, StackOK, Reconnecting, TypeOK
<1>3. made' = made + 1 /\ made' \in 0..MaxSockets /\ sock' \in 0..made' /\ 1..made \subseteq 1..made'
    BY <1>1, <1>2, ExternalLoopAssumption DEF CreateSocket, TypeOK
<1>4. readers' \subseteq 1..made' /\ writers' \subseteq 1..made' /\ misc' \subseteq 1..made'
    BY <1>1, <1>3 DEF CreateSocket, watches, TypeOK
<1>5. UNCHANGED <<registered, outq, state, ping, pub>> /\ greeted' \in BOOLEAN
    BY <1>1 DEF CreateSocket, TypeOK
<1> QED
    BY <1>1, <1>3, <1>4, <1>5 DEF TypeOK

LEMMA LoopTypes ==
    ASSUME LoopInv, Next
    PROVE  TypeOK'
<1>1. TypeOK
    BY DEF LoopInv
<1> USE DEF client, watches
<1>2. CASE Application \/ UserCallback
  <2>1. outq' \in Seq(Packets)
      BY <1>1, <1>2, QueueTypes DEF Application, UserCallback, PacketQueue, Packets, TypeOK
  <2>2. state' \in {state, "disconnected", "disconnecting"}
      BY <1>2 DEF Application, UserCallback, Publish, Disconnect
  <2>3. UNCHANGED <<sock, made, registered, ping, greeted, pub, readers, writers, misc>>
      BY <1>2 DEF Application, UserCallback
  <2> QED
      BY <1>1, <2>1, <2>2, <2>3 DEF TypeOK, Packets
<1>3. CASE Reconnect \/ Writable \/ Readable \/ Settle \/ Finally \/ Lost \/ Ended
    BY <1>1, <1>3, ZenonT(40) DEF Reconnect, Writable, Readable, Settle, Finally, Lost, Ended, TypeOK
<1>4. CASE Misc
  <2>1. outq' \in Seq(Packets) /\ ping' \in {"no", "asked", "sent"}
    <3>1. outq \in Seq(Packets) /\ ping \in {"no", "asked", "sent"}
        BY <1>1 DEF TypeOK, Packets
    <3> QED
        BY <1>1, <1>4, <3>1, QueueTypes DEF Misc, Packets
  <2>2. UNCHANGED <<sock, made, registered, state, greeted, pub, readers, writers, misc>>
      BY <1>4 DEF Misc
  <2> QED
      BY <1>1, <2>1, <2>2 DEF TypeOK, Packets
<1>5. CASE CallSocketRegisterWrite \/ CallSocketUnregisterWrite \/ Fresh
    BY <1>1, <1>5 DEF CallSocketRegisterWrite, CallSocketUnregisterWrite, Fresh, TypeOK
<1>6. CASE SockClose
  <2>1. 0 \in 0..made
      BY <1>1, ExternalLoopAssumption DEF TypeOK
  <2> QED
      BY <1>1, <1>6, <2>1 DEF SockClose, TypeOK
<1>7. CASE Clear \/ SendConnect \/ Resume
  <2>1. outq' \in Seq(Packets)
    <3>1. outq \in Seq(Packets)
        BY <1>1 DEF TypeOK, Packets
    <3> QED
        BY <1>1, <1>7, <3>1, QueueTypes DEF Clear, SendConnect, PacketQueue, Resume, Packets
  <2>2. UNCHANGED <<sock, made, registered, state, ping, greeted, pub, readers, writers, misc>>
      BY <1>7 DEF Clear, SendConnect, Resume
  <2> QED
      BY <1>1, <2>1, <2>2 DEF TypeOK, Packets
<1>8. CASE PacketWrite
  <2>1. outq' \in Seq(Packets) /\ greeted' \in BOOLEAN /\ ping' \in {ping, "sent"}
    <3>1. outq \in Seq(Packets) /\ greeted \in BOOLEAN
        BY <1>1 DEF TypeOK, Packets
    <3> QED
        BY <1>1, <1>8, <3>1, QueueTypes DEF PacketWrite
  <2>2. UNCHANGED <<sock, made, registered, state, pub, readers, writers, misc>>
      BY <1>8 DEF PacketWrite
  <2> QED
      BY <1>1, <2>1, <2>2 DEF TypeOK, Packets
<1>9. CASE PacketRead
    BY <1>1, <1>9 DEF PacketRead, TypeOK
<1>10. CASE Callback
    BY <1>10, CallbackTypes
<1>11. CASE CreateSocket
    BY <1>11, CreateTypes
<1>12. CASE Thread
    BY <1>12, ThreadTypes
<1> QED
    BY <1>2, <1>3, <1>4, <1>5, <1>6, <1>7, <1>8, <1>9, <1>10, <1>11, <1>12 DEF Next, Continue

-----------------------------------------------------------------------------
(* The theorems *)

LEMMA LoopInit ==
    ASSUME Init
    PROVE  LoopInv
<1> USE DEF Init
<1>1. stack = <<>> /\ \A d : ~Is(d)
    BY DEF Is
<1>2. StackOK /\ DOMAIN stack = {} /\ Len(stack) = 0
  <2>1. stack \in Seq(Steps) /\ DOMAIN stack = {} /\ Len(stack) = 0 /\ 2..Len(stack) = {}
      OBVIOUS
  <2> QED
      BY <2>1 DEF StackOK, StepsOK, TailOK, Reconnecting, FlushEnds
<1>3. TypeOK
  <2>1. 0 \in 0..MaxSockets /\ 0 \in 0..0
      BY ExternalLoopAssumption
  <2>2. <<>> \in Seq({"CONNECT", "PUBLISH", "PINGREQ", "DISCONNECT"})
      OBVIOUS
  <2> QED
      BY <2>1, <2>2 DEF TypeOK
<1>4. Known = 0
    BY <1>1, <1>2 DEF Known
<1>5. told \in [Socket -> Events]
    BY DEF Events
<1>6. OneThread
    BY <1>1, <1>2, <1>4, <1>5 DEF OneThread, Fit, Due, WatchesFor, Told0
<1> QED
    BY <1>2, <1>3, <1>6 DEF LoopInv

LEMMA LoopStep ==
    ASSUME LoopInv, [Next]_vars
    PROVE  LoopInv'
<1>1. CASE Next
  <2>1. TypeOK'
      BY <1>1, LoopTypes
  <2>2. StackOK' /\ (~threaded' => OneThread')
    <3>1. CASE Callback
        BY <3>1, OnOpenFits, OnCloseFits, OnRegisterFits, OnUnregisterFits DEF Callback
    <3>2. CASE CallSocketRegisterWrite
        BY <3>2, CallRegisterFits
    <3>3. CASE CallSocketUnregisterWrite
        BY <3>3, CallUnregisterFits
    <3>4. CASE SockClose
        BY <3>4, SockCloseFits
    <3>5. CASE UserCallback
        BY <3>5, UserCallbackFits
    <3>6. CASE Clear
        BY <3>6, ClearFits
    <3>7. CASE CreateSocket
        BY <3>7, CreateSocketFits
    <3>8. CASE Fresh
        BY <3>8, FreshFits
    <3>9. CASE SendConnect \/ Settle \/ Ended \/ Lost
        BY <3>9, OtherStepsFit
    <3>10. CASE PacketWrite
        BY <3>10, PacketWriteFits
    <3>11. CASE Finally
        BY <3>11, FinallyFits
    <3>12. CASE PacketRead \/ Resume
        BY <3>12, ReadFits
    <3>13. CASE Application
        BY <3>13, ApplicationFits
    <3>14. CASE Reconnect
        BY <3>14, ReconnectFits
    <3>15. CASE Writable \/ Readable \/ Misc
        BY <3>15, EventsFit
    <3>16. CASE Thread
        BY <3>16, ThreadFits
    <3> QED
        BY <1>1, <3>1, <3>2, <3>3, <3>4, <3>5, <3>6, <3>7, <3>8, <3>9, <3>10, <3>11, <3>12,
           <3>13, <3>14, <3>15, <3>16 DEF Next, Continue
  <2> QED
      BY <2>1, <2>2 DEF LoopInv
<1>2. CASE UNCHANGED vars
  <2>1. Leaves /\ outq' = outq /\ stack' = stack
      BY <1>2 DEF vars, client, watches, Leaves
  <2>2. TypeOK'
      BY <1>2 DEF LoopInv, TypeOK, vars, client, watches
  <2> QED
      BY <2>1, <2>2, Still DEF LoopInv
<1> QED
    BY <1>1, <1>2

(* Between two events the loop watches exactly what the client needs: its   *)
(* socket, for writing while packets are queued, and never a closed one.    *)
THEOREM LoopWatchesWhatIsNeeded == Spec => []WatchesFit
<1>1. LoopInv => WatchesFit
  <2> SUFFICES ASSUME LoopInv, Idle, ~threaded
               PROVE  /\ readers = Open /\ misc = Open
                      /\ writers = IF outq = <<>> THEN {} ELSE Open
      BY DEF WatchesFit, LoopInv
  <2>1. /\ WatchesFor(sock) /\ (registered <=> writers # {})
        /\ sock # 0 => (outq # <<>> <=> registered)
      BY IdleIs
  <2>2. {sock} \ {0} = Open
      BY DEF Open
  <2> QED
      BY <2>1, <2>2 DEF WatchesFor, Open
<1> QED
    BY <1>1, LoopInit, LoopStep, PTL DEF Spec

(* The callbacks about a socket come in the order the README promises.      *)
THEOREM SocketCallbacksInOrder == Spec => []CallbacksInOrder
<1>1. LoopInv => CallbacksInOrder
  <2> SUFFICES ASSUME LoopInv, ~threaded, NEW s \in Socket PROVE told[s] # "disorder"
      BY DEF CallbacksInOrder
  <2>1. WatchesFor(Known)
      BY DEF LoopInv, OneThread, Fit
  <2>2. CASE s = Known
    <3>1. s # 0
        BY DEF Socket
    <3> QED
        BY <2>1, <2>2, <3>1 DEF WatchesFor
  <2>3. CASE s # Known
      BY <2>1, <2>3 DEF WatchesFor, Told0
  <2> QED
      BY <2>2, <2>3
<1> QED
    BY <1>1, LoopInit, LoopStep, PTL DEF Spec
=============================================================================
