--------------------------- MODULE OneShotProofs ---------------------------
(***************************************************************************)
(* Proofs about OneShot: simple() gathers exactly what it was asked for,   *)
(* and multiple() ends as promised, for every list of messages and topics, *)
(* whatever connections are lost or refused.                               *)
(***************************************************************************)
EXTENDS OneShot, WellFoundedInduction, TLAPS

-----------------------------------------------------------------------------
(* Sequences *)

LEMMA EmptyIs ==
    ASSUME NEW S
    PROVE  <<>> \in Seq(S) /\ DOMAIN <<>> = {} /\ Len(<<>>) = 0
OBVIOUS

LEMMA OneIs ==
    ASSUME NEW S, NEW x \in S
    PROVE  /\ <<x>> \in Seq(S) /\ Len(<<x>>) = 1 /\ DOMAIN <<x>> = {1} /\ <<x>>[1] = x
           /\ <<x>> # <<>> /\ Tail(<<x>>) = <<>> /\ Head(<<x>>) = x
OBVIOUS

LEMMA AppendIs ==
    ASSUME NEW S, NEW s \in Seq(S), NEW x \in S
    PROVE  LET t == Append(s, x)
           IN  /\ t \in Seq(S) /\ Len(s) \in Nat /\ Len(t) = Len(s) + 1
               /\ DOMAIN s = 1..Len(s) /\ DOMAIN t = 1..Len(t) /\ t # <<>>
               /\ \A k \in DOMAIN s : k \in DOMAIN t /\ t[k] = s[k]
               /\ Len(t) \in DOMAIN t /\ t[Len(t)] = x
               /\ \A k \in DOMAIN t : (k \in DOMAIN s /\ t[k] = s[k]) \/ (k = Len(t) /\ t[k] = x)
<1> DEFINE t == Append(s, x)
<1>1. /\ t \in Seq(S) /\ Len(s) \in Nat /\ Len(t) = Len(s) + 1
      /\ DOMAIN s = 1..Len(s) /\ DOMAIN t = 1..Len(t)
      /\ \A k \in 1..Len(s) : t[k] = s[k]
      /\ t[Len(s) + 1] = x
    OBVIOUS
<1> HIDE DEF t
<1>2. t # <<>>
    BY <1>1
<1>3. \A k \in DOMAIN t : k \in DOMAIN s \/ k = Len(t)
    BY <1>1
<1> QED
    BY <1>1, <1>2, <1>3 DEF t

LEMMA TailIs ==
    ASSUME NEW S, NEW s \in Seq(S), s # <<>>
    PROVE  LET t == Tail(s)
           IN  /\ t \in Seq(S) /\ Len(s) \in Nat \ {0} /\ Len(t) = Len(s) - 1
               /\ DOMAIN s = 1..Len(s) /\ DOMAIN t = 1..Len(t) /\ 1 \in DOMAIN s
               /\ Head(s) = s[1] /\ s[1] \in S
               /\ \A k \in DOMAIN t : k + 1 \in DOMAIN s /\ k + 1 > 1 /\ t[k] = s[k + 1]
               /\ \A k \in DOMAIN s : k = 1 \/ (k - 1 \in DOMAIN t /\ t[k - 1] = s[k])
<1> DEFINE t == Tail(s)
<1>1. /\ t \in Seq(S) /\ Len(s) \in Nat \ {0} /\ Len(t) = Len(s) - 1
      /\ DOMAIN s = 1..Len(s) /\ DOMAIN t = 1..Len(t) /\ Head(s) = s[1]
      /\ \A k \in 1..Len(s) - 1 : t[k] = s[k + 1]
    OBVIOUS
<1> HIDE DEF t
<1>2. s[1] \in S /\ 1 \in DOMAIN s
    BY <1>1
<1>3. \A k \in DOMAIN t : k + 1 \in DOMAIN s /\ k + 1 > 1 /\ t[k] = s[k + 1]
    BY <1>1
<1>4. ASSUME NEW k \in DOMAIN s, k # 1
      PROVE  k - 1 \in DOMAIN t /\ t[k - 1] = s[k]
  <2>1. k - 1 \in 1..Len(s) - 1 /\ (k - 1) + 1 = k
      BY <1>1, <1>4
  <2> QED
      BY <1>1, <2>1
<1> QED
    BY <1>1, <1>2, <1>3, <1>4 DEF t

LEMMA ToSetIs ==
    ASSUME NEW S, NEW s \in Seq(S)
    PROVE  /\ ToSet(s) \subseteq S
           /\ \A x : x \in ToSet(s) <=> \E k \in DOMAIN s : s[k] = x
           /\ s = <<>> <=> ToSet(s) = {}
           /\ \A x \in S : ToSet(Append(s, x)) = ToSet(s) \cup {x}
           /\ s # <<>> => ToSet(s) = {Head(s)} \cup ToSet(Tail(s))
           /\ Len(s) = 1 => s = <<Head(s)>>
<1>1. ToSet(s) \subseteq S /\ \A x : x \in ToSet(s) <=> \E k \in DOMAIN s : s[k] = x
    BY DEF ToSet
<1>2. s = <<>> <=> ToSet(s) = {}
  <2>1. s # <<>> => 1 \in DOMAIN s
      OBVIOUS
  <2>2. s = <<>> => DOMAIN s = {}
      OBVIOUS
  <2> QED
      BY <1>1, <2>1, <2>2
<1>3. ASSUME NEW x \in S PROVE ToSet(Append(s, x)) = ToSet(s) \cup {x}
  <2> DEFINE t == Append(s, x)
  <2>1. /\ \A k \in DOMAIN s : k \in DOMAIN t /\ t[k] = s[k]
        /\ Len(t) \in DOMAIN t /\ t[Len(t)] = x
        /\ \A k \in DOMAIN t : (k \in DOMAIN s /\ t[k] = s[k]) \/ (k = Len(t) /\ t[k] = x)
      BY AppendIs
  <2> HIDE DEF t
  <2> QED
      BY <2>1 DEF ToSet, t
<1>4. ASSUME s # <<>> PROVE ToSet(s) = {Head(s)} \cup ToSet(Tail(s))
  <2> DEFINE t == Tail(s)
  <2>1. /\ 1 \in DOMAIN s /\ Head(s) = s[1]
        /\ \A k \in DOMAIN t : k + 1 \in DOMAIN s /\ k + 1 > 1 /\ t[k] = s[k + 1]
        /\ \A k \in DOMAIN s : k = 1 \/ (k - 1 \in DOMAIN t /\ t[k - 1] = s[k])
      BY <1>4, TailIs
  <2> HIDE DEF t
  <2>2. ToSet(s) \subseteq {s[1]} \cup ToSet(t)
      BY <2>1 DEF ToSet
  <2>3. {s[1]} \cup ToSet(t) \subseteq ToSet(s)
      BY <2>1 DEF ToSet
  <2> QED
      BY <2>1, <2>2, <2>3 DEF t
<1>5. Len(s) = 1 => s = <<Head(s)>>
    OBVIOUS
<1> QED
    BY <1>1, <1>2, <1>3, <1>4, <1>5

LEMMA SmallestIs ==
    ASSUME NEW I, I \subseteq Nat, I # {}
    PROVE  Min(I) \in I
<1> DEFINE R == {ss \in Nat \X Nat : ss[1] < ss[2]}
<1>1. R = OpToRel(<, Nat)
    BY DEF OpToRel
<1>2. IsWellFoundedOn(R, Nat)
    BY NatLessThanWellFounded, <1>1
<1>3. \E n \in I : \A m \in I : <<m, n>> \notin R
  <2> HIDE DEF R
  <2> QED
      BY <1>2, WFMin
<1>4. PICK n \in I : \A m \in I : <<m, n>> \notin R
    BY <1>3
<1>5. ASSUME NEW m \in I PROVE n =< m
  <2>1. <<m, n>> \in Nat \X Nat /\ <<m, n>>[1] = m /\ <<m, n>>[2] = n
      OBVIOUS
  <2> QED
      BY <1>4, <2>1
<1> QED
    BY <1>5 DEF Min

LEMMA JoinedIs ==
    ASSUME NEW S, NEW a \in Seq(S), NEW b \in Seq(S)
    PROVE  LET t == a \o b
           IN  /\ t \in Seq(S) /\ Len(a) \in Nat /\ Len(b) \in Nat /\ Len(t) = Len(a) + Len(b)
               /\ DOMAIN t = 1..Len(a) + Len(b)
               /\ \A k \in 1..Len(a) : t[k] = a[k]
               /\ \A k \in 1..Len(b) : t[Len(a) + k] = b[k]
OBVIOUS

LEMMA PartIs ==
    ASSUME NEW S, NEW s \in Seq(S), NEW m \in Nat \ {0}, NEW n \in Nat, n =< Len(s), m =< n + 1
    PROVE  LET t == SubSeq(s, m, n)
           IN  /\ t \in Seq(S) /\ Len(t) = (n + 1) - m /\ DOMAIN t = 1..(n + 1) - m
               /\ \A k \in 1..(n + 1) - m : t[k] = s[(m + k) - 1]
<1>1. \A k \in m..n : s[k] \in S
    OBVIOUS
<1> QED
    BY <1>1

(* The message that is answered leaves the store, and no other.             *)
LEMMA RemovedIs ==
    ASSUME NEW S, NEW s \in Seq(S), NEW m \in ToSet(s)
    PROVE  LET t == RemoveFirst(s, m)
           IN  /\ t \in Seq(S) /\ Len(t) = Len(s) - 1
               /\ ToSet(t) \subseteq ToSet(s) /\ ToSet(s) \ {m} \subseteq ToSet(t)
<1> DEFINE t == RemoveFirst(s, m)
           I == {i \in 1..Len(s) : s[i] = m}
           i == SelectInSeq(s, LAMBDA v : v = m)
           a == SubSeq(s, 1, i - 1)
           b == SubSeq(s, i + 1, Len(s))
<1>1. Len(s) \in Nat /\ DOMAIN s = 1..Len(s) /\ \E k \in 1..Len(s) : s[k] = m
    BY DEF ToSet
<1>2. i \in 1..Len(s) /\ s[i] = m
  <2>1. I # {} /\ I \in SUBSET Nat
      BY <1>1
  <2>2. Min(I) \in I
      BY <2>1, SmallestIs
  <2>3. i = Min(I)
      BY <2>1 DEF SelectInSeq
  <2> QED
      BY <2>2, <2>3
<1>3. t = a \o b
    BY <1>1 DEF RemoveFirst, RemoveAt
<1> HIDE DEF i, t
<1>a. Len(s) - i \in Nat /\ i - 1 \in Nat /\ i - 1 =< Len(s) /\ i + 1 \in Nat \ {0}
    BY <1>1, <1>2
<1>4. /\ a \in Seq(S) /\ Len(a) = i - 1
      /\ \A k \in 1..i - 1 : a[k] = s[k]
  <2>1. 1 =< (i - 1) + 1 /\ ((i - 1) + 1) - 1 = i - 1
      BY <1>1, <1>2
  <2>2. /\ a \in Seq(S) /\ Len(a) = ((i - 1) + 1) - 1
        /\ \A k \in 1..((i - 1) + 1) - 1 : a[k] = s[(1 + k) - 1]
      BY <1>a, <2>1, PartIs
  <2> QED
      BY <1>1, <1>2, <2>1, <2>2
<1>5. /\ b \in Seq(S) /\ Len(b) = Len(s) - i
      /\ \A k \in 1..Len(s) - i : b[k] = s[i + k]
  <2>1. i + 1 =< Len(s) + 1 /\ (Len(s) + 1) - (i + 1) = Len(s) - i /\ Len(s) =< Len(s)
      BY <1>1, <1>2
  <2>2. /\ b \in Seq(S) /\ Len(b) = (Len(s) + 1) - (i + 1)
        /\ \A k \in 1..(Len(s) + 1) - (i + 1) : b[k] = s[((i + 1) + k) - 1]
      BY <1>1, <1>a, <2>1, PartIs
  <2>3. \A k \in 1..Len(s) - i : ((i + 1) + k) - 1 = i + k
      BY <1>1, <1>2
  <2> QED
      BY <2>1, <2>2, <2>3
<1> HIDE DEF a, b
<1>6. /\ t \in Seq(S) /\ Len(t) = Len(s) - 1 /\ DOMAIN t = 1..Len(s) - 1
      /\ \A k \in 1..i - 1 : t[k] = s[k]
      /\ \A k \in 1..Len(s) - i : t[(i - 1) + k] = s[i + k]
  <2>1. /\ a \o b \in Seq(S) /\ Len(a \o b) = Len(a) + Len(b)
        /\ DOMAIN (a \o b) = 1..Len(a) + Len(b)
        /\ \A k \in 1..Len(a) : (a \o b)[k] = a[k]
        /\ \A k \in 1..Len(b) : (a \o b)[Len(a) + k] = b[k]
    <3>1. a \in Seq(S) /\ b \in Seq(S)
        BY <1>4, <1>5
    <3> QED
        BY <3>1, JoinedIs
  <2>2. (i - 1) + (Len(s) - i) = Len(s) - 1
      BY <1>1, <1>2
  <2> QED
      BY <1>3, <1>4, <1>5, <2>1, <2>2
<1>7. ToSet(t) \subseteq ToSet(s)
  <2> SUFFICES ASSUME NEW k \in DOMAIN t PROVE \E j \in DOMAIN s : s[j] = t[k]
      BY DEF ToSet
  <2>1. CASE k < i
      BY <1>1, <1>2, <1>6, <2>1
  <2>2. CASE ~(k < i)
    <3>1. k - (i - 1) \in 1..Len(s) - i /\ (i - 1) + (k - (i - 1)) = k /\ i + (k - (i - 1)) \in DOMAIN s
        BY <1>1, <1>2, <1>6, <2>2
    <3> QED
        BY <1>6, <3>1
  <2> QED
      BY <2>1, <2>2
<1>8. ToSet(s) \ {m} \subseteq ToSet(t)
  <2> SUFFICES ASSUME NEW k \in DOMAIN s, s[k] # m PROVE \E j \in DOMAIN t : t[j] = s[k]
      BY DEF ToSet
  <2>1. CASE k < i
      BY <1>1, <1>2, <1>6, <2>1
  <2>2. CASE ~(k < i)
    <3>1. k # i /\ k \in Nat /\ i \in Nat
        BY <1>1, <1>2
    <3>2. k - i \in 1..Len(s) - i /\ i + (k - i) = k
        BY <1>1, <1>2, <2>2, <3>1
    <3>3. (i - 1) + (k - i) \in DOMAIN t
        BY <1>1, <1>2, <1>6, <3>1, <3>2
    <3>4. t[(i - 1) + (k - i)] = s[k]
        BY <1>6, <3>2
    <3> QED
        BY <3>3, <3>4
  <2> QED
      BY <2>1, <2>2
<1> QED
    BY <1>6, <1>7, <1>8 DEF t

-----------------------------------------------------------------------------
(* The publisher *)

ToBroker == [type : {"CONNECT", "PUBLISH", "DISCONNECT"}, msg : Nat]
ToClient == [type : {"CONNACK", "REFUSED", "PUBACK"}, msg : Nat]

Acked(m) == [type |-> "PUBACK", msg |-> m]
Asked == 1..next - 1
Owed(m) == qos[m] = 1 /\ got[m] = 0
Has(s, type) == \E p \in ToSet(s) : p.type = type
Carries(s, m) == PublishPacket(m) \in ToSet(s)

PubTypes ==
    /\ qos \in QosLists
    /\ next \in 1..Len(qos) + 1
    /\ store \in Seq(1..Len(qos)) /\ resume \in Seq(1..Len(qos))
    /\ unsent \subseteq ToSet(store)
    /\ flushing \in BOOLEAN /\ mutated \in BOOLEAN /\ ending \in BOOLEAN
    /\ outq \in Seq(ToBroker) /\ toBroker \in Seq(ToBroker) /\ toClient \in Seq(ToClient)
    /\ conn \in {"new", "down", "opening", "up", "closed"}
    /\ result \in {"running", "returned", "raised"}
    /\ got \in [1..Len(qos) -> Nat] /\ faults \in Nat /\ refusals \in Nat

(* Every packet is about a message publish() was called for, and the store  *)
(* holds messages of QoS 1.                                                 *)
Numbers ==
    /\ \A m \in ToSet(store) : m < next /\ qos[m] = 1
    /\ \A p \in ToSet(outq) \cup ToSet(toBroker) : p.type = "PUBLISH" => p.msg \in Asked
    /\ \A p \in ToSet(toClient) : p.type = "PUBACK" => p.msg \in Asked /\ got[p.msg] > 0

(* While a connection is set up nothing but its handshake is on the way.    *)
Quiet == resume = <<>> /\ ~flushing /\ ~ending

Handshake ==
    \/ outq = <<Packet("CONNECT")>> /\ toBroker = <<>> /\ toClient = <<>>
    \/ outq = <<>> /\ toBroker = <<Packet("CONNECT")>> /\ toClient = <<>>
    \/ outq = <<>> /\ toBroker = <<>> /\ toClient = <<Packet("CONNACK")>>
    \/ outq = <<>> /\ toBroker = <<>> /\ toClient = <<Packet("REFUSED")>> /\ refusals > 0
    \/ outq = <<>> /\ toBroker = <<>> /\ toClient = <<>> /\ result = "raised" /\ refusals > 0

Setup ==
    /\ conn \in {"new", "down"} => Quiet /\ toBroker = <<>> /\ toClient = <<>>
    /\ conn = "new" => next = 1 /\ store = <<>>
    /\ conn = "opening" => Quiet /\ unsent = ToSet(store) /\ Handshake
    /\ conn = "up" =>
          /\ \A p \in ToSet(outq) \cup ToSet(toBroker) : p.type # "CONNECT"
          /\ \A p \in ToSet(toClient) : p.type = "PUBACK"
          /\ unsent \subseteq ToSet(resume)
          /\ Has(outq, "DISCONNECT") => ending
    /\ conn = "closed" => ending /\ \A p \in ToSet(toBroker) : p.type # "CONNECT"
    /\ conn = "closed" <=> result = "returned"

(* A message the broker has not got is stored, and while the connection is  *)
(* up it is on its way or the loop of _handle_connack comes to it.          *)
Kept ==
    \A m \in Asked : Owed(m) =>
        /\ m \in ToSet(store)
        /\ conn = "up" => Carries(outq, m) \/ Carries(toBroker, m) \/ m \in unsent

(* Until a connection is lost there is one chain of on_publish: the last    *)
(* message asked for, n, is queued, on its way or answered, or DISCONNECT   *)
(* is queued.                                                               *)
Unanswered(s) == \A p \in ToSet(s) : p.type = "PUBLISH" /\ qos[p.msg] = 0

Queued(n) ==
    /\ outq = <<PublishPacket(n)>> /\ ~ending
    /\ store = IF qos[n] = 1 THEN <<n>> ELSE <<>>
    /\ Unanswered(toBroker) /\ toClient = <<>>

Sent(n) ==
    /\ outq = <<>> /\ ~ending /\ store = <<n>>
    /\ LET s == Front(toBroker)
       IN  s \in Seq(ToBroker) /\ toBroker = Append(s, PublishPacket(n)) /\ Unanswered(s)
    /\ toClient = <<>>

Answered(n) ==
    /\ outq = <<>> /\ ~ending /\ store = <<n>>
    /\ toBroker = <<>> /\ toClient = <<Acked(n)>>

Leaving(n) ==
    /\ outq = <<Packet("DISCONNECT")>> /\ ending /\ store = <<>>
    /\ Unanswered(toBroker) /\ toClient = <<>> /\ ~Owed(n)

Chain(n) ==
    /\ n \in Message /\ \A m \in 1..n - 1 : ~Owed(m)
    /\ Queued(n) \/ Sent(n) \/ Answered(n) \/ Leaving(n)
    /\ unsent = {}

OneChain ==
    faults = 0 =>
       /\ conn # "down"
       /\ conn = "opening" => next = 1 /\ store = <<>>
       /\ conn = "up" => Chain(next - 1)
       /\ conn = "closed" => \A m \in Asked : ~Owed(m)

(* After one lost connection a message of the store and the next one start  *)
(* a chain each.  The loop of _handle_connack comes to its end with nothing *)
(* but QoS 1 to write in between, and DISCONNECT is queued behind all.      *)
NoneBehind(s) ==
    \A j, k \in DOMAIN s : j < k /\ s[j].type = "DISCONNECT" => s[k].type # "PUBLISH"

TwoChains ==
    faults <= 1 =>
       /\ conn \in {"down", "opening"} => Len(store) <= 1
       /\ conn = "up" =>
             /\ unsent = {} \/ (~flushing /\ resume # <<>> /\ unsent = {Head(resume)})
             /\ resume # <<>> =>
                   /\ ~mutated
                   /\ \/ Len(resume) = 1 /\ ~flushing
                      \/ \A p \in ToSet(outq) : p.type = "PUBLISH" => qos[p.msg] = 1
             /\ Has(outq, "DISCONNECT") => unsent = {}
             /\ NoneBehind(outq)

Ends ==
    /\ ending => Finished
    /\ faults <= 1 /\ result = "returned" => \A m \in Asked : Owed(m) => Carries(toBroker, m)
    /\ faults <= 1 /\ result = "raised" => refusals > 0 \/ conn = "new"

PubInv == PubTypes /\ Numbers /\ Setup /\ Kept /\ OneChain /\ TwoChains /\ Ends

-----------------------------------------------------------------------------
(* The subscriber *)

Topics == {"", LiveTopic, RetainedTopic} \cup ToSet(SubTopics)
Messages == [type : {"PUBLISH"}, msg : Nat, retain : BOOLEAN]
SubToBroker == [type : {"CONNECT", "SUBSCRIBE", "DISCONNECT"}, topic : Topics]
SubToClient == [type : {"CONNACK", "REFUSED", "SUBACK"}, topic : Topics] \cup Messages

SubTypes ==
    /\ retained \in BOOLEAN
    /\ msgCount \in 0..MsgCount
    /\ messages \in Seq(Messages)
    /\ subOutq \in Seq(SubToBroker) /\ subToBroker \in Seq(SubToBroker)
    /\ subToClient \in Seq(SubToClient)
    /\ subConn \in {"new", "down", "opening", "up", "closed"}
    /\ subEnding \in BOOLEAN
    /\ subResult \in {"running", "returned", "raised"}

(* Every message collected was wanted and counted, and the client is told   *)
(* to disconnect only when none is missing.                                 *)
Collected ==
    /\ Len(messages) + msgCount = MsgCount
    /\ ~retained => \A p \in ToSet(messages) : ~p.retain
    /\ Has(subOutq, "DISCONNECT") \/ subEnding \/ subResult = "returned" => msgCount = 0

SubInv == SubTypes /\ Collected

-----------------------------------------------------------------------------
(* Queues *)

LEMMA Added ==
    ASSUME NEW S, NEW s \in Seq(S), NEW x \in S
    PROVE  /\ Append(s, x) \in Seq(S) /\ ToSet(Append(s, x)) = ToSet(s) \cup {x}
           /\ Len(s) \in Nat /\ Len(Append(s, x)) = Len(s) + 1
    BY AppendIs, ToSetIs

LEMMA Taken ==
    ASSUME NEW S, NEW s \in Seq(S), s # <<>>
    PROVE  /\ Head(s) \in S /\ Tail(s) \in Seq(S) /\ ToSet(s) = {Head(s)} \cup ToSet(Tail(s))
           /\ Len(s) \in Nat \ {0} /\ Len(Tail(s)) = Len(s) - 1
    BY TailIs, ToSetIs

LEMMA Nothing ==
    ASSUME NEW S
    PROVE  <<>> \in Seq(S) /\ ToSet(<<>>) = {} /\ Len(<<>>) = 0
    BY EmptyIs, ToSetIs

LEMMA Single ==
    ASSUME NEW S, NEW x \in S
    PROVE  /\ <<x>> \in Seq(S) /\ ToSet(<<x>>) = {x} /\ Len(<<x>>) = 1
           /\ Head(<<x>>) = x /\ Tail(<<x>>) = <<>> /\ <<x>> # <<>>
           /\ Append(<<>>, x) = <<x>>
<1>1. <<x>> \in Seq(S) /\ DOMAIN <<x>> = {1} /\ <<x>>[1] = x /\ Len(<<x>>) = 1
      /\ Head(<<x>>) = x /\ Tail(<<x>>) = <<>> /\ <<x>> # <<>>
    BY OneIs
<1>2. ToSet(<<x>>) = {x}
  <2> DEFINE s == <<x>>
  <2>1. s \in Seq(S) /\ s # <<>> /\ Head(s) = x /\ Tail(s) = <<>>
      BY <1>1
  <2> HIDE DEF s
  <2>2. ToSet(s) = {Head(s)} \cup ToSet(Tail(s))
      BY <2>1, ToSetIs
  <2> QED
      BY <2>1, <2>2, Nothing DEF s
<1>3. Append(<<>>, x) = <<x>>
    OBVIOUS
<1> QED
    BY <1>1, <1>2, <1>3

LEMMA Short ==
    ASSUME NEW S, NEW s \in Seq(S)
    PROVE  /\ Len(s) = 0 => s = <<>>
           /\ Len(s) = 1 => s = <<Head(s)>> /\ Head(s) \in S
           /\ s # <<>> /\ Len(s) =< 1 => Len(s) = 1
<1>1. Len(s) \in Nat
    OBVIOUS
<1>2. Len(s) = 0 => s = <<>>
    OBVIOUS
<1>3. Len(s) = 1 => s = <<Head(s)>> /\ s # <<>>
    BY ToSetIs
<1>4. s # <<>> => Head(s) \in S
    BY Taken
<1>5. s # <<>> /\ Len(s) =< 1 => Len(s) = 1
  <2> DEFINE n == Len(s)
  <2>1. n \in Nat
      BY <1>1
  <2> HIDE DEF n
  <2>2. n =< 1 => n = 0 \/ n = 1
      BY <2>1
  <2> QED
      BY <1>2, <2>2 DEF n
<1> QED
    BY <1>2, <1>3, <1>4, <1>5, Zenon

LEMMA FrontOfAppend ==
    ASSUME NEW S, NEW s \in Seq(S), NEW x \in S
    PROVE  Front(Append(s, x)) = s
<1> DEFINE t == Append(s, x)
<1>1. t \in Seq(S) /\ Len(s) \in Nat /\ Len(t) = Len(s) + 1 /\ DOMAIN s = 1..Len(s)
      /\ \A k \in DOMAIN s : t[k] = s[k]
    BY AppendIs
<1> HIDE DEF t
<1>2. 1 \in Nat \ {0} /\ Len(s) =< Len(t) /\ 1 =< Len(s) + 1
      /\ (Len(s) + 1) - 1 = Len(s) /\ Len(t) - 1 = Len(s)
      /\ \A k \in 1..Len(s) : (1 + k) - 1 = k
    BY <1>1
<1>3. /\ SubSeq(t, 1, Len(s)) \in Seq(S) /\ Len(SubSeq(t, 1, Len(s))) = (Len(s) + 1) - 1
      /\ \A k \in 1..(Len(s) + 1) - 1 : SubSeq(t, 1, Len(s))[k] = t[(1 + k) - 1]
    BY <1>1, <1>2, PartIs
<1> DEFINE u == SubSeq(t, 1, Len(s))
<1>4. u \in Seq(S) /\ Len(u) = Len(s) /\ \A k \in 1..Len(s) : u[k] = s[k]
    BY <1>1, <1>2, <1>3
<1>5. Front(t) = u
    BY <1>2 DEF Front
<1> HIDE DEF u
<1> QED
    BY <1>1, <1>4, <1>5 DEF t

(* A queue loses its head while a packet stands at its end.                 *)
LEMMA TailOfAppend ==
    ASSUME NEW S, NEW s \in Seq(S), NEW x \in S
    PROVE  /\ s = <<>> => Head(Append(s, x)) = x /\ Tail(Append(s, x)) = <<>>
           /\ s # <<>> => /\ Head(Append(s, x)) = Head(s)
                          /\ Tail(Append(s, x)) = Append(Tail(s), x)
OBVIOUS

LEMMA NoneBehindKept ==
    ASSUME NEW s \in Seq(ToBroker)
    PROVE  /\ s # <<>> /\ NoneBehind(s) => NoneBehind(Tail(s))
           /\ s # <<>> /\ NoneBehind(s) /\ Head(s).type = "DISCONNECT" =>
                  \A p \in ToSet(Tail(s)) : p.type # "PUBLISH"
           /\ \A p \in ToBroker :
                 /\ NoneBehind(s)
                 /\ p.type = "PUBLISH" => ~Has(s, "DISCONNECT")
                 => NoneBehind(Append(s, p))
<1>1. ASSUME s # <<>>, NoneBehind(s)
      PROVE  /\ NoneBehind(Tail(s))
             /\ Head(s).type = "DISCONNECT" => \A p \in ToSet(Tail(s)) : p.type # "PUBLISH"
  <2> DEFINE t == Tail(s)
  <2>1. /\ t \in Seq(ToBroker) /\ Len(s) \in Nat /\ Len(t) = Len(s) - 1
        /\ DOMAIN s = 1..Len(s) /\ DOMAIN t = 1..Len(t) /\ 1 \in DOMAIN s /\ Head(s) = s[1]
        /\ \A k \in DOMAIN t : k + 1 \in DOMAIN s /\ k + 1 > 1 /\ t[k] = s[k + 1]
      BY <1>1, TailIs
  <2> HIDE DEF t
  <2>2. \A j, k \in DOMAIN t : j < k => j + 1 < k + 1
      BY <2>1
  <2>3. NoneBehind(t)
      BY <1>1, <2>1, <2>2 DEF NoneBehind
  <2>4. ASSUME Head(s).type = "DISCONNECT", NEW p \in ToSet(t) PROVE p.type # "PUBLISH"
    <3>1. PICK k \in DOMAIN t : t[k] = p
        BY <2>1, <2>4, ToSetIs
    <3>2. 1 < k + 1 /\ k + 1 \in DOMAIN s /\ s[k + 1] = p
        BY <2>1, <3>1
    <3> QED
        BY <1>1, <2>1, <2>4, <3>2 DEF NoneBehind
  <2> QED
      BY <2>3, <2>4 DEF t
<1>2. ASSUME NEW p \in ToBroker, NoneBehind(s), p.type = "PUBLISH" => ~Has(s, "DISCONNECT")
      PROVE  NoneBehind(Append(s, p))
  <2> DEFINE t == Append(s, p)
  <2>1. /\ t \in Seq(ToBroker) /\ Len(s) \in Nat /\ Len(t) = Len(s) + 1
        /\ DOMAIN s = 1..Len(s) /\ DOMAIN t = 1..Len(t)
        /\ \A k \in DOMAIN t : (k \in DOMAIN s /\ t[k] = s[k]) \/ (k = Len(t) /\ t[k] = p)
      BY AppendIs
  <2> HIDE DEF t
  <2>2. \A k \in DOMAIN s : s[k] \in ToSet(s)
      BY ToSetIs
  <2>3. SUFFICES ASSUME NEW j \in DOMAIN t, NEW k \in DOMAIN t, j < k,
                        t[j].type = "DISCONNECT", t[k].type = "PUBLISH"
                 PROVE  FALSE
      BY DEF NoneBehind, t
  <2>4. j \in DOMAIN s /\ t[j] = s[j]
      BY <2>1, <2>3
  <2>5. CASE k \in DOMAIN s /\ t[k] = s[k]
      BY <1>2, <2>3, <2>4, <2>5 DEF NoneBehind
  <2>6. CASE t[k] = p
      BY <1>2, <2>2, <2>3, <2>4, <2>6 DEF Has
  <2> QED
      BY <2>1, <2>5, <2>6
<1> QED
    BY <1>1, <1>2

LEMMA NoneBehindOne ==
    ASSUME NEW p \in ToBroker
    PROVE  NoneBehind(<<p>>) /\ NoneBehind(<<>>)
<1>1. DOMAIN <<p>> = {1} /\ DOMAIN <<>> = {}
    BY OneIs, EmptyIs
<1> QED
    BY <1>1 DEF NoneBehind

-----------------------------------------------------------------------------
(* Packets and messages *)

LEMMA PacketIs ==
    /\ \A m \in Nat : /\ PublishPacket(m) \in ToBroker /\ PublishPacket(m).type = "PUBLISH"
                      /\ PublishPacket(m).msg = m
                      /\ Acked(m) \in ToClient /\ Acked(m).type = "PUBACK" /\ Acked(m).msg = m
    /\ \A type \in {"CONNECT", "DISCONNECT"} :
          Packet(type) \in ToBroker /\ Packet(type).type = type
    /\ \A type \in {"CONNACK", "REFUSED"} :
          Packet(type) \in ToClient /\ Packet(type).type = type
    /\ \A p \in ToBroker : p.type = "PUBLISH" => p = PublishPacket(p.msg) /\ p.msg \in Nat
    /\ \A p \in ToClient : p.type = "PUBACK" => p = Acked(p.msg) /\ p.msg \in Nat
    BY DEF PublishPacket, Packet, Acked, ToBroker, ToClient

LEMMA QosIs ==
    ASSUME PubTypes
    PROVE  /\ Len(qos) \in Nat \ {0} /\ qos \in Seq({0, 1}) /\ DOMAIN qos = 1..Len(qos)
           /\ \A m \in Message : m \in Nat /\ qos[m] \in {0, 1}
           /\ next \in Nat \ {0} /\ next - 1 \in Nat
           /\ Asked \subseteq Message /\ (~Finished => next \in Message)
           /\ ToSet(store) \subseteq Message /\ ToSet(resume) \subseteq Message
<1>1. qos \in Seq({0, 1}) /\ qos # <<>>
    BY MultipleAssumption DEF PubTypes, MultipleAssumption
<1>2. Len(qos) \in Nat \ {0} /\ DOMAIN qos = 1..Len(qos) /\ \A m \in 1..Len(qos) : qos[m] \in {0, 1}
    BY <1>1
<1>3. next \in 1..Len(qos) + 1 /\ store \in Seq(Message) /\ resume \in Seq(Message)
    BY DEF PubTypes, Message
<1>4. Asked \subseteq Message /\ (~Finished => next \in Message)
    BY <1>2, <1>3 DEF Asked, Message, Finished
<1>5. ToSet(store) \subseteq Message /\ ToSet(resume) \subseteq Message
    BY <1>3, ToSetIs
<1> QED
    BY <1>1, <1>2, <1>3, <1>4, <1>5 DEF Message

(* What the packets in the queues are.                                      *)
LEMMA QueuesAre ==
    ASSUME PubTypes
    PROVE  ToSet(outq) \subseteq ToBroker /\ ToSet(toBroker) \subseteq ToBroker
           /\ ToSet(toClient) \subseteq ToClient
    BY ToSetIs DEF PubTypes

LEMMA PublisherStays ==
    ASSUME PubInv, UNCHANGED <<pubAll, got>>,
           faults' \in Nat, faults =< faults', refusals' \in Nat, refusals =< refusals'
    PROVE  PubInv'
<1> USE DEF PubInv, pubAll, pubVars
<1>1. PubTypes' /\ Numbers'
    BY DEF PubTypes, Numbers, Asked
<1>2. Setup' /\ Kept'
    BY DEF PubTypes, Setup, Has, Kept, Quiet, Handshake, Owed, Carries, Asked
<1>3. faults \in Nat /\ refusals \in Nat
    BY DEF PubTypes
<1>4. OneChain'
    BY <1>3 DEF OneChain, Chain, Queued, Sent, Answered, Leaving, Unanswered, Owed, Asked, Message
<1>5. TwoChains'
    BY <1>3 DEF TwoChains, NoneBehind, Has
<1>6. Ends'
    BY <1>3 DEF Ends, Finished, Owed, Carries, Asked
<1> QED
    BY <1>1, <1>2, <1>4, <1>5, <1>6

-----------------------------------------------------------------------------
(* Connecting, and writing *)

LEMMA ConnectStep ==
    ASSUME PubInv, Connect, UNCHANGED brokerVars
    PROVE  PubInv'
<1> USE DEF PubInv
<1>1. /\ conn \in {"new", "down"} /\ conn' = "opening" /\ outq' = <<Packet("CONNECT")>>
      /\ unsent' = ToSet(store) /\ toBroker' = <<>> /\ toClient' = <<>>
      /\ UNCHANGED <<qos, next, store, resume, flushing, mutated, ending, result>>
      /\ UNCHANGED <<got, faults, refusals>> /\ result = "running"
    BY DEF Connect, Reset, Running, brokerVars
<1>2. /\ outq' \in Seq(ToBroker) /\ ToSet(outq') = {Packet("CONNECT")}
      /\ Packet("CONNECT").type = "CONNECT"
    BY <1>1, PacketIs, Single
<1>3. /\ toBroker' \in Seq(ToBroker) /\ ToSet(toBroker') = {}
      /\ toClient' \in Seq(ToClient) /\ ToSet(toClient') = {}
    BY <1>1, Nothing
<1>4. PubTypes'
    BY <1>1, <1>2, <1>3 DEF PubTypes
<1>5. Numbers'
    BY <1>1, <1>2, <1>3 DEF Numbers, Asked
<1>6. Setup'
    BY <1>1 DEF Setup, Quiet, Handshake
<1>7. Kept'
    BY <1>1 DEF Kept, Owed, Asked
<1>8. OneChain'
    BY <1>1 DEF OneChain, Setup
<1>9. TwoChains'
  <2>1. store = <<>> => Len(store) = 0
      BY Nothing
  <2> QED
      BY <1>1, <2>1 DEF TwoChains, Setup
<1>10. Ends'
    BY <1>1 DEF Ends, Finished
<1> QED
    BY <1>4, <1>5, <1>6, <1>7, <1>8, <1>9, <1>10

LEMMA ConnectFailsStep ==
    ASSUME PubInv, ConnectFails, UNCHANGED brokerVars
    PROVE  PubInv'
<1> USE DEF PubInv
<1>1. /\ conn = "new" /\ result = "running" /\ result' = "raised"
      /\ UNCHANGED <<qos, next, store, unsent, resume, flushing, mutated, outq, conn, ending,
                     toBroker, toClient>>
      /\ UNCHANGED <<got, faults, refusals>>
    BY DEF ConnectFails, Running, brokerVars
<1>2. PubTypes' /\ Numbers'
    BY <1>1 DEF PubTypes, Numbers, Asked
<1>3. Setup' /\ Kept' /\ OneChain' /\ TwoChains' /\ Ends'
    BY <1>1 DEF Setup, Quiet, Kept, Owed, Asked, OneChain, TwoChains, Ends, Finished
<1> QED
    BY <1>2, <1>3

LEMMA WriteConnectStep ==
    ASSUME PubInv, Write, WriteConnect, UNCHANGED brokerVars
    PROVE  PubInv'
<1> USE DEF PubInv
<1>1. /\ conn \in {"opening", "up"} /\ outq # <<>> /\ Head(outq).type = "CONNECT"
      /\ outq' = Tail(outq) /\ toBroker' = Append(toBroker, Head(outq))
      /\ UNCHANGED <<qos, unsent, resume, flushing, toClient>>
      /\ UNCHANGED <<next, store, mutated, conn, ending, result>>
      /\ UNCHANGED <<got, faults, refusals>> /\ result = "running"
    BY DEF Write, WriteConnect, Running, brokerVars
<1>2. outq \in Seq(ToBroker) /\ Head(outq) \in ToSet(outq)
    BY <1>1, Taken DEF PubTypes
<1>3. conn = "opening"
    BY <1>1, <1>2 DEF Setup
<1>4. /\ outq = <<Packet("CONNECT")>> /\ toBroker = <<>> /\ toClient = <<>>
      /\ Quiet /\ unsent = ToSet(store)
    BY <1>1, <1>3 DEF Setup, Handshake
<1>5. Packet("CONNECT") \in ToBroker /\ Packet("CONNECT").type = "CONNECT"
    BY PacketIs
<1>6. outq' = <<>> /\ toBroker' = <<Packet("CONNECT")>>
    BY <1>1, <1>4, <1>5, Single
<1>7. /\ outq' \in Seq(ToBroker) /\ ToSet(outq') = {} /\ toBroker' \in Seq(ToBroker)
      /\ ToSet(toBroker') = {Packet("CONNECT")} /\ ToSet(toClient) = {}
    BY <1>4, <1>5, <1>6, Single, Nothing
<1>8. PubTypes'
    BY <1>1, <1>7 DEF PubTypes
<1>9. Numbers'
    BY <1>1, <1>5, <1>7 DEF Numbers, Asked
<1>10. Setup' /\ Kept'
    BY <1>1, <1>3, <1>4, <1>6 DEF Setup, Quiet, Handshake, Kept, Owed, Asked
<1>11. OneChain' /\ TwoChains' /\ Ends'
    BY <1>1, <1>3 DEF OneChain, TwoChains, Ends, Finished
<1> QED
    BY <1>8, <1>9, <1>10, <1>11

LEMMA WriteDisconnectStep ==
    ASSUME PubInv, Write, WriteDisconnect, UNCHANGED brokerVars
    PROVE  PubInv'
<1> USE DEF PubInv
<1> DEFINE p == Head(outq)
<1>1. /\ conn \in {"opening", "up"} /\ outq # <<>> /\ p.type = "DISCONNECT"
      /\ outq' = Tail(outq) /\ toBroker' = Append(toBroker, p)
      /\ conn' = "closed" /\ result' = "returned" /\ result = "running"
      /\ UNCHANGED <<qos, unsent, resume, flushing, toClient>>
      /\ UNCHANGED <<next, store, mutated, ending>>
      /\ UNCHANGED <<got, faults, refusals>>
    BY DEF Write, WriteDisconnect, Running, brokerVars
<1>2. /\ p \in ToBroker /\ outq' \in Seq(ToBroker) /\ ToSet(outq) = {p} \cup ToSet(outq')
      /\ toBroker' \in Seq(ToBroker) /\ ToSet(toBroker') = ToSet(toBroker) \cup {p}
  <2>1. p \in ToBroker /\ Tail(outq) \in Seq(ToBroker) /\ ToSet(outq) = {p} \cup ToSet(Tail(outq))
      BY <1>1, Taken DEF PubTypes
  <2>2. toBroker \in Seq(ToBroker)
      BY DEF PubTypes
  <2> QED
      BY <1>1, <2>1, <2>2, Added
<1> HIDE DEF p
<1>3. conn = "up"
  <2> SUFFICES ASSUME conn = "opening" PROVE FALSE
      BY <1>1
  <2>1. outq = <<Packet("CONNECT")>>
      BY <1>1 DEF Setup, Handshake
  <2> QED
      BY <1>1, <2>1, PacketIs, Single DEF p
<1>4. PubTypes'
    BY <1>1, <1>2 DEF PubTypes
<1>5. Numbers'
    BY <1>1, <1>2 DEF Numbers, Asked
<1>6. faults =< 1 => unsent = {} /\ NoneBehind(outq)
    BY <1>1, <1>2, <1>3 DEF TwoChains, Has
<1>7. ASSUME faults =< 1, NEW m \in Asked, Owed(m) PROVE Carries(toBroker, m)
  <2>1. m \in Nat /\ PublishPacket(m).type = "PUBLISH"
      BY PacketIs, QosIs DEF Asked
  <2>2. PublishPacket(m) \notin ToSet(outq)
    <3>1. outq \in Seq(ToBroker)
        BY DEF PubTypes
    <3>2. \A q \in ToSet(outq') : q.type # "PUBLISH"
        BY <1>1, <1>6, <1>7, <3>1, NoneBehindKept DEF p
    <3> QED
        BY <1>1, <1>2, <2>1, <3>2
  <2> QED
      BY <1>3, <1>6, <1>7, <2>2 DEF Kept, Carries
<1>8. ending
    BY <1>1, <1>2, <1>3 DEF Setup, Has
<1>9. Setup'
    BY <1>1, <1>2, <1>3, <1>8 DEF Setup
<1>10. Kept'
    BY <1>1 DEF Kept, Owed, Asked
<1>11. faults = 0 => \A m \in Asked : ~Owed(m)
  <2> SUFFICES ASSUME faults = 0 PROVE \A m \in Asked : ~Owed(m)
      OBVIOUS
  <2>1. Chain(next - 1)
      BY <1>3 DEF OneChain
  <2>2. ~Queued(next - 1) /\ ~Sent(next - 1) /\ ~Answered(next - 1)
      BY <1>8, <1>1 DEF Queued, Sent, Answered
  <2>3. ~Owed(next - 1) /\ \A m \in 1..(next - 1) - 1 : ~Owed(m)
      BY <2>1, <2>2 DEF Chain, Leaving
  <2>4. \A m \in Asked : m = next - 1 \/ m \in 1..(next - 1) - 1
      BY QosIs DEF Asked
  <2> QED
      BY <2>3, <2>4
<1>12. OneChain' /\ TwoChains'
    BY <1>1, <1>11 DEF OneChain, TwoChains, Owed, Asked
<1>13. Ends'
  <2>1. \A m : Carries(toBroker, m) => Carries(toBroker, m)'
      BY <1>2 DEF Carries
  <2> QED
      BY <1>1, <1>7, <2>1 DEF Ends, Finished, Owed, Asked
<1> QED
    BY <1>4, <1>5, <1>9, <1>10, <1>12, <1>13

(* What on_publish leaves in the store and behind the queue q.              *)
LEMMA StoredIs ==
    ASSUME PubTypes
    PROVE  /\ Stored \in Seq(Message)
           /\ ToSet(store) \subseteq ToSet(Stored)
           /\ ToSet(Stored) \subseteq ToSet(store) \cup {next}
           /\ Finished \/ qos[next] # 1 => Stored = store
           /\ ~Finished /\ qos[next] = 1 => Stored = Append(store, next) /\ next \in ToSet(Stored)
<1>1. store \in Seq(Message) /\ (~Finished => next \in Message /\ qos[next] \in {0, 1})
    BY QosIs DEF PubTypes, Message
<1>2. CASE Finished \/ qos[next] = 0
    BY <1>1, <1>2 DEF Stored
<1>3. CASE ~(Finished \/ qos[next] = 0)
  <2>1. Stored = Append(store, next)
      BY <1>3 DEF Stored
  <2>2. Append(store, next) \in Seq(Message) /\ ToSet(Append(store, next)) = ToSet(store) \cup {next}
      BY <1>1, <1>3, Added
  <2> QED
      BY <1>1, <1>3, <2>1, <2>2
<1> QED
    BY <1>2, <1>3

LEMMA OnPublishIs ==
    ASSUME PubTypes, Numbers, ending => Finished, NEW q \in Seq(ToBroker), OnPublish(q)
    PROVE  \E p \in ToBroker :
              /\ outq' = Append(q, p) /\ outq' \in Seq(ToBroker) /\ ToSet(outq') = ToSet(q) \cup {p}
              /\ \/ /\ Finished /\ p = Packet("DISCONNECT") /\ p.type = "DISCONNECT"
                    /\ next' = next /\ ending'
                 \/ /\ ~Finished /\ p = PublishPacket(next) /\ p.type = "PUBLISH" /\ p.msg = next
                    /\ next' = next + 1 /\ ~ending /\ ~ending'
<1> DEFINE p == IF Finished THEN Packet("DISCONNECT") ELSE PublishPacket(next)
<1>1. p \in ToBroker /\ ending \in BOOLEAN
    BY PacketIs, QosIs DEF PubTypes
<1>2. outq' = Append(q, p)
    BY DEF OnPublish, DoPublish
<1>3. outq' \in Seq(ToBroker) /\ ToSet(outq') = ToSet(q) \cup {p}
    BY <1>1, <1>2, Added
<1>4. CASE Finished
    BY <1>1, <1>2, <1>3, <1>4, PacketIs DEF OnPublish
<1>5. CASE ~Finished
    BY <1>1, <1>2, <1>3, <1>5, PacketIs, QosIs DEF OnPublish, DoPublish
<1> QED
    BY <1>4, <1>5

(* The next message is asked for, and is the only one.                      *)
LEMMA AskedNext ==
    ASSUME PubTypes, next' = next \/ (~Finished /\ next' = next + 1), qos' = qos
    PROVE  /\ next' \in 1..Len(qos) + 1 /\ Asked \subseteq Asked'
           /\ \A m \in Asked' : m \in Asked \/ (m = next /\ next' = next + 1)
           /\ next' = next + 1 => next \in Asked' /\ next' - 1 = next
           /\ \A m \in Nat : m < next => m < next'
           /\ next' = next + 1 => next < next'
    BY QosIs DEF PubTypes, Asked, Finished, Message

LEMMA WriteAnyPublish ==
    ASSUME PubInv, Write, WritePublish, UNCHANGED brokerVars
    PROVE  LET p == Head(outq)
           IN  /\ conn = "up" /\ outq # <<>> /\ result = "running"
               /\ resume # <<>> => flushing
               /\ p \in ToBroker /\ p.type = "PUBLISH" /\ p = PublishPacket(p.msg)
               /\ p.msg \in Asked /\ p.msg \in Message /\ qos[p.msg] \in {0, 1}
               /\ Tail(outq) \in Seq(ToBroker) /\ ToSet(outq) = {p} \cup ToSet(Tail(outq))
               /\ toBroker' = Append(toBroker, p)
               /\ toBroker' \in Seq(ToBroker) /\ ToSet(toBroker') = ToSet(toBroker) \cup {p}
               /\ UNCHANGED <<qos, unsent, resume, flushing, toClient, conn, result>>
               /\ UNCHANGED <<got, faults, refusals>>
<1> USE DEF PubInv
<1> DEFINE p == Head(outq)
<1>1. /\ conn \in {"opening", "up"} /\ outq # <<>> /\ p.type = "PUBLISH"
      /\ resume # <<>> => flushing
      /\ toBroker' = Append(toBroker, p) /\ result = "running"
      /\ UNCHANGED <<qos, unsent, resume, flushing, toClient, conn, result>>
      /\ UNCHANGED <<got, faults, refusals>>
    BY DEF Write, WritePublish, Running, brokerVars
<1>2. /\ p \in ToBroker /\ Tail(outq) \in Seq(ToBroker)
      /\ ToSet(outq) = {p} \cup ToSet(Tail(outq))
    BY <1>1, Taken DEF PubTypes
<1>3. toBroker \in Seq(ToBroker)
    BY DEF PubTypes
<1>4. toBroker' \in Seq(ToBroker) /\ ToSet(toBroker') = ToSet(toBroker) \cup {p}
    BY <1>1, <1>2, <1>3, Added
<1>5. conn = "up"
  <2> SUFFICES ASSUME conn = "opening" PROVE FALSE
      BY <1>1
  <2>1. outq = <<Packet("CONNECT")>>
      BY <1>1 DEF Setup, Handshake
  <2> QED
      BY <1>1, <2>1, PacketIs, Single
<1>6. p = PublishPacket(p.msg)
    BY <1>1, <1>2, PacketIs
<1>7. p.msg \in Asked
    BY <1>1, <1>2 DEF Numbers
<1>8. p.msg \in Message /\ qos[p.msg] \in {0, 1}
    BY <1>7, QosIs
<1> QED
    BY <1>1, <1>2, <1>4, <1>5, <1>6, <1>7, <1>8

LEMMA WriteQos1Step ==
    ASSUME PubInv, Write, WritePublish, qos[Head(outq).msg] = 1, UNCHANGED brokerVars
    PROVE  PubInv'
<1> USE DEF PubInv
<1> DEFINE p == Head(outq)
<1>1. /\ conn = "up" /\ outq # <<>> /\ result = "running"
      /\ p \in ToBroker /\ p.type = "PUBLISH" /\ p = PublishPacket(p.msg)
      /\ p.msg \in Asked /\ p.msg \in Message
      /\ Tail(outq) \in Seq(ToBroker) /\ ToSet(outq) = {p} \cup ToSet(Tail(outq))
      /\ toBroker' = Append(toBroker, p)
      /\ toBroker' \in Seq(ToBroker) /\ ToSet(toBroker') = ToSet(toBroker) \cup {p}
      /\ UNCHANGED <<qos, unsent, resume, flushing, toClient, conn, result>>
      /\ UNCHANGED <<got, faults, refusals>>
    BY WriteAnyPublish
<1>2. /\ outq' = Tail(outq) /\ UNCHANGED <<next, store, ending>>
      /\ mutated' = (mutated \/ (resume # <<>> /\ store' # store)) /\ qos[p.msg] = 1
    BY DEF Write, WritePublish
<1> HIDE DEF p
<1>3. PubTypes'
    BY <1>1, <1>2 DEF PubTypes
<1>4. Numbers'
    BY <1>1, <1>2 DEF Numbers, Asked
<1>5. Setup'
    BY <1>1, <1>2 DEF Setup, Has
<1>6. Kept'
    BY <1>1, <1>2 DEF Kept, Owed, Asked, Carries
<1>7. OneChain'
  <2> SUFFICES ASSUME faults = 0 PROVE Chain(next - 1)'
      BY <1>1 DEF OneChain
  <2> DEFINE n == next - 1
  <2>1. Chain(n)
      BY <1>1 DEF OneChain
  <2>2. Queued(n)
    <3>1. outq = <<Packet("DISCONNECT")>> => Head(outq) = Packet("DISCONNECT")
        BY PacketIs, Single
    <3> QED
        BY <1>1, <2>1, <3>1, PacketIs DEF Chain, Sent, Answered, Leaving, p
  <2>3. n \in Nat /\ PublishPacket(n) \in ToBroker /\ PublishPacket(n).msg = n
      BY <2>1, QosIs, PacketIs DEF Chain
  <2>4. outq' = <<>> /\ p = PublishPacket(n) /\ p.msg = n
      BY <1>2, <2>2, <2>3, Single DEF Queued, p
  <2>5. Front(toBroker') = toBroker /\ toBroker \in Seq(ToBroker)
      BY <1>1, FrontOfAppend DEF PubTypes
  <2>6. Sent(n)'
      BY <1>1, <1>2, <2>2, <2>4, <2>5 DEF Sent, Queued, Unanswered
  <2> QED
      BY <1>1, <1>2, <2>1, <2>6 DEF Chain, Message, Owed
<1>8. TwoChains'
  <2> SUFFICES ASSUME faults =< 1
               PROVE  /\ unsent' = {} \/ (~flushing' /\ resume' # <<>> /\ unsent' = {Head(resume')})
                      /\ resume' # <<>> =>
                            /\ ~mutated'
                            /\ \/ Len(resume') = 1 /\ ~flushing'
                               \/ \A q \in ToSet(outq') : q.type = "PUBLISH" => qos'[q.msg] = 1
                      /\ Has(outq', "DISCONNECT") => unsent' = {}
                      /\ NoneBehind(outq')
      BY <1>1 DEF TwoChains
  <2>1. NoneBehind(outq')
      BY <1>1, <1>2, NoneBehindKept DEF TwoChains, PubTypes
  <2> QED
      BY <1>1, <1>2, <2>1 DEF TwoChains, Has
<1>9. Ends'
    BY <1>1, <1>2 DEF Ends, Finished
<1> QED
    BY <1>3, <1>4, <1>5, <1>6, <1>7, <1>8, <1>9

LEMMA WriteQos0Step ==
    ASSUME PubInv, Write, WritePublish, qos[Head(outq).msg] = 0, UNCHANGED brokerVars
    PROVE  PubInv'
<1> USE DEF PubInv
<1> DEFINE p == Head(outq)
           q == Tail(outq)
<1>1. /\ conn = "up" /\ outq # <<>> /\ result = "running"
      /\ resume # <<>> => flushing
      /\ p \in ToBroker /\ p.type = "PUBLISH" /\ p = PublishPacket(p.msg)
      /\ p.msg \in Asked /\ p.msg \in Message
      /\ q \in Seq(ToBroker) /\ ToSet(outq) = {p} \cup ToSet(q)
      /\ toBroker' = Append(toBroker, p)
      /\ toBroker' \in Seq(ToBroker) /\ ToSet(toBroker') = ToSet(toBroker) \cup {p}
      /\ UNCHANGED <<qos, unsent, resume, flushing, toClient, conn, result>>
      /\ UNCHANGED <<got, faults, refusals>>
    BY WriteAnyPublish
<1>2. /\ OnPublish(q) /\ store' = Stored /\ qos[p.msg] = 0
      /\ mutated' = (mutated \/ (resume # <<>> /\ store' # store))
    BY DEF Write, WritePublish
<1> HIDE DEF p, q
<1>3. PICK r \in ToBroker :
              /\ outq' = Append(q, r) /\ outq' \in Seq(ToBroker) /\ ToSet(outq') = ToSet(q) \cup {r}
              /\ \/ /\ Finished /\ r = Packet("DISCONNECT") /\ r.type = "DISCONNECT"
                    /\ next' = next /\ ending'
                 \/ /\ ~Finished /\ r = PublishPacket(next) /\ r.type = "PUBLISH" /\ r.msg = next
                    /\ next' = next + 1 /\ ~ending /\ ~ending'
  <2>1. ending => Finished
      BY DEF Ends
  <2> QED
      BY <1>1, <1>2, <2>1, OnPublishIs
<1>4. /\ next' \in 1..Len(qos) + 1 /\ Asked \subseteq Asked'
      /\ \A m \in Asked' : m \in Asked \/ (m = next /\ next' = next + 1)
      /\ next' = next + 1 => next \in Asked' /\ next' - 1 = next
      /\ \A m \in Nat : m < next => m < next'
      /\ next' = next + 1 => next < next'
    BY <1>1, <1>3, AskedNext
<1>5. /\ store' \in Seq(Message)
      /\ ToSet(store) \subseteq ToSet(store')
      /\ ToSet(store') \subseteq ToSet(store) \cup {next}
      /\ Finished \/ qos[next] # 1 => store' = store
      /\ ~Finished /\ qos[next] = 1 => store' = Append(store, next) /\ next \in ToSet(store')
    BY <1>2, StoredIs
<1>6. PubTypes'
  <2>1. store' \in Seq(1..Len(qos)) /\ unsent \subseteq ToSet(store')
      BY <1>5 DEF PubTypes, Message
  <2>2. mutated' \in BOOLEAN
      BY <1>2 DEF PubTypes
  <2>3. ending' \in BOOLEAN
      BY <1>2 DEF OnPublish, PubTypes
  <2> QED
      BY <1>1, <1>3, <1>4, <2>1, <2>2, <2>3 DEF PubTypes
<1>7. Numbers'
  <2>1. \A m \in ToSet(store') : m < next' /\ qos'[m] = 1
    <3> SUFFICES ASSUME NEW m \in ToSet(store') PROVE m < next' /\ qos[m] = 1
        BY <1>1
    <3>1. CASE m \in ToSet(store)
        BY <1>4, <3>1, QosIs DEF Numbers
    <3>2. CASE m \notin ToSet(store)
      <4>1. m = next /\ ~Finished /\ qos[next] = 1
          BY <1>5, <3>2
      <4> QED
          BY <1>3, <1>4, <4>1
    <3> QED
        BY <3>1, <3>2
  <2>2. \A x \in ToSet(outq') \cup ToSet(toBroker') : x.type = "PUBLISH" => x.msg \in Asked'
      BY <1>1, <1>3, <1>4 DEF Numbers
  <2>3. \A x \in ToSet(toClient') : x.type = "PUBACK" => x.msg \in Asked' /\ got'[x.msg] > 0
      BY <1>1, <1>4 DEF Numbers
  <2> QED
      BY <2>1, <2>2, <2>3 DEF Numbers
<1>8. Setup'
    BY <1>1, <1>3 DEF Setup, Has
<1>9. Kept'
  <2> SUFFICES ASSUME NEW m \in Asked', Owed(m)'
               PROVE  /\ m \in ToSet(store')
                      /\ Carries(outq, m)' \/ Carries(toBroker, m)' \/ m \in unsent'
      BY DEF Kept
  <2>1. CASE m = next /\ next' = next + 1
    <3>1. ~Finished /\ r = PublishPacket(m) /\ qos[m] = 1
        BY <1>1, <1>3, <2>1, QosIs DEF Owed
    <3> QED
        BY <1>3, <1>5, <2>1, <3>1 DEF Carries
  <2>2. CASE m \in Asked
    <3>1. Owed(m)
        BY <1>1 DEF Owed
    <3>2. /\ m \in ToSet(store)
          /\ Carries(outq, m) \/ Carries(toBroker, m) \/ m \in unsent
        BY <1>1, <2>2, <3>1 DEF Kept
    <3> QED
        BY <1>1, <1>3, <1>5, <3>2 DEF Carries
  <2> QED
      BY <1>4, <2>1, <2>2
<1>10. OneChain'
  <2> SUFFICES ASSUME faults = 0 PROVE Chain(next - 1)'
      BY <1>1 DEF OneChain
  <2> DEFINE n == next - 1
  <2>1. Chain(n)
      BY <1>1 DEF OneChain
  <2>2. Queued(n)
    <3>1. outq = <<Packet("DISCONNECT")>> => Head(outq) = Packet("DISCONNECT")
        BY PacketIs, Single
    <3> QED
        BY <1>1, <2>1, <3>1, PacketIs DEF Chain, Sent, Answered, Leaving, p
  <2>3. n \in Nat /\ PublishPacket(n) \in ToBroker /\ PublishPacket(n).msg = n
      BY <2>1, QosIs, PacketIs DEF Chain
  <2>4. q = <<>> /\ p = PublishPacket(n) /\ p.msg = n
      BY <2>2, <2>3, Single DEF Queued, p, q
  <2>5. outq' = <<r>>
      BY <1>3, <2>4, Single
  <2>6. store = <<>> /\ qos[n] = 0 /\ ~Owed(n)
      BY <1>2, <2>2, <2>4 DEF Queued, Owed
  <2>7. Unanswered(toBroker') /\ toClient' = <<>>
      BY <1>1, <1>2, <2>2 DEF Queued, Unanswered
  <2>8. \A m : Owed(m)' <=> Owed(m)
      BY <1>1 DEF Owed
  <2>9. Unanswered(toBroker)'
      BY <1>1, <2>7 DEF Unanswered
  <2>10. CASE Finished
    <3>1. next' = next /\ r = Packet("DISCONNECT") /\ ending'
        BY <1>3, <2>10
    <3>2. Leaving(n)'
        BY <1>5, <2>5, <2>6, <2>7, <2>8, <2>9, <2>10, <3>1 DEF Leaving
    <3> QED
        BY <1>1, <2>1, <2>8, <3>1, <3>2 DEF Chain, Message
  <2>11. CASE ~Finished
    <3>1. next' - 1 = next /\ r = PublishPacket(next) /\ ~ending' /\ next \in Message /\ n + 1 = next
        BY <1>3, <1>4, <2>11, QosIs
    <3>2. store' = IF qos[next] = 1 THEN <<next>> ELSE <<>>
        BY <1>5, <2>6, <2>11, <3>1, Single
    <3>3. SUFFICES ASSUME NEW k, k = next PROVE Chain(k)'
      <4>1. PICK k : k = next
          OBVIOUS
      <4>2. Chain(k)'
          BY <3>3, <4>1
      <4> QED
          BY <3>1, <4>1, <4>2 DEF Chain, Queued, Sent, Answered, Leaving, Unanswered, Owed, Message
    <3>4. Queued(k)'
        BY <1>1, <2>5, <2>7, <2>9, <3>1, <3>2, <3>3 DEF Queued
    <3>5. \A m \in 1..k - 1 : m = n \/ m \in 1..n - 1
        BY <2>3, <3>1, <3>3
    <3>6. \A m \in 1..k - 1 : ~Owed(m)'
        BY <2>1, <2>6, <2>8, <3>5 DEF Chain
    <3> QED
        BY <1>1, <2>1, <3>1, <3>3, <3>4, <3>6 DEF Chain, Message
  <2> QED
      BY <2>10, <2>11
<1>11. TwoChains'
  <2> SUFFICES ASSUME faults =< 1
               PROVE  resume = <<>> /\ unsent = {} /\ NoneBehind(outq')
      BY <1>1 DEF TwoChains
  <2>1. resume = <<>>
      BY <1>1, <1>2 DEF TwoChains
  <2>2. unsent = {}
      BY <1>1, <2>1 DEF TwoChains
  <2>3. NoneBehind(q)
      BY <1>1, NoneBehindKept DEF TwoChains, PubTypes, q
  <2>4. r.type = "PUBLISH" => ~Has(q, "DISCONNECT")
      BY <1>1, <1>3 DEF Setup, Has
  <2>5. NoneBehind(Append(q, r))
      BY <1>1, <2>3, <2>4, NoneBehindKept
  <2> QED
      BY <1>3, <2>1, <2>2, <2>5
<1>12. Ends'
    BY <1>1, <1>3 DEF Ends, Finished
<1> QED
    BY <1>6, <1>7, <1>8, <1>9, <1>10, <1>11, <1>12

LEMMA WriteStep ==
    ASSUME PubInv, Write, UNCHANGED brokerVars
    PROVE  PubInv'
<1>1. WriteConnect \/ WritePublish \/ WriteDisconnect
    BY DEF Write
<1>2. WritePublish => qos[Head(outq).msg] \in {0, 1}
    BY WriteAnyPublish
<1> QED
    BY <1>1, <1>2, WriteConnectStep, WriteDisconnectStep, WriteQos0Step, WriteQos1Step

-----------------------------------------------------------------------------
(* CONNACK and the loop of _handle_connack *)

(* A packet that arrives while the connection is set up ends the handshake. *)
LEMMA ArrivedIs ==
    ASSUME PubInv, NEW type, Arrived(type)
    PROVE  /\ result = "running" /\ resume = <<>> /\ ~flushing
           /\ toClient # <<>> /\ Head(toClient).type = type
           /\ Head(toClient) \in ToClient /\ toClient' = Tail(toClient) /\ toBroker' = toBroker
           /\ toClient' \in Seq(ToClient) /\ ToSet(toClient) = {Head(toClient)} \cup ToSet(toClient')
           /\ type = "PUBACK" => conn = "up"
           /\ type = "CONNACK" \/ type = "REFUSED" =>
                 /\ conn = "opening" /\ outq = <<>> /\ toBroker = <<>> /\ toClient' = <<>>
                 /\ toClient = <<Packet(type)>>
           /\ type = "REFUSED" => refusals > 0
<1> USE DEF PubInv
<1>1. /\ result = "running" /\ resume = <<>> /\ ~flushing /\ conn \in {"opening", "up"}
      /\ toClient # <<>> /\ Head(toClient).type = type
      /\ toClient' = Tail(toClient) /\ toBroker' = toBroker
    BY DEF Arrived, Idle, Running
<1>2. /\ Head(toClient) \in ToClient /\ toClient' \in Seq(ToClient)
      /\ ToSet(toClient) = {Head(toClient)} \cup ToSet(toClient')
    BY <1>1, Taken DEF PubTypes
<1>3. conn = "up" => type = "PUBACK"
    BY <1>1, <1>2 DEF Setup
<1>4. ASSUME conn = "opening"
      PROVE  /\ outq = <<>> /\ toBroker = <<>> /\ toClient' = <<>>
             /\ \/ type = "CONNACK" /\ toClient = <<Packet("CONNACK")>>
                \/ type = "REFUSED" /\ toClient = <<Packet("REFUSED")>> /\ refusals > 0
  <2>1. /\ outq = <<>> /\ toBroker = <<>>
        /\ \/ toClient = <<Packet("CONNACK")>>
           \/ toClient = <<Packet("REFUSED")>> /\ refusals > 0
      BY <1>1, <1>4 DEF Setup, Handshake
  <2>2. \A t \in {"CONNACK", "REFUSED"} :
           toClient = <<Packet(t)>> => Head(toClient).type = t /\ Tail(toClient) = <<>>
      BY PacketIs, Single
  <2> QED
      BY <1>1, <2>1, <2>2
<1> QED
    BY <1>1, <1>2, <1>3, <1>4

LEMMA ConnackStep ==
    ASSUME PubInv, Connack, UNCHANGED brokerVars
    PROVE  PubInv'
<1> USE DEF PubInv
<1>1. /\ result = "running" /\ conn = "opening" /\ outq = <<>> /\ toBroker = <<>> /\ toClient' = <<>>
      /\ toBroker' = <<>> /\ resume = <<>> /\ ~flushing
  <2>1. Arrived("CONNACK")
      BY DEF Connack
  <2> QED
      BY <2>1, ArrivedIs
<1>2. /\ conn' = "up" /\ store' = Stored /\ resume' = Stored /\ mutated' = FALSE
      /\ UNCHANGED <<qos, unsent, flushing, ending, result>>
      /\ UNCHANGED <<got, faults, refusals>>
    BY DEF Connack, brokerVars
<1>3. ~ending /\ unsent = ToSet(store)
    BY <1>1 DEF Setup, Quiet
<1>4. /\ Finished => next' = next /\ outq' = <<>>
      /\ ~Finished => next' = next + 1 /\ outq' = <<PublishPacket(next)>>
    BY <1>1, Single, QosIs DEF Connack, DoPublish
<1>5. /\ next' \in 1..Len(qos) + 1 /\ Asked \subseteq Asked'
      /\ \A m \in Asked' : m \in Asked \/ (m = next /\ next' = next + 1)
      /\ next' = next + 1 => next \in Asked' /\ next' - 1 = next
      /\ \A m \in Nat : m < next => m < next'
      /\ next' = next + 1 => next < next'
    BY <1>2, <1>4, AskedNext
<1>6. /\ store' \in Seq(Message)
      /\ ToSet(store) \subseteq ToSet(store')
      /\ ToSet(store') \subseteq ToSet(store) \cup {next}
      /\ Finished \/ qos[next] # 1 => store' = store
      /\ ~Finished /\ qos[next] = 1 => store' = Append(store, next) /\ next \in ToSet(store')
    BY <1>2, StoredIs
<1>7. /\ outq' \in Seq(ToBroker)
      /\ \A p \in ToSet(outq') : ~Finished /\ p = PublishPacket(next) /\ p.type = "PUBLISH" /\ p.msg = next
      /\ ~Finished => PublishPacket(next) \in ToSet(outq')
      /\ NoneBehind(outq')
  <2>1. CASE Finished
      BY <1>4, <2>1, Nothing, NoneBehindOne, PacketIs
  <2>2. CASE ~Finished
    <3>1. next \in Nat /\ outq' = <<PublishPacket(next)>>
        BY <1>4, <2>2, QosIs
    <3>2. /\ PublishPacket(next) \in ToBroker /\ PublishPacket(next).type = "PUBLISH"
          /\ PublishPacket(next).msg = next
        BY <3>1, PacketIs
    <3>3. /\ outq' \in Seq(ToBroker) /\ ToSet(outq') = {PublishPacket(next)}
          /\ NoneBehind(outq')
        BY <3>1, <3>2, Single, NoneBehindOne
    <3> QED
        BY <2>2, <3>2, <3>3
  <2> QED
      BY <2>1, <2>2
<1>8. /\ ToSet(toBroker') = {} /\ toBroker' \in Seq(ToBroker)
      /\ ToSet(toClient') = {} /\ toClient' \in Seq(ToClient)
    BY <1>1, Nothing
<1>9. PubTypes'
  <2>1. store' \in Seq(1..Len(qos)) /\ resume' \in Seq(1..Len(qos)) /\ unsent \subseteq ToSet(store')
      BY <1>2, <1>3, <1>6 DEF Message
  <2> QED
      BY <1>2, <1>5, <1>7, <1>8, <2>1 DEF PubTypes
<1>10. Numbers'
  <2> SUFFICES ASSUME NEW m \in ToSet(store') PROVE m < next' /\ qos[m] = 1
      BY <1>2, <1>5, <1>4, <1>7, <1>8 DEF Numbers
  <2>1. CASE m \in ToSet(store)
      BY <1>5, <2>1, QosIs DEF Numbers
  <2>2. CASE m \notin ToSet(store)
      BY <1>4, <1>5, <1>6, <2>2
  <2> QED
      BY <2>1, <2>2
<1>11. Setup'
    BY <1>1, <1>2, <1>3, <1>6, <1>7, <1>8 DEF Setup, Has
<1>12. Kept'
  <2> SUFFICES ASSUME NEW m \in Asked', Owed(m)'
               PROVE  m \in ToSet(store') /\ (Carries(outq, m)' \/ m \in unsent')
      BY DEF Kept
  <2>1. CASE m = next /\ next' = next + 1
    <3>1. ~Finished /\ qos[m] = 1
        BY <1>2, <1>4, <2>1, QosIs DEF Owed
    <3> QED
        BY <1>6, <1>7, <2>1, <3>1 DEF Carries
  <2>2. CASE m \in Asked
      BY <1>2, <1>3, <1>6, <2>2 DEF Kept, Owed
  <2> QED
      BY <1>5, <2>1, <2>2
<1>13. OneChain'
  <2> SUFFICES ASSUME faults = 0 PROVE Chain(next - 1)'
      BY <1>2 DEF OneChain
  <2>1. next = 1 /\ store = <<>> /\ ~Finished /\ 1 \in Message
      BY <1>1, QosIs DEF OneChain, Finished, Message
  <2>2. next' - 1 = 1 /\ outq' = <<PublishPacket(1)>>
      BY <1>4, <1>5, <2>1
  <2>3. store' = IF qos[1] = 1 THEN <<1>> ELSE <<>>
      BY <1>6, <2>1, Single
  <2>4. SUFFICES Chain(1)'
      BY <2>2, <2>4 DEF Chain, Queued, Sent, Answered, Leaving, Unanswered, Owed, Message
  <2>5. Queued(1)'
      BY <1>1, <1>2, <1>3, <1>8, <2>2, <2>3 DEF Queued, Unanswered
  <2>6. unsent' = {}
      BY <1>2, <1>3, <2>1, Nothing
  <2> QED
      BY <1>2, <2>1, <2>5, <2>6 DEF Chain, Message
<1>14. TwoChains'
  <2> SUFFICES ASSUME faults =< 1
               PROVE  /\ unsent = {} \/ (~flushing /\ resume' # <<>> /\ unsent = {Head(resume')})
                      /\ resume' # <<>> =>
                            \/ Len(resume') = 1
                            \/ \A p \in ToSet(outq') : p.type = "PUBLISH" => qos[p.msg] = 1
                      /\ ~Has(outq', "DISCONNECT") /\ NoneBehind(outq')
      BY <1>1, <1>2 DEF TwoChains
  <2>1. Len(store) =< 1 /\ store \in Seq(Message)
      BY <1>1 DEF TwoChains, PubTypes, Message
  <2>2. unsent = {} \/ (~flushing /\ resume' # <<>> /\ unsent = {Head(resume')})
    <3>1. CASE store = <<>>
        BY <1>3, <3>1, Nothing
    <3>2. CASE store # <<>>
      <4>1. Len(store) \in Nat \ {0} /\ Len(Tail(store)) = Len(store) - 1 /\ Tail(store) \in Seq(Message)
            /\ ToSet(store) = {Head(store)} \cup ToSet(Tail(store))
          BY <2>1, <3>2, Taken
      <4>2. Tail(store) = <<>>
          BY <2>1, <4>1
      <4>3. ToSet(store) = {Head(store)}
          BY <4>1, <4>2, Nothing
      <4>4. ~Finished => Head(Append(store, next)) = Head(store) /\ Append(store, next) # <<>>
          BY <2>1, <3>2, TailOfAppend, AppendIs, QosIs
      <4> QED
          BY <1>1, <1>2, <1>3, <1>6, <3>2, <4>3, <4>4
    <3> QED
        BY <3>1, <3>2
  <2>3. CASE Finished \/ qos[next] # 1
    <3>1. resume' = store
        BY <1>2, <1>6, <2>3
    <3>2. store # <<>> => Len(store) = 1
        BY <2>1, Short
    <3>3. resume' # <<>> => Len(resume') = 1
        BY <3>1, <3>2
    <3> QED
        BY <1>7, <2>2, <3>3 DEF Has
  <2>4. CASE ~Finished /\ qos[next] = 1
      BY <1>7, <2>2, <2>4 DEF Has
  <2> QED
      BY <2>3, <2>4
<1>15. Ends'
    BY <1>1, <1>2, <1>3 DEF Ends
<1> QED
    BY <1>9, <1>10, <1>11, <1>12, <1>13, <1>14, <1>15

LEMMA ConnackRefusedStep ==
    ASSUME PubInv, ConnackRefused, UNCHANGED brokerVars
    PROVE  PubInv'
<1> USE DEF PubInv
<1>1. /\ result = "running" /\ conn = "opening" /\ outq = <<>> /\ toBroker = <<>> /\ toClient' = <<>>
      /\ toBroker' = <<>> /\ refusals > 0
  <2>1. Arrived("REFUSED")
      BY DEF ConnackRefused
  <2> QED
      BY <2>1, ArrivedIs
<1>2. /\ result' = "raised"
      /\ UNCHANGED <<qos, next, store, unsent, resume, flushing, mutated, outq, conn, ending>>
      /\ UNCHANGED <<got, faults, refusals>>
    BY DEF ConnackRefused, brokerVars
<1>3. /\ ToSet(toBroker') = {} /\ toBroker' \in Seq(ToBroker)
      /\ ToSet(toClient') = {} /\ toClient' \in Seq(ToClient)
    BY <1>1, Nothing
<1>4. PubTypes'
    BY <1>2, <1>3 DEF PubTypes
<1>5. Numbers'
    BY <1>2, <1>3 DEF Numbers, Asked
<1>6. Setup' /\ Kept'
    BY <1>1, <1>2 DEF Setup, Quiet, Handshake, Kept, Owed, Asked
<1>7. OneChain' /\ TwoChains' /\ Ends'
    BY <1>1, <1>2 DEF OneChain, TwoChains, Ends, Finished
<1> QED
    BY <1>4, <1>5, <1>6, <1>7

LEMMA ResumeNextStep ==
    ASSUME PubInv, ResumeNext, UNCHANGED brokerVars
    PROVE  PubInv'
<1> USE DEF PubInv
<1> DEFINE m == Head(resume)
           p == PublishPacket(m)
<1>1. /\ result = "running" /\ resume # <<>> /\ ~flushing /\ ~mutated
      /\ outq' = (IF m \in unsent THEN Append(outq, p) ELSE outq)
      /\ unsent' = unsent \ {m} /\ resume' = Tail(resume) /\ flushing' = TRUE
      /\ UNCHANGED <<qos, next, store, mutated, conn, ending, result, toBroker, toClient>>
      /\ UNCHANGED <<got, faults, refusals>>
    BY DEF ResumeNext, Running, brokerVars
<1>2. conn = "up"
    BY <1>1 DEF Setup, Quiet, PubTypes
<1>3. /\ m \in Message /\ resume' \in Seq(Message) /\ ToSet(resume) = {m} \cup ToSet(resume')
      /\ Len(resume) \in Nat \ {0} /\ Len(resume') = Len(resume) - 1
  <2>1. resume \in Seq(Message)
      BY DEF PubTypes, Message
  <2> QED
      BY <1>1, <2>1, Taken
<1>4. m \in Nat /\ p \in ToBroker /\ p.type = "PUBLISH" /\ p.msg = m
    BY <1>3, PacketIs, QosIs
<1>5. m \in unsent => m \in Asked /\ qos[m] = 1
    BY <1>3, QosIs DEF Numbers, PubTypes, Asked, Message
<1> HIDE DEF m, p
<1>6. /\ outq \in Seq(ToBroker) /\ outq' \in Seq(ToBroker)
      /\ ToSet(outq') = IF m \in unsent THEN ToSet(outq) \cup {p} ELSE ToSet(outq)
  <2>1. outq \in Seq(ToBroker)
      BY DEF PubTypes
  <2>2. Append(outq, p) \in Seq(ToBroker) /\ ToSet(Append(outq, p)) = ToSet(outq) \cup {p}
      BY <1>4, <2>1, Added
  <2> QED
      BY <1>1, <2>1, <2>2
<1>7. PubTypes'
  <2>1. resume' \in Seq(1..Len(qos))
      BY <1>3 DEF Message
  <2> QED
      BY <1>1, <1>6, <2>1 DEF PubTypes
<1>8. Numbers'
    BY <1>1, <1>4, <1>5, <1>6 DEF Numbers, Asked
<1>9. Setup'
    BY <1>1, <1>2, <1>3, <1>4, <1>6 DEF Setup, Has
<1>10. Kept'
  <2> SUFFICES ASSUME NEW x \in Asked, Owed(x)
               PROVE  /\ x \in ToSet(store)
                      /\ PublishPacket(x) \in ToSet(outq') \/ Carries(toBroker, x) \/ x \in unsent'
      BY <1>1 DEF Kept, Owed, Asked, Carries
  <2>1. x \in ToSet(store) /\ (Carries(outq, x) \/ Carries(toBroker, x) \/ x \in unsent)
      BY <1>2 DEF Kept
  <2> QED
      BY <1>1, <1>6, <2>1 DEF Carries, p
<1>11. OneChain'
  <2>1. faults = 0 => unsent = {}
      BY <1>2 DEF OneChain, Chain
  <2>2. faults = 0 => UNCHANGED <<qos, next, store, unsent, outq, ending, toBroker, toClient, conn, got, faults>>
      BY <1>1, <2>1
  <2> QED
      BY <1>1, <2>2 DEF OneChain, Chain, Queued, Sent, Answered, Leaving, Unanswered, Owed, Asked, Message
<1>12. TwoChains'
  <2> SUFFICES ASSUME faults =< 1
               PROVE  /\ unsent' = {} /\ NoneBehind(outq')
                      /\ resume' # <<>> => \A q \in ToSet(outq') : q.type = "PUBLISH" => qos[q.msg] = 1
      BY <1>1, <1>2 DEF TwoChains
  <2>1. unsent' = {}
      BY <1>1, <1>2 DEF TwoChains, m
  <2>2. NoneBehind(outq')
      BY <1>1, <1>2, <1>4, <1>6, NoneBehindKept DEF TwoChains
  <2>3. resume' # <<>> => Len(resume) # 1
    <3>1. Len(resume') = 0 => resume' = <<>>
        BY <1>3
    <3> QED
        BY <1>3, <3>1
  <2> QED
      BY <1>1, <1>2, <1>4, <1>5, <1>6, <2>1, <2>2, <2>3 DEF TwoChains
<1>13. Ends'
    BY <1>1 DEF Ends, Finished
<1> QED
    BY <1>7, <1>8, <1>9, <1>10, <1>11, <1>12, <1>13

LEMMA FlushEndsStep ==
    ASSUME PubInv, FlushEnds, UNCHANGED brokerVars
    PROVE  PubInv'
<1> USE DEF PubInv
<1>1. /\ result = "running" /\ flushing /\ flushing' = FALSE
      /\ UNCHANGED <<qos, next, store, unsent, resume, mutated, outq, conn, ending, result,
                     toBroker, toClient>>
      /\ UNCHANGED <<got, faults, refusals>>
    BY DEF FlushEnds, Running, brokerVars
<1>2. conn = "up"
    BY <1>1 DEF Setup, Quiet, PubTypes
<1>3. PubTypes' /\ Numbers'
    BY <1>1 DEF PubTypes, Numbers, Asked
<1>4. Setup' /\ Kept'
    BY <1>1, <1>2 DEF Setup, Has, Kept, Owed, Asked, Carries
<1>5. OneChain'
    BY <1>1 DEF OneChain, Chain, Queued, Sent, Answered, Leaving, Unanswered, Owed, Asked, Message
<1>6. TwoChains'
    BY <1>1, <1>2 DEF TwoChains, Has, NoneBehind
<1>7. Ends'
    BY <1>1 DEF Ends, Finished
<1> QED
    BY <1>3, <1>4, <1>5, <1>6, <1>7

LEMMA ResumeRaisesStep ==
    ASSUME PubInv, ResumeRaises, UNCHANGED brokerVars
    PROVE  PubInv'
<1> USE DEF PubInv
<1>1. /\ result = "running" /\ resume # <<>> /\ mutated /\ result' = "raised"
      /\ UNCHANGED <<qos, next, store, unsent, resume, flushing, mutated, outq, conn, ending,
                     toBroker, toClient>>
      /\ UNCHANGED <<got, faults, refusals>>
    BY DEF ResumeRaises, Running, brokerVars
<1>2. conn = "up"
    BY <1>1 DEF Setup, Quiet, PubTypes
<1>3. ~(faults =< 1)
    BY <1>1, <1>2 DEF TwoChains
<1>4. PubTypes' /\ Numbers'
    BY <1>1 DEF PubTypes, Numbers, Asked
<1>5. Setup' /\ Kept'
    BY <1>1, <1>2 DEF Setup, Has, Kept, Owed, Asked, Carries
<1>6. OneChain' /\ TwoChains' /\ Ends'
    BY <1>1, <1>3 DEF PubTypes, OneChain, TwoChains, Ends, Finished
<1> QED
    BY <1>4, <1>5, <1>6

-----------------------------------------------------------------------------
(* PUBACK and lost connections *)

(* The answer to a message that is still stored goes on with the chain.     *)
LEMMA AnswerStep ==
    ASSUME PubInv, Puback, Head(toClient).msg \in ToSet(store), UNCHANGED brokerVars
    PROVE  PubInv'
<1> USE DEF PubInv
<1> DEFINE m == Head(toClient).msg
<1>1. /\ result = "running" /\ conn = "up" /\ resume = <<>> /\ ~flushing
      /\ toClient # <<>> /\ Head(toClient) \in ToClient /\ Head(toClient).type = "PUBACK"
      /\ toClient' = Tail(toClient) /\ toBroker' = toBroker
      /\ toClient' \in Seq(ToClient) /\ ToSet(toClient) = {Head(toClient)} \cup ToSet(toClient')
  <2>1. Arrived("PUBACK")
      BY DEF Puback
  <2> QED
      BY <2>1, ArrivedIs
<1>2. /\ m \in ToSet(store) /\ OnPublish(outq) /\ store' = RemoveFirst(Stored, m)
      /\ UNCHANGED <<qos, unsent, resume, flushing, mutated, conn, result>>
      /\ UNCHANGED <<got, faults, refusals>>
    BY DEF Puback, brokerVars
<1>3. m \in Asked /\ got[m] > 0 /\ ~Owed(m) /\ m < next /\ m \in Message
  <2>1. m \in Asked /\ got[m] > 0 /\ m < next
      BY <1>1, <1>2 DEF Numbers
  <2> QED
      BY <2>1, QosIs DEF Owed
<1>4. Head(toClient) = Acked(m)
    BY <1>1, PacketIs
<1> HIDE DEF m
<1>5. PICK r \in ToBroker :
              /\ outq' = Append(outq, r) /\ outq' \in Seq(ToBroker) /\ ToSet(outq') = ToSet(outq) \cup {r}
              /\ \/ /\ Finished /\ r = Packet("DISCONNECT") /\ r.type = "DISCONNECT"
                    /\ next' = next /\ ending'
                 \/ /\ ~Finished /\ r = PublishPacket(next) /\ r.type = "PUBLISH" /\ r.msg = next
                    /\ next' = next + 1 /\ ~ending /\ ~ending'
  <2>1. (ending => Finished) /\ outq \in Seq(ToBroker)
      BY DEF Ends, PubTypes
  <2> QED
      BY <1>2, <2>1, OnPublishIs
<1>6. /\ next' \in 1..Len(qos) + 1 /\ Asked \subseteq Asked'
      /\ \A x \in Asked' : x \in Asked \/ (x = next /\ next' = next + 1)
      /\ next' = next + 1 => next \in Asked' /\ next' - 1 = next
      /\ \A x \in Nat : x < next => x < next'
      /\ next' = next + 1 => next < next'
    BY <1>2, <1>5, AskedNext
<1>7. /\ Stored \in Seq(Message) /\ ToSet(store) \subseteq ToSet(Stored)
      /\ ToSet(Stored) \subseteq ToSet(store) \cup {next}
      /\ Finished \/ qos[next] # 1 => Stored = store
      /\ ~Finished /\ qos[next] = 1 => Stored = Append(store, next) /\ next \in ToSet(Stored)
    BY StoredIs
<1>8. /\ store' \in Seq(Message) /\ Len(store') = Len(Stored) - 1
      /\ ToSet(store') \subseteq ToSet(Stored) /\ ToSet(Stored) \ {m} \subseteq ToSet(store')
  <2> DEFINE s == Stored
  <2>1. s \in Seq(Message) /\ m \in ToSet(s)
      BY <1>2, <1>7
  <2> HIDE DEF s
  <2>2. /\ RemoveFirst(s, m) \in Seq(Message) /\ Len(RemoveFirst(s, m)) = Len(s) - 1
        /\ ToSet(RemoveFirst(s, m)) \subseteq ToSet(s) /\ ToSet(s) \ {m} \subseteq ToSet(RemoveFirst(s, m))
      BY <2>1, RemovedIs
  <2> QED
      BY <1>2, <2>2 DEF s
<1>9. unsent = {}
    BY <1>1, Nothing DEF Setup
<1>10. PubTypes'
  <2>1. store' \in Seq(1..Len(qos)) /\ unsent \subseteq ToSet(store')
      BY <1>8, <1>9 DEF Message
  <2>2. ending' \in BOOLEAN
      BY <1>2 DEF OnPublish, PubTypes
  <2> QED
      BY <1>1, <1>2, <1>5, <1>6, <2>1, <2>2 DEF PubTypes
<1>11. Numbers'
  <2>1. \A x \in ToSet(store') : x < next' /\ qos'[x] = 1
    <3> SUFFICES ASSUME NEW x \in ToSet(store') PROVE x < next' /\ qos[x] = 1
        BY <1>2
    <3>1. CASE x \in ToSet(store)
        BY <1>6, <3>1, QosIs DEF Numbers
    <3>2. CASE x \notin ToSet(store)
      <4>1. x = next /\ ~Finished /\ qos[next] = 1
          BY <1>7, <1>8, <3>2
      <4> QED
          BY <1>5, <1>6, <4>1
    <3> QED
        BY <3>1, <3>2
  <2>2. \A x \in ToSet(outq') \cup ToSet(toBroker') : x.type = "PUBLISH" => x.msg \in Asked'
      BY <1>1, <1>5, <1>6 DEF Numbers
  <2>3. \A x \in ToSet(toClient') : x.type = "PUBACK" => x.msg \in Asked' /\ got'[x.msg] > 0
      BY <1>1, <1>2, <1>6 DEF Numbers
  <2> QED
      BY <2>1, <2>2, <2>3 DEF Numbers
<1>12. Setup'
    BY <1>1, <1>2, <1>5 DEF Setup, Has
<1>13. Kept'
  <2> SUFFICES ASSUME NEW x \in Asked', Owed(x)'
               PROVE  x \in ToSet(store') /\ (Carries(outq, x)' \/ Carries(toBroker, x)' \/ x \in unsent')
      BY DEF Kept
  <2>1. CASE x = next /\ next' = next + 1
    <3>1. ~Finished /\ r = PublishPacket(x) /\ qos[x] = 1 /\ x # m
        BY <1>2, <1>3, <1>5, <2>1, QosIs DEF Owed
    <3> QED
        BY <1>5, <1>7, <1>8, <2>1, <3>1 DEF Carries
  <2>2. CASE x \in Asked
    <3>1. Owed(x) /\ x # m
        BY <1>2, <1>3 DEF Owed
    <3>2. x \in ToSet(store) /\ (Carries(outq, x) \/ Carries(toBroker, x) \/ x \in unsent)
        BY <1>1, <2>2, <3>1 DEF Kept
    <3> QED
        BY <1>1, <1>5, <1>7, <1>8, <1>9, <3>1, <3>2 DEF Carries
  <2> QED
      BY <1>6, <2>1, <2>2
<1>14. OneChain'
  <2> SUFFICES ASSUME faults = 0 PROVE Chain(next - 1)'
      BY <1>1, <1>2 DEF OneChain
  <2> DEFINE n == next - 1
  <2>1. Chain(n)
      BY <1>1 DEF OneChain
  <2>2. Answered(n)
      BY <1>1, <2>1 DEF Chain, Queued, Sent, Leaving
  <2>3. n \in Nat /\ n \in Message /\ Acked(n) \in ToClient /\ Acked(n).msg = n
      BY <2>1, QosIs, PacketIs DEF Chain
  <2>4. m = n /\ toClient' = <<>>
      BY <1>1, <2>2, <2>3, Single DEF Answered, m
  <2>5. outq' = <<r>>
      BY <1>5, <2>2, Single DEF Answered
  <2>6. store = <<n>> /\ store \in Seq(Message) /\ Len(store) = 1 /\ ToSet(store) = {n}
      BY <2>2, <2>3, Single DEF Answered
  <2>7. \A x : Owed(x)' <=> Owed(x)
      BY <1>2 DEF Owed
  <2>8. Unanswered(toBroker)'
      BY <1>1, <2>2, Nothing DEF Answered, Unanswered
  <2>9. Finished \/ qos[next] # 1 => store' = <<>>
    <3>1. Finished \/ qos[next] # 1 => Len(store') = 0
        BY <1>7, <1>8, <2>6
    <3>2. store' \in Seq(Message)
        BY <1>8
    <3> QED
        BY <3>1, <3>2, Short
  <2>10. ~Finished /\ qos[next] = 1 => store' = <<next>>
    <3> SUFFICES ASSUME ~Finished, qos[next] = 1 PROVE store' = <<next>>
        OBVIOUS
    <3>1. next \in Message
        BY QosIs
    <3>2. Len(Stored) = 2
        BY <1>7, <2>6, <3>1, Added
    <3>3. Len(store') = 1
        BY <1>8, <3>2
    <3>4. next \in ToSet(store')
        BY <1>3, <1>7, <1>8, QosIs
    <3>5. store' = <<Head(store')>> /\ Head(store') \in Message
      <4>1. store' \in Seq(Message)
          BY <1>8
      <4> QED
          BY <3>3, <4>1, Short
    <3>6. ToSet(<<Head(store')>>) = {Head(store')}
        BY <3>5, Single
    <3> QED
        BY <3>4, <3>5, <3>6
  <2>11. CASE Finished
    <3>1. next' = next /\ r = Packet("DISCONNECT") /\ ending'
        BY <1>5, <2>11
    <3>2. Leaving(n)'
        BY <1>3, <2>4, <2>5, <2>7, <2>8, <2>9, <2>11, <3>1 DEF Leaving
    <3> QED
        BY <1>2, <1>9, <2>1, <2>7, <3>1, <3>2 DEF Chain, Message
  <2>12. CASE ~Finished
    <3>1. next' - 1 = next /\ r = PublishPacket(next) /\ ~ending' /\ next \in Message /\ n + 1 = next
        BY <1>5, <1>6, <2>12, QosIs
    <3>2. store' = IF qos[next] = 1 THEN <<next>> ELSE <<>>
        BY <2>9, <2>10, <2>12
    <3>3. SUFFICES ASSUME NEW k, k = next PROVE Chain(k)'
      <4>1. PICK k : k = next
          OBVIOUS
      <4>2. Chain(k)'
          BY <3>3, <4>1
      <4> QED
          BY <3>1, <4>1, <4>2 DEF Chain, Queued, Sent, Answered, Leaving, Unanswered, Owed, Message
    <3>4. Queued(k)'
        BY <1>2, <2>4, <2>5, <2>8, <3>1, <3>2, <3>3 DEF Queued
    <3>5. \A x \in 1..k - 1 : x = n \/ x \in 1..n - 1
        BY <2>3, <3>1, <3>3
    <3>6. \A x \in 1..k - 1 : ~Owed(x)'
        BY <1>3, <2>1, <2>4, <2>7, <3>5 DEF Chain
    <3> QED
        BY <1>2, <1>9, <3>1, <3>3, <3>4, <3>6 DEF Chain, Message
  <2> QED
      BY <2>11, <2>12
<1>15. TwoChains'
  <2> SUFFICES ASSUME faults =< 1 PROVE NoneBehind(outq')
      BY <1>1, <1>2, <1>9 DEF TwoChains
  <2>1. NoneBehind(outq) /\ outq \in Seq(ToBroker)
      BY <1>1 DEF TwoChains, PubTypes
  <2>2. r.type = "PUBLISH" => ~Has(outq, "DISCONNECT")
      BY <1>1, <1>5 DEF Setup
  <2> QED
      BY <1>5, <2>1, <2>2, NoneBehindKept
<1>16. Ends'
    BY <1>1, <1>2, <1>5 DEF Ends, Finished
<1> QED
    BY <1>10, <1>11, <1>12, <1>13, <1>14, <1>15, <1>16

(* The answer to one that is not stored any more changes nothing.           *)
LEMMA LateAnswerStep ==
    ASSUME PubInv, Puback, Head(toClient).msg \notin ToSet(store), UNCHANGED brokerVars
    PROVE  PubInv'
<1> USE DEF PubInv
<1>1. /\ result = "running" /\ conn = "up" /\ resume = <<>> /\ ~flushing
      /\ toClient # <<>> /\ Head(toClient) \in ToClient /\ Head(toClient).type = "PUBACK"
      /\ toClient' = Tail(toClient) /\ toBroker' = toBroker
      /\ toClient' \in Seq(ToClient) /\ ToSet(toClient) = {Head(toClient)} \cup ToSet(toClient')
  <2>1. Arrived("PUBACK")
      BY DEF Puback
  <2> QED
      BY <2>1, ArrivedIs
<1>2. /\ UNCHANGED <<outq, ending, next, store>>
      /\ UNCHANGED <<qos, unsent, resume, flushing, mutated, conn, result>>
      /\ UNCHANGED <<got, faults, refusals>>
    BY DEF Puback, brokerVars
<1>3. PubTypes'
    BY <1>1, <1>2 DEF PubTypes
<1>4. Numbers'
    BY <1>1, <1>2 DEF Numbers, Asked
<1>5. Setup' /\ Kept'
    BY <1>1, <1>2 DEF Setup, Has, Kept, Owed, Asked, Carries
<1>6. faults # 0
  <2> SUFFICES ASSUME faults = 0 PROVE FALSE
      OBVIOUS
  <2>1. Chain(next - 1)
      BY <1>1 DEF OneChain
  <2>2. Answered(next - 1)
      BY <1>1, <2>1 DEF Chain, Queued, Sent, Leaving
  <2>3. next - 1 \in Nat /\ Acked(next - 1) \in ToClient /\ Acked(next - 1).msg = next - 1
      BY QosIs, PacketIs
  <2>4. Head(toClient).msg = next - 1 /\ next - 1 \in ToSet(store)
      BY <2>2, <2>3, Single DEF Answered
  <2> QED
      BY <2>4
<1>7. OneChain' /\ TwoChains' /\ Ends'
    BY <1>1, <1>2, <1>6 DEF OneChain, TwoChains, Has, NoneBehind, Ends, Finished
<1> QED
    BY <1>3, <1>4, <1>5, <1>7

LEMMA BreakStep ==
    ASSUME PubInv, Break, faults' = faults + 1, got' = got, refusals' = refusals
    PROVE  PubInv'
<1> USE DEF PubInv
<1>1. /\ result = "running" /\ conn \in {"opening", "up"}
      /\ toBroker' = <<>> /\ toClient' = <<>> /\ resume' = <<>> /\ flushing' = FALSE
      /\ conn' = (IF ending THEN "closed" ELSE "down")
      /\ result' = (IF ending THEN "returned" ELSE result)
      /\ UNCHANGED <<qos, next, store, unsent, mutated, outq, ending>>
    BY DEF Break, Running
<1>2. /\ toBroker' \in Seq(ToBroker) /\ ToSet(toBroker') = {}
      /\ toClient' \in Seq(ToClient) /\ ToSet(toClient') = {}
      /\ resume' \in Seq(1..Len(qos))
    BY <1>1, Nothing
<1>3. faults \in Nat /\ faults' \in Nat /\ faults' # 0 /\ (faults' =< 1 => faults = 0)
    BY DEF PubTypes
<1>4. PubTypes'
    BY <1>1, <1>2, <1>3 DEF PubTypes
<1>5. Numbers'
    BY <1>1, <1>2 DEF Numbers, Asked
<1>6. Setup'
    BY <1>1, <1>2 DEF Setup, Quiet, PubTypes
<1>7. Kept'
    BY <1>1 DEF Kept, Owed, Asked, PubTypes
<1>8. ASSUME faults = 0
      PROVE  Len(store) =< 1 /\ (ending => \A m \in Asked : ~Owed(m))
  <2>1. CASE conn = "opening"
      BY <1>8, <2>1, Nothing DEF OneChain, Setup, Quiet
  <2>2. CASE conn = "up"
    <3> DEFINE n == next - 1
    <3>1. Chain(n) /\ n \in Nat
        BY <1>8, <2>2, QosIs DEF OneChain
    <3>2. store = <<n>> \/ store = <<>>
        BY <3>1 DEF Chain, Queued, Sent, Answered, Leaving
    <3>3. Len(<<n>>) = 1 /\ Len(<<>>) = 0
        BY <3>1, Single, Nothing
    <3>4. \A m \in Asked : m = n \/ m \in 1..n - 1
        BY QosIs DEF Asked
    <3>5. ending => \A m \in Asked : ~Owed(m)
        BY <3>1, <3>4 DEF Chain, Queued, Sent, Answered, Leaving
    <3>6. Len(store) =< 1
        BY <3>2, <3>3
    <3> QED
        BY <3>5, <3>6
  <2> QED
      BY <1>1, <2>1, <2>2
<1>9. OneChain' /\ TwoChains'
    BY <1>1, <1>3, <1>8 DEF OneChain, TwoChains, PubTypes
<1>10. Ends'
    BY <1>1, <1>3, <1>8 DEF Ends, Finished, Owed, Asked
<1> QED
    BY <1>4, <1>5, <1>6, <1>7, <1>9, <1>10

LEMMA TailLostStep ==
    ASSUME PubInv, TailLost
    PROVE  PubInv'
<1> USE DEF PubInv
<1>1. /\ conn = "closed" /\ toBroker' = <<>> /\ faults' = faults + 1
      /\ UNCHANGED <<qos, next, store, unsent, resume, flushing, mutated, outq, conn, ending, result>>
      /\ UNCHANGED <<toClient, got, refusals>>
    BY DEF TailLost, pubVars
<1>2. toBroker' \in Seq(ToBroker) /\ ToSet(toBroker') = {}
    BY <1>1, Nothing
<1>3. faults \in Nat /\ faults' \in Nat /\ faults' # 0 /\ (faults' =< 1 => faults = 0)
    BY <1>1 DEF PubTypes
<1>4. PubTypes'
    BY <1>1, <1>2, <1>3 DEF PubTypes
<1>5. Numbers'
    BY <1>1, <1>2 DEF Numbers, Asked
<1>6. Setup' /\ Kept'
    BY <1>1, <1>2 DEF Setup, Kept, Owed, Asked
<1>7. OneChain' /\ TwoChains'
    BY <1>1, <1>3 DEF OneChain, TwoChains
<1>8. Ends'
    BY <1>1, <1>3 DEF Ends, OneChain, Setup, Finished, Owed, Asked
<1> QED
    BY <1>4, <1>5, <1>6, <1>7, <1>8

-----------------------------------------------------------------------------
(* The broker and the publisher *)

LEMMA TakeIs ==
    ASSUME PubInv, NEW type, PubTake(type)
    PROVE  LET p == Head(toBroker)
           IN  /\ toBroker # <<>> /\ p \in ToBroker /\ p.type = type
               /\ toBroker \in Seq(ToBroker)
               /\ toBroker' = Tail(toBroker) /\ toBroker' \in Seq(ToBroker)
               /\ ToSet(toBroker) = {p} \cup ToSet(toBroker')
               /\ UNCHANGED <<qos, next, store, unsent, resume, flushing, mutated, outq, conn,
                              ending, result>>
               /\ type = "CONNECT" => conn = "opening"
               /\ conn = "opening" => /\ outq = <<>> /\ toClient = <<>> /\ toBroker' = <<>>
                                      /\ type = "CONNECT"
               /\ conn \in {"opening", "up", "closed"}
<1> USE DEF PubInv
<1> DEFINE p == Head(toBroker)
<1>1. /\ toBroker # <<>> /\ p.type = type /\ toBroker' = Tail(toBroker)
      /\ UNCHANGED <<qos, next, store, unsent, resume, flushing, mutated, outq, conn, ending, result>>
    BY DEF PubTake, pubVars
<1>2. /\ p \in ToBroker /\ Tail(toBroker) \in Seq(ToBroker) /\ toBroker \in Seq(ToBroker)
      /\ ToSet(toBroker) = {p} \cup ToSet(Tail(toBroker))
    BY <1>1, Taken DEF PubTypes
<1>3. conn \in {"opening", "up", "closed"} /\ (type = "CONNECT" => conn = "opening")
    BY <1>1, <1>2 DEF Setup, PubTypes
<1>4. ASSUME conn = "opening"
      PROVE  outq = <<>> /\ toClient = <<>> /\ Tail(toBroker) = <<>> /\ type = "CONNECT"
  <2>1. toBroker = <<Packet("CONNECT")>> /\ outq = <<>> /\ toClient = <<>>
      BY <1>1, <1>4 DEF Setup, Handshake
  <2> QED
      BY <1>1, <2>1, PacketIs, Single
<1> QED
    BY <1>1, <1>2, <1>3, <1>4

LEMMA BrokerAcceptsStep ==
    ASSUME PubInv, BrokerAccepts
    PROVE  PubInv'
<1> USE DEF PubInv
<1>1. /\ conn = "opening" /\ outq = <<>> /\ toClient = <<>> /\ toBroker' = <<>>
      /\ UNCHANGED <<qos, next, store, unsent, resume, flushing, mutated, outq, conn, ending, result>>
  <2>1. PubTake("CONNECT")
      BY DEF BrokerAccepts
  <2> QED
      BY <2>1, TakeIs
<1>2. PICK type \in {"CONNACK", "REFUSED"} :
              /\ toClient' = Append(toClient, Packet(type))
              /\ refusals' \in Nat /\ refusals =< refusals' /\ (type = "REFUSED" => refusals' > 0)
    BY DEF BrokerAccepts, PubTypes
<1>3. got' = got /\ faults' = faults
    BY DEF BrokerAccepts
<1>4. Packet(type) \in ToClient /\ Packet(type).type = type
    BY PacketIs
<1>5. toClient' = <<Packet(type)>>
    BY <1>1, <1>2, <1>4, Single
<1>6. /\ toBroker' \in Seq(ToBroker) /\ ToSet(toBroker') = {}
      /\ toClient' \in Seq(ToClient) /\ ToSet(toClient') = {Packet(type)}
    BY <1>1, <1>4, <1>5, Nothing, Single
<1>7. PubTypes'
    BY <1>1, <1>2, <1>3, <1>6 DEF PubTypes
<1>8. Numbers'
    BY <1>1, <1>3, <1>4, <1>6 DEF Numbers, Asked
<1>9. Setup' /\ Kept'
    BY <1>1, <1>2, <1>3, <1>5 DEF Setup, Quiet, Handshake, Kept, Owed, Asked
<1>10. OneChain' /\ TwoChains'
    BY <1>1, <1>3 DEF OneChain, TwoChains
<1>11. Ends'
  <2>1. refusals > 0 => refusals' > 0
      BY <1>2 DEF PubTypes
  <2> QED
      BY <1>1, <1>3, <2>1 DEF Ends, Setup, Finished
<1> QED
    BY <1>7, <1>8, <1>9, <1>10, <1>11

LEMMA BrokerDisconnectedStep ==
    ASSUME PubInv, BrokerDisconnected
    PROVE  PubInv'
<1> USE DEF PubInv
<1> DEFINE p == Head(toBroker)
<1>1. /\ toBroker # <<>> /\ p \in ToBroker /\ p.type = "DISCONNECT"
      /\ toBroker \in Seq(ToBroker)
      /\ toBroker' = Tail(toBroker) /\ toBroker' \in Seq(ToBroker)
      /\ ToSet(toBroker) = {p} \cup ToSet(toBroker')
      /\ UNCHANGED <<qos, next, store, unsent, resume, flushing, mutated, outq, conn, ending, result>>
      /\ conn \in {"up", "closed"}
  <2>1. PubTake("DISCONNECT")
      BY DEF BrokerDisconnected
  <2> QED
      BY <2>1, TakeIs
<1>2. UNCHANGED <<toClient, got, faults, refusals>>
    BY DEF BrokerDisconnected, brokerVars
<1>3. \A m \in Nat : Carries(toBroker, m) => Carries(toBroker, m)'
    BY <1>1, PacketIs DEF Carries
<1>4. \A m \in Asked : m \in Nat
    BY QosIs
<1>5. PubTypes'
    BY <1>1, <1>2 DEF PubTypes
<1>6. Numbers'
    BY <1>1, <1>2 DEF Numbers, Asked
<1>7. Setup'
    BY <1>1, <1>2 DEF Setup, Has
<1>8. Kept'
    BY <1>1, <1>2, <1>3, <1>4 DEF Kept, Owed, Asked, Carries
<1>9. faults = 0 => conn = "closed"
  <2> SUFFICES ASSUME faults = 0, conn = "up" PROVE FALSE
      BY <1>1
  <2> DEFINE n == next - 1
             s == Front(toBroker)
  <2>1. Chain(n)
      BY DEF OneChain
  <2>2. ~Unanswered(toBroker) /\ toBroker # <<>>
      BY <1>1 DEF Unanswered
  <2>3. Sent(n)
      BY <2>1, <2>2 DEF Chain, Queued, Answered, Leaving
  <2>4. n \in Nat /\ PublishPacket(n) \in ToBroker /\ PublishPacket(n).type = "PUBLISH"
      BY QosIs, PacketIs
  <2>5. s \in Seq(ToBroker) /\ toBroker = Append(s, PublishPacket(n)) /\ Unanswered(s)
      BY <2>3 DEF Sent
  <2> HIDE DEF s
  <2>6. CASE s = <<>>
      BY <1>1, <2>4, <2>5, <2>6, TailOfAppend
  <2>7. CASE s # <<>>
    <3>1. Head(toBroker) = Head(s) /\ Head(s) \in ToSet(s)
        BY <2>4, <2>5, <2>7, TailOfAppend, Taken
    <3> QED
        BY <1>1, <2>5, <3>1 DEF Unanswered
  <2> QED
      BY <2>6, <2>7
<1>10. OneChain' /\ TwoChains'
    BY <1>1, <1>2, <1>9 DEF OneChain, TwoChains, Has, NoneBehind, Owed, Asked
<1>11. Ends'
    BY <1>1, <1>2, <1>3, <1>4 DEF Ends, Finished, Owed, Asked
<1> QED
    BY <1>5, <1>6, <1>7, <1>8, <1>10, <1>11

LEMMA BrokerReceivesStep ==
    ASSUME PubInv, BrokerReceives
    PROVE  PubInv'
<1> USE DEF PubInv
<1> DEFINE p == Head(toBroker)
           m == p.msg
<1>1. /\ toBroker # <<>> /\ p \in ToBroker /\ p.type = "PUBLISH"
      /\ toBroker \in Seq(ToBroker)
      /\ toBroker' = Tail(toBroker) /\ toBroker' \in Seq(ToBroker)
      /\ ToSet(toBroker) = {p} \cup ToSet(toBroker')
      /\ UNCHANGED <<qos, next, store, unsent, resume, flushing, mutated, outq, conn, ending, result>>
      /\ conn \in {"up", "closed"}
  <2>1. PubTake("PUBLISH")
      BY DEF BrokerReceives
  <2> QED
      BY <2>1, TakeIs
<1>2. /\ got' = [got EXCEPT ![m] = @ + 1]
      /\ toClient' = (IF qos[m] = 0 THEN toClient ELSE Append(toClient, Acked(m)))
      /\ faults' = faults /\ refusals' = refusals
    BY DEF BrokerReceives, Acked
<1>3. p = PublishPacket(m)
    BY <1>1, PacketIs
<1>4. m \in Asked /\ m \in Message /\ m \in Nat /\ qos[m] \in {0, 1} /\ Acked(m) \in ToClient
      /\ Acked(m).type = "PUBACK" /\ Acked(m).msg = m /\ PublishPacket(m).msg = m
  <2>1. m \in Asked
      BY <1>1 DEF Numbers
  <2> QED
      BY <2>1, PacketIs, QosIs
<1> HIDE DEF m
<1>5. /\ got' \in [Message -> Nat] /\ got'[m] > 0
      /\ \A x \in Message : got[x] > 0 => got'[x] > 0
      /\ \A x \in Message : x # m => got'[x] = got[x]
  <2>1. got \in [Message -> Nat] /\ m \in Message
      BY <1>4 DEF PubTypes, Message
  <2>2. got' \in [Message -> Nat] /\ got'[m] = got[m] + 1 /\ \A x \in Message : x # m => got'[x] = got[x]
      BY <1>2, <2>1
  <2>3. \A x \in Message : got[x] \in Nat
      BY <2>1
  <2> QED
      BY <2>1, <2>2, <2>3
<1>6. \A x \in Message : Owed(x)' => Owed(x) /\ x # m
  <2>1. \A x \in Message : got[x] \in Nat
      BY DEF PubTypes, Message
  <2> QED
      BY <1>1, <1>5, <2>1 DEF Owed
<1>7. /\ toClient' \in Seq(ToClient)
      /\ ToSet(toClient') \subseteq ToSet(toClient) \cup {Acked(m)}
  <2>1. toClient \in Seq(ToClient)
      BY DEF PubTypes
  <2>2. /\ Append(toClient, Acked(m)) \in Seq(ToClient)
        /\ ToSet(Append(toClient, Acked(m))) = ToSet(toClient) \cup {Acked(m)}
      BY <1>4, <2>1, Added
  <2> QED
      BY <1>2, <2>1, <2>2
<1>8. \A x \in Nat : x # m /\ Carries(toBroker, x) => Carries(toBroker, x)'
    BY <1>1, <1>3, <1>4, PacketIs DEF Carries
<1>9. Asked' = Asked /\ Asked \subseteq Message /\ \A x \in Message : x \in Nat
    BY <1>1, QosIs DEF Asked
<1>10. PubTypes'
    BY <1>1, <1>2, <1>5, <1>7 DEF PubTypes, Message
<1>11. Numbers'
  <2>1. \A x \in ToSet(toClient') : x.type = "PUBACK" => x.msg \in Asked /\ got'[x.msg] > 0
      BY <1>4, <1>5, <1>7, <1>9 DEF Numbers
  <2> QED
      BY <1>1, <1>9, <2>1 DEF Numbers
<1>12. Setup'
    BY <1>1, <1>2, <1>4, <1>7 DEF Setup, Has
<1>13. Kept'
    BY <1>1, <1>6, <1>8, <1>9 DEF Kept, Carries
<1>14. OneChain'
  <2>1. ASSUME faults = 0, conn = "up" PROVE Chain(next - 1)'
    <3> DEFINE n == next - 1
               s == Front(toBroker)
    <3>1. Chain(n) /\ n \in Message /\ n \in Nat /\ 1..n - 1 \subseteq Message
        BY <2>1, <1>9, QosIs DEF OneChain, Chain, Message
    <3>2. \A x \in 1..n - 1 : ~Owed(x)'
        BY <1>6, <3>1 DEF Chain
    <3>3. CASE Unanswered(toBroker)
      <4>1. toClient' = toClient /\ Unanswered(toBroker)'
          BY <1>1, <1>2, <3>3 DEF Unanswered, m
      <4>2. ~Sent(n) /\ ~Answered(n)
        <5>1. qos[m] = 0
            BY <1>1, <3>3 DEF Unanswered, m
        <5>2. Sent(n) => qos[n] = 1
            BY <3>1, Single DEF Sent, Numbers
        <5>3. Sent(n) => PublishPacket(n) \in ToSet(toBroker)
          <6> SUFFICES ASSUME Sent(n) PROVE PublishPacket(n) \in ToSet(toBroker)
              OBVIOUS
          <6>1. s \in Seq(ToBroker) /\ PublishPacket(n) \in ToBroker /\ toBroker = Append(s, PublishPacket(n))
              BY <3>1, PacketIs DEF Sent
          <6> HIDE DEF s
          <6> QED
              BY <6>1, Added
        <5>4. PublishPacket(n).msg = n
            BY <3>1, PacketIs
        <5> QED
            BY <1>1, <3>3, <5>2, <5>3, <5>4 DEF Unanswered, Answered
      <4>3. Queued(n)' \/ Leaving(n)'
          BY <1>1, <1>6, <3>1, <4>1, <4>2 DEF Chain, Queued, Leaving
      <4> QED
          BY <1>1, <3>1, <3>2, <4>3 DEF Chain, Message
    <3>4. CASE ~Unanswered(toBroker)
      <4>1. Sent(n)
          BY <1>1, <3>1, <3>4 DEF Chain, Queued, Answered, Leaving
      <4>2. /\ s \in Seq(ToBroker) /\ toBroker = Append(s, PublishPacket(n)) /\ Unanswered(s)
            /\ PublishPacket(n) \in ToBroker /\ PublishPacket(n).msg = n
          BY <3>1, <4>1, PacketIs DEF Sent
      <4>3. qos[n] = 1
          BY <3>1, <4>1, Single DEF Sent, Numbers
      <4> HIDE DEF s
      <4>4. CASE s = <<>>
        <5>1. m = n /\ toBroker' = <<>>
            BY <1>1, <4>2, <4>4, TailOfAppend DEF m
        <5>2. toClient' = <<Acked(n)>>
            BY <1>2, <1>4, <4>1, <4>3, <5>1, Single DEF Sent
        <5>3. Answered(n)'
            BY <1>1, <4>1, <5>1, <5>2 DEF Answered, Sent
        <5> QED
            BY <1>1, <3>1, <3>2, <5>3 DEF Chain, Message
      <4>5. CASE s # <<>>
        <5>1. /\ p = Head(s) /\ toBroker' = Append(Tail(s), PublishPacket(n))
              /\ Head(s) \in ToSet(s) /\ Tail(s) \in Seq(ToBroker)
              /\ ToSet(s) = {Head(s)} \cup ToSet(Tail(s))
          <6>1. /\ Head(s) \in ToSet(s) /\ Tail(s) \in Seq(ToBroker)
                /\ ToSet(s) = {Head(s)} \cup ToSet(Tail(s))
              BY <4>2, <4>5, Taken
          <6>2. p = Head(s) /\ Tail(toBroker) = Append(Tail(s), PublishPacket(n))
              BY <4>2, <4>5, TailOfAppend
          <6> QED
              BY <1>1, <6>1, <6>2
        <5>2. qos[m] = 0 /\ Unanswered(Tail(s))
            BY <4>2, <5>1 DEF Unanswered, m
        <5>3. Front(toBroker') = Tail(s)
            BY <4>2, <5>1, FrontOfAppend
        <5>4. Sent(n)'
            BY <1>1, <1>2, <4>1, <5>1, <5>2, <5>3 DEF Sent, Unanswered
        <5> QED
            BY <1>1, <3>1, <3>2, <5>4 DEF Chain, Message
      <4> QED
          BY <4>4, <4>5
    <3> QED
        BY <3>3, <3>4
  <2>2. faults = 0 /\ conn = "closed" => \A x \in Asked' : ~Owed(x)'
      BY <1>6, <1>9 DEF OneChain
  <2> QED
      BY <1>1, <1>2, <2>1, <2>2 DEF OneChain
<1>15. TwoChains'
    BY <1>1, <1>2 DEF TwoChains, Has, NoneBehind
<1>16. Ends'
    BY <1>1, <1>2, <1>6, <1>8, <1>9 DEF Ends, Finished
<1> QED
    BY <1>10, <1>11, <1>12, <1>13, <1>14, <1>15, <1>16

-----------------------------------------------------------------------------
(* What the subscriber and its connection do *)

LEMMA SubPacketIs ==
    /\ \A type \in {"CONNECT", "SUBSCRIBE", "DISCONNECT"}, topic \in Topics :
          SubPacket(type, topic) \in SubToBroker /\ SubPacket(type, topic).type = type
    /\ \A type \in {"CONNACK", "REFUSED", "SUBACK"}, topic \in Topics :
          SubPacket(type, topic) \in SubToClient
    /\ \A m \in Nat, flag \in BOOLEAN : Incoming(m, flag) \in SubToClient
    /\ \A p \in SubToClient : p.type = "PUBLISH" => p \in Messages
    /\ "" \in Topics /\ RetainedTopic \in Topics
    BY DEF SubPacket, Incoming, SubToBroker, SubToClient, Messages, Topics

LEMMA SubscriberStays ==
    ASSUME SubInv, UNCHANGED subVars,
           subToBroker' \in Seq(SubToBroker), subToClient' \in Seq(SubToClient)
    PROVE  SubInv'
    BY DEF SubInv, SubTypes, Collected, subVars, Has

LEMMA SubConnectStep ==
    ASSUME SubInv, SubConnect
    PROVE  SubInv'
<1> USE DEF SubInv
<1>1. /\ subConn' = "opening" /\ subOutq' = <<SubPacket("CONNECT", "")>>
      /\ subToBroker' = <<>> /\ subToClient' = <<>>
      /\ UNCHANGED <<retained, msgCount, messages, subEnding, subResult>>
    BY DEF SubConnect
<1>2. SubPacket("CONNECT", "") \in SubToBroker /\ SubPacket("CONNECT", "").type = "CONNECT"
    BY SubPacketIs
<1>3. /\ subOutq' \in Seq(SubToBroker) /\ ToSet(subOutq') = {SubPacket("CONNECT", "")}
      /\ subToBroker' \in Seq(SubToBroker) /\ subToClient' \in Seq(SubToClient)
    BY <1>1, <1>2, Single, Nothing
<1> QED
    BY <1>1, <1>2, <1>3 DEF SubTypes, Collected, Has

LEMMA SubWriteStep ==
    ASSUME SubInv, SubWrite
    PROVE  SubInv'
<1> USE DEF SubInv
<1> DEFINE p == Head(subOutq)
<1>1. /\ subOutq # <<>> /\ subOutq' = Tail(subOutq) /\ subToBroker' = Append(subToBroker, p)
      /\ p.type = "DISCONNECT" => subConn' = "closed" /\ subResult' = "returned"
      /\ p.type # "DISCONNECT" => UNCHANGED <<subConn, subResult>>
      /\ UNCHANGED <<retained, msgCount, messages, subEnding, subToClient>>
    BY DEF SubWrite
<1>2. /\ p \in SubToBroker /\ subOutq' \in Seq(SubToBroker)
      /\ ToSet(subOutq) = {p} \cup ToSet(subOutq')
    BY <1>1, Taken DEF SubTypes
<1>3. subToBroker' \in Seq(SubToBroker)
    BY <1>1, <1>2, Added DEF SubTypes
<1> HIDE DEF p
<1>4. SubTypes'
    BY <1>1, <1>2, <1>3 DEF SubTypes
<1>5. Collected'
    BY <1>1, <1>2 DEF Collected, Has
<1> QED
    BY <1>4, <1>5

(* SUBSCRIBE and nothing else is queued behind what waits already.          *)
LEMMA SubConnackStep ==
    ASSUME SubInv, SubConnack
    PROVE  SubInv'
<1> USE DEF SubInv
<1> DEFINE new == [i \in 1..Len(SubTopics) |-> SubPacket("SUBSCRIBE", SubTopics[i])]
           q == subOutq \o new
<1>1. /\ subConn' = "up" /\ subOutq' = q /\ subToClient # <<>> /\ subToClient' = Tail(subToClient)
      /\ UNCHANGED <<retained, subToBroker>>
      /\ UNCHANGED <<msgCount, messages, subEnding, subResult>>
    BY DEF SubConnack, SubArrived, Subscribe
<1>2. Len(SubTopics) \in Nat /\ \A i \in 1..Len(SubTopics) : SubTopics[i] \in Topics
  <2> DEFINE S == ToSet(SubTopics)
  <2>1. SubTopics \in Seq(S) /\ S \subseteq Topics
      BY SimpleAssumption DEF SimpleAssumption, Topics
  <2> HIDE DEF S
  <2> QED
      BY <2>1
<1>3. \A i \in 1..Len(SubTopics) :
          new[i] \in SubToBroker /\ new[i].type = "SUBSCRIBE"
    BY <1>2, SubPacketIs
<1>4. new \in Seq(SubToBroker) /\ Len(new) = Len(SubTopics)
    BY <1>2, <1>3
<1> HIDE DEF new
<1>5. subOutq \in Seq(SubToBroker)
    BY DEF SubTypes
<1>6. /\ q \in Seq(SubToBroker) /\ Len(subOutq) \in Nat /\ Len(new) \in Nat
      /\ DOMAIN q = 1..Len(subOutq) + Len(new)
      /\ \A k \in 1..Len(subOutq) : q[k] = subOutq[k]
      /\ \A k \in 1..Len(new) : q[Len(subOutq) + k] = new[k]
  <2>1. subOutq \in Seq(SubToBroker) /\ new \in Seq(SubToBroker)
      BY <1>4, <1>5
  <2> QED
      BY <2>1, JoinedIs
<1> HIDE DEF q
<1>7. Has(q, "DISCONNECT") => Has(subOutq, "DISCONNECT")
  <2> SUFFICES ASSUME NEW k \in DOMAIN q, q[k].type = "DISCONNECT"
               PROVE  \E p \in ToSet(subOutq) : p.type = "DISCONNECT"
      BY <1>6, ToSetIs DEF Has
  <2>1. CASE k \in 1..Len(subOutq)
    <3>1. DOMAIN subOutq = 1..Len(subOutq)
        BY <1>5
    <3>2. subOutq[k] \in ToSet(subOutq)
        BY <1>5, <2>1, <3>1, ToSetIs
    <3> QED
        BY <1>6, <2>1, <3>2
  <2>2. CASE k \notin 1..Len(subOutq)
    <3>1. k - Len(subOutq) \in 1..Len(new) /\ Len(subOutq) + (k - Len(subOutq)) = k
        BY <1>6, <2>2
    <3>2. q[k].type = "SUBSCRIBE"
        BY <1>3, <1>4, <1>6, <3>1
    <3> QED
        BY <3>2
  <2> QED
      BY <2>1, <2>2
<1>8. subToClient' \in Seq(SubToClient)
    BY <1>1, Taken DEF SubTypes
<1>9. SubTypes'
    BY <1>1, <1>6, <1>8 DEF SubTypes
<1>10. Collected'
  <2>1. Has(subOutq, "DISCONNECT")' => Has(subOutq, "DISCONNECT")
      BY <1>1, <1>7 DEF Has
  <2> QED
      BY <1>1, <2>1 DEF Collected
<1> QED
    BY <1>9, <1>10

LEMMA SubIgnoresStep ==
    ASSUME SubInv, SubConnackRefused \/ Suback
    PROVE  SubInv'
<1> USE DEF SubInv
<1>1. /\ subToClient # <<>> /\ subToClient' = Tail(subToClient)
      /\ subResult' = "raised" \/ subResult' = subResult
      /\ UNCHANGED <<retained, subToBroker, msgCount, messages, subOutq, subConn, subEnding>>
    BY DEF SubConnackRefused, Suback, SubArrived
<1>2. subToClient' \in Seq(SubToClient)
    BY <1>1, Taken DEF SubTypes
<1> QED
    BY <1>1, <1>2 DEF SubTypes, Collected, Has

LEMMA OnMessageStep ==
    ASSUME SubInv, OnMessageSimple
    PROVE  SubInv'
<1> USE DEF SubInv
<1> DEFINE pkt == Head(subToClient)
           bye == SubPacket("DISCONNECT", "")
<1>1. /\ subToClient # <<>> /\ pkt.type = "PUBLISH" /\ subToClient' = Tail(subToClient)
      /\ UNCHANGED <<retained, subToBroker, subConn, subResult>>
    BY DEF OnMessageSimple, SubArrived
<1>2. /\ subToClient' \in Seq(SubToClient) /\ pkt \in Messages
      /\ msgCount \in Nat /\ msgCount =< MsgCount /\ MsgCount \in Nat \ {0}
      /\ subOutq \in Seq(SubToBroker) /\ messages \in Seq(Messages)
  <2>1. subToClient' \in Seq(SubToClient) /\ pkt \in SubToClient
      BY <1>1, Taken DEF SubTypes
  <2>2. pkt \in Messages
      BY <1>1, <2>1, SubPacketIs
  <2> QED
      BY <2>1, <2>2, SimpleAssumption DEF SubTypes, SimpleAssumption
<1>a. /\ Len(messages) + msgCount = MsgCount
      /\ ~retained => \A p \in ToSet(messages) : ~p.retain
      /\ Has(subOutq, "DISCONNECT") \/ subEnding \/ subResult = "returned" => msgCount = 0
    BY Zenon DEF Collected
<1>3. CASE ~Wanted(pkt)
  <2>1. UNCHANGED <<msgCount, messages, subEnding, subOutq>>
      BY <1>3 DEF OnMessageSimple
  <2> QED
      BY <1>1, <1>2, <2>1 DEF SubTypes, Collected, Has
<1>4. CASE Wanted(pkt)
  <2>1. /\ msgCount > 0 /\ msgCount' = msgCount - 1 /\ messages' = Append(messages, pkt)
        /\ \/ msgCount' = 0 /\ subEnding' = TRUE /\ subOutq' = Append(subOutq, bye)
           \/ msgCount' > 0 /\ UNCHANGED <<subEnding, subOutq>>
    <3>1. msgCount > 0
        BY <1>4, Zenon DEF Wanted
    <3> HIDE DEF bye
    <3>2. /\ msgCount' = (IF msgCount = 0 THEN 0 ELSE msgCount - 1)
          /\ messages' = Append(messages, pkt)
          /\ \/ msgCount' = 0 /\ subEnding' = TRUE /\ subOutq' = Append(subOutq, bye)
             \/ msgCount' > 0 /\ UNCHANGED <<subEnding, subOutq>>
        BY <1>4, Zenon DEF OnMessageSimple, bye
    <3> QED
        BY <1>2, <3>1, <3>2
  <2>a. msgCount > 0 /\ msgCount' = msgCount - 1
      BY <2>1, Zenon
  <2>b. msgCount \in Nat /\ msgCount =< MsgCount /\ MsgCount \in Nat
      BY <1>2
  <2>c. msgCount' \in 0..MsgCount
      BY <2>a, <2>b
  <2>2. ~retained => ~pkt.retain
      BY <1>4, Zenon DEF Wanted
  <2> HIDE DEF pkt
  <2>3. /\ messages' \in Seq(Messages) /\ ToSet(messages') = ToSet(messages) \cup {pkt}
        /\ Len(messages) \in Nat /\ Len(messages') = Len(messages) + 1
      BY <1>2, <2>1, Added
  <2>4. bye \in SubToBroker
      BY SubPacketIs
  <2>5. Append(subOutq, bye) \in Seq(SubToBroker)
      BY <1>2, <2>4, Added
  <2>6. SubTypes'
    <3>1. msgCount' \in 0..MsgCount
        BY <2>c
    <3>2. subEnding' \in BOOLEAN /\ subOutq' \in Seq(SubToBroker)
        BY <1>2, <2>1, <2>5 DEF SubTypes
    <3> QED
        BY <1>1, <1>2, <2>3, <3>1, <3>2 DEF SubTypes
  <2>7. Len(messages') + msgCount' = MsgCount
    <3>1. Len(messages) + msgCount = MsgCount
        BY <1>a, Zenon
    <3>2. Len(messages) \in Nat /\ Len(messages') = Len(messages) + 1
        BY <2>3
    <3> QED
        BY <2>a, <2>b, <3>1, <3>2
  <2>8. ~retained' => \A p \in ToSet(messages') : ~p.retain
    <3> SUFFICES ASSUME ~retained, NEW p \in ToSet(messages') PROVE ~p.retain
        BY <1>1
    <3>1. CASE p \in ToSet(messages)
        BY <1>a, <3>1
    <3>2. CASE p = pkt
        BY <2>2, <3>2
    <3> QED
        BY <2>3, <3>1, <3>2
  <2>9. Has(subOutq', "DISCONNECT") \/ subEnding' \/ subResult' = "returned" => msgCount' = 0
    <3>1. msgCount # 0
        BY <2>a, <2>b
    <3>2. ~Has(subOutq, "DISCONNECT") /\ ~subEnding /\ subResult # "returned"
        BY <1>a, <3>1, Zenon
    <3>3. msgCount' = 0 \/ UNCHANGED <<subEnding, subOutq>>
        BY <2>1, Zenon
    <3> QED
        BY <1>1, <3>2, <3>3
  <2> QED
      BY <2>6, <2>7, <2>8, <2>9 DEF Collected, Has
<1> QED
    BY <1>3, <1>4

LEMMA SubBreakStep ==
    ASSUME SubInv, SubBreak
    PROVE  SubInv'
<1> USE DEF SubInv
<1>1. /\ subToBroker' = <<>> /\ subToClient' = <<>>
      /\ subConn' = (IF subEnding THEN "closed" ELSE "down")
      /\ subResult' = (IF subEnding THEN "returned" ELSE subResult)
      /\ UNCHANGED <<retained, msgCount, messages, subOutq, subEnding>>
    BY DEF SubBreak
<1>2. subToBroker' \in Seq(SubToBroker) /\ subToClient' \in Seq(SubToClient)
    BY <1>1, Nothing
<1> QED
    BY <1>1, <1>2 DEF SubTypes, Collected, Has

(* The broker adds to what is on its way to the subscriber.                 *)
LEMMA SubTakeIs ==
    ASSUME SubInv, NEW type, SubTake(type)
    PROVE  /\ UNCHANGED subVars /\ subToBroker' \in Seq(SubToBroker)
           /\ Head(subToBroker) \in SubToBroker /\ subToClient \in Seq(SubToClient)
    BY Taken DEF SubTake, SubInv, SubTypes

LEMMA SubSessionStep ==
    ASSUME SubInv, BrokerAcceptsSub \/ BrokerSubscribes \/ BrokerSubDisconnected
    PROVE  SubInv'
<1>1. PICK type : SubTake(type)
    BY DEF BrokerAcceptsSub, BrokerSubscribes, BrokerSubDisconnected
<1>2. /\ UNCHANGED subVars /\ subToBroker' \in Seq(SubToBroker)
      /\ Head(subToBroker) \in SubToBroker /\ subToClient \in Seq(SubToClient)
    BY <1>1, SubTakeIs
<1>3. SUFFICES subToClient' \in Seq(SubToClient)
    BY <1>2, SubscriberStays
<1>4. CASE BrokerAcceptsSub
  <2>1. SubPacket("CONNACK", "") \in SubToClient /\ SubPacket("REFUSED", "") \in SubToClient
      BY SubPacketIs
  <2>2. \A x \in SubToClient : Append(subToClient, x) \in Seq(SubToClient)
      BY <1>2, Added
  <2> QED
      BY <1>4, <2>1, <2>2 DEF BrokerAcceptsSub
<1>5. CASE BrokerSubscribes
  <2> DEFINE topic == Head(subToBroker).topic
             a == <<SubPacket("SUBACK", topic)>>
             b == IF topic = RetainedTopic THEN <<Incoming(OldMessage, TRUE)>> ELSE <<>>
  <2>1. topic \in Topics
      BY <1>2 DEF SubToBroker
  <2>2. SubPacket("SUBACK", topic) \in SubToClient /\ Incoming(OldMessage, TRUE) \in SubToClient
      BY <2>1, SubPacketIs DEF OldMessage
  <2>3. a \in Seq(SubToClient) /\ b \in Seq(SubToClient)
      BY <2>2, Single, Nothing
  <2>4. subToClient' = subToClient \o a \o b
      BY <1>5 DEF BrokerSubscribes
  <2> HIDE DEF a, b
  <2>5. subToClient \o a \in Seq(SubToClient)
      BY <1>2, <2>3, JoinedIs
  <2> QED
      BY <2>3, <2>4, <2>5, JoinedIs
<1>6. CASE BrokerSubDisconnected
    BY <1>2, <1>6 DEF BrokerSubDisconnected
<1> QED
    BY <1>4, <1>5, <1>6

-----------------------------------------------------------------------------
(* The two together *)

OneShotInv == PubInv /\ SubInv

LEMMA OneShotInit == Init => OneShotInv
<1> SUFFICES ASSUME Init PROVE OneShotInv
    OBVIOUS
<1>1. /\ qos \in QosLists /\ next = 1 /\ store = <<>> /\ unsent = {} /\ resume = <<>>
      /\ flushing = FALSE /\ mutated = FALSE /\ outq = <<>> /\ conn = "new" /\ ending = FALSE
      /\ result = "running" /\ toBroker = <<>> /\ toClient = <<>>
      /\ got = [m \in 1..Len(qos) |-> 0] /\ faults = 0 /\ refusals = 0
    BY DEF Init, PubInit
<1>2. Len(qos) \in Nat \ {0}
    BY <1>1, MultipleAssumption DEF MultipleAssumption
<1>3. /\ ToSet(store) = {} /\ ToSet(outq) = {} /\ ToSet(toBroker) = {} /\ ToSet(toClient) = {}
      /\ store \in Seq(1..Len(qos)) /\ resume \in Seq(1..Len(qos)) /\ Len(store) = 0
      /\ outq \in Seq(ToBroker) /\ toBroker \in Seq(ToBroker) /\ toClient \in Seq(ToClient)
    BY <1>1, Nothing
<1>4. PubTypes
  <2>1. next \in 1..Len(qos) + 1 /\ got \in [1..Len(qos) -> Nat]
      BY <1>1, <1>2
  <2> QED
      BY <1>1, <1>3, <2>1 DEF PubTypes
<1>5. Asked = {}
    BY <1>1 DEF Asked
<1>6. Numbers /\ Setup /\ Kept
    BY <1>1, <1>3, <1>5 DEF Numbers, Setup, Quiet, Kept
<1>7. OneChain /\ TwoChains /\ Ends
    BY <1>1, <1>3 DEF OneChain, TwoChains, Ends
<1>8. /\ retained \in Retained /\ msgCount = MsgCount /\ messages = <<>> /\ subOutq = <<>>
      /\ subConn = "new" /\ subEnding = FALSE /\ subResult = "running"
      /\ subToBroker = <<>> /\ subToClient = <<>>
    BY DEF Init, SubInit
<1>9. /\ messages \in Seq(Messages) /\ ToSet(messages) = {} /\ Len(messages) = 0
      /\ subOutq \in Seq(SubToBroker) /\ ToSet(subOutq) = {}
      /\ subToBroker \in Seq(SubToBroker) /\ subToClient \in Seq(SubToClient)
    BY <1>8, Nothing
<1>10. MsgCount \in Nat \ {0} /\ retained \in BOOLEAN
    BY <1>8, SimpleAssumption DEF SimpleAssumption
<1>11. SubTypes
  <2>1. msgCount \in 0..MsgCount
      BY <1>8, <1>10
  <2> QED
      BY <1>8, <1>9, <1>10, <2>1 DEF SubTypes
<1>12. Collected
  <2>1. \A x \in ToSet(messages) : ~x.retain
      BY <1>9
  <2>2. ~Has(subOutq, "DISCONNECT")
      BY <1>9 DEF Has
  <2>3. Len(messages) + msgCount = MsgCount
      BY <1>8, <1>9, <1>10
  <2> QED
      BY <1>8, <2>1, <2>2, <2>3 DEF Collected
<1> QED
    BY <1>4, <1>6, <1>7, <1>11, <1>12 DEF OneShotInv, PubInv, SubInv

LEMMA PublisherStep ==
    ASSUME OneShotInv, PublisherRuns \/ PublisherFails \/ PublisherBreaks \/ TailLost
    PROVE  OneShotInv'
<1> USE DEF OneShotInv
<1>1. SubInv'
  <2>1. UNCHANGED subAll
      BY DEF PublisherRuns, PublisherFails, PublisherBreaks, TailLost
  <2> QED
      BY <2>1, SubscriberStays DEF subAll, SubInv, SubTypes
<1>2. CASE PublisherRuns
    BY <1>2, ConnectStep, WriteStep, ConnackStep, ConnackRefusedStep, AnswerStep, LateAnswerStep,
       ResumeNextStep, FlushEndsStep, ResumeRaisesStep, <1>1 DEF PublisherRuns, Loop
<1>3. CASE PublisherFails
    BY <1>1, <1>3, ConnectFailsStep DEF PublisherFails
<1>4. CASE PublisherBreaks
    BY <1>1, <1>4, BreakStep DEF PublisherBreaks
<1>5. CASE TailLost
    BY <1>1, <1>5, TailLostStep
<1> QED
    BY <1>2, <1>3, <1>4, <1>5

LEMMA SubscriberStep ==
    ASSUME OneShotInv, SubscriberRuns \/ SubscriberFails \/ SubscriberBreaks
    PROVE  OneShotInv'
<1> USE DEF OneShotInv
<1>1. PubInv'
  <2>1. /\ UNCHANGED <<pubAll, got>> /\ refusals' = refusals
        /\ faults' = faults \/ faults' = faults + 1
      BY DEF SubscriberRuns, SubscriberFails, SubscriberBreaks, brokerVars
  <2>2. faults \in Nat /\ refusals \in Nat
      BY DEF PubInv, PubTypes
  <2> QED
      BY <2>1, <2>2, PublisherStays
<1>2. CASE SubscriberRuns
    BY <1>1, <1>2, SubConnectStep, SubWriteStep, SubConnackStep, SubIgnoresStep, OnMessageStep
       DEF SubscriberRuns, SubLoop
<1>3. CASE SubscriberFails
  <2>1. /\ UNCHANGED <<retained, msgCount, messages, subOutq, subConn, subEnding, subToBroker, subToClient>>
        /\ subResult' = "raised"
      BY <1>3 DEF SubscriberFails, SubConnectFails
  <2> QED
      BY <1>1, <2>1 DEF SubInv, SubTypes, Collected, Has
<1>4. CASE SubscriberBreaks
    BY <1>1, <1>4, SubBreakStep DEF SubscriberBreaks
<1> QED
    BY <1>2, <1>3, <1>4

LEMMA BrokerStep ==
    ASSUME OneShotInv, Broker
    PROVE  OneShotInv'
<1> USE DEF OneShotInv
<1>1. subToBroker \in Seq(SubToBroker) /\ subToClient \in Seq(SubToClient)
    BY DEF SubInv, SubTypes
<1>2. CASE BrokerAccepts
  <2>1. UNCHANGED subAll
      BY <1>2 DEF BrokerAccepts
  <2> QED
      BY <1>1, <1>2, <2>1, BrokerAcceptsStep, SubscriberStays DEF subAll
<1>3. CASE BrokerReceives
  <2> DEFINE x == Incoming(Head(toBroker).msg, FALSE)
  <2>1. /\ UNCHANGED <<subVars, subToBroker>>
        /\ subToClient' = subToClient \/ subToClient' = Append(subToClient, x)
      BY <1>3 DEF BrokerReceives
  <2>2. PubTake("PUBLISH")
      BY <1>3 DEF BrokerReceives
  <2>3. Head(toBroker) \in ToBroker
      BY <2>2, TakeIs
  <2>4. x \in SubToClient
      BY <2>3, SubPacketIs DEF ToBroker
  <2> HIDE DEF x
  <2>5. subToClient' \in Seq(SubToClient)
      BY <1>1, <2>1, <2>4, Added
  <2> QED
      BY <1>1, <1>3, <2>1, <2>5, BrokerReceivesStep, SubscriberStays
<1>4. CASE BrokerDisconnected
  <2>1. UNCHANGED subAll
      BY <1>4 DEF BrokerDisconnected
  <2> QED
      BY <1>1, <1>4, <2>1, BrokerDisconnectedStep, SubscriberStays DEF subAll
<1>5. CASE BrokerAcceptsSub \/ BrokerSubscribes \/ BrokerSubDisconnected
  <2>1. /\ UNCHANGED <<pubAll, got>> /\ faults' = faults
        /\ refusals' = refusals \/ refusals' = refusals + 1
      BY <1>5 DEF BrokerAcceptsSub, BrokerSubscribes, BrokerSubDisconnected
  <2>2. faults \in Nat /\ refusals \in Nat
      BY DEF PubInv, PubTypes
  <2>3. PubInv'
      BY <2>1, <2>2, PublisherStays
  <2> QED
      BY <1>5, <2>3, SubSessionStep
<1> QED
    BY <1>2, <1>3, <1>4, <1>5 DEF Broker

LEMMA OneShotStep == OneShotInv /\ [Next]_vars => OneShotInv'
<1> SUFFICES ASSUME OneShotInv, [Next]_vars PROVE OneShotInv'
    OBVIOUS
<1>1. CASE UNCHANGED vars
  <2>1. UNCHANGED <<pubAll, got, faults, refusals>> /\ UNCHANGED <<subVars, subToBroker, subToClient>>
      BY <1>1 DEF vars, subAll
  <2>2. PubInv'
      BY <2>1, PublisherStays DEF OneShotInv, PubInv, PubTypes
  <2>3. SubInv'
      BY <2>1, SubscriberStays DEF OneShotInv, SubInv, SubTypes
  <2> QED
      BY <2>2, <2>3 DEF OneShotInv
<1> QED
    BY <1>1, PublisherStep, SubscriberStep, BrokerStep DEF Next

(* simple() returns exactly the messages it was asked for (GathersExactly), *)
(* for every list of topics, every number of messages and every number of   *)
(* lost connections.                                                        *)
THEOREM SimpleGathersExactly == Spec => []GathersExactly
<1>1. OneShotInv => GathersExactly
  <2> SUFFICES ASSUME OneShotInv PROVE GathersExactly
      OBVIOUS
  <2>1. ToSet(store) \subseteq 1..Len(qos)
      BY ToSetIs DEF OneShotInv, PubInv, PubTypes
  <2>2. TypeOK
      BY <2>1 DEF OneShotInv, PubInv, PubTypes, SubInv, SubTypes, TypeOK
  <2>3. ASSUME subResult = "returned"
        PROVE  /\ Len(messages) = MsgCount
               /\ ~retained => \A k \in 1..MsgCount : ~messages[k].retain
    <3>1. messages \in Seq(Messages) /\ Len(messages) \in Nat /\ DOMAIN messages = 1..Len(messages)
        BY DEF OneShotInv, SubInv, SubTypes
    <3>2. Len(messages) = MsgCount
        BY <2>3, <3>1 DEF OneShotInv, SubInv, Collected
    <3>3. \A k \in 1..MsgCount : messages[k] \in ToSet(messages)
        BY <3>1, <3>2, ToSetIs
    <3> QED
        BY <3>2, <3>3 DEF OneShotInv, SubInv, Collected
  <2> QED
      BY <2>2, <2>3 DEF GathersExactly
<1> QED
    BY <1>1, OneShotInit, OneShotStep, PTL DEF Spec

(* multiple() keeps its promise with at most one lost connection            *)
(* (EndsAsPromised), for every list of messages: when it returns the broker *)
(* has every message of QoS 1 or is about to, and it raises only for a      *)
(* refused or an impossible first connection.                               *)
THEOREM MultipleEndsAsPromised == Spec => []EndsAsPromised
<1>1. OneShotInv => EndsAsPromised
  <2> SUFFICES ASSUME OneShotInv, faults =< 1 PROVE
               /\ result = "returned" =>
                      /\ Finished
                      /\ \A m \in Message : qos[m] = 1 => got[m] > 0 \/ OnTheWay(m)
               /\ result = "raised" => refusals > 0 \/ conn = "new"
      BY DEF EndsAsPromised
  <2>1. PubTypes
      BY DEF OneShotInv, PubInv
  <2>2. ASSUME result = "returned"
        PROVE  Finished /\ \A m \in Message : qos[m] = 1 => got[m] > 0 \/ OnTheWay(m)
    <3>1. Finished
        BY <2>2 DEF OneShotInv, PubInv, Setup, Ends
    <3>2. ASSUME NEW m \in Message, qos[m] = 1, ~(got[m] > 0) PROVE OnTheWay(m)
      <4>1. m \in Asked
          BY <2>1, <3>1, QosIs DEF Finished, Asked, Message
      <4>2. Owed(m)
        <5>1. got[m] \in Nat
            BY <2>1 DEF PubTypes, Message
        <5> QED
            BY <3>2, <5>1 DEF Owed
      <4>3. PublishPacket(m) \in ToSet(toBroker)
          BY <2>2, <4>1, <4>2 DEF OneShotInv, PubInv, Ends, Carries
      <4>4. toBroker \in Seq(ToBroker) /\ DOMAIN toBroker = 1..Len(toBroker)
          BY <2>1 DEF PubTypes
      <4> QED
          BY <4>3, <4>4, ToSetIs DEF OnTheWay
    <3> QED
        BY <3>1, <3>2
  <2> QED
      BY <2>2 DEF OneShotInv, PubInv, Ends
<1> QED
    BY <1>1, OneShotInit, OneShotStep, PTL DEF Spec
=============================================================================
