--------------------------- MODULE SessionProofs ---------------------------
(***************************************************************************)
(* What holds of the session layer for every number of publications,       *)
(* messages and message ids, every window, every fault and any number of   *)
(* them.  The first half is about the store and its window, the packets in *)
(* the two channels, and what the broker has passed on; the second half,   *)
(* from "Promises" on, about what both applications are promised.          *)
(***************************************************************************)
EXTENDS Session, FiniteSetTheorems, SequenceTheorems, TLAPS

-----------------------------------------------------------------------------
(* The order of the store: Rank numbers a set of publications from 1,       *)
(* InOrder lists it, and Promoted takes exactly as many queued messages as  *)
(* there are free slots.                                                    *)

(* Sets of publications and sets of incoming messages are finite sets of    *)
(* numbers.                                                                 *)
LEMMA PubFinite ==
    ASSUME NEW S \in SUBSET Pub
    PROVE  S \in SUBSET Int /\ IsFiniteSet(S) /\ Cardinality(S) \in Nat
<1>1. IsFiniteSet(Pub)
    BY FS_Interval, WireAssumption DEF Pub
<1>2. S \in SUBSET Int
    BY DEF Pub
<1> QED
    BY <1>1, <1>2, FS_Subset, FS_CardinalityType

LEMMA InFinite ==
    ASSUME NEW S \in SUBSET In
    PROVE  S \in SUBSET Int /\ IsFiniteSet(S) /\ Cardinality(S) \in Nat
<1>1. IsFiniteSet(In)
    BY FS_Interval, WireAssumption DEF In
<1>2. S \in SUBSET Int
    BY DEF In
<1> QED
    BY <1>1, <1>2, FS_Subset, FS_CardinalityType

(* The rank of a member lies between 1 and the size of the set. *)
LEMMA RankRange ==
    ASSUME NEW S \in SUBSET Int, IsFiniteSet(S), NEW p \in S
    PROVE  Rank(S, p) \in 1..Cardinality(S)
<1> DEFINE T == {q \in S : q <= p}
<1>1. T \in SUBSET S
    OBVIOUS
<1>2. IsFiniteSet(T) /\ Cardinality(T) \in Nat /\ Cardinality(S) \in Nat
    BY <1>1, FS_Subset, FS_CardinalityType
<1>3. Cardinality(T) <= Cardinality(S)
    BY <1>1, <1>2, FS_Subset
<1>4. p \in T
    OBVIOUS
<1>5. Cardinality(T) # 0
    BY <1>2, <1>4, FS_EmptySet
<1> QED
    BY <1>2, <1>3, <1>5 DEF Rank

(* A later member has a higher rank. *)
LEMMA RankMonotone ==
    ASSUME NEW S \in SUBSET Int, IsFiniteSet(S), NEW p \in S, NEW q \in S, p < q
    PROVE  Rank(S, p) < Rank(S, q)
<1> DEFINE T == {r \in S : r <= p}
           U == {r \in S : r <= q}
<1>0. \A r \in S : r \in Int
    OBVIOUS
<1>1. T \in SUBSET S /\ U \in SUBSET S
    OBVIOUS
<1>2. T \in SUBSET U
  <2> SUFFICES ASSUME NEW r \in S, r <= p
               PROVE  r <= q
      OBVIOUS
  <2> QED
      BY <1>0
<1>3. q \in U /\ q \notin T
    BY <1>0
<1>4. IsFiniteSet(U) /\ Cardinality(T) \in Nat /\ Cardinality(U) \in Nat
    BY <1>1, FS_Subset, FS_CardinalityType
<1>5. Cardinality(T) <= Cardinality(U) /\ (Cardinality(U) = Cardinality(T) => U = T)
    BY <1>2, <1>4, FS_Subset
<1>6. Cardinality(T) # Cardinality(U)
    BY <1>3, <1>5
<1> QED
    BY <1>4, <1>5, <1>6 DEF Rank

(* Different members have different ranks. *)
LEMMA RankInjective ==
    ASSUME NEW S \in SUBSET Int, IsFiniteSet(S), NEW p \in S, NEW q \in S, Rank(S, p) = Rank(S, q)
    PROVE  p = q
<1>1. p \in Int /\ q \in Int
    OBVIOUS
<1>2. Rank(S, p) \in Int /\ Rank(S, q) \in Int
    BY RankRange, FS_CardinalityType
<1>3. ~(p < q)
    BY <1>2, RankMonotone
<1>4. ~(q < p)
    BY <1>2, RankMonotone
<1> QED
    BY <1>1, <1>3, <1>4

(* Every rank from 1 to the size of the set is taken: Rank is injective     *)
(* into an interval as large as the set.                                    *)
LEMMA RankOnto ==
    ASSUME NEW S \in SUBSET Int, IsFiniteSet(S), NEW k \in 1..Cardinality(S)
    PROVE  \E p \in S : Rank(S, p) = k
<1> DEFINE n == Cardinality(S)
           f == [p \in S |-> Rank(S, p)]
<1>1. n \in Nat
    BY FS_CardinalityType
<1>2. f \in [S -> 1..n]
    BY RankRange
<1>3. \A p, q \in S : f[p] = f[q] => p = q
    BY RankInjective
<1>4. f \in Injection(S, 1..n)
    BY <1>2, <1>3 DEF Injection, IsInjective
<1>5. IsFiniteSet(1..n) /\ Cardinality(1..n) = n
    BY <1>1, FS_Interval
<1>6. f \in Surjection(S, 1..n)
    BY <1>4, <1>5, FS_Injection
<1> QED
    BY <1>6 DEF Surjection

(* There are exactly k members of rank at most k. *)
LEMMA RankCount ==
    ASSUME NEW S \in SUBSET Int, IsFiniteSet(S), NEW k \in 0..Cardinality(S)
    PROVE  Cardinality({p \in S : Rank(S, p) <= k}) = k
<1> DEFINE T == {p \in S : Rank(S, p) <= k}
           g == [p \in T |-> Rank(S, p)]
<1>1. IsFiniteSet(T) /\ Cardinality(S) \in Nat
    BY FS_Subset, FS_CardinalityType
<1>2. \A p \in T : Rank(S, p) \in 1..k
    BY <1>1, PubFinite, RankRange
<1>3. \A p, q \in T : Rank(S, p) = Rank(S, q) => p = q
    BY RankInjective
<1>4. g \in Injection(T, 1..k)
    BY <1>2, <1>3 DEF Injection, IsInjective
<1>5. \A j \in 1..k : \E p \in T : Rank(S, p) = j
  <2> TAKE j \in 1..k
  <2>1. j \in 1..Cardinality(S) /\ j <= k
      BY <1>1
  <2> QED
      BY <2>1, RankOnto
<1>6. g \in Surjection(T, 1..k)
    BY <1>2, <1>5 DEF Surjection
<1>7. ExistsBijection(T, 1..k)
    BY <1>4, <1>6 DEF ExistsBijection, Bijection
<1>8. Cardinality(1..k) = Cardinality(T)
    BY <1>1, <1>7, FS_Bijection
<1>9. k \in Nat /\ Cardinality(1..k) = k
    BY <1>1, FS_Interval
<1> QED
    BY <1>8, <1>9

(* InOrder lists members of the set only. *)
LEMMA InOrderMembers ==
    ASSUME NEW S \in SUBSET Int, IsFiniteSet(S), NEW k \in 1..Cardinality(S)
    PROVE  InOrder(S)[k] \in S
BY RankOnto DEF InOrder

-----------------------------------------------------------------------------
(* Promoted *)

(* Only queued messages are promoted, and the slots they take plus the      *)
(* messages in flight never exceed the window.                              *)
LEMMA PromotedFits ==
    ASSUME NEW st \in [Pub -> States], NEW n \in Int
    PROVE  /\ Promoted(st, n) \in SUBSET {p \in Pub : st[p] = "queued"}
           /\ Promoted(st, n) # {} => n + Cardinality(Promoted(st, n)) <= MaxInflight
<1> DEFINE Q == {p \in Pub : st[p] = "queued"}
           P == Promoted(st, n)
<1>1. P \in SUBSET Q /\ Q \in SUBSET Pub
    BY DEF Promoted
<1>2. ASSUME P # {}
      PROVE  n + Cardinality(P) <= MaxInflight
  <2> DEFINE k == MaxInflight - n
  <2>1. PICK p \in Q : MaxInflight > 0 /\ n + Rank(Q, p) <= MaxInflight
      BY <1>2 DEF Promoted
  <2>2. Rank(Q, p) \in 1..Cardinality(Q) /\ Cardinality(Q) \in Nat
      BY <1>1, PubFinite, RankRange
  <2>3. k \in Nat
      BY <2>1, <2>2, ClientAssumption
  <2>4. P = {r \in Q : Rank(Q, r) <= k}
    <3>1. \A r \in Q : Rank(Q, r) \in Int
        BY <1>1, <2>2, PubFinite, RankRange
    <3> QED
        BY <3>1, <2>1, ClientAssumption DEF Promoted
  <2>5. CASE k <= Cardinality(Q)
    <3>1. Q \in SUBSET Int /\ IsFiniteSet(Q) /\ k \in 0..Cardinality(Q)
        BY <1>1, <2>2, <2>3, <2>5, PubFinite
    <3>2. Cardinality(P) = k
        BY <2>4, <3>1, RankCount
    <3> QED
        BY <3>2, ClientAssumption
  <2>6. CASE k > Cardinality(Q)
    <3>1. IsFiniteSet(Q) /\ Cardinality(P) \in Nat
        BY <1>1, PubFinite
    <3>2. Cardinality(P) <= Cardinality(Q)
        BY <1>1, <3>1, FS_Subset
    <3> QED
        BY <2>2, <2>6, <3>1, <3>2, ClientAssumption
  <2> QED
      BY <2>2, <2>3, <2>5, <2>6
<1> QED
    BY <1>1, <1>2

(* What stays queued after a promotion finds the window full. *)
LEMMA PromotedFills ==
    ASSUME NEW st \in [Pub -> States], NEW n \in Int, MaxInflight > 0,
           NEW p \in Pub, st[p] = "queued", p \notin Promoted(st, n)
    PROVE  n + Cardinality(Promoted(st, n)) >= MaxInflight
<1> DEFINE Q == {q \in Pub : st[q] = "queued"}
           P == Promoted(st, n)
           k == MaxInflight - n
<1>1. P \in SUBSET Pub /\ Q \in SUBSET Pub /\ p \in Q
    BY DEF Promoted
<1>2. Cardinality(P) \in Nat /\ Cardinality(Q) \in Nat /\ k \in Int
    BY <1>1, PubFinite, ClientAssumption
<1>3. Rank(Q, p) \in 1..Cardinality(Q) /\ n + Rank(Q, p) > MaxInflight
  <2>1. Rank(Q, p) \in 1..Cardinality(Q)
      BY <1>1, PubFinite, RankRange
  <2>2. ~(n + Rank(Q, p) <= MaxInflight)
      BY <1>1 DEF Promoted
  <2> QED
      BY <1>2, <2>1, <2>2, ClientAssumption
<1>4. CASE k < 0
    BY <1>2, <1>4, ClientAssumption
<1>5. CASE k >= 0
  <2>1. k \in 0..Cardinality(Q)
      BY <1>2, <1>3, <1>5, ClientAssumption
  <2>2. P = {r \in Q : Rank(Q, r) <= k}
    <3>1. \A r \in Q : Rank(Q, r) \in Int
        BY <1>1, <1>2, PubFinite, RankRange
    <3> QED
        BY <3>1, ClientAssumption DEF Promoted
  <2>3. Cardinality(P) = k
      BY <1>1, <2>1, <2>2, PubFinite, RankCount
  <2> QED
      BY <1>2, <2>3, ClientAssumption
<1> QED
    BY <1>2, <1>4, <1>5

-----------------------------------------------------------------------------
(* Types of the packets *)

LEMMA ToBrokerTypes ==
    /\ \A c \in BOOLEAN : Connect(c) \in ToBrokerPacket
    /\ \A p \in Pub, m \in Mid, q \in 1..2, d \in BOOLEAN : Publish(p, m, q, d) \in ToBrokerPacket
    /\ \A m \in Mid : WithMid("PUBREL", m) \in ToBrokerPacket
    /\ \A t \in {"PUBACK", "PUBREC", "PUBCOMP"}, i \in In : WithMid(t, i) \in ToBrokerPacket
BY DEF ToBrokerPacket, Connect, Publish, WithMid

LEMMA ToClientTypes ==
    /\ \A ok \in BOOLEAN : Connack(ok) \in ToClientPacket
    /\ \A t \in {"PUBACK", "PUBREC", "PUBCOMP"}, m \in Mid : WithMid(t, m) \in ToClientPacket
    /\ \A i \in In, q \in 0..2 : InPublish(i, q) \in ToClientPacket
    /\ \A i \in In : WithMid("PUBREL", i) \in ToClientPacket
BY DEF ToClientPacket, Connack, InPublish, WithMid

(* The fields of the packet at the head of a channel, by its type. *)
LEMMA FromBrokerFields ==
    ASSUME NEW pkt \in ToClientPacket
    PROVE  /\ pkt.type = "CONNACK" => pkt.ok \in BOOLEAN
           /\ pkt.type \in {"PUBACK", "PUBREC", "PUBCOMP"} => pkt.mid \in Mid
           /\ pkt.type = "PUBLISH" => pkt.mid \in In /\ pkt.qos \in 0..2
           /\ pkt.type = "PUBREL" => pkt.mid \in In
BY DEF ToClientPacket

LEMMA FromClientFields ==
    ASSUME NEW pkt \in ToBrokerPacket
    PROVE  /\ pkt.type = "CONNECT" => pkt.clean \in BOOLEAN
           /\ pkt.type = "PUBLISH" => /\ pkt.msg \in Pub /\ pkt.mid \in Mid
                                      /\ pkt.qos \in 1..2 /\ pkt.dup \in BOOLEAN
           /\ pkt.type = "PUBREL" => pkt.mid \in Mid
           /\ pkt.type \in {"PUBACK", "PUBREC", "PUBCOMP"} => pkt.mid \in In
BY DEF ToBrokerPacket

(* Taking a packet of type t off a channel. *)
LEMMA ReceiveType ==
    ASSUME WireTypeOK, NEW t, Receive(t)
    PROVE  /\ Head(toClient) \in ToClientPacket /\ Head(toClient).type = t
           /\ toClient' \in Seq(ToClientPacket)
<1>1. toClient # <<>> /\ toClient \in Seq(ToClientPacket)
    BY DEF Receive, Arrives, WireTypeOK
<1> QED
    BY <1>1 DEF Receive, Arrives

LEMMA TakeType ==
    ASSUME WireTypeOK, NEW t, Take(t)
    PROVE  /\ Head(toBroker) \in ToBrokerPacket /\ Head(toBroker).type = t
           /\ toBroker' \in Seq(ToBrokerPacket)
<1>1. toBroker # <<>> /\ toBroker \in Seq(ToBrokerPacket)
    BY DEF Take, Arrives, WireTypeOK
<1> QED
    BY <1>1 DEF Take, Arrives

LEMMA PublishPacketsType ==
    ASSUME ClientTypeOK, NEW S \in SUBSET Pub
    PROVE  PublishPackets(S) \in Seq(ToBrokerPacket)
<1>1. Cardinality(S) \in Nat
    BY PubFinite
<1>2. ASSUME NEW k \in 1..Cardinality(S)
      PROVE  Publish(InOrder(S)[k], mid[InOrder(S)[k]], qos[InOrder(S)[k]], dup[InOrder(S)[k]])
                \in ToBrokerPacket
  <2>1. InOrder(S)[k] \in Pub
      BY PubFinite, InOrderMembers
  <2> QED
      BY <2>1, ToBrokerTypes DEF ClientTypeOK
<1> QED
    BY <1>1, <1>2 DEF PublishPackets

LEMMA ResumePacketsType ==
    ASSUME ClientTypeOK, NEW S \in SUBSET Pub
    PROVE  ResumePackets(S) \in Seq(ToBrokerPacket)
<1>1. Cardinality(S) \in Nat
    BY PubFinite
<1>2. ASSUME NEW k \in 1..Cardinality(S)
      PROVE  (LET p == InOrder(S)[k]
              IN  IF state[p] = "resend_pubrel"
                  THEN WithMid("PUBREL", mid[p])
                  ELSE Publish(p, mid[p], qos[p], dup[p])) \in ToBrokerPacket
  <2>1. InOrder(S)[k] \in Pub
      BY PubFinite, InOrderMembers
  <2> QED
      BY <2>1, ToBrokerTypes DEF ClientTypeOK
<1> QED
    BY <1>1, <1>2 DEF ResumePackets

(* _update_inflight leaves a store, a count and a channel of their types. *)
LEMMA UpdateInflightType ==
    ASSUME TypeOK, NEW st \in [Pub -> States], NEW n \in Int,
           NEW last \in Seq(ToBrokerPacket), UpdateInflight(st, n, last)
    PROVE  /\ state' \in [Pub -> States]
           /\ inflight' \in Int
           /\ toBroker' \in Seq(ToBrokerPacket)
<1> DEFINE P == Promoted(st, n)
<1>1. P \in SUBSET Pub /\ Cardinality(P) \in Nat
  <2>1. P \in SUBSET Pub
      BY DEF Promoted
  <2> QED
      BY <2>1, PubFinite
<1>2. PublishPackets(P) \in Seq(ToBrokerPacket)
    BY <1>1, PublishPacketsType DEF TypeOK
<1>3. toBroker \in Seq(ToBrokerPacket)
    BY DEF TypeOK, WireTypeOK
<1>4. toBroker \o PublishPackets(P) \o last \in Seq(ToBrokerPacket)
    BY <1>2, <1>3
<1>5. \A q : WaitState(q) \in States
    BY DEF WaitState, States, Stored, Waiting
<1> HIDE DEF P
<1>6. state' = [p \in Pub |-> IF p \in P THEN WaitState(qos[p]) ELSE st[p]]
    BY DEF UpdateInflight, P
<1>7. inflight' = n + Cardinality(P) /\ toBroker' = toBroker \o PublishPackets(P) \o last
    BY DEF UpdateInflight, P
<1> QED
    BY <1>1, <1>4, <1>5, <1>6, <1>7

LEMMA PendingSeqType ==
    ASSUME BrokerTypeOK
    PROVE  PendingSeq \in Seq(ToClientPacket)
<1> DEFINE S == {i \in In : Pending(i)}
<1>1. S \in SUBSET Int /\ IsFiniteSet(S) /\ Cardinality(S) \in Nat
    BY InFinite
<1>2. ASSUME NEW k \in 1..Cardinality(S)
      PROVE  (LET i == InOrder(S)[k]
              IN  IF bState[i] = "sent" THEN InPublish(i, bQos[i]) ELSE WithMid("PUBREL", i))
                \in ToClientPacket
  <2>1. InOrder(S)[k] \in In
      BY <1>1, InOrderMembers
  <2> QED
      BY <2>1, ToClientTypes DEF BrokerTypeOK
<1> QED
    BY <1>1, <1>2 DEF PendingSeq

-----------------------------------------------------------------------------
(* Type correctness *)

LEMMA InitType == Init => TypeOK
<1> SUFFICES ASSUME Init PROVE TypeOK
    OBVIOUS
<1>1. WireTypeOK
    BY DEF Init, WireTypeOK
<1>2. ClientTypeOK
    BY WireAssumption DEF Init, ClientInit, ClientTypeOK, Connections, States, Stored, Mid, Pub, Releases
<1>3. BrokerTypeOK
  <2>1. bFresh \in BOOLEAN
      BY ZenonT(20) DEF Init, BrokerInit
  <2>2. bRecv \subseteq Mid
      BY BrokerAssumption DEF Init, BrokerInit
  <2>3. /\ bUp = FALSE /\ delivered = [p \in Pub |-> 0]
        /\ bState = [i \in In |-> "idle"] /\ bQos = [i \in In |-> 0]
      BY ZenonT(20) DEF Init, BrokerInit
  <2>4. delivered \in [Pub -> Nat] /\ bState \in [In -> BStates] /\ bQos \in [In -> 0..2]
      BY <2>3 DEF BStates
  <2>5. bUp \in BOOLEAN
      BY <2>3
  <2> QED
      BY <2>1, <2>2, <2>4, <2>5 DEF BrokerTypeOK
<1> QED
    BY <1>1, <1>2, <1>3 DEF Init, TypeOK

LEMMA PublishType ==
    ASSUME TypeOK, NEW q \in 1..2, PublishCall(q), UNCHANGED cleanMode
    PROVE  ClientTypeOK' /\ WireTypeOK'
<1>1. NextMid \in Mid
    BY WireAssumption DEF TypeOK, ClientTypeOK, NextMid, Mid
<1>2. WaitState(q) \in States
    BY DEF WaitState, States, Stored, Waiting
<1>3. {"rejected", "publish", "queued"} \subseteq States
    BY DEF States, Stored
<1>4. ASSUME NEW st \in States, Call(q, st), inflight' \in Int, toBroker' \in Seq(ToBrokerPacket)
      PROVE  ClientTypeOK' /\ WireTypeOK'
  <2>1. WireTypeOK'
      BY <1>4 DEF Call, TypeOK, WireTypeOK
  <2>2. nextPub' \in 1..MaxPub + 1 /\ lastMid' \in 0..MaxMid
      BY <1>1, <1>4, WireAssumption DEF Call, TypeOK, ClientTypeOK, Pub, Mid
  <2>3. state' \in [Pub -> States] /\ qos' \in [Pub -> 1..2] /\ mid' \in [Pub -> Mid]
      BY <1>1, <1>4 DEF Call, TypeOK, ClientTypeOK
  <2>4. UNCHANGED <<conn, firstConnect, dup, inMsg, got, unacked, pubrel>>
      BY <1>4 DEF Call, inVars
  <2> QED
      BY <1>4, <2>1, <2>2, <2>3, <2>4 DEF TypeOK, ClientTypeOK
<1>5. CASE PublishRejected(q)
    BY <1>3, <1>4, <1>5 DEF PublishRejected, TypeOK, ClientTypeOK, WireTypeOK
<1>6. CASE PublishSent(q)
  <2>1. nextPub \in Pub
      BY <1>6 DEF PublishSent, Call
  <2> DEFINE pkt == Publish(nextPub, NextMid, q, FALSE)
  <2>2. pkt \in ToBrokerPacket
      BY <1>1, <2>1, ToBrokerTypes
  <2>3. toBroker' \in Seq(ToBrokerPacket)
    <3>1. toBroker' = Append(toBroker, pkt)
        BY <1>6 DEF PublishSent
    <3>2. toBroker \in Seq(ToBrokerPacket)
        BY DEF TypeOK, WireTypeOK
    <3> HIDE DEF pkt
    <3> QED
        BY <2>2, <3>1, <3>2
  <2>4. inflight' \in Int
      BY <1>6 DEF PublishSent, TypeOK, ClientTypeOK
  <2>5. Call(q, WaitState(q))
      BY <1>6 DEF PublishSent
  <2> QED
      BY <1>2, <1>4, <2>3, <2>4, <2>5
<1>7. CASE PublishOffline(q)
    BY <1>3, <1>4, <1>7 DEF PublishOffline, TypeOK, ClientTypeOK, WireTypeOK
<1>8. CASE PublishQueued(q)
    BY <1>3, <1>4, <1>8 DEF PublishQueued, TypeOK, ClientTypeOK, WireTypeOK
<1> QED
    BY <1>5, <1>6, <1>7, <1>8 DEF PublishCall

(* reconnect() and the breaking of a connection. *)
LEMMA ReconnectType ==
    ASSUME TypeOK, UNCHANGED cleanMode,
           ReconnectReset \/ SocketOpened \/ SocketFailed \/ SendConnect \/ Break
    PROVE  ClientTypeOK' /\ WireTypeOK'
<1> USE DEF TypeOK, Connections
<1>1. CASE ReconnectReset
  <2>1. \A p \in Pub : ResetState(p) \in States /\ ResetDup(p) \in BOOLEAN
    <3>1. \A p \in Pub : ResetState(p) \in States
        BY DEF ResetState, States, Stored
    <3>2. \A p \in Pub : dup[p] \in BOOLEAN
        BY DEF ClientTypeOK
    <3>3. \A p \in Pub : ResetDup(p) \in BOOLEAN
        BY <3>2, Zenon DEF ResetDup
    <3> QED
        BY <3>1, <3>3
  <2>2. state' \in [Pub -> States] /\ dup' \in [Pub -> BOOLEAN] /\ inflight' \in Int
      BY <1>1, <2>1 DEF ReconnectReset, ResetOut, ClientTypeOK
  <2>3. inMsg' \subseteq In
      BY <1>1 DEF ReconnectReset, ResetIn, ClientTypeOK
  <2>4. WireTypeOK'
      BY <1>1 DEF ReconnectReset, WireTypeOK
  <2> QED
      BY <1>1, <2>2, <2>3, <2>4 DEF ReconnectReset, ClientTypeOK
<1>2. CASE SocketOpened
    BY <1>2 DEF SocketOpened, ClientTypeOK, WireTypeOK, outVars, inVars, wireVars
<1>3. CASE SocketFailed
    BY <1>3 DEF SocketFailed, ClientTypeOK, WireTypeOK, outVars, inVars
<1>4. CASE SendConnect
  <2>1. CleanSession \in BOOLEAN
      BY Zenon DEF CleanSession
  <2>2. toBroker' \in Seq(ToBrokerPacket)
      BY <1>4, <2>1, ToBrokerTypes DEF SendConnect, WireTypeOK
  <2> QED
      BY <1>4, <2>2 DEF SendConnect, ClientTypeOK, WireTypeOK, outVars, inVars
<1>5. CASE Break
    BY <1>5 DEF Break, ClientTypeOK, WireTypeOK, outVars, inVars
<1> QED
    BY <1>1, <1>2, <1>3, <1>4, <1>5

(* The handler of CONNACK. *)
LEMMA ConnackType ==
    ASSUME TypeOK, UNCHANGED cleanMode,
           ConnackAccepted \/ ConnackRefused \/ \E f \in Pub : ConnackBroken(f)
    PROVE  ClientTypeOK' /\ WireTypeOK'
<1> USE DEF TypeOK, Connections
<1>1. toClient' \in Seq(ToClientPacket)
    BY ReceiveType DEF ConnackAccepted, ConnackRefused, ConnackBroken
<1>2. ASSUME NEW S \in SUBSET Pub, Resume(S)
      PROVE  state' \in [Pub -> States] /\ inflight' \in Int
  <2>1. \A p \in Pub : ResumedState(p) \in States
      BY DEF ResumedState, WaitState, States, Stored, Waiting
  <2>2. Cardinality(S) \in Nat
      BY PubFinite
  <2> QED
      BY <1>2, <2>1, <2>2 DEF Resume, ClientTypeOK
<1>3. ASSUME NEW S \in SUBSET Pub
      PROVE  toBroker \o ResumePackets(S) \in Seq(ToBrokerPacket)
    BY ResumePacketsType DEF WireTypeOK
<1>4. Resumable \in SUBSET Pub
    BY DEF Resumable, In_
<1>5. CASE ConnackAccepted
  <2>1. state' \in [Pub -> States] /\ inflight' \in Int /\ toBroker' \in Seq(ToBrokerPacket)
      BY <1>2, <1>3, <1>4, <1>5 DEF ConnackAccepted
  <2> QED
      BY <1>1, <1>5, <2>1 DEF ConnackAccepted, ClientTypeOK, WireTypeOK, inVars
<1>6. CASE ConnackRefused
  <2>1. /\ conn' = "down" /\ firstConnect' \in BOOLEAN /\ toBroker' = <<>>
        /\ UNCHANGED <<nextPub, state, qos, mid, dup, inflight, lastMid,
                       inMsg, got, unacked, pubrel>>
      BY <1>6 DEF ConnackRefused, outVars, inVars
  <2> QED
      BY <1>1, <2>1 DEF ClientTypeOK, WireTypeOK
<1>7. ASSUME NEW f \in Pub, ConnackBroken(f)
      PROVE  ClientTypeOK' /\ WireTypeOK'
  <2> DEFINE Written == {p \in Resumable : p <= f}
             Marked == {p \in Resumable :
                          \A q \in Resumable : f < q /\ q < p => state[q] = "resend_pubrel"}
  <2>1. Written \in SUBSET Pub /\ Marked \in SUBSET Pub
      BY <1>4
  <2>2. Resume(Marked) /\ toBroker' = toBroker \o ResumePackets(Written)
      BY <1>7 DEF ConnackBroken
  <2>3. state' \in [Pub -> States] /\ inflight' \in Int /\ toBroker' \in Seq(ToBrokerPacket)
      BY <1>2, <1>3, <2>1, <2>2
  <2>4. conn' = "down" /\ firstConnect' = FALSE
        /\ UNCHANGED <<nextPub, qos, mid, dup, lastMid, inMsg, got, unacked, pubrel>>
      BY <1>7 DEF ConnackBroken, inVars
  <2> QED
      BY <1>1, <2>3, <2>4 DEF ClientTypeOK, WireTypeOK
<1> QED
    BY <1>5, <1>6, <1>7

(* The handlers of PUBACK, PUBCOMP and PUBREC. *)
LEMMA AckType ==
    ASSUME TypeOK, UNCHANGED cleanMode,
           HandleAck("PUBACK") \/ HandleAck("PUBCOMP") \/ HandlePubrec
    PROVE  ClientTypeOK' /\ WireTypeOK'
<1> USE DEF TypeOK
<1>1. ASSUME NEW t \in {"PUBACK", "PUBCOMP"}, HandleAck(t)
      PROVE  ClientTypeOK' /\ WireTypeOK'
  <2> DEFINE m == Head(toClient).mid
  <2>1. toClient' \in Seq(ToClientPacket)
      BY <1>1, ReceiveType DEF HandleAck
  <2>2. state' \in [Pub -> States] /\ inflight' \in Int /\ toBroker' \in Seq(ToBrokerPacket)
    <3>1. ASSUME NEW p \in Holders(m),
                 UpdateInflight([state EXCEPT ![p] = "published"], inflight - 1, <<>>)
          PROVE  state' \in [Pub -> States] /\ inflight' \in Int /\ toBroker' \in Seq(ToBrokerPacket)
      <4>1. [state EXCEPT ![p] = "published"] \in [Pub -> States]
          BY DEF ClientTypeOK, States
      <4>2. inflight - 1 \in Int /\ <<>> \in Seq(ToBrokerPacket)
          BY DEF ClientTypeOK
      <4> QED
          BY <3>1, <4>1, <4>2, UpdateInflightType
    <3>2. CASE UNCHANGED <<state, inflight, toBroker>>
        BY <3>2 DEF ClientTypeOK, WireTypeOK
    <3> QED
        BY <1>1, <3>1, <3>2 DEF HandleAck
  <2> QED
      BY <1>1, <2>1, <2>2 DEF HandleAck, ClientTypeOK, WireTypeOK, inVars
<1>2. CASE HandlePubrec
  <2> DEFINE m == Head(toClient).mid
  <2>1. toClient' \in Seq(ToClientPacket) /\ m \in Mid
      BY <1>2, ReceiveType, FromBrokerFields DEF HandlePubrec
  <2>2. state' \in [Pub -> States] /\ toBroker' \in Seq(ToBrokerPacket)
    <3>1. CASE \E p \in Holders(m) :
                 /\ state' = [state EXCEPT ![p] = "wait_for_pubcomp"]
                 /\ toBroker' = Append(toBroker, WithMid("PUBREL", m))
      <4>1. WithMid("PUBREL", m) \in ToBrokerPacket
          BY <2>1, ToBrokerTypes
      <4>2. toBroker' \in Seq(ToBrokerPacket)
        <5> HIDE DEF m
        <5> QED
            BY <3>1, <4>1 DEF WireTypeOK
      <4>3. state' \in [Pub -> States]
          BY <3>1 DEF ClientTypeOK, States, Stored, Waiting
      <4> QED
          BY <4>2, <4>3
    <3>2. CASE UNCHANGED <<state, toBroker>>
        BY <3>2 DEF ClientTypeOK, WireTypeOK
    <3> QED
        BY <1>2, <3>1, <3>2 DEF HandlePubrec
  <2> QED
      BY <1>2, <2>1, <2>2 DEF HandlePubrec, ClientTypeOK, WireTypeOK, inVars
<1> QED
    BY <1>1, <1>2

LEMMA DeliverType ==
    ASSUME ClientTypeOK, NEW i \in In, NEW q \in 0..2, Deliver(i, q)
    PROVE  got' \in [In -> Nat] /\ unacked' \subseteq In \X (1..2)
BY DEF ClientTypeOK, Deliver

(* The handlers of PUBLISH and PUBREL, and ack(). *)
LEMMA InboundType ==
    ASSUME TypeOK, UNCHANGED cleanMode,
           \/ HandlePublish \/ HandlePubrel \/ FreeSlot \/ HandOnSlot
           \/ \E i \in In, q \in 1..2 : Ack(i, q)
    PROVE  ClientTypeOK' /\ WireTypeOK'
<1> USE DEF TypeOK
<1> DEFINE i == Head(toClient).mid
<1>1. CASE HandlePublish
  <2> DEFINE q == Head(toClient).qos
  <2>1. toClient' \in Seq(ToClientPacket) /\ i \in In /\ q \in 0..2
      BY <1>1, ReceiveType, FromBrokerFields DEF HandlePublish
  <2>2. WithMid("PUBACK", i) \in ToBrokerPacket /\ WithMid("PUBREC", i) \in ToBrokerPacket
      BY <2>1, ToBrokerTypes
  <2> HIDE DEF i, q
  <2>3. CASE /\ Deliver(i, q)
             /\ toBroker' = IF q = 1 /\ ~ManualAck
                            THEN Append(toBroker, WithMid("PUBACK", i)) ELSE toBroker
             /\ UNCHANGED inMsg
    <3>1. got' \in [In -> Nat] /\ unacked' \subseteq In \X (1..2) /\ inMsg' \subseteq In
        BY <2>1, <2>3, DeliverType DEF ClientTypeOK
    <3>2. toBroker' \in Seq(ToBrokerPacket)
        BY <2>2, <2>3 DEF WireTypeOK
    <3> QED
        BY <1>1, <2>1, <3>1, <3>2 DEF HandlePublish, ClientTypeOK, WireTypeOK, outVars
  <2>4. CASE /\ inMsg' = inMsg \cup {i}
             /\ toBroker' = Append(toBroker, WithMid("PUBREC", i))
             /\ UNCHANGED <<got, unacked>>
    <3>1. inMsg' \subseteq In /\ toBroker' \in Seq(ToBrokerPacket)
        BY <2>1, <2>2, <2>4 DEF ClientTypeOK, WireTypeOK
    <3> QED
        BY <1>1, <2>1, <2>4, <3>1 DEF HandlePublish, ClientTypeOK, WireTypeOK, outVars
  <2> QED
      BY <1>1, <2>3, <2>4 DEF HandlePublish, i, q
<1>2. CASE HandlePubrel
  <2>1. toClient' \in Seq(ToClientPacket) /\ i \in In
      BY <1>2, ReceiveType, FromBrokerFields DEF HandlePubrel
  <2>2. PubcompReply(i) \in Seq(ToBrokerPacket)
    <3>1. WithMid("PUBCOMP", i) \in ToBrokerPacket
        BY <2>1, ToBrokerTypes
    <3> QED
        BY <3>1 DEF PubcompReply
  <2> HIDE DEF i
  <2>3. CASE /\ PopMessage(i)
             /\ Deliver(i, 2)
             /\ pubrel' = [step |-> "read", mid |-> i, read |-> inflight]
             /\ UNCHANGED toBroker
    <3>1. got' \in [In -> Nat] /\ unacked' \subseteq In \X (1..2)
        BY <2>1, <2>3, DeliverType
    <3>2. inMsg' \subseteq In
        BY <2>3 DEF PopMessage, ClientTypeOK
    <3>3. pubrel' \in Releases
        BY <2>1, <2>3 DEF Releases, ClientTypeOK
    <3> QED
        BY <1>2, <2>1, <2>3, <3>1, <3>2, <3>3 DEF HandlePubrel, ClientTypeOK, WireTypeOK, outVars
  <2>4. CASE toBroker' = toBroker \o PubcompReply(i) /\ UNCHANGED inVars
    <3>1. toBroker' \in Seq(ToBrokerPacket)
        BY <2>2, <2>4 DEF WireTypeOK
    <3> QED
        BY <1>2, <2>1, <2>4, <3>1 DEF HandlePubrel, ClientTypeOK, WireTypeOK, inVars, outVars
  <2> QED
      BY <1>2, <2>3, <2>4 DEF HandlePubrel, i
<1>4. CASE FreeSlot
  <2>1. inflight \in Int /\ pubrel \in Releases /\ pubrel.read \in Int
      BY DEF ClientTypeOK, Releases, NoRelease
  <2>2. inflight' \in Int
      BY <1>4, <2>1 DEF FreeSlot
  <2>3. pubrel' \in Releases
      BY <1>4, <2>1 DEF FreeSlot, Releases, NoRelease
  <2> QED
      BY <1>4, <2>2, <2>3 DEF FreeSlot, ClientTypeOK, WireTypeOK, outVars, wireVars
<1>5. CASE HandOnSlot
  <2>1. PubcompReply(pubrel.mid) \in Seq(ToBrokerPacket)
    <3>1. pubrel.mid \in In
          BY <1>5 DEF HandOnSlot, ClientTypeOK, Releases, NoRelease
      <3>2. WithMid("PUBCOMP", pubrel.mid) \in ToBrokerPacket
          BY <3>1, ToBrokerTypes
      <3> QED
          BY <3>2 DEF PubcompReply
  <2>2. state' \in [Pub -> States] /\ inflight' \in Int /\ toBroker' \in Seq(ToBrokerPacket)
      BY <1>5, <2>1, UpdateInflightType DEF HandOnSlot, ClientTypeOK
  <2>3. pubrel' \in Releases
      BY <1>5 DEF HandOnSlot, Releases
  <2> QED
      BY <1>5, <2>2, <2>3 DEF HandOnSlot, ClientTypeOK, WireTypeOK
<1>3. ASSUME NEW j \in In, NEW q \in 1..2, Ack(j, q)
      PROVE  ClientTypeOK' /\ WireTypeOK'
  <2>1. WithMid(IF q = 1 THEN "PUBACK" ELSE "PUBCOMP", j) \in ToBrokerPacket
      BY ToBrokerTypes
  <2>2. toBroker' \in Seq(ToBrokerPacket)
      BY <1>3, <2>1 DEF Ack, WireTypeOK
  <2>3. unacked' \subseteq In \X (1..2)
      BY <1>3 DEF Ack, ClientTypeOK
  <2> QED
      BY <1>3, <2>2, <2>3 DEF Ack, ClientTypeOK, WireTypeOK, outVars
<1> QED
    BY <1>1, <1>2, <1>3, <1>4, <1>5

(* The steps of the broker. *)
LEMMA BrokerType ==
    ASSUME TypeOK,
           BrokerAccept \/ BrokerRefuse \/ BrokerReceives
           \/ \E i \in In, q \in InQos : BrokerPublish(i, q)
    PROVE  BrokerTypeOK' /\ WireTypeOK'
<1> USE DEF TypeOK
<1> DEFINE pkt == Head(toBroker)
<1>0. /\ toClient \in Seq(ToClientPacket) /\ toBroker \in Seq(ToBrokerPacket)
      /\ Connack(TRUE) \in ToClientPacket /\ Connack(FALSE) \in ToClientPacket
    BY ToClientTypes DEF WireTypeOK
<1>1. CASE BrokerAccept
  <2>1. toBroker' \in Seq(ToBrokerPacket)
      BY <1>1, TakeType DEF BrokerAccept
  <2> DEFINE ack == Connack(TRUE)
  <2>2. Append(toClient, ack) \in Seq(ToClientPacket)
    <3> HIDE DEF ack
    <3>1. ack \in ToClientPacket
        BY <1>0 DEF ack
    <3> QED
        BY <1>0, <3>1
  <2>3. Append(toClient, ack) \o PendingSeq \in Seq(ToClientPacket)
    <3> DEFINE answer == Append(toClient, ack)
    <3>1. PendingSeq \in Seq(ToClientPacket)
        BY PendingSeqType
    <3>2. answer \in Seq(ToClientPacket)
        BY <2>2
    <3>3. answer \o PendingSeq \in Seq(ToClientPacket)
      <4> HIDE DEF answer
      <4> QED
          BY <3>1, <3>2
    <3> QED
        BY <3>3
  <2>4. toClient' \in Seq(ToClientPacket)
      BY <1>1, <2>2, <2>3 DEF BrokerAccept, Reply
  <2>5. bFresh' \in BOOLEAN /\ bRecv' \subseteq Mid /\ bState' \in [In -> BStates]
      BY <1>1 DEF BrokerAccept, BrokerTypeOK, BStates
  <2> QED
      BY <1>1, <2>1, <2>4, <2>5 DEF BrokerAccept, BrokerTypeOK, WireTypeOK
<1>2. CASE BrokerRefuse
  <2>1. toBroker' \in Seq(ToBrokerPacket)
      BY <1>2, TakeType DEF BrokerRefuse
  <2> DEFINE nack == Connack(FALSE)
  <2>2. toClient' = Append(toClient, nack)
      BY <1>2 DEF BrokerRefuse, Reply
  <2>3. toClient' \in Seq(ToClientPacket)
    <3>1. nack \in ToClientPacket
        BY <1>0
    <3> HIDE DEF nack
    <3> QED
        BY <1>0, <2>2, <3>1
  <2> QED
      BY <1>2, <2>1, <2>3 DEF BrokerRefuse, BrokerTypeOK, WireTypeOK, brokerVars
<1>3. CASE BrokerPublished
  <2>1. /\ toBroker' \in Seq(ToBrokerPacket)
        /\ pkt.msg \in Pub /\ pkt.mid \in Mid
      BY <1>3, TakeType, FromClientFields DEF BrokerPublished
  <2>2. WithMid("PUBACK", pkt.mid) \in ToClientPacket /\ WithMid("PUBREC", pkt.mid) \in ToClientPacket
      BY <2>1, ToClientTypes
  <2>3. toClient' \in Seq(ToClientPacket)
      BY <1>0, <1>3, <2>2, SMTT(30) DEF BrokerPublished, Reply
  <2>4. delivered' \in [Pub -> Nat] /\ bRecv' \subseteq Mid
      BY <1>3, <2>1 DEF BrokerPublished, BrokerTypeOK
  <2> QED
      BY <1>3, <2>1, <2>3, <2>4 DEF BrokerPublished, BrokerTypeOK, WireTypeOK
<1>4. CASE BrokerReleased
  <2>1. toBroker' \in Seq(ToBrokerPacket) /\ pkt.mid \in Mid
      BY <1>4, TakeType, FromClientFields DEF BrokerReleased
  <2>2. toClient' \in Seq(ToClientPacket)
      BY <1>0, <1>4, <2>1, ToClientTypes DEF BrokerReleased, Reply
  <2> QED
      BY <1>4, <2>1, <2>2 DEF BrokerReleased, BrokerTypeOK, WireTypeOK
<1>5. ASSUME NEW t \in {"PUBACK", "PUBREC", "PUBCOMP"}, NEW q \in 1..2,
             NEW from \in BStates, NEW to \in BStates, BrokerAcked(t, q, from, to)
      PROVE  BrokerTypeOK' /\ WireTypeOK'
  <2>1. toBroker' \in Seq(ToBrokerPacket) /\ pkt.mid \in In
      BY <1>5, TakeType, FromClientFields DEF BrokerAcked
  <2>2. WithMid("PUBREL", pkt.mid) \in ToClientPacket
      BY <2>1, ToClientTypes
  <2>3. toClient' \in Seq(ToClientPacket)
      BY <1>0, <1>5, <2>2 DEF BrokerAcked
  <2>4. bState' \in [In -> BStates]
      BY <1>5, <2>1 DEF BrokerAcked, BrokerTypeOK
  <2> QED
      BY <1>5, <2>1, <2>3, <2>4 DEF BrokerAcked, BrokerTypeOK, WireTypeOK
<1>6. CASE BrokerAck
    BY <1>5, <1>6 DEF BrokerAck, BStates
<1>7. ASSUME NEW i \in In, NEW q \in InQos, BrokerPublish(i, q)
      PROVE  BrokerTypeOK' /\ WireTypeOK'
  <2>1. q \in 0..2
      BY BrokerAssumption
  <2>2. toClient' \in Seq(ToClientPacket)
      BY <1>0, <1>7, <2>1, ToClientTypes DEF BrokerPublish, Reply
  <2>3. bState' \in [In -> BStates] /\ bQos' \in [In -> 0..2]
      BY <1>7, <2>1 DEF BrokerPublish, BrokerTypeOK, BStates
  <2> QED
      BY <1>7, <2>2, <2>3 DEF BrokerPublish, BrokerTypeOK, WireTypeOK
<1> QED
    BY <1>1, <1>2, <1>3, <1>4, <1>6, <1>7 DEF BrokerReceives

LEMMA NextType == TypeOK /\ [Next]_vars => TypeOK'
<1> SUFFICES ASSUME TypeOK, [Next]_vars PROVE TypeOK'
    OBVIOUS
<1>1. ASSUME UNCHANGED <<brokerVars, others>>, ClientTypeOK', WireTypeOK'
      PROVE  TypeOK'
    BY <1>1 DEF TypeOK, BrokerTypeOK, brokerVars, others
<1>2. ASSUME UNCHANGED <<clientVars, cleanMode>>, BrokerTypeOK', WireTypeOK',
             faults' \in Nat, consumed' \in Nat
      PROVE  TypeOK'
    BY <1>2 DEF TypeOK, ClientTypeOK, clientVars, outVars, inVars
<1>3. ASSUME NEW q \in OutQos, AppPublish(q)
      PROVE  TypeOK'
  <2>1. q \in 1..2
      BY SessionAssumption
  <2> QED
      BY <1>1, <1>3, <2>1, PublishType DEF AppPublish, others
<1>4. CASE AppConsume
  <2>1. lastMid' \in 0..MaxMid
      BY <1>4, WireAssumption DEF AppConsume, ConsumeMid, NextMid, TypeOK, ClientTypeOK
  <2> QED
      BY <1>4, <2>1 DEF AppConsume, ConsumeMid, TypeOK, ClientTypeOK, WireTypeOK, BrokerTypeOK,
                        brokerVars, outVars, inVars, wireVars
<1>5. ASSUME NEW i \in In, NEW q \in 1..2, AppAck(i, q)
      PROVE  TypeOK'
    BY <1>1, <1>5, InboundType DEF AppAck, others
<1>6. CASE BeginReconnect
    BY <1>1, <1>6, ReconnectType DEF BeginReconnect, others
<1>7. CASE Open
    BY <1>1, <1>7, ReconnectType DEF Open, others
<1>8. CASE EndReconnect
  <2>1. ClientTypeOK' /\ WireTypeOK'
      BY <1>8, ReconnectType DEF EndReconnect, others
  <2>2. BrokerTypeOK' /\ faults' \in Nat /\ consumed' \in Nat
      BY <1>8 DEF EndReconnect, TypeOK, BrokerTypeOK, others
  <2> QED
      BY <2>1, <2>2 DEF TypeOK
<1>9. CASE Handle
    BY <1>1, <1>9, ConnackType, AckType, InboundType DEF Handle, Handler, others
<1>10. CASE BrokerHandles
  <2>1. BrokerTypeOK' /\ WireTypeOK'
      BY <1>10, BrokerType DEF BrokerHandles
  <2> QED
      BY <1>2, <1>10, <2>1 DEF BrokerHandles, TypeOK, others
<1>11. ASSUME NEW i \in In, NEW q \in InQos, BrokerSends(i, q)
       PROVE  TypeOK'
  <2>1. BrokerTypeOK' /\ WireTypeOK'
      BY <1>11, BrokerType DEF BrokerSends
  <2> QED
      BY <1>2, <1>11, <2>1 DEF BrokerSends, TypeOK, others
<1>12. CASE BrokerCloses
    BY <1>1, <1>12, ReconnectType DEF BrokerCloses, others
<1>13. ASSUME NEW kind, Fault(kind)
       PROVE  faults' \in Nat /\ consumed' \in Nat /\ UNCHANGED cleanMode
    BY <1>13 DEF Fault, TypeOK
<1>14. CASE Lost \/ LostEarly \/ NoRoute \/ \E f \in Pub : LostInConnack(f)
  <2>1. faults' \in Nat /\ consumed' \in Nat /\ UNCHANGED cleanMode /\ UNCHANGED brokerVars
      BY <1>13, <1>14 DEF Lost, LostEarly, NoRoute, LostInConnack
  <2>2. ClientTypeOK' /\ WireTypeOK'
      BY <1>14, <2>1, ReconnectType, ConnackType DEF Lost, LostEarly, NoRoute, LostInConnack
  <2>3. BrokerTypeOK'
      BY <2>1 DEF TypeOK, BrokerTypeOK, brokerVars
  <2> QED
      BY <2>1, <2>2, <2>3 DEF TypeOK
<1>15. CASE Refused
  <2>1. faults' \in Nat /\ consumed' \in Nat /\ UNCHANGED <<cleanMode, clientVars>>
      BY <1>13, <1>15 DEF Refused
  <2>2. BrokerTypeOK' /\ WireTypeOK'
      BY <1>15, BrokerType DEF Refused
  <2> QED
      BY <1>2, <2>1, <2>2
<1>16. CASE UNCHANGED vars
    BY <1>16 DEF vars, TypeOK, ClientTypeOK, BrokerTypeOK, WireTypeOK, clientVars, brokerVars,
                 wireVars, outVars, inVars, others
<1> QED
    BY <1>3, <1>4, <1>5, <1>6, <1>7, <1>8, <1>9, <1>10, <1>11, <1>12, <1>14, <1>15, <1>16
       DEF Next, AnyFault

(* Every variable keeps its type: message ids stay within 1..MaxMid however *)
(* often the counter wraps, the channels only carry well-formed packets and *)
(* no handler meets a packet field it does not expect.                      *)
THEOREM TypeCorrect == Spec => []TypeOK
<1>1. Init => TypeOK
    BY InitType
<1>2. TypeOK /\ [Next]_vars => TypeOK'
    BY NextType
<1> QED
    BY <1>1, <1>2, PTL DEF Spec

-----------------------------------------------------------------------------
(* The window of messages in flight and the store of outgoing messages,     *)
(* whatever the broker sends: no lemma of this part looks into the          *)
(* channels, so its theorems hold against a broker that acknowledges at     *)
(* random.                                                                  *)

(* The publications not made yet. *)
Unused == \A p \in Pub : p >= nextPub => state[p] = "new"

(* A message id names at most one stored message. *)
UniqueMids == \A p, q \in Live : mid[p] = mid[q] => p = q

(* The inductive invariant.  Unused is needed because a slot is counted     *)
(* for the publication publish() is about to make.                          *)
SlotInv ==
    /\ TypeOK
    /\ Unused
    /\ UniqueMids
    /\ WorkConserving
    /\ NoSlotLeak

USE DEF In_

LEMMA StateSets ==
    /\ Waiting \subseteq Stored /\ Stored \subseteq States
    /\ "queued" \in Stored /\ "queued" \notin Waiting
    /\ "publish" \in Stored /\ "publish" \notin Waiting
    /\ "resend_pubrel" \in Stored /\ "resend_pubrel" \notin Waiting
    /\ "new" \notin Stored /\ "rejected" \notin Stored /\ "published" \notin Stored
    /\ "wait_for_pubcomp" \in Waiting
    /\ \A q : WaitState(q) \in Waiting
BY DEF Waiting, Stored, States, WaitState

LEMMA InflightFinite ==
    IsFiniteSet(Inflight) /\ Cardinality(Inflight) \in Nat
BY PubFinite DEF Inflight

-----------------------------------------------------------------------------
(* Each way the store changes *)

LEMMA Untouched ==
    ASSUME SlotInv, TypeOK', UNCHANGED <<nextPub, state, mid, inflight>>,
           pubrel.step = "freed" => pubrel'.step = "freed"
    PROVE  SlotInv'
BY DEF SlotInv, Unused, UniqueMids, WorkConserving, NoSlotLeak, Live, Inflight, QueuedPubs

(* publish() *)
LEMMA PublishSlots ==
    ASSUME SlotInv, TypeOK', NEW q \in 1..2, PublishCall(q)
    PROVE  SlotInv'
<1> USE DEF SlotInv
<1> DEFINE n == nextPub
<1>1. ASSUME NEW st, Call(q, st)
      PROVE  /\ n \in Pub /\ state[n] = "new" /\ state'[n] = st /\ nextPub' = n + 1
             /\ pubrel' = pubrel
             /\ mid'[n] = NextMid
             /\ \A p \in Pub \ {n} : state'[p] = state[p] /\ mid'[p] = mid[p]
             /\ Unused'
  <2>1. n \in Pub /\ n \in Int /\ nextPub' = n + 1
      BY <1>1 DEF Call, Pub
  <2>2. state[n] = "new"
      BY <2>1 DEF Unused
  <2>3. /\ state'[n] = st /\ mid'[n] = NextMid
        /\ \A p \in Pub \ {n} : state'[p] = state[p] /\ mid'[p] = mid[p]
      BY <1>1, <2>1 DEF Call, TypeOK, ClientTypeOK
  <2>4. \A p \in Pub : p >= n + 1 => p >= n /\ p # n
      BY <2>1 DEF Pub
  <2>5. Unused'
      BY <2>1, <2>3, <2>4 DEF Unused
  <2>6. pubrel' = pubrel
      BY <1>1 DEF Call, inVars
  <2> QED
      BY <2>1, <2>2, <2>3, <2>5, <2>6
<1>2. ASSUME NEW st \in Stored, Call(q, st), CanStore(NextMid)
      PROVE  UniqueMids'
  <2>1. Live' = Live \cup {n}
      BY <1>1, <1>2, StateSets DEF Live
  <2>2. \A p \in Live : p # n /\ mid[p] # NextMid
      BY <1>1, <1>2, StateSets DEF CanStore, Holders, Live
  <2>3. \A p \in Live : mid'[p] = mid[p] /\ mid'[n] = NextMid
      BY <1>1, <1>2, <2>2 DEF Live
  <2> QED
      BY <2>1, <2>2, <2>3 DEF UniqueMids
<1>3. CASE PublishRejected(q)
  <2>1. Call(q, "rejected") /\ inflight' = inflight
      BY <1>3 DEF PublishRejected
  <2>2. Live' = Live /\ Inflight' = Inflight /\ QueuedPubs' = QueuedPubs
      BY <1>1, <2>1, StateSets DEF Live, Inflight, QueuedPubs
  <2>3. \A p \in Live : mid'[p] = mid[p]
      BY <1>1, <2>1, StateSets DEF Live
  <2> QED
      BY <1>1, <2>1, <2>2, <2>3 DEF UniqueMids, WorkConserving, NoSlotLeak
<1>4. CASE PublishSent(q)
  <2>1. Call(q, WaitState(q)) /\ inflight' = inflight + 1 /\ CanStore(NextMid)
      BY <1>4 DEF PublishSent
  <2>2. Inflight' = Inflight \cup {n} /\ n \notin Inflight /\ QueuedPubs' = QueuedPubs
      BY <1>1, <2>1, StateSets DEF Inflight, QueuedPubs
  <2>3. Cardinality(Inflight') = Cardinality(Inflight) + 1
      BY <2>2, InflightFinite, FS_AddElement
  <2>4. UniqueMids'
      BY <1>2, <2>1, StateSets
  <2>5. inflight \in Int /\ MaxInflight \in Int
      BY ClientAssumption DEF TypeOK, ClientTypeOK
  <2>6. NoSlotLeak'
      BY <2>1, <2>3, <2>5, InflightFinite DEF NoSlotLeak
  <2>7. WorkConserving'
      BY <1>1, <2>1, <2>2, <2>5 DEF WorkConserving
  <2> QED
      BY <1>1, <2>1, <2>4, <2>6, <2>7
<1>5. CASE PublishOffline(q)
  <2>1. Call(q, "publish") /\ inflight' = inflight /\ CanStore(NextMid)
      BY <1>5 DEF PublishOffline
  <2>2. Inflight' = Inflight /\ QueuedPubs' = QueuedPubs
      BY <1>1, <2>1, StateSets DEF Inflight, QueuedPubs
  <2>3. UniqueMids'
      BY <1>2, <2>1, StateSets
  <2> QED
      BY <1>1, <2>1, <2>2, <2>3 DEF WorkConserving, NoSlotLeak
<1>6. CASE PublishQueued(q)
  <2>1. Call(q, "queued") /\ inflight' = inflight /\ CanStore(NextMid) /\ ~HasSlot(inflight)
      BY <1>6 DEF PublishQueued
  <2>2. Inflight' = Inflight
      BY <1>1, <2>1, StateSets DEF Inflight
  <2>3. UniqueMids'
      BY <1>2, <2>1, StateSets
  <2>4. MaxInflight > 0 /\ inflight' >= MaxInflight
      BY <2>1, ClientAssumption DEF HasSlot, TypeOK, ClientTypeOK
  <2> QED
      BY <1>1, <2>1, <2>2, <2>3, <2>4 DEF WorkConserving, NoSlotLeak
<1> QED
    BY <1>3, <1>4, <1>5, <1>6 DEF PublishCall

(* A step that leaves the publications' ids alone and stores none. *)
LEMMA KeepsStore ==
    ASSUME SlotInv, TypeOK', UNCHANGED <<nextPub, mid>>,
           \A p \in Pub : state[p] \notin Stored => state'[p] = state[p]
    PROVE  Unused' /\ UniqueMids'
<1>1. Live' \subseteq Live
    BY DEF Live
<1>2. Unused'
    BY StateSets DEF SlotInv, Unused
<1>3. UniqueMids'
    BY <1>1 DEF SlotInv, UniqueMids
<1> QED
    BY <1>2, <1>3

(* Counting: the union of disjoint sets, one element less, one more.         *)
LEMMA DisjointSum ==
    ASSUME NEW A, NEW B, IsFiniteSet(A), IsFiniteSet(B), A \cap B = {}
    PROVE  Cardinality(A \cup B) = Cardinality(A) + Cardinality(B)
<1>1. Cardinality(A \cap B) = 0
    BY FS_EmptySet
<1>2. Cardinality(A) \in Nat /\ Cardinality(B) \in Nat
    BY FS_CardinalityType
<1>3. Cardinality(A \cup B) = Cardinality(A) + Cardinality(B) - Cardinality(A \cap B)
    BY FS_Union
<1> QED
    BY <1>1, <1>2, <1>3

LEMMA OneLess ==
    ASSUME NEW A, NEW a, IsFiniteSet(A)
    PROVE  /\ Cardinality(A \ {a}) \in Nat
           /\ Cardinality(A \ {a}) >= Cardinality(A) - 1
<1>1. Cardinality(A) \in Nat
    BY FS_CardinalityType
<1>2. Cardinality(A \ {a}) = IF a \in A THEN Cardinality(A) - 1 ELSE Cardinality(A)
    BY FS_RemoveElement
<1>3. IsFiniteSet(A \ {a})
    BY FS_RemoveElement
<1>4. Cardinality(A \ {a}) \in Nat
    BY <1>3, FS_CardinalityType
<1> QED
    BY <1>1, <1>2, <1>4

LEMMA OneMore ==
    ASSUME NEW A, NEW a, IsFiniteSet(A)
    PROVE  /\ Cardinality(A \cup {a}) \in Nat
           /\ Cardinality(A \cup {a}) >= Cardinality(A)
<1>1. Cardinality(A) \in Nat
    BY FS_CardinalityType
<1>2. Cardinality(A \cup {a}) = IF a \in A THEN Cardinality(A) ELSE Cardinality(A) + 1
    BY FS_AddElement
<1> QED
    BY <1>1, <1>2

(* _messages_reconnect_reset_out *)
LEMMA ResetSlots ==
    ASSUME SlotInv, TypeOK', ResetOut, UNCHANGED <<nextPub, mid>>
    PROVE  SlotInv'
<1>1. \A p \in Pub : state'[p] = IF p \in Live THEN ResetState(p) ELSE state[p]
    BY DEF ResetOut
<1>2. \A p \in Pub : ResetState(p) \in {"publish", "resend_pubrel"}
    BY DEF ResetState
<1>3. Inflight' = {} /\ QueuedPubs' = {}
    BY <1>1, <1>2, StateSets DEF Inflight, QueuedPubs, Live
<1>4. inflight' = 0 /\ Cardinality({}) = 0
    BY FS_EmptySet DEF ResetOut
<1>5. \A p \in Pub : state[p] \notin Stored => state'[p] = state[p]
    BY <1>1 DEF Live
<1>6. Unused' /\ UniqueMids'
    BY <1>5, KeepsStore
<1> QED
    BY <1>3, <1>4, <1>6 DEF SlotInv, WorkConserving, NoSlotLeak

(* The loop of _handle_connack over the store. *)
LEMMA ResumeSlots ==
    ASSUME SlotInv, TypeOK', NEW S \in SUBSET Resumable, Resume(S),
           UNCHANGED <<nextPub, mid, pubrel>>
    PROVE  SlotInv'
<1>1. S \in SUBSET Pub /\ \A p \in S : state[p] \in {"publish", "resend_pubrel"}
    BY DEF Resumable
<1>2. \A p \in Pub : state'[p] = IF p \in S THEN ResumedState(p) ELSE state[p]
    BY DEF Resume
<1>3. \A p \in Pub : ResumedState(p) \in Waiting
    BY StateSets DEF ResumedState
<1>4. Inflight' = Inflight \cup S /\ Inflight \cap S = {} /\ QueuedPubs' = QueuedPubs
    BY <1>1, <1>2, <1>3, StateSets DEF Inflight, QueuedPubs
<1>5. IsFiniteSet(S) /\ Cardinality(S) \in Nat
    BY <1>1, PubFinite
<1>6. Cardinality(Inflight') = Cardinality(Inflight) + Cardinality(S)
    BY <1>4, <1>5, InflightFinite, DisjointSum
<1>7. inflight' = inflight + Cardinality(S) /\ inflight \in Int /\ MaxInflight \in Int
    BY ClientAssumption DEF Resume, SlotInv, TypeOK, ClientTypeOK
<1>8. NoSlotLeak'
    BY <1>5, <1>6, <1>7, InflightFinite DEF SlotInv, NoSlotLeak
<1>9. WorkConserving'
    BY <1>4, <1>5, <1>7 DEF SlotInv, WorkConserving
<1>10. Unused' /\ UniqueMids'
    BY <1>1, <1>2, StateSets, KeepsStore
<1> QED
    BY <1>8, <1>9, <1>10 DEF SlotInv

(* _update_inflight with the store st and n messages in flight. *)
LEMMA UpdateSlots ==
    ASSUME SlotInv, TypeOK', NEW st \in [Pub -> States], NEW n \in Int, NEW last,
           UpdateInflight(st, n, last), UNCHANGED <<nextPub, mid>>,
           \A p \in Pub : state[p] \notin Stored => st[p] = state[p],
           \A p \in Pub : st[p] = "queued" => MaxInflight > 0,
           n <= Cardinality({p \in Pub : st[p] \in Waiting})
    PROVE  SlotInv'
<1> DEFINE P == Promoted(st, n)
           W == {p \in Pub : st[p] \in Waiting}
<1>1. P \in SUBSET Pub /\ \A p \in P : st[p] = "queued"
    BY DEF Promoted
<1>2. \A p \in Pub : state'[p] = IF p \in P THEN WaitState(qos[p]) ELSE st[p]
    BY DEF UpdateInflight
<1>3. inflight' = n + Cardinality(P)
    BY DEF UpdateInflight
<1>4. IsFiniteSet(P) /\ Cardinality(P) \in Nat /\ IsFiniteSet(W) /\ Cardinality(W) \in Nat
    BY <1>1, PubFinite
<1>5. Inflight' = W \cup P /\ W \cap P = {}
    BY <1>1, <1>2, StateSets DEF Inflight
<1>6. Cardinality(Inflight') = Cardinality(W) + Cardinality(P)
    BY <1>4, <1>5, DisjointSum
<1>7. NoSlotLeak'
    BY <1>3, <1>4, <1>6 DEF NoSlotLeak
<1>8. WorkConserving'
  <2> SUFFICES ASSUME NEW p \in Pub, state'[p] = "queued"
               PROVE  MaxInflight > 0 /\ inflight' >= MaxInflight
      BY DEF WorkConserving, QueuedPubs
  <2>1. st[p] = "queued" /\ p \notin P
      BY <1>2, StateSets
  <2>2. MaxInflight > 0
      BY <2>1
  <2> QED
      BY <1>3, <2>1, <2>2, PromotedFills
<1>9. \A p \in Pub : state[p] \notin Stored => state'[p] = state[p]
    BY <1>1, <1>2, StateSets
<1>10. Unused' /\ UniqueMids'
    BY <1>9, KeepsStore
<1> QED
    BY <1>7, <1>8, <1>10 DEF SlotInv

(* PUBACK and PUBCOMP *)
LEMMA AckSlots ==
    ASSUME SlotInv, TypeOK', NEW t, HandleAck(t)
    PROVE  SlotInv'
<1> DEFINE m == Head(toClient).mid
<1>1. UNCHANGED <<nextPub, mid, pubrel>>
    BY DEF HandleAck, inVars
<1>2. ASSUME NEW p \in Holders(m),
             UpdateInflight([state EXCEPT ![p] = "published"], inflight - 1, <<>>)
      PROVE  SlotInv'
  <2> DEFINE st == [state EXCEPT ![p] = "published"]
             W == {r \in Pub : st[r] \in Waiting}
  <2>1. p \in Pub /\ state[p] \in Stored
      BY DEF Holders, Live
  <2>2. state \in [Pub -> States] /\ inflight \in Int
      BY DEF SlotInv, TypeOK, ClientTypeOK
  <2>3. st \in [Pub -> States] /\ \A r \in Pub : st[r] = IF r = p THEN "published" ELSE state[r]
      BY <2>2 DEF States
  <2>4. W = Inflight \ {p}
      BY <2>3, StateSets DEF Inflight
  <2>5. Cardinality(W) \in Nat /\ Cardinality(W) >= Cardinality(Inflight) - 1
      BY <2>4, InflightFinite, OneLess
  <2>6. inflight - 1 <= Cardinality(W)
      BY <2>2, <2>5, InflightFinite DEF SlotInv, NoSlotLeak
  <2>7. \A r \in Pub : st[r] = "queued" => MaxInflight > 0
      BY <2>3 DEF SlotInv, WorkConserving, QueuedPubs
  <2>8. \A r \in Pub : state[r] \notin Stored => st[r] = state[r]
      BY <2>1, <2>3
  <2>9. inflight - 1 \in Int
      BY <2>2
  <2> HIDE DEF st
  <2> QED
      BY <1>1, <1>2, <2>3, <2>6, <2>7, <2>8, <2>9, UpdateSlots DEF st
<1>3. CASE UNCHANGED <<state, inflight, toBroker>>
    BY <1>1, <1>3, Untouched
<1> QED
    BY <1>2, <1>3 DEF HandleAck

(* PUBREC *)
LEMMA PubrecSlots ==
    ASSUME SlotInv, TypeOK', HandlePubrec
    PROVE  SlotInv'
<1> DEFINE m == Head(toClient).mid
<1>1. UNCHANGED <<nextPub, mid, inflight, pubrel>>
    BY DEF HandlePubrec, inVars
<1>2. ASSUME NEW p \in Holders(m), state' = [state EXCEPT ![p] = "wait_for_pubcomp"]
      PROVE  SlotInv'
  <2>1. p \in Pub /\ state[p] \in Stored
      BY DEF Holders, Live
  <2>2. \A r \in Pub : state'[r] = IF r = p THEN "wait_for_pubcomp" ELSE state[r]
      BY <1>2 DEF SlotInv, TypeOK, ClientTypeOK
  <2>3. Inflight' = Inflight \cup {p} /\ QueuedPubs' \subseteq QueuedPubs
      BY <2>1, <2>2, StateSets DEF Inflight, QueuedPubs
  <2>4. Cardinality(Inflight') >= Cardinality(Inflight)
      BY <2>3, InflightFinite, OneMore
  <2>5. Unused' /\ UniqueMids'
      BY <1>1, <2>1, <2>2, KeepsStore
  <2>6. inflight' = inflight /\ inflight \in Int /\ Cardinality(Inflight') \in Nat
      BY <1>1, <2>3, InflightFinite, OneMore DEF SlotInv, TypeOK, ClientTypeOK
  <2>7. NoSlotLeak'
      BY <2>4, <2>6, InflightFinite DEF SlotInv, NoSlotLeak
  <2>8. WorkConserving'
      BY <1>1, <2>3, <2>6 DEF SlotInv, WorkConserving
  <2> QED
      BY <2>5, <2>7, <2>8 DEF SlotInv
<1>3. CASE UNCHANGED <<state, toBroker>>
    BY <1>1, <1>3, Untouched
<1> QED
    BY <1>2, <1>3 DEF HandlePubrec

(* PUBREL: the decrement for an incoming message keeps the invariant, for   *)
(* it only widens the window, and a slot it frees is handed on.             *)
LEMMA FreeSlots ==
    ASSUME SlotInv, TypeOK', FreeSlot
    PROVE  SlotInv'
<1>1. inflight \in Int /\ pubrel \in Releases /\ pubrel.read \in Int
    BY DEF SlotInv, TypeOK, ClientTypeOK, Releases, NoRelease
<1>2. inflight' \in Int /\ inflight' <= inflight
    BY <1>1 DEF FreeSlot
<1>3. UNCHANGED <<nextPub, state, mid>> /\ pubrel'.step = "freed"
    BY <1>1 DEF FreeSlot, outVars, Releases, NoRelease
<1>4. NoSlotLeak'
    BY <1>1, <1>2, <1>3, InflightFinite DEF SlotInv, NoSlotLeak, Inflight
<1>5. WorkConserving'
    BY <1>3 DEF SlotInv, WorkConserving, QueuedPubs
<1> QED
    BY <1>3, <1>4, <1>5 DEF SlotInv, Unused, UniqueMids, Live

LEMMA HandOnSlots ==
    ASSUME SlotInv, TypeOK', HandOnSlot
    PROVE  SlotInv'
<1>1. UNCHANGED <<nextPub, mid>>
    BY DEF HandOnSlot
<1>2. state \in [Pub -> States] /\ inflight \in Int
    BY DEF SlotInv, TypeOK, ClientTypeOK
<1>3. inflight <= Cardinality({p \in Pub : state[p] \in Waiting})
    BY DEF SlotInv, NoSlotLeak, Inflight
<1>4. \A p \in Pub : state[p] = "queued" => MaxInflight > 0
    BY DEF SlotInv, WorkConserving, QueuedPubs
<1> QED
    BY <1>1, <1>2, <1>3, <1>4, UpdateSlots DEF HandOnSlot

-----------------------------------------------------------------------------
LEMMA SlotInit == Init => SlotInv
<1> SUFFICES ASSUME Init PROVE SlotInv
    OBVIOUS
<1>1. TypeOK
    BY InitType
<1>2. /\ inflight = 0 /\ \A p \in Pub : state[p] = "new"
    BY DEF Init, ClientInit
<1>3. Live = {} /\ Inflight = {} /\ QueuedPubs = {}
    BY <1>2, StateSets DEF Live, Inflight, QueuedPubs
<1> QED
    BY <1>1, <1>2, <1>3, FS_EmptySet DEF SlotInv, Unused, UniqueMids, WorkConserving, NoSlotLeak

LEMMA SlotNext == SlotInv /\ [Next]_vars => SlotInv'
<1> SUFFICES ASSUME SlotInv, [Next]_vars PROVE SlotInv'
    OBVIOUS
<1>1. TypeOK'
    BY NextType DEF SlotInv
<1>2. ASSUME UNCHANGED <<nextPub, state, mid, inflight>>,
             pubrel' = pubrel \/ Idle
      PROVE  SlotInv'
    BY <1>1, <1>2, Untouched DEF Idle
<1>3. ASSUME NEW q \in OutQos, AppPublish(q)
      PROVE  SlotInv'
    BY <1>1, <1>3, PublishSlots, SessionAssumption DEF AppPublish
<1>4. CASE AppConsume
    BY <1>2, <1>4 DEF AppConsume, ConsumeMid, outVars, inVars
<1>5. ASSUME NEW i \in In, NEW q \in 1..2, AppAck(i, q)
      PROVE  SlotInv'
    BY <1>2, <1>5 DEF AppAck, Ack, outVars
<1>6. CASE BeginReconnect
    BY <1>1, <1>6, ResetSlots DEF BeginReconnect, ReconnectReset
<1>7. CASE Open \/ EndReconnect
    BY <1>2, <1>7 DEF Open, SocketOpened, EndReconnect, SendConnect, outVars, inVars
<1>8. CASE Handle
  <2>1. CASE ConnackAccepted
      BY <1>1, <2>1, ResumeSlots DEF ConnackAccepted, inVars
  <2>2. CASE ConnackRefused
      BY <1>2, <2>2 DEF ConnackRefused, outVars, inVars
  <2>3. CASE HandleAck("PUBACK") \/ HandleAck("PUBCOMP")
      BY <1>1, <2>3, AckSlots
  <2>4. CASE HandlePubrec
      BY <1>1, <2>4, PubrecSlots
  <2>5. CASE HandlePublish
      BY <1>2, <2>5 DEF HandlePublish, outVars
  <2>6. CASE HandlePubrel
      BY <1>2, <2>6 DEF HandlePubrel, Receive, outVars
  <2>7. CASE FreeSlot
      BY <1>1, <2>7, FreeSlots
  <2>8. CASE HandOnSlot
      BY <1>1, <2>8, HandOnSlots
  <2> QED
      BY <1>8, <2>1, <2>2, <2>3, <2>4, <2>5, <2>6, <2>7, <2>8 DEF Handle, Handler
<1>9. CASE BrokerHandles \/ \E i \in In, q \in InQos : BrokerSends(i, q)
    BY <1>2, <1>9 DEF BrokerHandles, BrokerSends, clientVars, outVars, inVars
<1>10. CASE BrokerCloses \/ Lost \/ LostEarly
    BY <1>2, <1>10 DEF BrokerCloses, Lost, LostEarly, Break, outVars, inVars
<1>11. ASSUME NEW f \in Pub, LostInConnack(f)
       PROVE  SlotInv'
  <2> DEFINE Marked == {p \in Resumable :
                          \A q \in Resumable : f < q /\ q < p => state[q] = "resend_pubrel"}
  <2>1. Resume(Marked) /\ UNCHANGED <<nextPub, mid, pubrel>>
      BY <1>11 DEF LostInConnack, ConnackBroken, inVars
  <2>2. Marked \in SUBSET Resumable
      OBVIOUS
  <2> HIDE DEF Marked
  <2> QED
      BY <1>1, <2>1, <2>2, ResumeSlots
<1>12. CASE NoRoute \/ Refused
    BY <1>2, <1>12 DEF NoRoute, SocketFailed, Refused, clientVars, outVars, inVars
<1>13. CASE UNCHANGED vars
    BY <1>2, <1>13 DEF vars, clientVars, outVars, inVars
<1> QED
    BY <1>3, <1>4, <1>5, <1>6, <1>7, <1>8, <1>9, <1>10, <1>11, <1>12, <1>13 DEF Next, AnyFault

LEMMA SlotInvariant == Spec => []SlotInv
<1>1. Init => SlotInv
    BY SlotInit
<1>2. SlotInv /\ [Next]_vars => SlotInv'
    BY SlotNext
<1> QED
    BY <1>1, <1>2, PTL DEF Spec

(* publish(), _update_inflight, _handle_connack and the reset never leave a *)
(* message queued beside a free slot, whatever the broker sends and however *)
(* often the connection breaks.                                             *)
THEOREM QueueIsServed == Spec => []WorkConserving
<1>1. SlotInv => WorkConserving
    BY DEF SlotInv
<1> QED
    BY <1>1, SlotInvariant, PTL

(* _inflight_messages never counts a message that does not wait for the     *)
(* broker: no slot of the window is lost for good.                          *)
THEOREM NoSlotIsLost == Spec => []NoSlotLeak
<1>1. SlotInv => NoSlotLeak
    BY DEF SlotInv
<1> QED
    BY <1>1, SlotInvariant, PTL

(* The dictionary _out_messages never has to hold two messages under one    *)
(* message id, however often the counter wraps and whoever else takes ids.  *)
THEOREM MidsAreUnique == Spec => []OneHolder
<1>1. SlotInv => OneHolder
  <2> SUFFICES ASSUME SlotInv, NEW m \in Mid
               PROVE  Cardinality(Holders(m)) <= 1
      BY DEF OneHolder
  <2>1. \A p, q \in Holders(m) : p = q
      BY DEF SlotInv, UniqueMids, Holders
  <2>2. CASE Holders(m) = {}
      BY <2>2, FS_EmptySet
  <2>3. CASE Holders(m) # {}
    <3>1. PICK p : p \in Holders(m)
        BY <2>3
    <3>2. Holders(m) = {p}
        BY <2>1, <3>1
    <3> QED
        BY <3>2, FS_Singleton
  <2> QED
      BY <2>2, <2>3
<1> QED
    BY <1>1, SlotInvariant, PTL

-----------------------------------------------------------------------------
(***************************************************************************)
(* What is on its way between the session layer and the broker about the   *)
(* client's own publications: for each message id at most one packet, and  *)
(* one that fits the state of the message stored under that id.  From this *)
(* follow ResumeReachesAll and PublishedDelivered.                             *)
(***************************************************************************)

(* The packets of a channel, and the ids of those of some types.            *)
Packets(s) == {s[k] : k \in DOMAIN s}
Mids(s, T) == {pkt.mid : pkt \in {x \in Packets(s) : x.type \in T}}

(* No two packets of these types carry the same id.                         *)
Single(s, T) ==
    \A j, k \in DOMAIN s :
        s[j].type \in T /\ s[k].type \in T /\ s[j].mid = s[k].mid => j = k

-----------------------------------------------------------------------------
(* Channels                                                                 *)

LEMMA PacketsEmpty ==
    /\ Packets(<<>>) = {}
    /\ \A T : Mids(<<>>, T) = {} /\ Single(<<>>, T)
BY DEF Packets, Mids, Single

(* Appending adds the packet.                                               *)
LEMMA PacketsAppend ==
    ASSUME NEW P, NEW s \in Seq(P), NEW x \in P
    PROVE  Packets(Append(s, x)) = Packets(s) \cup {x}
<1>1. DOMAIN s = 1..Len(s) /\ DOMAIN Append(s, x) = 1..Len(s) + 1 /\ Len(s) \in Nat
    OBVIOUS
<1>2. \A k \in 1..Len(s) : Append(s, x)[k] = s[k]
    OBVIOUS
<1>3. Append(s, x)[Len(s) + 1] = x
    OBVIOUS
<1>4. \A k \in 1..Len(s) + 1 : k \in 1..Len(s) \/ k = Len(s) + 1
    BY <1>1
<1> QED
    BY <1>1, <1>2, <1>3, <1>4 DEF Packets

(* A channel holds its head and the rest.                                   *)
LEMMA PacketsTail ==
    ASSUME NEW P, NEW s \in Seq(P), s # <<>>
    PROVE  /\ Packets(s) = {Head(s)} \cup Packets(Tail(s))
           /\ Tail(s) \in Seq(P) /\ Head(s) \in P
<1>1. /\ DOMAIN s = 1..Len(s) /\ Len(s) \in Nat /\ Len(s) > 0
      /\ DOMAIN Tail(s) = 1..Len(s) - 1
    OBVIOUS
<1>2. \A k \in 1..Len(s) - 1 : Tail(s)[k] = s[k + 1]
    OBVIOUS
<1>3. Head(s) = s[1]
    OBVIOUS
<1>4. \A k \in 1..Len(s) : k = 1 \/ (k - 1 \in 1..Len(s) - 1 /\ (k - 1) + 1 = k)
    BY <1>1
<1>5. \A k \in 1..Len(s) - 1 : k + 1 \in 1..Len(s)
    BY <1>1
<1>6. ASSUME NEW x \in Packets(s)
      PROVE  x \in {Head(s)} \cup Packets(Tail(s))
  <2>1. PICK k \in 1..Len(s) : x = s[k]
      BY <1>1, <1>6 DEF Packets
  <2>2. CASE k = 1
      BY <1>3, <2>1, <2>2
  <2>3. CASE k - 1 \in 1..Len(s) - 1 /\ (k - 1) + 1 = k
      BY <1>1, <1>2, <2>1, <2>3 DEF Packets
  <2> QED
      BY <1>4, <2>2, <2>3
<1>7. Head(s) \in Packets(s) /\ Packets(Tail(s)) \subseteq Packets(s)
    BY <1>1, <1>2, <1>3, <1>5 DEF Packets
<1> QED
    BY <1>6, <1>7

(* Two channels one after the other.                                        *)
LEMMA PacketsConcat ==
    ASSUME NEW P, NEW s \in Seq(P), NEW t \in Seq(P)
    PROVE  /\ Packets(s \o t) = Packets(s) \cup Packets(t)
           /\ s \o t \in Seq(P)
<1>1. /\ DOMAIN s = 1..Len(s) /\ DOMAIN t = 1..Len(t) /\ Len(s) \in Nat /\ Len(t) \in Nat
      /\ DOMAIN (s \o t) = 1..Len(s) + Len(t)
    OBVIOUS
<1>2. \A k \in 1..Len(s) : (s \o t)[k] = s[k] /\ k \in 1..Len(s) + Len(t)
    BY <1>1
<1>3. \A k \in 1..Len(t) : (s \o t)[Len(s) + k] = t[k] /\ Len(s) + k \in 1..Len(s) + Len(t)
    BY <1>1
<1>4. \A k \in 1..Len(s) + Len(t) :
          k \in 1..Len(s) \/ (k - Len(s) \in 1..Len(t) /\ Len(s) + (k - Len(s)) = k)
    BY <1>1
<1>5. ASSUME NEW x \in Packets(s \o t)
      PROVE  x \in Packets(s) \cup Packets(t)
  <2>1. PICK k \in 1..Len(s) + Len(t) : x = (s \o t)[k]
      BY <1>1, <1>5 DEF Packets
  <2>2. CASE k \in 1..Len(s)
      BY <1>1, <1>2, <2>1, <2>2 DEF Packets
  <2>3. CASE k - Len(s) \in 1..Len(t) /\ Len(s) + (k - Len(s)) = k
      BY <1>1, <1>3, <2>1, <2>3 DEF Packets
  <2> QED
      BY <1>4, <2>2, <2>3
<1>6. Packets(s) \subseteq Packets(s \o t)
    BY <1>1, <1>2 DEF Packets
<1>7. Packets(t) \subseteq Packets(s \o t)
    BY <1>1, <1>3 DEF Packets
<1> QED
    BY <1>5, <1>6, <1>7

(* Taking the head leaves no second packet with its id.                     *)
LEMMA SingleTail ==
    ASSUME NEW P, NEW s \in Seq(P), s # <<>>, NEW T, Single(s, T)
    PROVE  /\ Single(Tail(s), T)
           /\ Head(s).type \in T => Head(s).mid \notin Mids(Tail(s), T)
<1>1. /\ DOMAIN s = 1..Len(s) /\ Len(s) \in Nat /\ Len(s) > 0
      /\ DOMAIN Tail(s) = 1..Len(s) - 1
    OBVIOUS
<1>2. \A k \in 1..Len(s) - 1 : Tail(s)[k] = s[k + 1]
    OBVIOUS
<1>3. Head(s) = s[1] /\ 1 \in 1..Len(s)
    BY <1>1
<1>4. \A k \in 1..Len(s) - 1 : k + 1 \in 1..Len(s) /\ k + 1 # 1
    BY <1>1
<1>5. \A j, k \in 1..Len(s) - 1 : j + 1 = k + 1 => j = k
    BY <1>1
<1>6. Single(Tail(s), T)
    BY <1>1, <1>2, <1>4, <1>5 DEF Single
<1>7. ASSUME Head(s).type \in T, Head(s).mid \in Mids(Tail(s), T)
      PROVE  FALSE
  <2>1. PICK k \in 1..Len(s) - 1 : Tail(s)[k].type \in T /\ Tail(s)[k].mid = Head(s).mid
      BY <1>1, <1>7 DEF Mids, Packets
  <2> QED
      BY <1>1, <1>2, <1>3, <1>4, <1>7, <2>1 DEF Single
<1> QED
    BY <1>6, <1>7

(* A packet with a new id may be appended, and one of another type.         *)
LEMMA SingleAppend ==
    ASSUME NEW P, NEW s \in Seq(P), NEW x \in P, NEW T, Single(s, T),
           x.type \in T => x.mid \notin Mids(s, T)
    PROVE  Single(Append(s, x), T)
<1>1. DOMAIN s = 1..Len(s) /\ DOMAIN Append(s, x) = 1..Len(s) + 1 /\ Len(s) \in Nat
    OBVIOUS
<1>2. \A k \in 1..Len(s) : Append(s, x)[k] = s[k]
    OBVIOUS
<1>3. Append(s, x)[Len(s) + 1] = x
    OBVIOUS
<1>4. \A k \in 1..Len(s) + 1 : k \in 1..Len(s) \/ k = Len(s) + 1
    BY <1>1
<1>5. \A k \in 1..Len(s) : s[k].type \in T => s[k].mid \in Mids(s, T)
    BY <1>1 DEF Mids, Packets
<1> QED
    BY <1>1, <1>2, <1>3, <1>4, <1>5 DEF Single

(* Two channels without an id in common.                                    *)
LEMMA SingleConcat ==
    ASSUME NEW P, NEW s \in Seq(P), NEW t \in Seq(P), NEW T, Single(s, T), Single(t, T),
           Mids(s, T) \cap Mids(t, T) = {}
    PROVE  Single(s \o t, T)
<1>1. /\ DOMAIN s = 1..Len(s) /\ DOMAIN t = 1..Len(t) /\ Len(s) \in Nat /\ Len(t) \in Nat
      /\ DOMAIN (s \o t) = 1..Len(s) + Len(t)
    OBVIOUS
<1>2. \A k \in 1..Len(s) : (s \o t)[k] = s[k]
    BY <1>1
<1>3. \A k \in 1..Len(s) + Len(t) :
          k \in 1..Len(s) \/ (k - Len(s) \in 1..Len(t) /\ (s \o t)[k] = t[k - Len(s)])
    BY <1>1
<1>4. \A k \in 1..Len(s) : s[k].type \in T => s[k].mid \in Mids(s, T)
    BY <1>1 DEF Mids, Packets
<1>5. \A k \in 1..Len(t) : t[k].type \in T => t[k].mid \in Mids(t, T)
    BY <1>1 DEF Mids, Packets
<1>6. \A j, k \in 1..Len(s) + Len(t) : j - Len(s) = k - Len(s) => j = k
    BY <1>1
<1> SUFFICES ASSUME NEW j \in 1..Len(s) + Len(t), NEW k \in 1..Len(s) + Len(t),
                    (s \o t)[j].type \in T, (s \o t)[k].type \in T,
                    (s \o t)[j].mid = (s \o t)[k].mid
             PROVE  j = k
    BY <1>1 DEF Single
<1>7. CASE j \in 1..Len(s) /\ k \in 1..Len(s)
    BY <1>1, <1>2, <1>7 DEF Single
<1>8. CASE j \notin 1..Len(s) /\ k \notin 1..Len(s)
    BY <1>1, <1>3, <1>6, <1>8 DEF Single
<1>9. CASE j \in 1..Len(s) /\ k \notin 1..Len(s)
    BY <1>2, <1>3, <1>4, <1>5, <1>9
<1>10. CASE j \notin 1..Len(s) /\ k \in 1..Len(s)
    BY <1>2, <1>3, <1>4, <1>5, <1>10
<1> QED
    BY <1>7, <1>8, <1>9, <1>10

(* The ids follow the packets.                                              *)
LEMMA MidsAre ==
    ASSUME NEW s, NEW T, NEW m
    PROVE  m \in Mids(s, T) <=> \E x \in Packets(s) : x.type \in T /\ x.mid = m
BY DEF Mids

(* The k-th of InOrder(S) is the member of rank k.                          *)
LEMMA InOrderRank ==
    ASSUME NEW S \in SUBSET Int, IsFiniteSet(S), NEW k \in 1..Cardinality(S)
    PROVE  InOrder(S)[k] \in S /\ Rank(S, InOrder(S)[k]) = k
BY RankOnto DEF InOrder

LEMMA InOrderOnto ==
    ASSUME NEW S \in SUBSET Int, IsFiniteSet(S), NEW p \in S
    PROVE  Rank(S, p) \in 1..Cardinality(S) /\ InOrder(S)[Rank(S, p)] = p
<1> DEFINE k == Rank(S, p)
<1>1. k \in 1..Cardinality(S)
    BY RankRange
<1> HIDE DEF k
<1>2. InOrder(S)[k] \in S /\ Rank(S, InOrder(S)[k]) = k
    BY <1>1, InOrderRank
<1>3. Rank(S, InOrder(S)[k]) = Rank(S, p)
    BY <1>2 DEF k
<1>4. InOrder(S)[k] = p
    BY <1>2, <1>3, RankInjective
<1> QED
    BY <1>1, <1>4 DEF k

(* _update_inflight and _handle_connack send one packet for each message,   *)
(* and no two of them for one id.                                           *)
LEMMA PublishPacketsAre ==
    ASSUME ClientTypeOK, NEW S \in SUBSET Pub
    PROVE  /\ Packets(PublishPackets(S)) = {Publish(p, mid[p], qos[p], dup[p]) : p \in S}
           /\ \A T : (\A p, q \in S : mid[p] = mid[q] => p = q) => Single(PublishPackets(S), T)
<1> DEFINE P(p) == Publish(p, mid[p], qos[p], dup[p])
<1>1. S \in SUBSET Int /\ IsFiniteSet(S) /\ Cardinality(S) \in Nat
    BY PubFinite
<1>2. /\ DOMAIN PublishPackets(S) = 1..Cardinality(S)
      /\ \A k \in 1..Cardinality(S) : PublishPackets(S)[k] = P(InOrder(S)[k])
    BY DEF PublishPackets
<1>3. \A k \in 1..Cardinality(S) : InOrder(S)[k] \in S /\ Rank(S, InOrder(S)[k]) = k
    BY <1>1, InOrderRank
<1>4. \A p \in S : Rank(S, p) \in 1..Cardinality(S) /\ InOrder(S)[Rank(S, p)] = p
    BY <1>1, InOrderOnto
<1>5. \A p : P(p).mid = mid[p]
    BY DEF Publish
<1> HIDE DEF P
<1>6. Packets(PublishPackets(S)) \subseteq {P(p) : p \in S}
    BY <1>2, <1>3 DEF Packets
<1>7. {P(p) : p \in S} \subseteq Packets(PublishPackets(S))
  <2> SUFFICES ASSUME NEW p \in S PROVE P(p) \in Packets(PublishPackets(S))
      OBVIOUS
  <2>1. PublishPackets(S)[Rank(S, p)] = P(p)
      BY <1>2, <1>4
  <2> QED
      BY <1>2, <1>4, <2>1 DEF Packets
<1>8. ASSUME NEW T, \A p, q \in S : mid[p] = mid[q] => p = q
      PROVE  Single(PublishPackets(S), T)
  <2> SUFFICES ASSUME NEW j \in 1..Cardinality(S), NEW k \in 1..Cardinality(S),
                      PublishPackets(S)[j].mid = PublishPackets(S)[k].mid
               PROVE  j = k
      BY <1>2 DEF Single
  <2>1. InOrder(S)[j] = InOrder(S)[k]
      BY <1>2, <1>3, <1>5, <1>8
  <2> QED
      BY <1>3, <2>1
<1> QED
    BY <1>6, <1>7, <1>8 DEF P

(* What _handle_connack sends for one message.                              *)
ResumePacket(p) ==
    IF state[p] = "resend_pubrel"
    THEN WithMid("PUBREL", mid[p])
    ELSE Publish(p, mid[p], qos[p], dup[p])

LEMMA ResumePacketsAre ==
    ASSUME ClientTypeOK, NEW S \in SUBSET Pub
    PROVE  /\ Packets(ResumePackets(S)) = {ResumePacket(p) : p \in S}
           /\ \A T : (\A p, q \in S : mid[p] = mid[q] => p = q) => Single(ResumePackets(S), T)
<1>1. S \in SUBSET Int /\ IsFiniteSet(S) /\ Cardinality(S) \in Nat
    BY PubFinite
<1>2. /\ DOMAIN ResumePackets(S) = 1..Cardinality(S)
      /\ \A k \in 1..Cardinality(S) : ResumePackets(S)[k] = ResumePacket(InOrder(S)[k])
    BY DEF ResumePackets, ResumePacket
<1>3. \A k \in 1..Cardinality(S) : InOrder(S)[k] \in S /\ Rank(S, InOrder(S)[k]) = k
    BY <1>1, InOrderRank
<1>4. \A p \in S : Rank(S, p) \in 1..Cardinality(S) /\ InOrder(S)[Rank(S, p)] = p
    BY <1>1, InOrderOnto
<1>5. \A p : ResumePacket(p).mid = mid[p]
    BY DEF ResumePacket, Publish, WithMid
<1>6. Packets(ResumePackets(S)) \subseteq {ResumePacket(p) : p \in S}
    BY <1>2, <1>3 DEF Packets
<1>7. {ResumePacket(p) : p \in S} \subseteq Packets(ResumePackets(S))
  <2> SUFFICES ASSUME NEW p \in S PROVE ResumePacket(p) \in Packets(ResumePackets(S))
      OBVIOUS
  <2>1. ResumePackets(S)[Rank(S, p)] = ResumePacket(p)
      BY <1>2, <1>4
  <2> QED
      BY <1>2, <1>4, <2>1 DEF Packets
<1>8. ASSUME NEW T, \A p, q \in S : mid[p] = mid[q] => p = q
      PROVE  Single(ResumePackets(S), T)
  <2> SUFFICES ASSUME NEW j \in 1..Cardinality(S), NEW k \in 1..Cardinality(S),
                      ResumePackets(S)[j].mid = ResumePackets(S)[k].mid
               PROVE  j = k
      BY <1>2 DEF Single
  <2>1. InOrder(S)[j] = InOrder(S)[k]
      BY <1>2, <1>3, <1>5, <1>8
  <2> QED
      BY <1>3, <2>1
<1> QED
    BY <1>6, <1>7, <1>8

-----------------------------------------------------------------------------
(* _handle_pubrel: what each of its steps does to the store and the channels *)

PubrelSteps == HandlePubrel \/ FreeSlot \/ HandOnSlot

LEMMA ReplyIs ==
    ASSUME NEW i \in In
    PROVE  /\ PubcompReply(i) \in Seq(ToBrokerPacket)
           /\ \A x \in Packets(PubcompReply(i)) : x.type = "PUBCOMP" /\ x.mid = i
<1>1. PICK y \in ToBrokerPacket : y = WithMid("PUBCOMP", i) /\ y.type = "PUBCOMP" /\ y.mid = i
    BY ToBrokerTypes DEF WithMid
<1>2. PubcompReply(i) = <<>> \/ PubcompReply(i) = <<y>>
    BY <1>1 DEF PubcompReply
<1>3. \A z \in ToBrokerPacket : <<z>> \in Seq(ToBrokerPacket) /\ DOMAIN <<z>> = {1} /\ <<z>>[1] = z
    OBVIOUS
<1>4. Packets(<<y>>) = {y}
    BY <1>1, <1>3 DEF Packets
<1>5. <<y>> \in Seq(ToBrokerPacket) /\ <<>> \in Seq(ToBrokerPacket)
    BY <1>1, <1>3
<1>6. CASE PubcompReply(i) = <<>>
    BY <1>5, <1>6, PacketsEmpty
<1>7. CASE PubcompReply(i) = <<y>>
    BY <1>1, <1>4, <1>5, <1>7
<1> QED
    BY <1>2, <1>6, <1>7

LEMMA ReleaseType ==
    ASSUME TypeOK
    PROVE  pubrel \in Releases /\ (~Idle => pubrel.mid \in In)
BY DEF TypeOK, ClientTypeOK, Releases, NoRelease, Idle

LEMMA PubrelHandled ==
    ASSUME TypeOK, PubrelSteps
    PROVE  /\ UNCHANGED <<conn, firstConnect, nextPub, qos, mid, dup, lastMid>>
           /\ toClient' = toClient \/ Receive("PUBREL")
           /\ \E last \in Seq(ToBrokerPacket) :
                 /\ \A x \in Packets(last) : x.type = "PUBCOMP"
                 /\ \/ UpdateInflight(state, inflight, last)
                    \/ state' = state /\ toBroker' = toBroker \o last
<1>1. CASE HandlePubrel
  <2> DEFINE i == Head(toClient).mid
  <2>1. i \in In
    <3>1. toClient \in Seq(ToClientPacket) /\ toClient # <<>> /\ Head(toClient).type = "PUBREL"
        BY <1>1 DEF HandlePubrel, Receive, Arrives, TypeOK, WireTypeOK
    <3> QED
        BY <3>1, FromBrokerFields
  <2>2. toBroker \in Seq(ToBrokerPacket)
      BY DEF TypeOK, WireTypeOK
  <2>3. toBroker \o <<>> = toBroker /\ <<>> \in Seq(ToBrokerPacket)
      BY <2>2
  <2>4. UNCHANGED <<conn, firstConnect, nextPub, state, qos, mid, dup, lastMid>> /\ Receive("PUBREL")
      BY <1>1 DEF HandlePubrel, outVars
  <2>5. CASE toBroker' = toBroker
      BY <2>3, <2>4, <2>5, PacketsEmpty
  <2>6. CASE toBroker' = toBroker \o PubcompReply(i)
      BY <2>1, <2>4, <2>6, ReplyIs
  <2> QED
      BY <1>1, <2>5, <2>6 DEF HandlePubrel
<1>2. CASE FreeSlot
  <2>1. toBroker \in Seq(ToBrokerPacket)
      BY DEF TypeOK, WireTypeOK
  <2>2. toBroker \o <<>> = toBroker /\ <<>> \in Seq(ToBrokerPacket)
      BY <2>1
  <2>3. UNCHANGED <<conn, firstConnect, nextPub, state, qos, mid, dup, lastMid, toBroker, toClient>>
      BY <1>2 DEF FreeSlot, outVars, wireVars
  <2> QED
      BY <2>2, <2>3, PacketsEmpty
<1>3. CASE HandOnSlot
  <2>1. pubrel.mid \in In
      BY <1>3, ReleaseType DEF HandOnSlot, Idle
  <2> QED
      BY <1>3, <2>1, ReplyIs DEF HandOnSlot
<1> QED
    BY <1>1, <1>2, <1>3 DEF PubrelSteps

-----------------------------------------------------------------------------
(* What is on its way about the client's publications *)

Asking == {"PUBLISH", "PUBREL"}                \* from the client
Answering == {"PUBACK", "PUBREC", "PUBCOMP"}   \* from the broker

Awaits(m, st, Q) == \E p \in Pub : mid[p] = m /\ state[p] = st /\ qos[p] \in Q

(* A packet is about the message that is stored under its id, and that      *)
(* message waits for the answer to it.                                      *)
FitsAsk(x) ==
    /\ x.type = "PUBLISH" => /\ mid[x.msg] = x.mid /\ qos[x.msg] = x.qos
                             /\ state[x.msg] = WaitState(x.qos)
    /\ x.type = "PUBREL" => Awaits(x.mid, "wait_for_pubcomp", 1..2)

FitsAnswer(x) ==
    /\ x.type = "PUBACK" => Awaits(x.mid, "wait_for_puback", {1})
    /\ x.type = "PUBREC" => Awaits(x.mid, "wait_for_pubrec", {2})
    /\ x.type = "PUBCOMP" => Awaits(x.mid, "wait_for_pubcomp", 1..2)

Asks == {x \in Packets(toBroker) : x.type \in Asking}
Answers == {x \in Packets(toClient) : x.type \in Answering}

(* One packet for each id, in either direction.                             *)
OutTokens ==
    /\ Single(toBroker, Asking)
    /\ Single(toClient, Answering)
    /\ \A x \in Asks, y \in Answers : x.mid # y.mid

OutFits ==
    /\ \A x \in Asks : FitsAsk(x)
    /\ \A x \in Answers : FitsAnswer(x)

OutInv == OutTokens /\ OutFits

(* A step leaves the waiting messages stored under this id alone.           *)
Keeps(m) ==
    \A p \in Pub :
        mid[p] = m /\ state[p] \in Waiting =>
            state'[p] = state[p] /\ mid'[p] = mid[p] /\ qos'[p] = qos[p]

LEMMA FitsWaiting ==
    ASSUME SlotInv, OutInv
    PROVE  /\ \A x \in Asks : \E p \in Pub : mid[p] = x.mid /\ state[p] \in Waiting
           /\ \A y \in Answers : \E p \in Pub : mid[p] = y.mid /\ state[p] \in Waiting
<1>1. ASSUME NEW x \in Asks
      PROVE  \E p \in Pub : mid[p] = x.mid /\ state[p] \in Waiting
  <2>1. x \in ToBrokerPacket /\ FitsAsk(x)
      BY DEF SlotInv, TypeOK, WireTypeOK, OutInv, OutFits, Asks, Packets
  <2>2. CASE x.type = "PUBLISH"
      BY <2>1, <2>2, FromClientFields, StateSets DEF FitsAsk
  <2>3. CASE x.type = "PUBREL"
      BY <2>1, <2>3, StateSets DEF FitsAsk, Awaits
  <2> QED
      BY <2>2, <2>3 DEF Asks, Asking
<1>2. ASSUME NEW y \in Answers
      PROVE  \E p \in Pub : mid[p] = y.mid /\ state[p] \in Waiting
    BY <1>2 DEF OutInv, OutFits, FitsAnswer, Answers, Answering, Awaits, Waiting
<1> QED
    BY <1>1, <1>2

(* Nothing is on its way about an id under which no message waits.          *)
LEMMA Quiet ==
    ASSUME SlotInv, OutInv, NEW p \in Live, state[p] \notin Waiting
    PROVE  /\ \A x \in Asks : x.mid # mid[p]
           /\ \A y \in Answers : y.mid # mid[p]
<1>1. \A q \in Pub : mid[q] = mid[p] => state[q] \notin Waiting
  <2> SUFFICES ASSUME NEW q \in Pub, mid[q] = mid[p], state[q] \in Waiting PROVE FALSE
      OBVIOUS
  <2>1. q \in Live
      BY StateSets DEF Live
  <2>2. q = p
      BY <2>1 DEF SlotInv, UniqueMids
  <2> QED
      BY <2>2
<1> QED
    BY <1>1, FitsWaiting

LEMMA StillFits ==
    ASSUME SlotInv, OutInv
    PROVE  /\ \A x \in Asks : Keeps(x.mid) => FitsAsk(x)'
           /\ \A y \in Answers : Keeps(y.mid) => FitsAnswer(y)'
<1>1. ASSUME NEW x \in Asks, Keeps(x.mid)
      PROVE  FitsAsk(x)'
  <2>1. x \in ToBrokerPacket /\ FitsAsk(x)
      BY DEF SlotInv, TypeOK, WireTypeOK, OutInv, OutFits, Asks, Packets
  <2>2. CASE x.type = "PUBLISH"
      BY <1>1, <2>1, <2>2, FromClientFields, StateSets DEF FitsAsk, Keeps
  <2>3. CASE x.type = "PUBREL"
      BY <1>1, <2>1, <2>3, StateSets DEF FitsAsk, Keeps, Awaits
  <2> QED
      BY <2>2, <2>3 DEF Asks, Asking
<1>2. ASSUME NEW y \in Answers, Keeps(y.mid)
      PROVE  FitsAnswer(y)'
  <2>1. FitsAnswer(y)
      BY DEF OutInv, OutFits
  <2>2. \A m, st, Q : st \in Waiting /\ Keeps(m) /\ Awaits(m, st, Q) => Awaits(m, st, Q)'
      BY DEF Awaits, Keeps
  <2> QED
      BY <1>2, <2>1, <2>2 DEF FitsAnswer, Waiting
<1> QED
    BY <1>1, <1>2

(* A step of the client: it takes packets off toClient at most, and writes  *)
(* packets that fit and about whose ids nothing is on its way.              *)
LEMMA Asked ==
    ASSUME SlotInv, OutInv, NEW s \in Seq(ToBrokerPacket),
           Single(toClient', Answering), Answers' \subseteq Answers,
           toBroker' = toBroker \o s, Single(s, Asking),
           \A x \in Packets(s) : x.type \in Asking =>
               /\ FitsAsk(x)'
               /\ \A y \in Asks : y.mid # x.mid
               /\ \A y \in Answers' : y.mid # x.mid,
           \A y \in Asks : Keeps(y.mid),
           \A y \in Answers' : Keeps(y.mid)
    PROVE  OutInv'
<1>1. toBroker \in Seq(ToBrokerPacket)
    BY DEF SlotInv, TypeOK, WireTypeOK
<1>2. Packets(toBroker') = Packets(toBroker) \cup Packets(s)
    BY <1>1, PacketsConcat
<1>3. Mids(toBroker, Asking) \cap Mids(s, Asking) = {}
    BY DEF Mids, Asks
<1>4. Single(toBroker', Asking)
    BY <1>1, <1>3, SingleConcat DEF OutInv, OutTokens
<1>5. \A x \in Asks' : x \in Asks \/ (x \in Packets(s) /\ x.type \in Asking)
    BY <1>2 DEF Asks
<1>6. \A x \in Asks', y \in Answers' : x.mid # y.mid
    BY <1>5 DEF OutInv, OutTokens
<1>7. \A x \in Asks' : FitsAsk(x)'
    BY <1>5, StillFits
<1>8. \A y \in Answers' : FitsAnswer(y)'
    BY StillFits
<1> QED
    BY <1>4, <1>6, <1>7, <1>8 DEF OutInv, OutTokens, OutFits

(* The channel to the client after a packet was taken off it.               *)
LEMMA Received ==
    ASSUME SlotInv, OutInv, NEW t, Receive(t)
    PROVE  /\ Single(toClient', Answering) /\ Answers' \subseteq Answers
           /\ t \in Answering => /\ Head(toClient) \in Answers
                                 /\ \A y \in Answers' : y.mid # Head(toClient).mid
<1>1. toClient \in Seq(ToClientPacket) /\ toClient # <<>> /\ toClient' = Tail(toClient)
    BY DEF Receive, Arrives, SlotInv, TypeOK, WireTypeOK
<1>2. Head(toClient).type = t
    BY DEF Receive, Arrives
<1>3. Packets(toClient) = {Head(toClient)} \cup Packets(Tail(toClient))
    BY <1>1, PacketsTail
<1>4. /\ Single(Tail(toClient), Answering)
      /\ t \in Answering => Head(toClient).mid \notin Mids(Tail(toClient), Answering)
    BY <1>1, <1>2, SingleTail DEF OutInv, OutTokens
<1>5. Answers' = {x \in Packets(Tail(toClient)) : x.type \in Answering}
    BY <1>1 DEF Answers
<1> QED
    BY <1>1, <1>2, <1>3, <1>4, <1>5 DEF Answers, Mids

(* A step that asks and answers nothing.                                    *)
LEMMA NothingAsked ==
    ASSUME SlotInv, OutInv, UNCHANGED <<state, mid, qos>>,
           toBroker' = toBroker \/ toBroker' = <<>>
               \/ \E x \in ToBrokerPacket : x.type \notin Asking /\ toBroker' = Append(toBroker, x),
           Single(toClient', Answering), Answers' \subseteq Answers
    PROVE  OutInv'
<1>1. toBroker \in Seq(ToBrokerPacket)
    BY DEF SlotInv, TypeOK, WireTypeOK
<1>2. Single(toBroker', Asking) /\ Asks' \subseteq Asks
  <2>1. CASE toBroker' = toBroker
      BY <2>1 DEF OutInv, OutTokens, Asks
  <2>2. CASE toBroker' = <<>>
      BY <2>2, PacketsEmpty DEF Asks
  <2>3. ASSUME NEW x \in ToBrokerPacket, x.type \notin Asking, toBroker' = Append(toBroker, x)
        PROVE  Single(toBroker', Asking) /\ Asks' \subseteq Asks
    <3>1. Packets(toBroker') = Packets(toBroker) \cup {x}
        BY <1>1, <2>3, PacketsAppend
    <3>2. Single(toBroker', Asking)
        BY <1>1, <2>3, SingleAppend DEF OutInv, OutTokens
    <3> QED
        BY <2>3, <3>1, <3>2 DEF Asks
  <2> QED
      BY <2>1, <2>2, <2>3
<1>3. \A m : Keeps(m)
    BY DEF Keeps
<1>4. OutFits'
    BY <1>2, <1>3, StillFits DEF OutFits
<1> QED
    BY <1>2, <1>4 DEF OutInv, OutTokens

(* publish() *)
LEMMA PublishAsks ==
    ASSUME SlotInv, SlotInv', OutInv, NEW q \in 1..2, PublishCall(q)
    PROVE  OutInv'
<1> DEFINE n == nextPub
<1>1. \A y \in Asks \cup Answers : Keeps(y.mid)
  <2> SUFFICES ASSUME NEW p \in Pub, state[p] \in Waiting
               PROVE  state'[p] = state[p] /\ mid'[p] = mid[p] /\ qos'[p] = qos[p]
      BY DEF Keeps
  <2>0. nextPub \in Pub
      BY DEF PublishCall, PublishRejected, PublishSent, PublishOffline, PublishQueued, Call
  <2>1. nextPub \in Pub /\ nextPub >= nextPub
      BY <2>0 DEF Pub
  <2>2. state[nextPub] = "new"
      BY <2>1 DEF SlotInv, Unused
  <2>3. p # nextPub
      BY <2>2, StateSets
  <2> QED
      BY <2>1, <2>3 DEF PublishCall, PublishRejected, PublishSent, PublishOffline, PublishQueued, Call,
                  SlotInv, TypeOK, ClientTypeOK
<1>2. toClient' = toClient
    BY DEF PublishCall, PublishRejected, PublishSent, PublishOffline, PublishQueued, Call
<1>3. Single(toClient', Answering) /\ Answers' = Answers
    BY <1>2 DEF OutInv, OutTokens, Answers
<1>4. CASE toBroker' = toBroker
  <2>1. Asks' = Asks
      BY <1>4 DEF Asks
  <2> QED
      BY <1>1, <1>3, <1>4, <2>1, StillFits DEF OutInv, OutTokens, OutFits
<1>5. CASE PublishSent(q)
  <2>1. /\ n \in Pub /\ mid'[n] = NextMid /\ qos'[n] = q /\ state'[n] = WaitState(q)
        /\ Holders(NextMid) = {} /\ NextMid \in Mid
    <3>1. n \in Pub /\ Holders(NextMid) = {}
        BY <1>5 DEF PublishSent, Call, CanStore
    <3>2. NextMid \in Mid
        BY WireAssumption DEF SlotInv, TypeOK, ClientTypeOK, NextMid, Mid
    <3> QED
        BY <1>5, <3>1, <3>2 DEF PublishSent, Call, SlotInv, TypeOK, ClientTypeOK
  <2>2. PICK x \in ToBrokerPacket :
            /\ x = Publish(n, NextMid, q, FALSE)
            /\ x.type = "PUBLISH" /\ x.mid = NextMid /\ x.msg = n /\ x.qos = q
      BY <2>1, ToBrokerTypes DEF Publish
  <2>3. toBroker' = Append(toBroker, x) /\ toBroker \in Seq(ToBrokerPacket)
      BY <1>5, <2>2 DEF PublishSent, SlotInv, TypeOK, WireTypeOK
  <2>4. FitsAsk(x)'
      BY <2>1, <2>2 DEF FitsAsk
  <2>5. \A y \in Asks \cup Answers : y.mid # NextMid
    <3>1. \A p \in Pub : mid[p] = NextMid => state[p] \notin Waiting
        BY <2>1, StateSets DEF Holders, Live
    <3> QED
        BY <3>1, FitsWaiting
  <2>6. Packets(toBroker') = Packets(toBroker) \cup {x}
    <3>1. x \in ToBrokerPacket
        BY <2>2
    <3>2. Packets(Append(toBroker, x)) = Packets(toBroker) \cup {x}
        BY <2>3, <3>1, PacketsAppend
    <3> QED
        BY <2>3, <3>2
  <2>7. x.mid \notin Mids(toBroker, Asking)
      BY <2>2, <2>5 DEF Mids, Asks
  <2>8. Single(toBroker', Asking)
      BY <2>2, <2>3, <2>7, SingleAppend DEF OutInv, OutTokens
  <2>9. Asks' = Asks \cup {x}
      BY <2>2, <2>6 DEF Asks, Asking
  <2>10. OutTokens'
      BY <1>3, <2>2, <2>5, <2>8, <2>9 DEF OutInv, OutTokens
  <2>11. OutFits'
      BY <1>1, <1>3, <2>4, <2>9, StillFits DEF OutFits
  <2> QED
      BY <2>10, <2>11 DEF OutInv
<1> QED
    BY <1>4, <1>5 DEF PublishCall, PublishRejected, PublishOffline, PublishQueued

(* A message is promoted only from queued.                                  *)
LEMMA PromotedQueued ==
    ASSUME NEW st, NEW n
    PROVE  Promoted(st, n) \in SUBSET {p \in Pub : st[p] = "queued"}
BY DEF Promoted

LEMMA NoAsks ==
    ASSUME NEW s, \A x \in Packets(s) : x.type \notin Asking
    PROVE  Single(s, Asking) /\ Mids(s, Asking) = {}
BY DEF Single, Mids, Packets

(* _update_inflight: st is the store with at most one message taken out,    *)
(* about which nothing is on its way any more.                              *)
LEMMA UpdateAsks ==
    ASSUME SlotInv, SlotInv', OutInv, NEW st \in [Pub -> States], NEW n, NEW last \in Seq(ToBrokerPacket),
           UpdateInflight(st, n, last), UNCHANGED <<mid, qos, dup>>,
           \A x \in Packets(last) : x.type \notin Asking,
           \A p \in Pub : st[p] # state[p] =>
               /\ st[p] = "published"
               /\ \A y \in Asks \cup Answers' : y.mid # mid[p],
           Single(toClient', Answering), Answers' \subseteq Answers
    PROVE  OutInv'
<1> DEFINE S == Promoted(st, n)
           s == PublishPackets(S) \o last
<1>1. S \in SUBSET Pub /\ \A p \in S : st[p] = "queued" /\ state[p] = "queued"
    BY PromotedQueued
<1>2. state' = [p \in Pub |-> IF p \in S THEN WaitState(qos[p]) ELSE st[p]]
    BY DEF UpdateInflight
<1>3. toBroker' = (toBroker \o PublishPackets(S)) \o last
    BY DEF UpdateInflight
<1> HIDE DEF S
<1>4. ClientTypeOK /\ toBroker \in Seq(ToBrokerPacket) /\ PublishPackets(S) \in Seq(ToBrokerPacket)
    BY <1>1, PublishPacketsType DEF SlotInv, TypeOK, WireTypeOK
<1>5. s \in Seq(ToBrokerPacket) /\ toBroker' = toBroker \o s
    BY <1>3, <1>4, ConcatAssociative, SMTT(30)
<1>6. \A p, q \in S : mid[p] = mid[q] => p = q
    BY <1>1, StateSets DEF SlotInv, UniqueMids, Live
<1>7. /\ Packets(PublishPackets(S)) = {Publish(p, mid[p], qos[p], dup[p]) : p \in S}
      /\ Single(PublishPackets(S), Asking)
    BY <1>1, <1>4, <1>6, PublishPacketsAre
<1>8. Single(s, Asking) /\ Packets(s) = Packets(PublishPackets(S)) \cup Packets(last)
    BY <1>4, <1>7, NoAsks, SingleConcat, PacketsConcat
<1>9. ASSUME NEW x \in Packets(s), x.type \in Asking
      PROVE  /\ FitsAsk(x)'
             /\ \A y \in Asks : y.mid # x.mid
             /\ \A y \in Answers' : y.mid # x.mid
  <2>1. PICK p \in S : x = Publish(p, mid[p], qos[p], dup[p])
      BY <1>7, <1>8, <1>9
  <2>2. p \in Pub /\ p \in Live /\ state[p] \notin Waiting /\ state'[p] = WaitState(qos[p])
      BY <1>1, <1>2, StateSets DEF Live
  <2>3. x.type = "PUBLISH" /\ x.msg = p /\ x.mid = mid[p] /\ x.qos = qos[p]
      BY <2>1 DEF Publish
  <2>4. FitsAsk(x)'
      BY <2>2, <2>3 DEF FitsAsk
  <2> QED
      BY <2>2, <2>3, <2>4, Quiet
<1>10. ASSUME NEW y \in Asks \cup Answers'
       PROVE  Keeps(y.mid)
  <2> SUFFICES ASSUME NEW p \in Pub, mid[p] = y.mid, state[p] \in Waiting
               PROVE  state'[p] = state[p]
      BY DEF Keeps
  <2>1. st[p] = state[p]
      OBVIOUS
  <2> QED
      BY <1>1, <1>2, <2>1, StateSets
<1> HIDE DEF s
<1> QED
    BY <1>5, <1>8, <1>9, <1>10, Asked

(* PUBACK and PUBCOMP *)
LEMMA AckAsks ==
    ASSUME SlotInv, SlotInv', OutInv, NEW t \in {"PUBACK", "PUBCOMP"}, HandleAck(t)
    PROVE  OutInv'
<1> DEFINE m == Head(toClient).mid
<1>1. /\ Single(toClient', Answering) /\ Answers' \subseteq Answers
      /\ Head(toClient) \in Answers
      /\ \A y \in Answers' : y.mid # m
    BY Received DEF HandleAck, Answering
<1>2. UNCHANGED <<mid, qos, dup>>
    BY DEF HandleAck
<1>3. ASSUME NEW p \in Holders(m),
             UpdateInflight([state EXCEPT ![p] = "published"], inflight - 1, <<>>)
      PROVE  OutInv'
  <2> DEFINE st == [state EXCEPT ![p] = "published"]
  <2>1. p \in Pub /\ mid[p] = m
      BY DEF Holders, Live
  <2>2. st \in [Pub -> States] /\ \A r \in Pub : st[r] = IF r = p THEN "published" ELSE state[r]
      BY DEF SlotInv, TypeOK, ClientTypeOK, States
  <2>3. \A y \in Asks : y.mid # m
      BY <1>1 DEF OutInv, OutTokens
  <2>4. <<>> \in Seq(ToBrokerPacket) /\ Packets(<<>>) = {}
      BY PacketsEmpty
  <2> HIDE DEF st
  <2>5. \A r \in Pub : st[r] # state[r] =>
            st[r] = "published" /\ \A y \in Asks \cup Answers' : y.mid # mid[r]
      BY <1>1, <2>1, <2>2, <2>3
  <2> QED
      BY <1>1, <1>2, <1>3, <2>2, <2>4, <2>5, UpdateAsks DEF st
<1>4. CASE UNCHANGED <<state, inflight, toBroker>>
    BY <1>1, <1>2, <1>4, NothingAsked
<1> QED
    BY <1>3, <1>4 DEF HandleAck

(* PUBREC *)
LEMMA PubrecAsks ==
    ASSUME SlotInv, SlotInv', OutInv, HandlePubrec
    PROVE  OutInv'
<1> DEFINE m == Head(toClient).mid
<1>1. /\ Single(toClient', Answering) /\ Answers' \subseteq Answers
      /\ Head(toClient) \in Answers
      /\ \A y \in Answers' : y.mid # m
    BY Received DEF HandlePubrec, Answering
<1>2. UNCHANGED <<mid, qos, dup>> /\ Head(toClient).type = "PUBREC"
    BY DEF HandlePubrec, Receive, Arrives
<1>3. m \in Mid /\ FitsAnswer(Head(toClient))
  <2>1. toClient \in Seq(ToClientPacket) /\ toClient # <<>>
      BY DEF HandlePubrec, Receive, Arrives, SlotInv, TypeOK, WireTypeOK
  <2> QED
      BY <1>1, <1>2, <2>1, FromBrokerFields DEF OutInv, OutFits
<1>4. ASSUME NEW p \in Holders(m), state' = [state EXCEPT ![p] = "wait_for_pubcomp"],
             toBroker' = Append(toBroker, WithMid("PUBREL", m))
      PROVE  OutInv'
  <2>1. p \in Pub /\ p \in Live /\ mid[p] = m
      BY DEF Holders, Live
  <2>2. PICK r \in Pub : mid[r] = m /\ state[r] = "wait_for_pubrec" /\ qos[r] = 2
      BY <1>2, <1>3 DEF FitsAnswer, Awaits
  <2>3. r = p
    <3>1. r \in Live
        BY <2>2 DEF Live, Stored, Waiting
    <3> QED
        BY <2>1, <2>2, <3>1 DEF SlotInv, UniqueMids
  <2>4. /\ state'[p] = "wait_for_pubcomp"
        /\ \A k \in Pub : k # p => state'[k] = state[k]
      BY <1>4, <2>1 DEF SlotInv, TypeOK, ClientTypeOK
  <2>5. PICK x \in ToBrokerPacket : x = WithMid("PUBREL", m) /\ x.type = "PUBREL" /\ x.mid = m
      BY <1>3, ToBrokerTypes DEF WithMid
  <2>6. FitsAsk(x)'
      BY <1>2, <2>1, <2>2, <2>3, <2>4, <2>5 DEF FitsAsk, Awaits
  <2>7. \A y \in Asks : y.mid # m
      BY <1>1 DEF OutInv, OutTokens
  <2>8. \A y \in Asks \cup Answers' : Keeps(y.mid)
      BY <1>1, <1>2, <2>1, <2>4, <2>7 DEF Keeps
  <2>9. toBroker' = Append(toBroker, x) /\ toBroker \in Seq(ToBrokerPacket)
      BY <1>4, <2>5 DEF SlotInv, TypeOK, WireTypeOK
  <2>10. Packets(toBroker') = Packets(toBroker) \cup {x}
    <3>1. Packets(Append(toBroker, x)) = Packets(toBroker) \cup {x}
        BY <2>5, <2>9, PacketsAppend
    <3> QED
        BY <2>9, <3>1
  <2>11. x.mid \notin Mids(toBroker, Asking)
      BY <2>5, <2>7 DEF Mids, Asks
  <2>12. Single(toBroker', Asking)
    <3>1. Single(Append(toBroker, x), Asking)
        BY <2>5, <2>9, <2>11, SingleAppend DEF OutInv, OutTokens
    <3> QED
        BY <2>9, <3>1
  <2>13. Asks' = Asks \cup {x}
      BY <2>5, <2>10 DEF Asks, Asking
  <2>14. OutTokens'
      BY <1>1, <2>5, <2>12, <2>13 DEF OutInv, OutTokens
  <2>15. OutFits'
      BY <1>1, <2>6, <2>8, <2>13, StillFits DEF OutFits
  <2> QED
      BY <2>14, <2>15 DEF OutInv
<1>5. CASE UNCHANGED <<state, toBroker>>
    BY <1>1, <1>2, <1>5, NothingAsked
<1> QED
    BY <1>4, <1>5 DEF HandlePubrec

(* PUBREL *)
LEMMA PubrelAsks ==
    ASSUME SlotInv, SlotInv', OutInv, PubrelSteps
    PROVE  OutInv'
<1>0. TypeOK
    BY DEF SlotInv
<1>1. Single(toClient', Answering) /\ Answers' \subseteq Answers
  <2>1. CASE toClient' = toClient
      BY <2>1 DEF OutInv, OutTokens, Answers
  <2>2. CASE Receive("PUBREL")
      BY <2>2, Received
  <2> QED
      BY <1>0, <2>1, <2>2, PubrelHandled
<1>2. UNCHANGED <<mid, qos, dup>>
    BY <1>0, PubrelHandled
<1>3. PICK last \in Seq(ToBrokerPacket) :
          /\ \A x \in Packets(last) : x.type = "PUBCOMP"
          /\ UpdateInflight(state, inflight, last) \/ (state' = state /\ toBroker' = toBroker \o last)
    BY <1>0, PubrelHandled
<1>4. \A x \in Packets(last) : x.type \notin Asking
    BY <1>3 DEF Asking
<1>5. CASE UpdateInflight(state, inflight, last)
  <2>1. state \in [Pub -> States]
      BY DEF SlotInv, TypeOK, ClientTypeOK
  <2> QED
      BY <1>1, <1>2, <1>4, <1>5, <2>1, UpdateAsks
<1>6. CASE toBroker' = toBroker \o last /\ state' = state
  <2>1. \A m : Keeps(m)
      BY <1>2, <1>6 DEF Keeps
  <2>2. Single(last, Asking)
      BY <1>4, NoAsks
  <2> QED
      BY <1>1, <1>4, <1>6, <2>1, <2>2, Asked
<1> QED
    BY <1>3, <1>5, <1>6

(* The loop of _handle_connack over the store: W is sent, S is marked.      *)
LEMMA ResumeAsks ==
    ASSUME SlotInv, SlotInv', OutInv, NEW S \in SUBSET Resumable, NEW W \in SUBSET S,
           Resume(S), toBroker' = toBroker \o ResumePackets(W), UNCHANGED <<mid, qos>>,
           Single(toClient', Answering), Answers' \subseteq Answers
    PROVE  OutInv'
<1>1. S \in SUBSET Pub /\ W \in SUBSET Pub /\ \A p \in S : state[p] \in {"publish", "resend_pubrel"}
    BY DEF Resumable
<1>2. state' = [p \in Pub |-> IF p \in S THEN ResumedState(p) ELSE state[p]]
    BY DEF Resume
<1>3. ClientTypeOK /\ ResumePackets(W) \in Seq(ToBrokerPacket)
    BY <1>1, ResumePacketsType DEF SlotInv, TypeOK
<1>4. \A p, q \in W : mid[p] = mid[q] => p = q
    BY <1>1, StateSets DEF SlotInv, UniqueMids, Live, Stored
<1>5. /\ Packets(ResumePackets(W)) = {ResumePacket(p) : p \in W}
      /\ Single(ResumePackets(W), Asking)
    BY <1>1, <1>3, <1>4, ResumePacketsAre
<1>6. ASSUME NEW x \in Packets(ResumePackets(W)), x.type \in Asking
      PROVE  /\ FitsAsk(x)'
             /\ \A y \in Asks : y.mid # x.mid
             /\ \A y \in Answers' : y.mid # x.mid
  <2>1. PICK p \in W : x = ResumePacket(p)
      BY <1>5
  <2>2. p \in Pub /\ p \in Live /\ state[p] \notin Waiting /\ state'[p] = ResumedState(p)
      BY <1>1, <1>2 DEF Live, Stored, Waiting
  <2>3. CASE state[p] = "publish"
    <3>1. x.type = "PUBLISH" /\ x.msg = p /\ x.mid = mid[p] /\ x.qos = qos[p]
        BY <2>1, <2>3 DEF Publish, ResumePacket
    <3>2. FitsAsk(x)'
        BY <2>2, <2>3, <3>1 DEF FitsAsk, ResumedState
    <3> QED
        BY <2>2, <3>1, <3>2, Quiet
  <2>4. CASE state[p] = "resend_pubrel"
    <3>1. x.type = "PUBREL" /\ x.mid = mid[p]
        BY <2>1, <2>4 DEF WithMid, ResumePacket
    <3>2. qos[p] \in 1..2
        BY <1>3, <2>2 DEF ClientTypeOK
    <3>3. FitsAsk(x)'
        BY <2>2, <2>4, <3>1, <3>2 DEF FitsAsk, ResumedState, Awaits
    <3> QED
        BY <2>2, <3>1, <3>3, Quiet
  <2> QED
      BY <1>1, <2>3, <2>4
<1>7. ASSUME NEW y \in Asks \cup Answers'
      PROVE  Keeps(y.mid)
    BY <1>1, <1>2 DEF Keeps, Waiting
<1> QED
    BY <1>3, <1>5, <1>6, <1>7, Asked

-----------------------------------------------------------------------------
(* The broker *)

(* What the broker sends again for one message of its session.              *)
PendingPacket(i) == IF bState[i] = "sent" THEN InPublish(i, bQos[i]) ELSE WithMid("PUBREL", i)

LEMMA PendingSeqAre ==
    /\ Packets(PendingSeq) = {PendingPacket(i) : i \in {j \in In : Pending(j)}}
    /\ \A T : Single(PendingSeq, T)
<1> DEFINE S == {j \in In : Pending(j)}
<1>1. S \in SUBSET Int /\ IsFiniteSet(S) /\ Cardinality(S) \in Nat
    BY InFinite
<1>2. /\ DOMAIN PendingSeq = 1..Cardinality(S)
      /\ \A k \in 1..Cardinality(S) : PendingSeq[k] = PendingPacket(InOrder(S)[k])
    BY DEF PendingSeq, PendingPacket
<1> HIDE DEF S
<1>3. \A k \in 1..Cardinality(S) : InOrder(S)[k] \in S /\ Rank(S, InOrder(S)[k]) = k
    BY <1>1, InOrderRank
<1>4. \A p \in S : Rank(S, p) \in 1..Cardinality(S) /\ InOrder(S)[Rank(S, p)] = p
    BY <1>1, InOrderOnto
<1>5. \A p : PendingPacket(p).mid = p
    BY DEF PendingPacket, InPublish, WithMid
<1>6. Packets(PendingSeq) \subseteq {PendingPacket(i) : i \in S}
    BY <1>2, <1>3 DEF Packets
<1>7. {PendingPacket(i) : i \in S} \subseteq Packets(PendingSeq)
  <2> SUFFICES ASSUME NEW p \in S PROVE PendingPacket(p) \in Packets(PendingSeq)
      OBVIOUS
  <2>1. PendingSeq[Rank(S, p)] = PendingPacket(p)
      BY <1>2, <1>4
  <2> QED
      BY <1>2, <1>4, <2>1 DEF Packets
<1>8. ASSUME NEW T
      PROVE  Single(PendingSeq, T)
  <2> SUFFICES ASSUME NEW j \in 1..Cardinality(S), NEW k \in 1..Cardinality(S),
                      PendingSeq[j].mid = PendingSeq[k].mid
               PROVE  j = k
      BY <1>2 DEF Single
  <2>1. InOrder(S)[j] = InOrder(S)[k]
      BY <1>2, <1>5
  <2> QED
      BY <1>3, <2>1
<1> QED
    BY <1>6, <1>7, <1>8 DEF S

(* The channel to the broker after a packet was taken off it.               *)
LEMMA Taken ==
    ASSUME SlotInv, OutInv, NEW t, Take(t)
    PROVE  /\ Single(toBroker', Asking) /\ Asks' \subseteq Asks
           /\ t \in Asking => /\ Head(toBroker) \in Asks
                              /\ \A y \in Asks' : y.mid # Head(toBroker).mid
<1>1. toBroker \in Seq(ToBrokerPacket) /\ toBroker # <<>> /\ toBroker' = Tail(toBroker)
    BY DEF Take, Arrives, SlotInv, TypeOK, WireTypeOK
<1>2. Head(toBroker).type = t
    BY DEF Take, Arrives
<1>3. Packets(toBroker) = {Head(toBroker)} \cup Packets(Tail(toBroker))
    BY <1>1, PacketsTail
<1>4. /\ Single(Tail(toBroker), Asking)
      /\ t \in Asking => Head(toBroker).mid \notin Mids(Tail(toBroker), Asking)
    BY <1>1, <1>2, SingleTail DEF OutInv, OutTokens
<1>5. Asks' = {x \in Packets(Tail(toBroker)) : x.type \in Asking}
    BY <1>1 DEF Asks
<1> QED
    BY <1>1, <1>2, <1>3, <1>4, <1>5 DEF Asks, Mids

(* A step that leaves the store alone and answers nothing.                  *)
LEMMA NothingAnswered ==
    ASSUME SlotInv, OutInv, UNCHANGED <<state, mid, qos>>,
           Single(toBroker', Asking), Asks' \subseteq Asks,
           Single(toClient', Answering), Answers' \subseteq Answers
    PROVE  OutInv'
<1>1. \A m : Keeps(m)
    BY DEF Keeps
<1>2. OutFits'
    BY <1>1, StillFits DEF OutFits
<1> QED
    BY <1>2 DEF OutInv, OutTokens

(* Packets to the client that are no answers.                               *)
LEMMA SentOn ==
    ASSUME SlotInv, OutInv,
           toClient' = toClient
               \/ \E x \in ToClientPacket : x.type \notin Answering /\ toClient' = Append(toClient, x)
    PROVE  Single(toClient', Answering) /\ Answers' \subseteq Answers
<1>1. CASE toClient' = toClient
    BY <1>1 DEF OutInv, OutTokens, Answers
<1>2. ASSUME NEW x \in ToClientPacket, x.type \notin Answering, toClient' = Append(toClient, x)
      PROVE  Single(toClient', Answering) /\ Answers' \subseteq Answers
  <2>1. toClient \in Seq(ToClientPacket)
      BY DEF SlotInv, TypeOK, WireTypeOK
  <2>2. Packets(Append(toClient, x)) = Packets(toClient) \cup {x}
      BY <2>1, PacketsAppend
  <2>3. Single(Append(toClient, x), Answering)
      BY <1>2, <2>1, SingleAppend DEF OutInv, OutTokens
  <2> QED
      BY <1>2, <2>2, <2>3 DEF Answers
<1> QED
    BY <1>1, <1>2

(* An answer to the packet at the head of toBroker.                         *)
LEMMA Answered ==
    ASSUME SlotInv, OutInv, UNCHANGED <<state, mid, qos>>,
           NEW t \in Asking, Take(t), NEW x \in ToClientPacket, x.type \in Answering,
           x.mid = Head(toBroker).mid, FitsAnswer(x), toClient' = Append(toClient, x)
    PROVE  OutInv'
<1>1. /\ Single(toBroker', Asking) /\ Asks' \subseteq Asks /\ Head(toBroker) \in Asks
      /\ \A y \in Asks' : y.mid # x.mid
    BY Taken
<1>2. \A m : Keeps(m)
    BY DEF Keeps
<1>3. toClient \in Seq(ToClientPacket)
    BY DEF SlotInv, TypeOK, WireTypeOK
<1>4. Packets(Append(toClient, x)) = Packets(toClient) \cup {x}
    BY <1>3, PacketsAppend
<1>5. \A y \in Answers : y.mid # x.mid
    BY <1>1 DEF OutInv, OutTokens
<1>6. x.mid \notin Mids(toClient, Answering)
    BY <1>5 DEF Mids, Answers
<1>7. Single(Append(toClient, x), Answering)
    BY <1>3, <1>6, SingleAppend DEF OutInv, OutTokens
<1>8. Answers' = Answers \cup {x}
    BY <1>4 DEF Answers
<1>9. OutTokens'
    BY <1>1, <1>7, <1>8 DEF OutInv, OutTokens
<1>10. FitsAnswer(x)'
    BY DEF FitsAnswer, Awaits
<1>11. OutFits'
    BY <1>1, <1>2, <1>8, <1>10, StillFits DEF OutFits
<1> QED
    BY <1>9, <1>11 DEF OutInv

LEMMA BrokerAsks ==
    ASSUME SlotInv, OutInv, UNCHANGED <<state, mid, qos>>,
           BrokerAccept \/ BrokerReceives \/ BrokerRefuse \/ \E i \in In, q \in InQos : BrokerPublish(i, q)
    PROVE  OutInv'
<1>1. toClient \in Seq(ToClientPacket) /\ toBroker \in Seq(ToBrokerPacket)
    BY DEF SlotInv, TypeOK, WireTypeOK
<1>2. \A ok \in BOOLEAN : Connack(ok) \in ToClientPacket /\ Connack(ok).type \notin Answering
    BY ToClientTypes DEF Connack, Answering
<1>3. CASE BrokerAccept
  <2>1. Single(toBroker', Asking) /\ Asks' \subseteq Asks
      BY <1>3, Taken DEF BrokerAccept
  <2>2. CASE toClient' = Append(toClient, Connack(TRUE))
      BY <1>2, <2>1, <2>2, SentOn, NothingAnswered
  <2>3. CASE toClient' = Append(toClient, Connack(TRUE)) \o PendingSeq
    <3> DEFINE x == Connack(TRUE)
               c == Append(toClient, x)
    <3>0. x \in ToClientPacket /\ x.type \notin Answering
        BY <1>2
    <3>6. toClient' = c \o PendingSeq
        BY <2>3
    <3> HIDE DEF x
    <3>1. c \in Seq(ToClientPacket) /\ PendingSeq \in Seq(ToClientPacket)
      <4>1. BrokerTypeOK
          BY DEF SlotInv, TypeOK
      <4> QED
          BY <1>1, <3>0, <4>1, PendingSeqType
    <3>2. \A y \in Packets(PendingSeq) : y.type \notin Answering
        BY PendingSeqAre DEF PendingPacket, InPublish, WithMid, Answering
    <3>3. Packets(c) = Packets(toClient) \cup {x} /\ Single(c, Answering)
        BY <1>1, <3>0, PacketsAppend, SingleAppend DEF OutInv, OutTokens
    <3>4. Mids(PendingSeq, Answering) = {} /\ Single(PendingSeq, Answering)
        BY <3>2, PendingSeqAre DEF Mids
    <3> HIDE DEF c
    <3>5. Single(c \o PendingSeq, Answering) /\ Packets(c \o PendingSeq) = Packets(c) \cup Packets(PendingSeq)
        BY <3>1, <3>3, <3>4, SingleConcat, PacketsConcat
    <3>7. Answers' \subseteq Answers
        BY <3>0, <3>2, <3>3, <3>5, <3>6 DEF Answers
    <3> QED
        BY <2>1, <3>5, <3>6, <3>7, NothingAnswered
  <2> QED
      BY <1>3, <2>2, <2>3 DEF BrokerAccept, Reply
<1>4. CASE BrokerRefuse
    BY <1>2, <1>4, Taken, SentOn, NothingAnswered DEF BrokerRefuse, Reply
<1>5. CASE BrokerPublished
  <2> DEFINE pkt == Head(toBroker)
  <2>1. /\ pkt \in ToBrokerPacket /\ pkt.type = "PUBLISH" /\ FitsAsk(pkt)
        /\ pkt.msg \in Pub /\ pkt.mid \in Mid
    <3>1. pkt \in ToBrokerPacket /\ pkt.type = "PUBLISH" /\ pkt \in Asks
        BY <1>5, Taken, TakeType DEF BrokerPublished, Asking, SlotInv, TypeOK
    <3> QED
        BY <3>1, FromClientFields DEF OutInv, OutFits
  <2>2. ASSUME NEW t \in {"PUBACK", "PUBREC"}, toClient' = Append(toClient, WithMid(t, pkt.mid)),
               pkt.qos = IF t = "PUBACK" THEN 1 ELSE 2
        PROVE  OutInv'
    <3>1. PICK x \in ToClientPacket : x = WithMid(t, pkt.mid) /\ x.type = t /\ x.mid = pkt.mid
        BY <2>1, ToClientTypes DEF WithMid
    <3>2. FitsAnswer(x)
        BY <2>1, <2>2, <3>1 DEF FitsAsk, FitsAnswer, Awaits, WaitState
    <3> QED
        BY <1>5, <2>2, <3>1, <3>2, Answered DEF BrokerPublished, Asking, Answering
  <2> QED
      BY <1>5, <2>2 DEF BrokerPublished, Reply
<1>6. CASE BrokerReleased
  <2> DEFINE pkt == Head(toBroker)
  <2>1. /\ pkt \in ToBrokerPacket /\ pkt.type = "PUBREL" /\ FitsAsk(pkt) /\ pkt.mid \in Mid
    <3>1. pkt \in ToBrokerPacket /\ pkt.type = "PUBREL" /\ pkt \in Asks
        BY <1>6, Taken, TakeType DEF BrokerReleased, Asking, SlotInv, TypeOK
    <3> QED
        BY <3>1, FromClientFields DEF OutInv, OutFits
  <2>2. PICK x \in ToClientPacket : x = WithMid("PUBCOMP", pkt.mid) /\ x.type = "PUBCOMP" /\ x.mid = pkt.mid
      BY <2>1, ToClientTypes DEF WithMid
  <2>3. FitsAnswer(x)
      BY <2>1, <2>2 DEF FitsAsk, FitsAnswer
  <2> QED
      BY <1>6, <2>2, <2>3, Answered DEF BrokerReleased, Reply, Asking, Answering
<1>7. ASSUME NEW t, NEW q, NEW from, NEW to, BrokerAcked(t, q, from, to), t \in {"PUBACK", "PUBREC", "PUBCOMP"}
      PROVE  OutInv'
  <2>1. Single(toBroker', Asking) /\ Asks' \subseteq Asks
      BY <1>7, Taken DEF BrokerAcked
  <2>2. Head(toBroker) \in ToBrokerPacket /\ Head(toBroker).mid \in In
    <3>1. Head(toBroker) \in ToBrokerPacket /\ Head(toBroker).type = t
        BY <1>7, TakeType DEF BrokerAcked, SlotInv, TypeOK
    <3> QED
        BY <1>7, <3>1, FromClientFields
  <2>3. PICK x \in ToClientPacket : x = WithMid("PUBREL", Head(toBroker).mid) /\ x.type = "PUBREL"
      BY <2>2, ToClientTypes DEF WithMid
  <2>4. toClient' = toClient \/ toClient' = Append(toClient, x)
      BY <1>7, <2>3 DEF BrokerAcked
  <2> QED
      BY <2>1, <2>3, <2>4, SentOn, NothingAnswered DEF Answering
<1>8. ASSUME NEW i \in In, NEW q \in InQos, BrokerPublish(i, q)
      PROVE  OutInv'
  <2>1. PICK x \in ToClientPacket : x = InPublish(i, q) /\ x.type = "PUBLISH"
      BY ToClientTypes, BrokerAssumption DEF InPublish
  <2>2. toClient' = Append(toClient, x) /\ toBroker' = toBroker
      BY <1>8, <2>1 DEF BrokerPublish, Reply
  <2>3. Single(toBroker', Asking) /\ Asks' = Asks
      BY <2>2 DEF OutInv, OutTokens, Asks
  <2> QED
      BY <2>1, <2>2, <2>3, SentOn, NothingAnswered DEF Answering
<1> QED
    BY <1>3, <1>4, <1>5, <1>6, <1>7, <1>8 DEF BrokerReceives, BrokerAck

-----------------------------------------------------------------------------
LEMMA OutInit == Init => OutInv
<1> SUFFICES ASSUME Init PROVE OutInv
    OBVIOUS
<1>1. toBroker = <<>> /\ toClient = <<>>
    BY DEF Init
<1> QED
    BY <1>1, PacketsEmpty DEF OutInv, OutTokens, OutFits, Asks, Answers

(* A socket is opened or closed, or a step of the application or of a       *)
(* handler is not about the client's publications.                          *)
LEMMA OtherAsks ==
    ASSUME SlotInv, OutInv, UNCHANGED <<state, mid, qos>>,
           \/ ConsumeMid \/ SocketOpened \/ SocketFailed \/ SendConnect \/ Break
           \/ ConnackRefused \/ HandlePublish \/ UNCHANGED wireVars
           \/ \E i \in In, q \in 1..2 : Ack(i, q)
    PROVE  OutInv'
<1>1. CASE toClient' = toClient
  <2>1. Single(toClient', Answering) /\ Answers' \subseteq Answers
      BY <1>1 DEF OutInv, OutTokens, Answers
  <2>2. CASE toBroker' = toBroker \/ toBroker' = <<>>
      BY <2>1, <2>2, NothingAsked
  <2>3. CASE SendConnect
    <3>1. PICK x \in ToBrokerPacket : x = Connect(CleanSession) /\ x.type \notin Asking
        BY ToBrokerTypes DEF Connect, Asking, CleanSession
    <3> QED
        BY <2>1, <2>3, <3>1, NothingAsked DEF SendConnect
  <2>4. ASSUME NEW i \in In, NEW q \in 1..2, Ack(i, q)
        PROVE  OutInv'
    <3>1. PICK x \in ToBrokerPacket :
              x = WithMid(IF q = 1 THEN "PUBACK" ELSE "PUBCOMP", i) /\ x.type \notin Asking
        BY ToBrokerTypes DEF WithMid, Asking
    <3>2. toBroker' = toBroker \/ toBroker' = Append(toBroker, x)
        BY <2>4, <3>1 DEF Ack
    <3> QED
        BY <2>1, <3>1, <3>2, NothingAsked
  <2>5. CASE HandlePublish
    <3>1. toClient # <<>> /\ toClient' = Tail(toClient) /\ toClient \in Seq(ToClientPacket)
        BY <2>5 DEF HandlePublish, Receive, Arrives, SlotInv, TypeOK, WireTypeOK
    <3>2. Len(Tail(toClient)) # Len(toClient)
        BY <3>1
    <3> QED
        BY <1>1, <3>1, <3>2
  <2> QED
      BY <2>2, <2>3, <2>4, <2>5 DEF ConsumeMid, SocketOpened, SocketFailed, Break, ConnackRefused, wireVars
<1>2. CASE Break
  <2>1. Single(toClient', Answering) /\ Answers' \subseteq Answers
      BY <1>2, PacketsEmpty DEF Break, Answers
  <2> QED
      BY <1>2, <2>1, NothingAsked DEF Break
<1>3. CASE ConnackRefused
  <2>1. Single(toClient', Answering) /\ Answers' \subseteq Answers
      BY <1>3, Received DEF ConnackRefused
  <2> QED
      BY <1>3, <2>1, NothingAsked DEF ConnackRefused
<1>4. CASE HandlePublish
  <2> DEFINE i == Head(toClient).mid
  <2>1. Single(toClient', Answering) /\ Answers' \subseteq Answers
      BY <1>4, Received DEF HandlePublish
  <2>2. i \in In
    <3>1. toClient \in Seq(ToClientPacket) /\ toClient # <<>> /\ Head(toClient).type = "PUBLISH"
        BY <1>4 DEF HandlePublish, Receive, Arrives, SlotInv, TypeOK, WireTypeOK
    <3> QED
        BY <3>1, FromBrokerFields
  <2>3. ASSUME NEW t \in {"PUBACK", "PUBREC"}, toBroker' = Append(toBroker, WithMid(t, i))
        PROVE  OutInv'
    <3>1. PICK x \in ToBrokerPacket : x = WithMid(t, i) /\ x.type \notin Asking
        BY <2>2, ToBrokerTypes DEF WithMid, Asking
    <3> QED
        BY <2>1, <2>3, <3>1, NothingAsked
  <2>4. CASE toBroker' = toBroker
      BY <2>1, <2>4, NothingAsked
  <2> QED
      BY <1>4, <2>3, <2>4 DEF HandlePublish
<1> QED
    BY <1>1, <1>2, <1>3, <1>4 DEF ConsumeMid, SocketOpened, SocketFailed, SendConnect, Ack, wireVars

(* _messages_reconnect_reset_out, after the channels were emptied.          *)
LEMMA ResetAsks ==
    ASSUME toBroker' = <<>>, toClient' = <<>>
    PROVE  OutInv'
BY PacketsEmpty DEF OutInv, OutTokens, OutFits, Asks, Answers

LEMMA ConnackAsks ==
    ASSUME SlotInv, SlotInv', OutInv, ConnackAccepted \/ \E f \in Pub : ConnackBroken(f)
    PROVE  OutInv'
<1>1. Single(toClient', Answering) /\ Answers' \subseteq Answers
    BY Received DEF ConnackAccepted, ConnackBroken
<1>2. CASE ConnackAccepted
    BY <1>1, <1>2, ResumeAsks DEF ConnackAccepted
<1>3. ASSUME NEW f \in Pub, ConnackBroken(f)
      PROVE  OutInv'
  <2> DEFINE Written == {p \in Resumable : p <= f}
             Marked == {p \in Resumable :
                          \A q \in Resumable : f < q /\ q < p => state[q] = "resend_pubrel"}
  <2>1. /\ Resume(Marked) /\ toBroker' = toBroker \o ResumePackets(Written)
        /\ UNCHANGED <<mid, qos>>
      BY <1>3 DEF ConnackBroken
  <2>2. Marked \in SUBSET Resumable /\ Written \in SUBSET Marked
    <3>1. Resumable \subseteq Int /\ f \in Int
        BY DEF Resumable, Pub
    <3>2. \A p \in Written, q \in Resumable : ~(f < q /\ q < p)
        BY <3>1
    <3> QED
        BY <3>2
  <2> HIDE DEF Written, Marked
  <2> QED
      BY <1>1, <2>1, <2>2, ResumeAsks
<1> QED
    BY <1>2, <1>3

LEMMA OutNext == SlotInv /\ SlotInv' /\ OutInv /\ [Next]_vars => OutInv'
<1> SUFFICES ASSUME SlotInv, SlotInv', OutInv, [Next]_vars PROVE OutInv'
    OBVIOUS
<1>1. ASSUME NEW q \in OutQos, AppPublish(q)
      PROVE  OutInv'
    BY <1>1, PublishAsks, SessionAssumption DEF AppPublish
<1>2. CASE AppConsume
    BY <1>2, OtherAsks DEF AppConsume, ConsumeMid, outVars
<1>3. ASSUME NEW i \in In, NEW q \in 1..2, AppAck(i, q)
      PROVE  OutInv'
    BY <1>3, OtherAsks DEF AppAck, Ack, outVars
<1>4. CASE BeginReconnect
    BY <1>4, ResetAsks DEF BeginReconnect, ReconnectReset
<1>5. CASE Open \/ EndReconnect
    BY <1>5, OtherAsks DEF Open, SocketOpened, EndReconnect, SendConnect, outVars
<1>6. CASE Handle
  <2>1. CASE ConnackAccepted
      BY <2>1, ConnackAsks
  <2>2. CASE ConnackRefused \/ HandlePublish
      BY <2>2, OtherAsks DEF ConnackRefused, HandlePublish, outVars
  <2>3. CASE HandleAck("PUBACK") \/ HandleAck("PUBCOMP")
      BY <2>3, AckAsks
  <2>4. CASE HandlePubrec
      BY <2>4, PubrecAsks
  <2>5. CASE HandlePubrel \/ FreeSlot \/ HandOnSlot
      BY <2>5, PubrelAsks DEF PubrelSteps
  <2> QED
      BY <1>6, <2>1, <2>2, <2>3, <2>4, <2>5 DEF Handle, Handler
<1>7. CASE BrokerHandles \/ Refused \/ \E i \in In, q \in InQos : BrokerSends(i, q)
    BY <1>7, BrokerAsks DEF BrokerHandles, Refused, BrokerSends, clientVars, outVars
<1>8. CASE BrokerCloses \/ Lost \/ LostEarly
    BY <1>8, OtherAsks DEF BrokerCloses, Lost, LostEarly, Break, outVars
<1>9. CASE NoRoute
    BY <1>9, OtherAsks DEF NoRoute, SocketFailed, outVars
<1>10. ASSUME NEW f \in Pub, LostInConnack(f)
       PROVE  OutInv'
    BY <1>10, ConnackAsks DEF LostInConnack
<1>11. CASE UNCHANGED vars
    BY <1>11, OtherAsks DEF vars, clientVars, outVars
<1> QED
    BY <1>1, <1>2, <1>3, <1>4, <1>5, <1>6, <1>7, <1>8, <1>9, <1>10, <1>11 DEF Next, AnyFault

LEMMA OutInvariant == Spec => []OutInv
<1>1. Init => OutInv
    BY OutInit
<1>2. SlotInv /\ SlotInv' /\ OutInv /\ [Next]_vars => OutInv'
    BY OutNext
<1> QED
    BY <1>1, <1>2, SlotInvariant, PTL DEF Spec

-----------------------------------------------------------------------------
(* Nothing the loop of _handle_connack has to send stands behind a queued   *)
(* message                                                                  *)

(* The network thread is busy with PUBREL only while there is a socket.     *)
Releasing == Idle \/ conn \in {"connecting", "up"}

LEMMA ReleasingInvariant == Spec => []Releasing
<1>1. Init => Releasing
    BY DEF Init, ClientInit, Releasing, Idle, NoRelease
<1>2. TypeOK /\ Releasing /\ [Next]_vars => Releasing'
  <2> SUFFICES ASSUME TypeOK, Releasing, [Next]_vars PROVE Releasing'
      OBVIOUS
  <2>1. ASSUME UNCHANGED <<conn, pubrel>> PROVE Releasing'
      BY <2>1 DEF Releasing, Idle
  <2>2. ASSUME Idle, pubrel' = pubrel PROVE Releasing'
      BY <2>2 DEF Releasing, Idle
  <2>3. CASE BeginReconnect \/ Open \/ EndReconnect \/ NoRoute
      BY <2>2, <2>3 DEF Releasing, BeginReconnect, ReconnectReset, Open, SocketOpened, EndReconnect, SendConnect,
                        NoRoute, SocketFailed, inVars
  <2>4. CASE BrokerCloses \/ Lost \/ LostEarly
      BY <2>2, <2>4 DEF BrokerCloses, Lost, LostEarly, Break, inVars
  <2>5. ASSUME NEW f \in Pub, LostInConnack(f)
        PROVE  Releasing'
      BY <2>2, <2>5 DEF LostInConnack, ConnackBroken, Receive, inVars
  <2>6. CASE Handle
    <3>1. CASE ConnackAccepted \/ ConnackRefused \/ HandleAck("PUBACK") \/ HandleAck("PUBCOMP")
                \/ HandlePubrec \/ HandlePublish
        BY <2>2, <3>1 DEF ConnackAccepted, ConnackRefused, HandleAck, HandlePubrec, HandlePublish, Receive, inVars
    <3>2. CASE HandlePubrel
        BY <3>2 DEF HandlePubrel, Receive, Releasing
    <3>3. CASE FreeSlot \/ HandOnSlot
        BY <3>3 DEF FreeSlot, HandOnSlot, Releasing, Idle
    <3> QED
        BY <2>6, <3>1, <3>2, <3>3 DEF Handle, Handler
  <2>7. CASE \/ (\E q \in OutQos : AppPublish(q)) \/ AppConsume
             \/ (\E i \in In, q \in 1..2 : AppAck(i, q)) \/ UNCHANGED vars
      BY <2>1, <2>7 DEF AppPublish, PublishCall, PublishRejected, PublishSent, PublishOffline, PublishQueued, Call,
                        AppConsume, ConsumeMid, AppAck, Ack, vars, clientVars, inVars
  <2>8. CASE BrokerHandles \/ Refused \/ \E i \in In, q \in InQos : BrokerSends(i, q)
      BY <2>1, <2>8 DEF BrokerHandles, Refused, BrokerSends, clientVars, inVars
  <2> QED
      BY <2>3, <2>4, <2>5, <2>6, <2>7, <2>8 DEF Next, AnyFault
<1> QED
    BY <1>1, <1>2, TypeCorrect, PTL DEF Spec

Unsent == {"publish", "resend_pubrel"}

(* A step that queues nothing and leaves nothing new to be sent.            *)
LEMMA ReachKept ==
    ASSUME ResumeReachesAll,
           \A p \in Pub : state'[p] = "queued" => state[p] = "queued",
           \A p \in Pub : state'[p] \in Unsent => state[p] = state'[p]
    PROVE  ResumeReachesAll'
<1> SUFFICES ASSUME NEW p \in Pub, NEW q \in Pub, state'[p] = "queued", state'[q] \in Unsent, p < q
             PROVE  FALSE
    BY DEF ResumeReachesAll, QueuedPubs, Live, Unsent
<1>1. state[p] = "queued" /\ state[q] \in Unsent /\ state[q] \in Stored
    BY DEF Unsent, Stored
<1> QED
    BY <1>1 DEF ResumeReachesAll, QueuedPubs, Live, Unsent

LEMMA PublishReach ==
    ASSUME SlotInv, Releasing, ResumeReachesAll, NEW q \in 1..2, PublishCall(q)
    PROVE  ResumeReachesAll'
<1> DEFINE n == nextPub
<1>1. ASSUME NEW st, Call(q, st)
      PROVE  /\ n \in Pub /\ state[n] = "new" /\ state'[n] = st
             /\ \A p \in Pub : p # n => state'[p] = state[p]
             /\ \A p \in Live : p < n
  <2>1. n \in Pub
      BY <1>1 DEF Call
  <2>2. \A p \in Pub : p >= n \/ p < n
      BY <2>1 DEF Pub
  <2>3. n >= n
      BY <2>1 DEF Pub
  <2>4. \A p \in Live : p < n
      BY <2>2, StateSets DEF SlotInv, Unused, Live
  <2>5. state[n] = "new"
      BY <2>1, <2>3 DEF SlotInv, Unused
  <2>6. state'[n] = st /\ \A p \in Pub : p # n => state'[p] = state[p]
      BY <1>1, <2>1 DEF Call, SlotInv, TypeOK, ClientTypeOK
  <2> QED
      BY <2>1, <2>4, <2>5, <2>6
<1>2. \A p, r \in Pub : p < r => ~(r < p) /\ p # r
    BY DEF Pub
<1>3. CASE PublishQueued(q) \/ PublishRejected(q)
  <2>1. PICK st \in {"queued", "rejected"} : Call(q, st)
      BY <1>3 DEF PublishQueued, PublishRejected
  <2> SUFFICES ASSUME NEW p \in Pub, NEW r \in Pub, state'[p] = "queued", state'[r] \in Unsent, p < r
               PROVE  FALSE
      BY DEF ResumeReachesAll, QueuedPubs, Live, Unsent
  <2>2. r # n
      BY <1>1, <2>1 DEF Unsent
  <2>3. r \in Live /\ state[r] \in Unsent
      BY <1>1, <2>1, <2>2 DEF Live, Unsent, Stored
  <2>4. p # n
      BY <1>1, <1>2, <2>1, <2>3
  <2>5. state[p] = "queued"
      BY <1>1, <2>1, <2>4
  <2> QED
      BY <2>3, <2>5 DEF ResumeReachesAll, QueuedPubs, Unsent
<1>4. CASE PublishSent(q)
  <2>1. Call(q, WaitState(q))
      BY <1>4 DEF PublishSent
  <2>2. \A p \in Pub : state'[p] = IF p = n THEN WaitState(q) ELSE state[p]
      BY <1>1, <2>1
  <2>3. WaitState(q) # "queued" /\ WaitState(q) \notin Unsent
      BY DEF WaitState, Unsent
  <2> QED
      BY <2>2, <2>3, ReachKept
<1>5. CASE PublishOffline(q)
  <2>1. QueuedPubs = {}
    <3>1. HasSlot(inflight) /\ pubrel.step # "freed"
        BY <1>5 DEF PublishOffline, Releasing, HasSocket, Idle
    <3>2. inflight \in Int /\ WorkConserving
        BY DEF SlotInv, TypeOK, ClientTypeOK
    <3> QED
        BY <3>1, <3>2, ClientAssumption DEF HasSlot, WorkConserving
  <2>2. Call(q, "publish")
      BY <1>5 DEF PublishOffline
  <2>3. QueuedPubs' = {}
      BY <1>1, <2>1, <2>2 DEF QueuedPubs
  <2> QED
      BY <2>3 DEF ResumeReachesAll
<1> QED
    BY <1>3, <1>4, <1>5 DEF PublishCall

(* The oldest queued messages are promoted.                                 *)
LEMMA PromotedOldest ==
    ASSUME NEW st \in [Pub -> States], NEW n \in Int, NEW p \in Pub, NEW q \in Pub,
           st[p] = "queued", p < q, q \in Promoted(st, n)
    PROVE  p \in Promoted(st, n)
<1> DEFINE Q == {r \in Pub : st[r] = "queued"}
<1>1. Q \in SUBSET Pub /\ p \in Q /\ q \in Q /\ MaxInflight > 0 /\ n + Rank(Q, q) <= MaxInflight
    BY DEF Promoted
<1>2. Q \in SUBSET Int /\ IsFiniteSet(Q) /\ Cardinality(Q) \in Nat
    BY <1>1, PubFinite
<1>3. Rank(Q, p) < Rank(Q, q)
    BY <1>1, <1>2, RankMonotone
<1>4. Rank(Q, p) \in 1..Cardinality(Q) /\ Rank(Q, q) \in 1..Cardinality(Q)
    BY <1>1, <1>2, RankRange
<1>5. n + Rank(Q, p) <= MaxInflight
    BY <1>1, <1>2, <1>3, <1>4, ClientAssumption
<1> QED
    BY <1>1, <1>5 DEF Promoted

LEMMA UpdateReach ==
    ASSUME ResumeReachesAll, NEW st \in [Pub -> States], NEW n, NEW last, UpdateInflight(st, n, last),
           \A p \in Pub : st[p] = state[p] \/ st[p] = "published"
    PROVE  ResumeReachesAll'
<1>1. \A p \in Pub : state'[p] = IF p \in Promoted(st, n) THEN WaitState(qos[p]) ELSE st[p]
    BY DEF UpdateInflight
<1>2. \A q : WaitState(q) # "queued" /\ WaitState(q) \notin Unsent
    BY DEF WaitState, Unsent
<1>3. "published" # "queued" /\ "published" \notin Unsent
    BY DEF Unsent
<1> QED
    BY <1>1, <1>2, <1>3, ReachKept

LEMMA ReachNext == SlotInv /\ Releasing /\ ResumeReachesAll /\ [Next]_vars => ResumeReachesAll'
<1> SUFFICES ASSUME SlotInv, Releasing, ResumeReachesAll, [Next]_vars PROVE ResumeReachesAll'
    OBVIOUS
<1>0. TypeOK /\ state \in [Pub -> States]
    BY DEF SlotInv, TypeOK, ClientTypeOK
<1>1. ASSUME NEW q \in OutQos, AppPublish(q)
      PROVE  ResumeReachesAll'
    BY <1>1, PublishReach, SessionAssumption DEF AppPublish
<1>2. CASE UNCHANGED state
    BY <1>2, ReachKept
<1>3. CASE BeginReconnect
  <2>1. \A p \in Pub : state'[p] = IF p \in Live THEN ResetState(p) ELSE state[p]
      BY <1>3 DEF BeginReconnect, ReconnectReset, ResetOut
  <2>2. \A p \in Pub : state'[p] # "queued"
      BY <2>1, StateSets DEF ResetState, Live
  <2> QED
      BY <2>2 DEF ResumeReachesAll, QueuedPubs
<1>4. ASSUME NEW S \in SUBSET Resumable, Resume(S)
      PROVE  ResumeReachesAll'
  <2>1. \A p \in Pub : state'[p] = IF p \in S THEN ResumedState(p) ELSE state[p]
      BY <1>4 DEF Resume
  <2>2. \A p : ResumedState(p) # "queued" /\ ResumedState(p) \notin Unsent
      BY DEF ResumedState, WaitState, Unsent
  <2> QED
      BY <2>1, <2>2, ReachKept
<1>5. ASSUME NEW f \in Pub, ConnackBroken(f)
      PROVE  ResumeReachesAll'
  <2> DEFINE Marked == {p \in Resumable :
                          \A q \in Resumable : f < q /\ q < p => state[q] = "resend_pubrel"}
  <2>1. Resume(Marked) /\ Marked \in SUBSET Resumable
      BY <1>5 DEF ConnackBroken
  <2> HIDE DEF Marked
  <2> QED
      BY <1>4, <2>1
<1>6. ASSUME NEW t, HandleAck(t)
      PROVE  ResumeReachesAll'
  <2>1. ASSUME NEW p \in Live, UpdateInflight([state EXCEPT ![p] = "published"], inflight - 1, <<>>)
        PROVE  ResumeReachesAll'
    <3> DEFINE st == [state EXCEPT ![p] = "published"]
    <3>1. st \in [Pub -> States] /\ \A r \in Pub : st[r] = state[r] \/ st[r] = "published"
        BY <1>0 DEF States
    <3> HIDE DEF st
    <3> QED
        BY <2>1, <3>1, UpdateReach DEF st
  <2> QED
      BY <1>2, <1>6, <2>1 DEF HandleAck, Holders
<1>7. CASE HandlePubrec
  <2>1. ASSUME NEW p \in Live, state' = [state EXCEPT ![p] = "wait_for_pubcomp"]
        PROVE  ResumeReachesAll'
    <3>1. \A r \in Pub : state'[r] = IF r = p THEN "wait_for_pubcomp" ELSE state[r]
        BY <1>0, <2>1
    <3>2. "wait_for_pubcomp" # "queued" /\ "wait_for_pubcomp" \notin Unsent
        BY DEF Unsent
    <3> QED
        BY <3>1, <3>2, ReachKept
  <2> QED
      BY <1>2, <1>7, <2>1 DEF HandlePubrec, Holders
<1>8. CASE PubrelSteps
  <2>1. ASSUME NEW last, UpdateInflight(state, inflight, last)
        PROVE  ResumeReachesAll'
      BY <1>0, <2>1, UpdateReach
  <2> QED
      BY <1>0, <1>2, <1>8, <2>1, PubrelHandled
<1>9. CASE Handle
    BY <1>2, <1>4, <1>6, <1>7, <1>8, <1>9
    DEF Handle, Handler, PubrelSteps, ConnackAccepted, ConnackRefused, HandlePublish, outVars
<1>10. CASE AppConsume \/ (\E i \in In, q \in 1..2 : AppAck(i, q)) \/ Open \/ EndReconnect
    BY <1>2, <1>10 DEF AppConsume, ConsumeMid, AppAck, Ack, Open, SocketOpened, EndReconnect, SendConnect, outVars
<1>11. CASE BrokerHandles \/ Refused \/ \E i \in In, q \in InQos : BrokerSends(i, q)
    BY <1>2, <1>11 DEF BrokerHandles, Refused, BrokerSends, clientVars, outVars
<1>12. CASE BrokerCloses \/ Lost \/ LostEarly \/ NoRoute
    BY <1>2, <1>12 DEF BrokerCloses, Lost, LostEarly, NoRoute, SocketFailed, Break, outVars
<1>13. CASE UNCHANGED vars
    BY <1>2, <1>13 DEF vars, clientVars, outVars
<1> QED
    BY <1>1, <1>3, <1>5, <1>9, <1>10, <1>11, <1>12, <1>13 DEF Next, AnyFault, LostInConnack

(* Whatever publish() and the slot _handle_pubrel frees do to the order of  *)
(* _out_messages, the loop of _handle_connack loses nothing when it returns *)
(* at the first queued message: nothing it has to send stands behind one.   *)
(* A message can come to wait behind a queued one, but only one that was    *)
(* sent at once, over the socket whose PUBREL is being handled.             *)
THEOREM NothingBehindQueued == Spec => []ResumeReachesAll
<1>1. Init => ResumeReachesAll
  <2>1. Init => QueuedPubs = {}
      BY DEF Init, ClientInit, QueuedPubs
  <2> QED
      BY <2>1 DEF ResumeReachesAll
<1>2. SlotInv /\ Releasing /\ ResumeReachesAll /\ [Next]_vars => ResumeReachesAll'
    BY ReachNext
<1> QED
    BY <1>1, <1>2, SlotInvariant, ReleasingInvariant, PTL DEF Spec

-----------------------------------------------------------------------------
(* What each step writes, for the proofs that look at the other packets *)

Once(s, t) == \A j, k \in DOMAIN s : s[j].type = t /\ s[k].type = t => j = k

LEMMA OnceEmpty == \A t : Once(<<>>, t)
BY DEF Once

LEMMA OnceTail ==
    ASSUME NEW P, NEW s \in Seq(P), s # <<>>, NEW t, Once(s, t)
    PROVE  /\ Once(Tail(s), t)
           /\ Head(s).type = t => \A x \in Packets(Tail(s)) : x.type # t
<1>1. /\ DOMAIN s = 1..Len(s) /\ Len(s) \in Nat /\ Len(s) > 0
      /\ DOMAIN Tail(s) = 1..Len(s) - 1
    OBVIOUS
<1>2. \A k \in 1..Len(s) - 1 : Tail(s)[k] = s[k + 1]
    OBVIOUS
<1>3. Head(s) = s[1] /\ 1 \in 1..Len(s)
    BY <1>1
<1>4. \A k \in 1..Len(s) - 1 : k + 1 \in 1..Len(s) /\ k + 1 # 1
    BY <1>1
<1>5. \A j, k \in 1..Len(s) - 1 : j + 1 = k + 1 => j = k
    BY <1>1
<1>6. Once(Tail(s), t)
    BY <1>1, <1>2, <1>4, <1>5 DEF Once
<1>7. ASSUME Head(s).type = t, NEW x \in Packets(Tail(s)), x.type = t
      PROVE  FALSE
  <2>1. PICK k \in 1..Len(s) - 1 : x = Tail(s)[k]
      BY <1>1, <1>7 DEF Packets
  <2> QED
      BY <1>1, <1>2, <1>3, <1>4, <1>7, <2>1 DEF Once
<1> QED
    BY <1>6, <1>7

LEMMA OnceConcat ==
    ASSUME NEW P, NEW s \in Seq(P), NEW u \in Seq(P), NEW t, Once(s, t),
           \A x \in Packets(u) : x.type # t
    PROVE  Once(s \o u, t)
<1>1. /\ DOMAIN s = 1..Len(s) /\ DOMAIN u = 1..Len(u) /\ Len(s) \in Nat /\ Len(u) \in Nat
      /\ DOMAIN (s \o u) = 1..Len(s) + Len(u)
    OBVIOUS
<1>2. \A k \in 1..Len(s) : (s \o u)[k] = s[k]
    BY <1>1
<1>3. \A k \in 1..Len(s) + Len(u) :
          k \in 1..Len(s) \/ (k - Len(s) \in 1..Len(u) /\ (s \o u)[k] = u[k - Len(s)])
    BY <1>1
<1>4. \A k \in 1..Len(u) : u[k].type # t
    BY <1>1 DEF Packets
<1> QED
    BY <1>1, <1>2, <1>3, <1>4 DEF Once

LEMMA OnceAppend ==
    ASSUME NEW P, NEW s \in Seq(P), NEW x \in P, NEW t, Once(s, t),
           x.type = t => \A y \in Packets(s) : y.type # t
    PROVE  Once(Append(s, x), t)
<1>1. DOMAIN s = 1..Len(s) /\ DOMAIN Append(s, x) = 1..Len(s) + 1 /\ Len(s) \in Nat
    OBVIOUS
<1>2. \A k \in 1..Len(s) : Append(s, x)[k] = s[k]
    OBVIOUS
<1>3. Append(s, x)[Len(s) + 1] = x
    OBVIOUS
<1>4. \A k \in 1..Len(s) + 1 : k \in 1..Len(s) \/ k = Len(s) + 1
    BY <1>1
<1>5. \A k \in 1..Len(s) : s[k] \in Packets(s)
    BY <1>1 DEF Packets
<1> QED
    BY <1>1, <1>2, <1>3, <1>4, <1>5 DEF Once

(* A step writes packets of these types to the broker only, apart from      *)
(* those about the client's own publications, and no CONNECT.               *)
Writes(N) ==
    /\ \A x \in Packets(toBroker') : x \in Packets(toBroker) \/ x.type \in Asking \/ x \in N
    /\ Once(toBroker, "CONNECT") => Once(toBroker', "CONNECT")

LEMMA NothingWritten ==
    ASSUME toBroker' = toBroker \/ toBroker' = <<>>
    PROVE  Writes({})
<1>1. CASE toBroker' = toBroker
    BY <1>1 DEF Writes
<1>2. CASE toBroker' = <<>>
    BY <1>2, PacketsEmpty, OnceEmpty DEF Writes
<1> QED
    BY <1>1, <1>2

LEMMA AppendWritten ==
    ASSUME WireTypeOK, NEW x \in ToBrokerPacket, x.type # "CONNECT", toBroker' = Append(toBroker, x)
    PROVE  Writes({x}) /\ (x.type \in Asking => Writes({}))
<1>1. toBroker \in Seq(ToBrokerPacket)
    BY DEF WireTypeOK
<1>2. Packets(Append(toBroker, x)) = Packets(toBroker) \cup {x}
    BY <1>1, PacketsAppend
<1>3. Once(toBroker, "CONNECT") => Once(Append(toBroker, x), "CONNECT")
    BY <1>1, OnceAppend
<1> QED
    BY <1>2, <1>3 DEF Writes

LEMMA ConcatWritten ==
    ASSUME WireTypeOK, NEW s \in Seq(ToBrokerPacket), NEW N, toBroker' = toBroker \o s,
           \A x \in Packets(s) : x.type # "CONNECT" /\ (x.type \in Asking \/ x \in N)
    PROVE  Writes(N)
<1>1. toBroker \in Seq(ToBrokerPacket)
    BY DEF WireTypeOK
<1>2. Packets(toBroker \o s) = Packets(toBroker) \cup Packets(s)
    BY <1>1, PacketsConcat
<1>3. Once(toBroker, "CONNECT") => Once(toBroker \o s, "CONNECT")
    BY <1>1, OnceConcat
<1> QED
    BY <1>2, <1>3 DEF Writes

LEMMA PublishWrites ==
    ASSUME TypeOK, NEW q \in 1..2, PublishCall(q)
    PROVE  Writes({})
<1>1. CASE toBroker' = toBroker
    BY <1>1, NothingWritten
<1>2. CASE PublishSent(q)
  <2>1. NextMid \in Mid /\ nextPub \in Pub
      BY <1>2, WireAssumption DEF PublishSent, Call, TypeOK, ClientTypeOK, NextMid, Mid
  <2>2. PICK x \in ToBrokerPacket : x = Publish(nextPub, NextMid, q, FALSE) /\ x.type = "PUBLISH"
      BY <2>1, ToBrokerTypes DEF Publish
  <2> QED
      BY <1>2, <2>2, AppendWritten DEF PublishSent, TypeOK, Asking
<1> QED
    BY <1>1, <1>2 DEF PublishCall, PublishRejected, PublishOffline, PublishQueued

LEMMA UpdateWrites ==
    ASSUME TypeOK, NEW st, NEW n, NEW last \in Seq(ToBrokerPacket), UpdateInflight(st, n, last),
           \A x \in Packets(last) : x.type # "CONNECT"
    PROVE  Writes(Packets(last))
<1> DEFINE S == Promoted(st, n)
           s == PublishPackets(S) \o last
<1>1. S \in SUBSET Pub /\ toBroker' = (toBroker \o PublishPackets(S)) \o last
    BY PromotedQueued DEF UpdateInflight
<1> HIDE DEF S
<1>2. /\ ClientTypeOK /\ WireTypeOK /\ toBroker \in Seq(ToBrokerPacket)
      /\ PublishPackets(S) \in Seq(ToBrokerPacket)
    BY <1>1, PublishPacketsType DEF TypeOK, WireTypeOK
<1>3. s \in Seq(ToBrokerPacket) /\ toBroker' = toBroker \o s
    BY <1>1, <1>2, ConcatAssociative
<1>4. Packets(s) = Packets(PublishPackets(S)) \cup Packets(last)
    BY <1>2, PacketsConcat
<1>5. \A x \in Packets(PublishPackets(S)) : x.type = "PUBLISH"
    BY <1>1, <1>2, PublishPacketsAre DEF Publish
<1> HIDE DEF s
<1> QED
    BY <1>2, <1>3, <1>4, <1>5, ConcatWritten DEF Asking

LEMMA ConnackWrites ==
    ASSUME TypeOK, ConnackAccepted \/ ConnackRefused \/ \E f \in Pub : ConnackBroken(f)
    PROVE  Writes({})
<1>1. ASSUME NEW S \in SUBSET Resumable, toBroker' = toBroker \o ResumePackets(S)
      PROVE  Writes({})
  <2>1. S \in SUBSET Pub /\ ClientTypeOK /\ WireTypeOK
      BY DEF TypeOK, Resumable
  <2>2. ResumePackets(S) \in Seq(ToBrokerPacket)
      BY <2>1, ResumePacketsType
  <2>3. Packets(ResumePackets(S)) = {ResumePacket(p) : p \in S}
      BY <2>1, ResumePacketsAre
  <2>4. \A p : ResumePacket(p).type \in Asking
      BY DEF ResumePacket, Publish, WithMid, Asking
  <2> QED
      BY <1>1, <2>1, <2>2, <2>3, <2>4, ConcatWritten DEF Asking
<1>2. CASE ConnackAccepted
    BY <1>1, <1>2 DEF ConnackAccepted
<1>3. ASSUME NEW f \in Pub, ConnackBroken(f)
      PROVE  Writes({})
  <2> DEFINE W == {p \in Resumable : p <= f}
  <2>1. toBroker' = toBroker \o ResumePackets(W) /\ W \in SUBSET Resumable
      BY <1>3 DEF ConnackBroken
  <2> HIDE DEF W
  <2> QED
      BY <1>1, <2>1
<1>4. CASE ConnackRefused
    BY <1>4, NothingWritten DEF ConnackRefused
<1> QED
    BY <1>2, <1>3, <1>4

LEMMA AckWrites ==
    ASSUME TypeOK, HandlePubrec \/ \E t : HandleAck(t)
    PROVE  Writes({})
<1> DEFINE m == Head(toClient).mid
<1>1. ASSUME NEW t, HandleAck(t)
      PROVE  Writes({})
  <2>1. <<>> \in Seq(ToBrokerPacket) /\ Packets(<<>>) = {}
      BY PacketsEmpty
  <2>2. ASSUME NEW p, UpdateInflight([state EXCEPT ![p] = "published"], inflight - 1, <<>>)
        PROVE  Writes({})
    <3> DEFINE st == [state EXCEPT ![p] = "published"]
    <3>1. UpdateInflight(st, inflight - 1, <<>>)
        BY <2>2
    <3> HIDE DEF st
    <3>2. Writes(Packets(<<>>))
        BY <2>1, <3>1, UpdateWrites
    <3> QED
        BY <2>1, <3>2
  <2> QED
      BY <1>1, <2>2, NothingWritten DEF HandleAck
<1>2. CASE HandlePubrec
  <2>1. CASE toBroker' = Append(toBroker, WithMid("PUBREL", m))
    <3>1. toClient \in Seq(ToClientPacket) /\ toClient # <<>> /\ Head(toClient).type = "PUBREC"
        BY <1>2 DEF HandlePubrec, Receive, Arrives, TypeOK, WireTypeOK
    <3>2. m \in Mid
        BY <3>1, FromBrokerFields
    <3>3. PICK x \in ToBrokerPacket : x = WithMid("PUBREL", m) /\ x.type = "PUBREL"
        BY <3>2, ToBrokerTypes DEF WithMid
    <3> QED
        BY <2>1, <3>3, AppendWritten DEF TypeOK, Asking
  <2> QED
      BY <1>2, <2>1, NothingWritten DEF HandlePubrec
<1> QED
    BY <1>1, <1>2

LEMMA PubrelWrites ==
    ASSUME TypeOK, PubrelSteps
    PROVE  \E last \in Seq(ToBrokerPacket) :
              /\ \A x \in Packets(last) : x.type = "PUBCOMP"
              /\ Writes(Packets(last))
<1>1. PICK last \in Seq(ToBrokerPacket) :
          /\ \A x \in Packets(last) : x.type = "PUBCOMP"
          /\ UpdateInflight(state, inflight, last) \/ (state' = state /\ toBroker' = toBroker \o last)
    BY PubrelHandled
<1>2. CASE UpdateInflight(state, inflight, last)
    BY <1>1, <1>2, UpdateWrites
<1>3. CASE toBroker' = toBroker \o last
    BY <1>1, <1>3, ConcatWritten DEF TypeOK
<1> QED
    BY <1>1, <1>2, <1>3

(* A step takes packets off toClient at most.                               *)
Reads ==
    /\ Packets(toClient') \subseteq Packets(toClient)
    /\ \A T : Single(toClient, T) => Single(toClient', T)

LEMMA ReadsOnly ==
    ASSUME TypeOK, toClient' = toClient \/ toClient' = <<>> \/ \E t : Receive(t)
    PROVE  Reads
<1>1. CASE toClient' = toClient
    BY <1>1 DEF Reads
<1>2. CASE toClient' = <<>>
    BY <1>2, PacketsEmpty DEF Reads
<1>3. ASSUME NEW t, Receive(t)
      PROVE  Reads
  <2>1. toClient \in Seq(ToClientPacket) /\ toClient # <<>> /\ toClient' = Tail(toClient)
      BY <1>3 DEF Receive, Arrives, TypeOK, WireTypeOK
  <2>2. Packets(toClient) = {Head(toClient)} \cup Packets(Tail(toClient))
      BY <2>1, PacketsTail
  <2>3. \A T : Single(toClient, T) => Single(Tail(toClient), T)
      BY <2>1, SingleTail
  <2> QED
      BY <2>1, <2>2, <2>3 DEF Reads
<1> QED
    BY <1>1, <1>2, <1>3

-----------------------------------------------------------------------------
(***************************************************************************)
(* Whose session a connection resumes, and what on_publish may report.     *)
(***************************************************************************)

-----------------------------------------------------------------------------
(* The first session is a new one *)

(* A CONNECT that does not ask for a clean session is only sent once the    *)
(* broker has a session of this client.  With "first" that takes a broker   *)
(* that refuses no CONNECT: the handler clears _mqttv5_first_connect for a  *)
(* refusal, too.                                                            *)
StaleInv ==
    cleanMode # "never" =>
        /\ conn = "up" => bFresh
        /\ bUp => bFresh
        /\ \A x \in Packets(toBroker) : x.type = "CONNECT" => x.clean \/ bFresh
        /\ \A x \in Packets(toClient) : x.type = "CONNACK" =>
              (x.ok => bFresh) /\ (cleanMode = "first" => x.ok)
        /\ cleanMode = "first" /\ ~firstConnect => bFresh

NoRefusal == "refused" \notin Faults \/ "first" \notin CleanModes

(* The broker's steps that leave the session and the connection alone.      *)
LEMMA BrokerKeepsConnack ==
    ASSUME TypeOK, UNCHANGED clientVars, BrokerReceives \/ \E i \in In, q \in InQos : BrokerPublish(i, q)
    PROVE  /\ \A x \in Packets(toClient') : x.type = "CONNACK" => x \in Packets(toClient)
           /\ Packets(toBroker') \subseteq Packets(toBroker)
           /\ UNCHANGED <<bUp, bFresh>>
<1>1. toClient \in Seq(ToClientPacket) /\ toBroker \in Seq(ToBrokerPacket)
    BY DEF TypeOK, WireTypeOK
<1>2. ASSUME NEW x, x \in ToClientPacket, x.type # "CONNACK", toClient' = Append(toClient, x)
      PROVE  \A y \in Packets(toClient') : y.type = "CONNACK" => y \in Packets(toClient)
  <2>1. Packets(Append(toClient, x)) = Packets(toClient) \cup {x}
      BY <1>1, <1>2, PacketsAppend
  <2> QED
      BY <1>2, <2>1
<1>3. ASSUME NEW t \in {"PUBLISH", "PUBREL", "PUBACK", "PUBREC", "PUBCOMP"}, Take(t)
      PROVE  /\ Packets(toBroker') \subseteq Packets(toBroker)
             /\ Head(toBroker) \in ToBrokerPacket /\ Head(toBroker).type = t
             /\ Head(toBroker).mid \in IF t \in {"PUBLISH", "PUBREL"} THEN Mid ELSE In
  <2>1. Head(toBroker) \in ToBrokerPacket /\ Head(toBroker).type = t
      BY <1>3, TakeType DEF TypeOK
  <2>2. toBroker # <<>> /\ toBroker' = Tail(toBroker)
      BY <1>3 DEF Take, Arrives
  <2>3. Packets(toBroker') \subseteq Packets(toBroker)
      BY <1>1, <2>2, PacketsTail
  <2> QED
      BY <2>1, <2>3, FromClientFields
<1>4. CASE BrokerPublished \/ BrokerReleased
  <2>1. PICK t \in {"PUBLISH", "PUBREL"} : Take(t)
      BY <1>4 DEF BrokerPublished, BrokerReleased
  <2>2. Packets(toBroker') \subseteq Packets(toBroker) /\ Head(toBroker).mid \in Mid
      BY <1>3, <2>1
  <2>3. PICK x \in ToClientPacket : x.type # "CONNACK" /\ toClient' = Append(toClient, x)
      BY <1>4, <2>2, ToClientTypes DEF BrokerPublished, BrokerReleased, Reply, WithMid
  <2> QED
      BY <1>2, <1>4, <2>2, <2>3 DEF BrokerPublished, BrokerReleased
<1>5. ASSUME NEW t \in {"PUBACK", "PUBREC", "PUBCOMP"}, NEW q, NEW from, NEW to, BrokerAcked(t, q, from, to)
      PROVE  /\ \A x \in Packets(toClient') : x.type = "CONNACK" => x \in Packets(toClient)
             /\ Packets(toBroker') \subseteq Packets(toBroker)
             /\ UNCHANGED <<bUp, bFresh>>
  <2>1. Packets(toBroker') \subseteq Packets(toBroker) /\ Head(toBroker).mid \in In
      BY <1>3, <1>5 DEF BrokerAcked
  <2>2. PICK x \in ToClientPacket : x = WithMid("PUBREL", Head(toBroker).mid) /\ x.type = "PUBREL"
      BY <2>1, ToClientTypes DEF WithMid
  <2>3. toClient' = toClient \/ toClient' = Append(toClient, x)
      BY <1>5, <2>2 DEF BrokerAcked
  <2> QED
      BY <1>2, <1>5, <2>1, <2>2, <2>3 DEF BrokerAcked
<1>6. ASSUME NEW i \in In, NEW q \in InQos, BrokerPublish(i, q)
      PROVE  /\ \A x \in Packets(toClient') : x.type = "CONNACK" => x \in Packets(toClient)
             /\ Packets(toBroker') \subseteq Packets(toBroker)
             /\ UNCHANGED <<bUp, bFresh>>
  <2>1. PICK x \in ToClientPacket : x = InPublish(i, q) /\ x.type = "PUBLISH"
      BY ToClientTypes, BrokerAssumption DEF InPublish
  <2> QED
      BY <1>2, <1>6, <2>1 DEF BrokerPublish, Reply
<1> QED
    BY <1>4, <1>5, <1>6 DEF BrokerReceives, BrokerAck

(* CONNECT is accepted or refused.                                          *)
LEMMA BrokerConnack ==
    ASSUME TypeOK, BrokerAccept \/ BrokerRefuse
    PROVE  /\ Head(toBroker) \in Packets(toBroker) /\ Head(toBroker).type = "CONNECT"
           /\ Packets(toBroker') \subseteq Packets(toBroker)
           /\ \A x \in Packets(toClient') : x.type = "CONNACK" =>
                 x \in Packets(toClient) \/ (x.ok <=> BrokerAccept)
<1>1. toClient \in Seq(ToClientPacket) /\ toBroker \in Seq(ToBrokerPacket)
    BY DEF TypeOK, WireTypeOK
<1>2. /\ toBroker # <<>> /\ toBroker' = Tail(toBroker) /\ Head(toBroker).type = "CONNECT"
    BY DEF BrokerAccept, BrokerRefuse, Take, Arrives
<1>3. Head(toBroker) \in Packets(toBroker) /\ Packets(toBroker') \subseteq Packets(toBroker)
    BY <1>1, <1>2, PacketsTail
<1>4. CASE BrokerRefuse
  <2>1. PICK c \in ToClientPacket : c = Connack(FALSE) /\ c.type = "CONNACK" /\ c.ok = FALSE
      BY ToClientTypes DEF Connack
  <2>2. Packets(Append(toClient, c)) = Packets(toClient) \cup {c}
    <3>1. c \in ToClientPacket
        BY <2>1
    <3> QED
        BY <1>1, <3>1, PacketsAppend
  <2>3. toClient' = Append(toClient, c)
      BY <1>4, <2>1 DEF BrokerRefuse, Reply
  <2>4. BrokerAccept => bUp' = TRUE /\ bUp = FALSE
      BY DEF BrokerAccept, TypeOK, BrokerTypeOK
  <2>5. ~BrokerAccept
      BY <1>4, <2>4 DEF BrokerRefuse, brokerVars
  <2> QED
      BY <1>2, <1>3, <2>1, <2>2, <2>3, <2>5
<1>5. CASE BrokerAccept
  <2>1. PICK c \in ToClientPacket : c = Connack(TRUE) /\ c.type = "CONNACK" /\ c.ok = TRUE
      BY ToClientTypes DEF Connack
  <2>2. Packets(Append(toClient, c)) = Packets(toClient) \cup {c} /\ Append(toClient, c) \in Seq(ToClientPacket)
    <3>1. \A x \in ToClientPacket : Append(toClient, x) \in Seq(ToClientPacket)
        BY <1>1
    <3>2. c \in ToClientPacket
        BY <2>1
    <3> QED
        BY <1>1, <3>1, <3>2, PacketsAppend
  <2>3. PendingSeq \in Seq(ToClientPacket) /\ \A x \in Packets(PendingSeq) : x.type # "CONNACK"
      BY PendingSeqType, PendingSeqAre DEF TypeOK, PendingPacket, InPublish, WithMid
  <2>4. Packets(Append(toClient, c) \o PendingSeq) = Packets(Append(toClient, c)) \cup Packets(PendingSeq)
    <3>1. Append(toClient, c) \in Seq(ToClientPacket) /\ PendingSeq \in Seq(ToClientPacket)
        BY <2>2, <2>3
    <3> QED
        BY <3>1, PacketsConcat, ZenonT(40)
  <2>5. toClient' = Append(toClient, c) \/ toClient' = Append(toClient, c) \o PendingSeq
      BY <1>5, <2>1 DEF BrokerAccept, Reply
  <2>6. \A x \in Packets(toClient') : x.type = "CONNACK" => x \in Packets(toClient) \/ x = c
      BY <2>2, <2>3, <2>4, <2>5
  <2> QED
      BY <1>2, <1>3, <1>5, <2>1, <2>6
<1> QED
    BY <1>4, <1>5

LEMMA StaleNext == NoRefusal /\ TypeOK /\ StaleInv /\ [Next]_vars => StaleInv'
<1> SUFFICES ASSUME NoRefusal, TypeOK, StaleInv, [Next]_vars PROVE StaleInv'
    OBVIOUS
<1>1. cleanMode' = cleanMode
    BY DEF Next, vars, others, AppPublish, AppConsume, AppAck, BeginReconnect, Open, EndReconnect, Handle,
           BrokerHandles, BrokerSends, BrokerCloses, AnyFault, Lost, LostEarly, NoRoute, Refused,
           LostInConnack, Fault
<1>2. ASSUME UNCHANGED <<bUp, bFresh>>, conn' = "up" => conn = "up" \/ ~(cleanMode # "never") \/ bFresh,
             firstConnect' = firstConnect \/ cleanMode # "first" \/ bFresh,
             Packets(toClient') \subseteq Packets(toClient),
             \A x \in Packets(toBroker') : x.type = "CONNECT" => x \in Packets(toBroker)
      PROVE  StaleInv'
    BY <1>1, <1>2 DEF StaleInv
<1>3. ASSUME UNCHANGED <<bUp, bFresh, firstConnect>>, conn' = "up" => conn = "up", Reads, Writes({})
      PROVE  StaleInv'
    BY <1>2, <1>3 DEF Reads, Writes, Asking
<1>4. ASSUME UNCHANGED <<bUp, bFresh, firstConnect>>, conn' = "up" => conn = "up",
             toClient' = toClient \/ toClient' = <<>>, toBroker' = toBroker \/ toBroker' = <<>>
      PROVE  StaleInv'
    BY <1>3, <1>4, ReadsOnly, NothingWritten
<1>5. ASSUME NEW q \in OutQos, AppPublish(q)
      PROVE  StaleInv'
  <2>1. Writes({}) /\ Reads
    <3>1. toClient' = toClient
        BY <1>5 DEF AppPublish, PublishCall, PublishRejected, PublishSent, PublishOffline, PublishQueued, Call
    <3> QED
        BY <1>5, <3>1, PublishWrites, ReadsOnly, SessionAssumption DEF AppPublish
  <2> QED
      BY <1>3, <1>5, <2>1 DEF AppPublish, PublishCall, PublishRejected, PublishSent, PublishOffline,
                              PublishQueued, Call, brokerVars
<1>6. CASE AppConsume \/ BeginReconnect \/ Open \/ BrokerCloses \/ Lost \/ LostEarly \/ NoRoute
    BY <1>4, <1>6 DEF AppConsume, ConsumeMid, BeginReconnect, ReconnectReset, Open, SocketOpened,
                      BrokerCloses, Lost, LostEarly, NoRoute, SocketFailed, Break, brokerVars, wireVars
<1>7. ASSUME NEW i \in In, NEW q \in 1..2, AppAck(i, q)
      PROVE  StaleInv'
  <2>1. PICK x \in ToBrokerPacket :
            x = WithMid(IF q = 1 THEN "PUBACK" ELSE "PUBCOMP", i) /\ x.type \in Answering
      BY ToBrokerTypes DEF WithMid, Answering
  <2>2. toBroker' = toBroker \/ toBroker' = Append(toBroker, x)
      BY <1>7, <2>1 DEF AppAck, Ack
  <2>3. Writes({x})
      BY <2>1, <2>2, NothingWritten, AppendWritten DEF TypeOK, Answering, Writes
  <2>4. UNCHANGED <<conn, firstConnect, toClient, bUp, bFresh>>
      BY <1>7 DEF AppAck, Ack, brokerVars
  <2> QED
      BY <1>2, <2>1, <2>3, <2>4 DEF Writes, Asking, Answering
<1>8. CASE EndReconnect
  <2>1. PICK x \in ToBrokerPacket : x = Connect(CleanSession)
      BY ToBrokerTypes DEF CleanSession
  <2>2. x.clean = CleanSession
      BY <2>1 DEF Connect
  <2>3. toBroker \in Seq(ToBrokerPacket)
      BY DEF TypeOK, WireTypeOK
  <2>4. Packets(Append(toBroker, x)) = Packets(toBroker) \cup {x}
      BY <2>1, <2>3, PacketsAppend
  <2>5. toBroker' = Append(toBroker, x) /\ conn' = "connecting" /\ UNCHANGED <<firstConnect, toClient, bFresh>> /\ bUp' = FALSE
      BY <1>8, <2>1 DEF EndReconnect, SendConnect
  <2>6. cleanMode # "never" => x.clean \/ bFresh
    <3>1. CASE cleanMode = "always" \/ (cleanMode = "first" /\ firstConnect)
        BY <2>2, <3>1 DEF CleanSession
    <3>2. CASE cleanMode = "first" /\ ~firstConnect
        BY <3>2 DEF StaleInv
    <3>3. cleanMode \in {"always", "never", "first"}
        BY ClientAssumption DEF TypeOK, ClientTypeOK
    <3> QED
        BY <3>1, <3>2, <3>3
  <2> QED
      BY <1>1, <2>4, <2>5, <2>6 DEF StaleInv
<1>9. CASE Handle
  <2>1. UNCHANGED <<bUp, bFresh>> /\ Reads
      BY <1>9, ReadsOnly, PubrelHandled DEF Handle, Handler, PubrelSteps, brokerVars, ConnackAccepted,
                             ConnackRefused, HandleAck, HandlePubrec, HandlePublish
  <2>2. CASE HandleAck("PUBACK") \/ HandleAck("PUBCOMP") \/ HandlePubrec
      BY <1>3, <2>1, <2>2, AckWrites DEF HandleAck, HandlePubrec
  <2>3. CASE ConnackAccepted \/ ConnackRefused
    <3>1. Head(toClient) \in Packets(toClient) /\ Head(toClient).type = "CONNACK"
      <4>1. toClient # <<>> /\ toClient \in Seq(ToClientPacket) /\ Head(toClient).type = "CONNACK"
          BY <2>3 DEF ConnackAccepted, ConnackRefused, Receive, Arrives, TypeOK, WireTypeOK
      <4> QED
          BY <4>1, PacketsTail
    <3>2. cleanMode = "first" => Head(toClient).ok /\ bFresh
        BY <3>1 DEF StaleInv
    <3>3. conn' = "up" /\ cleanMode # "never" => bFresh
        BY <2>3, <3>1 DEF ConnackAccepted, ConnackRefused, StaleInv
    <3>4. Writes({})
        BY <2>3, ConnackWrites
    <3> QED
        BY <1>2, <2>1, <3>2, <3>3, <3>4 DEF Reads, Writes, Asking
  <2>4. CASE HandlePublish
    <3> DEFINE i == Head(toClient).mid
    <3>1. i \in In
      <4>1. toClient \in Seq(ToClientPacket) /\ toClient # <<>> /\ Head(toClient).type = "PUBLISH"
          BY <2>4 DEF HandlePublish, Receive, Arrives, TypeOK, WireTypeOK
      <4> QED
          BY <4>1, FromBrokerFields
    <3>2. ASSUME NEW t \in {"PUBACK", "PUBREC"}, toBroker' = Append(toBroker, WithMid(t, i))
          PROVE  StaleInv'
      <4>1. PICK x \in ToBrokerPacket : x = WithMid(t, i) /\ x.type \in Answering
          BY <3>1, ToBrokerTypes DEF WithMid, Answering
      <4>2. Writes({x})
          BY <3>2, <4>1, AppendWritten DEF TypeOK, Answering
      <4> QED
          BY <1>2, <2>1, <2>4, <4>1, <4>2 DEF HandlePublish, Reads, Writes, Asking, Answering
    <3>3. CASE toBroker' = toBroker
        BY <1>3, <2>1, <2>4, <3>3, NothingWritten DEF HandlePublish
    <3> QED
        BY <2>4, <3>2, <3>3 DEF HandlePublish
  <2>5. CASE PubrelSteps
    <3>1. PICK last \in Seq(ToBrokerPacket) :
              Writes(Packets(last)) /\ \A x \in Packets(last) : x.type = "PUBCOMP"
        BY <2>5, PubrelWrites
    <3>2. UNCHANGED <<conn, firstConnect>>
        BY <2>5, PubrelHandled
    <3> QED
        BY <1>2, <2>1, <3>1, <3>2 DEF Reads, Writes, Asking
  <2> QED
      BY <1>9, <2>2, <2>3, <2>4, <2>5 DEF Handle, Handler, PubrelSteps
<1>10. CASE BrokerHandles \/ \E i \in In, q \in InQos : BrokerSends(i, q)
  <2>1. UNCHANGED clientVars
      BY <1>10 DEF BrokerHandles, BrokerSends
  <2>2. CASE BrokerAccept
    <3>1. /\ Head(toBroker) \in Packets(toBroker) /\ Head(toBroker).type = "CONNECT"
          /\ Packets(toBroker') \subseteq Packets(toBroker)
          /\ \A x \in Packets(toClient') : x.type = "CONNACK" => x \in Packets(toClient) \/ x.ok
        BY <2>2, BrokerConnack
    <3>2. cleanMode # "never" => bFresh'
      <4>1. CASE Head(toBroker).clean
          BY <2>2, <4>1 DEF BrokerAccept
      <4>2. CASE ~Head(toBroker).clean
        <5>1. bFresh' = bFresh
            BY <2>2, <4>2 DEF BrokerAccept
        <5> QED
            BY <3>1, <4>2, <5>1 DEF StaleInv
      <4> QED
          BY <4>1, <4>2
    <3>3. bFresh => bFresh'
        BY <2>2 DEF BrokerAccept
    <3> QED
        BY <1>1, <2>1, <3>1, <3>2, <3>3 DEF StaleInv, clientVars
  <2>3. CASE BrokerReceives \/ \E i \in In, q \in InQos : BrokerPublish(i, q)
      BY <1>1, <2>1, <2>3, BrokerKeepsConnack DEF StaleInv, clientVars
  <2> QED
      BY <1>10, <2>2, <2>3 DEF BrokerHandles, BrokerSends
<1>11. CASE Refused
  <2>1. cleanMode # "first"
      BY <1>11 DEF Refused, Fault, NoRefusal, TypeOK, ClientTypeOK
  <2>2. /\ Packets(toBroker') \subseteq Packets(toBroker)
        /\ \A x \in Packets(toClient') : x.type = "CONNACK" => x \in Packets(toClient) \/ ~x.ok
        /\ UNCHANGED <<clientVars, bUp, bFresh>>
    <3>1. BrokerRefuse /\ UNCHANGED <<clientVars, bUp, bFresh>>
        BY <1>11 DEF Refused, BrokerRefuse, brokerVars
    <3>2. BrokerAccept => bUp' = TRUE /\ bUp = FALSE
        BY DEF BrokerAccept, TypeOK, BrokerTypeOK
    <3>3. ~BrokerAccept
        BY <3>1, <3>2
    <3> QED
        BY <3>1, <3>3, BrokerConnack
  <2> QED
      BY <1>1, <2>1, <2>2 DEF StaleInv, clientVars
<1>12. ASSUME NEW f \in Pub, LostInConnack(f)
       PROVE  StaleInv'
  <2>1. ConnackBroken(f) /\ UNCHANGED <<bUp, bFresh>>
      BY <1>12 DEF LostInConnack, brokerVars
  <2>2. Head(toClient) \in Packets(toClient) /\ Head(toClient).type = "CONNACK"
    <3>1. toClient # <<>> /\ toClient \in Seq(ToClientPacket) /\ Head(toClient).type = "CONNACK"
        BY <2>1 DEF ConnackBroken, Receive, Arrives, TypeOK, WireTypeOK
    <3> QED
        BY <3>1, PacketsTail
  <2>3. cleanMode = "first" => bFresh
      BY <2>2 DEF StaleInv
  <2>4. Writes({}) /\ Reads
      BY <2>1, ConnackWrites, ReadsOnly DEF ConnackBroken
  <2> QED
      BY <1>2, <2>1, <2>3, <2>4 DEF ConnackBroken, Reads, Writes, Asking
<1>13. CASE UNCHANGED vars
    BY <1>4, <1>13 DEF vars, clientVars, wireVars, brokerVars
<1> QED
    BY <1>5, <1>6, <1>7, <1>8, <1>9, <1>10, <1>11, <1>12, <1>13 DEF Next, AnyFault

LEMMA StaleInvariant == NoRefusal => (Spec => []StaleInv)
<1>1. Init => StaleInv
  <2>1. Init => toBroker = <<>> /\ toClient = <<>> /\ conn = "down" /\ bUp = FALSE /\ firstConnect = TRUE
      BY DEF Init, ClientInit, BrokerInit
  <2> QED
      BY <2>1, PacketsEmpty DEF StaleInv
<1>2. NoRefusal /\ TypeOK /\ StaleInv /\ [Next]_vars => StaleInv'
    BY StaleNext
<1>3. SUFFICES ASSUME NoRefusal PROVE Spec => []StaleInv
    OBVIOUS
<1>4. TypeOK /\ StaleInv /\ [Next]_vars => StaleInv'
    BY <1>2, <1>3
<1> QED
    BY <1>1, <1>4, TypeCorrect, PTL DEF Spec

(* connect(clean_start = MQTT_CLEAN_START_FIRST_ONLY), or always True, never  *)
(* resumes a session of an earlier run of the program.                       *)
THEOREM FirstSessionIsNew == NoRefusal => (Spec => []NoStaleSession)
<1> SUFFICES ASSUME NoRefusal PROVE Spec => []NoStaleSession
    OBVIOUS
<1>1. StaleInv => NoStaleSession
    BY DEF StaleInv, NoStaleSession
<1> QED
    BY <1>1, StaleInvariant, PTL

-----------------------------------------------------------------------------
(* What is reported was passed on *)

(* An answer, a PUBREL sent or due, and a message id the broker remembers   *)
(* are each about a stored message that was passed on.  A session left by   *)
(* an earlier run remembers ids of messages this client knows nothing of,   *)
(* hence bFresh.                                                            *)
DelivInv ==
    /\ PublishedDelivered
    /\ \A p \in Pub : state[p] \in {"wait_for_pubcomp", "resend_pubrel"} => delivered[p] > 0
    /\ \A y \in Answers, p \in Pub :
          mid[p] = y.mid /\ state[p] \in Waiting => delivered[p] > 0
    /\ bFresh => \A m \in bRecv : \E p \in Live : mid[p] = m /\ qos[p] = 2 /\ delivered[p] > 0
    /\ \A y \in Answers : y.type = "PUBCOMP" => y.mid \notin bRecv

Deliveries == <<delivered, bRecv, bFresh>>

(* A step of the client after which no message counts as passed on that did *)
(* not before, and no message the broker remembers has left the store.      *)
LEMMA ClientDelivers ==
    ASSUME SlotInv, OutInv, DelivInv, UNCHANGED Deliveries, UNCHANGED <<mid, qos>>,
           Answers' \subseteq Answers,
           \A p \in Pub : state'[p] \in {"published", "wait_for_pubcomp", "resend_pubrel"} =>
                               delivered[p] > 0,
           \A p \in Pub : state'[p] \in Waiting => state[p] \in Stored,
           \A p \in Live : state'[p] \in Stored \/ qos[p] # 2 \/ mid[p] \notin bRecv
    PROVE  DelivInv'
<1>1. PublishedDelivered' /\ \A p \in Pub : state'[p] \in {"wait_for_pubcomp", "resend_pubrel"} => delivered'[p] > 0
    BY DEF PublishedDelivered, Deliveries
<1>2. ASSUME NEW y \in Answers', NEW p \in Pub, mid'[p] = y.mid, state'[p] \in Waiting
      PROVE  delivered'[p] > 0
  <2>1. CASE state[p] \in Waiting
      BY <1>2, <2>1 DEF DelivInv, Deliveries
  <2>2. CASE state[p] \notin Waiting
    <3>1. p \in Live
        BY <1>2 DEF Live
    <3> QED
        BY <1>2, <2>2, <3>1, Quiet
  <2> QED
      BY <2>1, <2>2
<1>3. ASSUME bFresh, NEW m \in bRecv
      PROVE  \E p \in Live' : mid'[p] = m /\ qos'[p] = 2 /\ delivered'[p] > 0
  <2>1. PICK p \in Live : mid[p] = m /\ qos[p] = 2 /\ delivered[p] > 0
      BY <1>3 DEF DelivInv
  <2>2. p \in Live'
      BY <1>3, <2>1 DEF Live
  <2> QED
      BY <2>1, <2>2 DEF Deliveries
<1>4. \A y \in Answers' : y.type = "PUBCOMP" => y.mid \notin bRecv'
    BY DEF DelivInv, Deliveries
<1> QED
    BY <1>1, <1>2, <1>3, <1>4 DEF DelivInv, Deliveries

(* The same for a step that leaves the store alone.                         *)
LEMMA StoreKept ==
    ASSUME SlotInv, OutInv, DelivInv, UNCHANGED Deliveries, UNCHANGED <<state, mid, qos>>, Answers' \subseteq Answers
    PROVE  DelivInv'
<1>1. \A p \in Pub : state[p] \in {"published", "wait_for_pubcomp", "resend_pubrel"} => delivered[p] > 0
    BY DEF DelivInv, PublishedDelivered
<1>2. \A p \in Live : state[p] \in Stored
    BY DEF Live
<1> QED
    BY <1>1, <1>2, StateSets, ClientDelivers

LEMMA PublishDelivers ==
    ASSUME SlotInv, OutInv, DelivInv, UNCHANGED Deliveries, NEW q \in 1..2, PublishCall(q)
    PROVE  DelivInv'
<1> DEFINE n == nextPub
<1>1. ASSUME NEW st \in {"rejected", "publish", "queued", WaitState(q)}, Call(q, st)
      PROVE  /\ n \in Pub /\ state[n] = "new" /\ state'[n] = st /\ mid'[n] = NextMid
             /\ \A p \in Pub : p # n => state'[p] = state[p] /\ mid'[p] = mid[p] /\ qos'[p] = qos[p]
             /\ Answers' = Answers
  <2>1. n \in Pub
      BY <1>1 DEF Call
  <2>2. n >= n
      BY <2>1 DEF Pub
  <2>3. state[n] = "new"
      BY <2>1, <2>2 DEF SlotInv, Unused
  <2>4. Answers' = Answers
      BY <1>1 DEF Call, Answers
  <2> QED
      BY <1>1, <2>1, <2>3, <2>4 DEF Call, SlotInv, TypeOK, ClientTypeOK
<1>2. PICK st \in {"rejected", "publish", "queued", WaitState(q)} :
          /\ Call(q, st)
          /\ st \in Waiting => Holders(NextMid) = {}
    BY StateSets DEF PublishCall, PublishRejected, PublishSent, PublishOffline, PublishQueued, CanStore, Waiting
<1>3. st \notin {"published", "wait_for_pubcomp", "resend_pubrel"}
    BY <1>2 DEF WaitState
<1>4. ASSUME NEW p \in Pub, state'[p] \in {"published", "wait_for_pubcomp", "resend_pubrel"}
      PROVE  delivered'[p] > 0
    BY <1>1, <1>2, <1>3, <1>4 DEF DelivInv, PublishedDelivered, Deliveries
<1>5. ASSUME NEW y \in Answers', NEW p \in Pub, mid'[p] = y.mid, state'[p] \in Waiting
      PROVE  delivered'[p] > 0
  <2>1. CASE p # n
      BY <1>1, <1>2, <1>5, <2>1 DEF DelivInv, Deliveries
  <2>2. CASE p = n
    <3>1. y \in Answers /\ y.mid = NextMid /\ Holders(NextMid) = {}
        BY <1>1, <1>2, <1>5, <2>2
    <3>2. PICK r \in Pub : mid[r] = y.mid /\ state[r] \in Waiting
        BY <3>1, FitsWaiting
    <3> QED
        BY <3>1, <3>2, StateSets DEF Holders, Live
  <2> QED
      BY <2>1, <2>2
<1>6. ASSUME bFresh, NEW m \in bRecv
      PROVE  \E p \in Live' : mid'[p] = m /\ qos'[p] = 2 /\ delivered'[p] > 0
  <2>1. PICK p \in Live : mid[p] = m /\ qos[p] = 2 /\ delivered[p] > 0
      BY <1>6 DEF DelivInv
  <2>2. p # n
      BY <1>1, <1>2, <2>1, StateSets DEF Live
  <2>3. p \in Live' /\ mid'[p] = m /\ qos'[p] = 2
      BY <1>1, <1>2, <2>1, <2>2 DEF Live
  <2> QED
      BY <2>1, <2>3 DEF Deliveries
<1>7. \A y \in Answers' : y.type = "PUBCOMP" => y.mid \notin bRecv'
    BY <1>1, <1>2 DEF DelivInv, Deliveries
<1> QED
    BY <1>4, <1>5, <1>6, <1>7 DEF DelivInv, PublishedDelivered, Deliveries

LEMMA ReconnectDelivers ==
    ASSUME SlotInv, OutInv, DelivInv, UNCHANGED Deliveries,
           ReconnectReset \/ ConnackAccepted \/ \E f \in Pub : ConnackBroken(f)
    PROVE  DelivInv'
<1>0. \A p \in Pub : state[p] \in {"published", "wait_for_pubcomp", "resend_pubrel"} => delivered[p] > 0
    BY DEF DelivInv, PublishedDelivered
<1>1. CASE ReconnectReset
  <2>1. \A p \in Pub : state'[p] = IF p \in Live THEN ResetState(p) ELSE state[p]
      BY <1>1 DEF ReconnectReset, ResetOut
  <2>2. UNCHANGED <<mid, qos>> /\ Answers' = {}
      BY <1>1, PacketsEmpty DEF ReconnectReset, Answers
  <2>3. \A p \in Pub : ResetState(p) \in {"publish", "resend_pubrel"}
                       /\ (ResetState(p) = "resend_pubrel" => state[p] = "wait_for_pubcomp")
      BY DEF ResetState
  <2>4. \A p \in Pub : state'[p] \in {"published", "wait_for_pubcomp", "resend_pubrel"} => delivered[p] > 0
      BY <1>0, <2>1, <2>3
  <2>5. \A p \in Pub : state'[p] \in Waiting => state[p] \in Stored
      BY <2>1, StateSets DEF Live
  <2>6. \A p \in Live : state'[p] \in Stored
      BY <2>1, <2>3, StateSets DEF Live, Stored
  <2> QED
      BY <2>2, <2>4, <2>5, <2>6, ClientDelivers
<1>2. ASSUME NEW S \in SUBSET Resumable, Resume(S), UNCHANGED <<mid, qos>>, Answers' \subseteq Answers
      PROVE  DelivInv'
  <2>1. \A p \in S : p \in Pub /\ state[p] \in {"publish", "resend_pubrel"}
      BY DEF Resumable
  <2>2. \A p \in Pub : state'[p] = IF p \in S THEN ResumedState(p) ELSE state[p]
      BY <1>2 DEF Resume
  <2>3. \A p \in Pub : ResumedState(p) \in Waiting
                       /\ (ResumedState(p) = "wait_for_pubcomp" => state[p] = "resend_pubrel")
      BY StateSets DEF ResumedState, WaitState
  <2>4. "published" \notin Waiting /\ "resend_pubrel" \notin Waiting
      BY DEF Waiting
  <2>5. \A p \in Pub : state'[p] \in {"published", "wait_for_pubcomp", "resend_pubrel"} => delivered[p] > 0
      BY <1>0, <2>2, <2>3, <2>4
  <2>6. \A p \in Pub : state'[p] \in Waiting => state[p] \in Stored
      BY <2>1, <2>2, StateSets DEF Stored
  <2>7. \A p \in Live : state'[p] \in Stored
      BY <2>2, <2>3, StateSets DEF Live
  <2> QED
      BY <1>2, <2>5, <2>6, <2>7, ClientDelivers
<1>3. CASE ConnackAccepted
    BY <1>2, <1>3, Received DEF ConnackAccepted
<1>4. ASSUME NEW f \in Pub, ConnackBroken(f)
      PROVE  DelivInv'
  <2> DEFINE Marked == {p \in Resumable :
                          \A q \in Resumable : f < q /\ q < p => state[q] = "resend_pubrel"}
  <2>1. Resume(Marked) /\ Marked \in SUBSET Resumable /\ UNCHANGED <<mid, qos>>
      BY <1>4 DEF ConnackBroken
  <2>2. Answers' \subseteq Answers
      BY <1>4, Received DEF ConnackBroken
  <2> HIDE DEF Marked
  <2> QED
      BY <1>2, <2>1, <2>2
<1> QED
    BY <1>1, <1>3, <1>4

(* _update_inflight promotes queued messages only.                          *)
LEMMA UpdateDelivers ==
    ASSUME SlotInv, OutInv, DelivInv, UNCHANGED Deliveries, UNCHANGED <<mid, qos>>, Answers' \subseteq Answers,
           NEW st \in [Pub -> States], NEW n, NEW last, UpdateInflight(st, n, last),
           \A p \in Pub : st[p] # state[p] =>
               st[p] = "published" /\ delivered[p] > 0 /\ (qos[p] # 2 \/ mid[p] \notin bRecv)
    PROVE  DelivInv'
<1> DEFINE S == Promoted(st, n)
<1>1. \A p \in Pub : state'[p] = IF p \in S THEN WaitState(qos[p]) ELSE st[p]
    BY DEF UpdateInflight
<1>2. \A p \in S : p \in Pub /\ state[p] = "queued"
    BY PromotedQueued
<1> HIDE DEF S
<1>3. \A p \in Pub : state'[p] \in {"published", "wait_for_pubcomp", "resend_pubrel"} => delivered[p] > 0
    BY <1>1, <1>2 DEF DelivInv, PublishedDelivered, WaitState
<1>4. \A p \in Pub : state'[p] \in Waiting => state[p] \in Stored
    BY <1>1, <1>2, StateSets
<1>5. \A p \in Live : state'[p] \in Stored \/ qos[p] # 2 \/ mid[p] \notin bRecv
    BY <1>1, <1>2, StateSets DEF Live
<1> QED
    BY <1>3, <1>4, <1>5, ClientDelivers

LEMMA HandlerDelivers ==
    ASSUME SlotInv, OutInv, DelivInv, UNCHANGED Deliveries,
           HandlePubrec \/ PubrelSteps \/ \E t \in {"PUBACK", "PUBCOMP"} : HandleAck(t)
    PROVE  DelivInv'
<1> DEFINE m == Head(toClient).mid
<1>0. state \in [Pub -> States]
    BY DEF SlotInv, TypeOK, ClientTypeOK
<1>1. ASSUME NEW t \in {"PUBACK", "PUBCOMP"}, HandleAck(t)
      PROVE  DelivInv'
  <2>1. Answers' \subseteq Answers /\ Head(toClient) \in Answers /\ Head(toClient).type = t
      BY <1>1, Received DEF HandleAck, Answering, Receive, Arrives
  <2>2. UNCHANGED <<mid, qos>>
      BY <1>1 DEF HandleAck
  <2>3. ASSUME NEW p \in Holders(m),
               UpdateInflight([state EXCEPT ![p] = "published"], inflight - 1, <<>>)
        PROVE  DelivInv'
    <3> DEFINE st == [state EXCEPT ![p] = "published"]
    <3>1. p \in Pub /\ p \in Live /\ mid[p] = m
        BY DEF Holders, Live
    <3>2. state[p] \in Waiting
        BY <2>1, <3>1, Quiet
    <3>3. delivered[p] > 0
        BY <2>1, <3>1, <3>2 DEF DelivInv
    <3>4. qos[p] # 2 \/ m \notin bRecv
      <4>1. CASE t = "PUBCOMP"
          BY <2>1, <4>1 DEF DelivInv
      <4>2. CASE t = "PUBACK"
        <5>1. PICK r \in Pub : mid[r] = m /\ state[r] = "wait_for_puback" /\ qos[r] = 1
            BY <2>1, <4>2 DEF OutInv, OutFits, FitsAnswer, Awaits
        <5>2. r \in Live
            BY <5>1 DEF Live, Stored, Waiting
        <5>3. r = p
            BY <3>1, <5>1, <5>2 DEF SlotInv, UniqueMids
        <5> QED
            BY <5>1, <5>3
      <4> QED
          BY <4>1, <4>2
    <3>5. st \in [Pub -> States] /\ \A r \in Pub : st[r] = IF r = p THEN "published" ELSE state[r]
        BY <1>0, <3>1 DEF States
    <3> HIDE DEF st
    <3>6. \A r \in Pub : st[r] # state[r] =>
              st[r] = "published" /\ delivered[r] > 0 /\ (qos[r] # 2 \/ mid[r] \notin bRecv)
        BY <3>1, <3>3, <3>4, <3>5
    <3> QED
        BY <2>1, <2>2, <2>3, <3>5, <3>6, UpdateDelivers DEF st
  <2> QED
      BY <1>1, <2>1, <2>2, <2>3, StoreKept DEF HandleAck
<1>2. CASE HandlePubrec
  <2>1. Answers' \subseteq Answers /\ Head(toClient) \in Answers
      BY <1>2, Received DEF HandlePubrec, Answering
  <2>2. UNCHANGED <<mid, qos>>
      BY <1>2 DEF HandlePubrec
  <2>3. ASSUME NEW p \in Holders(m), state' = [state EXCEPT ![p] = "wait_for_pubcomp"]
        PROVE  DelivInv'
    <3>1. p \in Pub /\ p \in Live /\ mid[p] = m
        BY DEF Holders, Live
    <3>2. state[p] \in Waiting
        BY <2>1, <3>1, Quiet
    <3>3. delivered[p] > 0
        BY <2>1, <3>1, <3>2 DEF DelivInv
    <3>4. \A r \in Pub : state'[r] = IF r = p THEN "wait_for_pubcomp" ELSE state[r]
        BY <1>0, <2>3, <3>1
    <3>5. \A r \in Pub : state'[r] \in {"published", "wait_for_pubcomp", "resend_pubrel"} => delivered[r] > 0
        BY <3>3, <3>4 DEF DelivInv, PublishedDelivered
    <3>6. \A r \in Pub : (state'[r] \in Waiting => state[r] \in Stored) /\ (r \in Live => state'[r] \in Stored)
        BY <3>2, <3>4, StateSets DEF Live
    <3> QED
        BY <2>1, <2>2, <3>5, <3>6, ClientDelivers DEF Live
  <2> QED
      BY <1>2, <2>1, <2>2, <2>3, StoreKept DEF HandlePubrec
<1>3. CASE PubrelSteps
  <2>0. TypeOK
      BY DEF SlotInv
  <2>1. Answers' \subseteq Answers /\ UNCHANGED <<mid, qos>>
    <3>1. UNCHANGED <<mid, qos>> /\ (toClient' = toClient \/ Receive("PUBREL"))
        BY <1>3, <2>0, PubrelHandled
    <3>2. CASE toClient' = toClient
        BY <3>1, <3>2 DEF Answers
    <3>3. CASE Receive("PUBREL")
        BY <3>1, <3>3, Received
    <3> QED
        BY <3>1, <3>2, <3>3
  <2>2. ASSUME NEW last, UpdateInflight(state, inflight, last)
        PROVE  DelivInv'
      BY <1>0, <2>1, <2>2, UpdateDelivers
  <2> QED
      BY <1>3, <2>0, <2>1, <2>2, StoreKept, PubrelHandled
<1> QED
    BY <1>1, <1>2, <1>3

(* The broker passes a publication on before it answers; in a session of    *)
(* this client the ids it remembers are those of messages passed on.        *)
LEMMA BrokerDelivers ==
    ASSUME SlotInv, SlotInv', OutInv, OutInv', DelivInv, bUp => bFresh, bUp' => bFresh', UNCHANGED <<state, mid, qos>>,
           BrokerAccept \/ BrokerReceives \/ BrokerRefuse \/ \E i \in In, q \in InQos : BrokerPublish(i, q)
    PROVE  DelivInv'
<1>1. delivered \in [Pub -> Nat] /\ bRecv \subseteq Mid
    BY DEF SlotInv, TypeOK, BrokerTypeOK
<1>2. toClient \in Seq(ToClientPacket)
    BY DEF SlotInv, TypeOK, WireTypeOK
<1>3. ASSUME NEW x \in ToClientPacket, toClient' = Append(toClient, x)
      PROVE  \A y \in Answers' : y \in Answers \/ y = x
  <2>1. Packets(Append(toClient, x)) = Packets(toClient) \cup {x}
      BY <1>2, PacketsAppend
  <2> QED
      BY <1>3, <2>1 DEF Answers
<1>4. CASE BrokerPublished
  <2> DEFINE pkt == Head(toBroker)
  <2>1. /\ bUp /\ bFresh /\ bFresh' = bFresh
        /\ pkt \in ToBrokerPacket /\ pkt.type = "PUBLISH" /\ pkt \in Asks
      BY <1>4, Taken, TakeType DEF BrokerPublished, Asking, SlotInv, TypeOK
  <2>2. /\ pkt.msg \in Pub /\ pkt.mid \in Mid /\ pkt.qos \in 1..2
        /\ mid[pkt.msg] = pkt.mid /\ qos[pkt.msg] = pkt.qos /\ state[pkt.msg] \in Waiting
      BY <2>1, FromClientFields, StateSets DEF OutInv, OutFits, FitsAsk
  <2>3. PICK p \in Live : p = pkt.msg
      BY <2>2, StateSets DEF Live
  <2>4. PICK x \in ToClientPacket :
            /\ x.type \in {"PUBACK", "PUBREC"} /\ x.mid = pkt.mid
            /\ toClient' = Append(toClient, x)
      BY <1>4, <2>2, ToClientTypes DEF BrokerPublished, Reply, WithMid
  <2>5. \A y \in Answers' : y \in Answers \/ y = x
      BY <1>3, <2>4
  <2>6. /\ p \in Pub
        /\ \A r \in Live : mid[r] = pkt.mid => r = p
        /\ \A r \in Pub : mid[r] = pkt.mid /\ state[r] \in Waiting => r = p
      BY <2>2, <2>3, StateSets DEF SlotInv, UniqueMids, Live
  <2>7. /\ \A r \in Pub : delivered[r] > 0 => delivered'[r] > 0
        /\ delivered'[p] > 0
        /\ bRecv' = IF pkt.qos = 2 THEN bRecv \cup {pkt.mid} ELSE bRecv
    <3>1. ASSUME delivered' = [delivered EXCEPT ![pkt.msg] = @ + 1]
          PROVE  delivered'[p] > 0 /\ \A r \in Pub : delivered[r] > 0 => delivered'[r] > 0
      <4>1. delivered[p] \in Nat
          BY <1>1, <2>6
      <4>2. delivered'[p] = delivered[p] + 1 /\ \A r \in Pub : r # p => delivered'[r] = delivered[r]
          BY <1>1, <2>3, <2>6, <3>1
      <4> QED
          BY <4>1, <4>2
    <3>2. ASSUME delivered' = delivered, pkt.mid \in bRecv
          PROVE  delivered'[p] > 0
        BY <2>1, <2>6, <3>2 DEF DelivInv
    <3> QED
        BY <1>4, <3>1, <3>2 DEF BrokerPublished
  <2>8. \A r \in Pub : state[r] \in {"published", "wait_for_pubcomp", "resend_pubrel"} => delivered'[r] > 0
      BY <2>7 DEF DelivInv, PublishedDelivered
  <2>9. \A y \in Answers', r \in Pub : mid[r] = y.mid /\ state[r] \in Waiting => delivered'[r] > 0
      BY <2>4, <2>5, <2>6, <2>7 DEF DelivInv
  <2>10. \A m \in bRecv' : \E r \in Live : mid[r] = m /\ qos[r] = 2 /\ delivered'[r] > 0
    <3> SUFFICES ASSUME NEW m \in bRecv'
                 PROVE  \E r \in Live : mid[r] = m /\ qos[r] = 2 /\ delivered'[r] > 0
        OBVIOUS
    <3>1. CASE m \in bRecv
      <4>1. PICK r \in Live : mid[r] = m /\ qos[r] = 2 /\ delivered[r] > 0
          BY <2>1, <3>1 DEF DelivInv
      <4> QED
          BY <2>7, <4>1 DEF Live
    <3>2. CASE m \notin bRecv
        BY <2>2, <2>3, <2>7, <3>2
    <3> QED
        BY <3>1, <3>2
  <2>11. \A y \in Answers' : y.type = "PUBCOMP" => y.mid \notin bRecv'
      BY <2>1, <2>4, <2>5, <2>7 DEF DelivInv, OutInv, OutTokens
  <2>12. Live' = Live
      BY DEF Live
  <2> QED
      BY <2>8, <2>9, <2>10, <2>11, <2>12 DEF DelivInv, PublishedDelivered
<1>5. CASE BrokerReleased
  <2> DEFINE pkt == Head(toBroker)
  <2>1. /\ UNCHANGED <<bFresh, delivered>> /\ bRecv' = bRecv \ {pkt.mid}
        /\ pkt \in ToBrokerPacket /\ pkt.type = "PUBREL" /\ pkt \in Asks
      BY <1>5, Taken, TakeType DEF BrokerReleased, Asking, SlotInv, TypeOK
  <2>2. pkt.mid \in Mid
      BY <2>1, FromClientFields
  <2>3. PICK p \in Pub : mid[p] = pkt.mid /\ state[p] = "wait_for_pubcomp"
      BY <2>1 DEF OutInv, OutFits, FitsAsk, Awaits
  <2>4. \A r \in Pub : mid[r] = pkt.mid /\ state[r] \in Waiting => r = p
      BY <2>3, StateSets DEF SlotInv, UniqueMids, Live
  <2>5. delivered[p] > 0
      BY <2>3 DEF DelivInv
  <2>6. PICK x \in ToClientPacket : x.mid = pkt.mid /\ toClient' = Append(toClient, x)
      BY <1>5, <2>2, ToClientTypes DEF BrokerReleased, Reply, WithMid
  <2>7. \A y \in Answers' : y \in Answers \/ y = x
      BY <1>3, <2>6
  <2>8. \A y \in Answers', r \in Pub : mid[r] = y.mid /\ state[r] \in Waiting => delivered[r] > 0
      BY <2>4, <2>5, <2>6, <2>7 DEF DelivInv
  <2>9. \A y \in Answers' : y.type = "PUBCOMP" => y.mid \notin bRecv'
      BY <2>1, <2>6, <2>7 DEF DelivInv
  <2>10. Live' = Live
      BY DEF Live
  <2> QED
      BY <2>1, <2>8, <2>9, <2>10 DEF DelivInv, PublishedDelivered
<1>6. ASSUME Answers' \subseteq Answers, UNCHANGED delivered,
             (bRecv' = {}) \/ UNCHANGED <<bRecv, bFresh>>
      PROVE  DelivInv'
  <2>1. Live' = Live
      BY DEF Live
  <2>2. bFresh' => \A m \in bRecv' : \E p \in Live : mid[p] = m /\ qos[p] = 2 /\ delivered[p] > 0
      BY <1>6 DEF DelivInv
  <2>3. \A y \in Answers' : y.type = "PUBCOMP" => y.mid \notin bRecv'
      BY <1>6 DEF DelivInv
  <2> QED
      BY <1>6, <2>1, <2>2, <2>3 DEF DelivInv, PublishedDelivered
<1>7. CASE BrokerAccept
  <2>1. Answers' \subseteq Answers
    <3>1. \A x \in Packets(PendingSeq) : x.type \notin Answering
        BY PendingSeqAre DEF PendingPacket, InPublish, WithMid, Answering
    <3>2. PICK c \in ToClientPacket : c = Connack(TRUE) /\ c.type \notin Answering
        BY ToClientTypes DEF Connack, Answering
    <3>3. Append(toClient, c) \in Seq(ToClientPacket) /\ PendingSeq \in Seq(ToClientPacket)
      <4>1. BrokerTypeOK
          BY DEF SlotInv, TypeOK
      <4>2. \A x \in ToClientPacket : Append(toClient, x) \in Seq(ToClientPacket)
          BY <1>2
      <4>3. c \in ToClientPacket
          BY <3>2
      <4> QED
          BY <4>1, <4>2, <4>3, PendingSeqType
    <3>4. Packets(Append(toClient, c)) = Packets(toClient) \cup {c}
        BY <1>2, <3>2, PacketsAppend, ZenonT(40)
    <3>5. Packets(Append(toClient, c) \o PendingSeq) = Packets(Append(toClient, c)) \cup Packets(PendingSeq)
        BY <3>3, PacketsConcat, ZenonT(40)
    <3>6. toClient' = Append(toClient, c) \/ toClient' = Append(toClient, c) \o PendingSeq
        BY <1>7, <3>2 DEF BrokerAccept, Reply
    <3> QED
        BY <3>1, <3>2, <3>4, <3>5, <3>6 DEF Answers
  <2> QED
      BY <1>6, <1>7, <2>1 DEF BrokerAccept
<1>8. CASE BrokerRefuse
  <2>1. PICK c \in ToClientPacket : c = Connack(FALSE) /\ c.type \notin Answering
      BY ToClientTypes DEF Connack, Answering
  <2>2. Answers' \subseteq Answers
      BY <1>3, <1>8, <2>1 DEF BrokerRefuse, Reply, Answers
  <2> QED
      BY <1>6, <1>8, <2>2 DEF BrokerRefuse, brokerVars
<1>9. ASSUME NEW t \in {"PUBACK", "PUBREC", "PUBCOMP"}, NEW q, NEW from, NEW to, BrokerAcked(t, q, from, to)
      PROVE  DelivInv'
  <2>1. Head(toBroker).mid \in In
    <3>1. Head(toBroker) \in ToBrokerPacket /\ Head(toBroker).type = t
        BY <1>9, TakeType DEF BrokerAcked, SlotInv, TypeOK
    <3> QED
        BY <1>9, <3>1, FromClientFields
  <2>2. PICK x \in ToClientPacket : x = WithMid("PUBREL", Head(toBroker).mid) /\ x.type \notin Answering
      BY <2>1, ToClientTypes DEF WithMid, Answering
  <2>3. toClient' = toClient \/ toClient' = Append(toClient, x)
      BY <1>9, <2>2 DEF BrokerAcked
  <2>4. Answers' \subseteq Answers
      BY <1>3, <2>2, <2>3 DEF Answers
  <2> QED
      BY <1>6, <1>9, <2>4 DEF BrokerAcked
<1>10. ASSUME NEW i \in In, NEW q \in InQos, BrokerPublish(i, q)
       PROVE  DelivInv'
  <2>1. PICK x \in ToClientPacket : x = InPublish(i, q) /\ x.type \notin Answering
      BY ToClientTypes, BrokerAssumption DEF InPublish, Answering
  <2>2. Answers' \subseteq Answers
      BY <1>3, <1>10, <2>1 DEF BrokerPublish, Reply, Answers
  <2> QED
      BY <1>6, <1>10, <2>2 DEF BrokerPublish
<1> QED
    BY <1>4, <1>5, <1>7, <1>8, <1>9, <1>10 DEF BrokerReceives, BrokerAck

LEMMA DeliveredInit == Init => DelivInv
<1> SUFFICES ASSUME Init PROVE DelivInv
    OBVIOUS
<1>1. toClient = <<>> /\ (\A p \in Pub : state[p] = "new") /\ (bFresh => bRecv = {})
    BY DEF Init, ClientInit, BrokerInit
<1>2. Answers = {}
    BY <1>1, PacketsEmpty DEF Answers
<1> QED
    BY <1>1, <1>2, StateSets DEF DelivInv, PublishedDelivered

(* While a connection is accepted its session is one of this client.        *)
OwnSession == bUp => bFresh

LEMMA DeliveredNext ==
    SlotInv /\ SlotInv' /\ OutInv /\ OutInv' /\ OwnSession /\ OwnSession' /\ DelivInv /\ [Next]_vars => DelivInv'
<1> SUFFICES ASSUME SlotInv, SlotInv', OutInv, OutInv', OwnSession, OwnSession', DelivInv, [Next]_vars
             PROVE  DelivInv'
    OBVIOUS
<1>1. ASSUME NEW q \in OutQos, AppPublish(q)
      PROVE  DelivInv'
    BY <1>1, PublishDelivers, SessionAssumption DEF AppPublish, brokerVars, Deliveries
<1>2. ASSUME UNCHANGED toClient \/ toClient' = <<>>, UNCHANGED Deliveries, UNCHANGED <<state, mid, qos>>
      PROVE  DelivInv'
  <2>1. Answers' \subseteq Answers
      BY <1>2, PacketsEmpty DEF Answers
  <2> QED
      BY <1>2, <2>1, StoreKept
<1>3. CASE AppConsume \/ (\E i \in In, q \in 1..2 : AppAck(i, q)) \/ Open \/ EndReconnect
    BY <1>2, <1>3 DEF AppConsume, ConsumeMid, AppAck, Ack, Open, SocketOpened, EndReconnect, SendConnect,
                      outVars, wireVars, brokerVars, Deliveries
<1>4. CASE BeginReconnect
    BY <1>4, ReconnectDelivers DEF BeginReconnect, brokerVars, Deliveries
<1>5. CASE Handle
  <2>1. UNCHANGED Deliveries
      BY <1>5 DEF Handle, brokerVars, Deliveries
  <2>2. CASE ConnackAccepted
      BY <2>1, <2>2, ReconnectDelivers
  <2>3. CASE ConnackRefused \/ HandlePublish
    <3>1. Answers' \subseteq Answers
        BY <2>3, Received DEF ConnackRefused, HandlePublish
    <3> QED
        BY <2>1, <2>3, <3>1, StoreKept DEF ConnackRefused, HandlePublish, outVars
  <2>4. CASE HandleAck("PUBACK") \/ HandleAck("PUBCOMP") \/ HandlePubrec \/ PubrelSteps
      BY <2>1, <2>4, HandlerDelivers
  <2> QED
      BY <1>5, <2>2, <2>3, <2>4 DEF Handle, Handler, PubrelSteps
<1>6. CASE BrokerHandles \/ Refused \/ \E i \in In, q \in InQos : BrokerSends(i, q)
    BY <1>6, BrokerDelivers DEF BrokerHandles, Refused, BrokerSends, clientVars, outVars, OwnSession
<1>7. CASE BrokerCloses \/ Lost \/ LostEarly \/ NoRoute
    BY <1>2, <1>7 DEF BrokerCloses, Lost, LostEarly, NoRoute, SocketFailed, Break, outVars, brokerVars, Deliveries
<1>8. ASSUME NEW f \in Pub, LostInConnack(f)
      PROVE  DelivInv'
    BY <1>8, ReconnectDelivers DEF LostInConnack, brokerVars, Deliveries
<1>9. CASE UNCHANGED vars
    BY <1>2, <1>9 DEF vars, clientVars, outVars, wireVars, brokerVars, Deliveries
<1> QED
    BY <1>1, <1>3, <1>4, <1>5, <1>6, <1>7, <1>8, <1>9 DEF Next, AnyFault

LEMMA DeliveredInOwnSession == Spec /\ []OwnSession => []DelivInv
<1>1. Init => DelivInv
    BY DeliveredInit
<1>2. SlotInv /\ SlotInv' /\ OutInv /\ OutInv' /\ OwnSession /\ OwnSession' /\ DelivInv /\ [Next]_vars => DelivInv'
    BY DeliveredNext
<1> QED
    BY <1>1, <1>2, SlotInvariant, OutInvariant, PTL DEF Spec

(* The broker starts with a session of this client, or with none that holds *)
(* message ids, or every run asks for a clean one first.                    *)
NoOldSession == StaleMids = {} \/ ("never" \notin CleanModes /\ NoRefusal)

LEMMA SessionIsOwn == NoOldSession => (Spec => []OwnSession)
<1>1. CASE StaleMids = {}
  <2>1. Init => bFresh
      BY <1>1 DEF Init, BrokerInit
  <2>2. bFresh /\ [Next]_vars => bFresh'
    <3>1. UNCHANGED brokerVars => bFresh' = bFresh
        BY DEF brokerVars
    <3>2. BrokerAccept => bFresh' = TRUE \/ bFresh' = bFresh
        BY DEF BrokerAccept
    <3>3. BrokerReceives => bFresh' = bFresh
        BY DEF BrokerReceives, BrokerPublished, BrokerReleased, BrokerAck, BrokerAcked
    <3>4. \A i, q : BrokerSends(i, q) => bFresh' = bFresh
        BY DEF BrokerSends, BrokerPublish
    <3>5. EndReconnect => bFresh' = bFresh
        BY DEF EndReconnect
    <3>6. [Next]_vars => UNCHANGED brokerVars \/ BrokerAccept \/ BrokerReceives \/ EndReconnect
                        \/ \E i \in In, q \in InQos : BrokerSends(i, q)
        BY DEF Next, vars, AppPublish, AppConsume, AppAck, BeginReconnect, Open, Handle, BrokerHandles,
               BrokerCloses, AnyFault, Lost, LostEarly, NoRoute, Refused, BrokerRefuse, LostInConnack
    <3> QED
        BY <3>1, <3>2, <3>3, <3>4, <3>5, <3>6
  <2>3. bFresh => OwnSession
      BY DEF OwnSession
  <2> QED
      BY <2>1, <2>2, <2>3, PTL DEF Spec
<1>2. CASE "never" \notin CleanModes /\ NoRefusal
  <2>1. NoRefusal
      BY <1>2
  <2>2. TypeOK /\ StaleInv => OwnSession
      BY <1>2 DEF TypeOK, ClientTypeOK, StaleInv, OwnSession
  <2> QED
      BY <2>1, <2>2, TypeCorrect, StaleInvariant, PTL
<1> QED
    BY <1>1, <1>2 DEF NoOldSession

(* on_publish, is_published() and wait_for_publish() report a message of    *)
(* QoS 1 or 2 only after the broker has passed it on: the PUBACK or PUBCOMP *)
(* that ends a message under a reused id is never one for another message.  *)
THEOREM ReportedAfterDelivery == NoOldSession => (Spec => []PublishedDelivered)
<1> SUFFICES ASSUME NoOldSession PROVE Spec => []PublishedDelivered
    OBVIOUS
<1>1. DelivInv => PublishedDelivered
    BY DEF DelivInv
<1> QED
    BY <1>1, SessionIsOwn, DeliveredInOwnSession, PTL

-----------------------------------------------------------------------------
(***************************************************************************)
(* Promises: what the applications at both ends rely on.  The one that     *)
(* receives, that on_message runs as often as the QoS says; the one that   *)
(* publishes, the same of the broker, marks on repetitions, and the order  *)
(* of publish().                                                           *)
(***************************************************************************)

USE DEF In_

(***************************************************************************)
(* The broker's messages to the client: on_message runs once for a message *)
(* of QoS 2, and the broker forgets no message before on_message ran.      *)
(***************************************************************************)

(* The messages on their way to the client, and what the client answers.    *)
Sending == {"PUBLISH", "PUBREL"}
Sends == {x \in Packets(toClient) : x.type \in Sending}
Acks == {x \in Packets(toBroker) : x.type \in Answering}

-----------------------------------------------------------------------------
(* How a connection is set up *)

(* There is one CONNECT, nothing but its answer precedes the session's      *)
(* packets, and no PUBREC of an older connection is left to be read.        *)
Setup ==
    /\ Once(toBroker, "CONNECT")
    /\ conn \in {"opening", "opened"} => toClient = <<>>
    /\ \A x \in Packets(toBroker) : x.type = "CONNECT" =>
          /\ conn = "connecting" /\ ~bUp
          /\ \A y \in Packets(toClient) : y.type # "CONNACK"
          /\ cleanMode = "always" => x.clean
    /\ (conn \in {"opening", "opened"} \/ (conn = "connecting" /\ ~bUp)) =>
          /\ \A y \in Packets(toClient) : y.type = "CONNACK"
          /\ \A x \in Packets(toBroker) : x.type # "PUBREC"

(* The packet a handler or the broker takes off a channel.                  *)
LEMMA HeadReceived ==
    ASSUME TypeOK, NEW t, Receive(t)
    PROVE  /\ Head(toClient) \in Packets(toClient) /\ Head(toClient) \in ToClientPacket
           /\ Head(toClient).type = t
           /\ toClient # <<>> /\ toClient \in Seq(ToClientPacket) /\ toClient' = Tail(toClient)
<1>1. /\ toClient \in Seq(ToClientPacket) /\ toClient # <<>> /\ Head(toClient).type = t
      /\ toClient' = Tail(toClient)
    BY DEF Receive, Arrives, TypeOK, WireTypeOK
<1> QED
    BY <1>1, PacketsTail

LEMMA HeadTaken ==
    ASSUME TypeOK, NEW t, Take(t)
    PROVE  /\ Head(toBroker) \in Packets(toBroker) /\ Head(toBroker) \in ToBrokerPacket
           /\ Head(toBroker).type = t
           /\ toBroker # <<>> /\ toBroker \in Seq(ToBrokerPacket) /\ toBroker' = Tail(toBroker)
           /\ Packets(toBroker') \subseteq Packets(toBroker)
           /\ Once(toBroker, "CONNECT") =>
                /\ Once(toBroker', "CONNECT")
                /\ t = "CONNECT" => \A x \in Packets(toBroker') : x.type # "CONNECT"
<1>1. /\ toBroker \in Seq(ToBrokerPacket) /\ toBroker # <<>> /\ Head(toBroker).type = t
      /\ toBroker' = Tail(toBroker)
    BY DEF Take, Arrives, TypeOK, WireTypeOK
<1>2. Packets(toBroker) = {Head(toBroker)} \cup Packets(Tail(toBroker)) /\ Head(toBroker) \in ToBrokerPacket
    BY <1>1, PacketsTail
<1>3. Once(toBroker, "CONNECT") =>
          /\ Once(Tail(toBroker), "CONNECT")
          /\ Head(toBroker).type = "CONNECT" => \A x \in Packets(Tail(toBroker)) : x.type # "CONNECT"
    BY <1>1, OnceTail
<1> QED
    BY <1>1, <1>2, <1>3

(* Steps that take from toClient, write no CONNECT and no PUBREC, and do    *)
(* not begin a connection.                                                  *)
LEMMA SetupKept ==
    ASSUME Setup, NEW N, Reads, Writes(N), \A x \in N : x.type \in {"PUBACK", "PUBCOMP"},
           UNCHANGED <<bUp, cleanMode>>,
           conn' = conn \/ (conn' \in {"up", "down"} /\ \A x \in Packets(toBroker') : x.type # "CONNECT"),
           conn \in {"opening", "opened"} => toClient' = <<>>
    PROVE  Setup'
<1>1. \A x \in Packets(toBroker') : x.type \in {"CONNECT", "PUBREC"} => x \in Packets(toBroker)
    BY DEF Writes, Asking
<1>2. Once(toBroker', "CONNECT") /\ Packets(toClient') \subseteq Packets(toClient)
    BY DEF Setup, Writes, Reads
<1> QED
    BY <1>1, <1>2 DEF Setup

LEMMA SetupNext == TypeOK /\ Setup /\ [Next]_vars => Setup'
<1> SUFFICES ASSUME TypeOK, Setup, [Next]_vars PROVE Setup'
    OBVIOUS
<1>1. cleanMode' = cleanMode
    BY DEF Next, vars, others, AppPublish, AppConsume, AppAck, BeginReconnect, Open, EndReconnect, Handle,
           BrokerHandles, BrokerSends, BrokerCloses, AnyFault, Lost, LostEarly, NoRoute, Refused,
           LostInConnack, Fault
<1>2. ASSUME UNCHANGED <<bUp, toClient, toBroker, conn>>
      PROVE  Setup'
    BY <1>1, <1>2 DEF Setup
<1>3. ASSUME toBroker' = <<>>, toClient' = <<>>
      PROVE  Setup'
    BY <1>3, PacketsEmpty, OnceEmpty DEF Setup
<1>4. ASSUME NEW q \in OutQos, AppPublish(q)
      PROVE  Setup'
  <2>1. UNCHANGED <<conn, bUp, toClient>>
      BY <1>4 DEF AppPublish, PublishCall, PublishRejected, PublishSent, PublishOffline, PublishQueued,
                  Call, brokerVars
  <2>2. Writes({}) /\ Reads
      BY <1>4, <2>1, PublishWrites, ReadsOnly, SessionAssumption DEF AppPublish
  <2> QED
      BY <1>1, <2>1, <2>2, SetupKept DEF Setup
<1>5. CASE AppConsume
    BY <1>2, <1>5 DEF AppConsume, ConsumeMid, wireVars, brokerVars
<1>6. CASE BeginReconnect \/ BrokerCloses \/ Lost \/ LostEarly
    BY <1>3, <1>6 DEF BeginReconnect, ReconnectReset, BrokerCloses, Lost, LostEarly, Break
<1>7. CASE Open
    BY <1>1, <1>7 DEF Open, SocketOpened, Setup, wireVars, brokerVars
<1>8. CASE NoRoute
  <2>1. conn = "opening" /\ conn' = "down" /\ toBroker' = <<>> /\ toClient' = toClient /\ toClient = <<>>
      BY <1>8 DEF NoRoute, SocketFailed, Setup
  <2> QED
      BY <1>3, <2>1
<1>9. ASSUME NEW i \in In, NEW q \in 1..2, AppAck(i, q)
      PROVE  Setup'
  <2>1. PICK x \in ToBrokerPacket :
            x = WithMid(IF q = 1 THEN "PUBACK" ELSE "PUBCOMP", i) /\ x.type \in {"PUBACK", "PUBCOMP"}
      BY ToBrokerTypes DEF WithMid
  <2>2. UNCHANGED <<conn, bUp, toClient>> /\ (toBroker' = toBroker \/ toBroker' = Append(toBroker, x))
      BY <1>9, <2>1 DEF AppAck, Ack, brokerVars
  <2>3. Writes({x})
      BY <2>1, <2>2, NothingWritten, AppendWritten DEF TypeOK, Writes
  <2> QED
      BY <1>1, <2>1, <2>2, <2>3, ReadsOnly, SetupKept DEF Setup
<1>10. CASE EndReconnect
  <2>1. PICK x \in ToBrokerPacket : x = Connect(CleanSession) /\ x.type = "CONNECT"
      BY ToBrokerTypes DEF CleanSession, Connect
  <2>2. x.clean = CleanSession
      BY <2>1 DEF Connect
  <2>3. cleanMode = "always" => x.clean
      BY <2>2 DEF CleanSession
  <2>4. /\ conn = "opened" /\ conn' = "connecting" /\ bUp' = FALSE
        /\ toBroker' = Append(toBroker, x) /\ toBroker \in Seq(ToBrokerPacket)
        /\ toClient' = toClient /\ toClient = <<>>
      BY <1>10, <2>1 DEF EndReconnect, SendConnect, Setup, TypeOK, WireTypeOK
  <2>5. x \in ToBrokerPacket /\ x.type = "CONNECT"
      BY <2>1
  <2>6. \A y \in Packets(toBroker) : y.type # "CONNECT" /\ y.type # "PUBREC"
      BY <2>4 DEF Setup
  <2>7. Packets(Append(toBroker, x)) = Packets(toBroker) \cup {x}
      BY <2>4, <2>5, PacketsAppend
  <2>8. Once(Append(toBroker, x), "CONNECT")
      BY <2>4, <2>5, <2>6, OnceAppend DEF Setup
  <2>9. Packets(toClient') = {}
      BY <2>4, PacketsEmpty
  <2> QED
      BY <1>1, <2>3, <2>4, <2>5, <2>6, <2>7, <2>8, <2>9 DEF Setup
<1>11. ASSUME ConnackAccepted \/ ConnackRefused \/ \E f \in Pub : ConnackBroken(f), UNCHANGED bUp
       PROVE  Setup'
  <2>1. Writes({}) /\ Reads
      BY <1>11, ConnackWrites, ReadsOnly DEF ConnackAccepted, ConnackRefused, ConnackBroken
  <2>2. Head(toClient) \in Packets(toClient) /\ Head(toClient).type = "CONNACK"
      BY <1>11, HeadReceived DEF ConnackAccepted, ConnackRefused, ConnackBroken
  <2>3. \A x \in Packets(toBroker') : x.type # "CONNECT"
      BY <2>1, <2>2 DEF Setup, Writes, Asking
  <2>4. conn' \in {"up", "down"} /\ conn \notin {"opening", "opened"}
      BY <1>11 DEF ConnackAccepted, ConnackRefused, ConnackBroken, Receive
  <2> QED
      BY <1>1, <1>11, <2>1, <2>3, <2>4, SetupKept
<1>12. CASE Handle
  <2>1. bUp' = bUp
      BY <1>12 DEF Handle, brokerVars
  <2>2. CASE HandleAck("PUBACK") \/ HandleAck("PUBCOMP") \/ HandlePubrec
    <3>1. Writes({}) /\ Reads /\ conn' = conn /\ conn \notin {"opening", "opened"}
        BY <2>2, AckWrites, ReadsOnly DEF HandleAck, HandlePubrec, Receive
    <3> QED
        BY <1>1, <2>1, <3>1, SetupKept
  <2>3. CASE PubrelSteps
    <3>1. conn' = conn /\ (toClient' = toClient \/ Receive("PUBREL"))
        BY <2>3, PubrelHandled
    <3>2. Reads /\ (conn \in {"opening", "opened"} => toClient' = <<>>)
        BY <3>1, ReadsOnly DEF Receive, Setup
    <3>3. PICK last \in Seq(ToBrokerPacket) :
              Writes(Packets(last)) /\ \A x \in Packets(last) : x.type = "PUBCOMP"
        BY <2>3, PubrelWrites
    <3> QED
        BY <1>1, <2>1, <3>1, <3>2, <3>3, SetupKept
  <2>4. CASE HandlePublish
    <3> DEFINE i == Head(toClient).mid
    <3>1. /\ Head(toClient) \in Packets(toClient) /\ Head(toClient) \in ToClientPacket
          /\ Head(toClient).type = "PUBLISH"
        BY <2>4, HeadReceived DEF HandlePublish
    <3>2. i \in In
        BY <3>1, FromBrokerFields
    <3>3. Reads /\ conn' = conn /\ conn \notin {"opening", "opened"}
        BY <2>4, ReadsOnly DEF HandlePublish, Receive
    <3>4. ~(conn = "connecting" /\ ~bUp)
        BY <3>1 DEF Setup
    <3>5. PICK t \in {"PUBACK", "PUBREC"} : toBroker' = toBroker \/ toBroker' = Append(toBroker, WithMid(t, i))
        BY <2>4 DEF HandlePublish
    <3>6. PICK x \in ToBrokerPacket : x = WithMid(t, i) /\ x.type = t
        BY <3>2, ToBrokerTypes DEF WithMid
    <3>7. Writes({x})
        BY <3>5, <3>6, NothingWritten, AppendWritten DEF TypeOK, Writes
    <3>8. \A y \in Packets(toBroker') : y.type = "CONNECT" => y \in Packets(toBroker)
        BY <3>6, <3>7 DEF Writes, Asking
    <3>9. Once(toBroker', "CONNECT") /\ Packets(toClient') \subseteq Packets(toClient)
        BY <3>3, <3>7 DEF Setup, Writes, Reads
    <3> QED
        BY <1>1, <2>1, <3>3, <3>4, <3>8, <3>9 DEF Setup
  <2> QED
      BY <1>11, <1>12, <2>1, <2>2, <2>3, <2>4 DEF Handle, Handler, PubrelSteps
<1>13. ASSUME NEW f \in Pub, LostInConnack(f)
       PROVE  Setup'
    BY <1>11, <1>13 DEF LostInConnack, brokerVars
<1>14. CASE BrokerHandles \/ Refused \/ \E i \in In, q \in InQos : BrokerSends(i, q)
  <2>1. conn' = conn /\ conn \notin {"opening", "opened"}
      BY <1>14 DEF BrokerHandles, BrokerReads, Refused, BrokerSends, clientVars
  <2>2. CASE BrokerAccept
    <3>1. Take("CONNECT") /\ bUp' = TRUE
        BY <2>2 DEF BrokerAccept
    <3>2. Once(toBroker', "CONNECT") /\ \A x \in Packets(toBroker') : x.type # "CONNECT"
        BY <3>1, HeadTaken DEF Setup
    <3> QED
        BY <2>1, <3>1, <3>2 DEF Setup
  <2>3. CASE BrokerRefuse
    <3>1. Take("CONNECT") /\ bUp' = bUp
        BY <2>3 DEF BrokerRefuse, brokerVars
    <3>2. /\ Once(toBroker', "CONNECT") /\ \A x \in Packets(toBroker') : x.type # "CONNECT"
          /\ Packets(toBroker') \subseteq Packets(toBroker)
        BY <3>1, HeadTaken DEF Setup
    <3>3. PICK c \in ToClientPacket : c = Connack(FALSE) /\ c.type = "CONNACK"
        BY ToClientTypes DEF Connack
    <3>4. toClient' = Append(toClient, c) /\ toClient \in Seq(ToClientPacket)
        BY <2>3, <3>3 DEF BrokerRefuse, Reply, TypeOK, WireTypeOK
    <3>5. Packets(Append(toClient, c)) = Packets(toClient) \cup {c}
      <4>1. toClient \in Seq(ToClientPacket) /\ c \in ToClientPacket
          BY <3>3, <3>4
      <4> HIDE <3>3, <3>4
      <4> QED
          BY <4>1, PacketsAppend
    <3> QED
        BY <2>1, <3>1, <3>2, <3>3, <3>4, <3>5 DEF Setup
  <2>4. CASE BrokerReceives \/ \E i \in In, q \in InQos : BrokerPublish(i, q)
    <3>1. bUp /\ bUp' = bUp
        BY <2>4 DEF BrokerReceives, BrokerPublished, BrokerReleased, BrokerAck, BrokerAcked, BrokerPublish
    <3>2. toBroker' = toBroker \/ \E t : Take(t)
        BY <2>4 DEF BrokerReceives, BrokerPublished, BrokerReleased, BrokerAck, BrokerAcked, BrokerPublish
    <3>3. Once(toBroker', "CONNECT") /\ Packets(toBroker') \subseteq Packets(toBroker)
        BY <3>2, HeadTaken DEF Setup
    <3> QED
        BY <2>1, <3>1, <3>3 DEF Setup
  <2> QED
      BY <1>14, <2>2, <2>3, <2>4 DEF BrokerHandles, Refused, BrokerSends
<1>15. CASE UNCHANGED vars
    BY <1>2, <1>15 DEF vars, clientVars, wireVars, brokerVars
<1> QED
    BY <1>4, <1>5, <1>6, <1>7, <1>8, <1>9, <1>10, <1>12, <1>13, <1>14, <1>15 DEF Next, AnyFault

LEMMA SetupInvariant == Spec => []Setup
<1>1. Init => Setup
  <2>1. Init => toBroker = <<>> /\ toClient = <<>> /\ conn = "down"
      BY DEF Init, ClientInit
  <2> QED
      BY <2>1, PacketsEmpty, OnceEmpty DEF Setup
<1>2. TypeOK /\ Setup /\ [Next]_vars => Setup'
    BY SetupNext
<1> QED
    BY <1>1, <1>2, TypeCorrect, PTL DEF Spec
-----------------------------------------------------------------------------
(* CONNACK comes first *)

(* A connection begins with CONNACK, and nothing else is handled before it, *)
(* so _in_messages is empty while clean_start is still asked for, and       *)
(* _handle_pubrel only runs while the connection is up.                     *)
Greeting ==
    conn = "connecting" =>
        /\ toClient # <<>> => Head(toClient).type = "CONNACK"
        /\ bUp => toClient # <<>>

First ==
    /\ Greeting
    /\ firstConnect => /\ inMsg = {} /\ conn # "up"
                       /\ conn = "down" => toBroker = <<>>
    /\ ~Idle => conn = "up"

(* Whatever is appended, the head of a channel that is not empty stays.     *)
LEMMA HeadStays ==
    ASSUME NEW P, NEW s \in Seq(P), NEW u \in Seq(P)
    PROVE  /\ s # <<>> => s \o u # <<>> /\ Head(s \o u) = Head(s)
           /\ \A x \in P : /\ Append(s, x) # <<>>
                           /\ s # <<>> => Head(Append(s, x)) = Head(s)
                           /\ s = <<>> => Head(Append(s, x)) = x
<1>0. s \o u \in Seq(P) /\ Len(s) \in Nat /\ Len(u) \in Nat
    OBVIOUS
<1>1. \A t \in Seq(P) : Head(t) = t[1] /\ (t # <<>> => Len(t) > 0)
    OBVIOUS
<1>2. ASSUME Len(s) > 0
      PROVE  s \o u # <<>> /\ (s \o u)[1] = s[1]
  <2>1. Len(s \o u) = Len(s) + Len(u) /\ Len(s) + Len(u) > 0
      BY <1>0, <1>2
  <2>2. (s \o u)[1] = s[1]
      BY <1>0, <1>2
  <2> QED
      BY <2>1, <2>2
<1>3. ASSUME NEW x \in P
      PROVE  /\ Append(s, x) # <<>>
             /\ s # <<>> => Head(Append(s, x)) = Head(s)
             /\ s = <<>> => Head(Append(s, x)) = x
  <2>1. Append(s, x) # <<>> /\ Head(Append(s, x)) = Append(s, x)[1] /\ Len(Append(s, x)) = Len(s) + 1
      OBVIOUS
  <2>2. s # <<>> => Append(s, x)[1] = s[1]
      BY <1>0, <1>1
  <2>3. s = <<>> => Append(s, x)[1] = x
      OBVIOUS
  <2> QED
      BY <1>1, <2>1, <2>2, <2>3
<1> QED
    BY <1>0, <1>1, <1>2, <1>3

LEMMA FirstNext == TypeOK /\ Setup /\ First /\ [Next]_vars => First'
<1> SUFFICES ASSUME TypeOK, Setup, First, [Next]_vars PROVE First'
    OBVIOUS
<1>1. /\ conn = "connecting" => /\ toClient # <<>> => Head(toClient).type = "CONNACK"
                                /\ bUp => toClient # <<>>
      /\ firstConnect => /\ inMsg = {} /\ conn # "up"
                         /\ conn = "down" => toBroker = <<>>
      /\ ~Idle => conn = "up"
    BY DEF First, Greeting
<1>2. ASSUME NEW t, Receive(t), t # "CONNACK"
      PROVE  conn = "up" /\ ~firstConnect
    BY <1>1, <1>2 DEF Receive, Arrives
<1>4. ASSUME UNCHANGED <<firstConnect, inMsg, conn, toClient, bUp>>, toBroker' = toBroker \/ conn # "down",
             pubrel' = pubrel \/ conn = "up"
      PROVE  First'
    BY <1>1, <1>4 DEF First, Greeting, Idle
<1>5. ASSUME firstConnect' = firstConnect, inMsg' = inMsg \/ inMsg' = {}, toBroker' = <<>>, conn' \in {"down", "opening"},
             Idle, pubrel' = pubrel
      PROVE  First'
    BY <1>1, <1>5 DEF First, Greeting, Idle
<1>6. ASSUME NEW q \in OutQos, AppPublish(q)
      PROVE  First'
    BY <1>4, <1>6 DEF AppPublish, PublishCall, PublishRejected, PublishSent, PublishOffline, PublishQueued,
                      Call, inVars, brokerVars, HasSocket
<1>7. CASE AppConsume
    BY <1>4, <1>7 DEF AppConsume, ConsumeMid, wireVars, brokerVars, inVars
<1>8. ASSUME NEW i \in In, NEW q \in 1..2, AppAck(i, q)
      PROVE  First'
    BY <1>4, <1>8 DEF AppAck, Ack, brokerVars
<1>9. CASE BeginReconnect
    BY <1>1, <1>5, <1>9 DEF BeginReconnect, ReconnectReset, ResetIn
<1>10. CASE BrokerCloses \/ Lost \/ LostEarly
    BY <1>5, <1>10 DEF BrokerCloses, Lost, LostEarly, Break, inVars
<1>11. CASE Open \/ EndReconnect
    BY <1>1, <1>11 DEF Open, SocketOpened, EndReconnect, SendConnect, inVars, wireVars, Setup, First, Greeting, Idle
<1>12. CASE NoRoute
    BY <1>1, <1>5, <1>12 DEF NoRoute, SocketFailed, inVars
<1>13. CASE Handle \/ \E f \in Pub : LostInConnack(f)
  <2>1. CASE ConnackAccepted \/ ConnackRefused \/ \E f \in Pub : ConnackBroken(f)
      BY <2>1 DEF ConnackAccepted, ConnackRefused, ConnackBroken, Receive, First, Greeting, Idle, inVars
  <2>2. CASE HandleAck("PUBACK") \/ HandleAck("PUBCOMP") \/ HandlePubrec \/ HandlePublish \/ HandlePubrel
      BY <1>2, <2>2 DEF HandleAck, HandlePubrec, HandlePublish, HandlePubrel, First, Greeting,
                           Idle, inVars
  <2>3. CASE FreeSlot \/ HandOnSlot
      BY <1>1, <1>4, <1>13, <2>3 DEF FreeSlot, HandOnSlot, Idle, wireVars, Handle, LostInConnack, brokerVars
  <2> QED
      BY <1>13, <2>1, <2>2, <2>3 DEF Handle, Handler, LostInConnack
<1>14. CASE BrokerHandles \/ Refused \/ \E i \in In, q \in InQos : BrokerSends(i, q)
  <2>1. UNCHANGED <<firstConnect, inMsg, conn, pubrel>>
      BY <1>14 DEF BrokerHandles, Refused, BrokerSends, clientVars, inVars
  <2>2. toBroker' = toBroker \/ toBroker # <<>>
      BY <1>14 DEF BrokerHandles, Refused, BrokerSends, BrokerAccept, BrokerRefuse, BrokerReceives,
                   BrokerPublished, BrokerReleased, BrokerAck, BrokerAcked, BrokerPublish, Take, Arrives
  <2>6. ASSUME conn = "connecting" => toClient' # <<>> /\ Head(toClient').type = "CONNACK"
        PROVE  First'
      BY <1>1, <2>1, <2>2, <2>6 DEF First, Greeting, Idle
  <2>3. /\ toClient \in Seq(ToClientPacket) /\ toBroker \in Seq(ToBrokerPacket)
        /\ PendingSeq \in Seq(ToClientPacket)
      BY PendingSeqType DEF TypeOK, WireTypeOK
  <2>4. CASE BrokerAccept \/ BrokerRefuse
    <3>0. \A c \in ToClientPacket : Append(toClient, c) \in Seq(ToClientPacket)
        BY <2>3
    <3>1. PICK ok \in BOOLEAN : \/ toClient' = Append(toClient, Connack(ok))
                                \/ toClient' = Append(toClient, Connack(ok)) \o PendingSeq
        BY <2>4 DEF BrokerAccept, BrokerRefuse, Reply
    <3>2. PICK c \in ToClientPacket : c = Connack(ok) /\ c.type = "CONNACK"
        BY ToClientTypes DEF Connack
    <3>3. PICK s \in Seq(ToClientPacket) : s = Append(toClient, c)
        BY <3>0, <3>2
    <3>4. s # <<>> /\ (conn = "connecting" => Head(s).type = "CONNACK")
        BY <1>1, <2>3, <3>2, <3>3, HeadStays
    <3>5. toClient' = s \/ toClient' = s \o PendingSeq
        BY <3>1, <3>2, <3>3
    <3>6. toClient' # <<>> /\ (conn = "connecting" => Head(toClient').type = "CONNACK")
      <4>1. s \o PendingSeq # <<>> /\ Head(s \o PendingSeq) = Head(s)
          BY <2>3, <3>4, HeadStays
      <4> QED
          BY <3>4, <3>5, <4>1
    <3> QED
        BY <2>6, <3>6
  <2>5. CASE BrokerReceives \/ \E i \in In, q \in InQos : BrokerPublish(i, q)
    <3>1. bUp
        BY <2>5 DEF BrokerReceives, BrokerPublished, BrokerReleased, BrokerAck, BrokerAcked, BrokerPublish
    <3>2. PICK x : toClient' = toClient \/ (x \in ToClientPacket /\ toClient' = Append(toClient, x))
      <4>1. CASE BrokerPublished
        <5>1. Head(toBroker).mid \in Mid
            BY <2>3, <4>1, FromClientFields DEF BrokerPublished, Take, Arrives
        <5> QED
            BY <4>1, <5>1, ToClientTypes DEF BrokerPublished, Reply
      <4>2. CASE BrokerReleased
        <5>1. Head(toBroker).mid \in Mid
            BY <2>3, <4>2, FromClientFields DEF BrokerReleased, Take, Arrives
        <5> QED
            BY <4>2, <5>1, ToClientTypes DEF BrokerReleased, Reply
      <4>3. CASE BrokerAck
        <5>1. Head(toBroker).mid \in In
            BY <2>3, <4>3, FromClientFields DEF BrokerAck, BrokerAcked, Take, Arrives
        <5> QED
            BY <4>3, <5>1, ToClientTypes DEF BrokerAck, BrokerAcked
      <4>4. CASE \E i \in In, q \in InQos : BrokerPublish(i, q)
          BY <4>4, ToClientTypes, BrokerAssumption DEF BrokerPublish, Reply
      <4> QED
          BY <2>5, <4>1, <4>2, <4>3, <4>4 DEF BrokerReceives
    <3>3. toClient # <<>> => toClient' # <<>> /\ Head(toClient') = Head(toClient)
        BY <2>3, <3>2, HeadStays
    <3> QED
        BY <1>1, <2>6, <3>1, <3>3
  <2> QED
      BY <1>14, <2>4, <2>5 DEF BrokerHandles, Refused, BrokerSends
<1>15. CASE UNCHANGED vars
    BY <1>4, <1>15 DEF vars, clientVars, wireVars, brokerVars, inVars
<1> QED
    BY <1>6, <1>7, <1>8, <1>9, <1>10, <1>11, <1>12, <1>13, <1>14, <1>15 DEF Next, AnyFault

LEMMA FirstInvariant == Spec => []First
<1>1. Init => First
    BY DEF Init, ClientInit, First, Greeting, Idle, NoRelease
<1>2. TypeOK /\ Setup /\ First /\ [Next]_vars => First'
    BY FirstNext
<1> QED
    BY <1>1, <1>2, TypeCorrect, SetupInvariant, PTL DEF Spec
-----------------------------------------------------------------------------
(* The broker's messages, their packets and what the client remembers *)

(* The client has the message: in _in_messages, or on_message ran.          *)
Had(i) == i \in inMsg \/ got[i] > 0

(* A PUBLISH of QoS 2 is only on its way while the broker waits for PUBREC  *)
(* and on_message has not run; PUBREL only after the client had the message.*)
FitsSend(x) ==
    /\ x.type = "PUBLISH" => /\ x.qos = bQos[x.mid] /\ bState[x.mid] # "idle"
                             /\ x.qos = 2 => bState[x.mid] = "sent" /\ got[x.mid] = 0
    /\ x.type = "PUBREL" => /\ bQos[x.mid] = 2 /\ bState[x.mid] \in {"rel", "done"}
                            /\ Had(x.mid)

FitsReply(x) ==
    /\ x.type = "PUBREC" => /\ bQos[x.mid] = 2 /\ Had(x.mid)
                            /\ x.mid \notin Mids(toClient, {"PUBLISH"})
    /\ x.type \in {"PUBACK", "PUBCOMP"} => got[x.mid] > 0

InState(i) ==
    /\ bState[i] = "idle" => bQos[i] = 0 /\ got[i] = 0 /\ i \notin inMsg
    /\ bState[i] = "rel" => bQos[i] = 2
    /\ bState[i] = "rel" /\ cleanMode # "always" => Had(i)
    /\ bState[i] = "done" /\ bQos[i] > 0 => got[i] > 0
    /\ i \in inMsg => bQos[i] = 2
    /\ bQos[i] = 2 /\ got[i] > 0 => /\ got[i] = 1 /\ i \notin inMsg
                                    /\ bState[i] \in {"rel", "done", "dropped"}

(* on_message ran for the message whose PUBCOMP _handle_pubrel still owes.  *)
Released == ~Idle => pubrel.mid \in In /\ got[pubrel.mid] > 0

InInv ==
    /\ Single(toClient, {"PUBLISH"})
    /\ \A x \in Packets(toClient) : FitsSend(x)
    /\ \A x \in Packets(toBroker) : FitsReply(x)
    /\ \A i \in In : InState(i)
    /\ \A u \in unacked : got[u[1]] > 0
    /\ Released

(* A step of the client, on the messages of the broker.                     *)
LEMMA ClientIn ==
    ASSUME TypeOK, InInv, Reads, NEW N, Writes(N), UNCHANGED <<bState, bQos, cleanMode>>,
           \A i \in In : (got[i] > 0 => got'[i] > 0) /\ (Had(i) => Had(i)'),
           \A i \in In : InState(i)',
           \A x \in N : FitsReply(x)',
           \A x \in Packets(toClient') : x.type = "PUBLISH" /\ x.qos = 2 => got'[x.mid] = 0,
           \A u \in unacked' : got'[u[1]] > 0,
           Released'
    PROVE  InInv'
<1>1. /\ \A x \in Packets(toClient) : x \in ToClientPacket
      /\ \A x \in Packets(toBroker) : x \in ToBrokerPacket
    BY DEF TypeOK, WireTypeOK, Packets
<1>2. Single(toClient', {"PUBLISH"}) /\ Packets(toClient') \subseteq Packets(toClient)
    BY DEF InInv, Reads
<1>3. ASSUME NEW x \in Packets(toClient')
      PROVE  FitsSend(x)'
  <2>1. FitsSend(x) /\ x \in ToClientPacket
      BY <1>1, <1>2 DEF InInv
  <2> QED
      BY <2>1, FromBrokerFields DEF FitsSend
<1>4. ASSUME NEW x \in Packets(toBroker)
      PROVE  FitsReply(x)'
  <2>1. FitsReply(x) /\ x \in ToBrokerPacket
      BY <1>1 DEF InInv
  <2>2. x.mid \notin Mids(toClient, {"PUBLISH"}) => x.mid \notin Mids(toClient', {"PUBLISH"})
      BY <1>2 DEF Mids
  <2> QED
      BY <2>1, <2>2, FromClientFields DEF FitsReply
<1>5. \A x : x.type \in Asking => FitsReply(x)'
    BY DEF Asking, FitsReply
<1>6. \A x \in Packets(toBroker') : FitsReply(x)'
    BY <1>4, <1>5 DEF Writes
<1> QED
    BY <1>2, <1>3, <1>6 DEF InInv

(* Steps that are not about the broker's messages.                          *)
LEMMA InCalm ==
    ASSUME TypeOK, InInv, Reads, Writes({}),
           UNCHANGED <<bState, bQos, cleanMode, got, inMsg, unacked, pubrel>>
    PROVE  InInv'
<1>1. \A i \in In : InState(i)' /\ (Had(i) => Had(i)')
    BY DEF InInv, InState, Had
<1>2. \A x \in Packets(toClient') : x.type = "PUBLISH" /\ x.qos = 2 => got'[x.mid] = 0
    BY DEF Reads, InInv, FitsSend
<1>3. (\A u \in unacked' : got'[u[1]] > 0) /\ Released'
    BY DEF InInv, Released, Idle
<1> QED
    BY <1>1, <1>2, <1>3, ClientIn

(* _messages_reconnect_reset_in forgets messages only when the CONNECT to   *)
(* come asks for a new session, before any message or for good.             *)
LEMMA ResetIns ==
    ASSUME TypeOK, First, InInv, ReconnectReset, UNCHANGED <<bState, bQos, cleanMode>>
    PROVE  InInv'
<1>1. toBroker' = <<>> /\ toClient' = <<>> /\ UNCHANGED <<got, unacked, pubrel>>
    BY DEF ReconnectReset
<1>2. inMsg' \subseteq inMsg /\ (cleanMode # "always" => inMsg' = inMsg)
    BY DEF ReconnectReset, ResetIn, CleanSession, First
<1>3. \A i \in In : InState(i)'
    BY <1>1, <1>2 DEF InInv, InState, Had
<1> QED
    BY <1>1, <1>3, PacketsEmpty DEF InInv, Released, Idle

LEMMA AckIns ==
    ASSUME TypeOK, InInv, NEW i \in In, NEW q \in 1..2, Ack(i, q), UNCHANGED <<bState, bQos, cleanMode>>
    PROVE  InInv'
<1>1. PICK x \in ToBrokerPacket :
          /\ x = WithMid(IF q = 1 THEN "PUBACK" ELSE "PUBCOMP", i)
          /\ x.type \in {"PUBACK", "PUBCOMP"} /\ x.mid = i
    BY ToBrokerTypes DEF WithMid
<1>2. /\ toBroker' = toBroker \/ toBroker' = Append(toBroker, x)
      /\ UNCHANGED <<got, inMsg, toClient, pubrel>> /\ unacked' \subseteq unacked /\ <<i, q>> \in unacked
    BY <1>1 DEF Ack
<1>3. Writes({x}) /\ Reads
    BY <1>1, <1>2, NothingWritten, AppendWritten, ReadsOnly DEF TypeOK, Writes
<1>4. got[i] > 0
    BY <1>2 DEF InInv
<1>5. FitsReply(x)'
    BY <1>1, <1>2, <1>4 DEF FitsReply
<1>6. \A j \in In : InState(j)' /\ (Had(j) => Had(j)')
    BY <1>2 DEF InInv, InState, Had
<1>7. \A y \in Packets(toClient') : y.type = "PUBLISH" /\ y.qos = 2 => got'[y.mid] = 0
    BY <1>2 DEF InInv, FitsSend
<1>8. (\A u \in unacked' : got'[u[1]] > 0) /\ Released'
    BY <1>2 DEF InInv, Released, Idle
<1> QED
    BY <1>2, <1>3, <1>5, <1>6, <1>7, <1>8, ClientIn

(* The step of on_message for message i.                                    *)
LEMMA DeliverIs ==
    ASSUME TypeOK, NEW i \in In, NEW q, Deliver(i, q)
    PROVE  /\ got'[i] = got[i] + 1 /\ got'[i] > 0
           /\ \A j \in In : j # i => got'[j] = got[j]
           /\ \A u \in unacked' : u \in unacked \/ u = <<i, q>>
<1>1. got \in [In -> Nat] /\ got' = [got EXCEPT ![i] = got[i] + 1]
    BY DEF Deliver, TypeOK, ClientTypeOK
<1>2. got'[i] = got[i] + 1 /\ got[i] \in Nat
    BY <1>1
<1>3. \A u \in unacked' : u \in unacked \/ u = <<i, q>>
    BY DEF Deliver
<1> QED
    BY <1>1, <1>2, <1>3

(* QoS 0 and 1: on_message runs, once more if the message comes again.      *)
LEMMA PublishHandled ==
    ASSUME TypeOK, InInv, HandlePublish, Head(toClient).qos < 2, UNCHANGED <<bState, bQos, cleanMode>>
    PROVE  InInv'
<1> DEFINE i == Head(toClient).mid
           q == Head(toClient).qos
<1>1. /\ Head(toClient) \in Packets(toClient) /\ Head(toClient) \in ToClientPacket
      /\ Head(toClient).type = "PUBLISH"
    BY HeadReceived DEF HandlePublish
<1>2. i \in In /\ q \in 0..1 /\ FitsSend(Head(toClient))
    BY <1>1, FromBrokerFields DEF InInv
<1>3. bQos[i] = q /\ bState[i] # "idle"
    BY <1>1, <1>2 DEF FitsSend
<1>4. Deliver(i, q) /\ inMsg' = inMsg /\ Idle /\ Idle'
    BY <1>2 DEF HandlePublish, Receive, Idle
<1>5. PICK x \in ToBrokerPacket : x = WithMid("PUBACK", i) /\ x.type = "PUBACK" /\ x.mid = i
    BY <1>2, ToBrokerTypes DEF WithMid
<1>6. toBroker' = toBroker \/ toBroker' = Append(toBroker, x)
    BY <1>2, <1>5 DEF HandlePublish
<1>7. Writes({x}) /\ Reads
    BY <1>5, <1>6, NothingWritten, AppendWritten, ReadsOnly DEF TypeOK, Writes, HandlePublish
<1>8. /\ got'[i] = got[i] + 1 /\ got'[i] > 0
      /\ \A j \in In : j # i => got'[j] = got[j]
      /\ \A u \in unacked' : u \in unacked \/ u = <<i, q>>
    BY <1>2, <1>4, DeliverIs
<1> HIDE DEF i, q
<1>9. \A j \in In : (got[j] > 0 => got'[j] > 0) /\ (Had(j) => Had(j)')
    BY <1>4, <1>8 DEF Had
<1>10. \A j \in In : InState(j)'
  <2>1. ASSUME NEW j \in In, j # i
        PROVE  InState(j)'
      BY <1>4, <1>8, <2>1 DEF InInv, InState, Had
  <2>2. ASSUME NEW j \in In, j = i
        PROVE  InState(j)'
      BY <2>2, <1>2, <1>3, <1>4, <1>8 DEF InInv, InState, Had
  <2> QED
      BY <2>1, <2>2
<1>11. FitsReply(x)'
    BY <1>5, <1>8 DEF FitsReply
<1>12. ASSUME NEW y \in Packets(toClient'), y.type = "PUBLISH", y.qos = 2
       PROVE  got'[y.mid] = 0
  <2>1. y \in Packets(toClient) /\ y \in ToClientPacket
      BY <1>7 DEF Reads, TypeOK, WireTypeOK, Packets
  <2>2. y.mid \in In /\ bQos[y.mid] = 2 /\ got[y.mid] = 0
      BY <1>12, <2>1, FromBrokerFields DEF InInv, FitsSend
  <2> QED
      BY <1>2, <1>3, <1>8, <2>2
<1>13. \A u \in unacked' : got'[u[1]] > 0
  <2> SUFFICES ASSUME NEW u \in unacked' PROVE got'[u[1]] > 0
      OBVIOUS
  <2>1. CASE u = <<i, q>>
      BY <1>8, <2>1
  <2>2. CASE u \in unacked
    <3>1. u[1] \in In /\ got[u[1]] > 0
        BY <2>2 DEF InInv, TypeOK, ClientTypeOK
    <3> QED
        BY <1>9, <3>1
  <2> QED
      BY <1>8, <2>1, <2>2
<1> QED
    BY <1>4, <1>7, <1>9, <1>10, <1>11, <1>12, <1>13, ClientIn DEF Released

(* QoS 2: the message is kept until PUBREL.                                 *)
LEMMA PublishKeeps ==
    ASSUME TypeOK, InInv, HandlePublish, Head(toClient).qos = 2, UNCHANGED <<bState, bQos, cleanMode>>
    PROVE  InInv'
<1> DEFINE i == Head(toClient).mid
<1>1. /\ Head(toClient) \in Packets(toClient) /\ Head(toClient) \in ToClientPacket
      /\ Head(toClient).type = "PUBLISH"
      /\ toClient # <<>> /\ toClient \in Seq(ToClientPacket) /\ toClient' = Tail(toClient)
    BY HeadReceived DEF HandlePublish
<1>2. i \in In /\ FitsSend(Head(toClient))
    BY <1>1, FromBrokerFields DEF InInv
<1>3. bQos[i] = 2 /\ bState[i] = "sent" /\ got[i] = 0
    BY <1>1, <1>2 DEF FitsSend
<1>4. UNCHANGED <<got, unacked>> /\ inMsg' = inMsg \cup {i} /\ Idle'
    BY DEF HandlePublish, Receive, Idle
<1>5. PICK x \in ToBrokerPacket : x = WithMid("PUBREC", i) /\ x.type = "PUBREC" /\ x.mid = i
    BY <1>2, ToBrokerTypes DEF WithMid
<1>6. toBroker' = Append(toBroker, x)
    BY <1>5 DEF HandlePublish
<1>7. Writes({x}) /\ Reads
    BY <1>5, <1>6, AppendWritten, ReadsOnly DEF TypeOK, HandlePublish
<1>8. i \notin Mids(toClient', {"PUBLISH"})
    BY <1>1, SingleTail DEF InInv
<1> HIDE DEF i
<1>9. \A j \in In : Had(j) => Had(j)'
    BY <1>4 DEF Had
<1>10. \A j \in In : InState(j)'
  <2>1. ASSUME NEW j \in In, j # i
        PROVE  InState(j)'
      BY <1>4, <2>1 DEF InInv, InState, Had
  <2>2. ASSUME NEW j \in In, j = i
        PROVE  InState(j)'
      BY <2>2, <1>2, <1>3, <1>4 DEF InInv, InState, Had
  <2> QED
      BY <2>1, <2>2
<1>11. FitsReply(x)'
    BY <1>3, <1>4, <1>5, <1>8 DEF FitsReply, Had
<1>12. \A y \in Packets(toClient') : y.type = "PUBLISH" /\ y.qos = 2 => got'[y.mid] = 0
    BY <1>4, <1>7 DEF InInv, FitsSend, Reads
<1>13. \A u \in unacked' : got'[u[1]] > 0
    BY <1>4 DEF InInv
<1> QED
    BY <1>4, <1>7, <1>9, <1>10, <1>11, <1>12, <1>13, ClientIn DEF Released

(* PUBREL: on_message runs unless it did, and PUBCOMP follows, or will.     *)
LEMMA PubrelDelivers ==
    ASSUME TypeOK, InInv, HandlePubrel, UNCHANGED <<bState, bQos, cleanMode>>
    PROVE  InInv'
<1> DEFINE i == Head(toClient).mid
<1>1. /\ Head(toClient) \in Packets(toClient) /\ Head(toClient) \in ToClientPacket
      /\ Head(toClient).type = "PUBREL"
    BY HeadReceived DEF HandlePubrel
<1>2. i \in In /\ FitsSend(Head(toClient))
    BY <1>1, FromBrokerFields DEF InInv
<1>3. bQos[i] = 2 /\ bState[i] \in {"rel", "done"} /\ Had(i)
    BY <1>1, <1>2 DEF FitsSend
<1>4. Reads
    BY ReadsOnly DEF HandlePubrel
<1>5. /\ PubcompReply(i) \in Seq(ToBrokerPacket)
      /\ \A x \in Packets(PubcompReply(i)) : x.type = "PUBCOMP" /\ x.mid = i
    BY <1>2, ReplyIs
<1>6. ASSUME i \notin inMsg, UNCHANGED inVars, toBroker' = toBroker \o PubcompReply(i)
      PROVE  InInv'
  <2>1. UNCHANGED <<inMsg, got, unacked, pubrel>> /\ got[i] > 0
      BY <1>3, <1>6 DEF inVars, Had
  <2> HIDE DEF i
  <2>6. Writes(Packets(PubcompReply(i)))
      BY <1>5, <1>6, ConcatWritten DEF TypeOK
  <2>2. \A x \in Packets(PubcompReply(i)) : FitsReply(x)'
      BY <1>5, <2>1 DEF FitsReply
  <2>3. \A j \in In : InState(j)' /\ (Had(j) => Had(j)')
      BY <2>1 DEF InInv, InState, Had
  <2>4. \A y \in Packets(toClient') : y.type = "PUBLISH" /\ y.qos = 2 => got'[y.mid] = 0
      BY <1>4, <2>1 DEF InInv, FitsSend, Reads
  <2>5. (\A u \in unacked' : got'[u[1]] > 0) /\ Released'
      BY <2>1 DEF InInv, Released, Idle
  <2> QED
      BY <1>4, <2>1, <2>2, <2>3, <2>4, <2>5, <2>6, ClientIn
<1>7. ASSUME i \in inMsg, PopMessage(i), Deliver(i, 2), toBroker' = toBroker,
             pubrel' = [step |-> "read", mid |-> i, read |-> inflight]
      PROVE  InInv'
  <2>9. pubrel'.mid = i
      BY <1>7
  <2>1. inMsg' = inMsg \ {i}
      BY <1>7 DEF PopMessage
  <2>2. /\ got'[i] = got[i] + 1 /\ got'[i] > 0
        /\ \A j \in In : j # i => got'[j] = got[j]
        /\ \A u \in unacked' : u \in unacked \/ u = <<i, 2>>
      BY <1>2, <1>7, DeliverIs
  <2> HIDE DEF i
  <2>3. got[i] = 0
    <3>1. got[i] \in Nat /\ InState(i)
        BY <1>2 DEF InInv, TypeOK, ClientTypeOK
    <3> QED
        BY <1>3, <1>7, <3>1 DEF InState
  <2>4. \A j \in In : (got[j] > 0 => got'[j] > 0) /\ (Had(j) => Had(j)')
      BY <2>1, <2>2 DEF Had
  <2>5. \A j \in In : InState(j)'
    <3>1. ASSUME NEW j \in In, j # i
          PROVE  InState(j)'
        BY <2>1, <2>2, <3>1 DEF InInv, InState, Had
    <3>2. ASSUME NEW j \in In, j = i
          PROVE  InState(j)'
        BY <3>2, <1>2, <1>3, <2>1, <2>2, <2>3 DEF InInv, InState, Had
    <3> QED
        BY <3>1, <3>2
  <2>6. Writes({}) /\ Released'
      BY <1>2, <1>7, <2>2, <2>9, NothingWritten DEF Released
  <2>7. ASSUME NEW y \in Packets(toClient'), y.type = "PUBLISH", y.qos = 2
        PROVE  got'[y.mid] = 0
    <3>1. y \in Packets(toClient) /\ y \in ToClientPacket
        BY <1>4, <2>7, SMTT(30) DEF Reads, TypeOK, WireTypeOK, Packets
    <3>2. y.mid \in In /\ bState[y.mid] = "sent" /\ got[y.mid] = 0
        BY <2>7, <3>1, FromBrokerFields DEF InInv, FitsSend
    <3> QED
        BY <1>2, <1>3, <2>2, <3>2
  <2>8. \A u \in unacked' : got'[u[1]] > 0
    <3> SUFFICES ASSUME NEW u \in unacked' PROVE got'[u[1]] > 0
        OBVIOUS
    <3>1. CASE u = <<i, 2>>
        BY <2>2, <3>1
    <3>2. CASE u \in unacked
      <4>1. u[1] \in In /\ got[u[1]] > 0
          BY <3>2 DEF InInv, TypeOK, ClientTypeOK
      <4> QED
          BY <2>4, <4>1
    <3> QED
        BY <2>2, <3>1, <3>2
  <2> QED
      BY <1>4, <2>4, <2>5, <2>6, <2>7, <2>8, ClientIn
<1> QED
    BY <1>6, <1>7 DEF HandlePubrel

(* The two steps after it: PUBCOMP is written once on_message ran.          *)
LEMMA ReleaseIns ==
    ASSUME TypeOK, InInv, FreeSlot \/ HandOnSlot, UNCHANGED <<bState, bQos, cleanMode>>
    PROVE  InInv'
<1>1. UNCHANGED <<inMsg, got, unacked, toClient>> /\ Reads /\ ~Idle
    BY ReadsOnly DEF FreeSlot, HandOnSlot, Idle, wireVars
<1>2. PICK i \in In : i = pubrel.mid /\ got[i] > 0
    BY <1>1 DEF InInv, Released
<1>3. Released'
  <2>1. FreeSlot => pubrel'.mid = pubrel.mid
      BY DEF FreeSlot, TypeOK, ClientTypeOK, Releases, NoRelease
  <2>2. HandOnSlot => Idle'
      BY DEF HandOnSlot, NoRelease, Idle
  <2> QED
      BY <1>1, <1>2, <2>1, <2>2 DEF Released
<1>4. /\ PubcompReply(i) \in Seq(ToBrokerPacket)
      /\ \A x \in Packets(PubcompReply(i)) : x.type = "PUBCOMP" /\ x.mid = i
    BY ReplyIs
<1>5. Writes(Packets(PubcompReply(i)))
  <2>1. CASE FreeSlot
      BY <2>1, NothingWritten DEF FreeSlot, wireVars, Writes
  <2>2. CASE HandOnSlot
      BY <1>2, <1>4, <2>2, UpdateWrites DEF HandOnSlot
  <2> QED
      BY <2>1, <2>2
<1>6. \A x \in Packets(PubcompReply(i)) : FitsReply(x)'
    BY <1>1, <1>2, <1>4 DEF FitsReply
<1>7. \A j \in In : InState(j)' /\ (Had(j) => Had(j)')
    BY <1>1 DEF InInv, InState, Had
<1>8. /\ \A y \in Packets(toClient') : y.type = "PUBLISH" /\ y.qos = 2 => got'[y.mid] = 0
      /\ \A u \in unacked' : got'[u[1]] > 0
    BY <1>1 DEF InInv, FitsSend
<1> QED
    BY <1>1, <1>3, <1>5, <1>6, <1>7, <1>8, ClientIn

(* A step of the broker, given what it does to its messages.                *)
LEMMA BrokerIn ==
    ASSUME TypeOK, InInv, UNCHANGED <<got, inMsg, unacked, pubrel, cleanMode>>,
           Packets(toBroker') \subseteq Packets(toBroker),
           Single(toClient', {"PUBLISH"}),
           \A x \in Packets(toClient') : FitsSend(x)',
           \A i \in In : InState(i)',
           \A x \in Packets(toBroker') : x.type = "PUBREC" =>
               bQos'[x.mid] = bQos[x.mid] /\ x.mid \notin Mids(toClient', {"PUBLISH"})
    PROVE  InInv'
<1>1. ASSUME NEW x \in Packets(toBroker')
      PROVE  FitsReply(x)'
    BY <1>1 DEF InInv, FitsReply, Had
<1>2. (\A u \in unacked' : got'[u[1]] > 0) /\ Released'
    BY DEF InInv, Released, Idle
<1> QED
    BY <1>1, <1>2 DEF InInv

(* CONNECT: the session is dropped, or its messages are sent again.         *)
LEMMA AcceptIns ==
    ASSUME TypeOK, Setup, InInv, BrokerAccept, UNCHANGED clientVars, cleanMode' = cleanMode
    PROVE  InInv'
<1>1. UNCHANGED <<got, inMsg, unacked, pubrel, cleanMode, bQos>>
    BY DEF clientVars, inVars, BrokerAccept
<1>2. /\ Head(toBroker) \in Packets(toBroker) /\ Head(toBroker).type = "CONNECT"
      /\ Packets(toBroker') \subseteq Packets(toBroker)
    BY HeadTaken DEF BrokerAccept
<1>3. /\ \A y \in Packets(toClient) : y.type = "CONNACK"
      /\ \A x \in Packets(toBroker') : x.type # "PUBREC"
      /\ cleanMode = "always" => Head(toBroker).clean
    BY <1>2 DEF Setup
<1>4. toClient \in Seq(ToClientPacket) /\ PendingSeq \in Seq(ToClientPacket)
    BY PendingSeqType DEF TypeOK, WireTypeOK
<1>5. PICK c \in ToClientPacket : c = Connack(TRUE) /\ c.type = "CONNACK"
    BY ToClientTypes DEF Connack
<1>6. \A x \in ToClientPacket : /\ Append(toClient, x) \in Seq(ToClientPacket)
                                /\ Packets(Append(toClient, x)) = Packets(toClient) \cup {x}
    BY <1>4, PacketsAppend
<1>7. PICK s \in Seq(ToClientPacket) : s = Append(toClient, c) /\ Packets(s) = Packets(toClient) \cup {c}
    BY <1>6
<1>8. \A y \in Packets(s) : y.type = "CONNACK"
    BY <1>3, <1>5, <1>7
<1>9. Single(s, {"PUBLISH"}) /\ Mids(s, {"PUBLISH"}) = {}
    BY <1>8 DEF Single, Mids, Packets
<1>10. ASSUME Head(toBroker).clean
       PROVE  InInv'
  <2>1. toClient' = s /\ bState' = [i \in In |-> IF Pending(i) THEN "dropped" ELSE bState[i]]
      BY <1>5, <1>7, <1>10 DEF BrokerAccept, Reply
  <2>2. \A x \in Packets(toClient') : FitsSend(x)'
      BY <1>8, <2>1 DEF FitsSend
  <2>3. \A i \in In : InState(i)'
      BY <1>1, <2>1 DEF InInv, InState, Had, Pending
  <2> QED
      BY <1>1, <1>2, <1>3, <1>9, <2>1, <2>2, <2>3, BrokerIn
<1>11. ASSUME ~Head(toBroker).clean
       PROVE  InInv'
  <2>1. toClient' = s \o PendingSeq /\ bState' = bState /\ cleanMode # "always"
      BY <1>3, <1>5, <1>7, <1>11 DEF BrokerAccept
  <2>2. Packets(toClient') = Packets(s) \cup Packets(PendingSeq)
      BY <1>4, <2>1, PacketsConcat
  <2>3. Single(toClient', {"PUBLISH"})
      BY <1>4, <1>9, <2>1, PendingSeqAre, SingleConcat
  <2>4. \A i \in In : InState(i)'
      BY <1>1, <2>1 DEF InInv, InState, Had
  <2>5. ASSUME NEW i \in In, Pending(i), NEW x, x = PendingPacket(i)
        PROVE  FitsSend(x)'
    <3>1. InState(i) /\ bState[i] \in {"sent", "rel"} /\ bQos[i] \in 0..2 /\ got[i] \in Nat
        BY <2>5 DEF InInv, Pending, TypeOK, BrokerTypeOK, ClientTypeOK
    <3>2. CASE bState[i] = "sent"
      <4>1. x.type = "PUBLISH" /\ x.mid = i /\ x.qos = bQos[i]
          BY <2>5, <3>2 DEF PendingPacket, InPublish
      <4>2. bQos[i] = 2 => got[i] = 0
          BY <3>1, <3>2 DEF InState
      <4> QED
          BY <1>1, <2>1, <3>2, <4>1, <4>2 DEF FitsSend
    <3>3. CASE bState[i] = "rel"
      <4>1. x.type = "PUBREL" /\ x.mid = i
          BY <2>5, <3>3 DEF PendingPacket, WithMid
      <4>2. bQos[i] = 2 /\ Had(i)
          BY <2>1, <3>1, <3>3 DEF InState
      <4> QED
          BY <1>1, <2>1, <3>3, <4>1, <4>2 DEF FitsSend, Had
    <3> QED
        BY <3>1, <3>2, <3>3
  <2>6. ASSUME NEW x \in Packets(toClient')
        PROVE  FitsSend(x)'
    <3>1. CASE x \in Packets(s)
        BY <1>8, <3>1 DEF FitsSend
    <3>2. CASE x \in Packets(PendingSeq)
      <4>1. PICK i \in In : Pending(i) /\ x = PendingPacket(i)
          BY <3>2, PendingSeqAre
      <4> QED
          BY <2>5, <4>1
    <3> QED
        BY <2>2, <2>6, <3>1, <3>2
  <2> QED
      BY <1>1, <1>2, <1>3, <2>3, <2>4, <2>6, BrokerIn
<1> QED
    BY <1>10, <1>11

(* An answer of the client to a message moves it on.                        *)
LEMMA AckedIns ==
    ASSUME TypeOK, InInv, UNCHANGED clientVars, cleanMode' = cleanMode,
           NEW t, NEW q, NEW from, NEW to, BrokerAcked(t, q, from, to),
           <<t, q, from, to>> \in {<<"PUBACK", 1, "sent", "done">>, <<"PUBREC", 2, "sent", "rel">>,
                                   <<"PUBCOMP", 2, "rel", "done">>}
    PROVE  InInv'
<1>0. \/ t = "PUBACK" /\ q = 1 /\ from = "sent" /\ to = "done"
      \/ t = "PUBREC" /\ q = 2 /\ from = "sent" /\ to = "rel"
      \/ t = "PUBCOMP" /\ q = 2 /\ from = "rel" /\ to = "done"
    OBVIOUS
<1>1. UNCHANGED <<got, inMsg, unacked, pubrel, cleanMode, bQos>>
    BY DEF clientVars, inVars, BrokerAcked
<1>2. /\ Head(toBroker) \in Packets(toBroker) /\ Head(toBroker) \in ToBrokerPacket
      /\ Head(toBroker).type = t /\ Packets(toBroker') \subseteq Packets(toBroker)
    BY HeadTaken DEF BrokerAcked
<1>3. PICK i \in In : i = Head(toBroker).mid
    BY <1>0, <1>2, FromClientFields
<1>4. /\ t = "PUBREC" => bQos[i] = 2 /\ Had(i) /\ i \notin Mids(toClient, {"PUBLISH"})
      /\ t # "PUBREC" => got[i] > 0
    BY <1>0, <1>2, <1>3 DEF InInv, FitsReply
<1>5. ASSUME ~(bState[i] = from /\ bQos[i] = q)
      PROVE  InInv'
  <2>1. bState' = bState /\ toClient' = toClient
      BY <1>3, <1>5 DEF BrokerAcked
  <2>2. \A x \in Packets(toClient') : FitsSend(x)'
      BY <1>1, <2>1 DEF InInv, FitsSend, Had
  <2>3. \A j \in In : InState(j)'
      BY <1>1, <2>1 DEF InInv, InState, Had
  <2>4. \A x \in Packets(toBroker') : x.type = "PUBREC" => x.mid \notin Mids(toClient', {"PUBLISH"})
      BY <1>2, <2>1 DEF InInv, FitsReply
  <2> QED
      BY <1>1, <1>2, <2>1, <2>2, <2>3, <2>4, BrokerIn DEF InInv
<1>6. ASSUME bState[i] = from, bQos[i] = q
      PROVE  InInv'
  <2>1. PICK y \in ToClientPacket : y = WithMid("PUBREL", i) /\ y.type = "PUBREL" /\ y.mid = i
      BY ToClientTypes DEF WithMid
  <2>2. /\ bState' = [bState EXCEPT ![i] = to] /\ bState \in [In -> BStates]
        /\ toClient \in Seq(ToClientPacket)
        /\ to = "rel" => toClient' = Append(toClient, y)
        /\ to # "rel" => toClient' = toClient
      BY <1>3, <1>6, <2>1 DEF BrokerAcked, TypeOK, BrokerTypeOK, WireTypeOK
  <2>3. bState'[i] = to /\ \A j \in In : j # i => bState'[j] = bState[j]
      BY <2>2
  <2>4. Packets(Append(toClient, y)) = Packets(toClient) \cup {y} /\ Single(Append(toClient, y), {"PUBLISH"})
      BY <2>1, <2>2, PacketsAppend, SingleAppend DEF InInv
  <2>5. Single(toClient', {"PUBLISH"}) /\ \A x \in Packets(toClient') : x \in Packets(toClient) \/ (to = "rel" /\ x = y)
      BY <2>2, <2>4 DEF InInv
  <2>6. InState(i) /\ got[i] \in Nat
      BY DEF InInv, TypeOK, ClientTypeOK
  <2>7. \A j \in In : InState(j)'
    <3>1. ASSUME NEW j \in In, j # i
          PROVE  InState(j)'
        BY <1>1, <2>3, <3>1 DEF InInv, InState, Had
    <3>2. InState(i)'
        BY <1>0, <1>1, <1>4, <1>6, <2>3, <2>6 DEF InState, Had
    <3> QED
        BY <3>1, <3>2
  <2>8. ASSUME NEW x \in Packets(toClient')
        PROVE  FitsSend(x)'
    <3>1. CASE to = "rel" /\ x = y
        BY <1>0, <1>1, <1>4, <1>6, <2>1, <2>3, <3>1 DEF FitsSend, Had
    <3>2. CASE x \in Packets(toClient)
      <4>1. FitsSend(x) /\ x \in ToClientPacket
          BY <3>2 DEF InInv, TypeOK, WireTypeOK, Packets
      <4>2. CASE x.type = "PUBLISH" /\ x.mid = i
        <5>1. i \in Mids(toClient, {"PUBLISH"}) /\ t # "PUBREC"
            BY <1>4, <3>2, <4>2 DEF Mids
        <5>2. x.qos # 2 /\ x.qos = bQos[i]
            BY <1>0, <1>4, <1>6, <4>1, <4>2, <5>1 DEF FitsSend
        <5> QED
            BY <1>0, <1>1, <2>3, <4>2, <5>2 DEF FitsSend
      <4>3. CASE x.type = "PUBREL" /\ x.mid = i
          BY <1>0, <1>1, <1>6, <2>3, <4>1, <4>3 DEF FitsSend, Had
      <4>4. CASE x.mid # i
          BY <1>1, <2>3, <4>1, <4>4, FromBrokerFields DEF FitsSend, Had
      <4> QED
          BY <4>2, <4>3, <4>4 DEF FitsSend
    <3> QED
        BY <2>5, <2>8, <3>1, <3>2
  <2>9. \A x \in Packets(toBroker') : x.type = "PUBREC" => x.mid \notin Mids(toClient', {"PUBLISH"})
    <3>1. Mids(toClient', {"PUBLISH"}) \subseteq Mids(toClient, {"PUBLISH"})
        BY <2>1, <2>5 DEF Mids
    <3> QED
        BY <1>2, <3>1 DEF InInv, FitsReply
  <2> QED
      BY <1>1, <1>2, <2>5, <2>7, <2>8, <2>9, BrokerIn
<1> QED
    BY <1>5, <1>6

(* A new message.                                                           *)
LEMMA SendIns ==
    ASSUME TypeOK, InInv, UNCHANGED clientVars, cleanMode' = cleanMode,
           NEW i \in In, NEW q \in 0..2, BrokerPublish(i, q)
    PROVE  InInv'
<1>1. UNCHANGED <<got, inMsg, unacked, pubrel, cleanMode, toBroker>>
    BY DEF clientVars, inVars, BrokerPublish
<1>2. PICK y \in ToClientPacket : y = InPublish(i, q) /\ y.type = "PUBLISH" /\ y.mid = i /\ y.qos = q
    BY ToClientTypes DEF InPublish
<1>3. /\ toClient' = Append(toClient, y) /\ toClient \in Seq(ToClientPacket) /\ bState[i] = "idle"
      /\ bState' = [bState EXCEPT ![i] = IF q = 0 THEN "done" ELSE "sent"] /\ bQos' = [bQos EXCEPT ![i] = q]
      /\ bState \in [In -> BStates] /\ bQos \in [In -> 0..2]
    BY <1>2 DEF BrokerPublish, Reply, TypeOK, BrokerTypeOK, WireTypeOK
<1>4. /\ bState'[i] = (IF q = 0 THEN "done" ELSE "sent") /\ bQos'[i] = q
      /\ \A j \in In : j # i => bState'[j] = bState[j] /\ bQos'[j] = bQos[j]
    BY <1>3
<1>5. bQos[i] = 0 /\ got[i] = 0 /\ i \notin inMsg
    BY <1>3 DEF InInv, InState
<1>6. \A x \in Packets(toClient) : x.type \in {"PUBLISH", "PUBREL"} => x.mid \in In \ {i}
  <2> SUFFICES ASSUME NEW x \in Packets(toClient), x.type \in {"PUBLISH", "PUBREL"} PROVE x.mid \in In \ {i}
      OBVIOUS
  <2>1. FitsSend(x) /\ x \in ToClientPacket
      BY DEF InInv, TypeOK, WireTypeOK, Packets
  <2> QED
      BY <1>3, <1>5, <2>1, FromBrokerFields DEF FitsSend
<1>7. i \notin Mids(toClient, {"PUBLISH"})
    BY <1>6 DEF Mids
<1>8. Packets(toClient') = Packets(toClient) \cup {y} /\ Single(toClient', {"PUBLISH"})
  <2>1. Single(Append(toClient, y), {"PUBLISH"})
      BY <1>2, <1>3, <1>7, SingleAppend DEF InInv
  <2> QED
      BY <1>3, <2>1, PacketsAppend
<1>9. \A j \in In : InState(j)'
  <2>1. ASSUME NEW j \in In, j # i
        PROVE  InState(j)'
      BY <1>1, <1>4, <2>1 DEF InInv, InState, Had
  <2>2. InState(i)'
      BY <1>1, <1>4, <1>5 DEF InState, Had
  <2> QED
      BY <2>1, <2>2
<1>10. ASSUME NEW x \in Packets(toClient')
       PROVE  FitsSend(x)'
  <2>1. CASE x = y
      BY <1>1, <1>2, <1>4, <1>5, <2>1 DEF FitsSend
  <2>2. CASE x \in Packets(toClient)
      BY <1>1, <1>4, <1>6, <2>2 DEF InInv, FitsSend, Had
  <2> QED
      BY <1>8, <1>10, <2>1, <2>2
<1>11. ASSUME NEW x \in Packets(toBroker'), x.type = "PUBREC"
       PROVE  bQos'[x.mid] = bQos[x.mid] /\ x.mid \notin Mids(toClient', {"PUBLISH"})
  <2>1. FitsReply(x) /\ x \in ToBrokerPacket
      BY <1>1, <1>11 DEF InInv, TypeOK, WireTypeOK, Packets
  <2>2. x.mid \in In /\ bQos[x.mid] = 2 /\ x.mid \notin Mids(toClient, {"PUBLISH"})
      BY <1>11, <2>1, FromClientFields DEF FitsReply
  <2>3. x.mid # i
      BY <1>5, <2>2
  <2>4. \A m \in Mids(toClient', {"PUBLISH"}) : m \in Mids(toClient, {"PUBLISH"}) \/ m = i
      BY <1>2, <1>8 DEF Mids
  <2> QED
      BY <1>4, <2>2, <2>3, <2>4
<1> QED
    BY <1>1, <1>8, <1>9, <1>10, <1>11, BrokerIn

(* A CONNACK that refuses, and the answers to the client's publications.    *)
LEMMA OtherIns ==
    ASSUME TypeOK, InInv, UNCHANGED clientVars, cleanMode' = cleanMode,
           BrokerRefuse \/ BrokerPublished \/ BrokerReleased
    PROVE  InInv'
<1>1. UNCHANGED <<got, inMsg, unacked, pubrel, cleanMode, bQos, bState>>
    BY DEF clientVars, inVars, BrokerRefuse, BrokerPublished, BrokerReleased, brokerVars
<1>2. PICK t : Take(t) /\ t \in {"CONNECT", "PUBLISH", "PUBREL"}
    BY DEF BrokerRefuse, BrokerPublished, BrokerReleased
<1>3. /\ Head(toBroker) \in ToBrokerPacket /\ Head(toBroker).type = t
      /\ Packets(toBroker') \subseteq Packets(toBroker)
    BY <1>2, HeadTaken
<1>4. t # "CONNECT" => Head(toBroker).mid \in Mid
    BY <1>2, <1>3, FromClientFields
<1>5. PICK y \in ToClientPacket : toClient' = Append(toClient, y) /\ y.type \notin {"PUBLISH", "PUBREL"}
  <2>1. CASE BrokerRefuse
      BY <2>1, ToClientTypes DEF BrokerRefuse, Reply, Connack
  <2>2. CASE BrokerPublished
    <3>1. Head(toBroker).mid \in Mid
        BY <1>3, <2>2, FromClientFields DEF BrokerPublished, Take, Arrives
    <3> QED
        BY <2>2, <3>1, ToClientTypes DEF BrokerPublished, Reply, WithMid
  <2>3. CASE BrokerReleased
    <3>1. Head(toBroker).mid \in Mid
        BY <1>3, <2>3, FromClientFields DEF BrokerReleased, Take, Arrives
    <3> QED
        BY <2>3, <3>1, ToClientTypes DEF BrokerReleased, Reply, WithMid
  <2> QED
      BY <2>1, <2>2, <2>3
<1>6. toClient \in Seq(ToClientPacket)
    BY DEF TypeOK, WireTypeOK
<1>7. Packets(toClient') = Packets(toClient) \cup {y} /\ Single(toClient', {"PUBLISH"})
  <2>1. Single(Append(toClient, y), {"PUBLISH"})
      BY <1>5, <1>6, SingleAppend DEF InInv
  <2> QED
      BY <1>5, <1>6, <2>1, PacketsAppend
<1>8. \A x \in Packets(toClient') : FitsSend(x)'
    BY <1>1, <1>5, <1>7 DEF InInv, FitsSend, Had
<1>9. \A j \in In : InState(j)'
    BY <1>1 DEF InInv, InState, Had
<1>10. Mids(toClient', {"PUBLISH"}) \subseteq Mids(toClient, {"PUBLISH"})
    BY <1>5, <1>7 DEF Mids
<1>11. \A x \in Packets(toBroker') : x.type = "PUBREC" => x.mid \notin Mids(toClient', {"PUBLISH"})
    BY <1>3, <1>10 DEF InInv, FitsReply
<1> QED
    BY <1>1, <1>3, <1>7, <1>8, <1>9, <1>11, BrokerIn

LEMMA InNext == TypeOK /\ Setup /\ First /\ InInv /\ [Next]_vars => InInv'
<1> SUFFICES ASSUME TypeOK, Setup, First, InInv, [Next]_vars PROVE InInv'
    OBVIOUS
<1>1. ASSUME NEW q \in OutQos, AppPublish(q)
      PROVE  InInv'
  <2>1. Writes({}) /\ Reads
      BY <1>1, PublishWrites, ReadsOnly, SessionAssumption
         DEF AppPublish, PublishCall, PublishRejected, PublishSent, PublishOffline, PublishQueued, Call
  <2> QED
      BY <1>1, <2>1, InCalm DEF AppPublish, PublishCall, PublishRejected, PublishSent, PublishOffline,
                                PublishQueued, Call, inVars, brokerVars, others
<1>2. ASSUME UNCHANGED wireVars \/ toBroker' = <<>>, toClient' = toClient \/ toClient' = <<>>,
             UNCHANGED <<bState, bQos, cleanMode, inVars>>
      PROVE  InInv'
  <2>1. Writes({}) /\ Reads
      BY <1>2, NothingWritten, ReadsOnly DEF wireVars
  <2> QED
      BY <1>2, <2>1, InCalm DEF inVars
<1>3. CASE AppConsume \/ UNCHANGED vars
    BY <1>2, <1>3 DEF AppConsume, ConsumeMid, brokerVars, vars, clientVars, others, wireVars
<1>4. ASSUME NEW i \in In, NEW q \in 1..2, AppAck(i, q)
      PROVE  InInv'
    BY <1>4, AckIns DEF AppAck, brokerVars, others
<1>5. CASE BeginReconnect
    BY <1>5, ResetIns DEF BeginReconnect, brokerVars, others
<1>6. CASE Open \/ NoRoute
    BY <1>2, <1>6 DEF Open, SocketOpened, NoRoute, SocketFailed, Fault, wireVars, brokerVars, others
<1>7. CASE BrokerCloses \/ Lost \/ LostEarly
    BY <1>2, <1>7 DEF BrokerCloses, Lost, LostEarly, Break, Fault, brokerVars, others
<1>8. CASE EndReconnect
  <2>1. PICK x \in ToBrokerPacket : x = Connect(CleanSession) /\ x.type = "CONNECT"
      BY ToBrokerTypes DEF CleanSession, Connect
  <2>2. /\ toBroker' = Append(toBroker, x) /\ toBroker \in Seq(ToBrokerPacket) /\ toClient' = toClient
        /\ UNCHANGED <<bState, bQos, cleanMode, got, inMsg, unacked, pubrel>>
      BY <1>8, <2>1 DEF EndReconnect, SendConnect, inVars, others, TypeOK, WireTypeOK
  <2>3. Packets(Append(toBroker, x)) = Packets(toBroker) \cup {x}
      BY <2>1, <2>2, PacketsAppend
  <2>4. \A y \in Packets(toBroker') : FitsReply(y)'
      BY <2>1, <2>2, <2>3 DEF InInv, FitsReply, Had
  <2> QED
      BY <2>2, <2>4 DEF InInv, FitsSend, InState, Had, Released, Idle
<1>9. CASE Handle
  <2>1. UNCHANGED <<bState, bQos, cleanMode>>
      BY <1>9 DEF Handle, brokerVars, others
  <2>2. CASE ConnackAccepted \/ ConnackRefused
    <3>1. Writes({}) /\ Reads
        BY <2>2, ConnackWrites, ReadsOnly DEF ConnackAccepted, ConnackRefused
    <3> QED
        BY <2>1, <2>2, <3>1, InCalm DEF ConnackAccepted, ConnackRefused, inVars
  <2>3. CASE HandleAck("PUBACK") \/ HandleAck("PUBCOMP") \/ HandlePubrec
    <3>1. Writes({}) /\ Reads
        BY <2>3, AckWrites, ReadsOnly DEF HandleAck, HandlePubrec
    <3> QED
        BY <2>1, <2>3, <3>1, InCalm DEF HandleAck, HandlePubrec, inVars
  <2>4. CASE HandlePublish
      BY <2>1, <2>4, PublishHandled, PublishKeeps DEF HandlePublish
  <2>5. CASE HandlePubrel
      BY <2>1, <2>5, PubrelDelivers
  <2> QED
      BY <1>9, <2>1, <2>2, <2>3, <2>4, <2>5, ReleaseIns DEF Handle, Handler
<1>10. ASSUME NEW f \in Pub, LostInConnack(f)
       PROVE  InInv'
  <2>1. Writes({}) /\ Reads
      BY <1>10, ConnackWrites, ReadsOnly DEF LostInConnack, ConnackBroken
  <2> QED
      BY <1>10, <2>1, InCalm DEF LostInConnack, ConnackBroken, Fault, inVars, brokerVars
<1>11. CASE BrokerHandles \/ Refused \/ \E i \in In, q \in InQos : BrokerSends(i, q)
  <2>1. UNCHANGED clientVars /\ cleanMode' = cleanMode
      BY <1>11 DEF BrokerHandles, Refused, BrokerSends, Fault, others
  <2>2. CASE BrokerAck
      BY <2>1, <2>2, AckedIns DEF BrokerAck
  <2>3. CASE BrokerRefuse \/ BrokerPublished \/ BrokerReleased
      BY <2>1, <2>3, OtherIns
  <2>4. ASSUME NEW i \in In, NEW q \in InQos, BrokerPublish(i, q)
        PROVE  InInv'
      BY <2>1, <2>4, SendIns, BrokerAssumption
  <2> QED
      BY <1>11, <2>1, <2>2, <2>3, <2>4, AcceptIns DEF BrokerHandles, Refused, BrokerSends, BrokerReceives
<1> QED
    BY <1>1, <1>3, <1>4, <1>5, <1>6, <1>7, <1>8, <1>9, <1>10, <1>11 DEF Next, AnyFault

LEMMA InInvariant == Spec => []InInv
<1>1. Init => InInv
  <2> SUFFICES ASSUME Init PROVE InInv
      OBVIOUS
  <2>1. /\ toBroker = <<>> /\ toClient = <<>> /\ inMsg = {} /\ unacked = {} /\ pubrel = NoRelease
        /\ \A i \in In : bState[i] = "idle" /\ bQos[i] = 0 /\ got[i] = 0
      BY DEF Init, ClientInit, BrokerInit
  <2> QED
      BY <2>1, PacketsEmpty DEF InInv, InState, Released, Idle, NoRelease
<1>2. TypeOK /\ Setup /\ First /\ InInv /\ [Next]_vars => InInv'
    BY InNext
<1> QED
    BY <1>1, <1>2, TypeCorrect, SetupInvariant, FirstInvariant, PTL DEF Spec

(* Without messages of QoS 2 from the broker _handle_pubrel never has a     *)
(* slot to free.                                                            *)
LEMMA NeverReleasing ==
    ASSUME 2 \notin InQos
    PROVE  Spec => [](Idle /\ \A i \in In : bQos[i] # 2)
<1> DEFINE Quiet2 == Idle /\ \A i \in In : bQos[i] # 2
<1>1. Init => Quiet2
    BY DEF Init, ClientInit, BrokerInit, Idle, NoRelease
<1>2. TypeOK /\ InInv /\ Quiet2 /\ [Next]_vars => Quiet2'
  <2> SUFFICES ASSUME TypeOK, InInv, Quiet2, [Next]_vars PROVE Quiet2'
      OBVIOUS
  <2>1. \A i \in In : bQos'[i] # 2
    <3>1. bQos' = bQos \/ \E i \in In, q \in InQos : BrokerPublish(i, q)
        BY DEF Next, AppPublish, AppConsume, AppAck, BeginReconnect, Open, EndReconnect, Handle, BrokerHandles,
               BrokerAccept, BrokerReceives, BrokerPublished, BrokerReleased, BrokerAck, BrokerAcked,
               BrokerSends, BrokerCloses, AnyFault, Lost, LostEarly, NoRoute, Refused, BrokerRefuse,
               LostInConnack, brokerVars, vars
    <3>2. ASSUME NEW i \in In, NEW q \in InQos, BrokerPublish(i, q)
          PROVE  \A j \in In : bQos'[j] # 2
        BY <3>2 DEF BrokerPublish, TypeOK, BrokerTypeOK
    <3> QED
        BY <3>1, <3>2
  <2>2. ~HandlePubrel
    <3> SUFFICES ASSUME HandlePubrel PROVE FALSE
        OBVIOUS
    <3>1. /\ Head(toClient) \in Packets(toClient) /\ Head(toClient) \in ToClientPacket
          /\ Head(toClient).type = "PUBREL"
        BY HeadReceived DEF HandlePubrel
    <3>2. Head(toClient).mid \in In /\ FitsSend(Head(toClient))
        BY <3>1, FromBrokerFields DEF InInv
    <3> QED
        BY <3>1, <3>2 DEF FitsSend
  <2>3. Idle'
    <3>1. pubrel' = pubrel \/ FreeSlot \/ HandOnSlot
        BY <2>2 DEF Next, AppPublish, PublishCall, PublishRejected, PublishSent, PublishOffline, PublishQueued, Call,
               AppConsume, ConsumeMid, AppAck, Ack, BeginReconnect, ReconnectReset, Open, SocketOpened,
               EndReconnect, SendConnect, Handle, Handler, ConnackAccepted, ConnackRefused, HandleAck,
               HandlePubrec, HandlePublish, BrokerHandles, BrokerSends, BrokerCloses, Break,
               AnyFault, Lost, LostEarly, NoRoute, SocketFailed, Refused,
               LostInConnack, ConnackBroken, clientVars, inVars, vars
    <3> QED
        BY <3>1 DEF FreeSlot, HandOnSlot, Idle
  <2> QED
      BY <2>1, <2>3
<1> HIDE DEF Quiet2
<1>3. Spec => []Quiet2
    BY <1>1, <1>2, TypeCorrect, InInvariant, PTL DEF Spec
<1> QED
    BY <1>3 DEF Quiet2

(* on_message runs at most once for a message of QoS 2: across duplicates   *)
(* of PUBLISH and PUBREL, lost connections, refused ones and new sessions,  *)
(* with and without manual acknowledgement.                                 *)
THEOREM InboundExactlyOnce == Spec => []InboundOnce
<1>1. TypeOK /\ InInv => InboundOnce
  <2> SUFFICES ASSUME TypeOK, InInv, NEW i \in In, bQos[i] = 2 PROVE got[i] <= 1
      BY DEF InboundOnce
  <2>1. got[i] \in Nat /\ InState(i)
      BY DEF TypeOK, ClientTypeOK, InInv
  <2> QED
      BY <2>1 DEF InState
<1> QED
    BY <1>1, TypeCorrect, InInvariant, PTL

(* The broker never counts a message of QoS 1 or 2 as delivered that        *)
(* on_message did not get, whichever clean_session or clean_start is used.  *)
THEOREM InboundAtLeastOnce == Spec => []InboundNotLost
<1>1. InInv => InboundNotLost
    BY DEF InInv, InState, InboundNotLost
<1> QED
    BY <1>1, InInvariant, PTL

-----------------------------------------------------------------------------
(***************************************************************************)
(* The client's messages to the broker: a message is passed on exactly     *)
(* once or at least once, a repetition is marked, and subscribers see the  *)
(* messages in the order of publish().                                     *)
(***************************************************************************)

-----------------------------------------------------------------------------
(* What a step does to one publication *)

Fixed(p) == qos'[p] = qos[p] /\ mid'[p] = mid[p]
Kept(p) == Fixed(p) /\ dup'[p] = dup[p] /\ state'[p] = state[p]

(* publish() *)
Made(p) ==
    /\ p = nextPub
    /\ state[p] = "new"
    /\ dup'[p] = dup[p]
    /\ qos'[p] \in OutQos
    /\ state'[p] \in {"rejected", "queued", "publish", WaitState(qos'[p])}

(* A packet is sent or handled. *)
Progress(p) ==
    /\ Fixed(p)
    /\ dup'[p] = dup[p]
    /\ \/ state[p] \in {"queued", "publish"} /\ state'[p] = WaitState(qos[p])
       \/ state[p] = "resend_pubrel" /\ state'[p] = "wait_for_pubcomp"
       \/ state[p] = "wait_for_pubrec" /\ qos[p] = 2 /\ state'[p] = "wait_for_pubcomp"
       \/ state[p] = "wait_for_puback" /\ qos[p] = 1 /\ state'[p] = "published"
       \/ state[p] = "wait_for_pubcomp" /\ state'[p] = "published"

(* reconnect() *)
IsReset(p) ==
    /\ Fixed(p)
    /\ conn = "down" /\ conn' = "opening"
    /\ state[p] \in Stored
    /\ state'[p] = ResetState(p)
    /\ dup'[p] = ResetDup(p)

Moves(p) == Kept(p) \/ Made(p) \/ Progress(p) \/ IsReset(p)

LEMMA UpdateMoves ==
    ASSUME TypeOK, NEW st \in [Pub -> States], NEW n, NEW last, UpdateInflight(st, n, last),
           UNCHANGED <<qos, mid, dup>>,
           \A p \in Pub : st[p] = state[p]
                \/ (st[p] = "published" /\ state[p] = "wait_for_puback" /\ qos[p] = 1)
                \/ (st[p] = "published" /\ state[p] = "wait_for_pubcomp")
    PROVE  \A p \in Pub : Moves(p)
<1> DEFINE S == Promoted(st, n)
<1>1. \A p \in Pub : state'[p] = IF p \in S THEN WaitState(qos[p]) ELSE st[p]
    BY DEF UpdateInflight
<1>2. \A p \in S : p \in Pub /\ st[p] = "queued"
    BY PromotedQueued
<1> HIDE DEF S
<1> QED
    BY <1>1, <1>2 DEF Moves, Kept, Progress, Fixed

LEMMA ResumeMoves ==
    ASSUME TypeOK, NEW S \in SUBSET Resumable, Resume(S), UNCHANGED <<qos, mid, dup>>
    PROVE  \A p \in Pub : Moves(p)
<1>1. \A p \in Pub : state'[p] = IF p \in S THEN ResumedState(p) ELSE state[p]
    BY DEF Resume
<1>2. \A p \in S : p \in Pub /\ state[p] \in {"publish", "resend_pubrel"}
    BY DEF Resumable
<1> QED
    BY <1>1, <1>2 DEF Moves, Kept, Progress, Fixed, ResumedState

LEMMA PublishMoves ==
    ASSUME SlotInv, NEW q \in OutQos, PublishCall(q)
    PROVE  \A p \in Pub : Moves(p)
<1>1. PICK st \in {"rejected", "queued", "publish", WaitState(q)} : Call(q, st)
    BY DEF PublishCall, PublishRejected, PublishSent, PublishOffline, PublishQueued
<1>2. nextPub \in Pub /\ state[nextPub] = "new"
  <2>1. nextPub \in Pub
      BY <1>1 DEF Call
  <2>2. nextPub >= nextPub
      BY <2>1 DEF Pub
  <2> QED
      BY <2>1, <2>2 DEF SlotInv, Unused
<1>3. dup' = dup /\ \A p \in Pub :
          /\ state'[p] = IF p = nextPub THEN st ELSE state[p]
          /\ qos'[p] = IF p = nextPub THEN q ELSE qos[p]
          /\ p # nextPub => mid'[p] = mid[p]
    BY <1>1, <1>2 DEF Call, SlotInv, TypeOK, ClientTypeOK
<1> QED
    BY <1>1, <1>2, <1>3 DEF Moves, Kept, Made, Fixed

(* The message an answer of the broker is for waits for that answer.        *)
LEMMA AnsweredMoves ==
    ASSUME SlotInv, OutInv, HandlePubrec \/ \E t \in {"PUBACK", "PUBCOMP"} : HandleAck(t)
    PROVE  \A p \in Pub : Moves(p)
<1> DEFINE m == Head(toClient).mid
<1>0. TypeOK /\ state \in [Pub -> States]
    BY DEF SlotInv, TypeOK, ClientTypeOK
<1>1. ASSUME NEW r \in Pub, mid[r] = m, state[r] \in Waiting, NEW p \in Holders(m)
      PROVE  r = p
  <2>1. r \in Live /\ p \in Live /\ mid[p] = m
      BY <1>1, StateSets DEF Live, Holders
  <2> QED
      BY <1>1, <2>1 DEF SlotInv, UniqueMids
<1>2. CASE UNCHANGED <<state, qos, mid, dup>>
    BY <1>2 DEF Moves, Kept, Fixed
<1>3. ASSUME NEW t \in {"PUBACK", "PUBCOMP"}, HandleAck(t)
      PROVE  \A p \in Pub : Moves(p)
  <2>1. Head(toClient) \in Answers /\ Head(toClient).type = t
      BY <1>3, Received DEF HandleAck, Answering, Receive, Arrives
  <2>2. \/ Awaits(m, "wait_for_puback", {1})
        \/ Awaits(m, "wait_for_pubcomp", 1..2)
      BY <2>1 DEF OutInv, OutFits, FitsAnswer
  <2>3. ASSUME NEW p \in Holders(m), UpdateInflight([state EXCEPT ![p] = "published"], inflight - 1, <<>>)
        PROVE  \A r \in Pub : Moves(r)
    <3> DEFINE st == [state EXCEPT ![p] = "published"]
    <3>1. \/ state[p] = "wait_for_puback" /\ qos[p] = 1
          \/ state[p] = "wait_for_pubcomp"
        BY <1>1, <2>2 DEF Awaits, Waiting
    <3>2. st \in [Pub -> States] /\ \A r \in Pub : st[r] = IF r = p THEN "published" ELSE state[r]
        BY <1>0 DEF States
    <3>3. UpdateInflight(st, inflight - 1, <<>>) /\ UNCHANGED <<qos, mid, dup>>
        BY <1>3, <2>3 DEF HandleAck
    <3> HIDE DEF st
    <3> QED
        BY <1>0, <3>1, <3>2, <3>3, UpdateMoves
  <2> QED
      BY <1>2, <1>3, <2>3 DEF HandleAck
<1>4. CASE HandlePubrec
  <2>1. Head(toClient) \in Answers /\ Head(toClient).type = "PUBREC"
      BY <1>4, Received DEF HandlePubrec, Answering, Receive, Arrives
  <2>2. Awaits(m, "wait_for_pubrec", {2})
      BY <2>1 DEF OutInv, OutFits, FitsAnswer
  <2>3. ASSUME NEW p \in Holders(m), state' = [state EXCEPT ![p] = "wait_for_pubcomp"]
        PROVE  \A r \in Pub : Moves(r)
    <3>1. state[p] = "wait_for_pubrec" /\ qos[p] = 2
        BY <1>1, <2>2 DEF Awaits, Waiting
    <3>2. \A r \in Pub : state'[r] = IF r = p THEN "wait_for_pubcomp" ELSE state[r]
        BY <1>0, <2>3
    <3>3. UNCHANGED <<qos, mid, dup>>
        BY <1>4 DEF HandlePubrec
    <3> QED
        BY <3>1, <3>2, <3>3 DEF Moves, Kept, Progress, Fixed
  <2> QED
      BY <1>2, <1>4, <2>3 DEF HandlePubrec
<1> QED
    BY <1>3, <1>4

LEMMA StoreMoves ==
    ASSUME SlotInv, OutInv, [Next]_vars
    PROVE  \A p \in Pub : Moves(p)
<1>0. TypeOK /\ state \in [Pub -> States]
    BY DEF SlotInv, TypeOK, ClientTypeOK
<1>1. CASE UNCHANGED outVars
    BY <1>1 DEF Moves, Kept, Fixed, outVars
<1>2. ASSUME NEW q \in OutQos, AppPublish(q)
      PROVE  \A p \in Pub : Moves(p)
    BY <1>2, PublishMoves DEF AppPublish
<1>3. CASE BeginReconnect
  <2>1. /\ conn = "down" /\ conn' = "opening" /\ UNCHANGED <<qos, mid>>
        /\ \A p \in Pub : state'[p] = IF p \in Live THEN ResetState(p) ELSE state[p]
        /\ \A p \in Pub : dup'[p] = IF p \in Live THEN ResetDup(p) ELSE dup[p]
      BY <1>3 DEF BeginReconnect, ReconnectReset, ResetOut
  <2> QED
      BY <2>1 DEF Moves, Kept, IsReset, Fixed, Live
<1>4. CASE Handle
  <2>1. CASE ConnackAccepted
      BY <1>0, <2>1, ResumeMoves DEF ConnackAccepted
  <2>2. CASE PubrelSteps
    <3>1. UNCHANGED <<qos, mid, dup>> /\ (state' = state \/ \E last : UpdateInflight(state, inflight, last))
        BY <1>0, <2>2, PubrelHandled
    <3> QED
        BY <1>0, <3>1, UpdateMoves DEF Moves, Kept, Fixed
  <2> QED
      BY <1>1, <1>4, <2>1, <2>2, AnsweredMoves DEF Handle, Handler, ConnackRefused, HandlePublish, PubrelSteps
<1>5. ASSUME NEW f \in Pub, LostInConnack(f)
      PROVE  \A p \in Pub : Moves(p)
  <2> DEFINE Marked == {p \in Resumable :
                          \A q \in Resumable : f < q /\ q < p => state[q] = "resend_pubrel"}
  <2>1. Resume(Marked) /\ UNCHANGED <<qos, mid, dup>> /\ Marked \in SUBSET Resumable
      BY <1>5 DEF LostInConnack, ConnackBroken
  <2> HIDE DEF Marked
  <2> QED
      BY <1>0, <2>1, ResumeMoves
<1>6. CASE AppConsume \/ (\E i \in In, q \in 1..2 : AppAck(i, q)) \/ Open \/ EndReconnect
    BY <1>1, <1>6 DEF AppConsume, ConsumeMid, AppAck, Ack, Open, SocketOpened, EndReconnect, SendConnect
<1>7. CASE BrokerHandles \/ Refused \/ \E i \in In, q \in InQos : BrokerSends(i, q)
    BY <1>1, <1>7 DEF BrokerHandles, Refused, BrokerSends, clientVars
<1>8. CASE BrokerCloses \/ Lost \/ LostEarly \/ NoRoute
    BY <1>1, <1>8 DEF BrokerCloses, Lost, LostEarly, NoRoute, SocketFailed, Break
<1>9. CASE UNCHANGED vars
    BY <1>1, <1>9 DEF vars, clientVars
<1> QED
    BY <1>2, <1>3, <1>4, <1>5, <1>6, <1>7, <1>8, <1>9 DEF Next, AnyFault

(* A PUBLISH is written for a new message, for a queued one, or for one     *)
(* that waits to be sent, with its m.dup.                                   *)
Writable(x) ==
    /\ x.msg \in Pub
    /\ \/ state[x.msg] \in {"new", "queued"}
       \/ state[x.msg] = "publish" /\ x.dup = dup[x.msg]

Publishes ==
    \A x \in Packets(toBroker') : x.type = "PUBLISH" => x \in Packets(toBroker) \/ Writable(x)

LEMMA OneWritten ==
    ASSUME TypeOK, NEW x \in ToBrokerPacket, toBroker' = Append(toBroker, x),
           x.type = "PUBLISH" => Writable(x)
    PROVE  Publishes
<1>1. toBroker \in Seq(ToBrokerPacket)
    BY DEF TypeOK, WireTypeOK
<1>2. Packets(Append(toBroker, x)) = Packets(toBroker) \cup {x}
    BY <1>1, PacketsAppend
<1> QED
    BY <1>2 DEF Publishes

LEMMA NoneWritten ==
    ASSUME TypeOK, toBroker' = toBroker \/ toBroker' = <<>> \/ \E t : Take(t)
    PROVE  Publishes
<1>1. CASE toBroker' = toBroker
    BY <1>1 DEF Publishes
<1>2. CASE toBroker' = <<>>
    BY <1>2, PacketsEmpty DEF Publishes
<1>3. ASSUME NEW t, Take(t)
      PROVE  Publishes
    BY <1>3, HeadTaken DEF Publishes
<1> QED
    BY <1>1, <1>2, <1>3

LEMMA UpdatePublishes ==
    ASSUME TypeOK, NEW st, NEW n, NEW last \in Seq(ToBrokerPacket), UpdateInflight(st, n, last),
           \A x \in Packets(last) : x.type # "PUBLISH",
           \A p \in Pub : st[p] = "queued" => state[p] = "queued"
    PROVE  Publishes
<1> DEFINE S == Promoted(st, n)
           s == PublishPackets(S) \o last
<1>1. S \in SUBSET Pub /\ (\A p \in S : st[p] = "queued") /\ toBroker' = (toBroker \o PublishPackets(S)) \o last
    BY PromotedQueued DEF UpdateInflight
<1> HIDE DEF S
<1>2. /\ ClientTypeOK /\ toBroker \in Seq(ToBrokerPacket) /\ PublishPackets(S) \in Seq(ToBrokerPacket)
    BY <1>1, PublishPacketsType DEF TypeOK, WireTypeOK
<1>3. s \in Seq(ToBrokerPacket) /\ toBroker' = toBroker \o s
    BY <1>1, <1>2, ConcatAssociative, SMTT(30)
<1>4. Packets(s) = Packets(PublishPackets(S)) \cup Packets(last)
    BY <1>2, PacketsConcat
<1>5. \A x \in Packets(PublishPackets(S)) : x.msg \in S
    BY <1>1, <1>2, PublishPacketsAre DEF Publish
<1> HIDE DEF s
<1>6. Packets(toBroker') = Packets(toBroker) \cup Packets(s)
    BY <1>2, <1>3, PacketsConcat
<1> QED
    BY <1>1, <1>4, <1>5, <1>6 DEF Publishes, Writable

LEMMA ResumePublishes ==
    ASSUME TypeOK, NEW S \in SUBSET Resumable, toBroker' = toBroker \o ResumePackets(S)
    PROVE  Publishes
<1>1. S \in SUBSET Pub /\ ClientTypeOK /\ toBroker \in Seq(ToBrokerPacket)
    BY DEF TypeOK, WireTypeOK, Resumable
<1>2. ResumePackets(S) \in Seq(ToBrokerPacket) /\ Packets(ResumePackets(S)) = {ResumePacket(p) : p \in S}
    BY <1>1, ResumePacketsType, ResumePacketsAre
<1>3. \A p \in S : ResumePacket(p).type = "PUBLISH" => Writable(ResumePacket(p))
    BY <1>1 DEF ResumePacket, Publish, WithMid, Writable, Resumable
<1>4. Packets(toBroker') = Packets(toBroker) \cup Packets(ResumePackets(S))
    BY <1>1, <1>2, PacketsConcat
<1> QED
    BY <1>2, <1>3, <1>4 DEF Publishes

LEMMA StepPublishes ==
    ASSUME SlotInv, [Next]_vars
    PROVE  Publishes
<1>0. TypeOK /\ state \in [Pub -> States] /\ (\A q \in OutQos : q \in 1..2)
    BY SessionAssumption DEF SlotInv, TypeOK, ClientTypeOK
<1>1. CASE toBroker' = toBroker \/ toBroker' = <<>>
    BY <1>0, <1>1, NoneWritten
<1>2. ASSUME NEW q \in OutQos, AppPublish(q)
      PROVE  Publishes
  <2>1. CASE PublishSent(q)
    <3>1. NextMid \in Mid /\ nextPub \in Pub /\ nextPub >= nextPub
      <4>1. nextPub \in Pub
          BY <2>1 DEF PublishSent, Call
      <4> QED
          BY <1>0, <4>1, WireAssumption DEF TypeOK, ClientTypeOK, NextMid, Mid, Pub
    <3>2. state[nextPub] = "new"
        BY <3>1 DEF SlotInv, Unused
    <3>3. PICK x \in ToBrokerPacket : x = Publish(nextPub, NextMid, q, FALSE) /\ x.msg = nextPub
        BY <1>0, <3>1, ToBrokerTypes DEF Publish
    <3> QED
        BY <1>0, <2>1, <3>1, <3>2, <3>3, OneWritten DEF PublishSent, Writable
  <2> QED
      BY <1>1, <1>2, <2>1 DEF AppPublish, PublishCall, PublishRejected, PublishOffline, PublishQueued
<1>3. ASSUME NEW t, NEW i, toBroker' = Append(toBroker, WithMid(t, i)),
             WithMid(t, i) \in ToBrokerPacket, t # "PUBLISH"
      PROVE  Publishes
  <2>1. PICK x \in ToBrokerPacket : x = WithMid(t, i)
      BY <1>3
  <2>2. x.type # "PUBLISH"
      BY <1>3, <2>1 DEF WithMid
  <2> QED
      BY <1>0, <1>3, <2>1, <2>2, OneWritten
<1>4. ASSUME NEW i \in In, NEW q \in 1..2, AppAck(i, q)
      PROVE  Publishes
  <2>1. PICK t \in {"PUBACK", "PUBCOMP"} : toBroker' = toBroker \/ toBroker' = Append(toBroker, WithMid(t, i))
      BY <1>4 DEF AppAck, Ack
  <2>2. WithMid(t, i) \in ToBrokerPacket
      BY <2>1, ToBrokerTypes
  <2> QED
      BY <1>1, <1>3, <2>1, <2>2
<1>5. CASE EndReconnect
  <2>1. PICK x \in ToBrokerPacket : x = Connect(CleanSession) /\ x.type # "PUBLISH"
      BY ToBrokerTypes DEF CleanSession, Connect
  <2> QED
      BY <1>0, <1>5, <2>1, OneWritten DEF EndReconnect, SendConnect
<1>6. CASE Handle
  <2>1. CASE ConnackAccepted
      BY <1>0, <2>1, ResumePublishes DEF ConnackAccepted
  <2>2. ASSUME NEW t, HandleAck(t)
        PROVE  Publishes
    <3>1. <<>> \in Seq(ToBrokerPacket) /\ Packets(<<>>) = {}
        BY PacketsEmpty
    <3>2. ASSUME NEW p, UpdateInflight([state EXCEPT ![p] = "published"], inflight - 1, <<>>)
          PROVE  Publishes
      <4> DEFINE st == [state EXCEPT ![p] = "published"]
      <4>1. UpdateInflight(st, inflight - 1, <<>>)
          BY <3>2
      <4>2. \A r \in Pub : st[r] = "queued" => state[r] = "queued"
          BY <1>0
      <4> HIDE DEF st
      <4> QED
          BY <1>0, <3>1, <4>1, <4>2, UpdatePublishes
    <3> QED
        BY <1>1, <2>2, <3>2 DEF HandleAck
  <2>3. CASE HandlePubrec
    <3>1. WithMid("PUBREL", Head(toClient).mid) \in ToBrokerPacket
      <4>1. Head(toClient).mid \in Mid
        <5>1. toClient \in Seq(ToClientPacket) /\ toClient # <<>> /\ Head(toClient).type = "PUBREC"
            BY <1>0, <2>3, HeadReceived DEF HandlePubrec
        <5> QED
            BY <5>1, FromBrokerFields
      <4> QED
          BY <4>1, ToBrokerTypes
    <3> QED
        BY <1>1, <1>3, <2>3, <3>1 DEF HandlePubrec
  <2>4. CASE HandlePublish
    <3>1. \A t \in {"PUBACK", "PUBREC"} : WithMid(t, Head(toClient).mid) \in ToBrokerPacket
      <4>1. Head(toClient).mid \in In
        <5>1. toClient \in Seq(ToClientPacket) /\ toClient # <<>> /\ Head(toClient).type = "PUBLISH"
            BY <1>0, <2>4, HeadReceived DEF HandlePublish
        <5> QED
            BY <5>1, FromBrokerFields
      <4> QED
          BY <4>1, ToBrokerTypes
    <3>2. PICK t \in {"PUBACK", "PUBREC"} :
              toBroker' = toBroker \/ toBroker' = Append(toBroker, WithMid(t, Head(toClient).mid))
        BY <2>4 DEF HandlePublish
    <3> QED
        BY <1>1, <1>3, <3>1, <3>2
  <2>5. CASE PubrelSteps
    <3>1. PICK last \in Seq(ToBrokerPacket) :
              /\ \A x \in Packets(last) : x.type = "PUBCOMP"
              /\ UpdateInflight(state, inflight, last) \/ toBroker' = toBroker \o last
        BY <1>0, <2>5, PubrelHandled
    <3>2. CASE UpdateInflight(state, inflight, last)
        BY <1>0, <3>1, <3>2, UpdatePublishes
    <3>3. CASE toBroker' = toBroker \o last
      <4>1. Packets(toBroker \o last) = Packets(toBroker) \cup Packets(last)
          BY <1>0, <3>1, PacketsConcat DEF TypeOK, WireTypeOK
      <4> QED
          BY <3>1, <3>3, <4>1 DEF Publishes
    <3> QED
        BY <3>1, <3>2, <3>3
  <2>6. CASE ConnackRefused
      BY <1>1, <2>6 DEF ConnackRefused
  <2> QED
      BY <1>6, <2>1, <2>2, <2>3, <2>4, <2>5, <2>6 DEF Handle, Handler, PubrelSteps
<1>7. ASSUME NEW f \in Pub, LostInConnack(f)
      PROVE  Publishes
  <2> DEFINE W == {p \in Resumable : p <= f}
  <2>1. toBroker' = toBroker \o ResumePackets(W) /\ W \in SUBSET Resumable
      BY <1>7 DEF LostInConnack, ConnackBroken
  <2> HIDE DEF W
  <2> QED
      BY <1>0, <2>1, ResumePublishes
<1>8. CASE BrokerHandles \/ Refused \/ \E i \in In, q \in InQos : BrokerSends(i, q)
  <2>1. toBroker' = toBroker \/ \E t : Take(t)
      BY <1>8 DEF BrokerHandles, Refused, BrokerSends, BrokerAccept, BrokerRefuse, BrokerReceives,
                  BrokerPublished, BrokerReleased, BrokerAck, BrokerAcked, BrokerPublish
  <2> QED
      BY <1>0, <2>1, NoneWritten
<1>9. CASE AppConsume \/ BeginReconnect \/ Open \/ BrokerCloses \/ Lost \/ LostEarly \/ NoRoute \/ UNCHANGED vars
    BY <1>1, <1>9 DEF AppConsume, ConsumeMid, BeginReconnect, ReconnectReset, Open, SocketOpened, BrokerCloses,
                      Lost, LostEarly, NoRoute, SocketFailed, Break, vars, wireVars
<1> QED
    BY <1>2, <1>4, <1>5, <1>6, <1>7, <1>8, <1>9 DEF Next, AnyFault

-----------------------------------------------------------------------------
(* What a step passes on *)

PassedOn(p) ==
    /\ bUp
    /\ UNCHANGED clientVars
    /\ state[p] = WaitState(qos[p])
    /\ delivered' = [delivered EXCEPT ![p] = @ + 1]
    /\ qos[p] = 2 => mid[p] \notin bRecv /\ bRecv' = bRecv \cup {mid[p]}
    /\ qos[p] # 2 => bRecv' = bRecv
    /\ Packets(toBroker') \subseteq Packets(toBroker)
    /\ \A x \in Packets(toBroker') : x.type = "PUBLISH" => x.msg # p

(* The broker forgets ids with a clean session, or when it is told to for a *)
(* message that waits for PUBCOMP.                                          *)
Forgets ==
    \/ BrokerAccept /\ Head(toBroker).clean
    \/ \E p \in Pub : state[p] = "wait_for_pubcomp" /\ bRecv' = bRecv \ {mid[p]}

LEMMA StepPassesOn ==
    ASSUME SlotInv, OutInv, [Next]_vars
    PROVE  \/ delivered' = delivered /\ (bRecv \subseteq bRecv' \/ Forgets)
           \/ \E p \in Pub : PassedOn(p)
<1>1. CASE UNCHANGED <<delivered, bRecv>>
    BY <1>1
<1>2. CASE BrokerHandles
  <2>1. UNCHANGED clientVars
      BY <1>2 DEF BrokerHandles
  <2>2. CASE BrokerPublished
    <3> DEFINE x == Head(toBroker)
    <3>1. /\ x \in ToBrokerPacket /\ x.type = "PUBLISH" /\ x \in Asks /\ FitsAsk(x)
          /\ Asks' \subseteq Asks /\ \A y \in Asks' : y.mid # x.mid
      <4>1. x \in ToBrokerPacket /\ x.type = "PUBLISH" /\ x \in Asks
            /\ Asks' \subseteq Asks /\ \A y \in Asks' : y.mid # x.mid
          BY <2>2, Taken, TakeType DEF BrokerPublished, Asking, SlotInv, TypeOK
      <4> QED
          BY <4>1 DEF OutInv, OutFits
    <3>2. x.msg \in Pub /\ x.qos \in 1..2 /\ mid[x.msg] = x.mid /\ qos[x.msg] = x.qos
          /\ state[x.msg] = WaitState(x.qos)
        BY <3>1, FromClientFields DEF FitsAsk
    <3>3. Packets(toBroker') \subseteq Packets(toBroker)
        BY <2>2, HeadTaken DEF BrokerPublished, SlotInv
    <3>4. \A y \in Packets(toBroker') : y.type = "PUBLISH" => y.msg # x.msg
      <4> SUFFICES ASSUME NEW y \in Packets(toBroker'), y.type = "PUBLISH", y.msg = x.msg PROVE FALSE
          OBVIOUS
      <4>1. y \in Asks' /\ y \in Asks
          BY <3>1 DEF Asks, Asking
      <4>2. FitsAsk(y)
          BY <4>1 DEF OutInv, OutFits
      <4>3. y.mid = x.mid
          BY <3>2, <4>2 DEF FitsAsk
      <4> QED
          BY <3>1, <4>1, <4>3
    <3>5. bUp
        BY <2>2 DEF BrokerPublished
    <3>6. \/ x.qos = 1 /\ delivered' = [delivered EXCEPT ![x.msg] = @ + 1] /\ bRecv' = bRecv
          \/ /\ x.qos = 2 /\ bRecv' = bRecv \cup {x.mid}
             /\ delivered' = IF x.mid \in bRecv THEN delivered ELSE [delivered EXCEPT ![x.msg] = @ + 1]
        BY <2>2 DEF BrokerPublished
    <3> QED
        BY <2>1, <3>2, <3>3, <3>4, <3>5, <3>6 DEF PassedOn
  <2>3. CASE BrokerReleased
    <3> DEFINE x == Head(toBroker)
    <3>1. x.type = "PUBREL" /\ FitsAsk(x)
      <4>1. x.type = "PUBREL" /\ x \in Asks
          BY <2>3, Taken, TakeType DEF BrokerReleased, Asking, SlotInv, TypeOK
      <4> QED
          BY <4>1 DEF OutInv, OutFits
    <3>2. PICK p \in Pub : mid[p] = x.mid /\ state[p] = "wait_for_pubcomp"
        BY <3>1 DEF FitsAsk, Awaits
    <3> QED
        BY <2>3, <3>2 DEF BrokerReleased, Forgets
  <2>4. CASE BrokerAccept
      BY <1>1, <2>4 DEF BrokerAccept, Forgets
  <2> QED
      BY <1>1, <1>2, <2>2, <2>3, <2>4 DEF BrokerHandles, BrokerReceives, BrokerAck, BrokerAcked
<1> QED
    BY <1>1, <1>2 DEF Next, AnyFault, vars, AppPublish, AppConsume, AppAck, BeginReconnect, Open, EndReconnect,
         Handle, BrokerSends, BrokerPublish, BrokerCloses, Lost, LostEarly, NoRoute, Refused, BrokerRefuse,
         LostInConnack, brokerVars

-----------------------------------------------------------------------------
(* The state of a message fits its QoS *)

StoreQos ==
    \A p \in Pub :
        /\ state[p] = "wait_for_puback" => qos[p] = 1
        /\ state[p] \in {"wait_for_pubrec", "wait_for_pubcomp", "resend_pubrel"} => qos[p] = 2

LEMMA StoreQosInvariant == Spec => []StoreQos
<1>1. Init => StoreQos
    BY DEF Init, ClientInit, StoreQos
<1>2. SlotInv /\ OutInv /\ StoreQos /\ [Next]_vars => StoreQos'
  <2> SUFFICES ASSUME SlotInv, OutInv, StoreQos, [Next]_vars, NEW p \in Pub
               PROVE  /\ state'[p] = "wait_for_puback" => qos'[p] = 1
                      /\ state'[p] \in {"wait_for_pubrec", "wait_for_pubcomp", "resend_pubrel"} => qos'[p] = 2
      BY DEF StoreQos
  <2>1. qos[p] \in 1..2 /\ qos'[p] \in 1..2
    <3>1. TypeOK /\ TypeOK'
        BY NextType DEF SlotInv
    <3> QED
        BY <3>1 DEF TypeOK, ClientTypeOK
  <2>2. Moves(p)
      BY StoreMoves
  <2> QED
      BY <2>1, <2>2 DEF StoreQos, Moves, Kept, Made, Progress, IsReset, Fixed, WaitState, ResetState
<1> QED
    BY <1>1, <1>2, SlotInvariant, OutInvariant, PTL DEF Spec

-----------------------------------------------------------------------------
(* A message that was never sent was not passed on *)

Fresh == \A p \in Pub : state[p] \in {"new", "rejected", "queued"} => delivered[p] = 0

LEMMA FreshInvariant == Spec => []Fresh
<1>1. Init => Fresh
    BY DEF Init, BrokerInit, Fresh
<1>2. SlotInv /\ OutInv /\ Fresh /\ [Next]_vars => Fresh'
  <2> SUFFICES ASSUME SlotInv, OutInv, Fresh, [Next]_vars, NEW p \in Pub, state'[p] \in {"new", "rejected", "queued"}
               PROVE  delivered'[p] = 0
      BY DEF Fresh
  <2>1. Moves(p)
      BY StoreMoves
  <2>2. state[p] \in {"new", "rejected", "queued"}
      BY <2>1 DEF Moves, Kept, Made, Progress, IsReset, ResetState, WaitState
  <2>3. ASSUME NEW r \in Pub, PassedOn(r)
        PROVE  delivered'[p] = delivered[p]
    <3>1. state[r] \in Waiting /\ delivered' = [delivered EXCEPT ![r] = @ + 1]
        BY <2>3, StateSets DEF PassedOn
    <3>2. delivered \in [Pub -> Nat] /\ p # r
        BY <2>2, <3>1 DEF SlotInv, TypeOK, BrokerTypeOK, Waiting
    <3> QED
        BY <3>1, <3>2
  <2> QED
      BY <2>2, <2>3, StepPassesOn DEF Fresh
<1> QED
    BY <1>1, <1>2, SlotInvariant, OutInvariant, PTL DEF Spec

-----------------------------------------------------------------------------
(* Repetitions are marked *)

(* A message is reset at PUBREL only when the next CONNACK sends that       *)
(* PUBREL: reconnect() would turn it into a first transmission otherwise.   *)
NoSecondReset == \A p \in Pub : state[p] = "resend_pubrel" => conn # "down"

DupInv ==
    /\ RetransmissionsMarked
    /\ \A p \in Pub : state[p] = "publish" /\ delivered[p] > 0 => dup[p]

LEMMA MarkedIs ==
    RetransmissionsMarked <=>
        \A x \in Packets(toBroker) : x.type = "PUBLISH" /\ ~x.dup => delivered[x.msg] = 0
BY DEF RetransmissionsMarked, Packets

LEMMA DupNext ==
    ASSUME SlotInv, OutInv, StoreQos, Fresh, NoSecondReset, DupInv, [Next]_vars
    PROVE  DupInv'
<1>0. TypeOK /\ delivered \in [Pub -> Nat] /\ qos \in [Pub -> 1..2]
    BY DEF SlotInv, TypeOK, BrokerTypeOK, ClientTypeOK
<1>1. \A x \in Packets(toBroker) : x.type = "PUBLISH" /\ ~x.dup => delivered[x.msg] = 0
    BY MarkedIs DEF DupInv
<1>2. \A p \in Pub : Moves(p)
    BY StoreMoves
<1>3. CASE delivered' = delivered
  <2>1. \A x \in Packets(toBroker') : x.type = "PUBLISH" /\ ~x.dup => delivered[x.msg] = 0
    <3>1. \A x : Writable(x) /\ ~x.dup => delivered[x.msg] = 0
      <4> SUFFICES ASSUME NEW x, Writable(x), ~x.dup PROVE delivered[x.msg] = 0
          OBVIOUS
      <4>1. PICK p \in Pub : p = x.msg
          BY DEF Writable
      <4>2. delivered[p] \in Nat
          BY <1>0
      <4>3. CASE state[p] = "publish" /\ ~dup[p]
          BY <4>1, <4>2, <4>3 DEF DupInv
      <4> QED
          BY <4>1, <4>3 DEF Fresh, Writable
    <3> QED
        BY <1>1, <3>1, StepPublishes DEF Publishes
  <2>2. RetransmissionsMarked'
      BY <1>3, <2>1 DEF RetransmissionsMarked, Packets
  <2>3. ASSUME NEW p \in Pub, state'[p] = "publish", delivered[p] > 0
        PROVE  dup'[p]
    <3>1. state[p] \notin {"new", "rejected", "queued"}
        BY <1>0, <2>3 DEF Fresh
    <3>2. CASE IsReset(p)
      <4>1. state[p] \in Waiting \cup {"publish"}
          BY <3>1, <3>2 DEF IsReset, NoSecondReset, Stored
      <4>2. qos[p] \in 1..2 /\ (state[p] = "publish" => dup[p])
          BY <1>0, <2>3 DEF DupInv
      <4>3. CASE qos[p] = 1
          BY <2>3, <3>2, <4>1, <4>2, <4>3 DEF IsReset, ResetDup, Waiting, StoreQos
      <4>4. CASE qos[p] = 2
          BY <2>3, <3>2, <4>1, <4>2, <4>4 DEF IsReset, ResetDup, ResetState, Waiting, StoreQos
      <4> QED
          BY <4>2, <4>3, <4>4
    <3>3. CASE Kept(p)
        BY <2>3, <3>3 DEF Kept, DupInv
    <3>4. CASE Made(p)
        BY <3>1, <3>4 DEF Made
    <3>5. CASE Progress(p)
        BY <2>3, <3>5 DEF Progress, WaitState
    <3> QED
        BY <1>2, <3>2, <3>3, <3>4, <3>5 DEF Moves
  <2> QED
      BY <1>3, <2>2, <2>3 DEF DupInv
<1>4. ASSUME NEW p \in Pub, PassedOn(p)
      PROVE  DupInv'
  <2>1. state[p] \in Waiting /\ UNCHANGED <<state, dup>>
      BY <1>4, StateSets DEF PassedOn, clientVars, outVars
  <2>2. \A r \in Pub : r # p => delivered'[r] = delivered[r]
      BY <1>0, <1>4 DEF PassedOn
  <2>3. \A x \in Packets(toBroker') : x.type = "PUBLISH" /\ ~x.dup => delivered'[x.msg] = 0
    <3> SUFFICES ASSUME NEW x \in Packets(toBroker'), x.type = "PUBLISH", ~x.dup PROVE delivered'[x.msg] = 0
        OBVIOUS
    <3>1. x \in Packets(toBroker) /\ x.msg # p
        BY <1>4 DEF PassedOn
    <3>2. x.msg \in Pub
      <4>1. x \in ToBrokerPacket
          BY <1>0, <3>1 DEF TypeOK, WireTypeOK, Packets
      <4> QED
          BY <4>1, FromClientFields
    <3> QED
        BY <1>1, <2>2, <3>1, <3>2
  <2>4. RetransmissionsMarked'
      BY <2>3 DEF RetransmissionsMarked, Packets
  <2>5. \A r \in Pub : state[r] = "publish" => r # p
      BY <2>1 DEF Waiting
  <2> QED
      BY <2>1, <2>2, <2>4, <2>5 DEF DupInv
<1> QED
    BY <1>3, <1>4, StepPassesOn

(* The connection only breaks while it is up, and nothing is written before *)
(* CONNECT: every attempt to connect succeeds.                              *)
Steady == Faults \subseteq {"lost"} /\ "opened" \notin PublishWhen /\ ManualAck = FALSE

SteadyInv ==
    /\ unacked = {}
    /\ conn \in {"opening", "opened"} => toBroker = <<>>
    /\ conn = "connecting" /\ ~bUp => toBroker # <<>> /\ Head(toBroker).type = "CONNECT"
    /\ \A x \in Packets(toClient) : x.type = "CONNACK" => x.ok
    /\ \A p \in Pub : state[p] = "resend_pubrel" => conn \in {"opening", "opened", "connecting"}

(* What writes to the end of toBroker leaves a CONNECT at its head.         *)
LEMMA ConnectStays ==
    ASSUME TypeOK, conn \in {"opening", "opened"} => UNCHANGED toBroker,
           UNCHANGED toBroker \/ \E x \in ToBrokerPacket : toBroker' = Append(toBroker, x),
           SteadyInv, UNCHANGED <<conn, bUp>>
    PROVE  /\ conn' \in {"opening", "opened"} => toBroker' = <<>>
           /\ conn' = "connecting" /\ ~bUp' => toBroker' # <<>> /\ Head(toBroker').type = "CONNECT"
<1>1. toBroker \in Seq(ToBrokerPacket)
    BY DEF TypeOK, WireTypeOK
<1>2. ASSUME NEW x \in ToBrokerPacket, toBroker # <<>>
      PROVE  Append(toBroker, x) # <<>> /\ Head(Append(toBroker, x)) = Head(toBroker)
    BY <1>1, <1>2, HeadStays
<1> QED
    BY <1>2 DEF SteadyInv

LEMMA SteadyNext ==
    ASSUME Steady, SlotInv, OutInv, ResumeReachesAll, Setup, First, SteadyInv, [Next]_vars
    PROVE  SteadyInv'
<1>0. TypeOK /\ (\A q \in OutQos : q \in 1..2)
    BY SessionAssumption DEF SlotInv
<1>1. \A p \in Pub : Moves(p)
    BY StoreMoves
<1>2. \A p \in Pub : state'[p] = "resend_pubrel" => state[p] = "resend_pubrel" \/ conn' = "opening"
    BY <1>1 DEF Moves, Kept, Made, Progress, IsReset, WaitState
<1>3. ASSUME NEW q \in OutQos, AppPublish(q)
      PROVE  SteadyInv'
  <2>1. UNCHANGED <<conn, unacked, toClient, bUp>> /\ conn # "opened"
      BY <1>3 DEF AppPublish, PublishCall, PublishRejected, PublishSent, PublishOffline, PublishQueued,
                  Call, inVars, brokerVars, Steady
  <2>2. UNCHANGED toBroker \/ PublishSent(q)
      BY <1>3 DEF AppPublish, PublishCall, PublishRejected, PublishOffline, PublishQueued
  <2>3. PublishSent(q) => conn # "opening" /\ \E x \in ToBrokerPacket : toBroker' = Append(toBroker, x)
    <3> SUFFICES ASSUME PublishSent(q)
                 PROVE  conn # "opening" /\ \E x \in ToBrokerPacket : toBroker' = Append(toBroker, x)
        OBVIOUS
    <3>1. NextMid \in Mid /\ nextPub \in Pub
        BY <1>0, WireAssumption DEF PublishSent, Call, TypeOK, ClientTypeOK, NextMid, Mid
    <3>2. Publish(nextPub, NextMid, q, FALSE) \in ToBrokerPacket
        BY <1>0, <3>1, ToBrokerTypes
    <3> QED
        BY <3>2 DEF PublishSent, HasSocket
  <2>4. /\ conn' \in {"opening", "opened"} => toBroker' = <<>>
        /\ conn' = "connecting" /\ ~bUp' => toBroker' # <<>> /\ Head(toBroker').type = "CONNECT"
      BY <1>0, <2>1, <2>2, <2>3, ConnectStays
  <2> QED
      BY <1>2, <2>1, <2>4 DEF SteadyInv
<1>4. CASE AppConsume \/ UNCHANGED vars
    BY <1>4 DEF AppConsume, ConsumeMid, SteadyInv, vars, clientVars, outVars, inVars, wireVars, brokerVars
<1>5. ASSUME NEW i \in In, NEW q \in 1..2, AppAck(i, q)
      PROVE  SteadyInv'
    BY <1>5 DEF AppAck, Ack, SteadyInv
<1>6. CASE BeginReconnect
  <2>1. conn' = "opening" /\ toBroker' = <<>> /\ toClient' = <<>> /\ unacked' = unacked
      BY <1>6 DEF BeginReconnect, ReconnectReset
  <2> QED
      BY <2>1, PacketsEmpty DEF SteadyInv
<1>7. CASE Open
    BY <1>7 DEF Open, SocketOpened, SteadyInv, outVars, inVars, wireVars, brokerVars
<1>8. CASE EndReconnect
  <2>1. PICK x \in ToBrokerPacket : x = Connect(CleanSession) /\ x.type = "CONNECT"
      BY ToBrokerTypes DEF CleanSession, Connect
  <2>2. toBroker = <<>> /\ toBroker' = Append(toBroker, x) /\ conn' = "connecting"
        /\ UNCHANGED <<unacked, toClient, state>>
      BY <1>8, <2>1 DEF EndReconnect, SendConnect, SteadyInv, inVars, outVars
  <2>3. toBroker' # <<>> /\ Head(toBroker') = x
      BY <2>2
  <2> QED
      BY <2>1, <2>2, <2>3 DEF SteadyInv
<1>9. CASE Handle
  <2>1. Reads /\ unacked' = unacked /\ bUp' = bUp
      BY <1>0, <1>9, ReadsOnly DEF Handle, Handler, ConnackAccepted, ConnackRefused, HandleAck, HandlePubrec,
             HandlePublish, HandlePubrel, FreeSlot, HandOnSlot, Deliver, inVars, wireVars, brokerVars, Steady
  <2>2. CASE ConnackAccepted
    <3>1. conn' = "up" /\ \A p \in Pub : state'[p] = IF p \in Resumable THEN ResumedState(p) ELSE state[p]
        BY <2>2 DEF ConnackAccepted, Resume
    <3>2. ASSUME NEW p \in Pub, state[p] = "resend_pubrel"
          PROVE  p \in Resumable
      <4> SUFFICES ASSUME NEW q \in QueuedPubs PROVE p < q
          BY <3>2 DEF Resumable
      <4>1. q \in Pub /\ state[q] = "queued" /\ p \in Live
          BY <3>2, StateSets DEF QueuedPubs, Live
      <4>2. ~(q < p)
          BY <3>2, <4>1 DEF ResumeReachesAll
      <4> QED
          BY <3>2, <4>1, <4>2 DEF Pub
    <3>3. \A p \in Pub : state'[p] # "resend_pubrel"
        BY <3>1, <3>2 DEF ResumedState, WaitState
    <3> QED
        BY <2>1, <3>1, <3>3 DEF SteadyInv, Reads
  <2>3. CASE ConnackRefused
    <3>1. Head(toClient) \in Packets(toClient) /\ Head(toClient).type = "CONNACK" /\ ~Head(toClient).ok
        BY <1>0, <2>3, HeadReceived DEF ConnackRefused
    <3> QED
        BY <3>1 DEF SteadyInv
  <2>4. CASE ~ConnackAccepted /\ ~ConnackRefused
    <3>1. conn' = conn /\ (~Idle \/ \E t : Receive(t) /\ t # "CONNACK")
        BY <1>9, <2>4 DEF Handle, Handler, HandleAck, HandlePubrec, HandlePublish, HandlePubrel,
                          FreeSlot, HandOnSlot, Idle
    <3>2. conn = "up"
        BY <3>1 DEF First, Greeting, Receive, Arrives
    <3> QED
        BY <1>2, <2>1, <3>1, <3>2 DEF SteadyInv, Reads
  <2> QED
      BY <2>2, <2>3, <2>4
<1>10. CASE BrokerHandles \/ \E i \in In, q \in InQos : BrokerSends(i, q)
  <2>1. UNCHANGED clientVars
      BY <1>10 DEF BrokerHandles, BrokerSends
  <2>2. CASE BrokerAccept
    <3>1. BrokerReads /\ bUp' = TRUE
        BY <1>10, <2>2 DEF BrokerHandles, BrokerAccept, BrokerSends, BrokerPublish
    <3>2. \A x \in Packets(toClient') : x.type = "CONNACK" => x.ok
        BY <1>0, <2>2, BrokerConnack DEF SteadyInv
    <3> QED
        BY <2>1, <3>1, <3>2 DEF SteadyInv, clientVars, outVars, inVars, BrokerReads
  <2>3. CASE BrokerReceives \/ \E i \in In, q \in InQos : BrokerPublish(i, q)
    <3>1. \A x \in Packets(toClient') : x.type = "CONNACK" => x \in Packets(toClient)
        BY <1>0, <2>1, <2>3, BrokerKeepsConnack
    <3>2. bUp' = TRUE /\ conn \notin {"opening", "opened"}
      <4>1. bUp /\ bUp' = bUp
          BY <2>3 DEF BrokerReceives, BrokerPublished, BrokerReleased, BrokerAck, BrokerAcked, BrokerPublish
      <4>2. conn \in {"down", "connecting", "up"}
          BY <1>10 DEF BrokerHandles, BrokerReads, BrokerSends
      <4> QED
          BY <1>0, <4>1, <4>2 DEF TypeOK, BrokerTypeOK
    <3> QED
        BY <2>1, <3>1, <3>2 DEF SteadyInv, clientVars, outVars, inVars
  <2> QED
      BY <1>10, <2>2, <2>3 DEF BrokerHandles, BrokerSends
<1>11. CASE BrokerCloses
    BY <1>11 DEF BrokerCloses, SteadyInv
<1>12. CASE Lost
    BY <1>2, <1>12, PacketsEmpty DEF Lost, Break, SteadyInv, inVars, outVars
<1>13. CASE LostEarly \/ NoRoute \/ Refused \/ \E f \in Pub : LostInConnack(f)
    BY <1>13 DEF LostEarly, NoRoute, Refused, LostInConnack, Fault, Steady
<1> QED
    BY <1>3, <1>4, <1>5, <1>6, <1>7, <1>8, <1>9, <1>10, <1>11, <1>12, <1>13 DEF Next, AnyFault

LEMMA SteadyInvariant == Steady => (Spec => []SteadyInv)
<1> SUFFICES ASSUME Steady PROVE Spec => []SteadyInv
    OBVIOUS
<1>1. Init => SteadyInv
  <2>1. Init => unacked = {} /\ conn = "down" /\ toClient = <<>> /\ \A p \in Pub : state[p] = "new"
      BY DEF Init, ClientInit
  <2> QED
      BY <2>1, PacketsEmpty DEF SteadyInv
<1>2. SlotInv /\ OutInv /\ ResumeReachesAll /\ Setup /\ First /\ SteadyInv /\ [Next]_vars => SteadyInv'
    BY SteadyNext
<1> QED
    BY <1>1, <1>2, SlotInvariant, OutInvariant, NothingBehindQueued, SetupInvariant, FirstInvariant, PTL DEF Spec

(* No message of QoS 1 waits for PUBCOMP, and none is resumed at PUBREL     *)
(* while every session is a clean one.                                      *)
LEMMA OnlyQos1 ==
    ASSUME OutQos \subseteq {1}
    PROVE  Spec => [](\A p \in Pub : qos[p] = 1)
<1>1. Init => \A p \in Pub : qos[p] = 1
    BY DEF Init, ClientInit
<1>2. SlotInv /\ OutInv /\ (\A p \in Pub : qos[p] = 1) /\ [Next]_vars => (\A p \in Pub : qos[p] = 1)'
  <2> SUFFICES ASSUME SlotInv, OutInv, \A p \in Pub : qos[p] = 1, [Next]_vars, NEW p \in Pub
               PROVE  qos'[p] = 1
      OBVIOUS
  <2>1. Moves(p)
      BY StoreMoves
  <2> QED
      BY <2>1 DEF Moves, Kept, Made, Progress, IsReset, Fixed
<1> QED
    BY <1>1, <1>2, SlotInvariant, OutInvariant, PTL DEF Spec

LEMMA NeverResumed ==
    ASSUME CleanModes \subseteq {"always"}
    PROVE  Spec => []NoSecondReset
<1> DEFINE None == \A p \in Pub : state[p] # "resend_pubrel"
<1>1. Init => None
    BY DEF Init, ClientInit
<1>2. SlotInv /\ OutInv /\ None /\ [Next]_vars => None'
  <2> SUFFICES ASSUME SlotInv, OutInv, None, [Next]_vars, NEW p \in Pub
               PROVE  state'[p] # "resend_pubrel"
      OBVIOUS
  <2>1. Moves(p)
      BY StoreMoves
  <2>2. CleanSession
      BY DEF SlotInv, TypeOK, ClientTypeOK, CleanSession
  <2> QED
      BY <2>1, <2>2 DEF Moves, Kept, Made, Progress, IsReset, ResetState, WaitState
<1>3. None => NoSecondReset
    BY DEF NoSecondReset
<1> HIDE DEF None
<1> QED
    BY <1>1, <1>2, <1>3, SlotInvariant, OutInvariant, PTL DEF Spec

OneReset == Steady \/ CleanModes \subseteq {"always"} \/ OutQos \subseteq {1}

LEMMA ResetOnce == OneReset => (Spec => []NoSecondReset)
<1>1. CASE Steady
  <2>1. SteadyInv => NoSecondReset
      BY DEF SteadyInv, NoSecondReset
  <2> QED
      BY <1>1, <2>1, SteadyInvariant, PTL
<1>2. CASE CleanModes \subseteq {"always"}
    BY <1>2, NeverResumed
<1>3. CASE OutQos \subseteq {1}
  <2>1. StoreQos /\ (\A p \in Pub : qos[p] = 1) => NoSecondReset
      BY DEF StoreQos, NoSecondReset
  <2>2. Spec => [](\A p \in Pub : qos[p] = 1)
      BY <1>3, OnlyQos1
  <2> QED
      BY <2>1, <2>2, StoreQosInvariant, PTL
<1> QED
    BY <1>1, <1>2, <1>3 DEF OneReset

LEMMA DupInvariant == OneReset => (Spec => []DupInv)
<1> SUFFICES ASSUME OneReset PROVE Spec => []DupInv
    OBVIOUS
<1>1. Init => DupInv
  <2>1. Init => toBroker = <<>> /\ \A p \in Pub : delivered[p] = 0 /\ state[p] = "new"
      BY DEF Init, ClientInit, BrokerInit
  <2> QED
      BY <2>1, PacketsEmpty, MarkedIs DEF DupInv
<1>2. SlotInv /\ OutInv /\ StoreQos /\ Fresh /\ NoSecondReset /\ DupInv /\ [Next]_vars => DupInv'
    BY DupNext
<1>3. Spec => []NoSecondReset
    BY ResetOnce
<1> QED
    BY <1>1, <1>2, <1>3, SlotInvariant, OutInvariant, StoreQosInvariant, FreshInvariant, PTL DEF Spec

(* A PUBLISH without the DUP flag is the first transmission of its message. *)
(* The flag is lost when a second reconnect() resets a message that was     *)
(* resumed at PUBREL and whose PUBREL was never sent again: that takes an   *)
(* attempt to connect that fails.                                           *)
THEOREM RepetitionsAreMarked == OneReset => (Spec => []RetransmissionsMarked)
<1>1. DupInv => RetransmissionsMarked
    BY DEF DupInv
<1> QED
    BY <1>1, DupInvariant, PTL

-----------------------------------------------------------------------------
(* Exactly once *)

Undelivered == \A p \in Pub : delivered[p] = 0

(* With "first" a clean session is asked for before anything was passed on. *)
CleanFirst ==
    /\ firstConnect /\ conn \in {"down", "opening", "opened"} => Undelivered
    /\ \A x \in Packets(toBroker) : x.type = "CONNECT" /\ x.clean /\ cleanMode # "always" => Undelivered

LEMMA CleanFirstNext ==
    ASSUME Steady, SlotInv, OutInv, Setup, First, SteadyInv, CleanFirst, [Next]_vars
    PROVE  CleanFirst'
<1>0. TypeOK /\ (\A q \in OutQos : q \in 1..2) /\ cleanMode' = cleanMode
    BY SessionAssumption
       DEF SlotInv, Next, vars, others, AppPublish, AppConsume, AppAck, BeginReconnect, Open, EndReconnect,
           Handle, BrokerHandles, BrokerSends, BrokerCloses, AnyFault, Lost, LostEarly, NoRoute, Refused,
           LostInConnack, Fault
<1>1. ASSUME delivered' = delivered, firstConnect' => firstConnect, conn' = conn \/ (conn = "down" /\ conn' = "opening")
                \/ (conn = "opening" /\ conn' = "opened") \/ ~firstConnect',
             \A x \in Packets(toBroker') : x.type = "CONNECT" => x \in Packets(toBroker)
      PROVE  CleanFirst'
    BY <1>0, <1>1 DEF CleanFirst, Undelivered
<1>2. ASSUME NEW N, Writes(N), \A x \in N : x.type # "CONNECT"
      PROVE  \A x \in Packets(toBroker') : x.type = "CONNECT" => x \in Packets(toBroker)
    BY <1>2 DEF Writes, Asking
<1>3. ASSUME NEW q \in OutQos, AppPublish(q)
      PROVE  CleanFirst'
  <2>1. Writes({}) /\ UNCHANGED <<conn, firstConnect, delivered>>
      BY <1>0, <1>3, PublishWrites DEF AppPublish, PublishCall, PublishRejected, PublishSent, PublishOffline,
                                       PublishQueued, Call, brokerVars
  <2> QED
      BY <1>1, <1>2, <2>1
<1>4. CASE AppConsume \/ UNCHANGED vars \/ BeginReconnect \/ Open
    BY <1>1, <1>4, PacketsEmpty DEF AppConsume, ConsumeMid, BeginReconnect, ReconnectReset, Open, SocketOpened,
                      vars, clientVars, outVars, inVars, wireVars, brokerVars
<1>5. ASSUME NEW i \in In, NEW q \in 1..2, AppAck(i, q)
      PROVE  CleanFirst'
    BY <1>5 DEF AppAck, Ack, SteadyInv
<1>6. CASE EndReconnect
  <2>1. PICK x \in ToBrokerPacket : x = Connect(CleanSession)
      BY ToBrokerTypes DEF CleanSession
  <2>2. x.clean = CleanSession
      BY <2>1 DEF Connect
  <2>3. toBroker \in Seq(ToBrokerPacket)
      BY <1>0 DEF TypeOK, WireTypeOK
  <2>4. Packets(Append(toBroker, x)) = Packets(toBroker) \cup {x}
      BY <2>1, <2>3, PacketsAppend
  <2>5. toBroker' = Append(toBroker, x) /\ conn' = "connecting" /\ UNCHANGED <<firstConnect, delivered>> /\ conn = "opened"
      BY <1>6, <2>1 DEF EndReconnect, SendConnect
  <2>6. x.clean /\ cleanMode # "always" => Undelivered
      BY <2>2, <2>5 DEF CleanSession, CleanFirst
  <2> QED
      BY <1>0, <2>4, <2>5, <2>6 DEF CleanFirst, Undelivered
<1>7. CASE Handle
  <2>1. delivered' = delivered
      BY <1>7 DEF Handle, brokerVars
  <2>2. CASE ConnackAccepted \/ ConnackRefused
    <3>1. Writes({}) /\ firstConnect' = FALSE
        BY <1>0, <2>2, ConnackWrites DEF ConnackAccepted, ConnackRefused
    <3> QED
        BY <1>1, <1>2, <2>1, <3>1
  <2>3. CASE ~ConnackAccepted /\ ~ConnackRefused
    <3>1. /\ conn' = conn /\ firstConnect' = firstConnect
          /\ ~Idle \/ \E t : Receive(t) /\ t # "CONNACK"
        BY <1>7, <2>3 DEF Handle, Handler, HandleAck, HandlePubrec, HandlePublish, HandlePubrel,
                          FreeSlot, HandOnSlot, Idle
    <3>2. conn = "up" /\ ~firstConnect
        BY <3>1 DEF First, Greeting, Receive, Arrives
    <3>3. \A x \in Packets(toBroker') : x.type = "CONNECT" => x \in Packets(toBroker)
      <4>1. CASE HandlePubrec \/ HandleAck("PUBACK") \/ HandleAck("PUBCOMP")
        <5>1. Writes({})
            BY <1>0, <4>1, AckWrites
        <5> QED
            BY <1>2, <5>1
      <4>2. CASE HandlePublish
        <5> DEFINE i == Head(toClient).mid
        <5>1. i \in In
          <6>1. toClient \in Seq(ToClientPacket) /\ toClient # <<>> /\ Head(toClient).type = "PUBLISH"
              BY <1>0, <4>2, HeadReceived DEF HandlePublish
          <6> QED
              BY <6>1, FromBrokerFields
        <5>2. PICK t \in {"PUBACK", "PUBREC"} : toBroker' = toBroker \/ toBroker' = Append(toBroker, WithMid(t, i))
            BY <4>2 DEF HandlePublish
        <5>3. PICK x \in ToBrokerPacket : x = WithMid(t, i) /\ x.type \in Answering
            BY <5>1, <5>2, ToBrokerTypes DEF WithMid, Answering
        <5>4. Writes({x})
            BY <1>0, <5>2, <5>3, NothingWritten, AppendWritten DEF TypeOK, Answering, Writes
        <5> QED
            BY <1>2, <5>3, <5>4 DEF Answering
      <4>3. CASE PubrelSteps
        <5>1. PICK last \in Seq(ToBrokerPacket) :
                  Writes(Packets(last)) /\ \A x \in Packets(last) : x.type = "PUBCOMP"
            BY <1>0, <4>3, PubrelWrites
        <5> QED
            BY <1>2, <5>1
      <4> QED
          BY <1>7, <2>3, <4>1, <4>2, <4>3 DEF Handle, Handler, PubrelSteps
    <3> QED
        BY <1>1, <2>1, <3>1, <3>3
  <2> QED
      BY <2>2, <2>3
<1>8. CASE BrokerHandles \/ \E i \in In, q \in InQos : BrokerSends(i, q)
  <2>1. UNCHANGED clientVars
      BY <1>8 DEF BrokerHandles, BrokerSends
  <2>2. Packets(toBroker') \subseteq Packets(toBroker)
      BY <1>0, <1>8, HeadTaken DEF BrokerHandles, BrokerSends, BrokerAccept, BrokerReceives, BrokerPublished,
                  BrokerReleased, BrokerAck, BrokerAcked, BrokerPublish
  <2>3. CASE delivered' = delivered
      BY <1>1, <2>1, <2>2, <2>3 DEF clientVars
  <2>4. CASE delivered' # delivered
    <3>1. BrokerPublished /\ BrokerReads
        BY <1>8, <2>4 DEF BrokerHandles, BrokerSends, BrokerAccept, BrokerReceives, BrokerReleased, BrokerAck,
                          BrokerAcked, BrokerPublish
    <3>2. bUp /\ toBroker # <<>>
        BY <3>1 DEF BrokerPublished, Take, Arrives
    <3>3. ~(firstConnect /\ conn \in {"down", "opening", "opened"})
        BY <3>1, <3>2 DEF BrokerReads, First
    <3>4. \A x \in Packets(toBroker) : x.type # "CONNECT"
        BY <3>2 DEF Setup
    <3> QED
        BY <2>1, <2>2, <3>3, <3>4 DEF CleanFirst, clientVars
  <2> QED
      BY <2>3, <2>4
<1>9. CASE BrokerCloses
    BY <1>9 DEF BrokerCloses, SteadyInv
<1>10. CASE Lost
    BY <1>1, <1>10, PacketsEmpty DEF Lost, Break, First, brokerVars
<1>11. CASE LostEarly \/ NoRoute \/ Refused \/ \E f \in Pub : LostInConnack(f)
    BY <1>11 DEF LostEarly, NoRoute, Refused, LostInConnack, Fault, Steady
<1> QED
    BY <1>3, <1>4, <1>5, <1>6, <1>7, <1>8, <1>9, <1>10, <1>11 DEF Next, AnyFault

LEMMA CleanFirstInvariant == Steady => (Spec => []CleanFirst)
<1> SUFFICES ASSUME Steady PROVE Spec => []CleanFirst
    OBVIOUS
<1>1. Init => CleanFirst
  <2>1. Init => toBroker = <<>> /\ \A p \in Pub : delivered[p] = 0
      BY DEF Init, BrokerInit
  <2> QED
      BY <2>1, PacketsEmpty DEF CleanFirst, Undelivered
<1>2. SlotInv /\ OutInv /\ Setup /\ First /\ SteadyInv /\ CleanFirst /\ [Next]_vars => CleanFirst'
    BY CleanFirstNext
<1> QED
    BY <1>1, <1>2, SlotInvariant, OutInvariant, SteadyInvariant, SetupInvariant, FirstInvariant, PTL DEF Spec

(* A QoS 2 message that was passed on and may be sent again is remembered   *)
(* by the broker.                                                           *)
ExInv ==
    \A p \in Pub : qos[p] = 2 /\ delivered[p] > 0 =>
        /\ delivered[p] = 1
        /\ state[p] \in {"publish", "wait_for_pubrec"} => mid[p] \in bRecv

LEMMA ExNext ==
    ASSUME SlotInv, OutInv, StoreQos, Fresh, NoSecondReset, First, CleanFirst, "always" \notin CleanModes,
           ExInv, [Next]_vars
    PROVE  ExInv'
<1>0. TypeOK /\ delivered \in [Pub -> Nat] /\ qos \in [Pub -> 1..2] /\ cleanMode # "always"
    BY DEF SlotInv, TypeOK, BrokerTypeOK, ClientTypeOK
<1>1. CASE delivered' = delivered /\ (bRecv \subseteq bRecv' \/ Forgets)
  <2> SUFFICES ASSUME NEW p \in Pub, qos'[p] = 2, delivered[p] > 0
               PROVE  /\ delivered[p] = 1
                      /\ state'[p] \in {"publish", "wait_for_pubrec"} => mid'[p] \in bRecv'
      BY <1>1 DEF ExInv
  <2>1. state[p] \notin {"new", "rejected", "queued"} /\ ~Undelivered
      BY <1>0 DEF Fresh, Undelivered
  <2>2. Moves(p) /\ ~Made(p)
      BY <2>1, StoreMoves DEF Made
  <2>3. Fixed(p) /\ qos[p] = 2 /\ mid'[p] = mid[p]
      BY <2>2 DEF Moves, Kept, Progress, IsReset, Fixed
  <2>4. delivered[p] = 1
      BY <2>3 DEF ExInv
  <2>5. ASSUME state'[p] \in {"publish", "wait_for_pubrec"}
        PROVE  state[p] \in {"publish", "wait_for_pubrec"}
    <3>1. CASE Kept(p)
        BY <2>5, <3>1 DEF Kept
    <3>2. CASE Progress(p)
        BY <2>1, <2>5, <3>2 DEF Progress, WaitState
    <3>3. CASE IsReset(p)
      <4>1. ~CleanSession
          BY <1>0, <2>1, <3>3 DEF IsReset, CleanSession, CleanFirst
      <4>2. state[p] # "wait_for_pubcomp"
          BY <2>3, <2>5, <3>3, <4>1 DEF IsReset, ResetState
      <4>3. state[p] # "wait_for_puback" /\ state[p] # "resend_pubrel"
          BY <2>3, <3>3 DEF IsReset, StoreQos, NoSecondReset
      <4> QED
          BY <2>1, <3>3, <4>2, <4>3 DEF IsReset, Stored, Waiting
    <3> QED
        BY <2>2, <3>1, <3>2, <3>3 DEF Moves
  <2>6. ASSUME state'[p] \in {"publish", "wait_for_pubrec"}
        PROVE  mid[p] \in bRecv'
    <3>1. mid[p] \in bRecv
        BY <2>3, <2>5, <2>6 DEF ExInv
    <3>2. ~(BrokerAccept /\ Head(toBroker).clean)
      <4> SUFFICES ASSUME BrokerAccept, Head(toBroker).clean PROVE FALSE
          OBVIOUS
      <4>1. Head(toBroker) \in Packets(toBroker) /\ Head(toBroker).type = "CONNECT"
          BY <1>0, BrokerConnack
      <4> QED
          BY <1>0, <2>1, <4>1 DEF CleanFirst
    <3>3. ASSUME NEW r \in Pub, state[r] = "wait_for_pubcomp", bRecv' = bRecv \ {mid[r]}
          PROVE  mid[r] # mid[p]
      <4>1. r \in Live /\ p \in Live /\ r # p
          BY <2>5, <2>6, <3>3, StateSets DEF Live, Stored, Waiting
      <4> QED
          BY <4>1 DEF SlotInv, UniqueMids
    <3> QED
        BY <1>1, <3>1, <3>2, <3>3 DEF Forgets
  <2> QED
      BY <2>3, <2>4, <2>6
<1>2. ASSUME NEW r \in Pub, PassedOn(r)
      PROVE  ExInv'
  <2>1. UNCHANGED <<state, qos, mid>> /\ bRecv \subseteq bRecv'
      BY <1>0, <1>2 DEF PassedOn, clientVars, outVars
  <2>2. \A p \in Pub : delivered'[p] = IF p = r THEN delivered[p] + 1 ELSE delivered[p]
      BY <1>0, <1>2 DEF PassedOn
  <2>3. qos[r] = 2 => delivered[r] = 0 /\ mid[r] \in bRecv'
    <3>1. qos[r] = 2 => state[r] = "wait_for_pubrec" /\ mid[r] \notin bRecv /\ mid[r] \in bRecv'
        BY <1>2 DEF PassedOn, WaitState
    <3>2. delivered[r] \in Nat
        BY <1>0
    <3> QED
        BY <3>1, <3>2 DEF ExInv
  <2> QED
      BY <2>1, <2>2, <2>3 DEF ExInv
<1> QED
    BY <1>1, <1>2, StepPassesOn

(* The session of the broker is resumed, and no attempt to connect fails;   *)
(* or there is no message of QoS 2.                                         *)
Resumed == (Steady /\ "always" \notin CleanModes) \/ OutQos \subseteq {1}

LEMMA ExInvariant == Resumed => (Spec => []ExInv)
<1> SUFFICES ASSUME Resumed PROVE Spec => []ExInv
    OBVIOUS
<1>1. CASE OutQos \subseteq {1}
  <2>1. (\A p \in Pub : qos[p] = 1) => ExInv
      BY DEF ExInv
  <2>2. Spec => [](\A p \in Pub : qos[p] = 1)
      BY <1>1, OnlyQos1
  <2> QED
      BY <2>1, <2>2, PTL
<1>2. CASE Steady /\ "always" \notin CleanModes
  <2>1. Init => ExInv
    <3>1. Init => \A p \in Pub : delivered[p] = 0
        BY DEF Init, BrokerInit
    <3> QED
        BY <3>1 DEF ExInv
  <2>2. SlotInv /\ OutInv /\ StoreQos /\ Fresh /\ NoSecondReset /\ First /\ CleanFirst /\ ExInv /\ [Next]_vars => ExInv'
      BY <1>2, ExNext
  <2>3. OneReset /\ Steady
      BY <1>2 DEF OneReset
  <2>4. (Spec => []NoSecondReset) /\ (Spec => []CleanFirst)
      BY <2>3, ResetOnce, CleanFirstInvariant
  <2> QED
      BY <2>1, <2>2, <2>4, SlotInvariant, OutInvariant, StoreQosInvariant, FreshInvariant, FirstInvariant, PTL
         DEF Spec
<1> QED
    BY <1>1, <1>2 DEF Resumed

(* A message of QoS 2 is passed on once, however often the connection is    *)
(* lost while it is up.                                                     *)
THEOREM DeliveredExactlyOnce == Resumed => (Spec => []ExactlyOnce)
<1> SUFFICES ASSUME Resumed PROVE Spec => []ExactlyOnce
    OBVIOUS
<1>1. TypeOK /\ ExInv => ExactlyOnce
  <2> SUFFICES ASSUME TypeOK, ExInv, NEW p \in Pub, qos[p] = 2 PROVE delivered[p] <= 1
      BY DEF ExactlyOnce
  <2>1. delivered[p] \in Nat
      BY DEF TypeOK, BrokerTypeOK
  <2> QED
      BY <2>1 DEF ExInv
<1> QED
    BY <1>1, ExInvariant, TypeCorrect, PTL

-----------------------------------------------------------------------------
(* The refinement *)

(* A message that stays in the store is neither accepted nor reported.      *)
Stays(p) ==
    /\ qos'[p] = qos[p]
    /\ state'[p] = state[p] \/ (state[p] \in Stored /\ state'[p] \in Stored)

LEMMA UpdateStays ==
    ASSUME NEW st, NEW n, NEW last, UpdateInflight(st, n, last), qos' = qos, NEW p,
           \A r \in Pub : r # p => st[r] = state[r]
    PROVE  \A r \in Pub : r # p => Stays(r)
<1> DEFINE S == Promoted(st, n)
<1>1. \A r \in Pub : state'[r] = IF r \in S THEN WaitState(qos[r]) ELSE st[r]
    BY DEF UpdateInflight
<1>2. \A r \in S : r \in Pub /\ st[r] = "queued"
    BY PromotedQueued
<1> HIDE DEF S
<1> QED
    BY <1>1, <1>2, StateSets DEF Stays

(* A step accepts or reports one message at most.                           *)
LEMMA OneChanges ==
    ASSUME SlotInv, [Next]_vars
    PROVE  \E p \in Pub : \A r \in Pub : r # p => Stays(r)
<1>0. state \in [Pub -> States] /\ qos \in [Pub -> 1..2] /\ 1 \in Pub
    BY WireAssumption DEF SlotInv, TypeOK, ClientTypeOK, Pub
<1>1. CASE UNCHANGED <<state, qos>>
    BY <1>0, <1>1 DEF Stays
<1>2. ASSUME NEW q \in OutQos, AppPublish(q)
      PROVE  \E p \in Pub : \A r \in Pub : r # p => Stays(r)
  <2>1. PICK st : Call(q, st)
      BY <1>2 DEF AppPublish, PublishCall, PublishRejected, PublishSent, PublishOffline, PublishQueued
  <2>2. nextPub \in Pub /\ \A r \in Pub : r # nextPub => state'[r] = state[r] /\ qos'[r] = qos[r]
      BY <1>0, <2>1 DEF Call
  <2> QED
      BY <2>2 DEF Stays
<1>3. CASE BeginReconnect
  <2>1. qos' = qos /\ \A p \in Pub : state'[p] = IF p \in Live THEN ResetState(p) ELSE state[p]
      BY <1>3 DEF BeginReconnect, ReconnectReset, ResetOut
  <2> QED
      BY <1>0, <2>1, StateSets DEF Stays, ResetState, Live
<1>4. ASSUME NEW S \in SUBSET Resumable, Resume(S), qos' = qos
      PROVE  \E p \in Pub : \A r \in Pub : r # p => Stays(r)
  <2>1. \A p \in Pub : state'[p] = IF p \in S THEN ResumedState(p) ELSE state[p]
      BY <1>4 DEF Resume
  <2>2. \A p \in S : state[p] \in Stored /\ ResumedState(p) \in Stored
      BY StateSets DEF Resumable, ResumedState
  <2> QED
      BY <1>0, <1>4, <2>1, <2>2 DEF Stays
<1>5. CASE Handle
  <2>1. qos' = qos
      BY <1>5 DEF Handle, Handler, ConnackAccepted, ConnackRefused, HandleAck, HandlePubrec, HandlePublish,
                  HandlePubrel, FreeSlot, HandOnSlot, outVars
  <2>2. CASE ConnackAccepted
      BY <1>4, <2>1, <2>2 DEF ConnackAccepted
  <2>3. ASSUME NEW t, HandleAck(t)
        PROVE  \E p \in Pub : \A r \in Pub : r # p => Stays(r)
    <3>1. ASSUME NEW p \in Holders(Head(toClient).mid),
                 UpdateInflight([state EXCEPT ![p] = "published"], inflight - 1, <<>>)
          PROVE  \E r \in Pub : \A s \in Pub : s # r => Stays(s)
      <4> DEFINE st == [state EXCEPT ![p] = "published"]
      <4>1. p \in Pub /\ \A r \in Pub : r # p => st[r] = state[r]
          BY <1>0 DEF Holders, Live
      <4>2. UpdateInflight(st, inflight - 1, <<>>)
          BY <3>1
      <4> HIDE DEF st
      <4> QED
          BY <2>1, <4>1, <4>2, UpdateStays
    <3> QED
        BY <1>1, <2>1, <2>3, <3>1 DEF HandleAck
  <2>4. CASE HandlePubrec
    <3>1. ASSUME NEW p \in Holders(Head(toClient).mid), state' = [state EXCEPT ![p] = "wait_for_pubcomp"]
          PROVE  \E r \in Pub : \A s \in Pub : s # r => Stays(s)
      <4>1. p \in Pub /\ \A r \in Pub : r # p => state'[r] = state[r]
          BY <1>0, <3>1 DEF Holders, Live
      <4> QED
          BY <2>1, <4>1 DEF Stays
    <3> QED
        BY <1>1, <2>1, <2>4, <3>1 DEF HandlePubrec
  <2>5. CASE PubrelSteps
    <3>1. state' = state \/ \E last : UpdateInflight(state, inflight, last)
        BY <2>5, PubrelHandled DEF SlotInv
    <3> QED
        BY <1>0, <1>1, <2>1, <3>1, UpdateStays
  <2> QED
      BY <1>1, <1>5, <2>1, <2>2, <2>3, <2>4, <2>5
         DEF Handle, Handler, ConnackRefused, HandlePublish, PubrelSteps, outVars
<1>6. ASSUME NEW f \in Pub, LostInConnack(f)
      PROVE  \E p \in Pub : \A r \in Pub : r # p => Stays(r)
  <2> DEFINE Marked == {p \in Resumable :
                          \A q \in Resumable : f < q /\ q < p => state[q] = "resend_pubrel"}
  <2>1. Resume(Marked) /\ qos' = qos /\ Marked \in SUBSET Resumable
      BY <1>6 DEF LostInConnack, ConnackBroken
  <2> HIDE DEF Marked
  <2> QED
      BY <1>4, <2>1
<1>7. CASE AppConsume \/ (\E i \in In, q \in 1..2 : AppAck(i, q)) \/ Open \/ EndReconnect
    BY <1>1, <1>7 DEF AppConsume, ConsumeMid, AppAck, Ack, Open, SocketOpened, EndReconnect, SendConnect, outVars
<1>8. CASE BrokerHandles \/ Refused \/ \E i \in In, q \in InQos : BrokerSends(i, q)
    BY <1>1, <1>8 DEF BrokerHandles, Refused, BrokerSends, clientVars, outVars
<1>9. CASE BrokerCloses \/ Lost \/ LostEarly \/ NoRoute
    BY <1>1, <1>9 DEF BrokerCloses, Lost, LostEarly, NoRoute, SocketFailed, Break, outVars
<1>10. CASE UNCHANGED vars
    BY <1>1, <1>10 DEF vars, clientVars, outVars
<1> QED
    BY <1>2, <1>3, <1>5, <1>6, <1>7, <1>8, <1>9, <1>10 DEF Next, AnyFault

(* A step of the session changes the promise, the copies or the report of   *)
(* one message at most, the way Delivery lets it.                           *)
LEMMA DeliveryStep ==
    ASSUME SlotInv, OutInv, ExInv, PublishedDelivered', [Next]_vars
    PROVE  [Abstract!Next]_(Abstract!deliveryVars)
<1> DEFINE promise == [p \in Pub |-> Promise(p)]
           promised == [p \in Pub |-> Promise(p)']
           reported == [p \in Pub |-> state[p] = "published"]
           told == [p \in Pub |-> state'[p] = "published"]
<1>0. delivered \in [Pub -> Nat] /\ qos \in [Pub -> 1..2] /\ state \in [Pub -> States]
    BY DEF SlotInv, TypeOK, BrokerTypeOK, ClientTypeOK
<1>1. \A p : Stays(p) => Promise(p)' = Promise(p) /\ (state'[p] = "published" <=> state[p] = "published")
    BY StateSets DEF Stays, Promise
<1>2. ASSUME delivered' = delivered, promised = promise, told = reported
      PROVE  UNCHANGED Abstract!deliveryVars
    BY <1>2 DEF Abstract!deliveryVars
<1>3. CASE delivered' = delivered
  <2>1. PICK p \in Pub : \A r \in Pub : r # p => Stays(r)
      BY OneChanges
  <2>2. CASE Stays(p)
    <3>1. promised = promise /\ told = reported
        BY <1>1, <2>1, <2>2
    <3> QED
        BY <1>2, <1>3, <3>1
  <2>3. CASE Made(p) /\ ~Stays(p)
    <3>1. Promise(p) = "none" /\ state[p] # "published"
        BY <2>3 DEF Made, Promise
    <3>2. state'[p] # "published" /\ Promise(p)' \in {"none", "at_least_once", "exactly_once"}
        BY <2>3 DEF Made, Promise, WaitState
    <3>3. told = reported
        BY <1>1, <2>1, <3>1, <3>2
    <3>4. promised = [promise EXCEPT ![p] = Promise(p)']
        BY <1>1, <2>1
    <3>5. CASE Promise(p)' = "none"
      <4>1. promised = promise
          BY <1>1, <2>1, <3>1, <3>5
      <4> QED
          BY <1>2, <1>3, <3>3, <4>1
    <3>6. CASE Promise(p)' \in {"at_least_once", "exactly_once"}
        BY <1>3, <3>1, <3>3, <3>4, <3>6 DEF Abstract!Next, Abstract!Accept
    <3> QED
        BY <3>2, <3>5, <3>6
  <2>4. CASE Progress(p) /\ ~Stays(p)
    <3>1. state[p] # "published" /\ state'[p] = "published" /\ Promise(p)' = Promise(p)
        BY <2>4, StateSets DEF Progress, Stays, Fixed, Promise, Stored, Waiting
    <3>2. delivered[p] > 0
        BY <1>3, <3>1 DEF PublishedDelivered
    <3>3. promised = promise
        BY <1>1, <2>1, <3>1
    <3>4. told = [reported EXCEPT ![p] = TRUE]
        BY <1>1, <2>1, <3>1
    <3> QED
        BY <1>3, <3>1, <3>2, <3>3, <3>4 DEF Abstract!Next, Abstract!Report
  <2> QED
      BY <2>2, <2>3, <2>4, StoreMoves, StateSets DEF Moves, Kept, IsReset, Fixed, Stays, ResetState
<1>4. ASSUME NEW p \in Pub, PassedOn(p)
      PROVE  Abstract!Next
  <2>1. state' = state /\ qos' = qos /\ state[p] = WaitState(qos[p])
        /\ delivered' = [delivered EXCEPT ![p] = @ + 1]
      BY <1>4 DEF PassedOn, clientVars, outVars
  <2>2. promised = promise /\ told = reported
      BY <2>1 DEF Promise
  <2>3. Promise(p) # "none" /\ state[p] # "published"
      BY <2>1, StateSets DEF Promise, WaitState
  <2>4. Promise(p) = "exactly_once" => delivered[p] = 0
    <3>1. Promise(p) = "exactly_once" => qos[p] = 2
        BY <1>0 DEF Promise
    <3>2. qos[p] = 2 => state[p] = "wait_for_pubrec" /\ mid[p] \notin bRecv
        BY <1>4, <2>1 DEF PassedOn, WaitState
    <3>3. delivered[p] \in Nat
        BY <1>0
    <3> QED
        BY <3>1, <3>2, <3>3 DEF ExInv
  <2> QED
      BY <2>1, <2>2, <2>3, <2>4 DEF Abstract!Next, Abstract!PassOn
<1> QED
    BY <1>3, <1>4, StepPassesOn

LEMMA DeliveryInit == Init => Abstract!Init
<1> SUFFICES ASSUME Init PROVE Abstract!Init
    OBVIOUS
<1>1. delivered = [p \in Pub |-> 0] /\ \A p \in Pub : state[p] = "new"
    BY DEF Init, ClientInit, BrokerInit
<1>2. [p \in Pub |-> Promise(p)] = [p \in Pub |-> "none"]
    BY <1>1 DEF Promise
<1>3. [p \in Pub |-> state[p] = "published"] = [p \in Pub |-> FALSE]
    BY <1>1
<1> QED
    BY <1>1, <1>2, <1>3 DEF Abstract!Init

(* The session layer keeps the promise of publish(): every step is a step   *)
(* of Delivery or leaves it alone.                                          *)
THEOREM KeepsItsPromise == Resumed /\ NoOldSession => (Spec => ImplementsDelivery)
<1> SUFFICES ASSUME Resumed, NoOldSession PROVE Spec => ImplementsDelivery
    OBVIOUS
<1>1. SlotInv /\ OutInv /\ ExInv /\ PublishedDelivered' /\ [Next]_vars => [Abstract!Next]_(Abstract!deliveryVars)
    BY DeliveryStep
<1>2. Spec => []ExInv
    BY ExInvariant
<1>3. Spec => []PublishedDelivered
    BY ReportedAfterDelivery
<1> QED
    BY <1>1, <1>2, <1>3, DeliveryInit, SlotInvariant, OutInvariant, PTL DEF Spec, ImplementsDelivery, Abstract!Spec

-----------------------------------------------------------------------------
(* In the order of publish() *)

Of(x, p) == x.type = "PUBLISH" /\ x.msg = p

(* Every PUBLISH of s stands behind those of the messages of N that were    *)
(* published before its own.                                                *)
Ahead(s, N) ==
    \A j \in DOMAIN s : s[j].type = "PUBLISH" =>
        \A p \in N : p < s[j].msg => \E k \in DOMAIN s : k < j /\ Of(s[k], p)

LEMMA AheadTail ==
    ASSUME NEW P, NEW s \in Seq(P), s # <<>>, NEW N, NEW M \in SUBSET N, Ahead(s, N),
           \A p \in M : ~Of(Head(s), p)
    PROVE  Ahead(Tail(s), M)
<1>1. /\ Len(s) \in Nat /\ Len(s) > 0 /\ Head(s) = s[1] /\ DOMAIN s = 1..Len(s)
      /\ DOMAIN Tail(s) = 1..(Len(s) - 1)
      /\ \A k \in 1..(Len(s) - 1) : Tail(s)[k] = s[k + 1]
    OBVIOUS
<1> SUFFICES ASSUME NEW j \in DOMAIN Tail(s), Tail(s)[j].type = "PUBLISH", NEW p \in M, p < Tail(s)[j].msg
             PROVE  \E k \in DOMAIN Tail(s) : k < j /\ Of(Tail(s)[k], p)
    BY DEF Ahead
<1>2. j + 1 \in DOMAIN s /\ Tail(s)[j] = s[j + 1] /\ j \in Nat
    BY <1>1
<1>3. PICK k \in DOMAIN s : k < j + 1 /\ Of(s[k], p)
    BY <1>2 DEF Ahead
<1>4. k # 1
    BY <1>1, <1>3
<1>5. k - 1 \in DOMAIN Tail(s) /\ k - 1 < j /\ Tail(s)[k - 1] = s[k]
    BY <1>1, <1>2, <1>3, <1>4
<1> QED
    BY <1>3, <1>5

LEMMA AheadConcat ==
    ASSUME NEW P, NEW s \in Seq(P), NEW u \in Seq(P), NEW N, Ahead(s, N),
           \A j \in DOMAIN u : u[j].type = "PUBLISH" => \A p \in N : p < u[j].msg =>
               \/ \E k \in DOMAIN s : Of(s[k], p)
               \/ \E k \in DOMAIN u : k < j /\ Of(u[k], p)
    PROVE  Ahead(s \o u, N)
<1>1. /\ Len(s) \in Nat /\ Len(u) \in Nat /\ DOMAIN s = 1..Len(s) /\ DOMAIN u = 1..Len(u)
      /\ DOMAIN (s \o u) = 1..(Len(s) + Len(u))
      /\ \A k \in 1..Len(s) : (s \o u)[k] = s[k]
      /\ \A k \in 1..Len(u) : (s \o u)[Len(s) + k] = u[k]
    OBVIOUS
<1> DEFINE v == s \o u
<1>2. \A k \in DOMAIN s : k \in DOMAIN v /\ v[k] = s[k]
    BY <1>1
<1>3. \A k \in DOMAIN u : Len(s) + k \in DOMAIN v /\ v[Len(s) + k] = u[k]
    BY <1>1
<1>4. \A j \in DOMAIN v : j \in DOMAIN s \/ (j - Len(s) \in DOMAIN u /\ v[j] = u[j - Len(s)] /\ \A k \in DOMAIN s : k < j)
  <2> SUFFICES ASSUME NEW j \in DOMAIN v, j \notin DOMAIN s
               PROVE  j - Len(s) \in DOMAIN u /\ v[j] = u[j - Len(s)] /\ \A k \in DOMAIN s : k < j
      OBVIOUS
  <2>1. PICK k \in 1..Len(u) : j = Len(s) + k
    <3>1. j \in 1..(Len(s) + Len(u)) /\ j > Len(s)
        BY <1>1
    <3>2. j - Len(s) \in 1..Len(u) /\ j = Len(s) + (j - Len(s))
        BY <1>1, <3>1
    <3> QED
        BY <3>2
  <2>2. j - Len(s) = k
      BY <1>1, <2>1
  <2> QED
      BY <1>1, <1>3, <2>1, <2>2
<1> HIDE DEF v
<1> SUFFICES ASSUME NEW j \in DOMAIN v, v[j].type = "PUBLISH", NEW p \in N, p < v[j].msg
             PROVE  \E k \in DOMAIN v : k < j /\ Of(v[k], p)
    BY DEF Ahead, v
<1>5. CASE j \in DOMAIN s
  <2>1. PICK k \in DOMAIN s : k < j /\ Of(s[k], p)
      BY <1>2, <1>5 DEF Ahead
  <2> QED
      BY <1>2, <2>1
<1>6. CASE j \notin DOMAIN s
  <2>1. j - Len(s) \in DOMAIN u /\ v[j] = u[j - Len(s)] /\ \A k \in DOMAIN s : k < j
      BY <1>4, <1>6
  <2>2. CASE \E k \in DOMAIN s : Of(s[k], p)
      BY <1>2, <2>1, <2>2
  <2>3. ASSUME NEW k \in DOMAIN u, k < j - Len(s), Of(u[k], p)
        PROVE  \E i \in DOMAIN v : i < j /\ Of(v[i], p)
    <3>1. j \in Int /\ k \in Int /\ Len(s) \in Int
      <4>1. DOMAIN v \subseteq Int /\ DOMAIN u \subseteq Int
          BY <1>1 DEF v
      <4> QED
          BY <1>1, <4>1
    <3>2. Len(s) + k < j
        BY <2>3, <3>1
    <3> QED
        BY <1>3, <2>3, <3>2
  <2> QED
      BY <2>1, <2>2, <2>3
<1> QED
    BY <1>5, <1>6

(* Other packets do not matter.                                             *)
LEMMA AheadOther ==
    ASSUME NEW P, NEW s \in Seq(P), NEW u \in Seq(P), NEW N, Ahead(s, N),
           \A x \in Packets(u) : x.type # "PUBLISH"
    PROVE  Ahead(s \o u, N)
BY AheadConcat DEF Packets

LEMMA AheadAppend ==
    ASSUME NEW P, NEW s \in Seq(P), NEW x \in P, NEW N, Ahead(s, N),
           x.type = "PUBLISH" => \A p \in N : p < x.msg => \E y \in Packets(s) : Of(y, p)
    PROVE  Ahead(Append(s, x), N)
<1>1. <<x>> \in Seq(P) /\ DOMAIN <<x>> = {1} /\ <<x>>[1] = x /\ Append(s, x) = s \o <<x>>
    OBVIOUS
<1>2. \A j \in DOMAIN <<x>> : <<x>>[j].type = "PUBLISH" => \A p \in N : p < <<x>>[j].msg =>
          \E k \in DOMAIN s : Of(s[k], p)
    BY <1>1 DEF Packets
<1> HIDE DEF Of
<1>3. Ahead(s \o <<x>>, N)
    BY <1>1, <1>2, AheadConcat
<1> QED
    BY <1>1, <1>3

LEMMA AheadLess ==
    ASSUME NEW s, NEW N, NEW M \in SUBSET N, Ahead(s, N)
    PROVE  Ahead(s, M)
BY DEF Ahead

(* _update_inflight and _handle_connack send in the order of the store.     *)
LEMMA PublishPacketsOrder ==
    ASSUME ClientTypeOK, NEW S \in SUBSET Pub
    PROVE  \A j \in DOMAIN PublishPackets(S) :
               /\ PublishPackets(S)[j].msg \in S
               /\ \A p \in S : p < PublishPackets(S)[j].msg =>
                     \E k \in DOMAIN PublishPackets(S) : k < j /\ Of(PublishPackets(S)[k], p)
<1>1. S \in SUBSET Int /\ IsFiniteSet(S) /\ Cardinality(S) \in Nat
    BY PubFinite
<1>2. /\ DOMAIN PublishPackets(S) = 1..Cardinality(S)
      /\ \A k \in 1..Cardinality(S) : Of(PublishPackets(S)[k], InOrder(S)[k])
    BY DEF PublishPackets, Publish, Of
<1> SUFFICES ASSUME NEW j \in 1..Cardinality(S)
             PROVE  /\ PublishPackets(S)[j].msg \in S
                    /\ \A p \in S : p < PublishPackets(S)[j].msg =>
                          \E k \in 1..Cardinality(S) : k < j /\ Of(PublishPackets(S)[k], p)
    BY <1>2
<1>3. PublishPackets(S)[j].msg = InOrder(S)[j] /\ InOrder(S)[j] \in S /\ Rank(S, InOrder(S)[j]) = j
    BY <1>1, <1>2, InOrderRank DEF Of
<1>4. ASSUME NEW p \in S, p < InOrder(S)[j]
      PROVE  \E k \in 1..Cardinality(S) : k < j /\ Of(PublishPackets(S)[k], p)
  <2>1. Rank(S, p) \in 1..Cardinality(S) /\ InOrder(S)[Rank(S, p)] = p
      BY <1>1, InOrderOnto
  <2>2. Rank(S, p) < j
      BY <1>1, <1>3, <1>4, RankMonotone
  <2> QED
      BY <1>2, <2>1, <2>2
<1> QED
    BY <1>3, <1>4

LEMMA ResumePacketsOrder ==
    ASSUME ClientTypeOK, NEW S \in SUBSET Pub
    PROVE  \A j \in DOMAIN ResumePackets(S) : ResumePackets(S)[j].type = "PUBLISH" =>
               /\ ResumePackets(S)[j].msg \in S
               /\ \A p \in S : p < ResumePackets(S)[j].msg /\ state[p] # "resend_pubrel" =>
                     \E k \in DOMAIN ResumePackets(S) : k < j /\ Of(ResumePackets(S)[k], p)
<1>1. S \in SUBSET Int /\ IsFiniteSet(S) /\ Cardinality(S) \in Nat
    BY PubFinite
<1>2. /\ DOMAIN ResumePackets(S) = 1..Cardinality(S)
      /\ \A k \in 1..Cardinality(S) : ResumePackets(S)[k] = ResumePacket(InOrder(S)[k])
    BY DEF ResumePackets, ResumePacket
<1>3. \A p : IF state[p] = "resend_pubrel" THEN ResumePacket(p).type # "PUBLISH" ELSE Of(ResumePacket(p), p)
    BY DEF ResumePacket, Publish, WithMid, Of
<1> SUFFICES ASSUME NEW j \in 1..Cardinality(S), ResumePackets(S)[j].type = "PUBLISH"
             PROVE  /\ ResumePackets(S)[j].msg \in S
                    /\ \A p \in S : p < ResumePackets(S)[j].msg /\ state[p] # "resend_pubrel" =>
                          \E k \in 1..Cardinality(S) : k < j /\ Of(ResumePackets(S)[k], p)
    BY <1>2
<1>4. ResumePackets(S)[j].msg = InOrder(S)[j] /\ InOrder(S)[j] \in S /\ Rank(S, InOrder(S)[j]) = j
  <2>1. Of(ResumePacket(InOrder(S)[j]), InOrder(S)[j])
      BY <1>2, <1>3
  <2> QED
      BY <1>1, <1>2, <2>1, InOrderRank DEF Of
<1>5. ASSUME NEW p \in S, p < InOrder(S)[j], state[p] # "resend_pubrel"
      PROVE  \E k \in 1..Cardinality(S) : k < j /\ Of(ResumePackets(S)[k], p)
  <2>1. Rank(S, p) \in 1..Cardinality(S) /\ InOrder(S)[Rank(S, p)] = p
      BY <1>1, InOrderOnto
  <2>2. Rank(S, p) < j
      BY <1>1, <1>4, <1>5, RankMonotone
  <2>3. Of(ResumePackets(S)[Rank(S, p)], p)
      BY <1>2, <1>3, <1>5, <2>1
  <2> QED
      BY <2>1, <2>2, <2>3
<1> QED
    BY <1>4, <1>5

(* The publications whose turn is still to come, or may be.                 *)
Owed == {p \in Pub : state[p] # "rejected" /\ delivered[p] = 0}

Carried(p) == \E x \in Packets(toBroker) : Of(x, p)

(* The PUBLISH packets in toBroker are in order and none of an older        *)
(* message is missing in front of one of them; while the connection is up   *)
(* every message that waits was sent, while it is set up none was.          *)
OrderInv ==
    /\ FirstDeliveriesInOrder
    /\ \A p \in Pub : state[p] = "new" => p >= nextPub
    /\ Ahead(toBroker, Owed)
    /\ conn = "up" => \A p \in Owed : state[p] # "publish" /\ (state[p] \in Waiting => Carried(p))
    /\ conn \in {"opening", "opened", "connecting"} =>
          /\ \A x \in Packets(toBroker) : x.type # "PUBLISH"
          /\ \A p \in Live : state[p] \in {"publish", "resend_pubrel"}

LEMMA OwedShrinks ==
    ASSUME SlotInv, OutInv, [Next]_vars
    PROVE  Owed' \subseteq Owed
<1> SUFFICES ASSUME NEW p \in Pub, state'[p] # "rejected", delivered'[p] = 0
             PROVE  state[p] # "rejected" /\ delivered[p] = 0
    BY DEF Owed
<1>1. state[p] # "rejected"
    BY StoreMoves DEF Moves, Kept, Made, Progress, IsReset, Stored, Waiting
<1>2. ASSUME NEW r \in Pub, PassedOn(r)
      PROVE  delivered[p] = 0
  <2>1. delivered \in [Pub -> Nat] /\ delivered' = [delivered EXCEPT ![r] = @ + 1]
      BY <1>2 DEF PassedOn, SlotInv, TypeOK, BrokerTypeOK
  <2>2. delivered[p] \in Nat /\ delivered[r] \in Nat /\ delivered'[p] = IF p = r THEN delivered[p] + 1 ELSE delivered[p]
      BY <2>1
  <2> QED
      BY <2>2
<1> QED
    BY <1>1, <1>2, StepPassesOn

LEMMA NewestStay ==
    ASSUME SlotInv, OutInv, \A p \in Pub : state[p] = "new" => p >= nextPub, [Next]_vars
    PROVE  \A p \in Pub : state'[p] = "new" => p >= nextPub'
<1>1. CASE nextPub' = nextPub
    BY <1>1, StoreMoves DEF Moves, Kept, Made, Progress, IsReset, ResetState, WaitState
<1>2. ASSUME NEW q \in OutQos, AppPublish(q)
      PROVE  \A p \in Pub : state'[p] = "new" => p >= nextPub'
  <2>1. PICK st \in {"rejected", "queued", "publish", WaitState(q)} : Call(q, st)
      BY <1>2 DEF AppPublish, PublishCall, PublishRejected, PublishSent, PublishOffline, PublishQueued
  <2>2. nextPub \in Pub /\ nextPub' = nextPub + 1 /\ st # "new"
        /\ \A p \in Pub : state'[p] = IF p = nextPub THEN st ELSE state[p]
      BY <2>1 DEF Call, WaitState, SlotInv, TypeOK, ClientTypeOK
  <2> QED
      BY <2>2 DEF Pub
<1> QED
    BY <1>1, <1>2 DEF Next, AnyFault, vars, AppConsume, ConsumeMid, AppAck, Ack, BeginReconnect, ReconnectReset,
         Open, SocketOpened, EndReconnect, SendConnect, Handle, Handler, ConnackAccepted, ConnackRefused,
         HandleAck, HandlePubrec, HandlePublish, HandlePubrel, FreeSlot, HandOnSlot, BrokerHandles, BrokerSends,
         BrokerCloses, Lost, LostEarly, NoRoute, SocketFailed, Break, Refused, LostInConnack, ConnackBroken, clientVars, outVars

(* A message that is owed is queued, waits to be sent, or was sent.         *)
LEMMA OwedState ==
    ASSUME SlotInv, DelivInv, OrderInv, NEW p \in Owed, NEW q \in Pub, p < q, state[q] # "new" \/ q = nextPub
    PROVE  p \in Live /\ state[p] \in {"queued", "publish", "wait_for_puback", "wait_for_pubrec"}
<1>1. p \in Pub /\ delivered[p] = 0 /\ state[p] # "rejected" /\ state[p] \in States /\ nextPub \in Int
    BY DEF Owed, SlotInv, TypeOK, ClientTypeOK
<1>2. state[p] # "new"
  <2> SUFFICES ASSUME state[p] = "new" PROVE FALSE
      OBVIOUS
  <2>1. p >= nextPub
      BY <1>1 DEF OrderInv
  <2>2. q >= nextPub /\ q # nextPub
      BY <1>1, <2>1 DEF Pub
  <2> QED
      BY <2>2 DEF SlotInv, Unused
<1>3. state[p] \notin {"published", "wait_for_pubcomp", "resend_pubrel"}
    BY <1>1 DEF DelivInv, PublishedDelivered
<1> QED
    BY <1>1, <1>2, <1>3 DEF States, Stored, Waiting, Live

LEMMA FirstStays ==
    ASSUME SlotInv, OutInv, FirstDeliveriesInOrder, [Next]_vars, UNCHANGED delivered
    PROVE  FirstDeliveriesInOrder'
<1> SUFFICES ASSUME NEW p \in Pub, NEW q \in Pub, p < q, state'[p] # "rejected", delivered[q] > 0
             PROVE  delivered[p] > 0
    BY DEF FirstDeliveriesInOrder
<1>1. state[p] # "rejected"
    BY StoreMoves DEF Moves, Kept, Made, Progress, IsReset, Stored, Waiting
<1> QED
    BY <1>1 DEF FirstDeliveriesInOrder

(* Nothing is passed on, and the channel stays in order.                    *)
LEMMA OrderKept ==
    ASSUME SlotInv, OutInv, OrderInv, [Next]_vars, delivered' = delivered, Ahead(toBroker', Owed),
           conn' = "up" => \A p \in Owed' : state'[p] # "publish" /\ (state'[p] \in Waiting => Carried(p)'),
           conn' \in {"opening", "opened", "connecting"} =>
              /\ \A x \in Packets(toBroker') : x.type # "PUBLISH"
              /\ \A p \in Live' : state'[p] \in {"publish", "resend_pubrel"}
    PROVE  OrderInv'
<1>1. Owed' \subseteq Owed
    BY OwedShrinks
<1>2. Ahead(toBroker', Owed')
    BY <1>1, AheadLess
<1>3. FirstDeliveriesInOrder'
    BY FirstStays DEF OrderInv
<1>4. \A p \in Pub : state'[p] = "new" => p >= nextPub'
    BY NewestStay DEF OrderInv
<1> QED
    BY <1>2, <1>3, <1>4 DEF OrderInv

(* The store keeps its states, but for an answer that moves a message from  *)
(* one wait to the next, and no PUBLISH is written.                         *)
LEMMA OrderQuiet ==
    ASSUME SlotInv, OutInv, OrderInv, [Next]_vars, UNCHANGED delivered,
           \A p \in Pub : state'[p] = state[p] \/ (state[p] \in Waiting /\ state'[p] \in Waiting),
           conn' \in {conn, "down"} \/ {conn, conn'} \subseteq {"opening", "opened", "connecting"},
           \/ toBroker' = <<>> /\ conn' = "down"
           \/ UNCHANGED toBroker
           \/ \E u \in Seq(ToBrokerPacket) :
                 toBroker' = toBroker \o u /\ \A x \in Packets(u) : x.type # "PUBLISH"
    PROVE  OrderInv'
<1>1. toBroker \in Seq(ToBrokerPacket)
    BY DEF SlotInv, TypeOK, WireTypeOK
<1>2. Ahead(toBroker', Owed)
  <2>1. Ahead(<<>>, Owed)
      BY DEF Ahead
  <2>2. ASSUME NEW u \in Seq(ToBrokerPacket), toBroker' = toBroker \o u, \A x \in Packets(u) : x.type # "PUBLISH"
        PROVE  Ahead(toBroker', Owed)
      BY <1>1, <2>2, AheadOther DEF OrderInv
  <2> QED
      BY <2>1, <2>2 DEF OrderInv
<1>3. conn' # "down" => /\ Packets(toBroker) \subseteq Packets(toBroker')
                        /\ \A x \in Packets(toBroker') : x \in Packets(toBroker) \/ x.type # "PUBLISH"
  <2>1. ASSUME NEW u \in Seq(ToBrokerPacket)
        PROVE  Packets(toBroker \o u) = Packets(toBroker) \cup Packets(u)
      BY <1>1, PacketsConcat
  <2> QED
      BY <2>1
<1>4. Owed' \subseteq Owed
    BY OwedShrinks
<1>5. ASSUME conn' = "up", NEW p \in Owed'
      PROVE  state'[p] # "publish" /\ (state'[p] \in Waiting => Carried(p)')
  <2>1. conn = "up" /\ p \in Pub
      BY <1>5 DEF Owed
  <2>2. state[p] # "publish" /\ (state[p] \in Waiting => Carried(p))
      BY <1>4, <1>5, <2>1 DEF OrderInv
  <2>3. Carried(p) => Carried(p)'
      BY <1>3, <1>5 DEF Carried, Of
  <2>4. state'[p] = state[p] \/ (state[p] \in Waiting /\ state'[p] \in Waiting)
      BY <2>1
  <2> QED
      BY <2>2, <2>3, <2>4 DEF Waiting
<1>6. ASSUME conn' \in {"opening", "opened", "connecting"}
      PROVE  /\ \A x \in Packets(toBroker') : x.type # "PUBLISH"
             /\ \A p \in Live' : state'[p] \in {"publish", "resend_pubrel"}
  <2>1. conn \in {"opening", "opened", "connecting"}
      BY <1>6
  <2>2. /\ \A x \in Packets(toBroker) : x.type # "PUBLISH"
        /\ \A p \in Live : state[p] \in {"publish", "resend_pubrel"}
      BY <2>1 DEF OrderInv
  <2>3. ASSUME NEW p \in Live'
        PROVE  state'[p] \in {"publish", "resend_pubrel"}
    <3>1. p \in Pub /\ state'[p] \in Stored
        BY <2>3 DEF Live
    <3>2. p \in Live => state[p] \notin Waiting
        BY <2>2 DEF Waiting
    <3> QED
        BY <2>2, <3>1, <3>2, StateSets DEF Live
  <2> QED
      BY <1>3, <1>6, <2>2, <2>3
<1> QED
    BY <1>2, <1>5, <1>6, OrderKept

LEMMA OrderPublish ==
    ASSUME SlotInv, OutInv, DelivInv, Idle, OrderInv, [Next]_vars,
           NEW q \in OutQos, AppPublish(q), PublishSent(q) => conn = "up"
    PROVE  OrderInv'
<1>0. TypeOK /\ q \in 1..2
    BY SessionAssumption DEF SlotInv
<1>1. /\ conn' = conn /\ delivered' = delivered
      /\ nextPub \in Pub
    BY DEF AppPublish, PublishCall, PublishRejected, PublishSent, PublishOffline, PublishQueued, Call, brokerVars
<1>2. \A p \in Owed : p < nextPub => p \in Live /\ state[p] \in {"queued", "publish"} \cup Waiting
    BY <1>1, OwedState DEF Waiting
<1>3. PICK st \in {"rejected", "queued", "publish", WaitState(q)} : Call(q, st)
                /\ (st = "rejected" => UNCHANGED toBroker)
                /\ (st = "publish" => UNCHANGED toBroker /\ ~HasSocket)
                /\ (st = "queued" => UNCHANGED toBroker /\ ~HasSlot(inflight))
                /\ (st = WaitState(q) => PublishSent(q))
    BY <1>0 DEF AppPublish, PublishCall, PublishRejected, PublishSent, PublishOffline, PublishQueued, WaitState
<1>4. \A p \in Pub : state'[p] = IF p = nextPub THEN st ELSE state[p]
    BY <1>0, <1>1, <1>3 DEF Call, TypeOK, ClientTypeOK
<1>5. Owed' \subseteq Owed
    BY OwedShrinks
<1>6. CASE st = WaitState(q)
  <2>1. conn = "up" /\ HasSlot(inflight) /\ toBroker' = Append(toBroker, Publish(nextPub, NextMid, q, FALSE))
      BY <1>3, <1>6 DEF PublishSent
  <2>2. NextMid \in Mid
      BY <1>0, WireAssumption DEF TypeOK, ClientTypeOK, NextMid, Mid
  <2>3. PICK x \in ToBrokerPacket : x = Publish(nextPub, NextMid, q, FALSE) /\ Of(x, nextPub)
      BY <1>0, <1>1, <2>2, ToBrokerTypes DEF Publish, Of
  <2>4. toBroker \in Seq(ToBrokerPacket) /\ Packets(Append(toBroker, x)) = Packets(toBroker) \cup {x}
      BY <1>0, PacketsAppend DEF TypeOK, WireTypeOK
  <2>5. QueuedPubs = {}
      BY <1>0, <2>1, ClientAssumption DEF SlotInv, WorkConserving, Idle, HasSlot, TypeOK, ClientTypeOK
  <2>6. \A p \in Owed : p < nextPub => Carried(p)
      BY <1>2, <2>1, <2>5 DEF OrderInv, QueuedPubs, Owed
  <2>7. Ahead(toBroker, Owed) /\ x.msg = nextPub
      BY <2>3 DEF OrderInv, Of
  <2>8. Ahead(Append(toBroker, x), Owed)
      BY <2>4, <2>6, <2>7, AheadAppend DEF Carried
  <2>9. toBroker' = Append(toBroker, x)
      BY <2>1, <2>3
  <2>10. ASSUME NEW p \in Owed'
         PROVE  state'[p] # "publish" /\ (state'[p] \in Waiting => Carried(p)')
    <3>1. CASE p = nextPub
        BY <1>1, <1>4, <1>6, <2>3, <2>4, <2>9, <3>1 DEF Carried, WaitState
    <3>2. CASE p # nextPub
      <4>1. p \in Owed /\ p \in Pub
          BY <1>5, <2>10 DEF Owed
      <4>2. state[p] # "publish" /\ (state[p] \in Waiting => Carried(p))
          BY <2>1, <4>1 DEF OrderInv
      <4>3. Carried(p) => Carried(p)'
          BY <2>4, <2>9 DEF Carried
      <4>4. state'[p] = state[p]
          BY <1>4, <3>2, <4>1
      <4> QED
          BY <4>2, <4>3, <4>4
    <3> QED
        BY <3>1, <3>2
  <2> QED
      BY <1>1, <2>1, <2>8, <2>9, <2>10, OrderKept
<1>7. CASE st # WaitState(q)
  <2>1. toBroker' = toBroker /\ st \in {"rejected", "queued", "publish"} /\ (st = "publish" => conn # "up")
        /\ st \notin Waiting
      BY <1>3, <1>7 DEF HasSocket, Waiting
  <2>2. ASSUME conn' = "up", NEW p \in Owed'
        PROVE  state'[p] # "publish" /\ (state'[p] \in Waiting => Carried(p)')
    <3>1. p \in Owed /\ p \in Pub
        BY <1>5, <2>2 DEF Owed
    <3>2. state[p] # "publish" /\ (state[p] \in Waiting => Carried(p))
        BY <1>1, <2>2, <3>1 DEF OrderInv
    <3>3. Carried(p) => Carried(p)'
        BY <2>1 DEF Carried
    <3> QED
        BY <1>1, <1>4, <2>1, <2>2, <3>1, <3>2, <3>3
  <2>3. ASSUME conn' \in {"opening", "opened", "connecting"}
        PROVE  /\ \A x \in Packets(toBroker') : x.type # "PUBLISH"
               /\ \A p \in Live' : state'[p] \in {"publish", "resend_pubrel"}
    <3>1. /\ \A x \in Packets(toBroker) : x.type # "PUBLISH"
          /\ \A p \in Live : state[p] \in {"publish", "resend_pubrel"}
        BY <1>1, <2>3 DEF OrderInv
    <3>2. HasSlot(inflight)
      <4>1. Inflight = {}
          BY <3>1, StateSets DEF Live, Inflight, Waiting
      <4>2. inflight \in Int /\ MaxInflight \in Nat /\ inflight <= 0
          BY <1>0, <4>1, FS_EmptySet, ClientAssumption DEF SlotInv, NoSlotLeak, TypeOK, ClientTypeOK
      <4> QED
          BY <4>2 DEF HasSlot
    <3>3. st # "queued"
        BY <1>3, <3>2
    <3>4. ASSUME NEW p \in Live'
          PROVE  state'[p] \in {"publish", "resend_pubrel"}
      <4>1. p \in Pub /\ state'[p] \in Stored
          BY <3>4 DEF Live
      <4> QED
          BY <1>4, <2>1, <3>1, <3>3, <4>1, StateSets DEF Live
    <3> QED
        BY <2>1, <3>1, <3>4
  <2> QED
      BY <1>1, <2>1, <2>2, <2>3, OrderKept DEF OrderInv
<1> QED
    BY <1>6, <1>7

(* _handle_connack sends the messages of W, the oldest of the store.        *)
LEMMA OrderResume ==
    ASSUME SlotInv, OutInv, DelivInv, OrderInv, NEW W \in SUBSET Resumable,
           toBroker' = toBroker \o ResumePackets(W), conn \in {"connecting", "up"},
           \A q \in W, p \in Resumable : p < q => p \in W
    PROVE  Ahead(toBroker', Owed)
<1>1. toBroker \in Seq(ToBrokerPacket) /\ ClientTypeOK /\ W \in SUBSET Pub
    BY DEF SlotInv, TypeOK, WireTypeOK, Resumable
<1>2. ResumePackets(W) \in Seq(ToBrokerPacket) /\ Ahead(toBroker, Owed)
    BY <1>1, ResumePacketsType DEF OrderInv
<1>3. ASSUME NEW q \in W, NEW p \in Owed, p < q
      PROVE  Carried(p) \/ (p \in W /\ state[p] # "resend_pubrel")
  <2>1. q \in Pub /\ state[q] # "new" /\ \A r \in QueuedPubs : q < r
      BY DEF Resumable
  <2>2. p \in Live /\ p \in Pub /\ state[p] \in {"queued", "publish", "wait_for_puback", "wait_for_pubrec"}
      BY <1>3, <2>1, OwedState DEF Owed
  <2>3. state[p] # "queued"
    <3> SUFFICES ASSUME state[p] = "queued" PROVE FALSE
        OBVIOUS
    <3>1. q < p
        BY <2>1, <2>2 DEF QueuedPubs
    <3> QED
        BY <1>3, <2>1, <2>2, <3>1 DEF Pub
  <2>4. CASE state[p] = "publish"
    <3>1. \A r \in QueuedPubs : p < r
        BY <1>3, <2>1, <2>2 DEF Pub, QueuedPubs
    <3>2. p \in Resumable
        BY <2>2, <2>4, <3>1 DEF Resumable
    <3> QED
        BY <1>3, <2>4, <3>2
  <2>5. CASE state[p] \in Waiting
    <3>1. conn = "up"
        BY <2>2, <2>5 DEF OrderInv, Waiting
    <3> QED
        BY <2>5, <3>1 DEF OrderInv
  <2> QED
      BY <2>2, <2>3, <2>4, <2>5 DEF Waiting
<1> DEFINE u == ResumePackets(W)
<1>4. \A j \in DOMAIN u : u[j].type = "PUBLISH" =>
          /\ u[j].msg \in W
          /\ \A p \in W : p < u[j].msg /\ state[p] # "resend_pubrel" => \E k \in DOMAIN u : k < j /\ Of(u[k], p)
    BY <1>1, ResumePacketsOrder
<1> HIDE DEF u
<1>5. \A j \in DOMAIN u : u[j].type = "PUBLISH" => \A p \in Owed : p < u[j].msg =>
          \/ \E k \in DOMAIN toBroker : Of(toBroker[k], p)
          \/ \E k \in DOMAIN u : k < j /\ Of(u[k], p)
  <2>1. \A p : Carried(p) => \E k \in DOMAIN toBroker : Of(toBroker[k], p)
      BY DEF Carried, Packets
  <2> QED
      BY <1>3, <1>4, <2>1
<1>6. u \in Seq(ToBrokerPacket)
    BY <1>2 DEF u
<1> HIDE DEF Of
<1>7. Ahead(toBroker \o u, Owed)
    BY <1>1, <1>2, <1>5, <1>6, AheadConcat
<1> QED
    BY <1>7 DEF u

LEMMA OrderConnack ==
    ASSUME SlotInv, OutInv, DelivInv, OrderInv, [Next]_vars, UNCHANGED delivered,
           ConnackAccepted \/ \E f \in Pub : ConnackBroken(f)
    PROVE  OrderInv'
<1>1. conn \in {"connecting", "up"}
    BY DEF ConnackAccepted, ConnackBroken, Receive
<1>2. CASE ConnackAccepted
  <2>1. conn' = "up" /\ Resume(Resumable) /\ toBroker' = toBroker \o ResumePackets(Resumable)
      BY <1>2 DEF ConnackAccepted
  <2>2. Ahead(toBroker', Owed)
      BY <1>1, <2>1, OrderResume
  <2>3. /\ toBroker \in Seq(ToBrokerPacket) /\ ClientTypeOK /\ Resumable \in SUBSET Pub
        /\ ResumePackets(Resumable) \in Seq(ToBrokerPacket)
        /\ Packets(ResumePackets(Resumable)) = {ResumePacket(p) : p \in Resumable}
    <3>1. toBroker \in Seq(ToBrokerPacket) /\ ClientTypeOK /\ Resumable \in SUBSET Pub
        BY DEF SlotInv, TypeOK, WireTypeOK, Resumable
    <3> QED
        BY <3>1, ResumePacketsType, ResumePacketsAre
  <2>4. Packets(toBroker') = Packets(toBroker) \cup Packets(ResumePackets(Resumable))
      BY <2>1, <2>3, PacketsConcat
  <2>5. ASSUME NEW p \in Owed'
        PROVE  state'[p] # "publish" /\ (state'[p] \in Waiting => Carried(p)')
    <3>1. p \in Owed /\ p \in Pub /\ delivered[p] = 0
        BY <2>5, OwedShrinks DEF Owed
    <3>2. state'[p] = IF p \in Resumable THEN ResumedState(p) ELSE state[p]
        BY <2>1, <3>1 DEF Resume
    <3>3. state[p] # "resend_pubrel"
        BY <3>1 DEF DelivInv
    <3>4. CASE p \in Resumable
      <4>1. ResumePacket(p) \in Packets(toBroker') /\ Of(ResumePacket(p), p)
          BY <2>3, <2>4, <3>3, <3>4 DEF ResumePacket, Publish, Of
      <4>2. state'[p] # "publish"
          BY <3>2, <3>4 DEF ResumedState, WaitState
      <4> QED
          BY <4>1, <4>2 DEF Carried
    <3>5. CASE p \notin Resumable
      <4>1. state[p] # "publish"
        <5>1. CASE conn = "up"
            BY <3>1, <5>1 DEF OrderInv
        <5>2. CASE conn = "connecting"
          <6>1. QueuedPubs = {}
              BY <5>2, StateSets DEF OrderInv, QueuedPubs, Live
          <6> QED
              BY <3>1, <3>5, <6>1 DEF Resumable
        <5> QED
            BY <1>1, <5>1, <5>2
      <4>2. state[p] \in Waiting => Carried(p)
        <5> SUFFICES ASSUME state[p] \in Waiting PROVE Carried(p)
            OBVIOUS
        <5>1. p \in Live
            BY <3>1, StateSets DEF Live
        <5>2. conn = "up"
            BY <1>1, <5>1 DEF OrderInv, Waiting
        <5> QED
            BY <3>1, <5>2 DEF OrderInv
      <4>3. Carried(p) => Carried(p)'
          BY <2>4 DEF Carried
      <4> QED
          BY <3>2, <3>5, <4>1, <4>2, <4>3
    <3> QED
        BY <3>4, <3>5
  <2> QED
      BY <2>1, <2>2, <2>5, OrderKept
<1>3. ASSUME NEW f \in Pub, ConnackBroken(f)
      PROVE  OrderInv'
  <2> DEFINE W == {p \in Resumable : p <= f}
  <2>1. conn' = "down" /\ toBroker' = toBroker \o ResumePackets(W)
      BY <1>3 DEF ConnackBroken
  <2>2. W \in SUBSET Resumable /\ \A q \in W, p \in Resumable : p < q => p \in W
      BY DEF Resumable, Pub
  <2> HIDE DEF W
  <2>3. Ahead(toBroker', Owed)
      BY <1>1, <2>1, <2>2, OrderResume
  <2> QED
      BY <2>1, <2>3, OrderKept
<1> QED
    BY <1>2, <1>3

(* _update_inflight, run by the handler of an answer or of PUBREL.          *)
LEMMA OrderUpdate ==
    ASSUME SlotInv, OutInv, DelivInv, OrderInv, [Next]_vars, UNCHANGED <<delivered, conn>>, conn = "up",
           NEW st \in [Pub -> States], NEW n \in Int, NEW last \in Seq(ToBrokerPacket), UpdateInflight(st, n, last),
           \A x \in Packets(last) : x.type # "PUBLISH",
           \A p \in Pub : st[p] # state[p] => st[p] = "published" /\ p \notin Owed
    PROVE  OrderInv'
<1> DEFINE S == Promoted(st, n)
<1>1. /\ \A p \in Pub : state'[p] = IF p \in S THEN WaitState(qos[p]) ELSE st[p]
      /\ toBroker' = (toBroker \o PublishPackets(S)) \o last
      /\ S \in SUBSET Pub /\ \A p \in S : st[p] = "queued"
    BY PromotedQueued DEF UpdateInflight
<1>2. ASSUME NEW q \in S, NEW p \in Pub, p < q, st[p] = "queued"
      PROVE  p \in S
  <2>1. q \in Pub
      BY <1>1
  <2> QED
      BY <1>2, <2>1, PromotedOldest
<1> HIDE DEF S
<1>3. toBroker \in Seq(ToBrokerPacket) /\ ClientTypeOK /\ Ahead(toBroker, Owed)
    BY DEF SlotInv, TypeOK, WireTypeOK, OrderInv
<1>4. /\ PublishPackets(S) \in Seq(ToBrokerPacket)
      /\ Packets(PublishPackets(S)) = {Publish(p, mid[p], qos[p], dup[p]) : p \in S}
    BY <1>1, <1>3, PublishPacketsType, PublishPacketsAre
<1>5. ASSUME NEW q \in S, NEW p \in Owed, p < q
      PROVE  Carried(p) \/ p \in S
  <2>1. q \in Pub /\ st[q] = "queued" /\ state[q] = "queued"
      BY <1>1
  <2>2. p \in Pub /\ state[p] \in {"queued", "publish", "wait_for_puback", "wait_for_pubrec"} /\ st[p] = state[p]
      BY <1>5, <2>1, OwedState DEF Owed
  <2>3. CASE state[p] = "queued"
      BY <1>2, <1>5, <2>2, <2>3
  <2>4. CASE state[p] # "queued"
      BY <2>2, <2>4 DEF OrderInv, Waiting
  <2> QED
      BY <2>3, <2>4
<1> DEFINE u == PublishPackets(S)
<1>6. \A j \in DOMAIN u :
          /\ u[j].msg \in S
          /\ \A p \in S : p < u[j].msg => \E k \in DOMAIN u : k < j /\ Of(u[k], p)
    BY <1>1, <1>3, PublishPacketsOrder
<1> HIDE DEF u
<1>7. \A j \in DOMAIN u : u[j].type = "PUBLISH" => \A p \in Owed : p < u[j].msg =>
          \/ \E k \in DOMAIN toBroker : Of(toBroker[k], p)
          \/ \E k \in DOMAIN u : k < j /\ Of(u[k], p)
  <2>1. \A p : Carried(p) => \E k \in DOMAIN toBroker : Of(toBroker[k], p)
      BY DEF Carried, Packets
  <2> QED
      BY <1>5, <1>6, <2>1
<1>8. u \in Seq(ToBrokerPacket)
    BY <1>4 DEF u
<1>9. Ahead(toBroker \o u, Owed)
  <2> HIDE DEF Of
  <2> QED
      BY <1>3, <1>7, <1>8, AheadConcat
<1>10. toBroker \o u \in Seq(ToBrokerPacket) /\ Packets(toBroker \o u) = Packets(toBroker) \cup Packets(u)
    BY <1>3, <1>8, PacketsConcat
<1>11. toBroker' = (toBroker \o u) \o last
    BY <1>1 DEF u
<1> DEFINE v == toBroker \o u
<1>12. v \in Seq(ToBrokerPacket) /\ toBroker' = v \o last /\ Ahead(v, Owed)
    BY <1>9, <1>10, <1>11
<1>13. Packets(v) = Packets(toBroker) \cup Packets(PublishPackets(S))
    BY <1>10 DEF u
<1> HIDE DEF v
<1>14. Ahead(toBroker', Owed) /\ Packets(v) \subseteq Packets(toBroker')
    BY <1>12, AheadOther, PacketsConcat
<1>15. ASSUME NEW p \in Owed'
       PROVE  state'[p] # "publish" /\ (state'[p] \in Waiting => Carried(p)')
  <2>1. p \in Owed /\ p \in Pub
      BY <1>15, OwedShrinks DEF Owed
  <2>2. st[p] = state[p] /\ state[p] # "publish" /\ (state[p] \in Waiting => Carried(p))
      BY <2>1 DEF OrderInv
  <2>3. CASE p \in S
    <3>1. Publish(p, mid[p], qos[p], dup[p]) \in Packets(toBroker')
        BY <1>4, <1>13, <1>14, <2>3
    <3>2. Of(Publish(p, mid[p], qos[p], dup[p]), p)
        BY DEF Of, Publish
    <3>3. state'[p] # "publish"
        BY <1>1, <2>1, <2>3 DEF WaitState
    <3> QED
        BY <3>1, <3>2, <3>3 DEF Carried
  <2>4. CASE p \notin S
    <3>1. state'[p] = state[p]
        BY <1>1, <2>1, <2>2, <2>4
    <3>2. Carried(p) => Carried(p)'
        BY <1>13, <1>14 DEF Carried
    <3> QED
        BY <2>2, <3>1, <3>2
  <2> QED
      BY <2>3, <2>4
<1> QED
    BY <1>14, <1>15, OrderKept

LEMMA OrderHandled ==
    ASSUME SlotInv, OutInv, DelivInv, Greeting, Idle, OrderInv, [Next]_vars, UNCHANGED delivered, Handler
    PROVE  OrderInv'
<1>0. TypeOK /\ state \in [Pub -> States] /\ inflight \in Int /\ inflight - 1 \in Int
    BY DEF SlotInv, TypeOK, ClientTypeOK
<1>1. ASSUME NEW t, Receive(t), t # "CONNACK"
      PROVE  conn = "up"
    BY <1>1 DEF Greeting, Receive, Arrives
<1>2. CASE ConnackAccepted
    BY <1>2, OrderConnack
<1>3. CASE ConnackRefused
    BY <1>3, OrderQuiet DEF ConnackRefused, outVars
<1>4. ASSUME NEW t \in {"PUBACK", "PUBCOMP"}, HandleAck(t)
      PROVE  OrderInv'
  <2> DEFINE m == Head(toClient).mid
  <2>1. conn = "up" /\ conn' = conn /\ Head(toClient) \in Answers /\ Head(toClient).type = t
      BY <1>1, <1>4, Received DEF HandleAck, Answering, Receive, Arrives
  <2>2. PICK r \in Pub : mid[r] = m /\ state[r] \in Waiting /\ delivered[r] > 0
      BY <2>1 DEF OutInv, OutFits, FitsAnswer, Awaits, Waiting, DelivInv
  <2>3. ASSUME NEW p \in Holders(m), UpdateInflight([state EXCEPT ![p] = "published"], inflight - 1, <<>>)
        PROVE  OrderInv'
    <3> DEFINE st == [state EXCEPT ![p] = "published"]
    <3>1. p \in Pub /\ p = r
        BY <2>2, StateSets DEF SlotInv, UniqueMids, Holders, Live
    <3>2. p \notin Owed
        BY <2>2, <3>1 DEF Owed
    <3>3. st \in [Pub -> States] /\ UpdateInflight(st, inflight - 1, <<>>)
          /\ \A x \in Pub : st[x] # state[x] => st[x] = "published" /\ x \notin Owed
        BY <1>0, <2>3, <3>1, <3>2 DEF States
    <3>4. <<>> \in Seq(ToBrokerPacket) /\ \A x \in Packets(<<>>) : x.type # "PUBLISH"
        BY PacketsEmpty
    <3> HIDE DEF st
    <3> QED
        BY <1>0, <2>1, <3>3, <3>4, OrderUpdate
  <2>4. CASE UNCHANGED <<state, toBroker>>
      BY <2>1, <2>4, OrderQuiet
  <2> QED
      BY <1>4, <2>3, <2>4 DEF HandleAck
<1>5. CASE HandlePubrec
  <2> DEFINE m == Head(toClient).mid
  <2>1. conn' = conn /\ Head(toClient) \in Answers /\ Head(toClient).type = "PUBREC" /\ m \in Mid
    <3>1. toClient \in Seq(ToClientPacket) /\ toClient # <<>> /\ Head(toClient).type = "PUBREC"
        BY <1>0, <1>5, HeadReceived DEF HandlePubrec
    <3>2. m \in Mid
        BY <3>1, FromBrokerFields
    <3> QED
        BY <1>5, <3>1, <3>2, Received DEF HandlePubrec, Answering
  <2>2. PICK r \in Pub : mid[r] = m /\ state[r] \in Waiting
      BY <2>1 DEF OutInv, OutFits, FitsAnswer, Awaits, Waiting
  <2>3. ASSUME NEW p \in Holders(m), state' = [state EXCEPT ![p] = "wait_for_pubcomp"],
               toBroker' = Append(toBroker, WithMid("PUBREL", m))
        PROVE  OrderInv'
    <3>1. p \in Pub /\ p = r
        BY <2>2, StateSets DEF SlotInv, UniqueMids, Holders, Live
    <3>2. \A x \in Pub : state'[x] = state[x] \/ (state[x] \in Waiting /\ state'[x] \in Waiting)
        BY <1>0, <2>2, <2>3, <3>1 DEF Waiting
    <3>3. PICK y \in ToBrokerPacket : y = WithMid("PUBREL", m) /\ y.type # "PUBLISH"
        BY <2>1, ToBrokerTypes DEF WithMid
    <3>4. toBroker' = toBroker \o <<y>> /\ <<y>> \in Seq(ToBrokerPacket) /\ Packets(<<y>>) = {y}
        BY <1>0, <2>3, <3>3 DEF TypeOK, WireTypeOK, Packets
    <3> QED
        BY <2>1, <3>2, <3>3, <3>4, OrderQuiet
  <2>4. CASE UNCHANGED <<state, toBroker>>
      BY <2>1, <2>4, OrderQuiet
  <2> QED
      BY <1>5, <2>3, <2>4 DEF HandlePubrec
<1>6. CASE HandlePublish
  <2> DEFINE i == Head(toClient).mid
  <2>1. i \in In
    <3>1. toClient \in Seq(ToClientPacket) /\ toClient # <<>> /\ Head(toClient).type = "PUBLISH"
        BY <1>0, <1>6, HeadReceived DEF HandlePublish
    <3> QED
        BY <3>1, FromBrokerFields
  <2>2. conn' = conn /\ state' = state
      BY <1>6 DEF HandlePublish, outVars
  <2>3. ASSUME NEW t \in {"PUBACK", "PUBREC"}, toBroker' = Append(toBroker, WithMid(t, i))
        PROVE  OrderInv'
    <3>1. PICK y \in ToBrokerPacket : y = WithMid(t, i) /\ y.type # "PUBLISH"
        BY <2>1, ToBrokerTypes DEF WithMid
    <3>2. toBroker' = toBroker \o <<y>> /\ <<y>> \in Seq(ToBrokerPacket) /\ Packets(<<y>>) = {y}
        BY <1>0, <2>3, <3>1 DEF TypeOK, WireTypeOK, Packets
    <3> QED
        BY <2>2, <3>1, <3>2, OrderQuiet
  <2>4. CASE UNCHANGED toBroker
      BY <2>2, <2>4, OrderQuiet
  <2> QED
      BY <1>6, <2>3, <2>4 DEF HandlePublish
<1>7. CASE PubrelSteps
  <2>1. conn = "up"
      BY <1>1, <1>7 DEF PubrelSteps, HandlePubrel, FreeSlot, HandOnSlot, Idle
  <2>2. PICK last \in Seq(ToBrokerPacket) :
            /\ \A x \in Packets(last) : x.type # "PUBLISH"
            /\ \/ UpdateInflight(state, inflight, last)
               \/ state' = state /\ toBroker' = toBroker \o last
      BY <1>0, <1>7, PubrelHandled
  <2>3. conn' = conn
      BY <1>0, <1>7, PubrelHandled
  <2>4. CASE UpdateInflight(state, inflight, last)
      BY <1>0, <2>1, <2>2, <2>3, <2>4, OrderUpdate
  <2>5. CASE state' = state /\ toBroker' = toBroker \o last
      BY <2>2, <2>3, <2>5, OrderQuiet
  <2> QED
      BY <2>2, <2>4, <2>5
<1> QED
    BY <1>2, <1>3, <1>4, <1>5, <1>6, <1>7 DEF Handler, PubrelSteps

(* The broker takes the first packet.  A PUBLISH in front of all others has *)
(* no message before it that is still owed.                                 *)
LEMMA OrderTaken ==
    ASSUME SlotInv, OutInv, DelivInv, OwnSession, OrderInv, [Next]_vars,
           BrokerHandles \/ Refused \/ \E i \in In, q \in InQos : BrokerSends(i, q)
    PROVE  OrderInv'
<1>0. TypeOK /\ UNCHANGED clientVars /\ toBroker \in Seq(ToBrokerPacket)
    BY DEF SlotInv, TypeOK, WireTypeOK, BrokerHandles, Refused, BrokerSends
<1>1. conn' = conn /\ state' = state /\ Live' = Live
    BY <1>0 DEF clientVars, outVars, Live
<1>2. Owed' \subseteq Owed
    BY OwedShrinks
<1>3. CASE UNCHANGED <<delivered, toBroker>>
    BY <1>1, <1>3, OrderQuiet
<1>4. ASSUME NEW t, Take(t), \A p \in Owed' : ~Of(Head(toBroker), p), FirstDeliveriesInOrder'
      PROVE  OrderInv'
  <2>1. toBroker # <<>> /\ toBroker' = Tail(toBroker) /\ Packets(toBroker) = {Head(toBroker)} \cup Packets(toBroker')
      BY <1>0, <1>4, PacketsTail, HeadTaken
  <2>2. Ahead(toBroker, Owed)
      BY DEF OrderInv
  <2>3. Ahead(Tail(toBroker), Owed')
      BY <1>0, <1>2, <1>4, <2>1, <2>2, AheadTail
  <2>4. \A p \in Owed' : Carried(p) => Carried(p)'
      BY <1>4, <2>1 DEF Carried
  <2>5. conn' = "up" => \A p \in Owed' : state'[p] # "publish" /\ (state'[p] \in Waiting => Carried(p)')
      BY <1>1, <1>2, <2>4 DEF OrderInv
  <2>6. conn' \in {"opening", "opened", "connecting"} =>
            /\ \A x \in Packets(toBroker') : x.type # "PUBLISH"
            /\ \A p \in Live' : state'[p] \in {"publish", "resend_pubrel"}
      BY <1>1, <2>1 DEF OrderInv
  <2>7. \A p \in Pub : state'[p] = "new" => p >= nextPub'
      BY NewestStay DEF OrderInv
  <2> QED
      BY <1>4, <2>1, <2>3, <2>5, <2>6, <2>7 DEF OrderInv
<1>5. ASSUME NEW t, Take(t), t # "PUBLISH", UNCHANGED delivered
      PROVE  OrderInv'
  <2>1. \A p : ~Of(Head(toBroker), p)
      BY <1>0, <1>5, HeadTaken DEF Of
  <2>2. FirstDeliveriesInOrder'
      BY <1>1, <1>5 DEF OrderInv, FirstDeliveriesInOrder
  <2> QED
      BY <1>4, <1>5, <2>1, <2>2
<1>6. CASE BrokerPublished
  <2> DEFINE x == Head(toBroker)
  <2>1. Take("PUBLISH") /\ bUp /\ bFresh /\ x \in ToBrokerPacket /\ x.type = "PUBLISH" /\ x \in Asks
      BY <1>0, <1>6, Taken, TakeType DEF BrokerPublished, Asking, OwnSession, TypeOK
  <2>2. PICK n \in Pub : n = x.msg /\ mid[n] = x.mid /\ state[n] \in Waiting
      BY <2>1, FromClientFields, StateSets DEF OutInv, OutFits, FitsAsk, WaitState, Waiting
  <2>3. delivered'[n] > 0 /\ \A p \in Pub : p # n => delivered'[p] = delivered[p]
    <3>0. delivered \in [Pub -> Nat]
        BY <1>0 DEF TypeOK, BrokerTypeOK
    <3>1. ASSUME delivered' = [delivered EXCEPT ![n] = @ + 1]
          PROVE  delivered'[n] > 0 /\ \A p \in Pub : p # n => delivered'[p] = delivered[p]
      <4>1. delivered[n] \in Nat /\ delivered'[n] = delivered[n] + 1
          BY <3>0, <3>1
      <4> QED
          BY <3>0, <3>1, <4>1
    <3>2. ASSUME delivered' = delivered, x.mid \in bRecv
          PROVE  delivered'[n] > 0 /\ \A p \in Pub : p # n => delivered'[p] = delivered[p]
      <4>1. PICK r \in Live : mid[r] = x.mid /\ delivered[r] > 0
          BY <2>1, <3>2 DEF DelivInv
      <4>2. r = n
          BY <2>2, <4>1, StateSets DEF SlotInv, UniqueMids, Live
      <4> QED
          BY <3>2, <4>1, <4>2
    <3> QED
        BY <1>6, <2>2, <3>1, <3>2 DEF BrokerPublished
  <2>4. \A p \in Owed : p < n => FALSE
    <3> SUFFICES ASSUME NEW p \in Owed, p < n PROVE FALSE
        OBVIOUS
    <3>1. DOMAIN toBroker = 1..Len(toBroker) /\ 1 \in DOMAIN toBroker /\ toBroker[1] = x
        BY <1>0, <2>1, HeadTaken
    <3>2. PICK k \in DOMAIN toBroker : k < 1
        BY <2>1, <2>2, <3>1 DEF OrderInv, Ahead
    <3> QED
        BY <3>1, <3>2
  <2>5. FirstDeliveriesInOrder'
    <3> SUFFICES ASSUME NEW p \in Pub, NEW q \in Pub, p < q, state[p] # "rejected", delivered'[q] > 0
                 PROVE  delivered'[p] > 0
        BY <1>1 DEF FirstDeliveriesInOrder
    <3>1. delivered[p] \in Nat
        BY <1>0 DEF TypeOK, BrokerTypeOK
    <3>2. delivered[p] > 0
      <4>1. CASE q = n
          BY <2>4, <3>1, <4>1 DEF Owed
      <4>2. CASE q # n
          BY <2>3, <4>2 DEF OrderInv, FirstDeliveriesInOrder
      <4> QED
          BY <4>1, <4>2
    <3> QED
        BY <2>3, <3>2
  <2>6. \A p \in Owed' : ~Of(x, p)
      BY <2>2, <2>3 DEF Owed, Of
  <2> QED
      BY <1>4, <2>1, <2>5, <2>6
<1>7. (\E t : Take(t) /\ t # "PUBLISH" /\ UNCHANGED delivered) \/ UNCHANGED <<delivered, toBroker>> \/ BrokerPublished
    BY DEF BrokerHandles, Refused, BrokerSends, BrokerAccept, BrokerRefuse, BrokerReceives, BrokerReleased,
           BrokerAck, BrokerAcked, BrokerPublish, brokerVars
<1> QED
    BY <1>3, <1>5, <1>6, <1>7

LEMMA OrderNext ==
    ASSUME SlotInv, OutInv, DelivInv, OwnSession, First, Idle, OrderInv, [Next]_vars,
           \A q \in OutQos : AppPublish(q) /\ PublishSent(q) => conn = "up"
    PROVE  OrderInv'
<1>0. TypeOK /\ toBroker \in Seq(ToBrokerPacket)
    BY DEF SlotInv, TypeOK, WireTypeOK
<1>1. ASSUME NEW y \in ToBrokerPacket, y.type # "PUBLISH", toBroker' = Append(toBroker, y)
      PROVE  \E u \in Seq(ToBrokerPacket) : toBroker' = toBroker \o u /\ \A x \in Packets(u) : x.type # "PUBLISH"
  <2>1. toBroker' = toBroker \o <<y>> /\ <<y>> \in Seq(ToBrokerPacket) /\ Packets(<<y>>) = {y}
      BY <1>0, <1>1 DEF Packets
  <2> QED
      BY <1>1, <2>1
<1>2. ASSUME NEW i \in In, NEW q \in 1..2, AppAck(i, q)
      PROVE  OrderInv'
  <2>1. UNCHANGED <<conn, state, delivered>>
      BY <1>2 DEF AppAck, Ack, brokerVars, outVars
  <2>2. PICK t \in {"PUBACK", "PUBCOMP"} : toBroker' = toBroker \/ toBroker' = Append(toBroker, WithMid(t, i))
      BY <1>2 DEF AppAck, Ack
  <2>3. PICK y \in ToBrokerPacket : y = WithMid(t, i) /\ y.type # "PUBLISH"
      BY <2>2, ToBrokerTypes DEF WithMid
  <2> QED
      BY <1>1, <2>1, <2>2, <2>3, OrderQuiet
<1>3. CASE EndReconnect
  <2>1. PICK y \in ToBrokerPacket : y = Connect(CleanSession) /\ y.type # "PUBLISH"
      BY ToBrokerTypes DEF CleanSession, Connect
  <2>2. /\ toBroker' = Append(toBroker, y) /\ UNCHANGED <<state, delivered>>
        /\ {conn, conn'} \subseteq {"opening", "opened", "connecting"}
      BY <1>3, <2>1 DEF EndReconnect, SendConnect, outVars
  <2> QED
      BY <1>1, <2>1, <2>2, OrderQuiet
<1>4. CASE BeginReconnect
  <2>1. /\ conn' = "opening" /\ toBroker' = <<>> /\ delivered' = delivered
        /\ \A p \in Pub : state'[p] = IF p \in Live THEN ResetState(p) ELSE state[p]
      BY <1>4 DEF BeginReconnect, ReconnectReset, ResetOut, brokerVars
  <2>2. Ahead(toBroker', Owed) /\ Packets(toBroker') = {}
      BY <2>1, PacketsEmpty DEF Ahead
  <2>3. \A p \in Live' : state'[p] \in {"publish", "resend_pubrel"}
      BY <2>1 DEF Live, ResetState
  <2> QED
      BY <2>1, <2>2, <2>3, OrderKept
<1>5. CASE Handle
    BY <1>5, OrderHandled DEF Handle, brokerVars, First
<1>6. ASSUME NEW f \in Pub, LostInConnack(f)
      PROVE  OrderInv'
    BY <1>6, OrderConnack DEF LostInConnack, brokerVars
<1>7. CASE Open
    BY <1>7, OrderQuiet DEF Open, SocketOpened, outVars, wireVars, brokerVars
<1>8. CASE BrokerCloses \/ Lost \/ LostEarly \/ NoRoute
    BY <1>8, OrderQuiet DEF BrokerCloses, Lost, LostEarly, NoRoute, SocketFailed, Break, outVars, brokerVars
<1>9. CASE AppConsume \/ UNCHANGED vars
    BY <1>9, OrderQuiet DEF AppConsume, ConsumeMid, vars, clientVars, outVars, wireVars, brokerVars
<1> QED
    BY <1>2, <1>3, <1>4, <1>5, <1>6, <1>7, <1>8, <1>9, OrderPublish, OrderTaken DEF Next, AnyFault

(* What was published before CONNECT was sent makes the broker close the    *)
(* connection before it reads any of it.                                    *)
Doomed ==
    /\ FirstDeliveriesInOrder
    /\ \A p \in Pub : state[p] = "new" => p >= nextPub
    /\ conn \in {"opened", "connecting"}
    /\ conn = "connecting" => ~bUp
    /\ toBroker # <<>> /\ Head(toBroker).type # "CONNECT"
    /\ toClient = <<>>

LEMMA DoomedStarts ==
    ASSUME SlotInv, OutInv, Setup, OrderInv, [Next]_vars, conn = "opened",
           NEW q \in OutQos, AppPublish(q), PublishSent(q)
    PROVE  Doomed'
<1>0. TypeOK /\ q \in 1..2 /\ toBroker \in Seq(ToBrokerPacket)
    BY SessionAssumption DEF SlotInv, TypeOK, WireTypeOK
<1>1. /\ conn' = "opened" /\ UNCHANGED <<toClient, delivered>>
      /\ toBroker' = Append(toBroker, Publish(nextPub, NextMid, q, FALSE))
    BY DEF AppPublish, PublishSent, Call, brokerVars
<1>2. NextMid \in Mid /\ nextPub \in Pub
    BY <1>0, WireAssumption DEF PublishSent, Call, TypeOK, ClientTypeOK, NextMid, Mid
<1>3. PICK x \in ToBrokerPacket : x = Publish(nextPub, NextMid, q, FALSE) /\ x.type # "CONNECT"
    BY <1>0, <1>2, ToBrokerTypes DEF Publish
<1>4. toBroker # <<>> => Head(toBroker).type # "CONNECT"
  <2>1. toBroker # <<>> => Head(toBroker) \in Packets(toBroker)
      BY <1>0, PacketsTail
  <2> QED
      BY <2>1 DEF Setup
<1>5. toBroker' # <<>> /\ Head(toBroker').type # "CONNECT"
    BY <1>0, <1>1, <1>3, <1>4, HeadStays
<1>6. toClient' = <<>>
    BY <1>1 DEF Setup
<1>7. FirstDeliveriesInOrder'
    BY <1>1, FirstStays DEF OrderInv
<1>8. \A p \in Pub : state'[p] = "new" => p >= nextPub'
    BY NewestStay DEF OrderInv
<1> QED
    BY <1>1, <1>5, <1>6, <1>7, <1>8 DEF Doomed

LEMMA DoomedNext ==
    ASSUME SlotInv, OutInv, Idle, Doomed, [Next]_vars
    PROVE  Doomed' \/ OrderInv'
<1>0. TypeOK /\ toBroker \in Seq(ToBrokerPacket) /\ (\A q \in OutQos : q \in 1..2)
    BY SessionAssumption DEF SlotInv, TypeOK, WireTypeOK
<1>1. \A p \in Pub : state'[p] = "new" => p >= nextPub'
    BY NewestStay DEF Doomed
<1>2. ASSUME UNCHANGED <<delivered, toClient>>, conn' \in {"opened", "connecting"}, conn' = "connecting" => ~bUp',
             toBroker' = toBroker \/ \E x \in ToBrokerPacket : toBroker' = Append(toBroker, x)
      PROVE  Doomed'
  <2>1. toBroker' # <<>> /\ Head(toBroker').type # "CONNECT"
      BY <1>0, <1>2, HeadStays DEF Doomed
  <2>2. FirstDeliveriesInOrder'
      BY <1>2, FirstStays DEF Doomed
  <2> QED
      BY <1>1, <1>2, <2>1, <2>2 DEF Doomed
<1>3. ASSUME UNCHANGED delivered, conn' = "down", toBroker' = <<>>
      PROVE  OrderInv'
  <2>1. Ahead(<<>>, Owed')
      BY DEF Ahead
  <2>2. FirstDeliveriesInOrder'
      BY <1>3, FirstStays DEF Doomed
  <2> QED
      BY <1>1, <1>3, <2>1, <2>2 DEF OrderInv
<1>4. ASSUME NEW q \in OutQos, AppPublish(q)
      PROVE  Doomed'
  <2>1. /\ UNCHANGED <<conn, delivered, bUp, toClient>>
        /\ toBroker' = toBroker \/ PublishSent(q)
      BY <1>4 DEF AppPublish, PublishCall, PublishRejected, PublishSent, PublishOffline, PublishQueued, Call, brokerVars
  <2>2. PublishSent(q) => \E x \in ToBrokerPacket : toBroker' = Append(toBroker, x)
    <3> SUFFICES ASSUME PublishSent(q) PROVE \E x \in ToBrokerPacket : toBroker' = Append(toBroker, x)
        OBVIOUS
    <3>1. NextMid \in Mid /\ nextPub \in Pub
        BY <1>0, WireAssumption DEF PublishSent, Call, TypeOK, ClientTypeOK, NextMid, Mid
    <3>2. Publish(nextPub, NextMid, q, FALSE) \in ToBrokerPacket
        BY <1>0, <3>1, ToBrokerTypes
    <3> QED
        BY <3>2 DEF PublishSent
  <2> QED
      BY <1>2, <2>1, <2>2 DEF Doomed
<1>5. ASSUME NEW i \in In, NEW q \in 1..2, AppAck(i, q)
      PROVE  Doomed'
  <2>1. UNCHANGED <<conn, delivered, bUp, toClient>>
      BY <1>5 DEF AppAck, Ack, brokerVars
  <2>2. PICK t \in {"PUBACK", "PUBCOMP"} : toBroker' = toBroker \/ toBroker' = Append(toBroker, WithMid(t, i))
      BY <1>5 DEF AppAck, Ack
  <2>3. WithMid(t, i) \in ToBrokerPacket
      BY <2>2, ToBrokerTypes
  <2> QED
      BY <1>2, <2>1, <2>2, <2>3 DEF Doomed
<1>6. CASE EndReconnect
  <2>1. Connect(CleanSession) \in ToBrokerPacket
      BY ToBrokerTypes DEF CleanSession
  <2>2. /\ conn' = "connecting" /\ bUp' = FALSE /\ UNCHANGED <<delivered, toClient>>
        /\ toBroker' = Append(toBroker, Connect(CleanSession))
      BY <1>6 DEF EndReconnect, SendConnect
  <2> QED
      BY <1>2, <2>1, <2>2
<1>7. CASE AppConsume \/ UNCHANGED vars
    BY <1>2, <1>7 DEF AppConsume, ConsumeMid, vars, clientVars, wireVars, brokerVars, Doomed
<1>8. CASE BrokerCloses \/ Lost \/ LostEarly
    BY <1>3, <1>8 DEF BrokerCloses, Lost, LostEarly, Break, brokerVars
<1>9. ~Handle /\ ~(\E f \in Pub : LostInConnack(f)) /\ ~BeginReconnect /\ ~Open /\ ~NoRoute
    BY DEF Doomed, Handle, Handler, ConnackAccepted, ConnackRefused, HandleAck, HandlePubrec, HandlePublish, HandlePubrel,
           FreeSlot, HandOnSlot, Idle, LostInConnack, ConnackBroken, Receive, Arrives, BeginReconnect, ReconnectReset, Open, SocketOpened,
           NoRoute, SocketFailed
<1>10. ~BrokerHandles /\ ~Refused /\ ~(\E i \in In, q \in InQos : BrokerSends(i, q))
    BY DEF Doomed, BrokerHandles, BrokerReads, BrokerAccept, BrokerReceives, BrokerPublished, BrokerReleased, BrokerAck,
           BrokerAcked, Take, Arrives, Refused, BrokerRefuse, BrokerSends, BrokerPublish
<1> QED
    BY <1>4, <1>5, <1>6, <1>7, <1>8, <1>9, <1>10 DEF Next, AnyFault

LEMMA OrderedNext ==
    ASSUME "connecting" \notin PublishWhen, SlotInv, OutInv, DelivInv, OwnSession, First, Setup, Idle,
           Doomed \/ OrderInv, [Next]_vars
    PROVE  Doomed' \/ OrderInv'
<1>1. \A q \in OutQos : AppPublish(q) /\ PublishSent(q) => conn \in {"opened", "up"}
    BY DEF AppPublish, PublishSent, HasSocket
<1>2. CASE OrderInv /\ \A q \in OutQos : AppPublish(q) /\ PublishSent(q) => conn = "up"
    BY <1>2, OrderNext
<1> QED
    BY <1>1, <1>2, DoomedStarts, DoomedNext

LEMMA OrderInit == Init => OrderInv
<1> SUFFICES ASSUME Init PROVE OrderInv
    OBVIOUS
<1>1. /\ conn = "down" /\ toBroker = <<>> /\ nextPub = 1
      /\ \A p \in Pub : state[p] = "new" /\ delivered[p] = 0
    BY DEF Init, ClientInit, BrokerInit
<1>2. Ahead(<<>>, Owed)
    BY DEF Ahead
<1> QED
    BY <1>1, <1>2 DEF OrderInv, FirstDeliveriesInOrder, Pub

(* Subscribers see the messages for the first time in the order of          *)
(* publish(), whichever were queued, promoted, sent again or refused and    *)
(* whatever faults occur.  It needs an application that does not publish    *)
(* between CONNECT and CONNACK: such a message is sent before the older     *)
(* ones that _handle_connack sends again.  And it needs a broker that sends *)
(* no message of QoS 2: while _handle_pubrel has freed a slot and waits for *)
(* _out_message_mutex, publish() sends a new message before queued ones.    *)
THEOREM FirstDeliveriesOrdered ==
    NoOldSession /\ "connecting" \notin PublishWhen /\ 2 \notin InQos
        => (Spec => []FirstDeliveriesInOrder)
<1> SUFFICES ASSUME NoOldSession, "connecting" \notin PublishWhen, 2 \notin InQos
             PROVE  Spec => []FirstDeliveriesInOrder
    OBVIOUS
<1>1. SlotInv /\ OutInv /\ DelivInv /\ OwnSession /\ First /\ Setup /\ Idle /\ (Doomed \/ OrderInv)
        /\ [Next]_vars => (Doomed \/ OrderInv)'
    BY OrderedNext
<1>2. Doomed \/ OrderInv => FirstDeliveriesInOrder
    BY DEF OrderInv, Doomed
<1>3. Spec => []OwnSession
    BY SessionIsOwn
<1>4. Spec => [](Idle /\ \A i \in In : bQos[i] # 2)
    BY NeverReleasing
<1> QED
    BY <1>1, <1>2, <1>3, <1>4, OrderInit, SlotInvariant, OutInvariant, FirstInvariant, SetupInvariant,
       DeliveredInOwnSession, PTL DEF Spec
=============================================================================
