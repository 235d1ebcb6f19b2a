-------------------------- MODULE OutPacketsProofs --------------------------
(***************************************************************************)
(* Proofs about OutPackets: what reaches the socket is whole packets, and  *)
(* no message of a callback is dropped silently or reported in vain.       *)
(***************************************************************************)
EXTENDS OutPackets, TLAPS

-----------------------------------------------------------------------------
(* Sizes and sequences *)

LEMMA SizeIs ==
    /\ MaxPub \in Nat
    /\ \A m \in Names : Size[m] \in Nat \ {0}
BY OutPacketsAssumption DEF Names, Msg, NoInfo

LEMMA ConcatIs ==
    ASSUME NEW P, NEW s \in Seq(P), NEW t \in Seq(P)
    PROVE  /\ s \o t \in Seq(P) /\ Len(s \o t) = Len(s) + Len(t)
           /\ DOMAIN (s \o t) = 1..Len(s) + Len(t)
           /\ \A k \in 1..Len(s) : (s \o t)[k] = s[k]
           /\ \A i \in 1..Len(t) : (s \o t)[Len(s) + i] = t[i]
OBVIOUS

LEMMA InFront ==
    ASSUME NEW P, NEW x \in P, NEW s \in Seq(P)
    PROVE  /\ <<x>> \o s \in Seq(P) /\ <<x>> \o s # <<>>
           /\ DOMAIN (<<x>> \o s) = 1..Len(s) + 1 /\ Len(s) \in Nat /\ DOMAIN s = 1..Len(s)
           /\ (<<x>> \o s)[1] = x
           /\ \A k \in 1..Len(s) : (<<x>> \o s)[k + 1] = s[k]
<1>1. <<x>> \in Seq(P) /\ Len(<<x>>) = 1 /\ <<x>>[1] = x
    OBVIOUS
<1>2. <<x>> \o s \in Seq(P) /\ Len(<<x>> \o s) = Len(s) + 1 /\ Len(s) \in Nat
    BY <1>1
<1>3. (<<x>> \o s)[1] = x
    BY <1>1, <1>2
<1>4. \A k \in 1..Len(s) : (<<x>> \o s)[k + 1] = s[k]
    BY <1>1, <1>2
<1>5. <<x>> \o s # <<>>
    BY <1>2
<1> QED
    BY <1>2, <1>3, <1>4, <1>5

-----------------------------------------------------------------------------
(* Whole packets *)

Whole(s) ==
    \A k \in DOMAIN s :
       \/ /\ s[k][2] = 1
          /\ k = 1 \/ s[k - 1][2] = Size[s[k - 1][1]]
       \/ k # 1 /\ s[k] = <<s[k - 1][1], s[k - 1][2] + 1>>

(* The stream s ends where a packet ends, *)
Complete(s) == s = <<>> \/ s[Len(s)][2] = Size[s[Len(s)][1]]

(* or after o pieces of the packet m.                                       *)
Ends(s, m, o) == IF o = 0 THEN Complete(s) ELSE s # <<>> /\ s[Len(s)] = <<m, o>>

(* Writing on where the stream ends keeps packets whole.                    *)
LEMMA WholeExtends ==
    ASSUME NEW s \in Seq(Piece), NEW m \in Names, NEW o \in 0..Size[m] - 1, Whole(s), Ends(s, m, o),
           NEW n \in 1..Size[m] - o
    PROVE  /\ Whole(s \o Part(m, o, n))
           /\ IF n = Size[m] - o
              THEN Complete(s \o Part(m, o, n))
              ELSE Ends(s \o Part(m, o, n), m, o + n)
<1> DEFINE t == Part(m, o, n)
           u == s \o t
<1>0. Size[m] \in Nat \ {0} /\ o \in Nat /\ n \in Nat \ {0} /\ n <= Size[m] - o
    BY SizeIs
<1>1. o \in Nat /\ n \in Nat /\ Len(s) \in Nat /\ DOMAIN s = 1..Len(s)
    BY <1>0
<1>2. t \in Seq(Piece) /\ Len(t) = n /\ \A i \in 1..n : t[i] = <<m, o + i>>
    BY <1>1 DEF Part, Piece
<1> HIDE DEF t
<1>3. /\ u \in Seq(Piece) /\ Len(u) = Len(s) + n /\ DOMAIN u = 1..Len(s) + n
      /\ \A k \in 1..Len(s) : u[k] = s[k]
      /\ \A i \in 1..n : u[Len(s) + i] = <<m, o + i>>
  <2>1. /\ u \in Seq(Piece) /\ Len(u) = Len(s) + Len(t) /\ DOMAIN u = 1..Len(s) + Len(t)
        /\ \A k \in 1..Len(s) : u[k] = s[k]
        /\ \A i \in 1..Len(t) : u[Len(s) + i] = t[i]
    <3>1. t \in Seq(Piece)
        BY <1>2
    <3> QED
        BY <3>1, ConcatIs
  <2> HIDE DEF u
  <2> QED
      BY <1>2, <2>1
<1> HIDE DEF u
<1>4. ASSUME NEW k \in DOMAIN u
      PROVE  \/ /\ u[k][2] = 1
                /\ k = 1 \/ u[k - 1][2] = Size[u[k - 1][1]]
             \/ k # 1 /\ u[k] = <<u[k - 1][1], u[k - 1][2] + 1>>
  <2>1. CASE k \in 1..Len(s)
    <3>1. u[k] = s[k] /\ (k # 1 => k - 1 \in 1..Len(s) /\ u[k - 1] = s[k - 1])
        BY <1>1, <1>3, <2>1
    <3> QED
        BY <1>1, <2>1, <3>1 DEF Whole
  <2>2. CASE k = Len(s) + 1
    <3>1. u[k] = <<m, o + 1>> /\ k - 1 = Len(s)
      <4>1. 1 \in 1..n /\ k - 1 = Len(s)
          BY <1>0, <1>1, <2>2
      <4>2. u[Len(s) + 1] = <<m, o + 1>>
          BY <1>3, <4>1
      <4> QED
          BY <2>2, <4>1, <4>2
    <3>2. CASE s = <<>>
      <4>1. o = 0 /\ k = 1
          BY <2>2, <3>2 DEF Ends
      <4> QED
          BY <3>1, <4>1
    <3>3. CASE s # <<>>
      <4>1. Len(s) \in 1..Len(s) /\ u[k - 1] = s[Len(s)] /\ k # 1
          BY <1>1, <1>3, <2>2, <3>1, <3>3
      <4>2. CASE o = 0
          BY <3>1, <3>3, <4>1, <4>2 DEF Ends, Complete
      <4>3. CASE o # 0
          BY <3>1, <4>1, <4>3 DEF Ends
      <4> QED
          BY <4>2, <4>3
    <3> QED
        BY <3>2, <3>3
  <2>3. CASE k > Len(s) + 1
    <3>1. PICK i \in 1..n : k = Len(s) + i /\ i # 1 /\ i - 1 \in 1..n
      <4>1. k - Len(s) \in 1..n /\ k = Len(s) + (k - Len(s)) /\ k - Len(s) # 1
            /\ (k - Len(s)) - 1 \in 1..n
        <5>1. k \in Int /\ k <= Len(s) + n
            BY <1>1, <1>3
        <5> QED
            BY <1>1, <2>3, <5>1
      <4> QED
          BY <4>1
    <3>2. u[k] = <<m, o + i>> /\ k - 1 = Len(s) + (i - 1) /\ k # 1
        BY <1>1, <1>3, <3>1
    <3>3. u[k - 1] = <<m, o + (i - 1)>>
        BY <1>3, <3>1, <3>2
    <3>4. o + i = (o + (i - 1)) + 1
        BY <1>1
    <3> QED
        BY <3>2, <3>3, <3>4
  <2> QED
      BY <1>1, <1>3, <2>1, <2>2, <2>3
<1>5. Whole(u)
    BY <1>4 DEF Whole
<1>6. u # <<>> /\ u[Len(u)] = <<m, o + n>> /\ o + n # 0
  <2>1. n \in 1..n /\ Len(s) + n # 0 /\ o + n # 0
      BY <1>0, <1>1
  <2>2. u[Len(s) + n] = <<m, o + n>>
      BY <1>3, <2>1
  <2> QED
      BY <1>3, <2>1, <2>2
<1>7. IF n = Size[m] - o THEN Complete(u) ELSE Ends(u, m, o + n)
  <2>1. CASE n = Size[m] - o
    <3>1. o + n = Size[m]
        BY <1>0, <2>1
    <3> QED
        BY <1>6, <2>1, <3>1 DEF Complete
  <2>2. CASE n # Size[m] - o
      BY <1>6, <2>2 DEF Ends
  <2> QED
      BY <2>1, <2>2
<1> QED
    BY <1>5, <1>7 DEF u, t

-----------------------------------------------------------------------------
(* What the socket has taken fits the packets still to be written *)

Begun(q) == q[1].pos < Size[q[1].msg] /\ Ends(stream, q[1].msg, q[1].pos)
Unbegun(q) == \A k \in DOMAIN q : q[k].pos = 0
OneBegun(q) == \A k \in 2..Len(q) : q[k].pos = 0

OnTcp ==
    IF held # <<>> THEN Begun(held) /\ Unbegun(outPacket)
    ELSE IF outPacket # <<>> THEN Begun(outPacket) /\ OneBegun(outPacket)
    ELSE Complete(stream)

(* If the socket takes no parts, a frame the wrapper has begun is that of   *)
(* the first packet in line, and whole.                                     *)
Frame ==
    /\ sendbuffer[1].pos = 0 /\ requested = Size[sendbuffer[1].msg]
    /\ IF held # <<>> THEN sendbuffer[1].msg = held[1].msg
       ELSE outPacket # <<>> /\ sendbuffer[1].msg = outPacket[1].msg

OnWeb ==
    /\ Unbegun(outPacket) /\ Unbegun(held)
    /\ Complete(stream)
    /\ sendbuffer # <<>> => Frame

Fits ==
    /\ transport = "tcp" => OnTcp
    /\ transport = "websockets" => OnWeb

Place ==
    /\ sock <=> net \in {"turn", "greet"}
    /\ held # <<>> => net = "turn"
    /\ net = "marking" => next > 0
    /\ net = "open" => Unbegun(outPacket)
    /\ net \in {"turn", "greet"} => Fits

WholeStream == transport # "websockets_parts" => Whole(stream)

WriteInv == TypeOK /\ WholeStream /\ Place

LEMMA NewPacketIs ==
    ASSUME NEW m \in Names
    PROVE  NewPacket(m) \in Packet /\ NewPacket(m).pos = 0 /\ NewPacket(m).msg = m
BY SizeIs DEF NewPacket, Packet, Names

LEMMA TypeStep ==
    ASSUME TypeOK, net = "marking" => next > 0, [Next]_vars
    PROVE  TypeOK'
<1> USE SizeIs
<1> USE DEF fixed, infoVars, loopVars, wireVars
<1>1. ASSUME NEW m \in Msg, SetAsPublished(m)
      PROVE  /\ published' \in [Msg -> BOOLEAN]
             /\ waiting' \in [Msg \X Waiters -> {"no", "asleep", "done"}]
    BY <1>1 DEF SetAsPublished, Wake, TypeOK
<1>2. ASSUME NEW pkt \in Packet
      PROVE  /\ PutBack(pkt) \in Seq(Packet)
             /\ Left(pkt) \in Nat
             /\ \A n \in Nat : [pkt EXCEPT !.pos = @ + n] \in Packet
             /\ \A n \in Nat : Emit(pkt, n) => stream' \in Seq(Piece) /\ written' \subseteq Msg
  <2>1. pkt.msg \in Names /\ pkt.pos \in Nat /\ Size[pkt.msg] \in Nat
      BY DEF Packet
  <2>2. \A n \in Nat : Part(pkt.msg, pkt.pos, n) \in Seq(Piece)
      BY <2>1 DEF Part, Piece
  <2>3. \A n \in Nat : stream \o Part(pkt.msg, pkt.pos, n) \in Seq(Piece)
      BY <2>2 DEF TypeOK
  <2>4. \A n \in Nat : Emit(pkt, n) => stream' \in Seq(Piece) /\ written' \subseteq Msg
      BY <2>1, <2>3 DEF Emit, TypeOK, Names
  <2>5. PutBack(pkt) \in Seq(Packet)
      BY DEF PutBack, TypeOK
  <2>6. Left(pkt) \in Nat
      BY <2>1 DEF Left
  <2>7. \A n \in Nat : [pkt EXCEPT !.pos = @ + n] \in Packet
      BY <2>1 DEF Packet
  <2> QED
      BY <2>4, <2>5, <2>6, <2>7
<1>3. held # <<>> => held[1] \in Packet /\ held[1].msg \in Names
  <2> SUFFICES ASSUME held # <<>> PROVE held[1] \in Packet
      BY DEF Packet
  <2>1. held \in Seq(Packet) /\ Len(held) # 0 /\ Len(held) <= 1
      BY DEF TypeOK
  <2>2. 1 \in 1..Len(held)
      BY <2>1
  <2> QED
      BY <2>1, <2>2
<1>4. outPacket # <<>> => Head(outPacket) \in Packet /\ Tail(outPacket) \in Seq(Packet)
    BY DEF TypeOK
<1>5. ASSUME NEW m \in Msg, PublishCheck(m) \/ PublishReturn(m) PROVE TypeOK'
    BY <1>5 DEF PublishCheck, PublishReturn, TypeOK
<1>6. ASSUME NEW m \in Msg, PublishQueue(m) \/ PublishInCallback(m) PROVE TypeOK'
  <2>1. NewPacket(m) \in Packet
      BY NewPacketIs DEF Names
  <2>2. Append(outPacket, NewPacket(m)) \in Seq(Packet)
      BY <2>1 DEF TypeOK
  <2> QED
      BY <1>6, <2>2 DEF PublishQueue, PublishInCallback, TypeOK
<1>7. ASSUME NEW m \in Msg, NEW w \in Waiters, Wait(m, w) PROVE TypeOK'
    BY <1>7 DEF Wait, TypeOK
<1>8. CASE Pop
  <2>1. <<Head(outPacket)>> \in Seq(Packet) /\ Len(<<Head(outPacket)>>) = 1
      BY <1>4, <1>8 DEF Pop
  <2> QED
      BY <1>4, <1>8, <2>1 DEF Pop, TypeOK
<1>9. ASSUME held # <<>>, NEW n \in Nat, Wrote(n)
      PROVE  /\ outPacket' \in Seq(Packet) /\ held' = <<>>
             /\ published' \in [Msg -> BOOLEAN]
             /\ waiting' \in [Msg \X Waiters -> {"no", "asleep", "done"}]
  <2> DEFINE pkt == held[1]
  <2>1. pkt \in Packet /\ pkt.msg \in Names
      BY <1>3, <1>9
  <2>2. held' = <<>>
      BY <1>9 DEF Wrote
  <2>3. CASE UNCHANGED <<outPacket, published, waiting>>
      BY <2>2, <2>3 DEF TypeOK
  <2>4. CASE outPacket' = PutBack([pkt EXCEPT !.pos = @ + n]) /\ UNCHANGED <<published, waiting>>
    <3>1. [pkt EXCEPT !.pos = @ + n] \in Packet
        BY <1>2, <2>1
    <3> QED
        BY <1>2, <2>2, <2>4, <3>1 DEF TypeOK
  <2>5. CASE outPacket' = outPacket /\ pkt.msg # NoInfo /\ SetAsPublished(pkt.msg)
      BY <1>1, <2>1, <2>2, <2>5 DEF TypeOK, Names
  <2> QED
      BY <1>9, <2>3, <2>4, <2>5 DEF Wrote
<1>10. ASSUME held # <<>>, NEW n \in Nat, NEW b \in Packet, NEW k \in Nat, Emit(b, k), Wrote(n),
              UNCHANGED <<fixed, sock, loopVars, call, rc, breaks>>,
              sendbuffer' \in Seq(Packet), Len(sendbuffer') <= 1, requested' \in Nat
       PROVE  TypeOK'
  <2>1. stream' \in Seq(Piece) /\ written' \subseteq Msg
      BY <1>2, <1>10
  <2>2. /\ outPacket' \in Seq(Packet) /\ held' = <<>>
        /\ published' \in [Msg -> BOOLEAN]
        /\ waiting' \in [Msg \X Waiters -> {"no", "asleep", "done"}]
      BY <1>9, <1>10
  <2>3. held' \in Seq(Packet) /\ Len(held') <= 1
      BY <2>2
  <2> QED
      BY <1>10, <2>1, <2>2, <2>3 DEF TypeOK
<1>11. held # <<>> => Buffer \in Packet /\ Left(Buffer) \in Nat /\ Requested \in Nat
  <2> SUFFICES ASSUME held # <<>> PROVE Buffer \in Packet /\ Requested \in Nat
      BY <1>2
  <2>1. CASE sendbuffer = <<>>
      BY <1>2, <1>3, <2>1 DEF Buffer, Requested
  <2>2. CASE sendbuffer # <<>>
    <3>1. 1 \in 1..Len(sendbuffer) /\ sendbuffer \in Seq(Packet)
        BY <2>2 DEF TypeOK
    <3>2. sendbuffer[1] \in Packet
        BY <3>1
    <3> QED
        BY <2>2, <3>2 DEF Buffer, Requested, TypeOK
  <2> QED
      BY <2>1, <2>2
<1>12. CASE Blocked
  <2>1. outPacket' \in Seq(Packet) /\ held' = <<>>
      BY <1>2, <1>3, <1>12 DEF Blocked
  <2>2. sendbuffer' \in Seq(Packet) /\ Len(sendbuffer') <= 1 /\ requested' \in Nat
    <3>1. CASE transport = "tcp"
        BY <1>12, <3>1 DEF Blocked, TypeOK
    <3>2. CASE transport # "tcp"
      <4>1. sendbuffer' = <<Buffer>> /\ requested' = Requested /\ Buffer \in Packet /\ Requested \in Nat
          BY <1>11, <1>12, <3>2 DEF Blocked
      <4> QED
          BY <4>1
    <3> QED
        BY <3>1, <3>2
  <2> QED
      BY <1>12, <2>1, <2>2 DEF Blocked, TypeOK
<1>18. CASE SendTcp
  <2>1. PICK n \in 1..Left(held[1]) : Emit(held[1], n) /\ Wrote(n)
      BY <1>18 DEF SendTcp
  <2>2. n \in Nat /\ held # <<>> /\ held[1] \in Packet
      BY <1>2, <1>3, <1>18 DEF SendTcp
  <2>3. UNCHANGED <<fixed, sock, loopVars, call, rc, sendbuffer, requested, breaks>>
      BY <1>18 DEF SendTcp
  <2>4. sendbuffer' \in Seq(Packet) /\ Len(sendbuffer') <= 1 /\ requested' \in Nat
      BY <2>3 DEF TypeOK
  <2> QED
      BY <1>10, <2>1, <2>2, <2>3, <2>4
<1>19. CASE SendFrame
  <2>1. /\ held # <<>> /\ Emit(Buffer, Left(Buffer)) /\ Wrote(Requested)
        /\ sendbuffer' = <<>> /\ requested' = Requested
        /\ UNCHANGED <<fixed, sock, loopVars, call, rc, breaks>>
      BY <1>19 DEF SendFrame
  <2>2. Buffer \in Packet /\ Left(Buffer) \in Nat /\ Requested \in Nat
      BY <1>11, <2>1
  <2>3. sendbuffer' \in Seq(Packet) /\ Len(sendbuffer') <= 1
      BY <2>1
  <2> QED
      BY <1>10, <2>1, <2>2, <2>3
<1>20. CASE SendPart
  <2>1. /\ held # <<>> /\ Wrote(0) /\ requested' = Requested
        /\ UNCHANGED <<fixed, sock, loopVars, call, rc, breaks>>
      BY <1>20 DEF SendPart
  <2>2. Buffer \in Packet /\ Left(Buffer) \in Nat /\ Requested \in Nat
      BY <1>11, <2>1
  <2>3. PICK n \in {0} \cup 1..Left(Buffer) - 1 :
            Emit(Buffer, n) /\ sendbuffer' = <<[Buffer EXCEPT !.pos = @ + n]>>
      BY <1>20 DEF SendPart
  <2>4. n \in Nat /\ [Buffer EXCEPT !.pos = @ + n] \in Packet
      BY <1>2, <2>2
  <2>5. sendbuffer' \in Seq(Packet) /\ Len(sendbuffer') <= 1
      BY <2>3, <2>4
  <2> QED
      BY <1>10, <2>1, <2>2, <2>3, <2>4, <2>5
<1>13. CASE Break
  <2>1. outPacket' \in Seq(Packet)
      BY <1>2, <1>3, <1>13 DEF Break, TypeOK
  <2>2. breaks' \in Nat /\ held' = <<>> /\ net' = "closed" /\ sock' = FALSE
      BY <1>13 DEF Break, TypeOK
  <2>3. UNCHANGED <<fixed, next, length, call, infoVars, wireVars>>
      BY <1>13 DEF Break
  <2>4. held' \in Seq(Packet) /\ Len(held') <= 1
      BY <2>2
  <2>5. /\ fixed' = fixed /\ next' = next /\ length' = length /\ call' = call
        /\ infoVars' = infoVars /\ wireVars' = wireVars
      BY <2>3
  <2> QED
      BY <2>1, <2>2, <2>4, <2>5 DEF TypeOK
<1>14. CASE MarkBegin \/ Clear \/ Open
  <2>1. CASE MarkBegin
      BY <1>14, <2>1 DEF MarkBegin, TypeOK
  <2>2. CASE Clear
      BY <1>14, <2>2 DEF Clear, TypeOK
  <2>3. CASE Open
      BY <1>14, <2>3 DEF Open, TypeOK
  <2> QED
      BY <1>14, <2>1, <2>2, <2>3
<1>15. CASE MarkNext
  <2>1. ASSUME NEW m \in Msg, MarkLost(m)
        PROVE  /\ rc' \in [Msg -> {"SUCCESS", "NO_CONN", "CONN_LOST"}]
               /\ published' \in [Msg -> BOOLEAN]
               /\ waiting' \in [Msg \X Waiters -> {"no", "asleep", "done"}]
      BY <1>1, <2>1 DEF MarkLost, TypeOK
  <2>2. ASSUME Len(outPacket) = length, next <= length, next \in 1..length
        PROVE outPacket[next].msg \in Names
    <3>1. outPacket[next] \in Packet
        BY <2>2 DEF TypeOK
    <3> QED
        BY <3>1 DEF Packet, Names
  <2>3. /\ rc' \in [Msg -> {"SUCCESS", "NO_CONN", "CONN_LOST"}]
        /\ published' \in [Msg -> BOOLEAN]
        /\ waiting' \in [Msg \X Waiters -> {"no", "asleep", "done"}]
    <3>1. CASE UNCHANGED infoVars
        BY <3>1 DEF TypeOK
    <3>2. CASE ~UNCHANGED infoVars
      <4>1. Len(outPacket) = length /\ next <= length /\ next \in 1..length
          BY <1>15, <3>2 DEF MarkNext, TypeOK
      <4>2. outPacket[next].msg # NoInfo /\ MarkLost(outPacket[next].msg)
          BY <1>15, <3>2, <4>1 DEF MarkNext
      <4> QED
          BY <2>1, <2>2, <4>1, <4>2 DEF Names
    <3> QED
        BY <3>1, <3>2
  <2> QED
      BY <1>15, <2>3 DEF MarkNext, TypeOK
<1>16. CASE Greet
    BY <1>16, NewPacketIs DEF Greet, TypeOK, Names
<1>17. CASE UNCHANGED vars
    BY <1>17 DEF vars, TypeOK
<1> QED
    BY <1>5, <1>6, <1>7, <1>8, <1>12, <1>13, <1>14, <1>15, <1>16, <1>17,
       <1>18, <1>19, <1>20
    DEF Next, Network

(* A new packet at the end of the line.                                     *)
LEMMA AppendFits ==
    ASSUME TypeOK, Fits, NEW m \in Names, outPacket' = Append(outPacket, NewPacket(m)),
           UNCHANGED <<transport, held, sendbuffer, requested, stream>>
    PROVE  Fits'
<1> DEFINE p == NewPacket(m)
<1>1. p \in Packet /\ p.pos = 0 /\ p.pos < Size[p.msg] /\ outPacket \in Seq(Packet)
      /\ Len(outPacket) \in Nat
    BY NewPacketIs, SizeIs DEF TypeOK
<1>2. /\ DOMAIN outPacket = 1..Len(outPacket) /\ DOMAIN outPacket' = 1..Len(outPacket) + 1
      /\ Len(outPacket') = Len(outPacket) + 1 /\ outPacket' # <<>>
      /\ \A k \in 1..Len(outPacket) : outPacket'[k] = outPacket[k]
      /\ outPacket'[Len(outPacket) + 1] = p
    BY <1>1
<1>3. Unbegun(outPacket) => Unbegun(outPacket')
    BY <1>1, <1>2 DEF Unbegun
<1>4. OneBegun(outPacket) => OneBegun(outPacket')
    BY <1>1, <1>2 DEF OneBegun
<1>5. outPacket # <<>> => outPacket'[1] = outPacket[1]
    BY <1>1, <1>2
<1>6. outPacket = <<>> => outPacket'[1] = p /\ OneBegun(outPacket')
    BY <1>1, <1>2 DEF OneBegun
<1>7. CASE transport = "tcp"
  <2>1. CASE held = <<>> /\ outPacket = <<>>
      BY <1>1, <1>2, <1>6, <1>7, <2>1 DEF Fits, OnTcp, Begun, Ends
  <2>2. CASE held = <<>> /\ outPacket # <<>>
      BY <1>2, <1>4, <1>5, <1>7, <2>2 DEF Fits, OnTcp, Begun
  <2>3. CASE held # <<>>
      BY <1>3, <1>7, <2>3 DEF Fits, OnTcp, Begun
  <2> QED
      BY <2>1, <2>2, <2>3
<1>8. CASE transport = "websockets"
    BY <1>2, <1>3, <1>5, <1>8 DEF Fits, OnWeb, Frame
<1> QED
    BY <1>7, <1>8 DEF Fits

(* The packet _packet_write has popped is in front again.                   *)
LEMMA PutBackIs ==
    ASSUME TypeOK, NEW pkt \in Packet
    PROVE  /\ PutBack(pkt) # <<>> /\ PutBack(pkt)[1] = pkt
           /\ Unbegun(outPacket) => OneBegun(PutBack(pkt))
           /\ Unbegun(outPacket) /\ pkt.pos = 0 => Unbegun(PutBack(pkt))
<1>1. outPacket \in Seq(Packet)
    BY DEF TypeOK
<1> DEFINE q == PutBack(pkt)
<1>2. /\ q # <<>> /\ q[1] = pkt /\ DOMAIN q = 1..Len(outPacket) + 1 /\ Len(q) = Len(outPacket) + 1
      /\ Len(outPacket) \in Nat /\ DOMAIN outPacket = 1..Len(outPacket)
      /\ \A k \in 1..Len(outPacket) : q[k + 1] = outPacket[k]
    BY <1>1, InFront DEF PutBack
<1> HIDE DEF q
<1>3. ASSUME Unbegun(outPacket), NEW k \in 2..Len(q) PROVE q[k].pos = 0
  <2>1. k - 1 \in 1..Len(outPacket) /\ k = (k - 1) + 1
      BY <1>2
  <2>2. q[k] = outPacket[k - 1]
      BY <1>2, <2>1
  <2> QED
      BY <1>2, <1>3, <2>1, <2>2 DEF Unbegun
<1>4. ASSUME Unbegun(outPacket), pkt.pos = 0, NEW k \in 1..Len(outPacket) + 1 PROVE q[k].pos = 0
  <2>1. k = 1 \/ k \in 2..Len(q)
      BY <1>2
  <2> QED
      BY <1>2, <1>3, <1>4, <2>1
<1>5. q # <<>> /\ q[1] = pkt /\ (Unbegun(outPacket) => OneBegun(q))
    BY <1>2, <1>3 DEF OneBegun
<1>6. Unbegun(outPacket) /\ pkt.pos = 0 => Unbegun(q)
    BY <1>2, <1>4 DEF Unbegun
<1> QED
    BY <1>5, <1>6 DEF q

LEMMA HeldIs ==
    ASSUME TypeOK, held # <<>>
    PROVE  /\ held[1] \in Packet /\ held[1].msg \in Names /\ held[1].pos \in Nat
           /\ DOMAIN held = {1}
<1>1. held \in Seq(Packet) /\ Len(held) # 0 /\ Len(held) <= 1
    BY DEF TypeOK
<1>2. 1 \in 1..Len(held) /\ DOMAIN held = {1}
  <2>1. Len(held) \in Nat /\ DOMAIN held = 1..Len(held)
      BY <1>1
  <2>2. Len(held) = 1
      BY <1>1, <2>1
  <2> QED
      BY <2>1, <2>2
<1>3. held[1] \in Packet
    BY <1>1, <1>2
<1> QED
    BY <1>2, <1>3 DEF Packet

(* What the socket takes in a call of _packet_write goes on with the packet *)
(* that is held, where the stream ends, and _packet_write is told so.       *)
LEMMA SentIs ==
    ASSUME WriteInv, transport # "websockets_parts", SendTcp \/ SendFrame
    PROVE  /\ held # <<>> /\ held[1].pos \in 0..Size[held[1].msg] - 1
           /\ Unbegun(outPacket) /\ Ends(stream, held[1].msg, held[1].pos)
           /\ \E n \in 1..Size[held[1].msg] - held[1].pos :
                 /\ Emit(held[1], n) /\ Wrote(n)
                 /\ transport = "websockets" => n = Size[held[1].msg] /\ held[1].pos = 0
           /\ transport = "websockets" => sendbuffer' = <<>>
<1> DEFINE pkt == held[1]
<1>1. /\ TypeOK /\ held # <<>> /\ net = "turn" /\ Fits
      /\ transport \in {"tcp", "websockets"}
  <2>1. transport \in {"tcp", "websockets", "websockets_parts"}
      BY OutPacketsAssumption DEF WriteInv, TypeOK
  <2> QED
      BY <2>1 DEF SendTcp, SendFrame, WriteInv, Place
<1>2. pkt \in Packet /\ pkt.msg \in Names /\ pkt.pos \in Nat /\ Size[pkt.msg] \in Nat \ {0}
      /\ DOMAIN held = {1}
    BY <1>1, HeldIs, SizeIs
<1>3. CASE transport = "tcp"
  <2>1. Unbegun(outPacket) /\ Ends(stream, pkt.msg, pkt.pos) /\ pkt.pos < Size[pkt.msg]
      BY <1>1, <1>3 DEF Fits, OnTcp, Begun
  <2>2. Left(pkt) = Size[pkt.msg] - pkt.pos
      BY <2>1 DEF Left
  <2>3. \E n \in 1..Left(pkt) : Emit(pkt, n) /\ Wrote(n)
      BY <1>3 DEF SendTcp, SendFrame
  <2> QED
      BY <1>1, <1>2, <1>3, <2>1, <2>2, <2>3
<1>4. CASE transport = "websockets"
  <2>1. /\ pkt.pos = 0 /\ Unbegun(outPacket) /\ Complete(stream)
        /\ sendbuffer # <<>> => Frame
      BY <1>1, <1>2, <1>4 DEF Fits, OnWeb, Unbegun
  <2>2. Left(pkt) = Size[pkt.msg]
      BY <1>2, <2>1 DEF Left
  <2>3. Buffer = pkt /\ Requested = Size[pkt.msg]
    <3>1. CASE sendbuffer = <<>>
        BY <2>2, <3>1 DEF Buffer, Requested
    <3>2. CASE sendbuffer # <<>>
      <4>1. sendbuffer[1].pos = 0 /\ sendbuffer[1].msg = pkt.msg /\ requested = Size[pkt.msg]
          BY <1>1, <2>1, <3>2 DEF Frame
      <4>2. sendbuffer[1] \in Packet
        <5>1. 1 \in 1..Len(sendbuffer) /\ sendbuffer \in Seq(Packet)
            BY <1>1, <3>2 DEF TypeOK
        <5> QED
            BY <5>1
      <4>3. sendbuffer[1] = pkt
          BY <1>2, <2>1, <4>1, <4>2 DEF Packet
      <4> QED
          BY <3>2, <4>1, <4>3 DEF Buffer, Requested
    <3> QED
        BY <3>1, <3>2
  <2>4. Emit(pkt, Size[pkt.msg]) /\ Wrote(Size[pkt.msg]) /\ sendbuffer' = <<>>
      BY <1>4, <2>2, <2>3 DEF SendFrame, SendTcp
  <2>5. Size[pkt.msg] \in 1..Size[pkt.msg] - pkt.pos /\ pkt.pos \in 0..Size[pkt.msg] - 1
      BY <1>2, <2>1
  <2>6. Ends(stream, pkt.msg, pkt.pos)
      BY <2>1 DEF Ends
  <2> QED
      BY <1>1, <2>1, <2>4, <2>5, <2>6
<1> QED
    BY <1>1, <1>3, <1>4

(* Where a packet ends the next in line begins.                             *)
LEMMA BeginsAnew ==
    ASSUME Complete(stream'), held' = <<>>, transport' = "websockets" => sendbuffer' = <<>>,
           Unbegun(outPacket'), outPacket' \in Seq(Packet)
    PROVE  Fits'
<1>1. CASE transport' = "websockets"
    BY <1>1 DEF Fits, OnWeb, Unbegun
<1>2. CASE transport' = "tcp" /\ outPacket' = <<>>
    BY <1>2 DEF Fits, OnTcp
<1>3. CASE transport' = "tcp" /\ outPacket' # <<>>
  <2>1. 1 \in DOMAIN outPacket' /\ \A k \in 2..Len(outPacket') : k \in DOMAIN outPacket'
      BY <1>3
  <2>2. outPacket'[1].pos = 0 /\ OneBegun(outPacket')
      BY <2>1 DEF Unbegun, OneBegun
  <2>3. Size[outPacket'[1].msg] \in Nat \ {0}
    <3>1. outPacket'[1] \in Packet
        BY <2>1
    <3>2. outPacket'[1].msg \in Names
        BY <3>1 DEF Packet
    <3> QED
        BY <3>2, SizeIs
  <2> QED
      BY <1>3, <2>2, <2>3 DEF Fits, OnTcp, Begun, Ends
<1> QED
    BY <1>1, <1>2, <1>3 DEF Fits

LEMMA SentFits ==
    ASSUME WriteInv, TypeOK', SendTcp \/ SendFrame \/ SendPart
    PROVE  WholeStream' /\ Place'
<1> USE DEF fixed, infoVars, loopVars, wireVars
<1> DEFINE pkt == held[1]
<1>1. held # <<>> /\ net = "turn" /\ held' = <<>> /\ net' = net /\ sock' = sock /\ transport' = transport
      /\ TypeOK /\ WholeStream /\ Place
    BY DEF SendTcp, SendFrame, SendPart, Wrote, WriteInv
<1>2. Fits' => Place'
    BY <1>1 DEF Place
<1>3. CASE transport = "websockets_parts"
    BY <1>1, <1>2, <1>3 DEF Fits, WholeStream
<1>4. CASE transport # "websockets_parts"
  <2>1. SendTcp \/ SendFrame
      BY <1>4 DEF SendPart
  <2>2. /\ pkt.pos \in 0..Size[pkt.msg] - 1
        /\ Unbegun(outPacket) /\ Ends(stream, pkt.msg, pkt.pos)
        /\ transport' = "websockets" => sendbuffer' = <<>>
      BY <1>1, <1>4, <2>1, SentIs
  <2>3. PICK n \in 1..Size[pkt.msg] - pkt.pos :
            /\ Emit(pkt, n) /\ Wrote(n)
            /\ transport = "websockets" => n = Size[pkt.msg] /\ pkt.pos = 0
      BY <1>4, <2>1, SentIs
  <2>4. pkt \in Packet /\ pkt.msg \in Names /\ stream \in Seq(Piece) /\ Size[pkt.msg] \in Nat \ {0}
      BY <1>1, HeldIs, SizeIs DEF TypeOK
  <2>5. stream' = stream \o Part(pkt.msg, pkt.pos, n) /\ Whole(stream)
      BY <1>1, <1>4, <2>3 DEF Emit, WholeStream
  <2>6. /\ Whole(stream')
        /\ IF n = Size[pkt.msg] - pkt.pos THEN Complete(stream')
           ELSE Ends(stream', pkt.msg, pkt.pos + n)
      BY <2>2, <2>4, <2>5, WholeExtends
  <2>7. CASE n = Size[pkt.msg] - pkt.pos
    <3>1. outPacket' = outPacket
        BY <2>2, <2>3, <2>4, <2>7 DEF Wrote
    <3> QED
        BY <1>1, <1>2, <2>2, <2>6, <2>7, <3>1, BeginsAnew DEF TypeOK, WholeStream
  <2>8. CASE n # Size[pkt.msg] - pkt.pos
    <3> DEFINE rest == [pkt EXCEPT !.pos = @ + n]
    <3>1. transport # "websockets" /\ outPacket' = PutBack(rest)
        BY <2>2, <2>3, <2>4, <2>8 DEF Wrote
    <3>2. rest \in Packet /\ rest.msg = pkt.msg /\ rest.pos = pkt.pos + n
          /\ rest.pos < Size[pkt.msg]
        BY <2>2, <2>4, <2>8 DEF Packet
    <3> HIDE DEF rest
    <3>3. outPacket' # <<>> /\ outPacket'[1] = rest /\ OneBegun(outPacket')
        BY <1>1, <2>2, <3>1, <3>2, PutBackIs
    <3>4. Fits'
        BY <1>1, <2>6, <2>8, <3>1, <3>2, <3>3 DEF Fits, OnTcp, Begun
    <3> QED
        BY <1>2, <2>6, <3>4 DEF WholeStream
  <2> QED
      BY <2>7, <2>8
<1> QED
    BY <1>3, <1>4

LEMMA WriteStep ==
    ASSUME WriteInv, [Next]_vars
    PROVE  WriteInv'
<1> USE DEF fixed, infoVars, loopVars, wireVars
<1>1. TypeOK /\ TypeOK' /\ WholeStream /\ Place
    BY TypeStep DEF WriteInv, Place
<1> SUFFICES WholeStream' /\ Place'
    BY <1>1 DEF WriteInv
<1>2. ASSUME NEW m \in Msg, PublishCheck(m) \/ PublishReturn(m) PROVE WholeStream' /\ Place'
  <2>1. UNCHANGED <<transport, sock, outPacket, held, net, next, sendbuffer, requested, stream>>
      BY <1>2 DEF PublishCheck, PublishReturn
  <2> QED
      BY <1>1, <2>1 DEF WholeStream, Place, Fits, OnTcp, OnWeb, Begun, Unbegun, OneBegun, Frame
<1>3. ASSUME NEW m \in Msg, PublishQueue(m) \/ PublishInCallback(m) PROVE WholeStream' /\ Place'
  <2>1. UNCHANGED <<transport, sock, held, net, next, sendbuffer, requested, stream>>
      BY <1>3 DEF PublishQueue, PublishInCallback
  <2>2. CASE outPacket' = outPacket
      BY <1>1, <2>1, <2>2 DEF WholeStream, Place, Fits, OnTcp, OnWeb, Begun, Unbegun, OneBegun, Frame
  <2>3. CASE outPacket' = Append(outPacket, NewPacket(m))
    <3>1. m \in Names
        BY DEF Names
    <3>2. net \in {"turn", "greet"} => Fits'
        BY <1>1, <2>1, <2>3, <3>1, AppendFits DEF Place
    <3>3. Unbegun(outPacket) => Unbegun(outPacket')
      <4>1. outPacket \in Seq(Packet) /\ NewPacket(m) \in Packet /\ NewPacket(m).pos = 0
          BY <1>1, <3>1, NewPacketIs DEF TypeOK
      <4>2. /\ DOMAIN outPacket' = 1..Len(outPacket) + 1 /\ DOMAIN outPacket = 1..Len(outPacket)
            /\ Len(outPacket) \in Nat
            /\ \A k \in 1..Len(outPacket) : outPacket'[k] = outPacket[k]
            /\ outPacket'[Len(outPacket) + 1] = NewPacket(m)
          BY <2>3, <4>1
      <4> QED
          BY <4>1, <4>2 DEF Unbegun
    <3> QED
        BY <1>1, <2>1, <3>2, <3>3 DEF Place, WholeStream
  <2> QED
      BY <1>3, <2>2, <2>3 DEF PublishQueue, PublishInCallback
<1>4. ASSUME NEW m \in Msg, NEW w \in Waiters, Wait(m, w) PROVE WholeStream' /\ Place'
  <2>1. UNCHANGED <<transport, sock, outPacket, held, net, next, sendbuffer, requested, stream>>
      BY <1>4 DEF Wait
  <2> QED
      BY <1>1, <2>1 DEF WholeStream, Place, Fits, OnTcp, OnWeb, Begun, Unbegun, OneBegun, Frame
<1>5. CASE Pop
  <2>1. outPacket \in Seq(Packet) /\ outPacket # <<>> /\ held = <<>> /\ net = "turn" /\ Fits
      BY <1>1, <1>5 DEF Pop, TypeOK, Place
  <2>2. /\ held' = <<outPacket[1]>> /\ outPacket' = Tail(outPacket)
        /\ UNCHANGED <<transport, sock, net, next, sendbuffer, requested, stream>>
      BY <1>5 DEF Pop
  <2>3. held' # <<>> /\ held'[1] = outPacket[1] /\ DOMAIN held' = {1}
      BY <2>2
  <2>4. /\ Len(outPacket) \in Nat \ {0} /\ DOMAIN outPacket = 1..Len(outPacket)
        /\ DOMAIN outPacket' = 1..Len(outPacket) - 1
        /\ \A k \in 1..Len(outPacket) - 1 : outPacket'[k] = outPacket[k + 1]
      BY <2>1, <2>2
  <2>5. OneBegun(outPacket) \/ Unbegun(outPacket) => Unbegun(outPacket')
      BY <2>4 DEF OneBegun, Unbegun
  <2>6. Unbegun(outPacket) => Unbegun(held')
    <3>1. 1 \in DOMAIN outPacket
        BY <2>4
    <3> QED
        BY <2>3, <3>1 DEF Unbegun
  <2>7. transport = "tcp" => OnTcp'
      BY <2>1, <2>2, <2>3, <2>5 DEF Fits, OnTcp, Begun
  <2>8. Frame => Frame'
      BY <2>1, <2>2, <2>3 DEF Frame
  <2>9. transport = "websockets" => OnWeb'
      BY <2>1, <2>2, <2>5, <2>6, <2>8 DEF Fits, OnWeb
  <2> QED
      BY <1>1, <2>1, <2>2, <2>7, <2>9 DEF Place, Fits, WholeStream
<1>6. CASE SendTcp \/ SendFrame \/ SendPart
    BY <1>1, <1>6, SentFits
<1>7. CASE Blocked
  <2>1. /\ held # <<>> /\ net = "turn" /\ held' = <<>> /\ outPacket' = PutBack(held[1]) /\ Fits
        /\ UNCHANGED <<transport, sock, net, next, stream>>
      BY <1>1, <1>7 DEF Blocked, Place
  <2>2. held[1] \in Packet /\ held[1].msg \in Names /\ DOMAIN held = {1}
        /\ Size[held[1].msg] \in Nat \ {0}
      BY <1>1, <2>1, HeldIs, SizeIs
  <2>3. outPacket' # <<>> /\ outPacket'[1] = held[1] /\ Unbegun(held')
      BY <1>1, <2>1, <2>2, PutBackIs DEF Unbegun
  <2>4. CASE transport = "tcp"
    <3>1. OneBegun(outPacket') /\ Begun(outPacket)'
        BY <1>1, <2>1, <2>2, <2>3, <2>4, PutBackIs DEF Fits, OnTcp, Begun
    <3>2. Fits'
        BY <2>1, <2>3, <2>4, <3>1 DEF Fits, OnTcp
    <3> QED
        BY <1>1, <2>1, <3>2 DEF Place, WholeStream
  <2>5. CASE transport = "websockets"
    <3>1. /\ Unbegun(outPacket) /\ held[1].pos = 0 /\ Complete(stream)
          /\ sendbuffer # <<>> => Frame
        BY <2>1, <2>2, <2>5 DEF Fits, OnWeb, Unbegun
    <3>2. Unbegun(outPacket')
        BY <1>1, <2>1, <2>2, <3>1, PutBackIs
    <3>3. sendbuffer' = <<Buffer>> /\ requested' = Requested
        BY <1>7, <2>5 DEF Blocked
    <3>4. Frame'
      <4>1. CASE sendbuffer = <<>>
        <5>1. Buffer = held[1] /\ Requested = Size[held[1].msg]
            BY <2>2, <3>1, <4>1 DEF Buffer, Requested, Left
        <5> QED
            BY <2>1, <2>3, <3>1, <3>3, <5>1 DEF Frame
      <4>2. CASE sendbuffer # <<>>
        <5>1. Buffer = sendbuffer[1] /\ Requested = requested
            BY <4>2 DEF Buffer, Requested
        <5> QED
            BY <2>1, <2>3, <3>1, <3>3, <4>2, <5>1 DEF Frame
      <4> QED
          BY <4>1, <4>2
    <3>5. Fits'
        BY <2>1, <2>3, <2>5, <3>1, <3>2, <3>4 DEF Fits, OnWeb
    <3> QED
        BY <1>1, <2>1, <3>5 DEF Place, WholeStream
  <2>6. CASE transport \notin {"tcp", "websockets"}
    <3>1. Fits'
        BY <2>1, <2>6 DEF Fits
    <3> QED
        BY <1>1, <2>1, <3>1 DEF Place, WholeStream
  <2> QED
      BY <2>4, <2>5, <2>6
<1>8. CASE Break
    BY <1>1, <1>8 DEF Break, Place, WholeStream
<1>9. CASE MarkBegin \/ MarkNext
    BY <1>1, <1>9 DEF MarkBegin, MarkNext, Place, WholeStream, TypeOK
<1>10. CASE Clear
    BY <1>1, <1>10 DEF Clear, Place, Unbegun, WholeStream
<1>11. CASE Open
  <2>1. /\ sendbuffer' = <<>> /\ stream' = <<>> /\ outPacket' = outPacket /\ held' = <<>>
        /\ Unbegun(outPacket') /\ outPacket' \in Seq(Packet) /\ net' = "greet" /\ sock' = TRUE
      BY <1>1, <1>11 DEF Open, Place, TypeOK
  <2>2. Fits'
      BY <2>1, BeginsAnew DEF Complete
  <2>3. Whole(stream')
      BY <2>1 DEF Whole
  <2> QED
      BY <2>1, <2>2, <2>3 DEF Place, WholeStream
<1>12. CASE Greet
  <2>1. Fits'
      BY <1>1, <1>12, AppendFits DEF Greet, Place, Names
  <2> QED
      BY <1>1, <1>12, <2>1 DEF Greet, Place, WholeStream
<1>13. CASE UNCHANGED vars
    BY <1>1, <1>13 DEF vars, WholeStream, Place, Fits, OnTcp, OnWeb, Begun, Unbegun, OneBegun, Frame
<1> QED
    BY <1>1, <1>2, <1>3, <1>4, <1>5, <1>6, <1>7, <1>8, <1>9, <1>10, <1>11, <1>12, <1>13
    DEF Next, Network

LEMMA WriteInit == Init => WriteInv
<1> SUFFICES ASSUME Init PROVE WriteInv
    OBVIOUS
<1>1. TypeOK
    BY SizeIs DEF Init, TypeOK
<1>2. Fits
    BY DEF Init, Fits, OnTcp, OnWeb, Unbegun, Complete
<1> QED
    BY <1>1, <1>2 DEF Init, WriteInv, WholeStream, Place, Whole

(* The broker reads whole packets (WholePackets), whatever their lengths,   *)
(* over TCP and through the WebSocket wrapper if its frames are not split,  *)
(* whoever publishes and wherever connections break.                        *)
THEOREM BrokerReadsWholePackets == Spec => []WholePackets
<1>1. WriteInv /\ [Next]_vars => WriteInv'
    BY WriteStep
<1>2. WriteInv => WholePackets
    BY DEF WriteInv, WholePackets, WholeStream, Whole
<1> QED
    BY WriteInit, <1>1, <1>2, PTL DEF Spec

-----------------------------------------------------------------------------
(* Every accepted message is accounted for *)

InLine(m) ==
    \/ \E k \in DOMAIN held : held[k].msg = m
    \/ \E k \in DOMAIN outPacket : outPacket[k].msg = m

Marked(k) == outPacket[k].msg # NoInfo => published[outPacket[k].msg]

Account ==
    /\ \A m \in Msg : call[m] \in {"idle", "returned"}
    /\ SuccessIsWritten
    /\ \A m \in Msg : call[m] = "returned" /\ rc[m] = "SUCCESS" /\ ~published[m] => InLine(m)
    /\ net = "marking" =>
          /\ length = Len(outPacket) /\ next \in 1..length + 1
          /\ \A k \in 1..next - 1 : Marked(k)
    /\ net = "clear" => \A k \in DOMAIN outPacket : Marked(k)

AccountInv == WriteInv /\ (Orderly => Account)

(* The line is one sequence for NoneForgotten.                              *)
LEMMA InLineIs ==
    ASSUME TypeOK, NEW m \in Msg
    PROVE  InLine(m) <=> \E k \in DOMAIN (held \o outPacket) : (held \o outPacket)[k].msg = m
<1> DEFINE s == held \o outPacket
<1>1. /\ held \in Seq(Packet) /\ outPacket \in Seq(Packet)
      /\ Len(held) \in Nat /\ Len(outPacket) \in Nat
      /\ DOMAIN held = 1..Len(held) /\ DOMAIN outPacket = 1..Len(outPacket)
    BY DEF TypeOK
<1>2. /\ DOMAIN s = 1..Len(held) + Len(outPacket)
      /\ \A k \in 1..Len(held) : s[k] = held[k]
      /\ \A k \in 1..Len(outPacket) : s[Len(held) + k] = outPacket[k]
    BY <1>1
<1> HIDE DEF s
<1>3. ASSUME InLine(m) PROVE \E k \in DOMAIN s : s[k].msg = m
  <2>1. CASE \E k \in DOMAIN held : held[k].msg = m
    <3>1. PICK k \in 1..Len(held) : held[k].msg = m
        BY <1>1, <2>1
    <3>2. k \in DOMAIN s /\ s[k] = held[k]
        BY <1>1, <1>2
    <3> QED
        BY <3>1, <3>2
  <2>2. CASE \E k \in DOMAIN outPacket : outPacket[k].msg = m
    <3>1. PICK k \in 1..Len(outPacket) : outPacket[k].msg = m
        BY <1>1, <2>2
    <3>2. Len(held) + k \in DOMAIN s /\ s[Len(held) + k] = outPacket[k]
        BY <1>1, <1>2
    <3> QED
        BY <3>1, <3>2
  <2> QED
      BY <1>3, <2>1, <2>2 DEF InLine
<1>4. ASSUME NEW k \in DOMAIN s, s[k].msg = m PROVE InLine(m)
  <2>1. CASE k \in 1..Len(held)
      BY <1>1, <1>2, <1>4, <2>1 DEF InLine
  <2>2. CASE k \notin 1..Len(held)
    <3>1. k - Len(held) \in 1..Len(outPacket) /\ k = Len(held) + (k - Len(held))
        BY <1>1, <1>2, <2>2
    <3>2. outPacket[k - Len(held)].msg = m
        BY <1>2, <1>4, <3>1
    <3> QED
        BY <1>1, <3>1, <3>2 DEF InLine
  <2> QED
      BY <2>1, <2>2
<1> QED
    BY <1>3, <1>4 DEF s

LEMMA AppendKeepsLine ==
    ASSUME TypeOK, NEW p \in Names, outPacket' = Append(outPacket, NewPacket(p)), held' = held
    PROVE  /\ \A m \in Msg : InLine(m) => InLine(m)'
           /\ p \in Msg => InLine(p)'
<1>1. outPacket \in Seq(Packet) /\ NewPacket(p).msg = p
    BY NewPacketIs DEF TypeOK
<1>2. /\ DOMAIN outPacket' = 1..Len(outPacket) + 1 /\ DOMAIN outPacket = 1..Len(outPacket)
      /\ Len(outPacket) \in Nat
      /\ \A k \in 1..Len(outPacket) : outPacket'[k] = outPacket[k]
      /\ outPacket'[Len(outPacket) + 1] = NewPacket(p)
    BY <1>1
<1>3. Len(outPacket) + 1 \in DOMAIN outPacket' /\ outPacket'[Len(outPacket) + 1].msg = p
    BY <1>1, <1>2
<1>4. \A k \in DOMAIN outPacket : k \in DOMAIN outPacket' /\ outPacket'[k] = outPacket[k]
    BY <1>2
<1> QED
    BY <1>3, <1>4 DEF InLine

(* Between outPacket and the packet that is held nothing is lost.           *)
LEMMA PutBackKeepsLine ==
    ASSUME TypeOK, held # <<>>, NEW pkt \in Packet, pkt.msg = held[1].msg,
           outPacket' = PutBack(pkt), NEW m \in Msg, InLine(m)
    PROVE  InLine(m)'
<1>1. outPacket \in Seq(Packet) /\ DOMAIN held = {1}
    BY HeldIs DEF TypeOK
<1>2. /\ DOMAIN outPacket' = 1..Len(outPacket) + 1 /\ DOMAIN outPacket = 1..Len(outPacket)
      /\ Len(outPacket) \in Nat
      /\ outPacket'[1] = pkt /\ \A k \in 1..Len(outPacket) : outPacket'[k + 1] = outPacket[k]
    BY <1>1, InFront DEF PutBack
<1>3. 1 \in DOMAIN outPacket' /\ \A k \in DOMAIN outPacket : k + 1 \in DOMAIN outPacket'
    BY <1>2
<1>4. CASE held[1].msg = m
    BY <1>2, <1>3, <1>4 DEF InLine
<1>5. CASE held[1].msg # m
  <2>1. PICK k \in DOMAIN outPacket : outPacket[k].msg = m
      BY <1>1, <1>5 DEF InLine
  <2>2. outPacket'[k + 1].msg = m /\ k + 1 \in DOMAIN outPacket'
      BY <1>2, <1>3, <2>1
  <2> QED
      BY <2>2 DEF InLine
<1> QED
    BY <1>4, <1>5

LEMMA PopKeepsLine ==
    ASSUME TypeOK, Pop, NEW m \in Msg, InLine(m)
    PROVE  InLine(m)'
<1>1. /\ outPacket \in Seq(Packet) /\ outPacket # <<>> /\ held = <<>>
      /\ held' = <<outPacket[1]>> /\ outPacket' = Tail(outPacket)
    BY DEF Pop, TypeOK
<1>2. /\ DOMAIN held' = {1} /\ held'[1] = outPacket[1]
      /\ Len(outPacket) \in Nat /\ DOMAIN outPacket = 1..Len(outPacket)
      /\ DOMAIN outPacket' = 1..Len(outPacket) - 1
      /\ \A k \in 1..Len(outPacket) - 1 : outPacket'[k] = outPacket[k + 1]
    BY <1>1
<1>3. PICK k \in DOMAIN outPacket : outPacket[k].msg = m
    BY <1>1 DEF InLine
<1>4. CASE k = 1
    BY <1>2, <1>3, <1>4 DEF InLine
<1>5. CASE k # 1
  <2>1. k - 1 \in 1..Len(outPacket) - 1 /\ k = (k - 1) + 1
      BY <1>2, <1>5
  <2>2. outPacket'[k - 1].msg = m
      BY <1>2, <1>3, <2>1
  <2> QED
      BY <1>2, <2>1, <2>2 DEF InLine
<1> QED
    BY <1>4, <1>5

LEMMA AccountStep ==
    ASSUME AccountInv, Orderly, [Next]_vars
    PROVE  Account'
<1> USE DEF fixed, infoVars, loopVars, wireVars
<1>1. TypeOK /\ TypeOK' /\ WriteInv /\ Place /\ Account /\ from = "callback"
      /\ transport \in {"tcp", "websockets"}
  <2>1. transport \in Transports /\ Transports \subseteq {"tcp", "websockets", "websockets_parts"}
      BY OutPacketsAssumption DEF AccountInv, WriteInv, TypeOK
  <2> QED
      BY <2>1, WriteStep DEF AccountInv, WriteInv, Orderly
<1>2. ASSUME NEW m \in Msg, PublishCheck(m) \/ PublishQueue(m) \/ PublishReturn(m) PROVE FALSE
    BY <1>1, <1>2 DEF Account, PublishCheck, PublishQueue, PublishReturn
<1>3. ASSUME UNCHANGED <<outPacket, held, net, next, length>>, published' = published, call' = call,
             rc' = rc, written' = written, from' = from, transport' = transport
      PROVE  Account'
    BY <1>1, <1>3 DEF Account, SuccessIsWritten, Orderly, InLine, Marked
<1>4. ASSUME NEW m \in Msg, NEW w \in Waiters, Wait(m, w) PROVE Account'
    BY <1>3, <1>4 DEF Wait
<1>5. CASE UNCHANGED vars
    BY <1>3, <1>5 DEF vars
<1>6. ASSUME NEW p \in Msg, PublishInCallback(p) PROVE Account'
  <2>1. /\ net \notin {"marking", "clear"} /\ UNCHANGED <<net, held, published, written, from, transport>>
        /\ call' = [call EXCEPT ![p] = "returned"]
        /\ \/ rc' = [rc EXCEPT ![p] = "NO_CONN"] /\ outPacket' = outPacket
           \/ rc' = rc /\ outPacket' = Append(outPacket, NewPacket(p))
      BY <1>6 DEF PublishInCallback
  <2>2. call \in [Msg -> {"idle", "checked", "queued", "returned"}]
        /\ rc \in [Msg -> {"SUCCESS", "NO_CONN", "CONN_LOST"}] /\ p \in Names
      BY <1>1 DEF TypeOK, Names
  <2>3. \A m \in Msg : m # p => call'[m] = call[m] /\ rc'[m] = rc[m]
      BY <2>1, <2>2
  <2>4. call'[p] = "returned" /\ (rc'[p] = "NO_CONN" \/ rc'[p] = rc[p])
      BY <2>1, <2>2
  <2>5. \A m \in Msg : InLine(m) => InLine(m)'
      BY <1>1, <2>1, <2>2, AppendKeepsLine DEF InLine
  <2>6. rc'[p] = "SUCCESS" => InLine(p)'
      BY <1>1, <2>1, <2>2, AppendKeepsLine
  <2>7. SuccessIsWritten'
      BY <1>1, <2>1, <2>3, <2>4 DEF Account, SuccessIsWritten, Orderly
  <2> QED
      BY <1>1, <2>1, <2>3, <2>4, <2>5, <2>6, <2>7 DEF Account
<1>7. ASSUME UNCHANGED <<call, rc, published, from, transport>>, written \subseteq written',
             net' \notin {"marking", "clear"}, \A m \in Msg : InLine(m) => InLine(m)'
      PROVE  Account'
    BY <1>1, <1>7 DEF Account, SuccessIsWritten, Orderly
<1>8. CASE Pop
    BY <1>1, <1>7, <1>8, PopKeepsLine DEF Pop
<1>9. CASE SendTcp \/ SendFrame
  <2> DEFINE p == held[1].msg
  <2>1. /\ held # <<>> /\ net = "turn" /\ held' = <<>>
        /\ UNCHANGED <<net, call, rc, from, transport>>
      BY <1>9 DEF SendTcp, SendFrame, Wrote
  <2>2. p \in Names /\ DOMAIN held = {1} /\ held[1] \in Packet /\ Size[p] \in Nat
      BY <1>1, <2>1, HeldIs, SizeIs
  <2>3. held[1].pos \in 0..Size[p] - 1
      BY <1>1, <1>9, SentIs
  <2>4. PICK n \in 1..Size[p] - held[1].pos : Emit(held[1], n) /\ Wrote(n)
      BY <1>1, <1>9, SentIs
  <2>5. CASE held[1].pos + n # Size[p]
    <3>1. outPacket' = PutBack([held[1] EXCEPT !.pos = @ + n]) /\ published' = published
          /\ written' = written
        BY <2>2, <2>3, <2>4, <2>5 DEF Wrote, Emit
    <3>2. [held[1] EXCEPT !.pos = @ + n] \in Packet /\ [held[1] EXCEPT !.pos = @ + n].msg = p
        BY <2>2, <2>3 DEF Packet
    <3>3. \A m \in Msg : InLine(m) => InLine(m)'
        BY <1>1, <2>1, <3>1, <3>2, PutBackKeepsLine
    <3> QED
        BY <1>7, <2>1, <3>1, <3>3
  <2>6. CASE held[1].pos + n = Size[p]
    <3>1. /\ outPacket' = outPacket /\ written' = written \cup ({p} \ {NoInfo})
          /\ p # NoInfo => published' = [published EXCEPT ![p] = TRUE]
          /\ p = NoInfo => published' = published
        BY <2>2, <2>3, <2>4, <2>6 DEF Wrote, Emit, SetAsPublished
    <3>2. \A m \in Msg : m # p => published'[m] = published[m]
        BY <1>1, <2>2, <3>1 DEF TypeOK, Names
    <3>3. p \in Msg => published'[p]
        BY <1>1, <2>2, <3>1 DEF TypeOK, NoInfo, Names, Msg
    <3>4. p \in Msg => p \in written'
        BY <1>1, <3>1, SizeIs DEF NoInfo, Msg
    <3>5. \A m \in Msg : m # p /\ InLine(m) => InLine(m)'
        BY <2>1, <2>2, <3>1 DEF InLine
    <3>6. SuccessIsWritten'
        BY <1>1, <2>1, <3>1, <3>2, <3>4 DEF Account, SuccessIsWritten, Orderly
    <3> QED
        BY <1>1, <2>1, <3>2, <3>3, <3>5, <3>6 DEF Account
  <2> QED
      BY <2>5, <2>6
<1>10. CASE Blocked
  <2>1. \A m \in Msg : InLine(m) => InLine(m)'
      BY <1>1, <1>10, HeldIs, PutBackKeepsLine DEF Blocked
  <2> QED
      BY <1>7, <1>10, <2>1 DEF Blocked
<1>12. CASE SendPart
    BY <1>1, <1>12 DEF SendPart
<1>13. CASE Break
  <2>1. CASE held = <<>>
    <3>1. outPacket' = outPacket /\ held' = held
        BY <1>13, <2>1 DEF Break
    <3> QED
        BY <1>7, <1>13, <3>1 DEF Break, InLine
  <2>2. CASE held # <<>>
    <3>1. \A m \in Msg : InLine(m) => InLine(m)'
        BY <1>1, <1>13, <2>2, HeldIs, PutBackKeepsLine DEF Break
    <3> QED
        BY <1>7, <1>13, <3>1 DEF Break
  <2> QED
      BY <2>1, <2>2
<1>14. CASE MarkBegin
    BY <1>1, <1>14 DEF MarkBegin, Account, SuccessIsWritten, Orderly, InLine, TypeOK
<1>15. CASE MarkNext
  <2>1. /\ net = "marking" /\ UNCHANGED <<outPacket, held, call, written, from, transport, length>>
        /\ length = Len(outPacket) /\ next \in 1..length + 1 /\ \A k \in 1..next - 1 : Marked(k)
        /\ outPacket \in Seq(Packet) /\ published \in [Msg -> BOOLEAN]
        /\ rc \in [Msg -> {"SUCCESS", "NO_CONN", "CONN_LOST"}]
      BY <1>1, <1>15 DEF MarkNext, Account, TypeOK
  <2>2. \A m \in Msg : InLine(m) => InLine(m)'
      BY <2>1 DEF InLine
  <2>3. CASE next > length
    <3>1. net' = "clear" /\ UNCHANGED <<published, rc>>
        BY <1>15, <2>1, <2>3 DEF MarkNext
    <3>2. DOMAIN outPacket \subseteq 1..next - 1
        BY <2>1, <2>3
    <3>3. \A k \in DOMAIN outPacket : Marked(k)'
        BY <2>1, <3>1, <3>2 DEF Marked
    <3> QED
        BY <1>1, <2>1, <2>2, <3>1, <3>3 DEF Account, SuccessIsWritten, Orderly
  <2>4. CASE next <= length
    <3> DEFINE p == outPacket[next].msg
    <3>1. next \in DOMAIN outPacket /\ next' = next + 1 /\ net' = net
        BY <1>15, <2>1, <2>4 DEF MarkNext
    <3>2. p \in Names /\ \A k \in DOMAIN outPacket : outPacket[k].msg \in Names
      <4>1. \A k \in DOMAIN outPacket : outPacket[k] \in Packet
          BY <2>1
      <4> QED
          BY <3>1, <4>1 DEF Packet, Names
    <3>3. /\ p = NoInfo => UNCHANGED <<published, rc>>
          /\ p # NoInfo => /\ published' = [published EXCEPT ![p] = TRUE]
                           /\ rc' = [rc EXCEPT ![p] = "CONN_LOST"]
        BY <1>15, <2>1, <2>4 DEF MarkNext, MarkLost, SetAsPublished
    <3>4. \A m \in Msg : m # p => published'[m] = published[m] /\ rc'[m] = rc[m]
        BY <2>1, <3>2, <3>3 DEF Names
    <3>5. p # NoInfo => p \in Msg /\ published'[p] /\ rc'[p] = "CONN_LOST"
        BY <2>1, <3>2, <3>3 DEF Names
    <3>6. \A m \in Msg : m # p \/ (published'[m] /\ rc'[m] = "CONN_LOST")
      <4>1. \A m \in Msg : m # NoInfo
          BY SizeIs DEF Msg, NoInfo
      <4>2. ASSUME NEW m \in Msg, m = p PROVE published'[m] /\ rc'[m] = "CONN_LOST"
          BY <3>5, <4>1, <4>2, Zenon
      <4> QED
          BY <4>2
    <3>7. \A m \in Msg : published[m] => published'[m]
        BY <3>3, <3>4, <3>5
    <3>8. \A k \in 1..next' - 1 : Marked(k)'
      <4>1. \A k \in 1..next - 1 : k \in DOMAIN outPacket /\ outPacket[k].msg \in Names
        <5>1. 1..next - 1 \subseteq DOMAIN outPacket
            BY <2>1
        <5> QED
            BY <3>2, <5>1
      <4>2. \A k \in 1..next - 1 : Marked(k)'
          BY <2>1, <3>7, <4>1 DEF Marked, Names
      <4>3. \A k \in 1..next' - 1 : k \in 1..next - 1 \/ k = next
          BY <2>1, <3>1
      <4>4. outPacket'[next] = outPacket[next]
          BY <2>1
      <4> QED
          BY <3>5, <4>2, <4>3, <4>4 DEF Marked
    <3>9. SuccessIsWritten'
        BY <1>1, <2>1, <3>4, <3>6 DEF Account, SuccessIsWritten, Orderly
    <3>10. next' \in 1..length' + 1 /\ length' = Len(outPacket')
        BY <2>1, <2>4, <3>1
    <3> QED
        BY <1>1, <2>1, <2>2, <3>1, <3>4, <3>6, <3>8, <3>9, <3>10 DEF Account
  <2> QED
      BY <2>1, <2>3, <2>4
<1>16. CASE Clear
  <2>1. /\ net = "clear" /\ net' = "open" /\ held = <<>> /\ \A k \in DOMAIN outPacket : Marked(k)
        /\ UNCHANGED <<call, rc, published, written, from, transport>>
      BY <1>1, <1>16 DEF Clear, Account, Place
  <2>2. \A m \in Msg : InLine(m) => published[m]
      BY <2>1 DEF InLine, Marked, NoInfo, Msg
  <2> QED
      BY <1>1, <2>1, <2>2 DEF Account, SuccessIsWritten, Orderly
<1>17. CASE Open
    BY <1>7, <1>17 DEF Open, InLine
<1>18. CASE Greet
    BY <1>1, <1>7, <1>18, AppendKeepsLine DEF Greet, Names
<1> QED
    BY <1>2, <1>4, <1>5, <1>6, <1>8, <1>9, <1>10, <1>12, <1>13, <1>14, <1>15, <1>16, <1>17, <1>18
    DEF Next, Network

LEMMA AccountsHold == Spec => []AccountInv
<1>1. Init => AccountInv
    BY WriteInit DEF Init, AccountInv, Account, SuccessIsWritten
<1>2. AccountInv /\ [Next]_vars => AccountInv'
  <2>1. ASSUME AccountInv, [Next]_vars PROVE (from = from' /\ transport = transport')
      BY <2>1 DEF Next, Network, vars, fixed, PublishCheck, PublishQueue, PublishReturn,
                  PublishInCallback, Wait, Pop, SendTcp, SendFrame, SendPart, Blocked, Break,
                  MarkBegin, MarkNext, Clear, Open, Greet
  <2> QED
      BY <2>1, WriteStep, AccountStep DEF AccountInv, Orderly
<1> QED
    BY <1>1, <1>2, PTL DEF Spec

(* If the callbacks publish and no frame is split, wait_for_publish() may   *)
(* be believed (SuccessIsWritten): a message reported with rc SUCCESS is    *)
(* written, however often connections break and frames have to wait.        *)
THEOREM ReportedIsWritten == Spec => []SuccessIsWritten
<1>1. AccountInv => SuccessIsWritten
    BY DEF AccountInv, Account, SuccessIsWritten
<1> QED
    BY AccountsHold, <1>1, PTL

(* Under the same conditions no message is dropped silently                 *)
(* (NoneForgotten): publish() has refused it, or it is in the queue until   *)
(* it is written or reconnect() reports it as lost.                         *)
THEOREM AcceptedIsInLine == Spec => []NoneForgotten
<1>1. AccountInv => NoneForgotten
    BY InLineIs DEF AccountInv, WriteInv, Account, NoneForgotten
<1> QED
    BY AccountsHold, <1>1, PTL
=============================================================================
