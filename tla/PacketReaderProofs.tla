-------------------------- MODULE PacketReaderProofs --------------------------
(***************************************************************************)
(* What holds of the reading side for every stream of packets, every frame *)
(* size, every limit and every piece in which the bytes arrive.  From the  *)
(* bottom up: what the broker's bytes and frames hold (FlattenParts,       *)
(* PacketsPacked, WireFramed), that recv() hands them out in order         *)
(* (RecvIs), and that _packet_read finds the packets in them (CommandStep, *)
(* LengthStep, BodyStep).                                                  *)
(***************************************************************************)
EXTENDS PacketReader, WellFoundedInduction, SequenceTheorems, TLAPS

-----------------------------------------------------------------------------
(* Sequences of sequences, and FlattenSeq.                                  *)

(* A set of natural numbers has a least one.                                *)
LEMMA Least ==
    ASSUME NEW S, S \subseteq Nat, S # {}
    PROVE  \E n \in S : \A m \in S : n <= m
<1> DEFINE R == {ss \in Nat \X Nat : ss[1] < ss[2]}
<1>1. R = OpToRel(<, Nat)
  BY DEF OpToRel
<1>2. IsWellFoundedOn(R, Nat)
  BY NatLessThanWellFounded, <1>1
<1>3. \E n \in S : \A m \in S : <<m, n>> \notin R
  <2> HIDE DEF R
  <2> QED  BY <1>2, WFMin
<1>4. PICK n \in S : \A m \in S : <<m, n>> \notin R
  BY <1>3
<1>5. ASSUME NEW m \in S PROVE n <= m
  <2>1. <<m, n>> \in Nat \X Nat /\ <<m, n>>[1] = m /\ <<m, n>>[2] = n
    OBVIOUS
  <2> QED  BY <1>4, <2>1
<1> QED  BY <1>5

(* Induction over 0..n, with a set for the property.                        *)
LEMMA UpTo ==
    ASSUME NEW n \in Nat, NEW S, 0 \in S, \A k \in 0..(n - 1) : k \in S => k + 1 \in S
    PROVE  0..n \subseteq S
<1> DEFINE U == {k \in 0..n : k \notin S}
<1>1. ASSUME NEW k \in U, \A m \in U : k <= m PROVE FALSE
  <2>1. k \in 0..n /\ k \notin S /\ k # 0
    OBVIOUS
  <2>2. k - 1 \in 0..(n - 1) /\ k - 1 \in 0..n /\ ~(k <= k - 1) /\ (k - 1) + 1 = k
    BY <2>1
  <2>3. k - 1 \notin U
    BY <1>1, <2>2
  <2>4. k - 1 \in S
    BY <2>2, <2>3
  <2> QED  BY <2>1, <2>2, <2>4
<1>2. U \subseteq Nat
  OBVIOUS
<1>3. U = {}
  <2> HIDE DEF U
  <2> QED  BY <1>1, <1>2, Least
<1> QED  BY <1>3

-----------------------------------------------------------------------------
(* A sequence of sequences, one after the other.                            *)

Flat(s, g, i) == IF i = 1 THEN s[i] ELSE g[i - 1] \o s[i]

(* The recursive function that FlattenSeq is defined by exists.             *)
LEMMA FlatExists ==
    ASSUME NEW s, NEW n \in Nat
    PROVE  \E g : g = [i \in 1..n |-> Flat(s, g, i)]
<1> DEFINE W(k) == \E g : g = [i \in 1..k |-> Flat(s, g, i)]
           S == {k \in 0..n : W(k)}
<1>1. 0 \in S
  <2> DEFINE h == [i \in {} |-> 0]
  <2>1. 1..0 = {}
    OBVIOUS
  <2>2. h = [i \in 1..0 |-> Flat(s, h, i)]
    BY <2>1
  <2>3. W(0)
    <3> HIDE DEF h
    <3> QED  BY <2>2
  <2> HIDE DEF W
  <2> QED  BY <2>3
<1>2. ASSUME NEW k \in 0..(n - 1), k \in S PROVE k + 1 \in S
  <2>1. PICK g : g = [i \in 1..k |-> Flat(s, g, i)]
    BY <1>2
  <2> DEFINE h == [i \in 1..(k + 1) |-> IF i <= k THEN g[i] ELSE Flat(s, g, i)]
  <2>2. ASSUME NEW i \in 1..(k + 1) PROVE h[i] = Flat(s, h, i)
    <3>1. i # 1 => i - 1 \in 1..(k + 1) /\ i - 1 <= k
      OBVIOUS
    <3>2. i # 1 => h[i - 1] = g[i - 1]
      BY <3>1
    <3> HIDE DEF h
    <3>3. Flat(s, h, i) = Flat(s, g, i)
      BY <3>2 DEF Flat
    <3>4. CASE i <= k
      <4>1. i \in 1..k
        BY <3>4
      <4>2. g[i] = Flat(s, g, i)
        BY <2>1, <4>1
      <4> QED  BY <3>3, <3>4, <4>2 DEF h
    <3>5. CASE ~(i <= k)
      BY <3>3, <3>5 DEF h
    <3> QED  BY <3>4, <3>5
  <2>3. h = [i \in 1..(k + 1) |-> h[i]]
    OBVIOUS
  <2> HIDE DEF h
  <2>4. h = [i \in 1..(k + 1) |-> Flat(s, h, i)]
    BY <2>2, <2>3
  <2>5. W(k + 1)
    BY <2>4
  <2>6. k + 1 \in 0..n
    OBVIOUS
  <2> HIDE DEF W
  <2> QED  BY <2>5, <2>6
<1>3. n \in S
  <2> HIDE DEF S
  <2> QED  BY <1>1, <1>2, UpTo
<1> QED  BY <1>3

(* Where each sequence begins.                                              *)
Offsets(s, off) ==
    /\ off \in [0..Len(s) -> Nat]
    /\ off[0] = 0
    /\ \A k \in 1..Len(s) : off[k] = off[k - 1] + Len(s[k])

Parts(t, s, off) ==
    /\ Offsets(s, off)
    /\ Len(t) = off[Len(s)]
    /\ \A k \in 1..Len(s) : \A i \in 1..Len(s[k]) :
          off[k - 1] + i \in 1..Len(t) /\ t[off[k - 1] + i] = s[k][i]

(* The beginnings of a flattened sequence are its first parts.              *)
LEMMA FlatType ==
    ASSUME NEW T, NEW s \in Seq(Seq(T)), NEW g, \A k \in 1..Len(s) : g[k] = Flat(s, g, k)
    PROVE  \A k \in 1..Len(s) : g[k] \in Seq(T) /\ Len(g[k]) \in Nat
<1> DEFINE S == {k \in 0..Len(s) : k > 0 => g[k] \in Seq(T)}
<1>1. Len(s) \in Nat /\ \A k \in 1..Len(s) : s[k] \in Seq(T)
  BY ElementOfSeq, LenProperties
<1>2. ASSUME NEW k \in 0..(Len(s) - 1), k \in S PROVE k + 1 \in S
  <2>1. k + 1 \in 1..Len(s) /\ (k + 1) - 1 = k /\ s[k + 1] \in Seq(T) /\ g[k + 1] = Flat(s, g, k + 1)
    BY <1>1
  <2>2. k = 0 => g[k + 1] \in Seq(T)
    BY <2>1 DEF Flat
  <2>3. ASSUME k > 0 PROVE g[k + 1] \in Seq(T)
    <3>1. g[k] \in Seq(T)
      BY <1>2, <2>3
    <3>2. g[k + 1] = g[k] \o s[k + 1]
      <4>1. k + 1 # 1
        BY <2>3
      <4> QED  BY <2>1, <4>1 DEF Flat
    <3>3. g[k] \o s[k + 1] \in Seq(T)
      BY <2>1, <3>1, ConcatProperties
    <3> QED  BY <3>2, <3>3
  <2>4. k + 1 \in 0..Len(s) /\ (k = 0 \/ k > 0)
    BY <1>1
  <2> QED  BY <2>2, <2>3, <2>4
<1>3. 0 \in S
  BY <1>1
<1>4. 0..Len(s) \subseteq S
  <2> HIDE DEF S
  <2> QED  BY <1>1, <1>2, <1>3, UpTo
<1>5. ASSUME NEW k \in 1..Len(s) PROVE g[k] \in Seq(T)
  <2>1. k \in 0..Len(s) /\ k > 0
    BY <1>1
  <2>2. k \in S
    <3> HIDE DEF S
    <3> QED  BY <1>4, <2>1
  <2> QED  BY <2>1, <2>2
<1> QED  BY <1>5, LenProperties

(* It appends one sequence after the other.                                 *)
LEMMA FlatNext ==
    ASSUME NEW s, Len(s) \in Nat, NEW g, \A k \in 1..Len(s) : g[k] = Flat(s, g, k),
           NEW k \in 1..(Len(s) - 1)
    PROVE  g[k + 1] = g[k] \o s[k + 1]
<1>1. k + 1 \in 1..Len(s) /\ (k + 1) - 1 = k /\ k + 1 # 1
  OBVIOUS
<1>2. Flat(s, g, k + 1) = g[k] \o s[k + 1]
  BY <1>1 DEF Flat
<1> QED  BY <1>1, <1>2

(* Its lengths add up.                                                      *)
LEMMA FlatStep ==
    ASSUME NEW T, NEW s \in Seq(Seq(T)), NEW g, \A k \in 1..Len(s) : g[k] = Flat(s, g, k),
           NEW k \in 1..(Len(s) - 1)
    PROVE  /\ Len(g[k + 1]) = Len(g[k]) + Len(s[k + 1])
           /\ Len(g[k]) \in Nat /\ Len(s[k + 1]) \in Nat
<1>1. k \in 1..Len(s) /\ k + 1 \in 1..Len(s) /\ Len(s) \in Nat
  BY LenProperties
<1>2. g[k + 1] = g[k] \o s[k + 1]
  BY <1>1, FlatNext
<1>3. g[k] \in Seq(T) /\ s[k + 1] \in Seq(T)
  BY <1>1, FlatType, ElementOfSeq
<1>4. Len(g[k]) \in Nat /\ Len(s[k + 1]) \in Nat
  BY <1>3, LenProperties
<1>5. Len(g[k] \o s[k + 1]) = Len(g[k]) + Len(s[k + 1])
  BY <1>3, ConcatProperties
<1> QED  BY <1>2, <1>4, <1>5

(* Those lengths are the offsets of the sequences.                          *)
LEMMA FlatOffsets ==
    ASSUME NEW T, NEW s \in Seq(Seq(T)), NEW g, \A k \in 1..Len(s) : g[k] = Flat(s, g, k),
           NEW off, off = [k \in 0..Len(s) |-> IF k = 0 THEN 0 ELSE Len(g[k])]
    PROVE  Offsets(s, off)
<1>1. Len(s) \in Nat /\ \A k \in 1..Len(s) : g[k] \in Seq(T) /\ Len(g[k]) \in Nat
  BY FlatType, LenProperties
<1>2. off \in [0..Len(s) -> Nat] /\ off[0] = 0
  BY <1>1
<1>3. \A k \in 1..Len(s) : off[k] = Len(g[k])
  BY <1>1
<1>4. ASSUME NEW k \in 1..Len(s) PROVE off[k] = off[k - 1] + Len(s[k])
  <2>1. CASE k = 1
    <3>1. g[1] = s[1] /\ Len(g[1]) \in Nat /\ 1 \in 1..Len(s) /\ k - 1 = 0
      BY <1>1, <2>1 DEF Flat
    <3> QED  BY <1>2, <1>3, <2>1, <3>1
  <2>2. CASE k # 1
    <3>1. k - 1 \in 1..(Len(s) - 1) /\ k - 1 \in 1..Len(s) /\ (k - 1) + 1 = k
      BY <1>1, <2>2
    <3>2. Len(g[k]) = Len(g[k - 1]) + Len(s[k])
      BY <3>1, FlatStep
    <3> QED  BY <1>3, <3>1, <3>2
  <2> QED  BY <2>1, <2>2
<1> QED  BY <1>2, <1>4 DEF Offsets

(* The parts up to k lie in g[k].                                           *)
PartsIn(s, g, off, k) ==
    \A j \in 1..k : \A i \in 1..Len(s[j]) :
        off[j - 1] + i \in 1..off[k] /\ g[k][off[j - 1] + i] = s[j][i]

(* Each part stays where it was put.                                        *)
LEMMA PartsStay ==
    ASSUME NEW T, NEW s \in Seq(Seq(T)), NEW g, \A k \in 1..Len(s) : g[k] = Flat(s, g, k),
           NEW off, off \in [0..Len(s) -> Nat], \A k \in 1..Len(s) : off[k] = Len(g[k]),
           NEW k \in 1..(Len(s) - 1), PartsIn(s, g, off, k)
    PROVE  PartsIn(s, g, off, k + 1)
<1>1. /\ k + 1 \in 1..Len(s) /\ k \in 1..Len(s) /\ k \in 0..Len(s) /\ (k + 1) - 1 = k
  BY LenProperties
<1> DEFINE o == Len(g[k])
           l == Len(s[k + 1])
<1>2. off[k] = o /\ off[k + 1] = o + l /\ o \in Nat /\ l \in Nat
  BY <1>1, FlatStep
<1>3. \A m \in 1..(o + l) : g[k + 1][m] = IF m <= o THEN g[k][m] ELSE s[k + 1][m - o]
  <2> DEFINE a == g[k]
             b == s[k + 1]
  <2>1. a \in Seq(T) /\ b \in Seq(T) /\ g[k + 1] = a \o b
    <3>1. s[k + 1] \in Seq(T) /\ Len(s) \in Nat
      BY <1>1, ElementOfSeq, LenProperties
    <3>2. g[k] \in Seq(T)
      BY <1>1, FlatType
    <3>3. g[k + 1] = g[k] \o s[k + 1]
      BY <3>1, FlatNext
    <3> QED  BY <3>1, <3>2, <3>3
  <2> HIDE DEF a, b
  <2>2. \A m \in 1..(Len(a) + Len(b)) : g[k + 1][m] = IF m <= Len(a) THEN a[m] ELSE b[m - Len(a)]
    BY <2>1, ConcatProperties
  <2> QED  BY <2>2 DEF a, b
<1> HIDE DEF o, l
<1>5. ASSUME NEW i \in 1..l
      PROVE  off[k] + i \in 1..off[k + 1] /\ g[k + 1][off[k] + i] = s[k + 1][i]
  <2>1. o + i \in 1..(o + l) /\ ~(o + i <= o) /\ (o + i) - o = i
    BY ONLY <1>2, i \in 1..l
  <2>2. g[k + 1][o + i] = s[k + 1][i]
    BY <1>3, <2>1
  <2> QED  BY <1>2, <2>1, <2>2
<1>6. ASSUME NEW j \in 1..k, NEW i \in 1..Len(s[j])
      PROVE  off[j - 1] + i \in 1..off[k + 1] /\ g[k + 1][off[j - 1] + i] = s[j][i]
  <2> DEFINE m == off[j - 1] + i
  <2>1. m \in 1..off[k] /\ g[k][m] = s[j][i]
    BY DEF PartsIn
  <2> HIDE DEF m
  <2>2. m \in 1..o
    BY <1>2, <2>1
  <2>3. m \in 1..(o + l) /\ m <= o
    BY ONLY <1>2, <2>2
  <2>4. g[k + 1][m] = s[j][i]
    BY <1>3, <2>1, <2>3
  <2> QED  BY <1>2, <2>3, <2>4 DEF m
<1>7. \A j \in 1..(k + 1) : j \in 1..k \/ (j = k + 1 /\ j - 1 = k)
  BY <1>1
<1> QED  BY <1>5, <1>6, <1>7 DEF PartsIn, l

(* Every part up to k is found at its offset.                               *)
LEMMA FlatAt ==
    ASSUME NEW T, NEW s \in Seq(Seq(T)), NEW g, \A k \in 1..Len(s) : g[k] = Flat(s, g, k),
           NEW off, Offsets(s, off), \A k \in 1..Len(s) : off[k] = Len(g[k])
    PROVE  \A k \in 1..Len(s) : PartsIn(s, g, off, k)
<1> DEFINE S == {k \in 0..Len(s) : k > 0 => PartsIn(s, g, off, k)}
<1>1. /\ Len(s) \in Nat /\ off \in [0..Len(s) -> Nat] /\ off[0] = 0
  BY LenProperties DEF Offsets
<1>2. Len(s) > 0 => PartsIn(s, g, off, 1)
  <2> SUFFICES ASSUME Len(s) > 0 PROVE PartsIn(s, g, off, 1)
    OBVIOUS
  <2>1. 1 \in 1..Len(s)
    BY <1>1
  <2>2. g[1] = s[1] /\ off[1] = Len(s[1]) /\ s[1] \in Seq(T)
    BY <2>1, ElementOfSeq DEF Flat
  <2>3. Len(s[1]) \in Nat
    BY <2>2, LenProperties
  <2>4. \A j \in 1..1 : j = 1 /\ j - 1 = 0
    OBVIOUS
  <2>5. \A i \in 1..Len(s[1]) : off[0] + i = i
    BY <1>1, <2>3
  <2> QED  BY <2>2, <2>4, <2>5 DEF PartsIn
<1>3. ASSUME NEW k \in 0..(Len(s) - 1), k \in S PROVE k + 1 \in S
  <2>1. k + 1 \in 0..Len(s) /\ Len(s) > 0 /\ (k = 0 \/ k \in 1..(Len(s) - 1))
    BY <1>1
  <2>2. k \in 1..(Len(s) - 1) => PartsIn(s, g, off, k + 1)
    <3>1. k \in 1..(Len(s) - 1) => PartsIn(s, g, off, k)
      BY <1>3
    <3> QED  BY <1>1, <3>1, PartsStay
  <2>3. k = 0 => PartsIn(s, g, off, k + 1)
    BY <1>2, <2>1
  <2> QED  BY <2>1, <2>2, <2>3
<1>4. 0..Len(s) \subseteq S
  <2>1. 0 \in S
    BY <1>1
  <2> HIDE DEF S
  <2> QED  BY <1>1, <1>3, <2>1, UpTo
<1>5. ASSUME NEW k \in 1..Len(s) PROVE PartsIn(s, g, off, k)
  <2>1. k \in 0..Len(s) /\ k > 0
    BY <1>1
  <2>2. k \in S
    <3> HIDE DEF S
    <3> QED  BY <1>4, <2>1
  <2> QED  BY <2>1, <2>2
<1> QED  BY <1>5

(* What FlattenSeq is, position by position.                                *)
LEMMA FlattenParts ==
    ASSUME NEW T, NEW s \in Seq(Seq(T))
    PROVE  FlattenSeq(s) \in Seq(T) /\ \E off : Parts(FlattenSeq(s), s, off)
<1> DEFINE n == Len(s)
           g == CHOOSE g : g = [i \in 1..n |-> Flat(s, g, i)]
           off == [k \in 0..n |-> IF k = 0 THEN 0 ELSE Len(g[k])]
<1>1. n \in Nat
  BY LenProperties
<1>2. g = [i \in 1..n |-> Flat(s, g, i)]
  <2>1. \E h : h = [i \in 1..n |-> Flat(s, h, i)]
    BY <1>1, FlatExists
  <2> QED  BY <2>1
<1>3. n > 0 => FlattenSeq(s) = g[n]
  BY <1>1 DEF FlattenSeq, Flat
<1> HIDE DEF g
<1>4. \A k \in 1..n : g[k] = Flat(s, g, k)
  BY <1>2
<1>5. Offsets(s, off)
  BY <1>4, FlatOffsets
<1>6. \A k \in 1..n : off[k] = Len(g[k])
  BY <1>1
<1>7. CASE n = 0
  <2>1. s = <<>> /\ FlattenSeq(s) = <<>>
    BY <1>7, EmptySeq DEF FlattenSeq
  <2>2. off[n] = 0
    BY <1>7
  <2> HIDE DEF off
  <2>3. Parts(FlattenSeq(s), s, off)
    BY <1>5, <1>7, <2>1, <2>2 DEF Parts
  <2> QED  BY <2>1, <2>3, EmptySeq
<1>8. CASE n > 0
  <2>1. n \in 1..n
    BY <1>1, <1>8
  <2>2. g[n] \in Seq(T)
    BY <1>4, <2>1, FlatType
  <2> HIDE DEF off
  <2>3. \A k \in 1..n : \A i \in 1..Len(s[k]) :
          off[k - 1] + i \in 1..off[n] /\ g[n][off[k - 1] + i] = s[k][i]
    <3>1. PartsIn(s, g, off, n)
      BY <1>4, <1>5, <1>6, <2>1, FlatAt
    <3> QED  BY <3>1 DEF PartsIn
  <2>4. Parts(FlattenSeq(s), s, off)
    BY <1>3, <1>5, <1>6, <1>8, <2>1, <2>3 DEF Parts
  <2> QED  BY <1>3, <1>8, <2>2, <2>4
<1> QED  BY <1>1, <1>7, <1>8

-----------------------------------------------------------------------------
(* The digits of a remaining length.                                        *)

Dig(g, n) ==
    IF n < Base THEN <<Byte(n, FALSE)>>
    ELSE <<Byte(n % Base, TRUE)>> \o g[n \div Base]

Digs(g, k) == \A n \in 0..k : g[n] = Dig(g, n)

(* Division by the base.                                                    *)
LEMMA DivLess ==
    ASSUME NEW n \in Nat
    PROVE  /\ n % Base \in 0..(Base - 1)
           /\ n % Base \in Nat
           /\ n \div Base \in Nat
           /\ n = Base * (n \div Base) + (n % Base)
           /\ n >= Base => n \div Base < n
<1>1. Base \in Nat /\ Base > 1
  BY ReaderAssumption DEF ReaderAssumption
<1>2. n % Base \in 0..(Base - 1) /\ n \div Base \in Nat /\ n = Base * (n \div Base) + (n % Base)
  BY <1>1
<1>3. ASSUME n >= Base PROVE n \div Base < n
  <2> DEFINE q == n \div Base
             r == n % Base
  <2>1. q \in Nat /\ r \in Nat /\ n = Base * q + r
    BY <1>2
  <2> HIDE DEF q, r
  <2>2. Base * q >= 2 * q
    BY <1>1, <2>1
  <2>3. q < n
    BY <1>1, <1>3, <2>1, <2>2
  <2> QED  BY <2>3 DEF q
<1>4. n % Base \in Nat
  BY <1>1, <1>2
<1> QED  BY <1>2, <1>3, <1>4

(* The digits of n depend on those of smaller numbers only.                 *)
LEMMA DigDepends ==
    ASSUME NEW n \in Nat, NEW g, NEW h,
           \A m \in Nat : m < n => g[m] = h[m]
    PROVE  Dig(g, n) = Dig(h, n)
<1>1. CASE n < Base
  BY <1>1 DEF Dig
<1>2. CASE ~(n < Base)
  <2>1. n \div Base \in Nat /\ n \div Base < n
    <3>1. n >= Base
      BY <1>2, ReaderAssumption DEF ReaderAssumption
    <3> QED  BY <3>1, DivLess
  <2>2. g[n \div Base] = h[n \div Base]
    BY <2>1
  <2> QED  BY <1>2, <2>2 DEF Dig
<1> QED  BY <1>1, <1>2

(* A function that satisfies the recursion up to k exists,                  *)
LEMMA DigsExist ==
    ASSUME NEW k \in Nat
    PROVE  \E g : Digs(g, k)
<1> DEFINE S == {j \in 0..k : \E g : Digs(g, j)}
<1>1. ASSUME NEW j \in Nat, NEW g, \A n \in Nat : n < j => g[n] = Dig(g, n)
      PROVE  \E h : Digs(h, j)
  <2> DEFINE h == [n \in 0..j |-> IF n < j THEN g[n] ELSE Dig(g, n)]
  <2>1. \A n \in 0..j : n < j => h[n] = g[n]
    OBVIOUS
  <2>2. h[j] = Dig(g, j)
    OBVIOUS
  <2> HIDE DEF h
  <2>3. ASSUME NEW n \in 0..j PROVE Dig(h, n) = Dig(g, n)
    <3>1. \A m \in Nat : m < n => h[m] = g[m]
      BY <2>1
    <3> QED  BY <3>1, DigDepends
  <2>4. ASSUME NEW n \in 0..j PROVE h[n] = Dig(h, n)
    <3>1. CASE n < j
      BY <1>1, <2>1, <2>3, <3>1
    <3>2. CASE n = j
      BY <2>2, <2>3, <3>2
    <3> QED  BY <3>1, <3>2
  <2> QED  BY <2>4 DEF Digs
<1>2. 0 \in S
  <2>1. \A g : \A n \in Nat : n < 0 => g[n] = Dig(g, n)
    OBVIOUS
  <2>2. \E h : Digs(h, 0)
    BY <1>1, <2>1
  <2> QED  BY <2>2
<1>3. ASSUME NEW j \in 0..(k - 1), j \in S PROVE j + 1 \in S
  <2>1. PICK g : Digs(g, j)
    BY <1>3
  <2>2. \A n \in Nat : n < j + 1 => g[n] = Dig(g, n)
    <3>1. \A n \in Nat : n < j + 1 => n \in 0..j
      OBVIOUS
    <3> QED  BY <2>1, <3>1 DEF Digs
  <2>3. j + 1 \in Nat /\ j + 1 \in 0..k
    OBVIOUS
  <2>4. \E h : Digs(h, j + 1)
    BY <1>1, <2>2, <2>3
  <2> QED  BY <2>3, <2>4
<1>4. k \in S
  <2> HIDE DEF S
  <2> QED  BY <1>2, <1>3, UpTo
<1> QED  BY <1>4

(* and two of them agree.                                                   *)
LEMMA DigsUnique ==
    ASSUME NEW k \in Nat, NEW l \in Nat, NEW g, NEW h, Digs(g, k), Digs(h, l),
           NEW n \in Nat, n <= k, n <= l
    PROVE  g[n] = h[n]
<1> DEFINE S == {m \in 0..n : g[m] # h[m]}
<1>1. ASSUME NEW m \in S, \A j \in S : m <= j PROVE FALSE
  <2>1. m \in 0..k /\ m \in 0..l /\ m \in 0..n /\ m \in Nat
    OBVIOUS
  <2>2. \A j \in Nat : j < m => g[j] = h[j]
    <3>1. \A j \in Nat : j < m => j \in 0..n /\ ~(m <= j)
      BY <2>1
    <3> QED  BY <1>1, <3>1
  <2>3. Dig(g, m) = Dig(h, m)
    BY <2>1, <2>2, DigDepends
  <2>4. g[m] = Dig(g, m) /\ h[m] = Dig(h, m)
    BY <2>1 DEF Digs
  <2> QED  BY <2>3, <2>4
<1>2. S = {}
  <2>1. S \subseteq Nat
    OBVIOUS
  <2> HIDE DEF S
  <2> QED  BY <1>1, <2>1, Least
<1>3. n \in 0..n
  OBVIOUS
<1> QED  BY <1>2, <1>3

(* _pack_remaining_length is what its recursion says.                       *)
LEMMA DigitsIs == \A n \in Nat : Digits[n] = Dig(Digits, n)
<1> DEFINE D(n) == CHOOSE g : Digs(g, n)
           G == [n \in Nat |-> D(n)[n]]
<1>1. \A n \in Nat : Digs(D(n), n)
  <2> TAKE n \in Nat
  <2>1. \E g : Digs(g, n)
    BY DigsExist
  <2> QED  BY <2>1
<1>2. \A n \in Nat : G[n] = D(n)[n]
  OBVIOUS
<1>3. G = [n \in Nat |-> G[n]]
  OBVIOUS
<1> HIDE DEF D, G
<1>4. ASSUME NEW n \in Nat PROVE G[n] = Dig(G, n)
  <2>1. n \in 0..n
    OBVIOUS
  <2>2. D(n)[n] = Dig(D(n), n)
    BY <1>1, <2>1 DEF Digs
  <2>3. ASSUME NEW m \in Nat, m < n PROVE D(n)[m] = G[m]
    <3>1. D(n)[m] = D(m)[m]
      BY <1>1, <2>3, DigsUnique
    <3> QED  BY <1>2, <3>1
  <2>4. Dig(D(n), n) = Dig(G, n)
    BY <2>3, DigDepends
  <2> QED  BY <1>2, <2>2, <2>4
<1>5. G = [n \in Nat |-> Dig(G, n)]
  BY <1>3, <1>4
<1>6. Digits = CHOOSE g : g = [n \in Nat |-> Dig(g, n)]
  BY DEF Digits, Dig
<1>7. Digits = [n \in Nat |-> Dig(Digits, n)]
  BY <1>5, <1>6
<1> QED  BY <1>7

-----------------------------------------------------------------------------
(* The packets of the broker.                                               *)

(* The two fields of a byte.                                                *)
LEMMA ByteIs ==
    ASSUME NEW v \in Nat, NEW x \in BOOLEAN
    PROVE  Byte(v, x) \in Bytes /\ Byte(v, x).val = v /\ Byte(v, x).flag = x
BY DEF Byte, Bytes

(* Sequences: of one element, with an element before, from a function.      *)
LEMMA One ==
    ASSUME NEW T, NEW x \in T
    PROVE  <<x>> \in Seq(T) /\ Len(<<x>>) = 1 /\ <<x>>[1] = x
OBVIOUS

LEMMA ConsSeq ==
    ASSUME NEW T, NEW x \in T, NEW s \in Seq(T)
    PROVE  /\ <<x>> \o s \in Seq(T) /\ Len(s) \in Nat
           /\ Len(<<x>> \o s) = 1 + Len(s)
           /\ (<<x>> \o s)[1] = x
           /\ \A i \in 1..Len(s) : (<<x>> \o s)[1 + i] = s[i]
<1>1. Len(s) \in Nat
  BY LenProperties
<1> DEFINE a == <<x>>
<1>2. a \in Seq(T) /\ Len(a) = 1 /\ a[1] = x
  BY One
<1> HIDE DEF a
<1>3. /\ a \o s \in Seq(T) /\ Len(a \o s) = Len(a) + Len(s)
      /\ \A i \in 1..(Len(a) + Len(s)) : (a \o s)[i] = IF i <= Len(a) THEN a[i] ELSE s[i - Len(a)]
  BY <1>2, ConcatProperties
<1>4. (a \o s)[1] = x
  <2>1. 1 \in 1..(Len(a) + Len(s)) /\ 1 <= Len(a)
    BY <1>1, <1>2
  <2> QED  BY <1>2, <1>3, <2>1
<1>5. ASSUME NEW i \in 1..Len(s) PROVE (a \o s)[1 + i] = s[i]
  <2>1. 1 + i \in 1..(Len(a) + Len(s)) /\ ~(1 + i <= Len(a)) /\ (1 + i) - Len(a) = i
    BY <1>1, <1>2
  <2> QED  BY <1>3, <2>1
<1> QED  BY <1>1, <1>2, <1>3, <1>4, <1>5 DEF a

LEMMA FcnSeq ==
    ASSUME NEW T, NEW n \in Nat, NEW f \in [1..n -> T]
    PROVE  f \in Seq(T) /\ Len(f) = n
OBVIOUS

(* Three sequences, one after the other.                                    *)
LEMMA Three ==
    ASSUME NEW T, NEW a \in Seq(T), NEW b \in Seq(T), NEW c \in Seq(T)
    PROVE  /\ a \o b \o c \in Seq(T)
           /\ Len(a) \in Nat /\ Len(b) \in Nat /\ Len(c) \in Nat
           /\ Len(a \o b \o c) = Len(a) + Len(b) + Len(c)
           /\ \A i \in 1..Len(a) : (a \o b \o c)[i] = a[i]
           /\ \A i \in 1..Len(b) : (a \o b \o c)[Len(a) + i] = b[i]
           /\ \A i \in 1..Len(c) : (a \o b \o c)[Len(a) + Len(b) + i] = c[i]
<1> DEFINE ab == a \o b
           l == Len(a)
           m == Len(b)
           n == Len(c)
<1>1. l \in Nat /\ m \in Nat /\ n \in Nat
  BY LenProperties
<1>2. ab \in Seq(T) /\ Len(ab) = l + m
      /\ \A i \in 1..(l + m) : ab[i] = IF i <= l THEN a[i] ELSE b[i - l]
  BY ConcatProperties
<1> HIDE DEF ab, l, m, n
<1>3. ab \o c \in Seq(T) /\ Len(ab \o c) = (l + m) + n
      /\ \A i \in 1..((l + m) + n) : (ab \o c)[i] = IF i <= l + m THEN ab[i] ELSE c[i - (l + m)]
  BY <1>2, ConcatProperties DEF n
<1>4. ASSUME NEW i \in 1..l PROVE (ab \o c)[i] = a[i]
  <2>1. i \in 1..((l + m) + n) /\ i <= l + m /\ i \in 1..(l + m) /\ i <= l
    BY <1>1
  <2> QED  BY <1>2, <1>3, <2>1
<1>5. ASSUME NEW i \in 1..m PROVE (ab \o c)[l + i] = b[i]
  <2>1. /\ l + i \in 1..((l + m) + n) /\ l + i <= l + m /\ l + i \in 1..(l + m)
        /\ ~(l + i <= l) /\ (l + i) - l = i
    BY <1>1
  <2> QED  BY <1>2, <1>3, <2>1
<1>6. ASSUME NEW i \in 1..n PROVE (ab \o c)[l + m + i] = c[i]
  <2>1. l + m + i \in 1..((l + m) + n) /\ ~(l + m + i <= l + m) /\ (l + m + i) - (l + m) = i
    BY <1>1
  <2> QED  BY <1>3, <2>1
<1> QED  BY <1>1, <1>3, <1>4, <1>5, <1>6 DEF ab, l, m, n

(* A remaining length has at least one digit.                               *)
LEMMA DigitsType ==
    \A n \in Nat : Digits[n] \in Seq(Bytes) /\ Len(Digits[n]) \in Nat /\ Len(Digits[n]) > 0
<1> DEFINE S == {n \in Nat : ~(Digits[n] \in Seq(Bytes) /\ Len(Digits[n]) > 0)}
<1>1. ASSUME NEW n \in S, \A m \in S : n <= m PROVE FALSE
  <2>1. Digits[n] = Dig(Digits, n) /\ Base \in Nat /\ n \in Nat
    BY DigitsIs, ReaderAssumption DEF ReaderAssumption
  <2>2. CASE n < Base
    <3> DEFINE b == Byte(n, FALSE)
    <3>1. Digits[n] = <<b>>
      BY <2>1, <2>2 DEF Dig
    <3>2. b \in Bytes
      BY <2>1, ByteIs
    <3> HIDE DEF b
    <3>3. <<b>> \in Seq(Bytes) /\ Len(<<b>>) > 0
      BY <3>2, One
    <3>4. Digits[n] \in Seq(Bytes) /\ Len(Digits[n]) > 0
      BY <3>1, <3>3
    <3> QED  BY <3>4
  <2>3. CASE ~(n < Base)
    <3>0. n >= Base
      BY <2>1, <2>3
    <3>1. n % Base \in Nat /\ n \div Base \in Nat /\ n \div Base < n
      BY <2>1, <3>0, DivLess
    <3>2. n \div Base \notin S
      <4>1. ~(n <= n \div Base)
        BY <2>1, <3>1
      <4> HIDE DEF S
      <4> QED  BY <1>1, <4>1
    <3> DEFINE q == n \div Base
               b == Byte(n % Base, TRUE)
    <3>3. Digits[q] \in Seq(Bytes) /\ Len(Digits[q]) > 0
      BY <3>1, <3>2
    <3>4. b \in Bytes /\ Digits[n] = <<b>> \o Digits[q]
      BY <2>1, <2>3, <3>1, ByteIs DEF Dig
    <3> HIDE DEF q, b
    <3>5. <<b>> \in Seq(Bytes) /\ Len(<<b>>) = 1
      BY <3>4
    <3>6. <<b>> \o Digits[q] \in Seq(Bytes) /\ Len(<<b>> \o Digits[q]) = 1 + Len(Digits[q])
      BY <3>3, <3>5, ConcatProperties
    <3>7. Len(Digits[q]) \in Nat
      BY <3>3, LenProperties
    <3>8. Digits[n] \in Seq(Bytes) /\ Len(Digits[n]) > 0
      BY <3>4, <3>6, <3>7
    <3> QED  BY <3>8
  <2> QED  BY <2>2, <2>3
<1>2. S = {}
  <2>1. S \subseteq Nat
    OBVIOUS
  <2> HIDE DEF S
  <2> QED  BY <1>1, <2>1, Least
<1> QED  BY <1>2, LenProperties

(* The digits of a number: one, or one and those of its quotient.           *)
LEMMA DigitsStep ==
    ASSUME NEW n \in Nat
    PROVE  /\ n < Base => Len(Digits[n]) = 1 /\ Digits[n][1] = Byte(n, FALSE)
           /\ n >= Base => /\ Len(Digits[n]) = 1 + Len(Digits[n \div Base])
                           /\ Digits[n][1] = Byte(n % Base, TRUE)
                           /\ \A i \in 1..Len(Digits[n \div Base]) :
                                Digits[n][1 + i] = Digits[n \div Base][i]
<1>1. Digits[n] = Dig(Digits, n) /\ Base \in Nat
  BY DigitsIs, ReaderAssumption DEF ReaderAssumption
<1>2. ASSUME n < Base PROVE Len(Digits[n]) = 1 /\ Digits[n][1] = Byte(n, FALSE)
  <2> DEFINE b == Byte(n, FALSE)
  <2>1. Digits[n] = <<b>>
    BY <1>1, <1>2 DEF Dig
  <2>2. b \in Bytes
    BY ByteIs
  <2> HIDE DEF b
  <2>3. Len(<<b>>) = 1 /\ <<b>>[1] = b
    BY <2>2, One
  <2> QED  BY <2>1, <2>3 DEF b
<1>3. ASSUME n >= Base
      PROVE  /\ Len(Digits[n]) = 1 + Len(Digits[n \div Base])
             /\ Digits[n][1] = Byte(n % Base, TRUE)
             /\ \A i \in 1..Len(Digits[n \div Base]) :
                    Digits[n][1 + i] = Digits[n \div Base][i]
  <2> DEFINE b == Byte(n % Base, TRUE)
             q == Digits[n \div Base]
  <2>1. n \div Base \in Nat /\ n % Base \in Nat /\ ~(n < Base)
    BY <1>1, <1>3, DivLess
  <2>2. q \in Seq(Bytes) /\ b \in Bytes
    BY <2>1, DigitsType, ByteIs
  <2>3. Digits[n] = <<b>> \o q
    BY <1>1, <2>1 DEF Dig
  <2> HIDE DEF q, b
  <2>4. /\ Len(<<b>> \o q) = 1 + Len(q)
        /\ (<<b>> \o q)[1] = b
        /\ \A i \in 1..Len(q) : (<<b>> \o q)[1 + i] = q[i]
    BY <2>2, ConsSeq
  <2> QED  BY <2>3, <2>4 DEF q, b
<1> QED  BY <1>1, <1>2, <1>3

(* The stream b holds the packets with bodies of the lengths ls; packet k   *)
(* begins behind po[k - 1].                                                 *)
Packed(b, ls, po) ==
    /\ po \in [0..Len(ls) -> 0..Len(b)]
    /\ po[0] = 0 /\ po[Len(ls)] = Len(b)
    /\ \A k \in 1..Len(ls) :
          /\ po[k] = po[k - 1] + 1 + Len(Digits[ls[k]]) + ls[k]
          /\ b[po[k - 1] + 1] = Byte(k, FALSE)
          /\ \A i \in 1..Len(Digits[ls[k]]) : b[po[k - 1] + 1 + i] = Digits[ls[k]][i]
          /\ \A i \in 1..ls[k] : b[po[k - 1] + 1 + Len(Digits[ls[k]]) + i] = Byte(k, FALSE)

(* Parts that are not empty end within the whole.                           *)
LEMMA PartsWithin ==
    ASSUME NEW T, NEW s \in Seq(Seq(T)), NEW t \in Seq(T), NEW off, Parts(t, s, off),
           \A k \in 1..Len(s) : Len(s[k]) > 0
    PROVE  off \in [0..Len(s) -> 0..Len(t)]
<1>1. Len(s) \in Nat /\ Len(t) \in Nat /\ \A k \in 1..Len(s) : Len(s[k]) \in Nat
  BY ElementOfSeq, LenProperties
<1>2. off \in [0..Len(s) -> Nat] /\ off[0] = 0
  BY DEF Parts, Offsets
<1>3. ASSUME NEW k \in 1..Len(s) PROVE off[k] <= Len(t)
  <2> DEFINE l == Len(s[k])
             o == off[k - 1]
  <2>1. l \in Nat /\ l \in 1..l
    BY <1>1
  <2>2. off[k] = o + l /\ o + l \in 1..Len(t)
    BY <2>1 DEF Parts, Offsets
  <2> HIDE DEF o, l
  <2> QED  BY <1>1, <2>2
<1>4. \A k \in 0..Len(s) : off[k] \in 0..Len(t)
  <2> TAKE k \in 0..Len(s)
  <2>1. CASE k = 0
    BY <1>1, <1>2, <2>1
  <2>2. CASE k # 0
    <3>1. k \in 1..Len(s)
      BY <1>1, <2>2
    <3>2. off[k] \in Nat /\ off[k] <= Len(t)
      BY <1>2, <1>3, <3>1
    <3> QED  BY <1>1, <3>2
  <2> QED  BY <2>1, <2>2
<1> QED  BY <1>2, <1>4

(* The body of a packet.                                                    *)
LEMMA BodyIs ==
    ASSUME NEW k \in Nat, NEW n \in Nat
    PROVE  /\ Body(k, n) \in Seq(Bytes) /\ Len(Body(k, n)) = n
           /\ \A i \in 1..n : Body(k, n)[i] = Byte(k, FALSE)
<1>1. Byte(k, FALSE) \in Bytes
  BY ByteIs
<1>2. Body(k, n) \in [1..n -> Bytes]
  BY <1>1 DEF Body
<1>3. Body(k, n) \in Seq(Bytes) /\ Len(Body(k, n)) = n
  BY <1>2, FcnSeq
<1>4. \A i \in 1..n : Body(k, n)[i] = Byte(k, FALSE)
  BY DEF Body
<1> QED  BY <1>3, <1>4

(* The bytes of the broker hold its packets, one after the other.           *)
LEMMA PacketsPacked ==
    ASSUME NEW ls \in Seq(Nat)
    PROVE  PacketBytes(ls) \in Seq(Bytes) /\ \E po : Packed(PacketBytes(ls), ls, po)
<1> DEFINE P(k) == <<Byte(k, FALSE)>> \o Digits[ls[k]] \o Body(k, ls[k])
           s == [k \in 1..Len(ls) |-> P(k)]
           b == PacketBytes(ls)
<1>1. Len(ls) \in Nat /\ \A k \in 1..Len(ls) : ls[k] \in Nat
  BY ElementOfSeq, LenProperties
<1>2. ASSUME NEW k \in 1..Len(ls)
      PROVE  /\ P(k) \in Seq(Bytes) /\ Len(Digits[ls[k]]) \in Nat /\ ls[k] \in Nat
             /\ Len(P(k)) = 1 + Len(Digits[ls[k]]) + ls[k]
             /\ P(k)[1] = Byte(k, FALSE)
             /\ \A i \in 1..Len(Digits[ls[k]]) : P(k)[1 + i] = Digits[ls[k]][i]
             /\ \A i \in 1..ls[k] : P(k)[1 + Len(Digits[ls[k]]) + i] = Byte(k, FALSE)
  <2> DEFINE x == <<Byte(k, FALSE)>>
             y == Digits[ls[k]]
             z == Body(k, ls[k])
  <2>1. ls[k] \in Nat /\ k \in Nat
    BY <1>1
  <2>2. x \in Seq(Bytes) /\ Len(x) = 1 /\ x[1] = Byte(k, FALSE)
    <3> DEFINE c == Byte(k, FALSE)
    <3>1. c \in Bytes
      BY <2>1, ByteIs
    <3> HIDE DEF c
    <3>2. <<c>> \in Seq(Bytes) /\ Len(<<c>>) = 1 /\ <<c>>[1] = c
      BY <3>1, One
    <3> QED  BY <3>2 DEF c
  <2>3. y \in Seq(Bytes) /\ z \in Seq(Bytes) /\ Len(z) = ls[k] /\ \A i \in 1..ls[k] : z[i] = Byte(k, FALSE)
    BY <2>1, DigitsType, BodyIs
  <2> HIDE DEF x, y, z
  <2>4. /\ x \o y \o z \in Seq(Bytes)
        /\ Len(y) \in Nat
        /\ Len(x \o y \o z) = Len(x) + Len(y) + Len(z)
        /\ \A i \in 1..Len(x) : (x \o y \o z)[i] = x[i]
        /\ \A i \in 1..Len(y) : (x \o y \o z)[Len(x) + i] = y[i]
        /\ \A i \in 1..Len(z) : (x \o y \o z)[Len(x) + Len(y) + i] = z[i]
    <3>1. x \in Seq(Bytes) /\ y \in Seq(Bytes) /\ z \in Seq(Bytes)
      BY <2>2, <2>3
    <3> QED  BY ONLY <3>1, Three
  <2>5. (x \o y \o z)[1] = Byte(k, FALSE)
    <3>1. 1 \in 1..Len(x)
      BY <2>2
    <3>2. (x \o y \o z)[1] = x[1]
      BY <2>4, <3>1
    <3> QED  BY <2>2, <3>2
  <2>6. \A i \in 1..ls[k] : (x \o y \o z)[1 + Len(y) + i] = Byte(k, FALSE)
    BY <2>2, <2>3, <2>4
  <2> QED  BY <2>1, <2>2, <2>3, <2>4, <2>5, <2>6 DEF x, y, z
<1>3. b = FlattenSeq(s)
  BY DEF PacketBytes
<1>4. s \in Seq(Seq(Bytes)) /\ Len(s) = Len(ls)
  <2>1. \A k \in 1..Len(ls) : P(k) \in Seq(Bytes)
    BY <1>2
  <2> HIDE DEF P
  <2>2. s \in [1..Len(ls) -> Seq(Bytes)]
    BY <2>1
  <2> HIDE DEF s
  <2> QED  BY <1>1, <2>2, FcnSeq
<1>5. \A k \in 1..Len(ls) : s[k] = P(k)
  OBVIOUS
<1> HIDE DEF s, P, b
<1>6. b \in Seq(Bytes) /\ \E po : Parts(b, s, po)
  BY <1>3, <1>4, FlattenParts
<1>7. PICK po : Parts(b, s, po)
  BY <1>6
<1>8. po \in [0..Len(ls) -> 0..Len(b)]
  <2>1. ASSUME NEW k \in 1..Len(s) PROVE Len(s[k]) > 0
    <3> DEFINE l == Len(Digits[ls[k]])
               n == ls[k]
    <3>1. l \in Nat /\ n \in Nat /\ Len(s[k]) = 1 + l + n
      BY <1>2, <1>4, <1>5
    <3> HIDE DEF l, n
    <3> QED  BY <3>1
  <2> QED  BY <1>4, <1>6, <1>7, <2>1, PartsWithin
<1>9. po[0] = 0 /\ po[Len(ls)] = Len(b)
  BY <1>4, <1>7 DEF Parts, Offsets
<1>10. ASSUME NEW k \in 1..Len(ls)
       PROVE  /\ po[k] = po[k - 1] + 1 + Len(Digits[ls[k]]) + ls[k]
              /\ b[po[k - 1] + 1] = Byte(k, FALSE)
              /\ \A i \in 1..Len(Digits[ls[k]]) : b[po[k - 1] + 1 + i] = Digits[ls[k]][i]
              /\ \A i \in 1..ls[k] : b[po[k - 1] + 1 + Len(Digits[ls[k]]) + i] = Byte(k, FALSE)
  <2> DEFINE o == po[k - 1]
             l == Len(Digits[ls[k]])
             n == ls[k]
  <2>1. l \in Nat /\ n \in Nat /\ o \in Nat
    <3>1. k - 1 \in 0..Len(ls)
      BY <1>1
    <3>2. po[k - 1] \in 0..Len(b)
      BY <1>8, <3>1
    <3>3. l \in Nat /\ n \in Nat
      BY <1>2
    <3> HIDE DEF l, n
    <3> QED  BY <3>2, <3>3
  <2>2. po[k] = o + (1 + l + n) /\ \A i \in 1..(1 + l + n) : b[o + i] = P(k)[i]
    <3>1. s[k] = P(k) /\ Len(P(k)) = 1 + l + n /\ k \in 1..Len(s)
      BY <1>2, <1>4, <1>5
    <3>2. po[k] = o + Len(s[k]) /\ \A i \in 1..Len(s[k]) : b[o + i] = s[k][i]
      BY <1>7, <3>1 DEF Parts, Offsets
    <3> HIDE DEF o, l, n
    <3> QED  BY <3>1, <3>2
  <2>3. P(k)[1] = Byte(k, FALSE) /\ (\A i \in 1..l : P(k)[1 + i] = Digits[ls[k]][i])
        /\ \A i \in 1..n : P(k)[1 + l + i] = Byte(k, FALSE)
    BY <1>2
  <2> HIDE DEF o, l, n
  <2>4. po[k] = o + 1 + l + n
    BY <2>1, <2>2
  <2>5. b[o + 1] = Byte(k, FALSE)
    <3>1. 1 \in 1..(1 + l + n)
      BY <2>1
    <3>2. b[o + 1] = P(k)[1]
      BY <2>2, <3>1
    <3> QED  BY <2>3, <3>2
  <2>6. ASSUME NEW i \in 1..l PROVE b[o + 1 + i] = Digits[ls[k]][i]
    <3>1. 1 + i \in 1..(1 + l + n) /\ o + (1 + i) = o + 1 + i
      BY <2>1
    <3> QED  BY <2>2, <2>3, <3>1
  <2>7. ASSUME NEW i \in 1..n PROVE b[o + 1 + l + i] = Byte(k, FALSE)
    <3>1. 1 + l + i \in 1..(1 + l + n) /\ o + (1 + l + i) = o + 1 + l + i
      BY <2>1
    <3> QED  BY <2>2, <2>3, <3>1
  <2> QED  BY <2>4, <2>5, <2>6, <2>7 DEF o, l, n
<1>11. Packed(b, ls, po)
  BY <1>8, <1>9, <1>10 DEF Packed
<1> QED  BY <1>6, <1>11 DEF b

-----------------------------------------------------------------------------
(* The frames of the broker.                                                *)

(* A part of a sequence, position by position.                              *)
LEMMA SubSeqIs ==
    ASSUME NEW T, NEW s \in Seq(T), NEW m \in Nat, NEW n \in Nat, m <= n, n <= Len(s)
    PROVE  /\ SubSeq(s, m + 1, n) \in Seq(T)
           /\ Len(SubSeq(s, m + 1, n)) = n - m
           /\ \A i \in 1..(n - m) : SubSeq(s, m + 1, n)[i] = s[m + i]
<1>1. Len(s) \in Nat /\ m + 1 \in Int /\ n \in Int
  BY LenProperties
<1>2. \A i \in (m + 1)..n : s[i] \in T
  <2> TAKE i \in (m + 1)..n
  <2>1. i \in 1..Len(s)
    BY <1>1
  <2> QED  BY <2>1, ElementOfSeq
<1>3. /\ SubSeq(s, m + 1, n) \in Seq(T)
      /\ Len(SubSeq(s, m + 1, n)) = IF m + 1 <= n THEN n - (m + 1) + 1 ELSE 0
      /\ \A i \in 1..(n - (m + 1) + 1) : SubSeq(s, m + 1, n)[i] = s[(m + 1) + i - 1]
  BY <1>1, <1>2, SubSeqProperties
<1>4. Len(SubSeq(s, m + 1, n)) = n - m
  BY <1>3
<1>5. ASSUME NEW i \in 1..(n - m) PROVE SubSeq(s, m + 1, n)[i] = s[m + i]
  <2>1. i \in 1..(n - (m + 1) + 1) /\ (m + 1) + i - 1 = m + i
    OBVIOUS
  <2> QED  BY <1>3, <2>1
<1> QED  BY <1>3, <1>4, <1>5

(* A frame: an opcode and a payload.                                        *)
Frames == [op : 0..15, pay : Seq(Bytes)]
Header(x) == IF Len(x.pay) < LongFrame THEN 2 ELSE 4
FrameSize(x) == Header(x) + Len(x.pay)
Data(x) == x.op \in {BINARY, CONTINUATION}

(* What the bytes of a frame are.                                           *)
IsFrame(F, x) ==
    /\ Len(F) = FrameSize(x)
    /\ F[1].val = x.op
    /\ F[2].flag <=> Header(x) = 4
    /\ Header(x) = 2 => F[2].val = Len(x.pay)
    /\ Header(x) = 4 => F[3].val = Len(x.pay)
    /\ \A i \in 1..Len(x.pay) : F[Header(x) + i] = x.pay[i]

(* A frame of the broker has the bytes the wrapper will look for.           *)
LEMMA FrameIs ==
    ASSUME NEW x \in Frames
    PROVE  /\ Frame(x.op, x.pay) \in Seq(Bytes)
           /\ IsFrame(Frame(x.op, x.pay), x)
           /\ Header(x) \in {2, 4} /\ Len(x.pay) \in Nat /\ FrameSize(x) \in Nat
<1> DEFINE p == x.pay
           n == Len(p)
           o == x.op
<1>1. p \in Seq(Bytes) /\ n \in Nat /\ o \in Nat
  BY LenProperties DEF Frames
<1>2. Header(x) = IF n < LongFrame THEN 2 ELSE 4
  BY DEF Header
<1> DEFINE a == Byte(o, FALSE)
           b == Byte(n, FALSE)
           c == Byte(0, TRUE)
           d == Byte(0, FALSE)
           h == IF n < LongFrame THEN <<a, b>> ELSE <<a, c, b, d>>
           F == h \o p
<1>3. a \in Bytes /\ b \in Bytes /\ c \in Bytes /\ d \in Bytes
      /\ a.val = o /\ b.val = n /\ b.flag = FALSE /\ c.flag = TRUE
  BY <1>1, ByteIs
<1>4. Frame(o, p) = F
  BY DEF Frame
<1> HIDE DEF a, b, c, d
<1>5. h \in Seq(Bytes) /\ Len(h) = Header(x) /\ h[1] = a
      /\ (Header(x) = 2 => h[2] = b) /\ (Header(x) = 4 => h[2] = c /\ h[3] = b)
  <2>1. <<a, b>> \in Seq(Bytes) /\ <<a, c, b, d>> \in Seq(Bytes)
    BY <1>3
  <2>2. /\ Len(<<a, b>>) = 2 /\ <<a, b>>[1] = a /\ <<a, b>>[2] = b
        /\ Len(<<a, c, b, d>>) = 4 /\ <<a, c, b, d>>[1] = a /\ <<a, c, b, d>>[2] = c
        /\ <<a, c, b, d>>[3] = b
    OBVIOUS
  <2> QED  BY <1>2, <2>1, <2>2
<1> HIDE DEF h
<1>6. /\ F \in Seq(Bytes) /\ Len(F) = Len(h) + n
      /\ \A i \in 1..(Len(h) + n) : F[i] = IF i <= Len(h) THEN h[i] ELSE p[i - Len(h)]
  BY <1>1, <1>5, ConcatProperties
<1> HIDE DEF F, p, n
<1>7. Header(x) \in {2, 4}
  BY <1>2
<1>8. F[1] = a /\ F[2] = h[2] /\ (Header(x) = 4 => F[3] = h[3])
  <2>1. 1 \in 1..(Len(h) + n) /\ 2 \in 1..(Len(h) + n) /\ 1 <= Len(h) /\ 2 <= Len(h)
        /\ (Header(x) = 4 => 3 \in 1..(Len(h) + n) /\ 3 <= Len(h))
    BY <1>1, <1>5, <1>7
  <2> QED  BY <1>5, <1>6, <2>1
<1>9. ASSUME NEW i \in 1..n PROVE F[Header(x) + i] = p[i]
  <2> DEFINE e == Header(x)
  <2>1. e \in Nat /\ e = Len(h)
    BY <1>5, <1>7
  <2> HIDE DEF e
  <2>2. e + i \in 1..(e + n) /\ ~(e + i <= e) /\ (e + i) - e = i
    BY <1>1, <2>1
  <2> QED  BY <1>6, <2>1, <2>2 DEF e
<1>10. Len(F) = Header(x) + n
  BY <1>5, <1>6
<1>11. IsFrame(F, x)
  <2>1. F[1].val = x.op
    BY <1>3, <1>8
  <2>2. F[2].flag <=> Header(x) = 4
    BY <1>3, <1>5, <1>7, <1>8
  <2>3. Header(x) = 2 => F[2].val = n
    BY <1>3, <1>5, <1>8
  <2>4. Header(x) = 4 => F[3].val = n
    BY <1>3, <1>5, <1>8
  <2> QED  BY <1>9, <1>10, <2>1, <2>2, <2>3, <2>4 DEF IsFrame, FrameSize, n, p
<1>12. Header(x) + n \in Nat
  BY <1>1, <1>7
<1> QED  BY <1>1, <1>4, <1>6, <1>7, <1>11, <1>12 DEF p, n, FrameSize

(* Where the data frames of a stream of l bytes end.                        *)
Cut(l, f, k) == IF f * k < l THEN f * k ELSE l

Count(l, f) == (l + f - 1) \div f

(* Pieces of f bytes, and a last one of what is left, cover l bytes.        *)
LEMMA Pieces ==
    ASSUME NEW l \in Nat, NEW f \in Nat \ {0}, NEW n, n = Count(l, f)
    PROVE  /\ n \in Nat /\ Cut(l, f, 0) = 0 /\ Cut(l, f, n) = l
           /\ \A k \in 0..n : Cut(l, f, k) \in 0..l
           /\ \A k \in 1..n : f * (k - 1) = Cut(l, f, k - 1) /\ Cut(l, f, k - 1) < Cut(l, f, k)
<1>1. /\ n \in Nat /\ (l + f - 1) % f \in 0..(f - 1)
      /\ l + f - 1 = f * n + ((l + f - 1) % f)
  <2> DEFINE m == l + f - 1
  <2>1. m \in Nat /\ f \in Nat /\ f > 0
    OBVIOUS
  <2> HIDE DEF m
  <2>2. m \div f \in Nat /\ m % f \in 0..(f - 1) /\ m = f * (m \div f) + (m % f)
    BY <2>1
  <2> QED  BY <2>2 DEF m, Count
<1> DEFINE c == f * n
<1>2. c \in Int /\ l <= c /\ c < l + f
  BY <1>1
<1>3. ASSUME NEW k \in 1..n PROVE f * (k - 1) \in Nat /\ f * k = f * (k - 1) + f /\ f * (k - 1) < l
  <2> DEFINE a == f * (k - 1)
             e == n - k
  <2>1. a \in Nat /\ f * k = a + f
    OBVIOUS
  <2>2. e \in Nat /\ n = ((k - 1) + 1) + e
    BY <1>1
  <2>3. f * e \in Nat
    BY <2>2
  <2>4. c = a + f + f * e
    BY <1>1, <2>2
  <2> HIDE DEF a, c, e
  <2>5. a < l
    BY <1>2, <2>1, <2>3, <2>4
  <2> QED  BY <2>1, <2>5 DEF a
<1>4. Cut(l, f, n) = l
  BY <1>2 DEF Cut
<1>5. f * 0 = 0
  OBVIOUS
<1>6. Cut(l, f, 0) = 0
  BY <1>5 DEF Cut
<1>7. ASSUME NEW k \in 1..n
      PROVE  /\ Cut(l, f, k) \in 0..l
             /\ f * (k - 1) = Cut(l, f, k - 1) /\ Cut(l, f, k - 1) < Cut(l, f, k)
  <2> DEFINE a == f * (k - 1)
             d == f * k
  <2>1. a \in Nat /\ d = a + f /\ a < l
    BY <1>3
  <2>2. Cut(l, f, k) = (IF d < l THEN d ELSE l) /\ Cut(l, f, k - 1) = IF a < l THEN a ELSE l
    BY DEF Cut
  <2> HIDE DEF a, d
  <2>3. Cut(l, f, k) \in 0..l /\ a = Cut(l, f, k - 1) /\ Cut(l, f, k - 1) < Cut(l, f, k)
    BY <2>1, <2>2
  <2> QED  BY <2>3 DEF a
<1>8. ASSUME NEW k \in 0..n PROVE Cut(l, f, k) \in 0..l
  <2>1. k = 0 \/ k \in 1..n
    BY <1>1
  <2> QED  BY <1>6, <1>7, <2>1
<1> QED  BY <1>1, <1>4, <1>6, <1>7, <1>8

-----------------------------------------------------------------------------
(* The wire w holds the frames fr; frame k begins behind fo[k - 1], with    *)
(* bo[k - 1] bytes of the stream b before it and ro[k - 1] to answer.       *)
Framed(b, w, ans, fr, fo, bo, ro) ==
    /\ fr \in Seq(Frames)
    /\ fo \in [0..Len(fr) -> 0..Len(w)] /\ fo[0] = 0 /\ fo[Len(fr)] = Len(w)
    /\ bo \in [0..Len(fr) -> 0..Len(b)] /\ bo[0] = 0 /\ bo[Len(fr)] = Len(b)
    /\ ro \in [0..Len(fr) -> {<<>>, ans}] /\ ro[0] = <<>> /\ ro[Len(fr)] = ans
    /\ \A k \in 1..Len(fr) :
          /\ fo[k] = fo[k - 1] + FrameSize(fr[k])
          /\ \A i \in 1..FrameSize(fr[k]) :
                w[fo[k - 1] + i] = Frame(fr[k].op, fr[k].pay)[i]
          /\ bo[k] = bo[k - 1] + IF Data(fr[k]) THEN Len(fr[k].pay) ELSE 0
          /\ Data(fr[k]) => \A i \in 1..Len(fr[k].pay) : b[bo[k - 1] + i] = fr[k].pay[i]
          /\ ro[k] = ro[k - 1] \o Reply(fr[k].op, fr[k].pay, TRUE)

(* Frames one after the other make a wire that holds them.                  *)
LEMMA FramesIn ==
    ASSUME NEW b \in Seq(Bytes), NEW ans, NEW fr \in Seq(Frames),
           NEW s \in Seq(Seq(Bytes)), Len(s) = Len(fr),
           \A k \in 1..Len(fr) : s[k] = Frame(fr[k].op, fr[k].pay),
           NEW bo \in [0..Len(fr) -> 0..Len(b)], bo[0] = 0, bo[Len(fr)] = Len(b),
           NEW ro \in [0..Len(fr) -> {<<>>, ans}], ro[0] = <<>>, ro[Len(fr)] = ans,
           \A k \in 1..Len(fr) :
              /\ bo[k] = bo[k - 1] + IF Data(fr[k]) THEN Len(fr[k].pay) ELSE 0
              /\ Data(fr[k]) => \A i \in 1..Len(fr[k].pay) : b[bo[k - 1] + i] = fr[k].pay[i]
              /\ ro[k] = ro[k - 1] \o Reply(fr[k].op, fr[k].pay, TRUE)
    PROVE  FlattenSeq(s) \in Seq(Bytes) /\ \E fo : Framed(b, FlattenSeq(s), ans, fr, fo, bo, ro)
<1> DEFINE w == FlattenSeq(s)
<1>1. w \in Seq(Bytes) /\ \E fo : Parts(w, s, fo)
  BY FlattenParts
<1> HIDE DEF w
<1>2. PICK fo : Parts(w, s, fo)
  BY <1>1
<1>3. ASSUME NEW k \in 1..Len(fr)
      PROVE  /\ s[k] = Frame(fr[k].op, fr[k].pay) /\ Len(s[k]) = FrameSize(fr[k])
             /\ Len(s[k]) > 0
  <2>1. fr[k] \in Frames
    BY ElementOfSeq
  <2>2. Len(Frame(fr[k].op, fr[k].pay)) = FrameSize(fr[k])
        /\ Header(fr[k]) \in {2, 4} /\ Len(fr[k].pay) \in Nat
    BY <2>1, FrameIs DEF IsFrame
  <2>3. FrameSize(fr[k]) > 0
    BY <2>2 DEF FrameSize
  <2> QED  BY <2>2, <2>3
<1>4. fo \in [0..Len(fr) -> 0..Len(w)]
  <2>1. \A k \in 1..Len(s) : Len(s[k]) > 0
    BY <1>3
  <2>2. fo \in [0..Len(s) -> 0..Len(w)]
    BY <1>1, <1>2, <2>1, PartsWithin
  <2> QED  BY <2>2
<1>5. fo[0] = 0 /\ fo[Len(fr)] = Len(w)
  BY <1>2 DEF Parts, Offsets
<1>6. ASSUME NEW k \in 1..Len(fr)
      PROVE  /\ fo[k] = fo[k - 1] + FrameSize(fr[k])
             /\ \A i \in 1..FrameSize(fr[k]) :
                   w[fo[k - 1] + i] = Frame(fr[k].op, fr[k].pay)[i]
  <2>1. fo[k] = fo[k - 1] + Len(s[k]) /\ \A i \in 1..Len(s[k]) : w[fo[k - 1] + i] = s[k][i]
    BY <1>2 DEF Parts, Offsets
  <2> QED  BY <1>3, <2>1
<1>7. Framed(b, w, ans, fr, fo, bo, ro)
  BY <1>4, <1>5, <1>6 DEF Framed
<1> QED  BY <1>1, <1>7 DEF w

-----------------------------------------------------------------------------
(* The data frames.                                                         *)

DataFrame(b, f, k) ==
    [op  |-> IF k = 1 THEN BINARY ELSE CONTINUATION,
     pay |-> SubSeq(b, Cut(Len(b), f, k - 1) + 1, Cut(Len(b), f, k))]

(* Each data frame holds the next piece of the stream.                      *)
LEMMA DataIs ==
    ASSUME NEW b \in Seq(Bytes), NEW f \in Nat \ {0}
    PROVE  /\ Count(Len(b), f) \in Nat
           /\ DataFrames(b, f) \in Seq(Seq(Bytes)) /\ Len(DataFrames(b, f)) = Count(Len(b), f)
           /\ \A k \in 1..Count(Len(b), f) :
                /\ DataFrame(b, f, k) \in Frames /\ Data(DataFrame(b, f, k))
                /\ DataFrames(b, f)[k] = Frame(DataFrame(b, f, k).op, DataFrame(b, f, k).pay)
                /\ Cut(Len(b), f, k) = Cut(Len(b), f, k - 1) + Len(DataFrame(b, f, k).pay)
                /\ \A i \in 1..Len(DataFrame(b, f, k).pay) :
                      b[Cut(Len(b), f, k - 1) + i] = DataFrame(b, f, k).pay[i]
<1> DEFINE n == Count(Len(b), f)
<1> DEFINE l == Len(b)
           G(k) == Frame(IF k = 1 THEN BINARY ELSE CONTINUATION,
                         SubSeq(b, f * (k - 1) + 1, IF f * k < l THEN f * k ELSE l))
           d == [k \in 1..n |-> G(k)]
<1>1. l \in Nat
  BY LenProperties
<1>2. /\ n \in Nat
      /\ \A k \in 0..n : Cut(l, f, k) \in 0..l
      /\ \A k \in 1..n : f * (k - 1) = Cut(l, f, k - 1) /\ Cut(l, f, k - 1) < Cut(l, f, k)
  BY <1>1, Pieces
<1>3. DataFrames(b, f) = d
  BY DEF DataFrames, Count
<1> HIDE DEF n
<1> HIDE DEF l
<1>4. ASSUME NEW k \in 1..n
      PROVE  /\ DataFrame(b, f, k) \in Frames /\ Data(DataFrame(b, f, k))
             /\ G(k) = Frame(DataFrame(b, f, k).op, DataFrame(b, f, k).pay)
             /\ Cut(l, f, k) = Cut(l, f, k - 1) + Len(DataFrame(b, f, k).pay)
             /\ \A i \in 1..Len(DataFrame(b, f, k).pay) :
                   b[Cut(l, f, k - 1) + i] = DataFrame(b, f, k).pay[i]
  <2> DEFINE x == DataFrame(b, f, k)
             u == Cut(l, f, k - 1)
             v == Cut(l, f, k)
             p == SubSeq(b, u + 1, v)
             o == IF k = 1 THEN BINARY ELSE CONTINUATION
  <2>1. u \in Nat /\ v \in Nat /\ u <= v /\ v <= Len(b) /\ f * (k - 1) = u
    <3>1. k \in 0..n /\ k - 1 \in 0..n
      BY <1>2
    <3>2. u \in 0..l /\ v \in 0..l /\ f * (k - 1) = u /\ u < v
      BY <1>2, <3>1
    <3> HIDE DEF u, v
    <3> QED  BY <1>1, <3>2 DEF l
  <2>2. v = IF f * k < l THEN f * k ELSE l
    BY DEF Cut
  <2>3. x = [op |-> o, pay |-> p]
    BY DEF DataFrame, l
  <2>4. x.op = o /\ x.pay = p
    <3> HIDE DEF o, p, x
    <3> QED  BY <2>3
  <2>5. G(k) = Frame(o, p)
    BY <2>1, <2>2
  <2> HIDE DEF u, v, G, x
  <2>6. p \in Seq(Bytes) /\ Len(p) = v - u /\ \A i \in 1..(v - u) : p[i] = b[u + i]
    BY <2>1, SubSeqIs
  <2> HIDE DEF p
  <2>7. o \in 0..15 /\ o \in {BINARY, CONTINUATION}
    BY DEF BINARY, CONTINUATION
  <2> HIDE DEF o
  <2>8. x \in Frames /\ Data(x)
    BY <2>3, <2>6, <2>7 DEF Frames, Data
  <2>9. v = u + Len(p)
    BY <2>1, <2>6
  <2>10. \A i \in 1..Len(p) : b[u + i] = p[i]
    BY <2>6
  <2> QED  BY <2>4, <2>5, <2>8, <2>9, <2>10 DEF x, u, v
<1>5. \A k \in 1..n : G(k) \in Seq(Bytes)
  BY <1>4, FrameIs
<1>6. \A k \in 1..n : d[k] = G(k)
  OBVIOUS
<1> HIDE DEF G
<1>7. d \in [1..n -> Seq(Bytes)]
  BY <1>5
<1> HIDE DEF d
<1>8. d \in Seq(Seq(Bytes)) /\ Len(d) = n
  BY <1>2, <1>7, FcnSeq
<1> QED  BY <1>2, <1>3, <1>4, <1>6, <1>8 DEF l, n

-----------------------------------------------------------------------------
(* What the wrapper answers.                                                *)
Replies == [op : {CONNCLOSE, PONG}, payload : Seq(Bytes)]

(* Only a whole control frame is answered, a data frame never.              *)
LEMMA ReplyIs ==
    ASSUME NEW x \in Frames
    PROVE  /\ Reply(x.op, x.pay, TRUE) \in Seq(Replies)
           /\ Data(x) => Reply(x.op, x.pay, TRUE) = <<>>
           /\ Reply(x.op, x.pay, FALSE) = <<>>
<1> DEFINE r == [op |-> IF x.op = PING THEN PONG ELSE CONNCLOSE, payload |-> x.pay]
<1>1. r \in Replies
  BY DEF Frames, Replies
<1>2. Reply(x.op, x.pay, TRUE) = IF x.op \in {PING, CONNCLOSE} THEN <<r>> ELSE <<>>
  BY DEF Reply
<1> HIDE DEF r
<1>3. <<r>> \in Seq(Replies) /\ <<>> \in Seq(Replies)
  BY <1>1, One, EmptySeq
<1>4. Reply(x.op, x.pay, TRUE) \in Seq(Replies)
  BY <1>2, <1>3
<1>5. Data(x) => Reply(x.op, x.pay, TRUE) = <<>>
  <2>1. Data(x) => x.op \notin {PING, CONNCLOSE}
    BY DEF Data, PING, CONNCLOSE, BINARY, CONTINUATION
  <2> QED  BY <1>2, <2>1
<1>6. Reply(x.op, x.pay, FALSE) = <<>>
  BY DEF Reply
<1> QED  BY <1>4, <1>5, <1>6

(* The frames of s: n data frames of b and perhaps the frame X behind the   *)
(* first a of them, m in all.                                               *)
Arranged(b, f, X, n, a, m, s, ans) ==
    /\ b \in Seq(Bytes) /\ f \in Nat \ {0} /\ n = Count(Len(b), f)
    /\ X \in Frames /\ (Data(X) => Len(X.pay) = 0)
    /\ (m = n /\ a = n) \/ (m = n + 1 /\ a \in 0..n)
    /\ s \in Seq(Seq(Bytes)) /\ Len(s) = m
    /\ \A k \in 1..m : s[k] = IF k <= a THEN DataFrames(b, f)[k]
                              ELSE IF k = a + 1 THEN Frame(X.op, X.pay)
                              ELSE DataFrames(b, f)[k - 1]
    /\ ans = IF m = n THEN <<>> ELSE Reply(X.op, X.pay, TRUE)

(* Data frames with another frame among them hold the stream and one        *)
(* request.                                                                 *)
LEMMA Assembled ==
    ASSUME NEW b, NEW f, NEW X, NEW n, NEW a, NEW m, NEW s, NEW ans,
           Arranged(b, f, X, n, a, m, s, ans)
    PROVE  FlattenSeq(s) \in Seq(Bytes)
           /\ \E fr, fo, bo, ro : Framed(b, FlattenSeq(s), ans, fr, fo, bo, ro)
<1> DEFINE D(k) == DataFrame(b, f, k)
           C(k) == Cut(Len(b), f, k)
           F(k) == IF k <= a THEN D(k) ELSE IF k = a + 1 THEN X ELSE D(k - 1)
           B(k) == IF k <= a THEN C(k) ELSE C(k - 1)
           R(k) == IF k <= a THEN <<>> ELSE ans
           fr == [k \in 1..m |-> F(k)]
           bo == [k \in 0..m |-> B(k)]
           ro == [k \in 0..m |-> R(k)]
<1>a. b \in Seq(Bytes) /\ f \in Nat \ {0} /\ n = Count(Len(b), f)
  BY DEF Arranged
<1>b. X \in Frames /\ (Data(X) => Len(X.pay) = 0)
  BY DEF Arranged
<1>c. (m = n /\ a = n) \/ (m = n + 1 /\ a \in 0..n)
  BY DEF Arranged
<1>d. /\ s \in Seq(Seq(Bytes)) /\ Len(s) = m
      /\ \A k \in 1..m : s[k] = IF k <= a THEN DataFrames(b, f)[k]
                                ELSE IF k = a + 1 THEN Frame(X.op, X.pay)
                                ELSE DataFrames(b, f)[k - 1]
  BY DEF Arranged
<1>e. ans = IF m = n THEN <<>> ELSE Reply(X.op, X.pay, TRUE)
  BY DEF Arranged
<1>1. /\ n \in Nat
      /\ \A k \in 1..n :
           /\ D(k) \in Frames /\ Data(D(k))
           /\ DataFrames(b, f)[k] = Frame(D(k).op, D(k).pay)
           /\ C(k) = C(k - 1) + Len(D(k).pay)
           /\ \A i \in 1..Len(D(k).pay) : b[C(k - 1) + i] = D(k).pay[i]
  BY <1>a, DataIs
<1>2. C(0) = 0 /\ C(n) = Len(b) /\ \A k \in 0..n : C(k) \in 0..Len(b)
  <2> DEFINE l == Len(b)
  <2>1. l \in Nat /\ n = Count(l, f) /\ f \in Nat \ {0}
    BY <1>a, LenProperties
  <2> HIDE DEF l
  <2>2. Cut(l, f, 0) = 0 /\ Cut(l, f, n) = l /\ \A k \in 0..n : Cut(l, f, k) \in 0..l
    BY <2>1, Pieces
  <2> QED  BY <2>2 DEF l
<1>3. m \in Nat /\ a \in 0..n /\ a <= m
  <2>1. n \in Nat
    BY <1>1
  <2> QED  BY <1>c, <2>1
<1> HIDE DEF D, C
<1>4. ASSUME NEW k \in 1..m
      PROVE  F(k) \in Frames /\ s[k] = Frame(F(k).op, F(k).pay)
  <2>1. CASE k <= a
    <3>1. k \in 1..n
      BY <1>1, <1>3, <2>1
    <3>2. F(k) = D(k) /\ s[k] = DataFrames(b, f)[k]
      BY <1>d, <2>1
    <3> QED  BY <1>1, <3>1, <3>2
  <2>2. CASE k = a + 1
    <3>1. ~(k <= a)
      BY <1>3, <2>2
    <3>2. F(k) = X /\ s[k] = Frame(X.op, X.pay)
      BY <1>d, <2>2, <3>1
    <3> QED  BY <1>b, <3>2
  <2>3. CASE ~(k <= a) /\ k # a + 1
    <3>1. k - 1 \in 1..n
      <4>1. n \in Nat
        BY <1>1
      <4> QED  BY <1>3, <1>c, <2>3, <4>1
    <3>2. F(k) = D(k - 1) /\ s[k] = DataFrames(b, f)[k - 1]
      BY <1>d, <2>3
    <3> QED  BY <1>1, <3>1, <3>2
  <2> QED  BY <2>1, <2>2, <2>3
<1>5. ans \in Seq(Replies)
  BY <1>b, <1>e, ReplyIs, EmptySeq
<1>6. ASSUME NEW k \in 1..m
      PROVE  /\ B(k) = B(k - 1) + IF Data(F(k)) THEN Len(F(k).pay) ELSE 0
             /\ Data(F(k)) => \A i \in 1..Len(F(k).pay) : b[B(k - 1) + i] = F(k).pay[i]
             /\ R(k) = R(k - 1) \o Reply(F(k).op, F(k).pay, TRUE)
  <2>1. CASE k <= a
    <3>1. k \in 1..n /\ k - 1 <= a
      BY <1>1, <1>3, <2>1
    <3>2. F(k) = D(k) /\ B(k) = C(k) /\ B(k - 1) = C(k - 1) /\ R(k) = <<>> /\ R(k - 1) = <<>>
      BY <2>1, <3>1
    <3>3. Reply(D(k).op, D(k).pay, TRUE) = <<>> /\ Data(D(k))
      BY <1>1, <3>1, ReplyIs
    <3>4. <<>> \o <<>> = <<>>
      OBVIOUS
    <3> HIDE DEF F, B, R
    <3>5. B(k) = B(k - 1) + Len(F(k).pay)
      BY <1>1, <3>1, <3>2
    <3>6. \A i \in 1..Len(F(k).pay) : b[B(k - 1) + i] = F(k).pay[i]
      <4>1. \A i \in 1..Len(D(k).pay) : b[C(k - 1) + i] = D(k).pay[i]
        BY <1>1, <3>1
      <4> QED  BY <3>2, <4>1
    <3> QED  BY <3>2, <3>3, <3>4, <3>5, <3>6
  <2>2. CASE k = a + 1
    <3>1. ~(k <= a) /\ k - 1 <= a /\ k - 1 = a /\ m # n
      <4>1. n \in Nat
        BY <1>1
      <4> QED  BY <1>3, <1>c, <2>2, <4>1
    <3>2. F(k) = X /\ B(k) = C(a) /\ B(k - 1) = C(a) /\ R(k) = ans /\ R(k - 1) = <<>>
      BY <2>2, <3>1
    <3>3. C(a) \in Nat
      BY <1>2, <1>3
    <3>4. ans = Reply(X.op, X.pay, TRUE)
      BY <1>e, <3>1
    <3>5. <<>> \o ans = ans
      BY <1>5, ConcatEmptySeq
    <3> HIDE DEF F, B, R
    <3>6. B(k) = B(k - 1) + IF Data(F(k)) THEN Len(F(k).pay) ELSE 0
      BY <1>b, <3>2, <3>3
    <3>7. Data(F(k)) => \A i \in 1..Len(F(k).pay) : b[B(k - 1) + i] = F(k).pay[i]
      BY <1>b, <3>2
    <3> QED  BY <3>2, <3>4, <3>5, <3>6, <3>7
  <2>3. CASE ~(k <= a) /\ k # a + 1
    <3>1. k - 1 \in 1..n /\ ~(k - 1 <= a)
      <4>1. n \in Nat
        BY <1>1
      <4> QED  BY <1>3, <1>c, <2>3, <4>1
    <3>2. F(k) = D(k - 1) /\ B(k) = C(k - 1) /\ B(k - 1) = C((k - 1) - 1)
          /\ R(k) = ans /\ R(k - 1) = ans
      BY <2>3, <3>1
    <3>3. Reply(D(k - 1).op, D(k - 1).pay, TRUE) = <<>> /\ Data(D(k - 1))
      BY <1>1, <3>1, ReplyIs
    <3>4. ans \o <<>> = ans
      BY <1>5, ConcatEmptySeq
    <3> HIDE DEF F, B, R
    <3>5. B(k) = B(k - 1) + Len(F(k).pay)
      BY <1>1, <3>1, <3>2
    <3>6. \A i \in 1..Len(F(k).pay) : b[B(k - 1) + i] = F(k).pay[i]
      <4>1. \A i \in 1..Len(D(k - 1).pay) : b[C((k - 1) - 1) + i] = D(k - 1).pay[i]
        BY <1>1, <3>1
      <4> QED  BY <3>2, <4>1
    <3> QED  BY <3>2, <3>3, <3>4, <3>5, <3>6
  <2> QED  BY <2>1, <2>2, <2>3
<1>7. /\ \A k \in 0..m : B(k) \in 0..Len(b)
      /\ B(0) = 0 /\ B(m) = Len(b)
      /\ \A k \in 0..m : R(k) \in {<<>>, ans}
      /\ R(0) = <<>> /\ R(m) = ans
  <2>1. ASSUME NEW k \in 0..m PROVE B(k) \in 0..Len(b)
    <3>1. CASE k <= a
      <4>1. k \in 0..n
        BY <1>1, <1>3, <3>1
      <4> QED  BY <1>2, <3>1, <4>1
    <3>2. CASE ~(k <= a)
      <4>1. k - 1 \in 0..n
        <5>1. n \in Nat
          BY <1>1
        <5> QED  BY <1>3, <1>c, <3>2, <5>1
      <4> QED  BY <1>2, <3>2, <4>1
    <3> QED  BY <3>1, <3>2
  <2>2. B(0) = 0 /\ R(0) = <<>>
    <3>1. 0 <= a
      BY <1>3
    <3> QED  BY <1>2, <3>1
  <2>3. B(m) = Len(b) /\ R(m) = ans
    <3>1. CASE m = n
      <4>1. a = n /\ m <= a
        <5>1. n \in Nat
          BY <1>1
        <5> QED  BY <1>c, <3>1, <5>1
      <4> QED  BY <1>2, <1>e, <3>1, <4>1
    <3>2. CASE m # n
      <4>1. m - 1 = n /\ ~(m <= a)
        <5>1. m = n + 1 /\ a \in 0..n /\ n \in Nat
          BY <1>1, <1>c, <3>2
        <5> QED  BY ONLY <5>1
      <4> QED  BY <1>2, <1>e, <3>2, <4>1
    <3> QED  BY <3>1, <3>2
  <2> QED  BY <2>1, <2>2, <2>3
<1>8. /\ \A k \in 1..m : fr[k] = F(k)
      /\ \A k \in 0..m : bo[k] = B(k) /\ ro[k] = R(k)
  OBVIOUS
<1>9. fr \in [1..m -> Frames] /\ bo \in [0..m -> 0..Len(b)] /\ ro \in [0..m -> {<<>>, ans}]
  <2> HIDE DEF F, B, R
  <2> QED  BY <1>4, <1>7
<1>10. fr \in Seq(Frames) /\ Len(fr) = m
  <2> HIDE DEF fr
  <2> QED  BY <1>3, <1>9, FcnSeq
<1>11. 0 \in 0..m /\ m \in 0..m /\ \A k \in 1..m : k \in 0..m /\ k - 1 \in 0..m
  BY <1>3
<1> HIDE DEF F, B, R, fr, bo, ro
<1>12. bo[0] = 0 /\ bo[m] = Len(b) /\ ro[0] = <<>> /\ ro[m] = ans
  BY <1>7, <1>8, <1>11
<1>13. ASSUME NEW k \in 1..m
       PROVE  /\ s[k] = Frame(fr[k].op, fr[k].pay)
              /\ bo[k] = bo[k - 1] + IF Data(fr[k]) THEN Len(fr[k].pay) ELSE 0
              /\ Data(fr[k]) => \A i \in 1..Len(fr[k].pay) : b[bo[k - 1] + i] = fr[k].pay[i]
              /\ ro[k] = ro[k - 1] \o Reply(fr[k].op, fr[k].pay, TRUE)
  <2>1. fr[k] = F(k) /\ bo[k] = B(k) /\ bo[k - 1] = B(k - 1) /\ ro[k] = R(k) /\ ro[k - 1] = R(k - 1)
    BY <1>8, <1>11
  <2>2. s[k] = Frame(F(k).op, F(k).pay)
    BY <1>4
  <2>3. B(k) = B(k - 1) + IF Data(F(k)) THEN Len(F(k).pay) ELSE 0
    BY <1>6
  <2>4. Data(F(k)) => \A i \in 1..Len(F(k).pay) : b[B(k - 1) + i] = F(k).pay[i]
    BY <1>6
  <2>5. R(k) = R(k - 1) \o Reply(F(k).op, F(k).pay, TRUE)
    BY <1>6
  <2> QED  BY <2>1, <2>2, <2>3, <2>4, <2>5
<1>14. FlattenSeq(s) \in Seq(Bytes) /\ \E fo : Framed(b, FlattenSeq(s), ans, fr, fo, bo, ro)
  <2>1. b \in Seq(Bytes) /\ fr \in Seq(Frames) /\ s \in Seq(Seq(Bytes)) /\ Len(s) = Len(fr)
    BY <1>a, <1>d, <1>10
  <2>2. \A k \in 1..Len(fr) : s[k] = Frame(fr[k].op, fr[k].pay)
    BY <1>10, <1>13
  <2>3. /\ bo \in [0..Len(fr) -> 0..Len(b)] /\ bo[0] = 0 /\ bo[Len(fr)] = Len(b)
        /\ ro \in [0..Len(fr) -> {<<>>, ans}] /\ ro[0] = <<>> /\ ro[Len(fr)] = ans
    BY <1>9, <1>10, <1>12
  <2>4. \A k \in 1..Len(fr) :
           /\ bo[k] = bo[k - 1] + IF Data(fr[k]) THEN Len(fr[k].pay) ELSE 0
           /\ Data(fr[k]) => \A i \in 1..Len(fr[k].pay) : b[bo[k - 1] + i] = fr[k].pay[i]
           /\ ro[k] = ro[k - 1] \o Reply(fr[k].op, fr[k].pay, TRUE)
    BY <1>10, <1>13
  <2> QED  BY <2>1, <2>2, <2>3, <2>4, FramesIn
<1> QED  BY <1>14

-----------------------------------------------------------------------------
(* What the broker sends.                                                   *)

(* InsertAt, position by position.                                          *)
LEMMA InsertIs ==
    ASSUME NEW T, NEW d \in Seq(T), NEW a \in 0..Len(d), NEW e \in T
    PROVE  /\ InsertAt(d, a + 1, e) \in Seq(T)
           /\ Len(InsertAt(d, a + 1, e)) = Len(d) + 1
           /\ \A k \in 1..(Len(d) + 1) :
                InsertAt(d, a + 1, e)[k] =
                    IF k <= a THEN d[k] ELSE IF k = a + 1 THEN e ELSE d[k - 1]
<1> DEFINE n == Len(d)
           x == SubSeq(d, 1, a)
           y == <<e>>
           z == SubSeq(d, a + 1, n)
           r == x \o y \o z
<1>1. n \in Nat /\ a \in Nat /\ a <= n
  BY LenProperties
<1>2. InsertAt(d, a + 1, e) = r
  <2>1. (a + 1) - 1 = a
    BY <1>1
  <2> QED  BY <2>1 DEF InsertAt
<1>3. x \in Seq(T) /\ Len(x) = a /\ \A i \in 1..a : x[i] = d[i]
  <2>1. 0 \in Nat /\ 0 <= a /\ 0 + 1 = 1
    BY <1>1
  <2>2. /\ SubSeq(d, 0 + 1, a) \in Seq(T)
        /\ Len(SubSeq(d, 0 + 1, a)) = a - 0
        /\ \A i \in 1..(a - 0) : SubSeq(d, 0 + 1, a)[i] = d[0 + i]
    <3> HIDE DEF x, y, z, r
    <3> QED  BY <1>1, <2>1, SubSeqIs DEF n
  <2>3. a - 0 = a /\ \A i \in 1..a : 0 + i = i
    BY <1>1
  <2> QED  BY <2>1, <2>2, <2>3
<1>4. z \in Seq(T) /\ Len(z) = n - a /\ \A i \in 1..(n - a) : z[i] = d[a + i]
  BY <1>1, SubSeqIs
<1>5. y \in Seq(T) /\ Len(y) = 1 /\ y[1] = e
  BY One
<1> HIDE DEF x, y, z, n
<1>6. /\ r \in Seq(T) /\ Len(r) = Len(x) + Len(y) + Len(z)
      /\ \A i \in 1..Len(x) : r[i] = x[i]
      /\ \A i \in 1..Len(y) : r[Len(x) + i] = y[i]
      /\ \A i \in 1..Len(z) : r[Len(x) + Len(y) + i] = z[i]
  <2>1. x \in Seq(T) /\ y \in Seq(T) /\ z \in Seq(T)
    BY <1>3, <1>4, <1>5
  <2>2. x \o y \o z \in Seq(T) /\ Len(x \o y \o z) = Len(x) + Len(y) + Len(z)
    BY <2>1, Three
  <2>3. \A i \in 1..Len(x) : (x \o y \o z)[i] = x[i]
    BY <2>1, Three
  <2>4. \A i \in 1..Len(y) : (x \o y \o z)[Len(x) + i] = y[i]
    BY <2>1, Three
  <2>5. \A i \in 1..Len(z) : (x \o y \o z)[Len(x) + Len(y) + i] = z[i]
    BY <2>1, Three
  <2> QED  BY <2>2, <2>3, <2>4, <2>5
<1> HIDE DEF r
<1>7. Len(r) = n + 1
  BY <1>1, <1>3, <1>4, <1>5, <1>6
<1>8. ASSUME NEW k \in 1..(n + 1)
      PROVE  r[k] = IF k <= a THEN d[k] ELSE IF k = a + 1 THEN e ELSE d[k - 1]
  <2>1. CASE k <= a
    <3>1. k \in 1..a
      BY <2>1
    <3> QED  BY <1>3, <1>6, <2>1, <3>1
  <2>2. CASE k = a + 1
    <3>1. ~(k <= a) /\ 1 \in 1..Len(y)
      BY <1>1, <1>5, <2>2
    <3>2. r[a + 1] = e
      BY <1>3, <1>5, <1>6, <3>1
    <3> QED  BY <2>2, <3>1, <3>2
  <2>3. CASE ~(k <= a) /\ k # a + 1
    <3> DEFINE i == k - (a + 1)
    <3>1. i \in 1..(n - a) /\ k = a + 1 + i /\ a + i = k - 1
      BY <1>1, <2>3
    <3> HIDE DEF i
    <3>2. r[a + 1 + i] = z[i]
      BY <1>3, <1>4, <1>5, <1>6, <3>1
    <3>3. z[i] = d[k - 1]
      BY <1>4, <3>1
    <3> QED  BY <2>3, <3>1, <3>2, <3>3
  <2> QED  BY <2>1, <2>2, <2>3
<1> QED  BY <1>2, <1>6, <1>7, <1>8 DEF n

(* What the parameters of a stream are.                                     *)
LEMMA StreamIs ==
    ASSUME NEW s \in Streams
    PROVE  /\ s.transport \in {"tcp", "websockets"} /\ s.lens \in Seq(Nat)
           /\ s.f \in Nat \ {0} /\ s.at \in Nat
           /\ s.transport = "tcp" => s.extra = <<>>
           /\ s.extra # <<>> => s.extra[1] \in Extras
<1>1. Bodies \subseteq Seq(Nat) /\ FrameSizes \subseteq Nat \ {0} /\ MaxAt \in Nat
  BY ReaderAssumption DEF ReaderAssumption
<1>2. CASE s \in [transport : {"tcp"} \cap Transports, lens : Bodies, f : {1}, extra : {<<>>}, at : {0}]
  BY <1>1, <1>2
<1>3. CASE s \in [transport : {"websockets"} \cap Transports, lens : Bodies, f : FrameSizes,
                  extra : {<<>>} \cup {<<x>> : x \in Extras}, at : 0..MaxAt]
  <2>1. s.transport = "websockets" /\ s.lens \in Bodies /\ s.f \in FrameSizes /\ s.at \in 0..MaxAt
        /\ s.extra \in {<<>>} \cup {<<x>> : x \in Extras}
    BY <1>3
  <2>2. s.extra # <<>> => s.extra[1] \in Extras
    BY <2>1
  <2>3. s.lens \in Seq(Nat) /\ s.f \in Nat \ {0} /\ s.at \in Nat
    <3>1. s.lens \in Seq(Nat)
      BY <1>1, <2>1, Zenon
    <3>2. s.f \in Nat \ {0}
      BY <1>1, <2>1, Zenon
    <3>3. s.at \in Nat
      BY <1>1, <2>1
    <3> QED  BY <3>1, <3>2, <3>3
  <2>4. s.transport # "tcp"
    BY <2>1
  <2> QED  BY <2>1, <2>2, <2>3, <2>4
<1> QED  BY <1>2, <1>3 DEF Streams

AnswersTo(s) == IF s.extra = <<>> THEN <<>> ELSE Answer(s.extra[1])

(* The other frame of a stream, and the answer to it.                       *)
LEMMA ExtraIs ==
    ASSUME NEW x \in Extras
    PROVE  \E y \in Frames :
              /\ y.op = x.op /\ ExtraFrame(x) = Frame(y.op, y.pay)
              /\ Data(y) => Len(y.pay) = 0
              /\ Answer(x) = Reply(y.op, y.pay, TRUE)
<1> DEFINE p == [k \in 1..x.size |-> Byte(k, FALSE)]
           y == [op |-> x.op, pay |-> p]
<1>1. x.op \in 0..15 /\ x.size \in Nat /\ (x.op \in {CONTINUATION, BINARY} => x.size = 0)
  BY ReaderAssumption DEF ReaderAssumption
<1>2. p \in Seq(Bytes) /\ Len(p) = x.size
  <2>1. ASSUME NEW k \in 1..x.size PROVE Byte(k, FALSE) \in Bytes
    <3>1. k \in Nat
      BY <1>1
    <3> QED  BY <3>1, ByteIs
  <2>2. p \in [1..x.size -> Bytes]
    BY <2>1
  <2> HIDE DEF p
  <2> QED  BY <1>1, <2>2, FcnSeq
<1>3. ExtraFrame(x) = Frame(x.op, p)
  BY DEF ExtraFrame
<1>4. Answer(x) = Reply(x.op, p, TRUE)
  BY DEF Answer, Reply
<1> HIDE DEF p
<1>5. y.op = x.op /\ y.pay = p /\ y \in Frames
  BY <1>1, <1>2 DEF Frames
<1> HIDE DEF y
<1>6. Data(y) => Len(y.pay) = 0
  BY <1>1, <1>2, <1>5 DEF Data
<1> QED  BY <1>3, <1>4, <1>5, <1>6

(* Over WebSockets the wire holds frames with the stream of the broker.     *)
LEMMA WireFramed ==
    ASSUME NEW s \in Streams, s.transport = "websockets"
    PROVE  /\ Wire(s) \in Seq(Bytes)
           /\ \E fr, fo, bo, ro : Framed(PacketBytes(s.lens), Wire(s), AnswersTo(s), fr, fo, bo, ro)
<1> DEFINE b == PacketBytes(s.lens)
           f == s.f
           d == DataFrames(b, f)
           n == Count(Len(b), f)
           ans == AnswersTo(s)
<1>1. b \in Seq(Bytes) /\ f \in Nat \ {0} /\ s.at \in Nat
      /\ (s.extra # <<>> => s.extra[1] \in Extras)
  BY StreamIs, PacketsPacked
<1>2. n \in Nat /\ d \in Seq(Seq(Bytes)) /\ Len(d) = n
  <2> HIDE DEF b, f
  <2> QED  BY <1>1, DataIs
<1>3. CASE s.extra = <<>>
  <2> DEFINE y == [op |-> PING, pay |-> <<>>]
  <2>1. y \in Frames /\ ~Data(y)
    <3>1. <<>> \in Seq(Bytes)
      OBVIOUS
    <3> QED  BY <3>1 DEF Frames, Data, PING, BINARY, CONTINUATION
  <2>2. Wire(s) = FlattenSeq(d)
    BY <1>3 DEF Wire
  <2>3. ans = <<>>
    BY <1>3 DEF AnswersTo
  <2> HIDE DEF b, f, n, ans, y, d
  <2>4. \A k \in 1..n : d[k] = IF k <= n THEN DataFrames(b, f)[k]
                               ELSE IF k = n + 1 THEN Frame(y.op, y.pay) ELSE DataFrames(b, f)[k - 1]
    BY <1>2 DEF d
  <2>5. /\ FlattenSeq(d) \in Seq(Bytes)
        /\ \E fr, fo, bo, ro : Framed(b, FlattenSeq(d), ans, fr, fo, bo, ro)
    <3>1. n = Count(Len(b), f)
      BY DEF n
    <3>2. Arranged(b, f, y, n, n, n, d, ans)
      BY <1>1, <1>2, <2>1, <2>3, <2>4, <3>1 DEF Arranged
    <3> QED  BY <3>2, Assembled
  <2> QED  BY <2>2, <2>5 DEF b, ans
<1>4. CASE s.extra # <<>>
  <2> DEFINE x == s.extra[1]
             a == IF s.at < Len(d) THEN s.at ELSE Len(d)
             e == ExtraFrame(x)
             t == InsertAt(d, a + 1, e)
             m == n + 1
  <2>1. PICK y \in Frames :
           /\ e = Frame(y.op, y.pay) /\ (Data(y) => Len(y.pay) = 0)
           /\ Answer(x) = Reply(y.op, y.pay, TRUE)
    BY <1>1, <1>4, ExtraIs
  <2>2. Wire(s) = FlattenSeq(t)
    BY <1>4 DEF Wire
  <2>3. ans = Reply(y.op, y.pay, TRUE)
    BY <1>4, <2>1 DEF AnswersTo
  <2>4. a \in 0..n /\ a \in 0..Len(d)
    <3> HIDE DEF d, n
    <3> QED  BY <1>1, <1>2
  <2>5. e \in Seq(Bytes)
    BY <2>1, FrameIs
  <2> HIDE DEF b, f, n, ans, d, a, e
  <2>6. /\ t \in Seq(Seq(Bytes)) /\ Len(t) = m
        /\ \A k \in 1..m : t[k] = IF k <= a THEN d[k] ELSE IF k = a + 1 THEN e ELSE d[k - 1]
    <3>1. d \in Seq(Seq(Bytes)) /\ a \in 0..Len(d) /\ e \in Seq(Bytes) /\ Len(d) + 1 = m
      BY <1>2, <2>4, <2>5
    <3> HIDE DEF m
    <3>2. /\ t \in Seq(Seq(Bytes)) /\ Len(t) = Len(d) + 1
          /\ \A k \in 1..(Len(d) + 1) :
                t[k] = IF k <= a THEN d[k] ELSE IF k = a + 1 THEN e ELSE d[k - 1]
      BY <3>1, InsertIs
    <3> QED  BY <3>1, <3>2
  <2> HIDE DEF t
  <2>7. \A k \in 1..m : t[k] = IF k <= a THEN DataFrames(b, f)[k]
                               ELSE IF k = a + 1 THEN Frame(y.op, y.pay) ELSE DataFrames(b, f)[k - 1]
    BY <2>1, <2>6 DEF d
  <2>8. m # n /\ m = n + 1
    BY <1>2
  <2> HIDE DEF m
  <2>9. /\ FlattenSeq(t) \in Seq(Bytes)
        /\ \E fr, fo, bo, ro : Framed(b, FlattenSeq(t), ans, fr, fo, bo, ro)
    <3>1. n = Count(Len(b), f)
      BY DEF n
    <3>2. ans = IF m = n THEN <<>> ELSE Reply(y.op, y.pay, TRUE)
      BY <2>3, <2>8
    <3>3. Arranged(b, f, y, n, a, m, t, ans)
      BY <1>1, <2>1, <2>4, <2>6, <2>7, <2>8, <3>1, <3>2 DEF Arranged
    <3> QED  BY <3>3, Assembled
  <2> QED  BY <2>2, <2>9 DEF b, ans
<1> QED  BY <1>3, <1>4

-----------------------------------------------------------------------------
(* The wrapper finds the frames again.                                      *)

Part(y, s, m, n) == y = SubSeq(s, m + 1, n)

(* SubSeqIs, for a part that has a name.                                    *)
LEMMA PartIs ==
    ASSUME NEW T, NEW s \in Seq(T), NEW m \in Nat, NEW n \in Nat, m <= n, n <= Len(s),
           NEW y, Part(y, s, m, n)
    PROVE  y \in Seq(T) /\ Len(y) = n - m /\ \A i \in 1..(n - m) : y[i] = s[m + i]
BY SubSeqIs DEF Part

(* What is in _readbuffer and what is in the kernel are adjacent.           *)
LEMMA Join ==
    ASSUME NEW T, NEW w \in Seq(T), NEW p \in Nat, NEW t \in Nat, NEW a \in Nat,
           p <= t, t <= a, a <= Len(w)
    PROVE  SubSeq(w, p + 1, t) \o SubSeq(w, t + 1, a) = SubSeq(w, p + 1, a)
<1> DEFINE x == SubSeq(w, p + 1, t)
           y == SubSeq(w, t + 1, a)
           z == SubSeq(w, p + 1, a)
<1>0. t <= Len(w) /\ p <= a
  BY LenProperties
<1>1. x \in Seq(T) /\ Len(x) = t - p /\ \A i \in 1..(t - p) : x[i] = w[p + i]
  BY <1>0, SubSeqIs
<1>2. y \in Seq(T) /\ Len(y) = a - t /\ \A i \in 1..(a - t) : y[i] = w[t + i]
  BY <1>0, SubSeqIs
<1>3. z \in Seq(T) /\ Len(z) = a - p /\ \A i \in 1..(a - p) : z[i] = w[p + i]
  BY <1>0, SubSeqIs
<1> HIDE DEF x, y, z
<1>4. /\ x \o y \in Seq(T) /\ Len(x \o y) = (t - p) + (a - t)
      /\ \A i \in 1..((t - p) + (a - t)) : (x \o y)[i] = IF i <= t - p THEN x[i] ELSE y[i - (t - p)]
  <2>1. /\ x \o y \in Seq(T) /\ Len(x \o y) = Len(x) + Len(y)
        /\ \A i \in 1..(Len(x) + Len(y)) : (x \o y)[i] = IF i <= Len(x) THEN x[i] ELSE y[i - Len(x)]
    <3>1. x \in Seq(T) /\ y \in Seq(T)
      BY <1>1, <1>2
    <3> QED  BY <3>1, ConcatProperties
  <2> QED  BY <1>1, <1>2, <2>1
<1>5. Len(x \o y) = Len(z)
  BY <1>3, <1>4
<1>6. ASSUME NEW i \in 1..Len(x \o y) PROVE (x \o y)[i] = z[i]
  <2>1. i \in 1..(a - p) /\ i \in 1..((t - p) + (a - t))
    BY <1>4
  <2>2. CASE i <= t - p
    <3>1. i \in 1..(t - p)
      BY <2>2
    <3> QED  BY <1>1, <1>3, <1>4, <2>1, <2>2, <3>1
  <2>3. CASE ~(i <= t - p)
    <3>1. i - (t - p) \in 1..(a - t) /\ t + (i - (t - p)) = p + i
      BY <2>1, <2>3
    <3>2. y[i - (t - p)] = w[p + i]
      BY <1>2, <3>1
    <3> QED  BY <1>3, <1>4, <2>1, <2>3, <3>2
  <2> QED  BY <2>2, <2>3
<1>7. x \o y = z
  BY <1>3, <1>4, <1>5, <1>6, SeqEqual
<1> QED  BY <1>7 DEF x, y, z

(* The beginning of a part is a part.                                       *)
LEMMA Beginning ==
    ASSUME NEW T, NEW w \in Seq(T), NEW p \in Nat, NEW a \in Nat, p <= a, a <= Len(w),
           NEW m \in 0..(a - p)
    PROVE  SubSeq(SubSeq(w, p + 1, a), 1, m) = SubSeq(w, p + 1, p + m)
<1> DEFINE h == SubSeq(w, p + 1, a)
           x == SubSeq(h, 1, m)
           z == SubSeq(w, p + 1, p + m)
<1>1. h \in Seq(T) /\ Len(h) = a - p /\ \A i \in 1..(a - p) : h[i] = w[p + i]
  BY SubSeqIs
<1>2. m \in Nat /\ p + m \in Nat /\ p <= p + m /\ p + m <= Len(w) /\ (p + m) - p = m
  BY LenProperties
<1>3. z \in Seq(T) /\ Len(z) = (p + m) - p /\ \A i \in 1..((p + m) - p) : z[i] = w[p + i]
  <2> HIDE DEF h, x
  <2> QED  BY <1>2, SubSeqIs
<1> HIDE DEF h, z
<1>4. x \in Seq(T) /\ Len(x) = m /\ \A i \in 1..m : x[i] = h[i]
  <2>1. 0 \in Nat /\ 0 <= m /\ m <= Len(h)
    BY <1>1, <1>2
  <2>2. /\ SubSeq(h, 0 + 1, m) \in Seq(T) /\ Len(SubSeq(h, 0 + 1, m)) = m - 0
        /\ \A i \in 1..(m - 0) : SubSeq(h, 0 + 1, m)[i] = h[0 + i]
    <3> HIDE DEF x
    <3> QED  BY <1>1, <1>2, <2>1, SubSeqIs
  <2>3. 0 + 1 = 1 /\ m - 0 = m /\ \A i \in 1..m : 0 + i = i
    BY <1>2
  <2> QED  BY <2>2, <2>3
<1> HIDE DEF x
<1>5. ASSUME NEW i \in 1..m PROVE x[i] = z[i]
  <2>1. i \in 1..(a - p)
    BY <1>2
  <2> QED  BY <1>1, <1>2, <1>3, <1>4, <2>1
<1>6. Len(x) = Len(z)
  BY <1>2, <1>3, <1>4
<1>7. x = z
  BY <1>2, <1>3, <1>4, <1>5, <1>6, SeqEqual
<1> QED  BY <1>7 DEF x, z, h

(* What the wrapper reads in the bytes it has.                              *)
HeaderOf(have) == IF Len(have) > 1 /\ have[2].flag THEN 4 ELSE 2
SizeOf(have) == IF HeaderOf(have) = 4 THEN have[3].val ELSE have[2].val

(* The bytes that are there hold the payload, as far as they go.            *)
Holds(x, have) ==
    \A m \in 1..Len(x.pay) : Header(x) + m <= Len(have) => have[Header(x) + m] = x.pay[m]
HoldsFrame(w, p, x) ==
    \A i \in 1..FrameSize(x) : w[p + i] = Frame(x.op, x.pay)[i]

(* The header the wrapper reads is that of the frame it is in.              *)
LEMMA Parse ==
    ASSUME NEW w \in Seq(Bytes), NEW x \in Frames, NEW p \in Nat, NEW a \in Nat, p <= a, a <= Len(w),
           HoldsFrame(w, p, x), NEW have, Part(have, w, p, a)
    PROVE  /\ have \in Seq(Bytes) /\ Len(have) = a - p
           /\ HeaderOf(have) \in {2, 4}
           /\ Len(have) < HeaderOf(have) => a - p < FrameSize(x)
           /\ Len(have) >= HeaderOf(have) =>
                  HeaderOf(have) = Header(x) /\ SizeOf(have) = Len(x.pay) /\ have[1].val = x.op
           /\ Holds(x, have)
<1> DEFINE F == Frame(x.op, x.pay)
           n == Len(x.pay)
           h == Header(x)
           l == a - p
<1>1. h \in {2, 4} /\ n \in Nat /\ FrameSize(x) = h + n /\ IsFrame(F, x)
  BY FrameIs DEF FrameSize
<1>2. have \in Seq(Bytes) /\ Len(have) = l /\ \A i \in 1..l : have[i] = w[p + i]
  BY PartIs
<1>3. l \in Nat
  OBVIOUS
<1>4. /\ F[1].val = x.op /\ (F[2].flag <=> h = 4)
      /\ (h = 2 => F[2].val = n) /\ (h = 4 => F[3].val = n)
      /\ \A i \in 1..n : F[h + i] = x.pay[i]
  BY <1>1 DEF IsFrame
<1> HIDE DEF h, n, l, F
<1>5. \A i \in 1..(h + n) : i <= l => have[i] = F[i]
  <2> SUFFICES ASSUME NEW i \in 1..(h + n), i <= l PROVE have[i] = F[i]
    OBVIOUS
  <2>1. i \in 1..l
    BY <1>3
  <2>2. i \in 1..FrameSize(x)
    BY <1>1
  <2>3. w[p + i] = F[i]
    BY <2>2 DEF F, HoldsFrame
  <2> QED  BY <1>2, <2>1, <2>3
<1>6. 1 \in 1..(h + n) /\ 2 \in 1..(h + n) /\ (h = 4 => 3 \in 1..(h + n))
  BY <1>1
<1>7. l > 1 => HeaderOf(have) = h
  <2> SUFFICES ASSUME l > 1 PROVE HeaderOf(have) = h
    OBVIOUS
  <2>1. have[2] = F[2]
    <3>1. 2 <= l
      BY <1>3
    <3> QED  BY ONLY <1>5, <1>6, <3>1
  <2>2. have[2].flag <=> h = 4
    BY <1>4, <2>1
  <2>3. Len(have) > 1
    BY <1>2
  <2>4. HeaderOf(have) = IF have[2].flag THEN 4 ELSE 2
    BY <2>3 DEF HeaderOf
  <2> QED  BY <1>1, <2>2, <2>4
<1>8. HeaderOf(have) \in {2, 4}
  BY DEF HeaderOf
<1>9. l < HeaderOf(have) => l < h + n
  <2>1. l > 1 \/ l < 2
    BY <1>3
  <2>2. l < 2 => l < h + n
    BY <1>1, <1>3
  <2> QED  BY <1>1, <1>3, <1>7, <2>1, <2>2
<1>10. ASSUME l >= HeaderOf(have)
       PROVE  HeaderOf(have) = h /\ SizeOf(have) = n /\ have[1].val = x.op
  <2>1. l > 1
    BY <1>3, <1>8, <1>10
  <2>2. HeaderOf(have) = h /\ l >= h
    BY <1>7, <1>10, <2>1
  <2>3. have[1] = F[1] /\ have[2] = F[2]
    <3>1. 1 <= l /\ 2 <= l
      BY <1>3, <2>1
    <3> QED  BY ONLY <1>5, <1>6, <3>1
  <2>4. h = 4 => have[3] = F[3]
    <3>1. h = 4 => 3 <= l
      BY <1>3, <2>2
    <3> QED  BY <1>5, <1>6, <3>1
  <2>5. SizeOf(have) = IF h = 4 THEN have[3].val ELSE have[2].val
    BY <2>2 DEF SizeOf
  <2>6. SizeOf(have) = n
    BY <1>1, <1>4, <2>3, <2>4, <2>5
  <2> QED  BY <1>4, <2>2, <2>3, <2>6
<1>11. ASSUME NEW i \in 1..n, h + i <= l PROVE have[h + i] = x.pay[i]
  <2>1. h + i \in 1..(h + n)
    BY <1>1
  <2> QED  BY <1>4, <1>5, <1>11, <2>1
<1>12. Holds(x, have)
  BY <1>2, <1>11 DEF Holds, h, n, l
<1> QED  BY <1>1, <1>2, <1>8, <1>9, <1>10, <1>12 DEF h, n, l

-----------------------------------------------------------------------------
(* recv() of the wrapper.                                                   *)

(* The wrapper is in frame j + 1 and has handed out d bytes of the stream.  *)
At(fr, fo, bo, ro, j, d, t, buf, head, rep) ==
    /\ j \in 0..Len(fr)
    /\ t \in fo[j]..Len(wire)
    /\ buf = SubSeq(wire, fo[j] + 1, t)
    /\ j < Len(fr) => t < fo[j + 1] /\ (head = 0 \/ head < Len(fr[j + 1].pay))
    /\ head \in Nat /\ (j = Len(fr) => head = 0)
    /\ rep = ro[j]
    /\ d = bo[j] + IF j < Len(fr) /\ Data(fr[j + 1]) THEN head ELSE 0

(* What a recv(n) returned: out and the next bytes of the stream b behind d.*)
Gives(b, d, e, n, out, data) ==
    /\ out \in {"data", "again", "closed"}
    /\ out # "data" => e = d
    /\ out = "data" => /\ data \in Seq(Bytes) /\ Len(data) \in 1..n /\ e = d + Len(data)
                       /\ \A i \in 1..Len(data) : data[i] = b[d + i]

Frame1(b, fr, fo, bo, ro, k) ==
    /\ fr[k] \in Frames
    /\ fo[k - 1] \in 0..Len(wire) /\ fo[k] \in 0..Len(wire)
    /\ fo[k] = fo[k - 1] + FrameSize(fr[k])
    /\ \A i \in 1..FrameSize(fr[k]) : wire[fo[k - 1] + i] = Frame(fr[k].op, fr[k].pay)[i]
    /\ bo[k - 1] \in Nat /\ bo[k] = bo[k - 1] + IF Data(fr[k]) THEN Len(fr[k].pay) ELSE 0
    /\ Data(fr[k]) => \A i \in 1..Len(fr[k].pay) : b[bo[k - 1] + i] = fr[k].pay[i]
    /\ ro[k] = ro[k - 1] \o Reply(fr[k].op, fr[k].pay, TRUE)
    /\ ro[k - 1] \in Seq(Replies)

Waits(r, o) ==
    /\ r.out \in {"closed", "again"} /\ r.taken = arrived
    /\ r.buffer = SubSeq(wire, o + 1, arrived) /\ r.head = payloadHead /\ r.reply = <<>>

(* recv() while the bytes that are there do not suffice.                    *)
LEMMA WsWaits ==
    ASSUME NEW b, NEW ans, NEW fr, NEW fo, NEW bo, NEW ro, Framed(b, wire, ans, fr, fo, bo, ro),
           wire \in Seq(Bytes), arrived \in 0..Len(wire), taken \in 0..arrived,
           NEW j, NEW d, At(fr, fo, bo, ro, j, d, taken, readbuffer, payloadHead, replies),
           j < Len(fr) => arrived < fo[j + 1],
           NEW n, NEW r, Waits(r, fo[j]),
           replies \in Seq(Replies)
    PROVE  /\ At(fr, fo, bo, ro, j, d, r.taken, r.buffer, r.head, replies \o r.reply)
           /\ Gives(b, d, d, n, r.out, r.data)
<1>0. /\ r.out \in {"closed", "again"} /\ r.taken = arrived
      /\ r.buffer = SubSeq(wire, fo[j] + 1, arrived) /\ r.head = payloadHead /\ r.reply = <<>>
  BY DEF Waits
<1>1. replies \o <<>> = replies
  BY ConcatEmptySeq
<1>2. j \in 0..Len(fr) /\ taken \in fo[j]..Len(wire) /\ fo \in [0..Len(fr) -> 0..Len(wire)]
  BY DEF At, Framed
<1>3. fo[j] \in Nat
  BY <1>2
<1>4. arrived \in fo[j]..Len(wire)
  BY <1>2, <1>3
<1>5. At(fr, fo, bo, ro, j, d, arrived, r.buffer, payloadHead, replies)
  BY <1>0, <1>4 DEF At
<1>6. Gives(b, d, d, n, r.out, r.data)
  BY <1>0 DEF Gives
<1> QED  BY <1>0, <1>1, <1>5, <1>6

(* What the wire holds at frame k.                                          *)
LEMMA FrameAt ==
    ASSUME NEW b, NEW ans \in Seq(Replies), NEW fr, NEW fo, NEW bo, NEW ro,
           Framed(b, wire, ans, fr, fo, bo, ro), NEW k \in 1..Len(fr)
    PROVE  Frame1(b, fr, fo, bo, ro, k)
<1>1. Len(fr) \in Nat /\ k \in 0..Len(fr) /\ k - 1 \in 0..Len(fr)
  BY LenProperties DEF Framed
<1>2. fr[k] \in Frames
  BY ElementOfSeq DEF Framed
<1>3. fo[k - 1] \in 0..Len(wire) /\ fo[k] \in 0..Len(wire) /\ bo[k - 1] \in Nat
  <2>1. fo \in [0..Len(fr) -> 0..Len(wire)] /\ bo \in [0..Len(fr) -> 0..Len(b)]
    BY DEF Framed
  <2>2. fo[k - 1] \in 0..Len(wire) /\ fo[k] \in 0..Len(wire) /\ bo[k - 1] \in 0..Len(b)
    BY <1>1, <2>1
  <2> QED  BY <2>2
<1>4. ro[k - 1] \in Seq(Replies)
  <2>1. ro[k - 1] \in {<<>>, ans}
    BY <1>1 DEF Framed
  <2> QED  BY <2>1, EmptySeq
<1>5. /\ fo[k] = fo[k - 1] + FrameSize(fr[k])
      /\ \A i \in 1..FrameSize(fr[k]) : wire[fo[k - 1] + i] = Frame(fr[k].op, fr[k].pay)[i]
  BY DEF Framed
<1>6. /\ bo[k] = bo[k - 1] + IF Data(fr[k]) THEN Len(fr[k].pay) ELSE 0
      /\ Data(fr[k]) => \A i \in 1..Len(fr[k].pay) : b[bo[k - 1] + i] = fr[k].pay[i]
      /\ ro[k] = ro[k - 1] \o Reply(fr[k].op, fr[k].pay, TRUE)
  BY DEF Framed
<1> QED  BY <1>2, <1>3, <1>4, <1>5, <1>6 DEF Frame1

-----------------------------------------------------------------------------
(* A frame has bytes.                                                       *)
LEMMA FramePositive ==
    ASSUME NEW x \in Frames
    PROVE  /\ Header(x) \in {2, 4} /\ Header(x) \in Nat /\ Len(x.pay) \in Nat
           /\ FrameSize(x) = Header(x) + Len(x.pay) /\ FrameSize(x) \in Nat /\ FrameSize(x) > 0
<1>1. Header(x) \in {2, 4} /\ Len(x.pay) \in Nat /\ FrameSize(x) = Header(x) + Len(x.pay)
  BY FrameIs DEF FrameSize
<1> QED  BY <1>1

PayPart(y, x, i) == y \in Seq(Bytes) /\ Len(y) = i /\ \A m \in 1..i : y[m] = x.pay[m]

(* The payload that recv(n) has when it has read up to i of it.             *)
LEMMA PayloadIs ==
    ASSUME NEW x \in Frames, NEW have \in Seq(Bytes), NEW i \in 0..Len(x.pay),
           Header(x) + i <= Len(have),
           Holds(x, have),
           NEW y, Part(y, have, Header(x), Header(x) + i)
    PROVE  PayPart(y, x, i) /\ (i = Len(x.pay) => y = x.pay)
<1> DEFINE h == Header(x)
<1>1. h \in Nat /\ h \in {2, 4} /\ Len(x.pay) \in Nat /\ x.pay \in Seq(Bytes) /\ Len(have) \in Nat
  BY FrameIs, LenProperties DEF Frames
<1> HIDE DEF h
<1>2. i \in Nat /\ h + i \in Nat /\ h <= h + i /\ (h + i) - h = i
  BY <1>1
<1>3. y \in Seq(Bytes) /\ Len(y) = (h + i) - h /\ \A m \in 1..((h + i) - h) : y[m] = have[h + m]
  <2>1. h + i <= Len(have) /\ Part(y, have, h, h + i)
    BY DEF h
  <2> QED  BY <1>1, <1>2, <2>1, PartIs
<1>4. ASSUME NEW m \in 1..i PROVE y[m] = x.pay[m]
  <2>1. m \in 1..Len(x.pay) /\ h + m <= Len(have)
    <3>1. h + i <= Len(have)
      BY DEF h
    <3> QED  BY <1>1, <1>2, <3>1
  <2>2. have[h + m] = x.pay[m]
    BY <2>1 DEF h, Holds
  <2> QED  BY <1>2, <1>3, <2>2
<1>5. Len(y) = i
  BY <1>2, <1>3
<1>6. ASSUME i = Len(x.pay) PROVE y = x.pay
  BY <1>1, <1>3, <1>4, <1>5, <1>6, SeqEqual
<1> QED  BY <1>3, <1>4, <1>5, <1>6 DEF PayPart

(* What recv(n) hands out of the payload, from g to i.                      *)
LEMMA ChunkIs ==
    ASSUME NEW x \in Frames, NEW i \in 0..Len(x.pay), NEW g \in 0..i,
           NEW y, PayPart(y, x, i),
           NEW c, Part(c, y, g, i)
    PROVE  c \in Seq(Bytes) /\ Len(c) = i - g /\ \A m \in 1..(i - g) : c[m] = x.pay[g + m]
<1>1. Len(x.pay) \in Nat /\ i \in Nat /\ g \in Nat /\ g <= i
  BY FrameIs
<1>2. c \in Seq(Bytes) /\ Len(c) = i - g /\ \A m \in 1..(i - g) : c[m] = y[g + m]
  <2>1. y \in Seq(Bytes) /\ i <= Len(y)
    BY <1>1 DEF PayPart
  <2> QED  BY <1>1, <2>1, PartIs
<1>3. ASSUME NEW m \in 1..(i - g) PROVE c[m] = x.pay[g + m]
  <2>1. g + m \in 1..i
    BY <1>1
  <2> QED  BY <1>2, <2>1 DEF PayPart
<1> QED  BY <1>2, <1>3

(* recv(n) when the bytes it needs of the frame x are there, i of its       *)
(* payload y.                                                               *)
Taking(n, x, have, i, y, r) ==
    /\ i = IF payloadHead + n < Len(x.pay) THEN payloadHead + n ELSE Len(x.pay)
    /\ Header(x) + i <= Len(have)
    /\ Holds(x, have)
    /\ y = SubSeq(have, Header(x) + 1, Header(x) + i)
    /\ r.out = IF Data(x) /\ Len(x.pay) > 0 THEN "data" ELSE "again"
    /\ r.data = SubSeq(y, payloadHead + 1, i)
    /\ r.taken = taken + (Header(x) + i) - Len(readbuffer)
    /\ r.buffer = IF i = Len(x.pay) THEN <<>> ELSE SubSeq(have, 1, Header(x) + i)
    /\ r.head = IF i = Len(x.pay) THEN 0 ELSE i
    /\ r.reply = Reply(x.op, y, i = Len(x.pay))

(* A sum, where the provers see more than they need.                        *)
LEMMA PlusNat ==
    ASSUME NEW a \in Nat, NEW b \in Nat
    PROVE  a + b \in Nat
OBVIOUS

(* How far a recv(n) gets in a payload of z bytes of which it gave g.       *)
LEMMA HowFar ==
    ASSUME NEW z \in Nat, NEW g \in Nat, g = 0 \/ g < z, NEW n \in Nat \ {0},
           NEW i, i = IF g + n < z THEN g + n ELSE z
    PROVE  i \in 0..z /\ g \in 0..i /\ i - g <= n /\ (z > 0 => i - g > 0) /\ i - g \in Nat
OBVIOUS

(* recv(n) when the bytes it needs are there.                               *)
LEMMA WsHas ==
    ASSUME NEW b, NEW ans \in Seq(Replies), NEW fr, NEW fo, NEW bo, NEW ro,
           Framed(b, wire, ans, fr, fo, bo, ro),
           wire \in Seq(Bytes), arrived \in 0..Len(wire), taken \in 0..arrived,
           NEW j, NEW d, At(fr, fo, bo, ro, j, d, taken, readbuffer, payloadHead, replies),
           j < Len(fr),
           NEW n \in Nat \ {0}, NEW i, NEW y, NEW r,
           Taking(n, fr[j + 1], SubSeq(wire, fo[j] + 1, arrived), i, y, r)
    PROVE  \E j2 \in 0..Len(fr), e \in Nat :
              /\ At(fr, fo, bo, ro, j2, e, r.taken, r.buffer, r.head, replies \o r.reply)
              /\ Gives(b, d, e, n, r.out, r.data)
              /\ r.taken \in 0..arrived
<1> DEFINE x == fr[j + 1]
           z == Len(x.pay)
           h == Header(x)
           p == fo[j]
           g == payloadHead
           k == j + 1
           have == SubSeq(wire, p + 1, arrived)
<1>1. /\ Len(fr) \in Nat /\ j \in Nat /\ k \in 1..Len(fr) /\ k - 1 = j /\ j \in 0..Len(fr) /\ k \in 0..Len(fr)
  <2>1. Len(fr) \in Nat /\ j \in 0..Len(fr)
    BY LenProperties DEF At, Framed
  <2> QED  BY <2>1
<1>2. Frame1(b, fr, fo, bo, ro, k)
  BY <1>1, FrameAt
<1>3. /\ x \in Frames /\ p \in 0..Len(wire) /\ fo[k] \in 0..Len(wire) /\ fo[k] = p + FrameSize(x)
      /\ bo[j] \in Nat /\ bo[k] = bo[j] + (IF Data(x) THEN z ELSE 0)
      /\ (Data(x) => \A m \in 1..z : b[bo[j] + m] = x.pay[m])
      /\ ro[k] = ro[j] \o Reply(x.op, x.pay, TRUE) /\ ro[j] \in Seq(Replies)
  <2>1. fr[k] = x /\ fo[j] = p /\ k - 1 = j
    BY <1>1
  <2> HIDE DEF k, x, p
  <2>2. /\ fr[k] \in Frames
        /\ fo[k - 1] \in 0..Len(wire) /\ fo[k] \in 0..Len(wire)
        /\ fo[k] = fo[k - 1] + FrameSize(fr[k])
        /\ bo[k - 1] \in Nat /\ bo[k] = bo[k - 1] + (IF Data(fr[k]) THEN Len(fr[k].pay) ELSE 0)
    BY <1>2 DEF Frame1
  <2>3. Data(fr[k]) => \A m \in 1..Len(fr[k].pay) : b[bo[k - 1] + m] = fr[k].pay[m]
    BY <1>2 DEF Frame1
  <2>4. ro[k] = ro[k - 1] \o Reply(fr[k].op, fr[k].pay, TRUE) /\ ro[k - 1] \in Seq(Replies)
    BY <1>2 DEF Frame1
  <2> QED  BY <2>1, <2>2, <2>3, <2>4
<1>4. h \in {2, 4} /\ h \in Nat /\ z \in Nat /\ FrameSize(x) = h + z /\ FrameSize(x) > 0
  BY <1>3, FramePositive
<1>5. /\ taken \in p..Len(wire) /\ taken < fo[k] /\ readbuffer = SubSeq(wire, p + 1, taken)
      /\ g \in Nat /\ (g = 0 \/ g < z)
      /\ replies = ro[j] /\ d = bo[j] + (IF Data(x) THEN g ELSE 0)
  BY <1>1 DEF At
<1>a. /\ i = (IF g + n < z THEN g + n ELSE z)
      /\ h + i <= Len(have)
      /\ Holds(x, have)
      /\ Part(y, have, h, h + i)
      /\ r.out = (IF Data(x) /\ z > 0 THEN "data" ELSE "again")
      /\ Part(r.data, y, g, i)
      /\ r.taken = taken + (h + i) - Len(readbuffer)
      /\ r.buffer = (IF i = z THEN <<>> ELSE SubSeq(have, 1, h + i))
      /\ r.head = (IF i = z THEN 0 ELSE i)
      /\ r.reply = Reply(x.op, y, i = z)
  BY DEF Taking, Part
<1>b. have = SubSeq(wire, p + 1, arrived)
  OBVIOUS
<1> HIDE DEF p, g, k, x, z, h, have
<1>6. /\ p \in Nat /\ taken \in Nat /\ arrived \in Nat /\ Len(wire) \in Nat /\ p <= taken
      /\ taken <= arrived /\ p <= arrived /\ arrived <= Len(wire) /\ taken <= Len(wire)
  BY <1>3, <1>5, LenProperties
<1>7. Len(readbuffer) = taken - p /\ have \in Seq(Bytes) /\ Len(have) = arrived - p
  <2>1. Len(SubSeq(wire, p + 1, taken)) = taken - p
    BY <1>6, SubSeqIs
  <2>2. have \in Seq(Bytes) /\ Len(have) = arrived - p
    BY <1>b, <1>6, SubSeqIs
  <2> QED  BY <1>5, <2>1, <2>2
<1>8. i \in 0..z /\ g \in 0..i /\ i - g <= n /\ (z > 0 => i - g > 0) /\ i - g \in Nat
  BY <1>a, <1>4, <1>5, HowFar
<1>9. PayPart(y, x, i) /\ (i = z => y = x.pay)
  <2>1. i \in 0..Len(x.pay) /\ Header(x) + i <= Len(have) /\ Holds(x, have)
        /\ Part(y, have, Header(x), Header(x) + i)
    BY <1>a, <1>8 DEF h, z
  <2> QED  BY <1>3, <1>7, <2>1, PayloadIs DEF z
<1>10. r.data \in Seq(Bytes) /\ Len(r.data) = i - g /\ \A m \in 1..(i - g) : r.data[m] = x.pay[g + m]
  <2>1. i \in 0..Len(x.pay)
    BY <1>8 DEF z
  <2>2. x \in Frames /\ g \in 0..i /\ PayPart(y, x, i) /\ Part(r.data, y, g, i)
    BY <1>a, <1>3, <1>8, <1>9
  <2> DEFINE c == r.data
  <2>3. Part(c, y, g, i)
    BY <2>2
  <2> HIDE DEF c
  <2>4. c \in Seq(Bytes) /\ Len(c) = i - g /\ \A m \in 1..(i - g) : c[m] = x.pay[g + m]
    <3>1. c \in Seq(Bytes)
      BY <2>1, <2>2, <2>3, ChunkIs
    <3>2. Len(c) = i - g
      BY <2>1, <2>2, <2>3, ChunkIs
    <3>3. \A m \in 1..(i - g) : c[m] = x.pay[g + m]
      BY <2>1, <2>2, <2>3, ChunkIs
    <3> QED  BY <3>1, <3>2, <3>3
  <2> QED  BY <2>4 DEF c
<1>11. r.taken = p + (h + i) /\ r.taken \in 0..arrived /\ r.taken \in p..Len(wire)
  <2>1. r.taken = p + (h + i)
    <3>1. r.taken = taken + (h + i) - (taken - p) /\ i \in Nat
      BY <1>a, <1>4, <1>7, <1>8
    <3> QED  BY <1>4, <1>6, <3>1
  <2>2. h + i <= arrived - p /\ i \in Nat
    BY <1>a, <1>4, <1>7, <1>8
  <2> QED  BY <1>4, <1>6, <2>1, <2>2
<1>12. ASSUME NEW e, e = d + IF Data(x) THEN i - g ELSE 0
       PROVE  e \in Nat /\ Gives(b, d, e, n, r.out, r.data)
  <2>1. d \in Nat
    <3>1. bo[j] \in Nat /\ g \in Nat
      BY <1>3, <1>5
    <3>2. d = bo[j] + g \/ d = bo[j] + 0
      BY <1>5
    <3> QED  BY ONLY <3>1, <3>2
  <2>2. CASE Data(x) /\ z > 0
    <3>1. r.out = "data" /\ e = d + (i - g) /\ d = bo[j] + g
      BY <1>a, <1>5, <1>12, <2>2
    <3>2. Len(r.data) \in 1..n /\ e = d + Len(r.data) /\ e \in Nat
      <4>1. i - g \in 1..n
        BY <1>8, <2>2
      <4>2. r.data \in Seq(Bytes) /\ Len(r.data) = i - g /\ d + (i - g) \in Nat
        BY <1>8, <1>10, <2>1, PlusNat
      <4> QED  BY ONLY <3>1, <4>1, <4>2
    <3>3. ASSUME NEW m \in 1..Len(r.data) PROVE r.data[m] = b[d + m]
      <4>1. m \in 1..(i - g) /\ g + m \in 1..z /\ d + m = bo[j] + (g + m)
        <5>1. m \in 1..(i - g)
          BY <1>10
        <5>2. g \in Nat /\ i \in 0..z /\ z \in Nat /\ bo[j] \in Nat /\ d = bo[j] + g
          BY <1>3, <1>4, <1>5, <1>8, <3>1
        <5> QED  BY ONLY <5>1, <5>2
      <4>2. b[bo[j] + (g + m)] = x.pay[g + m]
        BY <1>3, <2>2, <4>1
      <4> QED  BY <1>10, <4>1, <4>2
    <3> QED  BY <1>10, <3>1, <3>2, <3>3 DEF Gives
  <2>3. CASE ~(Data(x) /\ z > 0)
    <3>1. r.out = "again"
      BY <1>a, <2>3
    <3>2. z = 0 => i - g = 0
      BY <1>4, <1>8
    <3>3. e = d
      <4>1. Data(x) => z = 0
        BY <1>4, <2>3
      <4> QED  BY <1>12, <2>1, <3>2, <4>1
    <3> QED  BY <2>1, <3>1, <3>3 DEF Gives
  <2> QED  BY <2>2, <2>3
<1> DEFINE e == d + IF Data(x) THEN i - g ELSE 0
<1>13. e = bo[j] + IF Data(x) THEN i ELSE 0
  <2>1. g \in Nat /\ i \in Nat /\ bo[j] \in Nat
    BY <1>3, <1>4, <1>5, <1>8
  <2>2. d = bo[j] + IF Data(x) THEN g ELSE 0
    BY <1>5
  <2> QED  BY ONLY <2>1, <2>2
<1>14. CASE i = z
  <2>1. r.buffer = <<>> /\ r.head = 0 /\ r.reply = Reply(x.op, x.pay, TRUE)
    <3>1. r.reply = Reply(x.op, y, TRUE)
      BY <1>a, <1>14
    <3> QED  BY <1>a, <1>9, <1>14, <3>1
  <2>2. r.taken = fo[k]
    BY <1>3, <1>4, <1>11, <1>14
  <2>3. r.buffer = SubSeq(wire, fo[k] + 1, r.taken)
    <3>1. fo[k] \in Nat
      BY <1>3, <1>6
    <3>2. fo[k] + 1 \in Int /\ fo[k] \in Int /\ fo[k] < fo[k] + 1
      BY <3>1
    <3>3. SubSeq(wire, fo[k] + 1, fo[k]) = <<>>
      BY <3>2, SubSeqEmpty
    <3> QED  BY <2>1, <2>2, <3>3
  <2>4. k < Len(fr) => r.taken < fo[k + 1]
    <3> SUFFICES ASSUME k < Len(fr) PROVE r.taken < fo[k + 1]
      OBVIOUS
    <3>1. k + 1 \in 1..Len(fr) /\ (k + 1) - 1 = k
      BY <1>1
    <3>2. Frame1(b, fr, fo, bo, ro, k + 1)
      BY <3>1, FrameAt
    <3>3. fr[k + 1] \in Frames /\ fo[k + 1] = fo[k] + FrameSize(fr[k + 1])
      BY <3>1, <3>2 DEF Frame1
    <3>4. FrameSize(fr[k + 1]) > 0 /\ FrameSize(fr[k + 1]) \in Nat
      BY <3>3, FramePositive
    <3>5. fo[k] \in Nat
      BY <1>3, <1>6
    <3> QED  BY <2>2, <3>3, <3>4, <3>5
  <2>5. replies \o r.reply = ro[k]
    BY <1>3, <1>5, <2>1
  <2>6. e = bo[k]
    BY <1>3, <1>13, <1>14
  <2>7. r.taken \in fo[k]..Len(wire)
    <3>1. fo[k] \in Nat
      BY <1>3, <1>6
    <3> QED  BY <1>3, <1>6, <2>2, <3>1
  <2>8. bo[k] = bo[k] + 0
    BY <1>3, <1>4
  <2>9. At(fr, fo, bo, ro, k, e, r.taken, r.buffer, r.head, replies \o r.reply)
    <3> HIDE DEF e
    <3>1. k < Len(fr) => r.taken < fo[k + 1] /\ (r.head = 0 \/ r.head < Len(fr[k + 1].pay))
      BY <2>1, <2>4
    <3>2. r.head \in Nat /\ (k = Len(fr) => r.head = 0)
      BY <2>1
    <3>3. e = bo[k] + IF k < Len(fr) /\ Data(fr[k + 1]) THEN r.head ELSE 0
      BY <2>1, <2>6, <2>8
    <3> QED  BY <1>1, <2>3, <2>5, <2>7, <3>1, <3>2, <3>3 DEF At
  <2>10. e \in Nat /\ Gives(b, d, e, n, r.out, r.data)
    BY <1>12
  <2> HIDE DEF e
  <2> QED  BY <1>1, <1>11, <2>9, <2>10
<1>15. CASE i # z
  <2>1. r.buffer = SubSeq(have, 1, h + i) /\ r.head = i
    BY <1>a, <1>15
  <2>2. replies \o r.reply = replies
    <3>1. r.reply = <<>>
      BY <1>a, <1>15 DEF Reply
    <3> QED  BY <1>3, <1>5, <3>1, ConcatEmptySeq
  <2>3. h + i \in 0..(arrived - p)
    <3>1. i \in Nat /\ h + i <= arrived - p
      BY <1>a, <1>4, <1>7, <1>8
    <3> QED  BY <1>4, <1>6, <3>1
  <2>4. r.buffer = SubSeq(wire, p + 1, r.taken)
    <3>1. SubSeq(SubSeq(wire, p + 1, arrived), 1, h + i) = SubSeq(wire, p + 1, p + (h + i))
      <4>1. /\ wire \in Seq(Bytes) /\ p \in Nat /\ arrived \in Nat /\ p <= arrived
            /\ arrived <= Len(wire) /\ h + i \in 0..(arrived - p)
        BY <1>6, <2>3
      <4> QED  BY ONLY <4>1, Beginning
    <3> QED  BY <1>b, <1>11, <2>1, <3>1
  <2>5. r.taken < fo[k] /\ i < z /\ i \in Nat
    <3>1. i < z /\ i \in Nat
      BY <1>4, <1>8, <1>15
    <3>2. /\ r.taken = p + (h + i) /\ fo[k] = p + (h + z)
          /\ p \in Nat /\ h \in Nat /\ z \in Nat
      BY <1>3, <1>4, <1>6, <1>11
    <3> QED  BY ONLY <3>1, <3>2
  <2>6. At(fr, fo, bo, ro, j, e, r.taken, r.buffer, r.head, replies \o r.reply)
    <3> HIDE DEF e
    <3>1. r.taken \in fo[j]..Len(wire) /\ r.buffer = SubSeq(wire, fo[j] + 1, r.taken)
      BY <1>11, <2>4 DEF p
    <3>2. j < Len(fr) => r.taken < fo[j + 1] /\ (r.head = 0 \/ r.head < Len(fr[j + 1].pay))
      BY <2>1, <2>5 DEF k, x, z
    <3>3. r.head \in Nat /\ (j = Len(fr) => r.head = 0)
      BY <1>1, <2>1, <2>5 DEF k
    <3>4. replies \o r.reply = ro[j]
      BY <1>5, <2>2
    <3>5. e = bo[j] + IF j < Len(fr) /\ Data(fr[j + 1]) THEN r.head ELSE 0
      BY <1>13, <2>1 DEF x, e
    <3> QED  BY <1>1, <3>1, <3>2, <3>3, <3>4, <3>5 DEF At
  <2>7. e \in Nat /\ Gives(b, d, e, n, r.out, r.data)
    BY <1>12
  <2> HIDE DEF e
  <2> QED  BY <1>1, <1>11, <2>6, <2>7
<1> QED  BY <1>14, <1>15

-----------------------------------------------------------------------------
(* The socket and the wrapper hand out the stream of the broker.            *)

SentBytes == PacketBytes(stream.lens)

WireOK ==
    /\ stream \in Streams /\ wire = Wire(stream)
    /\ arrived \in 0..Len(wire) /\ taken \in 0..arrived

(* d bytes of the stream were handed out.                                   *)
Sock(t, buf, head, rep, d) ==
    IF stream.transport = "tcp"
    THEN buf = <<>> /\ head = 0 /\ rep = <<>> /\ d = t
    ELSE \E fr, fo, bo, ro :
            /\ Framed(SentBytes, wire, Answers, fr, fo, bo, ro)
            /\ \E j \in 0..Len(fr) : At(fr, fo, bo, ro, j, d, t, buf, head, rep)

(* The wire and what it holds.                                              *)
LEMMA WireIs ==
    ASSUME WireOK
    PROVE  /\ SentBytes \in Seq(Bytes) /\ wire \in Seq(Bytes)
           /\ Len(wire) \in Nat /\ arrived \in Nat /\ taken \in Nat
           /\ arrived <= Len(wire) /\ taken <= arrived
           /\ Answers \in Seq(Replies)
           /\ stream.transport = "tcp" => wire = SentBytes /\ Answers = <<>>
           /\ stream.transport # "tcp" =>
                \E fr, fo, bo, ro : Framed(SentBytes, wire, Answers, fr, fo, bo, ro)
<1>1. /\ stream \in Streams /\ wire = Wire(stream)
      /\ arrived \in 0..Len(wire) /\ taken \in 0..arrived
  BY DEF WireOK
<1>2. /\ stream.transport \in {"tcp", "websockets"} /\ stream.lens \in Seq(Nat)
      /\ (stream.transport = "tcp" => stream.extra = <<>>)
      /\ (stream.extra # <<>> => stream.extra[1] \in Extras)
  BY <1>1, StreamIs
<1>3. SentBytes \in Seq(Bytes)
  BY <1>2, PacketsPacked DEF SentBytes
<1>4. Answers \in Seq(Replies)
  <2>1. CASE stream.extra = <<>>
    BY <2>1, EmptySeq DEF Answers
  <2>2. CASE stream.extra # <<>>
    <3>1. PICK y \in Frames : Answer(stream.extra[1]) = Reply(y.op, y.pay, TRUE)
      BY <1>2, <2>2, ExtraIs
    <3>2. Reply(y.op, y.pay, TRUE) \in Seq(Replies)
      BY ReplyIs
    <3> QED  BY <2>2, <3>1, <3>2 DEF Answers
  <2> QED  BY <2>1, <2>2
<1>5. ASSUME stream.transport = "tcp" PROVE wire = SentBytes /\ Answers = <<>>
  BY <1>1, <1>2, <1>5 DEF Wire, SentBytes, Answers
<1>6. ASSUME stream.transport # "tcp"
      PROVE  /\ wire \in Seq(Bytes)
             /\ \E fr, fo, bo, ro : Framed(SentBytes, wire, Answers, fr, fo, bo, ro)
  <2>1. stream.transport = "websockets"
    BY <1>2, <1>6
  <2>2. AnswersTo(stream) = Answers
    BY DEF AnswersTo, Answers
  <2> QED  BY <1>1, <2>1, <2>2, WireFramed DEF SentBytes
<1>7. wire \in Seq(Bytes)
  BY <1>3, <1>5, <1>6
<1>8. Len(wire) \in Nat
  BY <1>7, LenProperties
<1>9. arrived \in Nat /\ taken \in Nat /\ arrived <= Len(wire) /\ taken <= arrived
  BY <1>1, <1>8
<1> QED  BY <1>3, <1>4, <1>5, <1>6, <1>7, <1>8, <1>9

(* The bytes in the kernel.                                                 *)
LEMMA WaitingIs ==
    ASSUME WireOK
    PROVE  /\ Waiting \in Seq(Bytes) /\ Len(Waiting) = arrived - taken
           /\ \A i \in 1..(arrived - taken) : Waiting[i] = wire[taken + i]
<1>1. wire \in Seq(Bytes) /\ arrived \in Nat /\ taken \in Nat /\ taken <= arrived /\ arrived <= Len(wire)
  BY WireIs
<1> QED  BY <1>1, SubSeqIs DEF Waiting

(* recv(n) of the socket returns the next bytes of the stream.              *)
LEMMA TcpRecvIs ==
    ASSUME WireOK, stream.transport = "tcp", NEW d, Sock(taken, readbuffer, payloadHead, replies, d),
           NEW n \in Nat \ {0}, NEW r, r = TcpRecv(n)
    PROVE  \E e \in Nat :
              /\ Sock(r.taken, r.buffer, r.head, replies \o r.reply, e)
              /\ Gives(SentBytes, d, e, n, r.out, r.data)
              /\ r.taken \in 0..arrived
<1> DEFINE l == Len(Waiting)
           m == IF n < l THEN n ELSE l
           c == SubSeq(Waiting, 1, m)
<1>1. /\ wire = SentBytes /\ arrived \in Nat /\ taken \in Nat /\ taken <= arrived
      /\ SentBytes \in Seq(Bytes)
  BY WireIs
<1>2. /\ Waiting \in Seq(Bytes) /\ l = arrived - taken
      /\ \A i \in 1..(arrived - taken) : Waiting[i] = wire[taken + i]
  BY WaitingIs
<1>3. replies = <<>> /\ d = taken
  BY DEF Sock
<1>4. /\ r.out = (IF m > 0 THEN "data" ELSE IF eof THEN "closed" ELSE "again")
      /\ r.data = c /\ r.taken = taken + m /\ r.buffer = <<>> /\ r.head = 0 /\ r.reply = <<>>
  BY DEF TcpRecv
<1> HIDE DEF l
<1>5. m \in Nat /\ m <= l /\ m <= n /\ l \in Nat /\ m = IF n < l THEN n ELSE l
  BY <1>1, <1>2
<1> HIDE DEF m
<1>6. c \in Seq(Bytes) /\ Len(c) = m /\ \A i \in 1..m : c[i] = Waiting[i]
  <2>1. 0 \in Nat /\ 0 <= m /\ m <= Len(Waiting)
    BY <1>5 DEF l
  <2>2. /\ SubSeq(Waiting, 0 + 1, m) \in Seq(Bytes) /\ Len(SubSeq(Waiting, 0 + 1, m)) = m - 0
        /\ \A i \in 1..(m - 0) : SubSeq(Waiting, 0 + 1, m)[i] = Waiting[0 + i]
    <3> HIDE DEF c
    <3> QED  BY <1>2, <1>5, <2>1, SubSeqIs
  <2>3. 0 + 1 = 1 /\ m - 0 = m /\ \A i \in 1..m : 0 + i = i
    BY <1>5
  <2> QED  BY <2>2, <2>3
<1> HIDE DEF c
<1>7. replies \o r.reply = <<>>
  BY <1>3, <1>4
<1>8. Sock(r.taken, r.buffer, r.head, replies \o r.reply, taken + m)
  BY <1>4, <1>7 DEF Sock
<1>9. taken + m \in 0..arrived /\ taken + m \in Nat
  BY <1>1, <1>2, <1>5
<1>10. Gives(SentBytes, d, taken + m, n, r.out, r.data)
  <2>1. CASE m > 0
    <3>1. r.out = "data"
      BY <1>4, <2>1
    <3>2. Len(c) \in 1..n /\ taken + m = d + Len(c)
      BY <1>3, <1>5, <1>6, <2>1
    <3>3. ASSUME NEW i \in 1..Len(c) PROVE c[i] = SentBytes[d + i]
      <4>1. i \in 1..m /\ i \in 1..(arrived - taken)
        BY <1>1, <1>2, <1>5, <1>6
      <4> QED  BY <1>1, <1>2, <1>3, <1>6, <4>1
    <3> QED  BY <1>4, <1>6, <3>1, <3>2, <3>3 DEF Gives
  <2>2. CASE ~(m > 0)
    <3>1. r.out \in {"closed", "again"} /\ r.out # "data" /\ taken + m = d
      BY <1>1, <1>3, <1>4, <1>5, <2>2
    <3> QED  BY <3>1 DEF Gives
  <2> QED  BY <2>1, <2>2
<1> QED  BY <1>4, <1>8, <1>9, <1>10

-----------------------------------------------------------------------------
(* recv(n) of the wrapper does, too, and answers what is to be answered.    *)
LEMMA WsRecvIs ==
    ASSUME WireOK, stream.transport # "tcp",
           NEW d, Sock(taken, readbuffer, payloadHead, replies, d),
           NEW n \in Nat \ {0}, NEW r, r = WsRecv(n)
    PROVE  \E e \in Nat :
              /\ Sock(r.taken, r.buffer, r.head, replies \o r.reply, e)
              /\ Gives(SentBytes, d, e, n, r.out, r.data)
              /\ r.taken \in 0..arrived
<1>1. /\ SentBytes \in Seq(Bytes) /\ wire \in Seq(Bytes)
      /\ Len(wire) \in Nat /\ arrived \in Nat /\ taken \in Nat
      /\ arrived <= Len(wire) /\ taken <= arrived /\ Answers \in Seq(Replies)
      /\ arrived \in 0..Len(wire) /\ taken \in 0..arrived
  BY WireIs DEF WireOK
<1>2. PICK fr, fo, bo, ro :
         /\ Framed(SentBytes, wire, Answers, fr, fo, bo, ro)
         /\ \E j \in 0..Len(fr) : At(fr, fo, bo, ro, j, d, taken, readbuffer, payloadHead, replies)
  BY DEF Sock
<1>3. PICK j \in 0..Len(fr) : At(fr, fo, bo, ro, j, d, taken, readbuffer, payloadHead, replies)
  BY <1>2
<1>4. ASSUME NEW k \in 0..Len(fr), NEW e \in Nat,
             At(fr, fo, bo, ro, k, e, r.taken, r.buffer, r.head, replies \o r.reply),
             Gives(SentBytes, d, e, n, r.out, r.data), r.taken \in 0..arrived
      PROVE  \E f \in Nat : /\ Sock(r.taken, r.buffer, r.head, replies \o r.reply, f)
                            /\ Gives(SentBytes, d, f, n, r.out, r.data)
                            /\ r.taken \in 0..arrived
  <2>1. Sock(r.taken, r.buffer, r.head, replies \o r.reply, e)
    BY <1>2, <1>4 DEF Sock
  <2> QED  BY <1>4, <2>1
<1>5. /\ Len(fr) \in Nat /\ j \in Nat /\ fo \in [0..Len(fr) -> 0..Len(wire)] /\ fo[Len(fr)] = Len(wire)
      /\ ro \in [0..Len(fr) -> {<<>>, Answers}] /\ bo \in [0..Len(fr) -> 0..Len(SentBytes)]
  BY <1>2, LenProperties DEF Framed
<1> DEFINE p == fo[j]
           g == payloadHead
           have == readbuffer \o Waiting
           h == HeaderOf(have)
           z == SizeOf(have)
           i == IF g + n < z THEN g + n ELSE z
           y == SubSeq(have, h + 1, h + i)
<1>6. p \in Nat /\ p <= taken /\ p <= arrived /\ g \in Nat /\ replies \in Seq(Replies) /\ bo[j] \in Nat
  <2>1. p \in 0..Len(wire) /\ bo[j] \in 0..Len(SentBytes) /\ ro[j] \in {<<>>, Answers}
    BY <1>5
  <2>2. replies = ro[j] /\ g \in Nat /\ taken \in p..Len(wire)
    BY <1>3 DEF At
  <2>3. replies \in Seq(Replies)
    BY <1>1, <2>1, <2>2, EmptySeq
  <2> HIDE DEF p, g
  <2> QED  BY <1>1, <2>1, <2>2, <2>3
<1>7. have = SubSeq(wire, p + 1, arrived)
  <2>1. readbuffer = SubSeq(wire, p + 1, taken)
    BY <1>3 DEF At
  <2> HIDE DEF p
  <2>2. SubSeq(wire, p + 1, taken) \o SubSeq(wire, taken + 1, arrived) = SubSeq(wire, p + 1, arrived)
    <3>1. /\ p \in Nat /\ taken \in Nat /\ arrived \in Nat /\ wire \in Seq(Bytes)
          /\ p <= taken /\ taken <= arrived /\ arrived <= Len(wire)
      BY <1>1, <1>6
    <3> QED  BY ONLY <3>1, Join
  <2> QED  BY <2>1, <2>2 DEF Waiting
<1>8. IF Len(have) < h \/ Len(have) < h + i
      THEN /\ r.out \in {"closed", "again"} /\ r.data = <<>> /\ r.taken = arrived
           /\ r.buffer = have /\ r.head = g /\ r.reply = <<>>
      ELSE /\ r.out = IF have[1].val \in {BINARY, CONTINUATION} /\ z > 0 THEN "data" ELSE "again"
           /\ r.data = SubSeq(y, g + 1, i)
           /\ r.taken = taken + (h + i) - Len(readbuffer)
           /\ r.buffer = IF i = z THEN <<>> ELSE SubSeq(have, 1, h + i)
           /\ r.head = IF i = z THEN 0 ELSE i
           /\ r.reply = Reply(have[1].val, y, i = z)
  BY DEF WsRecv, HeaderOf, SizeOf, FrameRead, Received
<1> HIDE DEF p, g, have, h, z, i, y
<1>9. d \in Nat
  <2>1. d = bo[j] + (IF j < Len(fr) /\ Data(fr[j + 1]) THEN g ELSE 0)
    BY <1>3 DEF At, g
  <2> QED  BY <1>6, <2>1
<1>10. ASSUME Len(have) < h \/ Len(have) < h + i, j < Len(fr) => arrived < fo[j + 1]
       PROVE  \E f \in Nat : /\ Sock(r.taken, r.buffer, r.head, replies \o r.reply, f)
                             /\ Gives(SentBytes, d, f, n, r.out, r.data)
                             /\ r.taken \in 0..arrived
  <2>1. Waits(r, fo[j]) /\ r.taken = arrived
    BY <1>7, <1>8, <1>10 DEF p, g, Waits
  <2>2. /\ At(fr, fo, bo, ro, j, d, r.taken, r.buffer, r.head, replies \o r.reply)
        /\ Gives(SentBytes, d, d, n, r.out, r.data)
    BY <1>1, <1>2, <1>3, <1>6, <1>10, <2>1, WsWaits
  <2>3. r.taken \in 0..arrived
    BY <1>1, <2>1
  <2> QED  BY <1>4, <1>9, <2>2, <2>3
<1>11. CASE j = Len(fr)
  <2>1. p = Len(wire)
    BY <1>5, <1>11 DEF p
  <2>2. Len(have) = 0
    <3>1. arrived = p
      BY <1>1, <1>6, <2>1
    <3>2. Len(SubSeq(wire, p + 1, arrived)) = arrived - p
      BY <1>1, <1>6, SubSeqIs
    <3> QED  BY <1>6, <1>7, <3>1, <3>2
  <2>3. h = 2
    BY <2>2 DEF h, HeaderOf
  <2> QED  BY <1>5, <1>10, <1>11, <2>2, <2>3
<1>12. CASE j < Len(fr)
  <2> DEFINE x == fr[j + 1]
  <2>1. j + 1 \in 1..Len(fr) /\ (j + 1) - 1 = j
    BY <1>5, <1>12
  <2>2. Frame1(SentBytes, fr, fo, bo, ro, j + 1)
    BY <1>1, <1>2, <2>1, FrameAt
  <2>3. /\ x \in Frames /\ fo[j + 1] = p + FrameSize(x)
        /\ HoldsFrame(wire, p, x)
    <3> DEFINE k == j + 1
    <3>1. k - 1 = j /\ x = fr[k]
      BY <2>1
    <3>2. Frame1(SentBytes, fr, fo, bo, ro, k)
      BY <2>2
    <3> HIDE DEF k, x
    <3>3. /\ fr[k] \in Frames /\ fo[k] = fo[k - 1] + FrameSize(fr[k])
          /\ \A m \in 1..FrameSize(fr[k]) : wire[fo[k - 1] + m] = Frame(fr[k].op, fr[k].pay)[m]
      BY <3>2 DEF Frame1
    <3>4. x \in Frames /\ fo[k] = p + FrameSize(x)
          /\ \A m \in 1..FrameSize(x) : wire[p + m] = Frame(x.op, x.pay)[m]
      BY <3>1, <3>3 DEF p
    <3> QED  BY <3>4 DEF k, HoldsFrame
  <2> HIDE DEF x
  <2>4. /\ Header(x) \in Nat /\ Len(x.pay) \in Nat /\ FrameSize(x) = Header(x) + Len(x.pay)
    BY <2>3, FramePositive
  <2>5. /\ have \in Seq(Bytes) /\ Len(have) = arrived - p
        /\ h \in {2, 4}
        /\ Len(have) < h => arrived - p < FrameSize(x)
        /\ Len(have) >= h => h = Header(x) /\ z = Len(x.pay) /\ have[1].val = x.op
        /\ Holds(x, have)
    <3>1. Part(have, wire, p, arrived)
      BY <1>7 DEF Part
    <3> QED  BY <1>1, <1>6, <2>3, <3>1, Parse DEF h, z
  <2>6. CASE Len(have) < h
    <3>1. arrived < fo[j + 1]
      <4>1. arrived - p < FrameSize(x) /\ FrameSize(x) \in Nat
        BY <2>4, <2>5, <2>6
      <4>2. fo[j + 1] = p + FrameSize(x) /\ arrived \in Nat /\ p \in Nat
        BY <1>1, <1>6, <2>3
      <4> HIDE DEF x
      <4> QED  BY ONLY <4>1, <4>2
    <3> QED  BY <1>10, <2>6, <3>1
  <2>7. CASE ~(Len(have) < h)
    <3>1. h = Header(x) /\ z = Len(x.pay) /\ have[1].val = x.op
      BY <1>1, <1>6, <2>5, <2>7
    <3>2. i \in Nat /\ i <= Len(x.pay) /\ i = IF g + n < z THEN g + n ELSE z
      BY <1>6, <2>4, <3>1 DEF i
    <3>3. CASE Len(have) < h + i
      <4>1. arrived < fo[j + 1]
        <5>1. arrived - p < Header(x) + i /\ i <= Len(x.pay) /\ i \in Nat
          BY <2>5, <3>1, <3>2, <3>3
        <5>2. fo[j + 1] = p + FrameSize(x) /\ arrived \in Nat /\ p \in Nat
          BY <1>1, <1>6, <2>3
        <5> QED  BY ONLY <2>4, <5>1, <5>2
      <4> QED  BY <1>10, <3>3, <4>1
    <3>4. CASE ~(Len(have) < h + i)
      <4>1. /\ r.out = IF Data(x) /\ z > 0 THEN "data" ELSE "again"
            /\ r.data = SubSeq(y, g + 1, i)
            /\ r.taken = taken + (h + i) - Len(readbuffer)
            /\ r.buffer = IF i = z THEN <<>> ELSE SubSeq(have, 1, h + i)
            /\ r.head = IF i = z THEN 0 ELSE i
            /\ r.reply = Reply(x.op, y, i = z)
        BY <1>8, <2>7, <3>1, <3>4 DEF Data
      <4>2. h + i <= Len(have)
        <5>1. Len(have) \in Nat /\ h \in Nat /\ i \in Nat
          BY <2>5, <3>2, LenProperties
        <5> QED  BY <3>4, <5>1
      <4>3. Holds(x, have)
        BY <2>5
      <4>4. y = SubSeq(have, h + 1, h + i)
        BY DEF y
      <4>5. Taking(n, x, have, i, y, r)
        BY <3>1, <3>2, <4>1, <4>2, <4>3, <4>4 DEF Taking, g
      <4>6. Taking(n, fr[j + 1], SubSeq(wire, fo[j] + 1, arrived), i, y, r)
        BY <1>7, <4>5 DEF x, p
      <4>7. \E j2 \in 0..Len(fr), e \in Nat :
               /\ At(fr, fo, bo, ro, j2, e, r.taken, r.buffer, r.head, replies \o r.reply)
               /\ Gives(SentBytes, d, e, n, r.out, r.data)
               /\ r.taken \in 0..arrived
        BY <1>1, <1>2, <1>3, <1>12, <4>6, WsHas
      <4> QED  BY <1>4, <4>7
    <3> QED  BY <3>3, <3>4
  <2> QED  BY <2>6, <2>7
<1> QED  BY <1>5, <1>11, <1>12

(* Either way: what recv(n) returns are the next bytes of the stream.       *)
LEMMA RecvIs ==
    ASSUME WireOK, NEW d, Sock(taken, readbuffer, payloadHead, replies, d),
           NEW n \in Nat \ {0}, NEW r, r = Recv(n)
    PROVE  \E e \in Nat :
              /\ Sock(r.taken, r.buffer, r.head, replies \o r.reply, e)
              /\ Gives(SentBytes, d, e, n, r.out, r.data)
              /\ r.taken \in 0..arrived
<1>1. CASE stream.transport = "tcp"
  <2>1. r = TcpRecv(n)
    BY <1>1 DEF Recv
  <2> QED  BY <1>1, <2>1, TcpRecvIs
<1>2. CASE stream.transport # "tcp"
  <2>1. r = WsRecv(n)
    BY <1>2 DEF Recv
  <2> QED  BY <1>2, <2>1, WsRecvIs
<1> QED  BY <1>1, <1>2

-----------------------------------------------------------------------------
(* What the socket layer is at any time.                                    *)

(* Prefixes of every sequence.                                              *)
LEMMA PrefixOf ==
    ASSUME NEW T, NEW t \in Seq(T)
    PROVE  IsPrefix(<<>>, t) /\ IsPrefix(t, t)
<1>1. Len(t) \in Nat /\ Len(<<>>) = 0
  BY LenProperties
<1>2. SubSeq(<<>>, 1, 0) = SubSeq(t, 1, 0)
  BY SubSeqEmpty
<1> QED  BY <1>1, <1>2 DEF IsPrefix

(* A new connection has handed out nothing.                                 *)
LEMMA Begins ==
    ASSUME WireOK
    PROVE  Sock(0, <<>>, 0, <<>>, 0)
<1>1. CASE stream.transport = "tcp"
  BY <1>1 DEF Sock
<1>2. CASE stream.transport # "tcp"
  <2>1. wire \in Seq(Bytes) /\ Len(wire) \in Nat /\ Answers \in Seq(Replies)
    BY WireIs
  <2>2. PICK fr, fo, bo, ro : Framed(SentBytes, wire, Answers, fr, fo, bo, ro)
    BY <1>2, WireIs
  <2>3. Len(fr) \in Nat /\ fo[0] = 0 /\ bo[0] = 0 /\ ro[0] = <<>>
    BY <2>2, LenProperties DEF Framed
  <2>4. SubSeq(wire, 0 + 1, 0) = <<>>
    BY SubSeqEmpty
  <2>5. 0 < Len(fr) => 0 < fo[0 + 1]
    <3> SUFFICES ASSUME 0 < Len(fr) PROVE 0 < fo[0 + 1]
      OBVIOUS
    <3>1. 1 \in 1..Len(fr) /\ 1 - 1 = 0 /\ 0 + 1 = 1
      BY <2>3
    <3>2. Frame1(SentBytes, fr, fo, bo, ro, 1)
      BY <2>1, <2>2, <3>1, FrameAt
    <3>3. fr[1] \in Frames /\ fo[1] = fo[1 - 1] + FrameSize(fr[1])
      BY <3>2 DEF Frame1
    <3>4. FrameSize(fr[1]) \in Nat /\ FrameSize(fr[1]) > 0
      BY <3>3, FramePositive
    <3> QED  BY <2>3, <3>1, <3>3, <3>4
  <2>6. At(fr, fo, bo, ro, 0, 0, 0, <<>>, 0, <<>>)
    <3>1. 0 \in 0..Len(fr) /\ 0 \in fo[0]..Len(wire)
      BY <2>1, <2>3
    <3>2. <<>> = SubSeq(wire, fo[0] + 1, 0)
      BY <2>3, <2>4
    <3>3. 0 = bo[0] + IF 0 < Len(fr) /\ Data(fr[0 + 1]) THEN 0 ELSE 0
      BY <2>3
    <3> QED  BY <2>3, <2>5, <3>1, <3>2, <3>3 DEF At
  <2>7. 0 \in 0..Len(fr)
    BY <2>3
  <2> QED  BY <1>2, <2>2, <2>6, <2>7 DEF Sock
<1> QED  BY <1>1, <1>2

(* In a frame with data, no more than its end is reached.                   *)
LEMMA Within ==
    ASSUME NEW u \in Nat, NEW g \in Nat, NEW x \in Nat, g <= x, NEW l \in Nat, u + x <= l
    PROVE  u + g \in 0..l
OBVIOUS

(* Each answer is given once, and what is left in the buffer is less than   *)
(* a frame.                                                                 *)
LEMMA SockIs ==
    ASSUME WireOK, NEW t \in 0..arrived, NEW buf, NEW head, NEW rep, NEW d,
           Sock(t, buf, head, rep, d)
    PROVE  /\ d \in 0..Len(SentBytes)
           /\ buf \in Seq(Bytes) /\ head \in Nat /\ rep \in Seq(Replies)
           /\ IsPrefix(rep, Answers)
           /\ t = Len(wire) /\ buf = <<>> => rep = Answers
           /\ t = Len(wire) => d = Len(SentBytes)
<1>1. /\ SentBytes \in Seq(Bytes) /\ wire \in Seq(Bytes) /\ Len(SentBytes) \in Nat
      /\ Len(wire) \in Nat /\ arrived \in Nat /\ t \in Nat
      /\ arrived <= Len(wire) /\ t <= arrived /\ Answers \in Seq(Replies)
  BY WireIs, LenProperties
<1>2. IsPrefix(<<>>, Answers) /\ IsPrefix(Answers, Answers)
  BY <1>1, PrefixOf
<1>3. CASE stream.transport = "tcp"
  <2>1. wire = SentBytes /\ Answers = <<>>
    BY <1>3, WireIs
  <2>2. buf = <<>> /\ head = 0 /\ rep = <<>> /\ d = t
    BY <1>3 DEF Sock
  <2>3. <<>> \in Seq(Bytes) /\ <<>> \in Seq(Replies)
    OBVIOUS
  <2>4. d \in 0..Len(SentBytes)
    BY <1>1, <2>1, <2>2
  <2> QED  BY <1>2, <2>1, <2>2, <2>3, <2>4
<1>4. CASE stream.transport # "tcp"
  <2>1. PICK fr, fo, bo, ro :
           /\ Framed(SentBytes, wire, Answers, fr, fo, bo, ro)
           /\ \E j \in 0..Len(fr) : At(fr, fo, bo, ro, j, d, t, buf, head, rep)
    BY <1>4 DEF Sock
  <2>2. PICK j \in 0..Len(fr) : At(fr, fo, bo, ro, j, d, t, buf, head, rep)
    BY <2>1
  <2> DEFINE l == Len(fr)
             p == fo[j]
             g == head
             b == SentBytes
  <2>3. /\ l \in Nat /\ fo \in [0..l -> 0..Len(wire)] /\ fo[l] = Len(wire)
        /\ ro \in [0..l -> {<<>>, Answers}] /\ ro[l] = Answers
        /\ bo \in [0..l -> 0..Len(b)] /\ bo[l] = Len(b)
    BY <2>1, LenProperties DEF Framed
  <2>4. /\ j \in 0..l /\ t \in p..Len(wire) /\ buf = SubSeq(wire, p + 1, t)
        /\ (j < l => t < fo[j + 1] /\ (g = 0 \/ g < Len(fr[j + 1].pay)))
        /\ g \in Nat /\ (j = l => g = 0) /\ rep = ro[j]
        /\ d = bo[j] + (IF j < l /\ Data(fr[j + 1]) THEN g ELSE 0)
    BY <2>2 DEF At
  <2> HIDE DEF l, p, g, b
  <2>5. p \in 0..Len(wire) /\ ro[j] \in {<<>>, Answers} /\ bo[j] \in 0..Len(b)
    BY <2>3, <2>4 DEF p
  <2>6. p \in Nat /\ p <= t
    BY <1>1, <2>4, <2>5
  <2>7. buf \in Seq(Bytes) /\ Len(buf) = t - p
    <3>1. t <= Len(wire)
      BY <1>1
    <3>2. SubSeq(wire, p + 1, t) \in Seq(Bytes) /\ Len(SubSeq(wire, p + 1, t)) = t - p
      BY <1>1, <2>6, <3>1, SubSeqIs
    <3> QED  BY <2>4, <3>2
  <2>8. rep \in Seq(Replies) /\ IsPrefix(rep, Answers)
    <3>1. rep \in {<<>>, Answers} /\ <<>> \in Seq(Replies)
      BY <2>4, <2>5
    <3> QED  BY <1>1, <1>2, <3>1
  <2>9. CASE j = l
    <3>1. rep = Answers /\ bo[j] = Len(b) /\ d = bo[j] + 0
      BY <2>3, <2>4, <2>9
    <3>2. d = Len(b) /\ d \in 0..Len(b)
      BY <1>1, <3>1 DEF b
    <3> QED  BY <2>4, <2>7, <2>8, <3>1, <3>2 DEF b, g
  <2>10. CASE j < l
    <3>1. j + 1 \in 0..l /\ j + 1 \in 1..l /\ (j + 1) - 1 = j
      BY <2>3, <2>4, <2>10
    <3>2. t < fo[j + 1] /\ fo[j + 1] \in 0..Len(wire)
      BY <2>3, <2>4, <2>10, <3>1
    <3>3. t # Len(wire)
      BY <1>1, <3>2
    <3>4. d \in 0..Len(b)
      <4> DEFINE k == j + 1
      <4>1. Frame1(SentBytes, fr, fo, bo, ro, k)
        BY <1>1, <2>1, <3>1, FrameAt DEF l
      <4>2. k - 1 = j /\ bo[k] \in 0..Len(b) /\ k = j + 1
        BY <2>3, <3>1
      <4> HIDE DEF k
      <4>3. fr[k] \in Frames /\ bo[k] = bo[k - 1] + (IF Data(fr[k]) THEN Len(fr[k].pay) ELSE 0)
        BY <4>1 DEF Frame1
      <4>4. Len(fr[k].pay) \in Nat
        BY <4>3, FramePositive
      <4>5. d = bo[j] + (IF Data(fr[k]) THEN g ELSE 0) /\ (g = 0 \/ g < Len(fr[k].pay)) /\ g \in Nat
        BY <2>4, <2>10, <4>2
      <4>6. bo[j] \in Nat /\ bo[k] \in Nat /\ bo[k] <= Len(b) /\ Len(b) \in Nat
        BY <1>1, <2>5, <4>2 DEF b
      <4>7. bo[k] = bo[j] + (IF Data(fr[k]) THEN Len(fr[k].pay) ELSE 0)
        BY <4>2, <4>3
      <4> DEFINE x == Len(fr[k].pay)
      <4>8. x \in Nat /\ (g = 0 \/ g < x)
        BY <4>4, <4>5
      <4>9. Data(fr[k]) => d = bo[j] + g /\ bo[k] = bo[j] + x
        BY <4>5, <4>7
      <4>10. ~Data(fr[k]) => d = bo[j] + 0
        BY <4>5
      <4> HIDE DEF x
      <4>11. CASE Data(fr[k])
        <5>1. d = bo[j] + g /\ bo[k] = bo[j] + x
          BY <4>9, <4>11
        <5>2. g <= x
          BY <4>5, <4>8
        <5>3. bo[j] \in Nat /\ g \in Nat /\ x \in Nat /\ Len(b) \in Nat /\ bo[j] + x <= Len(b)
          BY <4>5, <4>6, <4>8, <5>1
        <5>4. bo[j] + g \in 0..Len(b)
          BY <5>2, <5>3, Within
        <5> QED  BY <5>1, <5>4
      <4>12. CASE ~Data(fr[k])
        <5>1. d = bo[j] + 0
          BY <4>10, <4>12
        <5> QED  BY <1>1, <2>5, <4>6, <5>1 DEF b
      <4> QED  BY <4>11, <4>12
    <3> QED  BY <2>4, <2>7, <2>8, <3>3, <3>4 DEF b, g
  <2>11. j = l \/ j < l
    <3>1. l \in Nat /\ j \in 0..l
      BY <2>3, <2>4
    <3> QED  BY ONLY <3>1
  <2> QED  BY <2>9, <2>10, <2>11
<1> QED  BY <1>3, <1>4

-----------------------------------------------------------------------------
(* The reader and the packets: constant predicates over the stream's packet *)
(* lengths ls.                                                              *)

Ends(ls) == CHOOSE po : Packed(PacketBytes(ls), ls, po)

(* What is in b of packet m + 1, which begins behind o and ends at e.       *)
Placed(b, n, m, o, e) ==
    /\ n \in Nat /\ Len(Digits[n]) \in Nat \ {0} /\ o \in Nat
    /\ e = o + 1 + Len(Digits[n]) + n /\ e \in 0..Len(b)
    /\ b[o + 1] = Byte(m + 1, FALSE)
    /\ \A i \in 1..Len(Digits[n]) : b[o + 1 + i] = Digits[n][i]
    /\ \A i \in 1..n : b[o + 1 + Len(Digits[n]) + i] = Byte(m + 1, FALSE)

(* Where each packet of the stream begins and ends, and what is in it.      *)
LEMMA EndsIs ==
    ASSUME NEW ls \in Seq(Nat)
    PROVE  /\ PacketBytes(ls) \in Seq(Bytes) /\ Len(PacketBytes(ls)) \in Nat /\ Len(ls) \in Nat
           /\ Ends(ls)[0] = 0 /\ Ends(ls)[Len(ls)] = Len(PacketBytes(ls))
           /\ \A m \in 0..Len(ls) : Ends(ls)[m] \in 0..Len(PacketBytes(ls))
           /\ \A m \in 0..Len(ls) - 1 : Placed(PacketBytes(ls), ls[m + 1], m, Ends(ls)[m], Ends(ls)[m + 1])
<1> DEFINE b == PacketBytes(ls)
           po == Ends(ls)
<1>1. b \in Seq(Bytes) /\ Packed(b, ls, po)
  BY PacketsPacked DEF Ends
<1>2. Len(b) \in Nat /\ Len(ls) \in Nat
  BY <1>1, LenProperties
<1> HIDE DEF b, po
<1>3. po \in [0..Len(ls) -> 0..Len(b)] /\ po[0] = 0 /\ po[Len(ls)] = Len(b)
  BY <1>1 DEF Packed
<1>4. ASSUME NEW m \in 0..Len(ls) - 1
      PROVE  Placed(b, ls[m + 1], m, po[m], po[m + 1])
  <2> DEFINE k == m + 1
  <2>1. m \in Nat /\ k \in 1..Len(ls) /\ k - 1 = m /\ m \in 0..Len(ls) /\ k \in 0..Len(ls)
    BY <1>2
  <2> HIDE DEF k
  <2>2. ls[k] \in Nat
    BY <2>1, ElementOfSeq
  <2>3. Len(Digits[ls[k]]) \in Nat \ {0}
    BY <2>2, DigitsType
  <2>4. po[m] \in Nat /\ po[k] \in 0..Len(b)
    BY <1>2, <1>3, <2>1
  <2>5. /\ po[k] = po[k - 1] + 1 + Len(Digits[ls[k]]) + ls[k]
        /\ b[po[k - 1] + 1] = Byte(k, FALSE)
        /\ \A i \in 1..Len(Digits[ls[k]]) : b[po[k - 1] + 1 + i] = Digits[ls[k]][i]
        /\ \A i \in 1..ls[k] : b[po[k - 1] + 1 + Len(Digits[ls[k]]) + i] = Byte(k, FALSE)
    BY <1>1, <2>1 DEF Packed
  <2>6. /\ po[k] = po[m] + 1 + Len(Digits[ls[k]]) + ls[k]
        /\ b[po[m] + 1] = Byte(k, FALSE)
        /\ \A i \in 1..Len(Digits[ls[k]]) : b[po[m] + 1 + i] = Digits[ls[k]][i]
        /\ \A i \in 1..ls[k] : b[po[m] + 1 + Len(Digits[ls[k]]) + i] = Byte(k, FALSE)
    BY <2>1, <2>5
  <2>7. Placed(b, ls[k], m, po[m], po[k])
    BY <2>2, <2>3, <2>4, <2>6 DEF Placed, k
  <2> QED  BY <2>7 DEF k
<1>5. \A m \in 0..Len(ls) : po[m] \in 0..Len(b)
  BY <1>3
<1> QED  BY <1>1, <1>2, <1>3, <1>4, <1>5 DEF b, po

(* The digits of s behind the first c are those of q.                       *)
Remain(q, s, c) ==
    /\ Len(s) = c + Len(Digits[q])
    /\ \A i \in 1..Len(Digits[q]) : s[c + i] = Digits[q][i]

(* The next digit says whether there is another one.                        *)
LEMMA RemainStep ==
    ASSUME NEW q \in Nat, NEW s, NEW c \in Nat, Remain(q, s, c)
    PROVE  /\ q < Base => s[c + 1] = Byte(q, FALSE) /\ Len(s) = c + 1
           /\ q >= Base => s[c + 1] = Byte(q % Base, TRUE) /\ Remain(q \div Base, s, c + 1)
<1>1. Len(s) = c + Len(Digits[q]) /\ \A i \in 1..Len(Digits[q]) : s[c + i] = Digits[q][i]
  BY DEF Remain
<1>2. Len(Digits[q]) \in Nat /\ 1 \in 1..Len(Digits[q])
  <2>1. Len(Digits[q]) \in Nat /\ Len(Digits[q]) > 0
    BY DigitsType
  <2> QED  BY <2>1
<1>3. s[c + 1] = Digits[q][1]
  BY <1>1, <1>2
<1>4. CASE q < Base
  <2>1. Len(Digits[q]) = 1 /\ Digits[q][1] = Byte(q, FALSE)
    BY <1>4, DigitsStep
  <2>2. ~(q >= Base)
    BY <1>4, ReaderAssumption DEF ReaderAssumption
  <2> QED  BY <1>1, <1>3, <2>1, <2>2
<1>5. CASE q >= Base
  <2> DEFINE k == q \div Base
             l == Len(Digits[k])
  <2>1. /\ Len(Digits[q]) = 1 + l /\ Digits[q][1] = Byte(q % Base, TRUE)
        /\ \A i \in 1..l : Digits[q][1 + i] = Digits[k][i]
    BY <1>5, DigitsStep
  <2>2. k \in Nat
    BY DivLess
  <2>3. l \in Nat
    BY <2>2, DigitsType
  <2>4. ~(q < Base)
    BY <1>5, ReaderAssumption DEF ReaderAssumption
  <2> HIDE DEF k, l
  <2>5. Len(s) = (c + 1) + l
    BY <1>1, <2>1, <2>3
  <2>6. ASSUME NEW i \in 1..l PROVE s[(c + 1) + i] = Digits[k][i]
    <3>1. 1 + i \in 1..Len(Digits[q]) /\ c + (1 + i) = (c + 1) + i
      BY <2>1, <2>3
    <3> QED  BY <1>1, <2>1, <3>1
  <2>7. Remain(k, s, c + 1)
    BY <2>5, <2>6 DEF Remain, l
  <2> QED  BY <1>3, <2>1, <2>4, <2>7 DEF k
<1>6. q < Base \/ q >= Base
  BY ReaderAssumption DEF ReaderAssumption
<1> QED  BY <1>4, <1>5, <1>6

(* At first all digits remain.                                              *)
LEMMA RemainStart ==
    ASSUME NEW q \in Nat
    PROVE  Remain(q, Digits[q], 0)
<1>1. Len(Digits[q]) \in Nat
  BY DigitsType
<1> QED  BY <1>1 DEF Remain

-----------------------------------------------------------------------------
(* _in_packet when m packets are handled and d bytes are received.          *)

PacketOK(p) ==
    /\ p \in [command : Nat, haveRemaining : BOOLEAN, digits : 0..MaxDigits + 1,
              mult : Nat \ {0}, length : Nat, toProcess : Nat, packet : Seq(Bytes)]
    /\ Len(p.packet) + p.toProcess = IF p.haveRemaining THEN p.length ELSE 0

Fresh(ls, p, m, d) == m \in 0..Len(ls) /\ p = EmptyPacket /\ d = Ends(ls)[m]

InLength(ls, p, m, d) ==
    /\ m \in 0..Len(ls) - 1
    /\ p.command = m + 1 /\ p.haveRemaining = FALSE /\ p.digits \in 0..MaxDigits
    /\ p.toProcess = 0 /\ p.packet = <<>>
    /\ \E q \in Nat : /\ ls[m + 1] = p.length + q * p.mult
                      /\ Remain(q, Digits[ls[m + 1]], p.digits)
    /\ d = Ends(ls)[m] + 1 + p.digits

InBody(ls, p, m, d) ==
    /\ m \in 0..Len(ls) - 1
    /\ p.command = m + 1 /\ p.haveRemaining = TRUE
    /\ p.length = ls[m + 1] /\ p.toProcess \in 0..ls[m + 1]
    /\ p.packet = Body(m + 1, ls[m + 1] - p.toProcess)
    /\ d = Ends(ls)[m + 1] - p.toProcess

Reads(ls, p, m, d) ==
    PacketOK(p) /\ (Fresh(ls, p, m, d) \/ InLength(ls, p, m, d) \/ InBody(ls, p, m, d))

(* The packet that _packet_read begins with.                                *)
LEMMA EmptyOK ==
    PacketOK(EmptyPacket)
<1>1. <<>> \in Seq(Bytes) /\ Len(<<>>) = 0
  BY EmptySeq
<1>2. 0 \in 0..MaxDigits + 1
  BY ReaderAssumption DEF ReaderAssumption
<1> QED  BY <1>1, <1>2 DEF PacketOK, EmptyPacket

(* Between two packets.                                                     *)
LEMMA FreshReads ==
    ASSUME NEW ls \in Seq(Nat), NEW m \in 0..Len(ls)
    PROVE  Reads(ls, EmptyPacket, m, Ends(ls)[m])
BY EmptyOK DEF Reads, Fresh

-----------------------------------------------------------------------------
(* The steps of _packet_read.                                               *)

(* The byte behind a packet is the command of the next one.                 *)
LEMMA CommandStep ==
    ASSUME NEW ls \in Seq(Nat), NEW p, NEW m, NEW d, Reads(ls, p, m, d), p.command = 0,
           NEW c, c = PacketBytes(ls)[d + 1], d + 1 \in 0..Len(PacketBytes(ls))
    PROVE  Reads(ls, [p EXCEPT !.command = c.val], m, d + 1)
<1> DEFINE b == PacketBytes(ls)
           o == Ends(ls)[m]
           p2 == [p EXCEPT !.command = c.val]
           n == ls[m + 1]
<1>1. Len(b) \in Nat /\ Len(ls) \in Nat /\ Ends(ls)[Len(ls)] = Len(b)
  BY EndsIs
<1>2. Fresh(ls, p, m, d) /\ PacketOK(p)
  <2>1. m \in 0..Len(ls) - 1 => m + 1 # 0
    BY <1>1
  <2> QED  BY <2>1 DEF Reads, InLength, InBody
<1>3. m \in 0..Len(ls) /\ p = EmptyPacket /\ d = o
  BY <1>2 DEF Fresh
<1>4. m # Len(ls)
  <2>1. d + 1 <= Len(b)
    BY <1>1
  <2>2. m = Len(ls) => d = Len(b)
    BY <1>1, <1>3
  <2> QED  BY <1>1, <2>1, <2>2
<1>5. m \in 0..Len(ls) - 1 /\ m \in Nat
  BY <1>1, <1>3, <1>4
<1>6. Placed(b, n, m, o, Ends(ls)[m + 1])
  BY <1>5, EndsIs
<1>7. b[o + 1] = Byte(m + 1, FALSE) /\ n \in Nat /\ o \in Nat
  BY <1>6 DEF Placed
<1>8. c.val = m + 1 /\ m + 1 \in Nat
  <2>1. c = Byte(m + 1, FALSE)
    BY <1>3, <1>7
  <2>2. m + 1 \in Nat /\ FALSE \in BOOLEAN
    BY <1>5
  <2>3. Byte(m + 1, FALSE).val = m + 1
    BY <2>2, ByteIs
  <2> QED  BY <2>1, <2>2, <2>3
<1>9. /\ p.command = 0 /\ p.haveRemaining = FALSE /\ p.digits = 0 /\ p.mult = 1
      /\ p.length = 0 /\ p.toProcess = 0 /\ p.packet = <<>>
  BY <1>3 DEF EmptyPacket
<1>10. Remain(n, Digits[n], 0)
  BY <1>7, RemainStart
<1> HIDE DEF b, o, n
<1>11. /\ p2.command = m + 1 /\ p2.haveRemaining = FALSE /\ p2.digits = 0 /\ p2.mult = 1
       /\ p2.length = 0 /\ p2.toProcess = 0 /\ p2.packet = <<>> /\ PacketOK(p2)
  <2>1. p \in [command : Nat, haveRemaining : BOOLEAN, digits : 0..MaxDigits + 1,
               mult : Nat \ {0}, length : Nat, toProcess : Nat, packet : Seq(Bytes)]
    BY <1>2 DEF PacketOK
  <2> DEFINE v == c.val
  <2>3. v \in Nat /\ v = m + 1
    BY <1>8
  <2> HIDE DEF v
  <2>2. /\ p2 \in [command : Nat, haveRemaining : BOOLEAN, digits : 0..MaxDigits + 1,
               mult : Nat \ {0}, length : Nat, toProcess : Nat, packet : Seq(Bytes)]
        /\ p2.command = m + 1 /\ p2.haveRemaining = p.haveRemaining /\ p2.digits = p.digits
        /\ p2.mult = p.mult /\ p2.length = p.length /\ p2.toProcess = p.toProcess
        /\ p2.packet = p.packet
    <3>1. p2 = [p EXCEPT !.command = v]
      BY DEF v
    <3> HIDE DEF p2
    <3> QED  BY <2>1, <2>3, <3>1
  <2> HIDE DEF p2
  <2> QED  BY <1>2, <1>9, <2>2 DEF PacketOK
<1> HIDE DEF p2
<1>12. InLength(ls, p2, m, d + 1)
  <2>1. n = p2.length + n * p2.mult
    BY <1>7, <1>11
  <2>2. d + 1 = o + 1 + p2.digits
    BY <1>3, <1>7, <1>11
  <2>3. p2.digits \in 0..MaxDigits
    BY <1>11, ReaderAssumption DEF ReaderAssumption
  <2>4. Remain(n, Digits[n], p2.digits)
    BY <1>10, <1>11
  <2> QED  BY <1>5, <1>7, <1>11, <2>1, <2>2, <2>3, <2>4 DEF InLength, n, o
<1> QED  BY <1>11, <1>12 DEF Reads, p2

(* The weight of the digits that remain.                                    *)
LEMMA Distribute ==
    ASSUME NEW a \in Nat, NEW k \in Nat, NEW v \in Nat, NEW x \in Nat, NEW l \in Nat
    PROVE  l + (a * k + v) * x = (l + v * x) + k * (x * a)
OBVIOUS

LEMMA TimesNat ==
    ASSUME NEW a \in Nat, NEW b \in Nat
    PROVE  a * b \in Nat /\ (a # 0 /\ b # 0 => a * b # 0)
OBVIOUS

(* A digit adds its share; the last one gives the length of the body.       *)
LEMMA LengthStep ==
    ASSUME NEW ls \in Seq(Nat), NEW m, NEW d, Reads(ls, inPacket, m, d),
           inPacket.command # 0, ~inPacket.haveRemaining, inPacket.digits < MaxDigits,
           NEW c, c = PacketBytes(ls)[d + 1]
    PROVE  Reads(ls, AddDigit(c), m, d + 1)
<1> DEFINE b == PacketBytes(ls)
           p == inPacket
           o == Ends(ls)[m]
           e == Ends(ls)[m + 1]
           n == ls[m + 1]
           s == Digits[n]
           g == p.digits
           x == p.mult
           p2 == AddDigit(c)
<1>1. InLength(ls, p, m, d) /\ PacketOK(p)
  BY DEF Reads, Fresh, InBody, EmptyPacket
<1>2. /\ m \in 0..Len(ls) - 1 /\ p.command = m + 1 /\ p.haveRemaining = FALSE /\ g \in 0..MaxDigits
      /\ p.toProcess = 0 /\ p.packet = <<>> /\ d = o + 1 + g
  BY <1>1 DEF InLength
<1>3. PICK q \in Nat : n = p.length + q * x /\ Remain(q, s, g)
  BY <1>1 DEF InLength
<1>4. p \in [command : Nat, haveRemaining : BOOLEAN, digits : 0..MaxDigits + 1,
             mult : Nat \ {0}, length : Nat, toProcess : Nat, packet : Seq(Bytes)]
  BY <1>1 DEF PacketOK
<1>5. Len(b) \in Nat /\ Len(ls) \in Nat /\ m \in Nat
  BY <1>2, EndsIs
<1>6. Placed(b, n, m, o, e)
  BY <1>2, EndsIs
<1>7. /\ n \in Nat /\ Len(s) \in Nat \ {0} /\ o \in Nat /\ e = o + 1 + Len(s) + n
      /\ \A i \in 1..Len(s) : b[o + 1 + i] = s[i]
  BY <1>6 DEF Placed
<1>8. MaxDigits \in Nat \ {0} /\ Base \in Nat \ {0} /\ g \in Nat /\ g < MaxDigits /\ x \in Nat \ {0}
  BY <1>2, <1>4, ReaderAssumption DEF ReaderAssumption
<1>9. /\ p2.command = m + 1 /\ p2.haveRemaining = ~c.flag /\ p2.digits = g + 1
      /\ p2.mult = x * Base /\ p2.length = p.length + c.val * x
      /\ p2.toProcess = (IF c.flag THEN 0 ELSE p.length + c.val * x) /\ p2.packet = <<>>
  BY <1>2, <1>4 DEF AddDigit
<1>10. ASSUME c.val \in Nat, c.flag \in BOOLEAN
       PROVE  PacketOK(p2)
  <2>1. c.val * x \in Nat /\ x * Base \in Nat \ {0} /\ p.length \in Nat
    BY <1>4, <1>8, <1>10, TimesNat
  <2>2. p.length + c.val * x \in Nat /\ g + 1 \in 0..MaxDigits + 1
    <3>1. p.length + c.val * x \in Nat
      BY <2>1, PlusNat
    <3>2. g + 1 \in 0..MaxDigits + 1
      <4> HIDE DEF g
      <4> QED  BY <1>8
    <3> QED  BY <3>1, <3>2
  <2> DEFINE y == p.length + c.val * x
             w == x * Base
  <2>3. y \in Nat /\ w \in Nat \ {0}
    BY <2>1, <2>2
  <2>4. p2 = [p EXCEPT !.digits = g + 1, !.length = y, !.mult = w, !.haveRemaining = ~c.flag,
                       !.toProcess = IF c.flag THEN 0 ELSE y]
    BY <1>4 DEF AddDigit
  <2>5. /\ p2.haveRemaining = ~c.flag /\ p2.length = y
        /\ p2.toProcess = (IF c.flag THEN 0 ELSE y) /\ p2.packet = <<>>
    BY <1>9
  <2> HIDE DEF y, w, p2
  <2>6. (IF c.flag THEN 0 ELSE y) \in Nat /\ (~c.flag) \in BOOLEAN
    BY <1>10, <2>3
  <2>7. p2 \in [command : Nat, haveRemaining : BOOLEAN, digits : 0..MaxDigits + 1,
               mult : Nat \ {0}, length : Nat, toProcess : Nat, packet : Seq(Bytes)]
    BY <1>4, <2>2, <2>3, <2>4, <2>6
  <2>8. Len(p2.packet) = 0
    BY <2>5, EmptySeq
  <2>9. 0 + p2.toProcess = IF p2.haveRemaining THEN p2.length ELSE 0
    <3>1. CASE c.flag
      <4>1. p2.toProcess = 0
        BY <2>5, <3>1
      <4>2. ~p2.haveRemaining
        BY <2>5, <3>1, Zenon
      <4> QED  BY <4>1, <4>2
    <3>2. CASE ~c.flag
      <4>1. p2.toProcess = y
        BY <2>5, <3>2
      <4>2. p2.haveRemaining
        BY <2>5, <3>2, Zenon
      <4>3. p2.length = y
        BY <2>5
      <4> QED  BY <2>3, <4>1, <4>2, <4>3
    <3> QED  BY <3>1, <3>2
  <2> QED  BY <2>7, <2>8, <2>9 DEF PacketOK
<1>11. g + 1 \in 1..Len(s) => c = s[g + 1]
  <2>1. o + 1 + (g + 1) = d + 1
    <3>1. o \in Nat /\ g \in Nat /\ d = o + 1 + g
      BY <1>2, <1>7, <1>8
    <3> HIDE DEF o, g
    <3> QED  BY ONLY <3>1
  <2> QED  BY <1>7, <2>1
<1> HIDE DEF b, p, o, e, n, s, g, x, p2
<1>12. CASE q < Base
  <2>1. s[g + 1] = Byte(q, FALSE) /\ Len(s) = g + 1
    BY <1>3, <1>8, <1>12, RemainStep
  <2>2. c.val = q /\ c.flag = FALSE
    <3>1. g + 1 \in 1..Len(s)
      BY <1>8, <2>1
    <3>2. c = Byte(q, FALSE) /\ FALSE \in BOOLEAN
      BY <1>11, <2>1, <3>1
    <3>3. Byte(q, FALSE).val = q /\ Byte(q, FALSE).flag = FALSE
      BY <3>2, ByteIs
    <3> QED  BY <3>2, <3>3
  <2>3. PacketOK(p2)
    BY <1>10, <2>2
  <2>4. p2.haveRemaining = TRUE /\ p2.length = n /\ p2.toProcess = n /\ p2.packet = <<>>
    BY <1>3, <1>9, <2>2
  <2>5. n - n = 0 /\ n \in 0..n
    BY <1>7
  <2>6. Body(m + 1, n - p2.toProcess) = <<>>
    <3>1. n - p2.toProcess = 0 /\ m + 1 \in Nat /\ 0 \in Nat
      BY <1>5, <2>4, <2>5
    <3>2. Body(m + 1, 0) \in Seq(Bytes) /\ Len(Body(m + 1, 0)) = 0
      BY <3>1, BodyIs
    <3> QED  BY <3>1, <3>2, EmptySeq
  <2>7. d + 1 = e - p2.toProcess
    BY <1>2, <1>7, <1>8, <2>1, <2>4
  <2>8. InBody(ls, p2, m, d + 1)
    BY <1>2, <1>9, <2>4, <2>5, <2>6, <2>7 DEF InBody, n, e
  <2> QED  BY <2>3, <2>8 DEF Reads, p2
<1>13. CASE q >= Base
  <2> DEFINE k == q \div Base
             v == q % Base
  <2>1. k \in Nat /\ v \in Nat /\ q = Base * k + v
    BY DivLess
  <2>2. s[g + 1] = Byte(v, TRUE) /\ Remain(k, s, g + 1)
    BY <1>3, <1>8, <1>13, RemainStep
  <2> HIDE DEF k, v
  <2>3. Len(s) = g + 1 + Len(Digits[k]) /\ Len(Digits[k]) \in Nat
    BY <2>1, <2>2, DigitsType DEF Remain
  <2>4. g + 1 \in 1..Len(s)
    <3> DEFINE z == Len(Digits[k])
    <3>1. Len(s) = g + 1 + z /\ z \in Nat /\ g \in Nat
      BY <1>8, <2>3
    <3> HIDE DEF z
    <3> QED  BY ONLY <3>1
  <2>5. c.val = v /\ c.flag = TRUE
    <3>1. c = Byte(v, TRUE) /\ v \in Nat /\ TRUE \in BOOLEAN
      BY <1>11, <2>1, <2>2, <2>4
    <3>2. Byte(v, TRUE).val = v /\ Byte(v, TRUE).flag = TRUE
      BY <3>1, ByteIs
    <3> QED  BY <3>1, <3>2
  <2>6. PacketOK(p2)
    BY <1>10, <2>1, <2>5
  <2>7. n = p2.length + k * p2.mult
    <3>1. p.length \in Nat /\ x \in Nat /\ Base \in Nat
      BY <1>4, <1>8 DEF p
    <3>2. p.length + (Base * k + v) * x = (p.length + v * x) + k * (x * Base)
      BY <2>1, <3>1, Distribute
    <3> QED  BY <1>3, <1>9, <2>1, <2>5, <3>2
  <2>8. Remain(k, s, p2.digits)
    BY <1>9, <2>2
  <2>9. p2.haveRemaining = FALSE /\ p2.toProcess = 0
    BY <1>9, <2>5
  <2>10. p2.digits \in 0..MaxDigits /\ d + 1 = o + 1 + p2.digits
    BY <1>2, <1>7, <1>8, <1>9
  <2>11. InLength(ls, p2, m, d + 1)
    BY <1>2, <1>9, <2>1, <2>7, <2>8, <2>9, <2>10 DEF InLength, n, s, o
  <2> QED  BY <2>6, <2>11 DEF Reads, p2
<1>14. q < Base \/ q >= Base
  BY <1>8
<1> QED  BY <1>12, <1>13, <1>14

-----------------------------------------------------------------------------
(* A length of too many digits leaves a packet of the right types.          *)
LEMMA TooLong ==
    ASSUME PacketOK(inPacket), inPacket.digits \in 0..MaxDigits
    PROVE  PacketOK([inPacket EXCEPT !.digits = @ + 1])
<1>1. inPacket \in [command : Nat, haveRemaining : BOOLEAN, digits : 0..MaxDigits + 1,
                    mult : Nat \ {0}, length : Nat, toProcess : Nat, packet : Seq(Bytes)]
  BY DEF PacketOK
<1> DEFINE g == inPacket.digits + 1
           p2 == [inPacket EXCEPT !.digits = @ + 1]
<1>2. g \in 0..MaxDigits + 1 /\ p2 = [inPacket EXCEPT !.digits = g]
  <2>1. MaxDigits \in Nat
    BY ReaderAssumption DEF ReaderAssumption
  <2>2. inPacket.digits \in 0..MaxDigits
    OBVIOUS
  <2>3. g \in 0..MaxDigits + 1
    BY <2>1, <2>2
  <2> QED  BY <2>3
<1> HIDE DEF g, p2
<1>3. /\ p2 \in [command : Nat, haveRemaining : BOOLEAN, digits : 0..MaxDigits + 1,
                 mult : Nat \ {0}, length : Nat, toProcess : Nat, packet : Seq(Bytes)]
      /\ p2.packet = inPacket.packet /\ p2.toProcess = inPacket.toProcess
      /\ p2.haveRemaining = inPacket.haveRemaining /\ p2.length = inPacket.length
  BY <1>1, <1>2
<1>4. PacketOK(p2)
  BY <1>3 DEF PacketOK
<1> QED  BY <1>4 DEF p2

(* A body grows at its end.                                                 *)
LEMMA BodyMore ==
    ASSUME NEW k \in Nat, NEW x \in Nat, NEW data \in Seq(Bytes),
           \A i \in 1..Len(data) : data[i] = Byte(k, FALSE)
    PROVE  Body(k, x) \o data = Body(k, x + Len(data))
<1> DEFINE l == Len(data)
           s == Body(k, x)
           t == Body(k, x + l)
<1>1. l \in Nat /\ x + l \in Nat
  BY LenProperties
<1>2. /\ s \in Seq(Bytes) /\ Len(s) = x
      /\ \A i \in 1..x : s[i] = Byte(k, FALSE)
  BY BodyIs
<1>3. /\ t \in Seq(Bytes) /\ Len(t) = x + l
      /\ \A i \in 1..x + l : t[i] = Byte(k, FALSE)
  BY <1>1, BodyIs
<1> HIDE DEF s, t, l
<1>4. /\ s \o data \in Seq(Bytes) /\ Len(s \o data) = x + l
      /\ \A i \in 1..x : (s \o data)[i] = s[i]
      /\ \A i \in x + 1..x + l : (s \o data)[i] = data[i - x]
  <2>1. s \in Seq(Bytes) /\ Len(s) = x /\ data \in Seq(Bytes) /\ Len(data) = l
    BY <1>2 DEF l
  <2>2. /\ s \o data \in Seq(Bytes) /\ Len(s \o data) = Len(s) + Len(data)
        /\ \A i \in 1..Len(s) + Len(data) :
              (s \o data)[i] = IF i <= Len(s) THEN s[i] ELSE data[i - Len(s)]
    BY <2>1, ConcatProperties
  <2>3. \A i \in 1..x + l : (s \o data)[i] = IF i <= x THEN s[i] ELSE data[i - x]
    BY <2>1, <2>2
  <2>4. ASSUME NEW i \in 1..x PROVE (s \o data)[i] = s[i]
    <3>1. i \in 1..x + l /\ i <= x
      BY <1>1
    <3> QED  BY <2>3, <3>1
  <2>5. ASSUME NEW i \in x + 1..x + l PROVE (s \o data)[i] = data[i - x]
    <3>1. i \in 1..x + l /\ ~(i <= x)
      BY <1>1
    <3> QED  BY <2>3, <3>1
  <2> QED  BY <2>1, <2>2, <2>4, <2>5
<1>5. ASSUME NEW i \in 1..x + l PROVE (s \o data)[i] = t[i]
  <2>1. CASE i <= x
    <3>1. i \in 1..x
      BY <1>1, <2>1
    <3> QED  BY <1>2, <1>3, <1>4, <3>1
  <2>2. CASE ~(i <= x)
    <3>1. i \in x + 1..x + l /\ i - x \in 1..l
      BY <1>1, <2>2
    <3>2. data[i - x] = Byte(k, FALSE)
      BY <3>1 DEF l
    <3> QED  BY <1>3, <1>4, <3>1, <3>2
  <2> QED  BY <2>1, <2>2
<1>6. s \o data = t
  BY <1>1, <1>3, <1>4, <1>5, SeqEqual
<1> QED  BY <1>6 DEF s, t, l

(* What recv() returns is the next part of the body.                        *)
LEMMA BodyStep ==
    ASSUME NEW ls \in Seq(Nat), NEW p, NEW m, NEW d, Reads(ls, p, m, d),
           p.haveRemaining, p.toProcess > 0,
           NEW e, NEW data, Gives(PacketBytes(ls), d, e, p.toProcess, "data", data)
    PROVE  Reads(ls, [p EXCEPT !.toProcess = @ - Len(data), !.packet = @ \o data], m, e)
<1> DEFINE b == PacketBytes(ls)
           o == Ends(ls)[m]
           z == Ends(ls)[m + 1]
           n == ls[m + 1]
           c == Len(Digits[n])
           y == p.toProcess
           l == Len(data)
           k == m + 1
           w == p.packet \o data
           p2 == [p EXCEPT !.toProcess = @ - Len(data), !.packet = @ \o data]
<1>1. InBody(ls, p, m, d) /\ PacketOK(p)
  BY DEF Reads, Fresh, InLength, EmptyPacket
<1>2. /\ m \in 0..Len(ls) - 1 /\ p.command = k /\ p.haveRemaining = TRUE /\ p.length = n
      /\ y \in 0..n /\ p.packet = Body(k, n - y) /\ d = z - y
  BY <1>1 DEF InBody
<1>3. Len(b) \in Nat /\ Len(ls) \in Nat /\ m \in Nat /\ k \in Nat
  BY <1>2, EndsIs
<1>4. Placed(b, n, m, o, z)
  BY <1>2, EndsIs
<1>5. /\ n \in Nat /\ c \in Nat /\ o \in Nat /\ z = o + 1 + c + n
      /\ \A i \in 1..n : b[o + 1 + c + i] = Byte(k, FALSE)
  BY <1>4 DEF Placed
<1>6. data \in Seq(Bytes) /\ l \in 1..y /\ e = d + l /\ \A i \in 1..l : data[i] = b[d + i]
  BY DEF Gives
<1>7. p \in [command : Nat, haveRemaining : BOOLEAN, digits : 0..MaxDigits + 1,
             mult : Nat \ {0}, length : Nat, toProcess : Nat, packet : Seq(Bytes)]
  BY <1>1 DEF PacketOK
<1> DEFINE a == y - l
           x == n - y
<1> HIDE DEF b, o, z, n, c, y, l, k
<1>8. a \in Nat /\ a \in 0..n /\ x \in Nat /\ x + l = n - a /\ e = z - a
  <2>1. z \in Nat
    BY <1>5
  <2>2. y \in Nat /\ l \in Nat /\ l <= y /\ y <= n /\ d = z - y /\ e = d + l /\ n \in Nat
    BY <1>2, <1>5, <1>6
  <2> QED  BY ONLY <2>1, <2>2
<1>9. ASSUME NEW i \in 1..l PROVE data[i] = Byte(k, FALSE)
  <2>1. d + i = o + 1 + c + (x + i) /\ x + i \in 1..n
    <3>1. /\ l \in 1..y /\ y \in 0..n /\ n \in Nat /\ o \in Nat /\ c \in Nat /\ d = z - y
          /\ z = o + 1 + c + n
      BY <1>2, <1>5, <1>6
    <3> QED  BY ONLY <3>1
  <2> QED  BY <1>5, <1>6, <2>1
<1>10. w = Body(k, n - a)
  <2>1. Body(k, x) \o data = Body(k, x + l)
    BY <1>3, <1>6, <1>8, <1>9, BodyMore DEF l
  <2> QED  BY <1>2, <1>8, <2>1
<1>11. w \in Seq(Bytes) /\ Len(w) = n - a
  <2> DEFINE f == n - a
  <2>1. f \in Nat
    BY <1>5, <1>8
  <2> HIDE DEF f
  <2>2. Body(k, f) \in Seq(Bytes) /\ Len(Body(k, f)) = f
    BY <1>3, <2>1, BodyIs
  <2> QED  BY <1>10, <2>2 DEF f
<1>12. p2 = [p EXCEPT !.toProcess = a, !.packet = w]
  BY <1>7 DEF y, l
<1> HIDE DEF a, x, w, p2
<1>13. /\ p2 \in [command : Nat, haveRemaining : BOOLEAN, digits : 0..MaxDigits + 1,
                  mult : Nat \ {0}, length : Nat, toProcess : Nat, packet : Seq(Bytes)]
       /\ p2.packet = w /\ p2.toProcess = a /\ p2.command = p.command
       /\ p2.haveRemaining = p.haveRemaining /\ p2.length = p.length
  BY <1>7, <1>8, <1>11, <1>12
<1>14. PacketOK(p2)
  <2>1. Len(p2.packet) + p2.toProcess = p2.length
    <3>1. (n - a) + a = n
      BY <1>5, <1>8
    <3> QED  BY <1>2, <1>11, <1>13, <3>1
  <2> QED  BY <1>2, <1>13, <2>1 DEF PacketOK
<1>15. InBody(ls, p2, m, e)
  BY <1>2, <1>8, <1>10, <1>13 DEF InBody, n, z, k
<1> QED  BY <1>14, <1>15 DEF Reads, p2

(* The packet that is handled is the next one of the broker.                *)
LEMMA HandleStep ==
    ASSUME NEW ls \in Seq(Nat), NEW p, NEW m, NEW d, Reads(ls, p, m, d),
           p.haveRemaining, p.toProcess = 0
    PROVE  /\ m \in 0..Len(ls) - 1
           /\ p.command = m + 1 /\ p.packet = Body(m + 1, ls[m + 1])
           /\ m + 1 \in 0..Len(ls) /\ d = Ends(ls)[m + 1]
<1>1. InBody(ls, p, m, d)
  BY DEF Reads, Fresh, InLength, EmptyPacket
<1>2. m \in 0..Len(ls) - 1 /\ Len(ls) \in Nat
  BY <1>1, EndsIs DEF InBody
<1> DEFINE n == ls[m + 1]
           z == Ends(ls)[m + 1]
<1>3. Placed(PacketBytes(ls), n, m, Ends(ls)[m], z)
  BY <1>2, EndsIs
<1>4. n \in Nat /\ z \in Nat
  BY <1>3 DEF Placed
<1>5. p.command = m + 1 /\ p.packet = Body(m + 1, n - p.toProcess) /\ d = z - p.toProcess
  BY <1>1 DEF InBody
<1> HIDE DEF n, z
<1>6. n - p.toProcess = n /\ z - p.toProcess = z
  BY <1>4
<1>7. m + 1 \in 0..Len(ls)
  BY <1>2
<1> QED  BY <1>2, <1>5, <1>6, <1>7 DEF n, z

(* When all bytes are received every packet is handled, or the last one is  *)
(* complete.                                                                *)
LEMMA AllReceived ==
    ASSUME NEW ls \in Seq(Nat), NEW p, NEW m, NEW d, Reads(ls, p, m, d),
           d = Len(PacketBytes(ls))
    PROVE  m = Len(ls) \/ (p.haveRemaining /\ p.toProcess = 0)
<1> DEFINE b == PacketBytes(ls)
           o == Ends(ls)[m]
           z == Ends(ls)[m + 1]
           n == ls[m + 1]
           c == Len(Digits[n])
<1>1. Len(b) \in Nat /\ Len(ls) \in Nat
  BY EndsIs
<1>2. ASSUME m \in 0..Len(ls) - 1
      PROVE  /\ n \in Nat /\ c \in Nat \ {0} /\ o \in Nat /\ z = o + 1 + c + n /\ z <= Len(b)
             /\ z \in Nat
  <2>1. Placed(b, n, m, o, z)
    BY <1>2, EndsIs
  <2> QED  BY <1>1, <2>1 DEF Placed
<1>3. CASE Fresh(ls, p, m, d)
  <2>1. m \in 0..Len(ls) /\ d = o
    BY <1>3 DEF Fresh
  <2>2. CASE m \in 0..Len(ls) - 1
    <3>1. /\ n \in Nat /\ c \in Nat \ {0} /\ o \in Nat /\ z = o + 1 + c + n /\ z <= Len(b)
          /\ o = Len(b)
      BY <1>2, <2>1, <2>2
    <3> HIDE DEF b, o, z, n, c
    <3> QED  BY <3>1
  <2> QED  BY <1>1, <2>1, <2>2
<1>4. CASE InLength(ls, p, m, d)
  <2>1. m \in 0..Len(ls) - 1 /\ d = o + 1 + p.digits /\ p.digits \in 0..MaxDigits
    BY <1>4 DEF InLength
  <2>2. PICK q \in Nat : Remain(q, Digits[n], p.digits)
    BY <1>4 DEF InLength
  <2>3. c = p.digits + Len(Digits[q]) /\ Len(Digits[q]) \in Nat /\ Len(Digits[q]) > 0
    BY <2>2, DigitsType DEF Remain
  <2>4. /\ n \in Nat /\ c \in Nat \ {0} /\ o \in Nat /\ z = o + 1 + c + n /\ z <= Len(b)
    BY <1>2, <2>1
  <2>5. p.digits \in Nat /\ o + 1 + p.digits = Len(b)
    BY <2>1, ReaderAssumption DEF ReaderAssumption
  <2> DEFINE g == p.digits
             l == Len(Digits[q])
  <2>6. c = g + l /\ l \in Nat /\ l > 0 /\ g \in Nat /\ o + 1 + g = Len(b)
    BY <2>3, <2>5
  <2> HIDE DEF b, o, z, n, c, g, l
  <2> QED  BY <2>4, <2>6
<1>5. CASE InBody(ls, p, m, d)
  <2>1. m \in 0..Len(ls) - 1 /\ d = z - p.toProcess /\ p.toProcess \in 0..n /\ p.haveRemaining = TRUE
    BY <1>5 DEF InBody
  <2>2. n \in Nat /\ z \in Nat /\ z <= Len(b)
    BY <1>2, <2>1
  <2> DEFINE y == p.toProcess
  <2>3. y \in 0..n /\ z - y = Len(b)
    BY <2>1
  <2> HIDE DEF b, z, n, y
  <2>4. y = 0
    BY <1>1, <2>2, <2>3
  <2> QED  BY <2>1, <2>4 DEF y
<1> QED  BY <1>3, <1>4, <1>5 DEF Reads

-----------------------------------------------------------------------------
(* The inductive invariant.                                                 *)

HandledOK(ls, h) ==
    /\ h \in Seq([command : Nat, body : Seq(Bytes)])
    /\ Len(h) \in 0..Len(ls)
    /\ \A i \in 1..Len(h) : h[i] = [command |-> i, body |-> Body(i, ls[i])]

Typed ==
    /\ eof \in BOOLEAN /\ PacketOK(inPacket) /\ count \in 0..MaxReads
    /\ phase \in {"select", "reading", "lost"}
    /\ raises \in 0..MaxRaises /\ lives \in 1..MaxLives
    /\ HandledOK(stream.lens, handled)

(* send() may do anything.                                                  *)
SendsOK == sends \in Seq(Sends)

Phased ==
    /\ phase = "reading" => count > 0
    /\ phase = "select" /\ inPacket.haveRemaining /\ inPacket.toProcess = 0
          => raises > 0 \/ count = 0

(* d bytes of the packets are read.                                         *)
AtByte(d) ==
    /\ Sock(taken, readbuffer, payloadHead, replies, d)
    /\ phase # "lost" => Reads(stream.lens, inPacket, Len(handled), d)

IInv == WireOK /\ Typed /\ SendsOK /\ Phased /\ \E d : AtByte(d)

(* The wire of a connection is the same in the next state.                  *)
LEMMA SockPrime ==
    ASSUME NEW d, stream' = stream, wire' = wire,
           Sock(taken', readbuffer', payloadHead', replies', d)
    PROVE  Sock(taken, readbuffer, payloadHead, replies, d)'
<1>1. SentBytes' = SentBytes /\ Answers' = Answers
  BY DEF SentBytes, Answers
<1>2. CASE stream.transport = "tcp"
  BY <1>2 DEF Sock
<1>3. CASE stream.transport # "tcp"
  <2>1. PICK fr, fo, bo, ro :
           /\ Framed(SentBytes, wire, Answers, fr, fo, bo, ro)
           /\ \E j \in 0..Len(fr) : At(fr, fo, bo, ro, j, d, taken', readbuffer', payloadHead', replies')
    BY <1>3 DEF Sock
  <2>2. PICK j \in 0..Len(fr) : At(fr, fo, bo, ro, j, d, taken', readbuffer', payloadHead', replies')
    BY <2>1
  <2>3. At(fr, fo, bo, ro, j, d, taken, readbuffer, payloadHead, replies)'
    BY <2>2 DEF At
  <2>4. Framed(SentBytes, wire, Answers, fr, fo, bo, ro)'
    BY <1>1, <2>1
  <2> QED  BY <1>3, <2>3, <2>4 DEF Sock
<1> QED  BY <1>2, <1>3

(* The lengths of the packets are numbers.                                  *)
LEMMA LensIs ==
    ASSUME WireOK
    PROVE  stream.lens \in Seq(Nat)
BY StreamIs DEF WireOK

(* How WireOK is kept,                                                      *)
LEMMA WireOKPrime ==
    ASSUME WireOK, stream' = stream, wire' = wire, arrived' \in 0..Len(wire), taken' \in 0..arrived'
    PROVE  WireOK'
BY DEF WireOK

(* and how the invariant is.                                                *)
LEMMA NextInv ==
    ASSUME WireOK, stream' = stream, wire' = wire, arrived' \in 0..Len(wire), taken' \in 0..arrived',
           Typed', SendsOK', Phased', NEW d,
           Sock(taken', readbuffer', payloadHead', replies', d),
           phase' # "lost" => Reads(stream.lens, inPacket', Len(handled'), d)
    PROVE  IInv'
<1>1. WireOK'
  BY WireOKPrime
<1>2. AtByte(d)'
  BY SockPrime DEF AtByte
<1> QED  BY <1>1, <1>2 DEF IInv

-----------------------------------------------------------------------------
(* The steps that receive.                                                  *)

(* What a recv(n) of _packet_read does to the socket, and what it returns.  *)
LEMMA Got ==
    ASSUME IInv, phase = "reading", NEW n \in Nat \ {0}, NEW r, r = Recv(n), Receive(r),
           UNCHANGED <<connVars, arrived>>
    PROVE  \E d, e :
              /\ Reads(stream.lens, inPacket, Len(handled), d)
              /\ Sock(taken', readbuffer', payloadHead', replies', e)
              /\ Gives(PacketBytes(stream.lens), d, e, n, r.out, r.data)
              /\ e \in 0..Len(PacketBytes(stream.lens))
              /\ stream' = stream /\ wire' = wire /\ lives' = lives /\ arrived' = arrived
              /\ arrived' \in 0..Len(wire) /\ taken' \in 0..arrived'
              /\ SendsOK'
<1>1. WireOK /\ SendsOK
  BY DEF IInv
<1>2. PICK d : /\ Sock(taken, readbuffer, payloadHead, replies, d)
               /\ Reads(stream.lens, inPacket, Len(handled), d)
  BY DEF IInv, AtByte
<1>3. PICK e \in Nat : /\ Sock(r.taken, r.buffer, r.head, replies \o r.reply, e)
                       /\ Gives(SentBytes, d, e, n, r.out, r.data)
                       /\ r.taken \in 0..arrived
  BY <1>1, <1>2, RecvIs
<1>4. /\ taken' = r.taken /\ readbuffer' = r.buffer /\ payloadHead' = r.head
      /\ replies' = replies \o r.reply
  BY DEF Receive
<1>5. e \in 0..Len(SentBytes)
  BY <1>1, <1>3, SockIs
<1>6. stream' = stream /\ wire' = wire /\ lives' = lives /\ arrived' = arrived
  BY DEF connVars
<1>7. arrived \in 0..Len(wire)
  BY <1>1 DEF WireOK
<1>8. Sock(taken', readbuffer', payloadHead', replies', e)
  BY <1>3, <1>4
<1>9. SendsOK'
  <2>1. PICK s \in Sends : sends' = IF r.reply = <<>> THEN sends ELSE Append(sends, s)
    BY DEF Receive
  <2>2. Append(sends, s) \in Seq(Sends)
    BY <1>1, AppendProperties DEF SendsOK
  <2> QED  BY <1>1, <2>1, <2>2 DEF SendsOK
<1> QED  BY <1>2, <1>3, <1>4, <1>5, <1>6, <1>7, <1>8, <1>9 DEF SentBytes

(* Without data the loop leaves _packet_read and the packet waits.          *)
LEMMA NoDataInv ==
    ASSUME IInv, phase = "reading", NEW n \in Nat \ {0}, NEW r, r = Recv(n), Receive(r),
           UNCHANGED <<connVars, arrived, eof, handled, raises>>, NoData(r),
           ~(inPacket.haveRemaining /\ inPacket.toProcess = 0)
    PROVE  IInv'
<1>1. UNCHANGED <<connVars, arrived>>
  OBVIOUS
<1>2. PICK d, e :
         /\ Reads(stream.lens, inPacket, Len(handled), d)
         /\ Sock(taken', readbuffer', payloadHead', replies', e)
         /\ Gives(PacketBytes(stream.lens), d, e, n, r.out, r.data)
         /\ e \in 0..Len(PacketBytes(stream.lens))
         /\ stream' = stream /\ wire' = wire /\ lives' = lives /\ arrived' = arrived
         /\ arrived' \in 0..Len(wire) /\ taken' \in 0..arrived'
         /\ SendsOK'
  BY <1>1, Got
<1>3. WireOK /\ Typed
  BY DEF IInv
<1>4. /\ r.out # "data" /\ phase' \in {"select", "lost"}
      /\ inPacket' = inPacket /\ count' = count
      /\ eof' = eof /\ handled' = handled /\ raises' = raises
  BY DEF NoData
<1>5. e = d
  BY <1>2, <1>4 DEF Gives
<1>6. Typed'
  BY <1>2, <1>3, <1>4 DEF Typed
<1>7. Phased'
  BY <1>4 DEF Phased
<1>8. Reads(stream.lens, inPacket', Len(handled'), e)
  BY <1>2, <1>4, <1>5
<1> QED  BY <1>2, <1>3, <1>6, <1>7, <1>8, NextInv

(* The three parts of _packet_read.                                         *)
LEMMA ReadCommandInv ==
    ASSUME IInv, ReadCommand
    PROVE  IInv'
<1>1. /\ phase = "reading" /\ inPacket.command = 0
      /\ UNCHANGED <<connVars, arrived, eof, handled, raises>>
  BY DEF ReadCommand
<1>2. PICK r : /\ r = Recv(1) /\ Receive(r)
               /\ \/ NoData(r)
                  \/ /\ r.out = "data"
                     /\ inPacket' = [inPacket EXCEPT !.command = r.data[1].val]
                     /\ UNCHANGED <<count, phase>>
  BY DEF ReadCommand
<1>3. 1 \in Nat \ {0}
  OBVIOUS
<1>4. PICK d, e :
         /\ Reads(stream.lens, inPacket, Len(handled), d)
         /\ Sock(taken', readbuffer', payloadHead', replies', e)
         /\ Gives(PacketBytes(stream.lens), d, e, 1, r.out, r.data)
         /\ e \in 0..Len(PacketBytes(stream.lens))
         /\ stream' = stream /\ wire' = wire /\ lives' = lives /\ arrived' = arrived
         /\ arrived' \in 0..Len(wire) /\ taken' \in 0..arrived'
         /\ SendsOK'
  BY <1>1, <1>2, <1>3, Got
<1>5. WireOK /\ Typed /\ Phased
  BY DEF IInv
<1>6. stream.lens \in Seq(Nat)
  BY <1>5, LensIs
<1>7. CASE NoData(r)
  <2>1. ~(inPacket.haveRemaining /\ inPacket.toProcess = 0)
    <3>1. ASSUME NEW m \in 0..Len(stream.lens) - 1 PROVE m + 1 # 0
      BY <1>6, EndsIs
    <3> QED  BY <1>1, <1>4, <3>1 DEF Reads, Fresh, InLength, InBody, EmptyPacket
  <2> QED  BY <1>1, <1>2, <1>3, <1>7, <2>1, NoDataInv
<1>8. CASE /\ r.out = "data"
           /\ inPacket' = [inPacket EXCEPT !.command = r.data[1].val]
           /\ UNCHANGED <<count, phase>>
  <2> DEFINE c == r.data[1]
  <2>1. /\ r.data \in Seq(Bytes) /\ Len(r.data) \in 1..1 /\ e = d + Len(r.data)
        /\ \A i \in 1..Len(r.data) : r.data[i] = PacketBytes(stream.lens)[d + i]
    BY <1>4, <1>8 DEF Gives
  <2>2. Len(r.data) = 1 /\ 1 \in 1..1
    BY <2>1
  <2>3. e = d + 1 /\ c = PacketBytes(stream.lens)[d + 1]
    BY <2>1, <2>2
  <2>4. inPacket' = [inPacket EXCEPT !.command = c.val]
    BY <1>8
  <2> HIDE DEF c
  <2>5. Reads(stream.lens, [inPacket EXCEPT !.command = c.val], Len(handled), d + 1)
    BY <1>1, <1>4, <1>6, <2>3, CommandStep
  <2>6. Reads(stream.lens, inPacket', Len(handled'), e)
    BY <1>1, <2>3, <2>4, <2>5
  <2>7. Typed'
    <3>1. PacketOK(inPacket')
      BY <2>6 DEF Reads
    <3> QED  BY <1>1, <1>4, <1>5, <1>8, <3>1 DEF Typed
  <2>8. Phased'
    BY <1>1, <1>5, <1>8 DEF Phased
  <2> QED  BY <1>4, <1>5, <2>6, <2>7, <2>8, NextInv
<1> QED  BY <1>2, <1>7, <1>8

LEMMA ReadLengthInv ==
    ASSUME IInv, ReadLength
    PROVE  IInv'
<1>1. /\ phase = "reading" /\ inPacket.command # 0 /\ ~inPacket.haveRemaining
      /\ UNCHANGED <<connVars, arrived, eof, handled, raises>>
  BY DEF ReadLength
<1>2. PICK r : /\ r = Recv(1) /\ Receive(r)
               /\ \/ NoData(r)
                  \/ /\ r.out = "data"
                     /\ inPacket' = IF inPacket.digits < MaxDigits
                                    THEN AddDigit(r.data[1])
                                    ELSE [inPacket EXCEPT !.digits = @ + 1]
                     /\ phase' = IF inPacket.digits < MaxDigits THEN phase ELSE "lost"
                     /\ UNCHANGED count
  BY DEF ReadLength
<1>3. 1 \in Nat \ {0}
  OBVIOUS
<1>4. PICK d, e :
         /\ Reads(stream.lens, inPacket, Len(handled), d)
         /\ Sock(taken', readbuffer', payloadHead', replies', e)
         /\ Gives(PacketBytes(stream.lens), d, e, 1, r.out, r.data)
         /\ e \in 0..Len(PacketBytes(stream.lens))
         /\ stream' = stream /\ wire' = wire /\ lives' = lives /\ arrived' = arrived
         /\ arrived' \in 0..Len(wire) /\ taken' \in 0..arrived'
         /\ SendsOK'
  BY <1>1, <1>2, <1>3, Got
<1>5. WireOK /\ Typed /\ Phased
  BY DEF IInv
<1>6. stream.lens \in Seq(Nat)
  BY <1>5, LensIs
<1>7. CASE NoData(r)
  BY <1>1, <1>2, <1>3, <1>7, NoDataInv
<1>8. CASE ~NoData(r)
  <2> DEFINE c == r.data[1]
  <2>0. /\ r.out = "data" /\ count' = count
        /\ inPacket' = IF inPacket.digits < MaxDigits
                       THEN AddDigit(c) ELSE [inPacket EXCEPT !.digits = @ + 1]
        /\ phase' = IF inPacket.digits < MaxDigits THEN phase ELSE "lost"
    BY <1>2, <1>8
  <2>1. /\ r.data \in Seq(Bytes) /\ Len(r.data) \in 1..1 /\ e = d + Len(r.data)
        /\ \A i \in 1..Len(r.data) : r.data[i] = PacketBytes(stream.lens)[d + i]
    BY <1>4, <2>0 DEF Gives
  <2>2. Len(r.data) = 1 /\ 1 \in 1..1
    BY <2>1
  <2>3. e = d + 1 /\ c = PacketBytes(stream.lens)[d + 1]
    BY <2>1, <2>2
  <2> HIDE DEF c
  <2>4. CASE inPacket.digits < MaxDigits
    <3>1. inPacket' = AddDigit(c) /\ phase' = phase
      BY <2>0, <2>4
    <3>2. Reads(stream.lens, AddDigit(c), Len(handled), d + 1)
      BY <1>1, <1>4, <1>6, <2>3, <2>4, LengthStep
    <3>3. Reads(stream.lens, inPacket', Len(handled'), e)
      BY <1>1, <2>3, <3>1, <3>2
    <3>4. Typed'
      <4>1. PacketOK(inPacket')
        BY <3>3 DEF Reads
      <4> QED  BY <1>1, <1>4, <1>5, <2>0, <3>1, <4>1 DEF Typed
    <3>5. Phased'
      BY <1>1, <1>5, <2>0, <3>1 DEF Phased
    <3> QED  BY <1>4, <1>5, <3>3, <3>4, <3>5, NextInv
  <2>5. CASE ~(inPacket.digits < MaxDigits)
    <3>1. inPacket' = [inPacket EXCEPT !.digits = @ + 1] /\ phase' = "lost"
      BY <2>0, <2>5
    <3>2. PacketOK(inPacket) /\ inPacket.digits \in 0..MaxDigits
      BY <1>1, <1>4, ReaderAssumption
         DEF Reads, Fresh, InLength, InBody, EmptyPacket, ReaderAssumption
    <3>3. PacketOK(inPacket')
      BY <3>1, <3>2, TooLong
    <3>4. Typed'
      BY <1>1, <1>4, <1>5, <2>0, <3>1, <3>3 DEF Typed
    <3>5. Phased'
      BY <3>1 DEF Phased
    <3> QED  BY <1>4, <1>5, <3>1, <3>4, <3>5, NextInv
  <2> QED  BY <2>4, <2>5
<1> QED  BY <1>7, <1>8

LEMMA ReadBodyInv ==
    ASSUME IInv, ReadBody
    PROVE  IInv'
<1>1. /\ phase = "reading" /\ inPacket.haveRemaining /\ inPacket.toProcess > 0
      /\ UNCHANGED <<connVars, arrived, eof, handled, raises>>
  BY DEF ReadBody
<1> DEFINE n == inPacket.toProcess
<1>2. PICK r : /\ r = Recv(n) /\ Receive(r)
               /\ \/ NoData(r)
                  \/ /\ r.out = "data"
                     /\ inPacket' = [inPacket EXCEPT !.toProcess = @ - Len(r.data),
                                                     !.packet = @ \o r.data]
                     /\ count' = count - 1
                     /\ phase' = IF count = 1 THEN "select" ELSE phase
  BY DEF ReadBody
<1>3. n \in Nat \ {0}
  BY <1>1 DEF IInv, Typed, PacketOK
<1>4. PICK d, e :
         /\ Reads(stream.lens, inPacket, Len(handled), d)
         /\ Sock(taken', readbuffer', payloadHead', replies', e)
         /\ Gives(PacketBytes(stream.lens), d, e, n, r.out, r.data)
         /\ e \in 0..Len(PacketBytes(stream.lens))
         /\ stream' = stream /\ wire' = wire /\ lives' = lives /\ arrived' = arrived
         /\ arrived' \in 0..Len(wire) /\ taken' \in 0..arrived'
         /\ SendsOK'
  BY <1>1, <1>2, <1>3, Got
<1>5. WireOK /\ Typed /\ Phased
  BY DEF IInv
<1>6. stream.lens \in Seq(Nat)
  BY <1>5, LensIs
<1>7. CASE NoData(r)
  <2>1. ~(inPacket.haveRemaining /\ inPacket.toProcess = 0)
    BY <1>3
  <2> QED  BY <1>1, <1>2, <1>3, <1>7, <2>1, NoDataInv
<1>8. CASE ~NoData(r)
  <2> DEFINE p2 == [inPacket EXCEPT !.toProcess = @ - Len(r.data), !.packet = @ \o r.data]
  <2>1. /\ r.out = "data" /\ inPacket' = p2 /\ count' = count - 1
        /\ phase' = IF count = 1 THEN "select" ELSE phase
    BY <1>2, <1>8
  <2>2. Gives(PacketBytes(stream.lens), d, e, inPacket.toProcess, "data", r.data)
    BY <1>4, <2>1
  <2>3. Reads(stream.lens, p2, Len(handled), e)
    BY <1>1, <1>4, <1>6, <2>2, BodyStep
  <2> HIDE DEF p2
  <2>4. Reads(stream.lens, inPacket', Len(handled'), e)
    BY <1>1, <2>1, <2>3
  <2>5. count \in 1..MaxReads /\ count - 1 \in 0..MaxReads /\ (count # 1 => count - 1 > 0)
        /\ (count = 1 => count - 1 = 0)
    BY <1>1, <1>5, ReaderAssumption DEF Typed, Phased, ReaderAssumption
  <2>6. Typed'
    <3>1. PacketOK(inPacket')
      BY <2>4 DEF Reads
    <3> QED  BY <1>1, <1>4, <1>5, <2>1, <2>5, <3>1 DEF Typed
  <2>7. Phased'
    BY <1>1, <2>1, <2>5 DEF Phased
  <2> QED  BY <1>4, <1>5, <2>4, <2>6, <2>7, NextInv
<1> QED  BY <1>7, <1>8

-----------------------------------------------------------------------------
(* The other steps.                                                         *)

(* Nothing is read at first.                                                *)
LEMMA BeginInv ==
    ASSUME Init
    PROVE  IInv
<1>1. /\ stream \in Streams /\ wire = Wire(stream) /\ arrived = 0 /\ taken = 0 /\ eof = FALSE
      /\ readbuffer = <<>> /\ payloadHead = 0 /\ replies = <<>> /\ sends = <<>> /\ inPacket = EmptyPacket
      /\ count = MaxReads /\ phase = "select" /\ handled = <<>> /\ raises = 0 /\ lives = 1
  BY DEF Init
<1>2. Len(Wire(stream)) \in Nat
  BY <1>1, StreamIs, LenProperties
<1>3. WireOK /\ SendsOK
  BY <1>1, <1>2, EmptySeq DEF WireOK, SendsOK
<1>4. stream.lens \in Seq(Nat)
  BY <1>3, LensIs
<1>5. /\ Len(stream.lens) \in Nat /\ Ends(stream.lens)[0] = 0
  BY <1>4, EndsIs
<1>6. HandledOK(stream.lens, <<>>) /\ Len(<<>>) = 0
  <2>1. <<>> \in Seq([command : Nat, body : Seq(Bytes)]) /\ Len(<<>>) = 0
    BY EmptySeq
  <2>2. 0 \in 0..Len(stream.lens) /\ 1..0 = {}
    BY <1>5
  <2> QED  BY <2>1, <2>2 DEF HandledOK
<1>7. Typed
  <2>1. PacketOK(inPacket)
    BY <1>1, EmptyOK
  <2>2. MaxReads \in 0..MaxReads /\ 0 \in 0..MaxRaises /\ 1 \in 1..MaxLives
    BY ReaderAssumption DEF ReaderAssumption
  <2> QED  BY <1>1, <1>6, <2>1, <2>2 DEF Typed
<1>8. Phased
  BY <1>1 DEF Phased, EmptyPacket
<1>9. AtByte(0)
  <2>1. 0 \in 0..Len(stream.lens)
    BY <1>5
  <2>2. Reads(stream.lens, EmptyPacket, 0, 0)
    BY <1>4, <1>5, <2>1, FreshReads
  <2>3. Sock(0, <<>>, 0, <<>>, 0)
    BY <1>3, Begins
  <2> QED  BY <1>1, <1>6, <2>2, <2>3 DEF AtByte
<1> QED  BY <1>3, <1>7, <1>8, <1>9 DEF IInv

(* What a step that does not receive leaves.                                *)
LEMMA Same ==
    ASSUME IInv, UNCHANGED <<stream, wire>>, UNCHANGED sockVars, UNCHANGED arrived
    PROVE  \E d : /\ Sock(taken', readbuffer', payloadHead', replies', d)
                  /\ phase # "lost" => Reads(stream.lens, inPacket, Len(handled), d)
                  /\ stream' = stream /\ wire' = wire
                  /\ arrived' \in 0..Len(wire) /\ taken' \in 0..arrived'
                  /\ SendsOK'
<1>1. PICK d : AtByte(d)
  BY DEF IInv
<1>2. /\ stream' = stream /\ wire' = wire /\ arrived' = arrived /\ taken' = taken
      /\ readbuffer' = readbuffer /\ payloadHead' = payloadHead /\ replies' = replies
  BY DEF sockVars
<1>3. arrived \in 0..Len(wire) /\ taken \in 0..arrived
  BY DEF IInv, WireOK
<1>4. SendsOK'
  BY DEF IInv, SendsOK, sockVars
<1> QED  BY <1>1, <1>2, <1>3, <1>4 DEF AtByte

(* loop_read begins: the packet that waits goes on where it was.            *)
LEMMA SelectInv ==
    ASSUME IInv, Select
    PROVE  IInv'
<1>1. /\ phase = "select" /\ phase' = "reading" /\ count' = MaxReads
      /\ UNCHANGED <<connVars, arrived, eof, sockVars, inPacket, handled, raises>>
  BY DEF Select
<1>2. WireOK /\ Typed
  BY DEF IInv
<1>3. UNCHANGED <<stream, wire>> /\ UNCHANGED sockVars /\ UNCHANGED arrived
  BY <1>1 DEF connVars
<1>4. PICK d : /\ Sock(taken', readbuffer', payloadHead', replies', d)
               /\ phase # "lost" => Reads(stream.lens, inPacket, Len(handled), d)
               /\ stream' = stream /\ wire' = wire
               /\ arrived' \in 0..Len(wire) /\ taken' \in 0..arrived'
               /\ SendsOK'
  BY <1>3, Same
<1>5. lives' = lives /\ inPacket' = inPacket /\ handled' = handled /\ raises' = raises /\ eof' = eof
  BY <1>1 DEF connVars
<1>6. Typed'
  BY <1>1, <1>2, <1>4, <1>5, ReaderAssumption DEF Typed, ReaderAssumption
<1>7. Phased'
  BY <1>1, ReaderAssumption DEF Phased, ReaderAssumption
<1>8. Reads(stream.lens, inPacket', Len(handled'), d)
  BY <1>1, <1>4, <1>5
<1> QED  BY <1>2, <1>4, <1>6, <1>7, <1>8, NextInv

(* The packet is handled: one more of the broker's.                         *)
LEMMA HandleInv ==
    ASSUME IInv, Handle
    PROVE  IInv'
<1>1. /\ phase = "reading" /\ inPacket.haveRemaining /\ inPacket.toProcess = 0
      /\ handled' = Append(handled, [command |-> inPacket.command, body |-> inPacket.packet])
      /\ inPacket' = EmptyPacket /\ count' = MaxReads /\ phase' \in {"reading", "select"}
      /\ UNCHANGED <<connVars, arrived, eof, sockVars, raises>>
  BY DEF Handle, HandleReady
<1>2. WireOK /\ Typed
  BY DEF IInv
<1>3. UNCHANGED <<stream, wire>> /\ UNCHANGED sockVars /\ UNCHANGED arrived
  BY <1>1 DEF connVars
<1>4. PICK d : /\ Sock(taken', readbuffer', payloadHead', replies', d)
               /\ phase # "lost" => Reads(stream.lens, inPacket, Len(handled), d)
               /\ stream' = stream /\ wire' = wire
               /\ arrived' \in 0..Len(wire) /\ taken' \in 0..arrived'
               /\ SendsOK'
  BY <1>3, Same
<1>5. lives' = lives /\ raises' = raises /\ eof' = eof
  BY <1>1 DEF connVars
<1> DEFINE ls == stream.lens
           m == Len(handled)
           x == [command |-> inPacket.command, body |-> inPacket.packet]
<1>6. ls \in Seq(Nat)
  BY <1>2, LensIs
<1>7. /\ m \in 0..Len(ls) - 1
      /\ inPacket.command = m + 1 /\ inPacket.packet = Body(m + 1, ls[m + 1])
      /\ m + 1 \in 0..Len(ls) /\ d = Ends(ls)[m + 1]
  BY <1>1, <1>4, <1>6, HandleStep
<1>8. x = [command |-> m + 1, body |-> Body(m + 1, ls[m + 1])]
  BY <1>7
<1>9. /\ handled \in Seq([command : Nat, body : Seq(Bytes)])
      /\ \A i \in 1..m : handled[i] = [command |-> i, body |-> Body(i, ls[i])]
  BY <1>2 DEF Typed, HandledOK
<1>10. x \in [command : Nat, body : Seq(Bytes)] /\ m \in Nat
  BY <1>2, <1>9, LenProperties DEF Typed, PacketOK
<1> HIDE DEF ls, x
<1>11. /\ handled' \in Seq([command : Nat, body : Seq(Bytes)]) /\ Len(handled') = m + 1
       /\ \A i \in 1..m : handled'[i] = handled[i]
       /\ handled'[m + 1] = x
  <2>1. handled' = Append(handled, x)
    BY <1>1 DEF x
  <2> QED  BY <1>9, <1>10, <2>1, AppendProperties
<1>12. HandledOK(ls, handled')
  <2>1. ASSUME NEW i \in 1..m + 1
        PROVE  handled'[i] = [command |-> i, body |-> Body(i, ls[i])]
    <3>1. i \in 1..m \/ i = m + 1
      BY <1>10
    <3> QED  BY <1>8, <1>9, <1>11, <3>1
  <2> QED  BY <1>7, <1>11, <2>1 DEF HandledOK
<1>13. Typed'
  <2>1. PacketOK(inPacket')
    BY <1>1, EmptyOK
  <2> QED  BY <1>1, <1>2, <1>4, <1>5, <1>12, <2>1, ReaderAssumption DEF Typed, ReaderAssumption, ls
<1>14. Phased'
  BY <1>1, ReaderAssumption DEF Phased, ReaderAssumption, EmptyPacket
<1>15. Reads(stream.lens, inPacket', Len(handled'), d)
  <2>1. Reads(ls, EmptyPacket, m + 1, Ends(ls)[m + 1])
    BY <1>6, <1>7, FreshReads
  <2> QED  BY <1>1, <1>7, <1>11, <2>1 DEF ls
<1> QED  BY <1>2, <1>4, <1>13, <1>14, <1>15, NextInv

(* An exception leaves the packet complete, to be handled again.            *)
LEMMA HandleRaisesInv ==
    ASSUME IInv, HandleRaises
    PROVE  IInv'
<1>1. /\ phase = "reading" /\ raises < MaxRaises /\ raises' = raises + 1 /\ phase' = "select"
      /\ UNCHANGED <<connVars, arrived, eof, sockVars, inPacket, count, handled>>
  BY DEF HandleRaises, HandleReady
<1>2. WireOK /\ Typed
  BY DEF IInv
<1>3. UNCHANGED <<stream, wire>> /\ UNCHANGED sockVars /\ UNCHANGED arrived
  BY <1>1 DEF connVars
<1>4. PICK d : /\ Sock(taken', readbuffer', payloadHead', replies', d)
               /\ phase # "lost" => Reads(stream.lens, inPacket, Len(handled), d)
               /\ stream' = stream /\ wire' = wire
               /\ arrived' \in 0..Len(wire) /\ taken' \in 0..arrived'
               /\ SendsOK'
  BY <1>3, Same
<1>5. lives' = lives /\ inPacket' = inPacket /\ handled' = handled /\ count' = count /\ eof' = eof
  BY <1>1 DEF connVars
<1>6. raises \in 0..MaxRaises /\ raises + 1 \in 0..MaxRaises /\ raises + 1 > 0
  BY <1>1, <1>2, ReaderAssumption DEF Typed, ReaderAssumption
<1>7. Typed'
  BY <1>1, <1>2, <1>4, <1>5, <1>6 DEF Typed
<1>8. Phased'
  BY <1>1, <1>6 DEF Phased
<1>9. Reads(stream.lens, inPacket', Len(handled'), d)
  BY <1>1, <1>4, <1>5
<1> QED  BY <1>2, <1>4, <1>7, <1>8, <1>9, NextInv

(* Bytes arrive, or the peer closes.                                        *)
LEMMA NetworkInv ==
    ASSUME IInv, Arrive \/ HangUp
    PROVE  IInv'
<1>1. /\ phase # "lost" /\ UNCHANGED <<connVars, sockVars, readVars, handled, raises>>
  BY DEF Arrive, HangUp
<1>2. WireOK /\ Typed /\ Phased
  BY DEF IInv
<1>3. arrived \in 0..Len(wire) /\ taken \in 0..arrived /\ Len(wire) \in Nat
  BY <1>2, WireIs DEF WireOK
<1>4. arrived' \in arrived..Len(wire) /\ eof' \in BOOLEAN
  <2>1. CASE Arrive
    <3>1. \E n \in arrived + 1..Len(wire) : arrived' = n
      BY <2>1 DEF Arrive
    <3>2. eof' = eof
      BY <2>1 DEF Arrive
    <3>3. eof' \in BOOLEAN
      BY <1>2, <3>2 DEF Typed
    <3> QED  BY <1>3, <3>1, <3>3
  <2>2. CASE HangUp
    BY <1>3, <2>2 DEF HangUp
  <2> QED  BY <2>1, <2>2
<1>5. /\ stream' = stream /\ wire' = wire /\ lives' = lives /\ taken' = taken
      /\ readbuffer' = readbuffer /\ payloadHead' = payloadHead /\ replies' = replies
      /\ inPacket' = inPacket /\ count' = count /\ phase' = phase /\ handled' = handled
      /\ raises' = raises
  BY <1>1 DEF connVars, sockVars, readVars
<1>6. PICK d : AtByte(d)
  BY DEF IInv
<1>7. arrived' \in 0..Len(wire) /\ taken' \in 0..arrived'
  BY <1>3, <1>4, <1>5
<1>8. Typed' /\ SendsOK'
  <2>1. sends' = sends /\ SendsOK
    BY <1>1 DEF sockVars, IInv
  <2> QED  BY <1>2, <1>4, <1>5, <2>1 DEF Typed, SendsOK
<1>9. Phased'
  BY <1>2, <1>5 DEF Phased
<1>10. /\ Sock(taken', readbuffer', payloadHead', replies', d)
       /\ Reads(stream.lens, inPacket', Len(handled'), d)
  BY <1>1, <1>5, <1>6 DEF AtByte
<1> QED  BY <1>2, <1>5, <1>7, <1>8, <1>9, <1>10, NextInv

(* A new connection begins with an empty packet and an empty wrapper.       *)
LEMMA ReconnectInv ==
    ASSUME IInv, Reconnect
    PROVE  IInv'
<1>1. /\ lives < MaxLives /\ lives' = lives + 1 /\ inPacket' = EmptyPacket /\ count' = MaxReads
      /\ phase' = "select" /\ arrived' = 0 /\ taken' = 0 /\ eof' = FALSE
      /\ readbuffer' = <<>> /\ payloadHead' = 0 /\ replies' = <<>> /\ sends' = <<>>
      /\ handled' = <<>> /\ raises' = 0 /\ stream' = stream /\ wire' = wire
  BY DEF Reconnect, ReconnectReset
<1>2. WireOK /\ Typed
  BY DEF IInv
<1>3. stream.lens \in Seq(Nat)
  BY <1>2, LensIs
<1>4. Len(stream.lens) \in Nat /\ Ends(stream.lens)[0] = 0 /\ Len(wire) \in Nat
  BY <1>2, <1>3, EndsIs, WireIs
<1>5. HandledOK(stream.lens, <<>>) /\ Len(<<>>) = 0
  <2>1. <<>> \in Seq([command : Nat, body : Seq(Bytes)]) /\ Len(<<>>) = 0
    BY EmptySeq
  <2>2. 0 \in 0..Len(stream.lens) /\ 1..0 = {}
    BY <1>4
  <2> QED  BY <2>1, <2>2 DEF HandledOK
<1>6. Typed'
  <2>1. PacketOK(inPacket')
    BY <1>1, EmptyOK
  <2>2. MaxReads \in 0..MaxReads /\ 0 \in 0..MaxRaises /\ lives + 1 \in 1..MaxLives
    BY <1>1, <1>2, ReaderAssumption DEF ReaderAssumption, Typed
  <2> QED  BY <1>1, <1>5, <2>1, <2>2 DEF Typed
<1>7. Phased'
  BY <1>1 DEF Phased, EmptyPacket
<1>8. arrived' \in 0..Len(wire) /\ taken' \in 0..arrived'
  BY <1>1, <1>4
<1>9. Sock(taken', readbuffer', payloadHead', replies', 0)
  <2>1. Sock(0, <<>>, 0, <<>>, 0)
    BY <1>2, Begins
  <2> QED  BY <1>1, <2>1
<1>10. Reads(stream.lens, inPacket', Len(handled'), 0)
  <2>1. 0 \in 0..Len(stream.lens)
    BY <1>4
  <2>2. Reads(stream.lens, EmptyPacket, 0, 0)
    BY <1>3, <1>4, <2>1, FreshReads
  <2> QED  BY <1>1, <1>5, <2>2
<1>11. SendsOK'
  BY <1>1, EmptySeq DEF SendsOK
<1> QED  BY <1>1, <1>2, <1>6, <1>7, <1>8, <1>9, <1>10, <1>11, NextInv

(* Nothing happens.                                                         *)
LEMMA StutterInv ==
    ASSUME IInv, UNCHANGED vars
    PROVE  IInv'
<1>1. /\ stream' = stream /\ wire' = wire /\ lives' = lives /\ taken' = taken
      /\ readbuffer' = readbuffer /\ payloadHead' = payloadHead /\ replies' = replies
      /\ inPacket' = inPacket /\ count' = count /\ phase' = phase /\ handled' = handled
      /\ raises' = raises /\ arrived' = arrived /\ eof' = eof
  BY DEF vars, connVars, sockVars, readVars
<1>2. WireOK /\ Typed /\ Phased
  BY DEF IInv
<1>3. PICK d : AtByte(d)
  BY DEF IInv
<1>4. arrived' \in 0..Len(wire) /\ taken' \in 0..arrived'
  BY <1>1, <1>2 DEF WireOK
<1>5. Typed' /\ Phased' /\ SendsOK'
  BY <1>1, <1>2 DEF Typed, Phased, SendsOK, IInv, vars, sockVars
<1>6. /\ Sock(taken', readbuffer', payloadHead', replies', d)
      /\ phase' # "lost" => Reads(stream.lens, inPacket', Len(handled'), d)
  BY <1>1, <1>3 DEF AtByte
<1> QED  BY <1>1, <1>2, <1>4, <1>5, <1>6, NextInv

-----------------------------------------------------------------------------
(* What follows from the invariant.                                         *)

(* The packets handled are the first of those sent.                         *)
LEMMA HandledIs ==
    ASSUME IInv
    PROVE  /\ IsPrefix(handled, Sent)
           /\ Len(handled) = Len(stream.lens) => handled = Sent
<1> DEFINE ls == stream.lens
           P == [command : Nat, body : Seq(Bytes)]
           f == [i \in 1..Len(ls) |-> [command |-> i, body |-> Body(i, ls[i])]]
           m == Len(handled)
<1>1. WireOK /\ HandledOK(ls, handled)
  BY DEF IInv, Typed
<1>2. ls \in Seq(Nat)
  BY <1>1, LensIs
<1>3. Len(ls) \in Nat
  BY <1>2, EndsIs
<1>4. Sent = f
  BY DEF Sent
<1>5. /\ handled \in Seq(P) /\ m \in 0..Len(ls)
      /\ \A i \in 1..m : handled[i] = [command |-> i, body |-> Body(i, ls[i])]
  BY <1>1 DEF HandledOK
<1> HIDE DEF ls
<1>6. f \in [1..Len(ls) -> P]
  <2>1. ASSUME NEW i \in 1..Len(ls) PROVE [command |-> i, body |-> Body(i, ls[i])] \in P
    <3>1. i \in Nat /\ ls[i] \in Nat
      BY <1>2, <1>3, ElementOfSeq
    <3>2. Body(i, ls[i]) \in Seq(Bytes)
      BY <3>1, BodyIs
    <3> QED  BY <3>1, <3>2
  <2> HIDE DEF P
  <2> QED  BY <2>1
<1>7. \A i \in 1..Len(ls) : f[i] = [command |-> i, body |-> Body(i, ls[i])]
  OBVIOUS
<1> HIDE DEF f, P
<1>8. f \in Seq(P) /\ Len(f) = Len(ls)
  BY <1>3, <1>6, FcnSeq
<1>9. \A i \in 1..m : handled[i] = f[i]
  <2> TAKE i \in 1..m
  <2>1. i \in 1..Len(ls)
    BY <1>3, <1>5
  <2> QED  BY <1>5, <1>7, <2>1
<1>10. SubSeq(handled, 1, m) = SubSeq(f, 1, m)
  <2>1. 0 \in Nat /\ m \in Nat /\ 0 <= m /\ m <= Len(handled) /\ m <= Len(f) /\ 0 + 1 = 1 /\ m - 0 = m
    BY <1>3, <1>5, <1>8
  <2> DEFINE s == SubSeq(handled, 0 + 1, m)
             t == SubSeq(f, 0 + 1, m)
  <2>2. s \in Seq(P) /\ Len(s) = m - 0 /\ \A i \in 1..(m - 0) : s[i] = handled[0 + i]
    BY <1>5, <2>1, SubSeqIs
  <2>3. t \in Seq(P) /\ Len(t) = m - 0 /\ \A i \in 1..(m - 0) : t[i] = f[0 + i]
    BY <1>8, <2>1, SubSeqIs
  <2> HIDE DEF s, t
  <2>4. ASSUME NEW i \in 1..m PROVE s[i] = t[i]
    <3>1. 0 + i = i /\ i \in 1..(m - 0)
      BY <2>1
    <3> QED  BY <1>9, <2>2, <2>3, <3>1
  <2>5. Len(s) = m /\ Len(t) = m
    BY <2>1, <2>2, <2>3
  <2>6. s = t
    BY <2>2, <2>3, <2>4, <2>5, SeqEqual
  <2> QED  BY <2>1, <2>6 DEF s, t
<1>11. IsPrefix(handled, Sent)
  BY <1>3, <1>4, <1>5, <1>8, <1>10 DEF IsPrefix
<1>12. ASSUME m = Len(ls) PROVE handled = Sent
  <2>1. handled = f
    BY <1>5, <1>8, <1>9, <1>12, SeqEqual
  <2> QED  BY <1>4, <2>1
<1> QED  BY <1>11, <1>12 DEF ls

(* The answers given, and that no byte of the stream stays in the wrapper.  *)
LEMMA SocketIs ==
    ASSUME IInv, NEW d, AtByte(d)
    PROVE  /\ readbuffer \in Seq(Bytes) /\ payloadHead \in Nat /\ replies \in Seq(Replies)
           /\ PingsAnsweredOnce
           /\ taken = Len(wire) => d = Len(PacketBytes(stream.lens))
<1>1. WireOK /\ Sock(taken, readbuffer, payloadHead, replies, d) /\ taken \in 0..arrived
  BY DEF IInv, AtByte, WireOK
<1>2. /\ readbuffer \in Seq(Bytes) /\ payloadHead \in Nat /\ replies \in Seq(Replies)
      /\ IsPrefix(replies, Answers)
      /\ taken = Len(wire) /\ readbuffer = <<>> => replies = Answers
      /\ taken = Len(wire) => d = Len(SentBytes)
  BY <1>1, SockIs
<1> QED  BY <1>2 DEF PingsAnsweredOnce, SentBytes

(* The types.                                                               *)
LEMMA TypesIs ==
    ASSUME IInv
    PROVE  TypeOK
<1>1. PICK d : AtByte(d)
  BY DEF IInv
<1>2. readbuffer \in Seq(Bytes) /\ payloadHead \in Nat /\ replies \in Seq(Replies)
  BY <1>1, SocketIs
<1>3. stream \in Streams /\ arrived \in 0..Len(wire) /\ taken \in 0..arrived
  BY DEF IInv, WireOK
<1>4. Typed
  BY DEF IInv
<1>5. SendsOK
  BY DEF IInv
<1> QED  BY <1>2, <1>3, <1>4, <1>5 DEF TypeOK, Typed, PacketOK, HandledOK, Replies, SendsOK

(* With all bytes received and no packet complete, all are handled.         *)
LEMMA AwakeIs ==
    ASSUME IInv
    PROVE  NothingHidden
<1> SUFFICES ASSUME phase = "select", taken = Len(wire), raises = 0, count > 0
             PROVE  handled = Sent
  BY DEF NothingHidden
<1>1. PICK d : AtByte(d)
  BY DEF IInv
<1>2. Reads(stream.lens, inPacket, Len(handled), d) /\ d = Len(PacketBytes(stream.lens))
  BY <1>1, SocketIs DEF AtByte
<1>3. stream.lens \in Seq(Nat)
  BY LensIs DEF IInv
<1>4. Len(handled) = Len(stream.lens) \/ (inPacket.haveRemaining /\ inPacket.toProcess = 0)
  BY <1>2, <1>3, AllReceived
<1>5. ~(inPacket.haveRemaining /\ inPacket.toProcess = 0)
  <2>1. Phased /\ count \in 0..MaxReads
    BY DEF IInv, Typed
  <2> QED  BY <2>1, ReaderAssumption DEF Phased, ReaderAssumption
<1> QED  BY <1>4, <1>5, HandledIs

(* Every step keeps the invariant.                                          *)
LEMMA NextKeeps ==
    ASSUME IInv, [Next]_vars
    PROVE  IInv'
<1>1. CASE Select        BY <1>1, SelectInv
<1>2. CASE ReadCommand   BY <1>2, ReadCommandInv
<1>3. CASE ReadLength    BY <1>3, ReadLengthInv
<1>4. CASE ReadBody      BY <1>4, ReadBodyInv
<1>5. CASE Handle        BY <1>5, HandleInv
<1>6. CASE Reconnect     BY <1>6, ReconnectInv
<1>7. CASE HandleRaises  BY <1>7, HandleRaisesInv
<1>8. CASE Arrive \/ HangUp  BY <1>8, NetworkInv
<1>9. CASE UNCHANGED vars    BY <1>9, StutterInv
<1> QED  BY <1>1, <1>2, <1>3, <1>4, <1>5, <1>6, <1>7, <1>8, <1>9 DEF Next, Client

(* Between two steps the reader has handed out a number d of bytes of the   *)
(* broker's packets: the socket layer stands at d in the frames and the     *)
(* answers, _in_packet holds what lies between the last packet handled and  *)
(* d.                                                                       *)
THEOREM ReaderInvariant == Spec => []IInv
<1>1. Init => IInv
  BY BeginInv
<1>2. IInv /\ [Next]_vars => IInv'
  BY NextKeeps
<1> QED  BY <1>1, <1>2, PTL DEF Spec

(* For every stream of packets, in whatever frames and pieces it arrives,   *)
(* with every limit: _packet_read hands _packet_handle the packets of the   *)
(* broker whole, in order and each once, through exceptions of callbacks    *)
(* and new connections.                                                     *)
THEOREM PacketsHandledAsSent == Spec => []HandledAsSent
<1>1. IInv => HandledAsSent
  BY TypesIs, HandledIs DEF HandledAsSent
<1> QED  BY <1>1, ReaderInvariant, PTL

(* _WebsocketWrapper gives the socket one answer to each PING and each      *)
(* CONNCLOSE, with its payload, however that is cut, and whatever send()    *)
(* makes of the answers.                                                    *)
THEOREM PingsGetAnswers == Spec => []PingsAnsweredOnce
<1>1. IInv => PingsAnsweredOnce
  <2> SUFFICES ASSUME IInv PROVE PingsAnsweredOnce
    OBVIOUS
  <2>1. PICK d : AtByte(d)
    BY DEF IInv
  <2> QED  BY <2>1, SocketIs
<1> QED  BY <1>1, ReaderInvariant, PTL

(* When the loop waits in select() and all bytes are received no packet is  *)
(* left in _in_packet or _readbuffer, but the two cases NothingHidden       *)
(* names.                                                                   *)
THEOREM NoPacketIsHidden == Spec => []NothingHidden
<1>1. IInv => NothingHidden
  BY AwakeIs
<1> QED  BY <1>1, ReaderInvariant, PTL
=============================================================================
