--------------------------- MODULE MatcherProofs ---------------------------
(***************************************************************************)
(* The trie of MQTTMatcher holds exactly the dictionary the application    *)
(* asked for, for every set of filters.  Adding is simple; that __delitem__*)
(* takes out neither too much nor too little rests on the longest part a   *)
(* removed filter has in common with another one.  That iter_match finds   *)
(* what matches rests on what each node finds: the filters below it that   *)
(* fit the rest of the topic, each once.                                   *)
(***************************************************************************)
EXTENDS Matcher, WellFoundedInduction, SequenceTheorems, FiniteSetTheorems,
        FunctionTheorems, TLAPS

(* What the trie has to be for a dictionary whose filters are F.            *)
Trie(F) == {Root} \cup UNION {Prefixes(f) : f \in F}

MatchInv ==
    /\ TrieShape
    /\ wanted = [f \in DOMAIN wanted |-> wanted[f]]

-----------------------------------------------------------------------------
(* Prefixes.                                                                *)

(* A set of natural numbers has a least one.                                *)
LEMMA Least ==
    ASSUME NEW S, S \subseteq Nat, S # {}
    PROVE  \E n \in S : \A m \in S : n <= m
<1> DEFINE R == {ss \in Nat \X Nat : ss[1] < ss[2]}
<1>1. R = OpToRel(<, Nat)
  BY DEF OpToRel
<1>2. IsWellFoundedOn(R, Nat)
  BY NatLessThanWellFounded, <1>1
<1>3. \E n \in S : \A m \in S : <<m, n>> \notin R
  <2> HIDE DEF R
  <2> QED  BY <1>2, WFMin
<1>4. PICK n \in S : \A m \in S : <<m, n>> \notin R
  BY <1>3
<1>5. ASSUME NEW m \in S PROVE n <= m
  <2>1. <<m, n>> \in Nat \X Nat /\ <<m, n>>[1] = m /\ <<m, n>>[2] = n
    OBVIOUS
  <2> QED  BY <1>4, <2>1
<1> QED  BY <1>5

(* Prefixes(f) are the sequences that agree with f as far as they go.       *)
LEMMA PrefixIs ==
    ASSUME NEW f \in Seq(Level), NEW p
    PROVE  p \in Prefixes(f) <=> /\ p \in Seq(Level)
                                 /\ Len(p) <= Len(f)
                                 /\ \A i \in 1..Len(p) : p[i] = f[i]
<1>1. ASSUME NEW n \in 0..Len(f)
      PROVE  /\ SubSeq(f, 1, n) \in Seq(Level)
             /\ Len(SubSeq(f, 1, n)) = n
             /\ \A i \in 1..n : SubSeq(f, 1, n)[i] = f[i]
  <2>1. \A i \in 1..n : f[i] \in Level
    BY ElementOfSeq, LenProperties
  <2> QED  BY <2>1, SubSeqProperties, LenProperties
<1>2. ASSUME p \in Prefixes(f)
      PROVE  p \in Seq(Level) /\ Len(p) <= Len(f) /\ \A i \in 1..Len(p) : p[i] = f[i]
  <2>1. PICK n \in 0..Len(f) : p = SubSeq(f, 1, n)
    BY <1>2 DEF Prefixes
  <2> QED  BY <1>1, <2>1, LenProperties
<1>3. ASSUME p \in Seq(Level), Len(p) <= Len(f), \A i \in 1..Len(p) : p[i] = f[i]
      PROVE  p \in Prefixes(f)
  <2>1. Len(p) \in 0..Len(f)
    BY <1>3, LenProperties
  <2>2. p = SubSeq(f, 1, Len(p))
    BY <1>1, <1>3, <2>1, SeqEqual
  <2> QED  BY <2>1, <2>2 DEF Prefixes
<1> QED  BY <1>2, <1>3

(* The prefixes of a prefix.                                                *)
LEMMA PrefixOfPrefix ==
    ASSUME NEW f \in Seq(Level), NEW p \in Prefixes(f), NEW q \in Prefixes(p)
    PROVE  q \in Prefixes(f)
<1>1. p \in Seq(Level)
  BY PrefixIs
<1> QED  BY <1>1, PrefixIs, LenProperties

(* Of two prefixes of a sequence the shorter is one of the longer.          *)
LEMMA ShorterPrefix ==
    ASSUME NEW f \in Seq(Level), NEW p \in Prefixes(f), NEW q \in Prefixes(f),
           Len(p) <= Len(q)
    PROVE  p \in Prefixes(q)
<1>1. q \in Seq(Level) /\ p \in Seq(Level)
  BY PrefixIs
<1>2. \A i \in 1..Len(p) : p[i] = q[i]
  BY <1>1, PrefixIs, LenProperties
<1> QED  BY <1>1, <1>2, PrefixIs

(* Every sequence is a prefix of itself, and the root one of each.          *)
LEMMA OwnPrefix ==
    ASSUME NEW f \in Seq(Level)
    PROVE  f \in Prefixes(f) /\ Root \in Prefixes(f)
<1>1. Root \in Seq(Level) /\ Len(Root) = 0 /\ Len(f) \in Nat
  BY EmptySeq, LenProperties DEF Root
<1>2. f \in Prefixes(f)
  BY <1>1, PrefixIs
<1>3. Root \in Prefixes(f)
  <2>1. SubSeq(f, 1, 0) = Root
    BY SubSeqEmpty DEF Root
  <2> QED  BY <1>1, <2>1 DEF Prefixes
<1> QED  BY <1>2, <1>3

(* The prefix of a given length.                                            *)
LEMMA PrefixOfLength ==
    ASSUME NEW f \in Seq(Level), NEW n \in 0..Len(f)
    PROVE  \E p \in Prefixes(f) : Len(p) = n
<1>1. \A i \in 1..n : f[i] \in Level
  BY ElementOfSeq, LenProperties
<1>2. Len(SubSeq(f, 1, n)) = n
  BY <1>1, SubSeqProperties, LenProperties
<1> QED  BY <1>2 DEF Prefixes

-----------------------------------------------------------------------------
(* Nodes.                                                                   *)

(* Every node of the trie is a sequence of levels.                          *)
LEMMA TrieSequences ==
    ASSUME NEW F, F \subseteq Filters
    PROVE  Trie(F) \subseteq Seq(Level) /\ F \subseteq Trie(F) /\ F \subseteq Seq(Level)
<1>1. F \subseteq Seq(Level) /\ Root \in Seq(Level)
  BY MatcherAssumption DEF MatcherAssumption, Root
<1>2. \A f \in F : Prefixes(f) \subseteq Seq(Level) /\ f \in Prefixes(f)
  BY <1>1, PrefixIs, OwnPrefix
<1> QED  BY <1>1, <1>2 DEF Trie

(* The children of a node are the nodes one level deeper it is a prefix of. *)
LEMMA ChildIs ==
    ASSUME nodes \subseteq Seq(Level), NEW p \in Seq(Level), NEW q \in nodes
    PROVE  q \in Children(p) <=> Len(q) = Len(p) + 1 /\ p \in Prefixes(q)
<1>1. q \in Seq(Level) /\ Len(q) \in Nat /\ Len(p) \in Nat
  BY LenProperties
<1>2. ASSUME Len(q) = Len(p) + 1, p \in Prefixes(q)
      PROVE  SubSeq(q, 1, Len(p)) = p
  <2>1. PICK n \in 0..Len(q) : p = SubSeq(q, 1, n)
    BY <1>2 DEF Prefixes
  <2>2. \A i \in 1..n : q[i] \in Level
    BY <1>1, ElementOfSeq
  <2>3. Len(p) = n
    BY <1>1, <2>1, <2>2, SubSeqProperties
  <2> QED  BY <2>1, <2>3
<1>3. ASSUME Len(q) = Len(p) + 1, SubSeq(q, 1, Len(p)) = p
      PROVE  p \in Prefixes(q)
  <2>1. Len(p) \in 0..Len(q)
    BY <1>1, <1>3
  <2> QED  BY <1>3, <2>1 DEF Prefixes
<1> QED  BY <1>2, <1>3 DEF Children

(* A node and what it shares with a filter of F is a node.                  *)
LEMMA TrieClosed ==
    ASSUME NEW F, F \subseteq Filters, NEW p \in Trie(F), NEW q \in Prefixes(p)
    PROVE  q \in Trie(F)
<1>1. F \subseteq Seq(Level) /\ Trie(F) \subseteq Seq(Level)
  BY TrieSequences
<1>2. CASE p = Root
  <2>1. q = Root
    <3>1. q \in Seq(Level) /\ Len(q) <= Len(Root)
      BY <1>1, <1>2, PrefixIs
    <3> QED  BY <3>1, EmptySeq, LenProperties DEF Root
  <2> QED  BY <2>1 DEF Trie
<1>3. ASSUME NEW f \in F, p \in Prefixes(f)
      PROVE  q \in Trie(F)
  BY <1>1, <1>3, PrefixOfPrefix DEF Trie
<1> QED  BY <1>2, <1>3 DEF Trie

(* Where a filter g parts from f, below their common prefix p, the loop of  *)
(* __delitem__ stops: that node has another child or a value.               *)
LEMMA Parting ==
    ASSUME NEW F, F \subseteq Filters, nodes = Trie(F), DOMAIN content = F,
           NEW f \in nodes, NEW g \in F, g # f,
           NEW p \in Prefixes(f), p \in Prefixes(g)
    PROVE  \E q \in Prefixes(f) : Len(q) >= Len(p) /\ Needed(q, f)
<1> DEFINE D == {i \in 1..Len(f) : i > Len(g) \/ f[i] # g[i]}
<1>1. /\ nodes \subseteq Seq(Level) /\ f \in Seq(Level) /\ g \in Seq(Level) /\ g \in nodes
      /\ p \in Seq(Level)
      /\ Len(f) \in Nat /\ Len(g) \in Nat /\ Len(p) \in Nat
      /\ Len(p) <= Len(f) /\ Len(p) <= Len(g)
      /\ \A i \in 1..Len(p) : p[i] = f[i] /\ p[i] = g[i]
  BY TrieSequences, PrefixIs, LenProperties
<1>2. ASSUME NEW q \in Prefixes(f), NEW c \in Prefixes(g), q \in Prefixes(c),
             Len(c) = Len(q) + 1, c \notin Prefixes(f)
      PROVE  Needed(q, f)
  <2>1. c \in nodes /\ q \in Seq(Level)
    BY <1>1, PrefixIs, TrieClosed
  <2>2. c \in Children(q)
    BY <1>1, <1>2, <2>1, ChildIs
  <2> QED  BY <1>2, <2>2 DEF Needed
<1>3. CASE D = {}
  <2>1. \A i \in 1..Len(f) : i <= Len(g) /\ f[i] = g[i]
    BY <1>1, <1>3
  <2>2. Len(f) <= Len(g)
    BY <1>1, <2>1
  <2>3. f \in Prefixes(g) /\ f \in Prefixes(f)
    BY <1>1, <2>1, <2>2, PrefixIs
  <2>4. Len(f) < Len(g)
    BY <1>1, <2>1, <2>2, SeqEqual
  <2>5. PICK c \in Prefixes(g) : Len(c) = Len(f) + 1
    <3>1. Len(f) + 1 \in 0..Len(g)
      BY <1>1, <2>4
    <3> QED  BY <1>1, <3>1, PrefixOfLength
  <2>6. f \in Prefixes(c) /\ c \notin Prefixes(f)
    BY <1>1, <2>3, <2>5, ShorterPrefix, PrefixIs
  <2> QED  BY <1>1, <1>2, <2>3, <2>5, <2>6
<1>4. CASE D # {}
  <2>1. PICK n \in D : \A i \in D : n <= i
    <3>1. D \subseteq Nat
      OBVIOUS
    <3> HIDE DEF D
    <3> QED  BY <1>4, <3>1, Least
  <2>2. n \in 1..Len(f) /\ (n > Len(g) \/ f[n] # g[n])
    OBVIOUS
  <2>3. \A i \in 1..(n - 1) : i <= Len(g) /\ f[i] = g[i]
    BY <1>1, <2>1, <2>2
  <2>4. Len(p) < n /\ n - 1 <= Len(g)
    BY <1>1, <2>2, <2>3, SMTT(30)
  <2>5. PICK q \in Prefixes(f) : Len(q) = n - 1
    <3>1. n - 1 \in 0..Len(f)
      BY <1>1, <2>2
    <3> QED  BY <1>1, <3>1, PrefixOfLength
  <2>6. q \in Seq(Level) /\ \A i \in 1..(n - 1) : q[i] = f[i]
    BY <1>1, <2>5, PrefixIs
  <2>7. q \in Prefixes(g)
    BY <1>1, <2>3, <2>4, <2>5, <2>6, PrefixIs
  <2>8. CASE n > Len(g)
    <3>1. q = g
      BY <1>1, <2>3, <2>4, <2>5, <2>6, <2>8, SeqEqual
    <3> QED  BY <1>1, <2>4, <2>5, <3>1 DEF Needed
  <2>9. CASE n <= Len(g)
    <3>1. PICK c \in Prefixes(g) : Len(c) = n
      BY <1>1, <2>2, <2>9, PrefixOfLength
    <3>2. c \in Seq(Level) /\ c[n] = g[n]
      BY <1>1, <2>2, <3>1, PrefixIs
    <3>3. c \notin Prefixes(f)
      <4>1. f[n] # g[n] /\ n \in 1..Len(c)
        BY <1>1, <2>2, <2>9, <3>1
      <4>2. c \in Prefixes(f) => c[n] = f[n]
        BY <1>1, <4>1, PrefixIs
      <4> QED  BY <3>2, <4>1, <4>2
    <3>4. q \in Prefixes(c)
      BY <1>1, <2>2, <2>5, <2>7, <3>1, ShorterPrefix
    <3> QED  BY <1>1, <1>2, <2>2, <2>4, <2>5, <3>1, <3>3, <3>4
  <2> QED  BY <1>1, <2>2, <2>8, <2>9
<1> QED  BY <1>3, <1>4

(* What __delitem__ takes out: the part of f that no other filter needs.    *)
LEMMA PrunedIs ==
    ASSUME NEW F, F \subseteq Filters, nodes = Trie(F), DOMAIN content = F,
           NEW f \in nodes, NEW p \in Prefixes(f) \ {Root}
    PROVE  p \in Pruned(f) <=> \A g \in F \ {f} : p \notin Prefixes(g)
<1>1. F \subseteq Seq(Level) /\ nodes \subseteq Seq(Level) /\ f \in Seq(Level) /\ p \in Seq(Level)
  BY TrieSequences, PrefixIs
<1>2. ASSUME p \in Pruned(f), NEW g \in F \ {f}, p \in Prefixes(g)
      PROVE  FALSE
  BY <1>2, Parting DEF Pruned
<1>3. ASSUME \A g \in F \ {f} : p \notin Prefixes(g),
             NEW q \in Prefixes(f), Len(q) >= Len(p), Needed(q, f)
      PROVE  FALSE
  <2>1. q \in Seq(Level) /\ p \in Prefixes(q)
    <3>1. q \in Seq(Level)
      BY <1>1, PrefixIs
    <3>2. Len(p) <= Len(q)
      BY <1>1, <1>3, <3>1, LenProperties
    <3> QED  BY <1>1, <3>1, <3>2, ShorterPrefix
  <2>2. ASSUME NEW c \in Children(q), c \notin Prefixes(f)
        PROVE  FALSE
    <3>1. c \in nodes /\ c \in Seq(Level) /\ q \in Prefixes(c)
      BY <1>1, <2>1, ChildIs DEF Children
    <3>2. c # Root
      BY <1>1, <2>2, OwnPrefix
    <3>3. PICK g \in F : c \in Prefixes(g)
      BY <3>1, <3>2 DEF Trie
    <3>4. p \in Prefixes(g)
      BY <1>1, <2>1, <3>1, <3>3, PrefixOfPrefix
    <3> QED  BY <1>3, <2>2, <3>3, <3>4
  <2>3. CASE q # f /\ q \in F
    BY <1>3, <2>1, <2>3
  <2> QED  BY <1>3, <2>2, <2>3 DEF Needed
<1> QED  BY <1>2, <1>3 DEF Pruned

(* message_callback_remove leaves the trie of the other filters.            *)
LEMMA DeletedFits ==
    ASSUME NEW F, F \subseteq Filters, nodes = Trie(F), DOMAIN content = F,
           NEW f \in Filters, f \in nodes, DelItem(f)
    PROVE  nodes' = Trie(F \ {f}) /\ content' = Without(f, content)
<1>1. /\ F \subseteq Seq(Level) /\ nodes \subseteq Seq(Level) /\ F \subseteq nodes
      /\ f \in Seq(Level) /\ f \in Prefixes(f) /\ f # Root
  BY TrieSequences, OwnPrefix, MatcherAssumption DEF MatcherAssumption, Root
<1>2. \A p \in Pruned(f) : p \in Prefixes(f) \ {Root}
  BY DEF Pruned
<1>3. nodes' = nodes \ Pruned(f)
  BY DEF DelItem
<1>4. content' = [p \in DOMAIN content \ (Pruned(f) \cup {f}) |-> content[p]]
  BY DEF DelItem
<1>5. Pruned(f) \cap F \subseteq {f}
  <2>1. ASSUME NEW p \in Pruned(f), p \in F, p # f
        PROVE  FALSE
    <3>1. p \in Prefixes(p)
      BY <1>1, <2>1, OwnPrefix
    <3> QED  BY <1>2, <2>1, <3>1, PrunedIs
  <2> QED  BY <2>1
<1>6. content' = Without(f, content)
  BY <1>4, <1>5 DEF Without
<1>7. ASSUME NEW p \in nodes \ Pruned(f)
      PROVE  p \in Trie(F \ {f})
  <2>1. CASE p = Root
    BY <2>1 DEF Trie
  <2>2. CASE p # Root /\ p \in Prefixes(f)
    BY <1>7, <2>2, PrunedIs DEF Trie
  <2>3. CASE p # Root /\ p \notin Prefixes(f)
    BY <1>7, <2>3 DEF Trie
  <2> QED  BY <2>1, <2>2, <2>3
<1>8. ASSUME NEW p \in Trie(F \ {f})
      PROVE  p \in nodes \ Pruned(f)
  <2>1. p \in nodes
    BY DEF Trie
  <2>2. CASE p = Root
    BY <1>2, <2>1, <2>2
  <2>3. ASSUME NEW g \in F \ {f}, p \in Prefixes(g)
        PROVE  p \notin Pruned(f)
    BY <1>2, <2>3, PrunedIs
  <2> QED  BY <2>1, <2>2, <2>3 DEF Trie
<1> QED  BY <1>3, <1>6, <1>7, <1>8

-----------------------------------------------------------------------------
(* A new matcher is the root of an empty dictionary.                        *)
LEMMA MatchInit == Init => MatchInv
<1> SUFFICES ASSUME Init PROVE MatchInv  OBVIOUS
<1>1. DOMAIN <<>> = {} /\ <<>> = [f \in {} |-> <<>>[f]]
  OBVIOUS
<1> QED  BY <1>1 DEF Init, MatchInv, TrieShape, TypeOK

(* Adding, removing and handling messages keep the trie and the dictionary  *)
(* together.                                                                *)
LEMMA MatchNext == MatchInv /\ [Next]_vars => MatchInv'
<1> SUFFICES ASSUME MatchInv, [Next]_vars PROVE MatchInv'
  OBVIOUS
<1>1. /\ DOMAIN wanted \subseteq Filters /\ DOMAIN content = DOMAIN wanted
      /\ content = wanted
      /\ nodes = Trie(DOMAIN wanted)
  BY DEF MatchInv, TrieShape, TypeOK, Trie
<1> DEFINE Fits == /\ content' = wanted'
                   /\ wanted' = [f \in DOMAIN wanted' |-> wanted'[f]]
                   /\ DOMAIN wanted' \subseteq Filters
                   /\ nodes' = Trie(DOMAIN wanted')
                   /\ topic' \in Topics \cup {<<>>}
<1>2. SUFFICES Fits
  <2>1. ASSUME nodes' = Trie(DOMAIN wanted'), DOMAIN wanted' \subseteq Filters
        PROVE  nodes' \subseteq {Root} \cup UNION {Prefixes(f) : f \in Filters}
    BY <2>1 DEF Trie
  <2>2. ASSUME nodes' = Trie(DOMAIN wanted'), DOMAIN wanted' \subseteq Filters
        PROVE  DOMAIN wanted' \subseteq nodes'
    BY <2>2, TrieSequences
  <2> QED  BY <1>2, <2>1, <2>2 DEF MatchInv, TrieShape, TypeOK, Trie
<1>3. topic \in Topics \cup {<<>>}
  BY DEF MatchInv, TrieShape, TypeOK
<1>4. ASSUME NEW f \in Filters, NEW c \in Callbacks, MessageCallbackAdd(f, c)
      PROVE  Fits
  <2>1. wanted' = With(f, c, wanted) /\ content' = With(f, c, content)
    BY <1>4 DEF MessageCallbackAdd, SetItem
  <2>2. DOMAIN wanted' = DOMAIN wanted \cup {f}
    BY <2>1 DEF With
  <2>3. nodes' = Trie(DOMAIN wanted) \cup Prefixes(f)
    BY <1>1, <1>4 DEF MessageCallbackAdd, SetItem
  <2>4. nodes' = Trie(DOMAIN wanted')
    BY <2>2, <2>3 DEF Trie
  <2> QED  BY <1>1, <1>3, <1>4, <2>1, <2>2, <2>4 DEF MessageCallbackAdd, With
<1>5. ASSUME NEW f \in Filters, MessageCallbackRemove(f)
      PROVE  Fits
  <2>1. wanted' = Without(f, wanted) /\ DOMAIN wanted' = DOMAIN wanted \ {f}
    BY <1>5 DEF MessageCallbackRemove, Without
  <2>2. CASE f \in nodes
    <3>1. nodes' = Trie(DOMAIN wanted \ {f}) /\ content' = Without(f, content)
      BY <1>1, <1>5, <2>2, DeletedFits DEF MessageCallbackRemove
    <3> QED  BY <1>1, <1>3, <1>5, <2>1, <3>1 DEF MessageCallbackRemove, Without
  <2>3. CASE f \notin nodes
    <3>1. f \notin DOMAIN wanted
      BY <1>1, <2>3, TrieSequences
    <3>2. wanted' = wanted
      BY <2>1, <3>1 DEF Without, MatchInv
    <3> QED
      BY <1>1, <1>3, <1>5, <2>3, <3>2 DEF MessageCallbackRemove, DelItem, MatchInv
  <2> QED  BY <2>2, <2>3
<1>6. ASSUME NEW t \in Topics, HandleOnMessage(t)
      PROVE  Fits
  BY <1>1, <1>6 DEF HandleOnMessage, MatchInv
<1>7. CASE CallbackReturns \/ CallbackRaises \/ UNCHANGED vars
  BY <1>1, <1>3, <1>7 DEF CallbackReturns, CallbackRaises, vars, MatchInv
<1> QED  BY <1>4, <1>5, <1>6, <1>7 DEF Next

(* However callbacks are added and removed, in whatever order and while     *)
(* messages are handled, the trie of MQTTMatcher holds exactly the filters  *)
(* and callbacks that message_callback_add and message_callback_remove were *)
(* asked for, and no branch that leads to none of them.                     *)
THEOREM TrieIsDictionary == Spec => []TrieShape
<1>1. MatchInv => TrieShape
  BY DEF MatchInv
<1> QED  BY MatchInit, MatchNext, <1>1, PTL DEF Spec

-----------------------------------------------------------------------------
(* The walk of iter_match.  Its parts, as functions of what the walk gives  *)
(* for the deeper nodes:                                                    *)
Child(rec, p, level) == IF Append(p, level) \in nodes THEN rec[Append(p, level)] ELSE <<>>
Last(t, p) == IF Wild(t, Len(p)) THEN Value(Append(p, "#")) ELSE <<>>
Own(t, rec, p) ==
    IF Len(p) = Len(t)
    THEN Value(p)
    ELSE IF Len(p) < Len(t)
    THEN Child(rec, p, t[Len(p) + 1]) \o (IF Wild(t, Len(p)) THEN Child(rec, p, "+") ELSE <<>>)
    ELSE <<>>
Body(t, rec, p) == Own(t, rec, p) \o Last(t, p)

(* the walk itself                                                          *)
Walk(t) == CHOOSE rec : rec = [p \in nodes |-> Body(t, rec, p)]

(* iter_match begins at the root.                                           *)
LEMMA IterMatchIs ==
    ASSUME NEW t
    PROVE  IterMatch(t) = Walk(t)[Root]
BY DEF IterMatch, Walk, Body, Own, Last, Child

(* A step of the walk asks only for the nodes one level deeper.             *)
LEMMA BodyDepends ==
    ASSUME NEW t, Len(t) \in Nat, NEW p \in Seq(Level), NEW g, NEW h,
           \A x : Append(p, x) \in nodes /\ Len(p) < Len(t) => g[Append(p, x)] = h[Append(p, x)]
    PROVE  Body(t, g, p) = Body(t, h, p)
<1>1. Len(p) \in Nat
  BY LenProperties
<1>2. ASSUME NEW x, Len(p) < Len(t)
      PROVE  Child(g, p, x) = Child(h, p, x)
  BY <1>2 DEF Child
<1>3. CASE Len(p) < Len(t)
  <2>1. Child(g, p, t[Len(p) + 1]) = Child(h, p, t[Len(p) + 1]) /\ Child(g, p, "+") = Child(h, p, "+")
    BY <1>2, <1>3
  <2>2. Own(t, g, p) = Own(t, h, p)
    BY <1>1, <1>3, <2>1 DEF Own
  <2> QED  BY <2>2 DEF Body
<1>4. CASE ~(Len(p) < Len(t))
  BY <1>1, <1>4 DEF Body, Own
<1> QED  BY <1>3, <1>4

(* Beyond a depth k the walk exists, whatever nodes there are: the deepest  *)
(* ones ask for nothing, and every other only for deeper ones.              *)
LEMMA WalkExists ==
    ASSUME NEW t, Len(t) \in Nat, nodes \subseteq Seq(Level)
    PROVE  \E g : g = [p \in nodes |-> Body(t, g, p)]
<1> DEFINE D(n) == {p \in nodes : Len(p) + n >= Len(t)}
           W(n) == \E g : g = [p \in D(n) |-> Body(t, g, p)]
           S == {n \in 0..Len(t) : ~W(n)}
<1>1. \A p \in nodes : Len(p) \in Nat
  BY LenProperties
<1>2. ASSUME NEW n \in S, \A m \in S : n <= m
      PROVE  FALSE
  <2>1. PICK g : n > 0 => g = [p \in D(n - 1) |-> Body(t, g, p)]
    <3>1. CASE n > 0
      <4>1. n - 1 \in 0..Len(t) /\ ~(n <= n - 1)
        BY <3>1
      <4>2. n - 1 \notin S
        <5> HIDE DEF S
        <5> QED  BY <1>2, <4>1
      <4>3. W(n - 1)
        <5> HIDE DEF W
        <5> QED  BY <4>1, <4>2
      <4> QED  BY <4>3
    <3> QED  BY <3>1
  <2> DEFINE g2 == [p \in D(n) |-> IF n > 0 /\ Len(p) + n > Len(t) THEN g[p] ELSE Body(t, g, p)]
  <2>2. ASSUME NEW p \in D(n)
        PROVE  g2[p] = Body(t, g2, p)
    <3>1. p \in nodes /\ p \in Seq(Level) /\ Len(p) \in Nat /\ n \in Nat
      BY <1>1
    <3>2. ASSUME NEW x, Append(p, x) \in nodes, Len(p) < Len(t)
          PROVE  g[Append(p, x)] = g2[Append(p, x)]
      <4>1. Len(Append(p, x)) = Len(p) + 1
        <5>1. p \in Seq(Level \cup {x})
          BY <3>1, SeqMonotonic
        <5> QED  BY <5>1, AppendProperties
      <4>2. n > 0
        BY <3>1, <3>2
      <4>3. Append(p, x) \in D(n) /\ Len(Append(p, x)) + n > Len(t)
        BY <3>1, <3>2, <4>1
      <4> QED  BY <4>2, <4>3
    <3>3. Body(t, g, p) = Body(t, g2, p)
      <4> HIDE DEF g2
      <4> QED  BY <3>1, <3>2, BodyDepends
    <3>4. CASE n > 0 /\ Len(p) + n > Len(t)
      <4>1. p \in D(n - 1)
        BY <3>1, <3>4
      <4>2. g[p] = Body(t, g, p)
        <5> HIDE DEF D
        <5> QED  BY <2>1, <3>4, <4>1
      <4>3. g2[p] = g[p]
        BY <3>4
      <4> QED  BY <3>3, <4>2, <4>3
    <3>5. CASE ~(n > 0 /\ Len(p) + n > Len(t))
      BY <3>3, <3>5
    <3> QED  BY <3>4, <3>5
  <2>3. g2 = [p \in D(n) |-> Body(t, g2, p)]
    <3>1. g2 = [p \in D(n) |-> g2[p]]
      OBVIOUS
    <3> HIDE DEF g2, D
    <3> QED  BY <2>2, <3>1
  <2>4. W(n)
    <3> HIDE DEF g2, D
    <3> QED  BY <2>3
  <2> QED  BY <2>4
<1>3. S = {}
  <2>1. S \subseteq Nat
    OBVIOUS
  <2> HIDE DEF S
  <2> QED  BY <1>2, <2>1, Least
<1>4. W(Len(t))
  <2> HIDE DEF W
  <2> QED  BY <1>3
<1>5. D(Len(t)) = nodes
  BY <1>1
<1> HIDE DEF D
<1> QED  BY <1>4, <1>5

(* So every node of the walk is what its step makes of the deeper ones.     *)
LEMMA WalkStep ==
    ASSUME NEW t, Len(t) \in Nat, nodes \subseteq Seq(Level), NEW p \in nodes
    PROVE  Walk(t)[p] = Body(t, Walk(t), p)
<1>1. \E g : g = [q \in nodes |-> Body(t, g, q)]
  BY WalkExists
<1>2. Walk(t) = [q \in nodes |-> Body(t, Walk(t), q)]
  BY <1>1 DEF Walk
<1> QED  BY <1>2

-----------------------------------------------------------------------------
(* Counting.                                                                *)
Hits(s, C) == {k \in 1..Len(s) : s[k] \in C}
Count(s, C) == Cardinality(Hits(s, C))

(* Where a sequence has elements of C is a finite set.                      *)
LEMMA HitsFinite ==
    ASSUME NEW T, NEW s \in Seq(T), NEW C
    PROVE  IsFiniteSet(Hits(s, C)) /\ Count(s, C) \in Nat
<1>1. Len(s) \in Nat
  BY LenProperties
<1>2. IsFiniteSet(1..Len(s)) /\ Hits(s, C) \in SUBSET (1..Len(s))
  BY <1>1, FS_Interval DEF Hits
<1> QED  BY <1>2, FS_Subset, FS_CardinalityType DEF Count

(* One after the other, two sequences have what each has.                   *)
LEMMA CountConcat ==
    ASSUME NEW T, NEW s1 \in Seq(T), NEW s2 \in Seq(T), NEW C
    PROVE  Count(s1 \o s2, C) = Count(s1, C) + Count(s2, C)
<1> DEFINE n == Len(s1)
           Moved == {k + n : k \in Hits(s2, C)}
           F == [k \in Hits(s2, C) |-> k + n]
<1>1. /\ n \in Nat /\ Len(s2) \in Nat
      /\ Len(s1 \o s2) = n + Len(s2)
      /\ \A i \in 1..(n + Len(s2)) :
            (s1 \o s2)[i] = IF i <= n THEN s1[i] ELSE s2[i - n]
  BY LenProperties, ConcatProperties
<1>2. Hits(s2, C) \subseteq Nat
  BY <1>1 DEF Hits
<1>3. F \in Bijection(Hits(s2, C), Moved)
  <2>1. F \in [Hits(s2, C) -> Moved]
    OBVIOUS
  <2>2. \A a, b \in Hits(s2, C) : F[a] = F[b] => a = b
    BY <1>1, <1>2
  <2>3. \A y \in Moved : \E k \in Hits(s2, C) : F[k] = y
    OBVIOUS
  <2> HIDE DEF F, Moved
  <2> QED  BY <2>1, <2>2, <2>3, Fun_IsBij DEF Injection, Surjection
<1>4. ExistsBijection(Hits(s2, C), Moved)
  <2> HIDE DEF F, Moved
  <2> QED  BY <1>3 DEF ExistsBijection
<1>5. IsFiniteSet(Moved) /\ Cardinality(Moved) = Count(s2, C)
  BY <1>4, HitsFinite, FS_Bijection DEF Count
<1>6. Hits(s1 \o s2, C) = Hits(s1, C) \cup Moved
  <2>1. ASSUME NEW k \in Hits(s1 \o s2, C) PROVE k \in Hits(s1, C) \cup Moved
    <3>1. k \in 1..(n + Len(s2)) /\ (s1 \o s2)[k] \in C
      BY <1>1 DEF Hits
    <3>2. CASE k <= n
      BY <1>1, <3>1, <3>2 DEF Hits
    <3>3. CASE k > n
      <4>1. k - n \in Hits(s2, C)
        BY <1>1, <3>1, <3>3 DEF Hits
      <4>2. k = (k - n) + n
        BY <1>1, <3>1
      <4> QED  BY <4>1, <4>2
    <3> QED  BY <1>1, <3>1, <3>2, <3>3
  <2>2. ASSUME NEW k \in Hits(s1, C) PROVE k \in Hits(s1 \o s2, C)
    BY <1>1 DEF Hits
  <2>3. ASSUME NEW k \in Hits(s2, C) PROVE k + n \in Hits(s1 \o s2, C)
    <3>1. k \in 1..Len(s2) /\ s2[k] \in C
      BY DEF Hits
    <3>2. k + n \in 1..(n + Len(s2)) /\ ~(k + n <= n) /\ (k + n) - n = k
      BY <1>1, <3>1
    <3> QED  BY <1>1, <3>1, <3>2 DEF Hits
  <2> QED  BY <2>1, <2>2, <2>3
<1>7. Hits(s1, C) \cap Moved = {}
  BY <1>1 DEF Hits
<1>8. IsFiniteSet(Hits(s1, C)) /\ Count(s1, C) \in Nat /\ Count(s2, C) \in Nat
  BY HitsFinite
<1>9. Cardinality(Hits(s1, C) \cup Moved) = Cardinality(Hits(s1, C)) + Cardinality(Moved) - Cardinality({})
  <2> HIDE DEF Moved
  <2> QED  BY <1>5, <1>7, <1>8, FS_Union
<1> HIDE DEF Moved
<1> QED  BY <1>5, <1>6, <1>8, <1>9, FS_EmptySet DEF Count

(* Nothing, and one element.                                                *)
LEMMA CountOne ==
    ASSUME NEW x, NEW C
    PROVE  Count(<<>>, C) = 0 /\ Count(<<x>>, C) = IF x \in C THEN 1 ELSE 0
<1>1. Hits(<<>>, C) = {}
  BY DEF Hits
<1>2. Hits(<<x>>, C) = IF x \in C THEN {1} ELSE {}
  BY DEF Hits
<1> QED  BY <1>1, <1>2, FS_EmptySet, FS_Singleton DEF Count

-----------------------------------------------------------------------------
(* What is below a node.                                                    *)

(* A filter matches a topic behind the first i levels.                      *)
MatchesFrom(f, t, i) ==
    /\ \/ Len(f) = Len(t) /\ \A j \in (i + 1)..Len(t) : f[j] \in {"+", t[j]}
       \/ /\ Len(f) > i /\ f[Len(f)] = "#" /\ Len(f) - 1 <= Len(t)
          /\ \A j \in (i + 1)..(Len(f) - 1) : f[j] \in {"+", t[j]}
    /\ t[1] \in Reserved /\ i = 0 => f[1] \notin {"+", "#"}

Below(t, p) == {f \in DOMAIN wanted : p \in Prefixes(f) /\ MatchesFrom(f, t, Len(p))}
Only(p) == {p} \cap DOMAIN wanted

(* One level more.                                                          *)
LEMMA OneMore ==
    ASSUME NEW p \in Seq(Level), NEW x
    PROVE  /\ Len(Append(p, x)) = Len(p) + 1
           /\ \A i \in 1..Len(p) : Append(p, x)[i] = p[i]
           /\ Append(p, x)[Len(p) + 1] = x
           /\ x \in Level => Append(p, x) \in Seq(Level)
<1>1. p \in Seq(Level \cup {x})
  BY SeqMonotonic
<1>2. x \in Level \cup {x}
  OBVIOUS
<1> QED  BY <1>1, <1>2, AppendProperties

(* A node with one level more lies on the way to a filter that goes on with *)
(* that level.                                                              *)
LEMMA Extended ==
    ASSUME NEW f \in Seq(Level), NEW p \in Seq(Level), NEW x
    PROVE  Append(p, x) \in Prefixes(f) <=> /\ p \in Prefixes(f)
                                            /\ Len(p) < Len(f)
                                            /\ f[Len(p) + 1] = x
<1> DEFINE a == Append(p, x)
<1>1. /\ Len(p) \in Nat /\ Len(f) \in Nat /\ Len(a) = Len(p) + 1
      /\ \A i \in 1..Len(p) : a[i] = p[i]
      /\ a[Len(p) + 1] = x
  BY OneMore, LenProperties
<1>2. ASSUME a \in Prefixes(f)
      PROVE  p \in Prefixes(f) /\ Len(p) < Len(f) /\ f[Len(p) + 1] = x
  <2>1. Len(a) <= Len(f) /\ \A i \in 1..Len(a) : a[i] = f[i]
    BY <1>2, PrefixIs
  <2> HIDE DEF a
  <2>2. \A i \in 1..Len(p) : p[i] = f[i]
    BY <1>1, <2>1
  <2>3. Len(p) < Len(f) /\ f[Len(p) + 1] = x
    BY <1>1, <2>1
  <2> QED  BY <1>1, <2>2, <2>3, PrefixIs
<1>3. ASSUME p \in Prefixes(f), Len(p) < Len(f), f[Len(p) + 1] = x
      PROVE  a \in Prefixes(f)
  <2>1. Len(p) + 1 \in 1..Len(f)
    BY <1>1, <1>3
  <2>2. x \in Level
    BY <1>3, <2>1, ElementOfSeq
  <2>3. a \in Seq(Level)
    BY <2>2, OneMore
  <2>4. \A i \in 1..Len(p) : p[i] = f[i]
    BY <1>3, PrefixIs
  <2> HIDE DEF a
  <2>5. \A i \in 1..Len(a) : a[i] = f[i]
    BY <1>1, <1>3, <2>4
  <2> QED  BY <1>1, <1>3, <2>3, <2>5, PrefixIs
<1> QED  BY <1>2, <1>3

(* A topic has levels, and none is a wildcard.                              *)
LEMMA TopicIs ==
    ASSUME NEW t \in Topics
    PROVE  /\ t \in Seq(Level) /\ Len(t) \in Nat \ {0}
           /\ \A i \in 1..Len(t) : t[i] \notin {"+", "#"}
BY MatcherAssumption, EmptySeq, LenProperties DEF MatcherAssumption

(* The filters below a node above the last level of the topic.              *)
LEMMA BelowInner ==
    ASSUME DOMAIN wanted \subseteq Filters, NEW t \in Topics,
           NEW p \in Seq(Level), Len(p) < Len(t)
    PROVE  Below(t, p) = Below(t, Append(p, t[Len(p) + 1]))
                         \cup (IF Wild(t, Len(p))
                               THEN Below(t, Append(p, "+")) \cup Only(Append(p, "#"))
                               ELSE {})
<1> DEFINE i == Len(p)
<1>1. /\ i \in Nat /\ Len(t) \in Nat \ {0} /\ t[i + 1] \notin {"+", "#"}
      /\ t[1] \notin {"+", "#"}
  BY TopicIs, LenProperties
<1>2. \A f \in DOMAIN wanted : f \in Seq(Level) /\ Len(f) \in Nat /\ f # <<>> /\ Len(f) > 0
  <2>1. \A f \in DOMAIN wanted : f \in Seq(Level) /\ f # <<>>
    BY MatcherAssumption DEF MatcherAssumption
  <2> QED  BY <2>1, EmptySeq, LenProperties
<1>3. ASSUME NEW f \in DOMAIN wanted, p \in Prefixes(f), Len(f) > i, NEW x, f[i + 1] = x
      PROVE  Append(p, x) \in Prefixes(f) /\ Len(Append(p, x)) = i + 1
  BY <1>2, <1>3, Extended, OneMore
<1>4. ASSUME NEW x, NEW f \in Below(t, Append(p, x))
      PROVE  /\ f \in DOMAIN wanted /\ p \in Prefixes(f) /\ Len(f) > i /\ f[i + 1] = x
             /\ MatchesFrom(f, t, i + 1)
  BY <1>1, <1>2, Extended, OneMore DEF Below
<1>5. ASSUME NEW f \in Below(t, p)
      PROVE  \/ f \in Below(t, Append(p, t[i + 1]))
             \/ Wild(t, i) /\ f \in Below(t, Append(p, "+")) \cup Only(Append(p, "#"))
  <2>1. f \in DOMAIN wanted /\ p \in Prefixes(f) /\ MatchesFrom(f, t, i)
    BY DEF Below
  <2>2. Len(f) > i /\ Len(f) \in Nat
    BY <1>1, <1>2, <2>1 DEF MatchesFrom
  <2>3. CASE f[i + 1] = "#" /\ Len(f) = i + 1
    <3>1. Append(p, "#") = f
      <4>1. Append(p, "#") \in Prefixes(f) /\ Len(Append(p, "#")) = Len(f)
        BY <1>1, <1>3, <2>1, <2>2, <2>3
      <4> QED  BY <1>2, <2>1, <4>1, PrefixIs, SeqEqual
    <3>2. Wild(t, i)
      BY <1>1, <2>1, <2>3 DEF MatchesFrom, Wild
    <3> QED  BY <2>1, <3>1, <3>2 DEF Only
  <2>4. CASE ~(f[i + 1] = "#" /\ Len(f) = i + 1)
    <3>1. f[i + 1] \in {"+", t[i + 1]} /\ MatchesFrom(f, t, i + 1)
      BY <1>1, <2>1, <2>2, <2>4 DEF MatchesFrom
    <3>2. f \in Below(t, Append(p, f[i + 1]))
      BY <1>3, <2>1, <2>2, <3>1 DEF Below
    <3>3. f[i + 1] = "+" => Wild(t, i)
      BY <1>1, <2>1 DEF MatchesFrom, Wild
    <3> QED  BY <3>1, <3>2, <3>3
  <2> QED  BY <2>3, <2>4
<1>6. ASSUME NEW f \in Below(t, Append(p, t[i + 1]))
      PROVE  f \in Below(t, p)
  <2>1. /\ f \in DOMAIN wanted /\ p \in Prefixes(f) /\ Len(f) > i /\ f[i + 1] = t[i + 1]
        /\ MatchesFrom(f, t, i + 1) /\ Len(f) \in Nat
    BY <1>2, <1>4
  <2>2. MatchesFrom(f, t, i)
    BY <1>1, <2>1 DEF MatchesFrom
  <2> QED  BY <2>1, <2>2 DEF Below
<1>7. ASSUME NEW f \in Below(t, Append(p, "+")), Wild(t, i)
      PROVE  f \in Below(t, p)
  <2>1. /\ f \in DOMAIN wanted /\ p \in Prefixes(f) /\ Len(f) > i /\ f[i + 1] = "+"
        /\ MatchesFrom(f, t, i + 1) /\ Len(f) \in Nat
    BY <1>2, <1>4
  <2>2. MatchesFrom(f, t, i)
    BY <1>1, <1>7, <2>1 DEF MatchesFrom, Wild
  <2> QED  BY <2>1, <2>2 DEF Below
<1>8. ASSUME NEW f \in Only(Append(p, "#")), Wild(t, i)
      PROVE  f \in Below(t, p)
  <2>1. f = Append(p, "#") /\ f \in DOMAIN wanted /\ Len(f) = i + 1 /\ f[i + 1] = "#"
    BY OneMore DEF Only
  <2>2. p \in Prefixes(f)
    BY <1>2, <2>1, OwnPrefix, Extended
  <2>3. MatchesFrom(f, t, i)
    BY <1>1, <1>8, <2>1 DEF MatchesFrom, Wild
  <2> QED  BY <2>1, <2>2, <2>3 DEF Below
<1> QED  BY <1>5, <1>6, <1>7, <1>8

(* The filters below a node at the last level.                              *)
LEMMA BelowLast ==
    ASSUME DOMAIN wanted \subseteq Filters, NEW t \in Topics,
           NEW p \in Seq(Level), Len(p) = Len(t)
    PROVE  Wild(t, Len(p)) /\ Below(t, p) = Only(p) \cup Only(Append(p, "#"))
<1> DEFINE i == Len(p)
<1>1. i \in Nat /\ i > 0 /\ Len(t) = i
  BY TopicIs
<1>2. \A f \in DOMAIN wanted : f \in Seq(Level) /\ Len(f) \in Nat
  <2>1. \A f \in DOMAIN wanted : f \in Seq(Level)
    BY MatcherAssumption DEF MatcherAssumption
  <2> QED  BY <2>1, LenProperties
<1>3. ASSUME NEW f \in Below(t, p)
      PROVE  f \in Only(p) \cup Only(Append(p, "#"))
  <2>1. f \in DOMAIN wanted /\ p \in Prefixes(f) /\ MatchesFrom(f, t, i)
    BY DEF Below
  <2>2. CASE Len(f) = i
    <3>1. f = p
      BY <1>2, <2>1, <2>2, PrefixIs, SeqEqual
    <3> QED  BY <2>1, <3>1 DEF Only
  <2>3. CASE Len(f) # i
    <3>1. Len(f) = i + 1 /\ f[i + 1] = "#"
      BY <1>1, <1>2, <2>1, <2>3 DEF MatchesFrom
    <3>2. Append(p, "#") \in Prefixes(f) /\ Len(Append(p, "#")) = i + 1
      BY <1>1, <1>2, <2>1, <3>1, Extended, OneMore
    <3>3. Append(p, "#") = f
      BY <1>2, <2>1, <3>1, <3>2, PrefixIs, SeqEqual
    <3> QED  BY <2>1, <3>3 DEF Only
  <2> QED  BY <2>2, <2>3
<1>4. ASSUME NEW f \in Only(p)
      PROVE  f \in Below(t, p)
  <2>1. f = p /\ f \in DOMAIN wanted /\ p \in Prefixes(p)
    BY OwnPrefix DEF Only
  <2> QED  BY <1>1, <2>1 DEF Below, MatchesFrom
<1>5. ASSUME NEW f \in Only(Append(p, "#"))
      PROVE  f \in Below(t, p)
  <2>1. f = Append(p, "#") /\ f \in DOMAIN wanted /\ Len(f) = i + 1 /\ f[i + 1] = "#"
    BY OneMore DEF Only
  <2>2. p \in Prefixes(f)
    BY <1>2, <2>1, OwnPrefix, Extended
  <2>3. MatchesFrom(f, t, i)
    BY <1>1, <2>1 DEF MatchesFrom
  <2> QED  BY <2>1, <2>2, <2>3 DEF Below
<1>6. Wild(t, i)
  BY <1>1 DEF Wild
<1> QED  BY <1>3, <1>4, <1>5, <1>6

-----------------------------------------------------------------------------
(* What the walk finds.                                                     *)

(* The dictionary that the trie holds, as far as the walk relies on it.     *)
DictInv ==
    /\ MatchInv
    /\ IsFiniteSet(DOMAIN wanted)
    /\ \A f \in DOMAIN wanted : wanted[f] \in Callbacks

(* The sequence s has the callback of each filter of B, once per filter.    *)
Found(s, B) ==
    /\ s \in Seq(Callbacks)
    /\ \A C \in SUBSET Callbacks : Count(s, C) = Cardinality({f \in B : wanted[f] \in C})

(* Nothing below, nothing found.                                            *)
LEMMA FoundNone == Found(<<>>, {})
<1>1. \A C : {f \in {} : wanted[f] \in C} = {}
  OBVIOUS
<1>2. \A C : Count(<<>>, C) = 0
  BY CountOne
<1> QED  BY <1>1, <1>2, EmptySeq, FS_EmptySet DEF Found

(* The value of a node is the callback of the filter that ends there.       *)
LEMMA FoundValue ==
    ASSUME DictInv, NEW p
    PROVE  Found(Value(p), Only(p))
<1>1. DOMAIN content = DOMAIN wanted /\ content = wanted
  BY DEF DictInv, MatchInv, TrieShape
<1>2. CASE p \notin DOMAIN wanted
  BY <1>1, <1>2, FoundNone DEF Value, Only
<1>3. CASE p \in DOMAIN wanted
  <2>1. Value(p) = <<wanted[p]>> /\ Only(p) = {p} /\ wanted[p] \in Callbacks
    BY <1>1, <1>3 DEF Value, Only, DictInv
  <2>2. ASSUME NEW C
        PROVE  Count(Value(p), C) = Cardinality({f \in Only(p) : wanted[f] \in C})
    <3>1. Count(Value(p), C) = IF wanted[p] \in C THEN 1 ELSE 0
      BY <2>1, CountOne
    <3>2. {f \in Only(p) : wanted[f] \in C} = IF wanted[p] \in C THEN {p} ELSE {}
      BY <2>1
    <3> QED  BY <3>1, <3>2, FS_Singleton, FS_EmptySet
  <2>3. Value(p) \in Seq(Callbacks)
    BY <2>1
  <2> QED  BY <2>2, <2>3 DEF Found
<1> QED  BY <1>2, <1>3

(* Two findings side by side.                                               *)
LEMMA FoundBoth ==
    ASSUME DictInv, NEW s1, NEW s2, NEW B1 \in SUBSET DOMAIN wanted, NEW B2 \in SUBSET DOMAIN wanted,
           Found(s1, B1), Found(s2, B2), B1 \cap B2 = {}
    PROVE  Found(s1 \o s2, B1 \cup B2)
<1>1. s1 \in Seq(Callbacks) /\ s2 \in Seq(Callbacks) /\ s1 \o s2 \in Seq(Callbacks)
  BY ConcatProperties DEF Found
<1>2. ASSUME NEW C \in SUBSET Callbacks
      PROVE  Count(s1 \o s2, C) = Cardinality({f \in B1 \cup B2 : wanted[f] \in C})
  <2> DEFINE M(B) == {f \in B : wanted[f] \in C}
  <2>1. M(B1 \cup B2) = M(B1) \cup M(B2) /\ M(B1) \cap M(B2) = {}
    OBVIOUS
  <2>2. IsFiniteSet(M(B1)) /\ IsFiniteSet(M(B2))
    <3>1. M(B1) \in SUBSET DOMAIN wanted /\ M(B2) \in SUBSET DOMAIN wanted
      OBVIOUS
    <3> HIDE DEF M
    <3> QED  BY <3>1, FS_Subset DEF DictInv
  <2>3. Count(s1, C) = Cardinality(M(B1)) /\ Count(s2, C) = Cardinality(M(B2))
    BY DEF Found
  <2>4. Count(s1 \o s2, C) = Count(s1, C) + Count(s2, C)
    BY <1>1, CountConcat
  <2> HIDE DEF M
  <2>5. Cardinality(M(B1)) \in Nat /\ Cardinality(M(B2)) \in Nat
    BY <2>2, FS_CardinalityType
  <2>6. Cardinality(M(B1) \cup M(B2)) = Cardinality(M(B1)) + Cardinality(M(B2)) - Cardinality({})
    BY <2>1, <2>2, FS_Union
  <2>7. Cardinality(M(B1) \cup M(B2)) = Count(s1, C) + Count(s2, C)
    BY <2>3, <2>5, <2>6, FS_EmptySet
  <2>8. Cardinality(M(B1 \cup B2)) = Cardinality(M(B1) \cup M(B2))
    BY <2>1
  <2>9. Cardinality(M(B1 \cup B2)) = Count(s1 \o s2, C)
    BY <2>4, <2>7, <2>8
  <2> QED  BY <2>9 DEF M
<1> QED  BY <1>1, <1>2 DEF Found

(* A child that is not there has no filter below it.                        *)
LEMMA FoundChild ==
    ASSUME DictInv, NEW t, NEW rec, NEW p \in Seq(Level), NEW x,
           Append(p, x) \in nodes => Found(rec[Append(p, x)], Below(t, Append(p, x)))
    PROVE  Found(Child(rec, p, x), Below(t, Append(p, x)))
<1>1. CASE Append(p, x) \in nodes
  BY <1>1 DEF Child
<1>2. CASE Append(p, x) \notin nodes
  <2>1. \A f \in DOMAIN wanted : Append(p, x) \notin Prefixes(f)
    BY <1>2 DEF DictInv, MatchInv, TrieShape
  <2>2. Below(t, Append(p, x)) = {}
    BY <2>1 DEF Below
  <2> QED  BY <1>2, <2>2, FoundNone DEF Child
<1> QED  BY <1>1, <1>2

(* A node finds what is below it if the deeper ones do.                     *)
LEMMA NodeFinds ==
    ASSUME DictInv, NEW t \in Topics, NEW rec, NEW p \in Seq(Level), Len(p) <= Len(t),
           \A x : Append(p, x) \in nodes /\ Len(p) < Len(t)
                     => Found(rec[Append(p, x)], Below(t, Append(p, x)))
    PROVE  Found(Body(t, rec, p), Below(t, p))
<1> DEFINE i == Len(p)
<1>1. i \in Nat /\ Len(t) \in Nat /\ DOMAIN wanted \subseteq Filters
  BY LenProperties, TopicIs DEF DictInv, MatchInv, TrieShape, TypeOK
<1>2. \A q : Only(q) \in SUBSET DOMAIN wanted /\ Below(t, q) \in SUBSET DOMAIN wanted
  BY DEF Only, Below
<1>3. \A f \in DOMAIN wanted : f \in Seq(Level)
  BY <1>1, MatcherAssumption DEF MatcherAssumption
<1>4. Found(Last(t, p), IF Wild(t, i) THEN Only(Append(p, "#")) ELSE {})
  BY FoundValue, FoundNone DEF Last
<1>5. CASE i = Len(t)
  <2>1. Wild(t, i) /\ Below(t, p) = Only(p) \cup Only(Append(p, "#"))
    BY <1>1, <1>5, BelowLast
  <2>2. Only(p) \cap Only(Append(p, "#")) = {}
    <3>1. p # Append(p, "#")
      <4>1. Len(Append(p, "#")) = Len(p) + 1
        BY OneMore
      <4> QED  BY <1>1, <4>1
    <3> QED  BY <3>1 DEF Only
  <2>3. Own(t, rec, p) = Value(p) /\ Found(Value(p), Only(p))
    BY <1>5, FoundValue DEF Own
  <2>4. Found(Last(t, p), Only(Append(p, "#")))
    BY <1>4, <2>1
  <2>5. Found(Value(p) \o Last(t, p), Only(p) \cup Only(Append(p, "#")))
    BY <1>2, <2>2, <2>3, <2>4, FoundBoth
  <2> QED  BY <2>1, <2>3, <2>5 DEF Body
<1>6. CASE i < Len(t)
  <2> DEFINE a == Append(p, t[i + 1])
             b == Append(p, "+")
             h == Append(p, "#")
             Plus == IF Wild(t, i) THEN Child(rec, p, "+") ELSE <<>>
             BPlus == IF Wild(t, i) THEN Below(t, b) ELSE {}
             BRest == IF Wild(t, i) THEN Only(h) ELSE {}
  <2>1. Below(t, p) = (Below(t, a) \cup BPlus) \cup BRest
    BY <1>1, <1>6, BelowInner
  <2>2. t[i + 1] \notin {"+", "#"}
    BY <1>1, <1>6, TopicIs
  <2>3. \A f \in Below(t, a) : f[i + 1] = t[i + 1]
    BY <1>3, Extended DEF Below
  <2>4. \A f \in Below(t, b) : f[i + 1] = "+"
    BY <1>3, Extended DEF Below
  <2>5. \A f \in Only(h) : f[i + 1] = "#"
    BY OneMore DEF Only
  <2>6. Below(t, a) \cap BPlus = {} /\ (Below(t, a) \cup BPlus) \cap BRest = {}
    BY <2>2, <2>3, <2>4, <2>5
  <2>7. Found(Child(rec, p, t[i + 1]), Below(t, a)) /\ Found(Child(rec, p, "+"), Below(t, b))
    BY <1>6, FoundChild
  <2>8. Found(Plus, BPlus)
    BY <2>7, FoundNone
  <2>9. Found(Last(t, p), BRest)
    BY <1>4
  <2>10. Below(t, a) \in SUBSET DOMAIN wanted /\ BPlus \in SUBSET DOMAIN wanted
         /\ BRest \in SUBSET DOMAIN wanted
    BY <1>2
  <2>11. Own(t, rec, p) = Child(rec, p, t[i + 1]) \o Plus
    <3>1. Len(p) # Len(t) /\ Len(p) < Len(t)
      BY <1>1, <1>6
    <3> QED  BY <3>1 DEF Own
  <2> HIDE DEF a, b, h, Plus, BPlus, BRest
  <2>12. Found(Child(rec, p, t[i + 1]) \o Plus, Below(t, a) \cup BPlus)
    BY <2>6, <2>7, <2>8, <2>10, FoundBoth
  <2>13. Found(Own(t, rec, p) \o Last(t, p), (Below(t, a) \cup BPlus) \cup BRest)
    BY <2>6, <2>9, <2>10, <2>11, <2>12, FoundBoth
  <2> QED  BY <2>1, <2>13 DEF Body
<1> QED  BY <1>1, <1>5, <1>6

(* So every node does: the deepest ones first.                              *)
LEMMA WalkFinds ==
    ASSUME DictInv, NEW t \in Topics
    PROVE  \A p \in nodes : Len(p) <= Len(t) => Found(Walk(t)[p], Below(t, p))
<1>1. Len(t) \in Nat /\ nodes \subseteq Seq(Level)
  <2>1. DOMAIN wanted \subseteq Filters /\ nodes = Trie(DOMAIN wanted)
    BY DEF DictInv, MatchInv, TrieShape, TypeOK, Trie
  <2> QED  BY <2>1, TrieSequences, TopicIs
<1> DEFINE Good(p) == Found(Walk(t)[p], Below(t, p))
           S == {n \in 0..Len(t) : \E p \in nodes : Len(p) + n = Len(t) /\ ~Good(p)}
<1>2. ASSUME NEW n \in S, \A m \in S : n <= m
      PROVE  FALSE
  <2>1. PICK p \in nodes : Len(p) + n = Len(t) /\ ~Good(p)
    OBVIOUS
  <2>2. p \in Seq(Level) /\ Len(p) \in Nat /\ n \in 0..Len(t)
    BY <1>1, LenProperties
  <2>3. ASSUME NEW x, Append(p, x) \in nodes, Len(p) < Len(t)
        PROVE  Good(Append(p, x))
    <3>1. Len(Append(p, x)) = Len(p) + 1
      BY <2>2, OneMore
    <3>2. n - 1 \in 0..Len(t) /\ Len(Append(p, x)) + (n - 1) = Len(t) /\ ~(n <= n - 1)
      <4> HIDE DEF Good, S
      <4> QED  BY <1>1, <2>1, <2>2, <2>3, <3>1
    <3>3. ~Good(Append(p, x)) => n - 1 \in S
      <4> HIDE DEF Good
      <4> QED  BY <2>3, <3>2
    <3> HIDE DEF Good, S
    <3> QED  BY <1>2, <3>2, <3>3
  <2>4. Found(Body(t, Walk(t), p), Below(t, p))
    BY <1>1, <2>1, <2>2, <2>3, NodeFinds
  <2>5. Walk(t)[p] = Body(t, Walk(t), p)
    BY <1>1, WalkStep
  <2> QED  BY <2>1, <2>4, <2>5
<1>3. S = {}
  <2>1. S \subseteq Nat
    OBVIOUS
  <2> HIDE DEF S
  <2> QED  BY <1>2, <2>1, Least
<1>4. ASSUME NEW p \in nodes, Len(p) <= Len(t)
      PROVE  Good(p)
  <2>1. Len(p) \in Nat
    BY <1>1, LenProperties
  <2>2. Len(t) - Len(p) \in 0..Len(t) /\ Len(p) + (Len(t) - Len(p)) = Len(t)
    BY <1>1, <1>4, <2>1
  <2> HIDE DEF Good
  <2> QED  BY <1>3, <2>2
<1> QED  BY <1>4

(* iter_match finds the callback of each filter that matches, as MQTT       *)
(* defines it, once per filter.                                             *)
LEMMA IterMatchFinds ==
    ASSUME DictInv, NEW t \in Topics
    PROVE  Found(IterMatch(t), Plain!Matching(t))
<1>1. Root \in nodes /\ Len(Root) = 0
  BY DEF DictInv, MatchInv, TrieShape, Root
<1>2. Found(Walk(t)[Root], Below(t, Root))
  BY <1>1, TopicIs, WalkFinds
<1>3. ASSUME NEW f \in DOMAIN wanted
      PROVE  Root \in Prefixes(f) /\ (MatchesFrom(f, t, 0) <=> Plain!Matches(f, t))
  <2>1. f \in Seq(Level) /\ f # <<>>
    BY MatcherAssumption DEF MatcherAssumption, DictInv, MatchInv, TrieShape, TypeOK
  <2>2. Len(f) \in Nat /\ Len(f) > 0 /\ Len(t) \in Nat
        /\ \A j \in 1..Len(t) : t[j] \notin {"+", "#"}
    BY <2>1, EmptySeq, LenProperties, TopicIs
  <2>3. CASE f[Len(f)] = "#"
    <3>1. ~(Len(f) = Len(t) /\ \A j \in 1..Len(t) : f[j] \in {"+", t[j]})
      BY <2>2, <2>3
    <3> QED  BY <2>1, <2>2, <2>3, <3>1, OwnPrefix DEF MatchesFrom, Plain!Matches
  <2>4. CASE f[Len(f)] # "#"
    BY <2>1, <2>2, <2>4, OwnPrefix DEF MatchesFrom, Plain!Matches
  <2> QED  BY <2>3, <2>4
<1>4. Below(t, Root) = Plain!Matching(t)
  BY <1>1, <1>3 DEF Below, Plain!Matching
<1> QED  BY <1>2, <1>4, IterMatchIs

-----------------------------------------------------------------------------
(* The refinement.                                                          *)
Handlers == Callbacks \cup {OnMessage}
Calls(s) == [c \in Handlers |-> Count(s, {c})]

RegistryInv == DictInv /\ todo \in Seq(Handlers)

(* The calls a list of callbacks stands for, as the refinement states them. *)
LEMMA CallsIs ==
    ASSUME NEW s
    PROVE  [c \in Callbacks \cup {OnMessage} |-> Cardinality({k \in 1..Len(s) : s[k] = c})] = Calls(s)
<1>1. ASSUME NEW c PROVE {k \in 1..Len(s) : s[k] = c} = Hits(s, {c})
  BY DEF Hits
<1> QED  BY <1>1 DEF Calls, Count, Handlers

(* No callback, no call.                                                    *)
LEMMA CallsNone == Calls(<<>>) = Plain!NoCalls
<1>1. \A C : Count(<<>>, C) = 0
  BY CountOne
<1> QED  BY <1>1 DEF Calls, Plain!NoCalls, Plain!Handlers, Handlers

(* What _handle_on_message finds is what is due.                            *)
LEMMA CallsDue ==
    ASSUME DictInv, NEW t \in Topics
    PROVE  LET s == IF IterMatch(t) = <<>> THEN <<OnMessage>> ELSE IterMatch(t)
           IN  s \in Seq(Handlers) /\ Calls(s) = Plain!Due(t)
<1> DEFINE m == IterMatch(t)
           B == Plain!Matching(t)
<1>1. Found(m, B)
  BY IterMatchFinds
<1>2. B \subseteq DOMAIN wanted /\ IsFiniteSet(B) /\ \A f \in B : wanted[f] \in Callbacks
  <2>1. B \in SUBSET DOMAIN wanted
    BY DEF Plain!Matching
  <2> HIDE DEF B
  <2> QED  BY <2>1, FS_Subset DEF DictInv
<1> HIDE DEF m, B
<1>3. m \in Seq(Callbacks) /\ m \in Seq(Handlers) /\ Len(m) \in Nat
  <2>1. m \in Seq(Callbacks)
    BY <1>1 DEF Found
  <2> QED  BY <2>1, SeqMonotonic, LenProperties DEF Handlers
<1>4. m = <<>> <=> B = {}
  <2>1. Hits(m, Callbacks) = 1..Len(m)
    BY <1>3, ElementOfSeq DEF Hits
  <2>2. Count(m, Callbacks) = Len(m)
    BY <1>3, <2>1, FS_Interval DEF Count
  <2>3. {f \in B : wanted[f] \in Callbacks} = B
    BY <1>2
  <2>4. Len(m) = Cardinality(B)
    BY <1>1, <2>2, <2>3 DEF Found
  <2> QED  BY <1>2, <1>3, <2>4, FS_EmptySet, EmptySeq
<1>5. OnMessage \notin Callbacks
  BY MatcherAssumption DEF MatcherAssumption
<1>6. ASSUME NEW c \in Callbacks
      PROVE  Count(m, {c}) = Cardinality({f \in B : wanted[f] = c})
  <2>1. {f \in B : wanted[f] \in {c}} = {f \in B : wanted[f] = c}
    OBVIOUS
  <2>2. {c} \in SUBSET Callbacks
    OBVIOUS
  <2> QED  BY <1>1, <2>1, <2>2 DEF Found
<1>7. Count(m, {OnMessage}) = 0
  <2>1. Hits(m, {OnMessage}) = {}
    BY <1>3, <1>5, ElementOfSeq DEF Hits
  <2> QED  BY <2>1, FS_EmptySet DEF Count
<1>8. Plain!Due(t) = [c \in Handlers |->
                        IF c = OnMessage THEN IF B = {} THEN 1 ELSE 0
                        ELSE Cardinality({f \in B : wanted[f] = c})]
  <2>1. \A S : Plain!Cardinality(S) = Cardinality(S)
    BY DEF Plain!Cardinality, Cardinality
  <2> QED  BY <2>1 DEF Plain!Due, Plain!Handlers, Handlers, B
<1>9. CASE m = <<>>
  <2>1. ASSUME NEW c \in Handlers
        PROVE  Calls(<<OnMessage>>)[c] = Plain!Due(t)[c]
    <3>1. Calls(<<OnMessage>>)[c] = IF OnMessage \in {c} THEN 1 ELSE 0
      BY CountOne DEF Calls
    <3>2. c # OnMessage => Cardinality({f \in B : wanted[f] = c}) = 0
      <4>1. {f \in B : wanted[f] = c} = {}
        BY <1>4, <1>9
      <4> QED  BY <4>1, FS_EmptySet
    <3> QED  BY <1>4, <1>8, <1>9, <3>1, <3>2
  <2>2. Calls(<<OnMessage>>) = Plain!Due(t)
    BY <1>8, <2>1 DEF Calls
  <2>3. <<OnMessage>> \in Seq(Handlers)
    BY DEF Handlers
  <2> QED  BY <1>9, <2>2, <2>3 DEF m
<1>10. CASE m # <<>>
  <2>1. ASSUME NEW c \in Handlers
        PROVE  Calls(m)[c] = Plain!Due(t)[c]
    <3>1. Calls(m)[c] = Count(m, {c})
      BY DEF Calls
    <3>2. CASE c = OnMessage
      BY <1>4, <1>7, <1>8, <1>10, <3>1, <3>2
    <3>3. CASE c # OnMessage
      <4>1. c \in Callbacks
        BY <3>3 DEF Handlers
      <4> QED  BY <1>6, <1>8, <3>1, <3>3, <4>1
    <3> QED  BY <3>2, <3>3
  <2>2. Calls(m) = Plain!Due(t)
    BY <1>8, <2>1 DEF Calls
  <2> QED  BY <1>3, <1>10, <2>2 DEF m
<1> QED  BY <1>9, <1>10

(* A callback that returns is one call less.                                *)
LEMMA CallsTail ==
    ASSUME NEW s \in Seq(Handlers), s # <<>>
    PROVE  /\ Head(s) \in Handlers /\ Tail(s) \in Seq(Handlers)
           /\ Calls(s)[Head(s)] > 0
           /\ Calls(Tail(s)) = [Calls(s) EXCEPT ![Head(s)] = @ - 1]
<1> DEFINE x == Head(s)
           one == <<x>>
           rest == Tail(s)
<1>1. x \in Handlers /\ rest \in Seq(Handlers) /\ one \in Seq(Handlers)
  BY HeadTailProperties
<1>2. s = one \o rest
  OBVIOUS
<1>3. \A C : Count(one, C) = IF x \in C THEN 1 ELSE 0
  BY CountOne
<1> HIDE DEF x, one, rest
<1>4. \A C : Count(s, C) = Count(one, C) + Count(rest, C)
  BY <1>1, <1>2, CountConcat
<1>5. \A C : Count(rest, C) \in Nat
  BY <1>1, HitsFinite
<1>6. Count(s, {x}) = 1 + Count(rest, {x})
  <2>1. Count(one, {x}) = 1
    BY <1>3
  <2> QED  BY <1>4, <2>1
<1>7. ASSUME NEW c \in Handlers
      PROVE  Calls(rest)[c] = [Calls(s) EXCEPT ![x] = @ - 1][c]
  <2>1. Calls(rest)[c] = Count(rest, {c}) /\ Calls(s)[c] = Count(s, {c})
    BY DEF Calls
  <2>2. c \in DOMAIN Calls(s)
    BY DEF Calls
  <2>3. CASE c = x
    <3>1. Count(rest, {x}) \in Nat
      BY <1>5
    <3>2. Count(s, {x}) - 1 = Count(rest, {x})
      BY <1>6, <3>1
    <3> QED  BY <2>1, <2>2, <2>3, <3>2
  <2>4. CASE c # x
    <3>1. Count(one, {c}) = 0
      BY <1>3, <2>4
    <3>2. Count(s, {c}) = 0 + Count(rest, {c}) /\ Count(rest, {c}) \in Nat
      BY <1>4, <1>5, <3>1
    <3>3. Count(s, {c}) = Count(rest, {c})
      BY <3>2
    <3> QED  BY <2>1, <2>2, <2>4, <3>3
  <2> QED  BY <2>3, <2>4
<1>8. Calls(rest) = [Calls(s) EXCEPT ![x] = @ - 1]
  BY <1>7 DEF Calls
<1>9. Calls(s)[x] > 0
  <2>1. Count(rest, {x}) \in Nat
    BY <1>5
  <2>2. Count(s, {x}) > 0
    BY <1>6, <2>1
  <2> QED  BY <1>1, <2>2 DEF Calls
<1> QED  BY <1>1, <1>8, <1>9 DEF x, rest

(* A new matcher is an empty dictionary.                                    *)
LEMMA RegistryInit == Init => RegistryInv /\ Plain!Init
<1> SUFFICES ASSUME Init PROVE RegistryInv /\ Plain!Init
  OBVIOUS
<1>1. wanted = <<>> /\ todo = <<>> /\ DOMAIN wanted = {}
  BY DEF Init
<1>2. RegistryInv
  BY <1>1, MatchInit, FS_EmptySet, EmptySeq DEF RegistryInv, DictInv
<1>3. Plain!Init
  BY <1>1, CallsIs, CallsNone DEF Plain!Init
<1> QED  BY <1>2, <1>3

(* Every step keeps the dictionary finite and the callbacks callbacks, and  *)
(* is a step of the registry.                                               *)
LEMMA RegistryNext ==
    RegistryInv /\ [Next]_vars => RegistryInv' /\ [Plain!Next]_(Plain!vars)
<1> SUFFICES ASSUME RegistryInv, [Next]_vars
             PROVE  RegistryInv' /\ [Plain!Next]_(Plain!vars)
  OBVIOUS
<1> DEFINE calls == [c \in Callbacks \cup {OnMessage} |->
                       Cardinality({k \in 1..Len(todo) : todo[k] = c})]
<1>1. calls = Calls(todo) /\ calls' = Calls(todo')
  BY CallsIs
<1>2. MatchInv'
  BY MatchNext DEF RegistryInv, DictInv
<1>3. /\ DictInv /\ todo \in Seq(Handlers) /\ IsFiniteSet(DOMAIN wanted)
      /\ \A f \in DOMAIN wanted : wanted[f] \in Callbacks
  BY DEF RegistryInv, DictInv
<1>4. ASSUME wanted' = wanted, todo' \in Seq(Handlers)
      PROVE  RegistryInv'
  BY <1>2, <1>3, <1>4 DEF RegistryInv, DictInv
<1> HIDE DEF calls
<1>5. ASSUME NEW f \in Filters, NEW c \in Callbacks, MessageCallbackAdd(f, c)
      PROVE  RegistryInv' /\ [Plain!Next]_(Plain!vars)
  <2>1. wanted' = With(f, c, wanted) /\ todo' = todo
    BY <1>5 DEF MessageCallbackAdd
  <2>2. DOMAIN wanted' = DOMAIN wanted \cup {f}
    BY <2>1 DEF With
  <2>3. IsFiniteSet(DOMAIN wanted')
    BY <1>3, <2>2, FS_AddElement
  <2>4. \A g \in DOMAIN wanted' : wanted'[g] \in Callbacks
    BY <1>3, <2>1 DEF With
  <2>5. RegistryInv'
    BY <1>2, <1>3, <2>1, <2>3, <2>4 DEF RegistryInv, DictInv
  <2>6. Plain!Add(f, c)
    BY <2>1 DEF Plain!Add, With
  <2> QED  BY <2>5, <2>6 DEF Plain!Next
<1>6. ASSUME NEW f \in Filters, MessageCallbackRemove(f)
      PROVE  RegistryInv' /\ [Plain!Next]_(Plain!vars)
  <2>1. wanted' = Without(f, wanted) /\ todo' = todo
    BY <1>6 DEF MessageCallbackRemove
  <2>2. DOMAIN wanted' = DOMAIN wanted \ {f}
    BY <2>1 DEF Without
  <2>3. IsFiniteSet(DOMAIN wanted')
    BY <1>3, <2>2, FS_RemoveElement
  <2>4. \A g \in DOMAIN wanted' : wanted'[g] \in Callbacks
    BY <1>3, <2>1 DEF Without
  <2>5. RegistryInv'
    BY <1>2, <1>3, <2>1, <2>3, <2>4 DEF RegistryInv, DictInv
  <2>6. Plain!Remove(f)
    BY <2>1 DEF Plain!Remove, Without
  <2> QED  BY <2>5, <2>6 DEF Plain!Next
<1>7. ASSUME NEW t \in Topics, HandleOnMessage(t)
      PROVE  RegistryInv' /\ [Plain!Next]_(Plain!vars)
  <2>1. /\ todo = <<>> /\ wanted' = wanted
        /\ todo' = IF IterMatch(t) = <<>> THEN <<OnMessage>> ELSE IterMatch(t)
    BY <1>7 DEF HandleOnMessage
  <2>2. todo' \in Seq(Handlers) /\ Calls(todo') = Plain!Due(t)
    BY <1>3, <2>1, CallsDue
  <2>3. Plain!Message(t)
    <3>1. calls = Plain!NoCalls /\ calls' = Plain!Due(t)
      BY <1>1, <2>1, <2>2, CallsNone
    <3> QED  BY <2>1, <3>1 DEF Plain!Message, calls
  <2> QED  BY <1>4, <2>1, <2>2, <2>3 DEF Plain!Next
<1>8. CASE CallbackReturns
  <2>1. todo # <<>> /\ wanted' = wanted /\ todo' = Tail(todo)
    BY <1>8 DEF CallbackReturns
  <2>2. Plain!Call(Head(todo)) /\ Head(todo) \in Plain!Handlers
    <3>1. /\ calls[Head(todo)] > 0 /\ Head(todo) \in Handlers
          /\ calls' = [calls EXCEPT ![Head(todo)] = @ - 1]
      BY <1>1, <1>3, <2>1, CallsTail
    <3> QED  BY <2>1, <3>1 DEF Plain!Call, Plain!Handlers, Handlers, calls
  <2> QED  BY <1>3, <1>4, <2>1, <2>2, CallsTail DEF Plain!Next
<1>9. CASE CallbackRaises
  <2>1. todo # <<>> /\ wanted' = wanted /\ todo' = <<>>
    BY <1>9 DEF CallbackRaises
  <2>2. Plain!Raise(Head(todo)) /\ Head(todo) \in Plain!Handlers
    <3>1. /\ calls[Head(todo)] > 0 /\ Head(todo) \in Handlers
          /\ calls' = Plain!NoCalls
      BY <1>1, <1>3, <2>1, CallsTail, CallsNone
    <3> QED  BY <2>1, <3>1 DEF Plain!Raise, Plain!Handlers, Handlers, calls
  <2> QED  BY <1>4, <2>1, <2>2, EmptySeq DEF Plain!Next
<1>10. CASE UNCHANGED vars
  BY <1>3, <1>4, <1>10 DEF vars, Plain!vars
<1> QED  BY <1>5, <1>6, <1>7, <1>8, <1>9, <1>10 DEF Next

(* iter_match, walking the trie, finds for every topic the callbacks MQTT's *)
(* definition of matching gives it, each as often as filters of it match,   *)
(* and _handle_on_message falls back to on_message for no other topic,      *)
(* however callbacks are added and removed between the calls: every step of *)
(* the matcher is a step of the plain dictionary.                           *)
THEOREM MatcherImplementsRegistry == Spec => ImplementsRegistry
BY RegistryInit, RegistryNext, PTL DEF Spec, ImplementsRegistry, Plain!Spec
=============================================================================
