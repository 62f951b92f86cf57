------------------------- MODULE InternodeCombineProofs -------------------------
(***************************************************************************)
(* Proofs about one channel of internode combine.  CountInv says what the  *)
(* counters mean: which sums the sub-warps have done, what each queue and  *)
(* channel has published and given back, what is on the network, and which *)
(* heads the warps keep.  RowInv says what the rings hold.  The two heads  *)
(* that dispatch noted and cached_notify encoded are shown to be what a    *)
(* warp needs: the number of the row to come, whether the token has a row  *)
(* of the peer or not.  The theorems assume Ordered, a network that keeps  *)
(* a put and a later atomic in order.                                      *)
(***************************************************************************)
EXTENDS InternodeCombine, DataLemmas, SequenceTheorems, TLAPS

(* The tokens of node s before number i of its stream that peer p has.     *)
Ahead(s, p, i) == Cardinality({t \in For(s, p) : Index(s, t) < i})
Share(s, p) == Cardinality(For(s, p))

(* The head of a place that has n of all rows before it.                   *)
Coming(n, all) == IF n < all THEN n ELSE Large
-----------------------------------------------------------------------------
(* Tokens are numbered from 0, and finite in number.                       *)
LEMMA RunFacts ==
  ASSUME to \in Runs
  PROVE  /\ NumTokens \in Nat /\ NumTokens <= Large
         /\ Token = 0 .. NumTokens - 1 /\ Token \subseteq Nat /\ IsFiniteSet(Token)
         /\ \A t \in Token, s \in Source : to[t][s] \in SUBSET Peer
<1>1. /\ IsFiniteSet(DOMAIN to) /\ Cardinality(DOMAIN to) <= Large
      /\ to \in [0 .. Cardinality(DOMAIN to) - 1 -> [Source -> SUBSET Peer]]
  BY RunsAssumption, LargeAssumption
<1>2. Cardinality(DOMAIN to) \in Nat
  BY <1>1, FS_CardinalityType
<1>3. DOMAIN to = 0 .. Cardinality(DOMAIN to) - 1
  BY <1>1
<1> QED BY <1>1, <1>2, <1>3 DEF Token, NumTokens

(* The stream of a node, and of a peer within it.                          *)
LEMMA StreamFacts ==
  ASSUME to \in Runs, NEW s \in Source
  PROVE  /\ Chosen(s) \in SUBSET Nat /\ IsFiniteSet(Chosen(s)) /\ Chosen(s) \subseteq Token
         /\ Total(s) \in Nat /\ Total(s) <= Large
         /\ \A p \in Peer : /\ For(s, p) \subseteq Chosen(s) /\ IsFiniteSet(For(s, p))
                            /\ Share(s, p) \in Nat /\ Share(s, p) <= Large
<1>1. /\ Token \subseteq Nat /\ IsFiniteSet(Token) /\ Chosen(s) \subseteq Token
      /\ NumTokens \in Nat /\ NumTokens <= Large
  BY RunFacts DEF Chosen
<1>2. \A S \in SUBSET Token : /\ IsFiniteSet(S) /\ Cardinality(S) \in Nat
                              /\ Cardinality(S) <= Cardinality(Token)
  BY <1>1, FS_Subset, FS_CardinalityType
<1>3. \A S \in SUBSET Token : IsFiniteSet(S) /\ Cardinality(S) \in Nat /\ Cardinality(S) <= Large
  <2> SUFFICES ASSUME NEW S \in SUBSET Token
               PROVE  IsFiniteSet(S) /\ Cardinality(S) \in Nat /\ Cardinality(S) <= Large
    OBVIOUS
  <2>1. PICK c \in Nat, n \in Nat : c = Cardinality(S) /\ n = NumTokens
    BY <1>1, <1>2
  <2>2. c <= n /\ n <= Large
    BY <1>1, <1>2, <2>1 DEF NumTokens
  <2> QED BY <1>2, <2>1, <2>2 DEF Large
<1>4. \A p \in Peer : For(s, p) \subseteq Chosen(s)
  BY DEF For, Chosen
<1> QED BY <1>1, <1>3, <1>4 DEF Total, Share

(* Index numbers the stream.                                               *)
LEMMA StreamNumbered ==
  ASSUME to \in Runs, NEW s \in Source
  PROVE  /\ \A t \in Chosen(s) : /\ Index(s, t) \in 0 .. Total(s) - 1
                                 /\ TokenAt(s, Index(s, t)) = t
         /\ \A i \in 0 .. Total(s) - 1 : /\ TokenAt(s, i) \in Chosen(s)
                                         /\ Index(s, TokenAt(s, i)) = i
         /\ \A t \in Nat : Index(s, t) \in 0 .. Total(s)
         /\ \A t, u \in Nat : t <= u => Index(s, t) <= Index(s, u)
         /\ \A t, u \in Chosen(s) : t < u <=> Index(s, t) < Index(s, u)
<1>1. Chosen(s) \in SUBSET Nat /\ IsFiniteSet(Chosen(s)) /\ Total(s) = Cardinality(Chosen(s))
  BY StreamFacts DEF Total
<1>2. \A t : Index(s, t) = Below(Chosen(s), t) /\ Below(Chosen(s), t) \in 0 .. Total(s)
  BY <1>1, BelowType DEF Index, Below
<1>3. \A t \in Chosen(s) : Index(s, t) < Total(s)
  BY <1>1, <1>2, BelowOrders
<1>4. \A t, u \in Chosen(s) : t = u <=> Index(s, t) = Index(s, u)
  BY <1>1, <1>2, BelowOrders
<1>5. \A i \in 0 .. Total(s) - 1 : \E t \in Chosen(s) : Index(s, t) = i
  BY <1>1, <1>2, BelowOnto
<1>6. \A i \in 0 .. Total(s) - 1 : TokenAt(s, i) \in Chosen(s) /\ Index(s, TokenAt(s, i)) = i
  BY <1>5 DEF TokenAt
<1>7. \A t \in Chosen(s) : Index(s, t) \in 0 .. Total(s) - 1
  <2> SUFFICES ASSUME NEW t \in Chosen(s) PROVE Index(s, t) \in 0 .. Total(s) - 1
    OBVIOUS
  <2>1. Index(s, t) \in Nat /\ Index(s, t) < Total(s) /\ Total(s) \in Nat
    BY <1>2, <1>3, StreamFacts
  <2> QED BY <2>1
<1>8. \A t \in Chosen(s) : TokenAt(s, Index(s, t)) = t
  BY <1>4, <1>6, <1>7
<1>9. \A t, u \in Nat : t <= u => Index(s, t) <= Index(s, u)
  BY <1>1, <1>2, BelowMonotone
<1>10. \A t, u \in Chosen(s) : t < u <=> Index(s, t) < Index(s, u)
  BY <1>1, <1>2, BelowOrders
<1> QED BY <1>2, <1>6, <1>7, <1>8, <1>9, <1>10

(* One token on in the numbering.                                          *)
LEMMA IndexNext ==
  ASSUME to \in Runs, NEW s \in Source, NEW t \in Nat
  PROVE  /\ t \in Chosen(s) => Index(s, t + 1) = Index(s, t) + 1
         /\ t \notin Chosen(s) => Index(s, t + 1) = Index(s, t)
         /\ t >= NumTokens => Index(s, t) = Total(s)
<1>1. Chosen(s) \in SUBSET Nat /\ IsFiniteSet(Chosen(s)) /\ Total(s) = Cardinality(Chosen(s))
  BY StreamFacts DEF Total
<1>2. \A u : Index(s, u) = Below(Chosen(s), u)
  BY DEF Index, Below
<1>3. ASSUME t >= NumTokens PROVE Index(s, t) = Total(s)
  <2>1. \A u \in Chosen(s) : u < t
    BY <1>3, RunFacts, StreamFacts
  <2> QED BY <1>1, <1>2, <2>1, BelowType
<1> QED BY <1>1, <1>2, <1>3, BelowStep

(* How many rows of a peer come before a place in the stream.              *)
LEMMA AheadFacts ==
  ASSUME to \in Runs, NEW s \in Source, NEW p \in Peer
  PROVE  /\ \A i \in Nat : Ahead(s, p, i) \in 0 .. Share(s, p)
         /\ \A i, j \in Nat : i <= j => Ahead(s, p, i) <= Ahead(s, p, j)
         /\ Ahead(s, p, Total(s)) = Share(s, p) /\ Ahead(s, p, 0) = 0
         /\ \A i \in 0 .. Total(s) - 1 :
              /\ TokenAt(s, i) \in For(s, p) => Ahead(s, p, i + 1) = Ahead(s, p, i) + 1
              /\ TokenAt(s, i) \notin For(s, p) => Ahead(s, p, i + 1) = Ahead(s, p, i)
<1> DEFINE A(i) == {t \in For(s, p) : Index(s, t) < i}
<1>1. /\ For(s, p) \subseteq Chosen(s) /\ IsFiniteSet(For(s, p)) /\ Share(s, p) \in Nat
      /\ Total(s) \in Nat
      /\ \A t \in For(s, p) : Index(s, t) \in Nat /\ Index(s, t) < Total(s)
  BY StreamFacts, StreamNumbered
<1>2. \A i : /\ IsFiniteSet(A(i)) /\ Cardinality(A(i)) \in Nat
             /\ Cardinality(A(i)) <= Share(s, p)
  BY <1>1, FS_Subset, FS_CardinalityType DEF Share
<1>3. ASSUME NEW i \in Nat, NEW j \in Nat, i <= j PROVE Cardinality(A(i)) <= Cardinality(A(j))
  <2>1. A(i) \subseteq A(j)
    BY <1>1, <1>3
  <2> QED BY <1>2, <2>1, FS_Subset
<1>4. A(Total(s)) = For(s, p) /\ A(0) = {}
  BY <1>1
<1>5. ASSUME NEW i \in 0 .. Total(s) - 1
      PROVE  /\ TokenAt(s, i) \in For(s, p) => Cardinality(A(i + 1)) = Cardinality(A(i)) + 1
             /\ TokenAt(s, i) \notin For(s, p) => Cardinality(A(i + 1)) = Cardinality(A(i))
  <2>1. \A t \in For(s, p) : Index(s, t) < i + 1 <=> Index(s, t) < i \/ Index(s, t) = i
    BY <1>1
  <2>2. \A t \in For(s, p) : Index(s, t) = i <=> t = TokenAt(s, i)
    BY <1>1, StreamNumbered
  <2>3. ASSUME TokenAt(s, i) \in For(s, p)
        PROVE  A(i + 1) = A(i) \cup {TokenAt(s, i)} /\ TokenAt(s, i) \notin A(i)
    <3>1. ~ (Index(s, TokenAt(s, i)) < i)
      BY StreamNumbered
    <3> QED BY <2>1, <2>2, <2>3, <3>1
  <2>4. ASSUME TokenAt(s, i) \notin For(s, p) PROVE A(i + 1) = A(i)
    BY <2>1, <2>2, <2>4
  <2>5. ASSUME TokenAt(s, i) \in For(s, p) PROVE Cardinality(A(i + 1)) = Cardinality(A(i)) + 1
    <3>1. A(i + 1) = A(i) \cup {TokenAt(s, i)} /\ TokenAt(s, i) \notin A(i) /\ IsFiniteSet(A(i))
      BY <1>2, <2>3, <2>5
    <3> HIDE DEF A
    <3> QED BY <3>1, FS_AddElement
  <2> QED BY <2>4, <2>5
<1>6. \A i : Ahead(s, p, i) = Cardinality(A(i))
  BY DEF Ahead
<1> HIDE DEF A
<1>7. \A i \in Nat : Ahead(s, p, i) \in 0 .. Share(s, p)
  BY <1>1, <1>2, <1>6
<1>8. Ahead(s, p, Total(s)) = Share(s, p) /\ Ahead(s, p, 0) = 0
  BY <1>4, <1>6, FS_EmptySet DEF Share
<1> QED BY <1>3, <1>5, <1>6, <1>7, <1>8

(* The place of a token among the rows of a peer.                          *)
LEMMA PlaceFacts ==
  ASSUME to \in Runs, NEW s \in Source, NEW p \in Peer
  PROVE  /\ \A t \in For(s, p) : /\ Place(s, p, t) = Ahead(s, p, Index(s, t))
                                 /\ Place(s, p, t) \in 0 .. Share(s, p) - 1
                                 /\ RowAt(s, p, Place(s, p, t)) = <<s, p, t>>
         /\ \A k \in 0 .. Share(s, p) - 1 : /\ RowAt(s, p, k) \in {s} \X {p} \X Token
                                          /\ \E t \in For(s, p) : Place(s, p, t) = k
<1>1. /\ For(s, p) \in SUBSET Nat /\ IsFiniteSet(For(s, p)) /\ Share(s, p) = Cardinality(For(s, p))
      /\ For(s, p) \subseteq Chosen(s) /\ For(s, p) \subseteq Token /\ Share(s, p) \in Nat
  BY StreamFacts DEF Share
<1>2. \A t : Place(s, p, t) = Below(For(s, p), t)
  BY DEF Place, Below
<1>3. \A t \in For(s, p) : Place(s, p, t) = Ahead(s, p, Index(s, t))
  <2> SUFFICES ASSUME NEW t \in For(s, p)
               PROVE  {u \in For(s, p) : u < t} = {u \in For(s, p) : Index(s, u) < Index(s, t)}
    BY DEF Place, Ahead
  <2> QED BY <1>1, StreamNumbered
<1>4. \A t \in For(s, p) : Place(s, p, t) \in 0 .. Share(s, p) - 1
  <2> SUFFICES ASSUME NEW t \in For(s, p) PROVE Place(s, p, t) \in 0 .. Share(s, p) - 1
    OBVIOUS
  <2>1. Below(For(s, p), t) \in 0 .. Share(s, p) /\ Below(For(s, p), t) < Share(s, p)
    BY <1>1, BelowType, BelowOrders
  <2> QED BY <1>1, <1>2, <2>1
<1>5. \A t, u \in For(s, p) : t = u <=> Place(s, p, t) = Place(s, p, u)
  BY <1>1, <1>2, BelowOrders
<1>6. \A k \in 0 .. Share(s, p) - 1 : \E t \in For(s, p) : Place(s, p, t) = k
  BY <1>1, <1>2, BelowOnto
<1>7. \A t \in For(s, p) : RowAt(s, p, Place(s, p, t)) = <<s, p, t>>
  <2> SUFFICES ASSUME NEW t \in For(s, p)
               PROVE  (CHOOSE u \in For(s, p) : Place(s, p, u) = Place(s, p, t)) = t
    BY DEF RowAt
  <2> QED BY <1>5
<1>8. ASSUME NEW k \in 0 .. Share(s, p) - 1 PROVE RowAt(s, p, k) \in {s} \X {p} \X Token
  <2>1. (CHOOSE u \in For(s, p) : Place(s, p, u) = k) \in For(s, p)
    BY <1>6
  <2> QED BY <1>1, <2>1 DEF RowAt
<1> QED BY <1>3, <1>4, <1>6, <1>7, <1>8
-----------------------------------------------------------------------------
(* f counts the members of S; the heads say for each member its number.    *)
Counting(f, S, n, all) ==
  /\ \A t \in 0 .. n : f[t] \in 0 .. all
  /\ f[n] = all
  /\ \A t \in 0 .. n - 1 : f[t + 1] = IF t \in S THEN f[t] + 1 ELSE f[t]
Noted(heads, f, S, n) == \A t \in 0 .. n - 1 : heads[t] = IF t \in S THEN f[t] ELSE -1

(* cached_notify: the entries of the others become, encoded, the number of *)
(* the member to come, or the large one when none is.                      *)
LEMMA EncodedIs ==
  ASSUME NEW n \in Nat, NEW all \in Nat, all <= Large, NEW S,
         NEW f, Counting(f, S, n, all), NEW heads, Noted(heads, f, S, n)
  PROVE  \A t \in 0 .. n - 1 :
           Encoded(heads, n)[t] = IF t \in S THEN f[t] ELSE -Coming(f[t], all) - 1
<1> USE DEF Counting, Noted
<1> DEFINE step(g, t) == IF t = n THEN Large ELSE IF heads[t] >= 0 THEN heads[t] ELSE g[t + 1]
           next == CHOOSE g : g = [t \in 0 .. n |-> step(g, t)]
           c == [t \in 0 .. n |-> Coming(f[t], all)]
<1>1. c = [t \in 0 .. n |-> step(c, t)]
  <2> SUFFICES ASSUME NEW t \in 0 .. n PROVE Coming(f[t], all) = step(c, t)
    OBVIOUS
  <2>1. CASE t = n
    BY <2>1 DEF Coming
  <2>2. CASE t # n
    <3>1. t \in 0 .. n - 1 /\ t + 1 \in 0 .. n
      BY <2>2
    <3>2. f[t] \in 0 .. all /\ f[t + 1] \in 0 .. all
      BY <3>1
    <3>3. CASE t \in S
      <4>1. heads[t] = f[t] /\ f[t] < all
        BY <3>1, <3>2, <3>3
      <4> QED BY <2>2, <3>2, <4>1 DEF Coming
    <3>4. CASE t \notin S
      <4>1. heads[t] = -1 /\ f[t + 1] = f[t]
        BY <3>1, <3>4
      <4>2. step(c, t) = c[t + 1]
        BY <2>2, <4>1
      <4> QED BY <3>1, <4>1, <4>2
    <3> QED BY <3>3, <3>4
  <2> QED BY <2>1, <2>2
<1>2. next = [t \in 0 .. n |-> step(next, t)]
  <2> HIDE DEF c, step
  <2> QED BY <1>1
<1>3. \A t \in 0 .. n - 1 : Coming(f[t], all) = IF t \in S THEN f[t] ELSE Coming(f[t + 1], all)
  <2> SUFFICES ASSUME NEW t \in 0 .. n - 1
               PROVE  Coming(f[t], all) = IF t \in S THEN f[t] ELSE Coming(f[t + 1], all)
    OBVIOUS
  <2>1. t \in 0 .. n /\ t + 1 \in 0 .. n
    OBVIOUS
  <2>2. f[t] \in 0 .. all /\ f[t + 1] \in 0 .. all
    BY <2>1
  <2>3. f[t + 1] = IF t \in S THEN f[t] + 1 ELSE f[t]
    OBVIOUS
  <2> QED BY <2>2, <2>3 DEF Coming
<1>4. \A t \in 0 .. n : next[t] = step(next, t)
  <2> HIDE DEF next, step
  <2> QED BY <1>2
<1> HIDE DEF next
<1> DEFINE G == {k \in Nat : k <= n => next[n - k] = Coming(f[n - k], all)}
<1>5. 0 \in G
  BY <1>4 DEF Coming
<1>6. ASSUME NEW k \in G PROVE k + 1 \in G
  <2> SUFFICES ASSUME k + 1 <= n
               PROVE  next[n - (k + 1)] = Coming(f[n - (k + 1)], all)
    OBVIOUS
  <2>1. PICK t \in 0 .. n - 1 : t = n - (k + 1) /\ t + 1 = n - k
    <3>1. n - (k + 1) \in 0 .. n - 1 /\ (n - (k + 1)) + 1 = n - k
      OBVIOUS
    <3> QED BY <3>1
  <2>2. next[t + 1] = Coming(f[t + 1], all)
    BY <2>1
  <2>3. next[t] = IF heads[t] >= 0 THEN heads[t] ELSE next[t + 1]
    BY <1>4
  <2>4. heads[t] = IF t \in S THEN f[t] ELSE -1
    OBVIOUS
  <2>5. f[t] \in Nat
    OBVIOUS
  <2>6. next[t] = IF t \in S THEN f[t] ELSE next[t + 1]
    BY <2>3, <2>4, <2>5
  <2> QED BY <1>3, <2>1, <2>2, <2>6
<1>7. \A k \in Nat : k \in G
  <2> HIDE DEF G
  <2>1. G \in SUBSET Nat
    BY DEF G
  <2> QED BY <1>5, <1>6, <2>1, NatSetInduction
<1>8. \A t \in 0 .. n : next[t] = Coming(f[t], all)
  <2> SUFFICES ASSUME NEW t \in 0 .. n PROVE next[t] = Coming(f[t], all)
    OBVIOUS
  <2>1. n - t \in Nat /\ n - t <= n /\ n - (n - t) = t
    OBVIOUS
  <2>2. n - t \in G
    BY <1>7, <2>1
  <2>3. next[n - (n - t)] = Coming(f[n - (n - t)], all)
    BY <2>1, <2>2
  <2> QED BY <2>1, <2>3
<1>9. Encoded(heads, n) = [t \in 0 .. n - 1 |-> IF heads[t] < 0 THEN -next[t] - 1 ELSE heads[t]]
  BY DEF Encoded, next
<1> SUFFICES ASSUME NEW t \in 0 .. n - 1
             PROVE  Encoded(heads, n)[t] = IF t \in S THEN f[t] ELSE -Coming(f[t], all) - 1
  OBVIOUS
<1>10. heads[t] = IF t \in S THEN f[t] ELSE -1
  OBVIOUS
<1>11. f[t] \in Nat /\ next[t] = Coming(f[t], all)
  BY <1>8
<1>12. Encoded(heads, n)[t] = IF heads[t] < 0 THEN -next[t] - 1 ELSE heads[t]
  BY <1>9
<1> QED BY <1>10, <1>11, <1>12

(* What a warp does with an encoded head.                                  *)
LEMMA HeadRead ==
  ASSUME NEW n \in Nat, NEW all \in Nat, all <= Large,
         NEW S, NEW x, x \in S => n < all, NEW h, h = IF x \in S THEN n ELSE -Coming(n, all) - 1
  PROVE  /\ h \in Int /\ (h >= 0 <=> x \in S) /\ (x \in S => h = n)
         /\ Awaited(h) = Coming(n, all) /\ Coming(n, all) \in Nat
         /\ Passed(h) = IF x \in S THEN n + 1 ELSE Coming(n, all)
<1>1. Coming(n, all) \in Nat /\ (x \in S => Coming(n, all) = n)
  BY DEF Coming, Large
<1>2. PICK c \in Nat : c = Coming(n, all)
  BY <1>1
<1>3. CASE x \in S
  BY <1>1, <1>2, <1>3 DEF Awaited, Passed
<1>4. CASE x \notin S
  <2>1. h = -c - 1 /\ h < 0 /\ -h - 1 = c
    BY <1>2, <1>4
  <2> QED BY <1>2, <1>4, <2>1 DEF Awaited, Passed
<1> QED BY <1>3, <1>4

(* The heads of the NVLink queues.                                         *)
LEMMA NvlHeads ==
  ASSUME to \in Runs, NEW s \in Source, NEW p \in Peer, NEW i \in 0 .. Total(s) - 1
  PROVE  LET h == NvlHead(s, p)[i]
             has == TokenAt(s, i) \in For(s, p)
             next == Coming(Ahead(s, p, i), Share(s, p))
         IN  /\ h \in Int /\ (h >= 0 <=> has) /\ (has => h = Ahead(s, p, i))
             /\ Awaited(h) = next /\ next \in Nat
             /\ Passed(h) = IF has THEN Ahead(s, p, i) + 1 ELSE next
<1> DEFINE n == Total(s)
           all == Share(s, p)
           S == {k \in 0 .. n - 1 : TokenAt(s, k) \in For(s, p)}
           f == [k \in 0 .. n |-> Ahead(s, p, k)]
           heads == [k \in 0 .. n - 1 |->
                       LET t == TokenAt(s, k) IN IF t \in For(s, p) THEN Place(s, p, t) ELSE -1]
<1>1. n \in Nat /\ all \in Nat /\ all <= Large
  BY StreamFacts
<1>2. (\A k \in 0 .. n : f[k] \in 0 .. all) /\ f[n] = all
  BY <1>1, AheadFacts, SMTT(60)
<1>3. \A k \in 0 .. n - 1 : f[k + 1] = IF k \in S THEN f[k] + 1 ELSE f[k]
  <2> SUFFICES ASSUME NEW k \in 0 .. n - 1
               PROVE  f[k + 1] = IF k \in S THEN f[k] + 1 ELSE f[k]
    OBVIOUS
  <2>1. k \in 0 .. n /\ k + 1 \in 0 .. n
    BY <1>1
  <2> QED BY <2>1, AheadFacts
<1>4. \A k \in 0 .. n - 1 : heads[k] = IF k \in S THEN f[k] ELSE -1
  <2> SUFFICES ASSUME NEW k \in 0 .. n - 1 PROVE heads[k] = IF k \in S THEN f[k] ELSE -1
    OBVIOUS
  <2>1. k \in 0 .. n /\ f[k] = Ahead(s, p, k)
    BY <1>1
  <2>2. TokenAt(s, k) \in For(s, p) => Place(s, p, TokenAt(s, k)) = Ahead(s, p, k)
    BY PlaceFacts, StreamNumbered
  <2> QED BY <2>1, <2>2
<1>5. NvlHead(s, p) = Encoded(heads, n)
  BY DEF NvlHead
<1>6. i \in 0 .. n - 1 /\ i \in 0 .. n /\ f[i] = Ahead(s, p, i)
  BY <1>1
<1>7. i \in S <=> TokenAt(s, i) \in For(s, p)
  OBVIOUS
<1> HIDE DEF n, all, S, f, heads
<1>8. NvlHead(s, p)[i] = IF i \in S THEN f[i] ELSE -Coming(f[i], all) - 1
  <2>1. \A k \in 0 .. n - 1 :
          Encoded(heads, n)[k] = IF k \in S THEN f[k] ELSE -Coming(f[k], all) - 1
    <3>1. Counting(f, S, n, all) /\ Noted(heads, f, S, n)
      BY <1>2, <1>3, <1>4 DEF Counting, Noted
    <3> QED BY <1>1, <3>1, EncodedIs
  <2> QED BY <1>5, <1>6, <2>1
<1>9. Ahead(s, p, i) \in Nat /\ (i \in S => Ahead(s, p, i) < all)
  <2>1. i \in 0 .. n - 1 /\ i + 1 \in 0 .. n
    BY <1>1, <1>6
  <2>2. f[i] \in 0 .. all /\ f[i + 1] \in 0 .. all
    BY <1>2, <1>6, <2>1
  <2>3. i \in S => f[i + 1] = f[i] + 1
    BY <1>3, <2>1
  <2>4. PICK b \in Nat, c \in Nat : b = f[i] /\ c = f[i + 1] /\ c <= all
    BY <1>1, <2>2
  <2> QED BY <1>1, <1>6, <2>3, <2>4
<1>10. NvlHead(s, p)[i] = IF TokenAt(s, i) \in For(s, p) THEN Ahead(s, p, i)
                         ELSE -Coming(Ahead(s, p, i), all) - 1
  BY <1>6, <1>7, <1>8
<1>11. TokenAt(s, i) \in For(s, p) => Ahead(s, p, i) < all
  BY <1>7, <1>9
<1> QED BY <1>1, <1>9, <1>10, <1>11, HeadRead DEF all

(* The heads of the RDMA rings.                                            *)
LEMMA RdmaHeads ==
  ASSUME to \in Runs, NEW s \in Source, NEW t \in Token
  PROVE  LET h == RdmaHead(s)[t]
             has == t \in Chosen(s)
             next == Coming(Index(s, t), Total(s))
         IN  /\ h \in Int /\ (h >= 0 <=> has) /\ (has => h = Index(s, t))
             /\ Awaited(h) = next /\ next \in Nat
             /\ Passed(h) = IF has THEN Index(s, t) + 1 ELSE next
<1> DEFINE n == NumTokens
           all == Total(s)
           S == Chosen(s)
           f == [k \in 0 .. n |-> Index(s, k)]
           heads == [k \in Token |-> IF k \in Chosen(s) THEN Index(s, k) ELSE -1]
<1>1. n \in Nat /\ all \in Nat /\ all <= Large /\ Token = 0 .. n - 1
  BY StreamFacts, RunFacts
<1>2. (\A k \in 0 .. n : f[k] \in 0 .. all) /\ f[n] = all
  BY <1>1, StreamNumbered, IndexNext
<1>3. \A k \in 0 .. n - 1 : f[k + 1] = IF k \in S THEN f[k] + 1 ELSE f[k]
  <2> SUFFICES ASSUME NEW k \in 0 .. n - 1
               PROVE  f[k + 1] = IF k \in S THEN f[k] + 1 ELSE f[k]
    OBVIOUS
  <2>1. k \in 0 .. n /\ k + 1 \in 0 .. n /\ k \in Nat
    BY <1>1
  <2> QED BY <2>1, IndexNext
<1>4. \A k \in 0 .. n - 1 : heads[k] = IF k \in S THEN f[k] ELSE -1
  BY <1>1
<1>5. RdmaHead(s) = Encoded(heads, n)
  BY DEF RdmaHead
<1>6. t \in 0 .. n - 1 /\ t \in 0 .. n /\ f[t] = Index(s, t)
  BY <1>1
<1> HIDE DEF n, all, S, f, heads
<1>8. RdmaHead(s)[t] = IF t \in S THEN f[t] ELSE -Coming(f[t], all) - 1
  <2>1. \A k \in 0 .. n - 1 :
          Encoded(heads, n)[k] = IF k \in S THEN f[k] ELSE -Coming(f[k], all) - 1
    <3>1. Counting(f, S, n, all) /\ Noted(heads, f, S, n)
      BY <1>2, <1>3, <1>4 DEF Counting, Noted
    <3> QED BY <1>1, <3>1, EncodedIs
  <2> QED BY <1>5, <1>6, <2>1
<1>9. Index(s, t) \in Nat /\ (t \in S => Index(s, t) < all)
  <2>1. t \in 0 .. n - 1 /\ t + 1 \in 0 .. n
    BY <1>1, <1>6
  <2>2. f[t] \in 0 .. all /\ f[t + 1] \in 0 .. all
    BY <1>2, <1>6, <2>1
  <2>3. t \in S => f[t + 1] = f[t] + 1
    BY <1>3, <2>1
  <2>4. PICK b \in Nat, c \in Nat : b = f[t] /\ c = f[t + 1] /\ c <= all
    BY <1>1, <2>2
  <2> QED BY <1>1, <1>6, <2>3, <2>4
<1>10. RdmaHead(s)[t] = IF t \in Chosen(s) THEN Index(s, t) ELSE -Coming(Index(s, t), all) - 1
  BY <1>6, <1>8 DEF S
<1>11. t \in Chosen(s) => Index(s, t) < all
  BY <1>9 DEF S
<1>12. Index(s, t) \in Nat /\ all \in Nat /\ all <= Large
  BY <1>1, <1>9
<1> QED BY <1>10, <1>11, <1>12, HeadRead DEF all

-----------------------------------------------------------------------------
(* A head that a warp keeps has not passed the place n it has come to; if  *)
(* no row is to come, it may be the large one.                             *)
Kept(h, n, all) == h <= n \/ (h = Large /\ n = all)

(* Where a chunk ends that is being written, or the next begins.           *)
Bound(s) == IF room[s] THEN ChunkEnd(s) ELSE Smaller(start[s], Total(s))

(* How far a sub-warp has come, and which sums are written.                *)
Spot(s, j) == IF room[s] THEN Smaller(sub[s][j].at, ChunkEnd(s)) ELSE Bound(s)
TurnOf(s, i) == (i - start[s]) % NumForwarders
Done(s, i) == \/ i < start[s]
              \/ room[s] /\ i < ChunkEnd(s) /\ i < sub[s][TurnOf(s, i)].at
-----------------------------------------------------------------------------
(* A sub-warp or receiver; a message on the network.                       *)
Warp == [at : Nat, waits : BOOLEAN]
Message == [kind : {"put", "add"}, from : Nat, num : Nat \ {0}]

(* What the counters are.                                                  *)
CountTyped ==
  /\ to \in Runs
  /\ rdmaHeads = [s \in Source |-> RdmaHead(s)]
  /\ nvlHeads = [s \in Source |-> [p \in Peer |-> NvlHead(s, p)]]
  /\ filled \in [Source -> [Peer -> Nat]]
  /\ nvlTail \in [Source -> [Peer -> Nat]]
  /\ nvlHead \in [Source -> [Peer -> Nat]]
  /\ start \in [Source -> Nat]
  /\ room \in [Source -> BOOLEAN]
  /\ sub \in [Source -> [SubWarp -> Warp]]
  /\ subHead \in [Source -> [SubWarp -> [Peer -> Nat]]]
  /\ subRetired \in [Source -> SUBSET SubWarp]
  /\ wire \in [Source -> Seq(Message)]
  /\ head \in [Source -> Nat]
  /\ tail \in [Source -> Nat]
  /\ rcv \in [Receiver -> Warp]
  /\ rcvHead \in [Receiver -> [Source -> Nat]]
  /\ rcvRetired \in SUBSET Receiver

(* The sub-warps of a chunk walk their residue classes from its start.     *)
Walk(s) ==
  /\ start[s] % RdmaSend = 0
  /\ room[s] => start[s] < Total(s)
  /\ subRetired[s] # {} => start[s] >= Total(s)
  /\ \A j \in SubWarp :
       /\ room[s] => /\ sub[s][j].at >= start[s]
                     /\ (sub[s][j].at - start[s]) % NumForwarders = j
       /\ sub[s][j].waits => room[s] /\ sub[s][j].at < ChunkEnd(s)

(* An NVLink queue: rows copied, published and given back.                 *)
Queue(s, p) ==
  /\ nvlTail[s][p] <= filled[s][p] /\ filled[s][p] <= nvlTail[s][p] + NvlSend
  /\ filled[s][p] <= Share(s, p)
  /\ filled[s][p] <= nvlHead[s][p] + NvlRecv
  /\ Kept(nvlHead[s][p], nvlTail[s][p], Share(s, p))
  /\ \A i \in 0 .. Total(s) - 1 :
       Done(s, i) /\ TokenAt(s, i) \in For(s, p) => Ahead(s, p, i) < nvlTail[s][p]
  /\ \A j \in SubWarp :
       /\ Kept(subHead[s][j][p], Ahead(s, p, Spot(s, j)), Share(s, p))
       /\ sub[s][j].waits => subHead[s][j][p] = Awaited(nvlHeads[s][p][sub[s][j].at])
       /\ j \notin subRetired[s] => nvlHead[s][p] <= subHead[s][j][p]

(* What is on its way leads from the tail to where the next chunk starts.  *)
Link(v, k, e) ==
  /\ v[k].from + v[k].num <= e
  /\ v[k].kind = "put" => /\ k < Len(v)
                          /\ v[k + 1] = [v[k] EXCEPT !.kind = "add"]
  /\ v[k].kind = "add" =>
       IF k < Len(v)
       THEN v[k + 1].kind = "put" /\ v[k + 1].from = v[k].from + v[k].num
       ELSE v[k].from + v[k].num = e
Chain(v, t, e) ==
  /\ v \in Seq(Message)
  /\ v = <<>> => t = e
  /\ v # <<>> => v[1].from = t
  /\ \A k \in 1 .. Len(v) : Link(v, k, e)

(* The RDMA channel of a node: sums put, arrived and given back.           *)
Channel(s) ==
  /\ Chain(wire[s], tail[s], Smaller(start[s], Total(s)))
  /\ s = Home => wire[s] = <<>>
  /\ Kept(head[s], tail[s], Total(s))
  /\ Bound(s) <= head[s] + RdmaRecv
  /\ \A t \in Chosen(s) : t < rcv[t % NumReceivers].at => Index(s, t) < tail[s]
  /\ \A w \in Receiver :
       /\ Kept(rcvHead[w][s], Index(s, rcv[w].at), Total(s))
       /\ rcv[w].waits => rcvHead[w][s] = Awaited(rdmaHeads[s][rcv[w].at])
       /\ w \notin rcvRetired => head[s] <= rcvHead[w][s]

(* A receiver walks its own residue class of the tokens.                   *)
Turns(w) ==
  /\ rcv[w].at % NumReceivers = w
  /\ rcv[w].waits => rcv[w].at < NumTokens
  /\ w \in rcvRetired => rcv[w].at >= NumTokens

(* The counters: everything but the rows.                                  *)
CountInv ==
  /\ CountTyped
  /\ \A s \in Source : Walk(s) /\ Channel(s) /\ \A p \in Peer : Queue(s, p)
  /\ \A w \in Receiver : Turns(w)
-----------------------------------------------------------------------------
(* The sum of number i of node s.                                          *)
SumOf(s, i) == {<<s, p, TokenAt(s, i)>> : p \in to[TokenAt(s, i)][s]}

(* Where a forwarder writes its sums (for its own node, into the ring that *)
(* the receivers read), and how far they have come over the network.       *)
Buffer(s) == IF s = Home THEN ring[s] ELSE staged[s]
Frontier(s) == IF wire[s] # <<>> /\ wire[s][1].kind = "add"
               THEN tail[s] + wire[s][1].num ELSE tail[s]

(* The rings hold sets of rows, each of its own node and peer.             *)
RowsTyped ==
  /\ nvlRing \in [Source -> [Peer -> [0 .. NvlRecv - 1 -> SUBSET (Source \X Peer \X Token)]]]
  /\ staged \in [Source -> [0 .. RdmaRecv - 1 -> SUBSET (Source \X Peer \X Token)]]
  /\ ring \in [Source -> [0 .. RdmaRecv - 1 -> SUBSET (Source \X Peer \X Token)]]
  /\ DOMAIN combined = Token
  /\ \A s \in Source :
      /\ \A x \in 0 .. RdmaRecv - 1 : staged[s][x] \cup ring[s][x] \subseteq {s} \X Peer \X Token
      /\ \A p \in Peer : \A x \in 0 .. NvlRecv - 1 : nvlRing[s][p][x] \subseteq {s} \X {p} \X Token

(* A row copied is in its slot of the NVLink queue until that comes round. *)
QueueHolds(s, p) ==
  \A k \in 0 .. filled[s][p] - 1 :
    filled[s][p] <= k + NvlRecv => nvlRing[s][p][NvlSlot(k)] = {RowAt(s, p, k)}

(* A sum written is in its slot until the bound is a ring ahead of it.     *)
Written(s) ==
  \A i \in 0 .. Total(s) - 1 :
    Done(s, i) /\ Bound(s) <= i + RdmaRecv => Buffer(s)[RdmaSlot(i)] = SumOf(s, i)

(* A sum that has come over the network is in the ring of Home.            *)
ArrivedIn(s) ==
  s # Home => \A i \in 0 .. Frontier(s) - 1 :
    Frontier(s) <= i + RdmaRecv => ring[s][RdmaSlot(i)] = SumOf(s, i)

(* A token that its receiver has passed has all its rows, another none.    *)
Summed(t) ==
  combined[t] = IF t < rcv[t % NumReceivers].at THEN Held(t) ELSE NoSum

(* The rows.                                                               *)
RowInv ==
  /\ RowsTyped
  /\ \A s \in Source : Written(s) /\ ArrivedIn(s) /\ \A p \in Peer : QueueHolds(s, p)
  /\ \A t \in Token : Summed(t)

(* A head kept stays so further on, and is never past the head to come.    *)
LEMMA KeptFacts ==
  ASSUME NEW h \in Nat, NEW n \in Nat, NEW all \in Nat, all <= Large, n <= all, Kept(h, n, all)
  PROVE  /\ \A m \in Nat : n <= m /\ m <= all => Kept(h, m, all)
         /\ h <= Coming(n, all)
         /\ Kept(Coming(n, all), n, all)
         /\ Coming(n, all) \in Nat
BY DEF Kept, Coming, Large

-----------------------------------------------------------------------------
(* The run and what is computed from it never change.                      *)
LEMMA InputKept ==
  ASSUME UNCHANGED input
  PROVE  /\ Token' = Token /\ NumTokens' = NumTokens
         /\ \A s : /\ Chosen(s)' = Chosen(s) /\ Total(s)' = Total(s)
                   /\ RdmaHead(s)' = RdmaHead(s)
                   /\ \A t : Index(s, t)' = Index(s, t)
                   /\ \A i : TokenAt(s, i)' = TokenAt(s, i)
         /\ \A s, p : /\ For(s, p)' = For(s, p) /\ Share(s, p)' = Share(s, p)
                      /\ NvlHead(s, p)' = NvlHead(s, p)
                      /\ \A i : Ahead(s, p, i)' = Ahead(s, p, i)
<1>1. to' = to
  BY DEF input
<1> QED BY <1>1 DEF Token, NumTokens, Chosen, Total, RdmaHead, Index, TokenAt, For, Share, NvlHead,
                    Place, Ahead

(* What is kept of a node, part by part, when a step leaves alone what the *)
(* part speaks about.                                                      *)
LEMMA WalkKept ==
  ASSUME UNCHANGED input, NEW s \in Source, Walk(s),
         start'[s] = start[s], room'[s] = room[s], sub'[s] = sub[s], subRetired'[s] = subRetired[s]
  PROVE  Walk(s)'
BY InputKept DEF Walk, ChunkEnd

(* Which sums are written.                                                 *)
LEMMA DoneKept ==
  ASSUME UNCHANGED input, NEW s \in Source, start'[s] = start[s], room'[s] = room[s],
         sub'[s] = sub[s]
  PROVE  /\ \A i : Done(s, i)' <=> Done(s, i)
         /\ \A j : Spot(s, j)' = Spot(s, j)
         /\ Bound(s)' = Bound(s) /\ ChunkEnd(s)' = ChunkEnd(s)
BY InputKept DEF Done, Spot, Bound, ChunkEnd, TurnOf

(* An NVLink queue.                                                        *)
LEMMA QueueKept ==
  ASSUME UNCHANGED input, NEW s \in Source, NEW p \in Peer, Queue(s, p),
         start'[s] = start[s], room'[s] = room[s], sub'[s] = sub[s], subRetired'[s] = subRetired[s],
         subHead'[s] = subHead[s], filled'[s][p] = filled[s][p],
         nvlTail'[s][p] = nvlTail[s][p], nvlHead'[s][p] = nvlHead[s][p]
  PROVE  Queue(s, p)'
<1>1. nvlHeads' = nvlHeads
  BY DEF input
<1> QED BY <1>1, InputKept, DoneKept DEF Queue

(* An RDMA channel.                                                        *)
LEMMA ChannelKept ==
  ASSUME UNCHANGED input, NEW s \in Source, Channel(s),
         start'[s] = start[s], room'[s] = room[s], wire'[s] = wire[s], tail'[s] = tail[s],
         head'[s] = head[s], UNCHANGED <<rcv, rcvHead, rcvRetired>>
  PROVE  Channel(s)'
<1>1. rdmaHeads' = rdmaHeads
  BY DEF input
<1>2. Bound(s)' = Bound(s)
  BY InputKept DEF Bound, ChunkEnd
<1> QED BY <1>1, <1>2, InputKept DEF Channel

(* The turns of a receiver.                                                *)
LEMMA TurnsKept ==
  ASSUME UNCHANGED input, NEW w \in Receiver, Turns(w), UNCHANGED <<rcv, rcvRetired>>
  PROVE  Turns(w)'
BY InputKept DEF Turns

(* What a step of one source leaves to the others, and to the receivers.   *)
LEMMA OtherSources ==
  ASSUME CountInv, UNCHANGED input, NEW s \in Source, UNCHANGED <<rcv, rcvHead, rcvRetired>>,
         \A r \in Source : r # s =>
           /\ start'[r] = start[r] /\ room'[r] = room[r] /\ sub'[r] = sub[r]
           /\ subRetired'[r] = subRetired[r] /\ subHead'[r] = subHead[r]
           /\ filled'[r] = filled[r] /\ nvlTail'[r] = nvlTail[r] /\ nvlHead'[r] = nvlHead[r]
           /\ wire'[r] = wire[r] /\ tail'[r] = tail[r] /\ head'[r] = head[r],
         CountTyped', Walk(s)', Channel(s)', \A p \in Peer : Queue(s, p)'
  PROVE  CountInv'
<1>1. ASSUME NEW r \in Source PROVE Walk(r)' /\ Channel(r)' /\ \A p \in Peer : Queue(r, p)'
  <2>1. CASE r = s
    BY <2>1
  <2>2. CASE r # s
    BY <2>2, WalkKept, ChannelKept, QueueKept DEF CountInv
  <2> QED BY <2>1, <2>2
<1>2. \A w \in Receiver : Turns(w)'
  BY TurnsKept DEF CountInv
<1> QED BY <1>1, <1>2 DEF CountInv
-----------------------------------------------------------------------------
(* The fields of a message.                                                *)
LEMMA MessageFacts ==
  ASSUME NEW m \in Message
  PROVE  /\ m.kind \in {"put", "add"} /\ m.from \in Nat /\ m.num \in Nat \ {0}
         /\ [m EXCEPT !.kind = "add"] = [kind |-> "add", from |-> m.from, num |-> m.num]
BY DEF Message

(* A chunk posted makes the chain longer.                                  *)
LEMMA ChainIssue ==
  ASSUME NEW v, NEW t \in Nat, NEW e \in Nat, Chain(v, t, e), NEW n \in Nat \ {0}
  PROVE  Chain(v \o <<[kind |-> "put", from |-> e, num |-> n], [kind |-> "add", from |-> e, num |-> n]>>,
               t, e + n)
<1> DEFINE a == [kind |-> "put", from |-> e, num |-> n]
           b == [kind |-> "add", from |-> e, num |-> n]
           w == v \o <<a, b>>
<1>1. v \in Seq(Message) /\ Len(v) \in Nat
  BY DEF Chain
<1>2. a \in Message /\ b \in Message /\ b = [a EXCEPT !.kind = "add"]
  BY DEF Message
<1>3. w \in Seq(Message) /\ Len(w) = Len(v) + 2
  BY <1>1, <1>2
<1>4. /\ \A k \in 1 .. Len(v) : w[k] = v[k]
      /\ w[Len(v) + 1] = a /\ w[Len(v) + 2] = b
  BY <1>1, <1>2
<1>5. /\ a.kind = "put" /\ a.from = e /\ a.num = n /\ b.kind = "add" /\ b.from = e /\ b.num = n
  OBVIOUS
<1> HIDE DEF a, b, w
<1>6. w # <<>> /\ w[1].from = t
  <2>1. CASE v = <<>>
    <3>1. Len(v) = 0 /\ Len(v) + 1 = 1 /\ t = e
      BY <2>1 DEF Chain
    <3>2. w[1] = a /\ Len(w) = 2
      <4>1. w[Len(v) + 1] = w[1]
        BY <3>1
      <4> QED BY <1>3, <1>4, <3>1, <4>1
    <3>3. w # <<>>
      BY <3>2
    <3>4. w[1].from = t
      BY <1>5, <3>1, <3>2
    <3> QED BY <3>3, <3>4
  <2>2. CASE v # <<>>
    <3>1. 1 \in 1 .. Len(v)
      BY <1>1, <2>2
    <3> QED BY <1>3, <1>4, <2>2, <3>1 DEF Chain
  <2> QED BY <2>1, <2>2
<1>7. ASSUME NEW k \in 1 .. Len(w) PROVE Link(w, k, e + n)
  <2>1. CASE k \in 1 .. Len(v) - 1
    <3>1. k \in 1 .. Len(v) /\ k + 1 \in 1 .. Len(v) /\ k < Len(v) /\ k < Len(w)
      BY <1>1, <1>3, <2>1
    <3>2. w[k] = v[k] /\ w[k + 1] = v[k + 1] /\ v[k] \in Message
      BY <1>1, <1>4, <3>1
    <3>3. PICK x \in Nat, y \in Nat : x = v[k].from /\ y = v[k].num
      BY <3>2, MessageFacts
    <3>4. x + y <= e
      BY <3>1, <3>3 DEF Chain, Link
    <3>5. x + y <= e + n
      BY <3>4
    <3>6. Link(v, k, e)
      BY <3>1 DEF Chain
    <3> QED BY <3>1, <3>2, <3>3, <3>5, <3>6 DEF Link
  <2>2. CASE k = Len(v)
    <3>1. k \in 1 .. Len(v) /\ k < Len(w) /\ ~(k < Len(v)) /\ k + 1 = Len(v) + 1
      BY <1>1, <1>3, <2>2
    <3>2. w[k] = v[k] /\ w[k + 1] = a /\ v[k] \in Message
      BY <1>1, <1>4, <3>1
    <3>3. v[k].kind # "put" /\ (v[k].kind = "add" => v[k].from + v[k].num = e)
      BY <3>1 DEF Chain, Link
    <3>4. v[k].kind = "add"
      BY <3>2, <3>3, MessageFacts
    <3>5. v[k].from + v[k].num = e /\ e <= e + n
      BY <3>3, <3>4
    <3> QED BY <1>5, <3>1, <3>2, <3>4, <3>5 DEF Link
  <2>3. CASE k = Len(v) + 1
    <3>1. k < Len(w) /\ k + 1 = Len(v) + 2
      BY <1>1, <1>3, <2>3
    <3> QED BY <1>2, <1>4, <1>5, <2>3, <3>1 DEF Link
  <2>4. CASE k = Len(v) + 2
    <3>1. ~(k < Len(w))
      BY <1>1, <1>3, <2>4
    <3> QED BY <1>4, <1>5, <2>4, <3>1 DEF Link
  <2>5. k \in 1 .. Len(v) - 1 \/ k = Len(v) \/ k = Len(v) + 1 \/ k = Len(v) + 2
    BY <1>1, <1>3
  <2> QED BY <2>1, <2>2, <2>3, <2>4, <2>5
<1>8. Chain(w, t, e + n)
  BY <1>3, <1>6, <1>7 DEF Chain
<1> QED BY <1>8 DEF w, a, b

(* A message carried out leaves a chain, from the tail after it.           *)
LEMMA ChainDeliver ==
  ASSUME NEW v, NEW t \in Nat, NEW e \in Nat, Chain(v, t, e), v # <<>>
  PROVE  /\ v[1] \in Message /\ v[1].from = t /\ t + v[1].num <= e
         /\ v[1].kind = "put" => /\ Chain(Tail(v), t, e)
                                 /\ Tail(v) # <<>>
                                 /\ Tail(v)[1] = [v[1] EXCEPT !.kind = "add"]
         /\ v[1].kind = "add" => /\ Chain(Tail(v), t + v[1].num, e)
                                 /\ Tail(v) # <<>> => Tail(v)[1].kind = "put"
<1> DEFINE w == Tail(v)
<1>1. /\ v \in Seq(Message) /\ Len(v) \in Nat \ {0} /\ 1 \in 1 .. Len(v)
  BY DEF Chain
<1>2. w \in Seq(Message) /\ Len(w) = Len(v) - 1 /\ \A k \in 1 .. Len(w) : w[k] = v[k + 1]
  BY <1>1, HeadTailProperties, v # <<>>
<1>3. v[1] \in Message /\ v[1].from = t /\ Link(v, 1, e)
  BY <1>1 DEF Chain
<1>31. t + v[1].num <= e
  BY <1>3 DEF Link
<1> HIDE DEF w
<1>4. ASSUME NEW k \in 1 .. Len(w) PROVE Link(w, k, e)
  <2>1. PICK l \in 1 .. Len(v) : l = k + 1 /\ (l < Len(v) <=> k < Len(w))
    BY <1>1, <1>2
  <2>2. w[k] = v[l]
    BY <1>2, <2>1
  <2>3. k < Len(w) => w[k + 1] = v[l + 1]
    BY <1>1, <1>2, <2>1
  <2>4. Link(v, l, e)
    BY DEF Chain
  <2> QED BY <2>1, <2>2, <2>3, <2>4 DEF Link
<1>5. w = <<>> <=> ~(1 < Len(v))
  BY <1>1, <1>2
<1>6. w # <<>> => w[1] = v[2]
  BY <1>1, <1>2
<1>7. ASSUME v[1].kind = "put"
      PROVE  Chain(w, t, e) /\ w # <<>> /\ w[1] = [v[1] EXCEPT !.kind = "add"]
  <2>1. 1 < Len(v) /\ v[2] = [v[1] EXCEPT !.kind = "add"]
    BY <1>1, <1>3, <1>7 DEF Link
  <2>2. w # <<>> /\ w[1] = [v[1] EXCEPT !.kind = "add"]
    BY <1>5, <1>6, <2>1
  <2>3. w[1].from = t
    <3>1. w[1] = [kind |-> "add", from |-> v[1].from, num |-> v[1].num]
      BY <1>3, <2>2, MessageFacts
    <3> QED BY <1>3, <3>1
  <2> QED BY <1>2, <1>4, <2>2, <2>3 DEF Chain
<1>8. ASSUME v[1].kind = "add"
      PROVE  Chain(w, t + v[1].num, e) /\ (w # <<>> => w[1].kind = "put")
  <2>1. CASE 1 < Len(v)
    <3>1. v[2].kind = "put" /\ v[2].from = v[1].from + v[1].num
      BY <1>1, <1>3, <1>8, <2>1 DEF Link
    <3>2. w # <<>> /\ w[1].kind = "put" /\ w[1].from = t + v[1].num
      BY <1>3, <1>5, <1>6, <2>1, <3>1
    <3> QED BY <1>2, <1>4, <3>2 DEF Chain
  <2>2. CASE ~(1 < Len(v))
    <3>1. v[1].from + v[1].num = e
      BY <1>1, <1>3, <1>8, <2>2 DEF Link
    <3> QED BY <1>2, <1>3, <1>4, <1>5, <2>2, <3>1 DEF Chain
  <2> QED BY <2>1, <2>2
<1> QED BY <1>3, <1>31, <1>7, <1>8 DEF w

-----------------------------------------------------------------------------
(* Where the forwarder of a node stands.                                   *)
LEMMA SourceFacts ==
  ASSUME CountInv, NEW s \in Source
  PROVE  /\ to \in Runs /\ start[s] \in Nat /\ Total(s) \in Nat /\ Total(s) <= Large
         /\ ChunkEnd(s) \in Nat /\ ChunkEnd(s) <= Total(s) /\ ChunkEnd(s) <= start[s] + RdmaSend
         /\ Bound(s) \in Nat /\ Bound(s) <= Total(s)
         /\ start[s] < Total(s) => start[s] < ChunkEnd(s)
         /\ room[s] => start[s] < Total(s) /\ Bound(s) = ChunkEnd(s)
         /\ Smaller(start[s], Total(s)) \in Nat /\ Smaller(start[s], Total(s)) <= Bound(s)
         /\ \A j \in SubWarp : /\ sub[s][j].at \in Nat /\ Spot(s, j) \in Nat
                               /\ Spot(s, j) <= Bound(s) /\ Smaller(start[s], Total(s)) <= Spot(s, j)
         /\ head[s] \in Nat /\ tail[s] \in Nat /\ tail[s] <= Smaller(start[s], Total(s))
<1>1. /\ to \in Runs /\ start[s] \in Nat /\ room[s] \in BOOLEAN /\ head[s] \in Nat /\ tail[s] \in Nat
      /\ \A j \in SubWarp : sub[s][j].at \in Nat
  BY DEF CountInv, CountTyped, Warp
<1>2. Total(s) \in Nat /\ Total(s) <= Large
  BY <1>1, StreamFacts
<1>3. RdmaSend \in Nat \ {0}
  BY SizesAssumption
<1>4. room[s] => /\ start[s] < Total(s)
                 /\ \A j \in SubWarp : sub[s][j].at >= start[s]
  BY DEF CountInv, Walk
<1>5. /\ ChunkEnd(s) \in Nat /\ ChunkEnd(s) <= Total(s) /\ ChunkEnd(s) <= start[s] + RdmaSend
      /\ start[s] < Total(s) => start[s] < ChunkEnd(s)
  BY <1>1, <1>2, <1>3 DEF ChunkEnd, Smaller
<1>6. Smaller(start[s], Total(s)) \in Nat /\ Smaller(start[s], Total(s)) <= Total(s)
      /\ Smaller(start[s], Total(s)) <= start[s]
  BY <1>1, <1>2 DEF Smaller
<1>7. /\ Bound(s) \in Nat /\ Bound(s) <= Total(s) /\ (room[s] => Bound(s) = ChunkEnd(s))
      /\ Smaller(start[s], Total(s)) <= Bound(s)
  <2>1. CASE room[s]
    BY <1>1, <1>4, <1>5, <1>6, <2>1 DEF Bound
  <2>2. CASE ~room[s]
    BY <1>6, <2>2 DEF Bound
  <2> QED BY <2>1, <2>2
<1>8. ASSUME NEW j \in SubWarp
      PROVE  /\ Spot(s, j) \in Nat /\ Spot(s, j) <= Bound(s)
             /\ Smaller(start[s], Total(s)) <= Spot(s, j)
  <2>1. CASE room[s]
    <3>1. Spot(s, j) = Smaller(sub[s][j].at, ChunkEnd(s)) /\ Bound(s) = ChunkEnd(s)
      BY <1>7, <2>1 DEF Spot
    <3>2. PICK a \in Nat, c \in Nat, b \in Nat :
            /\ a = sub[s][j].at /\ c = ChunkEnd(s) /\ b = start[s] /\ b <= a /\ b < c
      BY <1>1, <1>4, <1>5, <2>1
    <3> QED BY <1>6, <3>1, <3>2 DEF Smaller
  <2>2. CASE ~room[s]
    BY <1>7, <2>2 DEF Spot, Bound
  <2> QED BY <2>1, <2>2
<1>9. tail[s] <= Smaller(start[s], Total(s))
  <2>1. Chain(wire[s], tail[s], Smaller(start[s], Total(s)))
    BY DEF CountInv, Channel
  <2>2. CASE wire[s] = <<>>
    BY <1>1, <2>1, <2>2 DEF Chain
  <2>3. CASE wire[s] # <<>>
    <3>1. wire[s][1] \in Message /\ tail[s] + wire[s][1].num <= Smaller(start[s], Total(s))
      <4>1. PICK e \in Nat : e = Smaller(start[s], Total(s))
        BY <1>6
      <4>2. PICK t \in Nat : t = tail[s]
        BY <1>1
      <4>3. PICK v : v = wire[s]
        OBVIOUS
      <4>4. Chain(v, t, e) /\ v # <<>>
        BY <2>1, <2>3, <4>1, <4>2, <4>3
      <4>5. v[1] \in Message /\ t + v[1].num <= e
        BY <4>4, ChainDeliver
      <4> QED BY <4>1, <4>2, <4>3, <4>5
    <3>2. PICK n \in Nat : n = wire[s][1].num
      BY <3>1, MessageFacts
    <3> QED BY <1>1, <1>6, <3>1, <3>2
  <2> QED BY <2>2, <2>3
<1> QED BY <1>1, <1>2, <1>4, <1>5, <1>6, <1>7, <1>8, <1>9

(* The sub-warps share a chunk out.                                        *)
LEMMA TurnFacts ==
  ASSUME CountInv, NEW s \in Source, NEW i \in Nat
  PROVE  /\ TurnOf(s, i) \in SubWarp
         /\ i >= start[s] => TurnOf(s, i) <= i - start[s]
         /\ \A j \in SubWarp :
              room[s] /\ i >= start[s] /\ TurnOf(s, i) = j
                /\ sub[s][j].at <= i /\ i < sub[s][j].at + NumForwarders => i = sub[s][j].at
<1>1. NumForwarders \in Nat \ {0} /\ SubWarp = 0 .. NumForwarders - 1
  BY SizesAssumption DEF SubWarp
<1>2. start[s] \in Nat /\ \A j \in SubWarp : sub[s][j].at \in Nat
  BY SourceFacts
<1>3. TurnOf(s, i) \in SubWarp
  BY <1>1, <1>2 DEF TurnOf
<1>4. i >= start[s] => TurnOf(s, i) <= i - start[s]
  <2> SUFFICES ASSUME i >= start[s] PROVE TurnOf(s, i) <= i - start[s]
    OBVIOUS
  <2>1. PICK x \in Nat : x = i - start[s]
    BY <1>2
  <2>2. x % NumForwarders <= x
    BY <1>1
  <2> QED BY <2>1, <2>2 DEF TurnOf
<1>5. ASSUME NEW j \in SubWarp, room[s], i >= start[s], TurnOf(s, i) = j,
             sub[s][j].at <= i, i < sub[s][j].at + NumForwarders
      PROVE  i = sub[s][j].at
  <2>1. sub[s][j].at >= start[s] /\ (sub[s][j].at - start[s]) % NumForwarders = j
    BY <1>5 DEF CountInv, Walk
  <2>2. PICK x \in Nat, y \in Nat : x = sub[s][j].at - start[s] /\ y = i - start[s]
    BY <1>2, <1>5, <2>1
  <2>3. x % NumForwarders = y % NumForwarders
    BY <1>5, <2>1, <2>2 DEF TurnOf
  <2>4. x <= y /\ y < x + NumForwarders
    <3>1. PICK a \in Nat, b \in Nat, c \in Nat :
            a = sub[s][j].at /\ b = start[s] /\ c = NumForwarders
      BY <1>1, <1>2
    <3>2. x = a - b /\ y = i - b
      BY <2>2, <3>1
    <3>3. a <= i /\ i < a + c
      BY <1>5, <3>1
    <3>4. x <= y /\ y < x + c
      BY <3>2, <3>3
    <3> QED BY <3>1, <3>4
  <2>5. x = y
    BY <1>1, <2>3, <2>4, SameResidue
  <2> QED BY <1>2, <2>2, <2>5
<1> QED BY <1>3, <1>4, <1>5

(* The counts of an NVLink queue.                                          *)
LEMMA QueueFacts ==
  ASSUME CountInv, NEW s \in Source, NEW p \in Peer
  PROVE  /\ filled[s][p] \in Nat /\ nvlTail[s][p] \in Nat /\ nvlHead[s][p] \in Nat
         /\ NvlSend \in Nat \ {0} /\ NvlRecv \in Nat \ {0}
         /\ Share(s, p) \in Nat /\ Share(s, p) <= Large
         /\ \A j \in SubWarp : subHead[s][j][p] \in Nat
         /\ Queue(s, p)
<1>1. to \in Runs /\ filled[s][p] \in Nat /\ nvlTail[s][p] \in Nat /\ nvlHead[s][p] \in Nat
      /\ \A j \in SubWarp : subHead[s][j][p] \in Nat
  BY DEF CountInv, CountTyped
<1>2. Share(s, p) \in Nat /\ Share(s, p) <= Large
  BY <1>1, StreamFacts
<1> QED BY <1>1, <1>2, SizesAssumption DEF CountInv
-----------------------------------------------------------------------------
(* An NVLink sender copies a chunk into room that it has.                  *)
LEMMA SendChunkCounts ==
  ASSUME CountInv, NEW s \in Source, NEW p \in Peer, SendChunk(s, p)
  PROVE  CountInv'
<1>1. /\ UNCHANGED <<input, nvlTail, nvlHead, start, room, sub, subHead, subRetired, wire, head,
                     tail, rcv, rcvHead, rcvRetired>>
      /\ filled' = [filled EXCEPT ![s][p] = @ + Smaller(NvlSend, Share(s, p) - filled[s][p])]
  BY DEF SendChunk, forwarder, receiver, Share
<1>2. PICK n \in Nat \ {0} :
        /\ n = Smaller(NvlSend, Share(s, p) - filled[s][p])
        /\ n <= NvlSend /\ filled[s][p] + n <= Share(s, p)
        /\ filled[s][p] = nvlTail[s][p] /\ filled[s][p] + NvlSend <= nvlHead[s][p] + NvlRecv
  <2>1. PICK m \in Int : m = Share(s, p) - filled[s][p]
    BY QueueFacts
  <2>2. Smaller(NvlSend, m) > 0 /\ Smaller(NvlSend, m) \in Nat /\ Smaller(NvlSend, m) <= NvlSend
        /\ Smaller(NvlSend, m) <= m
    BY <2>1, QueueFacts DEF SendChunk, Smaller, Share
  <2>3. filled[s][p] = nvlTail[s][p] /\ filled[s][p] + NvlSend <= nvlHead[s][p] + NvlRecv
    BY QueueFacts DEF SendChunk
  <2> QED BY <2>1, <2>2, <2>3, QueueFacts
<1>3. filled' = [filled EXCEPT ![s][p] = filled[s][p] + n]
  BY <1>1, <1>2
<1>4. CountTyped'
  <2>1. filled' \in [Source -> [Peer -> Nat]]
    <3>1. filled \in [Source -> [Peer -> Nat]] /\ filled[s][p] + n \in Nat
      BY QueueFacts DEF CountInv, CountTyped
    <3> QED BY <1>3, <3>1
  <2> QED BY <1>1, <2>1, InputKept DEF CountInv, CountTyped, input
<1>5. Walk(s)' /\ Channel(s)'
  BY <1>1, WalkKept, ChannelKept DEF CountInv
<1>6. ASSUME NEW q \in Peer PROVE Queue(s, q)'
  <2>1. CASE q # p
    <3>1. filled'[s][q] = filled[s][q]
      BY <1>3, <2>1 DEF CountInv, CountTyped
    <3> QED BY <1>1, <3>1, QueueKept, QueueFacts
  <2>2. CASE q = p
    <3>1. filled'[s][p] = filled[s][p] + n
      BY <1>3 DEF CountInv, CountTyped
    <3>2. /\ nvlTail[s][p] <= filled[s][p] + n /\ filled[s][p] + n <= nvlTail[s][p] + NvlSend
          /\ filled[s][p] + n <= nvlHead[s][p] + NvlRecv
      BY <1>2, QueueFacts
    <3> QED BY <1>1, <1>2, <2>2, <3>1, <3>2, InputKept, DoneKept, QueueFacts, SMTT(60) DEF Queue, input
  <2> QED BY <2>1, <2>2
<1>7. \A r \in Source : r # s => filled'[r] = filled[r]
  BY <1>3 DEF CountInv, CountTyped
<1> QED BY <1>1, <1>4, <1>5, <1>6, <1>7, OtherSources

(* It moves the tail over the chunk.                                       *)
LEMMA PublishChunkCounts ==
  ASSUME CountInv, NEW s \in Source, NEW p \in Peer, PublishChunk(s, p)
  PROVE  CountInv'
<1>1. /\ UNCHANGED <<input, filled, nvlHead, start, room, sub, subHead, subRetired, wire, head,
                     tail, rcv, rcvHead, rcvRetired>>
      /\ nvlTail' = [nvlTail EXCEPT ![s][p] = filled[s][p]]
  BY DEF PublishChunk, forwarder, receiver
<1>2. nvlTail[s][p] <= filled[s][p] /\ filled[s][p] <= Share(s, p)
  BY QueueFacts DEF Queue
<1>3. CountTyped'
  <2>1. nvlTail' \in [Source -> [Peer -> Nat]]
    <3>1. nvlTail \in [Source -> [Peer -> Nat]] /\ filled[s][p] \in Nat
      BY QueueFacts DEF CountInv, CountTyped
    <3> QED BY <1>1, <3>1
  <2> QED BY <1>1, <2>1, InputKept DEF CountInv, CountTyped, input
<1>5. Walk(s)' /\ Channel(s)'
  BY <1>1, WalkKept, ChannelKept DEF CountInv
<1>6. ASSUME NEW q \in Peer PROVE Queue(s, q)'
  <2>1. CASE q # p
    <3>1. nvlTail'[s][q] = nvlTail[s][q]
      BY <1>1, <2>1 DEF CountInv, CountTyped
    <3> QED BY <1>1, <3>1, QueueKept, QueueFacts
  <2>2. CASE q = p
    <3>1. nvlTail'[s][p] = filled[s][p]
      BY <1>1 DEF CountInv, CountTyped
    <3>2. Kept(nvlHead[s][p], filled[s][p], Share(s, p))
      BY <1>2, QueueFacts, KeptFacts, SMTT(60) DEF Queue
    <3>3. ASSUME NEW i \in 0 .. Total(s) - 1, Done(s, i), TokenAt(s, i) \in For(s, p)
          PROVE  Ahead(s, p, i) < filled[s][p]
      <4>1. Ahead(s, p, i) \in Nat /\ Total(s) \in Nat
        BY AheadFacts, SourceFacts
      <4>2. Ahead(s, p, i) < nvlTail[s][p]
        BY <3>3, QueueFacts DEF Queue
      <4> QED BY <1>2, <4>1, <4>2, QueueFacts
    <3>4. filled[s][p] <= filled[s][p] + NvlSend /\ filled[s][p] <= filled[s][p]
      BY QueueFacts
    <3>5. UNCHANGED nvlHeads
      BY <1>1 DEF input
    <3> QED BY <1>1, <1>2, <2>2, <3>1, <3>2, <3>3, <3>4, <3>5, InputKept, DoneKept, QueueFacts
            DEF Queue
  <2> QED BY <2>1, <2>2
<1>7. \A r \in Source : r # s => nvlTail'[r] = nvlTail[r]
  BY <1>1 DEF CountInv, CountTyped
<1> QED BY <1>1, <1>3, <1>5, <1>6, <1>7, OtherSources

(* A place kept for fewer rows is kept for more.                           *)
LEMMA KeptOn ==
  ASSUME CountInv, NEW s \in Source, NEW p \in Peer, NEW h \in Nat, NEW i \in Nat, NEW k \in Nat,
         i <= k, Kept(h, Ahead(s, p, i), Share(s, p))
  PROVE  Kept(h, Ahead(s, p, k), Share(s, p))
<1>1. /\ Ahead(s, p, i) \in 0 .. Share(s, p) /\ Ahead(s, p, k) \in 0 .. Share(s, p)
      /\ Ahead(s, p, i) <= Ahead(s, p, k)
  BY SourceFacts, AheadFacts
<1>2. PICK m \in Nat, n \in Nat, all \in Nat :
        /\ m = Ahead(s, p, i) /\ n = Ahead(s, p, k) /\ all = Share(s, p)
        /\ m <= n /\ n <= all /\ all <= Large
  BY <1>1, QueueFacts
<1>3. Kept(h, n, all)
  BY <1>2 DEF Kept, Large
<1> QED BY <1>2, <1>3

(* A forwarder finds room for a chunk; its sub-warps begin it.             *)
LEMMA AwaitRoomCounts ==
  ASSUME CountInv, NEW s \in Source, AwaitRoom(s)
  PROVE  /\ CountInv'
         /\ \A i \in 0 .. Total(s) - 1 : Done(s, i)' => Done(s, i)
         /\ Bound(s) <= Bound(s)'
<1>1. /\ UNCHANGED <<input, filled, nvlTail, nvlHead, start, subHead, subRetired, wire, head,
                     tail, rcv, rcvHead, rcvRetired>>
      /\ room' = [room EXCEPT ![s] = TRUE]
      /\ sub' = [sub EXCEPT ![s] = [j \in SubWarp |-> [at |-> start[s] + j, waits |-> FALSE]]]
      /\ start[s] < Total(s) /\ ~room[s]
      /\ RdmaRecv - (start[s] - head[s]) >= ChunkEnd(s) - start[s]
  BY DEF AwaitRoom, nvlink, receiver
<1>2. /\ start[s] \in Nat /\ Total(s) \in Nat /\ head[s] \in Nat /\ RdmaRecv \in Nat
      /\ SubWarp \subseteq Nat /\ ChunkEnd(s) \in Nat /\ start[s] < ChunkEnd(s)
      /\ NumForwarders \in Nat \ {0}
  BY <1>1, SourceFacts, SizesAssumption DEF SubWarp
<1>3. CountTyped'
  <2>1. room' \in [Source -> BOOLEAN]
    BY <1>1 DEF CountInv, CountTyped
  <2>2. sub' \in [Source -> [SubWarp -> Warp]]
    <3>1. [j \in SubWarp |-> [at |-> start[s] + j, waits |-> FALSE]] \in [SubWarp -> Warp]
      BY <1>2 DEF Warp
    <3> QED BY <1>1, <3>1 DEF CountInv, CountTyped
  <2> QED BY <1>1, <2>1, <2>2, InputKept DEF CountInv, CountTyped, input
<1>4. /\ room'[s] = TRUE /\ start'[s] = start[s] /\ subHead' = subHead /\ subRetired' = subRetired
      /\ \A j \in SubWarp : sub'[s][j].at = start[s] + j /\ sub'[s][j].waits = FALSE
      /\ ChunkEnd(s)' = ChunkEnd(s)
  <2>1. ChunkEnd(s)' = ChunkEnd(s)
    BY <1>1, InputKept DEF ChunkEnd
  <2> QED BY <1>1, <2>1 DEF CountInv, CountTyped
<1>5. Walk(s)'
  <2>1. ASSUME NEW j \in SubWarp
        PROVE  start[s] + j >= start[s] /\ ((start[s] + j) - start[s]) % NumForwarders = j
    <3>1. (start[s] + j) - start[s] = j /\ j \in 0 .. NumForwarders - 1
      BY <1>2 DEF SubWarp
    <3>2. j % NumForwarders = j
      BY <1>2, <3>1
    <3> QED BY <1>2, <3>1, <3>2
  <2>2. start[s] % RdmaSend = 0 /\ (subRetired[s] # {} => start[s] >= Total(s))
    BY DEF CountInv, Walk
  <2> QED BY <1>1, <1>4, <2>1, <2>2, InputKept DEF Walk
<1>6. Channel(s)'
  <2>1. Bound(s)' = ChunkEnd(s)
    BY <1>4 DEF Bound
  <2>2. ChunkEnd(s) <= head[s] + RdmaRecv
    BY <1>1, <1>2
  <2>3. Channel(s) /\ UNCHANGED rdmaHeads
    BY <1>1 DEF CountInv, input
  <2> QED BY <1>1, <2>1, <2>2, <2>3, InputKept DEF Channel
<1>7. \A i \in 0 .. Total(s) - 1 : Done(s, i)' => Done(s, i)
  <2> SUFFICES ASSUME NEW i \in 0 .. Total(s) - 1, Done(s, i)' PROVE i < start[s]
    BY DEF Done
  <2>1. TurnOf(s, i)' = TurnOf(s, i)
    BY <1>1 DEF TurnOf
  <2>2. i \in Nat /\ TurnOf(s, i) \in SubWarp /\ (i >= start[s] => TurnOf(s, i) <= i - start[s])
    BY <1>2, TurnFacts
  <2>3. i < start[s] \/ i < start[s] + TurnOf(s, i)
    BY <1>1, <1>4, <2>1, <2>2 DEF Done
  <2> QED BY <1>2, <2>2, <2>3
<1>8. \A j \in SubWarp : Spot(s, j)' \in Nat /\ Spot(s, j) <= Spot(s, j)'
  <2> SUFFICES ASSUME NEW j \in SubWarp PROVE Spot(s, j)' \in Nat /\ Spot(s, j) <= Spot(s, j)'
    OBVIOUS
  <2>1. Spot(s, j) = start[s]
    BY <1>1, <1>2 DEF Spot, Bound, Smaller
  <2>2. Spot(s, j)' = Smaller(start[s] + j, ChunkEnd(s))
    BY <1>4 DEF Spot
  <2> QED BY <1>2, <2>1, <2>2 DEF Smaller
<1>9. ASSUME NEW p \in Peer PROVE Queue(s, p)'
  <2>1. ASSUME NEW j \in SubWarp PROVE Kept(subHead[s][j][p], Ahead(s, p, Spot(s, j)'), Share(s, p))
    <3>1. Kept(subHead[s][j][p], Ahead(s, p, Spot(s, j)), Share(s, p))
      BY QueueFacts DEF Queue
    <3> QED BY <1>8, <3>1, KeptOn, SourceFacts, QueueFacts
  <2> QED BY <1>1, <1>4, <1>7, <2>1, InputKept, QueueFacts DEF Queue
<1>10. \A r \in Source : r # s => room'[r] = room[r] /\ sub'[r] = sub[r]
  BY <1>1 DEF CountInv, CountTyped
<1>11. CountInv'
  BY <1>1, <1>3, <1>5, <1>6, <1>9, <1>10, OtherSources
<1>12. Bound(s) <= Bound(s)'
  BY <1>1, <1>2, <1>4 DEF Bound, Smaller
<1> QED BY <1>7, <1>11, <1>12

(* A queue whose rows are left alone, while sub-warps go on.                *)
LEMMA QueueWalked ==
  ASSUME UNCHANGED <<input, filled, nvlTail, nvlHead, subRetired>>,
         NEW s \in Source, NEW p \in Peer, Queue(s, p),
         \A k \in 0 .. Total(s) - 1 :
           Done(s, k)' /\ TokenAt(s, k) \in For(s, p) => Ahead(s, p, k) < nvlTail[s][p],
         \A k \in SubWarp :
           /\ Kept(subHead'[s][k][p], Ahead(s, p, Spot(s, k)'), Share(s, p))
           /\ sub'[s][k].waits => subHead'[s][k][p] = Awaited(nvlHeads[s][p][sub'[s][k].at])
           /\ k \notin subRetired[s] => nvlHead[s][p] <= subHead'[s][k][p]
  PROVE  Queue(s, p)'
<1>1. /\ Total(s)' = Total(s) /\ For(s, p)' = For(s, p) /\ Share(s, p)' = Share(s, p)
      /\ \A i : TokenAt(s, i)' = TokenAt(s, i)
      /\ \A i : Ahead(s, p, i)' = Ahead(s, p, i)
  BY InputKept
<1>2. /\ filled' = filled /\ nvlTail' = nvlTail /\ nvlHead' = nvlHead
      /\ subRetired' = subRetired /\ nvlHeads' = nvlHeads
  BY DEF input
<1>3. \A k \in 0 .. Total(s)' - 1 :
        (Done(s, k) /\ TokenAt(s, k) \in For(s, p) => Ahead(s, p, k) < nvlTail[s][p])'
  BY <1>1, <1>2
<1>4. \A k \in SubWarp :
        /\ Kept(subHead[s][k][p], Ahead(s, p, Spot(s, k)), Share(s, p))'
        /\ (sub[s][k].waits => subHead[s][k][p] = Awaited(nvlHeads[s][p][sub[s][k].at]))'
        /\ (k \notin subRetired[s] => nvlHead[s][p] <= subHead[s][k][p])'
  BY <1>1, <1>2 DEF Kept
<1> QED BY <1>1, <1>2, <1>3, <1>4 DEF Queue, Kept

(* A sub-warp notes the heads that it waits for.                           *)
LEMMA ExpectCounts ==
  ASSUME CountInv, NEW s \in Source, NEW j \in SubWarp, Expect(s, j)
  PROVE  /\ CountInv'
         /\ \A i \in 0 .. Total(s) - 1 : Done(s, i)' => Done(s, i)
         /\ Bound(s) <= Bound(s)'
<1> DEFINE i == sub[s][j].at
           want == [p \in Peer |-> Awaited(nvlHeads[s][p][i])]
<1>1. /\ UNCHANGED <<input, filled, nvlTail, nvlHead, start, room, subRetired, wire, head,
                     tail, rcv, rcvHead, rcvRetired>>
      /\ room[s] /\ i < ChunkEnd(s) /\ ~sub[s][j].waits
      /\ subHead' = [subHead EXCEPT ![s][j] = want]
      /\ sub' = [sub EXCEPT ![s][j].waits = TRUE]
  BY DEF Expect, nvlink, receiver
<1>2. i \in Nat /\ i \in 0 .. Total(s) - 1 /\ Spot(s, j) = i
  <2>1. i \in Nat /\ ChunkEnd(s) \in Nat /\ ChunkEnd(s) <= Total(s) /\ Total(s) \in Nat
    BY SourceFacts
  <2> QED BY <1>1, <2>1 DEF Spot, Smaller
<1>3. ASSUME NEW p \in Peer
      PROVE  /\ want[p] \in Nat /\ want[p] = Coming(Ahead(s, p, i), Share(s, p))
             /\ Kept(want[p], Ahead(s, p, i), Share(s, p))
             /\ subHead[s][j][p] <= want[p]
             /\ want[p] = Awaited(nvlHeads[s][p][i])
  <2>1. nvlHeads[s][p] = NvlHead(s, p)
    BY DEF CountInv, CountTyped
  <2>2. want[p] \in Nat /\ want[p] = Coming(Ahead(s, p, i), Share(s, p))
    BY <1>2, <2>1, NvlHeads, SourceFacts
  <2>3. Kept(subHead[s][j][p], Ahead(s, p, i), Share(s, p))
    BY <1>2, QueueFacts DEF Queue
  <2>4. Ahead(s, p, i) \in Nat /\ Ahead(s, p, i) <= Share(s, p)
    BY <1>2, AheadFacts, SourceFacts, QueueFacts
  <2>5. subHead[s][j][p] <= want[p] /\ Kept(want[p], Ahead(s, p, i), Share(s, p))
    <3>1. PICK h \in Nat, n \in Nat, all \in Nat :
            /\ h = subHead[s][j][p] /\ n = Ahead(s, p, i) /\ all = Share(s, p)
            /\ n <= all /\ all <= Large
      BY <2>4, QueueFacts
    <3>2. h <= Coming(n, all) /\ Kept(Coming(n, all), n, all)
      BY <2>3, <3>1, KeptFacts
    <3> QED BY <2>2, <3>1, <3>2
  <2> QED BY <2>2, <2>5
<1>4. /\ \A k \in SubWarp : /\ sub'[s][k].at = sub[s][k].at
                            /\ k # j => sub'[s][k] = sub[s][k] /\ subHead'[s][k] = subHead[s][k]
      /\ sub'[s][j].waits = TRUE /\ subHead'[s][j] = want
      /\ start' = start /\ room' = room /\ subRetired' = subRetired /\ nvlHeads' = nvlHeads
  <2>1. sub \in [Source -> [SubWarp -> Warp]] /\ subHead \in [Source -> [SubWarp -> [Peer -> Nat]]]
    BY DEF CountInv, CountTyped
  <2> HIDE DEF want
  <2>2. \A k \in SubWarp : sub'[s][k] = IF k = j THEN [sub[s][j] EXCEPT !.waits = TRUE] ELSE sub[s][k]
    BY <1>1, <2>1
  <2>3. sub[s][j] \in [at : Nat, waits : BOOLEAN]
    BY <2>1 DEF Warp
  <2>4. [sub[s][j] EXCEPT !.waits = TRUE].at = sub[s][j].at
        /\ [sub[s][j] EXCEPT !.waits = TRUE].waits = TRUE
    BY <2>3
  <2>5. \A k \in SubWarp : subHead'[s][k] = IF k = j THEN want ELSE subHead[s][k]
    BY <1>1, <2>1
  <2> QED BY <1>1, <2>2, <2>4, <2>5 DEF input
<1> HIDE DEF want
<1>5. CountTyped'
  <2>1. sub' \in [Source -> [SubWarp -> Warp]]
    <3>1. sub \in [Source -> [SubWarp -> Warp]]
      BY DEF CountInv, CountTyped
    <3>2. [sub[s][j] EXCEPT !.waits = TRUE] \in Warp
      <4>1. sub[s][j] \in Warp
        BY <3>1
      <4> QED BY <4>1 DEF Warp
    <3>3. sub' = [sub EXCEPT ![s] = [sub[s] EXCEPT ![j] = [sub[s][j] EXCEPT !.waits = TRUE]]]
      BY <1>1
    <3> QED BY <3>1, <3>2, <3>3
  <2>2. subHead' \in [Source -> [SubWarp -> [Peer -> Nat]]]
    <3>1. want \in [Peer -> Nat]
      BY <1>3 DEF want
    <3> QED BY <1>1, <3>1 DEF CountInv, CountTyped
  <2> QED BY <1>1, <2>1, <2>2, InputKept DEF CountInv, CountTyped, input
<1>6. ChunkEnd(s)' = ChunkEnd(s)
  BY <1>4, <1>1, InputKept DEF ChunkEnd
<1>7. Walk(s)'
  <2>1. Walk(s)
    BY DEF CountInv
  <2> QED BY <1>1, <1>4, <1>6, <2>1, InputKept DEF Walk
<1>8. Channel(s)'
  BY <1>1, ChannelKept DEF CountInv
<1>9. /\ \A k \in 0 .. Total(s) - 1 : Done(s, k)' <=> Done(s, k)
      /\ \A k \in SubWarp : Spot(s, k)' = Spot(s, k)
  <2>1. \A k \in 0 .. Total(s) - 1 : TurnOf(s, k) \in SubWarp /\ TurnOf(s, k)' = TurnOf(s, k)
    BY <1>4, TurnFacts, SourceFacts DEF TurnOf
  <2>2. Bound(s)' = Bound(s)
    BY <1>1, <1>6, InputKept DEF Bound
  <2> QED BY <1>4, <1>6, <2>1, <2>2 DEF Done, Spot
<1>10. ASSUME NEW p \in Peer PROVE Queue(s, p)'
  <2>1. Queue(s, p)
    BY QueueFacts
  <2>2. ASSUME NEW k \in SubWarp
        PROVE  /\ Kept(subHead'[s][k][p], Ahead(s, p, Spot(s, k)), Share(s, p))
               /\ sub'[s][k].waits => subHead'[s][k][p] = Awaited(nvlHeads[s][p][sub[s][k].at])
               /\ k \notin subRetired[s] => nvlHead[s][p] <= subHead'[s][k][p]
    <3>1. CASE k = j
      <4>1. subHead'[s][k][p] = want[p]
        BY <1>4, <3>1
      <4>2. j \notin subRetired[s] => nvlHead[s][p] <= want[p]
        <5>1. j \notin subRetired[s] => nvlHead[s][p] <= subHead[s][j][p]
          BY <2>1 DEF Queue
        <5> QED BY <1>3, <5>1, QueueFacts
      <4> QED BY <1>2, <1>3, <3>1, <4>1, <4>2
    <3>2. CASE k # j
      BY <1>4, <2>1, <3>2 DEF Queue
    <3> QED BY <3>1, <3>2
  <2>3. \A k \in SubWarp :
          /\ Kept(subHead'[s][k][p], Ahead(s, p, Spot(s, k)'), Share(s, p))
          /\ sub'[s][k].waits => subHead'[s][k][p] = Awaited(nvlHeads[s][p][sub'[s][k].at])
          /\ k \notin subRetired[s] => nvlHead[s][p] <= subHead'[s][k][p]
    BY <1>4, <1>9, <2>2
  <2>4. \A k \in 0 .. Total(s) - 1 :
          Done(s, k)' /\ TokenAt(s, k) \in For(s, p) => Ahead(s, p, k) < nvlTail[s][p]
    BY <1>9, <2>1 DEF Queue
  <2> QED BY <1>1, <2>1, <2>3, <2>4, QueueWalked
<1>11. \A r \in Source : r # s => sub'[r] = sub[r] /\ subHead'[r] = subHead[r]
  BY <1>1 DEF CountInv, CountTyped
<1>12. CountInv'
  BY <1>1, <1>5, <1>7, <1>8, <1>10, <1>11, OtherSources
<1>13. Bound(s)' = Bound(s) /\ Bound(s) \in Nat
  BY <1>1, <1>6, InputKept, SourceFacts DEF Bound
<1> QED BY <1>9, <1>12, <1>13

(* The heads of a token that a sub-warp has waited for.                    *)
LEMMA HeadPassed ==
  ASSUME CountInv, NEW s \in Source, NEW p \in Peer, NEW i \in 0 .. Total(s) - 1,
         nvlTail[s][p] > nvlHeads[s][p][i]
  PROVE  /\ Passed(nvlHeads[s][p][i]) \in Nat
         /\ Kept(Passed(nvlHeads[s][p][i]), Ahead(s, p, i + 1), Share(s, p))
         /\ Coming(Ahead(s, p, i), Share(s, p)) <= Passed(nvlHeads[s][p][i])
         /\ Awaited(nvlHeads[s][p][i]) = Coming(Ahead(s, p, i), Share(s, p))
         /\ TokenAt(s, i) \in For(s, p) => Ahead(s, p, i) < nvlTail[s][p]
<1>1. nvlHeads[s][p] = NvlHead(s, p) /\ to \in Runs /\ Total(s) \in Nat
  BY SourceFacts DEF CountInv, CountTyped
<1>2. PICK h \in Int, a \in Nat, b \in Nat, all \in Nat, n \in Nat :
        /\ h = NvlHead(s, p)[i] /\ a = Ahead(s, p, i) /\ b = Ahead(s, p, i + 1)
        /\ all = Share(s, p) /\ n = Coming(a, all) /\ all <= Large /\ a <= all /\ b <= all
  <2>1. i \in Nat /\ i + 1 \in Nat
    BY <1>1
  <2>2. /\ Ahead(s, p, i) \in Nat /\ Ahead(s, p, i) <= Share(s, p)
        /\ Ahead(s, p, i + 1) \in Nat /\ Ahead(s, p, i + 1) <= Share(s, p)
    BY <1>1, <2>1, AheadFacts, QueueFacts
  <2>3. NvlHead(s, p)[i] \in Int /\ Coming(Ahead(s, p, i), Share(s, p)) \in Nat
    BY <1>1, NvlHeads
  <2> QED BY <2>2, <2>3, QueueFacts
<1>3. /\ TokenAt(s, i) \in For(s, p) => h = a /\ b = a + 1 /\ Passed(h) = a + 1
      /\ TokenAt(s, i) \notin For(s, p) => b = a /\ Passed(h) = n
      /\ Awaited(h) = n
  BY <1>1, <1>2, NvlHeads, AheadFacts
<1>4. Kept(n, a, all)
  BY <1>2, KeptFacts DEF Kept, Coming
<1>5. n = IF a < all THEN a ELSE Large
  BY <1>2 DEF Coming
<1>6. CASE TokenAt(s, i) \in For(s, p)
  BY <1>1, <1>2, <1>3, <1>5, <1>6 DEF Kept
<1>7. CASE TokenAt(s, i) \notin For(s, p)
  BY <1>1, <1>2, <1>3, <1>4, <1>7
<1> QED BY <1>6, <1>7

(* A sub-warp has its rows, and goes on to its next token.                 *)
LEMMA CombineCounts ==
  ASSUME CountInv, NEW s \in Source, NEW j \in SubWarp, Combine(s, j)
  PROVE  /\ CountInv'
         /\ \A k \in 0 .. Total(s) - 1 : Done(s, k)' => Done(s, k) \/ k = sub[s][j].at
         /\ Bound(s)' = Bound(s)
<1> DEFINE i == sub[s][j].at
           past == [p \in Peer |-> Passed(nvlHeads[s][p][i])]
           next == [at |-> i + NumForwarders, waits |-> FALSE]
<1>1. /\ UNCHANGED <<input, filled, nvlTail, nvlHead, start, room, subRetired, wire, head,
                     tail, rcv, rcvHead, rcvRetired>>
      /\ sub[s][j].waits
      /\ \A p \in Peer : nvlTail[s][p] > nvlHeads[s][p][i]
      /\ sub' = [sub EXCEPT ![s][j] = next]
  BY DEF Combine, nvlink, receiver
<1>2. subHead' = [subHead EXCEPT ![s][j] = past]
  <2>1. [p \in Peer |-> Passed([q \in Peer |-> nvlHeads[s][q][i]][p])] = past
    OBVIOUS
  <2> QED BY <2>1 DEF Combine
<1>3. room[s] /\ i < ChunkEnd(s) /\ i >= start[s] /\ (i - start[s]) % NumForwarders = j
  BY <1>1 DEF CountInv, Walk
<1>4. /\ i \in Nat /\ ChunkEnd(s) \in Nat /\ ChunkEnd(s) <= Total(s) /\ Total(s) \in Nat
      /\ start[s] \in Nat /\ NumForwarders \in Nat \ {0} /\ i \in 0 .. Total(s) - 1
  <2>1. /\ i \in Nat /\ ChunkEnd(s) \in Nat /\ ChunkEnd(s) <= Total(s) /\ Total(s) \in Nat
        /\ start[s] \in Nat /\ NumForwarders \in Nat \ {0}
    BY SourceFacts, SizesAssumption
  <2> QED BY <1>3, <2>1
<1>5. ASSUME NEW p \in Peer
      PROVE  /\ past[p] \in Nat /\ Kept(past[p], Ahead(s, p, i + 1), Share(s, p))
             /\ subHead[s][j][p] <= past[p]
             /\ TokenAt(s, i) \in For(s, p) => Ahead(s, p, i) < nvlTail[s][p]
  <2>1. subHead[s][j][p] = Awaited(nvlHeads[s][p][i])
    BY <1>1, QueueFacts DEF Queue
  <2>2. /\ Passed(nvlHeads[s][p][i]) \in Nat
        /\ Kept(Passed(nvlHeads[s][p][i]), Ahead(s, p, i + 1), Share(s, p))
        /\ Awaited(nvlHeads[s][p][i]) <= Passed(nvlHeads[s][p][i])
        /\ TokenAt(s, i) \in For(s, p) => Ahead(s, p, i) < nvlTail[s][p]
    BY <1>1, <1>4, HeadPassed
  <2>3. past[p] = Passed(nvlHeads[s][p][i])
    OBVIOUS
  <2> QED BY <2>1, <2>2, <2>3
<1>6. /\ \A k \in SubWarp : k # j => sub'[s][k] = sub[s][k] /\ subHead'[s][k] = subHead[s][k]
      /\ sub'[s][j].at = i + NumForwarders /\ sub'[s][j].waits = FALSE /\ subHead'[s][j] = past
      /\ start' = start /\ room' = room /\ subRetired' = subRetired /\ nvlHeads' = nvlHeads
  <2>1. sub \in [Source -> [SubWarp -> Warp]] /\ subHead \in [Source -> [SubWarp -> [Peer -> Nat]]]
    BY DEF CountInv, CountTyped
  <2>2. next.at = i + NumForwarders /\ next.waits = FALSE
    OBVIOUS
  <2> HIDE DEF past, next
  <2>3. \A k \in SubWarp : sub'[s][k] = IF k = j THEN next ELSE sub[s][k]
    BY <1>1, <2>1
  <2>4. \A k \in SubWarp : subHead'[s][k] = IF k = j THEN past ELSE subHead[s][k]
    BY <1>2, <2>1
  <2> QED BY <1>1, <2>2, <2>3, <2>4 DEF input
<1>7. CountTyped'
  <2>1. sub' \in [Source -> [SubWarp -> Warp]]
    <3>1. sub \in [Source -> [SubWarp -> Warp]]
      BY DEF CountInv, CountTyped
    <3>2. next \in Warp
      BY <1>4 DEF Warp
    <3> HIDE DEF next
    <3> QED BY <1>1, <3>1, <3>2
  <2>2. subHead' \in [Source -> [SubWarp -> [Peer -> Nat]]]
    <3>1. past \in [Peer -> Nat]
      BY <1>5
    <3>2. subHead \in [Source -> [SubWarp -> [Peer -> Nat]]]
      BY DEF CountInv, CountTyped
    <3> HIDE DEF past
    <3> QED BY <1>2, <3>1, <3>2
  <2> HIDE DEF past, next
  <2> QED BY <1>1, <2>1, <2>2, InputKept DEF CountInv, CountTyped, input
<1> HIDE DEF past, next
<1>8. ChunkEnd(s)' = ChunkEnd(s) /\ Bound(s)' = Bound(s)
  BY <1>1, <1>6, InputKept DEF ChunkEnd, Bound
<1>9. Walk(s)'
  <2>1. Walk(s)
    BY DEF CountInv
  <2>2. i + NumForwarders >= start[s] /\ ((i + NumForwarders) - start[s]) % NumForwarders = j
    <3>1. PICK x \in Nat : x = i - start[s]
      BY <1>3, <1>4
    <3>2. (i + NumForwarders) - start[s] = x + NumForwarders
      BY <1>4, <3>1
    <3>3. (x + NumForwarders) % NumForwarders = j
      BY <1>3, <1>4, <3>1, NextResidue
    <3> QED BY <1>3, <1>4, <3>2, <3>3
  <2>3. ASSUME NEW k \in SubWarp
        PROVE  /\ room[s] => /\ sub'[s][k].at >= start[s]
                             /\ (sub'[s][k].at - start[s]) % NumForwarders = k
               /\ sub'[s][k].waits => room[s] /\ sub'[s][k].at < ChunkEnd(s)
    <3>1. CASE k = j
      BY <1>6, <2>2, <3>1
    <3>2. CASE k # j
      BY <1>6, <2>1, <3>2 DEF Walk
    <3> QED BY <3>1, <3>2
  <2> QED BY <1>6, <1>8, <2>1, <2>3, InputKept, <1>1 DEF Walk
<1>10. Channel(s)'
  BY <1>1, ChannelKept DEF CountInv
<1>11. \A k \in 0 .. Total(s) - 1 : Done(s, k)' => Done(s, k) \/ k = i
  <2> SUFFICES ASSUME NEW k \in 0 .. Total(s) - 1, Done(s, k)', ~(k < start[s]), ~Done(s, k)
               PROVE  k = i
    BY DEF Done
  <2>1. TurnOf(s, k)' = TurnOf(s, k) /\ TurnOf(s, k) \in SubWarp /\ k \in Nat
    BY <1>4, <1>6, TurnFacts DEF TurnOf
  <2>2. k < ChunkEnd(s) /\ k < sub'[s][TurnOf(s, k)].at
    BY <1>6, <1>8, <2>1 DEF Done
  <2>3. ~(k < sub[s][TurnOf(s, k)].at)
    BY <1>3, <2>2 DEF Done
  <2>4. TurnOf(s, k) = j
    BY <1>6, <2>1, <2>2, <2>3
  <2>5. i <= k /\ k < i + NumForwarders /\ k >= start[s]
    BY <1>4, <1>6, <2>1, <2>2, <2>3, <2>4
  <2> QED BY <1>3, <2>1, <2>4, <2>5, TurnFacts
<1>12. /\ \A k \in SubWarp : k # j => Spot(s, k)' = Spot(s, k)
       /\ Spot(s, j)' \in Nat /\ i + 1 <= Spot(s, j)'
  <2>1. \A k \in SubWarp : Spot(s, k)' = Smaller(sub'[s][k].at, ChunkEnd(s))
    BY <1>3, <1>6, <1>8 DEF Spot
  <2>2. \A k \in SubWarp : Spot(s, k) = Smaller(sub[s][k].at, ChunkEnd(s))
    BY <1>3 DEF Spot
  <2>3. Smaller(i + NumForwarders, ChunkEnd(s)) \in Nat /\ i + 1 <= Smaller(i + NumForwarders, ChunkEnd(s))
    BY <1>3, <1>4 DEF Smaller
  <2> QED BY <1>6, <2>1, <2>2, <2>3
<1>13. ASSUME NEW p \in Peer PROVE Queue(s, p)'
  <2>1. Queue(s, p)
    BY QueueFacts
  <2>2. ASSUME NEW k \in SubWarp
        PROVE  /\ Kept(subHead'[s][k][p], Ahead(s, p, Spot(s, k)'), Share(s, p))
               /\ sub'[s][k].waits => subHead'[s][k][p] = Awaited(nvlHeads[s][p][sub'[s][k].at])
               /\ k \notin subRetired[s] => nvlHead[s][p] <= subHead'[s][k][p]
    <3>1. CASE k = j
      <4>1. subHead'[s][k][p] = past[p]
        BY <1>6, <3>1
      <4>2. j \notin subRetired[s] => nvlHead[s][p] <= past[p]
        <5>1. j \notin subRetired[s] => nvlHead[s][p] <= subHead[s][j][p]
          BY <2>1 DEF Queue
        <5> QED BY <1>5, <5>1, QueueFacts
      <4>3. i + 1 \in Nat
        BY <1>4
      <4>4. Kept(past[p], Ahead(s, p, Spot(s, j)'), Share(s, p))
        BY <1>5, <1>12, <4>3, KeptOn
      <4> QED BY <1>6, <3>1, <4>1, <4>2, <4>4
    <3>2. CASE k # j
      BY <1>6, <1>12, <2>1, <3>2 DEF Queue
    <3> QED BY <3>1, <3>2
  <2>3. \A k \in 0 .. Total(s) - 1 :
          Done(s, k)' /\ TokenAt(s, k) \in For(s, p) => Ahead(s, p, k) < nvlTail[s][p]
    BY <1>5, <1>11, <2>1 DEF Queue
  <2> QED BY <1>1, <2>1, <2>2, <2>3, QueueWalked
<1>14. \A r \in Source : r # s => sub'[r] = sub[r] /\ subHead'[r] = subHead[r]
  BY <1>1, <1>2 DEF CountInv, CountTyped
<1>15. CountInv'
  BY <1>1, <1>7, <1>9, <1>10, <1>13, <1>14, OtherSources
<1> QED BY <1>8, <1>11, <1>15

(* A chunk that all sub-warps have done is posted.                         *)
LEMMA IssueChunkCounts ==
  ASSUME CountInv, NEW s \in Source, IssueChunk(s)
  PROVE  /\ CountInv'
         /\ \A k \in 0 .. Total(s) - 1 : Done(s, k)' => Done(s, k)
         /\ Bound(s) <= Bound(s)'
<1> DEFINE n == ChunkEnd(s) - start[s]
           put == [kind |-> "put", from |-> start[s], num |-> n]
           add == [kind |-> "add", from |-> start[s], num |-> n]
<1>1. /\ UNCHANGED <<input, filled, nvlTail, nvlHead, sub, subHead, subRetired, head, rcv, rcvHead,
                     rcvRetired>>
      /\ room[s] /\ \A j \in SubWarp : sub[s][j].at >= ChunkEnd(s)
      /\ start' = [start EXCEPT ![s] = @ + RdmaSend]
      /\ room' = [room EXCEPT ![s] = FALSE]
      /\ s = Home => tail' = [tail EXCEPT ![s] = @ + n] /\ UNCHANGED wire
      /\ s # Home => wire' = [wire EXCEPT ![s] = @ \o <<put, add>>] /\ UNCHANGED tail
  BY DEF IssueChunk, nvlink, receiver
<1>2. /\ start[s] \in Nat /\ Total(s) \in Nat /\ ChunkEnd(s) \in Nat /\ RdmaSend \in Nat \ {0}
      /\ start[s] < ChunkEnd(s) /\ start[s] < Total(s) /\ Bound(s) = ChunkEnd(s)
      /\ ChunkEnd(s) <= Total(s) /\ tail[s] \in Nat /\ head[s] \in Nat
  BY <1>1, SourceFacts, SizesAssumption
<1>3. n \in Nat \ {0} /\ start[s] + n = ChunkEnd(s) /\ Smaller(start[s], Total(s)) = start[s]
  BY <1>2 DEF Smaller
<1>4. /\ start'[s] = start[s] + RdmaSend /\ room'[s] = FALSE
      /\ Smaller(start[s] + RdmaSend, Total(s)) = ChunkEnd(s)
      /\ sub' = sub /\ subHead' = subHead /\ subRetired' = subRetired /\ nvlHeads' = nvlHeads
      /\ rdmaHeads' = rdmaHeads
  BY <1>1 DEF CountInv, CountTyped, ChunkEnd, input
<1>5. Chain(wire[s], tail[s], start[s]) /\ (s = Home => wire[s] = <<>> /\ tail[s] = start[s])
  BY <1>3 DEF CountInv, Channel, Chain
<1>6. /\ Chain(wire'[s], tail'[s], ChunkEnd(s)) /\ (s = Home => wire'[s] = <<>>)
      /\ tail'[s] \in Nat /\ wire'[s] \in Seq(Message)
      /\ tail[s] <= tail'[s] /\ tail'[s] <= ChunkEnd(s)
  <2>1. tail \in [Source -> Nat] /\ wire \in [Source -> Seq(Message)]
    BY DEF CountInv, CountTyped
  <2> HIDE DEF n
  <2>2. CASE s = Home
    <3>1. tail'[s] = ChunkEnd(s) /\ wire'[s] = <<>>
      BY <1>1, <1>3, <1>5, <2>1, <2>2
    <3>2. Chain(<<>>, ChunkEnd(s), ChunkEnd(s))
      <4>1. <<>> \in Seq(Message) /\ 1 .. Len(<<>>) = {}
        OBVIOUS
      <4> QED BY <4>1 DEF Chain
    <3> QED BY <1>2, <1>5, <2>2, <3>1, <3>2
  <2>3. CASE s # Home
    <3>1. tail'[s] = tail[s] /\ wire'[s] = wire[s] \o <<put, add>>
      BY <1>1, <2>1, <2>3
    <3>2. Chain(wire[s] \o <<put, add>>, tail[s], start[s] + n)
      BY <1>2, <1>3, <1>5, ChainIssue
    <3>3. Chain(wire'[s], tail'[s], ChunkEnd(s))
      BY <1>3, <3>1, <3>2
    <3>4. wire'[s] \in Seq(Message)
      BY <3>3 DEF Chain
    <3>5. tail[s] <= start[s]
      BY <1>3, SourceFacts
    <3> QED BY <1>2, <2>3, <3>1, <3>3, <3>4, <3>5
  <2> QED BY <2>2, <2>3
<1> HIDE DEF n, put, add
<1>7. CountTyped'
  <2>1. start' \in [Source -> Nat] /\ room' \in [Source -> BOOLEAN]
    BY <1>1, <1>2 DEF CountInv, CountTyped
  <2>2. tail' \in [Source -> Nat] /\ wire' \in [Source -> Seq(Message)]
    <3>1. tail \in [Source -> Nat] /\ wire \in [Source -> Seq(Message)]
      BY DEF CountInv, CountTyped
    <3>2. CASE s = Home
      <4>1. tail[s] + n \in Nat
        BY <1>2, <1>3
      <4> QED BY <1>1, <3>1, <3>2, <4>1
    <3>3. CASE s # Home
      <4>1. tail' = tail /\ wire' = [wire EXCEPT ![s] = wire'[s]]
        BY <1>1, <3>1, <3>3
      <4> QED BY <1>6, <3>1, <4>1
    <3> QED BY <3>2, <3>3
  <2> QED BY <1>1, <2>1, <2>2, InputKept DEF CountInv, CountTyped, input
<1>8. Walk(s)'
  <2>1. Walk(s)
    BY DEF CountInv
  <2>2. (start[s] + RdmaSend) % RdmaSend = 0
    BY <1>2, <2>1, NextResidue DEF Walk
  <2>3. subRetired[s] = {}
    BY <1>2, <2>1 DEF Walk
  <2>4. \A j \in SubWarp : ~sub[s][j].waits
    <3> SUFFICES ASSUME NEW j \in SubWarp, sub[s][j].waits PROVE FALSE
      OBVIOUS
    <3>1. sub[s][j].at < ChunkEnd(s) /\ sub[s][j].at >= ChunkEnd(s) /\ sub[s][j].at \in Nat
      BY <1>1, <2>1, SourceFacts DEF Walk
    <3> QED BY <1>2, <3>1
  <2> QED BY <1>4, <2>2, <2>3, <2>4 DEF Walk
<1>9. Bound(s)' = ChunkEnd(s)
  BY <1>1, <1>4, InputKept DEF Bound
<1>10. Channel(s)'
  <2>1. Channel(s)
    BY DEF CountInv
  <2>2. Kept(head[s], tail'[s], Total(s))
    <3>1. tail'[s] <= Total(s) /\ Total(s) <= Large
      BY <1>2, <1>6, SourceFacts
    <3> QED BY <1>2, <1>6, <2>1, <3>1 DEF Kept, Channel, Large
  <2>3. ChunkEnd(s) <= head[s] + RdmaRecv
    BY <1>2, <2>1 DEF Channel
  <2>4. ASSUME NEW t \in Chosen(s), t < rcv[t % NumReceivers].at PROVE Index(s, t) < tail'[s]
    <3>1. Index(s, t) < tail[s]
      BY <2>1, <2>4 DEF Channel
    <3>2. PICK i \in Nat : i = Index(s, t)
      BY SourceFacts, StreamNumbered
    <3> QED BY <1>2, <1>6, <3>1, <3>2
  <2>5. Smaller(start[s], Total(s))' = ChunkEnd(s)
    BY <1>1, <1>4, InputKept DEF Smaller
  <2>6. head' = head /\ rcv' = rcv /\ rcvHead' = rcvHead /\ rcvRetired' = rcvRetired
    BY <1>1
  <2> QED BY <1>4, <1>6, <1>9, <2>1, <2>2, <2>3, <2>4, <2>5, <2>6, <1>1, InputKept DEF Channel
<1>11. \A k \in 0 .. Total(s) - 1 : Done(s, k)' => Done(s, k)
  <2> SUFFICES ASSUME NEW k \in 0 .. Total(s) - 1, Done(s, k)', ~(k < start[s]) PROVE Done(s, k)
    BY DEF Done
  <2>1. TurnOf(s, k) \in SubWarp /\ k \in Nat
    BY <1>2, TurnFacts
  <2>2. k < start[s] + RdmaSend
    BY <1>4 DEF Done
  <2>3. k < ChunkEnd(s)
    BY <1>2, <1>4, <2>2 DEF Smaller
  <2>4. k < sub[s][TurnOf(s, k)].at
    <3>1. sub[s][TurnOf(s, k)].at \in Nat /\ sub[s][TurnOf(s, k)].at >= ChunkEnd(s)
      BY <1>1, <2>1, SourceFacts
    <3> QED BY <1>2, <2>1, <2>3, <3>1
  <2> QED BY <1>1, <2>3, <2>4 DEF Done
<1>12. \A j \in SubWarp : Spot(s, j)' = Spot(s, j)
  <2> SUFFICES ASSUME NEW j \in SubWarp PROVE Spot(s, j)' = Spot(s, j)
    OBVIOUS
  <2>1. Spot(s, j)' = ChunkEnd(s)
    BY <1>4, <1>9 DEF Spot
  <2>2. Spot(s, j) = Smaller(sub[s][j].at, ChunkEnd(s))
    BY <1>1 DEF Spot
  <2>3. PICK a \in Nat, c \in Nat : a = sub[s][j].at /\ c = ChunkEnd(s) /\ a >= c
    BY <1>1, <1>2, SourceFacts
  <2> QED BY <2>1, <2>2, <2>3 DEF Smaller
<1>13. ASSUME NEW p \in Peer PROVE Queue(s, p)'
  <2>1. Queue(s, p)
    BY QueueFacts
  <2> QED BY <1>1, <1>4, <1>11, <1>12, <2>1, InputKept DEF Queue
<1>14. \A r \in Source : r # s =>
         start'[r] = start[r] /\ room'[r] = room[r] /\ tail'[r] = tail[r] /\ wire'[r] = wire[r]
  BY <1>1 DEF CountInv, CountTyped
<1>15. CountInv'
  BY <1>1, <1>7, <1>8, <1>10, <1>13, <1>14, OtherSources
<1>16. Bound(s) <= Bound(s)'
  BY <1>2, <1>9
<1> QED BY <1>11, <1>15, <1>16

(* A sub-warp that has no tokens left retires.                             *)
LEMMA RetireSubWarpCounts ==
  ASSUME CountInv, NEW s \in Source, NEW j \in SubWarp, RetireSubWarp(s, j)
  PROVE  CountInv'
<1>1. /\ UNCHANGED <<input, filled, nvlTail, nvlHead, start, room, sub, subHead, wire, head,
                     tail, rcv, rcvHead, rcvRetired>>
      /\ start[s] >= Total(s)
      /\ subRetired' = [subRetired EXCEPT ![s] = @ \cup {j}]
  BY DEF RetireSubWarp, nvlink, receiver
<1>2. subRetired' \in [Source -> SUBSET SubWarp] /\ subRetired'[s] = subRetired[s] \cup {j}
  BY <1>1 DEF CountInv, CountTyped
<1>3. CountTyped'
  BY <1>1, <1>2, InputKept DEF CountInv, CountTyped, input
<1>4. UNCHANGED nvlHeads /\ ChunkEnd(s)' = ChunkEnd(s)
  BY <1>1, InputKept DEF input, ChunkEnd
<1>5. Walk(s)'
  <2>1. Walk(s)
    BY DEF CountInv
  <2> QED BY <1>1, <1>4, <2>1, InputKept DEF Walk
<1>6. Channel(s)'
  BY <1>1, ChannelKept DEF CountInv
<1>7. ASSUME NEW p \in Peer PROVE Queue(s, p)'
  <2>1. Queue(s, p)
    BY QueueFacts
  <2> QED BY <1>1, <1>2, <1>4, <2>1, InputKept, DoneKept DEF Queue
<1>8. \A r \in Source : r # s => subRetired'[r] = subRetired[r]
  BY <1>1 DEF CountInv, CountTyped
<1> QED BY <1>1, <1>3, <1>5, <1>6, <1>7, <1>8, OtherSources

-----------------------------------------------------------------------------
(* Of the sub-warps still at work the one that is furthest behind has not  *)
(* passed a row that is not there.                                         *)
LEMMA SlowestSubWarp ==
  ASSUME CountInv, NEW s \in Source, NEW p \in Peer, SubWarp \ subRetired[s] # {}
  PROVE  \E k \in SubWarp \ subRetired[s] : Ahead(s, p, Spot(s, k)) <= nvlTail[s][p]
<1> DEFINE Spots == {Spot(s, k) : k \in SubWarp \ subRetired[s]}
<1>1. Spots \in SUBSET Nat /\ Spots # {}
  BY SourceFacts
<1>2. PICK k \in SubWarp \ subRetired[s] : \A j \in SubWarp \ subRetired[s] : Spot(s, k) <= Spot(s, j)
  <2>1. PICK x \in Spots : \A y \in Spots : x <= y
    <3> HIDE DEF Spots
    <3> QED BY <1>1, LeastMember
  <2> QED BY <2>1
<1> HIDE DEF Spots
<1>3. Spot(s, k) \in Nat /\ Spot(s, k) <= Bound(s) /\ Bound(s) \in Nat /\ Bound(s) <= Total(s)
      /\ Total(s) \in Nat /\ start[s] \in Nat
  BY SourceFacts
<1>4. ASSUME NEW i \in Nat, i < Spot(s, k) PROVE Done(s, i)
  <2>1. CASE ~room[s]
    <3>1. Spot(s, k) = Smaller(start[s], Total(s))
      BY <2>1 DEF Spot, Bound
    <3> QED BY <1>3, <1>4, <3>1, SourceFacts DEF Done, Smaller
  <2>2. CASE room[s]
    <3>1. subRetired[s] = {}
      BY <1>3, <2>2 DEF CountInv, Walk
    <3>2. TurnOf(s, i) \in SubWarp /\ sub[s][TurnOf(s, i)].at \in Nat /\ ChunkEnd(s) \in Nat
      BY TurnFacts, SourceFacts
    <3>3. Spot(s, k) <= Spot(s, TurnOf(s, i))
      BY <1>2, <3>1, <3>2
    <3>4. Spot(s, TurnOf(s, i)) = Smaller(sub[s][TurnOf(s, i)].at, ChunkEnd(s))
      BY <2>2 DEF Spot
    <3>5. i < ChunkEnd(s) /\ i < sub[s][TurnOf(s, i)].at
      <4>1. PICK a \in Nat, c \in Nat, b \in Nat :
              a = sub[s][TurnOf(s, i)].at /\ c = ChunkEnd(s) /\ b = Spot(s, k)
        BY <1>3, <3>2
      <4>2. b <= Smaller(a, c) /\ i < b
        BY <1>4, <3>3, <3>4, <4>1
      <4>3. i < a /\ i < c
        BY <4>2 DEF Smaller
      <4> QED BY <4>1, <4>3
    <3> QED BY <2>2, <3>5 DEF Done
  <2> QED BY <2>1, <2>2
<1>5. Ahead(s, p, Spot(s, k)) \in Nat /\ Ahead(s, p, Spot(s, k)) <= Share(s, p)
      /\ Share(s, p) \in Nat /\ nvlTail[s][p] \in Nat
  BY <1>3, SourceFacts, AheadFacts, QueueFacts
<1>6. Ahead(s, p, Spot(s, k)) <= nvlTail[s][p]
  <2> SUFFICES ASSUME nvlTail[s][p] < Ahead(s, p, Spot(s, k)) PROVE FALSE
    BY <1>5
  <2>1. PICK m \in Nat : m + 1 = Ahead(s, p, Spot(s, k)) /\ m \in 0 .. Share(s, p) - 1
    <3>1. Ahead(s, p, Spot(s, k)) - 1 \in Nat
      BY <1>5
    <3> QED BY <1>5, <3>1
  <2>2. PICK t \in For(s, p) : Place(s, p, t) = m
    BY <2>1, SourceFacts, PlaceFacts
  <2>3. PICK i \in 0 .. Total(s) - 1 : i = Index(s, t) /\ TokenAt(s, i) = t /\ Ahead(s, p, i) = m
    BY <2>2, SourceFacts, StreamFacts, StreamNumbered, PlaceFacts
  <2>4. i \in Nat /\ i < Spot(s, k)
    <3>1. i \in Nat
      BY <1>3
    <3>2. Spot(s, k) <= i => Ahead(s, p, Spot(s, k)) <= Ahead(s, p, i)
      BY <1>3, <3>1, SourceFacts, AheadFacts
    <3> QED BY <1>3, <2>1, <2>3, <3>1, <3>2
  <2>5. Ahead(s, p, i) < nvlTail[s][p]
    BY <1>4, <2>2, <2>3, <2>4, QueueFacts DEF Queue
  <2> QED BY <1>5, <2>1, <2>3, <2>5
<1> QED BY <1>6

(* The forwarder's coordinator gives back NVLink slots: by the slowest     *)
(* sub-warp, no slot whose row is still to be read.                        *)
LEMMA CreditPeerCounts ==
  ASSUME CountInv, NEW s \in Source, NEW p \in Peer, CreditPeer(s, p)
  PROVE  CountInv'
<1>1. PICK j \in SubWarp \ subRetired[s] :
        /\ \A k \in SubWarp \ subRetired[s] : subHead[s][j][p] <= subHead[s][k][p]
        /\ subHead[s][j][p] > nvlHead[s][p]
        /\ nvlHead' = [nvlHead EXCEPT ![s][p] = subHead[s][j][p]]
        /\ UNCHANGED <<input, filled, nvlTail, start, room, sub, subHead, subRetired, wire, head,
                       tail, rcv, rcvHead, rcvRetired>>
  BY DEF CreditPeer, forwarder, receiver
<1>2. PICK min \in Nat : min = subHead[s][j][p]
  BY QueueFacts
<1>3. nvlHead \in [Source -> [Peer -> Nat]] /\ nvlHead' = [nvlHead EXCEPT ![s][p] = min]
  BY <1>1, <1>2 DEF CountInv, CountTyped
<1>4. CountTyped'
  <2>1. nvlHead' \in [Source -> [Peer -> Nat]]
    BY <1>3
  <2> QED BY <1>1, <2>1, InputKept DEF CountInv, CountTyped, input
<1>5. Walk(s)' /\ Channel(s)'
  BY <1>1, WalkKept, ChannelKept DEF CountInv
<1>6. Kept(min, nvlTail[s][p], Share(s, p))
  <2>1. PICK k \in SubWarp \ subRetired[s] : Ahead(s, p, Spot(s, k)) <= nvlTail[s][p]
    BY SlowestSubWarp
  <2>2. /\ Kept(subHead[s][k][p], Ahead(s, p, Spot(s, k)), Share(s, p))
        /\ Kept(min, Ahead(s, p, Spot(s, j)), Share(s, p))
        /\ nvlTail[s][p] <= filled[s][p] /\ filled[s][p] <= Share(s, p)
    BY <1>2, QueueFacts DEF Queue
  <2>3. PICK h \in Nat, a \in Nat, b \in Nat, n \in Nat, all \in Nat :
          /\ h = subHead[s][k][p] /\ a = Ahead(s, p, Spot(s, k)) /\ b = Ahead(s, p, Spot(s, j))
          /\ n = nvlTail[s][p] /\ all = Share(s, p)
          /\ min <= h /\ a <= n /\ n <= all /\ b <= all
    <3>1. Spot(s, k) \in Nat /\ Spot(s, j) \in Nat
      BY SourceFacts
    <3>2. /\ Ahead(s, p, Spot(s, k)) \in Nat /\ Ahead(s, p, Spot(s, j)) \in Nat
          /\ Ahead(s, p, Spot(s, j)) <= Share(s, p)
      BY <3>1, SourceFacts, AheadFacts, QueueFacts
    <3>3. nvlTail[s][p] <= Share(s, p) /\ min <= subHead[s][k][p]
      BY <1>1, <1>2, <2>2, QueueFacts
    <3> QED BY <2>1, <3>2, <3>3, QueueFacts
  <2>4. Kept(h, a, all) /\ Kept(min, b, all)
    BY <2>2, <2>3
  <2>5. Kept(min, n, all)
    BY <2>3, <2>4 DEF Kept, Large
  <2> QED BY <2>3, <2>5
<1>7. ASSUME NEW q \in Peer PROVE Queue(s, q)'
  <2>1. CASE q # p
    <3>1. nvlHead'[s][q] = nvlHead[s][q]
      BY <1>3, <2>1
    <3> QED BY <1>1, <3>1, QueueKept, QueueFacts
  <2>2. CASE q = p
    <3>1. nvlHead'[s][p] = min
      BY <1>3
    <3>2. Queue(s, p)
      BY QueueFacts
    <3>3. filled[s][p] <= min + NvlRecv
      BY <1>1, <1>2, <3>2, QueueFacts DEF Queue
    <3>4. \A k \in SubWarp : k \notin subRetired[s] => min <= subHead[s][k][p]
      BY <1>1, <1>2
    <3>5. UNCHANGED nvlHeads
      BY <1>1 DEF input
    <3> QED BY <1>1, <1>6, <2>2, <3>1, <3>2, <3>3, <3>4, <3>5, InputKept, DoneKept DEF Queue
  <2> QED BY <2>1, <2>2
<1>8. \A r \in Source : r # s => nvlHead'[r] = nvlHead[r]
  BY <1>3
<1> QED BY <1>1, <1>4, <1>5, <1>7, <1>8, OtherSources

(* The first message of a node, and what it leaves.                        *)
LEMMA WireFacts ==
  ASSUME CountInv, NEW s \in Source, wire[s] # <<>>
  PROVE  /\ s # Home /\ wire[s][1] \in Message /\ Head(wire[s]) = wire[s][1]
         /\ wire[s][1].from = tail[s] /\ wire[s][1].num \in Nat \ {0}
         /\ tail[s] + wire[s][1].num <= Smaller(start[s], Total(s))
         /\ wire[s][1].kind = "put" => /\ Chain(Tail(wire[s]), tail[s], Smaller(start[s], Total(s)))
                                       /\ Tail(wire[s]) # <<>>
                                       /\ Tail(wire[s])[1] = [wire[s][1] EXCEPT !.kind = "add"]
         /\ wire[s][1].kind = "add" => /\ Chain(Tail(wire[s]), tail[s] + wire[s][1].num,
                                                Smaller(start[s], Total(s)))
                                       /\ Tail(wire[s]) # <<>> => Tail(wire[s])[1].kind = "put"
<1>1. Chain(wire[s], tail[s], Smaller(start[s], Total(s))) /\ s # Home
  BY DEF CountInv, Channel
<1>2. PICK e \in Nat : e = Smaller(start[s], Total(s))
  BY SourceFacts
<1>3. PICK t \in Nat : t = tail[s]
  BY SourceFacts
<1>4. PICK v : v = wire[s]
  OBVIOUS
<1>5. Chain(v, t, e) /\ v # <<>>
  BY <1>1, <1>2, <1>3, <1>4
<1>6. Head(v) = v[1]
  BY <1>5 DEF Chain
<1> HIDE <1>1
<1>7. /\ v[1] \in Message /\ v[1].from = t /\ t + v[1].num <= e
      /\ v[1].kind = "put" => /\ Chain(Tail(v), t, e)
                              /\ Tail(v) # <<>>
                              /\ Tail(v)[1] = [v[1] EXCEPT !.kind = "add"]
      /\ v[1].kind = "add" => /\ Chain(Tail(v), t + v[1].num, e)
                              /\ Tail(v) # <<>> => Tail(v)[1].kind = "put"
  BY <1>5, ChainDeliver
<1>8. v[1].num \in Nat \ {0}
  BY <1>7, MessageFacts
<1> QED BY <1>1, <1>2, <1>3, <1>4, <1>6, <1>7, <1>8

(* The network carries out the first message that a node has posted.       *)
DeliverFirst(s) ==
  /\ wire[s] # <<>>
  /\ wire' = [wire EXCEPT ![s] = Tail(@)]
  /\ LET m == Head(wire[s])
         slots == {RdmaSlot(m.from + i) : i \in 0 .. m.num - 1}
     IN  \/ /\ m.kind = "put"
            /\ ring' = [ring EXCEPT ![s] =
                 [x \in DOMAIN @ |-> IF x \in slots THEN staged[s][x] ELSE @[x]]]
            /\ UNCHANGED tail
         \/ /\ m.kind = "add"
            /\ tail' = [tail EXCEPT ![s] = @ + m.num]
            /\ UNCHANGED ring
  /\ UNCHANGED <<input, nvlink, forwarder, head, receiver>>

(* On a network that keeps the order, that is all it can do.               *)
LEMMA InOrder ==
  ASSUME Ordered, CountInv, NEW s \in Source, NEW k \in 1 .. Len(wire[s]), Deliver(s, k)
  PROVE  DeliverFirst(s)
<1>1. k = 1
  BY DEF Deliver
<1>2. PICK v \in Seq(Message) : v = wire[s] /\ v # <<>>
  BY DEF CountInv, CountTyped
<1>3. SubSeq(v, 1, k - 1) \o SubSeq(v, k + 1, Len(v)) = Tail(v)
  <2>1. SubSeq(v, 1, 0) = <<>>
    BY <1>2
  <2>2. SubSeq(v, 2, Len(v)) = Tail(v) /\ Tail(v) \in Seq(Message)
    BY <1>2
  <2>3. <<>> \o Tail(v) = Tail(v)
    BY <2>2
  <2>4. k - 1 = 0 /\ k + 1 = 2
    BY <1>1
  <2> QED BY <2>1, <2>2, <2>3, <2>4
<1>4. wire' = [wire EXCEPT ![s] = Tail(@)]
  <2>1. wire' = [wire EXCEPT ![s] = SubSeq(@, 1, k - 1) \o SubSeq(@, k + 1, Len(@))]
    BY DEF Deliver
  <2> QED BY <1>2, <1>3, <2>1
<1>5. wire[s][k] = Head(wire[s])
  BY <1>1, <1>2
<1>6. /\ LET m == Head(wire[s])
             slots == {RdmaSlot(m.from + i) : i \in 0 .. m.num - 1}
         IN  \/ /\ m.kind = "put"
                /\ ring' = [ring EXCEPT ![s] =
                     [x \in DOMAIN @ |-> IF x \in slots THEN staged[s][x] ELSE @[x]]]
                /\ UNCHANGED tail
             \/ /\ m.kind = "add"
                /\ tail' = [tail EXCEPT ![s] = @ + m.num]
                /\ UNCHANGED ring
      /\ UNCHANGED <<input, nvlink, forwarder, head, receiver>>
  BY <1>5 DEF Deliver
<1> QED BY <1>2, <1>4, <1>6 DEF DeliverFirst

(* The network carries out a put or an add.                                *)
LEMMA DeliverCounts ==
  ASSUME CountInv, NEW s \in Source, DeliverFirst(s)
  PROVE  CountInv'
<1> DEFINE m == wire[s][1]
<1>1. /\ UNCHANGED <<input, filled, nvlTail, nvlHead, start, room, sub, subHead, subRetired, head,
                     rcv, rcvHead, rcvRetired>>
      /\ wire[s] # <<>> /\ Head(wire[s]) = m
      /\ wire' = [wire EXCEPT ![s] = Tail(@)]
      /\ \/ m.kind = "put" /\ UNCHANGED tail
         \/ m.kind = "add" /\ tail' = [tail EXCEPT ![s] = @ + m.num]
  BY WireFacts DEF DeliverFirst, nvlink, forwarder, receiver
<1>2. wire \in [Source -> Seq(Message)] /\ tail \in [Source -> Nat]
  BY DEF CountInv, CountTyped
<1>3. wire'[s] = Tail(wire[s]) /\ (\A r \in Source : r # s => wire'[r] = wire[r])
  BY <1>1, <1>2
<1>4. PICK n \in Nat : n = m.num /\ tail[s] + n <= Smaller(start[s], Total(s))
  BY <1>1, WireFacts
<1>5. /\ Chain(wire'[s], tail'[s], Smaller(start[s], Total(s)))
      /\ tail'[s] \in Nat /\ tail[s] <= tail'[s] /\ tail'[s] <= Smaller(start[s], Total(s))
  <2>1. CASE m.kind = "put" /\ UNCHANGED tail
    <3>1. tail'[s] = tail[s] /\ tail[s] \in Nat /\ tail[s] <= Smaller(start[s], Total(s))
      BY <2>1, SourceFacts
    <3>2. Chain(Tail(wire[s]), tail[s], Smaller(start[s], Total(s)))
      BY <1>1, <2>1, WireFacts
    <3> QED BY <1>3, <3>1, <3>2
  <2>2. CASE m.kind = "add" /\ tail' = [tail EXCEPT ![s] = @ + m.num]
    <3>1. tail'[s] = tail[s] + n
      BY <1>2, <1>4, <2>2
    <3>2. Chain(Tail(wire[s]), tail[s] + n, Smaller(start[s], Total(s)))
      BY <1>1, <1>4, <2>2, WireFacts
    <3> QED BY <1>3, <1>4, <3>1, <3>2, SourceFacts
  <2> QED BY <1>1, <2>1, <2>2
<1>6. /\ tail' \in [Source -> Nat] /\ (\A r \in Source : r # s => tail'[r] = tail[r])
      /\ wire' \in [Source -> Seq(Message)]
  <2>1. wire'[s] \in Seq(Message)
    BY <1>5 DEF Chain
  <2>2. wire' = [wire EXCEPT ![s] = wire'[s]]
    BY <1>1, <1>2, <1>3
  <2>3. tail' \in [Source -> Nat] /\ (\A r \in Source : r # s => tail'[r] = tail[r])
    <3>1. tail[s] + m.num \in Nat
      BY <1>2, <1>4
    <3> HIDE DEF m
    <3> QED BY <1>1, <1>2, <3>1
  <2> QED BY <1>2, <2>1, <2>2, <2>3
<1> HIDE DEF m
<1>7. CountTyped'
  <2>1. UNCHANGED <<input, filled, nvlTail, nvlHead, start, room, sub, subHead, subRetired, head,
                    rcv, rcvHead, rcvRetired>>
    BY <1>1
  <2> QED BY <1>6, <2>1, InputKept DEF CountInv, CountTyped, input
<1>8. Walk(s)' /\ \A p \in Peer : Queue(s, p)'
  <2>1. Walk(s)'
    BY <1>1, WalkKept DEF CountInv
  <2>2. ASSUME NEW p \in Peer PROVE Queue(s, p)'
    BY <1>1, QueueKept, QueueFacts
  <2> QED BY <2>1, <2>2
<1>9. Channel(s)'
  <2>1. Channel(s)
    BY DEF CountInv
  <2>2. Kept(head[s], tail'[s], Total(s))
    <3>1. tail'[s] <= Total(s)
      BY <1>5, SourceFacts DEF Smaller
    <3> QED BY <1>5, <2>1, <3>1, SourceFacts DEF Kept, Channel, Large
  <2>3. ASSUME NEW t \in Chosen(s), t < rcv[t % NumReceivers].at PROVE Index(s, t) < tail'[s]
    <3>1. Index(s, t) < tail[s]
      BY <2>1, <2>3 DEF Channel
    <3>2. PICK i \in Nat : i = Index(s, t)
      BY SourceFacts, StreamNumbered
    <3> QED BY <1>5, <3>1, <3>2, SourceFacts
  <2>4. Bound(s)' = Bound(s) /\ Smaller(start[s], Total(s))' = Smaller(start[s], Total(s))
    BY <1>1, InputKept DEF Bound, ChunkEnd, Smaller
  <2>5. s # Home
    BY <1>1, WireFacts
  <2>6. UNCHANGED <<rdmaHeads, head, rcv, rcvHead, rcvRetired>>
    BY <1>1 DEF input
  <2> QED BY <1>5, <2>1, <2>2, <2>3, <2>4, <2>5, <2>6, <1>1, InputKept DEF Channel
<1> QED BY <1>1, <1>3, <1>6, <1>7, <1>8, <1>9, OtherSources

-----------------------------------------------------------------------------
(* What is kept of a node that no step of it has changed.                  *)
LEMMA NodesKept ==
  ASSUME CountInv, UNCHANGED <<input, filled, nvlTail, nvlHead, start, room, sub, subHead,
                               subRetired, wire, tail>>,
         CountTyped', \A s \in Source : Channel(s)', \A w \in Receiver : Turns(w)'
  PROVE  CountInv'
<1>1. ASSUME NEW s \in Source PROVE Walk(s)'
  BY WalkKept DEF CountInv
<1>2. ASSUME NEW s \in Source, NEW p \in Peer PROVE Queue(s, p)'
  BY QueueKept, QueueFacts
<1> QED BY <1>1, <1>2 DEF CountInv

(* The receivers' heads and tokens.                                        *)
LEMMA ReceiverFacts ==
  ASSUME CountInv, NEW w \in Receiver
  PROVE  /\ rcv[w].at \in Nat /\ NumReceivers \in Nat \ {0} /\ NumTokens \in Nat
         /\ Receiver = 0 .. NumReceivers - 1
         /\ rcv[w].at < NumTokens => rcv[w].at \in Token
         /\ \A s \in Source :
              /\ rcvHead[w][s] \in Nat
              /\ Index(s, rcv[w].at) \in Nat /\ Index(s, rcv[w].at) <= Total(s)
<1>1. rcv[w].at \in Nat /\ (\A s \in Source : rcvHead[w][s] \in Nat) /\ to \in Runs
  BY DEF CountInv, CountTyped, Warp
<1>2. NumTokens \in Nat /\ Token = 0 .. NumTokens - 1
  BY <1>1, RunFacts
<1>3. ASSUME NEW s \in Source PROVE Index(s, rcv[w].at) \in Nat /\ Index(s, rcv[w].at) <= Total(s)
  BY <1>1, StreamNumbered, SourceFacts
<1> QED BY <1>1, <1>2, <1>3, SizesAssumption DEF Receiver

(* Of the receivers still at work the one that is furthest behind has not  *)
(* passed a sum that is not there.                                         *)
LEMMA SlowestReceiver ==
  ASSUME CountInv, NEW s \in Source, Receiver \ rcvRetired # {}
  PROVE  \E w \in Receiver \ rcvRetired : Index(s, rcv[w].at) <= tail[s]
<1> DEFINE Places == {rcv[w].at : w \in Receiver \ rcvRetired}
<1>1. Places \in SUBSET Nat /\ Places # {}
  BY ReceiverFacts
<1>2. PICK w \in Receiver \ rcvRetired : \A v \in Receiver \ rcvRetired : rcv[w].at <= rcv[v].at
  <2>1. PICK x \in Places : \A y \in Places : x <= y
    <3> HIDE DEF Places
    <3> QED BY <1>1, LeastMember
  <2> QED BY <2>1
<1> HIDE DEF Places
<1>3. PICK a \in Nat, m \in Nat, n \in Nat : a = rcv[w].at /\ m = Index(s, a) /\ n = tail[s]
  BY ReceiverFacts, SourceFacts
<1>4. ASSUME NEW t \in Chosen(s), t < a PROVE Index(s, t) < tail[s]
  <2>1. t \in Nat /\ t < NumTokens /\ t % NumReceivers \in Receiver
    <3>1. t \in Token
      BY SourceFacts, StreamFacts
    <3>2. t \in Nat /\ t < NumTokens
      BY <3>1, SourceFacts, RunFacts
    <3> QED BY <3>2, SizesAssumption DEF Receiver
  <2>2. t < rcv[t % NumReceivers].at
    <3>1. PICK v \in Receiver : v = t % NumReceivers
      BY <2>1
    <3>2. CASE v \in rcvRetired
      <4>1. rcv[v].at >= NumTokens /\ rcv[v].at \in Nat /\ NumTokens \in Nat
        BY <3>2, ReceiverFacts DEF CountInv, Turns
      <4> QED BY <2>1, <3>1, <4>1
    <3>3. CASE v \notin rcvRetired
      <4>1. a <= rcv[v].at /\ rcv[v].at \in Nat
        BY <1>2, <1>3, <3>3, ReceiverFacts
      <4> QED BY <1>4, <2>1, <3>1, <4>1
    <3> QED BY <3>2, <3>3
  <2> QED BY <2>2 DEF CountInv, Channel
<1>5. m <= n
  <2> SUFFICES ASSUME n < m PROVE FALSE
    BY <1>3
  <2>1. PICK i \in Nat : i + 1 = m /\ i \in 0 .. Total(s) - 1
    <3>1. m \in Nat /\ n \in Nat /\ m <= Total(s) /\ Total(s) \in Nat
      BY <1>3, ReceiverFacts, SourceFacts
    <3>2. m - 1 \in Nat
      BY <3>1
    <3> QED BY <3>1, <3>2
  <2>2. PICK t \in Chosen(s) : Index(s, t) = i
    BY <2>1, SourceFacts, StreamNumbered
  <2>3. t \in Nat
    BY SourceFacts, StreamFacts
  <2>4. t < a
    <3>1. a <= t => Index(s, a) <= Index(s, t)
      BY <2>3, SourceFacts, StreamNumbered
    <3> QED BY <1>3, <2>1, <2>2, <2>3, <3>1
  <2> QED BY <1>3, <1>4, <2>1, <2>2, <2>4
<1> QED BY <1>3, <1>5

(* Home's coordinator gives back RDMA slots, by the slowest receiver.      *)
LEMMA CreditSourceCounts ==
  ASSUME CountInv, NEW s \in Source, CreditSource(s)
  PROVE  CountInv'
<1>1. PICK w \in Receiver \ rcvRetired :
        /\ \A v \in Receiver \ rcvRetired : rcvHead[w][s] <= rcvHead[v][s]
        /\ rcvHead[w][s] >= head[s] + RdmaSend
        /\ head' = [head EXCEPT ![s] = rcvHead[w][s]]
        /\ UNCHANGED <<input, filled, nvlTail, nvlHead, start, room, sub, subHead, subRetired, wire,
                       tail, rcv, rcvHead, rcvRetired>>
  BY DEF CreditSource, nvlink, forwarder, receiver
<1>2. PICK min \in Nat, old \in Nat :
        min = rcvHead[w][s] /\ old = head[s] /\ head' = [head EXCEPT ![s] = min] /\ old <= min
  <2>1. rcvHead[w][s] \in Nat /\ head[s] \in Nat /\ RdmaSend \in Nat
    BY ReceiverFacts, SourceFacts, SizesAssumption
  <2>2. PICK min \in Nat, old \in Nat, c \in Nat :
          min = rcvHead[w][s] /\ old = head[s] /\ c = RdmaSend
    BY <2>1
  <2>3. old <= min
    BY <1>1, <2>2
  <2> QED BY <1>1, <2>2, <2>3
<1>3. head' \in [Source -> Nat] /\ head'[s] = min /\ \A r \in Source : r # s => head'[r] = head[r]
  BY <1>2 DEF CountInv, CountTyped
<1>4. CountTyped'
  BY <1>1, <1>3, InputKept DEF CountInv, CountTyped, input
<1>5. Walk(s)'
  BY <1>1, WalkKept DEF CountInv
<1>6. ASSUME NEW p \in Peer PROVE Queue(s, p)'
  BY <1>1, QueueKept, QueueFacts
<1>7. Kept(min, tail[s], Total(s))
  <2>1. PICK v \in Receiver \ rcvRetired : Index(s, rcv[v].at) <= tail[s]
    BY SlowestReceiver
  <2>2. PICK h \in Nat, a \in Nat, b \in Nat, n \in Nat, all \in Nat :
          /\ h = rcvHead[v][s] /\ a = Index(s, rcv[v].at) /\ b = Index(s, rcv[w].at)
          /\ n = tail[s] /\ all = Total(s)
          /\ min <= h /\ a <= n /\ n <= all /\ b <= all
    <3>1. tail[s] <= Total(s) /\ tail[s] \in Nat /\ Total(s) \in Nat
      BY SourceFacts DEF Smaller
    <3> QED BY <1>1, <1>2, <2>1, <3>1, ReceiverFacts
  <2>3. Kept(h, a, all) /\ Kept(min, b, all)
    BY <1>2, <2>2 DEF CountInv, Channel
  <2>4. Kept(min, n, all)
    BY <2>2, <2>3 DEF Kept, Large
  <2> QED BY <2>2, <2>4
<1>8. Channel(s)'
  <2>1. Channel(s)
    BY DEF CountInv
  <2>2. Bound(s)' = Bound(s) /\ Smaller(start[s], Total(s))' = Smaller(start[s], Total(s))
    BY <1>1, InputKept DEF Bound, ChunkEnd, Smaller
  <2>3. Bound(s) <= min + RdmaRecv
    <3>1. Bound(s) <= old + RdmaRecv /\ Bound(s) \in Nat /\ RdmaRecv \in Nat
      BY <1>2, <2>1, SourceFacts, SizesAssumption DEF Channel
    <3> QED BY <1>2, <3>1
  <2>4. \A v \in Receiver : v \notin rcvRetired => min <= rcvHead[v][s]
    BY <1>1, <1>2
  <2>5. UNCHANGED rdmaHeads
    BY <1>1 DEF input
  <2> QED BY <1>1, <1>3, <1>7, <2>1, <2>2, <2>3, <2>4, <2>5, InputKept DEF Channel
<1> QED BY <1>1, <1>3, <1>4, <1>5, <1>6, <1>8, OtherSources

(* What a receiver does with an encoded head.                              *)
LEMMA RdmaHeadRead ==
  ASSUME CountInv, NEW s \in Source, NEW t \in Token
  PROVE  /\ Awaited(rdmaHeads[s][t]) = Coming(Index(s, t), Total(s))
         /\ Awaited(rdmaHeads[s][t]) \in Nat
         /\ rdmaHeads[s][t] >= 0 <=> t \in Chosen(s)
         /\ t \in Chosen(s) => rdmaHeads[s][t] = Index(s, t)
<1>1. rdmaHeads[s] = RdmaHead(s) /\ to \in Runs
  BY DEF CountInv, CountTyped
<1> QED BY <1>1, RdmaHeads

(* A receiver notes the heads that it waits for.                           *)
LEMMA AwaitCounts ==
  ASSUME CountInv, NEW w \in Receiver, Await(w)
  PROVE  CountInv'
<1> DEFINE t == rcv[w].at
           want == [s \in Source |-> Awaited(rdmaHeads[s][t])]
<1>1. /\ UNCHANGED <<input, filled, nvlTail, nvlHead, start, room, sub, subHead, subRetired, wire,
                     tail>>
      /\ UNCHANGED <<head, rcvRetired>>
      /\ t < NumTokens /\ ~rcv[w].waits
      /\ rcvHead' = [rcvHead EXCEPT ![w] = want]
      /\ rcv' = [rcv EXCEPT ![w].waits = TRUE]
  BY DEF Await, nvlink, forwarder
<1>2. t \in Token /\ t \in Nat
  BY <1>1, ReceiverFacts
<1>3. ASSUME NEW s \in Source
      PROVE  /\ want[s] \in Nat /\ Kept(want[s], Index(s, t), Total(s))
             /\ rcvHead[w][s] <= want[s]
             /\ want[s] = Awaited(rdmaHeads[s][t])
  <2>1. want[s] \in Nat /\ want[s] = Coming(Index(s, t), Total(s))
    BY <1>2, RdmaHeadRead
  <2>2. PICK h \in Nat, n \in Nat, all \in Nat :
          /\ h = rcvHead[w][s] /\ n = Index(s, t) /\ all = Total(s)
          /\ n <= all /\ all <= Large
    BY ReceiverFacts, SourceFacts
  <2>3. Kept(h, n, all)
    BY <2>2 DEF CountInv, Channel
  <2>4. h <= Coming(n, all) /\ Kept(Coming(n, all), n, all)
    BY <2>2, <2>3, KeptFacts
  <2> QED BY <2>1, <2>2, <2>4
<1>4. /\ \A v \in Receiver : /\ rcv'[v].at = rcv[v].at
                             /\ v # w => rcv'[v] = rcv[v] /\ rcvHead'[v] = rcvHead[v]
      /\ rcv'[w].waits = TRUE /\ rcvHead'[w] = want
      /\ rcv' \in [Receiver -> Warp] /\ rcvHead' \in [Receiver -> [Source -> Nat]]
  <2>1. rcv \in [Receiver -> Warp] /\ rcvHead \in [Receiver -> [Source -> Nat]]
    BY DEF CountInv, CountTyped
  <2>2. want \in [Source -> Nat]
    BY <1>3
  <2> HIDE DEF want
  <2>3. \A v \in Receiver : rcv'[v] = IF v = w THEN [rcv[w] EXCEPT !.waits = TRUE] ELSE rcv[v]
    BY <1>1, <2>1
  <2>4. rcv[w] \in Warp
    BY <2>1
  <2>5. /\ [rcv[w] EXCEPT !.waits = TRUE].at = rcv[w].at
        /\ [rcv[w] EXCEPT !.waits = TRUE].waits = TRUE
        /\ [rcv[w] EXCEPT !.waits = TRUE] \in Warp
    BY <2>4 DEF Warp
  <2>6. rcvHead' \in [Receiver -> [Source -> Nat]]
        /\ \A v \in Receiver : rcvHead'[v] = IF v = w THEN want ELSE rcvHead[v]
    BY <1>1, <2>1, <2>2
  <2>7. rcv' \in [Receiver -> Warp]
    <3>1. rcv' = [rcv EXCEPT ![w] = [rcv[w] EXCEPT !.waits = TRUE]]
      BY <1>1
    <3> QED BY <2>1, <2>5, <3>1
  <2> QED BY <2>3, <2>5, <2>6, <2>7
<1> HIDE DEF want
<1>5. CountTyped'
  BY <1>1, <1>4, InputKept DEF CountInv, CountTyped, input
<1>6. ASSUME NEW s \in Source PROVE Channel(s)'
  <2>1. Channel(s)
    BY DEF CountInv
  <2>2. Bound(s)' = Bound(s) /\ Smaller(start[s], Total(s))' = Smaller(start[s], Total(s))
    BY <1>1, InputKept DEF Bound, ChunkEnd, Smaller
  <2>3. ASSUME NEW v \in Receiver
        PROVE  /\ Kept(rcvHead'[v][s], Index(s, rcv[v].at), Total(s))
               /\ rcv'[v].waits => rcvHead'[v][s] = Awaited(rdmaHeads[s][rcv[v].at])
               /\ v \notin rcvRetired => head[s] <= rcvHead'[v][s]
    <3>1. CASE v = w
      <4>1. w \notin rcvRetired => head[s] <= want[s]
        <5>1. w \notin rcvRetired => head[s] <= rcvHead[w][s]
          BY <2>1 DEF Channel
        <5> QED BY <1>3, <5>1, ReceiverFacts, SourceFacts
      <4> QED BY <1>3, <1>4, <3>1, <4>1
    <3>2. CASE v # w
      BY <1>4, <2>1, <3>2 DEF Channel
    <3> QED BY <3>1, <3>2
  <2>4. ASSUME NEW u \in Chosen(s), u < rcv'[u % NumReceivers].at PROVE Index(s, u) < tail[s]
    <3>1. u % NumReceivers \in Receiver
      BY SourceFacts, StreamFacts, ReceiverFacts
    <3> QED BY <1>4, <2>1, <2>4, <3>1 DEF Channel
  <2>5. UNCHANGED <<rdmaHeads, head, wire, tail, rcvRetired>>
    BY <1>1 DEF input
  <2> QED BY <1>1, <1>4, <2>1, <2>2, <2>3, <2>4, <2>5, InputKept DEF Channel
<1>7. ASSUME NEW v \in Receiver PROVE Turns(v)'
  <2>1. Turns(v)
    BY DEF CountInv
  <2> QED BY <1>1, <1>4, <2>1, InputKept DEF Turns
<1> QED BY <1>1, <1>5, <1>6, <1>7, NodesKept

(* It has its sums, and goes on to its next token.                         *)
LEMMA ReceiveCounts ==
  ASSUME CountInv, NEW w \in Receiver, Receive(w)
  PROVE  CountInv'
<1> DEFINE t == rcv[w].at
           next == [at |-> t + NumReceivers, waits |-> FALSE]
<1>1. /\ UNCHANGED <<input, filled, nvlTail, nvlHead, start, room, sub, subHead, subRetired, wire,
                     tail>>
      /\ UNCHANGED <<head, rcvHead, rcvRetired>>
      /\ rcv[w].waits /\ \A s \in Source : tail[s] > rdmaHeads[s][t]
      /\ rcv' = [rcv EXCEPT ![w] = next]
  BY DEF Receive, nvlink, forwarder
<1>2. /\ t \in Token /\ t \in Nat /\ t < NumTokens /\ t % NumReceivers = w
      /\ NumReceivers \in Nat \ {0} /\ Receiver = 0 .. NumReceivers - 1
  BY <1>1, ReceiverFacts DEF CountInv, Turns
<1>3. /\ \A v \in Receiver : v # w => rcv'[v] = rcv[v]
      /\ rcv'[w].at = t + NumReceivers /\ rcv'[w].waits = FALSE /\ rcv' \in [Receiver -> Warp]
  <2>1. rcv \in [Receiver -> Warp] /\ next \in Warp
    BY <1>2 DEF CountInv, CountTyped, Warp
  <2>2. next.at = t + NumReceivers /\ next.waits = FALSE
    OBVIOUS
  <2> HIDE DEF next
  <2> QED BY <1>1, <2>1, <2>2
<1> HIDE DEF next
<1>4. CountTyped'
  BY <1>1, <1>3, InputKept DEF CountInv, CountTyped, input
<1>5. ASSUME NEW s \in Source PROVE Channel(s)'
  <2>1. Channel(s)
    BY DEF CountInv
  <2>2. Bound(s)' = Bound(s) /\ Smaller(start[s], Total(s))' = Smaller(start[s], Total(s))
    BY <1>1, InputKept DEF Bound, ChunkEnd, Smaller
  <2>3. ASSUME NEW v \in Receiver
        PROVE  /\ Kept(rcvHead[v][s], Index(s, rcv'[v].at), Total(s))
               /\ rcv'[v].waits => rcvHead[v][s] = Awaited(rdmaHeads[s][rcv'[v].at])
    <3>1. CASE v = w
      <4>1. PICK h \in Nat, n \in Nat, m \in Nat, all \in Nat :
              /\ h = rcvHead[w][s] /\ n = Index(s, t) /\ m = Index(s, t + NumReceivers)
              /\ all = Total(s) /\ n <= m /\ m <= all
        <5>1. PICK a \in Nat, b \in Nat : a = t /\ b = t + NumReceivers /\ a <= b
          BY <1>2
        <5>2. /\ Index(s, a) \in 0 .. Total(s) /\ Index(s, b) \in 0 .. Total(s)
              /\ Index(s, a) <= Index(s, b)
          BY <5>1, SourceFacts, StreamNumbered
        <5>3. Total(s) \in Nat /\ rcvHead[w][s] \in Nat
          BY SourceFacts, ReceiverFacts
        <5> QED BY <5>1, <5>2, <5>3
      <4>2. Kept(h, n, all)
        BY <2>1, <4>1 DEF Channel
      <4>3. Kept(h, m, all)
        BY <4>1, <4>2 DEF Kept, Large
      <4> QED BY <1>3, <3>1, <4>1, <4>3
    <3>2. CASE v # w
      BY <1>3, <2>1, <3>2 DEF Channel
    <3> QED BY <3>1, <3>2
  <2>4. ASSUME NEW u \in Chosen(s), u < rcv'[u % NumReceivers].at PROVE Index(s, u) < tail[s]
    <3>1. u \in Nat /\ u % NumReceivers \in Receiver
      BY SourceFacts, StreamFacts, ReceiverFacts
    <3>2. CASE u < rcv[u % NumReceivers].at
      BY <2>1, <3>2 DEF Channel
    <3>3. CASE ~(u < rcv[u % NumReceivers].at)
      <4>1. u % NumReceivers = w
        BY <1>3, <2>4, <3>1, <3>3
      <4>2. u < t + NumReceivers /\ t <= u
        BY <1>2, <1>3, <2>4, <3>1, <3>3, <4>1
      <4>3. t = u
        BY <1>2, <3>1, <4>1, <4>2, SameResidue
      <4>4. rdmaHeads[s][t] = Index(s, t)
        BY <1>2, <4>3, RdmaHeadRead
      <4>5. PICK i \in Nat : i = Index(s, t)
        BY ReceiverFacts
      <4> QED BY <1>1, <4>3, <4>4, <4>5, SourceFacts
    <3> QED BY <3>2, <3>3
  <2>5. UNCHANGED <<rdmaHeads, head, wire, tail, rcvHead, rcvRetired>>
    BY <1>1 DEF input
  <2> QED BY <1>1, <2>1, <2>2, <2>3, <2>4, <2>5, InputKept DEF Channel
<1>6. ASSUME NEW v \in Receiver PROVE Turns(v)'
  <2>1. Turns(v)
    BY DEF CountInv
  <2>2. CASE v = w
    <3>1. (t + NumReceivers) % NumReceivers = w
      BY <1>2, NextResidue
    <3>2. w \notin rcvRetired
      <4>1. w \in rcvRetired => t >= NumTokens
        BY DEF CountInv, Turns
      <4> QED BY <1>2, <4>1, ReceiverFacts
    <3> QED BY <1>1, <1>3, <2>2, <3>1, <3>2 DEF Turns
  <2>3. CASE v # w
    BY <1>1, <1>3, <2>1, <2>3, InputKept DEF Turns
  <2> QED BY <2>2, <2>3
<1> QED BY <1>1, <1>4, <1>5, <1>6, NodesKept

(* A receiver that has no tokens left retires.                             *)
LEMMA RetireReceiverCounts ==
  ASSUME CountInv, NEW w \in Receiver, RetireReceiver(w)
  PROVE  CountInv'
<1>1. /\ UNCHANGED <<input, filled, nvlTail, nvlHead, start, room, sub, subHead, subRetired, wire,
                     tail>>
      /\ UNCHANGED <<head, rcv, rcvHead>>
      /\ rcv[w].at >= NumTokens /\ rcvRetired' = rcvRetired \cup {w}
  BY DEF RetireReceiver, nvlink, forwarder
<1>2. CountTyped'
  BY <1>1, InputKept DEF CountInv, CountTyped, input
<1>3. ASSUME NEW s \in Source PROVE Channel(s)'
  <2>1. Channel(s)
    BY DEF CountInv
  <2>2. Bound(s)' = Bound(s) /\ Smaller(start[s], Total(s))' = Smaller(start[s], Total(s))
    BY <1>1, InputKept DEF Bound, ChunkEnd, Smaller
  <2>3. UNCHANGED rdmaHeads
    BY <1>1 DEF input
  <2> QED BY <1>1, <2>1, <2>2, <2>3, InputKept DEF Channel
<1>4. ASSUME NEW v \in Receiver PROVE Turns(v)'
  <2>1. Turns(v)
    BY DEF CountInv
  <2> QED BY <1>1, <2>1, InputKept DEF Turns
<1> QED BY <1>1, <1>2, <1>3, <1>4, NodesKept

(* The channel begins clean.                                               *)
LEMMA InitCounts ==
  ASSUME Init
  PROVE  CountInv
<1>1. /\ NumForwarders \in Nat \ {0} /\ NumReceivers \in Nat \ {0} /\ RdmaSend \in Nat \ {0}
      /\ RdmaRecv \in Nat \ {0} /\ NvlSend \in Nat \ {0} /\ NvlRecv \in Nat \ {0}
      /\ SubWarp = 0 .. NumForwarders - 1 /\ Receiver = 0 .. NumReceivers - 1
      /\ to \in Runs
  BY SizesAssumption DEF SubWarp, Receiver, Init
<1>2. CountTyped
  BY <1>1 DEF Init, CountTyped, Warp
<1>3. ASSUME NEW s \in Source
      PROVE  /\ start[s] = 0 /\ ~room[s] /\ wire[s] = <<>> /\ tail[s] = 0 /\ head[s] = 0
             /\ subRetired[s] = {}
             /\ \A j \in SubWarp : sub[s][j].at = j /\ ~sub[s][j].waits
             /\ \A p \in Peer : /\ filled[s][p] = 0 /\ nvlTail[s][p] = 0 /\ nvlHead[s][p] = 0
                                /\ \A j \in SubWarp : subHead[s][j][p] = 0
  BY DEF Init
<1>4. /\ \A w \in Receiver : rcv[w].at = w /\ ~rcv[w].waits
      /\ \A w \in Receiver, s \in Source : rcvHead[w][s] = 0
      /\ rcvRetired = {}
  BY DEF Init
<1>5. ASSUME NEW s \in Source PROVE Walk(s)
  BY <1>1, <1>3 DEF Walk
<1>6. ASSUME NEW s \in Source PROVE Smaller(start[s], Total(s)) = 0 /\ Bound(s) = 0 /\ Total(s) \in Nat
  <2>1. Total(s) \in Nat
    BY <1>1, StreamFacts
  <2> QED BY <1>3, <2>1 DEF Smaller, Bound
<1>7. ASSUME NEW s \in Source PROVE Channel(s)
  <2>1. Chain(wire[s], tail[s], Smaller(start[s], Total(s)))
    <3>1. <<>> \in Seq(Message) /\ 1 .. Len(<<>>) = {}
      OBVIOUS
    <3> QED BY <1>3, <1>6, <3>1 DEF Chain
  <2>2. ASSUME NEW t \in Chosen(s) PROVE ~(t < rcv[t % NumReceivers].at)
    <3>1. t \in Nat
      BY <1>1, StreamFacts
    <3>2. t % NumReceivers \in Receiver /\ t % NumReceivers <= t
      BY <1>1, <3>1
    <3> QED BY <1>1, <1>4, <3>1, <3>2
  <2>3. ASSUME NEW w \in Receiver PROVE Kept(rcvHead[w][s], Index(s, rcv[w].at), Total(s))
    <3>1. Index(s, w) \in Nat
      BY <1>1, StreamNumbered
    <3> QED BY <1>4, <3>1 DEF Kept
  <2>4. Kept(head[s], tail[s], Total(s)) /\ Bound(s) <= head[s] + RdmaRecv
    BY <1>1, <1>3, <1>6 DEF Kept
  <2> QED BY <1>3, <1>4, <2>1, <2>2, <2>3, <2>4 DEF Channel
<1>8. ASSUME NEW s \in Source, NEW p \in Peer PROVE Queue(s, p)
  <2>1. \A j \in SubWarp : Spot(s, j) = 0
    BY <1>3, <1>6 DEF Spot
  <2>2. Ahead(s, p, 0) = 0 /\ Share(s, p) \in Nat
    BY <1>1, AheadFacts, StreamFacts
  <2>3. \A i \in 0 .. Total(s) - 1 : ~Done(s, i)
    BY <1>3, <1>6 DEF Done
  <2> QED BY <1>1, <1>3, <2>1, <2>2, <2>3 DEF Queue, Kept
<1>9. ASSUME NEW w \in Receiver PROVE Turns(w)
  <2>1. w % NumReceivers = w
    BY <1>1
  <2> QED BY <1>4, <2>1 DEF Turns
<1> QED BY <1>2, <1>5, <1>7, <1>8, <1>9 DEF CountInv

(* Every step keeps the counters right.                                    *)
LEMMA StepCounts ==
  ASSUME Ordered, CountInv, [Next]_vars
  PROVE  CountInv'
<1>1. CASE UNCHANGED vars
  <2>1. UNCHANGED <<input, filled, nvlTail, nvlHead, start, room, sub, subHead, subRetired, wire,
                    tail, head, rcv, rcvHead, rcvRetired>>
    BY <1>1 DEF vars, nvlink, forwarder, receiver
  <2>2. CountTyped'
    BY <2>1, InputKept DEF CountInv, CountTyped, input
  <2>3. \A s \in Source : Channel(s)'
    BY <2>1, ChannelKept DEF CountInv
  <2>4. \A w \in Receiver : Turns(w)'
    BY <2>1, TurnsKept DEF CountInv
  <2> QED BY <2>1, <2>2, <2>3, <2>4, NodesKept
<1>2. CASE \E s \in Source : SourceStep(s)
  BY <1>2, AwaitRoomCounts, IssueChunkCounts, InOrder, DeliverCounts, CreditSourceCounts, SendChunkCounts,
     PublishChunkCounts, CreditPeerCounts, ExpectCounts, CombineCounts, RetireSubWarpCounts
     DEF SourceStep
<1>3. CASE \E w \in Receiver : Await(w) \/ Receive(w) \/ RetireReceiver(w)
  BY <1>3, AwaitCounts, ReceiveCounts, RetireReceiverCounts
<1> QED BY <1>1, <1>2, <1>3 DEF Next

-----------------------------------------------------------------------------
(* How far the sums of a node have come over the network.                  *)
LEMMA FrontierFacts ==
  ASSUME CountInv, NEW s \in Source
  PROVE  /\ Frontier(s) \in Nat /\ tail[s] <= Frontier(s)
         /\ Frontier(s) <= Smaller(start[s], Total(s)) /\ Frontier(s) <= Bound(s)
<1>1. /\ tail[s] \in Nat /\ tail[s] <= Smaller(start[s], Total(s))
      /\ Smaller(start[s], Total(s)) \in Nat /\ Smaller(start[s], Total(s)) <= Bound(s)
      /\ Bound(s) \in Nat
  BY SourceFacts
<1>2. CASE wire[s] # <<>> /\ wire[s][1].kind = "add"
  <2>1. wire[s][1].num \in Nat /\ tail[s] + wire[s][1].num <= Smaller(start[s], Total(s))
    BY <1>2, WireFacts
  <2>2. Frontier(s) = tail[s] + wire[s][1].num
    BY <1>2 DEF Frontier
  <2> QED BY <1>1, <2>1, <2>2
<1>3. CASE ~(wire[s] # <<>> /\ wire[s][1].kind = "add")
  <2>1. Frontier(s) = tail[s]
    BY <1>3 DEF Frontier
  <2> QED BY <1>1, <2>1
<1> QED BY <1>2, <1>3

(* Only what is before the bound is written.                               *)
LEMMA DoneFacts ==
  ASSUME CountInv, NEW s \in Source, NEW i \in Nat
  PROVE  /\ Done(s, i) /\ i < Total(s) => i < Bound(s)
         /\ i < Smaller(start[s], Total(s)) => Done(s, i) /\ i < Total(s)
<1>1. /\ start[s] \in Nat /\ Total(s) \in Nat /\ ChunkEnd(s) \in Nat
      /\ room[s] => start[s] < ChunkEnd(s) /\ Bound(s) = ChunkEnd(s)
      /\ ~room[s] => Bound(s) = Smaller(start[s], Total(s))
  BY SourceFacts DEF Bound
<1>2. i < Smaller(start[s], Total(s)) => Done(s, i) /\ i < Total(s)
  BY <1>1 DEF Done, Smaller
<1>3. Done(s, i) /\ i < Total(s) => i < Bound(s)
  <2>1. CASE room[s]
    BY <1>1, <2>1 DEF Done
  <2>2. CASE ~room[s]
    BY <1>1, <2>2 DEF Done, Smaller
  <2> QED BY <2>1, <2>2
<1> QED BY <1>2, <1>3

(* The sum of a number of a node, by its token.                            *)
LEMMA SumFacts ==
  ASSUME CountInv, NEW s \in Source
  PROVE  /\ \A i \in 0 .. Total(s) - 1 :
              /\ SumOf(s, i) \subseteq {s} \X Peer \X Token
              /\ TokenAt(s, i) \in Token
              /\ \A p \in Peer : TokenAt(s, i) \in For(s, p) <=> p \in to[TokenAt(s, i)][s]
         /\ \A t \in Chosen(s) : SumOf(s, Index(s, t)) = {<<s, p, t>> : p \in to[t][s]}
<1>1. /\ to \in Runs /\ Chosen(s) \subseteq Token
      /\ \A t \in Token : to[t][s] \in SUBSET Peer
  BY SourceFacts, StreamFacts, RunFacts
<1>2. \A i \in 0 .. Total(s) - 1 : TokenAt(s, i) \in Token
  BY <1>1, StreamNumbered
<1>3. \A t \in Chosen(s) : SumOf(s, Index(s, t)) = {<<s, p, t>> : p \in to[t][s]}
  BY <1>1, StreamNumbered DEF SumOf
<1>4. ASSUME NEW i \in 0 .. Total(s) - 1
      PROVE  \A p \in Peer : TokenAt(s, i) \in For(s, p) <=> p \in to[TokenAt(s, i)][s]
  BY <1>2 DEF For
<1>5. ASSUME NEW i \in 0 .. Total(s) - 1 PROVE SumOf(s, i) \subseteq {s} \X Peer \X Token
  BY <1>1, <1>2 DEF SumOf
<1> QED BY <1>2, <1>3, <1>4, <1>5

(* What a sub-warp that has waited adds up is the sum of its token.        *)
LEMMA ChunkSum ==
  ASSUME CountInv, RowInv, NEW s \in Source, NEW j \in SubWarp, sub[s][j].waits,
         \A p \in Peer : nvlTail[s][p] > nvlHeads[s][p][sub[s][j].at]
  PROVE  /\ sub[s][j].at \in 0 .. Total(s) - 1
         /\ CombineToken(nvlRing[s], [p \in Peer |-> nvlHeads[s][p][sub[s][j].at]], NvlRecv)
              = SumOf(s, sub[s][j].at)
<1> DEFINE i == sub[s][j].at
           h == [p \in Peer |-> nvlHeads[s][p][i]]
           t == TokenAt(s, i)
<1>1. i \in 0 .. Total(s) - 1 /\ subRetired[s] = {}
  <2>1. room[s] /\ i < ChunkEnd(s) /\ (subRetired[s] # {} => start[s] >= Total(s))
    BY DEF CountInv, Walk
  <2>2. /\ i \in Nat /\ ChunkEnd(s) \in Nat /\ ChunkEnd(s) <= Total(s) /\ Total(s) \in Nat
        /\ start[s] < Total(s) /\ start[s] \in Nat
    BY <2>1, SourceFacts
  <2> QED BY <2>1, <2>2
<1>2. ASSUME NEW p \in Peer
      PROVE  /\ h[p] >= 0 <=> p \in to[t][s]
             /\ h[p] >= 0 => nvlRing[s][p][h[p] % NvlRecv] = {<<s, p, t>>}
  <2>1. nvlHeads[s][p] = NvlHead(s, p)
    BY DEF CountInv, CountTyped
  <2>2. /\ h[p] >= 0 <=> t \in For(s, p)
        /\ t \in For(s, p) => h[p] = Ahead(s, p, i)
        /\ Awaited(h[p]) = Coming(Ahead(s, p, i), Share(s, p))
    BY <1>1, <2>1, SourceFacts, NvlHeads
  <2>3. h[p] >= 0 <=> p \in to[t][s]
    BY <1>1, <2>2, SumFacts
  <2>4. ASSUME h[p] >= 0 PROVE nvlRing[s][p][h[p] % NvlRecv] = {<<s, p, t>>}
    <3>1. t \in For(s, p) /\ h[p] = Ahead(s, p, i) /\ Index(s, t) = i
      BY <1>1, <2>2, <2>4, SourceFacts, StreamNumbered
    <3>2. PICK k \in Nat : k = h[p] /\ k = Place(s, p, t) /\ k < Share(s, p)
      BY <3>1, SourceFacts, PlaceFacts, QueueFacts
    <3>3. subHead[s][j][p] = k
      <4>1. subHead[s][j][p] = Awaited(h[p])
        BY QueueFacts DEF Queue
      <4> QED BY <2>2, <3>1, <3>2, <4>1 DEF Coming
    <3>4. k < nvlTail[s][p] /\ nvlHead[s][p] <= k
      <4>1. nvlTail[s][p] > h[p]
        OBVIOUS
      <4>2. nvlHead[s][p] <= subHead[s][j][p]
        BY <1>1, QueueFacts DEF Queue
      <4>3. nvlTail[s][p] \in Nat /\ nvlHead[s][p] \in Nat
        BY QueueFacts
      <4> QED BY <3>2, <3>3, <4>1, <4>2, <4>3
    <3>5. k \in 0 .. filled[s][p] - 1 /\ filled[s][p] <= k + NvlRecv
      <4>1. nvlTail[s][p] <= filled[s][p] /\ filled[s][p] <= nvlHead[s][p] + NvlRecv
        BY QueueFacts DEF Queue
      <4> QED BY <3>4, <4>1, QueueFacts
    <3>6. nvlRing[s][p][NvlSlot(k)] = {RowAt(s, p, k)}
      BY <3>5 DEF RowInv, QueueHolds
    <3>7. RowAt(s, p, k) = <<s, p, t>>
      <4>1. to \in Runs
        BY SourceFacts
      <4>2. RowAt(s, p, Place(s, p, t)) = <<s, p, t>>
        BY <3>1, <4>1, PlaceFacts
      <4> QED BY <3>2, <4>2
    <3> QED BY <3>2, <3>6, <3>7 DEF NvlSlot
  <2> QED BY <2>3, <2>4
<1>3. to[t][s] \in SUBSET Peer
  BY <1>1, SourceFacts, SumFacts, RunFacts
<1>4. CombineToken(nvlRing[s], h, NvlRecv) = UNION {nvlRing[s][p][h[p] % NvlRecv] : p \in {q \in Peer : h[q] >= 0}}
  BY DEF CombineToken
<1>5. {q \in Peer : h[q] >= 0} = to[t][s]
  BY <1>2, <1>3
<1>6. SumOf(s, i) = {<<s, p, t>> : p \in to[t][s]}
  BY DEF SumOf
<1>7. \A p \in to[t][s] : nvlRing[s][p][h[p] % NvlRecv] = {<<s, p, t>>}
  BY <1>2, <1>3
<1> HIDE DEF h, t
<1>8. UNION {nvlRing[s][p][h[p] % NvlRecv] : p \in to[t][s]} = {<<s, p, t>> : p \in to[t][s]}
  BY <1>7
<1>9. CombineToken(nvlRing[s], h, NvlRecv) = SumOf(s, i)
  BY <1>4, <1>5, <1>6, <1>8
<1> QED BY <1>1, <1>9 DEF h

(* What a receiver that has waited adds up is all that is held of a token. *)
LEMMA TokenSum ==
  ASSUME CountInv, RowInv, NEW w \in Receiver, rcv[w].waits,
         \A s \in Source : tail[s] > rdmaHeads[s][rcv[w].at]
  PROVE  /\ rcv[w].at \in Token
         /\ CombineToken(ring, [s \in Source |-> rdmaHeads[s][rcv[w].at]], RdmaRecv) = Held(rcv[w].at)
<1> DEFINE t == rcv[w].at
           h == [s \in Source |-> rdmaHeads[s][t]]
<1>1. t \in Token /\ w \notin rcvRetired
  <2>1. t < NumTokens /\ (w \in rcvRetired => t >= NumTokens)
    BY DEF CountInv, Turns
  <2> QED BY <2>1, ReceiverFacts
<1>2. ASSUME NEW s \in Source
      PROVE  /\ h[s] >= 0 <=> t \in Chosen(s)
             /\ h[s] >= 0 => ring[s][h[s] % RdmaRecv] = {<<s, p, t>> : p \in to[t][s]}
  <2>1. /\ h[s] >= 0 <=> t \in Chosen(s)
        /\ t \in Chosen(s) => h[s] = Index(s, t)
        /\ Awaited(h[s]) = Coming(Index(s, t), Total(s))
    BY <1>1, RdmaHeadRead
  <2>2. ASSUME h[s] >= 0 PROVE ring[s][h[s] % RdmaRecv] = {<<s, p, t>> : p \in to[t][s]}
    <3>1. t \in Chosen(s) /\ h[s] = Index(s, t)
      BY <2>1, <2>2
    <3>2. PICK k \in Nat : k = h[s] /\ k = Index(s, t) /\ k < Total(s)
      BY <3>1, SourceFacts, StreamNumbered
    <3>3. rcvHead[w][s] = k
      <4>1. rcvHead[w][s] = Awaited(h[s])
        BY DEF CountInv, Channel
      <4> QED BY <2>1, <3>2, <4>1 DEF Coming
    <3>4. k < tail[s] /\ head[s] <= k /\ Bound(s) <= head[s] + RdmaRecv
      BY <1>1, <3>2, <3>3 DEF CountInv, Channel
    <3>5. Bound(s) <= k + RdmaRecv /\ k \in 0 .. Total(s) - 1
      BY <3>2, <3>4, SourceFacts, SizesAssumption
    <3>6. SumOf(s, k) = {<<s, p, t>> : p \in to[t][s]}
      BY <3>1, <3>2, SumFacts
    <3>7. CASE s = Home
      <4>1. Done(s, k)
        BY <3>4, SourceFacts, DoneFacts
      <4>2. Buffer(s)[RdmaSlot(k)] = SumOf(s, k)
        BY <3>5, <4>1 DEF RowInv, Written
      <4> QED BY <3>2, <3>6, <3>7, <4>2 DEF Buffer, RdmaSlot
    <3>8. CASE s # Home
      <4>1. k \in 0 .. Frontier(s) - 1 /\ Frontier(s) <= k + RdmaRecv
        BY <3>4, <3>5, FrontierFacts, SourceFacts, SizesAssumption
      <4>2. ring[s][RdmaSlot(k)] = SumOf(s, k)
        BY <3>8, <4>1 DEF RowInv, ArrivedIn
      <4> QED BY <3>2, <3>6, <4>2 DEF RdmaSlot
    <3> QED BY <3>7, <3>8
  <2> QED BY <2>1, <2>2
<1>3. \A s \in Source : to[t][s] \in SUBSET Peer /\ (t \in Chosen(s) <=> to[t][s] # {})
  <2>1. to \in Runs
    BY DEF CountInv, CountTyped
  <2> QED BY <1>1, <2>1, RunFacts DEF Chosen
<1>4. CombineToken(ring, h, RdmaRecv) = UNION {ring[s][h[s] % RdmaRecv] : s \in {r \in Source : h[r] >= 0}}
  BY DEF CombineToken
<1> HIDE DEF h
<1>5. {r \in Source : h[r] >= 0} = {r \in Source : to[t][r] # {}}
  BY <1>2, <1>3
<1>6. UNION {ring[s][h[s] % RdmaRecv] : s \in {r \in Source : to[t][r] # {}}}
        = {x \in Source \X Peer \X {t} : x[2] \in to[t][x[1]]}
  <2> DEFINE S == {r \in Source : to[t][r] # {}}
             L == UNION {ring[s][h[s] % RdmaRecv] : s \in S}
             R == {x \in Source \X Peer \X {t} : x[2] \in to[t][x[1]]}
  <2>1. \A s \in S : ring[s][h[s] % RdmaRecv] = {<<s, p, t>> : p \in to[t][s]}
    BY <1>2, <1>3
  <2>2. ASSUME NEW x \in L PROVE x \in R
    <3>1. PICK s \in S : x \in {<<s, p, t>> : p \in to[t][s]}
      BY <2>1
    <3>2. PICK p \in to[t][s] : x = <<s, p, t>>
      BY <3>1
    <3> QED BY <1>3, <3>2
  <2>3. ASSUME NEW x \in R PROVE x \in L
    <3>1. PICK s \in Source, p \in Peer : x = <<s, p, t>> /\ p \in to[t][s]
      OBVIOUS
    <3>2. s \in S
      BY <3>1
    <3>3. x \in ring[s][h[s] % RdmaRecv]
      BY <2>1, <3>1, <3>2
    <3> QED BY <3>2, <3>3
  <2> HIDE DEF L, R
  <2> QED BY <2>2, <2>3 DEF L, R
<1>7. CombineToken(ring, h, RdmaRecv) = Held(t)
  BY <1>4, <1>5, <1>6 DEF Held
<1> QED BY <1>1, <1>7 DEF h

-----------------------------------------------------------------------------
(* A step that writes no row keeps what the rows say, if it takes no more  *)
(* sums for written, and expects no older ones to be still there.          *)
LEMMA RowsKept ==
  ASSUME RowInv, UNCHANGED <<input, nvlRing, staged, ring, combined, filled>>,
         \A s \in Source : Bound(s) \in Nat /\ Bound(s)' \in Nat /\ Total(s) \in Nat,
         \A s \in Source :
           /\ \A i \in 0 .. Total(s) - 1 : Done(s, i)' => Done(s, i)
           /\ Bound(s) <= Bound(s)'
           /\ s # Home => Frontier(s)' = Frontier(s),
         \A t \in Token : rcv'[t % NumReceivers].at = rcv[t % NumReceivers].at
  PROVE  RowInv'
<1>1. /\ Token' = Token /\ to' = to
      /\ \A s : Total(s)' = Total(s) /\ \A i : TokenAt(s, i)' = TokenAt(s, i)
      /\ \A s, i : SumOf(s, i)' = SumOf(s, i)
      /\ \A s, p, k : RowAt(s, p, k)' = RowAt(s, p, k)
      /\ \A t : Held(t)' = Held(t)
  <2>1. to' = to
    BY DEF input
  <2> QED BY <2>1, InputKept, ZenonT(60) DEF SumOf, RowAt, For, Place, Held, Token
<1>2. RowsTyped'
  BY <1>1 DEF RowInv, RowsTyped
<1>3. ASSUME NEW s \in Source PROVE Written(s)'
  <2>1. Written(s) /\ Buffer(s)' = Buffer(s)
    BY DEF RowInv, Buffer
  <2>2. ASSUME NEW i \in 0 .. Total(s) - 1, Done(s, i)', Bound(s)' <= i + RdmaRecv
        PROVE  Buffer(s)[RdmaSlot(i)] = SumOf(s, i)
    <3>1. Bound(s) <= i + RdmaRecv
      BY <2>2, SizesAssumption
    <3> QED BY <2>1, <2>2, <3>1 DEF Written
  <2> QED BY <1>1, <2>1, <2>2 DEF Written, RdmaSlot
<1>4. ASSUME NEW s \in Source PROVE ArrivedIn(s)'
  BY <1>1 DEF RowInv, ArrivedIn, RdmaSlot
<1>5. ASSUME NEW s \in Source, NEW p \in Peer PROVE QueueHolds(s, p)'
  BY <1>1 DEF RowInv, QueueHolds, NvlSlot
<1>6. ASSUME NEW t \in Token PROVE Summed(t)'
  BY <1>1 DEF RowInv, Summed, NoSum
<1> QED BY <1>1, <1>2, <1>3, <1>4, <1>5, <1>6 DEF RowInv

(* The nodes that a step leaves alone.                                     *)
LEMMA NodeSame ==
  ASSUME UNCHANGED input, NEW s \in Source, start'[s] = start[s], room'[s] = room[s],
         \/ sub'[s] = sub[s]
         \/ \A i \in 0 .. Total(s) - 1 : Done(s, i)' => Done(s, i)
  PROVE  /\ \A i \in 0 .. Total(s) - 1 : Done(s, i)' => Done(s, i)
         /\ Bound(s)' = Bound(s)
<1>1. Bound(s)' = Bound(s)
  BY InputKept DEF Bound, ChunkEnd, Smaller
<1> QED BY <1>1, DoneKept

(* How far the sums have come, when the channel is left alone.             *)
LEMMA FrontierSame ==
  ASSUME UNCHANGED input, NEW s \in Source, wire'[s] = wire[s], tail'[s] = tail[s]
  PROVE  Frontier(s)' = Frontier(s)
BY DEF Frontier

(* The steps that only count.                                              *)
LEMMA CountingRows ==
  ASSUME CountInv, CountInv', RowInv, NEW s \in Source,
         \/ AwaitRoom(s) \/ IssueChunk(s) \/ CreditSource(s)
         \/ \E p \in Peer : PublishChunk(s, p) \/ CreditPeer(s, p)
         \/ \E j \in SubWarp : Expect(s, j) \/ RetireSubWarp(s, j)
  PROVE  RowInv'
<1>1. /\ UNCHANGED <<input, nvlRing, staged, ring, combined, filled, rcv>>
      /\ \A r \in Source : r # s => /\ start'[r] = start[r] /\ room'[r] = room[r]
                                    /\ sub'[r] = sub[r] /\ tail'[r] = tail[r] /\ wire'[r] = wire[r]
  <2>1. /\ start \in [Source -> Nat] /\ room \in [Source -> BOOLEAN]
        /\ sub \in [Source -> [SubWarp -> Warp]] /\ tail \in [Source -> Nat]
        /\ wire \in [Source -> Seq(Message)]
    BY DEF CountInv, CountTyped
  <2>2. CASE AwaitRoom(s)
    BY <2>1, <2>2 DEF AwaitRoom, nvlink, receiver
  <2>3. CASE IssueChunk(s)
    BY <2>1, <2>3 DEF IssueChunk, nvlink, receiver
  <2>4. CASE CreditSource(s)
    BY <2>4 DEF CreditSource, nvlink, forwarder, receiver
  <2>5. CASE \E p \in Peer : PublishChunk(s, p) \/ CreditPeer(s, p)
    BY <2>5 DEF PublishChunk, CreditPeer, forwarder, receiver
  <2>6. CASE \E j \in SubWarp : Expect(s, j) \/ RetireSubWarp(s, j)
    BY <2>1, <2>6 DEF Expect, RetireSubWarp, nvlink, receiver
  <2> QED BY <2>2, <2>3, <2>4, <2>5, <2>6
<1>2. /\ \A i \in 0 .. Total(s) - 1 : Done(s, i)' => Done(s, i)
      /\ Bound(s) <= Bound(s)'
  <2>1. Bound(s) \in Nat
    BY SourceFacts
  <2>2. CASE AwaitRoom(s) \/ IssueChunk(s) \/ \E j \in SubWarp : Expect(s, j)
    BY <2>2, AwaitRoomCounts, IssueChunkCounts, ExpectCounts
  <2>3. CASE ~(AwaitRoom(s) \/ IssueChunk(s) \/ \E j \in SubWarp : Expect(s, j))
    <3>1. UNCHANGED <<input, start, room, sub>>
      BY <2>3 DEF CreditSource, PublishChunk, CreditPeer, RetireSubWarp, forwarder
    <3> QED BY <2>1, <3>1, NodeSame
  <2> QED BY <2>2, <2>3
<1>3. s # Home => Frontier(s)' = Frontier(s)
  <2> SUFFICES ASSUME s # Home PROVE Frontier(s)' = Frontier(s)
    OBVIOUS
  <2>1. CASE ~IssueChunk(s)
    <3>1. UNCHANGED <<wire, tail>>
      BY <2>1 DEF AwaitRoom, CreditSource, PublishChunk, CreditPeer, Expect, RetireSubWarp
    <3> QED BY <3>1 DEF Frontier
  <2>2. CASE IssueChunk(s)
    <3> DEFINE put == [kind |-> "put", from |-> start[s], num |-> ChunkEnd(s) - start[s]]
               add == [kind |-> "add", from |-> start[s], num |-> ChunkEnd(s) - start[s]]
    <3>1. wire \in [Source -> Seq(Message)]
      BY DEF CountInv, CountTyped
    <3>2. tail'[s] = tail[s] /\ wire'[s] = wire[s] \o <<put, add>>
      BY <2>2, <3>1 DEF IssueChunk
    <3>3. put \in Message /\ add \in Message /\ put.kind = "put"
      <4>1. start[s] \in Nat /\ ChunkEnd(s) - start[s] \in Nat \ {0}
        BY <2>2, SourceFacts DEF IssueChunk
      <4> QED BY <4>1 DEF Message
    <3> HIDE DEF put, add
    <3>4. wire[s] \in Seq(Message) /\ <<put, add>> \in Seq(Message)
      BY <3>1, <3>3
    <3>5. CASE wire[s] = <<>>
      <4>1. wire'[s] = <<put, add>>
        BY <3>2, <3>4, <3>5
      <4>2. wire'[s] # <<>> /\ wire'[s][1] = put
        BY <4>1
      <4> QED BY <3>2, <3>3, <3>5, <4>2 DEF Frontier
    <3>6. CASE wire[s] # <<>>
      <4>1. wire'[s] # <<>> /\ wire'[s][1] = wire[s][1]
        BY <3>2, <3>4, <3>6
      <4> QED BY <3>2, <3>6, <4>1 DEF Frontier
    <3> QED BY <3>5, <3>6
  <2> QED BY <2>1, <2>2
<1>4. ASSUME NEW r \in Source
      PROVE  /\ \A i \in 0 .. Total(r) - 1 : Done(r, i)' => Done(r, i)
             /\ Bound(r) <= Bound(r)'
             /\ r # Home => Frontier(r)' = Frontier(r)
  <2>1. CASE r = s
    BY <1>2, <1>3, <2>1
  <2>2. CASE r # s
    <3>1. Bound(r) \in Nat
      BY SourceFacts
    <3> QED BY <1>1, <2>2, <3>1, NodeSame, FrontierSame
  <2> QED BY <2>1, <2>2
<1>5. \A r \in Source : Bound(r) \in Nat /\ Bound(r)' \in Nat /\ Total(r) \in Nat
  <2>1. \A r \in Source : Bound(r) \in Nat /\ Total(r) \in Nat
    BY SourceFacts
  <2>2. ASSUME NEW r \in Source PROVE Bound(r)' \in Nat
    <3>1. start'[r] \in Nat /\ RdmaSend \in Nat /\ Total(r) \in Nat /\ Total(r)' = Total(r)
      BY <1>1, <2>1, InputKept, SizesAssumption DEF CountInv, CountTyped
    <3> QED BY <3>1 DEF Bound, ChunkEnd, Smaller
  <2> QED BY <2>1, <2>2
<1> QED BY <1>1, <1>4, <1>5, RowsKept

(* The rows and sums themselves never change.                              *)
LEMMA DataKept ==
  ASSUME UNCHANGED input
  PROVE  /\ Token' = Token /\ to' = to
         /\ \A s : Total(s)' = Total(s)
         /\ \A s, i : SumOf(s, i)' = SumOf(s, i)
         /\ \A s, p, k : RowAt(s, p, k)' = RowAt(s, p, k)
         /\ \A t : Held(t)' = Held(t)
<1>1. to' = to
  BY DEF input
<1> QED BY <1>1, InputKept DEF SumOf, RowAt, For, Place, Held, Token

(* What is kept of the rows, part by part: the sums written,               *)
LEMMA WrittenKept ==
  ASSUME RowInv, UNCHANGED input, NEW s \in Source, UNCHANGED <<start, room, sub>>,
         Buffer(s)' = Buffer(s)
  PROVE  Written(s)'
<1>1. Written(s)
  BY DEF RowInv
<1> QED BY <1>1, DataKept, DoneKept DEF Written, RdmaSlot

(* the sums that have come,                                                *)
LEMMA ArrivedKept ==
  ASSUME RowInv, UNCHANGED input, NEW s \in Source, ring'[s] = ring[s], Frontier(s)' = Frontier(s)
  PROVE  ArrivedIn(s)'
<1>1. ArrivedIn(s)
  BY DEF RowInv
<1> QED BY <1>1, DataKept DEF ArrivedIn, RdmaSlot

(* the rows of a queue,                                                    *)
LEMMA HoldsKept ==
  ASSUME RowInv, UNCHANGED input, NEW s \in Source, NEW p \in Peer,
         nvlRing'[s][p] = nvlRing[s][p], filled'[s][p] = filled[s][p]
  PROVE  QueueHolds(s, p)'
<1>1. QueueHolds(s, p)
  BY DEF RowInv
<1> QED BY <1>1, DataKept DEF QueueHolds, NvlSlot

(* a token added up.                                                       *)
LEMMA SummedKept ==
  ASSUME RowInv, UNCHANGED input, UNCHANGED combined, NEW t \in Token,
         rcv'[t % NumReceivers].at = rcv[t % NumReceivers].at
  PROVE  Summed(t)'
<1>1. Summed(t)
  BY DEF RowInv
<1> QED BY <1>1, DataKept DEF Summed, NoSum

(* A chunk copied takes only slots that have been given back.              *)
LEMMA SendChunkRows ==
  ASSUME CountInv, CountInv', RowInv, NEW s \in Source, NEW p \in Peer, SendChunk(s, p)
  PROVE  RowInv'
<1> DEFINE n == Smaller(NvlSend, Share(s, p) - filled[s][p])
           New(x) == {k \in filled[s][p] .. filled[s][p] + n - 1 : NvlSlot(k) = x}
           next == [x \in DOMAIN nvlRing[s][p] |->
                      IF New(x) # {} THEN {RowAt(s, p, k) : k \in New(x)} ELSE nvlRing[s][p][x]]
<1>1. /\ UNCHANGED <<input, start, room, sub, staged, wire, tail, ring, rcv, combined>>
      /\ filled' = [filled EXCEPT ![s][p] = filled[s][p] + n]
      /\ nvlRing' = [nvlRing EXCEPT ![s][p] = next]
  BY DEF SendChunk, forwarder, receiver, Share
<1>2. /\ n \in Nat \ {0} /\ n <= NvlSend /\ filled[s][p] + n <= Share(s, p)
      /\ filled[s][p] \in Nat /\ NvlRecv \in Nat \ {0} /\ NvlSend < NvlRecv /\ Share(s, p) \in Nat
  <2>1. PICK m \in Int : m = Share(s, p) - filled[s][p]
    BY QueueFacts
  <2>2. Smaller(NvlSend, m) > 0 /\ Smaller(NvlSend, m) \in Nat /\ Smaller(NvlSend, m) <= NvlSend
        /\ Smaller(NvlSend, m) <= m
    BY <2>1, QueueFacts DEF SendChunk, Smaller, Share
  <2> QED BY <2>1, <2>2, QueueFacts, ConfigAssumption
<1> HIDE DEF n
<1>3. nvlRing[s][p] \in [0 .. NvlRecv - 1 -> SUBSET (Source \X Peer \X Token)]
  BY DEF RowInv, RowsTyped
<1>4. \A x \in 0 .. NvlRecv - 1 : next[x] \subseteq {s} \X {p} \X Token
  <2> SUFFICES ASSUME NEW x \in 0 .. NvlRecv - 1 PROVE next[x] \subseteq {s} \X {p} \X Token
    OBVIOUS
  <2>1. ASSUME NEW k \in New(x) PROVE RowAt(s, p, k) \in {s} \X {p} \X Token
    <3>1. k \in 0 .. Share(s, p) - 1
      BY <1>2
    <3> QED BY <3>1, SourceFacts, PlaceFacts
  <2>2. nvlRing[s][p][x] \subseteq {s} \X {p} \X Token
    BY DEF RowInv, RowsTyped
  <2>3. next[x] = IF New(x) # {} THEN {RowAt(s, p, k) : k \in New(x)} ELSE nvlRing[s][p][x]
    BY <1>3
  <2> HIDE DEF New, next
  <2> QED BY <2>1, <2>2, <2>3
<1>5. /\ nvlRing'[s][p] = next /\ filled'[s][p] = filled[s][p] + n
      /\ \A r \in Source, q \in Peer : r # s \/ q # p =>
           nvlRing'[r][q] = nvlRing[r][q] /\ filled'[r][q] = filled[r][q]
      /\ nvlRing' \in [Source -> [Peer -> [0 .. NvlRecv - 1 -> SUBSET (Source \X Peer \X Token)]]]
  <2>1. /\ nvlRing \in [Source -> [Peer -> [0 .. NvlRecv - 1 -> SUBSET (Source \X Peer \X Token)]]]
        /\ filled \in [Source -> [Peer -> Nat]]
    BY DEF RowInv, RowsTyped, CountInv, CountTyped
  <2>2. next \in [0 .. NvlRecv - 1 -> SUBSET (Source \X Peer \X Token)]
    <3>1. DOMAIN next = 0 .. NvlRecv - 1 /\ next = [x \in 0 .. NvlRecv - 1 |-> next[x]]
      BY <1>3
    <3>2. \A x \in 0 .. NvlRecv - 1 : next[x] \in SUBSET (Source \X Peer \X Token)
      BY <1>4
    <3> HIDE DEF next
    <3> QED BY <3>1, <3>2
  <2> HIDE DEF next
  <2> QED BY <1>1, <2>1, <2>2
<1>6. ASSUME NEW k \in 0 .. filled[s][p] + n - 1, filled[s][p] + n <= k + NvlRecv
      PROVE  next[NvlSlot(k)] = {RowAt(s, p, k)}
  <2>1. k \in Nat /\ NvlSlot(k) \in 0 .. NvlRecv - 1 /\ k < filled[s][p] + n
    BY <1>2 DEF NvlSlot
  <2>2. next[NvlSlot(k)] = IF New(NvlSlot(k)) # {} THEN {RowAt(s, p, l) : l \in New(NvlSlot(k))}
                           ELSE nvlRing[s][p][NvlSlot(k)]
    BY <1>3, <2>1
  <2>3. ASSUME NEW l \in New(NvlSlot(k)) PROVE l = k
    <3>1. l \in Nat /\ filled[s][p] <= l /\ l < filled[s][p] + n /\ l % NvlRecv = k % NvlRecv
      BY <1>2 DEF NvlSlot
    <3>2. CASE k <= l
      <4>1. l < k + NvlRecv
        BY <1>2, <1>6, <2>1, <3>1
      <4> QED BY <1>2, <2>1, <3>1, <3>2, <4>1, SameResidue
    <3>3. CASE l < k
      <4>1. k < l + NvlRecv
        <5>1. PICK f \in Nat, c \in Nat : f = filled[s][p] /\ c = n
          BY <1>2
        <5>2. c < NvlRecv /\ NvlRecv \in Nat
          BY <1>2, <5>1, QueueFacts
        <5>3. k < f + c /\ f <= l
          BY <2>1, <3>1, <5>1
        <5> QED BY <2>1, <3>1, <5>2, <5>3
      <4> QED BY <1>2, <2>1, <3>1, <3>3, <4>1, SameResidue
    <3> QED BY <2>1, <3>1, <3>2, <3>3
  <2>4. CASE filled[s][p] <= k
    <3>1. k \in New(NvlSlot(k))
      BY <1>2, <2>1, <2>4
    <3>2. New(NvlSlot(k)) = {k}
      <4> HIDE DEF New
      <4> QED BY <2>3, <3>1
    <3> HIDE DEF New, next
    <3> QED BY <2>2, <3>2
  <2>5. CASE k < filled[s][p]
    <3>1. New(NvlSlot(k)) = {}
      <4> SUFFICES ASSUME NEW l \in New(NvlSlot(k)) PROVE FALSE
        OBVIOUS
      <4>1. l = k /\ filled[s][p] <= l
        BY <2>3
      <4> QED BY <1>2, <2>1, <2>5, <4>1
    <3>2. nvlRing[s][p][NvlSlot(k)] = {RowAt(s, p, k)}
      <4>1. k \in 0 .. filled[s][p] - 1 /\ filled[s][p] <= k + NvlRecv
        BY <1>2, <1>6, <2>1, <2>5
      <4> QED BY <4>1 DEF RowInv, QueueHolds
    <3> QED BY <2>2, <3>1, <3>2
  <2>6. filled[s][p] <= k \/ k < filled[s][p]
    BY <1>2, <2>1
  <2> QED BY <2>4, <2>5, <2>6
<1> HIDE DEF next, New
<1>7. RowsTyped'
  <2>1. ASSUME NEW r \in Source, NEW q \in Peer, NEW x \in 0 .. NvlRecv - 1
        PROVE  nvlRing'[r][q][x] \subseteq {r} \X {q} \X Token
    <3>1. CASE r = s /\ q = p
      BY <1>4, <1>5, <3>1
    <3>2. CASE ~(r = s /\ q = p)
      <4>1. nvlRing[r][q][x] \subseteq {r} \X {q} \X Token
        BY DEF RowInv, RowsTyped
      <4>2. nvlRing'[r][q] = nvlRing[r][q]
        BY <1>5, <3>2
      <4> QED BY <4>1, <4>2
    <3> QED BY <3>1, <3>2
  <2>2. \A r \in Source : \A x \in 0 .. RdmaRecv - 1 :
          staged[r][x] \cup ring[r][x] \subseteq {r} \X Peer \X Token
    BY DEF RowInv, RowsTyped
  <2>3. /\ staged \in [Source -> [0 .. RdmaRecv - 1 -> SUBSET (Source \X Peer \X Token)]]
        /\ ring \in [Source -> [0 .. RdmaRecv - 1 -> SUBSET (Source \X Peer \X Token)]]
        /\ DOMAIN combined = Token
    BY DEF RowInv, RowsTyped
  <2>4. UNCHANGED <<staged, ring, combined>> /\ Token' = Token
    BY <1>1, DataKept
  <2> QED BY <1>5, <2>1, <2>2, <2>3, <2>4 DEF RowsTyped
<1>8. ASSUME NEW r \in Source PROVE Written(r)' /\ ArrivedIn(r)'
  <2>1. Buffer(r)' = Buffer(r) /\ Frontier(r)' = Frontier(r)
    BY <1>1 DEF Buffer, Frontier
  <2> QED BY <1>1, <2>1, WrittenKept, ArrivedKept
<1>9. ASSUME NEW r \in Source, NEW q \in Peer PROVE QueueHolds(r, q)'
  <2>1. CASE r = s /\ q = p
    <3>1. \A k : RowAt(s, p, k)' = RowAt(s, p, k)
      BY <1>1, DataKept
    <3>2. ASSUME NEW k \in 0 .. filled'[s][p] - 1, filled'[s][p] <= k + NvlRecv
          PROVE  nvlRing'[s][p][NvlSlot(k)] = {RowAt(s, p, k)}
      <4>1. k \in 0 .. filled[s][p] + n - 1 /\ filled[s][p] + n <= k + NvlRecv
        <5>1. filled'[s][p] = filled[s][p] + n
          BY <1>5
        <5>2. k \in 0 .. filled[s][p] + n - 1
          BY <1>2, <5>1
        <5> QED BY <3>2, <5>1, <5>2
      <4>2. next[NvlSlot(k)] = {RowAt(s, p, k)}
        BY <1>6, <4>1
      <4>3. nvlRing'[s][p] = next
        BY <1>5
      <4> QED BY <4>2, <4>3
    <3> QED BY <2>1, <3>1, <3>2 DEF QueueHolds, NvlSlot
  <2>2. CASE ~(r = s /\ q = p)
    BY <1>1, <1>5, <2>2, HoldsKept
  <2> QED BY <2>1, <2>2
<1>10. ASSUME NEW t \in Token PROVE Summed(t)'
  BY <1>1, SummedKept
<1> QED BY <1>1, <1>7, <1>8, <1>9, <1>10, DataKept DEF RowInv

(* A sub-warp adds up rows that are all still in their slots.              *)
LEMMA CombineRows ==
  ASSUME CountInv, CountInv', RowInv, NEW s \in Source, NEW j \in SubWarp, Combine(s, j)
  PROVE  RowInv'
<1> DEFINE i == sub[s][j].at
           h == [p \in Peer |-> nvlHeads[s][p][i]]
           sum == CombineToken(nvlRing[s], h, NvlRecv)
<1>1. /\ UNCHANGED <<input, filled, nvlRing, start, room, wire, tail, rcv, combined>>
      /\ sub[s][j].waits /\ (\A p \in Peer : nvlTail[s][p] > nvlHeads[s][p][i])
      /\ s = Home => ring' = [ring EXCEPT ![s][RdmaSlot(i)] = sum] /\ UNCHANGED staged
      /\ s # Home => staged' = [staged EXCEPT ![s][RdmaSlot(i)] = sum] /\ UNCHANGED ring
      /\ sub' = [sub EXCEPT ![s][j] = [at |-> i + NumForwarders, waits |-> FALSE]]
  BY DEF Combine, nvlink, receiver
<1>2. i \in 0 .. Total(s) - 1 /\ sum = SumOf(s, i) /\ i \in Nat
  <2>1. i \in 0 .. Total(s) - 1 /\ sum = SumOf(s, i)
    BY <1>1, ChunkSum
  <2>2. Total(s) \in Nat
    BY SourceFacts
  <2> QED BY <2>1, <2>2
<1>3. SumOf(s, i) \subseteq {s} \X Peer \X Token /\ RdmaSlot(i) \in 0 .. RdmaRecv - 1
  <2>1. i % RdmaRecv \in 0 .. RdmaRecv - 1
    BY <1>2, SizesAssumption, RingSlotType
  <2> QED BY <1>2, <2>1, SumFacts DEF RdmaSlot
<1>4. i < Bound(s) /\ Bound(s) <= i + RdmaRecv /\ Bound(s) \in Nat
  <2>1. room[s] /\ i < ChunkEnd(s) /\ start[s] <= i
    BY <1>1 DEF CountInv, Walk
  <2>2. /\ Bound(s) = ChunkEnd(s) /\ ChunkEnd(s) <= start[s] + RdmaSend /\ start[s] \in Nat
        /\ ChunkEnd(s) \in Nat
    BY <2>1, SourceFacts
  <2>3. RdmaSend \in Nat /\ RdmaRecv \in Nat /\ RdmaSend <= RdmaRecv
    BY SizesAssumption, ConfigAssumption
  <2> QED BY <1>2, <2>1, <2>2, <2>3
<1>5. /\ staged \in [Source -> [0 .. RdmaRecv - 1 -> SUBSET (Source \X Peer \X Token)]]
      /\ ring \in [Source -> [0 .. RdmaRecv - 1 -> SUBSET (Source \X Peer \X Token)]]
      /\ SumOf(s, i) \in SUBSET (Source \X Peer \X Token)
  BY <1>3 DEF RowInv, RowsTyped
<1> HIDE DEF sum
<1>6. /\ staged' \in [Source -> [0 .. RdmaRecv - 1 -> SUBSET (Source \X Peer \X Token)]]
      /\ ring' \in [Source -> [0 .. RdmaRecv - 1 -> SUBSET (Source \X Peer \X Token)]]
      /\ \A r \in Source : r # s => staged'[r] = staged[r] /\ ring'[r] = ring[r]
      /\ s # Home => ring' = ring
      /\ \A x \in 0 .. RdmaRecv - 1 :
           /\ staged'[s][x] \in {staged[s][x], SumOf(s, i)}
           /\ ring'[s][x] \in {ring[s][x], SumOf(s, i)}
           /\ Buffer(s)'[x] = IF x = RdmaSlot(i) THEN SumOf(s, i) ELSE Buffer(s)[x]
  <2>1. CASE s = Home
    <3>1. ring' = [ring EXCEPT ![s][RdmaSlot(i)] = SumOf(s, i)] /\ staged' = staged
      BY <1>1, <1>2, <2>1
    <3>2. Buffer(s)' = ring'[s] /\ Buffer(s) = ring[s]
      BY <2>1 DEF Buffer
    <3>3. /\ ring' \in [Source -> [0 .. RdmaRecv - 1 -> SUBSET (Source \X Peer \X Token)]]
          /\ \A r \in Source : r # s => ring'[r] = ring[r]
      BY <1>5, <3>1
    <3>4. \A x \in 0 .. RdmaRecv - 1 :
            ring'[s][x] = IF x = RdmaSlot(i) THEN SumOf(s, i) ELSE ring[s][x]
      BY <1>3, <1>5, <3>1
    <3> QED BY <1>5, <2>1, <3>1, <3>2, <3>3, <3>4
  <2>2. CASE s # Home
    <3>1. staged' = [staged EXCEPT ![s][RdmaSlot(i)] = SumOf(s, i)] /\ ring' = ring
      BY <1>1, <1>2, <2>2
    <3>2. Buffer(s)' = staged'[s] /\ Buffer(s) = staged[s]
      BY <2>2 DEF Buffer
    <3>3. /\ staged' \in [Source -> [0 .. RdmaRecv - 1 -> SUBSET (Source \X Peer \X Token)]]
          /\ \A r \in Source : r # s => staged'[r] = staged[r]
      BY <1>5, <3>1
    <3>4. \A x \in 0 .. RdmaRecv - 1 :
            staged'[s][x] = IF x = RdmaSlot(i) THEN SumOf(s, i) ELSE staged[s][x]
      BY <1>3, <1>5, <3>1
    <3> QED BY <1>5, <2>2, <3>1, <3>2, <3>3, <3>4
  <2> QED BY <2>1, <2>2
<1>7. RowsTyped'
  <2>1. ASSUME NEW r \in Source, NEW x \in 0 .. RdmaRecv - 1
        PROVE  staged'[r][x] \cup ring'[r][x] \subseteq {r} \X Peer \X Token
    <3>1. staged[r][x] \cup ring[r][x] \subseteq {r} \X Peer \X Token
      BY DEF RowInv, RowsTyped
    <3>2. CASE r = s
      BY <1>3, <1>6, <3>1, <3>2
    <3>3. CASE r # s
      BY <1>6, <3>1, <3>3
    <3> QED BY <3>2, <3>3
  <2>2. /\ nvlRing \in [Source -> [Peer -> [0 .. NvlRecv - 1 -> SUBSET (Source \X Peer \X Token)]]]
        /\ DOMAIN combined = Token
        /\ \A r \in Source, p \in Peer : \A x \in 0 .. NvlRecv - 1 :
             nvlRing[r][p][x] \subseteq {r} \X {p} \X Token
    BY DEF RowInv, RowsTyped
  <2>3. UNCHANGED <<nvlRing, combined>> /\ Token' = Token
    BY <1>1, DataKept
  <2> QED BY <1>6, <2>1, <2>2, <2>3 DEF RowsTyped
<1>8. ASSUME NEW r \in Source PROVE Written(r)'
  <2>1. CASE r = s
    <3>1. ASSUME NEW k \in 0 .. Total(s) - 1, Done(s, k)', Bound(s) <= k + RdmaRecv
          PROVE  Buffer(s)'[RdmaSlot(k)] = SumOf(s, k)
      <4>1. k \in Nat /\ k < Total(s) /\ RdmaSlot(k) \in 0 .. RdmaRecv - 1
        <5>1. k \in Nat /\ k < Total(s)
          BY SourceFacts
        <5> QED BY <5>1, SizesAssumption, RingSlotType DEF RdmaSlot
      <4>2. CASE k = i
        BY <1>6, <4>1, <4>2
      <4>3. CASE k # i
        <5>1. Done(s, k)
          BY <3>1, <4>3, CombineCounts
        <5>2. k < Bound(s)
          BY <4>1, <5>1, DoneFacts
        <5>3. RdmaSlot(k) # RdmaSlot(i)
          <6>0. RdmaRecv \in Nat \ {0} /\ k \in Nat /\ i \in Nat
            BY <1>2, <4>1, SizesAssumption
          <6>1. CASE k <= i
            <7>1. i < k + RdmaRecv
              BY <1>2, <1>4, <3>1, <4>1, <6>0
            <7> QED BY <4>3, <6>0, <6>1, <7>1, SameResidue DEF RdmaSlot
          <6>2. CASE i <= k
            <7>1. k < i + RdmaRecv
              BY <1>2, <1>4, <4>1, <5>2, <6>0
            <7> QED BY <4>3, <6>0, <6>2, <7>1, SameResidue DEF RdmaSlot
          <6> QED BY <6>0, <6>1, <6>2
        <5>4. Buffer(s)[RdmaSlot(k)] = SumOf(s, k)
          BY <3>1, <5>1 DEF RowInv, Written
        <5> QED BY <1>6, <4>1, <5>3, <5>4
      <4> QED BY <4>2, <4>3
    <3>2. Bound(s)' = Bound(s)
      BY CombineCounts
    <3> QED BY <1>1, <2>1, <3>1, <3>2, DataKept DEF Written, RdmaSlot
  <2>2. CASE r # s
    <3>1. Written(r)
      BY DEF RowInv
    <3>2. sub'[r] = sub[r]
      BY <1>1, <2>2 DEF CountInv, CountTyped
    <3>3. /\ \A k \in 0 .. Total(r) - 1 : Done(r, k)' <=> Done(r, k)
          /\ Bound(r)' = Bound(r)
      BY <1>1, <3>2, DoneKept
    <3>4. Buffer(r)' = Buffer(r)
      BY <1>6, <2>2 DEF Buffer
    <3> QED BY <1>1, <3>1, <3>3, <3>4, DataKept DEF Written, RdmaSlot
  <2> QED BY <2>1, <2>2
<1>9. ASSUME NEW r \in Source PROVE ArrivedIn(r)'
  <2>1. Frontier(r)' = Frontier(r)
    BY <1>1 DEF Frontier
  <2>2. CASE r = s /\ s = Home
    BY <2>2 DEF ArrivedIn
  <2>3. CASE ~(r = s /\ s = Home)
    <3>1. ring'[r] = ring[r]
      BY <1>6, <2>3
    <3> QED BY <1>1, <2>1, <3>1, ArrivedKept
  <2> QED BY <2>2, <2>3
<1>10. ASSUME NEW r \in Source, NEW q \in Peer PROVE QueueHolds(r, q)'
  BY <1>1, HoldsKept
<1>11. ASSUME NEW t \in Token PROVE Summed(t)'
  BY <1>1, SummedKept
<1> QED BY <1>1, <1>7, <1>8, <1>9, <1>10, <1>11, DataKept DEF RowInv

-----------------------------------------------------------------------------
(* A put carries what is written of its chunk to Home.                     *)
LEMMA PutRows ==
  ASSUME CountInv, RowInv, UNCHANGED input, NEW s \in Source, wire[s] # <<>>,
         wire[s][1].kind = "put",
         wire'[s] = Tail(wire[s]), tail'[s] = tail[s],
         \A x \in 0 .. RdmaRecv - 1 :
           ring'[s][x] = IF \E i \in 0 .. wire[s][1].num - 1 : x = RdmaSlot(wire[s][1].from + i)
                         THEN staged[s][x] ELSE ring[s][x]
  PROVE  ArrivedIn(s)'
<1>1. PICK t \in Nat, n \in Nat \ {0} :
        /\ t = tail[s] /\ n = wire[s][1].num /\ wire[s][1].from = t
        /\ t + n <= Smaller(start[s], Total(s))
  BY WireFacts, SourceFacts
<1>2. s # Home /\ Frontier(s) = t
  BY <1>1, WireFacts DEF Frontier
<1>3. Frontier(s)' = t + n
  <2>1. wire'[s] # <<>> /\ wire'[s][1] = [wire[s][1] EXCEPT !.kind = "add"] /\ wire[s][1] \in Message
    BY WireFacts
  <2>2. wire'[s][1].kind = "add" /\ wire'[s][1].num = n
    <3>1. PICK m \in Message : m = wire[s][1] /\ m.num = n
      BY <1>1, <2>1
    <3>2. wire'[s][1] = [kind |-> "add", from |-> m.from, num |-> m.num]
      BY <2>1, <3>1, MessageFacts
    <3>3. PICK x : x = wire'[s][1]
      OBVIOUS
    <3>4. x = [kind |-> "add", from |-> m.from, num |-> m.num]
      BY <3>2, <3>3
    <3>5. x.kind = "add" /\ x.num = n
      BY <3>1, <3>4
    <3> QED BY <3>3, <3>5
  <2> QED BY <1>1, <2>1, <2>2 DEF Frontier
<1>4. /\ Smaller(start[s], Total(s)) \in Nat /\ Smaller(start[s], Total(s)) <= Total(s)
      /\ Total(s) \in Nat /\ RdmaRecv \in Nat \ {0} /\ Bound(s) \in Nat /\ head[s] \in Nat
  BY SourceFacts, SizesAssumption
<1>5. Bound(s) <= t + RdmaRecv
  <2>1. Kept(head[s], t, Total(s)) /\ Bound(s) <= head[s] + RdmaRecv
    BY <1>1 DEF CountInv, Channel
  <2>2. t < Total(s)
    BY <1>1, <1>4
  <2>3. head[s] <= t
    BY <1>4, <2>1, <2>2 DEF Kept
  <2> QED BY <1>4, <2>1, <2>3
<1>6. ASSUME NEW i \in 0 .. t + n - 1, t + n <= i + RdmaRecv
      PROVE  ring'[s][RdmaSlot(i)] = SumOf(s, i)
  <2>1. i \in Nat /\ RdmaSlot(i) \in 0 .. RdmaRecv - 1 /\ i < t + n
    <3>1. i \in Nat /\ i < t + n
      BY <1>1
    <3> QED BY <1>4, <3>1, RingSlotType DEF RdmaSlot
  <2>2. CASE t <= i
    <3>1. i - t \in 0 .. n - 1 /\ RdmaSlot(i) = RdmaSlot(t + (i - t))
      <4>1. i - t \in 0 .. n - 1 /\ t + (i - t) = i
        BY <2>1, <2>2
      <4> QED BY <4>1
    <3>2. ring'[s][RdmaSlot(i)] = staged[s][RdmaSlot(i)]
      BY <1>1, <2>1, <3>1
    <3>3. i < Smaller(start[s], Total(s)) /\ Bound(s) <= i + RdmaRecv
      <4>1. PICK e \in Nat, b \in Nat, c \in Nat :
              e = Smaller(start[s], Total(s)) /\ b = Bound(s) /\ c = RdmaRecv
        BY <1>4
      <4>2. i < e
        BY <1>1, <2>1, <4>1, SMTT(60)
      <4>3. b <= i + c
        BY <1>5, <2>1, <2>2, <4>1
      <4> QED BY <4>1, <4>2, <4>3
    <3>4. Done(s, i) /\ i \in 0 .. Total(s) - 1
      BY <1>4, <2>1, <3>3, DoneFacts
    <3>5. Buffer(s)[RdmaSlot(i)] = SumOf(s, i)
      BY <3>3, <3>4 DEF RowInv, Written
    <3> QED BY <1>2, <3>2, <3>5 DEF Buffer
  <2>3. CASE i < t
    <3>1. ASSUME NEW k \in 0 .. n - 1, RdmaSlot(i) = RdmaSlot(t + k) PROVE FALSE
      <4>1. PICK l \in Nat : l = t + k /\ i <= l /\ l < t + n /\ i # l
        BY <2>1, <2>3
      <4>2. l < i + RdmaRecv
        BY <1>4, <1>6, <2>1, <4>1
      <4> QED BY <1>4, <2>1, <3>1, <4>1, <4>2, SameResidue DEF RdmaSlot
    <3>2. ring'[s][RdmaSlot(i)] = ring[s][RdmaSlot(i)]
      BY <1>1, <2>1, <3>1
    <3>3. i \in 0 .. Frontier(s) - 1 /\ Frontier(s) <= i + RdmaRecv
      BY <1>2, <1>4, <1>6, <2>1, <2>3
    <3>4. ring[s][RdmaSlot(i)] = SumOf(s, i)
      BY <1>2, <3>3 DEF RowInv, ArrivedIn
    <3> QED BY <3>2, <3>4
  <2> QED BY <2>1, <2>2, <2>3
<1> QED BY <1>3, <1>6, DataKept DEF ArrivedIn, RdmaSlot

(* Adds and puts of the network; a put overwrites only what is past.       *)
LEMMA DeliverRows ==
  ASSUME CountInv, RowInv, NEW s \in Source, DeliverFirst(s)
  PROVE  RowInv'
<1> DEFINE m == wire[s][1]
           slots == {RdmaSlot(m.from + i) : i \in 0 .. m.num - 1}
           next == [x \in DOMAIN ring[s] |-> IF x \in slots THEN staged[s][x] ELSE ring[s][x]]
<1>1. /\ UNCHANGED <<input, filled, nvlRing, start, room, sub, staged, rcv, combined>>
      /\ wire[s] # <<>> /\ wire' = [wire EXCEPT ![s] = Tail(wire[s])]
      /\ \/ m.kind = "put" /\ UNCHANGED tail /\ ring' = [ring EXCEPT ![s] = next]
         \/ m.kind = "add" /\ UNCHANGED ring /\ tail' = [tail EXCEPT ![s] = tail[s] + m.num]
  BY WireFacts DEF DeliverFirst, nvlink, forwarder, receiver
<1>2. /\ wire \in [Source -> Seq(Message)] /\ tail \in [Source -> Nat]
      /\ ring \in [Source -> [0 .. RdmaRecv - 1 -> SUBSET (Source \X Peer \X Token)]]
      /\ staged \in [Source -> [0 .. RdmaRecv - 1 -> SUBSET (Source \X Peer \X Token)]]
  BY DEF CountInv, CountTyped, RowInv, RowsTyped
<1>3. s # Home /\ m.num \in Nat \ {0}
  BY <1>1, WireFacts
<1> HIDE DEF m
<1>4. /\ ring' \in [Source -> [0 .. RdmaRecv - 1 -> SUBSET (Source \X Peer \X Token)]]
      /\ \A r \in Source : r # s => ring'[r] = ring[r] /\ tail'[r] = tail[r] /\ wire'[r] = wire[r]
      /\ \A x \in 0 .. RdmaRecv - 1 : ring'[s][x] \in {ring[s][x], staged[s][x]}
      /\ wire'[s] = Tail(wire[s])
  <2>1. next \in [0 .. RdmaRecv - 1 -> SUBSET (Source \X Peer \X Token)]
        /\ \A x \in 0 .. RdmaRecv - 1 : next[x] \in {ring[s][x], staged[s][x]}
    <3> HIDE DEF slots
    <3> QED BY <1>2, ZenonT(60)
  <2> HIDE DEF next
  <2>2. CASE UNCHANGED tail /\ ring' = [ring EXCEPT ![s] = next]
    BY <1>1, <1>2, <2>1, <2>2
  <2>3. CASE UNCHANGED ring /\ tail' = [tail EXCEPT ![s] = tail[s] + m.num]
    BY <1>1, <1>2, <2>3
  <2> QED BY <1>1, <2>2, <2>3
<1>5. ArrivedIn(s)'
  <2>1. CASE m.kind = "put" /\ UNCHANGED tail /\ ring' = [ring EXCEPT ![s] = next]
    <3>1. ring'[s] = next
      <4> HIDE DEF next
      <4> QED BY <1>2, <2>1
    <3>2. \A x \in 0 .. RdmaRecv - 1 :
            ring'[s][x] = IF x \in slots THEN staged[s][x] ELSE ring[s][x]
      <4> HIDE DEF slots
      <4> QED BY <1>2, <3>1
    <3>3. \A x \in 0 .. RdmaRecv - 1 :
            ring'[s][x] = IF \E i \in 0 .. m.num - 1 : x = RdmaSlot(m.from + i)
                          THEN staged[s][x] ELSE ring[s][x]
      BY <3>2
    <3> HIDE DEF next, slots
    <3> QED BY <1>1, <1>4, <2>1, <3>3, PutRows DEF m
  <2>2. CASE m.kind = "add" /\ UNCHANGED ring /\ tail' = [tail EXCEPT ![s] = tail[s] + m.num]
    <3>1. Frontier(s) = tail[s] + m.num
      BY <1>1, <2>2 DEF Frontier, m
    <3>2. tail'[s] = tail[s] + m.num
      BY <1>2, <2>2
    <3>3. wire'[s] # <<>> => wire'[s][1].kind = "put"
      BY <1>1, <1>4, <2>2, WireFacts DEF m
    <3>4. Frontier(s)' = Frontier(s)
      BY <3>1, <3>2, <3>3 DEF Frontier
    <3> QED BY <1>1, <2>2, <3>4, ArrivedKept
  <2> QED BY <1>1, <2>1, <2>2
<1> HIDE DEF next, slots
<1>6. RowsTyped'
  <2>1. ASSUME NEW r \in Source, NEW x \in 0 .. RdmaRecv - 1
        PROVE  staged[r][x] \cup ring'[r][x] \subseteq {r} \X Peer \X Token
    <3>1. staged[r][x] \cup ring[r][x] \subseteq {r} \X Peer \X Token
      BY DEF RowInv, RowsTyped
    <3>2. CASE r = s
      <4>1. ring'[s][x] = ring[s][x] \/ ring'[s][x] = staged[s][x]
        BY <1>4
      <4> QED BY <3>1, <3>2, <4>1
    <3>3. CASE r # s
      BY <1>4, <3>1, <3>3
    <3> QED BY <3>2, <3>3
  <2>2. /\ nvlRing \in [Source -> [Peer -> [0 .. NvlRecv - 1 -> SUBSET (Source \X Peer \X Token)]]]
        /\ DOMAIN combined = Token
        /\ \A r \in Source, p \in Peer : \A x \in 0 .. NvlRecv - 1 :
             nvlRing[r][p][x] \subseteq {r} \X {p} \X Token
    BY DEF RowInv, RowsTyped
  <2>3. UNCHANGED <<nvlRing, combined, staged>> /\ Token' = Token
    BY <1>1, DataKept
  <2> QED BY <1>2, <1>4, <2>1, <2>2, <2>3 DEF RowsTyped
<1>7. ASSUME NEW r \in Source PROVE Written(r)'
  <2>1. r = Home => r # s
    BY <1>3
  <2>2. Buffer(r)' = Buffer(r)
    BY <1>1, <1>4, <2>1 DEF Buffer
  <2> QED BY <1>1, <2>2, WrittenKept
<1>8. ASSUME NEW r \in Source PROVE ArrivedIn(r)'
  <2>1. CASE r = s
    BY <1>5, <2>1
  <2>2. CASE r # s
    BY <1>1, <1>4, <2>2, ArrivedKept, FrontierSame
  <2> QED BY <2>1, <2>2
<1>9. ASSUME NEW r \in Source, NEW q \in Peer PROVE QueueHolds(r, q)'
  BY <1>1, HoldsKept
<1>10. ASSUME NEW t \in Token PROVE Summed(t)'
  BY <1>1, SummedKept
<1> QED BY <1>6, <1>7, <1>8, <1>9, <1>10, <1>1, DataKept DEF RowInv

(* A receiver adds up sums that are all still in their slots.              *)
LEMMA ReceiverRows ==
  ASSUME CountInv, CountInv', RowInv, NEW w \in Receiver, Await(w) \/ Receive(w) \/ RetireReceiver(w)
  PROVE  RowInv'
<1>1. UNCHANGED <<input, filled, nvlRing, start, room, sub, staged, ring, wire, tail>>
  BY DEF Await, Receive, RetireReceiver, nvlink, forwarder
<1>2. rcv \in [Receiver -> Warp] /\ DOMAIN combined = Token
  BY DEF CountInv, CountTyped, RowInv, RowsTyped
<1>3. ASSUME NEW s \in Source PROVE Written(s)' /\ ArrivedIn(s)'
  <2>1. Buffer(s)' = Buffer(s) /\ Frontier(s)' = Frontier(s)
    BY <1>1 DEF Buffer, Frontier
  <2> QED BY <1>1, <2>1, WrittenKept, ArrivedKept
<1>4. ASSUME NEW s \in Source, NEW p \in Peer PROVE QueueHolds(s, p)'
  BY <1>1, HoldsKept
<1>5. DOMAIN combined' = Token /\ \A t \in Token : Summed(t)'
  <2>1. CASE Await(w) \/ RetireReceiver(w)
    <3>1. UNCHANGED combined /\ \A v \in Receiver : rcv'[v].at = rcv[v].at
      <4>1. CASE Await(w)
        <5>1. rcv' = [rcv EXCEPT ![w] = [rcv[w] EXCEPT !.waits = TRUE]] /\ UNCHANGED combined
          BY <4>1 DEF Await
        <5>2. [rcv[w] EXCEPT !.waits = TRUE].at = rcv[w].at
          <6>1. rcv[w] \in Warp
            BY <1>2
          <6> QED BY <6>1 DEF Warp
        <5> QED BY <1>2, <5>1, <5>2
      <4>2. CASE RetireReceiver(w)
        BY <4>2 DEF RetireReceiver
      <4> QED BY <2>1, <4>1, <4>2
    <3>2. \A t \in Token : t % NumReceivers \in Receiver
      <4> SUFFICES ASSUME NEW t \in Token PROVE t % NumReceivers \in Receiver
        OBVIOUS
      <4>1. t \in Nat /\ NumReceivers \in Nat \ {0} /\ Receiver = 0 .. NumReceivers - 1
        BY RunFacts, ReceiverFacts DEF CountInv, CountTyped
      <4>2. t % NumReceivers \in 0 .. NumReceivers - 1
        BY <4>1, RingSlotType
      <4> QED BY <4>1, <4>2
    <3> QED BY <1>1, <1>2, <3>1, <3>2, SummedKept
  <2>2. CASE Receive(w)
    <3> DEFINE t == rcv[w].at
    <3>1. /\ rcv[w].waits /\ (\A s \in Source : tail[s] > rdmaHeads[s][t])
          /\ combined' = [combined EXCEPT ![t] =
                            CombineToken(ring, [s \in Source |-> rdmaHeads[s][t]], RdmaRecv)]
          /\ rcv' = [rcv EXCEPT ![w] = [at |-> t + NumReceivers, waits |-> FALSE]]
      BY <2>2 DEF Receive
    <3>2. t \in Token /\ combined' = [combined EXCEPT ![t] = Held(t)]
      BY <3>1, TokenSum
    <3>3. /\ t \in Nat /\ t % NumReceivers = w /\ NumReceivers \in Nat \ {0}
          /\ Receiver = 0 .. NumReceivers - 1
      BY ReceiverFacts DEF CountInv, Turns
    <3>4. rcv'[w].at = t + NumReceivers /\ \A v \in Receiver : v # w => rcv'[v] = rcv[v]
      BY <1>2, <3>1
    <3>5. combined'[t] = Held(t) /\ \A u \in Token : u # t => combined'[u] = combined[u]
      BY <1>2, <3>2
    <3>6. ASSUME NEW u \in Token PROVE Summed(u)'
      <4>1. u \in Nat /\ u % NumReceivers \in Receiver
        <5>1. u \in Nat
          BY RunFacts DEF CountInv, CountTyped
        <5> QED BY <3>3, <5>1
      <4>2. CASE u = t
        <5>1. t < t + NumReceivers
          BY <3>3
        <5> QED BY <1>1, <3>3, <3>4, <3>5, <4>2, <5>1, DataKept DEF Summed
      <4>3. CASE u # t
        <5>1. Summed(u)
          BY DEF RowInv
        <5>2. u < rcv'[u % NumReceivers].at <=> u < rcv[u % NumReceivers].at
          <6>1. CASE u % NumReceivers = w
            <7>1. u < t + NumReceivers => u < t
              <8> SUFFICES ASSUME u < t + NumReceivers, t <= u PROVE FALSE
                BY <3>3, <4>1
              <8>1. t = u
                BY <3>3, <4>1, <6>1, SameResidue
              <8> QED BY <4>3, <8>1
            <7>2. PICK v \in Nat, x \in Nat, n \in Nat : v = u /\ x = t /\ n = NumReceivers
              BY <3>3, <4>1
            <7>3. rcv'[u % NumReceivers].at = x + n /\ rcv[u % NumReceivers].at = x
              BY <3>4, <6>1, <7>2
            <7>4. (v < x + n) <=> (v < x)
              BY <7>1, <7>2
            <7> QED BY <7>2, <7>3, <7>4
          <6>2. CASE u % NumReceivers # w
            BY <3>4, <4>1, <6>2
          <6> QED BY <6>1, <6>2
        <5> QED BY <1>1, <3>5, <4>3, <5>1, <5>2, DataKept DEF Summed, NoSum
      <4> QED BY <4>2, <4>3
    <3>7. DOMAIN combined' = Token
      BY <1>2, <3>1
    <3> QED BY <3>6, <3>7
  <2> QED BY <2>1, <2>2
<1>6. RowsTyped'
  BY <1>1, <1>5, DataKept DEF RowInv, RowsTyped
<1> QED BY <1>1, <1>3, <1>4, <1>5, <1>6, DataKept DEF RowInv

(* The rings begin empty.                                                  *)
LEMMA InitRows ==
  ASSUME Init
  PROVE  RowInv
<1>1. CountInv
  BY InitCounts
<1>2. RowsTyped
  BY DEF Init, RowsTyped, NoSum
<1>3. /\ \A s \in Source : /\ start[s] = 0 /\ ~room[s] /\ wire[s] = <<>> /\ tail[s] = 0
                           /\ \A p \in Peer : filled[s][p] = 0
      /\ \A t \in Token : combined[t] = NoSum
      /\ \A w \in Receiver : rcv[w].at = w
  BY DEF Init
<1>4. ASSUME NEW s \in Source PROVE Written(s) /\ ArrivedIn(s)
  <2>1. Total(s) \in Nat
    BY <1>1, SourceFacts
  <2>2. Frontier(s) = 0 /\ \A i \in 0 .. Total(s) - 1 : ~Done(s, i)
    BY <1>3, <2>1 DEF Frontier, Done
  <2> QED BY <2>1, <2>2 DEF Written, ArrivedIn
<1>5. ASSUME NEW s \in Source, NEW p \in Peer PROVE QueueHolds(s, p)
  BY <1>3 DEF QueueHolds
<1>6. ASSUME NEW t \in Token PROVE Summed(t)
  <2>1. t \in Nat /\ NumReceivers \in Nat \ {0} /\ Receiver = 0 .. NumReceivers - 1
    BY <1>1, RunFacts, SizesAssumption DEF CountInv, CountTyped, Receiver
  <2>2. t % NumReceivers \in Receiver /\ t % NumReceivers <= t /\ t % NumReceivers \in Nat
    <3>1. t % NumReceivers \in 0 .. NumReceivers - 1 /\ t % NumReceivers <= t
      BY <2>1
    <3> QED BY <2>1, <3>1
  <2>3. ~(t < rcv[t % NumReceivers].at)
    BY <1>3, <2>1, <2>2
  <2> QED BY <1>3, <2>3 DEF Summed
<1> QED BY <1>2, <1>4, <1>5, <1>6 DEF RowInv

(* Every step keeps the rows right.                                        *)
LEMMA StepRows ==
  ASSUME Ordered, CountInv, RowInv, [Next]_vars
  PROVE  RowInv'
<1>1. CountInv'
  BY StepCounts
<1>2. CASE UNCHANGED vars
  <2>1. /\ UNCHANGED <<input, nvlRing, staged, ring, combined, filled>>
        /\ UNCHANGED <<rcv, start, room, sub, wire, tail>>
    BY <1>2 DEF vars, nvlink, forwarder, receiver
  <2>2. ASSUME NEW s \in Source
        PROVE  /\ Bound(s) \in Nat /\ Bound(s)' = Bound(s) /\ Total(s) \in Nat
               /\ \A i \in 0 .. Total(s) - 1 : Done(s, i)' => Done(s, i)
               /\ Frontier(s)' = Frontier(s)
    BY <2>1, SourceFacts, NodeSame, FrontierSame
  <2>3. \A s \in Source : Bound(s) <= Bound(s)'
    BY <2>2
  <2> QED BY <2>1, <2>2, <2>3, RowsKept
<1>3. ASSUME NEW s \in Source, SourceStep(s) PROVE RowInv'
  BY <1>1, <1>3, CountingRows, InOrder, DeliverRows, SendChunkRows, CombineRows DEF SourceStep
<1>4. CASE \E w \in Receiver : Await(w) \/ Receive(w) \/ RetireReceiver(w)
  BY <1>1, <1>4, ReceiverRows
<1> QED BY <1>2, <1>3, <1>4 DEF Next

(* What the invariant says of the types and the slots given back.          *)
LEMMA InvTypeOK ==
  ASSUME CountInv, RowInv
  PROVE  TypeOK
<1>1. ASSUME NEW s \in Source
      PROVE  /\ start[s] % RdmaSend = 0 /\ tail[s] <= Total(s)
             /\ head[s] <= tail[s] \/ (head[s] = Large /\ tail[s] = Total(s))
             /\ \A x \in 0 .. RdmaRecv - 1 :
                  staged[s][x] \cup ring[s][x] \subseteq {s} \X Peer \X Token
             /\ subRetired[s] \subseteq SubWarp
  <2>1. start[s] % RdmaSend = 0
    BY DEF CountInv, Walk
  <2>2. tail[s] <= Total(s)
    BY SourceFacts DEF Smaller
  <2>3. head[s] <= tail[s] \/ (head[s] = Large /\ tail[s] = Total(s))
    BY DEF CountInv, Channel, Kept
  <2>4. subRetired[s] \subseteq SubWarp
    BY DEF CountInv, CountTyped
  <2> QED BY <2>1, <2>2, <2>3, <2>4 DEF RowInv, RowsTyped
<1>2. ASSUME NEW s \in Source, NEW p \in Peer
      PROVE  /\ filled[s][p] - nvlTail[s][p] \in 0 .. NvlSend
             /\ \/ filled[s][p] - nvlHead[s][p] \in 0 .. NvlRecv
                \/ nvlHead[s][p] = Large /\ nvlTail[s][p] = Cardinality(For(s, p))
             /\ \A x \in 0 .. NvlRecv - 1 : nvlRing[s][p][x] \subseteq {s} \X {p} \X Token
  <2>1. PICK f \in Nat, t \in Nat, h \in Nat, all \in Nat, a \in Nat, b \in Nat :
          /\ f = filled[s][p] /\ t = nvlTail[s][p] /\ h = nvlHead[s][p] /\ all = Share(s, p)
          /\ a = NvlSend /\ b = NvlRecv
    BY QueueFacts
  <2>2. t <= f /\ f <= t + a /\ f <= h + b /\ Kept(h, t, all)
    BY <2>1, QueueFacts DEF Queue
  <2>3. f - t \in 0 .. a /\ (f - h \in 0 .. b \/ (h = Large /\ t = all))
    BY <2>2 DEF Kept
  <2> QED BY <2>1, <2>3 DEF Share, RowInv, RowsTyped
<1>3. rcvRetired \subseteq Receiver
  BY DEF CountInv, CountTyped
<1>4. \A t \in Token : combined[t] \subseteq Source \X Peer \X {t}
  BY DEF RowInv, Summed, Held, NoSum
<1> QED BY <1>1, <1>2, <1>3, <1>4 DEF TypeOK

(* A token written is complete.                                            *)
LEMMA InvRowsCombined ==
  ASSUME RowInv
  PROVE  RowsCombined
BY DEF RowInv, Summed, RowsCombined

(* What the counters say and what the rings hold, in every state, if the   *)
(* network keeps a put and a later atomic in order.                        *)
THEOREM Invariance == ASSUME Ordered PROVE Spec => [](CountInv /\ RowInv)
<1>1. Init => CountInv /\ RowInv
  BY InitCounts, InitRows
<1>2. CountInv /\ RowInv /\ [Next]_vars => (CountInv /\ RowInv)'
  BY StepCounts, StepRows
<1> QED BY <1>1, <1>2, PTL DEF Spec

(* The types and ranges of all counters and rings (combine of internode.cu):*)
(* in particular no queue or ring ever holds more rows than it has slots,  *)
(* if the network keeps a put and a later atomic in order.                 *)
THEOREM TypeCorrect == ASSUME Ordered PROVE Spec => []TypeOK
<1>1. CountInv /\ RowInv => TypeOK
  BY InvTypeOK
<1> QED BY <1>1, Invariance, PTL

(* A token that combine has written has the rows of all GPUs that have it, *)
(* from all nodes, each of that very token, and nothing else, if the       *)
(* network keeps a put and a later atomic in order.                        *)
THEOREM SumsComplete == ASSUME Ordered PROVE Spec => []RowsCombined
<1>1. CountInv /\ RowInv => RowsCombined
  BY InvRowsCombined
<1> QED BY <1>1, Invariance, PTL
=============================================================================
