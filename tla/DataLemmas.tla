------------------------------ MODULE DataLemmas -------------------------------
(***************************************************************************)
(* What the proofs share about data.  Slots are numbers modulo the size of *)
(* a ring, and warps take turns.  The kernels number the tokens of a       *)
(* channel by counting: the number of a token in a set is how many members *)
(* of the set come before it.  A ring buffer holds a segment of the        *)
(* sequence of tokens that passes through it.  And the counts that ranks   *)
(* exchange are added up, by SumFunctionOnSet: induction comes from the    *)
(* well-founded order of the naturals, with a set in the place of the      *)
(* predicate.                                                              *)
(***************************************************************************)
EXTENDS Integers, Sequences, FiniteSets, Functions, FiniteSetTheorems,
        SequenceTheorems, WellFoundedInduction, TLAPS

(* Between two members of a residue class there are N steps. *)
LEMMA MultipleInRange ==
  ASSUME NEW N \in Nat \ {0}, NEW k \in Int, N * k < N, -N < N * k
  PROVE  k = 0
<1>1. ~(k >= 1)
  <2> SUFFICES ASSUME k >= 1 PROVE FALSE
    OBVIOUS
  <2>1. N * k >= N
    OBVIOUS
  <2> QED BY <2>1
<1>2. ~(k <= -1)
  <2> SUFFICES ASSUME k <= -1 PROVE FALSE
    OBVIOUS
  <2>1. N * k <= -N
    OBVIOUS
  <2> QED BY <2>1
<1> QED BY <1>1, <1>2

(* Quotient and remainder. *)
LEMMA Division ==
  ASSUME NEW N \in Nat \ {0}, NEW x \in Nat
  PROVE  /\ x \div N \in Int /\ x % N \in 0 .. N - 1
         /\ x = N * (x \div N) + (x % N)
OBVIOUS

(* Two numbers of one residue class less than N apart are one. *)
LEMMA SameResidue ==
  ASSUME NEW N \in Nat \ {0}, NEW x \in Nat, NEW y \in Nat,
         x % N = y % N, x <= y, y < x + N
  PROVE  x = y
<1> DEFINE k == (y \div N) - (x \div N)
<1>1. k \in Int /\ y - x = N * k
  BY Division
<1>2. k = 0
  <2> HIDE DEF k
  <2> QED BY <1>1, MultipleInRange
<1> QED BY <1>1, <1>2

(* N further is the same residue class. *)
LEMMA NextResidue ==
  ASSUME NEW N \in Nat \ {0}, NEW x \in Nat
  PROVE  (x + N) % N = x % N
<1> DEFINE k == ((x + N) \div N) - (x \div N) - 1
           r == x % N
           q == (x + N) % N
<1>1. r \in 0 .. N - 1 /\ q \in 0 .. N - 1
  BY Division
<1>2. k \in Int /\ r - q = N * k
  <2>1. /\ x = N * (x \div N) + r /\ (x \div N) \in Int
        /\ x + N = N * ((x + N) \div N) + q /\ ((x + N) \div N) \in Int
    BY Division
  <2> QED BY <2>1
<1>3. k = 0
  <2> HIDE DEF k, r, q
  <2> QED BY <1>1, <1>2, MultipleInRange
<1> QED BY <1>1, <1>2, <1>3

(* Numbers less than a ring apart have slots of their own. *)
LEMMA RingSlotsApart ==
  ASSUME NEW N \in Nat \ {0}, NEW h \in Nat, NEW i \in Nat, NEW j \in Nat,
         h <= i, h <= j, i < h + N, j < h + N, i # j
  PROVE  i % N # j % N
<1>1. CASE i < j
  <2>1. i <= j /\ j < i + N
    BY <1>1
  <2> QED BY <2>1, SameResidue
<1>2. CASE j < i
  <2>1. j <= i /\ i < j + N
    BY <1>2
  <2> QED BY <2>1, SameResidue
<1> QED BY <1>1, <1>2

(* A slot is within its ring. *)
LEMMA RingSlotType ==
  ASSUME NEW N \in Nat \ {0}, NEW i \in Nat
  PROVE  i % N \in 0 .. N - 1
OBVIOUS

-----------------------------------------------------------------------------
(* The number of a token in a set: how many members come before it.        *)
Below(S, t) == Cardinality({u \in S : u < t})

(* The count stays within the set's size and reaches it past the last one. *)
LEMMA BelowType ==
  ASSUME NEW S \in SUBSET Nat, IsFiniteSet(S), NEW t
  PROVE  /\ Cardinality(S) \in Nat
         /\ Below(S, t) \in 0 .. Cardinality(S)
         /\ (\A u \in S : u < t) => Below(S, t) = Cardinality(S)
<1> DEFINE B == {u \in S : u < t}
<1>1. IsFiniteSet(B) /\ Cardinality(B) <= Cardinality(S)
  BY FS_Subset
<1>2. Cardinality(S) \in Nat /\ Cardinality(B) \in Nat
  BY <1>1, FS_CardinalityType
<1>3. (\A u \in S : u < t) => B = S
  OBVIOUS
<1> QED BY <1>1, <1>2, <1>3 DEF Below

(* One step on: the count grows by one exactly past a member. *)
LEMMA BelowStep ==
  ASSUME NEW S \in SUBSET Nat, IsFiniteSet(S), NEW t \in Nat
  PROVE  /\ t \in S => Below(S, t + 1) = Below(S, t) + 1
         /\ t \notin S => Below(S, t + 1) = Below(S, t)
         /\ Below(S, 0) = 0
<1> DEFINE B(n) == {u \in S : u < n}
<1>1. \A n : IsFiniteSet(B(n))
  BY FS_Subset
<1>2. \A u \in Nat : (u < t + 1 <=> u < t \/ u = t) /\ ~(u < 0) /\ ~(t < t)
  OBVIOUS
<1>3. \A u \in S : u \in Nat
  OBVIOUS
<1>4. ASSUME t \in S PROVE B(t + 1) = B(t) \cup {t} /\ t \notin B(t)
  BY <1>2, <1>3, <1>4, Zenon
<1>5. ASSUME t \notin S PROVE B(t + 1) = B(t)
  BY <1>2, <1>3, <1>5, Zenon
<1>6. B(0) = {}
  BY <1>2, <1>3, Zenon
<1>7. ASSUME t \in S PROVE Cardinality(B(t + 1)) = Cardinality(B(t)) + 1
  <2>1. B(t + 1) = B(t) \cup {t} /\ t \notin B(t) /\ IsFiniteSet(B(t))
    BY <1>1, <1>4, <1>7
  <2> HIDE DEF B
  <2> QED BY <2>1, FS_AddElement
<1> QED BY <1>5, <1>6, <1>7, FS_EmptySet DEF Below

(* The count never falls, and grows strictly past a member. *)
LEMMA BelowMonotone ==
  ASSUME NEW S \in SUBSET Nat, IsFiniteSet(S), NEW t \in Nat, NEW u \in Nat, t <= u
  PROVE  /\ Below(S, t) <= Below(S, u)
         /\ t \in S /\ t < u => Below(S, t) < Below(S, u)
<1> DEFINE B(n) == {x \in S : x < n}
<1>1. \A m, n \in Nat : m <= n => Cardinality(B(m)) <= Cardinality(B(n))
  <2> SUFFICES ASSUME NEW m \in Nat, NEW n \in Nat, m <= n
               PROVE  Cardinality(B(m)) <= Cardinality(B(n))
    OBVIOUS
  <2>1. \A x \in Nat : x < m => x < n
    OBVIOUS
  <2>2. B(m) \subseteq B(n)
    BY <2>1, Zenon
  <2>3. IsFiniteSet(B(n))
    BY FS_Subset
  <2> QED BY <2>2, <2>3, FS_Subset
<1>2. ASSUME t \in S, t < u PROVE Below(S, t) < Below(S, u)
  <2>1. Below(S, t + 1) = Below(S, t) + 1
    BY <1>2, BelowStep
  <2>2. t + 1 \in Nat /\ t + 1 <= u
    BY <1>2
  <2>3. Below(S, t + 1) <= Below(S, u)
    BY <1>1, <2>2 DEF Below
  <2>4. Below(S, t) \in Int /\ Below(S, u) \in Int
    BY BelowType
  <2> QED BY <2>1, <2>3, <2>4
<1> QED BY <1>1, <1>2 DEF Below

(* Two members have different numbers, and the later one the larger. *)
LEMMA BelowOrders ==
  ASSUME NEW S \in SUBSET Nat, IsFiniteSet(S), NEW t \in S, NEW u \in S
  PROVE  /\ Below(S, t) < Cardinality(S)
         /\ t < u <=> Below(S, t) < Below(S, u)
         /\ t = u <=> Below(S, t) = Below(S, u)
<1>1. /\ t \in Nat /\ u \in Nat
      /\ Below(S, t) \in Nat /\ Below(S, u) \in Nat /\ Below(S, t + 1) \in 0 .. Cardinality(S)
      /\ Cardinality(S) \in Nat
  BY BelowType
<1>2. Below(S, t + 1) = Below(S, t) + 1
  BY <1>1, BelowStep
<1>3. t < u => Below(S, t) < Below(S, u)
  BY <1>1, BelowMonotone
<1>4. u < t => Below(S, u) < Below(S, t)
  BY <1>1, BelowMonotone
<1>5. t = u => Below(S, t) = Below(S, u)
  OBVIOUS
<1> QED BY <1>1, <1>2, <1>3, <1>4, <1>5

(* Every number below the set's size is some member's. *)
LEMMA BelowOnto ==
  ASSUME NEW S \in SUBSET Nat, IsFiniteSet(S), NEW i \in 0 .. Cardinality(S) - 1
  PROVE  \E t \in S : Below(S, t) = i
<1> DEFINE N == 0 .. Cardinality(S) - 1
           f == [t \in S |-> Below(S, t)]
<1>1. Cardinality(S) \in Nat
  BY FS_CardinalityType
<1>2. \A t \in S : Below(S, t) \in N
  BY <1>1, BelowType, BelowOrders
<1>3. f \in [S -> N]
  BY <1>2
<1>4. \A t, u \in S : f[t] = f[u] => t = u
  BY BelowOrders
<1>5. f \in Injection(S, N)
  BY <1>3, <1>4 DEF Injection, IsInjective
<1>6. IsFiniteSet(N) /\ Cardinality(N) = Cardinality(S)
  BY <1>1, FS_Interval
<1>7. f \in Surjection(S, N)
  <2> HIDE DEF f, N
  <2> QED BY <1>5, <1>6, FS_Injection
<1> QED BY <1>7 DEF Surjection
--------------------------------------------------------------------------------
(* A segment of a sequence, as a function of its bounds. *)
Segment(f, a, b) == [i \in 1 .. b - a |-> f[a + i]]

(* A segment of a sequence is a sequence of the expected length. *)
LEMMA SegmentType ==
  ASSUME NEW S, NEW f \in Seq(S), NEW a \in Nat, NEW b \in a .. Len(f)
  PROVE  Segment(f, a, b) \in Seq(S) /\ Len(Segment(f, a, b)) = b - a
<1>1. \A i \in 1 .. b - a : a + i \in 1 .. Len(f)
  OBVIOUS
<1>2. b - a \in Nat
  OBVIOUS
<1> QED BY <1>1, <1>2 DEF Segment

(* Moving the end of a segment appends what lies between. *)
LEMMA SegmentAppend ==
  ASSUME NEW S, NEW f \in Seq(S), NEW a \in Nat, NEW b \in a .. Len(f), NEW c \in b .. Len(f)
  PROVE  Segment(f, a, c) = Segment(f, a, b) \o SubSeq(f, b + 1, c)
<1>0. a \in Int /\ b \in Int /\ c \in Int /\ a <= b /\ b <= c
  OBVIOUS
<1> DEFINE g == Segment(f, a, b)
           h == SubSeq(f, b + 1, c)
<1>1. g \in Seq(S) /\ Len(g) = b - a /\ \A i \in 1 .. b - a : g[i] = f[a + i]
  BY SegmentType DEF Segment
<1>2. h \in Seq(S) /\ Len(h) = c - b /\ \A i \in 1 .. c - b : h[i] = f[b + i]
  OBVIOUS
<1>3. Segment(f, a, c) \in Seq(S) /\ Len(Segment(f, a, c)) = c - a
  <2>1. c \in a .. Len(f)
    OBVIOUS
  <2> QED BY <2>1, SegmentType
<1>4. \A i \in 1 .. c - a : Segment(f, a, c)[i] = f[a + i]
  BY DEF Segment
<1> HIDE DEF g, h
<1>5. g \o h \in Seq(S) /\ Len(g \o h) = c - a
  <2>1. g \o h \in Seq(S) /\ Len(g \o h) = Len(g) + Len(h)
    BY <1>1, <1>2, ConcatProperties
  <2>2. Len(g) = b - a /\ Len(h) = c - b
    BY <1>1, <1>2
  <2>3. (b - a) + (c - b) = c - a
    BY <1>0
  <2> QED BY <2>1, <2>2, <2>3, Zenon
<1>6. \A i \in 1 .. c - a : (g \o h)[i] = f[a + i]
  <2> SUFFICES ASSUME NEW i \in 1 .. c - a PROVE (g \o h)[i] = f[a + i]
    OBVIOUS
  <2>0. i <= b - a \/ i > b - a
    BY <1>0
  <2>1. CASE i <= b - a
    BY <1>1, <1>2, <2>1
  <2>2. CASE i > b - a
    <3>1. (g \o h)[i] = h[i - (b - a)] /\ i - (b - a) \in 1 .. c - b
      BY <1>1, <1>2, <2>2
    <3>2. b + (i - (b - a)) = a + i
      OBVIOUS
    <3> QED BY <1>2, <3>1, <3>2
  <2> QED BY <2>0, <2>1, <2>2
<1>7. Segment(f, a, c) = g \o h
  <2> DEFINE e == Segment(f, a, c)
             u == g \o h
  <2>1. e \in Seq(S) /\ u \in Seq(S) /\ Len(e) = Len(u)
    BY <1>3, <1>5
  <2>2. \A i \in 1 .. Len(e) : e[i] = u[i]
    BY <1>3, <1>4, <1>6
  <2> HIDE DEF e, u
  <2>3. e = u
    BY <2>1, <2>2, SeqEqual
  <2> QED BY <2>3 DEF e, u
<1> QED BY <1>7 DEF g, h

(* Moving its start drops the first ones. *)
LEMMA SegmentDrop ==
  ASSUME NEW S, NEW f \in Seq(S), NEW a \in Nat, NEW b \in a .. Len(f), NEW k \in 0 .. b - a
  PROVE  Segment(f, a + k, b) = SubSeq(Segment(f, a, b), k + 1, b - a)
<1> DEFINE g == Segment(f, a, b)
           h == SubSeq(g, k + 1, b - a)
<1>1. g \in Seq(S) /\ Len(g) = b - a /\ \A i \in 1 .. b - a : g[i] = f[a + i]
  BY SegmentType DEF Segment
<1>2. Segment(f, a + k, b) \in Seq(S) /\ Len(Segment(f, a + k, b)) = b - a - k
  <2>1. a + k \in Nat /\ b \in a + k .. Len(f) /\ b - (a + k) = b - a - k
    OBVIOUS
  <2>2. Segment(f, a + k, b) \in Seq(S) /\ Len(Segment(f, a + k, b)) = b - (a + k)
    BY <2>1, SegmentType
  <2> QED BY <2>1, <2>2
<1>3. \A i \in 1 .. b - a - k : Segment(f, a + k, b)[i] = f[a + k + i]
  BY DEF Segment
<1> HIDE DEF g
<1>4. h \in Seq(S) /\ Len(h) = b - a - k /\ \A i \in 1 .. b - a - k : h[i] = g[k + i]
  BY <1>1
<1>5. \A i \in 1 .. b - a - k : h[i] = f[a + k + i]
  BY <1>1, <1>4
<1> DEFINE e == Segment(f, a + k, b)
<1>6. e \in Seq(S) /\ Len(e) = Len(h)
  BY <1>2, <1>4
<1>7. \A i \in 1 .. Len(e) : e[i] = h[i]
  BY <1>2, <1>3, <1>5
<1> HIDE DEF e, h
<1>8. e = h
  BY <1>4, <1>6, <1>7, SeqEqual
<1> QED BY <1>8 DEF e, h, g

-----------------------------------------------------------------------------
(* Induction over the naturals, for a set in the place of a predicate.     *)
LEMMA NatSetInduction ==
  ASSUME NEW G \in SUBSET Nat, 0 \in G, \A n \in G : n + 1 \in G
  PROVE  \A n \in Nat : n \in G
<1> DEFINE B == Nat \ G
<1> SUFFICES ASSUME B # {} PROVE FALSE
  OBVIOUS
<1>1. PICK n \in B : \A m \in B : ~ (<<m, n>> \in OpToRel(<, Nat))
  BY NatLessThanWellFounded, WFMin
<1>2. n - 1 \in Nat /\ n - 1 \notin B
  <2>1. n # 0 /\ n \in Nat
    OBVIOUS
  <2>2. n - 1 \in Nat /\ n - 1 < n
    BY <2>1
  <2>3. n - 1 \in B => <<n - 1, n>> \in OpToRel(<, Nat)
    BY <2>1, <2>2 DEF OpToRel
  <2> QED BY <1>1, <2>2, <2>3
<1>3. (n - 1) + 1 = n
  OBVIOUS
<1> QED BY <1>2, <1>3

(* A set of naturals that is not empty has a least member.                 *)
LEMMA LeastMember ==
  ASSUME NEW N \in SUBSET Nat, N # {}
  PROVE  \E n \in N : \A m \in N : n <= m
<1>1. PICK n \in N : \A m \in N : ~ (<<m, n>> \in OpToRel(<, Nat))
  BY NatLessThanWellFounded, WFMin
<1>2. \A m \in N : ~ (m < n)
  BY <1>1 DEF OpToRel
<1> QED BY <1>2

(* Induction over the subsets of a finite set: none is the smallest that   *)
(* the family lacks.                                                       *)
LEMMA SubsetInduction ==
  ASSUME NEW S, IsFiniteSet(S), NEW G \in SUBSET (SUBSET S),
         \A s \in SUBSET S : (\A t \in SUBSET s : t # s => t \in G) => s \in G
  PROVE  \A s \in SUBSET S : s \in G
<1> DEFINE K == {n \in Nat : \A s \in SUBSET S : Cardinality(s) < n => s \in G}
<1>1. \A s \in SUBSET S : IsFiniteSet(s) /\ Cardinality(s) \in Nat
  BY FS_Subset, FS_CardinalityType
<1>2. 0 \in K
  BY <1>1
<1>3. ASSUME NEW n \in K PROVE n + 1 \in K
  <2> SUFFICES ASSUME NEW s \in SUBSET S, Cardinality(s) < n + 1 PROVE s \in G
    OBVIOUS
  <2>1. ASSUME NEW t \in SUBSET s, t # s PROVE t \in G
    <3>1. Cardinality(t) <= Cardinality(s) /\ Cardinality(t) # Cardinality(s)
      BY <1>1, <2>1, FS_Subset
    <3>2. Cardinality(t) < n /\ t \in SUBSET S
      BY <1>1, <3>1
    <3> QED BY <3>2
  <2> QED BY <2>1
<1>4. \A n \in Nat : n \in K
  <2> HIDE DEF K
  <2>1. K \in SUBSET Nat
    BY DEF K
  <2> QED BY <1>2, <1>3, <2>1, NatSetInduction
<1> SUFFICES ASSUME NEW s \in SUBSET S PROVE s \in G
  OBVIOUS
<1>5. Cardinality(s) + 1 \in K /\ Cardinality(s) < Cardinality(s) + 1
  BY <1>1, <1>4
<1> QED BY <1>5

-----------------------------------------------------------------------------
(* The table of partial sums that SumFunctionOnSet builds, and one entry   *)
(* of it.                                                                  *)
Some(s) == CHOOSE y \in s : TRUE
Entry(f, g, s) == IF s = {} THEN 0 ELSE f[Some(s)] + g[s \ {Some(s)}]
Table(f, S) == CHOOSE g : g = [s \in SUBSET S |-> Entry(f, g, s)]

(* The definition of the community module, written with these.             *)
LEMMA SumIs == ASSUME NEW f, NEW S PROVE SumFunctionOnSet(f, S) = Table(f, S)[S]
BY DEF SumFunctionOnSet, FoldFunctionOnSet, MapThenFoldSet, Table, Entry, Some

(* A set that is not empty has the member chosen.                          *)
LEMMA SomeIn == ASSUME NEW s, s # {} PROVE Some(s) \in s
BY DEF Some

(* A table that is right for the small subsets is one step short of one    *)
(* that is right for the next larger ones; so a right one exists.          *)
LEMMA TableIs ==
  ASSUME NEW S, IsFiniteSet(S), NEW f, \A x \in S : f[x] \in Int
  PROVE  /\ Table(f, S) = [s \in SUBSET S |-> Entry(f, Table(f, S), s)]
         /\ Table(f, S) \in [SUBSET S -> Int]
<1> DEFINE Right(g, n) == \A s \in SUBSET S : Cardinality(s) < n => g[s] = Entry(f, g, s)
           K == {n \in Nat : \E g \in [SUBSET S -> Int] : Right(g, n)}
<1>1. \A s \in SUBSET S : IsFiniteSet(s) /\ Cardinality(s) \in Nat
  BY FS_Subset, FS_CardinalityType
<1>2. 0 \in K
  <2>1. [s \in SUBSET S |-> 0] \in [SUBSET S -> Int]
    OBVIOUS
  <2>2. Right([s \in SUBSET S |-> 0], 0)
    BY <1>1
  <2> QED BY <2>1, <2>2
<1>3. ASSUME NEW n \in K PROVE n + 1 \in K
  <2>1. PICK g \in [SUBSET S -> Int] : Right(g, n)
    OBVIOUS
  <2> DEFINE h == [s \in SUBSET S |-> Entry(f, g, s)]
  <2>2. \A s \in SUBSET S : s # {} => Some(s) \in S /\ s \ {Some(s)} \in SUBSET S
    BY SomeIn
  <2>3. h \in [SUBSET S -> Int]
    BY <2>2 DEF Entry
  <2>4. ASSUME NEW s \in SUBSET S, Cardinality(s) < n + 1 PROVE h[s] = Entry(f, h, s)
    <3>1. CASE s = {}
      BY <3>1 DEF Entry
    <3>2. CASE s # {}
      <4> DEFINE t == s \ {Some(s)}
      <4>1. t \in SUBSET S /\ Some(s) \in s
        BY <2>2, <3>2, SomeIn
      <4>2. Cardinality(t) < n
        <5>1. Cardinality(t) = Cardinality(s) - 1
          BY <1>1, <4>1, FS_RemoveElement
        <5> QED BY <1>1, <2>4, <5>1
      <4>3. g[t] = Entry(f, g, t)
        BY <2>1, <4>1, <4>2
      <4>4. h[t] = g[t]
        BY <4>1, <4>3
      <4> QED BY <3>2, <4>4 DEF Entry
    <3> QED BY <3>1, <3>2
  <2>5. n + 1 \in Nat
    OBVIOUS
  <2>6. Right(h, n + 1)
    <3> HIDE DEF h
    <3> QED BY <2>4
  <2> HIDE DEF h, Right
  <2> QED BY <2>3, <2>5, <2>6
<1>4. \A n \in Nat : n \in K
  <2> HIDE DEF K
  <2>1. K \in SUBSET Nat
    BY DEF K
  <2> QED BY <1>2, <1>3, <2>1, NatSetInduction
<1>5. PICK g \in [SUBSET S -> Int] : Right(g, Cardinality(S) + 1)
  <2>1. Cardinality(S) + 1 \in K
    <3>1. Cardinality(S) \in Nat
      BY <1>1
    <3>2. Cardinality(S) + 1 \in Nat
      BY <3>1
    <3> HIDE DEF K
    <3> QED BY <1>4, <3>2
  <2> HIDE DEF Right
  <2> QED BY <2>1
<1>6. \A s \in SUBSET S : g[s] = Entry(f, g, s)
  <2> SUFFICES ASSUME NEW s \in SUBSET S PROVE g[s] = Entry(f, g, s)
    OBVIOUS
  <2>1. Cardinality(s) < Cardinality(S) + 1
    <3>1. Cardinality(s) <= Cardinality(S)
      BY FS_Subset
    <3> QED BY <1>1, <3>1
  <2> QED BY <1>5, <2>1
<1>7. g = [s \in SUBSET S |-> Entry(f, g, s)]
  BY <1>6
<1>8. Table(f, S) = [s \in SUBSET S |-> Entry(f, Table(f, S), s)]
  BY <1>7 DEF Table
<1>9. PICK T : T = Table(f, S) /\ \A s \in SUBSET S : T[s] = Entry(f, T, s)
  BY <1>8
<1> DEFINE I == {s \in SUBSET S : T[s] \in Int}
<1>10. \A s \in SUBSET S : s \in I
  <2>1. ASSUME NEW s \in SUBSET S, \A t \in SUBSET s : t # s => t \in I
        PROVE  s \in I
    <3>1. CASE s = {}
      <4>1. T[s] = 0
        BY <1>9, <3>1 DEF Entry
      <4> QED BY <4>1
    <3>2. CASE s # {}
      <4>1. Some(s) \in s /\ f[Some(s)] \in Int
        BY <3>2, SomeIn
      <4>2. s \ {Some(s)} \in I
        BY <2>1, <4>1
      <4>3. T[s] = f[Some(s)] + T[s \ {Some(s)}]
        BY <1>9, <3>2 DEF Entry
      <4> QED BY <4>1, <4>2, <4>3
    <3> QED BY <3>1, <3>2
  <2>2. I \in SUBSET (SUBSET S)
    OBVIOUS
  <2> HIDE DEF I
  <2> QED BY <2>1, <2>2, SubsetInduction
<1> QED BY <1>8, <1>9, <1>10

(* The entry of a subset does not depend on the table it is read from.     *)
LEMMA TableCoherent ==
  ASSUME NEW S, IsFiniteSet(S), NEW f, \A x \in S : f[x] \in Int, NEW U \in SUBSET S
  PROVE  \A s \in SUBSET U : Table(f, U)[s] = Table(f, S)[s]
<1> DEFINE G == {s \in SUBSET U : Table(f, U)[s] = Table(f, S)[s]}
<1>1. IsFiniteSet(U) /\ \A x \in U : f[x] \in Int
  BY FS_Subset
<1>2. \A s \in SUBSET U : /\ Table(f, U)[s] = Entry(f, Table(f, U), s)
                          /\ Table(f, S)[s] = Entry(f, Table(f, S), s)
  <2>1. Table(f, U) = [s \in SUBSET U |-> Entry(f, Table(f, U), s)]
    BY <1>1, TableIs
  <2>2. Table(f, S) = [s \in SUBSET S |-> Entry(f, Table(f, S), s)]
    BY TableIs
  <2>3. \A s \in SUBSET U : s \in SUBSET S
    OBVIOUS
  <2> QED BY <2>1, <2>2, <2>3
<1>3. ASSUME NEW s \in SUBSET U, \A t \in SUBSET s : t # s => t \in G
      PROVE  s \in G
  <2>1. CASE s = {}
    BY <1>2, <2>1 DEF Entry
  <2>2. CASE s # {}
    <3>1. Some(s) \in s
      BY <2>2, SomeIn
    <3>2. s \ {Some(s)} \in G
      BY <1>3, <3>1
    <3> QED BY <1>2, <2>2, <3>2 DEF Entry
  <2> QED BY <2>1, <2>2
<1>4. G \in SUBSET (SUBSET U)
  OBVIOUS
<1> HIDE DEF G
<1>5. \A s \in SUBSET U : s \in G
  BY <1>1, <1>3, <1>4, SubsetInduction
<1> QED BY <1>5 DEF G

(* A sum of integers: none for the empty set, otherwise its first term and *)
(* the sum of the others.                                                  *)
LEMMA SumSome ==
  ASSUME NEW S, IsFiniteSet(S), NEW f, \A x \in S : f[x] \in Int
  PROVE  /\ SumFunctionOnSet(f, S) \in Int
         /\ S = {} => SumFunctionOnSet(f, S) = 0
         /\ S # {} => SumFunctionOnSet(f, S)
                        = f[Some(S)] + SumFunctionOnSet(f, S \ {Some(S)})
<1>1. Table(f, S) = [s \in SUBSET S |-> Entry(f, Table(f, S), s)]
  BY TableIs, Zenon
<1>2. Table(f, S) \in [SUBSET S -> Int]
  BY TableIs, Zenon
<1>3. Table(f, S)[S] = Entry(f, Table(f, S), S) /\ Table(f, S)[S] \in Int
  <2>1. S \in SUBSET S
    OBVIOUS
  <2> QED BY <1>1, <1>2, <2>1
<1>4. ASSUME S # {} PROVE Table(f, S)[S \ {Some(S)}] = SumFunctionOnSet(f, S \ {Some(S)})
  <2>1. S \ {Some(S)} \in SUBSET S
    OBVIOUS
  <2> QED BY <2>1, TableCoherent, SumIs
<1>5. SumFunctionOnSet(f, S) = Table(f, S)[S]
  BY SumIs
<1> QED BY <1>3, <1>4, <1>5 DEF Entry

(* The order of the terms does not matter: any of them may be the first.   *)
LEMMA SumRemove ==
  ASSUME NEW S, IsFiniteSet(S), NEW f, \A x \in S : f[x] \in Int, NEW x \in S
  PROVE  SumFunctionOnSet(f, S) = f[x] + SumFunctionOnSet(f, S \ {x})
<1> DEFINE G == {s \in SUBSET S :
                   \A y \in s : SumFunctionOnSet(f, s) = f[y] + SumFunctionOnSet(f, s \ {y})}
<1>1. \A s \in SUBSET S : /\ IsFiniteSet(s)
                          /\ \A y \in s : f[y] \in Int
  BY FS_Subset
<1>2. \A s \in SUBSET S : SumFunctionOnSet(f, s) \in Int
  BY <1>1, SumSome
<1>3. ASSUME NEW s \in SUBSET S, \A t \in SUBSET s : t # s => t \in G PROVE s \in G
  <2> SUFFICES ASSUME NEW y \in s
               PROVE  SumFunctionOnSet(f, s) = f[y] + SumFunctionOnSet(f, s \ {y})
    OBVIOUS
  <2>1. PICK z \in s : SumFunctionOnSet(f, s) = f[z] + SumFunctionOnSet(f, s \ {z})
    BY <1>1, SumSome, SomeIn
  <2>2. CASE z = y
    BY <2>1, <2>2
  <2>3. CASE z # y
    <3> DEFINE r == s \ {y, z}
    <3>1. SumFunctionOnSet(f, s \ {z}) = f[y] + SumFunctionOnSet(f, r)
      <4>1. s \ {z} \in G /\ y \in s \ {z} /\ (s \ {z}) \ {y} = r
        BY <1>3, <2>3
      <4> QED BY <4>1
    <3>2. SumFunctionOnSet(f, s \ {y}) = f[z] + SumFunctionOnSet(f, r)
      <4>1. s \ {y} \in G /\ z \in s \ {y} /\ (s \ {y}) \ {z} = r
        BY <1>3, <2>3
      <4> QED BY <4>1
    <3>3. f[y] \in Int /\ f[z] \in Int /\ SumFunctionOnSet(f, r) \in Int
      BY <1>1, <1>2
    <3> HIDE DEF r
    <3> QED BY <2>1, <3>1, <3>2, <3>3
  <2> QED BY <2>2, <2>3
<1>4. G \in SUBSET (SUBSET S)
  OBVIOUS
<1>5. \A s \in SUBSET S : s \in G
  <2> HIDE DEF G
  <2> QED BY <1>3, <1>4, SubsetInduction
<1>6. S \in G
  BY <1>5
<1> QED BY <1>6

(* A sum of counts is a count.                                             *)
LEMMA SumNat ==
  ASSUME NEW S, IsFiniteSet(S), NEW f, \A x \in S : f[x] \in Nat
  PROVE  SumFunctionOnSet(f, S) \in Nat
<1> DEFINE G == {s \in SUBSET S : SumFunctionOnSet(f, s) \in Nat}
<1>1. ASSUME NEW s \in SUBSET S, \A t \in SUBSET s : t # s => t \in G PROVE s \in G
  <2>1. IsFiniteSet(s) /\ \A x \in s : f[x] \in Int
    BY FS_Subset
  <2>2. CASE s = {}
    <3>1. SumFunctionOnSet(f, s) = 0
      BY <2>1, <2>2, SumSome
    <3> QED BY <3>1
  <2>3. CASE s # {}
    <3>1. Some(s) \in s
      BY <2>3, SomeIn
    <3>2. s \ {Some(s)} \in G /\ f[Some(s)] \in Nat
      BY <1>1, <3>1
    <3>3. SumFunctionOnSet(f, s) = f[Some(s)] + SumFunctionOnSet(f, s \ {Some(s)})
      BY <2>1, <2>3, SumSome
    <3> QED BY <3>2, <3>3
  <2> QED BY <2>2, <2>3
<1>2. G \in SUBSET (SUBSET S)
  OBVIOUS
<1>3. \A s \in SUBSET S : s \in G
  <2> HIDE DEF G
  <2> QED BY <1>1, <1>2, SubsetInduction
<1>4. S \in G
  BY <1>3
<1> QED BY <1>4

(* Only the terms matter.                                                  *)
LEMMA SumSame ==
  ASSUME NEW S, IsFiniteSet(S), NEW f, NEW g,
         \A x \in S : f[x] \in Int /\ g[x] = f[x]
  PROVE  SumFunctionOnSet(f, S) = SumFunctionOnSet(g, S)
<1> DEFINE G == {s \in SUBSET S : SumFunctionOnSet(f, s) = SumFunctionOnSet(g, s)}
<1>1. ASSUME NEW s \in SUBSET S, \A t \in SUBSET s : t # s => t \in G PROVE s \in G
  <2>1. IsFiniteSet(s) /\ (\A x \in s : f[x] \in Int) /\ (\A x \in s : g[x] \in Int)
    BY FS_Subset
  <2>2. CASE s = {}
    BY <2>1, <2>2, SumSome
  <2>3. CASE s # {}
    <3>1. Some(s) \in s
      BY <2>3, SomeIn
    <3>2. s \ {Some(s)} \in G /\ f[Some(s)] = g[Some(s)]
      BY <1>1, <3>1
    <3>3. SumFunctionOnSet(f, s) = f[Some(s)] + SumFunctionOnSet(f, s \ {Some(s)})
      BY <2>1, <2>3, SumSome
    <3>4. SumFunctionOnSet(g, s) = g[Some(s)] + SumFunctionOnSet(g, s \ {Some(s)})
      BY <2>1, <2>3, SumSome
    <3> QED BY <3>2, <3>3, <3>4
  <2> QED BY <2>2, <2>3
<1>2. G \in SUBSET (SUBSET S)
  OBVIOUS
<1>3. \A s \in SUBSET S : s \in G
  <2> HIDE DEF G
  <2> QED BY <1>1, <1>2, SubsetInduction
<1>4. S \in G
  BY <1>3
<1> QED BY <1>4

(* The running sum that the kernels' loops build.                          *)
LEMMA SumUpTo ==
  ASSUME NEW n \in Nat, NEW f, \A i \in 0 .. n : f[i] \in Int
  PROVE  /\ SumFunctionOnSet(f, 0 .. n) \in Int
         /\ SumFunctionOnSet(f, 0 .. n) =
              IF n = 0 THEN f[0] ELSE SumFunctionOnSet(f, 0 .. n - 1) + f[n]
<1>1. IsFiniteSet(0 .. n) /\ IsFiniteSet((0 .. n) \ {n})
  <2>1. IsFiniteSet(0 .. n)
    BY FS_Interval
  <2>2. (0 .. n) \ {n} \in SUBSET (0 .. n)
    OBVIOUS
  <2> QED BY <2>1, <2>2, FS_Subset
<1>2. SumFunctionOnSet(f, 0 .. n) = f[n] + SumFunctionOnSet(f, (0 .. n) \ {n})
  BY <1>1, SumRemove
<1>3. SumFunctionOnSet(f, (0 .. n) \ {n}) \in Int /\ SumFunctionOnSet(f, 0 .. n) \in Int
  BY <1>1, SumSome
<1>4. CASE n = 0
  <2>1. (0 .. n) \ {n} = {}
    BY <1>4
  <2>2. SumFunctionOnSet(f, {}) = 0
    BY <2>1, <1>1, SumSome
  <2>3. PICK a \in Int : a = f[0]
    OBVIOUS
  <2>4. SumFunctionOnSet(f, 0 .. n) = a + 0
    BY <1>2, <1>4, <2>1, <2>2, <2>3
  <2> QED BY <1>3, <1>4, <2>3, <2>4
<1>5. CASE n # 0
  <2>1. (0 .. n) \ {n} = 0 .. n - 1
    BY <1>5
  <2>2. f[n] \in Int
    OBVIOUS
  <2>3. PICK a \in Int, b \in Int : a = f[n] /\ b = SumFunctionOnSet(f, 0 .. n - 1)
    BY <1>3, <2>1, <2>2
  <2>4. SumFunctionOnSet(f, 0 .. n) = a + b
    BY <1>2, <2>1, <2>3
  <2> QED BY <1>3, <1>5, <2>3, <2>4
<1> QED BY <1>4, <1>5

(* The places that counts give: each holder's begins where those before it *)
(* end.                                                                    *)
LEMMA SumBefore ==
  ASSUME NEW n \in Nat, NEW f, \A i \in 0 .. n - 1 : f[i] \in Nat
  PROVE  /\ SumFunctionOnSet(f, 0 .. 0 - 1) = 0
         /\ \A m \in 0 .. n : SumFunctionOnSet(f, 0 .. m - 1) \in Nat
         /\ \A m \in 0 .. n - 1 :
              SumFunctionOnSet(f, 0 .. m) = SumFunctionOnSet(f, 0 .. m - 1) + f[m]
         /\ \A l, m \in 0 .. n : l <= m =>
              SumFunctionOnSet(f, 0 .. l - 1) <= SumFunctionOnSet(f, 0 .. m - 1)
<1> DEFINE F(m) == SumFunctionOnSet(f, 0 .. m - 1)
<1>1. F(0) = 0
  <2>1. 0 .. 0 - 1 = {} /\ IsFiniteSet({}) /\ \A x \in {} : f[x] \in Int
    BY FS_EmptySet
  <2> QED BY <2>1, SumSome
<1>2. ASSUME NEW m \in 0 .. n PROVE F(m) \in Nat
  <2>1. IsFiniteSet(0 .. m - 1) /\ \A x \in 0 .. m - 1 : f[x] \in Nat
    BY FS_Interval
  <2> QED BY <2>1, SumNat
<1>3. ASSUME NEW m \in 0 .. n - 1 PROVE SumFunctionOnSet(f, 0 .. m) = F(m) + f[m]
  <2>1. m \in Nat /\ \A i \in 0 .. m : f[i] \in Int
    OBVIOUS
  <2>2. SumFunctionOnSet(f, 0 .. m) =
          IF m = 0 THEN f[0] ELSE SumFunctionOnSet(f, 0 .. m - 1) + f[m]
    BY <2>1, SumUpTo
  <2>3. CASE m = 0
    <3>1. f[0] \in Nat
      BY <2>3
    <3>2. SumFunctionOnSet(f, 0 .. m) = f[0] /\ F(m) = 0
      BY <1>1, <2>2, <2>3
    <3> QED BY <2>3, <3>1, <3>2
  <2>4. CASE m # 0
    BY <2>2, <2>4
  <2> QED BY <2>3, <2>4
<1> DEFINE G == {k \in Nat : \A l \in 0 .. n : l + k <= n => F(l) <= F(l + k)}
<1>4. \A k \in Nat : k \in G
  <2>1. 0 \in G
    <3> SUFFICES ASSUME NEW l \in 0 .. n PROVE F(l) <= F(l + 0)
      OBVIOUS
    <3>1. l + 0 = l /\ F(l) \in Nat
      BY <1>2
    <3> QED BY <3>1
  <2>2. ASSUME NEW k \in G PROVE k + 1 \in G
    <3> SUFFICES ASSUME NEW l \in 0 .. n, l + (k + 1) <= n PROVE F(l) <= F(l + (k + 1))
      OBVIOUS
    <3>1. l + k \in 0 .. n - 1 /\ l + k \in 0 .. n /\ l + (k + 1) \in 0 .. n
          /\ (l + (k + 1)) - 1 = l + k
      OBVIOUS
    <3>2. F(l) <= F(l + k)
      BY <3>1
    <3>3. F(l + (k + 1)) = F(l + k) + f[l + k]
      BY <1>3, <3>1
    <3>4. F(l) \in Nat /\ F(l + k) \in Nat /\ f[l + k] \in Nat
      BY <1>2, <3>1
    <3> HIDE DEF F
    <3> QED BY <3>2, <3>3, <3>4
  <2>3. G \in SUBSET Nat
    OBVIOUS
  <2> HIDE DEF G
  <2> QED BY <2>1, <2>2, <2>3, NatSetInduction
<1>5. ASSUME NEW l \in 0 .. n, NEW m \in 0 .. n, l <= m PROVE F(l) <= F(m)
  <2>1. m - l \in Nat /\ l + (m - l) = m
    BY <1>5
  <2>2. m - l \in G
    BY <1>4, <2>1
  <2> HIDE DEF F
  <2>3. l + (m - l) <= n
    BY <2>1
  <2> QED BY <2>1, <2>2, <2>3
<1> QED BY <1>1, <1>2, <1>3, <1>5
-----------------------------------------------------------------------------
(* A list as long as a set that has every member has each of them once.    *)
LEMMA CoverOnce ==
  ASSUME NEW a \in Int, NEW b \in Int, NEW T, IsFiniteSet(T), Cardinality(T) = b - a, a <= b,
         NEW f, \A i \in a .. b - 1 : f[i] \in T,
         \A t \in T : \E i \in a .. b - 1 : f[i] = t
  PROVE  \A i, j \in a .. b - 1 : f[i] = f[j] => i = j
<1> DEFINE S == a .. b - 1
           g == [i \in S |-> f[i]]
<1>1. IsFiniteSet(S) /\ Cardinality(S) = Cardinality(T)
  <2>1. IsFiniteSet(a .. b - 1) /\ Cardinality(a .. b - 1) = IF a > b - 1 THEN 0 ELSE (b - 1) - a + 1
    BY FS_Interval
  <2> QED BY <2>1
<1>2. g \in Surjection(S, T)
  BY DEF Surjection
<1>3. g \in Injection(S, T)
  <2> HIDE DEF g, S
  <2> QED BY <1>1, <1>2, FS_SurjSameCardinalityImpliesInj
<1> QED BY <1>3 DEF Injection, IsInjective
=============================================================================
