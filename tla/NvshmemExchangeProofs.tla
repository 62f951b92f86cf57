------------------------- MODULE NvshmemExchangeProofs -------------------------
(***************************************************************************)
(* Proofs about dispatch and combine of the NVSHMEM path.  They are about  *)
(* the ranks for which the path works: the application keeps the phases of *)
(* the ranks apart (AppBarrier), and every rank sends a destination as     *)
(* many tokens as the others do (EqualShares).  For these no two puts meet *)
(* in a slot, what a rank copies is what was routed to it, and what is     *)
(* added to a token was computed from it.                                  *)
(***************************************************************************)
EXTENDS NvshmemExchange, DataLemmas, TLAPS

(* The barriers a rank has entered before its call n's dispatch proper, so *)
(* that every call counts alike from there: a cached one begins a barrier  *)
(* later than a notified one.                                              *)
Notified(n) == Calls[n] = "notified"
Base(n)  == 4 * (n - 1) + Cardinality({k \in 1 .. n : Notified(k)}) - 1
Least(n) == IF Notified(n) THEN Base(n) ELSE Base(n) + 1

Placed ==
  /\ route \in Routes
  /\ call \in [Rank -> DOMAIN Calls] /\ stage \in [Rank -> Stages]
  /\ arrived \in [Rank -> Nat]

(* How many barriers a rank has entered is where it is in its calls. *)
InPlace(r) ==
  LET b == Base(call[r]) IN
  /\ stage[r] = "dispatch" => arrived[r] = Least(call[r])
  /\ stage[r] = "gather"   => arrived[r] = b + 1 /\ Notified(call[r])
  /\ stage[r] = "send"     => arrived[r] = b + 1
  /\ stage[r] = "copy"     => arrived[r] = b + 2
  /\ stage[r] \in {"combine", "return"} => arrived[r] = b + 3
  /\ stage[r] = "reduce"   => arrived[r] = b + 4
  /\ stage[r] = "done"     => arrived[r] = b + 5 /\ call[r] = Len(Calls)
  /\ stage[r] = "thrown"   => arrived[r] = b + 1 \/ arrived[r] = b + 3

(* No rank is more than one barrier ahead, and one that sends has passed   *)
(* the barrier before.                                                     *)
InRhythm ==
  /\ \A r \in Rank : InPlace(r)
  /\ \A q, r \in Rank : arrived[q] <= arrived[r] + 1
  /\ \A r \in Rank : stage[r] \in {"send", "return", "thrown"} => Met(r)

RhythmInv == Placed /\ InRhythm
-----------------------------------------------------------------------------
(* The ranks.                                                              *)
LEMMA RankFacts ==
  /\ 0 \in Rank /\ NumRanks - 1 \in Rank /\ Rank \subseteq Nat /\ IsFiniteSet(Rank)
  /\ \A r \in Rank : r <= NumRanks - 1
  /\ \A s \in Rank : s = 0 \/ s - 1 \in Rank
  /\ \A s, d \in Rank : <<s, d>> \in Cell
<1>1. IsFiniteSet(Rank)
  BY NumRanksAssumption, FS_Interval DEF Rank
<1> QED BY <1>1, NumRanksAssumption DEF Rank, Cell

(* The calls, of which the first makes the handle.                         *)
LEMMA CallFacts ==
  /\ DOMAIN Calls = 1 .. Len(Calls) /\ Len(Calls) \in Nat /\ 1 \in DOMAIN Calls
  /\ \A n \in DOMAIN Calls : n \in Nat /\ n >= 1 /\ n <= Len(Calls)
  /\ \A n \in DOMAIN Calls : n < Len(Calls) => n + 1 \in DOMAIN Calls
  /\ Notified(1)
<1>1. Calls \in Seq({"notified", "cached"}) /\ Calls # <<>>
  BY CallsAssumption
<1>2. DOMAIN Calls = 1 .. Len(Calls) /\ Len(Calls) \in Nat /\ Len(Calls) # 0
  BY <1>1
<1> QED BY <1>2, CallsAssumption DEF Notified

(* Where the calls begin. *)
LEMMA BaseFacts ==
  /\ \A n \in DOMAIN Calls : Base(n) \in Nat
  /\ Base(1) = 0
  /\ \A m, n \in DOMAIN Calls : m < n => Least(n) >= Base(m) + 5
  /\ \A n \in DOMAIN Calls : n < Len(Calls) => Least(n + 1) = Base(n) + 5
<1> DEFINE K(n) == {k \in 1 .. n : Notified(k)}
<1>1. ASSUME NEW n \in Nat PROVE IsFiniteSet(K(n)) /\ Cardinality(K(n)) \in Nat
  <2>1. IsFiniteSet(1 .. n) /\ K(n) \in SUBSET (1 .. n)
    BY FS_Interval
  <2> QED BY <2>1, FS_Subset, FS_CardinalityType
<1>2. ASSUME NEW n \in Nat
      PROVE  Cardinality(K(n + 1)) = IF Notified(n + 1) THEN Cardinality(K(n)) + 1
                                                        ELSE Cardinality(K(n))
  <2>1. CASE Notified(n + 1)
    <3>1. K(n + 1) = K(n) \cup {n + 1} /\ n + 1 \notin K(n)
      BY <2>1
    <3> HIDE DEF K
    <3> QED BY <1>1, <2>1, <3>1, FS_AddElement
  <2>2. CASE ~Notified(n + 1)
    <3>1. K(n + 1) = K(n)
      BY <2>2
    <3> QED BY <2>2, <3>1
  <2> QED BY <2>1, <2>2
<1>3. ASSUME NEW m \in Nat, NEW n \in Nat, m <= n PROVE Cardinality(K(m)) <= Cardinality(K(n))
  <2>1. K(m) \subseteq K(n)
    BY <1>3
  <2> HIDE DEF K
  <2> QED BY <1>1, <2>1, FS_Subset
<1>4. Cardinality(K(1)) = 1 /\ K(0) = {}
  <2>1. K(1) = {1} /\ K(0) = {}
    BY CallFacts
  <2> QED BY <2>1, FS_Singleton
<1> HIDE DEF K
<1>5. \A n : Base(n) = 4 * (n - 1) + Cardinality(K(n)) - 1
  BY DEF Base, K
<1>6. ASSUME NEW n \in DOMAIN Calls PROVE Base(n) \in Nat
  <2>1. n \in Nat /\ n >= 1
    BY CallFacts
  <2>2. Cardinality(K(n)) >= 1 /\ Cardinality(K(n)) \in Nat
    BY <1>1, <1>3, <1>4, <2>1
  <2> QED BY <1>5, <2>1, <2>2
<1>7. Base(1) = 0
  BY <1>4, <1>5
<1>8. ASSUME NEW m \in DOMAIN Calls, NEW n \in DOMAIN Calls, m < n PROVE Least(n) >= Base(m) + 5
  <2>1. m \in Nat /\ n \in Nat /\ m >= 1 /\ n - 1 \in Nat /\ m <= n - 1 /\ (n - 1) + 1 = n
    BY <1>8, CallFacts
  <2>2. PICK a \in Nat, b \in Nat, c \in Nat :
           a = Cardinality(K(m)) /\ b = Cardinality(K(n - 1)) /\ c = Cardinality(K(n))
    BY <1>1, <2>1
  <2>3. a <= b /\ c = IF Notified(n) THEN b + 1 ELSE b
    BY <1>2, <1>3, <2>1, <2>2
  <2>4. Base(m) = 4 * (m - 1) + a - 1 /\ Base(n) = 4 * (n - 1) + c - 1
    BY <1>5, <2>2
  <2>5. Least(n) = IF Notified(n) THEN Base(n) ELSE Base(n) + 1
    BY DEF Least
  <2>6. PICK M \in Nat, N \in Nat : M = m /\ N = n
    BY <2>1
  <2>7. CASE Notified(n)
    BY <2>1, <2>3, <2>4, <2>5, <2>6, <2>7
  <2>8. CASE ~Notified(n)
    BY <2>1, <2>3, <2>4, <2>5, <2>6, <2>8
  <2> QED BY <2>7, <2>8
<1>9. ASSUME NEW n \in DOMAIN Calls, n < Len(Calls) PROVE Least(n + 1) = Base(n) + 5
  <2>1. n \in Nat
    BY CallFacts
  <2>2. PICK b \in Nat, c \in Nat : b = Cardinality(K(n)) /\ c = Cardinality(K(n + 1))
    BY <1>1, <2>1
  <2>3. c = IF Notified(n + 1) THEN b + 1 ELSE b
    BY <1>2, <2>1, <2>2
  <2> QED BY <1>5, <2>1, <2>2, <2>3 DEF Least
<1> QED BY <1>6, <1>7, <1>8, <1>9

(* A rank in a later call waits, at its beginning, for one that ends the   *)
(* call before.                                                            *)
LEMMA Lag ==
  ASSUME RhythmInv, NEW q \in Rank, NEW r \in Rank, call[q] < call[r]
  PROVE  stage[q] = "reduce" /\ stage[r] = "dispatch" /\ ~Met(r)
<1>1. PICK b \in Nat, c \in Nat : b = Base(call[q]) /\ c = Base(call[r])
  BY BaseFacts DEF RhythmInv, Placed
<1>2. Least(call[r]) >= b + 5 /\ (Least(call[r]) = c \/ Least(call[r]) = c + 1)
  BY <1>1, BaseFacts DEF RhythmInv, Placed, Least
<1>3. arrived[q] \in Nat /\ arrived[r] \in Nat /\ arrived[r] <= arrived[q] + 1
  BY DEF RhythmInv, Placed, InRhythm
<1>4. InPlace(q) /\ InPlace(r) /\ stage[q] \in Stages /\ stage[r] \in Stages
  BY DEF RhythmInv, Placed, InRhythm
<1>5. stage[q] # "done"
  <2>1. call[q] \in Nat /\ call[r] \in Nat /\ call[r] <= Len(Calls) /\ Len(Calls) \in Nat
    BY CallFacts DEF RhythmInv, Placed
  <2> QED BY <1>4, <2>1 DEF InPlace
<1>6. stage[q] = "dispatch" => arrived[q] = b \/ arrived[q] = b + 1
  BY <1>1, <1>4 DEF InPlace, Least
<1>7. arrived[q] <= b + 4 /\ (arrived[q] = b + 4 => stage[q] = "reduce")
  BY <1>1, <1>3, <1>4, <1>5, <1>6 DEF InPlace, Stages
<1>8. arrived[r] >= Least(call[r])
  BY <1>1, <1>2, <1>3, <1>4, SMTT(20) DEF InPlace, Stages
<1>9. arrived[q] = b + 4 /\ arrived[r] = b + 5 /\ arrived[r] = Least(call[r])
  BY <1>1, <1>2, <1>3, <1>7, <1>8
<1>10. ~Met(r)
  BY <1>1, <1>9 DEF Met
<1>11. stage[r] \notin {"send", "return", "thrown"}
  BY <1>10 DEF RhythmInv, InRhythm
<1>12. stage[r] # "gather"
  BY <1>1, <1>4, <1>9 DEF InPlace, Least
<1>13. stage[r] = "dispatch"
  BY <1>1, <1>2, <1>4, <1>9, <1>11, <1>12 DEF InPlace, Stages
<1> QED BY <1>7, <1>9, <1>10, <1>13

-----------------------------------------------------------------------------
(* Where all ranks are when one of them is past the barrier before its     *)
(* sends of a dispatch: nobody has begun the combine.                      *)
LEMMA PhaseSend ==
  ASSUME RhythmInv, NEW r \in Rank, Met(r),
         \/ stage[r] \in {"gather", "send"}
         \/ stage[r] = "dispatch" /\ ~Notified(call[r]),
         NEW q \in Rank
  PROVE  call[q] = call[r] /\ stage[q] \in {"dispatch", "gather", "send", "copy", "thrown"}
<1>1. PICK b \in Nat : b = Base(call[r])
  BY BaseFacts DEF RhythmInv, Placed
<1>2. /\ arrived[q] \in Nat /\ arrived[r] \in Nat /\ arrived[q] <= arrived[r] + 1
      /\ InPlace(q) /\ InPlace(r) /\ stage[q] \in Stages
      /\ call[q] \in DOMAIN Calls /\ call[r] \in DOMAIN Calls
  BY DEF RhythmInv, Placed, InRhythm
<1>3. call[q] \in Nat /\ call[r] \in Nat
  BY <1>2, CallFacts
<1>4. ~ (call[q] < call[r]) /\ ~ (call[r] < call[q])
  BY Lag
<1>5. call[q] = call[r]
  BY <1>3, <1>4
<1>6. arrived[r] = b + 1
  BY <1>1, <1>2 DEF InPlace, Least
<1>7. arrived[q] <= b + 2
  BY <1>2, <1>6
<1>8. stage[q] \notin {"combine", "return", "reduce", "done"}
  BY <1>1, <1>2, <1>5, <1>7 DEF InPlace
<1> QED BY <1>2, <1>5, <1>8 DEF Stages

(* Past the barrier after them: everybody has sent, nobody sends back.     *)
LEMMA PhaseCopy ==
  ASSUME RhythmInv, NEW r \in Rank, Met(r), stage[r] = "copy", NEW q \in Rank
  PROVE  call[q] = call[r] /\ stage[q] \in {"copy", "combine"}
<1>1. PICK b \in Nat : b = Base(call[r])
  BY BaseFacts DEF RhythmInv, Placed
<1>2. /\ arrived[q] \in Nat /\ arrived[r] \in Nat /\ arrived[q] <= arrived[r] + 1
      /\ InPlace(q) /\ InPlace(r) /\ stage[q] \in Stages
      /\ call[q] \in DOMAIN Calls /\ call[r] \in DOMAIN Calls
  BY DEF RhythmInv, Placed, InRhythm
<1>3. call[q] \in Nat /\ call[r] \in Nat
  BY <1>2, CallFacts
<1>4. ~ (call[q] < call[r]) /\ ~ (call[r] < call[q])
  BY Lag
<1>5. call[q] = call[r]
  BY <1>3, <1>4
<1>6. arrived[r] = b + 2
  BY <1>1, <1>2 DEF InPlace
<1>7. arrived[q] <= b + 3 /\ arrived[q] >= b + 2
  BY <1>2, <1>6 DEF Met
<1>8. stage[q] \notin {"dispatch", "gather", "send", "reduce", "done"}
  BY <1>1, <1>2, <1>5, <1>7 DEF InPlace, Least
<1>9. stage[q] \in {"return", "thrown"} => arrived[q] = b + 3 /\ Met(q)
  BY <1>1, <1>2, <1>5, <1>7 DEF InPlace, RhythmInv, InRhythm
<1>10. ~ (arrived[q] = b + 3 /\ Met(q))
  BY <1>1, <1>6 DEF Met
<1> QED BY <1>2, <1>5, <1>8, <1>9, <1>10 DEF Stages

(* Past the barrier before the combine: everybody has copied.              *)
LEMMA PhaseReturn ==
  ASSUME RhythmInv, NEW r \in Rank, Met(r), stage[r] \in {"combine", "return"}, NEW q \in Rank
  PROVE  call[q] = call[r] /\ stage[q] \in {"combine", "return", "reduce", "thrown"}
<1>1. PICK b \in Nat : b = Base(call[r])
  BY BaseFacts DEF RhythmInv, Placed
<1>2. /\ arrived[q] \in Nat /\ arrived[r] \in Nat /\ arrived[q] <= arrived[r] + 1
      /\ InPlace(q) /\ InPlace(r) /\ stage[q] \in Stages
      /\ call[q] \in DOMAIN Calls /\ call[r] \in DOMAIN Calls
  BY DEF RhythmInv, Placed, InRhythm
<1>3. call[q] \in Nat /\ call[r] \in Nat
  BY <1>2, CallFacts
<1>4. ~ (call[q] < call[r]) /\ ~ (call[r] < call[q])
  BY Lag
<1>5. call[q] = call[r]
  BY <1>3, <1>4
<1>6. arrived[r] = b + 3
  BY <1>1, <1>2 DEF InPlace
<1>7. arrived[q] <= b + 4 /\ arrived[q] >= b + 3
  BY <1>2, <1>6 DEF Met
<1>8. stage[q] \notin {"dispatch", "gather", "send", "copy", "done"}
  BY <1>1, <1>2, <1>5, <1>7 DEF InPlace, Least
<1> QED BY <1>2, <1>5, <1>8 DEF Stages

(* Who sends, and who passes a barrier, keeps the rhythm.                  *)
LEMMA RhythmKept ==
  ASSUME RhythmInv, NEW r \in Rank, Met(r), route' = route,
         NEW c \in DOMAIN Calls, call' = [call EXCEPT ![r] = c],
         NEW st \in Stages, stage' = [stage EXCEPT ![r] = st],
         NEW k \in {0, 1}, arrived' = [arrived EXCEPT ![r] = @ + k],
         InPlace(r)', st \in {"send", "return", "thrown"} => k = 0
  PROVE  RhythmInv'
<1> USE DEF RhythmInv, Placed
<1>1. /\ \A q \in Rank : stage'[q] = IF q = r THEN st ELSE stage[q]
      /\ \A q \in Rank : call'[q] = IF q = r THEN c ELSE call[q]
      /\ \A q \in Rank : arrived'[q] = IF q = r THEN arrived[r] + k ELSE arrived[q]
      /\ \A q \in Rank : arrived[q] \in Nat
  OBVIOUS
<1>2. Placed'
  BY DEF Placed
<1>3. ASSUME NEW q \in Rank PROVE InPlace(q)'
  <2>1. CASE q = r
    BY <2>1
  <2>2. CASE q # r
    <3>1. stage'[q] = stage[q] /\ call'[q] = call[q] /\ arrived'[q] = arrived[q]
      BY <1>1, <2>2
    <3>2. InPlace(q)
      BY DEF InRhythm
    <3> QED BY <3>1, <3>2 DEF InPlace
  <2> QED BY <2>1, <2>2
<1>4. ASSUME NEW p \in Rank, NEW q \in Rank PROVE arrived'[p] <= arrived'[q] + 1
  <2>1. arrived[p] <= arrived[q] + 1 /\ arrived[q] >= arrived[r]
    BY DEF InRhythm, Met
  <2> QED BY <1>1, <2>1
<1>5. ASSUME NEW q \in Rank, stage'[q] \in {"send", "return", "thrown"} PROVE Met(q)'
  <2> SUFFICES ASSUME NEW p \in Rank PROVE arrived'[p] >= arrived'[q]
    BY DEF Met
  <2>1. CASE q = r
    <3>1. arrived'[q] = arrived[r] /\ arrived[p] >= arrived[r]
      BY <1>1, <1>5, <2>1 DEF Met
    <3> QED BY <1>1, <3>1
  <2>2. CASE q # r
    <3>1. arrived[p] >= arrived[q] /\ arrived'[q] = arrived[q]
      BY <1>1, <1>5, <2>2 DEF InRhythm, Met
    <3> QED BY <1>1, <3>1
  <2> QED BY <2>1, <2>2
<1> QED BY <1>2, <1>3, <1>4, <1>5 DEF InRhythm

-----------------------------------------------------------------------------
(* Every rank sends a destination as many tokens as rank 0 does: the ranks *)
(* whose counts the alias cannot falsify.                                  *)
EqualShares ==
  \A way \in Routes : \A s, d \in Rank :
    Cardinality({t \in DOMAIN way[s] : d \in way[s][t]})
      = Cardinality({t \in DOMAIN way[0] : d \in way[0][t]})

(* What s has for d, and where it goes: in a dispatch behind the rows of   *)
(* the ranks before s, in a combine behind those that the ranks before e   *)
(* give back.                                                              *)
Due(s, d)  == {t \in TokensOf(s) : d \in route[s][t]}
Column(d)  == [s \in Rank |-> Counts[s][d]]
From(s, d) == SumFunctionOnSet(Column(d), 0 .. s - 1)
Back(e, s) == SumFunctionOnSet(Counts[s], 0 .. e - 1)
Fits       == \A d \in Rank : From(NumRanks, d) <= Capacity
Own(s, t)  == [by |-> s, of |-> <<s, t>>, idx |-> t]

(* A routing stands for finite sets of tokens, and its counts for them.    *)
LEMMA RouteFacts ==
  ASSUME route \in Routes
  PROVE  /\ \A r \in Rank : TokensOf(r) \subseteq Token /\ IsFiniteSet(TokensOf(r))
         /\ \A r \in Rank : \A t \in TokensOf(r) : route[r][t] \subseteq Rank
         /\ \A s, d \in Rank : IsFiniteSet(Due(s, d)) /\ Counts[s][d] = Cardinality(Due(s, d))
         /\ Counts \in [Rank -> [Rank -> 0 .. NumTokens]]
<1>0. NumTokens \in Nat
  BY ExchangeAssumption
<1>1. ASSUME NEW r \in Rank
      PROVE  /\ TokensOf(r) \subseteq Token /\ IsFiniteSet(TokensOf(r))
             /\ Cardinality(TokensOf(r)) <= NumTokens
             /\ \A t \in TokensOf(r) : route[r][t] \subseteq Rank
  <2>1. PICK n \in 0 .. NumTokens : route[r] \in [0 .. n - 1 -> SUBSET Rank]
    BY RoutesAssumption
  <2>2. TokensOf(r) = 0 .. n - 1 /\ n \in Nat /\ n <= NumTokens
    BY <1>0, <2>1 DEF TokensOf
  <2>3. IsFiniteSet(0 .. n - 1) /\ Cardinality(0 .. n - 1) = n
    <3>1. IsFiniteSet(0 .. n - 1) /\ Cardinality(0 .. n - 1) = IF 0 > n - 1 THEN 0 ELSE (n - 1) - 0 + 1
      BY <2>2, FS_Interval
    <3> QED BY <2>2, <3>1
  <2>4. 0 .. n - 1 \subseteq Token
    BY <1>0, <2>2 DEF Token
  <2> QED BY <2>1, <2>2, <2>3, <2>4
<1>2. ASSUME NEW s \in Rank, NEW d \in Rank
      PROVE  IsFiniteSet(Due(s, d)) /\ Cardinality(Due(s, d)) \in 0 .. NumTokens
  <2>1. Due(s, d) \in SUBSET TokensOf(s) /\ Cardinality(TokensOf(s)) \in Nat
    BY <1>1, FS_CardinalityType DEF Due
  <2>2. IsFiniteSet(Due(s, d)) /\ Cardinality(Due(s, d)) <= Cardinality(TokensOf(s))
    BY <1>1, <2>1, FS_Subset
  <2>3. Cardinality(Due(s, d)) \in Nat
    BY <2>2, FS_CardinalityType
  <2> QED BY <1>0, <1>1, <2>1, <2>2, <2>3
<1>3. \A s, d \in Rank : Counts[s][d] = Cardinality(Due(s, d))
  BY DEF Counts, Due
<1>4. Counts \in [Rank -> [Rank -> 0 .. NumTokens]]
  BY <1>2 DEF Counts, Due
<1> QED BY <1>1, <1>2, <1>3, <1>4

(* The rows of a rank have a place of their own in the region of another,  *)
(* in a dispatch and in a combine.                                         *)
LEMMA Places ==
  ASSUME route \in Routes
  PROVE  /\ \A n \in 0 .. NumRanks : \A d \in Rank : From(n, d) \in Nat /\ Back(n, d) \in Nat
         /\ \A d \in Rank : From(0, d) = 0
         /\ \A s, d \in Rank : /\ From(s + 1, d) = From(s, d) + Counts[s][d]
                               /\ Back(s + 1, d) = Back(s, d) + Counts[d][s]
         /\ \A m, n \in 0 .. NumRanks : \A d \in Rank : m <= n =>
              From(m, d) <= From(n, d) /\ Back(m, d) <= Back(n, d)
<1>1. \A s, d \in Rank : Counts[s][d] \in Nat
  BY RouteFacts, ExchangeAssumption
<1>2. NumRanks \in Nat /\ Rank = 0 .. NumRanks - 1
  BY NumRanksAssumption DEF Rank
<1>3. ASSUME NEW d \in Rank
      PROVE  /\ \A i \in 0 .. NumRanks - 1 : Column(d)[i] \in Nat
             /\ \A i \in 0 .. NumRanks - 1 : Counts[d][i] \in Nat
  BY <1>1, <1>2 DEF Column
<1>4. ASSUME NEW d \in Rank
      PROVE  /\ \A n \in 0 .. NumRanks : From(n, d) \in Nat /\ Back(n, d) \in Nat
             /\ From(0, d) = 0
             /\ \A m, n \in 0 .. NumRanks : m <= n =>
                  From(m, d) <= From(n, d) /\ Back(m, d) <= Back(n, d)
  BY <1>2, <1>3, SumBefore DEF From, Back
<1>5. ASSUME NEW d \in Rank, NEW s \in Rank
      PROVE  /\ From(s + 1, d) = From(s, d) + Counts[s][d]
             /\ Back(s + 1, d) = Back(s, d) + Counts[d][s]
  <2>1. (s + 1) - 1 = s /\ s \in 0 .. NumRanks - 1
    BY <1>2
  <2>2. /\ SumFunctionOnSet(Column(d), 0 .. s) = SumFunctionOnSet(Column(d), 0 .. s - 1) + Column(d)[s]
        /\ SumFunctionOnSet(Counts[d], 0 .. s) = SumFunctionOnSet(Counts[d], 0 .. s - 1) + Counts[d][s]
    BY <1>2, <1>3, <2>1, SumBefore
  <2> QED BY <2>1, <2>2 DEF From, Back, Column
<1> QED BY <1>4, <1>5

(* No two of these places overlap.                                         *)
LEMMA Apart ==
  ASSUME route \in Routes, NEW q \in Rank, NEW s \in Rank, NEW d \in Rank, q < s
  PROVE  /\ From(q, d) + Counts[q][d] <= From(s, d)
         /\ Back(q, d) + Counts[d][q] <= Back(s, d)
<1>1. q + 1 <= s /\ q + 1 \in 0 .. NumRanks /\ s \in 0 .. NumRanks
  BY NumRanksAssumption DEF Rank
<1>2. From(q + 1, d) <= From(s, d) /\ Back(q + 1, d) <= Back(s, d)
  BY <1>1, Places
<1> QED BY <1>2, Places

(* The matrix that the kernels use says the same.                          *)
LEMMA PrefixPlaces ==
  ASSUME route \in Routes, NEW s \in Rank, NEW d \in Rank
  PROVE  /\ PrefixMatrix(Counts)[<<s, d>>] = From(s + 1, d)
         /\ (IF s = 0 THEN 0 ELSE PrefixMatrix(Counts)[<<s - 1, d>>]) = From(s, d)
         /\ CountIn(PrefixMatrix(Counts), s, d) = Counts[s][d]
<1>1. \A q \in Rank : PrefixMatrix(Counts)[<<q, d>>] = From(q + 1, d)
  <2> SUFFICES ASSUME NEW q \in Rank PROVE PrefixMatrix(Counts)[<<q, d>>] = From(q + 1, d)
    OBVIOUS
  <2>1. <<q, d>> \in Cell /\ (q + 1) - 1 = q
    BY RankFacts
  <2>2. PrefixMatrix(Counts)[<<q, d>>] = SumFunctionOnSet([x \in Rank |-> Counts[x][d]], 0 .. q)
    BY <2>1 DEF PrefixMatrix
  <2> QED BY <2>1, <2>2 DEF From, Column
<1>2. (IF s = 0 THEN 0 ELSE PrefixMatrix(Counts)[<<s - 1, d>>]) = From(s, d)
  <2>1. CASE s = 0
    BY <2>1, Places
  <2>2. CASE s # 0
    <3>1. s - 1 \in Rank /\ (s - 1) + 1 = s
      BY <2>2, RankFacts
    <3> QED BY <1>1, <2>2, <3>1
  <2> QED BY <2>1, <2>2
<1>3. From(s + 1, d) = From(s, d) + Counts[s][d] /\ From(s, d) \in Nat /\ Counts[s][d] \in Nat
  <2>1. s \in 0 .. NumRanks
    BY NumRanksAssumption DEF Rank
  <2>2. Counts[s][d] \in Nat
    BY RouteFacts, ExchangeAssumption
  <2> QED BY <2>1, <2>2, Places
<1> QED BY <1>1, <1>2, <1>3 DEF CountIn

(* A step that keeps the routing keeps all of it.                          *)
LEMMA Fixed ==
  ASSUME route' = route
  PROVE  /\ Counts' = Counts
         /\ PrefixMatrix(Counts)' = PrefixMatrix(Counts)
         /\ \A r : TokensOf(r)' = TokensOf(r)
         /\ \A s, d : Due(s, d)' = Due(s, d) /\ From(s, d)' = From(s, d) /\ Back(s, d)' = Back(s, d)
         /\ Fits' = Fits
<1>1. Counts' = Counts
  BY DEF Counts, TokensOf
<1>2. PrefixMatrix(Counts)' = PrefixMatrix(Counts)
  BY <1>1 DEF PrefixMatrix
<1>3. \A r : TokensOf(r)' = TokensOf(r)
  BY DEF TokensOf
<1>4. \A d : Column(d)' = Column(d)
  BY <1>1 DEF Column
<1>5. \A s, d : Due(s, d)' = Due(s, d) /\ From(s, d)' = From(s, d) /\ Back(s, d)' = Back(s, d)
  BY <1>1, <1>4 DEF Due, From, Back, TokensOf
<1>6. Fits' = Fits
  BY <1>5 DEF Fits
<1> QED BY <1>1, <1>2, <1>3, <1>5, <1>6

(* Where all ranks send equally, a gather can only find what is sent.      *)
LEMMA GatherExact ==
  ASSUME EqualShares, route \in Routes, NEW r \in Rank, NEW m \in GatherOutcomes(Counts, r)
  PROVE  m = PrefixMatrix(Counts)
<1>1. ASSUME NEW s \in Rank, NEW d \in Rank PROVE Counts[s][d] = Counts[0][d]
  BY RankFacts DEF EqualShares, Counts, TokensOf
<1>2. PICK overwritten \in SUBSET Cell :
         m = PrefixMatrix([s \in Rank |-> [d \in Rank |->
                Counts[IF <<s, d>> \in overwritten THEN 0 ELSE s][d]]])
  BY DEF GatherOutcomes
<1>3. [s \in Rank |-> [d \in Rank |-> Counts[IF <<s, d>> \in overwritten THEN 0 ELSE s][d]]] = Counts
  <2>1. Counts \in [Rank -> [Rank -> 0 .. NumTokens]]
    BY RouteFacts
  <2>2. \A s, d \in Rank : Counts[IF <<s, d>> \in overwritten THEN 0 ELSE s][d] = Counts[s][d]
    BY <1>1
  <2>3. [s \in Rank |-> [d \in Rank |-> Counts[IF <<s, d>> \in overwritten THEN 0 ELSE s][d]]]
          = [s \in Rank |-> [d \in Rank |-> Counts[s][d]]]
    BY <2>2
  <2>4. [s \in Rank |-> [d \in Rank |-> Counts[s][d]]] = Counts
    BY <2>1
  <2> QED BY <2>3, <2>4
<1> QED BY <1>2, <1>3

-----------------------------------------------------------------------------
(* Every step of a stream keeps the rhythm of the barriers.                *)
LEMMA RhythmStep ==
  ASSUME AppBarrier, RhythmInv, NEW r \in Rank, RankStep(r)
  PROVE  RhythmInv'
<1>1. /\ call \in [Rank -> DOMAIN Calls] /\ stage \in [Rank -> Stages] /\ arrived \in [Rank -> Nat]
      /\ call[r] \in DOMAIN Calls /\ InPlace(r)
  BY DEF RhythmInv, Placed, InRhythm
<1>2. PICK b \in Nat : b = Base(call[r])
  BY <1>1, BaseFacts
<1>3. AppArrivals = 1
  BY DEF AppArrivals
<1>4. PICK a \in Nat : a = arrived[r]
  BY <1>1
<1>5. ASSUME call' = call PROVE call' = [call EXCEPT ![r] = call[r]] /\ call'[r] = call[r]
  BY <1>1, <1>5
<1>6. ASSUME arrived' = arrived PROVE arrived' = [arrived EXCEPT ![r] = @ + 0] /\ arrived'[r] = a
  BY <1>1, <1>4, <1>6
<1>7. ASSUME arrived' = [arrived EXCEPT ![r] = @ + 1] PROVE arrived'[r] = a + 1
  BY <1>1, <1>4, <1>7
<1>8. stage[r] \in {"send", "return"} => Met(r)
  BY DEF RhythmInv, InRhythm
<1>9. CASE Notify(r)
  <2>1. /\ stage' = [stage EXCEPT ![r] = "gather"] /\ stage'[r] = "gather"
        /\ Met(r) /\ route' = route /\ call' = call
        /\ arrived' = [arrived EXCEPT ![r] = @ + 1]
        /\ stage[r] = "dispatch" /\ Notified(call[r])
    BY <1>1, <1>9 DEF Notify, Notified
  <2>2. InPlace(r)'
    BY <1>1, <1>2, <1>4, <1>5, <1>7, <2>1 DEF InPlace, Least
  <2> QED BY <1>1, <1>5, <2>1, <2>2, RhythmKept DEF Stages
<1>10. CASE Gather(r) \/ StartCached(r)
  <2>1. PICK st \in {"send", "thrown"} : stage' = [stage EXCEPT ![r] = st]
    BY <1>10 DEF Gather, StartCached, LaunchSend
  <2>2. /\ stage'[r] = st /\ Met(r) /\ route' = route /\ call' = call /\ arrived' = arrived
        /\ stage[r] = "gather" \/ (stage[r] = "dispatch" /\ ~Notified(call[r]))
    BY <1>1, <1>10, <2>1, CallsAssumption DEF Gather, StartCached, Notified
  <2>3. a = b + 1
    BY <1>1, <1>2, <1>4, <2>2 DEF InPlace, Least
  <2>4. InPlace(r)'
    BY <1>1, <1>2, <1>5, <1>6, <2>1, <2>2, <2>3 DEF InPlace
  <2>5. /\ st \in Stages /\ Met(r) /\ route' = route
        /\ call' = [call EXCEPT ![r] = call[r]] /\ arrived' = [arrived EXCEPT ![r] = @ + 0]
    BY <1>5, <1>6, <2>1, <2>2 DEF Stages
  <2> QED BY <1>1, <2>1, <2>4, <2>5, RhythmKept
<1>11. CASE \E p \in todo[r] : DispatchSend(r, p) \/ CombineSend(r, p)
  <2>1. stage' = stage /\ route' = route /\ call' = call /\ arrived' = arrived
        /\ stage[r] \in {"send", "return"}
    BY <1>11 DEF DispatchSend, CombineSend, PutRow
  <2> QED BY <2>1 DEF RhythmInv, Placed, InRhythm, InPlace, Met
<1>12. CASE EnterBarrier(r)
  <2>1. PICK st \in {"copy", "reduce"} :
           /\ stage' = [stage EXCEPT ![r] = st]
           /\ st = IF stage[r] = "send" THEN "copy" ELSE "reduce"
    BY <1>1, <1>12 DEF EnterBarrier
  <2>2. /\ stage'[r] = st /\ Met(r) /\ route' = route /\ call' = call
        /\ arrived' = [arrived EXCEPT ![r] = @ + 1] /\ stage[r] \in {"send", "return"}
    BY <1>1, <1>8, <1>12, <2>1 DEF EnterBarrier
  <2>3. InPlace(r)'
    BY <1>1, <1>2, <1>4, <1>5, <1>7, <2>1, <2>2 DEF InPlace
  <2> QED BY <1>1, <1>5, <2>1, <2>2, <2>3, RhythmKept DEF Stages
<1>13. CASE CopyLocal(r)
  <2>1. /\ stage' = [stage EXCEPT ![r] = "combine"] /\ stage'[r] = "combine"
        /\ Met(r) /\ route' = route /\ call' = call
        /\ arrived' = [arrived EXCEPT ![r] = @ + 1]
        /\ stage[r] = "copy"
    BY <1>1, <1>3, <1>13 DEF CopyLocal
  <2>2. InPlace(r)'
    BY <1>1, <1>2, <1>4, <1>5, <1>7, <2>1 DEF InPlace
  <2> QED BY <1>1, <1>5, <2>1, <2>2, RhythmKept DEF Stages
<1>14. CASE StartCombine(r)
  <2>1. PICK st \in {"return", "thrown"} : stage' = [stage EXCEPT ![r] = st]
    BY <1>14 DEF StartCombine
  <2>2. /\ stage'[r] = st /\ Met(r) /\ route' = route /\ call' = call /\ arrived' = arrived
        /\ stage[r] = "combine"
    BY <1>1, <1>14, <2>1 DEF StartCombine
  <2>3. InPlace(r)'
    BY <1>1, <1>2, <1>4, <1>5, <1>6, <2>1, <2>2 DEF InPlace
  <2> QED BY <1>1, <1>5, <1>6, <2>1, <2>2, <2>3, RhythmKept DEF Stages
<1>15. CASE Reduce(r)
  <2> DEFINE st == IF call[r] < Len(Calls) THEN "dispatch" ELSE "done"
             c  == IF call[r] < Len(Calls) THEN call[r] + 1 ELSE call[r]
  <2>1. /\ stage' = [stage EXCEPT ![r] = st] /\ stage'[r] = st
        /\ call' = [call EXCEPT ![r] = c] /\ call'[r] = c
        /\ Met(r) /\ route' = route
        /\ arrived' = [arrived EXCEPT ![r] = @ + 1]
        /\ stage[r] = "reduce"
    BY <1>1, <1>3, <1>15 DEF Reduce
  <2>2. c \in DOMAIN Calls /\ st \in Stages
    BY <1>1, CallFacts DEF Stages
  <2>3. arrived'[r] = b + 5
    BY <1>1, <1>2, <1>4, <1>7, <2>1 DEF InPlace
  <2>4. InPlace(r)'
    <3>1. CASE call[r] < Len(Calls)
      <4>1. Least(call[r] + 1) = b + 5
        BY <1>1, <1>2, <3>1, BaseFacts
      <4> QED BY <2>1, <2>3, <3>1, <4>1 DEF InPlace
    <3>2. CASE ~ (call[r] < Len(Calls))
      <4>1. call[r] = Len(Calls)
        BY <1>1, <3>2, CallFacts
      <4> QED BY <1>2, <2>1, <2>3, <3>2, <4>1 DEF InPlace
    <3> QED BY <3>1, <3>2
  <2>5. st \notin {"send", "return", "thrown"}
    OBVIOUS
  <2> HIDE DEF st, c
  <2> QED BY <2>1, <2>2, <2>4, <2>5, RhythmKept
<1> QED BY <1>9, <1>10, <1>11, <1>12, <1>13, <1>14, <1>15 DEF RankStep
-----------------------------------------------------------------------------
(* The matrix is the routing's, and who is past the host's check has room. *)
HostInv ==
  /\ prefix \in [Rank -> [Cell -> Nat]]
  /\ \A r \in Rank : call[r] > 1 \/ stage[r] \notin {"dispatch", "gather"} =>
       prefix[r] = PrefixMatrix(Counts)
  /\ \A r \in Rank : stage[r] \in {"send", "copy"} => From(NumRanks, r) <= Capacity
  /\ \A r \in Rank : call[r] > 1 \/ stage[r] \in {"combine", "return", "reduce", "done"} => Fits

(* A prefix matrix holds numbers.                                          *)
LEMMA PrefixTyped ==
  ASSUME route \in Routes PROVE PrefixMatrix(Counts) \in [Cell -> Nat]
<1>1. \A s, d \in Rank : PrefixMatrix(Counts)[<<s, d>>] \in Nat
  <2> SUFFICES ASSUME NEW s \in Rank, NEW d \in Rank PROVE PrefixMatrix(Counts)[<<s, d>>] \in Nat
    OBVIOUS
  <2>1. s + 1 \in 0 .. NumRanks
    BY NumRanksAssumption DEF Rank
  <2> QED BY <2>1, Places, PrefixPlaces
<1>2. PrefixMatrix(Counts) = [c \in Cell |-> PrefixMatrix(Counts)[c]]
  BY DEF PrefixMatrix
<1>3. \A c \in Cell : PrefixMatrix(Counts)[c] \in Nat
  BY <1>1 DEF Cell
<1> QED BY <1>2, <1>3

(* What r receives in all. *)
LEMMA NumRecvIs ==
  ASSUME RhythmInv, HostInv, NEW r \in Rank,
         call[r] > 1 \/ stage[r] \notin {"dispatch", "gather"}
  PROVE  NumRecv(r) = From(NumRanks, r)
<1>1. prefix[r] = PrefixMatrix(Counts) /\ route \in Routes
  BY DEF HostInv, RhythmInv, Placed
<1>2. NumRanks - 1 \in Rank /\ (NumRanks - 1) + 1 = NumRanks
  BY RankFacts, NumRanksAssumption
<1>3. PrefixMatrix(Counts)[<<NumRanks - 1, r>>] = From((NumRanks - 1) + 1, r)
  BY <1>1, <1>2, PrefixPlaces
<1> QED BY <1>1, <1>2, <1>3 DEF NumRecv

(* A step of a stream keeps the matrices true, and the checks made.        *)
LEMMA HostStep ==
  ASSUME EqualShares, RhythmInv, HostInv, NEW r \in Rank, RankStep(r)
  PROVE  HostInv'
<1> USE DEF HostInv
<1>1. /\ call \in [Rank -> DOMAIN Calls] /\ stage \in [Rank -> Stages] /\ route \in Routes
      /\ call[r] \in DOMAIN Calls /\ call[r] \in Nat /\ call[r] >= 1
      /\ \A q \in Rank : call[q] \in Nat
  BY CallFacts DEF RhythmInv, Placed
<1>2. route' = route
  BY DEF RankStep, Notify, Gather, StartCached, DispatchSend, CombineSend, PutRow, EnterBarrier,
         CopyLocal, StartCombine, Reduce
<1>3. /\ PrefixMatrix(Counts)' = PrefixMatrix(Counts) /\ Fits' = Fits
      /\ \A q : From(NumRanks, q)' = From(NumRanks, q)
  BY <1>2, Fixed
<1>4. NumRanks - 1 \in Rank /\ (NumRanks - 1) + 1 = NumRanks
  BY RankFacts, NumRanksAssumption
<1>5. PrefixMatrix(Counts)[<<NumRanks - 1, r>>] = From(NumRanks, r)
  <2>1. PrefixMatrix(Counts)[<<NumRanks - 1, r>>] = From((NumRanks - 1) + 1, r)
    BY <1>1, <1>4, PrefixPlaces
  <2> QED BY <1>4, <2>1
<1>6. CASE Notify(r)
  BY <1>1, <1>3, <1>6 DEF Notify
<1>7. CASE Gather(r)
  <2>1. /\ prefix' = [prefix EXCEPT ![r] = PrefixMatrix(Counts)]
        /\ call' = call
        /\ \/ stage' = [stage EXCEPT ![r] = "thrown"]
           \/ stage' = [stage EXCEPT ![r] = "send"] /\ From(NumRanks, r) <= Capacity
    <3>1. PICK m \in GatherOutcomes(Counts, r) :
            /\ prefix' = [prefix EXCEPT ![r] = m]
            /\ \/ HostAccepts(m[<<NumRanks - 1, r>>]) /\ LaunchSend(r)
               \/ stage' = [stage EXCEPT ![r] = "thrown"]
      BY <1>7 DEF Gather
    <3>2. m = PrefixMatrix(Counts)
      BY <1>1, GatherExact
    <3>3. call' = call
      BY <1>7 DEF Gather
    <3> QED BY <1>5, <3>1, <3>2, <3>3 DEF HostAccepts, LaunchSend
  <2>2. \A q \in Rank : q # r => prefix'[q] = prefix[q] /\ stage'[q] = stage[q]
    BY <1>1, <2>1
  <2>3. prefix'[r] = PrefixMatrix(Counts) /\ stage'[r] \in {"thrown", "send"}
        /\ (stage'[r] = "send" => From(NumRanks, r) <= Capacity)
    BY <1>1, <2>1
  <2>4. prefix' \in [Rank -> [Cell -> Nat]]
    BY <1>1, <2>1, PrefixTyped
  <2> QED BY <1>1, <1>3, <2>1, <2>2, <2>3, <2>4
<1>8. CASE StartCached(r)
  <2>1. call[r] > 1
    BY <1>1, <1>8, CallFacts DEF StartCached, Notified
  <2>2. From(NumRanks, r) <= Capacity
    BY <2>1 DEF Fits
  <2>3. prefix' = prefix /\ call' = call
        /\ \A q \in Rank : stage'[q] = IF q = r THEN stage'[r] ELSE stage[q]
    BY <1>1, <1>8 DEF StartCached, LaunchSend
  <2>4. stage'[r] \in {"thrown", "send"}
    BY <1>1, <1>8 DEF StartCached, LaunchSend
  <2> QED BY <1>1, <1>3, <2>1, <2>2, <2>3, <2>4
<1>9. CASE \E p \in todo[r] : DispatchSend(r, p) \/ CombineSend(r, p)
  <2>1. prefix' = prefix /\ call' = call /\ stage' = stage
    BY <1>9 DEF DispatchSend, CombineSend, PutRow
  <2> QED BY <1>3, <2>1
<1>10. CASE EnterBarrier(r)
  <2>1. /\ prefix' = prefix /\ call' = call
        /\ \A q \in Rank : stage'[q] = IF q # r THEN stage[q]
                                       ELSE IF stage[r] = "send" THEN "copy" ELSE "reduce"
        /\ stage[r] \in {"send", "return"}
    BY <1>1, <1>10 DEF EnterBarrier
  <2> QED BY <1>1, <1>3, <2>1
<1>11. CASE CopyLocal(r)
  <2>1. /\ prefix' = prefix /\ call' = call
        /\ \A q \in Rank : stage'[q] = IF q = r THEN "combine" ELSE stage[q]
        /\ stage[r] = "copy" /\ Met(r)
    BY <1>1, <1>11 DEF CopyLocal
  <2>2. Fits
    <3> SUFFICES ASSUME NEW q \in Rank PROVE From(NumRanks, q) <= Capacity
      BY DEF Fits
    <3>1. stage[q] \in {"copy", "combine"}
      BY <2>1, PhaseCopy
    <3> QED BY <3>1 DEF Fits
  <2> QED BY <1>1, <1>3, <2>1, <2>2
<1>12. CASE StartCombine(r)
  <2>1. prefix' = prefix /\ call' = call /\ stage[r] = "combine"
        /\ \A q \in Rank : stage'[q] = IF q = r THEN stage'[r] ELSE stage[q]
    BY <1>1, <1>12 DEF StartCombine
  <2>2. stage'[r] \in {"return", "thrown"}
    BY <1>1, <1>12 DEF StartCombine
  <2> QED BY <1>1, <1>3, <2>1, <2>2
<1>13. CASE Reduce(r)
  <2>1. prefix' = prefix /\ stage[r] = "reduce"
        /\ \A q \in Rank : q # r => stage'[q] = stage[q] /\ call'[q] = call[q]
    BY <1>1, <1>13 DEF Reduce
  <2>2. stage'[r] \in {"dispatch", "done"}
    BY <1>1, <1>13 DEF Reduce
  <2> QED BY <1>1, <1>3, <2>1, <2>2
<1> QED BY <1>6, <1>7, <1>8, <1>9, <1>10, <1>11, <1>12, <1>13 DEF RankStep

-----------------------------------------------------------------------------
(* What the threads of r's send kernel have to do, and what they have left *)
(* for d.                                                                  *)
ToSend(r)   == {p \in TokensOf(r) \X Rank : p[2] \in route[r][p[1]]}
ToReturn(r) == {<<i, SourceOf(r, i)>> : i \in 0 .. From(NumRanks, r) - 1}
For(T, d)   == {p \in T : p[2] = d}
Left(r, d)  == For(todo[r], d)

(* A send kernel has, for each rank, no more to do than the rows it has    *)
(* for it; when all regions are large enough, it drops none.               *)
Work(r) ==
  /\ IsFiniteSet(todo[r])
  /\ stage[r] \notin {"send", "return"} => todo[r] = {}
  /\ stage[r] = "send" => \A p \in todo[r] : p[1] \in Due(r, p[2])
  /\ stage[r] = "return" =>
       \A p \in todo[r] : p[1] \in 0 .. From(NumRanks, r) - 1 /\ p[2] = SourceOf(r, p[1])
  /\ stage[r] = "send" =>
       \A d \in Rank : head[r][d] + Cardinality(Left(r, d)) <= Counts[r][d]
  /\ stage[r] = "return" =>
       \A d \in Rank : head[r][d] + Cardinality(Left(r, d)) <= Counts[d][r]
  /\ Fits /\ stage[r] \in {"send", "copy", "combine"} =>
       \A d \in Rank : head[r][d] + Cardinality(Left(r, d)) = Counts[r][d]

WorkInv ==
  /\ head \in [Rank -> [Rank -> 0 .. NumTokens]]
  /\ todo \in [Rank -> SUBSET (Nat \X Rank)]
  /\ \A r \in Rank : Work(r)

(* The slots that the send kernels count from are the places.              *)
LEMMA BaseIs ==
  ASSUME RhythmInv, HostInv, NEW r \in Rank, NEW d \in Rank
  PROVE  /\ stage[r] = "send" => DispatchBase(r, d) = From(r, d)
         /\ stage[r] = "return" => CombineBase(r, d) = Back(r, d)
<1>1. route \in Routes /\ (stage[r] \in {"send", "return"} => prefix[r] = PrefixMatrix(Counts))
  BY DEF RhythmInv, Placed, HostInv
<1>2. ASSUME stage[r] = "send" PROVE DispatchBase(r, d) = From(r, d)
  BY <1>1, <1>2, PrefixPlaces, ZenonT(60) DEF DispatchBase
<1>3. ASSUME stage[r] = "return" PROVE CombineBase(r, d) = Back(r, d)
  <2>0. \A x \in Rank : CountIn(PrefixMatrix(Counts), d, x) = Counts[d][x]
    BY <1>1, PrefixPlaces
  <2>1. \A x \in Rank : CountIn(prefix[r], d, x) = Counts[d][x]
    BY <1>1, <1>3, <2>0
  <2>2. Counts[d] \in [Rank -> 0 .. NumTokens]
    BY <1>1, RouteFacts
  <2>3. [x \in Rank |-> CountIn(prefix[r], d, x)] = [x \in Rank |-> Counts[d][x]]
    BY <2>1
  <2>4. [x \in Rank |-> Counts[d][x]] = Counts[d]
    BY <2>2
  <2> QED BY <2>3, <2>4 DEF CombineBase, Back
<1> QED BY <1>2, <1>3

(* Where in a list of all rows a slot belongs.                             *)
LEMMA OwnerOf ==
  ASSUME route \in Routes, NEW r \in Rank, NEW i \in 0 .. From(NumRanks, r) - 1
  PROVE  \E s \in Rank : i \in From(s, r) .. From(s + 1, r) - 1
<1> DEFINE S == {s \in Rank : i < From(s + 1, r)}
<1>1. NumRanks - 1 \in Rank /\ (NumRanks - 1) + 1 = NumRanks /\ Rank \subseteq Nat
  BY RankFacts, NumRanksAssumption
<1>2. \A s \in Rank : From(s, r) \in Nat /\ From(s + 1, r) \in Nat
  <2>1. \A s \in Rank : s \in 0 .. NumRanks /\ s + 1 \in 0 .. NumRanks
    BY NumRanksAssumption DEF Rank
  <2> QED BY <2>1, Places
<1>3. From(NumRanks, r) \in Nat /\ i \in Nat
  <2>1. NumRanks \in 0 .. NumRanks
    BY NumRanksAssumption
  <2>2. From(NumRanks, r) \in Nat
    BY <2>1, Places
  <2> QED BY <2>2
<1>4. NumRanks - 1 \in S
  BY <1>1, <1>3
<1>5. PICK m \in S : \A q \in S : ~ (<<q, m>> \in OpToRel(<, Nat))
  <2>1. S \in SUBSET Nat /\ S # {}
    BY <1>1, <1>4
  <2> HIDE DEF S
  <2> QED BY <2>1, NatLessThanWellFounded, WFMin
<1>6. \A q \in S : ~ (q < m)
  BY <1>1, <1>5 DEF OpToRel
<1>7. i >= From(m, r)
  <2>1. CASE m = 0
    <3>1. From(0, r) = 0
      BY Places
    <3> QED BY <1>3, <2>1, <3>1
  <2>2. CASE m # 0
    <3>1. m - 1 \in Rank /\ m - 1 < m /\ (m - 1) + 1 = m
      BY <1>1, <2>2, NumRanksAssumption DEF Rank
    <3>2. m - 1 \notin S
      BY <1>6, <3>1
    <3>3. ~ (i < From(m, r))
      BY <3>1, <3>2
    <3> QED BY <1>2, <1>3, <3>3
  <2> QED BY <2>1, <2>2
<1>8. m \in Rank /\ i < From(m + 1, r)
  OBVIOUS
<1> HIDE DEF S
<1>9. i \in From(m, r) .. From(m + 1, r) - 1
  BY <1>2, <1>3, <1>7, <1>8
<1> QED BY <1>8, <1>9

(* combine_send's search finds the rank whose rows i is among.             *)
LEMMA SourceIs ==
  ASSUME route \in Routes, NEW r \in Rank, prefix[r] = PrefixMatrix(Counts),
         NEW i \in 0 .. From(NumRanks, r) - 1
  PROVE  /\ SourceOf(r, i) \in Rank
         /\ i >= From(SourceOf(r, i), r)
         /\ i < From(SourceOf(r, i), r) + Counts[SourceOf(r, i)][r]
<1>1. PICK m \in Rank : i \in From(m, r) .. From(m + 1, r) - 1
  BY OwnerOf
<1>2. \A s \in Rank : From(s, r) \in Nat /\ From(s + 1, r) \in Nat
  <2>1. \A s \in Rank : s \in 0 .. NumRanks /\ s + 1 \in 0 .. NumRanks
    BY NumRanksAssumption DEF Rank
  <2> QED BY <2>1, Places
<1>3. From(NumRanks, r) \in Nat /\ i \in Nat
  <2>1. NumRanks \in 0 .. NumRanks
    BY NumRanksAssumption
  <2>2. From(NumRanks, r) \in Nat
    BY <2>1, Places
  <2> QED BY <2>2
<1>4. \A s \in Rank : prefix[r][<<s, r>>] = From(s + 1, r)
  BY PrefixPlaces, ZenonT(60)
<1>5. \E s \in Rank : /\ i < prefix[r][<<s, r>>]
                      /\ \A q \in 0 .. s - 1 : i >= prefix[r][<<q, r>>]
  <2>1. i < prefix[r][<<m, r>>]
    BY <1>1, <1>2, <1>4
  <2>2. ASSUME NEW q \in 0 .. m - 1 PROVE i >= prefix[r][<<q, r>>]
    <3>1. q \in Rank /\ q + 1 \in 0 .. NumRanks /\ m \in 0 .. NumRanks /\ q + 1 <= m
      BY NumRanksAssumption DEF Rank
    <3>2. From(q + 1, r) <= From(m, r) /\ From(q + 1, r) \in Nat /\ From(m, r) \in Nat
      BY <3>1, Places
    <3> QED BY <1>1, <1>4, <3>1, <3>2
  <2> QED BY <2>1, <2>2
<1>6. PICK t : t = SourceOf(r, i)
  OBVIOUS
<1>7. /\ t \in Rank /\ i < prefix[r][<<t, r>>]
       /\ \A q \in 0 .. t - 1 : i >= prefix[r][<<q, r>>]
  BY <1>5, <1>6 DEF SourceOf
<1>8. i < From(t, r) + Counts[t][r]
  <2>1. From(t + 1, r) = From(t, r) + Counts[t][r]
    BY <1>7, Places
  <2> QED BY <1>4, <1>7, <2>1
<1>9. i >= From(t, r)
  <2>1. CASE t = 0
    <3>1. From(0, r) = 0
      BY Places
    <3> QED BY <1>3, <2>1, <3>1
  <2>2. CASE t # 0
    <3>1. t - 1 \in Rank /\ t - 1 \in 0 .. t - 1 /\ (t - 1) + 1 = t
      BY <1>7, <2>2, NumRanksAssumption DEF Rank
    <3>2. i >= prefix[r][<<t - 1, r>>]
      BY <1>7, <3>1
    <3> QED BY <1>4, <3>1, <3>2
  <2> QED BY <2>1, <2>2
<1> QED BY <1>6, <1>7, <1>8, <1>9

(* Taking one from what is left.                                           *)
LEMMA LeftLess ==
  ASSUME NEW T, IsFiniteSet(T), NEW p \in T, NEW U \in SUBSET (T \ {p}), NEW d
  PROVE  /\ IsFiniteSet(U)
         /\ Cardinality(For(U, d)) \in Nat
         /\ Cardinality(For(T, d)) \in Nat
         /\ d # p[2] => Cardinality(For(U, d)) <= Cardinality(For(T, d))
         /\ d = p[2] => Cardinality(For(U, d)) + 1 <= Cardinality(For(T, d))
         /\ d = p[2] /\ U = T \ {p} =>
              Cardinality(For(U, d)) + 1 = Cardinality(For(T, d))
         /\ d # p[2] /\ U = T \ {p} =>
              Cardinality(For(U, d)) = Cardinality(For(T, d))
<1> DEFINE A == {q \in U : q[2] = d}
           B == {q \in T : q[2] = d}
<1>1. IsFiniteSet(U) /\ IsFiniteSet(B) /\ A \in SUBSET B
  <2>1. U \in SUBSET T /\ B \in SUBSET T /\ A \in SUBSET B
    OBVIOUS
  <2> HIDE DEF A, B
  <2> QED BY <2>1, FS_Subset
<1>2. IsFiniteSet(A) /\ Cardinality(A) <= Cardinality(B) /\ Cardinality(A) \in Nat /\ Cardinality(B) \in Nat
  <2> HIDE DEF A, B
  <2> QED BY <1>1, FS_Subset, FS_CardinalityType
<1>3. ASSUME d = p[2]
      PROVE  /\ Cardinality(A) + 1 <= Cardinality(B)
             /\ U = T \ {p} => Cardinality(A) + 1 = Cardinality(B)
  <2>1. A \in SUBSET (B \ {p}) /\ p \in B
    BY <1>3
  <2>2. U = T \ {p} => A = B \ {p}
    OBVIOUS
  <2> HIDE DEF A, B
  <2>3. IsFiniteSet(B \ {p}) /\ Cardinality(B \ {p}) = Cardinality(B) - 1
    BY <1>1, <2>1, FS_RemoveElement
  <2>4. Cardinality(A) <= Cardinality(B \ {p})
    BY <2>1, <2>3, FS_Subset
  <2>5. PICK a \in Nat, b \in Nat, c \in Nat :
           a = Cardinality(A) /\ b = Cardinality(B) /\ c = Cardinality(B \ {p})
    BY <1>2, <2>3, FS_CardinalityType
  <2>6. c = b - 1 /\ a <= c /\ (U = T \ {p} => a = c)
    BY <2>2, <2>3, <2>4, <2>5
  <2>7. a + 1 <= b /\ (U = T \ {p} => a + 1 = b)
    BY <2>6
  <2> QED BY <2>5, <2>7
<1>4. d # p[2] /\ U = T \ {p} => A = B
  OBVIOUS
<1> QED BY <1>1, <1>2, <1>3, <1>4 DEF For

(* What dispatch_send begins with.                                         *)
LEMMA LaunchLeft ==
  ASSUME route \in Routes, NEW r \in Rank
  PROVE  /\ IsFiniteSet(ToSend(r)) /\ ToSend(r) \in SUBSET (Nat \X Rank)
         /\ \A p \in ToSend(r) : p[1] \in Due(r, p[2])
         /\ \A d \in Rank : \A t \in Due(r, d) : <<t, d>> \in ToSend(r)
         /\ \A d \in Rank : Cardinality(For(ToSend(r), d)) = Counts[r][d]
<1> DEFINE T == {p \in TokensOf(r) \X Rank : p[2] \in route[r][p[1]]}
<1>1. TokensOf(r) \subseteq Nat /\ IsFiniteSet(TokensOf(r)) /\ IsFiniteSet(Rank)
  BY RouteFacts, RankFacts DEF Token
<1>2. IsFiniteSet(T)
  <2>1. IsFiniteSet(TokensOf(r) \X Rank)
    BY <1>1, FS_Product
  <2>2. T \in SUBSET (TokensOf(r) \X Rank)
    OBVIOUS
  <2> QED BY <2>1, <2>2, FS_Subset
<1>3. \A d \in Rank : \A t \in Due(r, d) : <<t, d>> \in T
  BY DEF Due
<1>4. ASSUME NEW d \in Rank PROVE Cardinality({p \in T : p[2] = d}) = Counts[r][d]
  <2> DEFINE L == {p \in T : p[2] = d}
             f == [t \in Due(r, d) |-> <<t, d>>]
  <2>1. f \in [Due(r, d) -> L]
    BY <1>3
  <2>2. \A x, y \in Due(r, d) : f[x] = f[y] => x = y
    OBVIOUS
  <2>3. \A p \in L : p[1] \in Due(r, d) /\ f[p[1]] = p
    BY DEF Due
  <2>4. f \in Bijection(Due(r, d), L)
    BY <2>1, <2>2, <2>3 DEF Bijection, Injection, Surjection, IsInjective
  <2>5. ExistsBijection(Due(r, d), L)
    BY <2>4 DEF ExistsBijection
  <2>6. IsFiniteSet(Due(r, d)) /\ Counts[r][d] = Cardinality(Due(r, d))
    BY RouteFacts
  <2> HIDE DEF L
  <2>7. Cardinality(L) = Cardinality(Due(r, d))
    BY <2>5, <2>6, FS_Bijection
  <2> QED BY <2>6, <2>7 DEF L
<1>5. \A p \in T : p[1] \in Due(r, p[2])
  BY DEF Due
<1>6. T \in SUBSET (Nat \X Rank)
  BY <1>1
<1> QED BY <1>2, <1>3, <1>4, <1>5, <1>6 DEF ToSend, For

(* What combine_send begins with: for each rank, the rows it gave.         *)
LEMMA ReturnLeft ==
  ASSUME route \in Routes, NEW r \in Rank, prefix[r] = PrefixMatrix(Counts)
  PROVE  /\ IsFiniteSet(ToReturn(r)) /\ ToReturn(r) \in SUBSET (Nat \X Rank)
         /\ \A p \in ToReturn(r) : p[1] \in 0 .. From(NumRanks, r) - 1 /\ p[2] = SourceOf(r, p[1])
         /\ \A d \in Rank : /\ Cardinality(For(ToReturn(r), d)) \in Nat
                            /\ Cardinality(For(ToReturn(r), d)) <= Counts[d][r]
<1> DEFINE T == {<<i, SourceOf(r, i)>> : i \in 0 .. From(NumRanks, r) - 1}
           I == 0 .. From(NumRanks, r) - 1
<1>1. From(NumRanks, r) \in Nat
  <2>1. NumRanks \in 0 .. NumRanks
    BY NumRanksAssumption
  <2> QED BY <2>1, Places
<1>2. \A p \in T : p[1] \in I /\ p[2] = SourceOf(r, p[1]) /\ p = <<p[1], p[2]>>
  OBVIOUS
<1>3. T \in SUBSET (Nat \X Rank)
  BY <1>1, <1>2, SourceIs
<1>4. IsFiniteSet(T)
  <2> DEFINE f == [i \in I |-> <<i, SourceOf(r, i)>>]
  <2>1. f \in Surjection(I, T)
    BY DEF Surjection
  <2>2. IsFiniteSet(I)
    BY <1>1, FS_Interval
  <2> HIDE DEF f, I
  <2> QED BY <2>1, <2>2, FS_Surjection
<1>5. ASSUME NEW d \in Rank
      PROVE  /\ Cardinality({p \in T : p[2] = d}) \in Nat
             /\ Cardinality({p \in T : p[2] = d}) <= Counts[d][r]
  <2> DEFINE L == {p \in T : p[2] = d}
             g == [p \in L |-> p[1]]
             J == From(d, r) .. From(d, r) + Counts[d][r] - 1
  <2>1. From(d, r) \in Nat /\ Counts[d][r] \in Nat
    <3>1. d \in 0 .. NumRanks
      BY NumRanksAssumption DEF Rank
    <3>2. Counts[d][r] \in Nat
      BY RouteFacts, ExchangeAssumption
    <3> QED BY <3>1, <3>2, Places
  <2>2. \A p \in L : p[1] \in J
    BY <1>1, <1>2, <2>1, SourceIs
  <2>3. \A p, q \in L : p[1] = q[1] => p = q
    BY <1>2
  <2>4. g \in Injection(L, J)
    BY <2>2, <2>3 DEF Injection, IsInjective
  <2>5. IsFiniteSet(J) /\ Cardinality(J) = Counts[d][r]
    <3>1. /\ IsFiniteSet(From(d, r) .. (From(d, r) + Counts[d][r] - 1))
          /\ Cardinality(From(d, r) .. (From(d, r) + Counts[d][r] - 1))
               = IF From(d, r) > From(d, r) + Counts[d][r] - 1 THEN 0
                 ELSE (From(d, r) + Counts[d][r] - 1) - From(d, r) + 1
      <4>1. From(d, r) \in Int /\ From(d, r) + Counts[d][r] - 1 \in Int
        BY <2>1
      <4> QED BY <4>1, FS_Interval
    <3> QED BY <2>1, <3>1
  <2> HIDE DEF g, L, J
  <2>6. IsFiniteSet(L) /\ Cardinality(L) <= Cardinality(J)
    BY <2>4, <2>5, FS_Injection
  <2>7. Cardinality(L) \in Nat
    BY <2>6, FS_CardinalityType
  <2> QED BY <2>5, <2>6, <2>7 DEF L
<1> QED BY <1>2, <1>3, <1>4, <1>5 DEF ToReturn, For

-----------------------------------------------------------------------------
(* Where r's rows for d begin, and what its thread p puts.                 *)
Lo(r, d) == IF stage[r] = "send" THEN From(r, d) ELSE Back(r, d)
RowOf(r, p) == IF stage[r] = "send" THEN Own(r, p[1])
               ELSE [by |-> r, of |-> recv[r][p[1]].of, idx |-> recv[r][p[1]].idx]
Share(r, d) == IF stage[r] = "send" THEN Counts[r][d] ELSE Counts[d][r]

(* A thread of either send kernel.                                         *)
LEMMA SendFacts ==
  ASSUME RhythmInv, HostInv, WorkInv, NEW r \in Rank, NEW p \in todo[r],
         DispatchSend(r, p) \/ CombineSend(r, p)
  PROVE  /\ stage[r] \in {"send", "return"} /\ p[2] \in Rank /\ p[1] \in Nat
         /\ UNCHANGED <<route, call, stage, arrived, prefix, mem, recv, out>>
         /\ head' = [head EXCEPT ![r][p[2]] = @ + 1]
         /\ head[r][p[2]] \in Nat /\ Share(r, p[2]) \in Nat /\ head[r][p[2]] < Share(r, p[2])
         /\ Lo(r, p[2]) \in Nat
         /\ \E U \in SUBSET (todo[r] \ {p}) :
              /\ todo' = [todo EXCEPT ![r] = U]
              /\ \/ /\ U = todo[r] \ {p}
                    /\ Lo(r, p[2]) + head[r][p[2]] < Capacity
                    /\ wire' = wire \cup {[from |-> r, to |-> p[2],
                                           slot |-> Lo(r, p[2]) + head[r][p[2]],
                                           row |-> RowOf(r, p)]}
                 \/ /\ wire' = wire
                    /\ ~ (Lo(r, p[2]) + head[r][p[2]] < Capacity)
<1>1. p \in Nat \X Rank /\ p[2] \in Rank /\ p[1] \in Nat
  BY DEF WorkInv
<1>2. /\ stage[r] \in {"send", "return"}
      /\ PutRow(r, p, Lo(r, p[2]), RowOf(r, p))
  <2>1. CASE DispatchSend(r, p)
    <3>1. stage[r] = "send"
      BY <2>1 DEF DispatchSend
    <3>2. DispatchBase(r, p[2]) = Lo(r, p[2]) /\ RowOf(r, p) = [by |-> r, of |-> <<r, p[1]>>, idx |-> p[1]]
      BY <1>1, <3>1, BaseIs DEF Lo, RowOf, Own
    <3> QED BY <2>1, <3>1, <3>2 DEF DispatchSend
  <2>2. CASE CombineSend(r, p)
    <3>1. stage[r] = "return"
      BY <2>2 DEF CombineSend
    <3>2. CombineBase(r, p[2]) = Lo(r, p[2])
      BY <1>1, <3>1, BaseIs DEF Lo
    <3>3. RowOf(r, p) = [by |-> r, of |-> recv[r][p[1]].of, idx |-> recv[r][p[1]].idx]
      BY <3>1 DEF RowOf
    <3> QED BY <2>2, <3>1, <3>2, <3>3 DEF CombineSend
  <2> QED BY <2>1, <2>2
<1>3. /\ head[r][p[2]] \in Nat /\ Share(r, p[2]) \in Nat /\ head[r][p[2]] < Share(r, p[2])
  <2>1. /\ head[r][p[2]] \in Nat /\ Counts[r][p[2]] \in Nat /\ Counts[p[2]][r] \in Nat
    BY <1>1, RouteFacts, ExchangeAssumption DEF WorkInv, RhythmInv, Placed
  <2>2. IsFiniteSet(todo[r]) /\ head[r][p[2]] + Cardinality(Left(r, p[2])) <= Share(r, p[2])
    BY <1>1, <1>2 DEF WorkInv, Work, Share
  <2>3. Cardinality(Left(r, p[2])) \in Nat /\ Cardinality(Left(r, p[2])) >= 1
    <3>1. /\ Cardinality(For({}, p[2])) \in Nat
          /\ Cardinality(For(todo[r], p[2])) \in Nat
          /\ Cardinality(For({}, p[2])) + 1 <= Cardinality(For(todo[r], p[2]))
      <4>1. {} \in SUBSET (todo[r] \ {p})
        OBVIOUS
      <4> QED BY <2>2, <4>1, LeftLess
    <3> QED BY <3>1 DEF Left
  <2> QED BY <2>1, <2>2, <2>3 DEF Share
<1>4. Lo(r, p[2]) \in Nat
  <2>1. r \in 0 .. NumRanks
    BY NumRanksAssumption DEF Rank
  <2> QED BY <1>1, <2>1, Places DEF Lo, RhythmInv, Placed
<1>5. head' = [head EXCEPT ![r][p[2]] = @ + 1]
      /\ UNCHANGED <<route, call, stage, arrived, prefix, mem, recv, out>>
  BY <1>2 DEF PutRow
<1>6. \E U \in SUBSET (todo[r] \ {p}) :
        /\ todo' = [todo EXCEPT ![r] = U]
        /\ \/ /\ U = todo[r] \ {p}
              /\ Lo(r, p[2]) + head[r][p[2]] < Capacity
              /\ wire' = wire \cup {[from |-> r, to |-> p[2],
                                     slot |-> Lo(r, p[2]) + head[r][p[2]],
                                     row |-> RowOf(r, p)]}
           \/ /\ wire' = wire
              /\ ~ (Lo(r, p[2]) + head[r][p[2]] < Capacity)
  <2> DEFINE slot == Lo(r, p[2]) + head[r][p[2]]
  <2>0. slot \in Nat /\ Capacity \in Nat
    BY <1>3, <1>4, ExchangeAssumption
  <2>1. \/ /\ slot < Capacity
           /\ wire' = wire \cup {[from |-> r, to |-> p[2], slot |-> slot, row |-> RowOf(r, p)]}
           /\ todo' = [todo EXCEPT ![r] = @ \ {p}]
        \/ /\ slot >= Capacity
           /\ todo' = [todo EXCEPT ![r] = {q \in @ : q[1] # p[1]}]
           /\ wire' = wire
    BY <1>2 DEF PutRow
  <2> HIDE DEF slot
  <2>2. CASE /\ slot < Capacity
             /\ wire' = wire \cup {[from |-> r, to |-> p[2], slot |-> slot, row |-> RowOf(r, p)]}
             /\ todo' = [todo EXCEPT ![r] = @ \ {p}]
    <3> WITNESS todo[r] \ {p} \in SUBSET (todo[r] \ {p})
    <3> QED BY <2>2 DEF slot
  <2>3. CASE /\ slot >= Capacity
             /\ todo' = [todo EXCEPT ![r] = {q \in @ : q[1] # p[1]}]
             /\ wire' = wire
    <3>1. {q \in todo[r] : q[1] # p[1]} \in SUBSET (todo[r] \ {p})
      OBVIOUS
    <3>2. ~ (slot < Capacity)
      BY <2>0, <2>3
    <3> QED BY <2>3, <3>1, <3>2 DEF slot
  <2> QED BY <2>1, <2>2, <2>3
<1> QED BY <1>1, <1>2, <1>3, <1>4, <1>5, <1>6

(* When all regions are large enough, a dispatch finds room for each row.  *)
LEMMA RoomToSend ==
  ASSUME RhythmInv, WorkInv, NEW r \in Rank, stage[r] = "send", NEW d \in Rank,
         From(NumRanks, d) <= Capacity, head[r][d] < Counts[r][d]
  PROVE  Lo(r, d) + head[r][d] < Capacity
<1>1. route \in Routes /\ r + 1 \in 0 .. NumRanks /\ NumRanks \in 0 .. NumRanks /\ r + 1 <= NumRanks
      /\ r \in 0 .. NumRanks
  BY NumRanksAssumption DEF RhythmInv, Placed, Rank
<1>2. From(r + 1, d) <= From(NumRanks, d) /\ From(r + 1, d) = From(r, d) + Counts[r][d]
  BY <1>1, Places
<1>3. PICK f \in Nat, h \in Nat, c \in Nat, n \in Nat :
         f = From(r, d) /\ h = head[r][d] /\ c = Counts[r][d] /\ n = From(NumRanks, d)
  <2>1. From(r, d) \in Nat /\ From(NumRanks, d) \in Nat
    BY <1>1, Places
  <2>2. Counts[r][d] \in Nat /\ head[r][d] \in Nat
    BY <1>1, RouteFacts, ExchangeAssumption DEF WorkInv
  <2> QED BY <2>1, <2>2
<1>4. h < c /\ f + c <= n /\ n <= Capacity /\ Capacity \in Nat
  BY <1>2, <1>3, ExchangeAssumption
<1> QED BY <1>3, <1>4 DEF Lo

(* A rank that does nothing has the same work.                             *)
LEMMA WorkSame ==
  ASSUME NEW q \in Rank, Work(q), route' = route, stage'[q] = stage[q], head'[q] = head[q],
         todo'[q] = todo[q], prefix'[q] = prefix[q]
  PROVE  Work(q)'
<1>1. /\ Counts' = Counts /\ Fits' = Fits /\ \A d : Due(q, d)' = Due(q, d)
      /\ From(NumRanks, q)' = From(NumRanks, q)
  BY Fixed
<1>2. \A i : SourceOf(q, i)' = SourceOf(q, i)
  BY DEF SourceOf
<1>3. \A d : Left(q, d)' = Left(q, d)
  BY DEF Left
<1> QED BY <1>1, <1>2, <1>3 DEF Work

(* A change of stage that ends a send kernel, or comes behind one.         *)
LEMMA WorkDone ==
  ASSUME NEW q \in Rank, Work(q), route' = route, head'[q] = head[q],
         todo[q] = {}, todo'[q] = {}, stage'[q] \notin {"send", "return"},
         stage'[q] \in {"copy", "combine"} => stage[q] \in {"send", "copy", "combine"}
  PROVE  Work(q)'
<1>1. Counts' = Counts /\ Fits' = Fits
  BY Fixed
<1>2. \A d : Left(q, d)' = Left(q, d)
  BY DEF Left
<1> QED BY <1>1, <1>2 DEF Work

(* A step of a stream leaves nobody more work than there are rows.         *)
LEMMA WorkStep ==
  ASSUME RhythmInv, HostInv, WorkInv, NEW r \in Rank, RankStep(r)
  PROVE  WorkInv'
<1>1. /\ call \in [Rank -> DOMAIN Calls] /\ stage \in [Rank -> Stages] /\ route \in Routes
      /\ head \in [Rank -> [Rank -> 0 .. NumTokens]] /\ todo \in [Rank -> SUBSET (Nat \X Rank)]
      /\ Work(r) /\ NumTokens \in Nat
      /\ \A q \in Rank : Work(q)
  BY ExchangeAssumption DEF RhythmInv, Placed, WorkInv
<1>2. route' = route
  BY DEF RankStep, Notify, Gather, StartCached, DispatchSend, CombineSend, PutRow, EnterBarrier,
         CopyLocal, StartCombine, Reduce
<1>3. ASSUME UNCHANGED <<head, todo>>, todo[r] = {}, UNCHANGED prefix \/ stage'[r] = "thrown",
             \A q \in Rank : q # r => stage'[q] = stage[q] /\ prefix'[q] = prefix[q],
             stage'[r] \notin {"send", "return"},
             stage'[r] \in {"copy", "combine"} => stage[r] \in {"send", "copy", "combine"}
      PROVE  WorkInv'
  <2>1. ASSUME NEW q \in Rank PROVE Work(q)'
    <3>1. CASE q = r
      BY <1>1, <1>2, <1>3, <3>1, WorkDone
    <3>2. CASE q # r
      BY <1>1, <1>2, <1>3, <3>2, WorkSame
    <3> QED BY <3>1, <3>2
  <2> QED BY <1>1, <1>3, <2>1 DEF WorkInv
<1>4. ASSUME LaunchSend(r), \A q \in Rank : q # r => prefix'[q] = prefix[q] PROVE WorkInv'
  <2> DEFINE T == ToSend(r)
             st == IF TokensOf(r) = {} THEN "thrown" ELSE "send"
  <2>1. /\ head' = [head EXCEPT ![r] = [q \in Rank |-> 0]] /\ todo' = [todo EXCEPT ![r] = T]
        /\ stage' = [stage EXCEPT ![r] = st]
    BY <1>4 DEF LaunchSend, ToSend
  <2>2. /\ IsFiniteSet(T) /\ T \in SUBSET (Nat \X Rank)
        /\ \A p \in T : p[1] \in Due(r, p[2])
        /\ \A d \in Rank : Cardinality(For(T, d)) = Counts[r][d]
    BY <1>1, LaunchLeft
  <2>3. st \in {"thrown", "send"} /\ (st = "thrown" => T = {})
    BY DEF ToSend
  <2> HIDE DEF T, st
  <2>4. stage'[r] = st /\ todo'[r] = T /\ \A d \in Rank : head'[r][d] = 0
    BY <1>1, <2>1
  <2>5. Counts' = Counts /\ \A d : Due(r, d)' = Due(r, d)
    BY <1>2, Fixed
  <2>6. \A d : Left(r, d)' = For(T, d)
    BY <2>4 DEF Left
  <2>7. \A d \in Rank : Counts[r][d] \in Nat
    BY <1>1, RouteFacts
  <2>8. Work(r)'
    BY <2>2, <2>3, <2>4, <2>5, <2>6, <2>7 DEF Work
  <2>9. ASSUME NEW q \in Rank, q # r PROVE Work(q)'
    <3>1. stage'[q] = stage[q] /\ head'[q] = head[q] /\ todo'[q] = todo[q] /\ prefix'[q] = prefix[q]
      BY <1>1, <1>4, <2>1, <2>9
    <3> QED BY <1>1, <1>2, <3>1, WorkSame
  <2>10. head' \in [Rank -> [Rank -> 0 .. NumTokens]] /\ todo' \in [Rank -> SUBSET (Nat \X Rank)]
    BY <1>1, <2>1, <2>2
  <2> QED BY <2>8, <2>9, <2>10 DEF WorkInv
<1>5. CASE Notify(r)
  <2>1. /\ stage[r] = "dispatch" /\ stage' = [stage EXCEPT ![r] = "gather"]
        /\ UNCHANGED <<head, todo, prefix>>
    BY <1>5 DEF Notify
  <2>2. todo[r] = {}
    BY <1>1, <2>1 DEF Work
  <2> QED BY <1>1, <1>3, <2>1, <2>2
<1>6. CASE Gather(r)
  <2>1. /\ stage[r] = "gather" /\ \E m : prefix' = [prefix EXCEPT ![r] = m]
        /\ LaunchSend(r) \/ (stage' = [stage EXCEPT ![r] = "thrown"] /\ UNCHANGED <<head, todo>>)
    BY <1>6 DEF Gather
  <2>2. \A q \in Rank : q # r => prefix'[q] = prefix[q]
    BY <2>1 DEF HostInv
  <2>3. todo[r] = {}
    BY <1>1, <2>1 DEF Work
  <2>4. CASE stage' = [stage EXCEPT ![r] = "thrown"] /\ UNCHANGED <<head, todo>>
    BY <1>1, <1>3, <2>2, <2>3, <2>4
  <2> QED BY <1>4, <2>1, <2>2, <2>4
<1>7. CASE StartCached(r)
  BY <1>4, <1>7 DEF StartCached
<1>8. CASE \E p \in todo[r] : DispatchSend(r, p) \/ CombineSend(r, p)
  <2>1. PICK p \in todo[r] : DispatchSend(r, p) \/ CombineSend(r, p)
    BY <1>8
  <2>2. /\ stage[r] \in {"send", "return"} /\ p[2] \in Rank
        /\ UNCHANGED <<route, call, stage, arrived, prefix, mem, recv, out>>
        /\ head' = [head EXCEPT ![r][p[2]] = @ + 1]
        /\ head[r][p[2]] \in Nat /\ Share(r, p[2]) \in Nat /\ head[r][p[2]] < Share(r, p[2])
    BY <2>1, SendFacts
  <2>3. PICK U \in SUBSET (todo[r] \ {p}) :
              /\ todo' = [todo EXCEPT ![r] = U]
              /\ U = todo[r] \ {p} \/ ~ (Lo(r, p[2]) + head[r][p[2]] < Capacity)
    BY <2>1, SendFacts
  <2>4. Share(r, p[2]) <= NumTokens
    <3>1. Counts[r][p[2]] \in 0 .. NumTokens /\ Counts[p[2]][r] \in 0 .. NumTokens
      BY <1>1, <2>2, RouteFacts, ZenonT(60)
    <3> QED BY <1>1, <3>1 DEF Share
  <2>5. head' \in [Rank -> [Rank -> 0 .. NumTokens]]
    <3>1. head[r][p[2]] + 1 \in 0 .. NumTokens
      BY <1>1, <2>2, <2>4
    <3> QED BY <1>1, <2>2, <3>1
  <2>6. todo' \in [Rank -> SUBSET (Nat \X Rank)] /\ todo'[r] = U
    BY <1>1, <2>3
  <2>7. \A d \in Rank : head'[r][d] = IF d = p[2] THEN head[r][d] + 1 ELSE head[r][d]
    BY <1>1, <2>2
  <2>8. Counts' = Counts /\ Fits' = Fits /\ (\A d : Due(r, d)' = Due(r, d))
        /\ From(NumRanks, r)' = From(NumRanks, r) /\ \A i : SourceOf(r, i)' = SourceOf(r, i)
    BY <2>2, Fixed DEF SourceOf
  <2>9. IsFiniteSet(todo[r]) /\ IsFiniteSet(U)
    BY <1>1, FS_Subset DEF Work
  <2>10. ASSUME NEW d \in Rank
         PROVE  /\ head'[r][d] + Cardinality(Left(r, d)') <= head[r][d] + Cardinality(Left(r, d))
                /\ U = todo[r] \ {p} =>
                     head'[r][d] + Cardinality(Left(r, d)') = head[r][d] + Cardinality(Left(r, d))
                /\ head'[r][d] + Cardinality(Left(r, d)') \in Nat
                /\ head[r][d] + Cardinality(Left(r, d)) \in Nat
    <3>1. PICK a \in Nat, b \in Nat, h \in Nat :
             a = Cardinality(Left(r, d)') /\ b = Cardinality(Left(r, d)) /\ h = head[r][d]
      <4>1. Cardinality(Left(r, d)') \in Nat /\ Cardinality(Left(r, d)) \in Nat
        BY <2>6, <2>9, LeftLess DEF Left
      <4>2. head[r][d] \in Nat
        BY <1>1
      <4> QED BY <4>1, <4>2
    <3>2. /\ d # p[2] => a <= b
          /\ d = p[2] => a + 1 <= b
          /\ U = todo[r] \ {p} => a = IF d = p[2] THEN b - 1 ELSE b
      <4>1. /\ d # p[2] => a <= b
            /\ d = p[2] => a + 1 <= b
            /\ d = p[2] /\ U = todo[r] \ {p} => a + 1 = b
            /\ d # p[2] /\ U = todo[r] \ {p} => a = b
        BY <2>6, <2>9, <3>1, LeftLess DEF Left
      <4> QED BY <3>1, <4>1
    <3>3. head'[r][d] = IF d = p[2] THEN h + 1 ELSE h
      BY <2>7, <3>1
    <3> QED BY <3>1, <3>2, <3>3
  <2>11. Fits /\ stage[r] = "send" => U = todo[r] \ {p}
    <3> SUFFICES ASSUME Fits, stage[r] = "send" PROVE U = todo[r] \ {p}
      OBVIOUS
    <3>1. Lo(r, p[2]) + head[r][p[2]] < Capacity
      BY <2>2, RoomToSend DEF Fits, Share
    <3> QED BY <2>3, <3>1
  <2>12. Work(r)'
    <3>1. \A d \in Rank : Counts[r][d] \in Nat /\ Counts[d][r] \in Nat
      BY <1>1, RouteFacts
    <3>2. stage'[r] = stage[r] /\ \A q \in U : q \in todo[r]
      BY <2>2
    <3>3. stage[r] = "send" => \A d \in Rank : head'[r][d] + Cardinality(Left(r, d)') <= Counts[r][d]
      BY <1>1, <2>10, <3>1 DEF Work
    <3>4. stage[r] = "return" => \A d \in Rank : head'[r][d] + Cardinality(Left(r, d)') <= Counts[d][r]
      BY <1>1, <2>10, <3>1 DEF Work
    <3>5. Fits /\ stage[r] \in {"send", "copy", "combine"} =>
            \A d \in Rank : head'[r][d] + Cardinality(Left(r, d)') = Counts[r][d]
      BY <1>1, <2>2, <2>10, <2>11 DEF Work
    <3> QED BY <1>1, <2>2, <2>6, <2>8, <2>9, <3>2, <3>3, <3>4, <3>5 DEF Work
  <2>13. ASSUME NEW q \in Rank, q # r PROVE Work(q)'
    <3>1. stage'[q] = stage[q] /\ head'[q] = head[q] /\ todo'[q] = todo[q] /\ prefix'[q] = prefix[q]
      BY <1>1, <2>2, <2>3, <2>13
    <3> QED BY <1>1, <1>2, <3>1, WorkSame
  <2> QED BY <2>5, <2>6, <2>12, <2>13 DEF WorkInv
<1>9. CASE EnterBarrier(r)
  <2>1. /\ todo[r] = {} /\ UNCHANGED <<head, todo, prefix>>
        /\ \A q \in Rank : stage'[q] = IF q # r THEN stage[q]
                                       ELSE IF stage[r] = "send" THEN "copy" ELSE "reduce"
    BY <1>1, <1>9 DEF EnterBarrier
  <2> QED BY <1>3, <2>1
<1>10. CASE CopyLocal(r)
  <2>1. /\ stage[r] = "copy" /\ stage' = [stage EXCEPT ![r] = "combine"]
        /\ UNCHANGED <<head, todo, prefix>>
    BY <1>10 DEF CopyLocal
  <2>2. todo[r] = {}
    BY <1>1, <2>1 DEF Work
  <2> QED BY <1>1, <1>3, <2>1, <2>2
<1>11. CASE StartCombine(r)
  <2> DEFINE T == ToReturn(r)
  <2>1. prefix[r] = PrefixMatrix(Counts) /\ NumRecv(r) = From(NumRanks, r) /\ stage[r] = "combine"
        /\ prefix' = prefix
    <3>1. stage[r] = "combine" /\ prefix' = prefix
      BY <1>11 DEF StartCombine
    <3> QED BY <3>1, NumRecvIs DEF HostInv
  <2>2. todo[r] = {}
    BY <1>1, <2>1 DEF Work
  <2>3. \/ /\ head' = [head EXCEPT ![r] = [q \in Rank |-> 0]] /\ todo' = [todo EXCEPT ![r] = T]
           /\ stage' = [stage EXCEPT ![r] = IF From(NumRanks, r) = 0 THEN "thrown" ELSE "return"]
        \/ stage' = [stage EXCEPT ![r] = "thrown"] /\ UNCHANGED <<head, todo>>
    BY <1>11, <2>1 DEF StartCombine, ToReturn
  <2>4. CASE stage' = [stage EXCEPT ![r] = "thrown"] /\ UNCHANGED <<head, todo>>
    BY <1>1, <1>3, <2>1, <2>2, <2>4
  <2>5. CASE /\ head' = [head EXCEPT ![r] = [q \in Rank |-> 0]] /\ todo' = [todo EXCEPT ![r] = T]
             /\ stage' = [stage EXCEPT ![r] = IF From(NumRanks, r) = 0 THEN "thrown" ELSE "return"]
    <3>1. /\ IsFiniteSet(T) /\ T \in SUBSET (Nat \X Rank)
          /\ \A p \in T : p[1] \in 0 .. From(NumRanks, r) - 1 /\ p[2] = SourceOf(r, p[1])
          /\ \A d \in Rank : /\ Cardinality(For(T, d)) \in Nat
                             /\ Cardinality(For(T, d)) <= Counts[d][r]
      BY <1>1, <2>1, ReturnLeft
    <3>2. From(NumRanks, r) = 0 => T = {}
      BY DEF ToReturn
    <3> HIDE DEF T
    <3>3. /\ stage'[r] \in {"thrown", "return"} /\ (stage'[r] = "thrown" => T = {})
          /\ todo'[r] = T /\ \A d \in Rank : head'[r][d] = 0
      BY <1>1, <2>5, <3>2
    <3>4. Counts' = Counts /\ From(NumRanks, r)' = From(NumRanks, r)
          /\ \A i : SourceOf(r, i)' = SourceOf(r, i)
      BY <1>2, <2>1, Fixed DEF SourceOf
    <3>5. \A d : Left(r, d)' = For(T, d)
      BY <3>3 DEF Left
    <3>6. Work(r)'
      BY <3>1, <3>3, <3>4, <3>5 DEF Work
    <3>7. ASSUME NEW q \in Rank, q # r PROVE Work(q)'
      <4>1. stage'[q] = stage[q] /\ head'[q] = head[q] /\ todo'[q] = todo[q] /\ prefix'[q] = prefix[q]
        BY <1>1, <2>1, <2>5, <3>7
      <4> QED BY <1>1, <1>2, <4>1, WorkSame
    <3>8. head' \in [Rank -> [Rank -> 0 .. NumTokens]] /\ todo' \in [Rank -> SUBSET (Nat \X Rank)]
      BY <1>1, <2>5, <3>1
    <3> QED BY <3>6, <3>7, <3>8 DEF WorkInv
  <2> QED BY <2>3, <2>4, <2>5
<1>12. CASE Reduce(r)
  <2>1. /\ stage[r] = "reduce" /\ UNCHANGED <<head, todo, prefix>>
        /\ \A q \in Rank : q # r => stage'[q] = stage[q]
        /\ stage'[r] \in {"dispatch", "done"}
    BY <1>1, <1>12 DEF Reduce
  <2>2. todo[r] = {}
    BY <1>1, <2>1 DEF Work
  <2> QED BY <1>3, <2>1, <2>2
<1> QED BY <1>5, <1>6, <1>7, <1>8, <1>9, <1>10, <1>11, <1>12 DEF RankStep

-----------------------------------------------------------------------------
(* Every put under way is one of its sender's present kernel, at a place   *)
(* the sender has counted; no two are for one slot.                        *)
WireInv ==
  /\ wire \subseteq [from : Rank, to : Rank, slot : Slot, row : Row]
  /\ \A p \in wire : /\ stage[p.from] \in {"send", "return"}
                     /\ p.slot >= Lo(p.from, p.to)
                     /\ p.slot < Lo(p.from, p.to) + head[p.from][p.to]
  /\ PutsApart

DataTyped ==
  /\ mem \in [Rank -> [Slot -> Row]]
  /\ \A r \in Rank : \A i \in DOMAIN recv[r] : recv[r][i] \in Row

(* A copied list has, at each source's place, its tokens for r, each once. *)
Received(r) ==
  /\ DOMAIN recv[r] = 0 .. From(NumRanks, r) - 1
  /\ \A s \in Rank :
       /\ \A i \in From(s, r) .. From(s + 1, r) - 1 : \E t \in Due(s, r) : recv[r][i] = Own(s, t)
       /\ \A t \in Due(s, r) : \E i \in From(s, r) .. From(s + 1, r) - 1 : recv[r][i] = Own(s, t)
  /\ \A i, j \in DOMAIN recv[r] : recv[r][i] = recv[r][j] => i = j
RecvInv ==
  /\ DOMAIN recv = Rank
  /\ \A r \in Rank : stage[r] \in {"combine", "return", "reduce"} => Received(r)

(* The slots of two ranks in one region, in either phase.                  *)
LEMMA SlotsApart ==
  ASSUME route \in Routes, NEW q \in Rank, NEW r \in Rank, q # r, NEW d \in Rank,
         NEW k \in Nat, NEW l \in Nat
  PROVE  /\ k < Counts[q][d] /\ l < Counts[r][d] => From(q, d) + k # From(r, d) + l
         /\ k < Counts[d][q] /\ l < Counts[d][r] => Back(q, d) + k # Back(r, d) + l
<1>1. PICK fq \in Nat, fr \in Nat, bq \in Nat, br \in Nat :
         fq = From(q, d) /\ fr = From(r, d) /\ bq = Back(q, d) /\ br = Back(r, d)
  <2>1. q \in 0 .. NumRanks /\ r \in 0 .. NumRanks
    BY NumRanksAssumption DEF Rank
  <2> QED BY <2>1, Places
<1>2. PICK cq \in Nat, cr \in Nat, eq \in Nat, er \in Nat :
         cq = Counts[q][d] /\ cr = Counts[r][d] /\ eq = Counts[d][q] /\ er = Counts[d][r]
  BY RouteFacts, ExchangeAssumption
<1>3. q \in Nat /\ r \in Nat
  BY RankFacts
<1>4. CASE q < r
  <2>1. fq + cq <= fr /\ bq + eq <= br
    BY <1>1, <1>2, <1>4, Apart
  <2> QED BY <1>1, <1>2, <2>1
<1>5. CASE r < q
  <2>1. fr + cr <= fq /\ br + er <= bq
    BY <1>1, <1>2, <1>5, Apart
  <2> QED BY <1>1, <1>2, <2>1
<1> QED BY <1>3, <1>4, <1>5

(* A rank counts no more rows than it has.                                 *)
LEMMA HeadBound ==
  ASSUME RhythmInv, WorkInv, NEW r \in Rank, NEW d \in Rank
  PROVE  /\ head[r][d] \in Nat /\ Share(r, d) \in Nat /\ Counts[r][d] \in Nat
         /\ stage[r] \in {"send", "return"} => head[r][d] <= Share(r, d)
         /\ Fits /\ stage[r] \in {"send", "copy", "combine"} => head[r][d] <= Counts[r][d]
         /\ Fits /\ stage[r] \in {"copy", "combine"} => head[r][d] = Counts[r][d]
<1>1. /\ head[r][d] \in Nat /\ Counts[r][d] \in Nat /\ Counts[d][r] \in Nat
  BY RouteFacts, ExchangeAssumption DEF WorkInv, RhythmInv, Placed
<1>2. PICK c \in Nat : c = Cardinality(Left(r, d))
  <2>1. For(todo[r], d) \in SUBSET todo[r] /\ IsFiniteSet(todo[r])
    BY DEF For, WorkInv, Work
  <2> QED BY <2>1, FS_Subset, FS_CardinalityType DEF Left
<1>3. todo[r] = {} => c = 0
  BY <1>2, FS_EmptySet DEF Left, For
<1>4. Work(r)
  BY DEF WorkInv
<1>5. stage[r] \in {"send", "return"} => head[r][d] <= Share(r, d)
  BY <1>1, <1>2, <1>4 DEF Work, Share
<1>6. Fits /\ stage[r] \in {"send", "copy", "combine"} => head[r][d] + c = Counts[r][d]
  BY <1>2, <1>4 DEF Work
<1>7. stage[r] \in {"copy", "combine"} => c = 0
  BY <1>3, <1>4 DEF Work
<1> QED BY <1>1, <1>2, <1>5, <1>6, <1>7 DEF Share

(* What combine_send sends back, and to whom.                              *)
LEMMA ReturnRow ==
  ASSUME RhythmInv, HostInv, WorkInv, RecvInv, NEW r \in Rank, stage[r] = "return", NEW p \in todo[r]
  PROVE  /\ p[1] \in DOMAIN recv[r] /\ p[2] \in Rank
         /\ \E t \in Due(p[2], r) : /\ recv[r][p[1]] = Own(p[2], t)
                                    /\ RowOf(r, p) = Contribution(r, p[2], t)
<1>1. p[1] \in 0 .. From(NumRanks, r) - 1 /\ p[2] = SourceOf(r, p[1])
  BY DEF WorkInv, Work
<1>2. prefix[r] = PrefixMatrix(Counts) /\ route \in Routes
  BY DEF HostInv, RhythmInv, Placed
<1>3. /\ p[2] \in Rank /\ p[1] >= From(p[2], r) /\ p[1] < From(p[2], r) + Counts[p[2]][r]
  BY <1>1, <1>2, SourceIs
<1>4. From(p[2] + 1, r) = From(p[2], r) + Counts[p[2]][r]
  BY <1>2, <1>3, Places
<1>5. p[1] \in From(p[2], r) .. From(p[2] + 1, r) - 1
  <2>1. From(p[2], r) \in Nat /\ Counts[p[2]][r] \in Nat /\ p[1] \in Int
    <3>1. p[2] \in 0 .. NumRanks
      BY <1>3, NumRanksAssumption DEF Rank
    <3>2. Counts[p[2]][r] \in Nat
      BY <1>2, <1>3, RouteFacts, ExchangeAssumption
    <3> QED BY <1>1, <1>2, <3>1, <3>2, Places
  <2> QED BY <1>3, <1>4, <2>1
<1>6. PICK t \in Due(p[2], r) : recv[r][p[1]] = Own(p[2], t)
  BY <1>3, <1>5 DEF RecvInv, Received
<1>7. RowOf(r, p) = Contribution(r, p[2], t)
  BY <1>6 DEF RowOf, Own, Contribution
<1> QED BY <1>1, <1>3, <1>6, <1>7 DEF RecvInv, Received

(* Every row put is a row.                                                 *)
LEMMA RowTyped ==
  ASSUME RhythmInv, HostInv, WorkInv, RecvInv, NEW r \in Rank, stage[r] \in {"send", "return"},
         NEW p \in todo[r]
  PROVE  RowOf(r, p) \in Row
<1>1. route \in Routes
  BY DEF RhythmInv, Placed
<1>2. CASE stage[r] = "send"
  <2>1. p[1] \in Token
    BY <1>1, <1>2, RouteFacts DEF WorkInv, Work, Due
  <2> QED BY <1>2, <2>1 DEF RowOf, Own, Row, AllTokens
<1>3. CASE stage[r] = "return"
  <2>1. PICK t \in Due(p[2], r) : RowOf(r, p) = Contribution(r, p[2], t)
    BY <1>3, ReturnRow
  <2>2. p[2] \in Rank /\ t \in Token
    BY <1>1, <1>3, ReturnRow, RouteFacts DEF Due
  <2> QED BY <2>1, <2>2 DEF Contribution, Row, AllTokens
<1> QED BY <1>2, <1>3

(* A step of another kind leaves the puts that are under way as they are.  *)
LEMMA WireSame ==
  ASSUME WireInv, NEW r \in Rank, wire' = wire, route' = route,
         \A put \in wire : put.from # r,
         \A q \in Rank : q # r => stage'[q] = stage[q] /\ head'[q] = head[q]
  PROVE  WireInv'
<1>1. \A put \in wire : put.from \in Rank
  BY DEF WireInv
<1>2. \A q \in Rank : q # r => \A d : Lo(q, d)' = Lo(q, d)
  BY Fixed DEF Lo
<1>3. PutsApart'
  BY DEF WireInv, PutsApart
<1> QED BY <1>1, <1>2, <1>3 DEF WireInv

(* A step of a stream puts into slots of its own only.                     *)
LEMMA WireStep ==
  ASSUME RhythmInv, HostInv, WorkInv, RecvInv, WireInv, NEW r \in Rank, RankStep(r)
  PROVE  WireInv'
<1>1. /\ stage \in [Rank -> Stages] /\ route \in Routes
      /\ head \in [Rank -> [Rank -> 0 .. NumTokens]]
  BY DEF RhythmInv, Placed, WorkInv
<1>2. route' = route
  BY DEF RankStep, Notify, Gather, StartCached, DispatchSend, CombineSend, PutRow, EnterBarrier,
         CopyLocal, StartCombine, Reduce
<1>3. CASE Notify(r) \/ Gather(r) \/ StartCached(r) \/ CopyLocal(r) \/ StartCombine(r) \/ Reduce(r)
  <2>1. /\ wire' = wire /\ stage[r] \notin {"send", "return"}
        /\ \A q \in Rank : q # r => stage'[q] = stage[q] /\ head'[q] = head[q]
    <3>1. CASE Notify(r)
      BY <1>1, <3>1 DEF Notify
    <3>2. CASE Gather(r)
      <4>1. \/ stage' = [stage EXCEPT ![r] = "thrown"] /\ head' = head
            \/ LaunchSend(r)
        BY <3>2 DEF Gather
      <4> QED BY <1>1, <3>2, <4>1 DEF Gather, LaunchSend
    <3>3. CASE StartCached(r)
      BY <1>1, <3>3 DEF StartCached, LaunchSend
    <3>4. CASE CopyLocal(r)
      BY <1>1, <3>4 DEF CopyLocal
    <3>5. CASE StartCombine(r)
      BY <1>1, <3>5 DEF StartCombine
    <3>6. CASE Reduce(r)
      BY <1>1, <3>6 DEF Reduce
    <3> QED BY <1>3, <3>1, <3>2, <3>3, <3>4, <3>5, <3>6
  <2>2. \A put \in wire : put.from # r
    BY <2>1 DEF WireInv
  <2> QED BY <1>2, <2>1, <2>2, WireSame
<1>4. CASE EnterBarrier(r)
  <2>1. /\ wire' = wire /\ \A put \in wire : put.from # r
        /\ \A q \in Rank : q # r => stage'[q] = stage[q] /\ head'[q] = head[q]
    BY <1>1, <1>4 DEF EnterBarrier
  <2> QED BY <1>2, <2>1, WireSame
<1>5. CASE \E p \in todo[r] : DispatchSend(r, p) \/ CombineSend(r, p)
  <2>1. PICK p \in todo[r] : DispatchSend(r, p) \/ CombineSend(r, p)
    BY <1>5
  <2>2. /\ stage[r] \in {"send", "return"} /\ p[2] \in Rank
        /\ UNCHANGED <<route, call, stage, arrived, prefix, mem, recv, out>>
        /\ head' = [head EXCEPT ![r][p[2]] = @ + 1]
        /\ head[r][p[2]] \in Nat /\ Share(r, p[2]) \in Nat /\ head[r][p[2]] < Share(r, p[2])
        /\ Lo(r, p[2]) \in Nat
    BY <2>1, SendFacts
  <2> DEFINE d == p[2]
             new == [from |-> r, to |-> d, slot |-> Lo(r, d) + head[r][d], row |-> RowOf(r, p)]
  <2>3. \/ wire' = wire
        \/ wire' = wire \cup {new} /\ Lo(r, d) + head[r][d] < Capacity
    BY <2>1, SendFacts
  <2>4. /\ \A q, x \in Rank : head'[q][x] = IF q = r /\ x = d THEN head[q][x] + 1 ELSE head[q][x]
        /\ \A q, x \in Rank : head[q][x] \in Nat
        /\ \A q, x : Lo(q, x)' = Lo(q, x)
    BY <1>1, <2>2, Fixed DEF Lo
  <2>5. \A put \in wire : /\ put.from \in Rank /\ put.to \in Rank /\ put.slot \in Nat
                          /\ Lo(put.from, put.to) \in Nat
    <3>1. \A put \in wire : put.from \in Rank /\ put.to \in Rank /\ put.slot \in Nat
      BY DEF WireInv, Slot
    <3>2. \A q, x \in Rank : Lo(q, x) \in Nat
      <4>1. \A q \in Rank : q \in 0 .. NumRanks
        BY NumRanksAssumption DEF Rank
      <4> QED BY <1>1, <4>1, Places DEF Lo
    <3> QED BY <3>1, <3>2
  <2>6. \A put \in wire : /\ stage'[put.from] \in {"send", "return"}
                          /\ put.slot >= Lo(put.from, put.to)'
                          /\ put.slot < Lo(put.from, put.to)' + head'[put.from][put.to]
    <3> SUFFICES ASSUME NEW put \in wire
                 PROVE  /\ stage'[put.from] \in {"send", "return"}
                        /\ put.slot >= Lo(put.from, put.to)'
                        /\ put.slot < Lo(put.from, put.to)' + head'[put.from][put.to]
      OBVIOUS
    <3>1. PICK a \in Nat, b \in Nat, c \in Nat :
             a = put.slot /\ b = Lo(put.from, put.to) /\ c = head[put.from][put.to]
      BY <2>4, <2>5
    <3>2. stage[put.from] \in {"send", "return"} /\ a >= b /\ a < b + c
      BY <3>1 DEF WireInv
    <3>3. head'[put.from][put.to] \in {c, c + 1}
      BY <2>4, <2>5, <3>1
    <3> QED BY <2>2, <2>4, <3>1, <3>2, <3>3
  <2>7. CASE wire' = wire
    <3>1. PutsApart'
      BY <2>7 DEF WireInv, PutsApart
    <3>2. wire' \subseteq [from : Rank, to : Rank, slot : Slot, row : Row]
      BY <2>7 DEF WireInv
    <3> QED BY <2>6, <2>7, <3>1, <3>2 DEF WireInv
  <2>8. CASE wire' = wire \cup {new} /\ Lo(r, d) + head[r][d] < Capacity
    <3>1. new \in [from : Rank, to : Rank, slot : Slot, row : Row]
      <4>1. Lo(r, d) + head[r][d] \in Slot
        BY <2>2, <2>8, ExchangeAssumption DEF Slot
      <4> QED BY <2>2, <4>1, RowTyped
    <3>2. wire' \subseteq [from : Rank, to : Rank, slot : Slot, row : Row]
      BY <2>8, <3>1 DEF WireInv
    <3>3. /\ stage'[new.from] \in {"send", "return"}
          /\ new.slot >= Lo(new.from, new.to)
          /\ new.slot < Lo(new.from, new.to) + head'[new.from][new.to]
      BY <2>2, <2>4
    <3>4. ASSUME NEW put \in wire, put.to = d PROVE put.slot # new.slot
      <4>1. PICK k \in Nat : put.slot = Lo(put.from, d) + k /\ k < head[put.from][d]
        <5>1. PICK a \in Nat, b \in Nat, c \in Nat :
                 a = put.slot /\ b = Lo(put.from, put.to) /\ c = head[put.from][put.to]
          BY <2>4, <2>5
        <5>2. a >= b /\ a < b + c
          BY <5>1 DEF WireInv
        <5>3. a - b \in Nat /\ a - b < c /\ a = b + (a - b)
          BY <5>2
        <5> QED BY <3>4, <5>1, <5>3
      <4>2. CASE put.from = r
        <5>1. PICK b \in Nat, h \in Nat : b = Lo(r, d) /\ h = head[r][d]
          BY <2>2
        <5> QED BY <4>1, <4>2, <5>1
      <4>3. CASE put.from # r
        <5>1. stage[put.from] = stage[r]
          <6>1. stage[put.from] \in {"send", "return"} /\ Met(r)
            BY <2>2, <2>5 DEF WireInv, RhythmInv, InRhythm
          <6>2. stage[r] = "send" => stage[put.from] # "return"
            BY <2>5, <6>1, PhaseSend
          <6>3. stage[r] = "return" => stage[put.from] # "send"
            BY <2>5, <6>1, PhaseReturn
          <6> QED BY <2>2, <6>1, <6>2, <6>3
        <5>2. k < Share(put.from, d)
          <6>1. stage[put.from] \in {"send", "return"}
            BY DEF WireInv
          <6>2. head[put.from][d] <= Share(put.from, d) /\ head[put.from][d] \in Nat
                /\ Share(put.from, d) \in Nat
            BY <2>2, <2>5, <6>1, HeadBound
          <6> QED BY <4>1, <6>2
        <5>3. CASE stage[r] = "send"
          BY <1>1, <2>2, <2>5, <4>1, <4>3, <5>1, <5>2, <5>3, SlotsApart DEF Lo, Share
        <5>4. CASE stage[r] = "return"
          BY <1>1, <2>2, <2>5, <4>1, <4>3, <5>1, <5>2, <5>4, SlotsApart DEF Lo, Share
        <5> QED BY <2>2, <5>3, <5>4
      <4> QED BY <4>2, <4>3
    <3>5. PutsApart'
      <4> SUFFICES ASSUME NEW x \in wire', NEW y \in wire', x.to = y.to, x.slot = y.slot PROVE x = y
        BY DEF PutsApart
      <4>1. x \in wire \/ x = new
        BY <2>8
      <4>2. y \in wire \/ y = new
        BY <2>8
      <4>3. new.to = d
        OBVIOUS
      <4> HIDE DEF new
      <4> QED BY <3>4, <4>1, <4>2, <4>3 DEF WireInv, PutsApart
    <3> HIDE DEF new, d
    <3>6. \A x \in wire' : /\ stage'[x.from] \in {"send", "return"}
                           /\ x.slot >= Lo(x.from, x.to)'
                           /\ x.slot < Lo(x.from, x.to)' + head'[x.from][x.to]
      <4> SUFFICES ASSUME NEW x \in wire'
                   PROVE  /\ stage'[x.from] \in {"send", "return"}
                          /\ x.slot >= Lo(x.from, x.to)'
                          /\ x.slot < Lo(x.from, x.to)' + head'[x.from][x.to]
        OBVIOUS
      <4>1. CASE x \in wire
        BY <2>6, <4>1
      <4>2. CASE x = new
        <5>1. Lo(x.from, x.to)' = Lo(x.from, x.to)
          BY <2>4
        <5> QED BY <3>3, <4>2, <5>1
      <4> QED BY <2>8, <4>1, <4>2
    <3> QED BY <3>2, <3>5, <3>6 DEF WireInv
  <2> QED BY <2>3, <2>7, <2>8
<1> QED BY <1>3, <1>4, <1>5 DEF RankStep

(* A delivery takes a put off the wire.                                    *)
LEMMA WireDeliver ==
  ASSUME WireInv, NEW put \in wire, Deliver(put)
  PROVE  WireInv'
<1>1. /\ wire' = wire \ {put} /\ UNCHANGED <<route, stage, head>>
  BY DEF Deliver
<1>2. \A q, d : Lo(q, d)' = Lo(q, d)
  BY <1>1, Fixed DEF Lo
<1>3. PutsApart'
  BY <1>1 DEF WireInv, PutsApart
<1> QED BY <1>1, <1>2, <1>3 DEF WireInv

-----------------------------------------------------------------------------
(* A row is on its way to slot i of d's region, or there and not about to  *)
(* be overwritten.                                                         *)
Held(d, i, row) ==
  \/ \E put \in wire : put.to = d /\ put.slot = i /\ put.row = row
  \/ mem[d][i] = row /\ \A put \in wire : put.to = d => put.slot # i

(* While s may send to d's region, or has, and d has not copied it, the    *)
(* slots s has counted hold just the tokens it has sent.                   *)
Open(s, d) ==
  /\ call[s] = call[d] /\ stage[s] \in {"send", "copy", "combine"}
  /\ stage[d] \in {"dispatch", "gather", "send", "copy"}
View(s, d) ==
  /\ \A i \in 0 .. head[s][d] - 1 : \E t \in Due(s, d) : Held(d, From(s, d) + i, Own(s, t))
  /\ \A t \in Due(s, d) : <<t, d>> \notin todo[s] =>
       \E i \in 0 .. head[s][d] - 1 : Held(d, From(s, d) + i, Own(s, t))
ViewInv == Fits => \A s, d \in Rank : Open(s, d) => View(s, d)

(* A new put elsewhere does not disturb what is held.                      *)
LEMMA HeldKept ==
  ASSUME NEW d \in Rank, NEW i, NEW row, Held(d, i, row), mem'[d] = mem[d],
         \A put \in wire : put \in wire',
         \A put \in wire' : put \in wire \/ put.to # d \/ put.slot # i
  PROVE  Held(d, i, row)'
BY DEF Held

(* Neither does a delivery: the row held is the one that arrives.          *)
LEMMA HeldDelivered ==
  ASSUME WireInv, DataTyped, NEW put \in wire, Deliver(put),
         NEW d \in Rank, NEW i \in Slot, NEW row, Held(d, i, row)
  PROVE  Held(d, i, row)'
<1>1. wire' = wire \ {put} /\ mem' = [mem EXCEPT ![put.to][put.slot] = put.row]
  BY DEF Deliver
<1>2. put.to \in Rank /\ put.slot \in Slot
  BY DEF WireInv
<1>3. mem'[d][i] = IF d = put.to /\ i = put.slot THEN put.row ELSE mem[d][i]
  BY <1>1, <1>2 DEF DataTyped
<1>4. \A p, q \in wire : p.to = q.to /\ p.slot = q.slot => p = q
  BY DEF WireInv, PutsApart
<1>5. CASE \E p \in wire : p.to = d /\ p.slot = i /\ p.row = row
  <2>1. PICK p \in wire : p.to = d /\ p.slot = i /\ p.row = row
    BY <1>5
  <2>2. CASE p = put
    <3>1. mem'[d][i] = row
      BY <1>3, <2>1, <2>2
    <3>2. \A q \in wire' : q.to = d => q.slot # i
      BY <1>1, <1>4, <2>1, <2>2
    <3> QED BY <3>1, <3>2 DEF Held
  <2>3. CASE p # put
    <3>1. p \in wire'
      BY <1>1, <2>3
    <3> QED BY <2>1, <3>1 DEF Held
  <2> QED BY <2>2, <2>3
<1>6. CASE mem[d][i] = row /\ \A p \in wire : p.to = d => p.slot # i
  <2>1. mem'[d][i] = row
    BY <1>3, <1>6
  <2>2. \A p \in wire' : p.to = d => p.slot # i
    BY <1>1, <1>6
  <2> QED BY <2>1, <2>2 DEF Held
<1> QED BY <1>5, <1>6 DEF Held

(* What a rank has sent to another stays while neither is touched.         *)
LEMMA ViewSame ==
  ASSUME NEW s \in Rank, NEW d \in Rank, View(s, d), route' = route, wire' = wire,
         head'[s] = head[s], todo'[s] = todo[s], mem'[d] = mem[d]
  PROVE  View(s, d)'
<1>1. \A i, row : Held(d, i, row) => Held(d, i, row)'
  BY DEF Held
<1>2. Due(s, d)' = Due(s, d) /\ From(s, d)' = From(s, d)
  BY Fixed
<1>3. \A t : Own(s, t)' = Own(s, t)
  BY DEF Own
<1> QED BY <1>1, <1>2, <1>3 DEF View

(* The slots that a rank has counted are slots of the region.              *)
LEMMA SlotsThere ==
  ASSUME RhythmInv, WorkInv, Fits, NEW s \in Rank, NEW d \in Rank,
         stage[s] \in {"send", "copy", "combine"}, NEW i \in 0 .. head[s][d] - 1
  PROVE  From(s, d) + i \in Slot
<1>1. route \in Routes /\ s \in 0 .. NumRanks /\ s + 1 \in 0 .. NumRanks /\ NumRanks \in 0 .. NumRanks
      /\ s + 1 <= NumRanks
  BY NumRanksAssumption DEF RhythmInv, Placed, Rank
<1>2. PICK f \in Nat, g \in Nat, n \in Nat, c \in Nat, h \in Nat :
         /\ f = From(s, d) /\ g = From(s + 1, d) /\ n = From(NumRanks, d)
         /\ c = Counts[s][d] /\ h = head[s][d]
  BY <1>1, Places, HeadBound
<1>3. g = f + c /\ g <= n /\ n <= Capacity /\ h <= c /\ i \in Nat /\ i < h
  BY <1>1, <1>2, Places, HeadBound DEF Fits
<1> QED BY <1>2, <1>3, ExchangeAssumption DEF Slot

(* A step of a stream moves rows only.                                     *)
LEMMA DataStep ==
  ASSUME RhythmInv, HostInv, DataTyped, NEW r \in Rank, RankStep(r)
  PROVE  DataTyped'
<1> USE DEF DataTyped
<1>1. CASE CopyLocal(r)
  <2>1. /\ recv' = [recv EXCEPT ![r] = [i \in 0 .. NumRecv(r) - 1 |-> mem[r][i]]]
        /\ mem' = mem /\ stage[r] = "copy"
    BY <1>1 DEF CopyLocal
  <2>2. NumRecv(r) = From(NumRanks, r) /\ From(NumRanks, r) <= Capacity
    BY <2>1, NumRecvIs DEF HostInv
  <2>3. \A i \in 0 .. NumRecv(r) - 1 : mem[r][i] \in Row
    <3>1. From(NumRanks, r) \in Nat
      <4>1. NumRanks \in 0 .. NumRanks
        BY NumRanksAssumption
      <4> QED BY <4>1, Places DEF RhythmInv, Placed
    <3>2. \A i \in 0 .. NumRecv(r) - 1 : i \in Slot
      BY <2>2, <3>1, ExchangeAssumption DEF Slot
    <3> QED BY <3>2
  <2>4. ASSUME NEW q \in Rank, NEW i \in DOMAIN recv'[q] PROVE recv'[q][i] \in Row
    <3>1. CASE q = r /\ r \in DOMAIN recv
      <4>1. recv'[q] = [j \in 0 .. NumRecv(r) - 1 |-> mem[r][j]]
        BY <2>1, <3>1
      <4> QED BY <2>3, <4>1
    <3>2. CASE ~ (q = r /\ r \in DOMAIN recv)
      <4>1. recv'[q] = recv[q]
        BY <2>1, <3>2
      <4> QED BY <4>1
    <3> QED BY <3>1, <3>2
  <2> QED BY <2>1, <2>4
<1>2. CASE StartCombine(r)
  <2>1. recv' = recv /\ (mem' = mem \/ mem' = [mem EXCEPT ![r] = Cleared(@)])
    BY <1>2 DEF StartCombine
  <2>2. Cleared(mem[r]) \in [Slot -> Row]
    <3>1. \A i \in Slot : [mem[r][i] EXCEPT !.idx = -1] \in Row
      BY DEF Row, NoRow
    <3> QED BY <3>1 DEF Cleared
  <2>3. mem' \in [Rank -> [Slot -> Row]]
    BY <2>1, <2>2
  <2> QED BY <2>1, <2>3
<1>3. CASE Notify(r) \/ Gather(r) \/ StartCached(r) \/ EnterBarrier(r) \/ Reduce(r)
           \/ \E p \in todo[r] : DispatchSend(r, p) \/ CombineSend(r, p)
  <2>1. mem' = mem /\ recv' = recv
    BY <1>3 DEF Notify, Gather, StartCached, EnterBarrier, Reduce, DispatchSend, CombineSend, PutRow
  <2> QED BY <2>1
<1> QED BY <1>1, <1>2, <1>3 DEF RankStep

(* So does a delivery.                                                     *)
LEMMA DataDeliver ==
  ASSUME WireInv, DataTyped, NEW put \in wire, Deliver(put)
  PROVE  DataTyped'
<1>1. mem' = [mem EXCEPT ![put.to][put.slot] = put.row] /\ recv' = recv
  BY DEF Deliver
<1>2. put.to \in Rank /\ put.slot \in Slot /\ put.row \in Row
  BY DEF WireInv
<1> QED BY <1>1, <1>2 DEF DataTyped

(* A delivery brings what was on its way.                                  *)
LEMMA ViewDeliver ==
  ASSUME RhythmInv, WorkInv, WireInv, DataTyped, ViewInv, NEW put \in wire, Deliver(put)
  PROVE  ViewInv'
<1>1. UNCHANGED <<route, call, stage, head, todo>>
  BY DEF Deliver
<1> SUFFICES ASSUME Fits, NEW s \in Rank, NEW d \in Rank, Open(s, d) PROVE View(s, d)'
  BY <1>1, Fixed DEF ViewInv, Open
<1>2. View(s, d)
  BY DEF ViewInv
<1>3. ASSUME NEW i \in 0 .. head[s][d] - 1, NEW row, Held(d, From(s, d) + i, row)
      PROVE  Held(d, From(s, d) + i, row)'
  <2>1. From(s, d) + i \in Slot
    BY SlotsThere DEF Open
  <2>2. PICK j \in Slot : j = From(s, d) + i
    BY <2>1
  <2>3. Held(d, j, row)'
    BY <1>3, <2>2, HeldDelivered
  <2>4. From(s, d)' = From(s, d)
    BY <1>1, Fixed
  <2> QED BY <2>2, <2>3, <2>4 DEF Held
<1>4. Due(s, d)' = Due(s, d) /\ From(s, d)' = From(s, d) /\ head' = head /\ todo' = todo
  BY <1>1, Fixed
<1>5. \A t : Own(s, t)' = Own(s, t)
  BY DEF Own
<1> QED BY <1>2, <1>3, <1>4, <1>5 DEF View

-----------------------------------------------------------------------------
(* A thread that sends adds one row to its own part of one region.         *)
LEMMA ViewSend ==
  ASSUME RhythmInv, HostInv, WorkInv, ViewInv, NEW r \in Rank,
         NEW p \in todo[r], DispatchSend(r, p) \/ CombineSend(r, p)
  PROVE  ViewInv'
<1>1. /\ stage \in [Rank -> Stages] /\ route \in Routes
      /\ head \in [Rank -> [Rank -> 0 .. NumTokens]] /\ todo \in [Rank -> SUBSET (Nat \X Rank)]
  BY DEF RhythmInv, Placed, WorkInv
<1>2. /\ stage[r] \in {"send", "return"} /\ p[2] \in Rank
      /\ UNCHANGED <<route, call, stage, arrived, prefix, mem, recv, out>>
      /\ head' = [head EXCEPT ![r][p[2]] = @ + 1]
      /\ head[r][p[2]] \in Nat /\ Share(r, p[2]) \in Nat /\ head[r][p[2]] < Share(r, p[2])
  BY SendFacts
<1>3. PICK U \in SUBSET (todo[r] \ {p}) :
        /\ todo' = [todo EXCEPT ![r] = U]
        /\ \/ /\ U = todo[r] \ {p}
              /\ Lo(r, p[2]) + head[r][p[2]] < Capacity
              /\ wire' = wire \cup {[from |-> r, to |-> p[2],
                                     slot |-> Lo(r, p[2]) + head[r][p[2]],
                                     row |-> RowOf(r, p)]}
           \/ /\ wire' = wire
              /\ ~ (Lo(r, p[2]) + head[r][p[2]] < Capacity)
  BY SendFacts
<1>4. /\ Fits' = Fits /\ \A s, d : Due(s, d)' = Due(s, d) /\ From(s, d)' = From(s, d)
      /\ \A s, t : Own(s, t)' = Own(s, t)
  BY <1>2, Fixed DEF Own
<1>5. \A s, d : Open(s, d)' = Open(s, d)
  BY <1>2 DEF Open
<1>6. mem' = mem /\ stage' = stage
  BY <1>2
<1> SUFFICES ASSUME Fits, NEW s \in Rank, NEW d \in Rank, Open(s, d) PROVE View(s, d)'
  BY <1>4, <1>5 DEF ViewInv
<1>7. View(s, d)
  BY DEF ViewInv
<1>8. \A put \in wire : put \in wire'
  BY <1>3
<1>9. CASE stage[r] = "return"
  <2>1. Met(r)
    BY <1>9 DEF RhythmInv, InRhythm
  <2>2. d # p[2] /\ s # r
    <3>1. stage[p[2]] \in {"combine", "return", "reduce", "thrown"}
      BY <1>2, <1>9, <2>1, PhaseReturn
    <3> QED BY <1>9, <3>1 DEF Open
  <2>3. head'[s] = head[s] /\ todo'[s] = todo[s]
    BY <1>1, <1>2, <1>3, <2>2
  <2>4. \A put \in wire' : put \in wire \/ put.to # d
    BY <1>3, <2>2
  <2>5. \A i, row : Held(d, i, row) => Held(d, i, row)'
    BY <1>6, <1>8, <2>4, HeldKept
  <2> QED BY <1>4, <1>7, <2>3, <2>5 DEF View
<1>10. CASE stage[r] = "send"
  <2>1. PICK x \in Rank : x = p[2]
    BY <1>2
  <2>2. PICK h \in Nat, f \in Nat : h = head[r][x] /\ f = From(r, x)
    <3>1. r \in 0 .. NumRanks
      BY NumRanksAssumption DEF Rank
    <3> QED BY <1>1, <1>2, <2>1, <3>1, Places
  <2>3. h < Counts[r][x] /\ Lo(r, x) = f /\ RowOf(r, p) = Own(r, p[1])
    BY <1>2, <1>10, <2>1, <2>2 DEF Share, Lo, RowOf
  <2>4. Lo(r, x) + h < Capacity
    BY <1>10, <2>2, <2>3, RoomToSend DEF Fits
  <2> DEFINE new == [from |-> r, to |-> x, slot |-> f + h, row |-> Own(r, p[1])]
  <2>5. wire' = wire \cup {new} /\ U = todo[r] \ {p}
    BY <1>3, <2>1, <2>2, <2>3, <2>4
  <2>6. \A y \in Rank : head'[r][y] = IF y = x THEN h + 1 ELSE head[r][y]
    BY <1>1, <1>2, <2>1, <2>2
  <2>7. todo'[r] = todo[r] \ {p}
    BY <1>1, <1>3, <2>5
  <2>8. s # r => head'[s] = head[s] /\ todo'[s] = todo[s]
    BY <1>1, <1>2, <1>3
  <2>9. head[s][d] \in Nat /\ head[s][d] <= Counts[s][d] /\ Counts[s][d] \in Nat /\ Counts[r][x] \in Nat
    BY <2>1, HeadBound DEF Open
  <2>10. ASSUME NEW i \in 0 .. head[s][d] - 1, NEW t, Held(d, From(s, d) + i, Own(s, t))
         PROVE  Held(d, From(s, d) + i, Own(s, t))'
    <3>1. d = x => From(s, d) + i # f + h
      <4> SUFFICES ASSUME d = x PROVE From(s, d) + i # f + h
        OBVIOUS
      <4>1. i \in Nat /\ i < Counts[s][d]
        BY <2>9
      <4>2. CASE s = r
        BY <2>2, <2>9, <4>2
      <4>3. CASE s # r
        BY <1>1, <2>2, <2>3, <4>1, <4>3, SlotsApart
      <4> QED BY <4>2, <4>3
    <3>2. \A put \in wire' : put \in wire \/ put.to # d \/ put.slot # From(s, d) + i
      BY <2>5, <3>1
    <3> HIDE DEF new
    <3>3. PICK k : k = From(s, d) + i
      OBVIOUS
    <3>4. PICK row : row = Own(s, t)
      OBVIOUS
    <3>5. Held(d, k, row)'
      BY <1>6, <1>8, <2>10, <3>2, <3>3, <3>4, HeldKept
    <3> QED BY <1>4, <3>3, <3>4, <3>5 DEF Held
  <2>11. CASE s = r /\ d = x
    <3>1. head'[s][d] = h + 1 /\ head[s][d] = h
      BY <2>2, <2>6, <2>11
    <3>2. p[1] \in Due(s, d)
      BY <1>10, <2>1, <2>11 DEF WorkInv, Work
    <3>3. Held(d, From(s, d) + h, Own(s, p[1]))'
      <4>1. new \in wire' /\ new.to = d /\ new.slot = f + h /\ new.row = Own(r, p[1])
        BY <2>5, <2>11
      <4>2. (From(s, d))' = f /\ (Own(s, p[1]))' = Own(r, p[1])
        BY <1>4, <2>2, <2>11
      <4> HIDE DEF new
      <4> QED BY <4>1, <4>2 DEF Held
    <3>4. \A i \in 0 .. h : i \in 0 .. h - 1 \/ i = h
      OBVIOUS
    <3>5. \A i \in 0 .. h : \E t \in Due(s, d) : Held(d, From(s, d) + i, Own(s, t))'
      BY <1>7, <2>10, <3>1, <3>2, <3>3, <3>4 DEF View
    <3>6. ASSUME NEW t \in Due(s, d), <<t, d>> \notin todo'[s]
          PROVE  \E i \in 0 .. h : Held(d, From(s, d) + i, Own(s, t))'
      <4>1. CASE <<t, d>> \in todo[s]
        <5>1. <<t, d>> = p
          BY <2>7, <2>11, <3>6, <4>1
        <5>2. t = p[1] /\ h \in 0 .. h
          BY <5>1
        <5> QED BY <3>3, <5>2
      <4>2. CASE <<t, d>> \notin todo[s]
        <5>1. PICK i \in 0 .. h - 1 : Held(d, From(s, d) + i, Own(s, t))
          BY <1>7, <3>1, <4>2 DEF View
        <5>2. i \in 0 .. h
          OBVIOUS
        <5> QED BY <2>10, <3>1, <5>1, <5>2
      <4> QED BY <4>1, <4>2
    <3>7. (h + 1) - 1 = h
      OBVIOUS
    <3> QED BY <1>4, <3>1, <3>5, <3>6, <3>7 DEF View
  <2>12. CASE ~ (s = r /\ d = x)
    <3>1. head'[s][d] = head[s][d]
      BY <2>6, <2>8, <2>12
    <3>2. \A t : <<t, d>> \notin todo'[s] => <<t, d>> \notin todo[s]
      <4>1. CASE s = r
        <5>1. \A t : <<t, d>> # p
          BY <2>1, <2>12, <4>1
        <5> QED BY <2>7, <4>1, <5>1
      <4>2. CASE s # r
        BY <2>8, <4>2
      <4> QED BY <4>1, <4>2
    <3> QED BY <1>4, <1>7, <2>10, <3>1, <3>2 DEF View
  <2> QED BY <2>11, <2>12
<1> QED BY <1>2, <1>9, <1>10

(* A step of a stream keeps every row that is still to be copied.          *)
LEMMA ViewStep ==
  ASSUME RhythmInv, HostInv, WorkInv, DataTyped, ViewInv, NEW r \in Rank, RankStep(r)
  PROVE  ViewInv'
<1>1. /\ stage \in [Rank -> Stages] /\ route \in Routes /\ call \in [Rank -> DOMAIN Calls]
      /\ head \in [Rank -> [Rank -> 0 .. NumTokens]] /\ todo \in [Rank -> SUBSET (Nat \X Rank)]
  BY DEF RhythmInv, Placed, WorkInv
<1>2. CASE \E p \in todo[r] : DispatchSend(r, p) \/ CombineSend(r, p)
  BY <1>2, ViewSend
<1>3. CASE ~ \E p \in todo[r] : DispatchSend(r, p) \/ CombineSend(r, p)
  <2>1. route' = route /\ wire' = wire
    BY <1>3 DEF RankStep, Notify, Gather, StartCached, EnterBarrier, CopyLocal, StartCombine, Reduce
  <2>2. Fits' = Fits
    BY <2>1, Fixed
  <2> SUFFICES ASSUME Fits, NEW s \in Rank, NEW d \in Rank, Open(s, d)' PROVE View(s, d)'
    BY <2>2 DEF ViewInv
  <2>3. ASSUME Open(s, d), head'[s] = head[s], todo'[s] = todo[s], mem'[d] = mem[d] PROVE View(s, d)'
    BY <2>1, <2>3, ViewSame DEF ViewInv
  <2>4. CASE Notify(r)
    <3>1. /\ stage[r] = "dispatch" /\ stage' = [stage EXCEPT ![r] = "gather"]
          /\ UNCHANGED <<call, head, todo, mem>>
      BY <2>4 DEF Notify
    <3>2. Open(s, d)
      BY <1>1, <3>1 DEF Open
    <3> QED BY <2>3, <3>1, <3>2
  <2>5. CASE Gather(r) \/ StartCached(r)
    <3>1. /\ stage[r] \in {"dispatch", "gather"} /\ UNCHANGED <<call, mem>>
          /\ \/ stage' = [stage EXCEPT ![r] = "thrown"] /\ UNCHANGED <<head, todo>>
             \/ LaunchSend(r)
      BY <2>5 DEF Gather, StartCached
    <3>2. CASE stage' = [stage EXCEPT ![r] = "thrown"] /\ UNCHANGED <<head, todo>>
      <4>1. Open(s, d)
        BY <1>1, <3>1, <3>2 DEF Open
      <4> QED BY <2>3, <3>1, <3>2, <4>1
    <3>3. CASE LaunchSend(r)
      <4>1. /\ head' = [head EXCEPT ![r] = [q \in Rank |-> 0]] /\ todo' = [todo EXCEPT ![r] = ToSend(r)]
            /\ \A q \in Rank : q # r => stage'[q] = stage[q]
        BY <1>1, <3>3 DEF LaunchSend, ToSend
      <4>2. CASE s = r
        <5>1. head'[s][d] = 0 /\ todo'[s] = ToSend(s)
          BY <1>1, <4>1, <4>2
        <5>2. \A t \in Due(s, d)' : <<t, d>> \in todo'[s]
          BY <1>1, <2>1, <5>1, Fixed, LaunchLeft
        <5>3. 0 .. 0 - 1 = {}
          OBVIOUS
        <5> QED BY <5>1, <5>2, <5>3 DEF View
      <4>3. CASE s # r
        <5>1. head'[s] = head[s] /\ todo'[s] = todo[s]
          BY <1>1, <4>1, <4>3
        <5>2. Open(s, d)
          BY <3>1, <4>1, <4>3 DEF Open
        <5> QED BY <2>3, <3>1, <5>1, <5>2
      <4> QED BY <4>2, <4>3
    <3> QED BY <3>1, <3>2, <3>3
  <2>6. CASE EnterBarrier(r)
    <3>1. /\ stage[r] \in {"send", "return"} /\ UNCHANGED <<call, head, todo, mem>>
          /\ \A q \in Rank : stage'[q] = IF q # r THEN stage[q]
                                         ELSE IF stage[r] = "send" THEN "copy" ELSE "reduce"
      BY <1>1, <2>6 DEF EnterBarrier
    <3>2. Open(s, d)
      BY <3>1 DEF Open
    <3> QED BY <2>3, <3>1, <3>2
  <2>7. CASE CopyLocal(r)
    <3>1. /\ stage[r] = "copy" /\ stage' = [stage EXCEPT ![r] = "combine"]
          /\ UNCHANGED <<call, head, todo, mem>>
      BY <2>7 DEF CopyLocal
    <3>2. Open(s, d)
      BY <1>1, <3>1 DEF Open
    <3> QED BY <2>3, <3>1, <3>2
  <2>8. CASE StartCombine(r)
    <3>1. /\ stage'[r] \in {"return", "thrown"} /\ UNCHANGED call
          /\ \A q \in Rank : q # r => /\ stage'[q] = stage[q] /\ head'[q] = head[q]
                                      /\ todo'[q] = todo[q] /\ mem'[q] = mem[q]
      <4>1. mem' = [mem EXCEPT ![r] = Cleared(@)] \/ mem' = mem
        BY <2>8 DEF StartCombine
      <4>2. \A q \in Rank : q # r => mem'[q] = mem[q]
        BY <4>1 DEF DataTyped
      <4> QED BY <1>1, <2>8, <4>2 DEF StartCombine
    <3>2. Open(s, d) /\ s # r /\ d # r
      BY <3>1 DEF Open
    <3> QED BY <2>3, <3>1, <3>2
  <2>9. CASE Reduce(r)
    <3>1. /\ stage[r] = "reduce" /\ UNCHANGED <<head, todo, mem>>
          /\ \A q \in Rank : q # r => stage'[q] = stage[q] /\ call'[q] = call[q]
          /\ stage'[r] = IF call[r] < Len(Calls) THEN "dispatch" ELSE "done"
          /\ call'[r] = IF call[r] < Len(Calls) THEN call[r] + 1 ELSE call[r]
      BY <1>1, <2>9 DEF Reduce
    <3>2. s # r
      BY <3>1 DEF Open
    <3>3. d # r
      <4> SUFFICES ASSUME d = r PROVE FALSE
        OBVIOUS
      <4>1. call[s] = call[r] + 1 /\ call[r] \in Nat /\ stage[s] \in {"send", "copy", "combine"}
        BY <1>1, <3>1, <3>2, CallFacts DEF Open
      <4> QED BY <4>1, Lag
    <3>4. Open(s, d)
      BY <3>1, <3>2, <3>3 DEF Open
    <3> QED BY <2>3, <3>1, <3>4
  <2> QED BY <1>3, <2>4, <2>5, <2>6, <2>7, <2>8, <2>9 DEF RankStep
<1> QED BY <1>2, <1>3

-----------------------------------------------------------------------------
(* A list that is not touched stays right.                                 *)
LEMMA ReceivedSame ==
  ASSUME NEW r \in Rank, Received(r), route' = route, recv'[r] = recv[r]
  PROVE  Received(r)'
<1>1. /\ \A s : Due(s, r)' = Due(s, r) /\ From(s, r)' = From(s, r)
      /\ \A s, t : Own(s, t)' = Own(s, t)
  BY Fixed DEF Own
<1>2. DOMAIN recv'[r] = 0 .. From(NumRanks, r)' - 1
  BY <1>1 DEF Received
<1>3. \A i, j \in DOMAIN recv'[r] : recv'[r][i] = recv'[r][j] => i = j
  BY <1>1 DEF Received
<1>4. ASSUME NEW s \in Rank
      PROVE  /\ \A i \in From(s, r)' .. From(s + 1, r)' - 1 :
                  \E t \in Due(s, r)' : recv'[r][i] = Own(s, t)'
             /\ \A t \in Due(s, r)' :
                  \E i \in From(s, r)' .. From(s + 1, r)' - 1 : recv'[r][i] = Own(s, t)'
  BY <1>1 DEF Received
<1> QED BY <1>2, <1>3, <1>4 DEF Received

(* The copy: all have sent, and what they sent is there.                   *)
LEMMA CopyReceives ==
  ASSUME RhythmInv, HostInv, WorkInv, WireInv, DataTyped, ViewInv, DOMAIN recv = Rank,
         NEW r \in Rank, CopyLocal(r)
  PROVE  Received(r)'
<1>1. /\ stage[r] = "copy" /\ Met(r) /\ route' = route
      /\ recv' = [recv EXCEPT ![r] = [i \in 0 .. NumRecv(r) - 1 |-> mem[r][i]]]
  BY DEF CopyLocal
<1>2. route \in Routes /\ From(NumRanks, r) \in Nat
  <2>1. NumRanks \in 0 .. NumRanks
    BY NumRanksAssumption
  <2> QED BY <2>1, Places DEF RhythmInv, Placed
<1>3. PICK n \in Nat : n = From(NumRanks, r)
  BY <1>2
<1>4. NumRecv(r) = n
  BY <1>1, <1>3, NumRecvIs
<1>5. \A s \in Rank : call[s] = call[r] /\ stage[s] \in {"copy", "combine"}
  BY <1>1, PhaseCopy
<1>6. wire = {}
  BY <1>5 DEF WireInv
<1>7. Fits
  BY <1>5 DEF HostInv, Fits
<1>8. DOMAIN recv'[r] = 0 .. n - 1 /\ \A i \in 0 .. n - 1 : recv'[r][i] = mem[r][i]
  BY <1>1, <1>4
<1>9. ASSUME NEW s \in Rank
      PROVE  /\ From(s, r) \in Nat /\ From(s + 1, r) = From(s, r) + Counts[s][r] /\ Counts[s][r] \in Nat
             /\ From(s + 1, r) <= n /\ head[s][r] = Counts[s][r]
             /\ From(s, r) .. From(s + 1, r) - 1 \subseteq 0 .. n - 1
  <2>1. s \in 0 .. NumRanks /\ s + 1 \in 0 .. NumRanks /\ NumRanks \in 0 .. NumRanks /\ s + 1 <= NumRanks
    BY NumRanksAssumption DEF Rank
  <2>2. From(s, r) \in Nat /\ From(s + 1, r) = From(s, r) + Counts[s][r] /\ From(s + 1, r) <= n
        /\ From(s + 1, r) \in Nat
    BY <1>2, <1>3, <2>1, Places
  <2>3. head[s][r] = Counts[s][r] /\ Counts[s][r] \in Nat
    BY <1>5, <1>7, HeadBound
  <2> QED BY <2>2, <2>3
<1>10. ASSUME NEW s \in Rank
       PROVE  /\ \A k \in 0 .. head[s][r] - 1 : \E t \in Due(s, r) : mem[r][From(s, r) + k] = Own(s, t)
              /\ \A t \in Due(s, r) : \E k \in 0 .. head[s][r] - 1 : mem[r][From(s, r) + k] = Own(s, t)
  <2>1. View(s, r)
    BY <1>1, <1>5, <1>7 DEF ViewInv, Open
  <2>2. todo[s] = {}
    BY <1>5 DEF WorkInv, Work
  <2>3. \A i, row : Held(r, i, row) => mem[r][i] = row
    BY <1>6 DEF Held
  <2> QED BY <2>1, <2>2, <2>3 DEF View
<1>11. ASSUME NEW s \in Rank
       PROVE  /\ \A i \in From(s, r) .. From(s + 1, r) - 1 :
                   \E t \in Due(s, r) : recv'[r][i] = Own(s, t)
              /\ \A t \in Due(s, r) :
                   \E i \in From(s, r) .. From(s + 1, r) - 1 : recv'[r][i] = Own(s, t)
  <2>1. PICK f \in Nat, c \in Nat : f = From(s, r) /\ c = Counts[s][r]
    BY <1>9
  <2>2. /\ From(s + 1, r) = f + c /\ head[s][r] = c
        /\ \A i \in f .. f + c - 1 : recv'[r][i] = mem[r][i]
    BY <1>8, <1>9, <2>1
  <2>3. ASSUME NEW i \in f .. f + c - 1 PROVE \E t \in Due(s, r) : recv'[r][i] = Own(s, t)
    <3>1. i - f \in 0 .. c - 1 /\ f + (i - f) = i
      OBVIOUS
    <3>2. PICK t \in Due(s, r) : mem[r][f + (i - f)] = Own(s, t)
      BY <1>10, <2>1, <2>2, <3>1
    <3> QED BY <2>2, <3>1, <3>2
  <2>4. ASSUME NEW t \in Due(s, r) PROVE \E i \in f .. f + c - 1 : recv'[r][i] = Own(s, t)
    <3>1. PICK k \in 0 .. c - 1 : mem[r][f + k] = Own(s, t)
      BY <1>10, <2>1, <2>2, ZenonT(60)
    <3>2. f + k \in f .. f + c - 1
      OBVIOUS
    <3>3. recv'[r][f + k] = Own(s, t)
      BY <2>2, <3>1, <3>2
    <3> QED BY <3>2, <3>3
  <2> QED BY <2>1, <2>2, <2>3, <2>4
<1>12. ASSUME NEW i \in 0 .. n - 1, NEW j \in 0 .. n - 1, recv'[r][i] = recv'[r][j] PROVE i = j
  <2>1. PICK s \in Rank : i \in From(s, r) .. From(s + 1, r) - 1
    BY <1>2, <1>3, OwnerOf
  <2>2. PICK q \in Rank : j \in From(q, r) .. From(q + 1, r) - 1
    BY <1>2, <1>3, OwnerOf
  <2>3. PICK t \in Due(s, r) : recv'[r][i] = Own(s, t)
    BY <1>11, <2>1
  <2>4. PICK u \in Due(q, r) : recv'[r][j] = Own(q, u)
    BY <1>11, <2>2
  <2>0. \A x, y : Own(x, y).by = x /\ Own(x, y).idx = y
    BY DEF Own
  <2>5. s = q /\ t = u
    <3>1. Own(s, t) = Own(q, u)
      BY <1>12, <2>3, <2>4
    <3>2. s = Own(s, t).by /\ q = Own(q, u).by /\ t = Own(s, t).idx /\ u = Own(q, u).idx
      BY <2>0
    <3> QED BY <3>1, <3>2
  <2> DEFINE g == [k \in From(s, r) .. From(s + 1, r) - 1 |-> recv'[r][k].idx]
  <2>6. \A k \in From(s, r) .. From(s + 1, r) - 1 : g[k] \in Due(s, r)
    BY <1>11, <2>0
  <2>7. \A v \in Due(s, r) : \E k \in From(s, r) .. From(s + 1, r) - 1 : g[k] = v
    <3> SUFFICES ASSUME NEW v \in Due(s, r)
                 PROVE  \E k \in From(s, r) .. From(s + 1, r) - 1 : g[k] = v
      OBVIOUS
    <3>1. PICK k \in From(s, r) .. From(s + 1, r) - 1 : recv'[r][k] = Own(s, v)
      BY <1>11
    <3>2. g[k] = v
      BY <2>0, <3>1
    <3> QED BY <3>2
  <2>8. g[i] = g[j]
    BY <2>1, <2>2, <2>5, <1>12
  <2>9. IsFiniteSet(Due(s, r)) /\ Cardinality(Due(s, r)) = Counts[s][r]
    BY <1>2, RouteFacts
  <2>10. PICK a \in Int, b \in Int : a = From(s, r) /\ b = From(s + 1, r)
    BY <1>9
  <2>11. Cardinality(Due(s, r)) = b - a /\ a <= b
    BY <1>9, <2>9, <2>10
  <2> HIDE DEF g
  <2>12. \A k, l \in a .. b - 1 : g[k] = g[l] => k = l
    BY <2>6, <2>7, <2>9, <2>10, <2>11, CoverOnce
  <2> QED BY <2>1, <2>2, <2>5, <2>8, <2>10, <2>12
<1>13. /\ \A s : Due(s, r)' = Due(s, r) /\ From(s, r)' = From(s, r)
       /\ \A s, t : Own(s, t)' = Own(s, t)
  BY <1>1, Fixed DEF Own
<1> QED BY <1>3, <1>8, <1>11, <1>12, <1>13 DEF Received

(* A list is made once a dispatch, when all have sent.                     *)
LEMMA RecvStep ==
  ASSUME RhythmInv, HostInv, WorkInv, WireInv, DataTyped, ViewInv, RecvInv,
         NEW r \in Rank, RankStep(r)
  PROVE  RecvInv'
<1>1. /\ stage \in [Rank -> Stages] /\ DOMAIN recv = Rank
      /\ \A q \in Rank : stage[q] \in {"combine", "return", "reduce"} => Received(q)
  BY DEF RecvInv, RhythmInv, Placed
<1>2. route' = route
  BY DEF RankStep, Notify, Gather, StartCached, DispatchSend, CombineSend, PutRow, EnterBarrier,
         CopyLocal, StartCombine, Reduce
<1>3. ASSUME recv' = recv,
             \A q \in Rank : stage'[q] \in {"combine", "return", "reduce"} =>
               stage[q] \in {"combine", "return", "reduce"}
      PROVE  RecvInv'
  <2>1. ASSUME NEW q \in Rank, stage'[q] \in {"combine", "return", "reduce"} PROVE Received(q)'
    BY <1>1, <1>2, <1>3, <2>1, ReceivedSame
  <2> QED BY <1>1, <1>3, <2>1 DEF RecvInv, Received
<1>4. CASE CopyLocal(r)
  <2>1. /\ stage' = [stage EXCEPT ![r] = "combine"]
        /\ DOMAIN recv' = Rank /\ \A q \in Rank : q # r => recv'[q] = recv[q]
    BY <1>1, <1>4 DEF CopyLocal
  <2>2. ASSUME NEW q \in Rank, stage'[q] \in {"combine", "return", "reduce"} PROVE Received(q)'
    <3>1. CASE q = r
      BY <1>1, <1>4, <3>1, CopyReceives
    <3>2. CASE q # r
      <4>1. stage'[q] = stage[q]
        BY <1>1, <2>1, <3>2
      <4> QED BY <1>1, <1>2, <2>1, <2>2, <3>2, <4>1, ReceivedSame
    <3> QED BY <3>1, <3>2
  <2> QED BY <2>1, <2>2 DEF RecvInv, Received
<1>5. CASE Notify(r) \/ Gather(r) \/ StartCached(r) \/ EnterBarrier(r) \/ StartCombine(r) \/ Reduce(r)
  <2>1. recv' = recv
    BY <1>5 DEF Notify, Gather, StartCached, EnterBarrier, StartCombine, Reduce
  <2>2. \A q \in Rank : q # r => stage'[q] = stage[q]
    <3>1. CASE Gather(r)
      <4>1. stage' = [stage EXCEPT ![r] = "thrown"] \/ LaunchSend(r)
        BY <3>1 DEF Gather
      <4> QED BY <1>1, <4>1 DEF LaunchSend
    <3>2. CASE Notify(r) \/ StartCached(r) \/ EnterBarrier(r) \/ StartCombine(r) \/ Reduce(r)
      BY <1>1, <3>2 DEF Notify, StartCached, LaunchSend, EnterBarrier, StartCombine, Reduce
    <3> QED BY <1>5, <3>1, <3>2
  <2>3. stage'[r] \in {"combine", "return", "reduce"} => stage[r] \in {"combine", "return", "reduce"}
    <3>1. CASE Gather(r)
      <4>1. stage' = [stage EXCEPT ![r] = "thrown"] \/ LaunchSend(r)
        BY <3>1 DEF Gather
      <4> QED BY <1>1, <4>1 DEF LaunchSend
    <3>2. CASE Notify(r) \/ StartCached(r) \/ Reduce(r)
      BY <1>1, <3>2 DEF Notify, StartCached, LaunchSend, Reduce
    <3>3. CASE EnterBarrier(r) \/ StartCombine(r)
      BY <1>1, <3>3 DEF EnterBarrier, StartCombine
    <3> QED BY <1>5, <3>1, <3>2, <3>3
  <2> QED BY <1>3, <2>1, <2>2, <2>3
<1>6. CASE \E p \in todo[r] : DispatchSend(r, p) \/ CombineSend(r, p)
  <2>1. recv' = recv /\ stage' = stage
    BY <1>6 DEF DispatchSend, CombineSend, PutRow
  <2> QED BY <1>3, <2>1
<1> QED BY <1>4, <1>5, <1>6 DEF RankStep

-----------------------------------------------------------------------------
(* A row of r's that a rank it was sent to has given back, and that this   *)
(* rank has no more to give.                                               *)
Genuine(row, r) == \E e \in Rank : \E t \in Due(r, e) : row = Contribution(e, r, t)
Spent(row) == /\ stage[row.by] # "combine"
              /\ \A p \in todo[row.by] : recv[row.by][p[1]].of # row.of

(* The rows of a combine, in flight and in a region whose index is set,    *)
(* are genuine, and each is in one place only.                             *)
Single(r) ==
  \A i \in Slot : mem[r][i].idx # -1 =>
    /\ Genuine(mem[r][i], r) /\ Spent(mem[r][i])
    /\ \A j \in Slot : mem[r][j] = mem[r][i] => j = i
    /\ \A put \in wire : put.to = r => put.row # mem[r][i]
BackInv ==
  /\ \A put \in wire : stage[put.from] = "return" =>
       put.row.by = put.from /\ Genuine(put.row, put.to) /\ Spent(put.row)
  /\ \A p, q \in wire : stage[p.from] = "return" /\ p.to = q.to /\ p.row = q.row => p = q
  /\ \A r \in Rank : stage[r] \in {"return", "reduce"} => Single(r)

(* What was added to a token.                                              *)
Added(r) ==
  /\ out[r] \in [TokensOf(r) -> SUBSET (Slot \X Row)]
  /\ \A t \in TokensOf(r) : \A c \in out[r][t] :
       /\ \E e \in route[r][t] : c[2] = Contribution(e, r, t)
       /\ \A b \in out[r][t] : b[2] = c[2] => b = c
OutInv == DOMAIN out = Rank /\ \A r \in Rank : Added(r)

(* A genuine row has been put by a rank, and stays genuine.                *)
LEMMA GenuineFacts ==
  /\ \A row, r : Genuine(row, r) => row.by \in Rank
  /\ route' = route => \A row, r : Genuine(row, r) => Genuine(row, r)'
<1>1. \A e, r, t : Contribution(e, r, t).by = e /\ Contribution(e, r, t)' = Contribution(e, r, t)
  BY DEF Contribution
<1>2. route' = route => \A s, d : Due(s, d)' = Due(s, d)
  BY Fixed
<1> QED BY <1>1, <1>2 DEF Genuine

(* A step that keeps all rows where they are.                              *)
LEMMA BackQuiet ==
  ASSUME BackInv, route' = route, UNCHANGED <<wire, mem, recv, todo>>,
         \A q \in Rank : stage'[q] = "combine" => stage[q] = "combine",
         \A put \in wire : stage'[put.from] = "return" => stage[put.from] = "return",
         \A q \in Rank : stage'[q] \in {"return", "reduce"} => stage[q] \in {"return", "reduce"}
  PROVE  BackInv'
<1>1. \A row, r : Genuine(row, r) => Genuine(row, r)' /\ row.by \in Rank
  BY GenuineFacts
<1>2. \A row : row.by \in Rank /\ Spent(row) => Spent(row)'
  BY DEF Spent
<1>3. ASSUME NEW r \in Rank, Single(r) PROVE Single(r)'
  BY <1>1, <1>2, <1>3 DEF Single
<1> QED BY <1>1, <1>2, <1>3 DEF BackInv

(* A step of a phase in which no rank gives rows back.                     *)
LEMMA BackNone ==
  ASSUME WireInv', \A q \in Rank : stage'[q] \notin {"return", "reduce"}
  PROVE  BackInv'
<1>1. \A put \in wire' : put.from \in Rank
  BY DEF WireInv
<1> QED BY <1>1 DEF BackInv

(* A thread that gives a row back takes it off its list.                   *)
LEMMA BackSend ==
  ASSUME RhythmInv, HostInv, WorkInv, RecvInv, WireInv, BackInv, NEW r \in Rank,
         NEW p \in todo[r], CombineSend(r, p)
  PROVE  BackInv'
<1>1. /\ stage \in [Rank -> Stages] /\ route \in Routes /\ stage[r] = "return" /\ Met(r)
      /\ todo \in [Rank -> SUBSET (Nat \X Rank)]
  BY DEF RhythmInv, Placed, InRhythm, CombineSend, WorkInv
<1>2. UNCHANGED <<route, stage, mem, recv>> /\ p[2] \in Rank
  BY SendFacts
<1>3. PICK U \in SUBSET (todo[r] \ {p}) :
        /\ todo' = [todo EXCEPT ![r] = U]
        /\ \/ /\ U = todo[r] \ {p}
              /\ wire' = wire \cup {[from |-> r, to |-> p[2],
                                     slot |-> Lo(r, p[2]) + head[r][p[2]],
                                     row |-> RowOf(r, p)]}
           \/ wire' = wire
  BY SendFacts
<1>4. PICK new : new = [from |-> r, to |-> p[2], slot |-> Lo(r, p[2]) + head[r][p[2]],
                        row |-> RowOf(r, p)]
  OBVIOUS
<1>5. new.from = r /\ new.to = p[2] /\ new.row = RowOf(r, p)
  BY <1>4
<1>6. /\ p[1] \in DOMAIN recv[r]
      /\ \E t \in Due(p[2], r) : recv[r][p[1]] = Own(p[2], t) /\ RowOf(r, p) = Contribution(r, p[2], t)
  BY <1>1, ReturnRow
<1>7. Genuine(new.row, p[2]) /\ new.row.by = r /\ new.row.of = recv[r][p[1]].of
  <2>1. \A e, x, t : Contribution(e, x, t).by = e /\ Contribution(e, x, t).of = <<x, t>>
                     /\ Own(x, t).of = <<x, t>>
    BY DEF Contribution, Own
  <2> QED BY <1>1, <1>5, <1>6, <2>1 DEF Genuine
<1>8. todo'[r] = U /\ \A q \in Rank : todo'[q] \subseteq todo[q]
  BY <1>1, <1>3
<1>9. \A row, x : Genuine(row, x) => Genuine(row, x)' /\ row.by \in Rank
  BY <1>2, GenuineFacts
<1>10. \A row : row.by \in Rank /\ Spent(row) => Spent(row)'
  BY <1>2, <1>8 DEF Spent
<1>11. \A row : Spent(row) /\ row.by = r => row.of # new.row.of
  BY <1>7 DEF Spent
<1>12. \A put \in wire : put.to = p[2] => put.row # new.row
  <2> SUFFICES ASSUME NEW put \in wire, put.to = p[2], put.row = new.row PROVE FALSE
    OBVIOUS
  <2>1. put.from \in Rank /\ stage[put.from] \in {"send", "return"}
    BY DEF WireInv
  <2>2. stage[put.from] # "send"
    BY <1>1, <2>1, PhaseReturn
  <2>3. Spent(put.row)
    BY <2>1, <2>2 DEF BackInv
  <2> QED BY <1>7, <1>11, <2>3
<1>13. CASE wire' = wire
  <2>1. ASSUME NEW x \in Rank, Single(x) PROVE Single(x)'
    BY <1>2, <1>9, <1>10, <1>13, <2>1 DEF Single
  <2> QED BY <1>2, <1>9, <1>10, <1>13, <2>1 DEF BackInv
<1>14. CASE U = todo[r] \ {p} /\ wire' = wire \cup {new}
  <2>1. Spent(new.row)'
    <3> SUFFICES ASSUME NEW q \in todo[r], q # p PROVE recv[r][q[1]].of # new.row.of
      <4>1. stage'[r] # "combine" /\ todo'[r] = todo[r] \ {p} /\ recv' = recv /\ new.row.by = r
        BY <1>1, <1>2, <1>7, <1>8, <1>14
      <4> QED BY <4>1 DEF Spent
    <3>1. /\ q[1] \in DOMAIN recv[r]
          /\ \E t \in Due(q[2], r) : recv[r][q[1]] = Own(q[2], t)
      BY <1>1, ReturnRow
    <3>2. PICK t, u : recv[r][q[1]] = Own(q[2], t) /\ recv[r][p[1]] = Own(p[2], u)
      BY <1>6, <3>1
    <3>3. q[1] # p[1]
      <4>1. q[2] = SourceOf(r, q[1]) /\ p[2] = SourceOf(r, p[1])
        BY <1>1 DEF WorkInv, Work
      <4>2. p = <<p[1], p[2]>> /\ q = <<q[1], q[2]>>
        BY <1>1
      <4> QED BY <4>1, <4>2
    <3>4. recv[r][q[1]] # recv[r][p[1]]
      BY <1>1, <1>6, <3>1, <3>3 DEF RecvInv, Received
    <3>5. Own(q[2], t) # Own(p[2], u)
      BY <3>2, <3>4
    <3>6. <<q[2], t>> # <<p[2], u>>
      BY <3>5
    <3>7. Own(q[2], t).of = <<q[2], t>> /\ Own(p[2], u).of = <<p[2], u>>
      BY DEF Own
    <3> QED BY <1>7, <3>2, <3>6, <3>7
  <2>2. \A put \in wire' : stage'[put.from] = "return" =>
          put.row.by = put.from /\ Genuine(put.row, put.to)' /\ Spent(put.row)'
    <3> SUFFICES ASSUME NEW put \in wire', stage[put.from] = "return"
                 PROVE  put.row.by = put.from /\ Genuine(put.row, put.to)' /\ Spent(put.row)'
      BY <1>2
    <3>1. CASE put \in wire
      BY <1>9, <1>10, <3>1 DEF BackInv
    <3>2. CASE put = new
      BY <1>5, <1>7, <1>9, <2>1, <3>2
    <3> QED BY <1>14, <3>1, <3>2
  <2>3. \A x, y \in wire' : stage'[x.from] = "return" /\ x.to = y.to /\ x.row = y.row => x = y
    <3> SUFFICES ASSUME NEW x \in wire', NEW y \in wire', stage[x.from] = "return",
                        x.to = y.to, x.row = y.row
                 PROVE  x = y
      BY <1>2
    <3>1. CASE x \in wire /\ y \in wire
      BY <3>1 DEF BackInv
    <3>2. CASE x = new \/ y = new
      BY <1>5, <1>12, <1>14, <3>2
    <3> QED BY <1>14, <3>1, <3>2
  <2>4. ASSUME NEW x \in Rank, stage[x] \in {"return", "reduce"} PROVE Single(x)'
    <3> SUFFICES ASSUME NEW i \in Slot, mem[x][i].idx # -1
                 PROVE  /\ Genuine(mem[x][i], x)' /\ Spent(mem[x][i])'
                        /\ \A j \in Slot : mem[x][j] = mem[x][i] => j = i
                        /\ \A put \in wire' : put.to = x => put.row # mem[x][i]
      BY <1>2 DEF Single
    <3>1. /\ Genuine(mem[x][i], x) /\ Spent(mem[x][i])
          /\ \A j \in Slot : mem[x][j] = mem[x][i] => j = i
          /\ \A put \in wire : put.to = x => put.row # mem[x][i]
      BY <2>4 DEF BackInv, Single
    <3>2. PICK row : row = mem[x][i]
      OBVIOUS
    <3>3. Genuine(row, x)' /\ Spent(row)'
      BY <1>9, <1>10, <3>1, <3>2
    <3>4. new.row # row
      BY <1>7, <1>11, <3>1, <3>2
    <3>5. mem' = mem
      BY <1>2
    <3> QED BY <1>14, <3>1, <3>2, <3>3, <3>4, <3>5 DEF Genuine, Spent
  <2> QED BY <1>2, <2>2, <2>3, <2>4 DEF BackInv
<1> QED BY <1>3, <1>4, <1>13, <1>14

(* combine_send's launch: nothing in the system is r's yet.                *)
LEMMA BackStart ==
  ASSUME RhythmInv, HostInv, WorkInv, DataTyped, WireInv, BackInv, NEW r \in Rank, StartCombine(r)
  PROVE  BackInv'
<1>1. /\ stage \in [Rank -> Stages] /\ stage[r] = "combine" /\ todo \in [Rank -> SUBSET (Nat \X Rank)]
      /\ mem \in [Rank -> [Slot -> Row]]
  BY DEF RhythmInv, Placed, StartCombine, WorkInv, DataTyped
<1>2. UNCHANGED <<route, wire, recv>>
  BY DEF StartCombine
<1>3. /\ stage'[r] \in {"return", "thrown"}
      /\ \A q \in Rank : q # r => stage'[q] = stage[q] /\ todo'[q] = todo[q]
  BY <1>1 DEF StartCombine
<1>4. /\ \A q \in Rank : q # r => mem'[q] = mem[q]
      /\ stage'[r] = "return" => mem' = [mem EXCEPT ![r] = Cleared(@)]
  <2>1. \/ mem' = [mem EXCEPT ![r] = Cleared(@)]
        \/ mem' = mem /\ stage' = [stage EXCEPT ![r] = "thrown"]
    BY DEF StartCombine
  <2> QED BY <1>1, <2>1
<1>5. \A row, x : Genuine(row, x) => Genuine(row, x)' /\ row.by \in Rank
  BY <1>2, GenuineFacts
<1>6. \A row : row.by \in Rank /\ Spent(row) => Spent(row)'
  <2> SUFFICES ASSUME NEW row, row.by \in Rank, Spent(row) PROVE Spent(row)'
    OBVIOUS
  <2>1. row.by # r
    BY <1>1 DEF Spent
  <2> QED BY <1>2, <1>3, <2>1 DEF Spent
<1>7. \A put \in wire : put.from \in Rank /\ put.from # r
  BY <1>1 DEF WireInv
<1>8. ASSUME NEW x \in Rank, stage'[x] \in {"return", "reduce"} PROVE Single(x)'
  <2>1. CASE x = r
    <3>1. mem'[r] = Cleared(mem[r])
      BY <1>1, <1>3, <1>4, <1>8, <2>1
    <3>2. \A i \in Slot : mem'[r][i].idx = -1
      BY <1>1, <3>1 DEF Cleared, Row, NoRow
    <3> QED BY <2>1, <3>2 DEF Single
  <2>2. CASE x # r
    <3>1. Single(x) /\ mem'[x] = mem[x]
      BY <1>3, <1>4, <1>8, <2>2 DEF BackInv
    <3> QED BY <1>2, <1>5, <1>6, <3>1 DEF Single
  <2> QED BY <2>1, <2>2
<1> QED BY <1>2, <1>3, <1>5, <1>6, <1>7, <1>8 DEF BackInv

-----------------------------------------------------------------------------
(* A step of a stream gives no row back twice.                             *)
LEMMA BackStep ==
  ASSUME RhythmInv, HostInv, WorkInv, RecvInv, DataTyped, WireInv, BackInv,
         NEW r \in Rank, RankStep(r)
  PROVE  BackInv'
<1>1. stage \in [Rank -> Stages] /\ call[r] \in DOMAIN Calls
  BY DEF RhythmInv, Placed
<1>2. route' = route
  BY DEF RankStep, Notify, Gather, StartCached, DispatchSend, CombineSend, PutRow, EnterBarrier,
         CopyLocal, StartCombine, Reduce
<1>3. \A put \in wire : put.from \in Rank
  BY DEF WireInv
<1>4. WireInv'
  BY WireStep
<1>5. CASE Notify(r)
  <2>1. UNCHANGED <<wire, mem, recv, todo>> /\ stage' = [stage EXCEPT ![r] = "gather"]
    BY <1>5 DEF Notify
  <2>2. \A q \in Rank : stage'[q] = stage[q] \/ stage'[q] = "gather"
    BY <1>1, <2>1
  <2> QED BY <1>2, <1>3, <2>1, <2>2, BackQuiet
<1>6. CASE Gather(r) \/ StartCached(r)
  <2>1. Met(r) /\ (stage[r] = "gather" \/ (stage[r] = "dispatch" /\ ~Notified(call[r])))
    BY <1>1, <1>6, CallsAssumption DEF Gather, StartCached, Notified
  <2>2. stage' = [stage EXCEPT ![r] = "thrown"] \/ LaunchSend(r)
    BY <1>6 DEF Gather, StartCached
  <2>3. stage'[r] \in {"thrown", "send"} /\ \A q \in Rank : q # r => stage'[q] = stage[q]
    BY <1>1, <2>2 DEF LaunchSend
  <2>4. \A q \in Rank : stage[q] \in {"dispatch", "gather", "send", "copy", "thrown"}
    BY <2>1, PhaseSend
  <2>5. \A q \in Rank : stage'[q] \notin {"return", "reduce"}
    BY <2>3, <2>4
  <2> QED BY <1>4, <2>5, BackNone
<1>7. CASE \E p \in todo[r] : DispatchSend(r, p)
  <2>1. stage[r] = "send" /\ stage' = stage
    BY <1>7 DEF DispatchSend, PutRow
  <2>2. Met(r)
    BY <2>1 DEF RhythmInv, InRhythm
  <2>3. \A q \in Rank : stage[q] \in {"dispatch", "gather", "send", "copy", "thrown"}
    BY <2>1, <2>2, PhaseSend
  <2>4. \A q \in Rank : stage'[q] \notin {"return", "reduce"}
    BY <2>1, <2>3
  <2> QED BY <1>4, <2>4, BackNone
<1>8. CASE \E p \in todo[r] : CombineSend(r, p)
  BY <1>8, BackSend
<1>9. CASE EnterBarrier(r)
  <2>1. /\ UNCHANGED <<wire, mem, recv, todo>> /\ stage[r] \in {"send", "return"}
        /\ \A put \in wire : put.from # r
        /\ \A q \in Rank : stage'[q] = IF q # r THEN stage[q]
                                       ELSE IF stage[r] = "send" THEN "copy" ELSE "reduce"
    BY <1>1, <1>9 DEF EnterBarrier
  <2> QED BY <1>2, <1>3, <2>1, BackQuiet
<1>10. CASE CopyLocal(r)
  <2>1. stage[r] = "copy" /\ Met(r) /\ stage' = [stage EXCEPT ![r] = "combine"]
    BY <1>10 DEF CopyLocal
  <2>2. \A q \in Rank : stage[q] \in {"copy", "combine"}
    BY <2>1, PhaseCopy
  <2>3. \A q \in Rank : stage'[q] \notin {"return", "reduce"}
    BY <1>1, <2>1, <2>2
  <2> QED BY <1>4, <2>3, BackNone
<1>11. CASE StartCombine(r)
  BY <1>11, BackStart
<1>12. CASE Reduce(r)
  <2>1. /\ UNCHANGED <<wire, mem, recv, todo>> /\ stage'[r] \in {"dispatch", "done"}
        /\ \A q \in Rank : q # r => stage'[q] = stage[q]
    BY <1>1, <1>12 DEF Reduce
  <2> QED BY <1>2, <1>3, <2>1, BackQuiet
<1> QED BY <1>5, <1>6, <1>7, <1>8, <1>9, <1>10, <1>11, <1>12 DEF RankStep

(* A row that arrives is no longer in flight.                              *)
LEMMA BackDeliver ==
  ASSUME RhythmInv, DataTyped, WireInv, BackInv, NEW put \in wire, Deliver(put)
  PROVE  BackInv'
<1>1. /\ mem' = [mem EXCEPT ![put.to][put.slot] = put.row] /\ wire' = wire \ {put}
      /\ UNCHANGED <<route, stage, recv, todo>>
  BY DEF Deliver
<1>2. put.from \in Rank /\ put.to \in Rank /\ put.slot \in Slot /\ stage[put.from] \in {"send", "return"}
  BY DEF WireInv
<1>3. \A x \in Rank : \A i \in Slot :
        mem'[x][i] = IF x = put.to /\ i = put.slot THEN put.row ELSE mem[x][i]
  BY <1>1, <1>2 DEF DataTyped
<1>4. \A row, x : Genuine(row, x) => Genuine(row, x)' /\ row.by \in Rank
  BY <1>1, GenuineFacts
<1>5. \A row : Spent(row) => Spent(row)'
  BY <1>1 DEF Spent
<1>6. ASSUME NEW x \in Rank, stage[x] \in {"return", "reduce"} PROVE Single(x)'
  <2>1. x = put.to => stage[put.from] = "return"
    <3> SUFFICES ASSUME x = put.to, stage[put.from] = "send" PROVE FALSE
      BY <1>2
    <3>1. Met(put.from)
      BY <1>2 DEF RhythmInv, InRhythm
    <3>2. stage[x] \in {"dispatch", "gather", "send", "copy", "thrown"}
      BY <1>2, <3>1, PhaseSend
    <3> QED BY <1>6, <3>2
  <2>2. Single(x)
    BY <1>6 DEF BackInv
  <2>3. x = put.to => Genuine(put.row, x) /\ Spent(put.row)
    BY <2>1 DEF BackInv
  <2>4. x = put.to => \A y \in wire' : y.to = x => y.row # put.row
    <3> SUFFICES ASSUME x = put.to, NEW y \in wire', y.to = x, y.row = put.row PROVE FALSE
      OBVIOUS
    <3>1. y \in wire /\ y # put
      BY <1>1
    <3> QED BY <2>1, <3>1 DEF BackInv
  <2> SUFFICES ASSUME NEW i \in Slot, mem'[x][i].idx # -1
               PROVE  /\ Genuine(mem[x][i], x)' /\ Spent(mem[x][i])'
                      /\ \A j \in Slot : mem'[x][j] = mem'[x][i] => j = i
                      /\ \A y \in wire' : y.to = x => y.row # mem'[x][i]
    BY DEF Single
  <2>5. PICK row : row = mem'[x][i]
    OBVIOUS
  <2>6. CASE x = put.to /\ i = put.slot
    <3>1. row = put.row
      BY <1>3, <2>5, <2>6
    <3>2. \A j \in Slot : mem'[x][j] = row => j = i
      <4> SUFFICES ASSUME NEW j \in Slot, mem'[x][j] = row, j # i PROVE FALSE
        OBVIOUS
      <4>1. mem[x][j] = put.row
        BY <1>3, <2>6, <3>1
      <4>2. mem[x][j].idx # -1
        BY <2>5, <3>1, <4>1
      <4> QED BY <2>2, <2>6, <4>1, <4>2 DEF Single
    <3>3. Genuine(row, x)' /\ Spent(row)'
      BY <1>4, <1>5, <2>3, <2>6, <3>1
    <3>4. \A y \in wire' : y.to = x => y.row # row
      BY <2>4, <2>6, <3>1
    <3> QED BY <2>5, <3>2, <3>3, <3>4 DEF Genuine, Spent
  <2>7. CASE ~ (x = put.to /\ i = put.slot)
    <3>1. row = mem[x][i] /\ row.idx # -1
      BY <1>3, <2>5, <2>7
    <3>2. /\ Genuine(row, x) /\ Spent(row)
          /\ \A j \in Slot : mem[x][j] = row => j = i
          /\ \A y \in wire : y.to = x => y.row # row
      BY <2>2, <3>1 DEF Single
    <3>3. \A j \in Slot : mem'[x][j] = row => j = i
      BY <1>3, <3>2
    <3>4. \A y \in wire' : y.to = x => y.row # row
      BY <1>1, <3>2
    <3>5. Genuine(row, x)' /\ Spent(row)'
      BY <1>4, <1>5, <3>2
    <3> QED BY <2>5, <3>3, <3>4, <3>5 DEF Genuine, Spent
  <2> QED BY <2>6, <2>7
<1>7. \A y \in wire' : stage[y.from] = "return" =>
        y.row.by = y.from /\ Genuine(y.row, y.to)' /\ Spent(y.row)'
  BY <1>1, <1>4, <1>5 DEF BackInv
<1>8. \A y, z \in wire' : stage[y.from] = "return" /\ y.to = z.to /\ y.row = z.row => y = z
  BY <1>1 DEF BackInv
<1>9. stage' = stage
  BY <1>1
<1> QED BY <1>6, <1>7, <1>8, <1>9 DEF BackInv

(* A rank whose sums are not touched.                                      *)
LEMMA AddedSame ==
  ASSUME NEW r \in Rank, Added(r), route' = route, out'[r] = out[r]
  PROVE  Added(r)'
<1>1. TokensOf(r)' = TokensOf(r) /\ \A e, t : Contribution(e, r, t)' = Contribution(e, r, t)
  BY Fixed DEF Contribution
<1> QED BY <1>1 DEF Added

(* A step of a stream adds to a token what came from it only.              *)
LEMMA OutStep ==
  ASSUME RhythmInv, DataTyped, BackInv, OutInv, NEW r \in Rank, RankStep(r)
  PROVE  OutInv'
<1>1. DOMAIN out = Rank /\ \A q \in Rank : Added(q)
  BY DEF OutInv
<1>2. route' = route
  BY DEF RankStep, Notify, Gather, StartCached, DispatchSend, CombineSend, PutRow, EnterBarrier,
         CopyLocal, StartCombine, Reduce
<1>3. TokensOf(r)' = TokensOf(r) /\ \A e, t : Contribution(e, r, t)' = Contribution(e, r, t)
  BY <1>2, Fixed DEF Contribution
<1>4. ASSUME NEW o, out' = [out EXCEPT ![r] = o], Added(r)' PROVE OutInv'
  <2>1. DOMAIN out' = Rank /\ \A q \in Rank : q # r => out'[q] = out[q]
    BY <1>1, <1>4
  <2>2. ASSUME NEW q \in Rank PROVE Added(q)'
    <3>1. CASE q = r
      BY <1>4, <3>1
    <3>2. CASE q # r
      BY <1>1, <1>2, <2>1, <3>2, AddedSame
    <3> QED BY <3>1, <3>2
  <2> QED BY <2>1, <2>2 DEF OutInv
<1>5. CASE out' = out
  <2>1. ASSUME NEW q \in Rank PROVE Added(q)'
    BY <1>1, <1>2, <1>5, AddedSame
  <2> QED BY <1>1, <1>5, <2>1 DEF OutInv
<1>6. CASE StartCombine(r)
  <2>1. CASE out' = [out EXCEPT ![r] = [t \in TokensOf(r) |-> {}]]
    <3>1. out'[r] = [t \in TokensOf(r) |-> {}]
      BY <1>1, <2>1
    <3>2. Added(r)'
      BY <1>3, <3>1 DEF Added
    <3> QED BY <1>4, <2>1, <3>2
  <2> QED BY <1>5, <1>6, <2>1 DEF StartCombine
<1>7. CASE Reduce(r)
  <2> DEFINE found(t) == {<<i, mem[r][i]>> : i \in {j \in Slot : mem[r][j].idx = t}}
             o == [t \in TokensOf(r) |-> found(t)]
  <2>1. out' = [out EXCEPT ![r] = o] /\ stage[r] = "reduce"
    BY <1>7 DEF Reduce
  <2>2. out'[r] = o
    BY <1>1, <2>1
  <2>3. Single(r)
    BY <2>1 DEF BackInv
  <2>4. \A t : found(t) \in SUBSET (Slot \X Row)
    BY DEF DataTyped
  <2>5. TokensOf(r) \subseteq Nat
    BY RouteFacts DEF RhythmInv, Placed, Token
  <2>6. ASSUME NEW t \in TokensOf(r), NEW c \in found(t)
        PROVE  /\ \E e \in route[r][t] : c[2] = Contribution(e, r, t)
               /\ \A b \in found(t) : b[2] = c[2] => b = c
    <3>1. PICK i \in Slot : c = <<i, mem[r][i]>> /\ mem[r][i].idx = t
      OBVIOUS
    <3>2. mem[r][i].idx # -1
      BY <2>5, <3>1
    <3>3. /\ Genuine(mem[r][i], r)
          /\ \A j \in Slot : mem[r][j] = mem[r][i] => j = i
      BY <2>3, <3>2 DEF Single
    <3>4. PICK e \in Rank : \E u \in Due(r, e) : mem[r][i] = Contribution(e, r, u)
      BY <3>3 DEF Genuine
    <3>5. PICK u \in Due(r, e) : mem[r][i] = Contribution(e, r, u)
      BY <3>4
    <3>6. u = t
      <4>1. Contribution(e, r, u).idx = u
        BY DEF Contribution
      <4> QED BY <3>1, <3>5, <4>1
    <3>7. e \in route[r][t] /\ c[2] = Contribution(e, r, t)
      BY <3>1, <3>5, <3>6 DEF Due
    <3>8. ASSUME NEW b \in found(t), b[2] = c[2] PROVE b = c
      <4>1. PICK j \in Slot : b = <<j, mem[r][j]>>
        OBVIOUS
      <4> QED BY <3>1, <3>3, <3>8, <4>1
    <3> QED BY <3>7, <3>8
  <2>7. Added(r)'
    <3>1. o \in [TokensOf(r) -> SUBSET (Slot \X Row)]
      BY <2>4
    <3> HIDE DEF found
    <3>2. \A t \in TokensOf(r) : \A c \in o[t] :
            /\ \E e \in route[r][t] : c[2] = Contribution(e, r, t)
            /\ \A b \in o[t] : b[2] = c[2] => b = c
      BY <2>6
    <3> HIDE DEF o
    <3> QED BY <1>2, <1>3, <2>2, <3>1, <3>2 DEF Added
  <2> HIDE DEF o
  <2> QED BY <1>4, <2>1, <2>7
<1>8. CASE Notify(r) \/ Gather(r) \/ StartCached(r) \/ EnterBarrier(r) \/ CopyLocal(r)
           \/ \E p \in todo[r] : DispatchSend(r, p) \/ CombineSend(r, p)
  <2>1. out' = out
    BY <1>8 DEF Notify, Gather, StartCached, EnterBarrier, CopyLocal, DispatchSend, CombineSend, PutRow
  <2> QED BY <1>5, <2>1
<1> QED BY <1>6, <1>7, <1>8 DEF RankStep

(* What a delivery, or a stutter, has no part in.                          *)
LEMMA OthersKept ==
  ASSUME RhythmInv, HostInv, WorkInv, RecvInv, OutInv,
         UNCHANGED <<route, call, stage, arrived, prefix, head, todo, recv, out>>
  PROVE  RhythmInv' /\ HostInv' /\ WorkInv' /\ RecvInv' /\ OutInv'
<1>1. RhythmInv'
  BY DEF RhythmInv, Placed, InRhythm, InPlace, Met
<1>2. HostInv'
  <2>1. PrefixMatrix(Counts)' = PrefixMatrix(Counts) /\ Fits' = Fits
        /\ \A q : From(NumRanks, q)' = From(NumRanks, q)
    BY Fixed
  <2> QED BY <2>1 DEF HostInv
<1>3. WorkInv'
  <2>1. \A q \in Rank : Work(q)'
    BY WorkSame DEF WorkInv
  <2> QED BY <2>1 DEF WorkInv
<1>4. RecvInv'
  <2>1. ASSUME NEW q \in Rank, stage[q] \in {"combine", "return", "reduce"} PROVE Received(q)'
    BY <2>1, ReceivedSame DEF RecvInv, Received
  <2>2. DOMAIN recv' = Rank /\ stage' = stage
    BY DEF RecvInv, Received
  <2> QED BY <2>1, <2>2 DEF RecvInv, Received
<1>5. OutInv'
  <2>1. \A q \in Rank : Added(q)'
    BY AddedSame DEF OutInv
  <2> QED BY <2>1 DEF OutInv
<1> QED BY <1>1, <1>2, <1>3, <1>4, <1>5
-----------------------------------------------------------------------------
(* All of it.                                                              *)
Inv == /\ RhythmInv /\ HostInv /\ WorkInv /\ WireInv /\ DataTyped /\ ViewInv /\ RecvInv
       /\ BackInv /\ OutInv

(* The streams begin in order.                                             *)
LEMMA InitInv == ASSUME Init PROVE Inv
<1> USE DEF Init
<1>1. /\ route \in Routes /\ stage = [r \in Rank |-> "dispatch"] /\ call = [r \in Rank |-> 1]
      /\ arrived = [r \in Rank |-> 0]
  OBVIOUS
<1>2. RhythmInv
  <2>1. Placed
    BY CallFacts DEF Placed, Stages
  <2>2. \A r \in Rank : InPlace(r)
    BY CallFacts, BaseFacts DEF InPlace, Least
  <2> QED BY <2>1, <2>2 DEF RhythmInv, InRhythm, Met
<1>3. HostInv
  BY DEF HostInv
<1>4. WorkInv
  <2>1. \A r \in Rank : Work(r)
    BY FS_EmptySet DEF Work
  <2> QED BY <2>1, ExchangeAssumption DEF WorkInv
<1>5. WireInv
  BY DEF WireInv, PutsApart
<1>6. DataTyped
  BY DEF DataTyped, Row
<1>7. ViewInv
  BY DEF ViewInv, Open
<1>8. RecvInv
  BY DEF RecvInv, Received
<1>9. BackInv
  BY DEF BackInv
<1>10. OutInv
  BY DEF OutInv, Added
<1> QED BY <1>2, <1>3, <1>4, <1>5, <1>6, <1>7, <1>8, <1>9, <1>10 DEF Inv

(* Every step keeps it so, if the application keeps the phases apart and the*)
(* ranks send equal numbers.                                               *)
LEMMA StepInv ==
  ASSUME AppBarrier, EqualShares, Inv, [Next]_vars PROVE Inv'
<1> USE DEF Inv
<1>1. CASE \E r \in Rank : RankStep(r)
  <2>1. PICK r \in Rank : RankStep(r)
    BY <1>1
  <2> QED BY <2>1, RhythmStep, HostStep, WorkStep, WireStep, DataStep, ViewStep, RecvStep,
             BackStep, OutStep
<1>2. CASE \E put \in wire : Deliver(put)
  <2>1. PICK put \in wire : Deliver(put)
    BY <1>2
  <2>2. UNCHANGED <<route, call, stage, arrived, prefix, head, todo, recv, out>>
    BY <2>1 DEF Deliver
  <2> QED BY <2>1, <2>2, OthersKept, WireDeliver, DataDeliver, ViewDeliver, BackDeliver
<1>3. CASE UNCHANGED vars
  <2>1. UNCHANGED <<route, call, stage, arrived, prefix, head, todo, wire, mem, recv, out>>
    BY <1>3 DEF vars
  <2>2. RhythmInv' /\ HostInv' /\ WorkInv' /\ RecvInv' /\ OutInv'
    BY <2>1, OthersKept
  <2>3. WireInv' /\ DataTyped'
    <3>1. \A q, d : Lo(q, d)' = Lo(q, d)
      BY <2>1, Fixed DEF Lo
    <3>2. PutsApart'
      BY <2>1 DEF WireInv, PutsApart
    <3> QED BY <2>1, <3>1, <3>2 DEF WireInv, DataTyped
  <2>4. ViewInv'
    <3> SUFFICES ASSUME Fits, NEW s \in Rank, NEW d \in Rank, Open(s, d) PROVE View(s, d)'
      BY <2>1, Fixed DEF ViewInv, Open
    <3> QED BY <2>1, ViewSame DEF ViewInv
  <2>5. BackInv'
    BY <2>1, BackQuiet
  <2> QED BY <2>2, <2>3, <2>4, <2>5
<1> QED BY <1>1, <1>2, <1>3 DEF Next

(* The invariant of a whole series of calls, with its layers.              *)
THEOREM Invariance == ASSUME AppBarrier, EqualShares PROVE Spec => []Inv
<1>1. Init => Inv
  BY InitInv
<1>2. Inv /\ [Next]_vars => Inv'
  BY StepInv
<1> QED BY <1>1, <1>2, PTL DEF Spec

-----------------------------------------------------------------------------
(* The state of the exchange stays in its types.                           *)
THEOREM TypeCorrect == ASSUME AppBarrier, EqualShares PROVE Spec => []TypeOK
<1>1. Inv => TypeOK
  <2> SUFFICES ASSUME Inv PROVE TypeOK
    OBVIOUS
  <2>1. /\ route \in Routes /\ call \in [Rank -> DOMAIN Calls] /\ stage \in [Rank -> Stages]
        /\ arrived \in [Rank -> Nat] /\ prefix \in [Rank -> [Cell -> Nat]]
        /\ todo \in [Rank -> SUBSET (Nat \X Rank)]
        /\ wire \subseteq [from : Rank, to : Rank, slot : Slot, row : Row]
        /\ mem \in [Rank -> [Slot -> Row]]
        /\ \A r \in Rank : \A i \in DOMAIN recv[r] : recv[r][i] \in Row
        /\ DOMAIN out = Rank
        /\ \A r \in Rank : out[r] \in [TokensOf(r) -> SUBSET (Slot \X Row)]
    BY DEF Inv, RhythmInv, Placed, HostInv, WorkInv, WireInv, DataTyped, OutInv, Added
  <2>2. head \in [Rank -> [Rank -> 0 .. NumRanks * NumTokens]]
    <3>1. PICK n \in Nat, t \in Nat : n = NumRanks - 1 /\ t = NumTokens
      BY NumRanksAssumption, ExchangeAssumption
    <3>2. NumRanks = n + 1 /\ n * t \in Nat /\ (n + 1) * t = n * t + t
      BY <3>1, NumRanksAssumption
    <3>3. 0 .. NumTokens \subseteq 0 .. NumRanks * NumTokens
      BY <3>1, <3>2
    <3>4. head \in [Rank -> [Rank -> 0 .. NumTokens]]
      BY DEF Inv, WorkInv
    <3> QED BY <3>3, <3>4
  <2> QED BY <2>1, <2>2 DEF TypeOK
<1> QED BY <1>1, Invariance, PTL

(* dispatch_send, combine_send: two puts under way are for two slots.      *)
THEOREM SlotsOwned == ASSUME AppBarrier, EqualShares PROVE Spec => []PutsApart
<1>1. Inv => PutsApart
  BY DEF Inv, WireInv
<1> QED BY <1>1, Invariance, PTL

(* intranode_dispatch's check leaves room for all that is still to come.   *)
THEOREM DispatchHasRoom == ASSUME AppBarrier, EqualShares PROVE Spec => []DispatchFits
<1>1. Inv => DispatchFits
  <2> SUFFICES ASSUME Inv, NEW r \in Rank, stage[r] = "send", NEW p \in todo[r],
                      stage[p[2]] \in {"send", "copy"}
               PROVE  DispatchBase(r, p[2]) + head[r][p[2]] < Capacity
    BY DEF DispatchFits
  <2> USE DEF Inv
  <2>1. PICK d \in Rank : d = p[2]
    BY DEF WorkInv
  <2>2. From(NumRanks, d) <= Capacity
    BY <2>1 DEF HostInv
  <2>3. head[r][d] < Counts[r][d]
    <3>1. IsFiniteSet(todo[r]) /\ head[r][d] + Cardinality(Left(r, d)) <= Counts[r][d]
      BY DEF WorkInv, Work
    <3>2. Cardinality(Left(r, d)) \in Nat /\ Cardinality(Left(r, d)) >= 1
      <4>1. /\ Cardinality(For({}, d)) \in Nat
            /\ Cardinality(For(todo[r], d)) \in Nat
            /\ Cardinality(For({}, d)) + 1 <= Cardinality(For(todo[r], d))
        <5>1. {} \in SUBSET (todo[r] \ {p})
          OBVIOUS
        <5> QED BY <2>1, <3>1, <5>1, LeftLess
      <4> QED BY <4>1 DEF Left
    <3>3. head[r][d] \in Nat /\ Counts[r][d] \in Nat
      BY HeadBound
    <3> QED BY <3>1, <3>2, <3>3
  <2>4. Lo(r, d) + head[r][d] < Capacity
    BY <2>2, <2>3, RoomToSend
  <2>5. DispatchBase(r, d) = Lo(r, d)
    BY BaseIs DEF Lo
  <2> QED BY <2>1, <2>4, <2>5
<1> QED BY <1>1, Invariance, PTL

(* dispatch_copy_local: what r has copied is what was routed to it.        *)
THEOREM RowsArrive == ASSUME AppBarrier, EqualShares PROVE Spec => []RowsReceived
<1>1. Inv => RowsReceived
  <2> SUFFICES ASSUME Inv, NEW r \in Rank, stage[r] \in {"combine", "return", "reduce"},
                      NEW s \in Rank
               PROVE  LET begin   == IF s = 0 THEN 0 ELSE prefix[r][<<s - 1, r>>]
                          segment == begin .. prefix[r][<<s, r>>] - 1
                          due     == {t \in TokensOf(s) : r \in route[s][t]}
                      IN  /\ {recv[r][i] : i \in segment}
                               = {[by |-> s, of |-> <<s, t>>, idx |-> t] : t \in due}
                          /\ Cardinality(segment) = Cardinality(due)
    BY DEF RowsReceived
  <2> USE DEF Inv
  <2>1. route \in Routes /\ prefix[r] = PrefixMatrix(Counts)
    BY DEF RhythmInv, Placed, HostInv
  <2>2. /\ prefix[r][<<s, r>>] = From(s + 1, r)
        /\ (IF s = 0 THEN 0 ELSE prefix[r][<<s - 1, r>>]) = From(s, r)
    BY <2>1, PrefixPlaces
  <2>3. PICK f \in Nat, c \in Nat : f = From(s, r) /\ c = Counts[s][r] /\ From(s + 1, r) = f + c
    <3>1. s \in 0 .. NumRanks
      BY NumRanksAssumption DEF Rank
    <3>2. Counts[s][r] \in Nat
      BY <2>1, RouteFacts, ExchangeAssumption
    <3> QED BY <2>1, <3>1, <3>2, Places
  <2>4. {recv[r][i] : i \in f .. f + c - 1} = {Own(s, t) : t \in Due(s, r)}
    BY <2>3 DEF RecvInv, Received
  <2>5. Cardinality(f .. f + c - 1) = Cardinality(Due(s, r))
    <3>1. Cardinality(Due(s, r)) = c
      BY <2>1, <2>3, RouteFacts
    <3>2. Cardinality(f .. (f + c - 1)) = IF f > f + c - 1 THEN 0 ELSE (f + c - 1) - f + 1
      <4>1. f \in Int /\ f + c - 1 \in Int
        BY <2>3
      <4> QED BY <4>1, FS_Interval
    <3> QED BY <3>1, <3>2
  <2>6. /\ {recv[r][i] : i \in f .. f + c - 1}
             = {[by |-> s, of |-> <<s, t>>, idx |-> t] : t \in {t \in TokensOf(s) : r \in route[s][t]}}
        /\ Cardinality(f .. f + c - 1) = Cardinality({t \in TokensOf(s) : r \in route[s][t]})
    BY <2>4, <2>5 DEF Own, Due
  <2>7. prefix[r][<<s, r>>] = f + c /\ (IF s = 0 THEN 0 ELSE prefix[r][<<s - 1, r>>]) = f
    BY <2>2, <2>3
  <2> HIDE DEF Inv
  <2> QED BY <2>6, <2>7
<1> QED BY <1>1, Invariance, PTL

(* combine_reduce: only what comes from the token is added to it, once.    *)
THEOREM CombineSound == ASSUME AppBarrier, EqualShares PROVE Spec => []CombinedGenuine
<1>1. Inv => CombinedGenuine
  BY DEF Inv, OutInv, Added, CombinedGenuine
<1> QED BY <1>1, Invariance, PTL
=============================================================================
