-------------------------- MODULE NvshmemNotifyProofs --------------------------
(***************************************************************************)
(* Proofs about notify_dispatch of the NVSHMEM path, for any number of     *)
(* ranks, experts and calls: what a rank gathers belongs to its own call.  *)
(***************************************************************************)
EXTENDS NvshmemNotify, DataLemmas, TLAPS

Typed ==
  /\ demand \in Demands
  /\ call \in [Rank -> Call] /\ stage \in [Rank -> Stages]
  /\ arrived \in [Rank -> Nat]
  /\ cell \in [Rank -> Rank \X (0 .. NumRanks)]
  /\ \A r \in Rank : stage[r] = "gather" => cell[r][2] \in Rank
  /\ buffer \in [Rank -> [Cell -> Nat]] /\ matrix \in [Rank -> [Cell -> Nat]]
  /\ DOMAIN rawExpert = Rank
  /\ DOMAIN recvExpert = Rank /\ \A r \in Rank : DOMAIN recvExpert[r] = LocalExpert

(* A rank enters one barrier before it gathers and one before its next     *)
(* call, and has passed the former when it is done with gathering; nobody  *)
(* is more than one barrier ahead.                                         *)
InRhythm ==
  /\ \A r \in Rank : arrived[r] = IF stage[r] = "write" THEN 2 * call[r] - 2
                                                        ELSE 2 * call[r] - 1
  /\ \A r \in Rank : Gathered(r) => Met(r)
  /\ \A q, r \in Rank : arrived[q] <= arrived[r] + 1

(* The call whose words a rank has published. *)
Last(q) == IF stage[q] = "write" THEN call[q] - 1 ELSE call[q]

(* The words others read are of that call, or rank 0's of that call. *)
WordsPublished ==
  \A q \in Rank : Last(q) >= 1 =>
    /\ rawExpert[q] = demand[Last(q)][q]
    /\ \A d \in Rank :
         buffer[q][<<0, d>>] \in {Counts(Last(q))[q][d], Counts(Last(q))[0][d]}

(* The cells that rank r's loop is past: each counts one source, and r's    *)
(* own word of row 0 is rank 0's by then.                                  *)
Behind(r, s, d) ==
  \/ Gathered(r)
  \/ stage[r] = "gather" /\ (d < cell[r][2] \/ (d = cell[r][2] /\ s < cell[r][1]))

Recorded(m, counts, r, s, d) ==
  CountIn(m, s, d) \in (IF s = r THEN {} ELSE {counts[s][d]}) \cup {counts[0][d]}

GatheredSoFar ==
  \A r, s, d \in Rank : Behind(r, s, d) =>
    /\ Recorded(matrix[r], Counts(call[r]), r, s, d)
    /\ buffer[r][<<0, d>>] = Counts(call[r])[0][d]

Owed(r, i) ==
  AlignUp(SumFunctionOnSet([s \in Rank |-> demand[call[r]][s][GlobalExpert(r, i)]], Rank), Alignment)

TotalsSoFar ==
  \A r \in Rank, i \in LocalExpert :
    \/ stage[r] = "exchange"
    \/ stage[r] # "write" /\ recvExpert[r][i] # -1
    => recvExpert[r][i] = Owed(r, i)

IInv == Typed /\ InRhythm /\ WordsPublished /\ GatheredSoFar /\ TotalsSoFar
-----------------------------------------------------------------------------
LEMMA RankFacts ==
  /\ 0 \in Rank /\ NumRanks - 1 \in Rank /\ Rank \subseteq Nat
  /\ \A r \in Rank : r <= NumRanks - 1
  /\ \A s, d \in Rank : <<s, d>> \in Cell
BY NumRanksAssumption DEF Rank, Cell

LEMMA Before == \A s \in Rank : s = 0 \/ s - 1 \in Rank
BY NumRanksAssumption DEF Rank

LEMMA Words ==
  ASSUME Typed, NEW q \in Rank, NEW s \in Rank, NEW d \in Rank
  PROVE  buffer[q][<<s, d>>] \in Nat /\ matrix[q][<<s, d>>] \in Nat
BY RankFacts DEF Typed

(* When a rank has passed the barrier before its gathering, the others have *)
(* published the same call, and not yet the next.                           *)
LEMMA InStep ==
  ASSUME IInv, NEW r \in Rank, stage[r] # "write", Met(r), NEW q \in Rank
  PROVE  Last(q) = call[r] /\ Last(q) >= 1
<1>1. /\ call[r] \in Nat /\ call[q] \in Nat /\ call[r] >= 1
      /\ arrived[r] = 2 * call[r] - 1
      /\ arrived[q] = IF stage[q] = "write" THEN 2 * call[q] - 2 ELSE 2 * call[q] - 1
      /\ arrived[q] <= arrived[r] + 1
  BY DEF IInv, Typed, InRhythm, Call
<1>2. arrived[q] >= arrived[r]
  BY DEF Met
<1> QED BY <1>1, <1>2 DEF Last

(* The experts of a rank are experts, finitely many. *)
LEMMA ExpertsOf ==
  ASSUME NEW t \in Rank
  PROVE  /\ \A i \in LocalExpert : GlobalExpert(t, i) \in Expert
         /\ IsFiniteSet({GlobalExpert(t, i) : i \in LocalExpert})
<1>1. ExpertsPerRank \in Nat /\ NumRanks \in Nat /\ t \in Nat /\ t + 1 <= NumRanks
  BY ExpertsAssumption, NumRanksAssumption DEF Rank
<1>2. (t + 1) * ExpertsPerRank <= NumRanks * ExpertsPerRank
  BY <1>1
<1>3. (t + 1) * ExpertsPerRank = t * ExpertsPerRank + ExpertsPerRank
  BY <1>1
<1>4. t * ExpertsPerRank \in Nat /\ NumRanks * ExpertsPerRank \in Nat
  BY <1>1
<1>5. \A i \in LocalExpert : GlobalExpert(t, i) \in Expert
  BY <1>1, <1>2, <1>3, <1>4 DEF LocalExpert, GlobalExpert, Expert
<1>6. IsFiniteSet(Expert)
  BY <1>4, FS_Interval DEF Expert
<1>7. {GlobalExpert(t, i) : i \in LocalExpert} \in SUBSET Expert
  BY <1>5
<1> QED BY <1>5, <1>6, <1>7, FS_Subset

(* The counts of a call are numbers. *)
LEMMA CountsTyped ==
  ASSUME Typed, NEW n \in Call
  PROVE  Counts(n) \in [Rank -> [Rank -> Nat]]
<1>1. ASSUME NEW s \in Rank, NEW t \in Rank
      PROVE  SumFunctionOnSet(demand[n][s], {GlobalExpert(t, i) : i \in LocalExpert}) \in Nat
  <2> DEFINE E == {GlobalExpert(t, i) : i \in LocalExpert}
  <2>1. IsFiniteSet(E) /\ E \subseteq Expert
    BY ExpertsOf
  <2>2. demand[n][s] \in [Expert -> Nat]
    BY DemandsAssumption DEF Typed
  <2>3. \A e \in E : demand[n][s][e] \in Nat
    BY <2>1, <2>2
  <2> HIDE DEF E
  <2>4. SumFunctionOnSet(demand[n][s], E) \in Nat
    BY <2>1, <2>3, SumNat
  <2> QED BY <2>4 DEF E
<1> QED BY <1>1 DEF Counts, CountsOf

LEMMA InitIInv == Init => IInv
<1> SUFFICES ASSUME Init PROVE IInv
  OBVIOUS
<1>1. Typed
  BY RankFacts, MaxCallAssumption, NumRanksAssumption DEF Init, Typed, Call, Stages
<1>2. \A q \in Rank : Last(q) = 0
  BY DEF Init, Last
<1> QED BY <1>1, <1>2 DEF Init, IInv, InRhythm, Gathered, WordsPublished, GatheredSoFar,
           Behind, TotalsSoFar

-----------------------------------------------------------------------------
LEMMA WriteKeeps == ASSUME IInv, NEW r \in Rank, WriteCounts(r) PROVE IInv'
<1> USE DEF IInv
<1>1. /\ stage[r] = "write" /\ Met(r)
      /\ UNCHANGED <<demand, call, matrix>>
      /\ \A q \in Rank : stage'[q] = IF q = r THEN "gather" ELSE stage[q]
      /\ \A q \in Rank : arrived'[q] = IF q = r THEN arrived[r] + 1 ELSE arrived[q]
      /\ \A q \in Rank : cell'[q] = IF q = r THEN <<0, 0>> ELSE cell[q]
  BY DEF WriteCounts, Typed
<1>2. /\ \A q \in Rank : q # r => /\ buffer'[q] = buffer[q] /\ rawExpert'[q] = rawExpert[q]
                                  /\ recvExpert'[q] = recvExpert[q]
      /\ rawExpert'[r] = demand[call[r]][r]
      /\ buffer'[r] = [c \in Cell |->
           IF c[1] = 0 THEN Counts(call[r])[r][c[2]] ELSE buffer[r][c]]
  BY DEF WriteCounts, Typed
<1>3. call[r] \in Call /\ Counts(call[r])[r] \in [Rank -> Nat]
      /\ \A n : Counts(n)' = Counts(n)
  BY <1>1, CountsTyped DEF Typed, Counts
<1>4. Typed'
  <2>1. buffer'[r] \in [Cell -> Nat]
    BY <1>2, <1>3 DEF Typed, Cell
  <2>2. buffer' \in [Rank -> [Cell -> Nat]]
    BY <2>1 DEF WriteCounts, Typed
  <2>3. DOMAIN rawExpert' = Rank /\ DOMAIN recvExpert' = Rank
        /\ \A q \in Rank : DOMAIN recvExpert'[q] = LocalExpert
    BY DEF WriteCounts, Typed
  <2>4. stage' \in [Rank -> Stages] /\ arrived' \in [Rank -> Nat]
        /\ cell' \in [Rank -> Rank \X (0 .. NumRanks)]
    BY RankFacts, NumRanksAssumption DEF WriteCounts, Typed, Stages
  <2>5. \A q \in Rank : stage'[q] = "gather" => cell'[q][2] \in Rank
    BY <1>1, RankFacts DEF Typed
  <2> QED BY <1>1, <2>2, <2>3, <2>4, <2>5 DEF Typed
<1>5. InRhythm'
  <2>1. \A q \in Rank : arrived[q] >= arrived[r] /\ arrived[q] \in Nat
                        /\ call[q] \in Nat
    BY <1>1 DEF Met, Typed, Call
  <2>2. \A q \in Rank : arrived'[q] = IF stage'[q] = "write" THEN 2 * call'[q] - 2
                                                             ELSE 2 * call'[q] - 1
    BY <1>1, <2>1 DEF InRhythm
  <2>3. \A p, q \in Rank : arrived'[p] <= arrived'[q] + 1
    BY <1>1, <2>1 DEF InRhythm
  <2>4. ASSUME NEW q \in Rank, Gathered(q)' PROVE Met(q)'
    <3>1. q # r /\ Gathered(q)
      BY <1>1, <2>4 DEF Gathered
    <3> QED BY <1>1, <2>1, <3>1 DEF InRhythm, Met
  <2> QED BY <2>2, <2>3, <2>4 DEF InRhythm
<1>6. WordsPublished'
  <2> SUFFICES ASSUME NEW q \in Rank, Last(q)' >= 1
               PROVE  /\ rawExpert'[q] = demand[Last(q)'][q]
                      /\ \A d \in Rank : buffer'[q][<<0, d>>] \in
                           {Counts(Last(q)')[q][d], Counts(Last(q)')[0][d]}
    BY <1>1, <1>3 DEF WordsPublished, Counts
  <2>1. CASE q = r
    <3>1. Last(q)' = call[r]
      BY <1>1, <2>1 DEF Last
    <3> QED BY <1>2, <2>1, <3>1, RankFacts
  <2>2. CASE q # r
    <3>1. Last(q)' = Last(q)
      BY <1>1, <2>2 DEF Last
    <3> QED BY <1>2, <2>2, <3>1 DEF WordsPublished
  <2> QED BY <2>1, <2>2
<1>7. GatheredSoFar'
  <2> SUFFICES ASSUME NEW q \in Rank, NEW s \in Rank, NEW d \in Rank, Behind(q, s, d)'
               PROVE  /\ Recorded(matrix[q], Counts(call[q]), q, s, d)
                      /\ buffer'[q][<<0, d>>] = Counts(call[q])[0][d]
    <3>1. demand' = demand /\ call' = call /\ matrix' = matrix
      BY <1>1
    <3> QED BY <3>1 DEF GatheredSoFar, Behind, Gathered, Recorded, Counts
  <2>1. q # r
    <3> SUFFICES ASSUME q = r PROVE FALSE
      OBVIOUS
    <3>1. ~(d < 0) /\ ~(s < 0)
      BY RankFacts
    <3>2. stage'[r] = "gather" /\ cell'[r] = <<0, 0>>
      BY <1>1
    <3> QED BY <3>1, <3>2 DEF Behind, Gathered
  <2>2. Behind(q, s, d)
    BY <1>1, <2>1 DEF Behind, Gathered
  <2> QED BY <1>2, <2>1, <2>2 DEF GatheredSoFar
<1>8. TotalsSoFar'
  <2>1. \A i \in LocalExpert : recvExpert'[r][i] = -1
    BY DEF WriteCounts, Typed
  <2> QED BY <1>1, <1>2, <2>1 DEF TotalsSoFar, Owed
<1> QED BY <1>4, <1>5, <1>6, <1>7, <1>8

LEMMA GatherKeeps == ASSUME IInv, NEW r \in Rank, Gather(r) PROVE IInv'
<1> DEFINE src  == cell[r][1]
           dest == cell[r][2]
           prefix == buffer[src][<<0, dest>>]
                       + (IF src = 0 THEN 0 ELSE matrix[r][<<src - 1, dest>>])
           last == dest = NumRanks - 1 /\ src = NumRanks - 1
<1>1. src \in Rank /\ dest \in Rank /\ stage[r] = "gather" /\ Met(r)
  BY DEF Gather, IInv, Typed
<1>2. /\ Last(src) = call[r] /\ Last(0) = call[r] /\ Last(r) = call[r] /\ Last(r) >= 1
  BY <1>1, InStep, RankFacts
<1>3. /\ UNCHANGED <<demand, call, rawExpert, recvExpert, arrived>>
      /\ matrix' = [matrix EXCEPT ![r][<<src, dest>>] = prefix]
      /\ buffer' = [buffer EXCEPT ![r][<<src, dest>>] = prefix]
      /\ cell' = [cell EXCEPT ![r] = Following(@)]
  BY DEF Gather
<1>4. src - 1 \in Rank \/ src = 0
  BY <1>1, Before
<1>5. prefix \in Nat
  <2> HIDE DEF src, dest
  <2>1. buffer[src][<<0, dest>>] \in Nat
    BY <1>1, RankFacts, Words DEF IInv
  <2>2. src # 0 => matrix[r][<<src - 1, dest>>] \in Nat
    BY <1>1, <1>4, Words DEF IInv
  <2> QED BY <2>1, <2>2
<1>6. cell'[r] = IF src < NumRanks - 1 THEN <<src + 1, dest>> ELSE <<0, dest + 1>>
  BY <1>3 DEF IInv, Typed, Following
<1>7. \A q \in Rank : stage'[q] = IF q = r /\ last THEN "experts" ELSE stage[q]
  <2>1. stage' = [stage EXCEPT ![r] =
                    IF Following(cell[r])[2] = NumRanks THEN "experts" ELSE @]
    BY DEF Gather
  <2>2. Following(cell[r])[2] = NumRanks <=> last
    <3>1. src \in 0 .. NumRanks - 1 /\ dest \in 0 .. NumRanks - 1
      BY <1>1 DEF Rank
    <3>2. CASE src < NumRanks - 1
      <4>1. Following(cell[r])[2] = dest
        BY <3>2 DEF Following
      <4> QED BY <3>1, <3>2, <4>1, NumRanksAssumption
    <3>3. CASE ~(src < NumRanks - 1)
      <4>1. Following(cell[r])[2] = dest + 1
        BY <3>3 DEF Following
      <4> QED BY <3>1, <3>3, <4>1, NumRanksAssumption
    <3> QED BY <3>2, <3>3
  <2>3. stage \in [Rank -> Stages]
    BY DEF IInv, Typed
  <2> QED BY <2>1, <2>2, <2>3
<1>8. /\ buffer' \in [Rank -> [Cell -> Nat]] /\ matrix' \in [Rank -> [Cell -> Nat]]
  BY <1>1, <1>3, <1>5, RankFacts DEF IInv, Typed
<1>9. /\ \A q, s, d \in Rank : <<q, s, d>> # <<r, src, dest>> =>
           /\ matrix'[q][<<s, d>>] = matrix[q][<<s, d>>]
           /\ buffer'[q][<<s, d>>] = buffer[q][<<s, d>>]
      /\ matrix'[r][<<src, dest>>] = prefix /\ buffer'[r][<<src, dest>>] = prefix
  <2> HIDE DEF src, dest, prefix
  <2>1. PICK x \in Cell : x = <<src, dest>>
    BY <1>1, RankFacts
  <2>2. matrix \in [Rank -> [Cell -> Nat]] /\ buffer \in [Rank -> [Cell -> Nat]]
    BY DEF IInv, Typed
  <2>3. matrix' = [matrix EXCEPT ![r][x] = prefix] /\ buffer' = [buffer EXCEPT ![r][x] = prefix]
    BY <1>3, <2>1
  <2>4. \A q \in Rank, y \in Cell : q # r \/ y # x =>
           matrix'[q][y] = matrix[q][y] /\ buffer'[q][y] = buffer[q][y]
    BY <2>2, <2>3
  <2>5. matrix'[r][x] = prefix /\ buffer'[r][x] = prefix
    BY <2>2, <2>3
  <2>6. ASSUME NEW q \in Rank, NEW s \in Rank, NEW d \in Rank, <<q, s, d>> # <<r, src, dest>>
        PROVE  <<s, d>> \in Cell /\ (q # r \/ <<s, d>> # x)
    BY <2>1, <2>6, RankFacts
  <2> QED BY <2>1, <2>4, <2>5, <2>6
<1>10. Typed'
  <2>1. cell'[r] \in Rank \X (0 .. NumRanks)
        /\ (stage'[r] = "gather" => cell'[r][2] \in Rank)
    BY <1>1, <1>6, <1>7, NumRanksAssumption DEF Rank
  <2>2. cell' \in [Rank -> Rank \X (0 .. NumRanks)]
    BY <1>3, <2>1 DEF IInv, Typed
  <2>3. \A q \in Rank : q # r => cell'[q] = cell[q]
    BY <1>3 DEF IInv, Typed
  <2>4. stage' \in [Rank -> Stages]
    BY DEF Gather, IInv, Typed, Stages
  <2>5. \A q \in Rank : stage'[q] = "gather" => cell'[q][2] \in Rank
    BY <1>7, <2>1, <2>3 DEF IInv, Typed
  <2> QED BY <1>3, <1>8, <2>2, <2>4, <2>5 DEF IInv, Typed
<1> HIDE DEF src, dest, prefix, last
<1>11. InRhythm'
  BY <1>1, <1>3, <1>7 DEF IInv, InRhythm, Gathered, Met
<1>12. \A q \in Rank : (IF stage'[q] = "write" THEN call'[q] - 1 ELSE call'[q]) = Last(q)
  BY <1>1, <1>3, <1>7 DEF Last
<1>13. WordsPublished'
  <2> SUFFICES ASSUME NEW q \in Rank, Last(q) >= 1
               PROVE  /\ rawExpert'[q] = demand'[Last(q)][q]
                      /\ \A d \in Rank : buffer'[q][<<0, d>>] \in
                           {CountsOf(demand'[Last(q)])[q][d], CountsOf(demand'[Last(q)])[0][d]}
    BY <1>12 DEF WordsPublished, Last, Counts
  <2>1. rawExpert'[q] = demand'[Last(q)][q]
    BY <1>3 DEF IInv, WordsPublished
  <2>2. ASSUME NEW d \in Rank
        PROVE  buffer'[q][<<0, d>>] \in
                 {CountsOf(demand'[Last(q)])[q][d], CountsOf(demand'[Last(q)])[0][d]}
    <3>1. CASE q = r /\ src = 0 /\ d = dest
      <4>1. buffer'[q][<<0, d>>] = buffer[0][<<0, dest>>]
        <5>1. prefix = buffer[0][<<0, dest>>] + 0
          BY <3>1 DEF prefix
        <5>2. buffer[0][<<0, dest>>] \in Nat
          BY <1>1, RankFacts DEF IInv, Typed
        <5> QED BY <1>9, <3>1, <5>1, <5>2
      <4>2. buffer[0][<<0, dest>>] = Counts(Last(0))[0][dest]
        BY <1>1, <1>2, RankFacts DEF IInv, WordsPublished
      <4> QED BY <1>2, <1>3, <3>1, <4>1, <4>2 DEF Counts
    <3>2. CASE ~(q = r /\ src = 0 /\ d = dest)
      <4>1. buffer'[q][<<0, d>>] = buffer[q][<<0, d>>]
        <5>1. <<q, 0, d>> # <<r, src, dest>> /\ 0 \in Rank
          BY <3>2, RankFacts
        <5> QED BY <1>9, <5>1
      <4> QED BY <1>3, <4>1 DEF IInv, WordsPublished, Counts
    <3> QED BY <3>1, <3>2
  <2> QED BY <2>1, <2>2
<1>14. GatheredSoFar'
  <2> SUFFICES ASSUME NEW q \in Rank, NEW s \in Rank, NEW d \in Rank, Behind(q, s, d)'
               PROVE  /\ Recorded(matrix'[q], Counts(call[q]), q, s, d)
                      /\ buffer'[q][<<0, d>>] = Counts(call[q])[0][d]
    <3>1. demand' = demand /\ call' = call
      BY <1>3
    <3> QED BY <3>1 DEF GatheredSoFar, Behind, Gathered, Recorded, Counts
  <2>1. CASE q # r
    <3>1. Behind(q, s, d)
      <4>1. cell'[q] = cell[q] /\ stage'[q] = stage[q]
        BY <1>3, <1>7, <2>1 DEF IInv, Typed
      <4> QED BY <4>1 DEF Behind, Gathered
    <3>2. matrix'[q] = matrix[q] /\ buffer'[q] = buffer[q]
      BY <1>3, <2>1 DEF IInv, Typed
    <3> QED BY <3>1, <3>2 DEF IInv, GatheredSoFar
  <2>2. CASE q = r /\ <<s, d>> = <<src, dest>>
    <3>1. CountIn(matrix'[r], s, d) = buffer[src][<<0, dest>>]
      <4>1. buffer[src][<<0, dest>>] \in Nat
            /\ (src # 0 => matrix[r][<<src - 1, dest>>] \in Nat)
        BY <1>1, <1>4, RankFacts DEF IInv, Typed
      <4>2. src # 0 => matrix'[r][<<src - 1, dest>>] = matrix[r][<<src - 1, dest>>]
        <5>1. src # 0 => src - 1 \in Rank /\ src - 1 # src
          BY <1>1, <1>4, RankFacts
        <5> QED BY <1>1, <1>9, <5>1
      <4> QED BY <1>9, <2>2, <4>1, <4>2 DEF CountIn, prefix
    <3>2. buffer[src][<<0, dest>>] \in {Counts(call[r])[src][dest], Counts(call[r])[0][dest]}
      BY <1>1, <1>2 DEF IInv, WordsPublished
    <3>3. buffer[0][<<0, dest>>] = Counts(call[r])[0][dest]
      BY <1>1, <1>2, RankFacts DEF IInv, WordsPublished
    <3>4. src # 0 => buffer[r][<<0, dest>>] = Counts(call[r])[0][dest]
      <4>1. src # 0 => Behind(r, 0, dest)
        <5>1. 0 < src \/ src = 0
          BY <1>1, RankFacts
        <5> QED BY <1>1, <5>1 DEF Behind, src, dest
      <4> QED BY <1>1, <4>1, RankFacts DEF IInv, GatheredSoFar
    <3>5. buffer'[r][<<0, dest>>] = Counts(call[r])[0][dest]
      <4>1. CASE src = 0
        <5>1. buffer[0][<<0, dest>>] \in Nat
          BY <1>1, RankFacts DEF IInv, Typed
        <5>2. prefix = buffer[0][<<0, dest>>]
          BY <4>1, <5>1 DEF prefix
        <5> QED BY <1>9, <3>3, <4>1, <5>2
      <4>2. CASE src # 0
        BY <1>1, <1>9, <3>4, <4>2, RankFacts
      <4> QED BY <4>1, <4>2
    <3>6. src = r => buffer[src][<<0, dest>>] = Counts(call[r])[0][dest]
      BY <3>3, <3>4
    <3> QED BY <2>2, <3>1, <3>2, <3>5, <3>6 DEF Recorded
  <2>3. CASE q = r /\ <<s, d>> # <<src, dest>>
    <3>1. d < dest \/ (d = dest /\ s < src)
      <4>1. s \in 0 .. NumRanks - 1 /\ d \in 0 .. NumRanks - 1
            /\ src \in 0 .. NumRanks - 1 /\ dest \in 0 .. NumRanks - 1
        BY <1>1 DEF Rank
      <4>2. CASE last
        BY <2>3, <4>1, <4>2, NumRanksAssumption DEF last
      <4>3. CASE ~last
        <5>1. stage'[r] = "gather"
          BY <1>1, <1>7, <4>3
        <5>2. d < cell'[r][2] \/ (d = cell'[r][2] /\ s < cell'[r][1])
          BY <2>3, <5>1 DEF Behind, Gathered
        <5>3. CASE src < NumRanks - 1
          <6>1. cell'[r][1] = src + 1 /\ cell'[r][2] = dest
            BY <1>6, <5>3
          <6> QED BY <2>3, <4>1, <5>2, <6>1
        <5>4. CASE ~(src < NumRanks - 1)
          <6>1. cell'[r][1] = 0 /\ cell'[r][2] = dest + 1
            BY <1>6, <5>4
          <6>2. d < dest + 1
            BY <4>1, <5>2, <6>1
          <6>3. s # src => s < src
            BY <4>1, <5>4, NumRanksAssumption
          <6>4. d = dest => s # src
            BY <2>3
          <6> QED BY <4>1, <6>2, <6>3, <6>4
        <5> QED BY <5>3, <5>4
      <4> QED BY <4>2, <4>3
    <3>2. Behind(r, s, d)
      BY <1>1, <3>1 DEF Behind, src, dest
    <3>3. Recorded(matrix[r], Counts(call[r]), r, s, d)
          /\ buffer[r][<<0, d>>] = Counts(call[r])[0][d]
      BY <3>2 DEF IInv, GatheredSoFar
    <3>4. matrix'[r][<<s, d>>] = matrix[r][<<s, d>>]
      BY <1>9, <2>3
    <3>5. s # 0 => matrix'[r][<<s - 1, d>>] = matrix[r][<<s - 1, d>>]
      <4>1. s # 0 => s - 1 \in Rank
        BY Before
      <4>2. ~(s - 1 = src /\ d = dest)
        <5>1. s \in Nat /\ src \in Nat /\ d \in Nat /\ dest \in Nat
          BY <1>1, RankFacts
        <5> QED BY <3>1, <5>1
      <4> QED BY <1>9, <4>1, <4>2
    <3>6. CountIn(matrix'[r], s, d) = CountIn(matrix[r], s, d)
      BY <3>4, <3>5 DEF CountIn
    <3>7. buffer'[r][<<0, d>>] = buffer[r][<<0, d>>]
      <4>1. CASE <<0, d>> = <<src, dest>>
        <5>1. s \in Nat /\ src \in Nat /\ d \in Nat /\ dest \in Nat
          BY <1>1, RankFacts
        <5> QED BY <3>1, <4>1, <5>1
      <4>2. CASE <<0, d>> # <<src, dest>>
        BY <1>9, <4>2, RankFacts
      <4> QED BY <4>1, <4>2
    <3> QED BY <2>3, <3>3, <3>6, <3>7 DEF Recorded
  <2> QED BY <2>1, <2>2, <2>3
<1>15. TotalsSoFar'
  BY <1>1, <1>3, <1>7 DEF IInv, TotalsSoFar, Owed
<1> QED BY <1>10, <1>11, <1>13, <1>14, <1>15 DEF IInv

LEMMA GatherExpertKeeps ==
  ASSUME IInv, NEW r \in Rank, NEW i \in LocalExpert, GatherExpert(r, i) PROVE IInv'
<1>1. /\ stage[r] = "experts" /\ Met(r)
      /\ UNCHANGED <<demand, call, cell, buffer, rawExpert, matrix, arrived>>
  BY DEF GatherExpert, IInv, InRhythm, Gathered
<1>2. \A q \in Rank : stage'[q] = IF q = r /\ i = ExpertsPerRank - 1 THEN "exchange"
                                                                   ELSE stage[q]
  BY DEF GatherExpert, IInv, Typed
<1>3. recvExpert'[r][i] = Owed(r, i)
  <2>1. recvExpert'[r][i] =
          AlignUp(SumFunctionOnSet([s \in Rank |-> rawExpert[s][GlobalExpert(r, i)]], Rank), Alignment)
    BY DEF GatherExpert, IInv, Typed
  <2>2. \A s \in Rank : rawExpert[s] = demand[call[r]][s]
    <3> TAKE s \in Rank
    <3>1. Last(s) = call[r] /\ Last(s) >= 1
      BY <1>1, InStep
    <3> QED BY <3>1 DEF IInv, WordsPublished
  <2>3. [s \in Rank |-> rawExpert[s][GlobalExpert(r, i)]]
          = [s \in Rank |-> demand[call[r]][s][GlobalExpert(r, i)]]
    BY <2>2
  <2> QED BY <2>1, <2>3 DEF Owed
<1>4. \A q \in Rank, j \in LocalExpert : q # r \/ j # i => recvExpert'[q][j] = recvExpert[q][j]
  BY DEF GatherExpert, IInv, Typed
<1>5. Typed'
  <2>1. DOMAIN recvExpert' = Rank
        /\ \A q \in Rank : DOMAIN recvExpert'[q] = LocalExpert
    BY DEF GatherExpert, IInv, Typed
  <2>2. stage' \in [Rank -> Stages]
    BY DEF GatherExpert, IInv, Typed, Stages
  <2>3. \A q \in Rank : stage'[q] = "gather" => cell'[q][2] \in Rank
    BY <1>1, <1>2 DEF IInv, Typed
  <2> QED BY <1>1, <2>1, <2>2, <2>3 DEF IInv, Typed
<1>6. InRhythm'
  BY <1>1, <1>2 DEF IInv, InRhythm, Gathered, Met
<1>7. WordsPublished'
  <2>1. \A q \in Rank : (IF stage'[q] = "write" THEN call'[q] - 1 ELSE call'[q]) = Last(q)
    BY <1>1, <1>2 DEF Last
  <2>2. demand' = demand /\ rawExpert' = rawExpert /\ buffer' = buffer
    BY <1>1
  <2> QED BY <2>1, <2>2, SMTT(60) DEF IInv, WordsPublished, Last, Counts
<1>8. GatheredSoFar'
  <2>1. demand' = demand /\ call' = call /\ cell' = cell /\ matrix' = matrix /\ buffer' = buffer
    BY <1>1
  <2>2. \A q \in Rank : /\ stage'[q] \in {"experts", "exchange"} => Gathered(q)
                        /\ stage'[q] = "gather" => stage[q] = "gather"
    BY <1>1, <1>2 DEF Gathered
  <2> SUFFICES ASSUME NEW q \in Rank, NEW s \in Rank, NEW d \in Rank, Behind(q, s, d)'
               PROVE  /\ Recorded(matrix[q], Counts(call[q]), q, s, d)
                      /\ buffer[q][<<0, d>>] = Counts(call[q])[0][d]
    BY <2>1, SMTT(60) DEF GatheredSoFar, Behind, Gathered, Recorded, Counts
  <2>3. Behind(q, s, d)
    BY <2>1, <2>2 DEF Behind, Gathered
  <2> QED BY <2>3 DEF IInv, GatheredSoFar
<1>9. TotalsSoFar'
  <2> SUFFICES ASSUME NEW q \in Rank, NEW j \in LocalExpert,
                      \/ stage'[q] = "exchange"
                      \/ stage'[q] # "write" /\ recvExpert'[q][j] # -1
               PROVE  recvExpert'[q][j] = Owed(q, j)
    <3>1. demand' = demand /\ call' = call
      BY <1>1
    <3> QED BY <3>1 DEF TotalsSoFar, Owed
  <2>1. CASE q = r /\ j = i
    BY <1>3, <2>1
  <2>2. CASE q = r /\ j # i
    <3>1. i = ExpertsPerRank - 1 => recvExpert[r][j] # -1
      <4>1. \A k \in LocalExpert : k < i => recvExpert[r][k] # -1
        BY DEF GatherExpert
      <4>2. i = ExpertsPerRank - 1 => j < i
        BY <2>2, ExpertsAssumption DEF LocalExpert
      <4> QED BY <4>1, <4>2
    <3>2. recvExpert[r][j] # -1
      BY <1>1, <1>2, <1>4, <2>2, <3>1
    <3> QED BY <1>1, <1>4, <2>2, <3>2 DEF IInv, TotalsSoFar
  <2>3. CASE q # r
    BY <1>2, <1>4, <2>3 DEF IInv, TotalsSoFar
  <2> QED BY <2>1, <2>2, <2>3
<1> QED BY <1>5, <1>6, <1>7, <1>8, <1>9 DEF IInv

(* Every rank has published this call and entered its barrier when one     *)
(* goes on to the exchange, so none is left more than a barrier behind.    *)
LEMMA ExchangeKeeps == ASSUME IInv, NEW r \in Rank, Exchange(r) PROVE IInv'
<1>1. /\ stage[r] = "exchange" /\ Met(r) /\ call[r] < MaxCall
      /\ UNCHANGED <<demand, cell, buffer, rawExpert, matrix, recvExpert>>
  BY DEF Exchange, IInv, InRhythm, Gathered
<1>2. \A q \in Rank : /\ call'[q]    = IF q = r THEN call[r] + 1 ELSE call[q]
                      /\ stage'[q]   = IF q = r THEN "write" ELSE stage[q]
                      /\ arrived'[q] = IF q = r THEN arrived[r] + 1 ELSE arrived[q]
  BY DEF Exchange, IInv, Typed
<1>3. \A q \in Rank : call[q] \in Nat /\ arrived[q] \in Nat /\ arrived[q] >= arrived[r]
  BY <1>1 DEF IInv, Typed, Met, Call
<1>4. Typed'
  <2>1. call[r] + 1 \in Call
    BY <1>1, <1>3, MaxCallAssumption DEF IInv, Typed, Call
  <2>2. call' \in [Rank -> Call] /\ stage' \in [Rank -> Stages] /\ arrived' \in [Rank -> Nat]
    BY <1>3, <2>1 DEF Exchange, IInv, Typed, Stages
  <2>3. \A q \in Rank : stage'[q] = "gather" => cell'[q][2] \in Rank
    BY <1>1, <1>2 DEF IInv, Typed
  <2> QED BY <1>1, <2>2, <2>3 DEF IInv, Typed
<1>5. InRhythm'
  <2>1. \A q \in Rank : arrived'[q] = IF stage'[q] = "write" THEN 2 * call'[q] - 2
                                                             ELSE 2 * call'[q] - 1
    BY <1>1, <1>2, <1>3 DEF IInv, InRhythm
  <2>2. \A p, q \in Rank : arrived'[p] <= arrived'[q] + 1
    BY <1>2, <1>3 DEF IInv, InRhythm
  <2>3. ASSUME NEW q \in Rank, stage'[q] \in {"experts", "exchange"}
        PROVE  \A p \in Rank : arrived'[p] >= arrived'[q]
    <3>1. q # r /\ Gathered(q) /\ arrived'[q] = arrived[q]
      BY <1>2, <2>3 DEF Gathered
    <3> QED BY <1>2, <1>3, <3>1 DEF IInv, InRhythm, Met
  <2> QED BY <2>1, <2>2, <2>3 DEF InRhythm, Gathered, Met
<1>6. WordsPublished'
  <2>1. \A q \in Rank : (IF stage'[q] = "write" THEN call'[q] - 1 ELSE call'[q]) = Last(q)
    BY <1>1, <1>2, <1>3 DEF Last
  <2>2. demand' = demand /\ rawExpert' = rawExpert /\ buffer' = buffer
    BY <1>1
  <2> QED BY <2>1, <2>2, SMTT(60) DEF IInv, WordsPublished, Last, Counts
<1>7. GatheredSoFar'
  <2>1. demand' = demand /\ cell' = cell /\ matrix' = matrix /\ buffer' = buffer
    BY <1>1
  <2>2. \A q \in Rank : stage'[q] # "write" => call'[q] = call[q] /\ stage'[q] = stage[q]
    BY <1>2
  <2> SUFFICES ASSUME NEW q \in Rank, NEW s \in Rank, NEW d \in Rank, Behind(q, s, d)'
               PROVE  /\ Recorded(matrix[q], Counts(call'[q]), q, s, d)
                      /\ buffer[q][<<0, d>>] = Counts(call'[q])[0][d]
    BY <2>1 DEF GatheredSoFar, Behind, Gathered, Recorded, Counts
  <2>3. stage'[q] # "write"
    BY DEF Behind, Gathered
  <2>4. Behind(q, s, d) /\ call'[q] = call[q]
    BY <2>1, <2>2, <2>3 DEF Behind, Gathered
  <2> QED BY <2>4 DEF IInv, GatheredSoFar
<1>8. TotalsSoFar'
  BY <1>1, <1>2 DEF IInv, TotalsSoFar, Owed
<1> QED BY <1>4, <1>5, <1>6, <1>7, <1>8 DEF IInv

LEMMA NextIInv == IInv /\ [Next]_vars => IInv'
<1> SUFFICES ASSUME IInv, [Next]_vars PROVE IInv'
  OBVIOUS
<1>1. ASSUME NEW r \in Rank, RankStep(r) PROVE IInv'
  BY <1>1, WriteKeeps, GatherKeeps, GatherExpertKeeps, ExchangeKeeps DEF RankStep
<1>2. CASE UNCHANGED vars
  <2>1. UNCHANGED <<demand, call, stage, cell, buffer, rawExpert, matrix, recvExpert, arrived>>
    BY <1>2 DEF vars
  <2> QED BY <2>1 DEF IInv, Typed, InRhythm, Gathered, Met, WordsPublished, Last, Counts,
             GatheredSoFar, Behind, Recorded, TotalsSoFar, Owed
<1> QED BY <1>1, <1>2 DEF Next

-----------------------------------------------------------------------------
(* The expert words and the host's counters, which IInv leaves open, are   *)
(* counts; and the counter is the last cell of the rank's column.          *)
CounterTyped ==
  /\ rawExpert  \in [Rank -> [Expert -> Nat]]
  /\ recvCount  \in [Rank -> Nat \cup {-1}]
  /\ recvExpert \in [Rank -> [LocalExpert -> Nat \cup {-1}]]

CounterSoFar ==
  \A r \in Rank :
    Behind(r, NumRanks - 1, r) => recvCount[r] = matrix[r][<<NumRanks - 1, r>>]

(* Rounding a count up to the alignment gives a count. *)
LEMMA AlignUpNat == ASSUME NEW n \in Nat PROVE AlignUp(n, Alignment) \in Nat
<1>1. n + Alignment - 1 \in Nat /\ Alignment \in Nat \ {0}
  BY AlignmentAssumption
<1>2. (n + Alignment - 1) \div Alignment \in Nat
  BY <1>1
<1>3. ((n + Alignment - 1) \div Alignment) * Alignment \in Nat
  BY <1>1, <1>2
<1> QED BY <1>3 DEF AlignUp

(* Every action keeps the counters counts. *)
LEMMA CounterTypedKept ==
  ASSUME IInv, CounterTyped, NEW r \in Rank, RankStep(r) PROVE CounterTyped'
<1> USE DEF CounterTyped
<1>1. CASE WriteCounts(r)
  <2>1. demand[call[r]][r] \in [Expert -> Nat]
    BY DemandsAssumption DEF IInv, Typed
  <2> QED BY <1>1, <2>1 DEF WriteCounts
<1>2. CASE Gather(r)
  <2> DEFINE src  == cell[r][1]
             dest == cell[r][2]
             prefix == buffer[src][<<0, dest>>]
                         + (IF src = 0 THEN 0 ELSE matrix[r][<<src - 1, dest>>])
  <2>1. src \in Rank /\ dest \in Rank /\ (src = 0 \/ src - 1 \in Rank)
    BY <1>2, Before DEF Gather, IInv, Typed
  <2>2. buffer[src][<<0, dest>>] \in Nat
    BY <2>1, RankFacts, Words DEF IInv
  <2>3. src # 0 => matrix[r][<<src - 1, dest>>] \in Nat
    BY <2>1, Words DEF IInv
  <2>4. prefix \in Nat
    <3> HIDE DEF src, dest
    <3> QED BY <2>2, <2>3
  <2>5. recvCount' = IF src = NumRanks - 1 /\ dest = r
                     THEN [recvCount EXCEPT ![r] = prefix] ELSE recvCount
    BY <1>2 DEF Gather
  <2> HIDE DEF prefix
  <2> QED BY <1>2, <2>4, <2>5 DEF Gather
<1>3. ASSUME NEW i \in LocalExpert, GatherExpert(r, i) PROVE CounterTyped'
  <2> DEFINE e == GlobalExpert(r, i)
             f == [s \in Rank |-> rawExpert[s][e]]
  <2>1. e \in Expert
    BY ExpertsOf
  <2>2. \A s \in Rank : f[s] \in Nat
    BY <2>1
  <2>3. IsFiniteSet(Rank)
    BY FS_Interval, NumRanksAssumption DEF Rank
  <2>4. SumFunctionOnSet(f, Rank) \in Nat
    <3> HIDE DEF f
    <3> QED BY <2>2, <2>3, SumNat
  <2>5. PICK n \in Nat : n = AlignUp(SumFunctionOnSet(f, Rank), Alignment)
    BY <2>4, AlignUpNat
  <2>6. recvExpert' = [recvExpert EXCEPT ![r][i] = n]
    BY <1>3, <2>5 DEF GatherExpert
  <2> QED BY <1>3, <2>6 DEF GatherExpert
<1>4. CASE Exchange(r)
  BY <1>4 DEF Exchange
<1> QED BY <1>1, <1>2, <1>3, <1>4 DEF RankStep

(* Every action keeps the counter the last cell of the column: the loop    *)
(* stores both in one step, and passes the cell once.                      *)
LEMMA CounterSoFarKept ==
  ASSUME IInv, CounterTyped, CounterSoFar, NEW r \in Rank, RankStep(r) PROVE CounterSoFar'
<1> SUFFICES ASSUME NEW q \in Rank, Behind(q, NumRanks - 1, q)'
             PROVE  recvCount'[q] = matrix'[q][<<NumRanks - 1, q>>]
  BY DEF CounterSoFar, Behind, Gathered
<1>0. ASSUME Behind(q, NumRanks - 1, q)
      PROVE  recvCount[q] = matrix[q][<<NumRanks - 1, q>>]
  BY <1>0 DEF CounterSoFar
<1>1. CASE WriteCounts(r)
  <2>1. q # r
    <3> SUFFICES ASSUME q = r PROVE FALSE
      OBVIOUS
    <3>1. stage'[r] = "gather" /\ cell'[r] = <<0, 0>>
      BY <1>1 DEF WriteCounts, IInv, Typed
    <3>2. ~(q < 0) /\ ~(NumRanks - 1 < 0)
      BY NumRanksAssumption DEF Rank
    <3> QED BY <3>1, <3>2 DEF Behind, Gathered
  <2>2. stage'[q] = stage[q] /\ cell'[q] = cell[q] /\ recvCount'[q] = recvCount[q]
        /\ matrix' = matrix
    BY <1>1, <2>1 DEF WriteCounts, IInv, Typed, CounterTyped
  <2> QED BY <1>0, <2>2 DEF Behind, Gathered
<1>2. CASE Gather(r)
  <2>1. CASE q # r
    <3>1. stage'[q] = stage[q] /\ cell'[q] = cell[q] /\ recvCount'[q] = recvCount[q]
          /\ matrix'[q] = matrix[q]
      BY <1>2, <2>1 DEF Gather, IInv, Typed, CounterTyped
    <3> QED BY <1>0, <3>1 DEF Behind, Gathered
  <2>2. CASE q = r
    <3> DEFINE src  == cell[r][1]
               dest == cell[r][2]
               prefix == buffer[src][<<0, dest>>]
                           + (IF src = 0 THEN 0 ELSE matrix[r][<<src - 1, dest>>])
    <3>1. src \in Rank /\ dest \in Rank /\ stage[r] = "gather"
      BY <1>2 DEF Gather, IInv, Typed
    <3>2. /\ matrix' = [matrix EXCEPT ![r][<<src, dest>>] = prefix]
          /\ recvCount' = IF src = NumRanks - 1 /\ dest = r
                          THEN [recvCount EXCEPT ![r] = prefix] ELSE recvCount
      BY <1>2 DEF Gather
    <3> HIDE DEF prefix
    <3>3. CASE src = NumRanks - 1 /\ dest = r
      <4>1. recvCount'[r] = prefix
        BY <3>2, <3>3 DEF CounterTyped
      <4>2. matrix'[r][<<src, dest>>] = prefix
        BY <3>1, <3>2, RankFacts, ZenonT(30) DEF IInv, Typed
      <4> QED BY <2>2, <3>3, <4>1, <4>2
    <3>4. CASE ~(src = NumRanks - 1 /\ dest = r)
      <4>1. recvCount' = recvCount
        BY <3>2, <3>4
      <4>2. matrix'[r][<<NumRanks - 1, r>>] = matrix[r][<<NumRanks - 1, r>>]
        BY <3>1, <3>2, <3>4, RankFacts DEF IInv, Typed
      <4>3. Behind(r, NumRanks - 1, r)
        <5>1. /\ cell'[r] = IF src < NumRanks - 1 THEN <<src + 1, dest>> ELSE <<0, dest + 1>>
              /\ stage'[r] = IF cell'[r][2] = NumRanks THEN "experts" ELSE "gather"
          BY <1>2, <3>1 DEF Gather, IInv, Typed, Following
        <5> HIDE DEF src, dest
        <5>2. src \in Nat /\ dest \in Nat /\ r \in Nat /\ NumRanks - 1 \in Nat
              /\ r <= NumRanks - 1 /\ src <= NumRanks - 1 /\ dest <= NumRanks - 1
          BY <3>1, RankFacts
        <5>3. CASE src < NumRanks - 1
          <6>1. r < dest
            BY <2>2, <5>1, <5>2, <5>3 DEF Behind, Gathered
          <6> QED BY <3>1, <6>1 DEF Behind, dest
        <5>4. CASE ~(src < NumRanks - 1)
          <6>1. src = NumRanks - 1 /\ dest # r
            BY <3>4, <5>2, <5>4
          <6>2. cell'[r][1] = 0 /\ cell'[r][2] = dest + 1
            BY <5>1, <5>4
          <6>3. r < dest + 1
            BY <2>2, <5>1, <5>2, <6>2 DEF Behind, Gathered
          <6>4. r < dest
            BY <5>2, <6>1, <6>3
          <6> QED BY <3>1, <6>4 DEF Behind, dest
        <5> QED BY <5>3, <5>4
      <4> QED BY <1>0, <2>2, <4>1, <4>2, <4>3
    <3> QED BY <3>3, <3>4
  <2> QED BY <2>1, <2>2
<1>3. ASSUME NEW i \in LocalExpert, GatherExpert(r, i)
      PROVE  recvCount'[q] = matrix'[q][<<NumRanks - 1, q>>]
  <2>1. UNCHANGED <<cell, matrix, recvCount>>
        /\ (stage'[q] \in {"experts", "exchange"} => Gathered(q))
        /\ (stage'[q] = "gather" => stage[q] = "gather")
    BY <1>3 DEF GatherExpert, IInv, Typed, Gathered
  <2> QED BY <1>0, <2>1 DEF Behind, Gathered
<1>4. CASE Exchange(r)
  <2>1. UNCHANGED <<cell, matrix, recvCount>>
        /\ stage'[q] \in {stage[q], "write"}
    BY <1>4 DEF Exchange, IInv, Typed
  <2> QED BY <1>0, <2>1 DEF Behind, Gathered
<1> QED BY <1>1, <1>2, <1>3, <1>4 DEF RankStep

-----------------------------------------------------------------------------
(* The inductive invariant of notify_dispatch over consecutive calls.      *)
THEOREM Invariance == Spec => []IInv
BY InitIInv, NextIInv, PTL DEF Spec

(* gather_counts: for any number of ranks and calls, each source's         *)
(* increment in the matrix that goes into the handle belongs to this very  *)
(* call, and is at worst rank 0's in place of the source's.                *)
THEOREM MatrixGathered == Spec => []MatrixIsGathered
<1>1. IInv => MatrixIsGathered
  BY DEF IInv, GatheredSoFar, Behind, Recorded, MatrixIsGathered, GatherOutcome
<1> QED BY <1>1, Invariance, PTL

(* gather_counts, the expert loop: for any number of ranks, experts and    *)
(* calls, the totals the host reads are those of this very call.           *)
THEOREM TotalsOfThisCall == Spec => []ExpertTotals
<1>1. IInv => ExpertTotals
  BY DEF IInv, TotalsSoFar, Owed, ExpertTotals
<1> QED BY <1>1, Invariance, PTL

(* The state stays in its types, for any number of ranks, experts and      *)
(* calls and any counts: the sums of the kernels' loops are counts.        *)
THEOREM Counters == Spec => [](CounterTyped /\ CounterSoFar)
<1>1. Init => CounterTyped /\ CounterSoFar
  BY DEF Init, CounterTyped, CounterSoFar, Behind, Gathered
<1>2. IInv /\ CounterTyped /\ CounterSoFar /\ [Next]_vars => (CounterTyped /\ CounterSoFar)'
  <2> SUFFICES ASSUME IInv, CounterTyped, CounterSoFar, [Next]_vars
               PROVE  CounterTyped' /\ CounterSoFar'
    OBVIOUS
  <2>1. CASE UNCHANGED vars
    BY <2>1 DEF vars, CounterTyped, CounterSoFar, Behind, Gathered
  <2>2. CASE Next
    <3>1. PICK r \in Rank : RankStep(r)
      BY <2>2 DEF Next
    <3> QED BY <3>1, CounterTypedKept, CounterSoFarKept
  <2> QED BY <2>1, <2>2
<1> QED BY <1>1, <1>2, Invariance, PTL DEF Spec

(* Every word of the buffers is a count, and the host's counters are a     *)
(* count or the -1 they are reset to: for any number of ranks, experts and *)
(* calls.                                                                  *)
THEOREM TypeCorrect == Spec => []TypeOK
<1>1. IInv /\ CounterTyped => TypeOK
  BY DEF IInv, Typed, CounterTyped, TypeOK
<1> QED BY <1>1, Invariance, Counters, PTL

(* The cells of a prefix matrix are running sums, of counts.               *)
LEMMA PrefixCell ==
  ASSUME NEW counts \in [Rank -> [Rank -> Nat]], NEW s \in Rank, NEW d \in Rank
  PROVE  /\ PrefixMatrix(counts)[<<s, d>>] \in Nat
         /\ CountIn(PrefixMatrix(counts), s, d) = counts[s][d]
<1> DEFINE f == [q \in Rank |-> counts[q][d]]
<1>1. \A q \in Rank : PrefixMatrix(counts)[<<q, d>>] = SumFunctionOnSet(f, 0 .. q)
  BY DEF PrefixMatrix, Cell
<1>2. \A q \in Rank : \A i \in 0 .. q : i \in Rank /\ f[i] \in Nat
  BY NumRanksAssumption DEF Rank
<1>3. \A q \in Rank : IsFiniteSet(0 .. q) /\ q \in Nat
  BY FS_Interval, RankFacts
<1> HIDE DEF f
<1>4. \A q \in Rank : SumFunctionOnSet(f, 0 .. q) \in Nat
  BY <1>2, <1>3, SumNat
<1>5. SumFunctionOnSet(f, 0 .. s) = IF s = 0 THEN f[0] ELSE SumFunctionOnSet(f, 0 .. s - 1) + f[s]
  <2>1. s \in Nat /\ \A i \in 0 .. s : f[i] \in Int
    BY <1>2, <1>3, SMTT(20)
  <2> QED BY <2>1, SumUpTo
<1>6. f[s] = counts[s][d] /\ f[s] \in Nat
  BY DEF f
<1>7. s # 0 => s - 1 \in Rank
  BY Before
<1> QED BY <1>1, <1>4, <1>5, <1>6, <1>7 DEF CountIn

(* A matrix is determined by what it counts. *)
LEMMA PrefixUnique ==
  ASSUME NEW m \in [Cell -> Nat], NEW counts \in [Rank -> [Rank -> Nat]],
         \A s, d \in Rank : CountIn(m, s, d) = counts[s][d]
  PROVE  m = PrefixMatrix(counts)
<1> DEFINE P == PrefixMatrix(counts)
           G == {n \in Nat : n \in Rank => \A d \in Rank : m[<<n, d>>] = P[<<n, d>>]}
<1>1. \A s, d \in Rank : /\ m[<<s, d>>] \in Nat /\ P[<<s, d>>] \in Nat
                         /\ CountIn(m, s, d) = CountIn(P, s, d)
  <2> TAKE s, d \in Rank
  <2>1. <<s, d>> \in Cell
    BY RankFacts
  <2>2. P[<<s, d>>] \in Nat /\ CountIn(P, s, d) = counts[s][d]
    BY PrefixCell
  <2> QED BY <2>1, <2>2
<1> HIDE DEF P
<1>2. 0 \in G
  <2>1. ASSUME NEW d \in Rank PROVE m[<<0, d>>] = P[<<0, d>>]
    <3>1. PICK a \in Nat, b \in Nat : a = m[<<0, d>>] /\ b = P[<<0, d>>]
      BY <1>1, RankFacts
    <3>2. a - 0 = b - 0
      BY <1>1, <3>1, RankFacts DEF CountIn
    <3>3. a = b
      BY <3>2
    <3> QED BY <3>1, <3>3
  <2> QED BY <2>1
<1>3. ASSUME NEW n \in G PROVE n + 1 \in G
  <2>1. ASSUME n + 1 \in Rank, NEW d \in Rank PROVE m[<<n + 1, d>>] = P[<<n + 1, d>>]
    <3>1. n \in Rank /\ (n + 1) - 1 = n /\ n + 1 # 0
      BY <2>1, NumRanksAssumption DEF Rank
    <3>2. m[<<n, d>>] = P[<<n, d>>]
      BY <3>1
    <3>3. CountIn(m, n + 1, d) = CountIn(P, n + 1, d)
      BY <1>1, <2>1
    <3>4. /\ CountIn(m, n + 1, d) = m[<<n + 1, d>>] - m[<<n, d>>]
          /\ CountIn(P, n + 1, d) = P[<<n + 1, d>>] - P[<<n, d>>]
      BY <3>1 DEF CountIn
    <3>5. PICK a \in Nat, b \in Nat, c \in Nat :
             a = m[<<n + 1, d>>] /\ b = P[<<n + 1, d>>] /\ c = m[<<n, d>>]
      BY <1>1, <2>1, <3>1
    <3>6. a - c = b - c
      BY <3>2, <3>3, <3>4, <3>5
    <3>7. a = b
      BY <3>6
    <3> QED BY <3>5, <3>7
  <2>2. n + 1 \in Nat
    OBVIOUS
  <2> QED BY <2>1, <2>2
<1>4. \A n \in Nat : n \in G
  <2> HIDE DEF G
  <2>1. G \in SUBSET Nat
    BY DEF G
  <2> QED BY <1>2, <1>3, <2>1, NatSetInduction
<1>5. \A c \in Cell : m[c] = P[c]
  <2> SUFFICES ASSUME NEW c \in Cell PROVE m[c] = P[c]
    OBVIOUS
  <2>1. PICK n \in Rank, d \in Rank : c = <<n, d>>
    BY DEF Cell
  <2>2. n \in Nat
    BY RankFacts
  <2> QED BY <1>4, <2>1, <2>2
<1>6. P \in [Cell -> Nat]
  <2>1. \A s, d \in Rank : PrefixMatrix(counts)[<<s, d>>] \in Nat
    BY PrefixCell
  <2>2. ASSUME NEW c \in Cell PROVE PrefixMatrix(counts)[c] \in Nat
    BY <2>1 DEF Cell
  <2>3. PICK f : f = [c \in Cell |-> PrefixMatrix(counts)[c]]
    OBVIOUS
  <2>4. f \in [Cell -> Nat]
    BY <2>2, <2>3
  <2>5. PrefixMatrix(counts) = f
    BY <2>3 DEF PrefixMatrix
  <2> QED BY <2>4, <2>5 DEF P
<1>7. m = P
  BY <1>5, <1>6
<1> QED BY <1>7 DEF P

(* gather_counts: when all ranks send the same number of tokens to each    *)
(* destination the aliasing does no harm, for any number of ranks and      *)
(* calls: the matrix is the prefix sum and the counter the number received.*)
THEOREM UniformGathered == Spec => []UniformCountsGathered
<1>1. IInv /\ CounterSoFar => UniformCountsGathered
  <2> SUFFICES ASSUME IInv, CounterSoFar, NEW r \in Rank, Gathered(r),
                      \A s \in Rank : Counts(call[r])[s] = Counts(call[r])[0]
               PROVE  /\ matrix[r] = PrefixMatrix(Counts(call[r]))
                      /\ recvCount[r] = PrefixMatrix(Counts(call[r]))[<<NumRanks - 1, r>>]
    BY DEF UniformCountsGathered
  <2>1. Counts(call[r]) \in [Rank -> [Rank -> Nat]]
    BY CountsTyped DEF IInv, Typed
  <2>2. ASSUME NEW s \in Rank, NEW d \in Rank
        PROVE  CountIn(matrix[r], s, d) = Counts(call[r])[s][d]
    <3>1. Recorded(matrix[r], Counts(call[r]), r, s, d)
      BY DEF IInv, GatheredSoFar, Behind
    <3>2. Counts(call[r])[s] = Counts(call[r])[0]
      OBVIOUS
    <3> QED BY <3>1, <3>2 DEF Recorded
  <2>3. matrix[r] \in [Cell -> Nat]
    BY DEF IInv, Typed
  <2>4. matrix[r] = PrefixMatrix(Counts(call[r]))
    BY <2>1, <2>2, <2>3, PrefixUnique
  <2>5. recvCount[r] = matrix[r][<<NumRanks - 1, r>>]
    BY DEF CounterSoFar, Behind
  <2> QED BY <2>4, <2>5
<1> QED BY <1>1, Invariance, Counters, PTL
=============================================================================
