-------------------------- MODULE LowLatencyInvariant --------------------------
(***************************************************************************)
(* The inductive invariant of the low-latency kernels (IInv), and that the *)
(* steps which send nothing keep it: the barriers and the cleaning of the  *)
(* words, the receiver's steps, and the end of a call.  LowLatencyProofs   *)
(* has the steps that send, the network's, and the theorems.               *)
(*                                                                         *)
(* Nobody meets in a barrier.  The argument is that a rank cannot finish a *)
(* call before each peer that lives has told it all, and a peer tells all  *)
(* only after it has zeroed its words of the next call: so a rank is at    *)
(* most one call ahead of what its peers expect (PosInv), two calls never  *)
(* meet in one buffer, and what is on a wire is of a call its receiver     *)
(* expects (WireInv).  Whoever has not been told may lack rows; a word     *)
(* that is not zero has all its rows behind it (SignalInv, HoldsInv).      *)
(***************************************************************************)
EXTENDS LowLatency, DataLemmas, SequenceTheorems, TLAPS

(***************************************************************************)
(* Calls and buffers.  The calls of the ranks correspond one to one, so    *)
(* the buffer a call uses is the parity of the calls before it that use    *)
(* one: a function of the run, which no rank can see and all agree on.     *)
(***************************************************************************)
NumCalls  == Len(run.calls)
Pos(r)    == kernel[r].call
Active(n) == KindOf(n) \in {"dispatch", "combine"}
Handle(n) == run.calls[n].of
Side(n)   == Cardinality({m \in 1 .. n - 1 : Active(m)}) % 2
Cleans(n) == Cardinality({m \in 1 .. n - 1 : KindOf(m) = "clean"})

(* Local expert q of rank d, as it is numbered in step; and the tokens of   *)
(* rank s for it in call n.                                                 *)
Step(s, d, q)    == kernel[s].step[GlobalOf(d, q)]
Tokens(n, s, d, q) == TokensFor(n, s, GlobalOf(d, q))
Count(n, s, d, q)  == Cardinality(Tokens(n, s, d, q))

(* In shrink mode an application cleans only at the very end.  Otherwise    *)
(* the barrier of the clean may mask a peer that lives, because the peer   *)
(* has overwritten the count that the barrier waits for with its next one, *)
(* and the dispatch after the clean leaves out that peer's rows.           *)
CleansLast ==
  \A s \in Runs : s.shrink =>
    \A n \in DOMAIN s.calls : s.calls[n].kind = "clean" => n = Len(s.calls)
-----------------------------------------------------------------------------
(* What the constants say of the run.                                       *)
LEMMA RunFacts ==
  ASSUME run \in Runs
  PROVE  /\ NumRanks \in Nat \ {0} /\ MaxTokens \in Nat \ {0} /\ Tag \in Nat \ {0}
         /\ NumLocalExperts \in Nat \ {0}
         /\ NumCalls \in Nat /\ DOMAIN run.calls = 1 .. NumCalls
         /\ run.shrink \in BOOLEAN /\ run.mortal \in SUBSET Rank
         /\ run.mortal # {} => run.shrink
         /\ \A n \in 1 .. NumCalls : /\ KindOf(n) \in {"dispatch", "combine", "clean"}
                                     /\ KindOf(n) = run.calls[n].kind
         /\ \A n : n > NumCalls => KindOf(n) = "none"
         /\ \A n \in 1 .. NumCalls : KindOf(n) = "combine" =>
              Handle(n) \in 1 .. n - 1 /\ KindOf(Handle(n)) = "dispatch"
         /\ CleansLast => \A n \in 1 .. NumCalls :
              run.shrink /\ KindOf(n) = "clean" => n = NumCalls
<1>1. /\ NumRanks \in Nat \ {0} /\ MaxTokens \in Nat \ {0} /\ Tag \in Nat \ {0}
  BY SizesAssumption
<1>2. /\ NumLocalExperts \in Nat \ {0}
      /\ NumCalls \in Nat /\ DOMAIN run.calls = 1 .. NumCalls
      /\ run.shrink \in BOOLEAN /\ run.mortal \in SUBSET Rank
      /\ run.mortal # {} => run.shrink
      /\ \A n \in 1 .. NumCalls :
           \/ run.calls[n].kind = "dispatch"
           \/ /\ run.calls[n].kind = "combine" /\ run.calls[n].of \in 1 .. n - 1
              /\ run.calls[run.calls[n].of].kind = "dispatch"
           \/ run.calls[n].kind = "clean"
  BY RunsAssumption DEF NumLocalExperts, NumCalls
<1>3. \A n \in 1 .. NumCalls : KindOf(n) = run.calls[n].kind
  BY <1>2 DEF KindOf, NumCalls
<1>4. \A n : n > NumCalls => KindOf(n) = "none"
  BY DEF KindOf, NumCalls
<1>5. \A n \in 1 .. NumCalls : KindOf(n) \in {"dispatch", "combine", "clean"}
  BY <1>2, <1>3
<1>6. ASSUME NEW n \in 1 .. NumCalls, KindOf(n) = "combine"
      PROVE  Handle(n) \in 1 .. n - 1 /\ KindOf(Handle(n)) = "dispatch"
  <2>1. run.calls[n].of \in 1 .. n - 1 /\ run.calls[run.calls[n].of].kind = "dispatch"
    BY <1>2, <1>3, <1>6
  <2>2. run.calls[n].of \in 1 .. NumCalls
    BY <1>2, <2>1
  <2> QED BY <1>3, <2>1, <2>2 DEF Handle
<1>7. ASSUME CleansLast, NEW n \in 1 .. NumCalls, run.shrink, KindOf(n) = "clean"
      PROVE  n = NumCalls
  BY <1>2, <1>3, <1>7 DEF CleansLast, NumCalls
<1> QED BY <1>1, <1>2, <1>3, <1>4, <1>5, <1>6, <1>7

(* The tokens of a dispatch.                                                *)
LEMMA TokenFacts ==
  ASSUME run \in Runs, NEW n \in 1 .. NumCalls, KindOf(n) = "dispatch", NEW s \in Rank, NEW e
  PROVE  /\ TokensFor(n, s, e) \subseteq 0 .. MaxTokens - 1
         /\ IsFiniteSet(TokensFor(n, s, e))
              /\ Cardinality(TokensFor(n, s, e)) \in 0 .. MaxTokens
         /\ DOMAIN To(n, s) \subseteq 0 .. MaxTokens - 1
         /\ \A t \in DOMAIN To(n, s) : To(n, s)[t] \subseteq Expert
<1>1. PICK k \in 0 .. MaxTokens :
        run.calls[n].to[s] \in [0 .. k - 1 -> SUBSET (0 .. NumRanks * run.locals - 1)]
  BY RunFacts, RunsAssumption DEF NumCalls
<1>2. MaxTokens \in Nat /\ k \in Nat /\ k <= MaxTokens
  BY <1>1, SizesAssumption
<1>3. DOMAIN To(n, s) = 0 .. k - 1
  BY <1>1 DEF To
<1>4. TokensFor(n, s, e) \subseteq 0 .. k - 1
  BY <1>3 DEF TokensFor
<1>5. IsFiniteSet(0 .. k - 1) /\ Cardinality(0 .. k - 1) = k
  <2>1. IsFiniteSet(0 .. k - 1)
    BY <1>2, FS_Interval
  <2>2. Cardinality(0 .. k - 1) = IF 0 > k - 1 THEN 0 ELSE (k - 1) - 0 + 1
    BY <1>2, FS_Interval
  <2> QED BY <1>2, <2>1, <2>2
<1>6. IsFiniteSet(TokensFor(n, s, e)) /\ Cardinality(TokensFor(n, s, e)) <= k
  BY <1>4, <1>5, FS_Subset
<1>7. Cardinality(TokensFor(n, s, e)) \in Nat
  BY <1>6, FS_CardinalityType
<1>8. \A t \in DOMAIN To(n, s) : To(n, s)[t] \subseteq Expert
  BY <1>1, <1>3 DEF To, Expert, NumLocalExperts
<1> QED BY <1>2, <1>3, <1>4, <1>6, <1>7, <1>8

(* Experts are numbered by rank and local expert, count words by local      *)
(* expert and rank.                                                         *)
LEMMA Numbered ==
  ASSUME NEW A \in Nat \ {0}, NEW B \in Nat \ {0}
  PROVE  /\ \A a \in 0 .. A - 1, b \in 0 .. B - 1 :
              /\ a * B + b \in 0 .. A * B - 1
              /\ (a * B + b) \div B = a /\ (a * B + b) % B = b
         /\ \A x \in 0 .. A * B - 1 :
              /\ x \div B \in 0 .. A - 1 /\ x % B \in 0 .. B - 1
              /\ (x \div B) * B + (x % B) = x
<1>1. ASSUME NEW a \in 0 .. A - 1, NEW b \in 0 .. B - 1
      PROVE  /\ a * B + b \in 0 .. A * B - 1
             /\ (a * B + b) \div B = a /\ (a * B + b) % B = b
  <2>1. a \in Nat /\ b \in Nat /\ a * B \in Nat /\ a + 1 <= A /\ b < B
    OBVIOUS
  <2>2. (a + 1) * B <= A * B
    BY <2>1
  <2>3. a * B + b <= A * B - 1
    BY <2>1, <2>2
  <2>4. PICK x \in Nat : x = a * B + b
    BY <2>1
  <2>5. /\ x \div B \in Int /\ x % B \in 0 .. B - 1
        /\ x = B * (x \div B) + (x % B)
    BY Division
  <2>6. PICK k \in Int : k = x \div B
    BY <2>5
  <2>7. a * B + b = B * k + (x % B)
    BY <2>4, <2>5, <2>6
  <2>8. a - k = 0
    <3>1. B * (a - k) = (x % B) - b
      BY <2>1, <2>5, <2>7
    <3>2. B * (a - k) < B /\ -B < B * (a - k) /\ a - k \in Int
      BY <2>1, <2>5, <3>1
    <3> QED BY <3>2, MultipleInRange
  <2>9. k = a /\ x % B = b
    BY <2>1, <2>5, <2>7, <2>8
  <2> QED BY <2>1, <2>3, <2>4, <2>6, <2>9
<1>2. ASSUME NEW x \in 0 .. A * B - 1
      PROVE  /\ x \div B \in 0 .. A - 1 /\ x % B \in 0 .. B - 1
             /\ (x \div B) * B + (x % B) = x
  <2>1. /\ x \in Nat /\ x < A * B
    OBVIOUS
  <2>2. /\ x \div B \in Int /\ x % B \in 0 .. B - 1
        /\ x = B * (x \div B) + (x % B)
    BY <2>1, Division
  <2>3. PICK k \in Int : k = x \div B
    BY <2>2
  <2>4. PICK y \in 0 .. B - 1 : y = x % B
    BY <2>2
  <2>5. x = B * k + y /\ y \in Nat /\ y < B
    BY <2>2, <2>3, <2>4
  <2>6. k >= 0
    <3> SUFFICES ASSUME k <= -1 PROVE FALSE
      OBVIOUS
    <3>1. B * k <= -B
      OBVIOUS
    <3> QED BY <2>1, <2>5, <3>1
  <2>7. k <= A - 1
    <3> SUFFICES ASSUME k >= A PROVE FALSE
      OBVIOUS
    <3>1. B * k >= B * A
      OBVIOUS
    <3> QED BY <2>1, <2>5, <3>1
  <2>8. k * B + y = x
    BY <2>5
  <2> QED BY <2>3, <2>4, <2>6, <2>7, <2>8
<1> QED BY <1>1, <1>2

(* Each expert has one owner, and each pair of a rank and a local expert    *)
(* one word.                                                                *)
LEMMA IndexFacts ==
  ASSUME run \in Runs
  PROVE  /\ \A e \in Expert : /\ Owner(e) \in Rank /\ LocalOf(e) \in Local
                              /\ GlobalOf(Owner(e), LocalOf(e)) = e
         /\ \A r \in Rank, q \in Local :
              /\ GlobalOf(r, q) \in Expert /\ Owner(GlobalOf(r, q)) = r
              /\ LocalOf(GlobalOf(r, q)) = q /\ CountWord(q, r) \in Expert
         /\ \A r, s \in Rank, p, q \in Local : CountWord(p, r) = CountWord(q, s) => p = q
              /\ r = s
         /\ \A r, s \in Rank, p, q \in Local : GlobalOf(r, p) = GlobalOf(s, q) => r = s /\ p = q
         /\ 0 \in Rank /\ 0 \in Local /\ 0 \in Expert /\ Rank \subseteq Nat
              /\ Expert \subseteq Nat
         /\ IsFiniteSet(Rank) /\ Cardinality(Rank) = NumRanks
         /\ IsFiniteSet(Expert) /\ Cardinality(Expert) \in Nat \ {0}
<1>1. NumRanks \in Nat \ {0} /\ NumLocalExperts \in Nat \ {0}
  BY RunFacts
<1>2. /\ \A a \in Rank, b \in Local :
           /\ a * NumLocalExperts + b \in Expert
           /\ (a * NumLocalExperts + b) \div NumLocalExperts = a
           /\ (a * NumLocalExperts + b) % NumLocalExperts = b
      /\ \A x \in Expert :
           /\ x \div NumLocalExperts \in Rank /\ x % NumLocalExperts \in Local
           /\ (x \div NumLocalExperts) * NumLocalExperts + (x % NumLocalExperts) = x
  BY <1>1, Numbered DEF Expert, Rank, Local
<1>3. \A b \in Local, a \in Rank :
           /\ b * NumRanks + a \in 0 .. NumLocalExperts * NumRanks - 1
           /\ (b * NumRanks + a) \div NumRanks = b
           /\ (b * NumRanks + a) % NumRanks = a
  BY <1>1, Numbered DEF Rank, Local
<1>4. 0 .. NumLocalExperts * NumRanks - 1 = Expert
  BY <1>1 DEF Expert
<1>5. /\ 0 \in Rank /\ 0 \in Local /\ Rank \subseteq Nat /\ Expert \subseteq Nat
  BY <1>1 DEF Rank, Local, Expert
<1>6. PICK n \in Nat : n = NumRanks * NumLocalExperts /\ n >= 1
  <2>1. NumRanks * NumLocalExperts >= 1 /\ NumRanks * NumLocalExperts \in Nat
    BY <1>1
  <2> QED BY <2>1
<1>7. Expert = 0 .. n - 1 /\ 0 \in Expert
  BY <1>6 DEF Expert
<1>8. /\ IsFiniteSet(Rank) /\ Cardinality(Rank) = NumRanks
  <2>1. Cardinality(0 .. NumRanks - 1) = IF 0 > NumRanks - 1 THEN 0 ELSE (NumRanks - 1) - 0 + 1
    BY <1>1, FS_Interval
  <2> QED BY <1>1, <2>1, FS_Interval DEF Rank
<1>9. /\ IsFiniteSet(Expert) /\ Cardinality(Expert) \in Nat \ {0}
  <2>1. Cardinality(0 .. n - 1) = IF 0 > n - 1 THEN 0 ELSE (n - 1) - 0 + 1
    BY <1>6, FS_Interval
  <2> QED BY <1>6, <1>7, <2>1, FS_Interval
<1>10. \A r, s \in Rank, p, q \in Local : CountWord(p, r) = CountWord(q, s) => p = q /\ r = s
  BY <1>3 DEF CountWord
<1>11. \A r, s \in Rank, p, q \in Local : GlobalOf(r, p) = GlobalOf(s, q) => r = s /\ p = q
  BY <1>2 DEF GlobalOf
<1>12. \A r \in Rank, q \in Local : CountWord(q, r) \in Expert
  BY <1>3, <1>4 DEF CountWord
<1> QED BY <1>2, <1>5, <1>7, <1>8, <1>9, <1>10, <1>11, <1>12 DEF Owner, LocalOf, GlobalOf

(* One more number, in a set or not.                                        *)
LEMMA CountStep ==
  ASSUME NEW n \in Nat \ {0}, NEW A \in SUBSET (1 .. n - 1), NEW B,
         B = A \/ B = A \cup {n}
  PROVE  /\ IsFiniteSet(A) /\ Cardinality(A) \in Nat
         /\ Cardinality(B) = IF n \in B THEN Cardinality(A) + 1 ELSE Cardinality(A)
<1>1. IsFiniteSet(A) /\ Cardinality(A) \in Nat
  <2>1. IsFiniteSet(1 .. n - 1)
    BY FS_Interval
  <2>2. IsFiniteSet(A)
    BY <2>1, FS_Subset
  <2> QED BY <2>2, FS_CardinalityType
<1>2. n \notin A
  OBVIOUS
<1>3. Cardinality(A \cup {n}) = Cardinality(A) + 1
  BY <1>1, <1>2, FS_AddElement
<1> QED BY <1>1, <1>2, <1>3

(* From call to call: a call that uses a buffer changes the side, and a     *)
(* clean is one more.                                                       *)
LEMMA SideFacts ==
  ASSUME NEW n \in Nat \ {0}
  PROVE  /\ Side(n) \in {0, 1} /\ Side(n + 1) \in {0, 1}
         /\ Active(n) => Side(n + 1) = 1 - Side(n)
         /\ ~Active(n) => Side(n + 1) = Side(n)
         /\ Cleans(n) \in Nat
         /\ Cleans(n + 1) = IF KindOf(n) = "clean" THEN Cleans(n) + 1 ELSE Cleans(n)
         /\ Side(1) = 0 /\ Cleans(1) = 0
<1>1. PICK a, b : a = {m \in 1 .. n - 1 : Active(m)} /\ b = {m \in 1 .. n : Active(m)}
  OBVIOUS
<1>2. PICK c, d : c = {m \in 1 .. n - 1 : KindOf(m) = "clean"}
                  /\ d = {m \in 1 .. n : KindOf(m) = "clean"}
  OBVIOUS
<1>3. a \in SUBSET (1 .. n - 1) /\ (b = a \/ b = a \cup {n}) /\ (n \in b <=> Active(n))
  BY <1>1
<1>4. c \in SUBSET (1 .. n - 1) /\ (d = c \/ d = c \cup {n})
        /\ (n \in d <=> KindOf(n) = "clean")
  BY <1>2
<1>5. PICK k \in Nat : k = Cardinality(a)
  BY <1>3, CountStep
<1>6. Cardinality(b) = IF Active(n) THEN k + 1 ELSE k
  BY <1>3, <1>5, CountStep
<1>7. PICK j \in Nat : j = Cardinality(c)
  BY <1>4, CountStep
<1>8. Cardinality(d) = IF KindOf(n) = "clean" THEN j + 1 ELSE j
  BY <1>4, <1>7, CountStep
<1>0. (n + 1) - 1 = n
  OBVIOUS
<1>9. Side(n) = k % 2 /\ Side(n + 1) = (IF Active(n) THEN k + 1 ELSE k) % 2
  BY <1>0, <1>1, <1>5, <1>6 DEF Side
<1>10. Cleans(n) = j /\ Cleans(n + 1) = IF KindOf(n) = "clean" THEN j + 1 ELSE j
  BY <1>0, <1>2, <1>7, <1>8 DEF Cleans
<1>11. k % 2 \in {0, 1} /\ (k + 1) % 2 = 1 - (k % 2)
  OBVIOUS
<1>12. Side(1) = 0 /\ Cleans(1) = 0
  <2>1. {m \in 1 .. 1 - 1 : Active(m)} = {} /\ {m \in 1 .. 1 - 1 : KindOf(m) = "clean"} = {}
    OBVIOUS
  <2>2. Cardinality({}) = 0
    BY FS_EmptySet
  <2> QED BY <2>1, <2>2 DEF Side, Cleans
<1> QED BY <1>9, <1>10, <1>11, <1>12

(* More calls, more cleans.                                                 *)
LEMMA CleansMonotone ==
  ASSUME NEW n \in Nat \ {0}, NEW m \in Nat \ {0}, n <= m
  PROVE  Cleans(n) <= Cleans(m) /\ Cleans(n) \in Nat /\ Cleans(m) \in Nat
<1> DEFINE C == {x \in 1 .. m - 1 : KindOf(x) = "clean"}
           c == {x \in 1 .. n - 1 : KindOf(x) = "clean"}
<1>1. IsFiniteSet(1 .. m - 1)
  BY FS_Interval
<1>2. IsFiniteSet(C) /\ c \subseteq C
  BY <1>1, FS_Subset
<1>3. Cardinality(c) <= Cardinality(C)
  BY <1>2, FS_Subset
<1> QED BY <1>3, SideFacts DEF Cleans

(***************************************************************************)
(* What a run fixes, no step changes.                                      *)
(***************************************************************************)
LEMMA Fixed ==
  ASSUME run' = run
  PROVE  /\ Local' = Local /\ Expert' = Expert /\ NumCalls' = NumCalls
         /\ NumLocalExperts' = NumLocalExperts
         /\ \A e : Owner(e)' = Owner(e) /\ LocalOf(e)' = LocalOf(e)
         /\ \A r, q : GlobalOf(r, q)' = GlobalOf(r, q)
         /\ \A n : KindOf(n)' = KindOf(n) /\ (Active(n)' <=> Active(n))
         /\ \A n : Handle(n)' = Handle(n) /\ Side(n)' = Side(n) /\ Cleans(n)' = Cleans(n)
         /\ \A n, s : To(n, s)' = To(n, s)
         /\ \A n, s, e : TokensFor(n, s, e)' = TokensFor(n, s, e)
         /\ \A n, s, d, q : Tokens(n, s, d, q)' = Tokens(n, s, d, q)
         /\ \A n, s, d, q : Count(n, s, d, q)' = Count(n, s, d, q)
         /\ \A r, d : NVLink(r, d)' <=> NVLink(r, d)
<1>1. NumLocalExperts' = NumLocalExperts
  BY DEF NumLocalExperts
<1>2. /\ Local' = Local /\ Expert' = Expert /\ NumCalls' = NumCalls
      /\ \A e : Owner(e)' = Owner(e) /\ LocalOf(e)' = LocalOf(e)
      /\ \A r, q : GlobalOf(r, q)' = GlobalOf(r, q)
  BY <1>1 DEF Local, Expert, NumCalls, Owner, LocalOf, GlobalOf
<1>3. \A n : KindOf(n)' = KindOf(n)
  BY DEF KindOf
<1>4. \A n : Active(n)' <=> Active(n)
  BY <1>3 DEF Active
<1>5. \A n : Side(n)' = Side(n) /\ Cleans(n)' = Cleans(n)
  BY <1>3, <1>4 DEF Side, Cleans
<1>6. \A n, s : To(n, s)' = To(n, s)
  BY DEF To
<1>7. \A n, s, e : TokensFor(n, s, e)' = TokensFor(n, s, e)
  BY <1>6 DEF TokensFor
<1>8. \A n, s, d, q : Tokens(n, s, d, q)' = Tokens(n, s, d, q)
  BY <1>2, <1>7 DEF Tokens
<1>9. \A n, s, d, q : Count(n, s, d, q)' = Count(n, s, d, q)
  BY <1>8 DEF Count
<1>10. (\A n : Handle(n)' = Handle(n)) /\ (\A r, d : NVLink(r, d)' <=> NVLink(r, d))
  BY DEF Handle, NVLink
<1> QED BY <1>1, <1>2, <1>3, <1>4, <1>5, <1>6, <1>7, <1>8, <1>9, <1>10
-----------------------------------------------------------------------------
(***************************************************************************)
(* Memory: a set of pairs of a place and a row, at most one to a place.    *)
(***************************************************************************)
Good(mem, places) ==
  /\ \A p \in mem : p = <<p[1], p[2]>> /\ p[1] \in places
  /\ \A p, q \in mem : p[1] = q[1] => p = q

(* A row written is the only one at its place; the rows of its kind stay.   *)
LEMMA OverlayFacts ==
  ASSUME NEW places, NEW mem, Good(mem, places), NEW place \in places, NEW row
  PROVE  /\ Good(Overlay(mem, place, row), places)
         /\ <<place, row>> \in Overlay(mem, place, row)
         /\ \A p, x : <<p, x>> \in mem /\ p[1] = place[1] /\ p # place
                        => <<p, x>> \in Overlay(mem, place, row)
         /\ \A x : <<place, x>> \in Overlay(mem, place, row) => x = row
<1> DEFINE kept == {p \in mem : p[1][1] = place[1] /\ p[1] # place}
           new == <<place, row>>
<1>1. Overlay(mem, place, row) = kept \cup {new}
  BY DEF Overlay
<1>2. new[1] = place /\ new[2] = row /\ new = <<new[1], new[2]>>
  OBVIOUS
<1>3. \A p \in kept : p \in mem /\ p[1] # new[1]
  BY <1>2
<1>4. Good(kept \cup {new}, places)
  <2>1. \A p \in kept \cup {new} : p = <<p[1], p[2]>> /\ p[1] \in places
    BY <1>2, <1>3, Zenon DEF Good
  <2>2. ASSUME NEW p \in kept \cup {new}, NEW q \in kept \cup {new}, p[1] = q[1] PROVE p = q
    BY <1>3, <2>2, Zenon DEF Good
  <2> HIDE DEF kept, new
  <2> QED BY <2>1, <2>2 DEF Good
<1>5. ASSUME NEW p, NEW x, <<p, x>> \in mem, p[1] = place[1], p # place
      PROVE  <<p, x>> \in kept
  BY <1>5
<1>6. ASSUME NEW x, <<place, x>> \in kept \cup {new} PROVE x = row
  <2>1. <<place, x>> \notin kept
    OBVIOUS
  <2> QED BY <1>6, <2>1
<1> QED BY <1>1, <1>4, <1>5, <1>6

(* What is at a place is found there.                                       *)
LEMMA AtFacts ==
  ASSUME NEW places, NEW mem, Good(mem, places), NEW place, NEW row, <<place, row>> \in mem
  PROVE  At(mem, place) = row
<1> DEFINE new == <<place, row>>
<1>1. new[1] = place /\ new[2] = row /\ new \in mem
  OBVIOUS
<1>2. \A p \in mem : p[1] = place => p = new
  BY <1>1, Zenon DEF Good
<1>3. (CHOOSE p \in mem : p[1] = place) = new
  BY <1>1, <1>2, Zenon
<1> QED BY <1>1, <1>3, Zenon DEF At

(***************************************************************************)
(* One channel: the queue pair from a rank to a local expert of a peer, a  *)
(* buffer of the peer, and the word of it that the channel signals.        *)
(***************************************************************************)
OfBuf(x, b)     == x.kind # "sync" /\ x.buf = b
AddMsg(x, b)    == x.kind = "add" /\ x.buf = b
RowMsg(x, b, P) == x.kind = "row" /\ x.buf = b /\ x.place = P
NoneOf(w, b)    == \A i \in DOMAIN w : ~OfBuf(w[i], b)

(* Word i, of content x, will be v: it has not been signalled; or it has    *)
(* been, and nothing of the buffer is left on the wire; or the signal is    *)
(* the last thing of the buffer on the wire.                                *)
Untold(w, b, x)    == x = 0 /\ \A j \in DOMAIN w : ~AddMsg(w[j], b)
Landed(w, b, v, x) == x = v /\ NoneOf(w, b)
Coming(w, b, i, v, x) ==
  /\ x = 0
  /\ \E j \in DOMAIN w :
       /\ w[j].kind = "add" /\ w[j].buf = b /\ w[j].word = i /\ w[j].value = v
       /\ \A k \in DOMAIN w : OfBuf(w[k], b) /\ k # j => k < j /\ w[k].kind = "row"

(* A row is on its way to place P, and nothing else is, or it is there.     *)
HoldsIn(w, b, st, rg, P, row) ==
  /\ \A i \in DOMAIN w : RowMsg(w[i], b, P) => <<w[i].from, row>> \in st
  /\ (\E i \in DOMAIN w : RowMsg(w[i], b, P)) \/ <<P, row>> \in rg

(* A message more at the end of a wire.                                     *)
LEMMA AppendFacts ==
  ASSUME NEW S, NEW w \in Seq(S), NEW x \in S
  PROVE  /\ Append(w, x) \in Seq(S)
         /\ Len(w) + 1 \in DOMAIN Append(w, x) /\ Append(w, x)[Len(w) + 1] = x
         /\ \A i \in DOMAIN w : /\ i \in DOMAIN Append(w, x) /\ Append(w, x)[i] = w[i]
                                /\ i < Len(w) + 1
         /\ \A i \in DOMAIN Append(w, x) : i \in DOMAIN w \/ i = Len(w) + 1
         /\ DOMAIN w \subseteq Nat /\ Len(w) \in Nat
         /\ Append(w, x) # <<>>
<1>1. DOMAIN w = 1 .. Len(w) /\ Len(w) \in Nat
  OBVIOUS
<1>2. /\ Append(w, x) \in Seq(S) /\ Len(Append(w, x)) = Len(w) + 1
      /\ \A i \in 1 .. Len(w) : Append(w, x)[i] = w[i]
      /\ Append(w, x)[Len(w) + 1] = x
  BY AppendProperties
<1>3. DOMAIN Append(w, x) = 1 .. Len(w) + 1
  BY <1>2
<1> QED BY <1>1, <1>2, <1>3

(* A message fewer at its front.                                            *)
LEMMA TailFacts ==
  ASSUME NEW S, NEW w \in Seq(S), w # <<>>
  PROVE  /\ Tail(w) \in Seq(S) /\ 1 \in DOMAIN w /\ Head(w) = w[1] /\ Head(w) \in S
         /\ \A i \in DOMAIN Tail(w) : i + 1 \in DOMAIN w /\ Tail(w)[i] = w[i + 1]
         /\ \A j \in DOMAIN w : j = 1 \/ (j - 1 \in DOMAIN Tail(w) /\ Tail(w)[j - 1] = w[j])
         /\ DOMAIN w \subseteq Nat /\ DOMAIN Tail(w) \subseteq Nat \ {0}
<1>1. DOMAIN w = 1 .. Len(w) /\ Len(w) \in Nat /\ Len(w) >= 1
  BY EmptySeq
<1>2. /\ Head(w) = w[1] /\ Head(w) \in S /\ Tail(w) \in Seq(S)
      /\ Len(Tail(w)) = Len(w) - 1
      /\ \A i \in 1 .. Len(Tail(w)) : Tail(w)[i] = w[i + 1]
  BY HeadTailProperties
<1>3. DOMAIN Tail(w) = 1 .. Len(w) - 1
  BY <1>2
<1>4. \A j \in DOMAIN w : j = 1 \/ (j - 1 \in DOMAIN Tail(w) /\ Tail(w)[j - 1] = w[j])
  <2> SUFFICES ASSUME NEW j \in DOMAIN w, j # 1
               PROVE  j - 1 \in DOMAIN Tail(w) /\ Tail(w)[j - 1] = w[j]
    OBVIOUS
  <2>1. j - 1 \in 1 .. Len(Tail(w)) /\ (j - 1) + 1 = j
    BY <1>1, <1>2
  <2>2. Tail(w)[j - 1] = w[(j - 1) + 1]
    BY <1>2, <2>1
  <2> QED BY <1>2, <1>3, <2>1, <2>2
<1> QED BY <1>1, <1>2, <1>3, <1>4

(* A row goes out, or something of another buffer.                          *)
LEMMA HoldsAppend ==
  ASSUME NEW S, NEW w \in Seq(S), NEW x \in S, NEW b, NEW st, NEW rg, NEW st2, NEW P, NEW row,
         HoldsIn(w, b, st, rg, P, row),
         \A f : <<f, row>> \in st => <<f, row>> \in st2,
         RowMsg(x, b, P) => <<x.from, row>> \in st2
  PROVE  HoldsIn(Append(w, x), b, st2, rg, P, row)
BY AppendFacts DEF HoldsIn

(* The row for P goes out.                                                  *)
LEMMA HoldsSent ==
  ASSUME NEW S, NEW w \in Seq(S), NEW x \in S, NEW b, NEW rg, NEW st2, NEW P, NEW row,
         RowMsg(x, b, P), <<x.from, row>> \in st2,
         \A i \in DOMAIN w : RowMsg(w[i], b, P) => <<w[i].from, row>> \in st2
  PROVE  HoldsIn(Append(w, x), b, st2, rg, P, row)
BY AppendFacts DEF HoldsIn

(* The network carries out what is first on the wire.                       *)
LEMMA HoldsDelivered ==
  ASSUME NEW S, NEW w \in Seq(S), w # <<>>, NEW b, NEW st, NEW rg, NEW rg2, NEW P, NEW row,
         HoldsIn(w, b, st, rg, P, row),
         RowMsg(Head(w), b, P) => <<P, row>> \in rg2,
         ~RowMsg(Head(w), b, P) /\ <<P, row>> \in rg => <<P, row>> \in rg2
  PROVE  HoldsIn(Tail(w), b, st, rg2, P, row)
<1>1. \A i \in DOMAIN Tail(w) : RowMsg(Tail(w)[i], b, P) => <<Tail(w)[i].from, row>> \in st
  BY TailFacts DEF HoldsIn
<1>2. CASE RowMsg(Head(w), b, P)
  BY <1>1, <1>2 DEF HoldsIn
<1>3. CASE ~RowMsg(Head(w), b, P)
  <2>1. CASE <<P, row>> \in rg
    BY <1>1, <1>3, <2>1 DEF HoldsIn
  <2>2. CASE <<P, row>> \notin rg
    <3>1. PICK i \in DOMAIN w : RowMsg(w[i], b, P)
      BY <2>2 DEF HoldsIn
    <3>2. i # 1
      BY <1>3, <3>1, TailFacts
    <3>3. i - 1 \in DOMAIN Tail(w) /\ Tail(w)[i - 1] = w[i]
      BY <3>2, TailFacts
    <3> QED BY <1>1, <3>1, <3>3 DEF HoldsIn
  <2> QED BY <2>1, <2>2
<1> QED BY <1>2, <1>3

(* What a signal, a row before it, and something of another buffer after it *)
(* do to the state of the word.                                             *)
LEMMA SignalSent ==
  ASSUME NEW S, NEW w \in Seq(S), NEW x \in S, NEW b, NEW i, NEW v, NEW c,
         \A k \in DOMAIN w : w[k].kind \in {"row", "add", "sync"},
         Untold(w, b, c), x.kind = "add", x.buf = b, x.word = i, x.value = v
  PROVE  Coming(Append(w, x), b, i, v, c)
<1>1. \A k \in DOMAIN Append(w, x) : OfBuf(Append(w, x)[k], b) /\ k # Len(w) + 1
        => k < Len(w) + 1 /\ Append(w, x)[k].kind = "row"
  BY AppendFacts DEF OfBuf, AddMsg, Untold
<1>2. /\ Append(w, x)[Len(w) + 1].kind = "add" /\ Append(w, x)[Len(w) + 1].buf = b
      /\ Append(w, x)[Len(w) + 1].word = i /\ Append(w, x)[Len(w) + 1].value = v
  BY AppendFacts
<1>3. Len(w) + 1 \in DOMAIN Append(w, x)
  BY AppendFacts
<1>4. c = 0
  BY DEF Untold
<1> QED BY <1>1, <1>2, <1>3, <1>4 DEF Coming

(* Nothing else moves the state of a word.                                  *)
LEMMA OtherSent ==
  ASSUME NEW S, NEW w \in Seq(S), NEW x \in S, NEW b, NEW i, NEW v, NEW c
  PROVE  /\ Untold(w, b, c) /\ ~AddMsg(x, b) => Untold(Append(w, x), b, c)
         /\ Landed(w, b, v, c) /\ ~OfBuf(x, b) => Landed(Append(w, x), b, v, c)
         /\ Coming(w, b, i, v, c) /\ ~OfBuf(x, b) => Coming(Append(w, x), b, i, v, c)
<1>1. Untold(w, b, c) /\ ~AddMsg(x, b) => Untold(Append(w, x), b, c)
  BY AppendFacts DEF Untold
<1>2. Landed(w, b, v, c) /\ ~OfBuf(x, b) => Landed(Append(w, x), b, v, c)
  BY AppendFacts DEF Landed, NoneOf
<1>3. ASSUME Coming(w, b, i, v, c), ~OfBuf(x, b) PROVE Coming(Append(w, x), b, i, v, c)
  <2>1. PICK j \in DOMAIN w :
          /\ w[j].kind = "add" /\ w[j].buf = b /\ w[j].word = i /\ w[j].value = v
          /\ \A k \in DOMAIN w : OfBuf(w[k], b) /\ k # j => k < j /\ w[k].kind = "row"
    BY <1>3 DEF Coming
  <2>2. j \in DOMAIN Append(w, x) /\ Append(w, x)[j] = w[j]
    BY AppendFacts
  <2>3. \A k \in DOMAIN Append(w, x) : OfBuf(Append(w, x)[k], b) /\ k # j
          => k < j /\ Append(w, x)[k].kind = "row"
    BY <1>3, <2>1, AppendFacts
  <2> QED BY <1>3, <2>1, <2>2, <2>3 DEF Coming
<1> QED BY <1>1, <1>2, <1>3

(* The signal is delivered last, and all at once.                           *)
LEMMA SignalDelivered ==
  ASSUME NEW S, NEW w \in Seq(S), w # <<>>, NEW b, NEW i, NEW v \in Int, NEW c
  PROVE  /\ Untold(w, b, c) => ~AddMsg(Head(w), b) /\ Untold(Tail(w), b, c)
         /\ Landed(w, b, v, c) => ~OfBuf(Head(w), b) /\ Landed(Tail(w), b, v, c)
         /\ Coming(w, b, i, v, c) /\ AddMsg(Head(w), b) =>
              /\ Head(w).word = i /\ Head(w).value = v /\ c = 0
              /\ Landed(Tail(w), b, v, v)
         /\ Coming(w, b, i, v, c) /\ ~AddMsg(Head(w), b) => Coming(Tail(w), b, i, v, c)
<1>1. Untold(w, b, c) => ~AddMsg(Head(w), b) /\ Untold(Tail(w), b, c)
  BY TailFacts DEF Untold
<1>2. Landed(w, b, v, c) => ~OfBuf(Head(w), b) /\ Landed(Tail(w), b, v, c)
  BY TailFacts DEF Landed, NoneOf
<1>3. ASSUME Coming(w, b, i, v, c)
      PROVE  /\ AddMsg(Head(w), b) =>
                  /\ Head(w).word = i /\ Head(w).value = v /\ c = 0
                  /\ Landed(Tail(w), b, v, v)
             /\ ~AddMsg(Head(w), b) => Coming(Tail(w), b, i, v, c)
  <2>1. PICK j \in DOMAIN w :
          /\ w[j].kind = "add" /\ w[j].buf = b /\ w[j].word = i /\ w[j].value = v
          /\ \A k \in DOMAIN w : OfBuf(w[k], b) /\ k # j => k < j /\ w[k].kind = "row"
    BY <1>3 DEF Coming
  <2>2. AddMsg(Head(w), b) => j = 1
    <3> SUFFICES ASSUME AddMsg(w[1], b), j # 1 PROVE FALSE
      BY TailFacts
    <3>1. OfBuf(w[1], b) /\ w[1].kind = "add"
      BY DEF AddMsg, OfBuf
    <3>2. 1 \in DOMAIN w
      BY TailFacts
    <3> QED BY <2>1, <3>1, <3>2
  <2>3. ~AddMsg(Head(w), b) => j # 1
    BY <2>1, TailFacts DEF AddMsg
  <2>4. ASSUME AddMsg(Head(w), b)
        PROVE  /\ Head(w).word = i /\ Head(w).value = v /\ c = 0
               /\ Landed(Tail(w), b, v, v)
    <3>1. j = 1 /\ Head(w) = w[j]
      BY <2>2, <2>4, TailFacts
    <3>2. \A k \in DOMAIN Tail(w) : ~OfBuf(Tail(w)[k], b)
      <4> SUFFICES ASSUME NEW k \in DOMAIN Tail(w), OfBuf(Tail(w)[k], b) PROVE FALSE
        OBVIOUS
      <4>1. k + 1 \in DOMAIN w /\ Tail(w)[k] = w[k + 1] /\ k \in Nat \ {0}
        BY TailFacts
      <4>2. k + 1 # j /\ ~(k + 1 < j)
        BY <3>1, <4>1
      <4> QED BY <2>1, <4>1, <4>2
    <3> QED BY <1>3, <2>1, <3>1, <3>2 DEF Coming, Landed, NoneOf
  <2>5. ASSUME ~AddMsg(Head(w), b) PROVE Coming(Tail(w), b, i, v, c)
    <3>1. j - 1 \in DOMAIN Tail(w) /\ Tail(w)[j - 1] = w[j] /\ j \in Nat
      BY <2>3, <2>5, TailFacts
    <3>2. \A k \in DOMAIN Tail(w) : OfBuf(Tail(w)[k], b) /\ k # j - 1
            => k < j - 1 /\ Tail(w)[k].kind = "row"
      <4> SUFFICES ASSUME NEW k \in DOMAIN Tail(w), OfBuf(Tail(w)[k], b), k # j - 1
                   PROVE  k < j - 1 /\ Tail(w)[k].kind = "row"
        OBVIOUS
      <4>1. k + 1 \in DOMAIN w /\ Tail(w)[k] = w[k + 1] /\ k \in Nat
        BY TailFacts
      <4>2. k + 1 # j
        BY <3>1, <4>1
      <4> QED BY <2>1, <3>1, <4>1, <4>2
    <3>3. c = 0
      BY <1>3 DEF Coming
    <3> QED BY <2>1, <3>1, <3>2, <3>3 DEF Coming
  <2> QED BY <2>4, <2>5
<1> QED BY <1>1, <1>2, <1>3

(***************************************************************************)
(* Types.  What a place or a message may be is part of them, since no row  *)
(* leaves its expert's part of a buffer.                                   *)
(***************************************************************************)
Froms == ({"dispatch"} \X (0 .. MaxTokens - 1)) \cup ({"combine"} \X Local \X Row)
Items == ((0 .. MaxTokens - 1) \X Expert) \cup (Local \X Rank \X Row)
Msg   == [kind : {"row"}, buf : {0, 1}, place : Places, from : Froms]
         \cup [kind : {"add"}, buf : {0, 1}, word : Expert, value : Int]
         \cup [kind : {"sync"}, value : Int]
Steps == {"send", "sent", "taken", "done"}
Kernels ==
  [call : 1 .. NumCalls + 1, idx : {0, 1}, cleaned : BOOLEAN, todo : SUBSET Items,
   finish : [Expert -> Int], step : [Expert -> Steps], round : {1, 2},
   met : [Rank -> {"enter", "tell", "wait", "met"}]]

(* Both buffers of every rank; an entry for every call of every rank.       *)
Buffers(x) == x = [r \in Rank |-> [b \in {0, 1} |-> x[r][b]]]
PerCall(x) == x = [r \in Rank |-> [n \in 1 .. NumCalls |-> x[r][n]]]

Shape ==
  /\ run \in Runs /\ dead \in SUBSET Rank
  /\ kernel \in [Rank -> Kernels]
  /\ counter \in [Rank -> [Expert -> Nat]]
  /\ word \in [Rank -> [{0, 1} -> [Expert -> Int]]]
  /\ Buffers(region) /\ Buffers(staged)
  /\ sync \in [Rank -> [Rank -> Int]]
  /\ mask \in [Rank -> SUBSET Rank]
  /\ wire \in [Rank -> [Rank -> [Local -> Seq(Msg)]]]
  /\ packed \in [Rank -> [Local -> Int]]
  /\ layout \in [Rank -> [1 .. NumCalls -> [Local \X Rank -> [begin : Int, num : Int]]]]
  /\ PerCall(rows) /\ PerCall(out)

MemInv == \A r \in Rank, b \in {0, 1} :
  Good(region[r][b], Places) /\ Good(staged[r][b], Froms)

(***************************************************************************)
(* The kernels.  A counter is the number of tokens sent, a finish counter  *)
(* is short of 2 * Tag by what is still to do, and combine's flag counts   *)
(* the senders still waiting; between the kernels the workspace is zero.   *)
(***************************************************************************)
IdxInv == \A r \in Rank :
  kernel[r].idx = IF Active(Pos(r)) THEN 1 - Side(Pos(r)) ELSE Side(Pos(r))

SentTo(r, e) == {t \in TokensFor(Pos(r), r, e) : <<t, e>> \notin kernel[r].todo}

DispatchTodo(r) == \A x \in kernel[r].todo :
  /\ x = <<x[1], x[2]>> /\ x[2] \in Expert /\ x[1] \in TokensFor(Pos(r), r, x[2])
  /\ kernel[r].step[x[2]] = "send"
DispatchSending(r) == \A e \in Expert : kernel[r].step[e] = "send" =>
  /\ counter[r][e] = Cardinality(SentTo(r, e))
  /\ kernel[r].finish[e] = Tag - Cardinality(TokensFor(Pos(r), r, e)) + counter[r][e]
       + (IF kernel[r].cleaned THEN Tag ELSE 0)
DispatchSent(r) == \A e \in Expert :
  /\ kernel[r].step[e] # "send" =>
       kernel[r].cleaned /\ counter[r][e] = 0 /\ kernel[r].finish[e] = 0
  /\ kernel[r].step[e] \in {"taken", "done"} => AllSent(r)
DispatchKernel(r) == DispatchTodo(r) /\ DispatchSending(r) /\ DispatchSent(r)

Senders(r) == {e \in Expert : kernel[r].step[e] = "send"}
CombineTodo(r) == \A x \in kernel[r].todo :
  /\ x \in Local \X Rank \X Row /\ Step(r, x[2], x[1]) = "send"
  /\ Covers(layout[r][Handle(Pos(r))][<<x[1], x[2]>>], x[3])
CombineSteps(r) == \A e \in Expert :
  /\ kernel[r].finish[e] = 0 /\ kernel[r].step[e] # "done"
  /\ kernel[r].step[e] # "send" => kernel[r].cleaned
  /\ e # 0 => counter[r][e] = 0
CombineCount(r) ==
  counter[r][0] = IF kernel[r].cleaned THEN Cardinality(Senders(r)) ELSE 0
CombineKernel(r) == CombineTodo(r) /\ CombineSteps(r) /\ CombineCount(r)

IdleKernel(r) ==
  /\ kernel[r].todo = {}
  /\ \A e \in Expert :
       kernel[r].finish[e] = 0 /\ kernel[r].step[e] = "send" /\ counter[r][e] = 0

KernelOK(r) ==
  /\ KindOf(Pos(r)) = "dispatch" => DispatchKernel(r)
  /\ KindOf(Pos(r)) = "combine" => CombineKernel(r)
  /\ ~Active(Pos(r)) => IdleKernel(r)
KernelInv == \A r \in Rank : KernelOK(r)

(***************************************************************************)
(* How far the ranks are apart.  A rank is at most one call ahead of a     *)
(* peer that lives, and then the peer has told it all that it waits for.   *)
(* A clean that ends a run in shrink mode meets nobody for certain, and    *)
(* keeps nobody back.                                                      *)
(***************************************************************************)
LastClean == run.shrink /\ NumCalls > 0 /\ KindOf(NumCalls) = "clean"
AtEnd(r)  == LastClean /\ Pos(r) >= NumCalls
Capped(r) == IF LastClean /\ Pos(r) > NumCalls THEN NumCalls ELSE Pos(r)

HasTold(d, s) ==
  /\ Active(Pos(d)) => \A q \in Local : Step(d, s, q) # "send"
  /\ ~Active(Pos(d)) => kernel[d].round = 2 /\ kernel[d].met[d] # "enter"

PosInv == \A s, d \in Rank : d \notin dead =>
  /\ Capped(s) <= Pos(d) + 1
  /\ Capped(s) = Pos(d) + 1 => HasTold(d, s)

(* The barriers a rank has entered, and what it knows when it has met all.  *)
Entered(r) ==
  2 * Cleans(Pos(r))
    + (IF KindOf(Pos(r)) = "clean"
       THEN (kernel[r].round - 1) + (IF kernel[r].met[r] = "enter" THEN 0 ELSE 1)
       ELSE 0)
MetInv == \A r \in Rank :
  /\ kernel[r].met[r] \in {"enter", "met"}
  /\ kernel[r].met[r] = "enter" => \A q \in Rank : kernel[r].met[q] = "enter"
EnterInv == ~run.shrink => \A r \in Rank :
  /\ sync[r][r] = -Entered(r)
  /\ (\A q \in Rank : kernel[r].met[q] = "met") => \A q \in Rank : Entered(q) >= Entered(r)

(* Shrink mode: no count is anywhere before its rank has come to the clean. *)
NoSync(w) == \A i \in DOMAIN w : w[i].kind # "sync"
SyncInv == run.shrink => \A r \in Rank :
  /\ sync[r][r] <= 0 /\ (kernel[r].met[r] = "met" => sync[r][r] < 0)
  /\ ~AtEnd(r) =>
       /\ \A q \in Rank : sync[q][r] = 0
       /\ \A q \in Rank, x \in Local : NoSync(wire[r][q][x])

(* Who is masked is dead, with nothing left on the network, or both have    *)
(* come to the clean at the end.                                            *)
DeadInv == dead # {} => run.shrink
MaskInv == \A r, q \in Rank : q \in mask[r] =>
  (q \in dead /\ Quiet(q, r)) \/ (AtEnd(r) /\ AtEnd(q))

(***************************************************************************)
(* Channels.  Rank d expects calls Pos(d) and Pos(d) + 1; it is ready for  *)
(* the second when it has cleaned the buffer for it.                       *)
(***************************************************************************)
Near(d, m)  == m = Pos(d) \/ m = Pos(d) + 1
Ready(d, m) ==
  \/ m = Pos(d)
  \/ /\ m = Pos(d) + 1
     /\ Active(Pos(d)) => kernel[d].cleaned
     /\ ~Active(Pos(d)) => kernel[d].round = 2

WordOf(m, s, q)     == IF KindOf(m) = "dispatch" THEN CountWord(q, s) ELSE GlobalOf(s, q)
ValueOf(m, s, d, q) == IF KindOf(m) = "dispatch" THEN -Count(m, s, d, q) - 1 ELSE 1
WordAt(s, d, q, m)  == word[d][Side(m)][WordOf(m, s, q)]
Told(s, d, q, m)    == Pos(s) > m \/ (Pos(s) = m /\ Step(s, d, q) # "send")
Lost(s, d, q, m)    == s \in dead /\ wire[s][d][q] = <<>> /\ WordAt(s, d, q, m) = 0
Signalled(s, d, q, m) ==
  Landed(wire[s][d][q], Side(m), ValueOf(m, s, d, q), WordAt(s, d, q, m))

SignalOK(s, d, q, m) ==
  /\ Told(s, d, q, m) =>
       \/ Signalled(s, d, q, m)
       \/ Coming(wire[s][d][q], Side(m), WordOf(m, s, q), ValueOf(m, s, d, q), WordAt(s, d, q, m))
       \/ Lost(s, d, q, m)
  /\ ~Told(s, d, q, m) => Untold(wire[s][d][q], Side(m), WordAt(s, d, q, m))
SignalInv == \A s, d \in Rank, q \in Local, m \in 1 .. NumCalls :
  d \notin dead /\ Active(m) /\ Ready(d, m) => SignalOK(s, d, q, m)

(* The rows a rank has sent: on their way, or where they belong.            *)
Holds(s, d, q, m, P, row) ==
  HoldsIn(wire[s][d][q], Side(m), staged[s][Side(m)], region[d][Side(m)], P, row)
Slot(q, s, k) == <<"dispatch", q, s, k>>
Slots(s, d, q, m) ==
  IF Pos(s) = m /\ Step(s, d, q) = "send" THEN counter[s][GlobalOf(d, q)] ELSE Count(m, s, d, q)
TokenSent(s, d, q, m, t) ==
  t \in Tokens(m, s, d, q) /\ (Pos(s) = m => <<t, GlobalOf(d, q)>> \notin kernel[s].todo)
DispatchRows(s, d, q, m) ==
  /\ \A k \in 0 .. Slots(s, d, q, m) - 1 : \E t \in Tokens(m, s, d, q) :
       TokenSent(s, d, q, m, t) /\ Holds(s, d, q, m, Slot(q, s, k), <<m, s, t>>)
  /\ \A t \in Tokens(m, s, d, q) : TokenSent(s, d, q, m, t) =>
       \E k \in 0 .. Slots(s, d, q, m) - 1 : Holds(s, d, q, m, Slot(q, s, k), <<m, s, t>>)

Extent(r, n, s, q) == layout[r][n][<<q, s>>]
RowAt(r, n, s, q, p, t) == <<<<q, p>>, <<n, s, t>>>> \in rows[r][n]
Back(s, q, t) == <<"combine", GlobalOf(s, q), t>>
BackRow(s, d, q, m, t) == <<m, GlobalOf(s, q), <<Handle(m), d, t>>>>
BackTokens(s, d, q, m) == Tokens(Handle(m), d, s, q)
BackSent(s, d, q, m, t) == Pos(s) = m => \A p \in Row :
  Covers(Extent(s, Handle(m), d, q), p) /\ RowAt(s, Handle(m), d, q, p, t)
    => <<q, d, p>> \notin kernel[s].todo
CombineRows(s, d, q, m) ==
  \A t \in BackTokens(s, d, q, m) :
    BackSent(s, d, q, m, t) => Holds(s, d, q, m, Back(s, q, t), BackRow(s, d, q, m, t))

RowsOK(s, d, q, m) ==
  /\ KindOf(m) = "dispatch" => DispatchRows(s, d, q, m)
  /\ KindOf(m) = "combine" => CombineRows(s, d, q, m)
HoldsInv == \A s, d \in Rank, q \in Local, m \in 1 .. NumCalls :
  d \notin dead /\ Near(d, m) /\ Pos(s) >= m /\ ~Lost(s, d, q, m) => RowsOK(s, d, q, m)

(* Whatever is on a wire belongs to a call that the receiver expects.       *)
RowOf(s, d, q, m, x) ==
  /\ KindOf(m) = "dispatch" =>
       /\ \E k \in 0 .. Slots(s, d, q, m) - 1 : x.place = Slot(q, s, k)
       /\ \E t \in 0 .. MaxTokens - 1 :
            x.from = <<"dispatch", t>> /\ <<x.from, <<m, s, t>>>> \in staged[s][Side(m)]
  /\ KindOf(m) = "combine" =>
       \E t \in 0 .. MaxTokens - 1, p \in Row :
         /\ x.place = Back(s, q, t) /\ x.from = <<"combine", q, p>>
         /\ RowAt(s, Handle(m), d, q, p, t)
         /\ <<x.from, BackRow(s, d, q, m, t)>> \in staged[s][Side(m)]
IsMsg(s, d, q, m, x) ==
  /\ Active(m) /\ m <= Pos(s) /\ x.buf = Side(m)
  /\ x.kind = "row" => RowOf(s, d, q, m, x)
  /\ x.kind = "add" => x.word = WordOf(m, s, q) /\ x.value = ValueOf(m, s, d, q)
WireInv == \A s, d \in Rank, q \in Local : d \notin dead =>
  \A i \in DOMAIN wire[s][d][q] : wire[s][d][q][i].kind # "sync" =>
    \E m \in 1 .. NumCalls : Near(d, m) /\ IsMsg(s, d, q, m, wire[s][d][q][i])
NVLinkInv == \A s, d \in Rank : NVLink(s, d) => Quiet(s, d)

(***************************************************************************)
(* What a rank takes, and what it keeps.                                   *)
(***************************************************************************)
Taken(r, s, q) == Step(r, s, q) \in {"taken", "done"}
TakenOK(d, s, q, m) ==
  /\ KindOf(m) = "dispatch" =>
       \/ Signalled(s, d, q, m) /\ Extent(d, m, s, q).num = Count(m, s, d, q)
       \/ Extent(d, m, s, q).num = 0 /\ s \in dead /\ Quiet(s, d)
  /\ KindOf(m) = "combine" => Signalled(s, d, q, m) \/ (s \in dead /\ s \in mask[d])
TakenInv == \A d, s \in Rank, q \in Local :
  d \notin dead /\ Active(Pos(d)) /\ Taken(d, s, q) => TakenOK(d, s, q, Pos(d))

(* packed_recv_count: the ranges claimed lie below it, and apart.           *)
Claimed(r, q) == {s \in Rank : Taken(r, s, q)}
Apart(x, y) == x.begin + x.num <= y.begin \/ y.begin + y.num <= x.begin
RangesOK(r, q) ==
  /\ Step(r, 0, q) # "send" => packed[r][q] <= MaxTokens * Cardinality(Claimed(r, q))
  /\ \A s \in Claimed(r, q) :
       LET x == Extent(r, Pos(r), s, q) IN
         /\ x.begin \in Nat /\ x.num \in Nat /\ x.begin + x.num <= packed[r][q]
         /\ \A z \in Claimed(r, q) : z # s => Apart(x, Extent(r, Pos(r), z, q))
PackedOK(r, q) ==
  /\ packed[r][q] \in 0 .. NumRanks * MaxTokens
  /\ KindOf(Pos(r)) = "dispatch" => RangesOK(r, q)
PackedInv == \A r \in Rank, q \in Local : PackedOK(r, q)

(* The rows of a range are the tokens of its source.                        *)
Fetched(r, n, s, q) ==
  LET x == Extent(r, n, s, q) IN
  /\ x.begin \in Nat /\ x.num \in Nat /\ x.begin + x.num <= NumRanks * MaxTokens
  /\ \A i \in 0 .. x.num - 1 : \E t \in Tokens(n, s, r, q) : RowAt(r, n, s, q, x.begin + i, t)
  /\ \/ /\ x.num = Count(n, s, r, q)
        /\ \A t \in Tokens(n, s, r, q) : \E i \in 0 .. x.num - 1 :
             RowAt(r, n, s, q, x.begin + i, t)
     \/ x.num = 0 /\ s \in dead
Done(r, n, s, q) == Pos(r) > n \/ (Pos(r) = n /\ Step(r, s, q) = "done")
CopiedOK(r, n) ==
  /\ Good(rows[r][n], Local \X Row)
  /\ \A p \in rows[r][n] : \E s \in Rank :
       Done(r, n, s, p[1][1]) /\ Covers(Extent(r, n, s, p[1][1]), p[1][2])
  /\ \A s \in Rank, q \in Local : Done(r, n, s, q) => Fetched(r, n, s, q)
RowsInv == \A r \in Rank, n \in 1 .. NumCalls : KindOf(n) = "dispatch" => CopiedOK(r, n)

(* Nor do the types of messages, or the places of a call, change.           *)
LEMMA FixedToo ==
  ASSUME run' = run
  PROVE  /\ Places' = Places /\ Froms' = Froms /\ Items' = Items /\ Msg' = Msg
         /\ Kernels' = Kernels /\ (LastClean' <=> LastClean)
         /\ \A m, s, q : WordOf(m, s, q)' = WordOf(m, s, q)
         /\ \A m, s, d, q : ValueOf(m, s, d, q)' = ValueOf(m, s, d, q)
         /\ \A s, q, t : Back(s, q, t)' = Back(s, q, t)
         /\ \A m, s, d, q, t : BackRow(s, d, q, m, t)' = BackRow(s, d, q, m, t)
         /\ \A m, s, d, q : BackTokens(s, d, q, m)' = BackTokens(s, d, q, m)
<1>1. Places' = Places /\ Froms' = Froms /\ Items' = Items
  BY Fixed DEF Places, Froms, Items
<1>2. Msg' = Msg
  BY <1>1, Fixed DEF Msg
<1>3. Kernels' = Kernels
  BY <1>1, Fixed DEF Kernels
<1>4. LastClean' <=> LastClean
  BY Fixed DEF LastClean
<1>5. \A m, s, q : WordOf(m, s, q)' = WordOf(m, s, q)
  BY Fixed DEF WordOf, CountWord
<1>6. \A m, s, d, q : ValueOf(m, s, d, q)' = ValueOf(m, s, d, q)
  BY Fixed DEF ValueOf
<1>7. /\ \A s, q, t : Back(s, q, t)' = Back(s, q, t)
      /\ \A m, s, d, q, t : BackRow(s, d, q, m, t)' = BackRow(s, d, q, m, t)
      /\ \A m, s, d, q : BackTokens(s, d, q, m)' = BackTokens(s, d, q, m)
  BY Fixed DEF Back, BackRow, BackTokens
<1> QED BY <1>1, <1>2, <1>3, <1>4, <1>5, <1>6, <1>7

(* The kernel of a rank, field by field.                                    *)
LEMMA KernelTypes ==
  ASSUME Shape, NEW r \in Rank
  PROVE  /\ Pos(r) \in 1 .. NumCalls + 1 /\ Pos(r) \in Nat \ {0} /\ NumCalls \in Nat
         /\ kernel[r].idx \in {0, 1} /\ kernel[r].cleaned \in BOOLEAN
         /\ kernel[r].todo \in SUBSET Items
         /\ kernel[r].finish \in [Expert -> Int] /\ kernel[r].step \in [Expert -> Steps]
         /\ kernel[r].round \in {1, 2}
         /\ kernel[r].met \in [Rank -> {"enter", "tell", "wait", "met"}]
         /\ counter[r] \in [Expert -> Nat]
         /\ \A q \in Local, s \in Rank : Step(r, s, q) \in Steps
<1>1. kernel[r] \in Kernels /\ run \in Runs
  BY DEF Shape
<1>2. NumCalls \in Nat
  BY <1>1, RunFacts
<1>3. /\ kernel[r].call \in 1 .. NumCalls + 1
      /\ kernel[r].idx \in {0, 1} /\ kernel[r].cleaned \in BOOLEAN
      /\ kernel[r].todo \in SUBSET Items
      /\ kernel[r].finish \in [Expert -> Int] /\ kernel[r].step \in [Expert -> Steps]
      /\ kernel[r].round \in {1, 2}
      /\ kernel[r].met \in [Rank -> {"enter", "tell", "wait", "met"}]
  BY <1>1 DEF Kernels
<1>4. \A q \in Local, s \in Rank : Step(r, s, q) \in Steps
  BY <1>1, <1>3, IndexFacts DEF Step
<1> QED BY <1>2, <1>3, <1>4 DEF Pos, Shape

(* Calls are of three kinds, and the next of a run that is over is none.    *)
LEMMA KindFacts ==
  ASSUME Shape, NEW r \in Rank
  PROVE  /\ Pos(r) <= NumCalls => Pos(r) \in 1 .. NumCalls
         /\ Pos(r) \in 1 .. NumCalls <=> KindOf(Pos(r)) \in {"dispatch", "combine", "clean"}
         /\ Active(Pos(r)) => Pos(r) \in 1 .. NumCalls
         /\ KindOf(Pos(r)) \in {"dispatch", "combine", "clean", "none"}
         /\ KindOf(Pos(r)) = "dispatch" \/ KindOf(Pos(r)) = "combine" <=> Active(Pos(r))
         /\ KindOf(Pos(r)) = "combine" =>
              /\ Handle(Pos(r)) \in 1 .. NumCalls /\ Handle(Pos(r)) < Pos(r)
              /\ KindOf(Handle(Pos(r))) = "dispatch"
<1>1. PICK n \in Nat : n = NumCalls
  BY KernelTypes
<1>2. PICK p \in 1 .. n + 1 : p = Pos(r)
  BY <1>1, KernelTypes
<1>3. run \in Runs
  BY DEF Shape
<1>4. p <= n => p \in 1 .. n
  BY <1>2
<1>5. p \in 1 .. n => KindOf(p) \in {"dispatch", "combine", "clean"}
  BY <1>1, <1>3, RunFacts
<1>6. p \notin 1 .. n => KindOf(p) = "none"
  BY <1>1, <1>2, <1>3, RunFacts
<1>7. KindOf(p) = "combine" =>
              /\ Handle(p) \in 1 .. n /\ Handle(p) < p
              /\ KindOf(Handle(p)) = "dispatch"
  <2> SUFFICES ASSUME KindOf(p) = "combine"
               PROVE /\ Handle(p) \in 1 .. n /\ Handle(p) < p
                     /\ KindOf(Handle(p)) = "dispatch"
    OBVIOUS
  <2>1. p \in 1 .. n
    BY <1>6
  <2>2. Handle(p) \in 1 .. p - 1 /\ KindOf(Handle(p)) = "dispatch"
    BY <1>1, <1>3, <2>1, RunFacts
  <2> QED BY <2>1, <2>2
<1> QED BY <1>1, <1>2, <1>4, <1>5, <1>6, <1>7 DEF Active

(* What there is to do when a kernel starts.                                *)
TokenItems(n, r) == {x \in (DOMAIN To(n, r)) \X Expert : x[2] \in To(n, r)[x[1]]}
RowItems(n, r) ==
  {x \in Local \X Rank \X Row : Covers(layout[r][Handle(n)][<<x[1], x[2]>>], x[3])}
Unsent   == [e \in Expert |-> "send"]
Unmet    == [q \in Rank |-> "enter"]
Finished == [e \in Expert |-> 0]
LessTokens(n, r) == [e \in Expert |-> Tag - Cardinality(TokensFor(n, r, e))]

(* The state in which a kernel starts.                                      *)
LEMMA LaunchedFacts ==
  ASSUME run \in Runs, NEW r \in Rank, NEW n \in 1 .. NumCalls + 1, NEW idx \in {0, 1}
  PROVE  /\ Launched(r, n, idx) \in Kernels
         /\ Launched(r, n, idx).call = n /\ Launched(r, n, idx).cleaned = FALSE
         /\ Launched(r, n, idx).round = 1
         /\ Active(n) => Launched(r, n, idx).idx = 1 - idx
         /\ ~Active(n) => Launched(r, n, idx).idx = idx
         /\ Launched(r, n, idx).step = Unsent
         /\ Launched(r, n, idx).met = Unmet
         /\ KindOf(n) = "dispatch" => /\ Launched(r, n, idx).todo = TokenItems(n, r)
                                     /\ Launched(r, n, idx).finish = LessTokens(n, r)
         /\ KindOf(n) # "dispatch" => Launched(r, n, idx).finish = Finished
         /\ KindOf(n) = "combine" => Launched(r, n, idx).todo = RowItems(n, r)
<1>0. PICK k : k = Launched(r, n, idx)
  OBVIOUS
<1> DEFINE base == [call |-> n, idx |-> 1 - idx, cleaned |-> FALSE, todo |-> {},
                    finish |-> [e \in Expert |-> 0],
                    step   |-> [e \in Expert |-> "send"],
                    round  |-> 1, met |-> [q \in Rank |-> "enter"]]
<1>1. base \in Kernels
  BY DEF Kernels, Steps
<1>2. CASE KindOf(n) = "dispatch"
  <2>1. k = [base EXCEPT !.todo = TokenItems(n, r), !.finish = LessTokens(n, r)]
    BY <1>0, <1>2 DEF Launched, TokenItems, LessTokens
  <2>2. n \in 1 .. NumCalls /\ Active(n)
    <3>1. NumCalls \in Nat
      BY RunFacts
    <3>2. ~(n > NumCalls)
      BY <1>2, RunFacts
    <3> QED BY <1>2, <3>1, <3>2 DEF Active
  <2>3. TokenItems(n, r) \in SUBSET Items
    BY <1>2, <2>2, TokenFacts DEF Items, TokenItems
  <2>4. LessTokens(n, r) \in [Expert -> Int]
    <3>1. \A e \in Expert : Tag - Cardinality(TokensFor(n, r, e)) \in Int
      BY <1>2, <2>2, TokenFacts, RunFacts
    <3> QED BY <3>1 DEF LessTokens
  <2>5. k \in Kernels
    BY <1>1, <2>1, <2>3, <2>4 DEF Kernels
  <2>6. /\ k.call = n /\ k.idx = 1 - idx /\ k.cleaned = FALSE
        /\ k.step = [e \in Expert |-> "send"] /\ k.round = 1
        /\ k.met = [q \in Rank |-> "enter"] /\ k.todo = TokenItems(n, r)
             /\ k.finish = LessTokens(n, r)
    BY <2>1
  <2> QED BY <1>0, <1>2, <2>2, <2>5, <2>6 DEF Unsent, Unmet, Finished
<1>3. CASE KindOf(n) = "combine"
  <2>1. k = [base EXCEPT !.todo = RowItems(n, r)]
    BY <1>0, <1>3 DEF Launched, Handle, RowItems
  <2>2. Active(n) /\ KindOf(n) # "dispatch"
    BY <1>3 DEF Active
  <2>3. RowItems(n, r) \in SUBSET Items
    BY DEF Items, RowItems
  <2>5. k \in Kernels
    BY <1>1, <2>1, <2>3 DEF Kernels
  <2>6. /\ k.call = n /\ k.idx = 1 - idx /\ k.cleaned = FALSE
        /\ k.step = [e \in Expert |-> "send"] /\ k.round = 1
        /\ k.met = [q \in Rank |-> "enter"] /\ k.todo = RowItems(n, r)
        /\ k.finish = [e \in Expert |-> 0]
    BY <2>1
  <2> QED BY <1>0, <1>3, <2>2, <2>5, <2>6 DEF Unsent, Unmet, Finished
<1>4. CASE KindOf(n) \notin {"dispatch", "combine"}
  <2>1. k = [base EXCEPT !.idx = idx]
    BY <1>0, <1>4 DEF Launched
  <2>2. ~Active(n) /\ KindOf(n) # "dispatch" /\ KindOf(n) # "combine"
    BY <1>4 DEF Active
  <2>5. k \in Kernels
    BY <1>1, <2>1 DEF Kernels
  <2>6. /\ k.call = n /\ k.idx = idx /\ k.cleaned = FALSE
        /\ k.step = [e \in Expert |-> "send"] /\ k.round = 1
        /\ k.met = [q \in Rank |-> "enter"] /\ k.todo = {}
        /\ k.finish = [e \in Expert |-> 0]
    BY <2>1
  <2> QED BY <1>0, <2>2, <2>5, <2>6 DEF Unsent, Unmet, Finished
<1> QED BY <1>2, <1>3, <1>4

(* A kernel that uses no buffer has nothing to send.                        *)
LEMMA LaunchedIdle ==
  ASSUME NEW r \in Rank, NEW n, ~Active(n), NEW idx
  PROVE  Launched(r, n, idx).todo = {}
BY DEF Launched, Active

(***************************************************************************)
(* Steps.  A step moves one rank at most, within its call or, when that is *)
(* over, to the next.                                                      *)
(***************************************************************************)
Alone(r) ==
  /\ run' = run /\ dead \subseteq dead'
  /\ \A x \in Rank : x # r => kernel'[x] = kernel[x]
Within(r) ==
  /\ Alone(r) /\ Pos(r)' = Pos(r)
  /\ \A d \in Rank, q \in Local : Step(r, d, q) # "send" => Step(r, d, q)' # "send"
  /\ kernel[r].round = 2 => kernel'[r].round = 2
  /\ kernel[r].round = 2 /\ kernel[r].met[r] # "enter" => kernel'[r].met[r] # "enter"
Leaves(r) ==
  /\ Alone(r) /\ dead' = dead
  /\ kernel'[r] = Launched(r, Pos(r) + 1, kernel[r].idx)
Over(r) ==
  /\ r \notin dead /\ Pos(r) \in 1 .. NumCalls
  /\ Active(Pos(r)) => \A s \in Rank, q \in Local : Taken(r, s, q)
  /\ ~Active(Pos(r)) => kernel[r].round = 2 /\ \A q \in Rank : kernel[r].met[q] = "met"

(* What is said of a rank that does not move stays true.                    *)
LEMMA SameKernel ==
  ASSUME run' = run, NEW x, kernel'[x] = kernel[x]
  PROVE  /\ Pos(x)' = Pos(x) /\ Capped(x)' = Capped(x) /\ Entered(x)' = Entered(x)
         /\ AtEnd(x)' <=> AtEnd(x)
         /\ \A d, q : Step(x, d, q)' = Step(x, d, q)
         /\ \A s : HasTold(x, s)' <=> HasTold(x, s)
         /\ \A m : (Near(x, m)' <=> Near(x, m)) /\ (Ready(x, m)' <=> Ready(x, m))
         /\ \A d, q, m : Told(x, d, q, m)' <=> Told(x, d, q, m)
         /\ \A s, q : Taken(x, s, q)' <=> Taken(x, s, q)
         /\ \A n, s, q : Done(x, n, s, q)' <=> Done(x, n, s, q)
<1>1. Pos(x)' = Pos(x)
  BY DEF Pos
<1>2. \A d, q : Step(x, d, q)' = Step(x, d, q)
  BY Fixed DEF Step
<1>3. Capped(x)' = Capped(x) /\ (AtEnd(x)' <=> AtEnd(x))
  BY <1>1, Fixed, FixedToo DEF Capped, AtEnd
<1>4. Entered(x)' = Entered(x)
  BY <1>1, Fixed DEF Entered
<1>5. \A s : HasTold(x, s)' <=> HasTold(x, s)
  BY <1>1, <1>2, Fixed DEF HasTold
<1>6. \A m : (Near(x, m)' <=> Near(x, m)) /\ (Ready(x, m)' <=> Ready(x, m))
  BY <1>1, Fixed DEF Near, Ready
<1>7. \A d, q, m : Told(x, d, q, m)' <=> Told(x, d, q, m)
  BY <1>1, <1>2 DEF Told
<1>8. \A s, q : Taken(x, s, q)' <=> Taken(x, s, q)
  BY <1>2 DEF Taken
<1>9. \A n, s, q : Done(x, n, s, q)' <=> Done(x, n, s, q)
  BY <1>1, <1>2 DEF Done
<1> QED BY <1>1, <1>2, <1>3, <1>4, <1>5, <1>6, <1>7, <1>8, <1>9

(* The kernel of the next call.                                             *)
LEMMA LeaveFacts ==
  ASSUME Shape, NEW r \in Rank, Leaves(r), Pos(r) \in 1 .. NumCalls
  PROVE  /\ kernel'[r] \in Kernels /\ Pos(r)' = Pos(r) + 1
         /\ kernel'[r].idx = (IF Active(Pos(r) + 1) THEN 1 - kernel[r].idx ELSE kernel[r].idx)
         /\ kernel'[r].cleaned = FALSE /\ kernel'[r].round = 1
         /\ \A e \in Expert : kernel'[r].step[e] = "send"
         /\ \A d \in Rank, q \in Local : Step(r, d, q)' = "send"
         /\ \A q \in Rank : kernel'[r].met[q] = "enter"
         /\ KindOf(Pos(r) + 1) = "dispatch" =>
              kernel'[r].todo = TokenItems(Pos(r) + 1, r)
                /\ kernel'[r].finish = LessTokens(Pos(r) + 1, r)
         /\ KindOf(Pos(r) + 1) # "dispatch" => kernel'[r].finish = Finished
         /\ KindOf(Pos(r) + 1) = "combine" => kernel'[r].todo = RowItems(Pos(r) + 1, r)
         /\ ~Active(Pos(r) + 1) => kernel'[r].todo = {}
<1>1. PICK n \in 1 .. NumCalls + 1 : n = Pos(r) + 1
  BY KernelTypes
<1>2. PICK idx \in {0, 1} : idx = kernel[r].idx
  BY KernelTypes
<1>3. run \in Runs /\ run' = run
  BY DEF Shape, Leaves, Alone
<1>4. PICK k : k = kernel'[r]
  OBVIOUS
<1>10. k = Launched(r, n, idx)
  BY <1>1, <1>2, <1>4 DEF Leaves
<1>9. /\ Launched(r, n, idx) \in Kernels
      /\ Launched(r, n, idx).call = n /\ Launched(r, n, idx).cleaned = FALSE
      /\ Launched(r, n, idx).round = 1
      /\ Launched(r, n, idx).step = Unsent /\ Launched(r, n, idx).met = Unmet
      /\ Active(n) => Launched(r, n, idx).idx = 1 - idx
      /\ ~Active(n) => Launched(r, n, idx).idx = idx
      /\ KindOf(n) = "dispatch" => /\ Launched(r, n, idx).todo = TokenItems(n, r)
                                 /\ Launched(r, n, idx).finish = LessTokens(n, r)
      /\ KindOf(n) # "dispatch" => Launched(r, n, idx).finish = Finished
      /\ KindOf(n) = "combine" => Launched(r, n, idx).todo = RowItems(n, r)
  BY <1>3, LaunchedFacts
<1>5. /\ k \in Kernels
      /\ k.call = n /\ k.cleaned = FALSE /\ k.round = 1 /\ k.step = Unsent /\ k.met = Unmet
      /\ Active(n) => k.idx = 1 - idx
      /\ ~Active(n) => k.idx = idx
      /\ KindOf(n) = "dispatch" => k.todo = TokenItems(n, r) /\ k.finish = LessTokens(n, r)
      /\ KindOf(n) # "dispatch" => k.finish = Finished
      /\ KindOf(n) = "combine" => k.todo = RowItems(n, r)
      /\ ~Active(n) => k.todo = {}
  BY <1>9, <1>10, LaunchedIdle
<1>6. /\ \A e \in Expert : kernel'[r].step[e] = "send"
      /\ \A q \in Rank : kernel'[r].met[q] = "enter"
  BY <1>4, <1>5 DEF Unsent, Unmet
<1>7. \A d \in Rank, q \in Local : Step(r, d, q)' = "send"
  <2> TAKE d \in Rank, q \in Local
  <2>1. GlobalOf(d, q) \in Expert /\ GlobalOf(d, q)' = GlobalOf(d, q)
    BY <1>3, Fixed, IndexFacts
  <2> QED BY <1>6, <2>1 DEF Step
<1>8. n = Pos(r) + 1 /\ k = kernel'[r] /\ Pos(r)' = n
  BY <1>1, <1>4, <1>5 DEF Pos
<1> QED BY <1>2, <1>5, <1>6, <1>7, <1>8

-----------------------------------------------------------------------------
(* The distance of the ranks.                                               *)
LEMMA PosWithin ==
  ASSUME Shape, PosInv, NEW r \in Rank, Within(r)
  PROVE  PosInv'
<1>1. run' = run /\ dead \subseteq dead' /\ Pos(r)' = Pos(r)
  BY DEF Within, Alone
<1>2. \A x \in Rank : Pos(x)' = Pos(x) /\ Capped(x)' = Capped(x)
  <2>1. Capped(r)' = Capped(r)
    BY <1>1, Fixed, FixedToo DEF Capped
  <2> QED BY <1>1, <2>1, SameKernel DEF Within, Alone
<1>3. \A d, s \in Rank : HasTold(d, s) => HasTold(d, s)'
  <2>1. \A s \in Rank : HasTold(r, s) => HasTold(r, s)'
    BY <1>1, Fixed DEF HasTold, Within
  <2> QED BY <1>1, <2>1, SameKernel DEF Within, Alone
<1> QED BY <1>1, <1>2, <1>3 DEF PosInv

(* A rank goes on only when its peers are as far as it is.                  *)
LEMMA PosLeaves ==
  ASSUME Shape, PosInv, NEW r \in Rank, Leaves(r), Over(r),
         \A d \in Rank \ dead : d # r =>
           AtEnd(r) \/ Pos(d) > Pos(r) \/ (Pos(d) = Pos(r) /\ HasTold(d, r))
  PROVE  PosInv'
<1>1. run' = run /\ dead' = dead /\ NumCalls \in Nat
  BY KernelTypes DEF Leaves, Alone
<1>2. Pos(r)' = Pos(r) + 1 /\ Pos(r) \in 1 .. NumCalls /\ r \notin dead
  BY LeaveFacts DEF Over
<1>3. \A x \in Rank : x # r => /\ Pos(x)' = Pos(x) /\ Capped(x)' = Capped(x)
                               /\ \A s : HasTold(x, s)' <=> HasTold(x, s)
  BY <1>1, SameKernel DEF Leaves, Alone
<1>4. \A x \in Rank : Pos(x) \in Nat /\ Capped(x) \in Nat /\ Capped(x) <= Pos(x)
  BY <1>1, KernelTypes DEF Capped
<1>5. Capped(r)' = IF LastClean /\ Pos(r) + 1 > NumCalls THEN NumCalls ELSE Pos(r) + 1
  BY <1>1, <1>2, Fixed, FixedToo DEF Capped
<1>6. Capped(r)' \in Nat /\ Capped(r)' <= Pos(r) + 1 /\ (AtEnd(r) => Capped(r)' = Capped(r))
  <2>1. Capped(r)' \in Nat /\ Capped(r)' <= Pos(r) + 1
    BY <1>1, <1>2, <1>4, <1>5
  <2>2. AtEnd(r) => LastClean /\ Pos(r) = NumCalls
    BY <1>1, <1>2 DEF AtEnd
  <2>3. AtEnd(r) => Capped(r)' = NumCalls /\ Capped(r) = NumCalls
    BY <1>1, <1>2, <1>5, <2>2 DEF Capped
  <2> QED BY <2>1, <2>3
<1> SUFFICES ASSUME NEW s \in Rank, NEW d \in Rank, d \notin dead
             PROVE  /\ Capped(s)' <= Pos(d)' + 1
                    /\ Capped(s)' = Pos(d)' + 1 => HasTold(d, s)'
  BY <1>1 DEF PosInv
<1>7. /\ Capped(s) <= Pos(d) + 1
      /\ Capped(s) = Pos(d) + 1 => HasTold(d, s)
  BY DEF PosInv
<1>8. CASE d = r /\ s = r
  BY <1>2, <1>4, <1>6, <1>8
<1>9. CASE d = r /\ s # r
  BY <1>2, <1>3, <1>4, <1>7, <1>9
<1>10. CASE d # r /\ s # r
  BY <1>3, <1>7, <1>10
<1>11. CASE d # r /\ s = r
  <2>1. CASE AtEnd(r)
    BY <1>3, <1>6, <1>7, <1>11, <2>1
  <2>2. CASE Pos(d) > Pos(r)
    BY <1>2, <1>3, <1>4, <1>6, <1>11, <2>2
  <2>3. CASE Pos(d) = Pos(r) /\ HasTold(d, r)
    BY <1>2, <1>3, <1>4, <1>6, <1>11, <2>3
  <2> QED BY <1>11, <2>1, <2>2, <2>3
<1> QED BY <1>8, <1>9, <1>10, <1>11

(* A rank at a call that uses a buffer is not at the end.                   *)
LEMMA ActiveNotAtEnd ==
  ASSUME Shape, NEW r \in Rank, Active(Pos(r))
  PROVE  ~AtEnd(r) /\ Capped(r) = Pos(r)
<1>1. Pos(r) \in 1 .. NumCalls /\ NumCalls \in Nat
  BY KindFacts, KernelTypes
<1>2. AtEnd(r) => Pos(r) = NumCalls /\ KindOf(NumCalls) = "clean"
  BY <1>1 DEF AtEnd, LastClean
<1> QED BY <1>1, <1>2 DEF Active, Capped

(* A peer masked by a rank at such a call has died, and is silent.          *)
LEMMA MaskedDead ==
  ASSUME Shape, MaskInv, NEW r \in Rank, Active(Pos(r)), NEW q \in Rank, q \in mask[r]
  PROVE  q \in dead /\ Quiet(q, r)
BY ActiveNotAtEnd DEF MaskInv

(* When a call is over, its peers have told the rank all that it waited for.*)
LEMMA LetGo ==
  ASSUME Shape, CleansLast, KernelInv, MetInv, EnterInv, SignalInv, TakenInv, MaskInv,
         NEW r \in Rank, Over(r), NEW d \in Rank \ dead, d # r
  PROVE  AtEnd(r) \/ Pos(d) > Pos(r) \/ (Pos(d) = Pos(r) /\ HasTold(d, r))
<1>0. /\ run \in Runs /\ Pos(r) \in 1 .. NumCalls /\ Pos(r) \in Nat \ {0}
      /\ Pos(d) \in Nat \ {0} /\ NumCalls \in Nat /\ r \notin dead
  BY KernelTypes DEF Shape, Over
<1>1. CASE Active(Pos(r))
  <2>1. \A q \in Local : Told(d, r, q, Pos(r))
    <3> SUFFICES ASSUME NEW q \in Local, ~Told(d, r, q, Pos(r)) PROVE FALSE
      OBVIOUS
    <3>1. PICK m \in 1 .. NumCalls : m = Pos(r)
      BY <1>0
    <3>2. Untold(wire[d][r][q], Side(m), WordAt(d, r, q, m))
      <4>1. Ready(r, m)
        BY <3>1 DEF Ready
      <4> QED BY <1>0, <1>1, <3>1, <4>1 DEF SignalInv, SignalOK
    <3>3. TakenOK(r, d, q, m)
      BY <1>0, <1>1, <3>1 DEF TakenInv, Over
    <3>4. Signalled(d, r, q, m)
      BY <1>1, <3>1, <3>3 DEF TakenOK, Active
    <3>5. ValueOf(m, d, r, q) = 0
      BY <3>2, <3>4 DEF Signalled, Landed, Untold
    <3>6. KindOf(m) = "dispatch" => Count(m, d, r, q) \in Nat
      BY <1>0, TokenFacts DEF Count, Tokens
    <3> QED BY <3>5, <3>6 DEF ValueOf
  <2> QED BY <1>0, <1>1, <2>1, IndexFacts DEF Told, HasTold
<1>2. CASE ~Active(Pos(r)) /\ run.shrink
  <2>1. KindOf(Pos(r)) = "clean"
    BY <1>0, <1>2, RunFacts DEF Active
  <2>2. Pos(r) = NumCalls
    BY <1>0, <1>2, <2>1, RunFacts
  <2> QED BY <1>0, <1>2, <2>1, <2>2 DEF AtEnd, LastClean
<1>3. CASE ~Active(Pos(r)) /\ ~run.shrink
  <2>1. KindOf(Pos(r)) = "clean"
    BY <1>0, <1>3, RunFacts DEF Active
  <2>2. kernel[r].round = 2 /\ \A q \in Rank : kernel[r].met[q] = "met"
    BY <1>3 DEF Over
  <2>3. Entered(d) >= Entered(r)
    BY <1>3, <2>2 DEF EnterInv
  <2>4. PICK c \in Nat : c = Cleans(Pos(r))
    BY <1>0, SideFacts
  <2>5. Entered(r) = 2 * c + 2
    BY <2>1, <2>2, <2>4 DEF Entered
  <2>6. PICK x \in Nat : x = Cleans(Pos(d))
    BY <1>0, SideFacts
  <2>7. PICK y \in Nat : y = Cleans(Pos(d) + 1)
    BY <1>0, SideFacts
  <2>8. y = IF KindOf(Pos(d)) = "clean" THEN x + 1 ELSE x
    BY <1>0, <2>6, <2>7, SideFacts
  <2>9. Pos(d) < Pos(r) => y <= c
    BY <1>0, <2>4, <2>7, CleansMonotone
  <2>10. kernel[d].round \in {1, 2}
    BY KernelTypes
  <2>11. Entered(d) <= 2 * x + (IF KindOf(Pos(d)) = "clean" THEN 2 ELSE 0)
    BY <2>6, <2>10 DEF Entered
  <2>12. Pos(d) >= Pos(r)
    <3> SUFFICES ASSUME Pos(d) < Pos(r) PROVE FALSE
      BY <1>0
    <3>1. Entered(d) <= 2 * y
      BY <2>8, <2>11
    <3>2. Entered(d) \in Nat
      BY <2>6, <2>10 DEF Entered
    <3> QED BY <2>3, <2>5, <2>9, <3>1, <3>2
  <2>13. ASSUME Pos(d) = Pos(r) PROVE HasTold(d, r)
    <3>1. x = c /\ KindOf(Pos(d)) = "clean"
      BY <2>1, <2>4, <2>6, <2>13
    <3>2. Entered(d) = 2 * c + (kernel[d].round - 1)
                         + (IF kernel[d].met[d] = "enter" THEN 0 ELSE 1)
      BY <2>6, <2>10, <3>1 DEF Entered
    <3>3. kernel[d].round = 2 /\ kernel[d].met[d] # "enter"
      BY <2>3, <2>5, <2>10, <3>2
    <3> QED BY <1>3, <2>13, <3>3 DEF HasTold
  <2> QED BY <1>0, <2>12, <2>13
<1> QED BY <1>1, <1>2, <1>3

(***************************************************************************)
(* What a step makes of the kernel of its rank, field by field.            *)
(***************************************************************************)
Becomes(r, cleaned, todo, finish, step, round, met) ==
  /\ Alone(r)
  /\ kernel'[r] = [call |-> kernel[r].call, idx |-> kernel[r].idx, cleaned |-> cleaned,
                   todo |-> todo, finish |-> finish, step |-> step, round |-> round,
                     met |-> met]

(* One field at a time.                                                     *)
LEMMA BecomesFacts ==
  ASSUME NEW r, NEW cleaned, NEW todo, NEW finish, NEW step, NEW round, NEW met,
         Becomes(r, cleaned, todo, finish, step, round, met)
  PROVE  /\ Alone(r) /\ run' = run /\ Pos(r)' = Pos(r)
         /\ kernel'[r].idx = kernel[r].idx /\ kernel'[r].cleaned = cleaned
         /\ kernel'[r].todo = todo /\ kernel'[r].finish = finish /\ kernel'[r].step = step
         /\ kernel'[r].round = round /\ kernel'[r].met = met
BY DEF Becomes, Pos, Alone

(* The kernels keep their types.                                            *)
LEMMA BecomesKernel ==
  ASSUME Shape, NEW r \in Rank, NEW cleaned \in BOOLEAN, NEW todo \in SUBSET Items,
         NEW finish \in [Expert -> Int], NEW step \in [Expert -> Steps], NEW round \in {1, 2},
         NEW met \in [Rank -> {"enter", "tell", "wait", "met"}],
         Becomes(r, cleaned, todo, finish, step, round, met),
         kernel' = [x \in Rank |-> kernel'[x]]
  PROVE  kernel' \in [Rank -> Kernels']
<1>1. kernel[r] \in Kernels
  BY DEF Shape
<1>2. kernel[r].call \in 1 .. NumCalls + 1 /\ kernel[r].idx \in {0, 1}
  BY <1>1 DEF Kernels
<1>3. kernel'[r] \in Kernels
  BY <1>2 DEF Becomes, Kernels
<1>4. \A x \in Rank : kernel'[x] \in Kernels
  BY <1>3 DEF Shape, Becomes, Alone
<1>5. Kernels' = Kernels
  BY FixedToo DEF Becomes, Alone
<1> QED BY <1>4, <1>5

(* One rank's kernel has changed.                                           *)
LEMMA KernelsKept ==
  ASSUME Shape, NEW r \in Rank, Alone(r), kernel'[r] \in Kernels,
         kernel' = [x \in Rank |-> kernel'[x]]
  PROVE  kernel' \in [Rank -> Kernels']
<1>1. \A x \in Rank : kernel'[x] \in Kernels
  BY DEF Shape, Alone
<1>2. Kernels' = Kernels
  BY FixedToo DEF Alone
<1> QED BY <1>1, <1>2

-----------------------------------------------------------------------------
(* Cleaning and sending.                                                    *)
LEMMA CleanNextStep ==
  ASSUME Shape, NEW r \in Rank, CleanNext(r)
  PROVE  /\ r \notin dead /\ dead' = dead /\ Active(Pos(r)) /\ ~kernel[r].cleaned
         /\ kernel'[r].cleaned = TRUE
         /\ Becomes(r, kernel'[r].cleaned, kernel[r].todo,
                    IF KindOf(Pos(r)) = "dispatch"
                    THEN [e \in Expert |-> kernel[r].finish[e] + Tag] ELSE kernel[r].finish,
                    kernel[r].step, kernel[r].round, kernel[r].met)
         /\ kernel' = [x \in Rank |-> kernel'[x]]
         /\ KindOf(Pos(r)) = "dispatch" => counter' = counter
         /\ KindOf(Pos(r)) = "combine" =>
              counter' = [counter EXCEPT ![r][0] = @ + Cardinality(Expert)]
<1>1. kernel[r] \in Kernels /\ kernel = [x \in Rank |-> kernel[x]]
  BY DEF Shape
<1>2. r \notin dead /\ Active(Pos(r)) /\ ~kernel[r].cleaned /\ run' = run /\ dead' = dead
  BY DEF CleanNext, In, Active, Pos
<1>3. CASE KindOf(Pos(r)) = "dispatch"
  <2>1. /\ kernel' = [kernel EXCEPT ![r].cleaned = TRUE,
                        ![r].finish = [e \in Expert |-> @[e] + Tag]]
        /\ counter' = counter
    BY <1>3 DEF CleanNext, In, Pos
  <2>2. kernel' = [kernel EXCEPT ![r] = [kernel[r] EXCEPT !.cleaned = TRUE,
                       !.finish = [e \in Expert |-> kernel[r].finish[e] + Tag]]]
    BY <1>1, <2>1 DEF Kernels
  <2>3. kernel'[r] = [kernel[r] EXCEPT !.cleaned = TRUE,
                       !.finish = [e \in Expert |-> kernel[r].finish[e] + Tag]]
    BY <1>1, <2>2
  <2>4. \A x \in Rank : x # r => kernel'[x] = kernel[x]
    BY <1>1, <2>2
  <2>5. kernel' = [x \in Rank |-> kernel'[x]]
    BY <1>1, <2>2
  <2> QED BY <1>1, <1>2, <1>3, <2>1, <2>3, <2>4, <2>5 DEF Becomes, Alone, Kernels
<1>4. CASE KindOf(Pos(r)) = "combine"
  <2>1. /\ kernel' = [kernel EXCEPT ![r].cleaned = TRUE]
        /\ counter' = [counter EXCEPT ![r][0] = @ + Cardinality(Expert)]
    BY <1>4 DEF CleanNext, In, Pos
  <2>2. kernel'[r] = [kernel[r] EXCEPT !.cleaned = TRUE]
    BY <1>1, <2>1
  <2>3. \A x \in Rank : x # r => kernel'[x] = kernel[x]
    BY <1>1, <2>1
  <2>4. kernel' = [x \in Rank |-> kernel'[x]]
    BY <1>1, <2>1
  <2> QED BY <1>1, <1>2, <1>4, <2>1, <2>2, <2>3, <2>4 DEF Becomes, Alone, Kernels
<1> QED BY <1>2, <1>3, <1>4 DEF Active

(* A token is sent.                                                         *)
LEMMA SendTokenStep ==
  ASSUME Shape, NEW r \in Rank, NEW t, NEW e \in Expert, SendToken(r, t, e)
  PROVE  /\ r \notin dead /\ dead' = dead /\ KindOf(Pos(r)) = "dispatch"
         /\ Active(Pos(r)) /\ <<t, e>> \in kernel[r].todo
         /\ Becomes(r, kernel[r].cleaned, kernel[r].todo \ {<<t, e>>},
                    [kernel[r].finish EXCEPT ![e] = @ + 1],
                    kernel[r].step, kernel[r].round, kernel[r].met)
         /\ kernel' = [x \in Rank |-> kernel'[x]]
         /\ counter' = [counter EXCEPT ![r][e] = @ + 1]
<1>1. kernel[r] \in Kernels /\ kernel = [x \in Rank |-> kernel[x]]
  BY DEF Shape
<1>2. r \notin dead /\ KindOf(Pos(r)) = "dispatch" /\ run' = run /\ dead' = dead
      /\ <<t, e>> \in kernel[r].todo
  BY DEF SendToken, In, Pos
<1>3. kernel' = [kernel EXCEPT ![r].todo = @ \ {<<t, e>>}, ![r].finish[e] = @ + 1]
  BY DEF SendToken
<1>4. kernel'[r] = [kernel[r] EXCEPT !.todo = kernel[r].todo \ {<<t, e>>},
                     !.finish = [kernel[r].finish EXCEPT ![e] = kernel[r].finish[e] + 1]]
  BY <1>1, <1>3 DEF Kernels
<1>5. (\A x \in Rank : x # r => kernel'[x] = kernel[x]) /\ kernel' = [x \in Rank |-> kernel'[x]]
  BY <1>1, <1>3
<1>6. counter' = [counter EXCEPT ![r][e] = @ + 1]
  BY DEF SendToken
<1> QED BY <1>1, <1>2, <1>4, <1>5, <1>6 DEF Becomes, Alone, Kernels, Active

(* A count is sent.                                                         *)
LEMMA SendCountStep ==
  ASSUME Shape, NEW r \in Rank, NEW e \in Expert, SendCount(r, e)
  PROVE  /\ r \notin dead /\ dead' = dead /\ KindOf(Pos(r)) = "dispatch"
         /\ Active(Pos(r)) /\ kernel[r].step[e] = "send" /\ kernel[r].finish[e] = 2 * Tag
         /\ Becomes(r, kernel[r].cleaned, kernel[r].todo, [kernel[r].finish EXCEPT ![e] = 0],
                    [kernel[r].step EXCEPT ![e] = "sent"], kernel[r].round, kernel[r].met)
         /\ kernel' = [x \in Rank |-> kernel'[x]]
         /\ counter' = [counter EXCEPT ![r][e] = 0]
<1>1. kernel[r] \in Kernels /\ kernel = [x \in Rank |-> kernel[x]]
  BY DEF Shape
<1>2. r \notin dead /\ KindOf(Pos(r)) = "dispatch" /\ run' = run /\ dead' = dead
      /\ kernel[r].step[e] = "send" /\ kernel[r].finish[e] = 2 * Tag
  BY DEF SendCount, In, Pos
<1>3. kernel' = [kernel EXCEPT ![r].step[e] = "sent", ![r].finish[e] = 0]
  BY DEF SendCount
<1>4. kernel'[r] = [kernel[r] EXCEPT !.step = [@ EXCEPT ![e] = "sent"],
                                     !.finish = [@ EXCEPT ![e] = 0]]
  BY <1>1, <1>3 DEF Kernels
<1>5. (\A x \in Rank : x # r => kernel'[x] = kernel[x]) /\ kernel' = [x \in Rank |-> kernel'[x]]
  BY <1>1, <1>3
<1>6. counter' = [counter EXCEPT ![r][e] = 0]
  BY DEF SendCount
<1> QED BY <1>1, <1>2, <1>4, <1>5, <1>6 DEF Becomes, Alone, Kernels, Active

(* A row is sent back.                                                      *)
LEMMA SendRowStep ==
  ASSUME Shape, NEW r \in Rank, NEW le, NEW d, NEW p, SendRow(r, le, d, p)
  PROVE  /\ r \notin dead /\ dead' = dead /\ KindOf(Pos(r)) = "combine"
         /\ Active(Pos(r)) /\ <<le, d, p>> \in kernel[r].todo
         /\ Becomes(r, kernel[r].cleaned, kernel[r].todo \ {<<le, d, p>>}, kernel[r].finish,
                    kernel[r].step, kernel[r].round, kernel[r].met)
         /\ kernel' = [x \in Rank |-> kernel'[x]]
         /\ counter' = counter
<1>1. kernel[r] \in Kernels /\ kernel = [x \in Rank |-> kernel[x]]
  BY DEF Shape
<1>2. r \notin dead /\ KindOf(Pos(r)) = "combine" /\ run' = run /\ dead' = dead
      /\ <<le, d, p>> \in kernel[r].todo /\ counter' = counter
  BY DEF SendRow, In, Pos
<1>3. kernel' = [kernel EXCEPT ![r].todo = @ \ {<<le, d, p>>}]
  BY DEF SendRow
<1>4. kernel'[r] = [kernel[r] EXCEPT !.todo = @ \ {<<le, d, p>>}]
  BY <1>1, <1>3
<1>5. (\A x \in Rank : x # r => kernel'[x] = kernel[x]) /\ kernel' = [x \in Rank |-> kernel'[x]]
  BY <1>1, <1>3
<1> QED BY <1>1, <1>2, <1>4, <1>5 DEF Becomes, Alone, Kernels, Active

(* A flag is sent.                                                          *)
LEMMA SendFlagStep ==
  ASSUME Shape, NEW r \in Rank, NEW e \in Expert, SendFlag(r, e)
  PROVE  /\ r \notin dead /\ dead' = dead /\ KindOf(Pos(r)) = "combine"
         /\ Active(Pos(r)) /\ kernel[r].step[e] = "send" /\ counter[r][0] # 0
         /\ \A x \in kernel[r].todo : <<x[1], x[2]>> # <<LocalOf(e), Owner(e)>>
         /\ Becomes(r, kernel[r].cleaned, kernel[r].todo, kernel[r].finish,
                    [kernel[r].step EXCEPT ![e] = "sent"], kernel[r].round, kernel[r].met)
         /\ kernel' = [x \in Rank |-> kernel'[x]]
         /\ counter' = [counter EXCEPT ![r][0] = @ - 1]
<1>1. kernel[r] \in Kernels /\ kernel = [x \in Rank |-> kernel[x]]
  BY DEF Shape
<1>2. r \notin dead /\ KindOf(Pos(r)) = "combine" /\ run' = run /\ dead' = dead
      /\ kernel[r].step[e] = "send" /\ counter[r][0] # 0
      /\ \A x \in kernel[r].todo : <<x[1], x[2]>> # <<LocalOf(e), Owner(e)>>
  BY DEF SendFlag, In, Pos
<1>3. kernel' = [kernel EXCEPT ![r].step[e] = "sent"]
  BY DEF SendFlag
<1>4. kernel'[r] = [kernel[r] EXCEPT !.step = [@ EXCEPT ![e] = "sent"]]
  BY <1>1, <1>3
<1>5. (\A x \in Rank : x # r => kernel'[x] = kernel[x]) /\ kernel' = [x \in Rank |-> kernel'[x]]
  BY <1>1, <1>3
<1>6. counter' = [counter EXCEPT ![r][0] = @ - 1]
  BY DEF SendFlag
<1> QED BY <1>1, <1>2, <1>4, <1>5, <1>6 DEF Becomes, Alone, Kernels, Active

-----------------------------------------------------------------------------
(* The steps of one group: kernel[r].step[e] goes to v, nothing else of the *)
(* kernel changes.                                                          *)
LEMMA GroupStep ==
  ASSUME Shape, NEW r \in Rank, NEW e \in Expert, NEW v \in Steps, run' = run, dead' = dead,
         kernel' = [kernel EXCEPT ![r].step[e] = v]
  PROVE  /\ Becomes(r, kernel[r].cleaned, kernel[r].todo, kernel[r].finish,
                    [kernel[r].step EXCEPT ![e] = v], kernel[r].round, kernel[r].met)
         /\ kernel' = [x \in Rank |-> kernel'[x]]
<1>1. kernel[r] \in Kernels /\ kernel = [x \in Rank |-> kernel[x]]
  BY DEF Shape
<1>4. kernel'[r] = [kernel[r] EXCEPT !.step = [@ EXCEPT ![e] = v]]
  BY <1>1
<1>5. (\A x \in Rank : x # r => kernel'[x] = kernel[x]) /\ kernel' = [x \in Rank |-> kernel'[x]]
  BY <1>1
<1> QED BY <1>1, <1>4, <1>5 DEF Becomes, Alone, Kernels

(* The steps of a barrier: met, or met and round, change.                   *)
LEMMA MeetStep ==
  ASSUME Shape, NEW r \in Rank, NEW m, run' = run, dead' = dead,
         kernel' = [kernel EXCEPT ![r].met = m]
  PROVE  /\ Becomes(r, kernel[r].cleaned, kernel[r].todo, kernel[r].finish,
                    kernel[r].step, kernel[r].round, m)
         /\ kernel' = [x \in Rank |-> kernel'[x]]
<1>1. kernel[r] \in Kernels /\ kernel = [x \in Rank |-> kernel[x]]
  BY DEF Shape
<1>2. kernel'[r] = [kernel[r] EXCEPT !.met = m]
  BY <1>1
<1>3. (\A x \in Rank : x # r => kernel'[x] = kernel[x]) /\ kernel' = [x \in Rank |-> kernel'[x]]
  BY <1>1
<1> QED BY <1>1, <1>2, <1>3 DEF Becomes, Alone, Kernels

(* The second barrier begins.                                               *)
LEMMA RoundStep ==
  ASSUME Shape, NEW r \in Rank, NEW m, NEW round, run' = run, dead' = dead,
         kernel' = [kernel EXCEPT ![r].round = round, ![r].met = m]
  PROVE  /\ Becomes(r, kernel[r].cleaned, kernel[r].todo, kernel[r].finish,
                    kernel[r].step, round, m)
         /\ kernel' = [x \in Rank |-> kernel'[x]]
<1>1. kernel[r] \in Kernels /\ kernel = [x \in Rank |-> kernel[x]]
  BY DEF Shape
<1>2. kernel'[r] = [kernel[r] EXCEPT !.round = round, !.met = m]
  BY <1>1
<1>3. (\A x \in Rank : x # r => kernel'[x] = kernel[x]) /\ kernel' = [x \in Rank |-> kernel'[x]]
  BY <1>1
<1> QED BY <1>1, <1>2, <1>3 DEF Becomes, Alone, Kernels

(* The last step of a call.                                                 *)
LEMMA ReturnStep ==
  ASSUME Shape, NEW r \in Rank, run' = run, dead' = dead, Return(r), Pos(r) \in 1 .. NumCalls
  PROVE  Leaves(r) /\ kernel' \in [Rank -> Kernels']
<1>1. kernel = [x \in Rank |-> kernel[x]]
  BY DEF Shape
<1>2. kernel' = [kernel EXCEPT ![r] = Launched(r, Pos(r) + 1, kernel[r].idx)]
  BY DEF Return, Pos
<1>3. Leaves(r) /\ kernel' = [x \in Rank |-> kernel'[x]]
  BY <1>1, <1>2 DEF Leaves, Alone
<1>4. kernel'[r] \in Kernels /\ Alone(r)
  BY <1>3, LeaveFacts DEF Leaves
<1> QED BY <1>3, <1>4, KernelsKept

(***************************************************************************)
(* The kernels.                                                            *)
(***************************************************************************)
LEMMA KernelSame ==
  ASSUME run' = run, NEW x, Pos(x)' = Pos(x), counter'[x] = counter[x],
         kernel'[x].todo = kernel[x].todo, kernel'[x].step = kernel[x].step,
         kernel'[x].finish = kernel[x].finish, kernel'[x].cleaned = kernel[x].cleaned,
         KindOf(Pos(x)) = "combine" =>
           layout'[x][Handle(Pos(x))] = layout[x][Handle(Pos(x))]
  PROVE  KernelOK(x)' <=> KernelOK(x)
<1>1. \A d, q : Step(x, d, q)' = Step(x, d, q)
  BY Fixed DEF Step
<1>2. AllSent(x)' <=> AllSent(x)
  BY Fixed DEF AllSent
<1>3. \A e : SentTo(x, e)' = SentTo(x, e)
  BY Fixed DEF SentTo
<1>4. DispatchKernel(x)' <=> DispatchKernel(x)
  <2>1. DispatchTodo(x)' <=> DispatchTodo(x)
    BY Fixed DEF DispatchTodo
  <2>2. DispatchSending(x)' <=> DispatchSending(x)
    BY <1>3, Fixed DEF DispatchSending
  <2>3. DispatchSent(x)' <=> DispatchSent(x)
    BY <1>2, Fixed DEF DispatchSent
  <2> QED BY <2>1, <2>2, <2>3 DEF DispatchKernel
<1>5. KindOf(Pos(x)) = "combine" => (CombineKernel(x)' <=> CombineKernel(x))
  <2>1. KindOf(Pos(x)) = "combine" => (CombineTodo(x)' <=> CombineTodo(x))
    BY <1>1, Fixed DEF CombineTodo
  <2>2. CombineSteps(x)' <=> CombineSteps(x)
    BY Fixed DEF CombineSteps
  <2>3. CombineCount(x)' <=> CombineCount(x)
    BY Fixed DEF CombineCount, Senders
  <2> QED BY <2>1, <2>2, <2>3 DEF CombineKernel
<1>6. IdleKernel(x)' <=> IdleKernel(x)
  BY Fixed DEF IdleKernel
<1> QED BY <1>4, <1>5, <1>6, Fixed DEF KernelOK

(* What is still to be sent, when something has been.                       *)
LEMMA TodoKept ==
  ASSUME run' = run, NEW r, Pos(r)' = Pos(r), kernel'[r].todo \subseteq kernel[r].todo
  PROVE  /\ DispatchTodo(r) /\ (\A x \in kernel'[r].todo :
              kernel[r].step[x[2]] = "send" => kernel'[r].step[x[2]] = "send")
                => DispatchTodo(r)'
         /\ CombineTodo(r) /\ layout'[r][Handle(Pos(r))] = layout[r][Handle(Pos(r))]
              /\ (\A x \in kernel'[r].todo :
                     Step(r, x[2], x[1]) = "send" => Step(r, x[2], x[1])' = "send")
              => CombineTodo(r)'
<1>1. ASSUME DispatchTodo(r),
             \A x \in kernel'[r].todo :
               kernel[r].step[x[2]] = "send" => kernel'[r].step[x[2]] = "send"
      PROVE  DispatchTodo(r)'
  BY <1>1, Fixed DEF DispatchTodo
<1>2. ASSUME CombineTodo(r), layout'[r][Handle(Pos(r))] = layout[r][Handle(Pos(r))],
             \A x \in kernel'[r].todo :
               Step(r, x[2], x[1]) = "send" => Step(r, x[2], x[1])' = "send"
      PROVE  CombineTodo(r)'
  <2>1. Local' = Local /\ Handle(Pos(r))' = Handle(Pos(r))
    BY Fixed
  <2>2. (Local \X Rank \X Row)' = Local \X Rank \X Row
    BY <2>1
  <2> SUFFICES ASSUME NEW x \in kernel'[r].todo
               PROVE  /\ x \in Local \X Rank \X Row /\ Step(r, x[2], x[1])' = "send"
                      /\ Covers(layout'[r][Handle(Pos(r))][<<x[1], x[2]>>], x[3])
    BY <2>1, <2>2 DEF CombineTodo
  <2> QED BY <1>2 DEF CombineTodo
<1> QED BY <1>1, <1>2

(* The kernels of the other ranks.                                          *)
LEMMA KernelOthers ==
  ASSUME Shape, KernelInv, NEW r \in Rank, Alone(r),
         \A x \in Rank : x # r => counter'[x] = counter[x] /\ layout'[x] = layout[x],
         KernelOK(r)'
  PROVE  KernelInv'
<1>1. \A x \in Rank : x # r => KernelOK(x)'
  <2> TAKE x \in Rank
  <2> HAVE x # r
  <2>1. run' = run /\ kernel'[x] = kernel[x] /\ counter'[x] = counter[x]
          /\ layout'[x] = layout[x]
    BY DEF Alone
  <2>2. Pos(x)' = Pos(x) /\ KernelOK(x)
    BY <2>1, SameKernel DEF KernelInv
  <2> QED BY <2>1, <2>2, KernelSame
<1> QED BY <1>1 DEF KernelInv

(* The groups that still have to send.                                      *)
LEMMA SenderCount ==
  ASSUME Shape, NEW r \in Rank
  PROVE  /\ IsFiniteSet(Senders(r)) /\ Cardinality(Senders(r)) \in 0 .. Cardinality(Expert)
         /\ Cardinality(Senders(r)) = 0 => \A e \in Expert : kernel[r].step[e] # "send"
<1>1. Senders(r) \subseteq Expert /\ IsFiniteSet(Expert) /\ Cardinality(Expert) \in Nat
  BY IndexFacts DEF Senders, Shape
<1>2. IsFiniteSet(Senders(r)) /\ Cardinality(Senders(r)) <= Cardinality(Expert)
  BY <1>1, FS_Subset
<1>3. Cardinality(Senders(r)) \in Nat
  BY <1>2, FS_CardinalityType
<1>4. Cardinality(Senders(r)) = 0 => Senders(r) = {}
  BY <1>2, FS_EmptySet
<1> QED BY <1>1, <1>2, <1>3, <1>4 DEF Senders

(* The tokens sent to an expert are among those that are for it.            *)
LEMMA SentFacts ==
  ASSUME Shape, NEW r \in Rank, KindOf(Pos(r)) = "dispatch", NEW e \in Expert
  PROVE  /\ SentTo(r, e) \subseteq TokensFor(Pos(r), r, e)
         /\ IsFiniteSet(SentTo(r, e)) /\ Cardinality(SentTo(r, e)) \in Nat
         /\ Cardinality(SentTo(r, e)) <= Cardinality(TokensFor(Pos(r), r, e))
         /\ Cardinality(TokensFor(Pos(r), r, e)) \in 0 .. MaxTokens
         /\ Cardinality(SentTo(r, e)) = Cardinality(TokensFor(Pos(r), r, e))
              => SentTo(r, e) = TokensFor(Pos(r), r, e)
<1>1. PICK n \in 1 .. NumCalls : n = Pos(r)
  BY KindFacts DEF Active
<1>2. /\ IsFiniteSet(TokensFor(n, r, e)) /\ Cardinality(TokensFor(n, r, e)) \in 0 .. MaxTokens
  BY <1>1, TokenFacts DEF Shape
<1>3. SentTo(r, e) \subseteq TokensFor(n, r, e)
  BY <1>1 DEF SentTo
<1>4. /\ IsFiniteSet(SentTo(r, e))
      /\ Cardinality(SentTo(r, e)) <= Cardinality(TokensFor(n, r, e))
      /\ Cardinality(SentTo(r, e)) = Cardinality(TokensFor(n, r, e))
              => SentTo(r, e) = TokensFor(n, r, e)
  BY <1>2, <1>3, FS_Subset
<1>5. Cardinality(SentTo(r, e)) \in Nat
  BY <1>4, FS_CardinalityType
<1> QED BY <1>1, <1>2, <1>3, <1>4, <1>5

(* Cleaning frees what waits for it: the finish counters have Tag more.     *)
LEMMA KernelCleanNext ==
  ASSUME Shape, KernelInv, NEW r \in Rank, CleanNext(r)
  PROVE  KernelInv'
<1>0. KernelOK(r) /\ run \in Runs
  BY DEF KernelInv, Shape
<1>1. /\ Active(Pos(r)) /\ ~kernel[r].cleaned /\ kernel'[r].cleaned = TRUE
      /\ Becomes(r, kernel'[r].cleaned, kernel[r].todo,
                    IF KindOf(Pos(r)) = "dispatch"
                    THEN [e \in Expert |-> kernel[r].finish[e] + Tag] ELSE kernel[r].finish,
                    kernel[r].step, kernel[r].round, kernel[r].met)
  BY CleanNextStep
<1>2. /\ kernel[r].finish \in [Expert -> Int] /\ kernel[r].step \in [Expert -> Steps]
      /\ kernel[r].todo \in SUBSET Items /\ kernel[r].round \in {1, 2} /\ Tag \in Nat \ {0}
      /\ kernel[r].met \in [Rank -> {"enter", "tell", "wait", "met"}]
      /\ counter[r] \in [Expert -> Nat]
  BY <1>0, KernelTypes, RunFacts
<1> DEFINE finish == IF KindOf(Pos(r)) = "dispatch"
                     THEN [e \in Expert |-> kernel[r].finish[e] + Tag] ELSE kernel[r].finish
<1>3. finish \in [Expert -> Int]
  BY <1>2
<1>9. Becomes(r, kernel'[r].cleaned, kernel[r].todo, finish,
              kernel[r].step, kernel[r].round, kernel[r].met)
  BY <1>1
<1> HIDE DEF finish
<1>4. /\ Alone(r) /\ Pos(r)' = Pos(r) /\ kernel'[r].todo = kernel[r].todo
      /\ kernel'[r].step = kernel[r].step /\ kernel'[r].cleaned = TRUE
           /\ kernel'[r].finish = finish
  BY <1>1, <1>9, BecomesFacts
<1>5. /\ layout' = layout /\ run' = run
      /\ \A x \in Rank : x # r => counter'[x] = counter[x]
      /\ KindOf(Pos(r)) = "dispatch" => counter'[r] = counter[r]
      /\ KindOf(Pos(r)) = "combine"
           => counter'[r] = [counter[r] EXCEPT ![0] = @ + Cardinality(Expert)]
  BY CleanNextStep DEF CleanNext, outputs, Shape, Active
<1>6. AllSent(r)' <=> AllSent(r)
  BY <1>4, <1>5, Fixed DEF AllSent
<1>7. CASE KindOf(Pos(r)) = "dispatch"
  <2>1. \A e : SentTo(r, e)' = SentTo(r, e)
    BY <1>4, <1>5, Fixed DEF SentTo
  <2>2. DispatchKernel(r) /\ KindOf(Pos(r))' = "dispatch" /\ Active(Pos(r))'
    BY <1>0, <1>1, <1>4, <1>5, <1>7, Fixed DEF KernelOK
  <2>3. DispatchTodo(r)'
    BY <1>4, <1>5, <2>2, Fixed DEF DispatchKernel, DispatchTodo
  <2>4. DispatchSending(r)'
    <3> SUFFICES ASSUME NEW e \in Expert, kernel[r].step[e] = "send"
                 PROVE  /\ counter[r][e] = Cardinality(SentTo(r, e))
                        /\ kernel'[r].finish[e] =
                             Tag - Cardinality(TokensFor(Pos(r), r, e)) + counter[r][e] + Tag
      BY <1>4, <1>5, <1>7, <2>1, Fixed DEF DispatchSending
    <3>1. Cardinality(TokensFor(Pos(r), r, e)) \in Int /\ counter[r][e] \in Int
      BY <1>2, <1>7, SentFacts
    <3>2. /\ counter[r][e] = Cardinality(SentTo(r, e))
          /\ kernel[r].finish[e] = Tag - Cardinality(TokensFor(Pos(r), r, e)) + counter[r][e]
      BY <1>1, <1>2, <2>2, <3>1 DEF DispatchKernel, DispatchSending
    <3> QED BY <1>2, <1>4, <1>7, <3>1, <3>2 DEF finish
  <2>5. DispatchSent(r)'
    BY <1>1, <1>4, <1>5, <1>6, <2>2, Fixed DEF DispatchKernel, DispatchSent
  <2>6. KernelOK(r)'
    BY <2>2, <2>3, <2>4, <2>5 DEF KernelOK, DispatchKernel
  <2> QED BY <1>4, <1>5, <2>6, KernelOthers
<1>8. CASE KindOf(Pos(r)) = "combine"
  <2>1. CombineKernel(r) /\ KindOf(Pos(r))' = "combine" /\ Active(Pos(r))'
    BY <1>0, <1>1, <1>4, <1>5, <1>8, Fixed DEF KernelOK
  <2>2. \A e \in Expert : kernel[r].step[e] = "send"
    BY <1>1, <2>1 DEF CombineKernel, CombineSteps
  <2>3. Senders(r)' = Expert
    BY <1>4, <1>5, <2>2, Fixed DEF Senders
  <2>4. counter[r][0] = 0 /\ 0 \in Expert /\ Cardinality(Expert) \in Nat
    BY <1>0, <1>1, <2>1, IndexFacts DEF CombineKernel, CombineCount
  <2>5. counter'[r][0] = Cardinality(Expert) /\ \A e \in Expert : e # 0 => counter'[r][e] = 0
    BY <1>2, <1>5, <1>8, <2>1, <2>4 DEF CombineKernel, CombineSteps
  <2>6. \A d, q : Step(r, d, q)' = Step(r, d, q)
    BY <1>4, <1>5, Fixed DEF Step
  <2>7. CombineTodo(r)'
    BY <1>4, <1>5, <2>1, <2>6, TodoKept DEF CombineKernel
  <2>8. CombineSteps(r)'
    BY <1>4, <1>5, <1>8, <2>1, <2>5, Fixed DEF CombineKernel, CombineSteps, finish
  <2>9. CombineCount(r)'
    BY <1>4, <1>5, <2>3, <2>5, Fixed DEF CombineCount
  <2>10. KernelOK(r)'
    BY <2>1, <2>7, <2>8, <2>9 DEF KernelOK, CombineKernel
  <2> QED BY <1>4, <1>5, <2>10, KernelOthers
<1> QED BY <1>1, <1>7, <1>8 DEF Active

(* A token moves its counter and its finish counter together.               *)
LEMMA KernelSendToken ==
  ASSUME Shape, KernelInv, NEW r \in Rank, NEW t, NEW e \in Expert, SendToken(r, t, e)
  PROVE  KernelInv' /\ t \in TokensFor(Pos(r), r, e) /\ kernel[r].step[e] = "send"
         /\ counter[r][e] < Cardinality(TokensFor(Pos(r), r, e))
         /\ counter[r][e] < MaxTokens
<1>0. KernelOK(r) /\ run \in Runs
  BY DEF KernelInv, Shape
<1>1. /\ KindOf(Pos(r)) = "dispatch" /\ Active(Pos(r)) /\ <<t, e>> \in kernel[r].todo
      /\ Becomes(r, kernel[r].cleaned, kernel[r].todo \ {<<t, e>>},
                    [kernel[r].finish EXCEPT ![e] = @ + 1],
                    kernel[r].step, kernel[r].round, kernel[r].met)
      /\ counter' = [counter EXCEPT ![r][e] = @ + 1]
  BY SendTokenStep
<1>2. /\ Alone(r) /\ run' = run /\ Pos(r)' = Pos(r)
      /\ kernel'[r].todo = kernel[r].todo \ {<<t, e>>} /\ kernel'[r].step = kernel[r].step
      /\ kernel'[r].cleaned = kernel[r].cleaned
      /\ kernel'[r].finish = [kernel[r].finish EXCEPT ![e] = @ + 1]
  BY <1>1, BecomesFacts
<1>3. /\ kernel[r].finish \in [Expert -> Int] /\ kernel[r].cleaned \in BOOLEAN
      /\ counter[r] \in [Expert -> Nat] /\ MaxTokens \in Nat /\ Tag \in Nat
  BY <1>0, KernelTypes, RunFacts
<1>4. /\ \A x \in Rank : x # r => counter'[x] = counter[x]
      /\ counter'[r] = [counter[r] EXCEPT ![e] = @ + 1] /\ layout' = layout
  BY <1>1 DEF Shape, SendToken, outputs
<1>5. DispatchTodo(r) /\ DispatchSending(r) /\ DispatchSent(r)
  BY <1>0, <1>1 DEF KernelOK, DispatchKernel
<1>6. t \in TokensFor(Pos(r), r, e) /\ kernel[r].step[e] = "send"
  <2>1. <<t, e>>[1] = t /\ <<t, e>>[2] = e
    OBVIOUS
  <2> QED BY <1>1, <1>5, <2>1 DEF DispatchTodo
<1>7. /\ SentTo(r, e)' = SentTo(r, e) \cup {t} /\ t \notin SentTo(r, e)
      /\ \A x \in Expert : x # e => SentTo(r, x)' = SentTo(r, x)
  <2>1. \A x : SentTo(r, x)' = {y \in TokensFor(Pos(r), r, x) : <<y, x>> \notin kernel'[r].todo}
    BY <1>2, Fixed DEF SentTo
  <2>2. \A x, y : <<y, x>> = <<t, e>> <=> y = t /\ x = e
    OBVIOUS
  <2>3. \A x, y : <<y, x>> \notin kernel'[r].todo <=> <<y, x>> \notin kernel[r].todo \/ (y = t /\ x = e)
    BY <1>2, <2>2
  <2>4. SentTo(r, e)' = SentTo(r, e) \cup {t}
    BY <1>6, <2>1, <2>3 DEF SentTo
  <2>5. t \notin SentTo(r, e)
    BY <1>1 DEF SentTo
  <2>6. \A x \in Expert : x # e => SentTo(r, x)' = SentTo(r, x)
    BY <2>1, <2>3 DEF SentTo
  <2> QED BY <2>4, <2>5, <2>6
<1>8. /\ IsFiniteSet(SentTo(r, e)) /\ SentTo(r, e) \subseteq TokensFor(Pos(r), r, e)
      /\ Cardinality(SentTo(r, e)) \in Nat
      /\ Cardinality(SentTo(r, e)) <= Cardinality(TokensFor(Pos(r), r, e))
      /\ Cardinality(TokensFor(Pos(r), r, e)) \in 0 .. MaxTokens
      /\ Cardinality(SentTo(r, e)) = Cardinality(TokensFor(Pos(r), r, e))
              => SentTo(r, e) = TokensFor(Pos(r), r, e)
  BY <1>1, SentFacts
<1>9. Cardinality(SentTo(r, e)') = Cardinality(SentTo(r, e)) + 1
  BY <1>7, <1>8, FS_AddElement
<1>10. counter[r][e] = Cardinality(SentTo(r, e))
  BY <1>5, <1>6 DEF DispatchSending
<1>11. counter[r][e] < Cardinality(TokensFor(Pos(r), r, e)) /\ counter[r][e] < MaxTokens
  BY <1>3, <1>6, <1>7, <1>8, <1>10
<1>12. DispatchTodo(r)'
  BY <1>2, <1>5, TodoKept
<1>13. DispatchSending(r)'
  <2> SUFFICES ASSUME NEW x \in Expert, kernel[r].step[x] = "send"
               PROVE  /\ counter'[r][x] = Cardinality(SentTo(r, x)')
                      /\ kernel'[r].finish[x] = Tag - Cardinality(TokensFor(Pos(r), r, x))
                           + counter'[r][x] + (IF kernel[r].cleaned THEN Tag ELSE 0)
    BY <1>2, Fixed DEF DispatchSending
  <2>1. /\ counter[r][x] = Cardinality(SentTo(r, x))
        /\ kernel[r].finish[x] = Tag - Cardinality(TokensFor(Pos(r), r, x)) + counter[r][x]
             + (IF kernel[r].cleaned THEN Tag ELSE 0)
    BY <1>5 DEF DispatchSending
  <2>2. CASE x # e
    BY <1>2, <1>3, <1>4, <1>7, <2>1, <2>2
  <2>3. CASE x = e
    <3>1. counter'[r][e] = counter[r][e] + 1
      BY <1>3, <1>4
    <3>2. kernel'[r].finish[e] = kernel[r].finish[e] + 1
      BY <1>2, <1>3
    <3>3. PICK n \in Nat : n = Cardinality(TokensFor(Pos(r), r, e))
      BY <1>8
    <3>4. PICK c \in Nat : c = counter[r][e]
      BY <1>3
    <3>5. kernel'[r].finish[e] = Tag - n + (c + 1) + (IF kernel[r].cleaned THEN Tag ELSE 0)
      BY <1>3, <2>1, <2>3, <3>2, <3>3, <3>4
    <3> QED BY <1>9, <1>10, <2>3, <3>1, <3>3, <3>4, <3>5
  <2> QED BY <2>2, <2>3
<1>14. DispatchSent(r)'
  <2>1. AllSent(r)' <=> AllSent(r)
    BY <1>2, Fixed DEF AllSent
  <2> QED BY <1>2, <1>3, <1>4, <1>5, <1>6, <2>1, Fixed DEF DispatchSent
<1>15. KernelOK(r)'
  BY <1>1, <1>2, <1>12, <1>13, <1>14, Fixed DEF KernelOK, DispatchKernel
<1> QED BY <1>2, <1>4, <1>6, <1>11, <1>15, KernelOthers

(* The finish counter is complete only when all is sent and clean.          *)
LEMMA Complete ==
  ASSUME Shape, KernelInv, NEW r \in Rank, KindOf(Pos(r)) = "dispatch", NEW e \in Expert,
         kernel[r].step[e] = "send", kernel[r].finish[e] = 2 * Tag
  PROVE  /\ kernel[r].cleaned /\ counter[r][e] = Cardinality(TokensFor(Pos(r), r, e))
         /\ \A t : <<t, e>> \notin kernel[r].todo
         /\ \A x \in kernel[r].todo : x[2] # e
<1>0. KernelOK(r) /\ run \in Runs /\ Active(Pos(r))
  BY DEF KernelInv, Shape, Active
<1>1. DispatchTodo(r) /\ DispatchSending(r)
  BY <1>0 DEF KernelOK, DispatchKernel
<1>2. PICK n \in Nat : n = Cardinality(TokensFor(Pos(r), r, e))
  BY SentFacts
<1>3. PICK c \in Nat : c = counter[r][e] /\ c = Cardinality(SentTo(r, e)) /\ c <= n
  BY <1>1, <1>2, SentFacts DEF DispatchSending
<1>4. kernel[r].finish[e] = Tag - n + c + (IF kernel[r].cleaned THEN Tag ELSE 0)
  BY <1>1, <1>2, <1>3 DEF DispatchSending
<1>5. Tag \in Nat \ {0} /\ kernel[r].cleaned \in BOOLEAN
  BY <1>0, RunFacts, KernelTypes
<1>6. kernel[r].cleaned /\ c = n
  BY <1>3, <1>4, <1>5
<1>7. SentTo(r, e) = TokensFor(Pos(r), r, e)
  BY <1>2, <1>3, <1>6, SentFacts
<1>8. \A x \in kernel[r].todo : x[2] # e
  <2> SUFFICES ASSUME NEW x \in kernel[r].todo, x[2] = e PROVE FALSE
    OBVIOUS
  <2>1. x = <<x[1], e>> /\ x[1] \in TokensFor(Pos(r), r, e)
    BY <1>1 DEF DispatchTodo
  <2> QED BY <1>7, <2>1 DEF SentTo
<1>9. \A t : <<t, e>> \notin kernel[r].todo
  BY <1>8
<1> QED BY <1>2, <1>3, <1>6, <1>8, <1>9

(* The workspace of an expert is reset with its count.                      *)
LEMMA KernelSendCount ==
  ASSUME Shape, KernelInv, NEW r \in Rank, NEW e \in Expert, SendCount(r, e)
  PROVE  KernelInv'
<1>0. KernelOK(r) /\ run \in Runs
  BY DEF KernelInv, Shape
<1>1. /\ KindOf(Pos(r)) = "dispatch" /\ Active(Pos(r))
      /\ kernel[r].step[e] = "send" /\ kernel[r].finish[e] = 2 * Tag
      /\ Becomes(r, kernel[r].cleaned, kernel[r].todo, [kernel[r].finish EXCEPT ![e] = 0],
                    [kernel[r].step EXCEPT ![e] = "sent"], kernel[r].round, kernel[r].met)
      /\ counter' = [counter EXCEPT ![r][e] = 0]
  BY SendCountStep
<1>2. /\ Alone(r) /\ run' = run /\ Pos(r)' = Pos(r)
      /\ kernel'[r].todo = kernel[r].todo
      /\ kernel'[r].step = [kernel[r].step EXCEPT ![e] = "sent"]
      /\ kernel'[r].cleaned = kernel[r].cleaned
      /\ kernel'[r].finish = [kernel[r].finish EXCEPT ![e] = 0]
  BY <1>1, BecomesFacts
<1>3. /\ kernel[r].finish \in [Expert -> Int] /\ kernel[r].step \in [Expert -> Steps]
      /\ counter[r] \in [Expert -> Nat]
  BY <1>0, KernelTypes
<1>4. /\ \A x \in Rank : x # r => counter'[x] = counter[x]
      /\ counter'[r] = [counter[r] EXCEPT ![e] = 0] /\ layout' = layout
  BY <1>1 DEF Shape, SendCount, outputs
<1>5. DispatchTodo(r) /\ DispatchSending(r) /\ DispatchSent(r)
  BY <1>0, <1>1 DEF KernelOK, DispatchKernel
<1>6. kernel[r].cleaned /\ \A x \in kernel[r].todo : x[2] # e
  BY <1>1, Complete
<1>7. /\ kernel'[r].step[e] = "sent" /\ kernel'[r].finish[e] = 0 /\ counter'[r][e] = 0
      /\ \A x \in Expert : x # e =>
           /\ kernel'[r].step[x] = kernel[r].step[x]
                /\ kernel'[r].finish[x] = kernel[r].finish[x]
           /\ counter'[r][x] = counter[r][x]
  BY <1>2, <1>3, <1>4
<1>8. DispatchTodo(r)'
  <2>1. \A x \in kernel'[r].todo :
          kernel[r].step[x[2]] = "send" => kernel'[r].step[x[2]] = "send"
    BY <1>2, <1>5, <1>6, <1>7 DEF DispatchTodo
  <2> QED BY <1>2, <1>5, <2>1, TodoKept
<1>9. DispatchSending(r)'
  <2>1. \A x : SentTo(r, x)' = SentTo(r, x)
    BY <1>2, Fixed DEF SentTo
  <2> QED BY <1>2, <1>5, <1>7, <2>1, Fixed DEF DispatchSending
<1>10. DispatchSent(r)'
  <2>1. ~AllSent(r)
    BY <1>1 DEF AllSent
  <2> QED BY <1>2, <1>5, <1>6, <1>7, <2>1, Fixed DEF DispatchSent
<1>11. KernelOK(r)'
  BY <1>1, <1>2, <1>8, <1>9, <1>10, Fixed DEF KernelOK, DispatchKernel
<1> QED BY <1>2, <1>4, <1>11, KernelOthers

(* A row sent back was taken in the dispatch.                               *)
LEMMA KernelSendRow ==
  ASSUME Shape, KernelInv, NEW r \in Rank, NEW le, NEW d, NEW p, SendRow(r, le, d, p)
  PROVE  /\ KernelInv' /\ le \in Local /\ d \in Rank /\ p \in Row /\ Step(r, d, le) = "send"
         /\ Covers(Extent(r, Handle(Pos(r)), d, le), p)
<1>0. KernelOK(r) /\ run \in Runs
  BY DEF KernelInv, Shape
<1>1. /\ KindOf(Pos(r)) = "combine" /\ Active(Pos(r)) /\ <<le, d, p>> \in kernel[r].todo
      /\ Becomes(r, kernel[r].cleaned, kernel[r].todo \ {<<le, d, p>>}, kernel[r].finish,
                    kernel[r].step, kernel[r].round, kernel[r].met)
      /\ counter' = counter
  BY SendRowStep
<1>2. /\ Alone(r) /\ run' = run /\ Pos(r)' = Pos(r)
      /\ kernel'[r].todo = kernel[r].todo \ {<<le, d, p>>} /\ kernel'[r].step = kernel[r].step
      /\ kernel'[r].cleaned = kernel[r].cleaned /\ kernel'[r].finish = kernel[r].finish
  BY <1>1, BecomesFacts
<1>3. layout' = layout
  BY DEF SendRow, outputs
<1>4. CombineTodo(r) /\ CombineSteps(r) /\ CombineCount(r)
  BY <1>0, <1>1 DEF KernelOK, CombineKernel
<1>5. CombineTodo(r)'
  <2>1. \A a, q : Step(r, a, q)' = Step(r, a, q)
    BY <1>2, Fixed DEF Step
  <2> QED BY <1>2, <1>3, <1>4, <2>1, TodoKept
<1>6. CombineSteps(r)'
  BY <1>1, <1>2, <1>4, Fixed DEF CombineSteps
<1>7. CombineCount(r)'
  <2>1. Senders(r)' = Senders(r)
    BY <1>2, Fixed DEF Senders
  <2> QED BY <1>1, <1>2, <1>4, <2>1 DEF CombineCount
<1>8. KernelOK(r)'
  BY <1>1, <1>2, <1>5, <1>6, <1>7, Fixed DEF KernelOK, CombineKernel
<1>9. /\ le \in Local /\ d \in Rank /\ p \in Row /\ Step(r, d, le) = "send"
      /\ Covers(Extent(r, Handle(Pos(r)), d, le), p)
  <2>1. <<le, d, p>>[1] = le /\ <<le, d, p>>[2] = d /\ <<le, d, p>>[3] = p
    OBVIOUS
  <2> QED BY <1>1, <1>4, <2>1 DEF CombineTodo, Extent
<1> QED BY <1>1, <1>2, <1>3, <1>8, <1>9, KernelOthers

(* A flag waits for the cleaning, and is one sender fewer.                  *)
LEMMA KernelSendFlag ==
  ASSUME Shape, KernelInv, NEW r \in Rank, NEW e \in Expert, SendFlag(r, e)
  PROVE  KernelInv' /\ kernel[r].cleaned
<1>0. KernelOK(r) /\ run \in Runs
  BY DEF KernelInv, Shape
<1>1. /\ KindOf(Pos(r)) = "combine" /\ Active(Pos(r))
      /\ kernel[r].step[e] = "send" /\ counter[r][0] # 0
      /\ \A x \in kernel[r].todo : <<x[1], x[2]>> # <<LocalOf(e), Owner(e)>>
      /\ Becomes(r, kernel[r].cleaned, kernel[r].todo, kernel[r].finish,
                    [kernel[r].step EXCEPT ![e] = "sent"], kernel[r].round, kernel[r].met)
      /\ counter' = [counter EXCEPT ![r][0] = @ - 1]
  BY SendFlagStep
<1>2. /\ Alone(r) /\ run' = run /\ Pos(r)' = Pos(r)
      /\ kernel'[r].todo = kernel[r].todo
      /\ kernel'[r].step = [kernel[r].step EXCEPT ![e] = "sent"]
      /\ kernel'[r].cleaned = kernel[r].cleaned /\ kernel'[r].finish = kernel[r].finish
  BY <1>1, BecomesFacts
<1>3. /\ kernel[r].step \in [Expert -> Steps] /\ counter[r] \in [Expert -> Nat] /\ 0 \in Expert
  BY <1>0, KernelTypes, IndexFacts
<1>4. /\ \A x \in Rank : x # r => counter'[x] = counter[x]
      /\ counter'[r] = [counter[r] EXCEPT ![0] = @ - 1] /\ layout' = layout
  BY <1>1 DEF Shape, SendFlag, outputs
<1>5. CombineTodo(r) /\ CombineSteps(r) /\ CombineCount(r)
  BY <1>0, <1>1 DEF KernelOK, CombineKernel
<1>6. kernel[r].cleaned /\ counter[r][0] = Cardinality(Senders(r))
  BY <1>1, <1>5 DEF CombineCount
<1>7. /\ kernel'[r].step[e] = "sent"
      /\ \A x \in Expert : x # e => kernel'[r].step[x] = kernel[r].step[x]
      /\ counter'[r][0] = counter[r][0] - 1
      /\ \A x \in Expert : x # 0 => counter'[r][x] = counter[r][x]
  BY <1>2, <1>3, <1>4
<1>8. CombineTodo(r)'
  <2>1. \A x \in kernel'[r].todo : Step(r, x[2], x[1]) = "send" => Step(r, x[2], x[1])' = "send"
    <3> SUFFICES ASSUME NEW x \in kernel[r].todo, Step(r, x[2], x[1]) = "send"
                 PROVE  Step(r, x[2], x[1])' = "send"
      BY <1>2
    <3>1. x[1] \in Local /\ x[2] \in Rank /\ <<x[1], x[2]>> # <<LocalOf(e), Owner(e)>>
      BY <1>1, <1>5 DEF CombineTodo
    <3>2. GlobalOf(x[2], x[1]) \in Expert
      BY <1>0, <3>1, IndexFacts
    <3>3. /\ Owner(GlobalOf(x[2], x[1])) = x[2]
          /\ LocalOf(GlobalOf(x[2], x[1])) = x[1]
      BY <1>0, <3>1, IndexFacts
    <3>4. GlobalOf(x[2], x[1]) # e
      BY <3>1, <3>3
    <3> QED BY <1>2, <1>7, <3>2, <3>4, Fixed DEF Step
  <2> QED BY <1>2, <1>4, <1>5, <2>1, TodoKept
<1>9. CombineSteps(r)'
  BY <1>2, <1>5, <1>6, <1>7, Fixed DEF CombineSteps
<1>10. CombineCount(r)'
  <2>1. Senders(r)' = Senders(r) \ {e} /\ e \in Senders(r)
    BY <1>1, <1>2, <1>7, Fixed DEF Senders
  <2>2. IsFiniteSet(Senders(r)) /\ Cardinality(Senders(r)) \in Nat
    BY SenderCount
  <2>3. Cardinality(Senders(r) \ {e}) = Cardinality(Senders(r)) - 1
    BY <2>1, <2>2, FS_RemoveElement
  <2> QED BY <1>2, <1>6, <1>7, <2>1, <2>3 DEF CombineCount
<1>11. KernelOK(r)'
  BY <1>1, <1>2, <1>8, <1>9, <1>10, Fixed DEF KernelOK, CombineKernel
<1> QED BY <1>2, <1>4, <1>6, <1>11, KernelOthers

(* A group that has sent goes on.                                           *)
LEMMA KernelGroup ==
  ASSUME Shape, KernelInv, NEW r \in Rank, NEW e \in Expert, NEW v \in {"taken", "done"},
         Active(Pos(r)), kernel[r].step[e] # "send",
         KindOf(Pos(r)) = "dispatch" => AllSent(r),
         KindOf(Pos(r)) = "combine" =>
           v = "taken" /\ layout'[r][Handle(Pos(r))] = layout[r][Handle(Pos(r))],
         Becomes(r, kernel[r].cleaned, kernel[r].todo, kernel[r].finish,
                    [kernel[r].step EXCEPT ![e] = v], kernel[r].round, kernel[r].met),
         counter' = counter, \A x \in Rank : x # r => layout'[x] = layout[x]
  PROVE  KernelInv'
<1>0. KernelOK(r) /\ run \in Runs
  BY DEF KernelInv, Shape
<1>2. /\ Alone(r) /\ run' = run /\ Pos(r)' = Pos(r)
      /\ kernel'[r].todo = kernel[r].todo
      /\ kernel'[r].step = [kernel[r].step EXCEPT ![e] = v]
      /\ kernel'[r].cleaned = kernel[r].cleaned /\ kernel'[r].finish = kernel[r].finish
  BY BecomesFacts
<1>3. /\ kernel[r].step \in [Expert -> Steps]
  BY KernelTypes
<1>7. /\ kernel'[r].step[e] = v /\ v # "send"
      /\ \A x \in Expert : x # e => kernel'[r].step[x] = kernel[r].step[x]
  BY <1>2, <1>3
<1>8. CASE KindOf(Pos(r)) = "dispatch"
  <2>1. DispatchTodo(r) /\ DispatchSending(r) /\ DispatchSent(r)
    BY <1>0, <1>8 DEF KernelOK, DispatchKernel
  <2>2. \A x : SentTo(r, x)' = SentTo(r, x)
    BY <1>2, Fixed DEF SentTo
  <2>3. AllSent(r) /\ AllSent(r)'
    BY <1>2, <1>7, <1>8, Fixed DEF AllSent
  <2>4. kernel[r].todo = {}
    BY <2>1, <2>3 DEF DispatchTodo, AllSent
  <2>5. DispatchTodo(r)'
    BY <1>2, <2>4 DEF DispatchTodo
  <2>6. DispatchSending(r)'
    BY <2>3 DEF DispatchSending, AllSent
  <2>7. DispatchSent(r)'
    BY <1>2, <1>7, <2>1, <2>3, Fixed DEF DispatchSent, AllSent
  <2>8. KernelOK(r)'
    BY <1>2, <1>8, <2>5, <2>6, <2>7, Fixed DEF KernelOK, DispatchKernel, Active
  <2> QED BY <1>2, <2>8, KernelOthers
<1>9. CASE KindOf(Pos(r)) = "combine"
  <2>1. CombineTodo(r) /\ CombineSteps(r) /\ CombineCount(r)
    BY <1>0, <1>9 DEF KernelOK, CombineKernel
  <2>2. CombineTodo(r)'
    <3>1. \A x \in kernel'[r].todo : Step(r, x[2], x[1]) = "send"
            => Step(r, x[2], x[1])' = "send"
      <4> SUFFICES ASSUME NEW x \in kernel[r].todo, Step(r, x[2], x[1]) = "send"
                   PROVE  Step(r, x[2], x[1])' = "send"
        BY <1>2
      <4>1. x[1] \in Local /\ x[2] \in Rank
        BY <2>1 DEF CombineTodo
      <4>2. GlobalOf(x[2], x[1]) \in Expert /\ GlobalOf(x[2], x[1]) # e
        BY <1>0, <4>1, IndexFacts DEF Step
      <4> QED BY <1>2, <1>7, <4>2, Fixed DEF Step
    <3> QED BY <1>2, <1>9, <2>1, <3>1, TodoKept
  <2>3. CombineSteps(r)'
    BY <1>2, <1>7, <1>9, <2>1, Fixed DEF CombineSteps
  <2>4. Senders(r)' = Senders(r)
    BY <1>2, <1>7, Fixed DEF Senders
  <2>5. CombineCount(r)'
    BY <1>2, <2>1, <2>4 DEF CombineCount
  <2>8. KernelOK(r)'
    BY <1>2, <1>9, <2>2, <2>3, <2>5, Fixed DEF KernelOK, CombineKernel, Active
  <2> QED BY <1>2, <2>8, KernelOthers
<1> QED BY <1>8, <1>9 DEF Active

(* At the end of a call the workspace is zero, as the next one needs it.    *)
LEMMA OverFacts ==
  ASSUME Shape, KernelInv, NEW r \in Rank, Over(r)
  PROVE  /\ \A e \in Expert : counter[r][e] = 0
         /\ Active(Pos(r)) => /\ \A e \in Expert : kernel[r].step[e] # "send"
                              /\ kernel[r].cleaned /\ kernel[r].todo = {}
<1>0. KernelOK(r) /\ run \in Runs
  BY DEF KernelInv, Shape
<1>1. Active(Pos(r)) => \A e \in Expert : kernel[r].step[e] \in {"taken", "done"}
  <2> SUFFICES ASSUME Active(Pos(r)), NEW e \in Expert
               PROVE  kernel[r].step[e] \in {"taken", "done"}
    OBVIOUS
  <2>1. Owner(e) \in Rank /\ LocalOf(e) \in Local /\ GlobalOf(Owner(e), LocalOf(e)) = e
    BY <1>0, IndexFacts
  <2>2. Taken(r, Owner(e), LocalOf(e))
    BY <2>1 DEF Over
  <2> QED BY <2>1, <2>2 DEF Taken, Step
<1>2. CASE KindOf(Pos(r)) = "dispatch"
  BY <1>0, <1>1, <1>2, IndexFacts DEF KernelOK, DispatchKernel, DispatchTodo, DispatchSent,
     Active
<1>3. CASE KindOf(Pos(r)) = "combine"
  <2>1. CombineTodo(r) /\ CombineSteps(r) /\ CombineCount(r)
    BY <1>0, <1>3 DEF KernelOK, CombineKernel
  <2>2. Senders(r) = {}
    BY <1>1, <1>3 DEF Senders, Active
  <2>3. counter[r][0] = 0
    BY <2>1, <2>2, FS_EmptySet DEF CombineCount
  <2>4. kernel[r].todo = {}
    <3> SUFFICES ASSUME NEW x \in kernel[r].todo PROVE FALSE
      OBVIOUS
    <3>1. x[1] \in Local /\ x[2] \in Rank /\ Step(r, x[2], x[1]) = "send"
      BY <2>1 DEF CombineTodo
    <3> QED BY <1>0, <1>1, <1>3, <3>1, IndexFacts DEF Step, Active
  <2> QED BY <1>0, <1>1, <1>3, <2>1, <2>3, <2>4, IndexFacts DEF CombineSteps, Active
<1>4. CASE ~Active(Pos(r))
  BY <1>0, <1>4 DEF KernelOK, IdleKernel
<1> QED BY <1>2, <1>3, <1>4 DEF Active

(* The next kernel finds it so.                                             *)
LEMMA KernelLeaves ==
  ASSUME Shape, KernelInv, NEW r \in Rank, Over(r), Leaves(r),
         counter' = counter, layout' = layout
  PROVE  KernelInv'
<1>0. run \in Runs /\ run' = run /\ Alone(r)
  BY DEF Shape, Leaves, Alone
<1>1. PICK n \in 1 .. NumCalls + 1 : n = Pos(r) + 1
  BY KernelTypes DEF Over
<1>2. /\ Pos(r)' = n /\ kernel'[r].cleaned = FALSE
      /\ \A e \in Expert : kernel'[r].step[e] = "send"
      /\ \A d \in Rank, q \in Local : Step(r, d, q)' = "send"
      /\ KindOf(n) = "dispatch" =>
           kernel'[r].todo = TokenItems(n, r) /\ kernel'[r].finish = LessTokens(n, r)
      /\ KindOf(n) # "dispatch" => kernel'[r].finish = Finished
      /\ KindOf(n) = "combine" => kernel'[r].todo = RowItems(n, r)
      /\ ~Active(n) => kernel'[r].todo = {}
  BY <1>1, LeaveFacts DEF Over
<1>3. \A e \in Expert : counter'[r][e] = 0
  BY OverFacts
<1>4. CASE KindOf(n) = "dispatch"
  <2>0. NumCalls \in Nat /\ n \in 1 .. NumCalls
    BY <1>0, <1>1, <1>4, RunFacts
  <2>1. DispatchTodo(r)'
    <3> SUFFICES ASSUME NEW x \in TokenItems(n, r)
                 PROVE  /\ x = <<x[1], x[2]>> /\ x[2] \in Expert
                             /\ x[1] \in TokensFor(n, r, x[2])
                        /\ kernel'[r].step[x[2]] = "send"
      BY <1>0, <1>2, <1>4, Fixed DEF DispatchTodo
    <3> QED BY <1>2 DEF TokenItems, TokensFor
  <2>2. \A e \in Expert : SentTo(r, e)' = {}
    <3> SUFFICES ASSUME NEW e \in Expert, NEW t \in TokensFor(n, r, e),
                        <<t, e>> \notin kernel'[r].todo
                 PROVE  FALSE
      BY <1>0, <1>2, Fixed DEF SentTo
    <3> QED BY <1>2, <1>4 DEF TokenItems, TokensFor
  <2>3. DispatchSending(r)'
    <3> SUFFICES ASSUME NEW e \in Expert
                 PROVE  /\ counter'[r][e] = Cardinality(SentTo(r, e)')
                        /\ kernel'[r].finish[e] =
                             Tag - Cardinality(TokensFor(n, r, e)) + counter'[r][e] + 0
      BY <1>0, <1>2, Fixed DEF DispatchSending
    <3>1. counter'[r][e] = 0 /\ Cardinality(SentTo(r, e)') = 0
      BY <1>3, <2>2, FS_EmptySet
    <3>2. Cardinality(TokensFor(n, r, e)) \in Nat /\ Tag \in Nat
      BY <1>0, <1>4, <2>0, TokenFacts, RunFacts
    <3>3. kernel'[r].finish[e] = Tag - Cardinality(TokensFor(n, r, e))
      BY <1>2, <1>4 DEF LessTokens
    <3> QED BY <3>1, <3>2, <3>3
  <2>4. DispatchSent(r)'
    BY <1>0, <1>2, Fixed DEF DispatchSent
  <2>5. KernelOK(r)'
    BY <1>0, <1>2, <1>4, <2>1, <2>3, <2>4, Fixed DEF KernelOK, DispatchKernel, Active
  <2> QED BY <1>0, <2>5, KernelOthers
<1>5. CASE KindOf(n) = "combine"
  <2>1. CombineTodo(r)'
    <3>0. (Local \X Rank \X Row)' = Local \X Rank \X Row
      BY <1>0, Fixed
    <3> SUFFICES ASSUME NEW x \in RowItems(n, r)
                 PROVE  /\ x \in Local \X Rank \X Row /\ Step(r, x[2], x[1])' = "send"
                        /\ Covers(layout[r][Handle(n)][<<x[1], x[2]>>], x[3])
      BY <1>0, <1>2, <1>5, <3>0, Fixed DEF CombineTodo
    <3> QED BY <1>2 DEF RowItems
  <2>2. CombineSteps(r)'
    BY <1>0, <1>2, <1>3, <1>5, Fixed DEF CombineSteps, Finished
  <2>3. CombineCount(r)'
    BY <1>0, <1>2, <1>3, IndexFacts DEF CombineCount
  <2>4. KernelOK(r)'
    BY <1>0, <1>2, <1>5, <2>1, <2>2, <2>3, Fixed DEF KernelOK, CombineKernel, Active
  <2> QED BY <1>0, <2>4, KernelOthers
<1>6. CASE ~Active(n)
  <2>1. IdleKernel(r)'
    BY <1>0, <1>2, <1>3, <1>6, Fixed DEF IdleKernel, Finished, Active
  <2>2. KernelOK(r)'
    BY <1>0, <1>2, <1>6, <2>1, Fixed DEF KernelOK, Active
  <2> QED BY <1>0, <2>2, KernelOthers
<1> QED BY <1>4, <1>5, <1>6 DEF Active

-----------------------------------------------------------------------------
(* low_latency_buffer_idx follows the calls.                                *)
LEMMA IdxWithin ==
  ASSUME IdxInv, NEW r \in Rank, Alone(r), Pos(r)' = Pos(r), kernel'[r].idx = kernel[r].idx
  PROVE  IdxInv'
<1>1. run' = run /\ \A x \in Rank : Pos(x)' = Pos(x) /\ kernel'[x].idx = kernel[x].idx
  BY DEF Alone, Pos
<1> QED BY <1>1, Fixed DEF IdxInv

(* The next call uses the other buffer, if it uses one.                     *)
LEMMA IdxLeaves ==
  ASSUME Shape, IdxInv, NEW r \in Rank, Leaves(r), Pos(r) \in 1 .. NumCalls
  PROVE  IdxInv'
<1>1. PICK n \in Nat \ {0} : n = Pos(r)
  BY KernelTypes
<1>2. run' = run /\ \A x \in Rank : x # r => Pos(x)' = Pos(x) /\ kernel'[x].idx = kernel[x].idx
  BY DEF Leaves, Alone, Pos
<1>3. /\ Pos(r)' = n + 1
      /\ kernel'[r].idx = (IF Active(n + 1) THEN 1 - kernel[r].idx ELSE kernel[r].idx)
  BY <1>1, LeaveFacts
<1>4. kernel[r].idx = IF Active(n) THEN 1 - Side(n) ELSE Side(n)
  BY <1>1 DEF IdxInv
<1>5. /\ Side(n) \in {0, 1} /\ Side(n + 1) \in {0, 1}
      /\ Active(n) => Side(n + 1) = 1 - Side(n)
      /\ ~Active(n) => Side(n + 1) = Side(n)
  BY SideFacts
<1>6. kernel'[r].idx = IF Active(n + 1) THEN 1 - Side(n + 1) ELSE Side(n + 1)
  BY <1>3, <1>4, <1>5
<1> QED BY <1>2, <1>3, <1>6, Fixed DEF IdxInv

(* So a call uses its side, and cleans the other.                           *)
LEMMA BufFacts ==
  ASSUME Shape, IdxInv, NEW r \in Rank, Active(Pos(r))
  PROVE  /\ Buf(r) = Side(Pos(r)) /\ NextBuf(r) = 1 - Side(Pos(r))
         /\ Side(Pos(r)) \in {0, 1} /\ Side(Pos(r) + 1) = 1 - Side(Pos(r))
<1>1. Pos(r) \in Nat \ {0}
  BY KernelTypes
<1>2. PICK n \in Nat \ {0} : n = Pos(r)
  BY <1>1
<1>3. Side(n) \in {0, 1} /\ Side(n + 1) = 1 - Side(n)
  BY <1>2, SideFacts
<1>4. kernel[r].idx = 1 - Side(n)
  BY <1>2 DEF IdxInv
<1> QED BY <1>2, <1>3, <1>4 DEF Buf, NextBuf

-----------------------------------------------------------------------------
(* The barriers.                                                            *)
StillMet == \A x \in Rank :
  /\ Pos(x)' = Pos(x) /\ kernel'[x].round = kernel[x].round /\ kernel'[x].met = kernel[x].met

(* Steps of dispatch and combine meet nobody.                               *)
LEMMA BecomesStill ==
  ASSUME NEW r \in Rank, NEW cleaned, NEW todo, NEW finish, NEW step,
         Becomes(r, cleaned, todo, finish, step, kernel[r].round, kernel[r].met)
  PROVE  StillMet
BY BecomesFacts DEF StillMet, Alone, Pos

(* The barriers stand as before.                                            *)
LEMMA MetStill ==
  ASSUME MetInv, EnterInv, run' = run, StillMet, \A x \in Rank : sync'[x][x] = sync[x][x]
  PROVE  MetInv' /\ EnterInv'
<1>1. MetInv'
  BY DEF MetInv, StillMet
<1>2. \A x \in Rank : Entered(x)' = Entered(x)
  BY Fixed DEF Entered, StillMet
<1>3. EnterInv'
  BY <1>2 DEF EnterInv, StillMet
<1> QED BY <1>1, <1>3

(* A rank that goes on has entered no barrier of its new call.              *)
LEMMA MetLeaves ==
  ASSUME Shape, MetInv, EnterInv, NEW r \in Rank, Leaves(r), Over(r), sync' = sync
  PROVE  MetInv' /\ EnterInv'
<1>0. run' = run /\ r \in Rank /\ Pos(r) \in 1 .. NumCalls
  BY DEF Leaves, Alone, Over
<1>1. PICK n \in Nat \ {0} : n = Pos(r)
  BY KernelTypes
<1>2. /\ Pos(r)' = n + 1 /\ kernel'[r].round = 1 /\ \A q \in Rank : kernel'[r].met[q] = "enter"
  BY <1>0, <1>1, LeaveFacts
<1>3. \A x \in Rank : x # r => kernel'[x] = kernel[x]
  BY DEF Leaves, Alone
<1>4. MetInv'
  BY <1>2, <1>3 DEF MetInv
<1>5. \A x \in Rank : x # r => Entered(x)' = Entered(x)
  BY <1>0, <1>3, SameKernel
<1>6. Cleans(n) \in Nat
        /\ Cleans(n + 1) = IF KindOf(n) = "clean" THEN Cleans(n) + 1 ELSE Cleans(n)
  BY SideFacts
<1>7. Entered(r)' = 2 * Cleans(n + 1)
  BY <1>0, <1>2, <1>6, Fixed DEF Entered
<1>8. KindOf(n) = "clean" \/ Active(n)
  BY <1>0, <1>1, KindFacts DEF Active
<1>9. Entered(r) = 2 * Cleans(n + 1)
  <2>1. CASE Active(n)
    BY <1>1, <1>6, <2>1 DEF Entered, Active
  <2>2. CASE KindOf(n) = "clean"
    <3>1. kernel[r].round = 2 /\ kernel[r].met[r] = "met"
      BY <1>1, <2>2 DEF Over, Active
    <3> QED BY <1>1, <1>6, <2>2, <3>1 DEF Entered
  <2> QED BY <1>8, <2>1, <2>2
<1>10. \A x \in Rank : Entered(x)' = Entered(x)
  BY <1>5, <1>7, <1>9
<1>11. EnterInv'
  BY <1>0, <1>2, <1>3, <1>10 DEF EnterInv
<1> QED BY <1>4, <1>11

(* A rank at a clean with a mask buffer is at the end.                      *)
LEMMA CleanAtEnd ==
  ASSUME Shape, CleansLast, NEW r \in Rank, In(r, "clean"), run.shrink
  PROVE  AtEnd(r)
<1>1. Pos(r) \in 1 .. NumCalls /\ NumCalls \in Nat /\ run \in Runs /\ KindOf(Pos(r)) = "clean"
  BY KindFacts, KernelTypes DEF In, Shape, Pos
<1>2. Pos(r) = NumCalls
  BY <1>1, RunFacts
<1> QED BY <1>1, <1>2 DEF AtEnd, LastClean

(* Who is at the end stays there.                                           *)
LEMMA AtEndKept ==
  ASSUME Shape, NEW x \in Rank, run' = run, Pos(x)' = Pos(x) \/ Pos(x)' = Pos(x) + 1
  PROVE  AtEnd(x) => AtEnd(x)'
<1>1. Pos(x) \in Nat /\ NumCalls \in Nat
  BY KernelTypes
<1> QED BY <1>1, Fixed, FixedToo DEF AtEnd

-----------------------------------------------------------------------------
(* The counts of the barrier of shrink mode, and the masks.                 *)
LEMMA SyncKept ==
  ASSUME SyncInv, run' = run, sync' = sync,
         \A x \in Rank : AtEnd(x) => AtEnd(x)',
         \A x \in Rank : kernel'[x].met[x] = "met" => kernel[x].met[x] = "met",
         \A x, q \in Rank, l \in Local : NoSync(wire[x][q][l]) => NoSync(wire'[x][q][l])
  PROVE  SyncInv'
BY Fixed DEF SyncInv, NoSync

(* The masks, when only the silent are added.                               *)
LEMMA MaskKept ==
  ASSUME MaskInv, run' = run, dead \subseteq dead',
         \A x \in Rank : AtEnd(x) => AtEnd(x)',
         \A s \in dead, d \in Rank : Quiet(s, d) => Quiet(s, d)',
         \A x \in Rank : \A q \in mask'[x] :
           q \in mask[x] \/ (q \in dead /\ Quiet(q, x)) \/ (AtEnd(x) /\ AtEnd(q))
  PROVE  MaskInv'
BY DEF MaskInv

(* Who does not answer a rank that uses a buffer is dead.                   *)
LEMMA GivenUpDead ==
  ASSUME Shape, MaskInv, NEW r \in Rank \ dead, Active(Pos(r)), NEW q \in Rank, GivenUp(r, q)
  PROVE  q \in dead /\ Quiet(q, r)
<1>1. ~AtEnd(r)
  BY ActiveNotAtEnd
<1> QED BY <1>1 DEF GivenUp, Masked, MaskInv

(* What the steps of a barrier have in common.                              *)
Meets(r, round, m) ==
  /\ Becomes(r, kernel[r].cleaned, kernel[r].todo, kernel[r].finish, kernel[r].step, round, m)
  /\ kernel' = [x \in Rank |-> kernel'[x]]
  /\ counter' = counter /\ layout' = layout

(* A barrier moves neither the buffers nor the distance of the ranks.       *)
LEMMA MeetsKeep ==
  ASSUME Shape, KernelInv, IdxInv, PosInv, NEW r \in Rank, NEW round \in {1, 2},
         NEW m \in [Rank -> {"enter", "tell", "wait", "met"}],
         ~Active(Pos(r)), Meets(r, round, m),
         kernel[r].round = 2 => round = 2,
         kernel[r].round = 2 /\ kernel[r].met[r] # "enter" => m[r] # "enter"
  PROVE  Within(r) /\ kernel' \in [Rank -> Kernels'] /\ KernelInv' /\ IdxInv' /\ PosInv'
<1>1. /\ kernel[r].cleaned \in BOOLEAN /\ kernel[r].todo \in SUBSET Items
      /\ kernel[r].finish \in [Expert -> Int] /\ kernel[r].step \in [Expert -> Steps]
  BY KernelTypes
<1>2. Becomes(r, kernel[r].cleaned, kernel[r].todo, kernel[r].finish, kernel[r].step, round, m)
  BY DEF Meets
<1>3. /\ Alone(r) /\ run' = run /\ Pos(r)' = Pos(r)
      /\ kernel'[r].idx = kernel[r].idx /\ kernel'[r].cleaned = kernel[r].cleaned
      /\ kernel'[r].todo = kernel[r].todo /\ kernel'[r].finish = kernel[r].finish
      /\ kernel'[r].step = kernel[r].step
      /\ kernel'[r].round = round /\ kernel'[r].met = m
  BY <1>2, BecomesFacts
<1>4. kernel' \in [Rank -> Kernels']
  <2>1. kernel' = [x \in Rank |-> kernel'[x]]
    BY DEF Meets
  <2>2. kernel[r].call \in 1 .. NumCalls + 1 /\ kernel[r].idx \in {0, 1}
    BY DEF Shape, Kernels
  <2>3. kernel'[r] \in Kernels
    BY <1>1, <1>2, <2>2 DEF Becomes, Kernels
  <2> QED BY <1>3, <2>1, <2>3, KernelsKept
<1>5. Within(r)
  BY <1>3, Fixed DEF Within, Step
<1>6. PosInv'
  BY <1>5, PosWithin
<1>7. IdxInv'
  BY <1>3, IdxWithin
<1>8. counter' = counter /\ layout' = layout
  BY DEF Meets
<1>9. KernelOK(r)' <=> KernelOK(r)
  BY <1>3, <1>8, KernelSame
<1>10. KernelInv'
  BY <1>3, <1>8, <1>9, KernelOthers DEF KernelInv
<1> QED BY <1>4, <1>5, <1>6, <1>7, <1>10

(* met as a step of one thread leaves it.                                   *)
LEMMA MetOther ==
  ASSUME Shape, MetInv, EnterInv, run.shrink, NEW r \in Rank, NEW q \in Rank,
         NEW v \in {"wait", "met"},
         kernel[r].met[q] \in {"tell", "wait"},
         Meets(r, kernel[r].round, [kernel[r].met EXCEPT ![q] = v])
  PROVE  /\ q # r /\ kernel'[r].met[r] = kernel[r].met[r] /\ kernel[r].met[r] = "met"
         /\ [kernel[r].met EXCEPT ![q] = v] \in [Rank -> {"enter", "tell", "wait", "met"}]
         /\ [kernel[r].met EXCEPT ![q] = v][r] = kernel[r].met[r]
         /\ MetInv' /\ EnterInv'
<1>1. kernel[r].met \in [Rank -> {"enter", "tell", "wait", "met"}]
  BY KernelTypes
<1>2. q # r /\ kernel[r].met[r] = "met"
  BY DEF MetInv
<1>3. /\ [kernel[r].met EXCEPT ![q] = v] \in [Rank -> {"enter", "tell", "wait", "met"}]
      /\ [kernel[r].met EXCEPT ![q] = v][r] = kernel[r].met[r]
  BY <1>1, <1>2
<1>4. Alone(r) /\ kernel'[r].met = [kernel[r].met EXCEPT ![q] = v]
  BY BecomesFacts DEF Meets
<1>5. MetInv'
  BY <1>2, <1>3, <1>4 DEF MetInv, Alone
<1>6. EnterInv'
  BY <1>4 DEF EnterInv, Alone
<1> QED BY <1>2, <1>3, <1>4, <1>5, <1>6

(* A rank at a clean.                                                       *)
LEMMA CleanFacts ==
  ASSUME Shape, NEW r \in Rank, In(r, "clean")
  PROVE  /\ r \notin dead /\ ~Active(Pos(r)) /\ KindOf(Pos(r)) = "clean"
         /\ Pos(r) \in 1 .. NumCalls /\ run \in Runs
BY KindFacts DEF In, Active, Pos, Shape

(* The count of a peer, or the timeout.                                     *)
LEMMA HeardPeerStep ==
  ASSUME Shape, MetInv, EnterInv, NEW r \in Rank, NEW q \in Rank,
         HeardPeer(r, q) \/ PeerTimeout(r, q)
  PROVE  /\ In(r, "clean") /\ run.shrink /\ run' = run /\ dead' = dead
         /\ Meets(r, kernel[r].round, [kernel[r].met EXCEPT ![q] = "met"])
         /\ kernel[r].met[q] = "wait"
<1>1. /\ In(r, "clean") /\ run.shrink /\ run' = run /\ dead' = dead
      /\ kernel[r].met[q] = "wait" /\ counter' = counter /\ layout' = layout
      /\ kernel' = [kernel EXCEPT ![r].met[q] = "met"]
  BY DEF HeardPeer, PeerTimeout, outputs
<1>2. kernel' = [kernel EXCEPT ![r].met = [kernel[r].met EXCEPT ![q] = "met"]]
  BY <1>1
<1>3. kernel' = [x \in Rank |-> kernel'[x]]
  BY <1>2 DEF Shape
<1>4. Becomes(r, kernel[r].cleaned, kernel[r].todo, kernel[r].finish, kernel[r].step,
              kernel[r].round, [kernel[r].met EXCEPT ![q] = "met"])
  BY <1>1, <1>2, MeetStep
<1> QED BY <1>1, <1>3, <1>4 DEF Meets

(* A peer is told.                                                          *)
LEMMA TellPeerStep ==
  ASSUME Shape, MetInv, EnterInv, NEW r \in Rank, NEW q \in Rank, TellPeer(r, q)
  PROVE  /\ In(r, "clean") /\ run.shrink /\ run' = run /\ dead' = dead
         /\ \E v \in {"wait", "met"} :
              Meets(r, kernel[r].round, [kernel[r].met EXCEPT ![q] = v])
         /\ kernel[r].met[q] = "tell"
<1>1. /\ In(r, "clean") /\ run.shrink /\ run' = run /\ dead' = dead
      /\ kernel[r].met[q] = "tell" /\ counter' = counter /\ layout' = layout
  BY DEF TellPeer, outputs
<1>2. PICK v \in {"wait", "met"} : kernel' = [kernel EXCEPT ![r].met[q] = v]
  BY DEF TellPeer
<1>3. kernel' = [kernel EXCEPT ![r].met = [kernel[r].met EXCEPT ![q] = v]]
  BY <1>2
<1>4. kernel' = [x \in Rank |-> kernel'[x]]
  BY <1>3 DEF Shape
<1>5. Becomes(r, kernel[r].cleaned, kernel[r].todo, kernel[r].finish, kernel[r].step,
              kernel[r].round, [kernel[r].met EXCEPT ![q] = v])
  BY <1>1, <1>3, MeetStep
<1> QED BY <1>1, <1>4, <1>5 DEF Meets

(* Entering.                                                                *)
OthersToTell(r) == [q \in Rank |-> IF q = r THEN "met" ELSE "tell"]

(* A rank has entered one barrier more, and counts it.                      *)
LEMMA EnterBarrierStep ==
  ASSUME Shape, MetInv, EnterInv, NEW r \in Rank, EnterBarrier(r)
  PROVE  /\ In(r, "clean") /\ run' = run /\ dead' = dead
         /\ Meets(r, kernel[r].round, OthersToTell(r))
         /\ kernel[r].met[r] = "enter"
         /\ OthersToTell(r) \in [Rank -> {"enter", "tell", "wait", "met"}]
              /\ OthersToTell(r)[r] = "met"
         /\ MetInv' /\ EnterInv'
<1>1. /\ In(r, "clean") /\ run' = run /\ dead' = dead /\ counter' = counter /\ layout' = layout
      /\ kernel' = [kernel EXCEPT ![r].met = OthersToTell(r)]
      /\ \A q \in Rank : kernel[r].met[q] = "enter"
      /\ sync' = [sync EXCEPT ![r][r] = @ - 1]
  BY DEF EnterBarrier, outputs, OthersToTell
<1>2. /\ OthersToTell(r) \in [Rank -> {"enter", "tell", "wait", "met"}]
      /\ \A q \in Rank : OthersToTell(r)[q] = IF q = r THEN "met" ELSE "tell"
  BY DEF OthersToTell
<1> HIDE DEF OthersToTell
<1>3. kernel' = [x \in Rank |-> kernel'[x]]
  BY <1>1 DEF Shape
<1>4. Becomes(r, kernel[r].cleaned, kernel[r].todo, kernel[r].finish, kernel[r].step,
              kernel[r].round, OthersToTell(r))
  BY <1>1, MeetStep
<1>5. Alone(r) /\ Pos(r)' = Pos(r) /\ kernel'[r].met = OthersToTell(r)
        /\ kernel'[r].round = kernel[r].round
  BY <1>4, BecomesFacts
<1>6. MetInv'
  BY <1>2, <1>5 DEF MetInv, Alone
<1>7. /\ sync'[r][r] = sync[r][r] - 1
      /\ \A x \in Rank : x # r => sync'[x][x] = sync[x][x]
  BY <1>1 DEF Shape
<1>8. \A x \in Rank : x # r => kernel'[x] = kernel[x] /\ Entered(x)' = Entered(x)
  BY <1>1, <1>5, SameKernel DEF Alone
<1>9. Entered(r) \in Int /\ Entered(r)' = Entered(r) + 1
  <2>1. KindOf(Pos(r)) = "clean" /\ Pos(r) \in Nat \ {0} /\ kernel[r].round \in {1, 2}
    BY <1>1, CleanFacts, KernelTypes
  <2>2. PICK n \in Nat \ {0} : n = Pos(r)
    BY <2>1
  <2>3. Cleans(n) \in Nat
    BY SideFacts
  <2>4. Entered(r) = 2 * Cleans(n) + ((kernel[r].round - 1) + 0)
    BY <1>1, <2>1, <2>2 DEF Entered
  <2>5. Entered(r)' = 2 * Cleans(n) + ((kernel[r].round - 1) + 1)
    BY <1>1, <1>2, <1>5, <2>1, <2>2, Fixed DEF Entered
  <2> QED BY <2>1, <2>3, <2>4, <2>5
<1>10. EnterInv'
  <2> SUFFICES ASSUME ~run.shrink, NEW x \in Rank
               PROVE  /\ sync'[x][x] = -Entered(x)'
                      /\ (\A q \in Rank : kernel'[x].met[q] = "met")
                            => \A q \in Rank : Entered(q)' >= Entered(x)'
    BY <1>1 DEF EnterInv
  <2>1. \A y \in Rank : Entered(y) \in Int
    <3>1. \A y \in Rank : sync[y][y] = -Entered(y) /\ sync[y][y] \in Int /\ Pos(y) \in Nat \ {0}
            /\ kernel[y].round \in {1, 2}
      BY KernelTypes DEF EnterInv, Shape
    <3> SUFFICES ASSUME NEW y \in Rank PROVE Entered(y) \in Int
      OBVIOUS
    <3>2. PICK n \in Nat \ {0} : n = Pos(y)
      BY <3>1
    <3>3. Cleans(n) \in Nat
      BY SideFacts
    <3>4. kernel[y].round \in {1, 2}
      BY <3>1
    <3>5. CASE KindOf(n) = "clean" /\ kernel[y].met[y] = "enter"
      BY <3>2, <3>3, <3>4, <3>5 DEF Entered
    <3>6. CASE KindOf(n) = "clean" /\ kernel[y].met[y] # "enter"
      BY <3>2, <3>3, <3>4, <3>6 DEF Entered
    <3>7. CASE KindOf(n) # "clean"
      BY <3>2, <3>3, <3>7 DEF Entered
    <3> QED BY <3>5, <3>6, <3>7
  <2>2. /\ sync[x][x] = -Entered(x)
        /\ (\A q \in Rank : kernel[x].met[q] = "met") => \A q \in Rank :
             Entered(q) >= Entered(x)
    BY DEF EnterInv
  <2>3. CASE x = r
    <3>1. sync'[r][r] = -Entered(r)'
      BY <1>7, <1>9, <2>2, <2>3
    <3>2. (\A q \in Rank : kernel'[r].met[q] = "met") => Rank = {r}
      BY <1>2, <1>5
    <3> QED BY <1>9, <2>3, <3>1, <3>2
  <2>4. CASE x # r
    <3>1. sync'[x][x] = -Entered(x)'
      BY <1>7, <1>8, <2>2, <2>4
    <3>2. \A q \in Rank : Entered(q) >= Entered(x) => Entered(q)' >= Entered(x)'
      BY <1>8, <1>9, <2>1, <2>4
    <3> QED BY <1>8, <2>2, <2>4, <3>1, <3>2
  <2> QED BY <2>3, <2>4
<1> QED BY <1>1, <1>2, <1>3, <1>4, <1>6, <1>10 DEF Meets

(* Leaving NVSHMEM's barrier.                                               *)
AllMet == [q \in Rank |-> "met"]

(* Who leaves it knows that all have entered.                               *)
LEMMA NvshmemBarrierStep ==
  ASSUME Shape, MetInv, EnterInv, NEW r \in Rank, NvshmemBarrier(r)
  PROVE  /\ In(r, "clean") /\ ~run.shrink /\ run' = run /\ dead' = dead
         /\ Meets(r, kernel[r].round, AllMet)
         /\ AllMet \in [Rank -> {"enter", "tell", "wait", "met"}] /\ AllMet[r] = "met"
         /\ MetInv' /\ EnterInv'
<1>1. /\ In(r, "clean") /\ ~run.shrink /\ run' = run /\ dead' = dead
      /\ counter' = counter /\ layout' = layout /\ sync' = sync
      /\ kernel' = [kernel EXCEPT ![r].met = AllMet]
      /\ \E q \in Rank : kernel[r].met[q] = "tell"
      /\ \A q \in Rank : sync[q][q] <= sync[r][r]
  BY DEF NvshmemBarrier, outputs, AllMet
<1>2. /\ AllMet \in [Rank -> {"enter", "tell", "wait", "met"}] /\ \A q \in Rank :
           AllMet[q] = "met"
  BY DEF AllMet
<1> HIDE DEF AllMet
<1>3. kernel' = [x \in Rank |-> kernel'[x]]
  BY <1>1 DEF Shape
<1>4. Becomes(r, kernel[r].cleaned, kernel[r].todo, kernel[r].finish, kernel[r].step,
              kernel[r].round, AllMet)
  BY <1>1, MeetStep
<1>5. Alone(r) /\ Pos(r)' = Pos(r) /\ kernel'[r].met = AllMet
        /\ kernel'[r].round = kernel[r].round
  BY <1>4, BecomesFacts
<1>6. MetInv'
  BY <1>2, <1>5 DEF MetInv, Alone
<1>7. kernel[r].met[r] = "met"
  BY <1>1 DEF MetInv
<1>8. \A x \in Rank : Entered(x)' = Entered(x)
  <2>1. \A x \in Rank : x # r => Entered(x)' = Entered(x)
    BY <1>1, <1>5, SameKernel DEF Alone
  <2>2. Entered(r)' = Entered(r)
    BY <1>1, <1>2, <1>5, <1>7, Fixed DEF Entered
  <2> QED BY <2>1, <2>2
<1>9. EnterInv'
  <2>1. \A q \in Rank : Entered(q) >= Entered(r)
    <3> SUFFICES ASSUME NEW q \in Rank PROVE Entered(q) >= Entered(r)
      OBVIOUS
    <3>1. /\ sync[q][q] = -Entered(q) /\ sync[r][r] = -Entered(r)
          /\ sync[q][q] \in Int /\ sync[r][r] \in Int /\ sync[q][q] <= sync[r][r]
      BY <1>1 DEF EnterInv, Shape
    <3>2. \A y \in {q, r} : Entered(y) \in Int
      <4> SUFFICES ASSUME NEW y \in Rank PROVE Entered(y) \in Int
        OBVIOUS
      <4>1. PICK n \in Nat \ {0} : n = Pos(y)
        BY KernelTypes
      <4>2. Cleans(n) \in Nat /\ kernel[y].round \in {1, 2}
        BY SideFacts, KernelTypes
      <4>3. CASE KindOf(n) = "clean" /\ kernel[y].met[y] = "enter"
        BY <4>1, <4>2, <4>3 DEF Entered
      <4>4. CASE KindOf(n) = "clean" /\ kernel[y].met[y] # "enter"
        BY <4>1, <4>2, <4>4 DEF Entered
      <4>5. CASE KindOf(n) # "clean"
        BY <4>1, <4>2, <4>5 DEF Entered
      <4> QED BY <4>3, <4>4, <4>5
    <3> QED BY <3>1, <3>2
  <2> QED BY <1>1, <1>5, <1>8, <2>1 DEF EnterInv, Alone
<1> QED BY <1>1, <1>2, <1>3, <1>4, <1>6, <1>9 DEF Meets

(* The first barrier is over.                                               *)
LEMMA AfterFirstStep ==
  ASSUME Shape, MetInv, EnterInv, NEW r \in Rank, AfterBarrier(r), kernel[r].round = 1
  PROVE  /\ In(r, "clean") /\ run' = run /\ dead' = dead
         /\ Meets(r, 2, Unmet) /\ sync' = sync
         /\ Unmet \in [Rank -> {"enter", "tell", "wait", "met"}]
         /\ word' = [word EXCEPT ![r] = [b \in {0, 1} |-> [i \in Expert |-> 0]]]
         /\ MetInv' /\ EnterInv'
<1>1. /\ In(r, "clean") /\ run' = run /\ dead' = dead
      /\ counter' = counter /\ layout' = layout /\ sync' = sync
      /\ kernel' = [kernel EXCEPT ![r].round = 2, ![r].met = Unmet]
      /\ \A q \in Rank : kernel[r].met[q] = "met"
      /\ word' = [word EXCEPT ![r] = [b \in {0, 1} |-> [i \in Expert |-> 0]]]
  BY DEF AfterBarrier, outputs, Unmet
<1>2. Unmet \in [Rank -> {"enter", "tell", "wait", "met"}] /\ \A q \in Rank : Unmet[q] = "enter"
  BY DEF Unmet
<1> HIDE DEF Unmet
<1>3. kernel' = [x \in Rank |-> kernel'[x]]
  BY <1>1 DEF Shape
<1>4. Becomes(r, kernel[r].cleaned, kernel[r].todo, kernel[r].finish, kernel[r].step, 2, Unmet)
  BY <1>1, RoundStep
<1>5. Alone(r) /\ Pos(r)' = Pos(r) /\ kernel'[r].met = Unmet /\ kernel'[r].round = 2
  BY <1>4, BecomesFacts
<1>6. MetInv'
  BY <1>2, <1>5 DEF MetInv, Alone
<1>7. KindOf(Pos(r)) = "clean"
  BY <1>1, CleanFacts
<1>8. \A x \in Rank : Entered(x)' = Entered(x)
  <2>1. \A x \in Rank : x # r => Entered(x)' = Entered(x)
    BY <1>1, <1>5, SameKernel DEF Alone
  <2>2. Entered(r)' = Entered(r)
    BY <1>1, <1>2, <1>5, <1>7, Fixed DEF Entered
  <2> QED BY <2>1, <2>2
<1>9. EnterInv'
  <2> SUFFICES ASSUME ~run.shrink, NEW x \in Rank
               PROVE  /\ sync'[x][x] = -Entered(x)'
                      /\ (\A q \in Rank : kernel'[x].met[q] = "met")
                            => \A q \in Rank : Entered(q)' >= Entered(x)'
    BY <1>1 DEF EnterInv
  <2>1. CASE x = r
    BY <1>1, <1>2, <1>5, <1>8, <2>1 DEF EnterInv
  <2>2. CASE x # r
    BY <1>1, <1>5, <1>8, <2>2 DEF EnterInv, Alone
  <2> QED BY <2>1, <2>2
<1> QED BY <1>1, <1>2, <1>3, <1>4, <1>6, <1>9 DEF Meets

(***************************************************************************)
(* Frames: what is said of a channel depends on the memory, on how far its *)
(* sender is, and on what its receiver expects.                            *)
(***************************************************************************)
ToldSame == \A s, d \in Rank, q \in Local, m \in 1 .. NumCalls :
  Active(m) => (Told(s, d, q, m)' <=> Told(s, d, q, m))
ReadySame == \A d \in Rank, m \in 1 .. NumCalls :
  Active(m) /\ Ready(d, m)' => Ready(d, m)
RowsSame(s, d, q, m) ==
  /\ KindOf(m) = "dispatch" => Slots(s, d, q, m)' = Slots(s, d, q, m)
  /\ \A t : TokenSent(s, d, q, m, t)' <=> TokenSent(s, d, q, m, t)
  /\ KindOf(m) = "combine" => \A t : BackSent(s, d, q, m, t)' <=> BackSent(s, d, q, m, t)
Handed(s, m) == KindOf(m) = "combine" =>
  layout'[s][Handle(m)] = layout[s][Handle(m)] /\ rows'[s][Handle(m)] = rows[s][Handle(m)]
Retained(r) == \A x \in Rank, n \in 1 .. NumCalls : x # r \/ n # Pos(r) =>
  layout'[x][n] = layout[x][n] /\ rows'[x][n] = rows[x][n]

(* A handle is of an earlier call, and stays.                               *)
LEMMA HandedKept ==
  ASSUME Shape, NEW r \in Rank, Retained(r), NEW s \in Rank, NEW m \in 1 .. NumCalls,
         m <= Pos(s)
  PROVE  Handed(s, m)
<1> SUFFICES ASSUME KindOf(m) = "combine"
             PROVE  /\ layout'[s][Handle(m)] = layout[s][Handle(m)]
                    /\ rows'[s][Handle(m)] = rows[s][Handle(m)]
  BY DEF Handed
<1>1. run \in Runs /\ NumCalls \in Nat /\ Pos(s) \in Nat
  BY KernelTypes DEF Shape
<1>2. Handle(m) \in 1 .. m - 1
  BY <1>1, RunFacts
<1>3. Handle(m) \in 1 .. NumCalls /\ Handle(m) # Pos(s)
  BY <1>1, <1>2
<1> QED BY <1>3 DEF Retained

(* A sender that has done nothing about the rows.                           *)
LEMMA RowsUntouched ==
  ASSUME run' = run, NEW s, NEW d, NEW q, NEW m,
         Pos(s)' = Pos(s), kernel'[s].todo = kernel[s].todo,
         KindOf(Pos(s)) = "dispatch" => counter'[s] = counter[s],
         Step(s, d, q)' = "send" <=> Step(s, d, q) = "send", Handed(s, m)
  PROVE  RowsSame(s, d, q, m)
<1>1. ASSUME KindOf(m) = "dispatch" PROVE Slots(s, d, q, m)' = Slots(s, d, q, m)
  BY <1>1, Fixed DEF Slots
<1>2. \A t : TokenSent(s, d, q, m, t)' <=> TokenSent(s, d, q, m, t)
  BY Fixed DEF TokenSent
<1>3. ASSUME KindOf(m) = "combine", NEW t
      PROVE  BackSent(s, d, q, m, t)' <=> BackSent(s, d, q, m, t)
  BY <1>3, Fixed DEF BackSent, Handed, Extent, RowAt
<1> QED BY <1>1, <1>2, <1>3 DEF RowsSame

(* The rows that a channel has to hold, place by place.                     *)
Expected(s, d, q, m, P, row) ==
  \/ KindOf(m) = "dispatch" /\ \E k \in 0 .. Slots(s, d, q, m) - 1, t \in Tokens(m, s, d, q) :
       P = Slot(q, s, k) /\ row = <<m, s, t>>
  \/ KindOf(m) = "combine" /\ \E t \in BackTokens(s, d, q, m) :
       P = Back(s, q, t) /\ row = BackRow(s, d, q, m, t)
HoldsKept(s, d, q, m) == \A P, row :
  Expected(s, d, q, m, P, row) /\ Holds(s, d, q, m, P, row) => Holds(s, d, q, m, P, row)'

(* The rows of a channel, when what they depend on stays.                   *)
LEMMA RowsKept ==
  ASSUME run' = run, NEW s, NEW d, NEW q, NEW m, RowsOK(s, d, q, m), HoldsKept(s, d, q, m),
         KindOf(m) = "dispatch" => Slots(s, d, q, m)' = Slots(s, d, q, m),
         \A t : TokenSent(s, d, q, m, t)' <=> TokenSent(s, d, q, m, t),
         KindOf(m) = "combine" => \A t : BackSent(s, d, q, m, t)' => BackSent(s, d, q, m, t)
  PROVE  RowsOK(s, d, q, m)'
<1>1. ASSUME KindOf(m) = "dispatch" PROVE DispatchRows(s, d, q, m)'
  <2>1. DispatchRows(s, d, q, m)
    BY <1>1 DEF RowsOK
  <2>2. \A k \in 0 .. Slots(s, d, q, m) - 1, t \in Tokens(m, s, d, q) :
          Holds(s, d, q, m, Slot(q, s, k), <<m, s, t>>) =>
            Holds(s, d, q, m, Slot(q, s, k), <<m, s, t>>)'
    BY <1>1 DEF HoldsKept, Expected
  <2>3. \A k : Slot(q, s, k)' = Slot(q, s, k)
    BY DEF Slot
  <2>4. ASSUME NEW k \in 0 .. Slots(s, d, q, m) - 1
        PROVE  \E t \in Tokens(m, s, d, q) :
                 TokenSent(s, d, q, m, t)' /\ Holds(s, d, q, m, Slot(q, s, k), <<m, s, t>>)'
    BY <2>1, <2>2, <2>4 DEF DispatchRows
  <2>5. ASSUME NEW t \in Tokens(m, s, d, q), TokenSent(s, d, q, m, t)'
        PROVE  \E k \in 0 .. Slots(s, d, q, m) - 1 :
                 Holds(s, d, q, m, Slot(q, s, k), <<m, s, t>>)'
    BY <2>1, <2>2, <2>5 DEF DispatchRows
  <2> QED BY <1>1, <2>3, <2>4, <2>5, Fixed DEF DispatchRows
<1>2. ASSUME KindOf(m) = "combine" PROVE CombineRows(s, d, q, m)'
  <2>1. CombineRows(s, d, q, m)
    BY <1>2 DEF RowsOK
  <2>4. /\ BackTokens(s, d, q, m)' = BackTokens(s, d, q, m)
        /\ \A t : Back(s, q, t)' = Back(s, q, t)
             /\ BackRow(s, d, q, m, t)' = BackRow(s, d, q, m, t)
    BY FixedToo
  <2>2. \A t \in BackTokens(s, d, q, m) :
          Holds(s, d, q, m, Back(s, q, t), BackRow(s, d, q, m, t)) =>
            Holds(s, d, q, m, Back(s, q, t), BackRow(s, d, q, m, t))'
    BY <1>2, <2>4 DEF HoldsKept, Expected
  <2>3. ASSUME NEW t \in BackTokens(s, d, q, m), BackSent(s, d, q, m, t)'
        PROVE  Holds(s, d, q, m, Back(s, q, t), BackRow(s, d, q, m, t))'
    BY <1>2, <2>1, <2>2, <2>3 DEF CombineRows
  <2> QED BY <2>3, <2>4 DEF CombineRows
<1> QED BY <1>1, <1>2, Fixed DEF RowsOK

(* Nothing moves in the memory of a channel.                                *)
LEMMA MemorySame ==
  ASSUME run' = run, NEW s, NEW d, NEW q, NEW m,
         wire'[s][d][q] = wire[s][d][q], staged'[s][Side(m)] = staged[s][Side(m)],
         region'[d][Side(m)] = region[d][Side(m)]
  PROVE  HoldsKept(s, d, q, m)
BY Fixed DEF HoldsKept, Holds

(* A message stays one of its call.                                         *)
LEMMA MsgKept ==
  ASSUME run' = run, NEW s, NEW d, NEW q, NEW m, NEW x, IsMsg(s, d, q, m, x),
         m <= Pos(s)', Handed(s, m),
         KindOf(m) = "dispatch" =>
           \A k \in 0 .. Slots(s, d, q, m) - 1 : k \in 0 .. Slots(s, d, q, m)' - 1,
         x.kind = "row" => \A row : <<x.from, row>> \in staged[s][Side(m)]
                                       => <<x.from, row>> \in staged'[s][Side(m)]
  PROVE  IsMsg(s, d, q, m, x)'
<1>1. ASSUME x.kind = "row", KindOf(m) = "dispatch"
      PROVE  /\ \E k \in 0 .. Slots(s, d, q, m)' - 1 : x.place = Slot(q, s, k)
             /\ \E t \in 0 .. MaxTokens - 1 :
                  x.from = <<"dispatch", t>> /\ <<x.from, <<m, s, t>>>> \in staged'[s][Side(m)]
  BY <1>1 DEF IsMsg, RowOf
<1>2. ASSUME x.kind = "row", KindOf(m) = "combine"
      PROVE  \E t \in 0 .. MaxTokens - 1, p \in Row :
         /\ x.place = Back(s, q, t) /\ x.from = <<"combine", q, p>>
         /\ RowAt(s, Handle(m), d, q, p, t)'
         /\ <<x.from, BackRow(s, d, q, m, t)>> \in staged'[s][Side(m)]
  <2>1. PICK t \in 0 .. MaxTokens - 1, p \in Row :
         /\ x.place = Back(s, q, t) /\ x.from = <<"combine", q, p>>
         /\ RowAt(s, Handle(m), d, q, p, t)
         /\ <<x.from, BackRow(s, d, q, m, t)>> \in staged[s][Side(m)]
    BY <1>2 DEF IsMsg, RowOf
  <2>2. RowAt(s, Handle(m), d, q, p, t)'
    BY <1>2, <2>1, Fixed DEF RowAt, Handed
  <2> QED BY <1>2, <2>1, <2>2
<1>3. x.kind = "row" => RowOf(s, d, q, m, x)'
  <2>1. \A k : Slot(q, s, k)' = Slot(q, s, k)
    BY DEF Slot
  <2>2. ASSUME x.kind = "row", KindOf(m) = "dispatch" PROVE RowOf(s, d, q, m, x)'
    BY <1>1, <2>1, <2>2, Fixed DEF RowOf
  <2>3. ASSUME x.kind = "row", KindOf(m) = "combine" PROVE RowOf(s, d, q, m, x)'
    <3>1. \A t : Back(s, q, t)' = Back(s, q, t)
            /\ BackRow(s, d, q, m, t)' = BackRow(s, d, q, m, t)
      BY FixedToo
    <3>2. Row' = Row
      BY DEF Row
    <3> QED BY <1>2, <2>3, <3>1, <3>2, Fixed DEF RowOf
  <2>4. ASSUME KindOf(m) \notin {"dispatch", "combine"} PROVE RowOf(s, d, q, m, x)'
    BY <2>4, Fixed DEF RowOf
  <2> QED BY <2>2, <2>3, <2>4
<1> QED BY <1>3, Fixed, FixedToo DEF IsMsg

-----------------------------------------------------------------------------
(* Steps that leave the memory alone, within a call.                        *)
LEMMA SignalFrame ==
  ASSUME SignalInv, run' = run, dead' = dead, word' = word, wire' = wire, ToldSame, ReadySame
  PROVE  SignalInv'
<1> SUFFICES ASSUME NEW s \in Rank, NEW d \in Rank, NEW q \in Local, NEW m \in 1 .. NumCalls,
                    d \notin dead, Active(m), Ready(d, m)'
             PROVE  SignalOK(s, d, q, m)'
  BY Fixed DEF SignalInv
<1>1. SignalOK(s, d, q, m)
  BY DEF SignalInv, ReadySame
<1>2. Told(s, d, q, m)' <=> Told(s, d, q, m)
  BY DEF ToldSame
<1>3. WordAt(s, d, q, m)' = WordAt(s, d, q, m)
  BY Fixed, FixedToo DEF WordAt
<1>4. /\ Signalled(s, d, q, m)' <=> Signalled(s, d, q, m)
      /\ Lost(s, d, q, m)' <=> Lost(s, d, q, m)
  BY <1>3, Fixed, FixedToo DEF Signalled, Lost
<1> QED BY <1>1, <1>2, <1>3, <1>4, Fixed, FixedToo DEF SignalOK

(* What is on the wires stays of its call.                                  *)
LEMMA WireFrame ==
  ASSUME WireInv, run' = run, dead' = dead, wire' = wire, staged' = staged,
         \A x \in Rank : Pos(x)' = Pos(x),
         \A s, d \in Rank, q \in Local, m \in 1 .. NumCalls :
           Active(m) /\ m <= Pos(s) =>
             Handed(s, m) /\ (KindOf(m) = "dispatch" => Slots(s, d, q, m)' = Slots(s, d, q, m))
  PROVE  WireInv'
<1> SUFFICES ASSUME NEW s \in Rank, NEW d \in Rank, NEW q \in Local, d \notin dead,
                    NEW i \in DOMAIN wire[s][d][q], wire[s][d][q][i].kind # "sync"
             PROVE  \E m \in 1 .. NumCalls : Near(d, m)' /\ IsMsg(s, d, q, m, wire[s][d][q][i])'
  BY Fixed DEF WireInv
<1>1. PICK m \in 1 .. NumCalls : Near(d, m) /\ IsMsg(s, d, q, m, wire[s][d][q][i])
  BY DEF WireInv
<1>2. Active(m) /\ m <= Pos(s) /\ m <= Pos(s)'
  BY <1>1 DEF IsMsg
<1>3. Handed(s, m) /\ (KindOf(m) = "dispatch" => Slots(s, d, q, m)' = Slots(s, d, q, m))
  BY <1>2
<1>4. IsMsg(s, d, q, m, wire[s][d][q][i])'
  BY <1>1, <1>2, <1>3, MsgKept
<1>5. Near(d, m)'
  BY <1>1 DEF Near
<1> QED BY <1>4, <1>5

(* The rows stay where they are.                                            *)
LEMMA HoldsFrame ==
  ASSUME HoldsInv, run' = run, dead' = dead, word' = word, wire' = wire,
         staged' = staged, region' = region,
         \A x \in Rank : Pos(x)' = Pos(x),
         \A s, d \in Rank, q \in Local, m \in 1 .. NumCalls :
           Active(m) /\ m <= Pos(s) => RowsSame(s, d, q, m)
  PROVE  HoldsInv'
<1> SUFFICES ASSUME NEW s \in Rank, NEW d \in Rank, NEW q \in Local, NEW m \in 1 .. NumCalls,
                    d \notin dead, Near(d, m)', Pos(s)' >= m, ~Lost(s, d, q, m)'
             PROVE  RowsOK(s, d, q, m)'
  BY Fixed DEF HoldsInv
<1>1. CASE ~Active(m)
  BY <1>1, Fixed DEF RowsOK, Active
<1>2. CASE Active(m)
  <2>1. Near(d, m) /\ Pos(s) >= m /\ m <= Pos(s)
    BY DEF Near
  <2>2. WordAt(s, d, q, m)' = WordAt(s, d, q, m)
    BY Fixed, FixedToo DEF WordAt
  <2>3. ~Lost(s, d, q, m)
    BY <2>2 DEF Lost
  <2>4. RowsOK(s, d, q, m)
    BY <2>1, <2>3 DEF HoldsInv
  <2>5. RowsSame(s, d, q, m)
    BY <1>2, <2>1
  <2>6. HoldsKept(s, d, q, m)
    BY MemorySame
  <2> QED BY <2>4, <2>5, <2>6, RowsKept DEF RowsSame
<1> QED BY <1>1, <1>2

-----------------------------------------------------------------------------
(* Which calls a channel is about.                                          *)
LEMMA SameCall ==
  ASSUME Shape, NEW d \in Rank, NEW m \in 1 .. NumCalls, NEW n \in 1 .. NumCalls,
         Near(d, m), Near(d, n), Active(m), Active(n), Side(m) = Side(n)
  PROVE  m = n
<1>1. PICK k \in Nat \ {0} : k = Pos(d)
  BY KernelTypes
<1>2. Active(k) => Side(k + 1) = 1 - Side(k) /\ Side(k) \in {0, 1}
  BY SideFacts
<1> QED BY <1>1, <1>2 DEF Near

(* A sender uses the buffer of its own call only.                           *)
LEMMA SameSide ==
  ASSUME Shape, PosInv, NEW s \in Rank, Active(Pos(s)), NEW d \in Rank \ dead,
         NEW m \in 1 .. NumCalls, Near(d, m), m <= Pos(s), Active(m), Side(m) = Side(Pos(s))
  PROVE  m = Pos(s)
<1>1. Pos(s) \in Nat \ {0} /\ Pos(d) \in Nat \ {0} /\ NumCalls \in Nat
  BY KernelTypes
<1>2. Pos(s) <= Pos(d) + 1
  BY ActiveNotAtEnd DEF PosInv
<1>3. m = Pos(s) \/ m + 1 = Pos(s)
  BY <1>1, <1>2 DEF Near
<1>4. PICK k \in Nat \ {0} : k = m
  BY <1>1
<1>5. Active(k) => Side(k + 1) = 1 - Side(k) /\ Side(k) \in {0, 1}
  BY SideFacts
<1> QED BY <1>3, <1>4, <1>5

(* Who has sent to a peer has cleaned.                                      *)
LEMMA SentCleaned ==
  ASSUME Shape, KernelInv, NEW r \in Rank, Active(Pos(r)), NEW e \in Expert,
         kernel[r].step[e] # "send"
  PROVE  kernel[r].cleaned
<1>1. KernelOK(r)
  BY DEF KernelInv
<1> QED BY <1>1 DEF KernelOK, DispatchKernel, DispatchSent, CombineKernel, CombineSteps, Active

(* A call that a sender has begun is one its receiver is ready for.         *)
LEMMA NearReady ==
  ASSUME Shape, PosInv, KernelInv, NEW s \in Rank, NEW d \in Rank \ dead,
         NEW m \in 1 .. NumCalls, Near(d, m), m <= Pos(s)
  PROVE  Ready(d, m)
<1>1. Pos(s) \in Nat \ {0} /\ Pos(d) \in Nat \ {0} /\ NumCalls \in Nat /\ run \in Runs
  BY KernelTypes DEF Shape
<1>2. CASE m = Pos(d)
  BY <1>2 DEF Ready
<1>3. CASE m = Pos(d) + 1
  <2>1. Capped(s) >= m
    BY <1>1 DEF Capped
  <2>2. HasTold(d, s)
    <3>1. Capped(s) \in Nat
      BY <1>1 DEF Capped
    <3>2. Capped(s) = Pos(d) + 1
      BY <1>1, <1>3, <2>1, <3>1 DEF PosInv
    <3> QED BY <3>2 DEF PosInv
  <2>3. Active(Pos(d)) => kernel[d].cleaned
    <3> SUFFICES ASSUME Active(Pos(d)) PROVE kernel[d].cleaned
      OBVIOUS
    <3>1. 0 \in Local /\ GlobalOf(s, 0) \in Expert
      BY <1>1, IndexFacts
    <3>2. Step(d, s, 0) # "send"
      BY <2>2, <3>1 DEF HasTold
    <3> QED BY <3>1, <3>2, SentCleaned DEF Step
  <2>4. ~Active(Pos(d)) => kernel[d].round = 2
    BY <2>2 DEF HasTold
  <2> QED BY <1>3, <2>3, <2>4 DEF Ready
<1> QED BY <1>2, <1>3 DEF Near

(* A rank that has still to send to a peer has not been overtaken by it.    *)
LEMMA SenderNear ==
  ASSUME Shape, PosInv, KernelInv, NEW r \in Rank \ dead, Active(Pos(r)),
         NEW d \in Rank \ dead, NEW q \in Local, Step(r, d, q) = "send"
  PROVE  Near(d, Pos(r)) /\ Ready(d, Pos(r)) /\ Pos(r) \in 1 .. NumCalls
<1>1. /\ Pos(r) \in 1 .. NumCalls /\ Pos(r) \in Nat \ {0}
      /\ Pos(d) \in Nat \ {0} /\ NumCalls \in Nat
  BY KernelTypes, KindFacts
<1>2. Pos(r) <= Pos(d) + 1
  BY ActiveNotAtEnd DEF PosInv
<1>3. ~HasTold(r, d)
  BY DEF HasTold
<1>4. Capped(d) <= Pos(r)
  <2>1. Capped(d) <= Pos(r) + 1 /\ Capped(d) # Pos(r) + 1
    BY <1>3 DEF PosInv
  <2>2. Capped(d) \in Nat
    BY <1>1 DEF Capped
  <2> QED BY <1>1, <2>1, <2>2
<1>5. Pos(d) <= Pos(r)
  <2>1. LastClean => Pos(r) # NumCalls
    BY DEF LastClean, Active
  <2>2. CASE LastClean /\ Pos(d) > NumCalls
    BY <1>1, <1>4, <2>1, <2>2 DEF Capped
  <2>3. CASE ~(LastClean /\ Pos(d) > NumCalls)
    BY <1>1, <1>4, <2>3 DEF Capped
  <2> QED BY <2>2, <2>3
<1>6. Near(d, Pos(r))
  BY <1>1, <1>2, <1>5 DEF Near
<1>7. PICK n \in 1 .. NumCalls : n = Pos(r)
  BY <1>1
<1>8. n <= Pos(r)
  BY <1>1, <1>7
<1> QED BY <1>1, <1>6, <1>7, <1>8, NearReady

(* Nobody is in a call that a rank is not ready for.                        *)
LEMMA NoneAhead ==
  ASSUME Shape, PosInv, KernelInv, NEW r \in Rank \ dead, ~Ready(r, Pos(r) + 1),
         Pos(r) + 1 \in 1 .. NumCalls, NEW s \in Rank
  PROVE  Pos(s) <= Pos(r)
<1>1. Pos(r) \in Nat \ {0} /\ Pos(s) \in Nat \ {0}
  BY KernelTypes
<1> SUFFICES ASSUME Pos(s) > Pos(r) PROVE FALSE
  BY <1>1
<1>2. PICK m \in 1 .. NumCalls : m = Pos(r) + 1
  OBVIOUS
<1>3. Near(r, m) /\ m <= Pos(s)
  BY <1>1, <1>2 DEF Near
<1> QED BY <1>2, <1>3, NearReady

-----------------------------------------------------------------------------
(* Words and values.                                                        *)
LEMMA ValueFacts ==
  ASSUME run \in Runs, NEW m \in 1 .. NumCalls, Active(m), NEW s \in Rank, NEW d \in Rank,
         NEW q \in Local
  PROVE  /\ ValueOf(m, s, d, q) \in Int /\ ValueOf(m, s, d, q) # 0
         /\ WordOf(m, s, q) \in Expert
         /\ KindOf(m) = "dispatch" => /\ Count(m, s, d, q) \in 0 .. MaxTokens
                                     /\ -ValueOf(m, s, d, q) - 1 = Count(m, s, d, q)
<1>1. GlobalOf(s, q) \in Expert /\ CountWord(q, s) \in Expert
  BY IndexFacts
<1>2. KindOf(m) = "dispatch" => Count(m, s, d, q) \in 0 .. MaxTokens
  BY TokenFacts DEF Count, Tokens
<1>3. CASE KindOf(m) = "dispatch"
  <2>1. PICK c \in Nat : c = Count(m, s, d, q) /\ c \in 0 .. MaxTokens
    BY <1>2, <1>3, RunFacts
  <2>2. ValueOf(m, s, d, q) = -c - 1
    BY <1>3, <2>1 DEF ValueOf
  <2> QED BY <1>1, <1>3, <2>1, <2>2 DEF WordOf
<1>4. CASE KindOf(m) # "dispatch"
  BY <1>1, <1>4 DEF ValueOf, WordOf
<1> QED BY <1>3, <1>4

(* A word of a buffer belongs to one channel.                               *)
LEMMA WordsApart ==
  ASSUME run \in Runs, NEW m, NEW s \in Rank, NEW z \in Rank, NEW q \in Local, NEW p \in Local,
         WordOf(m, s, q) = WordOf(m, z, p)
  PROVE  s = z /\ q = p
<1>1. /\ CountWord(q, s) = CountWord(p, z) => q = p /\ s = z
      /\ GlobalOf(s, q) = GlobalOf(z, p) => s = z /\ q = p
  BY IndexFacts
<1> QED BY <1>1 DEF WordOf

(* What has been signalled is not zero.                                     *)
LEMMA UntoldWord ==
  ASSUME run \in Runs, NEW m \in 1 .. NumCalls, Active(m), NEW s \in Rank, NEW d \in Rank,
         NEW q \in Local
  PROVE  /\ Untold(wire[s][d][q], Side(m), WordAt(s, d, q, m)) => ~Signalled(s, d, q, m)
         /\ Signalled(s, d, q, m) => WordAt(s, d, q, m) # 0
BY ValueFacts DEF Untold, Signalled, Landed

(* A word that is not zero is what its sender has signalled.                *)
LEMMA WordTold ==
  ASSUME SignalInv, NEW s \in Rank, NEW d \in Rank \ dead, NEW q \in Local,
         NEW m \in 1 .. NumCalls, Active(m), Ready(d, m), WordAt(s, d, q, m) # 0
  PROVE  /\ Told(s, d, q, m) /\ Signalled(s, d, q, m) /\ ~Lost(s, d, q, m)
         /\ WordAt(s, d, q, m) = ValueOf(m, s, d, q)
         /\ NoneOf(wire[s][d][q], Side(m))
<1>1. SignalOK(s, d, q, m)
  BY DEF SignalInv
<1> QED BY <1>1 DEF SignalOK, Untold, Coming, Lost, Signalled, Landed

(* Who has told has begun the call.                                         *)
LEMMA ToldReached ==
  ASSUME Shape, NEW s \in Rank, NEW m \in 1 .. NumCalls, NEW d, NEW q, Told(s, d, q, m)
  PROVE  m <= Pos(s) /\ Pos(s) >= m
<1>1. Pos(s) \in Nat /\ m \in Nat
  BY KernelTypes
<1> QED BY <1>1 DEF Told

-----------------------------------------------------------------------------
(* What a rank takes and keeps, where nothing is taken or copied.           *)
TakenStays(d, s, q) ==
  /\ Taken(d, s, q) /\ Pos(d)' = Pos(d)
  /\ Extent(d, Pos(d), s, q)' = Extent(d, Pos(d), s, q)
  /\ s \in mask[d] => s \in mask'[d]

(* What a rank has taken stays so.                                          *)
LEMMA TakenFrame ==
  ASSUME TakenInv, run' = run, dead' = dead, word' = word, wire' = wire,
         \A d \in Rank \ dead, s \in Rank, q \in Local : Active(Pos(d))' /\ Taken(d, s, q)' =>
           TakenStays(d, s, q) \/ TakenOK(d, s, q, Pos(d))'
  PROVE  TakenInv'
<1> SUFFICES ASSUME NEW d \in Rank \ dead, NEW s \in Rank, NEW q \in Local,
                    Active(Pos(d))', TakenStays(d, s, q)
             PROVE  TakenOK(d, s, q, Pos(d))'
  BY Fixed DEF TakenInv
<1>1. Pos(d)' = Pos(d) /\ Active(Pos(d)) /\ Taken(d, s, q)
  BY Fixed DEF TakenStays
<1>2. TakenOK(d, s, q, Pos(d))
  BY <1>1 DEF TakenInv
<1>3. WordAt(s, d, q, Pos(d))' = WordAt(s, d, q, Pos(d))
  BY <1>1, Fixed, FixedToo DEF WordAt
<1>4. Signalled(s, d, q, Pos(d))' <=> Signalled(s, d, q, Pos(d))
  BY <1>1, <1>3, Fixed, FixedToo DEF Signalled
<1>5. Quiet(s, d)' <=> Quiet(s, d)
  BY Fixed DEF Quiet
<1> QED BY <1>1, <1>2, <1>4, <1>5, Fixed DEF TakenOK, TakenStays

RangesStay(x, q) ==
  /\ Pos(x)' = Pos(x) /\ packed'[x][q] = packed[x][q] /\ Claimed(x, q)' = Claimed(x, q)
  /\ Step(x, 0, q)' # "send" => Step(x, 0, q) # "send"
  /\ \A s \in Claimed(x, q) : Extent(x, Pos(x), s, q)' = Extent(x, Pos(x), s, q)

(* Nobody claims a range.                                                   *)
LEMMA PackedStays ==
  ASSUME run' = run, NEW x, NEW q, PackedOK(x, q), RangesStay(x, q)
  PROVE  PackedOK(x, q)'
<1>1. Pos(x)' = Pos(x) /\ packed'[x][q] = packed[x][q]
  BY DEF RangesStay
<1>2. RangesOK(x, q) => RangesOK(x, q)'
  BY <1>1 DEF RangesOK, RangesStay
<1> QED BY <1>1, <1>2, Fixed DEF PackedOK

(* The extents of the other ranks, and a kernel as far as before.           *)
LEMMA PackedFrame ==
  ASSUME PackedInv, run' = run, packed' = packed,
         \A x \in Rank : \A s \in Rank, q \in Local :
           KindOf(Pos(x)) = "dispatch" =>
             Extent(x, Pos(x), s, q)' = Extent(x, Pos(x), s, q),
         \A x \in Rank : Pos(x)' = Pos(x),
         \A x \in Rank : \A s \in Rank, q \in Local : KindOf(Pos(x)) = "dispatch" =>
           /\ Taken(x, s, q)' <=> Taken(x, s, q)
           /\ Step(x, 0, q)' # "send" => Step(x, 0, q) # "send"
  PROVE  PackedInv'
<1> SUFFICES ASSUME NEW x \in Rank, NEW q \in Local PROVE PackedOK(x, q)'
  BY Fixed DEF PackedInv
<1>1. PackedOK(x, q)
  BY DEF PackedInv
<1>2. CASE KindOf(Pos(x)) = "dispatch"
  <2>1. Claimed(x, q)' = Claimed(x, q)
    BY <1>2 DEF Claimed
  <2>2. Claimed(x, q) \subseteq Rank
    BY DEF Claimed
  <2>3. Step(x, 0, q)' # "send" => Step(x, 0, q) # "send"
    BY <1>2
  <2>4. RangesStay(x, q)
    BY <1>2, <2>1, <2>2, <2>3 DEF RangesStay
  <2> QED BY <1>1, <2>4, PackedStays
<1>3. CASE KindOf(Pos(x)) # "dispatch"
  BY <1>1, <1>3, Fixed DEF PackedOK
<1> QED BY <1>2, <1>3

(* The next call claims from the start.                                     *)
LEMMA PackedLeaves ==
  ASSUME Shape, PackedInv, NEW r \in Rank, Leaves(r), Over(r), packed' = packed,
         layout' = layout
  PROVE  PackedInv'
<1>0. run' = run /\ run \in Runs /\ Pos(r) \in 1 .. NumCalls
  BY DEF Leaves, Alone, Shape, Over
<1>4. \A d \in Rank, p \in Local : Step(r, d, p)' = "send"
  BY <1>0, LeaveFacts
<1> SUFFICES ASSUME NEW x \in Rank, NEW q \in Local PROVE PackedOK(x, q)'
  BY <1>0, Fixed DEF PackedInv
<1>1. PackedOK(x, q)
  BY DEF PackedInv
<1>2. CASE x = r
  <2>1. \A s \in Rank : Step(r, s, q)' = "send"
    BY <1>4
  <2>4. 0 \in Rank
    BY <1>0, IndexFacts
  <2>5. \A s \in Rank : ~Taken(r, s, q)'
    BY <2>1 DEF Taken
  <2>2. Claimed(r, q)' = {} /\ Step(r, 0, q)' = "send"
    BY <2>1, <2>4, <2>5 DEF Claimed
  <2>3. RangesOK(r, q)'
    BY <2>2 DEF RangesOK
  <2> QED BY <1>1, <1>2, <2>3 DEF PackedOK
<1>3. CASE x # r
  <2>1. kernel'[x] = kernel[x]
    BY <1>3 DEF Leaves, Alone
  <2>2. /\ Pos(x)' = Pos(x) /\ \A s : Step(x, s, q)' = Step(x, s, q)
        /\ \A s : Taken(x, s, q)' <=> Taken(x, s, q)
    BY <1>0, <2>1, SameKernel
  <2>3. Claimed(x, q)' = Claimed(x, q)
    BY <2>2 DEF Claimed
  <2>4. RangesStay(x, q)
    BY <2>2, <2>3 DEF RangesStay, Extent
  <2> QED BY <1>0, <1>1, <2>4, PackedStays
<1> QED BY <1>2, <1>3

(* The rows copied stay, with their ranges.                                 *)
LEMMA CopiedStays ==
  ASSUME run' = run, dead \subseteq dead', NEW x, NEW n, CopiedOK(x, n),
         rows'[x][n] = rows[x][n],
         \A s \in Rank, q \in Local : Done(x, n, s, q)' => Done(x, n, s, q),
         \A s \in Rank, q \in Local : Done(x, n, s, q) =>
           Done(x, n, s, q)' /\ Extent(x, n, s, q)' = Extent(x, n, s, q)
  PROVE  CopiedOK(x, n)'
<1>1. (Local \X Row)' = Local \X Row
  BY Fixed DEF Row
<1>2. Good(rows'[x][n], Local \X Row)
  BY DEF CopiedOK
<1>3. ASSUME NEW p \in rows'[x][n]
      PROVE  \E s \in Rank :
       Done(x, n, s, p[1][1])' /\ Covers(Extent(x, n, s, p[1][1])', p[1][2])
  <2>1. PICK s \in Rank : Done(x, n, s, p[1][1]) /\ Covers(Extent(x, n, s, p[1][1]), p[1][2])
    BY <1>3 DEF CopiedOK
  <2>2. p[1][1] \in Local
    BY <1>3 DEF CopiedOK, Good
  <2> QED BY <2>1, <2>2
<1>4. ASSUME NEW s \in Rank, NEW q \in Local, Done(x, n, s, q)' PROVE Fetched(x, n, s, q)'
  <2>1. Fetched(x, n, s, q) /\ Extent(x, n, s, q)' = Extent(x, n, s, q)
    BY <1>4 DEF CopiedOK
  <2>2. \A p, t : RowAt(x, n, s, q, p, t)' <=> RowAt(x, n, s, q, p, t)
    BY DEF RowAt
  <2> QED BY <2>1, <2>2, Fixed DEF Fetched
<1>5. \A s, q : Extent(x, n, s, q)' = layout'[x][n][<<q, s>>]
  BY DEF Extent
<1> QED BY <1>1, <1>2, <1>3, <1>4, Fixed DEF CopiedOK, Rank, Good

(* So do the sums.                                                          *)
LEMMA CombinedStays ==
  ASSUME CombinedOwn, run' = run, run \in Runs, dead \subseteq dead', out' = out,
         \A x \in Rank, n \in 1 .. NumCalls :
           KindOf(n) = "combine" /\ Returned(x, n)' => Returned(x, n)
  PROVE  CombinedOwn'
<1>1. /\ DOMAIN run.calls = 1 .. NumCalls
      /\ \A n \in 1 .. NumCalls : KindOf(n) = run.calls[n].kind
  BY RunFacts
<1> SUFFICES ASSUME NEW r \in Rank, NEW n \in 1 .. NumCalls, KindOf(n) = "combine",
                    Returned(r, n)
             PROVE  LET h == run.calls[n].of
                        own(t, e) == <<e, <<n, e, <<h, r, t>>>>>>
                    IN  \A t \in DOMAIN To(h, r) :
                          /\ out[r][n][t] \subseteq {own(t, e) : e \in To(h, r)[t]}
                          /\ \A e \in To(h, r)[t] : Owner(e) \notin dead'
                               => own(t, e) \in out[r][n][t]
  BY <1>1, Fixed DEF CombinedOwn
<1> QED BY <1>1 DEF CombinedOwn

(***************************************************************************)
(* A rank goes on to its next call.                                        *)
(***************************************************************************)
LEMMA LeaveTold ==
  ASSUME Shape, KernelInv, NEW r \in Rank, Leaves(r), Over(r)
  PROVE  ToldSame /\ ReadySame
<1>0. /\ run' = run /\ run \in Runs /\ Pos(r) \in 1 .. NumCalls /\ NumCalls \in Nat
      /\ \A x \in Rank : x # r => kernel'[x] = kernel[x]
  BY KernelTypes DEF Leaves, Alone, Shape, Over
<1>1. PICK n \in Nat \ {0} : n = Pos(r)
  BY <1>0
<1>2. /\ Pos(r)' = n + 1 /\ kernel'[r].cleaned = FALSE /\ kernel'[r].round = 1
      /\ \A d \in Rank, q \in Local : Step(r, d, q)' = "send"
  BY <1>0, <1>1, LeaveFacts
<1>3. ToldSame
  <2> SUFFICES ASSUME NEW s \in Rank, NEW d \in Rank, NEW q \in Local, NEW m \in 1 .. NumCalls,
                      Active(m)
               PROVE  Told(s, d, q, m)' <=> Told(s, d, q, m)
    BY DEF ToldSame
  <2>1. CASE s # r
    <3>1. kernel'[s] = kernel[s]
      BY <1>0, <2>1
    <3> QED BY <1>0, <3>1, SameKernel
  <2>2. CASE s = r
    <3>1. Told(r, d, q, m)' <=> m <= n
      BY <1>0, <1>1, <1>2 DEF Told
    <3>2. m = n => Step(r, d, q) # "send"
      BY <1>1 DEF Over, Taken
    <3>3. Told(r, d, q, m) <=> m <= n
      BY <1>0, <1>1, <3>2 DEF Told
    <3> QED BY <2>2, <3>1, <3>3
  <2> QED BY <2>1, <2>2
<1>4. ReadySame
  <2> SUFFICES ASSUME NEW d \in Rank, NEW m \in 1 .. NumCalls, Active(m), Ready(d, m)'
               PROVE  Ready(d, m)
    BY DEF ReadySame
  <2>1. CASE d # r
    <3>1. kernel'[d] = kernel[d]
      BY <1>0, <2>1
    <3> QED BY <1>0, <3>1, SameKernel
  <2>2. CASE d = r
    <3>1. m = n + 1
      BY <1>0, <1>2, <2>2, Fixed DEF Ready
    <3>2. Active(Pos(r)) => kernel[r].cleaned
      BY OverFacts
    <3>3. ~Active(Pos(r)) => kernel[r].round = 2
      BY DEF Over
    <3> QED BY <1>1, <2>2, <3>1, <3>2, <3>3 DEF Ready
  <2> QED BY <2>1, <2>2
<1> QED BY <1>3, <1>4

(* What it takes is no more.                                                *)
LEMMA LeaveTaken ==
  ASSUME Shape, TakenInv, NEW r \in Rank, Leaves(r), Over(r), word' = word, wire' = wire,
         layout' = layout, mask' = mask
  PROVE  TakenInv'
<1>0. run' = run /\ dead' = dead /\ Pos(r) \in 1 .. NumCalls
      /\ \A x \in Rank : x # r => kernel'[x] = kernel[x]
  BY DEF Leaves, Alone, Over
<1>1. \A d \in Rank, p \in Local : Step(r, d, p)' = "send"
  BY <1>0, LeaveFacts
<1>2. ASSUME NEW d \in Rank \ dead, NEW s \in Rank, NEW q \in Local, Taken(d, s, q)'
      PROVE  TakenStays(d, s, q)
  <2>1. d # r
    BY <1>1, <1>2 DEF Taken
  <2>2. kernel'[d] = kernel[d]
    BY <1>0, <2>1
  <2>3. Pos(d)' = Pos(d) /\ Taken(d, s, q)
    BY <1>0, <1>2, <2>2, SameKernel
  <2> QED BY <2>3 DEF TakenStays, Extent
<1> QED BY <1>0, <1>2, TakenFrame

(* Before it goes, the rank has had all that comes for the call.            *)
LEMMA OverQuiet ==
  ASSUME Shape, IdxInv, MaskInv, TakenInv, NEW r \in Rank, Over(r), Active(Pos(r)),
         NEW s \in Rank, NEW q \in Local
  PROVE  NoneOf(wire[s][r][q], Side(Pos(r)))
<1>1. TakenOK(r, s, q, Pos(r))
  BY DEF Over, TakenInv
<1>2. CASE Signalled(s, r, q, Pos(r))
  BY <1>2 DEF Signalled, Landed
<1>3. CASE Quiet(s, r)
  BY <1>3 DEF Quiet, NoneOf
<1>4. s \in mask[r] => Quiet(s, r)
  BY MaskedDead
<1> QED BY <1>1, <1>2, <1>3, <1>4 DEF TakenOK, Active

(* It leaves nothing unsent behind.                                         *)
LEMMA LeaveRows ==
  ASSUME Shape, KernelInv, NEW r \in Rank, Leaves(r), Over(r), Retained(r), counter' = counter,
         NEW s \in Rank, NEW d \in Rank, NEW q \in Local, NEW m \in 1 .. NumCalls,
         Active(m), m <= Pos(s)
  PROVE  RowsSame(s, d, q, m) /\ Handed(s, m)
<1>0. /\ run' = run /\ Pos(r) \in 1 .. NumCalls /\ NumCalls \in Nat
      /\ \A x \in Rank : x # r => kernel'[x] = kernel[x]
  BY KernelTypes DEF Leaves, Alone, Over
<1>1. Handed(s, m)
  BY HandedKept
<1>2. CASE s # r
  <2>1. kernel'[s] = kernel[s]
    BY <1>0, <1>2
  <2>2. Pos(s)' = Pos(s) /\ Step(s, d, q)' = Step(s, d, q)
    BY <1>0, <2>1, SameKernel
  <2> QED BY <1>0, <1>1, <2>1, <2>2, RowsUntouched
<1>3. CASE s = r
  <2>1. PICK n \in Nat \ {0} : n = Pos(r)
    BY <1>0
  <2>2. Pos(r)' = n + 1
    BY <1>0, <2>1, LeaveFacts
  <2>3. Pos(r)' # m /\ m <= n
    BY <1>0, <1>3, <2>1, <2>2
  <2>4. Active(Pos(r)) => kernel[r].todo = {}
    BY OverFacts
  <2>5. m = n => Step(r, d, q) # "send" /\ kernel[r].todo = {}
    BY <2>1, <2>4 DEF Over, Taken
  <2>6. Slots(r, d, q, m)' = Slots(r, d, q, m)
    BY <1>0, <2>1, <2>3, <2>5, Fixed DEF Slots
  <2>7. \A t : TokenSent(r, d, q, m, t)' <=> TokenSent(r, d, q, m, t)
    BY <1>0, <2>1, <2>3, <2>5, Fixed DEF TokenSent
  <2>8. \A t : BackSent(r, d, q, m, t)' <=> BackSent(r, d, q, m, t)
    BY <2>1, <2>3, <2>5 DEF BackSent
  <2> QED BY <1>1, <1>3, <2>6, <2>7, <2>8 DEF RowsSame
<1> QED BY <1>2, <1>3

(* What is on the wires is of a call that its receiver still expects.       *)
LEMMA LeaveWire ==
  ASSUME Shape, IdxInv, KernelInv, PosInv, MaskInv, TakenInv, WireInv, NEW r \in Rank,
         Leaves(r), Over(r), wire' = wire, staged' = staged, Retained(r), counter' = counter
  PROVE  WireInv'
<1>0. /\ run' = run /\ dead' = dead /\ run \in Runs /\ Pos(r) \in 1 .. NumCalls
           /\ NumCalls \in Nat
      /\ \A x \in Rank : x # r => kernel'[x] = kernel[x]
  BY KernelTypes DEF Leaves, Alone, Shape, Over
<1>1. PICK n \in Nat \ {0} : n = Pos(r)
  BY <1>0
<1>2. Pos(r)' = n + 1
  BY <1>0, <1>1, LeaveFacts
<1> SUFFICES ASSUME NEW s \in Rank, NEW d \in Rank, NEW q \in Local, d \notin dead,
                    NEW i \in DOMAIN wire[s][d][q], wire[s][d][q][i].kind # "sync"
             PROVE  \E m \in 1 .. NumCalls : Near(d, m)' /\ IsMsg(s, d, q, m, wire[s][d][q][i])'
  BY <1>0, Fixed DEF WireInv
<1>3. PICK m \in 1 .. NumCalls : Near(d, m) /\ IsMsg(s, d, q, m, wire[s][d][q][i])
  BY DEF WireInv
<1>4. Active(m) /\ m <= Pos(s) /\ wire[s][d][q][i].buf = Side(m)
  BY <1>3 DEF IsMsg
<1>5. Pos(s) <= Pos(s)' /\ m <= Pos(s)'
  <2>1. Pos(s) \in Nat
    BY KernelTypes
  <2>2. Pos(s)' = Pos(s) \/ Pos(s)' = Pos(s) + 1
    BY <1>0, <1>1, <1>2, SameKernel
  <2> QED BY <1>0, <1>4, <2>1, <2>2
<1>6. Near(d, m)'
  <2>1. CASE d # r
    <3>1. kernel'[d] = kernel[d]
      BY <1>0, <2>1
    <3> QED BY <1>0, <1>3, <3>1, SameKernel
  <2>2. CASE d = r
    <3>1. m # n
      <4> SUFFICES ASSUME m = n PROVE FALSE
        OBVIOUS
      <4>1. NoneOf(wire[s][r][q], Side(Pos(r)))
        BY <1>1, <1>4, OverQuiet
      <4> QED BY <1>1, <1>4, <2>2, <4>1 DEF NoneOf, OfBuf
    <3> QED BY <1>1, <1>2, <1>3, <2>2, <3>1 DEF Near
  <2> QED BY <2>1, <2>2
<1>7. Handed(s, m) /\ (KindOf(m) = "dispatch" => Slots(s, d, q, m)' = Slots(s, d, q, m))
  BY <1>4, LeaveRows DEF RowsSame
<1>8. IsMsg(s, d, q, m, wire[s][d][q][i])'
  BY <1>0, <1>3, <1>5, <1>7, MsgKept
<1> QED BY <1>6, <1>8

(* It has sent nothing of the new call.                                     *)
LEMMA LeaveNew ==
  ASSUME Shape, KernelInv, RowsInv', NEW r \in Rank, Leaves(r), Over(r), Retained(r),
         counter' = counter, layout' = layout,
         NEW d \in Rank \ dead, NEW q \in Local, NEW m \in 1 .. NumCalls, m = Pos(r) + 1
  PROVE  RowsOK(r, d, q, m)'
<1>0. /\ run' = run /\ dead' = dead /\ run \in Runs /\ Pos(r) \in 1 .. NumCalls
           /\ NumCalls \in Nat
  BY KernelTypes DEF Leaves, Alone, Shape, Over
<1>1. /\ Pos(r)' = m /\ Step(r, d, q)' = "send"
      /\ KindOf(m) = "dispatch" => kernel'[r].todo = TokenItems(m, r)
      /\ KindOf(m) = "combine" => kernel'[r].todo = RowItems(m, r)
  <2>1. /\ Pos(r)' = Pos(r) + 1
        /\ \A x \in Rank, p \in Local : Step(r, x, p)' = "send"
        /\ KindOf(Pos(r) + 1) = "dispatch" => kernel'[r].todo = TokenItems(Pos(r) + 1, r)
        /\ KindOf(Pos(r) + 1) = "combine" => kernel'[r].todo = RowItems(Pos(r) + 1, r)
    BY <1>0, LeaveFacts
  <2> QED BY <2>1
<1>2. GlobalOf(d, q) \in Expert
  BY <1>0, IndexFacts
<1>3. ASSUME KindOf(m) = "dispatch" PROVE DispatchRows(r, d, q, m)'
  <2>1. counter'[r][GlobalOf(d, q)] = 0
    BY <1>2, OverFacts
  <2>2. Slots(r, d, q, m)' = 0
    BY <1>0, <1>1, <2>1, Fixed DEF Slots
  <2>3. ASSUME NEW t, TokenSent(r, d, q, m, t)' PROVE FALSE
    <3>1. t \in TokensFor(m, r, GlobalOf(d, q)) /\ <<t, GlobalOf(d, q)>> \notin TokenItems(m, r)
      BY <1>0, <1>1, <1>3, <2>3, Fixed DEF TokenSent, Tokens
    <3> QED BY <1>2, <3>1 DEF TokenItems, TokensFor
  <2> QED BY <2>2, <2>3 DEF DispatchRows
<1>4. ASSUME KindOf(m) = "combine" PROVE CombineRows(r, d, q, m)'
  <2> SUFFICES ASSUME NEW t \in BackTokens(r, d, q, m), BackSent(r, d, q, m, t)'
               PROVE  FALSE
    BY <1>0, FixedToo DEF CombineRows
  <2>1. PICK h \in 1 .. NumCalls : h = Handle(m) /\ h < m /\ KindOf(h) = "dispatch"
    BY <1>0, <1>4, RunFacts
  <2>2. Done(r, h, d, q)'
    BY <1>1, <2>1 DEF Done
  <2>3. Fetched(r, h, d, q)'
    BY <1>0, <2>1, <2>2, Fixed DEF RowsInv, CopiedOK
  <2>4. t \in Tokens(h, d, r, q)
    BY <2>1 DEF BackTokens
  <2>5. PICK x : x = Extent(r, h, d, q) /\ x = Extent(r, h, d, q)'
    BY DEF Extent
  <2>6. /\ x.begin \in Nat /\ x.num \in Nat /\ x.begin + x.num <= NumRanks * MaxTokens
        /\ \E i \in 0 .. x.num - 1 : RowAt(r, h, d, q, x.begin + i, t)'
    BY <1>0, <2>3, <2>4, <2>5, Fixed DEF Fetched
  <2>7. PICK i \in 0 .. x.num - 1 : RowAt(r, h, d, q, x.begin + i, t)'
    BY <2>6
  <2>8. PICK p \in Int : p = x.begin + i
    BY <2>6, <2>7
  <2>9. p \in Row /\ Covers(x, p) /\ RowAt(r, h, d, q, p, t)'
    <3>1. NumRanks \in Nat /\ MaxTokens \in Nat
      BY <1>0, RunFacts
    <3>2. PICK k \in Int : k = NumRanks * MaxTokens
      BY <3>1
    <3>3. p >= 0 /\ x.begin <= p /\ p < x.begin + x.num /\ p < k
      BY <2>6, <2>7, <2>8, <3>2
    <3>4. p \in Row
      BY <3>2, <3>3 DEF Row
    <3> QED BY <2>7, <2>8, <3>3, <3>4 DEF Covers
  <2>10. <<q, d, p>> \notin RowItems(m, r)
    BY <1>0, <1>1, <1>4, <2>1, <2>5, <2>9, Fixed DEF BackSent
  <2>11. <<q, d, p>> \in RowItems(m, r)
    BY <2>1, <2>5, <2>9 DEF RowItems, Extent
  <2> QED BY <2>10, <2>11
<1> QED BY <1>0, <1>3, <1>4, Fixed DEF RowsOK

(* The rows on their way to it are of its new call, or the next.            *)
LEMMA LeaveHolds ==
  ASSUME Shape, KernelInv, PosInv, HoldsInv, RowsInv', NEW r \in Rank, r \notin dead,
         Leaves(r), Over(r), word' = word, wire' = wire, region' = region, staged' = staged,
         Retained(r), counter' = counter, layout' = layout
  PROVE  HoldsInv'
<1>0. /\ run' = run /\ dead' = dead /\ run \in Runs /\ Pos(r) \in 1 .. NumCalls
           /\ NumCalls \in Nat
      /\ \A x \in Rank : x # r => kernel'[x] = kernel[x]
  BY KernelTypes DEF Leaves, Alone, Shape, Over
<1>1. PICK n \in Nat \ {0} : n = Pos(r)
  BY <1>0
<1>2. Pos(r)' = n + 1
  BY <1>0, <1>1, LeaveFacts
<1> SUFFICES ASSUME NEW s \in Rank, NEW d \in Rank, NEW q \in Local, NEW m \in 1 .. NumCalls,
                    d \notin dead, Near(d, m)', Pos(s)' >= m, ~Lost(s, d, q, m)'
             PROVE  RowsOK(s, d, q, m)'
  BY <1>0, Fixed DEF HoldsInv
<1>3. CASE ~Active(m)
  BY <1>0, <1>3, Fixed DEF RowsOK, Active
<1>4. CASE s = r /\ m = Pos(r) + 1
  BY <1>4, LeaveNew
<1>5. CASE Active(m) /\ ~(s = r /\ m = Pos(r) + 1)
  <2>1. m <= Pos(s)
    <3>1. CASE s = r
      BY <1>1, <1>2, <1>5, <3>1
    <3>2. CASE s # r
      BY <1>0, <3>2, SameKernel
    <3> QED BY <3>1, <3>2
  <2>2. Near(d, m)
    <3>1. CASE d # r
      BY <1>0, <3>1, SameKernel
    <3>2. CASE d = r
      <4>1. m = n + 1 \/ m = n + 2
        BY <1>2, <3>2 DEF Near
      <4>2. m # n + 2
        <5>1. Capped(s) <= n + 1
          BY <1>1 DEF PosInv
        <5>2. Pos(s) \in Nat
          BY KernelTypes
        <5> QED BY <1>0, <2>1, <5>1, <5>2 DEF Capped
      <4> QED BY <1>1, <3>2, <4>1, <4>2 DEF Near
    <3> QED BY <3>1, <3>2
  <2>3. WordAt(s, d, q, m)' = WordAt(s, d, q, m)
    BY <1>0, Fixed, FixedToo DEF WordAt
  <2>4. ~Lost(s, d, q, m)
    BY <1>0, <2>3 DEF Lost
  <2>5. RowsOK(s, d, q, m)
    BY <2>1, <2>2, <2>4 DEF HoldsInv
  <2>6. RowsSame(s, d, q, m)
    BY <1>5, <2>1, LeaveRows
  <2>7. HoldsKept(s, d, q, m)
    BY <1>0, MemorySame
  <2> QED BY <1>0, <2>5, <2>6, <2>7, RowsKept DEF RowsSame
<1> QED BY <1>3, <1>4, <1>5

(***************************************************************************)
(* Steps within a call that send nothing.                                  *)
(***************************************************************************)
LEMMA QuietRows ==
  ASSUME Shape, NEW r \in Rank, NEW cleaned, NEW finish, NEW step, NEW round, NEW met,
         Becomes(r, cleaned, kernel[r].todo, finish, step, round, met),
         \A e \in Expert : step[e] = "send" <=> kernel[r].step[e] = "send",
         KindOf(Pos(r)) = "dispatch" => counter'[r] = counter[r],
         \A x \in Rank : x # r => counter'[x] = counter[x], Retained(r)
  PROVE  /\ ToldSame /\ \A x \in Rank : Pos(x)' = Pos(x)
         /\ \A s, d \in Rank, q \in Local, m \in 1 .. NumCalls :
              m <= Pos(s) => RowsSame(s, d, q, m) /\ Handed(s, m)
<1>0. /\ run' = run /\ run \in Runs /\ Pos(r)' = Pos(r)
      /\ kernel'[r].todo = kernel[r].todo /\ kernel'[r].step = step
      /\ \A x \in Rank : x # r => kernel'[x] = kernel[x]
  BY BecomesFacts DEF Alone, Shape
<1>1. \A x \in Rank : Pos(x)' = Pos(x)
  BY <1>0, SameKernel
<1>2. \A s, d \in Rank, q \in Local : Step(s, d, q)' = "send" <=> Step(s, d, q) = "send"
  <2> SUFFICES ASSUME NEW s \in Rank, NEW d \in Rank, NEW q \in Local
               PROVE  Step(s, d, q)' = "send" <=> Step(s, d, q) = "send"
    OBVIOUS
  <2>1. CASE s # r
    BY <1>0, <2>1, SameKernel
  <2>2. CASE s = r
    <3>1. GlobalOf(d, q) \in Expert
      BY <1>0, IndexFacts
    <3> QED BY <1>0, <2>2, <3>1, Fixed DEF Step
  <2> QED BY <2>1, <2>2
<1>3. ToldSame
  BY <1>1, <1>2 DEF ToldSame, Told
<1>4. ASSUME NEW s \in Rank, NEW d \in Rank, NEW q \in Local, NEW m \in 1 .. NumCalls,
             m <= Pos(s)
      PROVE  RowsSame(s, d, q, m) /\ Handed(s, m)
  <2>1. Handed(s, m)
    BY <1>4, HandedKept
  <2>2. kernel'[s].todo = kernel[s].todo
    BY <1>0
  <2>3. KindOf(Pos(s)) = "dispatch" => counter'[s] = counter[s]
    OBVIOUS
  <2>4. RowsSame(s, d, q, m)
    BY <1>0, <1>1, <1>2, <2>1, <2>2, <2>3, RowsUntouched
  <2> QED BY <2>1, <2>4
<1> QED BY <1>1, <1>3, <1>4

(* A rank is no more ready than before.                                     *)
LEMMA QuietReady ==
  ASSUME NEW r \in Rank, NEW todo, NEW finish, NEW step, NEW met,
         Becomes(r, kernel[r].cleaned, todo, finish, step, kernel[r].round, met)
  PROVE  ReadySame
<1>0. /\ run' = run /\ Pos(r)' = Pos(r) /\ \A x \in Rank : x # r => kernel'[x] = kernel[x]
      /\ kernel'[r].cleaned = kernel[r].cleaned /\ kernel'[r].round = kernel[r].round
  BY BecomesFacts DEF Alone
<1> SUFFICES ASSUME NEW d \in Rank, NEW m \in 1 .. NumCalls, Ready(d, m)'
             PROVE  Ready(d, m)
  BY DEF ReadySame
<1>1. CASE d # r
  BY <1>0, <1>1, SameKernel
<1>2. CASE d = r
  BY <1>0, <1>2, Fixed DEF Ready
<1> QED BY <1>1, <1>2

(* Nothing moves in the memory.                                             *)
Channels == MemInv /\ SignalInv /\ HoldsInv /\ WireInv /\ NVLinkInv

(* So the channels stay as they are.                                        *)
LEMMA QuietChannels ==
  ASSUME Shape, Channels, run' = run, dead' = dead, memory' = memory, staged' = staged,
         ToldSame, ReadySame, \A x \in Rank : Pos(x)' = Pos(x),
         \A s, d \in Rank, q \in Local, m \in 1 .. NumCalls :
              m <= Pos(s) => RowsSame(s, d, q, m) /\ Handed(s, m)
  PROVE  Channels'
<1>0. word' = word /\ region' = region /\ wire' = wire
  BY DEF memory
<1>1. SignalInv'
  BY <1>0, SignalFrame DEF Channels
<1>2. WireInv'
  BY <1>0, WireFrame DEF Channels, RowsSame
<1>3. HoldsInv'
  BY <1>0, HoldsFrame DEF Channels
<1>4. MemInv'
  BY <1>0, FixedToo DEF Channels, MemInv
<1>5. NVLinkInv'
  BY <1>0, Fixed DEF Channels, NVLinkInv, Quiet
<1> QED BY <1>1, <1>2, <1>3, <1>4, <1>5 DEF Channels

(* Every variable is as before, or has its type still.                      *)
LEMMA ShapeKept ==
  ASSUME Shape, run' = run, dead' \in SUBSET Rank, kernel' \in [Rank -> Kernels'],
         counter' = counter \/ counter' \in [Rank -> [Expert -> Nat]],
         word' = word \/ word' \in [Rank -> [{0, 1} -> [Expert -> Int]]],
         region' = region \/ Buffers(region)', staged' = staged \/ Buffers(staged)',
         sync' = sync \/ sync' \in [Rank -> [Rank -> Int]],
         mask' = mask \/ mask' \in [Rank -> SUBSET Rank],
         wire' = wire \/ wire' \in [Rank -> [Rank -> [Local -> Seq(Msg)]]],
         packed' = packed \/ packed' \in [Rank -> [Local -> Int]],
         layout' = layout
           \/ layout' \in [Rank -> [1 .. NumCalls -> [Local \X Rank -> [begin : Int, num : Int]]]],
         rows' = rows \/ PerCall(rows)', out' = out \/ PerCall(out)'
  PROVE  Shape'
<1>1. /\ Local' = Local /\ Expert' = Expert /\ NumCalls' = NumCalls /\ Msg' = Msg
  BY Fixed, FixedToo
<1>2. run' \in Runs /\ dead' \in SUBSET Rank /\ kernel' \in [Rank -> Kernels']
  BY DEF Shape
<1>3. counter' \in [Rank -> [Expert' -> Nat]]
        /\ word' \in [Rank -> [{0, 1} -> [Expert' -> Int]]]
  BY <1>1 DEF Shape
<1>4. Buffers(region)' /\ Buffers(staged)'
  BY DEF Shape, Buffers
<1>5. sync' \in [Rank -> [Rank -> Int]] /\ mask' \in [Rank -> SUBSET Rank]
  BY DEF Shape
<1>6. wire' \in [Rank -> [Rank -> [Local' -> Seq(Msg')]]]
  BY <1>1 DEF Shape
<1>7. packed' \in [Rank -> [Local' -> Int]]
  BY <1>1 DEF Shape
<1>8. layout' \in [Rank -> [1 .. NumCalls' -> [Local' \X Rank -> [begin : Int, num : Int]]]]
  BY <1>1 DEF Shape
<1>9. PerCall(rows)' /\ PerCall(out)'
  <2>1. PerCall(rows) /\ PerCall(out)
    BY DEF Shape
  <2>2. rows' = rows => PerCall(rows)'
    BY <1>1, <2>1 DEF PerCall
  <2>3. out' = out => PerCall(out)'
    BY <1>1, <2>1 DEF PerCall
  <2> QED BY <2>2, <2>3
<1> QED BY <1>2, <1>3, <1>4, <1>5, <1>6, <1>7, <1>8, <1>9 DEF Shape

(* What has been taken and kept, when the groups stay where they are.       *)
Keeps == PackedInv /\ RowsInv /\ CombinedOwn

(* Nothing is taken, copied or summed.                                      *)
LEMMA KeepsFrame ==
  ASSUME Shape, Keeps, run' = run, dead \subseteq dead', packed' = packed, outputs' = outputs,
         \A x \in Rank : Pos(x)' = Pos(x) /\ kernel'[x].step = kernel[x].step
  PROVE  Keeps'
<1>0. layout' = layout /\ rows' = rows /\ out' = out /\ run \in Runs
  BY DEF outputs, Shape
<1>1. \A x \in Rank : \A s, q : Step(x, s, q)' = Step(x, s, q)
  BY Fixed DEF Step
<1>2. \A x \in Rank : \A s, q : Taken(x, s, q)' <=> Taken(x, s, q)
  BY <1>1 DEF Taken
<1>3. \A x \in Rank : \A n, s, q : Done(x, n, s, q)' <=> Done(x, n, s, q)
  BY <1>1 DEF Done
<1>4. \A x, n, s, q : Extent(x, n, s, q)' = Extent(x, n, s, q)
  BY <1>0 DEF Extent
<1>5. PackedInv'
  <2>1. \A x \in Rank : \A s \in Rank, q \in Local : KindOf(Pos(x)) = "dispatch" =>
           Extent(x, Pos(x), s, q)' = Extent(x, Pos(x), s, q)
    BY <1>0 DEF Extent
  <2>2. PackedInv
    BY DEF Keeps
  <2>3. 0 \in Rank
    BY <1>0, IndexFacts
  <2> QED BY <1>1, <1>2, <2>1, <2>2, <2>3, PackedFrame
<1>6. RowsInv'
  <2> SUFFICES ASSUME NEW x \in Rank, NEW n \in 1 .. NumCalls, KindOf(n) = "dispatch"
               PROVE  CopiedOK(x, n)'
    BY Fixed DEF RowsInv
  <2>1. CopiedOK(x, n)
    BY DEF Keeps, RowsInv
  <2> QED BY <1>0, <1>3, <1>4, <2>1, CopiedStays
<1>7. CombinedOwn'
  <2>1. \A x \in Rank, n \in 1 .. NumCalls : Returned(x, n)' => Returned(x, n)
    BY DEF Returned, Pos
  <2> QED BY <1>0, <2>1, CombinedStays DEF Keeps
<1> QED BY <1>5, <1>6, <1>7 DEF Keeps

(***************************************************************************)
(* The barriers of a clean.                                                *)
(***************************************************************************)
LEMMA MeetsQuiet ==
  ASSUME Shape, Channels, TakenInv, Keeps, NEW r \in Rank, NEW m, ~Active(Pos(r)),
         Meets(r, kernel[r].round, m), dead' = dead, memory' = memory, staged' = staged,
         packed' = packed, outputs' = outputs, \A x \in Rank : mask[x] \subseteq mask'[x]
  PROVE  Channels' /\ TakenInv' /\ Keeps'
<1>0. /\ run' = run /\ run \in Runs /\ layout' = layout /\ rows' = rows /\ counter' = counter
      /\ word' = word /\ wire' = wire
      /\ \A x \in Rank : x # r => kernel'[x] = kernel[x]
      /\ kernel'[r].step = kernel[r].step
      /\ Becomes(r, kernel[r].cleaned, kernel[r].todo, kernel[r].finish, kernel[r].step, kernel[r].round, m)
  BY BecomesFacts DEF Meets, Alone, outputs, memory, Shape
<1>1. Retained(r)
  BY <1>0 DEF Retained
<1>2. /\ ToldSame /\ \A x \in Rank : Pos(x)' = Pos(x)
      /\ \A s, d \in Rank, q \in Local, n \in 1 .. NumCalls :
           n <= Pos(s) => RowsSame(s, d, q, n) /\ Handed(s, n)
  BY <1>0, <1>1, QuietRows
<1>3. ReadySame
  BY <1>0, QuietReady
<1>4. Channels'
  BY <1>0, <1>2, <1>3, QuietChannels
<1>5. \A x \in Rank : kernel'[x].step = kernel[x].step
  BY <1>0
<1>6. Keeps'
  BY <1>0, <1>2, <1>5, KeepsFrame
<1>7. TakenInv'
  <2>1. ASSUME NEW d \in Rank \ dead, NEW s \in Rank, NEW q \in Local, Taken(d, s, q)'
        PROVE  TakenStays(d, s, q)
    <3>1. Taken(d, s, q)
      BY <1>0, <1>5, <2>1, Fixed DEF Taken, Step
    <3>2. Extent(d, Pos(d), s, q)' = Extent(d, Pos(d), s, q)
      BY <1>0, <1>2 DEF Extent
    <3>3. s \in mask[d] => s \in mask'[d]
      OBVIOUS
    <3> QED BY <1>2, <3>1, <3>2, <3>3 DEF TakenStays
  <2> QED BY <1>0, <2>1, TakenFrame
<1> QED BY <1>4, <1>6, <1>7

Standing == IdxInv /\ KernelInv /\ PosInv /\ MetInv /\ EnterInv
Peers    == SyncInv /\ DeadInv /\ MaskInv
IInv     == Shape /\ Standing /\ Peers /\ Channels /\ TakenInv /\ Keeps

(* The parts of the invariant.                                              *)
LEMMA IInvFacts ==
  ASSUME IInv
  PROVE  /\ Shape /\ IdxInv /\ KernelInv /\ PosInv /\ MetInv /\ EnterInv
         /\ SyncInv /\ DeadInv /\ MaskInv /\ Channels /\ TakenInv /\ Keeps
         /\ MemInv /\ SignalInv /\ HoldsInv /\ WireInv /\ NVLinkInv
         /\ PackedInv /\ RowsInv /\ CombinedOwn
BY DEF IInv, Standing, Peers, Channels, Keeps

(* What is left to show of the steps of a clean that move nothing else.     *)
LEMMA MeetsAll ==
  ASSUME IInv, NEW r \in Rank, NEW m \in [Rank -> {"enter", "tell", "wait", "met"}],
         ~Active(Pos(r)), Meets(r, kernel[r].round, m),
           m[r] # "enter" \/ m[r] = kernel[r].met[r],
         MetInv', EnterInv', SyncInv', MaskInv',
         dead' = dead, memory' = memory, staged' = staged, packed' = packed, outputs' = outputs,
         sync' = sync \/ sync' \in [Rank -> [Rank -> Int]],
         mask' = mask \/ mask' \in [Rank -> SUBSET Rank],
         \A x \in Rank : mask[x] \subseteq mask'[x]
  PROVE  IInv'
<1>0. /\ Shape /\ IdxInv /\ KernelInv /\ PosInv /\ DeadInv /\ Channels /\ TakenInv /\ Keeps
      /\ dead \in SUBSET Rank /\ run' = run
  BY IInvFacts, BecomesFacts DEF Shape, Meets
<1>1. /\ kernel' \in [Rank -> Kernels'] /\ KernelInv' /\ IdxInv' /\ PosInv'
  <2>1. kernel[r].round \in {1, 2}
    BY <1>0, KernelTypes
  <2>2. PICK k \in {1, 2} : k = kernel[r].round
    BY <2>1
  <2>3. Meets(r, k, m)
    BY <2>2
  <2> QED BY <1>0, <2>2, <2>3, MeetsKeep
<1>2. Channels' /\ TakenInv' /\ Keeps'
  BY <1>0, MeetsQuiet
<1>3. Shape'
  <2>1. /\ counter' = counter /\ word' = word /\ region' = region /\ wire' = wire
        /\ layout' = layout /\ rows' = rows /\ out' = out
    BY DEF Meets, memory, outputs
  <2> QED BY <1>0, <1>1, <2>1, ShapeKept
<1>4. DeadInv'
  BY <1>0 DEF DeadInv
<1> QED BY <1>1, <1>2, <1>3, <1>4 DEF IInv, Standing, Peers

(* A peer answers, or is given up.                                          *)
LEMMA IInvHeardPeer ==
  ASSUME CleansLast, IInv, NEW r \in Rank, NEW q \in Rank, HeardPeer(r, q) \/ PeerTimeout(r, q)
  PROVE  IInv'
<1>0. /\ Shape /\ MetInv /\ EnterInv /\ SyncInv /\ MaskInv
  BY IInvFacts
<1>1. /\ In(r, "clean") /\ run.shrink /\ run' = run /\ dead' = dead
      /\ Meets(r, kernel[r].round, [kernel[r].met EXCEPT ![q] = "met"])
      /\ kernel[r].met[q] = "wait"
  BY <1>0, HeardPeerStep
<1>2. /\ q # r /\ kernel'[r].met[r] = kernel[r].met[r]
      /\ [kernel[r].met EXCEPT ![q] = "met"] \in [Rank -> {"enter", "tell", "wait", "met"}]
      /\ [kernel[r].met EXCEPT ![q] = "met"][r] = kernel[r].met[r]
      /\ MetInv' /\ EnterInv'
  BY <1>0, <1>1, MetOther
<1>3. ~Active(Pos(r)) /\ r \notin dead
  BY <1>0, <1>1, CleanFacts
<1>4. AtEnd(r)
  BY <1>0, <1>1, CleanAtEnd
<1>5. /\ memory' = memory /\ staged' = staged /\ packed' = packed /\ outputs' = outputs
      /\ sync' = sync
  BY DEF HeardPeer, PeerTimeout
<1>6. mask' = mask \/ (mask' = [mask EXCEPT ![r] = @ \cup {q}] /\ AtEnd(q))
                   \/ (mask' = [mask EXCEPT ![r] = @ \cup {q}] /\ q \in dead /\ Quiet(q, r))
  <2>1. CASE HeardPeer(r, q)
    BY <2>1 DEF HeardPeer
  <2>2. CASE PeerTimeout(r, q)
    <3>1. mask' = [mask EXCEPT ![r] = @ \cup {q}]
      BY <2>2 DEF PeerTimeout
    <3>2. CASE GivenUp(r, q)
      <4>1. (q \in dead \/ r \in mask[q]) /\ Quiet(q, r)
        BY <3>2 DEF GivenUp, Masked
      <4>2. r \in mask[q] => AtEnd(q)
        BY <1>0, <1>3 DEF MaskInv
      <4> QED BY <3>1, <4>1, <4>2
    <3>3. CASE sync[r][q] < sync[r][r]
      <4>1. sync[r][r] <= 0 /\ (~AtEnd(q) => sync[r][q] = 0)
        BY <1>0, <1>1 DEF SyncInv
      <4>2. sync[r][r] \in Int
        BY <1>0 DEF Shape
      <4>3. AtEnd(q)
        BY <3>3, <4>1, <4>2
      <4> QED BY <3>1, <4>3
    <3> QED BY <2>2, <3>2, <3>3 DEF PeerTimeout
  <2> QED BY <2>1, <2>2
<1>7. mask' \in [Rank -> SUBSET Rank] /\ (\A x \in Rank : mask[x] \subseteq mask'[x])
      /\ \A x \in Rank : \A z \in mask'[x] : z \in mask[x] \/ (x = r /\ z = q /\ mask' # mask)
  <2>1. mask \in [Rank -> SUBSET Rank]
    BY <1>0 DEF Shape
  <2>2. CASE mask' = mask
    BY <2>1, <2>2
  <2>3. CASE mask' = [mask EXCEPT ![r] = @ \cup {q}]
    <3>1. mask' \in [Rank -> SUBSET Rank]
      BY <2>1, <2>3
    <3>2. \A x \in Rank : mask'[x] = IF x = r THEN mask[r] \cup {q} ELSE mask[x]
      BY <2>1, <2>3
    <3>3. \A x \in Rank : \A z \in mask'[x] : z \notin mask[x] => x = r /\ z = q /\ mask' # mask
      BY <2>1, <3>2
    <3> QED BY <3>1, <3>2, <3>3
  <2> QED BY <1>6, <2>2, <2>3
<1>8. \A x \in Rank : (Pos(x)' = Pos(x))
        /\ (kernel'[x].met[x] = "met" => kernel[x].met[x] = "met")
  <2>1. \A x \in Rank : x # r => kernel'[x] = kernel[x]
    BY <1>1 DEF Meets, Becomes, Alone
  <2>2. Pos(r)' = Pos(r)
    BY <1>1, BecomesFacts DEF Meets
  <2> QED BY <1>1, <1>2, <2>1, <2>2, SameKernel
<1>9. \A x \in Rank : AtEnd(x) => AtEnd(x)'
  BY <1>0, <1>1, <1>8, AtEndKept
<1>10. SyncInv'
  <2>1. wire' = wire
    BY <1>5 DEF memory
  <2> QED BY <1>0, <1>1, <1>5, <1>8, <1>9, <2>1, SyncKept
<1>11. MaskInv'
  <2>1. \A s \in dead, d \in Rank : Quiet(s, d) => Quiet(s, d)'
    BY <1>1, <1>5, Fixed DEF Quiet, memory
  <2>2. \A x \in Rank : \A z \in mask'[x] :
           z \in mask[x] \/ (z \in dead /\ Quiet(z, x)) \/ (AtEnd(x) /\ AtEnd(z))
    BY <1>4, <1>6, <1>7
  <2> QED BY <1>0, <1>1, <1>9, <2>1, <2>2, MaskKept
<1> QED BY <1>1, <1>2, <1>3, <1>5, <1>7, <1>10, <1>11, MeetsAll

(* A barrier is entered, or NVSHMEM lets the rank go.                       *)
LEMMA IInvEnterBarrier ==
  ASSUME CleansLast, IInv, NEW r \in Rank, EnterBarrier(r) \/ NvshmemBarrier(r)
  PROVE  IInv'
<1>0. /\ Shape /\ MetInv /\ EnterInv /\ SyncInv /\ MaskInv
  BY IInvFacts
<1>1. /\ In(r, "clean") /\ run' = run /\ dead' = dead /\ MetInv' /\ EnterInv'
      /\ \E m \in [Rank -> {"enter", "tell", "wait", "met"}] :
            Meets(r, kernel[r].round, m) /\ m[r] # "enter"
  BY <1>0, EnterBarrierStep, NvshmemBarrierStep
<1>2. PICK m \in [Rank -> {"enter", "tell", "wait", "met"}] :
        Meets(r, kernel[r].round, m) /\ m[r] # "enter"
  BY <1>1
<1>3. ~Active(Pos(r)) /\ r \notin dead
  BY <1>0, <1>1, CleanFacts
<1>4. /\ memory' = memory /\ staged' = staged /\ packed' = packed /\ outputs' = outputs
      /\ mask' = mask
  BY DEF EnterBarrier, NvshmemBarrier
<1>5. EnterBarrier(r) => sync' = [sync EXCEPT ![r][r] = @ - 1]
  BY DEF EnterBarrier
<1>6. NvshmemBarrier(r) => sync' = sync /\ ~run.shrink
  BY DEF NvshmemBarrier
<1>7. sync' \in [Rank -> [Rank -> Int]]
  <2>1. sync \in [Rank -> [Rank -> Int]]
    BY <1>0 DEF Shape
  <2>2. sync' = [sync EXCEPT ![r][r] = @ - 1] => sync' \in [Rank -> [Rank -> Int]]
    BY <2>1
  <2> QED BY <1>5, <1>6, <2>1, <2>2
<1>8. \A x \in Rank : Pos(x)' = Pos(x) /\ (x # r => kernel'[x] = kernel[x])
  <2>1. \A x \in Rank : x # r => kernel'[x] = kernel[x]
    BY <1>2 DEF Meets, Becomes, Alone
  <2>2. Pos(r)' = Pos(r)
    BY <1>2, BecomesFacts DEF Meets
  <2> QED BY <1>1, <2>1, <2>2, SameKernel
<1>9. \A x \in Rank : AtEnd(x) => AtEnd(x)'
  BY <1>0, <1>1, <1>8, AtEndKept
<1>10. SyncInv'
  <2> SUFFICES ASSUME run.shrink, NEW x \in Rank
               PROVE  /\ sync'[x][x] <= 0 /\ (kernel'[x].met[x] = "met" => sync'[x][x] < 0)
                      /\ ~AtEnd(x)' =>
                           /\ \A q \in Rank : sync'[q][x] = 0
                           /\ \A q \in Rank, l \in Local : NoSync(wire'[x][q][l])
    BY <1>1, Fixed DEF SyncInv, NoSync
  <2>1. wire' = wire /\ sync' = [sync EXCEPT ![r][r] = @ - 1]
    BY <1>4, <1>5, <1>6 DEF memory
  <2>2. /\ sync[x][x] <= 0 /\ (kernel[x].met[x] = "met" => sync[x][x] < 0)
        /\ ~AtEnd(x) =>
             /\ \A q \in Rank : sync[q][x] = 0
             /\ \A q \in Rank, l \in Local : NoSync(wire[x][q][l])
    BY <1>0 DEF SyncInv
  <2>3. CASE x # r
    <3>1. \A q \in Rank : sync'[q][x] = sync[q][x]
      BY <1>0, <2>1, <2>3 DEF Shape
    <3> QED BY <1>8, <1>9, <2>1, <2>2, <2>3, <3>1
  <2>4. CASE x = r
    <3>1. AtEnd(r)
      BY <1>0, <1>1, CleanAtEnd
    <3>2. sync'[r][r] = sync[r][r] - 1 /\ sync[r][r] \in Int
      BY <1>0, <2>1 DEF Shape
    <3> QED BY <1>9, <2>2, <2>4, <3>1, <3>2
  <2> QED BY <2>3, <2>4
<1>11. MaskInv'
  <2>1. \A s \in dead, d \in Rank : Quiet(s, d) => Quiet(s, d)'
    BY <1>1, <1>4, Fixed DEF Quiet, memory
  <2> QED BY <1>0, <1>1, <1>4, <1>9, <2>1, MaskKept
<1> QED BY <1>1, <1>2, <1>3, <1>4, <1>7, <1>10, <1>11, MeetsAll

(***************************************************************************)
(* Sending.  What goes out that is not of buffer b changes nothing for the *)
(* calls that use b.                                                       *)
(***************************************************************************)
Aside(s, d, q, b) ==
  \/ wire'[s][d][q] = wire[s][d][q]
  \/ s \notin dead /\ \E x \in Msg : ~OfBuf(x, b) /\ wire'[s][d][q] = Append(wire[s][d][q], x)
Unchanged(s, d, q, m) ==
  /\ Untold(wire[s][d][q], Side(m), WordAt(s, d, q, m))
       => Untold(wire[s][d][q], Side(m), WordAt(s, d, q, m))'
  /\ Signalled(s, d, q, m) => Signalled(s, d, q, m)'
  /\ Lost(s, d, q, m)' <=> Lost(s, d, q, m)

(* Signals.                                                                 *)
LEMMA AsideSignal ==
  ASSUME Shape, run' = run, dead' = dead, NEW s \in Rank, NEW d \in Rank, NEW q \in Local,
         NEW m, WordAt(s, d, q, m)' = WordAt(s, d, q, m), Aside(s, d, q, Side(m))
  PROVE  /\ Unchanged(s, d, q, m)
         /\ (Told(s, d, q, m)' <=> Told(s, d, q, m)) /\ SignalOK(s, d, q, m)
              => SignalOK(s, d, q, m)'
<1>1. PICK b : b = Side(m) /\ b = Side(m)'
  BY Fixed
<1>2. PICK i : i = WordOf(m, s, q) /\ i = WordOf(m, s, q)'
  BY FixedToo
<1>3. PICK v : v = ValueOf(m, s, d, q) /\ v = ValueOf(m, s, d, q)'
  BY FixedToo
<1>4. PICK c : c = WordAt(s, d, q, m) /\ c = WordAt(s, d, q, m)'
  OBVIOUS
<1>5. PICK w : w = wire[s][d][q] /\ w \in Seq(Msg)
  BY DEF Shape
<1>6. PICK z : z = wire'[s][d][q]
  OBVIOUS
<1>7. z = w \/ (s \notin dead /\ \E x \in Msg : ~OfBuf(x, b) /\ z = Append(w, x))
  BY <1>1, <1>5, <1>6 DEF Aside
<1>8. /\ Untold(w, b, c) => Untold(z, b, c)
      /\ Landed(w, b, v, c) => Landed(z, b, v, c)
      /\ Coming(w, b, i, v, c) => Coming(z, b, i, v, c)
  <2>1. CASE z = w
    BY <2>1
  <2>2. ASSUME NEW x \in Msg, ~OfBuf(x, b), z = Append(w, x)
        PROVE  /\ Untold(w, b, c) => Untold(z, b, c)
               /\ Landed(w, b, v, c) => Landed(z, b, v, c)
               /\ Coming(w, b, i, v, c) => Coming(z, b, i, v, c)
    <3>1. ~AddMsg(x, b)
      BY <2>2 DEF OfBuf, AddMsg
    <3> QED BY <1>5, <2>2, <3>1, OtherSent
  <2> QED BY <1>7, <2>1, <2>2
<1>9. s \in dead => z = w
  BY <1>7
<1>10. Untold(wire[s][d][q], Side(m), WordAt(s, d, q, m))
       => Untold(wire[s][d][q], Side(m), WordAt(s, d, q, m))'
  BY <1>1, <1>4, <1>5, <1>6, <1>8 DEF Untold
<1>11. Signalled(s, d, q, m) => Signalled(s, d, q, m)'
  BY <1>1, <1>3, <1>4, <1>5, <1>6, <1>8 DEF Signalled, Landed
<1>12. Lost(s, d, q, m)' <=> Lost(s, d, q, m)
  BY <1>4, <1>5, <1>6, <1>9 DEF Lost
<1>13. Coming(wire[s][d][q], Side(m), WordOf(m, s, q), ValueOf(m, s, d, q), WordAt(s, d, q, m))
         => Coming(wire[s][d][q], Side(m), WordOf(m, s, q), ValueOf(m, s, d, q), WordAt(s, d, q, m))'
  BY <1>1, <1>2, <1>3, <1>4, <1>5, <1>6, <1>8 DEF Coming
<1> QED BY <1>10, <1>11, <1>12, <1>13 DEF Unchanged, SignalOK

(* Rows and messages, likewise.                                             *)
LEMMA AsideHolds ==
  ASSUME Shape, run' = run, NEW s \in Rank, NEW d \in Rank, NEW q \in Local, NEW m,
         staged'[s][Side(m)] = staged[s][Side(m)], region'[d][Side(m)] = region[d][Side(m)],
         Aside(s, d, q, Side(m))
  PROVE  HoldsKept(s, d, q, m)
<1> SUFFICES ASSUME NEW P, NEW row, Holds(s, d, q, m, P, row) PROVE Holds(s, d, q, m, P, row)'
  BY DEF HoldsKept
<1>1. PICK b : b = Side(m) /\ b = Side(m)'
  BY Fixed
<1>2. PICK w : w = wire[s][d][q] /\ w \in Seq(Msg)
  BY DEF Shape
<1>3. PICK z : z = wire'[s][d][q]
  OBVIOUS
<1>4. PICK st : st = staged[s][b] /\ st = staged'[s][b]
  BY <1>1
<1>5. PICK rg : rg = region[d][b] /\ rg = region'[d][b]
  BY <1>1
<1>6. HoldsIn(w, b, st, rg, P, row)
  BY <1>1, <1>2, <1>4, <1>5 DEF Holds
<1>7. HoldsIn(z, b, st, rg, P, row)
  <2>1. CASE z = w
    BY <1>6, <2>1
  <2>2. ASSUME NEW x \in Msg, ~OfBuf(x, b), z = Append(w, x)
        PROVE  HoldsIn(z, b, st, rg, P, row)
    <3>1. ~RowMsg(x, b, P)
      BY <2>2 DEF OfBuf, RowMsg
    <3> QED BY <1>2, <1>6, <2>2, <3>1, HoldsAppend
  <2> QED BY <1>1, <1>2, <1>3, <2>1, <2>2 DEF Aside
<1> QED BY <1>1, <1>3, <1>4, <1>5, <1>7 DEF Holds

(* What has been taken is not sent again.                                   *)
LEMMA AsideTaken ==
  ASSUME Shape, run' = run, dead' = dead, NEW d \in Rank, NEW s \in Rank, NEW q \in Local,
         NEW m,
         TakenOK(d, s, q, m), Signalled(s, d, q, m) => Signalled(s, d, q, m)',
         Extent(d, m, s, q)' = Extent(d, m, s, q), s \in mask[d] => s \in mask'[d],
         s \in dead /\ Quiet(s, d) => Quiet(s, d)'
  PROVE  TakenOK(d, s, q, m)'
BY Fixed DEF TakenOK

(***************************************************************************)
(* Cleaning.  A rank zeroes the words of the call after its own while      *)
(* nobody has begun that call.                                             *)
(***************************************************************************)
LEMMA Cleaning ==
  ASSUME Shape, KernelInv, PosInv, Channels, TakenInv, NEW r \in Rank \ dead,
         ~Ready(r, Pos(r) + 1), run' = run, dead' = dead, wire' = wire, region' = region,
         staged' = staged, mask' = mask, layout' = layout,
         \A x \in Rank : x # r => kernel'[x] = kernel[x] /\ word'[x] = word[x],
         Pos(r)' = Pos(r), kernel'[r].step = kernel[r].step, ToldSame,
         \A s, d \in Rank, q \in Local, m \in 1 .. NumCalls :
              m <= Pos(s) => RowsSame(s, d, q, m) /\ Handed(s, m),
         \A i \in Expert : word'[r][Side(Pos(r) + 1)][i] = 0,
         Active(Pos(r)) => word'[r][Side(Pos(r))] = word[r][Side(Pos(r))]
  PROVE  Channels' /\ TakenInv'
<1>0. /\ MemInv /\ SignalInv /\ HoldsInv /\ WireInv /\ NVLinkInv /\ run \in Runs
      /\ NumCalls \in Nat /\ Pos(r) \in Nat \ {0}
  BY KernelTypes DEF Channels, Shape
<1>1. \A x \in Rank : Pos(x)' = Pos(x)
  BY SameKernel
<1>2. ASSUME NEW m \in 1 .. NumCalls, m = Pos(r) + 1, NEW s \in Rank, Pos(s) >= m PROVE FALSE
  <2>1. Pos(s) <= Pos(r)
    BY <1>2, NoneAhead
  <2>2. Pos(s) \in Nat
    BY KernelTypes
  <2> QED BY <1>0, <1>2, <2>1, <2>2
<1>3. ASSUME NEW d \in Rank, NEW m \in 1 .. NumCalls, Active(m), Near(d, m),
             d # r \/ m = Pos(r),
             NEW s \in Rank, NEW q \in Local
      PROVE  WordAt(s, d, q, m)' = WordAt(s, d, q, m)
  <2>1. word'[d][Side(m)] = word[d][Side(m)]
    BY <1>3
  <2> QED BY <2>1, Fixed, FixedToo DEF WordAt
<1>4. SignalInv'
  <2> SUFFICES ASSUME NEW s \in Rank, NEW d \in Rank \ dead, NEW q \in Local,
                      NEW m \in 1 .. NumCalls, Active(m), Ready(d, m)'
               PROVE  SignalOK(s, d, q, m)'
    BY Fixed DEF SignalInv
  <2>1. Told(s, d, q, m)' <=> Told(s, d, q, m)
    BY DEF ToldSame
  <2>2. Near(d, m)
    BY <1>1, Fixed DEF Ready, Near
  <2>3. CASE d # r \/ m = Pos(r)
    <3>1. WordAt(s, d, q, m)' = WordAt(s, d, q, m)
      BY <1>3, <2>2, <2>3
    <3>2. Ready(d, m)
      BY <2>3, SameKernel DEF Ready
    <3>3. SignalOK(s, d, q, m)
      BY <1>0, <3>2 DEF SignalInv
    <3> QED BY <2>1, <3>1, <3>3, AsideSignal DEF Aside
  <2>4. CASE d = r /\ m # Pos(r)
    <3>1. m = Pos(r) + 1
      BY <2>2, <2>4 DEF Near
    <3>2. ~Told(s, r, q, m)
      <4>1. Told(s, r, q, m) => Pos(s) >= m
        BY ToldReached
      <4> QED BY <1>2, <3>1, <4>1
    <3>3. WordAt(s, r, q, m)' = 0
      <4>1. WordOf(m, s, q) \in Expert
        BY <1>0, ValueFacts
      <4> QED BY <3>1, <4>1, Fixed, FixedToo DEF WordAt
    <3>4. ASSUME NEW i \in DOMAIN wire[s][r][q], AddMsg(wire[s][r][q][i], Side(m)) PROVE FALSE
      <4>1. wire[s][r][q][i].kind # "sync" /\ wire[s][r][q][i].buf = Side(m)
        BY <3>4 DEF AddMsg
      <4>2. PICK n \in 1 .. NumCalls : Near(r, n) /\ IsMsg(s, r, q, n, wire[s][r][q][i])
        BY <1>0, <4>1 DEF WireInv
      <4>3. Active(n) /\ Side(n) = Side(m) /\ n <= Pos(s)
        BY <4>1, <4>2 DEF IsMsg
      <4>4. n = m
        BY <2>2, <2>4, <4>2, <4>3, SameCall
      <4>5. Pos(s) >= m
        BY <4>3, <4>4
      <4> QED BY <1>2, <3>1, <4>5
    <3>5. Untold(wire[s][r][q], Side(m), WordAt(s, r, q, m))'
      BY <3>3, <3>4, Fixed DEF Untold
    <3> QED BY <2>1, <2>4, <3>2, <3>5 DEF SignalOK
  <2> QED BY <2>3, <2>4
<1>5. HoldsInv'
  <2> SUFFICES ASSUME NEW s \in Rank, NEW d \in Rank \ dead, NEW q \in Local,
                      NEW m \in 1 .. NumCalls, Near(d, m)', Pos(s)' >= m, ~Lost(s, d, q, m)'
               PROVE  RowsOK(s, d, q, m)'
    BY Fixed DEF HoldsInv
  <2>1. Near(d, m) /\ Pos(s) >= m /\ m <= Pos(s)
    BY <1>1 DEF Near
  <2>2. CASE ~Active(m)
    BY <2>2, Fixed DEF RowsOK, Active
  <2>3. CASE Active(m)
    <3>1. d # r \/ m = Pos(r)
      BY <1>2, <2>1 DEF Near
    <3>2. WordAt(s, d, q, m)' = WordAt(s, d, q, m)
      BY <1>3, <2>1, <2>3, <3>1
    <3>3. ~Lost(s, d, q, m)
      BY <3>2 DEF Lost
    <3>4. RowsOK(s, d, q, m)
      BY <1>0, <2>1, <3>3 DEF HoldsInv
    <3>5. RowsSame(s, d, q, m)
      BY <2>1
    <3>6. HoldsKept(s, d, q, m)
      BY MemorySame
    <3> QED BY <3>4, <3>5, <3>6, RowsKept DEF RowsSame
  <2> QED BY <2>2, <2>3
<1>6. WireInv'
  BY <1>0, <1>1, WireFrame DEF RowsSame
<1>7. MemInv' /\ NVLinkInv'
  BY <1>0, Fixed, FixedToo DEF MemInv, NVLinkInv, Quiet
<1>8. TakenInv'
  <2> SUFFICES ASSUME NEW d \in Rank \ dead, NEW s \in Rank, NEW q \in Local,
                      Active(Pos(d))', Taken(d, s, q)'
               PROVE  TakenOK(d, s, q, Pos(d))'
    BY Fixed DEF TakenInv
  <2>1. PICK n : n = Pos(d) /\ n = Pos(d)'
    BY <1>1
  <2>2. Active(n) /\ Taken(d, s, q)
    <3>1. Step(d, s, q)' = Step(d, s, q)
      BY SameKernel, Fixed DEF Step
    <3> QED BY <2>1, <3>1, Fixed DEF Taken
  <2>3. n \in 1 .. NumCalls /\ Near(d, n)
    BY <2>1, <2>2, KindFacts DEF Near
  <2>4. WordAt(s, d, q, n)' = WordAt(s, d, q, n)
    BY <1>3, <2>1, <2>2, <2>3
  <2>5. Unchanged(s, d, q, n)
    BY <2>4, AsideSignal DEF Aside
  <2>6. TakenOK(d, s, q, n)
    BY <2>1, <2>2 DEF TakenInv
  <2>7. TakenOK(d, s, q, n)'
    <3>1. Extent(d, n, s, q)' = Extent(d, n, s, q)
      BY DEF Extent
    <3>2. Quiet(s, d) => Quiet(s, d)'
      BY Fixed DEF Quiet
    <3> QED BY <2>5, <2>6, <3>1, <3>2, AsideTaken DEF Unchanged
  <2> QED BY <2>1, <2>7
<1> QED BY <1>4, <1>5, <1>6, <1>7, <1>8 DEF Channels

(* The counts and the masks, where neither changes.                         *)
LEMMA PeersKept ==
  ASSUME IInv, run' = run, dead' = dead, sync' = sync, mask' = mask, wire' = wire,
         \A x \in Rank : Pos(x)' = Pos(x) \/ Pos(x)' = Pos(x) + 1,
         \A x \in Rank : kernel'[x].met[x] = "met" => kernel[x].met[x] = "met"
  PROVE  Peers'
<1>0. Shape /\ SyncInv /\ DeadInv /\ MaskInv
  BY IInvFacts
<1>1. \A x \in Rank : AtEnd(x) => AtEnd(x)'
  BY <1>0, AtEndKept
<1>2. SyncInv'
  BY <1>0, <1>1, SyncKept
<1>3. MaskInv'
  <2>1. \A s \in dead, d \in Rank : Quiet(s, d) => Quiet(s, d)'
    BY Fixed DEF Quiet
  <2> QED BY <1>0, <1>1, <2>1, MaskKept
<1>4. DeadInv'
  BY <1>0 DEF DeadInv
<1> QED BY <1>2, <1>3, <1>4 DEF Peers

(* After the first barrier of a clean both buffers are zeroed.              *)
LEMMA IInvAfterFirst ==
  ASSUME IInv, NEW r \in Rank, AfterBarrier(r), kernel[r].round = 1
  PROVE  IInv'
<1>0. /\ Shape /\ IdxInv /\ KernelInv /\ PosInv /\ MetInv /\ EnterInv /\ Channels
           /\ TakenInv /\ Keeps
  BY IInvFacts
<1>1. /\ In(r, "clean") /\ run' = run /\ dead' = dead
      /\ Meets(r, 2, Unmet) /\ sync' = sync
      /\ Unmet \in [Rank -> {"enter", "tell", "wait", "met"}]
      /\ word' = [word EXCEPT ![r] = [b \in {0, 1} |-> [i \in Expert |-> 0]]]
      /\ MetInv' /\ EnterInv'
  BY <1>0, AfterFirstStep
<1>2. ~Active(Pos(r)) /\ r \in Rank \ dead
  BY <1>0, <1>1, CleanFacts
<1>3. /\ region' = region /\ wire' = wire /\ staged' = staged /\ mask' = mask
           /\ packed' = packed
      /\ outputs' = outputs /\ layout' = layout /\ rows' = rows /\ out' = out
  BY DEF AfterBarrier, outputs
<1>4. /\ Becomes(r, kernel[r].cleaned, kernel[r].todo, kernel[r].finish, kernel[r].step, 2, Unmet)
      /\ counter' = counter
      /\ kernel'[r].step = kernel[r].step /\ kernel'[r].met = Unmet /\ Pos(r)' = Pos(r)
      /\ \A x \in Rank : x # r => kernel'[x] = kernel[x]
  BY <1>1, BecomesFacts DEF Meets, Alone
<1>5. kernel' \in [Rank -> Kernels'] /\ KernelInv' /\ IdxInv' /\ PosInv'
  <2>1. PICK k \in {1, 2} : k = 2
    OBVIOUS
  <2>2. Meets(r, k, Unmet)
    BY <1>1, <2>1
  <2> QED BY <1>0, <1>1, <1>2, <2>1, <2>2, MeetsKeep
<1>6. Standing'
  BY <1>1, <1>5 DEF Standing
<1>7. \A x \in Rank : Pos(x)' = Pos(x) /\ kernel'[x].step = kernel[x].step
  BY <1>4, <1>1, SameKernel
<1>8. Peers'
  <2>1. Unmet[r] = "enter"
    BY DEF Unmet
  <2> QED BY <1>1, <1>3, <1>4, <1>7, <2>1, PeersKept
<1>9. Keeps'
  BY <1>0, <1>1, <1>3, <1>7, KeepsFrame
<1>10. Shape'
  <2>1. word' \in [Rank -> [{0, 1} -> [Expert -> Int]]]
    <3>1. word \in [Rank -> [{0, 1} -> [Expert -> Int]]]
      BY <1>0 DEF Shape
    <3>2. [b \in {0, 1} |-> [i \in Expert |-> 0]] \in [{0, 1} -> [Expert -> Int]]
      OBVIOUS
    <3> QED BY <1>1, <3>1, <3>2
  <2>2. dead \in SUBSET Rank
    BY <1>0 DEF Shape
  <2> QED BY <1>0, <1>1, <1>3, <1>4, <1>5, <2>1, <2>2, ShapeKept
<1>11. Channels' /\ TakenInv'
  <2>1. Retained(r)
    BY <1>3 DEF Retained
  <2>2. /\ ToldSame
        /\ \A s, d \in Rank, q \in Local, n \in 1 .. NumCalls :
             n <= Pos(s) => RowsSame(s, d, q, n) /\ Handed(s, n)
    BY <1>0, <1>4, <2>1, QuietRows
  <2>3. ~Ready(r, Pos(r) + 1)
    <3>1. Pos(r) \in Nat /\ Pos(r) + 1 # Pos(r)
      BY <1>0, KernelTypes
    <3> QED BY <1>2, <3>1 DEF Ready
  <2>4. word' = [x \in Rank |-> IF x = r THEN [b \in {0, 1} |-> [i \in Expert |-> 0]] ELSE word[x]]
    <3>1. word \in [Rank -> [{0, 1} -> [Expert -> Int]]]
      BY <1>0 DEF Shape
    <3> QED BY <1>1, <3>1
  <2>5. \A i \in Expert : word'[r][Side(Pos(r) + 1)][i] = 0
    <3>1. Side(Pos(r) + 1) \in {0, 1}
      BY <1>0, KernelTypes, SideFacts
    <3>2. word'[r] = [b \in {0, 1} |-> [i \in Expert |-> 0]]
      BY <2>4
    <3> QED BY <3>1, <3>2
  <2>6. \A x \in Rank : x # r => kernel'[x] = kernel[x] /\ word'[x] = word[x]
    BY <1>4, <2>4
  <2> QED BY <1>0, <1>1, <1>2, <1>3, <1>4, <2>2, <2>3, <2>5, <2>6, Cleaning
<1> QED BY <1>6, <1>8, <1>9, <1>10, <1>11 DEF IInv

(* A kernel zeroes the words of the next buffer.                            *)
LEMMA IInvCleanNext ==
  ASSUME IInv, NEW r \in Rank, CleanNext(r)
  PROVE  IInv'
<1>0. /\ Shape /\ IdxInv /\ KernelInv /\ PosInv /\ MetInv /\ EnterInv /\ Channels
           /\ TakenInv /\ Keeps
      /\ run \in Runs
  BY IInvFacts DEF Shape
<1> DEFINE F == IF KindOf(Pos(r)) = "dispatch"
                THEN [e \in Expert |-> kernel[r].finish[e] + Tag] ELSE kernel[r].finish
<1>1. /\ r \in Rank \ dead /\ dead' = dead /\ Active(Pos(r)) /\ ~kernel[r].cleaned
      /\ kernel'[r].cleaned = TRUE
      /\ Becomes(r, kernel'[r].cleaned, kernel[r].todo, F, kernel[r].step, kernel[r].round, kernel[r].met)
      /\ kernel' = [x \in Rank |-> kernel'[x]]
      /\ KindOf(Pos(r)) = "dispatch" => counter' = counter
      /\ KindOf(Pos(r)) = "combine" =>
           counter' = [counter EXCEPT ![r][0] = @ + Cardinality(Expert)]
  BY <1>0, CleanNextStep
<1>2. F \in [Expert -> Int]
  <2>1. kernel[r].finish \in [Expert -> Int] /\ Tag \in Int
    BY <1>0, KernelTypes, RunFacts
  <2> QED BY <2>1
<1> HIDE DEF F
<1>3. /\ sync' = sync /\ region' = region /\ wire' = wire /\ staged' = staged /\ mask' = mask
      /\ packed' = packed /\ outputs' = outputs /\ layout' = layout /\ rows' = rows
           /\ out' = out
      /\ word' = [word EXCEPT ![r][NextBuf(r)] = [i \in Expert |-> 0]]
  BY DEF CleanNext, outputs
<1>4. /\ Alone(r) /\ run' = run /\ Pos(r)' = Pos(r) /\ kernel'[r].idx = kernel[r].idx
      /\ kernel'[r].step = kernel[r].step /\ kernel'[r].met = kernel[r].met
      /\ kernel'[r].round = kernel[r].round
      /\ \A x \in Rank : x # r => kernel'[x] = kernel[x]
  BY <1>1, BecomesFacts DEF Alone
<1>5. kernel' \in [Rank -> Kernels']
  <2>1. /\ kernel[r].todo \in SUBSET Items /\ kernel[r].step \in [Expert -> Steps]
        /\ kernel[r].round \in {1, 2}
        /\ kernel[r].met \in [Rank -> {"enter", "tell", "wait", "met"}]
        /\ kernel'[r].cleaned \in BOOLEAN
    BY <1>0, <1>1, KernelTypes
  <2>2. kernel'[r] \in Kernels
    <3>1. kernel[r].idx \in {0, 1} /\ kernel[r].call \in 1 .. NumCalls + 1
      BY <1>0, KernelTypes DEF Pos
    <3> QED BY <1>1, <1>2, <2>1, <3>1 DEF Becomes, Kernels
  <2> QED BY <1>0, <1>1, <1>4, <2>2, KernelsKept
<1>6. Within(r)
  <2>1. \A d \in Rank, q \in Local : Step(r, d, q)' = Step(r, d, q)
    BY <1>4, Fixed DEF Step
  <2> QED BY <1>4, <2>1 DEF Within
<1>7. Standing'
  <2>1. KernelInv'
    BY <1>0, KernelCleanNext
  <2>2. IdxInv'
    BY <1>0, <1>4, IdxWithin
  <2>3. PosInv'
    BY <1>0, <1>6, PosWithin
  <2>4. StillMet
    BY <1>4, SameKernel DEF StillMet
  <2>5. MetInv' /\ EnterInv'
    BY <1>0, <1>3, <1>4, <2>4, MetStill
  <2> QED BY <2>1, <2>2, <2>3, <2>5 DEF Standing
<1>8. \A x \in Rank : Pos(x)' = Pos(x) /\ kernel'[x].step = kernel[x].step
        /\ kernel'[x].met = kernel[x].met
  BY <1>4, SameKernel
<1>9. Peers'
  BY <1>1, <1>3, <1>4, <1>8, PeersKept
<1>10. Keeps'
  BY <1>0, <1>1, <1>3, <1>4, <1>8, KeepsFrame
<1>11. NextBuf(r) = 1 - Side(Pos(r)) /\ Side(Pos(r)) \in {0, 1}
         /\ Side(Pos(r) + 1) = 1 - Side(Pos(r))
  BY <1>0, <1>1, BufFacts
<1>12. PICK b \in {0, 1} : b = NextBuf(r)
  BY <1>11
<1>13. /\ word' \in [Rank -> [{0, 1} -> [Expert -> Int]]]
       /\ word'[r][b] = [i \in Expert |-> 0]
       /\ \A x \in Rank : x # r => word'[x] = word[x]
       /\ \A c \in {0, 1} : c # b => word'[r][c] = word[r][c]
  <2>1. word \in [Rank -> [{0, 1} -> [Expert -> Int]]]
    BY <1>0 DEF Shape
  <2>2. word' = [word EXCEPT ![r][b] = [i \in Expert |-> 0]]
    BY <1>3, <1>12
  <2> QED BY <2>1, <2>2
<1>14. counter' = counter \/ counter' \in [Rank -> [Expert -> Nat]]
  <2>1. counter \in [Rank -> [Expert -> Nat]] /\ Cardinality(Expert) \in Nat /\ 0 \in Expert
    BY <1>0, IndexFacts DEF Shape
  <2>2. counter' = [counter EXCEPT ![r][0] = @ + Cardinality(Expert)]
          => counter' \in [Rank -> [Expert -> Nat]]
    BY <2>1
  <2> QED BY <1>1, <2>2 DEF Active
<1>15. Shape'
  <2>1. dead \in SUBSET Rank
    BY <1>0 DEF Shape
  <2> QED BY <1>0, <1>1, <1>3, <1>4, <1>5, <1>13, <1>14, <2>1, ShapeKept
<1>16. Channels' /\ TakenInv'
  <2>1. Retained(r)
    BY <1>3 DEF Retained
  <2>2. KindOf(Pos(r)) = "dispatch" => counter'[r] = counter[r]
    BY <1>1
  <2>3. \A x \in Rank : x # r => counter'[x] = counter[x]
    <3>1. counter' = [counter EXCEPT ![r][0] = @ + Cardinality(Expert)]
            => \A x \in Rank : x # r => counter'[x] = counter[x]
      BY <1>0 DEF Shape
    <3> QED BY <1>1, <3>1 DEF Active
  <2>4. /\ ToldSame
        /\ \A s, d \in Rank, q \in Local, n \in 1 .. NumCalls :
             n <= Pos(s) => RowsSame(s, d, q, n) /\ Handed(s, n)
    BY <1>0, <1>1, <2>1, <2>2, <2>3, QuietRows
  <2>5. ~Ready(r, Pos(r) + 1)
    <3>1. PICK n \in Nat : n = Pos(r)
      BY <1>0, KernelTypes
    <3>2. n + 1 # n
      OBVIOUS
    <3> QED BY <1>1, <3>1, <3>2 DEF Ready
  <2>6. \A i \in Expert : word'[r][Side(Pos(r) + 1)][i] = 0
    BY <1>11, <1>12, <1>13
  <2>7. word'[r][Side(Pos(r))] = word[r][Side(Pos(r))]
    BY <1>11, <1>12, <1>13
  <2>8. \A x \in Rank : x # r => kernel'[x] = kernel[x] /\ word'[x] = word[x]
    BY <1>4, <1>13
  <2> QED BY <1>0, <1>1, <1>3, <1>4, <2>4, <2>5, <2>6, <2>7, <2>8, Cleaning
<1> QED BY <1>7, <1>9, <1>10, <1>15, <1>16 DEF IInv

(* A count of the barrier is no message of a call.                          *)
LEMMA SyncSent ==
  ASSUME Shape, Channels, TakenInv, run' = run, dead' = dead, word' = word, region' = region,
         staged' = staged, mask' = mask, layout' = layout, ToldSame, ReadySame,
         \A x \in Rank : Pos(x)' = Pos(x) /\ kernel'[x].step = kernel[x].step,
         \A s, d \in Rank, q \in Local, m \in 1 .. NumCalls :
              m <= Pos(s) => RowsSame(s, d, q, m) /\ Handed(s, m),
         NEW r \in Rank \ dead, NEW t \in Rank, ~NVLink(r, t), NEW x \in Msg, x.kind = "sync",
         wire' = [wire EXCEPT ![r][t][0] = Append(@, x)]
  PROVE  Channels' /\ TakenInv'
<1>0. /\ MemInv /\ SignalInv /\ HoldsInv /\ WireInv /\ NVLinkInv /\ run \in Runs
      /\ wire \in [Rank -> [Rank -> [Local -> Seq(Msg)]]] /\ 0 \in Local
  BY IndexFacts DEF Channels, Shape
<1>1. ASSUME NEW s \in Rank, NEW d \in Rank, NEW q \in Local
      PROVE  wire'[s][d][q] = IF s = r /\ d = t /\ q = 0 THEN Append(wire[s][d][q], x)
                              ELSE wire[s][d][q]
  BY <1>0
<1>2. ASSUME NEW s \in Rank, NEW d \in Rank, NEW q \in Local, NEW b
      PROVE  Aside(s, d, q, b)
  <2>1. ~OfBuf(x, b)
    BY DEF OfBuf
  <2> QED BY <1>1, <2>1 DEF Aside
<1>3. ASSUME NEW s \in Rank, NEW d \in Rank, NEW q \in Local, NEW m
      PROVE  /\ WordAt(s, d, q, m)' = WordAt(s, d, q, m)
             /\ Unchanged(s, d, q, m)
  <2>1. WordAt(s, d, q, m)' = WordAt(s, d, q, m)
    BY Fixed, FixedToo DEF WordAt
  <2> QED BY <1>2, <2>1, AsideSignal
<1>4. SignalInv'
  <2> SUFFICES ASSUME NEW s \in Rank, NEW d \in Rank \ dead, NEW q \in Local,
                      NEW m \in 1 .. NumCalls, Active(m), Ready(d, m)'
               PROVE  SignalOK(s, d, q, m)'
    BY Fixed DEF SignalInv
  <2>1. SignalOK(s, d, q, m)
    BY <1>0 DEF SignalInv, ReadySame
  <2>2. Told(s, d, q, m)' <=> Told(s, d, q, m)
    BY DEF ToldSame
  <2> QED BY <1>2, <1>3, <2>1, <2>2, AsideSignal
<1>5. HoldsInv'
  <2> SUFFICES ASSUME NEW s \in Rank, NEW d \in Rank \ dead, NEW q \in Local,
                      NEW m \in 1 .. NumCalls, Near(d, m)', Pos(s)' >= m, ~Lost(s, d, q, m)'
               PROVE  RowsOK(s, d, q, m)'
    BY Fixed DEF HoldsInv
  <2>1. CASE ~Active(m)
    BY <2>1, Fixed DEF RowsOK, Active
  <2>2. CASE Active(m)
    <3>1. Near(d, m) /\ Pos(s) >= m /\ m <= Pos(s)
      BY DEF Near
    <3>2. ~Lost(s, d, q, m)
      BY <1>3 DEF Unchanged
    <3>3. RowsOK(s, d, q, m)
      BY <1>0, <3>1, <3>2 DEF HoldsInv
    <3>4. HoldsKept(s, d, q, m)
      BY <1>2, AsideHolds
    <3>5. RowsSame(s, d, q, m)
      BY <3>1
    <3> QED BY <3>3, <3>4, <3>5, RowsKept DEF RowsSame
  <2> QED BY <2>1, <2>2
<1>6. WireInv'
  <2> SUFFICES ASSUME NEW s \in Rank, NEW d \in Rank, NEW q \in Local, d \notin dead,
                      NEW i \in DOMAIN wire'[s][d][q], wire'[s][d][q][i].kind # "sync"
               PROVE  \E m \in 1 .. NumCalls : Near(d, m)'
                        /\ IsMsg(s, d, q, m, wire[s][d][q][i])'
    BY Fixed DEF WireInv
  <2>1. i \in DOMAIN wire[s][d][q] /\ wire'[s][d][q][i] = wire[s][d][q][i]
    <3>0. wire[s][d][q] \in Seq(Msg)
      BY <1>0
    <3>1. PICK w : w = wire[s][d][q] /\ w \in Seq(Msg)
      BY <3>0
    <3>2. CASE wire'[s][d][q] = w
      BY <3>1, <3>2
    <3>3. CASE wire'[s][d][q] = Append(w, x)
      BY <3>1, <3>3, AppendFacts
    <3> QED BY <1>1, <3>1, <3>2, <3>3
  <2>2. PICK y : y = wire[s][d][q][i] /\ y = wire'[s][d][q][i]
    BY <2>1
  <2>3. PICK m \in 1 .. NumCalls : Near(d, m) /\ IsMsg(s, d, q, m, y)
    <3>1. wire[s][d][q][i].kind # "sync"
      BY <2>1
    <3>2. PICK m \in 1 .. NumCalls : Near(d, m) /\ IsMsg(s, d, q, m, wire[s][d][q][i])
      BY <1>0, <2>1, <3>1 DEF WireInv
    <3>3. IsMsg(s, d, q, m, y)
      BY <2>2, <3>2
    <3> QED BY <3>2, <3>3
  <2>4. m <= Pos(s) /\ m <= Pos(s)'
    BY <2>3 DEF IsMsg
  <2>5. RowsSame(s, d, q, m) /\ Handed(s, m)
    BY <2>4
  <2>6. IsMsg(s, d, q, m, y)'
    BY <2>3, <2>4, <2>5, MsgKept DEF RowsSame
  <2>7. Near(d, m)'
    BY <2>3 DEF Near
  <2>8. IsMsg(s, d, q, m, wire[s][d][q][i])'
    BY <2>2, <2>6 DEF IsMsg, RowOf
  <2> QED BY <2>7, <2>8
<1>7. MemInv' /\ NVLinkInv'
  <2>1. MemInv'
    BY <1>0, FixedToo DEF MemInv
  <2>2. NVLinkInv'
    BY <1>0, <1>1, Fixed DEF NVLinkInv, Quiet
  <2> QED BY <2>1, <2>2
<1>8. TakenInv'
  <2> SUFFICES ASSUME NEW d \in Rank \ dead, NEW s \in Rank, NEW q \in Local,
                      Active(Pos(d))', Taken(d, s, q)'
               PROVE  TakenOK(d, s, q, Pos(d))'
    BY Fixed DEF TakenInv
  <2>1. PICK n : n = Pos(d) /\ n = Pos(d)'
    OBVIOUS
  <2>2. Active(n) /\ Taken(d, s, q)
    <3>1. Step(d, s, q)' = Step(d, s, q)
      BY Fixed DEF Step
    <3> QED BY <2>1, <3>1, Fixed DEF Taken
  <2>3. TakenOK(d, s, q, n)
    BY <2>1, <2>2 DEF TakenInv
  <2>4. Extent(d, n, s, q)' = Extent(d, n, s, q)
    BY DEF Extent
  <2>5. s \in dead /\ Quiet(s, d) => Quiet(s, d)'
    BY <1>1, Fixed DEF Quiet
  <2>6. TakenOK(d, s, q, n)'
    BY <1>3, <2>3, <2>4, <2>5, AsideTaken DEF Unchanged
  <2> QED BY <2>1, <2>6
<1> QED BY <1>4, <1>5, <1>6, <1>7, <1>8 DEF Channels

(* A peer is told the count.                                                *)
LEMMA IInvTellPeer ==
  ASSUME CleansLast, IInv, NEW r \in Rank, NEW t \in Rank, TellPeer(r, t)
  PROVE  IInv'
<1>0. /\ Shape /\ MetInv /\ EnterInv /\ SyncInv /\ MaskInv /\ IdxInv /\ KernelInv /\ PosInv
      /\ DeadInv /\ Channels /\ TakenInv /\ Keeps /\ run \in Runs
  BY IInvFacts DEF Shape
<1>1. /\ In(r, "clean") /\ run.shrink /\ run' = run /\ dead' = dead
      /\ \E v \in {"wait", "met"} : Meets(r, kernel[r].round, [kernel[r].met EXCEPT ![t] = v])
      /\ kernel[r].met[t] = "tell"
  BY <1>0, TellPeerStep
<1>2. PICK v \in {"wait", "met"} : Meets(r, kernel[r].round, [kernel[r].met EXCEPT ![t] = v])
  BY <1>1
<1>3. /\ t # r /\ kernel'[r].met[r] = kernel[r].met[r]
      /\ [kernel[r].met EXCEPT ![t] = v] \in [Rank -> {"enter", "tell", "wait", "met"}]
      /\ [kernel[r].met EXCEPT ![t] = v][r] = kernel[r].met[r]
      /\ MetInv' /\ EnterInv'
  BY <1>0, <1>1, <1>2, MetOther
<1>4. PICK mm \in [Rank -> {"enter", "tell", "wait", "met"}] :
             mm = [kernel[r].met EXCEPT ![t] = v]
  BY <1>3
<1>5. ~Active(Pos(r)) /\ r \notin dead
  BY <1>0, <1>1, CleanFacts
<1>6. AtEnd(r)
  BY <1>0, <1>1, CleanAtEnd
<1>7. /\ staged' = staged /\ packed' = packed /\ outputs' = outputs /\ mask' = mask
      /\ word' = word /\ region' = region
  BY DEF TellPeer
<1>8. \/ sync' = sync /\ wire' = wire
      \/ sync' = [sync EXCEPT ![t][r] = sync[r][r]] /\ wire' = wire
      \/ /\ ~NVLink(r, t) /\ sync' = sync
         /\ wire' = [wire EXCEPT ![r][t][0] = Append(@, [kind |-> "sync", value |-> sync[r][r]])]
  BY DEF TellPeer
<1>9. \A x \in Rank : (Pos(x)' = Pos(x))
        /\ (kernel'[x].met[x] = "met" => kernel[x].met[x] = "met")
  <2>1. \A x \in Rank : x # r => kernel'[x] = kernel[x]
    BY <1>2 DEF Meets, Becomes, Alone
  <2>2. Pos(r)' = Pos(r)
    BY <1>2, BecomesFacts DEF Meets
  <2> QED BY <1>1, <1>3, <2>1, <2>2, SameKernel
<1>10. \A x \in Rank : AtEnd(x) => AtEnd(x)'
  BY <1>0, <1>1, <1>9, AtEndKept
<1>11. /\ sync' \in [Rank -> [Rank -> Int]]
       /\ \A x \in Rank : sync'[x][x] = sync[x][x]
       /\ \A x \in Rank, q \in Rank : x # r => sync'[q][x] = sync[q][x]
  <2>1. sync \in [Rank -> [Rank -> Int]]
    BY <1>0 DEF Shape
  <2>2. CASE sync' = [sync EXCEPT ![t][r] = sync[r][r]]
    BY <1>3, <2>1, <2>2
  <2>3. CASE sync' = sync
    BY <2>1, <2>3
  <2> QED BY <1>8, <2>2, <2>3
<1>12. \A s, d \in Rank, q \in Local : s # r => wire'[s][d][q] = wire[s][d][q]
  BY <1>0, <1>8 DEF Shape
<1>13. SyncInv'
  <2> SUFFICES ASSUME NEW x \in Rank
               PROVE  /\ sync'[x][x] <= 0 /\ (kernel'[x].met[x] = "met" => sync'[x][x] < 0)
                      /\ ~AtEnd(x)' =>
                           /\ \A q \in Rank : sync'[q][x] = 0
                           /\ \A q \in Rank, l \in Local : NoSync(wire'[x][q][l])
    BY <1>1, Fixed DEF SyncInv, NoSync
  <2>1. /\ sync[x][x] <= 0 /\ (kernel[x].met[x] = "met" => sync[x][x] < 0)
        /\ ~AtEnd(x) =>
             /\ \A q \in Rank : sync[q][x] = 0
             /\ \A q \in Rank, l \in Local : NoSync(wire[x][q][l])
    BY <1>0, <1>1 DEF SyncInv
  <2>2. CASE x # r
    BY <1>9, <1>10, <1>11, <1>12, <2>1, <2>2
  <2>3. CASE x = r
    BY <1>6, <1>9, <1>10, <1>11, <2>1, <2>3
  <2> QED BY <2>2, <2>3
<1>14. MaskInv'
  <2>1. \A s \in dead, d \in Rank : Quiet(s, d) => Quiet(s, d)'
    <3>1. dead \subseteq Rank
      BY <1>0 DEF Shape
    <3> QED BY <1>1, <1>5, <1>12, <3>1, Fixed DEF Quiet
  <2> QED BY <1>0, <1>1, <1>7, <1>10, <2>1, MaskKept
<1>15. CASE wire' = wire
  <2>1. memory' = memory
    BY <1>7, <1>15 DEF memory
  <2>2. Meets(r, kernel[r].round, mm) /\ mm[r] = kernel[r].met[r]
    BY <1>2, <1>3, <1>4
  <2> QED BY <1>0, <1>1, <1>3, <1>5, <1>7, <1>11, <1>13, <1>14, <2>1, <2>2, MeetsAll
<1>16. CASE wire' = [wire EXCEPT ![r][t][0] = Append(@, [kind |-> "sync", value |-> sync[r][r]])]
            /\ ~NVLink(r, t)
  <2>1. PICK x \in Msg : x = [kind |-> "sync", value |-> sync[r][r]]
    <3>1. sync[r][r] \in Int
      BY <1>0 DEF Shape
    <3>2. [kind |-> "sync", value |-> sync[r][r]] \in [kind : {"sync"}, value : Int]
      BY <3>1
    <3> QED BY <3>2 DEF Msg
  <2>2. /\ Becomes(r, kernel[r].cleaned, kernel[r].todo, kernel[r].finish, kernel[r].step,
                   kernel[r].round, mm)
        /\ counter' = counter /\ layout' = layout /\ rows' = rows
        /\ kernel'[r].step = kernel[r].step
        /\ \A x0 \in Rank : x0 # r => kernel'[x0] = kernel[x0]
    BY <1>2, <1>4, <1>7, BecomesFacts DEF Meets, outputs, Alone
  <2>3. Retained(r)
    BY <2>2 DEF Retained
  <2>4. /\ ToldSame
        /\ \A s, d \in Rank, q \in Local, n \in 1 .. NumCalls :
             n <= Pos(s) => RowsSame(s, d, q, n) /\ Handed(s, n)
    BY <1>0, <2>2, <2>3, QuietRows
  <2>5. ReadySame
    BY <2>2, QuietReady
  <2>6. \A z \in Rank : Pos(z)' = Pos(z) /\ kernel'[z].step = kernel[z].step
    BY <1>9, <2>2
  <2>7. Channels' /\ TakenInv'
    <3>1. x.kind = "sync"
      BY <2>1
    <3> QED BY <1>0, <1>1, <1>5, <1>7, <1>16, <2>1, <2>2, <2>4, <2>5, <2>6, <3>1, SyncSent
  <2>8. Keeps'
    BY <1>0, <1>1, <1>7, <2>6, KeepsFrame
  <2>9. kernel' \in [Rank -> Kernels'] /\ KernelInv' /\ IdxInv' /\ PosInv'
    <3>1. PICK k \in {1, 2} : k = kernel[r].round
      BY <1>0, KernelTypes
    <3>2. Meets(r, k, mm) /\ mm[r] = kernel[r].met[r]
      BY <1>2, <1>3, <1>4, <3>1
    <3> QED BY <1>0, <1>5, <3>1, <3>2, MeetsKeep
  <2>10. Shape'
    <3>1. wire' \in [Rank -> [Rank -> [Local -> Seq(Msg)]]]
      <4>1. wire \in [Rank -> [Rank -> [Local -> Seq(Msg)]]] /\ 0 \in Local
        BY <1>0, IndexFacts DEF Shape
      <4>2. PICK w \in Seq(Msg) : w = Append(wire[r][t][0], x)
        <5>1. wire[r][t][0] \in Seq(Msg)
          BY <4>1
        <5> QED BY <5>1, AppendFacts
      <4>3. wire' = [wire EXCEPT ![r][t][0] = w]
        BY <1>16, <2>1, <4>2
      <4> QED BY <4>1, <4>3
    <3>2. dead \in SUBSET Rank /\ out' = out
      BY <1>0, <1>7 DEF Shape, outputs
    <3> QED BY <1>0, <1>1, <1>7, <1>11, <2>2, <2>9, <3>1, <3>2, ShapeKept
  <2>11. DeadInv'
    BY <1>0, <1>1 DEF DeadInv
  <2> QED BY <1>3, <1>13, <1>14, <2>7, <2>8, <2>9, <2>10, <2>11 DEF IInv, Standing, Peers
<1> QED BY <1>8, <1>15, <1>16

(***************************************************************************)
(* The groups that receive.                                                *)
(***************************************************************************)
Moved(r, e, v) == [kernel[r].step EXCEPT ![e] = v]
Goes(r, e, v) ==
  /\ Becomes(r, kernel[r].cleaned, kernel[r].todo, kernel[r].finish,
             Moved(r, e, v), kernel[r].round, kernel[r].met)
  /\ kernel' = [x \in Rank |-> kernel'[x]]
  /\ kernel[r].step[e] # "send" /\ r \notin dead /\ dead' = dead
  /\ counter' = counter /\ memory' = memory /\ staged' = staged /\ sync' = sync

(* One group goes on, and no other.                                         *)
LEMMA GoesFacts ==
  ASSUME Shape, NEW r \in Rank, NEW e \in Expert, NEW v \in {"taken", "done"}, Goes(r, e, v)
  PROVE  /\ Alone(r) /\ run' = run /\ Pos(r)' = Pos(r) /\ kernel'[r].idx = kernel[r].idx
         /\ kernel'[r].met = kernel[r].met /\ kernel'[r].round = kernel[r].round
         /\ \A x \in Rank : x # r => kernel'[x] = kernel[x]
         /\ \A x \in Rank : Pos(x)' = Pos(x)
         /\ \A x \in Rank : kernel'[x].met = kernel[x].met
         /\ kernel'[r].step = Moved(r, e, v)
         /\ Moved(r, e, v) \in [Expert -> Steps]
         /\ \A x \in Rank, s \in Rank, q \in Local : x # r \/ GlobalOf(s, q) # e =>
              Step(x, s, q)' = Step(x, s, q)
         /\ \A s \in Rank, q \in Local : GlobalOf(s, q) = e => Step(r, s, q)' = v
         /\ \A x \in Rank, s \in Rank, q \in Local :
              Step(x, s, q)' # "send" <=> Step(x, s, q) # "send"
<1>1. /\ Alone(r) /\ run' = run /\ Pos(r)' = Pos(r) /\ kernel'[r].idx = kernel[r].idx
      /\ kernel'[r].met = kernel[r].met /\ kernel'[r].round = kernel[r].round
      /\ kernel'[r].step = Moved(r, e, v)
      /\ \A x \in Rank : x # r => kernel'[x] = kernel[x]
  BY BecomesFacts DEF Goes, Alone
<1>2. /\ \A x \in Rank : Pos(x)' = Pos(x)
      /\ \A x \in Rank : kernel'[x].met = kernel[x].met
  BY <1>1, SameKernel
<1>3. Moved(r, e, v) \in [Expert -> Steps]
      /\ \A z \in Expert : Moved(r, e, v)[z] = IF z = e THEN v ELSE kernel[r].step[z]
  <2>1. kernel[r].step \in [Expert -> Steps]
    BY KernelTypes
  <2> QED BY <2>1 DEF Steps, Moved
<1>4. \A x \in Rank, s \in Rank, q \in Local : x # r \/ GlobalOf(s, q) # e =>
        Step(x, s, q)' = Step(x, s, q)
  <2> SUFFICES ASSUME NEW x \in Rank, NEW s \in Rank, NEW q \in Local,
                      x # r \/ GlobalOf(s, q) # e
               PROVE  Step(x, s, q)' = Step(x, s, q)
    OBVIOUS
  <2>1. CASE x # r
    BY <1>1, <2>1, SameKernel
  <2>2. CASE x = r
    <3>1. GlobalOf(s, q) \in Expert /\ GlobalOf(s, q)' = GlobalOf(s, q)
      BY <1>1, IndexFacts, Fixed DEF Shape
    <3> QED BY <1>1, <1>3, <2>2, <3>1 DEF Step
  <2> QED BY <2>1, <2>2
<1>5. \A s \in Rank, q \in Local : GlobalOf(s, q) = e => Step(r, s, q)' = v
  BY <1>1, <1>3, Fixed DEF Step
<1>6. \A s \in Rank, q \in Local : GlobalOf(s, q) = e => Step(r, s, q) # "send"
  BY DEF Goes, Step
<1>7. \A x \in Rank, s \in Rank, q \in Local :
        Step(x, s, q)' # "send" <=> Step(x, s, q) # "send"
  BY <1>4, <1>5, <1>6
<1> QED BY <1>1, <1>2, <1>3, <1>4, <1>5, <1>7

(* It moves neither the memory nor the distance of the ranks.               *)
LEMMA GoesKeep ==
  ASSUME Shape, Standing, Channels, NEW r \in Rank, NEW e \in Expert,
         NEW v \in {"taken", "done"},
         Goes(r, e, v), Active(Pos(r)), Retained(r),
         \A x \in Rank : x # r => layout'[x] = layout[x],
         KindOf(Pos(r)) = "dispatch" => AllSent(r),
         KindOf(Pos(r)) = "combine" => v = "taken"
  PROVE  /\ kernel' \in [Rank -> Kernels'] /\ Standing' /\ Channels'
<1>0. /\ IdxInv /\ KernelInv /\ PosInv /\ MetInv /\ EnterInv /\ run' = run /\ run \in Runs
      /\ dead' = dead /\ counter' = counter /\ memory' = memory /\ staged' = staged
           /\ sync' = sync
  <2>1. IdxInv /\ KernelInv /\ PosInv /\ MetInv /\ EnterInv /\ run \in Runs
    BY DEF Standing, Shape
  <2>2. run' = run
    BY GoesFacts
  <2> QED BY <2>1, <2>2 DEF Goes
<1>1. /\ Alone(r) /\ Pos(r)' = Pos(r) /\ kernel'[r].idx = kernel[r].idx
      /\ kernel'[r].met = kernel[r].met /\ kernel'[r].round = kernel[r].round
      /\ \A x \in Rank : Pos(x)' = Pos(x)
      /\ Moved(r, e, v) \in [Expert -> Steps]
      /\ \A x \in Rank, s \in Rank, q \in Local :
           Step(x, s, q)' # "send" <=> Step(x, s, q) # "send"
  BY GoesFacts
<1>2. PICK st \in [Expert -> Steps] : st = Moved(r, e, v)
  BY <1>1
<1>3. /\ Becomes(r, kernel[r].cleaned, kernel[r].todo, kernel[r].finish, st, kernel[r].round, kernel[r].met)
      /\ kernel' = [x \in Rank |-> kernel'[x]]
  BY <1>2 DEF Goes
<1>4. kernel' \in [Rank -> Kernels']
  <2>1. /\ kernel[r].cleaned \in BOOLEAN /\ kernel[r].todo \in SUBSET Items
        /\ kernel[r].finish \in [Expert -> Int] /\ kernel[r].round \in {1, 2}
        /\ kernel[r].met \in [Rank -> {"enter", "tell", "wait", "met"}]
    BY KernelTypes
  <2>2. kernel'[r] \in Kernels
    <3>1. kernel[r].idx \in {0, 1} /\ kernel[r].call \in 1 .. NumCalls + 1
      BY KernelTypes DEF Pos
    <3> QED BY <1>3, <2>1, <3>1 DEF Becomes, Kernels
  <2> QED BY <1>1, <1>3, <2>2, KernelsKept
<1>5. KernelInv'
  <2>1. KindOf(Pos(r)) = "combine" => layout'[r][Handle(Pos(r))] = layout[r][Handle(Pos(r))]
    <3>1. Pos(r) \in 1 .. NumCalls /\ Pos(r) <= Pos(r)
      BY KindFacts, KernelTypes
    <3> QED BY <3>1, HandedKept DEF Handed
  <2>2. \A x \in Rank : x # r => layout'[x] = layout[x]
    OBVIOUS
  <2> QED BY <1>0, <1>2, <1>3, <2>1, KernelGroup DEF Goes, Moved
<1>6. IdxInv'
  BY <1>0, <1>1, IdxWithin
<1>7. PosInv'
  <2>1. Within(r)
    BY <1>1 DEF Within
  <2> QED BY <1>0, <2>1, PosWithin
<1>8. MetInv' /\ EnterInv'
  <2>1. StillMet
    BY <1>3, BecomesStill
  <2> QED BY <1>0, <2>1, MetStill
<1>9. Channels'
  <2>1. \A x \in Expert : st[x] = "send" <=> kernel[r].step[x] = "send"
    <3>1. kernel[r].step \in [Expert -> Steps]
      BY KernelTypes
    <3> QED BY <1>2, <3>1 DEF Goes, Moved
  <2>2. /\ ToldSame
        /\ \A s, d \in Rank, q \in Local, n \in 1 .. NumCalls :
             n <= Pos(s) => RowsSame(s, d, q, n) /\ Handed(s, n)
    BY <1>0, <1>3, <2>1, QuietRows
  <2>3. ReadySame
    BY <1>3, QuietReady
  <2> QED BY <1>0, <1>1, <2>2, <2>3, QuietChannels
<1> QED BY <1>4, <1>5, <1>6, <1>7, <1>8, <1>9 DEF Standing

(* Only the dead and silent are masked by a rank that uses a buffer.        *)
Masks(r, s) ==
  \/ mask' = mask
  \/ mask' = [mask EXCEPT ![r] = @ \cup {s}] /\ s \in dead /\ Quiet(s, r)

(* The counts and the masks, when a group gives up a silent peer.           *)
LEMMA GoesPeers ==
  ASSUME IInv, NEW r \in Rank, NEW e \in Expert, NEW v \in {"taken", "done"}, Goes(r, e, v),
         NEW s \in Rank, Masks(r, s)
  PROVE  /\ Peers' /\ mask' \in [Rank -> SUBSET Rank] /\ \A x \in Rank :
              mask[x] \subseteq mask'[x]
<1>0. /\ Shape /\ SyncInv /\ DeadInv /\ MaskInv /\ mask \in [Rank -> SUBSET Rank]
  BY IInvFacts DEF Shape
<1>1. /\ run' = run /\ dead' = dead /\ \A x \in Rank : Pos(x)' = Pos(x)
      /\ \A x \in Rank : kernel'[x].met = kernel[x].met
  BY <1>0, GoesFacts DEF Goes
<1>2. sync' = sync /\ wire' = wire
  BY DEF Goes, memory
<1>3. \A x \in Rank : AtEnd(x) => AtEnd(x)'
  BY <1>0, <1>1, AtEndKept
<1>4. SyncInv'
  BY <1>0, <1>1, <1>2, <1>3, SyncKept
<1>5. DeadInv'
  BY <1>0, <1>1 DEF DeadInv
<1>6. /\ mask' \in [Rank -> SUBSET Rank]
      /\ \A x \in Rank : mask[x] \subseteq mask'[x]
      /\ \A x \in Rank : \A z \in mask'[x] :
           z \in mask[x] \/ (x = r /\ z = s /\ s \in dead /\ Quiet(s, r))
  <2>1. CASE mask' = mask
    BY <1>0, <2>1
  <2>2. CASE mask' = [mask EXCEPT ![r] = @ \cup {s}] /\ s \in dead /\ Quiet(s, r)
    <3>1. mask' \in [Rank -> SUBSET Rank]
      BY <1>0, <2>2
    <3>2. \A x \in Rank : mask'[x] = IF x = r THEN mask[r] \cup {s} ELSE mask[x]
      BY <1>0, <2>2
    <3> QED BY <2>2, <3>1, <3>2
  <2> QED BY <2>1, <2>2 DEF Masks
<1>7. MaskInv'
  <2>1. \A x \in dead, d \in Rank : Quiet(x, d) => Quiet(x, d)'
    BY <1>1, <1>2, Fixed DEF Quiet
  <2>2. \A x \in Rank : \A z \in mask'[x] :
           z \in mask[x] \/ (z \in dead /\ Quiet(z, x)) \/ (AtEnd(x) /\ AtEnd(z))
    BY <1>6
  <2> QED BY <1>0, <1>1, <1>3, <2>1, <2>2, MaskKept
<1> QED BY <1>4, <1>5, <1>6, <1>7 DEF Peers

(* What the group of source s and local expert q has seen, in a dispatch ... *)
Heard(r, s, q, n) ==
  \/ Signalled(s, r, q, Pos(r)) /\ n = Count(Pos(r), s, r, q)
  \/ n = 0 /\ s \in dead /\ Quiet(s, r)

(* It has seen the count, or given up its sender, which is dead.            *)
LEMMA TakeFacts ==
  ASSUME IInv, NEW r \in Rank, NEW e \in Expert, TakeCount(r, e) \/ TakeTimeout(r, e)
  PROVE  /\ r \notin dead /\ KindOf(Pos(r)) = "dispatch" /\ Active(Pos(r)) /\ AllSent(r)
         /\ kernel[r].step[e] = "sent" /\ Goes(r, e, "taken")
         /\ rows' = rows /\ out' = out /\ Masks(r, Owner(e))
         /\ \E n \in 0 .. MaxTokens : Take(r, e, n) /\ Heard(r, Owner(e), LocalOf(e), n)
<1>0. /\ Shape /\ IdxInv /\ MaskInv /\ SignalInv /\ run \in Runs
  BY IInvFacts DEF Shape
<1>1. /\ In(r, "dispatch") /\ AllSent(r) /\ kernel[r].step[e] = "sent"
      /\ rows' = rows /\ out' = out /\ counter' = counter /\ memory' = memory
           /\ staged' = staged
      /\ sync' = sync /\ dead' = dead /\ run' = run
  BY DEF TakeCount, TakeTimeout, Receiving
<1>2. r \notin dead /\ KindOf(Pos(r)) = "dispatch" /\ Active(Pos(r))
  BY <1>1 DEF In, Pos, Active
<1>3. \E n : Take(r, e, n)
  BY DEF TakeCount, TakeTimeout
<1>4. kernel' = [kernel EXCEPT ![r].step[e] = "taken"]
  BY <1>3 DEF Take
<1>5. Goes(r, e, "taken")
  <2>1. PICK v \in Steps : v = "taken"
    BY DEF Steps
  <2>2. kernel' = [kernel EXCEPT ![r].step[e] = v]
    BY <1>4, <2>1
  <2>3. /\ Becomes(r, kernel[r].cleaned, kernel[r].todo, kernel[r].finish,
                 [kernel[r].step EXCEPT ![e] = v], kernel[r].round, kernel[r].met)
        /\ kernel' = [x \in Rank |-> kernel'[x]]
    BY <1>0, <1>1, <2>2, GroupStep
  <2>4. kernel[r].step[e] # "send"
    BY <1>1
  <2> QED BY <1>1, <1>2, <2>1, <2>3, <2>4 DEF Goes, Moved
<1>6. PICK s \in Rank, q \in Local : s = Owner(e) /\ q = LocalOf(e) /\ GlobalOf(s, q) = e
  BY <1>0, IndexFacts
<1>7. Pos(r) \in 1 .. NumCalls /\ MaxTokens \in Nat
  BY <1>0, <1>2, KindFacts, RunFacts
<1>8. Arrived(r, e) = WordAt(s, r, q, Pos(r))
  <2>1. Buf(r) = Side(Pos(r))
    BY <1>0, <1>2, BufFacts
  <2> QED BY <1>2, <1>6, <2>1 DEF Arrived, WordAt, WordOf
<1>9. ASSUME Arrived(r, e) # 0
      PROVE  /\ Signalled(s, r, q, Pos(r)) /\ -Arrived(r, e) - 1 = Count(Pos(r), s, r, q)
             /\ Count(Pos(r), s, r, q) \in 0 .. MaxTokens
  <2>1. Ready(r, Pos(r))
    BY DEF Ready
  <2>2. Signalled(s, r, q, Pos(r)) /\ WordAt(s, r, q, Pos(r)) = ValueOf(Pos(r), s, r, q)
    BY <1>0, <1>2, <1>7, <1>8, <1>9, <2>1, WordTold
  <2>3. Count(Pos(r), s, r, q) \in 0 .. MaxTokens
        /\ -ValueOf(Pos(r), s, r, q) - 1 = Count(Pos(r), s, r, q)
    BY <1>0, <1>2, <1>7, ValueFacts
  <2> QED BY <1>8, <2>2, <2>3
<1>10. CASE TakeCount(r, e)
  <2>1. mask' = mask
    BY <1>10 DEF TakeCount
  <2>2. CASE Arrived(r, e) # 0 /\ Take(r, e, -Arrived(r, e) - 1)
    BY <1>1, <1>2, <1>5, <1>6, <1>9, <2>1, <2>2 DEF Heard, Masks
  <2>3. CASE Masked(r, s) /\ Take(r, e, 0)
    <3>1. s \in dead /\ Quiet(s, r)
      BY <1>0, <1>2, <2>3, MaskedDead DEF Masked
    <3>2. 0 \in 0 .. MaxTokens
      BY <1>7
    <3> QED BY <1>1, <1>2, <1>5, <1>6, <2>1, <2>3, <3>1, <3>2 DEF Heard, Masks
  <2> QED BY <1>6, <1>10, <2>2, <2>3 DEF TakeCount
<1>11. CASE TakeTimeout(r, e)
  <2>1. /\ mask' = [mask EXCEPT ![r] = @ \cup {s}] /\ GivenUp(r, s) /\ Take(r, e, 0)
    BY <1>6, <1>11 DEF TakeTimeout
  <2>2. s \in dead /\ Quiet(s, r)
    BY <1>0, <1>2, <2>1, GivenUpDead
  <2>3. 0 \in 0 .. MaxTokens
    BY <1>7
  <2> QED BY <1>1, <1>2, <1>5, <1>6, <2>1, <2>2, <2>3 DEF Heard, Masks
<1> QED BY <1>10, <1>11

(* ... and in a combine.                                                    *)
LEMMA AwaitFacts ==
  ASSUME IInv, NEW r \in Rank, NEW e \in Expert, AwaitFlag(r, e) \/ FlagTimeout(r, e)
  PROVE  /\ r \notin dead /\ KindOf(Pos(r)) = "combine" /\ Active(Pos(r))
         /\ kernel[r].step[e] = "sent" /\ Goes(r, e, "taken")
         /\ outputs' = outputs /\ packed' = packed /\ Masks(r, Owner(e))
         /\ \/ Signalled(Owner(e), r, LocalOf(e), Pos(r))
            \/ Owner(e) \in dead /\ Owner(e) \in mask'[r]
<1>0. /\ Shape /\ IdxInv /\ MaskInv /\ SignalInv /\ run \in Runs
  BY IInvFacts DEF Shape
<1>1. /\ In(r, "combine") /\ kernel[r].step[e] = "sent"
      /\ outputs' = outputs /\ packed' = packed /\ counter' = counter /\ memory' = memory
      /\ staged' = staged /\ sync' = sync /\ dead' = dead /\ run' = run
      /\ kernel' = [kernel EXCEPT ![r].step[e] = "taken"]
  BY DEF AwaitFlag, FlagTimeout
<1>2. r \notin dead /\ KindOf(Pos(r)) = "combine" /\ Active(Pos(r))
  BY <1>1 DEF In, Pos, Active
<1>5. Goes(r, e, "taken")
  <2>1. PICK v \in Steps : v = "taken"
    BY DEF Steps
  <2>2. kernel' = [kernel EXCEPT ![r].step[e] = v]
    BY <1>1, <2>1
  <2>3. /\ Becomes(r, kernel[r].cleaned, kernel[r].todo, kernel[r].finish,
                 [kernel[r].step EXCEPT ![e] = v], kernel[r].round, kernel[r].met)
        /\ kernel' = [x \in Rank |-> kernel'[x]]
    <3>1. Shape /\ run' = run /\ dead' = dead
      BY <1>0, <1>1
    <3> QED BY <2>2, <3>1, GroupStep
  <2>4. kernel[r].step[e] # "send"
    BY <1>1
  <2> QED BY <1>1, <1>2, <2>1, <2>3, <2>4 DEF Goes, Moved
<1>6. PICK s \in Rank, q \in Local : s = Owner(e) /\ q = LocalOf(e) /\ GlobalOf(s, q) = e
  BY <1>0, IndexFacts
<1>7. Pos(r) \in 1 .. NumCalls
  BY <1>0, <1>2, KindFacts
<1>8. word[r][Buf(r)][e] = WordAt(s, r, q, Pos(r))
  <2>1. Buf(r) = Side(Pos(r))
    BY <1>0, <1>2, BufFacts
  <2> QED BY <1>2, <1>6, <2>1 DEF WordAt, WordOf
<1>9. ASSUME word[r][Buf(r)][e] # 0 PROVE Signalled(s, r, q, Pos(r))
  <2>1. Ready(r, Pos(r))
    BY DEF Ready
  <2> QED BY <1>0, <1>2, <1>7, <1>8, <1>9, <2>1, WordTold
<1>10. CASE AwaitFlag(r, e)
  <2>1. mask' = mask
    BY <1>10 DEF AwaitFlag
  <2>2. CASE word[r][Buf(r)][e] # 0
    BY <1>1, <1>2, <1>5, <1>6, <1>9, <2>1, <2>2 DEF Masks
  <2>3. CASE Masked(r, s)
    <3>1. s \in dead
      BY <1>0, <1>2, <2>3, MaskedDead DEF Masked
    <3> QED BY <1>1, <1>2, <1>5, <1>6, <2>1, <2>3, <3>1 DEF Masks, Masked
  <2> QED BY <1>6, <1>10, <2>2, <2>3 DEF AwaitFlag
<1>11. CASE FlagTimeout(r, e)
  <2>1. /\ mask' = [mask EXCEPT ![r] = @ \cup {s}] /\ GivenUp(r, s)
    BY <1>6, <1>11 DEF FlagTimeout
  <2>2. s \in dead /\ Quiet(s, r)
    BY <1>0, <1>2, <2>1, GivenUpDead
  <2>3. s \in mask'[r]
    BY <1>0, <2>1 DEF Shape
  <2> QED BY <1>1, <1>2, <1>5, <1>6, <2>1, <2>2, <2>3 DEF Masks
<1> QED BY <1>10, <1>11

Layouts == [Rank -> [1 .. NumCalls -> [Local \X Rank -> [begin : Int, num : Int]]]]
Ranges == [begin : Int, num : Int]
Notes(r, n, q, s, x) == layout' = [layout EXCEPT ![r][n][<<q, s>>] = x]

(* One range is noted, the others stay.                                     *)
LEMMA RangeNoted ==
  ASSUME layout \in Layouts, NEW r \in Rank, NEW n \in 1 .. NumCalls, NEW q \in Local,
         NEW s \in Rank,
         NEW x \in Ranges, Notes(r, n, q, s, x)
  PROVE  /\ layout' \in Layouts
         /\ \A y \in Rank : y # r => layout'[y] = layout[y]
         /\ \A y \in Rank, m \in 1 .. NumCalls : y # r \/ m # n => layout'[y][m] = layout[y][m]
         /\ layout'[r][n][<<q, s>>] = x
         /\ \A z \in Rank, p \in Local : z # s \/ p # q
              => layout'[r][n][<<p, z>>] = layout[r][n][<<p, z>>]
<1>1. PICK f : f = layout[r][n] /\ f \in [Local \X Rank -> [begin : Int, num : Int]]
  BY DEF Layouts
<1>2. PICK g : g = [f EXCEPT ![<<q, s>>] = x]
  OBVIOUS
<1>3. /\ g \in [Local \X Rank -> [begin : Int, num : Int]] /\ g[<<q, s>>] = x
      /\ \A z \in Rank, p \in Local : z # s \/ p # q => g[<<p, z>>] = f[<<p, z>>]
  BY <1>1, <1>2 DEF Ranges
<1>4. layout' = [layout EXCEPT ![r] = [layout[r] EXCEPT ![n] = g]]
  BY <1>1, <1>2 DEF Notes
<1>5. PICK h : h = [layout[r] EXCEPT ![n] = g]
  OBVIOUS
<1>6. /\ h \in [1 .. NumCalls -> [Local \X Rank -> [begin : Int, num : Int]]] /\ h[n] = g
      /\ \A m \in 1 .. NumCalls : m # n => h[m] = layout[r][m]
  <2>1. layout[r] \in [1 .. NumCalls -> [Local \X Rank -> [begin : Int, num : Int]]]
    BY DEF Layouts
  <2> QED BY <1>3, <1>5, <2>1
<1>7. layout' = [layout EXCEPT ![r] = h]
  BY <1>4, <1>5
<1>8. layout' \in Layouts /\ layout'[r] = h /\ \A y \in Rank : y # r => layout'[y] = layout[y]
  BY <1>6, <1>7 DEF Layouts
<1>9. layout'[r][n] = g
  BY <1>6, <1>8
<1>10. \A m \in 1 .. NumCalls : m # n => layout'[r][m] = layout[r][m]
  BY <1>6, <1>8
<1>11. \A y \in Rank, m \in 1 .. NumCalls : y # r \/ m # n => layout'[y][m] = layout[y][m]
  BY <1>8, <1>10
<1>12. /\ layout'[r][n][<<q, s>>] = x
       /\ \A z \in Rank, p \in Local : z # s \/ p # q
            => layout'[r][n][<<p, z>>] = layout[r][n][<<p, z>>]
  BY <1>1, <1>3, <1>9
<1> QED BY <1>8, <1>11, <1>12

(* Room for one source's rows.                                              *)
LEMMA Room ==
  ASSUME NEW M \in Nat, NEW c \in Nat, NEW R \in Nat, c + 1 <= R, NEW p \in Nat, p <= M * c,
         NEW n \in 0 .. M
  PROVE  /\ M * (c + 1) = M * c + M /\ p + n <= M * (c + 1) /\ p + n <= R * M
<1>1. M * (c + 1) = M * c + M
  OBVIOUS
<1>2. p + n <= M * c + M
  <2>1. PICK k \in Int : k = M * c
    OBVIOUS
  <2> QED BY <2>1
<1>3. M * (c + 1) <= R * M
  <2>1. PICK k \in Nat : R = c + 1 + k
    <3>1. R - (c + 1) \in Nat /\ R = c + 1 + (R - (c + 1))
      OBVIOUS
    <3> QED BY <3>1
  <2>2. R * M = M * (c + 1) + M * k
    BY <2>1
  <2>3. M * k >= 0
    OBVIOUS
  <2>4. PICK a \in Int, b \in Int : a = M * (c + 1) /\ b = M * k
    OBVIOUS
  <2> QED BY <2>2, <2>3, <2>4
<1>4. PICK a \in Int, b \in Int : a = M * (c + 1) /\ b = R * M /\ a <= b
  BY <1>3
<1> QED BY <1>1, <1>2, <1>4

(* A range is claimed.                                                      *)
LEMMA PackedTaken ==
  ASSUME Shape, PackedInv, NEW r \in Rank, NEW e \in Expert, Goes(r, e, "taken"),
         KindOf(Pos(r)) = "dispatch", AllSent(r), kernel[r].step[e] = "sent",
         NEW s \in Rank, NEW q \in Local, s = Owner(e), q = LocalOf(e), GlobalOf(s, q) = e,
         NEW n \in 0 .. MaxTokens, Take(r, e, n)
  PROVE  PackedInv'
<1>0. /\ run' = run /\ run \in Runs /\ MaxTokens \in Nat /\ NumRanks \in Nat /\ NumCalls \in Nat
      /\ IsFiniteSet(Rank) /\ Cardinality(Rank) = NumRanks /\ 0 \in Rank
  <2>1. run' = run
    BY GoesFacts
  <2> QED BY <2>1, RunFacts, IndexFacts DEF Shape
<1>1. PICK m \in 1 .. NumCalls : m = Pos(r)
  BY KindFacts
<1>2. /\ \A x \in Rank : Pos(x)' = Pos(x)
      /\ \A x \in Rank, y \in Rank, z \in Local : x # r \/ GlobalOf(y, z) # e =>
           Step(x, y, z)' = Step(x, y, z)
      /\ \A y \in Rank, z \in Local : GlobalOf(y, z) = e => Step(r, y, z)' = "taken"
      /\ \A x \in Rank, y \in Rank, z \in Local :
           Step(x, y, z)' # "send" <=> Step(x, y, z) # "send"
  BY GoesFacts
<1>3. \A y \in Rank, z \in Local : y # s \/ z # q <=> GlobalOf(y, z) # e
  <2>1. \A x, y \in Rank, l, z \in Local : GlobalOf(x, l) = GlobalOf(y, z) => x = y /\ l = z
    BY <1>0, IndexFacts
  <2> QED BY <2>1
<1>4. PICK p : p = packed[r][q] /\ p \in 0 .. NumRanks * MaxTokens /\ RangesOK(r, q)
  BY DEF PackedInv, PackedOK
<1>5. p \in Nat /\ p \in Int /\ n \in Int
  BY <1>0, <1>4
<1>6. PICK y : y = [begin |-> p, num |-> n] /\ y \in Ranges
  <2>1. [begin |-> p, num |-> n] \in Ranges
    BY <1>5 DEF Ranges
  <2> QED BY <2>1
<1>7. layout \in Layouts /\ packed \in [Rank -> [Local -> Int]]
  BY DEF Shape, Layouts
<1>8. Notes(r, m, q, s, y)
  BY <1>1, <1>4, <1>6 DEF Take, Pos, Notes
<1>9. /\ \A x \in Rank : x # r => layout'[x] = layout[x]
      /\ layout'[r][m][<<q, s>>] = y
      /\ \A z \in Rank, l \in Local : z # s \/ l # q
           => layout'[r][m][<<l, z>>] = layout[r][m][<<l, z>>]
  <2>1. y \in Ranges
    BY <1>6
  <2>2. /\ layout' \in Layouts
        /\ \A x \in Rank : x # r => layout'[x] = layout[x]
        /\ \A x \in Rank, l \in 1 .. NumCalls : x # r \/ l # m => layout'[x][l] = layout[x][l]
        /\ layout'[r][m][<<q, s>>] = y
        /\ \A z \in Rank, l \in Local : z # s \/ l # q
             => layout'[r][m][<<l, z>>] = layout[r][m][<<l, z>>]
    BY <1>7, <1>8, <2>1, RangeNoted
  <2> QED BY <2>2
<1>10. /\ packed'[r][q] = p + n
       /\ \A x \in Rank, l \in Local : x # r \/ l # q => packed'[x][l] = packed[x][l]
  BY <1>4, <1>7 DEF Take
<1>11. ASSUME NEW x \in Rank, NEW l \in Local, x # r \/ l # q
       PROVE  PackedOK(x, l)'
  <2>1. \A z \in Rank : Step(x, z, l)' = Step(x, z, l)
    BY <1>2, <1>3, <1>11
  <2>2. Claimed(x, l)' = Claimed(x, l)
    BY <2>1 DEF Claimed, Taken
  <2>3. \A z \in Rank : Extent(x, Pos(x), z, l)' = Extent(x, Pos(x), z, l)
    BY <1>1, <1>2, <1>9, <1>11 DEF Extent
  <2>4. RangesStay(x, l)
    BY <1>0, <1>2, <1>10, <1>11, <2>1, <2>2, <2>3 DEF RangesStay, Claimed
  <2> QED BY <1>0, <2>4, PackedStays DEF PackedInv
<1>12. PackedOK(r, q)'
  <2>1. PICK C : C = Claimed(r, q)
    OBVIOUS
  <2>2. C \subseteq Rank /\ s \notin C
    BY <2>1 DEF Claimed, Taken, Step
  <2>3. Claimed(r, q)' = C \cup {s}
    <3>1. \A z \in Rank : z # s => Step(r, z, q)' = Step(r, z, q)
      BY <1>2, <1>3
    <3>2. Step(r, s, q)' = "taken"
      BY <1>2
    <3> QED BY <2>1, <3>1, <3>2 DEF Claimed, Taken
  <2>4. IsFiniteSet(C) /\ Cardinality(C \cup {s}) = Cardinality(C) + 1
    BY <1>0, <2>2, FS_Subset, FS_AddElement
  <2>5. Cardinality(C) \in Nat /\ Cardinality(C) + 1 <= NumRanks
    <3>1. Cardinality(C \cup {s}) <= Cardinality(Rank)
      BY <1>0, <2>2, FS_Subset
    <3> QED BY <1>0, <2>4, <3>1, FS_CardinalityType
  <2>6. p <= MaxTokens * Cardinality(C)
    <3>1. Step(r, 0, q) # "send"
      <4>1. GlobalOf(0, q) \in Expert
        BY <1>0, IndexFacts
      <4> QED BY <4>1 DEF Step, AllSent
    <3> QED BY <1>4, <2>1, <3>1 DEF RangesOK
  <2>7. PICK c \in Nat : c = Cardinality(C)
    BY <2>5
  <2>8. p + n <= MaxTokens * (c + 1) /\ p + n <= NumRanks * MaxTokens
    BY <1>0, <1>5, <2>5, <2>6, <2>7, Room
  <2>9. p + n \in 0 .. NumRanks * MaxTokens
    BY <1>0, <1>5, <2>8
  <2>10. /\ \A z \in C : layout'[r][m][<<q, z>>] = layout[r][m][<<q, z>>]
         /\ y.begin = p /\ y.num = n
    BY <1>6, <1>9, <2>2
  <2>11. \A z \in C : LET x == layout[r][m][<<q, z>>] IN
           /\ x.begin \in Nat /\ x.num \in Nat /\ x.begin + x.num <= p
           /\ \A w \in C : w # z => Apart(x, layout[r][m][<<q, w>>])
    BY <1>1, <1>4, <2>1 DEF RangesOK, Extent
  <2>12. ASSUME NEW z \in C \cup {s}
         PROVE  LET x == layout'[r][m][<<q, z>>] IN
                  /\ x.begin \in Nat /\ x.num \in Nat /\ x.begin + x.num <= p + n
                  /\ \A w \in C \cup {s} : w # z => Apart(x, layout'[r][m][<<q, w>>])
    <3>1. CASE z = s
      <4>1. \A w \in C : Apart(y, layout[r][m][<<q, w>>])
        BY <1>5, <2>10, <2>11 DEF Apart
      <4> QED BY <1>5, <1>9, <2>10, <3>1, <4>1
    <3>2. CASE z # s
      <4>1. PICK x : x = layout[r][m][<<q, z>>] /\ x = layout'[r][m][<<q, z>>]
        BY <2>10, <3>2
      <4>2. /\ x.begin \in Nat /\ x.num \in Nat /\ x.begin + x.num <= p
            /\ \A w \in C : w # z => Apart(x, layout[r][m][<<q, w>>])
        BY <2>11, <3>2, <4>1
      <4>3. Apart(x, y)
        BY <2>10, <4>2 DEF Apart
      <4>4. x.begin + x.num <= p + n
        BY <1>5, <4>2
      <4> QED BY <1>9, <2>10, <4>1, <4>2, <4>3, <4>4
    <3> QED BY <3>1, <3>2
  <2>13. RangesOK(r, q)'
    <3>1. packed'[r][q] <= MaxTokens * Cardinality(C \cup {s})
      BY <1>10, <2>4, <2>7, <2>8
    <3>2. \A z : Extent(r, Pos(r), z, q)' = layout'[r][m][<<q, z>>]
      BY <1>1, <1>2 DEF Extent
    <3>3. \A x, z : Apart(x, z)' <=> Apart(x, z)
      BY DEF Apart
    <3>4. (packed[r][q])' <= MaxTokens * Cardinality(Claimed(r, q)')
      BY <2>3, <3>1
    <3>5. ASSUME NEW z \in Claimed(r, q)'
          PROVE  LET x == Extent(r, Pos(r), z, q)' IN
                   /\ x.begin \in Nat /\ x.num \in Nat /\ x.begin + x.num <= packed'[r][q]
                   /\ \A w \in Claimed(r, q)' : w # z => Apart(x, Extent(r, Pos(r), w, q)')
      <4>1. z \in C \cup {s} /\ Extent(r, Pos(r), z, q)' = layout'[r][m][<<q, z>>]
        BY <2>3, <3>2
      <4>2. \A w \in C \cup {s} : Extent(r, Pos(r), w, q)' = layout'[r][m][<<q, w>>]
        BY <3>2
      <4> QED BY <1>10, <2>3, <2>12, <4>1, <4>2
    <3> QED BY <3>3, <3>4, <3>5 DEF RangesOK
  <2> QED BY <1>10, <2>9, <2>13 DEF PackedOK
<1> QED BY <1>0, <1>11, <1>12, Fixed DEF PackedInv

(* One more group has what it waited for.                                   *)
LEMMA TakenOne ==
  ASSUME Shape, TakenInv, NEW r \in Rank, NEW e \in Expert, NEW v \in {"taken", "done"},
         Goes(r, e, v), Retained(r), \A x \in Rank : mask[x] \subseteq mask'[x],
         \A s \in Rank, q \in Local :
           GlobalOf(s, q) # e \/ kernel[r].step[e] \in {"taken", "done"} =>
           Extent(r, Pos(r), s, q)' = Extent(r, Pos(r), s, q),
         \A s \in Rank, q \in Local : GlobalOf(s, q) = e /\ kernel[r].step[e] = "sent" =>
           TakenOK(r, s, q, Pos(r))'
  PROVE  TakenInv'
<1>0. /\ run' = run /\ dead' = dead /\ word' = word /\ wire' = wire
  BY GoesFacts DEF Goes, memory
<1>1. /\ \A x \in Rank : Pos(x)' = Pos(x)
      /\ \A x \in Rank, s \in Rank, q \in Local : x # r \/ GlobalOf(s, q) # e =>
           Step(x, s, q)' = Step(x, s, q)
      /\ kernel[r].step[e] # "send" /\ kernel[r].step[e] \in Steps
  BY GoesFacts, KernelTypes DEF Goes
<1>2. ASSUME NEW d \in Rank \ dead, NEW s \in Rank, NEW q \in Local, Active(Pos(d))',
             Taken(d, s, q)'
      PROVE  TakenStays(d, s, q) \/ TakenOK(d, s, q, Pos(d))'
  <2>1. Active(Pos(d)) /\ Pos(d) \in 1 .. NumCalls
    BY <1>0, <1>1, <1>2, Fixed, KindFacts
  <2>2. CASE d = r /\ GlobalOf(s, q) = e /\ kernel[r].step[e] = "sent"
    BY <2>2
  <2>3. CASE d = r /\ GlobalOf(s, q) = e /\ kernel[r].step[e] # "sent"
    <3>1. kernel[r].step[e] \in {"taken", "done"}
      BY <1>1, <2>3 DEF Steps
    <3>2. Taken(r, s, q)
      BY <2>3, <3>1 DEF Taken, Step
    <3> QED BY <1>1, <2>3, <3>1, <3>2 DEF TakenStays
  <2>4. CASE d # r \/ GlobalOf(s, q) # e
    <3>1. Taken(d, s, q)
      BY <1>1, <1>2, <2>4 DEF Taken
    <3>2. Extent(d, Pos(d), s, q)' = Extent(d, Pos(d), s, q)
      <4>1. CASE d = r
        BY <2>4, <4>1
      <4>2. CASE d # r
        <5>1. layout'[d][Pos(d)] = layout[d][Pos(d)]
          BY <2>1, <4>2 DEF Retained
        <5> QED BY <1>1, <5>1 DEF Extent
      <4> QED BY <4>1, <4>2
    <3> QED BY <1>1, <3>1, <3>2 DEF TakenStays
  <2> QED BY <2>2, <2>3, <2>4
<1> QED BY <1>0, <1>2, TakenFrame

(* The rows that were copied stay.                                          *)
LEMMA RowsStay ==
  ASSUME Shape, RowsInv, run' = run, dead \subseteq dead', NEW r \in Rank, Retained(r),
         \A x \in Rank : Pos(x)' = Pos(x),
         \A x \in Rank, n \in 1 .. NumCalls, s \in Rank, q \in Local :
           KindOf(n) = "dispatch" => (Done(x, n, s, q)' <=> Done(x, n, s, q)),
         KindOf(Pos(r)) = "dispatch" => rows'[r][Pos(r)] = rows[r][Pos(r)],
         \A s \in Rank, q \in Local : KindOf(Pos(r)) = "dispatch" /\ Done(r, Pos(r), s, q) =>
           Extent(r, Pos(r), s, q)' = Extent(r, Pos(r), s, q)
  PROVE  RowsInv'
<1> SUFFICES ASSUME NEW x \in Rank, NEW n \in 1 .. NumCalls, KindOf(n) = "dispatch"
             PROVE  CopiedOK(x, n)'
  BY Fixed DEF RowsInv
<1>1. CopiedOK(x, n)
  BY DEF RowsInv
<1>2. rows'[x][n] = rows[x][n]
  BY DEF Retained
<1>3. ASSUME NEW s \in Rank, NEW q \in Local, Done(x, n, s, q)
      PROVE  Extent(x, n, s, q)' = Extent(x, n, s, q)
  <2>1. CASE x = r /\ n = Pos(r)
    <3>1. Extent(r, Pos(r), s, q)' = Extent(r, Pos(r), s, q)
      BY <1>3, <2>1
    <3> QED BY <2>1, <3>1 DEF Extent
  <2>2. CASE ~(x = r /\ n = Pos(r))
    BY <2>2 DEF Retained, Extent
  <2> QED BY <2>1, <2>2
<1> QED BY <1>1, <1>2, <1>3, CopiedStays

(* A group takes a count, or gives up.                                      *)
LEMMA IInvTake ==
  ASSUME IInv, NEW r \in Rank, NEW e \in Expert, TakeCount(r, e) \/ TakeTimeout(r, e)
  PROVE  IInv'
<1>0. /\ Shape /\ Standing /\ Channels /\ TakenInv /\ PackedInv /\ RowsInv /\ CombinedOwn
      /\ run \in Runs
  BY IInvFacts DEF IInv, Shape
<1>1. /\ r \notin dead /\ KindOf(Pos(r)) = "dispatch" /\ Active(Pos(r)) /\ AllSent(r)
      /\ kernel[r].step[e] = "sent" /\ Goes(r, e, "taken")
      /\ rows' = rows /\ out' = out /\ Masks(r, Owner(e))
      /\ \E n \in 0 .. MaxTokens : Take(r, e, n) /\ Heard(r, Owner(e), LocalOf(e), n)
  BY TakeFacts
<1>2. PICK n \in 0 .. MaxTokens : Take(r, e, n) /\ Heard(r, Owner(e), LocalOf(e), n)
  BY <1>1
<1>3. PICK s \in Rank, q \in Local : s = Owner(e) /\ q = LocalOf(e) /\ GlobalOf(s, q) = e
  BY <1>0, IndexFacts
<1>4. PICK v \in {"taken", "done"} : v = "taken"
  OBVIOUS
<1>5. Goes(r, e, v) /\ Masks(r, s)
  BY <1>1, <1>3, <1>4
<1>6. PICK m \in 1 .. NumCalls : m = Pos(r)
  BY <1>0, <1>1, KindFacts
<1>7. /\ run' = run /\ dead' = dead /\ counter' = counter /\ memory' = memory
      /\ staged' = staged /\ sync' = sync /\ \A x \in Rank : Pos(x)' = Pos(x)
  <2>1. run' = run /\ \A x \in Rank : Pos(x)' = Pos(x)
    BY <1>0, <1>5, GoesFacts
  <2> QED BY <1>5, <2>1 DEF Goes
<1>8. PackedInv'
  BY <1>0, <1>1, <1>2, <1>3, PackedTaken
<1>9. /\ layout \in Layouts /\ packed \in [Rank -> [Local -> Int]]
  BY <1>0 DEF Shape, Layouts
<1>10. PICK p \in Int : p = packed[r][q]
  BY <1>9
<1>11. PICK y \in Ranges : y = [begin |-> p, num |-> n]
  <2>1. [begin |-> p, num |-> n] \in Ranges
    BY DEF Ranges
  <2> QED BY <2>1
<1>12. Notes(r, m, q, s, y) /\ y.num = n
  BY <1>2, <1>3, <1>6, <1>10, <1>11 DEF Take, Pos, Notes
<1>13. /\ layout' \in Layouts
       /\ \A x \in Rank : x # r => layout'[x] = layout[x]
       /\ \A x \in Rank, l \in 1 .. NumCalls : x # r \/ l # m => layout'[x][l] = layout[x][l]
       /\ layout'[r][m][<<q, s>>] = y
       /\ \A z \in Rank, l \in Local : z # s \/ l # q
            => layout'[r][m][<<l, z>>] = layout[r][m][<<l, z>>]
  BY <1>9, <1>12, RangeNoted
<1>14. packed' \in [Rank -> [Local -> Int]]
  <2>1. packed' = [packed EXCEPT ![r][q] = @ + n] /\ n \in Int
    BY <1>2, <1>3 DEF Take
  <2> QED BY <1>9, <2>1
<1>15. Retained(r)
  BY <1>1, <1>6, <1>13 DEF Retained
<1>16. Peers' /\ mask' \in [Rank -> SUBSET Rank] /\ \A x \in Rank : mask[x] \subseteq mask'[x]
  BY <1>5, GoesPeers
<1>17. kernel' \in [Rank -> Kernels'] /\ Standing' /\ Channels'
  BY <1>0, <1>1, <1>5, <1>13, <1>15, GoesKeep
<1>18. \A z \in Rank, l \in Local : GlobalOf(z, l) # e => z # s \/ l # q
  BY <1>3
<1>19. \A z \in Rank, l \in Local : GlobalOf(z, l) = e => z = s /\ l = q
  BY <1>0, <1>3, IndexFacts
<1>20. \A z \in Rank, l \in Local : GlobalOf(z, l) # e =>
         Extent(r, Pos(r), z, l)' = Extent(r, Pos(r), z, l)
  BY <1>6, <1>7, <1>13, <1>18 DEF Extent
<1>21. TakenInv'
  <2>1. TakenOK(r, s, q, m)'
    <3>1. Extent(r, m, s, q)'.num = n
      BY <1>12, <1>13 DEF Extent
    <3>2. KindOf(m) = "dispatch" /\ KindOf(m)' = "dispatch"
      BY <1>1, <1>6, <1>7, Fixed
    <3>3. CASE Signalled(s, r, q, m) /\ n = Count(m, s, r, q)
      <4>1. Signalled(s, r, q, m)'
        <5>1. WordAt(s, r, q, m)' = WordAt(s, r, q, m) /\ wire' = wire
          BY <1>7, Fixed, FixedToo DEF WordAt, memory
        <5>2. Unchanged(s, r, q, m)
          BY <1>0, <1>7, <5>1, AsideSignal DEF Aside
        <5> QED BY <3>3, <5>2 DEF Unchanged
      <4>2. Count(m, s, r, q)' = n
        BY <1>7, <3>3, Fixed
      <4> QED BY <3>1, <3>2, <4>1, <4>2 DEF TakenOK
    <3>4. CASE n = 0 /\ s \in dead /\ Quiet(s, r)
      <4>1. Quiet(s, r)'
        BY <1>7, <3>4, Fixed DEF Quiet, memory
      <4> QED BY <1>7, <3>1, <3>2, <3>4, <4>1 DEF TakenOK
    <3> QED BY <1>2, <1>3, <1>6, <3>3, <3>4 DEF Heard
  <2>2. \A z \in Rank, l \in Local : GlobalOf(z, l) = e => TakenOK(r, z, l, Pos(r))'
    <3>1. TakenOK(r, s, q, Pos(r))'
      <4>1. m = Pos(r)'
        BY <1>6, <1>7
      <4> QED BY <2>1, <4>1
    <3> QED BY <1>19, <3>1
  <2> QED BY <1>0, <1>1, <1>5, <1>15, <1>16, <1>20, <2>2, TakenOne
<1>22. RowsInv'
  <2>1. \A x \in Rank, z \in Rank, l \in Local :
          Step(x, z, l)' = "done" <=> Step(x, z, l) = "done"
    <3>1. \A x \in Rank, z \in Rank, l \in Local : x # r \/ GlobalOf(z, l) # e =>
            Step(x, z, l)' = Step(x, z, l)
      BY <1>0, <1>5, GoesFacts
    <3>2. \A z \in Rank, l \in Local : GlobalOf(z, l) = e => Step(r, z, l)' = "taken"
      BY <1>0, <1>4, <1>5, GoesFacts
    <3>3. \A z \in Rank, l \in Local : GlobalOf(z, l) = e => Step(r, z, l) = "sent"
      BY <1>1 DEF Step
    <3> QED BY <3>1, <3>2, <3>3
  <2>2. \A x \in Rank, l \in 1 .. NumCalls, z \in Rank, k \in Local :
          Done(x, l, z, k)' <=> Done(x, l, z, k)
    BY <1>7, <2>1 DEF Done
  <2>3. \A z \in Rank, l \in Local : Done(r, Pos(r), z, l) =>
          Extent(r, Pos(r), z, l)' = Extent(r, Pos(r), z, l)
    <3>1. ASSUME NEW z \in Rank, NEW l \in Local, Done(r, Pos(r), z, l) PROVE GlobalOf(z, l) # e
      <4>1. Step(r, z, l) = "done"
        <5>1. ~(Pos(r) > Pos(r))
          BY <1>6
        <5> QED BY <3>1, <5>1 DEF Done
      <4> QED BY <1>1, <4>1 DEF Step
    <3> QED BY <1>20, <3>1
  <2> QED BY <1>0, <1>1, <1>7, <1>15, <2>2, <2>3, RowsStay
<1>23. CombinedOwn'
  <2>1. \A x \in Rank, l \in 1 .. NumCalls : Returned(x, l)' => Returned(x, l)
    BY <1>7 DEF Returned, Pos
  <2> QED BY <1>0, <1>1, <1>7, <2>1, CombinedStays
<1>24. Shape'
  <2>1. dead \in SUBSET Rank /\ word' = word /\ region' = region /\ wire' = wire
    BY <1>0, <1>7 DEF Shape, memory
  <2> QED BY <1>0, <1>1, <1>7, <1>13, <1>14, <1>16, <1>17, <2>1, ShapeKept DEF Layouts
<1> QED BY <1>8, <1>16, <1>17, <1>21, <1>22, <1>23, <1>24 DEF IInv, Keeps

(* A group has its flag, or gives up.                                       *)
LEMMA IInvAwait ==
  ASSUME IInv, NEW r \in Rank, NEW e \in Expert, AwaitFlag(r, e) \/ FlagTimeout(r, e)
  PROVE  IInv'
<1>0. /\ Shape /\ Standing /\ Channels /\ TakenInv /\ PackedInv /\ RowsInv /\ CombinedOwn
      /\ run \in Runs
  BY IInvFacts DEF IInv, Shape
<1>1. /\ r \notin dead /\ KindOf(Pos(r)) = "combine" /\ Active(Pos(r))
      /\ kernel[r].step[e] = "sent" /\ Goes(r, e, "taken")
      /\ outputs' = outputs /\ packed' = packed /\ Masks(r, Owner(e))
      /\ \/ Signalled(Owner(e), r, LocalOf(e), Pos(r))
         \/ Owner(e) \in dead /\ Owner(e) \in mask'[r]
  BY AwaitFacts
<1>3. PICK s \in Rank, q \in Local : s = Owner(e) /\ q = LocalOf(e) /\ GlobalOf(s, q) = e
  BY <1>0, IndexFacts
<1>4. PICK v \in {"taken", "done"} : v = "taken"
  OBVIOUS
<1>5. Goes(r, e, v) /\ Masks(r, s)
  BY <1>1, <1>3, <1>4
<1>6. PICK m \in 1 .. NumCalls : m = Pos(r)
  BY <1>0, <1>1, KindFacts
<1>7. /\ run' = run /\ dead' = dead /\ counter' = counter /\ memory' = memory
      /\ staged' = staged /\ sync' = sync /\ \A x \in Rank : Pos(x)' = Pos(x)
  <2>1. run' = run /\ \A x \in Rank : Pos(x)' = Pos(x)
    BY <1>0, <1>5, GoesFacts
  <2> QED BY <1>5, <2>1 DEF Goes
<1>8. layout' = layout /\ rows' = rows /\ out' = out
  BY <1>1 DEF outputs
<1>15. Retained(r)
  BY <1>8 DEF Retained
<1>16. Peers' /\ mask' \in [Rank -> SUBSET Rank] /\ \A x \in Rank : mask[x] \subseteq mask'[x]
  BY <1>5, GoesPeers
<1>17. kernel' \in [Rank -> Kernels'] /\ Standing' /\ Channels'
  BY <1>0, <1>1, <1>4, <1>5, <1>8, <1>15, GoesKeep
<1>18. \A x \in Rank, z \in Rank, l \in Local : x # r => Step(x, z, l)' = Step(x, z, l)
  BY <1>0, <1>5, GoesFacts
<1>19. \A z \in Rank, l \in Local : GlobalOf(z, l) = e => z = s /\ l = q
  BY <1>0, <1>3, IndexFacts
<1>20. \A x, n, z, l : Extent(x, n, z, l)' = Extent(x, n, z, l)
  BY <1>8 DEF Extent
<1>21. TakenInv'
  <2>1. TakenOK(r, s, q, m)'
    <3>2. KindOf(m) = "combine" /\ KindOf(m)' = "combine"
      BY <1>1, <1>6, <1>7, Fixed
    <3>3. CASE Signalled(s, r, q, m)
      <4>1. Signalled(s, r, q, m)'
        <5>1. WordAt(s, r, q, m)' = WordAt(s, r, q, m) /\ wire' = wire
          BY <1>7, Fixed, FixedToo DEF WordAt, memory
        <5>2. Unchanged(s, r, q, m)
          BY <1>0, <1>7, <5>1, AsideSignal DEF Aside
        <5> QED BY <3>3, <5>2 DEF Unchanged
      <4> QED BY <3>2, <4>1 DEF TakenOK
    <3>4. CASE s \in dead /\ s \in mask'[r]
      BY <1>7, <3>2, <3>4 DEF TakenOK
    <3> QED BY <1>1, <1>3, <1>6, <3>3, <3>4
  <2>2. \A z \in Rank, l \in Local : GlobalOf(z, l) = e => TakenOK(r, z, l, Pos(r))'
    <3>1. TakenOK(r, s, q, Pos(r))'
      <4>1. m = Pos(r)'
        BY <1>6, <1>7
      <4> QED BY <2>1, <4>1
    <3> QED BY <1>19, <3>1
  <2>3. \A z \in Rank, l \in Local : Extent(r, Pos(r), z, l)' = Extent(r, Pos(r), z, l)
    BY <1>6, <1>7, <1>8 DEF Extent
  <2> QED BY <1>0, <1>5, <1>15, <1>16, <2>2, <2>3, TakenOne
<1>22. RowsInv'
  <2>2. \A x \in Rank, l \in 1 .. NumCalls, z \in Rank, k \in Local :
          KindOf(l) = "dispatch" => (Done(x, l, z, k)' <=> Done(x, l, z, k))
    <3>1. \A x \in Rank, l \in 1 .. NumCalls : KindOf(l) = "dispatch" => x # r \/ Pos(x) # l
      BY <1>1
    <3> QED BY <1>7, <1>18, <3>1 DEF Done
  <2> QED BY <1>0, <1>1, <1>7, <1>8, <1>15, <2>2, RowsStay
<1>23. CombinedOwn'
  <2>1. \A x \in Rank, l \in 1 .. NumCalls : Returned(x, l)' => Returned(x, l)
    BY <1>7 DEF Returned, Pos
  <2> QED BY <1>0, <1>7, <1>8, <2>1, CombinedStays
<1>24. Shape'
  <2>1. dead \in SUBSET Rank /\ word' = word /\ region' = region /\ wire' = wire
    BY <1>0, <1>7 DEF Shape, memory
  <2> QED BY <1>0, <1>1, <1>7, <1>8, <1>16, <1>17, <2>1, ShapeKept
<1>25. PackedInv'
  <2>1. \A x \in Rank, z \in Rank, l \in Local : KindOf(Pos(x)) = "dispatch" =>
          Step(x, z, l)' = Step(x, z, l)
    BY <1>1, <1>18
  <2>2. \A x \in Rank : \A z \in Rank, l \in Local : KindOf(Pos(x)) = "dispatch" =>
           Extent(x, Pos(x), z, l)' = Extent(x, Pos(x), z, l)
    BY <1>7, <1>8 DEF Extent
  <2>3. \A x \in Rank : \A z \in Rank, l \in Local : KindOf(Pos(x)) = "dispatch" =>
          /\ Taken(x, z, l)' <=> Taken(x, z, l)
          /\ Step(x, 0, l)' # "send" => Step(x, 0, l) # "send"
    <3>1. 0 \in Rank
      BY <1>0, IndexFacts
    <3> QED BY <2>1, <3>1 DEF Taken
  <2> QED BY <1>0, <1>1, <1>7, <2>2, <2>3, PackedFrame
<1> QED BY <1>16, <1>17, <1>21, <1>22, <1>23, <1>24, <1>25 DEF IInv, Keeps

(***************************************************************************)
(* The end of a call.                                                      *)
(***************************************************************************)
LEMMA LeaveDone ==
  ASSUME Shape, NEW r \in Rank, Leaves(r), Pos(r) \in 1 .. NumCalls,
         NEW x \in Rank, NEW n \in 1 .. NumCalls, x # r \/ n # Pos(r),
         NEW s \in Rank, NEW q \in Local
  PROVE  Done(x, n, s, q)' <=> Done(x, n, s, q)
<1>1. CASE x # r
  <2>1. run' = run /\ kernel'[x] = kernel[x]
    BY <1>1 DEF Leaves, Alone
  <2> QED BY <2>1, SameKernel
<1>2. CASE x = r
  <2>1. Pos(r)' = Pos(r) + 1 /\ Step(r, s, q)' = "send"
    <3>1. \A d \in Rank, l \in Local : Step(r, d, l)' = "send"
      BY LeaveFacts
    <3>2. Pos(r)' = Pos(r) + 1
      BY LeaveFacts
    <3> QED BY <3>1, <3>2
  <2>2. PICK p \in Nat : p = Pos(r)
    OBVIOUS
  <2>3. n # p
    BY <1>2, <2>2
  <2>4. p + 1 > n <=> p > n
    <3>1. n \in Nat
      BY KernelTypes
    <3> QED BY <2>2, <2>3, <3>1
  <2> QED BY <1>2, <2>1, <2>2, <2>3, <2>4 DEF Done
<1> QED BY <1>1, <1>2

(* The rows of the other calls.                                             *)
LEMMA RowsElse ==
  ASSUME RowsInv, run' = run, dead' = dead, layout' = layout, NEW r,
         NEW x \in Rank, NEW n \in 1 .. NumCalls, KindOf(n) = "dispatch",
           rows'[x][n] = rows[x][n],
         \A s \in Rank, q \in Local : Done(x, n, s, q)' <=> Done(x, n, s, q)
  PROVE  CopiedOK(x, n)'
<1>1. CopiedOK(x, n)
  BY DEF RowsInv
<1>2. \A s \in Rank, q \in Local : Extent(x, n, s, q)' = Extent(x, n, s, q)
  BY DEF Extent
<1> QED BY <1>1, <1>2, CopiedStays

(* What is left to show of the end of a call.                               *)
LEMMA LeaveAll ==
  ASSUME CleansLast, IInv, NEW r \in Rank, r \notin dead, Leaves(r), Over(r),
         kernel' \in [Rank -> Kernels'], counter' = counter, memory' = memory, staged' = staged,
         sync' = sync, mask' = mask, packed' = packed, layout' = layout, Retained(r),
         rows' = rows \/ PerCall(rows)', out' = out \/ PerCall(out)',
         RowsInv', CombinedOwn'
  PROVE  IInv'
<1>0. /\ Shape /\ IdxInv /\ KernelInv /\ PosInv /\ MetInv /\ EnterInv /\ MaskInv
      /\ SignalInv /\ HoldsInv /\ WireInv /\ NVLinkInv /\ MemInv /\ TakenInv /\ PackedInv
      /\ run \in Runs
  BY IInvFacts DEF Shape
<1>1. /\ run' = run /\ dead' = dead /\ Pos(r) \in 1 .. NumCalls
      /\ \A x \in Rank : x # r => kernel'[x] = kernel[x]
      /\ word' = word /\ region' = region /\ wire' = wire
  BY DEF Leaves, Alone, Over, memory
<1>2. Pos(r)' = Pos(r) + 1 /\ kernel'[r].met[r] = "enter"
  BY <1>0, <1>1, LeaveFacts
<1>3. \A x \in Rank : Pos(x)' = Pos(x) \/ Pos(x)' = Pos(x) + 1
  BY <1>1, <1>2, SameKernel
<1>4. \A x \in Rank : kernel'[x].met[x] = "met" => kernel[x].met[x] = "met"
  BY <1>1, <1>2
<1>5. Standing'
  <2>1. IdxInv'
    BY <1>0, <1>1, IdxLeaves
  <2>2. KernelInv'
    BY <1>0, KernelLeaves
  <2>3. PosInv'
    <3>1. \A d \in Rank \ dead : d # r =>
            AtEnd(r) \/ Pos(d) > Pos(r) \/ (Pos(d) = Pos(r) /\ HasTold(d, r))
      BY <1>0, LetGo
    <3> QED BY <1>0, <3>1, PosLeaves
  <2>4. MetInv' /\ EnterInv'
    BY <1>0, MetLeaves
  <2> QED BY <2>1, <2>2, <2>3, <2>4 DEF Standing
<1>6. Peers'
  BY <1>1, <1>3, <1>4, PeersKept
<1>7. Channels'
  <2>1. ToldSame /\ ReadySame
    BY <1>0, LeaveTold
  <2>2. SignalInv'
    BY <1>0, <1>1, <2>1, SignalFrame
  <2>3. WireInv'
    BY <1>0, <1>1, LeaveWire
  <2>4. HoldsInv'
    BY <1>0, <1>1, LeaveHolds
  <2>5. NVLinkInv'
    BY <1>0, <1>1, Fixed DEF NVLinkInv, Quiet
  <2>6. MemInv'
    BY <1>0, <1>1, FixedToo DEF MemInv, Good
  <2> QED BY <2>2, <2>3, <2>4, <2>5, <2>6 DEF Channels
<1>8. TakenInv'
  BY <1>0, <1>1, LeaveTaken
<1>9. PackedInv'
  BY <1>0, PackedLeaves
<1>10. Shape'
  <2>1. dead' \in SUBSET Rank
    BY <1>0, <1>1 DEF Shape
  <2> QED BY <1>0, <1>1, <2>1, ShapeKept
<1> QED BY <1>5, <1>6, <1>7, <1>8, <1>9, <1>10 DEF IInv, Keeps

(* The second barrier of a clean is over.                                   *)
LEMMA IInvAfterSecond ==
  ASSUME CleansLast, IInv, NEW r \in Rank, AfterBarrier(r), kernel[r].round # 1
  PROVE  IInv'
<1>0. /\ Shape /\ RowsInv /\ CombinedOwn /\ run \in Runs
  BY IInvFacts DEF Shape
<1>1. /\ In(r, "clean") /\ kernel[r].round = 2 /\ Return(r) /\ word' = word
      /\ \A q \in Rank : kernel[r].met[q] = "met"
      /\ run' = run /\ dead' = dead /\ counter' = counter /\ region' = region /\ wire' = wire
      /\ staged' = staged /\ sync' = sync /\ mask' = mask /\ packed' = packed
      /\ layout' = layout /\ rows' = rows /\ out' = out
  BY DEF AfterBarrier, outputs
<1>2. /\ r \notin dead /\ ~Active(Pos(r)) /\ KindOf(Pos(r)) = "clean"
           /\ Pos(r) \in 1 .. NumCalls
  BY <1>0, <1>1, CleanFacts
<1>3. Leaves(r) /\ kernel' \in [Rank -> Kernels']
  BY <1>0, <1>1, <1>2, ReturnStep
<1>4. Over(r)
  BY <1>1, <1>2 DEF Over
<1>5. memory' = memory /\ Retained(r)
  BY <1>1 DEF memory, Retained
<1>6. RowsInv'
  <2> SUFFICES ASSUME NEW x \in Rank, NEW n \in 1 .. NumCalls, KindOf(n) = "dispatch"
               PROVE  CopiedOK(x, n)'
    BY <1>1, Fixed DEF RowsInv
  <2>1. x # r \/ n # Pos(r)
    BY <1>2
  <2>2. \A s \in Rank, q \in Local : Done(x, n, s, q)' <=> Done(x, n, s, q)
    BY <1>0, <1>2, <1>3, <2>1, LeaveDone
  <2> QED BY <1>0, <1>1, <2>2, RowsElse
<1>7. CombinedOwn'
  <2>1. ASSUME NEW x \in Rank, NEW n \in 1 .. NumCalls, KindOf(n) = "combine", Returned(x, n)'
        PROVE  Returned(x, n)
    <3>1. CASE x # r
      <4>1. kernel'[x] = kernel[x]
        BY <1>3, <3>1 DEF Leaves, Alone
      <4> QED BY <2>1, <4>1 DEF Returned
    <3>2. CASE x = r
      <4>1. Pos(r)' = Pos(r) + 1
        BY <1>0, <1>2, <1>3, LeaveFacts
      <4>2. PICK p \in Nat : p = Pos(r)
        BY <1>2
      <4>3. n # p /\ p + 1 > n
        BY <1>2, <2>1, <3>2, <4>1, <4>2 DEF Returned, Pos
      <4> QED BY <3>2, <4>2, <4>3 DEF Returned, Pos
    <3> QED BY <3>1, <3>2
  <2> QED BY <1>0, <1>1, <2>1, CombinedStays
<1> QED BY <1>1, <1>2, <1>3, <1>4, <1>5, <1>6, <1>7, LeaveAll

(***************************************************************************)
(* Copying.  What a group has taken is in the buffer when it copies it.    *)
(***************************************************************************)
InPlace(r, s, q, n, i, t) == At(region[r][Side(n)], Slot(q, s, i)) = <<n, s, t>>

(* A row that is held, and not on its way, is in its place.                 *)
LEMMA HeldInPlace ==
  ASSUME Shape, MemInv, NEW s \in Rank, NEW d \in Rank, NEW q \in Local,
         NEW n \in 1 .. NumCalls,
         NEW P, NEW row, NoneOf(wire[s][d][q], Side(n)), Holds(s, d, q, n, P, row)
  PROVE  At(region[d][Side(n)], P) = row
<1>1. \A i \in DOMAIN wire[s][d][q] : ~RowMsg(wire[s][d][q][i], Side(n), P)
  <2>1. wire[s][d][q] \in Seq(Msg)
    BY DEF Shape
  <2> SUFFICES ASSUME NEW i \in DOMAIN wire[s][d][q] PROVE ~RowMsg(wire[s][d][q][i], Side(n), P)
    OBVIOUS
  <2>2. ~OfBuf(wire[s][d][q][i], Side(n))
    BY DEF NoneOf
  <2> QED BY <2>2 DEF OfBuf, RowMsg
<1>2. <<P, row>> \in region[d][Side(n)]
  BY <1>1 DEF Holds, HoldsIn
<1>3. Side(n) \in {0, 1}
  <2>1. n \in Nat \ {0}
    BY KernelTypes
  <2> QED BY <2>1, SideFacts
<1>4. Good(region[d][Side(n)], Places)
  BY <1>3 DEF MemInv
<1> QED BY <1>2, <1>4, AtFacts

(* All rows of a source whose count was taken are in their slots.           *)
LEMMA InPlaceFacts ==
  ASSUME IInv, NEW r \in Rank, r \notin dead, NEW n \in 1 .. NumCalls, n = Pos(r),
         KindOf(n) = "dispatch",
         NEW s \in Rank, NEW q \in Local, Taken(r, s, q)
  PROVE  \/ s \in dead /\ Extent(r, n, s, q).num = 0
         \/ /\ Extent(r, n, s, q).num = Count(n, s, r, q)
            /\ \A i \in 0 .. Count(n, s, r, q) - 1 : \E t \in Tokens(n, s, r, q) :
                 InPlace(r, s, q, n, i, t)
            /\ \A t \in Tokens(n, s, r, q) : \E i \in 0 .. Count(n, s, r, q) - 1 :
                 InPlace(r, s, q, n, i, t)
<1>0. /\ Shape /\ KernelInv /\ MemInv /\ SignalInv /\ HoldsInv /\ TakenInv /\ run \in Runs
  BY IInvFacts DEF Shape
<1>1. Active(n) /\ Ready(r, n) /\ Near(r, n)
  BY DEF Active, Ready, Near
<1>2. TakenOK(r, s, q, n)
  BY <1>0, <1>1 DEF TakenInv
<1>3. CASE Signalled(s, r, q, n) /\ Extent(r, n, s, q).num = Count(n, s, r, q)
  <2>1. WordAt(s, r, q, n) # 0
    BY <1>0, <1>1, <1>3, UntoldWord
  <2>2. Told(s, r, q, n) /\ ~Lost(s, r, q, n) /\ NoneOf(wire[s][r][q], Side(n))
    BY <1>0, <1>1, <2>1, WordTold
  <2>3. n <= Pos(s) /\ Pos(s) >= n
    BY <1>0, <2>2, ToldReached
  <2>4. DispatchRows(s, r, q, n)
    BY <1>0, <1>1, <2>2, <2>3 DEF HoldsInv, RowsOK
  <2>5. Slots(s, r, q, n) = Count(n, s, r, q)
    <3>1. ~(Pos(s) = n /\ Step(s, r, q) = "send")
      <4>1. ~(Pos(s) > n /\ Pos(s) = n)
        BY <1>0, KernelTypes
      <4> QED BY <2>2, <4>1 DEF Told
    <3> QED BY <3>1 DEF Slots
  <2>6. ASSUME NEW t \in Tokens(n, s, r, q) PROVE TokenSent(s, r, q, n, t)
    <3>1. CASE Pos(s) = n
      <4>1. DispatchTodo(s) /\ Step(s, r, q) # "send"
        <5>1. ~(Pos(s) > n)
          BY <3>1, <1>0, KernelTypes
        <5> QED BY <1>0, <2>2, <3>1, <5>1 DEF KernelInv, KernelOK, DispatchKernel, Told
      <4>2. <<t, GlobalOf(r, q)>> \notin kernel[s].todo
        <5> SUFFICES ASSUME <<t, GlobalOf(r, q)>> \in kernel[s].todo PROVE FALSE
          OBVIOUS
        <5>1. kernel[s].step[GlobalOf(r, q)] = "send"
          BY <4>1 DEF DispatchTodo
        <5> QED BY <4>1, <5>1 DEF Step
      <4> QED BY <4>2 DEF TokenSent
    <3>2. CASE Pos(s) # n
      BY <3>2 DEF TokenSent
    <3> QED BY <3>1, <3>2
  <2>7. \A k, t : Holds(s, r, q, n, Slot(q, s, k), <<n, s, t>>) => InPlace(r, s, q, n, k, t)
    <3> SUFFICES ASSUME NEW k, NEW t, Holds(s, r, q, n, Slot(q, s, k), <<n, s, t>>)
                 PROVE  InPlace(r, s, q, n, k, t)
      OBVIOUS
    <3>1. At(region[r][Side(n)], Slot(q, s, k)) = <<n, s, t>>
      BY <1>0, <2>2, HeldInPlace
    <3> QED BY <3>1 DEF InPlace
  <2>8. \A i \in 0 .. Count(n, s, r, q) - 1 : \E t \in Tokens(n, s, r, q) :
          InPlace(r, s, q, n, i, t)
    BY <2>4, <2>5, <2>7 DEF DispatchRows
  <2>9. \A t \in Tokens(n, s, r, q) : \E i \in 0 .. Count(n, s, r, q) - 1 :
          InPlace(r, s, q, n, i, t)
    BY <2>4, <2>5, <2>6, <2>7 DEF DispatchRows
  <2> QED BY <1>3, <2>8, <2>9
<1>4. CASE Extent(r, n, s, q).num = 0 /\ s \in dead
  BY <1>4
<1> QED BY <1>2, <1>3, <1>4 DEF TakenOK

-----------------------------------------------------------------------------
(* The rows copied for one source.                                          *)
Copy(r, s, q, n) ==
  {<<<<q, Extent(r, n, s, q).begin + i>>, At(region[r][Side(n)], Slot(q, s, i))>> :
     i \in 0 .. Extent(r, n, s, q).num - 1}

(* One more source is copied.                                               *)
LEMMA CopiedMore ==
  ASSUME IInv, NEW r \in Rank, r \notin dead, NEW n \in 1 .. NumCalls, n = Pos(r),
         KindOf(n) = "dispatch", NEW s \in Rank, NEW q \in Local, Step(r, s, q) = "taken",
         run' = run, dead' = dead, layout' = layout,
         rows'[r][n] = rows[r][n] \cup Copy(r, s, q, n),
         Done(r, n, s, q)',
         \A z \in Rank, l \in Local : z # s \/ l # q => (Done(r, n, z, l)' <=> Done(r, n, z, l))
  PROVE  CopiedOK(r, n)'
<1>0. /\ Shape /\ PackedInv /\ RowsInv /\ run \in Runs
  BY IInvFacts DEF Shape
<1>1. CopiedOK(r, n)
  BY <1>0 DEF RowsInv
<1>2. Taken(r, s, q) /\ ~Done(r, n, s, q)
  <2>1. ~(Pos(r) > n)
    BY <1>0, KernelTypes
  <2> QED BY <2>1 DEF Taken, Done
<1>3. PICK b \in Nat, c \in Nat : b = Extent(r, n, s, q).begin /\ c = Extent(r, n, s, q).num
        /\ b + c <= NumRanks * MaxTokens
  <2>1. RangesOK(r, q) /\ packed[r][q] \in 0 .. NumRanks * MaxTokens
    BY <1>0 DEF PackedInv, PackedOK
  <2>2. LET x == Extent(r, n, s, q) IN x.begin \in Nat /\ x.num \in Nat
              /\ x.begin + x.num <= packed[r][q]
    BY <1>2, <2>1 DEF RangesOK, Claimed
  <2>3. NumRanks * MaxTokens \in Nat
    BY <1>0, RunFacts
  <2> QED BY <2>1, <2>2, <2>3
<1>4. Copy(r, s, q, n) = {<<<<q, b + i>>, At(region[r][Side(n)], Slot(q, s, i))>> : i \in 0 .. c - 1}
  BY <1>3 DEF Copy
<1>5. \A p \in Copy(r, s, q, n) : \E i \in 0 .. c - 1 :
        p = <<<<q, b + i>>, At(region[r][Side(n)], Slot(q, s, i))>>
  BY <1>4
<1>6. \A i \in 0 .. c - 1 : \A t : InPlace(r, s, q, n, i, t) =>
        <<<<q, b + i>>, <<n, s, t>>>> \in rows'[r][n]
  BY <1>4 DEF InPlace
<1>7. \A i \in 0 .. c - 1 : b + i \in Row
  <2>1. NumRanks * MaxTokens \in Nat
    BY <1>0, RunFacts
  <2> QED BY <1>3, <2>1 DEF Row
(* The new rows are where no row is.                                        *)
<1>8. \A p \in rows[r][n], i \in 0 .. c - 1 : p[1] # <<q, b + i>>
  <2> SUFFICES ASSUME NEW p \in rows[r][n], NEW i \in 0 .. c - 1,
                      p[1] = <<q, b + i>> PROVE FALSE
    OBVIOUS
  <2>1. PICK z \in Rank : Done(r, n, z, q) /\ Covers(Extent(r, n, z, q), b + i)
    BY <1>1 DEF CopiedOK
  <2>2. z # s
    BY <1>2, <2>1
  <2>3. Taken(r, z, q)
    <3>1. ~(Pos(r) > n)
      BY <1>0, KernelTypes
    <3> QED BY <2>1, <3>1 DEF Done, Taken
  <2>4. RangesOK(r, q)
    BY <1>0 DEF PackedInv, PackedOK
  <2>5. Apart(Extent(r, n, s, q), Extent(r, n, z, q))
    BY <1>2, <2>2, <2>3, <2>4 DEF RangesOK, Claimed
  <2>6. PICK y : y = Extent(r, n, z, q)
    OBVIOUS
  <2>7. y.begin \in Nat /\ y.num \in Nat
    BY <2>3, <2>4, <2>6 DEF RangesOK, Claimed
  <2> QED BY <1>3, <2>1, <2>5, <2>6, <2>7 DEF Apart, Covers
<1>9. Good(rows'[r][n], Local \X Row)
  <2>1. Good(rows[r][n], Local \X Row)
    BY <1>1 DEF CopiedOK
  <2>2. ASSUME NEW p \in rows'[r][n] PROVE p = <<p[1], p[2]>> /\ p[1] \in Local \X Row
    <3>1. CASE p \in rows[r][n]
      BY <2>1, <3>1 DEF Good
    <3>2. CASE p \in Copy(r, s, q, n)
      <4>1. PICK i \in 0 .. c - 1 : p = <<<<q, b + i>>, At(region[r][Side(n)], Slot(q, s, i))>>
        BY <1>5, <3>2
      <4> QED BY <1>7, <4>1
    <3> QED BY <3>1, <3>2
  <2>3. ASSUME NEW p \in rows'[r][n], NEW x \in rows'[r][n], p[1] = x[1] PROVE p = x
    <3>1. CASE p \in rows[r][n] /\ x \in rows[r][n]
      BY <2>1, <2>3, <3>1 DEF Good
    <3>2. CASE p \in Copy(r, s, q, n) /\ x \in Copy(r, s, q, n)
      <4>1. PICK i \in 0 .. c - 1 : p = <<<<q, b + i>>, At(region[r][Side(n)], Slot(q, s, i))>>
        BY <1>5, <3>2
      <4>2. PICK j \in 0 .. c - 1 : x = <<<<q, b + j>>, At(region[r][Side(n)], Slot(q, s, j))>>
        BY <1>5, <3>2
      <4>3. b + i = b + j
        BY <2>3, <4>1, <4>2
      <4>4. i = j
        BY <1>3, <4>3
      <4> QED BY <4>1, <4>2, <4>4
    <3>3. CASE p \in rows[r][n] /\ x \in Copy(r, s, q, n)
      BY <1>5, <1>8, <2>3, <3>3
    <3>4. CASE x \in rows[r][n] /\ p \in Copy(r, s, q, n)
      BY <1>5, <1>8, <2>3, <3>4
    <3> QED BY <3>1, <3>2, <3>3, <3>4
  <2> QED BY <2>2, <2>3 DEF Good
<1>10. \A z \in Rank, l \in Local : Extent(r, n, z, l)' = Extent(r, n, z, l)
  BY DEF Extent
<1>11. ASSUME NEW p \in rows'[r][n]
       PROVE  \E z \in Rank : Done(r, n, z, p[1][1])'
                /\ Covers(Extent(r, n, z, p[1][1])', p[1][2])
  <2>1. CASE p \in rows[r][n]
    <3>1. PICK z \in Rank : Done(r, n, z, p[1][1]) /\ Covers(Extent(r, n, z, p[1][1]), p[1][2])
      BY <1>1, <2>1 DEF CopiedOK
    <3>2. p[1][1] \in Local
      BY <1>1, <2>1 DEF CopiedOK, Good
    <3>3. Done(r, n, z, p[1][1])'
      BY <3>1, <3>2
    <3> QED BY <1>10, <3>1, <3>2, <3>3
  <2>2. CASE p \in Copy(r, s, q, n)
    <3>1. PICK i \in 0 .. c - 1 : p = <<<<q, b + i>>, At(region[r][Side(n)], Slot(q, s, i))>>
      BY <1>5, <2>2
    <3>2. p[1][1] = q /\ p[1][2] = b + i
      BY <3>1
    <3>3. Covers(Extent(r, n, s, q), b + i)
      BY <1>3 DEF Covers
    <3> QED BY <1>10, <3>2, <3>3
  <2> QED BY <2>1, <2>2
<1>12. ASSUME NEW z \in Rank, NEW l \in Local, Done(r, n, z, l)' PROVE Fetched(r, n, z, l)'
  <2>1. CASE z # s \/ l # q
    <3>1. Fetched(r, n, z, l)
      BY <1>1, <1>12, <2>1 DEF CopiedOK
    <3>2. \A p, t : RowAt(r, n, z, l, p, t) => RowAt(r, n, z, l, p, t)'
      BY DEF RowAt
    <3> QED BY <1>10, <3>1, <3>2, Fixed DEF Fetched
  <2>2. CASE z = s /\ l = q
    <3>1. \A i \in 0 .. c - 1 : \A t : InPlace(r, s, q, n, i, t) => RowAt(r, n, s, q, b + i, t)'
      BY <1>6 DEF RowAt
    <3>2. Extent(r, n, s, q)' = Extent(r, n, s, q)
      BY <1>10
    <3>3. \/ s \in dead /\ c = 0
          \/ /\ c = Count(n, s, r, q)
             /\ \A i \in 0 .. c - 1 : \E t \in Tokens(n, s, r, q) : InPlace(r, s, q, n, i, t)
             /\ \A t \in Tokens(n, s, r, q) : \E i \in 0 .. c - 1 : InPlace(r, s, q, n, i, t)
      BY <1>2, <1>3, InPlaceFacts
    <3>4. \A i \in 0 .. c - 1 : \E t \in Tokens(n, s, r, q) : InPlace(r, s, q, n, i, t)
      BY <3>3
    <3>5. \A i \in 0 .. c - 1 : \E t \in Tokens(n, s, r, q) : RowAt(r, n, s, q, b + i, t)'
      BY <3>1, <3>4
    <3>6. \/ s \in dead' /\ c = 0
          \/ c = Count(n, s, r, q) /\ \A t \in Tokens(n, s, r, q) : \E i \in 0 .. c - 1 :
               RowAt(r, n, s, q, b + i, t)'
      BY <3>1, <3>3
    <3>7. Fetched(r, n, s, q)'
      BY <1>3, <3>2, <3>5, <3>6, Fixed DEF Fetched
    <3> QED BY <2>2, <3>7
  <2> QED BY <2>1, <2>2
<1> QED BY <1>9, <1>11, <1>12, Fixed DEF CopiedOK, Good, Row

(* The copy of one group is a copy of its source's range.                   *)
LEMMA CopyFacts ==
  ASSUME IInv, NEW r \in Rank, NEW e \in Expert, CopyRows(r, e),
         NEW s \in Rank, NEW q \in Local, s = Owner(e), q = LocalOf(e), GlobalOf(s, q) = e
  PROVE  /\ r \notin dead /\ KindOf(Pos(r)) = "dispatch" /\ Active(Pos(r))
              /\ Pos(r) \in 1 .. NumCalls
         /\ kernel[r].step[e] = "taken" /\ Step(r, s, q) = "taken" /\ AllSent(r)
         /\ run' = run /\ dead' = dead /\ counter' = counter /\ memory' = memory
         /\ staged' = staged /\ sync' = sync /\ mask' = mask /\ packed' = packed
         /\ layout' = layout /\ out' = out /\ Retained(r) /\ PerCall(rows)'
         /\ rows'[r][Pos(r)] = rows[r][Pos(r)] \cup Copy(r, s, q, Pos(r))
         /\ \A x \in Rank, n \in 1 .. NumCalls : x # r \/ n # Pos(r) => rows'[x][n] = rows[x][n]
<1>0. /\ Shape /\ IdxInv /\ KernelInv /\ run \in Runs
  BY IInvFacts DEF Shape
<1>1. /\ In(r, "dispatch") /\ kernel[r].step[e] = "taken"
      /\ run' = run /\ dead' = dead /\ counter' = counter /\ memory' = memory
      /\ staged' = staged /\ sync' = sync /\ mask' = mask /\ packed' = packed
      /\ layout' = layout /\ out' = out
  BY DEF CopyRows
<1>2. r \notin dead /\ KindOf(Pos(r)) = "dispatch" /\ Active(Pos(r))
  BY <1>1 DEF In, Pos, Active
<1>3. Pos(r) \in 1 .. NumCalls
  BY <1>0, <1>2, KindFacts
<1>4. Step(r, s, q) = "taken"
  BY <1>1 DEF Step
<1>5. AllSent(r)
  BY <1>0, <1>1, <1>2 DEF KernelInv, KernelOK, DispatchKernel, DispatchSent
<1>6. Buf(r) = Side(Pos(r))
  BY <1>0, <1>2, BufFacts
<1>7. rows' = [rows EXCEPT ![r][Pos(r)] = @ \cup Copy(r, s, q, Pos(r))]
  BY <1>6 DEF CopyRows, Copy, Extent, Slot, Pos
<1>8. PICK n \in 1 .. NumCalls : n = Pos(r)
  BY <1>3
<1>9. PICK C : C = Copy(r, s, q, Pos(r))
  OBVIOUS
<1>10. PerCall(rows)
  BY <1>0 DEF Shape
<1>11. /\ rows' = [x \in Rank |-> [m \in 1 .. NumCalls |-> rows'[x][m]]]
       /\ rows'[r][n] = rows[r][n] \cup C
       /\ \A x \in Rank, m \in 1 .. NumCalls : x # r \/ m # n => rows'[x][m] = rows[x][m]
  <2>1. rows' = [rows EXCEPT ![r][n] = @ \cup C]
    BY <1>7, <1>8, <1>9
  <2>2. rows = [x \in Rank |-> [m \in 1 .. NumCalls |-> rows[x][m]]]
    BY <1>10 DEF PerCall
  <2> QED BY <2>1, <2>2
<1>12. PerCall(rows)'
  BY <1>1, <1>11, Fixed DEF PerCall, Rank
<1>13. Retained(r)
  BY <1>1, <1>8, <1>11 DEF Retained
<1> QED BY <1>1, <1>2, <1>3, <1>4, <1>5, <1>8, <1>9, <1>11, <1>12, <1>13

(* A group copies its rows, and the last ends the kernel.                   *)
LEMMA IInvCopyRows ==
  ASSUME CleansLast, IInv, NEW r \in Rank, NEW e \in Expert, CopyRows(r, e)
  PROVE  IInv'
<1>0. /\ Shape /\ Standing /\ Channels /\ KernelInv /\ TakenInv /\ PackedInv /\ RowsInv
           /\ CombinedOwn
      /\ run \in Runs
  BY IInvFacts DEF IInv, Shape
<1>3. PICK s \in Rank, q \in Local : s = Owner(e) /\ q = LocalOf(e) /\ GlobalOf(s, q) = e
  BY <1>0, IndexFacts
<1>1. /\ r \notin dead /\ KindOf(Pos(r)) = "dispatch" /\ Active(Pos(r))
           /\ Pos(r) \in 1 .. NumCalls
      /\ kernel[r].step[e] = "taken" /\ Step(r, s, q) = "taken" /\ AllSent(r)
      /\ run' = run /\ dead' = dead /\ counter' = counter /\ memory' = memory
      /\ staged' = staged /\ sync' = sync /\ mask' = mask /\ packed' = packed
      /\ layout' = layout /\ out' = out /\ Retained(r) /\ PerCall(rows)'
      /\ rows'[r][Pos(r)] = rows[r][Pos(r)] \cup Copy(r, s, q, Pos(r))
      /\ \A x \in Rank, n \in 1 .. NumCalls : x # r \/ n # Pos(r) => rows'[x][n] = rows[x][n]
  BY <1>3, CopyFacts
<1>2. PICK n \in 1 .. NumCalls : n = Pos(r)
  BY <1>1
<1>4. ASSUME Done(r, n, s, q)',
             \A z \in Rank, l \in Local : z # s \/ l # q
               => (Done(r, n, z, l)' <=> Done(r, n, z, l)),
             \A x \in Rank, m \in 1 .. NumCalls, z \in Rank, l \in Local :
               x # r \/ m # n => (Done(x, m, z, l)' <=> Done(x, m, z, l))
      PROVE  RowsInv'
  <2>1. CopiedOK(r, n)'
    BY <1>1, <1>2, <1>4, CopiedMore
  <2>2. ASSUME NEW x \in Rank, NEW m \in 1 .. NumCalls, KindOf(m) = "dispatch", x # r \/ m # n
        PROVE  CopiedOK(x, m)'
    BY <1>0, <1>1, <1>2, <1>4, <2>2, RowsElse
  <2> QED BY <1>1, <2>1, <2>2, Fixed DEF RowsInv
<1>5. CASE \A x \in Expert \ {e} : kernel[r].step[x] = "done"
  <2>1. Leaves(r) /\ kernel' \in [Rank -> Kernels']
    <3>1. Return(r)
      BY <1>5 DEF CopyRows
    <3> QED BY <1>0, <1>1, <3>1, ReturnStep
  <2>2. \A z \in Rank, l \in Local : z # s \/ l # q => Step(r, z, l) = "done"
    <3> SUFFICES ASSUME NEW z \in Rank, NEW l \in Local,
                        z # s \/ l # q PROVE Step(r, z, l) = "done"
      OBVIOUS
    <3>1. GlobalOf(z, l) \in Expert /\ GlobalOf(z, l) # e
      BY <1>0, <1>3, IndexFacts
    <3> QED BY <1>5, <3>1 DEF Step
  <2>3. Over(r)
    BY <1>1, <2>2 DEF Over, Taken
  <2>4. RowsInv'
    <3>1. Pos(r)' = Pos(r) + 1
      BY <1>0, <1>1, <2>1, LeaveFacts
    <3>2. Pos(r)' > n
      BY <1>2, <3>1, <1>0, KernelTypes
    <3>3. \A z \in Rank, l \in Local : Done(r, n, z, l)'
      BY <3>2 DEF Done
    <3>4. \A z \in Rank, l \in Local : z # s \/ l # q => Done(r, n, z, l)
      BY <1>2, <2>2 DEF Done
    <3>5. \A x \in Rank, m \in 1 .. NumCalls, z \in Rank, l \in Local :
               x # r \/ m # n => (Done(x, m, z, l)' <=> Done(x, m, z, l))
      BY <1>0, <1>1, <1>2, <2>1, LeaveDone
    <3> QED BY <1>4, <3>3, <3>4, <3>5
  <2>5. CombinedOwn'
    <3>1. ASSUME NEW x \in Rank, NEW m \in 1 .. NumCalls, KindOf(m) = "combine", Returned(x, m)'
          PROVE  Returned(x, m)
      <4>1. CASE x # r
        <5>1. kernel'[x] = kernel[x]
          BY <2>1, <4>1 DEF Leaves, Alone
        <5> QED BY <3>1, <5>1 DEF Returned
      <4>2. CASE x = r
        <5>1. Pos(r)' = Pos(r) + 1
          BY <1>0, <1>1, <2>1, LeaveFacts
        <5>2. PICK p \in Nat : p = Pos(r)
          BY <1>1
        <5>3. m # p /\ p + 1 > m
          BY <1>1, <3>1, <4>2, <5>1, <5>2 DEF Returned, Pos
        <5>4. m \in Nat
          BY <1>0, KernelTypes
        <5> QED BY <4>2, <5>2, <5>3, <5>4 DEF Returned, Pos
      <4> QED BY <4>1, <4>2
    <3> QED BY <1>0, <1>1, <3>1, CombinedStays
  <2> QED BY <1>1, <2>1, <2>3, <2>4, <2>5, LeaveAll
<1>6. CASE ~ \A x \in Expert \ {e} : kernel[r].step[x] = "done"
  <2>1. PICK v \in {"taken", "done"} : v = "done"
    OBVIOUS
  <2>2. Goes(r, e, v)
    <3>1. kernel' = [kernel EXCEPT ![r].step[e] = v]
      BY <1>6, <2>1 DEF CopyRows
    <3>2. v \in Steps
      BY DEF Steps
    <3>3. /\ Becomes(r, kernel[r].cleaned, kernel[r].todo, kernel[r].finish,
                 [kernel[r].step EXCEPT ![e] = v], kernel[r].round, kernel[r].met)
          /\ kernel' = [x \in Rank |-> kernel'[x]]
      BY <1>0, <1>1, <3>1, <3>2, GroupStep
    <3>4. kernel[r].step[e] # "send"
      BY <1>1
    <3> QED BY <1>1, <3>3, <3>4 DEF Goes, Moved
  <2>3. Masks(r, s)
    BY <1>1 DEF Masks
  <2>4. Peers' /\ mask' \in [Rank -> SUBSET Rank] /\ \A x \in Rank : mask[x] \subseteq mask'[x]
    BY <2>2, <2>3, GoesPeers
  <2>5. kernel' \in [Rank -> Kernels'] /\ Standing' /\ Channels'
    BY <1>0, <1>1, <2>2, GoesKeep
  <2>6. \A x \in Rank : Pos(x)' = Pos(x)
    BY <1>0, <2>2, GoesFacts
  <2>7. \A x \in Rank, z \in Rank, l \in Local : x # r \/ GlobalOf(z, l) # e =>
          Step(x, z, l)' = Step(x, z, l)
    BY <1>0, <2>2, GoesFacts
  <2>8. \A z \in Rank, l \in Local : GlobalOf(z, l) = e => Step(r, z, l)' = "done"
    BY <1>0, <2>1, <2>2, GoesFacts
  <2>9. \A z \in Rank, l \in Local : GlobalOf(z, l) = e <=> z = s /\ l = q
    <3>1. \A z \in Rank, l \in Local : GlobalOf(z, l) = e => z = s /\ l = q
      BY <1>0, <1>3, IndexFacts
    <3> QED BY <1>3, <3>1
  <2>10. \A x, m, z, l : Extent(x, m, z, l)' = Extent(x, m, z, l)
    BY <1>1 DEF Extent
  <2>11. TakenInv'
    <3>1. \A z \in Rank, l \in Local : Extent(r, Pos(r), z, l)' = Extent(r, Pos(r), z, l)
      BY <1>1, <1>2, <2>6 DEF Extent
    <3>2. kernel[r].step[e] # "sent"
      BY <1>1
    <3> QED BY <1>0, <1>1, <2>2, <2>4, <3>1, <3>2, TakenOne
  <2>12. RowsInv'
    <3>1. Done(r, n, s, q)'
      BY <1>2, <2>6, <2>8, <2>9 DEF Done
    <3>2. \A x \in Rank, m \in 1 .. NumCalls, z \in Rank, l \in Local :
            x # r \/ z # s \/ l # q => (Done(x, m, z, l)' <=> Done(x, m, z, l))
      BY <2>6, <2>7, <2>9 DEF Done
    <3>3. \A x \in Rank, m \in 1 .. NumCalls, z \in Rank, l \in Local :
            x # r \/ m # n => (Done(x, m, z, l)' <=> Done(x, m, z, l))
      <4> SUFFICES ASSUME NEW m \in 1 .. NumCalls, m # n
                   PROVE  Done(r, m, s, q)' <=> Done(r, m, s, q)
        BY <3>2
      <4> QED BY <1>2, <2>6 DEF Done
    <3> QED BY <1>4, <3>1, <3>2, <3>3
  <2>13. PackedInv'
    <3>1. \A z \in Rank, l \in Local : Taken(r, z, l)' <=> Taken(r, z, l)
      <4>1. \A z \in Rank, l \in Local : GlobalOf(z, l) = e => Step(r, z, l) = "taken"
        BY <1>1, <2>9
      <4> QED BY <2>7, <2>8, <4>1 DEF Taken
    <3>2. \A x \in Rank : \A z \in Rank, l \in Local : Taken(x, z, l)' <=> Taken(x, z, l)
      BY <2>7, <3>1 DEF Taken
    <3>3. \A x \in Rank, l \in Local : Step(x, 0, l)' # "send" => Step(x, 0, l) # "send"
      <4>1. 0 \in Rank
        BY <1>0, IndexFacts
      <4>2. \A x \in Rank, z \in Rank, l \in Local : Step(x, z, l)' # "send"
              => Step(x, z, l) # "send"
        BY <1>0, <2>2, GoesFacts
      <4> QED BY <4>1, <4>2
    <3>4. \A x \in Rank : \A z \in Rank, l \in Local : KindOf(Pos(x)) = "dispatch" =>
             Extent(x, Pos(x), z, l)' = Extent(x, Pos(x), z, l)
      BY <1>1, <2>6 DEF Extent
    <3> QED BY <1>0, <1>1, <2>6, <3>2, <3>3, <3>4, PackedFrame
  <2>14. CombinedOwn'
    <3>1. \A x \in Rank, m \in 1 .. NumCalls : Returned(x, m)' => Returned(x, m)
      BY <2>6 DEF Returned, Pos
    <3> QED BY <1>0, <1>1, <3>1, CombinedStays
  <2>15. Shape'
    <3>1. dead \in SUBSET Rank /\ word' = word /\ region' = region /\ wire' = wire
      BY <1>0, <1>1 DEF Shape, memory
    <3> QED BY <1>0, <1>1, <2>4, <2>5, <3>1, ShapeKept
  <2> QED BY <2>4, <2>5, <2>11, <2>12, <2>13, <2>14, <2>15 DEF IInv, Keeps
<1> QED BY <1>5, <1>6

(***************************************************************************)
(* Reducing.  What an expert of a rank that answered has to send back is   *)
(* in its place.                                                           *)
(***************************************************************************)
LEMMA BackInPlace ==
  ASSUME IInv, NEW r \in Rank, r \notin dead, NEW n \in 1 .. NumCalls, n = Pos(r),
         KindOf(n) = "combine",
         NEW s \in Rank, NEW q \in Local, Taken(r, s, q), s \notin mask[r],
         NEW t \in BackTokens(s, r, q, n)
  PROVE  At(region[r][Side(n)], Back(s, q, t)) = BackRow(s, r, q, n, t)
<1>0. /\ Shape /\ KernelInv /\ MemInv /\ SignalInv /\ HoldsInv /\ TakenInv /\ run \in Runs
  BY IInvFacts DEF Shape
<1>1. Active(n) /\ Ready(r, n) /\ Near(r, n)
  BY DEF Active, Ready, Near
<1>2. Signalled(s, r, q, n)
  BY <1>0, <1>1 DEF TakenInv, TakenOK
<1>3. WordAt(s, r, q, n) # 0
  BY <1>0, <1>1, <1>2, UntoldWord
<1>4. Told(s, r, q, n) /\ ~Lost(s, r, q, n) /\ NoneOf(wire[s][r][q], Side(n))
  BY <1>0, <1>1, <1>3, WordTold
<1>5. n <= Pos(s) /\ Pos(s) >= n
  BY <1>0, <1>4, ToldReached
<1>6. CombineRows(s, r, q, n)
  BY <1>0, <1>1, <1>4, <1>5 DEF HoldsInv, RowsOK
<1>7. BackSent(s, r, q, n, t)
  <2>1. CASE Pos(s) = n
    <3>1. CombineTodo(s) /\ Step(s, r, q) # "send"
      <4>1. ~(Pos(s) > n)
        BY <2>1, <1>0, KernelTypes
      <4> QED BY <1>0, <1>4, <2>1, <4>1 DEF KernelInv, KernelOK, CombineKernel, Told
    <3>2. \A p \in Row : <<q, r, p>> \notin kernel[s].todo
      <4> SUFFICES ASSUME NEW p \in Row, <<q, r, p>> \in kernel[s].todo PROVE FALSE
        OBVIOUS
      <4>1. Step(s, r, q) = "send"
        BY <3>1 DEF CombineTodo
      <4> QED BY <3>1, <4>1
    <3> QED BY <3>2 DEF BackSent
  <2>2. CASE Pos(s) # n
    BY <2>2 DEF BackSent
  <2> QED BY <2>1, <2>2
<1>8. Holds(s, r, q, n, Back(s, q, t), BackRow(s, r, q, n, t))
  BY <1>6, <1>7 DEF CombineRows
<1> QED BY <1>0, <1>4, <1>8, HeldInPlace

(* What a rank sums.                                                        *)
Results(r, n, b) ==
  [t \in DOMAIN To(Handle(n), r) |->
     {<<e, At(region[r][b], <<"combine", e, t>>)>> :
        e \in {x \in To(Handle(n), r)[t] : Owner(x) \notin mask[r]}}]

(* All groups have what they waited for.                                    *)
LEMMA ReduceFacts ==
  ASSUME IInv, NEW r \in Rank, Reduce(r)
  PROVE  /\ r \notin dead /\ KindOf(Pos(r)) = "combine" /\ Active(Pos(r))
              /\ Pos(r) \in 1 .. NumCalls
         /\ \A s \in Rank, q \in Local : Taken(r, s, q)
         /\ Return(r) /\ run' = run /\ dead' = dead /\ counter' = counter /\ memory' = memory
         /\ staged' = staged /\ sync' = sync /\ mask' = mask /\ packed' = packed
         /\ layout' = layout /\ rows' = rows /\ PerCall(out)'
         /\ out'[r][Pos(r)] = Results(r, Pos(r), Side(Pos(r)))
         /\ \A x \in Rank, n \in 1 .. NumCalls : x # r \/ n # Pos(r) => out'[x][n] = out[x][n]
<1>0. /\ Shape /\ IdxInv /\ run \in Runs
  BY IInvFacts DEF Shape
<1>1. /\ In(r, "combine") /\ \A e \in Expert : kernel[r].step[e] = "taken"
      /\ Return(r) /\ run' = run /\ dead' = dead /\ counter' = counter /\ memory' = memory
      /\ staged' = staged /\ sync' = sync /\ mask' = mask /\ packed' = packed
      /\ layout' = layout /\ rows' = rows
  BY DEF Reduce
<1>2. r \notin dead /\ KindOf(Pos(r)) = "combine" /\ Active(Pos(r))
  BY <1>1 DEF In, Pos, Active
<1>3. Pos(r) \in 1 .. NumCalls
  BY <1>0, <1>2, KindFacts
<1>4. \A s \in Rank, q \in Local : Taken(r, s, q)
  BY <1>0, <1>1, IndexFacts DEF Taken, Step
<1>5. Buf(r) = Side(Pos(r))
  BY <1>0, <1>2, BufFacts
<1>6. out' = [out EXCEPT ![r][Pos(r)] = Results(r, Pos(r), Side(Pos(r)))]
  <2>1. Call(r).of = Handle(Pos(r))
    BY DEF Call, Handle, Pos
  <2> QED BY <1>5, <2>1 DEF Reduce, Results, Pos, Masked
<1>8. PICK n \in 1 .. NumCalls : n = Pos(r)
  BY <1>3
<1>9. PICK C : C = Results(r, Pos(r), Side(Pos(r)))
  OBVIOUS
<1>10. PerCall(out)
  BY <1>0 DEF Shape
<1>11. /\ out' = [x \in Rank |-> [m \in 1 .. NumCalls |-> out'[x][m]]]
       /\ out'[r][n] = C
       /\ \A x \in Rank, m \in 1 .. NumCalls : x # r \/ m # n => out'[x][m] = out[x][m]
  <2>1. out' = [out EXCEPT ![r][n] = C]
    BY <1>6, <1>8, <1>9
  <2>2. out = [x \in Rank |-> [m \in 1 .. NumCalls |-> out[x][m]]]
    BY <1>10 DEF PerCall
  <2> QED BY <2>1, <2>2
<1>12. PerCall(out)'
  BY <1>1, <1>11, Fixed DEF PerCall, Rank
<1> QED BY <1>1, <1>2, <1>3, <1>4, <1>8, <1>9, <1>11, <1>12

(* One result of each expert that lives, and of no other token.             *)
Summed(r, n, res) ==
  \A t \in DOMAIN To(Handle(n), r) :
    /\ \A x \in res[t] : \E e \in To(Handle(n), r)[t] : x = <<e, <<n, e, <<Handle(n), r, t>>>>>>
    /\ \A e \in To(Handle(n), r)[t] : Owner(e) \notin dead
         => <<e, <<n, e, <<Handle(n), r, t>>>>>> \in res[t]

(* So a rank sums its own.                                                  *)
LEMMA ResultsSummed ==
  ASSUME IInv, NEW r \in Rank, r \notin dead, NEW n \in 1 .. NumCalls, n = Pos(r),
         KindOf(n) = "combine",
         \A s \in Rank, q \in Local : Taken(r, s, q)
  PROVE  Summed(r, n, Results(r, n, Side(n)))
<1>0. /\ Shape /\ MaskInv /\ run \in Runs
  BY IInvFacts DEF Shape
<1>1. Active(Pos(r))
  BY DEF Active
<1>2. /\ Handle(n) \in 1 .. NumCalls /\ KindOf(Handle(n)) = "dispatch"
  BY <1>0, KindFacts
<1>3. ASSUME NEW t \in DOMAIN To(Handle(n), r), NEW e \in To(Handle(n), r)[t]
      PROVE  /\ Owner(e) \in Rank
             /\ Owner(e) \notin mask[r] =>
                  At(region[r][Side(n)], <<"combine", e, t>>) = <<n, e, <<Handle(n), r, t>>>>
  <2>1. e \in Expert
    BY <1>0, <1>2, <1>3, TokenFacts
  <2>2. PICK s \in Rank, q \in Local : s = Owner(e) /\ q = LocalOf(e) /\ GlobalOf(s, q) = e
    BY <1>0, <2>1, IndexFacts
  <2>3. t \in BackTokens(s, r, q, n)
    BY <1>3, <2>2 DEF BackTokens, Tokens, TokensFor
  <2>4. s \notin mask[r] => At(region[r][Side(n)], Back(s, q, t)) = BackRow(s, r, q, n, t)
    BY <2>3, BackInPlace
  <2> QED BY <2>2, <2>4 DEF Back, BackRow
<1>4. \A e \in Rank : e \in mask[r] => e \in dead
  BY <1>0, <1>1, MaskedDead
<1>5. ASSUME NEW t \in DOMAIN To(Handle(n), r)
      PROVE  LET res == Results(r, n, Side(n)) IN
         /\ \A x \in res[t] : \E e \in To(Handle(n), r)[t] :
              x = <<e, <<n, e, <<Handle(n), r, t>>>>>>
         /\ \A e \in To(Handle(n), r)[t] :
              Owner(e) \notin dead => <<e, <<n, e, <<Handle(n), r, t>>>>>> \in res[t]
  <2>1. PICK R : R = Results(r, n, Side(n))[t]
    OBVIOUS
  <2>2. R = {<<e, At(region[r][Side(n)], <<"combine", e, t>>)>> :
               e \in {x \in To(Handle(n), r)[t] : Owner(x) \notin mask[r]}}
    BY <1>5, <2>1 DEF Results
  <2>3. ASSUME NEW x \in R
        PROVE  \E e \in To(Handle(n), r)[t] : x = <<e, <<n, e, <<Handle(n), r, t>>>>>>
    <3>1. PICK e \in To(Handle(n), r)[t] :
            Owner(e) \notin mask[r] /\ x = <<e, At(region[r][Side(n)], <<"combine", e, t>>)>>
      BY <2>2
    <3> QED BY <1>3, <1>5, <3>1
  <2>4. ASSUME NEW e \in To(Handle(n), r)[t], Owner(e) \notin dead
        PROVE  <<e, <<n, e, <<Handle(n), r, t>>>>>> \in R
    <3>1. Owner(e) \notin mask[r]
      BY <1>3, <1>4, <1>5, <2>4
    <3>2. <<e, At(region[r][Side(n)], <<"combine", e, t>>)>> \in R
      BY <2>2, <3>1
    <3> QED BY <1>3, <1>5, <3>1, <3>2
  <2> QED BY <2>1, <2>3, <2>4
<1> QED BY <1>5 DEF Summed

(* A combine sums, and is over.                                             *)
LEMMA IInvReduce ==
  ASSUME CleansLast, IInv, NEW r \in Rank, Reduce(r)
  PROVE  IInv'
<1>0. /\ Shape /\ RowsInv /\ CombinedOwn /\ run \in Runs
  BY IInvFacts DEF Shape
<1>1. /\ r \notin dead /\ KindOf(Pos(r)) = "combine" /\ Active(Pos(r))
           /\ Pos(r) \in 1 .. NumCalls
      /\ \A s \in Rank, q \in Local : Taken(r, s, q)
      /\ Return(r) /\ run' = run /\ dead' = dead /\ counter' = counter /\ memory' = memory
      /\ staged' = staged /\ sync' = sync /\ mask' = mask /\ packed' = packed
      /\ layout' = layout /\ rows' = rows /\ PerCall(out)'
      /\ out'[r][Pos(r)] = Results(r, Pos(r), Side(Pos(r)))
      /\ \A x \in Rank, n \in 1 .. NumCalls : x # r \/ n # Pos(r) => out'[x][n] = out[x][n]
  BY ReduceFacts
<1>2. Leaves(r) /\ kernel' \in [Rank -> Kernels']
  BY <1>0, <1>1, ReturnStep
<1>3. Over(r)
  BY <1>1 DEF Over
<1>4. Retained(r)
  BY <1>1 DEF Retained
<1>5. RowsInv'
  <2> SUFFICES ASSUME NEW x \in Rank, NEW n \in 1 .. NumCalls, KindOf(n) = "dispatch"
               PROVE  CopiedOK(x, n)'
    BY <1>1, Fixed DEF RowsInv
  <2>1. x # r \/ n # Pos(r)
    BY <1>1
  <2>2. \A s \in Rank, q \in Local : Done(x, n, s, q)' <=> Done(x, n, s, q)
    BY <1>0, <1>1, <1>2, <2>1, LeaveDone
  <2> QED BY <1>0, <1>1, <2>2, RowsElse
<1>6. CombinedOwn'
  <2>0. /\ DOMAIN run.calls = 1 .. NumCalls
        /\ \A n \in 1 .. NumCalls : KindOf(n) = run.calls[n].kind
    BY <1>0, RunFacts
  <2> SUFFICES ASSUME NEW x \in Rank, NEW n \in 1 .. NumCalls, KindOf(n) = "combine",
                      Returned(x, n)'
               PROVE  LET h == run.calls[n].of
                          own(t, e) == <<e, <<n, e, <<h, x, t>>>>>>
                      IN  \A t \in DOMAIN To(h, x) :
                          /\ out'[x][n][t] \subseteq {own(t, e) : e \in To(h, x)[t]}
                          /\ \A e \in To(h, x)[t] : Owner(e) \notin dead
                               => own(t, e) \in out'[x][n][t]
    BY <1>1, <2>0, Fixed DEF CombinedOwn
  <2>1. CASE x = r /\ n = Pos(r)
    <3>1. Summed(r, n, Results(r, n, Side(n)))
      BY <1>1, <2>1, ResultsSummed
    <3>2. Summed(r, n, out'[r][n])
      BY <1>1, <2>1, <3>1
    <3> QED BY <2>1, <3>2 DEF Summed, Handle
  <2>2. CASE x # r \/ n # Pos(r)
    <3>1. Returned(x, n)
      <4>1. CASE x # r
        <5>1. kernel'[x] = kernel[x]
          BY <1>2, <4>1 DEF Leaves, Alone
        <5> QED BY <5>1 DEF Returned
      <4>2. CASE x = r
        <5>1. Pos(r)' = Pos(r) + 1
          BY <1>0, <1>1, <1>2, LeaveFacts
        <5>2. PICK p \in Nat : p = Pos(r)
          BY <1>1
        <5>3. n # p /\ p + 1 > n
          BY <2>2, <4>2, <5>1, <5>2 DEF Returned, Pos
        <5>4. n \in Nat
          BY <1>0, KernelTypes
        <5> QED BY <4>2, <5>2, <5>3, <5>4 DEF Returned, Pos
      <4> QED BY <4>1, <4>2
    <3>2. out'[x][n] = out[x][n]
      BY <1>1, <2>2
    <3> QED BY <1>0, <2>0, <3>1, <3>2 DEF CombinedOwn
  <2> QED BY <2>1, <2>2
<1> QED BY <1>1, <1>2, <1>3, <1>4, <1>5, <1>6, LeaveAll
=============================================================================
