---------------------------- MODULE IntranodeProofs ----------------------------
(***************************************************************************)
(* Proofs about the three components of the NVLink path: the barrier of    *)
(* its kernels (BarrierBlock), for any set of ranks and number of visits;  *)
(* the counters the host waits for (MoeCounter), for any number of words   *)
(* and calls; and one dispatch channel (ChannelQueue), for any number of   *)
(* tokens, slots and warps, any chunk size below the number of slots and   *)
(* any selection.  The three share no state: each theorem is about the     *)
(* specification of one.                                                   *)
(***************************************************************************)
EXTENDS BarrierBlock, MoeCounter, ChannelQueue, DataLemmas, FiniteSetTheorems,
        TLAPS

-----------------------------------------------------------------------------
(***************************************************************************)
(* barrier_block: an invariant of types, balance, order and fence, and the *)
(* abstract barrier it implements.                                         *)
(***************************************************************************)
(***************************************************************************)
(* The words' counts only move with the lane that owns them: how often     *)
(* each lane has added and subtracted, in types the solver can use.        *)
(***************************************************************************)
LEMMA CountsAreInt ==
  ASSUME BarrierTypeOK, NEW r \in Rank, NEW t \in Rank
  PROVE  /\ Adds(r, t) \in Int /\ Subs(r, t) \in Int
         /\ Subs(r, t) <= Adds(r, t) /\ Adds(r, t) <= Subs(r, t) + 1
         /\ round[r] <= Subs(r, t) /\ Adds(r, t) <= round[r] + 1
BY DEF BarrierTypeOK, Adds, Subs, LaneStates

(* Types, balance, order and fence hold initially. *)
LEMMA BarrierInitIInv == BarrierInit => BarrierIInv
BY MaxRoundAssumption
   DEF BarrierInit, BarrierIInv, BarrierTypeOK, LaneStates, SignalBalance, PeerArrived, FenceFirst,
       VisitOpen, Adds, Subs, FinishedSumTag

(***************************************************************************)
(* The invariant is inductive.  Only three steps touch what it relates:    *)
(* AddSelf and SubPeer move one word and one count together, and Poll      *)
(* turns a non-positive word into the peer's arrival.                      *)
(***************************************************************************)
LEMMA BarrierNextIInv == BarrierIInv /\ [BarrierNext]_barrierVars => BarrierIInv'
<1> SUFFICES ASSUME BarrierIInv, [BarrierNext]_barrierVars PROVE BarrierIInv'
  OBVIOUS
<1> USE DEF BarrierIInv
<1>1. CASE UNCHANGED barrierVars
  BY <1>1 DEF barrierVars, BarrierTypeOK, SignalBalance, PeerArrived, FenceFirst, VisitOpen,
                 Adds, Subs
<1>2. ASSUME NEW r \in Rank, Fence(r) PROVE BarrierIInv'
  <2>1. BarrierTypeOK'
    BY <1>2, MaxRoundAssumption DEF Fence, BarrierTypeOK
  <2>2. SignalBalance' /\ PeerArrived'
    BY <1>2 DEF Fence, SignalBalance, PeerArrived, Adds, Subs
  <2>3. FenceFirst' /\ VisitOpen'
    BY <1>2 DEF Fence, FenceFirst, VisitOpen, BarrierTypeOK
  <2> QED BY <2>1, <2>2, <2>3
<1>3. ASSUME NEW r \in Rank, NEW t \in Rank, AddSelf(r, t) PROVE BarrierIInv'
  <2>1. BarrierTypeOK'
    BY <1>3 DEF AddSelf, BarrierTypeOK, LaneStates, FinishedSumTag
  <2>2. /\ Adds(r, t)' = Adds(r, t) + 1
        /\ \A a, b \in Rank : <<a, b>> # <<r, t>> => Adds(a, b)' = Adds(a, b)
        /\ \A a, b \in Rank : Subs(a, b)' = Subs(a, b)
    BY <1>3 DEF AddSelf, BarrierTypeOK, Adds, Subs
  <2>3. SignalBalance'
    <3> SUFFICES ASSUME NEW a \in Rank, NEW b \in Rank
                 PROVE  sig'[a][b] = FinishedSumTag * (Adds(a, b)' - Subs(b, a)')
      BY DEF SignalBalance
    <3>1. sig[a][b] = FinishedSumTag * (Adds(a, b) - Subs(b, a))
      BY DEF SignalBalance
    <3>2. sig'[a][b] = IF a = r /\ b = t THEN sig[a][b] + FinishedSumTag ELSE sig[a][b]
      BY <1>3 DEF AddSelf, BarrierTypeOK
    <3>3. Adds(a, b) \in Int /\ Subs(b, a) \in Int
      BY CountsAreInt
    <3> QED BY <2>2, <3>1, <3>2, <3>3 DEF FinishedSumTag
  <2>4. PeerArrived'
    BY <1>3, <2>2 DEF AddSelf, PeerArrived, BarrierTypeOK
  <2>5. FenceFirst' /\ VisitOpen'
    BY <1>3 DEF AddSelf, FenceFirst, VisitOpen, BarrierTypeOK
  <2> QED BY <2>1, <2>3, <2>4, <2>5
<1>4. ASSUME NEW r \in Rank, NEW t \in Rank, SubPeer(r, t) PROVE BarrierIInv'
  <2>1. BarrierTypeOK'
    BY <1>4 DEF SubPeer, BarrierTypeOK, LaneStates, FinishedSumTag
  <2>2. /\ Subs(r, t)' = Subs(r, t) + 1
        /\ \A a, b \in Rank : <<a, b>> # <<r, t>> => Subs(a, b)' = Subs(a, b)
        /\ \A a, b \in Rank : Adds(a, b)' = Adds(a, b)
    BY <1>4 DEF SubPeer, BarrierTypeOK, Adds, Subs
  <2>3. SignalBalance'
    <3> SUFFICES ASSUME NEW a \in Rank, NEW b \in Rank
                 PROVE  sig'[a][b] = FinishedSumTag * (Adds(a, b)' - Subs(b, a)')
      BY DEF SignalBalance
    <3>1. sig[a][b] = FinishedSumTag * (Adds(a, b) - Subs(b, a))
      BY DEF SignalBalance
    <3>2. sig'[a][b] = IF a = t /\ b = r THEN sig[a][b] - FinishedSumTag ELSE sig[a][b]
      BY <1>4 DEF SubPeer, BarrierTypeOK
    <3>3. Adds(a, b) \in Int /\ Subs(b, a) \in Int
      BY CountsAreInt
    <3> QED BY <2>2, <3>1, <3>2, <3>3 DEF FinishedSumTag
  <2>4. PeerArrived'
    <3> SUFFICES ASSUME NEW a \in Rank, NEW b \in Rank
                 PROVE  /\ round'[a] <= Subs(b, a)'
                        /\ lane'[a][b] = "passed" => round'[a] + 1 <= Subs(b, a)'
      BY DEF PeerArrived
    <3>1. /\ round'[a] = round[a] /\ round[a] \in Int
          /\ lane'[a][b] = "passed" => lane[a][b] = "passed"
      BY <1>4 DEF SubPeer, BarrierTypeOK
    <3>2. Subs(b, a) \in Int /\ Subs(b, a)' >= Subs(b, a)
      BY <2>2, CountsAreInt
    <3>3. /\ round[a] <= Subs(b, a)
          /\ lane[a][b] = "passed" => round[a] + 1 <= Subs(b, a)
      BY DEF PeerArrived
    <3>4. Subs(b, a)' \in Int
      BY <2>2, CountsAreInt
    <3> QED BY <3>1, <3>2, <3>3, <3>4
  <2>5. FenceFirst' /\ VisitOpen'
    BY <1>4 DEF SubPeer, FenceFirst, VisitOpen, BarrierTypeOK
  <2> QED BY <2>1, <2>3, <2>4, <2>5
<1>5. ASSUME NEW r \in Rank, NEW t \in Rank, Poll(r, t) PROVE BarrierIInv'
  <2>1. BarrierTypeOK'
    BY <1>5 DEF Poll, BarrierTypeOK, LaneStates
  <2>2. \A a, b \in Rank : Adds(a, b)' = Adds(a, b) /\ Subs(a, b)' = Subs(a, b)
    BY <1>5 DEF Poll, BarrierTypeOK, Adds, Subs
  <2>3. SignalBalance'
    BY <1>5, <2>2 DEF Poll, SignalBalance
  <2>4. round[r] + 1 <= Subs(t, r)
    <3>1. Adds(r, t) = round[r] + 1
      BY <1>5 DEF Poll, Adds
    <3>2. FinishedSumTag * (Adds(r, t) - Subs(t, r)) <= 0
      BY <1>5 DEF Poll, SignalBalance
    <3> QED BY <3>1, <3>2, CountsAreInt DEF FinishedSumTag
  <2>5. PeerArrived'
    BY <1>5, <2>2, <2>4 DEF Poll, PeerArrived, BarrierTypeOK
  <2>6. FenceFirst' /\ VisitOpen'
    BY <1>5 DEF Poll, FenceFirst, VisitOpen, BarrierTypeOK
  <2> QED BY <2>1, <2>3, <2>5, <2>6
<1>6. ASSUME NEW r \in Rank, Leave(r) PROVE BarrierIInv'
  <2>0. \A t \in Rank : round[r] + 1 <= Subs(t, r)
    BY <1>6 DEF Leave, PeerArrived
  <2>1. BarrierTypeOK'
    <3>1. lane[r][r] = "passed"
      BY <1>6 DEF Leave
    <3>2. round[r] + 1 \in 0 .. MaxRound
      BY <3>1, MaxRoundAssumption DEF BarrierTypeOK, VisitOpen
    <3> QED BY <1>6, <3>2 DEF Leave, BarrierTypeOK, LaneStates
  <2>2. \A a, b \in Rank : Adds(a, b)' = Adds(a, b) /\ Subs(a, b)' = Subs(a, b)
    BY <1>6 DEF Leave, BarrierTypeOK, Adds, Subs
  <2>3. SignalBalance'
    BY <1>6, <2>2 DEF Leave, SignalBalance
  <2>4. PeerArrived'
    BY <1>6, <2>0, <2>2 DEF Leave, PeerArrived, BarrierTypeOK
  <2>5. FenceFirst'
    <3>1. lane[r][r] = "passed"
      BY <1>6 DEF Leave
    <3>2. ~SyncOnly => round[r] <= visible[r] /\ visible[r] # round[r]
      BY <3>1, Zenon DEF FenceFirst
    <3>3. round[r] \in Int /\ visible[r] \in Int
      BY DEF BarrierTypeOK
    <3>4. ~SyncOnly => round[r] + 1 <= visible[r]
      BY <3>2, <3>3
    <3> QED BY <1>6, <3>4 DEF Leave, FenceFirst, BarrierTypeOK
  <2>6. VisitOpen'
    BY <1>6 DEF Leave, VisitOpen, BarrierTypeOK
  <2> QED BY <2>1, <2>3, <2>4, <2>5, <2>6
<1> QED
  BY <1>1, <1>2, <1>3, <1>4, <1>5, <1>6 DEF BarrierNext, RankStep

(***************************************************************************)
(* The inductive invariant, and with it the types, holds in every state.   *)
(***************************************************************************)
THEOREM BarrierInvariance == BarrierSpec => []BarrierIInv
<1>1. BarrierInit => BarrierIInv
  BY BarrierInitIInv
<1>2. BarrierIInv /\ [BarrierNext]_barrierVars => BarrierIInv'
  BY BarrierNextIInv
<1> QED
  BY <1>1, <1>2, PTL DEF BarrierSpec

(* Every variable of barrier_block keeps its type. *)
THEOREM BarrierTypeCorrect == BarrierSpec => []BarrierTypeOK
<1>1. BarrierIInv => BarrierTypeOK
  BY DEF BarrierIInv
<1> QED
  BY <1>1, BarrierInvariance, PTL

(***************************************************************************)
(* The signal words, which barrier_block never resets, stay within one tag *)
(* of zero for ever: no visit can make them drift or overflow.             *)
(***************************************************************************)
THEOREM NoDrift == BarrierSpec => []SignalsNeverDrift
<1>1. BarrierIInv => SignalsNeverDrift
  <2> SUFFICES ASSUME BarrierIInv, NEW r \in Rank, NEW t \in Rank
               PROVE  sig[r][t] \in {-FinishedSumTag, 0, FinishedSumTag}
    BY DEF SignalsNeverDrift
  <2> USE DEF BarrierIInv
  <2>1. sig[r][t] = FinishedSumTag * (Adds(r, t) - Subs(t, r))
    BY DEF SignalBalance
  <2>2. Adds(r, t) \in Int /\ Subs(t, r) \in Int
    BY CountsAreInt
  <2>3. Adds(r, t) - Subs(t, r) <= 1
    BY CountsAreInt DEF PeerArrived, BarrierTypeOK
  <2>4. Adds(r, t) - Subs(t, r) >= -1
    <3>1. Subs(t, r) <= Adds(t, r) /\ Adds(t, r) <= round[t] + 1
      BY CountsAreInt
    <3>2. round[t] <= Subs(r, t) /\ Subs(r, t) <= Adds(r, t)
      BY CountsAreInt DEF PeerArrived
    <3>3. round[t] \in Int /\ Adds(t, r) \in Int /\ Subs(r, t) \in Int
      BY CountsAreInt DEF BarrierTypeOK
    <3> QED BY <2>2, <3>1, <3>2, <3>3
  <2>5. Adds(r, t) - Subs(t, r) \in {-1, 0, 1}
    BY <2>2, <2>3, <2>4
  <2> QED BY <2>1, <2>5 DEF FinishedSumTag
<1> QED
  BY <1>1, BarrierInvariance, PTL

(***************************************************************************)
(* With the fence, a rank that has left the barrier sees what every rank   *)
(* wrote before entering it.                                               *)
(***************************************************************************)
THEOREM Visibility == BarrierSpec => []WritesVisible
<1>1. BarrierIInv => WritesVisible
  <2> SUFFICES ASSUME BarrierIInv, ~SyncOnly, NEW r \in Rank, NEW t \in Rank
               PROVE  round[r] <= visible[t]
    BY DEF WritesVisible
  <2> USE DEF BarrierIInv
  <2>1. round[r] <= Subs(t, r)
    BY DEF PeerArrived
  <2>2. round[r] \in Int /\ round[t] \in Int /\ visible[t] \in Int /\ Subs(t, r) \in Int
    BY CountsAreInt DEF BarrierTypeOK
  <2>3. round[t] <= visible[t] /\ (visible[t] = round[t] => lane[t][r] = "add")
    BY Zenon DEF FenceFirst
  <2>4. Subs(t, r) <= visible[t]
    BY <2>2, <2>3 DEF Subs
  <2> QED BY <2>1, <2>2, <2>4
<1> QED
  BY <1>1, BarrierInvariance, PTL

(***************************************************************************)
(* barrier_block implements the abstract barrier: SubPeer may be a rank's  *)
(* entry, Leave is its exit, and every other step stutters.                *)
(***************************************************************************)
THEOREM ImplementsBarrier == BarrierSpec => IsBarrier
<1> DEFINE ent == [r \in Rank |-> IF HasEntered(r) THEN round[r] + 1 ELSE round[r]]
<1>1. BarrierInit => AbstractBarrier!BInit
  BY DEF BarrierInit, AbstractBarrier!BInit, HasEntered
<1>2. BarrierIInv /\ [BarrierNext]_barrierVars => [AbstractBarrier!BNext]_(AbstractBarrier!bvars)
  <2> SUFFICES ASSUME BarrierIInv, [BarrierNext]_barrierVars
               PROVE  AbstractBarrier!BNext \/ (ent' = ent /\ round' = round)
    BY DEF AbstractBarrier!bvars
  <2> USE DEF BarrierIInv
  <2>1. CASE UNCHANGED barrierVars
    BY <2>1 DEF barrierVars, HasEntered
  <2>2. ASSUME NEW r \in Rank, Fence(r) PROVE ent' = ent /\ round' = round
    BY <2>2 DEF Fence, HasEntered
  <2>3. ASSUME NEW r \in Rank, NEW t \in Rank, AddSelf(r, t)
        PROVE  ent' = ent /\ round' = round
    BY <2>3 DEF AddSelf, HasEntered, BarrierTypeOK
  <2>4. ASSUME NEW r \in Rank, NEW t \in Rank, Poll(r, t)
        PROVE  ent' = ent /\ round' = round
    <3>1. \A a, b \in Rank : lane'[a][b] \in {"poll", "passed"}
                           <=> lane[a][b] \in {"poll", "passed"}
      BY <2>4 DEF Poll, BarrierTypeOK
    <3>2. \A a \in Rank : HasEntered(a)' <=> HasEntered(a)
      BY <3>1 DEF HasEntered
    <3> QED BY <2>4, <3>2 DEF Poll
  <2>5. ASSUME NEW r \in Rank, NEW t \in Rank, SubPeer(r, t)
        PROVE  AbstractBarrier!BEnter(r) \/ (ent' = ent /\ round' = round)
    <3>1. /\ HasEntered(r)' /\ round' = round
          /\ \A a \in Rank \ {r} : HasEntered(a)' <=> HasEntered(a)
      BY <2>5 DEF SubPeer, HasEntered, BarrierTypeOK
    <3>2. CASE HasEntered(r)
      BY <3>1, <3>2
    <3>3. CASE ~HasEntered(r)
      <4>1. ent[r] = round[r] /\ round[r] \in Int
        BY <3>3 DEF BarrierTypeOK
      <4>2. ent' = [ent EXCEPT ![r] = @ + 1]
        BY <3>1, <3>3, <4>1
      <4> QED BY <3>1, <4>1, <4>2 DEF AbstractBarrier!BEnter
    <3> QED BY <3>2, <3>3
  <2>6. ASSUME NEW r \in Rank, Leave(r) PROVE AbstractBarrier!BLeave(r)
    <3>1. HasEntered(r)
      BY <2>6 DEF Leave, HasEntered
    <3>2. \A t \in Rank : round[r] + 1 <= Subs(t, r)
      BY <2>6 DEF Leave, PeerArrived
    <3>3. \A t \in Rank : Subs(t, r) <= ent[t]
      BY DEF Subs, HasEntered, BarrierTypeOK, LaneStates
    <3>4. /\ ent[r] = round[r] + 1
          /\ \A t \in Rank : ent[t] \in Int /\ Subs(t, r) \in Int /\ round[t] \in Int
      BY <3>1, CountsAreInt DEF BarrierTypeOK
    <3>5. \A t \in Rank : ent[r] <= ent[t]
      <4> SUFFICES ASSUME NEW t \in Rank PROVE ent[r] <= ent[t]
        OBVIOUS
      <4> HIDE DEF ent
      <4> QED BY <3>2, <3>3, <3>4
    <3>6. ent' = ent
      <4>1. ~HasEntered(r)' /\ \A a \in Rank \ {r} : HasEntered(a)' <=> HasEntered(a)
        BY <2>6 DEF Leave, HasEntered, BarrierTypeOK
      <4>2. round' = [round EXCEPT ![r] = @ + 1]
        BY <2>6 DEF Leave
      <4>3. \A a \in Rank : ent'[a] = ent[a]
        BY <3>1, <4>1, <4>2 DEF BarrierTypeOK
      <4> QED BY <4>3
    <3>7. round[r] < ent[r]
      BY <3>4
    <3> QED BY <2>6, <3>5, <3>6, <3>7 DEF Leave, AbstractBarrier!BLeave
  <2> QED
    BY <2>1, <2>2, <2>3, <2>4, <2>5, <2>6 DEF BarrierNext, RankStep, AbstractBarrier!BNext
<1> QED
  BY <1>1, <1>2, BarrierInvariance, PTL DEF BarrierSpec, IsBarrier, AbstractBarrier!BSpec

-----------------------------------------------------------------------------
(***************************************************************************)
(* The host's counters: a waiting call returns with its own kernel's       *)
(* numbers, if Unmixed.                                                    *)
(***************************************************************************)
(* The calls about which anything can be said: all internode ones, and the *)
(* intranode ones that wait.                                               *)
Clean == guarded \/ mode[call] = "wait"

(* The stream is at most at the next launch, and what the running kernel   *)
(* has written it was launched and allowed to write.                       *)
StreamInOrder ==
  /\ running <= Launched + 1
  /\ written # {} => running <= Launched /\ Writes(running)

(* No kernel of an earlier call has a word left to write.                  *)
EarlierSilent ==
  Clean => \A m \in 1 .. call - 1 :
             m >= running /\ Writes(m) => m = running /\ written = Word

(* A word is -1 from its reset on, until this call's kernel writes it.     *)
Pending(w) == running <= call /\ (running = call => w \notin written)
WordsOwn ==
  Clean =>
    /\ host = "reset" => \A w \in Word : w < at => word[w] = -1
    /\ host \in {"scan", "copy"} =>
         \A w \in Word :
           word[w] = IF Writes(call) /\ ~Pending(w) THEN call ELSE -1

(* What the loop has passed over are numbers of this call.                 *)
ScanSound ==
  /\ host = "copy" => mode[call] = "wait"
  /\ mode[call] = "wait" =>
       \A w \in Word :
         (host = "scan" /\ w < at) \/ host = "copy" =>
           word[w] = call /\ (w \in TotalWord => seen[w] = call)

Answers == Len(taken) = IF host = "done" THEN NumCalls ELSE call - 1

CounterIInv ==
  /\ CounterTypeOK /\ StreamInOrder /\ EarlierSilent /\ WordsOwn /\ ScanSound
  /\ Answers /\ HostTakesOwnCounts
-----------------------------------------------------------------------------
(* What a program is, in the terms the actions use. *)
LEMMA ProgramFacts ==
  ASSUME CounterTypeOK
  PROVE  /\ mode \in Seq({"wait", "worst"}) /\ guarded \in BOOLEAN
         /\ NumCalls \in Nat \ {0} /\ DOMAIN mode = 1 .. NumCalls
         /\ call \in DOMAIN mode
         /\ \A n \in DOMAIN mode : mode[n] = "wait" \/ mode[n] = "worst"
BY ProgramsAssumption DEF CounterTypeOK, NumCalls

(* The words are numbered from 0, and the totals come first. *)
LEMMA WordFacts ==
  /\ 0 \in Word /\ TotalWord \subseteq Word /\ Word \subseteq Nat
  /\ \A w \in Word : w <= NumWords - 1
  /\ \A w \in Word : w # NumWords - 1 => w + 1 \in Word
  /\ NumWords - 1 \in Word /\ NumWords \in Nat \ {0}
BY WordsAssumption DEF Word, TotalWord

(* If the next call is Clean, so is this one, and it waits unless its       *)
(* kernel writes nothing.                                                   *)
LEMMA CleanBefore ==
  ASSUME CounterTypeOK, Unmixed, call + 1 \in DOMAIN mode,
         guarded \/ mode[call + 1] = "wait"
  PROVE  Clean /\ (Writes(call) => mode[call] = "wait")
<1> DEFINE p == [guarded |-> guarded, mode |-> mode]
<1>1. p \in Programs /\ p.guarded = guarded /\ p.mode = mode
  BY DEF CounterTypeOK
<1>2. guarded \/ (mode[call] = "worst" => mode[call + 1] = "worst")
  <2>1. guarded \/ \A i, j \in DOMAIN mode :
                     i < j /\ mode[i] = "worst" => mode[j] = "worst"
    BY <1>1 DEF Unmixed
  <2>2. call < call + 1
    BY ProgramFacts
  <2> QED BY <2>1, <2>2, ProgramFacts
<1> QED BY <1>2, ProgramFacts DEF Clean, Writes

LEMMA CounterInitIInv == CounterInit => CounterIInv
<1> SUFFICES ASSUME CounterInit PROVE CounterIInv
  OBVIOUS
<1>1. PICK p \in Programs : guarded = p.guarded /\ mode = p.mode
  BY DEF CounterInit
<1>2. p = [guarded |-> guarded, mode |-> mode]
  BY <1>1, ProgramsAssumption
<1>3. NumCalls \in Nat \ {0}
  BY <1>1, ProgramsAssumption DEF NumCalls
<1>4. CounterTypeOK
  BY <1>1, <1>2, <1>3, WordFacts DEF CounterInit, CounterTypeOK, HostSteps, Launched, NumCalls
<1> QED
  BY <1>4, WordFacts
     DEF CounterInit, CounterIInv, StreamInOrder, EarlierSilent, WordsOwn, ScanSound, Answers,
         HostTakesOwnCounts, Launched

-----------------------------------------------------------------------------
(* The host goes on to the next call, or ends: what the state owes the      *)
(* later call follows if this call's kernel has no word left to write.      *)
LEMMA NextCallKeeps ==
  ASSUME CounterIInv, Unmixed, NextCall, host \in {"scan", "copy"},
         UNCHANGED <<program, word, running, written>>,
         Clean /\ Writes(call) => running > call \/ (running = call /\ written = Word)
  PROVE  /\ call' \in 1 .. NumCalls /\ host' \in HostSteps /\ at' = 0
         /\ Launched' = Launched /\ Launched = call
         /\ host' = "reset" \/ host' = "done"
         /\ StreamInOrder' /\ EarlierSilent' /\ WordsOwn' /\ ScanSound'
<1> USE DEF CounterIInv
<1>1. mode' = mode /\ guarded' = guarded /\ \A n : Writes(n)' <=> Writes(n)
  BY DEF program, Writes
<1>2. /\ call' = (IF call < NumCalls THEN call + 1 ELSE call)
      /\ host' = (IF call < NumCalls THEN "reset" ELSE "done")
      /\ at' = 0
  BY DEF NextCall
<1>3. Launched' = Launched /\ Launched = call
  BY <1>2, ProgramFacts DEF Launched
<1>4. EarlierSilent'
  <2>1. CASE call < NumCalls
    <3> SUFFICES ASSUME Clean', NEW m \in 1 .. call, m >= running, Writes(m)
                 PROVE  m = running /\ written = Word
      BY <1>1, <1>2, <2>1, ProgramFacts DEF EarlierSilent
    <3>1. Clean
      BY <1>1, <1>2, <2>1, CleanBefore, ProgramFacts DEF Clean
    <3>2. CASE m = call
      BY <3>1, <3>2, ProgramFacts DEF CounterTypeOK
    <3>3. CASE m # call
      <4>1. m \in 1 .. call - 1
        BY <3>3, ProgramFacts
      <4> QED BY <3>1, <4>1 DEF EarlierSilent
    <3> QED BY <3>2, <3>3
  <2>2. CASE ~(call < NumCalls)
    BY <1>1, <1>2, <2>2 DEF EarlierSilent, Clean
  <2> QED BY <2>1, <2>2
<1>5. StreamInOrder'
  BY <1>1, <1>3 DEF StreamInOrder
<1>6. WordsOwn' /\ ScanSound'
  BY <1>2, WordFacts DEF WordsOwn, ScanSound
<1> QED
  BY <1>2, <1>3, <1>4, <1>5, <1>6, ProgramFacts DEF HostSteps

LEMMA ResetKeeps == ASSUME CounterIInv, Reset PROVE CounterIInv'
<1> USE DEF CounterIInv
<1>1. mode' = mode /\ guarded' = guarded /\ call' = call /\ (Clean' <=> Clean)
      /\ \A n : Writes(n)' <=> Writes(n)
  BY DEF Reset, program, Clean, Writes
<1>2. \A w \in Word : word'[w] = IF w = at THEN -1 ELSE word[w]
  BY DEF Reset, CounterTypeOK
<1>3. Launched = call - 1 /\ Launched' >= Launched /\ Launched' \in Int
  BY <1>1, ProgramFacts DEF Reset, Launched
<1>4. CounterTypeOK'
  <2>1. word' \in [Word -> -1 .. Launched']
    BY <1>3, ProgramFacts DEF Reset, CounterTypeOK
  <2>2. at' \in Word /\ host' \in HostSteps
    BY WordFacts DEF Reset, CounterTypeOK, HostSteps
  <2>3. UNCHANGED <<guarded, mode, call, seen, taken, running, written>>
    BY DEF Reset, program, gpuVars
  <2> QED BY <2>1, <2>2, <2>3 DEF CounterTypeOK, NumCalls
<1>5. StreamInOrder' /\ EarlierSilent'
  <2>1. running' = running /\ written' = written
    BY DEF Reset, gpuVars
  <2>2. UNCHANGED <<guarded, mode>>
    BY DEF Reset, program
  <2>3. StreamInOrder'
    <3>1. running \in Int /\ Launched \in Int
      BY <1>3, ProgramFacts DEF CounterTypeOK
    <3>2. running <= Launched + 1 /\ (written # {} => running <= Launched)
      BY DEF StreamInOrder
    <3>3. running <= Launched' + 1
      BY <1>1, <3>1, <3>2, ProgramFacts DEF Launched, Reset
    <3>4. written # {} => running <= Launched'
      BY <1>3, <3>1, <3>2
    <3>5. written # {} => Writes(running)
      BY DEF StreamInOrder
    <3> QED BY <2>1, <2>2, <3>3, <3>4, <3>5 DEF StreamInOrder, Writes
  <2>4. EarlierSilent'
    BY <1>1, <2>1, <2>2 DEF EarlierSilent, Writes
  <2> QED BY <2>3, <2>4
<1>6. WordsOwn'
  <2>1. CASE at < NumWords - 1
    BY <1>1, <1>2, <2>1, WordFacts DEF Reset, WordsOwn, CounterTypeOK
  <2>2. CASE at = NumWords - 1
    <3>1. running <= call /\ (running = call => written = {})
      BY <1>3, ProgramFacts DEF StreamInOrder, CounterTypeOK
    <3>2. \A w \in Word : Pending(w)'
      BY <1>1, <3>1 DEF Pending, Reset, gpuVars
    <3>3. Clean => \A w \in Word : word'[w] = -1
      BY <1>2, <2>2, WordFacts DEF WordsOwn, Reset, CounterTypeOK
    <3>4. host' = "scan"
      BY <2>2, WordFacts DEF Reset
    <3> QED BY <1>1, <3>2, <3>3, <3>4 DEF WordsOwn
  <2> QED BY <2>1, <2>2, WordFacts DEF CounterTypeOK
<1>7. ScanSound'
  <2>1. at' = 0 \/ host' = "reset"
    BY DEF Reset
  <2>2. host' # "copy"
    BY DEF Reset
  <2>3. \A w \in Word : ~((host' = "scan" /\ w < at') \/ host' = "copy")
    BY <2>1, <2>2, WordFacts
  <2> QED BY <2>2, <2>3 DEF ScanSound
<1>8. Answers' /\ HostTakesOwnCounts'
  BY <1>1 DEF Reset, Answers, HostTakesOwnCounts, NumCalls
<1> QED BY <1>4, <1>5, <1>6, <1>7, <1>8

LEMMA TakeWorstKeeps == ASSUME CounterIInv, Unmixed, TakeWorst PROVE CounterIInv'
<1> USE DEF CounterIInv
<1>1. mode' = mode /\ guarded' = guarded /\ NumCalls' = NumCalls
  BY DEF TakeWorst, program, NumCalls
<1>2. Clean => ~Writes(call)
  BY ProgramFacts DEF TakeWorst, Clean, Writes
<1>3. /\ call' \in 1 .. NumCalls /\ host' \in HostSteps /\ at' = 0
      /\ Launched' = Launched /\ Launched = call
      /\ host' = "reset" \/ host' = "done"
      /\ StreamInOrder' /\ EarlierSilent' /\ WordsOwn' /\ ScanSound'
  BY <1>2, NextCallKeeps DEF TakeWorst, gpuVars
<1>4. CounterTypeOK'
  <2>1. taken' \in Seq([Word -> -1 .. NumCalls])
    <3>1. [w \in Word |-> -1] \in [Word -> -1 .. NumCalls]
      BY ProgramFacts
    <3> QED BY <3>1 DEF TakeWorst, CounterTypeOK
  <2>2. UNCHANGED <<seen, word, running, written>>
    BY DEF TakeWorst, gpuVars
  <2> QED BY <1>1, <1>3, <2>1, <2>2, WordFacts DEF CounterTypeOK
<1>5. Len(taken') = Len(taken) + 1
      /\ \A n \in DOMAIN taken' : (n \in DOMAIN taken /\ taken'[n] = taken[n]) \/ n = call
  BY DEF TakeWorst, CounterTypeOK, Answers
<1>6. Answers'
  BY <1>1, <1>5, ProgramFacts DEF TakeWorst, Answers, NextCall, CounterTypeOK
<1>7. HostTakesOwnCounts'
  BY <1>1, <1>5, ProgramFacts DEF TakeWorst, HostTakesOwnCounts
<1> QED BY <1>3, <1>4, <1>6, <1>7

LEMMA ScanKeeps == ASSUME CounterIInv, Scan PROVE CounterIInv'
<1> USE DEF CounterIInv
<1>1. /\ mode' = mode /\ guarded' = guarded /\ call' = call /\ word' = word
      /\ running' = running /\ written' = written /\ taken' = taken
      /\ NumCalls' = NumCalls /\ (Clean' <=> Clean)
      /\ (\A n : Writes(n)' <=> Writes(n)) /\ (\A w : Pending(w)' <=> Pending(w))
  BY DEF Scan, program, gpuVars, NumCalls, Clean, Writes, Pending
<1>2. host' \in {"scan", "copy"} /\ host = "scan" /\ mode[call] = "wait"
  BY DEF Scan
<1>3. Launched' = Launched
  BY <1>1, <1>2 DEF Launched
<1>4. at' \in Word
  BY WordFacts DEF Scan, CounterTypeOK
<1>5. word \in [Word -> -1 .. NumCalls]
  BY ProgramFacts DEF CounterTypeOK, Launched
<1>6. seen' \in [TotalWord -> -1 .. NumCalls]
  BY <1>5, WordFacts DEF Scan, CounterTypeOK
<1>7. CounterTypeOK'
  BY <1>1, <1>2, <1>3, <1>4, <1>6 DEF CounterTypeOK, HostSteps
<1>8. StreamInOrder' /\ EarlierSilent' /\ WordsOwn'
  BY <1>1, <1>2, <1>3 DEF StreamInOrder, EarlierSilent, WordsOwn
<1>9. ScanSound'
  <2>1. word[at] >= 0 => word[at] = call
    BY <1>2 DEF WordsOwn, Clean, CounterTypeOK
  <2>2. \A w \in TotalWord : seen'[w] = IF w = at THEN word[at] ELSE seen[w]
    BY DEF Scan, CounterTypeOK
  <2>3. CASE word[at] < 0
    BY <2>3, WordFacts, <1>5 DEF Scan, ScanSound, CounterTypeOK
  <2>4. CASE word[at] >= 0
    <3>1. \A w \in Word : w <= at => word[w] = call /\ (w \in TotalWord => seen'[w] = call)
      BY <1>2, <2>1, <2>2, <2>4, WordFacts DEF ScanSound, CounterTypeOK
    <3>2. /\ host' = "scan" => at' = at + 1
          /\ host' = "copy" => at = NumWords - 1
      BY <2>4, <1>5 DEF Scan, CounterTypeOK
    <3>3. \A w \in Word : (host' = "scan" /\ w < at') \/ host' = "copy" => w <= at
      BY <3>2, WordFacts DEF CounterTypeOK
    <3> QED BY <1>1, <1>2, <3>1, <3>3 DEF ScanSound
  <2> QED BY <2>3, <2>4, <1>5 DEF CounterTypeOK
<1>10. Answers' /\ HostTakesOwnCounts'
  BY <1>1, <1>2 DEF Answers, HostTakesOwnCounts
<1> QED BY <1>7, <1>8, <1>9, <1>10

LEMMA TimeoutKeeps == ASSUME CounterIInv, Timeout PROVE CounterIInv'
<1> USE DEF CounterIInv, Timeout, program, gpuVars
<1>1. /\ NumCalls' = NumCalls /\ Launched' = Launched /\ (Clean' <=> Clean)
      /\ \A n : Writes(n)' <=> Writes(n)
  BY DEF NumCalls, Launched, Clean, Writes
<1>2. CounterTypeOK'
  BY <1>1 DEF CounterTypeOK, HostSteps
<1> QED
  BY <1>1, <1>2
     DEF StreamInOrder, EarlierSilent, WordsOwn, ScanSound, Answers, HostTakesOwnCounts

LEMMA CopyKeeps == ASSUME CounterIInv, Unmixed, Copy PROVE CounterIInv'
<1> USE DEF CounterIInv
<1>0. mode[call] = "wait"
  BY DEF Copy, ScanSound
<1>1. mode' = mode /\ guarded' = guarded /\ NumCalls' = NumCalls
  BY DEF Copy, program, NumCalls
<1>2. running > call \/ (running = call /\ written = Word)
  <2>1. \A w \in Word : word[w] = call
    BY <1>0 DEF ScanSound, Copy
  <2>2. \A w \in Word : ~Pending(w)
    BY <1>0, <2>1, ProgramFacts DEF WordsOwn, Clean, Copy
  <2>3. running \in Nat /\ call \in Nat /\ written \subseteq Word
    BY ProgramFacts DEF CounterTypeOK
  <2>4. running > call \/ running = call
    BY <2>2, <2>3, WordFacts DEF Pending
  <2>5. running = call => written = Word
    BY <2>2, <2>3 DEF Pending
  <2> QED BY <2>4, <2>5
<1>3. /\ call' \in 1 .. NumCalls /\ host' \in HostSteps /\ at' = 0
      /\ Launched' = Launched /\ Launched = call
      /\ host' = "reset" \/ host' = "done"
      /\ StreamInOrder' /\ EarlierSilent' /\ WordsOwn' /\ ScanSound'
  BY <1>2, NextCallKeeps DEF Copy, gpuVars
<1> DEFINE answer == [w \in Word |-> IF w \in TotalWord THEN seen[w] ELSE word[w]]
<1>4. \A w \in Word : answer[w] = call
  BY <1>0 DEF ScanSound, Copy
<1>5. answer \in [Word -> -1 .. NumCalls]
  BY <1>4, ProgramFacts
<1>6. taken' = Append(taken, answer)
  BY DEF Copy
<1>7. CounterTypeOK'
  <2>1. taken' \in Seq([Word -> -1 .. NumCalls])
    BY <1>5, <1>6 DEF CounterTypeOK
  <2>2. UNCHANGED <<seen, word, running, written>>
    BY DEF Copy, gpuVars
  <2> QED BY <1>1, <1>3, <2>1, <2>2, WordFacts DEF CounterTypeOK
<1>8. /\ Len(taken') = Len(taken) + 1 /\ Len(taken) = call - 1
      /\ \A n \in DOMAIN taken' : (n \in DOMAIN taken /\ taken'[n] = taken[n])
                                  \/ (n = call /\ taken'[n] = answer)
  BY <1>5, <1>6 DEF Copy, CounterTypeOK, Answers
<1>9. Answers'
  BY <1>1, <1>8, ProgramFacts DEF Copy, Answers, NextCall, CounterTypeOK
<1>10. HostTakesOwnCounts'
  BY <1>1, <1>4, <1>8, ProgramFacts DEF HostTakesOwnCounts
<1> QED BY <1>3, <1>7, <1>9, <1>10

-----------------------------------------------------------------------------
LEMMA CounterWriteKeeps == ASSUME CounterIInv, NEW w \in Word, Write(w) PROVE CounterIInv'
<1> USE DEF CounterIInv
<1>1. /\ mode' = mode /\ guarded' = guarded /\ call' = call /\ host' = host /\ at' = at
      /\ seen' = seen /\ taken' = taken /\ running' = running
      /\ written' = written \cup {w} /\ w \notin written
      /\ NumCalls' = NumCalls /\ Launched' = Launched /\ (Clean' <=> Clean)
      /\ \A n : Writes(n)' <=> Writes(n)
  BY DEF Write, program, hostVars, NumCalls, Launched, Clean, Writes
<1>2. \A v \in Word : word'[v] = IF v = w THEN running ELSE word[v]
  BY DEF Write, CounterTypeOK
<1>3. running <= Launched /\ running >= 1 /\ Launched <= call /\ Launched \in Int
  BY ProgramFacts DEF Write, CounterTypeOK, Launched
<1>4. CounterTypeOK'
  BY <1>1, <1>3 DEF Write, CounterTypeOK
<1>5. StreamInOrder'
  BY <1>1, <1>3 DEF StreamInOrder, Write, CounterTypeOK
<1>6. Clean => running = call /\ host # "reset"
  <2>1. Clean => ~(running \in 1 .. call - 1)
    BY <1>1 DEF EarlierSilent, Write
  <2> QED BY <1>3, <2>1, ProgramFacts DEF CounterTypeOK, Launched
<1>7. EarlierSilent'
  BY <1>1, <1>6, ProgramFacts DEF EarlierSilent
<1>8. WordsOwn'
  BY <1>1, <1>2, <1>6, ProgramFacts DEF WordsOwn, Pending, Write
<1>9. ScanSound'
  <2>1. mode[call] = "wait" => running = call
    BY <1>6 DEF Clean
  <2> QED BY <1>1, <1>2, <2>1 DEF ScanSound
<1>10. Answers' /\ HostTakesOwnCounts'
  BY <1>1 DEF Answers, HostTakesOwnCounts
<1> QED BY <1>4, <1>5, <1>7, <1>8, <1>9, <1>10

LEMMA KernelEndKeeps == ASSUME CounterIInv, KernelEnd PROVE CounterIInv'
<1> USE DEF CounterIInv
<1>1. /\ mode' = mode /\ guarded' = guarded /\ call' = call /\ host' = host /\ at' = at
      /\ seen' = seen /\ taken' = taken /\ word' = word
      /\ running' = running + 1 /\ written' = {}
      /\ NumCalls' = NumCalls /\ Launched' = Launched /\ (Clean' <=> Clean)
      /\ \A n : Writes(n)' <=> Writes(n)
  BY DEF KernelEnd, program, hostVars, NumCalls, Launched, Clean, Writes
<1>2. running <= Launched /\ running >= 1 /\ Launched <= call /\ Launched \in Int
  BY ProgramFacts DEF KernelEnd, CounterTypeOK, Launched
<1>3. CounterTypeOK'
  BY <1>1, <1>2, ProgramFacts DEF CounterTypeOK
<1>4. StreamInOrder'
  BY <1>1, <1>2 DEF StreamInOrder, CounterTypeOK
<1>5. EarlierSilent'
  BY <1>1, <1>2, ProgramFacts DEF EarlierSilent, CounterTypeOK
<1>6. WordsOwn'
  <2>1. Writes(call) => \A w \in Word : Pending(w)' <=> Pending(w)
    <3>1. CASE running = call
      BY <1>1, <3>1, ProgramFacts DEF Pending, KernelEnd
    <3>2. CASE running # call
      BY <1>1, <1>2, <3>2, ProgramFacts DEF Pending, CounterTypeOK
    <3> QED BY <3>1, <3>2
  <2> QED BY <1>1, <2>1 DEF WordsOwn
<1>7. ScanSound' /\ Answers' /\ HostTakesOwnCounts'
  BY <1>1 DEF ScanSound, Answers, HostTakesOwnCounts
<1> QED BY <1>3, <1>4, <1>5, <1>6, <1>7

-----------------------------------------------------------------------------
LEMMA CounterNextIInv == ASSUME Unmixed, CounterIInv, [CounterNext]_counterVars PROVE CounterIInv'
<1>1. CASE Reset     BY <1>1, ResetKeeps
<1>2. CASE TakeWorst BY <1>2, TakeWorstKeeps
<1>3. CASE Scan      BY <1>3, ScanKeeps
<1>4. CASE Timeout   BY <1>4, TimeoutKeeps
<1>5. CASE Copy      BY <1>5, CopyKeeps
<1>6. ASSUME NEW w \in Word, Write(w) PROVE CounterIInv'
  BY <1>6, CounterWriteKeeps
<1>7. CASE KernelEnd BY <1>7, KernelEndKeeps
<1>8. CASE UNCHANGED counterVars
  BY <1>8 DEF CounterIInv, counterVars, program, hostVars, gpuVars, CounterTypeOK, StreamInOrder,
              EarlierSilent, WordsOwn, ScanSound, Answers, HostTakesOwnCounts,
              Clean, Pending, Writes, Launched, NumCalls
<1> QED
  BY <1>1, <1>2, <1>3, <1>4, <1>5, <1>6, <1>7, <1>8
     DEF CounterNext, HostNext, GpuNext, HostFinished

(* The inductive invariant, under the application's obligation. *)
THEOREM CounterInvariance == Unmixed => (CounterSpec => []CounterIInv)
<1> SUFFICES ASSUME Unmixed PROVE CounterSpec => []CounterIInv
  OBVIOUS
<1>1. CounterIInv /\ [CounterNext]_counterVars => CounterIInv'
  BY CounterNextIInv
<1> QED BY <1>1, CounterInitIInv, PTL DEF CounterSpec

(* A waiting call returns with the numbers of its own kernel, whatever      *)
(* kernels of earlier calls are still on the stream: for the internode      *)
(* kernel always, for the intranode ones when no call waits after one that  *)
(* did not.                                                                 *)
THEOREM OwnCounts == Unmixed => (CounterSpec => []HostTakesOwnCounts)
<1>1. CounterIInv => HostTakesOwnCounts
  BY DEF CounterIInv
<1> QED BY <1>1, CounterInvariance, PTL

(* The words hold -1 or the number of a launched call. *)
THEOREM CounterTypeCorrect == Unmixed => (CounterSpec => []CounterTypeOK)
<1>1. CounterIInv => CounterTypeOK
  BY DEF CounterIInv
<1> QED BY <1>1, CounterInvariance, PTL

-----------------------------------------------------------------------------
(***************************************************************************)
(* The ring queue of one channel.                                          *)
(***************************************************************************)
(* Two numbers less than a buffer apart never share a slot. *)
LEMMA SlotsDistinct ==
  ASSUME NEW n \in Nat \ {0}, NEW i \in Int, NEW j \in Int,
         i < j, j < i + n
  PROVE  i % n # j % n
<1> DEFINE p == i \div n
           q == j \div n
<1>1. /\ p \in Int /\ q \in Int
      /\ i = n * p + (i % n) /\ j = n * q + (j % n)
  OBVIOUS
<1>2. SUFFICES ASSUME i % n = j % n PROVE FALSE
  OBVIOUS
<1>3. i % n \in Int
  OBVIOUS
<1>4. j - i = n * q - n * p
  BY <1>1, <1>2, <1>3
<1> HIDE DEF p, q
<1>5. j - i = n * (q - p)
  BY <1>1, <1>4
<1>6. CASE q - p <= 0
  BY <1>1, <1>5, <1>6
<1>7. CASE q - p >= 1
  BY <1>1, <1>5, <1>7
<1> QED BY <1>1, <1>6, <1>7

(* A remainder is a warp, or a slot. *)
LEMMA ModRange ==
  ASSUME NEW n \in Nat \ {0}, NEW i \in Int
  PROVE  i % n \in 0 .. n - 1
OBVIOUS

(* The tokens before t that are selected: how the count moves with t. *)
LEMMA PosFacts ==
  ASSUME inRank \in [Token -> BOOLEAN], NEW t \in 0 .. NumTokens
  PROVE  /\ Pos(t) \in 0 .. NumTokens
         /\ Pos(0) = 0
         /\ t \in Token /\ inRank[t]  => Pos(t + 1) = Pos(t) + 1
         /\ t \in Token /\ ~inRank[t] => Pos(t + 1) = Pos(t)
<1> DEFINE S(n) == {u \in Token : u < n /\ inRank[u]}
<1>1. IsFiniteSet(Token) /\ Cardinality(Token) = NumTokens
  BY NumTokensAssumption, FS_Interval DEF Token
<1>2. \A n : IsFiniteSet(S(n)) /\ Cardinality(S(n)) <= Cardinality(Token)
  BY <1>1, FS_Subset
<1>3. Pos(t) \in 0 .. NumTokens
  <2>1. IsFiniteSet(S(t)) /\ Cardinality(S(t)) <= NumTokens
    BY <1>1, <1>2
  <2>2. Cardinality(S(t)) \in Nat
    BY <2>1, FS_CardinalityType
  <2>3. Pos(t) = Cardinality(S(t))
    BY DEF Pos
  <2> HIDE DEF S
  <2> QED BY <2>1, <2>2, <2>3, NumTokensAssumption
<1>4. Pos(0) = 0
  <2>1. S(0) = {}
    BY NumTokensAssumption DEF Token
  <2> QED BY <2>1, FS_EmptySet DEF Pos
<1>5. ASSUME t \in Token, inRank[t] PROVE Pos(t + 1) = Pos(t) + 1
  <2>1. S(t + 1) = S(t) \cup {t} /\ t \notin S(t)
    BY <1>5, NumTokensAssumption DEF Token
  <2> QED BY <1>2, <2>1, FS_AddElement, ZenonT(30) DEF Pos
<1>6. ASSUME t \in Token, ~inRank[t] PROVE Pos(t + 1) = Pos(t)
  <2>1. S(t + 1) = S(t)
    BY <1>6, NumTokensAssumption DEF Token
  <2> QED BY <2>1 DEF Pos
<1> QED BY <1>3, <1>4, <1>5, <1>6

(* The count never falls, and grows strictly past a selected token. *)
LEMMA PosMonotone ==
  ASSUME inRank \in [Token -> BOOLEAN],
         NEW s \in 0 .. NumTokens, NEW t \in 0 .. NumTokens, s <= t
  PROVE  /\ Pos(s) <= Pos(t)
         /\ s \in Token /\ s < t /\ inRank[s] => Pos(s) < Pos(t)
<1> DEFINE S(n) == {u \in Token : u < n /\ inRank[u]}
<1>1. IsFiniteSet(Token)
  BY NumTokensAssumption, FS_Interval DEF Token
<1>2. \A n : IsFiniteSet(S(n))
  BY <1>1, FS_Subset
<1>3. \A m, n \in 0 .. NumTokens : m <= n => Pos(m) <= Pos(n)
  <2> SUFFICES ASSUME NEW m \in 0 .. NumTokens, NEW n \in 0 .. NumTokens, m <= n
               PROVE  Pos(m) <= Pos(n)
    OBVIOUS
  <2>1. S(m) \subseteq S(n)
    BY NumTokensAssumption DEF Token
  <2> QED BY <1>2, <2>1, FS_Subset DEF Pos
<1>4. ASSUME s \in Token, s < t, inRank[s] PROVE Pos(s) < Pos(t)
  <2>1. s + 1 \in 0 .. NumTokens /\ s + 1 <= t
    BY <1>4, NumTokensAssumption
  <2>2. Pos(s + 1) = Pos(s) + 1 /\ Pos(s) \in Int
    BY <1>4, PosFacts
  <2>3. Pos(s + 1) <= Pos(t) /\ Pos(t) \in Int
    BY <1>3, <2>1, PosFacts
  <2> QED BY <2>2, <2>3
<1> QED BY <1>3, <1>4

(* The task is fixed: counts and positions mean the same after every step. *)
LEMMA TaskStable ==
  ASSUME UNCHANGED task
  PROVE  /\ \A t : Pos(t)' = Pos(t)
         /\ \A t, i : IsSelected(t, i)' <=> IsSelected(t, i)
         /\ \A w : Pos(stoken[w])' = Pos(stoken'[w])
BY DEF task, Pos, IsSelected

(* A part of the invariant whose variables a step leaves alone still holds. *)
LEMMA Frame ==
  ASSUME UNCHANGED task
  PROVE  /\ UNCHANGED words /\ WordsEncodeOffsets => WordsEncodeOffsets'
         /\ UNCHANGED recvToken /\ RowsCorrect => RowsCorrect'
         /\ UNCHANGED sendHead /\ SendHeadCorrect => SendHeadCorrect'
         /\ UNCHANGED <<head, tail, rpc, rhead, rtail, roffset, sharedTail>>
              /\ ReceiverInv => ReceiverInv'
         /\ UNCHANGED <<head, tail, spc, stoken, schunk, stail>>
              /\ SenderInv => SenderInv'
         /\ UNCHANGED <<head, stail, slot>> /\ SlotsFilled => SlotsFilled'
         /\ UNCHANGED <<tail, spc, schunk, stail>> /\ TailPublished => TailPublished'
<1>1. UNCHANGED words /\ WordsEncodeOffsets => WordsEncodeOffsets'
  BY TaskStable DEF task, words, WordsEncodeOffsets, Total
<1>2. UNCHANGED recvToken /\ RowsCorrect => RowsCorrect'
  BY DEF task, RowsCorrect, IsSelected, Pos
<1>3. UNCHANGED sendHead /\ SendHeadCorrect => SendHeadCorrect'
  BY TaskStable DEF task, SendHeadCorrect
<1>4. UNCHANGED <<head, tail, rpc, rhead, rtail, roffset, sharedTail>>
        /\ ReceiverInv => ReceiverInv'
  BY DEF task, ReceiverInv
<1>5. UNCHANGED <<head, tail, spc, stoken, schunk, stail>> /\ SenderInv => SenderInv'
  BY DEF task, SenderInv, SendWarpInv, SendBase, Pos
<1>6. UNCHANGED <<head, stail, slot>> /\ SlotsFilled => SlotsFilled'
  BY DEF task, SlotsFilled, IsSelected, Pos
<1>7. UNCHANGED <<tail, spc, schunk, stail>> /\ TailPublished => TailPublished'
  BY DEF TailPublished, SendBase
<1> QED BY <1>1, <1>2, <1>3, <1>4, <1>5, <1>6, <1>7

(* So does what is published, while warp 0 neither meets nor publishes. *)
LEMMA NothingPublished ==
  ASSUME TailPublished, tail' = tail,
         (spc'[0] = "publish") <=> (spc[0] = "publish"),
         spc[0] = "publish" => stail'[0] = stail[0],
         (IF spc'[0] \in {"chunk", "meet"} THEN stail'[0] - schunk'[0] ELSE stail'[0]) =
           (IF spc[0] \in {"chunk", "meet"} THEN stail[0] - schunk[0] ELSE stail[0])
  PROVE  TailPublished'
BY DEF TailPublished, SendBase

(* Initially every part holds: nothing is sent, nothing received. *)
LEMMA InitIInv == Init => IInv
<1> SUFFICES ASSUME Init PROVE IInv
  OBVIOUS
<1> USE NumTokensAssumption, WarpsAssumption, OffsetAssumption, ConfigAssumption
<1>1. TypeOK
  BY DEF Init, TypeOK, Token, Slot, SendWarp, RecvWarp, RecvRow, SendStates, RecvStates,
         NextPass, Unset, Stale
<1>2. SenderInv
  <2>1. Pos(0) = 0
    BY PosFacts DEF Init
  <2> QED BY <2>1 DEF Init, SenderInv, SendWarpInv, SendBase, SendWarp, NextPass
<1>3. SlotsFilled
  BY DEF Init, SlotsFilled
<1>4. WordsEncodeOffsets
  BY DEF Init, WordsEncodeOffsets
<1>5. ReceiverInv
  BY DEF Init, ReceiverInv, Inside
<1>6. RowsCorrect /\ SendHeadCorrect
  BY DEF Init, RowsCorrect, SendHeadCorrect
<1>7. TailPublished
  BY DEF Init, TailPublished, SendBase, SendWarp, NextPass
<1> QED BY <1>1, <1>2, <1>3, <1>4, <1>5, <1>6, <1>7 DEF IInv
--------------------------------------------------------------------------------
(* The sender's steps. *)

LEMMA SendOffsetsIInv == IInv /\ SendOffsets => IInv'
<1> SUFFICES ASSUME IInv, SendOffsets PROVE IInv'
  OBVIOUS
<1> USE DEF IInv
<1>0. /\ UNCHANGED task /\ 0 \in SendWarp /\ spc[0] = "offset"
      /\ UNCHANGED <<head, tail, slot, stoken, schunk, stail, sendHead, rvars>>
      /\ spc' = [spc EXCEPT ![0] = NextPass(stoken[0])]
      /\ NextPass(stoken[0]) \in {"wait", "done"}
  BY WarpsAssumption DEF SendOffsets, SendWarp, NextPass
<1>1. TypeOK'
  <2>1. Total \in Nat
    BY PosFacts, NumTokensAssumption DEF TypeOK, Total
  <2>2. startWord' \in Int /\ endWord' \in Int
    BY <2>1, OffsetAssumption DEF SendOffsets, TypeOK
  <2> QED BY <1>0, <2>2 DEF TypeOK, task, rvars, SendStates
<1>2. SenderInv'
  <2>1. \A w \in SendWarp : SendBase(w)' = SendBase(w)
    BY <1>0 DEF TypeOK, SendBase
  <2>2. \A w \in SendWarp : SendWarpInv(w)'
    BY <1>0, TaskStable DEF SenderInv, SendWarpInv, TypeOK, task
  <2> QED BY <2>1, <2>2 DEF SenderInv
<1>3. WordsEncodeOffsets'
  BY <1>0, TaskStable DEF SendOffsets, WordsEncodeOffsets, task, Total
<1>9. TailPublished'
  <2>1. 0 \in SendWarp
    BY WarpsAssumption DEF SendWarp
  <2> QED BY <1>0, <2>1, NothingPublished DEF TypeOK
<1> QED BY <1>0, <1>1, <1>2, <1>3, <1>9, Frame DEF rvars

LEMMA AwaitRoomIInv ==
  ASSUME IInv, NEW w \in SendWarp, AwaitRoom(w)
  PROVE  IInv'
<1> USE DEF IInv
<1>0. /\ UNCHANGED task /\ spc[w] = "wait"
      /\ UNCHANGED <<words, head, tail, slot, stoken, stail, sendHead, rvars>>
      /\ spc' = [spc EXCEPT ![w] = "chunk"] /\ schunk' = [schunk EXCEPT ![w] = 0]
  BY DEF AwaitRoom
<1>1. TypeOK'
  BY <1>0, ConfigAssumption DEF TypeOK, task, words, rvars, SendStates
<1>2. SenderInv'
  <2>1. stail[w] + MaxSend <= head + NumSlots
    BY ConfigAssumption DEF AwaitRoom, TypeOK
  <2>2. \A v \in SendWarp : SendWarpInv(v)'
    BY <1>0, <2>1, TaskStable, ConfigAssumption DEF SenderInv, SendWarpInv, TypeOK, task
  <2>3. \A v \in SendWarp : SendBase(v)' = SendBase(v)
    BY <1>0 DEF TypeOK, SendBase
  <2> QED BY <2>2, <2>3 DEF SenderInv
<1>9. TailPublished'
  <2>1. 0 \in SendWarp
    BY WarpsAssumption DEF SendWarp
  <2> QED BY <1>0, <2>1, NothingPublished DEF TypeOK
<1> QED BY <1>0, <1>1, <1>2, <1>9, Frame DEF words, rvars

(* A token's head is its position, because the warp's tail is. *)
LEMMA SaveHeadCorrect ==
  ASSUME IInv, NEW w \in SendWarp, InChunk(w), SaveHead(w, stoken[w]), UNCHANGED task
  PROVE  SendHeadCorrect' /\ sendHead' \in [Token -> Token \cup {Unset, -1}]
<1> USE DEF IInv
<1> DEFINE t == stoken[w]
<1>1. t \in Token /\ stail[w] = Pos(t) /\ stail[w] \in 0 .. NumTokens
  BY NumTokensAssumption DEF InChunk, TypeOK, Token, SenderInv, SendWarpInv
<1>2. inRank[t] => stail[w] \in Token
  <2>1. inRank[t] => Pos(t + 1) = Pos(t) + 1
    BY <1>1, PosFacts DEF TypeOK, Token
  <2>2. Pos(t + 1) \in 0 .. NumTokens
    BY <1>1, PosFacts, NumTokensAssumption, SMTT(20) DEF TypeOK, Token
  <2> QED BY <1>1, <2>1, <2>2, NumTokensAssumption DEF Token
<1>3. sendHead' \in [Token -> Token \cup {Unset, -1}]
  BY <1>1, <1>2 DEF SaveHead, TypeOK
<1>4. \A u \in Token : sendHead'[u] = sendHead[u] \/ (u = t /\ sendHead'[u] =
                        IF inRank[u] THEN Pos(u) ELSE -1)
  BY <1>1 DEF SaveHead, TypeOK
<1>5. SendHeadCorrect'
  BY <1>4, TaskStable DEF SendHeadCorrect, task
<1> QED BY <1>3, <1>5

LEMMA SkipTokenIInv ==
  ASSUME IInv, NEW w \in SendWarp, SkipToken(w)
  PROVE  IInv'
<1> USE DEF IInv
<1>0. /\ UNCHANGED task /\ spc[w] = "chunk" /\ schunk[w] < MaxSend /\ stoken[w] < NumTokens
      /\ UNCHANGED <<words, head, tail, slot, spc, schunk, stail, rvars>>
      /\ stoken' = [stoken EXCEPT ![w] = @ + 1]
      /\ ~inRank[stoken[w]] /\ InChunk(w)
  BY DEF SkipToken, InChunk
<1>1. SendHeadCorrect' /\ sendHead' \in [Token -> Token \cup {Unset, -1}]
  BY <1>0, SaveHeadCorrect DEF SkipToken
<1>2. stoken[w] \in Token /\ stoken[w] + 1 \in 0 .. NumTokens
  BY <1>0, NumTokensAssumption DEF TypeOK, Token
<1>3. TypeOK'
  BY <1>0, <1>1, <1>2 DEF TypeOK, task, words, rvars
<1>4. SenderInv'
  <2>1. Pos(stoken[w] + 1) = stail[w]
    BY <1>0, <1>2, PosFacts DEF TypeOK, SenderInv, SendWarpInv, Token
  <2>2. schunk[w] # MaxSend
    BY <1>0, ConfigAssumption DEF TypeOK
  <2>3. \A v \in SendWarp : SendWarpInv(v)'
    BY <1>0, <2>1, <2>2, TaskStable DEF SenderInv, SendWarpInv, TypeOK, task
  <2>4. \A v \in SendWarp : SendBase(v)' = SendBase(v)
    BY <1>0 DEF TypeOK, SendBase
  <2> QED BY <2>3, <2>4 DEF SenderInv
<1> QED BY <1>0, <1>1, <1>3, <1>4, Frame DEF words, rvars

(***************************************************************************)
(* The step that could overwrite an unread slot: the warp's slot number is *)
(* below head + NumSlots, so no number that is still unread shares it.     *)
(***************************************************************************)
LEMMA SendTokenIInv ==
  ASSUME IInv, NEW w \in SendWarp, SendToken(w)
  PROVE  IInv'
<1> USE DEF IInv
<1> DEFINE t == stoken[w]
           n == stail[w]
<1>0. /\ UNCHANGED task /\ spc[w] = "chunk" /\ schunk[w] < MaxSend /\ t < NumTokens
      /\ UNCHANGED <<words, head, tail, spc, rvars>>
      /\ stoken' = [stoken EXCEPT ![w] = @ + 1]
      /\ stail'  = [stail EXCEPT ![w] = @ + 1]
      /\ schunk' = [schunk EXCEPT ![w] = @ + 1]
      /\ inRank[t] /\ InChunk(w)
      /\ slot' = IF (n + 1) % NumSendWarps = w
                 THEN [slot EXCEPT ![n % NumSlots] = t] ELSE slot
  BY DEF SendToken, InChunk
<1>1. SendHeadCorrect' /\ sendHead' \in [Token -> Token \cup {Unset, -1}]
  BY <1>0, SaveHeadCorrect DEF SendToken
<1>2. t \in Token /\ t + 1 \in 0 .. NumTokens /\ t \in Int /\ n \in Int
  BY <1>0, NumTokensAssumption DEF TypeOK, Token
<1>3. Pos(t) = n /\ Pos(t + 1) = n + 1 /\ n + 1 \in 0 .. NumTokens
  <2>1. Pos(t) = n
    BY DEF SenderInv, SendWarpInv
  <2>2. Pos(t + 1) = Pos(t) + 1
    BY <1>0, <1>2, PosFacts DEF TypeOK, Token
  <2>3. Pos(t + 1) \in 0 .. NumTokens
    BY <1>2, PosFacts DEF TypeOK
  <2> QED BY <2>1, <2>2, <2>3
<1>4. head <= n /\ n < head + NumSlots /\ n + 1 - (schunk[w] + 1) + MaxSend <= head + NumSlots
  BY <1>0, ConfigAssumption DEF SenderInv, SendWarpInv, TypeOK, ReceiverInv
<1>5. NumSlots \in Nat \ {0} /\ n % NumSlots \in Slot
  <2>1. NumSlots \in Nat \ {0}
    BY ConfigAssumption
  <2>2. n % NumSlots \in 0 .. NumSlots - 1
    BY <1>2, <2>1, ModRange
  <2> QED BY <2>1, <2>2 DEF Slot
<1>6. TypeOK'
  <2>1. slot' \in [Slot -> Token \cup {Stale}]
    BY <1>0, <1>2, <1>5 DEF TypeOK
  <2>2. /\ stail' \in [SendWarp -> 0 .. NumTokens] /\ stoken' \in [SendWarp -> 0 .. NumTokens]
        /\ schunk' \in [SendWarp -> 0 .. MaxSend]
    BY <1>0, <1>2, <1>3, ConfigAssumption DEF TypeOK
  <2> QED BY <1>0, <1>1, <2>1, <2>2 DEF TypeOK, task, words, rvars
<1>7. SenderInv'
  <2>1. SendWarpInv(w)'
    <3>1. stail'[w] = n + 1 /\ stoken'[w] = t + 1 /\ schunk'[w] = schunk[w] + 1
      BY <1>0 DEF TypeOK
    <3>2. stail'[w] = Pos(stoken'[w])
      BY <1>3, <3>1
    <3>3. tail <= n + 1 /\ n + 1 <= head + NumSlots
      BY <1>4, ConfigAssumption DEF SenderInv, SendWarpInv, TypeOK
    <3>4. stoken'[w] # 0 /\ inRank[stoken'[w] - 1]
      BY <1>0, <1>2, <3>1, NumTokensAssumption DEF Token
    <3>5. spc'[w] = "chunk" /\ tail' = tail /\ head' = head /\ inRank' = inRank
      BY <1>0 DEF task
    <3>6. Pos(stoken[w])' = stail'[w]
      BY <1>0, <3>2, TaskStable
    <3>7. stail'[w] - schunk'[w] + MaxSend <= head + NumSlots
      <4>1. schunk[w] \in Int /\ head \in Int /\ MaxSend \in Int /\ NumSlots \in Int
        BY ConfigAssumption DEF TypeOK
      <4> QED BY <1>2, <1>4, <3>1, <4>1
    <3> HIDE DEF n, t
    <3> QED BY <3>1, <3>3, <3>4, <3>5, <3>6, <3>7 DEF SendWarpInv
  <2>2. \A v \in SendWarp \ {w} : SendWarpInv(v)'
    BY <1>0, TaskStable DEF SenderInv, SendWarpInv, TypeOK, task
  <2>3. \A v \in SendWarp : SendBase(v)' = SendBase(v)
    BY <1>0 DEF TypeOK, SendBase
  <2> QED BY <2>1, <2>2, <2>3 DEF SenderInv
<1>8. SlotsFilled'
  <2> SUFFICES ASSUME NEW v \in SendWarp, NEW i \in head .. stail'[v] - 1,
                      (i + 1) % NumSendWarps = v
               PROVE  IsSelected(slot'[i % NumSlots], i)
    BY <1>0 DEF SlotsFilled, IsSelected, task, Pos
  <2>0. i \in Int /\ head \in Int /\ stail[v] \in Int /\ stail'[v] \in Int
        /\ head <= i /\ i < stail'[v]
    BY <1>6 DEF TypeOK
  <2>1. CASE v = w /\ i = n
    <3>1. slot'[i % NumSlots] = t
      BY <1>0, <1>5, <2>1 DEF TypeOK
    <3> QED BY <1>0, <1>2, <1>3, <2>1, <3>1 DEF IsSelected
  <2>2. CASE ~(v = w /\ i = n)
    <3>1. i \in head .. stail[v] - 1
      BY <1>0, <1>2, <2>0, <2>2 DEF TypeOK
    <3>2. IsSelected(slot[i % NumSlots], i)
      BY <3>1 DEF SlotsFilled
    <3>3. CASE (n + 1) % NumSendWarps = w
      <4>1. i # n
        BY <2>2, <3>3
      <4>2. i < head + NumSlots
        BY <2>0, <3>1, ConfigAssumption DEF SenderInv, SendWarpInv
      <4>3. i % NumSlots # n % NumSlots
        <5>1. CASE i < n
          <6>1. n < i + NumSlots
            BY <1>2, <1>4, <1>5, <2>0
          <6> HIDE DEF n
          <6> QED BY <1>2, <1>5, <2>0, <5>1, <6>1, SlotsDistinct
        <5>2. CASE n < i
          <6>1. i < n + NumSlots
            BY <1>2, <1>4, <1>5, <2>0, <4>2
          <6> HIDE DEF n
          <6> QED BY <1>2, <1>5, <2>0, <5>2, <6>1, SlotsDistinct
        <5> QED BY <1>2, <2>0, <4>1, <5>1, <5>2
      <4>4. i % NumSlots \in Slot
        BY <1>5, <2>0, ModRange DEF Slot
      <4>5. slot'[i % NumSlots] = slot[i % NumSlots]
        BY <1>0, <4>3, <4>4 DEF TypeOK
      <4> QED BY <3>2, <4>5
    <3>4. CASE (n + 1) % NumSendWarps # w
      BY <1>0, <3>2, <3>4
    <3> QED BY <3>3, <3>4
  <2> QED BY <2>1, <2>2
<1>9. TailPublished'
  <2>1. 0 \in SendWarp
    BY WarpsAssumption DEF SendWarp
  <2> QED BY <1>0, <2>1, NothingPublished DEF TypeOK
<1> QED BY <1>0, <1>1, <1>6, <1>7, <1>8, <1>9, Frame DEF words, rvars

LEMMA EndChunkIInv ==
  ASSUME IInv, NEW w \in SendWarp, EndChunk(w)
  PROVE  IInv'
<1> USE DEF IInv
<1>0. /\ UNCHANGED task /\ spc[w] = "chunk" /\ ~InChunk(w)
      /\ UNCHANGED <<words, head, tail, slot, stoken, schunk, stail, sendHead, rvars>>
      /\ spc' = [spc EXCEPT ![w] = "meet"]
  BY DEF EndChunk
<1>1. TypeOK'
  BY <1>0 DEF TypeOK, task, words, rvars, SendStates
<1>2. SenderInv'
  <2>1. schunk[w] = MaxSend \/ stoken[w] = NumTokens
    BY <1>0, ConfigAssumption, NumTokensAssumption DEF InChunk, TypeOK
  <2>2. \A v \in SendWarp : SendWarpInv(v)'
    BY <1>0, <2>1, TaskStable DEF SenderInv, SendWarpInv, TypeOK, task
  <2>3. \A v \in SendWarp : SendBase(v)' = SendBase(v)
    BY <1>0 DEF TypeOK, SendBase
  <2> QED BY <2>2, <2>3 DEF SenderInv
<1>9. TailPublished'
  <2>1. 0 \in SendWarp
    BY WarpsAssumption DEF SendWarp
  <2> QED BY <1>0, <2>1, NothingPublished DEF TypeOK
<1> QED BY <1>0, <1>1, <1>2, <1>9, Frame DEF words, rvars

(***************************************************************************)
(* Two warps at the barrier hold the same tail and stand at the same       *)
(* token: their chunks started at the same tail, and each ended when it    *)
(* was full, right after the token that filled it, or at the last token.   *)
(***************************************************************************)
LEMMA MeetAgrees ==
  ASSUME IInv, NEW v \in SendWarp, NEW w \in SendWarp,
         spc[v] = "meet", spc[w] = "meet"
  PROVE  stail[v] = stail[w] /\ stoken[v] = stoken[w]
<1> USE DEF IInv
<1>0. \A u \in SendWarp : /\ stoken[u] \in 0 .. NumTokens /\ stail[u] \in Int
                           /\ schunk[u] \in 0 .. MaxSend /\ stail[u] = Pos(stoken[u])
  BY DEF TypeOK, SenderInv, SendWarpInv
<1>1. stail[v] - schunk[v] = stail[w] - schunk[w]
  BY DEF SenderInv, SendBase
<1>2. \A u \in {v, w} : /\ schunk[u] = MaxSend \/ stoken[u] = NumTokens
                        /\ schunk[u] = MaxSend => stoken[u] # 0 /\ inRank[stoken[u] - 1]
  BY DEF SenderInv, SendWarpInv
<1>3. \A u \in {v, w} : stail[u] <= Pos(NumTokens)
  <2> SUFFICES ASSUME NEW u \in {v, w} PROVE stail[u] <= Pos(NumTokens)
    OBVIOUS
  <2>1. stoken[u] \in 0 .. NumTokens /\ NumTokens \in 0 .. NumTokens
        /\ stoken[u] <= NumTokens
    BY <1>0, NumTokensAssumption
  <2> QED BY <1>0, <2>1, PosMonotone DEF TypeOK
<1>4. schunk[v] = MaxSend <=> schunk[w] = MaxSend
  <2>1. \A a, b \in {v, w} : schunk[a] # MaxSend => schunk[b] # MaxSend
    <3> SUFFICES ASSUME NEW a \in {v, w}, NEW b \in {v, w}, schunk[a] # MaxSend,
                        schunk[b] = MaxSend
                 PROVE  FALSE
      OBVIOUS
    <3>1. stail[a] = Pos(NumTokens) /\ stail[b] <= stail[a]
      BY <1>0, <1>2, <1>3
    <3>2. stail[a] - schunk[a] = stail[b] - schunk[b]
      BY <1>1
    <3> QED BY <1>0, <3>1, <3>2, ConfigAssumption
  <2> QED BY <2>1
<1>5. CASE schunk[v] # MaxSend
  BY <1>0, <1>2, <1>4, <1>5
<1>6. CASE schunk[v] = MaxSend
  <2>1. stail[v] = stail[w]
    BY <1>0, <1>1, <1>4, <1>6
  <2>2. \A a, b \in {v, w} : ~(stoken[a] < stoken[b])
    <3> SUFFICES ASSUME NEW a \in {v, w}, NEW b \in {v, w}, stoken[a] < stoken[b]
                 PROVE  FALSE
      OBVIOUS
    <3> DEFINE u == stoken[b] - 1
    <3>1. u \in Token /\ inRank[u] /\ stoken[a] <= u /\ u < stoken[b]
          /\ u \in 0 .. NumTokens
      BY <1>0, <1>2, <1>4, <1>6, NumTokensAssumption DEF Token
    <3>2. Pos(stoken[a]) <= Pos(u)
      BY <1>0, <3>1, PosMonotone DEF TypeOK
    <3>3. Pos(u) < Pos(stoken[b])
      BY <1>0, <3>1, PosMonotone DEF TypeOK
    <3>4. Pos(stoken[a]) = Pos(stoken[b])
      BY <1>0, <2>1
    <3>5. Pos(u) \in Int /\ Pos(stoken[a]) \in Int
      BY <1>0, <3>1, PosFacts DEF TypeOK
    <3> HIDE DEF u
    <3> QED BY <3>2, <3>3, <3>4, <3>5
  <2> QED BY <1>0, <2>1, <2>2
<1> QED BY <1>5, <1>6

LEMMA SenderBarrierIInv == IInv /\ SenderBarrier => IInv'
<1> SUFFICES ASSUME IInv, SenderBarrier PROVE IInv'
  OBVIOUS
<1> USE DEF IInv
<1>0. /\ UNCHANGED task /\ \A w \in SendWarp : spc[w] = "meet"
      /\ UNCHANGED <<words, head, tail, slot, stoken, schunk, stail, sendHead, rvars>>
      /\ spc' = [w \in SendWarp |-> IF w = 0 THEN "publish" ELSE NextPass(stoken[w])]
      /\ \A w \in SendWarp : NextPass(stoken[w]) \in {"wait", "done"}
  BY DEF SenderBarrier, NextPass
<1>1. TypeOK'
  BY <1>0 DEF TypeOK, task, words, rvars, SendStates
<1>2. SenderInv'
  <2>1. \A w \in SendWarp : SendWarpInv(w)'
    BY <1>0, TaskStable DEF SenderInv, SendWarpInv, task
  <2>2. \A w \in SendWarp : SendBase(w)' = stail[w]
    BY <1>0 DEF SendBase
  <2>3. \A v, w \in SendWarp : stail[v] = stail[w]
    BY <1>0, MeetAgrees
  <2> QED BY <2>1, <2>2, <2>3 DEF SenderInv
<1>3. TailPublished'
  <2>1. 0 \in SendWarp
    BY WarpsAssumption DEF SendWarp
  <2>2. stail[0] - schunk[0] = tail /\ schunk[0] <= MaxSend
    BY <1>0, <2>1 DEF TailPublished, SendBase, TypeOK
  <2> QED BY <1>0, <2>1, <2>2, ConfigAssumption DEF TailPublished, TypeOK
<1> QED BY <1>0, <1>1, <1>2, <1>3, Frame DEF words, rvars

LEMMA PublishTailIInv == IInv /\ PublishTail => IInv'
<1> SUFFICES ASSUME IInv, PublishTail PROVE IInv'
  OBVIOUS
<1> USE DEF IInv
<1>0. /\ UNCHANGED task /\ spc[0] = "publish" /\ 0 \in SendWarp
      /\ UNCHANGED <<words, head, slot, stoken, schunk, stail, sendHead, rvars>>
      /\ spc' = [spc EXCEPT ![0] = NextPass(stoken[0])]
      /\ NextPass(stoken[0]) \in {"wait", "done"} /\ tail' = stail[0]
  BY WarpsAssumption DEF PublishTail, NextPass, SendWarp
<1>1. \A w \in SendWarp : tail <= tail' /\ tail' <= stail[w]
  <2>1. \A w \in SendWarp : SendBase(w) = stail[0] /\ SendBase(w) <= stail[w]
    BY <1>0 DEF SenderInv, SendBase, TypeOK
  <2> QED BY <1>0, <2>1 DEF SenderInv, SendWarpInv, TypeOK
<1>2. TypeOK'
  BY <1>0 DEF TypeOK, task, words, rvars, SendStates
<1>3. SenderInv'
  <2>1. \A w \in SendWarp : SendWarpInv(w)'
    BY <1>0, <1>1, TaskStable DEF SenderInv, SendWarpInv, TypeOK, task
  <2>2. \A w \in SendWarp : SendBase(w)' = SendBase(w)
    BY <1>0 DEF SendBase, TypeOK
  <2> QED BY <2>1, <2>2 DEF SenderInv
<1>4. ReceiverInv'
  BY <1>0, <1>1 DEF ReceiverInv, TypeOK, task, rvars
<1>5. TailPublished'
  BY <1>0 DEF TailPublished, SendBase, TypeOK
<1> QED BY <1>0, <1>2, <1>3, <1>4, <1>5, Frame DEF words, rvars
--------------------------------------------------------------------------------
(* The receiver's steps. *)

LEMMA ReceiveOffsetsIInv ==
  ASSUME IInv, NEW w \in RecvWarp, ReceiveOffsets(w)
  PROVE  IInv'
<1> USE DEF IInv
<1> DEFINE start == -startWord - 1
           total == -endWord - 1 - start
<1>0. /\ UNCHANGED task /\ rpc[w] = "offset" /\ startWord # 0 /\ endWord # 0
      /\ UNCHANGED <<words, head, tail, slot, svars, rhead, rtail, rnext, sharedTail, recvToken>>
      /\ roffset' = [roffset EXCEPT ![w] = start]
      /\ rremain' = [rremain EXCEPT ![w] = total]
      /\ recvChannelOffset' = IF w = 0 THEN start ELSE recvChannelOffset
      /\ rpc' = [rpc EXCEPT ![w] = NextRound(w, total)]
  BY DEF ReceiveOffsets
<1>1. start = startOffset /\ start \in Nat /\ total \in Int
  BY <1>0, OffsetAssumption DEF WordsEncodeOffsets, TypeOK
<1>2. NextRound(w, total) \in {"done", "poll", "meet"}
  BY DEF NextRound
<1> HIDE DEF start, total
<1>3. TypeOK'
  BY <1>0, <1>1, <1>2 DEF TypeOK, task, words, svars, RecvStates
<1>4. ReceiverInv'
  <2>1. \A v \in RecvWarp : rpc[v] \notin Inside
    BY <1>0 DEF ReceiverInv, Inside
  <2>2. \A v \in RecvWarp : rpc'[v] \notin Inside
    BY <1>0, <1>2, <2>1 DEF TypeOK, Inside
  <2>3. roffset'[w] = startOffset + rhead[w]
    BY <1>0, <1>1, OffsetAssumption DEF ReceiverInv, TypeOK
  <2> QED BY <1>0, <1>2, <2>1, <2>2, <2>3 DEF ReceiverInv, TypeOK, task, Inside
<1> QED BY <1>0, <1>3, <1>4, Frame DEF words, svars

LEMMA PollTailIInv == IInv /\ PollTail => IInv'
<1> SUFFICES ASSUME IInv, PollTail PROVE IInv'
  OBVIOUS
<1> USE DEF IInv
<1>0. /\ UNCHANGED task /\ rpc[0] = "poll" /\ 0 \in RecvWarp
      /\ UNCHANGED <<words, head, tail, slot, svars, rhead, rtail, rnext, roffset,
                     rremain, recvToken, recvChannelOffset>>
      /\ sharedTail' = tail /\ rpc' = [rpc EXCEPT ![0] = "meet"]
  BY WarpsAssumption DEF PollTail, RecvWarp
<1>1. TypeOK'
  BY <1>0 DEF TypeOK, task, words, svars, RecvStates
<1>2. ReceiverInv'
  <2>1. \A v \in RecvWarp : rpc[v] \notin Inside /\ rpc'[v] \notin Inside
    BY <1>0 DEF ReceiverInv, TypeOK, Inside
  <2>2. \A v \in RecvWarp : rhead[v] <= tail
    BY DEF ReceiverInv, TypeOK
  <2> QED BY <1>0, <2>1, <2>2 DEF ReceiverInv, TypeOK, task, Inside
<1> QED BY <1>0, <1>1, <1>2, Frame DEF words, svars

LEMMA ReceiverBarrierIInv == IInv /\ ReceiverBarrier => IInv'
<1> SUFFICES ASSUME IInv, ReceiverBarrier PROVE IInv'
  OBVIOUS
<1> USE DEF IInv
<1>0. /\ UNCHANGED task /\ \A w \in RecvWarp : rpc[w] = "meet"
      /\ UNCHANGED <<words, head, tail, slot, svars, rhead, rtail, rnext, roffset,
                     rremain, sharedTail, recvToken, recvChannelOffset>>
      /\ rpc' = [w \in RecvWarp |-> "load"]
  BY DEF ReceiverBarrier
<1>1. TypeOK'
  BY <1>0 DEF TypeOK, task, words, svars, RecvStates
<1>2. ReceiverInv'
  BY <1>0 DEF ReceiverInv, task, Inside
<1> QED BY <1>0, <1>1, <1>2, Frame DEF words, svars

LEMMA LoadSharedTailIInv ==
  ASSUME IInv, NEW w \in RecvWarp, LoadSharedTail(w)
  PROVE  IInv'
<1> USE DEF IInv
<1>0. /\ UNCHANGED task /\ rpc[w] = "load"
      /\ UNCHANGED <<words, head, tail, slot, svars, rhead, roffset, rremain, sharedTail,
                     recvToken, recvChannelOffset>>
      /\ rtail' = [rtail EXCEPT ![w] = sharedTail]
      /\ rnext' = [rnext EXCEPT ![w] = w]
      /\ rpc'   = [rpc EXCEPT ![w] = "copy"]
  BY DEF LoadSharedTail
<1>1. TypeOK'
  <2>1. w \in Nat
    BY WarpsAssumption DEF RecvWarp
  <2>2. rnext' \in [RecvWarp -> Nat]
    BY <1>0, <2>1 DEF TypeOK
  <2> QED BY <1>0, <2>2 DEF TypeOK, task, words, svars, RecvStates
<1>2. ReceiverInv'
  <2>1. \A v \in RecvWarp : rpc[v] \in Inside /\ rpc'[v] \in Inside
    BY <1>0 DEF ReceiverInv, TypeOK, Inside
  <2> QED BY <1>0, <2>1 DEF ReceiverInv, TypeOK, task, Inside
<1> QED BY <1>0, <1>1, <1>2, Frame DEF words, svars

(* What is published and not released is in its slot: some warp filled it. *)
LEMMA FilledIsIntact ==
  ASSUME TypeOK, SenderInv, SlotsFilled, ReceiverInv
  PROVE  UnreadSlotsIntact
<1> SUFFICES ASSUME NEW i \in head .. tail - 1
             PROVE  IsSelected(slot[i % NumSlots], i)
  BY DEF UnreadSlotsIntact
<1> DEFINE w == (i + 1) % NumSendWarps
<1>1. i \in Int /\ head <= i /\ i < tail
  BY DEF TypeOK
<1>2. w \in SendWarp
  BY <1>1, ModRange, WarpsAssumption DEF SendWarp
<1> HIDE DEF w
<1>3. tail <= stail[w] /\ stail[w] \in Int /\ tail \in Int /\ head \in Int
  BY <1>2 DEF SenderInv, SendWarpInv, TypeOK
<1>4. i \in head .. stail[w] - 1
  BY <1>1, <1>3
<1> QED BY <1>2, <1>4 DEF SlotsFilled, w

(***************************************************************************)
(* The step that could read a slot too late or too early: the slot number  *)
(* is at least head, which no warp has released, and below the tail.       *)
(***************************************************************************)
LEMMA CopyTokenIInv ==
  ASSUME IInv, NEW w \in RecvWarp, CopyToken(w)
  PROVE  IInv'
<1> USE DEF IInv
<1> DEFINE i   == rhead[w] + rnext[w]
           row == roffset[w] + rnext[w]
<1>0. /\ UNCHANGED task /\ rpc[w] = "copy" /\ rnext[w] < rtail[w] - rhead[w]
      /\ UNCHANGED <<words, head, tail, slot, svars, rpc, rhead, rtail, roffset, rremain,
                     sharedTail, recvChannelOffset>>
      /\ recvToken' = [recvToken EXCEPT ![row] = slot[i % NumSlots]]
      /\ rnext' = [rnext EXCEPT ![w] = @ + NumRecvWarps]
  BY DEF CopyToken
<1>1. i \in head .. tail - 1 /\ row = startOffset + i /\ i \in Int /\ row \in Int
  BY <1>0 DEF ReceiverInv, TypeOK
<1>2. IsSelected(slot[i % NumSlots], i)
  BY <1>1, FilledIsIntact DEF UnreadSlotsIntact
<1>3. row \in RecvRow /\ row - startOffset = i
  BY <1>1, NumTokensAssumption, OffsetAssumption, SMTT(60) DEF RecvRow, TypeOK
<1>4. slot[i % NumSlots] \in Token
  BY <1>2 DEF IsSelected
<1> HIDE DEF i, row
<1>5. TypeOK'
  <2>1. rnext' \in [RecvWarp -> Nat]
    BY <1>0, WarpsAssumption DEF TypeOK
  <2>2. recvToken' \in [RecvRow -> Token \cup {Unset, Stale}]
    BY <1>0, <1>3, <1>4 DEF TypeOK
  <2> QED BY <1>0, <2>1, <2>2 DEF TypeOK, task, words, svars
<1>6. RowsCorrect'
  <2> SUFFICES ASSUME NEW r \in RecvRow, recvToken'[r] # Unset
               PROVE  IsSelected(recvToken'[r], r - startOffset)
    BY <1>0 DEF RowsCorrect, IsSelected, Pos, task
  <2>1. CASE r = row
    BY <1>0, <1>2, <1>3, <2>1 DEF TypeOK
  <2>2. CASE r # row
    BY <1>0, <1>3, <2>2 DEF TypeOK, RowsCorrect
  <2> QED BY <2>1, <2>2
<1>7. ReceiverInv'
  BY <1>0, Frame
<1> QED BY <1>0, <1>5, <1>6, <1>7, Frame DEF words, svars

LEMMA EndCopyIInv ==
  ASSUME IInv, NEW w \in RecvWarp, EndCopy(w)
  PROVE  IInv'
<1> USE DEF IInv
<1>0. /\ UNCHANGED task /\ rpc[w] = "copy"
      /\ UNCHANGED <<words, head, tail, slot, svars, rtail, rnext, sharedTail, recvToken,
                     recvChannelOffset>>
      /\ rhead'   = [rhead EXCEPT ![w] = rtail[w]]
      /\ roffset' = [roffset EXCEPT ![w] = @ + (rtail[w] - rhead[w])]
      /\ rremain' = [rremain EXCEPT ![w] = @ - (rtail[w] - rhead[w])]
      /\ rpc'     = [rpc EXCEPT ![w] = "copied"]
  BY DEF EndCopy
<1>1. rtail[w] = sharedTail /\ rhead[w] <= rtail[w]
  BY <1>0 DEF ReceiverInv
<1>2. TypeOK'
  <2>1. roffset[w] + (rtail[w] - rhead[w]) \in Nat /\ rremain[w] - (rtail[w] - rhead[w]) \in Int
    BY <1>1 DEF TypeOK
  <2> QED BY <1>0, <2>1 DEF TypeOK, task, words, svars, RecvStates
<1>3. ReceiverInv'
  <2>1. \A v \in RecvWarp : rpc[v] \in Inside /\ rpc'[v] \in Inside
    BY <1>0 DEF ReceiverInv, TypeOK, Inside
  <2>2. roffset'[w] = startOffset + rhead'[w] /\ head <= rhead'[w] /\ rhead'[w] = sharedTail
    BY <1>0, <1>1 DEF ReceiverInv, TypeOK
  <2> QED BY <1>0, <2>1, <2>2 DEF ReceiverInv, TypeOK, task, Inside
<1> QED BY <1>0, <1>2, <1>3, Frame DEF words, svars

LEMMA CopiedBarrierIInv == IInv /\ CopiedBarrier => IInv'
<1> SUFFICES ASSUME IInv, CopiedBarrier PROVE IInv'
  OBVIOUS
<1> USE DEF IInv
<1>0. /\ UNCHANGED task /\ \A w \in RecvWarp : rpc[w] = "copied"
      /\ UNCHANGED <<words, head, tail, slot, svars, rhead, rtail, rnext, roffset,
                     rremain, sharedTail, recvToken, recvChannelOffset>>
      /\ rpc' = [w \in RecvWarp |-> IF w = LastRecvWarp THEN "release"
                                    ELSE NextRound(w, rremain[w])]
      /\ \A w \in RecvWarp : NextRound(w, rremain[w]) \in {"done", "poll", "meet"}
  BY DEF CopiedBarrier, NextRound
<1>1. TypeOK'
  BY <1>0 DEF TypeOK, task, words, svars, RecvStates
<1>2. ReceiverInv'
  <2>1. \A w \in RecvWarp : rpc'[w] \in {"release", "done", "poll", "meet"}
    BY <1>0
  <2> QED BY <1>0, <2>1 DEF ReceiverInv, task, Inside
<1> QED BY <1>0, <1>1, <1>2, Frame DEF words, svars

(* Releasing slots: every warp is past them, so room only grows. *)
LEMMA ReleaseHeadIInv == IInv /\ ReleaseHead => IInv'
<1> SUFFICES ASSUME IInv, ReleaseHead PROVE IInv'
  OBVIOUS
<1> USE DEF IInv
<1> DEFINE l == LastRecvWarp
<1>0. /\ UNCHANGED task /\ rpc[l] = "release" /\ l \in RecvWarp
      /\ UNCHANGED <<words, tail, slot, svars, rhead, rtail, rnext, roffset, rremain,
                     sharedTail, recvToken, recvChannelOffset>>
      /\ head' = rhead[l] /\ rpc' = [rpc EXCEPT ![l] = NextRound(l, rremain[l])]
      /\ NextRound(l, rremain[l]) \in {"done", "poll", "meet"}
  BY WarpsAssumption DEF ReleaseHead, RecvWarp, LastRecvWarp, NextRound
<1> HIDE DEF l
<1>1. /\ \A w \in RecvWarp : rpc[w] \notin Inside /\ rpc'[w] \notin Inside
      /\ \A w \in RecvWarp : rhead[w] = head'
  BY <1>0 DEF ReceiverInv, TypeOK, Inside
<1>2. head <= head' /\ head' <= tail
  BY <1>0 DEF ReceiverInv, TypeOK
<1>3. TypeOK'
  BY <1>0 DEF TypeOK, task, words, svars, RecvStates
<1>4. ReceiverInv'
  BY <1>0, <1>1, <1>2 DEF ReceiverInv, TypeOK, task, Inside
<1>5. SenderInv'
  <2>1. \A w \in SendWarp : SendWarpInv(w)'
    BY <1>0, <1>2, TaskStable, ConfigAssumption
       DEF SenderInv, SendWarpInv, TypeOK, task, svars
  <2>2. \A w \in SendWarp : SendBase(w)' = SendBase(w)
    BY <1>0 DEF SendBase, svars
  <2> QED BY <2>1, <2>2 DEF SenderInv
<1>6. SlotsFilled'
  <2> SUFFICES ASSUME NEW w \in SendWarp, NEW i \in head' .. stail[w] - 1,
                      (i + 1) % NumSendWarps = w
               PROVE  IsSelected(slot[i % NumSlots], i)
    BY <1>0 DEF SlotsFilled, IsSelected, Pos, task, svars
  <2>1. head \in Int /\ head' \in Int /\ stail[w] \in Int
    BY <1>3 DEF TypeOK
  <2>2. i \in head .. stail[w] - 1
    BY <1>2, <2>1
  <2> QED BY <2>2 DEF SlotsFilled
<1> QED BY <1>0, <1>3, <1>4, <1>5, <1>6, Frame DEF words, svars
--------------------------------------------------------------------------------
(* The invariant is inductive: one lemma per action above. *)
LEMMA NextIInv == IInv /\ [Next]_vars => IInv'
<1>1. IInv /\ UNCHANGED vars => IInv'
  <2> SUFFICES ASSUME IInv, UNCHANGED vars PROVE IInv'
    OBVIOUS
  <2>1. TypeOK'
    BY DEF IInv, TypeOK, vars, task, words, svars, rvars
  <2> QED BY <2>1, Frame DEF IInv, vars, task, words, svars, rvars
<1> QED
  BY <1>1, SendOffsetsIInv, AwaitRoomIInv, SkipTokenIInv, SendTokenIInv, EndChunkIInv,
     SenderBarrierIInv, PublishTailIInv, ReceiveOffsetsIInv, PollTailIInv,
     ReceiverBarrierIInv, LoadSharedTailIInv, CopyTokenIInv, EndCopyIInv,
     CopiedBarrierIInv, ReleaseHeadIInv
  DEF Next, Sender, Receiver, Finished

(* The inductive invariant holds in every state of the channel. *)
THEOREM Invariance == Spec => []IInv
BY InitIInv, NextIInv, PTL DEF Spec

(* Every variable of the channel keeps its type. *)
THEOREM TypeCorrect == Spec => []TypeOK
<1>1. IInv => TypeOK
  BY DEF IInv
<1> QED BY <1>1, Invariance, PTL

(***************************************************************************)
(* No slot of the dispatch ring is overwritten before it is released, nor  *)
(* published before it is filled, for any number of warps at both ends and *)
(* any chunk size below the buffer's, although each sending warp reads the *)
(* head once per chunk and on its own.                                     *)
(***************************************************************************)
THEOREM SlotsIntact == Spec => []UnreadSlotsIntact
<1>1. IInv => UnreadSlotsIntact
  BY FilledIsIntact DEF IInv
<1> QED BY <1>1, Invariance, PTL

(* A row of the receive tensors never holds anything but the token it is for. *)
THEOREM ReceivedRowsCorrect == Spec => []RowsCorrect
<1>1. IInv => RowsCorrect
  BY DEF IInv
<1> QED BY <1>1, Invariance, PTL

(***************************************************************************)
(* The sending warps agree on the tail when they meet to publish it, as    *)
(* the comment in the dispatch kernel asks.                                *)
(***************************************************************************)
THEOREM TailAgreement == Spec => []WarpsShareTail
<1>1. IInv => WarpsShareTail
  BY MeetAgrees DEF WarpsShareTail
<1> QED BY <1>1, Invariance, PTL

(* send_head numbers the selected tokens of the channel in order. *)
THEOREM SendHeads == Spec => []SendHeadCorrect
<1>1. IInv => SendHeadCorrect
  BY DEF IInv
<1> QED BY <1>1, Invariance, PTL
--------------------------------------------------------------------------------
(* The channel as a bounded queue: what the ring holds, seen from outside. *)

(* The stream lists the selected tokens: each number below Total is the     *)
(* number of exactly one of them.                                           *)
LEMMA StreamFacts ==
  ASSUME inRank \in [Token -> BOOLEAN]
  PROVE  /\ Total \in Nat
         /\ SelectedStream \in [1 .. Total -> Token]
         /\ \A t, i : IsSelected(t, i) =>
              /\ i \in 0 .. Total - 1
              /\ SelectedStream[i + 1] = t
<1> DEFINE S == {u \in Token : inRank[u]}
<1>1. S \in SUBSET Nat /\ IsFiniteSet(S) /\ \A u \in S : u < NumTokens
  <2>1. IsFiniteSet(Token) /\ \A u \in Token : u \in Nat /\ u < NumTokens
    BY NumTokensAssumption, FS_Interval DEF Token
  <2> QED BY <2>1, FS_Subset
<1>2. \A t : Pos(t) = Below(S, t)
  <2> SUFFICES ASSUME NEW t PROVE Pos(t) = Below(S, t)
    OBVIOUS
  <2>1. {u \in Token : u < t /\ inRank[u]} = {u \in S : u < t}
    OBVIOUS
  <2> QED BY <2>1 DEF Pos, Below
<1>3. \A t, i : IsSelected(t, i) <=> t \in S /\ Below(S, t) = i
  BY <1>2 DEF IsSelected
<1>4. Total = Cardinality(S) /\ Total \in Nat
  BY <1>1, <1>2, BelowType DEF Total
<1> HIDE DEF S
<1>5. \A t, i : IsSelected(t, i) => i \in 0 .. Total - 1
  <2> SUFFICES ASSUME NEW t \in S PROVE Below(S, t) \in 0 .. Total - 1
    BY <1>3
  <2>1. Below(S, t) \in Nat /\ Below(S, t) < Cardinality(S)
    BY <1>1, <1>4, BelowType, BelowOrders
  <2> QED BY <1>4, <2>1
<1>6. \A t, u, i : IsSelected(t, i) /\ IsSelected(u, i) => t = u
  <2> SUFFICES ASSUME NEW t \in S, NEW u \in S, Below(S, t) = Below(S, u) PROVE t = u
    BY <1>3
  <2> QED BY <1>1, BelowOrders
<1>7. \A i \in 0 .. Total - 1 : \E t : IsSelected(t, i)
  BY <1>1, <1>3, <1>4, BelowOnto
<1>8. \A k \in 1 .. Total : IsSelected(SelectedStream[k], k - 1)
  <2> SUFFICES ASSUME NEW k \in 1 .. Total PROVE IsSelected(SelectedStream[k], k - 1)
    OBVIOUS
  <2>1. k - 1 \in 0 .. Total - 1
    BY <1>4
  <2>2. \E t \in Token : IsSelected(t, k - 1)
    BY <1>7, <2>1 DEF IsSelected
  <2>3. SelectedStream[k] = CHOOSE t \in Token : IsSelected(t, k - 1)
    BY DEF SelectedStream
  <2> QED BY <2>2, <2>3
<1>9. SelectedStream \in [1 .. Total -> Token]
  BY <1>8 DEF SelectedStream, IsSelected
<1>10. ASSUME NEW t, NEW i, IsSelected(t, i) PROVE SelectedStream[i + 1] = t
  <2>1. i \in 0 .. Total - 1
    BY <1>5, <1>10
  <2>2. i + 1 \in 1 .. Total /\ (i + 1) - 1 = i
    BY <1>4, <2>1
  <2> QED BY <1>6, <1>8, <1>10, <2>2
<1> QED BY <1>4, <1>5, <1>9, <1>10

(* The slots between head and tail hold that part of the stream. *)
Queued == [i \in 1 .. tail - head |-> slot[(head + i - 1) % NumSlots]]

QueueInv ==
  /\ head \in Nat /\ tail \in 0 .. Total /\ head <= tail
  /\ tail - head <= NumSlots
  /\ Queued = [i \in 1 .. tail - head |-> SelectedStream[head + i]]

LEMMA QueuedIsStream == IInv => QueueInv
<1> SUFFICES ASSUME IInv PROVE QueueInv
  OBVIOUS
<1> USE DEF IInv
<1>1. inRank \in [Token -> BOOLEAN] /\ head \in Nat /\ tail \in Nat /\ head <= tail
  BY DEF TypeOK, ReceiverInv
<1>2. 0 \in SendWarp /\ stoken[0] \in 0 .. NumTokens /\ stail[0] \in Nat
  BY WarpsAssumption DEF SendWarp, TypeOK
<1>3. tail <= stail[0] /\ stail[0] <= head + NumSlots /\ stail[0] = Pos(stoken[0])
  BY <1>2 DEF SenderInv, SendWarpInv
<1>4. stail[0] <= Total /\ Total \in Nat
  <2>1. NumTokens \in 0 .. NumTokens /\ stoken[0] <= NumTokens
    BY <1>2, NumTokensAssumption
  <2> QED BY <1>1, <1>2, <1>3, <2>1, PosMonotone, StreamFacts DEF Total
<1>5. tail \in 0 .. Total /\ tail - head <= NumSlots
  BY <1>1, <1>2, <1>3, <1>4, ConfigAssumption
<1>6. ASSUME NEW i \in 1 .. tail - head
      PROVE  slot[(head + i - 1) % NumSlots] = SelectedStream[head + i]
  <2>1. head + i - 1 \in head .. tail - 1 /\ (head + i - 1) + 1 = head + i
    BY <1>1
  <2>2. IsSelected(slot[(head + i - 1) % NumSlots], head + i - 1)
    BY <2>1, FilledIsIntact DEF UnreadSlotsIntact
  <2>3. SelectedStream[(head + i - 1) + 1] = slot[(head + i - 1) % NumSlots]
    BY <1>1, <2>2, StreamFacts
  <2> QED BY <2>1, <2>3
<1>7. Queued = [i \in 1 .. tail - head |-> SelectedStream[head + i]]
  BY <1>6 DEF Queued
<1> QED BY <1>1, <1>5, <1>7 DEF QueueInv

LEMMA QueuedIsStreamNext == IInv' => QueueInv'
BY QueuedIsStream, PTL

LEMMA StreamStable ==
  ASSUME UNCHANGED task
  PROVE  Total' = Total /\ SelectedStream' = SelectedStream
BY DEF task, Total, SelectedStream, IsSelected, Pos

(* Initially the abstract queue is empty. *)
LEMMA InitAbstract == Init => Abstract!TInit
<1> SUFFICES ASSUME Init PROVE Abstract!TInit
  OBVIOUS
<1>1. SelectedStream \in Seq(Token)
  <2>1. Total \in Nat /\ SelectedStream \in [1 .. Total -> Token]
    BY StreamFacts DEF Init
  <2> QED BY <2>1
<1>2. [i \in 1 .. tail - head |-> slot[(head + i - 1) % NumSlots]] = << >>
  BY DEF Init
<1>3. tail = 0
  BY DEF Init
<1> QED BY <1>1, <1>2, <1>3 DEF Abstract!TInit

(* How far a counter has gone. *)
LEMMA Gap ==
  \A x, y, z \in Int : x <= y /\ y # x =>
    /\ y - x \in Int /\ x + (y - x) = y
    /\ y <= x + z => y - x \in 1 .. z
    /\ y <= z => y - x \in 1 .. y - x /\ y - x <= z - x
OBVIOUS

(* Publishing the tail appends the next tokens of the stream, or nothing. *)
LEMMA PublishIsAbstract ==
  ASSUME IInv, IInv', PublishTail
  PROVE  [Abstract!TNext]_(Abstract!tvars)
<1> DEFINE stream == SelectedStream
           k == tail' - tail
<1>1. /\ UNCHANGED task /\ spc[0] = "publish" /\ tail' = stail[0]
      /\ UNCHANGED <<head, slot>>
  BY DEF PublishTail
<1>2. Total' = Total /\ SelectedStream' = SelectedStream
  BY <1>1, StreamStable
<1>3. /\ head \in Nat /\ tail \in head .. Total
      /\ Queued = Segment(stream, head, tail)
      /\ stream \in Seq(Token) /\ Len(stream) = Total /\ Total \in Nat
  <2>1. Total \in Nat /\ SelectedStream \in [1 .. Total -> Token]
    BY StreamFacts DEF IInv, TypeOK
  <2> QED BY <2>1, QueuedIsStream DEF QueueInv, Segment
<1>4. /\ tail' \in Nat /\ tail' <= Total /\ tail' - head <= NumSlots
      /\ Queued' = Segment(stream, head, tail')
  <2>1. /\ tail' \in 0 .. Total' /\ tail' - head' <= NumSlots
        /\ Queued' = [i \in 1 .. tail' - head' |-> SelectedStream'[head' + i]]
    BY QueuedIsStreamNext DEF QueueInv
  <2> QED BY <1>1, <1>2, <2>1 DEF Segment
<1>5. tail <= tail' /\ tail' <= tail + MaxSend
  <2>1. 0 \in SendWarp
    BY WarpsAssumption DEF SendWarp
  <2> QED BY <1>1, <2>1 DEF IInv, TailPublished, SenderInv, SendWarpInv
<1> HIDE DEF stream
<1>6. head \in Int /\ tail \in Int /\ tail' \in Int /\ head <= tail /\ tail <= Total
  BY <1>3, <1>4
<1>7. CASE tail' = tail
  <2>1. Queued' = Queued
    BY <1>3, <1>4, <1>7
  <2> QED BY <1>2, <1>7, <2>1 DEF Abstract!tvars, Queued
<1>8. CASE tail' # tail
  <2>1. k \in 1 .. MaxSend /\ tail + k = tail'
    <3>1. MaxSend \in Int
      BY ConfigAssumption
    <3> QED BY <1>5, <1>8, <1>6, <3>1, Gap, Zenon
  <2>2. Queued' = Queued \o SubSeq(stream, tail + 1, tail')
    <3>1. tail' \in tail .. Len(stream) /\ tail \in head .. Len(stream)
      BY <1>3, <1>4, <1>5
    <3> QED BY <1>3, <1>4, <3>1, SegmentAppend
  <2>3. Len(Queued) = tail - head
    BY <1>3, SegmentType
  <2>4. Len(Queued) + k <= NumSlots /\ tail + k <= Len(SelectedStream)
    <3>1. tail' - head <= NumSlots /\ tail' <= Total /\ Len(SelectedStream) = Total
      BY <1>3, <1>4 DEF stream
    <3> QED BY <1>6, <2>1, <2>3, <3>1
  <2> HIDE DEF k
  <2>5. Abstract!TPublish
    BY <1>2, <2>1, <2>2, <2>4 DEF Abstract!TPublish, Queued, stream
  <2> QED BY <2>5 DEF Abstract!TNext
<1> QED BY <1>7, <1>8

(* Releasing the head takes the first tokens of the queue, or none. *)
LEMMA ReleaseIsAbstract ==
  ASSUME IInv, IInv', ReleaseHead
  PROVE  [Abstract!TNext]_(Abstract!tvars)
<1> DEFINE stream == SelectedStream
           k == head' - head
<1>1. /\ UNCHANGED task /\ head' = rhead[LastRecvWarp] /\ UNCHANGED <<tail, slot>>
      /\ LastRecvWarp \in RecvWarp
  BY WarpsAssumption DEF ReleaseHead, LastRecvWarp, RecvWarp
<1>2. Total' = Total /\ SelectedStream' = SelectedStream
  BY <1>1, StreamStable
<1>3. /\ head \in Nat /\ tail \in head .. Total
      /\ Queued = Segment(stream, head, tail)
      /\ stream \in Seq(Token) /\ Len(stream) = Total /\ Total \in Nat
  <2>1. Total \in Nat /\ SelectedStream \in [1 .. Total -> Token]
    BY StreamFacts DEF IInv, TypeOK
  <2> QED BY <2>1, QueuedIsStream DEF QueueInv, Segment
<1>4. /\ head' \in Nat /\ head' <= tail
      /\ Queued' = Segment(stream, head', tail)
  <2>1. /\ head' \in Nat /\ head' <= tail'
        /\ Queued' = [i \in 1 .. tail' - head' |-> SelectedStream'[head' + i]]
    BY QueuedIsStreamNext DEF QueueInv
  <2> QED BY <1>1, <1>2, <2>1 DEF Segment
<1>5. head <= head'
  BY <1>1 DEF IInv, ReceiverInv
<1> HIDE DEF stream
<1>6. head \in Int /\ tail \in Int /\ head' \in Int /\ head <= tail /\ head' <= tail
  BY <1>3, <1>4
<1>7. CASE head' = head
  <2>1. Queued' = Queued
    BY <1>3, <1>4, <1>7
  <2> QED BY <1>1, <1>2, <2>1 DEF Abstract!tvars, Queued
<1>8. CASE head' # head
  <2>1. k \in 1 .. tail - head /\ head + k = head'
    <3>1. k \in 1 .. k /\ head + k = head' /\ k <= tail - head /\ k \in Int
      BY <1>5, <1>8, <1>6, Gap
    <3> HIDE DEF k
    <3> QED BY <1>6, <3>1
  <2>2. Len(Queued) = tail - head
    BY <1>3, SegmentType
  <2>3. Queued' = SubSeq(Queued, k + 1, Len(Queued))
    <3>1. k \in 0 .. tail - head /\ tail \in head .. Len(stream)
      BY <1>3, <2>1
    <3> HIDE DEF k
    <3>2. Segment(stream, head + k, tail) = SubSeq(Segment(stream, head, tail), k + 1, tail - head)
      BY <1>3, <3>1, SegmentDrop
    <3> QED BY <1>3, <1>4, <2>1, <2>2, <3>2
  <2> HIDE DEF k
  <2>4. Abstract!TTake
    BY <1>1, <1>2, <2>1, <2>2, <2>3 DEF Abstract!TTake, Queued
  <2> QED BY <2>4 DEF Abstract!TNext
<1> QED BY <1>7, <1>8

(* A step that leaves both ends where they are does not show. *)
LEMMA OthersAreHidden ==
  ASSUME IInv, IInv', UNCHANGED <<task, head, tail>>
  PROVE  UNCHANGED Abstract!tvars
<1>1. Total' = Total /\ SelectedStream' = SelectedStream
  BY StreamStable
<1>2. Queued = [i \in 1 .. tail - head |-> SelectedStream[head + i]]
  BY QueuedIsStream DEF QueueInv
<1>3. Queued' = [i \in 1 .. tail' - head' |-> SelectedStream'[head' + i]]
  BY QueuedIsStreamNext DEF QueueInv
<1>4. Queued' = Queued
  BY <1>1, <1>2, <1>3
<1> QED BY <1>1, <1>4 DEF Abstract!tvars, Queued

LEMMA NextIsAbstract == IInv /\ IInv' /\ [Next]_vars => [Abstract!TNext]_(Abstract!tvars)
<1> SUFFICES ASSUME IInv, IInv', [Next]_vars PROVE [Abstract!TNext]_(Abstract!tvars)
  OBVIOUS
<1>1. CASE PublishTail
  BY <1>1, PublishIsAbstract
<1>2. CASE ReleaseHead
  BY <1>2, ReleaseIsAbstract
<1>3. CASE SendOffsets \/ SenderBarrier
  BY <1>3, OthersAreHidden DEF SendOffsets, SenderBarrier
<1>4. ASSUME NEW w \in SendWarp, AwaitRoom(w) \/ SkipToken(w) \/ SendToken(w) \/ EndChunk(w)
      PROVE  UNCHANGED Abstract!tvars
  BY <1>4, OthersAreHidden DEF AwaitRoom, SkipToken, SendToken, EndChunk
<1>5. CASE PollTail \/ ReceiverBarrier \/ CopiedBarrier
  BY <1>5, OthersAreHidden DEF PollTail, ReceiverBarrier, CopiedBarrier
<1>6. ASSUME NEW w \in RecvWarp,
             ReceiveOffsets(w) \/ LoadSharedTail(w) \/ CopyToken(w) \/ EndCopy(w)
      PROVE  UNCHANGED Abstract!tvars
  BY <1>6, OthersAreHidden DEF ReceiveOffsets, LoadSharedTail, CopyToken, EndCopy
<1>7. CASE UNCHANGED vars
  BY <1>7, OthersAreHidden DEF vars
<1> QED BY <1>1, <1>2, <1>3, <1>4, <1>5, <1>6, <1>7 DEF Next, Sender, Receiver, Finished

(***************************************************************************)
(* The channel is a bounded FIFO queue of the selected tokens: every step  *)
(* of any warp appends the next ones, takes the first ones, or does not    *)
(* show, for any number of warps at both ends and any chunk size.          *)
(***************************************************************************)
THEOREM ImplementsTokenStream == Spec => IsTokenStream
<1>1. IInv /\ IInv' /\ [Next]_vars => [Abstract!TNext]_(Abstract!tvars)
  BY NextIsAbstract
<1> QED BY <1>1, InitAbstract, Invariance, PTL DEF Spec, IsTokenStream, Abstract!TSpec
=============================================================================
