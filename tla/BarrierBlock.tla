----------------------------- MODULE BarrierBlock ------------------------------
(***************************************************************************)
(* barrier_block (csrc/kernels/utils.cuh): the barrier over the NVLink     *)
(* ranks that every kernel of the library uses.  Rank r owns one integer   *)
(* per peer, sig[r][t].  In a visit, lane t of rank r adds the tag to      *)
(* sig[r][t], subtracts it from sig[t][r], and then the warp spins until   *)
(* each of its lanes has loaded a value <= 0.  The integers are never      *)
(* reset: the same words serve every visit.                                *)
(*                                                                         *)
(* The lanes of a rank run their two atomics and their loads in program    *)
(* order, and otherwise independently of each other and of the peers.  A   *)
(* warp vote that fails leaves the state as it was, so only the loads of   *)
(* the vote that succeeds are steps of the model.  The timeout, which      *)
(* traps the device, is left out.                                          *)
(***************************************************************************)
EXTENDS Integers

CONSTANTS
  Rank,       \* the NVLink peers
  SyncOnly,   \* the template parameter kSyncOnly: skip the memory fence
  MaxRound    \* bound: how many visits each rank makes

ASSUME RankAssumption     == Rank # {}
ASSUME SyncOnlyAssumption == SyncOnly \in BOOLEAN
ASSUME MaxRoundAssumption == MaxRound \in Nat

FinishedSumTag == 1024

VARIABLES
  round,      \* round[r]    : visits rank r has completed
  lane,       \* lane[r][t]  : where lane t of rank r stands in its visit
  sig,        \* sig[r][t]   : the signal word t of rank r's buffer
  visible     \* visible[r]  : the peers see what r wrote before that visit

barrierVars == <<round, lane, sig, visible>>

LaneStates == {"add", "sub", "poll", "passed"}

BarrierInit ==
  /\ round   = [r \in Rank |-> 0]
  /\ lane    = [r \in Rank |-> [t \in Rank |-> "add"]]
  /\ sig     = [r \in Rank |-> [t \in Rank |-> 0]]
  /\ visible = [r \in Rank |-> 0]

(* memory_fence() and __syncthreads(): what rank r wrote before this visit *)
(* reaches the peers.  Without the fence the same may happen at any time.  *)
Fence(r) ==
  /\ visible[r] = round[r]
  /\ round[r] < MaxRound
  /\ visible' = [visible EXCEPT ![r] = @ + 1]
  /\ UNCHANGED <<round, lane, sig>>

(* Variant: the block forgets the fence. *)
AddSelfUnfenced(r, t) ==
  /\ lane[r][t] = "add"
  /\ round[r] < MaxRound
  /\ sig'  = [sig EXCEPT ![r][t] = @ + FinishedSumTag]
  /\ lane' = [lane EXCEPT ![r][t] = "sub"]
  /\ UNCHANGED <<round, visible>>

(* atomicAdd_system(barrier_signal_ptrs[rank] + thread_id, TAG) *)
AddSelf(r, t) ==
  /\ lane[r][t] = "add"
  /\ round[r] < MaxRound
  /\ SyncOnly \/ visible[r] = round[r] + 1
  /\ sig'  = [sig EXCEPT ![r][t] = @ + FinishedSumTag]
  /\ lane' = [lane EXCEPT ![r][t] = "sub"]
  /\ UNCHANGED <<round, visible>>

(* Variant: the subtraction hits the rank's own word. *)
SubPeerOwnWord(r, t) ==
  /\ lane[r][t] = "sub"
  /\ sig'  = [sig EXCEPT ![r][t] = @ - FinishedSumTag]
  /\ lane' = [lane EXCEPT ![r][t] = "poll"]
  /\ UNCHANGED <<round, visible>>

(* atomicSub_system(barrier_signal_ptrs[thread_id] + rank, TAG) *)
SubPeer(r, t) ==
  /\ lane[r][t] = "sub"
  /\ sig'  = [sig EXCEPT ![t][r] = @ - FinishedSumTag]
  /\ lane' = [lane EXCEPT ![r][t] = "poll"]
  /\ UNCHANGED <<round, visible>>

(* Variant: the comparison is off by one tag. *)
PollLoose(r, t) ==
  /\ lane[r][t] = "poll"
  /\ sig[r][t] <= FinishedSumTag
  /\ lane' = [lane EXCEPT ![r][t] = "passed"]
  /\ UNCHANGED <<round, sig, visible>>

(* Variant: the comparison is strict. *)
PollStrict(r, t) ==
  /\ lane[r][t] = "poll"
  /\ sig[r][t] < 0
  /\ lane' = [lane EXCEPT ![r][t] = "passed"]
  /\ UNCHANGED <<round, sig, visible>>

(* Lane t's load, in the iteration whose vote succeeds. *)
Poll(r, t) ==
  /\ lane[r][t] = "poll"
  /\ sig[r][t] <= 0
  /\ lane' = [lane EXCEPT ![r][t] = "passed"]
  /\ UNCHANGED <<round, sig, visible>>

(* Variant: the rank resets its words on the way out. *)
LeaveResetting(r) ==
  /\ \A t \in Rank : lane[r][t] = "passed"
  /\ round'   = [round EXCEPT ![r] = @ + 1]
  /\ lane'    = [lane EXCEPT ![r] = [t \in Rank |-> "add"]]
  /\ sig'     = [sig EXCEPT ![r] = [t \in Rank |-> 0]]
  /\ UNCHANGED visible

(* Variant: the vote is won when one lane has passed; the others go on. *)
LeaveAny(r) ==
  /\ \E t \in Rank : lane[r][t] = "passed"
  /\ round' = [round EXCEPT ![r] = @ + 1]
  /\ lane'  = [lane EXCEPT ![r] =
                 [t \in Rank |-> IF @[t] = "passed" THEN "add" ELSE @[t]]]
  /\ UNCHANGED <<sig, visible>>

(* __all_sync holds, the block meets at __syncthreads and returns. *)
Leave(r) ==
  /\ \A t \in Rank : lane[r][t] = "passed"
  /\ round'   = [round EXCEPT ![r] = @ + 1]
  /\ lane'    = [lane EXCEPT ![r] = [t \in Rank |-> "add"]]
  /\ UNCHANGED <<sig, visible>>

RankStep(r) ==
  \/ Fence(r)
  \/ \E t \in Rank : AddSelf(r, t) \/ SubPeer(r, t) \/ Poll(r, t)
  \/ Leave(r)

BarrierNext == \E r \in Rank : RankStep(r)

BarrierSpec == BarrierInit /\ [][BarrierNext]_barrierVars

(***************************************************************************)
(* All blocks of the barrier kernel are resident on their own devices and  *)
(* the hardware keeps running each warp, so no lane stops for ever.        *)
(***************************************************************************)
BarrierFairness == \A r \in Rank : WF_barrierVars(RankStep(r))

FairBarrierSpec == BarrierSpec /\ BarrierFairness
--------------------------------------------------------------------------------
BarrierTypeOK ==
  /\ round   \in [Rank -> 0 .. MaxRound]
  /\ lane    \in [Rank -> [Rank -> LaneStates]]
  /\ sig     \in [Rank -> [Rank -> Int]]
  /\ visible \in [Rank -> 0 .. MaxRound]

(* How often r's lane t has added to sig[r][t], and subtracted from sig[t][r]. *)
Adds(r, t) == IF lane[r][t] = "add" THEN round[r] ELSE round[r] + 1
Subs(r, t) == IF lane[r][t] \in {"add", "sub"} THEN round[r] ELSE round[r] + 1

(***************************************************************************)
(* The inductive invariant.  SignalBalance: a word is what its owner added *)
(* minus what the peer subtracted.  PeerArrived: a lane that has passed,   *)
(* and a rank that has left, was preceded by the peer's subtraction of the *)
(* same visit.  FenceFirst: with the fence, no lane of a visit moves       *)
(* before what the rank wrote for it is visible.  VisitOpen: a lane is     *)
(* under way only in a visit the rank still has to make.                   *)
(***************************************************************************)
SignalBalance ==
  \A r, t \in Rank : sig[r][t] = FinishedSumTag * (Adds(r, t) - Subs(t, r))

PeerArrived ==
  \A r, t \in Rank :
    /\ round[r] <= Subs(t, r)
    /\ lane[r][t] = "passed" => round[r] + 1 <= Subs(t, r)

FenceFirst ==
  ~SyncOnly => \A r \in Rank :
    /\ round[r] <= visible[r]
    /\ visible[r] = round[r] => \A t \in Rank : lane[r][t] = "add"

VisitOpen ==
  \A r, t \in Rank : lane[r][t] # "add" => round[r] < MaxRound

BarrierIInv == BarrierTypeOK /\ SignalBalance /\ PeerArrived /\ FenceFirst /\ VisitOpen

(***************************************************************************)
(* The words are reused for ever without a reset, yet they never drift:    *)
(* each stays within one tag of zero, whatever the skew between the ranks. *)
(* A drift would let a later visit pass early or block it for good.        *)
(***************************************************************************)
SignalsNeverDrift ==
  \A r, t \in Rank : sig[r][t] \in {-FinishedSumTag, 0, FinishedSumTag}

(***************************************************************************)
(* Once rank r has left its k-th visit, it sees everything any rank wrote  *)
(* before that rank's k-th visit.  Only the variant with the fence claims  *)
(* this; the dispatch and combine kernels read their peers' metadata on    *)
(* the strength of it.                                                     *)
(***************************************************************************)
WritesVisible ==
  ~SyncOnly => \A r, t \in Rank : round[r] <= visible[t]

(* The abstract barrier: a rank has entered once one of its subtractions is out. *)
HasEntered(r) == \E t \in Rank : lane[r][t] \in {"poll", "passed"}

AbstractBarrier == INSTANCE Barrier
  WITH entered <- [r \in Rank |-> IF HasEntered(r) THEN round[r] + 1 ELSE round[r]],
       left    <- round

(* barrier_block is a barrier: nobody leaves before everybody has entered. *)
IsBarrier == AbstractBarrier!BSpec

(***************************************************************************)
(* Every rank completes every visit: reusing the words never makes a fast  *)
(* rank's next visit swallow the signal a slow rank still waits for.       *)
(***************************************************************************)
AllVisitsComplete == <>(\A r \in Rank : round[r] = MaxRound)
================================================================================
