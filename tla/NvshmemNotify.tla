---------------------------- MODULE NvshmemNotify ------------------------------
(***************************************************************************)
(* notify_dispatch of the NVSHMEM intranode path                           *)
(* (csrc/kernels/intranode_nvshmem.cu): each rank writes its token counts  *)
(* into its symmetric buffer, all ranks meet in an NVSHMEM barrier, and    *)
(* one thread per rank gathers everybody's counts with remote gets into    *)
(* the rank prefix matrix, of which it keeps one copy in the symmetric     *)
(* buffer and one in a tensor that later goes into the handle.             *)
(*                                                                         *)
(* get_raw_counts_ptr and get_rank_prefix_ptr both return the base of the  *)
(* buffer, so the counts a rank publishes ARE row 0 of the matrix it       *)
(* builds: buffer[r][<<0, d>>] is at once r's count for d and r's total    *)
(* for d over rank 0.  The expert counts have words of their own.          *)
(*                                                                         *)
(* A get of another rank's word and the store of the running sum are one   *)
(* step.  That loses no outcome: a store to row 0, the only words that are *)
(* read remotely, holds what rank 0 published, and nothing changes that.   *)
(* The barrier inside dispatch, between this notify and the next, is here  *)
(* the step Exchange; the transfer it orders is module NvshmemExchange.    *)
(***************************************************************************)
EXTENDS CountMatrix

CONSTANTS
  ExpertsPerRank,   \* num_experts / num_ranks
  Alignment,        \* expert_alignment
  MaxCall,          \* bound: dispatch calls made
  Demands           \* bound: the inputs tried, each [Call -> [Rank -> [Expert -> Nat]]]

ASSUME ExpertsAssumption   == ExpertsPerRank \in Nat \ {0}
ASSUME AlignmentAssumption == Alignment \in Nat \ {0}
ASSUME MaxCallAssumption   == MaxCall \in Nat \ {0}

Call        == 1 .. MaxCall
Expert      == 0 .. NumRanks * ExpertsPerRank - 1
LocalExpert == 0 .. ExpertsPerRank - 1
GlobalExpert(r, i) == r * ExpertsPerRank + i

ASSUME DemandsAssumption ==
  \A d \in Demands : d \in [Call -> [Rank -> [Expert -> Nat]]]

(* num_tokens_per_rank of each rank when the tokens that choose each expert *)
(* are these, and no token chooses two experts of a rank.                   *)
CountsOf(d) ==
  [s \in Rank |-> [t \in Rank |->
     SumFunctionOnSet(d[s], {GlobalExpert(t, i) : i \in LocalExpert})]]

VARIABLES
  demand,      \* demand[n][s][e]  : num_tokens_per_expert of rank s in call n
  call,        \* call[r]          : the call rank r's stream is in
  stage,       \* stage[r]         : the kernel its stream runs next
  cell,        \* cell[r]          : the <<src, dest>> the gather loop is at
  buffer,      \* buffer[r]        : the matrix words of r's symmetric buffer
  rawExpert,   \* rawExpert[r]     : the expert words of r's symmetric buffer
  matrix,      \* matrix[r]        : rank_prefix_matrix_copy
  recvCount,   \* recvCount[r]     : *moe_recv_counter
  recvExpert,  \* recvExpert[r]    : moe_recv_expert_counter
  arrived      \* arrived[r]       : NVSHMEM barriers r's stream has entered

vars == <<demand, call, stage, cell, buffer, rawExpert, matrix, recvCount,
          recvExpert, arrived>>

Stages == {"write", "gather", "experts", "exchange"}

(* num_tokens_per_rank of every rank in call n. *)
Counts(n) == CountsOf(demand[n])

(* Variant: the barrier lets the stream through at once. *)
MetAtOnce(r) == TRUE

(* nvshmemx_barrier_all_on_stream: r's stream passes the barrier it has    *)
(* entered last once every rank has entered it.                            *)
Met(r) == \A q \in Rank : arrived[q] >= arrived[r]

Init ==
  /\ demand     \in Demands
  /\ call       = [r \in Rank |-> 1]
  /\ stage      = [r \in Rank |-> "write"]
  /\ cell       = [r \in Rank |-> <<0, 0>>]
  /\ buffer     = [r \in Rank |-> [c \in Cell |-> 0]]
  /\ rawExpert  = [r \in Rank |-> [e \in Expert |-> 0]]
  /\ matrix     = [r \in Rank |-> [c \in Cell |-> 0]]
  /\ recvCount  = [r \in Rank |-> -1]
  /\ recvExpert = [r \in Rank |-> [i \in LocalExpert |-> -1]]
  /\ arrived    = [r \in Rank |-> 0]

(* The host's reset of the counters, write_local_counts, and the entry     *)
(* into the barrier.                                                       *)
WriteCounts(r) ==
  /\ stage[r] = "write"
  /\ Met(r)
  /\ recvCount'  = [recvCount EXCEPT ![r] = -1]
  /\ recvExpert' = [recvExpert EXCEPT ![r] = [i \in LocalExpert |-> -1]]
  /\ buffer' = [buffer EXCEPT ![r] = [c \in Cell |->
       IF c[1] = 0 THEN Counts(call[r])[r][c[2]] ELSE @[c]]]
  /\ rawExpert' = [rawExpert EXCEPT ![r] = demand[call[r]][r]]
  /\ stage'   = [stage EXCEPT ![r] = "gather"]
  /\ cell'    = [cell EXCEPT ![r] = <<0, 0>>]
  /\ arrived' = [arrived EXCEPT ![r] = @ + 1]
  /\ UNCHANGED <<demand, call, matrix>>

(* Variant: the loop over src runs once too often. *)
FollowingPast(c) == IF c[1] < NumRanks THEN <<c[1] + 1, c[2]>>
                                       ELSE <<0, c[2] + 1>>

(* The order of gather_counts' double loop: dest outside, src inside. *)
Following(c) == IF c[1] < NumRanks - 1 THEN <<c[1] + 1, c[2]>>
                                       ELSE <<0, c[2] + 1>>

(* One iteration: nvshmem_int_g(raw_counts + dest, src) and the two stores *)
(* of the running sum.                                                     *)
Gather(r) ==
  /\ stage[r] = "gather"
  /\ Met(r)
  /\ LET src    == cell[r][1]
         dest   == cell[r][2]
         prefix == buffer[src][<<0, dest>>]
                     + (IF src = 0 THEN 0 ELSE matrix[r][<<src - 1, dest>>])
     IN  /\ matrix' = [matrix EXCEPT ![r][<<src, dest>>] = prefix]
         /\ buffer' = [buffer EXCEPT ![r][<<src, dest>>] = prefix]
         /\ recvCount' = IF src = NumRanks - 1 /\ dest = r
                         THEN [recvCount EXCEPT ![r] = prefix] ELSE recvCount
  /\ cell'  = [cell EXCEPT ![r] = Following(@)]
  /\ stage' = [stage EXCEPT ![r] =
                 IF Following(cell[r])[2] = NumRanks THEN "experts" ELSE @]
  /\ UNCHANGED <<demand, call, rawExpert, recvExpert, arrived>>

(* The expert loop of gather_counts, for one local expert. *)
GatherExpert(r, i) ==
  /\ stage[r] = "experts"
  /\ recvExpert[r][i] = -1
  /\ \A j \in LocalExpert : j < i => recvExpert[r][j] # -1
  /\ LET e   == GlobalExpert(r, i)
         sum == SumFunctionOnSet([s \in Rank |-> rawExpert[s][e]], Rank)
     IN  recvExpert' = [recvExpert EXCEPT ![r][i] = AlignUp(sum, Alignment)]
  /\ stage' = [stage EXCEPT ![r] =
                 IF i = ExpertsPerRank - 1 THEN "exchange" ELSE @]
  /\ UNCHANGED <<demand, call, cell, buffer, rawExpert, matrix, recvCount,
                 arrived>>

(* Variant: the exchange has no barrier. *)
ExchangeUnordered(r) ==
  /\ stage[r] = "exchange"
  /\ call[r] < MaxCall
  /\ call'    = [call EXCEPT ![r] = @ + 1]
  /\ stage'   = [stage EXCEPT ![r] = "write"]
  /\ UNCHANGED <<demand, cell, buffer, rawExpert, matrix, recvCount,
                 recvExpert, arrived>>

(* dispatch: the puts, and the entry into the barrier that follows them;   *)
(* the next call's notify comes after it in the stream.                    *)
Exchange(r) ==
  /\ stage[r] = "exchange"
  /\ call[r] < MaxCall
  /\ call'    = [call EXCEPT ![r] = @ + 1]
  /\ stage'   = [stage EXCEPT ![r] = "write"]
  /\ arrived' = [arrived EXCEPT ![r] = @ + 1]
  /\ UNCHANGED <<demand, cell, buffer, rawExpert, matrix, recvCount,
                 recvExpert>>

RankStep(r) ==
  \/ WriteCounts(r)
  \/ Gather(r)
  \/ \E i \in LocalExpert : GatherExpert(r, i)
  \/ Exchange(r)

Next == \E r \in Rank : RankStep(r)

Spec == Init /\ [][Next]_vars

-----------------------------------------------------------------------------
(* The state stays in its types: every word of the buffers is a count, and *)
(* the host's counters are a count or the -1 they are reset to.            *)
TypeOK ==
  /\ demand     \in Demands
  /\ call       \in [Rank -> Call]
  /\ stage      \in [Rank -> Stages]
  /\ cell       \in [Rank -> Rank \X (0 .. NumRanks)]
  /\ buffer     \in [Rank -> [Cell -> Nat]]
  /\ rawExpert  \in [Rank -> [Expert -> Nat]]
  /\ matrix     \in [Rank -> [Cell -> Nat]]
  /\ recvCount  \in [Rank -> Nat \cup {-1}]
  /\ recvExpert \in [Rank -> [LocalExpert -> Nat \cup {-1}]]
  /\ arrived    \in [Rank -> Nat]

Gathered(r) == stage[r] \in {"experts", "exchange"}

(* gather_counts, its expert loop: what the host will read as              *)
(* num_recv_tokens_per_expert_list is, for every expert of the rank, the   *)
(* total over all ranks of this very call, rounded up to the alignment -   *)
(* not a mixture with the call before or after.                            *)
ExpertTotals ==
  \A r \in Rank : stage[r] = "exchange" =>
    \A i \in LocalExpert :
      recvExpert[r][i] =
        AlignUp(SumFunctionOnSet(
                  [s \in Rank |-> demand[call[r]][s][GlobalExpert(r, i)]], Rank), Alignment)

(* gather_counts: the copy that goes into the handle counts, for every     *)
(* source, the tokens of this very call - the source's or, where the       *)
(* aliased word was overwritten first, rank 0's - on every rank and        *)
(* whatever the others do.  NvshmemExchange builds on this.                *)
MatrixIsGathered ==
  \A r \in Rank : Gathered(r) => GatherOutcome(matrix[r], Counts(call[r]), r)

(* gather_counts: when all ranks send the same number of tokens to each    *)
(* destination, as the functional test does, the aliasing does no harm:    *)
(* the matrix is the prefix sum and the counter the number received.       *)
UniformCountsGathered ==
  \A r \in Rank :
    LET counts == Counts(call[r]) IN
    Gathered(r) /\ (\A s \in Rank : counts[s] = counts[0]) =>
      /\ matrix[r]    = PrefixMatrix(counts)
      /\ recvCount[r] = PrefixMatrix(counts)[<<NumRanks - 1, r>>]

(* The plan's "Gather counts from all ranks via NVSHMEM get into           *)
(* `rank_prefix_matrix`", and the functional test's check of               *)
(* recv_x.size(0): the counter is what the ranks together send.            *)
CountsGathered ==
  \A r \in Rank : Gathered(r) =>
    recvCount[r] = PrefixMatrix(Counts(call[r]))[<<NumRanks - 1, r>>]
=============================================================================
