--------------------------- MODULE NvshmemExchange -----------------------------
(***************************************************************************)
(* dispatch and combine of the NVSHMEM intranode path                      *)
(* (csrc/kernels/intranode_nvshmem.cu), driven by intranode_dispatch and   *)
(* intranode_combine (csrc/deep_ep.cpp).                                   *)
(*                                                                         *)
(* Each rank has one receive region in symmetric memory, mem[r], written   *)
(* by the one-sided puts of all ranks and used by dispatch and by combine  *)
(* alike.  The only synchronisation is nvshmemx_barrier_all_on_stream:     *)
(* one after the sends of a dispatch, one after those of a combine, and    *)
(* one inside notify_dispatch.  A stream runs its kernels in order; the    *)
(* threads of a send kernel run in any order; a put travels until the      *)
(* sender's next barrier at the latest.                                    *)
(*                                                                         *)
(* A call of the library is a dispatch and the combine that returns its    *)
(* rows.  The dispatch of a call is "notified" (it exchanges counts first) *)
(* or "cached" (it takes the prefix matrix of the handle, and no barrier). *)
(* The prefix matrix a notified dispatch gathers is any that module        *)
(* NvshmemNotify allows.  In the cached case, and in combine, a slot has   *)
(* the same place in both phases; after a notified dispatch the two        *)
(* layouts are a few hundred bytes apart, and the phases overlap all the   *)
(* same.                                                                   *)
(*                                                                         *)
(* What the code leaves to the application is a parameter: whether the     *)
(* ranks meet between a dispatch and its combine, and between calls.       *)
(***************************************************************************)
EXTENDS CountMatrix, FiniteSets, Sequences

CONSTANTS
  NumTokens,   \* bound: tokens a rank holds
  Capacity,    \* config.num_max_nvl_chunked_recv_tokens: slots of a region
  Calls,       \* bound: the kinds of the calls made, a sequence
  Routes,      \* bound: the routings tried, see RoutesAssumption
  AppBarrier   \* the application keeps the phases of the ranks apart

Token == 0 .. NumTokens - 1
Slot  == 0 .. Capacity - 1

ASSUME ExchangeAssumption ==
  /\ NumTokens \in Nat
  /\ Capacity \in Nat \ {0}
  /\ AppBarrier \in BOOLEAN

(* A handle comes from a notified dispatch. *)
ASSUME CallsAssumption ==
  /\ Calls \in Seq({"notified", "cached"}) \ {<<>>}
  /\ Calls[1] = "notified"

ASSUME RoutesAssumption ==
  \A route \in Routes :
    /\ DOMAIN route = Rank
    /\ \A r \in Rank : \E n \in 0 .. NumTokens :
         route[r] \in [0 .. n - 1 -> SUBSET Rank]

VARIABLES
  route,     \* route[r][t]    : is_token_in_rank, the ranks token t goes to
  call,      \* call[r]        : the call r's stream is in
  stage,     \* stage[r]       : the kernel its stream runs next
  arrived,   \* arrived[r]     : barriers the stream has entered
  prefix,    \* prefix[r]      : r's rank prefix matrix
  head,      \* head[r][q]     : r's channel_head for the region of q
  todo,      \* todo[r]        : what the threads of r's send kernel have left
  wire,      \* puts under way
  mem,       \* mem[r][slot]   : the region of r, a row in each slot
  recv,      \* recv[r]        : recv_x and recv_src_idx, a row per slot
  out        \* out[r][t]      : how often each rank was added to token t

vars == <<route, call, stage, arrived, prefix, head, todo, wire, mem, recv, out>>

Stages == {"dispatch", "gather", "send", "copy", "combine", "return",
           "reduce", "done", "thrown"}

(* The tokens rank r holds: num_tokens may differ between the ranks. *)
TokensOf(r) == DOMAIN route[r]

(* The tokens of source s for destination d, as get_dispatch_layout counts *)
Counts == [s \in Rank |-> [d \in Rank |->
             Cardinality({t \in TokensOf(s) : d \in route[s][t]})]]
AllTokens == Rank \X Token

(* A row in a region: the rank that put it, the token its data stems from  *)
(* and the src_idx beside it.                                              *)
NoRow == [by |-> -1, of |-> <<-1, -1>>, idx |-> -1]
Row   == [by : Rank, of : AllTokens, idx : Token \cup {-1}] \cup {NoRow}

Init ==
  /\ route   \in Routes
  /\ call    = [r \in Rank |-> 1]
  /\ stage   = [r \in Rank |-> "dispatch"]
  /\ arrived = [r \in Rank |-> 0]
  /\ prefix  = [r \in Rank |-> [c \in Cell |-> 0]]
  /\ head    = [r \in Rank |-> [q \in Rank |-> 0]]
  /\ todo    = [r \in Rank |-> {}]
  /\ wire    = {}
  /\ mem     = [r \in Rank |-> [i \in Slot |-> NoRow]]
  /\ recv    = [r \in Rank |-> <<>>]
  /\ out     = [r \in Rank |-> [t \in TokensOf(r) |-> {}]]

(* nvshmemx_barrier_all_on_stream: the stream passes the barrier it has    *)
(* entered last once every rank has entered it.                            *)
Met(r) == \A q \in Rank : arrived[q] >= arrived[r]

AppArrivals == IF AppBarrier THEN 1 ELSE 0

NumRecv(r) == prefix[r][<<NumRanks - 1, r>>]

-----------------------------------------------------------------------------
(* The dispatch *)

(* notify_dispatch: write_local_counts and the entry into its barrier. *)
Notify(r) ==
  /\ stage[r] = "dispatch" /\ Calls[call[r]] = "notified"
  /\ Met(r)
  /\ arrived' = [arrived EXCEPT ![r] = @ + 1]
  /\ stage'   = [stage EXCEPT ![r] = "gather"]
  /\ UNCHANGED <<route, call, prefix, head, todo, wire, mem, recv, out>>

(* clear_channel_head and the launch of dispatch_send, one thread a token; *)
(* a launch of no blocks is an error that the host throws.                 *)
LaunchSend(r) ==
  /\ head'  = [head EXCEPT ![r] = [q \in Rank |-> 0]]
  /\ todo'  = [todo EXCEPT ![r] =
                 {p \in TokensOf(r) \X Rank : p[2] \in route[r][p[1]]}]
  /\ stage' = [stage EXCEPT ![r] = IF TokensOf(r) = {} THEN "thrown" ELSE "send"]

(* Variant: the host does not check. *)
HostAcceptsAll(n) == TRUE

(* The checks of num_recv_tokens against the capacity of the region. *)
HostAccepts(n) == n <= Capacity

(* gather_counts; the host reads the counter, checks it against the        *)
(* capacity of the region, and launches the dispatch.                      *)
Gather(r) ==
  /\ stage[r] = "gather"
  /\ Met(r)
  /\ \E m \in GatherOutcomes(Counts, r) :
       /\ prefix' = [prefix EXCEPT ![r] = m]
       /\ \/ /\ HostAccepts(m[<<NumRanks - 1, r>>])
             /\ LaunchSend(r)
          \/ /\ ~HostAccepts(m[<<NumRanks - 1, r>>])
             /\ stage' = [stage EXCEPT ![r] = "thrown"]
             /\ UNCHANGED <<head, todo>>
  /\ UNCHANGED <<route, call, arrived, wire, mem, recv, out>>

(* cached_notify_dispatch restores the handle's matrix: no barrier. *)
StartCached(r) ==
  /\ stage[r] = "dispatch" /\ Calls[call[r]] = "cached"
  /\ Met(r)
  /\ LaunchSend(r)
  /\ UNCHANGED <<route, call, arrived, prefix, wire, mem, recv, out>>

(* The slot where r's tokens for d begin in the region of d. *)
DispatchBase(r, d) == IF r = 0 THEN 0 ELSE prefix[r][<<r - 1, d>>]

(* A thread's atomicAdd on channel_head and, when the slot exists, its     *)
(* puts; when it does not, the thread returns.                             *)
PutRow(r, p, base, row) ==
  LET slot == base + head[r][p[2]] IN
  /\ head' = [head EXCEPT ![r][p[2]] = @ + 1]
  /\ \/ /\ slot < Capacity
        /\ wire' = wire \cup {[from |-> r, to |-> p[2], slot |-> slot, row |-> row]}
        /\ todo' = [todo EXCEPT ![r] = @ \ {p}]
     \/ /\ slot >= Capacity
        /\ todo' = [todo EXCEPT ![r] = {q \in @ : q[1] # p[1]}]
        /\ UNCHANGED wire
  /\ UNCHANGED <<route, call, stage, arrived, prefix, mem, recv, out>>

(* dispatch_send: thread p[1], the iteration for destination p[2]; the     *)
(* thread takes its destinations in ascending order.                       *)
DispatchSend(r, p) ==
  /\ stage[r] = "send"
  /\ p \in todo[r]
  /\ \A q \in todo[r] : q[1] = p[1] => q[2] >= p[2]
  /\ PutRow(r, p, DispatchBase(r, p[2]),
            [by |-> r, of |-> <<r, p[1]>>, idx |-> p[1]])

(* A put reaches the memory of its target. *)
Deliver(put) ==
  /\ mem'  = [mem EXCEPT ![put.to][put.slot] = put.row]
  /\ wire' = wire \ {put}
  /\ UNCHANGED <<route, call, stage, arrived, prefix, head, todo, recv, out>>

(* Variant: the barrier after the sends does not complete them. *)
EnterBarrierUnfinished(r) ==
  /\ stage[r] \in {"send", "return"}
  /\ todo[r] = {}
  /\ arrived' = [arrived EXCEPT ![r] = @ + 1]
  /\ stage'   = [stage EXCEPT ![r] = IF @ = "send" THEN "copy" ELSE "reduce"]
  /\ UNCHANGED <<route, call, prefix, head, todo, wire, mem, recv, out>>

(* Variant: rank 0 skips the barrier after its sends. *)
EnterBarrierZeroSkips(r) ==
  /\ stage[r] \in {"send", "return"}
  /\ todo[r] = {}
  /\ \A put \in wire : put.from # r
  /\ arrived' = [arrived EXCEPT ![r] = IF r = 0 THEN @ ELSE @ + 1]
  /\ stage'   = [stage EXCEPT ![r] = IF @ = "send" THEN "copy" ELSE "reduce"]
  /\ UNCHANGED <<route, call, prefix, head, todo, wire, mem, recv, out>>

(* The barrier after the sends of either phase: it completes r's puts and  *)
(* enters.                                                                 *)
EnterBarrier(r) ==
  /\ stage[r] \in {"send", "return"}
  /\ todo[r] = {}
  /\ \A put \in wire : put.from # r
  /\ arrived' = [arrived EXCEPT ![r] = @ + 1]
  /\ stage'   = [stage EXCEPT ![r] = IF @ = "send" THEN "copy" ELSE "reduce"]
  /\ UNCHANGED <<route, call, prefix, head, todo, wire, mem, recv, out>>

(* dispatch_copy_local. *)
CopyLocal(r) ==
  /\ stage[r] = "copy"
  /\ Met(r)
  /\ recv'    = [recv EXCEPT ![r] = [i \in 0 .. NumRecv(r) - 1 |-> mem[r][i]]]
  /\ stage'   = [stage EXCEPT ![r] = "combine"]
  /\ arrived' = [arrived EXCEPT ![r] = @ + AppArrivals]
  /\ UNCHANGED <<route, call, prefix, head, todo, wire, mem, out>>

-----------------------------------------------------------------------------
(* The combine *)

(* combine_send's search: the source whose segment of r's rows holds i. *)
SourceOf(r, i) ==
  CHOOSE s \in Rank : /\ i < prefix[r][<<s, r>>]
                      /\ \A q \in 0 .. s - 1 : i >= prefix[r][<<q, r>>]

(* Variant: the sum stops one rank early. *)
CombineBaseShort(r, s) ==
  SumFunctionOnSet([d \in Rank |-> CountIn(prefix[r], s, d)], 0 .. r - 2)

(* The slot where r's contributions begin in the region of s: behind those *)
(* of the ranks before r.                                                  *)
CombineBase(r, s) ==
  SumFunctionOnSet([d \in Rank |-> CountIn(prefix[r], s, d)], 0 .. r - 1)

(* Variant: clear_src_idx_buffer is left out. *)
ClearedKept(region) == region

(* clear_src_idx_buffer. *)
Cleared(region) == [i \in Slot |-> [region[i] EXCEPT !.idx = -1]]

(* intranode_combine's check; init_output, the two clearing kernels and    *)
(* the launch of combine_send, one thread a row.                           *)
StartCombine(r) ==
  /\ stage[r] = "combine"
  /\ Met(r)
  /\ \/ /\ HostAccepts(Cardinality(TokensOf(r)))
        /\ out'   = [out EXCEPT ![r] = [t \in TokensOf(r) |-> {}]]
        /\ head'  = [head EXCEPT ![r] = [q \in Rank |-> 0]]
        /\ mem'   = [mem EXCEPT ![r] = Cleared(@)]
        /\ todo'  = [todo EXCEPT ![r] =
                       {<<i, SourceOf(r, i)>> : i \in 0 .. NumRecv(r) - 1}]
        /\ stage' = [stage EXCEPT ![r] =
                       IF NumRecv(r) = 0 THEN "thrown" ELSE "return"]
     \/ /\ ~HostAccepts(Cardinality(TokensOf(r)))
        /\ stage' = [stage EXCEPT ![r] = "thrown"]
        /\ UNCHANGED <<out, head, mem, todo>>
  /\ UNCHANGED <<route, call, arrived, prefix, wire, recv>>

(* combine_send: the thread of row p[1], which goes back to rank p[2]. *)
CombineSend(r, p) ==
  /\ stage[r] = "return"
  /\ p \in todo[r]
  /\ PutRow(r, p, CombineBase(r, p[2]),
            [by |-> r, of |-> recv[r][p[1]].of, idx |-> recv[r][p[1]].idx])

(* Variant: the slot filter of combine_reduce lets one index too many in. *)
ReducePast(r) ==
  /\ stage[r] = "reduce"
  /\ Met(r)
  /\ out' = [out EXCEPT ![r] = [t \in 0 .. Cardinality(TokensOf(r)) |->
               {<<i, mem[r][i]>> : i \in {j \in Slot : mem[r][j].idx = t}}]]
  /\ stage'   = [stage EXCEPT ![r] =
                   IF call[r] < Len(Calls) THEN "dispatch" ELSE "done"]
  /\ call'    = [call EXCEPT ![r] = @ + 1]
  /\ arrived' = [arrived EXCEPT ![r] = @ + AppArrivals]
  /\ UNCHANGED <<route, prefix, head, todo, wire, mem, recv>>

(* combine_reduce: each slot that holds a row is added to its token. *)
Reduce(r) ==
  /\ stage[r] = "reduce"
  /\ Met(r)
  /\ out' = [out EXCEPT ![r] = [t \in TokensOf(r) |->
               {<<i, mem[r][i]>> : i \in {j \in Slot : mem[r][j].idx = t}}]]
  /\ stage'   = [stage EXCEPT ![r] =
                   IF call[r] < Len(Calls) THEN "dispatch" ELSE "done"]
  /\ call'    = [call EXCEPT ![r] = IF @ < Len(Calls) THEN @ + 1 ELSE @]
  /\ arrived' = [arrived EXCEPT ![r] = @ + AppArrivals]
  /\ UNCHANGED <<route, prefix, head, todo, wire, mem, recv>>

RankStep(r) ==
  \/ Notify(r) \/ Gather(r) \/ StartCached(r)
  \/ \E p \in todo[r] : DispatchSend(r, p) \/ CombineSend(r, p)
  \/ EnterBarrier(r)
  \/ CopyLocal(r)
  \/ StartCombine(r)
  \/ Reduce(r)

Next ==
  \/ \E r \in Rank : RankStep(r)
  \/ \E put \in wire : Deliver(put)

Spec == Init /\ [][Next]_vars

(* A stream runs its kernels and NVSHMEM completes the puts. *)
FairSpec ==
  /\ Spec
  /\ \A r \in Rank : WF_vars(RankStep(r))
  /\ WF_vars(\E put \in wire : Deliver(put))

-----------------------------------------------------------------------------
(* The state stays in its types: no put goes beyond a region, no head      *)
(* counts more than the rows there are.                                    *)
TypeOK ==
  /\ route   \in Routes
  /\ call    \in [Rank -> DOMAIN Calls]
  /\ stage   \in [Rank -> Stages]
  /\ arrived \in [Rank -> Nat]
  /\ prefix  \in [Rank -> [Cell -> Nat]]
  /\ head    \in [Rank -> [Rank -> 0 .. NumRanks * NumTokens]]
  /\ todo    \in [Rank -> SUBSET (Nat \X Rank)]
  /\ wire    \subseteq [from : Rank, to : Rank, slot : Slot, row : Row]
  /\ mem     \in [Rank -> [Slot -> Row]]
  /\ \A r \in Rank : \A i \in DOMAIN recv[r] : recv[r][i] \in Row
  /\ DOMAIN out = Rank
  /\ \A r \in Rank : out[r] \in [TokensOf(r) -> SUBSET (Slot \X Row)]

(* dispatch_copy_local: once r has copied, its rows are exactly the tokens *)
(* routed to it, sorted by source: the segment the prefix matrix gives a   *)
(* source holds each of its tokens for r, with its index, once.            *)
RowsReceived ==
  \A r \in Rank : stage[r] \in {"combine", "return", "reduce"} =>
    LET begin(s) == IF s = 0 THEN 0 ELSE prefix[r][<<s - 1, r>>]
        segment(s) == begin(s) .. prefix[r][<<s, r>>] - 1
        due(s) == {t \in TokensOf(s) : r \in route[s][t]}
    IN  \A s \in Rank :
          /\ {recv[r][i] : i \in segment(s)}
                = {[by |-> s, of |-> <<s, t>>, idx |-> t] : t \in due(s)}
          /\ Cardinality(segment(s)) = Cardinality(due(s))

Combined(r) ==
  \/ stage[r] = "done"
  \/ call[r] > 1 /\ stage[r] \in {"dispatch", "gather", "send", "copy", "combine"}

Contribution(e, r, t) == [by |-> e, of |-> <<r, t>>, idx |-> t]

(* combine_reduce: whatever was added to a token was computed from that    *)
(* token by a rank it was dispatched to, and from each rank at most once:  *)
(* no row of another token, of the dispatch or of the call before.         *)
CombinedGenuine ==
  \A r \in Rank : Combined(r) =>
    \A t \in TokensOf(r) : \A c \in out[r][t] :
      /\ \E e \in route[r][t] : c[2] = Contribution(e, r, t)
      /\ \A b \in out[r][t] : b[2] = c[2] => b = c

(* The functional test's comparison of combined_x with x: no rank's        *)
(* contribution is missing either.                                         *)
CombinedOnce ==
  \A r \in Rank : Combined(r) =>
    \A t \in TokensOf(r) : \A e \in route[r][t] :
      \E c \in out[r][t] : c[2] = Contribution(e, r, t)

(* dispatch_send and combine_send: no two puts under way, and no put and a *)
(* row that a third rank's put of the same phase left there, share a slot. *)
PutsApart ==
  \A p, q \in wire : p.to = q.to /\ p.slot = q.slot => p = q

(* intranode_dispatch's check: a rank that has passed it has a slot for    *)
(* every row the others still have to send it, so dispatch_send's own      *)
(* bound check drops rows only of ranks whose host has thrown.             *)
DispatchFits ==
  \A r \in Rank : stage[r] = "send" =>
    \A p \in todo[r] : stage[p[2]] \in {"send", "copy"} =>
      DispatchBase(r, p[2]) + head[r][p[2]] < Capacity

(* The streams' barriers: every rank returns from every call, unless the   *)
(* host of one of them has thrown and left the others waiting.             *)
CallsComplete ==
  <>(\/ \A r \in Rank : stage[r] = "done"
     \/ \E r \in Rank : stage[r] = "thrown")
=============================================================================
