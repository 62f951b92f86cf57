------------------------------ MODULE LowLatency -------------------------------
(***************************************************************************)
(* The low-latency kernels (csrc/kernels/internode_ll.cu): dispatch,       *)
(* combine and clean_low_latency_buffer, with the host's choice between    *)
(* the two buffers (csrc/deep_ep.cpp).  The ranks meet in no barrier.  A   *)
(* call of either kind uses one buffer and zeroes the signalling words of  *)
(* the other, for the next call, before it sends anything its peers wait   *)
(* for.                                                                    *)
(*                                                                         *)
(* A rank reaches a peer over NVLink, by plain stores, or over RDMA: the   *)
(* network reads a row from the send buffer when it gets to it, and keeps  *)
(* the order of one queue pair only.  In shrink mode a rank masks a peer   *)
(* that does not answer; timeouts without shrink mode trap, and are left   *)
(* out.  An application calls a receive hook before its next call.         *)
(***************************************************************************)
EXTENDS Integers, Sequences, FiniteSets

CONSTANTS
  NumRanks,
  MaxTokens,        \* num_max_dispatch_tokens_per_rank
  Tag,              \* FINISHED_SUM_TAG
  Runs              \* what the ranks do: see the type of run below

Rank == 0 .. NumRanks - 1
Row  == 0 .. NumRanks * MaxTokens - 1

ASSUME SizesAssumption ==
  NumRanks \in Nat \ {0} /\ MaxTokens \in Nat \ {0} /\ Tag \in Nat \ {0}

(***************************************************************************)
(* A run has: locals, the experts of a rank; calls, made by every rank in  *)
(* this order: a dispatch has the experts each token of each rank goes to, *)
(* a combine the number of the dispatch whose handle it takes; nvlink, the *)
(* pairs of ranks that share NVLink; shrink, whether there are a mask and  *)
(* a sync buffer; mortal, the ranks that may die.                          *)
(***************************************************************************)
ASSUME RunsAssumption ==
  \A s \in Runs :
    /\ s.locals \in Nat \ {0}
    /\ Len(s.calls) \in Nat /\ DOMAIN s.calls = 1 .. Len(s.calls)
    /\ \A n \in DOMAIN s.calls :
         \/ /\ s.calls[n].kind = "dispatch"
            /\ \A r \in Rank : \E k \in 0 .. MaxTokens :
                 s.calls[n].to[r] \in [0 .. k - 1 -> SUBSET (0 .. NumRanks * s.locals - 1)]
         \/ /\ s.calls[n].kind = "combine"
            /\ s.calls[n].of \in 1 .. n - 1
            /\ s.calls[s.calls[n].of].kind = "dispatch"
         \/ s.calls[n].kind = "clean"
    /\ s.nvlink \subseteq Rank \X Rank
    /\ s.shrink \in BOOLEAN
    /\ s.mortal \subseteq Rank
    /\ s.mortal # {} => s.shrink

VARIABLES
  run, dead,
  kernel,    \* what a rank's stream is doing, and its low_latency_buffer_idx
  counter,   \* the workspace: atomic_counter_per_expert; word 0 is combine's
             \* atomic_clean_flag too
  word,      \* the signalling words of both buffers: counts, then flags
  region,    \* the receive buffers: pairs of a place and what is there
  staged,    \* the send buffers, likewise
  sync,      \* sync_buffer
  mask,      \* mask_buffer: the ranks masked
  wire,      \* per queue pair, what RDMA has still to carry out
  packed,    \* packed_recv_count
  layout,    \* per call and <<local expert, source>>: packed_recv_layout_range
  rows,      \* per call: packed_recv_x and packed_recv_src_info
  out        \* per call: what combined_x is summed from

memory  == <<word, region, wire>>
outputs == <<layout, rows, out>>
vars    == <<run, dead, kernel, counter, memory, staged, sync, mask, packed, outputs>>

NumLocalExperts == run.locals
Local  == 0 .. NumLocalExperts - 1
Expert == 0 .. NumRanks * NumLocalExperts - 1

Owner(e)         == e \div NumLocalExperts
LocalOf(e)       == e % NumLocalExperts
GlobalOf(r, le)  == r * NumLocalExperts + le
CountWord(le, s) == le * NumRanks + s

Call(r)  == run.calls[kernel[r].call]
KindOf(n) == IF n > Len(run.calls) THEN "none" ELSE run.calls[n].kind
In(r, kind) == r \notin dead /\ KindOf(kernel[r].call) = kind
To(n, s) == run.calls[n].to[s]
TokensFor(n, s, e) == {t \in DOMAIN To(n, s) : e \in To(n, s)[t]}

(* low_latency_buffer_idx is toggled at the call: it names the next buffer. *)
NextBuf(r) == kernel[r].idx
Buf(r)     == 1 - kernel[r].idx

NVLink(r, d)   == r = d \/ <<r, d>> \in run.nvlink
Masked(r, d)   == d \in mask[r]
(* nvshmemi_ibgda_quiet on all queue pairs to d. *)
Quiet(r, d)    == \A q \in Local : wire[r][d][q] = <<>>

-----------------------------------------------------------------------------
(* Memory *)

(* The layouts of dispatch and combine rows overlap: a row of one kind is  *)
(* taken to destroy all rows of the other.                                 *)
Overlay(mem, place, row) ==
  {p \in mem : p[1][1] = place[1] /\ p[1] # place} \cup {<<place, row>>}

Garbage == <<>>
At(mem, place) ==
  IF \E p \in mem : p[1] = place THEN (CHOOSE p \in mem : p[1] = place)[2] ELSE Garbage

Stage(r, from, row) == [staged EXCEPT ![r][Buf(r)] = Overlay(@, from, row)]

(* A row goes to its place in d's receive buffer, by RDMA from the send     *)
(* buffer.                                                                  *)
PutRow(r, d, qp, place, from, row) ==
  LET b == Buf(r) IN
  \/ /\ Masked(r, d)
     /\ UNCHANGED memory
  \/ /\ ~Masked(r, d) /\ NVLink(r, d)
     /\ region' = [region EXCEPT ![d][b] = Overlay(@, place, row)]
     /\ UNCHANGED <<word, wire>>
  \/ /\ ~Masked(r, d) /\ ~NVLink(r, d)
     /\ wire' = [wire EXCEPT ![r][d][qp] =
          Append(@, [kind |-> "row", buf |-> b, place |-> place, from |-> from])]
     /\ UNCHANGED <<word, region>>

(* A count or flag is stored over NVLink, but added over RDMA. *)
Signal(r, d, qp, i, v) ==
  LET b == Buf(r) IN
  \/ /\ Masked(r, d)
     /\ UNCHANGED memory
  \/ /\ ~Masked(r, d) /\ NVLink(r, d)
     /\ word' = [word EXCEPT ![d][b][i] = v]
     /\ UNCHANGED <<region, wire>>
  \/ /\ ~Masked(r, d) /\ ~NVLink(r, d)
     /\ wire' = [wire EXCEPT ![r][d][qp] =
          Append(@, [kind |-> "add", buf |-> b, word |-> i, value |-> v])]
     /\ UNCHANGED <<word, region>>

(* The network carries out what is first on a queue pair. *)
Deliver(r, d, qp) ==
  /\ wire[r][d][qp] # <<>>
  /\ wire' = [wire EXCEPT ![r][d][qp] = Tail(@)]
  /\ LET m == Head(wire[r][d][qp]) IN
       \/ /\ m.kind = "row"
          /\ region' = [region EXCEPT ![d][m.buf] =
               Overlay(@, m.place, At(staged[r][m.buf], m.from))]
          /\ UNCHANGED <<word, sync>>
       \/ /\ m.kind = "add"
          /\ word' = [word EXCEPT ![d][m.buf][m.word] = @ + m.value]
          /\ UNCHANGED <<region, sync>>
       \/ /\ m.kind = "sync"
          /\ sync' = [sync EXCEPT ![d][r] = m.value]
          /\ UNCHANGED <<word, region>>
  /\ UNCHANGED <<run, dead, kernel, counter, staged, mask, packed, outputs>>

-----------------------------------------------------------------------------
(* Calls *)

Covers(range, p) == range.begin <= p /\ p < range.begin + range.num

(***************************************************************************)
(* The state of rank r's stream when it begins call n; idx was             *)
(* low_latency_buffer_idx before.  The block of an expert counts its       *)
(* tokens before any of its threads can wait for them, so Tag less that    *)
(* count is there from the start.  A combine sends back the rows of its    *)
(* handle.                                                                 *)
(***************************************************************************)
Launched(r, n, idx) ==
  LET h == run.calls[n].of
      base == [call |-> n, idx |-> 1 - idx, cleaned |-> FALSE, todo |-> {},
               finish |-> [e \in Expert |-> 0],
               step   |-> [e \in Expert |-> "send"],
               round  |-> 1, met |-> [q \in Rank |-> "enter"]]
  IN  CASE KindOf(n) = "dispatch" ->
             [base EXCEPT
                !.todo = {x \in (DOMAIN To(n, r)) \X Expert : x[2] \in To(n, r)[x[1]]},
                !.finish = [e \in Expert |-> Tag - Cardinality(TokensFor(n, r, e))]]
        [] KindOf(n) = "combine" ->
             [base EXCEPT !.todo =
                {x \in Local \X Rank \X Row : Covers(layout[r][h][<<x[1], x[2]>>], x[3])}]
        [] OTHER -> [base EXCEPT !.idx = idx]

(* Variant: the words of this call's buffer are zeroed. *)
CleanThis(r) ==
  /\ In(r, "dispatch") \/ In(r, "combine")
  /\ ~kernel[r].cleaned
  /\ word' = [word EXCEPT ![r][Buf(r)] = [i \in Expert |-> 0]]
  /\ \/ /\ In(r, "dispatch")
        /\ kernel' = [kernel EXCEPT ![r].cleaned = TRUE,
             ![r].finish = [e \in Expert |-> @[e] + Tag]]
        /\ UNCHANGED counter
     \/ /\ In(r, "combine")
        /\ kernel' = [kernel EXCEPT ![r].cleaned = TRUE]
        /\ counter' = [counter EXCEPT ![r][0] = @ + Cardinality(Expert)]
  /\ UNCHANGED <<run, dead, region, wire, staged, sync, mask, packed, outputs>>

(* The words of the next buffer are zeroed; only then do the senders of     *)
(* counts and flags get what they wait for.                                 *)
CleanNext(r) ==
  /\ In(r, "dispatch") \/ In(r, "combine")
  /\ ~kernel[r].cleaned
  /\ word' = [word EXCEPT ![r][NextBuf(r)] = [i \in Expert |-> 0]]
  /\ \/ /\ In(r, "dispatch")
        /\ kernel' = [kernel EXCEPT ![r].cleaned = TRUE,
             ![r].finish = [e \in Expert |-> @[e] + Tag]]
        /\ UNCHANGED counter
     \/ /\ In(r, "combine")
        /\ kernel' = [kernel EXCEPT ![r].cleaned = TRUE]
        /\ counter' = [counter EXCEPT ![r][0] = @ + Cardinality(Expert)]
  /\ UNCHANGED <<run, dead, region, wire, staged, sync, mask, packed, outputs>>

(* The next call starts when this one's kernel has returned. *)
Return(r) == kernel' = [kernel EXCEPT ![r] = Launched(r, @.call + 1, @.idx)]

-----------------------------------------------------------------------------
(* Dispatch *)

(* A warp claims a slot for its token at expert e and sends the row. *)
SendToken(r, t, e) ==
  /\ In(r, "dispatch")
  /\ <<t, e>> \in kernel[r].todo
  /\ PutRow(r, Owner(e), LocalOf(e),
            <<"dispatch", LocalOf(e), r, counter[r][e]>>,
            <<"dispatch", t>>, <<kernel[r].call, r, t>>)
  /\ staged' = Stage(r, <<"dispatch", t>>, <<kernel[r].call, r, t>>)
  /\ counter' = [counter EXCEPT ![r][e] = @ + 1]
  /\ kernel' = [kernel EXCEPT ![r].todo = @ \ {<<t, e>>}, ![r].finish[e] = @ + 1]
  /\ UNCHANGED <<run, dead, sync, mask, packed, outputs>>

(* Variant: the workspace is left for the next dispatch to reset. *)
SendCountNoReset(r, e) ==
  /\ In(r, "dispatch")
  /\ kernel[r].step[e] = "send"
  /\ kernel[r].finish[e] = 2 * Tag
  /\ Signal(r, Owner(e), LocalOf(e), CountWord(LocalOf(e), r),
            -Cardinality(TokensFor(kernel[r].call, r, e)) - 1)
  /\ packed' = IF Owner(e) = 0 THEN [packed EXCEPT ![r][LocalOf(e)] = 0] ELSE packed
  /\ kernel' = [kernel EXCEPT ![r].step[e] = "sent", ![r].finish[e] = 0]
  /\ UNCHANGED <<run, dead, counter, staged, sync, mask, outputs>>

(* Variant: the count waits for the cleaning but not for the tokens. *)
SendCountAhead(r, e) ==
  /\ In(r, "dispatch")
  /\ kernel[r].step[e] = "send"
  /\ kernel[r].cleaned
  /\ Signal(r, Owner(e), LocalOf(e), CountWord(LocalOf(e), r),
            -Cardinality(TokensFor(kernel[r].call, r, e)) - 1)
  /\ packed' = IF Owner(e) = 0 THEN [packed EXCEPT ![r][LocalOf(e)] = 0] ELSE packed
  /\ kernel' = [kernel EXCEPT ![r].step[e] = "sent"]
  /\ UNCHANGED <<run, dead, counter, staged, sync, mask, outputs>>

(* When the finish counter is complete, the count goes out, as -n - 1 so    *)
(* that it is never 0, and the workspace is reset.                          *)
SendCount(r, e) ==
  /\ In(r, "dispatch")
  /\ kernel[r].step[e] = "send"
  /\ kernel[r].finish[e] = 2 * Tag
  /\ Signal(r, Owner(e), LocalOf(e), CountWord(LocalOf(e), r),
            -Cardinality(TokensFor(kernel[r].call, r, e)) - 1)
  /\ counter' = [counter EXCEPT ![r][e] = 0]
  /\ packed' = IF Owner(e) = 0 THEN [packed EXCEPT ![r][LocalOf(e)] = 0] ELSE packed
  /\ kernel' = [kernel EXCEPT ![r].step[e] = "sent", ![r].finish[e] = 0]
  /\ UNCHANGED <<run, dead, staged, sync, mask, outputs>>

(* cooperative_groups' grid sync, or the end of the sending kernel. *)
AllSent(r) == \A e \in Expert : kernel[r].step[e] # "send"

(* Space for n rows is claimed, and the range noted. *)
Take(r, e, n) ==
  /\ layout' = [layout EXCEPT ![r][kernel[r].call][<<LocalOf(e), Owner(e)>>] =
                  [begin |-> packed[r][LocalOf(e)], num |-> n]]
  /\ packed' = [packed EXCEPT ![r][LocalOf(e)] = @ + n]
  /\ kernel' = [kernel EXCEPT ![r].step[e] = "taken"]

Receiving(r, e) == /\ In(r, "dispatch") /\ AllSent(r)
                   /\ kernel[r].step[e] = "sent"

Arrived(r, e) == word[r][Buf(r)][CountWord(LocalOf(e), Owner(e))]

(* The group of threads with index e receives from the rank that owns e. *)
TakeCount(r, e) ==
  /\ Receiving(r, e)
  /\ \/ /\ ~Masked(r, Owner(e)) /\ Arrived(r, e) # 0
        /\ Take(r, e, -Arrived(r, e) - 1)
     \/ /\ Masked(r, Owner(e))
        /\ Take(r, e, 0)
  /\ UNCHANGED <<run, dead, counter, memory, staged, sync, mask, rows, out>>

(* What the timeouts are for: nothing of the peer is left on the network,   *)
(* and it is dead, or has itself masked r.  Any other peer is taken to      *)
(* answer in time.                                                          *)
GivenUp(r, q) == /\ run.shrink /\ ~Masked(r, q)
                 /\ q \in dead \/ Masked(q, r)
                 /\ Quiet(q, r)

TakeTimeout(r, e) ==
  /\ Receiving(r, e)
  /\ GivenUp(r, Owner(e)) /\ Arrived(r, e) = 0
  /\ mask' = [mask EXCEPT ![r] = @ \cup {Owner(e)}]
  /\ Take(r, e, 0)
  /\ UNCHANGED <<run, dead, counter, memory, staged, sync, rows, out>>

(* The rows are copied out.  The last group ends the kernel. *)
CopyRows(r, e) ==
  /\ In(r, "dispatch")
  /\ kernel[r].step[e] = "taken"
  /\ LET range == layout[r][kernel[r].call][<<LocalOf(e), Owner(e)>>] IN
       rows' = [rows EXCEPT ![r][kernel[r].call] = @ \cup
         {<<<<LocalOf(e), range.begin + i>>,
            At(region[r][Buf(r)], <<"dispatch", LocalOf(e), Owner(e), i>>)>> :
               i \in 0 .. range.num - 1}]
  /\ IF \A x \in Expert \ {e} : kernel[r].step[x] = "done"
     THEN Return(r)
     ELSE kernel' = [kernel EXCEPT ![r].step[e] = "done"]
  /\ UNCHANGED <<run, dead, counter, memory, staged, sync, mask, packed, layout, out>>

-----------------------------------------------------------------------------
(* Combine *)

(* The result of local expert le for its row p goes back to rank d, to the  *)
(* place of the token it came from.                                         *)
SendRow(r, le, d, p) ==
  /\ In(r, "combine")
  /\ <<le, d, p>> \in kernel[r].todo
  /\ LET row    == At(rows[r][Call(r).of], <<le, p>>)
         result == <<kernel[r].call, GlobalOf(r, le), row>>
     IN  /\ PutRow(r, d, le, <<"combine", GlobalOf(r, le), row[3]>>,
                   <<"combine", le, p>>, result)
         /\ staged' = IF Masked(r, d) \/ NVLink(r, d) THEN staged
                      ELSE Stage(r, <<"combine", le, p>>, result)
  /\ kernel' = [kernel EXCEPT ![r].todo = @ \ {<<le, d, p>>}]
  /\ UNCHANGED <<run, dead, counter, sync, mask, packed, outputs>>

(* Variant: the flag does not wait for the group's other warps. *)
SendFlagEarly(r, e) ==
  /\ In(r, "combine")
  /\ kernel[r].step[e] = "send"
  /\ counter[r][0] # 0
  /\ Signal(r, Owner(e), LocalOf(e), GlobalOf(r, LocalOf(e)), 1)
  /\ counter' = [counter EXCEPT ![r][0] = @ - 1]
  /\ kernel' = [kernel EXCEPT ![r].step[e] = "sent"]
  /\ UNCHANGED <<run, dead, staged, sync, mask, packed, outputs>>

(* The group with index e flags that local expert LocalOf(e) has sent all   *)
(* rows that go to the owner of e.                                          *)
SendFlag(r, e) ==
  /\ In(r, "combine")
  /\ kernel[r].step[e] = "send"
  /\ \A x \in kernel[r].todo : <<x[1], x[2]>> # <<LocalOf(e), Owner(e)>>
  /\ counter[r][0] # 0
  /\ Signal(r, Owner(e), LocalOf(e), GlobalOf(r, LocalOf(e)), 1)
  /\ counter' = [counter EXCEPT ![r][0] = @ - 1]
  /\ kernel' = [kernel EXCEPT ![r].step[e] = "sent"]
  /\ UNCHANGED <<run, dead, staged, sync, mask, packed, outputs>>

(* The same group waits for the flag of expert e. *)
AwaitFlag(r, e) ==
  /\ In(r, "combine")
  /\ kernel[r].step[e] = "sent"
  /\ Masked(r, Owner(e)) \/ word[r][Buf(r)][e] # 0
  /\ kernel' = [kernel EXCEPT ![r].step[e] = "taken"]
  /\ UNCHANGED <<run, dead, counter, memory, staged, sync, mask, packed, outputs>>

FlagTimeout(r, e) ==
  /\ In(r, "combine")
  /\ kernel[r].step[e] = "sent"
  /\ GivenUp(r, Owner(e)) /\ word[r][Buf(r)][e] = 0
  /\ mask' = [mask EXCEPT ![r] = @ \cup {Owner(e)}]
  /\ kernel' = [kernel EXCEPT ![r].step[e] = "taken"]
  /\ UNCHANGED <<run, dead, counter, memory, staged, sync, packed, outputs>>

(* After the grid sync each token sums what its experts sent. *)
Reduce(r) ==
  /\ In(r, "combine")
  /\ \A e \in Expert : kernel[r].step[e] = "taken"
  /\ LET to == To(Call(r).of, r) IN
       out' = [out EXCEPT ![r][kernel[r].call] =
         [t \in DOMAIN to |-> {<<e, At(region[r][Buf(r)], <<"combine", e, t>>)>> :
                                 e \in {x \in to[t] : ~Masked(r, Owner(x))}}]]
  /\ Return(r)
  /\ UNCHANGED <<run, dead, counter, memory, staged, sync, mask, packed, layout, rows>>

-----------------------------------------------------------------------------
(* clean_low_latency_buffer: a barrier, the words of both buffers, a        *)
(* barrier.                                                                 *)

(* Both barriers wait for the rank's own puts, then count its arrival. *)
EnterBarrier(r) ==
  /\ In(r, "clean")
  /\ \A q \in Rank : kernel[r].met[q] = "enter" /\ Quiet(r, q)
  /\ sync' = [sync EXCEPT ![r][r] = @ - 1]
  /\ kernel' = [kernel EXCEPT ![r].met = [q \in Rank |-> IF q = r THEN "met" ELSE "tell"]]
  /\ UNCHANGED <<run, dead, counter, memory, staged, mask, packed, outputs>>

(* The barrier of shrink mode: the thread for peer q tells it the count and *)
(* waits until q's is the same.                                             *)
TellPeer(r, q) ==
  /\ In(r, "clean") /\ run.shrink
  /\ kernel[r].met[q] = "tell"
  /\ \/ /\ Masked(r, q)
        /\ kernel' = [kernel EXCEPT ![r].met[q] = "met"]
        /\ UNCHANGED <<sync, wire>>
     \/ /\ ~Masked(r, q) /\ NVLink(r, q)
        /\ sync' = [sync EXCEPT ![q][r] = sync[r][r]]
        /\ kernel' = [kernel EXCEPT ![r].met[q] = "wait"]
        /\ UNCHANGED wire
     \/ /\ ~Masked(r, q) /\ ~NVLink(r, q)
        /\ wire' = [wire EXCEPT ![r][q][0] = Append(@, [kind |-> "sync", value |-> sync[r][r]])]
        /\ kernel' = [kernel EXCEPT ![r].met[q] = "wait"]
        /\ UNCHANGED sync
  /\ UNCHANGED <<run, dead, counter, word, region, staged, mask, packed, outputs>>

HeardPeer(r, q) ==
  /\ In(r, "clean") /\ run.shrink
  /\ kernel[r].met[q] = "wait"
  /\ sync[r][q] = sync[r][r]
  /\ kernel' = [kernel EXCEPT ![r].met[q] = "met"]
  /\ UNCHANGED <<run, dead, counter, memory, staged, sync, mask, packed, outputs>>

(* The timeout when the count can come no more: its sender has given up, or *)
(* has overwritten it with the next.                                        *)
PeerTimeout(r, q) ==
  /\ In(r, "clean") /\ run.shrink
  /\ kernel[r].met[q] = "wait"
  /\ \/ GivenUp(r, q) /\ sync[r][q] # sync[r][r]
     \/ sync[r][q] < sync[r][r]
  /\ mask' = [mask EXCEPT ![r] = @ \cup {q}]
  /\ kernel' = [kernel EXCEPT ![r].met[q] = "met"]
  /\ UNCHANGED <<run, dead, counter, memory, staged, sync, packed, outputs>>

(* Without a sync buffer it is NVSHMEM's barrier. *)
NvshmemBarrier(r) ==
  /\ In(r, "clean") /\ ~run.shrink
  /\ \E q \in Rank : kernel[r].met[q] = "tell"
  /\ \A q \in Rank : sync[q][q] <= sync[r][r]
  /\ kernel' = [kernel EXCEPT ![r].met = [q \in Rank |-> "met"]]
  /\ UNCHANGED <<run, dead, counter, memory, staged, sync, mask, packed, outputs>>

AfterBarrier(r) ==
  /\ In(r, "clean")
  /\ \A q \in Rank : kernel[r].met[q] = "met"
  /\ \/ /\ kernel[r].round = 1
        /\ word' = [word EXCEPT ![r] = [b \in {0, 1} |-> [i \in Expert |-> 0]]]
        /\ kernel' = [kernel EXCEPT ![r].round = 2, ![r].met = [q \in Rank |-> "enter"]]
     \/ /\ kernel[r].round = 2
        /\ Return(r)
        /\ UNCHANGED word
  /\ UNCHANGED <<run, dead, counter, region, wire, staged, sync, mask, packed, outputs>>

-----------------------------------------------------------------------------
(* A rank dies, and what it had sent may be lost. *)
Die(r) ==
  /\ r \in run.mortal \ dead
  /\ dead = {}
  /\ dead' = {r}
  /\ \E lost \in SUBSET Rank :
       wire' = [wire EXCEPT ![r] = [d \in Rank |-> [q \in Local |->
                  IF d \in lost THEN <<>> ELSE @[d][q]]]]
  /\ UNCHANGED <<run, kernel, counter, word, region, staged, sync, mask, packed, outputs>>

Init ==
  /\ run \in Runs
  /\ dead = {}
  /\ layout  = [r \in Rank |-> [n \in DOMAIN run.calls |->
                  [x \in Local \X Rank |-> [begin |-> 0, num |-> 0]]]]
  /\ rows    = [r \in Rank |-> [n \in DOMAIN run.calls |-> {}]]
  /\ out     = [r \in Rank |-> [n \in DOMAIN run.calls |-> <<>>]]
  /\ kernel  = [r \in Rank |-> Launched(r, 1, 0)]
  /\ counter = [r \in Rank |-> [e \in Expert |-> 0]]
  /\ word    = [r \in Rank |-> [b \in {0, 1} |-> [i \in Expert |-> 0]]]
  /\ region  = [r \in Rank |-> [b \in {0, 1} |-> {}]]
  /\ staged  = [r \in Rank |-> [b \in {0, 1} |-> {}]]
  /\ sync    = [r \in Rank |-> [q \in Rank |-> 0]]
  /\ mask    = [r \in Rank |-> {}]
  /\ wire    = [r \in Rank |-> [d \in Rank |-> [q \in Local |-> <<>>]]]
  /\ packed  = [r \in Rank |-> [le \in Local |-> 0]]

RankStep(r) ==
  \/ CleanNext(r)
  \/ \E x \in kernel[r].todo : SendToken(r, x[1], x[2])
  \/ \E e \in Expert : SendCount(r, e) \/ TakeCount(r, e) \/ TakeTimeout(r, e) \/ CopyRows(r, e)
  \/ \E x \in kernel[r].todo : SendRow(r, x[1], x[2], x[3])
  \/ \E e \in Expert : SendFlag(r, e) \/ AwaitFlag(r, e) \/ FlagTimeout(r, e)
  \/ Reduce(r)
  \/ EnterBarrier(r) \/ NvshmemBarrier(r) \/ AfterBarrier(r)
  \/ \E q \in Rank : TellPeer(r, q) \/ HeardPeer(r, q) \/ PeerTimeout(r, q)

Network == \E r, d \in Rank, qp \in Local : Deliver(r, d, qp)

Progress == Network \/ \E r \in Rank : RankStep(r)

Next == Progress \/ \E r \in Rank : Die(r)

Spec == Init /\ [][Next]_vars

(* Blocks are resident and the network carries out what is posted.  No     *)
(* rank can run on for ever, so it is enough that something does run.      *)
FairSpec == Spec /\ WF_vars(Progress)
-----------------------------------------------------------------------------
Places ==
  ({"dispatch"} \X Local \X Rank \X (0 .. MaxTokens - 1))
  \cup ({"combine"} \X Expert \X (0 .. MaxTokens - 1))

(* The state stays in its types: no row leaves its expert's part of a       *)
(* buffer, no count runs past the tokens there are, and the workspace ends  *)
(* every kernel as it began, zero.                                          *)
TypeOK ==
  /\ \A r \in Rank : kernel[r].call \in 1 .. Len(run.calls) + 1
  /\ \A r \in Rank : counter[r] \in [Expert -> 0 .. MaxTokens + Cardinality(Expert)]
  /\ \A r \in Rank : kernel[r].finish \in [Expert -> {0} \cup (Tag - MaxTokens .. 2 * Tag)]
  /\ \A r \in Rank : \A b \in {0, 1} : \A p \in region[r][b] : p[1] \in Places
  /\ \A r \in Rank : packed[r] \in [Local -> 0 .. NumRanks * MaxTokens]
  /\ \A r \in Rank : AllSent(r) => \A e \in Expert : counter[r][e] = 0

Returned(r, n) == kernel[r].call > n

(* What dispatch n of rank s has for local expert le of rank r. *)
Due(n, s, r, le) == {<<n, s, t>> : t \in TokensFor(n, s, GlobalOf(r, le))}

(* dispatch: the rows of a source's range are its tokens of this very call,*)
(* each once, whatever the buffer held before and however far the peers    *)
(* are ahead; a source is left out only if it died.                        *)
RowsReceived ==
  \A r \in Rank : \A n \in DOMAIN run.calls :
    run.calls[n].kind = "dispatch" /\ Returned(r, n) =>
      \A le \in Local : \A s \in Rank :
        LET range == layout[r][n][<<le, s>>]
            got   == {p \in rows[r][n] : p[1][1] = le /\ Covers(range, p[1][2])}
        IN  \/ /\ {p[2] : p \in got} = Due(n, s, r, le)
               /\ Cardinality(got) = Cardinality(Due(n, s, r, le))
               /\ range.num = Cardinality(got)
            \/ s \in dead /\ range.num = 0

(* combine: a token sums one result of each of its experts, computed from  *)
(* this token in this very call; only what a dead rank owes is missing.    *)
CombinedOwn ==
  \A r \in Rank : \A n \in DOMAIN run.calls :
    run.calls[n].kind = "combine" /\ Returned(r, n) =>
      LET h == run.calls[n].of
          own(t, e) == <<e, <<n, e, <<h, r, t>>>>>>
      IN  \A t \in DOMAIN To(h, r) :
            /\ out[r][n][t] \subseteq {own(t, e) : e \in To(h, r)[t]}
            /\ \A e \in To(h, r)[t] : Owner(e) \notin dead => own(t, e) \in out[r][n][t]

(* A rank that lives returns from every call: no count, flag or arrival it *)
(* waits for is erased before it looks.                                    *)
CallsReturn == <>(\A r \in Rank : r \in dead \/ KindOf(kernel[r].call) = "none")
=============================================================================
