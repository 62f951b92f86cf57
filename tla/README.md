# DeepEP-Universal in TLA+

Models, model-checking runs and machine-checked proofs for DeepEP-Universal, the
all-to-all communication library for mixture-of-experts models. A *dispatch* sends each
token to the ranks of the experts it selected; a *combine* sends the results back and adds
them up. All of it is done by CUDA kernels that talk through shared or symmetric memory
with hand-written flags, ring buffers and barriers. That is what is modelled here.

Every definition is read off the source; `PROJECT.json` ("map") gives the lines.

## 1. Inventory

### What is built

`setup.py` and `csrc/kernels/CMakeLists.txt` compile `deep_ep.cpp`, `runtime.cu`,
`layout.cu`, `intranode_nvshmem.cu` and, with NVSHMEM, `internode.cu`. `DISABLE_IBGDA` is
always set, so `internode_ll.cu` is not compiled, and `buffer.py` raises for
`low_latency_mode`. `intranode.cu`, the original NVLink implementation, is in the tree but
not in the build; `intranode_nvshmem.cu` provides the same functions. Both are modelled all
the same: `intranode.cu` is the design whose protocol `internode.cu` shares and from which
the NVSHMEM port was made, and the low-latency kernels are the library's second protocol,
one without barriers, that a build without the flag turns on.

### Components

| Component | State | Operations | Correct when |
|---|---|---|---|
| **barrier_block** (`utils.cuh`, `runtime.cu`) | one signal word per pair of ranks, never reset | add own tag, subtract peer's, spin | nobody leaves before all have entered; what was written before is visible after; the words never drift |
| **Host counters** (`deep_ep.cpp` with the notify kernels) | mapped integers: totals, one per local expert | host: reset, launch, spin, copy; kernel: write (internode: after spinning on -1) | a call returns its own numbers; nobody spins for ever |
| **NVSHMEM notify** (`intranode_nvshmem.cu`) | counts and prefix matrix in symmetric memory, matrix copy in the handle | write counts, barrier, gather | matrix and totals are what the ranks send in this very call |
| **NVSHMEM dispatch / combine** (same file) | a region of slots per rank, written by one-sided puts; channel heads | clear, put, barrier, copy; clear, put back, barrier, reduce | each rank gets exactly the tokens routed to it, by source; each token gets back one contribution per rank it went to |
| **NVLink dispatch queue** (`intranode.cu`) | per channel and pair of ranks: ring of slots, head, tail, start and end offset | several sending and receiving warps per end | bounded FIFO; rows and `send_head` correct; both ends finish |
| **NVLink combine queue** (`intranode.cu`) | the same rings in the other direction; per-warp heads | re-encode heads, send, move heads, reduce | each token sums exactly its contributions; no deadlock |
| **Internode notify** (`internode.cu`) | counts in symmetric and NVLink buffers, prefix matrices | two-level count exchange, cleaning of the queues, encoding of the heads | the next kernels start from clean words and true offsets |
| **Internode dispatch** (same file) | per channel: RDMA rings between nodes with a window of finished slots, NVLink rings within | sender warps, coordinator, forwarders, their coordinator, receivers | each row is forwarded once, in order; heads are recorded for combine; all ends finish |
| **Internode combine** (same file) | the same rings in the other direction, heads kept by every warp | NVLink senders, forwarder sub-warps, receivers, two coordinators | each token sums the rows of all GPUs that have it; nobody waits in a circle |
| **Layout** (`layout.cu`) | none (pure) | count tokens per rank, node and expert | counts agree with the `is_token_in_rank` it returns |
| **Buffer life cycle** (`deep_ep.cpp`) | allocations, IPC handles, availability flags | construct, sync, destroy | no use before sync, nothing freed while peers use it |
| **Streams and events** (`event.hpp`, `deep_ep.cpp`) | two CUDA streams | wait, record | a kernel starts after its inputs, a tensor outlives its kernels |
| **Size hints** (`config.hpp`) | none | arithmetic | regions fit the buffer |
| **Low-latency kernels** (`internode_ll.cu`, `ibgda_device.cuh`; not in the build) | two buffers used in turn, each with counts, flags and rows; workspace counters; mask and sync words of shrink mode | dispatch, combine, clean; mask a peer that does not answer | rows and results are of this very call; nobody waits for a word that was erased; a dead rank costs only its own share |
| **Python API** (`buffer.py`) | the handle | forwards | |

### How they interact

The Python `Buffer` calls the C++ runtime. A dispatch without a handle computes the layout,
resets the host counters, and launches *notify*, which exchanges counts between the ranks
(barriers inside) and writes the host counters; the host waits for them, allocates the
output tensors and launches *dispatch*. A dispatch with a handle reuses the matrices. A
combine takes the handle of its dispatch. All kernels of a rank run in order on one
communication stream. The ranks meet only in the barriers and through the words of the
queues. Internode dispatch notes for each token where in each queue its row went
(`send_rdma_head`, `send_nvl_head`); the combine of the handle reads its heads from there.
A low-latency call needs no notify: its counts travel behind its rows, and it zeroes the
words of the other buffer for the call after it.

### What is hard

* **Interleaving of warps and ranks.** Slots are filled by one warp and published by
  another; heads are read by each warp on its own; streams of different ranks are whole
  kernels apart.
* **Ordering of one-sided writes.** A put is complete only at the sender's next barrier;
  a region is used by several phases.
* **Reuse without reset.** Barrier words, host counters and regions serve call after call.
* **Full queues.** Senders wait for room, receivers for data, by different rules; between
  nodes room is given back in whole chunks only.
* **Out-of-order completion.** Sender warps finish the slots of one ring in any order; a
  put and an atomic add that announces it are two operations.
* **Being ahead.** Without barriers a fast rank may write for its next call what a slow one
  has yet to clean.
* **Failure on one side.** A host assertion or a failed launch on one rank leaves the
  others in a barrier. In shrink mode a rank may die, and its peers go on without it.
* **Boundaries.** Zero tokens, zero offsets, the last partial chunk, ring wrap-around.

`PROJECT.json` ("hazards") lists each at its line with the property that watches it.

## 2. Modules

| Module | Models |
|---|---|
| `Barrier` | abstract: a reusable barrier, with counts of entries and exits per rank |
| `BarrierBlock` | `barrier_block`: each lane's add, subtract and load are steps |
| `TokenStream` | abstract: a bounded FIFO that publishes a given sequence in order |
| `ChannelQueue` | `intranode.cu` dispatch, one channel between two ranks, all warps of both ends |
| `DataLemmas` | lemmas the proofs share: numbering by counting, least members, segments of sequences, sums of counts, residues |
| `CountMatrix` | shared arithmetic of counts and prefix matrices; the outcomes a gather may have |
| `NvshmemNotify`, `MCNvshmemNotify` | `notify_dispatch` of the NVSHMEM path, consecutive calls |
| `NvshmemNotifyProofs` | theorems about `NvshmemNotify` |
| `NvshmemExchange`, `MCNvshmemExchange` | `dispatch`, `cached_notify_dispatch` and `combine` of the NVSHMEM path with the host's checks |
| `NvshmemExchangeProofs` | theorems about `NvshmemExchange` |
| `MoeCounter`, `MCMoeCounter` | the host's wait loop against the kernels' writes |
| `IntranodeProofs` | theorems about `BarrierBlock`, `MoeCounter` and `ChannelQueue` |
| `InternodeDispatch`, `MCInternodeDispatch` | `internode.cu` dispatch, one channel from the senders on every node to the GPUs of one node |
| `InternodeDispatchProofs` | theorems about `InternodeDispatch` |
| `InternodeCombine`, `MCInternodeCombine` | `internode.cu` combine, one channel for the tokens of one GPU |
| `InternodeCombineProofs` | theorems about `InternodeCombine` |
| `LowLatency`, `MCLowLatency` | `internode_ll.cu`: dispatch, combine, clean; NVLink and RDMA; shrink mode |
| `LowLatencyInvariant` | the inductive invariant of `LowLatency`, and the steps that send nothing |
| `LowLatencyProofs` | the steps that send, the network's and a death; theorems about `LowLatency` |

The `MC...` modules hold only the inputs TLC tries. Definitions named as a *variant* in
their comment change one definition the way a slip in the code would; they are not part of
the specification, and show that the property named beside them in `PROJECT.json` notices.
The names of `BarrierBlock` and `MoeCounter` that every specification has (`BarrierSpec`,
`CounterSpec`, `BarrierTypeOK`, ...) carry a prefix, so that one module can extend both and
`ChannelQueue`, and prove about each.

### Correspondence

**BarrierBlock.** `sig[r][t]` is `barrier_signal_ptrs[r][t]`; `lane` is the program counter
of lane t. `AddSelf` and `SubPeer` are the two system-scope atomics, `Poll` the load in the
iteration whose vote succeeds (a failed vote changes nothing), `Leave` the last
`__syncthreads`. `visible` counts the visits whose preceding writes the fence has pushed
out. Each lane runs on its own; only `Leave` and `Fence` are steps of the block.
`Barrier`'s *entered* is mapped to "one of the rank's subtractions is out".

**ChannelQueue.** Sender warps walk the same tokens: `AwaitRoom` (each reads the head
itself), `SkipToken`/`SendToken` (every warp counts, one fills the slot), `EndChunk`,
`SenderBarrier` (`bar.sync`), `PublishTail` (warp 0). Receiver warps: `ReceiveOffsets`,
`PollTail` (thread 0), `ReceiverBarrier`, `LoadSharedTail`, `CopyToken`, `EndCopy`,
`CopiedBarrier`, `ReleaseHead` (last warp). `inRank` and `startOffset` stand for any result
of layout and notify. What a token carries is one value: the copies of x, source index,
top-k and scales of a slot are one step, which loses no torn state that the properties
could see, because within one round no two warps copy the same word and none rereads.
The invariant `UnreadSlotsIntact` constrains the slot over the whole time it is readable.

**NvshmemNotify.** `buffer[r]` are the matrix words of r's symmetric buffer. The two pointer
functions of the source return the same address, so the published counts *are* row 0 of
`buffer[r]`; `Gather` is one iteration of `gather_counts`' double loop. `matrix` is the copy
that goes into the handle. The loop over experts is `GatherExpert`.

**NvshmemExchange.** `mem[r]` is r's region; `Deliver` completes a put; `EnterBarrier`
requires the rank's own puts to be complete, and `Met` lets a stream through when every
rank has arrived as often. `PutRow` contains the early `return` on a full region. The
matrices are those `NvshmemNotify` shows possible (`GatherOutcomes`, checked there as
`MatrixIsGathered`). `x` and `src_idx` of a row are put by two calls; they are one put here,
since both are complete at the same barrier and `clear_src_idx_buffer` touches only one of
them: losing the index loses the row, and losing it is all that can happen. In the code the
layouts of the two phases are shifted against each other by a few hundred bytes after a
notified dispatch; slots are the same in the model, where the overlap is exact.
`AppBarrier` adds a meeting of the ranks between phases, by the application, which the code
does not require but a training loop may have.

**MoeCounter.** A word holds the number of the call whose kernel wrote it. `guarded` selects
the internode kernel, which spins on -1 and writes only for a call that waits. `Scan` is one
load of the host's loop; `Copy` reads the experts' words once more, as the code does.

**InternodeDispatch.** A sender warp walks its tokens: `SkipToken`, `CopyToken` (wait for
room, fill the slot), `ReleaseToken` (lock, window, unlock). `Issue` is the coordinator,
`Deliver` the network. A forwarder warp reads the meta words (`ReadMeta`), takes a source
with rows (`Choose`, where it caches the tail), and forwards a batch (`Forward`); `Credit`
is the coordinator that returns slots. `ReadBounds`, `SeeTail` and `Receive` are the
receiver. As in the kernel, nothing but the tail guards a read: a slot that was never filled
may be taken for a row of any source, and what it yields is then in the output for
`RowsReceived` to judge. What is simplified, and why it loses nothing:

* *Other destinations.* A lane of a sender warp is one destination node; the lanes of other
  nodes share nothing with this one but the warp's pace, which is free here.
* *A batch is one step.* `Forward` reads its rows at its end. The tail was cached by
  `Choose`, the rows below it are not overwritten before the forwarder itself reports them,
  and room in the NVLink queue only grows meanwhile.
* *The minimum of the heads.* The coordinator reads them one after the other. They only
  grow, so the minimum it finds is never more than the one there is by then, and a pass that
  finds less is an earlier or no step. The credit, a remote add, is applied at once; a late
  one only delays the sender.
* *Round-robin.* The forwarder goes round the sources until one has rows; which one it
  meets depends on when each tail moved, so any that has some may be taken.
* *A shift of the window by its whole width*, undefined in C++, is taken to leave 0, which
  the instruction does.

**InternodeCombine.** `SendChunk` and `PublishChunk` are an NVLink sender; `AwaitRoom`,
`Expect`, `Combine` and `IssueChunk` a forwarder's large warp with its sub-warps; `Await`
and `Receive` a receiver; `CreditPeer` and `CreditSource` the coordinators, over the heads
that the warps keep (`subHead`, `rcvHead`). The heads are those that
`InternodeDispatch!HeadsRecorded` states, encoded by `Encoded` as `cached_notify` does it.
A sum is the set of rows in it. The senders' cached head is the actual one, which it can
only trail; credits are applied at once and the minimum of the heads is one step, as
above. `Deliver` is that of dispatch: it takes any message on the network when `Ordered` is
`FALSE`; the run and the theorems have it `TRUE` (section 4).

**LowLatency.** `kernel[r]` is what r's stream is doing. `SendToken`, `SendCount`,
`TakeCount`, `CopyRows` are dispatch per token and per expert group; `SendRow`, `SendFlag`,
`AwaitFlag`, `Reduce` combine; `CleanNext` is the zeroing that both do; `EnterBarrier` to
`AfterBarrier` are `clean_low_latency_buffer`. `TakeTimeout`, `FlagTimeout` and
`PeerTimeout` mask a peer, and `Die` ends one, with the loss of what it had on the network.
`region` and `staged` hold whatever was last stored at a place, so an old row is read as
such; rows of dispatch and of combine destroy each other. The mask is read at each row,
while the code reads it once per group; a timeout fires only when the peer is dead or has
masked this rank itself, so a peer that is slow but alive is never masked in dispatch and
combine, where the code masks whoever has not answered in some 100 s. What the runs show of
timeouts is thus the death of one of two ranks. A queue pair is a FIFO; IBGDA's doorbells, which batch
requests, are left out because the signalling request always rings one.

## 3. Runs

Each run finishes within five minutes with two workers; most take seconds.

| Run | Instance | Shows |
|---|---|---|
| `BarrierVisits` | 3 ranks, 2 visits, fence | signal words within one tag of zero, writes visible, inductive invariant, refinement of `Barrier`, every visit completes |
| `ChannelQueue` | 6 tokens, 3 slots, chunks of 2, 3+2 warps, every selection | slots, rows, tails, send heads; inductive invariant; refinement of `TokenStream`; everything delivered |
| `NotifyCalls` | 3 ranks, 2 calls, changing demands | totals and matrices of the right call |
| `NotifyAliased` | 2 ranks | *violated*: counts gathered wrongly |
| `ExchangeCalls` | 2 ranks, regions of 4 slots, up to 5 tokens, notified then cached | rows, reduction, slot disjointness, capacity check, dropped rows, empty launches, completion |
| `ExchangeUnsynced` | 2 ranks, no application barrier | *violated*: rows overwritten before the copy |
| `ExchangeErased` | 2 ranks, application barrier | *violated*: contribution erased by a late clear |
| `CounterCalls` | 3 calls, any modes (internode), no wait after a worst-case call (intranode) | own counts, no hang |
| `CounterMixed` | worst-case, then wait | *violated*: an earlier call's counts |
| `InternodeDispatch` | 2 nodes, 2 peers, 2 sender warps, a window of 2, rings of 4 and 3 | window, rows, recorded heads; the way from a source to a peer, both rings together, is a `TokenStream`; everything received |
| `InternodeCombine` | 2 nodes, 2 peers, 2 sub-warps, 2 receivers, rings of 4 and 3 | sums of exactly the right rows, credits never ahead of the rows, everything combined |
| `LowLatencyCalls` | 2 ranks, up to 4 calls, 1 or 2 experts each, RDMA or NVLink, shrink mode with a death | rows and sums of this very call, only a dead rank's share missing, every call returns |

### Bounds, and why they are enough

* *Barrier.* Skew between two ranks is at most one visit, so the second visit of a fast rank
  meets the first of a slow one on the same words; the third rank shows a lane that passes
  while another of the same rank waits. The theorems hold for any number of both.
* *Channel.* Three slots with six tokens wrap the ring twice and have room for one and a half
  chunks; a selection of odd size leaves a partial last chunk; three sending warps make the
  warp that fills a slot, the one that saves the head and warp 0 three different ones.
  `MaxOffset` is 1, so that an offset of zero and another occur.
* *Notify.* Two calls suffice for a step to confuse neighbours, as every call starts from
  any contents; three ranks are the fewest with a source that is neither 0 nor last. The
  demands of the two calls differ in every count, so a word of the wrong call shows.
* *Exchange.* Two tokens give a token with two destinations and two threads whose order is
  free. A cached call after a notified one shows both ways to enter dispatch and one
  complete reuse of the regions. In the routings that are to succeed each destination gets
  the same number from every source, since otherwise the defect of `NotifyAliased` breaks
  the offsets before anything else does. The other routings reach the limits: a region too
  small in dispatch (rows are dropped, the host throws), in combine (the host throws), a
  rank without tokens and a rank without rows (an empty launch).
* *Counters.* With two totals and two experts a scan can stop at each kind of word (the
  intranode kernels have one total; a second behaves like it); three calls are enough for a
  kernel to be two launches late.
* *Internode.* A chunk of 2 in a ring of 4 is the least the host allows; more rows than
  slots make it wrap, and a token for nobody here makes stream and token numbers differ. A
  window of 2 is exceeded by two warps, so that the wait on it happens (the proof is for any
  width). The NVLink rings are one row longer than a chunk, the tightest size accepted:
  where a circle of waiting would close, it closes there. Two nodes and two peers give each
  warp one queue that is ahead and one that is behind.
* *Low latency.* The sequences of calls are those of layers (dispatch, combine), of two
  dispatches ahead of their combines, of cleaning between calls, and of NVLink. Every buffer
  is reused at least once by a call of the same kind and once by one of the other. Deaths
  come at any point of a dispatch, a combine or a cleaning. Two ranks let one be a whole
  call ahead of the other, which is as far as they get.

### Fairness

`WF` of each rank's steps (barrier), of each end (channel), of each rank's stream and of
put completion (exchange), of host and stream (counters). The code justifies it: the blocks
of a kernel are resident (one per SM, launched cooperatively or as a single block), the
hardware keeps issuing every resident warp, NVSHMEM completes puts, and the host thread
spins without blocking. Weak fairness is enough everywhere: no step that is awaited can be
disabled again before it is taken. The internode and low-latency modules ask less still:
`WF` of the whole next-state relation (in `LowLatency` without deaths). No action of theirs
can be repeated for ever, so it is enough that something enabled runs; a spin that finds
nothing is a stutter. Traps and host timeouts are not fair: they are only
possible (`Timeout`), or left out where they stop the device.

Deadlock checking is off where everything simply ends (a rank after its bounded number of
visits or calls, a channel when all is received), or where an exception leaves peers in a barrier, as the code does. `ChannelQueue`
and `MoeCounter` are checked for deadlock.

## 4. Findings

1. **Aliased counts** (`NotifyAliased`). `get_raw_counts_ptr` and `get_rank_prefix_ptr` are the
   same address. Every rank overwrites its counts with its running sums, and from rank 1 on
   reads its own count as rank 0's. Ranks that send different numbers get wrong totals. The
   functional test sends uniform numbers, for which `UniformCountsGathered` shows no harm.
2. **Late clear** (`ExchangeErased`). No barrier separates `clear_src_idx_buffer` on one rank
   from `combine_send` on another.
3. **No barrier after the copy** (`ExchangeUnsynced`). The regions are reused by combine while
   a slow rank may still copy its dispatch rows.
4. **Counters of another call** (`CounterMixed`). The intranode kernels write the mapped
   counters even for worst-case calls, and a waiting call may take them for its own.

Also seen, and not run as findings: a rank that receives no row launches `combine_send` with
an empty grid, which fails and throws while its peers wait (the step to `thrown` in
`StartCombine`); and `combine_send` drops contributions without a trace when a source's
tokens went to so many ranks that more of them come back than its region has slots.

In the internode and low-latency code, seen while modelling and not run either:

* Internode dispatch and combine issue a put and then the atomic add that announces it, with
  no fence (`internode.cu`, 819-838 and 2111-2127). One queue pair keeps the order, NVSHMEM's
  interface does not promise it. Both modules have it as a constant, `Ordered`, which is `TRUE`
  in the runs and a hypothesis of the theorems. With the one line of the cfg changed to
  `FALSE`, TLC finds `RowsReceived` of `InternodeDispatch` and `RowsCombined` of
  `InternodeCombine` violated: a tail arrives before its rows. It is no finding of the list
  above because no doc, comment or test of the repository says what such a network would do.
* The barrier of shrink mode (`internode_ll.cu`, 56) waits for a count *equal* to its own. A
  peer that is fast, passes, and announces its next barrier before the slow rank looked, has
  overwritten it: the slow rank times out and masks a rank that is alive.
* With receive hooks a call only sends. A second call before the first hook cleans the words
  that the hook is still to read. `buffer.py` warns of more than two results held, not of
  this; the runs call the hook before the next call.

## 5. Proofs

The modules named `...Proofs`, `DataLemmas` and `LowLatencyInvariant` are checked by TLAPS
for every value of the constants, from the assumptions named in the modules: the sets are not empty, numbers are naturals, and for
the queue the chunk is smaller than the ring (Config's constructor asserts it).

**Data.** The library's induction theorems take a predicate as a parameter, which the
provers cannot instantiate; but the well-founded order of the naturals has a theorem about
*sets* (`WFMin`), and with a set in the place of the predicate it gives induction over the
naturals and over the subsets of a finite set (`NatSetInduction`, `SubsetInduction` of
`DataLemmas`). From these come the facts about the community module's `SumFunctionOnSet`
that the count arithmetic needs: a sum is a number, depends on its terms only, and may be
taken in any order, so that a sum over 0..n is the running sum of the kernels' loops
(`SumUpTo`).

**Barrier.** `BarrierIInv` says: a word is tag × (adds of its owner − subtractions of the peer); a
lane that passed was preceded by the peer's subtraction of the same visit; the fence
precedes the lanes; lanes move only in a visit still to be made. The balance alone does not
bound a word: for that one needs that neither side can be two visits ahead, which is what
`PeerArrived` carries from `Poll` through `Leave` to the next `AddSelf`. From it follow
`NoDrift`, `Visibility` and, step by step, `ImplementsBarrier` (a step of the code is an
entry, an exit or a stutter of `Barrier`).

**Queue.** `IInv` says: a sending warp's tail is the number of selected tokens it has walked
over; all warps had the same tail when the last barrier released them (`SendBase`); each is
within the room it waited for; what the warp in charge of a slot number has passed is in
its slot until released (`SlotsFilled`); the receiving warps are all between the two
barriers of a round, sharing one tail, or all outside with equal heads. `SlotsFilled` speaks
about each warp's own tail, not the published one: only then is `PublishTail` harmless, and
only with the room condition is a slot filled by a warp that is ahead of `tail` not one that
is still unread. `RowsCorrect` and `SendHeadCorrect` are conjuncts; `UnreadSlotsIntact` and
`WarpsShareTail` follow.

`ImplementsTokenStream` is the refinement: the published part of the ring is a segment of
the sequence of selected tokens (`TailPublished` and `SlotsFilled` give its ends and its
contents), `PublishTail` extends the segment at its end by at most a chunk, the release of the
receiving warps drops its beginning, and every other step leaves it as it is. The numbering
of the tokens by counting (`Below` of `DataLemmas`: strictly monotone, and onto by the
pigeonhole principle of the library) takes the place of an induction over the tokens.

**NVSHMEM notify.** A rank enters one barrier between publishing and gathering and one after
(`InRhythm`), so that while it gathers, everybody's published words are of its own call
(`InStep`). `WordsPublished` says what they are: the rank's count or, once its own loop has
been there, rank 0's. `GatheredSoFar` follows the double loop cell by cell, and carries the
fact that makes the rank's own column come out as rank 0's: it has overwritten the word by
the time it reads it. From it `MatrixGathered`; from `TotalsSoFar`, the same for the expert
loop, `TotalsOfThisCall`. With equal counts the two alternatives of a cell are the same;
a matrix is determined by its increments (`PrefixUnique`, by induction over the rows), and
the word for the host follows the last cell (`CounterSoFar`): `UniformGathered`.

**NVSHMEM exchange.** `Invariance` is about dispatch, cached dispatch and combine together,
under two hypotheses, and the runs show that neither can be dropped. `AppBarrier`: the
application keeps the ranks apart between a dispatch and its combine and between calls
(without it `ExchangeUnsynced` finds rows overwritten). `EqualShares`: a destination gets as
many tokens from every rank (without it the matrix is wrong, `NotifyAliased`); all routings
of `ExchangeCalls` satisfy it but the one where a rank sends nothing. The layers:

* *Rhythm* (`RhythmInv`): the barriers a rank has entered are determined by its place in the
  calls, no rank is more than one ahead, and so one that is past a barrier knows in which
  phases all the others can be.
* *Host* (`HostInv`): the matrix a rank works with is the routing's; if it passed the checks of
  the host, the regions are as large as what is due.
* *Work* (`WorkInv`): what a rank has counted for a destination and what it has still to send
  make up its share, so that a region that is large enough drops nothing.
* *Wire* (`WireInv`): each put is one of its sender's present kernel, in the sender's own
  segment of the region, and no two are for one slot: `SlotsOwned`.
* *View* (`ViewInv`): while a region is open for a source, the slots that the source has
  counted hold its tokens, in memory or on the wire; after the barrier the wire is empty.
* *Received* (`RecvInv`): so what is copied out has each source's tokens in its segment, each
  once. That distinct tokens in as many slots are all of them is the pigeonhole principle
  (`CoverOnce`): `RowsArrive`.
* *Returned* (`BackInv`, `OutInv`): a returned row, on the wire or in a region that has an index
  set for it, is a contribution of its giver to that token; there is one per giver and token,
  and the giver has no more to give (`Spent`) once the row is there: `CombineSound`.

The invariant was checked with TLC on the instance of `ExchangeCalls` before it was proved.

**Host counters.** That a waiting call takes its own numbers (`OwnCounts`) is proved for the
programs that are `Unmixed`: the kernels are guarded, or no call waits after one that did
not. `CounterMixed` shows that this cannot be dropped. The invariant says that the stream
is at most one kernel past the launches (`StreamInOrder`), that nothing launched before this
call can still write (`EarlierSilent`), that therefore a word is -1 from its reset until this
call's kernel writes it (`WordsOwn`), and that what the loop has passed over is of this call
(`ScanSound`). `EarlierSilent` is where the waiting does its work: a call that returned has
seen every word, hence its kernel had written them all.

**Internode window.** `SoundWindow`: the bits of the window are the slots that are finished
and not yet under the tail, for any number of warps and any width. The tail moves past
exactly the leading ones because each warp walks its own residue class of the tokens
(`WarpsInTurn`): two warps never report one slot, and the slot at the tail belongs to a warp
that has not reported it. No bound on the distance of the warps is needed; the wait for
`offset < WindowSize` is, and the mutant that drops it breaks the property. `Index` is shown
to be strictly monotone on the stream, from the library's facts about cardinality.

**Internode dispatch.** `DispatchInvariance` is the whole channel, in six layers, each using
the ones before it. All but the window assume `Ordered`, that the network keeps a put and a
later atomic in order (finding above: without it `RowsReceived` is false).

* *On the wire* (`WireInv`): the messages of a source form a chain (`Chain`): each put is
  followed by the add of its own number, starts where the last one ended, and the chain
  reaches from the tail to the rows issued. So an add moves the tail exactly over the rows
  of the put just carried out.
* *Counters* (`CountInv`): credit <= a forwarder's head <= the tail it knows of <= the tail;
  the head of a queue <= the tail its receiver saw <= its tail <= the head + its size; what
  a lane expects is what the decoded meta words say less what it has passed; a busy
  forwarder has a row to look at and room for a whole chunk. `ChunkEnds` shows that the end
  of a chunk, a `CHOOSE` in the model, always exists.
* *RDMA ring* (`RingInv`): a row copied by its warp is within a ring of the head and in its
  slot until the slot is given back (`WrittenInPlace`); a row below the tail, or below the
  next add once its put is out (`Frontier`), is in the receive side (`ArrivedInPlace`). The
  window enters here: what the coordinator puts has been reported, so it was written.
* *Forwarded* (`SeenInv`): a forwarder has seen as many rows for its peer as there are below
  its head, and `send_nvl_head` is right for exactly those: `HeadsTrue`.
* *NVLink queue and receiver* (`QueueInv`): sources are interleaved in a queue, so positions
  are told by counting: a row's place in its stream plus those of its source from it to the
  end of the queue is what the forwarder has seen (`QueuedInPlace`). The rest of what it has
  seen is `Taken`: a receiver's offset for a source is its base plus that, and its output is
  as large as its head and holds only rows with places below `Taken` (`OutInPlace`).

`RowsArrive` follows by size: the output is a subset of what is due, and with nothing left
to expect it has as many elements. `TypeCorrect` needs the same, for the receiver's `left`
is never negative only because the output is never larger than what is due.

`ImplementsTokenStream` is the refinement. In every reachable state the rows of a source in
a queue are the segment of its stream from `Taken` to what the forwarder has seen
(`QueueIsSegment`, from `QueuedInPlace`); a chunk moves the end of one source's segment
(`ForwardTallies`), a batch the start of every one (`ReceiveTakes`), and nothing else shows.
So the path over both rings promises a peer what one ring does in `ChannelQueue`. For the
proof the module picks a source's rows by their rank, not with `SelectSeq`, which is
recursive.

**Internode combine.** The proof has two layers, and `Invariance` is both together. It assumes
`Ordered`, and so do `TypeCorrect` and `SumsComplete`: `InOrder` says that the network then
delivers what was sent first.

* *Counters* (`CountInv`). `Walk`: the sub-warps go through their residue classes of the chunk;
  `Queue` and `Channel`: rows filled, published and given back, sums written, under way
  (`Chain`, as in dispatch) and given back; `Turns`: the receivers go through theirs. What
  makes the credits safe is `Kept`: the head that a warp keeps is not past the number of the
  rows before the token it is at, unless it is the large one and no row is to come. A
  coordinator takes the least of the heads, and the warp that is furthest behind cannot have
  passed a row that is not there (`SlowestSubWarp`, `SlowestReceiver`): so no slot is
  given back before its row was read by everyone.
* *Rows* (`RowInv`). A row copied is in its slot until the queue is a ring ahead (`QueueHolds`);
  a sum done is in the buffer it is sent from (`Written`), and, once its put is out, in the
  ring of the home node (`ArrivedIn`); a token passed has its whole sum, another has none
  (`Summed`). `ChunkSum` and `TokenSum` are the joints: when the wait of a warp is over,
  the slots its heads name hold exactly the rows of its token.

That the heads name those slots is shown about the encoding itself. `Encoded` is a recursive
function going down the tokens; `EncodedIs` takes it through its equation, by induction over
the naturals, and says that the entry of a token without a row stands for the number
of the next row of that peer, or for 2^25 when none is to come. That no row has so large a
number, which the kernel takes for granted ("a heuristic large number", `internode.cu`,
1378), is `LargeAssumption`. What a receiver adds up is then all rows that all nodes have
for the token: `SumsComplete`; `TypeCorrect` follows from the same two layers.

**Low latency.** `TypeCorrect`, `RowsArrive` and `SumsOwn` prove the three invariants of
`LowLatencyCalls` for any number of ranks, experts and tokens and any sequence of calls, over
NVLink and RDMA in any mixture, with deaths in shrink mode. They have one hypothesis,
`CleansLast`: in shrink mode a cleaning is the last call. It cannot be dropped. The
barrier of that cleaning waits for a count equal to its own (section 4), a fast peer
overwrites its count with the next one, and the slow rank masks a peer that lives, whose rows
its next dispatch leaves out: with a cleaning followed by a dispatch and no death, TLC finds
`RowsReceived` violated. Without shrink mode a cleaning may come anywhere.

The ranks meet in no barrier, so the proof is about who is how far ahead. A rank ends a
call only when every peer that lives has told it all: the counts of a dispatch, the flags of a
combine. A peer tells only after it has zeroed its words of the *next* call. Hence:

* *Standing* (`PosInv`, `KernelInv`, `MetInv`, `EnterInv`). A rank is at most one call ahead
  of a peer that lives, and then that peer has told it all. In a kernel the workspace
  counters are what is sent, and what is still to do; between kernels they are zero. The
  buffer of a call is the parity of the calls before it that use one (`Side`), a
  function of the run, so all agree on it without talking.
* *Peers* (`MaskInv`, `DeadInv`, `SyncInv`). Who is masked is dead, with nothing of it left on
  the network, or both ranks have come to the cleaning at the end.
* *Channels* (`SignalInv`, `HoldsInv`, `WireInv`). A rank expects messages of its own call and
  of the next, and is ready for the next once it has zeroed the words for it. A word it is
  ready for has its value, or is zero with the value coming, or is zero because nothing was
  told or because the sender died. A row that was sent is in its place, or on the wire
  before the word that announces it (`HoldsIn`), and nothing later on the wire
  destroys it. This is where the order of one queue pair enters, and where two calls are
  shown never to meet in one buffer: rows of dispatch and of combine lie across each other.
* *Taken* (`TakenInv`, `PackedInv`). A count taken is the one that was sent, or zero for a
  dead source; the ranges given out in `packed_recv_x` are disjoint and that long.
* *Kept* (`RowsInv`, `CombinedOwn`). What was copied for a source is the tokens it sent in this
  call; `RowsReceived` follows from it, and `CombinedOwn` is a conjunct.

Each step of the kernels has a lemma that it keeps the invariant. Those that send go through
one of two joints, `IInvRows` for a row and `IInvSignals` for a count or flag, over NVLink and
RDMA alike; the others through `MeetsAll` or `LeaveAll`, the latter for a rank that ends its
call. The invariant was checked with TLC on the instance of `LowLatencyCalls` as well.

The proof corrected the model in two places. The finish counter of an expert that has been
told is 0 again, which `TypeOK` denied for a tag larger than the number of tokens, as the
code's is (the instance now has such a tag). And what a run may be, `RunsAssumption`, now says
that a dispatch sends to experts that there are and that a combine names an earlier dispatch.

### Only model-checked

Liveness (`AllVisitsComplete`, `AllDelivered`, `CallsComplete`, `AllAnswered`, `AllReceived`,
`AllCombined`, `CallsReturn`) is out of the prover's reach. `CombinedOnce` of `NvshmemExchange` is
false (finding 2), and no theorem states it.

## 6. Not modelled, and why

Payload arithmetic (FP8 scales, LogFMT, reduction in BF16), top-k indices and weights (they
travel with the row), address computation beyond what slots need, launch configuration, TMA,
the tuning tables, and NVSHMEM itself. Its barriers, and each put or atomic alone, are taken by
their contract; that a put and a later atomic arrive in order is more than the contract says
and an assumption, `Ordered` in the internode modules and the FIFO of a queue pair in
`LowLatency` (section 4). Device traps on timeouts stop the program and are left out; the timeouts of shrink
mode, which do not, are in. Of the internode kernels: the two-level count exchange of
`notify_dispatch`, the cleaning of the queues (their results are the initial states of
`InternodeDispatch` and `InternodeCombine`), and the clean-up of unused rows for
`num_worst_tokens`. Of the low-latency code: the kernels that query, set and clean the mask,
and IBGDA's request rings.

## 7. What could come next

Most important first.

1. `IntranodeNotify`, then `IntranodeCombine`: notify and cached notify of `intranode.cu`
   (barriers before and after the clean-up of queue words), the re-encoding of `send_head`,
   head updater, reduction by several warps. `InternodeCombine` checks the same protocol on
   two levels, so that the single-level one is the easier case.
2. `InternodeNotify`: the count exchange, composed with `Barrier`.
3. `Layout` as a pure algorithm against its definition; the assumption the other modules
   make about their inputs.
4. `StreamOrder` and `BufferLifecycle`.
5. `MoeCounter` after a timeout: the retry against the kernel still pending.
6. `LowLatency` with a peer that is masked while alive, and with two calls before a hook.

Every invariant that a run checks is now a theorem, and so are the action properties; what
is left to prove belongs to the modules above, and to `LowLatency` with a cleaning in the
middle of a run in shrink mode: there the theorem would have to say what a rank still gets
from peers it has masked.
