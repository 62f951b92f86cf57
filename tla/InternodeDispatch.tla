--------------------------- MODULE InternodeDispatch ---------------------------
(***************************************************************************)
(* One channel of the internode dispatch kernel (kernels/internode.cu,     *)
(* dispatch), as seen from one GPU of node Node: the GPU with the same NVL *)
(* rank on every node s sends it rows over RDMA, and it forwards each row  *)
(* over NVLink to the GPUs of its own node that the row is for.            *)
(*                                                                         *)
(* On s: NumWarps sender warps copy rows into a ring and report them in a  *)
(* window; a coordinator puts them, in chunks.  On the GPU itself: one     *)
(* forwarder warp for each NVL peer, and a coordinator that returns slots  *)
(* to the senders.  On the peers: one receiver warp each.                  *)
(*                                                                         *)
(* A lane of a sender warp is one destination node.  A warp waits for all  *)
(* its lanes; the other nodes can only delay it, and are left out.  The    *)
(* timeouts, which trap, and the top-k and scale payloads, which travel    *)
(* with the row, are left out too.                                         *)
(***************************************************************************)
EXTENDS Integers, Sequences, FiniteSets

CONSTANTS
  NumRDMARanks,  \* nodes
  NumPeers,      \* NUM_MAX_NVL_PEERS
  Node,          \* the node whose receiving side this is
  NumWarps,      \* kNumDispatchRDMASenderWarps
  WindowSize,    \* bits of rdma_send_channel_window: 32
  RdmaSend, RdmaRecv,   \* num_max_rdma_chunked_send_tokens, ..._recv_tokens
  NvlSend, NvlRecv,     \* num_max_nvl_chunked_send_tokens, ..._recv_tokens
  Ordered,       \* does the network keep a put and a later atomic in order?
  Runs           \* what is sent: see RunsAssumption

Source == 0 .. NumRDMARanks - 1
Peer   == 0 .. NumPeers - 1
Warp   == 0 .. NumWarps - 1

ASSUME SizesAssumption ==
  /\ NumRDMARanks \in Nat \ {0} /\ NumPeers \in Nat \ {0} /\ NumWarps \in Nat \ {0}
  /\ WindowSize \in Nat \ {0}
  /\ RdmaSend \in Nat \ {0} /\ RdmaRecv \in Nat \ {0}
  /\ NvlSend \in Nat \ {0} /\ NvlRecv \in Nat \ {0}
  /\ Node \in Source /\ Ordered \in BOOLEAN

(* Config's constructor and the coordinator's assertion. *)
ASSUME ConfigAssumption ==
  NvlSend < NvlRecv /\ 2 * RdmaSend <= RdmaRecv /\ RdmaRecv % RdmaSend = 0

(* A run has: to, for each source the peers each token of the channel is    *)
(* for; prior, the number of tokens that every source sent to every peer    *)
(* in the channels before this one.                                         *)
ASSUME RunsAssumption ==
  \A g \in Runs :
    /\ g.prior \in Nat
    /\ \A s \in Source :
         /\ IsFiniteSet(DOMAIN g.to[s])
         /\ g.to[s] \in [0 .. Cardinality(DOMAIN g.to[s]) - 1 -> SUBSET Peer]

VARIABLES
  run,
  begun,     \* the sources whose meta words are on their way
  at,        \* per source and warp: the token it is at
  copied,    \* ... and whether it has copied that one
  sendTail,  \* rdma_send_channel_tail
  window,    \* rdma_send_channel_window: the offsets whose bit is set
  issued,    \* last_issued_tail
  staged,    \* rdma_channel_data's send side, on the source
  wire,      \* what the network has to carry out
  head,      \* rdma_channel_head, on the source
  ring,      \* rdma_channel_data's receive side
  tail,      \* rdma_channel_tail
  meta,      \* rdma_channel_meta
  fwd,       \* the registers of the forwarder of each peer
  fwdHead,   \* forward_channel_head
  retired,   \* forward_channel_retired
  lastHead,  \* last_head of the forwarder coordinator
  bounds,    \* nvl_channel_prefix_start and _end
  nvlRing, nvlTail, nvlHead,   \* nvl_channel_x, _tail and _head
  rcv,       \* the registers of the receiver on each peer
  rdmaHeads, nvlHeads,         \* send_rdma_head, send_nvl_head
  out        \* recv_x of each peer, as pairs of an index and a row

sender    == <<begun, at, copied, sendTail, window, issued, staged>>
forwarder == <<fwd, fwdHead, retired, lastHead>>
nvlink    == <<bounds, nvlRing, nvlTail, nvlHead>>
vars == <<run, sender, wire, head, ring, tail, meta, forwarder, nvlink,
          rcv, rdmaHeads, nvlHeads, out>>

-----------------------------------------------------------------------------
(* The stream of a source: the tokens that are for any peer here. *)
Tokens(s) == DOMAIN run.to[s]
Chosen(s) == {t \in Tokens(s) : run.to[s][t] # {}}
Index(s, t) == Cardinality({u \in Chosen(s) : u < t})
Total(s) == Cardinality(Chosen(s))
TokenAt(s, i) == CHOOSE t \in Chosen(s) : Index(s, t) = i
For(s, p) == {t \in Chosen(s) : p \in run.to[s][t]}

None == <<>>
Row(s, t) == <<s, t>>
IsFor(row, p) == row # None /\ p \in run.to[row[1]][row[2]]
Smaller(m, n) == IF m <= n THEN m ELSE n
RdmaSlot(i) == i % RdmaRecv
NvlSlot(i)  == i % NvlRecv

(* The prefix sums of the two channels, -v - 1 so that no word is 0. *)
NoWords == [start |-> [p \in Peer |-> 0], end |-> [p \in Peer |-> 0],
            rdmaStart |-> 0, rdmaEnd |-> 0]
Words(s) ==
  [start |-> [p \in Peer |-> -run.prior - 1],
   end   |-> [p \in Peer |-> -(run.prior + Cardinality(For(s, p))) - 1],
   rdmaStart |-> -run.prior - 1,
   rdmaEnd   |-> -(run.prior + Total(s)) - 1]

(* recv_gbl_rank_prefix_sum: where a peer keeps the rows of source s. *)
Count(s, p) == run.prior + Cardinality(For(s, p))
Base(s, p) == Cardinality(UNION {{q} \X (1 .. Count(q, p)) : q \in 0 .. s - 1})

-----------------------------------------------------------------------------
(* Sender warps *)

(* The meta words are put, and the warps meet. *)
SendMeta(s) ==
  /\ s \notin begun
  /\ begun' = begun \cup {s}
  /\ IF s = Node
     THEN meta' = [meta EXCEPT ![s] = Words(s)] /\ UNCHANGED wire
     ELSE wire' = [wire EXCEPT ![s] = Append(@, [kind |-> "meta"])] /\ UNCHANGED meta
  /\ UNCHANGED <<run, at, copied, sendTail, window, issued, staged, head, ring,
                 tail, forwarder, nvlink, rcv, rdmaHeads, nvlHeads, out>>

(* A warp passes over a token that nobody here is to have. *)
SkipToken(s, w) ==
  /\ s \in begun
  /\ at[s][w] \in Tokens(s) \ Chosen(s)
  /\ rdmaHeads' = [rdmaHeads EXCEPT ![s][at[s][w]] = -1]
  /\ at' = [at EXCEPT ![s][w] = @ + NumWarps]
  /\ UNCHANGED <<run, begun, copied, sendTail, window, issued, staged, wire, head,
                 ring, tail, meta, forwarder, nvlink, rcv, nvlHeads, out>>

(* Or it waits for the slot to be free and copies the row into it: on the   *)
(* node itself, into the receive side at once.                              *)
CopyToken(s, w) ==
  LET t == at[s][w]
      i == Index(s, t)
  IN  /\ s \in begun
      /\ t \in Chosen(s) /\ ~copied[s][w]
      /\ i - head[s] < RdmaRecv
      /\ rdmaHeads' = [rdmaHeads EXCEPT ![s][t] = i]
      /\ IF s = Node
         THEN ring' = [ring EXCEPT ![s][RdmaSlot(i)] = Row(s, t)] /\ UNCHANGED staged
         ELSE staged' = [staged EXCEPT ![s][RdmaSlot(i)] = Row(s, t)] /\ UNCHANGED ring
      /\ copied' = [copied EXCEPT ![s][w] = TRUE]
      /\ UNCHANGED <<run, begun, at, sendTail, window, issued, wire, head, tail, meta,
                     forwarder, nvlink, rcv, nvlHeads, out>>

(* How far the tail moves when the bits of the window are these: past all   *)
(* that are set from the lowest on.  A shift by the whole width leaves 0.   *)
LeadingOnes(bits) ==
  CHOOSE n \in 0 .. WindowSize :
    (\A o \in 0 .. n - 1 : o \in bits) /\ n \notin bits

(* Variant: a row beyond the window is reported without waiting. *)
ReleaseTokenAtOnce(s, w) ==
  LET offset == Index(s, at[s][w]) - sendTail[s]
      bits   == window[s] \cup ({offset} \cap 0 .. WindowSize - 1)
      n      == IF offset = 0 THEN LeadingOnes(bits) ELSE 0
  IN  /\ copied[s][w]
      /\ sendTail' = [sendTail EXCEPT ![s] = @ + n]
      /\ window' = [window EXCEPT ![s] = {o - n : o \in {b \in bits : b >= n}}]
      /\ copied' = [copied EXCEPT ![s][w] = FALSE]
      /\ at' = [at EXCEPT ![s][w] = @ + NumWarps]
      /\ UNCHANGED <<run, begun, issued, staged, wire, head, ring, tail, meta,
                     forwarder, nvlink, rcv, rdmaHeads, nvlHeads, out>>

(* Under the lock of the destination, the row is reported. *)
ReleaseToken(s, w) ==
  LET offset == Index(s, at[s][w]) - sendTail[s]
      bits   == window[s] \cup {offset}
      n      == IF offset = 0 THEN LeadingOnes(bits) ELSE 0
  IN  /\ copied[s][w]
      /\ offset < WindowSize
      /\ sendTail' = [sendTail EXCEPT ![s] = @ + n]
      /\ window' = [window EXCEPT ![s] = {o - n : o \in {b \in bits : b >= n}}]
      /\ copied' = [copied EXCEPT ![s][w] = FALSE]
      /\ at' = [at EXCEPT ![s][w] = @ + NumWarps]
      /\ UNCHANGED <<run, begun, issued, staged, wire, head, ring, tail, meta,
                     forwarder, nvlink, rcv, rdmaHeads, nvlHeads, out>>

(* Variant: the tail is added before the rows are put. *)
IssueTailFirst(s) ==
  LET left      == Total(s) - issued[s]
      processed == sendTail[s] - issued[s]
      n         == Smaller(processed, RdmaSend)
  IN  /\ s \in begun
      /\ left > 0
      /\ processed = left \/ processed >= RdmaSend
      /\ issued' = [issued EXCEPT ![s] = @ + n]
      /\ IF s = Node
         THEN tail' = [tail EXCEPT ![s] = @ + n] /\ UNCHANGED wire
         ELSE /\ wire' = [wire EXCEPT ![s] = @ \o
                   <<[kind |-> "add", num |-> n],
                     [kind |-> "put", from |-> issued[s], num |-> n]>>]
              /\ UNCHANGED tail
      /\ UNCHANGED <<run, begun, at, copied, sendTail, window, staged, head, ring, meta,
                     forwarder, nvlink, rcv, rdmaHeads, nvlHeads, out>>

(* Variant: only whole chunks are sent. *)
IssueWhole(s) ==
  LET left      == Total(s) - issued[s]
      processed == sendTail[s] - issued[s]
      n         == Smaller(processed, RdmaSend)
  IN  /\ s \in begun
      /\ left > 0
      /\ processed >= RdmaSend
      /\ issued' = [issued EXCEPT ![s] = @ + n]
      /\ IF s = Node
         THEN tail' = [tail EXCEPT ![s] = @ + n] /\ UNCHANGED wire
         ELSE /\ wire' = [wire EXCEPT ![s] = @ \o
                   <<[kind |-> "put", from |-> issued[s], num |-> n],
                     [kind |-> "add", num |-> n]>>]
              /\ UNCHANGED tail
      /\ UNCHANGED <<run, begun, at, copied, sendTail, window, staged, head, ring, meta,
                     forwarder, nvlink, rcv, rdmaHeads, nvlHeads, out>>

(* The sender coordinator sends a whole chunk, or all that is left. *)
Issue(s) ==
  LET left      == Total(s) - issued[s]
      processed == sendTail[s] - issued[s]
      n         == Smaller(processed, RdmaSend)
  IN  /\ s \in begun
      /\ left > 0
      /\ processed = left \/ processed >= RdmaSend
      /\ issued' = [issued EXCEPT ![s] = @ + n]
      /\ IF s = Node
         THEN tail' = [tail EXCEPT ![s] = @ + n] /\ UNCHANGED wire
         ELSE /\ wire' = [wire EXCEPT ![s] = @ \o
                   <<[kind |-> "put", from |-> issued[s], num |-> n],
                     [kind |-> "add", num |-> n]>>]
              /\ UNCHANGED tail
      /\ UNCHANGED <<run, begun, at, copied, sendTail, window, staged, head, ring, meta,
                     forwarder, nvlink, rcv, rdmaHeads, nvlHeads, out>>

(* The network: a put reads the send side when it is carried out. *)
Deliver(s, k) ==
  /\ k \in 1 .. Len(wire[s])
  /\ Ordered => k = 1
  /\ wire' = [wire EXCEPT ![s] = SubSeq(@, 1, k - 1) \o SubSeq(@, k + 1, Len(@))]
  /\ LET m == wire[s][k] IN
       \/ /\ m.kind = "meta"
          /\ meta' = [meta EXCEPT ![s] = Words(s)]
          /\ UNCHANGED <<ring, tail>>
       \/ /\ m.kind = "put"
          /\ LET slots == {RdmaSlot(m.from + i) : i \in 0 .. m.num - 1} IN
               ring' = [ring EXCEPT ![s] =
                 [x \in DOMAIN @ |-> IF x \in slots THEN staged[s][x] ELSE @[x]]]
          /\ UNCHANGED <<meta, tail>>
       \/ /\ m.kind = "add"
          /\ tail' = [tail EXCEPT ![s] = @ + m.num]
          /\ UNCHANGED <<meta, ring>>
  /\ UNCHANGED <<run, sender, head, forwarder, nvlink, rcv, rdmaHeads, nvlHeads, out>>

-----------------------------------------------------------------------------
(* Forwarder warps *)

(* Variant: the start of the stream is decoded as -v. *)
ReadMetaShifted(p, s) ==
  /\ s \notin fwd[p].got
  /\ meta[s] # NoWords
  /\ bounds' = [bounds EXCEPT ![p][s] = <<meta[s].start[p], meta[s].end[p]>>]
  /\ LET first == -meta[s].rdmaStart
         last  == -meta[s].rdmaEnd
     IN  fwd' = [fwd EXCEPT ![p].got = @ \cup {s}, ![p].first[s] = first,
                            ![p].left[s] = last - first]
  /\ UNCHANGED <<run, sender, wire, head, ring, tail, meta, fwdHead, retired, lastHead,
                 nvlRing, nvlTail, nvlHead, rcv, rdmaHeads, nvlHeads, out>>

(* A lane waits for the meta words of its node and passes them on. *)
ReadMeta(p, s) ==
  /\ s \notin fwd[p].got
  /\ meta[s] # NoWords
  /\ bounds' = [bounds EXCEPT ![p][s] = <<meta[s].start[p], meta[s].end[p]>>]
  /\ LET first == -meta[s].rdmaStart - 1
         last  == -meta[s].rdmaEnd - 1
     IN  fwd' = [fwd EXCEPT ![p].got = @ \cup {s}, ![p].first[s] = first,
                            ![p].left[s] = last - first]
  /\ UNCHANGED <<run, sender, wire, head, ring, tail, meta, fwdHead, retired, lastHead,
                 nvlRing, nvlTail, nvlHead, rcv, rdmaHeads, nvlHeads, out>>

(* sync_forwarder_smem *)
ForwardersMet == \A p \in Peer : fwd[p].got = Source

(* Variant: any room at all in the peer's queue is enough. *)
ChooseAnyRoom(p, s) ==
  LET f == fwd[p]
      t == IF f.head[s] = f.tail[s] THEN tail[s] ELSE f.tail[s]
  IN  /\ ForwardersMet
      /\ ~f.busy
      /\ NvlRecv - (f.queued - nvlHead[p]) >= 1
      /\ f.left[s] > 0
      /\ t > f.head[s]
      /\ fwd' = [fwd EXCEPT ![p].busy = TRUE, ![p].src = s, ![p].tail[s] = t]
      /\ UNCHANGED <<run, sender, wire, head, ring, tail, meta, fwdHead, retired,
                     lastHead, nvlink, rcv, rdmaHeads, nvlHeads, out>>

(* With room for a chunk in the peer's queue, the forwarder takes a source  *)
(* that has rows for it to look at.  It goes round the sources until it     *)
(* meets one, which may be any that has some by then.  The tail it knows of *)
(* is read again only when all up to it are forwarded.                      *)
Choose(p, s) ==
  LET f == fwd[p]
      t == IF f.head[s] = f.tail[s] THEN tail[s] ELSE f.tail[s]
  IN  /\ ForwardersMet
      /\ ~f.busy
      /\ NvlRecv - (f.queued - nvlHead[p]) >= NvlSend
      /\ f.left[s] > 0
      /\ t > f.head[s]
      /\ fwd' = [fwd EXCEPT ![p].busy = TRUE, ![p].src = s, ![p].tail[s] = t]
      /\ UNCHANGED <<run, sender, wire, head, ring, tail, meta, fwdHead, retired,
                     lastHead, nvlink, rcv, rdmaHeads, nvlHeads, out>>

(* Rows i of [from, to) of source s that are for peer p. *)
Matching(s, p, from, to) ==
  {i \in from .. to - 1 : IsFor(ring[s][RdmaSlot(i)], p)}

(* It copies those for its peer, NvlSend at most, notes the place of each   *)
(* in the stream of its source, and publishes how far it has come: to its   *)
(* coordinator, then to the peer.                                           *)
Forward(p) ==
  LET f    == fwd[p]
      s    == f.src
      from == f.head[s]
      to   == CHOOSE e \in from + 1 .. f.tail[s] :
                LET n == Cardinality(Matching(s, p, from, e)) IN
                \/ n = NvlSend /\ IsFor(ring[s][RdmaSlot(e - 1)], p)
                \/ n < NvlSend /\ e = f.tail[s]
      sent == Matching(s, p, from, to)
      rank(i) == Cardinality({x \in sent : x < i})
  IN  /\ f.busy
      /\ nvlRing' = [nvlRing EXCEPT ![p] =
           [x \in DOMAIN @ |->
              IF \E i \in sent : NvlSlot(f.queued + rank(i)) = x
              THEN ring[s][RdmaSlot(CHOOSE i \in sent : NvlSlot(f.queued + rank(i)) = x)]
              ELSE @[x]]]
      /\ nvlHeads' = [nvlHeads EXCEPT ![p][s] = @ \cup
           {<<f.first[s] + i, IF i \in sent THEN f.seen[s] + rank(i) ELSE -1>> :
              i \in from .. to - 1}]
      /\ fwd' = [fwd EXCEPT ![p].busy = FALSE, ![p].head[s] = to,
                   ![p].left[s] = @ - (to - from),
                   ![p].seen[s] = @ + Cardinality(sent),
                   ![p].queued = @ + Cardinality(sent)]
      /\ fwdHead' = [fwdHead EXCEPT ![p][s] = to]
      /\ nvlTail' = [nvlTail EXCEPT ![p] = f.queued + Cardinality(sent)]
      /\ UNCHANGED <<run, sender, wire, head, ring, tail, meta, retired, lastHead, bounds,
                     nvlHead, rcv, rdmaHeads, out>>

Retire(p) ==
  /\ ForwardersMet
  /\ p \notin retired /\ ~fwd[p].busy
  /\ \A s \in Source : fwd[p].left[s] <= 0
  /\ retired' = retired \cup {p}
  /\ UNCHANGED <<run, sender, wire, head, ring, tail, meta, fwd, fwdHead, lastHead,
                 nvlink, rcv, rdmaHeads, nvlHeads, out>>

(* Variant: slots go back when the first forwarder is done with them. *)
CreditFirst(s) ==
  \E p \in Peer \ retired :
    LET min == fwdHead[p][s] IN
    /\ min >= lastHead[s] + RdmaSend
    /\ head' = [head EXCEPT ![s] = @ + (min - lastHead[s])]
    /\ lastHead' = [lastHead EXCEPT ![s] = min]
    /\ UNCHANGED <<run, sender, wire, ring, tail, meta, fwd, fwdHead, retired, nvlink,
                   rcv, rdmaHeads, nvlHeads, out>>

(* The forwarder coordinator: when every forwarder still at work has gone a *)
(* whole chunk further, the source gets the slots back.                     *)
Credit(s) ==
  \E p \in Peer \ retired :
    LET min == fwdHead[p][s] IN
    /\ \A q \in Peer \ retired : min <= fwdHead[q][s]
    /\ min >= lastHead[s] + RdmaSend
    /\ head' = [head EXCEPT ![s] = @ + (min - lastHead[s])]
    /\ lastHead' = [lastHead EXCEPT ![s] = min]
    /\ UNCHANGED <<run, sender, wire, ring, tail, meta, fwd, fwdHead, retired, nvlink,
                   rcv, rdmaHeads, nvlHeads, out>>

-----------------------------------------------------------------------------
(* The receiver on each peer *)

(* A lane learns the offsets of its node. *)
ReadBounds(p, s) ==
  LET start == -bounds[p][s][1] - 1
      end   == -bounds[p][s][2] - 1
  IN  /\ s \notin rcv[p].got
      /\ bounds[p][s][1] < 0 /\ bounds[p][s][2] < 0
      /\ rcv' = [rcv EXCEPT ![p].got = @ \cup {s}, ![p].offset[s] = Base(s, p) + start,
                            ![p].left = @ + (end - start)]
      /\ UNCHANGED <<run, sender, wire, head, ring, tail, meta, forwarder, nvlink,
                     rdmaHeads, nvlHeads, out>>

(* It waits for the queue to be non-empty. *)
SeeTail(p) ==
  /\ rcv[p].got = Source /\ rcv[p].left > 0
  /\ rcv[p].head = rcv[p].tail
  /\ nvlTail[p] # rcv[p].head
  /\ rcv' = [rcv EXCEPT ![p].tail = nvlTail[p]]
  /\ UNCHANGED <<run, sender, wire, head, ring, tail, meta, forwarder, nvlink,
                 rdmaHeads, nvlHeads, out>>

(* It copies all that is there, each row to the next place of the source    *)
(* that its meta names, and moves the head once at the end.  In a slot that *)
(* was never filled the meta may name any source.                           *)
Receive(p) ==
  LET r == rcv[p]
      batch == r.head .. r.tail - 1
      row(i) == nvlRing[p][NvlSlot(i)]
  IN  \E from \in [batch -> Source] :
        /\ r.head # r.tail
        /\ \A i \in batch : row(i) # None => from[i] = row(i)[1]
        /\ out' = [out EXCEPT ![p] = @ \cup
             {<<r.offset[from[i]] + Cardinality({x \in batch : x < i /\ from[x] = from[i]}),
                row(i)>> : i \in batch}]
        /\ rcv' = [rcv EXCEPT ![p].head = r.tail, ![p].left = @ - Cardinality(batch),
                     ![p].offset = [s \in Source |->
                        @[s] + Cardinality({x \in batch : from[x] = s})]]
        /\ nvlHead' = [nvlHead EXCEPT ![p] = r.tail]
        /\ UNCHANGED <<run, sender, wire, head, ring, tail, meta, forwarder, bounds, nvlRing,
                       nvlTail, rdmaHeads, nvlHeads>>

-----------------------------------------------------------------------------
Init ==
  /\ run \in Runs
  /\ begun    = {}
  /\ at       = [s \in Source |-> [w \in Warp |-> w]]
  /\ copied   = [s \in Source |-> [w \in Warp |-> FALSE]]
  /\ sendTail = [s \in Source |-> 0]
  /\ window   = [s \in Source |-> {}]
  /\ issued   = [s \in Source |-> 0]
  /\ staged   = [s \in Source |-> [x \in 0 .. RdmaRecv - 1 |-> None]]
  /\ wire     = [s \in Source |-> <<>>]
  /\ head     = [s \in Source |-> 0]
  /\ ring     = [s \in Source |-> [x \in 0 .. RdmaRecv - 1 |-> None]]
  /\ tail     = [s \in Source |-> 0]
  /\ meta     = [s \in Source |-> NoWords]
  /\ fwd      = [p \in Peer |->
                  [got |-> {}, first |-> [s \in Source |-> 0], left |-> [s \in Source |-> 0],
                   head |-> [s \in Source |-> 0], tail |-> [s \in Source |-> 0],
                   seen |-> [s \in Source |-> 0], queued |-> 0, busy |-> FALSE, src |-> Node]]
  /\ fwdHead  = [p \in Peer |-> [s \in Source |-> 0]]
  /\ retired  = {}
  /\ lastHead = [s \in Source |-> 0]
  /\ bounds   = [p \in Peer |-> [s \in Source |-> <<0, 0>>]]
  /\ nvlRing  = [p \in Peer |-> [x \in 0 .. NvlRecv - 1 |-> None]]
  /\ nvlTail  = [p \in Peer |-> 0]
  /\ nvlHead  = [p \in Peer |-> 0]
  /\ rcv      = [p \in Peer |-> [got |-> {}, offset |-> [s \in Source |-> 0], left |-> 0,
                                 head |-> 0, tail |-> 0]]
  /\ rdmaHeads = [s \in Source |-> [t \in Tokens(s) |-> -1]]
  /\ nvlHeads  = [p \in Peer |-> [s \in Source |-> {}]]
  /\ out       = [p \in Peer |-> {}]

SenderStep(s) ==
  \/ SendMeta(s) \/ Issue(s)
  \/ \E w \in Warp : SkipToken(s, w) \/ CopyToken(s, w) \/ ReleaseToken(s, w)

PeerStep(p) ==
  \/ \E s \in Source : ReadMeta(p, s) \/ Choose(p, s) \/ ReadBounds(p, s)
  \/ Forward(p) \/ Retire(p)
  \/ SeeTail(p) \/ Receive(p)

Next ==
  \/ \E s \in Source : SenderStep(s) \/ Credit(s) \/ (\E k \in 1 .. Len(wire[s]) : Deliver(s, k))
  \/ \E p \in Peer : PeerStep(p)

Spec == Init /\ [][Next]_vars

(* The blocks are resident and the network carries out what is posted; no   *)
(* step can be taken for ever, so it is enough that some step is.           *)
FairSpec == Spec /\ WF_vars(Next)
-----------------------------------------------------------------------------
Rows == {None} \cup UNION {{Row(s, t) : t \in Tokens(s)} : s \in Source}

(* The state stays in its types: no bit is set beyond the window, no source *)
(* is given back more slots than it has used, no forwarder looks at more    *)
(* rows than the meta words promise, and no queue holds more than its size. *)
TypeOK ==
  /\ begun \subseteq Source /\ retired \subseteq Peer
  /\ \A s \in Source :
       /\ window[s] \subseteq 0 .. WindowSize - 1
       /\ sendTail[s] \in 0 .. Total(s) /\ issued[s] \in 0 .. sendTail[s]
       /\ tail[s] \in 0 .. issued[s] /\ lastHead[s] \in 0 .. tail[s]
       /\ head[s] = lastHead[s]
       /\ staged[s] \in [0 .. RdmaRecv - 1 -> Rows]
       /\ ring[s] \in [0 .. RdmaRecv - 1 -> Rows]
  /\ \A p \in Peer :
       /\ fwd[p].left \in [Source -> Nat]
       /\ fwdHead[p] = fwd[p].head /\ nvlTail[p] = fwd[p].queued
       /\ nvlHead[p] = rcv[p].head /\ rcv[p].left \in Nat
       /\ nvlTail[p] - nvlHead[p] \in 0 .. NvlRecv
       /\ nvlRing[p] \in [0 .. NvlRecv - 1 -> Rows]

(* A token its warp has done with. *)
Released(s, t) == \E w \in Warp : t % NumWarps = w /\ t < at[s][w]

(* The tail of the sender's window is never past a row whose warp is still  *)
(* copying it, whatever the order in which the warps report, and no report  *)
(* is lost when the window moves.                                           *)
WindowSound ==
  \A s \in Source :
    {Index(s, t) : t \in {u \in Chosen(s) : Released(s, u)}} =
      (0 .. sendTail[s] - 1) \cup {sendTail[s] + o : o \in window[s]}

Place(s, p, t) == Cardinality({u \in For(s, p) : u < t})
Due(p) == UNION {{<<Base(s, p) + run.prior + Place(s, p, t), Row(s, t)>> : t \in For(s, p)} :
                   s \in Source}

(* Every row a peer has received is one sent to it, in the place that the   *)
(* prefix sums give it, and when it expects no more it has them all: no     *)
(* slot of either ring is reused before it is read or read before it is     *)
(* written.                                                                 *)
RowsReceived ==
  \A p \in Peer :
    /\ out[p] \subseteq Due(p)
    /\ rcv[p].got = Source /\ rcv[p].left = 0 => out[p] = Due(p)

(* send_nvl_head, from which combine finds the rows again: for each row of  *)
(* a source, its number among those forwarded to the peer, or -1.           *)
HeadsRecorded ==
  \A p \in Peer, s \in Source :
    nvlHeads[p][s] =
      {<<run.prior + i,
         IF TokenAt(s, i) \in For(s, p) THEN Place(s, p, TokenAt(s, i)) ELSE -1>> :
           i \in 0 .. fwdHead[p][s] - 1}

(* The rows of source s that are in the queue of peer p, as they follow each *)
(* other there: the one with k - 1 of them before it is the k-th.            *)
Positions(s, p) == {x \in nvlHead[p] .. nvlTail[p] - 1 :
                      LET row == nvlRing[p][NvlSlot(x)] IN row # None /\ row[1] = s}
FromSource(s, p) ==
  [k \in 1 .. Cardinality(Positions(s, p)) |->
     nvlRing[p][NvlSlot(CHOOSE x \in Positions(s, p) :
                          Cardinality({y \in Positions(s, p) : y < x}) = k - 1)]]
Stream(s, p) == [k \in 1 .. Cardinality(For(s, p)) |->
                   Row(s, CHOOSE t \in For(s, p) : Place(s, p, t) = k - 1)]
Abstract(s, p) == INSTANCE TokenStream WITH
  NumSlots <- NvlRecv, MaxSend <- NvlSend, Token <- Source \X Nat,
  stream <- Stream(s, p), sent <- fwd[p].seen[s], queue <- FromSource(s, p)

(* From every source to every peer the two rings, with all between them,    *)
(* are the same bounded queue as a channel inside a node.                   *)
IsTokenStream ==
  /\ \A s \in Source, p \in Peer : Abstract(s, p)!TInit
  /\ [][\A s \in Source, p \in Peer :
          Abstract(s, p)!TNext \/ UNCHANGED Abstract(s, p)!tvars]_vars

(* Every row arrives and every warp ends: slots given back only in whole    *)
(* chunks, and rows put only in whole chunks, are enough at every size that *)
(* the assertions allow.                                                    *)
AllReceived ==
  <>(/\ retired = Peer
     /\ \A s \in Source : issued[s] = Total(s)
     /\ \A p \in Peer : rcv[p].got = Source /\ rcv[p].left = 0)
=============================================================================
