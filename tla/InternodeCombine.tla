---------------------------- MODULE InternodeCombine ----------------------------
(***************************************************************************)
(* One channel of the internode combine kernel (csrc/kernels/internode.cu, *)
(* combine), as seen from one GPU of node Home that gets its tokens back.  *)
(* On every node s the peers that processed a token send their rows over   *)
(* NVLink to the GPU with Home's NVL rank; there NumForwarders sub-warps   *)
(* add them up, token by token, and one of them puts the sums to Home in   *)
(* chunks; NumReceivers warps on Home add up what the nodes sent.  Two     *)
(* coordinators give slots back, from the heads that the warps keep.       *)
(*                                                                         *)
(* The heads are those that dispatch noted (send_rdma_head, send_nvl_head: *)
(* InternodeDispatch!HeadsRecorded), encoded by cached_notify, which also  *)
(* cleaned the words.  A sum is the set of rows that are in it.  The rings *)
(* of the other homes are separate, and their senders and forwarders only  *)
(* share warps that never wait for one home alone; they are left out, and  *)
(* so are the timeouts, which trap.                                        *)
(***************************************************************************)
EXTENDS Integers, Sequences, FiniteSets

CONSTANTS
  NumRDMARanks,   \* nodes
  NumPeers,       \* NUM_MAX_NVL_PEERS
  Home,           \* the node whose tokens these are
  NumForwarders,  \* kNumWarpsPerForwarder
  NumReceivers,   \* kNumRDMAReceivers
  RdmaSend, RdmaRecv,   \* num_max_rdma_chunked_send_tokens, ..._recv_tokens
  NvlSend,        \* num_max_nvl_chunked_send_tokens
  NvlRecv,        \* num_max_nvl_chunked_recv_tokens_per_rdma
  Ordered,        \* does the network keep a put and a later atomic in order?
  Runs            \* for each token of the channel and each node, the peers that have it

Source   == 0 .. NumRDMARanks - 1
Peer     == 0 .. NumPeers - 1
SubWarp  == 0 .. NumForwarders - 1
Receiver == 0 .. NumReceivers - 1

ASSUME SizesAssumption ==
  /\ NumRDMARanks \in Nat \ {0} /\ NumPeers \in Nat \ {0} /\ Home \in Source
  /\ NumForwarders \in Nat \ {0} /\ NumReceivers \in Nat \ {0}
  /\ RdmaSend \in Nat \ {0} /\ RdmaRecv \in Nat \ {0}
  /\ NvlSend \in Nat \ {0} /\ NvlRecv \in Nat \ {0}
  /\ Ordered \in BOOLEAN

(* Config's constructor, and what the host asserts before the launch. *)
ASSUME ConfigAssumption ==
  /\ 2 * RdmaSend <= RdmaRecv /\ RdmaRecv % RdmaSend = 0
  /\ NvlRecv > RdmaSend /\ NvlRecv > NvlSend
  /\ NvlRecv - NumForwarders >= NvlSend
  /\ RdmaSend >= NumForwarders

ASSUME RunsAssumption ==
  \A r \in Runs :
    /\ IsFiniteSet(DOMAIN r)
    /\ r \in [0 .. Cardinality(DOMAIN r) - 1 -> [Source -> SUBSET Peer]]

VARIABLES
  to,         \* the run
  rdmaHeads, nvlHeads,   \* combined_rdma_head, combined_nvl_head
  filled,     \* per source and peer: rows the NVL sender has copied
  nvlRing, nvlTail, nvlHead,   \* nvl_channel_x, _tail and _head
  start,      \* token_start_idx of each source's forwarder
  room,       \* has it found room for the chunk that starts there?
  sub,        \* its sub-warps: the token each is at, and whether it waits for it
  subHead,    \* forwarder_nvl_head
  subRetired, \* forwarder_retired
  staged,     \* rdma_channel_data's send side, on the source
  wire,       \* what the network has to carry out
  head,       \* rdma_channel_head, on the source
  ring,       \* rdma_channel_data's receive side, on Home
  tail,       \* rdma_channel_tail
  rcv,        \* the RDMA receivers, as the sub-warps
  rcvHead,    \* rdma_receiver_rdma_head
  rcvRetired, \* rdma_receiver_retired
  combined    \* combined_x

nvlink    == <<filled, nvlRing, nvlTail, nvlHead>>
forwarder == <<start, room, sub, subHead, subRetired, staged>>
receiver  == <<rcv, rcvHead, rcvRetired, combined>>
input     == <<to, rdmaHeads, nvlHeads>>
vars == <<input, nvlink, forwarder, wire, head, ring, tail, receiver>>

-----------------------------------------------------------------------------
(* The streams: the tokens that node s has, and that peer p of it has. *)
Token == DOMAIN to
NumTokens == Cardinality(Token)
Chosen(s) == {t \in Token : to[t][s] # {}}
Index(s, t) == Cardinality({u \in Chosen(s) : u < t})
Total(s) == Cardinality(Chosen(s))
TokenAt(s, i) == CHOOSE t \in Chosen(s) : Index(s, t) = i
For(s, p) == {t \in Token : p \in to[t][s]}
Place(s, p, t) == Cardinality({u \in For(s, p) : u < t})
RowAt(s, p, k) == <<s, p, CHOOSE t \in For(s, p) : Place(s, p, t) = k>>

NoSum == {}
RdmaSlot(i) == i % RdmaRecv
NvlSlot(i)  == i % NvlRecv
Smaller(m, n) == IF m <= n THEN m ELSE n
Large == 33554432   \* 1 << 25

(* The kernel takes it for larger than every head ("a heuristic large number"). *)
ASSUME LargeAssumption == \A r \in Runs : Cardinality(DOMAIN r) <= Large

(* Variant: the entries are encoded going up the tokens. *)
EncodedUpward(heads, n) ==
  LET next[t \in 0 .. n - 1] ==
        IF heads[t] >= 0 THEN heads[t] ELSE IF t = 0 THEN Large ELSE next[t - 1]
  IN  [t \in 0 .. n - 1 |-> IF heads[t] < 0 THEN -next[t] - 1 ELSE heads[t]]

(* cached_notify: going down the tokens, an entry -1 becomes the next head  *)
(* that some later token has, coded as -v - 1.                              *)
Encoded(heads, n) ==
  LET next[t \in 0 .. n] ==
        IF t = n THEN Large ELSE IF heads[t] >= 0 THEN heads[t] ELSE next[t + 1]
  IN  [t \in 0 .. n - 1 |-> IF heads[t] < 0 THEN -next[t] - 1 ELSE heads[t]]

RdmaHead(s) ==
  Encoded([t \in Token |-> IF t \in Chosen(s) THEN Index(s, t) ELSE -1], NumTokens)
NvlHead(s, p) ==
  Encoded([i \in 0 .. Total(s) - 1 |->
             LET t == TokenAt(s, i) IN IF t \in For(s, p) THEN Place(s, p, t) ELSE -1],
          Total(s))

(* The head a warp keeps while it waits for a token, and once it has it. *)
Awaited(h) == IF h < 0 THEN -h - 1 ELSE h
Passed(h)  == IF h < 0 THEN -h - 1 ELSE h + 1

(* combine_token: what the ranks whose head is not encoded have in its slot. *)
CombineToken(rings, heads, size) ==
  UNION {rings[x][heads[x] % size] : x \in {y \in DOMAIN heads : heads[y] >= 0}}

-----------------------------------------------------------------------------
(* NVL senders: a chunk is copied when there is room for a whole one, *)
SendChunk(s, p) ==
  LET n == Smaller(NvlSend, Cardinality(For(s, p)) - filled[s][p]) IN
  /\ filled[s][p] = nvlTail[s][p]
  /\ n > 0
  /\ NvlRecv - (filled[s][p] - nvlHead[s][p]) >= NvlSend
  /\ filled' = [filled EXCEPT ![s][p] = @ + n]
  /\ nvlRing' = [nvlRing EXCEPT ![s][p] =
       [x \in DOMAIN @ |->
          LET new == {k \in filled[s][p] .. filled[s][p] + n - 1 : NvlSlot(k) = x}
          IN  IF new # {} THEN {RowAt(s, p, k) : k \in new} ELSE @[x]]]
  /\ UNCHANGED <<input, nvlTail, nvlHead, forwarder, wire, head, ring, tail, receiver>>

(* and then the tail moves. *)
PublishChunk(s, p) ==
  /\ filled[s][p] # nvlTail[s][p]
  /\ nvlTail' = [nvlTail EXCEPT ![s][p] = filled[s][p]]
  /\ UNCHANGED <<input, filled, nvlRing, nvlHead, forwarder, wire, head, ring, tail, receiver>>

-----------------------------------------------------------------------------
(* Forwarders *)

ChunkEnd(s) == Smaller(start[s] + RdmaSend, Total(s))

(* Sub-warp 0 waits for room for the chunk; the sub-warps meet. *)
AwaitRoom(s) ==
  /\ start[s] < Total(s) /\ ~room[s]
  /\ RdmaRecv - (start[s] - head[s]) >= ChunkEnd(s) - start[s]
  /\ room' = [room EXCEPT ![s] = TRUE]
  /\ sub' = [sub EXCEPT ![s] = [j \in SubWarp |-> [at |-> start[s] + j, waits |-> FALSE]]]
  /\ UNCHANGED <<input, nvlink, start, subHead, subRetired, staged, wire, head, ring,
                 tail, receiver>>

(* A sub-warp reads the heads of its token, *)
Expect(s, j) ==
  LET i == sub[s][j].at IN
  /\ room[s] /\ i < ChunkEnd(s) /\ ~sub[s][j].waits
  /\ subHead' = [subHead EXCEPT ![s][j] = [p \in Peer |-> Awaited(nvlHeads[s][p][i])]]
  /\ sub' = [sub EXCEPT ![s][j].waits = TRUE]
  /\ UNCHANGED <<input, nvlink, start, room, subRetired, staged, wire, head, ring, tail,
                 receiver>>

(* Variant: the next head of an encoded entry is waited for too. *)
CombineDecoded(s, j) ==
  LET i == sub[s][j].at
      h == [p \in Peer |-> nvlHeads[s][p][i]]
      sum == CombineToken(nvlRing[s], h, NvlRecv)
  IN  /\ sub[s][j].waits
      /\ \A p \in Peer : nvlTail[s][p] > Awaited(h[p])
      /\ IF s = Home
         THEN ring' = [ring EXCEPT ![s][RdmaSlot(i)] = sum] /\ UNCHANGED staged
         ELSE staged' = [staged EXCEPT ![s][RdmaSlot(i)] = sum] /\ UNCHANGED ring
      /\ subHead' = [subHead EXCEPT ![s][j] = [p \in Peer |-> Passed(h[p])]]
      /\ sub' = [sub EXCEPT ![s][j] = [at |-> i + NumForwarders, waits |-> FALSE]]
      /\ UNCHANGED <<input, nvlink, start, room, subRetired, wire, head, tail, receiver>>

(* waits for the rows, and writes their sum: at Home, where it will be read. *)
Combine(s, j) ==
  LET i == sub[s][j].at
      h == [p \in Peer |-> nvlHeads[s][p][i]]
      sum == CombineToken(nvlRing[s], h, NvlRecv)
  IN  /\ sub[s][j].waits
      /\ \A p \in Peer : nvlTail[s][p] > h[p]
      /\ IF s = Home
         THEN ring' = [ring EXCEPT ![s][RdmaSlot(i)] = sum] /\ UNCHANGED staged
         ELSE staged' = [staged EXCEPT ![s][RdmaSlot(i)] = sum] /\ UNCHANGED ring
      /\ subHead' = [subHead EXCEPT ![s][j] = [p \in Peer |-> Passed(h[p])]]
      /\ sub' = [sub EXCEPT ![s][j] = [at |-> i + NumForwarders, waits |-> FALSE]]
      /\ UNCHANGED <<input, nvlink, start, room, subRetired, wire, head, tail, receiver>>

(* They meet again, and the last one puts the chunk and adds to the tail. *)
IssueChunk(s) ==
  LET n == ChunkEnd(s) - start[s] IN
  /\ room[s]
  /\ \A j \in SubWarp : sub[s][j].at >= ChunkEnd(s)
  /\ IF s = Home
     THEN tail' = [tail EXCEPT ![s] = @ + n] /\ UNCHANGED wire
     ELSE /\ wire' = [wire EXCEPT ![s] = @ \o <<[kind |-> "put", from |-> start[s], num |-> n],
                                                [kind |-> "add", from |-> start[s], num |-> n]>>]
          /\ UNCHANGED tail
  /\ start' = [start EXCEPT ![s] = @ + RdmaSend]
  /\ room' = [room EXCEPT ![s] = FALSE]
  /\ UNCHANGED <<input, nvlink, sub, subHead, subRetired, staged, head, ring, receiver>>

RetireSubWarp(s, j) ==
  /\ start[s] >= Total(s) /\ j \notin subRetired[s]
  /\ subRetired' = [subRetired EXCEPT ![s] = @ \cup {j}]
  /\ UNCHANGED <<input, nvlink, start, room, sub, subHead, staged, wire, head, ring, tail,
                 receiver>>

(* The coordinator gives a peer the slots that all sub-warps still at work  *)
(* have passed.                                                             *)
CreditPeer(s, p) ==
  \E j \in SubWarp \ subRetired[s] :
    LET min == subHead[s][j][p] IN
    /\ \A k \in SubWarp \ subRetired[s] : min <= subHead[s][k][p]
    /\ min > nvlHead[s][p]
    /\ nvlHead' = [nvlHead EXCEPT ![s][p] = min]
    /\ UNCHANGED <<input, filled, nvlRing, nvlTail, forwarder, wire, head, ring, tail, receiver>>

(* The network carries out what a source posts: nothing in the code makes   *)
(* an add wait for the put before it.                                       *)
Deliver(s, k) ==
  /\ k \in 1 .. Len(wire[s])
  /\ Ordered => k = 1
  /\ wire' = [wire EXCEPT ![s] = SubSeq(@, 1, k - 1) \o SubSeq(@, k + 1, Len(@))]
  /\ LET m == wire[s][k]
         slots == {RdmaSlot(m.from + i) : i \in 0 .. m.num - 1}
     IN  \/ /\ m.kind = "put"
            /\ ring' = [ring EXCEPT ![s] =
                 [x \in DOMAIN @ |-> IF x \in slots THEN staged[s][x] ELSE @[x]]]
            /\ UNCHANGED tail
         \/ /\ m.kind = "add"
            /\ tail' = [tail EXCEPT ![s] = @ + m.num]
            /\ UNCHANGED ring
  /\ UNCHANGED <<input, nvlink, forwarder, head, receiver>>

-----------------------------------------------------------------------------
(* RDMA receivers, on Home *)

(* A warp reads the heads of its token, *)
Await(w) ==
  LET t == rcv[w].at IN
  /\ t < NumTokens /\ ~rcv[w].waits
  /\ rcvHead' = [rcvHead EXCEPT ![w] = [s \in Source |-> Awaited(rdmaHeads[s][t])]]
  /\ rcv' = [rcv EXCEPT ![w].waits = TRUE]
  /\ UNCHANGED <<input, nvlink, forwarder, wire, head, ring, tail, rcvRetired, combined>>

(* waits for the sums, and adds them up.  Its heads stay as they are. *)
Receive(w) ==
  LET t == rcv[w].at
      h == [s \in Source |-> rdmaHeads[s][t]]
  IN  /\ rcv[w].waits
      /\ \A s \in Source : tail[s] > h[s]
      /\ combined' = [combined EXCEPT ![t] = CombineToken(ring, h, RdmaRecv)]
      /\ rcv' = [rcv EXCEPT ![w] = [at |-> t + NumReceivers, waits |-> FALSE]]
      /\ UNCHANGED <<input, nvlink, forwarder, wire, head, ring, tail, rcvHead, rcvRetired>>

RetireReceiver(w) ==
  /\ rcv[w].at >= NumTokens /\ w \notin rcvRetired
  /\ rcvRetired' = rcvRetired \cup {w}
  /\ UNCHANGED <<input, nvlink, forwarder, wire, head, ring, tail, rcv, rcvHead, combined>>

(* Variant: slots go back when one receiver has come far enough. *)
CreditSourceFirst(s) ==
  \E w \in Receiver \ rcvRetired :
    LET min == rcvHead[w][s] IN
    /\ min >= head[s] + RdmaSend
    /\ head' = [head EXCEPT ![s] = min]
    /\ UNCHANGED <<input, nvlink, forwarder, wire, ring, tail, receiver>>

(* The coordinator gives a source its slots back a whole chunk at a time. *)
CreditSource(s) ==
  \E w \in Receiver \ rcvRetired :
    LET min == rcvHead[w][s] IN
    /\ \A v \in Receiver \ rcvRetired : min <= rcvHead[v][s]
    /\ min >= head[s] + RdmaSend
    /\ head' = [head EXCEPT ![s] = min]
    /\ UNCHANGED <<input, nvlink, forwarder, wire, ring, tail, receiver>>

-----------------------------------------------------------------------------
Init ==
  /\ to \in Runs
  /\ rdmaHeads = [s \in Source |-> RdmaHead(s)]
  /\ nvlHeads  = [s \in Source |-> [p \in Peer |-> NvlHead(s, p)]]
  /\ filled  = [s \in Source |-> [p \in Peer |-> 0]]
  /\ nvlRing = [s \in Source |-> [p \in Peer |-> [x \in 0 .. NvlRecv - 1 |-> NoSum]]]
  /\ nvlTail = [s \in Source |-> [p \in Peer |-> 0]]
  /\ nvlHead = [s \in Source |-> [p \in Peer |-> 0]]
  /\ start   = [s \in Source |-> 0]
  /\ room    = [s \in Source |-> FALSE]
  /\ sub     = [s \in Source |-> [j \in SubWarp |-> [at |-> j, waits |-> FALSE]]]
  /\ subHead = [s \in Source |-> [j \in SubWarp |-> [p \in Peer |-> 0]]]
  /\ subRetired = [s \in Source |-> {}]
  /\ staged  = [s \in Source |-> [x \in 0 .. RdmaRecv - 1 |-> NoSum]]
  /\ wire    = [s \in Source |-> <<>>]
  /\ head    = [s \in Source |-> 0]
  /\ ring    = [s \in Source |-> [x \in 0 .. RdmaRecv - 1 |-> NoSum]]
  /\ tail    = [s \in Source |-> 0]
  /\ rcv     = [w \in Receiver |-> [at |-> w, waits |-> FALSE]]
  /\ rcvHead = [w \in Receiver |-> [s \in Source |-> 0]]
  /\ rcvRetired = {}
  /\ combined = [t \in Token |-> NoSum]

SourceStep(s) ==
  \/ AwaitRoom(s) \/ IssueChunk(s) \/ CreditSource(s)
  \/ \E k \in 1 .. Len(wire[s]) : Deliver(s, k)
  \/ \E p \in Peer : SendChunk(s, p) \/ PublishChunk(s, p) \/ CreditPeer(s, p)
  \/ \E j \in SubWarp : Expect(s, j) \/ Combine(s, j) \/ RetireSubWarp(s, j)

Next ==
  \/ \E s \in Source : SourceStep(s)
  \/ \E w \in Receiver : Await(w) \/ Receive(w) \/ RetireReceiver(w)

Spec == Init /\ [][Next]_vars

(* The blocks are resident and the network carries out what is posted; no   *)
(* step can be taken for ever, so it is enough that some step is.           *)
FairSpec == Spec /\ WF_vars(Next)
-----------------------------------------------------------------------------
(* The state stays in its types, and no one is given back slots it has not  *)
(* used, unless it has used all it will: the heads that entries of -1 are   *)
(* encoded as, and 1 << 25 after the last, are never ahead of the rows.     *)
TypeOK ==
  /\ \A s \in Source :
       /\ start[s] % RdmaSend = 0 /\ tail[s] <= Total(s)
       /\ head[s] <= tail[s] \/ (head[s] = Large /\ tail[s] = Total(s))
       /\ \A x \in 0 .. RdmaRecv - 1 :
            staged[s][x] \cup ring[s][x] \subseteq {s} \X Peer \X Token
       /\ subRetired[s] \subseteq SubWarp
       /\ \A p \in Peer :
            /\ filled[s][p] - nvlTail[s][p] \in 0 .. NvlSend
            /\ \/ filled[s][p] - nvlHead[s][p] \in 0 .. NvlRecv
               \/ nvlHead[s][p] = Large /\ nvlTail[s][p] = Cardinality(For(s, p))
            /\ \A x \in 0 .. NvlRecv - 1 : nvlRing[s][p][x] \subseteq {s} \X {p} \X Token
  /\ rcvRetired \subseteq Receiver
  /\ \A t \in Token : combined[t] \subseteq Source \X Peer \X {t}

(* When a warp has done with a token, its result is the sum of the rows of  *)
(* all GPUs that have the token, on every node, and of no other: no slot of *)
(* either ring is reused before all warps that read it have, or read before *)
(* it is written.                                                           *)
Held(t) == {x \in Source \X Peer \X {t} : x[2] \in to[t][x[1]]}
RowsCombined ==
  \A w \in Receiver : \A t \in Token :
    t % NumReceivers = w /\ t < rcv[w].at => combined[t] = Held(t)

(* Every token comes back and every warp ends.  A receiver waits for all    *)
(* nodes at once, a sub-warp for all peers at once, and slots go back only  *)
(* as far as the slowest warp has come, to a node only in whole chunks: at  *)
(* every size that the host allows they cannot wait for each other.         *)
AllCombined ==
  <>(rcvRetired = Receiver /\ \A s \in Source : subRetired[s] = SubWarp)
=============================================================================
