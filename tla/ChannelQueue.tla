----------------------------- MODULE ChannelQueue ------------------------------
(***************************************************************************)
(* One channel between two ranks in the NVLink dispatch kernel             *)
(* (csrc/kernels/intranode.cu, dispatch): the warps of a sending block     *)
(* that serve one destination, the warps of a receiving block there that   *)
(* serve this source, and the ring buffer between them in the receiver's   *)
(* memory.  Channels share nothing else, so one is enough.                 *)
(*                                                                         *)
(* A token stands for all that the kernel copies with it (hidden state,    *)
(* source index, top-k, scales).  All warps of an end walk the same        *)
(* tokens; each slot is copied by one of them.  bar.sync is a joint step   *)
(* of the warps that wait at it.  The timeouts, which trap the device, are *)
(* left out.                                                               *)
(***************************************************************************)
EXTENDS Integers, FiniteSets

CONSTANTS
  NumTokens,      \* tokens of the channel's task range
  NumSlots,       \* num_recv_buffer_tokens: slots of the ring buffer
  MaxSend,        \* num_max_send_tokens: tokens between two publications
  NumSendWarps,   \* num_send_warps_per_rank
  NumRecvWarps,   \* num_recv_warps_per_rank
  MaxOffset       \* bound: selected tokens in the channels before this one

ASSUME NumTokensAssumption == NumTokens \in Nat
ASSUME WarpsAssumption     == NumSendWarps \in Nat \ {0} /\ NumRecvWarps \in Nat \ {0}
ASSUME OffsetAssumption    == MaxOffset \in Nat

(* Config's constructor, csrc/config.hpp: the chunk is smaller than the buffer. *)
ASSUME ConfigAssumption ==
  /\ MaxSend \in Nat \ {0}
  /\ NumSlots \in Nat
  /\ MaxSend < NumSlots

Token    == 0 .. NumTokens - 1
Slot     == 0 .. NumSlots - 1
SendWarp == 0 .. NumSendWarps - 1
RecvWarp == 0 .. NumRecvWarps - 1
LastRecvWarp == NumRecvWarps - 1

(* Rows of the receiver's tensors, counted from those of this source rank. *)
RecvRow == 0 .. MaxOffset + NumTokens - 1

(* A word of an output tensor nobody has written yet, and what an earlier *)
(* dispatch left in the data buffers.                                      *)
Unset == -2
Stale == -3

VARIABLES
  (* The task, fixed by the layout and by notify_dispatch. *)
  inRank,       \* is_token_in_rank for this destination
  startOffset,  \* channel_prefix_matrix entry of the channel before
  (* The receiver's memory. *)
  startWord, endWord,   \* channel_start_offset, channel_end_offset
  head, tail,           \* channel_head_idx, channel_tail_idx
  slot,                 \* the data buffers
  (* The sender's warps and the tensor they fill. *)
  spc, stoken, schunk, stail, sendHead,
  (* The receiver's warps, their shared tail, and the tensors they fill. *)
  rpc, rhead, rtail, rnext, roffset, rremain, sharedTail,
  recvToken, recvChannelOffset

task  == <<inRank, startOffset>>
words == <<startWord, endWord>>
svars == <<spc, stoken, schunk, stail, sendHead>>
rvars == <<rpc, rhead, rtail, rnext, roffset, rremain, sharedTail,
           recvToken, recvChannelOffset>>
vars  == <<task, words, head, tail, slot, svars, rvars>>

(* How many selected tokens come before token t, and in the whole task: what *)
(* get_dispatch_layout and notify_dispatch count for the prefix matrix.      *)
Pos(t) == Cardinality({u \in Token : u < t /\ inRank[u]})
Total  == Pos(NumTokens)

(* The sender's loop over its tokens, and the receiver's until none remain. *)
NextPass(t) == IF t < NumTokens THEN "wait" ELSE "done"

NextRound(w, n) ==
  IF n <= 0 THEN "done" ELSE IF w = 0 THEN "poll" ELSE "meet"

Init ==
  /\ inRank \in [Token -> BOOLEAN]
  /\ startOffset \in 0 .. MaxOffset
  /\ startWord = 0 /\ endWord = 0
  /\ head = 0 /\ tail = 0
  /\ slot = [i \in Slot |-> Stale]
  /\ spc    = [w \in SendWarp |-> IF w = 0 THEN "offset" ELSE NextPass(0)]
  /\ stoken = [w \in SendWarp |-> 0]
  /\ schunk = [w \in SendWarp |-> 0]
  /\ stail  = [w \in SendWarp |-> 0]
  /\ sendHead = [t \in Token |-> Unset]
  /\ rpc     = [w \in RecvWarp |-> "offset"]
  /\ rhead   = [w \in RecvWarp |-> 0]
  /\ rtail   = [w \in RecvWarp |-> 0]
  /\ rnext   = [w \in RecvWarp |-> 0]
  /\ roffset = [w \in RecvWarp |-> 0]
  /\ rremain = [w \in RecvWarp |-> 0]
  /\ sharedTail = 0
  /\ recvToken  = [i \in RecvRow |-> Unset]
  /\ recvChannelOffset = Unset

--------------------------------------------------------------------------------
(* The sender. *)

(* Variant: the offsets are only negated, and a zero reads as unset. *)
SendOffsetsNegated ==
  /\ spc[0] = "offset"
  /\ startWord' = -startOffset
  /\ endWord'   = -(startOffset + Total)
  /\ spc' = [spc EXCEPT ![0] = NextPass(stoken[0])]
  /\ UNCHANGED <<task, head, tail, slot, stoken, schunk, stail, sendHead, rvars>>

(* Warp 0 announces the channel's range, as -value - 1 so that 0 means unset. *)
SendOffsets ==
  /\ spc[0] = "offset"
  /\ startWord' = -startOffset - 1
  /\ endWord'   = -(startOffset + Total) - 1
  /\ spc' = [spc EXCEPT ![0] = NextPass(stoken[0])]
  /\ UNCHANGED <<task, head, tail, slot, stoken, schunk, stail, sendHead, rvars>>

(* Variant: one free slot is taken for a free chunk. *)
AwaitOneSlot(w) ==
  /\ spc[w] = "wait"
  /\ NumSlots - (stail[w] - head) >= 1
  /\ spc'    = [spc EXCEPT ![w] = "chunk"]
  /\ schunk' = [schunk EXCEPT ![w] = 0]
  /\ UNCHANGED <<task, words, head, tail, slot, stoken, stail, sendHead, rvars>>

(* Each warp reads the head itself, and wants room for a whole chunk. *)
AwaitRoom(w) ==
  /\ spc[w] = "wait"
  /\ NumSlots - (stail[w] - head) >= MaxSend
  /\ spc'    = [spc EXCEPT ![w] = "chunk"]
  /\ schunk' = [schunk EXCEPT ![w] = 0]
  /\ UNCHANGED <<task, words, head, tail, slot, stoken, stail, sendHead, rvars>>

InChunk(w) == spc[w] = "chunk" /\ schunk[w] < MaxSend /\ stoken[w] < NumTokens

(* Variant: the head is saved after the slot number was taken. *)
SaveHeadLate(w, t) ==
  sendHead' = IF t % NumSendWarps = w
              THEN [sendHead EXCEPT ![t] = IF inRank[t] THEN stail[w] + 1 ELSE -1]
              ELSE sendHead

(* send_head[token]: the slot number the token gets, or -1. *)
SaveHead(w, t) ==
  sendHead' = IF t % NumSendWarps = w
              THEN [sendHead EXCEPT ![t] = IF inRank[t] THEN stail[w] ELSE -1]
              ELSE sendHead

SkipToken(w) ==
  /\ InChunk(w)
  /\ ~inRank[stoken[w]]
  /\ SaveHead(w, stoken[w])
  /\ stoken' = [stoken EXCEPT ![w] = @ + 1]
  /\ UNCHANGED <<task, words, head, tail, slot, spc, schunk, stail, rvars>>

(* Variant: only the warp that fills the slot counts it. *)
SendTokenOwnCount(w) ==
  /\ InChunk(w)
  /\ inRank[stoken[w]]
  /\ SaveHead(w, stoken[w])
  /\ LET mine == (stail[w] + 1) % NumSendWarps = w
     IN  /\ slot'  = IF mine THEN [slot EXCEPT ![stail[w] % NumSlots] = stoken[w]] ELSE slot
         /\ stail' = IF mine THEN [stail EXCEPT ![w] = @ + 1] ELSE stail
  /\ schunk' = [schunk EXCEPT ![w] = @ + 1]
  /\ stoken' = [stoken EXCEPT ![w] = @ + 1]
  /\ UNCHANGED <<task, words, head, tail, spc, rvars>>

(* Every warp takes the next slot number; one of them fills the slot. *)
SendToken(w) ==
  /\ InChunk(w)
  /\ inRank[stoken[w]]
  /\ SaveHead(w, stoken[w])
  /\ slot' = IF (stail[w] + 1) % NumSendWarps = w
             THEN [slot EXCEPT ![stail[w] % NumSlots] = stoken[w]]
             ELSE slot
  /\ stail'  = [stail EXCEPT ![w] = @ + 1]
  /\ schunk' = [schunk EXCEPT ![w] = @ + 1]
  /\ stoken' = [stoken EXCEPT ![w] = @ + 1]
  /\ UNCHANGED <<task, words, head, tail, spc, rvars>>

(* Variant: warp 0 publishes without meeting the others. *)
EndChunkUnmet(w) ==
  /\ spc[w] = "chunk"
  /\ ~InChunk(w)
  /\ spc' = [spc EXCEPT ![w] = IF w = 0 THEN "publish" ELSE NextPass(stoken[w])]
  /\ UNCHANGED <<task, words, head, tail, slot, stoken, schunk, stail, sendHead, rvars>>

EndChunk(w) ==
  /\ spc[w] = "chunk"
  /\ ~InChunk(w)
  /\ spc' = [spc EXCEPT ![w] = "meet"]
  /\ UNCHANGED <<task, words, head, tail, slot, stoken, schunk, stail, sendHead, rvars>>

(* bar.sync of the destination's warps; warp 0 still has to publish the tail. *)
SenderBarrier ==
  /\ \A w \in SendWarp : spc[w] = "meet"
  /\ spc' = [w \in SendWarp |-> IF w = 0 THEN "publish" ELSE NextPass(stoken[w])]
  /\ UNCHANGED <<task, words, head, tail, slot, stoken, schunk, stail, sendHead, rvars>>

(* Variant: the tail is published one too high. *)
PublishTailPast ==
  /\ spc[0] = "publish"
  /\ tail' = stail[0] + 1
  /\ spc' = [spc EXCEPT ![0] = NextPass(stoken[0])]
  /\ UNCHANGED <<task, words, head, slot, stoken, schunk, stail, sendHead, rvars>>

PublishTail ==
  /\ spc[0] = "publish"
  /\ tail' = stail[0]
  /\ spc' = [spc EXCEPT ![0] = NextPass(stoken[0])]
  /\ UNCHANGED <<task, words, head, slot, stoken, schunk, stail, sendHead, rvars>>

Sender ==
  \/ SendOffsets
  \/ \E w \in SendWarp : AwaitRoom(w) \/ SkipToken(w) \/ SendToken(w) \/ EndChunk(w)
  \/ SenderBarrier
  \/ PublishTail
--------------------------------------------------------------------------------
(* The receiver. *)

(* Each warp spins until both words are set, and decodes them. *)
ReceiveOffsets(w) ==
  /\ rpc[w] = "offset"
  /\ startWord # 0 /\ endWord # 0
  /\ LET start == -startWord - 1
         total == -endWord - 1 - start
     IN  /\ roffset' = [roffset EXCEPT ![w] = start]
         /\ rremain' = [rremain EXCEPT ![w] = total]
         /\ recvChannelOffset' = IF w = 0 THEN start ELSE recvChannelOffset
         /\ rpc' = [rpc EXCEPT ![w] = NextRound(w, total)]
  /\ UNCHANGED <<task, words, head, tail, slot, svars, rhead, rtail, rnext,
                 sharedTail, recvToken>>

(* Thread 0 waits for the tail to move and shares what it saw. *)
PollTail ==
  /\ rpc[0] = "poll"
  /\ tail # rhead[0]
  /\ sharedTail' = tail
  /\ rpc' = [rpc EXCEPT ![0] = "meet"]
  /\ UNCHANGED <<task, words, head, tail, slot, svars, rhead, rtail, rnext,
                 roffset, rremain, recvToken, recvChannelOffset>>

(* bar.sync before the copies. *)
ReceiverBarrier ==
  /\ \A w \in RecvWarp : rpc[w] = "meet"
  /\ rpc' = [w \in RecvWarp |-> "load"]
  /\ UNCHANGED <<task, words, head, tail, slot, svars, rhead, rtail, rnext,
                 roffset, rremain, sharedTail, recvToken, recvChannelOffset>>

LoadSharedTail(w) ==
  /\ rpc[w] = "load"
  /\ rtail' = [rtail EXCEPT ![w] = sharedTail]
  /\ rnext' = [rnext EXCEPT ![w] = w]
  /\ rpc'   = [rpc EXCEPT ![w] = "copy"]
  /\ UNCHANGED <<task, words, head, tail, slot, svars, rhead, roffset, rremain,
                 sharedTail, recvToken, recvChannelOffset>>

(* The warps deal the new tokens out among themselves by chunk_idx. *)
CopyToken(w) ==
  /\ rpc[w] = "copy"
  /\ rnext[w] < rtail[w] - rhead[w]
  /\ recvToken' = [recvToken EXCEPT ![roffset[w] + rnext[w]] =
                     slot[(rhead[w] + rnext[w]) % NumSlots]]
  /\ rnext' = [rnext EXCEPT ![w] = @ + NumRecvWarps]
  /\ UNCHANGED <<task, words, head, tail, slot, svars, rpc, rhead, rtail, roffset,
                 rremain, sharedTail, recvChannelOffset>>

EndCopy(w) ==
  /\ rpc[w] = "copy"
  /\ rnext[w] >= rtail[w] - rhead[w]
  /\ rhead'   = [rhead EXCEPT ![w] = rtail[w]]
  /\ roffset' = [roffset EXCEPT ![w] = @ + (rtail[w] - rhead[w])]
  /\ rremain' = [rremain EXCEPT ![w] = @ - (rtail[w] - rhead[w])]
  /\ rpc'     = [rpc EXCEPT ![w] = "copied"]
  /\ UNCHANGED <<task, words, head, tail, slot, svars, rtail, rnext, sharedTail,
                 recvToken, recvChannelOffset>>

(* bar.sync after the copies; the last warp still has to release the slots. *)
CopiedBarrier ==
  /\ \A w \in RecvWarp : rpc[w] = "copied"
  /\ rpc' = [w \in RecvWarp |-> IF w = LastRecvWarp THEN "release"
                                 ELSE NextRound(w, rremain[w])]
  /\ UNCHANGED <<task, words, head, tail, slot, svars, rhead, rtail, rnext,
                 roffset, rremain, sharedTail, recvToken, recvChannelOffset>>

ReleaseHead ==
  /\ rpc[LastRecvWarp] = "release"
  /\ head' = rhead[LastRecvWarp]
  /\ rpc' = [rpc EXCEPT ![LastRecvWarp] = NextRound(LastRecvWarp, rremain[LastRecvWarp])]
  /\ UNCHANGED <<task, words, tail, slot, svars, rhead, rtail, rnext, roffset,
                 rremain, sharedTail, recvToken, recvChannelOffset>>

Receiver ==
  \/ \E w \in RecvWarp : ReceiveOffsets(w) \/ LoadSharedTail(w) \/ CopyToken(w) \/ EndCopy(w)
  \/ PollTail
  \/ ReceiverBarrier
  \/ CopiedBarrier
  \/ ReleaseHead
--------------------------------------------------------------------------------
AllDone == (\A w \in SendWarp : spc[w] = "done") /\ (\A w \in RecvWarp : rpc[w] = "done")

(* Both kernels have returned. *)
Finished == AllDone /\ UNCHANGED vars

Next == Sender \/ Receiver \/ Finished

Spec == Init /\ [][Next]_vars

(***************************************************************************)
(* The blocks of both ends are resident at the same time (one block per    *)
(* SM, launched cooperatively), and the hardware keeps running each warp.  *)
(***************************************************************************)
Fairness == WF_vars(Sender) /\ WF_vars(Receiver)

FairSpec == Spec /\ Fairness
--------------------------------------------------------------------------------
SendStates == {"offset", "wait", "chunk", "meet", "publish", "done"}
RecvStates == {"offset", "poll", "meet", "load", "copy", "copied", "release", "done"}

TypeOK ==
  /\ inRank \in [Token -> BOOLEAN]
  /\ startOffset \in 0 .. MaxOffset
  /\ startWord \in Int /\ endWord \in Int
  /\ head \in 0 .. NumTokens /\ tail \in 0 .. NumTokens /\ sharedTail \in 0 .. NumTokens
  /\ slot \in [Slot -> Token \cup {Stale}]
  /\ spc \in [SendWarp -> SendStates]
  /\ stoken \in [SendWarp -> 0 .. NumTokens] /\ stail \in [SendWarp -> 0 .. NumTokens]
  /\ schunk \in [SendWarp -> 0 .. MaxSend]
  /\ sendHead \in [Token -> Token \cup {Unset, -1}]
  /\ rpc \in [RecvWarp -> RecvStates]
  /\ rhead \in [RecvWarp -> 0 .. NumTokens] /\ rtail \in [RecvWarp -> 0 .. NumTokens]
  /\ rnext \in [RecvWarp -> Nat] /\ roffset \in [RecvWarp -> Nat]
  /\ rremain \in [RecvWarp -> Int]
  /\ recvToken \in [RecvRow -> Token \cup {Unset, Stale}]
  /\ recvChannelOffset \in Nat \cup {Unset}

(* Token t is the i-th selected token of the channel, counted from 0. *)
IsSelected(t, i) == t \in Token /\ inRank[t] /\ Pos(t) = i

(***************************************************************************)
(* No slot is overwritten before it is released, and none is published     *)
(* before it is filled: what lies between head and tail is the selected    *)
(* tokens of those numbers.  The senders only ask for room once per chunk, *)
(* each warp on its own reading of the head.                               *)
(***************************************************************************)
UnreadSlotsIntact ==
  \A i \in head .. tail - 1 : IsSelected(slot[i % NumSlots], i)

(***************************************************************************)
(* A receiver row holds the token that belongs there or nothing yet: no    *)
(* warp of the receiver copies a stale or torn slot, whatever the warps of *)
(* the sender do meanwhile.                                                *)
(***************************************************************************)
RowsCorrect ==
  \A row \in RecvRow :
    recvToken[row] # Unset => IsSelected(recvToken[row], row - startOffset)

(***************************************************************************)
(* All warps of the sender bring the same tail to the barrier (the note at *)
(* the tail's publication), though each computed it from its own walk, and *)
(* they stand at the same token.                                           *)
(***************************************************************************)
WarpsShareTail ==
  (\A w \in SendWarp : spc[w] = "meet") =>
    \A v, w \in SendWarp : stail[v] = stail[w] /\ stoken[v] = stoken[w]

(***************************************************************************)
(* send_head, from which combine later computes where each contribution    *)
(* comes from, numbers the selected tokens in order and marks the others.  *)
(***************************************************************************)
SendHeadCorrect ==
  \A t \in Token :
    sendHead[t] # Unset => sendHead[t] = IF inRank[t] THEN Pos(t) ELSE -1

(***************************************************************************)
(* The inductive invariant.                                                *)
(*                                                                         *)
(* SendBase(w) is the tail warp w had when the last barrier released it,   *)
(* the same for all warps.  A warp's tail counts the selected tokens it    *)
(* has walked over; it stays within the room it waited for; at the barrier *)
(* its chunk is full or its tokens are over.                               *)
(***************************************************************************)
SendBase(w) == IF spc[w] \in {"chunk", "meet"} THEN stail[w] - schunk[w] ELSE stail[w]

SendWarpInv(w) ==
  /\ stail[w] = Pos(stoken[w])
  /\ tail <= stail[w] /\ stail[w] <= head + NumSlots
  /\ spc[w] = "chunk" => stail[w] - schunk[w] + MaxSend <= head + NumSlots
  /\ spc[w] = "meet" => schunk[w] = MaxSend \/ stoken[w] = NumTokens
  /\ spc[w] \in {"chunk", "meet"} /\ schunk[w] = MaxSend =>
       stoken[w] # 0 /\ inRank[stoken[w] - 1]
  /\ w # 0 => spc[w] \notin {"offset", "publish"}

SenderInv ==
  /\ \A w \in SendWarp : SendWarpInv(w)
  /\ \A v, w \in SendWarp : SendBase(v) = SendBase(w)

(* What the warp in charge of a slot number has passed is in its slot until released. *)
SlotsFilled ==
  \A w \in SendWarp : \A i \in head .. stail[w] - 1 :
    (i + 1) % NumSendWarps = w => IsSelected(slot[i % NumSlots], i)

(* The offsets, once set, say where the channel's rows start. *)
WordsEncodeOffsets ==
  /\ startWord # 0 => startWord = -startOffset - 1
  /\ endWord # 0 => endWord = -(startOffset + Total) - 1

(***************************************************************************)
(* The receiver's warps are all between the two barriers or all outside.   *)
(* Inside, those that copy or have copied use the shared tail; outside,    *)
(* their heads agree.  Nothing is released that one of them still reads.   *)
(***************************************************************************)
Inside == {"load", "copy", "copied"}

ReceiverInv ==
  /\ head <= tail /\ sharedTail <= tail
  /\ \A w \in RecvWarp :
       /\ head <= rhead[w] /\ rhead[w] <= sharedTail
       /\ rpc[w] = "copy" => rtail[w] = sharedTail
       /\ rpc[w] = "copied" => rhead[w] = sharedTail
       /\ rpc[w] = "offset" => rhead[w] = 0
       /\ rpc[w] # "offset" => roffset[w] = startOffset + rhead[w]
  /\ \/ \A w \in RecvWarp : rpc[w] \in Inside
     \/ /\ \A w \in RecvWarp : rpc[w] \notin Inside
        /\ \A v, w \in RecvWarp : rhead[v] = rhead[w]

(* What is published is what warp 0 had at the last barrier; between that and *)
(* the publication, at most a chunk more.                                     *)
TailPublished ==
  IF spc[0] = "publish" THEN stail[0] <= tail + MaxSend ELSE SendBase(0) = tail

IInv ==
  /\ TypeOK /\ SenderInv /\ TailPublished /\ SlotsFilled /\ WordsEncodeOffsets /\ ReceiverInv
  /\ RowsCorrect /\ SendHeadCorrect

(***************************************************************************)
(* The channel is a bounded FIFO queue between its two ends: PublishTail   *)
(* appends the next selected tokens, ReleaseHead drops the first ones, and *)
(* no other step of any warp shows.                                        *)
(***************************************************************************)
SelectedStream == [k \in 1 .. Total |-> CHOOSE t \in Token : IsSelected(t, k - 1)]

Abstract == INSTANCE TokenStream
  WITH stream <- SelectedStream,
       sent   <- tail,
       queue  <- [i \in 1 .. tail - head |-> slot[(head + i - 1) % NumSlots]]

IsTokenStream == Abstract!TSpec

(* Both ends return, with every selected token in its row and marked sent. *)
AllDelivered ==
  <>(/\ AllDone
     /\ recvChannelOffset = startOffset
     /\ \A t \in Token :
          /\ sendHead[t] # Unset
          /\ inRank[t] => recvToken[startOffset + Pos(t)] = t)
================================================================================
