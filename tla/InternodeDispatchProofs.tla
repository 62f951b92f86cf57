------------------------ MODULE InternodeDispatchProofs ------------------------
(***************************************************************************)
(* Proofs about internode dispatch, for any number of warps, nodes, peers  *)
(* and tokens, and any sizes of the window and of the rings: the sender's  *)
(* window is sound; and when the network keeps a put and a later atomic in *)
(* order, what is on its way accounts for what is issued, the counters of  *)
(* every ring keep their order, and the rows reach their peers.            *)
(***************************************************************************)
EXTENDS InternodeDispatch, DataLemmas, FiniteSetTheorems, SequenceTheorems,
        WellFoundedInduction, TLAPS

(* Each warp walks its own residue class, and has copied only a token of   *)
(* the stream.                                                             *)
WarpsInTurn ==
  /\ at \in [Source -> [Warp -> Nat]]
  /\ copied \in [Source -> [Warp -> BOOLEAN]]
  /\ \A s \in Source, w \in Warp :
       /\ at[s][w] % NumWarps = w
       /\ copied[s][w] => at[s][w] \in Chosen(s)

WindowTyped ==
  /\ run \in Runs
  /\ sendTail \in [Source -> Nat]
  /\ window \in [Source -> SUBSET (0 .. WindowSize - 1)]

IInv == WindowTyped /\ WarpsInTurn /\ WindowSound
-----------------------------------------------------------------------------
(* The tokens of a channel are numbered from 0, and finite in number. *)
LEMMA TokensFinite ==
  ASSUME run \in Runs, NEW s \in Source
  PROVE  IsFiniteSet(Tokens(s)) /\ Tokens(s) \subseteq Nat
<1>1. /\ IsFiniteSet(DOMAIN run.to[s])
      /\ run.to[s] \in [0 .. Cardinality(DOMAIN run.to[s]) - 1 -> SUBSET Peer]
  BY RunsAssumption
<1>2. Cardinality(DOMAIN run.to[s]) \in Nat
  BY <1>1, FS_CardinalityType
<1>3. DOMAIN run.to[s] = 0 .. Cardinality(DOMAIN run.to[s]) - 1
  BY <1>1
<1> QED BY <1>1, <1>2, <1>3 DEF Tokens

(* Index numbers the stream of a source in order. *)
LEMMA IndexInOrder ==
  ASSUME run \in Runs, NEW s \in Source
  PROVE  /\ \A t \in Chosen(s) : Index(s, t) \in Nat
         /\ \A t, u \in Chosen(s) : t < u => Index(s, t) < Index(s, u)
<1> DEFINE Before(t) == {u \in Chosen(s) : u < t}
<1>1. Chosen(s) \subseteq Nat /\ IsFiniteSet(Chosen(s))
  BY TokensFinite, FS_Subset DEF Chosen
<1>2. \A t : IsFiniteSet(Before(t)) /\ Cardinality(Before(t)) \in Nat
  BY <1>1, FS_Subset, FS_CardinalityType
<1>3. ASSUME NEW t \in Chosen(s), NEW u \in Chosen(s), t < u
      PROVE  Cardinality(Before(t)) < Cardinality(Before(u))
  <2>1. Before(t) \cup {t} \subseteq Before(u) /\ t \notin Before(t)
    BY <1>1, <1>3
  <2>2. Cardinality(Before(t) \cup {t}) = Cardinality(Before(t)) + 1
    BY <1>2, <2>1, FS_AddElement
  <2>3. Cardinality(Before(t) \cup {t}) <= Cardinality(Before(u))
    BY <1>2, <2>1, FS_Subset
  <2> QED BY <1>2, <2>2, <2>3
<1> QED BY <1>2, <1>3 DEF Index

(* Two rows of a stream never have the same number. *)
LEMMA IndexInjective ==
  ASSUME run \in Runs, NEW s \in Source, NEW t \in Chosen(s), NEW u \in Chosen(s),
         Index(s, t) = Index(s, u)
  PROVE  t = u
<1>1. t \in Nat /\ u \in Nat
  BY TokensFinite DEF Chosen
<1>2. t < u \/ u < t \/ t = u
  BY <1>1
<1> QED BY <1>2, IndexInOrder

(* LeadingOnes is what its name says: ~mask has a lowest bit, or none.     *)
LEMMA LeadingOnesSpec ==
  ASSUME NEW bits \in SUBSET (0 .. WindowSize - 1)
  PROVE  /\ LeadingOnes(bits) \in 0 .. WindowSize
         /\ \A o \in 0 .. LeadingOnes(bits) - 1 : o \in bits
         /\ LeadingOnes(bits) \notin bits
<1> DEFINE Clear == {n \in Nat : n \notin bits}
<1>1. WindowSize \in Clear
  BY SizesAssumption
<1>2. PICK n \in Clear : \A m \in Clear : n <= m
  <2>1. PICK n \in Clear : \A m \in Clear : ~ (<<m, n>> \in OpToRel(<, Nat))
    BY <1>1, NatLessThanWellFounded, WFMin
  <2>2. \A m \in Clear : ~(m < n)
    BY <2>1 DEF OpToRel
  <2> QED BY <2>2
<1>3. /\ n \in 0 .. WindowSize
      /\ (\A o \in 0 .. n - 1 : o \in bits) /\ n \notin bits
  BY <1>1, <1>2, SizesAssumption
<1> QED BY <1>3 DEF LeadingOnes
-----------------------------------------------------------------------------
(* The window invariant holds at the start. *)
LEMMA InitIInv == Init => IInv
<1> SUFFICES ASSUME Init PROVE IInv
  OBVIOUS
<1>1. WindowTyped
  BY DEF Init, WindowTyped
<1>2. WarpsInTurn
  <2> SUFFICES ASSUME NEW w \in Warp PROVE w % NumWarps = w
    BY SizesAssumption DEF Init, WarpsInTurn, Warp
  <2> QED BY SizesAssumption DEF Warp
<1>3. WindowSound
  <2> SUFFICES ASSUME NEW s \in Source
               PROVE  /\ \A t \in Chosen(s) : ~Released(s, t)
                      /\ (0 .. sendTail[s] - 1)
                           \cup {sendTail[s] + o : o \in window[s]} = {}
    BY DEF WindowSound
  <2>1. sendTail[s] = 0 /\ window[s] = {}
    BY DEF Init
  <2>2. ASSUME NEW t \in Chosen(s) PROVE ~Released(s, t)
    <3> SUFFICES ASSUME NEW w \in Warp, t % NumWarps = w, t < w PROVE FALSE
      BY DEF Released, Init
    <3>1. t \in Nat
      BY <1>1, TokensFinite DEF Chosen, WindowTyped
    <3>2. t % NumWarps = t
      BY <3>1, SizesAssumption DEF Warp
    <3> QED BY <3>1, <3>2
  <2> QED BY <2>1, <2>2
<1> QED BY <1>1, <1>2, <1>3 DEF IInv

(* What a warp has released, once it has gone on by one of its tokens. *)
LEMMA ReleasedNext ==
  ASSUME IInv, run' = run, NEW s \in Source, NEW w \in Warp,
         at' = [at EXCEPT ![s][w] = @ + NumWarps]
  PROVE  /\ \A r \in Source : r # s => \A t : Released(r, t)' <=> Released(r, t)
         /\ \A t \in Nat : Released(s, t)' <=> Released(s, t) \/ t = at[s][w]
         /\ ~Released(s, at[s][w])
<1> DEFINE a == at[s][w]
<1> USE DEF IInv
<1>1. a \in Nat /\ a % NumWarps = w /\ NumWarps \in Nat \ {0}
  BY SizesAssumption DEF WarpsInTurn
<1>2. \A r \in Source, v \in Warp :
        at'[r][v] = IF r = s /\ v = w THEN a + NumWarps ELSE at[r][v]
  BY DEF WarpsInTurn
<1>3. \A r \in Source : r # s => \A t : Released(r, t)' <=> Released(r, t)
  BY <1>2 DEF Released
<1>4. ASSUME NEW t \in Nat PROVE Released(s, t)' <=> Released(s, t) \/ t = a
  <2>1. ASSUME Released(s, t) PROVE Released(s, t)'
    <3>1. PICK v \in Warp : t % NumWarps = v /\ t < at[s][v]
      BY <2>1 DEF Released
    <3>2. t < at'[s][v]
      BY <1>1, <1>2, <3>1
    <3> QED BY <3>1, <3>2 DEF Released
  <2>2. ASSUME t = a PROVE Released(s, t)'
    <3>1. a < at'[s][w]
      BY <1>1, <1>2
    <3> QED BY <1>1, <2>2, <3>1 DEF Released
  <2>3. ASSUME Released(s, t)' PROVE Released(s, t) \/ t = a
    <3>1. PICK v \in Warp : t % NumWarps = v /\ t < at'[s][v]
      BY <2>3 DEF Released
    <3>2. CASE v # w
      BY <1>2, <3>1, <3>2 DEF Released
    <3>3. CASE v = w /\ t < a
      BY <1>1, <3>1, <3>3 DEF Released
    <3>4. CASE v = w /\ a <= t
      BY <1>1, <1>2, <3>1, <3>4, SameResidue
    <3> QED BY <1>1, <3>2, <3>3, <3>4
  <2> QED BY <2>1, <2>2, <2>3
<1>5. ~Released(s, a)
  BY <1>1 DEF Released
<1> QED BY <1>3, <1>4, <1>5

(* The window stays sound while no chosen token is released. *)
LEMMA SoundKept ==
  ASSUME WindowSound, UNCHANGED <<run, sendTail, window>>,
         \A r \in Source : \A t \in Chosen(r) : Released(r, t)' <=> Released(r, t)
  PROVE  WindowSound'
<1> SUFFICES ASSUME NEW r \in Source
             PROVE  {Index(r, t)' : t \in {u \in Chosen(r)' : Released(r, u)'}} =
                      (0 .. sendTail'[r] - 1) \cup {sendTail'[r] + o : o \in window'[r]}
  BY DEF WindowSound
<1>1. {Index(r, t) : t \in {u \in Chosen(r) : Released(r, u)}} =
         (0 .. sendTail[r] - 1) \cup {sendTail[r] + o : o \in window[r]}
  BY DEF WindowSound
<1>2. Chosen(r)' = Chosen(r) /\ \A t : Index(r, t)' = Index(r, t)
  BY DEF Chosen, Tokens, Index
<1>3. {u \in Chosen(r)' : Released(r, u)'} = {u \in Chosen(r) : Released(r, u)}
  BY <1>2
<1> QED BY <1>1, <1>2, <1>3

(* A step that leaves the warps and the window alone. *)
LEMMA OthersKeep ==
  ASSUME IInv, UNCHANGED <<run, at, copied, sendTail, window>>
  PROVE  IInv'
<1>1. WindowTyped' /\ WarpsInTurn'
  BY DEF IInv, WindowTyped, WarpsInTurn, Chosen, Tokens
<1>2. \A r \in Source : \A t \in Chosen(r) : Released(r, t)' <=> Released(r, t)
  BY DEF Released
<1>3. WindowSound'
  BY <1>2, SoundKept DEF IInv
<1> QED BY <1>1, <1>3 DEF IInv

(* A warp that goes on NumWarps tokens stays in its residue class. *)
LEMMA WarpsGoOn ==
  ASSUME IInv, run' = run, NEW s \in Source, NEW w \in Warp,
         at' = [at EXCEPT ![s][w] = @ + NumWarps],
         copied' = [copied EXCEPT ![s][w] = FALSE]
  PROVE  WarpsInTurn'
<1>1. \A r \in Source : Chosen(r)' = Chosen(r)
  BY DEF Chosen, Tokens
<1>2. at[s][w] \in Nat /\ NumWarps \in Nat \ {0} /\ at[s][w] % NumWarps = w
  BY SizesAssumption DEF IInv, WarpsInTurn
<1>3. (at[s][w] + NumWarps) % NumWarps = w
  BY <1>2, NextResidue
<1>4. at' \in [Source -> [Warp -> Nat]] /\ copied' \in [Source -> [Warp -> BOOLEAN]]
  BY <1>2 DEF IInv, WarpsInTurn
<1>5. ASSUME NEW r \in Source, NEW v \in Warp
      PROVE  at'[r][v] % NumWarps = v /\ (copied'[r][v] => at'[r][v] \in Chosen(r))
  <2>1. CASE r = s /\ v = w
    BY <1>2, <1>3, <2>1 DEF IInv, WarpsInTurn
  <2>2. CASE ~(r = s /\ v = w)
    BY <2>2 DEF IInv, WarpsInTurn
  <2> QED BY <2>1, <2>2
<1> QED BY <1>1, <1>4, <1>5 DEF WarpsInTurn

(* A token that nobody is to have changes nothing of the window. *)
LEMMA SkipKeeps ==
  ASSUME IInv, NEW s \in Source, NEW w \in Warp, SkipToken(s, w)
  PROVE  IInv'
<1>1. /\ UNCHANGED <<run, copied, sendTail, window>>
      /\ at[s][w] \notin Chosen(s)
      /\ at' = [at EXCEPT ![s][w] = @ + NumWarps]
  BY DEF SkipToken
<1>2. WindowTyped'
  BY <1>1 DEF IInv, WindowTyped
<1>3. \A r \in Source : Chosen(r) \subseteq Nat
  BY TokensFinite DEF IInv, WindowTyped, Chosen
<1>4. WarpsInTurn'
  <2>1. copied' = [copied EXCEPT ![s][w] = FALSE]
    BY <1>1 DEF IInv, WarpsInTurn
  <2> QED BY <1>1, <2>1, WarpsGoOn
<1>5. \A r \in Source : \A t \in Chosen(r) : Released(r, t)' <=> Released(r, t)
  BY <1>1, <1>3, ReleasedNext
<1>6. WindowSound'
  BY <1>1, <1>5, SoundKept DEF IInv
<1> QED BY <1>2, <1>4, <1>6 DEF IInv

(* Copying a row changes nothing of the window. *)
LEMMA CopyKeeps ==
  ASSUME IInv, NEW s \in Source, NEW w \in Warp, CopyToken(s, w)
  PROVE  IInv'
<1>1. /\ UNCHANGED <<run, at, sendTail, window>>
      /\ at[s][w] \in Chosen(s)
      /\ copied' = [copied EXCEPT ![s][w] = TRUE]
  BY DEF CopyToken
<1>2. WindowTyped' /\ WindowSound'
  <2>1. WindowTyped'
    BY <1>1 DEF IInv, WindowTyped
  <2>2. \A r \in Source : \A t \in Chosen(r) : Released(r, t)' <=> Released(r, t)
    BY <1>1 DEF Released
  <2> QED BY <1>1, <2>1, <2>2, SoundKept DEF IInv
<1>3. \A r \in Source : Chosen(r)' = Chosen(r)
  BY <1>1 DEF Chosen, Tokens
<1>4. WarpsInTurn'
  BY <1>1, <1>3 DEF IInv, WarpsInTurn
<1> QED BY <1>2, <1>4 DEF IInv

(***************************************************************************)
(* The step under the lock.  The row's number is not yet in the set that   *)
(* WindowSound speaks of, so its offset is not negative; its bit, and then *)
(* the shift by the leading ones, keep the set.                            *)
(***************************************************************************)
LEMMA ReleaseKeeps ==
  ASSUME IInv, NEW s \in Source, NEW w \in Warp, ReleaseToken(s, w)
  PROVE  IInv'
<1> DEFINE a      == at[s][w]
           i      == Index(s, a)
           offset == i - sendTail[s]
           bits   == window[s] \cup {offset}
           n      == IF offset = 0 THEN LeadingOnes(bits) ELSE 0
           Nums(r) == {Index(r, t) : t \in {u \in Chosen(r) : Released(r, u)}}
<1>1. /\ run' = run /\ copied[s][w] /\ offset < WindowSize
      /\ sendTail' = [sendTail EXCEPT ![s] = @ + n]
      /\ window' = [window EXCEPT ![s] = {o - n : o \in {b \in bits : b >= n}}]
      /\ copied' = [copied EXCEPT ![s][w] = FALSE]
      /\ at' = [at EXCEPT ![s][w] = @ + NumWarps]
  BY DEF ReleaseToken
<1>2. /\ a \in Chosen(s) /\ i \in Nat
      /\ sendTail[s] \in Nat /\ window[s] \subseteq 0 .. WindowSize - 1
      /\ WindowSize \in Nat \ {0}
  BY <1>1, IndexInOrder, SizesAssumption DEF IInv, WarpsInTurn, WindowTyped
<1>3. Nums(s) = (0 .. sendTail[s] - 1) \cup {sendTail[s] + o : o \in window[s]}
  BY DEF IInv, WindowSound
<1>4. i \notin Nums(s)
  <2>1. ~Released(s, a)
    BY <1>1, ReleasedNext
  <2>2. \A t \in Chosen(s) : Index(s, t) = i => t = a
    BY <1>2, IndexInjective DEF IInv, WindowTyped
  <2> QED BY <2>1, <2>2
<1>5. offset \in 0 .. WindowSize - 1
  BY <1>1, <1>2, <1>3, <1>4
<1>6. bits \in SUBSET (0 .. WindowSize - 1)
  BY <1>2, <1>5
<1>7. /\ n \in 0 .. WindowSize
      /\ \A o \in 0 .. n - 1 : o \in bits
  BY <1>2, <1>6, LeadingOnesSpec
<1> HIDE DEF n
<1>8. WindowTyped'
  <2>1. {o - n : o \in {b \in bits : b >= n}} \subseteq 0 .. WindowSize - 1
    <3>1. ASSUME NEW o \in bits, o >= n PROVE o - n \in 0 .. WindowSize - 1
      BY <1>2, <1>6, <1>7, <3>1
    <3> HIDE DEF bits
    <3> QED BY <3>1
  <2> QED BY <1>1, <1>2, <1>7, <2>1 DEF IInv, WindowTyped
<1>9. WarpsInTurn'
  BY <1>1, WarpsGoOn
<1>10. \A r \in Source : /\ Chosen(r)' = Chosen(r) /\ Chosen(r) \subseteq Nat
                         /\ \A t : Index(r, t)' = Index(r, t)
  BY <1>1, TokensFinite DEF IInv, WindowTyped, Chosen, Tokens, Index
<1> DEFINE Sound(r) ==
             {Index(r, t)' : t \in {u \in Chosen(r)' : Released(r, u)'}} =
                (0 .. sendTail'[r] - 1) \cup {sendTail'[r] + o : o \in window'[r]}
<1>11. ASSUME NEW r \in Source PROVE Sound(r)
  <2>1. CASE r # s
    <3>1. {u \in Chosen(r)' : Released(r, u)'} = {u \in Chosen(r) : Released(r, u)}
      BY <1>1, <1>10, <2>1, ReleasedNext
    <3>2. sendTail'[r] = sendTail[r] /\ window'[r] = window[r]
      BY <1>1, <2>1 DEF IInv, WindowTyped
    <3>3. Nums(r) = (0 .. sendTail[r] - 1) \cup {sendTail[r] + o : o \in window[r]}
      BY DEF IInv, WindowSound
    <3> QED BY <1>10, <3>1, <3>2, <3>3, ZenonT(30)
  <2>2. CASE r = s
    <3>1. {u \in Chosen(s)' : Released(s, u)'} = {u \in Chosen(s) : Released(s, u)} \cup {a}
      BY <1>1, <1>2, <1>10, ReleasedNext, ZenonT(60)
    <3>2. {Index(s, t)' : t \in {u \in Chosen(s)' : Released(s, u)'}} = Nums(s) \cup {i}
      BY <1>10, <3>1
    <3> DEFINE shifted == {o - n : o \in {b \in bits : b >= n}}
               moved   == sendTail[s] + n
    <3>3. sendTail'[s] = moved /\ window'[s] = shifted
      BY <1>1 DEF IInv, WindowTyped
    <3>4. Nums(s) \cup {i} = (0 .. sendTail[s] - 1) \cup {sendTail[s] + o : o \in bits}
      <4>1. i = sendTail[s] + offset
        BY <1>2
      <4> QED BY <1>3, <4>1
    <3> DEFINE Left  == (0 .. sendTail[s] - 1) \cup {sendTail[s] + o : o \in bits}
               Right == (0 .. moved - 1) \cup {moved + o : o \in shifted}
    <3>5. Left \subseteq Right
      <4> SUFFICES ASSUME NEW o \in bits PROVE sendTail[s] + o \in Right
        BY <1>2, <1>7
      <4>1. CASE o < n
        BY <1>2, <1>6, <1>7, <4>1
      <4>2. CASE o >= n
        <5>1. sendTail[s] + o = sendTail[s] + n + (o - n)
          BY <1>2, <1>6, <1>7
        <5> QED BY <4>2, <5>1
      <4> QED BY <1>6, <1>7, <4>1, <4>2
    <3>6. Right \subseteq Left
      <4>1. ASSUME NEW k \in 0 .. moved - 1 PROVE k \in Left
        <5>1. CASE k < sendTail[s]
          BY <1>2, <1>7, <5>1
        <5>2. CASE k >= sendTail[s]
          <6>1. k - sendTail[s] \in bits
            BY <1>2, <1>7, <5>2
          <6>2. k = sendTail[s] + (k - sendTail[s])
            BY <1>2, <1>7
          <6> QED BY <6>1, <6>2
        <5> QED BY <1>2, <1>7, <5>1, <5>2
      <4>2. ASSUME NEW x \in bits PROVE moved + (x - n) \in Left
        <5>1. moved + (x - n) = sendTail[s] + x
          BY <1>2, <1>6, <1>7
        <5> QED BY <5>1
      <4>3. \A o \in shifted : moved + o \in Left
        <5>1. \A o \in shifted : \E x \in bits : o = x - n
          OBVIOUS
        <5> HIDE DEF Left, shifted, bits, moved
        <5> QED BY <4>2, <5>1
      <4> HIDE DEF Left, shifted, moved
      <4> QED BY <4>1, <4>3
    <3>7. Left = Right
      BY <3>5, <3>6
    <3>8. (0 .. sendTail'[s] - 1) \cup {sendTail'[s] + o : o \in window'[s]} = Right
      <4> HIDE DEF moved, shifted
      <4> QED BY <3>3
    <3>9. Sound(s)
      <4> HIDE DEF Left, Right
      <4>1. Nums(s) \cup {i} = Right
        BY <3>4, <3>7 DEF Left
      <4> HIDE DEF Nums, i
      <4> QED BY <3>2, <3>8, <4>1
    <3> HIDE DEF Sound
    <3> QED BY <2>2, <3>9
  <2> QED BY <2>1, <2>2
<1>12. WindowSound'
  BY <1>11 DEF WindowSound
<1> QED BY <1>8, <1>9, <1>12 DEF IInv

-----------------------------------------------------------------------------
(* Every step keeps the window invariant. *)
LEMMA NextIInv == ASSUME IInv, [Next]_vars PROVE IInv'
<1>1. ASSUME NEW s \in Source, NEW w \in Warp,
             SkipToken(s, w) \/ CopyToken(s, w) \/ ReleaseToken(s, w)
      PROVE  IInv'
  BY <1>1, SkipKeeps, CopyKeeps, ReleaseKeeps
<1>2. ASSUME NEW s \in Source, SendMeta(s) \/ Issue(s) \/ Credit(s) PROVE IInv'
  BY <1>2, OthersKeep DEF SendMeta, Issue, Credit, sender
<1>3. ASSUME NEW s \in Source, NEW k \in 1 .. Len(wire[s]), Deliver(s, k) PROVE IInv'
  BY <1>3, OthersKeep DEF Deliver, sender
<1>4. ASSUME NEW p \in Peer, PeerStep(p) PROVE IInv'
  <2>1. ASSUME NEW s \in Source, ReadMeta(p, s) \/ Choose(p, s) \/ ReadBounds(p, s)
        PROVE  IInv'
    BY <2>1, OthersKeep DEF ReadMeta, Choose, ReadBounds, sender
  <2>2. CASE Forward(p)
    BY <2>2, OthersKeep DEF Forward, sender
  <2>3. CASE Retire(p) \/ SeeTail(p)
    BY <2>3, OthersKeep DEF Retire, SeeTail, sender
  <2>4. CASE Receive(p)
    BY <2>4, OthersKeep DEF Receive, sender
  <2> QED BY <1>4, <2>1, <2>2, <2>3, <2>4 DEF PeerStep
<1>5. CASE UNCHANGED vars
  BY <1>5, OthersKeep DEF vars, sender
<1> QED BY <1>1, <1>2, <1>3, <1>4, <1>5 DEF Next, SenderStep

(* The window, the warps' turns and the soundness of the tail, together.    *)
THEOREM Invariance == Spec => []IInv
<1>1. IInv /\ [Next]_vars => IInv'
  BY NextIInv
<1> QED BY <1>1, InitIInv, PTL DEF Spec

(* rdma_send_channel_tail counts exactly a run of rows that their warps     *)
(* have reported, and no report is lost, in whatever order the warps take   *)
(* the lock and however few bits the window has.                            *)
THEOREM SoundWindow == Spec => []WindowSound
<1>1. IInv => WindowSound
  BY DEF IInv
<1> QED BY <1>1, Invariance, PTL
-----------------------------------------------------------------------------
(* What the network carries from a source: its meta words, then for each   *)
(* chunk a put of the rows and an add of their number to the tail.         *)
Message == [kind : {"meta"}] \cup [kind : {"put"}, from : Nat, num : Nat \ {0}]
                             \cup [kind : {"add"}, num : Nat \ {0}]

(* Where in the stream the k-th message of v starts, if it is a put; past  *)
(* the last one, where the next put will: after the e rows issued.         *)
Start(v, e, k) == IF k \in 1 .. Len(v) /\ v[k].kind = "put" THEN v[k].from ELSE e

PutNext(v, k) == k < Len(v) => v[k + 1].kind = "put"

IsMeta(v, t, e, k) == v[k].kind = "meta" /\ k = 1 /\ PutNext(v, k) /\ t = Start(v, e, 2)

IsPut(v, t, e, k) ==
  /\ v[k].kind = "put" /\ k < Len(v)
  /\ v[k + 1] = [kind |-> "add", num |-> v[k].num]
  /\ v[k].from + v[k].num = Start(v, e, k + 2)
  /\ v[k].from + v[k].num <= e
  /\ k = 1 => v[k].from = t

IsAdd(v, t, e, k) ==
  /\ v[k].kind = "add" /\ PutNext(v, k)
  /\ k = 1 => t + v[k].num = Start(v, e, 2) /\ t + v[k].num <= e

IsLink(v, t, e, k) == IsMeta(v, t, e, k) \/ IsPut(v, t, e, k) \/ IsAdd(v, t, e, k)

(* The messages v account for what is issued, e, beyond the tail, t.       *)
Chain(v, t, e) ==
  /\ v \in Seq(Message) /\ t \in Nat /\ e \in Nat /\ t <= e
  /\ \A k \in 1 .. Len(v) : IsLink(v, t, e, k)
  /\ v = <<>> => t = e
-----------------------------------------------------------------------------
(* The fields of each kind of message. *)
LEMMA MessageType ==
  ASSUME NEW m \in Message
  PROVE  /\ m.kind \in {"meta", "put", "add"}
         /\ m.kind = "put" => m.from \in Nat /\ m.num \in Nat \ {0}
         /\ m.kind = "add" => m.num \in Nat \ {0}
BY DEF Message

(* Two messages more at the end. *)
LEMMA AppendTwo ==
  ASSUME NEW S, NEW w \in Seq(S), NEW a \in S, NEW b \in S
  PROVE  /\ w \o <<a, b>> \in Seq(S) /\ Len(w \o <<a, b>>) = Len(w) + 2
         /\ \A k \in 1 .. Len(w) : (w \o <<a, b>>)[k] = w[k]
         /\ (w \o <<a, b>>)[Len(w) + 1] = a /\ (w \o <<a, b>>)[Len(w) + 2] = b
<1> DEFINE e == <<a, b>>
<1>1. e \in Seq(S) /\ Len(e) = 2 /\ e[1] = a /\ e[2] = b
  OBVIOUS
<1>2. Len(w) \in Nat
  OBVIOUS
<1> HIDE DEF e
<1>3. /\ w \o e \in Seq(S) /\ Len(w \o e) = Len(w) + Len(e)
      /\ \A k \in 1 .. Len(w) + Len(e) :
           (w \o e)[k] = IF k <= Len(w) THEN w[k] ELSE e[k - Len(w)]
  BY <1>1, ConcatProperties, Zenon
<1>4. /\ Len(w) + 1 \in 1 .. Len(w) + 2 /\ ~(Len(w) + 1 <= Len(w)) /\ (Len(w) + 1) - Len(w) = 1
      /\ Len(w) + 2 \in 1 .. Len(w) + 2 /\ ~(Len(w) + 2 <= Len(w)) /\ (Len(w) + 2) - Len(w) = 2
      /\ \A k \in 1 .. Len(w) : k \in 1 .. Len(w) + 2 /\ k <= Len(w)
  BY <1>2
<1>5. \A k \in 1 .. Len(w) : (w \o e)[k] = w[k]
  BY <1>1, <1>3, <1>4, Zenon
<1>6. (w \o e)[Len(w) + 1] = e[1] /\ (w \o e)[Len(w) + 2] = e[2]
  BY <1>1, <1>3, <1>4, Zenon
<1> QED BY <1>1, <1>3, <1>5, <1>6 DEF e

(* The meta words may be put in front of nothing. *)
LEMMA ChainMeta ==
  ASSUME NEW t, NEW e, Chain(<<>>, t, e)
  PROVE  Chain(<<[kind |-> "meta"]>>, t, e)
<1> DEFINE m == [kind |-> "meta"]
           v == <<m>>
<1>1. m \in Message /\ m.kind = "meta"
  BY DEF Message
<1> HIDE DEF m
<1>2. v \in Seq(Message) /\ Len(v) = 1 /\ v[1] = m /\ v # <<>>
  BY <1>1
<1> HIDE DEF v
<1>3. Start(v, e, 2) = e
  BY <1>2 DEF Start
<1>4. IsMeta(v, t, e, 1)
  BY <1>1, <1>2, <1>3 DEF IsMeta, PutNext, Chain
<1>5. Chain(v, t, e)
  BY <1>2, <1>4 DEF Chain, IsLink
<1> QED BY <1>5 DEF v, m

(* A put and its add, at the end, account for the rows newly issued. *)
LEMMA ChainIssue ==
  ASSUME NEW v, NEW t, NEW e, Chain(v, t, e), NEW n \in Nat \ {0}
  PROVE  Chain(v \o <<[kind |-> "put", from |-> e, num |-> n], [kind |-> "add", num |-> n]>>, t, e + n)
<1> DEFINE a == [kind |-> "put", from |-> e, num |-> n]
           b == [kind |-> "add", num |-> n]
           w == v \o <<a, b>>
           L == Len(v)
<1>1. t \in Nat /\ e \in Nat /\ t <= e /\ v \in Seq(Message) /\ L \in Nat
  BY DEF Chain
<1>2. /\ a \in Message /\ b \in Message
      /\ a.kind = "put" /\ a.from = e /\ a.num = n /\ b.kind = "add" /\ b.num = n
      /\ b = [kind |-> "add", num |-> a.num]
  BY <1>1 DEF Message
<1> HIDE DEF a, b
<1>3. /\ w \in Seq(Message) /\ Len(w) = L + 2
      /\ \A k \in 1 .. L : w[k] = v[k]
      /\ w[L + 1] = a /\ w[L + 2] = b
  BY <1>1, <1>2, AppendTwo
<1> HIDE DEF w, L
<1>4. ASSUME NEW k \in 1 .. L + 1, k \in 1 .. L => v[k].kind = "put"
      PROVE  Start(w, e + n, k) = Start(v, e, k)
  <2>1. k \in 1 .. Len(w)
    BY <1>1, <1>3
  <2>2. CASE k \in 1 .. L
    <3>1. w[k] = v[k] /\ k \in 1 .. Len(v) /\ v[k].kind = "put"
      BY <1>3, <1>4, <2>2 DEF L
    <3> QED BY <2>1, <3>1 DEF Start
  <2>3. CASE k = L + 1
    <3>1. ~(k \in 1 .. Len(v))
      BY <1>1, <2>3 DEF L
    <3> QED BY <1>2, <1>3, <2>1, <2>3, <3>1 DEF Start
  <2> QED BY <1>1, <2>2, <2>3
<1>5. Start(w, e + n, L + 3) = e + n
  <2>1. ~(L + 3 \in 1 .. Len(w))
    BY <1>1, <1>3
  <2> QED BY <2>1 DEF Start
<1>6. ASSUME NEW k \in 1 .. Len(w) PROVE IsLink(w, t, e + n, k)
  <2>1. CASE k \in 1 .. L
    <3>1. w[k] = v[k] /\ k < Len(w) /\ w[k] \in Message
      <4>1. k < Len(w) /\ k \in 1 .. Len(v)
        BY <1>1, <1>3, <2>1 DEF L
      <4> QED BY <1>1, <1>3, <2>1, <4>1 DEF L
    <3>2. k < L => w[k + 1] = v[k + 1] /\ k + 1 \in 1 .. L
      BY <1>1, <1>3, <2>1
    <3>3. PutNext(v, k) => PutNext(w, k)
      <4>1. k = L => w[k + 1] = a
        BY <1>3
      <4>2. k < L \/ k = L
        BY <1>1, <2>1
      <4> QED BY <1>2, <3>2, <4>1, <4>2 DEF PutNext, L
    <3>4. k = 1 /\ PutNext(v, k) => Start(w, e + n, 2) = Start(v, e, 2)
      <4> SUFFICES ASSUME k = 1, PutNext(v, 1) PROVE Start(w, e + n, 2) = Start(v, e, 2)
        OBVIOUS
      <4>1. 2 \in 1 .. L + 1 /\ 1 + 1 = 2
        BY <1>1, <2>1
      <4>2. 2 \in 1 .. L => v[2].kind = "put"
        BY <4>1 DEF PutNext, L
      <4> QED BY <1>4, <4>1, <4>2
    <3>5. CASE IsMeta(v, t, e, k)
      BY <3>1, <3>3, <3>4, <3>5 DEF IsMeta, IsLink
    <3>6. CASE IsPut(v, t, e, k)
      <4>1. k < L
        BY <3>6 DEF IsPut, L
      <4>2. Start(w, e + n, k + 2) = Start(v, e, k + 2)
        <5>1. k + 2 \in 1 .. L + 1 /\ k + 1 \in 1 .. L /\ (k + 1) + 1 = k + 2
          BY <1>1, <2>1, <4>1
        <5>2. IsLink(v, t, e, k + 1) /\ v[k + 1].kind = "add"
          BY <3>6, <5>1 DEF Chain, IsPut, L
        <5>3. PutNext(v, k + 1)
          BY <5>2 DEF IsLink, IsMeta, IsPut, IsAdd
        <5>4. k + 2 \in 1 .. L => k + 1 < L
          BY <1>1, <2>1
        <5>5. k + 2 \in 1 .. L => v[k + 2].kind = "put"
          BY <5>1, <5>3, <5>4 DEF PutNext, L
        <5> QED BY <1>4, <5>1, <5>5
      <4>3. v[k].from \in Nat /\ v[k].num \in Nat
        BY <3>1, <3>6, MessageType DEF IsPut
      <4>4. v[k].from + v[k].num <= e + n
        <5>1. v[k].from + v[k].num <= e
          BY <3>6 DEF IsPut
        <5> QED BY <1>1, <4>3, <5>1
      <4> QED BY <3>1, <3>2, <3>6, <4>1, <4>2, <4>4 DEF IsPut, IsLink
    <3>7. CASE IsAdd(v, t, e, k)
      <4>1. v[k].num \in Nat
        BY <3>1, <3>7, MessageType DEF IsAdd
      <4>2. k = 1 => t + v[k].num <= e + n
        <5>1. k = 1 => t + v[k].num <= e
          BY <3>7 DEF IsAdd
        <5> QED BY <1>1, <4>1, <5>1
      <4> QED BY <3>1, <3>3, <3>4, <3>7, <4>2 DEF IsAdd, IsLink
    <3> QED BY <2>1, <3>5, <3>6, <3>7 DEF Chain, IsLink, L
  <2>2. CASE k = L + 1
    <3>1. k < Len(w) /\ k + 1 = L + 2 /\ k + 2 = L + 3
      BY <1>1, <1>3, <2>2
    <3>2. k = 1 => e = t
      <4>1. k = 1 => L = 0
        BY <1>1, <2>2
      <4>2. L = 0 => v = <<>>
        BY <1>1 DEF L
      <4> QED BY <4>1, <4>2 DEF Chain
    <3>3. e + n <= e + n
      BY <1>1
    <3>4. IsPut(w, t, e + n, k)
      BY <1>2, <1>3, <1>5, <2>2, <3>1, <3>2, <3>3 DEF IsPut
    <3> QED BY <3>4 DEF IsLink
  <2>3. CASE k = L + 2
    <3>1. k # 1 /\ ~(k < Len(w))
      BY <1>1, <1>3, <2>3
    <3> QED BY <1>2, <1>3, <2>3, <3>1 DEF IsAdd, IsLink, PutNext
  <2> QED BY <1>1, <1>3, <2>1, <2>2, <2>3, SMTT(20)
<1>7. w # <<>>
  <2>1. Len(w) # 0
    BY <1>1, <1>3
  <2> QED BY <2>1
<1>8. e + n \in Nat /\ t <= e + n
  BY <1>1
<1>9. Chain(w, t, e + n)
  BY <1>1, <1>3, <1>6, <1>7, <1>8 DEF Chain
<1> QED BY <1>9 DEF w, a, b

(* The first message is carried out, and the tail moves if it is an add. *)
LEMMA ChainDeliver ==
  ASSUME NEW v, NEW t, NEW e, Chain(v, t, e), v # <<>>
  PROVE  LET w == SubSeq(v, 2, Len(v)) IN
         /\ v[1] \in Message
         /\ v[1].kind = "meta" => Chain(w, t, e) /\ (w = <<>> \/ w[1].kind # "add")
         /\ v[1].kind = "put"  => /\ Chain(w, t, e)
                                  /\ v[1].from = t /\ t + v[1].num <= e
                                  /\ w # <<>> /\ w[1] = [kind |-> "add", num |-> v[1].num]
         /\ v[1].kind = "add"  => /\ Chain(w, t + v[1].num, e)
                                  /\ w = <<>> \/ w[1].kind # "add"
<1> DEFINE w == SubSeq(v, 2, Len(v))
           L == Len(v)
<1>1. t \in Nat /\ e \in Nat /\ t <= e /\ v \in Seq(Message) /\ L \in Nat \ {0}
  BY DEF Chain
<1>2. w \in Seq(Message) /\ Len(w) = L - 1 /\ \A k \in 1 .. L - 1 : w[k] = v[k + 1]
  <2>1. \A i \in 2 .. L : v[i] \in Message
    BY <1>1
  <2>2. /\ w \in Seq(Message) /\ Len(w) = IF 2 <= L THEN L - 2 + 1 ELSE 0
        /\ \A k \in 1 .. L - 2 + 1 : w[k] = v[2 + k - 1]
    <3> HIDE DEF L
    <3>1. L \in Int /\ 2 \in Int
      BY <1>1
    <3> QED BY <2>1, <3>1, SubSeqProperties DEF L
  <2>3. L - 2 + 1 = L - 1 /\ (~(2 <= L) => L - 1 = 0)
    <3> HIDE DEF w, L
    <3> QED BY <1>1
  <2>4. \A k \in 1 .. L - 1 : 2 + k - 1 = k + 1
    OBVIOUS
  <2> HIDE DEF w, L
  <2> QED BY <2>2, <2>3, <2>4
<1> HIDE DEF w
<1>3. \A k \in Nat \ {0} : Start(w, e, k) = Start(v, e, k + 1)
  <2> SUFFICES ASSUME NEW k \in Nat \ {0} PROVE Start(w, e, k) = Start(v, e, k + 1)
    OBVIOUS
  <2>1. k \in 1 .. Len(w) <=> k + 1 \in 1 .. Len(v)
    BY <1>1, <1>2
  <2>2. k \in 1 .. Len(w) => w[k] = v[k + 1]
    BY <1>2
  <2> QED BY <2>1, <2>2 DEF Start
<1>4. v[1] \in Message /\ 1 \in 1 .. L
  BY <1>1
<1>5. IsLink(v, t, e, 1)
  BY <1>4 DEF Chain
<1>6. w = <<>> <=> L = 1
  BY <1>1, <1>2
<1>7. L # 1 => w[1] = v[2] /\ v[2] \in Message /\ 2 \in 1 .. L /\ 1 < L /\ 1 \in 1 .. L - 1
  BY <1>1, <1>2
<1>8. ASSUME NEW k \in 1 .. Len(w), NEW u \in {t, t + v[1].num},
             k = 1 => \/ w[1].kind = "put" /\ w[1].from = u
                      \/ w[1].kind = "add" /\ u + w[1].num = Start(v, e, 3) /\ u + w[1].num <= e
      PROVE  IsLink(w, u, e, k)
  <2>1. k + 1 \in 1 .. L /\ k \in Nat \ {0} /\ k + 1 # 1 /\ k \in 1 .. L - 1
    BY <1>1, <1>2
  <2>2. IsLink(v, t, e, k + 1) /\ w[k] = v[k + 1]
    BY <1>2, <2>1 DEF Chain
  <2>3. k < Len(w) <=> k + 1 < L
    BY <1>1, <1>2
  <2>4. k < Len(w) => k + 1 \in 1 .. L - 1 /\ w[k + 1] = v[(k + 1) + 1]
    BY <1>1, <1>2
  <2>5. PutNext(v, k + 1) => PutNext(w, k)
    BY <2>3, <2>4 DEF PutNext
  <2>6. Start(w, e, 2) = Start(v, e, 3) /\ Start(w, e, k + 2) = Start(v, e, (k + 1) + 2)
    <3>1. Start(w, e, k + 2) = Start(v, e, (k + 2) + 1)
      BY <1>3, <2>1
    <3>2. (k + 2) + 1 = (k + 1) + 2
      OBVIOUS
    <3>3. Start(w, e, 2) = Start(v, e, 2 + 1)
      BY <1>3
    <3> QED BY <3>1, <3>2, <3>3
  <2>7. ~IsMeta(v, t, e, k + 1)
    BY <2>1 DEF IsMeta
  <2>8. CASE IsPut(v, t, e, k + 1)
    <3>1. w[k].kind # "add"
      BY <2>2, <2>8 DEF IsPut
    <3>2. IsPut(w, u, e, k)
      BY <1>8, <2>2, <2>3, <2>4, <2>6, <2>8, <3>1 DEF IsPut
    <3> QED BY <3>2 DEF IsLink
  <2>9. CASE IsAdd(v, t, e, k + 1)
    <3>1. w[k].kind # "put"
      BY <2>2, <2>9 DEF IsAdd
    <3>2. IsAdd(w, u, e, k)
      BY <1>8, <2>2, <2>5, <2>6, <2>9, <3>1 DEF IsAdd
    <3> QED BY <3>2 DEF IsLink
  <2> QED BY <2>2, <2>7, <2>8, <2>9 DEF IsLink
<1>9. CASE v[1].kind = "meta"
  <2>1. PutNext(v, 1) /\ t = Start(v, e, 2)
    BY <1>5, <1>9 DEF IsLink, IsMeta, IsPut, IsAdd
  <2>2. L # 1 => w[1].kind = "put" /\ w[1].from = t
    BY <1>7, <2>1 DEF PutNext, Start
  <2>3. L = 1 => t = e
    BY <2>1 DEF Start
  <2>4. \A k \in 1 .. Len(w) : IsLink(w, t, e, k)
    <3> SUFFICES ASSUME NEW k \in 1 .. Len(w) PROVE IsLink(w, t, e, k)
      OBVIOUS
    <3>1. L # 1
      BY <1>1, <1>2
    <3> QED BY <1>8, <2>2, <3>1
  <2>5. Chain(w, t, e)
    BY <1>1, <1>2, <1>6, <2>3, <2>4 DEF Chain
  <2> QED BY <1>4, <1>6, <1>9, <2>2, <2>5 DEF w
<1>10. CASE v[1].kind = "put"
  <2>1. /\ 1 < L /\ v[1 + 1] = [kind |-> "add", num |-> v[1].num]
        /\ v[1].from + v[1].num = Start(v, e, 1 + 2)
        /\ v[1].from + v[1].num <= e /\ v[1].from = t
    BY <1>5, <1>10 DEF IsLink, IsMeta, IsPut, IsAdd
  <2>2. L # 1 /\ 1 + 1 = 2 /\ 1 + 2 = 3
    BY <2>1
  <2>3. w[1] = [kind |-> "add", num |-> v[1].num]
    BY <1>7, <2>1, <2>2
  <2>4. /\ w[1].kind = "add" /\ w[1].num = v[1].num
        /\ t + w[1].num = Start(v, e, 3) /\ t + w[1].num <= e
    BY <2>1, <2>2, <2>3
  <2>5. \A k \in 1 .. Len(w) : IsLink(w, t, e, k)
    <3> SUFFICES ASSUME NEW k \in 1 .. Len(w) PROVE IsLink(w, t, e, k)
      OBVIOUS
    <3> QED BY <1>8, <2>4
  <2>6. Chain(w, t, e)
    BY <1>1, <1>2, <1>6, <2>2, <2>5 DEF Chain
  <2> QED BY <1>4, <1>6, <1>10, <2>1, <2>2, <2>3, <2>6 DEF w
<1>11. CASE v[1].kind = "add"
  <2>1. PutNext(v, 1) /\ t + v[1].num = Start(v, e, 2) /\ t + v[1].num <= e
    BY <1>5, <1>11 DEF IsLink, IsMeta, IsPut, IsAdd
  <2>2. L # 1 => w[1].kind = "put" /\ w[1].from = t + v[1].num
    BY <1>7, <2>1 DEF PutNext, Start
  <2>3. L = 1 => t + v[1].num = e
    BY <2>1 DEF Start
  <2>4. \A k \in 1 .. Len(w) : IsLink(w, t + v[1].num, e, k)
    <3> SUFFICES ASSUME NEW k \in 1 .. Len(w) PROVE IsLink(w, t + v[1].num, e, k)
      OBVIOUS
    <3>1. L # 1
      BY <1>1, <1>2
    <3> QED BY <1>8, <2>2, <3>1
  <2>5. t + v[1].num \in Nat
    BY <1>1, <1>4, <1>11, MessageType
  <2>6. Chain(w, t + v[1].num, e)
    BY <1>1, <1>2, <1>6, <2>1, <2>3, <2>4, <2>5 DEF Chain
  <2> QED BY <1>4, <1>6, <1>11, <2>2, <2>6 DEF w
<1> QED BY <1>4, <1>9, <1>10, <1>11, MessageType
-----------------------------------------------------------------------------
(* Of each source: nothing is under way before it begins, and on the node  *)
(* itself never; only rows under the sender's tail are issued.             *)
WireInOrder(s) ==
  /\ Chain(wire[s], tail[s], issued[s])
  /\ s \notin begun => wire[s] = <<>> /\ issued[s] = 0
  /\ s = Node => wire[s] = <<>>
  /\ issued[s] <= sendTail[s]

WireTyped ==
  /\ begun \subseteq Source
  /\ issued \in [Source -> Nat] /\ tail \in [Source -> Nat]
  /\ wire \in [Source -> Seq(Message)]

WireInv == WireTyped /\ \A s \in Source : WireInOrder(s)

(* Nothing is on its way at the start. *)
LEMMA InitWire == Init => WireInv
<1> SUFFICES ASSUME Init PROVE WireInv
  OBVIOUS
<1>1. WireTyped
  BY DEF Init, WireTyped
<1>2. ASSUME NEW s \in Source PROVE WireInOrder(s)
  <2>1. wire[s] = <<>> /\ tail[s] = 0 /\ issued[s] = 0 /\ sendTail[s] = 0
    BY DEF Init
  <2>2. Chain(<<>>, 0, 0)
    BY DEF Chain
  <2> QED BY <2>1, <2>2 DEF WireInOrder
<1> QED BY <1>1, <1>2 DEF WireInv

(* A source none of whose counters moves, except perhaps its window. *)
LEMMA WireKept ==
  ASSUME NEW s \in Source, WireInOrder(s),
         wire'[s] = wire[s], tail'[s] = tail[s], issued'[s] = issued[s],
         s \in begun' <=> s \in begun, issued[s] <= sendTail'[s]
  PROVE  WireInOrder(s)'
BY DEF WireInOrder

(* Steps that leave the network, the tail and the issued rows alone. *)
LEMMA WireOthers ==
  ASSUME WireInv, UNCHANGED <<begun, wire, tail, issued>>,
         \A s \in Source : issued[s] <= sendTail'[s]
  PROVE  WireInv'
BY WireKept DEF WireInv, WireTyped

(* Posting the meta words keeps the chain. *)
LEMMA SendMetaWire ==
  ASSUME WireInv, NEW s \in Source, SendMeta(s)
  PROVE  WireInv'
<1>1. /\ s \notin begun /\ begun' = begun \cup {s}
      /\ UNCHANGED <<tail, issued, sendTail>>
      /\ wire' = IF s = Node THEN wire ELSE [wire EXCEPT ![s] = Append(@, [kind |-> "meta"])]
  BY DEF SendMeta
<1>2. wire[s] = <<>> /\ Chain(<<>>, tail[s], issued[s])
  BY <1>1 DEF WireInv, WireInOrder
<1>3. s # Node => wire'[s] = <<[kind |-> "meta"]>>
  BY <1>1, <1>2 DEF WireInv, WireTyped
<1>4. WireTyped'
  <2>1. [kind |-> "meta"] \in Message
    BY DEF Message
  <2>2. <<[kind |-> "meta"]>> \in Seq(Message)
    BY <2>1
  <2> QED BY <1>1, <1>3, <2>2 DEF WireInv, WireTyped
<1>5. ASSUME NEW r \in Source, r # s PROVE WireInOrder(r)'
  BY <1>1, <1>5, WireKept DEF WireInv, WireTyped, WireInOrder
<1>6. WireInOrder(s)'
  <2>0. s \in begun' /\ tail'[s] = tail[s] /\ issued'[s] = issued[s] /\ issued'[s] <= sendTail'[s]
    BY <1>1 DEF WireInv, WireInOrder
  <2>1. CASE s = Node
    <3>1. wire'[s] = <<>>
      BY <1>1, <1>2, <2>1
    <3> QED BY <1>2, <2>0, <3>1 DEF WireInOrder
  <2>2. CASE s # Node
    <3>1. Chain(<<[kind |-> "meta"]>>, tail[s], issued[s])
      BY <1>2, ChainMeta
    <3> QED BY <1>3, <2>0, <2>2, <3>1 DEF WireInOrder
  <2> QED BY <2>1, <2>2
<1> QED BY <1>4, <1>5, <1>6 DEF WireInv

(* The chunk that the coordinator issues. *)
LEMMA IssueSize ==
  ASSUME NEW left \in Int, NEW processed \in Int, left > 0,
         processed = left \/ processed >= RdmaSend
  PROVE  Smaller(processed, RdmaSend) \in Nat \ {0} /\ Smaller(processed, RdmaSend) <= processed
BY SizesAssumption DEF Smaller

(* Issuing a chunk keeps the chain, and on the node itself the tail. *)
LEMMA IssueWire ==
  ASSUME WireInv, WindowTyped, NEW s \in Source, Total(s) \in Nat, Issue(s)
  PROVE  /\ WireInv'
         /\ \E n \in Nat \ {0} :
              /\ issued' = [issued EXCEPT ![s] = @ + n] /\ issued[s] + n <= sendTail[s]
              /\ IF s = Node THEN tail' = [tail EXCEPT ![s] = @ + n] /\ wire' = wire
                 ELSE /\ wire' = [wire EXCEPT ![s] = @ \o
                           <<[kind |-> "put", from |-> issued[s], num |-> n],
                             [kind |-> "add", num |-> n]>>]
                      /\ tail' = tail
<1> DEFINE left      == Total(s) - issued[s]
           processed == sendTail[s] - issued[s]
           n         == Smaller(processed, RdmaSend)
           v         == wire[s] \o <<[kind |-> "put", from |-> issued[s], num |-> n],
                                     [kind |-> "add", num |-> n]>>
<1>1. /\ s \in begun /\ left > 0 /\ (processed = left \/ processed >= RdmaSend)
      /\ issued' = [issued EXCEPT ![s] = @ + n]
      /\ IF s = Node THEN tail' = [tail EXCEPT ![s] = @ + n] /\ wire' = wire
         ELSE wire' = [wire EXCEPT ![s] = v] /\ tail' = tail
      /\ UNCHANGED <<begun, sendTail>>
  BY DEF Issue
<1>2. issued[s] \in Nat /\ sendTail[s] \in Nat /\ tail[s] \in Nat /\ wire[s] \in Seq(Message)
  BY DEF WireInv, WireTyped, WindowTyped
<1>3. n \in Nat \ {0} /\ n <= processed
  <2>1. left \in Int /\ processed \in Int
    BY <1>2
  <2> HIDE DEF processed, left
  <2> QED BY <1>1, <2>1, IssueSize
<1>4. n \in Nat \ {0} /\ issued[s] + n <= sendTail[s]
  <2> HIDE DEF n
  <2> QED BY <1>2, <1>3
<1>5. Chain(wire[s], tail[s], issued[s])
  BY DEF WireInv, WireInOrder
<1> HIDE DEF n, left, processed
<1>6. Chain(v, tail[s], issued[s] + n)
  BY <1>4, <1>5, ChainIssue
<1> HIDE DEF v
<1>7. issued'[s] = issued[s] + n /\ issued'[s] \in Nat /\ issued'[s] <= sendTail'[s]
  <2>1. issued'[s] = issued[s] + n /\ sendTail'[s] = sendTail[s]
    BY <1>1 DEF WireInv, WireTyped
  <2>2. issued[s] + n \in Nat
    BY <1>2, <1>4
  <2> QED BY <1>4, <2>1, <2>2
<1>8. WireTyped'
  <2>1. v \in Seq(Message)
    BY <1>6 DEF Chain
  <2>2. tail[s] + n \in Nat /\ issued[s] + n \in Nat
    BY <1>2, <1>4
  <2>3. issued' \in [Source -> Nat] /\ tail' \in [Source -> Nat]
    <3> HIDE DEF n
    <3> QED BY <1>1, <2>2 DEF WireInv, WireTyped
  <2>4. wire' \in [Source -> Seq(Message)]
    BY <1>1, <2>1 DEF WireInv, WireTyped
  <2> QED BY <1>1, <2>3, <2>4 DEF WireInv, WireTyped
<1>9. ASSUME NEW r \in Source, r # s PROVE WireInOrder(r)'
  <2>1. wire'[r] = wire[r] /\ tail'[r] = tail[r] /\ issued'[r] = issued[r]
    BY <1>1, <1>9 DEF WireInv, WireTyped
  <2>2. WireInOrder(r) /\ issued[r] <= sendTail'[r]
    BY <1>1 DEF WireInv, WireInOrder
  <2> QED BY <1>1, <2>1, <2>2, WireKept
<1>10. WireInOrder(s)'
  <2>0. WireInOrder(s)
    BY DEF WireInv
  <2>1. CASE s = Node
    <3>1. wire'[s] = <<>> /\ tail[s] = issued[s]
      BY <1>1, <2>0, <2>1 DEF WireInOrder, Chain
    <3>2. tail'[s] = issued[s] + n
      BY <1>1, <2>1, <3>1 DEF WireInv, WireTyped
    <3>3. issued[s] + n \in Nat
      BY <1>2, <1>4
    <3>4. Chain(<<>>, issued[s] + n, issued[s] + n)
      BY <3>3 DEF Chain
    <3> QED BY <1>1, <1>7, <3>1, <3>2, <3>4 DEF WireInOrder
  <2>2. CASE s # Node
    <3>1. wire'[s] = v /\ tail'[s] = tail[s]
      BY <1>1, <2>2 DEF WireInv, WireTyped
    <3> QED BY <1>1, <1>6, <1>7, <2>2, <3>1 DEF WireInOrder
  <2> QED BY <2>1, <2>2
<1>11. WireInv'
  BY <1>8, <1>9, <1>10 DEF WireInv
<1> QED BY <1>1, <1>4, <1>11 DEF v

(* Carried out in order, the first message on the wire is the one. *)
LEMMA DeliverWire ==
  ASSUME Ordered, WireInv, NEW s \in Source, NEW k \in 1 .. Len(wire[s]), Deliver(s, k)
  PROVE  /\ WireInv'
         /\ wire[s] # <<>> /\ wire' = [wire EXCEPT ![s] = SubSeq(@, 2, Len(@))]
         /\ tail' = IF wire[s][1].kind = "add" THEN [tail EXCEPT ![s] = @ + wire[s][1].num] ELSE tail
         /\ meta' = IF wire[s][1].kind = "meta" THEN [meta EXCEPT ![s] = Words(s)] ELSE meta
         /\ wire[s][1].kind # "put" => ring' = ring
         /\ s # Node
<1> DEFINE m == wire[s][1]
           w == SubSeq(wire[s], 2, Len(wire[s]))
<1>1. k = 1 /\ wire[s] # <<>> /\ wire[s] \in Seq(Message)
  BY DEF Deliver, WireInv, WireTyped
<1>2. SubSeq(wire[s], 1, k - 1) \o SubSeq(wire[s], k + 1, Len(wire[s])) = w
  <2>1. SubSeq(wire[s], 1, 0) = <<>>
    BY SubSeqEmpty
  <2>2. w \in Seq(Message)
    BY <1>1
  <2>3. <<>> \o w = w
    <3> HIDE DEF w
    <3> QED BY <2>2
  <2>4. k - 1 = 0 /\ k + 1 = 2
    BY <1>1
  <2> QED BY <2>1, <2>3, <2>4
<1>3. wire' = [wire EXCEPT ![s] = w]
  <2>1. wire' = [wire EXCEPT ![s] = SubSeq(@, 1, k - 1) \o SubSeq(@, k + 1, Len(@))]
    BY DEF Deliver
  <2> HIDE DEF w
  <2> QED BY <1>2, <2>1
<1>4. /\ UNCHANGED <<begun, issued, sendTail>>
      /\ \/ /\ m.kind = "meta"
            /\ meta' = [meta EXCEPT ![s] = Words(s)] /\ tail' = tail /\ ring' = ring
         \/ m.kind = "put" /\ meta' = meta /\ tail' = tail
         \/ /\ m.kind = "add"
            /\ tail' = [tail EXCEPT ![s] = @ + m.num] /\ meta' = meta /\ ring' = ring
  BY <1>1 DEF Deliver, sender
<1>5. s # Node /\ s \in begun
  BY <1>1 DEF WireInv, WireInOrder
<1>6. Chain(wire[s], tail[s], issued[s]) /\ tail[s] \in Nat
  BY DEF WireInv, WireInOrder, WireTyped
<1>7. /\ m.kind # "add" => Chain(w, tail[s], issued[s])
      /\ m.kind = "add" => Chain(w, tail[s] + m.num, issued[s])
  <2>1. m \in Message
    BY <1>1
  <2> HIDE DEF m
  <2>2. m.kind \in {"meta", "put", "add"}
    BY <2>1, MessageType
  <2> QED BY <1>1, <1>6, <2>2, ChainDeliver DEF m
<1> HIDE DEF w, m
<1>8. /\ tail' = IF m.kind = "add" THEN [tail EXCEPT ![s] = @ + m.num] ELSE tail
      /\ meta' = IF m.kind = "meta" THEN [meta EXCEPT ![s] = Words(s)] ELSE meta
      /\ m.kind # "put" => ring' = ring
  BY <1>4
<1>9. Chain(w, tail'[s], issued'[s]) /\ tail'[s] \in Nat
  <2>1. CASE m.kind = "add"
    <3>1. tail'[s] = tail[s] + m.num
      BY <1>8, <2>1 DEF WireInv, WireTyped
    <3>2. Chain(w, tail'[s], issued'[s])
      BY <1>4, <1>7, <2>1, <3>1
    <3> QED BY <3>2 DEF Chain
  <2>2. CASE m.kind # "add"
    BY <1>4, <1>6, <1>7, <1>8, <2>2
  <2> QED BY <2>1, <2>2
<1>10. w \in Seq(Message)
  BY <1>9 DEF Chain
<1>11. WireTyped'
  BY <1>3, <1>4, <1>8, <1>9, <1>10 DEF WireInv, WireTyped
<1>12. ASSUME NEW r \in Source, r # s PROVE WireInOrder(r)'
  <2>1. wire'[r] = wire[r] /\ tail'[r] = tail[r] /\ issued'[r] = issued[r]
    BY <1>3, <1>4, <1>8, <1>12 DEF WireInv, WireTyped
  <2>2. WireInOrder(r) /\ issued[r] <= sendTail'[r]
    BY <1>4 DEF WireInv, WireInOrder
  <2> QED BY <1>4, <2>1, <2>2, WireKept
<1>13. WireInOrder(s)'
  <2>1. wire'[s] = w
    BY <1>3 DEF WireInv, WireTyped
  <2> QED BY <1>4, <1>5, <1>9, <2>1 DEF WireInv, WireInOrder
<1>14. WireInv'
  BY <1>11, <1>12, <1>13 DEF WireInv
<1> QED BY <1>1, <1>3, <1>5, <1>8, <1>14 DEF w, m

(* The sender's tail never falls. *)
LEMMA SendTailGrows ==
  ASSUME IInv, NEW s \in Source, NEW w \in Warp, ReleaseToken(s, w)
  PROVE  \A r \in Source : sendTail[r] <= sendTail'[r]
<1> DEFINE offset == Index(s, at[s][w]) - sendTail[s]
           bits   == window[s] \cup {offset}
           n      == IF offset = 0 THEN LeadingOnes(bits) ELSE 0
<1>1. sendTail' = [sendTail EXCEPT ![s] = @ + n] /\ offset < WindowSize
  BY DEF ReleaseToken
<1>2. offset = 0 => bits \in SUBSET (0 .. WindowSize - 1)
  BY SizesAssumption DEF IInv, WindowTyped
<1>3. n \in Nat
  BY <1>2, LeadingOnesSpec, SizesAssumption
<1> HIDE DEF n
<1>4. \A r \in Source : sendTail[r] \in Nat /\ sendTail'[r] = IF r = s THEN sendTail[r] + n ELSE sendTail[r]
  BY <1>1 DEF IInv, WindowTyped
<1> QED BY <1>3, <1>4

(* A source's stream is finite. *)
LEMMA TotalType ==
  ASSUME run \in Runs, NEW s \in Source
  PROVE  /\ IsFiniteSet(Chosen(s)) /\ Chosen(s) \in SUBSET Nat /\ Total(s) \in Nat
         /\ Chosen(s) \subseteq Tokens(s)
<1>1. IsFiniteSet(Chosen(s)) /\ Chosen(s) \in SUBSET Nat
  BY TokensFinite, FS_Subset DEF Chosen
<1> QED BY <1>1, FS_CardinalityType DEF Total, Chosen

(* Every step keeps the chain, if the network delivers in order. *)
LEMMA NextWire == ASSUME Ordered, IInv, WireInv, [Next]_vars PROVE WireInv'
<1>0. \A s \in Source : Total(s) \in Nat /\ issued[s] <= sendTail[s]
  BY TotalType DEF IInv, WindowTyped, WireInv, WireInOrder
<1>1. ASSUME NEW s \in Source, NEW w \in Warp,
             SkipToken(s, w) \/ CopyToken(s, w) \/ ReleaseToken(s, w)
      PROVE  WireInv'
  <2>1. UNCHANGED <<begun, wire, tail, issued>>
    BY <1>1 DEF SkipToken, CopyToken, ReleaseToken
  <2>2. \A r \in Source : issued[r] <= sendTail'[r]
    <3>1. CASE SkipToken(s, w) \/ CopyToken(s, w)
      BY <1>0, <3>1 DEF SkipToken, CopyToken
    <3>2. CASE ReleaseToken(s, w)
      <4>1. \A r \in Source : sendTail[r] <= sendTail'[r]
        BY <3>2, SendTailGrows
      <4>2. \A r \in Source : issued[r] \in Int /\ sendTail[r] \in Int /\ sendTail'[r] \in Int
        <5>1. IInv'
          BY <3>2, ReleaseKeeps
        <5> QED BY <5>1 DEF IInv, WindowTyped, WireInv, WireTyped
      <4> QED BY <1>0, <4>1, <4>2
    <3> QED BY <1>1, <3>1, <3>2
  <2> QED BY <2>1, <2>2, WireOthers
<1>2. ASSUME NEW s \in Source, SendMeta(s) \/ Issue(s) PROVE WireInv'
  BY <1>0, <1>2, SendMetaWire, IssueWire DEF IInv
<1>3. ASSUME NEW s \in Source, NEW k \in 1 .. Len(wire[s]), Deliver(s, k) PROVE WireInv'
  BY <1>3, DeliverWire
<1>4. ASSUME NEW s \in Source, Credit(s) PROVE WireInv'
  BY <1>0, <1>4, WireOthers DEF Credit, sender
<1>5. ASSUME NEW p \in Peer, PeerStep(p) PROVE WireInv'
  <2>1. ASSUME NEW s \in Source, ReadMeta(p, s) \/ Choose(p, s) \/ ReadBounds(p, s)
        PROVE  WireInv'
    BY <1>0, <2>1, WireOthers DEF ReadMeta, Choose, ReadBounds, sender
  <2>2. CASE Forward(p)
    BY <1>0, <2>2, WireOthers DEF Forward, sender
  <2>3. CASE Retire(p) \/ SeeTail(p)
    BY <1>0, <2>3, WireOthers DEF Retire, SeeTail, sender
  <2>4. CASE Receive(p)
    BY <1>0, <2>4, WireOthers DEF Receive, sender
  <2> QED BY <1>5, <2>1, <2>2, <2>3, <2>4 DEF PeerStep
<1>6. CASE UNCHANGED vars
  BY <1>0, <1>6, WireOthers DEF vars, sender
<1> QED BY <1>1, <1>2, <1>3, <1>4, <1>5, <1>6 DEF Next, SenderStep
-----------------------------------------------------------------------------
Forwarder ==
  [got : SUBSET Source, first : [Source -> Int], left : [Source -> Int],
   head : [Source -> Nat], tail : [Source -> Nat], seen : [Source -> Nat],
   queued : Nat, busy : BOOLEAN, src : Source]

Receiver == [got : SUBSET Source, offset : [Source -> Int], left : Int, head : Nat, tail : Nat]

Meta == [start : [Peer -> Int], end : [Peer -> Int], rdmaStart : Int, rdmaEnd : Int]

CountTyped ==
  /\ fwd \in [Peer -> Forwarder] /\ rcv \in [Peer -> Receiver] /\ meta \in [Source -> Meta]
  /\ fwdHead \in [Peer -> [Source -> Nat]] /\ bounds \in [Peer -> [Source -> Int \X Int]]
  /\ head \in [Source -> Nat] /\ lastHead \in [Source -> Nat] /\ retired \subseteq Peer
  /\ nvlTail \in [Peer -> Nat] /\ nvlHead \in [Peer -> Nat]

(* The meta words are those of the source, and it has back no more slots   *)
(* than its tail has passed.                                               *)
SourceInOrder(s) ==
  /\ meta[s] \in {NoWords, Words(s)}
  /\ head[s] = lastHead[s] /\ lastHead[s] <= tail[s]

(* A forwarder is between what is given back and the tail; what it expects *)
(* and has passed on to its peer are the meta words it has got, if it has.  *)
LaneInOrder(p, s) ==
  /\ fwdHead[p][s] = fwd[p].head[s]
  /\ lastHead[s] <= fwd[p].head[s]
  /\ fwd[p].head[s] <= fwd[p].tail[s]
  /\ fwd[p].tail[s] <= tail[s]
  /\ s \in fwd[p].got => /\ fwd[p].first[s] = run.prior
                         /\ fwd[p].left[s] = Total(s) - fwd[p].head[s]
                         /\ bounds[p][s] = <<Words(s).start[p], Words(s).end[p]>>
  /\ s \notin fwd[p].got => /\ fwd[p].head[s] = 0 /\ fwd[p].tail[s] = 0
                            /\ fwd[p].left[s] = 0 /\ bounds[p][s] = <<0, 0>>

(* One that has retired has done all; one that is busy has a row to look   *)
(* at, and room for a chunk in the peer's queue.                           *)
ForwarderInTurn(p) ==
  /\ p \in retired => fwd[p].got = Source /\ \A s \in Source : fwd[p].left[s] <= 0
  /\ fwd[p].busy => /\ fwd[p].got = Source
                    /\ fwd[p].head[fwd[p].src] < fwd[p].tail[fwd[p].src]
                    /\ fwd[p].queued + NvlSend <= nvlHead[p] + NvlRecv
  /\ nvlTail[p] = fwd[p].queued /\ nvlHead[p] = rcv[p].head
  /\ nvlHead[p] <= rcv[p].tail /\ rcv[p].tail <= nvlTail[p]
  /\ nvlTail[p] <= nvlHead[p] + NvlRecv

CountInv ==
  /\ CountTyped
  /\ \A s \in Source : SourceInOrder(s)
  /\ \A p \in Peer, s \in Source : LaneInOrder(p, s)
  /\ \A p \in Peer : ForwarderInTurn(p)
-----------------------------------------------------------------------------
(* What does not change while a run lasts. *)
LEMMA RunKept ==
  ASSUME run' = run
  PROVE  \A s : /\ Tokens(s)' = Tokens(s) /\ Chosen(s)' = Chosen(s) /\ Total(s)' = Total(s)
                /\ Words(s)' = Words(s)
                /\ \A p : For(s, p)' = For(s, p) /\ Count(s, p)' = Count(s, p)
BY DEF Tokens, Chosen, Total, Words, For, Count

(* A tail never counts more rows than the stream has. *)
LEMMA SendTailBound ==
  ASSUME IInv, NEW s \in Source
  PROVE  sendTail[s] <= Total(s)
<1>1. /\ IsFiniteSet(Chosen(s)) /\ Chosen(s) \in SUBSET Nat /\ Total(s) \in Nat
      /\ sendTail[s] \in Nat
  BY TotalType DEF IInv, WindowTyped
<1>2. \A t \in Chosen(s) : Index(s, t) < Total(s) /\ Index(s, t) \in Int
  <2> SUFFICES ASSUME NEW t \in Chosen(s) PROVE Index(s, t) < Total(s) /\ Index(s, t) \in Int
    OBVIOUS
  <2>1. Index(s, t) = Below(Chosen(s), t) /\ Total(s) = Cardinality(Chosen(s))
    BY DEF Index, Total, Below
  <2>2. Below(Chosen(s), t) < Cardinality(Chosen(s)) /\ Below(Chosen(s), t) \in 0 .. Cardinality(Chosen(s))
    BY <1>1, BelowOrders, BelowType
  <2> QED BY <2>1, <2>2
<1>3. \A i \in 0 .. sendTail[s] - 1 : \E t \in Chosen(s) : Index(s, t) = i
  BY DEF IInv, WindowSound
<1>4. ASSUME Total(s) < sendTail[s] PROVE FALSE
  <2>1. Total(s) \in 0 .. sendTail[s] - 1
    BY <1>1, <1>4
  <2>2. PICK t \in Chosen(s) : Index(s, t) = Total(s)
    BY <1>3, <2>1
  <2> QED BY <1>1, <1>2, <2>2
<1> QED BY <1>1, <1>4

(* What the meta words of a source decode to. *)
LEMMA WordsType ==
  ASSUME run \in Runs, NEW s \in Source
  PROVE  /\ Words(s) \in Meta /\ run.prior \in Nat
         /\ -Words(s).rdmaStart - 1 = run.prior
         /\ -Words(s).rdmaEnd - 1 = run.prior + Total(s)
         /\ \A p \in Peer : /\ IsFiniteSet(For(s, p)) /\ For(s, p) \in SUBSET Nat
                            /\ Cardinality(For(s, p)) \in Nat
                            /\ Words(s).start[p] = -run.prior - 1
                            /\ Words(s).end[p] = -(run.prior + Cardinality(For(s, p))) - 1
<1>1. run.prior \in Nat /\ Total(s) \in Nat
  BY TotalType, RunsAssumption
<1>2. ASSUME NEW p \in Peer
      PROVE  /\ IsFiniteSet(For(s, p)) /\ For(s, p) \in SUBSET Nat
             /\ Cardinality(For(s, p)) \in Nat
  <2>1. For(s, p) \in SUBSET Chosen(s)
    BY DEF For
  <2>2. IsFiniteSet(For(s, p))
    BY <2>1, TotalType, FS_Subset
  <2> QED BY <2>1, <2>2, TotalType, FS_CardinalityType
<1>3. \A p \in Peer : Cardinality(For(s, p)) \in Nat
  BY <1>2
<1>4. Words(s) \in Meta
  BY <1>1, <1>3 DEF Words, Meta
<1>5. /\ Words(s).rdmaStart = -run.prior - 1 /\ Words(s).rdmaEnd = -(run.prior + Total(s)) - 1
      /\ \A p \in Peer : /\ Words(s).start[p] = -run.prior - 1
                         /\ Words(s).end[p] = -(run.prior + Cardinality(For(s, p))) - 1
  BY DEF Words
<1>6. -(-run.prior - 1) - 1 = run.prior /\ -(-(run.prior + Total(s)) - 1) - 1 = run.prior + Total(s)
  BY <1>1
<1> QED BY <1>1, <1>2, <1>4, <1>5, <1>6

(* Where a forwarder stops: at the row that fills a chunk, or at the end.  *)
IsChunkEnd(G, from, last, N, e) ==
  LET n == Cardinality({i \in from .. e - 1 : i \in G}) IN
  \/ n = N /\ e - 1 \in G
  \/ n < N /\ e = last

(* There is always such a place, when there is a row to look at. *)
LEMMA ChunkEnds ==
  ASSUME NEW G, NEW from \in Nat, NEW last \in Nat, from < last, NEW N \in Nat \ {0}
  PROVE  \E e \in from + 1 .. last : IsChunkEnd(G, from, last, N, e)
<1> DEFINE M(e) == {i \in from .. e - 1 : i \in G}
           Full(e) == Cardinality(M(e)) >= N \/ e = last
           E == {e \in Nat : from < e /\ e <= last /\ Full(e)}
<1>1. \A e \in Nat : IsFiniteSet(M(e)) /\ Cardinality(M(e)) \in Nat
  <2> SUFFICES ASSUME NEW e \in Nat PROVE IsFiniteSet(M(e)) /\ Cardinality(M(e)) \in Nat
    OBVIOUS
  <2>1. IsFiniteSet(from .. e - 1) /\ M(e) \in SUBSET (from .. e - 1)
    BY FS_Interval
  <2>2. IsFiniteSet(M(e))
    <3> HIDE DEF M
    <3> QED BY <2>1, FS_Subset
  <2> QED BY <2>2, FS_CardinalityType
<1>2. last \in E
  OBVIOUS
<1>3. PICK e \in E : \A m \in E : e <= m
  <2> HIDE DEF E
  <2>0. E \in SUBSET Nat
    BY DEF E
  <2>1. PICK e \in E : \A m \in E : ~ (<<m, e>> \in OpToRel(<, Nat))
    BY <1>2, <2>0, NatLessThanWellFounded, WFMin
  <2>2. \A m \in E : ~(m < e)
    BY <2>0, <2>1 DEF OpToRel
  <2> QED BY <2>0, <2>2
<1>4. e \in Nat /\ from < e /\ e <= last /\ Full(e) /\ e - 1 \in Nat /\ from <= e - 1
  OBVIOUS
<1>5. Cardinality(M(e - 1)) < N
  <2>1. CASE e - 1 = from
    <3>1. M(e - 1) = {}
      BY <2>1
    <3> HIDE DEF M
    <3> QED BY <3>1, FS_EmptySet
  <2>2. CASE from < e - 1
    <3>1. e - 1 \notin E /\ e - 1 <= last /\ e - 1 \in Nat
      BY <1>3, <1>4
    <3>2. ~Full(e - 1)
      BY <2>2, <3>1
    <3>3. Cardinality(M(e - 1)) \in Nat
      BY <1>1, <3>1
    <3> HIDE DEF M
    <3> QED BY <3>2, <3>3
  <2> QED BY <1>4, <2>1, <2>2
<1>6. /\ e - 1 \in G => M(e) = M(e - 1) \cup {e - 1} /\ e - 1 \notin M(e - 1)
      /\ e - 1 \notin G => M(e) = M(e - 1)
  BY <1>4
<1>7. /\ e - 1 \in G => Cardinality(M(e)) = Cardinality(M(e - 1)) + 1
      /\ e - 1 \notin G => Cardinality(M(e)) = Cardinality(M(e - 1))
      /\ Cardinality(M(e - 1)) \in Nat
  <2>1. IsFiniteSet(M(e - 1)) /\ Cardinality(M(e - 1)) \in Nat
    BY <1>1, <1>4
  <2> HIDE DEF M
  <2> QED BY <1>6, <2>1, FS_AddElement
<1> HIDE DEF M, E
<1>8. \/ Cardinality(M(e)) = N /\ e - 1 \in G
      \/ Cardinality(M(e)) < N /\ e = last
  BY <1>4, <1>5, <1>7
<1>9. e \in from + 1 .. last
  BY <1>4
<1> QED BY <1>8, <1>9 DEF M, IsChunkEnd

(* The step of a forwarder, with its chunk. *)
ChunkEnd(p) ==
  CHOOSE e \in fwd[p].head[fwd[p].src] + 1 .. fwd[p].tail[fwd[p].src] :
    LET n == Cardinality(Matching(fwd[p].src, p, fwd[p].head[fwd[p].src], e)) IN
    \/ n = NvlSend /\ IsFor(ring[fwd[p].src][RdmaSlot(e - 1)], p)
    \/ n < NvlSend /\ e = fwd[p].tail[fwd[p].src]
Chunk(p) == Matching(fwd[p].src, p, fwd[p].head[fwd[p].src], ChunkEnd(p))

(* The step of Forward, in terms of its chunk. *)
LEMMA ForwardStep ==
  ASSUME NEW p \in Peer, Forward(p)
  PROVE  LET s == fwd[p].src
             c == Cardinality(Chunk(p))
         IN  /\ fwd[p].busy
             /\ nvlRing' = [nvlRing EXCEPT ![p] =
                  [x \in DOMAIN @ |->
                     IF \E i \in Chunk(p) : NvlSlot(fwd[p].queued + Below(Chunk(p), i)) = x
                     THEN ring[s][RdmaSlot(CHOOSE i \in Chunk(p) :
                                    NvlSlot(fwd[p].queued + Below(Chunk(p), i)) = x)]
                     ELSE @[x]]]
             /\ nvlHeads' = [nvlHeads EXCEPT ![p][s] = @ \cup
                  {<<fwd[p].first[s] + i,
                     IF i \in Chunk(p) THEN fwd[p].seen[s] + Below(Chunk(p), i) ELSE -1>> :
                     i \in fwd[p].head[s] .. ChunkEnd(p) - 1}]
             /\ fwd' = [fwd EXCEPT ![p].busy = FALSE, ![p].head[s] = ChunkEnd(p),
                   ![p].left[s] = @ - (ChunkEnd(p) - fwd[p].head[s]),
                   ![p].seen[s] = @ + c, ![p].queued = @ + c]
             /\ fwdHead' = [fwdHead EXCEPT ![p][s] = ChunkEnd(p)]
             /\ nvlTail' = [nvlTail EXCEPT ![p] = fwd[p].queued + c]
             /\ UNCHANGED <<run, sender, wire, head, ring, tail, meta, retired, lastHead, bounds,
                            nvlHead, rcv, rdmaHeads, out>>
BY DEF Forward, ChunkEnd, Chunk, Below

(* A chunk ends within the rows known of and has at most NvlSend rows. *)
LEMMA ChunkBounds ==
  ASSUME CountInv, NEW p \in Peer, fwd[p].busy
  PROVE  LET s == fwd[p].src IN
         /\ s \in Source
         /\ ChunkEnd(p) \in fwd[p].head[s] + 1 .. fwd[p].tail[s]
         /\ IsFiniteSet(Chunk(p)) /\ Cardinality(Chunk(p)) \in 0 .. NvlSend
         /\ Chunk(p) = {i \in fwd[p].head[s] .. ChunkEnd(p) - 1 : IsFor(ring[s][RdmaSlot(i)], p)}
<1> DEFINE s == fwd[p].src
           from == fwd[p].head[s]
           last == fwd[p].tail[s]
           G == {i \in Int : IsFor(ring[s][RdmaSlot(i)], p)}
           to == ChunkEnd(p)
           P(e) == LET n == Cardinality(Matching(s, p, from, e)) IN
                   \/ n = NvlSend /\ IsFor(ring[s][RdmaSlot(e - 1)], p)
                   \/ n < NvlSend /\ e = last
<1>1. s \in Source /\ from \in Nat /\ last \in Nat /\ from < last /\ NvlSend \in Nat \ {0}
  BY SizesAssumption DEF CountInv, CountTyped, Forwarder, ForwarderInTurn
<1>2. \A e \in Int : Matching(s, p, from, e) = {i \in from .. e - 1 : i \in G}
  BY <1>1 DEF Matching
<1>3. \E e \in from + 1 .. last : IsChunkEnd(G, from, last, NvlSend, e)
  <2> HIDE DEF G, from, last
  <2> QED BY <1>1, ChunkEnds
<1>4. \E e \in from + 1 .. last : P(e)
  <2>1. PICK e \in from + 1 .. last : IsChunkEnd(G, from, last, NvlSend, e)
    BY <1>3
  <2>2. e \in Int
    BY <1>1
  <2>3. Matching(s, p, from, e) = {i \in from .. e - 1 : i \in G}
    BY <1>2, <2>2
  <2>4. e - 1 \in G => IsFor(ring[s][RdmaSlot(e - 1)], p)
    OBVIOUS
  <2>5. P(e)
    <3> HIDE DEF G, from, last, s
    <3> QED BY <2>1, <2>3, <2>4 DEF IsChunkEnd
  <2> QED BY <2>5
<1>5. to = CHOOSE e \in from + 1 .. last : P(e)
  BY DEF ChunkEnd
<1> HIDE DEF P, to
<1>6. to \in from + 1 .. last /\ P(to)
  BY <1>4, <1>5
<1>7. to \in Int /\ Chunk(p) = Matching(s, p, from, to)
  BY <1>1, <1>6 DEF Chunk, to
<1>8. IsFiniteSet(Chunk(p))
  <2>1. IsFiniteSet(from .. to - 1)
    <3>1. from \in Int /\ to - 1 \in Int
      BY <1>1, <1>7
    <3> HIDE DEF from
    <3> QED BY <3>1, FS_Interval
  <2>2. Matching(s, p, from, to) \in SUBSET (from .. to - 1)
    BY DEF Matching
  <2> QED BY <1>7, <2>1, <2>2, FS_Subset
<1>9. Cardinality(Chunk(p)) \in Nat
  BY <1>8, FS_CardinalityType
<1>10. Cardinality(Chunk(p)) \in 0 .. NvlSend
  <2>1. Cardinality(Chunk(p)) <= NvlSend
    BY <1>1, <1>6, <1>7, <1>9 DEF P
  <2> QED BY <1>1, <1>9, <2>1
<1> QED BY <1>1, <1>6, <1>7, <1>8, <1>10 DEF to, Matching
-----------------------------------------------------------------------------
(* All counters start in order. *)
LEMMA InitCount == Init => CountInv
<1> SUFFICES ASSUME Init PROVE CountInv
  OBVIOUS
<1> USE SizesAssumption
<1>1. CountTyped
  <2>1. Node \in Source /\ NoWords \in Meta
    BY DEF NoWords, Meta
  <2>2. fwd \in [Peer -> Forwarder]
    BY <2>1 DEF Init, Forwarder
  <2>3. rcv \in [Peer -> Receiver]
    BY DEF Init, Receiver
  <2>4. /\ fwdHead \in [Peer -> [Source -> Nat]] /\ bounds \in [Peer -> [Source -> Int \X Int]]
        /\ head \in [Source -> Nat] /\ lastHead \in [Source -> Nat] /\ retired \subseteq Peer
        /\ nvlTail \in [Peer -> Nat] /\ nvlHead \in [Peer -> Nat] /\ meta \in [Source -> Meta]
    BY <2>1 DEF Init
  <2> QED BY <2>2, <2>3, <2>4 DEF CountTyped
<1>2. ASSUME NEW s \in Source PROVE SourceInOrder(s)
  BY DEF Init, SourceInOrder
<1>3. ASSUME NEW p \in Peer, NEW s \in Source PROVE LaneInOrder(p, s)
  BY DEF Init, LaneInOrder
<1>4. ASSUME NEW p \in Peer PROVE ForwarderInTurn(p)
  BY DEF Init, ForwarderInTurn
<1> QED BY <1>1, <1>2, <1>3, <1>4 DEF CountInv

(* A lane whose registers stay, and whose tail only grows. *)
LEMMA LaneKept ==
  ASSUME NEW p \in Peer, NEW s \in Source, LaneInOrder(p, s), run' = run,
         fwd'[p] = fwd[p], fwdHead'[p][s] = fwdHead[p][s], bounds'[p][s] = bounds[p][s],
         lastHead'[s] = lastHead[s], fwd[p].tail[s] <= tail'[s]
  PROVE  LaneInOrder(p, s)'
BY RunKept DEF LaneInOrder

(* A forwarder whose registers and queue stay. *)
LEMMA TurnKept ==
  ASSUME NEW p \in Peer, ForwarderInTurn(p), fwd'[p] = fwd[p], rcv'[p] = rcv[p],
         nvlTail'[p] = nvlTail[p], nvlHead'[p] = nvlHead[p],
         p \in retired' <=> p \in retired
  PROVE  ForwarderInTurn(p)'
BY DEF ForwarderInTurn

(* The registers of a lane, with their order. *)
LEMMA TailReached ==
  ASSUME CountInv, WireInv, NEW p \in Peer, NEW s \in Source
  PROVE  /\ fwd[p].tail[s] \in Nat /\ fwd[p].head[s] \in Nat /\ tail[s] \in Nat
         /\ fwd[p].tail[s] <= tail[s] /\ fwd[p].head[s] <= fwd[p].tail[s]
         /\ lastHead[s] \in Nat /\ lastHead[s] <= fwd[p].head[s]
         /\ fwd[p].left[s] \in Int /\ fwd[p].first[s] \in Int /\ fwd[p].seen[s] \in Nat
         /\ fwd[p].queued \in Nat /\ fwd[p].busy \in BOOLEAN /\ fwd[p].src \in Source
<1>1. fwd[p] \in Forwarder
  BY DEF CountInv, CountTyped
<1>2. /\ fwd[p].tail[s] \in Nat /\ fwd[p].head[s] \in Nat
      /\ fwd[p].left[s] \in Int /\ fwd[p].first[s] \in Int /\ fwd[p].seen[s] \in Nat
      /\ fwd[p].queued \in Nat /\ fwd[p].busy \in BOOLEAN /\ fwd[p].src \in Source
  BY <1>1 DEF Forwarder
<1>3. tail[s] \in Nat /\ lastHead[s] \in Nat
  BY DEF CountInv, CountTyped, WireInv, WireTyped
<1>4. /\ fwd[p].tail[s] <= tail[s] /\ fwd[p].head[s] <= fwd[p].tail[s]
      /\ lastHead[s] <= fwd[p].head[s]
  BY DEF CountInv, LaneInOrder
<1> QED BY <1>2, <1>3, <1>4

(* A step that moves none of the counters past the wire. *)
LEMMA CountOthers ==
  ASSUME CountInv, WireInv,
         UNCHANGED <<run, head, tail, meta, forwarder, nvlTail, nvlHead, bounds, rcv>>
  PROVE  CountInv'
<1>1. UNCHANGED <<fwd, fwdHead, retired, lastHead>>
  BY DEF forwarder
<1>2. CountTyped'
  BY <1>1 DEF CountInv, CountTyped, Meta
<1>3. ASSUME NEW s \in Source PROVE SourceInOrder(s)'
  BY <1>1, RunKept DEF CountInv, SourceInOrder, NoWords
<1>4. ASSUME NEW p \in Peer, NEW s \in Source PROVE LaneInOrder(p, s)'
  BY <1>1, LaneKept, TailReached DEF CountInv
<1>5. ASSUME NEW p \in Peer PROVE ForwarderInTurn(p)'
  BY <1>1, TurnKept DEF CountInv
<1> QED BY <1>2, <1>3, <1>4, <1>5 DEF CountInv

(* The tail or the meta words arrive. *)
LEMMA CountNetwork ==
  ASSUME CountInv, WireInv, NEW s \in Source,
         UNCHANGED <<run, head, forwarder, nvlTail, nvlHead, bounds, rcv>>,
         \/ tail' = tail
         \/ \E n \in Nat : tail' = [tail EXCEPT ![s] = @ + n],
         run \in Runs,
         meta' = meta \/ meta' = [meta EXCEPT ![s] = Words(s)]
  PROVE  CountInv'
<1>1. UNCHANGED <<fwd, fwdHead, retired, lastHead>>
  BY DEF forwarder
<1>2. \A r \in Source : tail[r] \in Nat /\ tail'[r] \in Nat /\ tail[r] <= tail'[r]
  BY DEF WireInv, WireTyped
<1>3. CountTyped'
  <2>1. meta' \in [Source -> Meta]
    BY WordsType DEF CountInv, CountTyped
  <2> QED BY <1>1, <2>1 DEF CountInv, CountTyped
<1>4. ASSUME NEW r \in Source PROVE SourceInOrder(r)'
  <2>1. meta'[r] \in {NoWords, Words(r)}
    BY DEF CountInv, CountTyped, SourceInOrder
  <2>2. head'[r] = lastHead'[r] /\ lastHead'[r] <= tail'[r]
    <3>1. head[r] = lastHead[r] /\ lastHead[r] \in Nat /\ lastHead[r] <= tail[r]
      BY DEF CountInv, CountTyped, SourceInOrder
    <3> QED BY <1>1, <1>2, <3>1
  <2> QED BY <2>1, <2>2, RunKept DEF SourceInOrder, NoWords
<1>5. ASSUME NEW p \in Peer, NEW r \in Source PROVE LaneInOrder(p, r)'
  <2>1. fwd[p].tail[r] <= tail'[r]
    BY <1>2, TailReached
  <2> QED BY <1>1, <2>1, LaneKept DEF CountInv
<1>6. ASSUME NEW p \in Peer PROVE ForwarderInTurn(p)'
  BY <1>1, TurnKept DEF CountInv
<1> QED BY <1>3, <1>4, <1>5, <1>6 DEF CountInv

(* Slots go back to a source. *)
LEMMA CreditCount ==
  ASSUME IInv, WireInv, CountInv, NEW s \in Source, Credit(s)
  PROVE  /\ CountInv'
         /\ \E min \in Nat :
              /\ lastHead[s] <= min
              /\ head' = [head EXCEPT ![s] = min] /\ lastHead' = [lastHead EXCEPT ![s] = min]
              /\ \A p \in Peer : min <= fwd[p].head[s]
<1>1. PICK p \in Peer \ retired :
        /\ \A q \in Peer \ retired : fwdHead[p][s] <= fwdHead[q][s]
        /\ fwdHead[p][s] >= lastHead[s] + RdmaSend
        /\ head' = [head EXCEPT ![s] = @ + (fwdHead[p][s] - lastHead[s])]
        /\ lastHead' = [lastHead EXCEPT ![s] = fwdHead[p][s]]
  BY DEF Credit
<1> DEFINE min == fwdHead[p][s]
<1>2. UNCHANGED <<run, tail, meta, fwd, fwdHead, retired, bounds, nvlTail, nvlHead, rcv>>
  BY DEF Credit, nvlink
<1>3. \A q \in Peer : fwdHead[q][s] = fwd[q].head[s]
  BY DEF CountInv, LaneInOrder
<1>4. min \in Nat /\ min <= tail[s] /\ lastHead[s] <= min /\ head[s] = lastHead[s] /\ lastHead[s] \in Nat
      /\ tail[s] \in Nat
  BY <1>1, <1>3, TailReached DEF CountInv, SourceInOrder
<1>5. head[s] + (min - lastHead[s]) = min
  <2> HIDE DEF min
  <2> QED BY <1>4
<1>6. head' = [head EXCEPT ![s] = min] /\ lastHead' = [lastHead EXCEPT ![s] = min]
  BY <1>1, <1>5
<1>7. \A q \in Peer : min <= fwd[q].head[s]
  <2> SUFFICES ASSUME NEW q \in Peer PROVE min <= fwd[q].head[s]
    OBVIOUS
  <2>1. CASE q \notin retired
    BY <1>1, <1>3, <2>1
  <2>2. CASE q \in retired
    <3>1. fwd[q].left[s] <= 0 /\ fwd[q].left[s] = Total(s) - fwd[q].head[s]
      BY <2>2 DEF CountInv, ForwarderInTurn, LaneInOrder
    <3>2. Total(s) \in Nat /\ fwd[q].head[s] \in Nat
      BY TotalType, TailReached DEF IInv, WindowTyped
    <3>3. tail[s] <= Total(s)
      <4>1. tail[s] <= issued[s] /\ issued[s] <= sendTail[s] /\ sendTail[s] <= Total(s)
        BY SendTailBound DEF WireInv, WireInOrder, Chain
      <4>2. issued[s] \in Nat /\ sendTail[s] \in Nat
        BY DEF WireInv, WireTyped, IInv, WindowTyped
      <4> QED BY <1>4, <3>2, <4>1, <4>2
    <3> HIDE DEF min
    <3> QED BY <1>4, <3>1, <3>2, <3>3
  <2> QED BY <2>1, <2>2
<1> HIDE DEF min
<1>8. CountTyped'
  BY <1>2, <1>4, <1>6 DEF CountInv, CountTyped
<1>9. \A r \in Source : /\ head'[r] = IF r = s THEN min ELSE head[r]
                        /\ lastHead'[r] = IF r = s THEN min ELSE lastHead[r]
  BY <1>6 DEF CountInv, CountTyped
<1>10. ASSUME NEW r \in Source PROVE SourceInOrder(r)'
  BY <1>2, <1>4, <1>9, RunKept DEF CountInv, SourceInOrder, NoWords
<1>11. ASSUME NEW q \in Peer, NEW r \in Source PROVE LaneInOrder(q, r)'
  BY <1>2, <1>7, <1>9, RunKept DEF CountInv, LaneInOrder
<1>12. ASSUME NEW q \in Peer PROVE ForwarderInTurn(q)'
  BY <1>2, TurnKept DEF CountInv
<1> QED BY <1>4, <1>6, <1>7, <1>8, <1>10, <1>11, <1>12 DEF CountInv

(* What the registers of a forwarder become. *)
AfterMeta(f, s, a, b, g) ==
  /\ g = [f EXCEPT !.got = f.got \cup {s}, !.first[s] = a, !.left[s] = b]
  /\ g.got = f.got \cup {s}
  /\ g.first = [f.first EXCEPT ![s] = a] /\ g.left = [f.left EXCEPT ![s] = b]
  /\ g.head = f.head /\ g.tail = f.tail /\ g.seen = f.seen
  /\ g.queued = f.queued /\ g.busy = f.busy /\ g.src = f.src

AfterChoice(f, s, t, g) ==
  /\ g = [f EXCEPT !.busy = TRUE, !.src = s, !.tail[s] = t]
  /\ g.got = f.got /\ g.first = f.first /\ g.left = f.left /\ g.head = f.head
  /\ g.tail = [f.tail EXCEPT ![s] = t] /\ g.seen = f.seen
  /\ g.queued = f.queued /\ g.busy = TRUE /\ g.src = s

AfterChunk(f, s, to, left, seen, queued, g) ==
  /\ g = [f EXCEPT !.busy = FALSE, !.head[s] = to, !.left[s] = left, !.seen[s] = seen,
                   !.queued = queued]
  /\ g.got = f.got /\ g.first = f.first /\ g.left = [f.left EXCEPT ![s] = left]
  /\ g.head = [f.head EXCEPT ![s] = to] /\ g.tail = f.tail
  /\ g.seen = [f.seen EXCEPT ![s] = seen]
  /\ g.queued = queued /\ g.busy = FALSE /\ g.src = f.src

(* The record update of ReadMeta has the type of the registers. *)
LEMMA MetaUpdate ==
  ASSUME NEW f \in Forwarder, NEW s \in Source, NEW a \in Int, NEW b \in Int
  PROVE  \E g \in Forwarder : AfterMeta(f, s, a, b, g)
<1> DEFINE g == [f EXCEPT !.got = f.got \cup {s}, !.first[s] = a, !.left[s] = b]
<1>1. g \in Forwarder /\ AfterMeta(f, s, a, b, g)
  BY DEF Forwarder, AfterMeta
<1> HIDE DEF g
<1> QED BY <1>1

(* That of Choose. *)
LEMMA ChoiceUpdate ==
  ASSUME NEW f \in Forwarder, NEW s \in Source, NEW t \in Nat
  PROVE  \E g \in Forwarder : AfterChoice(f, s, t, g)
<1> DEFINE g == [f EXCEPT !.busy = TRUE, !.src = s, !.tail[s] = t]
<1>1. g \in Forwarder /\ AfterChoice(f, s, t, g)
  BY DEF Forwarder, AfterChoice
<1> HIDE DEF g
<1> QED BY <1>1

(* That of Forward. *)
LEMMA ChunkUpdate ==
  ASSUME NEW f \in Forwarder, NEW s \in Source, NEW to \in Nat, NEW left \in Int,
         NEW seen \in Nat, NEW queued \in Nat
  PROVE  \E g \in Forwarder : AfterChunk(f, s, to, left, seen, queued, g)
<1> DEFINE g == [f EXCEPT !.busy = FALSE, !.head[s] = to, !.left[s] = left, !.seen[s] = seen,
                         !.queued = queued]
<1>1. g \in Forwarder /\ AfterChunk(f, s, to, left, seen, queued, g)
  BY DEF Forwarder, AfterChunk
<1> HIDE DEF g
<1> QED BY <1>1

(* The meta words a lane takes in set what it expects. *)
LEMMA ReadMetaCount ==
  ASSUME IInv, WireInv, CountInv, NEW p \in Peer, NEW s \in Source, ReadMeta(p, s)
  PROVE  /\ CountInv'
         /\ fwd' = [fwd EXCEPT ![p].got = @ \cup {s}, ![p].first[s] = run.prior,
                              ![p].left[s] = Total(s)]
<1>1. meta[s] = Words(s) /\ run \in Runs
  BY DEF ReadMeta, CountInv, SourceInOrder, IInv, WindowTyped
<1>2. /\ s \notin fwd[p].got
      /\ bounds' = [bounds EXCEPT ![p][s] = <<Words(s).start[p], Words(s).end[p]>>]
      /\ fwd' = [fwd EXCEPT ![p].got = @ \cup {s}, ![p].first[s] = -Words(s).rdmaStart - 1,
                            ![p].left[s] = (-Words(s).rdmaEnd - 1) - (-Words(s).rdmaStart - 1)]
      /\ UNCHANGED <<run, head, tail, meta, fwdHead, retired, lastHead, nvlTail, nvlHead, rcv>>
  BY <1>1 DEF ReadMeta
<1>3. run.prior \in Nat /\ Total(s) \in Nat /\ (run.prior + Total(s)) - run.prior = Total(s)
  BY <1>1, TotalType, WordsType
<1>4. fwd' = [fwd EXCEPT ![p].got = @ \cup {s}, ![p].first[s] = run.prior, ![p].left[s] = Total(s)]
  BY <1>1, <1>2, <1>3, WordsType
<1>5. Words(s).start[p] \in Int /\ Words(s).end[p] \in Int
  BY <1>1, WordsType DEF Meta
<1>6. fwd[p] \in Forwarder
  BY DEF CountInv, CountTyped
<1>a. fwd \in [Peer -> Forwarder]
  BY DEF CountInv, CountTyped
<1>f. PICK f \in Forwarder, a \in Nat, b \in Nat : f = fwd[p] /\ a = run.prior /\ b = Total(s)
  BY <1>3, <1>6
<1>b. fwd' = [fwd EXCEPT ![p] = [f EXCEPT !.got = f.got \cup {s}, !.first[s] = a, !.left[s] = b]]
  BY <1>4, <1>a, <1>f
<1>c. PICK g \in Forwarder : AfterMeta(f, s, a, b, g)
  BY MetaUpdate
<1>d. fwd' = [fwd EXCEPT ![p] = g]
  BY <1>b, <1>c DEF AfterMeta
<1>7. fwd'[p] = g /\ \A q \in Peer : q # p => fwd'[q] = fwd[q]
  BY <1>a, <1>d
<1>8. /\ fwd'[p].got = fwd[p].got \cup {s} /\ fwd'[p].first = [fwd[p].first EXCEPT ![s] = run.prior]
      /\ fwd'[p].left = [fwd[p].left EXCEPT ![s] = Total(s)]
      /\ fwd'[p].head = fwd[p].head /\ fwd'[p].tail = fwd[p].tail /\ fwd'[p].seen = fwd[p].seen
      /\ fwd'[p].queued = fwd[p].queued /\ fwd'[p].busy = fwd[p].busy /\ fwd'[p].src = fwd[p].src
  BY <1>c, <1>f, <1>7 DEF AfterMeta
<1>9. CountTyped'
  <2>1. fwd' \in [Peer -> Forwarder]
    BY <1>a, <1>c, <1>d
  <2>2. bounds' \in [Peer -> [Source -> Int \X Int]]
    BY <1>2, <1>5 DEF CountInv, CountTyped
  <2> QED BY <1>2, <2>1, <2>2 DEF CountInv, CountTyped
<1>10. ASSUME NEW r \in Source PROVE SourceInOrder(r)'
  BY <1>2, RunKept DEF CountInv, SourceInOrder, NoWords
<1>11. ASSUME NEW q \in Peer, NEW r \in Source PROVE LaneInOrder(q, r)'
  <2>1. CASE q # p
    <3>1. bounds'[q][r] = bounds[q][r]
      BY <1>2, <2>1 DEF CountInv, CountTyped
    <3> QED BY <1>2, <1>7, <2>1, <3>1, LaneKept, TailReached DEF CountInv
  <2>2. CASE q = p /\ r # s
    <3>1. /\ bounds'[p][r] = bounds[p][r] /\ fwd'[p].first[r] = fwd[p].first[r]
          /\ fwd'[p].left[r] = fwd[p].left[r] /\ (r \in fwd'[p].got <=> r \in fwd[p].got)
      BY <1>2, <1>6, <1>8, <2>2 DEF CountInv, CountTyped, Forwarder
    <3> QED BY <1>2, <1>8, <2>2, <3>1, RunKept, SMTT(60) DEF CountInv, LaneInOrder
  <2>3. CASE q = p /\ r = s
    <3>1. /\ bounds'[p][s] = <<Words(s).start[p], Words(s).end[p]>> /\ fwd'[p].first[s] = run.prior
          /\ fwd'[p].left[s] = Total(s) /\ s \in fwd'[p].got
      BY <1>2, <1>6, <1>8 DEF CountInv, CountTyped, Forwarder
    <3>2. LaneInOrder(p, s) /\ fwd[p].head[s] = 0
      BY <1>2 DEF CountInv, LaneInOrder
    <3>3. Total(s) = Total(s) - 0
      BY <1>3
    <3> QED BY <1>2, <1>8, <2>3, <3>1, <3>2, <3>3, RunKept, SMTT(60) DEF LaneInOrder
  <2> QED BY <2>1, <2>2, <2>3
<1>12. ASSUME NEW q \in Peer PROVE ForwarderInTurn(q)'
  <2>1. CASE q # p
    BY <1>2, <1>7, <2>1, TurnKept DEF CountInv
  <2>2. CASE q = p
    <3>1. p \notin retired /\ fwd[p].got # Source
      BY <1>2 DEF CountInv, ForwarderInTurn
    <3>2. ~fwd[p].busy
      BY <3>1 DEF CountInv, ForwarderInTurn
    <3> QED BY <1>2, <1>8, <2>2, <3>1, <3>2 DEF CountInv, ForwarderInTurn
  <2> QED BY <2>1, <2>2
<1> QED BY <1>4, <1>9, <1>10, <1>11, <1>12 DEF CountInv

(* A forwarder starts only with a row to look at and room for a chunk. *)
LEMMA ChooseCount ==
  ASSUME WireInv, CountInv, NEW p \in Peer, NEW s \in Source, Choose(p, s)
  PROVE  CountInv'
<1> DEFINE t == IF fwd[p].head[s] = fwd[p].tail[s] THEN tail[s] ELSE fwd[p].tail[s]
<1>1. /\ fwd[p].got = Source /\ NvlRecv - (fwd[p].queued - nvlHead[p]) >= NvlSend
      /\ fwd[p].left[s] > 0 /\ t > fwd[p].head[s]
      /\ fwd' = [fwd EXCEPT ![p].busy = TRUE, ![p].src = s, ![p].tail[s] = t]
      /\ UNCHANGED <<run, head, tail, meta, fwdHead, retired, lastHead, bounds, nvlTail, nvlHead, rcv>>
  BY DEF Choose, ForwardersMet, nvlink
<1>2. t \in Nat /\ fwd[p].head[s] <= t /\ t <= tail[s]
  BY TailReached
<1> HIDE DEF t
<1>3. fwd[p] \in Forwarder /\ p \notin retired
  <2>1. ~(fwd[p].left[s] <= 0)
    BY <1>1, TailReached
  <2> QED BY <2>1 DEF CountInv, CountTyped, ForwarderInTurn
<1>a. fwd \in [Peer -> Forwarder]
  BY DEF CountInv, CountTyped
<1>f. PICK f \in Forwarder, u \in Nat : f = fwd[p] /\ u = t
  BY <1>2, <1>3
<1>b. fwd' = [fwd EXCEPT ![p] = [f EXCEPT !.busy = TRUE, !.src = s, !.tail[s] = u]]
  BY <1>1, <1>a, <1>f
<1>c. PICK g \in Forwarder : AfterChoice(f, s, u, g)
  BY ChoiceUpdate
<1>d. fwd' = [fwd EXCEPT ![p] = g]
  BY <1>b, <1>c DEF AfterChoice
<1>4. fwd'[p] = g /\ \A q \in Peer : q # p => fwd'[q] = fwd[q]
  BY <1>a, <1>d
<1>5. /\ fwd'[p].got = fwd[p].got /\ fwd'[p].first = fwd[p].first /\ fwd'[p].left = fwd[p].left
      /\ fwd'[p].head = fwd[p].head /\ fwd'[p].tail = [fwd[p].tail EXCEPT ![s] = t]
      /\ fwd'[p].seen = fwd[p].seen /\ fwd'[p].queued = fwd[p].queued
      /\ fwd'[p].busy = TRUE /\ fwd'[p].src = s
  BY <1>c, <1>f, <1>4 DEF AfterChoice
<1>6. CountTyped'
  <2>1. fwd' \in [Peer -> Forwarder]
    BY <1>a, <1>c, <1>d
  <2> QED BY <1>1, <2>1 DEF CountInv, CountTyped
<1>7. ASSUME NEW r \in Source PROVE SourceInOrder(r)'
  BY <1>1, RunKept DEF CountInv, SourceInOrder, NoWords
<1>8. ASSUME NEW q \in Peer, NEW r \in Source PROVE LaneInOrder(q, r)'
  <2>1. CASE q # p
    BY <1>1, <1>4, <2>1, LaneKept, TailReached DEF CountInv
  <2>2. CASE q = p /\ r # s
    <3>1. fwd'[p].tail[r] = fwd[p].tail[r]
      BY <1>3, <1>5, <2>2 DEF Forwarder
    <3> QED BY <1>1, <1>5, <2>2, <3>1, RunKept DEF CountInv, LaneInOrder
  <2>3. CASE q = p /\ r = s
    <3>1. fwd'[p].tail[s] = t /\ s \in fwd[p].got
      BY <1>1, <1>3, <1>5 DEF Forwarder
    <3> QED BY <1>1, <1>2, <1>5, <2>3, <3>1, RunKept DEF CountInv, LaneInOrder
  <2> QED BY <2>1, <2>2, <2>3
<1>9. ASSUME NEW q \in Peer PROVE ForwarderInTurn(q)'
  <2>1. CASE q # p
    BY <1>1, <1>4, <2>1, TurnKept DEF CountInv
  <2>2. CASE q = p
    <3>1. fwd'[p].tail[s] = t
      BY <1>3, <1>5 DEF Forwarder
    <3>2. fwd[p].head[s] < t
      BY <1>1, <1>2, TailReached
    <3>3. fwd[p].queued + NvlSend <= nvlHead[p] + NvlRecv
      BY <1>1, TailReached, SizesAssumption DEF CountInv, CountTyped
    <3> QED BY <1>1, <1>3, <1>5, <2>2, <3>1, <3>2, <3>3 DEF CountInv, ForwarderInTurn
  <2> QED BY <2>1, <2>2
<1> QED BY <1>6, <1>7, <1>8, <1>9 DEF CountInv

(* Forwarding a chunk keeps all counters in order. *)
LEMMA ForwardCount ==
  ASSUME IInv, WireInv, CountInv, NEW p \in Peer, Forward(p)
  PROVE  /\ CountInv'
         /\ \E g \in Forwarder :
              /\ fwd' = [fwd EXCEPT ![p] = g]
              /\ AfterChunk(fwd[p], fwd[p].src, ChunkEnd(p),
                            fwd[p].left[fwd[p].src] - (ChunkEnd(p) - fwd[p].head[fwd[p].src]),
                            fwd[p].seen[fwd[p].src] + Cardinality(Chunk(p)),
                            fwd[p].queued + Cardinality(Chunk(p)), g)
<1>1. /\ fwd[p].busy /\ fwd[p].src \in Source
      /\ ChunkEnd(p) \in fwd[p].head[fwd[p].src] + 1 .. fwd[p].tail[fwd[p].src]
      /\ Cardinality(Chunk(p)) \in 0 .. NvlSend
  BY ForwardStep, ChunkBounds
<1>2. fwd[p] \in Forwarder /\ fwd \in [Peer -> Forwarder]
  BY DEF CountInv, CountTyped
<1>3. PICK f \in Forwarder, s \in Source : f = fwd[p] /\ s = f.src
  BY <1>1, <1>2
<1>4. PICK to \in Nat, c \in Nat :
        to = ChunkEnd(p) /\ c = Cardinality(Chunk(p)) /\ f.head[s] < to /\ to <= f.tail[s] /\ c <= NvlSend
  <2>1. ChunkEnd(p) \in f.head[s] + 1 .. f.tail[s] /\ Cardinality(Chunk(p)) \in 0 .. NvlSend
    BY <1>1, <1>3
  <2>2. f.head[s] \in Nat /\ f.tail[s] \in Nat /\ NvlSend \in Nat
    BY SizesAssumption DEF Forwarder
  <2> QED BY <2>1, <2>2
<1>5. PICK left \in Int, seen \in Nat, queued \in Nat :
        /\ left = f.left[s] - (to - f.head[s]) /\ seen = f.seen[s] + c /\ queued = f.queued + c
  <2>1. /\ f.left[s] - (to - f.head[s]) \in Int /\ f.seen[s] + c \in Nat /\ f.queued + c \in Nat
    <3>1. f.left[s] \in Int /\ f.head[s] \in Nat /\ f.seen[s] \in Nat /\ f.queued \in Nat
      BY DEF Forwarder
    <3> QED BY <3>1
  <2> QED BY <2>1
<1>6. /\ fwd' = [fwd EXCEPT ![p].busy = FALSE, ![p].head[s] = to, ![p].left[s] = left,
                           ![p].seen[s] = seen, ![p].queued = queued]
      /\ fwdHead' = [fwdHead EXCEPT ![p][s] = to]
      /\ nvlTail' = [nvlTail EXCEPT ![p] = queued]
      /\ UNCHANGED <<run, head, tail, meta, retired, lastHead, bounds, nvlHead, rcv>>
  <2>1. /\ fwd' = [fwd EXCEPT ![p].busy = FALSE, ![p].head[s] = to,
                   ![p].left[s] = @ - (to - f.head[s]),
                   ![p].seen[s] = @ + c, ![p].queued = @ + c]
        /\ fwdHead' = [fwdHead EXCEPT ![p][s] = to]
        /\ nvlTail' = [nvlTail EXCEPT ![p] = f.queued + c]
        /\ UNCHANGED <<run, head, tail, meta, retired, lastHead, bounds, nvlHead, rcv>>
    BY <1>3, <1>4, ForwardStep
  <2>2. /\ left = fwd[p].left[s] - (to - f.head[s]) /\ seen = fwd[p].seen[s] + c
        /\ queued = fwd[p].queued + c /\ queued = f.queued + c
    BY <1>3, <1>5
  <2> QED BY <2>1, <2>2
<1>7. fwd' = [fwd EXCEPT ![p] = [f EXCEPT !.busy = FALSE, !.head[s] = to, !.left[s] = left,
                                          !.seen[s] = seen, !.queued = queued]]
  <2>1. PICK F \in [Peer -> Forwarder] : F = fwd
    BY <1>2
  <2>2. [F EXCEPT ![p].busy = FALSE, ![p].head[s] = to, ![p].left[s] = left,
                  ![p].seen[s] = seen, ![p].queued = queued]
           = [F EXCEPT ![p] = [F[p] EXCEPT !.busy = FALSE, !.head[s] = to, !.left[s] = left,
                                           !.seen[s] = seen, !.queued = queued]]
    BY ZenonT(60)
  <2>3. F[p] = f
    BY <1>3, <2>1
  <2>4. fwd' = [F EXCEPT ![p].busy = FALSE, ![p].head[s] = to, ![p].left[s] = left,
                         ![p].seen[s] = seen, ![p].queued = queued]
    BY <1>6, <2>1
  <2> QED BY <2>1, <2>2, <2>3, <2>4
<1>8. PICK g \in Forwarder : AfterChunk(f, s, to, left, seen, queued, g)
  BY ChunkUpdate
<1>9. fwd' = [fwd EXCEPT ![p] = g]
  BY <1>7, <1>8 DEF AfterChunk
<1>10. fwd'[p] = g /\ \A q \in Peer : q # p => fwd'[q] = fwd[q]
  BY <1>2, <1>9
<1>11. /\ fwd'[p].got = f.got /\ fwd'[p].first = f.first /\ fwd'[p].left = [f.left EXCEPT ![s] = left]
       /\ fwd'[p].head = [f.head EXCEPT ![s] = to] /\ fwd'[p].tail = f.tail
       /\ fwd'[p].queued = queued /\ fwd'[p].busy = FALSE
  BY <1>8, <1>10 DEF AfterChunk
<1>12. CountTyped'
  <2>1. fwd' \in [Peer -> Forwarder]
    BY <1>2, <1>9
  <2>2. fwdHead' \in [Peer -> [Source -> Nat]] /\ nvlTail' \in [Peer -> Nat]
    BY <1>6 DEF CountInv, CountTyped
  <2> QED BY <1>6, <2>1, <2>2 DEF CountInv, CountTyped
<1>13. ASSUME NEW r \in Source PROVE SourceInOrder(r)'
  BY <1>6, RunKept DEF CountInv, SourceInOrder, NoWords
<1>14. f.got = Source /\ f.queued + NvlSend <= nvlHead[p] + NvlRecv
  BY <1>1, <1>3 DEF CountInv, ForwarderInTurn
<1>15. /\ fwd'[p].left[s] = left /\ fwd'[p].head[s] = to
       /\ \A r \in Source : r # s => fwd'[p].left[r] = f.left[r] /\ fwd'[p].head[r] = f.head[r]
  BY <1>11 DEF Forwarder
<1>16. ASSUME NEW q \in Peer, NEW r \in Source PROVE LaneInOrder(q, r)'
  <2>1. CASE q # p
    <3>1. fwdHead'[q][r] = fwdHead[q][r]
      BY <1>6, <2>1 DEF CountInv, CountTyped
    <3> QED BY <1>6, <1>10, <2>1, <3>1, LaneKept, TailReached DEF CountInv
  <2>2. ASSUME r # s PROVE LaneInOrder(p, r)'
    <3>1. fwdHead'[p][r] = fwdHead[p][r]
      BY <1>6, <2>2 DEF CountInv, CountTyped
    <3>2. /\ fwd'[p].head[r] = fwd[p].head[r] /\ fwd'[p].tail[r] = fwd[p].tail[r]
          /\ fwd'[p].left[r] = fwd[p].left[r] /\ fwd'[p].first[r] = fwd[p].first[r]
          /\ fwd'[p].got = fwd[p].got
      BY <1>3, <1>11, <1>15, <2>2
    <3>3. LaneInOrder(p, r)
      BY DEF CountInv
    <3> QED BY <1>6, <3>1, <3>2, <3>3, RunKept DEF LaneInOrder
  <2>3. LaneInOrder(p, s)'
    <3>1. fwdHead'[p][s] = to
      BY <1>6 DEF CountInv, CountTyped
    <3>2. LaneInOrder(p, s) /\ lastHead[s] \in Nat /\ f.head[s] \in Nat
      BY DEF CountInv, CountTyped, Forwarder
    <3>3. lastHead[s] <= to
      BY <1>3, <1>4, <3>2 DEF LaneInOrder
    <3>4. left = Total(s) - to
      <4>1. f.left[s] = Total(s) - f.head[s] /\ Total(s) \in Nat
        BY <1>3, <1>14, <3>2, TotalType DEF LaneInOrder, IInv, WindowTyped
      <4> QED BY <1>4, <1>5, <3>2, <4>1
    <3>5. /\ fwd'[p].head[s] = to /\ fwd'[p].tail[s] = fwd[p].tail[s] /\ to <= fwd[p].tail[s]
          /\ fwd'[p].left[s] = Total(s) - to /\ fwd'[p].first[s] = fwd[p].first[s]
          /\ s \in fwd[p].got /\ fwd'[p].got = fwd[p].got
      BY <1>3, <1>4, <1>11, <1>14, <1>15, <3>4
    <3> QED BY <1>6, <3>1, <3>2, <3>3, <3>5, RunKept DEF LaneInOrder
  <2>4. q = p \/ q # p
    OBVIOUS
  <2> QED BY <2>1, <2>2, <2>3, <2>4
<1>17. ASSUME NEW q \in Peer PROVE ForwarderInTurn(q)'
  <2>1. CASE q # p
    <3>1. nvlTail'[q] = nvlTail[q]
      BY <1>6, <2>1 DEF CountInv, CountTyped
    <3> QED BY <1>6, <1>10, <2>1, <3>1, TurnKept DEF CountInv
  <2>2. ForwarderInTurn(p)'
    <3>1. nvlTail'[p] = queued /\ nvlTail[p] = f.queued /\ f.queued \in Nat
      BY <1>3, <1>6 DEF CountInv, CountTyped, ForwarderInTurn, Forwarder
    <3>2. nvlTail[p] <= queued /\ queued <= nvlHead[p] + NvlRecv
      <4>1. nvlHead[p] \in Nat /\ NvlSend \in Nat /\ NvlRecv \in Nat
        BY SizesAssumption DEF CountInv, CountTyped
      <4> QED BY <1>4, <1>5, <1>14, <3>1, <4>1
    <3>3. rcv[p].tail \in Nat /\ rcv[p].tail <= queued
      <4>1. rcv[p].tail \in Nat /\ rcv[p].tail <= nvlTail[p] /\ nvlTail[p] \in Nat
        BY DEF CountInv, CountTyped, ForwarderInTurn, Receiver
      <4> QED BY <3>2, <4>1
    <3>4. \A r \in Source : fwd[p].left[r] <= 0 => fwd'[p].left[r] <= 0
      <4> SUFFICES ASSUME NEW r \in Source, f.left[r] <= 0 PROVE fwd'[p].left[r] <= 0
        BY <1>3
      <4>1. CASE r # s
        BY <1>15, <4>1
      <4>2. CASE r = s
        <5>1. f.left[s] \in Int /\ f.head[s] \in Nat
          BY DEF Forwarder
        <5>2. left <= 0
          BY <1>4, <1>5, <4>2, <5>1
        <5> QED BY <1>15, <4>2, <5>2
      <4> QED BY <4>1, <4>2
    <3>5. /\ fwd'[p].got = fwd[p].got /\ ~fwd'[p].busy /\ fwd'[p].queued = queued
      BY <1>3, <1>11
    <3>6. ForwarderInTurn(p)
      BY DEF CountInv
    <3> QED BY <1>6, <3>1, <3>2, <3>3, <3>4, <3>5, <3>6 DEF ForwarderInTurn
  <2> QED BY <2>1, <2>2
<1>18. CountInv'
  BY <1>12, <1>13, <1>16, <1>17 DEF CountInv
<1> QED BY <1>3, <1>4, <1>5, <1>8, <1>9, <1>18

(* A forwarder retires only when it has done all. *)
LEMMA RetireCount ==
  ASSUME WireInv, CountInv, NEW p \in Peer, Retire(p)
  PROVE  CountInv'
<1>1. /\ ForwardersMet /\ ~fwd[p].busy /\ \A s \in Source : fwd[p].left[s] <= 0
      /\ retired' = retired \cup {p}
      /\ UNCHANGED <<run, head, tail, meta, fwd, fwdHead, lastHead, bounds, nvlTail, nvlHead, rcv>>
  BY DEF Retire, nvlink
<1>2. CountTyped'
  BY <1>1 DEF CountInv, CountTyped
<1>3. ASSUME NEW r \in Source PROVE SourceInOrder(r)'
  BY <1>1, RunKept DEF CountInv, SourceInOrder, NoWords
<1>4. ASSUME NEW q \in Peer, NEW r \in Source PROVE LaneInOrder(q, r)'
  BY <1>1, LaneKept, TailReached DEF CountInv
<1>5. ASSUME NEW q \in Peer PROVE ForwarderInTurn(q)'
  BY <1>1 DEF CountInv, ForwarderInTurn, ForwardersMet
<1> QED BY <1>2, <1>3, <1>4, <1>5 DEF CountInv

(* Where the rows of a source begin is a number. *)
LEMMA BaseType ==
  ASSUME run \in Runs, NEW s \in Source, NEW p \in Peer
  PROVE  Base(s, p) \in Nat
<1> DEFINE P(q) == {q} \X (1 .. Count(q, p))
           D == 0 .. s - 1
           I == {P(q) : q \in D}
           f == [q \in D |-> P(q)]
<1>1. IsFiniteSet(D) /\ D \subseteq Source
  <2>1. s - 1 \in Int /\ 0 \in Int /\ D \subseteq Source
    BY SizesAssumption DEF Source
  <2> QED BY <2>1, FS_Interval
<1>2. ASSUME NEW q \in D PROVE IsFiniteSet(P(q))
  <2>1. Count(q, p) \in Int
    <3>1. q \in Source
      BY <1>1
    <3>2. run.prior \in Nat /\ Cardinality(For(q, p)) \in Nat
      BY <3>1, WordsType
    <3> QED BY <3>2 DEF Count
  <2>2. PICK n \in Int : n = Count(q, p)
    BY <2>1
  <2>3. [i \in 1 .. n |-> <<q, i>>] \in Surjection(1 .. n, P(q))
    <3> DEFINE h == [i \in 1 .. n |-> <<q, i>>]
    <3>1. h \in [1 .. n -> P(q)]
      BY <2>2
    <3>2. \A x \in P(q) : \E i \in 1 .. n : h[i] = x
      <4> SUFFICES ASSUME NEW x \in P(q) PROVE \E i \in 1 .. n : h[i] = x
        OBVIOUS
      <4>1. PICK i \in 1 .. n : x = <<q, i>>
        BY <2>2
      <4>2. h[i] = x
        BY <4>1
      <4> QED BY <4>2
    <3> HIDE DEF h
    <3>3. h \in Surjection(1 .. n, P(q))
      <4> HIDE DEF P
      <4> QED BY <3>1, <3>2 DEF Surjection
    <3> QED BY <3>3 DEF h
  <2>4. IsFiniteSet(1 .. n)
    BY FS_Interval
  <2> HIDE DEF P
  <2> QED BY <2>3, <2>4, FS_Surjection
<1>3. f \in Surjection(D, I)
  <2> HIDE DEF P
  <2> QED BY DEF Surjection
<1>4. IsFiniteSet(I)
  <2> HIDE DEF f, I
  <2> QED BY <1>1, <1>3, FS_Surjection
<1>5. \A x \in I : IsFiniteSet(x)
  <2> HIDE DEF P
  <2> QED BY <1>2
<1>6. IsFiniteSet(UNION I)
  <2> HIDE DEF I
  <2> QED BY <1>4, <1>5, FS_UNION
<1>7. Base(s, p) = Cardinality(UNION I)
  BY DEF Base
<1> HIDE DEF I
<1> QED BY <1>6, <1>7, FS_CardinalityType

(* What the registers of a receiver become. *)
AfterBounds(r, s, offset, left, g) ==
  /\ g.got = r.got \cup {s} /\ g.offset = [r.offset EXCEPT ![s] = offset]
  /\ g.left = left /\ g.head = r.head /\ g.tail = r.tail

AfterTail(r, tl, g) ==
  /\ g.got = r.got /\ g.offset = r.offset /\ g.left = r.left /\ g.head = r.head /\ g.tail = tl

AfterBatch(r, left, offset, g) ==
  /\ g.got = r.got /\ g.offset = offset /\ g.left = left /\ g.head = r.tail /\ g.tail = r.tail

(* The record updates of a receiver have the type of its registers. *)
LEMMA ReceiverUpdate ==
  ASSUME NEW r \in Receiver
  PROVE  /\ \A s \in Source, o \in Int, l \in Int :
              \E g \in Receiver : /\ g = [r EXCEPT !.got = r.got \cup {s}, !.offset[s] = o, !.left = l]
                                  /\ AfterBounds(r, s, o, l, g)
         /\ \A t \in Nat : \E g \in Receiver : g = [r EXCEPT !.tail = t] /\ AfterTail(r, t, g)
         /\ \A l \in Int, o \in [Source -> Int] :
              \E g \in Receiver : /\ g = [r EXCEPT !.head = r.tail, !.left = l, !.offset = o]
                                  /\ AfterBatch(r, l, o, g)
<1>1. ASSUME NEW s \in Source, NEW o \in Int, NEW l \in Int
      PROVE  \E g \in Receiver : /\ g = [r EXCEPT !.got = r.got \cup {s}, !.offset[s] = o, !.left = l]
                                 /\ AfterBounds(r, s, o, l, g)
  <2> DEFINE g == [r EXCEPT !.got = r.got \cup {s}, !.offset[s] = o, !.left = l]
  <2>1. g \in Receiver /\ AfterBounds(r, s, o, l, g)
    BY DEF Receiver, AfterBounds
  <2> QED BY <2>1
<1>2. ASSUME NEW t \in Nat
      PROVE  \E g \in Receiver : g = [r EXCEPT !.tail = t] /\ AfterTail(r, t, g)
  <2> DEFINE g == [r EXCEPT !.tail = t]
  <2>1. g \in Receiver /\ AfterTail(r, t, g)
    BY DEF Receiver, AfterTail
  <2> QED BY <2>1
<1>3. ASSUME NEW l \in Int, NEW o \in [Source -> Int]
      PROVE  \E g \in Receiver : /\ g = [r EXCEPT !.head = r.tail, !.left = l, !.offset = o]
                                 /\ AfterBatch(r, l, o, g)
  <2> DEFINE g == [r EXCEPT !.head = r.tail, !.left = l, !.offset = o]
  <2>1. g \in Receiver /\ AfterBatch(r, l, o, g)
    BY DEF Receiver, AfterBatch
  <2> QED BY <2>1
<1> QED BY <1>1, <1>2, <1>3

(* A receiver's step leaves the forwarders as they are, except that there  *)
(* may be more room.                                                       *)
LEMMA ReceiverCount ==
  ASSUME WireInv, CountInv, NEW p \in Peer, NEW g \in Receiver, rcv' = [rcv EXCEPT ![p] = g],
         NEW h \in Nat, nvlHead' = [nvlHead EXCEPT ![p] = h],
         nvlHead[p] <= h, g.head = h, h <= g.tail, g.tail <= nvlTail[p],
         UNCHANGED <<run, head, tail, meta, forwarder, nvlTail, bounds>>
  PROVE  CountInv'
<1>1. UNCHANGED <<fwd, fwdHead, retired, lastHead>>
  BY DEF forwarder
<1>2. CountTyped'
  BY <1>1 DEF CountInv, CountTyped
<1>3. ASSUME NEW r \in Source PROVE SourceInOrder(r)'
  BY <1>1, RunKept DEF CountInv, SourceInOrder, NoWords
<1>4. ASSUME NEW q \in Peer, NEW r \in Source PROVE LaneInOrder(q, r)'
  BY <1>1, LaneKept, TailReached DEF CountInv
<1>5. ASSUME NEW q \in Peer, q # p PROVE ForwarderInTurn(q)'
  <2>1. rcv'[q] = rcv[q] /\ nvlHead'[q] = nvlHead[q]
    BY <1>5 DEF CountInv, CountTyped
  <2> QED BY <1>1, <2>1, TurnKept DEF CountInv
<1>6. ForwarderInTurn(p)'
  <2>1. rcv'[p] = g /\ nvlHead'[p] = h
    BY DEF CountInv, CountTyped
  <2>2. /\ nvlHead[p] \in Nat /\ nvlTail[p] \in Nat /\ NvlRecv \in Nat /\ NvlSend \in Nat
        /\ fwd[p].queued \in Nat /\ ForwarderInTurn(p)
    BY SizesAssumption, TailReached DEF CountInv, CountTyped
  <2>3. nvlTail[p] <= h + NvlRecv
    BY <2>2 DEF ForwarderInTurn
  <2>4. fwd[p].busy => fwd[p].queued + NvlSend <= h + NvlRecv
    BY <2>2 DEF ForwarderInTurn
  <2> QED BY <1>1, <2>1, <2>2, <2>3, <2>4 DEF ForwarderInTurn
<1> QED BY <1>2, <1>3, <1>4, <1>5, <1>6 DEF CountInv

(* The offsets a receiver reads are the prefix sums of the source. *)
LEMMA ReadBoundsCount ==
  ASSUME IInv, WireInv, CountInv, NEW p \in Peer, NEW s \in Source, ReadBounds(p, s)
  PROVE  /\ CountInv'
         /\ s \notin rcv[p].got /\ s \in fwd[p].got
         /\ \E g \in Receiver :
              /\ rcv' = [rcv EXCEPT ![p] = g]
              /\ AfterBounds(rcv[p], s, Base(s, p) + run.prior,
                             rcv[p].left + Cardinality(For(s, p)), g)
<1>1. /\ s \notin rcv[p].got /\ bounds[p][s][1] < 0
      /\ rcv' = [rcv EXCEPT ![p].got = @ \cup {s},
                   ![p].offset[s] = Base(s, p) + (-bounds[p][s][1] - 1),
                   ![p].left = @ + ((-bounds[p][s][2] - 1) - (-bounds[p][s][1] - 1))]
      /\ UNCHANGED <<run, head, tail, meta, forwarder, bounds, nvlTail, nvlHead>>
  BY DEF ReadBounds, nvlink
<1>2. s \in fwd[p].got
  <2>1. <<0, 0>>[1] = 0
    OBVIOUS
  <2> QED BY <1>1, <2>1 DEF CountInv, LaneInOrder
<1>3. /\ bounds[p][s][1] = -run.prior - 1
      /\ bounds[p][s][2] = -(run.prior + Cardinality(For(s, p))) - 1
      /\ run.prior \in Nat /\ Cardinality(For(s, p)) \in Nat /\ Base(s, p) \in Nat
  <2>1. bounds[p][s] = <<Words(s).start[p], Words(s).end[p]>> /\ run \in Runs
    BY <1>2 DEF CountInv, LaneInOrder, IInv, WindowTyped
  <2> QED BY <2>1, WordsType, BaseType
<1>4. PICK r \in Receiver : r = rcv[p]
  BY DEF CountInv, CountTyped
<1>5. r.left \in Int
  BY DEF Receiver
<1>6. PICK o \in Int, l \in Int :
        /\ o = Base(s, p) + run.prior /\ o = Base(s, p) + (-bounds[p][s][1] - 1)
        /\ l = r.left + Cardinality(For(s, p))
        /\ l = r.left + ((-bounds[p][s][2] - 1) - (-bounds[p][s][1] - 1))
  <2>1. -(-run.prior - 1) - 1 = run.prior
    BY <1>3
  <2>2. (-(-(run.prior + Cardinality(For(s, p))) - 1) - 1) - (-(-run.prior - 1) - 1)
           = Cardinality(For(s, p))
    BY <1>3
  <2>3. Base(s, p) + run.prior \in Int /\ r.left + Cardinality(For(s, p)) \in Int
    BY <1>3, <1>5
  <2> QED BY <1>3, <2>1, <2>2, <2>3
<1>7. rcv \in [Peer -> Receiver]
  BY DEF CountInv, CountTyped
<1>8. rcv' = [rcv EXCEPT ![p].got = r.got \cup {s}, ![p].offset[s] = o, ![p].left = l]
  BY <1>1, <1>4, <1>6
<1>9. rcv' = [rcv EXCEPT ![p] = [r EXCEPT !.got = r.got \cup {s}, !.offset[s] = o, !.left = l]]
  BY <1>4, <1>7, <1>8
<1>10. PICK g \in Receiver :
         /\ g = [r EXCEPT !.got = r.got \cup {s}, !.offset[s] = o, !.left = l]
         /\ AfterBounds(r, s, o, l, g)
  BY ReceiverUpdate
<1>11. rcv' = [rcv EXCEPT ![p] = g]
  BY <1>9, <1>10
<1>12. nvlHead' = [nvlHead EXCEPT ![p] = nvlHead[p]] /\ nvlHead[p] \in Nat
  BY <1>1 DEF CountInv, CountTyped
<1>13. nvlHead[p] <= nvlHead[p] /\ g.head = nvlHead[p] /\ nvlHead[p] <= g.tail /\ g.tail <= nvlTail[p]
  BY <1>4, <1>10, <1>12 DEF AfterBounds, CountInv, ForwarderInTurn
<1>14. CountInv'
  BY <1>1, <1>11, <1>12, <1>13, ReceiverCount
<1> QED BY <1>1, <1>2, <1>4, <1>6, <1>10, <1>11, <1>14

(* The tail a receiver sees is between its head and the queue's tail. *)
LEMMA SeeTailCount ==
  ASSUME WireInv, CountInv, NEW p \in Peer, SeeTail(p)
  PROVE  /\ CountInv'
         /\ \E g \in Receiver :
              /\ rcv' = [rcv EXCEPT ![p] = g]
              /\ AfterTail(rcv[p], nvlTail[p], g)
<1>1. /\ rcv' = [rcv EXCEPT ![p].tail = nvlTail[p]]
      /\ UNCHANGED <<run, head, tail, meta, forwarder, bounds, nvlTail, nvlHead>>
  BY DEF SeeTail, nvlink
<1>2. PICK r \in Receiver, t \in Nat : r = rcv[p] /\ t = nvlTail[p]
  BY DEF CountInv, CountTyped
<1>3. rcv \in [Peer -> Receiver]
  BY DEF CountInv, CountTyped
<1>4. rcv' = [rcv EXCEPT ![p] = [r EXCEPT !.tail = t]]
  BY <1>1, <1>2, <1>3
<1>5. PICK g \in Receiver : g = [r EXCEPT !.tail = t] /\ AfterTail(r, t, g)
  BY ReceiverUpdate
<1>6. rcv' = [rcv EXCEPT ![p] = g]
  BY <1>4, <1>5
<1>7. nvlHead' = [nvlHead EXCEPT ![p] = nvlHead[p]] /\ nvlHead[p] \in Nat /\ nvlTail[p] \in Nat
  BY <1>1 DEF CountInv, CountTyped
<1>8. /\ nvlHead[p] <= nvlHead[p] /\ g.head = nvlHead[p]
      /\ nvlHead[p] <= g.tail /\ g.tail <= nvlTail[p]
  <2>1. nvlHead[p] <= rcv[p].tail /\ rcv[p].tail <= nvlTail[p] /\ rcv[p].tail \in Nat /\ nvlHead[p] = rcv[p].head
    BY <1>2 DEF CountInv, ForwarderInTurn, Receiver
  <2> QED BY <1>2, <1>5, <1>7, <2>1 DEF AfterTail
<1>9. CountInv'
  BY <1>1, <1>6, <1>7, <1>8, ReceiverCount
<1> QED BY <1>2, <1>5, <1>6, <1>9

(* A batch: what the receiver has seen of its queue and not yet copied. *)
Batch(p) == rcv[p].head .. rcv[p].tail - 1
QueueRow(p, x) == nvlRing[p][NvlSlot(x)]
FromThat(p, from, s) == {x \in Batch(p) : from[x] = s}

(* What a receiver does when it takes row i of its batch for one of from[i]. *)
TakeBatch(p, from) ==
  LET r == rcv[p] IN
  /\ r.head # r.tail
  /\ out' = [out EXCEPT ![p] = @ \cup
       {<<r.offset[from[i]] + Cardinality({x \in Batch(p) : x < i /\ from[x] = from[i]}),
          QueueRow(p, i)>> : i \in Batch(p)}]
  /\ rcv' = [rcv EXCEPT ![p].head = r.tail, ![p].left = @ - Cardinality(Batch(p)),
               ![p].offset = [s \in Source |-> @[s] + Cardinality(FromThat(p, from, s))]]
  /\ nvlHead' = [nvlHead EXCEPT ![p] = r.tail]
  /\ UNCHANGED <<run, sender, wire, head, ring, tail, meta, forwarder, bounds, nvlRing,
                 nvlTail, rdmaHeads, nvlHeads>>

(* It takes it for what the row says; only an empty slot may say anything. *)
LEMMA ReceiveTakesBatch ==
  ASSUME NEW p, Receive(p)
  PROVE  \E from \in [Batch(p) -> Source] :
           /\ \A i \in Batch(p) : QueueRow(p, i) # None => from[i] = QueueRow(p, i)[1]
           /\ TakeBatch(p, from)
BY DEF Receive, TakeBatch, Batch, QueueRow, FromThat

(* Taking a batch moves the head to the tail that was seen. *)
LEMMA ReceiveCount ==
  ASSUME WireInv, CountInv, NEW p \in Peer, NEW from, TakeBatch(p, from)
  PROVE  /\ CountInv'
         /\ rcv[p].head < rcv[p].tail /\ rcv[p].head = nvlHead[p]
         /\ rcv[p].head \in Nat /\ rcv[p].tail \in Nat
         /\ nvlHead' = [nvlHead EXCEPT ![p] = rcv[p].tail]
         /\ \A s : IsFiniteSet(FromThat(p, from, s))
         /\ \E g \in Receiver :
              /\ rcv' = [rcv EXCEPT ![p] = g]
              /\ AfterBatch(rcv[p], rcv[p].left - (rcv[p].tail - rcv[p].head),
                            [s \in Source |-> rcv[p].offset[s] + Cardinality(FromThat(p, from, s))], g)
<1>1. /\ rcv[p].head # rcv[p].tail
      /\ rcv' = [rcv EXCEPT ![p].head = rcv[p].tail, ![p].left = @ - Cardinality(Batch(p)),
                   ![p].offset = [s \in Source |-> @[s] + Cardinality(FromThat(p, from, s))]]
      /\ nvlHead' = [nvlHead EXCEPT ![p] = rcv[p].tail]
      /\ UNCHANGED <<run, head, tail, meta, forwarder, bounds, nvlTail>>
  BY DEF TakeBatch
<1>2. PICK r \in Receiver : r = rcv[p]
  BY DEF CountInv, CountTyped
<1>3. r.head \in Nat /\ r.tail \in Nat /\ r.left \in Int /\ r.offset \in [Source -> Int]
  BY DEF Receiver
<1>4. r.head < r.tail /\ r.head = nvlHead[p] /\ r.tail <= nvlTail[p]
  BY <1>1, <1>2, <1>3 DEF CountInv, ForwarderInTurn
<1>5. IsFiniteSet(Batch(p)) /\ Cardinality(Batch(p)) = r.tail - r.head
  <2>1. /\ r.head \in Int /\ r.tail - 1 \in Int /\ ~(r.head > r.tail - 1)
        /\ (r.tail - 1) - r.head + 1 = r.tail - r.head /\ Batch(p) = r.head .. r.tail - 1
    BY <1>2, <1>3, <1>4 DEF Batch
  <2> QED BY <2>1, FS_Interval
<1>6. \A s : IsFiniteSet(FromThat(p, from, s)) /\ Cardinality(FromThat(p, from, s)) \in Nat
  <2> SUFFICES ASSUME NEW s PROVE IsFiniteSet(FromThat(p, from, s)) /\ Cardinality(FromThat(p, from, s)) \in Nat
    OBVIOUS
  <2>1. FromThat(p, from, s) \in SUBSET Batch(p)
    BY DEF FromThat
  <2>2. IsFiniteSet(FromThat(p, from, s))
    BY <1>5, <2>1, FS_Subset
  <2> QED BY <2>2, FS_CardinalityType
<1>7. PICK l \in Int, o \in [Source -> Int] :
        /\ l = r.left - (r.tail - r.head)
        /\ o = [s \in Source |-> r.offset[s] + Cardinality(FromThat(p, from, s))]
  <2>1. r.left - (r.tail - r.head) \in Int
    BY <1>3
  <2>2. [s \in Source |-> r.offset[s] + Cardinality(FromThat(p, from, s))] \in [Source -> Int]
    BY <1>3, <1>6
  <2> QED BY <2>1, <2>2
<1>8. rcv \in [Peer -> Receiver]
  BY DEF CountInv, CountTyped
<1>9. rcv' = [rcv EXCEPT ![p].head = r.tail, ![p].left = l, ![p].offset = o]
  BY <1>1, <1>2, <1>5, <1>7
<1>10. rcv' = [rcv EXCEPT ![p] = [r EXCEPT !.head = r.tail, !.left = l, !.offset = o]]
  BY <1>2, <1>8, <1>9
<1>11. PICK g \in Receiver : /\ g = [r EXCEPT !.head = r.tail, !.left = l, !.offset = o]
                             /\ AfterBatch(r, l, o, g)
  BY ReceiverUpdate
<1>12. rcv' = [rcv EXCEPT ![p] = g]
  BY <1>10, <1>11
<1>13. CountInv'
  <2>1. nvlHead[p] <= r.tail /\ g.head = r.tail /\ r.tail <= g.tail /\ g.tail <= nvlTail[p]
    BY <1>3, <1>4, <1>11 DEF AfterBatch
  <2> QED BY <1>1, <1>2, <1>3, <1>12, <2>1, ReceiverCount
<1> QED BY <1>1, <1>2, <1>3, <1>4, <1>6, <1>7, <1>11, <1>12, <1>13

(* Every step keeps the counters in order, if the network does. *)
LEMMA NextCount ==
  ASSUME Ordered, IInv, WireInv, CountInv, [Next]_vars
  PROVE  CountInv'
<1>0. run \in Runs /\ \A s \in Source : Total(s) \in Nat
  BY TotalType DEF IInv, WindowTyped
<1>1. ASSUME NEW s \in Source, NEW w \in Warp,
             SkipToken(s, w) \/ CopyToken(s, w) \/ ReleaseToken(s, w)
      PROVE  CountInv'
  BY <1>1, CountOthers DEF SkipToken, CopyToken, ReleaseToken, nvlink
<1>2. ASSUME NEW s \in Source, SendMeta(s) PROVE CountInv'
  <2>1. /\ UNCHANGED <<run, head, forwarder, nvlTail, nvlHead, bounds, rcv, tail>>
        /\ meta' = meta \/ meta' = [meta EXCEPT ![s] = Words(s)]
    BY <1>2 DEF SendMeta, nvlink
  <2> QED BY <1>0, <2>1, CountNetwork
<1>3. ASSUME NEW s \in Source, Issue(s) PROVE CountInv'
  <2>1. UNCHANGED <<run, head, forwarder, nvlTail, nvlHead, bounds, rcv, meta>>
    BY <1>3 DEF Issue, nvlink
  <2>2. tail' = tail \/ \E n \in Nat : tail' = [tail EXCEPT ![s] = @ + n]
    BY <1>0, <1>3, IssueWire DEF IInv
  <2> QED BY <1>0, <2>1, <2>2, CountNetwork
<1>4. ASSUME NEW s \in Source, NEW k \in 1 .. Len(wire[s]), Deliver(s, k) PROVE CountInv'
  <2>1. UNCHANGED <<run, head, forwarder, nvlTail, nvlHead, bounds, rcv>>
    BY <1>4 DEF Deliver, nvlink
  <2>2. /\ tail' = IF wire[s][1].kind = "add" THEN [tail EXCEPT ![s] = @ + wire[s][1].num] ELSE tail
        /\ meta' = IF wire[s][1].kind = "meta" THEN [meta EXCEPT ![s] = Words(s)] ELSE meta
        /\ wire[s] # <<>>
    BY <1>4, DeliverWire
  <2>3. wire[s][1] \in Message
    BY <2>2 DEF WireInv, WireTyped
  <2>4. wire[s][1].kind = "add" => wire[s][1].num \in Nat
    BY <2>3, MessageType
  <2>5. tail' = tail \/ \E n \in Nat : tail' = [tail EXCEPT ![s] = @ + n]
    BY <2>2, <2>4
  <2>6. meta' = meta \/ meta' = [meta EXCEPT ![s] = Words(s)]
    BY <2>2
  <2> QED BY <1>0, <2>1, <2>5, <2>6, CountNetwork
<1>5. ASSUME NEW s \in Source, Credit(s) PROVE CountInv'
  BY <1>5, CreditCount
<1>6. ASSUME NEW p \in Peer, PeerStep(p) PROVE CountInv'
  BY <1>6, ReadMetaCount, ChooseCount, ReadBoundsCount, ForwardCount, RetireCount, SeeTailCount,
     ReceiveTakesBatch, ReceiveCount DEF PeerStep
<1>7. CASE UNCHANGED vars
  BY <1>7, CountOthers DEF vars, nvlink
<1> QED BY <1>1, <1>2, <1>3, <1>4, <1>5, <1>6, <1>7 DEF Next, SenderStep

-----------------------------------------------------------------------------
(* The rows: they are in their slots when they are read, send_nvl_head     *)
(* records where each went, and every peer has each row once, at the place *)
(* that the prefix sums give it.                                           *)

(* A row of the stream is written when its warp has copied it. *)
Written(s, t) == Released(s, t) \/ \E w \in Warp : at[s][w] = t /\ copied[s][w]

(* The warps copy into the send side, or on the node itself into the ring. *)
Buffer(s) == IF s = Node THEN ring[s] ELSE staged[s]

RowsTyped ==
  /\ ring \in [Source -> [0 .. RdmaRecv - 1 -> Rows]]
  /\ staged \in [Source -> [0 .. RdmaRecv - 1 -> Rows]]

(* A written row is within the slots that the source has, and until its    *)
(* slot is given back it is there.                                         *)
WrittenInPlace(s) ==
  \A t \in Chosen(s) : Written(s, t) =>
    /\ Index(s, t) < head[s] + RdmaRecv
    /\ head[s] <= Index(s, t) => Buffer(s)[RdmaSlot(Index(s, t))] = Row(s, t)

(* How far the rows have arrived: past the tail, by the put whose add is   *)
(* the next message.                                                       *)
Frontier(s) == IF wire[s] # <<>> /\ wire[s][1].kind = "add"
               THEN tail[s] + wire[s][1].num ELSE tail[s]

ArrivedInPlace(s) ==
  s # Node =>
    \A i \in lastHead[s] .. Frontier(s) - 1 : ring[s][RdmaSlot(i)] = Row(s, TokenAt(s, i))

(* The rows are where the counters say they are. *)
RingInv ==
  /\ RowsTyped
  /\ \A s \in Source : WrittenInPlace(s) /\ ArrivedInPlace(s)
-----------------------------------------------------------------------------
(* The stream of a source, numbered by Index. *)
LEMMA StreamNumbered ==
  ASSUME run \in Runs, NEW s \in Source
  PROVE  /\ \A t \in Chosen(s) : Index(s, t) \in 0 .. Total(s) - 1 /\ TokenAt(s, Index(s, t)) = t
         /\ \A i \in 0 .. Total(s) - 1 : TokenAt(s, i) \in Chosen(s) /\ Index(s, TokenAt(s, i)) = i
         /\ \A t \in Chosen(s), u \in Chosen(s) : t < u <=> Index(s, t) < Index(s, u)
<1>1. IsFiniteSet(Chosen(s)) /\ Chosen(s) \in SUBSET Nat /\ Total(s) \in Nat
  BY TotalType
<1>2. Total(s) = Cardinality(Chosen(s)) /\ \A t : Index(s, t) = Below(Chosen(s), t)
  BY DEF Total, Index, Below
<1>3. \A t \in Chosen(s) : Index(s, t) \in 0 .. Total(s) - 1
  <2> SUFFICES ASSUME NEW t \in Chosen(s) PROVE Index(s, t) \in 0 .. Total(s) - 1
    OBVIOUS
  <2>1. Below(Chosen(s), t) \in 0 .. Cardinality(Chosen(s)) /\ Below(Chosen(s), t) < Cardinality(Chosen(s))
    BY <1>1, BelowType, BelowOrders
  <2> QED BY <1>1, <1>2, <2>1
<1>4. \A i \in 0 .. Total(s) - 1 : TokenAt(s, i) \in Chosen(s) /\ Index(s, TokenAt(s, i)) = i
  <2> SUFFICES ASSUME NEW i \in 0 .. Total(s) - 1
               PROVE  TokenAt(s, i) \in Chosen(s) /\ Index(s, TokenAt(s, i)) = i
    OBVIOUS
  <2>1. \E t \in Chosen(s) : Index(s, t) = i
    BY <1>1, <1>2, BelowOnto
  <2> QED BY <2>1 DEF TokenAt
<1>5. \A t \in Chosen(s) : TokenAt(s, Index(s, t)) = t
  BY <1>3, <1>4, IndexInjective
<1>6. \A t \in Chosen(s), u \in Chosen(s) : t < u <=> Index(s, t) < Index(s, u)
  BY <1>1, <1>2, BelowOrders
<1> QED BY <1>3, <1>4, <1>5, <1>6

(* Of a run, as what a token is for. *)
StreamAt(f, i) ==
  CHOOSE t \in {x \in DOMAIN f : f[x] # {}} :
    Cardinality({u \in {x \in DOMAIN f : f[x] # {}} : u < t}) = i

(* The rows and their numbers stay while a run lasts. *)
LEMMA RowsKept ==
  ASSUME run' = run
  PROVE  /\ \A s, t : Index(s, t)' = Index(s, t)
         /\ \A s, i : TokenAt(s, i)' = TokenAt(s, i)
         /\ Rows' = Rows
<1>1. ASSUME NEW s, NEW t PROVE Index(s, t)' = Index(s, t)
  BY DEF Index, Chosen, Tokens
<1>2. ASSUME NEW s, NEW i PROVE TokenAt(s, i)' = TokenAt(s, i)
  <2>1. TokenAt(s, i) = StreamAt(run.to[s], i)
    BY DEF TokenAt, Index, Chosen, Tokens, StreamAt
  <2>2. TokenAt(s, i)' = StreamAt(run'.to[s], i)
    BY DEF TokenAt, Index, Chosen, Tokens, StreamAt
  <2> QED BY <2>1, <2>2
<1>3. Rows' = Rows
  BY DEF Rows, Tokens
<1> QED BY <1>1, <1>2, <1>3

(* A row under the tail has been released; a token that its warp is still  *)
(* at is not.                                                              *)
LEMMA UnderTail ==
  ASSUME IInv, NEW s \in Source
  PROVE  /\ \A i \in 0 .. sendTail[s] - 1 : i \in 0 .. Total(s) - 1 /\ Written(s, TokenAt(s, i))
         /\ \A w \in Warp : at[s][w] \in Chosen(s) /\ ~copied[s][w] =>
              sendTail[s] <= Index(s, at[s][w]) /\ ~Written(s, at[s][w])
<1>1. run \in Runs /\ Total(s) \in Nat /\ sendTail[s] \in Nat /\ sendTail[s] <= Total(s)
  BY TotalType, SendTailBound DEF IInv, WindowTyped
<1>2. \A i \in 0 .. sendTail[s] - 1 :
        \E t \in Chosen(s) : Released(s, t) /\ Index(s, t) = i
  BY DEF IInv, WindowSound
<1>3. \A i \in 0 .. sendTail[s] - 1 : i \in 0 .. Total(s) - 1 /\ Released(s, TokenAt(s, i))
  <2> SUFFICES ASSUME NEW i \in 0 .. sendTail[s] - 1
               PROVE  i \in 0 .. Total(s) - 1 /\ Released(s, TokenAt(s, i))
    OBVIOUS
  <2>1. PICK t \in Chosen(s) : Released(s, t) /\ Index(s, t) = i
    BY <1>2
  <2>2. TokenAt(s, i) = t
    BY <1>1, <2>1, StreamNumbered
  <2> QED BY <1>1, <2>1, <2>2
<1>4. ASSUME NEW w \in Warp, at[s][w] \in Chosen(s), ~copied[s][w]
      PROVE  sendTail[s] <= Index(s, at[s][w]) /\ ~Written(s, at[s][w])
  <2> DEFINE t == at[s][w]
  <2>1. \A v \in Warp : at[s][v] % NumWarps = v /\ at[s][v] \in Nat
    BY DEF IInv, WarpsInTurn
  <2>2. ~Released(s, t)
    BY <2>1 DEF Released
  <2>3. ~Written(s, t)
    BY <1>4, <2>1, <2>2 DEF Written
  <2>4. Index(s, t) \in Nat /\ TokenAt(s, Index(s, t)) = t
    BY <1>1, <1>4, StreamNumbered
  <2>5. ~(Index(s, t) < sendTail[s])
    BY <1>1, <1>3, <2>2, <2>4
  <2> QED BY <1>1, <2>3, <2>4, <2>5
<1> QED BY <1>3, <1>4 DEF Written

(* The forwarders read the row they mean to. *)
LEMMA RingRead ==
  ASSUME IInv, WireInv, CountInv, RingInv, NEW s \in Source, NEW i \in lastHead[s] .. tail[s] - 1
  PROVE  /\ i \in 0 .. Total(s) - 1
         /\ ring[s][RdmaSlot(i)] = Row(s, TokenAt(s, i))
<1>1. /\ run \in Runs /\ lastHead[s] \in Nat /\ tail[s] \in Nat /\ issued[s] \in Nat /\ sendTail[s] \in Nat
      /\ tail[s] <= issued[s] /\ issued[s] <= sendTail[s] /\ head[s] = lastHead[s]
  BY DEF IInv, WindowTyped, WireInv, WireTyped, WireInOrder, Chain, CountInv, CountTyped, SourceInOrder
<1>2. i \in 0 .. sendTail[s] - 1 /\ head[s] <= i
  BY <1>1
<1>3. i \in 0 .. Total(s) - 1 /\ Written(s, TokenAt(s, i))
  BY <1>2, UnderTail
<1>4. CASE s = Node
  <2>1. TokenAt(s, i) \in Chosen(s) /\ Index(s, TokenAt(s, i)) = i
    BY <1>1, <1>3, StreamNumbered
  <2>2. Buffer(s)[RdmaSlot(i)] = Row(s, TokenAt(s, i))
    BY <1>2, <1>3, <2>1 DEF RingInv, WrittenInPlace
  <2> QED BY <1>3, <1>4, <2>2 DEF Buffer
<1>5. CASE s # Node
  <2>1. tail[s] <= Frontier(s) /\ Frontier(s) \in Nat
    <3>1. CASE wire[s] # <<>> /\ wire[s][1].kind = "add"
      <4>1. wire[s][1] \in Message
        BY <3>1 DEF WireInv, WireTyped
      <4>2. wire[s][1].num \in Nat
        BY <3>1, <4>1, MessageType
      <4> QED BY <1>1, <3>1, <4>2 DEF Frontier
    <3>2. CASE ~(wire[s] # <<>> /\ wire[s][1].kind = "add")
      BY <1>1, <3>2 DEF Frontier
    <3> QED BY <3>1, <3>2
  <2>2. i \in lastHead[s] .. Frontier(s) - 1
    BY <1>1, <2>1
  <2> QED BY <1>3, <1>5, <2>2 DEF RingInv, ArrivedInPlace
<1> QED BY <1>4, <1>5
-----------------------------------------------------------------------------
(* No row is written at the start. *)
LEMMA InitRing == Init => RingInv
<1> SUFFICES ASSUME Init PROVE RingInv
  OBVIOUS
<1>1. RowsTyped
  BY DEF Init, RowsTyped, Rows
<1>2. ASSUME NEW s \in Source PROVE WrittenInPlace(s)
  <2>1. \A w \in Warp : at[s][w] = w /\ ~copied[s][w]
    BY <1>2 DEF Init
  <2>2. \A t \in Chosen(s) : ~Written(s, t)
    <3> SUFFICES ASSUME NEW t \in Chosen(s), Written(s, t) PROVE FALSE
      OBVIOUS
    <3>1. PICK w \in Warp : t % NumWarps = w /\ t < w
      BY <2>1 DEF Written, Released
    <3>2. t \in Nat /\ NumWarps \in Nat \ {0} /\ w \in 0 .. NumWarps - 1
      BY TotalType, SizesAssumption DEF Init, Warp
    <3>3. t % NumWarps = t
      BY <3>1, <3>2
    <3> QED BY <3>1, <3>2, <3>3
  <2> QED BY <2>2 DEF WrittenInPlace
<1>3. ASSUME NEW s \in Source PROVE ArrivedInPlace(s)
  BY <1>3 DEF Init, ArrivedInPlace, Frontier
<1> QED BY <1>1, <1>2, <1>3 DEF RingInv

(* The written rows of a source whose buffer, warps and head stay. *)
LEMMA WrittenKept ==
  ASSUME NEW s \in Source, WrittenInPlace(s), run' = run, run \in Runs,
         \A t \in Chosen(s) : Written(s, t)' => Written(s, t),
         head[s] \in Nat, head'[s] \in Nat, head[s] <= head'[s],
         Buffer(s)' = Buffer(s)
  PROVE  WrittenInPlace(s)'
<1> SUFFICES ASSUME NEW t \in Chosen(s), Written(s, t)
             PROVE  /\ Index(s, t) < head'[s] + RdmaRecv
                    /\ head'[s] <= Index(s, t) => Buffer(s)'[RdmaSlot(Index(s, t))] = Row(s, t)
  BY RunKept, RowsKept DEF WrittenInPlace, RdmaSlot, Row
<1>1. /\ Index(s, t) < head[s] + RdmaRecv /\ Index(s, t) \in Nat /\ RdmaRecv \in Nat
      /\ head[s] <= Index(s, t) => Buffer(s)[RdmaSlot(Index(s, t))] = Row(s, t)
  BY StreamNumbered, SizesAssumption DEF WrittenInPlace
<1> QED BY <1>1

(* The arrived rows of a source whose ring, tail and wire stay. *)
LEMMA ArrivedKept ==
  ASSUME NEW s \in Source, ArrivedInPlace(s), run' = run,
         lastHead[s] \in Nat, lastHead'[s] \in Nat, lastHead[s] <= lastHead'[s],
         s # Node => Frontier(s)' = Frontier(s) /\ Frontier(s) \in Nat /\ ring'[s] = ring[s]
  PROVE  ArrivedInPlace(s)'
<1> SUFFICES ASSUME s # Node, NEW i \in lastHead'[s] .. Frontier(s) - 1
             PROVE  ring'[s][RdmaSlot(i)] = Row(s, TokenAt(s, i))
  BY RowsKept DEF ArrivedInPlace, RdmaSlot, Row
<1>1. i \in lastHead[s] .. Frontier(s) - 1
  OBVIOUS
<1> QED BY <1>1 DEF ArrivedInPlace

(* The frontier is a number, under the sender's tail. *)
LEMMA FrontierType ==
  ASSUME WireInv, IInv, NEW s \in Source
  PROVE  Frontier(s) \in Nat /\ tail[s] <= Frontier(s) /\ Frontier(s) <= sendTail[s]
<1>1. /\ tail[s] \in Nat /\ issued[s] \in Nat /\ sendTail[s] \in Nat
      /\ Chain(wire[s], tail[s], issued[s]) /\ tail[s] <= issued[s] /\ issued[s] <= sendTail[s]
  BY DEF IInv, WindowTyped, WireInv, WireTyped, WireInOrder, Chain
<1>2. CASE wire[s] # <<>> /\ wire[s][1].kind = "add"
  <2>1. wire[s][1] \in Message /\ 1 \in 1 .. Len(wire[s])
    BY <1>2 DEF WireInv, WireTyped
  <2>2. wire[s][1].num \in Nat
    BY <1>2, <2>1, MessageType
  <2>3. IsAdd(wire[s], tail[s], issued[s], 1)
    BY <1>1, <1>2, <2>1 DEF Chain, IsLink, IsMeta, IsPut
  <2>4. tail[s] + wire[s][1].num <= issued[s]
    BY <2>3 DEF IsAdd
  <2> QED BY <1>1, <1>2, <2>2, <2>4 DEF Frontier
<1>3. CASE ~(wire[s] # <<>> /\ wire[s][1].kind = "add")
  BY <1>1, <1>3 DEF Frontier
<1> QED BY <1>2, <1>3

(* A step that touches no row of the rings and copies none. *)
LEMMA RingOthers ==
  ASSUME IInv, WireInv, CountInv, RingInv,
         UNCHANGED <<run, at, copied, ring, staged, head, lastHead>>,
         \A s \in Source : s # Node => Frontier(s)' = Frontier(s)
  PROVE  RingInv'
<1>1. RowsTyped'
  BY RowsKept DEF RingInv, RowsTyped
<1>2. run \in Runs /\ \A s \in Source : head[s] \in Nat /\ lastHead[s] \in Nat
  BY DEF IInv, WindowTyped, CountInv, CountTyped
<1>3. ASSUME NEW s \in Source PROVE WrittenInPlace(s)'
  <2>1. \A t \in Chosen(s) : Written(s, t)' => Written(s, t)
    BY DEF Written, Released
  <2>2. head[s] <= head'[s] /\ head'[s] \in Nat /\ head[s] \in Nat
    BY <1>2
  <2>3. Buffer(s)' = Buffer(s) /\ WrittenInPlace(s)
    BY DEF Buffer, RingInv
  <2> QED BY <1>2, <2>1, <2>2, <2>3, WrittenKept
<1>4. ASSUME NEW s \in Source PROVE ArrivedInPlace(s)'
  <2>1. lastHead[s] \in Nat /\ lastHead'[s] \in Nat /\ lastHead[s] <= lastHead'[s]
    BY <1>2
  <2> QED BY <2>1, FrontierType, ArrivedKept DEF RingInv
<1> QED BY <1>1, <1>3, <1>4 DEF RingInv

(* A step that leaves the wire and the tails as they are. *)
LEMMA FrontierKept ==
  ASSUME NEW s \in Source, wire'[s] = wire[s], tail'[s] = tail[s]
  PROVE  Frontier(s)' = Frontier(s)
BY DEF Frontier
-----------------------------------------------------------------------------
(* A warp goes on to its next token: nothing is written that was not.      *)
LEMMA AdvanceRing ==
  ASSUME IInv, WireInv, CountInv, RingInv, NEW s \in Source, NEW w \in Warp,
         at[s][w] \in Chosen(s) => copied[s][w],
         at' = [at EXCEPT ![s][w] = @ + NumWarps],
         \A r \in Source, v \in Warp : copied'[r][v] => copied[r][v] /\ ~(r = s /\ v = w),
         UNCHANGED <<run, ring, staged, head, lastHead, wire, tail>>
  PROVE  RingInv'
<1> USE SizesAssumption
<1>1. RowsTyped'
  BY RowsKept DEF RingInv, RowsTyped
<1>2. run \in Runs /\ \A r \in Source : head[r] \in Nat /\ lastHead[r] \in Nat
  BY DEF IInv, WindowTyped, CountInv, CountTyped
<1>3. at \in [Source -> [Warp -> Nat]] /\ at[s][w] % NumWarps = w
  BY DEF IInv, WarpsInTurn
<1>4. \A r \in Source, v \in Warp :
        at'[r][v] = IF r = s /\ v = w THEN at[s][w] + NumWarps ELSE at[r][v]
  BY <1>3
<1>5. ASSUME NEW r \in Source, NEW t \in Chosen(r), Written(r, t)' PROVE Written(r, t)
  <2>0. t \in Nat
    BY <1>2, TotalType
  <2>1. ASSUME NEW v \in Warp, t % NumWarps = v, t < at'[r][v] PROVE Written(r, t)
    <3>1. CASE r = s /\ v = w
      <4>1. t < at[s][w] + NumWarps /\ at[s][w] \in Nat
        BY <1>3, <1>4, <2>1, <3>1
      <4>2. CASE t < at[s][w]
        BY <2>1, <3>1, <4>2 DEF Written, Released
      <4>3. CASE at[s][w] <= t
        <5>1. t = at[s][w]
          BY <1>3, <2>0, <2>1, <3>1, <4>1, <4>3, SameResidue
        <5> QED BY <3>1, <5>1 DEF Written
      <4> QED BY <2>0, <4>1, <4>2, <4>3
    <3>2. CASE ~(r = s /\ v = w)
      BY <1>4, <2>1, <3>2 DEF Written, Released
    <3> QED BY <3>1, <3>2
  <2>2. ASSUME NEW v \in Warp, at'[r][v] = t, copied'[r][v] PROVE Written(r, t)
    BY <1>4, <2>2 DEF Written
  <2> QED BY <1>5, <2>1, <2>2 DEF Written, Released
<1>6. ASSUME NEW r \in Source PROVE WrittenInPlace(r)'
  <2>1. head[r] <= head'[r] /\ head'[r] \in Nat /\ head[r] \in Nat
    BY <1>2
  <2>2. Buffer(r)' = Buffer(r) /\ WrittenInPlace(r)
    BY DEF Buffer, RingInv
  <2> QED BY <1>2, <1>5, <2>1, <2>2, WrittenKept
<1>7. ASSUME NEW r \in Source PROVE ArrivedInPlace(r)'
  <2>1. lastHead[r] \in Nat /\ lastHead'[r] \in Nat /\ lastHead[r] <= lastHead'[r]
    BY <1>2
  <2> QED BY <2>1, FrontierType, FrontierKept, ArrivedKept DEF RingInv
<1> QED BY <1>1, <1>6, <1>7 DEF RingInv

(* Reporting a row moves no row. *)
LEMMA ReleaseRing ==
  ASSUME IInv, WireInv, CountInv, RingInv, NEW s \in Source, NEW w \in Warp,
         SkipToken(s, w) \/ ReleaseToken(s, w)
  PROVE  RingInv'
<1>1. CASE SkipToken(s, w)
  <2>1. \A r \in Source, v \in Warp : copied'[r][v] => copied[r][v] /\ ~(r = s /\ v = w)
    BY <1>1 DEF SkipToken, IInv, WarpsInTurn
  <2> QED BY <1>1, <2>1, AdvanceRing DEF SkipToken, forwarder
<1>2. CASE ReleaseToken(s, w)
  <2>1. \A r \in Source, v \in Warp : copied'[r][v] => copied[r][v] /\ ~(r = s /\ v = w)
    BY <1>2 DEF ReleaseToken, IInv, WarpsInTurn
  <2>2. /\ copied[s][w] /\ at' = [at EXCEPT ![s][w] = @ + NumWarps]
        /\ UNCHANGED <<run, ring, staged, head, lastHead, wire, tail>>
    BY <1>2 DEF ReleaseToken, forwarder
  <2> QED BY <2>1, <2>2, AdvanceRing
<1> QED BY <1>1, <1>2

(* Writing one slot keeps the rings in their type. *)
LEMMA SlotWritten ==
  ASSUME NEW D, NEW S, NEW f \in [Source -> [D -> S]], NEW s \in Source, NEW x \in D, NEW r \in S
  PROVE  [f EXCEPT ![s][x] = r] \in [Source -> [D -> S]]
OBVIOUS

(* A row is copied into a slot that holds no other row still wanted: it is *)
(* not yet written, and every written row not given back is within         *)
(* RdmaRecv of the head, in a slot of its own.                             *)
LEMMA CopyRing ==
  ASSUME IInv, WireInv, CountInv, RingInv, NEW s \in Source, NEW w \in Warp, CopyToken(s, w)
  PROVE  RingInv'
<1> USE SizesAssumption
<1> DEFINE t == at[s][w]
           i == Index(s, t)
           x == RdmaSlot(i)
<1>1. /\ t \in Chosen(s) /\ ~copied[s][w] /\ i - head[s] < RdmaRecv
      /\ IF s = Node
         THEN ring' = [ring EXCEPT ![s][x] = Row(s, t)] /\ staged' = staged
         ELSE staged' = [staged EXCEPT ![s][x] = Row(s, t)] /\ ring' = ring
      /\ copied' = [copied EXCEPT ![s][w] = TRUE]
      /\ UNCHANGED <<run, at, wire, head, tail, lastHead>>
  BY DEF CopyToken, forwarder
<1>2. /\ run \in Runs /\ \A r \in Source : head[r] \in Nat /\ lastHead[r] \in Nat
      /\ head[s] = lastHead[s] /\ tail[s] \in Nat /\ sendTail[s] \in Nat
      /\ lastHead[s] <= tail[s] /\ tail[s] <= Frontier(s) /\ Frontier(s) <= sendTail[s]
      /\ Frontier(s) \in Nat
  BY FrontierType DEF IInv, WindowTyped, WireInv, WireTyped, CountInv, CountTyped, SourceInOrder
<1>3. i \in Nat /\ x \in 0 .. RdmaRecv - 1
  <2>1. i \in Nat
    BY <1>1, <1>2, StreamNumbered
  <2> QED BY <2>1 DEF RdmaSlot
<1>4. sendTail[s] <= i /\ ~Written(s, t) /\ head[s] <= i /\ i < head[s] + RdmaRecv
  <2>1. sendTail[s] <= i /\ ~Written(s, t)
    BY <1>1, UnderTail
  <2> HIDE DEF i
  <2> QED BY <1>1, <1>2, <1>3, <2>1
<1>5. Row(s, t) \in Rows
  <2>1. t \in Tokens(s)
    BY <1>1, <1>2, TotalType
  <2> QED BY <2>1 DEF Rows
<1> HIDE DEF i, x
<1>6. RowsTyped'
  <2>0. ring \in [Source -> [0 .. RdmaRecv - 1 -> Rows]] /\ staged \in [Source -> [0 .. RdmaRecv - 1 -> Rows]]
    BY DEF RingInv, RowsTyped
  <2>1. ring' \in [Source -> [0 .. RdmaRecv - 1 -> Rows]]
    <3>1. [ring EXCEPT ![s][x] = Row(s, t)] \in [Source -> [0 .. RdmaRecv - 1 -> Rows]]
      BY <1>3, <1>5, <2>0, SlotWritten
    <3>2. ring' = ring \/ ring' = [ring EXCEPT ![s][x] = Row(s, t)]
      BY <1>1
    <3> QED BY <2>0, <3>1, <3>2
  <2>2. staged' \in [Source -> [0 .. RdmaRecv - 1 -> Rows]]
    <3>1. [staged EXCEPT ![s][x] = Row(s, t)] \in [Source -> [0 .. RdmaRecv - 1 -> Rows]]
      BY <1>3, <1>5, <2>0, SlotWritten
    <3>2. staged' = staged \/ staged' = [staged EXCEPT ![s][x] = Row(s, t)]
      BY <1>1
    <3> QED BY <2>0, <3>1, <3>2
  <2>3. Rows' = Rows
    BY <1>1, RowsKept
  <2> QED BY <2>1, <2>2, <2>3 DEF RowsTyped
<1>7. \A r \in Source : \A u : Written(r, u)' => Written(r, u) \/ (r = s /\ u = t)
  <2>1. \A r \in Source, v \in Warp : copied'[r][v] => copied[r][v] \/ (r = s /\ v = w)
    BY <1>1 DEF IInv, WarpsInTurn
  <2> QED BY <1>1, <2>1 DEF Written, Released
<1>8. /\ \A r \in Source : r # s => Buffer(r)' = Buffer(r)
      /\ \A y \in 0 .. RdmaRecv - 1 : y # x => Buffer(s)'[y] = Buffer(s)[y]
      /\ Buffer(s)'[x] = Row(s, t)
  BY <1>1, <1>3 DEF RingInv, RowsTyped, Buffer
<1>9. ASSUME NEW r \in Source, r # s PROVE WrittenInPlace(r)'
  <2>1. head[r] <= head'[r] /\ head'[r] \in Nat /\ head[r] \in Nat
    BY <1>1, <1>2
  <2>2. \A u \in Chosen(r) : Written(r, u)' => Written(r, u)
    BY <1>7, <1>9
  <2> QED BY <1>1, <1>2, <1>8, <1>9, <2>1, <2>2, WrittenKept DEF RingInv
<1>10. WrittenInPlace(s)'
  <2> SUFFICES ASSUME NEW u \in Chosen(s), Written(s, u)'
               PROVE  /\ Index(s, u) < head[s] + RdmaRecv
                      /\ head[s] <= Index(s, u) => Buffer(s)'[RdmaSlot(Index(s, u))] = Row(s, u)
    BY <1>1, RunKept, RowsKept DEF WrittenInPlace, RdmaSlot, Row
  <2>1. CASE u = t
    BY <1>3, <1>4, <1>8, <2>1 DEF i, x
  <2>2. CASE u # t
    <3>1. Written(s, u)
      BY <1>7, <2>2
    <3>2. /\ Index(s, u) < head[s] + RdmaRecv /\ Index(s, u) \in Nat
          /\ head[s] <= Index(s, u) => Buffer(s)[RdmaSlot(Index(s, u))] = Row(s, u)
      BY <1>2, <3>1, StreamNumbered DEF RingInv, WrittenInPlace
    <3>3. Index(s, u) # i
      BY <1>1, <1>2, <2>2, IndexInjective DEF i
    <3>4. head[s] <= Index(s, u) => RdmaSlot(Index(s, u)) # x
      BY <1>2, <1>3, <1>4, <3>2, <3>3, RingSlotsApart DEF RdmaSlot, x
    <3>5. RdmaSlot(Index(s, u)) \in 0 .. RdmaRecv - 1
      BY <3>2, RingSlotType DEF RdmaSlot
    <3> QED BY <1>8, <3>2, <3>4, <3>5
  <2> QED BY <2>1, <2>2
<1>11. ASSUME NEW r \in Source PROVE ArrivedInPlace(r)'
  <2>1. lastHead[r] \in Nat /\ lastHead'[r] \in Nat /\ lastHead[r] <= lastHead'[r]
    BY <1>1, <1>2
  <2>2. r # Node => ring'[r] = ring[r]
    BY <1>1 DEF RingInv, RowsTyped
  <2> QED BY <1>1, <2>1, <2>2, FrontierType, FrontierKept, ArrivedKept DEF RingInv
<1> QED BY <1>6, <1>9, <1>10, <1>11 DEF RingInv

(* Slots given back hold rows that every forwarder has passed. *)
LEMMA CreditRing ==
  ASSUME IInv, WireInv, CountInv, RingInv, NEW s \in Source, Credit(s)
  PROVE  RingInv'
<1>1. PICK min \in Nat :
        /\ lastHead[s] <= min
        /\ head' = [head EXCEPT ![s] = min] /\ lastHead' = [lastHead EXCEPT ![s] = min]
  BY CreditCount
<1>2. UNCHANGED <<run, at, copied, ring, staged, wire, tail>>
  BY DEF Credit, sender
<1>3. /\ run \in Runs /\ head \in [Source -> Nat] /\ lastHead \in [Source -> Nat]
      /\ \A r \in Source : head[r] = lastHead[r]
  BY DEF IInv, WindowTyped, CountInv, CountTyped, SourceInOrder
<1>4. \A r \in Source : /\ head[r] \in Nat /\ head'[r] \in Nat /\ head[r] <= head'[r]
                        /\ lastHead[r] \in Nat /\ lastHead'[r] \in Nat /\ lastHead[r] <= lastHead'[r]
  BY <1>1, <1>3
<1>5. RowsTyped'
  BY <1>2, RowsKept DEF RingInv, RowsTyped
<1>6. ASSUME NEW r \in Source PROVE WrittenInPlace(r)'
  <2>1. \A t \in Chosen(r) : Written(r, t)' => Written(r, t)
    BY <1>2 DEF Written, Released
  <2>2. Buffer(r)' = Buffer(r) /\ WrittenInPlace(r)
    BY <1>2 DEF Buffer, RingInv
  <2> QED BY <1>2, <1>3, <1>4, <2>1, <2>2, WrittenKept
<1>7. ASSUME NEW r \in Source PROVE ArrivedInPlace(r)'
  BY <1>2, <1>4, FrontierType, FrontierKept, ArrivedKept DEF RingInv
<1> QED BY <1>5, <1>6, <1>7 DEF RingInv

(* What the source puts on the wire goes behind what is there. *)
LEMMA PostRing ==
  ASSUME IInv, WireInv, CountInv, RingInv, NEW s \in Source, SendMeta(s) \/ Issue(s)
  PROVE  RingInv'
<1>1. UNCHANGED <<run, at, copied, ring, staged, head, lastHead>>
  BY DEF SendMeta, Issue, forwarder
<1>2. ASSUME NEW r \in Source, r # Node PROVE Frontier(r)' = Frontier(r)
  <2>0. wire \in [Source -> Seq(Message)] /\ tail \in [Source -> Nat]
    BY DEF WireInv, WireTyped
  <2>1. CASE r # s
    BY <2>0, <2>1, FrontierKept DEF SendMeta, Issue
  <2>2. CASE r = s /\ SendMeta(s)
    <3>1. wire[s] = <<>> /\ wire' = [wire EXCEPT ![s] = Append(@, [kind |-> "meta"])] /\ tail' = tail
      BY <1>2, <2>2 DEF SendMeta, WireInv, WireInOrder
    <3>2. wire'[s] = <<[kind |-> "meta"]>>
      BY <2>0, <3>1
    <3> QED BY <2>2, <3>1, <3>2 DEF Frontier
  <2>3. CASE r = s /\ Issue(s)
    <3>1. PICK n \in Nat \ {0} :
            /\ wire' = [wire EXCEPT ![s] = @ \o <<[kind |-> "put", from |-> issued[s], num |-> n],
                                                  [kind |-> "add", num |-> n]>>]
            /\ tail' = tail
      <4>1. Total(s) \in Nat /\ WindowTyped
        BY TotalType DEF IInv, WindowTyped
      <4> QED BY <1>2, <2>3, <4>1, IssueWire
    <3>2. PICK v \in Seq(Message), a \in Message, b \in Message :
            v = wire[s] /\ wire'[s] = v \o <<a, b>> /\ a.kind = "put"
      <4> DEFINE a == [kind |-> "put", from |-> issued[s], num |-> n]
                 b == [kind |-> "add", num |-> n]
      <4>1. issued[s] \in Nat
        BY DEF WireInv, WireTyped
      <4>2. a \in Message /\ b \in Message /\ a.kind = "put"
        BY <4>1 DEF Message
      <4>3. wire'[s] = wire[s] \o <<a, b>>
        BY <2>0, <3>1
      <4> HIDE DEF a, b
      <4> QED BY <2>0, <4>2, <4>3
    <3>3. /\ Len(v) \in Nat /\ Len(v \o <<a, b>>) = Len(v) + 2
          /\ v # <<>> => 1 \in 1 .. Len(v) /\ (v \o <<a, b>>)[1] = v[1]
          /\ v = <<>> => (v \o <<a, b>>)[1] = a
      <4>1. /\ Len(v \o <<a, b>>) = Len(v) + 2 /\ \A k \in 1 .. Len(v) : (v \o <<a, b>>)[k] = v[k]
            /\ (v \o <<a, b>>)[Len(v) + 1] = a
        BY AppendTwo
      <4>2. Len(v) \in Nat /\ (v # <<>> => 1 \in 1 .. Len(v)) /\ (v = <<>> => Len(v) + 1 = 1)
        OBVIOUS
      <4> QED BY <4>1, <4>2
    <3>4. wire'[s] # <<>>
      <4>1. Len(wire'[s]) # 0
        BY <3>2, <3>3
      <4> QED BY <4>1
    <3>5. wire[s] # <<>> => wire'[s][1] = wire[s][1]
      BY <3>2, <3>3
    <3>6. wire[s] = <<>> => wire'[s][1].kind = "put"
      BY <3>2, <3>3
    <3> QED BY <2>3, <3>1, <3>4, <3>5, <3>6 DEF Frontier
  <2> QED BY <2>1, <2>2, <2>3
<1> QED BY <1>1, <1>2, RingOthers

(* A put brings the rows from the tail on; their slots hold no row that is *)
(* still to be read.                                                       *)
LEMMA PutRing ==
  ASSUME Ordered, IInv, WireInv, CountInv, RingInv, NEW s \in Source,
         NEW k \in 1 .. Len(wire[s]), Deliver(s, k), wire[s][1].kind = "put"
  PROVE  RingInv'
<1> USE SizesAssumption
<1> DEFINE m == wire[s][1]
           n == m.num
           slots == {RdmaSlot(m.from + i) : i \in 0 .. m.num - 1}
<1>1. /\ wire[s] # <<>> /\ wire' = [wire EXCEPT ![s] = SubSeq(@, 2, Len(@))] /\ tail' = tail
      /\ s # Node
  BY DeliverWire
<1>2. k = 1
  BY DEF Deliver
<1>3. /\ ring' = [ring EXCEPT ![s] = [x \in DOMAIN @ |-> IF x \in slots THEN staged[s][x] ELSE @[x]]]
      /\ UNCHANGED <<run, at, copied, staged, head, lastHead, sendTail>>
  BY <1>2 DEF Deliver, sender, forwarder
<1>4. /\ m.from = tail[s] /\ n \in Nat \ {0} /\ tail[s] + n <= issued[s]
      /\ SubSeq(wire[s], 2, Len(wire[s])) # <<>>
      /\ SubSeq(wire[s], 2, Len(wire[s]))[1] = [kind |-> "add", num |-> n]
  <2>1. Chain(wire[s], tail[s], issued[s])
    BY DEF WireInv, WireInOrder
  <2>2. wire[s][1] \in Message
    BY <1>1 DEF WireInv, WireTyped
  <2> QED BY <1>1, <2>1, <2>2, ChainDeliver, MessageType
<1>5. /\ run \in Runs /\ head \in [Source -> Nat] /\ lastHead \in [Source -> Nat]
      /\ \A r \in Source : head[r] = lastHead[r]
      /\ tail[s] \in Nat /\ lastHead[s] <= tail[s] /\ sendTail[s] \in Nat /\ issued[s] \in Nat
      /\ issued[s] <= sendTail[s]
  BY DEF IInv, WindowTyped, WireInv, WireTyped, WireInOrder, CountInv, CountTyped, SourceInOrder
<1> HIDE DEF m, n
<1>6. slots = {RdmaSlot(j) : j \in tail[s] .. tail[s] + n - 1}
  <2>0. PICK a \in Nat, b \in Nat : a = tail[s] /\ b = n
    BY <1>4, <1>5
  <2>1. \A i \in 0 .. b - 1 : a + i \in a .. a + b - 1
    OBVIOUS
  <2>2. \A j \in a .. a + b - 1 : j - a \in 0 .. b - 1 /\ a + (j - a) = j
    <3> SUFFICES ASSUME NEW j \in a .. a + b - 1 PROVE j - a \in 0 .. b - 1 /\ a + (j - a) = j
      OBVIOUS
    <3> HIDE DEF slots
    <3> QED OBVIOUS
  <2>3. slots = {RdmaSlot(tail[s] + i) : i \in 0 .. n - 1}
    BY <1>4 DEF n
  <2> HIDE DEF slots
  <2> QED BY <2>0, <2>1, <2>2, <2>3
<1> HIDE DEF slots
<1>7. \A j \in tail[s] .. tail[s] + n - 1 :
        /\ j \in 0 .. sendTail[s] - 1 /\ j \in 0 .. Total(s) - 1 /\ j < head[s] + RdmaRecv
        /\ staged[s][RdmaSlot(j)] = Row(s, TokenAt(s, j))
  <2> SUFFICES ASSUME NEW j \in tail[s] .. tail[s] + n - 1
               PROVE  /\ j \in 0 .. sendTail[s] - 1 /\ j \in 0 .. Total(s) - 1 /\ j < head[s] + RdmaRecv
                      /\ staged[s][RdmaSlot(j)] = Row(s, TokenAt(s, j))
    OBVIOUS
  <2>1. j \in 0 .. sendTail[s] - 1 /\ head[s] <= j
    BY <1>4, <1>5, SMTT(20)
  <2>2. j \in 0 .. Total(s) - 1 /\ Written(s, TokenAt(s, j))
    BY <2>1, UnderTail
  <2>3. TokenAt(s, j) \in Chosen(s) /\ Index(s, TokenAt(s, j)) = j
    BY <1>5, <2>2, StreamNumbered
  <2> QED BY <1>1, <2>1, <2>2, <2>3 DEF RingInv, WrittenInPlace, Buffer
<1>8. Frontier(s)' = tail[s] + n /\ \A r \in Source : r # s => Frontier(r)' = Frontier(r)
  <2>1. wire'[s] = SubSeq(wire[s], 2, Len(wire[s]))
    BY <1>1 DEF WireInv, WireTyped
  <2>2. wire'[s] # <<>> /\ wire'[s][1].kind = "add" /\ wire'[s][1].num = n
    BY <1>4, <2>1
  <2>3. \A r \in Source : r # s => wire'[r] = wire[r]
    BY <1>1 DEF WireInv, WireTyped
  <2> QED BY <1>1, <2>2, <2>3 DEF Frontier
<1>9. Frontier(s) = tail[s]
  BY DEF Frontier, m
<1>10. RowsTyped'
  <2>1. ring' \in [Source -> [0 .. RdmaRecv - 1 -> Rows]]
    BY <1>3 DEF RingInv, RowsTyped
  <2> QED BY <1>3, <2>1, RowsKept DEF RingInv, RowsTyped
<1>11. /\ \A r \in Source : r # s => ring'[r] = ring[r]
       /\ \A x \in 0 .. RdmaRecv - 1 : ring'[s][x] = IF x \in slots THEN staged[s][x] ELSE ring[s][x]
  BY <1>3 DEF RingInv, RowsTyped
<1>12. ASSUME NEW r \in Source PROVE WrittenInPlace(r)'
  <2>1. \A t \in Chosen(r) : Written(r, t)' => Written(r, t)
    BY <1>3 DEF Written, Released
  <2>2. Buffer(r)' = Buffer(r) /\ WrittenInPlace(r)
    BY <1>1, <1>3, <1>11 DEF Buffer, RingInv
  <2>3. head[r] \in Nat /\ head'[r] \in Nat /\ head[r] <= head'[r]
    BY <1>3, <1>5
  <2> QED BY <1>3, <1>5, <2>1, <2>2, <2>3, WrittenKept
<1>13. ASSUME NEW r \in Source, r # s PROVE ArrivedInPlace(r)'
  <2>1. lastHead[r] \in Nat /\ lastHead'[r] \in Nat /\ lastHead[r] <= lastHead'[r]
    BY <1>3, <1>5
  <2> QED BY <1>3, <1>8, <1>11, <1>13, <2>1, FrontierType, ArrivedKept DEF RingInv
<1>14. ArrivedInPlace(s)'
  <2>a. PICK a \in Nat, b \in Nat : a = lastHead[s] /\ b = tail[s] + n
    BY <1>4, <1>5
  <2> SUFFICES ASSUME NEW i \in a .. b - 1
               PROVE  ring'[s][RdmaSlot(i)] = Row(s, TokenAt(s, i))
    <3>1. \A i : TokenAt(s, i)' = TokenAt(s, i)
      BY <1>3, RowsKept
    <3>2. lastHead'[s] = a /\ Frontier(s)' = b
      BY <1>3, <1>8, <2>a
    <3> QED BY <3>1, <3>2 DEF ArrivedInPlace, RdmaSlot, Row
  <2>b. i \in lastHead[s] .. tail[s] + n - 1
    <3>1. tail[s] \in Nat /\ n \in Nat
      BY <1>4, <1>5
    <3> HIDE DEF slots, n
    <3> QED BY <2>a, <3>1
  <2>0. i \in Nat /\ RdmaSlot(i) \in 0 .. RdmaRecv - 1
    <3>1. i \in Nat
      BY <2>a
    <3> QED BY <3>1, RingSlotType DEF RdmaSlot
  <2>1. CASE i >= tail[s]
    <3>1. i \in tail[s] .. tail[s] + n - 1
      BY <1>4, <1>5, <2>b, <2>1
    <3>2. RdmaSlot(i) \in slots
      BY <1>6, <3>1
    <3> QED BY <1>7, <1>11, <2>0, <3>1, <3>2
  <2>2. CASE i < tail[s]
    <3>1. i \in lastHead[s] .. Frontier(s) - 1
      BY <1>5, <1>9, <2>b, <2>2
    <3>2. ring[s][RdmaSlot(i)] = Row(s, TokenAt(s, i))
      BY <1>1, <3>1 DEF RingInv, ArrivedInPlace
    <3>3. RdmaSlot(i) \notin slots
      <4> SUFFICES ASSUME NEW j \in tail[s] .. tail[s] + n - 1, RdmaSlot(i) = RdmaSlot(j)
                   PROVE  FALSE
        BY <1>6
      <4>1. j < head[s] + RdmaRecv
        BY <1>7
      <4>2. head[s] \in Nat /\ head[s] = lastHead[s]
        BY <1>5
      <4>3. tail[s] <= j /\ j \in Nat /\ head[s] <= i
        BY <1>4, <1>5, <2>b, <2>0, <4>2
      <4>4. head[s] <= j /\ i < head[s] + RdmaRecv /\ i # j
        <5> HIDE DEF slots
        <5> QED BY <1>5, <2>0, <2>2, <4>1, <4>2, <4>3, SMTT(20)
      <4> QED BY <2>0, <4>1, <4>2, <4>3, <4>4, RingSlotsApart DEF RdmaSlot
    <3> QED BY <1>11, <2>0, <3>2, <3>3
  <2> QED BY <1>4, <1>5, <2>b, <2>1, <2>2
<1> QED BY <1>10, <1>12, <1>13, <1>14 DEF RingInv

(* A put brings the very rows that its add then counts. *)
LEMMA DeliverRing ==
  ASSUME Ordered, IInv, WireInv, CountInv, RingInv, NEW s \in Source,
         NEW k \in 1 .. Len(wire[s]), Deliver(s, k)
  PROVE  RingInv'
<1> DEFINE m == wire[s][1]
           w == SubSeq(wire[s], 2, Len(wire[s]))
<1>1. /\ wire[s] # <<>> /\ wire' = [wire EXCEPT ![s] = w]
      /\ tail' = IF m.kind = "add" THEN [tail EXCEPT ![s] = @ + m.num] ELSE tail
      /\ m.kind # "put" => ring' = ring
  BY DeliverWire
<1>2. UNCHANGED <<run, at, copied, staged, head, lastHead>>
  BY DEF Deliver, sender, forwarder
<1>3. CASE m.kind # "put"
  <2>1. m \in Message /\ Chain(wire[s], tail[s], issued[s])
    BY <1>1 DEF WireInv, WireTyped, WireInOrder
  <2>2. m.kind \in {"meta", "add"}
    BY <1>3, <2>1, MessageType
  <2>3. w = <<>> \/ w[1].kind # "add"
    BY <1>1, <2>1, <2>2, ChainDeliver
  <2> HIDE DEF w, m
  <2>4. wire'[s] = w /\ \A r \in Source : r # s => wire'[r] = wire[r] /\ tail'[r] = tail[r]
    BY <1>1 DEF WireInv, WireTyped
  <2>5. tail'[s] = IF m.kind = "add" THEN tail[s] + m.num ELSE tail[s]
    BY <1>1 DEF WireInv, WireTyped
  <2>6. Frontier(s)' = tail'[s]
    BY <2>3, <2>4 DEF Frontier
  <2>7. Frontier(s) = tail'[s]
    BY <1>1, <2>5 DEF Frontier, m
  <2>8. \A r \in Source : Frontier(r)' = Frontier(r)
    BY <2>4, <2>6, <2>7, FrontierKept
  <2> QED BY <1>1, <1>2, <1>3, <2>8, RingOthers
<1>4. CASE m.kind = "put"
  BY <1>4, PutRing
<1> QED BY <1>3, <1>4

(* Every step keeps the rows in place, if the network keeps its order. *)
LEMMA NextRing ==
  ASSUME Ordered, IInv, WireInv, CountInv, RingInv, [Next]_vars
  PROVE  RingInv'
<1>1. ASSUME NEW s \in Source, SenderStep(s) PROVE RingInv'
  BY <1>1, PostRing, ReleaseRing, CopyRing DEF SenderStep
<1>2. ASSUME NEW s \in Source, Credit(s) PROVE RingInv'
  BY <1>2, CreditRing
<1>3. ASSUME NEW s \in Source, NEW k \in 1 .. Len(wire[s]), Deliver(s, k) PROVE RingInv'
  BY <1>3, DeliverRing
<1>4. CASE UNCHANGED <<run, sender, wire, head, ring, tail, lastHead>>
  BY <1>4, RingOthers, FrontierKept DEF sender
<1>5. ASSUME NEW p \in Peer, PeerStep(p) PROVE RingInv'
  <2>1. ASSUME NEW s \in Source, ReadMeta(p, s) \/ Choose(p, s) \/ ReadBounds(p, s)
        PROVE  RingInv'
    BY <1>4, <2>1 DEF ReadMeta, Choose, ReadBounds, forwarder
  <2>2. CASE Forward(p)
    BY <1>4, <2>2 DEF Forward
  <2>3. CASE Retire(p) \/ SeeTail(p)
    BY <1>4, <2>3 DEF Retire, SeeTail, forwarder
  <2>4. CASE Receive(p)
    BY <1>4, <2>4 DEF Receive, forwarder
  <2> QED BY <1>5, <2>1, <2>2, <2>3, <2>4 DEF PeerStep
<1>6. CASE UNCHANGED vars
  BY <1>4, <1>6 DEF vars, forwarder
<1> QED BY <1>1, <1>2, <1>3, <1>5, <1>6 DEF Next
-----------------------------------------------------------------------------
(* The numbers in the stream of the rows that are for a peer. *)
Numbers(s, p) == {i \in 0 .. Total(s) - 1 : TokenAt(s, i) \in For(s, p)}

(* What send_nvl_head holds of the first n rows of a source. *)
Recorded(s, p, n) ==
  {<<run.prior + i,
     IF TokenAt(s, i) \in For(s, p) THEN Place(s, p, TokenAt(s, i)) ELSE -1>> : i \in 0 .. n - 1}

(* A forwarder has seen, and recorded, the rows before its head. *)
SeenInv ==
  /\ nvlHeads \in [Peer -> [Source -> SUBSET (Int \X Int)]]
  /\ \A p \in Peer, s \in Source :
       /\ fwd[p].seen[s] = Below(Numbers(s, p), fwd[p].head[s])
       /\ nvlHeads[p][s] = Recorded(s, p, fwd[p].head[s])
-----------------------------------------------------------------------------
(* A one-to-one map onto a set shows that it is as large. *)
LEMMA SameSize ==
  ASSUME NEW S, NEW T, IsFiniteSet(S), NEW f \in [S -> T],
         \A x, y \in S : f[x] = f[y] => x = y,
         \A t \in T : \E x \in S : f[x] = t
  PROVE  IsFiniteSet(T) /\ Cardinality(T) = Cardinality(S)
<1>1. f \in Surjection(S, T)
  BY DEF Surjection
<1>2. f \in Injection(S, T)
  BY DEF Injection, IsInjective
<1> QED BY <1>1, <1>2, FS_Surjection

(* Ranks add up over an interval. *)
LEMMA BelowSplit ==
  ASSUME NEW S \in SUBSET Nat, IsFiniteSet(S), NEW a \in Nat, NEW b \in Nat, a <= b
  PROVE  /\ Below(S, b) = Below(S, a) + Cardinality({i \in S : a <= i /\ i < b})
         /\ IsFiniteSet({i \in S : a <= i /\ i < b})
         /\ \A i \in Nat : a <= i /\ i <= b =>
              Below(S, i) = Below(S, a) + Below({j \in S : a <= j /\ j < b}, i)
<1> DEFINE B(n) == {u \in S : u < n}
           C(n) == {i \in S : a <= i /\ i < n}
<1>1. ASSUME NEW n \in Nat, a <= n
      PROVE  IsFiniteSet(C(n)) /\ Cardinality(B(n)) = Cardinality(B(a)) + Cardinality(C(n))
  <2>1. IsFiniteSet(B(a)) /\ IsFiniteSet(C(n))
    BY FS_Subset
  <2>2. B(n) = B(a) \cup C(n) /\ B(a) \cap C(n) = {}
    <3>1. \A u \in Nat : (u < n <=> u < a \/ (a <= u /\ u < n)) /\ ~(u < a /\ a <= u)
      BY <1>1
    <3>2. \A u \in S : u \in Nat
      OBVIOUS
    <3> QED BY <3>1, <3>2, Zenon
  <2> HIDE DEF B, C
  <2>3. Cardinality(B(a) \cup C(n)) = Cardinality(B(a)) + Cardinality(C(n)) - Cardinality(B(a) \cap C(n))
    BY <2>1, FS_Union
  <2>4. Cardinality(B(a) \cap C(n)) = 0
    BY <2>2, FS_EmptySet
  <2>5. Cardinality(B(a)) \in Nat /\ Cardinality(C(n)) \in Nat
    BY <2>1, FS_CardinalityType
  <2> QED BY <2>1, <2>2, <2>3, <2>4, <2>5
<1>2. ASSUME NEW i \in Nat, a <= i, i <= b
      PROVE  Below(S, i) = Below(S, a) + Below(C(b), i)
  <2>1. C(i) = {j \in C(b) : j < i}
    <3>1. \A u \in Nat : u < i => u < b
      BY <1>2
    <3>2. \A u \in S : u \in Nat
      OBVIOUS
    <3>3. \A u : u \in C(i) <=> u \in {j \in C(b) : j < i}
      <4> SUFFICES ASSUME NEW u PROVE u \in C(i) <=> u \in {j \in C(b) : j < i}
        OBVIOUS
      <4>1. u \in C(i) <=> u \in S /\ a <= u /\ u < i
        OBVIOUS
      <4>2. u \in {j \in C(b) : j < i} <=> u \in S /\ a <= u /\ u < b /\ u < i
        OBVIOUS
      <4> QED BY <3>1, <3>2, <4>1, <4>2, Zenon
    <3> QED BY <3>3, Zenon
  <2> QED BY <1>1, <1>2, <2>1 DEF Below
<1> QED BY <1>1, <1>2 DEF Below

(* The numbers of the rows for a peer are numbers of the stream. *)
LEMMA NumbersType ==
  ASSUME run \in Runs, NEW s \in Source, NEW p
  PROVE  /\ Numbers(s, p) \in SUBSET Nat /\ IsFiniteSet(Numbers(s, p))
         /\ Numbers(s, p) \in SUBSET (0 .. Total(s) - 1)
<1>1. Total(s) \in Nat
  BY TotalType
<1>2. IsFiniteSet(0 .. Total(s) - 1) /\ 0 .. Total(s) - 1 \in SUBSET Nat
  BY <1>1, FS_Interval
<1>3. Numbers(s, p) \in SUBSET (0 .. Total(s) - 1)
  BY DEF Numbers
<1> QED BY <1>2, <1>3, FS_Subset

(* The place of a row among those for its peer, by its number. *)
LEMMA PlaceOfNumber ==
  ASSUME run \in Runs, NEW s \in Source, NEW p, NEW i \in Numbers(s, p)
  PROVE  Place(s, p, TokenAt(s, i)) = Below(Numbers(s, p), i)
<1> DEFINE S == {j \in Numbers(s, p) : j < i}
           T == {u \in For(s, p) : u < TokenAt(s, i)}
           f == [j \in S |-> TokenAt(s, j)]
<1>1. IsFiniteSet(S)
  BY NumbersType, FS_Subset
<1>2. For(s, p) \in SUBSET Chosen(s)
  BY DEF For
<1>3. i \in 0 .. Total(s) - 1 /\ TokenAt(s, i) \in For(s, p)
  BY DEF Numbers
<1>4. \A j \in S : j \in 0 .. Total(s) - 1 /\ TokenAt(s, j) \in For(s, p) /\ j < i
  BY DEF Numbers
<1>5. \A j \in 0 .. Total(s) - 1 : TokenAt(s, j) < TokenAt(s, i) <=> j < i
  BY <1>3, StreamNumbered
<1>6. f \in [S -> T]
  BY <1>4, <1>5
<1>7. \A x, y \in S : f[x] = f[y] => x = y
  BY <1>4, StreamNumbered
<1>8. \A t \in T : \E x \in S : f[x] = t
  <2> SUFFICES ASSUME NEW t \in T PROVE \E x \in S : f[x] = t
    OBVIOUS
  <2>1. t \in Chosen(s) /\ t \in For(s, p) /\ t < TokenAt(s, i)
    BY <1>2
  <2>2. Index(s, t) \in 0 .. Total(s) - 1 /\ TokenAt(s, Index(s, t)) = t
    BY <2>1, StreamNumbered
  <2>3. Index(s, t) < i
    BY <1>5, <2>1, <2>2
  <2>4. Index(s, t) \in S
    BY <2>1, <2>2, <2>3 DEF Numbers
  <2> QED BY <2>2, <2>4
<1> HIDE DEF S, T, f
<1>9. Cardinality(T) = Cardinality(S)
  BY <1>1, <1>6, <1>7, <1>8, SameSize
<1> QED BY <1>9 DEF S, T, Place, Below

(* What a forwarder finds between its head and the end of its chunk. *)
LEMMA ForwardRows ==
  ASSUME IInv, WireInv, CountInv, RingInv, NEW p \in Peer, fwd[p].busy
  PROVE  LET s == fwd[p].src
             from == fwd[p].head[s]
         IN  /\ \A i \in from .. ChunkEnd(p) - 1 :
                  i \in 0 .. Total(s) - 1 /\ ring[s][RdmaSlot(i)] = Row(s, TokenAt(s, i))
             /\ Chunk(p) = {i \in Numbers(s, p) : from <= i /\ i < ChunkEnd(p)}
<1>1. PICK s \in Source : s = fwd[p].src
  BY ChunkBounds
<1>2. /\ ChunkEnd(p) \in fwd[p].head[s] + 1 .. fwd[p].tail[s]
      /\ Chunk(p) = {i \in fwd[p].head[s] .. ChunkEnd(p) - 1 : IsFor(ring[s][RdmaSlot(i)], p)}
  BY <1>1, ChunkBounds
<1>3. PICK from \in Nat, to \in Nat :
        /\ from = fwd[p].head[s] /\ to = ChunkEnd(p)
        /\ lastHead[s] <= from /\ to <= tail[s] /\ lastHead[s] \in Nat /\ tail[s] \in Nat
  BY <1>2, TailReached
<1>4. \A i \in from .. to - 1 :
        i \in 0 .. Total(s) - 1 /\ ring[s][RdmaSlot(i)] = Row(s, TokenAt(s, i))
  <2> SUFFICES ASSUME NEW i \in from .. to - 1
               PROVE  i \in 0 .. Total(s) - 1 /\ ring[s][RdmaSlot(i)] = Row(s, TokenAt(s, i))
    OBVIOUS
  <2>1. i \in lastHead[s] .. tail[s] - 1
    BY <1>3
  <2> QED BY <2>1, RingRead
<1>5. \A i \in from .. to - 1 : IsFor(ring[s][RdmaSlot(i)], p) <=> i \in Numbers(s, p)
  <2> SUFFICES ASSUME NEW i \in from .. to - 1
               PROVE  IsFor(ring[s][RdmaSlot(i)], p) <=> i \in Numbers(s, p)
    OBVIOUS
  <2>1. /\ i \in 0 .. Total(s) - 1 /\ ring[s][RdmaSlot(i)] = <<s, TokenAt(s, i)>>
        /\ TokenAt(s, i) \in Chosen(s)
    BY <1>4, StreamNumbered DEF Row, IInv, WindowTyped
  <2>2. \A t : <<s, t>> # <<>> /\ <<s, t>>[1] = s /\ <<s, t>>[2] = t
    OBVIOUS
  <2>3. IsFor(ring[s][RdmaSlot(i)], p) <=> p \in run.to[s][TokenAt(s, i)]
    BY <2>1, <2>2 DEF IsFor, None
  <2> QED BY <2>1, <2>3 DEF Numbers, For
<1>6. Chunk(p) = {i \in Numbers(s, p) : from <= i /\ i < to}
  <2>1. Numbers(s, p) \in SUBSET Nat
    BY NumbersType DEF IInv, WindowTyped
  <2>2. Chunk(p) = {i \in from .. to - 1 : IsFor(ring[s][RdmaSlot(i)], p)}
    BY <1>2, <1>3
  <2>3. \A i : i \in from .. to - 1 <=> i \in Int /\ from <= i /\ i < to
    OBVIOUS
  <2> QED BY <1>5, <2>1, <2>2, <2>3
<1> QED BY <1>1, <1>3, <1>4, <1>6

(* The rows of a chunk go on from those seen. *)
LEMMA ChunkPlaces ==
  ASSUME IInv, WireInv, CountInv, RingInv, SeenInv, NEW p \in Peer, fwd[p].busy
  PROVE  LET s == fwd[p].src
         IN  /\ \A i \in Chunk(p) : /\ TokenAt(s, i) \in For(s, p)
                                    /\ ring[s][RdmaSlot(i)] = Row(s, TokenAt(s, i))
                                    /\ Place(s, p, TokenAt(s, i)) = fwd[p].seen[s] + Below(Chunk(p), i)
             /\ \A i \in fwd[p].head[s] .. ChunkEnd(p) - 1 :
                  i \in Chunk(p) <=> TokenAt(s, i) \in For(s, p)
             /\ Below(Numbers(s, p), ChunkEnd(p)) = fwd[p].seen[s] + Cardinality(Chunk(p))
<1>1. PICK s \in Source : s = fwd[p].src
  BY ChunkBounds
<1>2. ChunkEnd(p) \in fwd[p].head[s] + 1 .. fwd[p].tail[s]
  BY <1>1, ChunkBounds
<1>3. PICK from \in Nat, to \in Nat : from = fwd[p].head[s] /\ to = ChunkEnd(p) /\ from <= to
  BY <1>2, TailReached
<1>4. /\ \A i \in from .. to - 1 :
           i \in 0 .. Total(s) - 1 /\ ring[s][RdmaSlot(i)] = Row(s, TokenAt(s, i))
      /\ Chunk(p) = {i \in Numbers(s, p) : from <= i /\ i < to}
  BY <1>1, <1>3, ForwardRows
<1>5. run \in Runs /\ Numbers(s, p) \in SUBSET Nat /\ IsFiniteSet(Numbers(s, p))
  BY NumbersType DEF IInv, WindowTyped
<1>6. fwd[p].seen[s] = Below(Numbers(s, p), from)
  BY <1>3 DEF SeenInv
<1>7. /\ Below(Numbers(s, p), to) = Below(Numbers(s, p), from) + Cardinality(Chunk(p))
      /\ \A i \in Nat : from <= i /\ i <= to =>
           Below(Numbers(s, p), i) = Below(Numbers(s, p), from) + Below(Chunk(p), i)
  <2> DEFINE S == Numbers(s, p)
             C == {i \in S : from <= i /\ i < to}
  <2> HIDE DEF S
  <2>1. S \in SUBSET Nat /\ IsFiniteSet(S)
    BY <1>5 DEF S
  <2>2. /\ Below(S, to) = Below(S, from) + Cardinality(C)
        /\ \A i \in Nat : from <= i /\ i <= to => Below(S, i) = Below(S, from) + Below(C, i)
    BY <1>3, <2>1, BelowSplit
  <2>3. Chunk(p) = C
    BY <1>4 DEF S
  <2> HIDE DEF C
  <2> QED BY <2>2, <2>3 DEF S
<1>8. \A i \in Chunk(p) : /\ TokenAt(s, i) \in For(s, p)
                          /\ ring[s][RdmaSlot(i)] = Row(s, TokenAt(s, i))
                          /\ Place(s, p, TokenAt(s, i)) = fwd[p].seen[s] + Below(Chunk(p), i)
  <2> SUFFICES ASSUME NEW i \in Chunk(p)
               PROVE  /\ TokenAt(s, i) \in For(s, p)
                      /\ ring[s][RdmaSlot(i)] = Row(s, TokenAt(s, i))
                      /\ Place(s, p, TokenAt(s, i)) = fwd[p].seen[s] + Below(Chunk(p), i)
    OBVIOUS
  <2>1. i \in Numbers(s, p) /\ i \in Nat /\ from <= i /\ i < to
    BY <1>4, <1>5
  <2>2. i \in from .. to - 1 /\ i <= to
    BY <2>1
  <2>3. Place(s, p, TokenAt(s, i)) = Below(Numbers(s, p), i)
    BY <1>5, <2>1, PlaceOfNumber
  <2> QED BY <1>4, <1>6, <1>7, <2>1, <2>2, <2>3 DEF Numbers
<1>9. \A i \in from .. to - 1 : i \in Chunk(p) <=> TokenAt(s, i) \in For(s, p)
  BY <1>4 DEF Numbers
<1> QED BY <1>1, <1>3, <1>6, <1>7, <1>8, <1>9
-----------------------------------------------------------------------------
(* Numbers and places stay while a run lasts. *)
LEMMA StreamKept ==
  ASSUME run' = run
  PROVE  \A s, p : /\ Numbers(s, p)' = Numbers(s, p)
                   /\ \A t : Place(s, p, t)' = Place(s, p, t)
                   /\ \A n : Recorded(s, p, n)' = Recorded(s, p, n)
<1>1. \A s, p, t : Place(s, p, t)' = Place(s, p, t)
  BY RunKept DEF Place
<1> QED BY <1>1, RunKept, RowsKept DEF Numbers, Recorded

(* Nothing is seen or recorded at the start. *)
LEMMA InitSeen == Init => SeenInv
<1> SUFFICES ASSUME Init PROVE SeenInv
  OBVIOUS
<1>1. nvlHeads \in [Peer -> [Source -> SUBSET (Int \X Int)]]
  BY DEF Init
<1>2. ASSUME NEW p \in Peer, NEW s \in Source
      PROVE  /\ fwd[p].seen[s] = Below(Numbers(s, p), fwd[p].head[s])
             /\ nvlHeads[p][s] = Recorded(s, p, fwd[p].head[s])
  <2>1. fwd[p].seen[s] = 0 /\ fwd[p].head[s] = 0 /\ nvlHeads[p][s] = {}
    BY DEF Init
  <2>2. Below(Numbers(s, p), 0) = 0
    BY NumbersType, BelowStep DEF Init
  <2>3. Recorded(s, p, 0) = {}
    BY DEF Recorded
  <2> QED BY <2>1, <2>2, <2>3
<1> QED BY <1>1, <1>2 DEF SeenInv

(* Steps that leave seen, head and send_nvl_head alone. *)
LEMMA SeenOthers ==
  ASSUME SeenInv, run' = run, nvlHeads' = nvlHeads,
         \A p \in Peer : fwd'[p].seen = fwd[p].seen /\ fwd'[p].head = fwd[p].head
  PROVE  SeenInv'
BY StreamKept DEF SeenInv

(* Forwarding records the place of each row of the chunk, or -1. *)
LEMMA ForwardSeen ==
  ASSUME IInv, WireInv, CountInv, RingInv, SeenInv, NEW p \in Peer, Forward(p)
  PROVE  SeenInv'
<1>1. PICK s \in Source : s = fwd[p].src /\ fwd[p].busy
  BY ForwardStep, ChunkBounds
<1>2. ChunkEnd(p) \in fwd[p].head[s] + 1 .. fwd[p].tail[s]
  BY <1>1, ChunkBounds
<1>3. PICK from \in Nat, to \in Nat : from = fwd[p].head[s] /\ to = ChunkEnd(p) /\ from < to
  BY <1>2, TailReached
<1>4. PICK g \in Forwarder :
        /\ fwd' = [fwd EXCEPT ![p] = g]
        /\ AfterChunk(fwd[p], s, to, fwd[p].left[s] - (to - from),
                      fwd[p].seen[s] + Cardinality(Chunk(p)), fwd[p].queued + Cardinality(Chunk(p)), g)
  BY <1>1, <1>3, ForwardCount
<1>5. run' = run /\ run \in Runs /\ run.prior \in Nat /\ fwd[p].first[s] = run.prior
  <2>1. fwd[p].got = Source
    BY <1>1 DEF CountInv, ForwarderInTurn
  <2> QED BY <2>1, RunsAssumption DEF Forward, IInv, WindowTyped, CountInv, LaneInOrder
<1> DEFINE new == {<<run.prior + i, IF i \in Chunk(p) THEN fwd[p].seen[s] + Below(Chunk(p), i) ELSE -1>> :
                     i \in from .. to - 1}
<1>6. nvlHeads' = [nvlHeads EXCEPT ![p][s] = @ \cup new]
  <2> DEFINE old == {<<fwd[p].first[fwd[p].src] + i,
                       IF i \in Chunk(p) THEN fwd[p].seen[fwd[p].src] + Below(Chunk(p), i) ELSE -1>> :
                         i \in fwd[p].head[fwd[p].src] .. ChunkEnd(p) - 1}
  <2>1. nvlHeads' = [nvlHeads EXCEPT ![p][fwd[p].src] = @ \cup old]
    BY ForwardStep, Zenon
  <2>2. fwd[p].head[fwd[p].src] .. ChunkEnd(p) - 1 = from .. to - 1
    BY <1>1, <1>3
  <2>3. \A i : /\ fwd[p].first[fwd[p].src] + i = run.prior + i
               /\ fwd[p].seen[fwd[p].src] + Below(Chunk(p), i) = fwd[p].seen[s] + Below(Chunk(p), i)
    BY <1>1, <1>5
  <2>4. old = new
    BY <2>2, <2>3
  <2> HIDE DEF old, new
  <2> QED BY <1>1, <2>1, <2>4
<1>7. /\ \A i \in Chunk(p) : Place(s, p, TokenAt(s, i)) = fwd[p].seen[s] + Below(Chunk(p), i)
      /\ \A i \in from .. to - 1 : i \in Chunk(p) <=> TokenAt(s, i) \in For(s, p)
      /\ Below(Numbers(s, p), to) = fwd[p].seen[s] + Cardinality(Chunk(p))
  BY <1>1, <1>3, ChunkPlaces
<1>8. new = {<<run.prior + i, IF TokenAt(s, i) \in For(s, p) THEN Place(s, p, TokenAt(s, i)) ELSE -1>> :
               i \in from .. to - 1}
  BY <1>7
<1>9. Recorded(s, p, to) = Recorded(s, p, from) \cup new
  <2>1. 0 .. to - 1 = (0 .. from - 1) \cup (from .. to - 1)
    BY <1>3
  <2> HIDE DEF new
  <2> QED BY <1>8, <2>1 DEF Recorded
<1>10. new \in SUBSET (Int \X Int)
  <2>1. \A i \in Chunk(p) : fwd[p].seen[s] + Below(Chunk(p), i) \in Int
    <3>1. IsFiniteSet(Chunk(p)) /\ Chunk(p) \in SUBSET Nat
      <4>1. Chunk(p) = {i \in Numbers(s, p) : from <= i /\ i < to}
        BY <1>1, <1>3, ForwardRows
      <4> QED BY <1>1, <1>5, <4>1, ChunkBounds, NumbersType
    <3>2. \A i : Below(Chunk(p), i) \in 0 .. Cardinality(Chunk(p)) /\ Cardinality(Chunk(p)) \in Nat
      BY <3>1, BelowType
    <3>3. fwd[p].seen[s] \in Nat
      BY TailReached
    <3> QED BY <3>2, <3>3
  <2>2. \A i \in from .. to - 1 : run.prior + i \in Int
    BY <1>3, <1>5
  <2> QED BY <2>1, <2>2
<1> HIDE DEF new
<1>11. nvlHeads' \in [Peer -> [Source -> SUBSET (Int \X Int)]]
  <2>1. PICK N \in [Peer -> [Source -> SUBSET (Int \X Int)]] : N = nvlHeads
    BY DEF SeenInv
  <2>2. PICK M \in SUBSET (Int \X Int) : M = N[p][s] \cup new
    BY <1>10
  <2>3. nvlHeads' = [N EXCEPT ![p][s] = M]
    BY <1>6, <2>1, <2>2
  <2> QED BY <2>3
<1>12. \A q \in Peer, r \in Source :
         nvlHeads'[q][r] = IF q = p /\ r = s THEN nvlHeads[p][s] \cup new ELSE nvlHeads[q][r]
  BY <1>6 DEF SeenInv
<1>13. \A q \in Peer, r \in Source :
         /\ fwd'[q].seen[r] = IF q = p /\ r = s THEN fwd[p].seen[s] + Cardinality(Chunk(p)) ELSE fwd[q].seen[r]
         /\ fwd'[q].head[r] = IF q = p /\ r = s THEN to ELSE fwd[q].head[r]
  <2>1. fwd \in [Peer -> Forwarder] /\ fwd[p] \in Forwarder
    BY DEF CountInv, CountTyped
  <2>2. \A q \in Peer : fwd'[q] = IF q = p THEN g ELSE fwd[q]
    BY <1>4, <2>1
  <2>3. /\ g.head = [fwd[p].head EXCEPT ![s] = to]
        /\ g.seen = [fwd[p].seen EXCEPT ![s] = fwd[p].seen[s] + Cardinality(Chunk(p))]
    BY <1>4 DEF AfterChunk
  <2>4. fwd[p].head \in [Source -> Nat] /\ fwd[p].seen \in [Source -> Nat]
    BY <2>1 DEF Forwarder
  <2>5. \A r \in Source : /\ g.head[r] = IF r = s THEN to ELSE fwd[p].head[r]
                          /\ g.seen[r] = IF r = s THEN fwd[p].seen[s] + Cardinality(Chunk(p)) ELSE fwd[p].seen[r]
    BY <2>3, <2>4
  <2> QED BY <2>2, <2>5
<1>14. ASSUME NEW q \in Peer, NEW r \in Source
       PROVE  /\ fwd'[q].seen[r] = Below(Numbers(r, q), fwd'[q].head[r])
              /\ nvlHeads'[q][r] = Recorded(r, q, fwd'[q].head[r])
  <2>1. CASE q = p /\ r = s
    <3>1. nvlHeads[p][s] = Recorded(s, p, from)
      BY <1>3 DEF SeenInv
    <3> QED BY <1>7, <1>9, <1>12, <1>13, <2>1, <3>1
  <2>2. CASE ~(q = p /\ r = s)
    BY <1>12, <1>13, <2>2 DEF SeenInv
  <2> QED BY <2>1, <2>2
<1> QED BY <1>5, <1>11, <1>14, StreamKept DEF SeenInv

(* Every step keeps what is seen and recorded. *)
LEMMA NextSeen ==
  ASSUME IInv, WireInv, CountInv, RingInv, SeenInv, [Next]_vars
  PROVE  SeenInv'
<1>0. fwd \in [Peer -> Forwarder]
  BY DEF CountInv, CountTyped
<1>1. ASSUME NEW s \in Source, SenderStep(s) PROVE SeenInv'
  <2>1. UNCHANGED <<run, nvlHeads, fwd>>
    BY <1>1 DEF SenderStep, SendMeta, Issue, SkipToken, CopyToken, ReleaseToken, forwarder
  <2> QED BY <2>1, SeenOthers
<1>2. ASSUME NEW s \in Source, Credit(s) PROVE SeenInv'
  BY <1>2, SeenOthers DEF Credit
<1>3. ASSUME NEW s \in Source, NEW k \in 1 .. Len(wire[s]), Deliver(s, k) PROVE SeenInv'
  BY <1>3, SeenOthers DEF Deliver, forwarder
<1>4. ASSUME NEW p \in Peer, PeerStep(p) PROVE SeenInv'
  <2>1. ASSUME NEW s \in Source, ReadMeta(p, s) PROVE SeenInv'
    BY <1>0, <2>1, SeenOthers DEF ReadMeta, Forwarder
  <2>2. ASSUME NEW s \in Source, Choose(p, s) PROVE SeenInv'
    <3>1. UNCHANGED <<run, nvlHeads>> /\ \E t : fwd' = [fwd EXCEPT ![p].busy = TRUE, ![p].src = s, ![p].tail[s] = t]
      BY <2>2 DEF Choose
    <3>2. \A q \in Peer : fwd'[q].seen = fwd[q].seen /\ fwd'[q].head = fwd[q].head
      BY <1>0, <3>1 DEF Forwarder
    <3> QED BY <3>1, <3>2, SeenOthers
  <2>3. ASSUME NEW s \in Source, ReadBounds(p, s) PROVE SeenInv'
    BY <2>3, SeenOthers DEF ReadBounds, forwarder
  <2>4. CASE Forward(p)
    BY <2>4, ForwardSeen
  <2>5. CASE Retire(p)
    BY <2>5, SeenOthers DEF Retire
  <2>6. CASE SeeTail(p)
    BY <2>6, SeenOthers DEF SeeTail, forwarder
  <2>7. CASE Receive(p)
    <3>1. UNCHANGED <<run, nvlHeads, fwd>>
      BY <2>7 DEF Receive, forwarder
    <3> QED BY <3>1, SeenOthers
  <2> QED BY <1>4, <2>1, <2>2, <2>3, <2>4, <2>5, <2>6, <2>7 DEF PeerStep
<1>5. CASE UNCHANGED vars
  BY <1>5, SeenOthers DEF vars, forwarder
<1> QED BY <1>1, <1>2, <1>3, <1>4, <1>5 DEF Next
-----------------------------------------------------------------------------
(* How many of the rows g[a] .. g[b - 1] are from source s. *)
Tally(g, s, a, b) == Cardinality({y \in a .. b - 1 : g[y][1] = s})

(* The cells of a peer's queue, numbered without end. *)
QueueOf(p) == [x \in Nat |-> nvlRing[p][NvlSlot(x)]]

(* Of the rows from s in the queue, those at x and behind it; the rest of  *)
(* what the forwarder has passed on has been taken by the receiver.        *)
Behind(s, p, x) == Tally(QueueOf(p), s, x, nvlTail[p])
Taken(s, p) == fwd[p].seen[s] - Behind(s, p, nvlHead[p])

(* Every row in the queue is one for the peer, and those of its source     *)
(* that are ahead of it are the ones before it in the stream.              *)
QueuedInPlace(p) ==
  \A x \in nvlHead[p] .. nvlTail[p] - 1 :
    \E s \in Source : \E t \in For(s, p) :
      QueueOf(p)[x] = Row(s, t) /\ Place(s, p, t) + Behind(s, p, x) = fwd[p].seen[s]

(* What a peer has are the rows taken from its queue, each once. *)
OutEntry(s, p, t) == <<Base(s, p) + run.prior + Place(s, p, t), Row(s, t)>>
OutInPlace(p) ==
  /\ \A e \in out[p] : \E s \in Source : \E t \in For(s, p) :
       e = OutEntry(s, p, t) /\ Place(s, p, t) < Taken(s, p)
  /\ IsFiniteSet(out[p]) /\ Cardinality(out[p]) = nvlHead[p]

RowsFor(G, p) == UNION {{Row(s, t) : t \in For(s, p)} : s \in G}

(* A receiver takes nothing before it has the offsets of all; from then on *)
(* it knows for each source where its next row is to go.                   *)
ReceiverInPlace(p) ==
  /\ rcv[p].left = Cardinality(RowsFor(rcv[p].got, p)) - nvlHead[p]
  /\ rcv[p].got # Source => nvlHead[p] = 0 /\ rcv[p].tail = 0
  /\ \A s \in Source :
       /\ s \notin rcv[p].got => Taken(s, p) = 0
       /\ s \in rcv[p].got => rcv[p].offset[s] = Base(s, p) + run.prior + Taken(s, p)

(* The queues hold rows, and every peer has an output. *)
QueueTyped ==
  /\ nvlRing \in [Peer -> [0 .. NvlRecv - 1 -> Rows]]
  /\ out = [p \in Peer |-> out[p]]

(* From the forwarder to the output, every row is in its place. *)
QueueInv ==
  /\ QueueTyped
  /\ \A p \in Peer : QueuedInPlace(p) /\ OutInPlace(p) /\ ReceiverInPlace(p)
-----------------------------------------------------------------------------
(* A tally is a number, and 0 over nothing. *)
LEMMA TallyType ==
  ASSUME NEW g, NEW s, NEW a \in Nat, NEW b \in Nat
  PROVE  /\ Tally(g, s, a, b) \in Nat /\ IsFiniteSet({y \in a .. b - 1 : g[y][1] = s})
         /\ b <= a => Tally(g, s, a, b) = 0
<1> DEFINE Y == {y \in a .. b - 1 : g[y][1] = s}
<1>1. IsFiniteSet(a .. b - 1)
  <2>1. a \in Int /\ b - 1 \in Int
    OBVIOUS
  <2> QED BY <2>1, FS_Interval
<1>2. IsFiniteSet(Y)
  <2>1. Y \in SUBSET (a .. b - 1)
    OBVIOUS
  <2> HIDE DEF Y
  <2> QED BY <1>1, <2>1, FS_Subset
<1>3. b <= a => Y = {}
  OBVIOUS
<1> HIDE DEF Y
<1>4. Cardinality(Y) \in Nat /\ (b <= a => Cardinality(Y) = 0)
  BY <1>2, <1>3, FS_CardinalityType, FS_EmptySet
<1> QED BY <1>2, <1>4 DEF Tally, Y

(* Tallies add up. *)
LEMMA TallySplit ==
  ASSUME NEW g, NEW s, NEW a \in Nat, NEW b \in Nat, NEW c \in Nat, a <= b, b <= c
  PROVE  Tally(g, s, a, c) = Tally(g, s, a, b) + Tally(g, s, b, c)
<1> DEFINE X == {y \in a .. b - 1 : g[y][1] = s}
           Y == {y \in b .. c - 1 : g[y][1] = s}
           Z == {y \in a .. c - 1 : g[y][1] = s}
<1>1. IsFiniteSet(X) /\ IsFiniteSet(Y)
  <2>1. IsFiniteSet(a .. b - 1) /\ IsFiniteSet(b .. c - 1)
    <3>1. a \in Int /\ b - 1 \in Int /\ b \in Int /\ c - 1 \in Int
      OBVIOUS
    <3> QED BY <3>1, FS_Interval
  <2>2. X \in SUBSET (a .. b - 1) /\ Y \in SUBSET (b .. c - 1)
    OBVIOUS
  <2> HIDE DEF X, Y
  <2> QED BY <2>1, <2>2, FS_Subset
<1>2. \A y : /\ y \in a .. c - 1 <=> y \in a .. b - 1 \/ y \in b .. c - 1
             /\ ~(y \in a .. b - 1 /\ y \in b .. c - 1)
  OBVIOUS
<1>3. Z = X \cup Y /\ X \cap Y = {}
  BY <1>2, Zenon
<1>4. Tally(g, s, a, b) = Cardinality(X) /\ Tally(g, s, b, c) = Cardinality(Y) /\ Tally(g, s, a, c) = Cardinality(Z)
  BY DEF Tally
<1> HIDE DEF X, Y, Z
<1>5. Cardinality(X \cup Y) = Cardinality(X) + Cardinality(Y) - Cardinality(X \cap Y)
  BY <1>1, FS_Union
<1>6. Cardinality(X \cap Y) = 0 /\ Cardinality(X) \in Nat /\ Cardinality(Y) \in Nat
  BY <1>1, <1>3, FS_EmptySet, FS_CardinalityType
<1> QED BY <1>3, <1>4, <1>5, <1>6

(* A tally depends only on the rows it is over. *)
LEMMA TallySame ==
  ASSUME NEW g, NEW h, NEW s, NEW a, NEW b, \A y \in a .. b - 1 : g[y] = h[y]
  PROVE  Tally(g, s, a, b) = Tally(h, s, a, b)
<1>1. {y \in a .. b - 1 : g[y][1] = s} = {y \in a .. b - 1 : h[y][1] = s}
  BY Zenon
<1> QED BY <1>1 DEF Tally

(* Over rows of one source it is their number, or 0. *)
LEMMA TallyRun ==
  ASSUME NEW g, NEW s, NEW r, NEW a \in Nat, NEW b \in Nat, a <= b,
         \A y \in a .. b - 1 : g[y][1] = r
  PROVE  Tally(g, s, a, b) = IF s = r THEN b - a ELSE 0
<1>1. CASE s = r
  <2>1. {y \in a .. b - 1 : g[y][1] = s} = a .. b - 1
    BY <1>1, Zenon
  <2>2. Cardinality(a .. b - 1) = b - a
    <3>1. a \in Int /\ b - 1 \in Int /\ (a > b - 1 => b - a = 0) /\ (b - 1) - a + 1 = b - a
      OBVIOUS
    <3> QED BY <3>1, FS_Interval
  <2> QED BY <1>1, <2>1, <2>2 DEF Tally
<1>2. CASE s # r
  <2>1. {y \in a .. b - 1 : g[y][1] = s} = {}
    BY <1>2, Zenon
  <2> QED BY <1>2, <2>1, FS_EmptySet DEF Tally
<1> QED BY <1>1, <1>2

(* The order of the counters of a queue. *)
LEMMA QueueBounds ==
  ASSUME CountInv, NEW p \in Peer
  PROVE  /\ nvlHead[p] \in Nat /\ nvlTail[p] \in Nat /\ nvlHead[p] <= nvlTail[p]
         /\ nvlTail[p] <= nvlHead[p] + NvlRecv /\ nvlTail[p] = fwd[p].queued
         /\ nvlHead[p] = rcv[p].head /\ rcv[p].tail \in Nat
         /\ nvlHead[p] <= rcv[p].tail /\ rcv[p].tail <= nvlTail[p]
         /\ NvlRecv \in Nat \ {0} /\ NvlSend \in Nat \ {0} /\ NvlSend < NvlRecv
         /\ fwd[p].seen \in [Source -> Nat] /\ rcv[p].got \in SUBSET Source
         /\ rcv[p].left \in Int /\ rcv[p].offset \in [Source -> Int]
<1>1. nvlHead[p] \in Nat /\ nvlTail[p] \in Nat /\ ForwarderInTurn(p)
  BY DEF CountInv, CountTyped
<1>2. fwd[p] \in Forwarder /\ rcv[p] \in Receiver
  BY DEF CountInv, CountTyped
<1>3. rcv[p].tail \in Nat /\ fwd[p].seen \in [Source -> Nat] /\ rcv[p].got \in SUBSET Source
      /\ rcv[p].left \in Int /\ rcv[p].offset \in [Source -> Int]
  BY <1>2 DEF Forwarder, Receiver
<1>4. /\ nvlTail[p] = fwd[p].queued /\ nvlHead[p] = rcv[p].head /\ nvlHead[p] <= rcv[p].tail
      /\ rcv[p].tail <= nvlTail[p] /\ nvlTail[p] <= nvlHead[p] + NvlRecv
  BY <1>1 DEF ForwarderInTurn
<1>5. nvlHead[p] <= nvlTail[p]
  BY <1>1, <1>3, <1>4
<1> QED BY <1>1, <1>3, <1>4, <1>5, SizesAssumption, ConfigAssumption

(* The source and the token of a row. *)
LEMMA RowParts == \A s, t : Row(s, t)[1] = s /\ Row(s, t)[2] = t
BY DEF Row

(* What the forwarder's step does to the queue: the rows in it stay, and   *)
(* those of the chunk come behind them, in order.                          *)
LEMMA ForwardQueue ==
  ASSUME IInv, WireInv, CountInv, RingInv, SeenInv, QueueInv, NEW p \in Peer, Forward(p)
  PROVE  LET s == fwd[p].src IN
         /\ s \in Source /\ Cardinality(Chunk(p)) \in Nat
         /\ nvlTail' = [nvlTail EXCEPT ![p] = nvlTail[p] + Cardinality(Chunk(p))]
         /\ nvlRing' \in [Peer -> [0 .. NvlRecv - 1 -> Rows]]
         /\ \A q \in Peer : q # p => nvlRing'[q] = nvlRing[q]
         /\ \A y \in nvlHead[p] .. nvlTail[p] - 1 : QueueOf(p)'[y] = QueueOf(p)[y]
         /\ \A y \in nvlTail[p] .. nvlTail[p] + Cardinality(Chunk(p)) - 1 :
              \E t \in For(s, p) : /\ QueueOf(p)'[y] = Row(s, t)
                                   /\ Place(s, p, t) = fwd[p].seen[s] + (y - nvlTail[p])
<1>1. PICK s \in Source : s = fwd[p].src /\ fwd[p].busy
  BY ForwardStep, ChunkBounds
<1>2. PICK C \in SUBSET Nat, c \in Nat :
        /\ C = Chunk(p) /\ c = Cardinality(C) /\ IsFiniteSet(C) /\ c <= NvlSend
  <2>1. Chunk(p) = {i \in Numbers(s, p) : fwd[p].head[s] <= i /\ i < ChunkEnd(p)}
    BY <1>1, ForwardRows
  <2>2. Chunk(p) \in SUBSET Nat
    BY <2>1, NumbersType DEF IInv, WindowTyped
  <2>3. IsFiniteSet(Chunk(p)) /\ Cardinality(Chunk(p)) \in 0 .. NvlSend
    BY <1>1, ChunkBounds
  <2>4. Cardinality(Chunk(p)) \in Nat /\ Cardinality(Chunk(p)) <= NvlSend
    BY <2>3, SizesAssumption
  <2> QED BY <2>2, <2>3, <2>4
<1>3. PICK T \in Nat, H \in Nat :
        T = nvlTail[p] /\ T = fwd[p].queued /\ H = nvlHead[p] /\ H <= T /\ T + NvlSend <= H + NvlRecv
  <2>1. fwd[p].queued + NvlSend <= nvlHead[p] + NvlRecv
    BY <1>1 DEF CountInv, ForwarderInTurn
  <2> QED BY <2>1, QueueBounds
<1>4. NvlRecv \in Nat \ {0} /\ NvlSend \in Nat \ {0} /\ T + c <= H + NvlRecv
  BY <1>2, <1>3, SizesAssumption
<1>5. /\ \A i \in C : /\ TokenAt(s, i) \in For(s, p)
                      /\ ring[s][RdmaSlot(i)] = Row(s, TokenAt(s, i))
                      /\ Place(s, p, TokenAt(s, i)) = fwd[p].seen[s] + Below(C, i)
  BY <1>1, <1>2, ChunkPlaces
<1>6. C \in SUBSET Nat
  OBVIOUS
<1>7. /\ \A i \in C : Below(C, i) \in 0 .. c - 1
      /\ \A i, j \in C : Below(C, i) = Below(C, j) => i = j
      /\ \A k \in 0 .. c - 1 : \E i \in C : Below(C, i) = k
  <2>1. \A i \in C : Below(C, i) \in 0 .. Cardinality(C) /\ Below(C, i) < Cardinality(C)
    BY <1>2, <1>6, BelowType, BelowOrders
  <2>2. \A i \in C : Below(C, i) \in 0 .. c - 1
    BY <1>2, <2>1
  <2>3. \A i, j \in C : Below(C, i) = Below(C, j) => i = j
    BY <1>2, <1>6, BelowOrders
  <2>4. \A k \in 0 .. c - 1 : \E i \in C : Below(C, i) = k
    BY <1>2, <1>6, BelowOnto
  <2> QED BY <2>2, <2>3, <2>4
<1> DEFINE Hits(x) == \E i \in Chunk(p) : NvlSlot(fwd[p].queued + Below(Chunk(p), i)) = x
           pick(x) == CHOOSE i \in Chunk(p) : NvlSlot(fwd[p].queued + Below(Chunk(p), i)) = x
<1>a. nvlRing' = [nvlRing EXCEPT ![p] =
                    [x \in DOMAIN @ |-> IF Hits(x) THEN ring[fwd[p].src][RdmaSlot(pick(x))] ELSE @[x]]]
  BY ForwardStep, Zenon
<1>9. \A x : Hits(x) => pick(x) \in C /\ NvlSlot(T + Below(C, pick(x))) = x
  <2>1. \A x : Hits(x) => pick(x) \in Chunk(p) /\ NvlSlot(fwd[p].queued + Below(Chunk(p), pick(x))) = x
    BY Zenon
  <2> HIDE DEF Hits, pick
  <2> QED BY <1>2, <1>3, <2>1
<1>b. \A x : Hits(x) <=> \E i \in C : NvlSlot(T + Below(C, i)) = x
  BY <1>2, <1>3
<1> HIDE DEF Hits, pick
<1>8. nvlRing' = [nvlRing EXCEPT ![p] =
                    [x \in DOMAIN @ |-> IF Hits(x) THEN ring[s][RdmaSlot(pick(x))] ELSE @[x]]]
  BY <1>1, <1>a
<1>10. /\ nvlRing' \in [Peer -> [0 .. NvlRecv - 1 -> Rows]]
       /\ \A q \in Peer : q # p => nvlRing'[q] = nvlRing[q]
       /\ \A x \in 0 .. NvlRecv - 1 :
            nvlRing'[p][x] = IF Hits(x) THEN ring[s][RdmaSlot(pick(x))] ELSE nvlRing[p][x]
  <2>1. nvlRing \in [Peer -> [0 .. NvlRecv - 1 -> Rows]]
    BY DEF QueueInv, QueueTyped
  <2>2. \A x : Hits(x) => ring[s][RdmaSlot(pick(x))] \in Rows
    <3> SUFFICES ASSUME NEW x, Hits(x) PROVE ring[s][RdmaSlot(pick(x))] \in Rows
      OBVIOUS
    <3>1. pick(x) \in C /\ pick(x) \in Nat
      BY <1>6, <1>9
    <3>2. RdmaSlot(pick(x)) \in 0 .. RdmaRecv - 1
      BY <3>1, RingSlotType, SizesAssumption DEF RdmaSlot
    <3> QED BY <3>2 DEF RingInv, RowsTyped
  <2>3. PICK R \in [0 .. NvlRecv - 1 -> Rows] :
          R = [x \in 0 .. NvlRecv - 1 |-> IF Hits(x) THEN ring[s][RdmaSlot(pick(x))] ELSE nvlRing[p][x]]
    BY <2>1, <2>2
  <2>4. nvlRing' = [nvlRing EXCEPT ![p] = R]
    BY <1>8, <2>1, <2>3
  <2>5. \A x \in 0 .. NvlRecv - 1 :
          R[x] = IF Hits(x) THEN ring[s][RdmaSlot(pick(x))] ELSE nvlRing[p][x]
    BY <2>3
  <2>6. nvlRing'[p] = R
    BY <2>1, <2>4
  <2>7. nvlRing' \in [Peer -> [0 .. NvlRecv - 1 -> Rows]] /\ \A q \in Peer : q # p => nvlRing'[q] = nvlRing[q]
    BY <2>1, <2>4
  <2> QED BY <2>5, <2>6, <2>7
<1>11. \A y \in Nat : /\ NvlSlot(y) \in 0 .. NvlRecv - 1
                      /\ QueueOf(p)[y] = nvlRing[p][NvlSlot(y)]
                      /\ QueueOf(p)'[y] = nvlRing'[p][NvlSlot(y)]
  <2>1. \A y \in Nat : NvlSlot(y) \in 0 .. NvlRecv - 1
    BY <1>4, RingSlotType DEF NvlSlot
  <2>2. \A y \in Nat : QueueOf(p)[y] = nvlRing[p][NvlSlot(y)]
    BY DEF QueueOf
  <2>3. \A y \in Nat : QueueOf(p)'[y] = nvlRing'[p][NvlSlot(y)]
    BY DEF QueueOf, NvlSlot
  <2> QED BY <2>1, <2>2, <2>3
<1>12. \A y \in H .. T - 1 : QueueOf(p)'[y] = QueueOf(p)[y]
  <2> SUFFICES ASSUME NEW y \in H .. T - 1 PROVE QueueOf(p)'[y] = QueueOf(p)[y]
    OBVIOUS
  <2>1. y \in Nat
    OBVIOUS
  <2>2. ASSUME NEW i \in C PROVE NvlSlot(T + Below(C, i)) # NvlSlot(y)
    <3>1. PICK k \in 0 .. c - 1 : k = Below(C, i)
      BY <1>7
    <3>2. H <= y /\ H <= T + k /\ y < H + NvlRecv /\ T + k < H + NvlRecv /\ y # T + k /\ T + k \in Nat
      BY <1>3, <1>4
    <3> QED BY <1>4, <2>1, <3>1, <3>2, RingSlotsApart DEF NvlSlot
  <2>3. ~Hits(NvlSlot(y))
    BY <1>b, <2>2
  <2> QED BY <1>10, <1>11, <2>1, <2>3
<1>13. \A y \in T .. T + c - 1 :
         \E t \in For(s, p) : /\ QueueOf(p)'[y] = Row(s, t)
                              /\ Place(s, p, t) = fwd[p].seen[s] + (y - T)
  <2> SUFFICES ASSUME NEW y \in T .. T + c - 1
               PROVE  \E t \in For(s, p) : /\ QueueOf(p)'[y] = Row(s, t)
                                           /\ Place(s, p, t) = fwd[p].seen[s] + (y - T)
    OBVIOUS
  <2>1. y \in Nat /\ y - T \in 0 .. c - 1 /\ T + (y - T) = y
    OBVIOUS
  <2>2. PICK i \in C : Below(C, i) = y - T
    BY <1>7, <2>1
  <2>3. Hits(NvlSlot(y))
    BY <1>b, <2>1, <2>2
  <2>4. PICK j \in C : j = pick(NvlSlot(y)) /\ NvlSlot(T + Below(C, j)) = NvlSlot(y)
    BY <1>9, <2>3
  <2>5. PICK k \in 0 .. c - 1 : k = Below(C, j)
    BY <1>7
  <2>6. T + k = y
    <3>1. H <= y /\ H <= T + k /\ y < H + NvlRecv /\ T + k < H + NvlRecv /\ T + k \in Nat
      BY <1>3, <1>4
    <3> QED BY <1>4, <2>1, <2>4, <2>5, <3>1, RingSlotsApart DEF NvlSlot
  <2>7. k = y - T
    BY <2>6
  <2>8. QueueOf(p)'[y] = ring[s][RdmaSlot(j)]
    BY <1>10, <1>11, <2>1, <2>3, <2>4
  <2> QED BY <1>5, <2>4, <2>5, <2>7, <2>8
<1>14. nvlTail' = [nvlTail EXCEPT ![p] = T + c]
  BY <1>2, <1>3, ForwardStep
<1> QED BY <1>1, <1>2, <1>3, <1>10, <1>12, <1>13, <1>14
-----------------------------------------------------------------------------
(* Entries and bases stay while a run lasts. *)
LEMMA PlacesKept ==
  ASSUME run' = run
  PROVE  /\ \A s, p, t : OutEntry(s, p, t)' = OutEntry(s, p, t)
         /\ \A G, p : RowsFor(G, p)' = RowsFor(G, p)
         /\ \A s, p : Base(s, p)' = Base(s, p)
<1>1. \A s, p : Base(s, p)' = Base(s, p)
  BY RunKept DEF Base
<1>2. \A G, p : RowsFor(G, p)' = RowsFor(G, p)
  BY RunKept DEF RowsFor, Row
<1> QED BY <1>1, <1>2, StreamKept DEF OutEntry, Row

(* QueuedInPlace of the next state, from the places of this one. *)
LEMMA QueuedThen ==
  ASSUME NEW p \in Peer, run' = run,
         \A x \in nvlHead'[p] .. nvlTail'[p] - 1 : \E s \in Source : \E t \in For(s, p) :
           QueueOf(p)'[x] = Row(s, t) /\ Place(s, p, t) + Behind(s, p, x)' = fwd'[p].seen[s]
  PROVE  QueuedInPlace(p)'
<1>1. \A s : For(s, p)' = For(s, p) /\ \A t : Place(s, p, t)' = Place(s, p, t) /\ Row(s, t)' = Row(s, t)
  BY RunKept, StreamKept DEF Row
<1>2. \A x \in nvlHead'[p] .. nvlTail'[p] - 1 : \E s \in Source : \E t \in For(s, p)' :
           QueueOf(p)'[x] = Row(s, t)' /\ Place(s, p, t)' + Behind(s, p, x)' = fwd'[p].seen[s]
  <2> SUFFICES ASSUME NEW x \in nvlHead'[p] .. nvlTail'[p] - 1
               PROVE  \E s \in Source : \E t \in For(s, p)' :
                        QueueOf(p)'[x] = Row(s, t)' /\ Place(s, p, t)' + Behind(s, p, x)' = fwd'[p].seen[s]
    OBVIOUS
  <2>1. PICK s \in Source : \E t \in For(s, p) :
          QueueOf(p)'[x] = Row(s, t) /\ Place(s, p, t) + Behind(s, p, x)' = fwd'[p].seen[s]
    OBVIOUS
  <2>2. PICK t \in For(s, p) :
          QueueOf(p)'[x] = Row(s, t) /\ Place(s, p, t) + Behind(s, p, x)' = fwd'[p].seen[s]
    BY <2>1
  <2>3. t \in For(s, p)' /\ Place(s, p, t)' = Place(s, p, t) /\ Row(s, t)' = Row(s, t)
    BY <1>1, <2>2
  <2>4. QueueOf(p)'[x] = Row(s, t)' /\ Place(s, p, t)' + Behind(s, p, x)' = fwd'[p].seen[s]
    BY <2>2, <2>3
  <2> QED BY <2>3, <2>4
<1> QED BY <1>2, Zenon DEF QueuedInPlace

(* A peer whose queue and rows stay as they are. *)
LEMMA RowsStay ==
  ASSUME NEW p \in Peer, run' = run, QueuedInPlace(p), OutInPlace(p),
         nvlRing'[p] = nvlRing[p], nvlTail'[p] = nvlTail[p], nvlHead'[p] = nvlHead[p],
         out'[p] = out[p], fwd'[p].seen = fwd[p].seen
  PROVE  QueuedInPlace(p)' /\ OutInPlace(p)' /\ \A s : Taken(s, p)' = Taken(s, p)
<1>1. QueueOf(p)' = QueueOf(p)
  BY DEF QueueOf, NvlSlot
<1>2. \A s, x : Behind(s, p, x)' = Behind(s, p, x)
  BY <1>1 DEF Behind, Tally
<1>3. \A s : Taken(s, p)' = Taken(s, p)
  BY <1>2 DEF Taken
<1>4. QueuedInPlace(p)'
  <2>1. \A x \in nvlHead[p] .. nvlTail[p] - 1 : \E s \in Source : \E t \in For(s, p) :
          QueueOf(p)'[x] = Row(s, t) /\ Place(s, p, t) + Behind(s, p, x)' = fwd'[p].seen[s]
    BY <1>1, <1>2 DEF QueuedInPlace
  <2> QED BY <2>1, QueuedThen
<1>5. OutInPlace(p)'
  BY <1>3, RunKept, StreamKept, PlacesKept DEF OutInPlace
<1> QED BY <1>3, <1>4, <1>5

(* A peer whose queue, receiver and rows stay as they are. *)
LEMMA PeerKept ==
  ASSUME NEW p \in Peer, run' = run,
         QueuedInPlace(p), OutInPlace(p), ReceiverInPlace(p),
         nvlRing'[p] = nvlRing[p], nvlTail'[p] = nvlTail[p], nvlHead'[p] = nvlHead[p],
         rcv'[p] = rcv[p], out'[p] = out[p], fwd'[p].seen = fwd[p].seen
  PROVE  QueuedInPlace(p)' /\ OutInPlace(p)' /\ ReceiverInPlace(p)'
<1>1. QueuedInPlace(p)' /\ OutInPlace(p)' /\ \A s : Taken(s, p)' = Taken(s, p)
  BY RowsStay
<1>2. ReceiverInPlace(p)'
  BY <1>1, PlacesKept DEF ReceiverInPlace
<1> QED BY <1>1, <1>2

(* Steps that leave queues and receivers alone. *)
LEMMA QueueOthers ==
  ASSUME QueueInv, run' = run, UNCHANGED <<nvlRing, nvlTail, nvlHead, rcv, out>>,
         \A p \in Peer : fwd'[p].seen = fwd[p].seen
  PROVE  QueueInv'
<1>1. QueueTyped'
  BY RowsKept DEF QueueInv, QueueTyped
<1>2. \A p \in Peer : QueuedInPlace(p)' /\ OutInPlace(p)' /\ ReceiverInPlace(p)'
  BY PeerKept DEF QueueInv
<1> QED BY <1>1, <1>2 DEF QueueInv

(* Queues, receivers and outputs start empty. *)
LEMMA InitQueue == Init => QueueInv
<1> SUFFICES ASSUME Init PROVE QueueInv
  OBVIOUS
<1>1. QueueTyped
  BY DEF Init, QueueTyped, Rows
<1>2. ASSUME NEW p \in Peer PROVE QueuedInPlace(p) /\ OutInPlace(p) /\ ReceiverInPlace(p)
  <2>1. nvlHead[p] = 0 /\ nvlTail[p] = 0 /\ out[p] = {} /\ rcv[p].got = {} /\ rcv[p].left = 0 /\ rcv[p].tail = 0
    BY DEF Init
  <2>2. \A s \in Source : Taken(s, p) = 0
    <3> SUFFICES ASSUME NEW s \in Source PROVE Taken(s, p) = 0
      OBVIOUS
    <3>1. fwd[p].seen[s] = 0
      BY DEF Init
    <3>2. Behind(s, p, 0) = 0
      BY <2>1, TallyType DEF Behind
    <3> QED BY <2>1, <3>1, <3>2 DEF Taken
  <2>3. RowsFor({}, p) = {}
    BY DEF RowsFor
  <2>4. QueuedInPlace(p)
    BY <2>1 DEF QueuedInPlace
  <2>5. OutInPlace(p)
    BY <2>1, FS_EmptySet DEF OutInPlace
  <2>6. ReceiverInPlace(p)
    <3>1. Cardinality(RowsFor({}, p)) = 0
      BY <2>3, FS_EmptySet
    <3> QED BY <2>1, <2>2, <3>1 DEF ReceiverInPlace
  <2> QED BY <2>4, <2>5, <2>6
<1> QED BY <1>1, <1>2 DEF QueueInv

(* How the forwarder's step moves what it has seen and what is in the      *)
(* queue: both grow by the chunk for its source, so nothing is taken.      *)
LEMMA ForwardTallies ==
  ASSUME IInv, WireInv, CountInv, RingInv, SeenInv, QueueInv, NEW p \in Peer, Forward(p)
  PROVE  LET s == fwd[p].src
             c == Cardinality(Chunk(p))
         IN  /\ \A q \in Peer : q # p => fwd'[q] = fwd[q]
             /\ \A r \in Source : fwd'[p].seen[r] = IF r = s THEN fwd[p].seen[s] + c ELSE fwd[p].seen[r]
             /\ \A r \in Source, x \in nvlHead[p] .. nvlTail[p] :
                  /\ Behind(r, p, x) \in Nat
                  /\ Behind(r, p, x)' = Behind(r, p, x) + (IF r = s THEN c ELSE 0)
             /\ \A r \in Source : Taken(r, p)' = Taken(r, p)
<1>1. UNCHANGED <<run, nvlHead, rcv, out>>
  BY ForwardStep
<1>2. PICK s \in Source, c \in Nat : s = fwd[p].src /\ c = Cardinality(Chunk(p))
  BY ForwardQueue
<1>3. PICK H \in Nat, T \in Nat : H = nvlHead[p] /\ T = nvlTail[p] /\ H <= T
  BY QueueBounds
<1> DEFINE g == QueueOf(p)
           h == QueueOf(p)'
<1>4. /\ nvlTail' = [nvlTail EXCEPT ![p] = T + c]
      /\ nvlRing' \in [Peer -> [0 .. NvlRecv - 1 -> Rows]]
      /\ \A q \in Peer : q # p => nvlRing'[q] = nvlRing[q]
      /\ \A y \in H .. T - 1 : h[y] = g[y]
      /\ \A y \in T .. T + c - 1 :
           \E t \in For(s, p) : h[y] = Row(s, t) /\ Place(s, p, t) = fwd[p].seen[s] + (y - T)
  BY <1>2, <1>3, ForwardQueue
<1>5. /\ \A q \in Peer : q # p => fwd'[q] = fwd[q]
      /\ \A r \in Source : fwd'[p].seen[r] = IF r = s THEN fwd[p].seen[s] + c ELSE fwd[p].seen[r]
  <2>1. PICK f \in Forwarder :
          /\ fwd' = [fwd EXCEPT ![p] = f]
          /\ AfterChunk(fwd[p], fwd[p].src, ChunkEnd(p),
                        fwd[p].left[fwd[p].src] - (ChunkEnd(p) - fwd[p].head[fwd[p].src]),
                        fwd[p].seen[fwd[p].src] + Cardinality(Chunk(p)),
                        fwd[p].queued + Cardinality(Chunk(p)), f)
    BY ForwardCount
  <2>2. f.seen = [fwd[p].seen EXCEPT ![s] = fwd[p].seen[s] + c]
    BY <1>2, <2>1 DEF AfterChunk
  <2>3. fwd \in [Peer -> Forwarder] /\ fwd[p].seen \in [Source -> Nat]
    BY QueueBounds DEF CountInv, CountTyped
  <2> QED BY <2>1, <2>2, <2>3
<1>6. /\ nvlTail'[p] = T + c /\ \A q \in Peer : q # p => nvlTail'[q] = nvlTail[q]
      /\ fwd[p].seen \in [Source -> Nat]
  BY <1>4, QueueBounds DEF CountInv, CountTyped
<1>7. ASSUME NEW r \in Source, NEW x \in H .. T
      PROVE  /\ Behind(r, p, x) \in Nat
             /\ Behind(r, p, x)' = Behind(r, p, x) + (IF r = s THEN c ELSE 0)
  <2>1. x \in Nat /\ x <= T /\ T <= T + c /\ T + c \in Nat /\ (T + c) - T = c
    OBVIOUS
  <2>2. Behind(r, p, x) = Tally(g, r, x, T) /\ Behind(r, p, x)' = Tally(h, r, x, T + c)
    BY <1>3, <1>6 DEF Behind, Tally
  <2> HIDE DEF g, h
  <2>3. \A y \in x .. T - 1 : h[y] = g[y]
    BY <1>4
  <2>4. Tally(h, r, x, T) = Tally(g, r, x, T)
    BY <2>3, TallySame
  <2>5. \A y \in T .. T + c - 1 : h[y][1] = s
    BY <1>4, RowParts
  <2>6. Tally(h, r, T, T + c) = IF r = s THEN c ELSE 0
    <3>2. PICK e \in Nat : e = T + c
      BY <2>1
    <3>3. T <= e /\ \A y \in T .. e - 1 : h[y][1] = s
      BY <2>1, <2>5, <3>2
    <3>1. Tally(h, r, T, e) = IF r = s THEN e - T ELSE 0
      BY <3>3, TallyRun, ZenonT(30)
    <3> QED BY <2>1, <3>1, <3>2
  <2>7. Tally(h, r, x, T + c) = Tally(h, r, x, T) + Tally(h, r, T, T + c)
    BY <2>1, TallySplit
  <2>8. Tally(g, r, x, T) \in Nat
    BY <2>1, TallyType
  <2> QED BY <2>2, <2>4, <2>6, <2>7, <2>8
<1>8. \A r \in Source : Taken(r, p)' = Taken(r, p)
  <2> SUFFICES ASSUME NEW r \in Source PROVE Taken(r, p)' = Taken(r, p)
    OBVIOUS
  <2>1. PICK b \in Nat, n \in Nat, d \in Nat :
          b = Behind(r, p, H) /\ n = fwd[p].seen[r] /\ d = (IF r = s THEN c ELSE 0)
    BY <1>3, <1>6, <1>7
  <2>2. Behind(r, p, H)' = b + d
    BY <1>3, <1>7, <2>1
  <2>3. fwd'[p].seen[r] = n + d
    BY <1>5, <2>1
  <2>4. Taken(r, p) = n - b
    BY <1>3, <2>1 DEF Taken
  <2>5. Taken(r, p)' = fwd'[p].seen[r] - Behind(r, p, H)'
    BY <1>1, <1>3 DEF Taken, Behind
  <2> QED BY <2>2, <2>3, <2>4, <2>5
<1> HIDE DEF g, h
<1> QED BY <1>2, <1>3, <1>5, <1>7, <1>8

(* Forwarding puts rows behind those in the queue and takes none. *)
LEMMA ForwardKeepsQueue ==
  ASSUME IInv, WireInv, CountInv, RingInv, SeenInv, QueueInv, NEW p \in Peer, Forward(p)
  PROVE  QueueInv'
<1>1. UNCHANGED <<run, nvlHead, rcv, out>>
  BY ForwardStep
<1>2. PICK s \in Source, c \in Nat : s = fwd[p].src /\ c = Cardinality(Chunk(p))
  BY ForwardQueue
<1>3. PICK H \in Nat, T \in Nat : H = nvlHead[p] /\ T = nvlTail[p] /\ H <= T
  BY QueueBounds
<1> DEFINE g == QueueOf(p)
           h == QueueOf(p)'
<1>4. /\ nvlTail' = [nvlTail EXCEPT ![p] = T + c]
      /\ nvlRing' \in [Peer -> [0 .. NvlRecv - 1 -> Rows]]
      /\ \A q \in Peer : q # p => nvlRing'[q] = nvlRing[q]
      /\ \A y \in H .. T - 1 : h[y] = g[y]
      /\ \A y \in T .. T + c - 1 :
           \E t \in For(s, p) : h[y] = Row(s, t) /\ Place(s, p, t) = fwd[p].seen[s] + (y - T)
  BY <1>2, <1>3, ForwardQueue
<1>5. /\ \A q \in Peer : q # p => fwd'[q] = fwd[q]
      /\ \A r \in Source : fwd'[p].seen[r] = IF r = s THEN fwd[p].seen[s] + c ELSE fwd[p].seen[r]
  BY <1>2, ForwardTallies
<1>6. /\ nvlTail'[p] = T + c /\ \A q \in Peer : q # p => nvlTail'[q] = nvlTail[q]
      /\ fwd[p].seen \in [Source -> Nat]
  BY <1>4, QueueBounds DEF CountInv, CountTyped
<1>7. ASSUME NEW r \in Source, NEW x \in H .. T
      PROVE  /\ Behind(r, p, x) \in Nat
             /\ Behind(r, p, x)' = Behind(r, p, x) + (IF r = s THEN c ELSE 0)
  BY <1>2, <1>3, ForwardTallies
<1>8. \A r \in Source : Taken(r, p)' = Taken(r, p)
  BY ForwardTallies
<1>9. QueuedInPlace(p)'
  <2> SUFFICES ASSUME NEW x \in H .. T + c - 1
               PROVE  \E r \in Source : \E t \in For(r, p) :
                        h[x] = Row(r, t) /\ Place(r, p, t) + Behind(r, p, x)' = fwd'[p].seen[r]
    <3>1. nvlHead'[p] = H
      BY <1>1, <1>3
    <3>2. nvlTail'[p] - 1 = T + c - 1
      BY <1>6
    <3> QED BY <1>1, <3>1, <3>2, QueuedThen
  <2>1. CASE x < T
    <3>1. x \in H .. T - 1 /\ x \in H .. T
      BY <2>1
    <3>2. PICK r \in Source :
            \E t \in For(r, p) : g[x] = Row(r, t) /\ Place(r, p, t) + Behind(r, p, x) = fwd[p].seen[r]
      BY <1>3, <3>1 DEF QueueInv, QueuedInPlace
    <3>6. PICK t \in For(r, p) : g[x] = Row(r, t) /\ Place(r, p, t) + Behind(r, p, x) = fwd[p].seen[r]
      BY <3>2
    <3>3. h[x] = Row(r, t)
      BY <1>4, <3>1, <3>6
    <3>4. Place(r, p, t) \in Nat
      BY FS_Subset, FS_CardinalityType, WordsType DEF Place, IInv, WindowTyped
    <3>5. Place(r, p, t) + Behind(r, p, x)' = fwd'[p].seen[r]
      <4>1. PICK d \in Nat, b \in Nat, k \in Nat, n \in Nat :
              /\ d = (IF r = s THEN c ELSE 0) /\ b = Behind(r, p, x) /\ k = Place(r, p, t)
              /\ n = fwd[p].seen[r]
        BY <1>6, <1>7, <3>1, <3>4
      <4>2. Behind(r, p, x)' = b + d
        BY <1>7, <3>1, <4>1
      <4>3. fwd'[p].seen[r] = n + d
        BY <1>5, <4>1
      <4>4. k + b = n
        BY <3>6, <4>1
      <4>5. k + (b + d) = n + d
        BY <4>4
      <4> QED BY <4>1, <4>2, <4>3, <4>5
    <3> QED BY <3>3, <3>5
  <2>2. CASE T <= x
    <3>1. x \in T .. T + c - 1 /\ x \in Nat /\ x <= T + c /\ T + c \in Nat
      BY <2>2
    <3>2. PICK t \in For(s, p) : h[x] = Row(s, t) /\ Place(s, p, t) = fwd[p].seen[s] + (x - T)
      BY <1>4, <3>1
    <3>3. Behind(s, p, x)' = Tally(h, s, x, T + c)
      BY <1>6 DEF Behind, Tally
    <3>4. \A y \in x .. T + c - 1 : h[y][1] = s
      <4>1. \A y \in x .. T + c - 1 : y \in T .. T + c - 1
        BY <3>1
      <4> HIDE DEF h
      <4> QED BY <1>4, <4>1, RowParts
    <3>5. Tally(h, s, x, T + c) = (T + c) - x
      <4> HIDE DEF h
      <4>1. PICK e \in Nat : e = T + c
        BY <3>1
      <4>3. x \in Nat /\ x <= e /\ \A y \in x .. e - 1 : h[y][1] = s
        BY <3>1, <3>4, <4>1
      <4>2. Tally(h, s, x, e) = IF s = s THEN e - x ELSE 0
        BY <4>3, TallyRun, ZenonT(30)
      <4> QED BY <4>1, <4>2
    <3>6. PICK n \in Nat : n = fwd[p].seen[s]
      BY <1>6
    <3>7. fwd'[p].seen[s] = n + c
      BY <1>5, <3>6
    <3>8. (n + (x - T)) + ((T + c) - x) = n + c
      BY <3>1
    <3> QED BY <3>2, <3>3, <3>5, <3>6, <3>7, <3>8
  <2> QED BY <2>1, <2>2
<1>10. OutInPlace(p)'
  <2>1. OutInPlace(p)
    BY DEF QueueInv
  <2> QED BY <1>1, <1>8, <2>1, RunKept, StreamKept, PlacesKept DEF OutInPlace
<1>11. ReceiverInPlace(p)'
  <2>1. ReceiverInPlace(p)
    BY DEF QueueInv
  <2> QED BY <1>1, <1>8, <2>1, PlacesKept DEF ReceiverInPlace
<1>12. ASSUME NEW q \in Peer, q # p
       PROVE  QueuedInPlace(q)' /\ OutInPlace(q)' /\ ReceiverInPlace(q)'
  <2>1. QueuedInPlace(q) /\ OutInPlace(q) /\ ReceiverInPlace(q)
    BY DEF QueueInv
  <2>2. nvlRing'[q] = nvlRing[q] /\ nvlTail'[q] = nvlTail[q] /\ fwd'[q].seen = fwd[q].seen
    BY <1>4, <1>5, <1>6, <1>12
  <2> QED BY <1>1, <2>1, <2>2, PeerKept
<1>13. QueueTyped'
  BY <1>1, <1>4, RowsKept DEF QueueInv, QueueTyped
<1> QED BY <1>9, <1>10, <1>11, <1>12, <1>13 DEF QueueInv
-----------------------------------------------------------------------------
(* The rows for a peer from some sources add up, source by source. *)
LEMMA RowsForType ==
  ASSUME run \in Runs, NEW p \in Peer, NEW G \in SUBSET Source
  PROVE  /\ IsFiniteSet(RowsFor(G, p)) /\ Cardinality(RowsFor(G, p)) \in Nat
         /\ \A s \in Source \ G : Cardinality(RowsFor(G \cup {s}, p))
                                    = Cardinality(RowsFor(G, p)) + Cardinality(For(s, p))
<1> DEFINE P(s) == {Row(s, t) : t \in For(s, p)}
           I == {P(s) : s \in G}
           f == [s \in G |-> P(s)]
<1>1. ASSUME NEW s \in Source PROVE IsFiniteSet(P(s)) /\ Cardinality(P(s)) = Cardinality(For(s, p))
  <2> DEFINE h == [t \in For(s, p) |-> Row(s, t)]
  <2>1. IsFiniteSet(For(s, p))
    BY WordsType
  <2>2. h \in [For(s, p) -> P(s)]
    OBVIOUS
  <2>3. \A x, y \in For(s, p) : h[x] = h[y] => x = y
    BY RowParts
  <2>4. \A t \in P(s) : \E x \in For(s, p) : h[x] = t
    OBVIOUS
  <2> HIDE DEF h, P
  <2> QED BY <2>1, <2>2, <2>3, <2>4, SameSize
<1>2. IsFiniteSet(G)
  <2>1. IsFiniteSet(Source)
    <3>1. 0 \in Int /\ NumRDMARanks - 1 \in Int
      BY SizesAssumption
    <3> QED BY <3>1, FS_Interval DEF Source
  <2> QED BY <2>1, FS_Subset
<1>3. f \in Surjection(G, I)
  <2> HIDE DEF P
  <2> QED BY DEF Surjection
<1>4. IsFiniteSet(I)
  <2> HIDE DEF f, I
  <2> QED BY <1>2, <1>3, FS_Surjection
<1>5. \A x \in I : IsFiniteSet(x)
  <2> HIDE DEF P
  <2> QED BY <1>1
<1>6. IsFiniteSet(UNION I)
  <2> HIDE DEF I
  <2> QED BY <1>4, <1>5, FS_UNION
<1>7. RowsFor(G, p) = UNION I
  BY DEF RowsFor
<1>8. ASSUME NEW s \in Source \ G
      PROVE  Cardinality(RowsFor(G \cup {s}, p)) = Cardinality(RowsFor(G, p)) + Cardinality(For(s, p))
  <2>1. RowsFor(G \cup {s}, p) = RowsFor(G, p) \cup P(s)
    <3> HIDE DEF P
    <3> QED BY DEF RowsFor, P
  <2>2. RowsFor(G, p) \cap P(s) = {}
    <3> SUFFICES ASSUME NEW r \in RowsFor(G, p), r \in P(s) PROVE FALSE
      OBVIOUS
    <3>1. PICK q \in G : \E t \in For(q, p) : r = Row(q, t)
      BY DEF RowsFor
    <3>2. r[1] = q /\ r[1] = s
      BY <3>1, RowParts
    <3> QED BY <3>2
  <2> HIDE DEF P, I
  <2>3. IsFiniteSet(P(s)) /\ Cardinality(P(s)) = Cardinality(For(s, p))
    BY <1>1
  <2>4. IsFiniteSet(RowsFor(G, p))
    BY <1>6, <1>7
  <2>5. Cardinality(RowsFor(G, p) \cup P(s))
          = Cardinality(RowsFor(G, p)) + Cardinality(P(s)) - Cardinality(RowsFor(G, p) \cap P(s))
    BY <2>3, <2>4, FS_Union
  <2>6. Cardinality(RowsFor(G, p) \cap P(s)) = 0
    BY <2>2, FS_EmptySet
  <2>7. Cardinality(RowsFor(G, p)) \in Nat /\ Cardinality(P(s)) \in Nat
    BY <2>3, <2>4, FS_CardinalityType
  <2>8. PICK a \in Nat, b \in Nat : a = Cardinality(RowsFor(G, p)) /\ b = Cardinality(P(s))
    BY <2>7
  <2>9. Cardinality(RowsFor(G, p) \cup P(s)) = a + b
    BY <2>5, <2>6, <2>8
  <2>10. Cardinality(RowsFor(G \cup {s}, p)) = a + b
    BY <2>1, <2>9, Zenon
  <2> QED BY <2>3, <2>8, <2>10
<1> HIDE DEF I
<1> QED BY <1>6, <1>7, <1>8, FS_CardinalityType

(* The offsets of a source come before any row is taken. *)
LEMMA ReadBoundsQueue ==
  ASSUME IInv, WireInv, CountInv, QueueInv, NEW p \in Peer, NEW s \in Source, ReadBounds(p, s)
  PROVE  QueueInv'
<1>1. UNCHANGED <<run, nvlRing, nvlTail, nvlHead, out, fwd>>
  BY DEF ReadBounds, nvlink, forwarder
<1>2. PICK g \in Receiver :
        /\ s \notin rcv[p].got
        /\ rcv' = [rcv EXCEPT ![p] = g]
        /\ AfterBounds(rcv[p], s, Base(s, p) + run.prior, rcv[p].left + Cardinality(For(s, p)), g)
  BY ReadBoundsCount
<1>3. rcv'[p] = g /\ \A q \in Peer : q # p => rcv'[q] = rcv[q]
  BY <1>2 DEF CountInv, CountTyped
<1>4. ReceiverInPlace(p) /\ QueuedInPlace(p) /\ OutInPlace(p)
  BY DEF QueueInv
<1>5. QueuedInPlace(p)' /\ OutInPlace(p)' /\ \A r : Taken(r, p)' = Taken(r, p)
  BY <1>1, <1>4, RowsStay
<1>6. PICK G \in SUBSET Source : G = rcv[p].got /\ s \notin G
  BY <1>2, QueueBounds
<1>7. /\ nvlHead[p] = 0 /\ rcv[p].tail = 0 /\ Taken(s, p) = 0
      /\ rcv[p].left = Cardinality(RowsFor(G, p)) - 0
  BY <1>4, <1>6 DEF ReceiverInPlace
<1>8. g.got = G \cup {s} /\ g.tail = 0 /\ g.left = Cardinality(RowsFor(G \cup {s}, p)) - nvlHead[p]
  <2>1. run \in Runs
    BY DEF IInv, WindowTyped
  <2>2. PICK a \in Nat, b \in Nat : a = Cardinality(RowsFor(G, p)) /\ b = Cardinality(For(s, p))
    BY <2>1, RowsForType, WordsType
  <2>3. Cardinality(RowsFor(G \cup {s}, p)) = a + b
    BY <1>6, <2>1, <2>2, RowsForType
  <2>4. rcv[p].left = a /\ g.left = rcv[p].left + b
    BY <1>2, <1>7, <2>2 DEF AfterBounds
  <2> QED BY <1>2, <1>6, <1>7, <2>3, <2>4 DEF AfterBounds
<1>9. ASSUME NEW r \in Source
      PROVE  /\ r \notin g.got => Taken(r, p) = 0
             /\ r \in g.got => g.offset[r] = Base(r, p) + run.prior + Taken(r, p)
  <2>1. /\ r \notin G => Taken(r, p) = 0
        /\ r \in G => rcv[p].offset[r] = Base(r, p) + run.prior + Taken(r, p)
    BY <1>4, <1>6 DEF ReceiverInPlace
  <2>2. g.offset[r] = IF r = s THEN Base(s, p) + run.prior ELSE rcv[p].offset[r]
    BY <1>2, QueueBounds DEF AfterBounds
  <2>3. Base(s, p) \in Nat /\ run.prior \in Nat
    BY BaseType, WordsType DEF IInv, WindowTyped
  <2>4. Base(s, p) + run.prior = Base(s, p) + run.prior + Taken(s, p)
    BY <1>7, <2>3
  <2> QED BY <1>8, <2>1, <2>2, <2>4
<1>10. ReceiverInPlace(p)'
  BY <1>1, <1>3, <1>5, <1>7, <1>8, <1>9, PlacesKept DEF ReceiverInPlace
<1>11. ASSUME NEW q \in Peer, q # p
       PROVE  QueuedInPlace(q)' /\ OutInPlace(q)' /\ ReceiverInPlace(q)'
  <2>1. QueuedInPlace(q) /\ OutInPlace(q) /\ ReceiverInPlace(q)
    BY DEF QueueInv
  <2> QED BY <1>1, <1>3, <1>11, <2>1, PeerKept
<1>12. QueueTyped'
  BY <1>1, RowsKept DEF QueueInv, QueueTyped
<1> QED BY <1>5, <1>10, <1>11, <1>12 DEF QueueInv

(* Seeing the tail takes no row. *)
LEMMA SeeTailQueue ==
  ASSUME IInv, WireInv, CountInv, QueueInv, NEW p \in Peer, SeeTail(p)
  PROVE  QueueInv'
<1>1. UNCHANGED <<run, nvlRing, nvlTail, nvlHead, out, fwd>> /\ rcv[p].got = Source
  BY DEF SeeTail, nvlink, forwarder
<1>2. PICK g \in Receiver : rcv' = [rcv EXCEPT ![p] = g] /\ AfterTail(rcv[p], nvlTail[p], g)
  BY SeeTailCount
<1>3. rcv'[p] = g /\ \A q \in Peer : q # p => rcv'[q] = rcv[q]
  BY <1>2 DEF CountInv, CountTyped
<1>4. ReceiverInPlace(p) /\ QueuedInPlace(p) /\ OutInPlace(p)
  BY DEF QueueInv
<1>5. QueuedInPlace(p)' /\ OutInPlace(p)' /\ \A r : Taken(r, p)' = Taken(r, p)
  BY <1>1, <1>4, RowsStay
<1>6. g.got = Source /\ g.left = rcv[p].left /\ g.offset = rcv[p].offset
  BY <1>1, <1>2 DEF AfterTail
<1>7. ReceiverInPlace(p)'
  BY <1>1, <1>3, <1>4, <1>5, <1>6, PlacesKept DEF ReceiverInPlace
<1>8. ASSUME NEW q \in Peer, q # p
       PROVE  QueuedInPlace(q)' /\ OutInPlace(q)' /\ ReceiverInPlace(q)'
  <2>1. QueuedInPlace(q) /\ OutInPlace(q) /\ ReceiverInPlace(q)
    BY DEF QueueInv
  <2> QED BY <1>1, <1>3, <1>8, <2>1, PeerKept
<1>9. QueueTyped'
  BY <1>1, RowsKept DEF QueueInv, QueueTyped
<1> QED BY <1>5, <1>7, <1>8, <1>9 DEF QueueInv

(* Where the row at i of the queue goes: behind those of its source that    *)
(* were taken and those that are ahead of it in the queue.                  *)
LEMMA BatchPlace ==
  ASSUME IInv, CountInv, QueueInv, NEW p \in Peer,
         NEW i \in Nat, nvlHead[p] <= i, i < nvlTail[p]
  PROVE  \E s \in Source : \E t \in For(s, p) :
           /\ QueueOf(p)[i] = Row(s, t)
           /\ Place(s, p, t) = Taken(s, p) + Tally(QueueOf(p), s, nvlHead[p], i)
<1>1. PICK H \in Nat, T \in Nat : H = nvlHead[p] /\ T = nvlTail[p] /\ H <= i /\ i < T /\ i <= T
  BY QueueBounds
<1>2. i \in H .. T - 1
  BY <1>1
<1>3. PICK s \in Source : \E t \in For(s, p) :
        QueueOf(p)[i] = Row(s, t) /\ Place(s, p, t) + Behind(s, p, i) = fwd[p].seen[s]
  BY <1>1, <1>2 DEF QueueInv, QueuedInPlace
<1>4. PICK t \in For(s, p) :
        QueueOf(p)[i] = Row(s, t) /\ Place(s, p, t) + Behind(s, p, i) = fwd[p].seen[s]
  BY <1>3
<1> DEFINE g == QueueOf(p)
<1> HIDE DEF g
<1>5. PICK a \in Nat, b \in Nat, c \in Nat :
        a = Tally(g, s, H, i) /\ b = Tally(g, s, i, T) /\ c = Tally(g, s, H, T)
  BY TallyType
<1>6. c = a + b
  BY <1>1, <1>5, TallySplit
<1>7. PICK n \in Nat, k \in Nat : n = fwd[p].seen[s] /\ k = Place(s, p, t)
  <2>1. Place(s, p, t) \in Nat
    BY FS_Subset, FS_CardinalityType, WordsType DEF Place, IInv, WindowTyped
  <2> QED BY <2>1, QueueBounds
<1>8. Behind(s, p, i) = b /\ Taken(s, p) = n - c
  BY <1>1, <1>5, <1>7 DEF Behind, Taken, g
<1>9. k + b = n
  BY <1>4, <1>7, <1>8
<1>10. k = (n - c) + a
  BY <1>6, <1>9
<1> QED BY <1>1, <1>4, <1>5, <1>7, <1>8, <1>10 DEF g

(* A row of the source makes the tally greater. *)
LEMMA TallyGrows ==
  ASSUME NEW g, NEW s, NEW a \in Nat, NEW i \in Nat, NEW b \in Nat, a <= i, i < b, g[i][1] = s
  PROVE  Tally(g, s, a, i) + 1 <= Tally(g, s, a, b)
<1>1. PICK e \in Nat : e = i + 1
  OBVIOUS
<1>2. i <= e /\ e <= b /\ a <= b /\ i <= b /\ e - i = 1
  BY <1>1
<1>3. i <= e /\ \A y \in i .. e - 1 : g[y][1] = s
  BY <1>1
<1>4. Tally(g, s, i, e) = IF s = s THEN e - i ELSE 0
  BY <1>3, TallyRun, ZenonT(60)
<1>5. PICK x \in Nat, y \in Nat, z \in Nat, n \in Nat :
        /\ x = Tally(g, s, a, i) /\ y = Tally(g, s, i, b) /\ z = Tally(g, s, e, b)
        /\ n = Tally(g, s, a, b)
  BY TallyType
<1>6. n = x + y
  BY <1>2, <1>5, TallySplit
<1>7. Tally(g, s, i, b) = Tally(g, s, i, e) + Tally(g, s, e, b)
  BY <1>2, TallySplit
<1>8. y = 1 + z
  BY <1>2, <1>4, <1>5, <1>7
<1> QED BY <1>5, <1>6, <1>8
-----------------------------------------------------------------------------
(* The place a receiver gives to the row at i of its queue. *)
Landing(p, i) ==
  <<rcv[p].offset[QueueOf(p)[i][1]] + Tally(QueueOf(p), QueueOf(p)[i][1], nvlHead[p], i),
    QueueOf(p)[i]>>

(* It is the place where the row is due, behind those already taken. *)
LEMMA LandingDue ==
  ASSUME IInv, CountInv, QueueInv, NEW p \in Peer, rcv[p].got = Source,
         NEW i \in Nat, nvlHead[p] <= i, i < nvlTail[p]
  PROVE  \E s \in Source : \E t \in For(s, p) :
           /\ QueueOf(p)[i] = Row(s, t) /\ Landing(p, i) = OutEntry(s, p, t)
           /\ Place(s, p, t) = Taken(s, p) + Tally(QueueOf(p), s, nvlHead[p], i)
           /\ Place(s, p, t) \in Nat /\ Taken(s, p) \in Int
           /\ Tally(QueueOf(p), s, nvlHead[p], i) \in Nat
<1>1. PICK s \in Source : \E t \in For(s, p) :
        /\ QueueOf(p)[i] = Row(s, t)
        /\ Place(s, p, t) = Taken(s, p) + Tally(QueueOf(p), s, nvlHead[p], i)
  BY BatchPlace
<1>2. PICK t \in For(s, p) :
        /\ QueueOf(p)[i] = Row(s, t)
        /\ Place(s, p, t) = Taken(s, p) + Tally(QueueOf(p), s, nvlHead[p], i)
  BY <1>1
<1>3. PICK a \in Nat : a = Tally(QueueOf(p), s, nvlHead[p], i)
  BY QueueBounds, TallyType
<1>4. PICK n \in Int : n = Taken(s, p)
  <2>1. fwd[p].seen[s] \in Nat /\ Behind(s, p, nvlHead[p]) \in Nat
    BY QueueBounds, TallyType DEF Behind
  <2> QED BY <2>1 DEF Taken
<1>5. PICK b \in Nat : b = Base(s, p) + run.prior
  BY BaseType, WordsType DEF IInv, WindowTyped
<1>6. rcv[p].offset[s] = b + n
  BY <1>4, <1>5 DEF QueueInv, ReceiverInPlace
<1>7. PICK k \in Nat : k = Place(s, p, t)
  BY FS_Subset, FS_CardinalityType, WordsType DEF Place, IInv, WindowTyped
<1>8. k = n + a
  BY <1>2, <1>3, <1>4, <1>7
<1>9. QueueOf(p)[i][1] = s
  BY <1>2, RowParts
<1>10. Landing(p, i) = <<(b + n) + a, Row(s, t)>>
  BY <1>2, <1>3, <1>6, <1>9 DEF Landing
<1>11. OutEntry(s, p, t) = <<b + k, Row(s, t)>>
  BY <1>5, <1>7 DEF OutEntry
<1>12. b + k = (b + n) + a
  BY <1>8
<1> QED BY <1>2, <1>3, <1>4, <1>7, <1>10, <1>11, <1>12

(* No row of a batch is one that was taken before, and no two are one. *)
LEMMA LandingsApart ==
  ASSUME IInv, CountInv, QueueInv, NEW p \in Peer, rcv[p].got = Source,
         NEW i \in Nat, nvlHead[p] <= i, i < nvlTail[p]
  PROVE  /\ Landing(p, i) \notin out[p]
         /\ \A j \in Nat : i < j /\ j < nvlTail[p] => Landing(p, i) # Landing(p, j)
<1>1. PICK s \in Source : \E t \in For(s, p) :
        /\ QueueOf(p)[i] = Row(s, t) /\ Landing(p, i) = OutEntry(s, p, t)
        /\ Place(s, p, t) = Taken(s, p) + Tally(QueueOf(p), s, nvlHead[p], i)
        /\ Place(s, p, t) \in Nat /\ Taken(s, p) \in Int
        /\ Tally(QueueOf(p), s, nvlHead[p], i) \in Nat
  BY LandingDue
<1>2. PICK t \in For(s, p) :
        /\ QueueOf(p)[i] = Row(s, t) /\ Landing(p, i) = OutEntry(s, p, t)
        /\ Place(s, p, t) = Taken(s, p) + Tally(QueueOf(p), s, nvlHead[p], i)
        /\ Place(s, p, t) \in Nat /\ Taken(s, p) \in Int
        /\ Tally(QueueOf(p), s, nvlHead[p], i) \in Nat
  BY <1>1
<1>3. Landing(p, i) \notin out[p]
  <2> SUFFICES ASSUME Landing(p, i) \in out[p] PROVE FALSE
    OBVIOUS
  <2>1. PICK r \in Source : \E u \in For(r, p) :
          Landing(p, i) = OutEntry(r, p, u) /\ Place(r, p, u) < Taken(r, p)
    BY DEF QueueInv, OutInPlace
  <2>2. PICK u \in For(r, p) : Landing(p, i) = OutEntry(r, p, u) /\ Place(r, p, u) < Taken(r, p)
    BY <2>1
  <2>3. Row(r, u) = Row(s, t)
    BY <1>2, <2>2 DEF OutEntry
  <2>4. r = s /\ u = t
    BY <2>3 DEF Row
  <2>5. Place(s, p, t) < Taken(s, p)
    BY <2>2, <2>4
  <2>6. ASSUME NEW k \in Nat, NEW n \in Int, NEW a \in Nat, k = n + a, k < n PROVE FALSE
    BY <2>6
  <2> QED BY <1>2, <2>5, <2>6
<1>4. ASSUME NEW j \in Nat, i < j, j < nvlTail[p], Landing(p, i) = Landing(p, j) PROVE FALSE
  <2>1. nvlHead[p] \in Nat /\ nvlHead[p] <= j
    BY <1>4, QueueBounds
  <2>2. PICK r \in Source : \E u \in For(r, p) :
          /\ QueueOf(p)[j] = Row(r, u)
          /\ Place(r, p, u) = Taken(r, p) + Tally(QueueOf(p), r, nvlHead[p], j)
    BY <1>4, <2>1, LandingDue
  <2>3. PICK u \in For(r, p) :
          /\ QueueOf(p)[j] = Row(r, u)
          /\ Place(r, p, u) = Taken(r, p) + Tally(QueueOf(p), r, nvlHead[p], j)
    BY <2>2
  <2>4. Row(r, u) = Row(s, t)
    BY <1>2, <1>4, <2>3 DEF Landing
  <2>5. r = s /\ u = t
    BY <2>4 DEF Row
  <2>6. PICK k \in Nat, n \in Int, a \in Nat, b \in Nat :
          /\ k = Place(s, p, t) /\ n = Taken(s, p) /\ a = Tally(QueueOf(p), s, nvlHead[p], i)
          /\ b = Tally(QueueOf(p), s, nvlHead[p], j)
    BY <1>2, <2>1, TallyType
  <2>7. QueueOf(p)[i][1] = s
    BY <1>2, RowParts
  <2>8. Tally(QueueOf(p), s, nvlHead[p], i) + 1 <= Tally(QueueOf(p), s, nvlHead[p], j)
    BY <1>4, <2>1, <2>7, TallyGrows
  <2>9. k = n + a /\ k = n + b /\ a + 1 <= b
    BY <1>2, <2>3, <2>5, <2>6, <2>8
  <2> QED BY <2>9
<1> QED BY <1>3, <1>4

(* No slot of a batch is empty, so each row is taken for what it says. *)
Sources(p) == [i \in Batch(p) |-> QueueRow(p, i)[1]]

LEMMA ReceiveReads ==
  ASSUME CountInv, QueueInv, NEW p \in Peer, Receive(p)
  PROVE  TakeBatch(p, Sources(p))
<1>1. PICK from \in [Batch(p) -> Source] :
        /\ \A i \in Batch(p) : QueueRow(p, i) # None => from[i] = QueueRow(p, i)[1]
        /\ TakeBatch(p, from)
  BY ReceiveTakesBatch
<1>2. ASSUME NEW i \in Batch(p) PROVE from[i] = QueueRow(p, i)[1]
  <2>1. PICK H \in Nat, E \in Nat, T \in Nat :
          H = nvlHead[p] /\ H = rcv[p].head /\ E = rcv[p].tail /\ T = nvlTail[p] /\ E <= T
    BY QueueBounds
  <2>2. i \in nvlHead[p] .. nvlTail[p] - 1
    BY <2>1 DEF Batch
  <2>3. PICK s \in Source : \E t \in For(s, p) : QueueOf(p)[i] = Row(s, t)
    BY <2>2 DEF QueueInv, QueuedInPlace
  <2>4. QueueRow(p, i) # None
    <3>1. i \in Nat
      BY <2>1, <2>2
    <3>2. QueueRow(p, i) = QueueOf(p)[i]
      BY <3>1 DEF QueueOf, QueueRow
    <3>3. \A r, t : Row(r, t) # None
      BY DEF Row, None
    <3> QED BY <2>3, <3>2, <3>3
  <2> QED BY <1>1, <2>4
<1>3. from = Sources(p)
  BY <1>2 DEF Sources
<1> QED BY <1>1, <1>3

(* What a receiver's step does, in terms of the queue. *)
LEMMA ReceiveStep ==
  ASSUME CountInv, QueueInv, NEW p \in Peer, Receive(p)
  PROVE  /\ UNCHANGED <<run, nvlRing, nvlTail, fwd>>
         /\ nvlHead' = [nvlHead EXCEPT ![p] = rcv[p].tail]
         /\ out' = [out EXCEPT ![p] = out[p] \cup
                      {Landing(p, i) : i \in nvlHead[p] .. rcv[p].tail - 1}]
         /\ \A s : Cardinality(FromThat(p, Sources(p), s)) =
                     Tally(QueueOf(p), s, nvlHead[p], rcv[p].tail)
<1>1. TakeBatch(p, Sources(p))
  BY ReceiveReads
<1>2. PICK H \in Nat, E \in Nat : H = nvlHead[p] /\ H = rcv[p].head /\ E = rcv[p].tail
  BY QueueBounds
<1>3. \A x \in H .. E - 1 : Sources(p)[x] = QueueOf(p)[x][1] /\ QueueRow(p, x) = QueueOf(p)[x]
  BY <1>2 DEF QueueOf, Sources, QueueRow, Batch
<1> DEFINE from == Sources(p)
           same(i) == {x \in H .. E - 1 : x < i /\ from[x] = from[i]}
           put(i) == <<rcv[p].offset[from[i]] + Cardinality(same(i)), QueueRow(p, i)>>
<1>4. out' = [out EXCEPT ![p] = out[p] \cup {put(i) : i \in H .. E - 1}]
  BY <1>1, <1>2 DEF TakeBatch, Batch
<1>5. ASSUME NEW i \in H .. E - 1 PROVE put(i) = Landing(p, i)
  <2> DEFINE source == QueueOf(p)[i][1]
  <2>1. \A x : x \in H .. E - 1 /\ x < i <=> x \in H .. i - 1
    OBVIOUS
  <2>2. same(i) = {x \in H .. i - 1 : QueueOf(p)[x][1] = source}
    BY <1>3, <2>1
  <2>3. Cardinality(same(i)) = Tally(QueueOf(p), source, H, i)
    BY <2>2 DEF Tally
  <2>4. QueueRow(p, i) = QueueOf(p)[i] /\ from[i] = source
    BY <1>3
  <2> HIDE DEF same, from
  <2> QED BY <1>2, <2>3, <2>4 DEF Landing
<1>6. {put(i) : i \in H .. E - 1} = {Landing(p, i) : i \in H .. E - 1}
  <2> HIDE DEF put
  <2> QED BY <1>5
<1>7. \A s : FromThat(p, from, s) = {x \in H .. E - 1 : QueueOf(p)[x][1] = s}
  BY <1>2, <1>3 DEF FromThat, Batch
<1>8. \A s : Cardinality(FromThat(p, from, s)) = Tally(QueueOf(p), s, H, E)
  BY <1>7 DEF Tally
<1>9. /\ UNCHANGED <<run, nvlRing, nvlTail, fwd>>
      /\ nvlHead' = [nvlHead EXCEPT ![p] = rcv[p].tail]
  BY <1>1 DEF TakeBatch, forwarder
<1> HIDE DEF put, from
<1> QED BY <1>2, <1>4, <1>6, <1>8, <1>9 DEF from
-----------------------------------------------------------------------------
(* That O holds E rows, each where it is due, once the queue is read up to E. *)
LandedUpTo(p, O, E) ==
  /\ IsFiniteSet(O) /\ Cardinality(O) = E
  /\ \A e \in O : \E s \in Source : \E t \in For(s, p) :
       /\ e = OutEntry(s, p, t)
       /\ Place(s, p, t) < Taken(s, p) + Tally(QueueOf(p), s, nvlHead[p], E)

(* The rows of a batch are added, each once, and each where it is due. *)
LEMMA ReceiveOut ==
  ASSUME IInv, CountInv, QueueInv, NEW p \in Peer, rcv[p].got = Source,
         NEW E \in Nat, nvlHead[p] <= E, E <= nvlTail[p],
         NEW O, O = out[p] \cup {Landing(p, i) : i \in nvlHead[p] .. E - 1}
  PROVE  LandedUpTo(p, O, E)
<1>1. PICK H \in Nat, T \in Nat : H = nvlHead[p] /\ T = nvlTail[p] /\ H <= E /\ E <= T
  BY QueueBounds
<1> DEFINE B == H .. E - 1
           N == {Landing(p, i) : i \in B}
           f == [i \in B |-> Landing(p, i)]
<1>2. /\ \A i \in B : i \in Nat /\ nvlHead[p] <= i /\ i < nvlTail[p] /\ i < E
      /\ IsFiniteSet(B) /\ Cardinality(B) = E - H
  <2>1. \A i \in B : i \in Nat /\ nvlHead[p] <= i /\ i < nvlTail[p] /\ i < E
    BY <1>1
  <2>2. H \in Int /\ E - 1 \in Int /\ (H > E - 1 => E - H = 0) /\ (E - 1) - H + 1 = E - H
    BY <1>1
  <2> QED BY <2>1, <2>2, FS_Interval
<1>3. IsFiniteSet(N) /\ Cardinality(N) = E - H
  <2>1. \A i, j \in B : Landing(p, i) = Landing(p, j) => i = j
    <3> SUFFICES ASSUME NEW i \in B, NEW j \in B, Landing(p, i) = Landing(p, j) PROVE i = j
      OBVIOUS
    <3>1. i \in Nat /\ j \in Nat /\ nvlHead[p] <= i /\ nvlHead[p] <= j /\ i < nvlTail[p] /\ j < nvlTail[p]
      BY <1>2
    <3>2. ~(i < j) /\ ~(j < i)
      BY <3>1, LandingsApart
    <3> QED BY <3>1, <3>2
  <2>2. f \in [B -> N] /\ \A x, y \in B : f[x] = f[y] => x = y
    BY <2>1
  <2>3. \A t \in N : \E x \in B : f[x] = t
    OBVIOUS
  <2> HIDE DEF f, B, N
  <2> QED BY <1>2, <2>2, <2>3, SameSize
<1>4. N \cap out[p] = {}
  <2>1. \A i \in B : Landing(p, i) \notin out[p]
    BY <1>2, LandingsApart
  <2> QED BY <2>1
<1>5. O = out[p] \cup N
  BY <1>1
<1>6. IsFiniteSet(O) /\ Cardinality(O) = E
  <2>1. IsFiniteSet(out[p]) /\ Cardinality(out[p]) = H
    BY <1>1 DEF QueueInv, OutInPlace
  <2> HIDE DEF N
  <2>2. IsFiniteSet(out[p] \cup N)
           /\ Cardinality(out[p] \cup N) = Cardinality(out[p]) + Cardinality(N) - Cardinality(out[p] \cap N)
    BY <1>3, <2>1, FS_Union
  <2>3. Cardinality(out[p] \cap N) = 0
    BY <1>4, FS_EmptySet
  <2>4. Cardinality(out[p] \cup N) = H + (E - H) - 0
    BY <1>3, <2>1, <2>2, <2>3
  <2>5. H + (E - H) - 0 = E
    OBVIOUS
  <2> QED BY <1>5, <2>2, <2>4, <2>5
<1>7. ASSUME NEW e \in out[p]
      PROVE  \E s \in Source : \E t \in For(s, p) :
              /\ e = OutEntry(s, p, t)
              /\ Place(s, p, t) < Taken(s, p) + Tally(QueueOf(p), s, nvlHead[p], E)
  <2>1. PICK s \in Source : \E t \in For(s, p) : e = OutEntry(s, p, t) /\ Place(s, p, t) < Taken(s, p)
    BY DEF QueueInv, OutInPlace
  <2>2. PICK t \in For(s, p) : e = OutEntry(s, p, t) /\ Place(s, p, t) < Taken(s, p)
    BY <2>1
  <2>3. PICK k \in Nat : k = Place(s, p, t)
    BY FS_Subset, FS_CardinalityType, WordsType DEF Place, IInv, WindowTyped
  <2>4. PICK a \in Nat, n \in Int : a = Tally(QueueOf(p), s, nvlHead[p], E) /\ n = Taken(s, p)
    <3>1. fwd[p].seen[s] \in Nat /\ Behind(s, p, nvlHead[p]) \in Nat
      BY QueueBounds, TallyType DEF Behind
    <3>2. Taken(s, p) \in Int
      BY <3>1 DEF Taken
    <3> QED BY <1>1, <3>2, TallyType
  <2>5. k < n + a
    BY <2>2, <2>3, <2>4
  <2> QED BY <2>2, <2>3, <2>4, <2>5
<1>8. ASSUME NEW i \in B
      PROVE  \E s \in Source : \E t \in For(s, p) :
              /\ Landing(p, i) = OutEntry(s, p, t)
              /\ Place(s, p, t) < Taken(s, p) + Tally(QueueOf(p), s, nvlHead[p], E)
  <2>0. i \in Nat /\ nvlHead[p] <= i /\ i < nvlTail[p] /\ i < E
    BY <1>2
  <2>1. PICK s \in Source : \E t \in For(s, p) :
           /\ QueueOf(p)[i] = Row(s, t) /\ Landing(p, i) = OutEntry(s, p, t)
           /\ Place(s, p, t) = Taken(s, p) + Tally(QueueOf(p), s, nvlHead[p], i)
           /\ Place(s, p, t) \in Nat /\ Taken(s, p) \in Int
           /\ Tally(QueueOf(p), s, nvlHead[p], i) \in Nat
    BY <2>0, LandingDue
  <2>2. PICK t \in For(s, p) :
           /\ QueueOf(p)[i] = Row(s, t) /\ Landing(p, i) = OutEntry(s, p, t)
           /\ Place(s, p, t) = Taken(s, p) + Tally(QueueOf(p), s, nvlHead[p], i)
           /\ Place(s, p, t) \in Nat /\ Taken(s, p) \in Int
           /\ Tally(QueueOf(p), s, nvlHead[p], i) \in Nat
    BY <2>1
  <2>3. QueueOf(p)[i][1] = s
    BY <2>2, RowParts
  <2>4. Tally(QueueOf(p), s, H, i) + 1 <= Tally(QueueOf(p), s, H, E)
    BY <1>1, <2>0, <2>3, TallyGrows
  <2>5. PICK k \in Nat, n \in Int, a \in Nat, b \in Nat :
          /\ k = Place(s, p, t) /\ n = Taken(s, p) /\ a = Tally(QueueOf(p), s, nvlHead[p], i)
          /\ b = Tally(QueueOf(p), s, nvlHead[p], E)
    BY <1>1, <2>2, TallyType
  <2>6. k = n + a /\ a + 1 <= b
    BY <1>1, <2>2, <2>4, <2>5
  <2>7. k < n + b
    BY <2>6
  <2> QED BY <2>2, <2>5, <2>7
<1> HIDE DEF B
<1> QED BY <1>5, <1>6, <1>7, <1>8 DEF LandedUpTo

(* OutInPlace of the next state, from the places of this one. *)
LEMMA OutThen ==
  ASSUME NEW p \in Peer, run' = run, NEW O, out'[p] = O,
         IsFiniteSet(O), Cardinality(O) = nvlHead'[p],
         \A e \in O : \E s \in Source : \E t \in For(s, p) :
           e = OutEntry(s, p, t) /\ Place(s, p, t) < Taken(s, p)'
  PROVE  OutInPlace(p)'
<1>1. ASSUME NEW e \in out'[p]
      PROVE  \E s \in Source : \E t \in For(s, p)' :
               e = OutEntry(s, p, t)' /\ Place(s, p, t)' < Taken(s, p)'
  <2>1. PICK s \in Source : \E t \in For(s, p) :
          e = OutEntry(s, p, t) /\ Place(s, p, t) < Taken(s, p)'
    OBVIOUS
  <2>2. PICK t \in For(s, p) : e = OutEntry(s, p, t) /\ Place(s, p, t) < Taken(s, p)'
    BY <2>1
  <2>3. For(s, p)' = For(s, p) /\ Place(s, p, t)' = Place(s, p, t)
        /\ OutEntry(s, p, t)' = OutEntry(s, p, t)
    <3>1. For(s, p)' = For(s, p)
      BY RunKept
    <3>2. Place(s, p, t)' = Place(s, p, t)
      BY StreamKept
    <3>3. OutEntry(s, p, t)' = OutEntry(s, p, t)
      BY PlacesKept
    <3> QED BY <3>1, <3>2, <3>3
  <2> QED BY <2>2, <2>3
<1> QED BY <1>1 DEF OutInPlace

(* A batch takes its tally of each source's rows. *)
LEMMA ReceiveTakes ==
  ASSUME IInv, WireInv, CountInv, QueueInv, NEW p \in Peer, Receive(p)
  PROVE  \A s \in Source :
           /\ Taken(s, p)' = Taken(s, p) + Tally(QueueOf(p), s, nvlHead[p], rcv[p].tail)
           /\ Taken(s, p) \in Int /\ Tally(QueueOf(p), s, nvlHead[p], rcv[p].tail) \in Nat
<1>1. UNCHANGED <<run, nvlRing, nvlTail, fwd>>
  BY ReceiveStep
<1>2. PICK H \in Nat, E \in Nat, T \in Nat :
        /\ H = nvlHead[p] /\ E = rcv[p].tail /\ T = nvlTail[p]
        /\ H <= E /\ E <= T /\ H <= T
  BY QueueBounds
<1>3. nvlHead'[p] = E
  BY <1>2, ReceiveStep DEF CountInv, CountTyped
<1>4. QueueOf(p)' = QueueOf(p)
  BY <1>1 DEF QueueOf, NvlSlot
<1>5. \A s, x : Behind(s, p, x)' = Behind(s, p, x)
  BY <1>1, <1>4 DEF Behind, Tally
<1>6. ASSUME NEW s \in Source
       PROVE  Taken(s, p)' = Taken(s, p) + Tally(QueueOf(p), s, H, E) /\ Taken(s, p) \in Int
  <2> DEFINE r == QueueOf(p)
  <2> HIDE DEF r
  <2>1. PICK a \in Nat, b \in Nat, c \in Nat :
          a = Tally(r, s, H, E) /\ b = Tally(r, s, E, T) /\ c = Tally(r, s, H, T)
    BY TallyType
  <2>2. c = a + b
    BY <1>2, <2>1, TallySplit
  <2>3. Behind(s, p, H) = c /\ Behind(s, p, E) = b
    BY <1>2, <2>1 DEF Behind, r
  <2>4. PICK n \in Nat : n = fwd[p].seen[s]
    BY QueueBounds
  <2>5. Taken(s, p) = n - c
    BY <1>2, <2>3, <2>4 DEF Taken
  <2>6. Taken(s, p)' = n - b
    <3>1. Taken(s, p)' = fwd[p].seen[s] - Behind(s, p, E)'
      BY <1>1, <1>3 DEF Taken, Behind
    <3> QED BY <1>5, <2>3, <2>4, <3>1
  <2>7. n - b = (n - c) + a
    BY <2>2
  <2> QED BY <2>1, <2>5, <2>6, <2>7 DEF r
<1>7. \A s : Tally(QueueOf(p), s, H, E) \in Nat
  BY TallyType
<1> QED BY <1>2, <1>6, <1>7

(* Taking a batch puts each row where it is due and moves the offsets on. *)
LEMMA ReceiveQueue ==
  ASSUME IInv, WireInv, CountInv, QueueInv, NEW p \in Peer, Receive(p)
  PROVE  QueueInv'
<1>1. /\ UNCHANGED <<run, nvlRing, nvlTail, fwd>>
      /\ out' = [out EXCEPT ![p] = out[p] \cup
                      {Landing(p, i) : i \in nvlHead[p] .. rcv[p].tail - 1}]
      /\ \A s : Cardinality(FromThat(p, Sources(p), s)) = Tally(QueueOf(p), s, nvlHead[p], rcv[p].tail)
  BY ReceiveStep
<1>2. PICK g \in Receiver :
        /\ rcv[p].head < rcv[p].tail
        /\ nvlHead' = [nvlHead EXCEPT ![p] = rcv[p].tail]
        /\ rcv' = [rcv EXCEPT ![p] = g]
        /\ AfterBatch(rcv[p], rcv[p].left - (rcv[p].tail - rcv[p].head),
                      [s \in Source |-> rcv[p].offset[s] + Cardinality(FromThat(p, Sources(p), s))], g)
  BY ReceiveReads, ReceiveCount
<1>3. PICK H \in Nat, E \in Nat, T \in Nat :
        /\ H = nvlHead[p] /\ H = rcv[p].head /\ E = rcv[p].tail /\ T = nvlTail[p]
        /\ H < E /\ H <= E /\ E <= T /\ H <= T
  BY <1>2, QueueBounds
<1>4. ReceiverInPlace(p) /\ QueuedInPlace(p) /\ OutInPlace(p)
  BY DEF QueueInv
<1>5. rcv[p].got = Source
  BY <1>3, <1>4 DEF ReceiverInPlace
<1>6. /\ rcv'[p] = g /\ \A q \in Peer : q # p => rcv'[q] = rcv[q]
      /\ nvlHead'[p] = E /\ \A q \in Peer : q # p => nvlHead'[q] = nvlHead[q]
  BY <1>2, <1>3 DEF CountInv, CountTyped
<1>7. PICK O : O = out[p] \cup {Landing(p, i) : i \in nvlHead[p] .. E - 1}
  OBVIOUS
<1>8. out'[p] = O /\ \A q \in Peer : q # p => out'[q] = out[q]
  BY <1>1, <1>3, <1>7 DEF QueueInv, QueueTyped
<1>9. QueueOf(p)' = QueueOf(p)
  BY <1>1 DEF QueueOf, NvlSlot
<1>10. \A s, x : Behind(s, p, x)' = Behind(s, p, x)
  BY <1>1, <1>9 DEF Behind, Tally
<1>11. ASSUME NEW s \in Source
       PROVE  Taken(s, p)' = Taken(s, p) + Tally(QueueOf(p), s, H, E) /\ Taken(s, p) \in Int
  BY <1>3, ReceiveTakes
<1>12. QueuedInPlace(p)'
  <2>1. \A x \in E .. T - 1 : x \in H .. T - 1
    BY <1>3
  <2>2. \A x \in nvlHead[p] .. nvlTail[p] - 1 : \E s \in Source : \E t \in For(s, p) :
          QueueOf(p)[x] = Row(s, t) /\ Place(s, p, t) + Behind(s, p, x) = fwd[p].seen[s]
    BY <1>4 DEF QueuedInPlace
  <2>3. \A x \in E .. T - 1 : \E s \in Source : \E t \in For(s, p) :
          QueueOf(p)[x] = Row(s, t) /\ Place(s, p, t) + Behind(s, p, x) = fwd[p].seen[s]
    BY <1>3, <2>1, <2>2
  <2>4. \A x \in nvlHead'[p] .. nvlTail'[p] - 1 : \E s \in Source : \E t \in For(s, p) :
          QueueOf(p)'[x] = Row(s, t) /\ Place(s, p, t) + Behind(s, p, x)' = fwd'[p].seen[s]
    BY <1>1, <1>3, <1>6, <1>9, <1>10, <2>3
  <2> QED BY <1>1, <2>4, QueuedThen
<1>13. OutInPlace(p)'
  <2>1. /\ IsFiniteSet(O) /\ Cardinality(O) = E
        /\ \A e \in O : \E s \in Source : \E t \in For(s, p) :
              /\ e = OutEntry(s, p, t)
              /\ Place(s, p, t) < Taken(s, p) + Tally(QueueOf(p), s, nvlHead[p], E)
    <3>1. nvlHead[p] <= E /\ E <= nvlTail[p]
      BY <1>3
    <3>2. LandedUpTo(p, O, E)
      BY <1>5, <1>7, <3>1, ReceiveOut
    <3> QED BY <3>2 DEF LandedUpTo
  <2>2. \A e \in O : \E s \in Source : \E t \in For(s, p) :
          e = OutEntry(s, p, t) /\ Place(s, p, t) < Taken(s, p)'
    BY <1>3, <1>11, <2>1
  <2> QED BY <1>1, <1>6, <1>8, <2>1, <2>2, OutThen
<1>14. ReceiverInPlace(p)'
  <2>1. PICK m \in Nat : m = Cardinality(RowsFor(Source, p))
    BY RowsForType DEF IInv, WindowTyped
  <2>2. rcv[p].left = m - H
    BY <1>3, <1>4, <1>5, <2>1 DEF ReceiverInPlace
  <2>3. g.got = Source /\ g.tail = E /\ g.left = (m - H) - (E - H)
    BY <1>2, <1>3, <1>5, <2>2 DEF AfterBatch
  <2>4. g.left = m - E
    BY <2>3
  <2>5. ASSUME NEW s \in Source
        PROVE  g.offset[s] = Base(s, p) + run.prior + Taken(s, p)'
    <3>1. g.offset[s] = rcv[p].offset[s] + Tally(QueueOf(p), s, H, E)
      BY <1>1, <1>2, <1>3 DEF AfterBatch
    <3>2. rcv[p].offset[s] = Base(s, p) + run.prior + Taken(s, p)
      BY <1>4, <1>5 DEF ReceiverInPlace
    <3>3. PICK b \in Nat : b = Base(s, p) + run.prior
      BY BaseType, WordsType DEF IInv, WindowTyped
    <3>4. PICK a \in Nat, n \in Int : a = Tally(QueueOf(p), s, H, E) /\ n = Taken(s, p)
      BY <1>11, TallyType
    <3>5. g.offset[s] = (b + n) + a /\ Taken(s, p)' = n + a
      BY <1>11, <3>1, <3>2, <3>3, <3>4
    <3>6. (b + n) + a = b + (n + a)
      OBVIOUS
    <3> QED BY <3>3, <3>5, <3>6
  <2> QED BY <1>1, <1>6, <2>1, <2>3, <2>4, <2>5, PlacesKept DEF ReceiverInPlace
<1>15. ASSUME NEW q \in Peer, q # p
       PROVE  QueuedInPlace(q)' /\ OutInPlace(q)' /\ ReceiverInPlace(q)'
  <2>1. QueuedInPlace(q) /\ OutInPlace(q) /\ ReceiverInPlace(q)
    BY DEF QueueInv
  <2> QED BY <1>1, <1>6, <1>8, <1>15, <2>1, PeerKept
<1>16. QueueTyped'
  <2>1. out' = [q \in Peer |-> out'[q]]
    BY <1>1 DEF QueueInv, QueueTyped
  <2> QED BY <1>1, <2>1, RowsKept DEF QueueInv, QueueTyped
<1> QED BY <1>12, <1>13, <1>14, <1>15, <1>16 DEF QueueInv

(* Every step keeps the queues, the receivers and the output in place. *)
LEMMA NextQueue ==
  ASSUME IInv, WireInv, CountInv, RingInv, SeenInv, QueueInv, [Next]_vars
  PROVE  QueueInv'
<1>0. fwd \in [Peer -> Forwarder]
  BY DEF CountInv, CountTyped
<1>1. ASSUME NEW s \in Source, SenderStep(s) PROVE QueueInv'
  <2>1. UNCHANGED <<run, nvlRing, nvlTail, nvlHead, rcv, out, fwd>>
    BY <1>1 DEF SenderStep, SendMeta, Issue, SkipToken, CopyToken, ReleaseToken, forwarder, nvlink
  <2> QED BY <2>1, QueueOthers
<1>2. ASSUME NEW s \in Source, Credit(s) PROVE QueueInv'
  BY <1>2, QueueOthers DEF Credit, nvlink
<1>3. ASSUME NEW s \in Source, NEW k \in 1 .. Len(wire[s]), Deliver(s, k) PROVE QueueInv'
  <2>1. UNCHANGED <<run, nvlRing, nvlTail, nvlHead, rcv, out, fwd>>
    BY <1>3 DEF Deliver, forwarder, nvlink
  <2> QED BY <2>1, QueueOthers
<1>4. ASSUME NEW p \in Peer, PeerStep(p) PROVE QueueInv'
  <2>1. ASSUME NEW s \in Source, ReadMeta(p, s) PROVE QueueInv'
    <3>1. /\ UNCHANGED <<run, nvlRing, nvlTail, nvlHead, rcv, out>>
          /\ \E a, b : fwd' = [fwd EXCEPT ![p].got = @ \cup {s}, ![p].first[s] = a, ![p].left[s] = b]
      BY <2>1 DEF ReadMeta
    <3>2. \A q \in Peer : fwd'[q].seen = fwd[q].seen
      BY <1>0, <3>1 DEF Forwarder
    <3> QED BY <3>1, <3>2, QueueOthers
  <2>2. ASSUME NEW s \in Source, Choose(p, s) PROVE QueueInv'
    <3>1. /\ UNCHANGED <<run, nvlRing, nvlTail, nvlHead, rcv, out>>
          /\ \E t : fwd' = [fwd EXCEPT ![p].busy = TRUE, ![p].src = s, ![p].tail[s] = t]
      BY <2>2 DEF Choose, nvlink
    <3>2. \A q \in Peer : fwd'[q].seen = fwd[q].seen
      BY <1>0, <3>1 DEF Forwarder
    <3> QED BY <3>1, <3>2, QueueOthers
  <2>3. ASSUME NEW s \in Source, ReadBounds(p, s) PROVE QueueInv'
    BY <2>3, ReadBoundsQueue
  <2>4. CASE Forward(p)
    BY <2>4, ForwardKeepsQueue
  <2>5. CASE Retire(p)
    BY <2>5, QueueOthers DEF Retire, nvlink
  <2>6. CASE SeeTail(p)
    BY <2>6, SeeTailQueue
  <2>7. CASE Receive(p)
    BY <2>7, ReceiveQueue
  <2> QED BY <1>4, <2>1, <2>2, <2>3, <2>4, <2>5, <2>6, <2>7 DEF PeerStep
<1>5. CASE UNCHANGED vars
  BY <1>5, QueueOthers DEF vars, forwarder, nvlink
<1> QED BY <1>1, <1>2, <1>3, <1>4, <1>5 DEF Next
-----------------------------------------------------------------------------
(* The inductive invariant of the whole channel. *)
DispatchInv ==
  /\ IInv /\ WireInv /\ CountInv
  /\ RingInv /\ SeenInv /\ QueueInv

(* The window, the chain on the wire, the order of the counters, the rows  *)
(* in the rings, what is recorded of them and what is in the queues,       *)
(* together, if the network keeps a put and a later atomic in order.       *)
THEOREM DispatchInvariance == ASSUME Ordered PROVE Spec => []DispatchInv
<1>1. Init => DispatchInv
  BY InitIInv, InitWire, InitCount, InitRing, InitSeen, InitQueue DEF DispatchInv
<1>2. DispatchInv /\ [Next]_vars => DispatchInv'
  <2> SUFFICES ASSUME DispatchInv, [Next]_vars PROVE DispatchInv'
    OBVIOUS
  <2>1. IInv' /\ WireInv'
    BY NextIInv, NextWire DEF DispatchInv
  <2>2. CountInv'
    BY NextCount DEF DispatchInv
  <2>3. RingInv'
    BY NextRing DEF DispatchInv
  <2>4. SeenInv'
    BY NextSeen DEF DispatchInv
  <2>5. QueueInv'
    BY NextQueue DEF DispatchInv
  <2> QED BY <2>1, <2>2, <2>3, <2>4, <2>5 DEF DispatchInv
<1> QED BY <1>1, <1>2, PTL DEF Spec

(* send_nvl_head, from which combine finds the rows again, holds of each   *)
(* row that a forwarder has passed its number among those for the peer, or *)
(* -1.                                                                     *)
THEOREM HeadsTrue == ASSUME Ordered PROVE Spec => []HeadsRecorded
<1>1. DispatchInv => HeadsRecorded
  <2> SUFFICES ASSUME DispatchInv, NEW p \in Peer, NEW s \in Source
               PROVE  nvlHeads[p][s] = Recorded(s, p, fwdHead[p][s])
    BY DEF HeadsRecorded, Recorded
  <2> QED BY DEF DispatchInv, SeenInv, CountInv, LaneInOrder
<1> QED BY <1>1, DispatchInvariance, PTL

(* As many entries are due as there are rows for the peer. *)
LEMMA DueSize ==
  ASSUME run \in Runs, NEW p \in Peer
  PROVE  IsFiniteSet(Due(p)) /\ Cardinality(Due(p)) = Cardinality(RowsFor(Source, p))
<1> DEFINE R == RowsFor(Source, p)
           entry(r) == OutEntry(r[1], p, r[2])
           f == [r \in R |-> entry(r)]
<1>1. \A r \in R : r[1] \in Source /\ r[2] \in For(r[1], p) /\ r = Row(r[1], r[2])
  BY RowParts DEF RowsFor
<1>2. \A s \in Source : \A t \in For(s, p) : Row(s, t) \in R /\ entry(Row(s, t)) = OutEntry(s, p, t)
  BY RowParts DEF RowsFor
<1>3. \A e : e \in Due(p) <=> \E s \in Source : \E t \in For(s, p) : e = OutEntry(s, p, t)
  BY DEF Due, OutEntry
<1>4. f \in [R -> Due(p)]
  <2> HIDE DEF R, entry
  <2>1. \A r \in R : entry(r) \in Due(p)
    BY <1>1, <1>3 DEF entry
  <2> QED BY <2>1
<1>5. \A x, y \in R : f[x] = f[y] => x = y
  <2>1. \A x \in R : entry(x)[2] = x
    BY <1>1 DEF OutEntry
  <2> HIDE DEF R, entry
  <2> QED BY <2>1
<1>6. \A e \in Due(p) : \E x \in R : f[x] = e
  <2> HIDE DEF R, entry
  <2> QED BY <1>2, <1>3
<1>7. IsFiniteSet(R)
  BY RowsForType
<1> HIDE DEF R, f
<1>8. IsFiniteSet(Due(p)) /\ Cardinality(Due(p)) = Cardinality(R)
  BY <1>4, <1>5, <1>6, <1>7, SameSize
<1> QED BY <1>8 DEF R

(* What a peer has is due, and no more than that. *)
LEMMA OutDue ==
  ASSUME DispatchInv, NEW p \in Peer
  PROVE  /\ out[p] \in SUBSET Due(p)
         /\ Cardinality(out[p]) = nvlHead[p] /\ nvlHead[p] <= Cardinality(Due(p))
         /\ IsFiniteSet(Due(p)) /\ Cardinality(Due(p)) \in Nat
<1>1. /\ IsFiniteSet(out[p]) /\ Cardinality(out[p]) = nvlHead[p]
      /\ \A e \in out[p] : \E s \in Source : \E t \in For(s, p) : e = OutEntry(s, p, t)
  BY DEF DispatchInv, QueueInv, OutInPlace
<1>2. out[p] \in SUBSET Due(p)
  BY <1>1 DEF Due, OutEntry
<1>3. IsFiniteSet(Due(p))
  BY DueSize DEF DispatchInv, IInv, WindowTyped
<1>4. Cardinality(out[p]) <= Cardinality(Due(p)) /\ Cardinality(Due(p)) \in Nat
  BY <1>2, <1>3, FS_Subset, FS_CardinalityType
<1> QED BY <1>1, <1>2, <1>3, <1>4

(* A peer has only rows that were sent to it, each at the place that the   *)
(* prefix sums give it, and has them all when it expects no more: neither  *)
(* ring has a slot reused before it is read or read before it is written.  *)
THEOREM RowsArrive == ASSUME Ordered PROVE Spec => []RowsReceived
<1>1. DispatchInv => RowsReceived
  <2> SUFFICES ASSUME DispatchInv, NEW p \in Peer
               PROVE  /\ out[p] \subseteq Due(p)
                      /\ rcv[p].got = Source /\ rcv[p].left = 0 => out[p] = Due(p)
    BY DEF RowsReceived
  <2>1. out[p] \subseteq Due(p)
    BY OutDue
  <2>2. ASSUME rcv[p].got = Source, rcv[p].left = 0 PROVE out[p] = Due(p)
    <3>1. PICK m \in Nat, H \in Nat : m = Cardinality(RowsFor(Source, p)) /\ H = nvlHead[p]
      BY RowsForType, QueueBounds DEF DispatchInv, IInv, WindowTyped
    <3>2. rcv[p].left = m - H
      BY <2>2, <3>1 DEF DispatchInv, QueueInv, ReceiverInPlace
    <3>3. H = m
      BY <2>2, <3>1, <3>2
    <3>4. Cardinality(out[p]) = Cardinality(Due(p)) /\ IsFiniteSet(Due(p)) /\ out[p] \in SUBSET Due(p)
      BY <3>1, <3>3, OutDue, DueSize DEF DispatchInv, IInv, WindowTyped
    <3> QED BY <3>4, FS_Subset
  <2> QED BY <2>1, <2>2
<1> QED BY <1>1, DispatchInvariance, PTL

(* The registers and rings stay in their types: no tail is past what is    *)
(* issued, no source gets back more slots than it used, nothing expected   *)
(* is negative and no queue holds more than its size.                      *)
THEOREM TypeCorrect == ASSUME Ordered PROVE Spec => []TypeOK
<1>1. DispatchInv => TypeOK
  <2> SUFFICES ASSUME DispatchInv PROVE TypeOK
    OBVIOUS
  <2> USE DEF DispatchInv
  <2>1. begun \subseteq Source /\ retired \subseteq Peer
    BY DEF WireInv, WireTyped, CountInv, CountTyped
  <2>2. ASSUME NEW s \in Source
        PROVE  /\ window[s] \subseteq 0 .. WindowSize - 1
               /\ sendTail[s] \in 0 .. Total(s) /\ issued[s] \in 0 .. sendTail[s]
               /\ tail[s] \in 0 .. issued[s] /\ lastHead[s] \in 0 .. tail[s]
               /\ head[s] = lastHead[s]
               /\ staged[s] \in [0 .. RdmaRecv - 1 -> Rows]
               /\ ring[s] \in [0 .. RdmaRecv - 1 -> Rows]
    <3>1. /\ window[s] \subseteq 0 .. WindowSize - 1 /\ head[s] = lastHead[s]
          /\ staged[s] \in [0 .. RdmaRecv - 1 -> Rows] /\ ring[s] \in [0 .. RdmaRecv - 1 -> Rows]
      BY DEF IInv, WindowTyped, CountInv, SourceInOrder, RingInv, RowsTyped
    <3>2. /\ sendTail[s] \in Nat /\ Total(s) \in Nat /\ issued[s] \in Nat /\ tail[s] \in Nat
          /\ lastHead[s] \in Nat /\ sendTail[s] <= Total(s) /\ issued[s] <= sendTail[s]
          /\ tail[s] <= issued[s] /\ lastHead[s] <= tail[s]
      <4>1. sendTail[s] \in Nat /\ Total(s) \in Nat /\ sendTail[s] <= Total(s)
        BY SendTailBound, TotalType DEF IInv, WindowTyped
      <4>2. issued[s] \in Nat /\ tail[s] \in Nat /\ issued[s] <= sendTail[s] /\ tail[s] <= issued[s]
        BY DEF WireInv, WireTyped, WireInOrder, Chain
      <4>3. lastHead[s] \in Nat /\ lastHead[s] <= tail[s]
        BY DEF CountInv, CountTyped, SourceInOrder
      <4> QED BY <4>1, <4>2, <4>3
    <3> QED BY <3>1, <3>2
  <2>3. ASSUME NEW p \in Peer
        PROVE  /\ fwd[p].left \in [Source -> Nat]
               /\ fwdHead[p] = fwd[p].head /\ nvlTail[p] = fwd[p].queued
               /\ nvlHead[p] = rcv[p].head /\ rcv[p].left \in Nat
               /\ nvlTail[p] - nvlHead[p] \in 0 .. NvlRecv
               /\ nvlRing[p] \in [0 .. NvlRecv - 1 -> Rows]
    <3>1. fwd[p].left \in [Source -> Nat]
      <4>1. fwd[p].left \in [Source -> Int]
        BY DEF CountInv, CountTyped, Forwarder
      <4>2. ASSUME NEW s \in Source PROVE fwd[p].left[s] \in Nat
        <5>1. PICK h \in Nat, t \in Nat, n \in Nat :
                h = fwd[p].head[s] /\ t = tail[s] /\ n = Total(s) /\ h <= t
          BY TailReached, TotalType DEF IInv, WindowTyped
        <5>2. t <= n
          BY <2>2, <5>1
        <5>3. fwd[p].left[s] = n - h \/ fwd[p].left[s] = 0
          BY <5>1 DEF CountInv, LaneInOrder
        <5> QED BY <5>1, <5>2, <5>3
      <4> QED BY <4>1, <4>2
    <3>2. fwdHead[p] = fwd[p].head
      <4>1. fwdHead[p] \in [Source -> Nat] /\ fwd[p].head \in [Source -> Nat]
        BY DEF CountInv, CountTyped, Forwarder
      <4>2. \A s \in Source : fwdHead[p][s] = fwd[p].head[s]
        BY DEF CountInv, LaneInOrder
      <4> QED BY <4>1, <4>2
    <3>3. rcv[p].left \in Nat
      <4>1. PICK H \in Nat : H = nvlHead[p]
        BY QueueBounds
      <4>2. CASE rcv[p].got = Source
        <5>1. PICK m \in Nat : m = Cardinality(RowsFor(Source, p))
          BY RowsForType DEF IInv, WindowTyped
        <5>2. rcv[p].left = m - H
          BY <4>1, <4>2, <5>1 DEF QueueInv, ReceiverInPlace
        <5>3. H <= m
          BY <4>1, <5>1, OutDue, DueSize DEF IInv, WindowTyped
        <5> QED BY <5>2, <5>3
      <4>3. CASE rcv[p].got # Source
        <5>1. PICK m \in Nat : m = Cardinality(RowsFor(rcv[p].got, p))
          BY QueueBounds, RowsForType DEF IInv, WindowTyped
        <5>2. rcv[p].left = m - 0
          BY <4>3, <5>1 DEF QueueInv, ReceiverInPlace
        <5> QED BY <5>2
      <4> QED BY <4>2, <4>3
    <3>4. /\ nvlTail[p] = fwd[p].queued /\ nvlHead[p] = rcv[p].head
          /\ nvlTail[p] - nvlHead[p] \in 0 .. NvlRecv
      BY QueueBounds
    <3> QED BY <3>1, <3>2, <3>3, <3>4 DEF QueueInv, QueueTyped
  <2> QED BY <2>1, <2>2, <2>3 DEF TypeOK
<1> QED BY <1>1, DispatchInvariance, PTL
-----------------------------------------------------------------------------
(* The rows of a source for a peer, as a sequence: a row is where its place *)
(* says.                                                                    *)
LEMMA StreamRows ==
  ASSUME run \in Runs, NEW s \in Source, NEW p \in Peer
  PROVE  /\ Cardinality(For(s, p)) \in Nat /\ IsFiniteSet(For(s, p)) /\ For(s, p) \in SUBSET Nat
         /\ Stream(s, p) \in Seq(Source \X Nat) /\ Len(Stream(s, p)) = Cardinality(For(s, p))
         /\ \A t \in For(s, p) : /\ Place(s, p, t) \in 0 .. Cardinality(For(s, p)) - 1
                                 /\ Stream(s, p)[Place(s, p, t) + 1] = Row(s, t)
<1> DEFINE F == For(s, p)
           at0(k) == CHOOSE t \in F : Place(s, p, t) = k
<1>1. IsFiniteSet(F) /\ F \in SUBSET Nat /\ Cardinality(F) \in Nat
  <2>1. F \in SUBSET Chosen(s)
    BY DEF For
  <2> QED BY <2>1, TotalType, FS_Subset, FS_CardinalityType
<1>2. \A t : Place(s, p, t) = Below(F, t)
  BY DEF Place, Below
<1> HIDE DEF F
<1>3. ASSUME NEW t \in F
      PROVE  Place(s, p, t) \in 0 .. Cardinality(F) - 1 /\ at0(Place(s, p, t)) = t
  <2>1. Below(F, t) \in 0 .. Cardinality(F) /\ Below(F, t) < Cardinality(F)
    BY <1>1, BelowType, BelowOrders
  <2>2. at0(Place(s, p, t)) \in F /\ Place(s, p, at0(Place(s, p, t))) = Place(s, p, t)
    OBVIOUS
  <2>3. at0(Place(s, p, t)) = t
    <3>1. PICK u \in F : u = at0(Place(s, p, t)) /\ Below(F, u) = Below(F, t)
      BY <1>2, <2>2
    <3>2. u = t
      <4> HIDE DEF at0
      <4> QED BY <1>1, <3>1, BelowOrders
    <3> QED BY <3>1, <3>2
  <2> QED BY <1>1, <1>2, <2>1, <2>3
<1>4. \A k \in 1 .. Cardinality(F) : at0(k - 1) \in F
  <2> SUFFICES ASSUME NEW k \in 1 .. Cardinality(F) PROVE at0(k - 1) \in F
    OBVIOUS
  <2>1. k - 1 \in 0 .. Cardinality(F) - 1
    BY <1>1
  <2>2. \E t \in F : Place(s, p, t) = k - 1
    BY <1>1, <1>2, <2>1, BelowOnto
  <2> QED BY <2>2
<1>5. Stream(s, p) = [k \in 1 .. Cardinality(F) |-> Row(s, at0(k - 1))]
  BY Zenon DEF Stream, F
<1> HIDE DEF at0
<1>6. Stream(s, p) \in [1 .. Cardinality(F) -> Source \X Nat]
  <2> DEFINE f(k) == Row(s, at0(k - 1))
  <2>1. \A k \in 1 .. Cardinality(F) : f(k) \in Source \X Nat
    BY <1>1, <1>4 DEF Row
  <2>2. Stream(s, p) = [k \in 1 .. Cardinality(F) |-> f(k)]
    BY <1>5
  <2> HIDE DEF f
  <2> QED BY <2>1, <2>2
<1>7. Stream(s, p) \in Seq(Source \X Nat) /\ Len(Stream(s, p)) = Cardinality(F)
  BY <1>1, <1>6
<1>8. ASSUME NEW t \in F PROVE Stream(s, p)[Place(s, p, t) + 1] = Row(s, t)
  <2>1. PICK k \in 0 .. Cardinality(F) - 1 : k = Place(s, p, t) /\ at0(k) = t
    BY <1>3
  <2>2. k + 1 \in 1 .. Cardinality(F) /\ (k + 1) - 1 = k
    BY <1>1
  <2> QED BY <1>5, <2>1, <2>2
<1> QED BY <1>1, <1>3, <1>7, <1>8 DEF F

(* A forwarder has not seen more rows than there are for its peer. *)
LEMMA SeenBound ==
  ASSUME DispatchInv, NEW s \in Source, NEW p \in Peer
  PROVE  fwd[p].seen[s] \in Nat /\ fwd[p].seen[s] <= Cardinality(For(s, p))
<1>1. run \in Runs
  BY DEF DispatchInv, IInv, WindowTyped
<1> DEFINE N == Numbers(s, p)
           F == For(s, p)
           f == [i \in N |-> TokenAt(s, i)]
<1>2. N \in SUBSET Nat /\ IsFiniteSet(N)
  BY <1>1, NumbersType
<1>3. f \in [N -> F]
  BY DEF Numbers
<1>4. \A x, y \in N : f[x] = f[y] => x = y
  <2>1. \A x \in N : x \in 0 .. Total(s) - 1
    BY DEF Numbers
  <2> HIDE DEF N
  <2> QED BY <1>1, <2>1, StreamNumbered
<1>5. \A t \in F : \E x \in N : f[x] = t
  <2> SUFFICES ASSUME NEW t \in F PROVE \E x \in N : f[x] = t
    OBVIOUS
  <2>1. t \in Chosen(s)
    BY DEF For
  <2>2. Index(s, t) \in 0 .. Total(s) - 1 /\ TokenAt(s, Index(s, t)) = t
    BY <1>1, <2>1, StreamNumbered
  <2>3. Index(s, t) \in N
    BY <2>2 DEF Numbers
  <2> HIDE DEF N, F
  <2> QED BY <2>2, <2>3
<1> HIDE DEF N, F, f
<1>6. Cardinality(F) = Cardinality(N)
  BY <1>2, <1>3, <1>4, <1>5, SameSize
<1>7. fwd[p].seen[s] = Below(N, fwd[p].head[s])
  BY DEF DispatchInv, SeenInv, N
<1>8. Below(N, fwd[p].head[s]) \in 0 .. Cardinality(N) /\ Cardinality(N) \in Nat
  BY <1>2, BelowType
<1> QED BY <1>6, <1>7, <1>8 DEF F

(* The rows of a source in a queue are the part of its stream that has been *)
(* seen by the forwarder and not yet taken by the receiver.                 *)
LEMMA QueueIsSegment ==
  ASSUME DispatchInv, NEW s \in Source, NEW p \in Peer
  PROVE  /\ Taken(s, p) \in Nat /\ fwd[p].seen[s] \in Taken(s, p) .. Len(Stream(s, p))
         /\ fwd[p].seen[s] - Taken(s, p) <= nvlTail[p] - nvlHead[p]
         /\ Stream(s, p) \in Seq(Source \X Nat)
         /\ FromSource(s, p) = Segment(Stream(s, p), Taken(s, p), fwd[p].seen[s])
<1>1. IInv /\ CountInv /\ QueueInv /\ run \in Runs
  BY DEF DispatchInv, IInv, WindowTyped
<1>2. PICK H \in Nat, T \in Nat, n \in Nat :
        /\ H = nvlHead[p] /\ T = nvlTail[p] /\ H <= T
        /\ n = fwd[p].seen[s] /\ n <= Cardinality(For(s, p))
  BY <1>1, QueueBounds, SeenBound
<1> DEFINE g == QueueOf(p)
           C == {y \in H .. T - 1 : g[y][1] = s}
           St == Stream(s, p)
<1>3. \A y \in H .. T - 1 : nvlRing[p][NvlSlot(y)] = g[y]
  BY DEF QueueOf
<1>4. ASSUME NEW y \in H .. T - 1
      PROVE  \E r \in Source : \E t \in For(r, p) :
               g[y] = Row(r, t) /\ Place(r, p, t) = Taken(r, p) + Tally(g, r, H, y)
  <2>1. y \in Nat /\ nvlHead[p] <= y /\ y < nvlTail[p]
    BY <1>2
  <2> QED BY <1>1, <1>2, <2>1, BatchPlace
<1> HIDE DEF g
<1>5. Positions(s, p) = C
  <2>1. \A y \in H .. T - 1 : g[y] # None
    <3>1. \A r, u : Row(r, u) # None
      BY DEF Row, None
    <3> QED BY <1>4, <3>1
  <2> QED BY <1>2, <1>3, <2>1 DEF Positions
<1>6. C \in SUBSET Nat /\ IsFiniteSet(C) /\ Cardinality(C) = Tally(g, s, H, T) /\ Cardinality(C) \in Nat
  <2>1. C \in SUBSET Nat
    BY <1>2
  <2>2. IsFiniteSet(C)
    <3>1. C \in SUBSET (H .. T - 1)
      OBVIOUS
    <3>2. IsFiniteSet(H .. T - 1)
      <4>1. H \in Int /\ T - 1 \in Int
        OBVIOUS
      <4> QED BY <4>1, FS_Interval
    <3> HIDE DEF C
    <3> QED BY <3>1, <3>2, FS_Subset
  <2>3. Cardinality(C) = Tally(g, s, H, T)
    BY DEF Tally
  <2> HIDE DEF C
  <2> QED BY <2>1, <2>2, <2>3, FS_CardinalityType
<1>7. ASSUME NEW y \in C
      PROVE  \E t \in For(s, p) : g[y] = Row(s, t) /\ Place(s, p, t) = Taken(s, p) + Below(C, y)
  <2>1. y \in H .. T - 1 /\ g[y][1] = s /\ y \in Nat /\ H <= y /\ y < T
    BY <1>2
  <2>2. PICK r \in Source : \E t \in For(r, p) :
               g[y] = Row(r, t) /\ Place(r, p, t) = Taken(r, p) + Tally(g, r, H, y)
    BY <1>4, <2>1
  <2>3. r = s
    BY <2>1, <2>2, RowParts
  <2>4. {u \in C : u < y} = {u \in H .. y - 1 : g[u][1] = s}
    <3>1. \A u : u \in H .. T - 1 /\ u < y <=> u \in H .. y - 1
      BY <2>1
    <3> QED BY <3>1
  <2>5. Tally(g, s, H, y) = Below(C, y)
    BY <2>4 DEF Tally, Below
  <2> QED BY <2>2, <2>3, <2>5
<1>8. PICK c \in Nat : c = Cardinality(C) /\ c = Behind(s, p, nvlHead[p]) /\ Taken(s, p) = n - c
  BY <1>2, <1>6 DEF Behind, Taken, g
<1> HIDE DEF C
<1>9. Taken(s, p) \in Nat
  <2>1. CASE c = 0
    BY <1>8, <2>1
  <2>2. CASE c # 0
    <3>1. 0 \in 0 .. Cardinality(C) - 1
      BY <1>8, <2>2
    <3>2. PICK y \in C : Below(C, y) = 0
      BY <1>6, <3>1, BelowOnto
    <3>3. PICK t \in For(s, p) : Place(s, p, t) = Taken(s, p) + 0
      BY <1>7, <3>2
    <3>4. Place(s, p, t) \in 0 .. Cardinality(For(s, p)) - 1
      BY <1>1, StreamRows
    <3> QED BY <1>8, <3>3, <3>4
  <2> QED BY <2>1, <2>2
<1>10. PICK a \in Nat : a = Taken(s, p) /\ a <= n /\ n - a = c
  BY <1>8, <1>9
<1>11. St \in Seq(Source \X Nat) /\ n \in a .. Len(St)
  BY <1>1, <1>2, <1>10, StreamRows
<1>12. c <= T - H
  <2>1. C \in SUBSET (H .. T - 1)
    BY DEF C
  <2>2. IsFiniteSet(H .. T - 1) /\ Cardinality(H .. T - 1) = T - H
    <3>1. H \in Int /\ T - 1 \in Int /\ (H > T - 1 => T - H = 0) /\ (T - 1) - H + 1 = T - H
      BY <1>2
    <3> QED BY <3>1, FS_Interval
  <2> QED BY <1>8, <2>1, <2>2, FS_Subset
<1> DEFINE pick(k) == CHOOSE x \in C : Cardinality({y \in C : y < x}) = k - 1
<1>13. ASSUME NEW k \in 1 .. c
       PROVE  nvlRing[p][NvlSlot(pick(k))] = St[a + k]
  <2>1. k - 1 \in 0 .. Cardinality(C) - 1
    BY <1>8
  <2>2. \E x \in C : Cardinality({y \in C : y < x}) = k - 1
    BY <1>6, <2>1, BelowOnto DEF Below
  <2>3. PICK x \in C : x = pick(k) /\ Cardinality({y \in C : y < x}) = k - 1
    BY <2>2
  <2>4. Below(C, x) = k - 1
    BY <2>3 DEF Below
  <2>5. PICK t \in For(s, p) : g[x] = Row(s, t) /\ Place(s, p, t) = a + (k - 1)
    BY <1>7, <1>10, <2>4
  <2>6. St[Place(s, p, t) + 1] = Row(s, t)
    BY <1>1, StreamRows
  <2>7. Place(s, p, t) + 1 = a + k
    BY <2>5
  <2>8. nvlRing[p][NvlSlot(x)] = g[x]
    BY <1>3 DEF C
  <2> QED BY <2>3, <2>5, <2>6, <2>7, <2>8
<1>14. FromSource(s, p) = [k \in 1 .. c |-> nvlRing[p][NvlSlot(pick(k))]]
  BY <1>5, <1>8 DEF FromSource
<1> HIDE DEF pick
<1>15. FromSource(s, p) = [k \in 1 .. n - a |-> St[a + k]]
  BY <1>10, <1>13, <1>14
<1> QED BY <1>2, <1>8, <1>10, <1>11, <1>12, <1>15 DEF Segment
-----------------------------------------------------------------------------
(* What a queue gains is the next part of the stream. *)
LEMMA PublishSegment ==
  ASSUME NEW s, NEW p, NEW St \in Seq(Source \X Nat), NEW a \in Nat, NEW b \in Nat, NEW c \in Nat,
         a <= b, b <= c, c <= Len(St), c - b <= NvlSend, c - a <= NvlRecv,
         Stream(s, p) = St, Stream(s, p)' = St,
         fwd[p].seen[s] = b, fwd'[p].seen[s] = c,
         FromSource(s, p) = Segment(St, a, b), FromSource(s, p)' = Segment(St, a, c)
  PROVE  Abstract(s, p)!TNext \/ UNCHANGED Abstract(s, p)!tvars
<1>1. CASE b = c
  BY <1>1 DEF Abstract!tvars
<1>2. CASE b # c
  <2>1. PICK k \in Nat : k = c - b /\ c = b + k /\ k \in 1 .. NvlSend
    <3>1. NvlSend \in Nat
      BY SizesAssumption
    <3>2. c - b \in Nat /\ c = b + (c - b) /\ c - b \in 1 .. NvlSend
      BY <1>2, <3>1
    <3> QED BY <3>2
  <2>2. b \in a .. Len(St) /\ c \in b .. Len(St)
    OBVIOUS
  <2>3. Segment(St, a, c) = Segment(St, a, b) \o SubSeq(St, b + 1, c)
    BY <2>2, SegmentAppend
  <2>4. Len(Segment(St, a, b)) = b - a
    BY <2>2, SegmentType
  <2>5. Len(FromSource(s, p)) + k <= NvlRecv
    BY <2>1, <2>4
  <2>6. FromSource(s, p)' = FromSource(s, p) \o SubSeq(Stream(s, p), b + 1, b + k)
    BY <2>1, <2>3
  <2>7. b + k <= Len(Stream(s, p)) /\ fwd'[p].seen[s] = b + k
    BY <2>1
  <2> QED BY <2>1, <2>5, <2>6, <2>7 DEF Abstract!TNext, Abstract!TPublish
<1> QED BY <1>1, <1>2

(* What it loses are the rows at its front. *)
LEMMA TakeSegment ==
  ASSUME NEW s, NEW p, NEW St \in Seq(Source \X Nat), NEW a \in Nat, NEW b \in Nat, NEW c \in Nat,
         a <= c, c <= b, b <= Len(St),
         Stream(s, p) = St, Stream(s, p)' = St,
         fwd[p].seen[s] = b, fwd'[p].seen[s] = b,
         FromSource(s, p) = Segment(St, a, b), FromSource(s, p)' = Segment(St, c, b)
  PROVE  Abstract(s, p)!TNext \/ UNCHANGED Abstract(s, p)!tvars
<1>1. CASE a = c
  BY <1>1 DEF Abstract!tvars
<1>2. CASE a # c
  <2>1. PICK k \in Nat : k = c - a /\ c = a + k /\ k \in 1 .. b - a /\ k \in 0 .. b - a
    BY <1>2
  <2>2. b \in a .. Len(St)
    OBVIOUS
  <2>3. Segment(St, c, b) = SubSeq(Segment(St, a, b), k + 1, b - a)
    BY <2>1, <2>2, SegmentDrop
  <2>4. Len(Segment(St, a, b)) = b - a
    BY <2>2, SegmentType
  <2>5. FromSource(s, p)' = SubSeq(FromSource(s, p), k + 1, Len(FromSource(s, p)))
    BY <2>3, <2>4
  <2>6. k \in 1 .. Len(FromSource(s, p))
    BY <2>1, <2>4
  <2> QED BY <2>5, <2>6 DEF Abstract!TNext, Abstract!TTake
<1> QED BY <1>1, <1>2

(* Every queue holds, of each source, the part of its stream between the    *)
(* rows taken and the rows seen.                                            *)
SegmentsInv ==
  \A s \in Source, p \in Peer :
    /\ Taken(s, p) \in Nat /\ fwd[p].seen[s] \in Taken(s, p) .. Len(Stream(s, p))
    /\ fwd[p].seen[s] - Taken(s, p) <= nvlTail[p] - nvlHead[p]
    /\ Stream(s, p) \in Seq(Source \X Nat)
    /\ FromSource(s, p) = Segment(Stream(s, p), Taken(s, p), fwd[p].seen[s])

LEMMA QueuesAreSegments == DispatchInv => SegmentsInv
BY QueueIsSegment DEF SegmentsInv

(* The refinement starts where the abstract queue does. *)
LEMMA InitAbstract == Init => \A s \in Source, p \in Peer : Abstract(s, p)!TInit
<1> SUFFICES ASSUME Init, NEW s \in Source, NEW p \in Peer PROVE Abstract(s, p)!TInit
  OBVIOUS
<1>1. run \in Runs /\ fwd[p].seen[s] = 0 /\ nvlHead[p] = 0 /\ nvlTail[p] = 0
  BY DEF Init
<1>2. Stream(s, p) \in Seq(Source \X Nat)
  BY <1>1, StreamRows
<1>3. Positions(s, p) = {}
  BY <1>1 DEF Positions
<1>4. FromSource(s, p) = <<>>
  BY <1>3, FS_EmptySet DEF FromSource
<1> QED BY <1>1, <1>2, <1>4 DEF Abstract!TInit

(* The rows of a source and their places stay while a run lasts. *)
LEMMA StreamStays ==
  ASSUME run' = run
  PROVE  \A s, p : Stream(s, p)' = Stream(s, p)
BY DEF Stream, For, Place, Chosen, Tokens, Row

(* A peer whose queue stays as it is. *)
LEMMA QueueStays ==
  ASSUME NEW s, NEW p, run' = run, nvlRing'[p] = nvlRing[p], nvlTail'[p] = nvlTail[p],
         nvlHead'[p] = nvlHead[p], fwd'[p].seen[s] = fwd[p].seen[s]
  PROVE  UNCHANGED Abstract(s, p)!tvars
<1>1. Positions(s, p)' = Positions(s, p)
  BY DEF Positions, NvlSlot, None
<1>2. FromSource(s, p)' = FromSource(s, p)
  BY <1>1 DEF FromSource, NvlSlot
<1>3. Stream(s, p)' = Stream(s, p)
  BY StreamStays
<1> QED BY <1>2, <1>3 DEF Abstract!tvars

(* What the segments are before and after a step of the same run. *)
LEMMA SegmentsThen ==
  ASSUME SegmentsInv, SegmentsInv', CountInv', run' = run, NEW s \in Source, NEW p \in Peer
  PROVE  \E St \in Seq(Source \X Nat) : \E a, b, c, d \in Nat :
           /\ Stream(s, p) = St /\ Stream(s, p)' = St
           /\ a = Taken(s, p) /\ b = fwd[p].seen[s] /\ a <= b /\ b <= Len(St)
           /\ c = Taken(s, p)' /\ d = fwd'[p].seen[s] /\ c <= d /\ d <= Len(St)
           /\ d - c <= NvlRecv
           /\ FromSource(s, p) = Segment(St, a, b) /\ FromSource(s, p)' = Segment(St, c, d)
<1>1. PICK St : St = Stream(s, p) /\ St = Stream(s, p)' /\ St \in Seq(Source \X Nat)
  BY StreamStays DEF SegmentsInv
<1>2. Len(St) \in Nat
  BY <1>1
<1>3. PICK a, b \in Nat :
        /\ a = Taken(s, p) /\ b = fwd[p].seen[s] /\ a <= b /\ b <= Len(St)
        /\ FromSource(s, p) = Segment(St, a, b)
  <2>1. /\ Taken(s, p) \in Nat /\ fwd[p].seen[s] \in Taken(s, p) .. Len(St)
        /\ FromSource(s, p) = Segment(St, Taken(s, p), fwd[p].seen[s])
    BY <1>1 DEF SegmentsInv
  <2>2. fwd[p].seen[s] \in Nat /\ Taken(s, p) <= fwd[p].seen[s] /\ fwd[p].seen[s] <= Len(St)
    BY <1>2, <2>1
  <2> QED BY <2>1, <2>2
<1>4. /\ Taken(s, p)' \in Nat /\ fwd'[p].seen[s] \in Taken(s, p)' .. Len(Stream(s, p)')
      /\ fwd'[p].seen[s] - Taken(s, p)' <= nvlTail'[p] - nvlHead'[p]
      /\ FromSource(s, p)' = Segment(Stream(s, p)', Taken(s, p)', fwd'[p].seen[s])
  BY DEF SegmentsInv, Segment
<1>5. PICK c, d \in Nat :
        /\ c = Taken(s, p)' /\ d = fwd'[p].seen[s] /\ c <= d /\ d <= Len(St)
        /\ FromSource(s, p)' = Segment(St, c, d)
  BY <1>1, <1>2, <1>4
<1>6. d - c <= NvlRecv
  <2>1. PICK H \in Nat, T \in Nat : H = nvlHead'[p] /\ T = nvlTail'[p] /\ T <= H + NvlRecv
    BY DEF CountInv, CountTyped, ForwarderInTurn
  <2>2. d - c <= T - H
    BY <1>4, <1>5, <2>1
  <2> QED BY <2>1, <2>2, SizesAssumption
<1> QED BY <1>1, <1>3, <1>5, <1>6

(* A step of the forwarder appends the rows of its chunk to one source's. *)
LEMMA ForwardIsAbstract ==
  ASSUME DispatchInv, SegmentsInv, SegmentsInv', CountInv', NEW p \in Peer, Forward(p),
         NEW s \in Source, NEW q \in Peer
  PROVE  Abstract(s, q)!TNext \/ UNCHANGED Abstract(s, q)!tvars
<1>1. IInv /\ WireInv /\ CountInv /\ RingInv /\ SeenInv /\ QueueInv
  BY DEF DispatchInv
<1>2. UNCHANGED <<run, nvlHead>>
  BY ForwardStep
<1>3. PICK r \in Source, c \in Nat : r = fwd[p].src /\ c = Cardinality(Chunk(p)) /\ c <= NvlSend
  <2>1. fwd[p].busy
    BY ForwardStep
  <2> QED BY <1>1, <2>1, ChunkBounds, SizesAssumption
<1>4. CASE q # p
  <2>1. fwd'[q] = fwd[q]
    BY <1>1, <1>4, ForwardTallies
  <2>2. nvlRing'[q] = nvlRing[q] /\ nvlTail'[q] = nvlTail[q]
    BY <1>1, <1>4, ForwardQueue DEF CountInv, CountTyped
  <2> QED BY <1>2, <2>1, <2>2, QueueStays
<1>5. CASE q = p
  <2>1. PICK St \in Seq(Source \X Nat), a, b, e, d \in Nat :
           /\ Stream(s, p) = St /\ Stream(s, p)' = St
           /\ a = Taken(s, p) /\ b = fwd[p].seen[s] /\ a <= b /\ b <= Len(St)
           /\ e = Taken(s, p)' /\ d = fwd'[p].seen[s] /\ e <= d /\ d <= Len(St)
           /\ d - e <= NvlRecv
           /\ FromSource(s, p) = Segment(St, a, b) /\ FromSource(s, p)' = Segment(St, e, d)
    BY <1>2, SegmentsThen
  <2>2. e = a
    BY <1>1, <2>1, ForwardTallies
  <2>3. fwd'[p].seen[s] = IF s = r THEN fwd[p].seen[r] + c ELSE fwd[p].seen[s]
    BY <1>1, <1>3, ForwardTallies
  <2>4. b <= d /\ d - b <= NvlSend
    BY <1>3, <2>1, <2>3, SizesAssumption
  <2> QED BY <1>5, <2>1, <2>2, <2>4, PublishSegment
<1> QED BY <1>4, <1>5

(* A batch of the receiver takes some of each source's, from the front. *)
LEMMA ReceiveIsAbstract ==
  ASSUME DispatchInv, SegmentsInv, SegmentsInv', CountInv', NEW p \in Peer, Receive(p),
         NEW s \in Source, NEW q \in Peer
  PROVE  Abstract(s, q)!TNext \/ UNCHANGED Abstract(s, q)!tvars
<1>1. IInv /\ WireInv /\ CountInv /\ QueueInv
  BY DEF DispatchInv
<1>2. UNCHANGED <<run, nvlRing, nvlTail, fwd>>
  BY <1>1, ReceiveStep
<1>3. nvlHead' = [nvlHead EXCEPT ![p] = rcv[p].tail]
  BY <1>1, ReceiveStep
<1>4. CASE q # p
  <2>1. nvlHead'[q] = nvlHead[q]
    BY <1>1, <1>3, <1>4 DEF CountInv, CountTyped
  <2> QED BY <1>2, <2>1, QueueStays
<1>5. CASE q = p
  <2>1. PICK St \in Seq(Source \X Nat), a, b, c, d \in Nat :
           /\ Stream(s, p) = St /\ Stream(s, p)' = St
           /\ a = Taken(s, p) /\ b = fwd[p].seen[s] /\ a <= b /\ b <= Len(St)
           /\ c = Taken(s, p)' /\ d = fwd'[p].seen[s] /\ c <= d /\ d <= Len(St)
           /\ d - c <= NvlRecv
           /\ FromSource(s, p) = Segment(St, a, b) /\ FromSource(s, p)' = Segment(St, c, d)
    BY <1>2, SegmentsThen
  <2>2. d = b
    BY <1>2, <2>1
  <2>3. a <= c
    BY <1>1, <2>1, ReceiveTakes
  <2> QED BY <1>5, <2>1, <2>2, <2>3, TakeSegment
<1> QED BY <1>4, <1>5

(* Every step is one of every one of the abstract queues, or does not show. *)
LEMMA NextIsAbstract ==
  ASSUME DispatchInv, DispatchInv', SegmentsInv, SegmentsInv', [Next]_vars,
         NEW s \in Source, NEW q \in Peer
  PROVE  Abstract(s, q)!TNext \/ UNCHANGED Abstract(s, q)!tvars
<1>0. fwd \in [Peer -> Forwarder] /\ CountInv'
  BY DEF DispatchInv, CountInv, CountTyped
<1> DEFINE Hidden == UNCHANGED <<run, nvlRing, nvlTail, nvlHead>> /\ \A u \in Peer : fwd'[u].seen = fwd[u].seen
           Goal == Abstract(s, q)!TNext \/ UNCHANGED Abstract(s, q)!tvars
<1>1. Hidden => Goal
  BY QueueStays
<1> HIDE DEF Goal
<1>2. ASSUME NEW r \in Source, SenderStep(r) PROVE Goal
  <2>1. UNCHANGED <<run, nvlRing, nvlTail, nvlHead, fwd>>
    BY <1>2 DEF SenderStep, SendMeta, Issue, SkipToken, CopyToken, ReleaseToken, forwarder, nvlink
  <2> QED BY <1>1, <2>1
<1>3. ASSUME NEW r \in Source, Credit(r) PROVE Goal
  BY <1>1, <1>3 DEF Credit, nvlink
<1>4. ASSUME NEW r \in Source, NEW k \in 1 .. Len(wire[r]), Deliver(r, k) PROVE Goal
  <2>1. UNCHANGED <<run, nvlRing, nvlTail, nvlHead, fwd>>
    BY <1>4 DEF Deliver, forwarder, nvlink
  <2> QED BY <1>1, <2>1
<1>5. ASSUME NEW p \in Peer, PeerStep(p) PROVE Goal
  <2>1. ASSUME NEW r \in Source, ReadMeta(p, r) PROVE Goal
    <3>1. /\ UNCHANGED <<run, nvlRing, nvlTail, nvlHead>>
          /\ \E a, b : fwd' = [fwd EXCEPT ![p].got = @ \cup {r}, ![p].first[r] = a, ![p].left[r] = b]
      BY <2>1 DEF ReadMeta
    <3>2. \A u \in Peer : fwd'[u].seen = fwd[u].seen
      BY <1>0, <3>1 DEF Forwarder
    <3> QED BY <1>1, <3>1, <3>2
  <2>2. ASSUME NEW r \in Source, Choose(p, r) PROVE Goal
    <3>1. /\ UNCHANGED <<run, nvlRing, nvlTail, nvlHead>>
          /\ \E t : fwd' = [fwd EXCEPT ![p].busy = TRUE, ![p].src = r, ![p].tail[r] = t]
      BY <2>2 DEF Choose, nvlink
    <3>2. \A u \in Peer : fwd'[u].seen = fwd[u].seen
      BY <1>0, <3>1 DEF Forwarder
    <3> QED BY <1>1, <3>1, <3>2
  <2>3. ASSUME NEW r \in Source, ReadBounds(p, r) PROVE Goal
    BY <1>1, <2>3 DEF ReadBounds, forwarder, nvlink
  <2>4. CASE Forward(p)
    BY <1>0, <2>4, ForwardIsAbstract DEF Goal
  <2>5. CASE Retire(p)
    BY <1>1, <2>5 DEF Retire, nvlink
  <2>6. CASE SeeTail(p)
    BY <1>1, <2>6 DEF SeeTail, forwarder, nvlink
  <2>7. CASE Receive(p)
    BY <1>0, <2>7, ReceiveIsAbstract DEF Goal
  <2> QED BY <1>5, <2>1, <2>2, <2>3, <2>4, <2>5, <2>6, <2>7 DEF PeerStep
<1>6. ASSUME UNCHANGED vars PROVE Goal
  BY <1>1, <1>6 DEF vars, forwarder, nvlink
<1>7. Goal
  BY <1>2, <1>3, <1>4, <1>5, <1>6 DEF Next
<1> QED BY <1>7 DEF Goal

(***************************************************************************)
(* From every source to every peer, the path over both rings is a bounded  *)
(* FIFO queue of the rows for that peer: every step of any warp or of the  *)
(* network appends the next ones, takes the first ones, or does not show,  *)
(* if the network keeps a put and a later atomic in order.                 *)
(***************************************************************************)
THEOREM ImplementsTokenStream == ASSUME Ordered PROVE Spec => IsTokenStream
<1> DEFINE Step == \A s \in Source, p \in Peer :
                     Abstract(s, p)!TNext \/ UNCHANGED Abstract(s, p)!tvars
<1>1. DispatchInv /\ DispatchInv' /\ SegmentsInv /\ SegmentsInv' /\ [Next]_vars => [Step]_vars
  BY NextIsAbstract
<1> QED BY <1>1, InitAbstract, QueuesAreSegments, DispatchInvariance, PTL DEF Spec, IsTokenStream
=============================================================================
