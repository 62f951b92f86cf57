---------------------------- MODULE LowLatencyProofs ---------------------------
(***************************************************************************)
(* Proofs about the low-latency kernels, for any number of ranks, experts  *)
(* and tokens and any sequence of calls: what a dispatch returns is what   *)
(* its peers sent for it, and what a combine sums is its own.  First that  *)
(* the steps which send, and those of the network and of a rank that       *)
(* fails, keep the invariant of LowLatencyInvariant; then the theorems.    *)
(***************************************************************************)
EXTENDS LowLatencyInvariant

(***************************************************************************)
(* Sending rows.                                                           *)
(***************************************************************************)
PutOn(r, d, q, x) == wire' = [wire EXCEPT ![r][d][q] = Append(@, x)]
RowGoes(r, d, q, x, row) ==
  \/ d \in dead /\ memory' = memory
  \/ /\ NVLink(r, d) /\ wire' = wire /\ word' = word
     /\ region' = [region EXCEPT ![d][x.buf] = Overlay(@, x.place, row)]
  \/ ~NVLink(r, d) /\ word' = word /\ region' = region /\ PutOn(r, d, q, x)

(* What of it concerns one channel, and one buffer.                         *)
WireGrows(r, d, q, x) ==
  \A s, t \in Rank, l \in Local :
    \/ wire'[s][t][l] = wire[s][t][l]
    \/ /\ s = r /\ t = d /\ l = q /\ ~NVLink(r, d)
       /\ wire'[s][t][l] = Append(wire[s][t][l], x)
RegionGrows(r, d, x, row) ==
  \A t \in Rank, c \in {0, 1} :
    \/ region'[t][c] = region[t][c]
    \/ /\ t = d /\ c = x.buf /\ NVLink(r, d)
       /\ region'[t][c] = Overlay(region[t][c], x.place, row)
Posted(r, d, q, x, row) ==
  \/ /\ NVLink(r, d) /\ wire'[r][d][q] = wire[r][d][q]
     /\ region'[d][x.buf] = Overlay(region[d][x.buf], x.place, row)
  \/ ~NVLink(r, d) /\ wire'[r][d][q] = Append(wire[r][d][q], x)

(* One wire has one message more.                                           *)
LEMMA WireAppended ==
  ASSUME Shape, NEW r \in Rank, NEW d \in Rank, NEW q \in Local, NEW x \in Msg,
         PutOn(r, d, q, x)
  PROVE  /\ wire' \in [Rank -> [Rank -> [Local -> Seq(Msg)]]]
         /\ wire'[r][d][q] = Append(wire[r][d][q], x)
         /\ \A s, t \in Rank, l \in Local : s # r \/ t # d \/ l # q
              => wire'[s][t][l] = wire[s][t][l]
<1>1. wire \in [Rank -> [Rank -> [Local -> Seq(Msg)]]]
  BY DEF Shape
<1>2. wire[r][d][q] \in Seq(Msg)
  BY <1>1
<1>3. Append(wire[r][d][q], x) \in Seq(Msg)
  BY <1>2, AppendFacts
<1>4. PICK w \in Seq(Msg) : w = Append(wire[r][d][q], x)
  BY <1>3
<1>5. wire' = [wire EXCEPT ![r][d][q] = w]
  BY <1>4 DEF PutOn
<1> QED BY <1>1, <1>4, <1>5

(* A row changes one wire, or one place.                                    *)
LEMMA RowGoesFacts ==
  ASSUME Shape, run' = run, dead' = dead, NEW r \in Rank, NEW d \in Rank, NEW q \in Local,
         NEW x \in Msg,
         x.buf \in {0, 1}, NEW row, RowGoes(r, d, q, x, row)
  PROVE  /\ word' = word
         /\ region' = region \/ Buffers(region)'
         /\ wire' = wire \/ wire' \in [Rank -> [Rank -> [Local -> Seq(Msg)]]]
         /\ WireGrows(r, d, q, x) /\ RegionGrows(r, d, x, row)
         /\ d \notin dead => Posted(r, d, q, x, row)
<1>1. CASE d \in dead /\ memory' = memory
  BY <1>1 DEF memory, WireGrows, RegionGrows
<1>2. CASE /\ NVLink(r, d) /\ wire' = wire /\ word' = word
           /\ region' = [region EXCEPT ![d][x.buf] = Overlay(@, x.place, row)]
  <2>1. PICK b \in {0, 1} : b = x.buf
    OBVIOUS
  <2>2. PICK y : y = Overlay(region[d][b], x.place, row)
    OBVIOUS
  <2>3. region = [z \in Rank |-> [c \in {0, 1} |-> region[z][c]]]
    BY DEF Shape, Buffers
  <2>4. region' = [region EXCEPT ![d][b] = y]
    BY <1>2, <2>1, <2>2
  <2>5. /\ region' = [z \in Rank |-> [c \in {0, 1} |-> region'[z][c]]]
        /\ region'[d][b] = y
        /\ \A z \in Rank, c \in {0, 1} : z # d \/ c # b => region'[z][c] = region[z][c]
    BY <2>3, <2>4
  <2>6. Buffers(region)'
    BY <2>5, Fixed DEF Buffers, Rank
  <2>7. RegionGrows(r, d, x, row)
    BY <1>2, <2>1, <2>2, <2>5 DEF RegionGrows
  <2>8. WireGrows(r, d, q, x) /\ Posted(r, d, q, x, row)
    BY <1>2, <2>1, <2>2, <2>5 DEF WireGrows, Posted
  <2> QED BY <1>2, <2>6, <2>7, <2>8
<1>3. CASE ~NVLink(r, d) /\ word' = word /\ region' = region /\ PutOn(r, d, q, x)
  <2>1. /\ wire' \in [Rank -> [Rank -> [Local -> Seq(Msg)]]]
        /\ wire'[r][d][q] = Append(wire[r][d][q], x)
        /\ \A s, t \in Rank, l \in Local : s # r \/ t # d \/ l # q
             => wire'[s][t][l] = wire[s][t][l]
    BY <1>3, WireAppended
  <2>2. RegionGrows(r, d, x, row)
    BY <1>3 DEF RegionGrows
  <2>3. WireGrows(r, d, q, x) /\ Posted(r, d, q, x, row)
    BY <1>3, <2>1 DEF WireGrows, Posted
  <2> QED BY <1>3, <2>1, <2>2, <2>3
<1> QED BY <1>1, <1>2, <1>3 DEF RowGoes

(* A rank that has still to send touches one channel, of one call.          *)
Sends(r, d, q, x) ==
  /\ run' = run /\ dead' = dead /\ mask' = mask /\ layout' = layout /\ rows' = rows
  /\ r \notin dead /\ Active(Pos(r)) /\ Step(r, d, q) = "send"
  /\ x.buf = Side(Pos(r)) /\ WireGrows(r, d, q, x)
  /\ \A s \in Rank : Pos(s)' = Pos(s)
  /\ \A s, t \in Rank, l \in Local : s # r \/ t # d \/ l # q => Step(s, t, l)' = Step(s, t, l)
  /\ \A s \in Rank : s # r => kernel'[s] = kernel[s] /\ counter'[s] = counter[s]
Own(r, d, q, s, t, l) == s = r /\ t = d /\ l = q

(* Every other channel sees something of another buffer, at most.           *)
LEMMA SendsWhere ==
  ASSUME Shape, PosInv, KernelInv, NEW r \in Rank, NEW d \in Rank, NEW q \in Local,
         NEW x \in Msg,
         Sends(r, d, q, x), NEW s \in Rank, NEW t \in Rank \ dead, NEW l \in Local,
         NEW m \in 1 .. NumCalls, Near(t, m), Active(m)
  PROVE  Aside(s, t, l, Side(m)) \/ (Own(r, d, q, s, t, l) /\ m = Pos(r))
<1>1. CASE wire'[s][t][l] = wire[s][t][l]
  BY <1>1 DEF Aside
<1>2. CASE s = r /\ t = d /\ l = q /\ wire'[s][t][l] = Append(wire[s][t][l], x)
  <2>1. CASE Side(m) = x.buf
    <3>1. Near(d, Pos(r)) /\ Pos(r) \in 1 .. NumCalls
      BY <1>2, SenderNear DEF Sends
    <3>2. m = Pos(r)
      BY <1>2, <2>1, <3>1, SameCall DEF Sends
    <3> QED BY <1>2, <3>2 DEF Own
  <2>2. CASE Side(m) # x.buf
    <3>1. ~OfBuf(x, Side(m))
      BY <2>2 DEF OfBuf
    <3> QED BY <1>2, <3>1 DEF Aside, Sends
  <2> QED BY <2>1, <2>2
<1> QED BY <1>1, <1>2 DEF Sends, WireGrows

(* A peer waits for the channel, and has not been told.                     *)
LEMMA SendsUntold ==
  ASSUME Shape, PosInv, KernelInv, SignalInv, NEW r \in Rank, NEW d \in Rank \ dead,
         NEW q \in Local,
         NEW x \in Msg, Sends(r, d, q, x)
  PROVE  /\ Untold(wire[r][d][q], Side(Pos(r)), WordAt(r, d, q, Pos(r)))
         /\ ~Signalled(r, d, q, Pos(r)) /\ ~Told(r, d, q, Pos(r))
         /\ Near(d, Pos(r)) /\ Ready(d, Pos(r)) /\ Pos(r) \in 1 .. NumCalls
<1>1. Near(d, Pos(r)) /\ Ready(d, Pos(r)) /\ Pos(r) \in 1 .. NumCalls
  BY SenderNear DEF Sends
<1>2. ~Told(r, d, q, Pos(r))
  <2>1. ~(Pos(r) > Pos(r))
    BY KernelTypes
  <2> QED BY <2>1 DEF Told, Sends
<1>3. PICK n \in 1 .. NumCalls : n = Pos(r)
  BY <1>1
<1>4. SignalOK(r, d, q, n)
  BY <1>1, <1>3 DEF SignalInv, Sends
<1>5. Untold(wire[r][d][q], Side(n), WordAt(r, d, q, n))
  BY <1>2, <1>3, <1>4 DEF SignalOK
<1>6. ~Signalled(r, d, q, n)
  BY <1>3, <1>5, UntoldWord DEF Shape, Sends
<1> QED BY <1>1, <1>2, <1>3, <1>5, <1>6

(* What is told on the other channels.                                      *)
LEMMA SendsTold ==
  ASSUME Shape, NEW r \in Rank, NEW d \in Rank, NEW q \in Local, NEW x, Sends(r, d, q, x),
         NEW s \in Rank, NEW t \in Rank, NEW l \in Local, NEW m,
         ~Own(r, d, q, s, t, l) \/ m # Pos(r)
  PROVE  Told(s, t, l, m)' <=> Told(s, t, l, m)
<1>1. Pos(s)' = Pos(s)
  BY DEF Sends
<1>2. CASE ~Own(r, d, q, s, t, l)
  <2>1. Step(s, t, l)' = Step(s, t, l)
    BY <1>2 DEF Sends, Own
  <2> QED BY <1>1, <2>1 DEF Told
<1>3. CASE s = r /\ m # Pos(r)
  BY <1>1, <1>3 DEF Told
<1> QED BY <1>2, <1>3 DEF Own

(* Nobody is more or less ready for it.                                     *)
LEMMA SendsReady ==
  ASSUME NEW r \in Rank, NEW d, NEW q, NEW x, Sends(r, d, q, x),
         kernel'[r].cleaned = kernel[r].cleaned, kernel'[r].round = kernel[r].round,
         NEW t \in Rank, NEW m
  PROVE  (Ready(t, m)' <=> Ready(t, m)) /\ (Near(t, m)' <=> Near(t, m))
<1>1. run' = run /\ Pos(t)' = Pos(t)
  BY DEF Sends
<1>2. kernel'[t].cleaned = kernel[t].cleaned /\ kernel'[t].round = kernel[t].round
  BY DEF Sends
<1> QED BY <1>1, <1>2, Fixed DEF Ready, Near

(* What a rank has taken is not what is being sent.                         *)
LEMMA SendsTaken ==
  ASSUME Shape, PosInv, KernelInv, SignalInv, TakenInv, NEW r \in Rank, NEW d \in Rank,
         NEW q \in Local,
         NEW x \in Msg, Sends(r, d, q, x),
         \A s \in Rank, t \in Rank \ dead, l \in Local, m \in 1 .. NumCalls :
           Active(m) /\ Near(t, m) /\ (~Own(r, d, q, s, t, l) \/ m # Pos(r)) =>
             WordAt(s, t, l, m)' = WordAt(s, t, l, m),
         \A l \in Local : Taken(r, d, l)' => Taken(r, d, l)
  PROVE  TakenInv'
<1>0. run' = run /\ dead' = dead /\ mask' = mask /\ layout' = layout
  BY DEF Sends
<1> SUFFICES ASSUME NEW t \in Rank \ dead, NEW s \in Rank, NEW l \in Local, Active(Pos(t))',
                    Taken(t, s, l)'
             PROVE  TakenOK(t, s, l, Pos(t))'
  BY <1>0, Fixed DEF TakenInv
<1>1. Pos(t)' = Pos(t) /\ Active(Pos(t))
  BY <1>0, Fixed DEF Sends
<1>2. Taken(t, s, l)
  BY DEF Sends, Taken
<1>3. TakenOK(t, s, l, Pos(t))
  BY <1>1, <1>2 DEF TakenInv
<1>4. PICK m \in 1 .. NumCalls : m = Pos(t)
  BY <1>1, KindFacts
<1>5. Active(m) /\ Near(t, m) /\ Ready(t, m)
  BY <1>1, <1>4 DEF Near, Ready
<1>6. CASE Own(r, d, q, s, t, l) /\ m = Pos(r)
  <2>1. t = d /\ s = r /\ l = q
    BY <1>6 DEF Own
  <2>2. ~Signalled(r, d, q, Pos(r)) /\ r \notin dead
    BY <2>1, SendsUntold DEF Sends
  <2>3. FALSE
    <3>1. KindOf(m) = "dispatch" \/ KindOf(m) = "combine"
      BY <1>5 DEF Active
    <3> QED BY <1>3, <1>4, <1>6, <2>1, <2>2, <3>1 DEF TakenOK
  <2> QED BY <2>3
<1>7. CASE ~(Own(r, d, q, s, t, l) /\ m = Pos(r))
  <2>1. Aside(s, t, l, Side(m))
    BY <1>5, <1>7, SendsWhere
  <2>2. WordAt(s, t, l, m)' = WordAt(s, t, l, m)
    BY <1>5, <1>7
  <2>3. Unchanged(s, t, l, m)
    BY <1>0, <2>1, <2>2, AsideSignal
  <2>4. s \in dead /\ Quiet(s, t) => Quiet(s, t)'
    <3> SUFFICES ASSUME s \in dead, Quiet(s, t) PROVE Quiet(s, t)'
      OBVIOUS
    <3>1. \A k \in Local : wire'[s][t][k] = wire[s][t][k]
      BY DEF Sends, WireGrows
    <3> QED BY <1>0, <3>1, Fixed DEF Quiet
  <2>5. Extent(t, m, s, l)' = Extent(t, m, s, l)
    BY <1>0 DEF Extent
  <2>6. TakenOK(t, s, l, m)'
    BY <1>0, <1>3, <1>4, <2>3, <2>4, <2>5, AsideTaken DEF Unchanged
  <2> QED BY <1>1, <1>4, <2>6
<1> QED BY <1>6, <1>7

(* Rows that other rows do not touch.                                       *)
LEMMA HoldsKeep ==
  ASSUME NEW S, NEW w \in Seq(S), NEW x \in S, NEW b, NEW st, NEW rg, NEW st2, NEW rg2,
         NEW P, NEW row,
         HoldsIn(w, b, st, rg, P, row),
         \A i \in DOMAIN w : RowMsg(w[i], b, P) => <<w[i].from, row>> \in st2,
         <<P, row>> \in rg => <<P, row>> \in rg2
  PROVE  /\ HoldsIn(w, b, st2, rg2, P, row)
         /\ (RowMsg(x, b, P) => <<x.from, row>> \in st2)
              => HoldsIn(Append(w, x), b, st2, rg2, P, row)
<1>1. HoldsIn(w, b, st2, rg2, P, row)
  BY DEF HoldsIn
<1>2. ASSUME RowMsg(x, b, P) => <<x.from, row>> \in st2
      PROVE  HoldsIn(Append(w, x), b, st2, rg2, P, row)
  BY <1>1, <1>2, HoldsAppend
<1> QED BY <1>1, <1>2

(* A step that sends a row.                                                 *)
RowStep(r, d, q, x, row) ==
  /\ Sends(r, d, q, x) /\ RowGoes(r, d, q, x, row)
  /\ x.kind = "row" /\ x.place[1] = KindOf(Pos(r))
  /\ kernel'[r].step = kernel[r].step
  /\ kernel'[r].cleaned = kernel[r].cleaned /\ kernel'[r].round = kernel[r].round
(* The send buffer still has what is on its way.                            *)
StillStaged(r) ==
  \A t \in Rank \ dead, l \in Local : \A i \in DOMAIN wire[r][t][l] : \A row :
    LET y == wire[r][t][l][i] IN
      y.kind = "row" /\ <<y.from, row>> \in staged[r][y.buf]
        => <<y.from, row>> \in staged'[r][y.buf]
OthersStaged(r) == \A s \in Rank : s # r => staged'[s] = staged[s]

(* A row tells nothing.                                                     *)
LEMMA RowsTold ==
  ASSUME Shape, NEW r \in Rank, NEW d \in Rank, NEW q \in Local, NEW x \in Msg, NEW row,
         RowStep(r, d, q, x, row)
  PROVE  \A s, t \in Rank, l \in Local : /\ Step(s, t, l)' = Step(s, t, l)
                                         /\ \A m : Told(s, t, l, m)' <=> Told(s, t, l, m)
<1> SUFFICES ASSUME NEW s \in Rank, NEW t \in Rank, NEW l \in Local
             PROVE  Step(s, t, l)' = Step(s, t, l) /\ \A m :
                      Told(s, t, l, m)' <=> Told(s, t, l, m)
  OBVIOUS
<1>1. run' = run /\ Pos(s)' = Pos(s) /\ kernel'[s].step = kernel[s].step
  BY DEF RowStep, Sends
<1>2. Step(s, t, l)' = Step(s, t, l)
  BY <1>1, Fixed DEF Step
<1> QED BY <1>1, <1>2 DEF Told

(* So the signals stay as they are.                                         *)
LEMMA RowsSignal ==
  ASSUME Shape, PosInv, KernelInv, SignalInv, NEW r \in Rank, NEW d \in Rank, NEW q \in Local,
         NEW x \in Msg, NEW row, RowStep(r, d, q, x, row)
  PROVE  SignalInv' /\ word' = word
<1>0. /\ Sends(r, d, q, x) /\ run' = run /\ dead' = dead /\ x.buf \in {0, 1}
           /\ RowGoes(r, d, q, x, row)
  <2>1. Active(Pos(r)) /\ x.buf = Side(Pos(r)) /\ Pos(r) \in Nat \ {0}
    BY KernelTypes DEF RowStep, Sends
  <2>2. Side(Pos(r)) \in {0, 1}
    BY <2>1, SideFacts
  <2> QED BY <2>1, <2>2 DEF RowStep, Sends
<1>1. word' = word
  BY <1>0, RowGoesFacts
<1> SUFFICES ASSUME NEW s \in Rank, NEW t \in Rank \ dead, NEW l \in Local,
                    NEW m \in 1 .. NumCalls,
                    Active(m), Ready(t, m)'
             PROVE  SignalOK(s, t, l, m)'
  BY <1>0, <1>1, Fixed DEF SignalInv
<1>2. Ready(t, m) /\ Near(t, m)
  <2>1. Ready(t, m)
    BY <1>0, SendsReady DEF RowStep
  <2> QED BY <2>1 DEF Ready, Near
<1>3. SignalOK(s, t, l, m)
  BY <1>2 DEF SignalInv
<1>4. WordAt(s, t, l, m)' = WordAt(s, t, l, m) /\ (Told(s, t, l, m)' <=> Told(s, t, l, m))
  BY <1>0, <1>1, RowsTold, Fixed, FixedToo DEF WordAt
<1>5. CASE Aside(s, t, l, Side(m))
  BY <1>0, <1>3, <1>4, <1>5, AsideSignal
<1>6. CASE Own(r, d, q, s, t, l) /\ m = Pos(r)
  <2>1. Untold(wire[s][t][l], Side(m), WordAt(s, t, l, m)) /\ ~Told(s, t, l, m)
    BY <1>0, <1>6, SendsUntold DEF Own
  <2>2. Untold(wire'[s][t][l], Side(m), WordAt(s, t, l, m))
    <3>1. CASE wire'[s][t][l] = wire[s][t][l]
      BY <2>1, <3>1
    <3>2. CASE wire'[s][t][l] = Append(wire[s][t][l], x)
      <4>1. wire[s][t][l] \in Seq(Msg)
        BY DEF Shape
      <4>2. ~AddMsg(x, Side(m))
        BY DEF AddMsg, RowStep
      <4> QED BY <2>1, <3>2, <4>1, <4>2, OtherSent
    <3> QED BY <1>0, <3>1, <3>2 DEF Sends, WireGrows
  <2>3. Untold(wire[s][t][l], Side(m), WordAt(s, t, l, m))'
    BY <1>0, <1>4, <2>2, Fixed DEF Untold, AddMsg
  <2> QED BY <1>4, <2>1, <2>3 DEF SignalOK
<1> QED BY <1>0, <1>2, <1>5, <1>6, SendsWhere

(* The rows of all channels, where no other row has the place.              *)
LEMMA RowsHold ==
  ASSUME Shape, PosInv, KernelInv, MemInv, NEW r \in Rank, NEW d \in Rank, NEW q \in Local,
         NEW x \in Msg, NEW row, RowStep(r, d, q, x, row), x.place \in Places,
         StillStaged(r), OthersStaged(r),
         d \notin dead /\ ~NVLink(r, d) => <<x.from, row>> \in staged'[r][x.buf],
         d \notin dead => \A z \in Rank, l \in Local : \A row2 :
           Expected(z, d, l, Pos(r), x.place, row2) => row2 = row,
         NEW s \in Rank, NEW t \in Rank \ dead, NEW l \in Local, NEW m \in 1 .. NumCalls,
         Active(m), Near(t, m)
  PROVE  HoldsKept(s, t, l, m)
<1>0. /\ Sends(r, d, q, x) /\ run' = run /\ dead' = dead /\ RowGoes(r, d, q, x, row)
      /\ r \in Rank \ dead /\ Active(Pos(r)) /\ x.buf = Side(Pos(r)) /\ Step(r, d, q) = "send"
      /\ x.kind = "row" /\ x.place[1] = KindOf(Pos(r))
  BY DEF RowStep, Sends
<1>1. Pos(r) \in Nat \ {0} /\ m \in Nat \ {0}
  BY KernelTypes
<1>2. Side(Pos(r)) \in {0, 1} /\ Side(m) \in {0, 1}
  BY <1>1, SideFacts
<1>3. WireGrows(r, d, q, x) /\ RegionGrows(r, d, x, row)
  BY <1>0, <1>2, RowGoesFacts
<1> SUFFICES ASSUME NEW P, NEW row2, Expected(s, t, l, m, P, row2), Holds(s, t, l, m, P, row2)
             PROVE  Holds(s, t, l, m, P, row2)'
  BY DEF HoldsKept
<1>4. ASSUME t = d, Side(m) = x.buf PROVE m = Pos(r)
  <2>1. Near(d, Pos(r)) /\ Pos(r) \in 1 .. NumCalls
    BY <1>0, <1>4, SenderNear
  <2> QED BY <1>0, <1>4, <2>1, SameCall
<1>5. HoldsIn(wire[s][t][l], Side(m), staged[s][Side(m)], region[t][Side(m)], P, row2)
  BY DEF Holds
<1>6. wire[s][t][l] \in Seq(Msg)
  BY DEF Shape
<1>7. ASSUME NEW i \in DOMAIN wire[s][t][l], RowMsg(wire[s][t][l][i], Side(m), P)
      PROVE  <<wire[s][t][l][i].from, row2>> \in staged'[s][Side(m)]
  <2>1. <<wire[s][t][l][i].from, row2>> \in staged[s][Side(m)]
    BY <1>5, <1>7 DEF HoldsIn
  <2>2. CASE s # r
    BY <2>1, <2>2 DEF OthersStaged
  <2>3. CASE s = r
    BY <1>7, <2>1, <2>3 DEF StillStaged, RowMsg
  <2> QED BY <2>2, <2>3
<1>8. <<P, row2>> \in region[t][Side(m)] => <<P, row2>> \in region'[t][Side(m)]
  <2> SUFFICES ASSUME <<P, row2>> \in region[t][Side(m)] PROVE <<P, row2>> \in region'[t][Side(m)]
    OBVIOUS
  <2>1. CASE region'[t][Side(m)] = region[t][Side(m)]
    BY <2>1
  <2>2. CASE t = d /\ Side(m) = x.buf
               /\ region'[t][Side(m)] = Overlay(region[t][Side(m)], x.place, row)
    <3>1. m = Pos(r)
      BY <1>4, <2>2
    <3>2. P[1] = x.place[1]
      BY <1>0, <3>1 DEF Expected, Slot, Back
    <3>3. Good(region[t][Side(m)], Places)
      BY <1>2 DEF MemInv
    <3>4. P = x.place => row2 = row
      BY <2>2, <3>1
    <3>5. PICK rg : rg = region[t][Side(m)]
      OBVIOUS
    <3>6. PICK pl \in Places : pl = x.place
      OBVIOUS
    <3>7. Good(rg, Places) /\ <<P, row2>> \in rg /\ P[1] = pl[1]
      BY <3>2, <3>3, <3>5, <3>6
    <3>8. /\ <<pl, row>> \in Overlay(rg, pl, row)
          /\ P # pl => <<P, row2>> \in Overlay(rg, pl, row)
      BY <3>7, OverlayFacts
    <3> QED BY <2>2, <3>4, <3>5, <3>6, <3>8
  <2> QED BY <1>2, <1>3, <2>1, <2>2 DEF RegionGrows
<1>9. HoldsIn(wire'[s][t][l], Side(m), staged'[s][Side(m)], region'[t][Side(m)], P, row2)
  <2>3. PICK w \in Seq(Msg), b \in {0, 1} : w = wire[s][t][l] /\ b = Side(m)
    BY <1>2, <1>6
  <2>4. PICK st, rg, st2, rg2 : /\ st = staged[s][Side(m)] /\ rg = region[t][Side(m)]
                               /\ st2 = staged'[s][Side(m)] /\ rg2 = region'[t][Side(m)]
    OBVIOUS
  <2>5. HoldsIn(w, b, st, rg, P, row2)
    BY <1>5, <2>3, <2>4
  <2>6. /\ \A i \in DOMAIN w : RowMsg(w[i], b, P) => <<w[i].from, row2>> \in st2
        /\ <<P, row2>> \in rg => <<P, row2>> \in rg2
    BY <1>7, <1>8, <2>3, <2>4
  <2>7. /\ HoldsIn(w, b, st2, rg2, P, row2)
        /\ (RowMsg(x, b, P) => <<x.from, row2>> \in st2)
             => HoldsIn(Append(w, x), b, st2, rg2, P, row2)
    BY <2>5, <2>6, HoldsKeep
  <2>1. CASE wire'[s][t][l] = wire[s][t][l]
    BY <2>1, <2>3, <2>4, <2>7
  <2>2. CASE s = r /\ t = d /\ l = q /\ ~NVLink(r, d)
               /\ wire'[s][t][l] = Append(wire[s][t][l], x)
    <3>1. RowMsg(x, Side(m), P) => <<x.from, row2>> \in staged'[s][Side(m)]
      <4> SUFFICES ASSUME RowMsg(x, Side(m), P) PROVE <<x.from, row2>> \in staged'[s][Side(m)]
        OBVIOUS
      <4>1. Side(m) = x.buf /\ P = x.place
        BY DEF RowMsg
      <4>2. m = Pos(r)
        BY <1>4, <2>2, <4>1
      <4>3. row2 = row
        BY <2>2, <4>1, <4>2
      <4> QED BY <2>2, <4>1, <4>3
    <3> QED BY <2>2, <2>3, <2>4, <2>7, <3>1
  <2> QED BY <1>3, <2>1, <2>2 DEF WireGrows
<1> QED BY <1>0, <1>9, Fixed DEF Holds, HoldsIn, RowMsg

(* The row itself.                                                          *)
LEMMA RowHeld ==
  ASSUME Shape, MemInv, NVLinkInv, NEW r \in Rank, NEW d \in Rank \ dead, NEW q \in Local,
         NEW x \in Msg, NEW row, RowStep(r, d, q, x, row), x.place \in Places,
         ~NVLink(r, d) => <<x.from, row>> \in staged'[r][x.buf],
         \A i \in DOMAIN wire[r][d][q] : RowMsg(wire[r][d][q][i], x.buf, x.place) =>
           <<wire[r][d][q][i].from, row>> \in staged'[r][x.buf]
  PROVE  Holds(r, d, q, Pos(r), x.place, row)'
<1>0. /\ run' = run /\ dead' = dead /\ RowGoes(r, d, q, x, row) /\ Pos(r)' = Pos(r)
      /\ x.buf = Side(Pos(r)) /\ x.kind = "row" /\ Pos(r) \in Nat \ {0}
  BY KernelTypes DEF RowStep, Sends
<1>2. x.buf \in {0, 1}
  BY <1>0, SideFacts
<1>3. Posted(r, d, q, x, row)
  BY <1>0, <1>2, RowGoesFacts
<1>4. wire[r][d][q] \in Seq(Msg) /\ Good(region[d][x.buf], Places)
  BY <1>2 DEF Shape, MemInv
<1>5. HoldsIn(wire'[r][d][q], x.buf, staged'[r][x.buf], region'[d][x.buf], x.place, row)
  <2>1. CASE /\ NVLink(r, d) /\ wire'[r][d][q] = wire[r][d][q]
             /\ region'[d][x.buf] = Overlay(region[d][x.buf], x.place, row)
    <3>1. wire[r][d][q] = <<>>
      BY <2>1 DEF NVLinkInv, Quiet
    <3>2. <<x.place, row>> \in region'[d][x.buf]
      <4>1. PICK rg : rg = region[d][x.buf]
        OBVIOUS
      <4>2. PICK pl \in Places : pl = x.place
        OBVIOUS
      <4>3. Good(rg, Places)
        BY <1>4, <4>1
      <4>4. <<pl, row>> \in Overlay(rg, pl, row)
        BY <4>3, OverlayFacts
      <4> QED BY <2>1, <4>1, <4>2, <4>4
    <3> QED BY <2>1, <3>1, <3>2 DEF HoldsIn
  <2>2. CASE ~NVLink(r, d) /\ wire'[r][d][q] = Append(wire[r][d][q], x)
    <3>1. RowMsg(x, x.buf, x.place)
      BY <1>0 DEF RowMsg
    <3> QED BY <1>4, <2>2, <3>1, HoldsSent
  <2> QED BY <1>3, <2>1, <2>2 DEF Posted
<1> QED BY <1>0, <1>5, Fixed DEF Holds, HoldsIn, RowMsg

(* A row on a wire is of its call.                                          *)
LEMMA RowsWire ==
  ASSUME Shape, PosInv, KernelInv, WireInv, NEW r \in Rank, NEW d \in Rank, NEW q \in Local,
         NEW x \in Msg, NEW row, RowStep(r, d, q, x, row), StillStaged(r), OthersStaged(r),
         \A s, t \in Rank, l \in Local, m \in 1 .. NumCalls : KindOf(m) = "dispatch" =>
           \A k \in 0 .. Slots(s, t, l, m) - 1 : k \in 0 .. Slots(s, t, l, m)' - 1,
         d \notin dead /\ ~NVLink(r, d) => IsMsg(r, d, q, Pos(r), x)'
  PROVE  WireInv'
<1>0. /\ Sends(r, d, q, x) /\ run' = run /\ dead' = dead
      /\ layout' = layout /\ rows' = rows /\ WireGrows(r, d, q, x)
      /\ \A s \in Rank : Pos(s)' = Pos(s)
  BY DEF RowStep, Sends
<1> SUFFICES ASSUME NEW s \in Rank, NEW t \in Rank \ dead, NEW l \in Local,
                    NEW i \in DOMAIN wire'[s][t][l], wire'[s][t][l][i].kind # "sync"
             PROVE  \E m \in 1 .. NumCalls : Near(t, m)' /\ IsMsg(s, t, l, m, wire[s][t][l][i])'
  BY <1>0, Fixed DEF WireInv
<1>1. \A m : Near(t, m)' <=> Near(t, m)
  BY <1>0, Fixed DEF Near
<1>2. ASSUME NEW j \in DOMAIN wire[s][t][l], wire'[s][t][l][i] = wire[s][t][l][j]
      PROVE  \E m \in 1 .. NumCalls : Near(t, m)' /\ IsMsg(s, t, l, m, wire[s][t][l][i])'
  <2>1. PICK y : y = wire[s][t][l][j]
    OBVIOUS
  <2>2. y.kind # "sync"
    BY <1>2, <2>1
  <2>3. PICK m \in 1 .. NumCalls : Near(t, m) /\ IsMsg(s, t, l, m, y)
    BY <2>1, <2>2 DEF WireInv
  <2>4. m <= Pos(s)' /\ y.buf = Side(m)
    BY <1>0, <2>3 DEF IsMsg
  <2>5. Handed(s, m)
    BY <1>0 DEF Handed
  <2>6. y.kind = "row" => \A z : <<y.from, z>> \in staged[s][Side(m)]
          => <<y.from, z>> \in staged'[s][Side(m)]
    <3>1. CASE s = r
      BY <2>1, <2>4, <3>1 DEF StillStaged
    <3>2. CASE s # r
      BY <3>2 DEF OthersStaged
    <3> QED BY <3>1, <3>2
  <2>7. IsMsg(s, t, l, m, y)'
    BY <1>0, <2>3, <2>4, <2>5, <2>6, MsgKept
  <2> QED BY <1>1, <1>2, <2>1, <2>3, <2>7
<1>3. CASE wire'[s][t][l] = wire[s][t][l]
  BY <1>2, <1>3
<1>4. CASE s = r /\ t = d /\ l = q /\ ~NVLink(r, d) /\ wire'[s][t][l] = Append(wire[s][t][l], x)
  <2>1. wire[s][t][l] \in Seq(Msg)
    BY DEF Shape
  <2>2. PICK w \in Seq(Msg) : w = wire[s][t][l]
    BY <2>1
  <2>3. \A j \in DOMAIN w : Append(w, x)[j] = w[j]
    BY <2>2, AppendFacts
  <2>4. i \in DOMAIN w \/ (i = Len(w) + 1 /\ Append(w, x)[i] = x)
    BY <1>4, <2>2, AppendFacts
  <2>5. CASE i \in DOMAIN w
    BY <1>2, <1>4, <2>2, <2>3, <2>5
  <2>6. CASE wire'[s][t][l][i] = x
    <3>1. Near(t, Pos(r)) /\ Pos(r) \in 1 .. NumCalls
      BY <1>0, <1>4, SenderNear DEF Sends
    <3>2. IsMsg(r, d, q, Pos(r), x)'
      BY <1>4
    <3>3. PICK m \in 1 .. NumCalls : m = Pos(r)
      BY <3>1
    <3>4. m = Pos(r)'
      BY <1>0, <3>3
    <3>5. IsMsg(r, d, q, m, x)'
      BY <3>2, <3>4
    <3> QED BY <1>1, <1>4, <2>6, <3>1, <3>3, <3>5
  <2> QED BY <1>4, <2>2, <2>4, <2>5, <2>6
<1> QED BY <1>0, <1>3, <1>4 DEF WireGrows

(* The rows of all channels but one are as before.                          *)
LEMMA RowsHoldsInv ==
  ASSUME Shape, PosInv, KernelInv, MemInv, HoldsInv, NEW r \in Rank, NEW d \in Rank,
         NEW q \in Local,
         NEW x \in Msg, NEW row, RowStep(r, d, q, x, row), word' = word,
         \A s \in Rank, t \in Rank \ dead, l \in Local, m \in 1 .. NumCalls :
           Active(m) /\ Near(t, m) => HoldsKept(s, t, l, m),
         \A s \in Rank, t \in Rank \ dead, l \in Local, m \in 1 .. NumCalls :
           Active(m) /\ (~Own(r, d, q, s, t, l) \/ m # Pos(r)) => RowsSame(s, t, l, m),
         d \notin dead /\ RowsOK(r, d, q, Pos(r)) => RowsOK(r, d, q, Pos(r))'
  PROVE  HoldsInv'
<1>0. /\ Sends(r, d, q, x) /\ run' = run /\ dead' = dead
      /\ \A s \in Rank : Pos(s)' = Pos(s)
  BY DEF RowStep, Sends
<1> SUFFICES ASSUME NEW s \in Rank, NEW t \in Rank \ dead, NEW l \in Local,
                    NEW m \in 1 .. NumCalls,
                    Near(t, m)', Pos(s) >= m, ~Lost(s, t, l, m)'
             PROVE  RowsOK(s, t, l, m)'
  BY <1>0, Fixed DEF HoldsInv
<1>1. Near(t, m)
  BY <1>0, Fixed DEF Near
<1>2. CASE ~Active(m)
  BY <1>0, <1>2, Fixed DEF RowsOK, Active
<1>3. CASE Active(m) /\ Aside(s, t, l, Side(m)) /\ (~Own(r, d, q, s, t, l) \/ m # Pos(r))
  <2>1. WordAt(s, t, l, m)' = WordAt(s, t, l, m)
    BY <1>0, Fixed, FixedToo DEF WordAt
  <2>2. ~Lost(s, t, l, m)
    BY <1>0, <1>3, <2>1, AsideSignal DEF Unchanged
  <2>3. RowsOK(s, t, l, m)
    BY <1>1, <2>2 DEF HoldsInv
  <2>4. HoldsKept(s, t, l, m) /\ RowsSame(s, t, l, m)
    BY <1>1, <1>3
  <2> QED BY <1>0, <2>3, <2>4, RowsKept DEF RowsSame
<1>4. CASE Own(r, d, q, s, t, l) /\ m = Pos(r)
  <2>1. ~Lost(s, t, l, m)
    BY <1>0, <1>4 DEF Lost, Own, Sends
  <2>2. RowsOK(s, t, l, m)
    BY <1>1, <2>1 DEF HoldsInv
  <2>3. RowsOK(r, d, q, Pos(r))'
    BY <1>4, <2>2 DEF Own
  <2>4. m = Pos(r)' /\ s = r /\ t = d /\ l = q
    BY <1>0, <1>4 DEF Own
  <2> QED BY <2>3, <2>4
<1>5. CASE Active(m) /\ ~(Own(r, d, q, s, t, l) /\ m = Pos(r))
  <2>1. Aside(s, t, l, Side(m))
    BY <1>0, <1>1, <1>5, SendsWhere
  <2> QED BY <1>3, <1>5, <2>1
<1> QED BY <1>2, <1>4, <1>5

(* A row that goes over NVLink is the only one at its place.                *)
LEMMA RowsMemory ==
  ASSUME Shape, MemInv, NVLinkInv, NEW r \in Rank, NEW d \in Rank, NEW q \in Local,
         NEW x \in Msg, NEW row, RowStep(r, d, q, x, row), x.place \in Places,
         \A s \in Rank, b \in {0, 1} : Good(staged'[s][b], Froms)
  PROVE  MemInv' /\ NVLinkInv'
<1>0. /\ Sends(r, d, q, x) /\ run' = run /\ dead' = dead /\ RowGoes(r, d, q, x, row)
      /\ WireGrows(r, d, q, x) /\ x.buf = Side(Pos(r)) /\ Pos(r) \in Nat \ {0}
  BY KernelTypes DEF RowStep, Sends
<1>1. x.buf \in {0, 1}
  BY <1>0, SideFacts
<1>2. RegionGrows(r, d, x, row)
  BY <1>0, <1>1, RowGoesFacts
<1>3. ASSUME NEW s \in Rank, NEW b \in {0, 1} PROVE Good(region'[s][b], Places)
  <2>1. Good(region[s][b], Places)
    BY DEF MemInv
  <2>2. PICK rg : rg = region[s][b]
    OBVIOUS
  <2>3. PICK pl \in Places : pl = x.place
    OBVIOUS
  <2>4. Good(Overlay(rg, pl, row), Places)
    BY <2>1, <2>2, OverlayFacts
  <2> QED BY <1>2, <2>1, <2>2, <2>3, <2>4 DEF RegionGrows
<1>4. MemInv'
  BY <1>0, <1>3, FixedToo DEF MemInv, Rank, Good
<1>5. NVLinkInv'
  <2> SUFFICES ASSUME NEW s \in Rank, NEW t \in Rank, NVLink(s, t), NEW l \in Local
               PROVE  wire'[s][t][l] = <<>>
    BY <1>0, Fixed DEF NVLinkInv, Quiet
  <2>1. wire[s][t][l] = <<>>
    BY DEF NVLinkInv, Quiet
  <2>2. wire'[s][t][l] = wire[s][t][l]
    BY <1>0 DEF WireGrows
  <2> QED BY <2>1, <2>2
<1> QED BY <1>4, <1>5

(* The send buffer.                                                         *)
Staged(r, b, f, row) == staged' = [staged EXCEPT ![r][b] = Overlay(@, f, row)]
Keep(f2, row2, f, row) == f2[1] = f[1] /\ (f2 = f => row2 = row)

(* A row in the send buffer replaces at most that of its own place.         *)
LEMMA StagedFacts ==
  ASSUME Shape, MemInv, run' = run, NEW r \in Rank, NEW b \in {0, 1}, NEW f \in Froms, NEW row,
         Staged(r, b, f, row)
  PROVE  /\ Buffers(staged)' /\ OthersStaged(r) /\ <<f, row>> \in staged'[r][b]
         /\ \A s \in Rank, c \in {0, 1} : Good(staged'[s][c], Froms)
         /\ \A c \in {0, 1} : c # b => staged'[r][c] = staged[r][c]
         /\ \A f2, row2 : <<f2, row2>> \in staged[r][b] /\ Keep(f2, row2, f, row) =>
              <<f2, row2>> \in staged'[r][b]
<1>1. PICK mem : mem = staged[r][b]
  OBVIOUS
<1>2. Good(mem, Froms)
  BY <1>1 DEF MemInv
<1>3. PICK y : y = Overlay(mem, f, row)
  OBVIOUS
<1>4. Good(y, Froms) /\ <<f, row>> \in y
  BY <1>2, <1>3, OverlayFacts
<1>5. \A f2, row2 : <<f2, row2>> \in mem /\ f2[1] = f[1] /\ f2 # f => <<f2, row2>> \in y
  BY <1>2, <1>3, OverlayFacts
<1>6. staged = [z \in Rank |-> [c \in {0, 1} |-> staged[z][c]]]
  BY DEF Shape, Buffers
<1>7. staged' = [staged EXCEPT ![r][b] = y]
  BY <1>1, <1>3 DEF Staged
<1>8. /\ staged' = [z \in Rank |-> [c \in {0, 1} |-> staged'[z][c]]]
      /\ staged'[r][b] = y
      /\ \A z \in Rank, c \in {0, 1} : z # r \/ c # b => staged'[z][c] = staged[z][c]
      /\ \A z \in Rank : z # r => staged'[z] = staged[z]
  BY <1>6, <1>7
<1>9. Buffers(staged)'
  BY <1>8, Fixed DEF Buffers, Rank
<1>10. \A s \in Rank, c \in {0, 1} : Good(staged'[s][c], Froms)
  BY <1>4, <1>8 DEF MemInv
<1>11. \A f2, row2 : <<f2, row2>> \in staged[r][b] /\ Keep(f2, row2, f, row) =>
              <<f2, row2>> \in staged'[r][b]
  <2> SUFFICES ASSUME NEW f2, NEW row2, <<f2, row2>> \in mem, f2[1] = f[1], f2 = f => row2 = row
               PROVE  <<f2, row2>> \in y
    BY <1>1, <1>8 DEF Keep
  <2> QED BY <1>4, <1>5
<1> QED BY <1>4, <1>8, <1>9, <1>10, <1>11 DEF OthersStaged

(* What is on its way in the buffer of this call is of this call.           *)
LEMMA Pending ==
  ASSUME Shape, PosInv, WireInv, NEW r \in Rank, Active(Pos(r)), NEW t \in Rank \ dead,
         NEW l \in Local,
         NEW i \in DOMAIN wire[r][t][l], wire[r][t][l][i].kind = "row",
         wire[r][t][l][i].buf = Side(Pos(r))
  PROVE  RowOf(r, t, l, Pos(r), wire[r][t][l][i])
<1>1. PICK y : y = wire[r][t][l][i]
  OBVIOUS
<1>2. y.kind # "sync"
  BY <1>1
<1>3. PICK m \in 1 .. NumCalls : Near(t, m) /\ IsMsg(r, t, l, m, y)
  BY <1>1, <1>2 DEF WireInv
<1>4. Active(m) /\ m <= Pos(r) /\ Side(m) = Side(Pos(r)) /\ RowOf(r, t, l, m, y)
  BY <1>1, <1>3 DEF IsMsg
<1>5. m = Pos(r)
  BY <1>3, <1>4, SameSide
<1> QED BY <1>1, <1>4, <1>5

(* The counts and the masks, when a rank sends what is of a call.           *)
LEMMA SendsPeers ==
  ASSUME IInv, NEW r \in Rank, NEW d \in Rank, NEW q \in Local, NEW x \in Msg,
         Sends(r, d, q, x),
         x.kind # "sync", sync' = sync, kernel'[r].met = kernel[r].met
  PROVE  Peers'
<1>0. /\ Shape /\ SyncInv /\ DeadInv /\ MaskInv
  BY IInvFacts
<1>1. /\ run' = run /\ dead' = dead /\ mask' = mask /\ WireGrows(r, d, q, x) /\ r \notin dead
      /\ \A y \in Rank : Pos(y)' = Pos(y) /\ kernel'[y].met = kernel[y].met
  BY DEF Sends
<1>2. \A y \in Rank : AtEnd(y) => AtEnd(y)'
  BY <1>0, <1>1, AtEndKept
<1>3. \A y, z \in Rank, l \in Local : NoSync(wire[y][z][l]) => NoSync(wire'[y][z][l])
  <2> SUFFICES ASSUME NEW y \in Rank, NEW z \in Rank, NEW l \in Local, NoSync(wire[y][z][l])
               PROVE  NoSync(wire'[y][z][l])
    OBVIOUS
  <2>1. CASE wire'[y][z][l] = wire[y][z][l]
    BY <2>1
  <2>2. CASE wire'[y][z][l] = Append(wire[y][z][l], x)
    <3>1. wire[y][z][l] \in Seq(Msg)
      BY <1>0 DEF Shape
    <3>2. PICK w \in Seq(Msg) : w = wire[y][z][l]
      BY <3>1
    <3>3. /\ \A i \in DOMAIN w : Append(w, x)[i] = w[i]
          /\ \A i \in DOMAIN Append(w, x) : i \in DOMAIN w \/ i = Len(w) + 1
          /\ Append(w, x)[Len(w) + 1] = x
      BY AppendFacts
    <3> QED BY <2>2, <3>2, <3>3 DEF NoSync
  <2> QED BY <1>1, <2>1, <2>2 DEF WireGrows
<1>4. SyncInv'
  BY <1>0, <1>1, <1>2, <1>3, SyncKept
<1>5. DeadInv'
  BY <1>0, <1>1 DEF DeadInv
<1>6. MaskInv'
  <2>1. \A y \in dead, z \in Rank : Quiet(y, z) => Quiet(y, z)'
    <3> SUFFICES ASSUME NEW y \in dead, NEW z \in Rank, Quiet(y, z) PROVE Quiet(y, z)'
      OBVIOUS
    <3>1. y \in Rank /\ y # r
      BY <1>0, <1>1 DEF Shape
    <3>2. \A l \in Local : wire'[y][z][l] = wire[y][z][l]
      BY <1>1, <3>1 DEF WireGrows
    <3> QED BY <1>1, <3>2, Fixed DEF Quiet
  <2>2. \A y \in Rank : \A z \in mask'[y] :
           z \in mask[y] \/ (z \in dead /\ Quiet(z, y)) \/ (AtEnd(y) /\ AtEnd(z))
    BY <1>1
  <2> QED BY <1>0, <1>1, <1>2, <2>1, <2>2, MaskKept
<1> QED BY <1>4, <1>5, <1>6 DEF Peers

(* Where the kernels stand.                                                 *)
LEMMA SendsStanding ==
  ASSUME IInv, NEW r \in Rank, NEW d \in Rank, NEW q \in Local, NEW x \in Msg,
         Sends(r, d, q, x),
         NEW cleaned, NEW todo, NEW finish, NEW step,
         Becomes(r, cleaned, todo, finish, step, kernel[r].round, kernel[r].met),
         Step(r, d, q)' \in {"send", "sent"}, KernelInv', sync' = sync
  PROVE  Standing' /\ kernel'[r].met = kernel[r].met
<1>0. Shape /\ IdxInv /\ PosInv /\ MetInv /\ EnterInv
  BY IInvFacts
<1>1. /\ Alone(r) /\ run' = run /\ Pos(r)' = Pos(r) /\ kernel'[r].idx = kernel[r].idx
      /\ kernel'[r].round = kernel[r].round /\ kernel'[r].met = kernel[r].met
  BY BecomesFacts
<1>2. IdxInv'
  BY <1>0, <1>1, IdxWithin
<1>3. Within(r)
  <2>1. \A t \in Rank, l \in Local : Step(r, t, l) # "send" => Step(r, t, l)' # "send"
    BY DEF Sends
  <2> QED BY <1>1, <2>1 DEF Within
<1>4. PosInv'
  BY <1>0, <1>3, PosWithin
<1>5. StillMet
  BY BecomesStill
<1>6. MetInv' /\ EnterInv'
  BY <1>0, <1>1, <1>5, MetStill
<1> QED BY <1>1, <1>2, <1>4, <1>6 DEF Standing

(* What is left to show of a step that sends a row.                         *)
LEMMA IInvRows ==
  ASSUME IInv, NEW r \in Rank, NEW d \in Rank, NEW q \in Local, NEW x \in Msg, NEW row,
         RowStep(r, d, q, x, row), x.place \in Places,
         NEW todo \in SUBSET Items, NEW finish \in [Expert -> Int],
         Becomes(r, kernel[r].cleaned, todo, finish, kernel[r].step, kernel[r].round, kernel[r].met),
         kernel' = [y \in Rank |-> kernel'[y]], KernelInv',
         counter' = counter \/ counter' \in [Rank -> [Expert -> Nat]],
         sync' = sync, packed' = packed, outputs' = outputs,
         Buffers(staged)', \A s \in Rank, b \in {0, 1} : Good(staged'[s][b], Froms),
         StillStaged(r), OthersStaged(r),
         d \notin dead /\ ~NVLink(r, d) => <<x.from, row>> \in staged'[r][x.buf],
         d \notin dead => \A z \in Rank, l \in Local : \A row2 :
           Expected(z, d, l, Pos(r), x.place, row2) => row2 = row,
         d \notin dead /\ ~NVLink(r, d) => IsMsg(r, d, q, Pos(r), x)',
         \A s, t \in Rank, l \in Local, m \in 1 .. NumCalls : KindOf(m) = "dispatch" =>
           \A k \in 0 .. Slots(s, t, l, m) - 1 : k \in 0 .. Slots(s, t, l, m)' - 1,
         \A s \in Rank, t \in Rank \ dead, l \in Local, m \in 1 .. NumCalls :
           Active(m) /\ (~Own(r, d, q, s, t, l) \/ m # Pos(r)) => RowsSame(s, t, l, m),
         d \notin dead /\ RowsOK(r, d, q, Pos(r)) => RowsOK(r, d, q, Pos(r))'
  PROVE  IInv'
<1>0. /\ Shape /\ PosInv /\ KernelInv /\ MemInv /\ SignalInv /\ HoldsInv /\ WireInv
      /\ NVLinkInv /\ TakenInv /\ Keeps
  BY IInvFacts
<1>1. Sends(r, d, q, x) /\ RowGoes(r, d, q, x, row) /\ x.kind = "row"
      /\ kernel'[r].step = kernel[r].step
  BY DEF RowStep
<1>2. run' = run /\ dead' = dead /\ mask' = mask /\ Active(Pos(r)) /\ x.buf = Side(Pos(r))
      /\ (\A s \in Rank : Pos(s)' = Pos(s)) /\ Step(r, d, q) = "send"
      /\ \A s \in Rank : s # r => kernel'[s] = kernel[s]
  BY <1>1 DEF Sends
<1>3. SignalInv' /\ word' = word
  BY <1>0, RowsSignal
<1>4. /\ region' = region \/ Buffers(region)'
      /\ wire' = wire \/ wire' \in [Rank -> [Rank -> [Local -> Seq(Msg)]]]
  <2>1. x.buf \in {0, 1}
    BY <1>0, <1>2, KernelTypes, SideFacts
  <2> QED BY <1>0, <1>1, <1>2, <2>1, RowGoesFacts
<1>5. kernel' \in [Rank -> Kernels']
  BY <1>0, KernelTypes, BecomesKernel
<1>6. Shape'
  <2>1. dead' \in SUBSET Rank
    BY <1>0, <1>2 DEF Shape
  <2>2. layout' = layout /\ rows' = rows /\ out' = out
    BY DEF outputs
  <2> QED BY <1>0, <1>2, <1>3, <1>4, <1>5, <2>1, <2>2, ShapeKept
<1>7. \A s, t \in Rank, l \in Local : Step(s, t, l)' = Step(s, t, l)
  BY <1>0, RowsTold
<1>8. Standing' /\ kernel'[r].met = kernel[r].met
  <2>1. Step(r, d, q)' \in {"send", "sent"}
    BY <1>2, <1>7
  <2> QED BY <1>1, <2>1, SendsStanding
<1>9. Peers'
  <2>1. x.kind # "sync"
    BY <1>1
  <2> QED BY <1>1, <1>8, <2>1, SendsPeers
<1>10. TakenInv'
  <2>1. \A l \in Local : Taken(r, d, l)' => Taken(r, d, l)
    BY <1>7 DEF Taken
  <2>2. \A s \in Rank, t \in Rank \ dead, l \in Local, m \in 1 .. NumCalls :
           WordAt(s, t, l, m)' = WordAt(s, t, l, m)
    <3>1. \A m, s, l : WordOf(m, s, l)' = WordOf(m, s, l)
      BY <1>2, FixedToo
    <3>2. \A m : Side(m)' = Side(m)
      BY <1>2, Fixed
    <3> QED BY <1>3, <3>1, <3>2 DEF WordAt
  <2> QED BY <1>0, <1>1, <2>1, <2>2, SendsTaken
<1>11. WireInv'
  BY <1>0, RowsWire
<1>12. HoldsInv'
  <2>1. \A s \in Rank, t \in Rank \ dead, l \in Local, m \in 1 .. NumCalls :
           Active(m) /\ Near(t, m) => HoldsKept(s, t, l, m)
    BY <1>0, RowsHold
  <2> QED BY <1>0, <1>3, <2>1, RowsHoldsInv
<1>13. MemInv' /\ NVLinkInv'
  BY <1>0, RowsMemory
<1>14. Keeps'
  <2>1. \A y \in Rank : kernel'[y].step = kernel[y].step
    BY <1>1, <1>2
  <2>2. dead \subseteq dead'
    BY <1>2
  <2> QED BY <1>0, <1>2, <2>1, <2>2, KeepsFrame
<1>15. Channels'
  BY <1>3, <1>11, <1>12, <1>13 DEF Channels
<1> QED BY <1>6, <1>8, <1>9, <1>10, <1>14, <1>15 DEF IInv

RowOn(b, P, f) == [kind |-> "row", buf |-> b, place |-> P, from |-> f]

(* A row goes out in the buffer of the call.                                *)
LEMMA PutRowGoes ==
  ASSUME Shape, IdxInv, MaskInv, NEW r \in Rank, Active(Pos(r)), NEW d \in Rank, NEW q,
         NEW P, NEW f,
         NEW row, PutRow(r, d, q, P, f, row)
  PROVE  RowGoes(r, d, q, RowOn(Side(Pos(r)), P, f), row) /\ (Masked(r, d) => d \in dead)
<1>1. Buf(r) = Side(Pos(r))
  BY BufFacts
<1>2. Masked(r, d) => d \in dead
  BY MaskedDead DEF Masked
<1>3. PICK b : b = Side(Pos(r))
  OBVIOUS
<1>4. RowOn(b, P, f).buf = b /\ RowOn(b, P, f).place = P
  BY DEF RowOn
<1>5. RowGoes(r, d, q, RowOn(b, P, f), row)
  <2>1. CASE Masked(r, d) /\ UNCHANGED memory
    BY <1>2, <2>1 DEF RowGoes
  <2>2. CASE /\ ~Masked(r, d) /\ NVLink(r, d)
             /\ region' = [region EXCEPT ![d][b] = Overlay(@, P, row)]
             /\ UNCHANGED <<word, wire>>
    BY <1>4, <2>2 DEF RowGoes
  <2>3. CASE /\ ~Masked(r, d) /\ ~NVLink(r, d)
             /\ wire' = [wire EXCEPT ![r][d][q] = Append(@, RowOn(b, P, f))]
             /\ UNCHANGED <<word, region>>
    BY <2>3 DEF RowGoes, PutOn
  <2> QED BY <1>1, <1>3, <2>1, <2>2, <2>3 DEF PutRow, RowOn
<1> QED BY <1>2, <1>3, <1>5

(* What sending a row is, for its rank and the others.                      *)
LEMMA RowSends ==
  ASSUME Shape, IdxInv, MaskInv, NEW r \in Rank, r \notin dead, dead' = dead, Active(Pos(r)),
         NEW d \in Rank, NEW q \in Local, Step(r, d, q) = "send",
         NEW P \in Places, P[1] = KindOf(Pos(r)), NEW f \in Froms, NEW row,
           PutRow(r, d, q, P, f, row),
         NEW todo, NEW finish,
         Becomes(r, kernel[r].cleaned, todo, finish, kernel[r].step, kernel[r].round, kernel[r].met),
         \A s \in Rank : s # r => counter'[s] = counter[s],
         mask' = mask, layout' = layout, rows' = rows
  PROVE  /\ RowStep(r, d, q, RowOn(Side(Pos(r)), P, f), row)
         /\ RowOn(Side(Pos(r)), P, f) \in Msg
<1>1. PICK b : b = Side(Pos(r))
  OBVIOUS
<1>2. PICK x : x = RowOn(b, P, f)
  OBVIOUS
<1>3. b \in {0, 1}
  BY <1>1, KernelTypes, SideFacts
<1>4. x \in Msg /\ x.kind = "row" /\ x.buf = b /\ x.place = P
  BY <1>2, <1>3 DEF RowOn, Msg
<1>5. RowGoes(r, d, q, x, row)
  BY <1>1, <1>2, PutRowGoes
<1>6. /\ Alone(r) /\ run' = run /\ Pos(r)' = Pos(r) /\ kernel'[r].step = kernel[r].step
      /\ kernel'[r].cleaned = kernel[r].cleaned /\ kernel'[r].round = kernel[r].round
  BY BecomesFacts
<1>7. /\ \A s \in Rank : s # r => kernel'[s] = kernel[s]
      /\ \A s \in Rank : Pos(s)' = Pos(s)
      /\ \A s, t \in Rank, l \in Local : Step(s, t, l)' = Step(s, t, l)
  BY <1>6, Fixed DEF Alone, Pos, Step
<1>8. WireGrows(r, d, q, x)
  BY <1>3, <1>4, <1>5, <1>6, RowGoesFacts
<1>9. Sends(r, d, q, x)
  BY <1>1, <1>4, <1>6, <1>7, <1>8 DEF Sends
<1>10. RowStep(r, d, q, x, row)
  BY <1>4, <1>5, <1>6, <1>9 DEF RowStep
<1> QED BY <1>1, <1>2, <1>4, <1>10

(* A token goes to the next slot of its expert.                             *)
TokenFrom(t) == <<"dispatch", t>>
TokenRow(r, t) == <<Pos(r), r, t>>
TokenSends(r, t, e, d, q, k) ==
  /\ r \notin dead /\ KindOf(Pos(r)) = "dispatch" /\ Active(Pos(r)) /\ Pos(r) \in 1 .. NumCalls
  /\ k \in 0 .. MaxTokens - 1 /\ k \in Nat /\ t \in 0 .. MaxTokens - 1
  /\ t \in Tokens(Pos(r), r, d, q) /\ Step(r, d, q) = "send" /\ <<t, e>> \in kernel[r].todo
  /\ Slot(q, r, k) \in Places /\ TokenFrom(t) \in Froms
  /\ RowStep(r, d, q, RowOn(Side(Pos(r)), Slot(q, r, k), TokenFrom(t)), TokenRow(r, t))
  /\ RowOn(Side(Pos(r)), Slot(q, r, k), TokenFrom(t)) \in Msg
  /\ Staged(r, Side(Pos(r)), TokenFrom(t), TokenRow(r, t))
  /\ kernel'[r].todo = kernel[r].todo \ {<<t, e>>}
  /\ counter' \in [Rank -> [Expert -> Nat]]
  /\ counter'[r] = [counter[r] EXCEPT ![e] = k + 1]
  /\ \A s \in Rank : s # r => counter'[s] = counter[s]
  /\ sync' = sync /\ packed' = packed /\ outputs' = outputs

(* A token that is sent is for that expert, and has a slot of its own.      *)
LEMMA TokenSendsFacts ==
  ASSUME IInv, NEW r \in Rank, NEW t, NEW e \in Expert, SendToken(r, t, e),
         NEW d \in Rank, NEW q \in Local, d = Owner(e), q = LocalOf(e), GlobalOf(d, q) = e,
         NEW k, k = counter[r][e]
  PROVE  TokenSends(r, t, e, d, q, k)
<1>0. Shape /\ IdxInv /\ MaskInv /\ KernelInv /\ run \in Runs
  BY IInvFacts DEF Shape
<1>1. /\ r \notin dead /\ dead' = dead /\ KindOf(Pos(r)) = "dispatch"
      /\ Active(Pos(r)) /\ <<t, e>> \in kernel[r].todo
      /\ Becomes(r, kernel[r].cleaned, kernel[r].todo \ {<<t, e>>},
                    [kernel[r].finish EXCEPT ![e] = @ + 1],
                    kernel[r].step, kernel[r].round, kernel[r].met)
      /\ counter' = [counter EXCEPT ![r][e] = @ + 1]
  BY <1>0, SendTokenStep
<1>2. t \in TokensFor(Pos(r), r, e) /\ kernel[r].step[e] = "send" /\ counter[r][e] < MaxTokens
  BY <1>0, KernelSendToken
<1>3. Pos(r) \in 1 .. NumCalls
  BY <1>0, <1>1, KindFacts
<1>4. t \in 0 .. MaxTokens - 1
  BY <1>0, <1>1, <1>2, <1>3, TokenFacts
<1>5. k \in Nat /\ k \in 0 .. MaxTokens - 1
  <2>1. counter[r] \in [Expert -> Nat] /\ MaxTokens \in Nat
    BY <1>0, KernelTypes, RunFacts
  <2>2. k \in Nat /\ k < MaxTokens
    BY <1>2, <2>1
  <2> QED BY <2>1, <2>2
<1>6. Slot(q, r, k) \in Places /\ Slot(q, r, k)[1] = "dispatch" /\ TokenFrom(t) \in Froms
  BY <1>4, <1>5 DEF Slot, Places, TokenFrom, Froms
<1>7. counter \in [Rank -> [Expert -> Nat]]
  BY <1>0 DEF Shape
<1>8. /\ counter' \in [Rank -> [Expert -> Nat]]
      /\ counter'[r] = [counter[r] EXCEPT ![e] = k + 1]
      /\ \A s \in Rank : s # r => counter'[s] = counter[s]
  <2>1. \A f : counter' = [counter EXCEPT ![r] = f] /\ f \in [Expert -> Nat] =>
           counter' \in [Rank -> [Expert -> Nat]] /\ counter'[r] = f
           /\ \A s \in Rank : s # r => counter'[s] = counter[s]
    BY <1>7
  <2>2. [counter[r] EXCEPT ![e] = k + 1] \in [Expert -> Nat]
    BY <1>5, <1>7
  <2>3. counter' = [counter EXCEPT ![r] = [counter[r] EXCEPT ![e] = k + 1]]
    BY <1>1, <1>7
  <2>4. Expert' = Expert
    BY <1>1, BecomesFacts, Fixed
  <2> QED BY <2>1, <2>2, <2>3, <2>4
<1>9. /\ PutRow(r, d, q, Slot(q, r, k), TokenFrom(t), TokenRow(r, t))
      /\ staged' = Stage(r, TokenFrom(t), TokenRow(r, t))
      /\ sync' = sync /\ mask' = mask /\ packed' = packed /\ outputs' = outputs
  BY DEF SendToken, Slot, TokenFrom, TokenRow, Pos
<1>10. Staged(r, Side(Pos(r)), TokenFrom(t), TokenRow(r, t))
  BY <1>0, <1>1, <1>9, BufFacts DEF Staged, Stage
<1>11. layout' = layout /\ rows' = rows
  BY <1>9 DEF outputs
<1>12. Step(r, d, q) = "send" /\ t \in Tokens(Pos(r), r, d, q)
  BY <1>2 DEF Step, Tokens
<1>13. /\ RowStep(r, d, q, RowOn(Side(Pos(r)), Slot(q, r, k), TokenFrom(t)), TokenRow(r, t))
       /\ RowOn(Side(Pos(r)), Slot(q, r, k), TokenFrom(t)) \in Msg
  BY <1>0, <1>1, <1>6, <1>8, <1>9, <1>11, <1>12, RowSends
<1>14. kernel'[r].todo = kernel[r].todo \ {<<t, e>>}
  BY <1>1, BecomesFacts
<1> QED BY <1>1, <1>3, <1>4, <1>5, <1>6, <1>8, <1>9, <1>10, <1>12, <1>13, <1>14 DEF TokenSends

(* A token stands behind no other of its call.                              *)
LEMMA TokenStaged ==
  ASSUME IInv, run' = run, NEW r \in Rank, Active(Pos(r)), KindOf(Pos(r)) = "dispatch",
         NEW t \in 0 .. MaxTokens - 1, TokenFrom(t) \in Froms,
         Staged(r, Side(Pos(r)), TokenFrom(t), TokenRow(r, t))
  PROVE  StillStaged(r)
<1>0. Shape /\ MemInv /\ PosInv /\ WireInv
  BY IInvFacts
<1>1. PICK b \in {0, 1} : b = Side(Pos(r))
  BY <1>0, KernelTypes, SideFacts
<1>2. /\ \A c \in {0, 1} : c # b => staged'[r][c] = staged[r][c]
      /\ \A f2, row2 : <<f2, row2>> \in staged[r][b]
           /\ Keep(f2, row2, TokenFrom(t), TokenRow(r, t)) =>
           <<f2, row2>> \in staged'[r][b]
  BY <1>0, <1>1, StagedFacts
<1> SUFFICES ASSUME NEW z \in Rank \ dead, NEW l \in Local, NEW i \in DOMAIN wire[r][z][l],
                    NEW row2,
                    wire[r][z][l][i].kind = "row",
                    <<wire[r][z][l][i].from, row2>> \in staged[r][wire[r][z][l][i].buf]
             PROVE  <<wire[r][z][l][i].from, row2>> \in staged'[r][wire[r][z][l][i].buf]
  BY DEF StillStaged
<1>3. PICK y : y = wire[r][z][l][i]
  OBVIOUS
<1>4. y.kind = "row" /\ <<y.from, row2>> \in staged[r][y.buf]
  BY <1>3
<1>5. y.buf \in {0, 1}
  <2>1. wire[r][z][l] \in Seq(Msg)
    BY <1>0 DEF Shape
  <2>2. y \in Msg
    BY <1>3, <2>1
  <2> QED BY <1>4, <2>2 DEF Msg
<1>6. CASE y.buf # b
  BY <1>2, <1>3, <1>4, <1>5, <1>6
<1>7. CASE y.buf = b
  <2>1. RowOf(r, z, l, Pos(r), y)
    BY <1>0, <1>1, <1>3, <1>4, <1>7, Pending
  <2>2. PICK u \in 0 .. MaxTokens - 1 :
          y.from = <<"dispatch", u>> /\ <<y.from, <<Pos(r), r, u>>>> \in staged[r][Side(Pos(r))]
    BY <2>1 DEF RowOf
  <2>3. Good(staged[r][b], Froms)
    BY <1>0 DEF MemInv
  <2>4. row2 = <<Pos(r), r, u>>
    <3>1. At(staged[r][b], y.from) = row2
      BY <1>4, <1>7, <2>3, AtFacts
    <3>2. At(staged[r][b], y.from) = <<Pos(r), r, u>>
      BY <1>1, <2>2, <2>3, AtFacts
    <3> QED BY <3>1, <3>2
  <2>5. Keep(y.from, row2, TokenFrom(t), TokenRow(r, t))
    BY <2>2, <2>4 DEF Keep, TokenFrom, TokenRow
  <2> QED BY <1>2, <1>3, <1>4, <1>7, <2>5
<1> QED BY <1>6, <1>7

(* One more slot is used, of one channel, and by one token.                 *)
TokenGone(r, t, e, k) ==
  /\ run' = run /\ layout' = layout /\ rows' = rows /\ KindOf(Pos(r)) = "dispatch"
  /\ \A s \in Rank : Pos(s)' = Pos(s)
  /\ \A s \in Rank : s # r => kernel'[s] = kernel[s] /\ counter'[s] = counter[s]
  /\ kernel'[r].step = kernel[r].step /\ kernel'[r].todo = kernel[r].todo \ {<<t, e>>}
  /\ counter[r][e] = k /\ kernel[r].step[e] = "send"
  /\ counter[r] \in [Expert -> Nat] /\ counter'[r] = [counter[r] EXCEPT ![e] = k + 1]

SlotMore(r, t, d, q, k) ==
  /\ Slots(r, d, q, Pos(r)) = k /\ Slots(r, d, q, Pos(r))' = k + 1
  /\ \A u : TokenSent(r, d, q, Pos(r), u)' <=>
       TokenSent(r, d, q, Pos(r), u) \/ (u = t /\ t \in Tokens(Pos(r), r, d, q))
  /\ \A s, z \in Rank, l \in Local, m \in 1 .. NumCalls :
       ~Own(r, d, q, s, z, l) \/ m # Pos(r) => RowsSame(s, z, l, m)

(* The slots of the other channels are the same.                            *)
LEMMA SlotUsed ==
  ASSUME run \in Runs, NEW r \in Rank, NEW t, NEW e \in Expert, NEW k \in Nat,
         TokenGone(r, t, e, k),
         NEW d \in Rank, NEW q \in Local, GlobalOf(d, q) = e
  PROVE  SlotMore(r, t, d, q, k)
<1>0. run' = run /\ KindOf(Pos(r)) = "dispatch"
  BY DEF TokenGone
<1>1. /\ \A z, l, m : Count(m, r, z, l)' = Count(m, r, z, l)
           /\ Tokens(m, r, z, l)' = Tokens(m, r, z, l)
      /\ \A z, l : GlobalOf(z, l)' = GlobalOf(z, l)
      /\ \A m : Handle(m)' = Handle(m) /\ KindOf(m)' = KindOf(m)
  BY <1>0, Fixed
<1>2. /\ Pos(r)' = Pos(r) /\ \A z, l : Step(r, z, l)' = Step(r, z, l)
  BY <1>1 DEF TokenGone, Step
<1>3. /\ Slots(r, d, q, Pos(r)) = k /\ Slots(r, d, q, Pos(r))' = k + 1
  <2>1. Step(r, d, q) = "send" /\ counter'[r][e] = k + 1
    BY DEF TokenGone, Step
  <2>2. Slots(r, d, q, Pos(r)) = k
    BY <2>1 DEF TokenGone, Slots
  <2>3. Slots(r, d, q, Pos(r))' = k + 1
    BY <1>1, <1>2, <2>1 DEF Slots
  <2> QED BY <2>2, <2>3
<1>4. \A u, z, l : <<u, GlobalOf(z, l)>> \in kernel'[r].todo <=>
        <<u, GlobalOf(z, l)>> \in kernel[r].todo /\ (u # t \/ GlobalOf(z, l) # e)
  <2>1. \A u, y : <<u, y>> = <<t, e>> <=> u = t /\ y = e
    OBVIOUS
  <2> QED BY <2>1 DEF TokenGone
<1>5. \A u : TokenSent(r, d, q, Pos(r), u)' <=>
              TokenSent(r, d, q, Pos(r), u) \/ (u = t /\ t \in Tokens(Pos(r), r, d, q))
  BY <1>1, <1>2, <1>4 DEF TokenSent
<1>6. ASSUME NEW s \in Rank, NEW z \in Rank, NEW l \in Local, NEW m \in 1 .. NumCalls,
             ~Own(r, d, q, s, z, l) \/ m # Pos(r)
      PROVE  RowsSame(s, z, l, m)
  <2>1. CASE s # r
    <3>1. /\ Pos(s)' = Pos(s) /\ kernel'[s].todo = kernel[s].todo /\ counter'[s] = counter[s]
          /\ kernel'[s] = kernel[s] /\ Handed(s, m)
      BY <2>1 DEF TokenGone, Handed
    <3>2. Step(s, z, l)' = Step(s, z, l)
      BY <1>1, <3>1 DEF Step
    <3> QED BY <1>0, <3>1, <3>2, RowsUntouched
  <2>2. CASE s = r
    <3>1. m # Pos(r) \/ GlobalOf(z, l) # e
      BY <1>6, <2>2, IndexFacts DEF Own
    <3>2. Slots(r, z, l, m)' = Slots(r, z, l, m)
      <4>1. CASE m # Pos(r)
        BY <1>1, <1>2, <4>1 DEF Slots
      <4>2. CASE GlobalOf(z, l) # e
        <5>1. counter'[r][GlobalOf(z, l)] = counter[r][GlobalOf(z, l)]
          BY <4>2, IndexFacts DEF TokenGone
        <5> QED BY <1>1, <1>2, <5>1 DEF Slots
      <4> QED BY <3>1, <4>1, <4>2
    <3>3. \A u : TokenSent(r, z, l, m, u)' <=> TokenSent(r, z, l, m, u)
      BY <1>1, <1>2, <1>4, <3>1 DEF TokenSent
    <3>4. ASSUME KindOf(m) = "combine", NEW u
          PROVE  BackSent(r, z, l, m, u)' <=> BackSent(r, z, l, m, u)
      <4>1. Pos(r) # m
        BY <1>0, <3>4
      <4> QED BY <1>2, <4>1 DEF BackSent
    <3> QED BY <2>2, <3>2, <3>3, <3>4 DEF RowsSame
  <2> QED BY <2>1, <2>2
<1> QED BY <1>3, <1>5, <1>6 DEF SlotMore

(* A token is sent to an expert.                                            *)
LEMMA IInvSendToken ==
  ASSUME IInv, NEW r \in Rank, NEW t, NEW e \in Expert, SendToken(r, t, e)
  PROVE  IInv'
<1>0. Shape /\ run \in Runs /\ KernelInv /\ PosInv /\ MemInv /\ WireInv /\ NVLinkInv
  BY IInvFacts DEF Shape
<1>1. PICK d \in Rank, q \in Local : d = Owner(e) /\ q = LocalOf(e) /\ GlobalOf(d, q) = e
  BY <1>0, IndexFacts
<1>2. PICK k : k = counter[r][e]
  OBVIOUS
<1>3. PICK x, row, n : x = RowOn(Side(Pos(r)), Slot(q, r, k), TokenFrom(t))
                       /\ row = TokenRow(r, t) /\ n = Pos(r)
  OBVIOUS
<1>4. /\ r \notin dead /\ KindOf(n) = "dispatch" /\ Active(n) /\ n \in 1 .. NumCalls
      /\ k \in Nat /\ t \in 0 .. MaxTokens - 1 /\ t \in Tokens(n, r, d, q)
      /\ Slot(q, r, k) \in Places /\ TokenFrom(t) \in Froms
      /\ RowStep(r, d, q, x, row) /\ x \in Msg
      /\ kernel'[r].todo = kernel[r].todo \ {<<t, e>>}
      /\ counter' \in [Rank -> [Expert -> Nat]]
      /\ counter'[r] = [counter[r] EXCEPT ![e] = k + 1]
      /\ \A s \in Rank : s # r => counter'[s] = counter[s]
      /\ sync' = sync /\ packed' = packed /\ outputs' = outputs
  <2>0. TokenSends(r, t, e, d, q, k)
    BY <1>1, <1>2, TokenSendsFacts
  <2>1. /\ r \notin dead /\ KindOf(Pos(r)) = "dispatch" /\ Active(Pos(r))
             /\ Pos(r) \in 1 .. NumCalls
        /\ k \in Nat /\ t \in 0 .. MaxTokens - 1 /\ t \in Tokens(Pos(r), r, d, q)
        /\ Slot(q, r, k) \in Places /\ TokenFrom(t) \in Froms
    BY <2>0 DEF TokenSends
  <2>2. /\ RowStep(r, d, q, RowOn(Side(Pos(r)), Slot(q, r, k), TokenFrom(t)), TokenRow(r, t))
        /\ RowOn(Side(Pos(r)), Slot(q, r, k), TokenFrom(t)) \in Msg
    BY <2>0 DEF TokenSends
  <2>3. /\ kernel'[r].todo = kernel[r].todo \ {<<t, e>>}
        /\ counter' \in [Rank -> [Expert -> Nat]]
        /\ counter'[r] = [counter[r] EXCEPT ![e] = k + 1]
        /\ \A s \in Rank : s # r => counter'[s] = counter[s]
    BY <2>0 DEF TokenSends
  <2>4. sync' = sync /\ packed' = packed /\ outputs' = outputs
    BY <2>0 DEF TokenSends
  <2> QED BY <1>3, <2>1, <2>2, <2>3, <2>4
<1>30. k \in Nat /\ t \in Tokens(Pos(r), r, d, q) /\ n = Pos(r)
  BY <1>3, <1>4
<1>5. Staged(r, Side(n), TokenFrom(t), row)
  <2>0. TokenSends(r, t, e, d, q, k)
    BY <1>1, <1>2, TokenSendsFacts
  <2> QED BY <1>3, <2>0 DEF TokenSends
<1>6. KernelInv' /\ kernel[r].step[e] = "send"
  BY <1>0, KernelSendToken
<1>7. /\ Becomes(r, kernel[r].cleaned, kernel[r].todo \ {<<t, e>>},
                    [kernel[r].finish EXCEPT ![e] = @ + 1],
                    kernel[r].step, kernel[r].round, kernel[r].met)
      /\ kernel' = [y \in Rank |-> kernel'[y]]
  BY <1>0, SendTokenStep
<1>8. /\ run' = run /\ dead' = dead /\ \A s \in Rank : Pos(s)' = Pos(s)
      /\ \A s \in Rank : s # r => kernel'[s] = kernel[s]
      /\ kernel'[r].step = kernel[r].step /\ layout' = layout /\ rows' = rows
  BY <1>4 DEF RowStep, Sends
<1>9. TokenGone(r, t, e, k)
  BY <1>0, <1>2, <1>3, <1>4, <1>6, <1>8, KernelTypes DEF TokenGone
<1>10. /\ Slots(r, d, q, n) = k /\ Slots(r, d, q, n)' = k + 1
       /\ \A u : TokenSent(r, d, q, n, u)' <=> TokenSent(r, d, q, n, u) \/ u = t
       /\ \A s, z \in Rank, l \in Local, m \in 1 .. NumCalls :
              ~Own(r, d, q, s, z, l) \/ m # n => RowsSame(s, z, l, m)
  <2>1. SlotMore(r, t, d, q, k)
    BY <1>0, <1>1, <1>30, <1>9, SlotUsed
  <2>4. Pos(r)' = n /\ Pos(r) = n
    BY <1>30, <1>8
  <2> QED BY <1>30, <2>1, <2>4 DEF SlotMore
<1>11. x.place = Slot(q, r, k) /\ x.from = TokenFrom(t) /\ x.buf = Side(n) /\ x.kind = "row"
  BY <1>3 DEF RowOn
<1>12. Side(n) \in {0, 1}
  BY <1>0, <1>3, KernelTypes, SideFacts
<1>13. /\ Buffers(staged)' /\ OthersStaged(r) /\ <<TokenFrom(t), row>> \in staged'[r][Side(n)]
       /\ \A s \in Rank, b \in {0, 1} : Good(staged'[s][b], Froms)
  BY <1>0, <1>4, <1>5, <1>8, <1>12, StagedFacts
<1>14. StillStaged(r)
  BY <1>3, <1>4, <1>5, <1>8, TokenStaged
<1>15. \A z \in Rank, l \in Local : \A row2 : ~Expected(z, d, l, n, Slot(q, r, k), row2)
  BY <1>4, <1>10 DEF Expected, Slot
<1>16. IsMsg(r, d, q, Pos(r), x)'
  <2>1. Active(n)' /\ Side(n)' = Side(n) /\ KindOf(n)' = "dispatch" /\ Pos(r)' = n
    BY <1>3, <1>4, <1>8, Fixed
  <2>2. k \in 0 .. (k + 1) - 1
    BY <1>4
  <2>3. RowOf(r, d, q, n, x)'
    <3>1. \E j \in 0 .. Slots(r, d, q, n)' - 1 : x.place = Slot(q, r, j)
      BY <1>10, <1>11, <2>2
    <3>2. /\ x.from = <<"dispatch", t>> /\ <<x.from, <<n, r, t>>>> \in staged'[r][Side(n)]
      BY <1>3, <1>11, <1>13 DEF TokenFrom, TokenRow
    <3> QED BY <1>4, <2>1, <3>1, <3>2 DEF RowOf, Slot
  <2>4. n <= n
    BY <1>4
  <2> QED BY <1>11, <2>1, <2>3, <2>4 DEF IsMsg
<1>17. ASSUME NEW s \in Rank, NEW z \in Rank, NEW l \in Local, NEW m \in 1 .. NumCalls,
              KindOf(m) = "dispatch", NEW j \in 0 .. Slots(s, z, l, m) - 1
       PROVE  j \in 0 .. Slots(s, z, l, m)' - 1
  <2>1. CASE Own(r, d, q, s, z, l) /\ m = n
    BY <1>4, <1>10, <1>17, <2>1 DEF Own
  <2>2. CASE ~(Own(r, d, q, s, z, l) /\ m = n)
    <3>1. RowsSame(s, z, l, m)
      BY <1>10, <2>2
    <3> QED BY <1>17, <3>1 DEF RowsSame
  <2> QED BY <2>1, <2>2
<1>18. ASSUME d \notin dead, RowsOK(r, d, q, n) PROVE RowsOK(r, d, q, n)'
  <2>1. DispatchRows(r, d, q, n)
    BY <1>4, <1>18 DEF RowsOK
  <2>2. Near(d, n)
    <3>1. Step(r, d, q) = "send"
      BY <1>1, <1>6 DEF Step
    <3> QED BY <1>0, <1>3, <1>4, <1>18, <3>1, SenderNear
  <2>3. HoldsKept(r, d, q, n)
    BY <1>0, <1>3, <1>4, <1>11, <1>13, <1>14, <1>15, <1>18, <2>2, RowsHold
  <2>4. \A i \in DOMAIN wire[r][d][q] : ~RowMsg(wire[r][d][q][i], x.buf, x.place)
    <3> SUFFICES ASSUME NEW i \in DOMAIN wire[r][d][q], RowMsg(wire[r][d][q][i], x.buf, x.place)
                 PROVE  FALSE
      OBVIOUS
    <3>1. wire[r][d][q][i].kind = "row" /\ wire[r][d][q][i].buf = Side(Pos(r))
          /\ wire[r][d][q][i].place = Slot(q, r, k)
      BY <1>3, <1>11 DEF RowMsg
    <3>2. RowOf(r, d, q, n, wire[r][d][q][i])
      BY <1>0, <1>3, <1>4, <1>18, <3>1, Pending
    <3>3. \E j \in 0 .. k - 1 : Slot(q, r, k) = Slot(q, r, j)
      BY <1>4, <1>10, <3>1, <3>2 DEF RowOf
    <3> QED BY <1>4, <3>3 DEF Slot
  <2>5. Holds(r, d, q, Pos(r), Slot(q, r, k), row)'
    <3>1. Holds(r, d, q, Pos(r), x.place, row)'
      BY <1>0, <1>4, <1>11, <1>13, <1>18, <2>4, RowHeld
    <3> QED BY <1>11, <3>1
  <2>6. Holds(r, d, q, n, Slot(q, r, k), <<n, r, t>>)'
    BY <1>3, <1>8, <2>5 DEF TokenRow
  <2>7. TokenSent(r, d, q, n, t)'
    BY <1>10
  <2>8. \A j \in 0 .. k - 1, u \in Tokens(n, r, d, q) :
          Holds(r, d, q, n, Slot(q, r, j), <<n, r, u>>)
            => Holds(r, d, q, n, Slot(q, r, j), <<n, r, u>>)'
    <3>1. \A j \in 0 .. k - 1, u \in Tokens(n, r, d, q) :
            Expected(r, d, q, n, Slot(q, r, j), <<n, r, u>>)
      BY <1>4, <1>10 DEF Expected
    <3> QED BY <2>3, <3>1 DEF HoldsKept
  <2>9. \A j \in 0 .. (k + 1) - 1 : j = k \/ j \in 0 .. k - 1
    BY <1>30
  <2>10. k \in 0 .. (k + 1) - 1 /\ \A j \in 0 .. k - 1 : j \in 0 .. (k + 1) - 1
    BY <1>4
  <2>11. Tokens(n, r, d, q)' = Tokens(n, r, d, q) /\ KindOf(n)' = "dispatch"
    BY <1>4, <1>8, Fixed
  <2>12. \A j \in 0 .. (k + 1) - 1 : \E u \in Tokens(n, r, d, q) :
           TokenSent(r, d, q, n, u)' /\ Holds(r, d, q, n, Slot(q, r, j), <<n, r, u>>)'
    <3> SUFFICES ASSUME NEW j \in 0 .. (k + 1) - 1
                 PROVE  \E u \in Tokens(n, r, d, q) :
                          TokenSent(r, d, q, n, u)'
                            /\ Holds(r, d, q, n, Slot(q, r, j), <<n, r, u>>)'
      OBVIOUS
    <3>1. CASE j = k
      BY <1>4, <2>6, <2>7, <3>1
    <3>2. CASE j \in 0 .. k - 1
      <4>1. PICK u \in Tokens(n, r, d, q) :
              TokenSent(r, d, q, n, u) /\ Holds(r, d, q, n, Slot(q, r, j), <<n, r, u>>)
        BY <1>10, <2>1, <3>2 DEF DispatchRows
      <4> QED BY <1>10, <2>8, <3>2, <4>1
    <3> QED BY <2>9, <3>1, <3>2
  <2>13. \A u \in Tokens(n, r, d, q) : TokenSent(r, d, q, n, u)' =>
           \E j \in 0 .. (k + 1) - 1 : Holds(r, d, q, n, Slot(q, r, j), <<n, r, u>>)'
    <3> SUFFICES ASSUME NEW u \in Tokens(n, r, d, q), TokenSent(r, d, q, n, u)'
                 PROVE  \E j \in 0 .. (k + 1) - 1 :
                          Holds(r, d, q, n, Slot(q, r, j), <<n, r, u>>)'
      OBVIOUS
    <3>1. CASE u = t
      BY <2>6, <2>10, <3>1
    <3>2. CASE TokenSent(r, d, q, n, u)
      <4>1. PICK j \in 0 .. k - 1 : Holds(r, d, q, n, Slot(q, r, j), <<n, r, u>>)
        BY <1>10, <2>1, <3>2 DEF DispatchRows
      <4> QED BY <2>8, <2>10, <4>1
    <3> QED BY <1>10, <3>1, <3>2
  <2>14. DispatchRows(r, d, q, n)'
    BY <1>10, <2>11, <2>12, <2>13 DEF DispatchRows, Slot
  <2>15. KindOf(n)' # "combine"
    BY <2>11
  <2> QED BY <2>14, <2>15 DEF RowsOK
<1>19. kernel[r].todo \ {<<t, e>>} \in SUBSET Items
         /\ [kernel[r].finish EXCEPT ![e] = @ + 1] \in [Expert -> Int]
  <2>1. kernel[r].todo \in SUBSET Items /\ kernel[r].finish \in [Expert -> Int]
    BY <1>0, KernelTypes
  <2>2. kernel[r].finish[e] + 1 \in Int
    BY <2>1
  <2> QED BY <2>1, <2>2
<1>20. PICK todo, finish : todo = kernel[r].todo \ {<<t, e>>}
              /\ finish = [kernel[r].finish EXCEPT ![e] = @ + 1]
  OBVIOUS
<1>21. todo \in SUBSET Items /\ finish \in [Expert -> Int]
       /\ Becomes(r, kernel[r].cleaned, todo, finish, kernel[r].step, kernel[r].round, kernel[r].met)
  BY <1>7, <1>19, <1>20
<1>22. /\ x.place \in Places
       /\ d \notin dead /\ ~NVLink(r, d) => <<x.from, row>> \in staged'[r][x.buf]
       /\ \A z \in Rank, l \in Local : \A row2 : ~Expected(z, d, l, Pos(r), x.place, row2)
  BY <1>3, <1>4, <1>11, <1>13, <1>15
<1>23. d \notin dead /\ RowsOK(r, d, q, Pos(r)) => RowsOK(r, d, q, Pos(r))'
  BY <1>3, <1>8, <1>18
<1>24. \A s \in Rank, z \in Rank \ dead, l \in Local, m \in 1 .. NumCalls :
           Active(m) /\ (~Own(r, d, q, s, z, l) \/ m # Pos(r)) => RowsSame(s, z, l, m)
  BY <1>3, <1>10
<1> QED BY <1>4, <1>6, <1>7, <1>13, <1>14, <1>16, <1>17, <1>21, <1>22, <1>23, <1>24, IInvRows

(* The row that an expert sends back is that of one token of its source.    *)
RowFrom(q, p) == <<"combine", q, p>>
StagesRow(r, d, f, row) ==
  IF NVLink(r, d) \/ d \in mask[r] THEN staged' = staged ELSE Staged(r, Side(Pos(r)), f, row)
RowReturns(r, d, q, p, t) ==
  /\ KindOf(Pos(r)) = "combine" /\ Active(Pos(r)) /\ Pos(r) \in 1 .. NumCalls /\ r \notin dead
  /\ d \in Rank /\ q \in Local /\ p \in Row /\ t \in 0 .. MaxTokens - 1
  /\ <<q, d, p>> \in kernel[r].todo /\ Step(r, d, q) = "send"
  /\ t \in BackTokens(r, d, q, Pos(r)) /\ RowAt(r, Handle(Pos(r)), d, q, p, t)
  /\ Covers(Extent(r, Handle(Pos(r)), d, q), p)
  /\ Back(r, q, t) \in Places /\ RowFrom(q, p) \in Froms
RowSent(r, d, q, p, t) ==
  /\ RowStep(r, d, q, RowOn(Side(Pos(r)), Back(r, q, t), RowFrom(q, p)), BackRow(r, d, q, Pos(r), t))
  /\ RowOn(Side(Pos(r)), Back(r, q, t), RowFrom(q, p)) \in Msg
  /\ StagesRow(r, d, RowFrom(q, p), BackRow(r, d, q, Pos(r), t))
  /\ kernel'[r].todo = kernel[r].todo \ {<<q, d, p>>}
  /\ counter' = counter /\ sync' = sync /\ packed' = packed /\ outputs' = outputs
  /\ d \in mask[r] => d \in dead

(* Of a range covered it was copied.                                        *)
LEMMA FetchedRow ==
  ASSUME Shape, RowsInv, KernelInv, NEW r \in Rank, NEW le, NEW d, NEW p, SendRow(r, le, d, p)
  PROVE  \E t \in 0 .. MaxTokens - 1 : RowReturns(r, d, le, p, t)
<1>1. /\ r \notin dead /\ KindOf(Pos(r)) = "combine" /\ Active(Pos(r))
           /\ <<le, d, p>> \in kernel[r].todo
  BY SendRowStep
<1>2. le \in Local /\ d \in Rank /\ p \in Row /\ Step(r, d, le) = "send"
      /\ Covers(Extent(r, Handle(Pos(r)), d, le), p)
  BY KernelSendRow
<1>3. PICK h : h = Handle(Pos(r))
  OBVIOUS
<1>4. h \in 1 .. NumCalls /\ h < Pos(r) /\ KindOf(h) = "dispatch" /\ Pos(r) \in 1 .. NumCalls
  BY <1>1, <1>3, KindFacts
<1>5. Done(r, h, d, le)
  <2>1. Pos(r) > h
    BY <1>4, KernelTypes
  <2> QED BY <2>1 DEF Done
<1>6. Fetched(r, h, d, le)
  BY <1>2, <1>4, <1>5 DEF RowsInv, CopiedOK
<1>7. PICK b, c : b = Extent(r, h, d, le).begin /\ c = Extent(r, h, d, le).num
  OBVIOUS
<1>8. b \in Nat /\ c \in Nat /\ \A i \in 0 .. c - 1 : \E t \in Tokens(h, d, r, le) :
        RowAt(r, h, d, le, b + i, t)
  BY <1>6, <1>7 DEF Fetched
<1>9. b <= p /\ p < b + c /\ p \in Int
  <2>1. p \in Int
    BY <1>2, SizesAssumption DEF Row
  <2> QED BY <1>2, <1>3, <1>7, <2>1 DEF Covers
<1>10. PICK i \in 0 .. c - 1 : b + i = p
  <2>1. p - b \in 0 .. c - 1 /\ b + (p - b) = p
    BY <1>8, <1>9
  <2> QED BY <2>1
<1>11. PICK t \in Tokens(h, d, r, le) : RowAt(r, h, d, le, p, t)
  BY <1>8, <1>10
<1>12. t \in 0 .. MaxTokens - 1
  <2>1. run \in Runs
    BY DEF Shape
  <2> QED BY <1>2, <1>4, <1>11, <2>1, TokenFacts DEF Tokens
<1>13. GlobalOf(r, le) \in Expert
  BY <1>2, IndexFacts DEF Shape
<1>14. Back(r, le, t) \in Places /\ RowFrom(le, p) \in Froms
  BY <1>2, <1>12, <1>13 DEF Back, Places, RowFrom, Froms
<1> QED BY <1>1, <1>2, <1>3, <1>4, <1>11, <1>12, <1>14 DEF RowReturns, BackTokens

(* It goes to the place of its token.                                       *)
LEMMA RowSentFacts ==
  ASSUME IInv, NEW r \in Rank, NEW q \in Local, NEW d \in Rank, NEW p \in Row,
         SendRow(r, q, d, p),
         NEW t \in 0 .. MaxTokens - 1, RowReturns(r, d, q, p, t)
  PROVE  RowSent(r, d, q, p, t)
<1>0. Shape /\ IdxInv /\ MaskInv /\ RowsInv
  BY IInvFacts
<1>1. /\ r \notin dead /\ dead' = dead /\ KindOf(Pos(r)) = "combine" /\ Active(Pos(r))
      /\ Becomes(r, kernel[r].cleaned, kernel[r].todo \ {<<q, d, p>>}, kernel[r].finish,
                    kernel[r].step, kernel[r].round, kernel[r].met)
      /\ counter' = counter
  BY <1>0, SendRowStep
<1>2. Step(r, d, q) = "send" /\ Back(r, q, t) \in Places /\ RowFrom(q, p) \in Froms
      /\ RowAt(r, Handle(Pos(r)), d, q, p, t)
  BY DEF RowReturns
<1>3. PICK h : h = Handle(Pos(r))
  OBVIOUS
<1>4. At(rows[r][h], <<q, p>>) = <<h, d, t>>
  <2>1. h \in 1 .. NumCalls /\ KindOf(h) = "dispatch"
    BY <1>0, <1>1, <1>3, KindFacts
  <2>2. Good(rows[r][h], Local \X Row)
    BY <1>0, <2>1 DEF RowsInv, CopiedOK
  <2> QED BY <1>2, <1>3, <2>2, AtFacts DEF RowAt
<1>5. <<h, d, t>>[3] = t
  OBVIOUS
<1>6. Call(r).of = h
  BY <1>3 DEF Call, Handle, Pos
<1>7. /\ PutRow(r, d, q, Back(r, q, t), RowFrom(q, p), BackRow(r, d, q, Pos(r), t))
      /\ staged' = IF Masked(r, d) \/ NVLink(r, d) THEN staged
                   ELSE Stage(r, RowFrom(q, p), BackRow(r, d, q, Pos(r), t))
      /\ sync' = sync /\ mask' = mask /\ packed' = packed /\ outputs' = outputs
  BY <1>3, <1>4, <1>5, <1>6 DEF SendRow, Back, RowFrom, BackRow, Pos
<1>8. StagesRow(r, d, RowFrom(q, p), BackRow(r, d, q, Pos(r), t))
  BY <1>0, <1>1, <1>7, BufFacts DEF StagesRow, Staged, Stage, Masked
<1>9. layout' = layout /\ rows' = rows
  BY <1>7 DEF outputs
<1>10. Back(r, q, t)[1] = KindOf(Pos(r))
  BY <1>1 DEF Back
<1>11. \A s \in Rank : s # r => counter'[s] = counter[s]
  BY <1>1
<1>12. /\ RowStep(r, d, q, RowOn(Side(Pos(r)), Back(r, q, t), RowFrom(q, p)), BackRow(r, d, q, Pos(r), t))
       /\ RowOn(Side(Pos(r)), Back(r, q, t), RowFrom(q, p)) \in Msg
  BY <1>0, <1>1, <1>2, <1>7, <1>9, <1>10, <1>11, RowSends
<1>13. kernel'[r].todo = kernel[r].todo \ {<<q, d, p>>}
  BY <1>1, BecomesFacts
<1>14. d \in mask[r] => d \in dead
  BY <1>0, <1>1, MaskedDead
<1> QED BY <1>1, <1>7, <1>8, <1>12, <1>13, <1>14 DEF RowSent

(* Two rows of one place of a handle are of one token.                      *)
LEMMA OneToken ==
  ASSUME Shape, RowsInv, NEW r \in Rank, KindOf(Pos(r)) = "combine", NEW s, NEW d, NEW q, NEW p,
         NEW t, NEW u, RowAt(r, Handle(Pos(r)), s, q, p, t),
           RowAt(r, Handle(Pos(r)), d, q, p, u)
  PROVE  s = d /\ t = u
<1>1. PICK h : h = Handle(Pos(r))
  OBVIOUS
<1>2. h \in 1 .. NumCalls /\ KindOf(h) = "dispatch"
  BY <1>1, KindFacts
<1>3. Good(rows[r][h], Local \X Row)
  BY <1>2 DEF RowsInv, CopiedOK
<1>4. At(rows[r][h], <<q, p>>) = <<h, s, t>> /\ At(rows[r][h], <<q, p>>) = <<h, d, u>>
  BY <1>1, <1>3, AtFacts DEF RowAt
<1>5. <<h, s, t>> = <<h, d, u>>
  BY <1>4
<1> QED BY <1>5

(* It replaces no other of its call in the send buffer.                     *)
LEMMA BackStaged ==
  ASSUME IInv, run' = run, NEW r \in Rank, NEW d \in Rank, NEW q \in Local, NEW p \in Row,
         NEW t \in 0 .. MaxTokens - 1, RowReturns(r, d, q, p, t),
         StagesRow(r, d, RowFrom(q, p), BackRow(r, d, q, Pos(r), t))
  PROVE  /\ Buffers(staged)' /\ OthersStaged(r) /\ StillStaged(r)
         /\ ~NVLink(r, d) /\ d \notin mask[r] =>
              <<RowFrom(q, p), BackRow(r, d, q, Pos(r), t)>> \in staged'[r][Side(Pos(r))]
         /\ \A s \in Rank, c \in {0, 1} : Good(staged'[s][c], Froms)
<1>0. Shape /\ MemInv /\ PosInv /\ WireInv /\ RowsInv
  BY IInvFacts
<1>1. CASE staged' = staged /\ (NVLink(r, d) \/ d \in mask[r])
  <2>1. Buffers(staged)'
    BY <1>0, <1>1, Fixed DEF Shape, Buffers
  <2> QED BY <1>0, <1>1, <2>1 DEF MemInv, OthersStaged, StillStaged
<1>2. CASE Staged(r, Side(Pos(r)), RowFrom(q, p), BackRow(r, d, q, Pos(r), t))
  <2>0. PICK b \in {0, 1} : b = Side(Pos(r))
    BY <1>0, KernelTypes, SideFacts
  <2>1. PICK f, row : b = Side(Pos(r)) /\ f = RowFrom(q, p) /\ row = BackRow(r, d, q, Pos(r), t)
    BY <2>0
  <2>2. f \in Froms /\ KindOf(Pos(r)) = "combine" /\ Active(Pos(r))
        /\ RowAt(r, Handle(Pos(r)), d, q, p, t)
    BY <2>1 DEF RowReturns
  <2>3. /\ Buffers(staged)' /\ OthersStaged(r) /\ <<f, row>> \in staged'[r][b]
        /\ \A s \in Rank, c \in {0, 1} : Good(staged'[s][c], Froms)
        /\ \A c \in {0, 1} : c # b => staged'[r][c] = staged[r][c]
        /\ \A f2, row2 : <<f2, row2>> \in staged[r][b] /\ Keep(f2, row2, f, row) =>
             <<f2, row2>> \in staged'[r][b]
    BY <1>0, <1>2, <2>1, <2>2, StagedFacts
  <2>4. ASSUME NEW z \in Rank \ dead, NEW l \in Local, NEW i \in DOMAIN wire[r][z][l], NEW row2,
               wire[r][z][l][i].kind = "row",
               <<wire[r][z][l][i].from, row2>> \in staged[r][wire[r][z][l][i].buf]
        PROVE  <<wire[r][z][l][i].from, row2>> \in staged'[r][wire[r][z][l][i].buf]
    <3>3. PICK y : y = wire[r][z][l][i]
      OBVIOUS
    <3>4. y.kind = "row" /\ <<y.from, row2>> \in staged[r][y.buf]
      BY <2>4, <3>3
    <3>5. y.buf \in {0, 1}
      <4>1. wire[r][z][l] \in Seq(Msg)
        BY <1>0 DEF Shape
      <4>2. y \in Msg
        BY <3>3, <4>1
      <4> QED BY <3>4, <4>2 DEF Msg
    <3>6. CASE y.buf # b
      BY <2>3, <3>3, <3>4, <3>5, <3>6
    <3>7. CASE y.buf = b
      <4>1. RowOf(r, z, l, Pos(r), y)
        BY <1>0, <2>1, <2>2, <3>3, <3>4, <3>7, Pending
      <4>2. PICK u \in 0 .. MaxTokens - 1, p2 \in Row :
              /\ y.from = <<"combine", l, p2>> /\ RowAt(r, Handle(Pos(r)), z, l, p2, u)
              /\ <<y.from, BackRow(r, z, l, Pos(r), u)>> \in staged[r][Side(Pos(r))]
        BY <2>2, <4>1 DEF RowOf
      <4>3. Good(staged[r][b], Froms)
        BY <1>0 DEF MemInv
      <4>4. row2 = BackRow(r, z, l, Pos(r), u)
        <5>1. At(staged[r][b], y.from) = row2
          BY <3>4, <3>7, <4>3, AtFacts
        <5>2. At(staged[r][b], y.from) = BackRow(r, z, l, Pos(r), u)
          BY <2>1, <4>2, <4>3, AtFacts
        <5> QED BY <5>1, <5>2
      <4>5. y.from = f => row2 = row
        <5> SUFFICES ASSUME y.from = f PROVE row2 = row
          OBVIOUS
        <5>1. l = q /\ p2 = p
          BY <2>1, <4>2 DEF RowFrom
        <5>2. z = d /\ u = t
          BY <1>0, <2>2, <4>2, <5>1, OneToken
        <5> QED BY <2>1, <4>4, <5>1, <5>2
      <4>6. y.from[1] = f[1]
        BY <2>1, <4>2 DEF RowFrom
      <4>7. Keep(y.from, row2, f, row)
        BY <4>5, <4>6 DEF Keep
      <4> QED BY <2>3, <3>3, <3>4, <3>7, <4>7
    <3> QED BY <3>6, <3>7
  <2>5. StillStaged(r)
    BY <2>4 DEF StillStaged
  <2> QED BY <2>1, <2>3, <2>5
<1> QED BY <1>1, <1>2 DEF StagesRow

(* One row fewer is to be sent back, of one channel.                        *)
RowGone(r, d, q, p, t) ==
  /\ run' = run /\ layout' = layout /\ rows' = rows /\ KindOf(Pos(r)) = "combine"
  /\ \A s \in Rank : Pos(s)' = Pos(s) /\ counter'[s] = counter[s]
  /\ \A s \in Rank : s # r => kernel'[s] = kernel[s]
  /\ kernel'[r].step = kernel[r].step /\ kernel'[r].todo = kernel[r].todo \ {<<q, d, p>>}
  /\ RowAt(r, Handle(Pos(r)), d, q, p, t)

RowFewer(r, d, q, t) ==
  /\ \A u : BackSent(r, d, q, Pos(r), u)' => BackSent(r, d, q, Pos(r), u) \/ u = t
  /\ \A s, z \in Rank, l \in Local, m \in 1 .. NumCalls : Slots(s, z, l, m)' = Slots(s, z, l, m)
  /\ \A s, z \in Rank, l \in Local, m \in 1 .. NumCalls :
       ~Own(r, d, q, s, z, l) \/ m # Pos(r) => RowsSame(s, z, l, m)

(* The other channels have as many as before.                               *)
LEMMA RowLess ==
  ASSUME Shape, RowsInv, NEW r \in Rank, NEW d \in Rank, NEW q \in Local, NEW p, NEW t,
         RowGone(r, d, q, p, t)
  PROVE  RowFewer(r, d, q, t)
<1>0. run' = run /\ KindOf(Pos(r)) = "combine" /\ run \in Runs /\ layout' = layout
        /\ rows' = rows
  BY DEF RowGone, Shape
<1>1. /\ \A s, z, l, m : Count(m, s, z, l)' = Count(m, s, z, l)
           /\ Tokens(m, s, z, l)' = Tokens(m, s, z, l)
      /\ \A z, l : GlobalOf(z, l)' = GlobalOf(z, l)
      /\ \A m : Handle(m)' = Handle(m) /\ KindOf(m)' = KindOf(m)
      /\ Row' = Row
  BY <1>0, Fixed DEF Row
<1>2. \A s \in Rank : \A z, l : Pos(s)' = Pos(s) /\ Step(s, z, l)' = Step(s, z, l)
  BY <1>1 DEF RowGone, Step
<1>3. \A s, z \in Rank, l \in Local, m \in 1 .. NumCalls :
        Slots(s, z, l, m)' = Slots(s, z, l, m)
  BY <1>1, <1>2 DEF RowGone, Slots
<1>4. \A z, l, p2 : <<l, z, p2>> \in kernel'[r].todo <=>
        <<l, z, p2>> \in kernel[r].todo /\ (l # q \/ z # d \/ p2 # p)
  <2>1. \A z, l, p2 : <<l, z, p2>> = <<q, d, p>> <=> l = q /\ z = d /\ p2 = p
    OBVIOUS
  <2> QED BY <2>1 DEF RowGone
<1>5. \A u, v : <<u, v>> \in kernel'[r].todo <=> <<u, v>> \in kernel[r].todo
  <2>1. \A u, v : <<u, v>> # <<q, d, p>>
    <3> SUFFICES ASSUME NEW u, NEW v, <<u, v>> = <<q, d, p>> PROVE FALSE
      OBVIOUS
    <3>1. Len(<<u, v>>) = 2 /\ Len(<<q, d, p>>) = 3
      OBVIOUS
    <3> QED BY <3>1
  <2> QED BY <2>1 DEF RowGone
<1>6. \A n, s, l, p2, u : RowAt(r, n, s, l, p2, u)' <=> RowAt(r, n, s, l, p2, u)
  BY <1>0 DEF RowAt
<1>7. \A n, s, l : Extent(r, n, s, l)' = Extent(r, n, s, l)
  BY <1>0 DEF Extent
<1>8. ASSUME NEW u, BackSent(r, d, q, Pos(r), u)', u # t PROVE BackSent(r, d, q, Pos(r), u)
  <2> SUFFICES ASSUME NEW p2 \in Row, Covers(Extent(r, Handle(Pos(r)), d, q), p2),
                      RowAt(r, Handle(Pos(r)), d, q, p2, u), <<q, d, p2>> \in kernel[r].todo
               PROVE  FALSE
    BY DEF BackSent
  <2>1. p2 # p
    BY <1>0, <1>8, OneToken DEF RowGone
  <2>2. <<q, d, p2>> \in kernel'[r].todo
    BY <1>4, <2>1
  <2>3. Pos(r)' = Pos(r)
    BY <1>2
  <2>4. Covers(Extent(r, Handle(Pos(r)), d, q), p2)' /\ RowAt(r, Handle(Pos(r)), d, q, p2, u)'
    BY <1>1, <1>6, <1>7, <2>3 DEF Covers
  <2> QED BY <1>1, <1>8, <2>2, <2>3, <2>4 DEF BackSent
<1>9. ASSUME NEW s \in Rank, NEW z \in Rank, NEW l \in Local, NEW m \in 1 .. NumCalls,
             ~Own(r, d, q, s, z, l) \/ m # Pos(r)
      PROVE  RowsSame(s, z, l, m)
  <2>1. CASE s # r
    <3>1. /\ Pos(s)' = Pos(s) /\ kernel'[s].todo = kernel[s].todo /\ counter'[s] = counter[s]
          /\ Handed(s, m)
      BY <2>1 DEF RowGone, Handed
    <3>2. Step(s, z, l)' = Step(s, z, l)
      BY <1>2
    <3> QED BY <1>0, <3>1, <3>2, RowsUntouched
  <2>2. CASE s = r
    <3>1. m # Pos(r) \/ z # d \/ l # q
      BY <1>9, <2>2 DEF Own
    <3>2. \A u : TokenSent(r, z, l, m, u)' <=> TokenSent(r, z, l, m, u)
      BY <1>1, <1>2, <1>5 DEF TokenSent
    <3>3. ASSUME NEW u
          PROVE  BackSent(r, z, l, m, u)' <=> BackSent(r, z, l, m, u)
      <4>1. CASE Pos(r) # m
        BY <1>2, <4>1 DEF BackSent
      <4>2. CASE z # d \/ l # q
        <5>1. \A p2 : <<l, z, p2>> \in kernel'[r].todo <=> <<l, z, p2>> \in kernel[r].todo
          BY <1>4, <4>2
        <5>2. \A p2 : Covers(Extent(r, Handle(m), z, l), p2)' <=> Covers(Extent(r, Handle(m), z, l), p2)
          BY <1>1, <1>7 DEF Covers
        <5>3. \A p2 : RowAt(r, Handle(m), z, l, p2, u)' <=> RowAt(r, Handle(m), z, l, p2, u)
          BY <1>1, <1>6
        <5> QED BY <1>1, <1>2, <5>1, <5>2, <5>3 DEF BackSent
      <4> QED BY <3>1, <4>1, <4>2
    <3> QED BY <1>3, <2>2, <3>2, <3>3 DEF RowsSame
  <2> QED BY <2>1, <2>2
<1> QED BY <1>3, <1>8, <1>9 DEF RowFewer

(* An expert sends a row back.                                              *)
LEMMA IInvSendRow ==
  ASSUME IInv, NEW r \in Rank, NEW q, NEW d, NEW p, SendRow(r, q, d, p)
  PROVE  IInv'
<1>0. Shape /\ KernelInv /\ PosInv /\ MemInv /\ WireInv /\ NVLinkInv /\ RowsInv
  BY IInvFacts
<1>1. PICK t \in 0 .. MaxTokens - 1 : RowReturns(r, d, q, p, t)
  BY <1>0, FetchedRow
<1>2. /\ d \in Rank /\ q \in Local /\ p \in Row /\ Step(r, d, q) = "send" /\ r \notin dead
      /\ KindOf(Pos(r)) = "combine" /\ Active(Pos(r)) /\ Pos(r) \in 1 .. NumCalls
      /\ Back(r, q, t) \in Places /\ RowAt(r, Handle(Pos(r)), d, q, p, t)
      /\ t \in BackTokens(r, d, q, Pos(r))
  BY <1>1 DEF RowReturns
<1>3. PICK x, row, n : x = RowOn(Side(Pos(r)), Back(r, q, t), RowFrom(q, p))
                       /\ row = BackRow(r, d, q, Pos(r), t) /\ n = Pos(r)
  OBVIOUS
<1>4. RowSent(r, d, q, p, t)
  BY <1>1, <1>2, RowSentFacts
<1>5. /\ RowStep(r, d, q, x, row) /\ x \in Msg
      /\ StagesRow(r, d, RowFrom(q, p), BackRow(r, d, q, Pos(r), t))
      /\ kernel'[r].todo = kernel[r].todo \ {<<q, d, p>>}
      /\ counter' = counter /\ sync' = sync /\ packed' = packed /\ outputs' = outputs
      /\ d \in mask[r] => d \in dead
  BY <1>3, <1>4 DEF RowSent
<1>6. KernelInv'
  BY <1>0, KernelSendRow
<1>7. /\ Becomes(r, kernel[r].cleaned, kernel[r].todo \ {<<q, d, p>>}, kernel[r].finish,
                    kernel[r].step, kernel[r].round, kernel[r].met)
      /\ kernel' = [y \in Rank |-> kernel'[y]]
  BY <1>0, SendRowStep
<1>8. /\ run' = run /\ dead' = dead /\ \A s \in Rank : Pos(s)' = Pos(s)
      /\ \A s \in Rank : s # r => kernel'[s] = kernel[s]
      /\ kernel'[r].step = kernel[r].step /\ layout' = layout /\ rows' = rows
  BY <1>5 DEF RowStep, Sends
<1>9. RowGone(r, d, q, p, t)
  BY <1>2, <1>5, <1>8 DEF RowGone
<1>10. RowFewer(r, d, q, t)
  BY <1>0, <1>2, <1>9, RowLess
<1>11. x.place = Back(r, q, t) /\ x.from = RowFrom(q, p) /\ x.buf = Side(n) /\ x.kind = "row"
  BY <1>3 DEF RowOn
<1>12. Side(n) \in {0, 1} /\ n \in Nat
  BY <1>0, <1>3, KernelTypes, SideFacts
<1>13. /\ Buffers(staged)' /\ OthersStaged(r) /\ StillStaged(r)
       /\ ~NVLink(r, d) /\ d \notin mask[r] => <<RowFrom(q, p), row>> \in staged'[r][Side(n)]
       /\ \A s \in Rank, b \in {0, 1} : Good(staged'[s][b], Froms)
  BY <1>1, <1>2, <1>3, <1>5, <1>8, BackStaged
<1>14. d \notin dead /\ ~NVLink(r, d) => <<x.from, row>> \in staged'[r][x.buf]
  BY <1>5, <1>11, <1>13
<1>15. \A z \in Rank, l \in Local : \A row2 : Expected(z, d, l, Pos(r), x.place, row2) => row2 = row
  <2> SUFFICES ASSUME NEW z \in Rank, NEW l \in Local, NEW row2,
                      Expected(z, d, l, Pos(r), x.place, row2)
               PROVE  row2 = row
    OBVIOUS
  <2>1. PICK u \in BackTokens(z, d, l, Pos(r)) :
          Back(r, q, t) = Back(z, l, u) /\ row2 = BackRow(z, d, l, Pos(r), u)
    BY <1>2, <1>11 DEF Expected
  <2>2. GlobalOf(r, q) = GlobalOf(z, l) /\ t = u
    BY <2>1 DEF Back
  <2>3. BackRow(z, d, l, Pos(r), u) = BackRow(r, d, q, Pos(r), t)
    BY <2>2 DEF BackRow
  <2> QED BY <1>3, <2>1, <2>3
<1>16. d \notin dead /\ ~NVLink(r, d) => IsMsg(r, d, q, Pos(r), x)'
  <2> SUFFICES ASSUME d \notin dead, ~NVLink(r, d) PROVE IsMsg(r, d, q, Pos(r), x)'
    OBVIOUS
  <2>1. Active(n)' /\ Side(n)' = Side(n) /\ KindOf(n)' = "combine" /\ Pos(r)' = n
    BY <1>2, <1>3, <1>8, Fixed
  <2>2. Back(r, q, t)' = Back(r, q, t) /\ BackRow(r, d, q, n, t)' = BackRow(r, d, q, n, t)
        /\ Row' = Row /\ Handle(n)' = Handle(n)
    BY <1>8, FixedToo, Fixed DEF Row
  <2>3. RowAt(r, Handle(n), d, q, p, t)'
    BY <1>2, <1>3, <1>8, <2>2 DEF RowAt
  <2>4. <<x.from, BackRow(r, d, q, n, t)>> \in staged'[r][Side(n)]
    BY <1>3, <1>11, <1>14
  <2>5. RowOf(r, d, q, n, x)'
    <3>1. x.place = Back(r, q, t)' /\ x.from = <<"combine", q, p>>
      BY <1>11, <2>2 DEF RowFrom
    <3>2. <<x.from, BackRow(r, d, q, n, t)'>> \in staged'[r][Side(n)']
      BY <2>1, <2>2, <2>4
    <3>3. p \in Row'
      BY <1>2, <2>2
    <3> QED BY <2>1, <2>3, <3>1, <3>2, <3>3 DEF RowOf
  <2>6. n <= n
    BY <1>12
  <2> QED BY <1>11, <2>1, <2>5, <2>6 DEF IsMsg
<1>17. \A s, z \in Rank, l \in Local, m \in 1 .. NumCalls : KindOf(m) = "dispatch" =>
         \A k \in 0 .. Slots(s, z, l, m) - 1 : k \in 0 .. Slots(s, z, l, m)' - 1
  BY <1>10 DEF RowFewer
<1>18. ASSUME d \notin dead, RowsOK(r, d, q, n) PROVE RowsOK(r, d, q, n)'
  <2>1. CombineRows(r, d, q, n)
    BY <1>2, <1>3, <1>18 DEF RowsOK
  <2>2. Near(d, n)
    BY <1>0, <1>2, <1>3, <1>18, SenderNear
  <2>3. HoldsKept(r, d, q, n)
    <3>1. x.place \in Places
      BY <1>2, <1>11
    <3> QED BY <1>0, <1>2, <1>3, <1>5, <1>13, <1>14, <1>15, <1>18, <2>2, <3>1, RowsHold
  <2>4. \A i \in DOMAIN wire[r][d][q] : RowMsg(wire[r][d][q][i], x.buf, x.place) =>
           <<wire[r][d][q][i].from, row>> \in staged'[r][x.buf]
    <3> SUFFICES ASSUME NEW i \in DOMAIN wire[r][d][q], RowMsg(wire[r][d][q][i], x.buf, x.place)
                 PROVE  <<wire[r][d][q][i].from, row>> \in staged'[r][x.buf]
      OBVIOUS
    <3>1. wire[r][d][q][i].kind = "row" /\ wire[r][d][q][i].buf = Side(Pos(r))
          /\ wire[r][d][q][i].place = Back(r, q, t)
      BY <1>3, <1>11 DEF RowMsg
    <3>2. RowOf(r, d, q, n, wire[r][d][q][i])
      BY <1>0, <1>2, <1>3, <1>18, <3>1, Pending
    <3>3. PICK u \in 0 .. MaxTokens - 1 :
            /\ Back(r, q, t) = Back(r, q, u)
            /\ <<wire[r][d][q][i].from, BackRow(r, d, q, n, u)>> \in staged[r][Side(n)]
      BY <1>2, <1>3, <3>1, <3>2 DEF RowOf
    <3>4. u = t
      BY <3>3 DEF Back
    <3>5. <<wire[r][d][q][i].from, row>> \in staged[r][Side(n)]
      BY <1>3, <3>3, <3>4
    <3>6. /\ wire[r][d][q][i].kind = "row" /\ d \in Rank \ dead /\ q \in Local
          /\ <<wire[r][d][q][i].from, row>> \in staged[r][wire[r][d][q][i].buf]
      BY <1>2, <1>3, <1>18, <3>1, <3>5
    <3>7. <<wire[r][d][q][i].from, row>> \in staged'[r][wire[r][d][q][i].buf]
      BY <1>13, <3>6, Zenon DEF StillStaged
    <3> QED BY <1>3, <1>11, <3>1, <3>7
  <2>5. Holds(r, d, q, n, Back(r, q, t), BackRow(r, d, q, n, t))'
    <3>1. Holds(r, d, q, Pos(r), x.place, row)'
      <4>1. x.place \in Places
        BY <1>2, <1>11
      <4>2. ~NVLink(r, d) => <<x.from, row>> \in staged'[r][x.buf]
        BY <1>14, <1>18
      <4> QED BY <1>0, <1>2, <1>5, <1>18, <2>4, <4>1, <4>2, RowHeld
    <3>2. Pos(r)' = n /\ row = BackRow(r, d, q, n, t)
      BY <1>3, <1>8
    <3>3. Holds(r, d, q, n, x.place, row)'
      BY <3>1, <3>2
    <3>4. BackRow(r, d, q, n, t)' = BackRow(r, d, q, n, t) /\ Back(r, q, t)' = Back(r, q, t)
      BY <1>8, FixedToo
    <3> QED BY <1>11, <3>2, <3>3, <3>4
  <2>6. ASSUME NEW u \in BackTokens(r, d, q, n), BackSent(r, d, q, n, u)'
        PROVE  Holds(r, d, q, n, Back(r, q, u), BackRow(r, d, q, n, u))'
    <3>1. CASE u = t
      BY <2>5, <3>1
    <3>2. CASE u # t
      <4>0. Pos(r)' = n
        BY <1>3, <1>8
      <4>1. BackSent(r, d, q, n, u)
        BY <1>3, <1>10, <2>6, <3>2, <4>0 DEF RowFewer
      <4>2. Holds(r, d, q, n, Back(r, q, u), BackRow(r, d, q, n, u))
        BY <2>1, <4>1 DEF CombineRows
      <4>3. Expected(r, d, q, n, Back(r, q, u), BackRow(r, d, q, n, u))
        BY <1>2, <1>3, <2>6 DEF Expected
      <4>4. BackRow(r, d, q, n, u)' = BackRow(r, d, q, n, u) /\ Back(r, q, u)' = Back(r, q, u)
        BY <1>8, FixedToo
      <4>5. PICK P, row2 : P = Back(r, q, u) /\ row2 = BackRow(r, d, q, n, u)
        OBVIOUS
      <4>6. Expected(r, d, q, n, P, row2) /\ Holds(r, d, q, n, P, row2)
        BY <4>2, <4>3, <4>5
      <4>7. Holds(r, d, q, n, P, row2)'
        BY <2>3, <4>6, Zenon DEF HoldsKept
      <4> QED BY <4>4, <4>5, <4>7
    <3> QED BY <3>1, <3>2
  <2>7. BackTokens(r, d, q, n)' = BackTokens(r, d, q, n)
    BY <1>8, FixedToo
  <2>8. CombineRows(r, d, q, n)'
    BY <2>6, <2>7 DEF CombineRows
  <2>9. KindOf(n)' # "dispatch"
    BY <1>2, <1>3, <1>8, Fixed
  <2> QED BY <2>8, <2>9 DEF RowsOK
<1>19. PICK todo, finish : todo = kernel[r].todo \ {<<q, d, p>>} /\ finish = kernel[r].finish
  OBVIOUS
<1>20. todo \in SUBSET Items /\ finish \in [Expert -> Int]
       /\ Becomes(r, kernel[r].cleaned, todo, finish, kernel[r].step, kernel[r].round, kernel[r].met)
  BY <1>0, <1>7, <1>19, KernelTypes
<1>21. d \notin dead /\ RowsOK(r, d, q, Pos(r)) => RowsOK(r, d, q, Pos(r))'
  BY <1>3, <1>8, <1>18
<1>22. \A s \in Rank, z \in Rank \ dead, l \in Local, m \in 1 .. NumCalls :
           Active(m) /\ (~Own(r, d, q, s, z, l) \/ m # Pos(r)) => RowsSame(s, z, l, m)
  BY <1>10 DEF RowFewer
<1>23. x.place \in Places
  BY <1>2, <1>11
<1> QED BY <1>2, <1>5, <1>6, <1>7, <1>13, <1>14, <1>15, <1>16, <1>17, <1>20, <1>21, <1>22,
           <1>23, IInvRows

(***************************************************************************)
(* Sending counts and flags.                                               *)
(***************************************************************************)
WordSet(d, b, i, v) == word' = [word EXCEPT ![d][b][i] = v]
SignalGoes(r, d, q, x) ==
  \/ d \in dead /\ memory' = memory
  \/ NVLink(r, d) /\ wire' = wire /\ region' = region /\ WordSet(d, x.buf, x.word, x.value)
  \/ ~NVLink(r, d) /\ word' = word /\ region' = region /\ PutOn(r, d, q, x)

WordOnly(d, x) == \A t \in Rank, c \in {0, 1}, i \in Expert :
  t # d \/ c # x.buf \/ i # x.word => word'[t][c][i] = word[t][c][i]
Shown(r, d, q, x) ==
  \/ /\ NVLink(r, d) /\ wire'[r][d][q] = wire[r][d][q]
     /\ word'[d][x.buf][x.word] = x.value
  \/ ~NVLink(r, d) /\ word' = word /\ wire'[r][d][q] = Append(wire[r][d][q], x)
Words == [Rank -> [{0, 1} -> [Expert -> Int]]]

(* One word is set.                                                         *)
LEMMA WordSetFacts ==
  ASSUME word \in Words, NEW d \in Rank, NEW b \in {0, 1}, NEW i \in Expert, NEW v \in Int,
         WordSet(d, b, i, v)
  PROVE  /\ word' \in Words /\ word'[d][b][i] = v
         /\ \A t \in Rank, c \in {0, 1}, j \in Expert : t # d \/ c # b \/ j # i =>
              word'[t][c][j] = word[t][c][j]
<1>1. word[d] \in [{0, 1} -> [Expert -> Int]] /\ word[d][b] \in [Expert -> Int]
  BY DEF Words
<1>2. PICK f : f = [word[d][b] EXCEPT ![i] = v]
  OBVIOUS
<1>3. f \in [Expert -> Int] /\ f[i] = v /\ \A j \in Expert : j # i => f[j] = word[d][b][j]
  BY <1>1, <1>2
<1>4. PICK g : g = [word[d] EXCEPT ![b] = f]
  OBVIOUS
<1>5. g \in [{0, 1} -> [Expert -> Int]] /\ g[b] = f /\ \A c \in {0, 1} : c # b
        => g[c] = word[d][c]
  BY <1>1, <1>3, <1>4
<1>6. word' = [word EXCEPT ![d] = g]
  BY <1>2, <1>4 DEF WordSet
<1>7. word' \in Words /\ word'[d] = g /\ \A t \in Rank : t # d => word'[t] = word[t]
  BY <1>5, <1>6 DEF Words
<1> QED BY <1>3, <1>5, <1>7

(* A count or flag changes one wire, or one word.                           *)
LEMMA SignalGoesFacts ==
  ASSUME Shape, run' = run, NEW r \in Rank, NEW d \in Rank, NEW q \in Local, NEW x \in Msg,
         x.kind = "add", SignalGoes(r, d, q, x)
  PROVE  /\ word' = word \/ word' \in Words
         /\ wire' = wire \/ wire' \in [Rank -> [Rank -> [Local -> Seq(Msg)]]]
         /\ region' = region
         /\ WireGrows(r, d, q, x) /\ WordOnly(d, x)
         /\ d \notin dead => Shown(r, d, q, x)
<1>1. CASE d \in dead /\ memory' = memory
  BY <1>1 DEF memory, WireGrows, WordOnly
<1>2. CASE NVLink(r, d) /\ wire' = wire /\ region' = region
             /\ WordSet(d, x.buf, x.word, x.value)
  <2>1. x.buf \in {0, 1} /\ x.word \in Expert /\ x.value \in Int
    BY DEF Msg
  <2>2. PICK b \in {0, 1}, i \in Expert, v \in Int : b = x.buf /\ i = x.word /\ v = x.value
    BY <2>1
  <2>3. word \in Words
    BY DEF Shape, Words
  <2>4. WordSet(d, b, i, v)
    BY <1>2, <2>2
  <2>5. /\ word' \in Words /\ word'[d][b][i] = v
        /\ \A t \in Rank, c \in {0, 1}, j \in Expert : t # d \/ c # b \/ j # i =>
              word'[t][c][j] = word[t][c][j]
    BY <2>3, <2>4, WordSetFacts
  <2>6. WordOnly(d, x)
    BY <2>2, <2>5 DEF WordOnly
  <2>7. WireGrows(r, d, q, x) /\ Shown(r, d, q, x)
    BY <1>2, <2>2, <2>5 DEF WireGrows, Shown
  <2> QED BY <1>2, <2>5, <2>6, <2>7
<1>3. CASE ~NVLink(r, d) /\ word' = word /\ region' = region /\ PutOn(r, d, q, x)
  <2>1. /\ wire' \in [Rank -> [Rank -> [Local -> Seq(Msg)]]]
        /\ wire'[r][d][q] = Append(wire[r][d][q], x)
        /\ \A s, t \in Rank, l \in Local : s # r \/ t # d \/ l # q
             => wire'[s][t][l] = wire[s][t][l]
    BY <1>3, WireAppended
  <2>2. WordOnly(d, x)
    BY <1>3 DEF WordOnly
  <2>3. WireGrows(r, d, q, x) /\ Shown(r, d, q, x)
    BY <1>3, <2>1 DEF WireGrows, Shown
  <2> QED BY <1>3, <2>1, <2>2, <2>3
<1> QED BY <1>1, <1>2, <1>3 DEF SignalGoes

(* A step that sends a count or a flag.                                     *)
SignalStep(r, d, q, x) ==
  /\ Sends(r, d, q, x) /\ SignalGoes(r, d, q, x)
  /\ x.kind = "add" /\ x.word = WordOf(Pos(r), r, q) /\ x.value = ValueOf(Pos(r), r, d, q)
  /\ staged' = staged /\ Step(r, d, q)' = "sent" /\ kernel'[r].todo = kernel[r].todo
  /\ kernel'[r].cleaned = kernel[r].cleaned /\ kernel'[r].round = kernel[r].round

(* It is the word of no other channel.                                      *)
LEMMA SignalApart ==
  ASSUME Shape, PosInv, KernelInv, NEW r \in Rank, NEW d \in Rank, NEW q \in Local,
         NEW x \in Msg,
         SignalStep(r, d, q, x), NEW s \in Rank, NEW t \in Rank \ dead, NEW l \in Local,
         NEW m \in 1 .. NumCalls, Active(m), Near(t, m), ~Own(r, d, q, s, t, l) \/ m # Pos(r)
  PROVE  WordAt(s, t, l, m)' = WordAt(s, t, l, m)
<1>0. run' = run /\ Sends(r, d, q, x) /\ SignalGoes(r, d, q, x) /\ x.kind = "add"
      /\ r \notin dead /\ Active(Pos(r)) /\ Step(r, d, q) = "send" /\ x.buf = Side(Pos(r))
      /\ x.word = WordOf(Pos(r), r, q) /\ run \in Runs
  BY DEF SignalStep, Sends, Shape
<1>1. WordOnly(d, x)
  BY <1>0, SignalGoesFacts
<1>2. PICK b, i : b = Side(m) /\ i = WordOf(m, s, l)
  OBVIOUS
<1>3. b \in {0, 1} /\ i \in Expert
  BY <1>0, <1>2, SideFacts, ValueFacts
<1>4. WordAt(s, t, l, m)' = word'[t][b][i] /\ WordAt(s, t, l, m) = word[t][b][i]
  BY <1>0, <1>2, Fixed, FixedToo DEF WordAt
<1>5. t # d \/ b # x.buf \/ i # x.word
  <2> SUFFICES ASSUME t = d, b = Side(Pos(r)), i = WordOf(Pos(r), r, q) PROVE FALSE
    BY <1>0
  <2>1. Near(d, Pos(r)) /\ Pos(r) \in 1 .. NumCalls
    BY <1>0, SenderNear
  <2>2. m = Pos(r)
    BY <1>0, <1>2, <2>1, SameCall
  <2>3. WordOf(m, s, l) = WordOf(m, r, q)
    BY <1>2, <2>2
  <2>4. s = r /\ l = q
    BY <1>0, <2>3, WordsApart
  <2> QED BY <2>2, <2>4 DEF Own
<1> QED BY <1>1, <1>3, <1>4, <1>5 DEF WordOnly

(* The channel is told, the others are as before.                           *)
LEMMA SignalSignals ==
  ASSUME Shape, PosInv, KernelInv, SignalInv, NVLinkInv, NEW r \in Rank, NEW d \in Rank,
         NEW q \in Local,
         NEW x \in Msg, SignalStep(r, d, q, x)
  PROVE  SignalInv'
<1>0. /\ Sends(r, d, q, x) /\ run' = run /\ dead' = dead /\ SignalGoes(r, d, q, x)
      /\ x.kind = "add" /\ x.buf = Side(Pos(r))
      /\ x.word = WordOf(Pos(r), r, q) /\ x.value = ValueOf(Pos(r), r, d, q) /\ run \in Runs
  BY DEF SignalStep, Sends, Shape
<1> SUFFICES ASSUME NEW s \in Rank, NEW t \in Rank \ dead, NEW l \in Local,
                    NEW m \in 1 .. NumCalls,
                    Active(m), Ready(t, m)'
             PROVE  SignalOK(s, t, l, m)'
  BY <1>0, Fixed DEF SignalInv
<1>2. Ready(t, m) /\ Near(t, m)
  <2>1. Ready(t, m)
    BY <1>0, SendsReady DEF SignalStep
  <2> QED BY <2>1 DEF Ready, Near
<1>3. SignalOK(s, t, l, m)
  BY <1>2 DEF SignalInv
<1>4. CASE ~Own(r, d, q, s, t, l) \/ m # Pos(r)
  <2>1. WordAt(s, t, l, m)' = WordAt(s, t, l, m)
    BY <1>2, <1>4, SignalApart
  <2>2. Told(s, t, l, m)' <=> Told(s, t, l, m)
    BY <1>0, <1>4, SendsTold
  <2>3. Aside(s, t, l, Side(m))
    BY <1>0, <1>2, <1>4, SendsWhere
  <2> QED BY <1>0, <1>3, <2>1, <2>2, <2>3, AsideSignal
<1>5. CASE Own(r, d, q, s, t, l) /\ m = Pos(r)
  <2>1. Untold(wire[r][d][q], Side(m), WordAt(r, d, q, m))
    BY <1>0, <1>5, SendsUntold DEF Own
  <2>2. Shown(r, d, q, x)
    BY <1>0, <1>5, SignalGoesFacts DEF Own
  <2>3. PICK b, i, v : b = Side(m) /\ i = WordOf(m, r, q) /\ v = ValueOf(m, r, d, q)
    OBVIOUS
  <2>4. b = Side(m)' /\ i = WordOf(m, r, q)' /\ v = ValueOf(m, r, d, q)'
        /\ WordAt(r, d, q, m)' = word'[d][b][i] /\ WordAt(r, d, q, m) = word[d][b][i]
    BY <1>0, <2>3, Fixed, FixedToo DEF WordAt
  <2>5. PICK w \in Seq(Msg) : w = wire[r][d][q]
    <3>1. wire[r][d][q] \in Seq(Msg)
      BY DEF Shape
    <3> QED BY <3>1
  <2>8. Told(r, d, q, m)'
    BY <1>0, <1>5 DEF Told, SignalStep, Sends
  <2>6. CASE NVLink(r, d)
    <3>1. wire'[r][d][q] = <<>> /\ word'[d][b][i] = v
      BY <1>0, <1>5, <2>2, <2>3, <2>6 DEF Shown, NVLinkInv, Quiet
    <3>2. Signalled(r, d, q, m)'
      BY <2>4, <3>1 DEF Signalled, Landed, NoneOf
    <3> QED BY <1>5, <2>8, <3>2 DEF SignalOK, Own
  <2>7. CASE ~NVLink(r, d)
    <3>1. wire'[r][d][q] = Append(w, x) /\ word'[d][b][i] = word[d][b][i]
      BY <2>2, <2>5, <2>7 DEF Shown
    <3>2. \A k \in DOMAIN w : w[k].kind \in {"row", "add", "sync"}
      <4>1. \A k \in DOMAIN w : w[k] \in Msg
        BY <2>5
      <4> QED BY <4>1 DEF Msg
    <3>3. Untold(w, b, word[d][b][i])
      BY <2>1, <2>3, <2>4, <2>5
    <3>4. x.buf = b /\ x.word = i /\ x.value = v
      BY <1>0, <1>5, <2>3
    <3>5. Coming(Append(w, x), b, i, v, word[d][b][i])
      BY <1>0, <3>2, <3>3, <3>4, SignalSent
    <3>6. Coming(wire[r][d][q], Side(m), WordOf(m, r, q), ValueOf(m, r, d, q), WordAt(r, d, q, m))'
      BY <2>4, <3>1, <3>5
    <3> QED BY <1>5, <2>8, <3>6 DEF SignalOK, Own
  <2> QED BY <2>6, <2>7
<1> QED BY <1>4, <1>5

(* No row is touched.                                                       *)
LEMMA SignalHold ==
  ASSUME Shape, NEW r \in Rank, NEW d \in Rank, NEW q \in Local, NEW x \in Msg,
         SignalStep(r, d, q, x), NEW s \in Rank, NEW t \in Rank, NEW l \in Local, NEW m
  PROVE  HoldsKept(s, t, l, m)
<1>0. run' = run /\ Sends(r, d, q, x) /\ SignalGoes(r, d, q, x) /\ x.kind = "add"
      /\ staged' = staged /\ WireGrows(r, d, q, x)
  BY DEF SignalStep, Sends
<1>1. region' = region
  BY <1>0, SignalGoesFacts
<1>2. CASE wire'[s][t][l] = wire[s][t][l]
  BY <1>0, <1>1, <1>2, MemorySame
<1>3. CASE wire'[s][t][l] = Append(wire[s][t][l], x)
  <2> SUFFICES ASSUME NEW P, NEW row, Holds(s, t, l, m, P, row) PROVE Holds(s, t, l, m, P, row)'
    BY DEF HoldsKept
  <2>0. PICK w \in Seq(Msg) : w = wire[s][t][l]
    <3>1. wire[s][t][l] \in Seq(Msg)
      BY DEF Shape
    <3> QED BY <3>1
  <2>1. PICK b : w = wire[s][t][l] /\ b = Side(m)
    BY <2>0
  <2>2. HoldsIn(w, b, staged[s][b], region[t][b], P, row)
    BY <2>1 DEF Holds
  <2>3. ~RowMsg(x, b, P)
    BY <1>0 DEF RowMsg
  <2>4. HoldsIn(Append(w, x), b, staged[s][b], region[t][b], P, row)
    BY <2>2, <2>3, HoldsAppend
  <2>5. b = Side(m)'
    BY <1>0, <2>1, Fixed
  <2> QED BY <1>0, <1>1, <1>3, <2>1, <2>4, <2>5 DEF Holds
<1> QED BY <1>0, <1>2, <1>3 DEF WireGrows

SameRows == \A s, t \in Rank, l \in Local, m \in 1 .. NumCalls : RowsSame(s, t, l, m)

(* So all rows are held as before.                                          *)
LEMMA SignalHolds ==
  ASSUME Shape, PosInv, KernelInv, HoldsInv, NEW r \in Rank, NEW d \in Rank, NEW q \in Local,
         NEW x \in Msg, SignalStep(r, d, q, x), SameRows
  PROVE  HoldsInv'
<1>0. /\ Sends(r, d, q, x) /\ run' = run /\ dead' = dead /\ r \notin dead
      /\ \A s \in Rank : Pos(s)' = Pos(s)
  BY DEF SignalStep, Sends
<1> SUFFICES ASSUME NEW s \in Rank, NEW t \in Rank \ dead, NEW l \in Local,
                    NEW m \in 1 .. NumCalls,
                    Near(t, m)', Pos(s) >= m, ~Lost(s, t, l, m)'
             PROVE  RowsOK(s, t, l, m)'
  BY <1>0, Fixed DEF HoldsInv
<1>1. Near(t, m)
  BY <1>0, Fixed DEF Near
<1>2. CASE ~Active(m)
  BY <1>0, <1>2, Fixed DEF RowsOK, Active
<1>3. CASE Active(m)
  <2>1. ~Lost(s, t, l, m)
    <3>1. CASE Own(r, d, q, s, t, l)
      BY <1>0, <3>1 DEF Lost, Own
    <3>2. CASE ~Own(r, d, q, s, t, l)
      <4>1. Aside(s, t, l, Side(m))
        BY <1>0, <1>1, <1>3, <3>2, SendsWhere
      <4>2. WordAt(s, t, l, m)' = WordAt(s, t, l, m)
        BY <1>1, <1>3, <3>2, SignalApart
      <4> QED BY <1>0, <4>1, <4>2, AsideSignal DEF Unchanged
    <3> QED BY <3>1, <3>2
  <2>2. RowsOK(s, t, l, m)
    BY <1>1, <2>1 DEF HoldsInv
  <2>3. HoldsKept(s, t, l, m) /\ RowsSame(s, t, l, m)
    BY SignalHold DEF SameRows
  <2> QED BY <1>0, <2>2, <2>3, RowsKept DEF RowsSame
<1> QED BY <1>2, <1>3

(* The signal is the last of its call on its wire.                          *)
LEMMA SignalWire ==
  ASSUME Shape, PosInv, KernelInv, WireInv, NVLinkInv, MemInv, NEW r \in Rank, NEW d \in Rank,
         NEW q \in Local, NEW x \in Msg, SignalStep(r, d, q, x), SameRows
  PROVE  WireInv' /\ NVLinkInv' /\ MemInv'
<1>0. /\ Sends(r, d, q, x) /\ run' = run /\ dead' = dead
      /\ layout' = layout /\ rows' = rows /\ WireGrows(r, d, q, x) /\ staged' = staged
      /\ \A s \in Rank : Pos(s)' = Pos(s)
      /\ x.kind = "add" /\ x.buf = Side(Pos(r)) /\ SignalGoes(r, d, q, x)
      /\ x.word = WordOf(Pos(r), r, q) /\ x.value = ValueOf(Pos(r), r, d, q)
  BY DEF SignalStep, Sends
<1>a. NVLinkInv'
  <2> SUFFICES ASSUME NEW s \in Rank, NEW t \in Rank, NVLink(s, t), NEW l \in Local
               PROVE  wire'[s][t][l] = <<>>
    BY <1>0, Fixed DEF NVLinkInv, Quiet
  <2>1. wire[s][t][l] = <<>>
    BY DEF NVLinkInv, Quiet
  <2>2. wire'[s][t][l] = wire[s][t][l]
    BY <1>0 DEF WireGrows
  <2> QED BY <2>1, <2>2
<1>b. MemInv'
  <2>1. region' = region
    BY <1>0, SignalGoesFacts
  <2> QED BY <1>0, <2>1, FixedToo DEF MemInv, Rank, Good
<1> SUFFICES ASSUME NEW s \in Rank, NEW t \in Rank \ dead, NEW l \in Local,
                    NEW i \in DOMAIN wire'[s][t][l], wire'[s][t][l][i].kind # "sync"
             PROVE  \E m \in 1 .. NumCalls : Near(t, m)' /\ IsMsg(s, t, l, m, wire[s][t][l][i])'
  BY <1>0, <1>a, <1>b, Fixed DEF WireInv
<1>c. \A m : Near(t, m)' <=> Near(t, m)
  BY <1>0, Fixed DEF Near
<1>2. ASSUME NEW j \in DOMAIN wire[s][t][l], wire'[s][t][l][i] = wire[s][t][l][j]
      PROVE  \E m \in 1 .. NumCalls : Near(t, m)' /\ IsMsg(s, t, l, m, wire[s][t][l][i])'
  <2>1. PICK y : y = wire[s][t][l][j]
    OBVIOUS
  <2>2. y.kind # "sync"
    BY <1>2, <2>1
  <2>3. PICK m \in 1 .. NumCalls : Near(t, m) /\ IsMsg(s, t, l, m, y)
    BY <2>1, <2>2 DEF WireInv
  <2>4. m <= Pos(s)' /\ Handed(s, m)
    BY <1>0, <2>3 DEF IsMsg, Handed
  <2>5. KindOf(m) = "dispatch" =>
           \A k \in 0 .. Slots(s, t, l, m) - 1 : k \in 0 .. Slots(s, t, l, m)' - 1
    <3>1. RowsSame(s, t, l, m)
      BY DEF SameRows
    <3> QED BY <3>1 DEF RowsSame
  <2>6. y.kind = "row" => \A z : <<y.from, z>> \in staged[s][Side(m)]
          => <<y.from, z>> \in staged'[s][Side(m)]
    BY <1>0
  <2>7. IsMsg(s, t, l, m, y)'
    BY <1>0, <2>3, <2>4, <2>5, <2>6, MsgKept
  <2> QED BY <1>c, <1>2, <2>1, <2>3, <2>7
<1>3. CASE wire'[s][t][l] = wire[s][t][l]
  BY <1>2, <1>3
<1>4. CASE s = r /\ t = d /\ l = q /\ wire'[s][t][l] = Append(wire[s][t][l], x)
  <2>1. wire[s][t][l] \in Seq(Msg)
    BY DEF Shape
  <2>2. PICK w \in Seq(Msg) : w = wire[s][t][l]
    BY <2>1
  <2>3. \A j \in DOMAIN w : Append(w, x)[j] = w[j]
    BY <2>2, AppendFacts
  <2>4. i \in DOMAIN w \/ (i = Len(w) + 1 /\ Append(w, x)[i] = x)
    BY <1>4, <2>2, AppendFacts
  <2>5. CASE i \in DOMAIN w
    BY <1>2, <1>4, <2>2, <2>3, <2>5
  <2>6. CASE wire'[s][t][l][i] = x
    <3>1. Near(t, Pos(r)) /\ Pos(r) \in 1 .. NumCalls
      BY <1>0, <1>4, SenderNear DEF Sends
    <3>2. PICK m \in 1 .. NumCalls : m = Pos(r)
      BY <3>1
    <3>3. Active(m)' /\ Side(m)' = Side(m) /\ Pos(r)' = m /\ m <= m
          /\ WordOf(m, r, q)' = WordOf(m, r, q) /\ ValueOf(m, r, d, q)' = ValueOf(m, r, d, q)
      BY <1>0, <3>2, Fixed, FixedToo DEF Sends
    <3>4. IsMsg(r, d, q, m, x)'
      BY <1>0, <3>2, <3>3 DEF IsMsg
    <3> QED BY <1>c, <1>4, <2>6, <3>1, <3>2, <3>4
  <2> QED BY <1>4, <2>2, <2>4, <2>5, <2>6
<1> QED BY <1>0, <1>3, <1>4 DEF WireGrows

(* What is left to show.                                                    *)
LEMMA IInvSignals ==
  ASSUME IInv, NEW r \in Rank, NEW d \in Rank, NEW q \in Local, NEW x \in Msg,
         SignalStep(r, d, q, x), SameRows,
         NEW finish \in [Expert -> Int], NEW step \in [Expert -> Steps],
         Becomes(r, kernel[r].cleaned, kernel[r].todo, finish, step, kernel[r].round, kernel[r].met),
         kernel' = [y \in Rank |-> kernel'[y]], KernelInv',
         counter' \in [Rank -> [Expert -> Nat]], sync' = sync, outputs' = outputs,
         packed' = packed \/ packed' \in [Rank -> [Local -> Int]], PackedInv'
  PROVE  IInv'
<1>0. /\ Shape /\ PosInv /\ KernelInv /\ MemInv /\ SignalInv /\ HoldsInv /\ WireInv
      /\ NVLinkInv /\ TakenInv /\ RowsInv /\ CombinedOwn
  BY IInvFacts
<1>1. Sends(r, d, q, x) /\ SignalGoes(r, d, q, x) /\ x.kind = "add" /\ Step(r, d, q)' = "sent"
      /\ staged' = staged
  BY DEF SignalStep
<1>2. run' = run /\ dead' = dead /\ mask' = mask /\ Step(r, d, q) = "send"
      /\ (\A s \in Rank : Pos(s)' = Pos(s)) /\ layout' = layout /\ rows' = rows
      /\ \A s, t \in Rank, l \in Local : s # r \/ t # d \/ l # q
           => Step(s, t, l)' = Step(s, t, l)
  BY <1>1 DEF Sends
<1>3. /\ region' = region
      /\ word' = word \/ word' \in Words
      /\ wire' = wire \/ wire' \in [Rank -> [Rank -> [Local -> Seq(Msg)]]]
  BY <1>0, <1>1, <1>2, SignalGoesFacts
<1>4. kernel' \in [Rank -> Kernels']
  BY <1>0, KernelTypes, BecomesKernel
<1>5. Local' = Local /\ Expert' = Expert /\ out' = out
  BY <1>2, Fixed DEF outputs
<1>6. Shape'
  <2>1. dead' \in SUBSET Rank
    BY <1>0, <1>2 DEF Shape
  <2>2. word' = word \/ word' \in [Rank -> [{0, 1} -> [Expert -> Int]]]
    BY <1>3 DEF Words
  <2>3. dead' = dead /\ layout' = layout /\ rows' = rows /\ mask' = mask /\ run' = run
    BY <1>2
  <2>4. region' = region /\ staged' = staged /\ out' = out
    BY <1>1, <1>3, <1>5
  <2>5. wire' = wire \/ wire' \in [Rank -> [Rank -> [Local -> Seq(Msg)]]]
    BY <1>3
  <2> QED BY <1>0, <1>4, <2>1, <2>2, <2>3, <2>4, <2>5, ShapeKept
<1>7. Standing' /\ kernel'[r].met = kernel[r].met
  <2>1. Step(r, d, q)' \in {"send", "sent"}
    BY <1>1
  <2> QED BY <1>1, <2>1, SendsStanding
<1>8. Peers'
  <2>1. x.kind # "sync"
    BY <1>1
  <2> QED BY <1>1, <1>7, <2>1, SendsPeers
<1>9. TakenInv'
  <2>1. \A l \in Local : Taken(r, d, l)' => Taken(r, d, l)
    BY <1>1, <1>2 DEF Taken
  <2>2. \A s \in Rank, t \in Rank \ dead, l \in Local, m \in 1 .. NumCalls :
           Active(m) /\ Near(t, m) /\ (~Own(r, d, q, s, t, l) \/ m # Pos(r)) =>
             WordAt(s, t, l, m)' = WordAt(s, t, l, m)
    BY <1>0, SignalApart
  <2> QED BY <1>0, <1>1, <2>1, <2>2, SendsTaken
<1>10. Channels'
  <2>1. SignalInv'
    BY <1>0, SignalSignals
  <2>2. HoldsInv'
    BY <1>0, SignalHolds
  <2>3. WireInv' /\ NVLinkInv' /\ MemInv'
    BY <1>0, SignalWire
  <2> QED BY <2>1, <2>2, <2>3 DEF Channels
<1>11. RowsInv'
  <2>1. \A y \in Rank, n \in 1 .. NumCalls, s \in Rank, l \in Local :
          Done(y, n, s, l)' <=> Done(y, n, s, l)
    BY <1>1, <1>2 DEF Done
  <2>2. \A y, n, s, l : Extent(y, n, s, l)' = Extent(y, n, s, l)
    BY <1>2 DEF Extent
  <2> SUFFICES ASSUME NEW y \in Rank, NEW n \in 1 .. NumCalls, KindOf(n) = "dispatch"
               PROVE  CopiedOK(y, n)'
    BY <1>2, Fixed DEF RowsInv
  <2>3. CopiedOK(y, n)
    BY <1>0 DEF RowsInv
  <2> QED BY <1>2, <2>1, <2>2, <2>3, CopiedStays
<1>12. CombinedOwn'
  <2>1. \A y \in Rank, n \in 1 .. NumCalls : Returned(y, n)' => Returned(y, n)
    BY <1>2 DEF Returned, Pos
  <2>2. run \in Runs /\ dead \subseteq dead'
    BY <1>0, <1>2 DEF Shape
  <2> QED BY <1>0, <1>2, <1>5, <2>1, <2>2, CombinedStays
<1> QED BY <1>6, <1>7, <1>8, <1>9, <1>10, <1>11, <1>12 DEF IInv, Keeps

AddOn(b, i, v) == [kind |-> "add", buf |-> b, word |-> i, value |-> v]

(* A count or flag goes out in the buffer of the call.                      *)
LEMMA PutSignalGoes ==
  ASSUME Shape, IdxInv, MaskInv, NEW r \in Rank, Active(Pos(r)), NEW d \in Rank, NEW q,
         NEW i, NEW v,
         Signal(r, d, q, i, v)
  PROVE  SignalGoes(r, d, q, AddOn(Side(Pos(r)), i, v))
<1>1. PICK b : b = Side(Pos(r))
  OBVIOUS
<1>2. Masked(r, d) => d \in dead
  BY MaskedDead DEF Masked
<1>3. Buf(r) = b
  BY <1>1, BufFacts
<1>4. /\ AddOn(b, i, v).buf = b /\ AddOn(b, i, v).word = i /\ AddOn(b, i, v).value = v
  BY DEF AddOn
<1>5. SignalGoes(r, d, q, AddOn(b, i, v))
  <2>1. CASE Masked(r, d) /\ UNCHANGED memory
    BY <1>2, <2>1 DEF SignalGoes
  <2>2. CASE /\ ~Masked(r, d) /\ NVLink(r, d)
             /\ word' = [word EXCEPT ![d][b][i] = v]
             /\ UNCHANGED <<region, wire>>
    BY <1>4, <2>2 DEF SignalGoes, WordSet
  <2>3. CASE /\ ~Masked(r, d) /\ ~NVLink(r, d)
             /\ wire' = [wire EXCEPT ![r][d][q] = Append(@, AddOn(b, i, v))]
             /\ UNCHANGED <<word, region>>
    BY <2>3 DEF SignalGoes, PutOn
  <2> QED BY <1>3, <2>1, <2>2, <2>3 DEF Signal, AddOn
<1> QED BY <1>1, <1>5

(* What sending one is, for its rank and the others.                        *)
LEMMA SignalSends ==
  ASSUME Shape, IdxInv, MaskInv, NEW r \in Rank, r \notin dead, dead' = dead, Active(Pos(r)),
         NEW d \in Rank, NEW q \in Local, NEW e \in Expert, GlobalOf(d, q) = e,
           kernel[r].step[e] = "send",
         NEW i \in Expert, i = WordOf(Pos(r), r, q), NEW v \in Int,
           v = ValueOf(Pos(r), r, d, q),
         Signal(r, d, q, i, v), NEW finish,
         Becomes(r, kernel[r].cleaned, kernel[r].todo, finish, [kernel[r].step EXCEPT ![e] = "sent"],
                 kernel[r].round, kernel[r].met),
         \A s \in Rank : s # r => counter'[s] = counter[s],
         mask' = mask, layout' = layout, rows' = rows, staged' = staged
  PROVE  /\ SignalStep(r, d, q, AddOn(Side(Pos(r)), i, v))
         /\ AddOn(Side(Pos(r)), i, v) \in Msg
<1>1. PICK b : b = Side(Pos(r))
  OBVIOUS
<1>2. PICK x : x = AddOn(b, i, v)
  OBVIOUS
<1>3. b \in {0, 1} /\ run \in Runs
  BY <1>1, KernelTypes, SideFacts DEF Shape
<1>4. x \in Msg /\ x.kind = "add" /\ x.buf = b /\ x.word = i /\ x.value = v
  BY <1>2, <1>3 DEF AddOn, Msg
<1>5. SignalGoes(r, d, q, x)
  BY <1>1, <1>2, PutSignalGoes
<1>6. /\ Alone(r) /\ run' = run /\ Pos(r)' = Pos(r) /\ kernel'[r].todo = kernel[r].todo
      /\ kernel'[r].cleaned = kernel[r].cleaned /\ kernel'[r].round = kernel[r].round
      /\ kernel'[r].step = [kernel[r].step EXCEPT ![e] = "sent"]
  BY BecomesFacts
<1>7. kernel[r].step \in [Expert -> Steps]
  BY KernelTypes
<1>8. kernel'[r].step[e] = "sent" /\ \A g \in Expert : g # e
        => kernel'[r].step[g] = kernel[r].step[g]
  BY <1>6, <1>7
<1>9. /\ \A s \in Rank : s # r => kernel'[s] = kernel[s]
      /\ \A s \in Rank : Pos(s)' = Pos(s)
  BY <1>6 DEF Alone, Pos
<1>10. \A z, l : GlobalOf(z, l)' = GlobalOf(z, l)
  BY <1>6, Fixed
<1>11. Step(r, d, q)' = "sent" /\ Step(r, d, q) = "send"
  BY <1>8, <1>10 DEF Step
<1>12. ASSUME NEW s \in Rank, NEW t \in Rank, NEW l \in Local, s # r \/ t # d \/ l # q
       PROVE  Step(s, t, l)' = Step(s, t, l)
  <2>1. CASE s # r
    BY <1>9, <1>10, <2>1 DEF Step
  <2>2. CASE s = r
    <3>1. GlobalOf(t, l) # e /\ GlobalOf(t, l) \in Expert
      BY <1>3, <1>12, <2>2, IndexFacts
    <3> QED BY <1>8, <1>10, <2>2, <3>1 DEF Step
  <2> QED BY <2>1, <2>2
<1>13. WireGrows(r, d, q, x)
  BY <1>4, <1>5, <1>6, SignalGoesFacts
<1>14. Sends(r, d, q, x)
  BY <1>1, <1>4, <1>6, <1>9, <1>11, <1>12, <1>13 DEF Sends
<1>15. SignalStep(r, d, q, x)
  BY <1>4, <1>5, <1>6, <1>11, <1>14 DEF SignalStep
<1> QED BY <1>1, <1>2, <1>4, <1>15

(* The rows sent are the same: all of them.                                 *)
LEMMA SignalRows ==
  ASSUME run \in Runs, NEW r \in Rank, NEW d \in Rank, NEW q \in Local, NEW x,
         SignalStep(r, d, q, x),
         KindOf(Pos(r)) = "dispatch" =>
           /\ counter[r][GlobalOf(d, q)] = Count(Pos(r), r, d, q)
           /\ \A g \in Expert : g # GlobalOf(d, q) => counter'[r][g] = counter[r][g]
  PROVE  SameRows
<1>0. /\ run' = run /\ layout' = layout /\ rows' = rows /\ Step(r, d, q) = "send"
           /\ Step(r, d, q)' = "sent"
      /\ kernel'[r].todo = kernel[r].todo
      /\ \A s \in Rank : Pos(s)' = Pos(s)
      /\ \A s, t \in Rank, l \in Local : s # r \/ t # d \/ l # q
           => Step(s, t, l)' = Step(s, t, l)
      /\ \A s \in Rank : s # r => kernel'[s] = kernel[s] /\ counter'[s] = counter[s]
  BY DEF SignalStep, Sends
<1>1. /\ \A z, l, m : Count(m, r, z, l)' = Count(m, r, z, l)
           /\ Tokens(m, r, z, l)' = Tokens(m, r, z, l)
      /\ \A z, l : GlobalOf(z, l)' = GlobalOf(z, l)
      /\ \A m : Handle(m)' = Handle(m) /\ KindOf(m)' = KindOf(m)
  BY <1>0, Fixed
<1> SUFFICES ASSUME NEW s \in Rank, NEW z \in Rank, NEW l \in Local, NEW m \in 1 .. NumCalls
             PROVE  RowsSame(s, z, l, m)
  BY DEF SameRows
<1>2. CASE s # r
  <2>1. /\ Pos(s)' = Pos(s) /\ kernel'[s].todo = kernel[s].todo /\ counter'[s] = counter[s]
        /\ kernel'[s] = kernel[s] /\ Handed(s, m)
    BY <1>0, <1>2 DEF Handed
  <2>2. Step(s, z, l)' = Step(s, z, l)
    BY <1>0, <1>2
  <2> QED BY <1>0, <2>1, <2>2, RowsUntouched
<1>3. CASE s = r
  <2>1. Pos(r)' = Pos(r)
    BY <1>0
  <2>2. ASSUME KindOf(m) = "dispatch"
        PROVE  Slots(r, z, l, m)' = Slots(r, z, l, m)
    <3>1. CASE m # Pos(r)
      BY <1>1, <2>1, <3>1 DEF Slots
    <3>2. CASE m = Pos(r) /\ (z # d \/ l # q)
      <4>1. GlobalOf(z, l) # GlobalOf(d, q) /\ GlobalOf(z, l) \in Expert
        BY <3>2, IndexFacts
      <4>2. counter'[r][GlobalOf(z, l)] = counter[r][GlobalOf(z, l)]
        BY <2>2, <3>2, <4>1
      <4>3. Step(r, z, l)' = Step(r, z, l)
        BY <1>0, <3>2
      <4> QED BY <1>1, <2>1, <4>2, <4>3 DEF Slots
    <3>3. CASE m = Pos(r) /\ z = d /\ l = q
      <4>1. Slots(r, d, q, m) = Count(m, r, d, q)
        BY <1>0, <2>2, <3>3 DEF Slots
      <4>2. Slots(r, d, q, m)' = Count(m, r, d, q)
        BY <1>0, <1>1 DEF Slots
      <4> QED BY <3>3, <4>1, <4>2
    <3> QED BY <3>1, <3>2, <3>3
  <2>3. \A u : TokenSent(r, z, l, m, u)' <=> TokenSent(r, z, l, m, u)
    BY <1>0, <1>1, <2>1 DEF TokenSent
  <2>4. \A u : BackSent(r, z, l, m, u)' <=> BackSent(r, z, l, m, u)
    BY <1>0, <1>1, <2>1 DEF BackSent, Extent, RowAt
  <2> QED BY <1>3, <2>2, <2>3, <2>4 DEF RowsSame
<1> QED BY <1>2, <1>3

(* One counter of the workspace is set.                                     *)
LEMMA CounterSet ==
  ASSUME counter \in [Rank -> [Expert -> Nat]], NEW r \in Rank, NEW e \in Expert, NEW k \in Nat,
         counter' = [counter EXCEPT ![r][e] = k]
  PROVE  /\ counter' \in [Rank -> [Expert -> Nat]]
         /\ \A s \in Rank : s # r => counter'[s] = counter[s]
         /\ \A g \in Expert : g # e => counter'[r][g] = counter[r][g]
<1>1. \A f : counter' = [counter EXCEPT ![r] = f] /\ f \in [Expert -> Nat] =>
         counter' \in [Rank -> [Expert -> Nat]] /\ counter'[r] = f
         /\ \A s \in Rank : s # r => counter'[s] = counter[s]
  OBVIOUS
<1>2. [counter[r] EXCEPT ![e] = k] \in [Expert -> Nat]
  OBVIOUS
<1>3. counter' = [counter EXCEPT ![r] = [counter[r] EXCEPT ![e] = k]]
  OBVIOUS
<1>4. \A g \in Expert : g # e => [counter[r] EXCEPT ![e] = k][g] = counter[r][g]
  OBVIOUS
<1> QED BY <1>1, <1>2, <1>3, <1>4

(* A packed_recv_count that is reset has no range below it.                 *)
LEMMA PackedReset ==
  ASSUME Shape, PackedInv, KernelInv, NEW r \in Rank, NEW d \in Rank, NEW q \in Local,
         NEW x \in Msg,
         SignalStep(r, d, q, x), KindOf(Pos(r)) = "dispatch",
         packed' = IF d = 0 THEN [packed EXCEPT ![r][q] = 0] ELSE packed
  PROVE  packed' \in [Rank -> [Local -> Int]] /\ PackedInv'
<1>0. /\ run' = run /\ layout' = layout /\ Step(r, d, q) = "send" /\ Step(r, d, q)' = "sent"
      /\ \A s \in Rank : Pos(s)' = Pos(s)
      /\ \A s, t \in Rank, l \in Local : s # r \/ t # d \/ l # q
           => Step(s, t, l)' = Step(s, t, l)
  BY DEF SignalStep, Sends
<1>1. packed \in [Rank -> [Local -> Int]] /\ run \in Runs
  BY DEF Shape
<1>2. /\ packed' \in [Rank -> [Local -> Int]]
      /\ \A s \in Rank, l \in Local : s # r \/ l # q \/ d # 0 => packed'[s][l] = packed[s][l]
      /\ d = 0 => packed'[r][q] = 0
  BY <1>1
<1>3. \A s, t \in Rank, l \in Local : Taken(s, t, l)' <=> Taken(s, t, l)
  <2> SUFFICES ASSUME NEW s \in Rank, NEW t \in Rank, NEW l \in Local
               PROVE  Taken(s, t, l)' <=> Taken(s, t, l)
    OBVIOUS
  <2>1. CASE s # r \/ t # d \/ l # q
    BY <1>0, <2>1 DEF Taken
  <2>2. CASE s = r /\ t = d /\ l = q
    BY <1>0, <2>2 DEF Taken
  <2> QED BY <2>1, <2>2
<1>4. ASSUME NEW s \in Rank, NEW l \in Local, d = 0, s = r, l = q
      PROVE  PackedOK(s, l)'
  <2>1. Claimed(r, q)' = {}
    <3>1. \A t \in Rank : ~Taken(r, t, q)
      <4> SUFFICES ASSUME NEW t \in Rank, Taken(r, t, q) PROVE FALSE
        OBVIOUS
      <4>1. GlobalOf(t, q) \in Expert /\ GlobalOf(d, q) \in Expert
        BY <1>1, IndexFacts
      <4>2. AllSent(r)
        BY <4>1 DEF KernelInv, KernelOK, DispatchKernel, DispatchSent, Taken, Step
      <4> QED BY <1>0, <4>1, <4>2 DEF AllSent, Step
    <3> QED BY <1>3, <3>1 DEF Claimed
  <2>2. packed'[r][q] = 0
    BY <1>2, <1>4
  <2>3. NumRanks * MaxTokens \in Nat /\ MaxTokens \in Nat
    BY <1>1, RunFacts
  <2>4. Cardinality({}) = 0
    BY FS_EmptySet
  <2>5. packed'[r][q] <= MaxTokens * Cardinality(Claimed(r, q)')
    BY <2>1, <2>2, <2>3, <2>4
  <2>6. RangesOK(r, q)'
    BY <2>1, <2>5 DEF RangesOK
  <2> QED BY <1>4, <2>2, <2>3, <2>6 DEF PackedOK
<1>5. ASSUME NEW s \in Rank, NEW l \in Local, s # r \/ l # q \/ d # 0
      PROVE  PackedOK(s, l)'
  <2>1. Claimed(s, l)' = Claimed(s, l)
    BY <1>3, <1>5 DEF Claimed
  <2>2. 0 \in Rank
    BY <1>1, IndexFacts
  <2>3. Step(s, 0, l)' = Step(s, 0, l)
    BY <1>0, <1>5, <2>2
  <2>4. \A t : Extent(s, Pos(s), t, l)' = Extent(s, Pos(s), t, l)
    BY <1>0, <1>5 DEF Extent
  <2>5. RangesStay(s, l)
    BY <1>0, <1>2, <1>5, <2>1, <2>3, <2>4 DEF RangesStay
  <2>6. PackedOK(s, l)
    BY <1>5 DEF PackedInv
  <2> QED BY <1>0, <2>5, <2>6, PackedStays
<1>6. Local' = Local
  BY <1>0, Fixed
<1>7. PackedInv'
  BY <1>4, <1>5, <1>6 DEF PackedInv
<1> QED BY <1>2, <1>7

(* A count is sent, and the workspace of its expert reset.                  *)
LEMMA IInvSendCount ==
  ASSUME IInv, NEW r \in Rank, NEW e \in Expert, SendCount(r, e)
  PROVE  IInv'
<1>0. Shape /\ IdxInv /\ MaskInv /\ KernelInv /\ PackedInv /\ run \in Runs
  BY IInvFacts DEF Shape
<1>1. PICK d \in Rank, q \in Local : d = Owner(e) /\ q = LocalOf(e) /\ GlobalOf(d, q) = e
  BY <1>0, IndexFacts
<1>2. /\ r \notin dead /\ dead' = dead /\ KindOf(Pos(r)) = "dispatch"
      /\ Active(Pos(r)) /\ kernel[r].step[e] = "send" /\ kernel[r].finish[e] = 2 * Tag
      /\ Becomes(r, kernel[r].cleaned, kernel[r].todo, [kernel[r].finish EXCEPT ![e] = 0],
                 [kernel[r].step EXCEPT ![e] = "sent"], kernel[r].round, kernel[r].met)
      /\ kernel' = [x \in Rank |-> kernel'[x]]
      /\ counter' = [counter EXCEPT ![r][e] = 0]
  BY <1>0, SendCountStep
<1>3. KernelInv'
  BY <1>0, KernelSendCount
<1>4. PICK i, v : i = CountWord(q, r) /\ v = -Cardinality(TokensFor(Pos(r), r, e)) - 1
  OBVIOUS
<1>5. /\ Signal(r, d, q, i, v)
      /\ packed' = IF d = 0 THEN [packed EXCEPT ![r][q] = 0] ELSE packed
      /\ staged' = staged /\ sync' = sync /\ mask' = mask /\ outputs' = outputs
  BY <1>1, <1>4 DEF SendCount, Pos
<1>6. Pos(r) \in 1 .. NumCalls
  BY <1>0, <1>2, KindFacts
<1>7. i = WordOf(Pos(r), r, q) /\ v = ValueOf(Pos(r), r, d, q)
  BY <1>1, <1>2, <1>4 DEF WordOf, ValueOf, Count, Tokens
<1>8. i \in Expert /\ v \in Int
  BY <1>0, <1>2, <1>6, <1>7, ValueFacts
<1>9. /\ counter' \in [Rank -> [Expert -> Nat]]
      /\ \A s \in Rank : s # r => counter'[s] = counter[s]
      /\ \A g \in Expert : g # e => counter'[r][g] = counter[r][g]
  <2>1. counter \in [Rank -> [Expert -> Nat]] /\ 0 \in Nat
    BY <1>0 DEF Shape
  <2> QED BY <1>2, <2>1, CounterSet
<1>10. layout' = layout /\ rows' = rows
  BY <1>5 DEF outputs
<1>11. PICK x, finish, step : /\ x = AddOn(Side(Pos(r)), i, v)
                              /\ finish = [kernel[r].finish EXCEPT ![e] = 0]
                              /\ step = [kernel[r].step EXCEPT ![e] = "sent"]
  OBVIOUS
<1>12. SignalStep(r, d, q, x) /\ x \in Msg
  BY <1>0, <1>1, <1>2, <1>5, <1>7, <1>8, <1>9, <1>10, <1>11, SignalSends
<1>13. SameRows
  <2>1. counter[r][e] = Cardinality(TokensFor(Pos(r), r, e))
    BY <1>0, <1>2, Complete
  <2>2. counter[r][GlobalOf(d, q)] = Count(Pos(r), r, d, q)
    BY <1>1, <2>1 DEF Count, Tokens
  <2>3. \A g \in Expert : g # GlobalOf(d, q) => counter'[r][g] = counter[r][g]
    BY <1>1, <1>9
  <2> QED BY <1>0, <1>12, <2>2, <2>3, SignalRows
<1>14. packed' \in [Rank -> [Local -> Int]] /\ PackedInv'
  BY <1>0, <1>2, <1>5, <1>12, PackedReset
<1>15. finish \in [Expert -> Int] /\ step \in [Expert -> Steps]
  <2>1. kernel[r].finish \in [Expert -> Int] /\ kernel[r].step \in [Expert -> Steps]
          /\ "sent" \in Steps
    BY <1>0, KernelTypes DEF Steps
  <2> QED BY <1>11, <2>1
<1>16. Becomes(r, kernel[r].cleaned, kernel[r].todo, finish, step, kernel[r].round, kernel[r].met)
  BY <1>2, <1>11
<1> QED BY <1>2, <1>3, <1>5, <1>9, <1>12, <1>13, <1>14, <1>15, <1>16, IInvSignals

(* A flag is sent.                                                          *)
LEMMA IInvSendFlag ==
  ASSUME IInv, NEW r \in Rank, NEW e \in Expert, SendFlag(r, e)
  PROVE  IInv'
<1>0. Shape /\ IdxInv /\ MaskInv /\ KernelInv /\ PackedInv /\ run \in Runs
  BY IInvFacts DEF Shape
<1>1. PICK d \in Rank, q \in Local : d = Owner(e) /\ q = LocalOf(e) /\ GlobalOf(d, q) = e
  BY <1>0, IndexFacts
<1>2. /\ r \notin dead /\ dead' = dead /\ KindOf(Pos(r)) = "combine"
      /\ Active(Pos(r)) /\ kernel[r].step[e] = "send" /\ counter[r][0] # 0
      /\ Becomes(r, kernel[r].cleaned, kernel[r].todo, kernel[r].finish,
                 [kernel[r].step EXCEPT ![e] = "sent"], kernel[r].round, kernel[r].met)
      /\ kernel' = [x \in Rank |-> kernel'[x]]
      /\ counter' = [counter EXCEPT ![r][0] = @ - 1]
  BY <1>0, SendFlagStep
<1>3. KernelInv'
  BY <1>0, KernelSendFlag
<1>4. PICK i, v : i = GlobalOf(r, q) /\ v = 1
  OBVIOUS
<1>5. /\ Signal(r, d, q, i, v)
      /\ staged' = staged /\ sync' = sync /\ mask' = mask /\ packed' = packed
           /\ outputs' = outputs
  BY <1>1, <1>4 DEF SendFlag
<1>6. Pos(r) \in 1 .. NumCalls
  BY <1>0, <1>2, KindFacts
<1>7. i = WordOf(Pos(r), r, q) /\ v = ValueOf(Pos(r), r, d, q)
  BY <1>2, <1>4 DEF WordOf, ValueOf
<1>8. i \in Expert /\ v \in Int
  BY <1>0, <1>2, <1>6, <1>7, ValueFacts
<1>9. /\ counter' \in [Rank -> [Expert -> Nat]]
      /\ \A s \in Rank : s # r => counter'[s] = counter[s]
  <2>1. counter \in [Rank -> [Expert -> Nat]] /\ 0 \in Expert
    BY <1>0, IndexFacts DEF Shape
  <2>2. PICK k : k = counter[r][0] - 1
    OBVIOUS
  <2>3. counter[r][0] \in Nat
    BY <2>1
  <2>4. k \in Nat
    BY <1>2, <2>2, <2>3
  <2>5. counter' = [counter EXCEPT ![r][0] = k]
    BY <1>2, <2>1, <2>2
  <2> QED BY <2>1, <2>4, <2>5, CounterSet
<1>10. layout' = layout /\ rows' = rows
  BY <1>5 DEF outputs
<1>11. PICK x, finish, step : /\ x = AddOn(Side(Pos(r)), i, v)
                              /\ finish = kernel[r].finish
                              /\ step = [kernel[r].step EXCEPT ![e] = "sent"]
  OBVIOUS
<1>12. SignalStep(r, d, q, x) /\ x \in Msg
  BY <1>0, <1>1, <1>2, <1>5, <1>7, <1>8, <1>9, <1>10, <1>11, SignalSends
<1>13. SameRows
  BY <1>0, <1>2, <1>12, SignalRows
<1>14. PackedInv'
  <2>1. run' = run /\ \A s \in Rank : Pos(s)' = Pos(s)
    BY <1>12 DEF SignalStep, Sends
  <2>2. \A s \in Rank, t \in Rank, l \in Local :
          Extent(s, Pos(s), t, l)' = Extent(s, Pos(s), t, l)
    BY <1>10, <2>1 DEF Extent
  <2>3. ASSUME NEW s \in Rank, NEW t \in Rank, NEW l \in Local, KindOf(Pos(s)) = "dispatch"
        PROVE  Step(s, t, l)' = Step(s, t, l)
    <3>1. s # r
      BY <1>2, <2>3
    <3> QED BY <1>12, <3>1 DEF SignalStep, Sends
  <2>4. 0 \in Rank
    BY <1>0, IndexFacts
  <2>5. \A s \in Rank, t \in Rank, l \in Local : KindOf(Pos(s)) = "dispatch" =>
           /\ Taken(s, t, l)' <=> Taken(s, t, l)
           /\ Step(s, 0, l)' # "send" => Step(s, 0, l) # "send"
    BY <2>3, <2>4 DEF Taken
  <2> QED BY <1>0, <1>5, <2>1, <2>2, <2>5, PackedFrame
<1>15. finish \in [Expert -> Int] /\ step \in [Expert -> Steps]
  <2>1. kernel[r].finish \in [Expert -> Int] /\ kernel[r].step \in [Expert -> Steps]
          /\ "sent" \in Steps
    BY <1>0, KernelTypes DEF Steps
  <2> QED BY <1>11, <2>1
<1>16. Becomes(r, kernel[r].cleaned, kernel[r].todo, finish, step, kernel[r].round, kernel[r].met)
  BY <1>2, <1>11
<1> QED BY <1>2, <1>3, <1>5, <1>9, <1>12, <1>13, <1>14, <1>15, <1>16, IInvSignals

(***************************************************************************)
(* The network.  No rank moves.                                            *)
(***************************************************************************)
Calm ==
  /\ run' = run /\ kernel' = kernel /\ counter' = counter /\ staged' = staged
  /\ mask' = mask /\ packed' = packed /\ outputs' = outputs

(* What depends on the kernels only.                                        *)
LEMMA CalmFacts ==
  ASSUME Calm
  PROVE  /\ layout' = layout /\ rows' = rows /\ out' = out
         /\ \A s : Pos(s)' = Pos(s) /\ (AtEnd(s)' <=> AtEnd(s))
         /\ \A s, d, q : Step(s, d, q)' = Step(s, d, q)
         /\ \A d, m : (Near(d, m)' <=> Near(d, m)) /\ (Ready(d, m)' <=> Ready(d, m))
         /\ \A s, d, q, m : Told(s, d, q, m)' <=> Told(s, d, q, m)
         /\ \A s, d, q : Taken(s, d, q)' <=> Taken(s, d, q)
         /\ \A n, d, s, q : Extent(d, n, s, q)' = Extent(d, n, s, q)
         /\ \A s, d, q, m : RowsSame(s, d, q, m) /\ Handed(s, m)
<1>1. layout' = layout /\ rows' = rows /\ out' = out /\ run' = run /\ kernel' = kernel
        /\ counter' = counter
  BY DEF Calm, outputs
<1>2. \A s : kernel'[s] = kernel[s]
  BY <1>1
<1>3. /\ \A s : Pos(s)' = Pos(s) /\ (AtEnd(s)' <=> AtEnd(s))
      /\ \A s, d, q : Step(s, d, q)' = Step(s, d, q)
      /\ \A d, m : (Near(d, m)' <=> Near(d, m)) /\ (Ready(d, m)' <=> Ready(d, m))
      /\ \A s, d, q, m : Told(s, d, q, m)' <=> Told(s, d, q, m)
      /\ \A s, d, q : Taken(s, d, q)' <=> Taken(s, d, q)
  BY <1>1, <1>2, SameKernel
<1>4. \A n, d, s, q : Extent(d, n, s, q)' = Extent(d, n, s, q)
  BY <1>1 DEF Extent
<1>5. ASSUME NEW s, NEW d, NEW q, NEW m
      PROVE  RowsSame(s, d, q, m) /\ Handed(s, m)
  <2>1. Handed(s, m)
    BY <1>1 DEF Handed
  <2>2. /\ Pos(s)' = Pos(s) /\ kernel'[s].todo = kernel[s].todo /\ counter'[s] = counter[s]
        /\ Step(s, d, q)' = Step(s, d, q)
    BY <1>1, <1>3
  <2> QED BY <1>1, <2>1, <2>2, RowsUntouched
<1> QED BY <1>1, <1>3, <1>4, <1>5

(* The kernels stand as before.                                             *)
LEMMA CalmStanding ==
  ASSUME Shape, Standing, Calm, dead \subseteq dead', \A x \in Rank : sync'[x][x] = sync[x][x]
  PROVE  Standing' /\ kernel' \in [Rank -> Kernels']
<1>0. /\ IdxInv /\ KernelInv /\ PosInv /\ MetInv /\ EnterInv /\ run \in Runs
      /\ run' = run /\ kernel' = kernel /\ counter' = counter
  BY DEF Standing, Shape, Calm
<1>1. 0 \in Rank
  BY <1>0, IndexFacts
<1>2. Alone(0) /\ Pos(0)' = Pos(0) /\ kernel'[0].idx = kernel[0].idx
  BY <1>0 DEF Alone, Pos
<1>3. IdxInv'
  BY <1>0, <1>1, <1>2, IdxWithin
<1>4. KernelInv'
  <2>1. \A x \in Rank : KernelOK(x)' <=> KernelOK(x)
    BY <1>0, CalmFacts, KernelSame
  <2> QED BY <1>0, <2>1 DEF KernelInv
<1>5. PosInv'
  <2>1. Within(0)
    BY <1>0, <1>1, <1>2, CalmFacts DEF Within
  <2> QED BY <1>0, <1>1, <2>1, PosWithin
<1>6. MetInv' /\ EnterInv'
  <2>1. StillMet
    BY <1>0 DEF StillMet, Pos
  <2> QED BY <1>0, <2>1, MetStill
<1>7. kernel' \in [Rank -> Kernels']
  BY <1>0, FixedToo DEF Shape
<1> QED BY <1>3, <1>4, <1>5, <1>6, <1>7 DEF Standing

-----------------------------------------------------------------------------
(* Something leaves the wire, and has its effect.                           *)
WireTail(s, d, q) ==
  /\ wire' \in [Rank -> [Rank -> [Local -> Seq(Msg)]]]
  /\ wire'[s][d][q] = Tail(wire[s][d][q])
  /\ \A a, b \in Rank, l \in Local : a # s \/ b # d \/ l # q => wire'[a][b][l] = wire[a][b][l]
WordGets(d, x) ==
  /\ word' \in Words
  /\ x.kind # "add" => word' = word
  /\ x.kind = "add" => word'[d][x.buf][x.word] = word[d][x.buf][x.word] + x.value
  /\ \A t \in Rank, c \in {0, 1}, j \in Expert :
       x.kind # "add" \/ t # d \/ c # x.buf \/ j # x.word => word'[t][c][j] = word[t][c][j]
RegionGets(s, d, x) ==
  /\ Buffers(region)'
  /\ x.kind = "row" =>
       region'[d][x.buf] = Overlay(region[d][x.buf], x.place, At(staged[s][x.buf], x.from))
  /\ \A t \in Rank, c \in {0, 1} :
       x.kind # "row" \/ t # d \/ c # x.buf => region'[t][c] = region[t][c]
SyncGets(s, x) ==
  /\ sync' \in [Rank -> [Rank -> Int]]
  /\ \A a \in Rank : sync'[a][a] = sync[a][a]
  /\ \A a, b \in Rank : x.kind # "sync" \/ b # s => sync'[a][b] = sync[a][b]
Gets(s, d, q, x) ==
  /\ Calm /\ dead' = dead /\ ~NVLink(s, d) /\ x \in Msg
  /\ wire[s][d][q] # <<>> /\ x = Head(wire[s][d][q])
  /\ WireTail(s, d, q) /\ WordGets(d, x) /\ RegionGets(s, d, x) /\ SyncGets(s, x)

(* What is first on a wire is carried out.                                  *)
LEMMA DeliverGets ==
  ASSUME Shape, NVLinkInv, NEW s \in Rank, NEW d \in Rank, NEW q \in Local, Deliver(s, d, q)
  PROVE  \E x \in Msg : Gets(s, d, q, x)
<1>1. /\ wire[s][d][q] # <<>> /\ wire' = [wire EXCEPT ![s][d][q] = Tail(wire[s][d][q])]
      /\ run' = run /\ dead' = dead /\ kernel' = kernel /\ counter' = counter
           /\ staged' = staged
      /\ mask' = mask /\ packed' = packed /\ outputs' = outputs
  BY DEF Deliver
<1>2. /\ wire \in [Rank -> [Rank -> [Local -> Seq(Msg)]]] /\ word \in Words /\ Buffers(region)
      /\ sync \in [Rank -> [Rank -> Int]] /\ run \in Runs
  BY DEF Shape, Words
<1>3. wire[s][d][q] \in Seq(Msg)
  BY <1>2
<1>4. PICK w \in Seq(Msg) : w = wire[s][d][q]
  BY <1>3
<1>5. w # <<>> /\ Tail(w) \in Seq(Msg) /\ Head(w) \in Msg
  BY <1>1, <1>4, TailFacts
<1>6. PICK x \in Msg : x = Head(w)
  BY <1>5
<1>7. PICK v \in Seq(Msg) : v = Tail(w)
  BY <1>5
<1>8. ~NVLink(s, d)
  BY <1>1 DEF NVLinkInv, Quiet
<1>9. s # d
  BY <1>8 DEF NVLink
<1>10. WireTail(s, d, q)
  <2>1. wire' = [wire EXCEPT ![s][d][q] = v]
    BY <1>1, <1>4, <1>7
  <2>2. /\ wire' \in [Rank -> [Rank -> [Local -> Seq(Msg)]]]
        /\ wire'[s][d][q] = v
        /\ \A a, b \in Rank, l \in Local : a # s \/ b # d \/ l # q
             => wire'[a][b][l] = wire[a][b][l]
    BY <1>2, <2>1
  <2> QED BY <1>4, <1>7, <2>2 DEF WireTail
<1>11. \/ /\ x.kind = "row"
          /\ region' = [region EXCEPT ![d][x.buf] =
                          Overlay(@, x.place, At(staged[s][x.buf], x.from))]
          /\ word' = word /\ sync' = sync
       \/ /\ x.kind = "add"
          /\ word' = [word EXCEPT ![d][x.buf][x.word] = @ + x.value]
          /\ region' = region /\ sync' = sync
       \/ /\ x.kind = "sync"
          /\ sync' = [sync EXCEPT ![d][s] = x.value]
          /\ word' = word /\ region' = region
  BY <1>4, <1>6 DEF Deliver
<1>12. Rank' = Rank /\ Buffers(region) => Buffers(region)
         /\ (region' = region => Buffers(region)')
  BY DEF Buffers
<1>13. WordGets(d, x)
  <2>1. CASE x.kind # "add"
    BY <1>2, <1>11, <2>1 DEF WordGets
  <2>2. CASE x.kind = "add"
    <3>1. PICK b, i, u : b = x.buf /\ i = x.word /\ u = word[d][b][i] + x.value
      OBVIOUS
    <3>2. b \in {0, 1} /\ i \in Expert /\ x.value \in Int
      BY <2>2, <3>1 DEF Msg
    <3>3. word[d][b][i] \in Int
      BY <1>2, <3>2 DEF Words
    <3>4. u \in Int
      BY <3>1, <3>2, <3>3
    <3>5. word' = [word EXCEPT ![d][b][i] = @ + x.value]
      BY <1>11, <2>2, <3>1
    <3>6. WordSet(d, b, i, u)
      BY <1>2, <3>1, <3>2, <3>5 DEF WordSet, Words
    <3>7. /\ word' \in Words /\ word'[d][b][i] = u
          /\ \A t \in Rank, c \in {0, 1}, j \in Expert : t # d \/ c # b \/ j # i =>
               word'[t][c][j] = word[t][c][j]
      <4>1. word \in Words
        BY <1>2
      <4> QED BY <3>2, <3>4, <3>6, <4>1, WordSetFacts
    <3> QED BY <2>2, <3>1, <3>7 DEF WordGets
  <2> QED BY <2>1, <2>2
<1>14. RegionGets(s, d, x)
  <2>1. CASE x.kind # "row"
    <3>1. region' = region
      BY <1>11, <2>1
    <3>2. Buffers(region)'
      BY <1>2, <3>1 DEF Buffers, Rank
    <3> QED BY <2>1, <3>1, <3>2 DEF RegionGets
  <2>2. CASE x.kind = "row"
    <3>1. PICK b \in {0, 1} : b = x.buf
      BY <2>2 DEF Msg
    <3>2. PICK y : y = Overlay(region[d][b], x.place, At(staged[s][b], x.from))
      OBVIOUS
    <3>3. region = [z \in Rank |-> [c \in {0, 1} |-> region[z][c]]]
      BY <1>2 DEF Buffers
    <3>4. region' = [region EXCEPT ![d][b] = y]
      BY <1>11, <2>2, <3>1, <3>2
    <3>5. /\ region' = [z \in Rank |-> [c \in {0, 1} |-> region'[z][c]]]
          /\ region'[d][b] = y
          /\ \A z \in Rank, c \in {0, 1} : z # d \/ c # b => region'[z][c] = region[z][c]
      BY <3>3, <3>4
    <3>6. Buffers(region)'
      BY <3>5 DEF Buffers, Rank
    <3> QED BY <2>2, <3>1, <3>2, <3>5, <3>6 DEF RegionGets
  <2> QED BY <2>1, <2>2
<1>15. SyncGets(s, x)
  <2>1. CASE x.kind # "sync"
    BY <1>2, <1>11, <2>1 DEF SyncGets
  <2>2. CASE x.kind = "sync"
    <3>1. x.value \in Int
      BY <2>2 DEF Msg
    <3>2. sync' = [sync EXCEPT ![d][s] = x.value]
      BY <1>11, <2>2
    <3>3. sync \in [Rank -> [Rank -> Int]]
      BY <1>2
    <3>4. /\ sync' \in [Rank -> [Rank -> Int]]
          /\ \A a, b \in Rank : a # d \/ b # s => sync'[a][b] = sync[a][b]
      BY <3>1, <3>2, <3>3
    <3> QED BY <1>9, <2>2, <3>4 DEF SyncGets
  <2> QED BY <2>1, <2>2
<1>16. Gets(s, d, q, x)
  BY <1>1, <1>4, <1>5, <1>6, <1>8, <1>10, <1>13, <1>14, <1>15 DEF Gets, Calm
<1> QED BY <1>16

(* What is delivered in the buffer of an expected call is of that call.     *)
LEMMA HeadHere ==
  ASSUME Shape, WireInv, NEW s \in Rank, NEW d \in Rank \ dead, NEW q \in Local, NEW x \in Msg,
         Gets(s, d, q, x), NEW m \in 1 .. NumCalls, Near(d, m), Active(m), OfBuf(x, Side(m))
  PROVE  IsMsg(s, d, q, m, x)
<1>1. wire[s][d][q] \in Seq(Msg)
  BY DEF Shape
<1>2. PICK w \in Seq(Msg) : w = wire[s][d][q]
  BY <1>1
<1>3. w # <<>> /\ x = Head(w)
  BY <1>2 DEF Gets
<1>4. 1 \in DOMAIN w /\ x = w[1]
  BY <1>3, TailFacts
<1>5. PICK n \in 1 .. NumCalls : Near(d, n) /\ IsMsg(s, d, q, n, x)
  <2>1. wire[s][d][q][1].kind # "sync" /\ 1 \in DOMAIN wire[s][d][q]
    BY <1>2, <1>4 DEF OfBuf
  <2>2. \E n \in 1 .. NumCalls : Near(d, n) /\ IsMsg(s, d, q, n, wire[s][d][q][1])
    BY <2>1 DEF WireInv
  <2> QED BY <1>2, <1>4, <2>2
<1>6. Active(n) /\ Side(n) = Side(m)
  BY <1>5 DEF IsMsg, OfBuf
<1>7. m = n
  BY <1>5, <1>6, SameCall
<1> QED BY <1>5, <1>7

(* The words of the calls expected.                                         *)
LEMMA GetsWord ==
  ASSUME Shape, WireInv, NEW s \in Rank, NEW d \in Rank, NEW q \in Local, NEW x \in Msg,
         Gets(s, d, q, x), NEW a \in Rank, NEW b \in Rank \ dead, NEW l \in Local,
         NEW m \in 1 .. NumCalls, Near(b, m), Active(m)
  PROVE  /\ ~Own(s, d, q, a, b, l) \/ ~AddMsg(x, Side(m))
              => WordAt(a, b, l, m)' = WordAt(a, b, l, m)
         /\ Own(s, d, q, a, b, l) /\ AddMsg(x, Side(m)) =>
              /\ x.word = WordOf(m, s, q) /\ x.value = ValueOf(m, s, d, q)
              /\ WordAt(a, b, l, m)' = WordAt(a, b, l, m) + ValueOf(m, a, b, l)
<1>1. run' = run /\ WordGets(d, x) /\ run \in Runs
  BY DEF Gets, Calm, Shape
<1>2. PICK c, i : c = Side(m) /\ i = WordOf(m, a, l)
  OBVIOUS
<1>3. c \in {0, 1} /\ i \in Expert
  BY <1>1, <1>2, SideFacts, ValueFacts
<1>4. WordAt(a, b, l, m) = word[b][c][i] /\ WordAt(a, b, l, m)' = word'[b][c][i]
  BY <1>1, <1>2, Fixed, FixedToo DEF WordAt
<1>5. CASE x.kind = "add" /\ b = d /\ c = x.buf
  <2>1. OfBuf(x, Side(m)) /\ AddMsg(x, Side(m))
    BY <1>2, <1>5 DEF OfBuf, AddMsg
  <2>2. IsMsg(s, d, q, m, x)
    BY <1>5, <2>1, HeadHere
  <2>3. x.word = WordOf(m, s, q) /\ x.value = ValueOf(m, s, d, q)
    BY <1>5, <2>2 DEF IsMsg
  <2>4. CASE a = s /\ l = q
    <3>1. word'[d][x.buf][x.word] = word[d][x.buf][x.word] + x.value
      BY <1>1, <1>5 DEF WordGets
    <3>2. i = x.word
      BY <1>2, <2>3, <2>4
    <3> QED BY <1>4, <1>5, <2>1, <2>3, <2>4, <3>1, <3>2 DEF Own
  <2>5. CASE ~(a = s /\ l = q)
    <3>1. WordOf(m, a, l) # WordOf(m, s, q)
      BY <1>1, <2>5, WordsApart
    <3>2. i # x.word
      BY <1>2, <2>3, <3>1
    <3> QED BY <1>1, <1>3, <1>4, <2>5, <3>2 DEF WordGets, Own
  <2> QED BY <2>4, <2>5
<1>6. CASE ~(x.kind = "add" /\ b = d /\ c = x.buf)
  <2>1. word'[b][c][i] = word[b][c][i]
    BY <1>1, <1>3, <1>6 DEF WordGets
  <2> QED BY <1>2, <1>4, <1>6, <2>1 DEF Own, AddMsg
<1> QED BY <1>5, <1>6

(* What the channels signal.                                                *)
StillTells(a, b, l, m) ==
  /\ SignalOK(a, b, l, m) => SignalOK(a, b, l, m)'
  /\ Signalled(a, b, l, m) => Signalled(a, b, l, m)'
  /\ Lost(a, b, l, m) => Lost(a, b, l, m)'

(* A signal that arrives had nothing of its buffer before it.               *)
LEMMA GetsTells ==
  ASSUME Shape, WireInv, NEW s \in Rank, NEW d \in Rank, NEW q \in Local, NEW x \in Msg,
         Gets(s, d, q, x), NEW a \in Rank, NEW b \in Rank \ dead, NEW l \in Local,
         NEW m \in 1 .. NumCalls, Near(b, m), Active(m)
  PROVE  StillTells(a, b, l, m)
<1>1. run' = run /\ dead' = dead /\ Calm /\ WireTail(s, d, q) /\ run \in Runs
  BY DEF Gets, Calm, Shape
<1>2. Told(a, b, l, m)' <=> Told(a, b, l, m)
  BY <1>1, CalmFacts
<1>3. Side(m)' = Side(m) /\ WordOf(m, a, l)' = WordOf(m, a, l)
      /\ ValueOf(m, a, b, l)' = ValueOf(m, a, b, l)
  BY <1>1, Fixed, FixedToo
<1>4. PICK c, v, i, y, z : c = Side(m) /\ v = ValueOf(m, a, b, l) /\ i = WordOf(m, a, l)
                           /\ y = WordAt(a, b, l, m) /\ z = WordAt(a, b, l, m)'
  OBVIOUS
<1>5. wire[a][b][l] \in Seq(Msg)
  BY DEF Shape
<1>6. PICK w \in Seq(Msg) : w = wire[a][b][l]
  BY <1>5
<1>7. v \in Int
  BY <1>1, <1>4, ValueFacts
<1>8. CASE ~Own(s, d, q, a, b, l)
  <2>1. wire'[a][b][l] = wire[a][b][l]
    BY <1>1, <1>8 DEF WireTail, Own
  <2>2. WordAt(a, b, l, m)' = WordAt(a, b, l, m)
    BY <1>8, GetsWord
  <2>3. Signalled(a, b, l, m)' <=> Signalled(a, b, l, m)
    BY <1>3, <2>1, <2>2 DEF Signalled
  <2>4. Lost(a, b, l, m)' <=> Lost(a, b, l, m)
    BY <1>1, <2>1, <2>2 DEF Lost
  <2>5. SignalOK(a, b, l, m)' <=> SignalOK(a, b, l, m)
    BY <1>2, <1>3, <2>1, <2>2, <2>3, <2>4 DEF SignalOK
  <2> QED BY <2>3, <2>4, <2>5 DEF StillTells
<1>9. CASE Own(s, d, q, a, b, l)
  <2>1. a = s /\ b = d /\ l = q
    BY <1>9 DEF Own
  <2>2. w # <<>> /\ x = Head(w) /\ wire'[a][b][l] = Tail(w)
    BY <1>1, <1>6, <2>1 DEF Gets, WireTail
  <2>3. /\ ~AddMsg(x, c) => z = y
        /\ AddMsg(x, c) => x.word = i /\ x.value = v /\ z = y + v
    <3>1. /\ ~AddMsg(x, Side(m)) => WordAt(a, b, l, m)' = WordAt(a, b, l, m)
          /\ AddMsg(x, Side(m)) =>
              /\ x.word = WordOf(m, s, q) /\ x.value = ValueOf(m, s, d, q)
              /\ WordAt(a, b, l, m)' = WordAt(a, b, l, m) + ValueOf(m, a, b, l)
      BY <1>9, GetsWord
    <3> QED BY <1>4, <2>1, <3>1
  <2>4. /\ Untold(w, c, y) => ~AddMsg(x, c) /\ Untold(Tail(w), c, y)
        /\ Landed(w, c, v, y) => ~OfBuf(x, c) /\ Landed(Tail(w), c, v, y)
        /\ Coming(w, c, i, v, y) /\ AddMsg(x, c) => y = 0 /\ Landed(Tail(w), c, v, v)
        /\ Coming(w, c, i, v, y) /\ ~AddMsg(x, c) => Coming(Tail(w), c, i, v, y)
    BY <1>7, <2>2, SignalDelivered
  <2>5. ~OfBuf(x, c) => ~AddMsg(x, c)
    BY DEF OfBuf, AddMsg
  <2>6. /\ Signalled(a, b, l, m) <=> Landed(w, c, v, y)
        /\ Signalled(a, b, l, m)' <=> Landed(Tail(w), c, v, z)
    BY <1>3, <1>4, <1>6, <2>2 DEF Signalled
  <2>7. Signalled(a, b, l, m) => Signalled(a, b, l, m)'
    BY <2>3, <2>4, <2>5, <2>6
  <2>8. ~Lost(a, b, l, m)
    BY <1>6, <2>2 DEF Lost
  <2>9. ASSUME SignalOK(a, b, l, m) PROVE SignalOK(a, b, l, m)'
    <3>1. /\ Told(a, b, l, m) => Signalled(a, b, l, m) \/ Coming(w, c, i, v, y)
          /\ ~Told(a, b, l, m) => Untold(w, c, y)
      BY <1>4, <1>6, <2>8, <2>9 DEF SignalOK
    <3>2. ASSUME Coming(w, c, i, v, y), AddMsg(x, c)
          PROVE  Signalled(a, b, l, m)'
      <4>1. z = v
        BY <1>7, <2>3, <2>4, <3>2
      <4> QED BY <2>4, <2>6, <3>2, <4>1
    <3>3. ASSUME Coming(w, c, i, v, y), ~AddMsg(x, c)
          PROVE  Coming(Tail(w), c, i, v, z)
      BY <2>3, <2>4, <3>3
    <3>4. Told(a, b, l, m) => Signalled(a, b, l, m)' \/ Coming(Tail(w), c, i, v, z)
      BY <2>3, <2>4, <2>6, <2>7, <3>1, <3>2, <3>3
    <3>5. ~Told(a, b, l, m) => Untold(Tail(w), c, z)
      BY <2>3, <2>4, <3>1
    <3> QED BY <1>2, <1>3, <1>4, <2>2, <3>4, <3>5 DEF SignalOK
  <2> QED BY <2>7, <2>8, <2>9 DEF StillTells
<1> QED BY <1>8, <1>9

(* Rows of different channels have different places.                        *)
LEMMA PlacesApart ==
  ASSUME run \in Runs, NEW s \in Rank, NEW d \in Rank, NEW q \in Local, NEW m, NEW x,
         RowOf(s, d, q, m, x),
         NEW a \in Rank, NEW l \in Local, NEW P, NEW row, Expected(a, d, l, m, P, row)
  PROVE  P[1] = x.place[1] /\ (P = x.place => a = s /\ l = q)
<1>1. CASE KindOf(m) = "dispatch"
  <2>1. PICK k : P = Slot(l, a, k)
    BY <1>1 DEF Expected
  <2>2. PICK j : x.place = Slot(q, s, j)
    BY <1>1 DEF RowOf
  <2> QED BY <2>1, <2>2 DEF Slot
<1>2. CASE KindOf(m) = "combine"
  <2>1. PICK t : P = Back(a, l, t)
    BY <1>2 DEF Expected
  <2>2. PICK u : x.place = Back(s, q, u)
    BY <1>2 DEF RowOf
  <2>3. P[1] = x.place[1] /\ (P = x.place => GlobalOf(a, l) = GlobalOf(s, q))
    BY <2>1, <2>2 DEF Back
  <2> QED BY <2>3, IndexFacts
<1> QED BY <1>1, <1>2 DEF Expected

(* The rows on their way, or where they belong, still are.                  *)
LEMMA GetsHold ==
  ASSUME Shape, MemInv, WireInv, NEW s \in Rank, NEW d \in Rank, NEW q \in Local, NEW x \in Msg,
         Gets(s, d, q, x), NEW a \in Rank, NEW b \in Rank \ dead, NEW l \in Local,
         NEW m \in 1 .. NumCalls, Near(b, m), Active(m)
  PROVE  HoldsKept(a, b, l, m)
<1>1. run' = run /\ staged' = staged /\ WireTail(s, d, q) /\ RegionGets(s, d, x) /\ run \in Runs
  BY DEF Gets, Calm, Shape
<1>2. SUFFICES ASSUME NEW P, NEW row, Expected(a, b, l, m, P, row), Holds(a, b, l, m, P, row)
               PROVE  Holds(a, b, l, m, P, row)'
  BY DEF HoldsKept
<1>3. PICK c \in {0, 1} : c = Side(m)
  BY SideFacts
<1>4. PICK st, rg, rg2 : st = staged[a][c] /\ rg = region[b][c] /\ rg2 = region'[b][c]
  OBVIOUS
<1>5. wire[a][b][l] \in Seq(Msg)
  BY DEF Shape
<1>6. PICK w \in Seq(Msg) : w = wire[a][b][l]
  BY <1>5
<1>7. HoldsIn(w, c, st, rg, P, row)
  BY <1>2, <1>3, <1>4, <1>6 DEF Holds
<1>8. Side(m)' = Side(m)
  BY <1>1, Fixed
<1>9. HoldsIn(wire'[a][b][l], c, st, rg2, P, row) => Holds(a, b, l, m, P, row)'
  BY <1>1, <1>3, <1>4, <1>8 DEF Holds
<1>10. Own(s, d, q, a, b, l) => w # <<>> /\ x = Head(w) /\ wire'[a][b][l] = Tail(w)
  BY <1>1, <1>6 DEF Gets, WireTail, Own
<1>11. ~Own(s, d, q, a, b, l) => wire'[a][b][l] = w
  BY <1>1, <1>6 DEF WireTail, Own
<1>12. ASSUME <<P, row>> \in rg => <<P, row>> \in rg2, ~Own(s, d, q, a, b, l)
       PROVE  HoldsIn(wire'[a][b][l], c, st, rg2, P, row)
  BY <1>7, <1>11, <1>12 DEF HoldsIn
<1>13. CASE ~(x.kind = "row" /\ b = d /\ c = x.buf)
  <2>1. rg2 = rg
    BY <1>1, <1>4, <1>13 DEF RegionGets
  <2>2. CASE Own(s, d, q, a, b, l)
    <3>1. ~RowMsg(x, c, P)
      BY <1>13, <2>2 DEF RowMsg, Own
    <3>2. HoldsIn(Tail(w), c, st, rg2, P, row)
      BY <1>7, <1>10, <2>1, <2>2, <3>1, HoldsDelivered
    <3> QED BY <1>9, <1>10, <2>2, <3>2
  <2> QED BY <1>9, <1>12, <2>1, <2>2
<1>14. CASE x.kind = "row" /\ b = d /\ c = x.buf
  <2>1. RowOf(s, d, q, m, x)
    <3>1. OfBuf(x, Side(m))
      BY <1>3, <1>14 DEF OfBuf
    <3>2. IsMsg(s, d, q, m, x)
      BY <1>14, <3>1, HeadHere
    <3> QED BY <1>14, <3>2 DEF IsMsg
  <2>2. P[1] = x.place[1] /\ (P = x.place => a = s /\ l = q)
    BY <1>1, <1>2, <1>14, <2>1, PlacesApart
  <2>3. PICK new : new = At(staged[s][c], x.from)
    OBVIOUS
  <2>4. rg2 = Overlay(rg, x.place, new)
    BY <1>1, <1>4, <1>14, <2>3 DEF RegionGets
  <2>5. x.place \in Places
    BY <1>14 DEF Msg
  <2>6. Good(rg, Places) /\ Good(staged[s][c], Froms)
    BY <1>4 DEF MemInv
  <2>7. <<P, row>> \in rg /\ P # x.place => <<P, row>> \in rg2
    BY <2>2, <2>4, <2>5, <2>6, OverlayFacts
  <2>8. CASE Own(s, d, q, a, b, l)
    <3>1. ASSUME RowMsg(x, c, P)
          PROVE  <<P, row>> \in rg2
      <4>1. 1 \in DOMAIN w /\ w[1] = x
        BY <1>10, <2>8, TailFacts
      <4>2. <<x.from, row>> \in st
        BY <1>7, <3>1, <4>1 DEF HoldsIn
      <4>3. st = staged[s][c]
        BY <1>4, <2>8 DEF Own
      <4>4. new = row
        BY <2>3, <2>6, <4>2, <4>3, AtFacts
      <4>5. x.place = P
        BY <3>1 DEF RowMsg
      <4> QED BY <2>4, <2>5, <2>6, <4>4, <4>5, OverlayFacts
    <3>2. ~RowMsg(x, c, P) => P # x.place
      BY <1>14 DEF RowMsg
    <3>3. HoldsIn(Tail(w), c, st, rg2, P, row)
      BY <1>7, <1>10, <2>7, <2>8, <3>1, <3>2, HoldsDelivered
    <3> QED BY <1>9, <1>10, <2>8, <3>3
  <2>9. CASE ~Own(s, d, q, a, b, l)
    <3>1. P # x.place
      BY <1>14, <2>2, <2>9 DEF Own
    <3> QED BY <1>9, <1>12, <2>7, <2>9, <3>1
  <2> QED BY <2>8, <2>9
<1> QED BY <1>13, <1>14

(* So all channels stay in order.                                           *)
LEMMA GetsChannels ==
  ASSUME Shape, Channels, TakenInv, NEW s \in Rank, NEW d \in Rank, NEW q \in Local,
         NEW x \in Msg,
         Gets(s, d, q, x)
  PROVE  Channels' /\ TakenInv' /\ \A a, b \in Rank : Quiet(a, b) => Quiet(a, b)'
<1>0. /\ MemInv /\ SignalInv /\ HoldsInv /\ WireInv /\ NVLinkInv
      /\ Calm /\ run' = run /\ dead' = dead /\ mask' = mask /\ staged' = staged /\ run \in Runs
      /\ WireTail(s, d, q) /\ RegionGets(s, d, x) /\ wire[s][d][q] # <<>> /\ ~NVLink(s, d)
  BY DEF Channels, Gets, Calm, Shape
<1>1. /\ \A a : Pos(a)' = Pos(a)
      /\ \A b, m : (Near(b, m)' <=> Near(b, m)) /\ (Ready(b, m)' <=> Ready(b, m))
      /\ \A a, b, l : Taken(a, b, l)' <=> Taken(a, b, l)
      /\ \A n, b, a, l : Extent(b, n, a, l)' = Extent(b, n, a, l)
      /\ \A a, b, l, m : RowsSame(a, b, l, m) /\ Handed(a, m)
  BY <1>0, CalmFacts
<1>2. \A a, b \in Rank : Quiet(a, b) => Quiet(a, b)'
  <2> SUFFICES ASSUME NEW a \in Rank, NEW b \in Rank, Quiet(a, b), NEW l \in Local
               PROVE  wire'[a][b][l] = <<>>
    BY <1>0, Fixed DEF Quiet
  <2>1. wire[a][b][l] = <<>>
    BY DEF Quiet
  <2>2. a # s \/ b # d \/ l # q
    BY <1>0, <2>1
  <2> QED BY <1>0, <2>1, <2>2 DEF WireTail
<1>3. SignalInv'
  <2> SUFFICES ASSUME NEW a \in Rank, NEW b \in Rank \ dead, NEW l \in Local,
                      NEW m \in 1 .. NumCalls, Active(m), Ready(b, m)'
               PROVE  SignalOK(a, b, l, m)'
    BY <1>0, Fixed DEF SignalInv
  <2>1. Ready(b, m) /\ Near(b, m)
    BY <1>1 DEF Ready, Near
  <2>2. SignalOK(a, b, l, m)
    BY <1>0, <2>1 DEF SignalInv
  <2>3. StillTells(a, b, l, m)
    BY <1>0, <2>1, GetsTells
  <2> QED BY <2>2, <2>3 DEF StillTells
<1>4. HoldsInv'
  <2> SUFFICES ASSUME NEW a \in Rank, NEW b \in Rank \ dead, NEW l \in Local,
                      NEW m \in 1 .. NumCalls, Near(b, m)', Pos(a)' >= m, ~Lost(a, b, l, m)'
               PROVE  RowsOK(a, b, l, m)'
    BY <1>0, Fixed DEF HoldsInv
  <2>1. CASE ~Active(m)
    BY <1>0, <2>1, Fixed DEF RowsOK, Active
  <2>2. CASE Active(m)
    <3>1. Near(b, m) /\ Pos(a) >= m
      BY <1>1
    <3>2. ~Lost(a, b, l, m)
      BY <1>0, <2>2, <3>1, GetsTells DEF StillTells
    <3>3. RowsOK(a, b, l, m)
      BY <1>0, <3>1, <3>2 DEF HoldsInv
    <3>4. HoldsKept(a, b, l, m)
      BY <1>0, <2>2, <3>1, GetsHold
    <3>5. RowsSame(a, b, l, m)
      BY <1>1
    <3> QED BY <1>0, <3>3, <3>4, <3>5, RowsKept DEF RowsSame
  <2> QED BY <2>1, <2>2
<1>5. WireInv'
  <2> SUFFICES ASSUME NEW a \in Rank, NEW b \in Rank, NEW l \in Local, b \notin dead,
                      NEW i \in DOMAIN wire'[a][b][l], wire'[a][b][l][i].kind # "sync"
               PROVE  \E m \in 1 .. NumCalls : Near(b, m)'
                        /\ IsMsg(a, b, l, m, wire[a][b][l][i])'
    BY <1>0, Fixed DEF WireInv
  <2>1. \E j \in DOMAIN wire[a][b][l] : wire'[a][b][l][i] = wire[a][b][l][j]
    <3>1. CASE ~Own(s, d, q, a, b, l)
      <4>1. wire'[a][b][l] = wire[a][b][l]
        BY <1>0, <3>1 DEF WireTail, Own
      <4> QED BY <4>1
    <3>2. CASE Own(s, d, q, a, b, l)
      <4>1. wire[a][b][l] \in Seq(Msg)
        BY DEF Shape
      <4>2. PICK w \in Seq(Msg) : w = wire[a][b][l]
        BY <4>1
      <4>3. w # <<>> /\ wire'[a][b][l] = Tail(w)
        BY <1>0, <3>2, <4>2 DEF WireTail, Own
      <4>4. i \in DOMAIN Tail(w)
        BY <4>3
      <4>5. i + 1 \in DOMAIN w /\ Tail(w)[i] = w[i + 1]
        BY <4>3, <4>4, TailFacts
      <4> QED BY <4>2, <4>3, <4>5
    <3> QED BY <3>1, <3>2
  <2>2. PICK j \in DOMAIN wire[a][b][l] : wire'[a][b][l][i] = wire[a][b][l][j]
    BY <2>1
  <2>3. PICK y : y = wire'[a][b][l][i] /\ y = wire[a][b][l][j]
    BY <2>2
  <2>4. PICK m \in 1 .. NumCalls : Near(b, m) /\ IsMsg(a, b, l, m, y)
    <3>1. wire[a][b][l][j].kind # "sync"
      BY <2>3
    <3>2. PICK m \in 1 .. NumCalls : Near(b, m) /\ IsMsg(a, b, l, m, wire[a][b][l][j])
      BY <1>0, <2>2, <3>1 DEF WireInv
    <3> QED BY <2>3, <3>2
  <2>5. m <= Pos(a) /\ m <= Pos(a)'
    BY <1>1, <2>4 DEF IsMsg
  <2>6. RowsSame(a, b, l, m) /\ Handed(a, m)
    BY <1>1
  <2>7. IsMsg(a, b, l, m, y)'
    BY <1>0, <2>4, <2>5, <2>6, MsgKept DEF RowsSame
  <2>8. Near(b, m)'
    BY <1>1, <2>4
  <2>9. IsMsg(a, b, l, m, wire[a][b][l][i])'
    BY <2>3, <2>7 DEF IsMsg, RowOf
  <2> QED BY <2>8, <2>9
<1>6. NVLinkInv'
  BY <1>0, <1>2, Fixed DEF NVLinkInv
<1>7. MemInv'
  <2> SUFFICES ASSUME NEW t \in Rank, NEW c \in {0, 1}
               PROVE  Good(region'[t][c], Places) /\ Good(staged'[t][c], Froms)
    BY <1>0, FixedToo DEF MemInv
  <2>1. Good(region[t][c], Places) /\ Good(staged[t][c], Froms)
    BY <1>0 DEF MemInv
  <2>2. CASE x.kind = "row" /\ t = d /\ c = x.buf
    <3>1. x.place \in Places
      BY <2>2 DEF Msg
    <3>2. region'[t][c] = Overlay(region[t][c], x.place, At(staged[s][c], x.from))
      BY <1>0, <2>2 DEF RegionGets
    <3>3. Good(region'[t][c], Places)
      BY <2>1, <3>1, <3>2, OverlayFacts
    <3> QED BY <1>0, <2>1, <3>3
  <2>3. CASE ~(x.kind = "row" /\ t = d /\ c = x.buf)
    <3>1. region'[t][c] = region[t][c]
      BY <1>0, <2>3 DEF RegionGets
    <3> QED BY <1>0, <2>1, <3>1
  <2> QED BY <2>2, <2>3
<1>8. TakenInv'
  <2> SUFFICES ASSUME NEW b \in Rank \ dead, NEW a \in Rank, NEW l \in Local,
                      Active(Pos(b))', Taken(b, a, l)'
               PROVE  TakenOK(b, a, l, Pos(b))'
    BY <1>0, Fixed DEF TakenInv
  <2>1. PICK n : n = Pos(b)
    OBVIOUS
  <2>2. Pos(b)' = n
    BY <1>1, <2>1
  <2>3. Active(n) /\ Taken(b, a, l)
    BY <1>0, <1>1, <2>2, Fixed
  <2>4. TakenOK(b, a, l, n)
    BY <2>1, <2>3 DEF TakenInv
  <2>5. n \in 1 .. NumCalls /\ Near(b, n)
    BY <2>1, <2>3, KindFacts DEF Near
  <2>6. Signalled(a, b, l, n) => Signalled(a, b, l, n)'
    BY <1>0, <2>3, <2>5, GetsTells DEF StillTells
  <2>7. Extent(b, n, a, l)' = Extent(b, n, a, l)
    BY <1>1
  <2>8. (a \in mask[b] => a \in mask'[b]) /\ (a \in dead /\ Quiet(a, b) => Quiet(a, b)')
    BY <1>0, <1>2
  <2>9. TakenOK(b, a, l, n)'
    BY <1>0, <2>4, <2>6, <2>7, <2>8, AsideTaken
  <2> QED BY <2>2, <2>9
<1> QED BY <1>2, <1>3, <1>4, <1>5, <1>6, <1>7, <1>8 DEF Channels

(* The counts of the barrier of shrink mode.                                *)
LEMMA GetsSync ==
  ASSUME Shape, SyncInv, NEW s \in Rank, NEW d \in Rank, NEW q \in Local, NEW x \in Msg,
         Gets(s, d, q, x)
  PROVE  SyncInv'
<1>0. /\ Calm /\ run' = run /\ kernel' = kernel /\ WireTail(s, d, q) /\ SyncGets(s, x)
      /\ wire[s][d][q] # <<>> /\ x = Head(wire[s][d][q])
  BY DEF Gets, Calm
<1>1. wire[s][d][q] \in Seq(Msg)
  BY DEF Shape
<1>2. PICK w \in Seq(Msg) : w = wire[s][d][q]
  BY <1>1
<1>3. 1 \in DOMAIN w /\ w[1] = x /\ \A i \in DOMAIN Tail(w) : i + 1 \in DOMAIN w
        /\ Tail(w)[i] = w[i + 1]
  BY <1>0, <1>2, TailFacts
<1>4. wire'[s][d][q] = Tail(w)
  BY <1>0, <1>2 DEF WireTail
<1> SUFFICES ASSUME run.shrink, NEW y \in Rank
             PROVE  /\ sync'[y][y] <= 0 /\ (kernel'[y].met[y] = "met" => sync'[y][y] < 0)
                    /\ ~AtEnd(y)' =>
                         /\ \A a \in Rank : sync'[a][y] = 0
                         /\ \A a \in Rank, l \in Local : NoSync(wire'[y][a][l])
  BY <1>0, Fixed DEF SyncInv, NoSync
<1>5. /\ sync[y][y] <= 0 /\ (kernel[y].met[y] = "met" => sync[y][y] < 0)
      /\ ~AtEnd(y) =>
           /\ \A a \in Rank : sync[a][y] = 0
           /\ \A a \in Rank, l \in Local : NoSync(wire[y][a][l])
  BY DEF SyncInv
<1>6. sync'[y][y] = sync[y][y]
  BY <1>0 DEF SyncGets
<1>7. ASSUME ~AtEnd(y)'
      PROVE  /\ \A a \in Rank : sync'[a][y] = 0
             /\ \A a \in Rank, l \in Local : NoSync(wire'[y][a][l])
  <2>1. ~AtEnd(y)
    BY <1>0, <1>7, CalmFacts
  <2>2. x.kind # "sync" \/ y # s
    <3>1. CASE y = s
      <4>1. NoSync(w)
        BY <1>2, <1>5, <2>1, <3>1
      <4> QED BY <1>3, <4>1 DEF NoSync
    <3> QED BY <3>1
  <2>3. \A a \in Rank : sync'[a][y] = 0
    BY <1>0, <1>5, <2>1, <2>2 DEF SyncGets
  <2>4. ASSUME NEW a \in Rank, NEW l \in Local
        PROVE  NoSync(wire'[y][a][l])
    <3>1. NoSync(wire[y][a][l])
      BY <1>5, <2>1
    <3>2. CASE y = s /\ a = d /\ l = q
      <4>1. NoSync(w)
        BY <1>2, <3>1, <3>2
      <4>2. NoSync(Tail(w))
        BY <1>3, <4>1 DEF NoSync
      <4> QED BY <1>4, <3>2, <4>2
    <3>3. CASE ~(y = s /\ a = d /\ l = q)
      <4>1. wire'[y][a][l] = wire[y][a][l]
        BY <1>0, <3>3 DEF WireTail
      <4> QED BY <3>1, <4>1
    <3> QED BY <3>2, <3>3
  <2> QED BY <2>3, <2>4
<1> QED BY <1>0, <1>5, <1>6, <1>7

(* The network carries something out.                                       *)
LEMMA IInvDeliver ==
  ASSUME IInv, NEW s \in Rank, NEW d \in Rank, NEW q \in Local, Deliver(s, d, q)
  PROVE  IInv'
<1>0. /\ Shape /\ Standing /\ SyncInv /\ DeadInv /\ MaskInv /\ Channels /\ TakenInv
           /\ Keeps /\ NVLinkInv
  BY IInvFacts DEF IInv
<1>1. PICK x \in Msg : Gets(s, d, q, x)
  BY <1>0, DeliverGets
<1>2. /\ Calm /\ run' = run /\ dead' = dead /\ kernel' = kernel /\ counter' = counter
      /\ staged' = staged /\ mask' = mask /\ packed' = packed /\ outputs' = outputs
      /\ WireTail(s, d, q) /\ WordGets(d, x) /\ RegionGets(s, d, x) /\ SyncGets(s, x)
  BY <1>1 DEF Gets, Calm
<1>3. Channels' /\ TakenInv' /\ \A a, b \in Rank : Quiet(a, b) => Quiet(a, b)'
  BY <1>0, <1>1, GetsChannels
<1>4. Standing' /\ kernel' \in [Rank -> Kernels']
  <2>1. \A y \in Rank : sync'[y][y] = sync[y][y]
    BY <1>2 DEF SyncGets
  <2> QED BY <1>0, <1>2, <2>1, CalmStanding
<1>5. Peers'
  <2>1. SyncInv'
    BY <1>0, <1>1, GetsSync
  <2>2. DeadInv'
    BY <1>0, <1>2 DEF DeadInv
  <2>3. MaskInv'
    <3>1. dead \subseteq Rank
      BY <1>0 DEF Shape
    <3>2. \A y \in Rank : AtEnd(y) => AtEnd(y)'
      BY <1>2, CalmFacts
    <3>3. \A a \in dead, b \in Rank : Quiet(a, b) => Quiet(a, b)'
      BY <1>3, <3>1
    <3> QED BY <1>0, <1>2, <3>2, <3>3, MaskKept
  <2> QED BY <2>1, <2>2, <2>3 DEF Peers
<1>6. Keeps'
  <2>1. \A y \in Rank : Pos(y)' = Pos(y) /\ kernel'[y].step = kernel[y].step
    BY <1>2 DEF Pos
  <2> QED BY <1>0, <1>2, <2>1, KeepsFrame
<1>7. Shape'
  <2>1. dead' \in SUBSET Rank
    BY <1>0, <1>2 DEF Shape
  <2>2. word' \in [Rank -> [{0, 1} -> [Expert -> Int]]]
    BY <1>2 DEF WordGets, Words
  <2>3. Buffers(region)' /\ sync' \in [Rank -> [Rank -> Int]]
        /\ wire' \in [Rank -> [Rank -> [Local -> Seq(Msg)]]]
    BY <1>2 DEF RegionGets, SyncGets, WireTail
  <2>4. layout' = layout /\ rows' = rows /\ out' = out
    BY <1>2 DEF outputs
  <2> QED BY <1>0, <1>2, <1>4, <2>1, <2>2, <2>3, <2>4, ShapeKept
<1> QED BY <1>3, <1>4, <1>5, <1>6, <1>7 DEF IInv

(***************************************************************************)
(* A rank dies.                                                            *)
(***************************************************************************)
Dies(r) ==
  /\ Calm /\ dead = {} /\ dead' = {r} /\ run.shrink
  /\ word' = word /\ region' = region /\ sync' = sync
  /\ wire' \in [Rank -> [Rank -> [Local -> Seq(Msg)]]]
  /\ \A a, b \in Rank, l \in Local :
       wire'[a][b][l] = wire[a][b][l] \/ (a = r /\ wire'[a][b][l] = <<>>)

(* All that it had sent to a peer may be lost, nothing else.                *)
LEMMA DieDies ==
  ASSUME Shape, NEW r \in Rank, Die(r)
  PROVE  Dies(r)
<1>1. wire \in [Rank -> [Rank -> [Local -> Seq(Msg)]]] /\ run \in Runs
  BY DEF Shape
<1>2. run.shrink
  BY <1>1, RunFacts DEF Die
<1>3. PICK lost \in SUBSET Rank :
         wire' = [wire EXCEPT ![r] = [d \in Rank |-> [q \in Local |->
                    IF d \in lost THEN <<>> ELSE wire[r][d][q]]]]
  BY DEF Die
<1>4. PICK f : f = [d \in Rank |-> [q \in Local |-> IF d \in lost THEN <<>> ELSE wire[r][d][q]]]
  OBVIOUS
<1>5. /\ f \in [Rank -> [Local -> Seq(Msg)]]
      /\ \A d \in Rank, q \in Local : f[d][q] = wire[r][d][q] \/ f[d][q] = <<>>
  <2>1. <<>> \in Seq(Msg)
    BY EmptySeq
  <2>2. \A d \in Rank, q \in Local : wire[r][d][q] \in Seq(Msg)
    BY <1>1
  <2>3. ASSUME NEW d \in Rank
        PROVE  [q \in Local |-> IF d \in lost THEN <<>> ELSE wire[r][d][q]] \in [Local -> Seq(Msg)]
    BY <2>1, <2>2
  <2>4. f \in [Rank -> [Local -> Seq(Msg)]]
    BY <1>4, <2>3
  <2>5. \A d \in Rank, q \in Local : f[d][q] = wire[r][d][q] \/ f[d][q] = <<>>
    BY <1>4
  <2> QED BY <2>4, <2>5
<1>6. /\ wire' \in [Rank -> [Rank -> [Local -> Seq(Msg)]]] /\ wire'[r] = f
      /\ \A a \in Rank : a # r => wire'[a] = wire[a]
  BY <1>1, <1>3, <1>4, <1>5
<1>7. \A a, b \in Rank, l \in Local :
        wire'[a][b][l] = wire[a][b][l] \/ (a = r /\ wire'[a][b][l] = <<>>)
  BY <1>5, <1>6
<1> QED BY <1>2, <1>6, <1>7 DEF Die, Dies, Calm

(* What it signalled has arrived, or is lost; what arrived is whole.        *)
LEMMA DiesChannel ==
  ASSUME Shape, NEW r \in Rank, Dies(r), NEW a \in Rank, NEW b \in Rank, NEW l \in Local, NEW m
  PROVE  /\ SignalOK(a, b, l, m) => SignalOK(a, b, l, m)'
         /\ Signalled(a, b, l, m) => Signalled(a, b, l, m)'
         /\ ~Lost(a, b, l, m)
         /\ wire'[a][b][l] = wire[a][b][l] \/ NoneOf(wire[a][b][l], Side(m))
              => HoldsKept(a, b, l, m)
         /\ wire'[a][b][l] # wire[a][b][l] /\ ~Lost(a, b, l, m)' => WordAt(a, b, l, m) # 0
<1>1. /\ Calm /\ run' = run /\ dead = {} /\ dead' = {r} /\ word' = word /\ region' = region
      /\ staged' = staged
      /\ wire'[a][b][l] = wire[a][b][l] \/ (a = r /\ wire'[a][b][l] = <<>>)
  BY DEF Dies, Calm
<1>2. Side(m)' = Side(m) /\ WordOf(m, a, l)' = WordOf(m, a, l)
      /\ ValueOf(m, a, b, l)' = ValueOf(m, a, b, l) /\ (Told(a, b, l, m)' <=> Told(a, b, l, m))
  BY <1>1, Fixed, FixedToo, CalmFacts
<1>3. WordAt(a, b, l, m)' = WordAt(a, b, l, m)
  BY <1>1, <1>2 DEF WordAt
<1>4. ~Lost(a, b, l, m)
  BY <1>1 DEF Lost
<1>5. Signalled(a, b, l, m) => Signalled(a, b, l, m)'
  <2>1. CASE wire'[a][b][l] = wire[a][b][l]
    BY <1>2, <1>3, <2>1 DEF Signalled
  <2>2. CASE wire'[a][b][l] = <<>>
    BY <1>2, <1>3, <2>2 DEF Signalled, Landed, NoneOf
  <2> QED BY <1>1, <2>1, <2>2
<1>6. SignalOK(a, b, l, m) => SignalOK(a, b, l, m)'
  <2>1. CASE wire'[a][b][l] = wire[a][b][l]
    BY <1>2, <1>3, <1>4, <1>5, <2>1 DEF SignalOK
  <2>2. ASSUME a = r, wire'[a][b][l] = <<>>, SignalOK(a, b, l, m)
        PROVE  SignalOK(a, b, l, m)'
    <3>1. WordAt(a, b, l, m) = 0 => Lost(a, b, l, m)'
      BY <1>1, <1>3, <2>2 DEF Lost
    <3>2. WordAt(a, b, l, m) = 0 => Untold(wire'[a][b][l], Side(m), WordAt(a, b, l, m))
      BY <2>2 DEF Untold
    <3>3. /\ Told(a, b, l, m) => Signalled(a, b, l, m) \/ WordAt(a, b, l, m) = 0
          /\ ~Told(a, b, l, m) => WordAt(a, b, l, m) = 0
      BY <1>4, <2>2 DEF SignalOK, Coming, Untold
    <3> QED BY <1>2, <1>3, <1>5, <3>1, <3>2, <3>3 DEF SignalOK
  <2> QED BY <1>1, <2>1, <2>2
<1>7. ASSUME wire'[a][b][l] = wire[a][b][l] \/ NoneOf(wire[a][b][l], Side(m))
      PROVE  HoldsKept(a, b, l, m)
  <2>1. CASE wire'[a][b][l] = wire[a][b][l]
    BY <1>1, <2>1, MemorySame
  <2>2. CASE wire'[a][b][l] = <<>> /\ NoneOf(wire[a][b][l], Side(m))
    <3> SUFFICES ASSUME NEW P, NEW row, Holds(a, b, l, m, P, row)
                 PROVE  Holds(a, b, l, m, P, row)'
      BY DEF HoldsKept
    <3>1. \A i \in DOMAIN wire[a][b][l] : ~RowMsg(wire[a][b][l][i], Side(m), P)
      BY <2>2 DEF NoneOf, OfBuf, RowMsg
    <3>2. <<P, row>> \in region[b][Side(m)]
      BY <3>1 DEF Holds, HoldsIn
    <3>3. HoldsIn(<<>>, Side(m), staged[a][Side(m)], region[b][Side(m)], P, row)
      BY <3>2 DEF HoldsIn
    <3> QED BY <1>1, <1>2, <2>2, <3>3 DEF Holds
  <2> QED BY <1>1, <1>7, <2>1, <2>2
<1>8. wire'[a][b][l] # wire[a][b][l] /\ ~Lost(a, b, l, m)' => WordAt(a, b, l, m) # 0
  BY <1>1, <1>3 DEF Lost
<1> QED BY <1>4, <1>5, <1>6, <1>7, <1>8

(* The channels from the dead, and the others.                              *)
LEMMA DiesChannels ==
  ASSUME Shape, KernelInv, PosInv, Channels, TakenInv, NEW r \in Rank, Dies(r)
  PROVE  Channels' /\ TakenInv'
<1>0. /\ MemInv /\ SignalInv /\ HoldsInv /\ WireInv /\ NVLinkInv
      /\ Calm /\ run' = run /\ dead = {} /\ dead' = {r} /\ mask' = mask /\ staged' = staged
      /\ region' = region /\ run \in Runs
      /\ \A a, b \in Rank, l \in Local :
           wire'[a][b][l] = wire[a][b][l] \/ wire'[a][b][l] = <<>>
  BY DEF Channels, Dies, Calm, Shape
<1>1. /\ \A a : Pos(a)' = Pos(a)
      /\ \A b, m : (Near(b, m)' <=> Near(b, m)) /\ (Ready(b, m)' <=> Ready(b, m))
      /\ \A a, b, l : Taken(a, b, l)' <=> Taken(a, b, l)
      /\ \A n, b, a, l : Extent(b, n, a, l)' = Extent(b, n, a, l)
      /\ \A a, b, l, m : RowsSame(a, b, l, m) /\ Handed(a, m)
  BY <1>0, CalmFacts
<1>2. SignalInv'
  <2> SUFFICES ASSUME NEW a \in Rank, NEW b \in Rank, b \notin dead', NEW l \in Local,
                      NEW m \in 1 .. NumCalls, Active(m), Ready(b, m)'
               PROVE  SignalOK(a, b, l, m)'
    BY <1>0, Fixed DEF SignalInv
  <2>1. SignalOK(a, b, l, m)
    BY <1>0, <1>1 DEF SignalInv
  <2> QED BY <2>1, DiesChannel
<1>3. HoldsInv'
  <2> SUFFICES ASSUME NEW a \in Rank, NEW b \in Rank, b \notin dead', NEW l \in Local,
                      NEW m \in 1 .. NumCalls, Near(b, m)', Pos(a)' >= m, ~Lost(a, b, l, m)'
               PROVE  RowsOK(a, b, l, m)'
    BY <1>0, Fixed DEF HoldsInv
  <2>1. CASE ~Active(m)
    BY <1>0, <2>1, Fixed DEF RowsOK, Active
  <2>2. CASE Active(m)
    <3>1. Near(b, m) /\ Pos(a) >= m /\ b \in Rank \ dead
      BY <1>0, <1>1
    <3>2. ~Lost(a, b, l, m)
      BY DiesChannel
    <3>3. RowsOK(a, b, l, m)
      BY <1>0, <3>1, <3>2 DEF HoldsInv
    <3>4. HoldsKept(a, b, l, m)
      <4>1. CASE wire'[a][b][l] = wire[a][b][l]
        BY <4>1, DiesChannel
      <4>2. CASE wire'[a][b][l] # wire[a][b][l]
        <5>1. WordAt(a, b, l, m) # 0
          BY <4>2, DiesChannel
        <5>2. Pos(a) \in Nat /\ m <= Pos(a)
          BY <3>1, KernelTypes
        <5>3. Ready(b, m)
          BY <3>1, <5>2, NearReady
        <5>4. NoneOf(wire[a][b][l], Side(m))
          BY <1>0, <2>2, <3>1, <5>1, <5>3, WordTold
        <5> QED BY <5>4, DiesChannel
      <4> QED BY <4>1, <4>2
    <3>5. RowsSame(a, b, l, m)
      BY <1>1
    <3> QED BY <1>0, <3>3, <3>4, <3>5, RowsKept DEF RowsSame
  <2> QED BY <2>1, <2>2
<1>4. WireInv'
  <2> SUFFICES ASSUME NEW a \in Rank, NEW b \in Rank, NEW l \in Local, b \notin dead',
                      NEW i \in DOMAIN wire'[a][b][l], wire'[a][b][l][i].kind # "sync"
               PROVE  \E m \in 1 .. NumCalls : Near(b, m)'
                        /\ IsMsg(a, b, l, m, wire[a][b][l][i])'
    BY <1>0, Fixed DEF WireInv
  <2>1. wire'[a][b][l] = wire[a][b][l]
    <3>1. CASE wire'[a][b][l] = <<>>
      BY <3>1
    <3> QED BY <1>0, <3>1
  <2>2. PICK y : y = wire'[a][b][l][i] /\ y = wire[a][b][l][i]
    BY <2>1
  <2>3. PICK m \in 1 .. NumCalls : Near(b, m) /\ IsMsg(a, b, l, m, y)
    <3>1. wire[a][b][l][i].kind # "sync" /\ b \notin dead /\ i \in DOMAIN wire[a][b][l]
      BY <1>0, <2>1
    <3>2. PICK m \in 1 .. NumCalls : Near(b, m) /\ IsMsg(a, b, l, m, wire[a][b][l][i])
      BY <1>0, <3>1 DEF WireInv
    <3> QED BY <2>2, <3>2
  <2>4. m <= Pos(a) /\ m <= Pos(a)'
    BY <1>1, <2>3 DEF IsMsg
  <2>5. RowsSame(a, b, l, m) /\ Handed(a, m)
    BY <1>1
  <2>6. IsMsg(a, b, l, m, y)'
    BY <1>0, <2>3, <2>4, <2>5, MsgKept DEF RowsSame
  <2>7. Near(b, m)'
    BY <1>1, <2>3
  <2>8. IsMsg(a, b, l, m, wire[a][b][l][i])'
    BY <2>2, <2>6 DEF IsMsg, RowOf
  <2> QED BY <2>7, <2>8
<1>5. NVLinkInv'
  BY <1>0, Fixed DEF NVLinkInv, Quiet
<1>6. MemInv'
  BY <1>0, FixedToo DEF MemInv
<1>7. TakenInv'
  <2> SUFFICES ASSUME NEW b \in Rank, b \notin dead', NEW a \in Rank, NEW l \in Local,
                      Active(Pos(b))', Taken(b, a, l)'
               PROVE  TakenOK(b, a, l, Pos(b))'
    BY <1>0, Fixed DEF TakenInv
  <2>1. PICK n : n = Pos(b)
    OBVIOUS
  <2>2. Pos(b)' = n
    BY <1>1, <2>1
  <2>3. Active(n) /\ Taken(b, a, l) /\ b \notin dead
    BY <1>0, <1>1, <2>2, Fixed
  <2>4. TakenOK(b, a, l, n)
    BY <2>1, <2>3 DEF TakenInv
  <2>5. /\ KindOf(n) = "dispatch" => Signalled(a, b, l, n)
             /\ Extent(b, n, a, l).num = Count(n, a, b, l)
        /\ KindOf(n) = "combine" => Signalled(a, b, l, n)
    BY <1>0, <2>4 DEF TakenOK
  <2>6. Signalled(a, b, l, n) => Signalled(a, b, l, n)'
    BY DiesChannel
  <2>7. Extent(b, n, a, l)' = Extent(b, n, a, l) /\ Count(n, a, b, l)' = Count(n, a, b, l)
        /\ KindOf(n)' = KindOf(n)
    BY <1>0, <1>1, Fixed
  <2>8. TakenOK(b, a, l, n)'
    BY <2>5, <2>6, <2>7 DEF TakenOK
  <2> QED BY <2>2, <2>8
<1> QED BY <1>2, <1>3, <1>4, <1>5, <1>6, <1>7 DEF Channels

(* A rank dies.                                                             *)
LEMMA IInvDie ==
  ASSUME IInv, NEW r \in Rank, Die(r)
  PROVE  IInv'
<1>0. /\ Shape /\ Standing /\ KernelInv /\ PosInv /\ SyncInv /\ DeadInv /\ MaskInv
      /\ Channels /\ TakenInv /\ Keeps
  BY IInvFacts DEF IInv
<1>1. Dies(r)
  BY <1>0, DieDies
<1>2. /\ Calm /\ run' = run /\ dead = {} /\ dead' = {r} /\ run.shrink /\ kernel' = kernel
      /\ counter' = counter /\ staged' = staged /\ mask' = mask /\ packed' = packed
      /\ outputs' = outputs /\ word' = word /\ region' = region /\ sync' = sync
      /\ wire' \in [Rank -> [Rank -> [Local -> Seq(Msg)]]]
      /\ \A a, b \in Rank, l \in Local :
           wire'[a][b][l] = wire[a][b][l] \/ wire'[a][b][l] = <<>>
  BY <1>1 DEF Dies, Calm
<1>3. Channels' /\ TakenInv'
  BY <1>0, <1>1, DiesChannels
<1>4. Standing' /\ kernel' \in [Rank -> Kernels']
  BY <1>0, <1>2, CalmStanding
<1>5. Peers'
  <2>1. SyncInv'
    <3>1. \A y \in Rank : AtEnd(y) => AtEnd(y)'
      BY <1>2, CalmFacts
    <3>2. \A a, b \in Rank, l \in Local : NoSync(wire[a][b][l]) => NoSync(wire'[a][b][l])
      <4>1. NoSync(<<>>)
        BY DEF NoSync
      <4>2. \A a, b \in Rank, l \in Local :
              wire'[a][b][l] = wire[a][b][l] \/ wire'[a][b][l] = <<>>
        BY <1>2
      <4> QED BY <4>1, <4>2
    <3>3. sync' = sync /\ run' = run
      BY <1>2
    <3>4. \A x \in Rank : kernel'[x].met[x] = "met" => kernel[x].met[x] = "met"
      BY <1>2
    <3>5. SyncInv
      BY <1>0
    <3> QED BY <3>1, <3>2, <3>3, <3>4, <3>5, SyncKept
  <2>2. DeadInv'
    BY <1>2 DEF DeadInv
  <2>3. MaskInv'
    <3>1. \A y \in Rank : AtEnd(y) => AtEnd(y)'
      BY <1>2, CalmFacts
    <3> QED BY <1>0, <1>2, <3>1, MaskKept
  <2> QED BY <2>1, <2>2, <2>3 DEF Peers
<1>6. Keeps'
  <2>1. \A y \in Rank : Pos(y)' = Pos(y) /\ kernel'[y].step = kernel[y].step
    BY <1>2 DEF Pos
  <2> QED BY <1>0, <1>2, <2>1, KeepsFrame
<1>7. Shape'
  <2>1. layout' = layout /\ rows' = rows /\ out' = out /\ dead' \in SUBSET Rank
    BY <1>2 DEF outputs
  <2> QED BY <1>0, <1>2, <1>4, <2>1, ShapeKept
<1> QED BY <1>3, <1>4, <1>5, <1>6, <1>7 DEF IInv

(***************************************************************************)
(* The beginning: every kernel is that of call 1, which no combine is.     *)
(***************************************************************************)
FirstKernels ==
  /\ run \in Runs /\ kernel \in [Rank -> Kernels]
  /\ \A r \in Rank :
       /\ Pos(r) = 1 /\ kernel[r].cleaned = FALSE /\ kernel[r].round = 1
       /\ Active(1) => kernel[r].idx = 1
       /\ ~Active(1) => kernel[r].idx = 0 /\ kernel[r].todo = {}
       /\ kernel[r].step = Unsent /\ kernel[r].met = Unmet
       /\ KindOf(1) = "dispatch" => kernel[r].todo = TokenItems(1, r)
                                    /\ kernel[r].finish = LessTokens(1, r)
       /\ KindOf(1) # "dispatch" => kernel[r].finish = Finished

FirstMemory ==
  /\ dead = {}
  /\ \A r \in Rank, e \in Expert : counter[r][e] = 0
  /\ \A r \in Rank, b \in {0, 1} : region[r][b] = {} /\ staged[r][b] = {}
  /\ \A r \in Rank, b \in {0, 1}, e \in Expert : word[r][b][e] = 0
  /\ \A r, q \in Rank : sync[r][q] = 0
  /\ \A r \in Rank : mask[r] = {}
  /\ \A r, d \in Rank, q \in Local : wire[r][d][q] = <<>>
  /\ \A r \in Rank, q \in Local : packed[r][q] = 0
  /\ \A r \in Rank, n \in 1 .. NumCalls : rows[r][n] = {}

(* How the kernels and the memory begin.                                    *)
LEMMA FirstFacts ==
  ASSUME Init
  PROVE  FirstKernels /\ FirstMemory /\ Shape
<1>1. run \in Runs /\ kernel = [r \in Rank |-> Launched(r, 1, 0)]
  BY DEF Init
<1>2. NumCalls \in Nat /\ DOMAIN run.calls = 1 .. NumCalls /\ 1 \in 1 .. NumCalls + 1
  BY <1>1, RunFacts
<1>3. \A r \in Rank : kernel[r] = Launched(r, 1, 0)
  BY <1>1
<1>4. FirstKernels
  <2>1. \A r \in Rank : Launched(r, 1, 0) \in Kernels
    BY <1>1, <1>2, LaunchedFacts
  <2>2. kernel \in [Rank -> Kernels]
    BY <1>1, <2>1
  <2>3. ASSUME NEW r \in Rank
        PROVE  /\ Pos(r) = 1 /\ kernel[r].cleaned = FALSE /\ kernel[r].round = 1
               /\ Active(1) => kernel[r].idx = 1
               /\ ~Active(1) => kernel[r].idx = 0
               /\ kernel[r].step = Unsent /\ kernel[r].met = Unmet
               /\ KindOf(1) = "dispatch" => kernel[r].todo = TokenItems(1, r)
                                            /\ kernel[r].finish = LessTokens(1, r)
               /\ KindOf(1) # "dispatch" => kernel[r].finish = Finished
    <3>1. kernel[r] = Launched(r, 1, 0)
      BY <1>3
    <3>2. 1 - 0 = 1
      OBVIOUS
    <3> QED BY <1>1, <1>2, <3>1, <3>2, LaunchedFacts DEF Pos
  <2>4. ASSUME NEW r \in Rank, ~Active(1)
        PROVE  kernel[r].todo = {}
    BY <1>3, <2>4, LaunchedIdle
  <2> QED BY <1>1, <2>2, <2>3, <2>4 DEF FirstKernels
<1>5. FirstMemory
  <2>1. /\ dead = {} /\ \A r \in Rank, e \in Expert : counter[r][e] = 0
        /\ \A r \in Rank, b \in {0, 1} : region[r][b] = {} /\ staged[r][b] = {}
        /\ \A r \in Rank, b \in {0, 1}, e \in Expert : word[r][b][e] = 0
    BY DEF Init
  <2>2. /\ \A r, q \in Rank : sync[r][q] = 0
        /\ \A r \in Rank : mask[r] = {}
        /\ \A r, d \in Rank, q \in Local : wire[r][d][q] = <<>>
        /\ \A r \in Rank, q \in Local : packed[r][q] = 0
    BY DEF Init
  <2>3. \A r \in Rank, n \in 1 .. NumCalls : rows[r][n] = {}
    BY <1>2 DEF Init
  <2> QED BY <2>1, <2>2, <2>3 DEF FirstMemory
<1>6. Shape
  <2>1. /\ run \in Runs /\ dead \in SUBSET Rank /\ kernel \in [Rank -> Kernels]
        /\ counter \in [Rank -> [Expert -> Nat]]
        /\ word \in [Rank -> [{0, 1} -> [Expert -> Int]]]
    BY <1>4 DEF Init, FirstKernels
  <2>2. Buffers(region) /\ Buffers(staged)
    BY DEF Init, Buffers
  <2>3. /\ sync \in [Rank -> [Rank -> Int]]
        /\ mask \in [Rank -> SUBSET Rank]
        /\ packed \in [Rank -> [Local -> Int]]
    BY DEF Init
  <2>4. wire \in [Rank -> [Rank -> [Local -> Seq(Msg)]]]
    <3>1. <<>> \in Seq(Msg)
      OBVIOUS
    <3> HIDE DEF Msg
    <3> QED BY <3>1 DEF Init
  <2>5. layout \in [Rank -> [1 .. NumCalls -> [Local \X Rank -> [begin : Int, num : Int]]]]
    <3>1. [begin |-> 0, num |-> 0] \in [begin : Int, num : Int]
      OBVIOUS
    <3> QED BY <1>2, <3>1 DEF Init
  <2>6. PerCall(rows) /\ PerCall(out)
    BY <1>2 DEF Init, PerCall
  <2> QED BY <2>1, <2>2, <2>3, <2>4, <2>5, <2>6 DEF Shape
<1> QED BY <1>4, <1>5, <1>6

(* The kernels begin with an empty workspace, no call apart.                *)
LEMMA FirstStanding ==
  ASSUME FirstKernels, FirstMemory, Shape
  PROVE  IdxInv /\ KernelInv /\ PosInv /\ MetInv /\ EnterInv
<1>0. /\ run \in Runs /\ dead = {} /\ NumCalls \in Nat /\ Rank \subseteq Nat
      /\ \A r \in Rank : Pos(r) = 1
  BY RunFacts, IndexFacts DEF FirstKernels, FirstMemory
<1>1. /\ Side(1) = 0 /\ Cleans(1) = 0
      /\ KindOf(1) # "combine" /\ (KindOf(1) = "dispatch" => 1 \in 1 .. NumCalls)
      /\ (Active(1) <=> KindOf(1) = "dispatch")
  <2>1. Side(1) = 0 /\ Cleans(1) = 0
    BY SideFacts
  <2>2. 1 > NumCalls => KindOf(1) = "none"
    BY <1>0, RunFacts
  <2>3. 1 \in 1 .. NumCalls => KindOf(1) # "combine"
    <3>1. 1 \in 1 .. NumCalls /\ KindOf(1) = "combine" => Handle(1) \in 1 .. 1 - 1
      BY <1>0, RunFacts
    <3>2. 1 .. 1 - 1 = {}
      OBVIOUS
    <3> QED BY <3>1, <3>2
  <2> QED BY <1>0, <2>1, <2>2, <2>3 DEF Active
<1>2. IdxInv
  BY <1>0, <1>1 DEF IdxInv, FirstKernels
<1>3. KernelInv
  <2> SUFFICES ASSUME NEW r \in Rank
               PROVE  KernelOK(r)
    BY DEF KernelInv
  <2>1. /\ Pos(r) = 1 /\ kernel[r].cleaned = FALSE /\ kernel[r].step = Unsent
        /\ \A e \in Expert : counter[r][e] = 0
    BY DEF FirstKernels, FirstMemory
  <2>2. \A e \in Expert : kernel[r].step[e] = "send"
    BY <2>1 DEF Unsent
  <2>3. ASSUME KindOf(1) = "dispatch"
        PROVE  DispatchKernel(r)
    <3>1. kernel[r].todo = TokenItems(1, r) /\ kernel[r].finish = LessTokens(1, r)
      BY <2>3 DEF FirstKernels
    <3>2. 1 \in 1 .. NumCalls
      BY <1>1, <2>3
    <3>3. DispatchTodo(r)
      BY <2>1, <2>2, <3>1 DEF DispatchTodo, TokenItems, TokensFor
    <3>4. ASSUME NEW e \in Expert
          PROVE  /\ counter[r][e] = Cardinality(SentTo(r, e))
                 /\ kernel[r].finish[e] = Tag - Cardinality(TokensFor(Pos(r), r, e)) + counter[r][e]
                      + (IF kernel[r].cleaned THEN Tag ELSE 0)
      <4>1. SentTo(r, e) = {}
        BY <2>1, <3>1 DEF SentTo, TokenItems, TokensFor
      <4>2. Cardinality(SentTo(r, e)) = 0
        BY <4>1, FS_EmptySet
      <4>3. kernel[r].finish[e] = Tag - Cardinality(TokensFor(1, r, e))
        BY <3>1 DEF LessTokens
      <4>4. Cardinality(TokensFor(1, r, e)) \in 0 .. MaxTokens
        BY <1>0, <2>3, <3>2, TokenFacts
      <4>5. Tag \in Nat /\ MaxTokens \in Nat
        BY <1>0, RunFacts
      <4>6. counter[r][e] = 0
        BY <2>1
      <4>7. PICK k \in 0 .. MaxTokens : k = Cardinality(TokensFor(1, r, e))
        BY <4>4
      <4> QED BY <2>1, <4>2, <4>3, <4>5, <4>6, <4>7
    <3>5. DispatchSending(r)
      BY <3>4 DEF DispatchSending
    <3>6. DispatchSent(r)
      BY <2>2 DEF DispatchSent
    <3> QED BY <3>3, <3>5, <3>6 DEF DispatchKernel
  <2>4. ASSUME ~Active(1)
        PROVE  IdleKernel(r)
    <3>1. kernel[r].todo = {} /\ kernel[r].finish = Finished
      BY <1>1, <2>4 DEF FirstKernels
    <3> QED BY <2>1, <2>2, <3>1 DEF IdleKernel, Finished
  <2> QED BY <1>1, <2>1, <2>3, <2>4 DEF KernelOK
<1>4. PosInv
  <2>1. \A r \in Rank : Capped(r) \in Nat /\ Capped(r) <= 1
    BY <1>0 DEF Capped
  <2>2. ASSUME NEW s \in Rank, NEW d \in Rank
        PROVE  Capped(s) <= Pos(d) + 1 /\ Capped(s) # Pos(d) + 1
    BY <1>0, <2>1
  <2> QED BY <2>2 DEF PosInv
<1>5. \A r, q \in Rank : kernel[r].met[q] = "enter"
  BY DEF FirstKernels, Unmet
<1>6. MetInv
  BY <1>5 DEF MetInv
<1>7. EnterInv
  <2>1. \A r \in Rank : Entered(r) = 0
    <3>1. \A r \in Rank : Pos(r) = 1 /\ kernel[r].round = 1 /\ kernel[r].met[r] = "enter"
      BY <1>5 DEF FirstKernels
    <3> QED BY <1>1, <3>1 DEF Entered
  <2>2. \A r \in Rank : sync[r][r] = 0
    BY DEF FirstMemory
  <2> QED BY <1>5, <2>1, <2>2 DEF EnterInv
<1> QED BY <1>2, <1>3, <1>4, <1>6, <1>7

(* Nothing has been sent.                                                   *)
LEMMA FirstChannels ==
  ASSUME FirstKernels, FirstMemory, Shape
  PROVE  Channels /\ TakenInv
<1>0. /\ run \in Runs /\ NumCalls \in Nat
      /\ \A r \in Rank : Pos(r) = 1
      /\ \A r \in Rank, e \in Expert : kernel[r].step[e] = "send"
      /\ \A r, d \in Rank, q \in Local : wire[r][d][q] = <<>>
  BY RunFacts DEF FirstKernels, FirstMemory, Unsent
<1>1. \A s, d \in Rank, q \in Local : GlobalOf(d, q) \in Expert /\ Step(s, d, q) = "send"
  BY <1>0, IndexFacts DEF Step
<1>2. MemInv
  BY DEF MemInv, FirstMemory, Good
<1>3. SignalInv
  <2> SUFFICES ASSUME NEW s \in Rank, NEW d \in Rank, NEW q \in Local, NEW m \in 1 .. NumCalls,
                      Active(m)
               PROVE  SignalOK(s, d, q, m)
    BY DEF SignalInv
  <2>1. ~Told(s, d, q, m)
    BY <1>0, <1>1 DEF Told
  <2>2. WordAt(s, d, q, m) = 0
    <3>1. WordOf(m, s, q) \in Expert
      BY <1>0, ValueFacts
    <3>2. Side(m) \in {0, 1}
      BY SideFacts
    <3> QED BY <3>1, <3>2 DEF WordAt, FirstMemory
  <2> QED BY <1>0, <2>1, <2>2 DEF SignalOK, Untold
<1>4. HoldsInv
  <2> SUFFICES ASSUME NEW s \in Rank, NEW d \in Rank, NEW q \in Local, NEW m \in 1 .. NumCalls,
                      Pos(s) >= m
               PROVE  RowsOK(s, d, q, m)
    BY DEF HoldsInv
  <2>1. m = 1 /\ KindOf(m) # "combine"
    <3>1. m = 1
      BY <1>0
    <3>2. KindOf(m) = "combine" => Handle(m) \in 1 .. m - 1
      BY <1>0, RunFacts
    <3>3. 1 .. 1 - 1 = {}
      OBVIOUS
    <3> QED BY <3>1, <3>2, <3>3
  <2>2. ASSUME KindOf(m) = "dispatch"
        PROVE  DispatchRows(s, d, q, m)
    <3>1. Slots(s, d, q, m) = 0
      BY <1>0, <1>1, <2>1 DEF Slots, FirstMemory
    <3>2. kernel[s].todo = TokenItems(1, s)
      BY <2>1, <2>2 DEF FirstKernels
    <3>3. \A t : ~TokenSent(s, d, q, m, t)
      BY <1>0, <1>1, <2>1, <3>2 DEF TokenSent, Tokens, TokensFor, TokenItems
    <3> QED BY <3>1, <3>3 DEF DispatchRows
  <2> QED BY <2>1, <2>2 DEF RowsOK
<1>5. WireInv
  BY <1>0 DEF WireInv
<1>6. NVLinkInv
  BY <1>0 DEF NVLinkInv, Quiet
<1>7. TakenInv
  BY <1>1 DEF TakenInv, Taken
<1> QED BY <1>2, <1>3, <1>4, <1>5, <1>6, <1>7 DEF Channels

(* The invariant holds at the start.                                        *)
LEMMA InitIInv ==
  ASSUME Init
  PROVE  IInv
<1>0. FirstKernels /\ FirstMemory /\ Shape
  BY FirstFacts
<1>1. Standing
  BY <1>0, FirstStanding DEF Standing
<1>2. Channels /\ TakenInv
  BY <1>0, FirstChannels
<1>3. /\ run \in Runs /\ NumCalls \in Nat /\ DOMAIN run.calls = 1 .. NumCalls
      /\ NumRanks \in Nat /\ MaxTokens \in Nat
      /\ \A r \in Rank : Pos(r) = 1
      /\ \A r \in Rank, e \in Expert : kernel[r].step[e] = "send"
  BY <1>0, RunFacts DEF FirstKernels, Unsent
<1>4. \A s, d \in Rank, q \in Local : Step(s, d, q) = "send"
  BY <1>3, IndexFacts DEF Step
<1>5. Peers
  <2>1. SyncInv
    BY <1>0 DEF SyncInv, FirstKernels, FirstMemory, Unmet, NoSync
  <2>2. DeadInv /\ MaskInv
    BY <1>0 DEF DeadInv, MaskInv, FirstMemory
  <2> QED BY <2>1, <2>2 DEF Peers
<1>6. Keeps
  <2>1. PackedInv
    <3> SUFFICES ASSUME NEW r \in Rank, NEW q \in Local
                 PROVE  PackedOK(r, q)
      BY DEF PackedInv
    <3>1. packed[r][q] = 0
      BY <1>0 DEF FirstMemory
    <3>2. 0 \in 0 .. NumRanks * MaxTokens
      <4>1. NumRanks * MaxTokens \in Nat
        BY <1>3
      <4> QED BY <4>1
    <3>3. Step(r, 0, q) = "send" /\ Claimed(r, q) = {}
      BY <1>3, <1>4, IndexFacts DEF Claimed, Taken
    <3> QED BY <3>1, <3>2, <3>3 DEF PackedOK, RangesOK
  <2>2. RowsInv
    <3> SUFFICES ASSUME NEW r \in Rank, NEW n \in 1 .. NumCalls
                 PROVE  CopiedOK(r, n)
      BY DEF RowsInv
    <3>1. rows[r][n] = {}
      BY <1>0 DEF FirstMemory
    <3>2. \A s \in Rank, q \in Local : ~Done(r, n, s, q)
      BY <1>3, <1>4 DEF Done
    <3> QED BY <3>1, <3>2 DEF CopiedOK, Good
  <2>3. CombinedOwn
    BY <1>3 DEF CombinedOwn, Returned, Pos
  <2> QED BY <2>1, <2>2, <2>3 DEF Keeps
<1> QED BY <1>0, <1>1, <1>2, <1>5, <1>6 DEF IInv

(* Nothing changes, and nothing that is said of the state.                  *)
LEMMA IInvStays ==
  ASSUME IInv, UNCHANGED vars
  PROVE  IInv'
<1>0. Shape /\ Standing /\ KernelInv /\ SyncInv /\ MaskInv /\ DeadInv /\ Channels
        /\ TakenInv /\ Keeps
  BY IInvFacts DEF IInv
<1>1. /\ run' = run /\ dead' = dead /\ kernel' = kernel /\ counter' = counter
           /\ memory' = memory
      /\ word' = word /\ region' = region /\ wire' = wire
      /\ staged' = staged /\ sync' = sync /\ mask' = mask /\ packed' = packed
           /\ outputs' = outputs
      /\ layout' = layout /\ rows' = rows /\ out' = out
  BY DEF vars, memory, outputs
<1>2. Calm
  BY <1>1 DEF Calm
<1>3. Standing' /\ kernel' \in [Rank -> Kernels']
  BY <1>0, <1>1, <1>2, CalmStanding
<1>4. Peers'
  <2>1. /\ \A x \in Rank : Pos(x)' = Pos(x)
        /\ \A x \in Rank : kernel'[x].met[x] = "met" => kernel[x].met[x] = "met"
    BY <1>1 DEF Pos
  <2> QED BY <1>1, <2>1, PeersKept
<1>5. Channels'
  <2>1. ToldSame /\ ReadySame
    BY <1>2, CalmFacts DEF ToldSame, ReadySame
  <2>2. /\ \A x \in Rank : Pos(x)' = Pos(x)
        /\ \A s, d \in Rank, q \in Local, m \in 1 .. NumCalls :
              m <= Pos(s) => RowsSame(s, d, q, m) /\ Handed(s, m)
    BY <1>2, CalmFacts
  <2> QED BY <1>0, <1>1, <2>1, <2>2, QuietChannels
<1>6. TakenInv'
  <2>1. ASSUME NEW d \in Rank \ dead, NEW s \in Rank, NEW q \in Local, Active(Pos(d))',
               Taken(d, s, q)'
        PROVE  TakenStays(d, s, q)
    <3>1. /\ Pos(d)' = Pos(d) /\ (Taken(d, s, q)' <=> Taken(d, s, q))
          /\ \A n : Extent(d, n, s, q)' = Extent(d, n, s, q)
      BY <1>2, CalmFacts
    <3>2. Extent(d, Pos(d), s, q)' = Extent(d, Pos(d), s, q)
      BY <1>1 DEF Extent, Pos
    <3> QED BY <1>1, <2>1, <3>1, <3>2 DEF TakenStays
  <2> QED BY <1>0, <1>1, <2>1, TakenFrame
<1>7. Keeps'
  <2>1. \A x \in Rank : Pos(x)' = Pos(x) /\ kernel'[x].step = kernel[x].step
    BY <1>1 DEF Pos
  <2> QED BY <1>0, <1>1, <2>1, KeepsFrame
<1>8. Shape'
  <2>1. dead' \in SUBSET Rank
    BY <1>0, <1>1 DEF Shape
  <2> QED BY <1>0, <1>1, <1>3, <2>1, ShapeKept
<1> QED BY <1>3, <1>4, <1>5, <1>6, <1>7, <1>8 DEF IInv

(* Every step preserves the invariant.                                      *)
LEMMA NextIInv ==
  ASSUME CleansLast, IInv, [Next]_vars
  PROVE  IInv'
<1>0. Shape /\ KernelInv /\ run \in Runs
  BY IInvFacts DEF Shape
<1>1. ASSUME NEW s \in Rank, NEW d \in Rank, NEW q \in Local, Deliver(s, d, q)
      PROVE  IInv'
  BY <1>1, IInvDeliver
<1>2. ASSUME NEW r \in Rank, Die(r)
      PROVE  IInv'
  BY <1>2, IInvDie
<1>3. ASSUME NEW r \in Rank, RankStep(r)
      PROVE  IInv'
  <2>1. CASE CleanNext(r)
    BY <2>1, IInvCleanNext
  <2>2. CASE \E x \in kernel[r].todo : SendToken(r, x[1], x[2])
    <3>1. PICK x \in kernel[r].todo : SendToken(r, x[1], x[2])
      BY <2>2
    <3>2. KindOf(Pos(r)) = "dispatch"
      BY <3>1 DEF SendToken, In, Pos
    <3>3. DispatchTodo(r)
      BY <1>0, <3>2 DEF KernelInv, KernelOK, DispatchKernel
    <3>4. x[2] \in Expert
      BY <3>3 DEF DispatchTodo
    <3> QED BY <3>1, <3>4, IInvSendToken
  <2>3. CASE \E e \in Expert :
               SendCount(r, e) \/ TakeCount(r, e) \/ TakeTimeout(r, e) \/ CopyRows(r, e)
    BY <2>3, IInvSendCount, IInvTake, IInvCopyRows
  <2>4. CASE \E x \in kernel[r].todo : SendRow(r, x[1], x[2], x[3])
    BY <2>4, IInvSendRow
  <2>5. CASE \E e \in Expert : SendFlag(r, e) \/ AwaitFlag(r, e) \/ FlagTimeout(r, e)
    BY <2>5, IInvSendFlag, IInvAwait
  <2>6. CASE Reduce(r)
    BY <2>6, IInvReduce
  <2>7. CASE EnterBarrier(r) \/ NvshmemBarrier(r)
    BY <2>7, IInvEnterBarrier
  <2>8. CASE AfterBarrier(r)
    BY <2>8, IInvAfterFirst, IInvAfterSecond
  <2>9. CASE \E q \in Rank : TellPeer(r, q) \/ HeardPeer(r, q) \/ PeerTimeout(r, q)
    BY <2>9, IInvTellPeer, IInvHeardPeer
  <2> QED BY <1>3, <2>1, <2>2, <2>3, <2>4, <2>5, <2>6, <2>7, <2>8, <2>9 DEF RankStep
<1>4. CASE UNCHANGED vars
  BY <1>4, IInvStays
<1> QED BY <1>1, <1>2, <1>3, <1>4 DEF Next, Progress, Network

(***************************************************************************)
(* The invariant, for any number of ranks, experts and tokens and any runs *)
(* in which an application cleans with a mask buffer only at the end: the  *)
(* barrier of that clean may give up a peer that lives.                    *)
(***************************************************************************)
THEOREM Invariance == CleansLast => (Spec => []IInv)
<1> SUFFICES ASSUME CleansLast
             PROVE  Spec => []IInv
  OBVIOUS
<1>1. Init => IInv
  BY InitIInv
<1>2. IInv /\ [Next]_vars => IInv'
  BY NextIInv
<1> QED BY <1>1, <1>2, PTL DEF Spec

(* One element for each, and as many.                                       *)
LEMMA SameSize ==
  ASSUME NEW S, NEW T, NEW f \in [S -> T], IsFiniteSet(S),
         \A x, y \in S : f[x] = f[y] => x = y, \A y \in T : \E x \in S : f[x] = y
  PROVE  IsFiniteSet(T) /\ Cardinality(T) = Cardinality(S)
<1>1. f \in Bijection(S, T)
  BY DEF Bijection, Injection, Surjection, IsInjective
<1>2. ExistsBijection(S, T)
  BY <1>1 DEF ExistsBijection
<1> QED BY <1>2, FS_Bijection

(* What a range holds, once its source's tokens have been copied.           *)
Received(r, n, s, q) == {p \in rows[r][n] : p[1][1] = q /\ Covers(Extent(r, n, s, q), p[1][2])}

(* The rows of a range are the tokens of its source, each once.             *)
LEMMA FetchedRows ==
  ASSUME Shape, NEW r \in Rank, NEW n \in 1 .. NumCalls, KindOf(n) = "dispatch",
         Good(rows[r][n], Local \X Row), NEW s \in Rank, NEW q \in Local, Fetched(r, n, s, q)
  PROVE  \/ /\ {p[2] : p \in Received(r, n, s, q)} = Due(n, s, r, q)
            /\ Cardinality(Received(r, n, s, q)) = Cardinality(Due(n, s, r, q))
            /\ Extent(r, n, s, q).num = Cardinality(Received(r, n, s, q))
         \/ s \in dead /\ Extent(r, n, s, q).num = 0
<1> DEFINE G  == Received(r, n, s, q)
           T  == Tokens(n, s, r, q)
<1>1. PICK a \in Nat, k \in Nat : a = Extent(r, n, s, q).begin /\ k = Extent(r, n, s, q).num
  BY DEF Fetched
<1>2. \A i \in 0 .. k - 1 : \E t \in T : RowAt(r, n, s, q, a + i, t)
  BY <1>1 DEF Fetched
<1>3. CASE s \in dead /\ Extent(r, n, s, q).num = 0
  BY <1>3
<1>4. CASE /\ k = Count(n, s, r, q)
           /\ \A t \in T : \E i \in 0 .. k - 1 : RowAt(r, n, s, q, a + i, t)
  <2>1. /\ \A p \in rows[r][n] : p = <<p[1], p[2]>> /\ p[1] \in Local \X Row
        /\ \A p, x \in rows[r][n] : p[1] = x[1] => p = x
    BY DEF Good
  <2>2. Row \subseteq Nat /\ IsFiniteSet(T) /\ Cardinality(T) = k
    <3>1. run \in Runs
      BY DEF Shape
    <3>2. IsFiniteSet(T)
      BY <3>1, TokenFacts DEF Tokens
    <3> QED BY <1>4, <3>2 DEF Count, Row
  <2>3. \A p : p \in G <=> p \in rows[r][n] /\ p[1][1] = q /\ a <= p[1][2] /\ p[1][2] < a + k
    BY <1>1 DEF Received, Covers
  <2> DEFINE Is(p, i, t) == i \in 0 .. k - 1 /\ t \in T /\ p = <<<<q, a + i>>, <<n, s, t>>>>
  <2>4. ASSUME NEW p \in G
        PROVE  \E i \in 0 .. k - 1, t \in T : Is(p, i, t)
    <3>1. p = <<p[1], p[2]>> /\ p[1] \in Local \X Row /\ p[1][1] = q
          /\ a <= p[1][2] /\ p[1][2] < a + k /\ p \in rows[r][n]
      BY <2>1, <2>3
    <3>2. PICK y \in Nat : p[1] = <<q, y>>
      BY <2>2, <3>1
    <3>3. y - a \in 0 .. k - 1 /\ a + (y - a) = y
      BY <3>1, <3>2
    <3>4. PICK t \in T : RowAt(r, n, s, q, a + (y - a), t)
      BY <1>2, <3>3
    <3>5. <<<<q, y>>, <<n, s, t>>>> \in rows[r][n]
      BY <3>3, <3>4 DEF RowAt
    <3>6. p = <<<<q, y>>, <<n, s, t>>>>
      BY <2>1, <3>1, <3>2, <3>5
    <3> QED BY <3>3, <3>6
  <2>5. ASSUME NEW i \in 0 .. k - 1, NEW t \in T, RowAt(r, n, s, q, a + i, t)
        PROVE  <<<<q, a + i>>, <<n, s, t>>>> \in G
    BY <2>3, <2>5 DEF RowAt
  <2>6. /\ \A i \in 0 .. k - 1 : \E p \in G, t \in T : Is(p, i, t)
        /\ \A t \in T : \E p \in G, i \in 0 .. k - 1 : Is(p, i, t)
    <3>1. \A i \in 0 .. k - 1 : \E p \in G, t \in T : Is(p, i, t)
      BY <1>2, <2>5
    <3>2. \A t \in T : \E p \in G, i \in 0 .. k - 1 : Is(p, i, t)
      BY <1>4, <2>5
    <3> QED BY <3>1, <3>2
  <2> HIDE DEF G, T
  <2>7. \A i \in 0 .. k - 1 : \E p \in G : p[1] = <<q, a + i>>
    BY <2>6
  <2>8. \A p \in G : \E i \in 0 .. k - 1 : p[1] = <<q, a + i>>
    BY <2>4
  <2>9. \A p, x \in G : p[1] = x[1] => p = x
    BY <2>1, <2>3
  <2>10. Cardinality(G) = k
    <3> DEFINE D == 0 .. k - 1
               f == [i \in D |-> CHOOSE p \in G : p[1] = <<q, a + i>>]
    <3>1. \A i \in D : f[i] \in G /\ f[i][1] = <<q, a + i>>
      BY <2>7
    <3>2. f \in [D -> G]
      BY <3>1
    <3> HIDE DEF f
    <3>3. \A i, j \in D : f[i] = f[j] => i = j
      <4> SUFFICES ASSUME NEW i \in D, NEW j \in D, f[i] = f[j]
                   PROVE  i = j
        OBVIOUS
      <4>1. a + i = a + j
        BY <3>1
      <4> QED BY <4>1
    <3>4. \A p \in G : \E i \in D : f[i] = p
      BY <2>8, <2>9, <3>1
    <3>5. IsFiniteSet(D) /\ Cardinality(D) = k
      <4>1. /\ IsFiniteSet(0 .. k - 1)
            /\ Cardinality(0 .. k - 1) = IF 0 > k - 1 THEN 0 ELSE (k - 1) - 0 + 1
        BY FS_Interval
      <4> QED BY <4>1
    <3> HIDE DEF D
    <3> QED BY <3>2, <3>3, <3>4, <3>5, SameSize
  <2>11. Cardinality(Due(n, s, r, q)) = k
    <3> DEFINE g == [t \in T |-> <<n, s, t>>]
    <3>1. g \in [T -> Due(n, s, r, q)] /\ (\A t, u \in T : g[t] = g[u] => t = u)
          /\ \A y \in Due(n, s, r, q) : \E t \in T : g[t] = y
      BY DEF Due, T, Tokens
    <3> HIDE DEF g
    <3> QED BY <2>2, <3>1, SameSize
  <2>12. {p[2] : p \in G} = Due(n, s, r, q)
    <3>1. \A p \in G : p[2] \in Due(n, s, r, q)
      BY <2>4 DEF Due, T, Tokens
    <3>2. \A y \in Due(n, s, r, q) : \E p \in G : p[2] = y
      BY <2>6 DEF Due, T, Tokens
    <3> QED BY <3>1, <3>2
  <2> QED BY <1>1, <2>10, <2>11, <2>12 DEF G
<1> QED BY <1>1, <1>3, <1>4 DEF Fetched

(* So what a rank has received when it returns is what was due.             *)
LEMMA RowsFollow ==
  ASSUME IInv
  PROVE  RowsReceived
<1>1. /\ Shape /\ RowsInv /\ run \in Runs
      /\ NumCalls \in Nat /\ DOMAIN run.calls = 1 .. NumCalls
      /\ \A n \in 1 .. NumCalls : KindOf(n) = run.calls[n].kind
  BY IInvFacts, RunFacts DEF Shape
<1> SUFFICES ASSUME NEW r \in Rank, NEW n \in 1 .. NumCalls, KindOf(n) = "dispatch",
                    Returned(r, n), NEW q \in Local, NEW s \in Rank
             PROVE  \/ /\ {p[2] : p \in Received(r, n, s, q)} = Due(n, s, r, q)
                       /\ Cardinality(Received(r, n, s, q)) = Cardinality(Due(n, s, r, q))
                       /\ Extent(r, n, s, q).num = Cardinality(Received(r, n, s, q))
                    \/ s \in dead /\ Extent(r, n, s, q).num = 0
  BY <1>1 DEF RowsReceived, Received, Extent
<1>2. CopiedOK(r, n)
  BY <1>1 DEF RowsInv
<1>3. Done(r, n, s, q)
  BY DEF Done, Returned, Pos
<1>4. Good(rows[r][n], Local \X Row) /\ Fetched(r, n, s, q)
  BY <1>2, <1>3 DEF CopiedOK
<1> QED BY <1>1, <1>4, FetchedRows

(* The workspace, kernel by kernel.                                         *)
LEMMA WorkspaceTypes ==
  ASSUME Shape, KernelInv, NEW r \in Rank, NEW e \in Expert
  PROVE  /\ counter[r][e] \in 0 .. MaxTokens + Cardinality(Expert)
         /\ kernel[r].finish[e] \in {0} \cup (Tag - MaxTokens .. 2 * Tag)
         /\ AllSent(r) => counter[r][e] = 0
<1>0. /\ run \in Runs /\ MaxTokens \in Nat /\ Tag \in Nat
      /\ NumCalls \in Nat /\ Pos(r) \in Nat
  BY RunFacts, KernelTypes DEF Shape
<1>1. PICK x \in Nat : x = Cardinality(Expert)
  BY <1>0, IndexFacts
<1>2. counter[r][e] \in Nat /\ KernelOK(r)
  BY DEF Shape, KernelInv
<1>3. KindOf(Pos(r)) = "dispatch" \/ KindOf(Pos(r)) = "combine" <=> Active(Pos(r))
  BY KindFacts
<1>4. CASE KindOf(Pos(r)) = "dispatch"
  <2>1. DispatchKernel(r)
    BY <1>2, <1>4 DEF KernelOK
  <2>2. CASE kernel[r].step[e] = "send"
    <3>1. /\ counter[r][e] = Cardinality(SentTo(r, e))
          /\ kernel[r].finish[e] = Tag - Cardinality(TokensFor(Pos(r), r, e)) + counter[r][e]
               + (IF kernel[r].cleaned THEN Tag ELSE 0)
      BY <2>1, <2>2 DEF DispatchKernel, DispatchSending
    <3>2. /\ Cardinality(SentTo(r, e)) <= Cardinality(TokensFor(Pos(r), r, e))
          /\ Cardinality(TokensFor(Pos(r), r, e)) \in 0 .. MaxTokens
      BY <1>4, SentFacts
    <3>3. PICK c \in 0 .. MaxTokens : c = Cardinality(TokensFor(Pos(r), r, e))
      BY <3>2
    <3>4. ~AllSent(r)
      BY <2>2 DEF AllSent
    <3>5. counter[r][e] <= c
      BY <3>1, <3>2, <3>3
    <3>6. PICK k \in Nat : k = counter[r][e]
      BY <1>2
    <3>7. kernel[r].finish[e] = Tag - c + k + (IF kernel[r].cleaned THEN Tag ELSE 0)
      BY <3>1, <3>3, <3>6
    <3>8. kernel[r].finish[e] \in Tag - MaxTokens .. 2 * Tag
      BY <1>0, <3>3, <3>5, <3>6, <3>7
    <3>9. counter[r][e] \in 0 .. MaxTokens + x
      BY <1>0, <3>3, <3>5, <3>6
    <3> QED BY <1>1, <3>4, <3>8, <3>9
  <2>3. CASE kernel[r].step[e] # "send"
    <3>1. counter[r][e] = 0 /\ kernel[r].finish[e] = 0
      BY <2>1, <2>3 DEF DispatchKernel, DispatchSent
    <3>2. 0 \in 0 .. MaxTokens + x
      BY <1>0
    <3> QED BY <1>1, <3>1, <3>2
  <2> QED BY <2>2, <2>3
<1>5. CASE KindOf(Pos(r)) = "combine"
  <2>1. CombineSteps(r) /\ CombineCount(r)
    BY <1>2, <1>5 DEF KernelOK, CombineKernel
  <2>2. kernel[r].finish[e] = 0
    BY <2>1 DEF CombineSteps
  <2>3. CASE e = 0
    <3>1. PICK k \in 0 .. x : k = Cardinality(Senders(r))
      BY <1>1, SenderCount
    <3>2. counter[r][e] = 0 \/ counter[r][e] = k
      BY <2>1, <2>3, <3>1 DEF CombineCount
    <3>3. counter[r][e] \in 0 .. MaxTokens + x
      BY <1>0, <3>1, <3>2
    <3>4. AllSent(r) => Senders(r) = {}
      BY DEF AllSent, Senders
    <3>5. AllSent(r) => Cardinality(Senders(r)) = 0
      BY <3>4, FS_EmptySet
    <3>6. AllSent(r) => counter[r][e] = 0
      BY <2>1, <2>3, <3>5 DEF CombineCount
    <3> QED BY <1>1, <2>2, <3>3, <3>6
  <2>4. CASE e # 0
    <3>1. counter[r][e] = 0
      BY <2>1, <2>4 DEF CombineSteps
    <3>2. 0 \in 0 .. MaxTokens + x
      BY <1>0
    <3> QED BY <1>1, <2>2, <3>1, <3>2
  <2> QED BY <2>3, <2>4
<1>6. CASE ~Active(Pos(r))
  <2>1. kernel[r].finish[e] = 0 /\ counter[r][e] = 0
    BY <1>2, <1>6 DEF KernelOK, IdleKernel
  <2>2. 0 \in 0 .. MaxTokens + x
    BY <1>0
  <2> QED BY <1>1, <2>1, <2>2
<1> QED BY <1>3, <1>4, <1>5, <1>6

(* The types that the runs check.                                           *)
LEMMA TypesFollow ==
  ASSUME IInv
  PROVE  TypeOK
<1>0. Shape /\ KernelInv /\ MemInv /\ PackedInv
  BY IInvFacts
<1>1. \A r \in Rank : kernel[r].call \in 1 .. Len(run.calls) + 1
  BY <1>0, KernelTypes DEF Pos, NumCalls
<1>2. \A r \in Rank : counter[r] \in [Expert -> 0 .. MaxTokens + Cardinality(Expert)]
  <2> SUFFICES ASSUME NEW r \in Rank
               PROVE  counter[r] \in [Expert -> 0 .. MaxTokens + Cardinality(Expert)]
    OBVIOUS
  <2>1. counter[r] \in [Expert -> Nat]
    BY <1>0, KernelTypes
  <2>2. \A e \in Expert : counter[r][e] \in 0 .. MaxTokens + Cardinality(Expert)
    BY <1>0, WorkspaceTypes
  <2> QED BY <2>1, <2>2
<1>3. \A r \in Rank : kernel[r].finish \in [Expert -> {0} \cup (Tag - MaxTokens .. 2 * Tag)]
  <2> SUFFICES ASSUME NEW r \in Rank
               PROVE  kernel[r].finish \in [Expert -> {0} \cup (Tag - MaxTokens .. 2 * Tag)]
    OBVIOUS
  <2>1. kernel[r].finish \in [Expert -> Int]
    BY <1>0, KernelTypes
  <2>2. \A e \in Expert : kernel[r].finish[e] \in {0} \cup (Tag - MaxTokens .. 2 * Tag)
    BY <1>0, WorkspaceTypes
  <2> QED BY <2>1, <2>2
<1>4. \A r \in Rank : \A b \in {0, 1} : \A p \in region[r][b] : p[1] \in Places
  BY <1>0 DEF MemInv, Good
<1>5. \A r \in Rank : packed[r] \in [Local -> 0 .. NumRanks * MaxTokens]
  <2> SUFFICES ASSUME NEW r \in Rank
               PROVE  packed[r] \in [Local -> 0 .. NumRanks * MaxTokens]
    OBVIOUS
  <2>1. packed[r] \in [Local -> Int]
    BY <1>0 DEF Shape
  <2>2. \A q \in Local : packed[r][q] \in 0 .. NumRanks * MaxTokens
    BY <1>0 DEF PackedInv, PackedOK
  <2> QED BY <2>1, <2>2
<1>6. \A r \in Rank : AllSent(r) => \A e \in Expert : counter[r][e] = 0
  BY <1>0, WorkspaceTypes
<1> QED BY <1>1, <1>2, <1>3, <1>4, <1>5, <1>6 DEF TypeOK

(* The state stays in its types: no slot is beyond the tokens of a rank, no *)
(* range beyond packed_recv_x, and every kernel finds the workspace zero.   *)
THEOREM TypeCorrect == CleansLast => (Spec => []TypeOK)
BY Invariance, TypesFollow, PTL

(* dispatch: a call returns with the tokens of each source, of this call,   *)
(* each once, though both its buffers are used again and again and nobody   *)
(* meets in a barrier; a source is left out only if it died.                *)
THEOREM RowsArrive == CleansLast => (Spec => []RowsReceived)
BY Invariance, RowsFollow, PTL

(* The sums are part of the invariant.                                      *)
LEMMA SumsFollow ==
  ASSUME IInv
  PROVE  CombinedOwn
BY IInvFacts

(* combine: a token sums one result of each of its experts, computed from   *)
(* this token in this call; only what a dead rank owes is missing.          *)
THEOREM SumsOwn == CleansLast => (Spec => []CombinedOwn)
BY Invariance, SumsFollow, PTL
===============================================================================
