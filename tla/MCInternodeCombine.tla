-------------------------- MODULE MCInternodeCombine --------------------------
(***************************************************************************)
(* What is combined in the instances of InternodeCombine that TLC checks:  *)
(* the tokens of a GPU of node 0, of two nodes with two GPUs each.         *)
(***************************************************************************)
EXTENDS InternodeCombine

(* Each token is a pair: the peers here and the peers there that have it. *)
Had(seq) == [t \in 0 .. Len(seq) - 1 |-> [s \in Source |-> seq[t + 1][s + 1]]]
There(seq) == Had([k \in 1 .. Len(seq) |-> <<{}, seq[k]>>])

(* More sums than the RDMA ring holds and more rows than a peer's ring, a   *)
(* peer that has the first and the last token only; tokens of both nodes,   *)
(* or of one, and a row that comes after entries of -1.                     *)
CheckedRuns ==
  {There(<<{0, 1}, {0}, {0}, {0}, {0, 1}>>),
   Had(<<<<{0}, {1}>>, <<{}, {1}>>, <<{}, {0}>>>>)}
=============================================================================
