-------------------------- MODULE MCInternodeDispatch --------------------------
(***************************************************************************)
(* What is sent in the instances of InternodeDispatch that TLC checks: the *)
(* receiving node is 0, of two nodes with two GPUs each.                   *)
(***************************************************************************)
EXTENDS InternodeDispatch

Send(seq) == [t \in 0 .. Len(seq) - 1 |-> seq[t + 1]]
Sent(here, there, n) ==
  [to |-> [s \in Source |-> IF s = 0 THEN Send(here) ELSE Send(there)], prior |-> n]

(* More rows than the ring holds, from the other node; from both nodes; a   *)
(* token that goes elsewhere, so that the window fills.                     *)
CheckedRuns ==
  {Sent(<<>>, <<{0}, {0, 1}, {1}, {0}, {0, 1}, {1}>>, 0),
   Sent(<<{0}, {1}>>, <<{0, 1}, {0}>>, 1),
   Sent(<<>>, <<{0}, {0}, {}, {1}>>, 0)}
=============================================================================
