-------------------------------- MODULE Barrier --------------------------------
(***************************************************************************)
(* What a reusable barrier over a set of ranks promises, independently of  *)
(* how it is built.  Rank r has entered the barrier entered[r] times and   *)
(* left it left[r] times; it may leave its k-th visit only when every rank *)
(* has entered its own k-th visit.                                         *)
(*                                                                         *)
(* barrier_block (csrc/kernels/utils.cuh) is shown to implement this in    *)
(* BarrierBlock and IntranodeProofs.                                       *)
(***************************************************************************)
EXTENDS Naturals

CONSTANT Rank

VARIABLES entered, left

bvars == <<entered, left>>

BInit ==
  /\ entered = [r \in Rank |-> 0]
  /\ left    = [r \in Rank |-> 0]

BEnter(r) ==
  /\ entered[r] = left[r]
  /\ entered' = [entered EXCEPT ![r] = @ + 1]
  /\ UNCHANGED left

BLeave(r) ==
  /\ left[r] < entered[r]
  /\ \A t \in Rank : entered[r] <= entered[t]
  /\ left' = [left EXCEPT ![r] = @ + 1]
  /\ UNCHANGED entered

BNext == \E r \in Rank : BEnter(r) \/ BLeave(r)

BSpec == BInit /\ [][BNext]_bvars
================================================================================
