----------------------------- MODULE CountMatrix -------------------------------
(***************************************************************************)
(* The count arithmetic that the notify kernels share.  counts[s][d] is    *)
(* the number of tokens source rank s sends to destination rank d; a       *)
(* prefix matrix holds, for each <<s, d>>, how many tokens the ranks 0..s  *)
(* send to d.                                                              *)
(***************************************************************************)
EXTENDS Integers, Functions

CONSTANT NumRanks

ASSUME NumRanksAssumption == NumRanks \in Nat \ {0}

Rank == 0 .. NumRanks - 1
Cell == Rank \X Rank

PrefixMatrix(counts) ==
  [c \in Cell |-> SumFunctionOnSet([s \in Rank |-> counts[s][c[2]]], 0 .. c[1])]

(* The tokens of s for d, read back from a prefix matrix. *)
CountIn(prefix, s, d) ==
  prefix[<<s, d>>] - (IF s = 0 THEN 0 ELSE prefix[<<s - 1, d>>])

(* What gather_counts of the NVSHMEM path may leave on rank r: the         *)
(* increment it records for source s is what s sends, or, where s has      *)
(* already overwritten the word with its own running sum, what rank 0      *)
(* sends.  Rank r itself has always overwritten its own.                   *)
GatherOutcome(m, counts, r) ==
  \A s, d \in Rank :
    CountIn(m, s, d) \in (IF s = r THEN {} ELSE {counts[s][d]})
                           \cup {counts[0][d]}

(* The matrices that are such an outcome: cells as sent, or as rank 0's. *)
GatherOutcomes(counts, r) ==
  LET mixed == {[s \in Rank |-> [d \in Rank |->
                   counts[IF <<s, d>> \in overwritten THEN 0 ELSE s][d]]] :
                  overwritten \in SUBSET Cell}
  IN  {m \in {PrefixMatrix(c) : c \in mixed} : GatherOutcome(m, counts, r)}

AlignUp(n, alignment) == ((n + alignment - 1) \div alignment) * alignment
=============================================================================
