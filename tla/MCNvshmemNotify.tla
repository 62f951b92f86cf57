--------------------------- MODULE MCNvshmemNotify -----------------------------
(***************************************************************************)
(* The inputs on which TLC checks NvshmemNotify.                           *)
(***************************************************************************)
EXTENDS NvshmemNotify

(* One call's demand, for one expert per rank: every rank sends one token  *)
(* to each; rank s sends s + 1 tokens to its successor; the last rank      *)
(* sends two tokens to rank 0 and nobody else sends anything.              *)
ToEach  == [s \in Rank |-> [e \in Expert |-> 1]]
Shifted == [s \in Rank |-> [e \in Expert |->
              IF e = (s + 1) % NumRanks THEN s + 1 ELSE 0]]
LastOnly == [s \in Rank |-> [e \in Expert |->
              IF s = NumRanks - 1 /\ e = 0 THEN 2 ELSE 0]]

(* Calls that differ from the one before, so that a word of the wrong call *)
(* shows.                                                                  *)
ChangingDemands == {<<Shifted, ToEach>>, <<ToEach, LastOnly>>, <<LastOnly, Shifted>>}

(* Up to two tokens, so that a count may be both too small and too large.  *)
PairDemands == [Call -> [Rank -> [Expert -> 0 .. 2]]]
=============================================================================
