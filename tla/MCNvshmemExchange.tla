-------------------------- MODULE MCNvshmemExchange ----------------------------
(***************************************************************************)
(* The calls and routings on which TLC checks NvshmemExchange, for two     *)
(* ranks.                                                                  *)
(***************************************************************************)
EXTENDS NvshmemExchange

CallOnce  == <<"notified">>
CallTwice == <<"notified", "cached">>

(* n tokens on each rank s, and where they go. *)
OnEachRank(n, to(_, _)) == [s \in Rank |-> [t \in 0 .. n - 1 |-> to(s, t)]]

(* The ranks send equal numbers of tokens to a destination.  They split    *)
(* their tokens between the ranks; each sends its token 1 to both; each    *)
(* sends token 0 to rank 0 as well.                                        *)
Split(s, t) == {(s + t) % NumRanks}
Both(s, t)  == IF t = 1 THEN Rank ELSE {}
Heavy(s, t) == IF t = 1 THEN Rank ELSE {0}
EqualRoutes == {OnEachRank(2, Split), OnEachRank(2, Both), OnEachRank(2, Heavy)}

(* For regions of four slots.  Rank 0 is sent too much; rank 0 holds too   *)
(* much; rank 1 holds nothing; rank 1 is sent nothing.                     *)
ToFirst(s, t) == {0}
LimitRoutes ==
  {OnEachRank(3, ToFirst),
   [s \in Rank |-> [t \in 0 .. (IF s = 0 THEN 4 ELSE 1) |->
                      IF t < 2 THEN Split(s, t) ELSE {}]],
   [s \in Rank |-> [t \in 0 .. -s |-> Rank]],
   OnEachRank(1, ToFirst)}

CheckedRoutes == EqualRoutes \cup LimitRoutes
=============================================================================
