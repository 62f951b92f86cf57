---------------------------- MODULE MCLowLatency -------------------------------
(***************************************************************************)
(* What the ranks do in the instances of LowLatency that TLC checks.       *)
(***************************************************************************)
EXTENDS LowLatency

Dispatch(to) == [kind |-> "dispatch", to |-> to]
Combine(n)   == [kind |-> "combine", of |-> n]
Clean        == [kind |-> "clean"]

OfRank(s0, s1) == [r \in Rank |-> IF r = 0 THEN s0 ELSE s1]
Tokens(seq) == [t \in 0 .. Len(seq) - 1 |-> seq[t + 1]]

Full == Dispatch(OfRank(Tokens(<<{0, 1}, {1}>>), Tokens(<<{0}>>)))
Each == Dispatch(OfRank(Tokens(<<{0, 1}>>), Tokens(<<{0}>>)))
Swap == Dispatch(OfRank(Tokens(<<{1}>>), Tokens(<<{0}>>)))
Last == Dispatch(OfRank(Tokens(<<{3}>>), Tokens(<<>>)))

Plain(n, calls) == [locals |-> n, calls |-> calls, nvlink |-> {},
                    shrink |-> FALSE, mortal |-> {}]
Shrink(calls, mortal) ==
  [Plain(1, calls) EXCEPT !.shrink = TRUE, !.mortal = mortal]
Nvlink(s) == [s EXCEPT !.nvlink = Rank \X Rank]

(* Layers; two dispatches ahead of their combines; cleaning; NVLink, with   *)
(* one and two experts to a rank; a death; cleaning after a death.          *)
CheckedRuns ==
  {Plain(1, <<Full, Combine(1), Swap, Combine(3)>>),
   Plain(1, <<Each, Swap, Combine(1), Combine(2)>>),
   Plain(1, <<Swap, Clean, Swap>>),
   Nvlink(Plain(1, <<Full, Swap, Combine(1)>>)),
   Nvlink(Plain(2, <<Last, Combine(1)>>)),
   Shrink(<<Swap, Swap, Combine(1)>>, {0}),
   Shrink(<<Swap, Clean>>, {0}),
   Nvlink(Shrink(<<Clean>>, {}))}
=============================================================================
