----------------------------- MODULE MCMoeCounter ------------------------------
(***************************************************************************)
(* The call sequences on which TLC checks MoeCounter.                      *)
(***************************************************************************)
EXTENDS MoeCounter

CallModes(n) == [1 .. n -> {"wait", "worst"}]

(* Three internode calls of any kind, or three intranode calls of which    *)
(* none waits after one that did not.                                      *)
CheckedPrograms ==
  [guarded : {TRUE}, mode : CallModes(3)]
    \cup [guarded : {FALSE},
          mode : {m \in CallModes(3) :
                    \A i \in 1 .. 2 : m[i] = "worst" => m[i + 1] = "worst"}]

MixedPrograms == {[guarded |-> FALSE, mode |-> <<"worst", "wait">>]}
=============================================================================
