------------------------------- MODULE MCTree -------------------------------
(* Small instances of Tree for TLC: one or two names, paths of up to Depth   *)
(* of them.                                                                  *)
EXTENDS Tree, TLC

\* What an answered call was about is never read again.
View ==
  <<world, kind, pc, result,
    [s \in Servers |-> IF pc[s] = "idle" THEN <<>>
                       ELSE <<op[s], target[s], at[s], created[s]>>]>>

Symmetry == Permutations(Servers) \cup Permutations(Names)
=============================================================================
