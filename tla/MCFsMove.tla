------------------------------ MODULE MCFsMove ------------------------------
(* Small instances of FsMove for TLC: on a case-insensitive volume "M" is    *)
(* another spelling of "m".                                                  *)
EXTENDS FsMove, TLC

FoldCase(n) == IF n = "M" THEN "m" ELSE n

\* Of a shared directory nothing is claimed from how it was when a move began, and
\* what an answered call was asked is never read again.
View ==
  <<shared, directory, pc, found, met, result,
    [s \in Servers |-> IF pc[s] = "idle" THEN <<>>
                       ELSE <<src[s], dst[s], IF shared THEN <<>> ELSE before[s]>>]>>

Symmetry == Permutations(Inodes) \cup Permutations(Servers)
=============================================================================
