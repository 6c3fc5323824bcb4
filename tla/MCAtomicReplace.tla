--------------------------- MODULE MCAtomicReplace ---------------------------
(* Small instances of AtomicReplace for TLC. *)
EXTENDS AtomicReplaceRefinement, TLC

File(mode, ext, flags) == [Fresh EXCEPT !.mode = mode, !.ext = ext, !.flags = flags]

Directory == [Fresh EXCEPT !.kind = "dir", !.mode = {"r"}]

\* One file of every sort the protocol treats differently, and a directory.
AllAttrs ==
  {File({"r", "w", "s"}, {"xattr"}, {"hidden"}),
   File({"r"}, {"denyDelete"}, {}),
   File({"r", "w"}, {"denyDelete"}, {}),
   File({"r", "w"}, {}, {"locked"}),
   [Fresh EXCEPT !.owner = "other"],
   Directory}

PlainAttrs == {Fresh}

\* A plain file, one whose ACL denies delete, and a directory.
CasAttrs == {Fresh, File({"r", "w"}, {"denyDelete"}, {}), Directory}

\* A writable file whose ACL denies delete and one that may not be written.
RivalAttrs == {File({"r", "w"}, {"denyDelete"}, {}), File({"r"}, {}, {})}

\* Two inodes differ in nothing, nor do two temp names.
Symmetry == Permutations(Inodes) \cup Permutations(TempNames)

\* Nor do two servers.
RivalSymmetry == Symmetry \cup Permutations(Servers)

\* What an inode nothing denotes still holds, and what an answered call had
\* asked for, are never read again: TLC need not tell such states apart.
View ==
  <<dir, durable,
    [i \in Inodes |-> IF Free(i) THEN <<>> ELSE <<data[i], synced[i], attr[i]>>],
    [s \in Servers |-> IF pc[s] = "idle" THEN <<>> ELSE req[s]],
    pc, exists, perm, tmp, result, doubt, orphans>>
=============================================================================
