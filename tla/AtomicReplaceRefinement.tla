----------------------- MODULE AtomicReplaceRefinement -----------------------
(* A server alone on its directory implements CasFile: the many system calls *)
(* of a call map to one Commit, the rename (or the unlink of fs_delete), or  *)
(* to one Refuse; everything before and after is a stutter.                  *)
EXTENDS AtomicReplace

CONSTANT NotAFile  \* what a path holds when it names a directory

ASSUME NotAFileAssumption == NotAFile \notin Contents \cup {Absent}

Holds(entry) ==
  IF entry = NoInode THEN Absent
  ELSE IF attr[entry].kind = "file" THEN data[entry] ELSE NotAFile

\* The refused outcome is public only once the temp file is gone: an error that
\* is still being cleaned up after is a call in progress.
Status(s) ==
  IF pc[s] = "idle" THEN "idle"
  ELSE IF pc[s] # "done" THEN "pending"
  ELSE IF result[s] = "ok" THEN "ok" ELSE "refused"

Cas == INSTANCE CasFile WITH
  file <- [p \in Paths |-> Holds(dir[p])],
  saved <- [p \in Paths |-> Holds(durable[p])],
  status <- [s \in Servers |-> Status(s)],
  ask <- req

\* Every step of the protocol is a step of CasFile: an "ok" means the file went
\* from what if_sha256 names to the new content in one instant, anything else
\* means it did not change, and a loss of power leaves one of the two.
ImplementsCasFile == Cas!Spec
=============================================================================
