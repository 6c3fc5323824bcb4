SPECIFICATION Spec
CONSTANTS
  Names = {"m", "M", "n"}
  Fold <- FoldCase
  Inodes = {i1, i2}
  NoInode = NoInode
  Servers = {s1, s2}
  IOFaults = TRUE
  Sharing = {FALSE, TRUE}
SYMMETRY Symmetry
VIEW View
INVARIANTS TypeOK RefusedUnchanged CaseRenameAllowed OkMeansMovedUnlinked
PROPERTIES NeverDestroys DestroysOnlyIfRaced
