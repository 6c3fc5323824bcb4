SPECIFICATION Spec
CONSTANTS
  Paths = {a}
  TempNames = {t1, t2}
  Inodes = {i1, i2, i3}
  Contents = {A, B}
  Partial = Partial
  NoInode = NoInode
  Attrs <- AllAttrs
  Servers = {s1}
  Absent = Absent
  Missing = Missing
  NoMatch = NoMatch
  NoName = NoName
  NotAFile = NotAFile
  Faults = {"io", "crash", "power"}
  ExternalOps = {}
SYMMETRY Symmetry
VIEW View
INVARIANTS TypeOK NeverTorn TempAccounted RefusalNamesCause
PROPERTIES VisibleImmutable AttrsPreserved ReadOnlyKept ImplementsCasFile
