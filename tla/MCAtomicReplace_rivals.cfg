SPECIFICATION Spec
CONSTANTS
  Paths = {a}
  TempNames = {t1, t2}
  Inodes = {i1, i2, i3}
  Contents = {A}
  Partial = Partial
  NoInode = NoInode
  Attrs <- RivalAttrs
  Servers = {s1, s2}
  Absent = Absent
  Missing = Missing
  NoMatch = NoMatch
  NoName = NoName
  NotAFile = NotAFile
  Faults = {"crash", "power"}
  ExternalOps = {}
SYMMETRY RivalSymmetry
VIEW View
INVARIANTS NeverTorn TempAccounted
