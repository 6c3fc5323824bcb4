SPECIFICATION Spec
CONSTANTS
  Paths = {a}
  TempNames = {t1, t2}
  Inodes = {i1, i2, i3, i4}
  Contents = {A, B}
  Partial = Partial
  NoInode = NoInode
  Attrs <- PlainAttrs
  Servers = {s1, s2}
  Absent = Absent
  Missing = Missing
  NoMatch = NoMatch
  NoName = NoName
  NotAFile = NotAFile
  Faults = {}
  ExternalOps = {}
SYMMETRY RivalSymmetry
VIEW View
PROPERTIES CommitMatchesPrecondition
