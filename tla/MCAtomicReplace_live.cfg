SPECIFICATION FairSpec
CONSTANTS
  Paths = {a}
  TempNames = {t1}
  Inodes = {i1, i2, i3}
  Contents = {A}
  Partial = Partial
  NoInode = NoInode
  Attrs <- RivalAttrs
  Servers = {s1}
  Absent = Absent
  Missing = Missing
  NoMatch = NoMatch
  NoName = NoName
  NotAFile = NotAFile
  Faults = {"io"}
  ExternalOps = {"put", "remove", "chattr"}
VIEW View
PROPERTIES CallsFinish
