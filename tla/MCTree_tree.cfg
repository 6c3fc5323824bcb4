SPECIFICATION Spec
CONSTANTS
  Names = {x, y}
  Depth = 2
  Servers = {s1, s2}
  IOFaults = TRUE
  Worlds = {"alone", "making", "shared"}
SYMMETRY Symmetry
VIEW View
INVARIANTS TypeOK CreatedOnce OkMeansDone
PROPERTIES DeletedAsAskedAlone
