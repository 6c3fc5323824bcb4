SPECIFICATION Spec
CONSTANTS
  Versions <- Contents
  Absent = Absent
  Special = Special
  MaxResponse = 14
  Reserve = 4
  Envelope = 2
  Escaped = 3
  Offsets <- SomeOffsets
  Wants <- SomeWants
  Default = Default
  Sharing = {FALSE, TRUE}
  IOFaults = TRUE
INVARIANTS TypeOK CutShortNeverWhole AloneHashIsWhole PagesAddUp
PROPERTIES OverBudgetOnlyByEscapes
