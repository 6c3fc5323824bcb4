SPECIFICATION Spec
CONSTANTS
  Versions <- Newlines
  Absent = Absent
  Special = Special
  MaxResponse = 14
  Reserve = 4
  Envelope = 2
  Escaped = 3
  Offsets <- SomeOffsets
  Wants <- SomeWants
  Default = Default
  Sharing = {FALSE}
  IOFaults = FALSE
INVARIANTS NeverOverBudget
