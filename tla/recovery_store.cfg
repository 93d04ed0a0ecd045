SPECIFICATION Spec
CONSTANTS
  Period <- MCPeriod
  Unreadable = Unreadable
  Absent = Absent Torn = Torn Held = Held
  CopyIds = {1, 2, 3}
  Intents = {1}
  Graphs <- Mixed
  Policies <- FewWindows
  Confirms = {FALSE}
  MaxInode = 5
  MaxFaults = 1
INVARIANTS ReadersKeepTheirCopy BaselinesStay TombstonesExplained
PROPERTIES FactsKept BootstrapCoversStore
CHECK_DEADLOCK FALSE
