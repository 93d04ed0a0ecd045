SPECIFICATION LiveSpec
CONSTANTS
  Period <- MCPeriod
  Unreadable = Unreadable
  Absent = Absent Torn = Torn Held = Held
  CopyIds = {1, 2}
  Intents = {1}
  Graphs <- Growing
  Policies <- NoWindows
  Confirms = {FALSE}
  MaxInode = 4
  MaxFaults = 2
PROPERTIES CleanupIsResumed
CHECK_DEADLOCK FALSE
