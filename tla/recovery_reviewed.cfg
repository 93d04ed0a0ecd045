SPECIFICATION Spec
CONSTANTS
  Period <- MCPeriod
  Unreadable = Unreadable
  Absent = Absent Torn = Torn Held = Held
  CopyIds = {1, 2, 3}
  Intents = {1}
  Graphs <- PutBack
  Policies <- ManyDaily
  Confirms = {TRUE}
  MaxInode = 4
  MaxFaults = 1
PROPERTIES ReviewedPlanIsObeyed
CHECK_DEADLOCK FALSE
