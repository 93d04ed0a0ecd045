SPECIFICATION LiveSpec
CONSTANTS
  Absent = Absent Unreadable = Unreadable
  x = x c1 = c1 c2 = c2 c3 = c3
  Commits = {x}
  Contents = {0, 1}
  CopyIds = {c1, c2, c3}
  Attempts = {1, 2, 3}
  Times = {1}
  SteadyClock = FALSE
  CanCapture = TRUE
  Observed = FALSE
  MaxFaults = 1
PROPERTIES Delivers
CHECK_DEADLOCK FALSE
