SPECIFICATION Spec
CONSTANTS
  Absent = Absent Unreadable = Unreadable
  x = x c1 = c1 c2 = c2
  Commits = {x}
  Contents = {0, 1}
  CopyIds = {c1, c2}
  Attempts = {1, 2}
  Times = {1, 2}
  SteadyClock = TRUE
  CanCapture = TRUE
  Observed = TRUE
  MaxFaults = 1
SYMMETRY AnyOrder
INVARIANTS FailureKeepsSuccess SuccessIsReal ReportIsFresh
CHECK_DEADLOCK FALSE
