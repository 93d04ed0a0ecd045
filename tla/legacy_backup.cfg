SPECIFICATION Spec
CONSTANTS
  p1 = p1 p2 = p2 a = a b = b x = x y = y z = z t = t tag = tag
  None = None Absent = Absent
  Processes = {p1, p2}
  Workbooks = {a, b}
  Dated = {a, b}
  Beginnings = {None, b}
  Archivable = {a}
  RowsOf <- MCRowsOf
  Months = {1, 2}
  MonthOf <- MCMonthOf
  TableOf <- MCTableOf
  Sheets <- MCSheets
  Counterparts <- MCCounterparts
  TransferLike = {x, z}
  Edits <- MCEdits
  Order <- MCOrder
  MaxCommands = 2
  MaxBackups = 1
SYMMETRY Symmetry
INVARIANTS IngestIsAccountedFor BackupIsSnapshot
PROPERTIES OnlyUnseenIsLost
CHECK_DEADLOCK FALSE
