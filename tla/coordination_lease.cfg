SPECIFICATION LiveSpec
CONSTANTS
  t1 = t1 t2 = t2 t3 = t3 p1 = p1 p2 = p2
  Threads = {t1, t2, t3}
  Processes = {p1, p2}
  ProcessOf <- MCProcessOf
  SharedLocks = TRUE
  MaxNesting = 3
  None = None
INVARIANTS ExclusiveIsAlone RegistryMatchesLeases
PROPERTIES ImplementsContract EntryEnds
