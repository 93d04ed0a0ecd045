SPECIFICATION LiveSpec
CONSTANTS
  c1 = c1 c2 = c2 k1 = k1 k2 = k2 e1 = e1 e2 = e2 v0 = v0 v1 = v1 g1 = g1 g2 = g2
  Clients = {c1, c2}
  Keys = {k1}
  Entities = {e1, e2}
  Values = {v0, v1}
  Payloads <- MCPayloads
  Generations = {g1}
  Active = g1
  Baseline = 0
  InitialHeads <- MCHeads
  Named <- MCNamed
  None = None
CHECK_DEADLOCK TRUE
PROPERTIES WriterReleases RequestIsAnswered
