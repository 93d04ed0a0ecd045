SPECIFICATION Spec
CONSTANTS
  c1 = c1 c2 = c2 k1 = k1 k2 = k2 e1 = e1 e2 = e2 v0 = v0 v1 = v1 g1 = g1 g2 = g2
  Clients = {c1, c2}
  Keys = {k1, k2}
  Entities = {e1, e2}
  Values = {v0, v1}
  Payloads <- MCPayloads
  Generations = {g1, g2}
  Active = g1
  Baseline = 2
  InitialHeads <- MCHeads
  Named <- MCNamed
  None = None
SYMMETRY Symmetry
CHECK_DEADLOCK TRUE
INVARIANTS HistoryExplainsHeads AtMostOncePerKey PublishedTogether ConfirmedViewIsCurrent HeadsHaveObjects ReceiptIsPublished
PROPERTIES ImplementsLedger
