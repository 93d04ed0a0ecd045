SPECIFICATION Spec
CONSTANTS
  w1 = w1 w2 = w2 w3 = w3 g1 = g1 g2 = g2 d1 = d1 d2 = d2
  Processes = {w1, w2, w3}
  Generations = {g1, g2}
  Trusts <- MCTrusts
  Documents = {d1, d2}
  MaxRevision = 1
  MaxLegacy = 2
  Legacy = Legacy
  None = None
SYMMETRY Symmetry
INVARIANTS HeadIsInOwnStore
PROPERTIES LegacyIsFenced OnlyActiveIsWritten
