SPECIFICATION Spec
CONSTANTS
  key = key account = account entity = entity holding = holding
  Targets = {key, account, entity, holding}
  Operation <- MCOperation
  MaxRevision = 5
INVARIANTS LineageIsValid DecidedOnce AppliedAsJudged CorrectionInLine
CHECK_DEADLOCK FALSE
