SPECIFICATION Spec
CONSTANTS
  bank = bank cash = cash own = own
  Keys = {bank, cash}
  Accounts = {own}
  Documents <- MCDocuments
  Workbooks <- MCWorkbooks
  Submissions <- MCSubmissions
  Batches <- MCBatches
  Periods = {1}
  MonthLength = 3
  Window = 1
  MaxCombo = 3
  MaxCandidates = 2
  WindowSeconds = 300
  Tolerance = 10
  MaxBindings = 2
  MaxRevision = 5
INVARIANTS PreviewPredictsBatch OneTransactionPerExternalId ProposalsConfirm SettlementIsValid PairingIsSound CloseHistoryIsValid
PROPERTIES NoTwinFromWorkbooks
CHECK_DEADLOCK FALSE
