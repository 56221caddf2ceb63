SPECIFICATION Spec
CONSTANTS
  e1 = e1
  e2 = e2
  Accounts = {1, 2}
  Holdings <- MCHoldings
  Jobs = {1, 2}
  Kinds <- MCKinds
  Selected <- MCSelected
  Endpoints = {e1, e2}
  SendOnly = {}
  Price = 1
  GasCosts <- MCGasCosts
  SpendCap = 5
INVARIANTS SpendStaysInCap ReportIsTrue
PROPERTIES JobsEnd
