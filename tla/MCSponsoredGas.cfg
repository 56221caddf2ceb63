SPECIFICATION GasSpec
CONSTANTS
  Count = 3
  WalletGas <- Limits
  Payload <- Payloads
  ZeroBytes = {0, 1000, 17000, 100000}
  Overheads = {0, 1, 29999, 30000, 70000, 100000}
  MaxGas = 100000000
CHECK_DEADLOCK FALSE
INVARIANTS EveryWalletGetsItsGas EstimatesBound
