SPECIFICATION OpenSeaSpec
CONSTANTS
  w1 = w1
  w2 = w2
  Drop = "drop"
  ChainId = 1
  Quantity <- MCQuantity
  Wallets <- MCWallets
  StageLists <- MCStageLists
  Tokens = {0, 1, 2}
  Attempts = 2
  CalldataAttempts = 2
  Prices = {1, 2}
INVARIANTS ActionsAreBound NeverAmbiguous
PROPERTIES ToldAsTheWallet RequestsEnd
