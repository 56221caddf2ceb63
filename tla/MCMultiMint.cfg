SPECIFICATION Spec
CONSTANTS
  w1 = w1
  w2 = w2
  Wallets <- TwoWallets
  Recipient = w2
  Quantity <- OneEach
  LastPhase = 2
  Prices = {1, 2}
  Unpriced = Unpriced
  Estimates = {1, 2}
  Funds <- Purses
  MaxAttempts = 2
  MaxFetches = 2
  Shared = {w1}
CHECK_DEADLOCK FALSE
INVARIANTS MintedOncePerPhase CompletedIsForwarded ForwardingStaysFunded
PROPERTIES BatchEnds
