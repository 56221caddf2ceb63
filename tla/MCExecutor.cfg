SPECIFICATION Spec
CONSTANTS
  w1 = w1
  w2 = w2
  d1 = d1
  d2 = d2
  s1 = s1
  NoDelegate = NoDelegate
  Wallets = {w1, w2}
  Dispatchers = {d1, d2}
  Sponsors = {s1}
  BatchIds = {1, 2}
  Ops = {1, 2, 3}
  WalletOf <- MCWalletOf
  UnitsOf <- MCUnitsOf
  ValueOf <- MCValueOf
  DeadlineOf <- MCDeadlineOf
  ShapeOf <- MCShapeOf
  Signed <- MCSigned
  InitialEther = 1
  MaxBatch = 2
  MaxDepth = 6
  MaxSupply = 3
  MaxDonation = 1
  MaxTime = 1
CONSTRAINT OneScenario
INVARIANTS TypeOK ReplayOnce OneSuccessPerWallet ForwardedIsDelivered
PROPERTIES KeepsPromise
