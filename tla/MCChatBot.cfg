\* Totals offered one and two above the current one, two snipes at once.
CONSTANTS
  MaxWallets = 4
  Increments = {1, 2}
  RecoveryCount = 2
  MaxTasks = 2
SPECIFICATION Spec
INVARIANTS TypeOK ArmedIsComplete
PROPERTIES WalletsOnlyGrow
