SPECIFICATION Spec
CONSTANTS
  Bumps = {11250, 20000}
  Multipliers = {12500}
  ManualFees <- MCManual
  Automatic = Automatic
  Flows = {"mint", "deploy"}
  Bases = {7, 40}
  Tips = {0, 3}
  Balances = {90, 230}
  Values = {0, 7}
  GasLimit = 2
  MaxAttempts = 3
  MaxWord = 1100000
  BlocksBeforeSend = 1
  BlocksPerAttempt = 1

CHECK_DEADLOCK FALSE
INVARIANTS TypeOK EveryAttemptIsFunded NeverStranded ReplacementsKeepPace
