SPECIFICATION Spec
CONSTANTS
  Jobs = {1, 2}
  Windows <- MCWindows
  Absent = Absent
  MaxAttempts = 2
  WakeLead = 1
  HotLead = 0
  NodeLag = 1
  MaxTime = 2
  MaxNonce = 1

CHECK_DEADLOCK FALSE
INVARIANTS TypeOK MintedAtMostOnce SuspendedIsUnsent OutcomeMatchesChain
PROPERTIES LaunchSettles
