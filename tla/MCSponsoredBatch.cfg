SPECIFICATION Spec
CONSTANTS
  w1 = w1
  w2 = w2
  j1 = j1
  j2 = j2
  Wallets = {w1, w2}
  Sponsor = w2
  Recipient = Recipient
  Jobs = {j1, j2}
  Delegated = {w1}
  Shared = {w1, w2}
SYMMETRY EitherJob
CHECK_DEADLOCK FALSE
INVARIANTS AuthorizationsApply ReportsAreTrue ClearedStaysClear
