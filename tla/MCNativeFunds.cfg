SPECIFICATION FundsSpec
CONSTANTS
  Accounts = {0, 1, 2}
  Holdings <- MCHoldings
  Payer = 0
  Recipients = {2, 9}
  Amount = 2
  Bases = {1, 2}
  BatchGas = 2
  Attempts = 3
  Foreigners = 1
INVARIANTS FundedAtMostOnce SummaryIsTrue AttemptsAreFunded
PROPERTIES CommandEnds
