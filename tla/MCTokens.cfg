SPECIFICATION Spec
CONSTANTS
  alice = alice
  bob = bob
  carol = carol
  Accounts <- MCAccounts
  MaxTokens = 2
  MaxBalance = 4
  Amounts <- UpToTwo
  SelfSettle = FALSE
INVARIANTS TypeOK SplitConsistent SupplyConserved FundsSpendable
PROPERTIES PaidFromFree
