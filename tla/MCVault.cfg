SPECIFICATION Spec
CONSTANTS
  u1 = u1
  u2 = u2
  Users <- MCUsers
  Scale = 100
  DepositAmounts <- MCDepositAmounts
  RequestAmounts <- MCRequestAmounts
  Fees <- MCFees
  LoanAmounts <- MCLoanAmounts
  Rates <- MCRates
  ProtocolShare = 50
  BorrowLimit = 90
  MinimumLoanSize = 1
  MaxTxs = 5
  MaxHeight = 3
SYMMETRY MCSymmetry
INVARIANTS TypeOK RedemptionEscrow CAssetSupply VaultCovers
PROPERTIES PriorityKept HoldersKeepValue PanicsOnlyOn
CHECK_DEADLOCK FALSE
