SPECIFICATION Spec
CONSTANTS
  u1 = u1
  u2 = u2
  xkp = xkp
  atom = atom
  Users <- MCUsers
  Denoms <- MCDenoms
  Base = xkp
  InitialCollateral <- MCInitialCollateral
  InitialRatios <- MCInitialRatios
  VaultFunds <- MCVaultFunds
  Scale = 100
  Amounts <- MCAmounts
  LoanAmounts <- MCLoanAmounts
  Ratios <- MCRatios
  Ltvs <- MCLtvs
  Caps <- MCCaps
  Yields <- MCYields
  Depths <- MCDepths
  Unused <- MCUnused
  Rates <- MCRates
  Discount = 90
  BorrowLimit = 90
  MinimumLoanSize = 1
  MinTradeAmount = 1
  MaxTxs = 6
  MaxBlocks = 1
PROPERTY SoldCollateralIsPaid
CHECK_DEADLOCK FALSE
