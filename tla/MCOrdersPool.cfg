SPECIFICATION Spec
CONSTANTS
  u1 = u1
  u2 = u2
  base = base
  atom = atom
  Users <- MCUsers
  Denoms <- MCDenoms
  Base = base
  MaxAmount = 2
  MaxOrders = 2
  MaxOrderLife = 1
  TradeAmounts <- MCTradeAmounts
  Lives <- MCLives
  Intervals <- MCIntervals
  MinTradeAmount = 1
  LastTxHeight = 2
  MaxHeight = 6
INVARIANT OrderPoolBalanced
CHECK_DEADLOCK FALSE
