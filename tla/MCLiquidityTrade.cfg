SPECIFICATION Spec
CONSTANTS
  u1 = u1
  u2 = u2
  reserve_ = reserve_
  xkp = xkp
  atom = atom
  kusd = kusd
  uluna = uluna
  Users <- MCUsers
  Reserve = reserve_
  Base = xkp
  Others <- MCTwo
  KCoins <- MCKCoins
  Unlisted <- MCUnlisted
  Scale = 8
  TradeFee = 2
  ReserveShare = 4
  DexFeeShare <- MCShares
  Factor = 16
  MinLiquidity = 6
  Decay = 1
  MinTradeAmount = 8
  Amounts <- MCAmounts
  InitialReserves <- MCReserves
  Gifts <- MCGifts
  MaxTxs = 4
  MaxBlocks = 2
SYMMETRY MCSymmetry
INVARIANT TradePoolEmpty
CHECK_DEADLOCK FALSE
