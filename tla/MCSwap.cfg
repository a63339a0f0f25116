SPECIFICATION Spec
CONSTANTS
  xkp = xkp
  kusd = kusd
  keur = keur
  usdc = usdc
  usdt = usdt
  eure = eure
  Base = xkp
  KCoins <- MCKCoins
  Fiat <- MCFiat
  InitialRefs <- MCInitialRefs
  InitialPools <- MCInitialPools
  InitialSupply = 20
  InitialMaxSupply = 28
  InitialShare = 5
  GenesisBase = 100
  Scale = 20
  TradeFee = 1
  ReserveShare = 10
  StakingShares <- MCStakingShares
  MaxSupplies <- MCMaxSupplies
  MaxMintAmount = 4
  MaxBurnAmount = 4
  MinTradeAmount = 1
  Depths <- MCDepths
  Leftovers <- MCLeftovers
  Amounts <- MCAmounts
  Shifts <- MCShifts
  MaxTxs = 2
  MaxBlocks = 2
INVARIANTS TypeOK SwapBooks RewardsBounded
PROPERTIES InflationBounded SupplyCap
CHECK_DEADLOCK FALSE
