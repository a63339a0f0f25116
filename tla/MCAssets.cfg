SPECIFICATION Spec
CONSTANTS
  alice = alice
  bob = bob
  kopi = kopi
  usdc = usdc
  usdt = usdt
  kusd = kusd
  keur = keur
  ckusd = ckusd
  Users <- MCUsers
  Kopi = kopi
  Base = kopi
  Nicknames <- MCNicknames
  Funds = 3
  CoinAmounts <- MCCoinAmounts
  Fees <- MCFees
  MaxMessages = 6
  Listed <- MCListed
  GenesisParams <- MCGenesisParams
  ReferenceLists <- MCReferenceLists
  Values <- MCValues
  LimitChoices <- MCLimitChoices
  Nil = Nil
  MaxVotes = 3
  MaxSteps = 5
INVARIANTS RegistryTypeOK LookupsDefined ReferencesApart CAssetsOfGenesis FactoryTypeOK SupplyHeld NativeSupply
PROPERTY OnlyOwnerOrAdmin
CHECK_DEADLOCK FALSE
