\* Requests of every kind, refused ones too, tokens lying in the contract, generous and stingy strategies.
SPECIFICATION Spec
CONSTANTS
  WBTC = "WBTC"
  Wrappers <- MCWrappers
  Endur <- MCEndur
  Troves <- MCTroves
  ForgeYields = "fyWBTC"
  Noon = "noonWBTC"
  AvnuExchange = "avnu"
  MIDAS_RE7_BTC = "MIDAS"
  Tokens <- MCTokens
  EthAddresses = {"e1", "e2"}
  Zero = "zero"
  Reporters = {"reporter"}
  Beneficiaries = {"self", "other"}
  Self = "self"
  Calls <- AllCalls
  Outputs = {0, 1, 3}
  MaxApplies = 2
  MaxDepth = 2
  Donatable = {"WBTC", "MIDAS"}
  MaxDonated = 1
INVARIANTS
  TypeOK
  EventsReconcile
  OneOutcome
  OrdersBacked
  SlippageRespected
  OwnersDeployed
PROPERTIES
  FundsPassThrough
  AllOrNothing
