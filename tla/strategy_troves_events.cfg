\* What test_deposit_troves_token_successful says of the events.
SPECIFICATION Spec
CONSTANTS
  WBTC = "WBTC"
  Wrappers <- MCWrappers
  Endur <- MCEndur
  Troves <- MCTroves
  ForgeYields = "fyWBTC"
  Noon = "noonWBTC"
  AvnuExchange = "avnu"
  MIDAS_RE7_BTC = "MIDAS"
  Tokens <- MCTokens
  EthAddresses = {"e1", "e2"}
  Zero = "zero"
  Reporters = {"reporter"}
  Beneficiaries = {"self", "other"}
  Self = "self"
  Calls <- Good
  Outputs = {1}
  MaxApplies = 1
  MaxDepth = 1
  Donatable = {}
  MaxDonated = 0
INVARIANTS
  TrovesEmitsTwoDeposited
