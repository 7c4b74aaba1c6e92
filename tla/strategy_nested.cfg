\* Three requests, nested up to three deep.
SPECIFICATION Spec
CONSTANTS
  WBTC = "WBTC"
  Wrappers <- MCWrappers
  Endur <- MCEndur
  Troves <- MCTroves
  ForgeYields = "fyWBTC"
  Noon = "noonWBTC"
  AvnuExchange = "avnu"
  MIDAS_RE7_BTC = "MIDAS"
  Tokens <- MCTokens
  EthAddresses = {"e1", "e2"}
  Zero = "zero"
  Reporters = {"reporter"}
  Beneficiaries = {"self", "other"}
  Self = "self"
  Calls <- NestedCalls
  Outputs = {0, 1}
  MaxApplies = 3
  MaxDepth = 3
  Donatable = {}
  MaxDonated = 0
INVARIANTS
  Custody
  NoStandingAllowance
  RefundFunded
