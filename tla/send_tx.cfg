CONSTANTS
  HALF = 4
  FELT = 32
  WORD = 40
  ANY_CALLER = 22
  ChainIds <- MCChainIds
  YParity <- MCYParity
  Runs = {r1, r2}
  CommandLines <- AllLines
  Chain = "SN_SEPOLIA"
  Owner <- MCOwner
  Relayers = {10, 12}
  None = None
  U64 = 16
  DEFAULT_ETH_PRIVATE_KEY = "alice"
  DEFAULT_SN_CHAIN_ID = "SN_SEPOLIA"
  DEFAULT_EVM_CHAIN_ID = 1
  DEFAULT_CALL <- MC_DEFAULT_CALL
  MaxTime = 2
SYMMETRY RunSymmetry
SPECIFICATION Spec
INVARIANTS TypeOK OnlyAsked RefusedForCause RetryExcluded
