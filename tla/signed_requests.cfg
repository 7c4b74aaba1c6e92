CONSTANTS
  HALF = 4
  FELT = 24
  WORD = 32
  ANY_CALLER = 22
  ChainIds <- MCChainIds
  YParity <- MCYParity
  Keys = {"alice", "bob"}
  Addresses = {1, 2, 5}
  EvmChains = {1, 2}
  OutsideExecutions <- MCOutsideExecutions
  Transactions <- MCTransactions
SPECIFICATION Spec
INVARIANTS OutsideBound TransactionBound
