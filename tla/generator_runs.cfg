CONSTANTS
  HALF = 65536
  FELT = 1048576
  WORD = 2097152
  ANY_CALLER = 60000
  ChainIds <- MCChainIds
  YParity <- MCYParity
  Selectors <- MCSelectors
  PRIVATE_KEY = "test key"
  Parameters <- MCParameters
  Committed <- MCCommitted
  ClassHashes = {90001, 90002}
  InitialFiles <- MCInitialFiles
  Runs = {r1, r2}
  MaxEdits = 2
CHECK_DEADLOCK FALSE
SYMMETRY RunSymmetry
SPECIFICATION Spec
INVARIANTS TestsPass Idempotent OutsideKept EmptyOnlyIfCut OverlapHarmless
