\* One operator reruns the command over runs that were killed, reverts and rebuilds, until it is done.
SPECIFICATION FairSpec
CONSTANTS
  Processes = {p1}
  None = None
  Changing = {"Primer", "StarknetEth712Account", "AccountFactory"}
  MaxVersion = 2
  MaxRebuilds = 3
  MaxReverts = 1
  MaxStops = 2
INVARIANTS
  TypeOK
  FewFactories
PROPERTIES
  HistoryKept
  Completes
