\* Two processes on one manifest file, while the Primer and the account are rebuilt and a deployment reverts.
SPECIFICATION Spec
CONSTANTS
  Processes = {p1, p2}
  None = None
  Changing = {"Primer", "StarknetEth712Account"}
  MaxVersion = 2
  MaxRebuilds = 1
  MaxReverts = 1
  MaxStops = 0
INVARIANTS
  Backed
  Coherent
SYMMETRY Symmetry
