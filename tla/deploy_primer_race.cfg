\* The Primer is rebuilt between the check of its class hash and the read of its artifact.
SPECIFICATION Spec
CONSTANTS
  Processes = {p1}
  None = None
  Changing = {"Primer"}
  MaxVersion = 2
  MaxRebuilds = 1
  MaxReverts = 0
  MaxStops = 0
INVARIANTS
  PrimerVerified
