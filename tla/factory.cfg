\* Keys of which some have signed, classes that work and that do not, another deployer under the same salts.
SPECIFICATION Spec
CONSTANTS
  EthAddresses = {"a", "b", "c"}
  Claims = {"a", "b"}
  Factory = "factory"
  OtherDeployers = {"other"}
  PRIMER_CLASS_HASH = "primer"
  AccountClasses = {"account", "account2"}
  OtherClasses = {"undeclared"}
  Undeclared = {"undeclared"}
  None = None
  MaxChanges = 1
CONSTRAINT OneOtherContract
INVARIANTS
  TypeOK
  NoneHalfDeployed
  EventsReplay
PROPERTIES
  ImplementsRegistry
