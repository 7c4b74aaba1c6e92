\* Requests submitted while others run, sharing nonces; rotations, migrations and every way they fail.
SPECIFICATION Spec
CONSTANTS
  EthAddresses = {"a", "b", "c"}
  Zero = "zero"
  Legacy = "legacy"
  Current = "current"
  Undeclared = "undeclared"
  ISRC6_ID = "ISRC6"
  ISRC9_V2_ID = "ISRC9_V2"
  OtherInterfaces = {"other"}
  Self = "self"
  Callers = {"relayer", "anyone"}
  AnyCaller = "ANY_CALLER"
  Requests <- AllRequests
  Signed <- AllSigned
  Claims = {"a", "b"}
  QUERY_OFFSET = 8
  MaxTime = 2
  MaxDepth = 4
INVARIANTS
  TypeOK
  ClaimedOnce
  BatchesWhole
  NoncesExact
  OwnersChain
PROPERTIES
  UnderOwnerControl
