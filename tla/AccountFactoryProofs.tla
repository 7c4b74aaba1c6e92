------------------------ MODULE AccountFactoryProofs ------------------------
(***************************************************************************)
(* The factory for every value of the constants: no account is left half   *)
(* deployed, the events are the history, and the factory implements        *)
(* AccountRegistry.                                                        *)
(*                                                                         *)
(* All need to know how far a deployment under way has come (Underway),    *)
(* and the refinement that the Primer at a factory's address remembers the *)
(* factory, so that no other deployer replaces its class (OwnPrimers).     *)
(***************************************************************************)
EXTENDS AccountFactoryProperties, FiniteSums, TLAPS

CallAddress == eth_address_to_account(call.eth_address)

Underway ==
  call # Idle =>
    /\ call.entry[CallAddress].class = None
    /\ \A a \in Addresses : a # CallAddress => contracts[a] = call.entry[a]
    /\ contracts[CallAddress].deployer_address = Factory
    /\ call.stage = "deployed" =>
         contracts[CallAddress].class = PRIMER_CLASS_HASH /\ contracts[CallAddress].eth_address = None
    /\ call.stage = "replaced" =>
         contracts[CallAddress].class = account_class_hash /\ contracts[CallAddress].eth_address = None
    /\ call.stage = "initialized" =>
         /\ contracts[CallAddress].class = account_class_hash
         /\ contracts[CallAddress].eth_address = call.eth_address
         /\ call.signer = call.eth_address

OwnPrimers ==
  \A e \in EthAddresses : AccountOf(e).class # None => AccountOf(e).deployer_address = Factory

\* The inductive invariant.
IInv == TypeOK /\ Underway /\ OwnPrimers /\ NoneHalfDeployed

-----------------------------------------------------------------------------
LEMMA KeyAddress ==
  ASSUME NEW e \in EthAddresses
  PROVE  eth_address_to_account(e) \in Addresses
BY DEF eth_address_to_account, compute_contract_address, Addresses, Deployers

LEMMA KeysApart ==
  ASSUME NEW e \in EthAddresses, NEW f \in EthAddresses,
         eth_address_to_account(e) = eth_address_to_account(f)
  PROVE  e = f
BY DEF eth_address_to_account, compute_contract_address

LEMMA UnderCall ==
  ASSUME TypeOK, call # Idle
  PROVE  /\ call \in DeployCall
         /\ CallAddress \in Addresses
         /\ call.entry \in [Addresses -> Contract]
         /\ Committed = call.entry
<1>1. call \in DeployCall
  BY DEF TypeOK
<1>2. call.eth_address \in EthAddresses /\ call.entry \in [Addresses -> Contract]
  BY <1>1 DEF DeployCall
<1>3. CallAddress \in Addresses
  BY <1>2, KeyAddress DEF CallAddress
<1>4. QED
  BY <1>1, <1>2, <1>3 DEF Committed

LEMMA NoneApart ==
  /\ None \notin ClassHashes /\ None \notin EthAddresses /\ None \notin Deployers
  /\ PRIMER_CLASS_HASH \in ClassHashes /\ AccountClasses \subseteq ClassHashes
  /\ Factory \in Deployers
BY FactoryAssumption DEF ClassHashes, Deployers

LEMMA PrimerTyped ==
  ASSUME NEW d \in Deployers
  PROVE  /\ Primer(d) \in Contract
         /\ Primer(d).class = PRIMER_CLASS_HASH
         /\ Primer(d).deployer_address = d
         /\ Primer(d).eth_address = None
BY NoneApart DEF Primer, Nothing, Contract

\* A contract stays one when its class or its owner is replaced.
LEMMA UpdateTyped ==
  ASSUME NEW f \in [Addresses -> Contract], NEW a \in Addresses
  PROVE  /\ \A c \in ClassHashes : [f EXCEPT ![a].class = c] \in [Addresses -> Contract]
         /\ \A e \in EthAddresses : [f EXCEPT ![a].eth_address = e] \in [Addresses -> Contract]
<1>1. f[a] \in Contract
  OBVIOUS
<1>2. \A c \in ClassHashes : [f[a] EXCEPT !.class = c] \in Contract
  BY <1>1 DEF Contract
<1>3. \A e \in EthAddresses : [f[a] EXCEPT !.eth_address = e] \in Contract
  BY <1>1 DEF Contract
<1>4. QED
  BY <1>2, <1>3


-----------------------------------------------------------------------------
(* One lemma for each way a step changes the contracts.                     *)

\* A step outside a deployment changes contracts, but none of the factory's, or
\* owns them as before.
LEMMA OutsideSteps ==
  ASSUME IInv, call = Idle, call' = call, contracts' \in [Addresses -> Contract],
         account_class_hash' = account_class_hash, log' = log,
         \A e \in EthAddresses :
           LET a == eth_address_to_account(e)
           IN \/ contracts'[a] = contracts[a]
              \/ /\ contracts[a].class # None
                 /\ contracts'[a].deployer_address = contracts[a].deployer_address
                 /\ contracts'[a].eth_address # None
  PROVE  IInv'
<1>1. TypeOK'
  BY DEF IInv, TypeOK
<1>2. Underway'
  BY DEF Underway
<1>3. Committed = contracts /\ Committed' = contracts'
  BY DEF Committed
<1>4. OwnPrimers'
  BY <1>3 DEF IInv, OwnPrimers, AccountOf
<1>5. NoneHalfDeployed'
  BY <1>3 DEF IInv, NoneHalfDeployed, AccountOf
<1>6. QED
  BY <1>1, <1>2, <1>4, <1>5 DEF IInv

\* A step inside a deployment that goes on: nothing is committed.
LEMMA InsideSteps ==
  ASSUME IInv, call # Idle, call' # Idle, call' \in DeployCall, call'.entry = call.entry,
         contracts' \in [Addresses -> Contract],
         account_class_hash' = account_class_hash, log' = log, Underway'
  PROVE  IInv'
<1>1. TypeOK'
  BY DEF IInv, TypeOK
<1>2. Committed' = Committed
  BY DEF Committed
<1>3. OwnPrimers' /\ NoneHalfDeployed'
  BY <1>2 DEF IInv, OwnPrimers, NoneHalfDeployed, AccountOf
<1>4. QED
  BY <1>1, <1>3 DEF IInv

LEMMA StagesApart == \A c \in DeployCall : c # Idle
BY DEF DeployCall, Idle

LEMMA InitInvariant == Init => IInv
<1> SUFFICES ASSUME Init PROVE IInv
  OBVIOUS
<1>1. Nothing \in Contract /\ Nothing.class = None
  BY DEF Nothing, Contract
<1>2. contracts \in [Addresses -> Contract]
  BY <1>1 DEF Init
<1>3. TypeOK
  BY <1>2 DEF Init, TypeOK
<1>4. \A e \in EthAddresses : AccountOf(e).class = None
  BY <1>1, KeyAddress DEF Init, AccountOf, Committed
<1>5. QED
  BY <1>3, <1>4 DEF IInv, Underway, OwnPrimers, NoneHalfDeployed, Init

LEMMA SetClassInvariant ==
  ASSUME IInv, NEW c \in ClassHashes, set_account_class_hash(c)
  PROVE  IInv'
<1>1. call = Idle /\ call' = Idle /\ contracts' = contracts
  BY DEF set_account_class_hash
<1>2. log' \in Seq(Event)
  <2>1. [type |-> "AccountClassHashChanged", previous_class_hash |-> account_class_hash,
         new_class_hash |-> c] \in Event
    BY DEF IInv, TypeOK, Event
  <2>2. QED
    BY <2>1 DEF IInv, TypeOK, set_account_class_hash
<1>3. TypeOK'
  BY <1>1, <1>2 DEF IInv, TypeOK, set_account_class_hash
<1>4. Committed' = Committed
  BY <1>1 DEF Committed
<1>5. OwnPrimers' /\ NoneHalfDeployed'
  BY <1>4 DEF IInv, OwnPrimers, NoneHalfDeployed, AccountOf
<1>6. QED
  BY <1>1, <1>3, <1>5 DEF IInv, Underway

LEMMA DeployInvariant ==
  ASSUME IInv, NEW e \in EthAddresses, NEW signer \in Claims, deploy_account(e, signer)
  PROVE  IInv'
<1> DEFINE addr == eth_address_to_account(e)
<1>1. addr \in Addresses
  BY KeyAddress
<1>2. contracts \in [Addresses -> Contract]
  BY DEF IInv, TypeOK
<1>3. /\ call = Idle /\ contracts[addr].class = None
      /\ contracts' = [contracts EXCEPT ![addr] = Primer(Factory)]
      /\ call' = [stage |-> "deployed", eth_address |-> e, signer |-> signer, entry |-> contracts]
      /\ account_class_hash' = account_class_hash /\ log' = log
  BY DEF deploy_account, is_deployed
<1>4. call' \in DeployCall /\ call' # Idle
  BY <1>2, <1>3, StagesApart DEF DeployCall
<1>5. contracts' \in [Addresses -> Contract]
  BY <1>2, <1>3, PrimerTyped, NoneApart
<1>6. Committed = contracts /\ Committed' = contracts
  BY <1>3, <1>4 DEF Committed
<1>7. Underway'
  <2>1. CallAddress' = addr
    BY <1>3 DEF CallAddress, eth_address_to_account, compute_contract_address
  <2>2. contracts'[addr] = Primer(Factory)
    BY <1>1, <1>2, <1>3
  <2>3. QED
    BY <1>1, <1>2, <1>3, <2>1, <2>2, PrimerTyped, NoneApart DEF Underway
<1>8. OwnPrimers' /\ NoneHalfDeployed'
  BY <1>6 DEF IInv, OwnPrimers, NoneHalfDeployed, AccountOf
<1>9. TypeOK'
  BY <1>3, <1>4, <1>5 DEF IInv, TypeOK
<1>10. QED
  BY <1>7, <1>8, <1>9 DEF IInv

LEMMA ReplacesInvariant ==
  ASSUME IInv, DeployReplacesClass
  PROVE  IInv'
<1>1. call # Idle /\ call.stage = "deployed"
  BY DEF DeployReplacesClass, Idle
<1>2. /\ call \in DeployCall /\ CallAddress \in Addresses
      /\ contracts \in [Addresses -> Contract] /\ account_class_hash \in ClassHashes
  BY <1>1, UnderCall DEF IInv, TypeOK
<1>3. /\ contracts' = [contracts EXCEPT ![CallAddress].class = account_class_hash]
      /\ call' = [call EXCEPT !.stage = "replaced"]
      /\ account_class_hash' = account_class_hash /\ log' = log
  BY DEF DeployReplacesClass, set_class_hash, CallAddress
<1>4. /\ call' \in DeployCall /\ call'.entry = call.entry
      /\ call'.eth_address = call.eth_address /\ call'.stage = "replaced"
  BY <1>2, <1>3 DEF DeployCall
<1>5. contracts' \in [Addresses -> Contract]
  BY <1>2, <1>3, UpdateTyped
<1>6. CallAddress' = CallAddress
  BY <1>4 DEF CallAddress, eth_address_to_account, compute_contract_address
<1>7. /\ contracts'[CallAddress].class = account_class_hash
      /\ contracts'[CallAddress].deployer_address = contracts[CallAddress].deployer_address
      /\ contracts'[CallAddress].eth_address = contracts[CallAddress].eth_address
      /\ \A a \in Addresses : a # CallAddress => contracts'[a] = contracts[a]
  <2>1. contracts[CallAddress] \in Contract
    BY <1>2
  <2>2. contracts'[CallAddress] = [contracts[CallAddress] EXCEPT !.class = account_class_hash]
    BY <1>2, <1>3
  <2>3. QED
    BY <1>2, <1>3, <2>1, <2>2 DEF Contract
<1>8. Underway'
  BY <1>1, <1>3, <1>4, <1>6, <1>7 DEF IInv, Underway
<1>9. QED
  BY <1>1, <1>3, <1>4, <1>5, <1>8, StagesApart, InsideSteps

LEMMA InitializesInvariant ==
  ASSUME IInv, DeployInitializes
  PROVE  IInv'
<1>1. call # Idle /\ call.stage = "replaced"
  BY DEF DeployInitializes, Idle
<1>2. /\ call \in DeployCall /\ CallAddress \in Addresses
      /\ contracts \in [Addresses -> Contract] /\ call.eth_address \in EthAddresses
  BY <1>1, UnderCall DEF IInv, TypeOK, DeployCall
<1>3. /\ contracts' = [contracts EXCEPT ![CallAddress].eth_address = call.eth_address]
      /\ call' = [call EXCEPT !.stage = "initialized"]
      /\ call.signer = call.eth_address
      /\ account_class_hash' = account_class_hash /\ log' = log
  BY DEF DeployInitializes, initialize, assert_valid_owner, CallAddress
<1>4. /\ call' \in DeployCall /\ call'.entry = call.entry /\ call'.signer = call.signer
      /\ call'.eth_address = call.eth_address /\ call'.stage = "initialized"
  BY <1>2, <1>3 DEF DeployCall
<1>5. contracts' \in [Addresses -> Contract]
  BY <1>2, <1>3, UpdateTyped
<1>6. CallAddress' = CallAddress
  BY <1>4 DEF CallAddress, eth_address_to_account, compute_contract_address
<1>7. /\ contracts'[CallAddress].eth_address = call.eth_address
      /\ contracts'[CallAddress].deployer_address = contracts[CallAddress].deployer_address
      /\ contracts'[CallAddress].class = contracts[CallAddress].class
      /\ \A a \in Addresses : a # CallAddress => contracts'[a] = contracts[a]
  <2>1. contracts[CallAddress] \in Contract
    BY <1>2
  <2>2. contracts'[CallAddress] = [contracts[CallAddress] EXCEPT !.eth_address = call.eth_address]
    BY <1>2, <1>3
  <2>3. QED
    BY <1>2, <1>3, <2>1, <2>2 DEF Contract
<1>8. Underway'
  BY <1>1, <1>3, <1>4, <1>6, <1>7 DEF IInv, Underway
<1>9. QED
  BY <1>1, <1>3, <1>4, <1>5, <1>8, StagesApart, InsideSteps

\* What the accounts are after a deployment: those of before and the new one.
LEMMA AfterDeployment ==
  ASSUME IInv, call # Idle, NEW e \in EthAddresses
  PROVE  IF e = call.eth_address
         THEN contracts[eth_address_to_account(e)] = contracts[CallAddress]
         ELSE contracts[eth_address_to_account(e)] = call.entry[eth_address_to_account(e)]
<1>1. call.eth_address \in EthAddresses
  BY UnderCall DEF IInv, DeployCall
<1>2. CASE e = call.eth_address
  BY <1>2 DEF CallAddress
<1>3. CASE e # call.eth_address
  <2>1. eth_address_to_account(e) # CallAddress
    BY <1>1, <1>3, KeysApart DEF CallAddress
  <2>2. eth_address_to_account(e) \in Addresses
    BY KeyAddress
  <2>3. QED
    BY <1>3, <2>1, <2>2 DEF IInv, Underway
<1>4. QED
  BY <1>2, <1>3

LEMMA ReturnsInvariant ==
  ASSUME IInv, DeployReturns
  PROVE  IInv'
<1>1. call # Idle /\ call.stage = "initialized"
  BY DEF DeployReturns, Idle
<1>2. /\ call \in DeployCall /\ call.entry \in [Addresses -> Contract]
      /\ Committed = call.entry
  BY <1>1, UnderCall DEF IInv
<1>3. call.eth_address \in EthAddresses /\ call.signer \in Claims
  BY <1>2 DEF DeployCall
<1>4. /\ call' = Idle /\ contracts' = contracts /\ account_class_hash' = account_class_hash
      /\ log' = Append(log, [type |-> "AccountDeployed", account_class_hash |-> account_class_hash,
                             eth_address |-> call.eth_address])
  BY DEF DeployReturns, AnnouncedClass
<1>5. Committed' = contracts
  BY <1>4 DEF Committed
<1>6. TypeOK'
  <2>1. [type |-> "AccountDeployed", account_class_hash |-> account_class_hash,
         eth_address |-> call.eth_address] \in Event
    BY <1>3 DEF IInv, TypeOK, Event
  <2>2. QED
    BY <1>4, <2>1 DEF IInv, TypeOK
<1>7. ASSUME NEW e \in EthAddresses, AccountOf(e)'.class # None
      PROVE  /\ AccountOf(e)'.deployer_address = Factory
             /\ e \in Claims /\ AccountOf(e)'.eth_address # None
  <2>1. AccountOf(e)' = contracts[eth_address_to_account(e)]
    BY <1>5 DEF AccountOf, eth_address_to_account, compute_contract_address
  <2>2. CASE e = call.eth_address
    <3>1. AccountOf(e)' = contracts[CallAddress]
      BY <1>1, <2>1, <2>2, AfterDeployment
    <3>2. QED
      BY <1>1, <1>3, <2>2, <3>1, NoneApart DEF IInv, Underway
  <2>3. CASE e # call.eth_address
    <3>1. AccountOf(e)' = AccountOf(e)
      BY <1>1, <1>2, <2>1, <2>3, AfterDeployment DEF AccountOf
    <3>2. QED
      BY <1>7, <3>1 DEF IInv, OwnPrimers, NoneHalfDeployed
  <2>4. QED
    BY <2>2, <2>3
<1>8. OwnPrimers' /\ NoneHalfDeployed'
  BY <1>7 DEF OwnPrimers, NoneHalfDeployed
<1>9. QED
  BY <1>4, <1>6, <1>8 DEF IInv, Underway

LEMMA RevertsInvariant ==
  ASSUME IInv, DeployReverts
  PROVE  IInv'
<1>1. call # Idle
  BY DEF DeployReverts, Idle
<1>2. call.entry \in [Addresses -> Contract] /\ Committed = call.entry
  BY <1>1, UnderCall DEF IInv
<1>3. /\ call' = Idle /\ contracts' = call.entry
      /\ account_class_hash' = account_class_hash /\ log' = log
  BY DEF DeployReverts, RolledBack
<1>4. Committed' = Committed
  BY <1>2, <1>3 DEF Committed
<1>5. TypeOK'
  BY <1>2, <1>3 DEF IInv, TypeOK
<1>6. OwnPrimers' /\ NoneHalfDeployed'
  BY <1>4 DEF IInv, OwnPrimers, NoneHalfDeployed, AccountOf
<1>7. QED
  BY <1>3, <1>5, <1>6 DEF IInv, Underway

-----------------------------------------------------------------------------
(* Steps outside a deployment.  Those of the other deployers leave the     *)
(* factory's accounts as they are; the owners' change owner or class.      *)

SameAccounts == \A e \in EthAddresses :
  contracts'[eth_address_to_account(e)] = contracts[eth_address_to_account(e)]

Outside ==
  /\ call = Idle /\ call' = call
  /\ contracts' \in [Addresses -> Contract]
  /\ account_class_hash' = account_class_hash /\ log' = log

LEMMA OtherDeploysStep ==
  ASSUME IInv, NEW d \in OtherDeployers, NEW e \in EthAddresses, OtherDeploys(d, e)
  PROVE  Outside /\ SameAccounts
<1> DEFINE addr == compute_contract_address(d, e)
<1>1. d \in Deployers /\ d # Factory
  BY FactoryAssumption DEF Deployers
<1>2. addr \in Addresses
  BY <1>1 DEF compute_contract_address, Addresses
<1>3. /\ contracts \in [Addresses -> Contract]
      /\ contracts' = [contracts EXCEPT ![addr] = Primer(d)]
  BY DEF IInv, TypeOK, OtherDeploys
<1>4. Outside
  BY <1>1, <1>3, PrimerTyped DEF Outside, OtherDeploys
<1>5. \A f \in EthAddresses : eth_address_to_account(f) # addr
  BY <1>1 DEF eth_address_to_account, compute_contract_address
<1>6. QED
  BY <1>3, <1>4, <1>5, KeyAddress DEF SameAccounts

LEMMA OtherReplacesStep ==
  ASSUME IInv, NEW d \in OtherDeployers, NEW a \in Addresses, NEW c \in ClassHashes,
         OtherReplacesClass(d, a, c)
  PROVE  Outside /\ SameAccounts
<1>1. d # Factory /\ contracts \in [Addresses -> Contract]
  BY FactoryAssumption DEF IInv, TypeOK
<1>2. /\ call = Idle /\ contracts[a].class = PRIMER_CLASS_HASH
      /\ contracts[a].deployer_address = d
      /\ contracts' = [contracts EXCEPT ![a].class = c]
  BY DEF OtherReplacesClass, set_class_hash
<1>3. Outside
  BY <1>1, <1>2, UpdateTyped DEF Outside, OtherReplacesClass
<1>4. \A f \in EthAddresses : eth_address_to_account(f) # a
  <2> SUFFICES ASSUME NEW f \in EthAddresses, eth_address_to_account(f) = a PROVE FALSE
    OBVIOUS
  <2>1. AccountOf(f) = contracts[a]
    BY <1>2 DEF AccountOf, Committed
  <2>2. AccountOf(f).deployer_address = Factory
    BY <1>2, <2>1, NoneApart DEF IInv, OwnPrimers
  <2>3. QED
    BY <1>1, <1>2, <2>1, <2>2
<1>5. QED
  BY <1>1, <1>2, <1>3, <1>4, KeyAddress DEF SameAccounts

LEMMA AnyoneInitializesStep ==
  ASSUME IInv, NEW a \in Addresses, NEW e \in Claims, AnyoneInitializes(a, e)
  PROVE  Outside /\ SameAccounts
<1>1. contracts \in [Addresses -> Contract] /\ e \in EthAddresses
  BY FactoryAssumption DEF IInv, TypeOK
<1>2. /\ call = Idle /\ contracts[a].class \in AccountClasses
      /\ contracts[a].eth_address = None
      /\ contracts' = [contracts EXCEPT ![a].eth_address = e]
  BY DEF AnyoneInitializes, initialize
<1>3. Outside
  BY <1>1, <1>2, UpdateTyped DEF Outside, AnyoneInitializes
<1>4. \A f \in EthAddresses : eth_address_to_account(f) # a
  <2> SUFFICES ASSUME NEW f \in EthAddresses, eth_address_to_account(f) = a PROVE FALSE
    OBVIOUS
  <2>1. AccountOf(f) = contracts[a]
    BY <1>2 DEF AccountOf, Committed
  <2>2. AccountOf(f).class # None
    BY <1>2, <2>1, NoneApart
  <2>3. QED
    BY <1>2, <2>1, <2>2 DEF IInv, NoneHalfDeployed
<1>5. QED
  BY <1>1, <1>2, <1>3, <1>4, KeyAddress DEF SameAccounts

\* What an owner's step does to the one account it concerns.
Operated(a) ==
  /\ contracts[a].class # None /\ contracts'[a].class \in ClassHashes
  /\ contracts'[a].deployer_address = contracts[a].deployer_address
  /\ contracts'[a].eth_address \in EthAddresses
  /\ \/ contracts'[a].class = contracts[a].class
     \/ contracts'[a].eth_address = contracts[a].eth_address
  /\ \A b \in Addresses : b # a => contracts'[b] = contracts[b]

LEMMA RotatesStep ==
  ASSUME IInv, NEW a \in Addresses, NEW e \in EthAddresses, set_eth_address(a, e)
  PROVE  Outside /\ Operated(a)
<1>1. contracts \in [Addresses -> Contract] /\ contracts[a] \in Contract
  BY DEF IInv, TypeOK
<1>2. /\ contracts[a].class \in AccountClasses
      /\ contracts' = [contracts EXCEPT ![a].eth_address = e]
  BY DEF set_eth_address
<1>3. Outside
  BY <1>1, <1>2, UpdateTyped DEF Outside, set_eth_address
<1>4. contracts'[a] = [contracts[a] EXCEPT !.eth_address = e]
  BY <1>1, <1>2
<1>5. QED
  BY <1>1, <1>2, <1>3, <1>4, NoneApart DEF Operated, Contract

LEMMA UpgradesStep ==
  ASSUME IInv, NEW a \in Addresses, NEW c \in ClassHashes, upgrade(a, c)
  PROVE  Outside /\ Operated(a)
<1>1. contracts \in [Addresses -> Contract] /\ contracts[a] \in Contract
  BY DEF IInv, TypeOK
<1>2. /\ contracts[a].class \in AccountClasses /\ contracts[a].eth_address # None
      /\ contracts' = [contracts EXCEPT ![a].class = c]
  BY DEF upgrade
<1>3. Outside
  BY <1>1, <1>2, UpdateTyped DEF Outside, upgrade
<1>4. contracts'[a] = [contracts[a] EXCEPT !.class = c]
  BY <1>1, <1>2
<1>5. QED
  BY <1>1, <1>2, <1>3, <1>4, NoneApart DEF Operated, Contract

LEMMA OutsideInvariant ==
  ASSUME IInv, Outside, SameAccounts \/ \E a \in Addresses : Operated(a)
  PROVE  IInv'
<1> DEFINE Good(b) == \/ contracts'[b] = contracts[b]
                      \/ /\ contracts[b].class # None
                         /\ contracts'[b].deployer_address = contracts[b].deployer_address
                         /\ contracts'[b].eth_address # None
<1>1. ASSUME NEW e \in EthAddresses
      PROVE  Good(eth_address_to_account(e))
  BY KeyAddress, NoneApart DEF SameAccounts, Operated
<1>2. QED
  BY <1>1, OutsideSteps DEF Outside

-----------------------------------------------------------------------------
LEMMA StepInvariant == IInv /\ [Next]_vars => IInv'
<1> SUFFICES ASSUME IInv, [Next]_vars PROVE IInv'
  OBVIOUS
<1>1. ASSUME NEW c \in ClassHashes, set_account_class_hash(c) PROVE IInv'
  BY <1>1, SetClassInvariant
<1>2. ASSUME NEW e \in EthAddresses, NEW signer \in Claims, deploy_account(e, signer) PROVE IInv'
  BY <1>2, DeployInvariant
<1>3. CASE DeployReplacesClass
  BY <1>3, ReplacesInvariant
<1>4. CASE DeployInitializes
  BY <1>4, InitializesInvariant
<1>5. CASE DeployReturns
  BY <1>5, ReturnsInvariant
<1>6. CASE DeployReverts
  BY <1>6, RevertsInvariant
<1>7. ASSUME NEW d \in OtherDeployers, NEW e \in EthAddresses, OtherDeploys(d, e) PROVE IInv'
  BY <1>7, OtherDeploysStep, OutsideInvariant
<1>8. ASSUME NEW d \in OtherDeployers, NEW a \in Addresses, NEW c \in ClassHashes,
             OtherReplacesClass(d, a, c)
      PROVE  IInv'
  BY <1>8, OtherReplacesStep, OutsideInvariant
<1>9. ASSUME NEW a \in Addresses, NEW e \in Claims, AnyoneInitializes(a, e) PROVE IInv'
  BY <1>9, AnyoneInitializesStep, OutsideInvariant
<1>10. ASSUME NEW a \in Addresses, NEW e \in EthAddresses, set_eth_address(a, e) PROVE IInv'
  BY <1>10, RotatesStep, OutsideInvariant
<1>11. ASSUME NEW a \in Addresses, NEW c \in ClassHashes, upgrade(a, c) PROVE IInv'
  BY <1>11, UpgradesStep, OutsideInvariant
<1>12. CASE UNCHANGED vars
  BY <1>12 DEF IInv, TypeOK, Underway, CallAddress, OwnPrimers, NoneHalfDeployed, AccountOf,
               Committed, vars, eth_address_to_account, compute_contract_address
<1>13. QED
  BY <1>1, <1>2, <1>3, <1>4, <1>5, <1>6, <1>7, <1>8, <1>9, <1>10, <1>11, <1>12 DEF Next

LEMMA FactoryInvariant == Spec => []IInv
<1>1. Init => IInv
  BY InitInvariant
<1>2. IInv /\ [Next]_vars => IInv'
  BY StepInvariant
<1>3. QED
  BY <1>1, <1>2, PTL DEF Spec

\* Addresses hold contracts, events are of the two kinds and name classes and keys, and a
\* deployment under way names a key, a signer and the contracts a failure restores.
THEOREM TypeCorrect == Spec => []TypeOK
<1>1. IInv => TypeOK
  BY DEF IInv
<1>2. QED
  BY <1>1, FactoryInvariant, PTL

\* deploy_account leaves no account half deployed, whichever of its calls fails, and
\* no other deployer, governor or owner makes one so.
THEOREM WholeAccounts == Spec => []NoneHalfDeployed
<1>1. IInv => NoneHalfDeployed
  BY DEF IInv
<1>2. QED
  BY <1>1, FactoryInvariant, PTL

-----------------------------------------------------------------------------
(* The events.  EventsReplay says what it says of the log, the class and   *)
(* the keys with an account; here of any.                                  *)

Changed(l, k) == l[k].type = "AccountClassHashChanged"

ClassAt(l, h, j) ==
  IF \E k \in j..Len(l) : Changed(l, k)
  THEN LET k == CHOOSE k \in j..Len(l) : Changed(l, k) /\ \A m \in j..(k - 1) : ~Changed(l, m)
       IN l[k].previous_class_hash
  ELSE h

Announces(l, j, e) == ~Changed(l, j) /\ l[j].eth_address = e

Tells(l, h, j) ==
  IF Changed(l, j) THEN l[j].new_class_hash = ClassAt(l, h, j + 1)
                   ELSE l[j].account_class_hash = ClassAt(l, h, j)

Replays(l, h, keys) ==
  /\ \A e \in EthAddresses : e \in keys <=> \E j \in 1..Len(l) : Announces(l, j, e)
  /\ \A j, k \in 1..Len(l) :
       ~Changed(l, j) /\ ~Changed(l, k) /\ l[j].eth_address = l[k].eth_address => j = k
  /\ \A j \in 1..Len(l) : Tells(l, h, j)

Keyed == {e \in EthAddresses : AccountOf(e).class # None}

LEMMA ReplayOfState ==
  ASSUME log \in Seq(Event)
  PROVE  EventsReplay <=> Replays(log, account_class_hash, Keyed)
<1>1. DOMAIN log = 1..Len(log)
  OBVIOUS
<1>2. \A j : ClassBefore(j) = ClassAt(log, account_class_hash, j)
  BY DEF ClassBefore, ClassAt, Changed, IsChange
<1> QED
  BY <1>1, <1>2 DEF EventsReplay, Replays, Tells, Announces, Keyed, Changed, IsChange

LEMMA ReplayOfNext ==
  ASSUME log' \in Seq(Event)
  PROVE  EventsReplay' <=> Replays(log', account_class_hash', Keyed')
<1>1. DOMAIN log' = 1..Len(log')
  OBVIOUS
<1>2. \A j : ClassBefore(j)' = ClassAt(log', account_class_hash', j)
  BY DEF ClassBefore, ClassAt, Changed, IsChange
<1> QED
  BY <1>1, <1>2 DEF EventsReplay, Replays, Tells, Announces, Keyed, Changed, IsChange

\* The first change from j on.
First(l, j, k) ==
  /\ k \in j..Len(l) /\ Changed(l, k)
  /\ \A m \in j..(k - 1) : ~Changed(l, m)

LEMMA FirstExists ==
  ASSUME NEW l \in Seq(Event), NEW j \in Nat, \E k \in j..Len(l) : Changed(l, k)
  PROVE  \E k \in j..Len(l) : First(l, j, k)
<1> DEFINE T == {k \in j..Len(l) : Changed(l, k)}
<1>1. Len(l) \in Nat /\ T \in SUBSET Nat /\ T # {}
  OBVIOUS
<1>2. PICK k \in T : \A m \in T : k <= m
  BY <1>1, LeastNatural
<1>3. \A m \in j..(k - 1) : m \in j..Len(l) /\ ~(k <= m)
  BY <1>1, <1>2
<1>4. \A m \in j..(k - 1) : ~Changed(l, m)
  BY <1>2, <1>3
<1> QED
  BY <1>2, <1>4 DEF First

LEMMA ClassAtFirst ==
  ASSUME NEW l \in Seq(Event), NEW h, NEW j \in Nat, NEW k \in j..Len(l), First(l, j, k)
  PROVE  ClassAt(l, h, j) = l[k].previous_class_hash
<1> DEFINE c == CHOOSE i \in j..Len(l) : Changed(l, i) /\ \A m \in j..(i - 1) : ~Changed(l, m)
<1>1. Len(l) \in Nat
  OBVIOUS
<1>2. First(l, j, c) /\ c \in j..Len(l)
  BY DEF First
<1>3. ClassAt(l, h, j) = l[c].previous_class_hash
  BY <1>2 DEF ClassAt, First
<1> HIDE DEF c
<1>4. c = k
  <2>1. c \in Int /\ k \in Int
    BY <1>1, <1>2
  <2>2. ~(c < k)
    BY <1>1, <1>2, <2>1 DEF First
  <2>3. ~(k < c)
    BY <1>1, <1>2, <2>1 DEF First
  <2> QED
    BY <2>1, <2>2, <2>3
<1> QED
  BY <1>3, <1>4

LEMMA ClassAtEnd ==
  ASSUME NEW l \in Seq(Event), NEW h
  PROVE  ClassAt(l, h, Len(l) + 1) = h
<1>1. Len(l) \in Nat /\ (Len(l) + 1)..Len(l) = {}
  OBVIOUS
<1> QED
  BY <1>1 DEF ClassAt

\* Appending an event that was emitted under class h leaves what the log says of the past.
LEMMA ClassAtAppend ==
  ASSUME NEW l \in Seq(Event), NEW ev \in Event, NEW h, NEW g,
         IF ev.type = "AccountClassHashChanged" THEN ev.previous_class_hash = h ELSE g = h,
         NEW j \in 1..(Len(l) + 1)
  PROVE  ClassAt(Append(l, ev), g, j) = ClassAt(l, h, j)
<1> DEFINE L == Append(l, ev)
           n == Len(l)
<1>1. /\ L \in Seq(Event) /\ n \in Nat /\ Len(L) = n + 1 /\ L[n + 1] = ev
      /\ \A k \in 1..n : L[k] = l[k]
  OBVIOUS
<1>2. \A k \in 1..n : Changed(L, k) <=> Changed(l, k)
  BY <1>1 DEF Changed
<1>3. j \in Nat /\ j >= 1 /\ j <= n + 1
  BY <1>1
<1> HIDE DEF L, n
<1>4. CASE \E k \in j..n : Changed(l, k)
  <2>1. PICK k \in j..n : First(l, j, k)
    BY <1>3, <1>4, FirstExists DEF n
  <2>2. k \in 1..n /\ k \in j..Len(L) /\ \A m \in j..(k - 1) : m \in 1..n
    BY <1>1, <1>3
  <2>3. First(L, j, k)
    BY <1>2, <2>1, <2>2 DEF First
  <2>4. ClassAt(l, h, j) = l[k].previous_class_hash
    BY <1>3, <2>1, ClassAtFirst DEF n
  <2>5. ClassAt(L, g, j) = L[k].previous_class_hash
    BY <1>1, <1>3, <2>2, <2>3, ClassAtFirst
  <2> QED
    BY <1>1, <2>2, <2>4, <2>5 DEF L
<1>5. CASE \A k \in j..n : ~Changed(l, k)
  <2>1. ClassAt(l, h, j) = h
    BY <1>5 DEF ClassAt, n
  <2>2. \A k \in j..n : k \in 1..n
    BY <1>1, <1>3
  <2>3. CASE ev.type = "AccountClassHashChanged"
    <3>1. n + 1 \in j..Len(L) /\ \A m \in j..((n + 1) - 1) : m \in j..n
      BY <1>1, <1>3
    <3>2. Changed(L, n + 1) /\ \A m \in j..((n + 1) - 1) : ~Changed(L, m)
      BY <1>1, <1>2, <1>5, <2>2, <2>3, <3>1 DEF Changed
    <3>3. First(L, j, n + 1)
      BY <3>1, <3>2 DEF First
    <3>4. ClassAt(L, g, j) = L[n + 1].previous_class_hash
      BY <1>1, <1>3, <3>1, <3>3, ClassAtFirst
    <3> QED
      BY <1>1, <2>1, <2>3, <3>4 DEF L
  <2>4. CASE ev.type # "AccountClassHashChanged"
    <3>1. \A k \in j..Len(L) : k \in j..n \/ k = n + 1
      BY <1>1, <1>3
    <3>2. \A k \in j..Len(L) : ~Changed(L, k)
      <4>1. ~Changed(L, n + 1)
        BY <1>1, <2>4 DEF Changed
      <4> QED
        BY <1>2, <1>5, <2>2, <3>1, <4>1
    <3>3. ClassAt(L, g, j) = g
      BY <3>2 DEF ClassAt
    <3> QED
      BY <2>1, <2>4, <3>3 DEF L
  <2> QED
    BY <2>3, <2>4
<1> QED
  BY <1>4, <1>5

\* A change of the class, or the announcement of an account there was not.
LEMMA ReplaysAppend ==
  ASSUME NEW l \in Seq(Event), NEW ev \in Event, NEW h, NEW g, NEW keys, NEW more,
         Replays(l, h, keys),
         \/ /\ ev.type = "AccountClassHashChanged" /\ more = keys
            /\ ev.previous_class_hash = h /\ ev.new_class_hash = g
         \/ /\ ev.type = "AccountDeployed" /\ g = h /\ ev.account_class_hash = h
            /\ ev.eth_address \notin keys /\ more = keys \cup {ev.eth_address}
  PROVE  Replays(Append(l, ev), g, more)
<1> DEFINE L == Append(l, ev)
           n == Len(l)
<1>1. /\ L \in Seq(Event) /\ n \in Nat /\ Len(L) = n + 1 /\ L[n + 1] = ev
      /\ \A k \in 1..n : L[k] = l[k]
  OBVIOUS
<1>2. \A k \in 1..n : Changed(L, k) <=> Changed(l, k)
  BY <1>1 DEF Changed
<1>3. Changed(L, n + 1) <=> ev.type = "AccountClassHashChanged"
  BY <1>1 DEF Changed
<1>4. ASSUME NEW j \in 1..(n + 1) PROVE ClassAt(L, g, j) = ClassAt(l, h, j)
  <2>1. IF ev.type = "AccountClassHashChanged" THEN ev.previous_class_hash = h ELSE g = h
    OBVIOUS
  <2> QED
    BY <2>1, ClassAtAppend
<1>5. ClassAt(l, h, n + 1) = h /\ ClassAt(L, g, (n + 1) + 1) = g
  BY <1>1, ClassAtEnd
<1>6. ASSUME NEW e \in EthAddresses
      PROVE  e \in more <=> \E j \in 1..Len(L) : Announces(L, j, e)
  <2>1. e \in keys <=> \E j \in 1..n : Announces(l, j, e)
    BY DEF Replays
  <2>2. \A j \in 1..n : Announces(L, j, e) <=> Announces(l, j, e)
    BY <1>1, <1>2 DEF Announces
  <2>3. Announces(L, n + 1, e) <=> ev.type = "AccountDeployed" /\ e = ev.eth_address
    BY <1>1, <1>3 DEF Announces
  <2>4. \A j : j \in 1..Len(L) <=> j \in 1..n \/ j = n + 1
    <3> HIDE DEF L, n
    <3> QED
      BY <1>1
  <2>5. e \in more <=> e \in keys \/ (ev.type = "AccountDeployed" /\ e = ev.eth_address)
    OBVIOUS
  <2> HIDE DEF L, n
  <2> QED
    BY <2>1, <2>2, <2>3, <2>4, <2>5
<1>7. \A j, k \in 1..Len(L) :
        ~Changed(L, j) /\ ~Changed(L, k) /\ L[j].eth_address = L[k].eth_address => j = k
  <2>1. ASSUME NEW j \in 1..n, ~Changed(L, j), ~Changed(L, n + 1),
               L[j].eth_address = L[n + 1].eth_address
        PROVE  FALSE
    <3>1. ~Changed(l, j) /\ l[j].eth_address = ev.eth_address /\ ev.type = "AccountDeployed"
      BY <1>1, <1>2, <1>3, <2>1 DEF Changed
    <3>2. ev.eth_address \in EthAddresses
      BY <3>1 DEF Event
    <3>3. ev.eth_address \in keys
      BY <3>1, <3>2 DEF Replays, Announces
    <3> QED
      BY <3>1, <3>3
  <2>2. ASSUME NEW j \in 1..n, NEW k \in 1..n, ~Changed(L, j), ~Changed(L, k),
               L[j].eth_address = L[k].eth_address
        PROVE  j = k
    BY <1>1, <1>2, <2>2 DEF Replays
  <2>3. \A j : j \in 1..Len(L) => j \in 1..n \/ j = n + 1
    <3> HIDE DEF L, n
    <3> QED
      BY <1>1
  <2> HIDE DEF L, n
  <2> QED
    BY <2>1, <2>2, <2>3
<1>8. ASSUME NEW j \in 1..Len(L) PROVE Tells(L, g, j)
  <2>1. CASE j \in 1..n
    <3>1. j + 1 \in 1..(n + 1) /\ j \in 1..(n + 1)
      BY <1>1, <2>1
    <3>2. Tells(l, h, j)
      BY <2>1 DEF Replays
    <3> QED
      BY <1>1, <1>2, <1>4, <2>1, <3>1, <3>2 DEF Tells
  <2>2. CASE j = n + 1
    <3>1. n + 1 \in 1..(n + 1)
      BY <1>1
    <3>2. ClassAt(L, g, n + 1) = h
      BY <1>4, <1>5, <3>1
    <3> HIDE DEF L
    <3> QED
      BY <1>1, <1>3, <1>5, <2>2, <3>2 DEF Tells
  <2>3. j \in 1..n \/ j = n + 1
    <3> HIDE DEF L, n
    <3> QED
      BY <1>1
  <2> QED
    BY <2>1, <2>2, <2>3
<1> QED
  BY <1>6, <1>7, <1>8 DEF Replays

LEMMA SameReplay ==
  ASSUME IInv, IInv', EventsReplay, Keyed' = Keyed,
         log' = log, account_class_hash' = account_class_hash
  PROVE  EventsReplay'
BY ReplayOfState, ReplayOfNext DEF IInv, TypeOK

LEMMA SetClassReplay ==
  ASSUME IInv, IInv', EventsReplay, NEW c \in ClassHashes, set_account_class_hash(c)
  PROVE  EventsReplay'
<1> DEFINE ev == [type |-> "AccountClassHashChanged",
                  previous_class_hash |-> account_class_hash, new_class_hash |-> c]
<1>1. log' = Append(log, ev) /\ account_class_hash' = c /\ contracts' = contracts /\ call' = call
  BY DEF set_account_class_hash
<1>2. Keyed' = Keyed
  BY <1>1 DEF Keyed, AccountOf, Committed, eth_address_to_account, compute_contract_address
<1>3. ev \in Event /\ log \in Seq(Event) /\ log' \in Seq(Event)
  BY DEF IInv, TypeOK, Event
<1>4. /\ ev.type = "AccountClassHashChanged" /\ ev.previous_class_hash = account_class_hash
      /\ ev.new_class_hash = account_class_hash'
  BY <1>1
<1>5. Replays(log, account_class_hash, Keyed)
  BY <1>3, ReplayOfState
<1> HIDE DEF ev
<1>6. Replays(log', account_class_hash', Keyed')
  BY <1>1, <1>2, <1>3, <1>4, <1>5, ReplaysAppend
<1> QED
  BY <1>3, <1>6, ReplayOfNext

LEMMA ReturnsReplay ==
  ASSUME IInv, IInv', EventsReplay, DeployReturns
  PROVE  EventsReplay'
<1> DEFINE eth == call.eth_address
           ev == [type |-> "AccountDeployed", account_class_hash |-> account_class_hash,
                  eth_address |-> eth]
<1>1. call # Idle /\ call.stage = "initialized"
  BY DEF DeployReturns, Idle
<1>2. /\ call \in DeployCall /\ Committed = call.entry /\ eth \in EthAddresses
      /\ log \in Seq(Event) /\ log' \in Seq(Event) /\ account_class_hash \in ClassHashes
  BY <1>1, UnderCall DEF IInv, TypeOK, DeployCall
<1>3. /\ call' = Idle /\ contracts' = contracts /\ account_class_hash' = account_class_hash
      /\ log' = Append(log, ev)
  BY DEF DeployReturns, AnnouncedClass
<1>4. ev \in Event /\ ev.type = "AccountDeployed" /\ ev.account_class_hash = account_class_hash
      /\ ev.eth_address = eth
  BY <1>2 DEF Event
<1>5. eth \notin Keyed
  BY <1>1, <1>2 DEF IInv, Underway, Keyed, AccountOf, CallAddress
<1>6. Keyed' = Keyed \cup {eth}
  <2>1. ASSUME NEW e \in EthAddresses
        PROVE  AccountOf(e)' = contracts[eth_address_to_account(e)]
    BY <1>3 DEF AccountOf, Committed, eth_address_to_account, compute_contract_address
  <2>2. ASSUME NEW e \in EthAddresses, e = eth
        PROVE  AccountOf(e)'.class # None
    <3>1. contracts[CallAddress].class = account_class_hash
      BY <1>1 DEF IInv, Underway
    <3> QED
      BY <1>2, <2>1, <2>2, <3>1, NoneApart DEF CallAddress
  <2>3. ASSUME NEW e \in EthAddresses, e # eth
        PROVE  AccountOf(e)' = AccountOf(e)
    BY <1>1, <1>2, <2>1, <2>3, AfterDeployment DEF AccountOf
  <2>4. \A e \in EthAddresses : AccountOf(e)'.class # None <=> e \in Keyed \cup {eth}
    BY <1>5, <2>2, <2>3 DEF Keyed
  <2> HIDE DEF eth
  <2> QED
    BY <1>2, <2>4 DEF Keyed
<1>7. Replays(log, account_class_hash, Keyed)
  BY <1>2, ReplayOfState
<1> HIDE DEF ev, eth
<1>8. Replays(Append(log, ev), account_class_hash, Keyed')
  BY <1>2, <1>4, <1>5, <1>6, <1>7, ReplaysAppend
<1> QED
  BY <1>2, <1>3, <1>8, ReplayOfNext

LEMMA InitReplay == Init => EventsReplay
<1> SUFFICES ASSUME Init PROVE EventsReplay
  OBVIOUS
<1>1. \A e \in EthAddresses : AccountOf(e).class = None
  BY KeyAddress DEF Init, AccountOf, Committed, Nothing
<1>2. log = <<>> /\ DOMAIN log = {}
  BY DEF Init
<1> QED
  BY <1>1, <1>2 DEF EventsReplay

\* Of the other steps, none makes an account or unmakes one.
LEMMA StepReplay == IInv /\ IInv' /\ EventsReplay /\ [Next]_vars => EventsReplay'
<1> SUFFICES ASSUME IInv, IInv', EventsReplay, [Next]_vars PROVE EventsReplay'
  OBVIOUS
<1>1. ASSUME NEW c \in ClassHashes, set_account_class_hash(c) PROVE EventsReplay'
  BY <1>1, SetClassReplay
<1>2. CASE DeployReturns
  BY <1>2, ReturnsReplay
<1>3. CASE \/ \E e \in EthAddresses, signer \in Claims : deploy_account(e, signer)
           \/ DeployReplacesClass \/ DeployInitializes \/ DeployReverts
  <2>1. Committed' = Committed /\ log' = log /\ account_class_hash' = account_class_hash
    <3>1. ASSUME NEW e \in EthAddresses, NEW signer \in Claims, deploy_account(e, signer)
          PROVE  Committed' = Committed /\ log' = log /\ account_class_hash' = account_class_hash
      BY <3>1 DEF deploy_account, Committed, Idle
    <3>2. CASE DeployReplacesClass \/ DeployInitializes
      <4>1. call # Idle /\ call'.stage # "idle" /\ call'.entry = call.entry
        <5>1. call # Idle
          BY <3>2 DEF DeployReplacesClass, DeployInitializes, Idle
        <5> QED
          BY <3>2, <5>1, UnderCall DEF IInv, DeployReplacesClass, DeployInitializes, DeployCall
      <4> QED
        BY <3>2, <4>1 DEF DeployReplacesClass, DeployInitializes, Committed, Idle
    <3>3. CASE DeployReverts
      BY <3>3 DEF DeployReverts, RolledBack, Committed, Idle
    <3> QED
      BY <1>3, <3>1, <3>2, <3>3
  <2>2. Keyed' = Keyed
    BY <2>1 DEF Keyed, AccountOf, eth_address_to_account, compute_contract_address
  <2> QED
    BY <2>1, <2>2, SameReplay
<1>4. ASSUME Outside, SameAccounts \/ \E a \in Addresses : Operated(a)
      PROVE  EventsReplay'
  <2>1. Committed = contracts /\ Committed' = contracts'
    BY <1>4 DEF Outside, Committed
  <2>2. ASSUME NEW e \in EthAddresses
        PROVE  AccountOf(e)'.class # None <=> AccountOf(e).class # None
    BY <1>4, <2>1, KeyAddress, NoneApart
       DEF AccountOf, SameAccounts, Operated, eth_address_to_account, compute_contract_address
  <2>3. Keyed' = Keyed
    BY <2>2 DEF Keyed
  <2> QED
    BY <1>4, <2>3, SameReplay DEF Outside
<1>5. ASSUME NEW d \in OtherDeployers, NEW e \in EthAddresses, OtherDeploys(d, e)
      PROVE  EventsReplay'
  BY <1>4, <1>5, OtherDeploysStep
<1>6. ASSUME NEW d \in OtherDeployers, NEW a \in Addresses, NEW c \in ClassHashes,
             OtherReplacesClass(d, a, c)
      PROVE  EventsReplay'
  BY <1>4, <1>6, OtherReplacesStep
<1>7. ASSUME NEW a \in Addresses, NEW e \in Claims, AnyoneInitializes(a, e) PROVE EventsReplay'
  BY <1>4, <1>7, AnyoneInitializesStep
<1>8. ASSUME NEW a \in Addresses, NEW e \in EthAddresses, set_eth_address(a, e)
      PROVE  EventsReplay'
  BY <1>4, <1>8, RotatesStep
<1>9. ASSUME NEW a \in Addresses, NEW c \in ClassHashes, upgrade(a, c) PROVE EventsReplay'
  BY <1>4, <1>9, UpgradesStep
<1>10. CASE UNCHANGED vars
  <2>1. Committed' = Committed /\ log' = log /\ account_class_hash' = account_class_hash
    BY <1>10 DEF vars, Committed
  <2>2. Keyed' = Keyed
    BY <2>1 DEF Keyed, AccountOf, eth_address_to_account, compute_contract_address
  <2> QED
    BY <2>1, <2>2, SameReplay
<1> QED
  BY <1>1, <1>2, <1>3, <1>5, <1>6, <1>7, <1>8, <1>9, <1>10 DEF Next

\* The factory's events are its history: AccountDeployed once for each account there is,
\* with the class configured when it was deployed, and the class changes link up to the
\* present class, for any keys, classes, deployers and failures in between.
THEOREM EventsTell == Spec => []EventsReplay
<1>1. Init => IInv /\ EventsReplay
  BY InitInvariant, InitReplay
<1>2. IInv /\ EventsReplay /\ [Next]_vars => (IInv /\ EventsReplay)'
  BY StepInvariant, StepReplay
<1> QED
  BY <1>1, <1>2, PTL DEF Spec

-----------------------------------------------------------------------------
(* The refinement: Accounts is what the factory's accounts are to the      *)
(* registry; a step changes none of them, opens one, or operates one.      *)

AsAccount(contract) ==
  IF contract.class = None THEN None
  ELSE [owner |-> contract.eth_address, version |-> contract.class]

Accounts == [e \in EthAddresses |-> AsAccount(AccountOf(e))]

RegistryStep == [Registry!Next]_(Registry!vars)

LEMMA Stutters ==
  ASSUME Accounts' = Accounts, account_class_hash' = account_class_hash
  PROVE  RegistryStep
BY DEF RegistryStep, Registry!vars, Accounts, AsAccount

LEMMA Configures ==
  ASSUME Accounts' = Accounts, account_class_hash' \in ClassHashes
  PROVE  RegistryStep
BY DEF RegistryStep, Registry!Next, Registry!Configure, Accounts, AsAccount

LEMMA Opens ==
  ASSUME NEW k \in Claims, Accounts[k] = None, account_class_hash' = account_class_hash,
         Accounts' = [Accounts EXCEPT ![k] = [owner |-> k, version |-> account_class_hash]]
  PROVE  RegistryStep
<1>1. k \in EthAddresses
  BY FactoryAssumption
<1>2. Registry!Open(k)
  BY DEF Registry!Open, Accounts, AsAccount
<1>3. QED
  BY <1>1, <1>2 DEF RegistryStep, Registry!Next

LEMMA Operates ==
  ASSUME NEW k \in EthAddresses, Accounts[k] # None, account_class_hash' = account_class_hash,
         NEW a \in [owner : EthAddresses, version : ClassHashes],
         Accounts' = [Accounts EXCEPT ![k] = a],
         a.owner = Accounts[k].owner \/ a.version = Accounts[k].version
  PROVE  RegistryStep
<1>1. Registry!Operate(k)
  BY DEF Registry!Operate, Registry!Account, Accounts, AsAccount
<1>2. QED
  BY <1>1 DEF RegistryStep, Registry!Next

\* Outside a deployment the registry sees the contracts, inside those it began with.
LEMMA SameCommitted ==
  ASSUME Committed' = Committed
  PROVE  Accounts' = Accounts
BY DEF Accounts, AccountOf, eth_address_to_account, compute_contract_address, AsAccount

LEMMA SameAccountsStep ==
  ASSUME Outside, SameAccounts
  PROVE  RegistryStep
<1>1. \A e \in EthAddresses : AccountOf(e)' = AccountOf(e)
  BY DEF Outside, SameAccounts, AccountOf, Committed, eth_address_to_account, compute_contract_address
<1>2. Accounts' = Accounts
  BY <1>1 DEF Accounts, AsAccount
<1>3. QED
  BY <1>2, Stutters DEF Outside

\* An owner operates an account of the factory's or somebody else's.
LEMMA OperatedStep ==
  ASSUME IInv, Outside, NEW a \in Addresses, Operated(a)
  PROVE  RegistryStep
<1>1. /\ \A e \in EthAddresses : AccountOf(e) = contracts[eth_address_to_account(e)]
      /\ \A e \in EthAddresses : AccountOf(e)' = contracts'[eth_address_to_account(e)]
  BY DEF Outside, AccountOf, Committed, eth_address_to_account, compute_contract_address
<1>2. CASE \A e \in EthAddresses : eth_address_to_account(e) # a
  <2>1. SameAccounts
    BY <1>2, KeyAddress DEF SameAccounts, Operated
  <2>2. QED
    BY <2>1, SameAccountsStep
<1>3. ASSUME NEW k \in EthAddresses, eth_address_to_account(k) = a
      PROVE  RegistryStep
  <2> DEFINE new == [owner |-> contracts'[a].eth_address, version |-> contracts'[a].class]
  <2>1. new \in [owner : EthAddresses, version : ClassHashes] /\ contracts'[a].class # None
    BY NoneApart DEF Operated
  <2>2. Accounts[k] = [owner |-> contracts[a].eth_address, version |-> contracts[a].class]
    BY <1>1, <1>3 DEF Operated, Accounts, AsAccount
  <2>3. contracts[a] \in Contract /\ AccountOf(k) = contracts[a]
    BY <1>1, <1>3 DEF IInv, TypeOK
  <2>4. Accounts[k] # None
    <3>1. contracts[a].eth_address \in EthAddresses /\ contracts[a].class \in ClassHashes
      BY <2>3 DEF IInv, NoneHalfDeployed, Operated, Contract
    <3>2. QED
      BY <2>2, <3>1, FactoryAssumption
  <2>5. \A e \in EthAddresses : e # k => AccountOf(e)' = AccountOf(e)
    BY <1>1, <1>3, KeyAddress, KeysApart DEF Operated
  <2>6. AsAccount(AccountOf(k))' = new
    BY <1>1, <1>3, <2>1 DEF AsAccount
  <2>7. Accounts' = [Accounts EXCEPT ![k] = new]
    BY <2>5, <2>6 DEF Accounts, AsAccount
  <2>8. new.owner = Accounts[k].owner \/ new.version = Accounts[k].version
    BY <2>2 DEF Operated
  <2>9. QED
    BY <2>1, <2>4, <2>7, <2>8, Operates DEF Outside
<1>4. QED
  BY <1>2, <1>3

\* The return of a deployment is the step in which the registry opens the account.
LEMMA ReturnsStep ==
  ASSUME IInv, DeployReturns
  PROVE  RegistryStep
<1>1. call # Idle /\ call.stage = "initialized"
  BY DEF DeployReturns, Idle
<1>2. call \in DeployCall /\ Committed = call.entry
  BY <1>1, UnderCall DEF IInv
<1>3. PICK k \in EthAddresses : k = call.eth_address /\ k \in Claims
  BY <1>1, <1>2 DEF DeployCall, IInv, Underway
<1>4. call' = Idle /\ contracts' = contracts /\ account_class_hash' = account_class_hash
  BY DEF DeployReturns
<1>5. \A e \in EthAddresses : AccountOf(e)' = contracts[eth_address_to_account(e)]
  BY <1>4 DEF AccountOf, Committed, eth_address_to_account, compute_contract_address
<1>6. AccountOf(k).class = None
  BY <1>1, <1>2, <1>3 DEF AccountOf, IInv, Underway, CallAddress
<1>7. Accounts[k] = None
  BY <1>3, <1>6 DEF Accounts, AsAccount
<1>8. \A e \in EthAddresses : e # k => AccountOf(e)' = AccountOf(e)
  BY <1>1, <1>2, <1>3, <1>5, AfterDeployment DEF AccountOf
<1>9. AsAccount(AccountOf(k))' = [owner |-> k, version |-> account_class_hash]
  <2>1. AccountOf(k)' = contracts[CallAddress]
    BY <1>3, <1>5 DEF CallAddress
  <2>2. contracts[CallAddress].class = account_class_hash /\ contracts[CallAddress].eth_address = k
    BY <1>1, <1>3 DEF IInv, Underway
  <2>3. account_class_hash # None
    BY NoneApart DEF IInv, TypeOK
  <2>4. QED
    BY <2>1, <2>2, <2>3 DEF AsAccount
<1>10. Accounts' = [Accounts EXCEPT ![k] = [owner |-> k, version |-> account_class_hash]]
  BY <1>3, <1>8, <1>9 DEF Accounts, AsAccount
<1>11. QED
  BY <1>3, <1>4, <1>7, <1>10, Opens

\* The other steps of a deployment commit nothing.
LEMMA DeploymentStep ==
  ASSUME IInv,
         \/ \E e \in EthAddresses, signer \in Claims : deploy_account(e, signer)
         \/ DeployReplacesClass \/ DeployInitializes \/ DeployReverts
  PROVE  RegistryStep
<1>1. account_class_hash' = account_class_hash
  BY DEF deploy_account, DeployReplacesClass, DeployInitializes, DeployReverts
<1>2. ASSUME NEW e \in EthAddresses, NEW signer \in Claims, deploy_account(e, signer)
      PROVE  Committed' = Committed
  BY <1>2 DEF deploy_account, Committed, Idle
<1>3. CASE DeployReplacesClass \/ DeployInitializes
  <2>1. call # Idle /\ call \in DeployCall
    BY <1>3, UnderCall DEF IInv, DeployReplacesClass, DeployInitializes, Idle
  <2>2. call' \in DeployCall /\ call'.entry = call.entry
    BY <1>3, <2>1 DEF DeployReplacesClass, DeployInitializes, DeployCall
  <2>3. QED
    BY <1>1, <2>1, <2>2, StagesApart, SameCommitted, Stutters DEF Committed
<1>4. CASE DeployReverts
  <2>1. call # Idle
    BY <1>4 DEF DeployReverts, Idle
  <2>2. Committed' = Committed
    BY <1>4, <2>1 DEF DeployReverts, RolledBack, Committed
  <2>3. QED
    BY <1>1, <2>2, SameCommitted, Stutters
<1>5. QED
  BY <1>1, <1>2, <1>3, <1>4, SameCommitted, Stutters

LEMMA StepRefines == IInv /\ [Next]_vars => RegistryStep
<1> SUFFICES ASSUME IInv, [Next]_vars PROVE RegistryStep
  OBVIOUS
<1>1. ASSUME NEW c \in ClassHashes, set_account_class_hash(c) PROVE RegistryStep
  <2>1. Committed' = Committed /\ account_class_hash' = c
    BY <1>1 DEF set_account_class_hash, Committed
  <2>2. QED
    BY <2>1, SameCommitted, Configures
<1>2. CASE \/ \E e \in EthAddresses, signer \in Claims : deploy_account(e, signer)
           \/ DeployReplacesClass \/ DeployInitializes \/ DeployReverts
  BY <1>2, DeploymentStep
<1>3. CASE DeployReturns
  BY <1>3, ReturnsStep
<1>4. ASSUME NEW d \in OtherDeployers, NEW e \in EthAddresses, OtherDeploys(d, e)
      PROVE  RegistryStep
  BY <1>4, OtherDeploysStep, SameAccountsStep
<1>5. ASSUME NEW d \in OtherDeployers, NEW a \in Addresses, NEW c \in ClassHashes,
             OtherReplacesClass(d, a, c)
      PROVE  RegistryStep
  BY <1>5, OtherReplacesStep, SameAccountsStep
<1>6. ASSUME NEW a \in Addresses, NEW e \in Claims, AnyoneInitializes(a, e) PROVE RegistryStep
  BY <1>6, AnyoneInitializesStep, SameAccountsStep
<1>7. ASSUME NEW a \in Addresses, NEW e \in EthAddresses, set_eth_address(a, e) PROVE RegistryStep
  BY <1>7, RotatesStep, OperatedStep
<1>8. ASSUME NEW a \in Addresses, NEW c \in ClassHashes, upgrade(a, c) PROVE RegistryStep
  BY <1>8, UpgradesStep, OperatedStep
<1>9. CASE UNCHANGED vars
  <2>1. Committed' = Committed /\ account_class_hash' = account_class_hash
    BY <1>9 DEF vars, Committed
  <2>2. QED
    BY <2>1, SameCommitted, Stutters
<1>10. QED
  BY <1>1, <1>2, <1>3, <1>4, <1>5, <1>6, <1>7, <1>8, <1>9 DEF Next

LEMMA InitRefines == Init => Registry!Init
<1> SUFFICES ASSUME Init PROVE Registry!Init
  OBVIOUS
<1>1. \A e \in EthAddresses : AccountOf(e).class = None
  BY KeyAddress DEF Init, AccountOf, Committed, Nothing
<1>2. QED
  BY <1>1 DEF Init, Registry!Init

\* Every key has at most one account, which opens with that key as its owner and the
\* class configured at that moment, and which only its owner changes: deploy_account's
\* three calls are one step of AccountRegistry.
THEOREM RegistryImplemented == Spec => ImplementsRegistry
<1>1. Init => Registry!Init
  BY InitRefines
<1>2. IInv /\ [Next]_vars => [Registry!Next]_(Registry!vars)
  BY StepRefines DEF RegistryStep
<1>3. QED
  BY <1>1, <1>2, FactoryInvariant, PTL DEF Spec, ImplementsRegistry, Registry!Spec

=============================================================================
