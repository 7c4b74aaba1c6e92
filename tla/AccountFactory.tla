--------------------------- MODULE AccountFactory ---------------------------
(***************************************************************************)
(* AccountFactory and the contracts it deploys: a Primer whose class is    *)
(* replaced by the configured account class, which is then initialized.    *)
(*                                                                         *)
(* deploy_account makes three calls in one transaction; each may fail, and *)
(* then nothing of the call is left.  Others deploy Primers too, at the    *)
(* addresses of their own, and the accounts' owners rotate and upgrade.    *)
(***************************************************************************)
EXTENDS Naturals, Sequences

CONSTANTS
  EthAddresses,      (* the Ethereum keys                                     *)
  Claims,            (* the keys that have signed the ownership message       *)
  Factory,           (* the factory's address                                 *)
  OtherDeployers,    (* other contracts that deploy Primers                   *)
  PRIMER_CLASS_HASH,
  AccountClasses,    (* the declared classes with initialize                  *)
  OtherClasses,      (* class hashes the governor may set by mistake          *)
  Undeclared,        (* those of them no class is declared under              *)
  None,              (* no contract, no owner                                 *)
  MaxChanges         (* bound: changes of the account class                   *)

ClassHashes == AccountClasses \cup OtherClasses \cup {PRIMER_CLASS_HASH}

Deployers == OtherDeployers \cup {Factory}

ASSUME FactoryAssumption ==
  /\ Claims \subseteq EthAddresses
  /\ Factory \notin OtherDeployers
  /\ PRIMER_CLASS_HASH \notin AccountClasses \cup OtherClasses
  /\ AccountClasses \cap OtherClasses = {} /\ Undeclared \subseteq OtherClasses
  /\ None \notin EthAddresses \cup ClassHashes \cup Deployers
  /\ None \notin [owner : EthAddresses, version : ClassHashes]
  /\ MaxChanges \in Nat

VARIABLES
  account_class_hash,  (* the factory's storage                               *)
  contracts,           (* what is at each address                             *)
  call,                (* the deploy_account being executed                   *)
  log                  (* the factory's events                                *)

vars == <<account_class_hash, contracts, call, log>>

\* An address is a hash of deployer, salt, class and calldata; only the first two vary.
Addresses == Deployers \X EthAddresses

\* A contract keeps its storage when its class is replaced: the Primer's
\* deployer_address stays beside the account's eth_address.
Contract ==
  [class : ClassHashes \cup {None}, deployer_address : Deployers \cup {None},
   eth_address : EthAddresses \cup {None}]

Event ==
  [type : {"AccountClassHashChanged"}, previous_class_hash : ClassHashes, new_class_hash : ClassHashes]
  \cup [type : {"AccountDeployed"}, account_class_hash : ClassHashes, eth_address : EthAddresses]

Nothing == [class |-> None, deployer_address |-> None, eth_address |-> None]

Idle == [stage |-> "idle"]

\* A deploy_account under way: the calls made, who signed, what a failure restores.
DeployCall ==
  [stage : {"deployed", "replaced", "initialized"}, eth_address : EthAddresses,
   signer : Claims, entry : [Addresses -> Contract]]

-----------------------------------------------------------------------------
\* Mutant: deploy_from_zero, so that every deployer gets the same address.
FromZero(deployer, salt) == <<Factory, salt>>

compute_contract_address(deployer, salt) == <<deployer, salt>>

eth_address_to_account(e) == compute_contract_address(Factory, e)

is_deployed(addr) == contracts[addr].class # None

Primer(deployer) == [Nothing EXCEPT !.class = PRIMER_CLASS_HASH, !.deployer_address = deployer]

Init ==
  /\ account_class_hash \in ClassHashes
  /\ contracts = [a \in Addresses |-> Nothing]
  /\ call = Idle
  /\ log = <<>>

Changes == SelectSeq(log, LAMBDA e : e.type = "AccountClassHashChanged")

\* The app governor's; setting the same hash again emits nothing.
set_account_class_hash(new_class_hash) ==
  /\ call = Idle /\ Len(Changes) < MaxChanges
  /\ new_class_hash # account_class_hash
  /\ account_class_hash' = new_class_hash
  /\ log' = Append(log, [type |-> "AccountClassHashChanged",
                         previous_class_hash |-> account_class_hash,
                         new_class_hash |-> new_class_hash])
  /\ UNCHANGED <<contracts, call>>

(***************************************************************************)
(* deploy_account.  For an address with a contract it returns at once: the *)
(* signature is not looked at and nothing changes.  Otherwise a Primer is  *)
(* deployed, its class replaced, the account initialized and an event      *)
(* emitted.                                                                *)
(***************************************************************************)
deploy_account(e, signer) ==
  LET addr == eth_address_to_account(e)
  IN /\ call = Idle
     /\ ~is_deployed(addr)
     /\ contracts' = [contracts EXCEPT ![addr] = Primer(Factory)]
     /\ call' = [stage |-> "deployed", eth_address |-> e, signer |-> signer, entry |-> contracts]
     /\ UNCHANGED <<account_class_hash, log>>

\* Primer.set_class_hash, by the deployer the Primer remembers.
set_class_hash(caller, addr, new_class_hash) ==
  /\ contracts[addr].class = PRIMER_CLASS_HASH
  /\ caller = contracts[addr].deployer_address
  /\ new_class_hash \notin Undeclared
  /\ contracts' = [contracts EXCEPT ![addr].class = new_class_hash]

assert_valid_owner(e, signer) == signer = e

\* The account's initialize, for the key that signed the ownership message.
initialize(addr, e, signer) ==
  /\ contracts[addr].class \in AccountClasses
  /\ contracts[addr].eth_address = None
  /\ assert_valid_owner(e, signer)
  /\ contracts' = [contracts EXCEPT ![addr].eth_address = e]

DeployReplacesClass ==
  /\ call.stage = "deployed"
  /\ set_class_hash(Factory, eth_address_to_account(call.eth_address), account_class_hash)
  /\ call' = [call EXCEPT !.stage = "replaced"]
  /\ UNCHANGED <<account_class_hash, log>>

DeployInitializes ==
  /\ call.stage = "replaced"
  /\ initialize(eth_address_to_account(call.eth_address), call.eth_address, call.signer)
  /\ call' = [call EXCEPT !.stage = "initialized"]
  /\ UNCHANGED <<account_class_hash, log>>

\* Mutant: the account is returned without an event, as one that was there before.
DeployReturnsSilently ==
  /\ call.stage = "initialized"
  /\ call' = Idle
  /\ UNCHANGED <<account_class_hash, contracts, log>>

\* Mutant: the class is read from the address before the account is there.
ClassAtEntry == call.entry[eth_address_to_account(call.eth_address)].class

\* The class deploy_account has read and used.
AnnouncedClass == account_class_hash

DeployReturns ==
  /\ call.stage = "initialized"
  /\ log' = Append(log, [type |-> "AccountDeployed", account_class_hash |-> AnnouncedClass,
                         eth_address |-> call.eth_address])
  /\ call' = Idle
  /\ UNCHANGED <<account_class_hash, contracts>>

\* Mutant: a failed initialization leaves the contract as it is.
Kept(c) == contracts

RolledBack(c) == c.entry

\* The next call of deploy_account cannot succeed: the class is not declared, has no
\* initialize (or is the Primer still), or the signature is another key's.
DeployReverts ==
  /\ \/ call.stage = "deployed" /\ account_class_hash \in Undeclared
     \/ call.stage = "replaced" /\ account_class_hash \notin AccountClasses
     \/ call.stage = "replaced" /\ ~assert_valid_owner(call.eth_address, call.signer)
  /\ contracts' = RolledBack(call)
  /\ call' = Idle
  /\ UNCHANGED <<account_class_hash, log>>

-----------------------------------------------------------------------------
\* Another contract deploys a Primer under a key's salt and gives it a class.
OtherDeploys(deployer, e) ==
  LET addr == compute_contract_address(deployer, e)
  IN /\ call = Idle /\ ~is_deployed(addr)
     /\ contracts' = [contracts EXCEPT ![addr] = Primer(deployer)]
     /\ UNCHANGED <<account_class_hash, call, log>>

OtherReplacesClass(deployer, addr, new_class_hash) ==
  /\ call = Idle
  /\ new_class_hash # PRIMER_CLASS_HASH
  /\ set_class_hash(deployer, addr, new_class_hash)
  /\ UNCHANGED <<account_class_hash, call, log>>

\* Anyone with a key's signature may initialize what nobody owns yet.
AnyoneInitializes(addr, e) ==
  /\ call = Idle
  /\ initialize(addr, e, e)
  /\ UNCHANGED <<account_class_hash, call, log>>

\* An owner rotates to another key, or replaces the class; the Primer's is possible.
set_eth_address(addr, e) ==
  /\ call = Idle
  /\ contracts[addr].class \in AccountClasses /\ contracts[addr].eth_address # None
  /\ contracts' = [contracts EXCEPT ![addr].eth_address = e]
  /\ UNCHANGED <<account_class_hash, call, log>>

upgrade(addr, new_class_hash) ==
  /\ call = Idle
  /\ contracts[addr].class \in AccountClasses /\ contracts[addr].eth_address # None
  /\ new_class_hash \notin Undeclared
  /\ contracts' = [contracts EXCEPT ![addr].class = new_class_hash]
  /\ UNCHANGED <<account_class_hash, call, log>>

Next ==
  \/ \E c \in ClassHashes : set_account_class_hash(c)
  \/ \E e \in EthAddresses, signer \in Claims : deploy_account(e, signer)
  \/ DeployReplacesClass
  \/ DeployInitializes
  \/ DeployReturns
  \/ DeployReverts
  \/ \E d \in OtherDeployers, e \in EthAddresses : OtherDeploys(d, e)
  \/ \E d \in OtherDeployers, a \in Addresses, c \in ClassHashes : OtherReplacesClass(d, a, c)
  \/ \E a \in Addresses, e \in Claims : AnyoneInitializes(a, e)
  \/ \E a \in Addresses, e \in EthAddresses : set_eth_address(a, e)
  \/ \E a \in Addresses, c \in ClassHashes : upgrade(a, c)

Spec == Init /\ [][Next]_vars
=============================================================================
