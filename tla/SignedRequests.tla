--------------------------- MODULE SignedRequests ---------------------------
(***************************************************************************)
(* What one signature of the scripts is good for.                          *)
(*                                                                         *)
(* A key holder has a script sign a request, an outside execution or a     *)
(* transaction, for an account on a chain.  Whoever has the signature may  *)
(* present it with any request, to the account at any address, of any      *)
(* owner, on any chain.                                                    *)
(***************************************************************************)
EXTENDS Eip712, Eth712Utils

CONSTANTS
  Keys,                (* the keys that sign; an account's owner is one        *)
  Addresses,           (* of accounts                                          *)
  EvmChains,           (* the chains a wallet may sign on                      *)
  OutsideExecutions,   (* the outside executions there are                     *)
  Transactions         (* the transactions: calls and metadata                 *)

Chains == DOMAIN ChainIds

CallStruct == [to : 0..FELT - 1, selector : 0..FELT - 1, calldata : Seq(0..FELT - 1)]

OutsideExecution ==
  [calls : Seq(CallStruct), caller : 0..FELT - 1, nonce : 0..FELT - 1,
   execute_after : Nat, execute_before : Nat]

TransactionMetadata ==
  [version : 0..FELT - 1, chain_id : 0..FELT - 1, execution_resources : Seq(0..FELT - 1),
   tip : 0..FELT - 1, nonce : 0..FELT - 1]

Transaction == [calls : Seq(CallStruct), metadata : TransactionMetadata]

ASSUME RequestsAssumption ==
  /\ Addresses \subseteq 0..FELT - 1
  /\ EvmChains \subseteq 0..FELT - 1
  /\ OutsideExecutions \subseteq OutsideExecution
  /\ Transactions \subseteq Transaction

VARIABLES
  request,    (* what was signed last: the kind, the message, the domain       *)
  signature   (* its six felts                                                 *)

vars == <<request, signature>>

Unsigned == [kind |-> "none"]

Signed(kind, message, sn_chain_name, contract_address, evm_chain_id, key) ==
  [kind |-> kind, message |-> message, sn_chain_name |-> sn_chain_name,
   contract_address |-> contract_address, evm_chain_id |-> evm_chain_id, key |-> key]

Init == request = Unsigned /\ signature = <<>>

sign_outside_execution(oe, contract_address, evm_chain_id, sn_chain_name, key) ==
  /\ request' = Signed("outside", oe, sn_chain_name, contract_address, evm_chain_id, key)
  /\ signature' = sign_and_split(
       outside_execution_msg_hash(oe, sn_chain_name, contract_address, evm_chain_id),
       key, evm_chain_id)

sign_transaction(tx, contract_address, evm_chain_id, sn_chain_name, key) ==
  /\ request' = Signed("transaction", tx, sn_chain_name, contract_address, evm_chain_id, key)
  /\ signature' = sign_and_split(
       transaction_msg_hash(tx.calls, tx.metadata, sn_chain_name, contract_address, evm_chain_id),
       key, evm_chain_id)

Next ==
  \E address \in Addresses, evm \in EvmChains, chain \in Chains, key \in Keys :
    \/ \E oe \in OutsideExecutions : sign_outside_execution(oe, address, evm, chain, key)
    \/ \E tx \in Transactions : sign_transaction(tx, address, evm, chain, key)

Spec == Init /\ [][Next]_vars

-----------------------------------------------------------------------------
\* The account's checks, of execute_from_outside_v2 and of __validate__, at an
\* address, on a chain, for an owner.
AcceptsOutside(oe, address, chain, owner) ==
  /\ IsSignature(signature)
  /\ is_valid_eth_signature(
       get_outside_execution_hash(oe, EvmChainOf(signature),
                                          ChainIds[chain], address),
       signature, owner)

AcceptsTransaction(tx, address, chain, owner) ==
  /\ IsSignature(signature)
  /\ is_valid_eth_signature(
       get_transaction_hash(tx.calls, tx.metadata, EvmChainOf(signature),
                                    ChainIds[chain], address),
       signature, owner)

\* The account that may take what was signed: the chain was named, its address
\* agrees in the half that is signed, its owner is the key.
For(address, chain, owner) ==
  /\ chain = request.sn_chain_name
  /\ LowHalf(address) = LowHalf(request.contract_address)
  /\ owner = request.key

\* The scripts' hash covers the whole outside execution, as the account reads it: the
\* signature is accepted with that one, and with no other outside execution - other
\* calls, the same calls in another order or cut elsewhere, another window, caller or
\* nonce -, at accounts it was meant for and no others.
OutsideBound ==
  \A oe \in OutsideExecutions, address \in Addresses, chain \in Chains, owner \in Keys :
    AcceptsOutside(oe, address, chain, owner) <=>
      request.kind = "outside" /\ request.message = oe /\ For(address, chain, owner)

\* The same for transactions, whose metadata the account takes from the transaction
\* itself; in particular no signature is good for both kinds.
TransactionBound ==
  \A tx \in Transactions, address \in Addresses, chain \in Chains, owner \in Keys :
    AcceptsTransaction(tx, address, chain, owner) <=>
      request.kind = "transaction" /\ request.message = tx /\ For(address, chain, owner)
=============================================================================
