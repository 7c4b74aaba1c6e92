----------------------------- MODULE Eth712Utils -----------------------------
(***************************************************************************)
(* eth_712_utils.cairo: the same hashes computed by the account, from what *)
(* the transaction carries and from where it runs, and the check of the    *)
(* signature.  A push_ operator is the word its function appends; the      *)
(* order of the words of a tuple is the order of the calls in the code.    *)
(***************************************************************************)
EXTENDS Keccak

push_felt(val) == Uint(val)

push_felt_array(felts) == keccak256([i \in DOMAIN felts |-> push_felt(felts[i])])

push_call(call) ==
  keccak256(<<CALL_TYPE_HASH, push_felt(call.to), push_felt(call.selector),
              push_felt_array(call.calldata)>>)

push_call_array(calls) == keccak256([i \in DOMAIN calls |-> push_call(calls[i])])

push_outside_execution(outside_execution) ==
  LET oe == outside_execution
  IN keccak256(<<OUTSIDE_EXECUTION_TYPE_HASH, push_call_array(oe.calls), push_felt(oe.caller),
                 push_felt(oe.nonce), push_felt(oe.execute_after), push_felt(oe.execute_before)>>)

push_metadata(metadata) ==
  keccak256(<<TRANSACTION_METADATA_TYPE_HASH, push_felt(metadata.version),
              push_felt(metadata.chain_id), push_felt_array(metadata.execution_resources),
              push_felt(metadata.tip), push_felt(metadata.nonce)>>)

push_transaction(calls, metadata) ==
  keccak256(<<TRANSACTION_TYPE_HASH, push_call_array(calls), push_metadata(metadata)>>)

\* The letters of the chain id, read back from the felt.
felt_to_byte_array(felt) ==
  Text(CHOOSE name \in DOMAIN ChainIds : ChainIds[name] = felt)

contract_address_low(contract_address) == Uint(contract_address % HALF)

\* The chain and the contract are those the code runs on; chain_id, the EVM chain's,
\* comes with the signature.
push_domain_separator(chain_id, tx_chain_id, contract_address) ==
  keccak256(<<EIP712_DOMAIN_TYPE_HASH, keccak256(<<felt_to_byte_array(tx_chain_id)>>),
              VERSION_HASH, push_felt(chain_id), contract_address_low(contract_address)>>)

get_outside_execution_hash(outside_execution, chain_id, tx_chain_id, contract_address) ==
  keccak256(<<Eip191, push_domain_separator(chain_id, tx_chain_id, contract_address),
              push_outside_execution(outside_execution)>>)

get_transaction_hash(calls, metadata, chain_id, tx_chain_id, contract_address) ==
  keccak256(<<Eip191, push_domain_separator(chain_id, tx_chain_id, contract_address),
              push_transaction(calls, metadata)>>)

\* extract_signature asserts six felts of which four are 128-bit and v a number.
IsSignature(signature) == Len(signature) = 6

extract_signature(signature) ==
  [r |-> [high |-> signature[1], low |-> signature[2]],
   s |-> [high |-> signature[3], low |-> signature[4]],
   y_parity |-> signature[5].uint % 2 = 0]

EvmChainOf(signature) == signature[6].uint

is_valid_eth_signature(msg_hash, signature, eth_address) ==
  Recovers(msg_hash, extract_signature(signature), eth_address)

resource_bounds_as_felts(resource_bounds) ==
  [i \in 1..3 * Len(resource_bounds) |->
     LET rb == resource_bounds[((i - 1) \div 3) + 1]
     IN CASE i % 3 = 1 -> rb.resource
          [] i % 3 = 2 -> rb.max_amount
          [] i % 3 = 0 -> rb.max_price_per_unit]
=============================================================================
