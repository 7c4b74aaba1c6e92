------------------------------- MODULE Eip712 -------------------------------
(***************************************************************************)
(* eip712.py: the EIP-712 hashes of transactions and outside executions    *)
(* the scripts sign, and the signature as the six felts the account takes. *)
(*                                                                         *)
(* A call is [to, selector, calldata]; an outside execution, oe, has the   *)
(* fields calls, caller, nonce, execute_after, execute_before; metadata    *)
(* version, chain_id, execution_resources, tip, nonce.                     *)
(***************************************************************************)
EXTENDS Keccak

\* Raises for what does not fit 32 bytes: see Encodable.
to_bytes32(val) == Uint(val)

keccak_ints(values) == keccak256(values)

hash_felt_array(felts) == keccak256([i \in DOMAIN felts |-> to_bytes32(felts[i])])

\* The low half of an address: the full one is too long for the field.
LowHalf(contract_address) == contract_address % HALF

\* Mutants: no chain name; the whole address.
NamelessDomain(sn_chain_name, contract_address, evm_chain_id) ==
  keccak_ints(<<EIP712_DOMAIN_TYPE_HASH, VERSION_HASH, VERSION_HASH,
                to_bytes32(evm_chain_id), to_bytes32(LowHalf(contract_address))>>)
WholeAddressDomain(sn_chain_name, contract_address, evm_chain_id) ==
  keccak_ints(<<EIP712_DOMAIN_TYPE_HASH, keccak256(<<Text(sn_chain_name)>>), VERSION_HASH,
                to_bytes32(evm_chain_id), to_bytes32(contract_address)>>)

domain_separator(sn_chain_name, contract_address, evm_chain_id) ==
  keccak_ints(<<EIP712_DOMAIN_TYPE_HASH, keccak256(<<Text(sn_chain_name)>>), VERSION_HASH,
                to_bytes32(evm_chain_id), to_bytes32(LowHalf(contract_address))>>)

hash_call(call) ==
  keccak_ints(<<CALL_TYPE_HASH, to_bytes32(call.to), to_bytes32(call.selector),
                hash_felt_array(call.calldata)>>)

hash_call_array(calls) == keccak256([i \in DOMAIN calls |-> hash_call(calls[i])])

\* Mutant: the window's ends change places.
SwappedWindow(oe) ==
  keccak_ints(<<OUTSIDE_EXECUTION_TYPE_HASH, hash_call_array(oe.calls), to_bytes32(oe.caller),
                to_bytes32(oe.nonce), to_bytes32(oe.execute_before), to_bytes32(oe.execute_after)>>)

hash_outside_execution(oe) ==
  keccak_ints(<<OUTSIDE_EXECUTION_TYPE_HASH, hash_call_array(oe.calls), to_bytes32(oe.caller),
                to_bytes32(oe.nonce), to_bytes32(oe.execute_after), to_bytes32(oe.execute_before)>>)

\* Mutant: the nonce is not signed.
NoncelessMetadata(metadata) ==
  keccak_ints(<<TRANSACTION_METADATA_TYPE_HASH, to_bytes32(metadata.version),
                to_bytes32(metadata.chain_id), hash_felt_array(metadata.execution_resources),
                to_bytes32(metadata.tip), to_bytes32(metadata.tip)>>)

hash_transaction_metadata(metadata) ==
  keccak_ints(<<TRANSACTION_METADATA_TYPE_HASH, to_bytes32(metadata.version),
                to_bytes32(metadata.chain_id), hash_felt_array(metadata.execution_resources),
                to_bytes32(metadata.tip), to_bytes32(metadata.nonce)>>)

hash_transaction(calls, metadata) ==
  keccak_ints(<<TRANSACTION_TYPE_HASH, hash_call_array(calls), hash_transaction_metadata(metadata)>>)

outside_execution_msg_hash(oe, sn_chain_name, contract_address, evm_chain_id) ==
  keccak256(<<Eip191, domain_separator(sn_chain_name, contract_address, evm_chain_id),
              hash_outside_execution(oe)>>)

transaction_msg_hash(calls, metadata, sn_chain_name, contract_address, evm_chain_id) ==
  keccak256(<<Eip191, domain_separator(sn_chain_name, contract_address, evm_chain_id),
              hash_transaction(calls, metadata)>>)

\* Every number of the message fits 32 bytes; signing raises OverflowError if not.
EncodableCalls(calls) ==
  \A i \in DOMAIN calls :
    /\ IsWord(calls[i].to) /\ IsWord(calls[i].selector)
    /\ \A j \in DOMAIN calls[i].calldata : IsWord(calls[i].calldata[j])

Encodable(calls, numbers) == EncodableCalls(calls) /\ \A n \in numbers : IsWord(n)

\* Mutant: the halves of s change places.
SwappedHalves(msg_hash, private_key, evm_chain_id) ==
  <<Part("r_high", private_key, msg_hash), Part("r_low", private_key, msg_hash),
    Part("s_low", private_key, msg_hash), Part("s_high", private_key, msg_hash),
    Uint(IF IsYOdd(private_key, msg_hash) THEN 28 ELSE 27), Uint(evm_chain_id)>>

\* The six felts: r and s in halves, v, and the EVM chain the domain was built for.
sign_and_split(msg_hash, private_key, evm_chain_id) ==
  <<Part("r_high", private_key, msg_hash), Part("r_low", private_key, msg_hash),
    Part("s_high", private_key, msg_hash), Part("s_low", private_key, msg_hash),
    Uint(IF IsYOdd(private_key, msg_hash) THEN 28 ELSE 27), Uint(evm_chain_id)>>

\* The resource identifiers are three different felts.
L1_GAS_ID  == 1
L2_GAS_ID  == 2
L1_DATA_ID == 3

\* Resource bounds are given by resource: rb.l1_gas.max_amount and so on.
resource_bounds_to_felts(rb) ==
  <<L1_GAS_ID, rb.l1_gas.max_amount, rb.l1_gas.max_price_per_unit,
    L2_GAS_ID, rb.l2_gas.max_amount, rb.l2_gas.max_price_per_unit,
    L1_DATA_ID, rb.l1_data_gas.max_amount, rb.l1_data_gas.max_price_per_unit>>
=============================================================================
