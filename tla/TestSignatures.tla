--------------------------- MODULE TestSignatures ---------------------------
(***************************************************************************)
(* generate_test_signatures.py: the thirteen signatures it makes for the   *)
(* tests of the account, as the functions it writes into test_utils.cairo. *)
(*                                                                         *)
(* p holds the constants developers may change, in the script and in       *)
(* test_utils.cairo: address and token, the fixed addresses; class_hash,   *)
(* FIXED_UPGRADE_TARGET_CLASS_HASH; execute_before; approve_amount.        *)
(***************************************************************************)
EXTENDS Eip712

CONSTANTS
  Selectors,    (* entry point -> selector                                     *)
  PRIVATE_KEY

\* Constants with one value; those with versions are fields of the parameters p.
EXECUTE_AFTER          == 1000
TEST_NONCE             == 1
ETH_CHAIN_ID           == 1
SN_CHAIN_ID            == "SN_MAIN"
TEST_SPENDER           == 4660
TEST_RECIPIENT         == 22136
SPECIFIC_CALLER        == 51966
WRONG_CONTRACT_ADDRESS == 57005

selector(name) == Selectors[name]

sign_outside_execution(oe, contract_address, evm_chain_id, sn_chain_name) ==
  sign_and_split(outside_execution_msg_hash(oe, sn_chain_name, contract_address, evm_chain_id),
                 PRIVATE_KEY, evm_chain_id)

sign_transaction(calls, metadata, contract_address, sn_chain_name) ==
  sign_and_split(
    transaction_msg_hash(calls, metadata, sn_chain_name, contract_address, ETH_CHAIN_ID),
    PRIVATE_KEY, ETH_CHAIN_ID)

VALIDATE_RESOURCE_BOUNDS ==
  resource_bounds_to_felts(
    [l1_gas      |-> [max_amount |-> 100, max_price_per_unit |-> 1000],
     l2_gas      |-> [max_amount |-> 200, max_price_per_unit |-> 2000],
     l1_data_gas |-> [max_amount |-> 300, max_price_per_unit |-> 3000]])

build_validate_metadata(nonce) ==
  [version |-> 3, chain_id |-> ChainIds[SN_CHAIN_ID],
   execution_resources |-> VALIDATE_RESOURCE_BOUNDS, tip |-> 0, nonce |-> nonce]

\* Mutant: the caller given is forgotten.
AnyCallerOe(p, calls, nonce, caller) ==
  [caller |-> ANY_CALLER, nonce |-> nonce, execute_after |-> EXECUTE_AFTER,
   execute_before |-> p.execute_before, calls |-> calls]

build_oe(p, calls, nonce, caller) ==
  [caller |-> caller, nonce |-> nonce, execute_after |-> EXECUTE_AFTER,
   execute_before |-> p.execute_before, calls |-> calls]

AmountCall(name, token, recipient, amount) ==
  [to |-> token, selector |-> selector(name),
   calldata |-> <<recipient, amount % HALF, amount \div HALF>>]

approve_call(token, spender, amount)    == AmountCall("approve", token, spender, amount)
transfer_call(token, recipient, amount) == AmountCall("transfer", token, recipient, amount)

upgrade_call(contract_address, class_hash) ==
  [to |-> contract_address, selector |-> selector("upgrade"), calldata |-> <<class_hash, 1>>]

-----------------------------------------------------------------------------
\* One operator per generate_ function; an outside execution of `calls` by default has
\* any caller and is signed for the account on SN_MAIN from the EVM chain 1.

OutsideSignature(p, calls, nonce) ==
  sign_outside_execution(build_oe(p, calls, nonce, ANY_CALLER), p.address,
                         ETH_CHAIN_ID, SN_CHAIN_ID)

generate_basic_outside_execution(p, contract_address, evm_chain_id, sn_chain_name) ==
  sign_outside_execution(build_oe(p, <<>>, TEST_NONCE, ANY_CALLER), contract_address,
                         evm_chain_id, sn_chain_name)

generate_wrong_sn_chain_name(p) ==
  generate_basic_outside_execution(p, p.address, ETH_CHAIN_ID, "SN_SEPOLIA")

generate_wrong_contract_address(p) ==
  generate_basic_outside_execution(p, WRONG_CONTRACT_ADDRESS, ETH_CHAIN_ID, SN_CHAIN_ID)

generate_single_call_approve_test(p, amount, nonce) ==
  OutsideSignature(p, <<approve_call(p.token, TEST_SPENDER, amount)>>, nonce)

generate_multi_call_test(p, approve_amount, transfer_amount, nonce) ==
  OutsideSignature(p, <<approve_call(p.token, TEST_SPENDER, approve_amount),
                        transfer_call(p.token, TEST_RECIPIENT, transfer_amount)>>, nonce)

generate_atomicity_test(p, approve_amount, transfer_amount, nonce) ==
  OutsideSignature(p, <<approve_call(p.token, TEST_SPENDER, approve_amount),
                        transfer_call(p.token, TEST_RECIPIENT, transfer_amount)>>, nonce)

generate_specific_caller_test(p, caller, nonce) ==
  sign_outside_execution(build_oe(p, <<>>, nonce, caller), p.address, ETH_CHAIN_ID, SN_CHAIN_ID)

generate_efo_upgrade_test(p, nonce) ==
  OutsideSignature(p, <<upgrade_call(p.address, p.class_hash)>>, nonce)

generate_validate_empty_calls(p) ==
  sign_transaction(<<>>, build_validate_metadata(0), p.address, SN_CHAIN_ID)

generate_validate_with_approve(p, amount, nonce) ==
  sign_transaction(<<approve_call(p.token, TEST_SPENDER, amount)>>,
                   build_validate_metadata(nonce), p.address, SN_CHAIN_ID)

generate_validate_wrong_chain(p) ==
  sign_transaction(<<>>, build_validate_metadata(0), p.address, "SN_SEPOLIA")

generate_validate_upgrade(p, nonce) ==
  sign_transaction(<<upgrade_call(p.address, p.class_hash)>>,
                   build_validate_metadata(nonce), p.address, SN_CHAIN_ID)

\* A function that answers the six numbers of sig.
format_signature_cairo(sig, fn_name) == [fn |-> fn_name, felts |-> sig]

generate_all_signatures(p) ==
  <<format_signature_cairo(
      generate_basic_outside_execution(p, p.address, ETH_CHAIN_ID, SN_CHAIN_ID),
      "get_outside_execution_signature"),
    format_signature_cairo(generate_basic_outside_execution(p, p.address, 2, SN_CHAIN_ID),
      "get_signature_evm_chain_id_2"),
    format_signature_cairo(generate_wrong_sn_chain_name(p), "get_signature_wrong_sn_chain_name"),
    format_signature_cairo(generate_wrong_contract_address(p),
      "get_signature_wrong_contract_address"),
    format_signature_cairo(generate_single_call_approve_test(p, p.approve_amount, 100),
      "get_single_call_approve_signature"),
    format_signature_cairo(generate_multi_call_test(p, p.approve_amount, 100, 101),
      "get_multi_call_signature"),
    format_signature_cairo(generate_atomicity_test(p, p.approve_amount, 1000 + 1, 102),
      "get_atomicity_test_signature"),
    format_signature_cairo(generate_specific_caller_test(p, SPECIFIC_CALLER, 103),
      "get_specific_caller_signature"),
    format_signature_cairo(generate_validate_empty_calls(p), "get_validate_empty_calls_signature"),
    format_signature_cairo(generate_validate_with_approve(p, p.approve_amount, 1),
      "get_validate_with_approve_signature"),
    format_signature_cairo(generate_validate_wrong_chain(p), "get_validate_wrong_chain_signature"),
    format_signature_cairo(generate_efo_upgrade_test(p, 200), "get_efo_upgrade_signature"),
    format_signature_cairo(generate_validate_upgrade(p, 2), "get_validate_upgrade_signature")>>
=============================================================================
