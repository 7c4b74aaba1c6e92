---------------------------- MODULE AccountTests ----------------------------
(***************************************************************************)
(* What test.cairo and test_utils.cairo ask of the signatures: the request *)
(* each test builds, the signature it presents, and whether the account's  *)
(* check of that signature must succeed.                                   *)
(***************************************************************************)
EXTENDS TestSignatures, Eth712Utils

\* The fixtures; p holds the constants of test_utils.cairo.
build_outside_execution_with_specific_caller(p, nonce, caller) ==
  [caller |-> caller, nonce |-> nonce, execute_after |-> 1000,
   execute_before |-> p.execute_before, calls |-> <<>>]

build_outside_execution_with_calls(p, calls, nonce) ==
  [caller |-> ANY_CALLER, nonce |-> nonce, execute_after |-> 1000,
   execute_before |-> p.execute_before, calls |-> calls]

get_approve_call(p) ==
  [to |-> p.token, selector |-> Selectors["approve"], calldata |-> <<4660, p.approve_amount, 0>>]

build_transfer_call(p, amount) ==
  [to |-> p.token, selector |-> Selectors["transfer"], calldata |-> <<22136, amount, 0>>]

UpgradeCall(p) ==
  [to |-> p.address, selector |-> Selectors["upgrade"], calldata |-> <<p.class_hash, 1>>]

validate_resource_bounds ==
  <<[resource |-> L1_GAS_ID, max_amount |-> 100, max_price_per_unit |-> 1000],
    [resource |-> L2_GAS_ID, max_amount |-> 200, max_price_per_unit |-> 2000],
    [resource |-> L1_DATA_ID, max_amount |-> 300, max_price_per_unit |-> 3000]>>

\* What setup_validate_test makes __validate__ find in the transaction.
ValidateMetadata(nonce) ==
  [version |-> 3, chain_id |-> ChainIds["SN_MAIN"],
   execution_resources |-> resource_bounds_as_felts(validate_resource_bounds),
   tip |-> 0, nonce |-> nonce]

-----------------------------------------------------------------------------
Outside(fn, oe, valid) == [fn |-> fn, kind |-> "outside", request |-> oe, valid |-> valid]

Validate(fn, calls, nonce, valid) ==
  [fn |-> fn, kind |-> "validate",
   request |-> [calls |-> calls, metadata |-> ValidateMetadata(nonce)], valid |-> valid]

\* execute_from_outside_v2 reaches the calls, or fails for the signature.
OutsideTests(p) ==
  LET empty == build_outside_execution_with_calls(p, <<>>, 1)
  IN {Outside("get_outside_execution_signature", empty, TRUE),
      Outside("get_signature_evm_chain_id_2", empty, TRUE),
      Outside("get_signature_wrong_sn_chain_name", empty, FALSE),
      Outside("get_signature_wrong_contract_address", empty, FALSE),
      Outside("get_single_call_approve_signature",
              build_outside_execution_with_calls(p, <<get_approve_call(p)>>, 100), TRUE),
      Outside("get_multi_call_signature",
              build_outside_execution_with_calls(
                p, <<get_approve_call(p), build_transfer_call(p, 100)>>, 101), TRUE),
      Outside("get_atomicity_test_signature",
              build_outside_execution_with_calls(
                p, <<get_approve_call(p), build_transfer_call(p, 1000 + 1)>>, 102), TRUE),
      Outside("get_specific_caller_signature",
              build_outside_execution_with_specific_caller(p, 103, 51966), TRUE)}

ValidateTests(p) ==
  {Validate("get_validate_empty_calls_signature", <<>>, 0, TRUE),
   Validate("get_validate_empty_calls_signature", <<>>, 999, FALSE),
   Validate("get_validate_with_approve_signature", <<get_approve_call(p)>>, 1, TRUE),
   Validate("get_validate_wrong_chain_signature", <<>>, 0, FALSE)}

\* The tests that also replace the class by the one of class_hash, which has to be declared.
UpgradeTests(p) ==
  {Outside("get_efo_upgrade_signature",
           build_outside_execution_with_calls(p, <<UpgradeCall(p)>>, 200), TRUE),
   Validate("get_validate_upgrade_signature", <<UpgradeCall(p)>>, 2, TRUE)}

\* The account at the fixed address, on SN_MAIN, owned by the key's address.
Accepts(p, test, signature) ==
  /\ IsSignature(signature)
  /\ is_valid_eth_signature(
       IF test.kind = "outside"
       THEN get_outside_execution_hash(test.request, EvmChainOf(signature),
                                       ChainIds["SN_MAIN"], p.address)
       ELSE get_transaction_hash(test.request.calls, test.request.metadata,
                                 EvmChainOf(signature), ChainIds["SN_MAIN"], p.address),
       signature, PRIVATE_KEY)

\* The last felt of a good signature replaced by another EVM chain's id.
Tampered(signature) == [signature EXCEPT ![6] = Uint(2)]

TestPasses(p, test, signature) ==
  /\ Accepts(p, test, signature) = test.valid
  /\ test.fn = "get_outside_execution_signature" => ~Accepts(p, test, Tampered(signature))
=============================================================================
