------------------------------ MODULE MCSendTx ------------------------------
(* Instances of SendTx for TLC. *)
EXTENDS SendTxProperties, TLC

MCChainIds == [SN_MAIN |-> 20, SN_SEPOLIA |-> 21]
MCYParity(key, digest) == IF key = "alice" THEN 1 ELSE 0

\* Alice owns two accounts whose addresses agree in the signed half.
MCOwner == (1 :> "alice") @@ (5 :> "alice") @@ (2 :> "bob")

MC_DEFAULT_CALL == [address |-> 4, selector |-> 3, data |-> <<6, 0, 0>>]

Call(selector, data) == [address |-> 7, selector |-> selector, data |-> data]

TwoCalls == <<Call(8, <<>>), Call(9, <<1>>)>>

Plain == [account |-> 1]

\* Regular transactions: those that go through, and one wrong thing in each of the rest.
Sent ==
  {Plain, Plain @@ [calls |-> TwoCalls], [account |-> 2, eth_private_key |-> "bob"]}

Mistaken ==
  {[account |-> 2], Plain @@ [sn_chain_id |-> "SN_MAIN"], Plain @@ [dry_run |-> TRUE],
   Plain @@ [calls |-> <<Call(-1, <<>>)>>], Plain @@ [calls |-> <<Call(8, <<FELT>>)>>]}

\* Outside executions.
Efo(account) == [account |-> account, efo |-> TRUE]

Printed ==
  {Efo(1), Efo(1) @@ [calls |-> TwoCalls, nonce |-> 1], Efo(5) @@ [sender |-> 10]}

Misprinted ==
  {Efo(2), Efo(1) @@ [sender |-> 11], Efo(1) @@ [execute_before |-> 1],
   Efo(1) @@ [execute_before |-> WORD], Efo(1) @@ [nonce |-> FELT],
   Efo(1) @@ [sn_chain_id |-> "SN_MAIN"]}

AllLines == Sent \cup Mistaken \cup Printed \cup Misprinted

\* Fewer lines for liveness: each outcome once, and the outside executions that can meet.
FairLines ==
  {Plain @@ [calls |-> TwoCalls], Plain @@ [sn_chain_id |-> "SN_MAIN"],
   Efo(1), Efo(1) @@ [calls |-> TwoCalls, nonce |-> 1], Efo(5) @@ [sender |-> 10]}

\* The runs are alike.
RunSymmetry == Permutations(Runs)
=============================================================================
