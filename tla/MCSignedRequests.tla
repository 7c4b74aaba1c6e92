-------------------------- MODULE MCSignedRequests --------------------------
(* Instances of SignedRequests for TLC. *)
EXTENDS SignedRequests

MCChainIds == [SN_MAIN |-> 20, SN_SEPOLIA |-> 21]
MCYParity(key, digest) == IF key = "alice" THEN 1 ELSE 0

C(to, selector, calldata) == [to |-> to, selector |-> selector, calldata |-> calldata]

\* One call or two, in either order, and calldata cut in different places.
Batches ==
  {<<>>, <<C(1, 2, <<3>>)>>, <<C(1, 2, <<3>>), C(2, 1, <<>>)>>, <<C(2, 1, <<>>), C(1, 2, <<3>>)>>,
   <<C(1, 2, <<3, 3>>)>>}

MCOutsideExecutions ==
  {[calls |-> b, caller |-> c, nonce |-> n, execute_after |-> w[1], execute_before |-> w[2]] :
     b \in Batches, c \in {ANY_CALLER, 1}, n \in {0, 1}, w \in {<<0, 1>>, <<1, 0>>}}

MCTransactions ==
  {[calls |-> b,
    metadata |-> [version |-> 3, chain_id |-> id, execution_resources |-> r,
                  tip |-> n[1], nonce |-> n[2]]] :
     b \in Batches, id \in {20, 21}, r \in {<<1, 0, 5>>, <<1, 5, 0>>}, n \in {<<0, 1>>, <<0, 0>>}}
=============================================================================
