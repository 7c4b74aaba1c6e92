-------------------------- MODULE SendTxProperties --------------------------
(* What may and must come of the runs of send_tx.py. *)
EXTENDS SendTx

Txs == mempool \cup Included

TypeOK ==
  /\ \A r \in Runs :
       /\ run[r].phase \in {"idle", "printed", "get_nonce", "sending", "sent", "refused",
                            "done", "failed"}
       /\ run[r].phase \in {"sending", "sent", "refused"} => run[r].tx.nonce \in Nat
  /\ mempool \subseteq {run[r].tx : r \in {q \in Runs : "tx" \in DOMAIN run[q]}}
  /\ sealed \in 0..Len(ledger)
  /\ now \in 0..MaxTime

-----------------------------------------------------------------------------
\* The calls the command line asks for, as an account takes them.
CallsOf(args) ==
  LET asked == IF args.calls = None THEN <<DEFAULT_CALL>> ELSE args.calls
  IN [i \in DOMAIN asked |->
        [to |-> asked[i].address, selector |-> asked[i].selector, calldata |-> asked[i].data]]

\* The key the command line names owns the account, and the chain's name is right.
Authorised(args, account) ==
  args.sn_chain_id = Chain /\ args.eth_private_key = Owner[account]

AskedTx(args, i) ==
  /\ ~args.efo /\ ~args.dry_run
  /\ args.account = ledger[i].account
  /\ Authorised(args, ledger[i].account)
  /\ CallsOf(args) = DecodeCalls(ledger[i].tx.calldata, 1).calls

AskedEfo(args, i) ==
  LET oe == DecodeOutsideExecution(ledger[i].efo).oe
  IN /\ args.efo
     /\ LowHalf(args.account) = LowHalf(ledger[i].account)
     /\ Authorised(args, ledger[i].account)
     /\ CallsOf(args) = oe.calls
     /\ args.sender \in {None, oe.caller}
     /\ args.nonce \in {None, oe.nonce}
     /\ args.execute_after = oe.execute_after /\ args.execute_before = oe.execute_before

\* Whatever an account executed, some run was asked for in just these terms: the mode,
\* no --dry-run, the account (an outside execution: its signed half), its owner's key, the
\* node's chain, the calls and the window.  Nothing the node, a relayer or another run
\* does makes anything else of a signature.
OnlyAsked ==
  \A i \in DOMAIN ledger : \E r \in Runs :
    /\ run[r] # Idle
    /\ IF i \in Transactions THEN AskedTx(run[r].args, i) ELSE AskedEfo(run[r].args, i)

\* Running the script again before the first transaction is in, because it seemed lost or
\* came back with an error, cannot execute the calls twice: of two runs for an account
\* only one comes through, unless the other read its nonce after that one was included.
RetryExcluded ==
  \A i, j \in Transactions : \A r \in Runs :
    /\ i < j /\ ledger[i].account = ledger[j].account
    /\ "tx" \in DOMAIN run[r] /\ run[r].tx = ledger[j].tx
    => ledger[i].tx \in run[r].seen

\* What the node can find wrong with a transaction whose nonce is good.
Unfit(args) ==
  \/ ~Authorised(args, args.account)
  \/ \E i \in DOMAIN CallsOf(args) :
       \/ ~IsFelt(CallsOf(args)[i].to) \/ ~IsFelt(CallsOf(args)[i].selector)
       \/ \E j \in DOMAIN CallsOf(args)[i].calldata : ~IsFelt(CallsOf(args)[i].calldata[j])

\* The node refuses nothing but what is wrong with the command line, or what lost a race:
\* another transaction took the nonce and was not included when the run asked for it.
RefusedForCause ==
  \A r \in Runs : run[r].phase = "refused" =>
    \/ Unfit(run[r].args)
    \/ \E t \in Txs \ run[r].seen :
         t.sender_address = run[r].args.account /\ t.nonce = run[r].tx.nonce

-----------------------------------------------------------------------------
SealedEntries == {ledger[i] : i \in 1..sealed}

\* What the node has admitted is executed, and in the end for good, though pending blocks
\* are taken back: no transaction waits for a nonce that never comes.
SentExecutes ==
  \A r \in Runs :
    ("tx" \in DOMAIN run[r] /\ run[r].tx \in mempool)
      ~> [](\E e \in SealedEntries : {"tx"} \subseteq DOMAIN e \cap DOMAIN run[r] /\ e.tx = run[r].tx)

\* A printed outside execution that names the owner's key, the chain and felts, some
\* relayer as sender or none, and leaves the window open.
Usable(r) ==
  LET args == run[r].args
  IN /\ run[r].phase = "printed"
     /\ args.account \in DOMAIN Owner
     /\ ~Unfit(args)
     /\ args.sender \in Relayers \cup {None}
     /\ args.execute_after = 0 /\ args.execute_before = U64 - 1
     /\ args.nonce # None => IsFelt(args.nonce)
     /\ IsFelt(args.evm_chain_id)

\* Two runs that are to have one nonce: by --nonce, or as they ran in the same second.
SameNonce(q, r) ==
  IF run[q].args.nonce = None /\ run[r].args.nonce = None
  THEN run[q].at = run[r].at
  ELSE DecodeOutsideExecution(run[q].felts).oe.nonce = DecodeOutsideExecution(run[r].felts).oe.nonce

UsedUp(r) ==
  /\ run[r].phase = "printed"
  /\ \E e \in SealedEntries, q \in Runs :
       /\ "efo" \in DOMAIN e /\ e.account = run[r].args.account
       /\ run[q].phase = "printed" /\ e.efo = run[q].felts
       /\ q = r \/ SameNonce(q, r)

\* The calldata --efo prints is what the account reads and accepts: relayers get it
\* executed, unless one with the same nonce came before it.
PrintedExecutes == \A r \in Runs : Usable(r) ~> []UsedUp(r)
=============================================================================
