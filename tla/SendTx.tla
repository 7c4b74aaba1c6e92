------------------------------- MODULE SendTx -------------------------------
(***************************************************************************)
(* send_tx.py, run by hand or by other programs, against a node.           *)
(*                                                                         *)
(* A run reads its command line, then either signs an outside execution    *)
(* and prints its calldata (--efo), or asks the node for the account's     *)
(* nonce, signs a transaction and sends it.  Between two awaits other runs *)
(* and the node go on; at each await a run may fail, and whoever started   *)
(* it may start another.  Relayers submit what was printed, to whichever   *)
(* account, as often as they like.                                         *)
(*                                                                         *)
(* The node keeps a mempool and a ledger: what was executed, the last part *)
(* of it in a pending block that may still be taken back.                  *)
(***************************************************************************)
EXTENDS Eip712, Eth712Utils, FiniteSets

CONSTANTS
  Runs,          (* the runs of the script                                     *)
  CommandLines,  (* the options a run may be given, a record of those present  *)
  Chain,         (* the name of the node's chain                               *)
  Owner,         (* the accounts on it: address -> its owner's key             *)
  Relayers,      (* the addresses that submit outside executions               *)
  None,          (* an option without default                                  *)
  U64,           (* 2^64: the timestamps are 0..U64-1                          *)
  DEFAULT_ETH_PRIVATE_KEY, DEFAULT_SN_CHAIN_ID, DEFAULT_EVM_CHAIN_ID, DEFAULT_CALL,
  MaxTime        (* bound: the clock                                           *)

\* A call as a calls file gives it; no list is so long that its length is no felt.
JsonCall == {c \in [address : Int, selector : Int, data : Seq(Int)] : Len(c.data) < FELT}

ASSUME SendTxAssumption ==
  /\ Chain \in DOMAIN ChainIds /\ DEFAULT_SN_CHAIN_ID \in DOMAIN ChainIds
  /\ DOMAIN Owner \subseteq 0..FELT - 1
  /\ 28 < FELT /\ U64 \in Nat /\ U64 <= FELT /\ MaxTime \in 0..U64 - 1
  /\ DEFAULT_CALL \in JsonCall
  /\ \A o \in CommandLines :
       /\ "account" \in DOMAIN o
       /\ "calls" \in DOMAIN o => o.calls \in Seq(JsonCall) /\ Len(o.calls) < FELT

VARIABLES
  run,      (* the state of each run, what it signed and saw included          *)
  mempool,  (* the transactions the node has accepted                          *)
  ledger,   (* what was executed, in order                                     *)
  sealed,   (* how much of the ledger is in closed blocks                      *)
  now       (* the time, in seconds                                            *)

vars == <<run, mempool, ledger, sealed, now>>

-----------------------------------------------------------------------------
\* The command line: argparse's defaults under the options given.
Defaults ==
  [calls |-> None, eth_private_key |-> DEFAULT_ETH_PRIVATE_KEY,
   sn_chain_id |-> DEFAULT_SN_CHAIN_ID, evm_chain_id |-> DEFAULT_EVM_CHAIN_ID,
   dry_run |-> FALSE, efo |-> FALSE, sender |-> None, nonce |-> None,
   execute_after |-> 0, execute_before |-> U64 - 1]

parse_args(options) ==
  [name \in DOMAIN Defaults \cup DOMAIN options |->
     IF name \in DOMAIN options THEN options[name] ELSE Defaults[name]]

\* A file holds an array of calls; a lone call counts as an array of one.
load_calls(args) == IF args.calls # None THEN args.calls ELSE <<DEFAULT_CALL>>

\* From [address, selector, data] to [to, selector, calldata].
normalize_call(call) ==
  [to |-> call.address, selector |-> call.selector, calldata |-> call.data]

canonical_calls(calls) == [i \in DOMAIN calls |-> normalize_call(calls[i])]

sn_chain_name_to_felt(name) == ChainIds[name]

\* The amounts and prices are told apart by value.
build_resource_bounds ==
  [l1_gas      |-> [max_amount |-> 0, max_price_per_unit |-> 1],
   l1_data_gas |-> [max_amount |-> 2, max_price_per_unit |-> 3],
   l2_gas      |-> [max_amount |-> 4, max_price_per_unit |-> 5]]

\* Mutant: the resources in the order of the mapping's fields.
DataGasSecond(rb) ==
  <<L1_GAS_ID, rb.l1_gas.max_amount, rb.l1_gas.max_price_per_unit,
    L1_DATA_ID, rb.l1_data_gas.max_amount, rb.l1_data_gas.max_price_per_unit,
    L2_GAS_ID, rb.l2_gas.max_amount, rb.l2_gas.max_price_per_unit>>

rb_mapping_to_felts(rb) ==
  <<L1_GAS_ID, rb.l1_gas.max_amount, rb.l1_gas.max_price_per_unit,
    L2_GAS_ID, rb.l2_gas.max_amount, rb.l2_gas.max_price_per_unit,
    L1_DATA_ID, rb.l1_data_gas.max_amount, rb.l1_data_gas.max_price_per_unit>>

-----------------------------------------------------------------------------
\* Calldata: felts, each length in front of what it counts.
Felts(numbers) == [i \in DOMAIN numbers |-> Uint(numbers[i])]

CallFelts(call) == Felts(<<call.address, call.selector, Len(call.data)>>) \o Felts(call.data)

serialize_calls_to_felts(calls) ==
  LET upto[n \in 0..Len(calls)] == IF n = 0 THEN <<Uint(Len(calls))>>
                                   ELSE upto[n - 1] \o CallFelts(calls[n])
  IN upto[Len(calls)]

serialize_efo_calldata(oe, calls, signature) ==
  Felts(<<oe.caller, oe.nonce, oe.execute_after, oe.execute_before>>)
    \o serialize_calls_to_felts(calls) \o <<Uint(Len(signature))>> \o signature

\* Reading an array of calls back from position `from` of the calldata, as the
\* account's entry points do; next is the position behind it.
DecodeCalls(felts, from) ==
  LET n == felts[from].uint
      start[k \in 1..n + 1] ==
        IF k = 1 THEN from + 1 ELSE start[k - 1] + 3 + felts[start[k - 1] + 2].uint
      CallAt(p) ==
        [to |-> felts[p].uint, selector |-> felts[p + 1].uint,
         calldata |-> [i \in 1..felts[p + 2].uint |-> felts[p + 2 + i].uint]]
  IN [calls |-> [k \in 1..n |-> CallAt(start[k])], next |-> start[n + 1]]

DecodeOutsideExecution(felts) ==
  LET decoded == DecodeCalls(felts, 5)
  IN [oe |-> [caller |-> felts[1].uint, nonce |-> felts[2].uint,
              execute_after |-> felts[3].uint, execute_before |-> felts[4].uint,
              calls |-> decoded.calls],
      signature |-> SubSeq(felts, decoded.next + 1, decoded.next + felts[decoded.next].uint)]

\* Nothing is sent or submitted that is no felt.
AllFelts(felts) == \A i \in DOMAIN felts : "uint" \in DOMAIN felts[i] => IsFelt(felts[i].uint)

-----------------------------------------------------------------------------
\* Signing, and what is sent or printed.

sign_tx(calls, metadata, args) ==
  sign_and_split(
    transaction_msg_hash(canonical_calls(calls), metadata, args.sn_chain_id, args.account,
                         args.evm_chain_id),
    args.eth_private_key, args.evm_chain_id)

sign_efo(oe, calls, args) ==
  sign_and_split(
    outside_execution_msg_hash(
      [caller |-> oe.caller, nonce |-> oe.nonce, execute_after |-> oe.execute_after,
       execute_before |-> oe.execute_before, calls |-> canonical_calls(calls)],
      args.sn_chain_id, args.account, args.evm_chain_id),
    args.eth_private_key, args.evm_chain_id)

Metadata(args, nonce) ==
  [version |-> 3, chain_id |-> sn_chain_name_to_felt(args.sn_chain_id),
   execution_resources |-> rb_mapping_to_felts(build_resource_bounds), tip |-> 0, nonce |-> nonce]

build_invoke_v3(args, nonce) ==
  [version |-> 3, tip |-> 0, nonce |-> nonce, sender_address |-> args.account,
   resource_bounds |-> build_resource_bounds,
   calldata |-> serialize_calls_to_felts(load_calls(args)),
   signature |-> sign_tx(load_calls(args), Metadata(args, nonce), args)]

\* Mutant: every outside execution has the nonce 0 unless given one.
ZeroNonce(args) == IF args.nonce # None THEN args.nonce ELSE 0

efo_nonce(args) == IF args.nonce # None THEN args.nonce ELSE now

OutsideExecutionOf(args) ==
  [caller |-> IF args.sender # None THEN args.sender ELSE ANY_CALLER,
   nonce |-> efo_nonce(args),
   execute_after |-> args.execute_after, execute_before |-> args.execute_before]

-----------------------------------------------------------------------------
\* The node: an entry of the ledger is a transaction of an account, its nonce used up
\* whatever became of its calls, or an outside execution that came through at one.

Transactions == {i \in DOMAIN ledger : "tx" \in DOMAIN ledger[i]}
Executions   == DOMAIN ledger \ Transactions
Included     == {ledger[i].tx : i \in Transactions}

\* The nonce an account has after the first n entries.
NonceAfter(account, n) == Cardinality({i \in Transactions : i <= n /\ ledger[i].account = account})

\* Mutants: the first nonce no transaction has; the nonce behind the account's; the
\* last one used.
NextFreeNonce(account) ==
  NonceAfter(account, Len(ledger)) + Cardinality({t \in mempool : t.sender_address = account})
SkippedNonce(account) == NonceAfter(account, Len(ledger)) + 1
LastNonce(account) == NonceAfter(account, Len(ledger)) - 1

\* block_id "pending": the pending block counts, the mempool does not.
get_nonce(account) == NonceAfter(account, Len(ledger))

UsedNonces(account) ==
  {DecodeOutsideExecution(ledger[i].efo).oe.nonce :
     i \in {j \in Executions : ledger[j].account = account}}

\* The bounds in the order the transaction lists them.
ResourceBounds(rb) ==
  <<[resource |-> L1_GAS_ID, max_amount |-> rb.l1_gas.max_amount,
     max_price_per_unit |-> rb.l1_gas.max_price_per_unit],
    [resource |-> L2_GAS_ID, max_amount |-> rb.l2_gas.max_amount,
     max_price_per_unit |-> rb.l2_gas.max_price_per_unit],
    [resource |-> L1_DATA_ID, max_amount |-> rb.l1_data_gas.max_amount,
     max_price_per_unit |-> rb.l1_data_gas.max_price_per_unit]>>

\* __validate__ hashes what the transaction carries.
Validates(tx) ==
  LET metadata == [version |-> tx.version, chain_id |-> ChainIds[Chain],
                   execution_resources |-> resource_bounds_as_felts(ResourceBounds(tx.resource_bounds)),
                   tip |-> tx.tip, nonce |-> tx.nonce]
  IN /\ IsSignature(tx.signature)
     /\ is_valid_eth_signature(
          get_transaction_hash(DecodeCalls(tx.calldata, 1).calls, metadata,
                               EvmChainOf(tx.signature), ChainIds[Chain], tx.sender_address),
          tx.signature, Owner[tx.sender_address])

\* execute_from_outside_v2, up to the calls.
Executes(felts, account, caller) ==
  LET d == DecodeOutsideExecution(felts)
  IN /\ d.oe.caller \in {ANY_CALLER, caller}
     /\ d.oe.execute_after \in 0..U64 - 1 /\ d.oe.execute_before \in 0..U64 - 1
     /\ d.oe.execute_after < now /\ now < d.oe.execute_before
     /\ d.oe.nonce \notin UsedNonces(account)
     /\ IsSignature(d.signature)
     /\ is_valid_eth_signature(
          get_outside_execution_hash(d.oe, EvmChainOf(d.signature), ChainIds[Chain], account),
          d.signature, Owner[account])

\* The mempool takes a transaction that validates and whose nonce is neither used nor
\* taken by another it holds.
Admits(tx) ==
  /\ tx.sender_address \in DOMAIN Owner
  /\ AllFelts(tx.calldata)
  /\ tx.nonce >= NonceAfter(tx.sender_address, Len(ledger))
  /\ \A t \in mempool : t.sender_address = tx.sender_address => t.nonce # tx.nonce
  /\ Validates(tx)

-----------------------------------------------------------------------------
Idle == [phase |-> "idle"]

Init ==
  /\ run = [r \in Runs |-> Idle]
  /\ mempool = {}
  /\ ledger = <<>>
  /\ sealed = 0
  /\ now = 0

Goes(r, state) == run' = [run EXCEPT ![r] = state]

\* main with --efo awaits nothing: handle_efo signs and prints, --dry-run or not.
PrintsEfo(r, options) ==
  LET args  == parse_args(options)
      calls == load_calls(args)
      oe    == OutsideExecutionOf(args)
  IN /\ run[r] = Idle
     /\ args.efo
     /\ Goes(r, IF Encodable(canonical_calls(calls),
                     {oe.caller, oe.nonce, oe.execute_after, oe.execute_before, args.evm_chain_id})
                THEN [phase |-> "printed", args |-> args, at |-> now,
                      felts |-> serialize_efo_calldata(oe, calls, sign_efo(oe, calls, args))]
                ELSE [phase |-> "failed", args |-> args])
     /\ UNCHANGED <<mempool, ledger, sealed, now>>

Starts(r, options) ==
  /\ run[r] = Idle
  /\ ~parse_args(options).efo
  /\ Goes(r, [phase |-> "get_nonce", args |-> parse_args(options)])
  /\ UNCHANGED <<mempool, ledger, sealed, now>>

Sending(args, nonce) ==
  [phase |-> "sending", args |-> args, tx |-> build_invoke_v3(args, nonce), seen |-> Included]

\* Mutant: --dry-run is looked at too late.
SendsAnyway(r) ==
  /\ run[r].phase = "get_nonce"
  /\ run[r].args.account \in DOMAIN Owner
  /\ Encodable(canonical_calls(load_calls(run[r].args)), {run[r].args.evm_chain_id})
  /\ Goes(r, Sending(run[r].args, get_nonce(run[r].args.account)))
  /\ UNCHANGED <<mempool, ledger, sealed, now>>

\* get_nonce answers; the transaction is signed and, but for --dry-run, about to be sent.
Signs(r) ==
  LET args == run[r].args
  IN /\ run[r].phase = "get_nonce"
     /\ args.account \in DOMAIN Owner
     /\ Goes(r, IF ~Encodable(canonical_calls(load_calls(args)), {args.evm_chain_id})
                THEN [phase |-> "failed", args |-> args]
                ELSE IF args.dry_run
                THEN [phase |-> "done", args |-> args]
                ELSE Sending(args, get_nonce(args.account)))
     /\ UNCHANGED <<mempool, ledger, sealed, now>>

\* send_transaction reaches the node, the answer still to come; late, perhaps, or once
\* more, when the run has given up.
NodeAdmits(r) ==
  /\ run[r].phase = "sending" \/ (run[r].phase = "failed" /\ "tx" \in DOMAIN run[r])
  /\ Admits(run[r].tx)
  /\ mempool' = mempool \cup {run[r].tx}
  /\ Goes(r, [run[r] EXCEPT !.phase = IF @ = "sending" THEN "sent" ELSE @])
  /\ UNCHANGED <<ledger, sealed, now>>

NodeRefuses(r) ==
  /\ run[r].phase = "sending"
  /\ ~Admits(run[r].tx)
  /\ Goes(r, [run[r] EXCEPT !.phase = "refused"])
  /\ UNCHANGED <<mempool, ledger, sealed, now>>

Answered(r) ==
  /\ run[r].phase = "sent"
  /\ Goes(r, [run[r] EXCEPT !.phase = "done"])
  /\ UNCHANGED <<mempool, ledger, sealed, now>>

\* At an await: an RPC error, a lost connection, a timeout, an interrupt.
Fails(r) ==
  /\ run[r].phase \in {"get_nonce", "sending", "sent"}
  /\ Goes(r, [run[r] EXCEPT !.phase = "failed"])
  /\ UNCHANGED <<mempool, ledger, sealed, now>>

-----------------------------------------------------------------------------
\* The sequencer takes a transaction into the pending block.
Includes(tx) ==
  /\ tx \in mempool
  /\ tx.nonce = NonceAfter(tx.sender_address, Len(ledger))
  /\ ledger' = Append(ledger, [account |-> tx.sender_address, tx |-> tx])
  /\ mempool' = mempool \ {tx}
  /\ UNCHANGED <<run, sealed, now>>

\* A relayer submits what a run has printed, to the account it likes.
Submits(caller, r, account) ==
  /\ run[r].phase = "printed"
  /\ AllFelts(run[r].felts)
  /\ Executes(run[r].felts, account, caller)
  /\ ledger' = Append(ledger, [account |-> account, efo |-> run[r].felts])
  /\ UNCHANGED <<run, mempool, sealed, now>>

Seals ==
  /\ sealed < Len(ledger)
  /\ sealed' = Len(ledger)
  /\ UNCHANGED <<run, mempool, ledger, now>>

\* The pending block is given up; its transactions are pending again.
TakesBack ==
  /\ sealed < Len(ledger)
  /\ mempool' = mempool \cup {ledger[i].tx : i \in {j \in Transactions : j > sealed}}
  /\ ledger' = SubSeq(ledger, 1, sealed)
  /\ UNCHANGED <<run, sealed, now>>

\* Time goes on, and is counted up to MaxTime.
Tick ==
  /\ now' = IF now < MaxTime THEN now + 1 ELSE now
  /\ UNCHANGED <<run, mempool, ledger, sealed>>

Next ==
  \/ \E r \in Runs, options \in CommandLines : PrintsEfo(r, options)
  \/ \E r \in Runs, options \in CommandLines : Starts(r, options)
  \/ \E r \in Runs : Signs(r)
  \/ \E r \in Runs : NodeAdmits(r)
  \/ \E r \in Runs : NodeRefuses(r)
  \/ \E r \in Runs : Answered(r)
  \/ \E r \in Runs : Fails(r)
  \/ \E tx \in mempool : Includes(tx)
  \/ \E caller \in Relayers, r \in Runs, account \in DOMAIN Owner : Submits(caller, r, account)
  \/ Seals
  \/ TakesBack
  \/ Tick

Spec == Init /\ [][Next]_vars

\* The sequencer does not starve a transaction it could take, and does not take back its
\* pending block for ever; relayers go on submitting what was printed to the account it was
\* printed for; time passes.  Nothing makes a run start, or go on.
FairSpec ==
  /\ Spec
  /\ \A r \in Runs : SF_vars("tx" \in DOMAIN run[r] /\ Includes(run[r].tx))
  /\ \A r \in Runs :
       SF_vars(/\ run[r].phase = "printed" /\ run[r].args.account \in DOMAIN Owner
               /\ \E caller \in Relayers : Submits(caller, r, run[r].args.account))
  /\ SF_vars(Seals)
  /\ WF_vars(Tick)
=============================================================================
