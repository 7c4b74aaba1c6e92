# TLA+ models of earn-contracts

This directory holds TLA+ models of the contracts, of the signing scripts and of the deployment
tool of this repository, the TLC configurations that model-check them, and proofs of their theorems for
TLAPS. Paths such as `strategy_implementation/src/utils.cairo` are relative to the
repository's root.

* [The system](#the-system): components, state, interactions, what is hard about them
* [Modules](#modules): which module models what, and how it corresponds to the code
* [Runs](#runs): what each TLC run checks, its bounds
* [Fairness and deadlock](#fairness-and-deadlock)
* [Assumptions](#assumptions)
* [Proofs](#proofs)
* [Where code and documents disagree](#where-code-and-documents-disagree)
* [What is not modelled](#what-is-not-modelled)
* [Plan](#plan)

To check a run: `tlc -config strategy_nested.cfg MCStrategyImplementation.tla` (each
configuration's module is in the table of runs). To check the proofs:
`tlapm StrategyImplementationProofs.tla`, and so on for the other modules of proofs.

## The system

The contracts let the holder of an Ethereum key own a Starknet account, and let an
application open earning positions for such an owner with tokens that arrive on Starknet.

| Component | State | Operations | Talks to |
|---|---|---|---|
| `StrategyImplementation` (`strategy_implementation/`) | `earn_reporter`; balances and allowances in other contracts between two calls | `apply`, `apply_on_self` (self only), `set_earn_reporter` | pulls tokens from its caller; `AccountFactory.deploy_account`; itself, by a safe dispatcher; ERC-4626 vaults, the Avnu exchange; `EarnReporter` |
| Strategy routing (`utils.cairo`, `known_addresses.cairo`) | none | `strategy_from_protocol_and_token`, `strategy_address` | - |
| `AccountFactory` (`account_factory/`) | `account_class_hash` | `set_account_class_hash`, `deploy_account`, `eth_address_to_account` | deploys a `Primer`, calls its `set_class_hash`, then the account's `initialize` |
| `Primer` (`contracts/src/primer/`) | `deployer_address` | constructor, `set_class_hash` (deployer only) | the factory, or whoever deployed it |
| `StarknetEth712Account` (`eth_712_account/`) | owner `eth_address`, used `SRC9_nonces`, SRC5 interfaces, its class | `initialize`, `__validate__` and `__execute__`, `execute_from_outside_v2`, `set_eth_address`, `upgrade` | the contracts its calls name, itself included |
| Legacy account class (`legacy_account_test_fixture.cairo`) | the same without rotation | the same without `set_eth_address` | migrates to the above by a batch of upgrade and rotation |
| `RegisterInterfacesEIC` | writes the SRC5 interfaces of the account | `eic_initialize`, as library code of an upgrade | - |
| EIP-712 hashing (`eth_712_utils.cairo`, `scripts/eip712.py`) | none | the same typed-data hashes in Cairo and in Python; signing, signature verification | secp256k1, keccak |
| `send_tx.py` (`eth_712_account/scripts/`) | the nonce, the transaction and its signature, between two awaits | a regular transaction (`send_invoke_v3`), an outside execution to print (`handle_efo`) | an RPC node: the account's nonce, `send_transaction`; a relayer takes what is printed |
| `generate_test_signatures.py` (same) | the content of `test_utils.cairo`, between reading and writing | sign thirteen test messages, write them between two markers | `test_utils.cairo`, which the account's tests import |
| `EarnReporter` (`earn_reporter/`) | roles | `report_order_created` | called by `StrategyImplementation` |
| Deployment CLI (`scripts/`) | the manifest file; artifacts and plan in memory | `factory` (plan, execute), `status`, `validate`, `audit` | the file system, an RPC node, the chain |
| `testing_utils/` | none | mocks and constants of the tests | - |
| Roles and replaceability | roles, pending implementations | external components | embedded by the contracts |

How one request travels: an application calls `apply` with the owner's Ethereum address and
signature in the header. `apply` pulls the tokens, has the factory deploy the owner's account
(Primer, class replaced, initialized), then calls `apply_on_self` through a safe dispatcher.
That call approves a vault or the exchange, which run *their* code - and may call anything,
`apply` included - and hands the result to the owner's account and to the reporter. If
anything below the safe call panics, everything it did is rolled back and the input is
refunded to the account. The account, for its part, runs batches its owner signed, submitted
by any relayer, and its calls run others' code that may submit further batches. Such a batch
is made by `send_tx.py`: it hashes the calls as the account will hash what it decodes, signs
with the owner's key, and sends a transaction under the nonce the node answered, or prints an
outside execution for somebody to submit. The CLI puts the factory and the classes on the
chain, over runs that may be interrupted.

### What is hard

* **Re-entrance.** A vault or the exchange runs between two statements of `apply` and
  may call `apply`; an external call of a batch may submit another batch, or the same one
  again. Balances and allowances read before are used after.
* **Two rollbacks.** A panic of `apply` undoes the whole invocation, a panic below the safe
  dispatcher only what happened since; the refund is paid from what that second rollback
  restores, and a caller further out may itself roll back a nested `apply` that succeeded.
* **Partial failure.** Two deposits for a Troves request; three calls of `deploy_account`; a
  migration batch of upgrade and rotation; the reporter after the position is open.
* **Order.** The sold token may be the bought one; the account is deployed before the strategy
  and outside its rollback; the nonce is marked before the calls.
* **Crashes and concurrency of the CLI.** A process dies between a transaction and the save
  of its record, the sources are rebuilt between and during runs, also between the check of
  the Primer and the read of its artifact; two processes share a file.
* **Retries of `send_tx.py`.** An error at the await of `send_transaction` says nothing about
  the transaction; the nonce was read an await earlier, from a pending block that may be taken
  back, and other runs read it too.
* **Two encodings of one message.** The scripts and the account hash the same request from
  different representations, and the calls are signed in one form and sent in another. Numbers
  may be longer than a felt or than 32 bytes; only half of the account's address is signed.
* **A generator that edits a source file.** It reads, substitutes and writes in steps, between
  markers that developers and merges move, from constants that are kept in two files.

`PROJECT.json` lists these hazards one by one at the lines where they bite, with the
properties that would catch them going wrong.

### What makes each component correct

* `StrategyImplementation`: it is a pass-through. At each step it holds exactly the tokens of
  the requests in progress; at the end of a transaction nothing and no allowance remains; each
  request has exactly one outcome, a position or a refund; refunds are always funded; the
  events are the books of what moved.
* `AccountFactory` and `Primer`: one account per key, opened with that key as owner, whole or
  not at all, whoever else deploys what.
* `StarknetEth712Account`: owner and code change only by batches its owner has signed, each
  whole and at most once; it is claimed once.
* EIP-712 hashing: a signature is good for the one request it was made for.
* `send_tx.py`: an account executes what a command line asked for and nothing else, at most once
  however often the script is run before it is through; what is admitted or printed is executed.
* `generate_test_signatures.py`: after a run the tests and the signatures agree, nothing outside
  the markers changes, running again changes nothing.
* Deployment CLI: the manifest records what is on the chain, never loses it, and rerunning
  completes the deployment without deploying again and again.

## Modules

| Module | Role |
|---|---|
| `StrategyRouting` | routing as operators |
| `StrategyImplementation` | the contract as a call-stack machine, with its invariants |
| `FundsCustody` | abstract specification: one step per transaction, tokens pass through |
| `StrategyImplementationProperties` | properties over events and history; the refinement of `FundsCustody` |
| `MCStrategyImplementation` | instances for TLC |
| `StrategyImplementationProofs` | theorems: types, custody, refunds; what is left behind, the books, the refinement |
| `Eth712Account` | the account, current and legacy class, with nested requests |
| `OwnerControl` | abstract specification: what the holder of the key is promised |
| `Eth712AccountProperties`, `MCEth712Account` | properties and refinement; instances |
| `Eth712AccountProofs` | theorems |
| `AccountFactory` | the factory, the Primer and the accounts as far as deployment sees them |
| `AccountRegistry` | abstract specification: one account per key |
| `AccountFactoryProperties`, `MCAccountFactory` | properties and refinement; a bound for TLC |
| `AccountFactoryProofs` | theorems |
| `Keccak` | hashes, signatures and type hashes as values |
| `Eip712`, `Eth712Utils` | the hashing of `eip712.py` and of `eth_712_utils.cairo`, side by side |
| `SignedRequests`, `MCSignedRequests` | what one signature is good for; instance |
| `SignedRequestsProofs` | theorems |
| `SendTx` | runs of `send_tx.py`, the node's mempool and ledger, relayers |
| `SendTxProperties`, `MCSendTx` | properties; command lines and accounts for TLC |
| `SendTxProofs` | theorems |
| `TestSignatures` | the messages `generate_test_signatures.py` signs |
| `AccountTests` | the requests `test.cairo` builds, and what the account must answer |
| `GenerateTestSignatures` | runs of the generator on `test_utils.cairo`, developers' edits |
| `GenerateTestSignaturesProperties`, `MCGenerateTestSignatures` | properties; files and constants for TLC |
| `GenerateTestSignaturesProofs` | theorems: every property of the generator |
| `DeployCli` | the `factory` command, its manifest and the chain |
| `DeployCliProperties`, `MCDeployCli` | properties; symmetry |
| `DeployCliProofs` | theorems |
| `FiniteSums` | lemmas: induction over naturals and finite sets, sums over a finite set |

Definitions keep the source's names where there is one: `handle_apply_on_self_error` is the
error arm of `handle_apply_on_self_result`, `is_tx_version_valid` is the function of that
name. `PROJECT.json` maps every definition to the lines it stands for. Definitions whose
comment begins with "Mutant:" are deliberately wrong variants of the definition after them:
putting one in its place must make a run fail, which shows that the property it is listed with
depends on that line of the code. The specifications do not use them.

### StrategyImplementation

`held`, `allow` and `owned` are the ERC-20 balances of the contract, its allowances, and the
balances of the owners' accounts. `deployed` is the set of owners whose account exists, `log`
the events. `stack` has one record per invocation of `apply` in progress: its request, the
point it has reached (`pc`), the local variables of the code that live across a call
(`sell_token_before`, `buy_token_before`, `lst`, `shares`), and two saved states: `entry`, the
state a panic of `apply` returns to, and `rescue`, the state a panic below the safe dispatcher
returns to. An action runs from one point where another contract takes over to the next, so
that the interleavings of the model are exactly the ones re-entrance makes possible.

| Action | Code |
|---|---|
| `Apply` | `apply` up to the transfer from the caller |
| `ApplyDeploysAccount`, `ApplyPanics` | header parsing and `deploy_account`; the panics outside the safe call |
| `ApplyOnSelfRefuses` | every assertion of `apply_on_self` before a strategy is called, with the refund |
| `ApplyOnSelfDeposits`, `ApplyOnSelfSwaps` | the approval and the call of the vault or of the exchange |
| `VaultTakes`, `ExchangeFills` | what the vault or the exchange does; further `Apply` steps may come before and after |
| `TrovesDepositsLST` | between the two deposits of a Troves request |
| `DepositReturns`, `SwapReturns` | the transfers and events after the strategy has returned, the minimum and the u256 checks |
| `ReportAction` | `report_action` and the return of the whole call |
| `StrategyFails` | any panic below the safe dispatcher: rollback, refund, `ApplyFailed` |
| `SetEarnReporter`, `Donate` | transactions of their own |

A failure inside a nested `apply` need not fail the outer one (the vault may have caught it);
that is `RevertApply` of the inner frame followed by any step of the outer. Letting the whole
transaction panic is a sequence of such reverts, so the model has no separate action for it.

### Eth712Account

A signature is a pair of a request and its signer (`Signed`): it covers every field, so nobody
can present another request under it. `stack` holds the requests in progress with the index
of the next call and the state a failure returns to. `execute_from_outside_v2` and `Transact`
accept a request, `set_eth_address`, `upgrade` and `ExternalReturns` are its calls,
`RequestFails` is a panic of a call (which a contract further out may survive), `initialize`
may be called by anyone. The actions take the caller: `assert_only_self` is a guard, not an
assumption, and other contracts do try. The protocol's nonce is outside what a failed
transaction restores.

### AccountFactory

`contracts` has a contract for each pair of deployer and key, the two inputs of the address
that vary; `call` is the `deploy_account` in progress with the state it would roll back to.
`deploy_account`, `DeployReplacesClass`, `DeployInitializes`, `DeployReturns` are the steps of
the call and `DeployReverts` the failure of any of them: an undeclared class, a class without
`initialize`, another key's signature. None of the called contracts runs foreign code, so
nothing interleaves with them. Around that, the governor changes the class, other contracts
deploy Primers with the same salts, and the owners rotate and upgrade.

### Keccak, Eip712, Eth712Utils, SignedRequests

A digest is the record of what was hashed, a sequence of 32-byte words: numbers, texts, type
hashes and digests. `Eip712` and `Eth712Utils` compute it independently, each in the order of
its own source: `hash_outside_execution` from the script's dictionary, `push_outside_execution`
from the decoded struct, with `domain_separator` from a name on the command line and
`push_domain_separator` from the transaction's chain id, spelled out by `felt_to_byte_array`.
`sign_and_split` is the six felts and `extract_signature` puts them together again; recovery
answers the key only if the halves and the parity belong to one signature over the digest. In
`SignedRequests` a key holder signs one request after another and the invariants ask, of every
request, account, chain and owner, whether the account would accept the signature.

### SendTx

`run` has a state for each run of the script: its options once parsed, the transaction once
signed, and what was included when it asked for the nonce (`seen`, which the properties use).
`Starts` is `main` up to the first await, `Signs` goes from the answer of `get_nonce` through
`sign_tx` and `build_invoke_v3` to the await of `send_transaction` (or to the end, with
`--dry-run`), `NodeAdmits`, `NodeRefuses` and `Answered` are the node's half of it, `Fails` an
error at any await. A run that has failed may have its transaction admitted later
(`NodeAdmits`), and a new run may be started at any time: retries, lost answers and duplicates
are runs. `PrintsEfo` is the whole of `handle_efo`, which awaits nothing. What is sent are felts:
`serialize_calls_to_felts` and `serialize_efo_calldata` build them and the account's side decodes
them (`DecodeCalls`, `DecodeOutsideExecution`) before it hashes, with the operators of
`Eth712Utils`.

The node admits a transaction that validates, under a nonce neither used nor taken in the
mempool; `Includes` executes it in the pending block, `Seals` closes the block, `TakesBack`
gives it up and returns its transactions to the mempool. `Submits` is a relayer with what a run
has printed, at any account. What the executed calls do is not modelled, `Eth712Account` does.

### TestSignatures, AccountTests, GenerateTestSignatures

`TestSignatures` has one operator for each `generate_` function of the script, `AccountTests` the
request each test of `test.cairo` builds from the fixtures of `test_utils.cairo` and the verdict
the test expects. `GenerateTestSignatures` runs the script on the file, a sequence of markers,
line ends, functions, constants and other text: `Generates` (the signatures, from the constants
in the script at that moment), `Reads` (`write_signatures_to_file` up to its early returns),
`Truncates` and `Writes` (`open(..., "w")` and `write`), `Killed` at any point. `Substituted` is the
regular expression's substitution. Developers edit the constants in either file, insert text,
restore a version, or recompile the contract whose class hash both files name. That hash is a
literal in both and the script neither computes it nor compares it, so that after a recompilation
running the script changes nothing until somebody edits the literals: `TestsPass` promises the
upgrade tests only while they name the compiled class.

### DeployCli

`file` is the manifest on disk, `process` what each process has in memory (the manifest it
read, the artifacts it loaded, the plan and how far it is), `transactions` the deployer's
transactions with their fate, `artifacts` the build. A step runs from one point where others
may come in to the next:

| Action | Code |
|---|---|
| `loadCommandContext` | the manifest is read, the chain id asked for |
| `verifyPrimerClassHash` | the child process of `cli.ts:85` builds and compares the Primer's class hash |
| `loadStarknetArtifact` | one artifact is read and cached; three steps, in declaration order |
| `buildFactoryPlan` | the checks against the manifest and the plan, of what was read |
| `EndsUnchanged` | a check refuses, or it was a preview |
| `declareClassIfNeeded`, `deployFactoryIfNeeded` | a transaction is sent (or the class is found declared, and recorded) |
| `deployContractReturns` | the library has waited for the deployment and has the address from the deployer's event (`AddressOf`, `HasAddress`) |
| `waitForDeploymentTransaction` | the code's own wait ends: the action is recorded and the manifest saved |
| `PlanApplied` | the last save |
| `Fails` | an await throws for what the chain answers: a declaration rejected, a deployment that reverted and so has no address, a class not declared |
| `Stops` | a kill or a lost node at any await |
| `Rebuild` | a new build of an artifact, at any time, by anyone |
| `TransactionIncluded` | the sequencer |

The CLI saves through a rename, so a save is atomic. The child process and the reads are
steps of their own because the build directory is shared: what was checked is not
necessarily what is read. `overtaken` is a history variable which remembers that a rebuild of
the Primer came between the two in some run; no action reads it.

### Abstract specifications

`FundsCustody`, `OwnerControl` and `AccountRegistry` say what their component promises with one
step per transaction. The detailed specifications implement them under refinement mappings
that show the state before the outermost call for as long as a transaction runs
(`Committed`): nesting, rollbacks and intermediate balances are invisible, and each
transaction that comes through is one step.

## Runs

| Run (`<run>.cfg`) | Module | What it shows | Bounds, and why they are enough |
|---|---|---|---|
| `strategy_nested` | `MCStrategyImplementation` | `Custody`, `NoStandingAllowance`, `RefundFunded` over three requests nested up to three deep | a deposit, a Troves request, swaps of a wrapper, of an LST, and of the bought token itself; three deep is the first depth with an invocation that is neither first nor last; shares 0 or 1 |
| `strategy_requests` | same | `FundsCustody` is implemented; `EventsReconcile`, `OneOutcome`, `OrdersBacked`, `SlippageRespected`, `OwnersDeployed`, `AllOrNothing` (and `TypeOK`) | two of twenty-one requests, one for each check that refuses, each protocol and each odd swap, one inside the other or after it; strategies that pay 0, 1 or 3, below and above the minimum; up to one WBTC and one MIDAS lying in the contract, which a balance difference could mistake for proceeds |
| `strategy_troves_events` | same | the disagreement on Troves events below | one request |
| `account` | `MCEth712Account` | `OwnerControl` is implemented; `NoncesExact`, `OwnersChain`, `ClaimedOnce`, `BatchesWhole` (and `TypeOK`) | fourteen requests of two keys that share nonces: rotations forth and back, migrations that succeed, that fail in the first and in the second call, up- and downgrades, interface registrations, transactions of versions 1, 3 and query; four deep, which is one deeper than different nonces allow requests to follow each other in; timestamps 0 to 2 (before, in and after the window) |
| `factory` | `MCAccountFactory` | `AccountRegistry` is implemented; `NoneHalfDeployed`, `EventsReplay` (and `TypeOK`) | three keys of which one has not signed; two account classes, an undeclared one, the Primer (which has no `initialize`); one change of the class, so that two accounts may have different ones; another deployer with one contract under any of the salts (`OneOtherContract`, a constraint: its contracts do not touch each other) |
| `signed_requests` | `MCSignedRequests` | `OutsideBound`, `TransactionBound` | five batches (none, one, two in both orders, calldata cut elsewhere), two callers, nonces, windows, resource bounds, tips; three addresses of which two agree in the signed half; two chains, EVM chains and keys |
| `send_tx` | `MCSendTx` | `OnlyAsked`, `RefusedForCause`, `RetryExcluded` (and `TypeOK`) | two runs (symmetric), seventeen command lines: each mode, and one thing wrong in each of the others; three accounts, two of one owner that agree in the signed half; two relayers; times 0 to 2 |
| `send_tx_fair` | same | `SentExecutes`, `PrintedExecutes` (liveness) | two runs of five command lines (a transaction that goes through, one that is refused, three outside executions: a nonce given, the same by default, another account of the same half), one relayer, times 0 and 1 |
| `generator_runs` | `MCGenerateTestSignatures` | `TestsPass`, `Idempotent`, `OutsideKept`, `EmptyOnlyIfCut`, `OverlapHarmless` | two overlapping runs, two edits; six files (as checked in, empty section, no line end, a second start marker, a second section, no end marker); three versions of the constants, two class hashes |
| `deploy_reruns` | `MCDeployCli` | `FewFactories`, `HistoryKept` (and `TypeOK`); `Completes` (liveness) | one operator; two stopped runs, one deployment that reverts, three rebuilds to either of two versions of any artifact, so that one can change and be restored while another has changed too |
| `deploy_concurrent` | same | `Backed`, `Coherent` | two processes (symmetric), one rebuild of the Primer or of the account class at any moment, one deployment that reverts. No stops: to these invariants a run that is stopped is one that takes no further step, which the run allows, and the theorems cover stops |
| `deploy_primer_race` | same | the disagreement on the Primer below | one process, one rebuild of the Primer |

The bounds are constants: `MaxApplies`, `MaxDepth`, `MaxDonated`, `Outputs` (strategy);
`MaxTime`, `MaxDepth` (account); `MaxChanges`, and the constraint `OneOtherContract` (factory); `MaxTime` (`SendTx`); `MaxEdits` (generator);
`MaxVersion`, `MaxRebuilds`, `MaxReverts`, `MaxStops` (CLI). Each
occurs in the guard of an action, or limits a set an action chooses from; `Tick` keeps the
clock at `MaxTime`. `HALF`, `FELT`, `WORD` and `U64` stand for 2^128, the field's size, 2^256 and 2^64 and
are small in the instances, with values on both sides of each; nothing depends on more than
their order. Amounts are small because the code only adds, subtracts and compares them;
the u256 subtractions that can underflow (`SwapChecks`) do so in the instances. Amounts never
approach 2^256: they are sums of tokens that exist.

`FewFactories` says that the number of factories exceeds what one successful deployment needs by at most the
number of stopped runs. The bound is reached: a run that dies after sending the deployment and
before saving it leaves a factory the manifest does not know, and the next run deploys
another. A deployment that reverts adds none: without an address the run fails
(`scripts/lib/starknet.ts:177`), and the next one deploys again.

`BatchesWhole` also says that of a transaction of an unsupported version nothing is left but the
nonce it used: its signature is good, and only the check in `__execute__`
(`eth_712_account.cairo:89`) keeps its calls from running. `Outdated` states the versions by themselves, not by
the code's check.

`Coherent` fixes the recorded Primer only while no rebuild has overtaken a run. This is all the
code guarantees: `deploy_primer_race` shows the other case.

`HistoryKept` and `FewFactories` hold for one process at a time. With two, the later save
drops what the earlier one recorded, as the file is replaced and not merged; what survives is
still true of the chain and of one build (`Backed`, `Coherent`).

`RetryExcluded` does not say that a retry is never executed twice: a run that asks for its
nonce after the first transaction is included gets the next one, and the script has no memory
that would stop it. It says that this is the only way, which is why the outcome must be looked
up before running the script again, not while it is open. In `RefusedForCause` the same race
shows as the one refusal that is not the command line's fault.

## Fairness and deadlock

The contracts are called; nothing schedules them, so no liveness is claimed for them and their
specifications have no fairness. `DeployCli` has `FairSpec` for `Completes`: the operator
starts the command again and again (weak fairness of `loadCommandContext`) and again and
again executes rather than previews (strong fairness of `buildFactoryPlan`, since `EndsUnchanged`
keeps disabling it); a run that is not stopped goes on (weak fairness of each of its other
steps); the chain goes on (weak).
Stops, rebuilds and reverts are not forced, and reverts are bounded (`MaxReverts`), as a chain that
reverts every deployment leaves nothing to complete. `Completes` allows the command to remain
blocked: a rebuild can make it refuse for good, until the recorded sources are restored
(`Blocked`). A deployment that reverted is no exception, a later run makes up for it.

`SendTx` has `FairSpec`: a transaction that can be included again and again is (strong fairness
of `Includes`, as `TakesBack` and others' transactions disable it), the pending block is closed
in the end although it may be taken back many times (strong fairness of `Seals`), relayers go on
submitting what was printed (strong), time passes (weak). Nothing obliges a run to start, to go
on or to get an answer: the two properties begin with what the node has or what was printed.

TLC checks every run for deadlock, but for the generator's: its runs may all be killed, and the
number of edits is bounded, so it really may stop. In each model something may always begin: a governor's
transaction, a tick, another run of the command. Inside a transaction that is informative:
every point of a call has a way to go on or to fail.

## Assumptions

Strategy:
* Tokens are ERC-20s that revert on failure and take no fee, as those of
  `known_addresses.cairo` do; `transfer`'s boolean is ignored by the code.
* An ERC-4626 vault takes exactly the assets of the deposit, once, and mints any number of
  shares of `Outputs`. The exchange takes up to its allowance, pays anything and may return
  at once; it pulls tokens only within its own call (what the code, too, relies on when it
  resets the allowance). A vault or exchange may run any nested requests and fail at any point.
* The contract receives tokens outside `apply` only between transactions.
* The reporter either records an order or fails.

Account: a signature stands for its request and signer; keccak and secp256k1 are perfect. The
account's code at an address is one of the two classes.

Factory: addresses are injective in deployer and salt. The roles component lets only the
governor through.

Signing: keccak is injective and a digest is no number or text; a signature over a digest is
good for that digest and its key. Chain names are letters whose felts differ.

`send_tx.py`: the node's nonce counts what is in closed blocks and the pending one, as
`block_id: "pending"` asks; its mempool holds one transaction per account and nonce, and does
not drop what it has admitted (the order of inclusion is the nonces'). Owners do not change
during a run; rotation is in `Eth712Account`.

Generator: Python loads the script when it starts; opening for writing truncates at once, and
the write is one step. `scarb fmt` is not run on the file.

CLI: the chain takes the deployer's transactions in nonce order, and rejects a declaration of
a declared class. `waitForTransaction` returns when a transaction reaches one of the finality
states asked for, which reverted transactions reach too, and throws for a rejected one. A
declaration that is included has not reverted. `deployContract` (starknet.js, whose source is
not in the repository) waits for its transaction and takes the address from the deployer's
event, which a reverted deployment does not have. One chain.

## Proofs

`StrategyImplementation` is proved about for all values of its constants that satisfy
`StrategyAssumption` and `RoutingAssumption`: any number of tokens, wrappers, vaults, owners
and requests, any amounts, outputs and minimum, any depth and order of nesting. (The bounds are
arbitrary naturals.) The assumptions say that vaults and wrappers are tokens, that WBTC is a
wrapper, and that `Zero` is not a reporter.

* `TypeCorrect` (`StrategyImplementationProofs`): `Spec => [](TypeOK /\ FramesOK)`. That no
  balance leaves the naturals is not a matter of form: every subtraction needs the guard or
  the check that makes it safe. `FramesOK` says what the point a frame has reached implies of
  its request (a swap frame is an accepted Avnu request, and so on).
* `CustodyCorrect` (`StrategyImplementationProofs`): `Spec => []Custody`. At every step the contract
  holds of each token what it held when an invocation was entered and what that invocation
  owns, all the way down the stack.
* `RefundCovered`: `Spec => []RefundFunded`. The state a failed call returns to holds the full
  amount above what was there before, so the refund cannot fail.

`Custody` is not inductive. A failed call sets the balances to states the frames saved, and a
swap subtracts balances it read before the exchange ran. The inductive invariant is

    CInv == TypeOK /\ FramesOK /\ Custody /\ FundsOK

where `FundsOK` says of every frame on the stack what its saved state and its two measured
balances are worth (`Funded`, `Measured`). The stack is where the work is: three lemmas say
what changing the top frame (`UpdateCustody`), pushing one (`PushCustody`) and popping one
(`PopCustody`) do to `Custody`, each under hypotheses on the top frame alone; then there is
one lemma per action, and `StepCustody` puts them together. A nested call that has returned
normally has left the balances of the frame below unchanged (`PopCustody`'s hypothesis), which
is why balance differences of an interrupted swap are still right.

* `NothingStanding`, `OwnersHoused`, `MinimumMet`:
  `Spec => []NoStandingAllowance`, `Spec => []OwnersDeployed`, `Spec => []SlippageRespected`.
  The first speaks of the end of a transaction, the last of the state an invocation was called
  in: both need to know what a call made from inside a strategy leaves behind. The invariant
  `OInv == CInv /\ Levels` says of every invocation `f` on the stack, and of the state `w` at its
  level (the present one for the top, the one the next invocation was called in for the
  others), that `Follows(f, w)`: since `f` was called no allowance has grown but the one of the
  strategy `f` is inside, which is at most what it has not taken yet; the owners' tokens and
  accounts have only been added to. `Leaves(u, w)` is the same for a call that has returned, and
  `FollowsOn` is the heart of it: an interrupted invocation goes on from whatever satisfies
  `Leaves`. That a swap without a refund has used up its allowance is where `Custody` is needed
  again (`SwapSold`): the refund is computed from balances, not from the allowance.

* `OutcomesOnce`, `OrdersStand`, `NothingHalfDone`:
  `Spec => []OneOutcome`, `Spec => []OrdersBacked`, `Spec => AllOrNothing`. Events are written by
  whichever invocation runs, and a rollback replaces the whole log, so the invariant
  `BInv == OInv /\ Books` again speaks of each level of the stack: the log there is in order
  (`Kept`); an invocation that has not come to its report is not in it (`Silent`); and what was
  written since `f` was called is not about invocations older than `f` (`Adds`), which is what
  an interrupted invocation needs of the calls made from inside it. Numbers stay distinct
  because `applies`, the number of the next invocation, is not rolled back.

* `BooksBalance`: `Spec => []EventsReconcile`. Between transactions an
  owner's balances are the sum of what the log says. Inside one they are not: shares have been
  minted and the position not yet reported, or a refund paid and its event still to come. The
  invariant `DInv == BInv /\ Ledgers` says, at each level of the stack, what the difference is.
  `Owed(f, e, t)` is what `f` has paid out and not yet written down (shares after the vault, bought
  tokens after the exchange), `SettlesWith(f, w)` that since `f` was called balances and log
  differ by exactly that, `Grows` that the log was only appended to and by invocations no older
  than `f`. A call made from inside a strategy has `Returned` with nothing owed, so that the
  interrupted invocation's difference is what it was. `Paid` is a sum over the log, of any
  length; `PaidAppend` and the lemmas of `FiniteSums` are all that is used of it.
* `PassThroughImplemented`: `Spec => FundsPassThrough`, the refinement of `FundsCustody`. Every
  step inside a transaction is a stutter of the abstract specification (`Committed` shows the
  state before), the return of an outermost `apply` is its one step, with exactly the new events
  as payments; that the contract is left as it was found is `Custody` on a stack of one.

The account is proved about for any keys, signed requests, nonces and depth of nesting that
satisfy its assumptions.

* `TypeCorrect`, `RequestsOnce`, `OwnersLinked`, `ClaimsOnce` (`Eth712AccountProofs`): `Spec => []TypeOK`,
  `Spec => []NoncesExact`, `Spec => []OwnersChain`, `Spec => []ClaimedOnce`.

  A failed call, a reverted transaction and a failed migration each bring back a state that
  some frame has saved, so the properties are stated of any state: `Consistent(s, n)` says that
  in `s` the owners form a chain (`Linked`), the claim came first (`Claimed`), each nonce of an
  outside execution is marked exactly if one request of the history used it (`UsedOnce`,
  `AllUsed`), and those of transactions are distinct and below `n`. The invariant says this of
  the present state and of the state each frame was entered in, both with the present
  `tx_nonce`: a nonce is spent also by what is reverted, so a rollback cannot bring it back.
* `ControlImplemented`: `Spec => UnderOwnerControl`, the refinement of `OwnerControl`. What the
  holder of a key is promised compares the ends of a transaction, between which batches run
  inside batches, so the invariant `RInv == IInv /\ Levels(stack, Now)` says of each frame what
  has happened since it was entered (`Proceeds`): the log has grown, each request accepted since
  was signed by the owner at the start or by a key that a request accepted since has named
  (`Adds`), and if none but the frame's own ran, the owner and the class are what its calls so
  far set last (`LeavesBelow`). A request that returns hands its `Adds` to the one below.
* `BatchesAreWhole`: `Spec => []BatchesWhole`. The k-th change the log has of a request is the k-th
  admin call of its batch. A rollback may bring back a state from the middle of a batch that is
  still running, never one from the middle of a batch that is not: `WInv == IInv /\ Saved(stack, Now)`
  says that the state frame `i` was entered in is whole for the frames below `i`, with the calls
  those had made by then (`MadeBelow`; a frame below stands still while `i` runs), and that no
  request is on the stack twice. `VInv` says of every such history that no transaction of an
  unsupported version is in it. Order is expressed by ranks, the number of positions
  before one, so that the lemmas (`RankLast` and others) are about cardinalities.

`AccountFactory` is proved about for any keys, signatures, classes and other deployers that satisfy
`FactoryAssumption` (the factory is none of the other deployers, the Primer's class is none of
the others, `None` is not a value of anything).

* `WholeAccounts` (`AccountFactoryProofs`): `Spec => []NoneHalfDeployed`.
* `RegistryImplemented`: `Spec => ImplementsRegistry`, the refinement of `AccountRegistry`.
* `TypeCorrect`, `EventsTell`: `Spec => []TypeOK`, `Spec => []EventsReplay`.

Their inductive invariant is

    IInv == TypeOK /\ Underway /\ OwnPrimers /\ NoneHalfDeployed

`Underway` says what the stage of a deployment in progress means for the contract being
deployed and that no other has changed since; it makes the last step of a deployment the one
in which the account appears, with the class configured then. `OwnPrimers` says that a
contract at a factory's address remembers the factory as its deployer, whatever class it
runs: an account whose owner has upgraded it to the Primer's class is still out of reach of
other deployers. `AfterDeployment` and the two predicates `SameAccounts` and `Operated` reduce
every step to what it does to the accounts; both theorems use them. (The registry's
`Operate` is what the model's `set_eth_address` and `upgrade` do; that only the owner takes
those steps is the business of `Eth712Account`.)

`EventsReplay` reads the log backwards from the present class: the class at a point is the
`previous_class_hash` of the first change after it. The proof states it of any log, class and set
of keys (`Replays`), and shows what appending an event of either kind does to that. A
deployment in progress has announced its account in neither the log nor the keys until its
last step, which writes both, so `EventsReplay` is inductive together with `IInv`.

The signatures are proved about for any half, field and word size, chains, keys, addresses and
requests that satisfy `KeccakAssumption` and `RequestsAssumption`.

* `OutsideSignaturesBound`, `TransactionSignaturesBound` (`SignedRequestsProofs`):
  `Spec => []OutsideBound`, `Spec => []TransactionBound`. The first half shows that the two
  hashings agree, field by field (`push_call` with `hash_call`, and so on upwards); the second that
  each is injective, so that equal digests mean equal requests, chain names, EVM chains and
  low halves. The kinds are told apart by their type hashes.
* `RetriesExcluded` (`SendTxProofs`): `Spec => []RetryExcluded`, for any runs, command lines and
  accounts. `RetryExcluded` is not inductive: it speaks of included transactions only, and what
  makes it true of the next is known of those in the mempool and of what each run has seen.
  The invariant is

      IInv == ... /\ Numbered(ledger) /\ Filled(ledger) /\ NoncesUnique
                  /\ \A r \in Runs : NonceExplained(run[r], Txs)

  In the ledger a transaction's nonce is the number of the account's transactions before it
  (`Numbered`), so that each nonce below the account's is somebody's (`Filled`); no two
  transactions of the mempool and the ledger compete for a nonce (`NoncesUnique`); and below
  the nonce a run was given, every nonce was taken by one it had seen included
  (`NonceExplained`). The lemmas on counting (`CountNext`, `CountAbove`, ...) are about any ledger;
  appending an entry (`ExtendedLedger`) and cutting it to the sealed part (`CutLedger`) preserve
  both facts, which is what `Includes`, `Submits` and `TakesBack` need. Taking a block back
  loses no transaction: `Txs` never shrinks, so what a run has seen stays an explanation.
* `TypeCorrect`, `OnlyAskedExecutes`, `RefusalsJustified` (`SendTxProofs`): `Spec => []TypeOK`,
  `Spec => []OnlyAsked`, `Spec => []RefusedForCause`. The second invariant, `AInv`, ties what is under
  way to a command line: a run's transaction is what `build_invoke_v3` makes of its arguments
  and some nonce, a printed execution what `handle_efo` makes of them at some time (`RunOK`); whatever
  the node holds is a run's and validates; an outside execution in the ledger was printed by a
  run and accepted by that account (`EntryOK`); a refused run was refused for a cause that
  lasts (`Caused`). That accepted means asked for is then a matter of the encodings: `ReadBack` says
  that the account decodes from `serialize_calls_to_felts` exactly the calls that were signed,
  for batches and calldata of any length (`PrintedReadBack` the same of a whole printed
  execution), and `PrintedAccepted` that a signature good for the account's hash of what it decodes
  is one of the run's own digest, so that keys, chains and halves of addresses agree.
  `serialize_calls_to_felts` and `DecodeCalls` are recursive functions. What they compute is
  proved by `SetNatInduction` of `FiniteSums`, which takes the set of the numbers for which the
  claim holds rather than an operator.

`SendTxAssumption` says of the command lines what the JSON of `--calls` can hold: calls of an
address, a selector and a list of integers, of any size and sign. Only the lists are shorter
than the felt their length is written in.

The CLI is proved about for any processes, stops and rebuilds that satisfy `DeployAssumption`,
with any sequence of kills, failures and rebuilds.

* `TypeCorrect` (`DeployCliProofs`): `Spec => []TypeOK`.
* `RecordsBacked`: `Spec => []Backed`. That deployments may revert costs `TrueOf` nothing: it
  speaks of accepted transactions, and a process that waits after a deployment has an address
  (`WaitOK`). Of declarations `OnlyDeploymentsRevert` is part of the invariant.
* `RecordsCoherent`: `Spec => []Coherent`. The conjunct on the Primer needs an invariant of its own,
  `PInv`: unless a rebuild overtook a run, the Primer is the expected one in the build while a
  run is between its check and its read, in what each process has read, in what it has
  recorded in memory, and in the file.
* `RecordsKept`: `OneAtATime => (Spec => HistoryKept)`. `OneAtATime` (one process) is needed: the file
  is replaced, not merged.
* `FactoriesAreFew`: `OneAtATime => (Spec => []FewFactories)`. `FewFactories` counts what the chain
  has and is not inductive; `FInv` counts the deployments sent that have not reverted: at most one
  more than runs were stopped, and not even that one if the file records no factory and no
  process waits for one. Sending the next needs exactly that condition, and only a stop ends
  the wait for such a deployment without a record.

  Their invariant has a part for each process's memory (`PlanOK`: the manifest records nothing
  but the run's own build, and what it lacks is still in the plan, the factory after everything
  else; `WaitOK`: the transaction waited for is that of the next action), a part for the file
  (`OneBuild`), and one on the chain (`TrueOf`: the transactions a manifest's records came from).
  `Planned` shows what `buildFactoryPlan` puts into a plan, `RecordingKeeps` that recording the
  next action keeps `PlanOK` and `OneBuild`: when the factory comes up, every class is
  recorded, from the build the factory is made of. `Grows` is all a process has to know of what
  the others do to the chain.

The generator is proved about for any files, any constants and versions of the class, any number
of runs that overlap, are killed and are disturbed by edits as they like. `GeneratorAssumption`
says of the files that they are sequences and not empty; of the constants that the amount to
approve is what the script writes as the low half of a `u256`, and that the account's address
does not end like the wrong address one test uses; and that the two chain names the tests use are
names. 1001 is the largest amount a test transfers: it, too, is a low half.

* `EmptyFileMeansCut`, `OverlapsHarmless` (`GenerateTestSignaturesProofs`): `Spec =>
  []EmptyOnlyIfCut`, `Spec => []OverlapHarmless`. The invariant is

      IInv == TypeOK /\ RunsInOrder /\ EmptyOnlyIfCut
      OInv == \E content \in InitialFiles : Overlapping(content)

  `Prepared` (of `RunsInOrder`) says what a run has in its memory: constants, their block, and
  the file it read with that block put in; `InPlace` what an undisturbed run finds in the file:
  nothing after it has opened it, its block after it has written. `OInv` says that while nobody
  edits there is one content such that the file is that, what it becomes, or empty, and that what
  every run has ready to write is what it becomes, also when it has read that itself
  (`SubSettled`, below).
* `RewritingIdempotent`, `OutsideUnchanged`: `Spec => []Idempotent`, `Spec => []OutsideKept`,
  that is, for every file: several sections, sections without an end, a start marker inside a
  section. `Substituted` and `OutsideText` are recursive functions over positions, so a file
  cannot be cut and the rest compared. `SubWalk` and `TextWalk` show that both are walks over
  what remains from a position, whence the equations that one expects (`SubStep`, `TokenFirst`,
  `BlockFirst`; `TextStep`, `TextOfSection`, `TextOfToken`): what they make of a file is what
  they make of its first section or token, followed by what they make of the rest. Then
  `SetNatInduction` on the length gives `SubSettled` (twice is once, and the markers stay),
  `SubHolds` (the block is in the result) and `SubKeepsText`.
* `RegeneratedTestsPass`: `Spec => []TestsPass`. By `InPlace` the block of an undisturbed run is
  in the file; since the file compiles each function is there once, so the tests call those of
  the block (`FunctionFound`). `Answered` says what each of the thirteen returns;
  `OutsidePasses`, `OutsideFails`, `ValidatePasses` and `ValidateFails` what the account makes of
  a signature made for the request, or for another chain, address or nonce. Both rest on two
  facts of the hashes: the two encodings agree (`AccountOutsideHash`, `AccountTransactionHash`)
  and tell chains and low halves apart (`HashesApart`). The three `...Covered` lemmas go through
  the tests one by one.

With these every invariant and every safety property the passing runs check is a theorem. Only
model-checked is liveness, which is out of the prover's reach: `Completes`, `SentExecutes`,
`PrintedExecutes`.

## Where code and documents disagree

* `strategy_troves_events`: the description of `test_deposit_troves_token_successful`
  (`strategy_implementation/src/test.cairo:684-685`) says a Troves request emits two `Deposited`
  events; the code emits one, for the second deposit
  (`strategy_implementation.cairo:355-367`).
* `deploy_primer_race`: `scripts/README.md:132` says the mandatory Primer class hash is verified
  before planning and execution. The code has a child process verify the build directory
  (`scripts/cli.ts:85`) and reads the artifact from it afterwards
  (`scripts/lib/artifacts.ts:85`), without looking at the hash again: a Primer rebuilt in
  between is planned, declared and recorded without having been verified. Reading the
  artifacts first, or comparing the hash of the one that was read, would close the gap.

## What is not modelled

* *Bytes*: padding to 32 bytes, byte reversal, short strings, and the hash functions and
  curve themselves. A word is a value, with the guards on its length where the code has them.
* *Output of the scripts*: what they print, the layout of the generated Cairo, the transaction
  hash `send_tx.py` computes for display.
* *EarnReporter's roles and upgrade*; *roles and replaceability* of all contracts: components
  of libraries outside the repository. Entry points they guard are actions only the governor
  takes.
* *CLI configuration and chain detection, audit, status, validate*: they validate, look up and
  print. The manifest's chain id is overwritten on load and never compared; the models have
  one chain (planned).
* *testing_utils*: mocks and constants of the tests.
* Gas, fees, class declaration costs, event layout, felt serialisation.

## Plan

Built, in this order: strategy (routing, call stack, abstract custody, proofs of type
correctness, custody, funded refunds, allowances, minimum, books and the refinement), account
with owner control (all proved), factory with registry (all proved), deployment CLI (safety
proved); then the two EIP-712 encodings and what a signature is good for (proved), `send_tx.py`
against a node (safety proved), the test signature generator (all proved).

Next, the model:
1. A chain dimension in `DeployCli`, and the `--execute` safety checks.
2. A composition of strategy, factory and account, in which `deployed` is the factory's state
   and refunds are spent by account batches.
3. `EarnReporter` as a module of its own.

Next, the proofs: those of the modules above, as they are built; that the composition (2)
implements what `StrategyImplementation` assumes of the factory and of accounts.
