----------------------------- MODULE DeployCli -----------------------------
(***************************************************************************)
(* The `factory` command of the deployment CLI, its manifest file and the  *)
(* chain it deploys to.                                                    *)
(*                                                                         *)
(* A run of the command loads the manifest, has a child process check the  *)
(* Primer's build, reads the builds, plans what the manifest does not      *)
(* record, and executes the plan: it sends a transaction, waits for it,    *)
(* records it in memory and saves the manifest, action by action.  A run   *)
(* may be killed or lose its RPC node at every await; what it had in       *)
(* memory is then gone, what it sent is not.  Between and during runs the  *)
(* contracts may be rebuilt.  That a declaration the chain includes has    *)
(* not reverted is assumed of Starknet; a deployment may revert.           *)
(***************************************************************************)
EXTENDS Naturals, Sequences, FiniteSets

CONSTANTS
  Processes,   (* the CLI processes that may run on one manifest              *)
  None,        (* a record the manifest does not have                         *)
  Changing,    (* the artifacts whose sources change                          *)
  MaxVersion,  (* bound: versions of one artifact's sources                   *)
  MaxRebuilds, (* bound: rebuilds that change a class hash                    *)
  MaxReverts,  (* bound: deployments that the chain reverts                   *)
  MaxStops     (* bound: runs killed, or failed by their RPC node             *)

FACTORY_DECLARE_ORDER == <<"Primer", "StarknetEth712Account", "AccountFactory">>

ArtifactNames == {FACTORY_DECLARE_ORDER[i] : i \in 1..3}

\* The hash of a build: any change of the source is another version.
ClassHashes == ArtifactNames \X (1..MaxVersion)

\* The hash the factory's source and verify_primer_class_hash.sh expect.
EXPECTED_CLASS_HASH == <<"Primer", 1>>

Deploy == "deploy:AccountFactory"

Actions == ArtifactNames \cup {Deploy}

FactoryDeploymentRecord ==
  [address : Nat \ {0}, classHash : ClassHashes, accountClassHash : ClassHashes]

ASSUME DeployAssumption ==
  /\ Changing \subseteq ArtifactNames
  /\ MaxVersion \in Nat \ {0} /\ MaxRebuilds \in Nat
  /\ MaxReverts \in Nat /\ MaxStops \in Nat
  /\ None \notin ClassHashes /\ None \notin FactoryDeploymentRecord

DeploymentManifest ==
  [declaredClasses : [ArtifactNames -> ClassHashes \cup {None}],
   factory  : FactoryDeploymentRecord \cup {None},
   lastPlan : Seq(Actions)]

VARIABLES
  artifacts,     (* the release build: artifact -> class hash                 *)
  file,          (* the manifest on disk                                      *)
  process,       (* what each CLI process has in memory                       *)
  transactions,  (* the deployer's transactions in nonce order                *)
  stops,         (* runs that were stopped                                    *)
  rebuilds,      (* rebuilds so far                                           *)
  overtaken      (* history: the Primer was rebuilt between some run's check  *)
                 (* of it and its read of it                                  *)

vars == <<artifacts, file, process, transactions, stops, rebuilds, overtaken>>

\* The builder's half of the state.
builder == <<artifacts, rebuilds, overtaken>>

\* declareClassIfNeeded's and deployFactoryIfNeeded's transactions; accountClassHash
\* is the constructor argument of a deployment.
Transaction ==
  [op : Actions, classHash : ClassHashes, accountClassHash : ClassHashes,
   status : {"pending", "accepted", "reverted", "rejected"}]

Builds == [ArtifactNames -> ClassHashes]

CommandContext ==
  [pc : {"off", "loaded", "checked", "executing", "deploying", "waiting"},
   manifest : DeploymentManifest, artifacts : Builds, plan : Seq(Actions),
   next : Nat \ {0}, tx : Nat]

createEmptyManifest ==
  [declaredClasses |-> [a \in ArtifactNames |-> None], factory |-> None, lastPlan |-> <<>>]

FirstBuild == [a \in ArtifactNames |-> <<a, 1>>]

Off == [pc |-> "off", manifest |-> createEmptyManifest, artifacts |-> FirstBuild,
        plan |-> <<>>, next |-> 1, tx |-> 0]

-----------------------------------------------------------------------------
Accepted(i) == transactions[i].status = "accepted"
Reverted == {i \in DOMAIN transactions : transactions[i].status = "reverted"}

\* The chain's answers: which classes it has, and at which addresses a factory is;
\* the address of a deployment is that of its transaction, as its salt is random.
Declared == {transactions[i].classHash :
               i \in {j \in DOMAIN transactions : Accepted(j) /\ transactions[j].op # Deploy}}
Factories == {i \in DOMAIN transactions : Accepted(i) /\ transactions[i].op = Deploy}

Init ==
  /\ artifacts = FirstBuild
  /\ file = createEmptyManifest
  /\ process = [p \in Processes |-> Off]
  /\ transactions = <<>>
  /\ stops = 0
  /\ rebuilds = 0
  /\ overtaken = FALSE

\* The run has had the Primer checked, and has not read it yet.
BetweenCheckAndRead(p) == process[p].pc = "checked" /\ process[p].next = 1

\* scarb build after a change of the sources, by whomever: the operator, another run's
\* check.
Rebuild(a) ==
  /\ rebuilds < MaxRebuilds
  /\ \E v \in 1..MaxVersion : artifacts' = [artifacts EXCEPT ![a] = <<a, v>>]
  /\ artifacts' # artifacts
  /\ rebuilds' = rebuilds + 1
  /\ overtaken' = (overtaken \/ (a = "Primer" /\ \E p \in Processes : BetweenCheckAndRead(p)))
  /\ UNCHANGED <<file, process, transactions, stops>>

\* loadCommandContext: the manifest is read before the chain is asked anything.
loadCommandContext(p) ==
  /\ process[p].pc = "off"
  /\ process' = [process EXCEPT ![p].pc = "loaded", ![p].manifest = file]
  /\ UNCHANGED <<builder, file, transactions, stops>>

\* Mutant: the Primer's class hash is not looked at.
AnyPrimer == TRUE

PrimerAsExpected == artifacts["Primer"] = EXPECTED_CLASS_HASH

\* The child process builds, and compares the Primer's class hash.
verifyPrimerClassHash(p) ==
  /\ process[p].pc = "loaded"
  /\ PrimerAsExpected
  /\ process' = [process EXCEPT ![p].pc = "checked"]
  /\ UNCHANGED <<builder, file, transactions, stops>>

\* loadFactoryArtifacts: the files are read one after the other, and then cached.
loadStarknetArtifact(p) ==
  /\ process[p].pc = "checked" /\ process[p].next \in 1..3
  /\ LET a == FACTORY_DECLARE_ORDER[process[p].next]
     IN process' = [process EXCEPT ![p].artifacts[a] = artifacts[a], ![p].next = @ + 1]
  /\ UNCHANGED <<builder, file, transactions, stops>>

\* Mutant: a recorded class hash is replaced by that of the present build.
AnyRecordedClassHash(manifest, build) == TRUE

assertRecordedClassHashMatches(manifest, build) ==
  \A a \in ArtifactNames : manifest.declaredClasses[a] \in {None, build[a]}

verifyRecordedFactoryReadable(manifest) ==
  manifest.factory # None => manifest.factory.address \in Factories

\* Mutant: the factory is deployed by every run.
FactoryOfThisRunMissing(manifest) == TRUE

FactoryMissing(manifest) == manifest.factory = None

\* What the manifest lacks, in FACTORY_DECLARE_ORDER, the factory last.
Missing(a, manifest, build) ==
  IF manifest.declaredClasses[a] # build[a] THEN <<a>> ELSE <<>>

PlannedActions(manifest, build) ==
  Missing("Primer", manifest, build)
    \o Missing("StarknetEth712Account", manifest, build)
    \o Missing("AccountFactory", manifest, build)
    \o IF FactoryMissing(manifest) THEN <<Deploy>> ELSE <<>>

\* The plan of what was read, and the start of its execution.
buildFactoryPlan(p) ==
  LET manifest == process[p].manifest
      build    == process[p].artifacts
  IN /\ process[p].pc = "checked" /\ process[p].next = 4
     /\ verifyRecordedFactoryReadable(manifest)
     /\ assertRecordedClassHashMatches(manifest, build)
     /\ process' = [process EXCEPT
          ![p] = IF PlannedActions(manifest, build) = <<>>
                 THEN Off
                 ELSE [@ EXCEPT !.pc = "executing", !.plan = PlannedActions(manifest, build),
                                !.next = 1]]
     /\ UNCHANGED <<builder, file, transactions, stops>>

\* The command ends before it changed anything: the Primer is another; or one of the
\* checks above fails, it is a preview without --execute, or assertExecutionSafety
\* refuses.
EndsUnchanged(p) ==
  /\ \/ process[p].pc = "loaded" /\ ~PrimerAsExpected
     \/ process[p].pc = "checked" /\ process[p].next = 4
  /\ process' = [process EXCEPT ![p] = Off]
  /\ UNCHANGED <<builder, file, transactions, stops>>

-----------------------------------------------------------------------------
Executing(p) == process[p].pc = "executing" /\ process[p].next <= Len(process[p].plan)
NextAction(p) == process[p].plan[process[p].next]

\* The build the run was planned with: loadStarknetArtifact caches it.
ClassOf(p, op) == process[p].artifacts[IF op = Deploy THEN "AccountFactory" ELSE op]

\* A transaction is sent; from here on it exists whatever becomes of the process.
Sends(p, op) ==
  /\ transactions' = Append(transactions,
       [op |-> op, classHash |-> ClassOf(p, op),
        accountClassHash |-> process[p].artifacts["StarknetEth712Account"], status |-> "pending"])
  /\ process' = [process EXCEPT ![p].pc = IF op = Deploy THEN "deploying" ELSE "waiting",
                                ![p].tx = Len(transactions) + 1]
  /\ UNCHANGED <<builder, file, stops>>

\* The action has been executed: it is recorded and, with no await in between, the
\* manifest is saved.
Saves(p, manifest) ==
  /\ file' = manifest
  /\ process' = [process EXCEPT ![p].pc = "executing", ![p].manifest = manifest,
                                ![p].next = @ + 1, ![p].tx = 0]
  /\ UNCHANGED <<builder, transactions, stops>>

FactoryAt(p, address) ==
  [address |-> address, classHash |-> ClassOf(p, Deploy),
   accountClassHash |-> process[p].artifacts["StarknetEth712Account"]]

\* The address deployContract reads in the deployer's event; a deployment that reverted
\* has no event (0: no address).
AddressOf(i) == IF Accepted(i) THEN i ELSE 0

\* Mutant: a class found on the chain, for which nothing was sent, is not recorded.
RecordedIfSent(p, op) ==
  IF op = Deploy
  THEN [process[p].manifest EXCEPT !.factory = FactoryAt(p, AddressOf(process[p].tx))]
  ELSE [process[p].manifest EXCEPT
          !.declaredClasses[op] = IF process[p].pc = "waiting" THEN ClassOf(p, op) ELSE @]

\* The manifest with the action recorded.
Recorded(p, op) ==
  IF op = Deploy
  THEN [process[p].manifest EXCEPT !.factory = FactoryAt(p, AddressOf(process[p].tx))]
  ELSE [process[p].manifest EXCEPT !.declaredClasses[op] = ClassOf(p, op)]

\* declareIfNot finds the class on the chain.
IsDeclared(p, a) == ClassOf(p, a) \in Declared

declareClassIfNeeded(p) ==
  /\ Executing(p) /\ NextAction(p) # Deploy
  /\ IF IsDeclared(p, NextAction(p))
     THEN Saves(p, Recorded(p, NextAction(p)))
     ELSE Sends(p, NextAction(p))

\* The fee estimate that goes before needs the factory's class.
deployFactoryIfNeeded(p) ==
  /\ Executing(p) /\ NextAction(p) = Deploy
  /\ FactoryMissing(process[p].manifest)
  /\ ClassOf(p, Deploy) \in Declared
  /\ Sends(p, Deploy)

\* Mutant: a deployment that returned no contract address is recorded as well.
AnyAddress(address) == TRUE

HasAddress(address) == address # 0

\* The library has waited for the deployment, and the run has its address.
deployContractReturns(p) ==
  /\ process[p].pc = "deploying"
  /\ transactions[process[p].tx].status # "pending"
  /\ HasAddress(AddressOf(process[p].tx))
  /\ process' = [process EXCEPT ![p].pc = "waiting"]
  /\ UNCHANGED <<builder, file, transactions, stops>>

\* Mutant: the transaction is recorded as soon as it is sent.
AnyState(status) == TRUE

(***************************************************************************)
(* waitForTransaction is asked for finality states, which transactions     *)
(* that revert reach too; it throws for one the sequencer rejects.         *)
(***************************************************************************)
WaitEnds(status) == status \in {"accepted", "reverted"}

waitForDeploymentTransaction(p) ==
  /\ process[p].pc = "waiting"
  /\ WaitEnds(transactions[process[p].tx].status)
  /\ Saves(p, Recorded(p, NextAction(p)))

\* An await throws for what the chain answers: the run ends, the manifest stays as
\* it was saved last.
Fails(p) ==
  /\ \/ process[p].pc = "waiting" /\ transactions[process[p].tx].status = "rejected"
     \/ /\ process[p].pc = "deploying" /\ transactions[process[p].tx].status # "pending"
        /\ ~HasAddress(AddressOf(process[p].tx))
     \/ Executing(p) /\ NextAction(p) = Deploy /\ ClassOf(p, Deploy) \notin Declared
  /\ process' = [process EXCEPT ![p] = Off]
  /\ UNCHANGED <<builder, file, transactions, stops>>

\* After the last action the plan itself is recorded.
PlanApplied(p) ==
  /\ process[p].pc = "executing" /\ ~Executing(p)
  /\ file' = [process[p].manifest EXCEPT !.lastPlan = process[p].plan]
  /\ process' = [process EXCEPT ![p] = Off]
  /\ UNCHANGED <<builder, transactions, stops>>

\* The process is killed, or its RPC node, its child process or its disk fails it.
Stops(p) ==
  /\ process[p].pc # "off" /\ stops < MaxStops
  /\ stops' = stops + 1
  /\ process' = [process EXCEPT ![p] = Off]
  /\ UNCHANGED <<builder, file, transactions>>

\* The sequencer takes the deployer's transactions in nonce order.  A class is
\* declared once.
TransactionIncluded(i) ==
  /\ i \in DOMAIN transactions /\ transactions[i].status = "pending"
  /\ \A j \in 1..(i - 1) : transactions[j].status # "pending"
  /\ \E status \in {"accepted", "reverted", "rejected"} :
       /\ status = "reverted" => /\ transactions[i].op = Deploy
                                 /\ Cardinality(Reverted) < MaxReverts
       /\ status = "rejected" <=>
            transactions[i].op # Deploy /\ transactions[i].classHash \in Declared
       /\ transactions' = [transactions EXCEPT ![i].status = status]
  /\ UNCHANGED <<builder, file, process, stops>>

Executes(p) ==
  \/ declareClassIfNeeded(p)
  \/ deployFactoryIfNeeded(p)
  \/ deployContractReturns(p)
  \/ waitForDeploymentTransaction(p)
  \/ Fails(p)
  \/ PlanApplied(p)

Next ==
  \/ \E a \in Changing : Rebuild(a)
  \/ \E p \in Processes : loadCommandContext(p)
  \/ \E p \in Processes : verifyPrimerClassHash(p)
  \/ \E p \in Processes : loadStarknetArtifact(p)
  \/ \E p \in Processes : buildFactoryPlan(p)
  \/ \E p \in Processes : EndsUnchanged(p)
  \/ \E p \in Processes : Executes(p)
  \/ \E p \in Processes : Stops(p)
  \/ \E i \in DOMAIN transactions : TransactionIncluded(i)

Spec == Init /\ [][Next]_vars

(***************************************************************************)
(* The operator starts the command again and again, and executes it again  *)
(* and again (strong fairness: previews may come in between); a run that   *)
(* is not stopped goes on; the chain goes on.  Nothing makes the operator  *)
(* rebuild and nothing makes a run stop.                                   *)
(***************************************************************************)
FairSpec ==
  /\ Spec
  /\ \A p \in Processes : /\ WF_vars(loadCommandContext(p))
                          /\ WF_vars(verifyPrimerClassHash(p))
                          /\ WF_vars(loadStarknetArtifact(p))
                          /\ SF_vars(buildFactoryPlan(p))
                          /\ WF_vars(EndsUnchanged(p))
                          /\ WF_vars(Executes(p))
  /\ WF_vars(\E i \in DOMAIN transactions : TransactionIncluded(i))
=============================================================================
