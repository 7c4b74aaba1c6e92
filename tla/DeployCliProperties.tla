------------------------- MODULE DeployCliProperties -------------------------
(***************************************************************************)
(* What the manifest may be relied on for, whatever was killed, rebuilt or *)
(* run at the same time.                                                   *)
(***************************************************************************)
EXTENDS DeployCli

TypeOK ==
  /\ artifacts \in Builds
  /\ file \in DeploymentManifest
  /\ process \in [Processes -> CommandContext]
  /\ \A p \in Processes : process[p].tx \in 0..Len(transactions)
  /\ transactions \in Seq(Transaction)
  /\ stops \in 0..MaxStops
  /\ rebuilds \in 0..MaxRebuilds
  /\ overtaken \in BOOLEAN

\* Everything the manifest on disk or in a process's memory records is on the chain:
\* each class is declared, and the factory was deployed from the class and with the
\* account class its record names.
Backed ==
  \A manifest \in {file} \cup {process[p].manifest : p \in Processes} :
    /\ \A a \in ArtifactNames :
         manifest.declaredClasses[a] # None => manifest.declaredClasses[a] \in Declared
    /\ manifest.factory # None =>
         /\ manifest.factory.address \in Factories
         /\ LET deployment == transactions[manifest.factory.address]
            IN /\ deployment.classHash = manifest.factory.classHash
               /\ deployment.accountClassHash = manifest.factory.accountClassHash

\* A factory the manifest records is of one build with everything else in it, the
\* rebuilds between and during runs notwithstanding, and can deploy accounts: the
\* account class it was given is the one on record and is declared, and so is the
\* Primer its code names, unless a rebuild overtook a run between its check of the
\* Primer and its read; then a Primer is on record, but which one is open.
Coherent ==
  file.factory # None =>
    /\ file.declaredClasses["StarknetEth712Account"] = file.factory.accountClassHash
    /\ file.declaredClasses["AccountFactory"] = file.factory.classHash
    /\ file.factory.accountClassHash \in Declared
    /\ file.declaredClasses["Primer"] \in Declared
    /\ ~overtaken => file.declaredClasses["Primer"] = EXPECTED_CLASS_HASH

\* Deployment history is not overwritten: once the manifest has recorded a class hash
\* or the factory, every later save keeps the record (one process at a time).
HistoryKept ==
  [][/\ \A a \in ArtifactNames :
          file.declaredClasses[a] # None => file'.declaredClasses[a] = file.declaredClasses[a]
     /\ file.factory # None => file'.factory = file.factory]_file

\* Rerunning does not pile up factories: one more than the manifest knows can exist
\* only for every run that was stopped (one process at a time).
FewFactories == Cardinality(Factories) <= 1 + stops

\* The command refuses until the sources are those the manifest records again.
Blocked == ~PrimerAsExpected \/ ~assertRecordedClassHashMatches(file, artifacts)

\* From whatever stopped runs and reverted deployments left behind, rerunning the
\* command completes the deployment: everything is recorded, unless a rebuild made the
\* command refuse.
Completes ==
  <>[](Blocked \/ (file.factory # None /\ PlannedActions(file, artifacts) = <<>>))

-----------------------------------------------------------------------------
\* scripts/README.md: "Before planning/execution, the script verifies the mandatory
\* `Primer` class hash".  So no other Primer would ever be on record.
PrimerVerified == file.declaredClasses["Primer"] \in {None, EXPECTED_CLASS_HASH}
=============================================================================
