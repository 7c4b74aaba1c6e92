--------------------------- MODULE DeployCliProofs ---------------------------
(***************************************************************************)
(* What the manifest records is true, of one build, and kept, for any      *)
(* number of processes, stops and rebuilds.                                *)
(***************************************************************************)
EXTENDS DeployCliProperties, FiniteSetTheorems, SequenceTheorems, TLAPS

Underway == {"executing", "deploying", "waiting"}

Running(p) == process[p].pc \in Underway

\* The actions a process has still to execute.
Left(c) == {c.plan[j] : j \in c.next..Len(c.plan)}

\* What planning has established, and each recorded action keeps true: the manifest
\* records none but the classes of the run's build, and what it lacks is still to come,
\* the factory after everything else.
PlanOK(c) ==
  c.pc \in Underway =>
    /\ \A a \in ArtifactNames :
         /\ c.manifest.declaredClasses[a] \in {None, c.artifacts[a]}
         /\ c.manifest.declaredClasses[a] = c.artifacts[a] \/ a \in Left(c)
    /\ \A j \in 1..Len(c.plan) : c.plan[j] = Deploy => j = Len(c.plan)
    /\ Deploy \in Left(c) => c.manifest.factory = None

\* The transaction a process waits for is that of its next action; a deployment it has the
\* address of is in.
WaitOK(c, txs) ==
  c.pc \in {"deploying", "waiting"} =>
    /\ c.next <= Len(c.plan)
    /\ c.tx \in 1..Len(txs)
    /\ LET op == c.plan[c.next]
       IN /\ txs[c.tx].op = op
          /\ txs[c.tx].classHash = c.artifacts[IF op = Deploy THEN "AccountFactory" ELSE op]
          /\ txs[c.tx].accountClassHash = c.artifacts["StarknetEth712Account"]
          /\ c.pc = "deploying" => op = Deploy
          /\ c.pc = "waiting" /\ op = Deploy => txs[c.tx].status = "accepted"

\* The factory a manifest records is of one build with its classes.
OneBuild(m) ==
  m.factory # None =>
    /\ m.declaredClasses["Primer"] # None
    /\ m.declaredClasses["StarknetEth712Account"] = m.factory.accountClassHash
    /\ m.declaredClasses["AccountFactory"] = m.factory.classHash

IInv ==
  /\ TypeOK
  /\ \A p \in Processes : PlanOK(process[p]) /\ WaitOK(process[p], transactions)
  /\ OneBuild(file)
  /\ \A p \in Processes : OneBuild(process[p].manifest)

-----------------------------------------------------------------------------
LEMMA Names == ArtifactNames = {"Primer", "StarknetEth712Account", "AccountFactory"}
BY DEF ArtifactNames, FACTORY_DECLARE_ORDER

LEMMA DeployIsNoArtifact == Deploy \notin ArtifactNames
BY Names DEF Deploy

Has(s, x) == \E j \in 1..Len(s) : s[j] = x

LEMMA OneOrNone ==
  ASSUME NEW S, NEW x \in S, NEW c \in BOOLEAN
  PROVE  LET s == IF c THEN <<x>> ELSE <<>>
         IN /\ s \in Seq(S)
            /\ \A j \in 1..Len(s) : s[j] = x /\ c
            /\ c => Has(s, x)
            /\ Len(s) <= 1
<1>1. CASE c
  <2>1. <<x>> \in Seq(S) /\ Len(<<x>>) = 1 /\ <<x>>[1] = x
    OBVIOUS
  <2> QED  BY <1>1, <2>1 DEF Has
<1>2. CASE ~c
  <2>1. <<>> \in Seq(S) /\ Len(<<>>) = 0
    OBVIOUS
  <2> QED  BY <1>2, <2>1
<1> QED  BY <1>1, <1>2

LEMMA Concatenated ==
  ASSUME NEW S, NEW s \in Seq(S), NEW t \in Seq(S)
  PROVE  /\ s \o t \in Seq(S)
         /\ Len(s \o t) = Len(s) + Len(t)
         /\ \A j \in 1..Len(s \o t) :
              \/ j \in 1..Len(s) /\ (s \o t)[j] = s[j]
              \/ j - Len(s) \in 1..Len(t) /\ (s \o t)[j] = t[j - Len(s)]
         /\ \A x : Has(s, x) \/ Has(t, x) => Has(s \o t, x)
<1>1. Len(s) \in Nat /\ Len(t) \in Nat
  BY LenProperties
<1>2. /\ s \o t \in Seq(S) /\ Len(s \o t) = Len(s) + Len(t)
      /\ \A j \in 1..Len(s) + Len(t) :
           (s \o t)[j] = IF j <= Len(s) THEN s[j] ELSE t[j - Len(s)]
  BY ConcatProperties
<1>3. ASSUME NEW x, Has(s, x)
      PROVE  Has(s \o t, x)
  BY <1>1, <1>2, <1>3 DEF Has
<1>4. ASSUME NEW x, Has(t, x)
      PROVE  Has(s \o t, x)
  <2>1. PICK j \in 1..Len(t) : t[j] = x
    BY <1>4 DEF Has
  <2>2. Len(s) + j \in 1..Len(s) + Len(t) /\ Len(s) + j > Len(s) /\ (Len(s) + j) - Len(s) = j
    BY <1>1
  <2> QED  BY <2>1, <2>2, <1>1, <1>2 DEF Has
<1>5. \A j \in 1..Len(s) + Len(t) : j <= Len(s) \/ j - Len(s) \in 1..Len(t)
  BY <1>1
<1> QED
  BY <1>1, <1>2, <1>3, <1>4, <1>5

\* What is in the plan, and where.
LEMMA Planned ==
  ASSUME NEW m \in DeploymentManifest, NEW build \in Builds
  PROVE  LET plan == PlannedActions(m, build)
         IN /\ plan \in Seq(Actions)
            /\ \A a \in ArtifactNames : m.declaredClasses[a] = build[a] \/ Has(plan, a)
            /\ \A j \in 1..Len(plan) : plan[j] = Deploy => j = Len(plan) /\ m.factory = None
<1> DEFINE s1 == Missing("Primer", m, build)
           s2 == Missing("StarknetEth712Account", m, build)
           s3 == Missing("AccountFactory", m, build)
           s4 == IF FactoryMissing(m) THEN <<Deploy>> ELSE <<>>
           lacks(a) == m.declaredClasses[a] # build[a]
<1>0. /\ "Primer" \in Actions /\ "StarknetEth712Account" \in Actions
      /\ "AccountFactory" \in Actions /\ Deploy \in Actions
  BY Names DEF Actions
<1>1. /\ s1 \in Seq(Actions)
      /\ \A j \in 1..Len(s1) : s1[j] # Deploy
      /\ lacks("Primer") => Has(s1, "Primer")
  <2>1. s1 = IF lacks("Primer") THEN <<"Primer">> ELSE <<>>
    BY DEF Missing
  <2> HIDE DEF s1, lacks
  <2>2. lacks("Primer") \in BOOLEAN
    BY DEF lacks
  <2> QED
    BY <1>0, <2>1, <2>2, OneOrNone DEF Deploy
<1>2. /\ s2 \in Seq(Actions)
      /\ \A j \in 1..Len(s2) : s2[j] # Deploy
      /\ lacks("StarknetEth712Account") => Has(s2, "StarknetEth712Account")
  <2>1. s2 = IF lacks("StarknetEth712Account") THEN <<"StarknetEth712Account">> ELSE <<>>
    BY DEF Missing
  <2> HIDE DEF s2, lacks
  <2>2. lacks("StarknetEth712Account") \in BOOLEAN
    BY DEF lacks
  <2> QED
    BY <1>0, <2>1, <2>2, OneOrNone DEF Deploy
<1>3. /\ s3 \in Seq(Actions)
      /\ \A j \in 1..Len(s3) : s3[j] # Deploy
      /\ lacks("AccountFactory") => Has(s3, "AccountFactory")
  <2>1. s3 = IF lacks("AccountFactory") THEN <<"AccountFactory">> ELSE <<>>
    BY DEF Missing
  <2> HIDE DEF s3, lacks
  <2>2. lacks("AccountFactory") \in BOOLEAN
    BY DEF lacks
  <2> QED
    BY <1>0, <2>1, <2>2, OneOrNone DEF Deploy
<1>4. /\ s4 \in Seq(Actions) /\ Len(s4) <= 1
      /\ \A j \in 1..Len(s4) : m.factory = None
  BY <1>0, OneOrNone DEF FactoryMissing
<1>5. PlannedActions(m, build) = s1 \o s2 \o s3 \o s4
  BY DEF PlannedActions
<1> HIDE DEF s1, s2, s3, s4, lacks
<1> DEFINE s12 == s1 \o s2
<1>6. /\ s12 \in Seq(Actions) /\ \A j \in 1..Len(s12) : s12[j] # Deploy
      /\ lacks("Primer") => Has(s12, "Primer")
      /\ lacks("StarknetEth712Account") => Has(s12, "StarknetEth712Account")
  BY <1>1, <1>2, Concatenated
<1> DEFINE s123 == s12 \o s3
<1> HIDE DEF s12
<1>7. /\ s123 \in Seq(Actions) /\ \A j \in 1..Len(s123) : s123[j] # Deploy
      /\ lacks("Primer") => Has(s123, "Primer")
      /\ lacks("StarknetEth712Account") => Has(s123, "StarknetEth712Account")
      /\ lacks("AccountFactory") => Has(s123, "AccountFactory")
  BY <1>3, <1>6, Concatenated
<1> DEFINE plan == s123 \o s4
<1> HIDE DEF s123
<1>8. /\ plan \in Seq(Actions) /\ Len(plan) = Len(s123) + Len(s4)
      /\ \A j \in 1..Len(plan) : \/ j \in 1..Len(s123) /\ plan[j] = s123[j]
                                 \/ j - Len(s123) \in 1..Len(s4)
      /\ \A a \in ArtifactNames : lacks(a) => Has(plan, a)
  BY <1>4, <1>7, Concatenated, Names
<1>9. Len(s123) \in Nat /\ Len(s4) \in Nat
  BY <1>4, <1>7, LenProperties
<1> HIDE DEF plan
<1>10. ASSUME NEW j \in 1..Len(plan), plan[j] = Deploy
       PROVE  j = Len(plan) /\ m.factory = None
  <2>1. j - Len(s123) \in 1..Len(s4)
    BY <1>7, <1>8, <1>10
  <2> QED
    BY <2>1, <1>4, <1>8, <1>9
<1> QED
  BY <1>5, <1>8, <1>10 DEF plan, s123, s12, lacks

-----------------------------------------------------------------------------
\* The types of the parts.

LEMMA Hashes ==
  /\ EXPECTED_CLASS_HASH \in ClassHashes /\ EXPECTED_CLASS_HASH # None
  /\ \A a \in ArtifactNames : <<a, 1>> \in ClassHashes
  /\ FirstBuild \in Builds
<1>1. 1 \in 1..MaxVersion
  BY DeployAssumption
<1>2. \A a \in ArtifactNames : <<a, 1>> \in ClassHashes
  BY <1>1 DEF ClassHashes
<1> QED
  BY <1>2, Names, DeployAssumption DEF EXPECTED_CLASS_HASH, FirstBuild, Builds

LEMMA EmptyManifest ==
  /\ createEmptyManifest \in DeploymentManifest
  /\ createEmptyManifest.factory = None
BY DEF createEmptyManifest, DeploymentManifest

LEMMA OffContext ==
  Off \in CommandContext /\ Off.pc = "off" /\ Off.tx = 0 /\ Off.manifest = createEmptyManifest
<1>1. <<>> \in Seq(Actions)
  OBVIOUS
<1> QED
  BY <1>1, Hashes, EmptyManifest DEF Off, CommandContext

LEMMA OffIsFine ==
  ASSUME NEW txs
  PROVE  PlanOK(Off) /\ WaitOK(Off, txs) /\ OneBuild(Off.manifest)
BY OffContext, EmptyManifest DEF PlanOK, WaitOK, OneBuild, Underway

\* The class a process would use for an action.
ClassIn(c, op) == c.artifacts[IF op = Deploy THEN "AccountFactory" ELSE op]

LEMMA ClassInType ==
  ASSUME NEW c \in CommandContext, NEW op \in Actions
  PROVE  ClassIn(c, op) \in ClassHashes
BY Names DEF ClassIn, CommandContext, Builds, Actions

RecordedIn(c, op) ==
  IF op = Deploy
  THEN [c.manifest EXCEPT !.factory =
          [address |-> c.tx, classHash |-> ClassIn(c, Deploy),
           accountClassHash |-> c.artifacts["StarknetEth712Account"]]]
  ELSE [c.manifest EXCEPT !.declaredClasses[op] = ClassIn(c, op)]

Saved(c, m) == [c EXCEPT !.pc = "executing", !.manifest = m, !.next = @ + 1, !.tx = 0]

AfterSave(c, op) == Saved(c, RecordedIn(c, op))

LEMMA SavedContext ==
  ASSUME NEW c \in CommandContext, NEW m \in DeploymentManifest
  PROVE  /\ Saved(c, m) \in CommandContext
         /\ Saved(c, m).pc = "executing" /\ Saved(c, m).manifest = m
         /\ Saved(c, m).artifacts = c.artifacts /\ Saved(c, m).plan = c.plan
         /\ Saved(c, m).next = c.next + 1 /\ Saved(c, m).tx = 0
<1>1. c.next + 1 \in Nat \ {0}
  BY DEF CommandContext
<1>2. [c EXCEPT !.pc = "executing", !.manifest = m] \in CommandContext
  BY DEF CommandContext
<1>3. \A d \in CommandContext : \A n \in Nat \ {0} : [d EXCEPT !.next = n, !.tx = 0] \in CommandContext
  BY DEF CommandContext
<1>4. \A n : [[c EXCEPT !.pc = "executing", !.manifest = m] EXCEPT !.next = n, !.tx = 0] =
              [c EXCEPT !.pc = "executing", !.manifest = m, !.next = n, !.tx = 0]
  BY DEF CommandContext
<1>5. Saved(c, m) \in CommandContext
  BY <1>1, <1>2, <1>3, <1>4 DEF Saved
<1>6. /\ Saved(c, m).pc = "executing" /\ Saved(c, m).manifest = m
      /\ Saved(c, m).artifacts = c.artifacts /\ Saved(c, m).plan = c.plan
  BY DEF Saved, CommandContext
<1>7. Saved(c, m).next = c.next + 1 /\ Saved(c, m).tx = 0
  BY DEF Saved, CommandContext
<1> QED
  BY <1>5, <1>6, <1>7

\* Updates of a record, whatever its fields hold.
LEMMA FieldsChanged ==
  ASSUME NEW A, NEW B, NEW C, NEW D, NEW E, NEW F,
         NEW c \in [pc : A, manifest : B, artifacts : C, plan : D, next : E, tx : F]
  PROVE  /\ \A s \in D, n \in E : [c EXCEPT !.plan = s, !.next = n] \in
              [pc : A, manifest : B, artifacts : C, plan : D, next : E, tx : F]
         /\ \A a \in A, n \in F :
              LET d == [c EXCEPT !.pc = a, !.tx = n]
              IN /\ d \in [pc : A, manifest : B, artifacts : C, plan : D, next : E, tx : F]
                 /\ d.pc = a /\ d.plan = c.plan /\ d.next = c.next
                 /\ d.artifacts = c.artifacts /\ d.manifest = c.manifest /\ d.tx = n
OBVIOUS

LEMMA PlannedContext ==
  ASSUME NEW c \in CommandContext, NEW s \in Seq(Actions), NEW n \in Nat \ {0}
  PROVE  [c EXCEPT !.plan = s, !.next = n] \in CommandContext
BY FieldsChanged, Zenon DEF CommandContext

Phases == {"off", "loaded", "checked", "executing", "deploying", "waiting"}

LEMMA ContextFields ==
  CommandContext = [pc : Phases, manifest : DeploymentManifest, artifacts : Builds,
                    plan : Seq(Actions), next : Nat \ {0}, tx : Nat]
BY DEF CommandContext, Phases

WaitingIn(c, phase, n) == [c EXCEPT !.pc = phase, !.tx = n]

LEMMA WaitingContext ==
  ASSUME NEW c \in CommandContext, NEW phase \in Phases, NEW n \in Nat
  PROVE  LET d == WaitingIn(c, phase, n)
         IN /\ d \in CommandContext /\ d.pc = phase /\ d.plan = c.plan /\ d.next = c.next
            /\ d.artifacts = c.artifacts /\ d.manifest = c.manifest /\ d.tx = n
BY FieldsChanged, ContextFields, Zenon DEF WaitingIn

LEMMA ReturnedContext ==
  ASSUME NEW c \in CommandContext
  PROVE  LET d == [c EXCEPT !.pc = "waiting"]
         IN /\ d \in CommandContext /\ d.pc = "waiting" /\ d.plan = c.plan /\ d.next = c.next
            /\ d.artifacts = c.artifacts /\ d.manifest = c.manifest /\ d.tx = c.tx
BY DEF CommandContext

LEMMA NextLeft ==
  ASSUME NEW c \in CommandContext, c.next <= Len(c.plan)
  PROVE  /\ c.plan[c.next] \in Actions
         /\ c.plan[c.next] \in Left(c)
         /\ \A x \in Left(c) : x = c.plan[c.next] \/ \E j \in c.next + 1..Len(c.plan) : c.plan[j] = x
<1>1. c.plan \in Seq(Actions) /\ c.next \in Nat \ {0}
  BY DEF CommandContext
<1>2. Len(c.plan) \in Nat /\ c.next \in 1..Len(c.plan)
  BY <1>1, LenProperties
<1>3. \A j \in c.next..Len(c.plan) : j = c.next \/ j \in c.next + 1..Len(c.plan)
  BY <1>2
<1>4. c.next \in c.next..Len(c.plan)
  BY <1>2
<1>5. c.plan[c.next] \in Actions
  BY <1>1, <1>2, ElementOfSeq
<1> QED
  BY <1>3, <1>4, <1>5 DEF Left

\* Recording the action that was due.
LEMMA RecordingKeeps ==
  ASSUME NEW c \in CommandContext, c.pc \in Underway,
         c.next <= Len(c.plan), PlanOK(c), OneBuild(c.manifest),
         c.plan[c.next] = Deploy => c.tx # 0
  PROVE  LET op == c.plan[c.next]
         IN /\ RecordedIn(c, op) \in DeploymentManifest
            /\ OneBuild(RecordedIn(c, op))
            /\ AfterSave(c, op) \in CommandContext
            /\ PlanOK(AfterSave(c, op))
<1> DEFINE op == c.plan[c.next]
           m  == RecordedIn(c, op)
           d  == AfterSave(c, op)
<1>1. op \in Actions /\ op \in Left(c)
  BY NextLeft
<1>2. /\ c.manifest \in DeploymentManifest /\ c.artifacts \in Builds
      /\ c.plan \in Seq(Actions) /\ c.next \in Nat \ {0} /\ c.tx \in Nat
  BY DEF CommandContext
<1>3. Len(c.plan) \in Nat
  BY <1>2, LenProperties
<1>4. /\ \A a \in ArtifactNames :
           /\ c.manifest.declaredClasses[a] \in {None, c.artifacts[a]}
           /\ c.manifest.declaredClasses[a] = c.artifacts[a] \/ a \in Left(c)
      /\ \A j \in 1..Len(c.plan) : c.plan[j] = Deploy => j = Len(c.plan)
      /\ Deploy \in Left(c) => c.manifest.factory = None
  BY DEF PlanOK
<1>5. ClassIn(c, op) \in ClassHashes /\ \A a \in ArtifactNames : c.artifacts[a] \in ClassHashes
  BY <1>1, <1>2, ClassInType DEF Builds
<1>6. \A x \in Left(c) : x = op \/ \E j \in c.next + 1..Len(c.plan) : c.plan[j] = x
  BY NextLeft
<1> HIDE DEF op
<1>7. CASE op = Deploy
  <2>1. c.next = Len(c.plan)
    BY <1>2, <1>3, <1>4, <1>7 DEF op
  <2>2. \A a \in ArtifactNames : c.manifest.declaredClasses[a] = c.artifacts[a]
    <3>1. c.next + 1..Len(c.plan) = {}
      BY <2>1, <1>2, <1>3
    <3> QED
      BY <3>1, <1>4, <1>6, <1>7, DeployIsNoArtifact
  <2>3. /\ m.declaredClasses = c.manifest.declaredClasses
        /\ m.lastPlan = c.manifest.lastPlan
        /\ m.factory = [address |-> c.tx, classHash |-> c.artifacts["AccountFactory"],
                        accountClassHash |-> c.artifacts["StarknetEth712Account"]]
    BY <1>2, <1>7 DEF RecordedIn, ClassIn, DeploymentManifest
  <2>4. c.tx # 0
    BY <1>7 DEF op
  <2>5. m.factory \in FactoryDeploymentRecord
    BY <2>3, <2>4, <1>2, <1>5, Names DEF FactoryDeploymentRecord
  <2>6. m \in DeploymentManifest
    BY <2>5, <1>2, <1>7 DEF RecordedIn, ClassIn, DeploymentManifest
  <2>7. OneBuild(m)
    <3>1. c.manifest.declaredClasses["Primer"] # None
      BY <2>2, <1>5, Names, DeployAssumption
    <3> QED
      BY <3>1, <2>2, <2>3, Names DEF OneBuild
  <2>8. /\ d \in CommandContext
        /\ d.plan = c.plan /\ d.next = c.next + 1 /\ d.artifacts = c.artifacts /\ d.manifest = m
    BY <2>6, SavedContext DEF AfterSave
  <2> HIDE DEF d, m
  <2>9. Left(d) = {}
    BY <2>1, <2>8, <1>2, <1>3 DEF Left
  <2>10. PlanOK(d)
    BY <2>2, <2>3, <2>8, <2>9, <1>4 DEF PlanOK
  <2> QED
    BY <2>6, <2>7, <2>8, <2>10 DEF op, d, m
<1>8. CASE op # Deploy
  <2>1. op \in ArtifactNames /\ ClassIn(c, op) = c.artifacts[op]
    BY <1>1, <1>8 DEF Actions, ClassIn
  <2>2. /\ m.factory = c.manifest.factory
        /\ m.lastPlan = c.manifest.lastPlan
        /\ m.declaredClasses = [c.manifest.declaredClasses EXCEPT ![op] = c.artifacts[op]]
    BY <2>1, <1>2, <1>8 DEF RecordedIn, DeploymentManifest
  <2>3. m \in DeploymentManifest
    BY <2>1, <1>2, <1>5, <1>8 DEF RecordedIn, DeploymentManifest
  <2>4. \A a \in ArtifactNames :
          m.declaredClasses[a] = IF a = op THEN c.artifacts[a] ELSE c.manifest.declaredClasses[a]
    BY <2>1, <2>2, <1>2 DEF DeploymentManifest
  <2>5. OneBuild(m)
    <3> SUFFICES ASSUME m.factory # None
                 PROVE  /\ m.declaredClasses["Primer"] # None
                        /\ m.declaredClasses["StarknetEth712Account"] = m.factory.accountClassHash
                        /\ m.declaredClasses["AccountFactory"] = m.factory.classHash
      BY DEF OneBuild
    <3>1. /\ c.manifest.declaredClasses["Primer"] # None
          /\ c.manifest.declaredClasses["StarknetEth712Account"] = m.factory.accountClassHash
          /\ c.manifest.declaredClasses["AccountFactory"] = m.factory.classHash
      BY <2>2 DEF OneBuild
    <3>2. m.factory.accountClassHash # None /\ m.factory.classHash # None
      BY <2>3, DeployAssumption DEF DeploymentManifest, FactoryDeploymentRecord
    <3>3. \A a \in ArtifactNames :
            c.manifest.declaredClasses[a] # None => m.declaredClasses[a] = c.manifest.declaredClasses[a]
      BY <2>4, <1>4
    <3> QED
      BY <3>1, <3>2, <3>3, Hashes, Names
  <2>6. /\ d \in CommandContext
        /\ d.plan = c.plan /\ d.next = c.next + 1 /\ d.artifacts = c.artifacts /\ d.manifest = m
    BY <2>3, SavedContext DEF AfterSave
  <2> HIDE DEF d, m
  <2>7. Left(d) = {c.plan[j] : j \in c.next + 1..Len(c.plan)}
    BY <2>6 DEF Left
  <2>8. Left(d) \subseteq Left(c)
    <3>1. \A j \in c.next + 1..Len(c.plan) : j \in c.next..Len(c.plan)
      BY <1>2, <1>3
    <3> QED
      BY <3>1, <2>7 DEF Left
  <2>9. \A x \in Left(c) : x = op \/ x \in Left(d)
    BY <2>7, <1>6
  <2>10. \A a \in ArtifactNames :
           /\ m.declaredClasses[a] \in {None, c.artifacts[a]}
           /\ m.declaredClasses[a] = c.artifacts[a] \/ a \in Left(d)
    BY <2>4, <2>9, <1>4
  <2>11. Deploy \in Left(d) => m.factory = None
    BY <2>2, <2>8, <1>4
  <2>12. PlanOK(d)
    BY <2>6, <2>10, <2>11, <1>4 DEF PlanOK
  <2> QED
    BY <2>3, <2>5, <2>6, <2>12 DEF op, d, m
<1> QED
  BY <1>7, <1>8
-----------------------------------------------------------------------------
\* The invariant.

\* What is known of a process.
Known(c, txs) ==
  /\ c \in CommandContext /\ c.tx \in 0..Len(txs)
  /\ PlanOK(c) /\ WaitOK(c, txs) /\ OneBuild(c.manifest)

LEMMA IInvParts ==
  IInv <=> /\ artifacts \in Builds
           /\ file \in DeploymentManifest
           /\ DOMAIN process = Processes /\ process = [p \in Processes |-> process[p]]
           /\ transactions \in Seq(Transaction)
           /\ stops \in 0..MaxStops
           /\ rebuilds \in 0..MaxRebuilds /\ overtaken \in BOOLEAN
           /\ OneBuild(file)
           /\ \A p \in Processes : Known(process[p], transactions)
BY DEF IInv, TypeOK, Known

LEMMA InitIInv == Init => IInv
<1> SUFFICES ASSUME Init PROVE IInv
  OBVIOUS
<1>1. transactions \in Seq(Transaction) /\ Len(transactions) = 0
  BY DEF Init
<1>2. \A p \in Processes : Known(process[p], transactions)
  <2>1. Off.tx \in 0..Len(transactions)
    BY <1>1, OffContext
  <2>2. Known(Off, transactions)
    BY <2>1, OffContext, OffIsFine DEF Known
  <2>3. \A p \in Processes : process[p] = Off
    BY DEF Init
  <2> QED
    BY <2>2, <2>3
<1>3. stops \in 0..MaxStops /\ rebuilds \in 0..MaxRebuilds /\ overtaken \in BOOLEAN
  <2>1. stops = 0 /\ rebuilds = 0 /\ overtaken = FALSE
    BY DEF Init
  <2>2. MaxStops \in Nat /\ MaxRebuilds \in Nat
    BY DeployAssumption
  <2>3. stops \in 0..MaxStops /\ rebuilds \in 0..MaxRebuilds
    BY <2>1, <2>2
  <2>4. overtaken \in BOOLEAN
    BY <2>1
  <2> QED
    BY <2>3, <2>4
<1>4. artifacts \in Builds /\ file \in DeploymentManifest /\ OneBuild(file)
  BY Hashes, EmptyManifest DEF Init, OneBuild
<1> QED
  BY <1>1, <1>2, <1>3, <1>4, IInvParts DEF Init

\* The chain's half of a step: transactions only get more and only leave "pending".
Grows(txs, new) ==
  /\ new \in Seq(Transaction)
  /\ Len(txs) <= Len(new)
  /\ \A i \in 1..Len(txs) :
       /\ new[i].op = txs[i].op /\ new[i].classHash = txs[i].classHash
       /\ new[i].accountClassHash = txs[i].accountClassHash
       /\ txs[i].status # "pending" => new[i].status = txs[i].status

LEMMA KnownGrows ==
  ASSUME NEW c, NEW txs \in Seq(Transaction), NEW new, Grows(txs, new), Known(c, txs)
  PROVE  Known(c, new)
<1>1. Len(txs) \in Nat /\ Len(new) \in Nat
  BY LenProperties DEF Grows
<1>2. c.tx \in 0..Len(new)
  BY <1>1 DEF Known, Grows
<1>3. WaitOK(c, new)
  BY <1>1 DEF Known, Grows, WaitOK
<1> QED
  BY <1>2, <1>3 DEF Known

\* A step that changes one process.
LEMMA OneProcess ==
  ASSUME IInv, NEW p \in Processes, NEW c,
         process' = [process EXCEPT ![p] = c],
         Known(c, transactions'), Grows(transactions, transactions'),
         UNCHANGED builder, stops' \in 0..MaxStops,
         file' \in DeploymentManifest, OneBuild(file')
  PROVE  IInv'
<1>1. \A q \in Processes : Known(process[q], transactions')
  BY IInvParts, KnownGrows
<1>2. /\ DOMAIN process' = Processes
      /\ \A q \in Processes : process'[q] = IF q = p THEN c ELSE process[q]
  BY IInvParts
<1>3. \A q \in Processes : process'[q] \in CommandContext /\ process'[q].tx \in 0..Len(transactions')
                          /\ PlanOK(process'[q]) /\ WaitOK(process'[q], transactions')
                          /\ OneBuild(process'[q].manifest)
  BY <1>1, <1>2 DEF Known
<1>4. process' \in [Processes -> CommandContext]
  BY <1>2, <1>3, IInvParts
<1>5. /\ artifacts' \in Builds /\ transactions' \in Seq(Transaction)
      /\ rebuilds' \in 0..MaxRebuilds /\ overtaken' \in BOOLEAN
  BY IInvParts DEF Grows, builder
<1> QED
  BY <1>3, <1>4, <1>5 DEF IInv, TypeOK

LEMMA NothingGrows ==
  ASSUME NEW txs \in Seq(Transaction)
  PROVE  Grows(txs, txs)
<1>1. Len(txs) \in Nat
  BY LenProperties
<1> QED
  BY <1>1 DEF Grows

LEMMA RebuildIInv == ASSUME IInv, NEW a \in ArtifactNames, Rebuild(a) PROVE IInv'
<1>1. artifacts' \in Builds
  <2>1. artifacts \in Builds
    BY IInvParts
  <2>2. PICK v \in 1..MaxVersion : artifacts' = [artifacts EXCEPT ![a] = <<a, v>>]
    BY DEF Rebuild
  <2>3. <<a, v>> \in ClassHashes
    BY DEF ClassHashes
  <2> QED
    BY <2>1, <2>2, <2>3 DEF Builds
<1>2. UNCHANGED <<file, process, transactions, stops>>
  BY DEF Rebuild
<1>3. rebuilds' \in 0..MaxRebuilds
  BY IInvParts, DeployAssumption DEF Rebuild
<1>4. overtaken' \in BOOLEAN
  BY IInvParts DEF Rebuild
<1> QED
  BY <1>1, <1>2, <1>3, <1>4 DEF IInv, TypeOK, PlanOK, WaitOK, OneBuild, Left

LEMMA LoadIInv == ASSUME IInv, NEW p \in Processes, loadCommandContext(p) PROVE IInv'
<1> DEFINE c == [process[p] EXCEPT !.pc = "loaded", !.manifest = file]
<1>1. Known(process[p], transactions) /\ file \in DeploymentManifest /\ OneBuild(file)
  BY IInvParts
<1>2. /\ c \in CommandContext /\ c.pc = "loaded" /\ c.manifest = file /\ c.tx = process[p].tx
  BY <1>1 DEF Known, CommandContext
<1>3. process' = [process EXCEPT ![p] = c] /\ UNCHANGED <<builder, file, transactions, stops>>
  BY DEF loadCommandContext
<1> HIDE DEF c
<1>4. Known(c, transactions)
  BY <1>1, <1>2 DEF Known, PlanOK, WaitOK, Underway
<1> QED
  BY <1>1, <1>3, <1>4, OneProcess, NothingGrows, IInvParts

LEMMA VerifyIInv == ASSUME IInv, NEW p \in Processes, verifyPrimerClassHash(p) PROVE IInv'
<1> DEFINE c == [process[p] EXCEPT !.pc = "checked"]
<1>1. Known(process[p], transactions)
  BY IInvParts
<1>2. /\ c \in CommandContext /\ c.pc = "checked" /\ c.manifest = process[p].manifest
      /\ c.tx = process[p].tx
  BY <1>1 DEF Known, CommandContext
<1>3. process' = [process EXCEPT ![p] = c] /\ UNCHANGED <<builder, file, transactions, stops>>
  BY DEF verifyPrimerClassHash
<1> HIDE DEF c
<1>4. Known(c, transactions)
  BY <1>1, <1>2 DEF Known, PlanOK, WaitOK, Underway
<1> QED
  BY <1>1, <1>3, <1>4, OneProcess, NothingGrows, IInvParts

LEMMA ReadName ==
  ASSUME NEW p, process[p].next \in 1..3
  PROVE  FACTORY_DECLARE_ORDER[process[p].next] \in ArtifactNames
BY DEF ArtifactNames

LEMMA ReadIInv == ASSUME IInv, NEW p \in Processes, loadStarknetArtifact(p) PROVE IInv'
<1> DEFINE a == FACTORY_DECLARE_ORDER[process[p].next]
           c == [process[p] EXCEPT !.artifacts[a] = artifacts[a], !.next = @ + 1]
<1>1. Known(process[p], transactions) /\ artifacts \in Builds
  BY IInvParts
<1>2. a \in ArtifactNames
  BY ReadName DEF loadStarknetArtifact
<1>3. process' = [process EXCEPT ![p] = c] /\ UNCHANGED <<builder, file, transactions, stops>>
  BY DEF loadStarknetArtifact
<1>4. process[p].pc = "checked"
  BY DEF loadStarknetArtifact
<1> HIDE DEF a
<1>5. /\ c \in CommandContext /\ c.pc = "checked" /\ c.manifest = process[p].manifest
      /\ c.tx = process[p].tx
  <2>1. process[p] \in CommandContext
    BY <1>1 DEF Known
  <2>2. artifacts[a] \in ClassHashes
    BY <1>1, <1>2 DEF Builds
  <2>3. [process[p].artifacts EXCEPT ![a] = artifacts[a]] \in Builds
    BY <2>1, <2>2 DEF CommandContext, Builds
  <2>4. process[p].next + 1 \in Nat \ {0}
    BY <2>1 DEF CommandContext
  <2> QED
    BY <2>1, <2>3, <2>4, <1>4 DEF CommandContext
<1> HIDE DEF c
<1>6. Known(c, transactions)
  BY <1>1, <1>5 DEF Known, PlanOK, WaitOK, Underway
<1> QED
  BY <1>1, <1>3, <1>6, OneProcess, NothingGrows, IInvParts

LEMMA OffIInv ==
  ASSUME IInv, NEW p \in Processes, process' = [process EXCEPT ![p] = Off],
         UNCHANGED <<builder, transactions>>, stops' \in 0..MaxStops,
         file' \in DeploymentManifest, OneBuild(file')
  PROVE  IInv'
<1>1. transactions \in Seq(Transaction) /\ Len(transactions) \in Nat
  BY IInvParts, LenProperties
<1>2. Known(Off, transactions)
  BY <1>1, OffContext, OffIsFine DEF Known
<1> QED
  BY <1>1, <1>2, OneProcess, NothingGrows

LEMMA PlanIInv == ASSUME IInv, NEW p \in Processes, buildFactoryPlan(p) PROVE IInv'
<1> DEFINE m     == process[p].manifest
           build == process[p].artifacts
           plan  == PlannedActions(m, build)
           c     == [process[p] EXCEPT !.pc = "executing", !.plan = plan, !.next = 1]
<1>1. /\ Known(process[p], transactions) /\ build \in Builds
      /\ file \in DeploymentManifest /\ OneBuild(file) /\ stops \in 0..MaxStops
      /\ transactions \in Seq(Transaction)
  BY IInvParts DEF Known, CommandContext
<1>2. UNCHANGED <<builder, file, transactions, stops>>
  BY DEF buildFactoryPlan
<1>3. CASE plan = <<>>
  <2>1. process' = [process EXCEPT ![p] = Off]
    BY <1>3 DEF buildFactoryPlan
  <2> QED
    BY <2>1, <1>1, <1>2, OffIInv
<1>4. CASE plan # <<>>
  <2>1. process' = [process EXCEPT ![p] = c]
    BY <1>4 DEF buildFactoryPlan
  <2>2. m \in DeploymentManifest
    BY <1>1 DEF Known, CommandContext
  <2>3. /\ plan \in Seq(Actions)
        /\ \A a \in ArtifactNames : m.declaredClasses[a] = build[a] \/ Has(plan, a)
        /\ \A j \in 1..Len(plan) : plan[j] = Deploy => j = Len(plan) /\ m.factory = None
    BY <1>1, <2>2, Planned
  <2>4. \A a \in ArtifactNames : m.declaredClasses[a] \in {None, build[a]}
    BY DEF buildFactoryPlan, assertRecordedClassHashMatches
  <2> HIDE DEF plan
  <2>5. /\ c \in CommandContext /\ c.pc = "executing" /\ c.artifacts = build /\ c.plan = plan
        /\ c.next = 1 /\ c.manifest = m /\ c.tx = process[p].tx
    <3>1. process[p] \in CommandContext
      BY <1>1 DEF Known
    <3>2. [process[p] EXCEPT !.pc = "executing"] \in CommandContext
      BY <1>1, <3>1 DEF CommandContext
    <3>3. \A d \in CommandContext : [d EXCEPT !.plan = plan, !.next = 1] \in CommandContext
      <4>1. 1 \in Nat \ {0}
        OBVIOUS
      <4> QED
        BY <4>1, <2>3, PlannedContext, Zenon
    <3>4. c = [[process[p] EXCEPT !.pc = "executing"] EXCEPT !.plan = plan, !.next = 1]
      BY <3>1 DEF CommandContext
    <3>5. c \in CommandContext
      BY <3>2, <3>3, <3>4
    <3>6. /\ c.pc = "executing" /\ c.artifacts = build /\ c.plan = plan
          /\ c.manifest = m /\ c.tx = process[p].tx
      BY <3>1 DEF CommandContext
    <3>7. c.next = 1
      BY <3>1 DEF CommandContext
    <3> QED
      BY <3>5, <3>6, <3>7
  <2> HIDE DEF c, m, build
  <2>6. \A x : Has(plan, x) <=> x \in Left(c)
    BY <2>5 DEF Has, Left
  <2>7. Deploy \in Left(c) => m.factory = None
    BY <2>3, <2>6 DEF Has
  <2>8. PlanOK(c)
    BY <2>3, <2>4, <2>5, <2>6, <2>7 DEF PlanOK
  <2>9. Known(c, transactions)
    BY <2>5, <2>8, <1>1 DEF Known, WaitOK, m, build
  <2> QED
    BY <2>1, <2>9, <1>1, <1>2, OneProcess, NothingGrows
<1> QED
  BY <1>3, <1>4

LEMMA EndsIInv == ASSUME IInv, NEW p \in Processes, EndsUnchanged(p) PROVE IInv'
BY OffIInv, IInvParts DEF EndsUnchanged

LEMMA FailsIInv == ASSUME IInv, NEW p \in Processes, Fails(p) PROVE IInv'
BY OffIInv, IInvParts DEF Fails

LEMMA StopsIInv == ASSUME IInv, NEW p \in Processes, Stops(p) PROVE IInv'
<1>1. stops' \in 0..MaxStops
  BY IInvParts, DeployAssumption DEF Stops
<1> QED
  BY <1>1, OffIInv, IInvParts DEF Stops

LEMMA PlanAppliedIInv == ASSUME IInv, NEW p \in Processes, PlanApplied(p) PROVE IInv'
<1> DEFINE m == [process[p].manifest EXCEPT !.lastPlan = process[p].plan]
<1>1. Known(process[p], transactions)
  BY IInvParts
<1>2. /\ m \in DeploymentManifest /\ m.factory = process[p].manifest.factory
      /\ m.declaredClasses = process[p].manifest.declaredClasses
  BY <1>1 DEF Known, CommandContext, DeploymentManifest
<1>3. OneBuild(m)
  BY <1>1, <1>2 DEF Known, OneBuild
<1> QED
  BY <1>2, <1>3, OffIInv, IInvParts DEF PlanApplied

\* What a process is at when it executes or waits.
LEMMA SavesIInv ==
  ASSUME IInv, NEW p \in Processes, Running(p), process[p].next <= Len(process[p].plan),
         NextAction(p) = Deploy => process[p].tx # 0 /\ Accepted(process[p].tx),
         Saves(p, Recorded(p, NextAction(p)))
  PROVE  /\ IInv'
         /\ process' = [process EXCEPT ![p] = AfterSave(process[p], NextAction(p))]
         /\ file' = RecordedIn(process[p], NextAction(p))
<1> DEFINE c  == process[p]
           op == c.plan[c.next]
<1>1. Known(c, transactions) /\ transactions \in Seq(Transaction) /\ Len(transactions) \in Nat
  BY IInvParts, LenProperties
<1>2. /\ RecordedIn(c, op) \in DeploymentManifest /\ OneBuild(RecordedIn(c, op))
      /\ AfterSave(c, op) \in CommandContext /\ PlanOK(AfterSave(c, op))
  BY <1>1, RecordingKeeps DEF Known, Running, NextAction
<1>3. /\ op = NextAction(p)
      /\ Recorded(p, op) = RecordedIn(c, op)
  BY DEF NextAction, Recorded, RecordedIn, FactoryAt, AddressOf, ClassOf, ClassIn
<1>4. /\ process' = [process EXCEPT ![p] = AfterSave(c, op)]
      /\ file' = RecordedIn(c, op)
      /\ UNCHANGED <<builder, transactions, stops>>
  BY <1>3 DEF Saves, AfterSave, Saved
<1>5. /\ AfterSave(c, op).pc = "executing" /\ AfterSave(c, op).tx = 0
      /\ AfterSave(c, op).manifest = RecordedIn(c, op)
  BY <1>1, <1>2, SavedContext DEF AfterSave, Known
<1>6. Known(AfterSave(c, op), transactions)
  BY <1>1, <1>2, <1>5 DEF Known, WaitOK
<1>7. IInv'
  BY <1>1, <1>2, <1>4, <1>6, OneProcess, NothingGrows, IInvParts
<1> QED
  BY <1>3, <1>4, <1>7

LEMMA SendsIInv ==
  ASSUME IInv, NEW p \in Processes, Executing(p), Sends(p, NextAction(p))
  PROVE  IInv' /\ Grows(transactions, transactions')
<1> DEFINE c  == process[p]
           op == NextAction(p)
           t  == [op |-> op, classHash |-> ClassOf(p, op),
                  accountClassHash |-> c.artifacts["StarknetEth712Account"], status |-> "pending"]
           pc == IF op = Deploy THEN "deploying" ELSE "waiting"
           d  == [c EXCEPT !.pc = pc, !.tx = Len(transactions) + 1]
<1>1. Known(c, transactions) /\ transactions \in Seq(Transaction) /\ Len(transactions) \in Nat
  BY IInvParts, LenProperties
<1>2. c.next <= Len(c.plan) /\ c.pc = "executing"
  BY DEF Executing
<1>3. op \in Actions
  BY <1>1, <1>2, NextLeft DEF Known, NextAction
<1>4. t \in Transaction
  <2>1. ClassOf(p, op) = ClassIn(c, op)
    BY DEF ClassOf, ClassIn
  <2>2. ClassOf(p, op) \in ClassHashes
    BY <2>1, <1>1, <1>3, ClassInType DEF Known
  <2>3. c.artifacts["StarknetEth712Account"] \in ClassHashes
    BY <1>1, Names DEF Known, CommandContext, Builds
  <2> QED
    BY <2>2, <2>3, <1>3 DEF Transaction
<1>5. /\ transactions' = Append(transactions, t)
      /\ process' = [process EXCEPT ![p] = d]
      /\ UNCHANGED <<builder, file, stops>>
  BY DEF Sends
<1> HIDE DEF t
<1>6. /\ transactions' \in Seq(Transaction) /\ Len(transactions') = Len(transactions) + 1
      /\ \A i \in 1..Len(transactions) : transactions'[i] = transactions[i]
      /\ transactions'[Len(transactions) + 1] = t
  BY <1>1, <1>4, <1>5, AppendProperties
<1>7. Grows(transactions, transactions')
  BY <1>1, <1>6 DEF Grows
<1>8. /\ d \in CommandContext /\ d.pc = pc /\ d.plan = c.plan /\ d.next = c.next
      /\ d.artifacts = c.artifacts /\ d.manifest = c.manifest
      /\ d.tx = Len(transactions) + 1
  <2>1. c \in CommandContext /\ Len(transactions) + 1 \in Nat
    BY <1>1 DEF Known
  <2>2. pc \in Phases
    BY DEF Phases
  <2> DEFINE n == Len(transactions) + 1
  <2>3. n \in Nat
    BY <1>1
  <2>4. d = WaitingIn(c, pc, n)
    BY DEF WaitingIn
  <2> HIDE DEF pc, n, d, c
  <2>5. /\ d \in CommandContext /\ d.pc = pc /\ d.plan = c.plan /\ d.next = c.next
        /\ d.artifacts = c.artifacts /\ d.manifest = c.manifest /\ d.tx = n
    BY <2>1, <2>2, <2>3, <2>4, WaitingContext
  <2> QED
    BY <2>5 DEF n
<1> HIDE DEF d
<1>9. PlanOK(d)
  <2>1. Left(d) = Left(c)
    BY <1>8 DEF Left
  <2> QED
    BY <2>1, <1>1, <1>2, <1>8 DEF Known, PlanOK, Underway
<1>10. WaitOK(d, transactions')
  <2>1. /\ t.op = d.plan[d.next] /\ t.accountClassHash = d.artifacts["StarknetEth712Account"]
        /\ t.classHash = d.artifacts[IF d.plan[d.next] = Deploy THEN "AccountFactory" ELSE d.plan[d.next]]
    BY <1>8 DEF t, NextAction, ClassOf
  <2>2. d.tx \in 1..Len(transactions') /\ transactions'[d.tx] = t
    BY <1>1, <1>6, <1>8
  <2>3. d.plan[d.next] = op
    BY <1>8 DEF NextAction
  <2> QED
    BY <2>1, <2>2, <2>3, <1>2, <1>8 DEF WaitOK
<1>11. Known(d, transactions')
  BY <1>1, <1>6, <1>8, <1>9, <1>10 DEF Known
<1> QED
  BY <1>5, <1>7, <1>11, OneProcess, IInvParts

LEMMA DeclareIInv == ASSUME IInv, NEW p \in Processes, declareClassIfNeeded(p) PROVE IInv'
<1>1. CASE IsDeclared(p, NextAction(p))
  BY <1>1, SavesIInv DEF declareClassIfNeeded, Executing, Running, Underway
<1>2. CASE ~IsDeclared(p, NextAction(p))
  BY <1>2, SendsIInv DEF declareClassIfNeeded
<1> QED
  BY <1>1, <1>2

LEMMA DeployIInv == ASSUME IInv, NEW p \in Processes, deployFactoryIfNeeded(p) PROVE IInv'
BY SendsIInv DEF deployFactoryIfNeeded

LEMMA ReturnsIInv == ASSUME IInv, NEW p \in Processes, deployContractReturns(p) PROVE IInv'
<1> DEFINE c == process[p]
           d == [c EXCEPT !.pc = "waiting"]
<1>1. Known(c, transactions) /\ c.pc = "deploying" /\ transactions \in Seq(Transaction)
  BY IInvParts DEF deployContractReturns
<1>2. /\ d \in CommandContext /\ d.pc = "waiting" /\ d.plan = c.plan /\ d.next = c.next
      /\ d.artifacts = c.artifacts /\ d.manifest = c.manifest /\ d.tx = c.tx
  BY <1>1, ReturnedContext DEF Known
<1>3. transactions[c.tx].status = "accepted"
  BY DEF deployContractReturns, HasAddress, AddressOf, Accepted
<1>4. process' = [process EXCEPT ![p] = d] /\ UNCHANGED <<builder, file, transactions, stops>>
  BY DEF deployContractReturns
<1> HIDE DEF c, d
<1>5. Left(d) = Left(c)
  BY <1>2 DEF Left
<1>6. PlanOK(d)
  BY <1>1, <1>2, <1>5 DEF Known, PlanOK, Underway
<1>7. WaitOK(d, transactions)
  BY <1>1, <1>2, <1>3 DEF Known, WaitOK
<1>8. Known(d, transactions)
  BY <1>1, <1>2, <1>6, <1>7 DEF Known
<1> QED
  BY <1>1, <1>4, <1>8, OneProcess, NothingGrows, IInvParts

\* The action a process has waited for is recorded with what the chain has.
LEMMA WaitedFor ==
  ASSUME IInv, NEW p \in Processes, process[p].pc = "waiting"
  PROVE  /\ process[p].next <= Len(process[p].plan) /\ process[p].tx \in 1..Len(transactions)
         /\ NextAction(p) = Deploy => process[p].tx # 0 /\ Accepted(process[p].tx)
<1>1. Known(process[p], transactions)
  BY IInvParts
<1> QED
  BY <1>1 DEF Known, WaitOK, NextAction, Accepted

LEMMA WaitIInv == ASSUME IInv, NEW p \in Processes, waitForDeploymentTransaction(p) PROVE IInv'
BY WaitedFor, SavesIInv DEF waitForDeploymentTransaction, Running, Underway

\* A transaction's fate is decided once.
LEMMA IncludedGrows ==
  ASSUME IInv, NEW i \in DOMAIN transactions, TransactionIncluded(i)
  PROVE  /\ Grows(transactions, transactions')
         /\ Len(transactions') = Len(transactions)
         /\ \A k \in 1..Len(transactions) : k # i => transactions'[k] = transactions[k]
         /\ transactions'[i].status \in {"accepted", "reverted", "rejected"}
         /\ transactions'[i].status = "reverted" => transactions'[i].op = Deploy
<1>1. transactions \in Seq(Transaction) /\ Len(transactions) \in Nat /\ DOMAIN transactions = 1..Len(transactions)
  BY IInvParts, LenProperties
<1>2. PICK status \in {"accepted", "reverted", "rejected"} :
        /\ transactions' = [transactions EXCEPT ![i].status = status]
        /\ status = "reverted" => transactions[i].op = Deploy
  BY DEF TransactionIncluded
<1> DEFINE t == [transactions[i] EXCEPT !.status = status]
<1>3. transactions[i] \in Transaction /\ transactions[i].status = "pending"
  BY <1>1, ElementOfSeq DEF TransactionIncluded
<1>4. /\ t \in Transaction /\ t.op = transactions[i].op /\ t.classHash = transactions[i].classHash
      /\ t.accountClassHash = transactions[i].accountClassHash /\ t.status = status
  BY <1>3 DEF Transaction
<1>5. transactions' = [transactions EXCEPT ![i] = t]
  BY <1>2
<1> HIDE DEF t
<1>6. /\ transactions' \in Seq(Transaction) /\ Len(transactions') = Len(transactions)
      /\ \A k \in 1..Len(transactions) : transactions'[k] = IF k = i THEN t ELSE transactions[k]
  BY <1>1, <1>4, <1>5, ExceptSeq
<1> QED
  BY <1>1, <1>2, <1>3, <1>4, <1>6 DEF Grows

LEMMA IncludedIInv ==
  ASSUME IInv, NEW i \in DOMAIN transactions, TransactionIncluded(i)
  PROVE  IInv'
<1>1. Grows(transactions, transactions') /\ transactions \in Seq(Transaction)
  BY IncludedGrows, IInvParts
<1>2. UNCHANGED <<artifacts, rebuilds, overtaken, file, process, stops>>
  BY DEF TransactionIncluded, builder
<1>3. \A p \in Processes : Known(process[p], transactions')
  BY <1>1, IInvParts, KnownGrows
<1> QED
  BY <1>1, <1>2, <1>3, IInvParts DEF IInv, TypeOK, Known, Grows

LEMMA NextIInv == IInv /\ [Next]_vars => IInv'
<1> SUFFICES ASSUME IInv, [Next]_vars PROVE IInv'
  OBVIOUS
<1>1. ASSUME NEW a \in Changing, Rebuild(a) PROVE IInv'
  BY <1>1, RebuildIInv, DeployAssumption
<1>2. ASSUME NEW p \in Processes, loadCommandContext(p) PROVE IInv'
  BY <1>2, LoadIInv
<1>3. ASSUME NEW p \in Processes, buildFactoryPlan(p) PROVE IInv'
  BY <1>3, PlanIInv
<1>4. ASSUME NEW p \in Processes, EndsUnchanged(p) PROVE IInv'
  BY <1>4, EndsIInv
<1>5. ASSUME NEW p \in Processes, Executes(p) PROVE IInv'
  BY <1>5, DeclareIInv, DeployIInv, ReturnsIInv, WaitIInv, FailsIInv, PlanAppliedIInv DEF Executes
<1>6. ASSUME NEW p \in Processes, Stops(p) PROVE IInv'
  BY <1>6, StopsIInv
<1>7. ASSUME NEW i \in DOMAIN transactions, TransactionIncluded(i) PROVE IInv'
  BY <1>7, IncludedIInv
<1>8. CASE UNCHANGED vars
  BY <1>8 DEF vars, IInv, TypeOK, PlanOK, WaitOK, OneBuild, Left
<1>9. ASSUME NEW p \in Processes, verifyPrimerClassHash(p) \/ loadStarknetArtifact(p) PROVE IInv'
  BY <1>9, VerifyIInv, ReadIInv
<1> QED
  BY <1>1, <1>2, <1>3, <1>4, <1>5, <1>6, <1>7, <1>8, <1>9 DEF Next

\* Whatever is rebuilt, stopped or run beside it, the state keeps its types.
THEOREM TypeCorrect == Spec => []TypeOK
<1>1. IInv => TypeOK
  BY DEF IInv
<1> QED
  BY <1>1, InitIInv, NextIInv, PTL DEF Spec

-----------------------------------------------------------------------------
\* The manifest and the chain.

\* What a manifest records has come about by these transactions.
TrueOf(m, txs) ==
  /\ \A a \in ArtifactNames : m.declaredClasses[a] # None =>
       \E i \in 1..Len(txs) : /\ txs[i].status = "accepted" /\ txs[i].op # Deploy
                             /\ txs[i].classHash = m.declaredClasses[a]
  /\ m.factory # None =>
       /\ m.factory.address \in 1..Len(txs)
       /\ LET t == txs[m.factory.address]
          IN /\ t.status = "accepted" /\ t.op = Deploy
             /\ t.classHash = m.factory.classHash
             /\ t.accountClassHash = m.factory.accountClassHash

\* Only deployments revert.
OnlyDeploymentsRevert(txs) ==
  \A i \in 1..Len(txs) : txs[i].status = "reverted" => txs[i].op = Deploy

\* The file and every process's copy are true.
BInv ==
  /\ OnlyDeploymentsRevert(transactions)
  /\ TrueOf(file, transactions)
  /\ \A p \in Processes : TrueOf(process[p].manifest, transactions)

LEMMA TrueGrows ==
  ASSUME NEW m, NEW txs \in Seq(Transaction), NEW new, Grows(txs, new), TrueOf(m, txs)
  PROVE  TrueOf(m, new)
<1>1. Len(txs) \in Nat /\ Len(new) \in Nat
  BY LenProperties DEF Grows
<1> QED
  BY <1>1 DEF Grows, TrueOf

LEMMA TrueOfEmpty == ASSUME NEW txs PROVE TrueOf(createEmptyManifest, txs)
BY DEF createEmptyManifest, TrueOf

\* A run records what it finds declared, or waited for.
LEMMA RecordsTrue ==
  ASSUME NEW c, NEW txs \in Seq(Transaction), Known(c, txs), TrueOf(c.manifest, txs),
         c.next <= Len(c.plan), NEW op, op = c.plan[c.next],
         \/ /\ c.pc = "waiting" /\ txs[c.tx].status = "accepted"
         \/ /\ op # Deploy
            /\ \E i \in 1..Len(txs) : /\ txs[i].status = "accepted" /\ txs[i].op # Deploy
                                   /\ txs[i].classHash = ClassIn(c, op)
  PROVE  TrueOf(RecordedIn(c, op), txs)
<1>1. c.manifest \in DeploymentManifest
  BY DEF Known, CommandContext
<1>2. c.pc = "waiting" => /\ c.tx \in 1..Len(txs) /\ txs[c.tx].op = op
                          /\ txs[c.tx].classHash = ClassIn(c, op)
                          /\ txs[c.tx].accountClassHash = c.artifacts["StarknetEth712Account"]
  BY DEF Known, WaitOK, ClassIn
<1>3. op \in Actions
  BY NextLeft DEF Known
<1> DEFINE m == RecordedIn(c, op)
<1>4. CASE op = Deploy
  <2>1. /\ m.declaredClasses = c.manifest.declaredClasses
        /\ m.factory = [address |-> c.tx, classHash |-> ClassIn(c, Deploy),
                        accountClassHash |-> c.artifacts["StarknetEth712Account"]]
    BY <1>1, <1>4 DEF RecordedIn, DeploymentManifest
  <2>2. /\ m.factory.address = c.tx /\ m.factory.classHash = ClassIn(c, Deploy)
        /\ m.factory.accountClassHash = c.artifacts["StarknetEth712Account"]
    BY <2>1
  <2> HIDE DEF m
  <2> QED
    BY <2>1, <2>2, <1>2, <1>4 DEF TrueOf, m
<1>5. CASE op # Deploy
  <2>1. op \in ArtifactNames
    BY <1>3, <1>5 DEF Actions
  <2>2. /\ m.factory = c.manifest.factory
        /\ \A a \in ArtifactNames :
             m.declaredClasses[a] = IF a = op THEN ClassIn(c, op) ELSE c.manifest.declaredClasses[a]
    BY <2>1, <1>1, <1>5 DEF RecordedIn, DeploymentManifest
  <2>3. \E i \in 1..Len(txs) : /\ txs[i].status = "accepted" /\ txs[i].op # Deploy
                              /\ txs[i].classHash = ClassIn(c, op)
    BY <1>2, <1>5
  <2> HIDE DEF m
  <2> QED
    BY <2>2, <2>3 DEF TrueOf, m
<1> QED
  BY <1>4, <1>5

LEMMA BackedByTrue == IInv /\ BInv => Backed
<1> SUFFICES ASSUME IInv, BInv PROVE Backed
  OBVIOUS
<1>1. DOMAIN transactions = 1..Len(transactions)
  BY IInvParts, LenProperties
<1>2. ASSUME NEW m \in {file} \cup {process[p].manifest : p \in Processes}
      PROVE  TrueOf(m, transactions)
  BY DEF BInv
<1> QED
  BY <1>1, <1>2 DEF Backed, TrueOf, Declared, Factories, Accepted

LEMMA InitBInv == Init => BInv
<1> SUFFICES ASSUME Init PROVE BInv
  OBVIOUS
<1>1. Len(transactions) = 0
  BY DEF Init
<1>2. \A p \in Processes : process[p].manifest = createEmptyManifest
  BY OffContext DEF Init
<1> QED
  BY <1>1, <1>2, TrueOfEmpty DEF Init, BInv, OnlyDeploymentsRevert

\* A step of one process that leaves the chain alone or sends.
LEMMA OneProcessTrue ==
  ASSUME IInv, BInv, NEW p \in Processes, NEW c,
         process' = [process EXCEPT ![p] = c],
         Grows(transactions, transactions'),
         OnlyDeploymentsRevert(transactions'),
         TrueOf(c.manifest, transactions'), TrueOf(file', transactions')
  PROVE  BInv'
<1>1. \A q \in Processes : TrueOf(process[q].manifest, transactions')
  BY IInvParts, TrueGrows DEF BInv
<1>2. \A q \in Processes : process'[q] = IF q = p THEN c ELSE process[q]
  BY IInvParts
<1>3. \A q \in Processes : TrueOf(process'[q].manifest, transactions')
  BY <1>1, <1>2
<1> QED
  BY <1>3 DEF BInv

LEMMA OffTrue ==
  ASSUME IInv, BInv, NEW p \in Processes, process' = [process EXCEPT ![p] = Off],
         UNCHANGED transactions, TrueOf(file', transactions)
  PROVE  BInv'
<1>1. transactions \in Seq(Transaction) /\ Grows(transactions, transactions')
  BY IInvParts, NothingGrows
<1> QED
  BY <1>1, OneProcessTrue, OffContext, TrueOfEmpty DEF BInv

LEMMA SavesTrue ==
  ASSUME IInv, BInv, NEW p \in Processes, Running(p), process[p].next <= Len(process[p].plan),
         Saves(p, Recorded(p, NextAction(p))),
         \/ process[p].pc = "waiting" /\ transactions[process[p].tx].status = "accepted"
         \/ NextAction(p) # Deploy /\ IsDeclared(p, NextAction(p))
  PROVE  BInv'
<1> DEFINE c  == process[p]
           op == NextAction(p)
<1>1. /\ Known(c, transactions) /\ transactions \in Seq(Transaction)
      /\ DOMAIN transactions = 1..Len(transactions) /\ Len(transactions) \in Nat
  BY IInvParts, LenProperties
<1>2. op = Deploy => c.tx # 0 /\ Accepted(c.tx)
  BY <1>1 DEF Known, WaitOK, Accepted, Running, Underway
<1>3. process' = [process EXCEPT ![p] = AfterSave(c, op)] /\ file' = RecordedIn(c, op)
  BY <1>2, SavesIInv
<1>4. UNCHANGED transactions
  BY DEF Saves
<1>5. ClassOf(p, op) = ClassIn(c, op)
  BY DEF ClassOf, ClassIn
<1>6. IsDeclared(p, op) =>
        \E i \in 1..Len(transactions) : /\ transactions[i].status = "accepted"
                                       /\ transactions[i].op # Deploy
                                       /\ transactions[i].classHash = ClassIn(c, op)
  BY <1>1, <1>5 DEF IsDeclared, Declared, Accepted
<1>7. TrueOf(RecordedIn(c, op), transactions)
  BY <1>1, <1>6, RecordsTrue DEF BInv, NextAction
<1>8. AfterSave(c, op).manifest = RecordedIn(c, op)
  <2>1. RecordedIn(c, op) \in DeploymentManifest
    BY <1>1, <1>2, RecordingKeeps DEF Known, Running, NextAction
  <2> QED
    BY <2>1, <1>1, SavedContext DEF AfterSave, Known
<1> QED
  BY <1>1, <1>3, <1>4, <1>7, <1>8, OneProcessTrue, NothingGrows DEF BInv

LEMMA SendsTrue ==
  ASSUME IInv, BInv, NEW p \in Processes, Executing(p), Sends(p, NextAction(p))
  PROVE  BInv'
<1> DEFINE d == [process[p] EXCEPT !.pc = IF NextAction(p) = Deploy THEN "deploying" ELSE "waiting",
                                   !.tx = Len(transactions) + 1]
<1>1. /\ Known(process[p], transactions) /\ transactions \in Seq(Transaction)
      /\ Len(transactions) \in Nat
  BY IInvParts, LenProperties
<1>2. Grows(transactions, transactions')
  BY SendsIInv
<1>3. PICK t : t.status = "pending" /\ transactions' = Append(transactions, t)
  BY DEF Sends
<1>4. /\ Len(transactions') = Len(transactions) + 1
      /\ \A i \in 1..Len(transactions) : transactions'[i] = transactions[i]
      /\ transactions'[Len(transactions) + 1] = t
  BY <1>1, <1>3
<1>5. OnlyDeploymentsRevert(transactions')
  BY <1>1, <1>3, <1>4 DEF BInv, OnlyDeploymentsRevert
<1>6. process' = [process EXCEPT ![p] = d] /\ file' = file
  BY DEF Sends
<1>7. d.manifest = process[p].manifest
  BY <1>1 DEF Known, CommandContext
<1>8. TrueOf(process[p].manifest, transactions') /\ TrueOf(file', transactions')
  BY <1>1, <1>2, <1>6, TrueGrows DEF BInv
<1> QED
  BY <1>2, <1>5, <1>6, <1>7, <1>8, OneProcessTrue

\* The steps that neither send nor save.
LEMMA Moves ==
  ASSUME NEW p \in Processes, process[p] \in CommandContext,
         verifyPrimerClassHash(p) \/ loadStarknetArtifact(p) \/ deployContractReturns(p)
  PROVE  \E c : process' = [process EXCEPT ![p] = c] /\ c.manifest = process[p].manifest
<1>1. CASE verifyPrimerClassHash(p)
  <2>1. process' = [process EXCEPT ![p] = [process[p] EXCEPT !.pc = "checked"]]
    BY <1>1 DEF verifyPrimerClassHash
  <2>2. [process[p] EXCEPT !.pc = "checked"].manifest = process[p].manifest
    BY DEF CommandContext
  <2> QED
    BY <2>1, <2>2
<1>2. CASE loadStarknetArtifact(p)
  <2> DEFINE a == FACTORY_DECLARE_ORDER[process[p].next]
             c == [process[p] EXCEPT !.artifacts[a] = artifacts[a], !.next = @ + 1]
  <2>1. process' = [process EXCEPT ![p] = c]
    BY <1>2 DEF loadStarknetArtifact
  <2> HIDE DEF a
  <2>2. c.manifest = process[p].manifest
    BY DEF CommandContext
  <2> QED
    BY <2>1, <2>2
<1>3. CASE deployContractReturns(p)
  <2>1. process' = [process EXCEPT ![p] = [process[p] EXCEPT !.pc = "waiting"]]
    BY <1>3 DEF deployContractReturns
  <2>2. [process[p] EXCEPT !.pc = "waiting"].manifest = process[p].manifest
    BY DEF CommandContext
  <2> QED
    BY <2>1, <2>2
<1> QED
  BY <1>1, <1>2, <1>3

LEMMA NextBInv == IInv /\ BInv /\ [Next]_vars => BInv'
<1> SUFFICES ASSUME IInv, BInv, [Next]_vars PROVE BInv'
  OBVIOUS
<1>0. transactions \in Seq(Transaction) /\ Len(transactions) \in Nat
      /\ DOMAIN transactions = 1..Len(transactions)
      /\ Grows(transactions, transactions) /\ file \in DeploymentManifest
      /\ \A p \in Processes : process[p] \in CommandContext
  BY IInvParts, LenProperties, NothingGrows DEF Known
<1>1. ASSUME NEW a \in Changing, Rebuild(a) PROVE BInv'
  BY <1>1 DEF Rebuild, BInv
<1>2. ASSUME NEW p \in Processes, loadCommandContext(p) PROVE BInv'
  <2> DEFINE c == [process[p] EXCEPT !.pc = "loaded", !.manifest = file]
  <2>1. process' = [process EXCEPT ![p] = c] /\ UNCHANGED <<file, transactions>>
    BY <1>2 DEF loadCommandContext
  <2>2. c.manifest = file
    BY <1>0 DEF CommandContext
  <2> QED
    BY <2>1, <2>2, <1>0, OneProcessTrue DEF BInv
<1>3. ASSUME NEW p \in Processes, buildFactoryPlan(p) PROVE BInv'
  <2> DEFINE plan == PlannedActions(process[p].manifest, process[p].artifacts)
             c    == [process[p] EXCEPT !.pc = "executing", !.plan = plan, !.next = 1]
  <2>1. CASE plan = <<>>
    BY <2>1, <1>3, OffTrue DEF buildFactoryPlan, BInv
  <2>2. CASE plan # <<>>
    <3>1. process' = [process EXCEPT ![p] = c] /\ UNCHANGED <<file, transactions>>
      BY <2>2, <1>3 DEF buildFactoryPlan
    <3>2. c.manifest = process[p].manifest
      BY <1>0 DEF CommandContext
    <3> QED
      BY <3>1, <3>2, <1>0, OneProcessTrue DEF BInv
  <2> QED
    BY <2>1, <2>2
<1>4. ASSUME NEW p \in Processes, EndsUnchanged(p) \/ Fails(p) \/ Stops(p) PROVE BInv'
  BY <1>4, OffTrue DEF EndsUnchanged, Fails, Stops, BInv
<1>11. ASSUME NEW p \in Processes,
              verifyPrimerClassHash(p) \/ loadStarknetArtifact(p) \/ deployContractReturns(p)
       PROVE  BInv'
  <2>1. UNCHANGED <<file, transactions>>
    BY <1>11 DEF verifyPrimerClassHash, loadStarknetArtifact, deployContractReturns
  <2>2. PICK c : process' = [process EXCEPT ![p] = c] /\ c.manifest = process[p].manifest
    BY <1>0, <1>11, Moves
  <2> QED
    BY <2>1, <2>2, <1>0, OneProcessTrue DEF BInv
<1>5. ASSUME NEW p \in Processes, declareClassIfNeeded(p) PROVE BInv'
  <2>1. CASE IsDeclared(p, NextAction(p))
    BY <2>1, <1>5, SavesTrue DEF declareClassIfNeeded, Executing, Running, Underway
  <2>2. CASE ~IsDeclared(p, NextAction(p))
    BY <2>2, <1>5, SendsTrue DEF declareClassIfNeeded
  <2> QED
    BY <2>1, <2>2
<1>6. ASSUME NEW p \in Processes, deployFactoryIfNeeded(p) PROVE BInv'
  BY <1>6, SendsTrue DEF deployFactoryIfNeeded
<1>7. ASSUME NEW p \in Processes, waitForDeploymentTransaction(p) PROVE BInv'
  <2>1. Known(process[p], transactions) /\ process[p].pc = "waiting"
    BY <1>7, IInvParts DEF waitForDeploymentTransaction
  <2>2. /\ process[p].next <= Len(process[p].plan) /\ process[p].tx \in 1..Len(transactions)
        /\ NextAction(p) = Deploy => Accepted(process[p].tx)
    BY <2>1, WaitedFor
  <2>3. transactions[process[p].tx].op = NextAction(p)
    BY <2>1 DEF Known, WaitOK, NextAction
  <2>4. transactions[process[p].tx].status = "accepted"
    BY <2>2, <2>3, <1>7 DEF waitForDeploymentTransaction, WaitEnds, BInv, OnlyDeploymentsRevert, Accepted
  <2> QED
    BY <2>1, <2>2, <2>4, <1>7, SavesTrue DEF waitForDeploymentTransaction, Running, Underway
<1>8. ASSUME NEW p \in Processes, PlanApplied(p) PROVE BInv'
  <2> DEFINE m == [process[p].manifest EXCEPT !.lastPlan = process[p].plan]
  <2>1. /\ m.factory = process[p].manifest.factory
        /\ m.declaredClasses = process[p].manifest.declaredClasses
    BY <1>0 DEF CommandContext, DeploymentManifest
  <2>2. TrueOf(m, transactions)
    BY <2>1 DEF BInv, TrueOf
  <2> QED
    BY <2>2, <1>8, OffTrue DEF PlanApplied
<1>9. ASSUME NEW i \in DOMAIN transactions, TransactionIncluded(i) PROVE BInv'
  <2>1. /\ Grows(transactions, transactions') /\ Len(transactions') = Len(transactions)
        /\ \A k \in 1..Len(transactions) : k # i => transactions'[k] = transactions[k]
        /\ transactions'[i].status = "reverted" => transactions'[i].op = Deploy
    BY <1>9, IncludedGrows
  <2>2. UNCHANGED <<file, process>>
    BY <1>9 DEF TransactionIncluded
  <2>3. OnlyDeploymentsRevert(transactions')
    BY <2>1 DEF BInv, OnlyDeploymentsRevert
  <2> QED
    BY <2>1, <2>2, <2>3, <1>0, TrueGrows DEF BInv
<1>10. CASE UNCHANGED vars
  BY <1>10 DEF vars, BInv
<1> QED
  BY <1>1, <1>2, <1>3, <1>4, <1>5, <1>6, <1>7, <1>8, <1>9, <1>10, <1>11 DEF Next, Executes

\* Everything a manifest records, on disk or in a process's memory, is on the chain, for
\* any number of processes, stops, rebuilds and reverted deployments.
THEOREM RecordsBacked == Spec => []Backed
<1>1. Init => IInv /\ BInv
  BY InitIInv, InitBInv
<1>2. (IInv /\ BInv) /\ [Next]_vars => (IInv /\ BInv)'
  BY NextIInv, NextBInv
<1>3. IInv /\ BInv => Backed
  BY BackedByTrue
<1> QED
  BY <1>1, <1>2, <1>3, PTL DEF Spec

-----------------------------------------------------------------------------
\* Which Primer is on record.

PrimerOf(m) == m.declaredClasses["Primer"]

\* As long as no rebuild came between a check and a read, what was checked is what was
\* read, and what was read is what is recorded.
PInv ==
  ~overtaken =>
    /\ \A p \in Processes : BetweenCheckAndRead(p) => PrimerAsExpected
    /\ \A p \in Processes : process[p].artifacts["Primer"] = EXPECTED_CLASS_HASH
    /\ \A p \in Processes : PrimerOf(process[p].manifest) \in {None, EXPECTED_CLASS_HASH}
    /\ PrimerOf(file) \in {None, EXPECTED_CLASS_HASH}

\* What is known of one process.
PrimerKnown(c) ==
  /\ c.pc = "checked" /\ c.next = 1 => PrimerAsExpected
  /\ c.artifacts["Primer"] = EXPECTED_CLASS_HASH
  /\ PrimerOf(c.manifest) \in {None, EXPECTED_CLASS_HASH}

LEMMA OneProcessPrimer ==
  ASSUME IInv, PInv, NEW p \in Processes, NEW c, process' = [process EXCEPT ![p] = c],
         UNCHANGED builder,
         ~overtaken => PrimerKnown(c) /\ PrimerOf(file') \in {None, EXPECTED_CLASS_HASH}
  PROVE  PInv'
<1>1. \A q \in Processes : process'[q] = IF q = p THEN c ELSE process[q]
  BY IInvParts
<1>2. overtaken' = overtaken /\ artifacts' = artifacts
  BY DEF builder
<1>3. PrimerAsExpected' = PrimerAsExpected
  BY <1>2 DEF PrimerAsExpected
<1> QED
  BY <1>1, <1>2, <1>3 DEF PInv, PrimerKnown, BetweenCheckAndRead

LEMMA OffPrimer == PrimerKnown(Off)
BY OffContext, Names DEF PrimerKnown, PrimerOf, Off, FirstBuild, EXPECTED_CLASS_HASH, createEmptyManifest

LEMMA SavesPrimer ==
  ASSUME IInv, PInv, NEW p \in Processes, Running(p), process[p].next <= Len(process[p].plan),
         NextAction(p) = Deploy => process[p].tx # 0 /\ Accepted(process[p].tx),
         Saves(p, Recorded(p, NextAction(p)))
  PROVE  PInv'
<1> DEFINE c  == process[p]
           op == NextAction(p)
           m  == RecordedIn(c, op)
<1>1. Known(c, transactions)
  BY IInvParts
<1>2. process' = [process EXCEPT ![p] = AfterSave(c, op)] /\ file' = m
  BY SavesIInv
<1>3. UNCHANGED builder
  BY DEF Saves
<1>4. /\ m \in DeploymentManifest /\ c.manifest \in DeploymentManifest
      /\ NextAction(p) = c.plan[c.next]
  BY <1>1, RecordingKeeps DEF Known, Running, NextAction, CommandContext
<1>5. /\ AfterSave(c, op).pc = "executing" /\ AfterSave(c, op).manifest = m
      /\ AfterSave(c, op).artifacts = c.artifacts
  BY <1>1, <1>4, SavedContext DEF AfterSave, Known
<1>6. PrimerOf(m) \in {PrimerOf(c.manifest), c.artifacts["Primer"]}
  BY <1>4, Names DEF RecordedIn, PrimerOf, ClassIn, DeploymentManifest
<1>7. ~overtaken => /\ PrimerOf(c.manifest) \in {None, EXPECTED_CLASS_HASH}
                    /\ c.artifacts["Primer"] = EXPECTED_CLASS_HASH
  BY DEF PInv
<1> HIDE DEF c, op, m
<1>8. ~overtaken => PrimerKnown(AfterSave(c, op)) /\ PrimerOf(file') \in {None, EXPECTED_CLASS_HASH}
  BY <1>2, <1>5, <1>6, <1>7 DEF PrimerKnown
<1> QED
  BY <1>2, <1>3, <1>8, OneProcessPrimer

LEMMA SendsPrimer ==
  ASSUME IInv, PInv, NEW p \in Processes, Executing(p), Sends(p, NextAction(p))
  PROVE  PInv'
<1> DEFINE c  == process[p]
           pc == IF NextAction(p) = Deploy THEN "deploying" ELSE "waiting"
           n  == Len(transactions) + 1
<1>1. c \in CommandContext /\ n \in Nat
  BY IInvParts, LenProperties DEF Known
<1>2. pc \in Phases /\ pc # "checked"
  BY DEF Phases
<1>3. process' = [process EXCEPT ![p] = WaitingIn(c, pc, n)] /\ UNCHANGED <<builder, file>>
  BY DEF Sends, WaitingIn
<1>4. ~overtaken => /\ PrimerOf(c.manifest) \in {None, EXPECTED_CLASS_HASH}
                    /\ c.artifacts["Primer"] = EXPECTED_CLASS_HASH
                    /\ PrimerOf(file) \in {None, EXPECTED_CLASS_HASH}
  BY DEF PInv
<1> HIDE DEF c, pc, n
<1>5. LET d == WaitingIn(c, pc, n)
      IN d.pc = pc /\ d.artifacts = c.artifacts /\ d.manifest = c.manifest
  BY <1>1, <1>2, WaitingContext
<1>6. ~overtaken => PrimerKnown(WaitingIn(c, pc, n))
  BY <1>2, <1>4, <1>5 DEF PrimerKnown
<1> QED
  BY <1>3, <1>4, <1>6, OneProcessPrimer

LEMMA InitPInv == Init => PInv
<1> SUFFICES ASSUME Init PROVE PInv
  OBVIOUS
<1>1. \A p \in Processes : process[p] = Off
  BY DEF Init
<1>2. PrimerAsExpected /\ PrimerOf(file) = None
  BY Names DEF Init, PrimerAsExpected, FirstBuild, EXPECTED_CLASS_HASH, PrimerOf, createEmptyManifest
<1> QED
  BY <1>1, <1>2, OffPrimer DEF PInv, PrimerKnown

LEMMA NextPInv == IInv /\ PInv /\ [Next]_vars => PInv'
<1> SUFFICES ASSUME IInv, PInv, [Next]_vars PROVE PInv'
  OBVIOUS
<1>0. \A p \in Processes : process[p] \in CommandContext /\ process[p].manifest \in DeploymentManifest
  BY IInvParts DEF Known, CommandContext
<1>1. ASSUME NEW a \in Changing, Rebuild(a) PROVE PInv'
  <2> SUFFICES ASSUME ~overtaken' PROVE PInv'
    BY DEF PInv
  <2>1. UNCHANGED <<file, process>> /\ ~overtaken
    BY <1>1 DEF Rebuild
  <2>2. CASE a = "Primer"
    <3>1. \A p \in Processes : ~BetweenCheckAndRead(p)'
      BY <2>1, <2>2, <1>1 DEF Rebuild, BetweenCheckAndRead
    <3> QED
      BY <2>1, <3>1 DEF PInv
  <2>3. CASE a # "Primer"
    <3>1. artifacts'["Primer"] = artifacts["Primer"]
      BY <2>3, <1>1, IInvParts, Names DEF Rebuild, Builds
    <3> QED
      BY <2>1, <3>1 DEF PInv, PrimerAsExpected, BetweenCheckAndRead
  <2> QED
    BY <2>2, <2>3
<1>2. ASSUME NEW p \in Processes, loadCommandContext(p) PROVE PInv'
  <2> DEFINE c == [process[p] EXCEPT !.pc = "loaded", !.manifest = file]
  <2>1. process' = [process EXCEPT ![p] = c] /\ UNCHANGED <<builder, file>>
    BY <1>2 DEF loadCommandContext
  <2>2. c.manifest = file /\ c.pc = "loaded" /\ c.artifacts = process[p].artifacts
    BY <1>0 DEF CommandContext
  <2> HIDE DEF c
  <2>3. ~overtaken => PrimerKnown(c) /\ PrimerOf(file') \in {None, EXPECTED_CLASS_HASH}
    BY <2>1, <2>2 DEF PInv, PrimerKnown
  <2> QED
    BY <2>1, <2>3, OneProcessPrimer
<1>3. ASSUME NEW p \in Processes, verifyPrimerClassHash(p) PROVE PInv'
  <2> DEFINE c == [process[p] EXCEPT !.pc = "checked"]
  <2>1. process' = [process EXCEPT ![p] = c] /\ UNCHANGED <<builder, file>> /\ PrimerAsExpected
    BY <1>3 DEF verifyPrimerClassHash
  <2>2. c.manifest = process[p].manifest /\ c.artifacts = process[p].artifacts
    BY <1>0 DEF CommandContext
  <2> HIDE DEF c
  <2>3. ~overtaken => PrimerKnown(c) /\ PrimerOf(file') \in {None, EXPECTED_CLASS_HASH}
    BY <2>1, <2>2 DEF PInv, PrimerKnown
  <2> QED
    BY <2>1, <2>3, OneProcessPrimer
<1>4. ASSUME NEW p \in Processes, loadStarknetArtifact(p) PROVE PInv'
  <2> DEFINE a == FACTORY_DECLARE_ORDER[process[p].next]
             c == [process[p] EXCEPT !.artifacts[a] = artifacts[a], !.next = @ + 1]
  <2>1. process' = [process EXCEPT ![p] = c] /\ UNCHANGED <<builder, file>>
    BY <1>4 DEF loadStarknetArtifact
  <2>2. process[p].pc = "checked" /\ process[p].next \in 1..3
    BY <1>4 DEF loadStarknetArtifact
  <2>3. a \in ArtifactNames
    BY <2>2, ReadName
  <2>4. a = "Primer" => process[p].next = 1
    BY <2>2 DEF FACTORY_DECLARE_ORDER
  <2> HIDE DEF a
  <2>5. /\ c.manifest = process[p].manifest
        /\ c.next = process[p].next + 1
        /\ c.artifacts = [process[p].artifacts EXCEPT ![a] = artifacts[a]]
    BY <1>0 DEF CommandContext
  <2>6. c.artifacts["Primer"] = IF a = "Primer" THEN artifacts["Primer"] ELSE process[p].artifacts["Primer"]
    BY <2>5, <1>0, Names DEF CommandContext, Builds
  <2>7. c.next # 1
    BY <2>2, <2>5
  <2> HIDE DEF c
  <2>8. ASSUME ~overtaken
        PROVE  PrimerKnown(c) /\ PrimerOf(file') \in {None, EXPECTED_CLASS_HASH}
    <3>1. a = "Primer" => artifacts["Primer"] = EXPECTED_CLASS_HASH
      BY <2>2, <2>4, <2>8 DEF PInv, BetweenCheckAndRead, PrimerAsExpected
    <3> QED
      BY <2>1, <2>5, <2>6, <2>7, <2>8, <3>1 DEF PInv, PrimerKnown
  <2> QED
    BY <2>1, <2>8, OneProcessPrimer
<1>5. ASSUME NEW p \in Processes, buildFactoryPlan(p) PROVE PInv'
  <2> DEFINE plan == PlannedActions(process[p].manifest, process[p].artifacts)
             c    == [process[p] EXCEPT !.pc = "executing", !.plan = plan, !.next = 1]
  <2>1. UNCHANGED <<builder, file>>
    BY <1>5 DEF buildFactoryPlan
  <2>2. CASE plan = <<>>
    <3>1. process' = [process EXCEPT ![p] = Off]
      BY <2>2, <1>5 DEF buildFactoryPlan
    <3> QED
      BY <2>1, <3>1, OffPrimer, OneProcessPrimer DEF PInv
  <2>3. CASE plan # <<>>
    <3>1. process' = [process EXCEPT ![p] = c]
      BY <2>3, <1>5 DEF buildFactoryPlan
    <3>2. /\ c.pc = "executing" /\ c.manifest = process[p].manifest
          /\ c.artifacts = process[p].artifacts
      BY <1>0 DEF CommandContext
    <3> HIDE DEF c
    <3>3. ~overtaken => PrimerKnown(c) /\ PrimerOf(file') \in {None, EXPECTED_CLASS_HASH}
      BY <2>1, <3>2 DEF PInv, PrimerKnown
    <3> QED
      BY <2>1, <3>1, <3>3, OneProcessPrimer
  <2> QED
    BY <2>2, <2>3
<1>6. ASSUME NEW p \in Processes, EndsUnchanged(p) \/ Fails(p) \/ Stops(p) PROVE PInv'
  <2>1. process' = [process EXCEPT ![p] = Off] /\ UNCHANGED <<builder, file>>
    BY <1>6 DEF EndsUnchanged, Fails, Stops
  <2> QED
    BY <2>1, OffPrimer, OneProcessPrimer DEF PInv
<1>7. ASSUME NEW p \in Processes, declareClassIfNeeded(p) PROVE PInv'
  <2>1. CASE IsDeclared(p, NextAction(p))
    BY <2>1, <1>7, SavesPrimer DEF declareClassIfNeeded, Executing, Running, Underway
  <2>2. CASE ~IsDeclared(p, NextAction(p))
    BY <2>2, <1>7, SendsPrimer DEF declareClassIfNeeded
  <2> QED
    BY <2>1, <2>2
<1>8. ASSUME NEW p \in Processes, deployFactoryIfNeeded(p) PROVE PInv'
  BY <1>8, SendsPrimer DEF deployFactoryIfNeeded
<1>9. ASSUME NEW p \in Processes, deployContractReturns(p) PROVE PInv'
  <2> DEFINE c == [process[p] EXCEPT !.pc = "waiting"]
  <2>1. process' = [process EXCEPT ![p] = c] /\ UNCHANGED <<builder, file>>
    BY <1>9 DEF deployContractReturns
  <2>2. c.pc = "waiting" /\ c.manifest = process[p].manifest /\ c.artifacts = process[p].artifacts
    BY <1>0 DEF CommandContext
  <2> HIDE DEF c
  <2>3. ~overtaken => PrimerKnown(c) /\ PrimerOf(file') \in {None, EXPECTED_CLASS_HASH}
    BY <2>1, <2>2 DEF PInv, PrimerKnown
  <2> QED
    BY <2>1, <2>3, OneProcessPrimer
<1>10. ASSUME NEW p \in Processes, waitForDeploymentTransaction(p) PROVE PInv'
  BY <1>10, WaitedFor, SavesPrimer DEF waitForDeploymentTransaction, Running, Underway
<1>11. ASSUME NEW p \in Processes, PlanApplied(p) PROVE PInv'
  <2>1. /\ process' = [process EXCEPT ![p] = Off] /\ UNCHANGED builder
        /\ file' = [process[p].manifest EXCEPT !.lastPlan = process[p].plan]
    BY <1>11 DEF PlanApplied
  <2>2. PrimerOf(file') = PrimerOf(process[p].manifest)
    BY <2>1, <1>0 DEF PrimerOf, DeploymentManifest
  <2>3. ~overtaken => PrimerOf(file') \in {None, EXPECTED_CLASS_HASH}
    BY <2>2 DEF PInv
  <2> QED
    BY <2>1, <2>3, OffPrimer, OneProcessPrimer
<1>12. ASSUME NEW i \in DOMAIN transactions, TransactionIncluded(i) PROVE PInv'
  BY <1>12 DEF TransactionIncluded, builder, PInv, BetweenCheckAndRead, PrimerAsExpected
<1>13. CASE UNCHANGED vars
  BY <1>13 DEF vars, PInv, BetweenCheckAndRead, PrimerAsExpected
<1> QED
  BY <1>1, <1>2, <1>3, <1>4, <1>5, <1>6, <1>7, <1>8, <1>9, <1>10, <1>11, <1>12, <1>13
     DEF Next, Executes

LEMMA CoherentByTrue == IInv /\ BInv /\ PInv => Coherent
<1> SUFFICES ASSUME IInv, BInv, PInv, file.factory # None PROVE Coherent
  BY DEF Coherent
<1>1. OneBuild(file) /\ file \in DeploymentManifest
  BY IInvParts
<1>2. \A a \in ArtifactNames : file.declaredClasses[a] # None => file.declaredClasses[a] \in Declared
  BY BackedByTrue DEF Backed
<1>3. file.factory.accountClassHash # None
  BY <1>1, DeployAssumption DEF DeploymentManifest, FactoryDeploymentRecord
<1>4. ~overtaken => file.declaredClasses["Primer"] = EXPECTED_CLASS_HASH
  BY <1>1 DEF PInv, PrimerOf, OneBuild
<1> QED
  BY <1>1, <1>2, <1>3, <1>4, Names DEF Coherent, OneBuild

\* The factory on record is of one build with the classes on record, all of which the
\* chain has, and its Primer is the expected one unless a rebuild overtook a run: for any
\* number of processes, stops, rebuilds and reverted deployments.
THEOREM RecordsCoherent == Spec => []Coherent
<1>1. Init => IInv /\ BInv /\ PInv
  BY InitIInv, InitBInv, InitPInv
<1>2. (IInv /\ BInv /\ PInv) /\ [Next]_vars => (IInv /\ BInv /\ PInv)'
  BY NextIInv, NextBInv, NextPInv
<1>3. IInv /\ BInv /\ PInv => Coherent
  BY CoherentByTrue
<1> QED
  BY <1>1, <1>2, <1>3, PTL DEF Spec

-----------------------------------------------------------------------------
\* One process at a time: nobody saves between its load and its saves.

OneAtATime == \A p, q \in Processes : p = q

\* What the process has in memory is what is on disk.
HInv == \A p \in Processes : process[p].pc # "off" => process[p].manifest = file

Keeps(m, new) ==
  /\ \A a \in ArtifactNames :
       m.declaredClasses[a] # None => new.declaredClasses[a] = m.declaredClasses[a]
  /\ m.factory # None => new.factory = m.factory

LEMMA SameKeeps ==
  ASSUME NEW m, NEW new, new.declaredClasses = m.declaredClasses, new.factory = m.factory
  PROVE  Keeps(m, new)
BY DEF Keeps

\* What an action records replaces nothing else.
LEMMA RecordingKeepsHistory ==
  ASSUME NEW c \in CommandContext, PlanOK(c), c.pc \in Underway,
         c.next <= Len(c.plan), NEW op, op = c.plan[c.next]
  PROVE  Keeps(c.manifest, RecordedIn(c, op))
<1> DEFINE m == RecordedIn(c, op)
<1>1. c.manifest \in DeploymentManifest
  BY DEF CommandContext
<1>2. op \in Actions /\ op \in Left(c)
  BY NextLeft
<1>3. CASE op = Deploy
  <2>1. c.manifest.factory = None
    BY <1>2, <1>3 DEF PlanOK
  <2>2. m.declaredClasses = c.manifest.declaredClasses
    BY <1>1, <1>3 DEF RecordedIn, DeploymentManifest
  <2> HIDE DEF m
  <2> QED
    BY <2>1, <2>2 DEF Keeps, m
<1>4. CASE op # Deploy
  <2>1. op \in ArtifactNames /\ ClassIn(c, op) = c.artifacts[op]
    BY <1>2, <1>4 DEF Actions, ClassIn
  <2>2. /\ m.factory = c.manifest.factory
        /\ \A a \in ArtifactNames :
             m.declaredClasses[a] = IF a = op THEN c.artifacts[op] ELSE c.manifest.declaredClasses[a]
    BY <2>1, <1>1, <1>4 DEF RecordedIn, DeploymentManifest
  <2>3. c.manifest.declaredClasses[op] \in {None, c.artifacts[op]}
    BY <2>1 DEF PlanOK
  <2> HIDE DEF m
  <2> QED
    BY <2>2, <2>3 DEF Keeps, m
<1> QED
  BY <1>3, <1>4

\* The process that is alone changes.
LEMMA AloneHInv ==
  ASSUME IInv, OneAtATime, NEW p \in Processes, NEW c, process' = [process EXCEPT ![p] = c],
         c.pc # "off" => c.manifest = file'
  PROVE  HInv'
BY IInvParts DEF HInv, OneAtATime

LEMMA OffHInv ==
  ASSUME IInv, OneAtATime, NEW p \in Processes, process' = [process EXCEPT ![p] = Off]
  PROVE  HInv'
BY AloneHInv, OffContext

LEMMA SavesHistory ==
  ASSUME IInv, HInv, OneAtATime, NEW p \in Processes, Running(p),
         process[p].next <= Len(process[p].plan),
         NextAction(p) = Deploy => process[p].tx # 0 /\ Accepted(process[p].tx),
         Saves(p, Recorded(p, NextAction(p)))
  PROVE  HInv' /\ Keeps(file, file')
<1> DEFINE c  == process[p]
           op == NextAction(p)
<1>1. Known(c, transactions) /\ c.pc \in Underway /\ c.manifest = file
  BY IInvParts DEF HInv, Running, Underway
<1>2. process' = [process EXCEPT ![p] = AfterSave(c, op)] /\ file' = RecordedIn(c, op)
  BY SavesIInv
<1>3. RecordedIn(c, op) \in DeploymentManifest
  BY <1>1, RecordingKeeps DEF Known, NextAction
<1>4. AfterSave(c, op).manifest = RecordedIn(c, op)
  BY <1>1, <1>3, SavedContext DEF AfterSave, Known
<1>5. Keeps(c.manifest, RecordedIn(c, op))
  BY <1>1, RecordingKeepsHistory DEF Known, NextAction
<1> QED
  BY <1>1, <1>2, <1>4, <1>5, AloneHInv

LEMMA SendsHistory ==
  ASSUME IInv, HInv, OneAtATime, NEW p \in Processes, Executing(p), Sends(p, NextAction(p))
  PROVE  HInv' /\ Keeps(file, file')
<1> DEFINE d == [process[p] EXCEPT !.pc = IF NextAction(p) = Deploy THEN "deploying" ELSE "waiting",
                                   !.tx = Len(transactions) + 1]
<1>1. process[p] \in CommandContext /\ process[p].manifest = file
  BY IInvParts DEF HInv, Known, Executing
<1>2. d.manifest = process[p].manifest
  BY <1>1 DEF CommandContext
<1>3. process' = [process EXCEPT ![p] = d] /\ file' = file
  BY DEF Sends
<1> QED
  BY <1>1, <1>2, <1>3, AloneHInv, SameKeeps

LEMMA NextHistory == OneAtATime /\ IInv /\ HInv /\ [Next]_vars => HInv' /\ Keeps(file, file')
<1> SUFFICES ASSUME OneAtATime, IInv, HInv, [Next]_vars PROVE HInv' /\ Keeps(file, file')
  OBVIOUS
<1>0. \A p \in Processes : process[p] \in CommandContext /\ process[p].manifest \in DeploymentManifest
  BY IInvParts DEF Known, CommandContext
<1>1. ASSUME NEW a \in Changing, Rebuild(a) PROVE HInv' /\ Keeps(file, file')
  BY <1>1, SameKeeps DEF Rebuild, HInv
<1>2. ASSUME NEW p \in Processes, loadCommandContext(p) PROVE HInv' /\ Keeps(file, file')
  <2> DEFINE c == [process[p] EXCEPT !.pc = "loaded", !.manifest = file]
  <2>1. process' = [process EXCEPT ![p] = c] /\ file' = file
    BY <1>2 DEF loadCommandContext
  <2>2. c.manifest = file
    BY <1>0 DEF CommandContext
  <2> QED
    BY <2>1, <2>2, AloneHInv, SameKeeps
<1>3. ASSUME NEW p \in Processes, buildFactoryPlan(p) PROVE HInv' /\ Keeps(file, file')
  <2> DEFINE plan == PlannedActions(process[p].manifest, process[p].artifacts)
             c    == [process[p] EXCEPT !.pc = "executing", !.plan = plan, !.next = 1]
  <2>1. file' = file /\ process[p].manifest = file
    BY <1>3 DEF buildFactoryPlan, HInv
  <2>2. CASE plan = <<>>
    BY <2>1, <2>2, <1>3, OffHInv, SameKeeps DEF buildFactoryPlan
  <2>3. CASE plan # <<>>
    <3>1. process' = [process EXCEPT ![p] = c]
      BY <2>3, <1>3 DEF buildFactoryPlan
    <3>2. c.manifest = process[p].manifest
      BY <1>0 DEF CommandContext
    <3> QED
      BY <2>1, <3>1, <3>2, AloneHInv, SameKeeps
  <2> QED
    BY <2>2, <2>3
<1>4. ASSUME NEW p \in Processes, EndsUnchanged(p) \/ Fails(p) \/ Stops(p)
      PROVE  HInv' /\ Keeps(file, file')
  BY <1>4, OffHInv, SameKeeps DEF EndsUnchanged, Fails, Stops
<1>5. ASSUME NEW p \in Processes, declareClassIfNeeded(p) PROVE HInv' /\ Keeps(file, file')
  <2>1. CASE IsDeclared(p, NextAction(p))
    BY <2>1, <1>5, SavesHistory DEF declareClassIfNeeded, Executing, Running, Underway
  <2>2. CASE ~IsDeclared(p, NextAction(p))
    BY <2>2, <1>5, SendsHistory DEF declareClassIfNeeded
  <2> QED
    BY <2>1, <2>2
<1>6. ASSUME NEW p \in Processes, deployFactoryIfNeeded(p) PROVE HInv' /\ Keeps(file, file')
  BY <1>6, SendsHistory DEF deployFactoryIfNeeded
<1>7. ASSUME NEW p \in Processes, waitForDeploymentTransaction(p)
      PROVE  HInv' /\ Keeps(file, file')
  BY <1>7, WaitedFor, SavesHistory DEF waitForDeploymentTransaction, Running, Underway
<1>11. ASSUME NEW p \in Processes,
              verifyPrimerClassHash(p) \/ loadStarknetArtifact(p) \/ deployContractReturns(p)
       PROVE  HInv' /\ Keeps(file, file')
  <2>1. file' = file /\ process[p].pc # "off"
    BY <1>11 DEF verifyPrimerClassHash, loadStarknetArtifact, deployContractReturns
  <2>2. PICK c : process' = [process EXCEPT ![p] = c] /\ c.manifest = process[p].manifest
    BY <1>0, <1>11, Moves
  <2> QED
    BY <2>1, <2>2, AloneHInv, SameKeeps DEF HInv
<1>8. ASSUME NEW p \in Processes, PlanApplied(p) PROVE HInv' /\ Keeps(file, file')
  <2>1. process[p].manifest = file
    BY <1>8 DEF PlanApplied, HInv
  <2>2. file'.declaredClasses = file.declaredClasses /\ file'.factory = file.factory
    BY <2>1, <1>0, <1>8 DEF PlanApplied, DeploymentManifest
  <2> QED
    BY <2>2, <1>8, OffHInv, SameKeeps DEF PlanApplied
<1>9. ASSUME NEW i \in DOMAIN transactions, TransactionIncluded(i)
      PROVE  HInv' /\ Keeps(file, file')
  BY <1>9, SameKeeps DEF TransactionIncluded, HInv
<1>10. CASE UNCHANGED vars
  BY <1>10, SameKeeps DEF vars, HInv
<1> QED
  BY <1>1, <1>2, <1>3, <1>4, <1>5, <1>6, <1>7, <1>8, <1>9, <1>10, <1>11 DEF Next, Executes

\* Deployment history is not overwritten when one process at a time runs the command,
\* whatever is rebuilt, stopped, rejected or reverted.
THEOREM RecordsKept == OneAtATime => (Spec => HistoryKept)
<1> SUFFICES ASSUME OneAtATime PROVE Spec => HistoryKept
  OBVIOUS
<1>1. Init => IInv /\ HInv
  <2>1. Init => HInv
    BY OffContext DEF Init, HInv
  <2> QED
    BY <2>1, InitIInv
<1>2. (IInv /\ HInv) /\ [Next]_vars => (IInv /\ HInv)'
  BY NextIInv, NextHistory
<1>3. (IInv /\ HInv) /\ [Next]_vars =>
        [/\ \A a \in ArtifactNames :
              file.declaredClasses[a] # None => file'.declaredClasses[a] = file.declaredClasses[a]
         /\ file.factory # None => file'.factory = file.factory]_file
  BY NextHistory DEF Keeps
<1> QED
  BY <1>1, <1>2, <1>3, PTL DEF Spec, HistoryKept
-----------------------------------------------------------------------------
\* How many factories there can be.

\* The deployments that are in, or may get in.
Deployments == {i \in 1..Len(transactions) :
                  transactions[i].op = Deploy /\ transactions[i].status # "reverted"}

Awaits(p) == process[p].pc \in {"deploying", "waiting"} /\ NextAction(p) = Deploy

\* The process waits for such a deployment, which it is going to record.
Deploying == \E p \in Processes : Awaits(p) /\ process[p].tx \in Deployments

\* Of all deployments sent and not reverted, only one is recorded or about to be: each
\* other was sent by a run that was stopped before it recorded it.
FInv ==
  /\ \A i \in Deployments : transactions[i].status # "rejected"
  /\ Cardinality(Deployments) <= stops + 1
  /\ file.factory = None /\ ~Deploying => Cardinality(Deployments) <= stops

LEMMA DeploymentsFinite ==
  ASSUME IInv
  PROVE  /\ IsFiniteSet(Deployments) /\ Cardinality(Deployments) \in Nat
         /\ IsFiniteSet(Factories) /\ Cardinality(Factories) <= Cardinality(Deployments)
         /\ Cardinality(Factories) \in Nat
<1>1. transactions \in Seq(Transaction) /\ Len(transactions) \in Nat
      /\ DOMAIN transactions = 1..Len(transactions)
  BY IInvParts, LenProperties
<1>2. IsFiniteSet(1..Len(transactions))
  BY <1>1, FS_Interval
<1>3. Deployments \subseteq 1..Len(transactions)
  BY DEF Deployments
<1>4. IsFiniteSet(Deployments) /\ Cardinality(Deployments) \in Nat
  BY <1>2, <1>3, FS_Subset, FS_CardinalityType
<1>5. Factories \subseteq Deployments
  BY <1>1 DEF Factories, Deployments, Accepted
<1> QED
  BY <1>4, <1>5, FS_Subset, FS_CardinalityType

\* Nothing is deployed, and what was recorded or waited for still is, or is recorded.
LEMMA SameDeployments ==
  ASSUME IInv, FInv, Deployments' = Deployments, stops' = stops,
         \A i \in Deployments : transactions'[i].status # "rejected",
         file.factory # None \/ Deploying => file'.factory # None \/ Deploying'
  PROVE  FInv'
BY DEF FInv

\* The process that is alone was not waiting for a deployment.
LEMMA NotDeploying ==
  ASSUME OneAtATime, NEW p \in Processes, ~Awaits(p)
  PROVE  ~Deploying
BY DEF OneAtATime, Deploying

LEMMA DeclareKeepsFew ==
  ASSUME OneAtATime, IInv, HInv, FInv, NEW p \in Processes, declareClassIfNeeded(p)
  PROVE  FInv'
<1> DEFINE op == NextAction(p)
<1>0. process[p].pc = "executing" /\ op # Deploy
  BY DEF declareClassIfNeeded, Executing
<1>1. ~Deploying
  BY <1>0, NotDeploying DEF Awaits
<1>2. Keeps(file, file')
  BY NextHistory DEF Next, Executes
<1>3. file.factory # None => file'.factory # None
  BY <1>2 DEF Keeps
<1>4. stops' = stops
  BY DEF declareClassIfNeeded, Saves, Sends
<1>5. CASE IsDeclared(p, op)
  <2>1. transactions' = transactions
    BY <1>5 DEF declareClassIfNeeded, Saves
  <2>2. Deployments' = Deployments
    BY <2>1 DEF Deployments
  <2> QED
    BY <2>1, <2>2, <1>1, <1>3, <1>4, SameDeployments DEF FInv
<1>6. CASE ~IsDeclared(p, op)
  <2>1. PICK t : t.op = op /\ transactions' = Append(transactions, t)
    BY <1>6 DEF declareClassIfNeeded, Sends
  <2>2. transactions \in Seq(Transaction) /\ Len(transactions) \in Nat
    BY IInvParts, LenProperties
  <2>3. /\ Len(transactions') = Len(transactions) + 1
        /\ \A i \in 1..Len(transactions) : transactions'[i] = transactions[i]
        /\ transactions'[Len(transactions) + 1] = t
    BY <2>1, <2>2
  <2>4. \A i : i \in 1..Len(transactions') <=> i \in 1..Len(transactions) \/ i = Len(transactions) + 1
    BY <2>2, <2>3
  <2>5. Deployments' = Deployments
    BY <2>1, <2>3, <2>4, <1>0 DEF Deployments
  <2>6. \A i \in Deployments : transactions'[i].status # "rejected"
    BY <2>3 DEF FInv, Deployments
  <2> QED
    BY <2>5, <2>6, <1>1, <1>3, <1>4, SameDeployments
<1> QED
  BY <1>5, <1>6

LEMMA DeployKeepsFew ==
  ASSUME OneAtATime, IInv, HInv, FInv, NEW p \in Processes, deployFactoryIfNeeded(p)
  PROVE  FInv'
<1> DEFINE n == Len(transactions) + 1
           d == WaitingIn(process[p], "deploying", n)
<1>0. process[p].pc = "executing" /\ NextAction(p) = Deploy /\ process[p].manifest.factory = None
  BY DEF deployFactoryIfNeeded, Executing, FactoryMissing
<1>1. ~Deploying
  BY <1>0, NotDeploying DEF Awaits
<1>2. file.factory = None
  BY <1>0 DEF HInv
<1>3. Cardinality(Deployments) <= stops
  BY <1>1, <1>2 DEF FInv
<1>4. PICK t : /\ t.op = Deploy /\ t.status = "pending"
              /\ transactions' = Append(transactions, t)
              /\ process' = [process EXCEPT ![p] = d] /\ stops' = stops
  BY <1>0 DEF deployFactoryIfNeeded, Sends, WaitingIn
<1>5. transactions \in Seq(Transaction) /\ Len(transactions) \in Nat /\ stops \in Nat
      /\ process[p] \in CommandContext /\ process \in [Processes -> CommandContext]
  BY IInvParts, LenProperties DEF IInv, TypeOK
<1>6. /\ Len(transactions') = n
      /\ \A i \in 1..Len(transactions) : transactions'[i] = transactions[i]
      /\ transactions'[n] = t
  BY <1>4, <1>5
<1>7. \A i : i \in 1..n <=> i \in 1..Len(transactions) \/ i = n
  BY <1>5
<1>8. Deployments' = Deployments \cup {n}
  BY <1>4, <1>6, <1>7 DEF Deployments
<1>9. n \notin Deployments
  BY <1>5 DEF Deployments
<1>10. Cardinality(Deployments') = Cardinality(Deployments) + 1
  BY <1>8, <1>9, DeploymentsFinite, FS_AddElement
<1>11. Deploying'
  <2>1. /\ d.pc = "deploying" /\ d.plan = process[p].plan /\ d.next = process[p].next
        /\ d.tx = n
    <3>1. n \in Nat /\ "deploying" \in Phases
      BY <1>5 DEF Phases
    <3> HIDE DEF n
    <3> QED
      BY <3>1, <1>5, WaitingContext
  <2>2. process'[p] = d
    BY <1>4, <1>5
  <2>3. Awaits(p)' /\ process'[p].tx \in Deployments'
    BY <2>1, <2>2, <1>0, <1>8 DEF NextAction, Awaits
  <2> QED
    BY <2>3 DEF Deploying
<1>12. \A i \in Deployments' : transactions'[i].status # "rejected"
  BY <1>4, <1>6, <1>8 DEF FInv, Deployments
<1>13. Cardinality(Deployments') <= stops' + 1
  BY <1>3, <1>4, <1>5, <1>10, DeploymentsFinite
<1> QED
  BY <1>11, <1>12, <1>13 DEF FInv

LEMMA WaitKeepsFew ==
  ASSUME OneAtATime, IInv, HInv, FInv, NEW p \in Processes, waitForDeploymentTransaction(p)
  PROVE  FInv'
<1> DEFINE c  == process[p]
           op == NextAction(p)
<1>1. UNCHANGED <<transactions, stops>>
  BY DEF waitForDeploymentTransaction, Saves
<1>2. Keeps(file, file')
  BY NextHistory DEF Next, Executes
<1>3. file.factory # None => file'.factory # None
  BY <1>2 DEF Keeps
<1>4. Deployments' = Deployments
  BY <1>1 DEF Deployments
<1>5. CASE op = Deploy
  <2>1. Known(c, transactions) /\ c.pc = "waiting"
    BY IInvParts DEF waitForDeploymentTransaction
  <2>2. c.tx # 0 /\ c.tx \in Nat
    BY <2>1 DEF Known, WaitOK, CommandContext
  <2>3. /\ ClassOf(p, Deploy) \in ClassHashes
        /\ c.artifacts["StarknetEth712Account"] \in ClassHashes
    BY <2>1, Names DEF Known, CommandContext, ClassOf, Builds
  <2>9. AddressOf(c.tx) = c.tx
    BY <1>5, <2>1, WaitedFor DEF AddressOf
  <2>4. FactoryAt(p, c.tx) \in FactoryDeploymentRecord
    BY <2>2, <2>3 DEF FactoryAt, FactoryDeploymentRecord
  <2>5. FactoryAt(p, c.tx) # None
    BY <2>4, DeployAssumption
  <2>6. file' = [c.manifest EXCEPT !.factory = FactoryAt(p, c.tx)]
    BY <1>5, <2>9 DEF waitForDeploymentTransaction, Saves, Recorded
  <2>7. c.manifest \in DeploymentManifest
    BY <2>1 DEF Known, CommandContext
  <2>8. file'.factory = FactoryAt(p, c.tx)
    BY <2>6, <2>7 DEF DeploymentManifest
  <2> QED
    BY <2>5, <2>8, <1>1, <1>4, SameDeployments DEF FInv
<1>6. CASE op # Deploy
  <2>1. ~Deploying
    BY <1>6, NotDeploying DEF Awaits
  <2> QED
    BY <2>1, <1>1, <1>3, <1>4, SameDeployments DEF FInv
<1> QED
  BY <1>5, <1>6

LEMMA ReturnsKeepsFew ==
  ASSUME IInv, FInv, NEW p \in Processes, deployContractReturns(p)
  PROVE  FInv'
<1> DEFINE c == process[p]
           d == [c EXCEPT !.pc = "waiting"]
<1>1. Known(c, transactions) /\ c.pc = "deploying"
  BY IInvParts DEF deployContractReturns
<1>2. UNCHANGED <<file, transactions, stops>> /\ process' = [process EXCEPT ![p] = d]
  BY DEF deployContractReturns
<1>3. \A q \in Processes : process'[q] = IF q = p THEN d ELSE process[q]
  BY <1>2, IInvParts
<1>4. d.pc = "waiting" /\ d.plan = c.plan /\ d.next = c.next /\ d.tx = c.tx
  BY <1>1, ReturnedContext DEF Known
<1>5. Deployments' = Deployments
  BY <1>2 DEF Deployments
<1> HIDE DEF d
<1>6. ASSUME NEW q \in Processes, Awaits(q), process[q].tx \in Deployments
      PROVE  Awaits(q)' /\ process'[q].tx \in Deployments'
  BY <1>1, <1>3, <1>4, <1>5, <1>6 DEF Awaits, NextAction
<1>7. Deploying => Deploying'
  BY <1>6 DEF Deploying
<1> QED
  BY <1>2, <1>5, <1>7, SameDeployments DEF FInv

\* A deployment that reverts is no longer counted, nor is the process that waits for it.
LEMMA IncludedKeepsFew ==
  ASSUME OneAtATime, IInv, FInv, NEW i \in DOMAIN transactions, TransactionIncluded(i)
  PROVE  FInv'
<1>0. /\ transactions \in Seq(Transaction) /\ DOMAIN transactions = 1..Len(transactions)
      /\ stops \in Nat
  BY IInvParts, LenProperties DEF IInv, TypeOK
<1>1. UNCHANGED <<file, process, stops>>
  BY DEF TransactionIncluded
<1>2. PICK status \in {"accepted", "reverted", "rejected"} :
        /\ status = "rejected" => transactions[i].op # Deploy
        /\ transactions' = [transactions EXCEPT ![i].status = status]
  BY DEF TransactionIncluded
<1>3. /\ DOMAIN transactions' = DOMAIN transactions /\ Len(transactions') = Len(transactions)
      /\ \A j \in DOMAIN transactions : transactions'[j].op = transactions[j].op
      /\ \A j \in DOMAIN transactions : j # i => transactions'[j] = transactions[j]
      /\ transactions'[i].status = status
  <2>1. transactions[i] \in Transaction
    BY <1>0, ElementOfSeq
  <2>2. /\ DOMAIN transactions' = DOMAIN transactions
        /\ transactions'[i] = [transactions[i] EXCEPT !.status = status]
        /\ \A j \in DOMAIN transactions : j # i => transactions'[j] = transactions[j]
    BY <1>2, <1>0
  <2>3. transactions'[i].status = status /\ transactions'[i].op = transactions[i].op
    BY <2>1, <2>2 DEF Transaction
  <2>4. Len(transactions') = Len(transactions)
    BY IncludedGrows
  <2> QED
    BY <2>2, <2>3, <2>4
<1>4. \A j \in Deployments : transactions'[j].status # "rejected"
  BY <1>2, <1>3, <1>0 DEF FInv, Deployments
<1>5. transactions[i].status = "pending"
  BY DEF TransactionIncluded
<1>6. CASE status # "reverted" \/ transactions[i].op # Deploy
  <2>1. Deployments' = Deployments
    BY <1>0, <1>3, <1>5, <1>6 DEF Deployments
  <2>2. Deploying' <=> Deploying
    BY <1>1, <2>1 DEF Deploying, Awaits, NextAction
  <2> QED
    BY <1>1, <1>4, <2>1, <2>2, SameDeployments
<1>7. CASE status = "reverted" /\ transactions[i].op = Deploy
  <2>1. i \in Deployments /\ Deployments' = Deployments \ {i}
    BY <1>0, <1>3, <1>5, <1>7 DEF Deployments
  <2>2. /\ Cardinality(Deployments') = Cardinality(Deployments) - 1
        /\ Cardinality(Deployments) \in Nat
    BY <2>1, DeploymentsFinite, FS_RemoveElement
  <2>3. Cardinality(Deployments) <= stops + 1
    BY DEF FInv
  <2>4. Cardinality(Deployments') <= stops' /\ Cardinality(Deployments') <= stops' + 1
    BY <1>0, <1>1, <2>2, <2>3
  <2>5. \A j \in Deployments' : transactions'[j].status # "rejected"
    BY <1>4, <2>1
  <2> QED
    BY <2>4, <2>5 DEF FInv
<1> QED
  BY <1>6, <1>7

LEMMA NextFInv == OneAtATime /\ IInv /\ HInv /\ FInv /\ [Next]_vars => FInv'
<1> SUFFICES ASSUME OneAtATime, IInv, HInv, FInv, [Next]_vars PROVE FInv'
  OBVIOUS
<1>0. /\ UNCHANGED transactions => Deployments' = Deployments
      /\ transactions \in Seq(Transaction) /\ DOMAIN transactions = 1..Len(transactions)
      /\ process \in [Processes -> CommandContext] /\ stops \in Nat
      /\ Off.pc = "off" /\ file \in DeploymentManifest
  BY IInvParts, LenProperties, OffContext DEF Deployments, IInv, TypeOK
<1>1. ASSUME NEW a \in Changing, Rebuild(a) PROVE FInv'
  <2>1. UNCHANGED <<file, process, transactions, stops>>
    BY <1>1 DEF Rebuild
  <2> QED
    BY <2>1 DEF FInv, Deployments, Deploying, Awaits, NextAction
<1>2. ASSUME NEW p \in Processes, loadCommandContext(p) PROVE FInv'
  <2>1. ~Deploying
    BY <1>2, NotDeploying DEF loadCommandContext, Awaits
  <2> QED
    BY <2>1, <1>0, <1>2, SameDeployments DEF loadCommandContext, FInv
<1>3. ASSUME NEW p \in Processes,
             \/ verifyPrimerClassHash(p) \/ loadStarknetArtifact(p)
             \/ buildFactoryPlan(p) \/ EndsUnchanged(p)
      PROVE  FInv'
  <2>1. ~Deploying
    BY <1>3, NotDeploying DEF verifyPrimerClassHash, loadStarknetArtifact, buildFactoryPlan,
                              EndsUnchanged, Awaits
  <2>2. UNCHANGED <<file, transactions, stops>>
    BY <1>3 DEF verifyPrimerClassHash, loadStarknetArtifact, buildFactoryPlan, EndsUnchanged
  <2> QED
    BY <2>1, <2>2, <1>0, SameDeployments DEF FInv
<1>4. ASSUME NEW p \in Processes, Fails(p) PROVE FInv'
  <2>1. ~Deploying
    <3> SUFFICES ASSUME Awaits(p), process[p].tx \in Deployments PROVE FALSE
      BY DEF OneAtATime, Deploying
    <3>1. Known(process[p], transactions) /\ process[p].pc # "executing"
      BY IInvParts DEF Awaits
    <3>2. process[p].pc = "waiting" => transactions[process[p].tx].status = "accepted"
      BY <3>1 DEF Known, WaitOK, Awaits, NextAction
    <3>3. /\ process[p].pc = "deploying" /\ transactions[process[p].tx].status # "pending"
          /\ ~HasAddress(AddressOf(process[p].tx))
      BY <3>1, <3>2, <1>4 DEF Fails, Executing
    <3>4. transactions[process[p].tx].status # "rejected" /\ transactions[process[p].tx].status # "reverted"
      BY DEF FInv, Deployments
    <3>5. process[p].tx \in 1..Len(transactions) /\ transactions[process[p].tx] \in Transaction
      BY <1>0, ElementOfSeq DEF Deployments
    <3>6. Accepted(process[p].tx)
      BY <3>3, <3>4, <3>5 DEF Accepted, Transaction
    <3>7. process[p].tx # 0
      BY <3>5
    <3> QED
      BY <3>3, <3>6, <3>7 DEF HasAddress, AddressOf
  <2>2. UNCHANGED <<file, transactions, stops>>
    BY <1>4 DEF Fails
  <2> QED
    BY <2>1, <2>2, <1>0, SameDeployments DEF FInv
<1>5. ASSUME NEW p \in Processes, Stops(p) PROVE FInv'
  <2>1. stops' = stops + 1 /\ UNCHANGED <<file, transactions>>
    BY <1>5 DEF Stops
  <2>2. Cardinality(Deployments) <= stops + 1 /\ Cardinality(Deployments) \in Nat
    BY DeploymentsFinite DEF FInv
  <2>3. Cardinality(Deployments) <= stops' /\ Cardinality(Deployments) <= stops' + 1
    BY <2>1, <2>2, <1>0
  <2>4. \A i \in Deployments' : transactions'[i].status # "rejected"
    BY <2>1 DEF FInv, Deployments
  <2> QED
    BY <2>1, <2>3, <2>4, <1>0 DEF FInv
<1>6. ASSUME NEW p \in Processes, PlanApplied(p) PROVE FInv'
  <2>1. ~Deploying
    BY <1>6, NotDeploying DEF PlanApplied, Awaits
  <2>2. UNCHANGED <<transactions, stops>> /\ process[p].manifest = file
        /\ file' = [process[p].manifest EXCEPT !.lastPlan = process[p].plan]
    BY <1>6 DEF PlanApplied, HInv
  <2>3. file'.factory = file.factory
    BY <2>2, <1>0 DEF DeploymentManifest
  <2> QED
    BY <2>1, <2>2, <2>3, <1>0, SameDeployments DEF FInv
<1>7. ASSUME NEW i \in DOMAIN transactions, TransactionIncluded(i) PROVE FInv'
  BY <1>7, IncludedKeepsFew
<1>8. CASE UNCHANGED vars
  BY <1>8 DEF vars, FInv, Deployments, Deploying, Awaits, NextAction
<1> QED
  BY <1>1, <1>2, <1>3, <1>4, <1>5, <1>6, <1>7, <1>8,
     DeclareKeepsFew, DeployKeepsFew, ReturnsKeepsFew, WaitKeepsFew DEF Next, Executes

\* Reruns by one operator leave at most one factory the manifest does not know for every
\* run that was stopped, whatever is rebuilt, rejected or reverted.
THEOREM FactoriesAreFew == OneAtATime => (Spec => []FewFactories)
<1> SUFFICES ASSUME OneAtATime PROVE Spec => []FewFactories
  OBVIOUS
<1>1. Init => IInv /\ HInv /\ FInv
  <2> SUFFICES ASSUME Init PROVE IInv /\ HInv /\ FInv
    OBVIOUS
  <2>1. IInv /\ HInv
    BY InitIInv, OffContext DEF Init, HInv
  <2>2. Deployments = {} /\ stops = 0
    BY DEF Init, Deployments
  <2>3. Cardinality(Deployments) = 0
    BY <2>2, FS_EmptySet
  <2> QED
    BY <2>1, <2>2, <2>3 DEF FInv
<1>2. (IInv /\ HInv /\ FInv) /\ [Next]_vars => (IInv /\ HInv /\ FInv)'
  BY NextIInv, NextHistory, NextFInv
<1>3. IInv /\ FInv => FewFactories
  <2> SUFFICES ASSUME IInv, FInv PROVE Cardinality(Factories) <= 1 + stops
    BY DEF FewFactories
  <2>1. stops \in Nat
    BY DEF IInv, TypeOK
  <2>2. Cardinality(Deployments) <= stops + 1
    BY DEF FInv
  <2> QED
    BY <2>1, <2>2, DeploymentsFinite
<1> QED
  BY <1>1, <1>2, <1>3, PTL DEF Spec
=============================================================================
