----------------------- MODULE AccountFactoryProperties -----------------------
(***************************************************************************)
(* Whose the accounts are, and what the factory's events say of them.      *)
(***************************************************************************)
EXTENDS AccountFactory

TypeOK ==
  /\ account_class_hash \in ClassHashes
  /\ contracts \in [Addresses -> Contract]
  /\ call \in {Idle} \cup DeployCall
  /\ log \in Seq(Event)

\* What the last transaction left.
Committed == IF call = Idle THEN contracts ELSE call.entry

AccountOf(e) == Committed[eth_address_to_account(e)]

\* No deployment is left half done: at the address of a key there is nothing, or an
\* account with an owner, and the key itself has signed for it.
NoneHalfDeployed ==
  \A e \in EthAddresses : AccountOf(e).class # None =>
    e \in Claims /\ AccountOf(e).eth_address # None

IsChange(j) == log[j].type = "AccountClassHashChanged"

\* The account class after the first j - 1 events, by the events from the j-th on.
ClassBefore(j) ==
  IF \E k \in j..Len(log) : IsChange(k)
  THEN LET k == CHOOSE k \in j..Len(log) : IsChange(k) /\ \A m \in j..(k - 1) : ~IsChange(m)
       IN log[k].previous_class_hash
  ELSE account_class_hash

\* The factory's events are its history: an account is announced once and exactly if
\* it is there, with the class that was configured when it was deployed, and the
\* class changes link up to the present class.
EventsReplay ==
  /\ \A e \in EthAddresses :
       AccountOf(e).class # None <=>
         \E j \in DOMAIN log : ~IsChange(j) /\ log[j].eth_address = e
  /\ \A j, k \in DOMAIN log :
       ~IsChange(j) /\ ~IsChange(k) /\ log[j].eth_address = log[k].eth_address => j = k
  /\ \A j \in DOMAIN log :
       IF IsChange(j)
       THEN log[j].new_class_hash = ClassBefore(j + 1)
       ELSE log[j].account_class_hash = ClassBefore(j)

Registry == INSTANCE AccountRegistry WITH
  Keys       <- EthAddresses,
  Signers    <- Claims,
  Versions   <- ClassHashes,
  Absent     <- None,
  configured <- account_class_hash,
  accounts   <- [e \in EthAddresses |->
                   IF AccountOf(e).class = None THEN None
                   ELSE [owner |-> AccountOf(e).eth_address, version |-> AccountOf(e).class]]

\* The factory implements the registry: the three calls of a deployment are one step,
\* and neither the governor nor other deployers touch an account.
ImplementsRegistry == Registry!Spec
=============================================================================
