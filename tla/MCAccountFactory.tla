-------------------------- MODULE MCAccountFactory --------------------------
(* Instances of AccountFactory for TLC. *)
EXTENDS AccountFactoryProperties, FiniteSets

\* Bound: another deployer has one contract, under any of the salts.
OneOtherContract ==
  Cardinality({a \in Addresses : a[1] # Factory /\ is_deployed(a)}) <= 1
=============================================================================
