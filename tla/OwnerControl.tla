---------------------------- MODULE OwnerControl ----------------------------
(***************************************************************************)
(* What an account promises to the holder of its key: the account changes  *)
(* hands and code only through batches its owner has signed, each of them  *)
(* whole and at most once, however they are submitted and whatever other   *)
(* batches run while they do.                                              *)
(*                                                                         *)
(* One step is one transaction of the chain.                               *)
(***************************************************************************)
EXTENDS Naturals

CONSTANTS
  Keys, NoKey,     (* the possible owners, and none yet                       *)
  Versions,        (* the code an account may run                             *)
  Batches,         (* the batches that were signed                            *)
  Signer,          (* batch -> the key that signed it                         *)
  Slot,            (* batch -> what it uses up, shared by those that exclude  *)
                   (* each other                                              *)
  OwnersSet,       (* batch -> the owners it sets, by the position of the     *)
                   (* call                                                    *)
  VersionsSet      (* batch -> the versions it sets, likewise                 *)

VARIABLES owner, version, done

vars == <<owner, version, done>>

Named(changes) == {changes[k] : k \in DOMAIN changes}

\* What the last of the changes leaves.
Leaves(changes, old, new) ==
  \/ DOMAIN changes = {} /\ new = old
  \/ \E k \in DOMAIN changes : /\ \A m \in DOMAIN changes : m <= k
                               /\ new = changes[k]

Init == owner = NoKey /\ version \in Versions /\ done = {}

\* The first owner takes an account nobody owns.
Claim == owner = NoKey /\ owner' \in Keys /\ UNCHANGED <<version, done>>

(***************************************************************************)
(* The batches of one transaction: the first is the owner's, the others    *)
(* run inside it and belong to the owner or to keys it has handed the      *)
(* account to.  A batch on its own leaves exactly what it sets.            *)
(***************************************************************************)
Transact(new) ==
  /\ new # {} /\ new \subseteq Batches
  /\ done' = done \cup new
  /\ \A b \in new, c \in done' : b # c => Slot[b] # Slot[c]
  /\ \E b \in new : Signer[b] = owner
  /\ \A b \in new : Signer[b] \in {owner} \cup UNION {Named(OwnersSet[c]) : c \in new}
  /\ owner' \in {owner} \cup UNION {Named(OwnersSet[b]) : b \in new}
  /\ version' \in {version} \cup UNION {Named(VersionsSet[b]) : b \in new}
  /\ \A b \in new : new = {b} => /\ Leaves(OwnersSet[b], owner, owner')
                                 /\ Leaves(VersionsSet[b], version, version')

Next == Claim \/ Transact(done' \ done)

Spec == Init /\ [][Next]_vars
=============================================================================
