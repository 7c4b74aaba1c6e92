--------------------------- MODULE AccountRegistry ---------------------------
(***************************************************************************)
(* What the factory promises: every key has at most one account, which     *)
(* opens with that key as its owner and with the code configured at that   *)
(* moment, and which from then on nobody but its owner changes.            *)
(***************************************************************************)
CONSTANTS Keys, Signers, Versions, Absent

VARIABLES configured, accounts

vars == <<configured, accounts>>

Account == [owner : Keys, version : Versions]

Init == configured \in Versions /\ accounts = [k \in Keys |-> Absent]

Configure == configured' \in Versions /\ UNCHANGED accounts

\* Only a key that has signed the ownership message gets an account.
Open(k) ==
  /\ k \in Signers /\ accounts[k] = Absent
  /\ accounts' = [accounts EXCEPT ![k] = [owner |-> k, version |-> configured]]
  /\ UNCHANGED configured

\* The owner's own doing: a new owner, or other code.
Operate(k) ==
  /\ accounts[k] # Absent
  /\ \E a \in Account :
       /\ accounts' = [accounts EXCEPT ![k] = a]
       /\ a.owner = accounts[k].owner \/ a.version = accounts[k].version
  /\ UNCHANGED configured

Next == Configure \/ \E k \in Keys : Open(k) \/ Operate(k)

Spec == Init /\ [][Next]_vars
=============================================================================
