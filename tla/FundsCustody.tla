----------------------------- MODULE FundsCustody -----------------------------
(***************************************************************************)
(* What StrategyImplementation promises, one step per transaction: tokens  *)
(* pass through it.  A transaction enters outcomes in the books and pays   *)
(* the owners exactly what they say; the contract's own balances and the   *)
(* allowances it has granted are the same afterwards.                      *)
(***************************************************************************)
EXTENDS Naturals, Sequences, FiniteSets, Functions

CONSTANTS
  Tokens,  (* the ERC20 contracts                                            *)
  Owners   (* the position owners                                            *)

VARIABLES
  custody,   (* token -> what the contract holds                             *)
  granted,   (* token -> strategy -> allowance                               *)
  ledger,    (* owner -> token -> balance of the owner's account             *)
  accounts,  (* the owners whose account exists                              *)
  books      (* the outcomes and orders, in order                            *)

funds == <<custody, granted, ledger, accounts, books>>

Kinds == {"Deposited", "MultiRouteSwap", "ApplyFailed"}

\* The entries of one request among a range of entries.
OutcomesOf(entries, range, id) ==
  {j \in range : entries[j].id = id /\ entries[j].type \in Kinds}

\* What one entry pays its owner: the tokens received and the tokens refunded.
Pays(e, owner, t) ==
  IF e.owner # owner \/ e.type \notin Kinds THEN 0
  ELSE (IF e.out = t THEN e.got ELSE 0) + (IF e.token = t THEN e.refund ELSE 0)

Init ==
  /\ custody = [t \in Tokens |-> 0]
  /\ \A t \in Tokens : \A s \in DOMAIN granted[t] : granted[t][s] = 0
  /\ ledger = [o \in Owners |-> [t \in Tokens |-> 0]]
  /\ accounts = {}
  /\ books = <<>>

\* A transaction that comes through: each request it settles has one outcome and
\* had none before, each order comes after the position it reports.
Transaction ==
  LET new == (Len(books) + 1)..Len(books')
  IN /\ UNCHANGED <<custody, granted>>
     /\ Len(books') > Len(books)
     /\ SubSeq(books', 1, Len(books)) = books
     /\ \A j \in new :
          /\ Cardinality(OutcomesOf(books', 1..Len(books'), books'[j].id)) = 1
          /\ books'[j].type = "OrderCreated" =>
               \E k \in new : /\ k < j
                              /\ books'[k].id = books'[j].id
                              /\ books'[k].type \in Kinds \ {"ApplyFailed"}
          /\ books'[j].owner \in accounts'
     /\ accounts \subseteq accounts'
     /\ ledger' = [o \in Owners |-> [t \in Tokens |->
          ledger[o][t] + SumFunction([j \in new |-> Pays(books'[j], o, t)])]]

\* Tokens sent to the contract outside a request stay with it.
Receive ==
  /\ \A t \in Tokens : custody'[t] >= custody[t]
  /\ UNCHANGED <<granted, ledger, accounts, books>>

Next == Transaction \/ Receive

Spec == Init /\ [][Next]_funds
=============================================================================
