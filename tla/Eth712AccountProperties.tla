---------------------- MODULE Eth712AccountProperties ----------------------
(***************************************************************************)
(* What an account's history says of its owner, code and nonces, and the   *)
(* abstract specification the account implements.                          *)
(***************************************************************************)
EXTENDS Eth712Account, FiniteSets

TypeOK ==
  /\ Now \in State
  /\ tx_nonce \in Nat
  /\ now \in 0..MaxTime
  /\ stack \in Seq(Frame)

IsAdmin(call) == call.op \in {"set_eth_address", "upgrade"}

AcceptedAt(j) == log[j].type = "Accepted"
SetsOwner(j) == log[j].type \in {"Initialized", "EthAddressChanged"}

\* A signed request takes effect at most once, through nested submissions, failed
\* attempts, rotations and upgrades: a nonce is used exactly when a request that
\* carries it has gone through or is running.
NoncesExact ==
  /\ \A j, k \in DOMAIN log :
       AcceptedAt(j) /\ AcceptedAt(k) /\ j # k =>
         LET a == Signed[log[j].by]  b == Signed[log[k].by]
         IN a.kind = b.kind => a.nonce # b.nonce
  /\ SRC9_nonces = {Signed[log[j].by].nonce :
                      j \in {k \in DOMAIN log : AcceptedAt(k) /\ Signed[log[k].by].kind = "outside"}}

\* The owner the events before position j leave.
OwnerBefore(j, e) ==
  \/ e = Zero /\ \A k \in 1..(j - 1) : ~SetsOwner(k)
  \/ \E k \in 1..(j - 1) :
       /\ SetsOwner(k) /\ log[k].next = e
       /\ \A m \in (k + 1)..(j - 1) : ~SetsOwner(m)

\* The EthAddressChanged events link every owner to the one before and lead to the
\* present one, and every request was signed by the owner they name at that point:
\* an indexer that follows them knows whose signature counts.
OwnersChain ==
  /\ \A j \in DOMAIN log :
       /\ SetsOwner(j) => OwnerBefore(j, log[j].prev)
       /\ AcceptedAt(j) => OwnerBefore(j, Signed[log[j].by].signer)
  /\ OwnerBefore(Len(log) + 1, eth_address)

\* An account is claimed once: no sequence of rotations, upgrades and failures
\* brings it back to where initialize would give it to somebody else.
ClaimedOnce ==
  /\ \A j, k \in DOMAIN log :
       log[j].type = "Initialized" /\ log[k].type = "Initialized" => j = k
  /\ (eth_address = Zero) <=> (log = <<>>)

\* The positions of the admin calls a request has made: all of them once it has returned.
Made(r) ==
  {k \in DOMAIN Signed[r].calls :
     /\ IsAdmin(Signed[r].calls[k])
     /\ \A i \in DOMAIN stack : stack[i].request = r => k < stack[i].call}

Through == {log[j].by : j \in {k \in DOMAIN log : AcceptedAt(k)}}

\* The positions of the events a request has caused.
Changes(r) == {j \in DOMAIN log : log[j].type \in {"EthAddressChanged", "Upgraded"} /\ log[j].by = r}

\* The event tells what the call did.
Tells(event, call) ==
  IF call.op = "upgrade" THEN event.type = "Upgraded" /\ event.next = call.class
                         ELSE event.type = "EthAddressChanged" /\ event.next = call.eth

\* How many positions of a set come before one.
Rank(positions, k) == Cardinality({m \in positions : m < k})

\* A transaction of a version before 3, as it is or as a query: its signature is good,
\* and it may use up a nonce and nothing else.
Outdated(r) ==
  /\ Signed[r].kind = "transaction"
  /\ Signed[r].version \in 0..2 \cup QUERY_OFFSET..(QUERY_OFFSET + 2)

\* Batches are whole: what the account has recorded of a request is, in order, the
\* owner and class changes of the calls it has made, and of a request that failed or
\* was of a version the account does not support nothing is left, the interfaces its
\* EICs registered included.
BatchesWhole ==
  /\ \A r \in Requests :
       IF r \in Through
       THEN /\ ~Outdated(r)
            /\ Cardinality(Changes(r)) = Cardinality(Made(r))
            /\ \A j \in Changes(r), k \in Made(r) :
                 Rank(Changes(r), j) = Rank(Made(r), k) => Tells(log[j], Signed[r].calls[k])
       ELSE Changes(r) = {}
  /\ src5 = (IF eth_address = Zero THEN {} ELSE {ISRC6_ID, ISRC9_V2_ID}) \cup
            UNION {UNION {Signed[r].calls[k].eic :
                            k \in {m \in Made(r) : Signed[r].calls[m].op = "upgrade"}} :
                     r \in Through}

-----------------------------------------------------------------------------
\* Seen at the ends of transactions, the account is under its owner's control.
Committed(present, past) == IF stack = <<>> THEN present ELSE past

\* The owners and the classes a request sets, by the position of the call.
OwnersOf(r) ==
  LET calls == Signed[r].calls
  IN [k \in {m \in DOMAIN calls : calls[m].op = "set_eth_address"} |-> calls[k].eth]
ClassesOf(r) ==
  LET calls == Signed[r].calls
  IN [k \in {m \in DOMAIN calls : calls[m].op = "upgrade"} |-> calls[k].class]

ThroughIn(events) == {events[j].by : j \in {k \in DOMAIN events : events[k].type = "Accepted"}}

Control == INSTANCE OwnerControl WITH
  Keys        <- EthAddresses,
  NoKey       <- Zero,
  Versions    <- Classes,
  Batches     <- Requests,
  Signer      <- [r \in Requests |-> Signed[r].signer],
  Slot        <- [r \in Requests |-> <<Signed[r].kind, Signed[r].nonce>>],
  OwnersSet   <- [r \in Requests |-> OwnersOf(r)],
  VersionsSet <- [r \in Requests |-> ClassesOf(r)],
  owner       <- Committed(eth_address, stack[1].entry.eth_address),
  version     <- Committed(class, stack[1].entry.class),
  done        <- Committed(ThroughIn(log), ThroughIn(stack[1].entry.log))

UnderOwnerControl == Control!Spec
=============================================================================
