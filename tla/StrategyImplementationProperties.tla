------------------ MODULE StrategyImplementationProperties ------------------
(***************************************************************************)
(* What the events of StrategyImplementation and of the reporter say of    *)
(* the balances that moved, and the abstract specification it implements.  *)
(***************************************************************************)
EXTENDS StrategyImplementation, FiniteSets, Functions

Outcomes == {"Deposited", "MultiRouteSwap", "ApplyFailed"}

\* The events of one kind that invocation id has left in a log.
Of(events, types, id) == {j \in DOMAIN events : events[j].type \in types /\ events[j].id = id}

\* What an event says an owner received of a token.
Received(e, owner, t) ==
  IF e.owner # owner \/ e.type \notin Outcomes THEN 0
  ELSE (IF e.out = t THEN e.got ELSE 0) + (IF e.token = t THEN e.refund ELSE 0)

\* What a log says in all.
Paid(events, owner, t) == SumFunction([j \in DOMAIN events |-> Received(events[j], owner, t)])

\* The events are the books: once a transaction is over, every owner's balance is
\* what the Deposited, MultiRouteSwap and ApplyFailed events that survived say, no
\* event is missing and none speaks of a transfer that was rolled back.
EventsReconcile ==
  stack = <<>> => \A e \in EthAddresses, t \in Tokens : owned[e][t] = Paid(log, e, t)

\* An invocation never has two outcomes: a position and a refund, two refunds or
\* two positions; and at most one order.
OneOutcome ==
  \A id \in 0..MaxApplies :
    /\ Cardinality(Of(log, Outcomes, id)) <= 1
    /\ Cardinality(Of(log, {"OrderCreated"}, id)) <= 1

\* An order in the reporter's books always stands behind the position of the same
\* invocation: same owner and token, the shares of its event, the amount of its
\* event with what was refunded; never behind a refund.
OrdersBacked ==
  \A j \in DOMAIN log : log[j].type = "OrderCreated" =>
    \E k \in 1..(j - 1) :
      /\ log[k].id = log[j].id
      /\ log[k].type \in {"Deposited", "MultiRouteSwap"}
      /\ log[k].owner = log[j].owner
      /\ log[k].token = log[j].token
      /\ log[k].out = log[j].out
      /\ log[k].got = log[j].got
      /\ log[k].amount + log[k].refund = log[j].amount

\* When apply returns, it either returns with exactly one outcome for its
\* invocation or has panicked and left the state it was called in.
AllOrNothing ==
  [][Len(stack') < Len(stack) =>
       \/ chain' = <<Top.entry.held, Top.entry.allow, Top.entry.owned,
                     Top.entry.deployed, Top.entry.log>>
       \/ Cardinality(Of(log', Outcomes, Top.id)) = 1]_vars

\* A swap that returns has brought the owner at least buy_token_min_amount of the
\* bought token over what the owner had, and when the sold token is the bought one
\* the refund does not count towards it.
SlippageRespected ==
  \A i \in 1..Len(stack) :
    LET f == stack[i]
        buy == f.call.swap.buy
        again == IF buy = f.call.token THEN f.call.amount ELSE 0
    IN f.pc = "report" /\ Kind(f) = "Avnu" =>
         owned[f.call.eth][buy] >= f.entry.owned[f.call.eth][buy] + f.call.swap.min + again

\* Tokens pass through: seen at the ends of transactions, the contract does one
\* step of FundsCustody per transaction, however many calls it nested.
Committed(now, then) == IF stack = <<>> THEN now ELSE then

Promise == INSTANCE FundsCustody WITH
  Owners   <- EthAddresses,
  custody  <- Committed(held, stack[1].entry.held),
  granted  <- Committed(allow, stack[1].entry.allow),
  ledger   <- Committed(owned, stack[1].entry.owned),
  accounts <- Committed(deployed, stack[1].entry.deployed),
  books    <- Committed(log, stack[1].entry.log)

FundsPassThrough == Promise!Spec
=============================================================================
