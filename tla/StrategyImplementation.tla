----------------------- MODULE StrategyImplementation -----------------------
(***************************************************************************)
(* The StrategyImplementation contract as a call-stack machine.            *)
(*                                                                         *)
(* apply pulls a caller's tokens, deploys the position owner's account and *)
(* calls apply_on_self through the safe dispatcher: a panic anywhere below *)
(* that call rolls its effects back and the tokens are refunded.  The      *)
(* vaults and the Avnu exchange are other contracts; while one of them     *)
(* runs, anyone may call apply again with tokens of their own.  Each       *)
(* invocation of apply is a frame of the stack, and a frame carries the    *)
(* states its two possible rollbacks return to.                            *)
(***************************************************************************)
EXTENDS Integers, Sequences, StrategyRouting

CONSTANTS
  Tokens,        (* the ERC20 contracts in play, every vault share included  *)
  EthAddresses,  (* the Ethereum owners requests are made for                *)
  Zero,          (* the unset earn_reporter                                  *)
  Reporters,     (* the addresses governance may set as earn_reporter        *)
  Beneficiaries, (* values of the Avnu beneficiary, Self among them          *)
  Self,          (* this contract                                            *)
  Calls,         (* the requests made: a subset of Call below                *)
  Outputs,       (* the shares or bought tokens a strategy call may produce  *)
  MaxApplies,    (* bound: invocations of apply in a behaviour               *)
  MaxDepth,      (* bound: nested invocations of apply                       *)
  Donatable,     (* bound: the tokens sent to the contract outside apply     *)
  MaxDonated     (* bound: how many of each of them                         *)

\* The Avnu payload after the common header: the fields the contract looks at.
SwapParameters == [sell : Tokens, buy : Tokens, beneficiary : Beneficiaries, min : Nat]

\* One calldata of apply.  header says how far the common header parses; payload
\* is empty, an Avnu payload, or felts that deserialize to neither.
Call ==
  [token     : Tokens,
   amount    : Nat,
   eth       : EthAddresses,
   header    : {"ok", "malformed", "no_protocol"},
   signature : BOOLEAN,
   protocol  : STRING,
   payload   : {"none", "swap", "other"},
   swap      : SwapParameters]

ASSUME StrategyAssumption ==
  /\ VaultAddresses \cup {MIDAS_RE7_BTC} \subseteq Tokens
  /\ Wrappers \subseteq Tokens
  /\ Calls \subseteq Call
  /\ Outputs \subseteq Nat
  /\ Self \in Beneficiaries
  /\ Zero \notin Reporters
  /\ Donatable \subseteq Tokens
  /\ {MaxApplies, MaxDepth, MaxDonated} \subseteq Nat

VARIABLES
  held,      (* token -> balance of this contract                            *)
  allow,     (* token -> strategy -> allowance this contract has granted     *)
  owned,     (* eth address -> token -> balance of its account               *)
  deployed,  (* the eth addresses whose account is deployed                  *)
  log,       (* the events emitted, in order                                 *)
  stack,     (* the invocations of apply in progress, innermost last         *)
  reporter,  (* earn_reporter                                                *)
  applies,   (* invocations of apply so far, the name of the next one        *)
  donated    (* token -> what was sent to the contract outside apply         *)

\* What a transaction changes and a failed call gives back.
chain == <<held, allow, owned, deployed, log>>
vars == <<held, allow, owned, deployed, log, stack, reporter, applies, donated>>

\* Deposited, MultiRouteSwap and ApplyFailed are this contract's events,
\* OrderCreated the reporter's; id names the invocation.
Event ==
  [type   : {"Deposited", "MultiRouteSwap", "ApplyFailed", "OrderCreated"},
   id     : Nat,
   owner  : EthAddresses,
   token  : Tokens,      \* token_deposited, sell_token, token_in, token
   amount : Nat,         \* amount_deposited, amount_sold, amount, asset_amount
   out    : Tokens,      \* token_received, buy_token
   got    : Nat,         \* amount_received, shares_amount
   refund : Nat]         \* amount_not_sold, the amount of ApplyFailed

World ==
  [held     : [Tokens -> Nat],
   allow    : [Tokens -> [StrategyAddresses -> Nat]],
   owned    : [EthAddresses -> [Tokens -> Nat]],
   deployed : SUBSET EthAddresses,
   log      : Seq(Event)]

\* apply is before deploy_account ("header"), before the safe-dispatched call
\* ("dispatch"), inside a deposit ("vault", "troves") or a swap ("swap"), or
\* before report_action ("report").
Frame ==
  [id      : Nat,
   call    : Calls,
   pc      : {"header", "dispatch", "vault", "troves", "swap", "report"},
   entry   : World,      \* the state apply was called in
   rescue  : World,      \* the state apply_on_self was called in
   settled : BOOLEAN,    \* the strategy has moved the tokens, it has not returned
   spent   : Nat,        \* what the strategy took
   got     : Nat,        \* what the strategy gave
   lst     : Nat,        \* lst_amount
   sell_token_before : Nat,
   buy_token_before  : Nat,
   shares  : Nat]        \* shares_amount

-----------------------------------------------------------------------------
Now == [held |-> held, allow |-> allow, owned |-> owned, deployed |-> deployed, log |-> log]

Top == stack[Len(stack)]
Pop == stack' = SubSeq(stack, 1, Len(stack) - 1)
Become(f) == stack' = [stack EXCEPT ![Len(stack)] = f]
At(pc) == stack # <<>> /\ Top.pc = pc

Kind(f) == strategy_kind(f.call.protocol, f.call.token)
LST(f) == Endur[f.call.token]

\* The deposit a frame is in: the token it spends, how much of it, in which vault.
Asset(f) == IF f.pc = "troves" THEN LST(f) ELSE f.call.token
Assets(f) == IF f.pc = "troves" THEN f.lst ELSE f.call.amount
Vault(f) == IF f.pc = "vault" /\ Kind(f) = "Troves" THEN LST(f)
            ELSE strategy_address(Kind(f), f.call.token)

\* The first of the two Troves deposits is the one whose shares stay here.
KeepsShares(f) == f.pc = "vault" /\ Kind(f) = "Troves"

InStrategy == stack # <<>> /\ Top.pc \in {"vault", "troves", "swap"}

Credit(ledger, eth, token, n) == [ledger EXCEPT ![eth][token] = @ + n]

\* Mutant: the event leaves out what was given back.
AnnounceWithoutRefund(type, f, token, amount, out, got, refund) ==
  [type |-> type, id |-> f.id, owner |-> f.call.eth, token |-> token,
   amount |-> amount, out |-> out, got |-> got, refund |-> 0]

Announce(type, f, token, amount, out, got, refund) ==
  [type |-> type, id |-> f.id, owner |-> f.call.eth, token |-> token,
   amount |-> amount, out |-> out, got |-> got, refund |-> refund]

-----------------------------------------------------------------------------
Init ==
  /\ held = [t \in Tokens |-> 0]
  /\ allow = [t \in Tokens |-> [s \in StrategyAddresses |-> 0]]
  /\ owned = [e \in EthAddresses |-> [t \in Tokens |-> 0]]
  /\ deployed = {}
  /\ log = <<>>
  /\ stack = <<>>
  /\ reporter = Zero
  /\ applies = 0
  /\ donated = [t \in Tokens |-> 0]

(***************************************************************************)
(* apply, up to the header: a zero amount returns at once, otherwise the   *)
(* tokens are pulled from the caller.  (A caller without the balance or    *)
(* the approval reverts and leaves no trace.)  A nested call comes from    *)
(* inside a strategy.                                                      *)
(***************************************************************************)
Apply(call) ==
  /\ stack = <<>> \/ InStrategy
  /\ applies < MaxApplies
  /\ Len(stack) < MaxDepth
  /\ call.amount > 0
  /\ held' = [held EXCEPT ![call.token] = @ + call.amount]
  /\ stack' = Append(stack,
       [id |-> applies, call |-> call, pc |-> "header", entry |-> Now, rescue |-> Now,
        settled |-> FALSE, spent |-> 0, got |-> 0, lst |-> 0,
        sell_token_before |-> 0, buy_token_before |-> 0, shares |-> 0])
  /\ applies' = applies + 1
  /\ UNCHANGED <<allow, owned, deployed, log, reporter, donated>>

\* deploy_account refuses an unknown owner whose signature does not verify, and
\* never looks at the signature of an owner whose account exists.
DeployRefused(f) == f.call.eth \notin deployed /\ ~f.call.signature

\* The header parses and the factory answers with the owner's account.
ApplyDeploysAccount ==
  /\ At("header")
  /\ Top.call.header # "malformed"
  /\ ~DeployRefused(Top)
  /\ deployed' = deployed \cup {Top.call.eth}
  /\ Become([Top EXCEPT !.pc = "dispatch"])
  /\ UNCHANGED <<held, allow, owned, log, reporter, applies, donated>>

\* Mutant: the safe call's rollback reaches back before the caller's transfer.
DispatchedFromEntry(f) == [f EXCEPT !.rescue = f.entry]

\* apply calls apply_on_self: a failure comes back to the present state.
Dispatched(f) == [f EXCEPT !.rescue = Now]

\* A panic of apply itself: everything since the call is undone, the transfer of
\* the caller's tokens included.
RevertApply(f) ==
  /\ held' = f.entry.held
  /\ allow' = f.entry.allow
  /\ owned' = f.entry.owned
  /\ deployed' = f.entry.deployed
  /\ log' = f.entry.log
  /\ Pop
  /\ UNCHANGED <<reporter, applies, donated>>

\* Mutant: an error before the dispatch returns instead of panicking.
ApplyReturnsOnError ==
  /\ At("header") /\ (Top.call.header = "malformed" \/ DeployRefused(Top))
  /\ Pop
  /\ UNCHANGED <<chain, reporter, applies, donated>>

ApplyPanics ==
  /\ \/ At("header") /\ (Top.call.header = "malformed" \/ DeployRefused(Top))
     \/ At("dispatch") /\ Top.call.header = "no_protocol"
  /\ RevertApply(Top)

(***************************************************************************)
(* handle_apply_on_self_result on an error: apply_on_self has left nothing *)
(* behind, the amount goes to the position owner.  A transfer the balance  *)
(* does not cover panics, and apply with it.                               *)
(***************************************************************************)
handle_apply_on_self_error(f, world) ==
  LET token == f.call.token
      amount == f.call.amount
  IN IF world.held[token] >= amount
     THEN /\ held' = [world.held EXCEPT ![token] = @ - amount]
          /\ allow' = world.allow
          /\ owned' = Credit(world.owned, f.call.eth, token, amount)
          /\ deployed' = world.deployed
          /\ log' = Append(world.log, Announce("ApplyFailed", f, token, amount, token, 0, amount))
          /\ Pop
          /\ UNCHANGED <<reporter, applies, donated>>
     ELSE RevertApply(f)

\* Mutants: the failed call is not rolled back; the rollback takes the account too.
NotRolledBack(f) == Now
RolledBackWithAccount(f) == [f.rescue EXCEPT !.deployed = f.entry.deployed]

\* Starknet undoes everything a safe-dispatched call did when it fails.
RolledBack(f) == f.rescue

\* apply_on_self refuses the request before it calls anyone: the selector and
\* token name no strategy, or the payload is not the one the strategy takes.
PayloadAccepted(call, kind) ==
  IF kind = "Avnu"
  THEN /\ call.payload = "swap"
       /\ call.swap.sell = call.token
       /\ call.swap.buy = MIDAS_RE7_BTC
       /\ call.swap.beneficiary = Self
  ELSE call.payload = "none"

ApplyOnSelfRefuses ==
  /\ At("dispatch")
  /\ Top.call.header = "ok"
  /\ ~(Kind(Top) \in StrategyKinds /\ PayloadAccepted(Top.call, Kind(Top)))
  /\ handle_apply_on_self_error(Top, RolledBack(Dispatched(Top)))

-----------------------------------------------------------------------------
\* The start of a safe-dispatched call that is accepted, up to the strategy:
\* approve sets the allowance, whatever it was.
Approve(token, strategy, amount) == allow' = [allow EXCEPT ![token][strategy] = amount]

ApplyOnSelfDeposits ==
  LET f == [Dispatched(Top) EXCEPT !.pc = "vault"]
  IN /\ At("dispatch")
     /\ Top.call.header = "ok"
     /\ Kind(Top) \in StrategyKinds \ {"Avnu"}
     /\ PayloadAccepted(Top.call, Kind(Top))
     /\ Approve(Asset(f), Vault(f), Assets(f))
     /\ Become(f)
     /\ UNCHANGED <<held, owned, deployed, log, reporter, applies, donated>>

ApplyOnSelfSwaps ==
  /\ At("dispatch")
  /\ Top.call.header = "ok"
  /\ Kind(Top) = "Avnu"
  /\ PayloadAccepted(Top.call, "Avnu")
  /\ Approve(Top.call.token, AvnuExchange, Top.call.amount)
  /\ Become([Dispatched(Top) EXCEPT !.pc = "swap",
                        !.sell_token_before = held[Top.call.token],
                        !.buy_token_before = held[Top.call.swap.buy]])
  /\ UNCHANGED <<held, owned, deployed, log, reporter, applies, donated>>

\* External: an ERC4626 vault takes exactly the assets and mints some shares to
\* the receiver.
VaultTakes(shares) ==
  LET f == Top
      taken == [held EXCEPT ![Asset(f)] = @ - Assets(f)]
  IN /\ InStrategy /\ f.pc # "swap" /\ ~f.settled
     /\ allow[Asset(f)][Vault(f)] >= Assets(f)
     /\ held[Asset(f)] >= Assets(f)
     /\ allow' = [allow EXCEPT ![Asset(f)][Vault(f)] = @ - Assets(f)]
     /\ IF KeepsShares(f)
        THEN held' = [taken EXCEPT ![LST(f)] = @ + shares] /\ UNCHANGED owned
        ELSE held' = taken /\ owned' = Credit(owned, f.call.eth, Vault(f), shares)
     /\ Become([f EXCEPT !.settled = TRUE, !.spent = Assets(f), !.got = shares])
     /\ UNCHANGED <<deployed, log, reporter, applies, donated>>

\* External: the exchange sells any part of what it may take, and pays some
\* amount of the bought token to the beneficiary the payload names.
ExchangeFills(sold, bought) ==
  LET f == Top
      taken == [held EXCEPT ![f.call.swap.sell] = @ - sold]
  IN /\ At("swap") /\ ~f.settled
     /\ allow[f.call.swap.sell][AvnuExchange] >= sold
     /\ held[f.call.swap.sell] >= sold
     /\ allow' = [allow EXCEPT ![f.call.swap.sell][AvnuExchange] = @ - sold]
     /\ held' = IF f.call.swap.beneficiary = Self
                THEN [taken EXCEPT ![f.call.swap.buy] = @ + bought] ELSE taken
     /\ Become([f EXCEPT !.settled = TRUE, !.spent = sold, !.got = bought])
     /\ UNCHANGED <<owned, deployed, log, reporter, applies, donated>>

\* deposit returned: for Endur, ForgeYields and Noon at once, for Troves after the
\* second deposit, Deposited is emitted and shares_amount is known.
DepositReturns ==
  LET f == Top
  IN /\ InStrategy /\ f.pc # "swap" /\ f.settled /\ ~KeepsShares(f)
     /\ log' = Append(log, Announce("Deposited", f, f.call.token, f.call.amount, Vault(f), f.got, 0))
     /\ Become([f EXCEPT !.pc = "report", !.shares = f.got])
     /\ UNCHANGED <<held, allow, owned, deployed, reporter, applies, donated>>

\* The Endur deposit of a Troves request returned lst_amount: it is deposited on.
TrovesDepositsLST ==
  LET f == Top
      g == [f EXCEPT !.pc = "troves", !.lst = f.got, !.settled = FALSE, !.spent = 0, !.got = 0]
  IN /\ At("vault") /\ f.settled /\ KeepsShares(f)
     /\ Approve(Asset(g), Vault(g), Assets(g))
     /\ Become(g)
     /\ UNCHANGED <<held, owned, deployed, log, reporter, applies, donated>>

(***************************************************************************)
(* multi_route_swap returned true.  What was gained and what was sold are  *)
(* read off the balances, in this order: the gained tokens leave before    *)
(* the sell balance is read again.                                         *)
(***************************************************************************)
Gained(f) == held[f.call.swap.buy] - f.buy_token_before
AfterBuy(f) == [held EXCEPT ![f.call.swap.buy] = @ - Gained(f)]
Used(f) == f.sell_token_before - AfterBuy(f)[f.call.token]

\* Mutant: what is not sold is the balance, not the part of the amount that is left.
WholeBalance(f) == AfterBuy(f)[f.call.token]

Refund(f) == f.call.amount - Used(f)

\* Mutants: unchecked arithmetic; the minimum compared with the balance.
UncheckedSwap(f) == TRUE
MinimumOfBalance(f) ==
  /\ Gained(f) >= 0 /\ held[f.call.swap.buy] >= f.call.swap.min
  /\ Used(f) >= 0
  /\ Refund(f) >= 0

\* No u256 subtraction underflows and the minimum is met; otherwise it panics
\* (StrategyFails).
SwapChecks(f) ==
  /\ Gained(f) >= 0 /\ Gained(f) >= f.call.swap.min
  /\ Used(f) >= 0
  /\ Refund(f) >= 0

\* Mutant: the allowance is left as the exchange left it.
KeepAllowance(f) == UNCHANGED allow

\* The allowance is taken back when part of it was not used.
ResetAllowance(f) ==
  IF Refund(f) > 0 THEN Approve(f.call.token, AvnuExchange, 0) ELSE UNCHANGED allow

SwapReturns ==
  LET f == Top
      sell == f.call.token
      buy == f.call.swap.buy
  IN /\ At("swap") /\ f.settled
     /\ SwapChecks(f)
     /\ AfterBuy(f)[sell] >= Refund(f)
     /\ held' = [AfterBuy(f) EXCEPT ![sell] = @ - Refund(f)]
     /\ owned' = Credit(Credit(owned, f.call.eth, buy, Gained(f)), f.call.eth, sell, Refund(f))
     /\ ResetAllowance(f)
     /\ log' = Append(log, Announce("MultiRouteSwap", f, sell, Used(f), buy, Gained(f), Refund(f)))
     /\ Become([f EXCEPT !.pc = "report", !.shares = Gained(f)])
     /\ UNCHANGED <<deployed, reporter, applies, donated>>

\* report_action, and with it apply_on_self and apply, return.
Out(f) == IF Kind(f) = "Avnu" THEN f.call.swap.buy ELSE strategy_address(Kind(f), f.call.token)

\* Mutant: the order reports what the exchange paid, not what was gained.
ReportGross ==
  LET f == Top
  IN /\ At("report")
     /\ log' = IF reporter = Zero THEN log
               ELSE Append(log, Announce("OrderCreated", f, f.call.token, f.call.amount,
                                         Out(f), f.got, 0))
     /\ Pop
     /\ UNCHANGED <<held, allow, owned, deployed, reporter, applies, donated>>

ReportAction ==
  LET f == Top
  IN /\ At("report")
     /\ log' = IF reporter = Zero THEN log
               ELSE Append(log, Announce("OrderCreated", f, f.call.token, f.call.amount,
                                         Out(f), f.shares, 0))
     /\ Pop
     /\ UNCHANGED <<held, allow, owned, deployed, reporter, applies, donated>>

\* A panic below the safe dispatcher: the strategy reverts or returns false, an
\* assertion on its result fails, or the reporter reverts.
StrategyFails ==
  /\ InStrategy \/ (At("report") /\ reporter # Zero)
  /\ handle_apply_on_self_error(Top, RolledBack(Top))

-----------------------------------------------------------------------------
\* The app governor sets the reporter in a transaction of its own.
SetEarnReporter(r) ==
  /\ stack = <<>>
  /\ reporter' = r
  /\ UNCHANGED <<held, allow, owned, deployed, log, stack, applies, donated>>

\* Anyone may send the contract tokens.
Donate(t) ==
  /\ stack = <<>>
  /\ donated[t] < MaxDonated
  /\ donated' = [donated EXCEPT ![t] = @ + 1]
  /\ held' = [held EXCEPT ![t] = @ + 1]
  /\ UNCHANGED <<allow, owned, deployed, log, stack, reporter, applies>>

Next ==
  \/ \E call \in Calls : Apply(call)
  \/ ApplyDeploysAccount
  \/ ApplyPanics
  \/ ApplyOnSelfRefuses
  \/ ApplyOnSelfDeposits
  \/ ApplyOnSelfSwaps
  \/ \E shares \in Outputs : VaultTakes(shares)
  \/ /\ At("swap")
     /\ \E sold \in 0..allow[Top.call.token][AvnuExchange], bought \in Outputs :
          ExchangeFills(sold, bought)
  \/ DepositReturns
  \/ TrovesDepositsLST
  \/ SwapReturns
  \/ ReportAction
  \/ StrategyFails
  \/ \E r \in Reporters \cup {Zero} : SetEarnReporter(r)
  \/ \E t \in Donatable : Donate(t)

Spec == Init /\ [][Next]_vars

-----------------------------------------------------------------------------
(***************************************************************************)
(* Properties.                                                             *)
(***************************************************************************)

TypeOK ==
  /\ held \in [Tokens -> Nat]
  /\ allow \in [Tokens -> [StrategyAddresses -> Nat]]
  /\ owned \in [EthAddresses -> [Tokens -> Nat]]
  /\ deployed \in SUBSET EthAddresses
  /\ log \in Seq(Event)
  /\ stack \in Seq(Frame)
  /\ reporter \in Reporters \cup {Zero}
  /\ applies \in Nat
  /\ donated \in [Tokens -> Nat]

\* What an invocation has in the contract's balance: the tokens pulled from its
\* caller until a strategy takes them, the LST between the two Troves deposits,
\* what the exchange has paid and SwapReturns has not passed on.
Holding(f, t) ==
  (IF t = f.call.token /\ f.pc \in {"header", "dispatch", "vault", "swap"}
   THEN f.call.amount - f.spent ELSE 0)
  + (IF KeepsShares(f) /\ t = LST(f) THEN f.got ELSE 0)
  + (IF f.pc = "troves" /\ t = LST(f) THEN f.lst - f.spent ELSE 0)
  + (IF f.pc = "swap" /\ t = f.call.swap.buy THEN f.got ELSE 0)

\* The balance an invocation left when it was interrupted by the next one.
HeldAt(i) == IF i = Len(stack) THEN held ELSE stack[i + 1].entry.held

\* Every token of the contract is accounted for at every step: outside apply it
\* holds exactly what was sent to it, and inside each invocation exactly that
\* invocation's tokens on top of what was there when it was called.  No nested
\* call, failure or refund spends another invocation's tokens or leaves any behind.
Custody ==
  /\ stack = <<>> => held = donated
  /\ stack # <<>> => stack[1].entry.held = donated
  /\ \A i \in 1..Len(stack), t \in Tokens :
        HeldAt(i)[t] = stack[i].entry.held[t] + Holding(stack[i], t)

\* The refund of handle_apply_on_self_result is always covered: in the state a
\* failed call rolls back to, the contract "must still hold at least `amount`"
\* over what it held when apply was called.
RefundFunded ==
  \A i \in 1..Len(stack) : stack[i].pc \in {"vault", "troves", "swap", "report"} =>
    LET f == stack[i]
    IN f.rescue.held = [f.entry.held EXCEPT ![f.call.token] = @ + f.call.amount]

\* No strategy keeps an allowance once a transaction is over, whatever part of it
\* was used and however calls on the same strategy were nested.
NoStandingAllowance ==
  stack = <<>> => \A t \in Tokens, s \in StrategyAddresses : allow[t][s] = 0

\* Tokens are never credited to an address whose account is not deployed: a
\* rollback of the strategy call does not take the account away.
OwnersDeployed ==
  \A e \in EthAddresses, t \in Tokens : owned[e][t] > 0 => e \in deployed

\* What the point a frame has reached says of its request and of its strategy
\* call: the part of the inductive invariant that no balance enters.
Accepted(f) ==
  /\ f.pc \in {"vault", "troves", "swap", "report"} =>
       Kind(f) \in StrategyKinds /\ PayloadAccepted(f.call, Kind(f))
  /\ f.pc \in {"vault", "troves"} => Kind(f) # "Avnu"
  /\ f.pc = "troves" => Kind(f) = "Troves"
  /\ f.pc = "swap" => Kind(f) = "Avnu"
  /\ f.pc \in {"header", "dispatch"} => ~f.settled
  /\ ~f.settled => f.spent = 0 /\ f.got = 0
  /\ f.pc \in {"vault", "troves"} /\ f.settled => f.spent = Assets(f)

AllAccepted(frames) == \A i \in 1..Len(frames) : Accepted(frames[i])

FramesOK == AllAccepted(stack)
=============================================================================
