-------------------- MODULE StrategyImplementationProofs --------------------
(***************************************************************************)
(* Proofs about StrategyImplementation for every value of its constants:   *)
(* any tokens, vaults, requests, amounts, numbers and depths of nesting.   *)
(* First the types, what the contract holds and refunds (TypeOK, Custody,  *)
(* RefundFunded).  Custody alone is not inductive: a failed call sets the  *)
(* balances to a state a frame saved, and a swap subtracts balances a      *)
(* frame read before the exchange ran.  FundsOK says what both are worth.  *)
(*                                                                         *)
(* Then what a transaction leaves: allowances (NoStandingAllowance),       *)
(* tokens of the owners (OwnersDeployed, SlippageRespected), events        *)
(* (OneOutcome, OrdersBacked, AllOrNothing) and their sums                 *)
(* (EventsReconcile, FundsPassThrough).  Each compares the state an        *)
(* invocation leaves with the one it was called in, so the invariants are  *)
(* about levels of the stack: what an invocation sees is the present       *)
(* state, or the one the next invocation was called in.                    *)
(***************************************************************************)
EXTENDS StrategyImplementationProperties, SequenceTheorems, FiniteSetTheorems, FiniteSums, TLAPS

-----------------------------------------------------------------------------
(* The three things a step does to a stack.                                *)

LEMMA PushStack ==
  ASSUME NEW S, NEW s \in Seq(S), NEW f \in S
  PROVE  /\ Append(s, f) \in Seq(S)
         /\ Len(Append(s, f)) = Len(s) + 1
         /\ \A i \in 1..Len(s) : Append(s, f)[i] = s[i]
         /\ Append(s, f)[Len(s) + 1] = f
  OBVIOUS

LEMMA PopStack ==
  ASSUME NEW S, NEW s \in Seq(S), s # <<>>
  PROVE  /\ Len(s) \in Nat \ {0}
         /\ s[Len(s)] \in S
         /\ SubSeq(s, 1, Len(s) - 1) \in Seq(S)
         /\ Len(SubSeq(s, 1, Len(s) - 1)) = Len(s) - 1
         /\ \A i \in 1..(Len(s) - 1) : SubSeq(s, 1, Len(s) - 1)[i] = s[i]
<1>1. Len(s) \in Nat \ {0} /\ s[Len(s)] \in S
  OBVIOUS
<1> DEFINE n == Len(s) - 1
<1>2. n \in Nat /\ n = Len(s) - 1
  BY <1>1
<1> HIDE DEF n
<1>3. SubSeq(s, 1, n) \in Seq(S) /\ Len(SubSeq(s, 1, n)) = n
  BY <1>2
<1>4. \A i \in 1..n : SubSeq(s, 1, n)[i] = s[i]
  BY <1>2
<1>5. QED
  BY <1>1, <1>3, <1>4 DEF n

LEMMA UpdateTop ==
  ASSUME NEW S, NEW s \in Seq(S), s # <<>>, NEW f \in S
  PROVE  /\ [s EXCEPT ![Len(s)] = f] \in Seq(S)
         /\ Len([s EXCEPT ![Len(s)] = f]) = Len(s)
         /\ \A i \in 1..(Len(s) - 1) : [s EXCEPT ![Len(s)] = f][i] = s[i]
         /\ [s EXCEPT ![Len(s)] = f][Len(s)] = f
         /\ [s EXCEPT ![Len(s)] = f] # <<>>
  OBVIOUS

-----------------------------------------------------------------------------
(* Routing: a kind other than AVNU is only returned for a supported token, *)
(* and its strategy is then one of the vaults.                             *)
LEMMA RoutedToVault ==
  ASSUME NEW protocol, NEW token,
         strategy_kind(protocol, token) \in StrategyKinds \ {"Avnu"}
  PROVE  /\ token \in Wrappers
         /\ Endur[token] \in VaultAddresses
         /\ strategy_address(strategy_kind(protocol, token), token) \in VaultAddresses
  BY RoutingAssumption
  DEF strategy_kind, strategy_address, StrategyKinds, VaultAddresses


-----------------------------------------------------------------------------
(* Types of what the actions compute.                                      *)

LEMMA CallTyped ==
  ASSUME NEW f \in Frame
  PROVE  /\ f.call \in Calls
         /\ f.call.token \in Tokens
         /\ f.call.amount \in Nat
         /\ f.call.eth \in EthAddresses
         /\ f.call.swap.sell \in Tokens
         /\ f.call.swap.buy \in Tokens
         /\ f.call.swap.min \in Nat
         /\ f.entry \in World
         /\ f.rescue \in World
  BY StrategyAssumption DEF Frame, Call, SwapParameters

LEMMA DepositTyped ==
  ASSUME NEW f \in Frame, Accepted(f), f.pc \in {"vault", "troves"}
  PROVE  /\ Asset(f) \in Tokens
         /\ Assets(f) \in Nat
         /\ Vault(f) \in VaultAddresses
         /\ LST(f) \in Tokens
<1>1. Kind(f) \in StrategyKinds \ {"Avnu"}
  BY DEF Accepted
<1>2. LST(f) \in VaultAddresses /\ strategy_address(Kind(f), f.call.token) \in VaultAddresses
  BY <1>1, RoutedToVault DEF Kind, LST
<1>3. f.lst \in Nat
  BY DEF Frame
<1>4. QED
  BY <1>2, <1>3, CallTyped, StrategyAssumption DEF Asset, Assets, Vault

LEMMA VaultsAreTokens ==
  ASSUME NEW v \in VaultAddresses
  PROVE  v \in Tokens /\ v \in StrategyAddresses
  BY StrategyAssumption DEF StrategyAddresses

LEMMA TopTyped ==
  ASSUME TypeOK, FramesOK, stack # <<>>
  PROVE  /\ Top \in Frame
         /\ Accepted(Top)
         /\ Len(stack) \in Nat \ {0}
  BY PopStack DEF TypeOK, FramesOK, AllAccepted, Top

LEMMA NowTyped ==
  ASSUME TypeOK
  PROVE  Now \in World
  BY DEF TypeOK, Now, World

LEMMA UpdateAccepted ==
  ASSUME NEW s \in Seq(Frame), s # <<>>, AllAccepted(s), NEW f \in Frame, Accepted(f)
  PROVE  /\ [s EXCEPT ![Len(s)] = f] \in Seq(Frame)
         /\ AllAccepted([s EXCEPT ![Len(s)] = f])
<1>1. Len(s) \in Nat \ {0}
  BY PopStack
<1>2. \A i \in 1..(Len(s) - 1) : Accepted(s[i])
  BY <1>1 DEF AllAccepted
<1>3. QED
  BY <1>1, <1>2, UpdateTop DEF AllAccepted

LEMMA PopAccepted ==
  ASSUME NEW s \in Seq(Frame), s # <<>>, AllAccepted(s)
  PROVE  /\ SubSeq(s, 1, Len(s) - 1) \in Seq(Frame)
         /\ AllAccepted(SubSeq(s, 1, Len(s) - 1))
  BY PopStack DEF AllAccepted

LEMMA PushAccepted ==
  ASSUME NEW s \in Seq(Frame), AllAccepted(s), NEW f \in Frame, Accepted(f)
  PROVE  /\ Append(s, f) \in Seq(Frame)
         /\ AllAccepted(Append(s, f))
<1>1. Len(s) \in Nat
  OBVIOUS
<1>2. QED
  BY <1>1, PushStack DEF AllAccepted

-----------------------------------------------------------------------------
(* Type correctness.                                                       *)

LEMMA CreditTyped ==
  ASSUME NEW l \in [EthAddresses -> [Tokens -> Nat]],
         NEW e \in EthAddresses, NEW t \in Tokens, NEW n \in Nat
  PROVE  Credit(l, e, t, n) \in [EthAddresses -> [Tokens -> Nat]]
  BY DEF Credit

LEMMA ApproveTyped ==
  ASSUME NEW a \in [Tokens -> [StrategyAddresses -> Nat]],
         NEW t \in Tokens, NEW s \in StrategyAddresses, NEW n \in Nat
  PROVE  [a EXCEPT ![t][s] = n] \in [Tokens -> [StrategyAddresses -> Nat]]
  OBVIOUS

LEMMA AnnounceTyped ==
  ASSUME NEW f \in Frame, NEW l \in Seq(Event),
         NEW type \in {"Deposited", "MultiRouteSwap", "ApplyFailed", "OrderCreated"},
         NEW t \in Tokens, NEW n \in Nat, NEW o \in Tokens, NEW g \in Nat, NEW r \in Nat
  PROVE  Append(l, Announce(type, f, t, n, o, g, r)) \in Seq(Event)
<1>1. f.id \in Nat /\ f.call.eth \in EthAddresses
  BY CallTyped DEF Frame
<1>2. Announce(type, f, t, n, o, g, r) \in Event
  BY <1>1 DEF Announce, Event
<1>3. QED
  BY <1>2

LEMMA RevertTyped ==
  ASSUME TypeOK, FramesOK, stack # <<>>, RevertApply(Top)
  PROVE  TypeOK' /\ FramesOK'
<1>1. Top.entry \in World
  BY TopTyped, CallTyped
<1>2. stack' \in Seq(Frame) /\ AllAccepted(stack')
  BY PopAccepted DEF RevertApply, Pop, TypeOK, FramesOK
<1>3. QED
  BY <1>1, <1>2 DEF RevertApply, World, TypeOK, FramesOK

LEMMA ErrorTyped ==
  ASSUME TypeOK, FramesOK, stack # <<>>, NEW w \in World, handle_apply_on_self_error(Top, w)
  PROVE  TypeOK' /\ FramesOK'
<1> DEFINE token == Top.call.token
           amount == Top.call.amount
<1>1. Top \in Frame /\ token \in Tokens /\ amount \in Nat /\ Top.call.eth \in EthAddresses
  BY TopTyped, CallTyped
<1>2. CASE w.held[token] >= amount
  <2>1. w.held \in [Tokens -> Nat] /\ w.owned \in [EthAddresses -> [Tokens -> Nat]]
        /\ w.allow \in [Tokens -> [StrategyAddresses -> Nat]]
        /\ w.deployed \in SUBSET EthAddresses /\ w.log \in Seq(Event)
    BY DEF World
  <2>2. held' \in [Tokens -> Nat]
    <3>1. held' = [w.held EXCEPT ![token] = @ - amount]
      BY <1>2 DEF handle_apply_on_self_error
    <3>2. w.held[token] - amount \in Nat
      BY <1>1, <1>2, <2>1
    <3>3. QED
      BY <2>1, <3>1, <3>2
  <2>3. owned' \in [EthAddresses -> [Tokens -> Nat]]
    <3>1. owned' = Credit(w.owned, Top.call.eth, token, amount)
      BY <1>2 DEF handle_apply_on_self_error
    <3>2. QED
      BY <1>1, <2>1, <3>1, CreditTyped
  <2>4. log' \in Seq(Event)
    <3>1. Append(w.log, Announce("ApplyFailed", Top, token, amount, token, 0, amount)) \in Seq(Event)
      BY <1>1, <2>1, AnnounceTyped
    <3>2. QED
      BY <1>2, <3>1 DEF handle_apply_on_self_error
  <2>5. stack' \in Seq(Frame) /\ AllAccepted(stack')
    BY <1>2, PopAccepted DEF handle_apply_on_self_error, Pop, TypeOK, FramesOK
  <2>6. QED
    BY <1>2, <2>1, <2>2, <2>3, <2>4, <2>5 DEF handle_apply_on_self_error, TypeOK, FramesOK
<1>3. CASE ~(w.held[token] >= amount)
  BY <1>3, RevertTyped DEF handle_apply_on_self_error
<1>4. QED
  BY <1>2, <1>3

LEMMA ApplyTyped ==
  ASSUME TypeOK, FramesOK, NEW call \in Calls, Apply(call)
  PROVE  TypeOK' /\ FramesOK'
<1> DEFINE f == [id |-> applies, call |-> call, pc |-> "header", entry |-> Now, rescue |-> Now,
                 settled |-> FALSE, spent |-> 0, got |-> 0, lst |-> 0,
                 sell_token_before |-> 0, buy_token_before |-> 0, shares |-> 0]
<1>1. call.token \in Tokens /\ call.amount \in Nat
  BY StrategyAssumption DEF Call
<1>2. f \in Frame
  BY NowTyped DEF Frame, TypeOK
<1>3. Accepted(f)
  BY DEF Accepted
<1>4. stack' = Append(stack, f)
  BY DEF Apply
<1>5. stack' \in Seq(Frame) /\ AllAccepted(stack')
  <2> HIDE DEF f
  <2>1. QED
    BY <1>2, <1>3, <1>4, PushAccepted DEF TypeOK, FramesOK
<1>6. held' \in [Tokens -> Nat]
  BY <1>1 DEF Apply, TypeOK
<1>7. applies' \in Nat
  BY DEF Apply, TypeOK
<1>8. QED
  BY <1>5, <1>6, <1>7 DEF Apply, TypeOK, FramesOK

LEMMA DeployTyped ==
  ASSUME TypeOK, FramesOK, ApplyDeploysAccount
  PROVE  TypeOK' /\ FramesOK'
<1>1. stack # <<>> /\ Top.pc = "header"
  BY DEF ApplyDeploysAccount, At
<1>2. Top \in Frame /\ Accepted(Top)
  BY <1>1, TopTyped
<1>3. [Top EXCEPT !.pc = "dispatch"] \in Frame /\ Accepted([Top EXCEPT !.pc = "dispatch"])
  BY <1>1, <1>2 DEF Frame, Accepted
<1>4. stack' = [stack EXCEPT ![Len(stack)] = [Top EXCEPT !.pc = "dispatch"]]
  BY DEF ApplyDeploysAccount, Become
<1>5. stack' \in Seq(Frame) /\ AllAccepted(stack')
  BY <1>1, <1>3, <1>4, UpdateAccepted DEF TypeOK, FramesOK
<1>6. Top.call.eth \in EthAddresses
  BY <1>2, CallTyped
<1>7. QED
  BY <1>5, <1>6 DEF ApplyDeploysAccount, TypeOK, FramesOK

LEMMA DispatchedTyped ==
  ASSUME TypeOK, FramesOK, stack # <<>>
  PROVE  /\ Dispatched(Top) \in Frame
         /\ Dispatched(Top).rescue \in World
         /\ Dispatched(Top).call = Top.call
         /\ Dispatched(Top).pc = Top.pc
         /\ Accepted(Dispatched(Top))
  BY TopTyped, NowTyped DEF Dispatched, Frame, Accepted, Kind, Assets

LEMMA DepositsTyped ==
  ASSUME TypeOK, FramesOK, ApplyOnSelfDeposits
  PROVE  TypeOK' /\ FramesOK'
<1> DEFINE f == [Dispatched(Top) EXCEPT !.pc = "vault"]
<1>1. stack # <<>> /\ Top.pc = "dispatch" /\ Kind(Top) \in StrategyKinds \ {"Avnu"}
      /\ PayloadAccepted(Top.call, Kind(Top))
  BY DEF ApplyOnSelfDeposits, At
<1>2. f \in Frame /\ f.pc = "vault" /\ f.call = Top.call
  BY <1>1, DispatchedTyped DEF Frame
<1>3. Accepted(f)
  <2>1. ~f.settled /\ f.spent = 0 /\ f.got = 0 /\ Kind(f) = Kind(Top)
    BY <1>1, <1>2, TopTyped DEF Accepted, Dispatched, Frame, Kind
  <2>2. QED
    BY <1>1, <1>2, <2>1 DEF Accepted
<1>4. Asset(f) \in Tokens /\ Assets(f) \in Nat /\ Vault(f) \in StrategyAddresses
  BY <1>2, <1>3, DepositTyped, VaultsAreTokens
<1>5. stack' = [stack EXCEPT ![Len(stack)] = f] /\ allow' = [allow EXCEPT ![Asset(f)][Vault(f)] = Assets(f)]
  BY DEF ApplyOnSelfDeposits, Become, Approve
<1> HIDE DEF f
<1>6. stack' \in Seq(Frame) /\ AllAccepted(stack')
  BY <1>1, <1>2, <1>3, <1>5, UpdateAccepted DEF TypeOK, FramesOK
<1>7. allow' \in [Tokens -> [StrategyAddresses -> Nat]]
  BY <1>4, <1>5 DEF TypeOK
<1>8. QED
  BY <1>6, <1>7 DEF ApplyOnSelfDeposits, TypeOK, FramesOK

LEMMA SwapsTyped ==
  ASSUME TypeOK, FramesOK, ApplyOnSelfSwaps
  PROVE  TypeOK' /\ FramesOK'
<1> DEFINE f == [Dispatched(Top) EXCEPT !.pc = "swap",
                    !.sell_token_before = held[Top.call.token],
                    !.buy_token_before = held[Top.call.swap.buy]]
<1>1. stack # <<>> /\ Top.pc = "dispatch" /\ Kind(Top) = "Avnu"
      /\ PayloadAccepted(Top.call, Kind(Top))
  BY DEF ApplyOnSelfSwaps, At
<1>2. Top.call.token \in Tokens /\ Top.call.amount \in Nat /\ Top.call.swap.buy \in Tokens
  BY <1>1, TopTyped, CallTyped
<1>3. held[Top.call.token] \in Nat /\ held[Top.call.swap.buy] \in Nat
  BY <1>2 DEF TypeOK
<1>4. f \in Frame /\ f.pc = "swap" /\ f.call = Top.call
  BY <1>1, <1>3, DispatchedTyped DEF Frame
<1>5. Accepted(f)
  <2>1. ~f.settled /\ f.spent = 0 /\ f.got = 0 /\ Kind(f) = Kind(Top)
    BY <1>1, <1>4, TopTyped DEF Accepted, Dispatched, Frame, Kind
  <2>2. QED
    BY <1>1, <1>4, <2>1 DEF Accepted, StrategyKinds
<1>6. /\ stack' = [stack EXCEPT ![Len(stack)] = f]
      /\ allow' = [allow EXCEPT ![Top.call.token][AvnuExchange] = Top.call.amount]
  BY DEF ApplyOnSelfSwaps, Become, Approve
<1> HIDE DEF f
<1>7. stack' \in Seq(Frame) /\ AllAccepted(stack')
  BY <1>1, <1>4, <1>5, <1>6, UpdateAccepted DEF TypeOK, FramesOK
<1>8. allow' \in [Tokens -> [StrategyAddresses -> Nat]]
  BY <1>2, <1>6 DEF TypeOK, StrategyAddresses
<1>9. QED
  BY <1>7, <1>8 DEF ApplyOnSelfSwaps, TypeOK, FramesOK

LEMMA VaultTyped ==
  ASSUME TypeOK, FramesOK, NEW shares \in Outputs, VaultTakes(shares)
  PROVE  TypeOK' /\ FramesOK'
<1> DEFINE f == Top
           g == [f EXCEPT !.settled = TRUE, !.spent = Assets(f), !.got = shares]
<1>1. stack # <<>> /\ f.pc \in {"vault", "troves"} /\ held[Asset(f)] >= Assets(f)
      /\ allow[Asset(f)][Vault(f)] >= Assets(f)
  BY DEF VaultTakes, InStrategy
<1>2. f \in Frame /\ Accepted(f) /\ f.call.eth \in EthAddresses
  BY <1>1, TopTyped, CallTyped
<1>3. /\ Asset(f) \in Tokens /\ Assets(f) \in Nat /\ LST(f) \in Tokens
      /\ Vault(f) \in Tokens /\ Vault(f) \in StrategyAddresses /\ shares \in Nat
  BY <1>1, <1>2, DepositTyped, VaultsAreTokens, StrategyAssumption
<1>4. g \in Frame /\ Accepted(g)
  <2>1. g \in Frame /\ g.settled /\ g.pc = f.pc /\ g.call = f.call /\ g.lst = f.lst
        /\ g.spent = Assets(f)
    BY <1>2, <1>3 DEF Frame
  <2>2. Kind(g) = Kind(f) /\ Assets(g) = Assets(f)
    BY <2>1 DEF Kind, Assets
  <2>3. QED
    BY <1>1, <1>2, <2>1, <2>2 DEF Accepted
<1>5. stack' = [stack EXCEPT ![Len(stack)] = g]
  BY DEF VaultTakes, Become
<1>6. stack' \in Seq(Frame) /\ AllAccepted(stack')
  <2> HIDE DEF g
  <2>1. QED
    BY <1>1, <1>4, <1>5, UpdateAccepted DEF TypeOK, FramesOK
<1>7. allow' \in [Tokens -> [StrategyAddresses -> Nat]]
  <2>1. allow' = [allow EXCEPT ![Asset(f)][Vault(f)] = @ - Assets(f)]
    BY DEF VaultTakes
  <2>2. allow[Asset(f)][Vault(f)] - Assets(f) \in Nat
    BY <1>1, <1>3 DEF TypeOK
  <2>3. QED
    BY <1>3, <2>1, <2>2 DEF TypeOK
<1>8. held' \in [Tokens -> Nat] /\ owned' \in [EthAddresses -> [Tokens -> Nat]]
  <2> DEFINE taken == [held EXCEPT ![Asset(f)] = @ - Assets(f)]
  <2>1. taken \in [Tokens -> Nat]
    <3>1. held[Asset(f)] - Assets(f) \in Nat
      BY <1>1, <1>3 DEF TypeOK
    <3>2. QED
      BY <1>3, <3>1 DEF TypeOK
  <2>2. CASE KeepsShares(f)
    <3>1. held' = [taken EXCEPT ![LST(f)] = @ + shares] /\ owned' = owned
      BY <2>2 DEF VaultTakes
    <3> HIDE DEF taken
    <3>2. QED
      BY <1>3, <2>1, <3>1 DEF TypeOK
  <2>3. CASE ~KeepsShares(f)
    <3>1. held' = taken /\ owned' = Credit(owned, f.call.eth, Vault(f), shares)
      BY <2>3 DEF VaultTakes
    <3>2. QED
      BY <1>2, <1>3, <2>1, <3>1, CreditTyped DEF TypeOK
  <2>4. QED
    BY <2>2, <2>3
<1>9. QED
  BY <1>6, <1>7, <1>8 DEF VaultTakes, TypeOK, FramesOK

LEMMA ExchangeTyped ==
  ASSUME TypeOK, FramesOK, NEW sold \in Nat, NEW bought \in Outputs, ExchangeFills(sold, bought)
  PROVE  TypeOK' /\ FramesOK'
<1> DEFINE f == Top
           sell == f.call.swap.sell
           buy == f.call.swap.buy
           g == [f EXCEPT !.settled = TRUE, !.spent = sold, !.got = bought]
<1>1. stack # <<>> /\ f.pc = "swap" /\ held[sell] >= sold /\ allow[sell][AvnuExchange] >= sold
  BY DEF ExchangeFills, At
<1>2. f \in Frame /\ Accepted(f) /\ sell \in Tokens /\ buy \in Tokens /\ bought \in Nat
  BY <1>1, TopTyped, CallTyped, StrategyAssumption
<1>3. g \in Frame /\ Accepted(g)
  <2>1. g \in Frame /\ g.settled /\ g.pc = f.pc /\ g.call = f.call
    BY <1>2 DEF Frame
  <2>2. Kind(g) = Kind(f)
    BY <2>1 DEF Kind
  <2>3. QED
    BY <1>1, <1>2, <2>1, <2>2 DEF Accepted
<1>4. stack' = [stack EXCEPT ![Len(stack)] = g]
  BY DEF ExchangeFills, Become
<1>5. stack' \in Seq(Frame) /\ AllAccepted(stack')
  <2> HIDE DEF g
  <2>1. QED
    BY <1>1, <1>3, <1>4, UpdateAccepted DEF TypeOK, FramesOK
<1>6. allow' \in [Tokens -> [StrategyAddresses -> Nat]]
  <2>1. allow' = [allow EXCEPT ![sell][AvnuExchange] = @ - sold]
    BY DEF ExchangeFills
  <2>2. AvnuExchange \in StrategyAddresses
    BY DEF StrategyAddresses
  <2>3. allow[sell][AvnuExchange] - sold \in Nat
    BY <1>1, <1>2, <2>2 DEF TypeOK
  <2>4. QED
    BY <1>2, <2>1, <2>2, <2>3 DEF TypeOK
<1>7. held' \in [Tokens -> Nat]
  <2> DEFINE taken == [held EXCEPT ![sell] = @ - sold]
  <2>1. taken \in [Tokens -> Nat]
    <3>1. held[sell] - sold \in Nat
      BY <1>1, <1>2 DEF TypeOK
    <3>2. QED
      BY <1>2, <3>1 DEF TypeOK
  <2>2. held' = taken \/ held' = [taken EXCEPT ![buy] = @ + bought]
    BY DEF ExchangeFills
  <2> HIDE DEF taken
  <2>3. QED
    BY <1>2, <2>1, <2>2
<1>8. QED
  BY <1>5, <1>6, <1>7 DEF ExchangeFills, TypeOK, FramesOK

LEMMA DepositReturnsTyped ==
  ASSUME TypeOK, FramesOK, DepositReturns
  PROVE  TypeOK' /\ FramesOK'
<1> DEFINE f == Top
           g == [f EXCEPT !.pc = "report", !.shares = f.got]
<1>1. stack # <<>> /\ f.pc \in {"vault", "troves"}
  BY DEF DepositReturns, InStrategy
<1>2. f \in Frame /\ Accepted(f) /\ f.call.token \in Tokens /\ f.call.amount \in Nat /\ f.got \in Nat
  BY <1>1, TopTyped, CallTyped DEF Frame
<1>3. Vault(f) \in Tokens
  BY <1>1, <1>2, DepositTyped, VaultsAreTokens
<1>4. g \in Frame /\ Accepted(g)
  <2>1. g \in Frame /\ g.pc = "report" /\ g.call = f.call /\ g.settled = f.settled
        /\ g.spent = f.spent /\ g.got = f.got
    BY <1>2 DEF Frame
  <2>2. Kind(g) = Kind(f)
    BY <2>1 DEF Kind
  <2>3. QED
    BY <1>1, <1>2, <2>1, <2>2 DEF Accepted
<1>5. /\ stack' = [stack EXCEPT ![Len(stack)] = g]
      /\ log' = Append(log, Announce("Deposited", f, f.call.token, f.call.amount, Vault(f), f.got, 0))
  BY DEF DepositReturns, Become
<1>6. stack' \in Seq(Frame) /\ AllAccepted(stack')
  <2> HIDE DEF g
  <2>1. QED
    BY <1>1, <1>4, <1>5, UpdateAccepted DEF TypeOK, FramesOK
<1>7. log' \in Seq(Event)
  BY <1>2, <1>3, <1>5, AnnounceTyped DEF TypeOK
<1>8. QED
  BY <1>6, <1>7 DEF DepositReturns, TypeOK, FramesOK

LEMMA TrovesTyped ==
  ASSUME TypeOK, FramesOK, TrovesDepositsLST
  PROVE  TypeOK' /\ FramesOK'
<1> DEFINE f == Top
           g == [f EXCEPT !.pc = "troves", !.lst = f.got, !.settled = FALSE, !.spent = 0, !.got = 0]
<1>1. stack # <<>> /\ f.pc = "vault" /\ Kind(f) = "Troves"
  BY DEF TrovesDepositsLST, At, KeepsShares
<1>2. f \in Frame /\ Accepted(f)
  BY <1>1, TopTyped
<1>3. g \in Frame /\ g.pc = "troves" /\ g.call = f.call /\ g.spent = 0 /\ g.got = 0 /\ ~g.settled
  BY <1>2 DEF Frame
<1>4. Kind(g) = Kind(f)
  BY <1>3 DEF Kind
<1>5. Accepted(g)
  BY <1>1, <1>2, <1>3, <1>4 DEF Accepted
<1>6. /\ stack' = [stack EXCEPT ![Len(stack)] = g]
      /\ allow' = [allow EXCEPT ![Asset(g)][Vault(g)] = Assets(g)]
  BY DEF TrovesDepositsLST, Become, Approve
<1> HIDE DEF g
<1>7. stack' \in Seq(Frame) /\ AllAccepted(stack')
  BY <1>1, <1>3, <1>5, <1>6, UpdateAccepted DEF TypeOK, FramesOK
<1>8. Asset(g) \in Tokens /\ Assets(g) \in Nat /\ Vault(g) \in StrategyAddresses
  BY <1>3, <1>5, DepositTyped, VaultsAreTokens
<1>9. allow' \in [Tokens -> [StrategyAddresses -> Nat]]
  BY <1>6, <1>8 DEF TypeOK
<1>10. QED
  BY <1>7, <1>9 DEF TrovesDepositsLST, TypeOK, FramesOK

\* What SwapReturns computes, from its checks.
LEMMA SwapArithmetic ==
  ASSUME TypeOK, NEW f \in Frame, SwapChecks(f)
  PROVE  /\ Gained(f) \in Nat /\ Used(f) \in Nat /\ Refund(f) \in Nat
         /\ AfterBuy(f) \in [Tokens -> Nat]
         /\ \A t \in Tokens : AfterBuy(f)[t] =
              IF t = f.call.swap.buy THEN f.buy_token_before ELSE held[t]
<1> DEFINE buy == f.call.swap.buy
<1>1. buy \in Tokens /\ f.call.token \in Tokens /\ f.call.amount \in Nat
      /\ f.buy_token_before \in Nat /\ f.sell_token_before \in Nat
  BY CallTyped DEF Frame
<1>2. held \in [Tokens -> Nat] /\ held[buy] \in Nat
  BY <1>1 DEF TypeOK
<1>3. Gained(f) \in Nat /\ held[buy] - Gained(f) = f.buy_token_before
  BY <1>1, <1>2 DEF SwapChecks, Gained
<1>4. AfterBuy(f) = [held EXCEPT ![buy] = f.buy_token_before]
  BY <1>3 DEF AfterBuy
<1>5. AfterBuy(f) \in [Tokens -> Nat]
      /\ \A t \in Tokens : AfterBuy(f)[t] = IF t = buy THEN f.buy_token_before ELSE held[t]
  BY <1>1, <1>2, <1>4
<1>6. Used(f) \in Nat
  <2>1. AfterBuy(f)[f.call.token] \in Nat
    BY <1>1, <1>5
  <2>2. QED
    BY <1>1, <2>1 DEF SwapChecks, Used
<1>7. Refund(f) \in Nat
  BY <1>1, <1>6 DEF SwapChecks, Refund
<1>8. QED
  BY <1>3, <1>5, <1>6, <1>7

LEMMA SwapReturnsTyped ==
  ASSUME TypeOK, FramesOK, SwapReturns
  PROVE  TypeOK' /\ FramesOK'
<1> DEFINE f == Top
           sell == f.call.token
           buy == f.call.swap.buy
           eth == f.call.eth
           g == [f EXCEPT !.pc = "report", !.shares = Gained(f)]
<1>1. stack # <<>> /\ f.pc = "swap" /\ SwapChecks(f) /\ AfterBuy(f)[sell] >= Refund(f)
  BY DEF SwapReturns, At
<1>2. f \in Frame /\ Accepted(f) /\ sell \in Tokens /\ buy \in Tokens /\ eth \in EthAddresses
  BY <1>1, TopTyped, CallTyped
<1>3. /\ Gained(f) \in Nat /\ Used(f) \in Nat /\ Refund(f) \in Nat
      /\ AfterBuy(f) \in [Tokens -> Nat]
  BY <1>1, <1>2, SwapArithmetic
<1>4. g \in Frame /\ Accepted(g)
  <2>1. g \in Frame /\ g.pc = "report" /\ g.call = f.call /\ g.settled = f.settled
        /\ g.spent = f.spent /\ g.got = f.got
    BY <1>2, <1>3 DEF Frame
  <2>2. Kind(g) = Kind(f)
    BY <2>1 DEF Kind
  <2>3. QED
    BY <1>1, <1>2, <2>1, <2>2 DEF Accepted
<1>5. /\ stack' = [stack EXCEPT ![Len(stack)] = g]
      /\ held' = [AfterBuy(f) EXCEPT ![sell] = @ - Refund(f)]
      /\ owned' = Credit(Credit(owned, eth, buy, Gained(f)), eth, sell, Refund(f))
      /\ log' = Append(log, Announce("MultiRouteSwap", f, sell, Used(f), buy, Gained(f), Refund(f)))
      /\ ResetAllowance(f)
  BY DEF SwapReturns, Become
<1>6. stack' \in Seq(Frame) /\ AllAccepted(stack')
  <2> HIDE DEF g
  <2>1. QED
    BY <1>1, <1>4, <1>5, UpdateAccepted DEF TypeOK, FramesOK
<1>7. held' \in [Tokens -> Nat]
  <2>1. AfterBuy(f)[sell] - Refund(f) \in Nat
    BY <1>1, <1>2, <1>3
  <2>2. QED
    BY <1>2, <1>3, <1>5, <2>1
<1>8. owned' \in [EthAddresses -> [Tokens -> Nat]]
  <2>1. Credit(owned, eth, buy, Gained(f)) \in [EthAddresses -> [Tokens -> Nat]]
    BY <1>2, <1>3, CreditTyped DEF TypeOK
  <2>2. QED
    BY <1>2, <1>3, <1>5, <2>1, CreditTyped
<1>9. log' \in Seq(Event)
  BY <1>2, <1>3, <1>5, AnnounceTyped DEF TypeOK
<1>10. allow' \in [Tokens -> [StrategyAddresses -> Nat]]
  <2>1. AvnuExchange \in StrategyAddresses
    BY DEF StrategyAddresses
  <2>2. allow' = allow \/ allow' = [allow EXCEPT ![sell][AvnuExchange] = 0]
    BY <1>5 DEF ResetAllowance, Approve
  <2>3. [allow EXCEPT ![sell][AvnuExchange] = 0] \in [Tokens -> [StrategyAddresses -> Nat]]
    BY <1>2, <2>1, ApproveTyped DEF TypeOK
  <2>4. QED
    BY <2>2, <2>3 DEF TypeOK
<1>11. QED
  BY <1>6, <1>7, <1>8, <1>9, <1>10 DEF SwapReturns, TypeOK, FramesOK

LEMMA ReportTyped ==
  ASSUME TypeOK, FramesOK, ReportAction
  PROVE  TypeOK' /\ FramesOK'
<1> DEFINE f == Top
<1>1. stack # <<>> /\ f.pc = "report" /\ Pop
  BY DEF ReportAction, At
<1>2. f \in Frame /\ Accepted(f) /\ f.call.token \in Tokens /\ f.call.amount \in Nat
      /\ f.call.swap.buy \in Tokens /\ f.shares \in Nat
  BY <1>1, TopTyped, CallTyped DEF Frame
<1>3. Out(f) \in Tokens
  <2>1. CASE Kind(f) = "Avnu"
    BY <1>2, <2>1 DEF Out
  <2>2. CASE Kind(f) # "Avnu"
    <3>1. Kind(f) \in StrategyKinds \ {"Avnu"}
      BY <1>1, <1>2, <2>2 DEF Accepted
    <3>2. strategy_address(Kind(f), f.call.token) \in VaultAddresses
      BY <3>1, RoutedToVault DEF Kind
    <3>3. QED
      BY <2>2, <3>2, VaultsAreTokens DEF Out
  <2>3. QED
    BY <2>1, <2>2
<1>4. log' \in Seq(Event)
  <2>1. Append(log, Announce("OrderCreated", f, f.call.token, f.call.amount, Out(f), f.shares, 0))
          \in Seq(Event)
    BY <1>2, <1>3, AnnounceTyped DEF TypeOK
  <2>2. QED
    BY <2>1 DEF ReportAction, TypeOK
<1>5. stack' \in Seq(Frame) /\ AllAccepted(stack')
  BY <1>1, PopAccepted DEF Pop, TypeOK, FramesOK
<1>6. QED
  BY <1>4, <1>5 DEF ReportAction, TypeOK, FramesOK

LEMMA DonateTyped ==
  ASSUME TypeOK, FramesOK, NEW t \in Donatable, Donate(t)
  PROVE  TypeOK' /\ FramesOK'
<1>1. t \in Tokens
  BY StrategyAssumption
<1>2. QED
  BY <1>1 DEF Donate, TypeOK, FramesOK

-----------------------------------------------------------------------------
LEMMA InitTyped == Init => TypeOK /\ FramesOK
<1> SUFFICES ASSUME Init PROVE TypeOK /\ FramesOK
  OBVIOUS
<1>1. stack \in Seq(Frame) /\ log \in Seq(Event) /\ Len(stack) = 0
  BY DEF Init
<1>2. QED
  BY <1>1 DEF Init, TypeOK, FramesOK, AllAccepted

LEMMA StepTyped == TypeOK /\ FramesOK /\ [Next]_vars => TypeOK' /\ FramesOK'
<1> SUFFICES ASSUME TypeOK, FramesOK, [Next]_vars
             PROVE  TypeOK' /\ FramesOK'
  OBVIOUS
<1>1. ASSUME NEW call \in Calls, Apply(call) PROVE TypeOK' /\ FramesOK'
  BY <1>1, ApplyTyped
<1>2. CASE ApplyDeploysAccount
  BY <1>2, DeployTyped
<1>3. CASE ApplyPanics
  BY <1>3, RevertTyped DEF ApplyPanics, At
<1>4. CASE ApplyOnSelfRefuses
  <2>1. stack # <<>> /\ handle_apply_on_self_error(Top, RolledBack(Dispatched(Top)))
    BY <1>4 DEF ApplyOnSelfRefuses, At
  <2>2. RolledBack(Dispatched(Top)) \in World
    BY <2>1, DispatchedTyped DEF RolledBack
  <2>3. QED
    BY <2>1, <2>2, ErrorTyped
<1>5. CASE ApplyOnSelfDeposits
  BY <1>5, DepositsTyped
<1>6. CASE ApplyOnSelfSwaps
  BY <1>6, SwapsTyped
<1>7. ASSUME NEW shares \in Outputs, VaultTakes(shares) PROVE TypeOK' /\ FramesOK'
  BY <1>7, VaultTyped
<1>8. ASSUME At("swap"), NEW sold \in 0..allow[Top.call.token][AvnuExchange],
             NEW bought \in Outputs, ExchangeFills(sold, bought)
      PROVE  TypeOK' /\ FramesOK'
  <2>1. Top.call.token \in Tokens
    BY <1>8, TopTyped, CallTyped DEF At
  <2>2. sold \in Nat
    BY <2>1, <1>8 DEF TypeOK, StrategyAddresses
  <2>3. QED
    BY <1>8, <2>2, ExchangeTyped
<1>9. CASE DepositReturns
  BY <1>9, DepositReturnsTyped
<1>10. CASE TrovesDepositsLST
  BY <1>10, TrovesTyped
<1>11. CASE SwapReturns
  BY <1>11, SwapReturnsTyped
<1>12. CASE ReportAction
  BY <1>12, ReportTyped
<1>13. CASE StrategyFails
  <2>1. stack # <<>> /\ handle_apply_on_self_error(Top, RolledBack(Top))
    BY <1>13 DEF StrategyFails, InStrategy, At
  <2>2. RolledBack(Top) \in World
    BY <2>1, TopTyped, CallTyped DEF RolledBack
  <2>3. QED
    BY <2>1, <2>2, ErrorTyped
<1>14. ASSUME NEW r \in Reporters \cup {Zero}, SetEarnReporter(r) PROVE TypeOK' /\ FramesOK'
  BY <1>14 DEF SetEarnReporter, TypeOK, FramesOK
<1>15. ASSUME NEW t \in Donatable, Donate(t) PROVE TypeOK' /\ FramesOK'
  BY <1>15, DonateTyped
<1>16. CASE UNCHANGED vars
  BY <1>16 DEF vars, TypeOK, FramesOK
<1>17. QED
  BY <1>1, <1>2, <1>3, <1>4, <1>5, <1>6, <1>7, <1>8, <1>9, <1>10, <1>11, <1>12, <1>13,
     <1>14, <1>15, <1>16 DEF Next

\* Type correctness: the contract's balances, allowances and amounts never go below
\* zero, events and orders only ever name known tokens and owners.
THEOREM TypeCorrect == Spec => [](TypeOK /\ FramesOK)
<1>1. Init => TypeOK /\ FramesOK
  BY InitTyped
<1>2. (TypeOK /\ FramesOK) /\ [Next]_vars => (TypeOK /\ FramesOK)'
  BY StepTyped
<1>3. QED
  BY <1>1, <1>2, PTL DEF Spec

-----------------------------------------------------------------------------
(* Custody.                                                                *)

\* What a frame has saved: the state its refund is paid from holds the amount of
\* the request on top of the state apply was called in, and the balances a swap
\* measures itself against are those of that state.
Funded(f) == f.rescue.held = [f.entry.held EXCEPT ![f.call.token] = @ + f.call.amount]

Measured(f) ==
  /\ f.sell_token_before = f.rescue.held[f.call.token]
  /\ f.buy_token_before = f.rescue.held[f.call.swap.buy]

Saved(f) ==
  /\ f.pc \in {"vault", "troves", "swap", "report"} => Funded(f)
  /\ f.pc = "swap" => Measured(f)

FundsOK == \A i \in 1..Len(stack) : Saved(stack[i])

\* The inductive invariant.
CInv == TypeOK /\ FramesOK /\ Custody /\ FundsOK

-----------------------------------------------------------------------------
(* What the three things a step does to the stack do to Custody.           *)

LEMMA TopCustody ==
  ASSUME TypeOK, Custody, FundsOK, stack # <<>>
  PROVE  /\ \A t \in Tokens : held[t] = Top.entry.held[t] + Holding(Top, t)
         /\ Saved(Top)
<1>1. Len(stack) \in Nat \ {0}
  BY PopStack DEF TypeOK
<1>2. Len(stack) \in 1..Len(stack)
  BY <1>1
<1>3. QED
  BY <1>2 DEF Custody, HeldAt, FundsOK, Top

LEMMA UpdateCustody ==
  ASSUME TypeOK, Custody, FundsOK, stack # <<>>, NEW g \in Frame,
         stack' = [stack EXCEPT ![Len(stack)] = g],
         g.entry = Top.entry, Saved(g), donated' = donated,
         \A t \in Tokens : held'[t] = g.entry.held[t] + Holding(g, t)
  PROVE  Custody' /\ FundsOK'
<1> DEFINE n == Len(stack)
<1>1. n \in Nat \ {0} /\ stack' \in Seq(Frame) /\ Len(stack') = n /\ stack' # <<>>
  BY PopStack, UpdateTop DEF TypeOK
<1>2. stack'[n] = g /\ \A i \in 1..(n - 1) : stack'[i] = stack[i]
  BY UpdateTop DEF TypeOK
<1>3. \A i \in 1..n : stack'[i].entry = stack[i].entry
  <2>1. stack'[n].entry = stack[n].entry
    BY <1>2 DEF Top
  <2> HIDE DEF n
  <2>2. \A i \in 1..n : i = n \/ i \in 1..(n - 1)
    BY <1>1
  <2>3. QED
    BY <1>2, <2>1, <2>2
<1>4. n = Len(stack)
  OBVIOUS
<1> HIDE DEF n
<1>5. FundsOK'
  <2>1. ASSUME NEW i \in 1..n PROVE Saved(stack'[i])
    <3>1. CASE i = n
      BY <1>2, <3>1
    <3>2. CASE i # n
      <4>1. i \in 1..(n - 1)
        BY <1>1, <3>2
      <4>2. stack'[i] = stack[i]
        BY <1>2, <4>1
      <4>3. Saved(stack[i])
        BY <1>4 DEF FundsOK
      <4>4. QED
        BY <4>2, <4>3
    <3>3. QED
      BY <3>1, <3>2
  <2>2. QED
    BY <1>1, <2>1 DEF FundsOK, Saved, Funded, Measured
<1>6. stack'[1].entry.held = donated'
  <2>1. stack[1].entry.held = donated
    BY DEF Custody
  <2>2. QED
    BY <1>1, <1>3, <2>1
<1>7. ASSUME NEW i \in 1..n, NEW t \in Tokens
      PROVE  HeldAt(i)'[t] = stack'[i].entry.held[t] + Holding(stack'[i], t)
  <2>1. CASE i = n
    BY <1>1, <1>2, <2>1 DEF HeldAt
  <2>2. CASE i # n
    <3>1. i \in 1..(n - 1) /\ i + 1 \in 1..n
      BY <1>1, <2>2
    <3>2. stack'[i] = stack[i] /\ stack'[i + 1].entry = stack[i + 1].entry
      BY <1>2, <1>3, <3>1
    <3>3. HeldAt(i)' = stack'[i + 1].entry.held
      BY <1>1, <2>2 DEF HeldAt
    <3>4. HeldAt(i) = stack[i + 1].entry.held
      BY <1>4, <2>2 DEF HeldAt
    <3>5. HeldAt(i)[t] = stack[i].entry.held[t] + Holding(stack[i], t)
      BY <1>4 DEF Custody
    <3>6. QED
      BY <3>2, <3>3, <3>4, <3>5
  <2>3. QED
    BY <2>1, <2>2
<1>8. QED
  BY <1>1, <1>5, <1>6, <1>7 DEF Custody, Holding, KeepsShares, LST, Kind

LEMMA PushCustody ==
  ASSUME TypeOK, Custody, FundsOK, NEW f \in Frame, stack' = Append(stack, f),
         f.entry.held = held, Saved(f), donated' = donated,
         \A t \in Tokens : held'[t] = held[t] + Holding(f, t)
  PROVE  Custody' /\ FundsOK'
<1> DEFINE n == Len(stack)
<1>1. n \in Nat /\ stack' \in Seq(Frame) /\ Len(stack') = n + 1 /\ stack' # <<>>
  <2>1. stack \in Seq(Frame) /\ n \in Nat
    BY DEF TypeOK
  <2>2. stack' \in Seq(Frame) /\ Len(stack') = n + 1
    BY <2>1, PushStack
  <2>3. QED
    BY <2>1, <2>2
<1>2. stack'[n + 1] = f /\ \A i \in 1..n : stack'[i] = stack[i]
  BY PushStack DEF TypeOK
<1>3. n = Len(stack) /\ (n = 0 <=> stack = <<>>)
  <2>1. stack \in Seq(Frame)
    BY DEF TypeOK
  <2>2. QED
    BY <2>1
<1> HIDE DEF n
<1>4. FundsOK'
  <2>1. ASSUME NEW i \in 1..(n + 1) PROVE Saved(stack'[i])
    <3>1. CASE i = n + 1
      BY <1>2, <3>1
    <3>2. CASE i # n + 1
      <4>1. i \in 1..n /\ i \in 1..Len(stack)
        BY <1>1, <1>3, <3>2
      <4>2. stack'[i] = stack[i]
        BY <1>2, <4>1
      <4>3. Saved(stack[i])
        BY <4>1 DEF FundsOK
      <4>4. QED
        BY <4>2, <4>3
    <3>3. QED
      BY <3>1, <3>2
  <2>2. QED
    BY <1>1, <2>1 DEF FundsOK, Saved, Funded, Measured
<1>5. stack'[1].entry.held = donated'
  <2>1. CASE n = 0
    BY <1>2, <1>3, <2>1 DEF Custody
  <2>2. CASE n # 0
    <3>1. 1 \in 1..n
      BY <1>1, <2>2
    <3>2. QED
      BY <1>2, <1>3, <2>2, <3>1 DEF Custody
  <2>3. QED
    BY <2>1, <2>2
<1>6. ASSUME NEW i \in 1..(n + 1), NEW t \in Tokens
      PROVE  HeldAt(i)'[t] = stack'[i].entry.held[t] + Holding(stack'[i], t)
  <2>1. CASE i = n + 1
    BY <1>1, <1>2, <2>1 DEF HeldAt
  <2>2. CASE i # n + 1
    <3>1. i \in 1..n /\ i \in 1..Len(stack)
      BY <1>1, <1>3, <2>2
    <3>2. HeldAt(i)' = stack'[i + 1].entry.held
      BY <1>1, <2>2 DEF HeldAt
    <3>3. stack'[i + 1].entry.held = HeldAt(i)
      <4>1. CASE i = n
        BY <1>2, <1>3, <4>1 DEF HeldAt
      <4>2. CASE i # n
        <5>1. i + 1 \in 1..n
          BY <1>1, <3>1, <4>2
        <5>2. QED
          BY <1>2, <1>3, <4>2, <5>1 DEF HeldAt
      <4>3. QED
        BY <4>1, <4>2
    <3>4. HeldAt(i)[t] = stack[i].entry.held[t] + Holding(stack[i], t)
      BY <3>1 DEF Custody
    <3>5. QED
      BY <1>2, <3>1, <3>2, <3>3, <3>4
  <2>3. QED
    BY <2>1, <2>2
<1>7. QED
  BY <1>1, <1>4, <1>5, <1>6 DEF Custody, Holding, KeepsShares, LST, Kind

LEMMA PopCustody ==
  ASSUME TypeOK, Custody, FundsOK, stack # <<>>, Pop,
         held' = Top.entry.held, donated' = donated
  PROVE  Custody' /\ FundsOK'
<1> DEFINE n == Len(stack)
<1>1. n \in Nat \ {0} /\ stack' \in Seq(Frame) /\ Len(stack') = n - 1
  BY PopStack DEF Pop, TypeOK
<1>2. \A i \in 1..(n - 1) : stack'[i] = stack[i]
  BY PopStack DEF Pop, TypeOK
<1>3. n = Len(stack) /\ held' = stack[n].entry.held
  BY DEF Top
<1>4. stack' = <<>> <=> n = 1
  BY <1>1
<1> HIDE DEF n
<1>5. FundsOK'
  <2>1. ASSUME NEW i \in 1..(n - 1) PROVE Saved(stack'[i])
    <3>1. i \in 1..Len(stack)
      BY <1>1, <1>3
    <3>2. QED
      BY <1>2, <3>1 DEF FundsOK
  <2>2. QED
    BY <1>1, <2>1 DEF FundsOK, Saved, Funded, Measured
<1>6. stack' = <<>> => held' = donated'
  BY <1>3, <1>4 DEF Custody
<1>7. stack' # <<>> => stack'[1].entry.held = donated'
  <2>1. n # 1 => 1 \in 1..(n - 1)
    BY <1>1
  <2>2. QED
    BY <1>2, <1>4, <2>1 DEF Custody
<1>8. ASSUME NEW i \in 1..(n - 1), NEW t \in Tokens
      PROVE  HeldAt(i)'[t] = stack'[i].entry.held[t] + Holding(stack'[i], t)
  <2>1. i \in 1..Len(stack) /\ i # n
    BY <1>1, <1>3
  <2>2. HeldAt(i) = stack[i + 1].entry.held
    BY <1>3, <2>1 DEF HeldAt
  <2>3. HeldAt(i)' = stack[i + 1].entry.held
    <3>1. CASE i = n - 1
      BY <1>1, <1>3, <3>1 DEF HeldAt
    <3>2. CASE i # n - 1
      <4>1. i + 1 \in 1..(n - 1)
        BY <1>1, <3>2
      <4>2. QED
        BY <1>1, <1>2, <3>2, <4>1 DEF HeldAt
    <3>3. QED
      BY <3>1, <3>2
  <2>4. HeldAt(i)[t] = stack[i].entry.held[t] + Holding(stack[i], t)
    BY <2>1 DEF Custody
  <2>5. QED
    BY <1>2, <2>2, <2>3, <2>4
<1>9. QED
  BY <1>1, <1>5, <1>6, <1>7, <1>8 DEF Custody, Holding, KeepsShares, LST, Kind
-----------------------------------------------------------------------------
(* The balances at the points a frame passes.                              *)

LEMMA SameBalances ==
  ASSUME NEW a \in [Tokens -> Nat], NEW b \in [Tokens -> Nat], \A t \in Tokens : a[t] = b[t]
  PROVE  a = b
  OBVIOUS

\* Before a frame's strategy is called, its amount is the whole difference.
LEMMA FreshTop ==
  ASSUME CInv, stack # <<>>, Top.pc \in {"header", "dispatch"}
  PROVE  held = [Top.entry.held EXCEPT ![Top.call.token] = @ + Top.call.amount]
<1> DEFINE f == Top
           e == f.entry.held
<1>1. f \in Frame /\ Accepted(f) /\ f.call.token \in Tokens /\ f.call.amount \in Nat
      /\ e \in [Tokens -> Nat]
  BY TopTyped, CallTyped DEF CInv, World
<1>2. f.spent = 0 /\ f.got = 0
  BY <1>1 DEF Accepted
<1>3. ASSUME NEW t \in Tokens
      PROVE  Holding(f, t) = IF t = f.call.token THEN f.call.amount ELSE 0
  BY <1>1, <1>2 DEF Holding, KeepsShares
<1>4. \A t \in Tokens : held[t] = e[t] + Holding(f, t)
  BY TopCustody DEF CInv
<1>5. held \in [Tokens -> Nat]
  BY DEF CInv, TypeOK
<1> HIDE DEF f, e
<1>6. \A t \in Tokens : held[t] = [e EXCEPT ![f.call.token] = @ + f.call.amount][t]
  BY <1>1, <1>3, <1>4
<1>7. [e EXCEPT ![f.call.token] = @ + f.call.amount] \in [Tokens -> Nat]
  BY <1>1
<1>8. held = [e EXCEPT ![f.call.token] = @ + f.call.amount]
  BY <1>5, <1>6, <1>7, SameBalances
<1>9. QED
  BY <1>8 DEF e, f

\* handle_apply_on_self_result on an error, once its world holds the amount.
LEMMA ErrorCustody ==
  ASSUME CInv, stack # <<>>, NEW w,
         w.held = [Top.entry.held EXCEPT ![Top.call.token] = @ + Top.call.amount],
         handle_apply_on_self_error(Top, w)
  PROVE  Custody' /\ FundsOK'
<1> DEFINE e == Top.entry.held
           token == Top.call.token
           amount == Top.call.amount
<1>1. token \in Tokens /\ amount \in Nat /\ e \in [Tokens -> Nat]
  BY TopTyped, CallTyped DEF CInv, World
<1>2. w.held[token] >= amount /\ [w.held EXCEPT ![token] = @ - amount] = e
  <2> DEFINE h == w.held
  <2>1. h = [e EXCEPT ![token] = @ + amount]
    OBVIOUS
  <2> HIDE DEF e, token, amount, h
  <2>2. h \in [Tokens -> Nat]
    BY <1>1, <2>1
  <2>3. h[token] = e[token] + amount
    BY <1>1, <2>1
  <2>4. h[token] >= amount /\ h[token] - amount = e[token]
    BY <1>1, <2>3
  <2>5. [h EXCEPT ![token] = e[token]] \in [Tokens -> Nat]
    BY <1>1, <2>2
  <2>6. \A t \in Tokens : [h EXCEPT ![token] = e[token]][t] = e[t]
    BY <1>1, <2>1, <2>2
  <2>7. [h EXCEPT ![token] = e[token]] = e
    BY <1>1, <2>5, <2>6, SameBalances
  <2>8. [h EXCEPT ![token] = @ - amount] = [h EXCEPT ![token] = e[token]]
    BY <2>4
  <2>9. QED
    BY <2>4, <2>7, <2>8 DEF h
<1>3. held' = e /\ Pop /\ donated' = donated
  BY <1>2 DEF handle_apply_on_self_error
<1>4. QED
  BY <1>3, PopCustody DEF CInv

LEMMA RevertCustody ==
  ASSUME CInv, stack # <<>>, RevertApply(Top)
  PROVE  Custody' /\ FundsOK'
  BY PopCustody DEF RevertApply, CInv

-----------------------------------------------------------------------------
(* One lemma per action.                                                   *)

LEMMA ApplyCustody ==
  ASSUME CInv, NEW call \in Calls, Apply(call)
  PROVE  Custody' /\ FundsOK'
<1> DEFINE f == [id |-> applies, call |-> call, pc |-> "header", entry |-> Now, rescue |-> Now,
                 settled |-> FALSE, spent |-> 0, got |-> 0, lst |-> 0,
                 sell_token_before |-> 0, buy_token_before |-> 0, shares |-> 0]
<1>1. call.token \in Tokens /\ call.amount \in Nat
  BY StrategyAssumption DEF Call
<1>2. f \in Frame
  BY NowTyped DEF Frame, TypeOK, CInv
<1>3. f.entry.held = held /\ Saved(f)
  BY DEF Saved, Now
<1>4. \A t \in Tokens : Holding(f, t) = IF t = call.token THEN call.amount ELSE 0
  BY <1>1 DEF Holding, KeepsShares
<1>5. held' = [held EXCEPT ![call.token] = @ + call.amount] /\ stack' = Append(stack, f)
      /\ donated' = donated
  BY DEF Apply
<1>6. held \in [Tokens -> Nat]
  BY DEF CInv, TypeOK
<1> HIDE DEF f
<1>7. \A t \in Tokens : held'[t] = held[t] + Holding(f, t)
  BY <1>1, <1>4, <1>5, <1>6
<1>8. QED
  BY <1>2, <1>3, <1>5, <1>7, PushCustody DEF CInv

LEMMA DeployCustody ==
  ASSUME CInv, ApplyDeploysAccount
  PROVE  Custody' /\ FundsOK'
<1> DEFINE f == Top
           g == [f EXCEPT !.pc = "dispatch"]
<1>1. stack # <<>> /\ f.pc = "header"
  BY DEF ApplyDeploysAccount, At
<1>2. f \in Frame
  BY <1>1, TopTyped DEF CInv
<1>3. g \in Frame /\ g.pc = "dispatch" /\ g.entry = f.entry /\ g.call = f.call /\ g.spent = f.spent
  BY <1>1, <1>2 DEF Frame
<1>4. \A t \in Tokens : Holding(g, t) = Holding(f, t)
  BY <1>1, <1>3 DEF Holding, KeepsShares
<1>5. Saved(g)
  BY <1>3 DEF Saved
<1>6. stack' = [stack EXCEPT ![Len(stack)] = g] /\ held' = held /\ donated' = donated
  BY DEF ApplyDeploysAccount, Become
<1>7. \A t \in Tokens : held[t] = f.entry.held[t] + Holding(f, t)
  BY <1>1, TopCustody DEF CInv
<1> HIDE DEF g
<1>8. QED
  BY <1>1, <1>3, <1>4, <1>5, <1>6, <1>7, UpdateCustody DEF CInv

LEMMA RefusesCustody ==
  ASSUME CInv, ApplyOnSelfRefuses
  PROVE  Custody' /\ FundsOK'
<1>1. stack # <<>> /\ Top.pc = "dispatch"
      /\ handle_apply_on_self_error(Top, RolledBack(Dispatched(Top)))
  BY DEF ApplyOnSelfRefuses, At
<1>2. RolledBack(Dispatched(Top)).held = held
  BY <1>1, TopTyped DEF RolledBack, Dispatched, Now, CInv, Frame
<1>3. QED
  BY <1>1, <1>2, FreshTop, ErrorCustody

LEMMA FailsCustody ==
  ASSUME CInv, StrategyFails
  PROVE  Custody' /\ FundsOK'
<1>1. stack # <<>> /\ Top.pc \in {"vault", "troves", "swap", "report"}
      /\ handle_apply_on_self_error(Top, RolledBack(Top))
  BY DEF StrategyFails, InStrategy, At
<1>2. RolledBack(Top).held = [Top.entry.held EXCEPT ![Top.call.token] = @ + Top.call.amount]
  BY <1>1, TopCustody DEF RolledBack, Saved, Funded, CInv
<1>3. QED
  BY <1>1, <1>2, ErrorCustody
LEMMA DepositsCustody ==
  ASSUME CInv, ApplyOnSelfDeposits
  PROVE  Custody' /\ FundsOK'
<1> DEFINE d == Dispatched(Top)
           f == [d EXCEPT !.pc = "vault"]
<1>1. stack # <<>> /\ Top.pc = "dispatch"
  BY DEF ApplyOnSelfDeposits, At
<1>2. /\ d \in Frame /\ d.call = Top.call /\ d.entry = Top.entry /\ d.rescue.held = held
      /\ d.spent = 0 /\ d.got = 0
  BY <1>1, TopTyped, DispatchedTyped DEF CInv, Dispatched, Frame, Now, Accepted
<1>3. /\ f \in Frame /\ f.pc = "vault" /\ f.call = Top.call /\ f.entry = Top.entry
      /\ f.rescue.held = held /\ f.spent = 0 /\ f.got = 0
  <2> HIDE DEF d
  <2>1. QED
    BY <1>2 DEF Frame
<1>4. stack' = [stack EXCEPT ![Len(stack)] = f] /\ held' = held /\ donated' = donated
  BY DEF ApplyOnSelfDeposits, Become
<1> HIDE DEF f
<1>5. Saved(f)
  BY <1>1, <1>3, FreshTop DEF Saved, Funded
<1>6. \A t \in Tokens : held'[t] = f.entry.held[t] + Holding(f, t)
  <2>1. f.call.token \in Tokens /\ f.call.amount \in Nat /\ f.entry.held \in [Tokens -> Nat]
    BY <1>3, CallTyped DEF World
  <2>2. held = [f.entry.held EXCEPT ![f.call.token] = @ + f.call.amount]
    BY <1>1, <1>3, FreshTop
  <2>3. \A t \in Tokens : Holding(f, t) = IF t = f.call.token THEN f.call.amount ELSE 0
    BY <1>3, <2>1 DEF Holding
  <2>4. QED
    BY <1>4, <2>1, <2>2, <2>3
<1>7. QED
  BY <1>1, <1>3, <1>4, <1>5, <1>6, UpdateCustody DEF CInv

LEMMA SwapsCustody ==
  ASSUME CInv, ApplyOnSelfSwaps
  PROVE  Custody' /\ FundsOK'
<1> DEFINE d == Dispatched(Top)
           f == [d EXCEPT !.pc = "swap",
                   !.sell_token_before = held[Top.call.token],
                   !.buy_token_before = held[Top.call.swap.buy]]
<1>1. stack # <<>> /\ Top.pc = "dispatch"
  BY DEF ApplyOnSelfSwaps, At
<1>2. /\ d \in Frame /\ d.call = Top.call /\ d.entry = Top.entry /\ d.rescue.held = held
      /\ d.spent = 0 /\ d.got = 0
  BY <1>1, TopTyped, DispatchedTyped DEF CInv, Dispatched, Frame, Now, Accepted
<1>3. held[Top.call.token] \in Nat /\ held[Top.call.swap.buy] \in Nat
  BY <1>1, TopTyped, CallTyped DEF CInv, TypeOK
<1>4. /\ f \in Frame /\ f.pc = "swap" /\ f.call = Top.call /\ f.entry = Top.entry
      /\ f.rescue.held = held /\ f.spent = 0 /\ f.got = 0
      /\ f.sell_token_before = held[Top.call.token]
      /\ f.buy_token_before = held[Top.call.swap.buy]
  <2> HIDE DEF d
  <2>1. QED
    BY <1>2, <1>3 DEF Frame
<1>5. stack' = [stack EXCEPT ![Len(stack)] = f] /\ held' = held /\ donated' = donated
  BY DEF ApplyOnSelfSwaps, Become
<1> HIDE DEF f
<1>6. Saved(f)
  BY <1>1, <1>4, FreshTop DEF Saved, Funded, Measured
<1>7. \A t \in Tokens : held'[t] = f.entry.held[t] + Holding(f, t)
  <2>1. f.call.token \in Tokens /\ f.call.amount \in Nat /\ f.entry.held \in [Tokens -> Nat]
    BY <1>4, CallTyped DEF World
  <2>2. held = [f.entry.held EXCEPT ![f.call.token] = @ + f.call.amount]
    BY <1>1, <1>4, FreshTop
  <2>3. \A t \in Tokens : Holding(f, t) = IF t = f.call.token THEN f.call.amount ELSE 0
    BY <1>4, <2>1 DEF Holding, KeepsShares
  <2>4. QED
    BY <1>5, <2>1, <2>2, <2>3
<1>8. QED
  BY <1>1, <1>4, <1>5, <1>6, <1>7, UpdateCustody DEF CInv
\* What a deposit holds before and after its vault has moved the tokens.
LEMMA DepositHolding ==
  ASSUME NEW f \in Frame, Accepted(f), f.pc \in {"vault", "troves"}, NEW t \in Tokens
  PROVE  Holding(f, t) =
           IF ~f.settled THEN (IF t = Asset(f) THEN Assets(f) ELSE 0)
           ELSE IF KeepsShares(f) /\ t = LST(f) THEN f.got ELSE 0
<1>1. f.call.amount \in Nat /\ f.lst \in Nat /\ f.got \in Nat /\ f.spent \in Nat
  BY CallTyped DEF Frame
<1>2. ~f.settled => f.spent = 0 /\ f.got = 0
  BY DEF Accepted
<1>3. f.settled => f.spent = Assets(f)
  BY DEF Accepted
<1>4. CASE f.pc = "vault"
  BY <1>1, <1>2, <1>3, <1>4 DEF Holding, KeepsShares, Asset, Assets
<1>5. CASE f.pc = "troves"
  BY <1>1, <1>2, <1>3, <1>5 DEF Holding, KeepsShares, Asset, Assets
<1>6. QED
  BY <1>4, <1>5

LEMMA VaultCustody ==
  ASSUME CInv, NEW shares \in Outputs, VaultTakes(shares)
  PROVE  Custody' /\ FundsOK'
<1> DEFINE f == Top
           g == [f EXCEPT !.settled = TRUE, !.spent = Assets(f), !.got = shares]
           taken == [held EXCEPT ![Asset(f)] = @ - Assets(f)]
<1>1. stack # <<>> /\ f.pc \in {"vault", "troves"} /\ ~f.settled
  BY DEF VaultTakes, InStrategy
<1>2. f \in Frame /\ Accepted(f) /\ held \in [Tokens -> Nat] /\ f.entry.held \in [Tokens -> Nat]
  BY <1>1, TopTyped, CallTyped DEF CInv, TypeOK, World
<1>3. Asset(f) \in Tokens /\ Assets(f) \in Nat /\ LST(f) \in Tokens /\ shares \in Nat
  BY <1>1, <1>2, DepositTyped, StrategyAssumption
<1>4. /\ g \in Frame /\ g.settled /\ g.pc = f.pc /\ g.call = f.call /\ g.lst = f.lst
      /\ g.spent = Assets(f) /\ g.got = shares /\ g.entry = f.entry /\ g.rescue = f.rescue
  BY <1>2, <1>3 DEF Frame
<1>5. stack' = [stack EXCEPT ![Len(stack)] = g] /\ donated' = donated
  BY DEF VaultTakes, Become
<1>6. IF KeepsShares(f) THEN held' = [taken EXCEPT ![LST(f)] = @ + shares] ELSE held' = taken
  BY DEF VaultTakes
<1> HIDE DEF g
<1>7. /\ Kind(g) = Kind(f) /\ Assets(g) = Assets(f) /\ LST(g) = LST(f)
      /\ KeepsShares(g) = KeepsShares(f)
  BY <1>4 DEF Kind, Assets, LST, KeepsShares
<1>8. Accepted(g)
  BY <1>1, <1>2, <1>4, <1>7 DEF Accepted
<1>9. Saved(g)
  <2>1. Saved(f)
    BY <1>1, TopCustody DEF CInv
  <2>2. QED
    BY <1>1, <1>4, <2>1 DEF Saved, Funded
<1>10. ASSUME NEW t \in Tokens
       PROVE  held'[t] = g.entry.held[t] + Holding(g, t)
  <2>1. held[t] = f.entry.held[t] + Holding(f, t)
    BY <1>1, TopCustody DEF CInv
  <2>2. Holding(f, t) = IF t = Asset(f) THEN Assets(f) ELSE 0
    BY <1>1, <1>2, DepositHolding
  <2>3. Holding(g, t) = IF KeepsShares(f) /\ t = LST(f) THEN shares ELSE 0
    BY <1>1, <1>4, <1>7, <1>8, DepositHolding
  <2>4. taken \in [Tokens -> Int] /\ taken[t] = f.entry.held[t]
    BY <1>2, <1>3, <2>1, <2>2
  <2> HIDE DEF taken
  <2>5. held'[t] = taken[t] + Holding(g, t)
    BY <1>2, <1>3, <1>6, <2>3, <2>4
  <2>6. QED
    BY <1>4, <2>4, <2>5
<1>11. QED
  BY <1>1, <1>4, <1>5, <1>9, <1>10, UpdateCustody DEF CInv

LEMMA DepositReturnsCustody ==
  ASSUME CInv, DepositReturns
  PROVE  Custody' /\ FundsOK'
<1> DEFINE f == Top
           g == [f EXCEPT !.pc = "report", !.shares = f.got]
<1>1. stack # <<>> /\ f.pc \in {"vault", "troves"} /\ f.settled /\ ~KeepsShares(f)
  BY DEF DepositReturns, InStrategy
<1>2. f \in Frame /\ Accepted(f) /\ held \in [Tokens -> Nat] /\ f.got \in Nat
  BY <1>1, TopTyped DEF CInv, TypeOK, Frame
<1>3. /\ g \in Frame /\ g.pc = "report" /\ g.call = f.call /\ g.entry = f.entry
      /\ g.rescue = f.rescue
  BY <1>2 DEF Frame
<1>4. stack' = [stack EXCEPT ![Len(stack)] = g] /\ held' = held /\ donated' = donated
  BY DEF DepositReturns, Become
<1> HIDE DEF g
<1>5. Saved(g)
  <2>1. Saved(f)
    BY <1>1, TopCustody DEF CInv
  <2>2. QED
    BY <1>1, <1>3, <2>1 DEF Saved, Funded
<1>6. ASSUME NEW t \in Tokens
      PROVE  held'[t] = g.entry.held[t] + Holding(g, t)
  <2>1. held[t] = f.entry.held[t] + Holding(f, t)
    BY <1>1, TopCustody DEF CInv
  <2>2. Holding(f, t) = 0
    BY <1>1, <1>2, DepositHolding
  <2>3. Holding(g, t) = 0
    BY <1>3 DEF Holding, KeepsShares
  <2>4. QED
    BY <1>3, <1>4, <2>1, <2>2, <2>3
<1>7. QED
  BY <1>1, <1>3, <1>4, <1>5, <1>6, UpdateCustody DEF CInv

LEMMA TrovesCustody ==
  ASSUME CInv, TrovesDepositsLST
  PROVE  Custody' /\ FundsOK'
<1> DEFINE f == Top
           g == [f EXCEPT !.pc = "troves", !.lst = f.got, !.settled = FALSE, !.spent = 0, !.got = 0]
<1>1. stack # <<>> /\ f.pc = "vault" /\ f.settled /\ KeepsShares(f)
  BY DEF TrovesDepositsLST, At
<1>2. f \in Frame /\ Accepted(f) /\ f.got \in Nat
  BY <1>1, TopTyped DEF CInv, Frame
<1>3. /\ g \in Frame /\ g.pc = "troves" /\ g.call = f.call /\ g.entry = f.entry
      /\ g.rescue = f.rescue /\ g.lst = f.got /\ g.spent = 0 /\ g.got = 0
  BY <1>2 DEF Frame
<1>4. stack' = [stack EXCEPT ![Len(stack)] = g] /\ held' = held /\ donated' = donated
  BY DEF TrovesDepositsLST, Become
<1> HIDE DEF g
<1>5. Saved(g)
  <2>1. Saved(f)
    BY <1>1, TopCustody DEF CInv
  <2>2. QED
    BY <1>1, <1>3, <2>1 DEF Saved, Funded
<1>6. ASSUME NEW t \in Tokens
      PROVE  held'[t] = g.entry.held[t] + Holding(g, t)
  <2>1. held[t] = f.entry.held[t] + Holding(f, t)
    BY <1>1, TopCustody DEF CInv
  <2>2. Holding(f, t) = IF t = LST(f) THEN f.got ELSE 0
    BY <1>1, <1>2, DepositHolding
  <2>3. Holding(g, t) = IF t = LST(f) THEN f.got ELSE 0
    BY <1>2, <1>3 DEF Holding, KeepsShares, LST
  <2>4. QED
    BY <1>3, <1>4, <2>1, <2>2, <2>3
<1>7. QED
  BY <1>1, <1>3, <1>4, <1>5, <1>6, UpdateCustody DEF CInv
\* What a swap holds before and after the exchange has filled it.
LEMMA SwapHolding ==
  ASSUME NEW f \in Frame, Accepted(f), f.pc = "swap"
  PROVE  /\ f.call.swap.sell = f.call.token
         /\ f.call.swap.beneficiary = Self
         /\ \A t \in Tokens : Holding(f, t) =
              (IF t = f.call.token THEN f.call.amount - f.spent ELSE 0)
              + (IF t = f.call.swap.buy THEN f.got ELSE 0)
<1>1. f.call.swap.sell = f.call.token /\ f.call.swap.beneficiary = Self
  BY DEF Accepted, PayloadAccepted
<1>2. f.call.amount \in Nat /\ f.got \in Nat /\ f.spent \in Nat
  BY CallTyped DEF Frame
<1>3. QED
  BY <1>1, <1>2 DEF Holding, KeepsShares

LEMMA ExchangeCustody ==
  ASSUME CInv, NEW sold \in Nat, NEW bought \in Outputs, ExchangeFills(sold, bought)
  PROVE  Custody' /\ FundsOK'
<1> DEFINE f == Top
           sell == f.call.token
           buy == f.call.swap.buy
           g == [f EXCEPT !.settled = TRUE, !.spent = sold, !.got = bought]
           taken == [held EXCEPT ![sell] = @ - sold]
<1>1. stack # <<>> /\ f.pc = "swap" /\ ~f.settled
  BY DEF ExchangeFills, At
<1>2. /\ f \in Frame /\ Accepted(f) /\ held \in [Tokens -> Nat] /\ f.entry.held \in [Tokens -> Nat]
      /\ sell \in Tokens /\ buy \in Tokens /\ f.call.amount \in Nat /\ bought \in Nat
  BY <1>1, TopTyped, CallTyped, StrategyAssumption DEF CInv, TypeOK, World
<1>3. /\ g \in Frame /\ g.settled /\ g.pc = "swap" /\ g.call = f.call
      /\ g.spent = sold /\ g.got = bought /\ g.entry = f.entry /\ g.rescue = f.rescue
      /\ g.sell_token_before = f.sell_token_before /\ g.buy_token_before = f.buy_token_before
  BY <1>1, <1>2 DEF Frame
<1>4. f.call.swap.sell = sell /\ f.call.swap.beneficiary = Self /\ f.spent = 0 /\ f.got = 0
  BY <1>1, <1>2, SwapHolding DEF Accepted
<1>5. /\ stack' = [stack EXCEPT ![Len(stack)] = g] /\ donated' = donated
      /\ held' = [taken EXCEPT ![buy] = @ + bought]
  BY <1>4 DEF ExchangeFills, Become
<1> HIDE DEF g
<1>6. Accepted(g)
  <2>1. Kind(g) = Kind(f)
    BY <1>3 DEF Kind
  <2>2. QED
    BY <1>1, <1>2, <1>3, <2>1 DEF Accepted
<1>7. Saved(g)
  <2>1. Saved(f)
    BY <1>1, TopCustody DEF CInv
  <2>2. QED
    BY <1>1, <1>3, <2>1 DEF Saved, Funded, Measured
<1>8. ASSUME NEW t \in Tokens
      PROVE  held'[t] = g.entry.held[t] + Holding(g, t)
  <2>1. held[t] = f.entry.held[t] + Holding(f, t)
    BY <1>1, TopCustody DEF CInv
  <2>2. Holding(f, t) = IF t = sell THEN f.call.amount ELSE 0
    BY <1>1, <1>2, <1>4, SwapHolding
  <2>3. Holding(g, t) = (IF t = sell THEN f.call.amount - sold ELSE 0)
                        + (IF t = buy THEN bought ELSE 0)
    BY <1>3, <1>6, SwapHolding
  <2>4. /\ taken \in [Tokens -> Int]
        /\ taken[t] = f.entry.held[t] + (IF t = sell THEN f.call.amount - sold ELSE 0)
    BY <1>2, <2>1, <2>2
  <2> HIDE DEF taken
  <2>5. held'[t] = taken[t] + (IF t = buy THEN bought ELSE 0)
    BY <1>2, <1>5, <2>4
  <2> HIDE DEF f, sell, buy
  <2>6. QED
    BY <1>2, <1>3, <2>3, <2>4, <2>5
<1>9. QED
  BY <1>1, <1>3, <1>5, <1>7, <1>8, UpdateCustody DEF CInv

\* The balances SwapReturns leaves are those apply was called with: the gained
\* tokens leave first, so what the sell balance lacks is what was sold, also when
\* the sold token is the bought one (then it is nothing, and all is refunded).
LEMMA SwapReturnsCustody ==
  ASSUME CInv, SwapReturns
  PROVE  Custody' /\ FundsOK'
<1> DEFINE f == Top
           sell == f.call.token
           buy == f.call.swap.buy
           e == f.entry.held
           h == f.rescue.held
           g == [f EXCEPT !.pc = "report", !.shares = Gained(f)]
<1>1. stack # <<>> /\ f.pc = "swap" /\ SwapChecks(f)
  BY DEF SwapReturns, At
<1>2. /\ f \in Frame /\ Accepted(f) /\ held \in [Tokens -> Nat] /\ e \in [Tokens -> Nat]
      /\ sell \in Tokens /\ buy \in Tokens /\ f.call.amount \in Nat /\ f.spent \in Nat
      /\ f.got \in Nat
  BY <1>1, TopTyped, CallTyped DEF CInv, TypeOK, World, Frame
<1>3. Gained(f) \in Nat /\ Refund(f) \in Nat /\ AfterBuy(f) \in [Tokens -> Nat]
      /\ \A t \in Tokens : AfterBuy(f)[t] = IF t = buy THEN f.buy_token_before ELSE held[t]
  BY <1>1, <1>2, SwapArithmetic DEF CInv
<1>4. /\ g \in Frame /\ g.pc = "report" /\ g.call = f.call /\ g.entry = f.entry
      /\ g.rescue = f.rescue
  BY <1>2, <1>3 DEF Frame
<1>5. /\ stack' = [stack EXCEPT ![Len(stack)] = g] /\ donated' = donated
      /\ held' = [AfterBuy(f) EXCEPT ![sell] = @ - Refund(f)]
  BY DEF SwapReturns, Become
<1> HIDE DEF g
<1>6. Saved(f)
  BY <1>1, TopCustody DEF CInv
<1>7. Saved(g)
  BY <1>1, <1>4, <1>6 DEF Saved, Funded
<1>8. /\ h = [e EXCEPT ![sell] = @ + f.call.amount]
      /\ f.sell_token_before = h[sell] /\ f.buy_token_before = h[buy]
  BY <1>1, <1>6 DEF Saved, Funded, Measured
<1>9. /\ f.sell_token_before = e[sell] + f.call.amount
      /\ f.buy_token_before = IF buy = sell THEN e[sell] + f.call.amount ELSE e[buy]
  <2> HIDE DEF e, h, sell, buy, f
  <2>1. QED
    BY <1>2, <1>8
<1>10. \A t \in Tokens : held[t] = e[t] + (IF t = sell THEN f.call.amount - f.spent ELSE 0)
                                        + (IF t = buy THEN f.got ELSE 0)
  <2>1. \A t \in Tokens : held[t] = e[t] + Holding(f, t)
    BY <1>1, TopCustody DEF CInv
  <2>2. \A t \in Tokens : Holding(f, t) = (IF t = sell THEN f.call.amount - f.spent ELSE 0)
                                            + (IF t = buy THEN f.got ELSE 0)
    BY <1>1, <1>2, SwapHolding
  <2> HIDE DEF e, sell, buy, f
  <2>3. QED
    BY <1>2, <2>1, <2>2
<1>11. Refund(f) = f.call.amount - (f.sell_token_before - AfterBuy(f)[sell])
  BY DEF Refund, Used
<1>12. ASSUME NEW t \in Tokens
       PROVE  held'[t] = g.entry.held[t] + Holding(g, t)
  <2>1. Holding(g, t) = 0
    BY <1>4 DEF Holding, KeepsShares
  <2>2. held'[t] = IF t = sell THEN AfterBuy(f)[sell] - Refund(f) ELSE AfterBuy(f)[t]
    BY <1>2, <1>3, <1>5
  <2>3. CASE t = sell
    <3>1. AfterBuy(f)[sell] \in Nat /\ e[sell] \in Nat
      BY <1>2, <1>3
    <3>2. held'[t] = f.sell_token_before - f.call.amount
      <4> HIDE DEF e, sell, buy, f
      <4>1. QED
        BY <1>2, <1>9, <1>11, <2>2, <2>3, <3>1
    <3>3. held'[t] = e[t]
      BY <1>2, <1>9, <2>3, <3>1, <3>2
    <3>4. QED
      BY <1>2, <1>4, <2>1, <3>3
  <2>4. CASE t # sell
    <3>1. AfterBuy(f)[t] = e[t]
      <4> HIDE DEF e, sell, buy, f
      <4>1. QED
        BY <1>2, <1>3, <1>9, <1>10, <2>4
    <3>2. QED
      BY <1>2, <1>4, <2>1, <2>2, <2>4, <3>1
  <2>5. QED
    BY <2>3, <2>4
<1>13. QED
  BY <1>1, <1>4, <1>5, <1>7, <1>12, UpdateCustody DEF CInv

LEMMA ReportCustody ==
  ASSUME CInv, ReportAction
  PROVE  Custody' /\ FundsOK'
<1>1. stack # <<>> /\ Top.pc = "report" /\ Pop /\ held' = held /\ donated' = donated
  BY DEF ReportAction, At
<1>2. held \in [Tokens -> Nat] /\ Top.entry.held \in [Tokens -> Nat]
  BY <1>1, TopTyped, CallTyped DEF CInv, TypeOK, World
<1>3. \A t \in Tokens : held[t] = Top.entry.held[t]
  <2>1. \A t \in Tokens : Holding(Top, t) = 0
    BY <1>1 DEF Holding, KeepsShares
  <2>2. QED
    BY <1>1, <1>2, <2>1, TopCustody DEF CInv
<1>4. held = Top.entry.held
  BY <1>2, <1>3, SameBalances
<1>5. QED
  BY <1>1, <1>4, PopCustody DEF CInv

\* What changes only between transactions.
LEMMA IdleCustody ==
  ASSUME CInv, stack = <<>>, stack' = <<>>, held' = donated'
  PROVE  Custody' /\ FundsOK'
<1>1. 1..Len(stack') = {}
  OBVIOUS
<1>2. QED
  BY <1>1 DEF Custody, FundsOK

LEMMA UnchangedCustody ==
  ASSUME CInv, UNCHANGED <<held, stack, donated>>
  PROVE  Custody' /\ FundsOK'
<1>1. stack' = stack /\ held' = held /\ donated' = donated
  OBVIOUS
<1>2. FundsOK'
  BY <1>1 DEF CInv, FundsOK, Saved, Funded, Measured
<1>3. ASSUME NEW i \in 1..Len(stack), NEW t \in Tokens
      PROVE  HeldAt(i)'[t] = stack'[i].entry.held[t] + Holding(stack'[i], t)
  <2>1. HeldAt(i)[t] = stack[i].entry.held[t] + Holding(stack[i], t)
    BY DEF CInv, Custody
  <2>2. HeldAt(i)' = HeldAt(i)
    BY <1>1 DEF HeldAt
  <2>3. QED
    BY <1>1, <2>1, <2>2
<1>4. (stack = <<>> => held = donated) /\ (stack # <<>> => stack[1].entry.held = donated)
  BY DEF CInv, Custody
<1>5. QED
  BY <1>1, <1>2, <1>3, <1>4 DEF Custody, Holding, KeepsShares, LST, Kind

-----------------------------------------------------------------------------
LEMMA InitCustody == Init => CInv
<1> SUFFICES ASSUME Init PROVE CInv
  OBVIOUS
<1>1. TypeOK /\ FramesOK
  BY InitTyped
<1>2. stack = <<>> /\ held = donated /\ 1..Len(stack) = {}
  BY DEF Init
<1>3. QED
  BY <1>1, <1>2 DEF CInv, Custody, FundsOK

LEMMA StepCustody == CInv /\ [Next]_vars => CInv'
<1> SUFFICES ASSUME CInv, [Next]_vars
             PROVE  Custody' /\ FundsOK'
  BY StepTyped DEF CInv
<1>1. ASSUME NEW call \in Calls, Apply(call) PROVE Custody' /\ FundsOK'
  BY <1>1, ApplyCustody
<1>2. CASE ApplyDeploysAccount
  BY <1>2, DeployCustody
<1>3. CASE ApplyPanics
  BY <1>3, RevertCustody DEF ApplyPanics, At
<1>4. CASE ApplyOnSelfRefuses
  BY <1>4, RefusesCustody
<1>5. CASE ApplyOnSelfDeposits
  BY <1>5, DepositsCustody
<1>6. CASE ApplyOnSelfSwaps
  BY <1>6, SwapsCustody
<1>7. ASSUME NEW shares \in Outputs, VaultTakes(shares) PROVE Custody' /\ FundsOK'
  BY <1>7, VaultCustody
<1>8. ASSUME At("swap"), NEW sold \in 0..allow[Top.call.token][AvnuExchange],
             NEW bought \in Outputs, ExchangeFills(sold, bought)
      PROVE  Custody' /\ FundsOK'
  <2>1. Top.call.token \in Tokens
    BY <1>8, TopTyped, CallTyped DEF At, CInv
  <2>2. sold \in Nat
    BY <2>1, <1>8 DEF TypeOK, StrategyAddresses, CInv
  <2>3. QED
    BY <1>8, <2>2, ExchangeCustody
<1>9. CASE DepositReturns
  BY <1>9, DepositReturnsCustody
<1>10. CASE TrovesDepositsLST
  BY <1>10, TrovesCustody
<1>11. CASE SwapReturns
  BY <1>11, SwapReturnsCustody
<1>12. CASE ReportAction
  BY <1>12, ReportCustody
<1>13. CASE StrategyFails
  BY <1>13, FailsCustody
<1>14. ASSUME NEW r \in Reporters \cup {Zero}, SetEarnReporter(r) PROVE Custody' /\ FundsOK'
  BY <1>14, UnchangedCustody DEF SetEarnReporter
<1>15. ASSUME NEW t \in Donatable, Donate(t) PROVE Custody' /\ FundsOK'
  <2>1. held = donated
    BY <1>15 DEF Donate, CInv, Custody
  <2>2. QED
    BY <1>15, <2>1, IdleCustody DEF Donate
<1>16. CASE UNCHANGED vars
  BY <1>16, UnchangedCustody DEF vars
<1>17. QED
  BY <1>1, <1>2, <1>3, <1>4, <1>5, <1>6, <1>7, <1>8, <1>9, <1>10, <1>11, <1>12, <1>13,
     <1>14, <1>15, <1>16 DEF Next

LEMMA CustodyInvariant == Spec => []CInv
<1>1. Init => CInv
  BY InitCustody
<1>2. CInv /\ [Next]_vars => CInv'
  BY StepCustody
<1>3. QED
  BY <1>1, <1>2, PTL DEF Spec

\* Every token the contract holds is accounted for at every step, whatever
\* requests are made, however deep apply is nested inside the exchange and the
\* vaults, and whichever of the calls fail (apply, handle_apply_on_self_result,
\* deposit_*, multi_route_swap).
THEOREM CustodyCorrect == Spec => []Custody
<1>1. CInv => Custody
  BY DEF CInv
<1>2. QED
  BY <1>1, CustodyInvariant, PTL

\* The balance a failed call leaves always covers its refund: the comment of
\* handle_apply_on_self_result, "must still hold at least `amount`".
THEOREM RefundCovered == Spec => []RefundFunded
<1>1. CInv => RefundFunded
  BY DEF CInv, FundsOK, Saved, Funded, RefundFunded
<1>2. QED
  BY <1>1, CustodyInvariant, PTL

-----------------------------------------------------------------------------
(* What a transaction leaves.                                              *)

\* The state at the level of invocation i.
WorldAt(i) == IF i = Len(stack) THEN Now ELSE stack[i + 1].entry

\* Owners with tokens have an account.
Housed(w) == \A e \in EthAddresses, t \in Tokens : w.owned[e][t] # 0 => e \in w.deployed

\* Accounts and their tokens are only added to.
Since(u, w) ==
  /\ u.deployed \subseteq w.deployed
  /\ \A e \in EthAddresses, t \in Tokens : u.owned[e][t] <= w.owned[e][t]
  /\ Housed(w)

\* What a call made in state u may leave behind: no allowance that was not there.
Leaves(u, w) ==
  /\ \A t \in Tokens, s \in StrategyAddresses : w.allow[t][s] <= u.allow[t][s]
  /\ Since(u, w)

\* The one allowance an invocation has given while it is in its strategy.
Spender(f) == IF f.pc = "swap" THEN AvnuExchange ELSE Vault(f)
Entrusted(f, t, s) ==
  f.pc \in {"vault", "troves", "swap"} /\ t = Asset(f) /\ s = Spender(f)

\* A swap that has returned brought its owner the minimum, and any refund.
Bought(f, w) ==
  f.pc = "report" /\ Kind(f) = "Avnu" =>
    w.owned[f.call.eth][f.call.swap.buy] >=
      f.entry.owned[f.call.eth][f.call.swap.buy] + f.call.swap.min
      + (IF f.call.swap.buy = f.call.token THEN f.call.amount ELSE 0)

Follows(f, w) ==
  /\ f.call.amount > 0
  /\ Housed(f.entry)
  /\ Leaves(f.entry, f.rescue)
  /\ Since(f.entry, w)
  /\ \A t \in Tokens, s \in StrategyAddresses :
       w.allow[t][s] <= IF Entrusted(f, t, s) THEN Assets(f) - f.spent ELSE f.entry.allow[t][s]
  /\ f.pc # "header" => f.call.eth \in w.deployed
  /\ f.pc \notin {"header", "dispatch"} => f.call.eth \in f.rescue.deployed
  /\ Bought(f, w)

\* Outside transactions.
Rests(w) ==
  /\ \A t \in Tokens, s \in StrategyAddresses : w.allow[t][s] = 0
  /\ Housed(w)

Levels ==
  /\ \A i \in 1..Len(stack) : Follows(stack[i], WorldAt(i))
  /\ \A i \in 1..Len(stack) : i # Len(stack) => stack[i].pc \in {"vault", "troves", "swap"}
  /\ stack = <<>> => Rests(Now)
  /\ stack # <<>> => Rests(stack[1].entry)

OInv == CInv /\ Levels

-----------------------------------------------------------------------------
LEMMA WorldTyped ==
  ASSUME NEW w \in World
  PROVE  /\ \A t \in Tokens, s \in StrategyAddresses : w.allow[t][s] \in Nat
         /\ \A e \in EthAddresses, t \in Tokens : w.owned[e][t] \in Nat
         /\ w.deployed \subseteq EthAddresses
BY DEF World

LEMMA LeavesSelf ==
  ASSUME NEW w \in World, Housed(w)
  PROVE  Leaves(w, w) /\ Since(w, w)
BY WorldTyped DEF Leaves, Since

LEMMA LeavesOn ==
  ASSUME NEW u \in World, NEW v \in World, NEW w \in World, Leaves(u, v), Leaves(v, w)
  PROVE  Leaves(u, w)
BY WorldTyped DEF Leaves, Since

LEMMA RestsOn ==
  ASSUME NEW u \in World, NEW w \in World, Rests(u), Leaves(u, w)
  PROVE  Rests(w)
BY WorldTyped DEF Rests, Leaves, Since

\* An interrupted invocation goes on from what the call left behind.
LEMMA FollowsOn ==
  ASSUME NEW f \in Frame, f.pc # "report", NEW u \in World, NEW w \in World,
         Follows(f, u), Leaves(u, w)
  PROVE  Follows(f, w)
<1>1. f.entry \in World /\ f.call.eth \in EthAddresses
  BY CallTyped
<1>2. Since(f.entry, w)
  BY <1>1, WorldTyped DEF Follows, Leaves, Since
<1>3. \A t \in Tokens, s \in StrategyAddresses :
        w.allow[t][s] <= IF Entrusted(f, t, s) THEN Assets(f) - f.spent ELSE f.entry.allow[t][s]
  <2>1. ASSUME NEW t \in Tokens, NEW s \in StrategyAddresses
        PROVE  w.allow[t][s] <= IF Entrusted(f, t, s) THEN Assets(f) - f.spent
                                ELSE f.entry.allow[t][s]
    <3>1. /\ w.allow[t][s] <= u.allow[t][s]
          /\ u.allow[t][s] <= IF Entrusted(f, t, s) THEN Assets(f) - f.spent
                              ELSE f.entry.allow[t][s]
      BY DEF Follows, Leaves
    <3>2. /\ w.allow[t][s] \in Nat /\ u.allow[t][s] \in Nat /\ f.entry.allow[t][s] \in Nat
          /\ Assets(f) - f.spent \in Int
      BY <1>1, WorldTyped, CallTyped DEF Frame, Assets
    <3> QED
      BY <3>1, <3>2
  <2> QED
    BY <2>1
<1>4. f.pc # "header" => f.call.eth \in w.deployed
  BY DEF Follows, Leaves, Since
<1> QED
  BY <1>2, <1>3, <1>4 DEF Follows, Bought

-----------------------------------------------------------------------------
(* What the things a step does to the stack do to its levels.              *)

LEMMA TopFollows ==
  ASSUME OInv, stack # <<>>
  PROVE  /\ Top \in Frame /\ Accepted(Top) /\ Follows(Top, Now)
         /\ Now \in World /\ Top.entry \in World /\ Top.rescue \in World
         /\ Len(stack) \in Nat \ {0}
<1>1. Top \in Frame /\ Accepted(Top) /\ Len(stack) \in Nat \ {0}
  BY TopTyped DEF OInv, CInv
<1>2. Len(stack) \in 1..Len(stack)
  BY <1>1
<1> QED
  BY <1>1, <1>2, NowTyped, CallTyped DEF OInv, CInv, Levels, WorldAt, Top

LEMMA UpdateLevels ==
  ASSUME OInv, stack # <<>>, NEW g \in Frame, stack' = [stack EXCEPT ![Len(stack)] = g],
         g.entry = Top.entry, Follows(g, Now')
  PROVE  Levels'
<1> DEFINE n == Len(stack)
<1>1. /\ n \in Nat \ {0} /\ Len(stack') = n /\ stack' # <<>> /\ stack'[n] = g
      /\ \A i \in 1..(n - 1) : stack'[i] = stack[i]
  BY PopStack, UpdateTop DEF OInv, CInv, TypeOK
<1>2. stack[n].entry = g.entry
  BY DEF Top
<1>3. n = Len(stack)
  OBVIOUS
<1> HIDE DEF n
<1>4. \A i \in 1..n : i = n \/ (i # n /\ i \in 1..(n - 1) /\ i + 1 \in 1..n)
  BY <1>1
<1>5. \A i \in 1..n : stack'[i].entry = stack[i].entry
  BY <1>1, <1>2, <1>4
<1>6. ASSUME NEW i \in 1..n PROVE Follows(stack'[i], WorldAt(i)')
  <2>1. CASE i = n
    BY <2>1, <1>1, <1>3 DEF WorldAt
  <2>2. CASE i # n
    <3>1. stack'[i] = stack[i] /\ i + 1 \in 1..n
      BY <2>2, <1>1, <1>4
    <3>2. WorldAt(i) = stack[i + 1].entry /\ WorldAt(i)' = stack'[i + 1].entry
      BY <2>2, <1>1, <1>3 DEF WorldAt
    <3>3. Follows(stack[i], WorldAt(i))
      BY <1>3 DEF OInv, Levels
    <3> QED
      BY <3>1, <3>2, <3>3, <1>5
  <2> QED
    BY <2>1, <2>2
<1>7. \A i \in 1..n : i # n => stack'[i].pc \in {"vault", "troves", "swap"}
  BY <1>1, <1>3, <1>4 DEF OInv, Levels
<1>8. Rests(stack'[1].entry)
  <2>1. 1 \in 1..n
    BY <1>1
  <2> QED
    BY <2>1, <1>5 DEF OInv, Levels
<1> QED
  BY <1>1, <1>6, <1>7, <1>8 DEF Levels

LEMMA PushLevels ==
  ASSUME OInv, NEW f \in Frame, stack' = Append(stack, f), f.entry = Now,
         stack = <<>> \/ InStrategy, Follows(f, Now')
  PROVE  Levels'
<1> DEFINE n == Len(stack)
<1>1. /\ n \in Nat /\ Len(stack') = n + 1 /\ stack' # <<>> /\ stack'[n + 1] = f
      /\ \A i \in 1..n : stack'[i] = stack[i]
  <2>1. stack \in Seq(Frame) /\ n \in Nat
    BY DEF OInv, CInv, TypeOK
  <2> QED
    BY <2>1, PushStack
<1>2. n = Len(stack) /\ (n = 0 <=> stack = <<>>)
  <2>1. stack \in Seq(Frame)
    BY DEF OInv, CInv, TypeOK
  <2> QED
    BY <2>1
<1> HIDE DEF n
<1>3. ASSUME NEW i \in 1..(n + 1) PROVE Follows(stack'[i], WorldAt(i)')
  <2>1. CASE i = n + 1
    BY <2>1, <1>1 DEF WorldAt
  <2>2. CASE i # n + 1
    <3>1. i \in 1..n /\ i \in 1..Len(stack) /\ (i # n => i + 1 \in 1..n)
      BY <2>2, <1>1, <1>2
    <3>2. Follows(stack[i], WorldAt(i))
      BY <3>1 DEF OInv, Levels
    <3>3. WorldAt(i)' = stack'[i + 1].entry
      BY <2>2, <1>1 DEF WorldAt
    <3>4. WorldAt(i) = stack'[i + 1].entry
      BY <3>1, <1>1, <1>2 DEF WorldAt
    <3> QED
      BY <3>1, <3>2, <3>3, <3>4, <1>1
  <2> QED
    BY <2>1, <2>2
<1>4. ASSUME NEW i \in 1..(n + 1), i # n + 1 PROVE stack'[i].pc \in {"vault", "troves", "swap"}
  <2>1. i \in 1..n /\ i \in 1..Len(stack) /\ n # 0
    BY <1>1, <1>2, <1>4
  <2>2. stack[i].pc \in {"vault", "troves", "swap"}
    BY <2>1, <1>2 DEF OInv, Levels, InStrategy, Top
  <2> QED
    BY <2>1, <2>2, <1>1
<1>5. Rests(stack'[1].entry)
  <2>1. CASE n = 0
    BY <2>1, <1>1, <1>2 DEF OInv, Levels
  <2>2. CASE n # 0
    <3>1. 1 \in 1..n
      BY <2>2, <1>1
    <3> QED
      BY <3>1, <2>2, <1>1, <1>2 DEF OInv, Levels
  <2> QED
    BY <2>1, <2>2
<1> QED
  BY <1>1, <1>3, <1>4, <1>5 DEF Levels

LEMMA PopLevels ==
  ASSUME OInv, stack # <<>>, Pop, Now' \in World, Leaves(Top.entry, Now')
  PROVE  Levels'
<1> DEFINE n == Len(stack)
<1>1. /\ n \in Nat \ {0} /\ stack' \in Seq(Frame) /\ Len(stack') = n - 1
      /\ \A i \in 1..(n - 1) : stack'[i] = stack[i]
  BY PopStack DEF OInv, CInv, TypeOK, Pop
<1>2. n = Len(stack) /\ (n = 1 <=> stack' = <<>>) /\ stack \in Seq(Frame)
  <2>1. n = Len(stack) /\ stack \in Seq(Frame)
    BY DEF OInv, CInv, TypeOK
  <2> HIDE DEF n
  <2>2. Len(stack') = 0 <=> stack' = <<>>
    BY <1>1
  <2>3. n = 1 <=> Len(stack') = 0
    BY <1>1
  <2> QED
    BY <2>1, <2>2, <2>3
<1>3. Top = stack[n] /\ Top.entry \in World
  BY TopFollows DEF Top
<1> HIDE DEF n
<1>4. ASSUME NEW i \in 1..(n - 1) PROVE Follows(stack'[i], WorldAt(i)')
  <2>1. /\ i \in 1..n /\ i \in 1..Len(stack) /\ i # n /\ i + 1 \in 1..n
        /\ (i # n - 1 => i + 1 \in 1..(n - 1))
    BY <1>1, <1>2
  <2>2. /\ Follows(stack[i], stack[i + 1].entry) /\ stack[i] \in Frame
        /\ stack[i].pc \in {"vault", "troves", "swap"}
    <3>1. WorldAt(i) = stack[i + 1].entry
      BY <2>1, <1>2 DEF WorldAt
    <3>2. stack[i] \in Frame
      BY <2>1, <1>2
    <3> QED
      BY <3>1, <3>2, <2>1, <1>2 DEF OInv, Levels
  <2>3. CASE i = n - 1
    <3>1. WorldAt(i)' = Now' /\ i + 1 = n
      BY <2>3, <1>1 DEF WorldAt
    <3> QED
      BY <3>1, <2>2, <1>1, <1>3, FollowsOn
  <2>4. CASE i # n - 1
    <3>1. WorldAt(i)' = stack'[i + 1].entry
      BY <2>4, <1>1 DEF WorldAt
    <3>2. stack'[i + 1] = stack[i + 1] /\ stack'[i] = stack[i]
      BY <2>1, <2>4, <1>1
    <3> QED
      BY <3>1, <3>2, <2>2
  <2> QED
    BY <2>3, <2>4
<1>5. ASSUME NEW i \in 1..(n - 1), i # n - 1
      PROVE  stack'[i].pc \in {"vault", "troves", "swap"}
  <2>1. i \in 1..Len(stack) /\ i # Len(stack)
    BY <1>1, <1>2
  <2> QED
    BY <2>1, <1>1 DEF OInv, Levels
<1>6. CASE n = 1
  <2>1. Rests(Now')
    BY <1>2, <1>3, <1>6, RestsOn DEF OInv, Levels
  <2> QED
    BY <2>1, <1>1, <1>2, <1>4, <1>5, <1>6 DEF Levels
<1>7. CASE n # 1
  <2>1. 1 \in 1..(n - 1)
    BY <1>1, <1>7
  <2>2. stack'[1].entry = stack[1].entry
    BY <2>1, <1>1
  <2> QED
    BY <2>2, <1>1, <1>2, <1>4, <1>5, <1>7 DEF OInv, Levels
<1> QED
  BY <1>6, <1>7

-----------------------------------------------------------------------------
(* How an invocation ends.                                                 *)

LEMMA RevertLevels ==
  ASSUME OInv, stack # <<>>, RevertApply(Top)
  PROVE  Levels'
<1>1. Now' = Top.entry
  BY TopFollows DEF RevertApply, Now, World
<1>2. Pop /\ Top.entry \in World /\ Housed(Top.entry)
  BY TopFollows DEF RevertApply, Follows
<1> QED
  BY <1>1, <1>2, LeavesSelf, PopLevels

\* A credit to an owner with an account keeps what Since says.
LEMMA CreditSince ==
  ASSUME NEW u \in World, NEW v \in World, NEW w \in World, Since(u, v),
         NEW e \in v.deployed, NEW t \in Tokens, NEW n \in Nat,
         w.owned = Credit(v.owned, e, t, n), w.deployed = v.deployed
  PROVE  Since(u, w) /\ Since(v, w)
<1>1. /\ u.owned \in [EthAddresses -> [Tokens -> Nat]]
      /\ v.owned \in [EthAddresses -> [Tokens -> Nat]]
      /\ w.owned \in [EthAddresses -> [Tokens -> Nat]] /\ e \in EthAddresses
  BY DEF World
<1>2. /\ \A o \in EthAddresses, k \in Tokens : v.owned[o][k] <= w.owned[o][k]
      /\ \A o \in EthAddresses, k \in Tokens : o # e => w.owned[o][k] = v.owned[o][k]
  <2> DEFINE l == v.owned
             m == Credit(l, e, t, n)
  <2>1. l \in [EthAddresses -> [Tokens -> Nat]] /\ w.owned = m /\ l = v.owned
    BY <1>1
  <2> HIDE DEF l
  <2>2. /\ \A o \in EthAddresses, k \in Tokens : l[o][k] <= m[o][k]
        /\ \A o \in EthAddresses, k \in Tokens : o # e => m[o][k] = l[o][k]
    BY <1>1, <2>1 DEF Credit
  <2> QED
    BY <2>1, <2>2
<1>3. Housed(w)
  BY <1>2 DEF Since, Housed
<1>4. \A o \in EthAddresses, k \in Tokens : u.owned[o][k] <= w.owned[o][k]
  <2>1. \A o \in EthAddresses, k \in Tokens :
          u.owned[o][k] \in Nat /\ v.owned[o][k] \in Nat /\ w.owned[o][k] \in Nat
    BY <1>1
  <2>2. \A o \in EthAddresses, k \in Tokens : u.owned[o][k] <= v.owned[o][k]
    BY DEF Since
  <2> QED
    BY <1>2, <2>1, <2>2
<1> QED
  BY <1>2, <1>3, <1>4 DEF Since

\* handle_apply_on_self_result on an error, from a world the call left.
LEMMA ErrorLevels ==
  ASSUME OInv, stack # <<>>, Now' \in World, NEW w \in World, Leaves(Top.entry, w),
         Top.call.eth \in w.deployed, handle_apply_on_self_error(Top, w)
  PROVE  Levels'
<1>1. CASE w.held[Top.call.token] >= Top.call.amount
  <2>1. /\ Pop /\ Now'.allow = w.allow /\ Now'.deployed = w.deployed
        /\ Now'.owned = Credit(w.owned, Top.call.eth, Top.call.token, Top.call.amount)
    BY <1>1 DEF handle_apply_on_self_error, Now
  <2>2. Top.call.token \in Tokens /\ Top.call.amount \in Nat /\ Top.entry \in World
    BY TopFollows, CallTyped
  <2>3. Since(Top.entry, Now')
    BY <2>1, <2>2, CreditSince DEF Leaves
  <2>4. Leaves(Top.entry, Now')
    BY <2>1, <2>3 DEF Leaves
  <2> QED
    BY <2>1, <2>4, PopLevels
<1>2. CASE ~(w.held[Top.call.token] >= Top.call.amount)
  BY <1>2, RevertLevels DEF handle_apply_on_self_error
<1> QED
  BY <1>1, <1>2

\* While nothing is entrusted to a strategy, a call leaves what it was called with.
LEMMA NothingEntrusted ==
  ASSUME NEW f \in Frame, f.pc \in {"header", "dispatch", "report"}, NEW w, Follows(f, w)
  PROVE  Leaves(f.entry, w)
<1>1. \A t \in Tokens, s \in StrategyAddresses : ~Entrusted(f, t, s)
  BY DEF Entrusted
<1> QED
  BY <1>1 DEF Follows, Leaves

-----------------------------------------------------------------------------
(* One lemma per action.                                                   *)

LEMMA ApplyLevels ==
  ASSUME OInv, Now' \in World, NEW call \in Calls, Apply(call)
  PROVE  Levels'
<1> DEFINE f == [id |-> applies, call |-> call, pc |-> "header", entry |-> Now, rescue |-> Now,
                 settled |-> FALSE, spent |-> 0, got |-> 0, lst |-> 0,
                 sell_token_before |-> 0, buy_token_before |-> 0, shares |-> 0]
<1>1. Now \in World /\ Housed(Now)
  <2>1. Now \in World
    BY NowTyped DEF OInv, CInv
  <2>2. CASE stack = <<>>
    BY <2>1, <2>2 DEF OInv, Levels, Rests
  <2>3. CASE stack # <<>>
    BY <2>1, <2>3, TopFollows DEF Follows, Since
  <2> QED
    BY <2>2, <2>3
<1>2. /\ f \in Frame /\ f.pc = "header" /\ f.call = call /\ f.entry = Now /\ f.rescue = Now
  BY <1>1 DEF Frame, TypeOK, OInv, CInv
<1>3. stack' = Append(stack, f) /\ (stack = <<>> \/ InStrategy) /\ call.amount > 0
      /\ Now'.allow = Now.allow /\ Now'.owned = Now.owned /\ Now'.deployed = Now.deployed
  BY DEF Apply, Now
<1> HIDE DEF f
<1>4. Leaves(Now, Now)
  BY <1>1, LeavesSelf
<1>5. Leaves(Now, Now')
  BY <1>3, <1>4 DEF Leaves, Since, Housed
<1>6. Follows(f, Now')
  BY <1>1, <1>2, <1>3, <1>4, <1>5 DEF Follows, Entrusted, Bought, Leaves
<1> QED
  BY <1>2, <1>3, <1>6, PushLevels

LEMMA DeployLevels ==
  ASSUME OInv, Now' \in World, ApplyDeploysAccount
  PROVE  Levels'
<1> DEFINE f == Top
           g == [f EXCEPT !.pc = "dispatch"]
<1>1. stack # <<>> /\ f.pc = "header"
  BY DEF ApplyDeploysAccount, At
<1>2. f \in Frame /\ Follows(f, Now) /\ f.call.eth \in EthAddresses
  BY <1>1, TopFollows, CallTyped
<1>3. /\ g \in Frame /\ g.pc = "dispatch" /\ g.call = f.call /\ g.entry = f.entry
      /\ g.rescue = f.rescue
  BY <1>2 DEF Frame
<1>4. /\ stack' = [stack EXCEPT ![Len(stack)] = g] /\ Now'.allow = Now.allow
      /\ Now'.owned = Now.owned /\ Now'.deployed = Now.deployed \cup {f.call.eth}
  BY DEF ApplyDeploysAccount, Become, Now
<1> HIDE DEF f, g
<1>5. Leaves(f.entry, Now)
  BY <1>1, <1>2, NothingEntrusted DEF f
<1>6. Leaves(f.entry, Now')
  BY <1>4, <1>5 DEF Leaves, Since, Housed
<1>7. Follows(g, Now')
  BY <1>2, <1>3, <1>4, <1>6 DEF Follows, Entrusted, Bought, Leaves
<1> QED
  BY <1>1, <1>3, <1>4, <1>7, UpdateLevels DEF f

LEMMA RefusesLevels ==
  ASSUME OInv, Now' \in World, ApplyOnSelfRefuses
  PROVE  Levels'
<1>1. stack # <<>> /\ Top.pc = "dispatch"
      /\ handle_apply_on_self_error(Top, RolledBack(Dispatched(Top)))
  BY DEF ApplyOnSelfRefuses, At
<1>2. RolledBack(Dispatched(Top)) = Now
  BY <1>1, TopFollows DEF RolledBack, Dispatched, Frame
<1>3. Leaves(Top.entry, Now) /\ Top.call.eth \in Now.deployed
  BY <1>1, TopFollows, NothingEntrusted DEF Follows
<1> QED
  BY <1>1, <1>2, <1>3, TopFollows, ErrorLevels

LEMMA FailsLevels ==
  ASSUME OInv, Now' \in World, StrategyFails
  PROVE  Levels'
<1>1. stack # <<>> /\ Top.pc \in {"vault", "troves", "swap", "report"}
      /\ handle_apply_on_self_error(Top, RolledBack(Top))
  BY DEF StrategyFails, InStrategy, At
<1>2. RolledBack(Top) = Top.rescue
  BY DEF RolledBack
<1>3. Leaves(Top.entry, Top.rescue) /\ Top.call.eth \in Top.rescue.deployed
  BY <1>1, TopFollows DEF Follows
<1> QED
  BY <1>1, <1>2, <1>3, TopFollows, ErrorLevels

LEMMA ReportLevels ==
  ASSUME OInv, Now' \in World, ReportAction
  PROVE  Levels'
<1>1. /\ stack # <<>> /\ Top.pc = "report" /\ Pop /\ Now'.allow = Now.allow
      /\ Now'.owned = Now.owned /\ Now'.deployed = Now.deployed
  BY DEF ReportAction, At, Now
<1>2. Leaves(Top.entry, Now)
  BY <1>1, TopFollows, NothingEntrusted
<1>3. Leaves(Top.entry, Now')
  BY <1>1, <1>2 DEF Leaves, Since, Housed
<1> QED
  BY <1>1, <1>3, PopLevels

\* approve: the allowance of one pair is set, the others stay.
LEMMA ApproveSets ==
  ASSUME TypeOK, NEW token \in Tokens, NEW strategy \in StrategyAddresses, NEW n,
         Approve(token, strategy, n)
  PROVE  \A t \in Tokens, s \in StrategyAddresses :
           allow'[t][s] = IF t = token /\ s = strategy THEN n ELSE allow[t][s]
BY DEF Approve, TypeOK

\* A call of a strategy: one pair is approved for the whole amount.
LEMMA DispatchLevels ==
  ASSUME OInv, stack # <<>>, Top.pc = "dispatch", Now' \in World, NEW g \in Frame,
         stack' = [stack EXCEPT ![Len(stack)] = g], g.entry = Top.entry, g.call = Top.call,
         g.rescue = Now, g.pc \in {"vault", "swap"}, g.spent = 0,
         Asset(g) \in Tokens, Spender(g) \in StrategyAddresses,
         Approve(Asset(g), Spender(g), Assets(g)), UNCHANGED <<owned, deployed>>
  PROVE  Levels'
<1>1. Top \in Frame /\ Follows(Top, Now) /\ Leaves(Top.entry, Now)
  BY TopFollows, NothingEntrusted
<1>2. Now'.owned = Now.owned /\ Now'.deployed = Now.deployed /\ Now'.allow = allow'
      /\ Now.allow = allow
  BY DEF Now
<1>3. Since(g.entry, Now')
  BY <1>1, <1>2 DEF Leaves, Since, Housed
<1>4. Assets(g) = g.call.amount /\ g.call.amount \in Nat
  BY CallTyped DEF Assets
<1>5. ASSUME NEW t \in Tokens, NEW s \in StrategyAddresses
      PROVE  Now'.allow[t][s] <= IF Entrusted(g, t, s) THEN Assets(g) - g.spent
                                 ELSE g.entry.allow[t][s]
  <2>1. allow'[t][s] = IF t = Asset(g) /\ s = Spender(g) THEN Assets(g) ELSE allow[t][s]
    BY ApproveSets DEF OInv, CInv
  <2>2. allow[t][s] <= g.entry.allow[t][s]
    BY <1>1, <1>2 DEF Leaves
  <2> QED
    BY <1>2, <1>4, <2>1, <2>2 DEF Entrusted
<1>6. Follows(g, Now')
  BY <1>1, <1>2, <1>3, <1>5 DEF Follows, Bought
<1> QED
  BY <1>6, UpdateLevels

LEMMA DepositsLevels ==
  ASSUME OInv, Now' \in World, ApplyOnSelfDeposits
  PROVE  Levels'
<1> DEFINE d == Dispatched(Top)
           f == [d EXCEPT !.pc = "vault"]
<1>1. stack # <<>> /\ Top.pc = "dispatch" /\ Kind(Top) \in StrategyKinds \ {"Avnu"}
      /\ PayloadAccepted(Top.call, Kind(Top))
  BY DEF ApplyOnSelfDeposits, At
<1>2. /\ d \in Frame /\ d.call = Top.call /\ d.entry = Top.entry /\ d.rescue = Now
      /\ d.spent = 0 /\ d.got = 0 /\ ~d.settled
  BY <1>1, TopTyped, DispatchedTyped DEF OInv, CInv, Dispatched, Frame, Accepted
<1>3. /\ f \in Frame /\ f.pc = "vault" /\ f.call = Top.call /\ f.entry = Top.entry
      /\ f.rescue = Now /\ f.spent = 0 /\ f.got = 0 /\ ~f.settled
  <2> HIDE DEF d
  <2> QED
    BY <1>2 DEF Frame
<1>4. /\ stack' = [stack EXCEPT ![Len(stack)] = f] /\ UNCHANGED <<owned, deployed>>
      /\ Approve(Asset(f), Vault(f), Assets(f))
  BY DEF ApplyOnSelfDeposits, Become
<1> HIDE DEF f
<1>5. Accepted(f)
  <2>1. Kind(f) = Kind(Top)
    BY <1>3 DEF Kind
  <2> QED
    BY <1>1, <1>3, <2>1 DEF Accepted
<1>6. Asset(f) \in Tokens /\ Vault(f) \in StrategyAddresses /\ Spender(f) = Vault(f)
  BY <1>3, <1>5, DepositTyped, VaultsAreTokens DEF Spender
<1> QED
  BY <1>1, <1>3, <1>4, <1>6, DispatchLevels

LEMMA SwapsLevels ==
  ASSUME OInv, Now' \in World, ApplyOnSelfSwaps
  PROVE  Levels'
<1> DEFINE d == Dispatched(Top)
           f == [d EXCEPT !.pc = "swap",
                   !.sell_token_before = held[Top.call.token],
                   !.buy_token_before = held[Top.call.swap.buy]]
<1>1. stack # <<>> /\ Top.pc = "dispatch"
  BY DEF ApplyOnSelfSwaps, At
<1>2. /\ d \in Frame /\ d.call = Top.call /\ d.entry = Top.entry /\ d.rescue = Now
      /\ d.spent = 0
  BY <1>1, TopTyped, DispatchedTyped DEF OInv, CInv, Dispatched, Frame, Accepted
<1>3. held[Top.call.token] \in Nat /\ held[Top.call.swap.buy] \in Nat /\ Top.call.token \in Tokens
  BY <1>1, TopTyped, CallTyped DEF OInv, CInv, TypeOK
<1>4. /\ f \in Frame /\ f.pc = "swap" /\ f.call = Top.call /\ f.entry = Top.entry
      /\ f.rescue = Now /\ f.spent = 0
  <2> HIDE DEF d
  <2> QED
    BY <1>2, <1>3 DEF Frame
<1>5. /\ stack' = [stack EXCEPT ![Len(stack)] = f] /\ UNCHANGED <<owned, deployed>>
      /\ Approve(Top.call.token, AvnuExchange, Top.call.amount)
  BY DEF ApplyOnSelfSwaps, Become
<1> HIDE DEF f
<1>6. /\ Asset(f) = Top.call.token /\ Spender(f) = AvnuExchange /\ Assets(f) = Top.call.amount
      /\ AvnuExchange \in StrategyAddresses
  BY <1>4 DEF Asset, Spender, Assets, StrategyAddresses
<1> QED
  BY <1>1, <1>3, <1>4, <1>5, <1>6, DispatchLevels

\* What a strategy takes comes off the one allowance it has.
LEMMA VaultLevels ==
  ASSUME OInv, Now' \in World, NEW shares \in Outputs, VaultTakes(shares)
  PROVE  Levels'
<1> DEFINE f == Top
           g == [f EXCEPT !.settled = TRUE, !.spent = Assets(f), !.got = shares]
<1>1. stack # <<>> /\ f.pc \in {"vault", "troves"} /\ ~f.settled
      /\ allow[Asset(f)][Vault(f)] >= Assets(f)
  BY DEF VaultTakes, InStrategy
<1>2. f \in Frame /\ Accepted(f) /\ Follows(f, Now) /\ f.call.eth \in EthAddresses
      /\ f.entry \in World /\ f.spent = 0
  BY <1>1, TopFollows, CallTyped DEF Accepted
<1>3. /\ Asset(f) \in Tokens /\ Assets(f) \in Nat /\ shares \in Nat
      /\ Vault(f) \in Tokens /\ Vault(f) \in StrategyAddresses
  BY <1>1, <1>2, DepositTyped, VaultsAreTokens, StrategyAssumption
<1>4. /\ g \in Frame /\ g.pc = f.pc /\ g.call = f.call /\ g.lst = f.lst
      /\ g.spent = Assets(f) /\ g.entry = f.entry /\ g.rescue = f.rescue
  BY <1>2, <1>3 DEF Frame
<1>5. /\ stack' = [stack EXCEPT ![Len(stack)] = g] /\ Now'.deployed = Now.deployed
      /\ allow' = [allow EXCEPT ![Asset(f)][Vault(f)] = @ - Assets(f)]
      /\ \/ Now'.owned = Now.owned
         \/ Now'.owned = Credit(Now.owned, f.call.eth, Vault(f), shares)
      /\ Now'.allow = allow' /\ Now.allow = allow
  BY DEF VaultTakes, Become, Now
<1>6. Kind(g) = Kind(f) /\ Asset(g) = Asset(f) /\ Assets(g) = Assets(f) /\ Vault(g) = Vault(f)
  BY <1>4 DEF Kind, Asset, Assets, Vault, LST
<1> HIDE DEF f, g
<1>7. Since(f.entry, Now) /\ f.call.eth \in Now.deployed /\ Now \in World
  BY <1>1, <1>2, TopFollows DEF Follows, f
<1>8. Since(f.entry, Now')
  <2>1. CASE Now'.owned = Now.owned
    BY <1>5, <1>7, <2>1 DEF Since, Housed
  <2>2. CASE Now'.owned = Credit(Now.owned, f.call.eth, Vault(f), shares)
    BY <1>2, <1>3, <1>5, <1>7, <2>2, CreditSince
  <2> QED
    BY <1>5, <2>1, <2>2
<1>9. ASSUME NEW t \in Tokens, NEW s \in StrategyAddresses
      PROVE  Now'.allow[t][s] <= IF Entrusted(g, t, s) THEN Assets(g) - g.spent
                                 ELSE g.entry.allow[t][s]
  <2>1. allow[t][s] <= IF t = Asset(f) /\ s = Vault(f) THEN Assets(f) ELSE f.entry.allow[t][s]
    <3>1. Entrusted(f, t, s) <=> t = Asset(f) /\ s = Vault(f)
      BY <1>1 DEF Entrusted, Spender
    <3>2. allow[t][s] <= IF Entrusted(f, t, s) THEN Assets(f) - f.spent ELSE f.entry.allow[t][s]
      BY <1>2, <1>5 DEF Follows
    <3>3. Assets(f) - f.spent = Assets(f)
      BY <1>2, <1>3
    <3> QED
      BY <3>1, <3>2, <3>3
  <2>2. allow'[t][s] = IF t = Asset(f) /\ s = Vault(f) THEN allow[t][s] - Assets(f) ELSE allow[t][s]
    BY <1>3, <1>5 DEF OInv, CInv, TypeOK
  <2>3. allow[t][s] \in Nat
    BY DEF OInv, CInv, TypeOK
  <2>4. Entrusted(g, t, s) <=> t = Asset(f) /\ s = Vault(f)
    BY <1>1, <1>4, <1>6 DEF Entrusted, Spender
  <2> QED
    BY <1>3, <1>4, <1>5, <1>6, <2>1, <2>2, <2>3, <2>4
<1>10. Follows(g, Now')
  BY <1>1, <1>2, <1>4, <1>5, <1>7, <1>8, <1>9 DEF Follows, Bought
<1> QED
  BY <1>1, <1>4, <1>5, <1>10, UpdateLevels DEF f

LEMMA ExchangeLevels ==
  ASSUME OInv, Now' \in World, NEW sold \in Nat, NEW bought \in Outputs,
         ExchangeFills(sold, bought)
  PROVE  Levels'
<1> DEFINE f == Top
           sell == f.call.token
           g == [f EXCEPT !.settled = TRUE, !.spent = sold, !.got = bought]
<1>1. stack # <<>> /\ f.pc = "swap" /\ ~f.settled
  BY DEF ExchangeFills, At
<1>2. f \in Frame /\ Accepted(f) /\ Follows(f, Now) /\ sell \in Tokens /\ bought \in Nat
      /\ f.call.amount \in Nat /\ f.spent = 0
  BY <1>1, TopFollows, CallTyped, StrategyAssumption DEF Accepted
<1>3. /\ g \in Frame /\ g.pc = "swap" /\ g.call = f.call
      /\ g.spent = sold /\ g.entry = f.entry /\ g.rescue = f.rescue
  BY <1>1, <1>2 DEF Frame
<1>4. f.call.swap.sell = sell
  BY <1>1, <1>2, SwapHolding
<1>5. /\ stack' = [stack EXCEPT ![Len(stack)] = g] /\ Now'.deployed = Now.deployed
      /\ allow' = [allow EXCEPT ![sell][AvnuExchange] = @ - sold]
      /\ Now'.owned = Now.owned /\ Now'.allow = allow' /\ Now.allow = allow
  BY <1>4 DEF ExchangeFills, Become, Now
<1> HIDE DEF g
<1>6. Since(g.entry, Now')
  BY <1>2, <1>3, <1>5 DEF Follows, Since, Housed
<1>7. ASSUME NEW t \in Tokens, NEW s \in StrategyAddresses
      PROVE  Now'.allow[t][s] <= IF Entrusted(g, t, s) THEN Assets(g) - g.spent
                                 ELSE g.entry.allow[t][s]
  <2>1. \A h \in {f, g} : /\ Entrusted(h, t, s) <=> t = sell /\ s = AvnuExchange
                          /\ Assets(h) = f.call.amount
    BY <1>1, <1>3 DEF Entrusted, Spender, Asset, Assets
  <2>2. allow[t][s] <= IF t = sell /\ s = AvnuExchange THEN f.call.amount
                       ELSE f.entry.allow[t][s]
    BY <1>2, <1>5, <2>1 DEF Follows
  <2>3. allow'[t][s] = IF t = sell /\ s = AvnuExchange THEN allow[t][s] - sold ELSE allow[t][s]
    BY <1>2, <1>5 DEF OInv, CInv, TypeOK
  <2>4. allow[t][s] \in Nat
    BY DEF OInv, CInv, TypeOK
  <2> HIDE DEF f, sell
  <2> QED
    BY <1>2, <1>3, <1>5, <2>1, <2>2, <2>3, <2>4
<1>8. Follows(g, Now')
  BY <1>1, <1>2, <1>3, <1>5, <1>6, <1>7 DEF Follows, Bought
<1> QED
  BY <1>1, <1>3, <1>5, <1>8, UpdateLevels

LEMMA DepositReturnsLevels ==
  ASSUME OInv, Now' \in World, DepositReturns
  PROVE  Levels'
<1> DEFINE f == Top
           g == [f EXCEPT !.pc = "report", !.shares = f.got]
<1>1. stack # <<>> /\ f.pc \in {"vault", "troves"} /\ f.settled
  BY DEF DepositReturns, InStrategy
<1>2. f \in Frame /\ Accepted(f) /\ Follows(f, Now) /\ f.got \in Nat /\ f.entry \in World
  BY <1>1, TopFollows DEF Frame
<1>3. /\ g \in Frame /\ g.pc = "report" /\ g.call = f.call /\ g.entry = f.entry
      /\ g.rescue = f.rescue
  BY <1>2 DEF Frame
<1>4. /\ stack' = [stack EXCEPT ![Len(stack)] = g] /\ Now'.deployed = Now.deployed
      /\ Now'.owned = Now.owned /\ Now'.allow = Now.allow
  BY DEF DepositReturns, Become, Now
<1>5. Kind(f) # "Avnu" /\ f.spent = Assets(f) /\ Assets(f) \in Nat
  BY <1>1, <1>2, DepositTyped DEF Accepted
<1> HIDE DEF g
<1>6. Kind(g) # "Avnu"
  BY <1>3, <1>5 DEF Kind
<1>7. Since(g.entry, Now')
  BY <1>2, <1>3, <1>4 DEF Follows, Since, Housed
<1>8. ASSUME NEW t \in Tokens, NEW s \in StrategyAddresses
      PROVE  Now'.allow[t][s] <= g.entry.allow[t][s]
  <2>1. Now.allow[t][s] <= IF Entrusted(f, t, s) THEN 0 ELSE f.entry.allow[t][s]
    BY <1>2, <1>5 DEF Follows
  <2>2. Now.allow[t][s] \in Nat /\ f.entry.allow[t][s] \in Nat
    BY <1>1, <1>2, TopFollows, WorldTyped
  <2> HIDE DEF f
  <2> QED
    BY <1>3, <1>4, <2>1, <2>2
<1>9. Follows(g, Now')
  BY <1>1, <1>2, <1>3, <1>4, <1>6, <1>7, <1>8 DEF Follows, Bought, Entrusted
<1> QED
  BY <1>1, <1>3, <1>4, <1>9, UpdateLevels

LEMMA TrovesLevels ==
  ASSUME OInv, Now' \in World, TrovesDepositsLST
  PROVE  Levels'
<1> DEFINE f == Top
           g == [f EXCEPT !.pc = "troves", !.lst = f.got, !.settled = FALSE, !.spent = 0, !.got = 0]
<1>1. stack # <<>> /\ f.pc = "vault" /\ f.settled /\ Kind(f) = "Troves"
  BY DEF TrovesDepositsLST, At, KeepsShares
<1>2. f \in Frame /\ Accepted(f) /\ Follows(f, Now) /\ f.got \in Nat /\ f.entry \in World
  BY <1>1, TopFollows DEF Frame
<1>3. /\ g \in Frame /\ g.pc = "troves" /\ g.call = f.call /\ g.entry = f.entry
      /\ g.rescue = f.rescue /\ g.lst = f.got /\ g.spent = 0 /\ g.got = 0 /\ ~g.settled
  BY <1>2 DEF Frame
<1>4. /\ stack' = [stack EXCEPT ![Len(stack)] = g] /\ Now'.deployed = Now.deployed
      /\ Now'.owned = Now.owned /\ Now'.allow = allow' /\ Now.allow = allow
      /\ Approve(Asset(g), Vault(g), Assets(g))
  BY DEF TrovesDepositsLST, Become, Now
<1>5. f.spent = Assets(f) /\ Assets(f) \in Nat
  BY <1>1, <1>2, DepositTyped DEF Accepted
<1> HIDE DEF g
<1>6. Asset(g) \in Tokens /\ Vault(g) \in StrategyAddresses /\ Assets(g) = g.lst /\ g.lst \in Nat
  <2>1. Kind(g) = Kind(f)
    BY <1>3 DEF Kind
  <2>2. Accepted(g)
    BY <1>1, <1>2, <1>3, <2>1 DEF Accepted
  <2> QED
    BY <1>2, <1>3, <2>2, DepositTyped, VaultsAreTokens DEF Assets
<1>7. Since(g.entry, Now')
  BY <1>2, <1>3, <1>4 DEF Follows, Since, Housed
<1>8. ASSUME NEW t \in Tokens, NEW s \in StrategyAddresses
      PROVE  Now'.allow[t][s] <= IF Entrusted(g, t, s) THEN Assets(g) - g.spent
                                 ELSE g.entry.allow[t][s]
  <2>1. Now.allow[t][s] <= IF Entrusted(f, t, s) THEN 0 ELSE f.entry.allow[t][s]
    BY <1>2, <1>5 DEF Follows
  <2>2. Now.allow[t][s] \in Nat /\ f.entry.allow[t][s] \in Nat
    BY <1>1, <1>2, TopFollows, WorldTyped
  <2>3. allow'[t][s] = IF t = Asset(g) /\ s = Vault(g) THEN Assets(g) ELSE allow[t][s]
    BY <1>4, <1>6, ApproveSets DEF OInv, CInv
  <2>4. Entrusted(g, t, s) <=> t = Asset(g) /\ s = Vault(g)
    BY <1>3 DEF Entrusted, Spender
  <2> HIDE DEF f
  <2> QED
    BY <1>3, <1>4, <1>6, <2>1, <2>2, <2>3, <2>4
<1>9. Follows(g, Now')
  BY <1>1, <1>2, <1>3, <1>4, <1>7, <1>8 DEF Follows, Bought
<1> QED
  BY <1>1, <1>3, <1>4, <1>9, UpdateLevels

\* What a swap that returns has sold: the whole amount when nothing is refunded,
\* and nothing when the bought token is the sold one.
LEMMA SwapSold ==
  ASSUME OInv, SwapReturns
  PROVE  /\ Refund(Top) = 0 => Top.spent = Top.call.amount
         /\ Top.call.swap.buy = Top.call.token => Refund(Top) = Top.call.amount
<1> DEFINE f == Top
           sell == f.call.token
           buy == f.call.swap.buy
           e == f.entry.held
           h == f.rescue.held
           a == AfterBuy(f)
           amount == f.call.amount
<1>1. stack # <<>> /\ f.pc = "swap" /\ SwapChecks(f)
  BY DEF SwapReturns, At
<1>2. /\ f \in Frame /\ Accepted(f) /\ held \in [Tokens -> Nat] /\ e \in [Tokens -> Nat]
      /\ sell \in Tokens /\ buy \in Tokens /\ amount \in Nat /\ f.spent \in Nat
      /\ f.got \in Nat /\ f.sell_token_before \in Nat /\ f.buy_token_before \in Nat
  BY <1>1, TopTyped, CallTyped DEF OInv, CInv, TypeOK, World, Frame
<1>3. /\ a \in [Tokens -> Nat]
      /\ \A t \in Tokens : a[t] = IF t = buy THEN f.buy_token_before ELSE held[t]
  BY <1>1, <1>2, SwapArithmetic DEF OInv, CInv
<1>4. /\ h = [e EXCEPT ![sell] = @ + amount]
      /\ f.sell_token_before = h[sell] /\ f.buy_token_before = h[buy]
  BY <1>1, TopCustody DEF OInv, CInv, Saved, Funded, Measured
<1>5. held[sell] = e[sell] + Holding(f, sell) /\ f.call.amount > 0
  BY <1>1, <1>2, TopCustody, TopFollows DEF OInv, CInv, Follows
<1>6. Holding(f, sell) = (amount - f.spent) + (IF sell = buy THEN f.got ELSE 0)
  BY <1>1, <1>2, SwapHolding
<1>7. Refund(f) = amount - (f.sell_token_before - a[sell])
  BY DEF Refund, Used
<1> DEFINE before == f.sell_token_before
           bought == f.buy_token_before
           spent == f.spent
           got == f.got
           refund == Refund(f)
           kept == Holding(f, sell)
           had == e[sell]
           left == a[sell]
           has == held[sell]
<1>8. /\ before = had + amount /\ (buy = sell => bought = before)
      /\ left = (IF sell = buy THEN bought ELSE has)
  <2> HIDE DEF e, h, a, sell, buy, f, amount
  <2> QED
    BY <1>2, <1>3, <1>4
<1>9. {before, bought, spent, got, had, left, has, amount} \subseteq Nat
  BY <1>2, <1>3
<1>10. /\ has = had + kept /\ amount > 0 /\ refund = amount - (before - left)
       /\ kept = (amount - spent) + (IF sell = buy THEN got ELSE 0)
  BY <1>5, <1>6, <1>7
<1>11. (refund = 0 => spent = amount) /\ (buy = sell => refund = amount)
  <2> HIDE DEF before, bought, spent, got, refund, kept, had, left, has, amount, sell, buy
  <2> QED
    BY <1>8, <1>9, <1>10
<1> QED
  BY <1>11

LEMMA SwapReturnsLevels ==
  ASSUME OInv, Now' \in World, SwapReturns
  PROVE  Levels'
<1> DEFINE f == Top
           sell == f.call.token
           buy == f.call.swap.buy
           eth == f.call.eth
           bought == Credit(owned, eth, buy, Gained(f))
           g == [f EXCEPT !.pc = "report", !.shares = Gained(f)]
<1>1. stack # <<>> /\ f.pc = "swap" /\ SwapChecks(f)
  BY DEF SwapReturns, At
<1>2. /\ f \in Frame /\ Accepted(f) /\ Follows(f, Now) /\ f.entry \in World
      /\ sell \in Tokens /\ buy \in Tokens /\ eth \in EthAddresses
      /\ f.call.amount \in Nat /\ f.call.swap.min \in Nat
  BY <1>1, TopFollows, CallTyped
<1>3. Gained(f) \in Nat /\ Refund(f) \in Nat /\ Gained(f) >= f.call.swap.min
  BY <1>1, <1>2, SwapArithmetic DEF SwapChecks, OInv, CInv
<1>4. /\ g \in Frame /\ g.pc = "report" /\ g.call = f.call /\ g.entry = f.entry
      /\ g.rescue = f.rescue
  BY <1>2, <1>3 DEF Frame
<1>5. /\ stack' = [stack EXCEPT ![Len(stack)] = g] /\ Now'.deployed = Now.deployed
      /\ Now'.owned = Credit(bought, eth, sell, Refund(f))
      /\ Now'.allow = allow' /\ Now.allow = allow /\ Now.owned = owned
      /\ ResetAllowance(f)
  BY DEF SwapReturns, Become, Now
<1>6. /\ Refund(f) = 0 => f.spent = f.call.amount
      /\ buy = sell => Refund(f) = f.call.amount
  BY SwapSold
<1> HIDE DEF g
<1>7. /\ owned \in [EthAddresses -> [Tokens -> Nat]]
      /\ bought \in [EthAddresses -> [Tokens -> Nat]]
      /\ bought[eth][buy] = owned[eth][buy] + Gained(f)
      /\ \A o \in EthAddresses, k \in Tokens : owned[o][k] <= bought[o][k]
      /\ \A o \in EthAddresses, k \in Tokens : o # eth => bought[o][k] = owned[o][k]
  <2>1. owned \in [EthAddresses -> [Tokens -> Nat]] /\ bought = Credit(owned, eth, buy, Gained(f))
    BY DEF OInv, CInv, TypeOK
  <2> HIDE DEF bought, eth, buy
  <2> QED
    BY <1>2, <1>3, <2>1 DEF Credit
<1> HIDE DEF bought
<1>8. /\ Now'.owned[eth][sell] = bought[eth][sell] + Refund(f)
      /\ \A o \in EthAddresses, k \in Tokens : bought[o][k] <= Now'.owned[o][k]
      /\ \A o \in EthAddresses, k \in Tokens : o # eth => Now'.owned[o][k] = bought[o][k]
      /\ Now'.owned \in [EthAddresses -> [Tokens -> Nat]]
  <2> DEFINE after == Now'.owned
  <2>1. after = Credit(bought, eth, sell, Refund(f))
    BY <1>5
  <2> HIDE DEF after, eth, sell
  <2>2. /\ after[eth][sell] = bought[eth][sell] + Refund(f)
        /\ \A o \in EthAddresses, k \in Tokens : bought[o][k] <= after[o][k]
        /\ \A o \in EthAddresses, k \in Tokens : o # eth => after[o][k] = bought[o][k]
        /\ after \in [EthAddresses -> [Tokens -> Nat]]
    BY <1>2, <1>3, <1>7, <2>1 DEF Credit
  <2> QED
    BY <2>2 DEF after
<1>9. /\ \A o \in EthAddresses, k \in Tokens : f.entry.owned[o][k] <= owned[o][k]
      /\ f.entry.deployed \subseteq Now.deployed /\ eth \in Now.deployed /\ Housed(Now)
      /\ f.entry.owned \in [EthAddresses -> [Tokens -> Nat]]
  BY <1>1, <1>2, <1>5 DEF Follows, Since, World
<1> HIDE DEF f, sell, buy, eth
<1>10. Since(f.entry, Now')
  <2>1. ASSUME NEW o \in EthAddresses, NEW k \in Tokens
        PROVE  f.entry.owned[o][k] <= Now'.owned[o][k]
    <3>1. f.entry.owned[o][k] \in Nat /\ owned[o][k] \in Nat /\ bought[o][k] \in Nat
          /\ Now'.owned[o][k] \in Nat
      BY <1>7, <1>8, <1>9
    <3> QED
      BY <3>1, <1>7, <1>8, <1>9
  <2>2. ASSUME NEW o \in EthAddresses, NEW k \in Tokens, Now'.owned[o][k] # 0
        PROVE  o \in Now'.deployed
    <3>1. CASE o = eth
      BY <3>1, <1>5, <1>9
    <3>2. CASE o # eth
      <4>1. Now.owned[o][k] # 0
        BY <2>2, <3>2, <1>5, <1>7, <1>8
      <4> QED
        BY <4>1, <1>5, <1>9 DEF Housed
    <3> QED
      BY <3>1, <3>2
  <2>3. Housed(Now')
    BY <2>2 DEF Housed
  <2> QED
    BY <1>5, <1>9, <2>1, <2>3 DEF Since
<1>11. Now'.owned[eth][buy] >= f.entry.owned[eth][buy] + f.call.swap.min
         + (IF buy = sell THEN f.call.amount ELSE 0)
  <2>1. /\ f.entry.owned[eth][buy] \in Nat /\ owned[eth][buy] \in Nat
        /\ bought[eth][buy] \in Nat /\ Now'.owned[eth][buy] \in Nat
    BY <1>2, <1>7, <1>8, <1>9
  <2>2. f.entry.owned[eth][buy] <= owned[eth][buy] /\ bought[eth][buy] <= Now'.owned[eth][buy]
    BY <1>2, <1>8, <1>9
  <2>3. buy = sell => Now'.owned[eth][buy] = bought[eth][buy] + f.call.amount
    BY <1>6, <1>8
  <2> QED
    BY <1>2, <1>3, <1>7, <2>1, <2>2, <2>3
<1>12. ASSUME NEW t \in Tokens, NEW s \in StrategyAddresses
       PROVE  Now'.allow[t][s] <= g.entry.allow[t][s]
  <2>1. /\ Entrusted(f, t, s) <=> t = sell /\ s = AvnuExchange
        /\ Assets(f) = f.call.amount
    BY <1>1 DEF Entrusted, Spender, Asset, Assets, sell
  <2>2. allow[t][s] <= IF t = sell /\ s = AvnuExchange THEN f.call.amount - f.spent
                       ELSE f.entry.allow[t][s]
    BY <1>2, <1>5, <2>1 DEF Follows
  <2>3. allow[t][s] \in Nat /\ f.entry.allow[t][s] \in Nat
    BY <1>2, WorldTyped DEF OInv, CInv, TypeOK
  <2>4. CASE Refund(f) > 0
    <3>1. allow'[t][s] = IF t = sell /\ s = AvnuExchange THEN 0 ELSE allow[t][s]
      <4>1. Approve(sell, AvnuExchange, 0) /\ AvnuExchange \in StrategyAddresses
        BY <1>5, <2>4 DEF ResetAllowance, sell, StrategyAddresses
      <4> QED
        BY <1>2, <4>1, ApproveSets DEF OInv, CInv
    <3> QED
      BY <1>4, <1>5, <2>2, <2>3, <3>1
  <2>5. CASE Refund(f) = 0
    <3>1. allow' = allow /\ f.call.amount - f.spent = 0
      BY <1>2, <1>5, <1>6, <2>5 DEF ResetAllowance
    <3> QED
      BY <1>4, <1>5, <2>2, <2>3, <3>1
  <2> QED
    BY <1>3, <2>4, <2>5
<1>13. Follows(g, Now')
  <2>1. Bought(g, Now')
    BY <1>4, <1>11 DEF Bought, eth, buy, sell
  <2>2. g.call.eth \in Now'.deployed /\ g.call.eth \in g.rescue.deployed
    BY <1>1, <1>2, <1>4, <1>5 DEF Follows
  <2>3. g.call.amount > 0 /\ Housed(g.entry) /\ Leaves(g.entry, g.rescue)
    BY <1>2, <1>4 DEF Follows
  <2> QED
    BY <1>4, <1>10, <1>12, <2>1, <2>2, <2>3 DEF Follows, Entrusted
<1> QED
  BY <1>1, <1>4, <1>5, <1>13, UpdateLevels DEF f

\* Steps outside apply, and stuttering.
LEMMA SameLevels ==
  ASSUME OInv, UNCHANGED <<allow, owned, deployed, stack>>,
         stack = <<>> \/ UNCHANGED <<held, log>>
  PROVE  Levels'
<1>1. CASE stack = <<>>
  <2>1. stack' = <<>> /\ 1..Len(stack') = {}
    BY <1>1
  <2>2. /\ Now'.allow = Now.allow /\ Now'.owned = Now.owned /\ Now'.deployed = Now.deployed
    BY DEF Now
  <2>3. Rests(Now')
    BY <1>1, <2>2 DEF OInv, Levels, Rests, Housed
  <2> QED
    BY <2>1, <2>3 DEF Levels
<1>2. CASE stack # <<>>
  <2>1. Now' = Now /\ stack' = stack
    BY <1>2 DEF Now
  <2>2. \A i \in 1..Len(stack) : WorldAt(i)' = WorldAt(i)
    BY <2>1 DEF WorldAt
  <2> QED
    BY <1>2, <2>1, <2>2 DEF OInv, Levels
<1> QED
  BY <1>1, <1>2

-----------------------------------------------------------------------------
LEMMA InitLevels == Init => OInv
<1> SUFFICES ASSUME Init PROVE Levels
  BY InitCustody DEF OInv
<1>1. stack = <<>> /\ 1..Len(stack) = {}
  BY DEF Init
<1>2. \A e \in EthAddresses, t \in Tokens : Now.owned[e][t] = 0
  BY DEF Init, Now
<1>3. \A t \in Tokens, s \in StrategyAddresses : Now.allow[t][s] = 0
  BY DEF Init, Now
<1> QED
  BY <1>1, <1>2, <1>3 DEF Levels, Rests, Housed

LEMMA StepLevels == OInv /\ [Next]_vars => OInv'
<1> SUFFICES ASSUME OInv, [Next]_vars
             PROVE  Levels'
  BY StepCustody DEF OInv
<1>0. Now' \in World
  <2>1. CInv'
    BY StepCustody DEF OInv
  <2> QED
    BY <2>1 DEF CInv, TypeOK, Now, World
<1>1. ASSUME NEW call \in Calls, Apply(call) PROVE Levels'
  BY <1>0, <1>1, ApplyLevels
<1>2. CASE ApplyDeploysAccount
  BY <1>0, <1>2, DeployLevels
<1>3. CASE ApplyPanics
  BY <1>3, RevertLevels DEF ApplyPanics, At
<1>4. CASE ApplyOnSelfRefuses
  BY <1>0, <1>4, RefusesLevels
<1>5. CASE ApplyOnSelfDeposits
  BY <1>0, <1>5, DepositsLevels
<1>6. CASE ApplyOnSelfSwaps
  BY <1>0, <1>6, SwapsLevels
<1>7. ASSUME NEW shares \in Outputs, VaultTakes(shares) PROVE Levels'
  BY <1>0, <1>7, VaultLevels
<1>8. ASSUME At("swap"), NEW sold \in 0..allow[Top.call.token][AvnuExchange],
             NEW bought \in Outputs, ExchangeFills(sold, bought)
      PROVE  Levels'
  <2>1. Top.call.token \in Tokens
    BY <1>8, TopTyped, CallTyped DEF At, OInv, CInv
  <2>2. sold \in Nat
    BY <2>1, <1>8 DEF TypeOK, StrategyAddresses, OInv, CInv
  <2> QED
    BY <1>0, <1>8, <2>2, ExchangeLevels
<1>9. CASE DepositReturns
  BY <1>0, <1>9, DepositReturnsLevels
<1>10. CASE TrovesDepositsLST
  BY <1>0, <1>10, TrovesLevels
<1>11. CASE SwapReturns
  BY <1>0, <1>11, SwapReturnsLevels
<1>12. CASE ReportAction
  BY <1>0, <1>12, ReportLevels
<1>13. CASE StrategyFails
  BY <1>0, <1>13, FailsLevels
<1>14. ASSUME NEW r \in Reporters \cup {Zero}, SetEarnReporter(r) PROVE Levels'
  BY <1>14, SameLevels DEF SetEarnReporter
<1>15. ASSUME NEW t \in Donatable, Donate(t) PROVE Levels'
  BY <1>15, SameLevels DEF Donate
<1>16. CASE UNCHANGED vars
  BY <1>16, SameLevels DEF vars
<1> QED
  BY <1>1, <1>2, <1>3, <1>4, <1>5, <1>6, <1>7, <1>8, <1>9, <1>10, <1>11, <1>12, <1>13,
     <1>14, <1>15, <1>16 DEF Next

LEMMA LevelsInvariant == Spec => []OInv
<1>1. Init => OInv
  BY InitLevels
<1>2. OInv /\ [Next]_vars => OInv'
  BY StepLevels
<1> QED
  BY <1>1, <1>2, PTL DEF Spec

\* Once a transaction is over no strategy may still take tokens of the contract,
\* whatever it took, however often it was called again from inside itself and
\* whatever failed (the approvals of deposit_* and of the Avnu swap).
THEOREM NothingStanding == Spec => []NoStandingAllowance
<1>1. OInv => NoStandingAllowance
  BY DEF OInv, Levels, Rests, Now, NoStandingAllowance
<1> QED
  BY <1>1, LevelsInvariant, PTL

\* Shares, bought tokens and refunds only ever go to accounts that exist, at every
\* step: the rollback of a strategy call keeps the account apply deployed
\* (apply, deploy_account, handle_apply_on_self_result).
THEOREM OwnersHoused == Spec => []OwnersDeployed
<1>1. OInv => OwnersDeployed
  <2> SUFFICES ASSUME OInv, NEW e \in EthAddresses, NEW t \in Tokens, owned[e][t] > 0
               PROVE  e \in deployed
    BY DEF OwnersDeployed
  <2>1. owned[e][t] \in Nat /\ owned[e][t] # 0
    BY DEF OInv, CInv, TypeOK
  <2>2. Housed(Now)
    BY TopFollows DEF OInv, Levels, Rests, Follows, Since
  <2> QED
    BY <2>1, <2>2 DEF Housed, Now
<1> QED
  BY <1>1, LevelsInvariant, PTL

\* A swap that returns has brought its owner buy_token_min_amount, for every minimum,
\* every fill of the exchange and every call made while the exchange ran
\* (multi_route_swap and the assertion on what was gained).
THEOREM MinimumMet == Spec => []SlippageRespected
<1>1. OInv => SlippageRespected
  <2> SUFFICES ASSUME OInv, NEW i \in 1..Len(stack), stack[i].pc = "report",
                      Kind(stack[i]) = "Avnu"
               PROVE  LET f == stack[i]
                          buy == f.call.swap.buy
                          again == IF buy = f.call.token THEN f.call.amount ELSE 0
                      IN owned[f.call.eth][buy]
                           >= f.entry.owned[f.call.eth][buy] + f.call.swap.min + again
    BY DEF SlippageRespected
  <2>1. i = Len(stack)
    BY DEF OInv, Levels
  <2>2. Bought(stack[i], Now)
    BY <2>1 DEF OInv, Levels, Follows, WorldAt
  <2> QED
    BY <2>2 DEF Bought, Now
<1> QED
  BY <1>1, LevelsInvariant, PTL

-----------------------------------------------------------------------------
(* The books: OneOutcome, OrdersBacked and AllOrNothing.  A log is judged  *)
(* at each level too: a rollback brings back the log of that level, while  *)
(* the number of the next invocation only grows.                           *)

Silent(l, id) == \A j \in 1..Len(l) : l[j].id # id

Matches(order, outcome) ==
  /\ outcome.id = order.id
  /\ outcome.type \in {"Deposited", "MultiRouteSwap"}
  /\ outcome.owner = order.owner
  /\ outcome.token = order.token
  /\ outcome.out = order.out
  /\ outcome.got = order.got
  /\ outcome.amount + outcome.refund = order.amount

\* Books in order, about invocations below n.
Kept(l, n) ==
  /\ \A j \in 1..Len(l) : l[j].id < n
  /\ \A j, k \in 1..Len(l) :
       l[j].type \in Outcomes /\ l[k].type \in Outcomes /\ l[j].id = l[k].id => j = k
  /\ \A j, k \in 1..Len(l) :
       l[j].type = "OrderCreated" /\ l[k].type = "OrderCreated" /\ l[j].id = l[k].id => j = k
  /\ \A j \in 1..Len(l) : l[j].type = "OrderCreated" =>
       \E k \in 1..(j - 1) : Matches(l[j], l[k])

\* What is written after u is not about invocations before m.
Adds(u, l, m) == \A id \in Nat : id < m /\ Silent(u, id) => Silent(l, id)

\* The strategy's outcome is in the books, the order is not.
Order(f) == Announce("OrderCreated", f, f.call.token, f.call.amount, Out(f), f.shares, 0)

Reported(f, l) ==
  /\ \A j \in 1..Len(l) : l[j].type = "OrderCreated" => l[j].id # f.id
  /\ \E k \in 1..Len(l) : Matches(Order(f), l[k])

Writes(f, l, n) ==
  /\ f.id < n
  /\ Kept(f.entry.log, n) /\ Kept(f.rescue.log, n) /\ Kept(l, n)
  /\ Silent(f.rescue.log, f.id)
  /\ Adds(f.entry.log, f.rescue.log, f.id)
  /\ Adds(f.entry.log, l, f.id)
  /\ f.pc # "report" => Silent(l, f.id)
  /\ f.pc = "report" => Reported(f, l)

Books ==
  /\ \A i \in 1..Len(stack) : Writes(stack[i], WorldAt(i).log, applies)
  /\ \A i \in 1..Len(stack) : i # Len(stack) => stack[i].id < stack[i + 1].id
  /\ stack = <<>> => Kept(log, applies)

BInv == OInv /\ Books

-----------------------------------------------------------------------------
LEMMA AddsSelf ==
  ASSUME NEW l, NEW m
  PROVE  Adds(l, l, m)
BY DEF Adds

LEMMA AddsEntry ==
  ASSUME NEW u, NEW l \in Seq(Event), NEW ev \in Event, Adds(u, l, ev.id)
  PROVE  Adds(u, Append(l, ev), ev.id)
<1>1. /\ Len(Append(l, ev)) = Len(l) + 1 /\ Append(l, ev)[Len(l) + 1] = ev
      /\ \A j \in 1..Len(l) : Append(l, ev)[j] = l[j]
      /\ \A j \in 1..(Len(l) + 1) : j \in 1..Len(l) \/ j = Len(l) + 1
  BY PushStack
<1>2. ASSUME NEW id \in Nat, id < ev.id, Silent(u, id)
      PROVE  Silent(Append(l, ev), id)
  <2>1. ev.id # id /\ Silent(l, id)
    BY <1>2 DEF Adds, Event
  <2> QED
    BY <1>1, <2>1 DEF Silent
<1> QED
  BY <1>2 DEF Adds

LEMMA KeptOn ==
  ASSUME NEW l \in Seq(Event), NEW n \in Nat, Kept(l, n)
  PROVE  Kept(l, n + 1)
<1>1. \A j \in 1..Len(l) : l[j] \in Event
  OBVIOUS
<1>2. \A j \in 1..Len(l) : l[j].id \in Nat
  BY <1>1 DEF Event
<1> QED
  BY <1>2 DEF Kept

LEMMA OutcomeKept ==
  ASSUME NEW l \in Seq(Event), NEW n \in Nat, Kept(l, n), NEW ev \in Event,
         ev.type \in Outcomes, ev.id < n, Silent(l, ev.id)
  PROVE  Kept(Append(l, ev), n)
<1> DEFINE L == Append(l, ev)
<1>1. /\ Len(l) \in Nat /\ Len(L) = Len(l) + 1 /\ L[Len(l) + 1] = ev
      /\ \A j \in 1..Len(l) : L[j] = l[j]
      /\ \A j \in 1..(Len(l) + 1) : j \in 1..Len(l) \/ j = Len(l) + 1
      /\ \A j \in 1..Len(l) : \A k \in 1..(j - 1) : k \in 1..Len(l)
  BY PushStack
<1>2. ev.type # "OrderCreated"
  BY DEF Outcomes
<1> HIDE DEF L
<1>3. \A j \in 1..Len(L) : L[j].id < n
  BY <1>1 DEF Kept
<1>4. \A j, k \in 1..Len(L) :
        L[j].type \in Outcomes /\ L[k].type \in Outcomes /\ L[j].id = L[k].id => j = k
  BY <1>1 DEF Kept, Silent
<1>5. \A j, k \in 1..Len(L) :
        L[j].type = "OrderCreated" /\ L[k].type = "OrderCreated" /\ L[j].id = L[k].id => j = k
  BY <1>1, <1>2 DEF Kept
<1>6. \A j \in 1..Len(L) : L[j].type = "OrderCreated" =>
        \E k \in 1..(j - 1) : Matches(L[j], L[k])
  BY <1>1, <1>2 DEF Kept
<1> QED
  BY <1>3, <1>4, <1>5, <1>6 DEF Kept, L

LEMMA OrderKept ==
  ASSUME NEW l \in Seq(Event), NEW n \in Nat, Kept(l, n), NEW f \in Frame, f.id < n,
         Order(f) \in Event, Reported(f, l)
  PROVE  Kept(Append(l, Order(f)), n)
<1> DEFINE ev == Order(f)
           L == Append(l, ev)
<1>1. /\ Len(l) \in Nat /\ Len(L) = Len(l) + 1 /\ L[Len(l) + 1] = ev
      /\ \A j \in 1..Len(l) : L[j] = l[j]
      /\ \A j \in 1..(Len(l) + 1) : j \in 1..Len(l) \/ j = Len(l) + 1
      /\ \A j \in 1..Len(l) : \A k \in 1..(j - 1) : k \in 1..Len(l)
      /\ (Len(l) + 1) - 1 = Len(l)
  BY PushStack
<1>2. ev.type = "OrderCreated" /\ ev.type \notin Outcomes /\ ev.id = f.id
  BY DEF Outcomes, Order, Announce
<1> HIDE DEF L, ev
<1>3. \A j \in 1..Len(L) : L[j].id < n
  BY <1>1, <1>2 DEF Kept
<1>4. \A j, k \in 1..Len(L) :
        L[j].type \in Outcomes /\ L[k].type \in Outcomes /\ L[j].id = L[k].id => j = k
  BY <1>1, <1>2 DEF Kept
<1>5. \A j, k \in 1..Len(L) :
        L[j].type = "OrderCreated" /\ L[k].type = "OrderCreated" /\ L[j].id = L[k].id => j = k
  BY <1>1, <1>2 DEF Kept, Reported
<1>6. ASSUME NEW j \in 1..Len(L), L[j].type = "OrderCreated"
      PROVE  \E k \in 1..(j - 1) : Matches(L[j], L[k])
  <2>1. CASE j = Len(l) + 1
    BY <2>1, <1>1 DEF Reported, ev
  <2>2. CASE j \in 1..Len(l)
    BY <2>2, <1>1, <1>6 DEF Kept
  <2> QED
    BY <1>1, <2>1, <2>2
<1> QED
  BY <1>3, <1>4, <1>5, <1>6 DEF Kept, L, ev

LEMMA WritesOn ==
  ASSUME NEW f \in Frame, NEW l \in Seq(Event), NEW n \in Nat, Writes(f, l, n)
  PROVE  Writes(f, l, n + 1)
<1>1. f.entry.log \in Seq(Event) /\ f.rescue.log \in Seq(Event) /\ f.id \in Nat
  BY DEF Frame, World
<1> QED
  BY <1>1, KeptOn DEF Writes

\* An interrupted invocation goes on with what the call m has written after u.
LEMMA WritesAfter ==
  ASSUME NEW f \in Frame, f.pc # "report", NEW u, NEW l, NEW n \in Nat, NEW m \in Nat,
         Writes(f, u, n), f.id < m, Adds(u, l, m), Kept(l, n)
  PROVE  Writes(f, l, n)
<1>1. f.id \in Nat
  BY DEF Frame
<1>2. Silent(l, f.id)
  BY <1>1 DEF Writes, Adds
<1>3. Adds(f.entry.log, l, f.id)
  <2>1. ASSUME NEW id \in Nat, id < f.id, Silent(f.entry.log, id)
        PROVE  Silent(l, id)
    <3>1. Silent(u, id) /\ id < m
      BY <1>1, <2>1 DEF Writes, Adds
    <3> QED
      BY <3>1 DEF Adds
  <2> QED
    BY <2>1 DEF Adds
<1> QED
  BY <1>2, <1>3 DEF Writes

-----------------------------------------------------------------------------
LEMMA TopWrites ==
  ASSUME BInv, stack # <<>>
  PROVE  Writes(Top, log, applies) /\ Top.id \in Nat /\ applies \in Nat /\ log \in Seq(Event)
<1>1. Len(stack) \in 1..Len(stack) /\ Top \in Frame
  BY TopFollows DEF BInv
<1>2. Now.log = log /\ applies \in Nat /\ log \in Seq(Event)
  BY DEF Now, BInv, OInv, CInv, TypeOK
<1> QED
  BY <1>1, <1>2 DEF BInv, Books, WorldAt, Top, Frame

LEMMA UpdateBooks ==
  ASSUME BInv, stack # <<>>, NEW g \in Frame, stack' = [stack EXCEPT ![Len(stack)] = g],
         g.entry = Top.entry, g.id = Top.id, applies' = applies, Writes(g, log', applies)
  PROVE  Books'
<1> DEFINE n == Len(stack)
<1>1. /\ n \in Nat \ {0} /\ Len(stack') = n /\ stack' # <<>> /\ stack'[n] = g
      /\ \A i \in 1..(n - 1) : stack'[i] = stack[i]
  BY PopStack, UpdateTop DEF BInv, OInv, CInv, TypeOK
<1>2. stack[n].entry = g.entry /\ stack[n].id = g.id /\ n = Len(stack) /\ Now'.log = log'
  BY DEF Top, Now
<1> HIDE DEF n
<1>3. \A i \in 1..n : i = n \/ (i # n /\ i \in 1..(n - 1) /\ i + 1 \in 1..n)
  BY <1>1
<1>4. \A i \in 1..n : stack'[i].entry = stack[i].entry /\ stack'[i].id = stack[i].id
  BY <1>1, <1>2, <1>3
<1>5. ASSUME NEW i \in 1..n PROVE Writes(stack'[i], WorldAt(i)'.log, applies)
  <2>1. CASE i = n
    BY <2>1, <1>1, <1>2 DEF WorldAt
  <2>2. CASE i # n
    <3>1. stack'[i] = stack[i] /\ i + 1 \in 1..n
      BY <2>2, <1>1, <1>3
    <3>2. WorldAt(i) = stack[i + 1].entry /\ WorldAt(i)' = stack'[i + 1].entry
      BY <2>2, <1>1, <1>2 DEF WorldAt
    <3>3. Writes(stack[i], WorldAt(i).log, applies)
      BY <1>2 DEF BInv, Books
    <3> QED
      BY <3>1, <3>2, <3>3, <1>4
  <2> QED
    BY <2>1, <2>2
<1>6. \A i \in 1..n : i # n => stack'[i].id < stack'[i + 1].id
  BY <1>2, <1>3, <1>4 DEF BInv, Books
<1> QED
  BY <1>1, <1>5, <1>6 DEF Books

LEMMA PushBooks ==
  ASSUME BInv, NEW f \in Frame, stack' = Append(stack, f), f.entry = Now, f.id = applies,
         applies' = applies + 1, Writes(f, log', applies + 1)
  PROVE  Books'
<1> DEFINE n == Len(stack)
<1>1. /\ n \in Nat /\ Len(stack') = n + 1 /\ stack' # <<>> /\ stack'[n + 1] = f
      /\ \A i \in 1..n : stack'[i] = stack[i]
  <2>1. stack \in Seq(Frame) /\ n \in Nat
    BY DEF BInv, OInv, CInv, TypeOK
  <2> QED
    BY <2>1, PushStack
<1>2. n = Len(stack) /\ stack \in Seq(Frame) /\ applies \in Nat /\ Now'.log = log' /\ Now \in World
  BY NowTyped DEF BInv, OInv, CInv, TypeOK, Now
<1> HIDE DEF n
<1>3. ASSUME NEW i \in 1..n
      PROVE  /\ stack[i] \in Frame /\ WorldAt(i) \in World
             /\ Writes(stack[i], WorldAt(i).log, applies)
  <2>1. stack[i] \in Frame /\ (i # n => i + 1 \in 1..n)
    BY <1>1, <1>2
  <2>2. WorldAt(i) \in World
    BY <2>1, <1>2, CallTyped DEF WorldAt
  <2> QED
    BY <2>1, <2>2, <1>2 DEF BInv, Books
<1>4. ASSUME NEW i \in 1..(n + 1) PROVE Writes(stack'[i], WorldAt(i)'.log, applies + 1)
  <2>1. CASE i = n + 1
    BY <2>1, <1>1, <1>2 DEF WorldAt
  <2>2. CASE i # n + 1
    <3>1. i \in 1..n /\ (i # n => i + 1 \in 1..n)
      BY <2>2, <1>1
    <3>2. WorldAt(i)' = stack'[i + 1].entry
      BY <2>2, <1>1 DEF WorldAt
    <3>3. WorldAt(i) = stack'[i + 1].entry
      BY <3>1, <1>1, <1>2 DEF WorldAt
    <3>4. WorldAt(i).log \in Seq(Event)
      BY <3>1, <1>3 DEF World
    <3> QED
      BY <3>1, <3>2, <3>3, <3>4, <1>1, <1>2, <1>3, WritesOn
  <2> QED
    BY <2>1, <2>2
<1>5. ASSUME NEW i \in 1..(n + 1), i # n + 1 PROVE stack'[i].id < stack'[i + 1].id
  <2>1. i \in 1..n /\ (i # n => i + 1 \in 1..n)
    BY <1>1, <1>5
  <2>2. CASE i = n
    BY <2>1, <2>2, <1>1, <1>3 DEF Writes
  <2>3. CASE i # n
    BY <2>1, <2>3, <1>1, <1>2 DEF BInv, Books
  <2> QED
    BY <2>2, <2>3
<1> QED
  BY <1>1, <1>4, <1>5 DEF Books

LEMMA PopBooks ==
  ASSUME BInv, stack # <<>>, Pop, applies' = applies, Kept(log', applies),
         Adds(Top.entry.log, log', Top.id)
  PROVE  Books'
<1> DEFINE n == Len(stack)
<1>1. /\ n \in Nat \ {0} /\ stack' \in Seq(Frame) /\ Len(stack') = n - 1
      /\ \A i \in 1..(n - 1) : stack'[i] = stack[i]
  BY PopStack DEF BInv, OInv, CInv, TypeOK, Pop
<1>2. n = Len(stack) /\ stack \in Seq(Frame) /\ Now'.log = log' /\ Top = stack[n]
      /\ applies \in Nat /\ Top.id \in Nat
  BY TopWrites DEF BInv, OInv, CInv, TypeOK, Now, Top
<1> HIDE DEF n
<1>3. ASSUME NEW i \in 1..(n - 1) PROVE Writes(stack'[i], WorldAt(i)'.log, applies)
  <2>1. /\ i \in 1..n /\ i # n /\ i + 1 \in 1..n /\ (i # n - 1 => i + 1 \in 1..(n - 1))
    BY <1>1
  <2>2. /\ Writes(stack[i], stack[i + 1].entry.log, applies) /\ stack[i] \in Frame
        /\ stack[i].pc # "report" /\ stack[i].id < stack[i + 1].id
    <3>1. WorldAt(i) = stack[i + 1].entry
      BY <2>1, <1>2 DEF WorldAt
    <3>2. stack[i].pc \in {"vault", "troves", "swap"}
      BY <2>1, <1>2 DEF BInv, OInv, Levels
    <3> QED
      BY <3>1, <3>2, <2>1, <1>2 DEF BInv, Books
  <2>3. CASE i = n - 1
    <3>1. WorldAt(i)'.log = log' /\ i + 1 = n
      BY <2>3, <1>1, <1>2 DEF WorldAt
    <3> QED
      BY <3>1, <2>2, <1>1, <1>2, WritesAfter
  <2>4. CASE i # n - 1
    <3>1. WorldAt(i)' = stack'[i + 1].entry
      BY <2>4, <1>1 DEF WorldAt
    <3>2. stack'[i + 1] = stack[i + 1] /\ stack'[i] = stack[i]
      BY <2>1, <2>4, <1>1
    <3> QED
      BY <3>1, <3>2, <2>2
  <2> QED
    BY <2>3, <2>4
<1>4. ASSUME NEW i \in 1..(n - 1), i # n - 1 PROVE stack'[i].id < stack'[i + 1].id
  <2>1. i \in 1..n /\ i # n /\ i + 1 \in 1..(n - 1)
    BY <1>1, <1>4
  <2> QED
    BY <2>1, <1>1, <1>2 DEF BInv, Books
<1> QED
  BY <1>1, <1>3, <1>4 DEF Books

-----------------------------------------------------------------------------
(* How the steps write the books.                                          *)

LEMMA AnnounceEvent ==
  ASSUME NEW f \in Frame,
         NEW type \in {"Deposited", "MultiRouteSwap", "ApplyFailed", "OrderCreated"},
         NEW t \in Tokens, NEW n \in Nat, NEW o \in Tokens, NEW g \in Nat, NEW r \in Nat
  PROVE  Announce(type, f, t, n, o, g, r) \in Event
<1>1. f.id \in Nat /\ f.call.eth \in EthAddresses
  BY CallTyped DEF Frame
<1> QED
  BY <1>1 DEF Announce, Event

LEMMA ApplyBooks ==
  ASSUME BInv, NEW call \in Calls, Apply(call)
  PROVE  Books'
<1> DEFINE f == [id |-> applies, call |-> call, pc |-> "header", entry |-> Now, rescue |-> Now,
                 settled |-> FALSE, spent |-> 0, got |-> 0, lst |-> 0,
                 sell_token_before |-> 0, buy_token_before |-> 0, shares |-> 0]
<1>1. applies \in Nat /\ log \in Seq(Event) /\ Now.log = log
  BY DEF BInv, OInv, CInv, TypeOK, Now
<1>2. /\ f \in Frame /\ f.pc = "header" /\ f.entry = Now /\ f.rescue = Now /\ f.id = applies
  BY <1>1, NowTyped DEF Frame, TypeOK, BInv, OInv, CInv
<1>3. stack' = Append(stack, f) /\ log' = log /\ applies' = applies + 1
  BY DEF Apply
<1> HIDE DEF f
<1>4. Kept(log, applies)
  <2>1. stack # <<>> => Writes(Top, log, applies)
    BY TopWrites
  <2> QED
    BY <2>1 DEF BInv, Books, Writes
<1>5. Silent(log, applies)
  <2>1. \A j \in 1..Len(log) : log[j] \in Event
    BY <1>1
  <2> QED
    BY <1>1, <1>4, <2>1 DEF Kept, Silent, Event
<1>6. Writes(f, log', applies + 1)
  BY <1>1, <1>2, <1>3, <1>4, <1>5, KeptOn, AddsSelf DEF Writes
<1> QED
  BY <1>2, <1>3, <1>6, PushBooks

\* Nothing is written.
LEMMA QuietBooks ==
  ASSUME BInv, stack # <<>>, Top.pc # "report", NEW g \in Frame, g.pc # "report",
         g.id = Top.id, g.entry = Top.entry, g.rescue \in {Top.rescue, Now},
         stack' = [stack EXCEPT ![Len(stack)] = g], UNCHANGED <<log, applies>>
  PROVE  Books'
<1>1. Writes(Top, log, applies) /\ Now.log = log
  BY TopWrites DEF Now
<1>2. Writes(g, log', applies)
  BY <1>1 DEF Writes
<1> QED
  BY <1>2, UpdateBooks

\* A strategy's outcome is written, the order is still to come.
LEMMA OutcomeBooks ==
  ASSUME BInv, stack # <<>>, Top.pc # "report", NEW g \in Frame, g.pc = "report",
         g.id = Top.id, g.entry = Top.entry, g.rescue = Top.rescue,
         stack' = [stack EXCEPT ![Len(stack)] = g], applies' = applies,
         NEW ev \in Event, log' = Append(log, ev), Matches(Order(g), ev)
  PROVE  Books'
<1>1. Writes(Top, log, applies) /\ applies \in Nat /\ log \in Seq(Event)
  BY TopWrites
<1>2. ev.id = g.id /\ ev.type \in Outcomes /\ Silent(log, g.id) /\ g.id < applies
  BY <1>1 DEF Matches, Order, Announce, Outcomes, Writes
<1>3. Kept(log', applies)
  BY <1>1, <1>2, OutcomeKept DEF Writes
<1>4. Adds(g.entry.log, log', g.id)
  BY <1>1, <1>2, AddsEntry DEF Writes
<1>5. Reported(g, log')
  <2>1. /\ Len(log) + 1 \in 1..Len(log') /\ log'[Len(log) + 1] = ev
        /\ \A j \in 1..Len(log) : log'[j] = log[j]
        /\ \A j \in 1..Len(log') : j \in 1..Len(log) \/ j = Len(log) + 1
    BY <1>1, PushStack
  <2>2. ev.type # "OrderCreated"
    BY <1>2 DEF Outcomes
  <2>3. \A j \in 1..Len(log') : log'[j].type = "OrderCreated" => log'[j].id # g.id
    BY <1>2, <2>1, <2>2 DEF Silent
  <2> QED
    BY <2>1, <2>3 DEF Reported
<1>6. Writes(g, log', applies)
  BY <1>1, <1>3, <1>4, <1>5 DEF Writes
<1> QED
  BY <1>6, UpdateBooks

LEMMA RevertBooks ==
  ASSUME BInv, stack # <<>>, RevertApply(Top)
  PROVE  Books'
<1>1. Pop /\ log' = Top.entry.log /\ applies' = applies
  BY DEF RevertApply
<1>2. Kept(log', applies) /\ Adds(Top.entry.log, log', Top.id)
  BY <1>1, TopWrites, AddsSelf DEF Writes
<1> QED
  BY <1>1, <1>2, PopBooks

LEMMA ErrorBooks ==
  ASSUME BInv, stack # <<>>, NEW w \in World, Kept(w.log, applies), Silent(w.log, Top.id),
         Adds(Top.entry.log, w.log, Top.id), handle_apply_on_self_error(Top, w)
  PROVE  Books'
<1> DEFINE ev == Announce("ApplyFailed", Top, Top.call.token, Top.call.amount, Top.call.token,
                          0, Top.call.amount)
<1>1. CASE w.held[Top.call.token] >= Top.call.amount
  <2>1. Pop /\ log' = Append(w.log, ev) /\ applies' = applies
    BY <1>1 DEF handle_apply_on_self_error
  <2>2. ev \in Event
    BY TopFollows, CallTyped, AnnounceEvent DEF BInv
  <2>3. ev.id = Top.id /\ ev.type \in Outcomes /\ w.log \in Seq(Event) /\ applies \in Nat
        /\ Top.id < applies
    BY TopWrites DEF Announce, Outcomes, World, Writes
  <2> HIDE DEF ev
  <2>4. Kept(log', applies)
    BY <2>1, <2>2, <2>3, OutcomeKept
  <2>5. Adds(Top.entry.log, log', Top.id)
    BY <2>1, <2>2, <2>3, AddsEntry
  <2> QED
    BY <2>1, <2>4, <2>5, PopBooks
<1>2. CASE ~(w.held[Top.call.token] >= Top.call.amount)
  BY <1>2, RevertBooks DEF handle_apply_on_self_error
<1> QED
  BY <1>1, <1>2

LEMMA RefusesBooks ==
  ASSUME BInv, ApplyOnSelfRefuses
  PROVE  Books'
<1>1. stack # <<>> /\ Top.pc = "dispatch"
      /\ handle_apply_on_self_error(Top, RolledBack(Dispatched(Top)))
  BY DEF ApplyOnSelfRefuses, At
<1>2. RolledBack(Dispatched(Top)) = Now /\ Now.log = log /\ Now \in World
  BY <1>1, TopFollows DEF RolledBack, Dispatched, Frame, Now, BInv
<1>3. Writes(Top, log, applies)
  BY <1>1, TopWrites
<1> QED
  BY <1>1, <1>2, <1>3, ErrorBooks DEF Writes

LEMMA FailsBooks ==
  ASSUME BInv, StrategyFails
  PROVE  Books'
<1>1. stack # <<>> /\ handle_apply_on_self_error(Top, RolledBack(Top))
  BY DEF StrategyFails, InStrategy, At
<1>2. RolledBack(Top) = Top.rescue /\ Top.rescue \in World
  BY <1>1, TopFollows DEF RolledBack, BInv
<1>3. Writes(Top, log, applies)
  BY <1>1, TopWrites
<1> QED
  BY <1>1, <1>2, <1>3, ErrorBooks DEF Writes

LEMMA DeployBooks ==
  ASSUME BInv, ApplyDeploysAccount
  PROVE  Books'
<1> DEFINE g == [Top EXCEPT !.pc = "dispatch"]
<1>1. stack # <<>> /\ Top.pc = "header" /\ stack' = [stack EXCEPT ![Len(stack)] = g]
      /\ UNCHANGED <<log, applies>>
  BY DEF ApplyDeploysAccount, At, Become
<1>2. g \in Frame /\ g.pc = "dispatch" /\ g.id = Top.id /\ g.entry = Top.entry
      /\ g.rescue = Top.rescue
  BY <1>1, TopFollows DEF Frame, BInv
<1> HIDE DEF g
<1> QED
  BY <1>1, <1>2, QuietBooks

LEMMA DepositsBooks ==
  ASSUME BInv, ApplyOnSelfDeposits
  PROVE  Books'
<1> DEFINE d == Dispatched(Top)
           g == [d EXCEPT !.pc = "vault"]
<1>1. stack # <<>> /\ Top.pc = "dispatch" /\ stack' = [stack EXCEPT ![Len(stack)] = g]
      /\ UNCHANGED <<log, applies>>
  BY DEF ApplyOnSelfDeposits, At, Become
<1>2. d \in Frame /\ d.entry = Top.entry /\ d.rescue = Now /\ d.id = Top.id
  BY <1>1, TopTyped, DispatchedTyped DEF BInv, OInv, CInv, Dispatched, Frame
<1>3. g \in Frame /\ g.pc = "vault" /\ g.id = Top.id /\ g.entry = Top.entry /\ g.rescue = Now
  <2> HIDE DEF d
  <2> QED
    BY <1>2 DEF Frame
<1> HIDE DEF g
<1> QED
  BY <1>1, <1>3, QuietBooks

LEMMA SwapsBooks ==
  ASSUME BInv, ApplyOnSelfSwaps
  PROVE  Books'
<1> DEFINE d == Dispatched(Top)
           g == [d EXCEPT !.pc = "swap",
                   !.sell_token_before = held[Top.call.token],
                   !.buy_token_before = held[Top.call.swap.buy]]
<1>1. stack # <<>> /\ Top.pc = "dispatch" /\ stack' = [stack EXCEPT ![Len(stack)] = g]
      /\ UNCHANGED <<log, applies>>
  BY DEF ApplyOnSelfSwaps, At, Become
<1>2. d \in Frame /\ d.entry = Top.entry /\ d.rescue = Now /\ d.id = Top.id
  BY <1>1, TopTyped, DispatchedTyped DEF BInv, OInv, CInv, Dispatched, Frame
<1>3. held[Top.call.token] \in Nat /\ held[Top.call.swap.buy] \in Nat
  BY <1>1, TopTyped, CallTyped DEF BInv, OInv, CInv, TypeOK
<1>4. g \in Frame /\ g.pc = "swap" /\ g.id = Top.id /\ g.entry = Top.entry /\ g.rescue = Now
  <2> HIDE DEF d
  <2> QED
    BY <1>2, <1>3 DEF Frame
<1> HIDE DEF g
<1> QED
  BY <1>1, <1>4, QuietBooks

LEMMA VaultBooks ==
  ASSUME BInv, NEW shares \in Outputs, VaultTakes(shares)
  PROVE  Books'
<1> DEFINE g == [Top EXCEPT !.settled = TRUE, !.spent = Assets(Top), !.got = shares]
<1>1. stack # <<>> /\ Top.pc \in {"vault", "troves"} /\ UNCHANGED <<log, applies>>
      /\ stack' = [stack EXCEPT ![Len(stack)] = g]
  BY DEF VaultTakes, InStrategy, Become
<1>2. Top \in Frame /\ Assets(Top) \in Nat /\ shares \in Nat
  BY <1>1, TopFollows, DepositTyped, StrategyAssumption DEF BInv
<1>3. g \in Frame /\ g.pc = Top.pc /\ g.id = Top.id /\ g.entry = Top.entry
      /\ g.rescue = Top.rescue
  BY <1>2 DEF Frame
<1> HIDE DEF g
<1> QED
  BY <1>1, <1>3, QuietBooks

LEMMA ExchangeBooks ==
  ASSUME BInv, NEW sold \in Nat, NEW bought \in Outputs, ExchangeFills(sold, bought)
  PROVE  Books'
<1> DEFINE g == [Top EXCEPT !.settled = TRUE, !.spent = sold, !.got = bought]
<1>1. stack # <<>> /\ Top.pc = "swap" /\ UNCHANGED <<log, applies>>
      /\ stack' = [stack EXCEPT ![Len(stack)] = g]
  BY DEF ExchangeFills, At, Become
<1>2. Top \in Frame /\ bought \in Nat
  BY <1>1, TopFollows, StrategyAssumption DEF BInv
<1>3. g \in Frame /\ g.pc = Top.pc /\ g.id = Top.id /\ g.entry = Top.entry
      /\ g.rescue = Top.rescue
  BY <1>2 DEF Frame
<1> HIDE DEF g
<1> QED
  BY <1>1, <1>3, QuietBooks

LEMMA TrovesBooks ==
  ASSUME BInv, TrovesDepositsLST
  PROVE  Books'
<1> DEFINE g == [Top EXCEPT !.pc = "troves", !.lst = Top.got, !.settled = FALSE,
                            !.spent = 0, !.got = 0]
<1>1. stack # <<>> /\ Top.pc = "vault" /\ UNCHANGED <<log, applies>>
      /\ stack' = [stack EXCEPT ![Len(stack)] = g]
  BY DEF TrovesDepositsLST, At, Become
<1>2. Top \in Frame /\ Top.got \in Nat
  BY <1>1, TopFollows DEF BInv, Frame
<1>3. g \in Frame /\ g.pc = "troves" /\ g.id = Top.id /\ g.entry = Top.entry
      /\ g.rescue = Top.rescue
  BY <1>2 DEF Frame
<1> HIDE DEF g
<1> QED
  BY <1>1, <1>3, QuietBooks

LEMMA DepositReturnsBooks ==
  ASSUME BInv, DepositReturns
  PROVE  Books'
<1> DEFINE f == Top
           g == [f EXCEPT !.pc = "report", !.shares = f.got]
           ev == Announce("Deposited", f, f.call.token, f.call.amount, Vault(f), f.got, 0)
<1>1. /\ stack # <<>> /\ f.pc \in {"vault", "troves"} /\ ~KeepsShares(f)
      /\ stack' = [stack EXCEPT ![Len(stack)] = g] /\ log' = Append(log, ev)
      /\ applies' = applies
  BY DEF DepositReturns, InStrategy, Become
<1>2. f \in Frame /\ Accepted(f) /\ f.call.token \in Tokens /\ f.call.amount \in Nat /\ f.got \in Nat
  BY <1>1, TopFollows, CallTyped DEF Frame, BInv
<1>3. Vault(f) \in Tokens
  BY <1>1, <1>2, DepositTyped, VaultsAreTokens
<1>4. ev \in Event
  BY <1>2, <1>3, AnnounceEvent
<1>5. /\ g \in Frame /\ g.pc = "report" /\ g.call = f.call /\ g.id = f.id
      /\ g.entry = f.entry /\ g.rescue = f.rescue /\ g.shares = f.got
  BY <1>2 DEF Frame
<1> HIDE DEF g
<1>6. Vault(f) = Out(g)
  <2>1. Kind(g) = Kind(f) /\ Kind(f) # "Avnu"
    BY <1>1, <1>2, <1>5 DEF Kind, Accepted
  <2> QED
    BY <1>1, <1>5, <2>1 DEF Vault, Out, KeepsShares
<1>7. Matches(Order(g), ev)
  BY <1>2, <1>5, <1>6 DEF Matches, Order, Announce
<1> HIDE DEF ev
<1> QED
  BY <1>1, <1>4, <1>5, <1>7, OutcomeBooks

LEMMA SwapReturnsBooks ==
  ASSUME BInv, SwapReturns
  PROVE  Books'
<1> DEFINE f == Top
           sell == f.call.token
           buy == f.call.swap.buy
           g == [f EXCEPT !.pc = "report", !.shares = Gained(f)]
           ev == Announce("MultiRouteSwap", f, sell, Used(f), buy, Gained(f), Refund(f))
<1>1. /\ stack # <<>> /\ f.pc = "swap" /\ SwapChecks(f)
      /\ stack' = [stack EXCEPT ![Len(stack)] = g] /\ log' = Append(log, ev)
      /\ applies' = applies
  BY DEF SwapReturns, At, Become
<1>2. f \in Frame /\ Accepted(f) /\ sell \in Tokens /\ buy \in Tokens /\ f.call.amount \in Nat
  BY <1>1, TopFollows, CallTyped DEF BInv
<1>3. Gained(f) \in Nat /\ Used(f) \in Nat /\ Refund(f) \in Nat
  BY <1>1, <1>2, SwapArithmetic DEF BInv, OInv, CInv
<1>4. ev \in Event
  BY <1>2, <1>3, AnnounceEvent
<1>5. /\ g \in Frame /\ g.pc = "report" /\ g.call = f.call /\ g.id = f.id
      /\ g.entry = f.entry /\ g.rescue = f.rescue /\ g.shares = Gained(f)
  BY <1>2, <1>3 DEF Frame
<1> HIDE DEF g
<1>6. Out(g) = buy
  <2>1. Kind(g) = Kind(f) /\ Kind(f) = "Avnu"
    BY <1>1, <1>2, <1>5 DEF Kind, Accepted
  <2> QED
    BY <1>5, <2>1 DEF Out
<1>7. Used(f) + Refund(f) = f.call.amount
  BY <1>2, <1>3 DEF Refund
<1>8. Matches(Order(g), ev)
  BY <1>5, <1>6, <1>7 DEF Matches, Order, Announce
<1> HIDE DEF ev
<1> QED
  BY <1>1, <1>4, <1>5, <1>8, OutcomeBooks

LEMMA OutTyped ==
  ASSUME NEW f \in Frame, Accepted(f), f.pc = "report"
  PROVE  Out(f) \in Tokens
<1>1. CASE Kind(f) = "Avnu"
  BY <1>1, CallTyped DEF Out
<1>2. CASE Kind(f) # "Avnu"
  <2>1. Kind(f) \in StrategyKinds \ {"Avnu"}
    BY <1>2 DEF Accepted
  <2>2. strategy_address(Kind(f), f.call.token) \in VaultAddresses
    BY <2>1, RoutedToVault DEF Kind
  <2> QED
    BY <1>2, <2>2, VaultsAreTokens DEF Out
<1> QED
  BY <1>1, <1>2

LEMMA ReportBooks ==
  ASSUME BInv, ReportAction
  PROVE  Books'
<1>1. /\ stack # <<>> /\ Top.pc = "report" /\ Pop /\ applies' = applies
      /\ log' = log \/ log' = Append(log, Order(Top))
  BY DEF ReportAction, At, Order
<1>2. /\ Writes(Top, log, applies) /\ applies \in Nat /\ log \in Seq(Event) /\ Top \in Frame
      /\ Reported(Top, log) /\ Top.id < applies
  BY <1>1, TopWrites, TopFollows DEF Writes, BInv
<1>3. CASE log' = log
  BY <1>1, <1>2, <1>3, PopBooks DEF Writes
<1>4. CASE log' = Append(log, Order(Top))
  <2>1. Order(Top) \in Event /\ Order(Top).id = Top.id
    <3>1. Top.call.token \in Tokens /\ Top.call.amount \in Nat /\ Top.shares \in Nat
      BY <1>2, CallTyped DEF Frame
    <3>2. Out(Top) \in Tokens
      BY <1>1, <1>2, OutTyped, TopFollows DEF BInv
    <3> QED
      BY <1>2, <3>1, <3>2, AnnounceEvent DEF Order, Announce
  <2>2. Kept(log', applies)
    BY <1>2, <1>4, <2>1, OrderKept DEF Writes
  <2>3. Adds(Top.entry.log, log', Top.id)
    BY <1>2, <1>4, <2>1, AddsEntry DEF Writes
  <2> QED
    BY <1>1, <2>2, <2>3, PopBooks
<1> QED
  BY <1>1, <1>3, <1>4

\* Steps outside apply, and stuttering.
LEMMA SameBooks ==
  ASSUME BInv, UNCHANGED <<log, stack, applies>>
  PROVE  Books'
<1>1. \A i \in 1..Len(stack) : WorldAt(i)'.log = WorldAt(i).log
  BY DEF WorldAt, Now
<1> QED
  BY <1>1 DEF BInv, Books

-----------------------------------------------------------------------------
LEMMA InitBooks == Init => BInv
<1> SUFFICES ASSUME Init PROVE Books
  BY InitLevels DEF BInv
<1>1. stack = <<>> /\ 1..Len(stack) = {} /\ 1..Len(log) = {}
  BY DEF Init
<1> QED
  BY <1>1 DEF Books, Kept

LEMMA StepBooks == BInv /\ [Next]_vars => BInv'
<1> SUFFICES ASSUME BInv, [Next]_vars
             PROVE  Books'
  BY StepLevels DEF BInv
<1>1. ASSUME NEW call \in Calls, Apply(call) PROVE Books'
  BY <1>1, ApplyBooks
<1>2. CASE ApplyDeploysAccount
  BY <1>2, DeployBooks
<1>3. CASE ApplyPanics
  BY <1>3, RevertBooks DEF ApplyPanics, At
<1>4. CASE ApplyOnSelfRefuses
  BY <1>4, RefusesBooks
<1>5. CASE ApplyOnSelfDeposits
  BY <1>5, DepositsBooks
<1>6. CASE ApplyOnSelfSwaps
  BY <1>6, SwapsBooks
<1>7. ASSUME NEW shares \in Outputs, VaultTakes(shares) PROVE Books'
  BY <1>7, VaultBooks
<1>8. ASSUME At("swap"), NEW sold \in 0..allow[Top.call.token][AvnuExchange],
             NEW bought \in Outputs, ExchangeFills(sold, bought)
      PROVE  Books'
  <2>1. Top.call.token \in Tokens
    BY <1>8, TopTyped, CallTyped DEF At, BInv, OInv, CInv
  <2>2. sold \in Nat
    BY <2>1, <1>8 DEF TypeOK, StrategyAddresses, BInv, OInv, CInv
  <2> QED
    BY <1>8, <2>2, ExchangeBooks
<1>9. CASE DepositReturns
  BY <1>9, DepositReturnsBooks
<1>10. CASE TrovesDepositsLST
  BY <1>10, TrovesBooks
<1>11. CASE SwapReturns
  BY <1>11, SwapReturnsBooks
<1>12. CASE ReportAction
  BY <1>12, ReportBooks
<1>13. CASE StrategyFails
  BY <1>13, FailsBooks
<1>14. ASSUME NEW r \in Reporters \cup {Zero}, SetEarnReporter(r) PROVE Books'
  BY <1>14, SameBooks DEF SetEarnReporter
<1>15. ASSUME NEW t \in Donatable, Donate(t) PROVE Books'
  BY <1>15, SameBooks DEF Donate
<1>16. CASE UNCHANGED vars
  BY <1>16, SameBooks DEF vars
<1> QED
  BY <1>1, <1>2, <1>3, <1>4, <1>5, <1>6, <1>7, <1>8, <1>9, <1>10, <1>11, <1>12, <1>13,
     <1>14, <1>15, <1>16 DEF Next

LEMMA BooksInvariant == Spec => []BInv
<1>1. Init => BInv
  BY InitBooks
<1>2. BInv /\ [Next]_vars => BInv'
  BY StepBooks
<1> QED
  BY <1>1, <1>2, PTL DEF Spec

LEMMA LogKept ==
  ASSUME BInv
  PROVE  Kept(log, applies) /\ log \in Seq(Event)
<1>1. stack # <<>> => Writes(Top, log, applies)
  BY TopWrites
<1>2. log \in Seq(Event)
  BY DEF BInv, OInv, CInv, TypeOK
<1> QED
  BY <1>1, <1>2 DEF BInv, Books, Writes

LEMMA OneOf ==
  ASSUME NEW l \in Seq(Event), NEW n, Kept(l, n), NEW types, NEW id,
         types \in {Outcomes, {"OrderCreated"}}
  PROVE  /\ Cardinality(Of(l, types, id)) <= 1
         /\ \A k \in 1..Len(l) : l[k].id = id /\ l[k].type \in types =>
              Cardinality(Of(l, types, id)) = 1
<1>1. DOMAIN l = 1..Len(l)
  OBVIOUS
<1>2. \A j, k \in Of(l, types, id) : j = k
  BY <1>1 DEF Of, Kept
<1>3. ASSUME NEW k \in Of(l, types, id) PROVE Cardinality(Of(l, types, id)) = 1
  <2>1. Of(l, types, id) = {k}
    BY <1>2, <1>3
  <2> QED
    BY <2>1, FS_Singleton
<1>4. CASE Of(l, types, id) = {}
  <2>1. Cardinality(Of(l, types, id)) = 0
    BY <1>4, FS_EmptySet
  <2>2. ASSUME NEW k \in 1..Len(l), l[k].id = id, l[k].type \in types
        PROVE  k \in Of(l, types, id)
    BY <1>1, <2>2 DEF Of
  <2> QED
    BY <1>4, <2>1, <2>2
<1>5. CASE Of(l, types, id) # {}
  BY <1>1, <1>3, <1>5 DEF Of
<1> QED
  BY <1>4, <1>5

\* An invocation never has two outcomes and never two orders, in any log a rollback
\* leaves (Deposited, MultiRouteSwap, ApplyFailed and the reporter's OrderCreated).
THEOREM OutcomesOnce == Spec => []OneOutcome
<1>1. BInv => OneOutcome
  BY LogKept, OneOf DEF OneOutcome
<1> QED
  BY <1>1, BooksInvariant, PTL

\* The reporter records an order only for a position that stands: report_action comes
\* after the strategy's event in the same call, and falls with it.
THEOREM OrdersStand == Spec => []OrdersBacked
<1>1. BInv => OrdersBacked
  <2> SUFFICES ASSUME BInv PROVE OrdersBacked
    OBVIOUS
  <2>1. Kept(log, applies) /\ DOMAIN log = 1..Len(log)
    BY LogKept
  <2> QED
    BY <2>1 DEF Kept, Matches, OrdersBacked
<1> QED
  BY <1>1, BooksInvariant, PTL

-----------------------------------------------------------------------------
LEMMA BecomeKeepsDepth ==
  ASSUME BInv, stack # <<>>, NEW g, Become(g)
  PROVE  ~(Len(stack') < Len(stack))
<1>1. stack \in Seq(Frame \cup {g})
  BY DEF BInv, OInv, CInv, TypeOK
<1>2. Len(stack') = Len(stack) /\ Len(stack) \in Nat
  BY <1>1, UpdateTop DEF Become
<1> QED
  BY <1>2

LEMMA ErrorWhole ==
  ASSUME BInv, stack # <<>>, NEW w \in World, Silent(w.log, Top.id), Kept(log', applies'),
         log' \in Seq(Event), handle_apply_on_self_error(Top, w)
  PROVE  \/ chain' = <<Top.entry.held, Top.entry.allow, Top.entry.owned,
                       Top.entry.deployed, Top.entry.log>>
         \/ Cardinality(Of(log', Outcomes, Top.id)) = 1
<1> DEFINE ev == Announce("ApplyFailed", Top, Top.call.token, Top.call.amount, Top.call.token,
                          0, Top.call.amount)
<1>1. CASE w.held[Top.call.token] >= Top.call.amount
  <2>1. log' = Append(w.log, ev) /\ w.log \in Seq(Event) /\ ev.id = Top.id
        /\ ev.type \in Outcomes
    BY <1>1 DEF handle_apply_on_self_error, World, Announce, Outcomes
  <2> HIDE DEF ev
  <2>2. Len(log') \in 1..Len(log') /\ log'[Len(log')] = ev
    <3>1. Len(w.log) \in Nat /\ Len(log') = Len(w.log) + 1
      BY <2>1
    <3> QED
      BY <2>1, <3>1
  <2>3. Outcomes \in {Outcomes, {"OrderCreated"}}
    OBVIOUS
  <2>4. Cardinality(Of(log', Outcomes, Top.id)) = 1
    <3> DEFINE k == Len(log')
    <3>1. k \in 1..Len(log') /\ log'[k].id = Top.id /\ log'[k].type \in Outcomes
      BY <2>1, <2>2
    <3> HIDE DEF k
    <3> QED
      BY <2>3, <3>1, OneOf
  <2> QED
    BY <2>4
<1>2. CASE ~(w.held[Top.call.token] >= Top.call.amount)
  BY <1>2 DEF handle_apply_on_self_error, RevertApply, chain
<1> QED
  BY <1>1, <1>2

LEMMA ReportWhole ==
  ASSUME BInv, ReportAction, Kept(log', applies'), log' \in Seq(Event)
  PROVE  Cardinality(Of(log', Outcomes, Top.id)) = 1
<1>1. /\ stack # <<>> /\ Top.pc = "report"
      /\ log' = log \/ log' = Append(log, Order(Top))
  BY DEF ReportAction, At, Order
<1>2. PICK k \in 1..Len(log) : Matches(Order(Top), log[k])
  BY <1>1, TopWrites DEF Writes, Reported
<1>3. log[k].id = Top.id /\ log[k].type \in Outcomes
  BY <1>2 DEF Matches, Order, Announce, Outcomes
<1>4. k \in 1..Len(log') /\ log'[k] = log[k]
  <2>1. log \in Seq(Event)
    BY LogKept
  <2> QED
    BY <1>1, <2>1
<1> QED
  BY <1>3, <1>4, OneOf

\* What a step that ends an invocation leaves.
Whole == \/ chain' = <<Top.entry.held, Top.entry.allow, Top.entry.owned,
                      Top.entry.deployed, Top.entry.log>>
         \/ Cardinality(Of(log', Outcomes, Top.id)) = 1

\* The step of NothingHalfDone.
LEMMA ReturnsWhole ==
  ASSUME BInv, BInv', [Next]_vars, Len(stack') < Len(stack)
  PROVE  Whole
<1>0. Kept(log', applies') /\ log' \in Seq(Event) /\ stack \in Seq(Frame)
  <2>1. (Kept(log, applies) /\ log \in Seq(Event))'
    BY LogKept, PTL
  <2> QED
    BY <2>1 DEF BInv, OInv, CInv, TypeOK
<1>1. ASSUME NEW call \in Calls, Apply(call) PROVE Whole
  <2>1. Len(stack') = Len(stack) + 1 /\ Len(stack) \in Nat
    BY <1>0, <1>1 DEF Apply
  <2> QED
    BY <2>1
<1>2. CASE ApplyDeploysAccount
  BY <1>2, BecomeKeepsDepth DEF ApplyDeploysAccount, At
<1>3. CASE ApplyPanics
  BY <1>3 DEF ApplyPanics, RevertApply, chain, Whole
<1>4. CASE ApplyOnSelfRefuses
  <2>1. stack # <<>> /\ Top.pc = "dispatch"
        /\ handle_apply_on_self_error(Top, RolledBack(Dispatched(Top)))
    BY <1>4 DEF ApplyOnSelfRefuses, At
  <2>2. RolledBack(Dispatched(Top)) = Now /\ Now.log = log /\ Now \in World
    BY <2>1, TopFollows DEF RolledBack, Dispatched, Frame, Now, BInv
  <2>3. Silent(Now.log, Top.id)
    BY <2>1, <2>2, TopWrites DEF Writes
  <2> QED
    BY <1>0, <2>1, <2>2, <2>3, ErrorWhole DEF Whole
<1>5. CASE ApplyOnSelfDeposits
  BY <1>5, BecomeKeepsDepth DEF ApplyOnSelfDeposits, At
<1>6. CASE ApplyOnSelfSwaps
  BY <1>6, BecomeKeepsDepth DEF ApplyOnSelfSwaps, At
<1>7. ASSUME NEW shares \in Outputs, VaultTakes(shares) PROVE Whole
  BY <1>7, BecomeKeepsDepth DEF VaultTakes, InStrategy
<1>8. ASSUME NEW sold, NEW bought, ExchangeFills(sold, bought) PROVE Whole
  BY <1>8, BecomeKeepsDepth DEF ExchangeFills, At
<1>9. CASE DepositReturns
  BY <1>9, BecomeKeepsDepth DEF DepositReturns, InStrategy
<1>10. CASE TrovesDepositsLST
  BY <1>10, BecomeKeepsDepth DEF TrovesDepositsLST, At
<1>11. CASE SwapReturns
  BY <1>11, BecomeKeepsDepth DEF SwapReturns, At
<1>12. CASE ReportAction
  BY <1>0, <1>12, ReportWhole DEF Whole
<1>13. CASE StrategyFails
  <2>1. stack # <<>> /\ handle_apply_on_self_error(Top, RolledBack(Top))
    BY <1>13 DEF StrategyFails, InStrategy, At
  <2>2. RolledBack(Top) = Top.rescue /\ Top.rescue \in World
    BY <2>1, TopFollows DEF RolledBack, BInv
  <2>3. Silent(Top.rescue.log, Top.id)
    BY <2>1, TopWrites DEF Writes
  <2> QED
    BY <1>0, <2>1, <2>2, <2>3, ErrorWhole DEF Whole
<1>14. CASE stack' = stack
  BY <1>0, <1>14
<1> QED
  BY <1>1, <1>2, <1>3, <1>4, <1>5, <1>6, <1>7, <1>8, <1>9, <1>10, <1>11, <1>12,
     <1>13, <1>14 DEF Next, SetEarnReporter, Donate, vars

\* apply either returns with exactly one outcome for its invocation, a position or a
\* refund, or has panicked and left the state it was called in: also for the inner of
\* two nested invocations, and when the transfer of a refund itself panics.
THEOREM NothingHalfDone == Spec => AllOrNothing
<1>1. BInv /\ BInv' /\ [Next]_vars => [Len(stack') < Len(stack) => Whole]_vars
  BY ReturnsWhole
<1> QED
  BY <1>1, BooksInvariant, PTL DEF Spec, AllOrNothing, Whole

-----------------------------------------------------------------------------
(* Ledgers.                                                                *)
(* The sums compare the log with balances, again at each level: between a  *)
(* vault's deposit and its Deposited event the owner has shares no event   *)
(* speaks of yet, and another invocation may run.                          *)

\* What the owner of an interrupted deposit has and the log does not say yet.
Owed(f, e, t) ==
  IF /\ f.pc \in {"vault", "troves"} /\ f.settled /\ ~KeepsShares(f)
     /\ e = f.call.eth /\ t = Vault(f)
  THEN f.got ELSE 0

\* A call made in u, the first to be named m, has only added to the log: its events
\* are its own or of later calls, and of owners with an account.
Grows(u, w, m) ==
  /\ Len(u.log) <= Len(w.log)
  /\ \A j \in 1..Len(u.log) : w.log[j] = u.log[j]
  /\ \A j \in 1..Len(w.log) : j \notin 1..Len(u.log) =>
       w.log[j].id >= m /\ w.log[j].owner \in w.deployed
  /\ u.deployed \subseteq w.deployed

\* What owners were credited from u to w is what the log says, with f's shares.
Settles(u, w) ==
  \A e \in EthAddresses, t \in Tokens :
    w.owned[e][t] + Paid(u.log, e, t) = u.owned[e][t] + Paid(w.log, e, t)

SettlesWith(f, w) ==
  \A e \in EthAddresses, t \in Tokens :
    w.owned[e][t] + Paid(f.entry.log, e, t) =
      f.entry.owned[e][t] + Paid(w.log, e, t) + Owed(f, e, t)

Returns(u, w, m) == Grows(u, w, m) /\ Settles(u, w)

\* Outside transactions.
Square(w) == \A e \in EthAddresses, t \in Tokens : w.owned[e][t] = Paid(w.log, e, t)

Earns(f, w) ==
  /\ Kept(f.entry.log, f.id)
  /\ Returns(f.entry, f.rescue, f.id)
  /\ Grows(f.entry, w, f.id)
  /\ SettlesWith(f, w)

Ledgers ==
  /\ \A i \in 1..Len(stack) : Earns(stack[i], WorldAt(i))
  /\ stack = <<>> => Square(Now)
  /\ stack # <<>> => Square(stack[1].entry)

DInv == BInv /\ Ledgers

-----------------------------------------------------------------------------
(* What a log says in all.                                                 *)

LEMMA ReceivedType ==
  ASSUME NEW ev \in Event, NEW e, NEW t
  PROVE  Received(ev, e, t) \in Nat
BY DEF Received, Event

LEMMA PaidBy ==
  ASSUME NEW l \in Seq(Event), NEW e, NEW t
  PROVE  Paid(l, e, t) =
           SumFunctionOnSet([j \in 1..Len(l) |-> Received(l[j], e, t)], 1..Len(l))
BY DEF Paid, SumFunction

LEMMA PaidType ==
  ASSUME NEW l \in Seq(Event), NEW e, NEW t
  PROVE  Paid(l, e, t) \in Nat
<1> DEFINE fun == [j \in 1..Len(l) |-> Received(l[j], e, t)]
<1>1. IsFiniteSet(1..Len(l))
  BY FS_Interval
<1>2. \A j \in 1..Len(l) : fun[j] \in Nat
  <2>1. \A j \in 1..Len(l) : l[j] \in Event
    OBVIOUS
  <2> QED
    BY <2>1, ReceivedType
<1>3. Paid(l, e, t) = SumFunctionOnSet(fun, 1..Len(l))
  BY PaidBy
<1> HIDE DEF fun
<1> QED
  BY <1>1, <1>2, <1>3, SumType

LEMMA PaidAppend ==
  ASSUME NEW l \in Seq(Event), NEW ev \in Event, NEW e, NEW t
  PROVE  Paid(Append(l, ev), e, t) = Paid(l, e, t) + Received(ev, e, t)
<1> DEFINE L == Append(l, ev)
           n == Len(l)
           fun == [j \in 1..Len(l) |-> Received(l[j], e, t)]
           gun == [j \in 1..Len(L) |-> Received(L[j], e, t)]
<1>1. /\ n \in Nat /\ L \in Seq(Event) /\ Len(L) = n + 1 /\ L[n + 1] = ev
      /\ \A j \in 1..n : L[j] = l[j] /\ L[j] \in Event
  BY PushStack
<1>2. 1..Len(L) = 1..n \cup {n + 1} /\ n + 1 \notin 1..n /\ IsFiniteSet(1..n)
  <2>1. n \in Nat /\ Len(L) = n + 1
    BY <1>1
  <2> HIDE DEF n, L
  <2>2. 1..Len(L) = 1..n \cup {n + 1}
    BY <2>1
  <2>3. n + 1 \notin 1..n
    BY <2>1
  <2> QED
    BY <2>1, <2>2, <2>3, FS_Interval
<1>3. Paid(l, e, t) = SumFunctionOnSet(fun, 1..n)
  BY PaidBy
<1>4. Paid(L, e, t) = SumFunctionOnSet(gun, 1..n \cup {n + 1})
  BY <1>1, <1>2, PaidBy
<1>5. \A j \in 1..n : fun[j] = gun[j]
  BY <1>1, <1>2
<1>6. gun[n + 1] = Received(ev, e, t)
  BY <1>1, <1>2
<1>7. \A j \in 1..n \cup {n + 1} : gun[j] \in Nat
  BY <1>1, <1>2, ReceivedType
<1> HIDE DEF fun, gun, n, L
<1>8. SumFunctionOnSet(fun, 1..n) = SumFunctionOnSet(gun, 1..n)
  BY <1>5, SumSame
<1>9. SumFunctionOnSet(gun, 1..n \cup {n + 1}) = SumFunctionOnSet(gun, 1..n) + gun[n + 1]
  <2> DEFINE S == 1..n
             x == n + 1
  <2>1. IsFiniteSet(S) /\ x \notin S /\ \A y \in S \cup {x} : gun[y] \in Nat
    BY <1>2, <1>7
  <2> HIDE DEF S, x
  <2>2. SumFunctionOnSet(gun, S \cup {x}) = SumFunctionOnSet(gun, S) + gun[x]
    BY <2>1, SumAdd
  <2> QED
    BY <2>2 DEF S, x
<1> QED
  BY <1>3, <1>4, <1>6, <1>8, <1>9 DEF L

LEMMA PaidNothing ==
  ASSUME NEW e, NEW t
  PROVE  Paid(<<>>, e, t) = 0
BY SumEmpty DEF Paid, SumFunction

-----------------------------------------------------------------------------
(* What was returned, and from there on.                                   *)

LEMMA WorldLog ==
  ASSUME NEW w \in World
  PROVE  /\ w.log \in Seq(Event) /\ Len(w.log) \in Nat
         /\ \A j \in 1..Len(w.log) : w.log[j] \in Event /\ w.log[j].id \in Nat
         /\ \A e \in EthAddresses, t \in Tokens : w.owned[e][t] \in Nat /\ Paid(w.log, e, t) \in Nat
<1>1. w.log \in Seq(Event)
  BY DEF World
<1>2. \A j \in 1..Len(w.log) : w.log[j] \in Event
  BY <1>1
<1>3. \A e \in EthAddresses, t \in Tokens : w.owned[e][t] \in Nat
  BY DEF World
<1>4. \A e, t : Paid(w.log, e, t) \in Nat
  BY <1>1, PaidType
<1> QED
  BY <1>1, <1>2, <1>3, <1>4 DEF Event

LEMMA ReturnsSelf ==
  ASSUME NEW w \in World, NEW m
  PROVE  Returns(w, w, m)
BY WorldLog DEF Returns, Grows, Settles

LEMMA GrowsOn ==
  ASSUME NEW u \in World, NEW v \in World, NEW w \in World, NEW m \in Nat, NEW n \in Nat,
         m <= n, Grows(u, v, m), Grows(v, w, n)
  PROVE  Grows(u, w, m)
<1>1. /\ Len(u.log) \in Nat /\ Len(v.log) \in Nat /\ Len(w.log) \in Nat
      /\ \A j \in 1..Len(w.log) : w.log[j].id \in Nat
  BY WorldLog
<1>2. Len(u.log) <= Len(v.log) /\ Len(v.log) <= Len(w.log)
  BY DEF Grows
<1>3. \A j \in 1..Len(u.log) : j \in 1..Len(v.log) /\ w.log[j] = u.log[j]
  BY <1>1, <1>2 DEF Grows
<1>4. ASSUME NEW j \in 1..Len(w.log), j \notin 1..Len(u.log)
      PROVE  w.log[j].id >= m /\ w.log[j].owner \in w.deployed
  <2>1. CASE j \in 1..Len(v.log)
    BY <1>4, <2>1 DEF Grows
  <2>2. CASE j \notin 1..Len(v.log)
    BY <1>1, <1>4, <2>2 DEF Grows
  <2> QED
    BY <2>1, <2>2
<1> QED
  BY <1>1, <1>2, <1>3, <1>4 DEF Grows

\* An interrupted invocation goes on from what the call has returned.
LEMMA EarnsOn ==
  ASSUME NEW f \in Frame, NEW u \in World, NEW w \in World, NEW m \in Nat, f.id < m,
         Earns(f, u), Returns(u, w, m)
  PROVE  Earns(f, w)
<1>1. f.entry \in World /\ f.id \in Nat
  BY DEF Frame
<1>2. Grows(f.entry, w, f.id)
  BY <1>1, GrowsOn DEF Earns, Returns
<1>3. ASSUME NEW e \in EthAddresses, NEW t \in Tokens
      PROVE  w.owned[e][t] + Paid(f.entry.log, e, t) =
               f.entry.owned[e][t] + Paid(w.log, e, t) + Owed(f, e, t)
  <2>1. /\ w.owned[e][t] \in Nat /\ u.owned[e][t] \in Nat /\ f.entry.owned[e][t] \in Nat
        /\ Paid(w.log, e, t) \in Nat /\ Paid(u.log, e, t) \in Nat
        /\ Paid(f.entry.log, e, t) \in Nat /\ Owed(f, e, t) \in Nat
    BY <1>1, WorldLog DEF Owed, Frame
  <2>2. /\ u.owned[e][t] + Paid(f.entry.log, e, t) =
             f.entry.owned[e][t] + Paid(u.log, e, t) + Owed(f, e, t)
        /\ w.owned[e][t] + Paid(u.log, e, t) = u.owned[e][t] + Paid(w.log, e, t)
    BY DEF Earns, SettlesWith, Returns, Settles
  <2> QED
    BY <2>1, <2>2
<1> QED
  BY <1>2, <1>3 DEF Earns, SettlesWith

\* One event more, and the tokens it speaks of.
LEMMA GrowsMore ==
  ASSUME NEW u \in World, NEW v \in World, NEW w \in World, NEW m \in Nat, Grows(u, v, m),
         NEW ev \in Event, ev.id >= m, ev.owner \in v.deployed,
         w.log = Append(v.log, ev), w.deployed = v.deployed
  PROVE  Grows(u, w, m)
<1>1. v.log \in Seq(Event) /\ u.log \in Seq(Event) /\ Len(u.log) \in Nat /\ Len(v.log) \in Nat
  BY WorldLog
<1>2. /\ Len(w.log) = Len(v.log) + 1 /\ w.log[Len(v.log) + 1] = ev
      /\ \A j \in 1..Len(v.log) : w.log[j] = v.log[j]
  BY <1>1, PushStack
<1>3. \A j \in 1..Len(w.log) : j \in 1..Len(v.log) \/ j = Len(v.log) + 1
  BY <1>1, <1>2
<1>4. \A j \in 1..Len(u.log) : j \in 1..Len(v.log)
  BY <1>1 DEF Grows
<1>5. Len(u.log) <= Len(w.log)
  BY <1>1, <1>2 DEF Grows
<1> QED
  BY <1>2, <1>3, <1>4, <1>5 DEF Grows

LEMMA PaidMore ==
  ASSUME NEW v \in World, NEW w \in World, NEW ev \in Event, w.log = Append(v.log, ev)
  PROVE  \A e \in EthAddresses, t \in Tokens :
           Paid(w.log, e, t) = Paid(v.log, e, t) + Received(ev, e, t)
<1>1. v.log \in Seq(Event)
  BY WorldLog
<1>2. \A e, t : Paid(Append(v.log, ev), e, t) = Paid(v.log, e, t) + Received(ev, e, t)
  BY <1>1, PaidAppend
<1> QED
  BY <1>2

\* The event speaks of what was given with it, or was owed before.
LEMMA SettlesMore ==
  ASSUME NEW u \in World, NEW v \in World, NEW w \in World, Settles(u, v), NEW ev \in Event,
         \A e \in EthAddresses, t \in Tokens :
           /\ w.owned[e][t] = v.owned[e][t] + Received(ev, e, t)
           /\ Paid(w.log, e, t) = Paid(v.log, e, t) + Received(ev, e, t)
  PROVE  Settles(u, w)
<1>1. ASSUME NEW e \in EthAddresses, NEW t \in Tokens
      PROVE  w.owned[e][t] + Paid(u.log, e, t) = u.owned[e][t] + Paid(w.log, e, t)
  <2>1. /\ v.owned[e][t] \in Nat /\ u.owned[e][t] \in Nat
        /\ Paid(v.log, e, t) \in Nat /\ Paid(u.log, e, t) \in Nat /\ Received(ev, e, t) \in Nat
    BY WorldLog, ReceivedType
  <2>2. v.owned[e][t] + Paid(u.log, e, t) = u.owned[e][t] + Paid(v.log, e, t)
    BY DEF Settles
  <2> QED
    BY <2>1, <2>2
<1> QED
  BY <1>1 DEF Settles

LEMMA OwedType ==
  ASSUME NEW f \in Frame, NEW e, NEW t
  PROVE  Owed(f, e, t) \in Nat
BY DEF Owed, Frame

LEMMA EarnsMore ==
  ASSUME NEW f \in Frame, NEW g \in Frame, g.entry = f.entry,
         NEW v \in World, NEW w \in World, SettlesWith(f, v), NEW ev \in Event,
         \A e \in EthAddresses, t \in Tokens :
           /\ w.owned[e][t] + Owed(f, e, t) = v.owned[e][t] + Received(ev, e, t)
           /\ Paid(w.log, e, t) = Paid(v.log, e, t) + Received(ev, e, t)
           /\ Owed(g, e, t) = 0
  PROVE  SettlesWith(g, w)
<1>1. ASSUME NEW e \in EthAddresses, NEW t \in Tokens
      PROVE  w.owned[e][t] + Paid(g.entry.log, e, t) =
               g.entry.owned[e][t] + Paid(w.log, e, t) + Owed(g, e, t)
  <2>1. /\ w.owned[e][t] \in Nat /\ v.owned[e][t] \in Nat /\ Received(ev, e, t) \in Nat
        /\ g.entry.owned[e][t] \in Nat /\ Paid(g.entry.log, e, t) \in Nat
        /\ Paid(v.log, e, t) \in Nat /\ Owed(f, e, t) \in Nat
    <3>1. g.entry \in World
      BY CallTyped
    <3> QED
      BY <3>1, WorldLog, ReceivedType, OwedType
  <2>2. v.owned[e][t] + Paid(g.entry.log, e, t) =
          g.entry.owned[e][t] + Paid(v.log, e, t) + Owed(f, e, t)
    BY DEF SettlesWith
  <2> QED
    BY <2>1, <2>2
<1> QED
  BY <1>1 DEF SettlesWith

\* Tokens given that the log is still to speak of.
LEMMA OwesMore ==
  ASSUME NEW f \in Frame, NEW g \in Frame, g.entry = f.entry,
         NEW v \in World, NEW w \in World, SettlesWith(f, v), w.log = v.log,
         \A e \in EthAddresses, t \in Tokens :
           /\ w.owned[e][t] = v.owned[e][t] + Owed(g, e, t)
           /\ Owed(f, e, t) = 0
  PROVE  SettlesWith(g, w)
<1>1. ASSUME NEW e \in EthAddresses, NEW t \in Tokens
      PROVE  w.owned[e][t] + Paid(g.entry.log, e, t) =
               g.entry.owned[e][t] + Paid(w.log, e, t) + Owed(g, e, t)
  <2>1. /\ v.owned[e][t] \in Nat /\ g.entry.owned[e][t] \in Nat
        /\ Paid(g.entry.log, e, t) \in Nat /\ Paid(v.log, e, t) \in Nat /\ Owed(g, e, t) \in Nat
    <3>1. g.entry \in World
      BY CallTyped
    <3> QED
      BY <3>1, WorldLog, OwedType
  <2>2. v.owned[e][t] + Paid(g.entry.log, e, t) =
          g.entry.owned[e][t] + Paid(v.log, e, t) + 0
    BY DEF SettlesWith
  <2> QED
    BY <2>1, <2>2
<1> QED
  BY <1>1 DEF SettlesWith

-----------------------------------------------------------------------------
(* What the things a step does to the stack do to the ledgers.             *)

LEMMA TopEarns ==
  ASSUME DInv, stack # <<>>
  PROVE  /\ Earns(Top, Now) /\ Top \in Frame /\ Accepted(Top) /\ Follows(Top, Now)
         /\ Now \in World /\ Top.entry \in World /\ Top.rescue \in World
         /\ Top.id \in Nat /\ Top.call.eth \in EthAddresses
<1>1. Len(stack) \in 1..Len(stack) /\ Top \in Frame
  BY TopFollows DEF DInv, BInv
<1>2. Top.id \in Nat /\ Top.call.eth \in EthAddresses
  BY <1>1, CallTyped DEF Frame
<1> QED
  BY <1>1, <1>2, TopFollows DEF DInv, BInv, Ledgers, WorldAt, Top

LEMMA UpdateLedgers ==
  ASSUME DInv, stack # <<>>, NEW g \in Frame, stack' = [stack EXCEPT ![Len(stack)] = g],
         g.entry = Top.entry, Earns(g, Now')
  PROVE  Ledgers'
<1> DEFINE n == Len(stack)
<1>1. /\ n \in Nat \ {0} /\ Len(stack') = n /\ stack' # <<>> /\ stack'[n] = g
      /\ \A i \in 1..(n - 1) : stack'[i] = stack[i]
  BY PopStack, UpdateTop DEF DInv, BInv, OInv, CInv, TypeOK
<1>2. stack[n].entry = g.entry /\ n = Len(stack)
  BY DEF Top
<1> HIDE DEF n
<1>3. \A i \in 1..n : i = n \/ (i # n /\ i \in 1..(n - 1) /\ i + 1 \in 1..n)
  BY <1>1
<1>4. 1 \in 1..n /\ \A i \in 1..n : stack'[i].entry = stack[i].entry
  <2>1. \A i \in 1..n : stack'[i].entry = stack[i].entry
    BY <1>1, <1>2, <1>3
  <2>2. 1 \in 1..n
    BY <1>1
  <2> QED
    BY <2>1, <2>2
<1>5. ASSUME NEW i \in 1..n PROVE Earns(stack'[i], WorldAt(i)')
  <2>1. CASE i = n
    BY <2>1, <1>1 DEF WorldAt
  <2>2. CASE i # n
    <3>1. stack'[i] = stack[i] /\ i + 1 \in 1..n
      BY <2>2, <1>1, <1>3
    <3>2. WorldAt(i) = stack[i + 1].entry /\ WorldAt(i)' = stack'[i + 1].entry
      BY <2>2, <1>1, <1>2 DEF WorldAt
    <3>3. Earns(stack[i], WorldAt(i))
      BY <1>2 DEF DInv, Ledgers
    <3> QED
      BY <3>1, <3>2, <3>3, <1>4
  <2> QED
    BY <2>1, <2>2
<1>6. Square(stack'[1].entry)
  BY <1>4 DEF DInv, Ledgers
<1> QED
  BY <1>1, <1>5, <1>6 DEF Ledgers

LEMMA PushLedgers ==
  ASSUME DInv, NEW f \in Frame, stack' = Append(stack, f), f.entry = Now, Earns(f, Now')
  PROVE  Ledgers'
<1> DEFINE n == Len(stack)
<1>1. /\ n \in Nat /\ Len(stack') = n + 1 /\ stack' # <<>> /\ stack'[n + 1] = f
      /\ \A i \in 1..n : stack'[i] = stack[i]
  <2>1. stack \in Seq(Frame) /\ n \in Nat
    BY DEF DInv, BInv, OInv, CInv, TypeOK
  <2> QED
    BY <2>1, PushStack
<1>2. n = Len(stack) /\ (stack = <<>> <=> n = 0)
  BY DEF DInv, BInv, OInv, CInv, TypeOK
<1> HIDE DEF n
<1>3. ASSUME NEW i \in 1..(n + 1) PROVE Earns(stack'[i], WorldAt(i)')
  <2>1. CASE i = n + 1
    BY <2>1, <1>1 DEF WorldAt
  <2>2. CASE i # n + 1
    <3>1. i \in 1..n /\ (i # n => i + 1 \in 1..n)
      BY <2>2, <1>1
    <3>2. WorldAt(i)' = stack'[i + 1].entry
      BY <2>2, <1>1 DEF WorldAt
    <3>3. WorldAt(i) = stack'[i + 1].entry
      BY <3>1, <1>1, <1>2 DEF WorldAt
    <3> QED
      BY <3>1, <3>2, <3>3, <1>1, <1>2 DEF DInv, Ledgers
  <2> QED
    BY <2>1, <2>2
<1>4. Square(stack'[1].entry)
  <2>1. CASE n = 0
    BY <2>1, <1>1, <1>2 DEF DInv, Ledgers
  <2>2. CASE n # 0
    <3>1. 1 \in 1..n
      BY <2>2, <1>1
    <3> QED
      BY <2>2, <3>1, <1>1, <1>2 DEF DInv, Ledgers
  <2> QED
    BY <2>1, <2>2
<1> QED
  BY <1>1, <1>3, <1>4 DEF Ledgers

LEMMA SquareOn ==
  ASSUME NEW u \in World, NEW w \in World, Square(u), Settles(u, w)
  PROVE  Square(w)
<1>1. ASSUME NEW e \in EthAddresses, NEW t \in Tokens
      PROVE  w.owned[e][t] = Paid(w.log, e, t)
  <2>1. /\ w.owned[e][t] \in Nat /\ u.owned[e][t] \in Nat
        /\ Paid(w.log, e, t) \in Nat /\ Paid(u.log, e, t) \in Nat
    BY WorldLog
  <2> QED
    BY <2>1 DEF Square, Settles
<1> QED
  BY <1>1 DEF Square

LEMMA PopLedgers ==
  ASSUME DInv, stack # <<>>, Pop, Now' \in World, Returns(Top.entry, Now', Top.id)
  PROVE  Ledgers'
<1> DEFINE n == Len(stack)
<1>1. /\ n \in Nat \ {0} /\ stack' \in Seq(Frame) /\ Len(stack') = n - 1
      /\ (stack' = <<>> <=> n = 1)
      /\ \A i \in 1..(n - 1) : stack'[i] = stack[i]
  <2>1. /\ n \in Nat \ {0} /\ stack' \in Seq(Frame) /\ Len(stack') = n - 1
        /\ \A i \in 1..(n - 1) : stack'[i] = stack[i]
    BY PopStack DEF DInv, BInv, OInv, CInv, TypeOK, Pop
  <2> HIDE DEF n
  <2> QED
    BY <2>1
<1>2. n = Len(stack) /\ stack \in Seq(Frame) /\ Top = stack[n] /\ Top.id \in Nat
      /\ Top.entry \in World
  BY TopEarns DEF DInv, BInv, OInv, CInv, TypeOK, Top
<1> HIDE DEF n
<1>3. ASSUME NEW i \in 1..(n - 1) PROVE Earns(stack'[i], WorldAt(i)')
  <2>1. /\ i \in 1..n /\ i # n /\ i + 1 \in 1..n /\ (i # n - 1 => i + 1 \in 1..(n - 1))
    BY <1>1
  <2>2. /\ Earns(stack[i], stack[i + 1].entry) /\ stack[i] \in Frame
        /\ stack[i].id < stack[i + 1].id
    <3>1. WorldAt(i) = stack[i + 1].entry
      BY <2>1, <1>2 DEF WorldAt
    <3> QED
      BY <3>1, <2>1, <1>2 DEF DInv, BInv, Books, Ledgers
  <2>3. CASE i = n - 1
    <3>1. WorldAt(i)' = Now' /\ i + 1 = n
      BY <2>3, <1>1 DEF WorldAt
    <3> QED
      BY <3>1, <2>2, <1>1, <1>2, EarnsOn
  <2>4. CASE i # n - 1
    <3>1. WorldAt(i)' = stack'[i + 1].entry
      BY <2>4, <1>1 DEF WorldAt
    <3>2. stack'[i + 1] = stack[i + 1] /\ stack'[i] = stack[i]
      BY <2>1, <2>4, <1>1
    <3> QED
      BY <3>1, <3>2, <2>2
  <2> QED
    BY <2>3, <2>4
<1>4. stack' # <<>> => Square(stack'[1].entry)
  <2>1. stack' # <<>> => 1 \in 1..(n - 1) /\ stack # <<>>
    BY <1>1
  <2> QED
    BY <2>1, <1>1 DEF DInv, Ledgers
<1>5. stack' = <<>> => Square(Now')
  <2> SUFFICES ASSUME n = 1 PROVE Square(Now')
    BY <1>1
  <2>1. Square(Top.entry)
    BY <1>2 DEF DInv, Ledgers
  <2> QED
    BY <2>1, <1>2, SquareOn DEF Returns
<1> QED
  BY <1>1, <1>3, <1>4, <1>5 DEF Ledgers

-----------------------------------------------------------------------------
(* What each step earns, owes and writes.                                  *)

LEMMA NextWorld ==
  ASSUME BInv'
  PROVE  Now' \in World
BY DEF BInv, OInv, CInv, TypeOK, Now, World

\* What a credit of n to e adds to the balances.
Given(e, t, n) == [o \in EthAddresses |-> [k \in Tokens |-> IF o = e /\ k = t THEN n ELSE 0]]

LEMMA CreditAdds ==
  ASSUME NEW v \in World, NEW w \in World, NEW e \in EthAddresses,
         NEW t \in Tokens, NEW n \in Nat, w.owned = Credit(v.owned, e, t, n)
  PROVE  \A o \in EthAddresses, k \in Tokens :
           w.owned[o][k] = v.owned[o][k] + Given(e, t, n)[o][k]
<1>1. v.owned \in [EthAddresses -> [Tokens -> Nat]]
  BY DEF World
<1> QED
  BY <1>1 DEF Credit, Given

\* Nothing is written and nobody's tokens move.
LEMMA QuietLedgers ==
  ASSUME DInv, stack # <<>>, Now' \in World, NEW g \in Frame, g.id = Top.id,
         g.entry = Top.entry, stack' = [stack EXCEPT ![Len(stack)] = g],
         UNCHANGED <<owned, log>>, deployed \subseteq deployed',
         \A e, t : Owed(g, e, t) = Owed(Top, e, t),
         g.rescue = Top.rescue \/ (g.rescue = Now /\ \A e, t : Owed(Top, e, t) = 0)
  PROVE  Ledgers'
<1>1. Earns(Top, Now) /\ Now \in World /\ Top.entry \in World
  BY TopEarns
<1>2. /\ Now.log = log /\ Now'.log = log /\ Now.owned = owned /\ Now'.owned = owned
      /\ Now.deployed = deployed /\ Now'.deployed = deployed'
  BY DEF Now
<1>3. Grows(g.entry, Now', g.id)
  BY <1>1, <1>2 DEF Earns, Grows
<1>4. SettlesWith(g, Now')
  BY <1>1, <1>2 DEF Earns, SettlesWith
<1>5. Returns(g.entry, g.rescue, g.id)
  <2>1. CASE g.rescue = Top.rescue
    BY <1>1, <2>1 DEF Earns
  <2>2. CASE g.rescue = Now /\ \A e, t : Owed(Top, e, t) = 0
    <3>1. \A e \in EthAddresses, t \in Tokens :
            /\ Now.owned[e][t] + Paid(Top.entry.log, e, t) =
                 Top.entry.owned[e][t] + Paid(Now.log, e, t) + Owed(Top, e, t)
            /\ Owed(Top, e, t) = 0
            /\ Top.entry.owned[e][t] \in Nat /\ Paid(Now.log, e, t) \in Nat
      BY <1>1, <2>2, WorldLog DEF Earns, SettlesWith
    <3>2. Settles(Top.entry, Now)
      BY <3>1 DEF Settles
    <3> QED
      BY <1>1, <2>2, <3>2 DEF Earns, Returns
  <2> QED
    BY <2>1, <2>2
<1>6. Earns(g, Now')
  BY <1>1, <1>3, <1>4, <1>5 DEF Earns
<1> QED
  BY <1>6, UpdateLedgers

\* An outcome is written: it speaks of what the owner was given, now or before.
LEMMA OutcomeLedgers ==
  ASSUME DInv, stack # <<>>, Now' \in World, NEW g \in Frame, g.id = Top.id,
         g.entry = Top.entry, g.rescue = Top.rescue, g.pc = "report",
         stack' = [stack EXCEPT ![Len(stack)] = g], deployed' = deployed,
         NEW ev \in Event, log' = Append(log, ev), ev.id = Top.id, ev.owner \in deployed,
         \A e \in EthAddresses, t \in Tokens :
           owned'[e][t] + Owed(Top, e, t) = owned[e][t] + Received(ev, e, t)
  PROVE  Ledgers'
<1>1. Earns(Top, Now) /\ Now \in World /\ Top.entry \in World /\ Top \in Frame /\ Top.id \in Nat
  BY TopEarns
<1>2. /\ Now.log = log /\ Now'.log = log' /\ Now.owned = owned /\ Now'.owned = owned'
      /\ Now.deployed = deployed /\ Now'.deployed = deployed'
  BY DEF Now
<1>3. Grows(Top.entry, Now, Top.id) /\ SettlesWith(Top, Now)
      /\ Kept(Top.entry.log, Top.id) /\ Returns(Top.entry, Top.rescue, Top.id)
  BY <1>1 DEF Earns
<1>4. Now'.log = Append(Now.log, ev) /\ Now'.deployed = Now.deployed
      /\ ev.id >= Top.id /\ ev.owner \in Now.deployed
  BY <1>1, <1>2
<1>5. Grows(Top.entry, Now', Top.id)
  BY <1>1, <1>3, <1>4, GrowsMore
<1>6. \A e \in EthAddresses, t \in Tokens :
        Paid(Now'.log, e, t) = Paid(Now.log, e, t) + Received(ev, e, t)
  BY <1>1, <1>4, PaidMore
<1>7. \A e \in EthAddresses, t \in Tokens :
        /\ Now'.owned[e][t] + Owed(Top, e, t) = Now.owned[e][t] + Received(ev, e, t)
        /\ Owed(g, e, t) = 0
  BY <1>2 DEF Owed
<1>8. SettlesWith(g, Now')
  BY <1>1, <1>3, <1>6, <1>7, EarnsMore
<1>9. Earns(g, Now')
  BY <1>3, <1>5, <1>8 DEF Earns
<1> QED
  BY <1>9, UpdateLedgers

\* A step that ends an invocation returns what it has earned.
Ended == stack # <<>> /\ Pop /\ Returns(Top.entry, Now', Top.id)

LEMMA RevertReturns ==
  ASSUME DInv, stack # <<>>, RevertApply(Top)
  PROVE  Ended
<1>1. Now' = Top.entry /\ Top.entry \in World
  BY TopEarns DEF RevertApply, Now, World
<1> QED
  BY <1>1, ReturnsSelf DEF Ended, RevertApply

LEMMA ErrorReturns ==
  ASSUME DInv, stack # <<>>, Now' \in World, NEW w \in World,
         Returns(Top.entry, w, Top.id), Top.call.eth \in w.deployed,
         handle_apply_on_self_error(Top, w)
  PROVE  Ended
<1> DEFINE eth == Top.call.eth
           token == Top.call.token
           n == Top.call.amount
           ev == Announce("ApplyFailed", Top, token, n, token, 0, n)
<1>1. CASE w.held[token] >= n
  <2>1. /\ Pop /\ Now'.log = Append(w.log, ev) /\ Now'.deployed = w.deployed
        /\ Now'.owned = Credit(w.owned, eth, token, n)
    BY <1>1 DEF handle_apply_on_self_error, Now
  <2>2. /\ Top \in Frame /\ Top.entry \in World /\ Top.id \in Nat
        /\ eth \in EthAddresses /\ token \in Tokens /\ n \in Nat
    BY TopEarns, CallTyped
  <2>3. ev \in Event
    BY <2>2, AnnounceEvent
  <2>4. /\ ev.id = Top.id /\ ev.owner = eth
        /\ \A e, t : Received(ev, e, t) = IF e = eth /\ t = token THEN n ELSE 0
    BY <2>2 DEF Announce, Received, Outcomes
  <2>5. \A e \in EthAddresses, t \in Tokens :
          Now'.owned[e][t] = w.owned[e][t] + Received(ev, e, t)
    <3>1. eth \in EthAddresses /\ token \in Tokens /\ n \in Nat
          /\ Now'.owned = Credit(w.owned, eth, token, n)
      BY <2>1, <2>2
    <3> HIDE DEF eth, token, n
    <3>2. \A e \in EthAddresses, t \in Tokens :
            Now'.owned[e][t] = w.owned[e][t] + Given(eth, token, n)[e][t]
      BY <3>1, CreditAdds
    <3> QED
      BY <2>4, <3>2 DEF Given
  <2> HIDE DEF ev, eth, token, n
  <2>6. Grows(Top.entry, Now', Top.id)
    <3>1. ev.id >= Top.id /\ ev.owner \in w.deployed
      BY <2>2, <2>4 DEF eth
    <3>2. Grows(Top.entry, w, Top.id)
      BY DEF Returns
    <3> QED
      BY <2>1, <2>2, <2>3, <3>1, <3>2, GrowsMore
  <2>7. \A e \in EthAddresses, t \in Tokens :
          Paid(Now'.log, e, t) = Paid(w.log, e, t) + Received(ev, e, t)
    BY <2>1, <2>3, PaidMore
  <2>8. Settles(Top.entry, Now')
    BY <2>2, <2>3, <2>5, <2>7, SettlesMore DEF Returns
  <2> QED
    BY <2>1, <2>6, <2>8 DEF Ended, Returns
<1>2. CASE ~(w.held[token] >= n)
  BY <1>2, RevertReturns DEF handle_apply_on_self_error
<1> QED
  BY <1>1, <1>2

LEMMA RefusesReturns ==
  ASSUME DInv, Now' \in World, ApplyOnSelfRefuses
  PROVE  Ended
<1>1. stack # <<>> /\ Top.pc = "dispatch"
      /\ handle_apply_on_self_error(Top, RolledBack(Dispatched(Top)))
  BY DEF ApplyOnSelfRefuses, At
<1>2. /\ Earns(Top, Now) /\ Top \in Frame /\ Follows(Top, Now) /\ Now \in World
      /\ Top.entry \in World
  BY <1>1, TopEarns
<1>3. RolledBack(Dispatched(Top)) = Now
  BY <1>2 DEF RolledBack, Dispatched, Frame
<1>4. ASSUME NEW e \in EthAddresses, NEW t \in Tokens
      PROVE  Now.owned[e][t] + Paid(Top.entry.log, e, t) =
               Top.entry.owned[e][t] + Paid(Now.log, e, t)
  <2>1. Top.entry.owned[e][t] \in Nat /\ Paid(Now.log, e, t) \in Nat /\ Owed(Top, e, t) = 0
    BY <1>1, <1>2, WorldLog DEF Owed
  <2> QED
    BY <1>2, <2>1 DEF Earns, SettlesWith
<1>5. Returns(Top.entry, Now, Top.id) /\ Top.call.eth \in Now.deployed
  BY <1>1, <1>2, <1>4 DEF Returns, Settles, Earns, Follows
<1> QED
  BY <1>1, <1>2, <1>3, <1>5, ErrorReturns

LEMMA FailsReturns ==
  ASSUME DInv, Now' \in World, StrategyFails
  PROVE  Ended
<1>1. stack # <<>> /\ handle_apply_on_self_error(Top, RolledBack(Top))
      /\ Top.pc \notin {"header", "dispatch"}
  BY DEF StrategyFails, InStrategy, At
<1>2. Earns(Top, Now) /\ Follows(Top, Now) /\ Top.rescue \in World /\ RolledBack(Top) = Top.rescue
  BY <1>1, TopEarns DEF RolledBack
<1>3. Returns(Top.entry, Top.rescue, Top.id) /\ Top.call.eth \in Top.rescue.deployed
  BY <1>1, <1>2 DEF Earns, Follows
<1> QED
  BY <1>1, <1>2, <1>3, ErrorReturns

LEMMA ReportReturns ==
  ASSUME DInv, Now' \in World, ReportAction
  PROVE  Ended
<1> DEFINE ev == Order(Top)
<1>1. /\ stack # <<>> /\ Top.pc = "report" /\ Pop /\ UNCHANGED <<owned, deployed>>
      /\ log' = log \/ log' = Append(log, ev)
  BY DEF ReportAction, At, Order
<1>2. /\ Earns(Top, Now) /\ Top \in Frame /\ Follows(Top, Now) /\ Now \in World
      /\ Top.entry \in World /\ Top.id \in Nat /\ Accepted(Top)
  BY <1>1, TopEarns
<1>3. /\ Now'.owned = Now.owned /\ Now'.deployed = Now.deployed
      /\ Now.log = log /\ Now'.log = log'
  BY <1>1 DEF Now
<1>4. /\ ev.id = Top.id /\ ev.owner = Top.call.eth /\ ev.owner \in Now.deployed
      /\ \A e, t : Received(ev, e, t) = 0
  BY <1>1, <1>2 DEF Order, Announce, Received, Outcomes, Follows
<1>5. ev \in Event
  <2>1. Top.call.token \in Tokens /\ Top.call.amount \in Nat /\ Top.shares \in Nat
    BY <1>2, CallTyped DEF Frame
  <2>2. Out(Top) \in Tokens
    BY <1>1, <1>2, OutTyped
  <2> QED
    BY <1>2, <2>1, <2>2, AnnounceEvent DEF Order
<1> HIDE DEF ev
<1>6. Grows(Top.entry, Now, Top.id) /\ Settles(Top.entry, Now)
  <2>1. \A e \in EthAddresses, t \in Tokens :
          /\ Now.owned[e][t] + Paid(Top.entry.log, e, t) =
               Top.entry.owned[e][t] + Paid(Now.log, e, t) + Owed(Top, e, t)
          /\ Owed(Top, e, t) = 0
          /\ Top.entry.owned[e][t] \in Nat /\ Paid(Now.log, e, t) \in Nat
    BY <1>1, <1>2, WorldLog DEF Owed, Earns, SettlesWith
  <2> QED
    BY <1>2, <2>1 DEF Earns, Settles
<1>7. Grows(Top.entry, Now', Top.id) /\ Settles(Top.entry, Now')
  <2>1. CASE log' = log
    BY <1>3, <1>6, <2>1 DEF Grows, Settles
  <2>2. CASE log' = Append(log, ev)
    <3>1. ev.id >= Top.id /\ Now'.log = Append(Now.log, ev)
      BY <1>2, <1>3, <1>4, <2>2
    <3>2. Grows(Top.entry, Now', Top.id)
      BY <1>2, <1>3, <1>4, <1>5, <1>6, <3>1, GrowsMore
    <3>3. \A e \in EthAddresses, t \in Tokens :
            Paid(Now'.log, e, t) = Paid(Now.log, e, t) + Received(ev, e, t)
      BY <1>2, <1>5, <3>1, PaidMore
    <3>4. \A e \in EthAddresses, t \in Tokens :
            Now'.owned[e][t] = Now.owned[e][t] + Received(ev, e, t)
      <4>1. \A e \in EthAddresses, t \in Tokens : Now.owned[e][t] \in Nat
        BY <1>2, WorldLog
      <4> QED
        BY <1>3, <1>4, <4>1
    <3> QED
      BY <1>2, <1>5, <1>6, <3>2, <3>3, <3>4, SettlesMore
  <2> QED
    BY <1>1, <2>1, <2>2
<1> QED
  BY <1>1, <1>7 DEF Ended, Returns

LEMMA ApplyLedgers ==
  ASSUME DInv, Now' \in World, NEW call \in Calls, Apply(call)
  PROVE  Ledgers'
<1> DEFINE f == [id |-> applies, call |-> call, pc |-> "header", entry |-> Now, rescue |-> Now,
                 settled |-> FALSE, spent |-> 0, got |-> 0, lst |-> 0,
                 sell_token_before |-> 0, buy_token_before |-> 0, shares |-> 0]
<1>1. applies \in Nat /\ Now \in World
  BY NowTyped DEF DInv, BInv, OInv, CInv, TypeOK
<1>2. /\ f \in Frame /\ f.pc = "header" /\ f.entry = Now /\ f.rescue = Now /\ f.id = applies
  BY <1>1 DEF Frame
<1>3. /\ stack' = Append(stack, f) /\ Now'.log = Now.log /\ Now'.owned = Now.owned
      /\ Now'.deployed = Now.deployed
  BY DEF Apply, Now
<1> HIDE DEF f
<1>4. Kept(Now.log, applies)
  BY LogKept DEF DInv, Now
<1>5. Returns(Now, Now, applies)
  BY <1>1, ReturnsSelf
<1>6. Grows(Now, Now', applies)
  BY <1>3, <1>5 DEF Returns, Grows
<1>7. SettlesWith(f, Now')
  <2>1. \A e \in EthAddresses, t \in Tokens :
          Owed(f, e, t) = 0 /\ Now.owned[e][t] \in Nat /\ Paid(Now.log, e, t) \in Nat
    BY <1>1, <1>2, WorldLog DEF Owed
  <2> QED
    BY <1>2, <1>3, <2>1 DEF SettlesWith
<1> QED
  BY <1>2, <1>3, <1>4, <1>5, <1>6, <1>7, PushLedgers DEF Earns

LEMMA DeployLedgers ==
  ASSUME DInv, Now' \in World, ApplyDeploysAccount
  PROVE  Ledgers'
<1> DEFINE g == [Top EXCEPT !.pc = "dispatch"]
<1>1. /\ stack # <<>> /\ Top.pc = "header" /\ stack' = [stack EXCEPT ![Len(stack)] = g]
      /\ UNCHANGED <<owned, log>> /\ deployed \subseteq deployed'
  BY DEF ApplyDeploysAccount, At, Become
<1>2. /\ g \in Frame /\ g.pc = "dispatch" /\ g.id = Top.id /\ g.entry = Top.entry
      /\ g.rescue = Top.rescue
  BY <1>1, TopEarns DEF Frame
<1> HIDE DEF g
<1>3. \A e, t : Owed(g, e, t) = Owed(Top, e, t)
  BY <1>1, <1>2 DEF Owed
<1> QED
  BY <1>1, <1>2, <1>3, QuietLedgers

\* A safe-dispatched call begins: nothing is owed before or after.
LEMMA DispatchLedgers ==
  ASSUME DInv, Now' \in World, stack # <<>>, Top.pc = "dispatch", NEW g \in Frame,
         g.id = Top.id, g.entry = Top.entry, g.rescue = Now, ~g.settled,
         stack' = [stack EXCEPT ![Len(stack)] = g], UNCHANGED <<owned, deployed, log>>
  PROVE  Ledgers'
<1>1. \A e, t : Owed(g, e, t) = 0 /\ Owed(Top, e, t) = 0
  BY DEF Owed
<1> QED
  BY <1>1, QuietLedgers

LEMMA DepositsLedgers ==
  ASSUME DInv, Now' \in World, ApplyOnSelfDeposits
  PROVE  Ledgers'
<1> DEFINE d == Dispatched(Top)
           g == [d EXCEPT !.pc = "vault"]
<1>1. stack # <<>> /\ Top.pc = "dispatch" /\ stack' = [stack EXCEPT ![Len(stack)] = g]
      /\ UNCHANGED <<owned, deployed, log>>
  BY DEF ApplyOnSelfDeposits, At, Become
<1>2. /\ d \in Frame /\ d.entry = Top.entry /\ d.rescue = Now /\ d.id = Top.id
      /\ ~d.settled
  BY <1>1, TopEarns, TopTyped, DispatchedTyped
     DEF DInv, BInv, OInv, CInv, Dispatched, Frame, Accepted
<1>3. g \in Frame /\ g.id = Top.id /\ g.entry = Top.entry /\ g.rescue = Now /\ ~g.settled
  <2> HIDE DEF d
  <2> QED
    BY <1>2 DEF Frame
<1> HIDE DEF g
<1> QED
  BY <1>1, <1>3, DispatchLedgers

LEMMA SwapsLedgers ==
  ASSUME DInv, Now' \in World, ApplyOnSelfSwaps
  PROVE  Ledgers'
<1> DEFINE d == Dispatched(Top)
           g == [d EXCEPT !.pc = "swap",
                   !.sell_token_before = held[Top.call.token],
                   !.buy_token_before = held[Top.call.swap.buy]]
<1>1. stack # <<>> /\ Top.pc = "dispatch" /\ stack' = [stack EXCEPT ![Len(stack)] = g]
      /\ UNCHANGED <<owned, deployed, log>>
  BY DEF ApplyOnSelfSwaps, At, Become
<1>2. /\ d \in Frame /\ d.entry = Top.entry /\ d.rescue = Now /\ d.id = Top.id
      /\ ~d.settled
  BY <1>1, TopEarns, TopTyped, DispatchedTyped
     DEF DInv, BInv, OInv, CInv, Dispatched, Frame, Accepted
<1>3. held[Top.call.token] \in Nat /\ held[Top.call.swap.buy] \in Nat
  BY <1>1, TopTyped, CallTyped DEF DInv, BInv, OInv, CInv, TypeOK
<1>4. g \in Frame /\ g.id = Top.id /\ g.entry = Top.entry /\ g.rescue = Now /\ ~g.settled
  <2> HIDE DEF d
  <2> QED
    BY <1>2, <1>3 DEF Frame
<1> HIDE DEF g
<1> QED
  BY <1>1, <1>4, DispatchLedgers

LEMMA VaultLedgers ==
  ASSUME DInv, Now' \in World, NEW shares \in Outputs, VaultTakes(shares)
  PROVE  Ledgers'
<1> DEFINE f == Top
           g == [f EXCEPT !.settled = TRUE, !.spent = Assets(f), !.got = shares]
<1>1. /\ stack # <<>> /\ f.pc \in {"vault", "troves"} /\ ~f.settled
      /\ stack' = [stack EXCEPT ![Len(stack)] = g] /\ UNCHANGED <<deployed, log>>
      /\ KeepsShares(f) => owned' = owned
      /\ ~KeepsShares(f) => owned' = Credit(owned, f.call.eth, Vault(f), shares)
  BY DEF VaultTakes, InStrategy, Become
<1>2. /\ f \in Frame /\ Accepted(f) /\ Earns(f, Now) /\ Now \in World /\ f.call.eth \in EthAddresses
  BY <1>1, TopEarns
<1>3. Assets(f) \in Nat /\ shares \in Nat /\ Vault(f) \in Tokens
  BY <1>1, <1>2, DepositTyped, VaultsAreTokens, StrategyAssumption
<1>4. /\ g \in Frame /\ g.pc = f.pc /\ g.call = f.call /\ g.id = f.id /\ g.got = shares
      /\ g.settled /\ g.entry = f.entry /\ g.rescue = f.rescue
  BY <1>2, <1>3 DEF Frame
<1> HIDE DEF g
<1>5. KeepsShares(g) = KeepsShares(f) /\ Vault(g) = Vault(f)
  BY <1>4 DEF KeepsShares, Vault, Kind, LST
<1>6. \A e, t : /\ Owed(f, e, t) = 0
                /\ Owed(g, e, t) = IF ~KeepsShares(f) /\ e = f.call.eth /\ t = Vault(f)
                                   THEN shares ELSE 0
  BY <1>1, <1>4, <1>5 DEF Owed
<1>7. CASE KeepsShares(f)
  BY <1>1, <1>4, <1>6, <1>7, QuietLedgers
<1>8. CASE ~KeepsShares(f)
  <2> DEFINE eth == f.call.eth
             v == Vault(f)
  <2>1. /\ Now'.owned = Credit(Now.owned, eth, v, shares) /\ Now'.log = Now.log
        /\ Now'.deployed = Now.deployed
        /\ eth \in EthAddresses /\ v \in Tokens /\ shares \in Nat
    BY <1>1, <1>2, <1>3, <1>8 DEF Now
  <2>2. \A e, t : Owed(g, e, t) = IF e = eth /\ t = v THEN shares ELSE 0
    BY <1>6, <1>8
  <2>3. g.entry = f.entry /\ f \in Frame /\ SettlesWith(f, Now) /\ Grows(f.entry, Now, f.id)
        /\ Kept(f.entry.log, f.id) /\ Returns(f.entry, f.rescue, f.id)
    BY <1>2, <1>4 DEF Earns
  <2> HIDE DEF eth, v
  <2>4. \A e \in EthAddresses, t \in Tokens :
          Now'.owned[e][t] = Now.owned[e][t] + Given(eth, v, shares)[e][t]
    BY <1>2, <2>1, CreditAdds
  <2>5. \A e \in EthAddresses, t \in Tokens :
          Now'.owned[e][t] = Now.owned[e][t] + Owed(g, e, t)
    BY <2>2, <2>4 DEF Given
  <2>6. \A e \in EthAddresses, t \in Tokens :
          Now'.owned[e][t] = Now.owned[e][t] + Owed(g, e, t) /\ Owed(f, e, t) = 0
    BY <1>6, <2>5
  <2>7. SettlesWith(g, Now')
    <3> HIDE DEF f
    <3> QED
      BY <1>2, <1>4, <2>1, <2>3, <2>6, OwesMore
  <2>8. Grows(g.entry, Now', g.id)
    BY <1>4, <2>1, <2>3 DEF Grows
  <2>9. Earns(g, Now')
    BY <1>4, <2>3, <2>7, <2>8 DEF Earns
  <2> QED
    BY <1>1, <1>4, <2>9, UpdateLedgers
<1> QED
  BY <1>7, <1>8

LEMMA ExchangeLedgers ==
  ASSUME DInv, Now' \in World, NEW sold \in Nat, NEW bought \in Outputs,
         ExchangeFills(sold, bought)
  PROVE  Ledgers'
<1> DEFINE g == [Top EXCEPT !.settled = TRUE, !.spent = sold, !.got = bought]
<1>1. stack # <<>> /\ Top.pc = "swap" /\ UNCHANGED <<owned, deployed, log>>
      /\ stack' = [stack EXCEPT ![Len(stack)] = g]
  BY DEF ExchangeFills, At, Become
<1>2. Top \in Frame /\ bought \in Nat
  BY <1>1, TopEarns, StrategyAssumption
<1>3. g \in Frame /\ g.pc = Top.pc /\ g.id = Top.id /\ g.entry = Top.entry
      /\ g.rescue = Top.rescue
  BY <1>2 DEF Frame
<1> HIDE DEF g
<1>4. \A e, t : Owed(g, e, t) = Owed(Top, e, t)
  BY <1>1, <1>3 DEF Owed
<1> QED
  BY <1>1, <1>3, <1>4, QuietLedgers

LEMMA TrovesLedgers ==
  ASSUME DInv, Now' \in World, TrovesDepositsLST
  PROVE  Ledgers'
<1> DEFINE g == [Top EXCEPT !.pc = "troves", !.lst = Top.got, !.settled = FALSE,
                            !.spent = 0, !.got = 0]
<1>1. /\ stack # <<>> /\ Top.pc = "vault" /\ KeepsShares(Top)
      /\ UNCHANGED <<owned, deployed, log>> /\ stack' = [stack EXCEPT ![Len(stack)] = g]
  BY DEF TrovesDepositsLST, At, Become
<1>2. Top \in Frame /\ Top.got \in Nat
  BY <1>1, TopEarns DEF Frame
<1>3. g \in Frame /\ ~g.settled /\ g.id = Top.id /\ g.entry = Top.entry
      /\ g.rescue = Top.rescue
  BY <1>2 DEF Frame
<1> HIDE DEF g
<1>4. \A e, t : Owed(g, e, t) = Owed(Top, e, t)
  BY <1>1, <1>3 DEF Owed
<1> QED
  BY <1>1, <1>3, <1>4, QuietLedgers

LEMMA DepositReturnsLedgers ==
  ASSUME DInv, Now' \in World, DepositReturns
  PROVE  Ledgers'
<1> DEFINE f == Top
           g == [f EXCEPT !.pc = "report", !.shares = f.got]
           ev == Announce("Deposited", f, f.call.token, f.call.amount, Vault(f), f.got, 0)
<1>1. /\ stack # <<>> /\ f.pc \in {"vault", "troves"} /\ f.settled /\ ~KeepsShares(f)
      /\ stack' = [stack EXCEPT ![Len(stack)] = g] /\ log' = Append(log, ev)
      /\ UNCHANGED <<owned, deployed>>
  BY DEF DepositReturns, InStrategy, Become
<1>2. /\ f \in Frame /\ Accepted(f) /\ Follows(f, Now) /\ f.call.token \in Tokens
      /\ f.call.amount \in Nat /\ f.got \in Nat /\ Now \in World
  BY <1>1, TopEarns, CallTyped DEF Frame
<1>3. Vault(f) \in Tokens
  BY <1>1, <1>2, DepositTyped, VaultsAreTokens
<1>4. ev \in Event
  BY <1>2, <1>3, AnnounceEvent
<1>5. ev.id = f.id /\ ev.owner \in deployed
  BY <1>1, <1>2 DEF Announce, Follows, Now
<1>6. \A e, t : Received(ev, e, t) = IF e = f.call.eth /\ t = Vault(f) THEN f.got ELSE 0
  BY <1>2, <1>3 DEF Announce, Received, Outcomes
<1>7. \A e, t : Owed(f, e, t) = Received(ev, e, t)
  BY <1>1, <1>6 DEF Owed
<1>8. /\ g \in Frame /\ g.pc = "report" /\ g.id = f.id /\ g.entry = f.entry
      /\ g.rescue = f.rescue
  BY <1>2 DEF Frame
<1>9. \A e \in EthAddresses, t \in Tokens :
        owned'[e][t] + Owed(Top, e, t) = owned[e][t] + Received(ev, e, t)
  BY <1>1, <1>7
<1> HIDE DEF g, ev
<1> QED
  BY <1>1, <1>4, <1>5, <1>8, <1>9, OutcomeLedgers

LEMMA SwapReturnsLedgers ==
  ASSUME DInv, Now' \in World, SwapReturns
  PROVE  Ledgers'
<1> DEFINE f == Top
           eth == f.call.eth
           sell == f.call.token
           buy == f.call.swap.buy
           gain == Gained(f)
           back == Refund(f)
           g == [f EXCEPT !.pc = "report", !.shares = gain]
           ev == Announce("MultiRouteSwap", f, sell, Used(f), buy, gain, back)
<1>1. /\ stack # <<>> /\ f.pc = "swap" /\ SwapChecks(f)
      /\ stack' = [stack EXCEPT ![Len(stack)] = g] /\ log' = Append(log, ev)
      /\ owned' = Credit(Credit(owned, eth, buy, gain), eth, sell, back)
      /\ UNCHANGED deployed
  BY DEF SwapReturns, At, Become
<1>2. /\ f \in Frame /\ Follows(f, Now) /\ sell \in Tokens /\ buy \in Tokens
      /\ eth \in EthAddresses /\ Now \in World
  BY <1>1, TopEarns, CallTyped
<1>3. gain \in Nat /\ Used(f) \in Nat /\ back \in Nat
  BY <1>1, <1>2, SwapArithmetic DEF DInv, BInv, OInv, CInv
<1>4. ev \in Event
  BY <1>2, <1>3, AnnounceEvent
<1>5. ev.id = f.id /\ ev.owner \in deployed
  BY <1>1, <1>2 DEF Announce, Follows, Now
<1>6. \A e, t : Received(ev, e, t) =
        IF e = eth THEN (IF buy = t THEN gain ELSE 0) + (IF sell = t THEN back ELSE 0) ELSE 0
  BY <1>2, <1>3 DEF Announce, Received, Outcomes
<1>7. /\ g \in Frame /\ g.pc = "report" /\ g.id = f.id /\ g.entry = f.entry
      /\ g.rescue = f.rescue
  BY <1>2, <1>3 DEF Frame
<1>8. \A e, t : Owed(f, e, t) = 0
  BY <1>1 DEF Owed
<1>9. owned \in [EthAddresses -> [Tokens -> Nat]]
  BY <1>2 DEF Now, World
<1> HIDE DEF g, ev, eth, sell, buy, gain, back, f
<1>10. \A e \in EthAddresses, t \in Tokens :
         owned'[e][t] = owned[e][t] + (IF e = eth THEN (IF buy = t THEN gain ELSE 0)
                                                       + (IF sell = t THEN back ELSE 0) ELSE 0)
  <2> DEFINE c == Credit(owned, eth, buy, gain)
  <2>1. /\ c \in [EthAddresses -> [Tokens -> Nat]]
        /\ \A e \in EthAddresses, t \in Tokens :
             c[e][t] = IF e = eth /\ t = buy THEN owned[e][t] + gain ELSE owned[e][t]
    BY <1>2, <1>3, <1>9 DEF Credit
  <2>2. owned' = Credit(c, eth, sell, back)
    BY <1>1
  <2> HIDE DEF c
  <2>3. \A e \in EthAddresses, t \in Tokens :
          owned'[e][t] = IF e = eth /\ t = sell THEN c[e][t] + back ELSE c[e][t]
    BY <1>2, <1>3, <2>1, <2>2 DEF Credit
  <2>4. \A e \in EthAddresses, t \in Tokens : owned[e][t] \in Nat
    BY <1>9
  <2> QED
    BY <1>3, <2>1, <2>3, <2>4
<1>11. \A e \in EthAddresses, t \in Tokens :
         owned'[e][t] + Owed(f, e, t) = owned[e][t] + Received(ev, e, t)
  <2>1. ASSUME NEW e \in EthAddresses, NEW t \in Tokens
        PROVE  owned'[e][t] + Owed(f, e, t) = owned[e][t] + Received(ev, e, t)
    <3>1. owned[e][t] \in Nat /\ owned'[e][t] = owned[e][t] + Received(ev, e, t)
          /\ Received(ev, e, t) \in Nat /\ Owed(f, e, t) = 0
      BY <1>4, <1>6, <1>8, <1>9, <1>10, ReceivedType
    <3> QED
      BY <3>1
  <2> QED
    BY <2>1
<1> QED
  BY <1>1, <1>4, <1>5, <1>7, <1>11, OutcomeLedgers DEF f

\* Steps outside apply, and stuttering.
LEMMA SameLedgers ==
  ASSUME DInv, UNCHANGED <<owned, deployed, log, stack>>
  PROVE  Ledgers'
<1>1. CASE stack = <<>>
  <2>1. stack' = <<>> /\ 1..Len(stack') = {} /\ Now'.owned = Now.owned /\ Now'.log = Now.log
    BY <1>1 DEF Now
  <2> QED
    BY <1>1, <2>1 DEF DInv, Ledgers, Square
<1>2. CASE stack # <<>>
  <2>1. /\ Now'.owned = Now.owned /\ Now'.log = Now.log /\ Now'.deployed = Now.deployed
    BY DEF Now
  <2>2. Grows(Top.entry, Now', Top.id) /\ SettlesWith(Top, Now')
    BY <1>2, <2>1, TopEarns DEF Earns, Grows, SettlesWith
  <2>3. ASSUME NEW i \in 1..Len(stack) PROVE Earns(stack[i], WorldAt(i)')
    <3>1. CASE i = Len(stack)
      BY <1>2, <2>2, <3>1, TopEarns DEF WorldAt, Earns, Top
    <3>2. CASE i # Len(stack)
      BY <3>2 DEF WorldAt, DInv, Ledgers
    <3> QED
      BY <3>1, <3>2
  <2> QED
    BY <1>2, <2>3 DEF DInv, Ledgers
<1> QED
  BY <1>1, <1>2

-----------------------------------------------------------------------------
LEMMA InitLedgers == Init => DInv
<1> SUFFICES ASSUME Init PROVE Ledgers
  BY InitBooks DEF DInv
<1>1. stack = <<>> /\ 1..Len(stack) = {} /\ log = <<>>
      /\ \A e \in EthAddresses, t \in Tokens : owned[e][t] = 0
  BY DEF Init
<1>2. Square(Now)
  BY <1>1, PaidNothing DEF Square, Now
<1> QED
  BY <1>1, <1>2 DEF Ledgers

\* The actions that end an invocation.
Ending == ApplyPanics \/ ApplyOnSelfRefuses \/ ReportAction \/ StrategyFails

LEMMA EndingReturns ==
  ASSUME DInv, Now' \in World, Ending
  PROVE  Ended
BY RevertReturns, RefusesReturns, ReportReturns, FailsReturns DEF Ending, ApplyPanics, At

LEMMA StepLedgers == DInv /\ [Next]_vars => DInv'
<1> SUFFICES ASSUME DInv, [Next]_vars
             PROVE  Ledgers'
  BY StepBooks DEF DInv
<1>0. Now' \in World
  BY StepBooks, NextWorld DEF DInv
<1>1. ASSUME NEW call \in Calls, Apply(call) PROVE Ledgers'
  BY <1>0, <1>1, ApplyLedgers
<1>2. CASE ApplyDeploysAccount
  BY <1>0, <1>2, DeployLedgers
<1>3. CASE Ending
  BY <1>0, <1>3, EndingReturns, PopLedgers DEF Ended
<1>5. CASE ApplyOnSelfDeposits
  BY <1>0, <1>5, DepositsLedgers
<1>6. CASE ApplyOnSelfSwaps
  BY <1>0, <1>6, SwapsLedgers
<1>7. ASSUME NEW shares \in Outputs, VaultTakes(shares) PROVE Ledgers'
  BY <1>0, <1>7, VaultLedgers
<1>8. ASSUME At("swap"), NEW sold \in 0..allow[Top.call.token][AvnuExchange],
             NEW bought \in Outputs, ExchangeFills(sold, bought)
      PROVE  Ledgers'
  <2>1. Top.call.token \in Tokens
    BY <1>8, TopEarns, CallTyped DEF At
  <2>2. sold \in Nat
    BY <2>1, <1>8 DEF TypeOK, StrategyAddresses, DInv, BInv, OInv, CInv
  <2> QED
    BY <1>0, <1>8, <2>2, ExchangeLedgers
<1>9. CASE DepositReturns
  BY <1>0, <1>9, DepositReturnsLedgers
<1>10. CASE TrovesDepositsLST
  BY <1>0, <1>10, TrovesLedgers
<1>11. CASE SwapReturns
  BY <1>0, <1>11, SwapReturnsLedgers
<1>12. ASSUME NEW r \in Reporters \cup {Zero}, SetEarnReporter(r) PROVE Ledgers'
  BY <1>12, SameLedgers DEF SetEarnReporter
<1>13. ASSUME NEW t \in Donatable, Donate(t) PROVE Ledgers'
  BY <1>13, SameLedgers DEF Donate
<1>14. CASE UNCHANGED vars
  BY <1>14, SameLedgers DEF vars
<1> QED
  BY <1>1, <1>2, <1>3, <1>5, <1>6, <1>7, <1>8, <1>9, <1>10, <1>11, <1>12, <1>13, <1>14
     DEF Next, Ending

LEMMA LedgersInvariant == Spec => []DInv
<1>1. Init => DInv
  BY InitLedgers
<1>2. DInv /\ [Next]_vars => DInv'
  BY StepLedgers
<1> QED
  BY <1>1, <1>2, PTL DEF Spec

\* The events are the books: between transactions each owner's balances are what the
\* outcomes in the log say (Deposited, MultiRouteSwap with its refund, ApplyFailed).
THEOREM BooksBalance == Spec => []EventsReconcile
<1>1. DInv => EventsReconcile
  BY DEF DInv, Ledgers, Square, EventsReconcile, Now
<1> QED
  BY <1>1, LedgersInvariant, PTL

-----------------------------------------------------------------------------
(* Tokens pass through: every step is a step of FundsCustody or none.      *)

\* What the last transaction left.
Base == IF stack = <<>> THEN Now ELSE stack[1].entry

PromiseStep == [Promise!Next]_(Promise!funds)

LEMMA BaseStays ==
  ASSUME Base' = Base
  PROVE  PromiseStep
<1>1. UNCHANGED <<Base.held, Base.allow, Base.owned, Base.deployed, Base.log>>
  OBVIOUS
<1>2. UNCHANGED Promise!funds
  BY <1>1 DEF Promise!funds, Committed, Base, Now
<1> QED
  BY <1>2 DEF PromiseStep

LEMMA DonateReceives ==
  ASSUME DInv, NEW k \in Donatable, Donate(k)
  PROVE  PromiseStep
<1>1. /\ stack = <<>> /\ stack' = <<>> /\ held' = [held EXCEPT ![k] = @ + 1]
      /\ UNCHANGED <<allow, owned, deployed, log>>
  BY DEF Donate
<1>2. held \in [Tokens -> Nat] /\ k \in Tokens
  BY StrategyAssumption DEF DInv, BInv, OInv, CInv, TypeOK
<1>3. \A t \in Tokens : held'[t] >= held[t]
  <2>1. \A t \in Tokens : held[t] \in Nat /\ held'[t] = IF t = k THEN held[t] + 1 ELSE held[t]
    BY <1>1, <1>2
  <2> QED
    BY <2>1
<1>4. Promise!Receive
  BY <1>1, <1>3 DEF Promise!Receive, Committed
<1> QED
  BY <1>4 DEF PromiseStep, Promise!Next

\* The sum over a log that has grown.
LEMMA PaidSplit ==
  ASSUME NEW u \in World, NEW w \in World, NEW m \in Nat, Grows(u, w, m),
         NEW e \in EthAddresses, NEW t \in Tokens
  PROVE  Paid(w.log, e, t) = Paid(u.log, e, t)
           + SumFunction([j \in (Len(u.log) + 1)..Len(w.log) |-> Received(w.log[j], e, t)])
<1> DEFINE a == Len(u.log)
           b == Len(w.log)
           new == (a + 1)..b
           old == [j \in 1..a |-> Received(u.log[j], e, t)]
           all == [j \in 1..b |-> Received(w.log[j], e, t)]
           part == [j \in new |-> Received(w.log[j], e, t)]
<1>1. /\ a \in Nat /\ b \in Nat /\ a <= b /\ u.log \in Seq(Event) /\ w.log \in Seq(Event)
      /\ \A j \in 1..a : w.log[j] = u.log[j]
      /\ \A j \in 1..b : w.log[j] \in Event
  BY WorldLog DEF Grows
<1>2. Paid(u.log, e, t) = SumFunctionOnSet(old, 1..a)
      /\ Paid(w.log, e, t) = SumFunctionOnSet(all, 1..b)
  BY <1>1, PaidBy
<1>3. SumFunction(part) = SumFunctionOnSet(part, new)
  BY DEF SumFunction
<1>4. 1..b = 1..a \cup new /\ 1..a \cap new = {}
  <2>1. a \in Nat /\ b \in Nat /\ a <= b
    BY <1>1
  <2> HIDE DEF a, b
  <2>2. 1..b = 1..a \cup new
    BY <2>1
  <2>3. 1..a \cap new = {}
    BY <2>1
  <2> QED
    BY <2>2, <2>3
<1>5. IsFiniteSet(1..a) /\ IsFiniteSet(new)
  <2>1. a \in Int /\ a + 1 \in Int /\ b \in Int
    BY <1>1
  <2> HIDE DEF a, b
  <2> QED
    BY <2>1, FS_Interval
<1>6. \A j \in 1..b : all[j] \in Nat
  BY <1>1, ReceivedType
<1>7. (\A j \in 1..a : all[j] = old[j]) /\ (\A j \in new : all[j] = part[j])
  BY <1>1, <1>4
<1> HIDE DEF a, b, new, old, all, part
<1>8. SumFunctionOnSet(all, 1..a) = SumFunctionOnSet(old, 1..a)
      /\ SumFunctionOnSet(all, new) = SumFunctionOnSet(part, new)
  BY <1>7, SumSame
<1>9. SumFunctionOnSet(all, 1..a \cup new)
        = SumFunctionOnSet(all, 1..a) + SumFunctionOnSet(all, new)
  <2> DEFINE S == 1..a
  <2>1. IsFiniteSet(S) /\ S \cap new = {} /\ \A x \in S \cup new : all[x] \in Nat
    BY <1>4, <1>5, <1>6
  <2> HIDE DEF S
  <2>2. SumFunctionOnSet(all, S \cup new) = SumFunctionOnSet(all, S) + SumFunctionOnSet(all, new)
    BY <1>5, <2>1, SumUnion
  <2> QED
    BY <2>2 DEF S
<1> QED
  BY <1>2, <1>3, <1>4, <1>8, <1>9 DEF a, b, new, part

\* What is new in the log of a world that has returned.
New(u, w) == (Len(u.log) + 1)..Len(w.log)

LEMMA NewEntries ==
  ASSUME NEW u \in World, NEW w \in World, NEW m \in Nat, NEW n \in Nat, Grows(u, w, m),
         Kept(u.log, m), Kept(w.log, n), NEW j \in New(u, w)
  PROVE  /\ j \in 1..Len(w.log) /\ w.log[j].owner \in w.deployed
         /\ Cardinality(Of(w.log, Outcomes, w.log[j].id)) = 1
         /\ w.log[j].type = "OrderCreated" =>
              \E k \in New(u, w) : /\ k < j /\ w.log[k].id = w.log[j].id
                                   /\ w.log[k].type \in {"Deposited", "MultiRouteSwap"}
<1>1. /\ Len(u.log) \in Nat /\ Len(w.log) \in Nat /\ w.log \in Seq(Event)
      /\ \A k \in 1..Len(w.log) : w.log[k] \in Event /\ w.log[k].id \in Nat
  BY WorldLog
<1>2. j \in 1..Len(w.log) /\ j \notin 1..Len(u.log) /\ j \in Nat
  BY <1>1 DEF New
<1>3. w.log[j].id >= m /\ w.log[j].owner \in w.deployed
  BY <1>2 DEF Grows
<1>4. ASSUME w.log[j].type = "OrderCreated"
      PROVE  \E k \in 1..(j - 1) : Matches(w.log[j], w.log[k])
  BY <1>2, <1>4 DEF Kept
<1>5. ASSUME NEW k \in 1..Len(w.log), w.log[k].id = w.log[j].id
      PROVE  k \in New(u, w)
  <2>1. k \notin 1..Len(u.log)
    <3>1. ASSUME k \in 1..Len(u.log) PROVE FALSE
      <4>1. w.log[k].id < m
        BY <3>1 DEF Grows, Kept
      <4> QED
        BY <1>1, <1>3, <1>5, <4>1
    <3> QED
      BY <3>1
  <2> QED
    BY <1>1, <2>1 DEF New
<1>6. ASSUME w.log[j].type = "OrderCreated"
      PROVE  \E k \in New(u, w) : /\ k < j /\ w.log[k].id = w.log[j].id
                                  /\ w.log[k].type \in {"Deposited", "MultiRouteSwap"}
  <2>1. PICK k \in 1..(j - 1) : Matches(w.log[j], w.log[k])
    BY <1>4, <1>6
  <2>2. k \in 1..Len(w.log) /\ k < j
    BY <1>1, <1>2
  <2>3. w.log[k].id = w.log[j].id /\ w.log[k].type \in {"Deposited", "MultiRouteSwap"}
    BY <2>1 DEF Matches
  <2> QED
    BY <1>5, <2>2, <2>3
<1>7. \E k \in 1..Len(w.log) : w.log[k].id = w.log[j].id /\ w.log[k].type \in Outcomes
  <2>1. CASE w.log[j].type = "OrderCreated"
    <3>1. \A k \in New(u, w) : k \in 1..Len(w.log)
      BY <1>1 DEF New
    <3> QED
      BY <1>6, <2>1, <3>1 DEF Outcomes
  <2>2. CASE w.log[j].type # "OrderCreated"
    BY <1>1, <1>2, <2>2 DEF Event, Outcomes
  <2> QED
    BY <2>1, <2>2
<1>8. Cardinality(Of(w.log, Outcomes, w.log[j].id)) = 1
  BY <1>1, <1>7, OneOf
<1> QED
  BY <1>2, <1>3, <1>6, <1>8

\* An invocation that has an outcome has added to the log.
LEMMA LogLonger ==
  ASSUME NEW u \in World, NEW w \in World, NEW m \in Nat, Grows(u, w, m), Kept(u.log, m),
         Cardinality(Of(w.log, Outcomes, m)) = 1
  PROVE  Len(w.log) > Len(u.log)
<1>1. /\ Len(u.log) \in Nat /\ Len(w.log) \in Nat /\ DOMAIN w.log = 1..Len(w.log)
      /\ \A k \in 1..Len(w.log) : w.log[k].id \in Nat
  BY WorldLog
<1>2. Of(w.log, Outcomes, m) # {}
  BY FS_EmptySet
<1>3. PICK j \in 1..Len(w.log) : w.log[j].id = m
  BY <1>1, <1>2 DEF Of
<1>4. j \notin 1..Len(u.log)
  BY <1>1, <1>3 DEF Grows, Kept
<1> QED
  BY <1>1, <1>3, <1>4

LEMMA LogPrefix ==
  ASSUME NEW u \in World, NEW w \in World, NEW m, Grows(u, w, m)
  PROVE  SubSeq(w.log, 1, Len(u.log)) = u.log
<1>1. u.log \in Seq(Event) /\ w.log \in Seq(Event) /\ Len(u.log) \in Nat /\ Len(w.log) \in Nat
  BY WorldLog
<1>2. Len(u.log) <= Len(w.log) /\ \A j \in 1..Len(u.log) : w.log[j] = u.log[j]
  BY DEF Grows
<1> DEFINE s == SubSeq(w.log, 1, Len(u.log))
<1>3. s \in Seq(Event) /\ Len(s) = Len(u.log) /\ \A j \in 1..Len(u.log) : s[j] = w.log[j]
  BY <1>1, <1>2
<1> HIDE DEF s
<1>4. s = u.log
  BY <1>1, <1>2, <1>3, SeqEqual
<1> QED
  BY <1>4 DEF s

\* The balances it pays are those the new entries say.
LEMMA NewPays ==
  ASSUME NEW u \in World, NEW w \in World, NEW m \in Nat, Returns(u, w, m)
  PROVE  w.owned = [o \in EthAddresses |-> [t \in Tokens |-> u.owned[o][t]
           + SumFunction([j \in New(u, w) |-> Received(w.log[j], o, t)])]]
<1> DEFINE part(o, t) == SumFunction([j \in New(u, w) |-> Received(w.log[j], o, t)])
<1>1. ASSUME NEW o \in EthAddresses, NEW t \in Tokens
      PROVE  w.owned[o][t] = u.owned[o][t] + part(o, t)
  <2>1. Paid(w.log, o, t) = Paid(u.log, o, t) + part(o, t)
    BY PaidSplit DEF Returns, New
  <2>2. w.owned[o][t] + Paid(u.log, o, t) = u.owned[o][t] + Paid(w.log, o, t)
    BY DEF Returns, Settles
  <2>3. /\ w.owned[o][t] \in Nat /\ u.owned[o][t] \in Nat
        /\ Paid(w.log, o, t) \in Nat /\ Paid(u.log, o, t) \in Nat
    BY WorldLog
  <2>4. part(o, t) \in Int
    <3> DEFINE fun == [j \in New(u, w) |-> Received(w.log[j], o, t)]
    <3>1. New(u, w) \subseteq 1..Len(w.log) /\ Len(u.log) + 1 \in Int /\ Len(w.log) \in Int
      BY WorldLog DEF New
    <3>2. IsFiniteSet(New(u, w))
      BY <3>1, FS_Interval DEF New
    <3>3. \A j \in New(u, w) : fun[j] \in Nat
      BY <3>1, WorldLog, ReceivedType
    <3>4. part(o, t) = SumFunctionOnSet(fun, New(u, w))
      BY DEF SumFunction
    <3> HIDE DEF fun, part
    <3> QED
      BY <3>2, <3>3, <3>4, SumType
  <2> HIDE DEF part
  <2> QED
    BY <2>1, <2>2, <2>3, <2>4
<1>2. w.owned \in [EthAddresses -> [Tokens -> Nat]]
  BY DEF World
<1> HIDE DEF part
<1>3. w.owned = [o \in EthAddresses |-> [t \in Tokens |-> u.owned[o][t] + part(o, t)]]
  BY <1>1, <1>2
<1> QED
  BY <1>3 DEF part

\* FundsCustody counts and sums as here.
LEMMA PromiseCounts == \A S : Promise!Cardinality(S) = Cardinality(S)
BY DEF Promise!Cardinality, Cardinality

LEMMA PromiseSums == \A f : Promise!SumFunction(f) = SumFunction(f)
BY DEF Promise!SumFunction, Promise!SumFunctionOnSet, Promise!FoldFunctionOnSet,
       Promise!MapThenFoldSet, SumFunction, SumFunctionOnSet, FoldFunctionOnSet, MapThenFoldSet

LEMMA TransactionPays ==
  ASSUME DInv, DInv', stack # <<>>, stack' = <<>>, Len(stack) = 1, donated' = donated,
         Returns(Top.entry, Now', Top.id), Cardinality(Of(log', Outcomes, Top.id)) = 1
  PROVE  Promise!Transaction
<1> DEFINE u == Top.entry
           w == Now'
           m == Top.id
<1>1. /\ u \in World /\ w \in World /\ m \in Nat /\ Earns(Top, Now)
      /\ stack[1].entry = u /\ w.log = log'
      /\ w.held = held' /\ w.allow = allow' /\ w.owned = owned' /\ w.deployed = deployed'
  BY TopEarns, NextWorld DEF DInv, Top, Now
<1>2. /\ Committed(held, stack[1].entry.held) = u.held
      /\ Committed(allow, stack[1].entry.allow) = u.allow
      /\ Committed(owned, stack[1].entry.owned) = u.owned
      /\ Committed(deployed, stack[1].entry.deployed) = u.deployed
      /\ Committed(log, stack[1].entry.log) = u.log
  BY <1>1 DEF Committed
<1>3. /\ Committed(held, stack[1].entry.held)' = w.held
      /\ Committed(allow, stack[1].entry.allow)' = w.allow
      /\ Committed(owned, stack[1].entry.owned)' = w.owned
      /\ Committed(deployed, stack[1].entry.deployed)' = w.deployed
      /\ Committed(log, stack[1].entry.log)' = w.log
  BY <1>1 DEF Committed
<1>4. w.held = u.held
  BY <1>1 DEF DInv, BInv, OInv, CInv, Custody
<1>5. w.allow = u.allow
  <2>1. Rests(u) /\ Rests(w)
    BY <1>1 DEF DInv, BInv, OInv, Levels
  <2>2. u.allow \in [Tokens -> [StrategyAddresses -> Nat]]
        /\ w.allow \in [Tokens -> [StrategyAddresses -> Nat]]
    BY <1>1 DEF World
  <2> HIDE DEF u, w
  <2>3. \A t \in Tokens, s \in StrategyAddresses : w.allow[t][s] = u.allow[t][s]
    BY <2>1 DEF Rests
  <2> QED
    BY <2>2, <2>3
<1>6. /\ Returns(u, w, m) /\ Grows(u, w, m) /\ Kept(u.log, m) /\ u.deployed \subseteq w.deployed
      /\ Cardinality(Of(w.log, Outcomes, m)) = 1
  BY <1>1 DEF Returns, Grows, Earns
<1>7. PICK n \in Nat : Kept(w.log, n)
  <2>1. BInv'
    BY DEF DInv
  <2>2. (Kept(log, applies))'
    BY <2>1, LogKept, PTL
  <2>3. applies' \in Nat
    BY <2>1 DEF BInv, OInv, CInv, TypeOK
  <2> QED
    BY <1>1, <2>2, <2>3
<1> HIDE DEF u, w, m
<1>8. Len(w.log) > Len(u.log) /\ SubSeq(w.log, 1, Len(u.log)) = u.log
  BY <1>1, <1>6, LogLonger, LogPrefix
<1>9. ASSUME NEW j \in New(u, w)
      PROVE  /\ Promise!Cardinality(Promise!OutcomesOf(w.log, 1..Len(w.log), w.log[j].id)) = 1
             /\ w.log[j].type = "OrderCreated" =>
                  \E k \in New(u, w) : /\ k < j /\ w.log[k].id = w.log[j].id
                                       /\ w.log[k].type \in Promise!Kinds \ {"ApplyFailed"}
             /\ w.log[j].owner \in w.deployed
  <2>1. /\ w.log[j].owner \in w.deployed
        /\ Cardinality(Of(w.log, Outcomes, w.log[j].id)) = 1
        /\ w.log[j].type = "OrderCreated" =>
             \E k \in New(u, w) : /\ k < j /\ w.log[k].id = w.log[j].id
                                  /\ w.log[k].type \in {"Deposited", "MultiRouteSwap"}
    BY <1>1, <1>6, <1>7, NewEntries
  <2>2. DOMAIN w.log = 1..Len(w.log)
    BY <1>1, WorldLog
  <2>3. Of(w.log, Outcomes, w.log[j].id)
          = Promise!OutcomesOf(w.log, 1..Len(w.log), w.log[j].id)
    BY <2>2 DEF Of, Outcomes, Promise!OutcomesOf, Promise!Kinds
  <2> QED
    BY <2>1, <2>3, PromiseCounts DEF Promise!Kinds
<1>10. w.owned = [o \in EthAddresses |-> [t \in Tokens |-> u.owned[o][t]
         + Promise!SumFunction([j \in New(u, w) |-> Promise!Pays(w.log[j], o, t)])]]
  <2>1. \A e, o, t : Promise!Pays(e, o, t) = Received(e, o, t)
    BY DEF Promise!Pays, Promise!Kinds, Received, Outcomes
  <2> DEFINE paid == [o \in EthAddresses |-> [t \in Tokens |-> u.owned[o][t]
                       + SumFunction([j \in New(u, w) |-> Received(w.log[j], o, t)])]]
             pays == [o \in EthAddresses |-> [t \in Tokens |-> u.owned[o][t]
                       + Promise!SumFunction([j \in New(u, w) |-> Promise!Pays(w.log[j], o, t)])]]
  <2>2. w.owned = paid
    BY <1>1, <1>6, NewPays
  <2>3. paid = pays
    BY <2>1, PromiseSums
  <2> QED
    BY <2>2, <2>3
<1>11. /\ w.held = u.held /\ w.allow = u.allow /\ u.deployed \subseteq w.deployed
       /\ Len(w.log) > Len(u.log) /\ SubSeq(w.log, 1, Len(u.log)) = u.log
  BY <1>4, <1>5, <1>6, <1>8
<1> DEFINE books == Committed(log, stack[1].entry.log)
           new == (Len(books) + 1)..Len(books')
<1>12. books = u.log /\ books' = w.log /\ New(u, w) = new
  BY <1>2, <1>3 DEF New
<1>13. Committed(owned, stack[1].entry.owned)' =
         [o \in EthAddresses |-> [t \in Tokens |-> Committed(owned, stack[1].entry.owned)[o][t]
           + Promise!SumFunction([j \in new |-> Promise!Pays(books'[j], o, t)])]]
  <2> DEFINE were == Committed(owned, stack[1].entry.owned)
             of(o, t) == [j \in New(u, w) |-> Promise!Pays(w.log[j], o, t)]
             to(o, t) == [j \in new |-> Promise!Pays(books'[j], o, t)]
             pay(o, t) == u.owned[o][t] + Promise!SumFunction(of(o, t))
             paid(o, t) == were[o][t] + Promise!SumFunction(to(o, t))
  <2>1. \A o, t : of(o, t) = to(o, t)
    BY <1>12
  <2>2. were = u.owned /\ were' = w.owned
    BY <1>2, <1>3
  <2>3. w.owned = [o \in EthAddresses |-> [t \in Tokens |-> pay(o, t)]]
    BY <1>10
  <2> HIDE DEF were, of, to
  <2>4. \A o, t : pay(o, t) = paid(o, t)
    BY <2>1, <2>2
  <2> HIDE DEF pay, paid
  <2>5. w.owned = [o \in EthAddresses |-> [t \in Tokens |-> paid(o, t)]]
    BY <2>3, <2>4
  <2>6. were' = [o \in EthAddresses |-> [t \in Tokens |-> paid(o, t)]]
    BY <2>2, <2>5
  <2> QED
    BY <2>6 DEF were, to, paid
<1>14. \A j \in new :
         /\ Promise!Cardinality(Promise!OutcomesOf(books', 1..Len(books'), books'[j].id)) = 1
         /\ books'[j].type = "OrderCreated" =>
              \E k \in new : /\ k < j /\ books'[k].id = books'[j].id
                             /\ books'[k].type \in Promise!Kinds \ {"ApplyFailed"}
         /\ books'[j].owner \in Committed(deployed, stack[1].entry.deployed)'
  <2> HIDE DEF new, books
  <2> QED
    BY <1>3, <1>9, <1>12
<1>15. /\ UNCHANGED <<Committed(held, stack[1].entry.held), Committed(allow, stack[1].entry.allow)>>
       /\ Len(books') > Len(books) /\ SubSeq(books', 1, Len(books)) = books
       /\ Committed(deployed, stack[1].entry.deployed)
            \subseteq Committed(deployed, stack[1].entry.deployed)'
  BY <1>2, <1>3, <1>11
<1> QED
  BY <1>13, <1>14, <1>15 DEF Promise!Transaction

LEMMA EndingKeepsPromise ==
  ASSUME DInv, DInv', [Next]_vars, Ending
  PROVE  PromiseStep
<1> DEFINE n == Len(stack)
<1>1. stack # <<>> /\ Pop /\ Returns(Top.entry, Now', Top.id) /\ donated' = donated
  <2>1. Ended
    BY EndingReturns, NextWorld DEF DInv
  <2>2. donated' = donated
    BY DEF Ending, ApplyPanics, ApplyOnSelfRefuses, ReportAction, StrategyFails,
           handle_apply_on_self_error, RevertApply
  <2> QED
    BY <2>1, <2>2 DEF Ended
<1>2. /\ n \in Nat \ {0} /\ Len(stack') = n - 1 /\ stack' \in Seq(Frame)
      /\ \A i \in 1..(n - 1) : stack'[i] = stack[i]
  BY <1>1, PopStack DEF DInv, BInv, OInv, CInv, TypeOK, Pop
<1>3. CASE n # 1
  <2>1. stack' # <<>> /\ stack'[1] = stack[1]
    <3> HIDE DEF n
    <3>1. 1 \in 1..(n - 1) /\ n - 1 # 0
      BY <1>2, <1>3
    <3> QED
      BY <1>2, <3>1
  <2>2. Base' = Base
    BY <1>1, <2>1 DEF Base
  <2> QED
    BY <2>2, BaseStays
<1>4. CASE n = 1
  <2>1. stack' = <<>> /\ Top = stack[1]
    BY <1>2, <1>4 DEF Top
  <2>2. Whole
    BY <1>2, ReturnsWhole DEF DInv
  <2>3. CASE chain' = <<Top.entry.held, Top.entry.allow, Top.entry.owned,
                        Top.entry.deployed, Top.entry.log>>
    <3>1. Now' = Top.entry
      BY <1>1, <2>3, TopEarns DEF chain, Now, World
    <3>2. Base' = Base
      BY <1>1, <2>1, <3>1 DEF Base
    <3> QED
      BY <3>2, BaseStays
  <2>4. CASE Cardinality(Of(log', Outcomes, Top.id)) = 1
    BY <1>1, <1>4, <2>1, <2>4, TransactionPays DEF PromiseStep, Promise!Next
  <2> QED
    BY <2>2, <2>3, <2>4 DEF Whole
<1> QED
  BY <1>3, <1>4

\* A step inside a transaction: its first invocation keeps the state it was called in.
LEMMA InsideKeepsPromise ==
  ASSUME DInv, stack # <<>>, NEW g, g.entry = Top.entry,
         stack' = [stack EXCEPT ![Len(stack)] = g]
  PROVE  PromiseStep
<1> DEFINE n == Len(stack)
<1>1. stack \in Seq(Frame) /\ n \in Nat \ {0} /\ DOMAIN stack = 1..n
  BY DEF DInv, BInv, OInv, CInv, TypeOK
<1>2. DOMAIN stack' = 1..n /\ stack'[n] = g /\ stack' # <<>>
      /\ \A i \in 1..n : i # n => stack'[i] = stack[i]
  <2>1. stack' = [stack EXCEPT ![n] = g]
    OBVIOUS
  <2> HIDE DEF n
  <2>2. DOMAIN stack' = DOMAIN stack /\ stack'[n] = g
        /\ \A i \in 1..n : i # n => stack'[i] = stack[i]
    BY <1>1, <2>1
  <2>3. stack' # <<>>
    BY <1>1, <2>2
  <2> QED
    BY <1>1, <2>2, <2>3
<1>3. stack[n].entry = g.entry
  BY DEF Top
<1> HIDE DEF n
<1>4. 1 \in 1..n
  BY <1>1
<1>5. stack'[1].entry = stack[1].entry
  BY <1>2, <1>3, <1>4
<1> QED
  BY <1>2, <1>5, BaseStays DEF Base

LEMMA BeginningKeepsPromise ==
  ASSUME DInv, NEW call \in Calls, Apply(call)
  PROVE  PromiseStep
<1> DEFINE f == [id |-> applies, call |-> call, pc |-> "header", entry |-> Now, rescue |-> Now,
                 settled |-> FALSE, spent |-> 0, got |-> 0, lst |-> 0,
                 sell_token_before |-> 0, buy_token_before |-> 0, shares |-> 0]
<1>1. stack \in Seq(Frame) /\ Now \in World /\ applies \in Nat
  BY NowTyped DEF DInv, BInv, OInv, CInv, TypeOK
<1>2. f \in Frame /\ f.entry = Now /\ stack' = Append(stack, f)
  BY <1>1 DEF Apply, Frame
<1> HIDE DEF f
<1>3. CASE stack = <<>>
  <2>1. stack' # <<>> /\ stack'[1] = f
    BY <1>1, <1>2, <1>3
  <2> QED
    BY <1>2, <1>3, <2>1, BaseStays DEF Base
<1>4. CASE stack # <<>>
  <2>1. stack' # <<>> /\ stack'[1] = stack[1]
    BY <1>1, <1>2, <1>4
  <2> QED
    BY <1>4, <2>1, BaseStays DEF Base
<1> QED
  BY <1>3, <1>4

\* The actions inside an invocation leave the state it was called in.
LEMMA ActionsKeepPromise ==
  ASSUME DInv,
         \/ ApplyDeploysAccount \/ ApplyOnSelfDeposits \/ ApplyOnSelfSwaps
         \/ \E shares \in Outputs : VaultTakes(shares)
         \/ \E sold \in 0..allow[Top.call.token][AvnuExchange], bought \in Outputs :
              ExchangeFills(sold, bought)
         \/ DepositReturns \/ TrovesDepositsLST \/ SwapReturns
  PROVE  PromiseStep
<1>1. stack # <<>> /\ Top \in Frame
  BY TopEarns DEF ApplyDeploysAccount, ApplyOnSelfDeposits, ApplyOnSelfSwaps, VaultTakes,
     ExchangeFills, DepositReturns, TrovesDepositsLST, SwapReturns, At, InStrategy
<1>2. CASE ApplyDeploysAccount
  BY <1>1, <1>2, InsideKeepsPromise DEF ApplyDeploysAccount, Become, Frame
<1>3. CASE ApplyOnSelfDeposits
  BY <1>1, <1>3, InsideKeepsPromise DEF ApplyOnSelfDeposits, Dispatched, Become, Frame
<1>4. CASE ApplyOnSelfSwaps
  BY <1>1, <1>4, InsideKeepsPromise DEF ApplyOnSelfSwaps, Dispatched, Become, Frame
<1>5. ASSUME NEW shares \in Outputs, VaultTakes(shares) PROVE PromiseStep
  BY <1>1, <1>5, InsideKeepsPromise DEF VaultTakes, Become, Frame
<1>6. ASSUME NEW sold, NEW bought, ExchangeFills(sold, bought) PROVE PromiseStep
  BY <1>1, <1>6, InsideKeepsPromise DEF ExchangeFills, Become, Frame
<1>7. CASE DepositReturns
  BY <1>1, <1>7, InsideKeepsPromise DEF DepositReturns, Become, Frame
<1>8. CASE TrovesDepositsLST
  BY <1>1, <1>8, InsideKeepsPromise DEF TrovesDepositsLST, Become, Frame
<1>9. CASE SwapReturns
  BY <1>1, <1>9, InsideKeepsPromise DEF SwapReturns, Become, Frame
<1> QED
  BY <1>2, <1>3, <1>4, <1>5, <1>6, <1>7, <1>8, <1>9

LEMMA StepPromise == DInv /\ DInv' /\ [Next]_vars => PromiseStep
<1> SUFFICES ASSUME DInv, DInv', [Next]_vars
             PROVE  PromiseStep
  OBVIOUS
<1>1. ASSUME NEW call \in Calls, Apply(call) PROVE PromiseStep
  BY <1>1, BeginningKeepsPromise
<1>2. CASE Ending
  BY <1>2, EndingKeepsPromise
<1>3. CASE \/ ApplyDeploysAccount \/ ApplyOnSelfDeposits \/ ApplyOnSelfSwaps
           \/ \E shares \in Outputs : VaultTakes(shares)
           \/ \E sold \in 0..allow[Top.call.token][AvnuExchange], bought \in Outputs :
                ExchangeFills(sold, bought)
           \/ DepositReturns \/ TrovesDepositsLST \/ SwapReturns
  BY <1>3, ActionsKeepPromise
<1>4. ASSUME NEW r \in Reporters \cup {Zero}, SetEarnReporter(r) PROVE PromiseStep
  <2>1. Base' = Base
    BY <1>4 DEF SetEarnReporter, Base, Now
  <2> QED
    BY <2>1, BaseStays
<1>5. ASSUME NEW t \in Donatable, Donate(t) PROVE PromiseStep
  BY <1>5, DonateReceives
<1>6. CASE UNCHANGED vars
  <2>1. Base' = Base
    BY <1>6 DEF vars, Base, Now
  <2> QED
    BY <2>1, BaseStays
<1> QED
  BY <1>1, <1>2, <1>3, <1>4, <1>5, <1>6 DEF Next, Ending

LEMMA InitPromise == Init => Promise!Init
<1> SUFFICES ASSUME Init PROVE Promise!Init
  OBVIOUS
<1>1. /\ Committed(held, stack[1].entry.held) = held
      /\ Committed(allow, stack[1].entry.allow) = allow
      /\ Committed(owned, stack[1].entry.owned) = owned
      /\ Committed(deployed, stack[1].entry.deployed) = deployed
      /\ Committed(log, stack[1].entry.log) = log
  BY DEF Init, Committed
<1>2. \A t \in Tokens : \A s \in DOMAIN allow[t] : allow[t][s] = 0
  BY DEF Init
<1> QED
  BY <1>1, <1>2 DEF Init, Promise!Init

\* Tokens pass through: the contract's calls, with whatever the tokens and the strategies
\* do in between, are transactions of FundsCustody, which leave its balances and its
\* allowances as they were and pay the owners what the outcomes say.
THEOREM PassThroughImplemented == Spec => FundsPassThrough
<1>1. Init => Promise!Init
  BY InitPromise
<1>2. DInv /\ DInv' /\ [Next]_vars => [Promise!Next]_(Promise!funds)
  BY StepPromise DEF PromiseStep
<1> QED
  BY <1>1, <1>2, LedgersInvariant, PTL DEF Spec, FundsPassThrough, Promise!Spec

=============================================================================
