---------------------- MODULE MCStrategyImplementation ----------------------
(***************************************************************************)
(* Small instances of StrategyImplementation: two wrappers of which one is *)
(* WBTC, their Endur and Troves vaults, and the Midas token.               *)
(***************************************************************************)
EXTENDS StrategyImplementationProperties

MCWrappers == {"WBTC", "TBTC"}
MCEndur == [w \in MCWrappers |-> IF w = "WBTC" THEN "xWBTC" ELSE "xTBTC"]
MCTroves == [w \in MCWrappers |-> IF w = "WBTC" THEN "trvWBTC" ELSE "trvTBTC"]
MCTokens == MCWrappers \cup {"xWBTC", "xTBTC", "trvWBTC", "trvTBTC", "fyWBTC", "noonWBTC", "MIDAS"}

NoSwap == [sell |-> "WBTC", buy |-> "MIDAS", beneficiary |-> "self", min |-> 0]

Request(protocol, token, amount, eth) ==
  [token |-> token, amount |-> amount, eth |-> eth, header |-> "ok", signature |-> TRUE,
   protocol |-> protocol, payload |-> "none", swap |-> NoSwap]

Swap(token, amount, eth, min) ==
  [Request("AVNU", token, amount, eth) EXCEPT
     !.payload = "swap",
     !.swap = [sell |-> token, buy |-> "MIDAS", beneficiary |-> "self", min |-> min]]

\* Requests that open positions, in every shape the contract tells apart.
Good ==
  {Request("ENDUR", "WBTC", 2, "e1"),
   Request("TROVES", "WBTC", 1, "e2"),
   Swap("WBTC", 2, "e1", 1)}

\* The Midas token sold for itself, and an LST sold: token_in is not validated.
OddSwaps == {Swap("MIDAS", 2, "e2", 1), Swap("xWBTC", 1, "e1", 0)}

\* Requests refused at each place that can refuse one.
Bad ==
  {[Request("ENDUR", "WBTC", 1, "e1") EXCEPT !.header = "malformed"],
   [Request("ENDUR", "WBTC", 1, "e2") EXCEPT !.header = "no_protocol"],
   [Request("ENDUR", "WBTC", 1, "e2") EXCEPT !.signature = FALSE],
   [Request("ENDUR", "WBTC", 1, "e1") EXCEPT !.payload = "other"],
   Request("AVNU", "WBTC", 1, "e1"),
   [Swap("WBTC", 1, "e1", 0) EXCEPT !.swap.sell = "MIDAS"],
   [Swap("WBTC", 1, "e1", 0) EXCEPT !.swap.buy = "xWBTC"],
   [Swap("WBTC", 1, "e2", 0) EXCEPT !.swap.beneficiary = "other"],
   Request("NOON", "TBTC", 1, "e2"),
   Request("ENDUR", "MIDAS", 1, "e2"),
   Request("VESU", "WBTC", 1, "e1"),
   Request("ENDUR", "WBTC", 0, "e1")}

NestedCalls == Good \cup OddSwaps
RefusedCalls == Bad \cup {Swap("MIDAS", 1, "e1", 0), Request("ENDUR", "WBTC", 1, "e1"), Request("FORGE_YIELDS", "WBTC", 1, "e2"),
                          Request("NOON", "WBTC", 1, "e1")}
AllCalls == NestedCalls \cup RefusedCalls

\* strategy_implementation/src/test.cairo:683-685 describes a successful TROVES
\* request: "deposit xTBTC into TROVES_TBTC, transfer shares to the position owner,
\* and emit two Deposited events".
TrovesEmitsTwoDeposited ==
  \A j \in DOMAIN log :
    log[j].type = "Deposited" /\ log[j].out \in {Troves[w] : w \in Wrappers} =>
      Cardinality(Of(log, {"Deposited"}, log[j].id)) = 2
=============================================================================
