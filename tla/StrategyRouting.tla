--------------------------- MODULE StrategyRouting ---------------------------
(***************************************************************************)
(* How StrategyImplementation classifies a request: the protocol selector  *)
(* and token_in name a strategy, the strategy names the contract that is   *)
(* called (strategy_implementation/src/utils.cairo and known_addresses).   *)
(* A panic of the source is a strategy whose kind is the panic's felt.     *)
(***************************************************************************)

CONSTANTS
  WBTC,          (* the one wrapper FORGE_YIELDS and NOON accept             *)
  Wrappers,      (* the supported wrapper tokens, WBTC among them            *)
  Endur,         (* wrapper -> its Endur vault, which is also the LST token  *)
  Troves,        (* wrapper -> the Troves vault over that wrapper's LST      *)
  ForgeYields,   (* the ForgeYields vault over WBTC                          *)
  Noon,          (* the Noon vault over WBTC                                 *)
  AvnuExchange,  (* the Avnu exchange                                        *)
  MIDAS_RE7_BTC  (* the only token an Avnu request may buy                   *)

\* The contracts shares are held in, each of them its own share token.
VaultAddresses ==
  {Endur[w] : w \in Wrappers} \cup {Troves[w] : w \in Wrappers} \cup {ForgeYields, Noon}

\* Every contract the implementation approves and calls.
StrategyAddresses == VaultAddresses \cup {AvnuExchange}

ASSUME RoutingAssumption == WBTC \in Wrappers

(***************************************************************************)
(* strategy_from_protocol_and_token: the tests in the order of the source. *)
(* AVNU is decided before token_in is looked at; an unsupported token is   *)
(* reported before an unknown selector.                                    *)
(***************************************************************************)
StrategyKinds == {"Endur", "Troves", "ForgeYields", "Noon", "Avnu"}

strategy_kind(protocol, token_in) ==
  IF protocol = "AVNU" THEN "Avnu"
  ELSE IF token_in \notin Wrappers THEN "INVALID_TOKEN"
  ELSE CASE protocol = "TROVES"       -> "Troves"
         [] protocol = "ENDUR"        -> "Endur"
         [] protocol = "FORGE_YIELDS" ->
              IF token_in = WBTC THEN "ForgeYields" ELSE "FORGE_YIELDS_ONLY_WBTC"
         [] protocol = "NOON"         ->
              IF token_in = WBTC THEN "Noon" ELSE "NOON_ONLY_WBTC"
         [] OTHER                     -> "INVALID_PROTOCOL"

\* strategy_address, for the kinds the classification can return.
strategy_address(kind, token_in) ==
  CASE kind = "Endur"       -> Endur[token_in]
    [] kind = "Troves"      -> Troves[token_in]
    [] kind = "ForgeYields" -> ForgeYields
    [] kind = "Noon"        -> Noon
    [] kind = "Avnu"        -> AvnuExchange
==============================================================================
