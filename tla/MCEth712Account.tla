-------------------------- MODULE MCEth712Account --------------------------
(***************************************************************************)
(* Instances of Eth712Account for TLC: what two keys have signed.          *)
(***************************************************************************)
EXTENDS Eth712AccountProperties, TLC

Plain(op) == [op |-> op, eth |-> Zero, class |-> Undeclared, eic |-> {}, eic_class_declared |-> TRUE]
External == Plain("external")
Execute == Plain("__execute__")
SetOwner(e) == [Plain("set_eth_address") EXCEPT !.eth = e]
Upgrade(c) == [Plain("upgrade") EXCEPT !.class = c]
UpgradeWith(c, ids, declared) == [Upgrade(c) EXCEPT !.eic = ids, !.eic_class_declared = declared]

Outside(signer, nonce, calls) ==
  [kind |-> "outside", signer |-> signer, calls |-> calls, nonce |-> nonce, caller |-> AnyCaller,
   execute_after |-> 0, execute_before |-> MaxTime + 1, version |-> 0]
Transaction(signer, nonce, calls) ==
  [Outside(signer, nonce, calls) EXCEPT !.kind = "transaction", !.version = 3]

\* Re-entrance and rotation: two requests share a nonce, one may only be submitted
\* by the relayer, one is valid for a single timestamp, and both keys sign.
NestedSigned ==
  "migrate" :> Outside("a", 1, <<UpgradeWith(Current, {"other"}, TRUE), External, SetOwner("b")>>)
  @@ "again" :> Outside("a", 1, <<External, SetOwner("b")>>)
  @@ "relayed" :> [Outside("a", 2, <<External, External>>) EXCEPT !.caller = "relayer"]
  @@ "back" :> [Outside("b", 3, <<SetOwner("a"), External>>) EXCEPT !.execute_before = 2]
  @@ "old" :> Outside("a", 4, <<SetOwner("c")>>)
  @@ "tx" :> Transaction("a", 0, <<External, SetOwner("b")>>)

\* Every way a batch may fail or change the code, and transactions of every version.
\* They use the nonces of the requests above: only one of each nonce takes effect.
UpgradeSigned ==
  "zero" :> Outside("a", 2, <<UpgradeWith(Current, {"other"}, TRUE), SetOwner(Zero)>>)
  @@ "undeclared" :> Outside("b", 3, <<SetOwner("a"), Upgrade(Undeclared)>>)
  @@ "noeic" :> Outside("a", 4, <<External, UpgradeWith(Current, {"other"}, FALSE)>>)
  @@ "down" :> Outside("b", 4, <<Upgrade(Legacy), External>>)
  @@ "execute" :> Outside("b", 1, <<SetOwner("a"), Execute>>)
  @@ "query" :> [Transaction("a", 0, <<SetOwner("b")>>) EXCEPT !.version = QUERY_OFFSET + 3]
  @@ "v1" :> [Transaction("b", 0, <<SetOwner("a")>>) EXCEPT !.version = 1]
  @@ "next" :> Transaction("b", 1, <<Upgrade(Legacy), SetOwner("a")>>)

AllSigned == NestedSigned @@ UpgradeSigned
AllRequests == DOMAIN AllSigned
=============================================================================
