--------------------------- MODULE Eth712Account ---------------------------
(***************************************************************************)
(* StarknetEth712Account, and the legacy class it replaces, at one address.*)
(*                                                                         *)
(* A request is a batch of calls one Ethereum key has signed.  It runs     *)
(* through execute_from_outside_v2, submitted by anyone, any number of     *)
(* times and in any order, or as a transaction of the account              *)
(* (__validate__, __execute__).  Its calls run one by one: calls of the    *)
(* account to itself change the owner or the class, and while a call to    *)
(* another contract runs, further requests may be submitted.  A call that  *)
(* fails undoes the whole request; a contract that submitted it may go on. *)
(***************************************************************************)
EXTENDS Naturals, Sequences

CONSTANTS
  EthAddresses,    (* the Ethereum keys                                       *)
  Zero,            (* the unset eth_address                                   *)
  Legacy, Current, (* the classes before and after owner rotation             *)
  Undeclared,      (* a class hash nothing is declared under                  *)
  ISRC6_ID, ISRC9_V2_ID, OtherInterfaces,   (* SRC5 interface ids             *)
  Self,            (* this account                                            *)
  Callers,         (* other contracts and accounts                            *)
  AnyCaller,       (* 'ANY_CALLER'                                            *)
  Requests,        (* the names of the signed requests                        *)
  Signed,          (* request -> what was signed, and by whom                 *)
  Claims,          (* the keys that have signed the ownership message         *)
  QUERY_OFFSET,    (* transaction versions above it are queries               *)
  MaxTime,         (* bound: block timestamps                                 *)
  MaxDepth         (* bound: nested requests                                  *)

MIN_TRANSACTION_VERSION == 3

Classes == {Legacy, Current}
InterfaceIds == {ISRC6_ID, ISRC9_V2_ID} \cup OtherInterfaces

\* One call of a batch.  eic is the data a RegisterInterfacesEIC is given, empty
\* for None; eic_class_declared says whether the EIC's class exists.
Call ==
  [op  : {"external", "set_eth_address", "upgrade", "__execute__"},
   eth : EthAddresses \cup {Zero},
   class : Classes \cup {Undeclared},
   eic : SUBSET InterfaceIds,
   eic_class_declared : BOOLEAN]

\* kind says which hash was signed: an OutsideExecution, whose nonce is one of
\* SRC9_nonces, or a Transaction, whose nonce is the protocol's.
Request ==
  [kind : {"outside", "transaction"},
   signer : EthAddresses,
   calls : Seq(Call),
   nonce : Nat,
   caller : Callers \cup {AnyCaller},
   execute_after : Nat,
   execute_before : Nat,
   version : Nat]

ASSUME AccountAssumption ==
  /\ Zero \notin EthAddresses
  /\ Legacy # Current /\ Undeclared \notin Classes
  /\ Self \notin Callers /\ AnyCaller \notin Callers
  /\ Signed \in [Requests -> Request]
  /\ Claims \subseteq EthAddresses
  /\ QUERY_OFFSET \in Nat /\ MaxTime \in Nat /\ MaxDepth \in Nat

VARIABLES
  class,        (* the class the account's address runs                       *)
  eth_address,  (* the owner, Zero before initialize                          *)
  SRC9_nonces,  (* the nonces of outside executions already used              *)
  src5,         (* the registered interfaces                                  *)
  log,          (* what has happened, in order                                *)
  tx_nonce,     (* the protocol's nonce of the account                        *)
  now,          (* block timestamp                                            *)
  stack         (* the requests being executed, innermost last                *)

vars == <<class, eth_address, SRC9_nonces, src5, log, tx_nonce, now, stack>>

\* What a failing request gives back.
chain == <<class, eth_address, SRC9_nonces, src5, log>>

\* EthAddressChanged and Upgraded are the account's events; Initialized and
\* Accepted are kept beside them.  by is the request, or the caller of a call that
\* belongs to none.
Event ==
  [type : {"Initialized", "Accepted", "EthAddressChanged", "Upgraded"},
   by   : Requests \cup Callers,
   prev : EthAddresses \cup Classes \cup {Zero},
   next : EthAddresses \cup Classes]

State ==
  [class : Classes, eth_address : EthAddresses \cup {Zero}, SRC9_nonces : SUBSET Nat,
   src5 : SUBSET InterfaceIds, log : Seq(Event)]

\* A request being executed: call is the index of the call that runs next, entry
\* the state a failure goes back to.
Frame == [request : Requests, call : Nat \ {0}, entry : State]

-----------------------------------------------------------------------------
Now == [class |-> class, eth_address |-> eth_address, SRC9_nonces |-> SRC9_nonces,
        src5 |-> src5, log |-> log]

Top == stack[Len(stack)]
Pop == SubSeq(stack, 1, Len(stack) - 1)
Advanced == [stack EXCEPT ![Len(stack)].call = @ + 1]

\* The innermost request still has a call to make.
Calling == stack # <<>> /\ Top.call <= Len(Signed[Top.request].calls)
NextCall == Signed[Top.request].calls[Top.call]

\* Somebody else's code runs: a transaction may begin, or a contract was called.
OthersRun == stack = <<>> \/ (Calling /\ NextCall.op = "external")

Record(type, by, prev, next) ==
  log' = Append(log, [type |-> type, by |-> by, prev |-> prev, next |-> next])

\* Mutant: any key's signature is good.
AnyKey(r) == TRUE

\* The signature covers the whole request, so it is valid for its signer alone.
is_valid_eth_signature(r) == Signed[r].signer = eth_address

\* Mutants: the nonce is not marked; anyone may call the admin entry points.
LeaveNonce(r) == SRC9_nonces
AnyoneMayCall(caller) == TRUE

MarkNonce(r) == SRC9_nonces \cup {Signed[r].nonce}

assert_only_self(caller) == caller = Self

\* MIN_TRANSACTION_VERSION, also above QUERY_OFFSET.
is_tx_version_valid(version) ==
  IF version >= QUERY_OFFSET
  THEN version >= QUERY_OFFSET + MIN_TRANSACTION_VERSION
  ELSE version >= MIN_TRANSACTION_VERSION

-----------------------------------------------------------------------------
\* The account's code is deployed by a transaction of its own and not initialized.
Init ==
  /\ class \in Classes
  /\ eth_address = Zero
  /\ SRC9_nonces = {}
  /\ src5 = {}
  /\ log = <<>>
  /\ tx_nonce = 0
  /\ now = 0
  /\ stack = <<>>

\* Anyone may initialize, for a key that has signed the ownership message, once.
initialize(caller, e) ==
  /\ OthersRun
  /\ eth_address = Zero
  /\ e \in Claims
  /\ eth_address' = e
  /\ src5' = src5 \cup {ISRC9_V2_ID, ISRC6_ID}
  /\ Record("Initialized", caller, Zero, e)
  /\ UNCHANGED <<class, SRC9_nonces, tx_nonce, now, stack>>

(***************************************************************************)
(* execute_from_outside_v2 up to its calls: the nonce is marked before the *)
(* calls run, so a nested submission of the same request finds it used.    *)
(***************************************************************************)
execute_from_outside_v2(r, caller) ==
  /\ OthersRun
  /\ Len(stack) < MaxDepth
  /\ Signed[r].kind = "outside"
  /\ Signed[r].caller \in {AnyCaller, caller}
  /\ Signed[r].execute_after < now /\ now < Signed[r].execute_before
  /\ Signed[r].nonce \notin SRC9_nonces
  /\ is_valid_eth_signature(r)
  /\ SRC9_nonces' = MarkNonce(r)
  /\ Record("Accepted", r, eth_address, eth_address)
  /\ stack' = Append(stack, [request |-> r, call |-> 1, entry |-> Now])
  /\ UNCHANGED <<class, eth_address, src5, tx_nonce, now>>

\* A transaction of the account: __validate__ accepts the signature, the protocol
\* takes the nonce, then __execute__ reverts on an unsupported version or runs.
Transact(r) ==
  /\ stack = <<>>
  /\ Signed[r].kind = "transaction"
  /\ Signed[r].nonce = tx_nonce
  /\ is_valid_eth_signature(r)
  /\ tx_nonce' = tx_nonce + 1
  /\ IF is_tx_version_valid(Signed[r].version)
     THEN /\ Record("Accepted", r, eth_address, eth_address)
          /\ stack' = Append(stack, [request |-> r, call |-> 1, entry |-> Now])
     ELSE UNCHANGED <<log, stack>>
  /\ UNCHANGED <<class, eth_address, SRC9_nonces, src5, now>>

\* A caller makes an admin call: the account, as the next call of the request it
\* runs, or another contract whenever its code runs.
Invokes(caller, call) ==
  \/ caller = Self /\ Calling /\ NextCall = call
  \/ caller \in Callers /\ OthersRun

\* Who an admin call is made by, and where its caller stands afterwards.
By(caller) == IF caller = Self THEN Top.request ELSE caller
Return(caller) == stack' = IF caller = Self THEN Advanced ELSE stack

\* Mutant: the zero address is not refused.
AnyAddress(new_eth_address) == TRUE

NotZero(new_eth_address) == new_eth_address # Zero

\* The legacy class has no such entry point.
set_eth_address(caller, call) ==
  /\ call.op = "set_eth_address"
  /\ Invokes(caller, call)
  /\ class = Current
  /\ assert_only_self(caller)
  /\ NotZero(call.eth)
  /\ eth_address' = call.eth
  /\ Record("EthAddressChanged", By(caller), eth_address, call.eth)
  /\ Return(caller)
  /\ UNCHANGED <<class, SRC9_nonces, src5, tx_nonce, now>>

\* The EIC runs first, then the class is replaced; if either fails, the call does.
\* The request goes on in the code it started in, its next calls in the new one.
upgrade(caller, call) ==
  /\ call.op = "upgrade"
  /\ Invokes(caller, call)
  /\ assert_only_self(caller)
  /\ call.eic # {} => call.eic_class_declared
  /\ call.class # Undeclared
  /\ src5' = src5 \cup call.eic
  /\ class' = call.class
  /\ Record("Upgraded", By(caller), class, call.class)
  /\ Return(caller)
  /\ UNCHANGED <<eth_address, SRC9_nonces, tx_nonce, now>>

ExternalReturns ==
  /\ Calling /\ NextCall.op = "external"
  /\ stack' = Advanced
  /\ UNCHANGED <<chain, tx_nonce, now>>

\* The call cannot succeed: a missing entry point, a refused argument, a class that
\* is not declared, __execute__ called by the account; and any external call may fail.
CallFails(call) ==
  \/ call.op = "external"
  \/ call.op = "__execute__"
  \/ call.op = "set_eth_address" /\ (class # Current \/ ~NotZero(call.eth))
  \/ call.op = "upgrade" /\ (call.class = Undeclared \/ (call.eic # {} /\ ~call.eic_class_declared))

\* Mutant: what the calls before the failing one did stays.
KeepEffects(f) == Now

\* The state a failure of the request goes back to.
RolledBack(f) == f.entry

\* execute_single_call unwraps: the failing call panics the whole request.
RequestFails ==
  /\ Calling /\ CallFails(NextCall)
  /\ LET s == RolledBack(Top)
     IN /\ class' = s.class
        /\ eth_address' = s.eth_address
        /\ SRC9_nonces' = s.SRC9_nonces
        /\ src5' = s.src5
        /\ log' = s.log
  /\ stack' = Pop
  /\ UNCHANGED <<tx_nonce, now>>

RequestReturns ==
  /\ stack # <<>> /\ ~Calling
  /\ stack' = Pop
  /\ UNCHANGED <<chain, tx_nonce, now>>

\* Blocks follow each other for ever; their timestamps are counted up to MaxTime.
Tick ==
  /\ stack = <<>>
  /\ now' = IF now < MaxTime THEN now + 1 ELSE now
  /\ UNCHANGED <<chain, tx_nonce, stack>>

\* The admin calls other contracts try: any the owner might make.
AdminCalls ==
  {c \in UNION {{Signed[r].calls[i] : i \in 1..Len(Signed[r].calls)} : r \in Requests} :
     c.op \in {"set_eth_address", "upgrade"}}

Next ==
  \/ \E caller \in Callers, e \in EthAddresses : initialize(caller, e)
  \/ \E r \in Requests, caller \in Callers : execute_from_outside_v2(r, caller)
  \/ \E r \in Requests : Transact(r)
  \/ \E caller \in Callers \cup {Self}, call \in AdminCalls : set_eth_address(caller, call)
  \/ \E caller \in Callers \cup {Self}, call \in AdminCalls : upgrade(caller, call)
  \/ ExternalReturns
  \/ RequestFails
  \/ RequestReturns
  \/ Tick

Spec == Init /\ [][Next]_vars
=============================================================================
