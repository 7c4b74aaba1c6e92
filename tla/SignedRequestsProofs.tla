------------------------ MODULE SignedRequestsProofs ------------------------
(***************************************************************************)
(* A signature of the scripts is good for what was signed and for nothing  *)
(* else, whatever the requests, addresses, chains and keys are.            *)
(*                                                                         *)
(* Two facts carry it: the account computes the hash the script computed   *)
(* (AccountOutsideHash, AccountTransactionHash), and different messages    *)
(* have different hashes (the lemmas that end in Injective).               *)
(***************************************************************************)
EXTENDS SignedRequests, TLAPS

\* The signature in the state belongs to the request in the state.
SignedOutside ==
  /\ request.kind = "outside"
  /\ request.message \in OutsideExecution
  /\ request.sn_chain_name \in Chains
  /\ signature = sign_and_split(
       outside_execution_msg_hash(request.message, request.sn_chain_name,
                                  request.contract_address, request.evm_chain_id),
       request.key, request.evm_chain_id)

SignedTransaction ==
  /\ request.kind = "transaction"
  /\ request.message \in Transaction
  /\ request.sn_chain_name \in Chains
  /\ signature = sign_and_split(
       transaction_msg_hash(request.message.calls, request.message.metadata,
                            request.sn_chain_name, request.contract_address,
                            request.evm_chain_id),
       request.key, request.evm_chain_id)

\* The inductive invariant.
IInv ==
  \/ request = Unsigned /\ signature = <<>>
  \/ SignedOutside
  \/ SignedTransaction

-----------------------------------------------------------------------------
(* Different messages have different hashes.                                *)

LEMMA FeltsInjective ==
  ASSUME NEW S, NEW f \in Seq(S), NEW g \in Seq(S),
         hash_felt_array(f) = hash_felt_array(g)
  PROVE  f = g
<1> DEFINE F == [i \in DOMAIN f |-> Uint(f[i])]
           G == [i \in DOMAIN g |-> Uint(g[i])]
<1>1. F = G
  BY DEF hash_felt_array, keccak256, to_bytes32
<1>2. DOMAIN f = DOMAIN g
  BY <1>1
<1>3. \A i \in DOMAIN f : F[i] = G[i]
  BY <1>1
<1>4. \A i \in DOMAIN f : f[i] = g[i]
  BY <1>2, <1>3 DEF Uint
<1>5. QED
  BY <1>2, <1>4

LEMMA CallInjective ==
  ASSUME NEW c \in CallStruct, NEW d \in CallStruct, hash_call(c) = hash_call(d)
  PROVE  c = d
<1>1. /\ to_bytes32(c.to) = to_bytes32(d.to)
      /\ to_bytes32(c.selector) = to_bytes32(d.selector)
      /\ hash_felt_array(c.calldata) = hash_felt_array(d.calldata)
  BY DEF hash_call, keccak_ints, keccak256
<1>2. c.to = d.to /\ c.selector = d.selector
  BY <1>1 DEF to_bytes32, Uint
<1>3. c.calldata = d.calldata
  BY <1>1, FeltsInjective DEF CallStruct
<1>4. QED
  BY <1>2, <1>3 DEF CallStruct

LEMMA CallArrayInjective ==
  ASSUME NEW c \in Seq(CallStruct), NEW d \in Seq(CallStruct),
         hash_call_array(c) = hash_call_array(d)
  PROVE  c = d
<1> DEFINE C == [i \in DOMAIN c |-> hash_call(c[i])]
           D == [i \in DOMAIN d |-> hash_call(d[i])]
<1>1. C = D
  BY DEF hash_call_array, keccak256
<1>2. DOMAIN c = DOMAIN d
  BY <1>1
<1>3. ASSUME NEW i \in DOMAIN c PROVE c[i] = d[i]
  <2>1. hash_call(c[i]) = hash_call(d[i])
    <3>1. C[i] = D[i]
      BY <1>1
    <3>2. QED
      BY <3>1, <1>2, <1>3
  <2>2. c[i] \in CallStruct /\ d[i] \in CallStruct
    BY <1>2, <1>3
  <2>3. QED
    BY <2>1, <2>2, CallInjective
<1>4. QED
  BY <1>2, <1>3

LEMMA DomainInjective ==
  ASSUME NEW m, NEW n, NEW a, NEW b, NEW e, NEW f,
         domain_separator(m, a, e) = domain_separator(n, b, f)
  PROVE  m = n /\ LowHalf(a) = LowHalf(b) /\ e = f
BY DEF domain_separator, keccak_ints, keccak256, Text, to_bytes32, Uint

LEMMA OutsideInjective ==
  ASSUME NEW o \in OutsideExecution, NEW p \in OutsideExecution,
         hash_outside_execution(o) = hash_outside_execution(p)
  PROVE  o = p
<1>1. /\ hash_call_array(o.calls) = hash_call_array(p.calls)
      /\ to_bytes32(o.caller) = to_bytes32(p.caller)
      /\ to_bytes32(o.nonce) = to_bytes32(p.nonce)
      /\ to_bytes32(o.execute_after) = to_bytes32(p.execute_after)
      /\ to_bytes32(o.execute_before) = to_bytes32(p.execute_before)
  BY DEF hash_outside_execution, keccak_ints, keccak256
<1>2. o.calls = p.calls
  BY <1>1, CallArrayInjective DEF OutsideExecution
<1>3. QED
  BY <1>1, <1>2 DEF to_bytes32, Uint, OutsideExecution

LEMMA MetadataInjective ==
  ASSUME NEW m \in TransactionMetadata, NEW n \in TransactionMetadata,
         hash_transaction_metadata(m) = hash_transaction_metadata(n)
  PROVE  m = n
<1>1. /\ to_bytes32(m.version) = to_bytes32(n.version)
      /\ to_bytes32(m.chain_id) = to_bytes32(n.chain_id)
      /\ hash_felt_array(m.execution_resources) = hash_felt_array(n.execution_resources)
      /\ to_bytes32(m.tip) = to_bytes32(n.tip)
      /\ to_bytes32(m.nonce) = to_bytes32(n.nonce)
  BY DEF hash_transaction_metadata, keccak_ints, keccak256
<1>2. m.execution_resources = n.execution_resources
  BY <1>1, FeltsInjective DEF TransactionMetadata
<1>3. QED
  BY <1>1, <1>2 DEF to_bytes32, Uint, TransactionMetadata

LEMMA TransactionInjective ==
  ASSUME NEW t \in Transaction, NEW u \in Transaction,
         hash_transaction(t.calls, t.metadata) = hash_transaction(u.calls, u.metadata)
  PROVE  t = u
<1>1. /\ hash_call_array(t.calls) = hash_call_array(u.calls)
      /\ hash_transaction_metadata(t.metadata) = hash_transaction_metadata(u.metadata)
  BY DEF hash_transaction, keccak_ints, keccak256
<1>2. t.calls = u.calls
  BY <1>1, CallArrayInjective DEF Transaction
<1>3. t.metadata = u.metadata
  BY <1>1, MetadataInjective DEF Transaction
<1>4. QED
  BY <1>2, <1>3 DEF Transaction

\* The two kinds of messages start with different type hashes.
LEMMA KindsApart ==
  ASSUME NEW o, NEW c, NEW m
  PROVE  hash_outside_execution(o) # hash_transaction(c, m)
<1>1. OUTSIDE_EXECUTION_TYPE_HASH # TRANSACTION_TYPE_HASH
  BY DEF OUTSIDE_EXECUTION_TYPE_HASH, TRANSACTION_TYPE_HASH, TypeHash
<1>2. QED
  BY <1>1 DEF hash_outside_execution, hash_transaction, keccak_ints, keccak256

-----------------------------------------------------------------------------
(* The account computes the hash the script has signed.                     *)

LEMMA ChainNameReadBack ==
  ASSUME NEW chain \in Chains
  PROVE  felt_to_byte_array(ChainIds[chain]) = Text(chain)
BY KeccakAssumption DEF felt_to_byte_array, Chains

LEMMA AccountDomain ==
  ASSUME NEW chain \in Chains, NEW address, NEW evm
  PROVE  push_domain_separator(evm, ChainIds[chain], address) = domain_separator(chain, address, evm)
BY ChainNameReadBack DEF push_domain_separator, push_felt, contract_address_low,
   domain_separator, keccak_ints, to_bytes32, LowHalf

LEMMA AccountCalls ==
  ASSUME NEW calls
  PROVE  push_call_array(calls) = hash_call_array(calls)
<1>1. \A i \in DOMAIN calls : push_call(calls[i]) = hash_call(calls[i])
  BY DEF push_call, push_felt_array, push_felt, hash_call, hash_felt_array, keccak_ints, to_bytes32
<1>2. QED
  BY <1>1 DEF push_call_array, hash_call_array

LEMMA AccountOutsideHash ==
  ASSUME NEW oe, NEW chain \in Chains, NEW address, NEW evm
  PROVE  get_outside_execution_hash(oe, evm, ChainIds[chain], address)
           = outside_execution_msg_hash(oe, chain, address, evm)
<1>1. push_outside_execution(oe) = hash_outside_execution(oe)
  BY AccountCalls DEF push_outside_execution, push_felt, hash_outside_execution,
     keccak_ints, to_bytes32
<1>2. QED
  BY <1>1, AccountDomain DEF get_outside_execution_hash, outside_execution_msg_hash

LEMMA AccountTransactionHash ==
  ASSUME NEW calls, NEW metadata, NEW chain \in Chains, NEW address, NEW evm
  PROVE  get_transaction_hash(calls, metadata, evm, ChainIds[chain], address)
           = transaction_msg_hash(calls, metadata, chain, address, evm)
<1>1. push_metadata(metadata) = hash_transaction_metadata(metadata)
  BY DEF push_metadata, push_felt_array, push_felt, hash_transaction_metadata, hash_felt_array,
     keccak_ints, to_bytes32
<1>2. push_transaction(calls, metadata) = hash_transaction(calls, metadata)
  BY <1>1, AccountCalls DEF push_transaction, hash_transaction, keccak_ints
<1>3. QED
  BY <1>2, AccountDomain DEF get_transaction_hash, transaction_msg_hash

-----------------------------------------------------------------------------
(* A signature is valid for its digest and its key.                         *)

LEMMA SignatureValid ==
  ASSUME NEW digest, NEW key, NEW evm, NEW hash, NEW owner
  PROVE  LET s == sign_and_split(digest, key, evm)
         IN /\ IsSignature(s)
            /\ EvmChainOf(s) = evm
            /\ is_valid_eth_signature(hash, s, owner) <=> hash = digest /\ owner = key
<1> DEFINE s == sign_and_split(digest, key, evm)
<1>1. /\ Len(s) = 6
      /\ s[1] = Part("r_high", key, digest) /\ s[2] = Part("r_low", key, digest)
      /\ s[3] = Part("s_high", key, digest) /\ s[4] = Part("s_low", key, digest)
      /\ s[5] = Uint(IF IsYOdd(key, digest) THEN 28 ELSE 27) /\ s[6] = Uint(evm)
  BY DEF sign_and_split
<1>2. IsSignature(s) /\ EvmChainOf(s) = evm
  BY <1>1 DEF IsSignature, EvmChainOf, Uint
<1>3. (s[5].uint % 2 = 0) = IsYOdd(key, digest)
  BY <1>1 DEF Uint, IsYOdd
<1> DEFINE sig == extract_signature(s)
<1>4. /\ sig.r = [high |-> Part("r_high", key, digest), low |-> Part("r_low", key, digest)]
      /\ sig.s = [high |-> Part("s_high", key, digest), low |-> Part("s_low", key, digest)]
      /\ sig.y_parity = IsYOdd(key, digest)
  BY <1>1, <1>3 DEF extract_signature
<1>5. ASSUME Recovers(hash, sig, owner) PROVE hash = digest /\ owner = key
  <2>1. [high |-> Part("r_high", key, digest), low |-> Part("r_low", key, digest)]
          = [high |-> Part("r_high", owner, hash), low |-> Part("r_low", owner, hash)]
    BY <1>4, <1>5 DEF Recovers
  <2>2. Part("r_high", key, digest) = Part("r_high", owner, hash)
    BY <2>1
  <2>3. QED
    BY <2>2 DEF Part
<1>6. ASSUME hash = digest, owner = key PROVE Recovers(hash, sig, owner)
  BY <1>4, <1>6 DEF Recovers
<1>7. QED
  BY <1>2, <1>5, <1>6 DEF is_valid_eth_signature

-----------------------------------------------------------------------------
(* The invariant, and what it means for the account.                        *)

LEMMA InvariantHolds == Spec => []IInv
<1>1. Init => IInv
  BY DEF Init, IInv
<1>2. IInv /\ [Next]_vars => IInv'
  <2> SUFFICES ASSUME IInv, [Next]_vars PROVE IInv'
    OBVIOUS
  <2>1. CASE UNCHANGED vars
    BY <2>1 DEF vars, IInv, SignedOutside, SignedTransaction
  <2>2. ASSUME NEW oe \in OutsideExecutions, NEW a \in Addresses, NEW evm \in EvmChains,
               NEW chain \in Chains, NEW key \in Keys,
               sign_outside_execution(oe, a, evm, chain, key)
        PROVE  IInv'
    <3>1. SignedOutside'
      BY <2>2, RequestsAssumption DEF sign_outside_execution, SignedOutside, Signed
    <3>2. QED
      BY <3>1 DEF IInv
  <2>3. ASSUME NEW tx \in Transactions, NEW a \in Addresses, NEW evm \in EvmChains,
               NEW chain \in Chains, NEW key \in Keys,
               sign_transaction(tx, a, evm, chain, key)
        PROVE  IInv'
    <3>1. SignedTransaction'
      BY <2>3, RequestsAssumption DEF sign_transaction, SignedTransaction, Signed
    <3>2. QED
      BY <3>1 DEF IInv
  <2>4. QED
    BY <2>1, <2>2, <2>3 DEF Next
<1>3. QED
  BY <1>1, <1>2, PTL DEF Spec

\* Equal message hashes name one chain, one EVM chain, one half of an address.
LEMMA MessageParts ==
  ASSUME NEW m, NEW n, NEW a, NEW b, NEW e, NEW f
  PROVE  /\ \A o, p : outside_execution_msg_hash(o, m, a, e) = outside_execution_msg_hash(p, n, b, f)
              => /\ m = n /\ LowHalf(a) = LowHalf(b) /\ e = f
                 /\ hash_outside_execution(o) = hash_outside_execution(p)
         /\ \A c, d, x, y : transaction_msg_hash(c, x, m, a, e) = transaction_msg_hash(d, y, n, b, f)
              => /\ m = n /\ LowHalf(a) = LowHalf(b) /\ e = f
                 /\ hash_transaction(c, x) = hash_transaction(d, y)
         /\ \A o, c, x : outside_execution_msg_hash(o, m, a, e) # transaction_msg_hash(c, x, n, b, f)
<1>1. ASSUME NEW o, NEW p,
             outside_execution_msg_hash(o, m, a, e) = outside_execution_msg_hash(p, n, b, f)
      PROVE  /\ m = n /\ LowHalf(a) = LowHalf(b) /\ e = f
             /\ hash_outside_execution(o) = hash_outside_execution(p)
  <2>1. /\ domain_separator(m, a, e) = domain_separator(n, b, f)
        /\ hash_outside_execution(o) = hash_outside_execution(p)
    BY <1>1 DEF outside_execution_msg_hash, keccak256
  <2>2. QED
    BY <2>1, DomainInjective
<1>2. ASSUME NEW c, NEW d, NEW x, NEW y,
             transaction_msg_hash(c, x, m, a, e) = transaction_msg_hash(d, y, n, b, f)
      PROVE  /\ m = n /\ LowHalf(a) = LowHalf(b) /\ e = f
             /\ hash_transaction(c, x) = hash_transaction(d, y)
  <2>1. /\ domain_separator(m, a, e) = domain_separator(n, b, f)
        /\ hash_transaction(c, x) = hash_transaction(d, y)
    BY <1>2 DEF transaction_msg_hash, keccak256
  <2>2. QED
    BY <2>1, DomainInjective
<1>3. ASSUME NEW o, NEW c, NEW x
      PROVE  outside_execution_msg_hash(o, m, a, e) # transaction_msg_hash(c, x, n, b, f)
  BY KindsApart DEF outside_execution_msg_hash, transaction_msg_hash, keccak256
<1>4. QED
  BY <1>1, <1>2, <1>3

\* The domain does not change with an address of the same low half.
LEMMA SameDomain ==
  ASSUME NEW n, NEW a, NEW b, NEW e, LowHalf(a) = LowHalf(b)
  PROVE  domain_separator(n, a, e) = domain_separator(n, b, e)
BY DEF domain_separator

LEMMA BoundOutside ==
  ASSUME IInv, NEW oe \in OutsideExecutions, NEW address \in Addresses,
         NEW chain \in Chains, NEW owner \in Keys
  PROVE  AcceptsOutside(oe, address, chain, owner) <=>
           request.kind = "outside" /\ request.message = oe /\ For(address, chain, owner)
<1> DEFINE evm == request.evm_chain_id
           hash == outside_execution_msg_hash(oe, chain, address, evm)
<1>1. oe \in OutsideExecution
  BY RequestsAssumption
<1>2. CASE request = Unsigned /\ signature = <<>>
  <2>1. Len(signature) # 6 /\ request.kind = "none"
    BY <1>2 DEF Unsigned
  <2>2. QED
    BY <2>1 DEF AcceptsOutside, IsSignature
<1>3. CASE SignedOutside
  <2> DEFINE digest == outside_execution_msg_hash(request.message, request.sn_chain_name,
                                                  request.contract_address, evm)
  <2>1. AcceptsOutside(oe, address, chain, owner) <=> hash = digest /\ owner = request.key
    BY <1>3, SignatureValid, AccountOutsideHash DEF AcceptsOutside, SignedOutside
  <2>2. ASSUME hash = digest PROVE request.message = oe /\ chain = request.sn_chain_name
                                   /\ LowHalf(address) = LowHalf(request.contract_address)
    <3>1. /\ hash_outside_execution(oe) = hash_outside_execution(request.message)
          /\ chain = request.sn_chain_name
          /\ LowHalf(address) = LowHalf(request.contract_address)
      BY <2>2, MessageParts
    <3>2. QED
      BY <3>1, <1>1, <1>3, OutsideInjective DEF SignedOutside
  <2>3. ASSUME request.message = oe, chain = request.sn_chain_name,
               LowHalf(address) = LowHalf(request.contract_address)
        PROVE  hash = digest
    BY <2>3, SameDomain DEF outside_execution_msg_hash
  <2>4. QED
    BY <1>3, <2>1, <2>2, <2>3 DEF For, SignedOutside
<1>4. CASE SignedTransaction
  <2> DEFINE digest == transaction_msg_hash(request.message.calls, request.message.metadata,
                         request.sn_chain_name, request.contract_address, evm)
  <2>1. AcceptsOutside(oe, address, chain, owner) => hash = digest
    BY <1>4, SignatureValid, AccountOutsideHash DEF AcceptsOutside, SignedTransaction
  <2>2. hash # digest
    BY MessageParts
  <2>3. QED
    BY <1>4, <2>1, <2>2 DEF SignedTransaction
<1>5. QED
  BY <1>2, <1>3, <1>4 DEF IInv

LEMMA BoundTransaction ==
  ASSUME IInv, NEW tx \in Transactions, NEW address \in Addresses,
         NEW chain \in Chains, NEW owner \in Keys
  PROVE  AcceptsTransaction(tx, address, chain, owner) <=>
           request.kind = "transaction" /\ request.message = tx /\ For(address, chain, owner)
<1> DEFINE evm == request.evm_chain_id
           hash == transaction_msg_hash(tx.calls, tx.metadata, chain, address, evm)
<1>1. tx \in Transaction
  BY RequestsAssumption
<1>2. CASE request = Unsigned /\ signature = <<>>
  <2>1. Len(signature) # 6 /\ request.kind = "none"
    BY <1>2 DEF Unsigned
  <2>2. QED
    BY <2>1 DEF AcceptsTransaction, IsSignature
<1>3. CASE SignedTransaction
  <2> DEFINE digest == transaction_msg_hash(request.message.calls, request.message.metadata,
                         request.sn_chain_name, request.contract_address, evm)
  <2>1. AcceptsTransaction(tx, address, chain, owner) <=> hash = digest /\ owner = request.key
    BY <1>3, SignatureValid, AccountTransactionHash DEF AcceptsTransaction, SignedTransaction
  <2>2. ASSUME hash = digest PROVE request.message = tx /\ chain = request.sn_chain_name
                                   /\ LowHalf(address) = LowHalf(request.contract_address)
    <3>1. /\ hash_transaction(tx.calls, tx.metadata)
                = hash_transaction(request.message.calls, request.message.metadata)
          /\ chain = request.sn_chain_name
          /\ LowHalf(address) = LowHalf(request.contract_address)
      BY <2>2, MessageParts
    <3>2. QED
      BY <3>1, <1>1, <1>3, TransactionInjective DEF SignedTransaction
  <2>3. ASSUME request.message = tx, chain = request.sn_chain_name,
               LowHalf(address) = LowHalf(request.contract_address)
        PROVE  hash = digest
    BY <2>3, SameDomain DEF transaction_msg_hash
  <2>4. QED
    BY <1>3, <2>1, <2>2, <2>3 DEF For, SignedTransaction
<1>4. CASE SignedOutside
  <2> DEFINE digest == outside_execution_msg_hash(request.message, request.sn_chain_name,
                                                  request.contract_address, evm)
  <2>1. AcceptsTransaction(tx, address, chain, owner) => hash = digest
    BY <1>4, SignatureValid, AccountTransactionHash DEF AcceptsTransaction, SignedOutside
  <2>2. hash # digest
    BY MessageParts
  <2>3. QED
    BY <1>4, <2>1, <2>2 DEF SignedOutside
<1>5. QED
  BY <1>2, <1>3, <1>4 DEF IInv

\* A signature over an outside execution is accepted with that outside execution and no
\* other, at the accounts it was made for and no others (execute_from_outside_v2).
THEOREM OutsideSignaturesBound == Spec => []OutsideBound
<1>1. IInv => OutsideBound
  BY BoundOutside DEF OutsideBound
<1>2. QED
  BY <1>1, InvariantHolds, PTL

\* The same for transactions (__validate__).
THEOREM TransactionSignaturesBound == Spec => []TransactionBound
<1>1. IInv => TransactionBound
  BY BoundTransaction DEF TransactionBound
<1>2. QED
  BY <1>1, InvariantHolds, PTL
=============================================================================
