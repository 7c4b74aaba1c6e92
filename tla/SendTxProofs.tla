---------------------------- MODULE SendTxProofs ----------------------------
(***************************************************************************)
(* What is proved of send_tx.py, for any number of runs, accounts and      *)
(* command lines.                                                          *)
(*                                                                         *)
(* IInv is about nonces: running the script again before the first         *)
(* transaction is included never executes twice.  AInv, on top of it, is   *)
(* about what is signed: whatever an account executes was asked for in     *)
(* these terms, and the node refuses nothing without a cause.  Between the *)
(* two stands the calldata: DecodeCalls reads back what                    *)
(* serialize_calls_to_felts has written (ReadBack, PrintedReadBack).       *)
(***************************************************************************)
EXTENDS SendTxProperties, FiniteSums, SequenceTheorems, TLAPS

\* The node's counts, for any sequence of entries.
TxAt(s) == {i \in DOMAIN s : "tx" \in DOMAIN s[i]}
Of(s, a, n) == {i \in TxAt(s) : i <= n /\ s[i].account = a}
Numb(s, a, n) == Cardinality(Of(s, a, n))

Entries(s) == {s[i] : i \in 1..Len(s)}

IsSequence(s) == Len(s) \in Nat /\ s \in [1..Len(s) -> Entries(s)]

\* The nonce of a transaction is the number of those before it.
Numbered(s) ==
  \A i \in TxAt(s) : /\ s[i].account = s[i].tx.sender_address
                     /\ s[i].tx.nonce = Numb(s, s[i].account, i - 1)

\* An account's count stands for that many transactions, one of each nonce below.
Filled(s) ==
  \A a \in DOMAIN Owner : \A n \in 0..Len(s) : \A k \in 0..Numb(s, a, n) - 1 :
    \E i \in Of(s, a, n) : s[i].tx.nonce = k

\* No two transactions the node has or had compete for a nonce.
NoncesUnique ==
  \A t, u \in Txs : t.sender_address = u.sender_address /\ t.nonce = u.nonce => t = u

\* Below the nonce a run was given, the nonces were taken by what it saw included.
NonceExplained(state, txs) ==
  /\ "phase" \in DOMAIN state
  /\ state.phase = "sending" => "tx" \in DOMAIN state
  /\ "tx" \in DOMAIN state =>
       /\ "seen" \in DOMAIN state
       /\ state.tx.nonce \in Nat
       /\ \A k \in 0..state.tx.nonce - 1 : \E t \in txs :
            t \in state.seen /\ t.sender_address = state.tx.sender_address /\ t.nonce = k

IInv ==
  /\ DOMAIN run = Runs
  /\ IsSequence(ledger)
  /\ sealed \in 0..Len(ledger)
  /\ Numbered(ledger)
  /\ Filled(ledger)
  /\ \A t \in Txs : t.nonce \in Nat
  /\ NoncesUnique
  /\ \A r \in Runs : NonceExplained(run[r], Txs)

-----------------------------------------------------------------------------
\* Counting.

LEMMA CountFinite ==
  ASSUME NEW s, IsSequence(s), NEW a, NEW n
  PROVE  IsFiniteSet(Of(s, a, n)) /\ Numb(s, a, n) \in Nat
<1>1. DOMAIN s = 1..Len(s) /\ Len(s) \in Nat
  BY DEF IsSequence
<1>2. IsFiniteSet(1..Len(s))
  BY <1>1, FS_Interval
<1>3. Of(s, a, n) \subseteq 1..Len(s)
  BY <1>1 DEF Of, TxAt
<1>4. QED BY <1>2, <1>3, FS_Subset, FS_CardinalityType DEF Numb

LEMMA CountMonotone ==
  ASSUME NEW s, IsSequence(s), NEW a, NEW m \in Int, NEW n \in Int, m <= n
  PROVE  Numb(s, a, m) <= Numb(s, a, n)
<1>1. DOMAIN s = 1..Len(s) /\ Len(s) \in Nat
  BY DEF IsSequence
<1>2. Of(s, a, m) \subseteq Of(s, a, n)
  BY <1>1 DEF Of, TxAt
<1>3. IsFiniteSet(Of(s, a, n))
  BY CountFinite
<1>4. QED BY <1>2, <1>3, FS_Subset DEF Numb

\* One transaction of the account more.
LEMMA CountNext ==
  ASSUME NEW s, IsSequence(s), NEW a, NEW i \in TxAt(s), s[i].account = a
  PROVE  Numb(s, a, i) = Numb(s, a, i - 1) + 1
<1>1. DOMAIN s = 1..Len(s) /\ Len(s) \in Nat
  BY DEF IsSequence
<1>2. i \in Nat
  BY <1>1 DEF TxAt
<1>3. Of(s, a, i) = Of(s, a, i - 1) \cup {i} /\ i \notin Of(s, a, i - 1)
  BY <1>1, <1>2 DEF Of, TxAt
<1>4. IsFiniteSet(Of(s, a, i - 1))
  BY CountFinite
<1>5. QED BY <1>3, <1>4, FS_AddElement DEF Numb

\* Nothing of the account in a position.
LEMMA CountSkips ==
  ASSUME NEW s, IsSequence(s), NEW a, NEW i \in 1..Len(s),
         ~(i \in TxAt(s) /\ s[i].account = a)
  PROVE  Of(s, a, i) = Of(s, a, i - 1)
<1>1. DOMAIN s = 1..Len(s) /\ Len(s) \in Nat
  BY DEF IsSequence
<1>2. QED BY <1>1 DEF Of, TxAt

\* The count up to n depends on the first n entries alone.
LEMMA CountPrefix ==
  ASSUME NEW s, IsSequence(s), NEW t, IsSequence(t), NEW n \in Nat, n <= Len(s), n <= Len(t),
         \A i \in 1..n : t[i] = s[i], NEW a, NEW m \in Int, m <= n
  PROVE  Of(t, a, m) = Of(s, a, m) /\ Numb(t, a, m) = Numb(s, a, m)
<1>1. DOMAIN s = 1..Len(s) /\ DOMAIN t = 1..Len(t) /\ Len(s) \in Nat /\ Len(t) \in Nat
  BY DEF IsSequence
<1>2. \A i \in 1..n : i \in TxAt(s) <=> i \in TxAt(t)
  BY <1>1 DEF TxAt
<1>3. Of(t, a, m) = Of(s, a, m)
  BY <1>1, <1>2 DEF Of, TxAt
<1>4. QED BY <1>3 DEF Numb

\* An included transaction's nonce is below the count.
LEMMA CountAbove ==
  ASSUME NEW s, IsSequence(s), Numbered(s), NEW i \in TxAt(s), NEW n \in Int, i <= n
  PROVE  /\ s[i].tx.nonce \in Nat
         /\ s[i].tx.nonce < Numb(s, s[i].tx.sender_address, n)
<1>1. DOMAIN s = 1..Len(s) /\ Len(s) \in Nat
  BY DEF IsSequence
<1>2. i \in Nat /\ i - 1 \in Int
  BY <1>1 DEF TxAt
<1> DEFINE a == s[i].account
<1>3. s[i].tx.nonce = Numb(s, a, i - 1) /\ a = s[i].tx.sender_address
  BY DEF Numbered
<1>4. Numb(s, a, i - 1) \in Nat /\ Numb(s, a, i) \in Nat /\ Numb(s, a, n) \in Nat
  BY CountFinite
<1>5. Numb(s, a, i) = Numb(s, a, i - 1) + 1
  BY CountNext
<1>6. Numb(s, a, i) <= Numb(s, a, n)
  BY <1>2, CountMonotone
<1> HIDE DEF a
<1>7. QED BY <1>3, <1>4, <1>5, <1>6

-----------------------------------------------------------------------------
\* The ledger grows by an entry, or is cut to a prefix.

LEMMA SequenceOf ==
  ASSUME NEW S, NEW t \in Seq(S)
  PROVE  IsSequence(t)
<1>1. Len(t) \in Nat /\ t \in [1..Len(t) -> S]
  BY LenProperties
<1>2. t = [i \in 1..Len(t) |-> t[i]]
  BY <1>1
<1>3. \A i \in 1..Len(t) : t[i] \in Entries(t)
  BY DEF Entries
<1>4. [i \in 1..Len(t) |-> t[i]] \in [1..Len(t) -> Entries(t)]
  BY <1>3
<1>5. QED BY <1>1, <1>2, <1>4 DEF IsSequence

LEMMA Appending ==
  ASSUME NEW s, IsSequence(s), NEW e
  PROVE  /\ IsSequence(Append(s, e))
         /\ Len(Append(s, e)) = Len(s) + 1
         /\ \A i \in 1..Len(s) : Append(s, e)[i] = s[i]
         /\ Append(s, e)[Len(s) + 1] = e
<1> DEFINE S == Entries(s) \cup {e}
           t == Append(s, e)
<1>1. s \in Seq(S) /\ e \in S /\ Len(s) \in Nat
  <2>1. Len(s) \in Nat /\ s \in [1..Len(s) -> S]
    BY DEF IsSequence
  <2>2. QED BY <2>1
<1> HIDE DEF S
<1>2. /\ t \in Seq(S) /\ Len(t) = Len(s) + 1
      /\ \A i \in 1..Len(s) : t[i] = s[i]
      /\ t[Len(s) + 1] = e
  BY <1>1, AppendProperties
<1>3. IsSequence(t)
  BY <1>2, SequenceOf
<1>4. QED BY <1>2, <1>3

LEMMA Cutting ==
  ASSUME NEW s, IsSequence(s), NEW n \in 0..Len(s)
  PROVE  /\ IsSequence(SubSeq(s, 1, n))
         /\ Len(SubSeq(s, 1, n)) = n
         /\ \A i \in 1..n : SubSeq(s, 1, n)[i] = s[i]
<1> DEFINE t == SubSeq(s, 1, n)
<1>1. s \in Seq(Entries(s)) /\ Len(s) \in Nat
  BY DEF IsSequence
<1>2. t \in Seq(Entries(s)) /\ Len(t) = n /\ \A i \in 1..n : t[i] = s[i]
  BY <1>1, SubSeqProperties
<1>3. IsSequence(t)
  BY <1>2, SequenceOf
<1>4. QED BY <1>2, <1>3

LEMMA CutLedger ==
  ASSUME NEW s, IsSequence(s), Numbered(s), Filled(s), NEW t, IsSequence(t),
         Len(t) <= Len(s), \A i \in 1..Len(t) : t[i] = s[i]
  PROVE  Numbered(t) /\ Filled(t)
<1>1. DOMAIN s = 1..Len(s) /\ DOMAIN t = 1..Len(t) /\ Len(s) \in Nat /\ Len(t) \in Nat
  BY DEF IsSequence
<1>2. \A a : \A m \in Int : m <= Len(t) => Of(t, a, m) = Of(s, a, m) /\ Numb(t, a, m) = Numb(s, a, m)
  BY <1>1, CountPrefix
<1>3. ASSUME NEW i \in TxAt(t)
      PROVE  /\ t[i].account = t[i].tx.sender_address
             /\ t[i].tx.nonce = Numb(t, t[i].account, i - 1)
  <2>1. i \in TxAt(s) /\ i \in 1..Len(t) /\ t[i] = s[i]
    BY <1>1, <1>3 DEF TxAt
  <2>2. Numb(t, t[i].account, i - 1) = Numb(s, t[i].account, i - 1)
    BY <1>1, <1>2, <2>1
  <2>3. QED BY <2>1, <2>2 DEF Numbered
<1>4. ASSUME NEW a \in DOMAIN Owner, NEW n \in 0..Len(t), NEW k \in 0..Numb(t, a, n) - 1
      PROVE  \E i \in Of(t, a, n) : t[i].tx.nonce = k
  <2>1. n \in 0..Len(s) /\ Of(t, a, n) = Of(s, a, n) /\ Numb(t, a, n) = Numb(s, a, n)
    BY <1>1, <1>2
  <2>2. PICK i \in Of(s, a, n) : s[i].tx.nonce = k
    BY <2>1, <1>4 DEF Filled
  <2>3. i \in Of(t, a, n) /\ i \in 1..Len(t)
    BY <1>1, <2>1, <2>2 DEF Of, TxAt
  <2>4. QED BY <2>2, <2>3
<1>5. QED BY <1>3, <1>4 DEF Numbered, Filled

\* An entry is added: an outside execution, or a transaction with the account's nonce.
LEMMA ExtendedLedger ==
  ASSUME NEW s, IsSequence(s), Numbered(s), Filled(s), NEW e,
         "tx" \in DOMAIN e => /\ e.account = e.tx.sender_address
                              /\ e.tx.nonce = Numb(s, e.account, Len(s))
  PROVE  Numbered(Append(s, e)) /\ Filled(Append(s, e))
<1> DEFINE t == Append(s, e)
           l == Len(s)
<1>1. /\ IsSequence(t) /\ Len(t) = l + 1 /\ l \in Nat
      /\ \A i \in 1..l : t[i] = s[i]
      /\ t[l + 1] = e
  BY Appending DEF IsSequence
<1>2. DOMAIN s = 1..l /\ DOMAIN t = 1..l + 1
  BY <1>1 DEF IsSequence
<1> HIDE DEF t
<1>3. \A a : \A m \in Int : m <= l => Of(t, a, m) = Of(s, a, m) /\ Numb(t, a, m) = Numb(s, a, m)
  BY <1>1, CountPrefix
<1> HIDE DEF l
<1>4. ASSUME NEW i \in TxAt(t)
      PROVE  /\ t[i].account = t[i].tx.sender_address
             /\ t[i].tx.nonce = Numb(t, t[i].account, i - 1)
  <2>1. i \in 1..l + 1 /\ i - 1 \in Int /\ i - 1 <= l
    BY <1>1, <1>2 DEF TxAt
  <2>2. Numb(t, t[i].account, i - 1) = Numb(s, t[i].account, i - 1)
    BY <1>3, <2>1
  <2>3. CASE i = l + 1
    BY <1>1, <1>4, <2>2, <2>3 DEF TxAt, l
  <2>4. CASE i \in 1..l
    <3>1. i \in TxAt(s) /\ t[i] = s[i]
      BY <1>1, <1>2, <1>4, <2>4 DEF TxAt
    <3>2. QED BY <2>2, <3>1 DEF Numbered
  <2>5. QED BY <1>1, <2>1, <2>3, <2>4
<1>5. ASSUME NEW a \in DOMAIN Owner, NEW n \in 0..Len(t), NEW k \in 0..Numb(t, a, n) - 1
      PROVE  \E i \in Of(t, a, n) : t[i].tx.nonce = k
  <2>1. ASSUME NEW m \in 0..l, k \in 0..Numb(s, a, m) - 1, Of(s, a, m) \subseteq Of(t, a, n)
        PROVE  \E i \in Of(t, a, n) : t[i].tx.nonce = k
    <3>1. PICK i \in Of(s, a, m) : s[i].tx.nonce = k
      BY <2>1 DEF Filled, l
    <3>2. i \in 1..l
      BY <1>2, <3>1 DEF Of, TxAt
    <3>3. QED BY <1>1, <2>1, <3>1, <3>2
  <2>2. CASE n \in 0..l
    BY <1>1, <1>3, <1>5, <2>1, <2>2
  <2>3. CASE n = l + 1 /\ ~(n \in TxAt(t) /\ t[n].account = a)
    <3>1. Of(t, a, n) = Of(t, a, l) /\ Numb(t, a, n) = Numb(t, a, l)
      <4>1. n \in 1..Len(t) /\ n - 1 = l
        BY <1>1, <2>3
      <4>2. QED BY <1>1, <2>3, <4>1, CountSkips DEF Numb
    <3>2. Of(t, a, l) = Of(s, a, l) /\ Numb(t, a, l) = Numb(s, a, l) /\ l \in 0..l
      BY <1>1, <1>3
    <3>3. QED BY <1>5, <2>1, <3>1, <3>2
  <2>4. CASE n = l + 1 /\ n \in TxAt(t) /\ t[n].account = a
    <3>1. Numb(t, a, n) = Numb(t, a, n - 1) + 1 /\ n - 1 = l
      BY <1>1, <2>4, CountNext
    <3>2. Of(t, a, l) = Of(s, a, l) /\ Numb(t, a, l) = Numb(s, a, l) /\ Numb(s, a, l) \in Nat
      BY <1>1, <1>3, CountFinite
    <3>3. Of(t, a, l) \subseteq Of(t, a, n) /\ n \in Of(t, a, n)
      BY <1>1, <1>2, <2>4 DEF Of, TxAt
    <3>4. t[n].tx.nonce = Numb(s, a, l)
      BY <1>1, <1>4, <2>4, <3>1, <3>2
    <3>5. CASE k = Numb(s, a, l)
      BY <3>3, <3>4, <3>5
    <3>6. CASE k \in 0..Numb(s, a, l) - 1
      BY <1>1, <2>1, <3>2, <3>3, <3>6
    <3>7. QED BY <1>5, <3>1, <3>2, <3>5, <3>6
  <2>5. QED BY <1>1, <1>2, <2>2, <2>3, <2>4
<1>6. QED BY <1>4, <1>5 DEF Numbered, Filled, t

-----------------------------------------------------------------------------
\* The state.

LEMMA CountIsNonce ==
  /\ \A account : \A n : NonceAfter(account, n) = Numb(ledger, account, n)
  /\ Transactions = TxAt(ledger)
BY DEF NonceAfter, Transactions, Numb, Of, TxAt

LEMMA InitIInv == Init => IInv
<1> SUFFICES ASSUME Init PROVE IInv
  OBVIOUS
<1>1. /\ ledger = <<>> /\ Len(ledger) = 0 /\ DOMAIN ledger = {} /\ mempool = {} /\ sealed = 0
      /\ DOMAIN run = Runs /\ \A r \in Runs : run[r] = [phase |-> "idle"]
  BY DEF Init, Idle
<1>2. IsSequence(ledger)
  <2>1. ledger \in Seq({})
    BY <1>1
  <2>2. QED BY <2>1, SequenceOf
<1>3. TxAt(ledger) = {} /\ Txs = {}
  BY <1>1 DEF TxAt, Txs, Included, Transactions
<1>4. Filled(ledger)
  <2>1. \A a : \A n : Of(ledger, a, n) = {}
    BY <1>3 DEF Of
  <2>2. \A a : \A n : Numb(ledger, a, n) = 0
    BY <2>1, FS_EmptySet DEF Numb
  <2>3. QED BY <2>2 DEF Filled
<1>5. \A r \in Runs : NonceExplained(run[r], Txs)
  BY <1>1 DEF NonceExplained
<1>6. QED BY <1>1, <1>2, <1>3, <1>4, <1>5 DEF IInv, Numbered, NoncesUnique

\* A state a run was in stays explained while no transaction is lost.
LEMMA ExplainedStays ==
  ASSUME NEW state, NEW txs, NEW more, txs \subseteq more, NonceExplained(state, txs)
  PROVE  NonceExplained(state, more)
BY DEF NonceExplained

\* A run's step, neither the node's nor a transaction's: the new state alone is to explain.
LEMMA RunStep ==
  ASSUME IInv, NEW r \in Runs, NEW state, Goes(r, state), UNCHANGED <<mempool, ledger, sealed>>,
         NonceExplained(state, Txs)
  PROVE  IInv'
<1>1. Txs' = Txs
  BY DEF Txs, Included, Transactions
<1>2. DOMAIN run' = Runs
  BY DEF IInv, Goes
<1>3. \A q \in Runs : NonceExplained(run'[q], Txs)
  BY <1>2 DEF IInv, Goes
<1>4. QED BY <1>1, <1>2, <1>3 DEF IInv, NoncesUnique

\* The nonce the node answers is explained by what it has included.
LEMMA SendingExplained ==
  ASSUME IInv, NEW args, args.account \in DOMAIN Owner
  PROVE  NonceExplained(Sending(args, get_nonce(args.account)), Txs)
<1> DEFINE a == args.account
           n == get_nonce(a)
           tx == build_invoke_v3(args, n)
           state == Sending(args, n)
<1>1. n = Numb(ledger, a, Len(ledger)) /\ Transactions = TxAt(ledger)
  BY CountIsNonce DEF get_nonce
<1>2. n \in Nat /\ Len(ledger) \in Nat /\ DOMAIN ledger = 1..Len(ledger)
  BY <1>1, CountFinite DEF IInv, IsSequence
<1>3. tx.nonce = n /\ tx.sender_address = a
  BY DEF build_invoke_v3
<1>4. /\ state.tx = tx /\ state.seen = Included
      /\ DOMAIN state = {"phase", "args", "tx", "seen"}
  BY DEF Sending
<1> HIDE DEF n, tx, state
<1>5. ASSUME NEW k \in 0..n - 1
      PROVE  \E t \in Txs : t \in Included /\ t.sender_address = a /\ t.nonce = k
  <2>1. PICK i \in Of(ledger, a, Len(ledger)) : ledger[i].tx.nonce = k
    BY <1>1, <1>2 DEF IInv, Filled
  <2>2. i \in Transactions /\ ledger[i].account = a
    BY <1>1 DEF Of
  <2>3. ledger[i].tx \in Included /\ ledger[i].tx \in Txs
    BY <2>2 DEF Included, Txs
  <2>4. ledger[i].tx.sender_address = a
    BY <1>1, <2>2 DEF IInv, Numbered
  <2>5. QED BY <2>1, <2>3, <2>4
<1>6. NonceExplained(state, Txs)
  <2>1. {"phase", "tx", "seen"} \subseteq DOMAIN state
    BY <1>4
  <2>2. state.tx.nonce \in Nat
    BY <1>2, <1>3, <1>4
  <2>3. \A k \in 0..state.tx.nonce - 1 : \E t \in Txs :
          t \in state.seen /\ t.sender_address = state.tx.sender_address /\ t.nonce = k
    BY <1>3, <1>4, <1>5
  <2>4. QED BY <2>1, <2>2, <2>3 DEF NonceExplained
<1>7. QED BY <1>6 DEF state, n

LEMMA PrintsEfoIInv ==
  ASSUME IInv, NEW r \in Runs, NEW options \in CommandLines, PrintsEfo(r, options)
  PROVE  IInv'
<1>1. PICK state : /\ Goes(r, state)
                   /\ "phase" \in DOMAIN state /\ state.phase # "sending" /\ "tx" \notin DOMAIN state
  BY DEF PrintsEfo
<1>2. NonceExplained(state, Txs)
  BY <1>1 DEF NonceExplained
<1>3. QED BY <1>1, <1>2, RunStep DEF PrintsEfo

LEMMA StartsIInv ==
  ASSUME IInv, NEW r \in Runs, NEW options \in CommandLines, Starts(r, options)
  PROVE  IInv'
<1> DEFINE state == [phase |-> "get_nonce", args |-> parse_args(options)]
<1>1. Goes(r, state)
  BY DEF Starts
<1>2. NonceExplained(state, Txs)
  BY DEF NonceExplained
<1> HIDE DEF state
<1>3. QED BY <1>1, <1>2, RunStep DEF Starts

LEMMA SignsIInv ==
  ASSUME IInv, NEW r \in Runs, Signs(r)
  PROVE  IInv'
<1> DEFINE args == run[r].args
<1>1. args.account \in DOMAIN Owner /\ UNCHANGED <<mempool, ledger, sealed>>
  BY DEF Signs
<1>2. \/ Goes(r, [phase |-> "failed", args |-> args])
      \/ Goes(r, [phase |-> "done", args |-> args])
      \/ Goes(r, Sending(args, get_nonce(args.account)))
  BY DEF Signs
<1> HIDE DEF args
<1>3. /\ NonceExplained([phase |-> "failed", args |-> args], Txs)
      /\ NonceExplained([phase |-> "done", args |-> args], Txs)
  BY DEF NonceExplained
<1>4. NonceExplained(Sending(args, get_nonce(args.account)), Txs)
  BY <1>1, SendingExplained
<1>5. QED BY <1>1, <1>2, <1>3, <1>4, RunStep

\* Another phase, the same transaction.
LEMMA PhaseExplained ==
  ASSUME IInv, NEW r \in Runs, NEW phase, phase = "sending" => run[r].phase = "sending"
  PROVE  NonceExplained([run[r] EXCEPT !.phase = phase], Txs)
<1>1. NonceExplained(run[r], Txs)
  BY DEF IInv
<1> DEFINE state == [run[r] EXCEPT !.phase = phase]
<1>2. DOMAIN state = DOMAIN run[r]
  OBVIOUS
<1>3. /\ "phase" \in DOMAIN run[r] => state.phase = phase
      /\ "tx" \in DOMAIN run[r] => state.tx = run[r].tx
      /\ "seen" \in DOMAIN run[r] => state.seen = run[r].seen
  OBVIOUS
<1> HIDE DEF state
<1>4. NonceExplained(state, Txs)
  BY <1>1, <1>2, <1>3 DEF NonceExplained
<1>5. QED BY <1>4 DEF state

LEMMA RunPhaseIInv ==
  ASSUME IInv, NEW r \in Runs, NodeRefuses(r) \/ Answered(r) \/ Fails(r)
  PROVE  IInv'
<1>1. PICK phase \in {"refused", "done", "failed"} : Goes(r, [run[r] EXCEPT !.phase = phase])
  BY DEF NodeRefuses, Answered, Fails
<1>2. NonceExplained([run[r] EXCEPT !.phase = phase], Txs)
  BY PhaseExplained
<1>3. UNCHANGED <<mempool, ledger, sealed>>
  BY DEF NodeRefuses, Answered, Fails
<1>4. QED BY <1>1, <1>2, <1>3, RunStep

\* An admitted transaction competes with none: those in the mempool have other nonces, those
\* included lower ones.
LEMMA NodeAdmitsIInv ==
  ASSUME IInv, NEW r \in Runs, NodeAdmits(r)
  PROVE  IInv'
<1> DEFINE tx == run[r].tx
<1>1. /\ "tx" \in DOMAIN run[r] /\ Admits(tx)
      /\ mempool' = mempool \cup {tx} /\ UNCHANGED <<ledger, sealed>>
  BY DEF NodeAdmits, IInv, NonceExplained
<1>2. PICK phase : /\ phase = "sending" => run[r].phase = "sending"
                   /\ Goes(r, [run[r] EXCEPT !.phase = phase])
  <2>1. Goes(r, [run[r] EXCEPT !.phase = IF @ = "sending" THEN "sent" ELSE @])
    BY DEF NodeAdmits
  <2>2. CASE run[r].phase = "sending"
    <3>1. Goes(r, [run[r] EXCEPT !.phase = "sent"])
      BY <2>1, <2>2
    <3>2. QED BY <3>1
  <2>3. CASE run[r].phase # "sending"
    <3>1. Goes(r, [run[r] EXCEPT !.phase = run[r].phase])
      BY <2>1, <2>3
    <3>2. QED BY <3>1, <2>3
  <2>4. QED BY <2>2, <2>3
<1>3. tx.nonce \in Nat
  BY <1>1 DEF IInv, NonceExplained
<1>4. Txs' = Txs \cup {tx}
  BY <1>1 DEF Txs, Included, Transactions
<1>5. ASSUME NEW t \in Txs, t.sender_address = tx.sender_address
      PROVE  t.nonce # tx.nonce
  <2>1. CASE t \in mempool
    BY <1>1, <1>5, <2>1 DEF Admits
  <2>2. CASE t \in Included
    <3>1. PICK i \in TxAt(ledger) : t = ledger[i].tx
      BY <2>2, CountIsNonce DEF Included
    <3>2. IsSequence(ledger) /\ Numbered(ledger) /\ Len(ledger) \in Nat
      BY DEF IInv, IsSequence
    <3>3. i \in Nat /\ i <= Len(ledger)
      BY <3>2 DEF TxAt, IsSequence
    <3>4. t.nonce \in Nat /\ t.nonce < Numb(ledger, t.sender_address, Len(ledger))
      BY <3>1, <3>2, <3>3, CountAbove
    <3>5. tx.nonce >= Numb(ledger, tx.sender_address, Len(ledger))
      BY <1>1, CountIsNonce DEF Admits
    <3>6. Numb(ledger, tx.sender_address, Len(ledger)) \in Nat
      BY <3>2, CountFinite
    <3>7. QED BY <1>3, <1>5, <3>4, <3>5, <3>6
  <2>3. QED BY <2>1, <2>2 DEF Txs
<1>6. NonceExplained([run[r] EXCEPT !.phase = phase], Txs)
  BY <1>2, PhaseExplained
<1>7. DOMAIN run' = Runs /\ \A q \in Runs : NonceExplained(run'[q], Txs)
  BY <1>2, <1>6 DEF IInv, Goes
<1>8. \A q \in Runs : NonceExplained(run'[q], Txs')
  BY <1>4, <1>7, ExplainedStays
<1> HIDE DEF tx
<1>9. (\A t \in Txs' : t.nonce \in Nat) /\ NoncesUnique'
  BY <1>3, <1>4, <1>5 DEF IInv, NoncesUnique
<1>10. QED BY <1>1, <1>7, <1>8, <1>9 DEF IInv

-----------------------------------------------------------------------------
\* The node's steps move transactions between the mempool and the ledger.

LEMMA NodeStep ==
  ASSUME IInv, UNCHANGED run, Txs' = Txs,
         IsSequence(ledger'), sealed' \in 0..Len(ledger'), Numbered(ledger'), Filled(ledger')
  PROVE  IInv'
BY DEF IInv, NoncesUnique

\* The ledger with one entry more, of either kind.
Grown(e) ==
  /\ IsSequence(ledger') /\ Len(ledger') = Len(ledger) + 1
  /\ \A i \in 1..Len(ledger) : ledger'[i] = ledger[i]
  /\ ledger'[Len(ledger) + 1] = e

LEMMA IncludesKeeps ==
  ASSUME IInv, NEW tx \in mempool, Includes(tx)
  PROVE  Grown([account |-> tx.sender_address, tx |-> tx]) /\ Txs' = Txs
<1> DEFINE e == [account |-> tx.sender_address, tx |-> tx]
           l == Len(ledger)
<1>1. IsSequence(ledger) /\ ledger' = Append(ledger, e) /\ mempool' = mempool \ {tx} /\ l \in Nat
  BY DEF Includes, IInv, IsSequence
<1>2. e.tx = tx /\ "tx" \in DOMAIN e
  OBVIOUS
<1> HIDE DEF e
<1>3. /\ IsSequence(ledger') /\ Len(ledger') = l + 1
      /\ \A i \in 1..l : ledger'[i] = ledger[i]
      /\ ledger'[l + 1] = e
  BY <1>1, Appending
<1>4. TxAt(ledger') = TxAt(ledger) \cup {l + 1}
  BY <1>1, <1>2, <1>3 DEF TxAt, IsSequence
<1>5. /\ Included = {ledger[i].tx : i \in TxAt(ledger)}
      /\ Included' = {ledger'[i].tx : i \in TxAt(ledger')}
  BY DEF Included, Transactions, TxAt
<1>6. Included' = Included \cup {tx}
  <2>1. TxAt(ledger) \subseteq 1..l
    BY <1>1 DEF TxAt, IsSequence
  <2>2. \A i \in TxAt(ledger) : ledger'[i].tx = ledger[i].tx
    BY <1>3, <2>1
  <2>3. ledger'[l + 1].tx = tx
    BY <1>2, <1>3
  <2>4. QED BY <1>4, <1>5, <2>2, <2>3
<1>7. QED BY <1>1, <1>3, <1>6 DEF Txs, Grown, e

LEMMA IncludesIInv ==
  ASSUME IInv, NEW tx \in mempool, Includes(tx)
  PROVE  IInv'
<1> DEFINE e == [account |-> tx.sender_address, tx |-> tx]
           l == Len(ledger)
<1>1. /\ IsSequence(ledger) /\ Numbered(ledger) /\ Filled(ledger)
      /\ ledger' = Append(ledger, e) /\ UNCHANGED <<run, sealed>>
      /\ l \in Nat /\ sealed \in 0..l
  BY DEF Includes, IInv, IsSequence
<1>2. e.account = tx.sender_address /\ e.tx = tx /\ "tx" \in DOMAIN e
  OBVIOUS
<1>3. tx.nonce = Numb(ledger, tx.sender_address, l)
  BY CountIsNonce DEF Includes
<1>4. IsSequence(ledger') /\ Len(ledger') = l + 1 /\ Txs' = Txs
  BY IncludesKeeps DEF Grown
<1> HIDE DEF e
<1>5. Numbered(ledger') /\ Filled(ledger')
  BY <1>1, <1>2, <1>3, ExtendedLedger
<1>6. QED BY <1>1, <1>4, <1>5, NodeStep

LEMMA SubmitsKeeps ==
  ASSUME IInv, NEW caller, NEW r, NEW account, Submits(caller, r, account)
  PROVE  Grown([account |-> account, efo |-> run[r].felts]) /\ Txs' = Txs
<1> DEFINE e == [account |-> account, efo |-> run[r].felts]
           l == Len(ledger)
<1>1. IsSequence(ledger) /\ ledger' = Append(ledger, e) /\ UNCHANGED mempool /\ l \in Nat
  BY DEF Submits, IInv, IsSequence
<1>2. "tx" \notin DOMAIN e
  OBVIOUS
<1> HIDE DEF e
<1>3. /\ IsSequence(ledger') /\ Len(ledger') = l + 1
      /\ \A i \in 1..l : ledger'[i] = ledger[i]
      /\ ledger'[l + 1] = e
  BY <1>1, Appending
<1>4. TxAt(ledger') = TxAt(ledger) /\ TxAt(ledger) \subseteq 1..l
  BY <1>1, <1>2, <1>3 DEF TxAt, IsSequence
<1>5. /\ Included = {ledger[i].tx : i \in TxAt(ledger)}
      /\ Included' = {ledger'[i].tx : i \in TxAt(ledger')}
  BY DEF Included, Transactions, TxAt
<1>6. QED BY <1>1, <1>3, <1>4, <1>5 DEF Txs, Grown, e

LEMMA SubmitsIInv ==
  ASSUME IInv, NEW caller \in Relayers, NEW r \in Runs, NEW account \in DOMAIN Owner,
         Submits(caller, r, account)
  PROVE  IInv'
<1> DEFINE e == [account |-> account, efo |-> run[r].felts]
           l == Len(ledger)
<1>1. /\ IsSequence(ledger) /\ Numbered(ledger) /\ Filled(ledger)
      /\ ledger' = Append(ledger, e) /\ UNCHANGED <<run, sealed>>
      /\ l \in Nat /\ sealed \in 0..l
  BY DEF Submits, IInv, IsSequence
<1>2. "tx" \notin DOMAIN e
  OBVIOUS
<1>3. IsSequence(ledger') /\ Len(ledger') = l + 1 /\ Txs' = Txs
  BY SubmitsKeeps DEF Grown
<1> HIDE DEF e
<1>4. Numbered(ledger') /\ Filled(ledger')
  BY <1>1, <1>2, ExtendedLedger
<1>5. QED BY <1>1, <1>3, <1>4, NodeStep

LEMMA SealsIInv ==
  ASSUME IInv, Seals
  PROVE  IInv'
<1>1. Txs' = Txs /\ UNCHANGED <<run, ledger>> /\ sealed' = Len(ledger) /\ Len(ledger) \in Nat
  BY DEF Seals, Txs, Included, Transactions, IInv, IsSequence
<1>2. QED BY <1>1, NodeStep DEF IInv

\* What was in the pending block goes back to the mempool.
LEMMA TakesBackKeeps ==
  ASSUME IInv, TakesBack
  PROVE  /\ IsSequence(ledger') /\ Len(ledger') = sealed
         /\ \A i \in 1..sealed : ledger'[i] = ledger[i]
         /\ Txs' = Txs
<1>1. /\ IsSequence(ledger) /\ ledger' = SubSeq(ledger, 1, sealed)
      /\ Len(ledger) \in Nat /\ sealed \in 0..Len(ledger)
      /\ mempool' = mempool \cup {ledger[i].tx : i \in {j \in TxAt(ledger) : j > sealed}}
  BY CountIsNonce DEF TakesBack, IInv, IsSequence
<1>2. /\ IsSequence(ledger') /\ Len(ledger') = sealed
      /\ \A i \in 1..sealed : ledger'[i] = ledger[i]
  BY <1>1, Cutting
<1>3. TxAt(ledger') = {i \in TxAt(ledger) : i <= sealed} /\ TxAt(ledger) \subseteq 1..Len(ledger)
  BY <1>1, <1>2 DEF TxAt, IsSequence
<1>4. /\ Included = {ledger[i].tx : i \in TxAt(ledger)}
      /\ Included' = {ledger'[i].tx : i \in TxAt(ledger')}
  BY DEF Included, Transactions, TxAt
<1>5. Txs' = Txs
  <2>1. \A i \in TxAt(ledger') : ledger'[i].tx = ledger[i].tx
    BY <1>2, <1>3
  <2>2. Included' = {ledger[i].tx : i \in {j \in TxAt(ledger) : j <= sealed}}
    BY <1>3, <1>4, <2>1
  <2>3. \A i \in TxAt(ledger) : i <= sealed \/ i > sealed
    BY <1>1, <1>3
  <2>4. QED BY <1>1, <1>4, <2>2, <2>3 DEF Txs
<1>6. QED BY <1>2, <1>5

LEMMA TakesBackIInv ==
  ASSUME IInv, TakesBack
  PROVE  IInv'
<1>1. /\ IsSequence(ledger) /\ Numbered(ledger) /\ Filled(ledger) /\ UNCHANGED <<run, sealed>>
      /\ Len(ledger) \in Nat /\ sealed \in 0..Len(ledger)
  BY DEF TakesBack, IInv, IsSequence
<1>2. /\ IsSequence(ledger') /\ Len(ledger') = sealed
      /\ \A i \in 1..sealed : ledger'[i] = ledger[i]
      /\ Txs' = Txs
  BY TakesBackKeeps
<1>3. Numbered(ledger') /\ Filled(ledger')
  <2>1. /\ IsSequence(ledger) /\ Numbered(ledger) /\ Filled(ledger) /\ IsSequence(ledger')
        /\ Len(ledger') <= Len(ledger)
        /\ \A i \in 1..Len(ledger') : ledger'[i] = ledger[i]
    BY <1>1, <1>2
  <2>2. QED BY <2>1, CutLedger
<1>4. QED BY <1>1, <1>2, <1>3, NodeStep

LEMMA StepIInv == IInv /\ [Next]_vars => IInv'
<1> SUFFICES ASSUME IInv, [Next]_vars PROVE IInv'
  OBVIOUS
<1>1. CASE \E r \in Runs, options \in CommandLines : PrintsEfo(r, options)
  BY <1>1, PrintsEfoIInv
<1>2. CASE \E r \in Runs, options \in CommandLines : Starts(r, options)
  BY <1>2, StartsIInv
<1>3. CASE \E r \in Runs : Signs(r)
  BY <1>3, SignsIInv
<1>4. CASE \E r \in Runs : NodeAdmits(r)
  BY <1>4, NodeAdmitsIInv
<1>5. CASE \E r \in Runs : NodeRefuses(r) \/ Answered(r) \/ Fails(r)
  BY <1>5, RunPhaseIInv
<1>6. CASE \E tx \in mempool : Includes(tx)
  BY <1>6, IncludesIInv
<1>7. CASE \E caller \in Relayers, r \in Runs, account \in DOMAIN Owner : Submits(caller, r, account)
  BY <1>7, SubmitsIInv
<1>8. CASE Seals
  BY <1>8, SealsIInv
<1>9. CASE TakesBack
  BY <1>9, TakesBackIInv
<1>10. CASE Tick \/ UNCHANGED vars
  <2>1. UNCHANGED <<run, mempool, ledger, sealed>>
    BY <1>10 DEF Tick, vars
  <2>2. Txs' = Txs
    BY <2>1 DEF Txs, Included, Transactions
  <2>3. QED BY <2>1, <2>2, NodeStep DEF IInv
<1>11. QED
  BY <1>1, <1>2, <1>3, <1>4, <1>5, <1>6, <1>7, <1>8, <1>9, <1>10 DEF Next

-----------------------------------------------------------------------------
\* A nonce below that of an included transaction was taken by what the run had seen, and
\* only one transaction ever has it.
LEMMA IInvExcludes == IInv => RetryExcluded
<1> SUFFICES ASSUME IInv, NEW i \in Transactions, NEW j \in Transactions, NEW r \in Runs,
                    i < j, ledger[i].account = ledger[j].account,
                    "tx" \in DOMAIN run[r], run[r].tx = ledger[j].tx
             PROVE  ledger[i].tx \in run[r].seen
  BY DEF RetryExcluded
<1> DEFINE t == ledger[i].tx
           u == ledger[j].tx
<1>1. i \in TxAt(ledger) /\ j \in TxAt(ledger) /\ IsSequence(ledger) /\ Numbered(ledger)
  BY CountIsNonce DEF IInv
<1>2. i \in Int /\ j \in Int /\ j - 1 \in Int /\ i <= j - 1
  BY <1>1 DEF TxAt, IsSequence
<1>3. t.nonce \in Nat /\ t.nonce < Numb(ledger, t.sender_address, j - 1)
  BY <1>1, <1>2, CountAbove
<1>4. /\ t.sender_address = u.sender_address
      /\ u.nonce = Numb(ledger, t.sender_address, j - 1)
  BY <1>1 DEF Numbered
<1>5. u.nonce \in Nat /\ t.nonce \in 0..u.nonce - 1
  BY <1>1, <1>3, <1>4, CountFinite
<1>6. PICK s \in Txs : s \in run[r].seen /\ s.sender_address = u.sender_address /\ s.nonce = t.nonce
  BY <1>5 DEF IInv, NonceExplained
<1>7. t \in Txs
  BY DEF Txs, Included
<1>8. s = t
  BY <1>4, <1>6, <1>7 DEF IInv, NoncesUnique
<1>9. QED BY <1>6, <1>8

\* For any number of runs: of two runs of send_tx.py for one account only one transaction is
\* executed, unless the later run read its nonce after the other's was included.
THEOREM RetriesExcluded == Spec => []RetryExcluded
<1>1. Init => IInv
  BY InitIInv
<1>2. IInv /\ [Next]_vars => IInv'
  BY StepIInv
<1>3. IInv => RetryExcluded
  BY IInvExcludes
<1>4. QED BY <1>1, <1>2, <1>3, PTL DEF Spec

-----------------------------------------------------------------------------
\* Calldata.  What serialize_calls_to_felts writes, and that DecodeCalls reads it back.
\* Both are recursive functions: g and h below stand for them.

Numbers == {Uint(n) : n \in Int}

First(calls) == <<Uint(Len(calls))>>
Extended(s, c) == s \o CallFelts(c)

IsUpto(g, calls, m) ==
  g = [n \in 0..m |-> IF n = 0 THEN First(calls) ELSE Extended(g[n - 1], calls[n])]

IsStart(h, felts, from, n) ==
  h = [k \in 1..n + 1 |-> IF k = 1 THEN from + 1 ELSE h[k - 1] + 3 + felts[h[k - 1] + 2].uint]

LEMMA UptoValue ==
  ASSUME NEW g, NEW calls, NEW m \in Nat, IsUpto(g, calls, m), NEW n \in 0..m
  PROVE  /\ n = 0 => g[n] = First(calls)
         /\ n # 0 => g[n] = Extended(g[n - 1], calls[n])
<1>1. g[n] = IF n = 0 THEN First(calls) ELSE Extended(g[n - 1], calls[n])
  BY DEF IsUpto
<1> QED  BY <1>1

LEMMA StartValue ==
  ASSUME NEW h, NEW felts, NEW from, NEW n \in Nat, IsStart(h, felts, from, n), NEW k \in 1..n + 1
  PROVE  /\ k = 1 => h[k] = from + 1
         /\ k # 1 => h[k] = h[k - 1] + 3 + felts[h[k - 1] + 2].uint
<1>1. h[k] = IF k = 1 THEN from + 1 ELSE h[k - 1] + 3 + felts[h[k - 1] + 2].uint
  BY DEF IsStart
<1> QED  BY <1>1

LEMMA UptoExists ==
  ASSUME NEW calls
  PROVE  \A m \in Nat : \E g : IsUpto(g, calls, m)
<1> DEFINE Good == {m \in Nat : \E g : IsUpto(g, calls, m)}
           first == First(calls)
<1>1. 0 \in Good
  <2>1. [n \in 0..0 |-> first] = [n \in 0..0 |-> IF n = 0 THEN first ELSE
                Extended([i \in 0..0 |-> first][n - 1], calls[n])]
    OBVIOUS
  <2>2. IsUpto([n \in 0..0 |-> first], calls, 0)
    BY <2>1 DEF IsUpto
  <2> QED  BY <2>2
<1>2. ASSUME NEW m \in Nat, m \in Good
      PROVE  m + 1 \in Good
  <2>1. PICK g : IsUpto(g, calls, m)
    BY <1>2
  <2> DEFINE G == [n \in 0..m + 1 |-> IF n = 0 THEN first ELSE Extended(g[n - 1], calls[n])]
  <2>2. ASSUME NEW k \in 0..m
        PROVE  G[k] = g[k]
    <3>1. k \in 0..m + 1
      OBVIOUS
    <3>2. G[k] = IF k = 0 THEN first ELSE Extended(g[k - 1], calls[k])
      BY <3>1
    <3> HIDE DEF G
    <3>3. /\ k = 0 => g[k] = first
          /\ k # 0 => g[k] = Extended(g[k - 1], calls[k])
      BY <2>1, UptoValue
    <3>4. CASE k = 0
      BY <3>2, <3>3, <3>4
    <3>5. CASE k # 0
      BY <3>2, <3>3, <3>5
    <3> QED  BY <3>4, <3>5
  <2>3. ASSUME NEW n \in 0..m + 1
        PROVE  G[n] = IF n = 0 THEN first ELSE Extended(G[n - 1], calls[n])
    <3>1. G[n] = IF n = 0 THEN first ELSE Extended(g[n - 1], calls[n])
      OBVIOUS
    <3>2. n # 0 => n - 1 \in 0..m
      OBVIOUS
    <3> HIDE DEF G
    <3> QED  BY <2>2, <3>1, <3>2
  <2>4. G = [n \in 0..m + 1 |-> G[n]]
    OBVIOUS
  <2>5. IsUpto(G, calls, m + 1)
    <3> HIDE DEF G
    <3> QED  BY <2>3, <2>4 DEF IsUpto
  <2> QED  BY <2>5
<1>3. \A m \in Nat : m \in Good
  <2> HIDE DEF Good
  <2> QED  BY <1>1, <1>2, SetNatInduction
<1> QED  BY <1>3

LEMMA StartExists ==
  ASSUME NEW felts, NEW from
  PROVE  \A n \in Nat : \E h : IsStart(h, felts, from, n)
<1> DEFINE Good == {n \in Nat : \E h : IsStart(h, felts, from, n)}
<1>1. 0 \in Good
  <2>1. IsStart([k \in 1..0 + 1 |-> from + 1], felts, from, 0)
    BY DEF IsStart
  <2> QED  BY <2>1
<1>2. ASSUME NEW n \in Nat, n \in Good
      PROVE  n + 1 \in Good
  <2>1. PICK h : IsStart(h, felts, from, n)
    BY <1>2
  <2> DEFINE H == [k \in 1..(n + 1) + 1 |->
                     IF k = 1 THEN from + 1 ELSE h[k - 1] + 3 + felts[h[k - 1] + 2].uint]
  <2>2. ASSUME NEW k \in 1..n + 1
        PROVE  H[k] = h[k]
    <3>1. k \in 1..(n + 1) + 1
      OBVIOUS
    <3>2. H[k] = IF k = 1 THEN from + 1 ELSE h[k - 1] + 3 + felts[h[k - 1] + 2].uint
      BY <3>1
    <3> HIDE DEF H
    <3> QED  BY <2>1, <3>2, StartValue
  <2>3. ASSUME NEW k \in 1..(n + 1) + 1
        PROVE  H[k] = IF k = 1 THEN from + 1 ELSE H[k - 1] + 3 + felts[H[k - 1] + 2].uint
    <3>1. H[k] = IF k = 1 THEN from + 1 ELSE h[k - 1] + 3 + felts[h[k - 1] + 2].uint
      OBVIOUS
    <3>2. k # 1 => k - 1 \in 1..n + 1
      OBVIOUS
    <3> HIDE DEF H
    <3> QED  BY <2>2, <3>1, <3>2
  <2>4. H = [k \in 1..(n + 1) + 1 |-> H[k]]
    OBVIOUS
  <2>5. IsStart(H, felts, from, n + 1)
    <3> HIDE DEF H
    <3> QED  BY <2>3, <2>4 DEF IsStart
  <2> QED  BY <2>5
<1>3. \A n \in Nat : n \in Good
  <2> HIDE DEF Good
  <2> QED  BY <1>1, <1>2, SetNatInduction
<1> QED  BY <1>3

\* A call written behind position p of s.
Written(s, p, c) ==
  /\ s[p + 1] = Uint(c.address) /\ s[p + 2] = Uint(c.selector) /\ s[p + 3] = Uint(Len(c.data))
  /\ \A j \in 1..Len(c.data) : s[p + 3 + j] = Uint(c.data[j])

\* It is still there where s is part of something longer.
LEMMA WrittenThere ==
  ASSUME NEW c \in JsonCall, NEW p \in Nat, NEW q \in Nat, NEW n \in Nat,
         p + 3 + Len(c.data) <= n, NEW s, NEW t, \A i \in 1..n : t[q + i] = s[i],
         Written(s, p, c)
  PROVE  Written(t, q + p, c)
<1> DEFINE d == Len(c.data)
<1>1. d \in Nat
  BY LenProperties DEF JsonCall
<1> HIDE DEF d
<1>2. ASSUME NEW i \in 1..3 + d
      PROVE  t[q + p + i] = s[p + i]
  <2>1. p + i \in 1..n /\ q + p + i = q + (p + i)
    <3>1. p + 3 + d <= n
      BY DEF d
    <3> QED  BY <1>1, <3>1
  <2> QED  BY <2>1
<1>3. 1 \in 1..3 + d /\ 2 \in 1..3 + d /\ 3 \in 1..3 + d
  BY <1>1
<1>4. ASSUME NEW j \in 1..d
      PROVE  t[q + p + 3 + j] = Uint(c.data[j])
  <2>1. 3 + j \in 1..3 + d /\ q + p + (3 + j) = q + p + 3 + j /\ p + (3 + j) = p + 3 + j
    BY <1>1
  <2>2. t[q + p + (3 + j)] = s[p + (3 + j)]
    BY <1>2, <2>1
  <2> QED  BY <2>1, <2>2 DEF Written, d
<1> QED  BY <1>2, <1>3, <1>4 DEF Written, d

LEMMA WrittenValues ==
  ASSUME NEW s, NEW p \in Nat, NEW c, Written(s, p, c)
  PROVE  /\ s[p + 1].uint = c.address /\ s[p + 2].uint = c.selector
         /\ s[p + 3].uint = Len(c.data)
         /\ \A i \in 1..Len(c.data) : s[p + 3 + i].uint = c.data[i]
<1>1. \A n : Uint(n).uint = n
  BY DEF Uint
<1>2. s[p + 1].uint = c.address /\ s[p + 2].uint = c.selector /\ s[p + 3].uint = Len(c.data)
  BY <1>1 DEF Written
<1>3. \A j \in 1..Len(c.data) : s[p + 3 + j].uint = c.data[j]
  BY <1>1 DEF Written
<1> QED  BY <1>2, <1>3

LEMMA Joined ==
  ASSUME NEW S, NEW s \in Seq(S), NEW t \in Seq(S), NEW m \in Nat, NEW n \in Nat, Len(s) = m, Len(t) = n
  PROVE  /\ s \o t \in Seq(S) /\ Len(s \o t) = m + n
         /\ \A i \in 1..m + n : (s \o t)[i] = IF i <= m THEN s[i] ELSE t[i - m]
BY ConcatProperties

LEMMA OneCall ==
  ASSUME NEW c \in JsonCall
  PROVE  /\ CallFelts(c) \in Seq(Numbers)
         /\ Len(c.data) \in Nat /\ Len(CallFelts(c)) = 3 + Len(c.data)
         /\ Written(CallFelts(c), 0, c)
<1> DEFINE a == Felts(<<c.address, c.selector, Len(c.data)>>)
           b == Felts(c.data)
           d == Len(c.data)
<1>1. c.address \in Int /\ c.selector \in Int /\ c.data \in Seq(Int) /\ d \in Nat
  BY LenProperties DEF JsonCall
<1>2. /\ a \in Seq(Numbers) /\ Len(a) = 3
      /\ a[1] = Uint(c.address) /\ a[2] = Uint(c.selector) /\ a[3] = Uint(d)
  <2>1. <<c.address, c.selector, d>> \in Seq(Int)
    BY <1>1
  <2>2. a = <<Uint(c.address), Uint(c.selector), Uint(d)>>
    BY <2>1 DEF Felts
  <2>3. Uint(c.address) \in Numbers /\ Uint(c.selector) \in Numbers /\ Uint(d) \in Numbers
    BY <1>1 DEF Numbers
  <2> HIDE DEF a
  <2> QED  BY <2>2, <2>3
<1>3. b \in Seq(Numbers) /\ Len(b) = d /\ \A j \in 1..d : b[j] = Uint(c.data[j])
  <2>1. DOMAIN c.data = 1..d
    BY <1>1, LenProperties
  <2>2. \A j \in 1..d : Uint(c.data[j]) \in Numbers
    BY <1>1, <2>1, ElementOfSeq DEF Numbers
  <2>3. b = [j \in 1..d |-> Uint(c.data[j])]
    BY <2>1 DEF Felts
  <2> HIDE DEF b, d
  <2>4. b \in [1..d -> Numbers]
    BY <2>2, <2>3
  <2>5. b \in Seq(Numbers)
    BY <1>1, <2>4
  <2> QED  BY <1>1, <2>3, <2>4, <2>5, LenProperties
<1>4. CallFelts(c) = a \o b
  BY DEF CallFelts
<1> HIDE DEF a, b, d
<1>5. /\ a \o b \in Seq(Numbers) /\ Len(a \o b) = 3 + d
      /\ \A i \in 1..3 + d : (a \o b)[i] = IF i <= 3 THEN a[i] ELSE b[i - 3]
  <2>1. /\ a \o b \in Seq(Numbers) /\ Len(a \o b) = Len(a) + Len(b)
        /\ \A i \in 1..Len(a) + Len(b) : (a \o b)[i] = IF i <= Len(a) THEN a[i] ELSE b[i - Len(a)]
    BY <1>2, <1>3, ConcatProperties
  <2> DEFINE ab == a \o b
  <2>2. /\ ab \in Seq(Numbers) /\ Len(ab) = Len(a) + Len(b)
        /\ \A i \in 1..Len(a) + Len(b) : ab[i] = IF i <= Len(a) THEN a[i] ELSE b[i - Len(a)]
    BY <2>1
  <2>3. Len(a) = 3 /\ Len(b) = d
    BY <1>2, <1>3
  <2> HIDE DEF ab
  <2>4. /\ ab \in Seq(Numbers) /\ Len(ab) = 3 + d
        /\ \A i \in 1..3 + d : ab[i] = IF i <= 3 THEN a[i] ELSE b[i - 3]
    BY <2>2, <2>3
  <2> QED  BY <2>4 DEF ab
<1>6. (a \o b)[1] = a[1] /\ (a \o b)[2] = a[2] /\ (a \o b)[3] = a[3]
  <2>1. 1 \in 1..3 + d /\ 2 \in 1..3 + d /\ 3 \in 1..3 + d
    BY <1>1
  <2> QED  BY <1>5, <2>1
<1>7. \A j \in 1..d : (a \o b)[3 + j] = b[j]
  <2>1. \A j \in 1..d : 3 + j \in 1..3 + d /\ ~(3 + j <= 3) /\ (3 + j) - 3 = j
    BY <1>1
  <2> QED  BY <1>5, <2>1
<1>8. Written(a \o b, 0, c)
  <2>1. 0 + 1 = 1 /\ 0 + 2 = 2 /\ 0 + 3 = 3
    OBVIOUS
  <2> QED  BY <1>2, <1>3, <1>6, <1>7, <2>1 DEF Written, d
<1> QED  BY <1>1, <1>4, <1>5, <1>8 DEF d

\* The m first calls are written one behind the other.
LaidOut(g, calls, m) ==
  /\ g[m] \in Seq(Numbers) /\ 1 <= Len(g[m]) /\ g[m][1] = Uint(Len(calls))
  /\ \A k \in 1..m : /\ Len(g[k]) = Len(g[k - 1]) + 3 + Len(calls[k].data)
                     /\ Len(g[k]) <= Len(g[m])
                     /\ Len(g[k - 1]) \in Nat
                     /\ Written(g[m], Len(g[k - 1]), calls[k])

LEMMA LaidOutBy ==
  ASSUME NEW calls \in Seq(JsonCall), NEW g, IsUpto(g, calls, Len(calls))
  PROVE  LaidOut(g, calls, Len(calls)) /\ Len(g[0]) = 1
<1> DEFINE L == Len(calls)
           Good == {m \in Nat : m <= L => LaidOut(g, calls, m)}
<1>0. L \in Nat /\ \A k \in 1..L : calls[k] \in JsonCall
  BY LenProperties, ElementOfSeq
<1>1. g[0] = <<Uint(L)>>
  <2>1. 0 \in 0..Len(calls) /\ Len(calls) \in Nat
    BY <1>0
  <2> QED  BY <2>1, UptoValue DEF First
<1>2. Len(g[0]) = 1 /\ g[0] \in Seq(Numbers) /\ g[0][1] = Uint(L)
  <2>1. Uint(L) \in Numbers
    BY <1>0 DEF Numbers
  <2> QED  BY <1>1, <2>1
<1>3. LaidOut(g, calls, 0)
  BY <1>2 DEF LaidOut
<1>4. ASSUME NEW m \in Nat, m + 1 <= L, LaidOut(g, calls, m)
      PROVE  LaidOut(g, calls, m + 1)
  <2> DEFINE c == calls[m + 1]
             s == g[m]
             f == CallFelts(c)
             l == Len(s)
             d == Len(c.data)
  <2>1. m + 1 \in 0..L /\ m + 1 \in 1..L /\ m + 1 # 0 /\ (m + 1) - 1 = m
    BY <1>0, <1>4
  <2>2. c \in JsonCall
    BY <1>0, <2>1
  <2>3. /\ f \in Seq(Numbers) /\ Len(f) = 3 + d /\ d \in Nat
        /\ Written(f, 0, c)
    BY <2>2, OneCall
  <2>4. g[m + 1] = s \o f
    <3>1. m + 1 \in 0..Len(calls) /\ Len(calls) \in Nat
      BY <1>0, <2>1
    <3>2. \A n \in 0..Len(calls) : n # 0 => g[n] = Extended(g[n - 1], calls[n])
      BY <3>1, UptoValue
    <3>3. g[m + 1] = Extended(g[m], calls[m + 1])
      BY <2>1, <3>1, <3>2
    <3> QED  BY <3>3 DEF Extended
  <2>5. s \in Seq(Numbers) /\ l \in Nat /\ 1 <= l
    BY <1>4, LenProperties DEF LaidOut
  <2> HIDE DEF s, f, l, d, c, L
  <2>6. /\ s \o f \in Seq(Numbers) /\ Len(s \o f) = l + (3 + d)
        /\ \A i \in 1..l + Len(f) : (s \o f)[i] = IF i <= l THEN s[i] ELSE f[i - l]
    BY <2>3, <2>5, Joined DEF l
  <2>7. \A i \in 1..l : (s \o f)[0 + i] = s[i]
    <3>1. \A i \in 1..l : i \in 1..l + Len(f) /\ i <= l /\ 0 + i = i
      BY <2>3, <2>5
    <3> QED  BY <2>6, <3>1
  <2>8. \A i \in 1..3 + d : (s \o f)[l + i] = f[i]
    <3>1. \A i \in 1..3 + d : l + i \in 1..l + Len(f) /\ ~(l + i <= l) /\ (l + i) - l = i
      BY <2>3, <2>5
    <3> QED  BY <2>6, <3>1
  <2>9. Written(s \o f, l, c)
    <3>1. 3 + d \in Nat /\ 0 + 3 + d <= 3 + d /\ l + 0 = l
      BY <2>3, <2>5
    <3>2. Written(s \o f, l + 0, c)
      BY <2>2, <2>3, <2>5, <2>8, <3>1, WrittenThere DEF d
    <3> QED  BY <3>1, <3>2
  <2>10. ASSUME NEW k \in 1..m
         PROVE  /\ Len(g[k]) = Len(g[k - 1]) + 3 + Len(calls[k].data)
                /\ Len(g[k]) <= Len(g[m + 1])
                /\ Len(g[k - 1]) \in Nat
                /\ Written(g[m + 1], Len(g[k - 1]), calls[k])
    <3> DEFINE p == Len(g[k - 1])
    <3>1. /\ Len(g[k]) = p + 3 + Len(calls[k].data) /\ Len(g[k]) <= l
          /\ p \in Nat /\ Written(s, p, calls[k])
      BY <1>4 DEF LaidOut, s, l
    <3>2. k \in 1..L
      BY <1>0, <1>4 DEF L
    <3>3. calls[k] \in JsonCall
      BY <1>0, <3>2 DEF L
    <3>4. Len(calls[k].data) \in Nat
      BY <3>3, OneCall
    <3> DEFINE e == Len(calls[k].data)
    <3>5. 0 \in Nat /\ p + 3 + e <= l /\ 0 + p = p
      <4>1. Len(g[k]) = p + 3 + e /\ p \in Nat /\ e \in Nat /\ Len(g[k]) <= l
        BY <3>1, <3>4
      <4> HIDE DEF p, e
      <4> QED  BY <4>1, <2>5
    <3> HIDE DEF p
    <3>6. Written(s \o f, 0 + p, calls[k])
      BY <2>5, <2>7, <3>1, <3>3, <3>5, WrittenThere
    <3>7. Len(g[k]) <= Len(g[m + 1])
      <4>1. Len(g[k]) = p + 3 + e /\ p \in Nat /\ e \in Nat /\ Len(g[k]) <= l
        BY <3>1, <3>4
      <4>2. Len(g[m + 1]) = l + (3 + d)
        BY <2>4, <2>6
      <4> HIDE DEF e
      <4> QED  BY <4>1, <4>2, <2>3, <2>5
    <3> QED  BY <2>4, <3>1, <3>5, <3>6, <3>7 DEF p
  <2>11. /\ Len(g[m + 1]) = Len(g[m]) + 3 + Len(calls[m + 1].data)
         /\ Len(g[m]) \in Nat
         /\ Written(g[m + 1], Len(g[m]), calls[m + 1])
    <3>1. l + (3 + d) = l + 3 + d
      BY <2>3, <2>5
    <3> QED  BY <2>4, <2>5, <2>6, <2>9, <3>1 DEF l, s, c, d
  <2>12. Len(g[m + 1]) \in Nat /\ 1 <= Len(g[m + 1])
    BY <2>3, <2>4, <2>5, <2>6
  <2>13. g[m + 1][1] = Uint(Len(calls))
    <3>1. 1 \in 1..l /\ 0 + 1 = 1
      BY <2>5
    <3>2. s[1] = Uint(Len(calls))
      BY <1>4 DEF LaidOut, s
    <3> QED  BY <2>4, <2>7, <3>1, <3>2
  <2>14. \A k \in 1..m + 1 : k \in 1..m \/ (k = m + 1 /\ k - 1 = m)
    OBVIOUS
  <2>15. g[m + 1] \in Seq(Numbers)
    BY <2>4, <2>6
  <2>16. ASSUME NEW k \in 1..m + 1
         PROVE  /\ Len(g[k]) = Len(g[k - 1]) + 3 + Len(calls[k].data)
                /\ Len(g[k]) <= Len(g[m + 1])
                /\ Len(g[k - 1]) \in Nat
                /\ Written(g[m + 1], Len(g[k - 1]), calls[k])
    <3>1. CASE k \in 1..m
      BY <2>10, <3>1
    <3>2. CASE k = m + 1 /\ k - 1 = m
      <4>1. g[k] = g[m + 1] /\ g[k - 1] = g[m] /\ calls[k] = calls[m + 1]
        BY <3>2
      <4>2. Len(g[m + 1]) <= Len(g[m + 1])
        BY <2>12
      <4> QED  BY <2>11, <4>1, <4>2
    <3> QED  BY <2>14, <3>1, <3>2
  <2> QED  BY <2>12, <2>13, <2>15, <2>16 DEF LaidOut
<1>5. \A m \in Nat : m \in Good
  <2>1. 0 \in Good
    BY <1>3
  <2>2. ASSUME NEW m \in Nat, m \in Good
        PROVE  m + 1 \in Good
    <3>1. m + 1 <= L => m <= L
      BY <1>0
    <3> QED  BY <1>4, <2>2, <3>1
  <2> HIDE DEF Good
  <2> QED  BY <2>1, <2>2, SetNatInduction
<1>6. LaidOut(g, calls, L)
  BY <1>0, <1>5
<1> QED  BY <1>2, <1>6

\* The choice that a recursive function is.
LEMMA SerializedBy ==
  ASSUME NEW calls, Len(calls) \in Nat
  PROVE  \E g : IsUpto(g, calls, Len(calls)) /\ serialize_calls_to_felts(calls) = g[Len(calls)]
<1> DEFINE g == CHOOSE f : IsUpto(f, calls, Len(calls))
<1>1. IsUpto(g, calls, Len(calls))
  BY UptoExists
<1>2. serialize_calls_to_felts(calls) = g[Len(calls)]
  BY DEF serialize_calls_to_felts, IsUpto, First, Extended
<1> HIDE DEF g
<1> QED  BY <1>1, <1>2

DecodedBy(h, felts, from) ==
  LET n == felts[from].uint
      CallAt(p) ==
        [to |-> felts[p].uint, selector |-> felts[p + 1].uint,
         calldata |-> [i \in 1..felts[p + 2].uint |-> felts[p + 2 + i].uint]]
  IN [calls |-> [k \in 1..n |-> CallAt(h[k])], next |-> h[n + 1]]

LEMMA DecodesBy ==
  ASSUME NEW felts, NEW from, felts[from].uint \in Nat
  PROVE  \E h : /\ IsStart(h, felts, from, felts[from].uint)
                /\ DecodeCalls(felts, from) = DecodedBy(h, felts, from)
<1> DEFINE h == CHOOSE f : IsStart(f, felts, from, felts[from].uint)
<1>1. IsStart(h, felts, from, felts[from].uint)
  BY StartExists
<1>2. DecodeCalls(felts, from) = DecodedBy(h, felts, from)
  BY DEF DecodeCalls, DecodedBy, IsStart
<1> HIDE DEF h
<1> QED  BY <1>1, <1>2

LEMMA Serialized ==
  ASSUME NEW calls \in Seq(JsonCall)
  PROVE  /\ serialize_calls_to_felts(calls) \in Seq(Numbers)
         /\ Len(serialize_calls_to_felts(calls)) \in Nat
<1>1. Len(calls) \in Nat
  BY LenProperties
<1>2. PICK g : IsUpto(g, calls, Len(calls)) /\ serialize_calls_to_felts(calls) = g[Len(calls)]
  BY <1>1, SerializedBy
<1>3. g[Len(calls)] \in Seq(Numbers)
  BY <1>2, LaidOutBy DEF LaidOut
<1> QED  BY <1>2, <1>3, LenProperties

\* Wherever the calls have been written, the account reads the calls that were to be written.
LEMMA ReadBack ==
  ASSUME NEW calls \in Seq(JsonCall), NEW felts, NEW q \in Nat,
         \A i \in 1..Len(serialize_calls_to_felts(calls)) :
           felts[q + i] = serialize_calls_to_felts(calls)[i]
  PROVE  /\ DecodeCalls(felts, q + 1).calls = canonical_calls(calls)
         /\ DecodeCalls(felts, q + 1).next = q + 1 + Len(serialize_calls_to_felts(calls))
<1> DEFINE L == Len(calls)
           from == q + 1
<1>0. L \in Nat /\ DOMAIN calls = 1..L /\ \A k \in 1..L : calls[k] \in JsonCall
  BY LenProperties, ElementOfSeq
<1>1. PICK g : IsUpto(g, calls, L) /\ serialize_calls_to_felts(calls) = g[L]
  BY <1>0, SerializedBy
<1> DEFINE s == g[L]
           l(k) == Len(g[k])
<1>2. LaidOut(g, calls, L) /\ Len(g[0]) = 1
  BY <1>1, LaidOutBy
<1>3. /\ s \in Seq(Numbers) /\ Len(s) \in Nat /\ 1 <= Len(s) /\ s[1] = Uint(L)
      /\ \A i \in 1..Len(s) : felts[q + i] = s[i]
  BY <1>1, <1>2, LenProperties DEF LaidOut
<1>4. felts[from] = Uint(L) /\ felts[from].uint = L
  BY <1>3 DEF Uint
<1>5. PICK h : IsStart(h, felts, from, L) /\ DecodeCalls(felts, from) = DecodedBy(h, felts, from)
  BY <1>0, <1>4, DecodesBy
<1>6. ASSUME NEW k \in 1..L
      PROVE  /\ l(k - 1) \in Nat /\ Len(calls[k].data) \in Nat
             /\ l(k) = l(k - 1) + 3 + Len(calls[k].data)
             /\ Written(felts, q + l(k - 1), calls[k])
  <2> DEFINE p == Len(g[k - 1])
             d == Len(calls[k].data)
  <2>1. /\ Len(g[k]) = p + 3 + d /\ Len(g[k]) <= Len(s)
        /\ p \in Nat /\ Written(s, p, calls[k])
    BY <1>2 DEF LaidOut
  <2>2. calls[k] \in JsonCall /\ d \in Nat
    BY <1>0, OneCall
  <2>3. p + 3 + Len(calls[k].data) <= Len(s)
    BY <2>1
  <2> HIDE DEF p, s
  <2>4. Written(felts, q + p, calls[k])
    BY <1>3, <2>1, <2>2, <2>3, WrittenThere
  <2> QED  BY <2>1, <2>2, <2>4 DEF p
<1> HIDE DEF s
<1>7. ASSUME NEW k \in 1..L
      PROVE  h[k] = from + l(k - 1) => h[k + 1] = from + l(k)
  <2> DEFINE p == l(k - 1)
             d == Len(calls[k].data)
  <2>1. k + 1 \in 1..L + 1 /\ k + 1 # 1 /\ (k + 1) - 1 = k
    BY <1>0
  <2>2. \A j \in 1..L + 1 : j # 1 => h[j] = h[j - 1] + 3 + felts[h[j - 1] + 2].uint
    BY <1>0, <1>5, StartValue
  <2>3. h[k + 1] = h[k] + 3 + felts[h[k] + 2].uint
    BY <2>1, <2>2
  <2>4. p \in Nat /\ d \in Nat /\ l(k) = p + 3 + d /\ felts[q + p + 3] = Uint(d)
    BY <1>6 DEF Written
  <2> HIDE DEF p, d, l
  <2>5. from + p + 2 = q + p + 3
    BY <2>4
  <2>6. h[k] = from + p => felts[h[k] + 2].uint = d
    BY <2>4, <2>5 DEF Uint
  <2>7. from + p + 3 + d = from + (p + 3 + d)
    BY <2>4
  <2> QED  BY <2>3, <2>4, <2>6, <2>7 DEF p
<1> DEFINE Good == {k \in Nat : k <= L => h[k + 1] = from + l(k)}
<1>8. \A k \in Nat : k \in Good
  <2>1. 0 \in Good
    <3>1. h[1] = from + 1
      <4>1. 1 \in 1..L + 1
        BY <1>0
      <4> QED  BY <1>0, <1>5, <4>1, StartValue
    <3>2. h[0 + 1] = from + l(0)
      <4>1. 0 + 1 = 1
        OBVIOUS
      <4> QED  BY <1>2, <3>1, <4>1
    <3> QED  BY <3>2
  <2>2. ASSUME NEW k \in Nat, k \in Good
        PROVE  k + 1 \in Good
    <3>1. k + 1 <= L => k <= L /\ k + 1 \in 1..L /\ (k + 1) - 1 = k
      BY <1>0
    <3> HIDE DEF l
    <3> QED  BY <1>7, <2>2, <3>1
  <2> HIDE DEF Good
  <2> QED  BY <2>1, <2>2, SetNatInduction
<1>9. h[L + 1] = from + Len(s)
  <2>1. L \in Good
    <3> HIDE DEF Good
    <3> QED  BY <1>0, <1>8
  <2>2. h[L + 1] = from + l(L)
    <3>1. L <= L
      BY <1>0
    <3> HIDE DEF l
    <3> QED  BY <2>1, <3>1
  <2> QED  BY <2>2 DEF s
<1> DEFINE CallAt(p) ==
        [to |-> felts[p].uint, selector |-> felts[p + 1].uint,
         calldata |-> [i \in 1..felts[p + 2].uint |-> felts[p + 2 + i].uint]]
<1>10. ASSUME NEW k \in 1..L
       PROVE  CallAt(h[k]) = normalize_call(calls[k])
  <2> DEFINE c == calls[k]
             d == Len(c.data)
             p == q + l(k - 1)
  <2>1. k - 1 \in Nat /\ k - 1 <= L /\ (k - 1) + 1 = k
    BY <1>0
  <2>2. h[k] = from + l(k - 1)
    BY <1>8, <2>1
  <2>3. l(k - 1) \in Nat /\ d \in Nat /\ Written(felts, p, c)
    BY <1>6
  <2>4. h[k] = p + 1 /\ p \in Nat
    <3> HIDE DEF l
    <3> QED  BY <2>2, <2>3
  <2>5. c.data \in Seq(Int) /\ c.data \in [1..d -> Int]
    BY <1>0, LenProperties DEF JsonCall
  <2>6. /\ felts[p + 1].uint = c.address /\ felts[p + 2].uint = c.selector
        /\ felts[p + 3].uint = d
        /\ \A i \in 1..d : felts[p + 3 + i].uint = c.data[i]
    <3> HIDE DEF p
    <3> QED  BY <2>3, <2>4, WrittenValues
  <2> HIDE DEF p, c, d
  <2>7. /\ h[k] + 1 = p + 2 /\ h[k] + 2 = p + 3
        /\ \A i \in 1..d : h[k] + 2 + i = p + 3 + i
    BY <2>3, <2>4
  <2>8. [i \in 1..d |-> felts[h[k] + 2 + i].uint] = c.data
    <3>1. \A i \in 1..d : felts[h[k] + 2 + i].uint = c.data[i]
      BY <2>6, <2>7
    <3>2. c.data = [i \in 1..d |-> c.data[i]]
      BY <2>5
    <3> QED  BY <3>1, <3>2
  <2>9. normalize_call(c) = [to |-> c.address, selector |-> c.selector, calldata |-> c.data]
    BY DEF normalize_call
  <2> QED  BY <2>4, <2>6, <2>7, <2>8, <2>9 DEF c
<1>11. DecodedBy(h, felts, from) = [calls |-> [k \in 1..L |-> CallAt(h[k])], next |-> h[L + 1]]
  BY <1>4 DEF DecodedBy
<1> HIDE DEF CallAt
<1>12. [k \in 1..L |-> CallAt(h[k])] = canonical_calls(calls)
  BY <1>0, <1>10 DEF canonical_calls
<1>13. DecodeCalls(felts, from) = [calls |-> canonical_calls(calls), next |-> from + Len(s)]
  BY <1>5, <1>9, <1>11, <1>12
<1>14. Len(s) = Len(serialize_calls_to_felts(calls))
  BY <1>1 DEF s
<1> QED  BY <1>13, <1>14

-----------------------------------------------------------------------------
\* Signatures.  The account computes the hash the script has signed.

LEMMA ChainNameReadBack ==
  ASSUME NEW chain \in DOMAIN ChainIds
  PROVE  felt_to_byte_array(ChainIds[chain]) = Text(chain)
BY KeccakAssumption DEF felt_to_byte_array

LEMMA AccountDomain ==
  ASSUME NEW chain \in DOMAIN ChainIds, NEW address, NEW evm
  PROVE  push_domain_separator(evm, ChainIds[chain], address) = domain_separator(chain, address, evm)
BY ChainNameReadBack DEF push_domain_separator, push_felt, contract_address_low,
   domain_separator, keccak_ints, to_bytes32, LowHalf

LEMMA AccountCalls ==
  ASSUME NEW calls
  PROVE  push_call_array(calls) = hash_call_array(calls)
<1>1. \A i \in DOMAIN calls : push_call(calls[i]) = hash_call(calls[i])
  BY DEF push_call, push_felt_array, push_felt, hash_call, hash_felt_array, keccak_ints, to_bytes32
<1> QED  BY <1>1 DEF push_call_array, hash_call_array

LEMMA AccountOutsideHash ==
  ASSUME NEW oe, NEW chain \in DOMAIN ChainIds, NEW address, NEW evm
  PROVE  get_outside_execution_hash(oe, evm, ChainIds[chain], address)
           = outside_execution_msg_hash(oe, chain, address, evm)
<1>1. push_outside_execution(oe) = hash_outside_execution(oe)
  BY AccountCalls DEF push_outside_execution, push_felt, hash_outside_execution,
     keccak_ints, to_bytes32
<1> QED  BY <1>1, AccountDomain DEF get_outside_execution_hash, outside_execution_msg_hash

LEMMA AccountTransactionHash ==
  ASSUME NEW calls, NEW metadata, NEW chain \in DOMAIN ChainIds, NEW address, NEW evm
  PROVE  get_transaction_hash(calls, metadata, evm, ChainIds[chain], address)
           = transaction_msg_hash(calls, metadata, chain, address, evm)
<1>1. push_metadata(metadata) = hash_transaction_metadata(metadata)
  BY DEF push_metadata, push_felt_array, push_felt, hash_transaction_metadata, hash_felt_array,
     keccak_ints, to_bytes32
<1>2. push_transaction(calls, metadata) = hash_transaction(calls, metadata)
  BY <1>1, AccountCalls DEF push_transaction, hash_transaction, keccak_ints
<1> QED  BY <1>2, AccountDomain DEF get_transaction_hash, transaction_msg_hash

\* Equal hashes were computed for one chain and one half of an address.
LEMMA SameChain ==
  ASSUME NEW m, NEW n, NEW a, NEW b, NEW e, NEW f
  PROVE  /\ \A o, p : outside_execution_msg_hash(o, m, a, e) = outside_execution_msg_hash(p, n, b, f)
              => m = n /\ LowHalf(a) = LowHalf(b)
         /\ \A c, d, x, y : transaction_msg_hash(c, x, m, a, e) = transaction_msg_hash(d, y, n, b, f)
              => m = n /\ LowHalf(a) = LowHalf(b)
<1>1. domain_separator(m, a, e) = domain_separator(n, b, f) => m = n /\ LowHalf(a) = LowHalf(b)
  BY DEF domain_separator, keccak_ints, keccak256, Text, to_bytes32, Uint
<1>2. ASSUME NEW o, NEW p,
             outside_execution_msg_hash(o, m, a, e) = outside_execution_msg_hash(p, n, b, f)
      PROVE  m = n /\ LowHalf(a) = LowHalf(b)
  <2>1. domain_separator(m, a, e) = domain_separator(n, b, f)
    BY <1>2 DEF outside_execution_msg_hash, keccak256
  <2> QED  BY <1>1, <2>1
<1>3. ASSUME NEW c, NEW d, NEW x, NEW y,
             transaction_msg_hash(c, x, m, a, e) = transaction_msg_hash(d, y, n, b, f)
      PROVE  m = n /\ LowHalf(a) = LowHalf(b)
  <2>1. domain_separator(m, a, e) = domain_separator(n, b, f)
    BY <1>3 DEF transaction_msg_hash, keccak256
  <2> QED  BY <1>1, <2>1
<1> QED  BY <1>2, <1>3

\* A signature is valid for its digest and its key.
LEMMA SignatureValid ==
  ASSUME NEW digest, NEW key, NEW evm, NEW hash, NEW owner
  PROVE  LET s == sign_and_split(digest, key, evm)
         IN /\ IsSignature(s)
            /\ EvmChainOf(s) = evm
            /\ is_valid_eth_signature(hash, s, owner) <=> hash = digest /\ owner = key
<1> DEFINE s == sign_and_split(digest, key, evm)
<1>1. /\ Len(s) = 6
      /\ s[1] = Part("r_high", key, digest) /\ s[2] = Part("r_low", key, digest)
      /\ s[3] = Part("s_high", key, digest) /\ s[4] = Part("s_low", key, digest)
      /\ s[5] = Uint(IF IsYOdd(key, digest) THEN 28 ELSE 27) /\ s[6] = Uint(evm)
  BY DEF sign_and_split
<1>2. IsSignature(s) /\ EvmChainOf(s) = evm
  BY <1>1 DEF IsSignature, EvmChainOf, Uint
<1>3. (s[5].uint % 2 = 0) = IsYOdd(key, digest)
  BY <1>1 DEF Uint, IsYOdd
<1> DEFINE sig == extract_signature(s)
<1>4. /\ sig.r = [high |-> Part("r_high", key, digest), low |-> Part("r_low", key, digest)]
      /\ sig.s = [high |-> Part("s_high", key, digest), low |-> Part("s_low", key, digest)]
      /\ sig.y_parity = IsYOdd(key, digest)
  BY <1>1, <1>3 DEF extract_signature
<1>5. ASSUME Recovers(hash, sig, owner) PROVE hash = digest /\ owner = key
  <2>1. [high |-> Part("r_high", key, digest), low |-> Part("r_low", key, digest)]
          = [high |-> Part("r_high", owner, hash), low |-> Part("r_low", owner, hash)]
    BY <1>4, <1>5 DEF Recovers
  <2>2. Part("r_high", key, digest) = Part("r_high", owner, hash)
    BY <2>1
  <2> QED  BY <2>2 DEF Part
<1>6. ASSUME hash = digest, owner = key PROVE Recovers(hash, sig, owner)
  BY <1>4, <1>6 DEF Recovers
<1> QED  BY <1>2, <1>5, <1>6 DEF is_valid_eth_signature

-----------------------------------------------------------------------------
\* What is written of calls that are felts are felts.

FeltCall(c) ==
  IsFelt(c.address) /\ IsFelt(c.selector) /\ \A j \in DOMAIN c.data : IsFelt(c.data[j])

FeltWords == {Uint(n) : n \in 0..FELT - 1}

LEMMA FeltCallFelts ==
  ASSUME NEW c \in JsonCall, FeltCall(c)
  PROVE  CallFelts(c) \in Seq(FeltWords)
<1> DEFINE a == Felts(<<c.address, c.selector, Len(c.data)>>)
           b == Felts(c.data)
           d == Len(c.data)
<1>1. c.data \in Seq(Int) /\ d \in Nat /\ IsFelt(d) /\ DOMAIN c.data = 1..d
  <2>1. c.data \in Seq(Int) /\ d < FELT
    BY DEF JsonCall
  <2>2. d \in Nat /\ DOMAIN c.data = 1..d
    BY <2>1, LenProperties
  <2> HIDE DEF d
  <2> QED  BY <2>1, <2>2, KeccakAssumption DEF IsFelt
<1>2. \A n : IsFelt(n) => Uint(n) \in FeltWords
  BY DEF IsFelt, FeltWords
<1>3. a \in Seq(FeltWords)
  <2>1. a = <<Uint(c.address), Uint(c.selector), Uint(d)>>
    BY DEF Felts
  <2>2. Uint(c.address) \in FeltWords /\ Uint(c.selector) \in FeltWords /\ Uint(d) \in FeltWords
    BY <1>1, <1>2 DEF FeltCall
  <2> HIDE DEF a
  <2> QED  BY <2>1, <2>2
<1>4. b \in Seq(FeltWords)
  <2>1. b = [j \in 1..d |-> Uint(c.data[j])]
    BY <1>1 DEF Felts
  <2>2. \A j \in 1..d : Uint(c.data[j]) \in FeltWords
    BY <1>1, <1>2 DEF FeltCall
  <2>3. b \in [1..d -> FeltWords]
    BY <2>1, <2>2
  <2> HIDE DEF b
  <2> QED  BY <1>1, <2>3
<1> HIDE DEF a, b
<1>5. a \o b \in Seq(FeltWords)
  BY <1>3, <1>4, ConcatProperties
<1> QED  BY <1>5 DEF CallFelts, a, b

LEMMA SerializedFelts ==
  ASSUME NEW calls \in Seq(JsonCall), Len(calls) < FELT, \A i \in 1..Len(calls) : FeltCall(calls[i])
  PROVE  AllFelts(serialize_calls_to_felts(calls))
<1> DEFINE L == Len(calls)
<1>1. L \in Nat /\ \A k \in 1..L : calls[k] \in JsonCall
  BY LenProperties, ElementOfSeq
<1>2. PICK g : IsUpto(g, calls, L) /\ serialize_calls_to_felts(calls) = g[L]
  BY <1>1, SerializedBy
<1> DEFINE Good == {m \in Nat : m <= L => g[m] \in Seq(FeltWords)}
<1>3. 0 \in Good
  <2>1. 0 \in 0..L
    BY <1>1
  <2>2. g[0] = First(calls)
    BY <1>1, <1>2, <2>1, UptoValue
  <2>3. Uint(L) \in FeltWords
    <3>1. L \in 0..FELT - 1
      BY <1>1, KeccakAssumption
    <3> HIDE DEF L
    <3> QED  BY <3>1 DEF FeltWords
  <2>4. <<Uint(L)>> \in Seq(FeltWords)
    BY <2>3
  <2> QED  BY <2>2, <2>4 DEF First
<1>4. ASSUME NEW m \in Nat, m \in Good
      PROVE  m + 1 \in Good
  <2> SUFFICES ASSUME m + 1 <= L PROVE g[m + 1] \in Seq(FeltWords)
    OBVIOUS
  <2>1. m + 1 \in 0..L /\ m + 1 \in 1..L /\ m + 1 # 0 /\ (m + 1) - 1 = m /\ m <= L
    BY <1>1
  <2>2. \A n \in 0..L : n # 0 => g[n] = Extended(g[n - 1], calls[n])
    BY <1>1, <1>2, UptoValue
  <2>3. g[m + 1] = Extended(g[m], calls[m + 1])
    BY <2>1, <2>2
  <2>4. CallFelts(calls[m + 1]) \in Seq(FeltWords)
    BY <1>1, <2>1, FeltCallFelts
  <2>5. g[m] \in Seq(FeltWords)
    BY <1>4, <2>1
  <2>6. g[m] \o CallFelts(calls[m + 1]) \in Seq(FeltWords)
    BY <2>4, <2>5, ConcatProperties
  <2> QED  BY <2>3, <2>6 DEF Extended
<1>5. \A m \in Nat : m \in Good
  <2> HIDE DEF Good
  <2> QED  BY <1>3, <1>4, SetNatInduction
<1>6. g[L] \in Seq(FeltWords)
  <2>1. L \in Good /\ L <= L
    BY <1>1, <1>5
  <2> QED  BY <2>1
<1>7. ASSUME NEW s \in Seq(FeltWords)
      PROVE  AllFelts(s)
  <2>1. \A i \in DOMAIN s : s[i] \in FeltWords
    BY LenProperties
  <2>2. \A w \in FeltWords : IsFelt(w.uint)
    BY DEF FeltWords, Uint, IsFelt
  <2> QED  BY <2>1, <2>2 DEF AllFelts
<1> QED  BY <1>2, <1>6, <1>7

-----------------------------------------------------------------------------
\* What --efo prints is read back as well.

Glued(s, t) == s \o t

InParts(x, s, t, S) ==
  /\ x \in Seq(S) /\ Len(x) = Len(s) + Len(t)
  /\ \A i \in 1..Len(s) : x[i] = s[i]
  /\ \A i \in 1..Len(t) : x[Len(s) + i] = t[i]

LEMMA GluedParts ==
  ASSUME NEW S, NEW s \in Seq(S), NEW t \in Seq(S)
  PROVE  InParts(Glued(s, t), s, t, S)
<1> DEFINE st == s \o t
           m == Len(s)
           n == Len(t)
<1>1. /\ st \in Seq(S) /\ Len(st) = m + n
      /\ \A i \in 1..m + n : st[i] = IF i <= m THEN s[i] ELSE t[i - m]
  BY ConcatProperties
<1>2. m \in Nat /\ n \in Nat
  BY LenProperties
<1> HIDE DEF st, m, n
<1>3. ASSUME NEW i \in 1..m
      PROVE  st[i] = s[i]
  BY <1>1, <1>2
<1>4. ASSUME NEW i \in 1..n
      PROVE  st[m + i] = t[i]
  <2>1. m + i \in 1..m + n /\ ~(m + i <= m) /\ (m + i) - m = i
    BY <1>2
  <2> QED  BY <1>1, <2>1
<1> QED  BY <1>1, <1>3, <1>4 DEF InParts, Glued, st, m, n

Header(oe) == Felts(<<oe.caller, oe.nonce, oe.execute_after, oe.execute_before>>)

LEMMA PrintedReadBack ==
  ASSUME NEW oe, NEW calls \in Seq(JsonCall), NEW S, NEW signature \in Seq(S), Len(signature) = 6
  PROVE  LET d == DecodeOutsideExecution(serialize_efo_calldata(oe, calls, signature))
         IN /\ d.oe = [caller |-> oe.caller, nonce |-> oe.nonce,
                       execute_after |-> oe.execute_after, execute_before |-> oe.execute_before,
                       calls |-> canonical_calls(calls)]
            /\ d.signature = signature
<1> DEFINE a == Header(oe)
           s == serialize_calls_to_felts(calls)
           l == <<Uint(Len(signature))>>
           b == Len(s)
           T == {a[1], a[2], a[3], a[4]} \cup Numbers \cup S
           as == Glued(a, s)
           asl == Glued(as, l)
           f == Glued(asl, signature)
<1>1. serialize_efo_calldata(oe, calls, signature) = f
  BY DEF serialize_efo_calldata, Glued, Header
<1>2. /\ a[1] = Uint(oe.caller) /\ a[2] = Uint(oe.nonce)
      /\ a[3] = Uint(oe.execute_after) /\ a[4] = Uint(oe.execute_before)
      /\ a \in Seq(T) /\ Len(a) = 4
  <2>1. a = <<Uint(oe.caller), Uint(oe.nonce), Uint(oe.execute_after), Uint(oe.execute_before)>>
    BY DEF Header, Felts
  <2> HIDE DEF a
  <2>2. /\ a[1] = Uint(oe.caller) /\ a[2] = Uint(oe.nonce)
        /\ a[3] = Uint(oe.execute_after) /\ a[4] = Uint(oe.execute_before)
    BY <2>1
  <2>3. Uint(oe.caller) \in T /\ Uint(oe.nonce) \in T /\ Uint(oe.execute_after) \in T /\ Uint(oe.execute_before) \in T
    BY <2>2
  <2> HIDE DEF T
  <2>4. <<Uint(oe.caller), Uint(oe.nonce), Uint(oe.execute_after), Uint(oe.execute_before)>> \in Seq(T)
    BY <2>3
  <2> QED  BY <2>1, <2>2, <2>4
<1>3. s \in Seq(T) /\ b \in Nat /\ Len(s) = b
  <2>1. s \in Seq(Numbers) /\ b \in Nat
    BY Serialized
  <2>2. Numbers \subseteq T
    OBVIOUS
  <2> HIDE DEF s, T
  <2> QED  BY <2>1, <2>2
<1>4. l \in Seq(T) /\ Len(l) = 1 /\ l[1] = Uint(6)
  <2>1. Uint(6) \in T
    BY DEF Numbers
  <2> HIDE DEF T
  <2> QED  BY <2>1
<1>5. signature \in Seq(T)
  <2>1. S \subseteq T
    OBVIOUS
  <2> HIDE DEF T
  <2> QED  BY <2>1
<1> HIDE DEF a, s, l, T, b
<1>6. /\ as \in Seq(T) /\ Len(as) = 4 + b
      /\ \A i \in 1..4 : as[i] = a[i]
      /\ \A i \in 1..b : as[4 + i] = s[i]
  <2>0. a \in Seq(T) /\ s \in Seq(T)
    BY <1>2, <1>3
  <2>1. InParts(as, a, s, T)
    BY <2>0, GluedParts
  <2> HIDE DEF as
  <2> QED  BY <2>1, <1>2, <1>3 DEF InParts
<1> HIDE DEF as
<1>7. 4 + b \in Nat /\ 4 + b + 1 \in Nat
  BY <1>3
<1>8. /\ asl \in Seq(T) /\ Len(asl) = 4 + b + 1
      /\ \A i \in 1..4 + b : asl[i] = as[i]
      /\ \A i \in 1..1 : asl[4 + b + i] = l[i]
  <2>0. as \in Seq(T) /\ l \in Seq(T)
    BY <1>4, <1>6
  <2>1. InParts(asl, as, l, T)
    BY <2>0, GluedParts
  <2> HIDE DEF asl
  <2> QED  BY <2>1, <1>4, <1>6 DEF InParts
<1> HIDE DEF asl
<1>9. /\ f \in Seq(T) /\ Len(f) = 4 + b + 1 + 6
      /\ \A i \in 1..4 + b + 1 : f[i] = asl[i]
      /\ \A i \in 1..6 : f[4 + b + 1 + i] = signature[i]
  <2>0. asl \in Seq(T) /\ signature \in Seq(T)
    BY <1>5, <1>8
  <2>1. InParts(f, asl, signature, T)
    BY <2>0, GluedParts
  <2> HIDE DEF f
  <2> QED  BY <2>1, <1>5, <1>8 DEF InParts
<1> HIDE DEF f
<1>10. \A i \in 1..4 : f[i] = a[i]
  <2>1. \A i \in 1..4 : i \in 1..4 + b /\ i \in 1..4 + b + 1
    BY <1>3
  <2> QED  BY <1>6, <1>8, <1>9, <2>1
<1>11. \A i \in 1..b : f[4 + i] = s[i]
  <2> TAKE i \in 1..b
  <2>1. 4 + i \in 1..4 + b /\ 4 + i \in 1..4 + b + 1
    BY <1>3
  <2>2. f[4 + i] = asl[4 + i] /\ asl[4 + i] = as[4 + i] /\ as[4 + i] = s[i]
    BY <1>6, <1>8, <1>9, <2>1
  <2> QED  BY <2>2
<1>12. f[4 + b + 1] = Uint(6)
  <2>1. 4 + b + 1 \in 1..4 + b + 1 /\ 1 \in 1..1
    BY <1>3
  <2> QED  BY <1>4, <1>8, <1>9, <2>1
<1> DEFINE decoded == DecodeCalls(f, 5)
<1>13. decoded.calls = canonical_calls(calls) /\ decoded.next = 4 + b + 1
  <2>1. 4 + 1 = 5 /\ 4 + 1 + b = 4 + b + 1 /\ 4 \in Nat
    BY <1>3
  <2>2. \A i \in 1..Len(serialize_calls_to_felts(calls)) : f[4 + i] = serialize_calls_to_felts(calls)[i]
    BY <1>11 DEF s, b
  <2>3. /\ DecodeCalls(f, 4 + 1).calls = canonical_calls(calls)
        /\ DecodeCalls(f, 4 + 1).next = 4 + 1 + b
    BY <2>1, <2>2, ReadBack DEF s, b
  <2> QED  BY <2>1, <2>3
<1> HIDE DEF decoded
<1>14. DecodeOutsideExecution(f).oe
         = [caller |-> oe.caller, nonce |-> oe.nonce,
            execute_after |-> oe.execute_after, execute_before |-> oe.execute_before,
            calls |-> canonical_calls(calls)]
  <2>1. /\ f[1].uint = oe.caller /\ f[2].uint = oe.nonce
        /\ f[3].uint = oe.execute_after /\ f[4].uint = oe.execute_before
    <3>1. \A n : Uint(n).uint = n
      BY DEF Uint
    <3> QED  BY <1>2, <1>10, <3>1
  <2> QED  BY <1>13, <2>1 DEF DecodeOutsideExecution, decoded
<1>15. DecodeOutsideExecution(f).signature = signature
  <2> DEFINE n == 4 + b + 1
             lo == n + 1
             hi == n + 6
             u == SubSeq(f, lo, hi)
  <2>1. f[n].uint = 6
    BY <1>12 DEF Uint
  <2>2. DecodeOutsideExecution(f).signature = SubSeq(f, decoded.next + 1, decoded.next + f[decoded.next].uint)
    BY DEF DecodeOutsideExecution, decoded
  <2>3. DecodeOutsideExecution(f).signature = u
    BY <1>13, <2>1, <2>2
  <2>4. n \in Nat
    BY <1>3
  <2>5. \A i \in 1..6 : f[n + i] = signature[i]
    BY <1>9
  <2> HIDE DEF n
  <2>6. \A i \in lo..hi : f[i] \in T
    <3>1. \A i \in lo..hi : i - n \in 1..6 /\ n + (i - n) = i
      BY <2>4
    <3>2. \A i \in 1..6 : signature[i] \in T
      BY <1>5, ElementOfSeq
    <3> QED  BY <2>5, <3>1, <3>2
  <2>7. /\ u \in Seq(T) /\ Len(u) = 6
        /\ \A i \in 1..6 : u[i] = f[n + 1 + i - 1]
    <3>1. lo \in Int /\ hi \in Int /\ lo <= hi /\ hi - lo + 1 = 6
      BY <2>4
    <3> HIDE DEF lo, hi
    <3>2. /\ u \in Seq(T) /\ Len(u) = IF lo <= hi THEN hi - lo + 1 ELSE 0
          /\ \A i \in 1..hi - lo + 1 : u[i] = f[lo + i - 1]
      BY <2>6, <3>1, SubSeqProperties
    <3> HIDE DEF u
    <3> QED  BY <3>1, <3>2 DEF lo
  <2> HIDE DEF u
  <2>8. \A i \in 1..6 : u[i] = signature[i]
    <3>1. \A i \in 1..6 : n + 1 + i - 1 = n + i
      BY <2>4
    <3> QED  BY <2>5, <2>7, <3>1
  <2>9. u = signature
    BY <1>5, <2>7, <2>8, SeqEqual
  <2> QED  BY <2>3, <2>9
<1> QED  BY <1>1, <1>14, <1>15

-----------------------------------------------------------------------------
\* What the account makes of what a run has signed.

ArgsOK(args) == load_calls(args) \in Seq(JsonCall) /\ Len(load_calls(args)) < FELT

LEMMA ParsedArgs ==
  ASSUME NEW options \in CommandLines
  PROVE  ArgsOK(parse_args(options))
<1> DEFINE args == parse_args(options)
<1>1. <<DEFAULT_CALL>> \in Seq(JsonCall) /\ Len(<<DEFAULT_CALL>>) < FELT
  BY SendTxAssumption, KeccakAssumption
<1>2. args.calls = IF "calls" \in DOMAIN options THEN options.calls ELSE None
  BY DEF parse_args, Defaults
<1>3. "calls" \in DOMAIN options => options.calls \in Seq(JsonCall) /\ Len(options.calls) < FELT
  BY SendTxAssumption
<1> HIDE DEF args
<1>4. load_calls(args) \in Seq(JsonCall) /\ Len(load_calls(args)) < FELT
  <2>1. CASE args.calls = None
    BY <1>1, <2>1 DEF load_calls
  <2>2. CASE args.calls # None
    BY <1>2, <1>3, <2>2 DEF load_calls
  <2> QED  BY <2>1, <2>2
<1> QED  BY <1>4 DEF ArgsOK, args

LEMMA AskedCalls ==
  ASSUME NEW args
  PROVE  CallsOf(args) = canonical_calls(load_calls(args))
BY DEF CallsOf, canonical_calls, load_calls, normalize_call

LEMMA SignatureParts ==
  ASSUME NEW digest, NEW key, NEW evm
  PROVE  \E S : sign_and_split(digest, key, evm) \in Seq(S) /\ Len(sign_and_split(digest, key, evm)) = 6
<1> DEFINE s == sign_and_split(digest, key, evm)
           S == {s[1], s[2], s[3], s[4], s[5], s[6]}
<1>1. PICK a, b, c, d, e, f : s = <<a, b, c, d, e, f>>
  BY DEF sign_and_split
<1> HIDE DEF s
<1>2. s[1] = a /\ s[2] = b /\ s[3] = c /\ s[4] = d /\ s[5] = e /\ s[6] = f
  BY <1>1
<1>3. <<a, b, c, d, e, f>> \in Seq(S)
  BY <1>2
<1>4. s \in Seq(S) /\ Len(s) = 6
  BY <1>1, <1>3
<1> QED  BY <1>4 DEF s

LEMMA ResourcesRead ==
  ASSUME NEW rb
  PROVE  resource_bounds_as_felts(ResourceBounds(rb)) = rb_mapping_to_felts(rb)
<1> DEFINE x == ResourceBounds(rb)
           g == resource_bounds_as_felts(x)
           h == rb_mapping_to_felts(rb)
<1>1. /\ Len(x) = 3
      /\ x[1].resource = L1_GAS_ID /\ x[1].max_amount = rb.l1_gas.max_amount
      /\ x[1].max_price_per_unit = rb.l1_gas.max_price_per_unit
      /\ x[2].resource = L2_GAS_ID /\ x[2].max_amount = rb.l2_gas.max_amount
      /\ x[2].max_price_per_unit = rb.l2_gas.max_price_per_unit
      /\ x[3].resource = L1_DATA_ID /\ x[3].max_amount = rb.l1_data_gas.max_amount
      /\ x[3].max_price_per_unit = rb.l1_data_gas.max_price_per_unit
  BY DEF ResourceBounds
<1>2. /\ h = [i \in 1..9 |-> h[i]]
      /\ h[1] = L1_GAS_ID /\ h[2] = rb.l1_gas.max_amount /\ h[3] = rb.l1_gas.max_price_per_unit
      /\ h[4] = L2_GAS_ID /\ h[5] = rb.l2_gas.max_amount /\ h[6] = rb.l2_gas.max_price_per_unit
      /\ h[7] = L1_DATA_ID /\ h[8] = rb.l1_data_gas.max_amount
      /\ h[9] = rb.l1_data_gas.max_price_per_unit
  BY DEF rb_mapping_to_felts
<1> HIDE DEF x, h
<1> DEFINE At(i) == LET b == x[((i - 1) \div 3) + 1]
                    IN CASE i % 3 = 1 -> b.resource
                         [] i % 3 = 2 -> b.max_amount
                         [] i % 3 = 0 -> b.max_price_per_unit
<1>3. g = [i \in 1..9 |-> At(i)]
  BY <1>1 DEF resource_bounds_as_felts
<1>4. /\ At(1) = x[1].resource /\ At(2) = x[1].max_amount /\ At(3) = x[1].max_price_per_unit
      /\ At(4) = x[2].resource /\ At(5) = x[2].max_amount /\ At(6) = x[2].max_price_per_unit
      /\ At(7) = x[3].resource /\ At(8) = x[3].max_amount /\ At(9) = x[3].max_price_per_unit
  OBVIOUS
<1> HIDE DEF At
<1>5. \A i \in 1..9 : At(i) = h[i]
  BY <1>1, <1>2, <1>4
<1> HIDE DEF g
<1>6. g = h
  BY <1>2, <1>3, <1>5
<1> QED  BY <1>6 DEF g, h, x

\* __validate__ lets through just what the account's owner asked for on its chain.
LEMMA SignedValidates ==
  ASSUME NEW args, ArgsOK(args), NEW nonce
  PROVE  /\ Validates(build_invoke_v3(args, nonce)) <=> Authorised(args, args.account)
         /\ CallsOf(args) = DecodeCalls(build_invoke_v3(args, nonce).calldata, 1).calls
<1> DEFINE tx == build_invoke_v3(args, nonce)
           calls == load_calls(args)
           canon == canonical_calls(calls)
           evm == args.evm_chain_id
           digest == transaction_msg_hash(canon, Metadata(args, nonce), args.sn_chain_id,
                                          args.account, evm)
           M == [version |-> 3, chain_id |-> ChainIds[Chain],
                 execution_resources |-> rb_mapping_to_felts(build_resource_bounds),
                 tip |-> 0, nonce |-> nonce]
           hash == transaction_msg_hash(canon, M, Chain, args.account, evm)
           s == serialize_calls_to_felts(calls)
<1>1. /\ tx.version = 3 /\ tx.tip = 0 /\ tx.nonce = nonce /\ tx.sender_address = args.account
      /\ tx.resource_bounds = build_resource_bounds /\ tx.calldata = s
      /\ tx.signature = sign_and_split(digest, args.eth_private_key, evm)
  BY DEF build_invoke_v3, sign_tx
<1>2. DecodeCalls(s, 1).calls = canon
  <2>1. calls \in Seq(JsonCall) /\ 0 \in Nat /\ 0 + 1 = 1
    BY DEF ArgsOK
  <2>2. \A i \in 1..Len(serialize_calls_to_felts(calls)) : s[0 + i] = serialize_calls_to_felts(calls)[i]
    <3>1. \A i \in 1..Len(serialize_calls_to_felts(calls)) : 0 + i = i
      OBVIOUS
    <3> QED  BY <3>1
  <2> HIDE DEF s, calls
  <2>3. DecodeCalls(s, 0 + 1).calls = canon
    BY <2>1, <2>2, ReadBack
  <2> QED  BY <2>1, <2>3
<1>3. Chain \in DOMAIN ChainIds
  BY SendTxAssumption
<1> DEFINE sig == tx.signature
<1>4. /\ IsSignature(sig) /\ EvmChainOf(sig) = evm
      /\ is_valid_eth_signature(hash, sig, Owner[args.account])
           <=> hash = digest /\ Owner[args.account] = args.eth_private_key
  BY <1>1, SignatureValid
<1> HIDE DEF tx, sig, s, digest, hash
<1>5. Validates(tx) <=> hash = digest /\ Owner[args.account] = args.eth_private_key
  <2> DEFINE N == [version |-> tx.version, chain_id |-> ChainIds[Chain],
                   execution_resources |-> resource_bounds_as_felts(ResourceBounds(tx.resource_bounds)),
                   tip |-> tx.tip, nonce |-> tx.nonce]
  <2>1. N = M
    BY <1>1, ResourcesRead
  <2> HIDE DEF N, M
  <2>2. get_transaction_hash(canon, M, evm, ChainIds[Chain], args.account) = hash
    BY <1>3, AccountTransactionHash DEF hash
  <2>3. Validates(tx) <=>
          /\ IsSignature(sig)
          /\ is_valid_eth_signature(
               get_transaction_hash(DecodeCalls(tx.calldata, 1).calls, N, EvmChainOf(sig),
                                    ChainIds[Chain], tx.sender_address),
               sig, Owner[tx.sender_address])
    BY DEF Validates, N, sig
  <2> QED  BY <1>1, <1>2, <1>4, <2>1, <2>2, <2>3
<1>6. hash = digest <=> args.sn_chain_id = Chain
  <2>1. ASSUME hash = digest
        PROVE  args.sn_chain_id = Chain
    BY <2>1, SameChain DEF hash, digest
  <2>2. ASSUME args.sn_chain_id = Chain
        PROVE  hash = digest
    <3>1. Metadata(args, nonce) = M
      BY <2>2 DEF Metadata, sn_chain_name_to_felt
    <3> QED  BY <2>2, <3>1 DEF hash, digest
  <2> QED  BY <2>1, <2>2
<1> QED  BY <1>1, <1>2, <1>5, <1>6, AskedCalls DEF Authorised, tx

\* The signature check of execute_from_outside_v2.
Accepted(felts, account) ==
  LET d == DecodeOutsideExecution(felts)
  IN /\ IsSignature(d.signature)
     /\ is_valid_eth_signature(
          get_outside_execution_hash(d.oe, EvmChainOf(d.signature), ChainIds[Chain], account),
          d.signature, Owner[account])

\* Calldata an account accepts, and the terms of the command line it was printed for.
LEMMA PrintedAccepted ==
  ASSUME NEW args, ArgsOK(args), NEW oe, NEW account, NEW felts,
         felts = serialize_efo_calldata(oe, load_calls(args), sign_efo(oe, load_calls(args), args)),
         Accepted(felts, account)
  PROVE  /\ Authorised(args, account)
         /\ LowHalf(args.account) = LowHalf(account)
         /\ DecodeOutsideExecution(felts).oe
              = [caller |-> oe.caller, nonce |-> oe.nonce,
                 execute_after |-> oe.execute_after, execute_before |-> oe.execute_before,
                 calls |-> CallsOf(args)]
<1> DEFINE calls == load_calls(args)
           d == DecodeOutsideExecution(felts)
           evm == args.evm_chain_id
           signed == [caller |-> oe.caller, nonce |-> oe.nonce, execute_after |-> oe.execute_after,
                      execute_before |-> oe.execute_before, calls |-> canonical_calls(calls)]
           digest == outside_execution_msg_hash(signed, args.sn_chain_id, args.account, evm)
           sig == sign_and_split(digest, args.eth_private_key, evm)
           hash == outside_execution_msg_hash(signed, Chain, account, evm)
<1>1. sign_efo(oe, calls, args) = sig
  BY DEF sign_efo
<1>2. d.oe = signed /\ d.signature = sig
  <2>1. PICK S : sig \in Seq(S) /\ Len(sig) = 6
    BY SignatureParts
  <2>2. calls \in Seq(JsonCall)
    BY DEF ArgsOK
  <2>3. felts = serialize_efo_calldata(oe, calls, sig)
    BY <1>1
  <2> HIDE DEF sig, calls
  <2> QED  BY <2>1, <2>2, <2>3, PrintedReadBack
<1>3. /\ EvmChainOf(sig) = evm
      /\ is_valid_eth_signature(hash, sig, Owner[account])
           <=> hash = digest /\ Owner[account] = args.eth_private_key
  BY SignatureValid
<1>4. get_outside_execution_hash(signed, evm, ChainIds[Chain], account) = hash
  BY SendTxAssumption, AccountOutsideHash
<1> HIDE DEF sig, signed, digest, hash, d
<1>5. is_valid_eth_signature(
        get_outside_execution_hash(d.oe, EvmChainOf(d.signature), ChainIds[Chain], account),
        d.signature, Owner[account])
  BY DEF Accepted, d
<1>6. hash = digest /\ Owner[account] = args.eth_private_key
  BY <1>2, <1>3, <1>4, <1>5
<1>7. args.sn_chain_id = Chain /\ LowHalf(args.account) = LowHalf(account)
  BY <1>6, SameChain DEF hash, digest
<1>8. CallsOf(args) = canonical_calls(calls)
  BY AskedCalls
<1> QED  BY <1>2, <1>6, <1>7, <1>8 DEF Authorised, signed, d

-----------------------------------------------------------------------------
\* What a run carries belongs to its command line, and what the node holds to a run.

\* The terms --efo takes from the command line and, for want of a nonce, from the clock.
Terms(args, time) ==
  [caller |-> IF args.sender # None THEN args.sender ELSE ANY_CALLER,
   nonce |-> IF args.nonce # None THEN args.nonce ELSE time,
   execute_after |-> args.execute_after, execute_before |-> args.execute_before]

PrintedAsAsked(s) ==
  /\ s.args.efo
  /\ \E time \in 0..MaxTime :
       s.felts = serialize_efo_calldata(Terms(s.args, time), load_calls(s.args),
                   sign_efo(Terms(s.args, time), load_calls(s.args), s.args))

SignedAsAsked(s) ==
  /\ s.phase \in {"sending", "sent", "refused", "done", "failed"}
  /\ "seen" \in DOMAIN s
  /\ ~s.args.efo /\ ~s.args.dry_run
  /\ s.args.account \in DOMAIN Owner
  /\ s.tx.nonce \in Nat
  /\ s.tx = build_invoke_v3(s.args, s.tx.nonce)
  /\ \A t \in s.seen : t.sender_address = s.args.account => t.nonce < s.tx.nonce

RunOK(s) ==
  /\ "phase" \in DOMAIN s
  /\ s.phase \in {"idle", "printed", "get_nonce", "sending", "sent", "refused", "done", "failed"}
  /\ s.phase # "idle" => "args" \in DOMAIN s /\ ArgsOK(s.args)
  /\ s.phase = "get_nonce" => ~s.args.efo
  /\ s.phase = "printed" => PrintedAsAsked(s)
  /\ s.phase \in {"sending", "sent", "refused"} => "tx" \in DOMAIN s
  /\ "tx" \in DOMAIN s => SignedAsAsked(s)

RunTxs == {run[r].tx : r \in {q \in Runs : "tx" \in DOMAIN run[q]}}

\* An outside execution in the ledger was printed by a run and accepted by the account.
EntryOK(e, runs) ==
  "tx" \notin DOMAIN e =>
    \E s \in runs : s.phase = "printed" /\ s.felts = e.efo /\ Accepted(e.efo, e.account)

RunStates == {run[r] : r \in Runs}

Caused(s, txs) ==
  \/ Unfit(s.args)
  \/ \E t \in txs \ s.seen : t.sender_address = s.args.account /\ t.nonce = s.tx.nonce

AInv ==
  /\ \A r \in Runs : RunOK(run[r])
  /\ Txs \subseteq RunTxs
  /\ \A t \in Txs : Validates(t)
  /\ \A i \in DOMAIN ledger : EntryOK(ledger[i], RunStates)
  /\ \A r \in Runs : run[r].phase = "refused" => Caused(run[r], Txs)
  /\ now \in 0..MaxTime

LEMMA InitAInv == Init => AInv
<1> SUFFICES ASSUME Init PROVE AInv
  OBVIOUS
<1>1. /\ DOMAIN ledger = {} /\ mempool = {} /\ now = 0
      /\ DOMAIN run = Runs /\ \A r \in Runs : run[r] = [phase |-> "idle"]
  BY DEF Init, Idle
<1>2. Txs = {}
  BY <1>1 DEF Txs, Included, Transactions
<1>3. RunOK([phase |-> "idle"])
  BY DEF RunOK
<1>4. [phase |-> "idle"].phase # "refused"
  OBVIOUS
<1> QED  BY <1>1, <1>2, <1>3, <1>4, SendTxAssumption DEF AInv

\* A run that is not done with a request or its calldata goes on, and keeps its transaction.
Keeps(s, state) ==
  /\ s.phase # "printed"
  /\ "tx" \in DOMAIN s => "tx" \in DOMAIN state /\ state.tx = s.tx

LEMMA RunStepAInv ==
  ASSUME IInv, AInv, NEW r \in Runs, NEW state, Goes(r, state), UNCHANGED <<ledger, now>>,
         Txs \subseteq Txs', \A t \in Txs' \ Txs : Validates(t) /\ "tx" \in DOMAIN state /\ t = state.tx,
         Keeps(run[r], state), RunOK(state), state.phase = "refused" => Caused(state, Txs)
  PROVE  AInv'
<1>1. /\ DOMAIN run = Runs /\ run'[r] = state
      /\ \A q \in Runs : q # r => run'[q] = run[q]
  BY DEF IInv, Goes
<1>2. \A q \in Runs : RunOK(run'[q])
  BY <1>1 DEF AInv
<1>3. RunTxs \subseteq RunTxs' /\ ("tx" \in DOMAIN state => state.tx \in RunTxs')
  <2>1. \A q \in Runs : "tx" \in DOMAIN run[q] => "tx" \in DOMAIN run'[q] /\ run'[q].tx = run[q].tx
    BY <1>1 DEF Keeps
  <2> QED  BY <1>1, <2>1 DEF RunTxs
<1>4. Txs' \subseteq RunTxs' /\ \A t \in Txs' : Validates(t)
  BY <1>3 DEF AInv
<1>5. ASSUME NEW i \in DOMAIN ledger
      PROVE  EntryOK(ledger[i], RunStates')
  <2> SUFFICES ASSUME "tx" \notin DOMAIN ledger[i]
               PROVE  \E s \in RunStates' : /\ s.phase = "printed" /\ s.felts = ledger[i].efo
                                            /\ Accepted(ledger[i].efo, ledger[i].account)
    BY DEF EntryOK
  <2>1. PICK q \in Runs : /\ run[q].phase = "printed" /\ run[q].felts = ledger[i].efo
                          /\ Accepted(ledger[i].efo, ledger[i].account)
    BY DEF AInv, EntryOK, RunStates
  <2>2. q # r
    BY <2>1 DEF Keeps
  <2>3. run'[q] = run[q] /\ run'[q] \in RunStates'
    BY <1>1, <2>2 DEF RunStates
  <2> QED  BY <2>1, <2>3
<1>6. ASSUME NEW q \in Runs, run'[q].phase = "refused"
      PROVE  Caused(run'[q], Txs')
  <2>1. Caused(run'[q], Txs)
    BY <1>1, <1>6 DEF AInv
  <2> QED  BY <2>1 DEF Caused
<1> QED  BY <1>2, <1>4, <1>5, <1>6 DEF AInv

\* The node's steps, and time's.
LEMMA NodeStepAInv ==
  ASSUME AInv, UNCHANGED run, Txs' = Txs, now' \in 0..MaxTime,
         \A i \in DOMAIN ledger' : EntryOK(ledger'[i], RunStates)
  PROVE  AInv'
<1>1. RunTxs' = RunTxs /\ RunStates' = RunStates
  BY DEF RunTxs, RunStates
<1> QED  BY <1>1 DEF AInv

LEMMA SameTxs ==
  ASSUME UNCHANGED <<mempool, ledger>>
  PROVE  Txs' = Txs
BY DEF Txs, Included, Transactions

LEMMA PrintsEfoAInv ==
  ASSUME IInv, AInv, NEW r \in Runs, NEW options \in CommandLines, PrintsEfo(r, options)
  PROVE  AInv'
<1> DEFINE args == parse_args(options)
           calls == load_calls(args)
           oe == OutsideExecutionOf(args)
           printed == [phase |-> "printed", args |-> args, at |-> now,
                       felts |-> serialize_efo_calldata(oe, calls, sign_efo(oe, calls, args))]
           failed == [phase |-> "failed", args |-> args]
<1>1. /\ run[r] = Idle /\ args.efo /\ UNCHANGED <<mempool, ledger, now>>
      /\ Goes(r, printed) \/ Goes(r, failed)
  BY DEF PrintsEfo
<1>2. ArgsOK(args)
  BY ParsedArgs
<1>3. oe = Terms(args, now)
  BY DEF OutsideExecutionOf, Terms, efo_nonce
<1>4. now \in 0..MaxTime
  BY DEF AInv
<1> HIDE DEF args
<1>5. RunOK(printed)
  <2> DEFINE felts == serialize_efo_calldata(oe, calls, sign_efo(oe, calls, args))
  <2>1. felts = serialize_efo_calldata(Terms(args, now), calls, sign_efo(Terms(args, now), calls, args))
    BY <1>3
  <2> HIDE DEF felts, oe
  <2>2. /\ printed.phase = "printed" /\ printed.args = args /\ printed.felts = felts
        /\ DOMAIN printed = {"phase", "args", "at", "felts"}
    BY DEF felts
  <2> HIDE DEF printed
  <2>3. PrintedAsAsked(printed)
    BY <1>1, <1>4, <2>1, <2>2 DEF PrintedAsAsked
  <2> QED  BY <1>2, <2>2, <2>3 DEF RunOK
<1>6. RunOK(failed)
  BY <1>2 DEF RunOK
<1>7. \A s : Keeps(run[r], s)
  BY <1>1 DEF Keeps, Idle
<1>8. printed.phase # "refused" /\ failed.phase # "refused"
  OBVIOUS
<1> HIDE DEF printed, failed
<1> QED  BY <1>1, <1>5, <1>6, <1>7, <1>8, SameTxs, RunStepAInv

LEMMA StartsAInv ==
  ASSUME IInv, AInv, NEW r \in Runs, NEW options \in CommandLines, Starts(r, options)
  PROVE  AInv'
<1> DEFINE args == parse_args(options)
           state == [phase |-> "get_nonce", args |-> args]
<1>1. run[r] = Idle /\ ~args.efo /\ UNCHANGED <<mempool, ledger, now>> /\ Goes(r, state)
  BY DEF Starts
<1>2. ArgsOK(args)
  BY ParsedArgs
<1> HIDE DEF args
<1>3. RunOK(state)
  BY <1>1, <1>2 DEF RunOK
<1>4. Keeps(run[r], state)
  BY <1>1 DEF Keeps, Idle
<1>5. state.phase # "refused"
  OBVIOUS
<1> HIDE DEF state
<1> QED  BY <1>1, <1>3, <1>4, <1>5, SameTxs, RunStepAInv

\* What is included when the nonce is asked for has lower nonces.
LEMMA SendingOK ==
  ASSUME IInv, NEW args, ArgsOK(args), ~args.efo, ~args.dry_run, args.account \in DOMAIN Owner
  PROVE  RunOK(Sending(args, get_nonce(args.account)))
<1> DEFINE a == args.account
           n == get_nonce(a)
           state == Sending(args, n)
<1>1. n = Numb(ledger, a, Len(ledger)) /\ Transactions = TxAt(ledger)
  BY CountIsNonce DEF get_nonce
<1>2. IsSequence(ledger) /\ Numbered(ledger) /\ Len(ledger) \in Nat /\ DOMAIN ledger = 1..Len(ledger)
  BY DEF IInv, IsSequence
<1>3. n \in Nat
  BY <1>1, <1>2, CountFinite
<1>4. /\ state.phase = "sending" /\ state.args = args
      /\ state.tx = build_invoke_v3(args, n) /\ state.seen = Included
      /\ DOMAIN state = {"phase", "args", "tx", "seen"}
  BY DEF Sending
<1>5. build_invoke_v3(args, n).nonce = n
  BY DEF build_invoke_v3
<1> HIDE DEF n, state
<1>6. ASSUME NEW t \in Included, t.sender_address = a
      PROVE  t.nonce < n
  <2>1. PICK i \in TxAt(ledger) : t = ledger[i].tx
    BY <1>1 DEF Included
  <2>2. i \in Nat /\ i <= Len(ledger)
    BY <1>2 DEF TxAt
  <2> QED  BY <1>1, <1>2, <1>6, <2>1, <2>2, CountAbove
<1>7. state.tx.nonce = n
  BY <1>4, <1>5
<1>8. SignedAsAsked(state)
  BY <1>3, <1>4, <1>6, <1>7 DEF SignedAsAsked
<1> QED  BY <1>4, <1>8 DEF RunOK, state, n

LEMMA SignsAInv ==
  ASSUME IInv, AInv, NEW r \in Runs, Signs(r)
  PROVE  AInv'
<1> DEFINE args == run[r].args
           failed == [phase |-> "failed", args |-> args]
           done == [phase |-> "done", args |-> args]
           sending == Sending(args, get_nonce(args.account))
<1>1. /\ run[r].phase = "get_nonce" /\ args.account \in DOMAIN Owner
      /\ UNCHANGED <<mempool, ledger, now>>
      /\ Goes(r, failed) \/ Goes(r, done) \/ (~args.dry_run /\ Goes(r, sending))
  BY DEF Signs
<1>2. ArgsOK(args) /\ ~args.efo /\ RunOK(run[r])
  BY <1>1 DEF AInv, RunOK
<1>3. "tx" \notin DOMAIN run[r]
  BY <1>1, <1>2 DEF RunOK, SignedAsAsked
<1> HIDE DEF args
<1>4. RunOK(failed) /\ RunOK(done)
  BY <1>2 DEF RunOK
<1>5. ~args.dry_run => RunOK(sending)
  BY <1>1, <1>2, SendingOK
<1>6. \A s : Keeps(run[r], s)
  BY <1>1, <1>3 DEF Keeps
<1>7. failed.phase # "refused" /\ done.phase # "refused" /\ sending.phase # "refused"
  BY DEF Sending
<1> HIDE DEF failed, done, sending
<1> QED  BY <1>1, <1>4, <1>5, <1>6, <1>7, SameTxs, RunStepAInv

\* Another phase, the same command line and transaction.
InPhase(s, phase) == [s EXCEPT !.phase = phase]

LEMMA PhaseOK ==
  ASSUME NEW s, RunOK(s), NEW phase \in {"sent", "refused", "done", "failed"},
         s.phase \in {"get_nonce", "sending", "sent", "failed"},
         phase \in {"sent", "refused"} => "tx" \in DOMAIN s
  PROVE  /\ RunOK(InPhase(s, phase)) /\ Keeps(s, InPhase(s, phase))
         /\ InPhase(s, phase).phase = phase
         /\ InPhase(s, phase).args = s.args
         /\ "tx" \in DOMAIN s => /\ "tx" \in DOMAIN InPhase(s, phase)
                                 /\ InPhase(s, phase).tx = s.tx
                                 /\ InPhase(s, phase).seen = s.seen
<1> DEFINE state == InPhase(s, phase)
<1>1. "phase" \in DOMAIN s /\ "args" \in DOMAIN s /\ ArgsOK(s.args)
  BY DEF RunOK
<1>2. "tx" \in DOMAIN s => SignedAsAsked(s) /\ "seen" \in DOMAIN s
  BY DEF RunOK, SignedAsAsked
<1>3. /\ DOMAIN state = DOMAIN s /\ state.phase = phase /\ state.args = s.args
      /\ "tx" \in DOMAIN s => state.tx = s.tx /\ state.seen = s.seen
  BY <1>1, <1>2 DEF InPhase
<1> HIDE DEF state
<1>4. "tx" \in DOMAIN s => SignedAsAsked(state)
  BY <1>2, <1>3 DEF SignedAsAsked
<1>5. RunOK(state)
  BY <1>1, <1>3, <1>4 DEF RunOK
<1>6. Keeps(s, state)
  BY <1>3 DEF Keeps
<1> QED  BY <1>3, <1>5, <1>6 DEF state

LEMMA EndsAInv ==
  ASSUME IInv, AInv, NEW r \in Runs, Answered(r) \/ Fails(r)
  PROVE  AInv'
<1>1. PICK phase \in {"done", "failed"} : Goes(r, InPhase(run[r], phase))
  BY DEF Answered, Fails, InPhase
<1>2. run[r].phase \in {"get_nonce", "sending", "sent"} /\ UNCHANGED <<mempool, ledger, now>>
  BY DEF Answered, Fails
<1> DEFINE state == InPhase(run[r], phase)
<1>3. RunOK(run[r])
  BY DEF AInv
<1>4. RunOK(state) /\ Keeps(run[r], state) /\ state.phase = phase
  BY <1>2, <1>3, PhaseOK
<1> HIDE DEF state
<1> QED  BY <1>1, <1>2, <1>4, SameTxs, RunStepAInv DEF state

\* Fit calls are felts.
LEMMA FitCalls ==
  ASSUME NEW args, ArgsOK(args), ~Unfit(args)
  PROVE  AllFelts(serialize_calls_to_felts(load_calls(args))) /\ Authorised(args, args.account)
<1> DEFINE calls == load_calls(args)
<1>1. calls \in Seq(JsonCall) /\ Len(calls) < FELT
  BY DEF ArgsOK
<1>2. DOMAIN calls = 1..Len(calls)
  BY <1>1, LenProperties
<1>3. CallsOf(args) = [i \in DOMAIN calls |->
        [to |-> calls[i].address, selector |-> calls[i].selector, calldata |-> calls[i].data]]
  BY DEF CallsOf, load_calls
<1> HIDE DEF calls
<1>4. ASSUME NEW i \in 1..Len(calls)
      PROVE  FeltCall(calls[i])
  <2>1. /\ i \in DOMAIN CallsOf(args)
        /\ CallsOf(args)[i].to = calls[i].address /\ CallsOf(args)[i].selector = calls[i].selector
        /\ CallsOf(args)[i].calldata = calls[i].data
    BY <1>2, <1>3
  <2> QED  BY <2>1 DEF Unfit, FeltCall
<1>5. AllFelts(serialize_calls_to_felts(calls))
  BY <1>1, <1>4, SerializedFelts
<1> QED  BY <1>5 DEF Unfit, calls

\* A nonce below the account's was used up by a transaction the run has not seen.
LEMMA RefusalCaused ==
  ASSUME IInv, AInv, NEW r \in Runs, run[r].phase = "sending", ~Admits(run[r].tx)
  PROVE  Caused(run[r], Txs)
<1> DEFINE s == run[r]
           tx == s.tx
           a == s.args.account
           k == tx.nonce
<1>1. RunOK(s) /\ "tx" \in DOMAIN s
  BY DEF AInv, RunOK
<1>2. /\ ArgsOK(s.args) /\ a \in DOMAIN Owner /\ k \in Nat
      /\ tx = build_invoke_v3(s.args, k)
      /\ \A t \in s.seen : t.sender_address = a => t.nonce < k
  BY <1>1 DEF RunOK, SignedAsAsked
<1>3. tx.sender_address = a /\ tx.calldata = serialize_calls_to_felts(load_calls(s.args))
  BY <1>2 DEF build_invoke_v3
<1> SUFFICES ASSUME ~Unfit(s.args)
             PROVE  \E t \in Txs \ s.seen : t.sender_address = a /\ t.nonce = k
  BY DEF Caused
<1>4. AllFelts(tx.calldata) /\ Authorised(s.args, a)
  BY <1>2, <1>3, FitCalls
<1>5. Validates(tx)
  <2>1. Validates(build_invoke_v3(s.args, k))
    BY <1>2, <1>4, SignedValidates
  <2> QED  BY <1>2, <2>1
<1> DEFINE n == NonceAfter(a, Len(ledger))
<1>6. IsSequence(ledger) /\ Filled(ledger) /\ Numbered(ledger) /\ Len(ledger) \in Nat
  BY DEF IInv, IsSequence
<1>7. n = Numb(ledger, a, Len(ledger)) /\ n \in Nat
  BY <1>6, CountIsNonce, CountFinite
<1> HIDE DEF n
<1>8. k < n \/ \E t \in mempool : t.sender_address = a /\ t.nonce = k
  <2>1. k \in Nat /\ n \in Nat /\ (k >= n \/ k < n)
    BY <1>2, <1>7
  <2> QED  BY <1>2, <1>3, <1>4, <1>5, <2>1 DEF Admits, n
<1>9. \A t \in s.seen : t.sender_address = a => t.nonce # k
  BY <1>2
<1>10. CASE k < n
  <2>1. k \in 0..Numb(ledger, a, Len(ledger)) - 1 /\ Len(ledger) \in 0..Len(ledger)
    BY <1>2, <1>6, <1>7, <1>10
  <2>2. PICK i \in Of(ledger, a, Len(ledger)) : ledger[i].tx.nonce = k
    BY <1>2, <1>6, <2>1 DEF Filled
  <2>3. i \in TxAt(ledger) /\ ledger[i].account = a
    BY <2>2 DEF Of
  <2>4. ledger[i].tx.sender_address = a
    BY <1>6, <2>3 DEF Numbered
  <2>5. ledger[i].tx \in Txs
    BY <2>3, CountIsNonce DEF Txs, Included
  <2> QED  BY <1>9, <2>2, <2>4, <2>5
<1>11. CASE \E t \in mempool : t.sender_address = a /\ t.nonce = k
  BY <1>9, <1>11 DEF Txs
<1> QED  BY <1>8, <1>10, <1>11

LEMMA NodeRefusesAInv ==
  ASSUME IInv, AInv, NEW r \in Runs, NodeRefuses(r)
  PROVE  AInv'
<1> DEFINE state == InPhase(run[r], "refused")
<1>1. /\ run[r].phase = "sending" /\ ~Admits(run[r].tx) /\ UNCHANGED <<mempool, ledger, now>>
      /\ Goes(r, state)
  BY DEF NodeRefuses, InPhase
<1>2. RunOK(run[r]) /\ "tx" \in DOMAIN run[r]
  BY <1>1 DEF AInv, RunOK
<1>3. /\ RunOK(state) /\ Keeps(run[r], state) /\ state.args = run[r].args
      /\ state.tx = run[r].tx /\ state.seen = run[r].seen
  BY <1>1, <1>2, PhaseOK
<1>4. Caused(run[r], Txs)
  BY <1>1, RefusalCaused
<1> HIDE DEF state
<1>5. Caused(state, Txs)
  BY <1>3, <1>4 DEF Caused
<1> QED  BY <1>1, <1>3, <1>5, SameTxs, RunStepAInv

LEMMA NodeAdmitsAInv ==
  ASSUME IInv, AInv, NEW r \in Runs, NodeAdmits(r)
  PROVE  AInv'
<1> DEFINE tx == run[r].tx
           state == InPhase(run[r], IF run[r].phase = "sending" THEN "sent" ELSE "failed")
<1>1. RunOK(run[r])
  BY DEF AInv
<1>2. /\ "tx" \in DOMAIN run[r] /\ run[r].phase \in {"sending", "failed"}
      /\ Admits(tx) /\ mempool' = mempool \cup {tx} /\ UNCHANGED <<ledger, now>>
  BY <1>1 DEF NodeAdmits, RunOK
<1>3. Goes(r, state)
  <2>1. CASE run[r].phase = "sending"
    BY <2>1 DEF NodeAdmits, InPhase
  <2>2. CASE run[r].phase = "failed"
    BY <2>2 DEF NodeAdmits, InPhase
  <2> QED  BY <1>2, <2>1, <2>2
<1>4. /\ RunOK(state) /\ Keeps(run[r], state) /\ state.phase # "refused"
      /\ "tx" \in DOMAIN state /\ state.tx = tx
  <2> DEFINE phase == IF run[r].phase = "sending" THEN "sent" ELSE "failed"
  <2>1. phase \in {"sent", "refused", "done", "failed"} /\ phase # "refused"
    OBVIOUS
  <2> HIDE DEF phase
  <2>2. /\ RunOK(InPhase(run[r], phase)) /\ Keeps(run[r], InPhase(run[r], phase))
        /\ InPhase(run[r], phase).phase = phase
        /\ "tx" \in DOMAIN InPhase(run[r], phase) /\ InPhase(run[r], phase).tx = tx
    BY <1>1, <1>2, <2>1, PhaseOK
  <2> QED  BY <2>1, <2>2 DEF phase
<1>5. Txs' = Txs \cup {tx} /\ Validates(tx)
  BY <1>2 DEF Txs, Included, Transactions, Admits
<1> HIDE DEF state
<1> QED  BY <1>2, <1>3, <1>4, <1>5, RunStepAInv

-----------------------------------------------------------------------------
\* The node's steps.

LEMMA IncludesAInv ==
  ASSUME IInv, AInv, NEW tx \in mempool, Includes(tx)
  PROVE  AInv'
<1> DEFINE e == [account |-> tx.sender_address, tx |-> tx]
<1>1. UNCHANGED <<run, now>> /\ Len(ledger) \in Nat /\ DOMAIN ledger = 1..Len(ledger)
  BY DEF Includes, IInv, IsSequence
<1>2. Grown(e) /\ Txs' = Txs
  BY IncludesKeeps
<1>3. EntryOK(e, RunStates)
  BY DEF EntryOK
<1> HIDE DEF e
<1>4. \A i \in DOMAIN ledger' : EntryOK(ledger'[i], RunStates)
  BY <1>1, <1>2, <1>3 DEF Grown, IsSequence, AInv
<1> QED  BY <1>1, <1>2, <1>4, NodeStepAInv DEF AInv

LEMMA SubmitsAInv ==
  ASSUME IInv, AInv, NEW caller, NEW r \in Runs, NEW account, Submits(caller, r, account)
  PROVE  AInv'
<1> DEFINE e == [account |-> account, efo |-> run[r].felts]
<1>1. UNCHANGED <<run, now>> /\ Len(ledger) \in Nat /\ DOMAIN ledger = 1..Len(ledger)
  BY DEF Submits, IInv, IsSequence
<1>2. Grown(e) /\ Txs' = Txs
  BY SubmitsKeeps
<1>3. EntryOK(e, RunStates)
  <2>1. run[r].phase = "printed" /\ Accepted(run[r].felts, account)
    BY DEF Submits, Executes, Accepted
  <2>2. run[r] \in RunStates
    BY DEF RunStates
  <2> QED  BY <2>1, <2>2 DEF EntryOK
<1> HIDE DEF e
<1>4. \A i \in DOMAIN ledger' : EntryOK(ledger'[i], RunStates)
  BY <1>1, <1>2, <1>3 DEF Grown, IsSequence, AInv
<1> QED  BY <1>1, <1>2, <1>4, NodeStepAInv DEF AInv

LEMMA TakesBackAInv ==
  ASSUME IInv, AInv, TakesBack
  PROVE  AInv'
<1>1. UNCHANGED <<run, now>> /\ sealed \in 0..Len(ledger) /\ Len(ledger) \in Nat
      /\ DOMAIN ledger = 1..Len(ledger)
  BY DEF TakesBack, IInv, IsSequence
<1>2. /\ DOMAIN ledger' = 1..sealed /\ Txs' = Txs
      /\ \A i \in 1..sealed : ledger'[i] = ledger[i]
  BY TakesBackKeeps DEF IsSequence
<1>3. \A i \in DOMAIN ledger' : EntryOK(ledger'[i], RunStates)
  BY <1>1, <1>2 DEF AInv
<1> QED  BY <1>1, <1>2, <1>3, NodeStepAInv DEF AInv

LEMMA StepAInv == IInv /\ AInv /\ [Next]_vars => AInv'
<1> SUFFICES ASSUME IInv, AInv, [Next]_vars PROVE AInv'
  OBVIOUS
<1>1. CASE \E r \in Runs, options \in CommandLines : PrintsEfo(r, options)
  BY <1>1, PrintsEfoAInv
<1>2. CASE \E r \in Runs, options \in CommandLines : Starts(r, options)
  BY <1>2, StartsAInv
<1>3. CASE \E r \in Runs : Signs(r)
  BY <1>3, SignsAInv
<1>4. CASE \E r \in Runs : NodeAdmits(r)
  BY <1>4, NodeAdmitsAInv
<1>5. CASE \E r \in Runs : NodeRefuses(r)
  BY <1>5, NodeRefusesAInv
<1>6. CASE \E r \in Runs : Answered(r) \/ Fails(r)
  BY <1>6, EndsAInv
<1>7. CASE \E tx \in mempool : Includes(tx)
  BY <1>7, IncludesAInv
<1>8. CASE \E caller \in Relayers, r \in Runs, account \in DOMAIN Owner : Submits(caller, r, account)
  BY <1>8, SubmitsAInv
<1>9. CASE TakesBack
  BY <1>9, TakesBackAInv
<1>10. CASE Seals \/ Tick \/ UNCHANGED vars
  <2>1. UNCHANGED <<run, mempool, ledger>>
    BY <1>10 DEF Seals, Tick, vars
  <2>2. now' \in 0..MaxTime
    BY <1>10, SendTxAssumption DEF Seals, Tick, vars, AInv
  <2> QED  BY <2>1, <2>2, SameTxs, NodeStepAInv DEF AInv
<1> QED
  BY <1>1, <1>2, <1>3, <1>4, <1>5, <1>6, <1>7, <1>8, <1>9, <1>10 DEF Next

LEMMA InvariantsHold == Spec => [](IInv /\ AInv)
<1>1. Init => IInv /\ AInv
  BY InitIInv, InitAInv
<1>2. (IInv /\ AInv) /\ [Next]_vars => (IInv /\ AInv)'
  BY StepIInv, StepAInv
<1> QED  BY <1>1, <1>2, PTL DEF Spec

\* The runs, the node's transactions and the clock are of the right kinds: what the node holds
\* was signed by a run (main, handle_tx).
THEOREM TypeCorrect == Spec => []TypeOK
<1>1. IInv /\ AInv => TypeOK
  <2> SUFFICES ASSUME IInv, AInv PROVE TypeOK
    OBVIOUS
  <2>1. ASSUME NEW r \in Runs
        PROVE  /\ run[r].phase \in {"idle", "printed", "get_nonce", "sending", "sent", "refused",
                                    "done", "failed"}
               /\ run[r].phase \in {"sending", "sent", "refused"} => run[r].tx.nonce \in Nat
    BY DEF AInv, RunOK, SignedAsAsked
  <2>2. mempool \subseteq RunTxs
    BY DEF AInv, Txs
  <2> QED  BY <2>1, <2>2 DEF TypeOK, RunTxs, AInv, IInv
<1> QED  BY <1>1, InvariantsHold, PTL

LEMMA AskedForAll ==
  ASSUME IInv, AInv, NEW i \in DOMAIN ledger
  PROVE  \E r \in Runs :
           /\ run[r] # Idle
           /\ IF i \in Transactions THEN AskedTx(run[r].args, i) ELSE AskedEfo(run[r].args, i)
<1> DEFINE e == ledger[i]
<1>1. CASE i \in Transactions
  <2>1. e.tx \in Txs
    BY <1>1 DEF Txs, Included
  <2>2. PICK r \in Runs : "tx" \in DOMAIN run[r] /\ run[r].tx = e.tx
    BY <2>1 DEF AInv, RunTxs
  <2> DEFINE args == run[r].args
             n == run[r].tx.nonce
  <2>3. /\ RunOK(run[r]) /\ SignedAsAsked(run[r]) /\ ArgsOK(args) /\ run[r] # Idle
        /\ ~args.efo /\ ~args.dry_run /\ e.tx = build_invoke_v3(args, n)
    BY <2>2 DEF AInv, RunOK, SignedAsAsked, Idle
  <2>4. Validates(e.tx)
    BY <2>1 DEF AInv
  <2> HIDE DEF args, n
  <2>5. e.account = args.account
    <3>1. e.account = e.tx.sender_address
      BY <1>1, CountIsNonce DEF IInv, Numbered
    <3>2. e.tx.sender_address = args.account
      BY <2>3 DEF build_invoke_v3
    <3> QED  BY <3>1, <3>2
  <2>6. Authorised(args, args.account) /\ CallsOf(args) = DecodeCalls(e.tx.calldata, 1).calls
    BY <2>3, <2>4, SignedValidates
  <2>7. AskedTx(args, i)
    BY <2>3, <2>5, <2>6 DEF AskedTx
  <2> QED  BY <1>1, <2>3, <2>7 DEF args
<1>2. CASE i \notin Transactions
  <2>1. EntryOK(e, RunStates) /\ "tx" \notin DOMAIN e
    BY <1>2 DEF AInv, Transactions
  <2>2. PICK r \in Runs : run[r].phase = "printed" /\ run[r].felts = e.efo /\ Accepted(e.efo, e.account)
    BY <2>1 DEF EntryOK, RunStates
  <2> DEFINE args == run[r].args
  <2>3. RunOK(run[r]) /\ ArgsOK(args) /\ PrintedAsAsked(run[r]) /\ run[r] # Idle
    BY <2>2 DEF AInv, RunOK, Idle
  <2>4. PICK time \in 0..MaxTime :
          e.efo = serialize_efo_calldata(Terms(args, time), load_calls(args),
                                         sign_efo(Terms(args, time), load_calls(args), args))
    BY <2>2, <2>3 DEF PrintedAsAsked
  <2>5. args.efo
    BY <2>3 DEF PrintedAsAsked
  <2> HIDE DEF args
  <2> DEFINE oe == Terms(args, time)
             read == DecodeOutsideExecution(e.efo).oe
  <2>6. /\ oe.caller = IF args.sender # None THEN args.sender ELSE ANY_CALLER
        /\ oe.nonce = IF args.nonce # None THEN args.nonce ELSE time
        /\ oe.execute_after = args.execute_after /\ oe.execute_before = args.execute_before
    BY DEF Terms
  <2> HIDE DEF oe
  <2>7. /\ Authorised(args, e.account) /\ LowHalf(args.account) = LowHalf(e.account)
        /\ read = [caller |-> oe.caller, nonce |-> oe.nonce,
                   execute_after |-> oe.execute_after, execute_before |-> oe.execute_before,
                   calls |-> CallsOf(args)]
    BY <2>2, <2>3, <2>4, PrintedAccepted DEF oe
  <2> HIDE DEF read
  <2>8. /\ read.caller = oe.caller /\ read.nonce = oe.nonce /\ read.calls = CallsOf(args)
        /\ read.execute_after = oe.execute_after /\ read.execute_before = oe.execute_before
    BY <2>7
  <2>9. AskedEfo(args, i)
    BY <2>5, <2>6, <2>7, <2>8 DEF AskedEfo, read
  <2> QED  BY <1>2, <2>3, <2>9 DEF args
<1> QED  BY <1>1, <1>2

\* For any number of runs, relayers and accounts: whatever an account executes, a run was asked
\* for in these terms (main, sign_tx, handle_efo; __validate__, execute_from_outside_v2).
THEOREM OnlyAskedExecutes == Spec => []OnlyAsked
<1>1. IInv /\ AInv => OnlyAsked
  BY AskedForAll DEF OnlyAsked
<1> QED  BY <1>1, InvariantsHold, PTL

\* The node refuses what send_transaction offers only for a fault of the command line or a lost
\* race for the nonce get_nonce gave.
THEOREM RefusalsJustified == Spec => []RefusedForCause
<1>1. IInv /\ AInv => RefusedForCause
  BY DEF AInv, Caused, RefusedForCause
<1> QED  BY <1>1, InvariantsHold, PTL
=============================================================================
