------------------------ MODULE Eth712AccountProofs ------------------------
(***************************************************************************)
(* The account's history, for any keys, signed requests and depth of       *)
(* nesting: nonces, owners and the claim.                                  *)
(***************************************************************************)
EXTENDS Eth712AccountProperties, FiniteSetTheorems, SequenceTheorems, TLAPS

\* The properties speak of the present state.  A failure may bring back any state a
\* frame has saved, so here they are stated of a state s; transactions accepted in its
\* history carry nonces below n.

Sets(l, j) == l[j].type \in {"Initialized", "EthAddressChanged"}
Accepts(l, j) == l[j].type = "Accepted"

OwnerIn(l, j, e) ==
  \/ e = Zero /\ \A k \in 1..(j - 1) : ~Sets(l, k)
  \/ \E k \in 1..(j - 1) :
       /\ Sets(l, k) /\ l[k].next = e
       /\ \A m \in (k + 1)..(j - 1) : ~Sets(l, m)

Linked(s) ==
  /\ \A j \in 1..Len(s.log) :
       /\ Sets(s.log, j) => OwnerIn(s.log, j, s.log[j].prev)
       /\ Accepts(s.log, j) =>
            s.log[j].by \in Requests /\ OwnerIn(s.log, j, Signed[s.log[j].by].signer)
  /\ OwnerIn(s.log, Len(s.log) + 1, s.eth_address)

Claimed(s) ==
  /\ \A j \in 1..Len(s.log) : s.log[j].type = "Initialized" => j = 1
  /\ (s.eth_address = Zero) <=> (Len(s.log) = 0)

\* The nonces of kind the history has used are the set N, each of them once.
UsedOnce(l, kind, N) ==
  /\ \A j, k \in 1..Len(l) :
       Accepts(l, j) /\ Accepts(l, k) /\ j # k =>
         ~(/\ Signed[l[j].by].kind = kind /\ Signed[l[k].by].kind = kind
           /\ Signed[l[j].by].nonce = Signed[l[k].by].nonce)
  /\ \A j \in 1..Len(l) :
       Accepts(l, j) /\ Signed[l[j].by].kind = kind => Signed[l[j].by].nonce \in N

AllUsed(l, N) ==
  \A x \in N : \E j \in 1..Len(l) :
    Accepts(l, j) /\ Signed[l[j].by].kind = "outside" /\ Signed[l[j].by].nonce = x

Below(n) == {k \in Nat : k < n}

Consistent(s, n) ==
  /\ s \in State
  /\ Linked(s)
  /\ Claimed(s)
  /\ UsedOnce(s.log, "outside", s.SRC9_nonces)
  /\ AllUsed(s.log, s.SRC9_nonces)
  /\ UsedOnce(s.log, "transaction", Below(n))

IInv ==
  /\ TypeOK
  /\ Consistent(Now, tx_nonce)
  /\ \A i \in 1..Len(stack) :
       Consistent(stack[i].entry, tx_nonce) /\ stack[i].entry.eth_address # Zero
  /\ stack # <<>> => eth_address # Zero

-----------------------------------------------------------------------------
\* What an event appended to a history changes.

LEMMA OwnerKept ==
  ASSUME NEW l \in Seq(Event), NEW ev \in Event, NEW j \in 1..Len(l) + 1, NEW e,
         OwnerIn(l, j, e)
  PROVE  OwnerIn(Append(l, ev), j, e)
<1>1. Len(l) \in Nat /\ \A k \in 1..Len(l) : Append(l, ev)[k] = l[k]
  BY AppendProperties, LenProperties
<1>2. \A k \in 1..(j - 1) : k \in 1..Len(l) /\ \A m \in (k + 1)..(j - 1) : m \in 1..Len(l)
  BY <1>1
<1> QED
  BY <1>1, <1>2 DEF OwnerIn, Sets

LEMMA OwnerAfterOther ==
  ASSUME NEW l \in Seq(Event), NEW ev \in Event, NEW e, OwnerIn(l, Len(l) + 1, e),
         ev.type \in {"Accepted", "Upgraded"}
  PROVE  OwnerIn(Append(l, ev), Len(l) + 2, e)
<1> DEFINE L == Append(l, ev)
<1>1. /\ Len(l) \in Nat /\ L[Len(l) + 1] = ev
      /\ \A k \in 1..Len(l) : L[k] = l[k]
  BY AppendProperties, LenProperties
<1>2. /\ (Len(l) + 2) - 1 = Len(l) + 1 /\ (Len(l) + 1) - 1 = Len(l)
      /\ \A k \in 1..Len(l) + 1 : k \in 1..Len(l) \/ k = Len(l) + 1
      /\ \A k \in 1..Len(l) : k \in 1..Len(l) + 1
      /\ \A k \in 1..Len(l) : \A m \in (k + 1)..(Len(l) + 1) :
           (m \in (k + 1)..Len(l) /\ m \in 1..Len(l)) \/ m = Len(l) + 1
  BY <1>1
<1>3. ~Sets(L, Len(l) + 1)
  BY <1>1 DEF Sets
<1>4. \A k \in 1..Len(l) : (Sets(L, k) <=> Sets(l, k)) /\ L[k].next = l[k].next
  BY <1>1 DEF Sets
<1> HIDE DEF L
<1>5. CASE e = Zero /\ \A k \in 1..Len(l) : ~Sets(l, k)
  BY <1>2, <1>3, <1>4, <1>5 DEF OwnerIn, L
<1>6. CASE \E k \in 1..Len(l) :
             /\ Sets(l, k) /\ l[k].next = e
             /\ \A m \in (k + 1)..Len(l) : ~Sets(l, m)
  <2>1. PICK k \in 1..Len(l) :
          /\ Sets(l, k) /\ l[k].next = e
          /\ \A m \in (k + 1)..Len(l) : ~Sets(l, m)
    BY <1>6
  <2>2. \A m \in (k + 1)..(Len(l) + 1) : ~Sets(L, m)
    BY <2>1, <1>2, <1>3, <1>4
  <2>3. k \in 1..Len(l) + 1 /\ Sets(L, k) /\ L[k].next = e
    BY <2>1, <1>2, <1>4
  <2> QED
    BY <2>2, <2>3, <1>2 DEF OwnerIn, L
<1> QED
  BY <1>2, <1>5, <1>6 DEF OwnerIn

LEMMA OwnerAfterSetting ==
  ASSUME NEW l \in Seq(Event), NEW ev \in Event,
         ev.type \in {"Initialized", "EthAddressChanged"}
  PROVE  OwnerIn(Append(l, ev), Len(l) + 2, ev.next)
<1>1. Len(l) \in Nat /\ Append(l, ev)[Len(l) + 1] = ev
  BY AppendProperties, LenProperties
<1>2. /\ (Len(l) + 2) - 1 = Len(l) + 1 /\ Len(l) + 1 \in 1..Len(l) + 1
      /\ (Len(l) + 1 + 1)..(Len(l) + 1) = {}
  BY <1>1
<1> QED
  BY <1>1, <1>2 DEF OwnerIn, Sets

LEMMA Appended ==
  ASSUME NEW l \in Seq(Event), NEW ev \in Event
  PROVE  LET L == Append(l, ev)
         IN /\ L \in Seq(Event) /\ Len(L) = Len(l) + 1 /\ Len(l) \in Nat
            /\ L[Len(l) + 1] = ev
            /\ \A k \in 1..Len(l) : L[k] = l[k] /\ k \in 1..Len(L) /\ k \in 1..Len(l) + 1
            /\ \A k \in 1..Len(L) : k \in 1..Len(l) \/ k = Len(l) + 1
BY AppendProperties, LenProperties

\* One more event, of whatever kind.
LEMMA LinkedAppended ==
  ASSUME NEW s \in State, Linked(s), NEW t \in State, NEW ev \in Event,
         t.log = Append(s.log, ev),
         \/ /\ ev.type \in {"Initialized", "EthAddressChanged"}
            /\ ev.prev = s.eth_address /\ ev.next = t.eth_address
         \/ /\ ev.type = "Accepted" /\ ev.by \in Requests
            /\ Signed[ev.by].signer = s.eth_address /\ t.eth_address = s.eth_address
         \/ ev.type = "Upgraded" /\ t.eth_address = s.eth_address
  PROVE  Linked(t)
<1> DEFINE l == s.log
           L == Append(l, ev)
<1>1. l \in Seq(Event)
  BY DEF State
<1>2. /\ L \in Seq(Event) /\ Len(L) = Len(l) + 1 /\ Len(l) \in Nat /\ L[Len(l) + 1] = ev
      /\ \A k \in 1..Len(l) : L[k] = l[k] /\ k \in 1..Len(l) + 1
      /\ \A k \in 1..Len(L) : k \in 1..Len(l) \/ k = Len(l) + 1
  BY <1>1, Appended
<1>3. Len(l) + 1 \in 1..Len(l) + 1 /\ Len(L) + 1 = Len(l) + 2
  BY <1>2
<1>4. OwnerIn(L, Len(L) + 1, t.eth_address)
  BY <1>1, <1>3, OwnerAfterOther, OwnerAfterSetting DEF Linked
<1>5. ASSUME NEW j \in 1..Len(L)
      PROVE  /\ Sets(L, j) => OwnerIn(L, j, L[j].prev)
             /\ Accepts(L, j) => L[j].by \in Requests /\ OwnerIn(L, j, Signed[L[j].by].signer)
  <2>1. CASE j \in 1..Len(l)
    <3>1. L[j] = l[j] /\ j \in 1..Len(l) + 1
      BY <2>1, <1>2
    <3>2. /\ Sets(l, j) => OwnerIn(l, j, l[j].prev)
          /\ Accepts(l, j) => l[j].by \in Requests /\ OwnerIn(l, j, Signed[l[j].by].signer)
      BY <2>1 DEF Linked
    <3> QED
      BY <3>1, <3>2, <1>1, OwnerKept DEF Sets, Accepts
  <2>2. CASE j = Len(l) + 1
    <3>1. OwnerIn(l, j, s.eth_address)
      BY <2>2 DEF Linked
    <3>2. OwnerIn(L, j, s.eth_address)
      BY <3>1, <2>2, <1>1, <1>3, OwnerKept
    <3>3. L[j] = ev
      BY <2>2, <1>2
    <3> HIDE DEF L
    <3> QED
      BY <3>2, <3>3 DEF Sets, Accepts
  <2> QED
    BY <2>1, <2>2, <1>2
<1> HIDE DEF L
<1>6. t.log = L
  BY DEF L
<1> QED
  BY <1>4, <1>5, <1>6 DEF Linked

LEMMA UsedAppendedOther ==
  ASSUME NEW l \in Seq(Event), NEW ev \in Event, NEW kind, NEW N, NEW N2, N \subseteq N2,
         UsedOnce(l, kind, N),
         ev.type # "Accepted" \/ Signed[ev.by].kind # kind
  PROVE  UsedOnce(Append(l, ev), kind, N2)
<1> DEFINE L == Append(l, ev)
<1>1. /\ Len(L) = Len(l) + 1 /\ Len(l) \in Nat /\ L[Len(l) + 1] = ev
      /\ \A k \in 1..Len(l) : L[k] = l[k]
      /\ \A k \in 1..Len(L) : k \in 1..Len(l) \/ k = Len(l) + 1
  BY Appended
<1> HIDE DEF L
<1>2. \A k \in 1..Len(L) : Accepts(L, k) /\ Signed[L[k].by].kind = kind =>
        k \in 1..Len(l) /\ L[k] = l[k] /\ Accepts(l, k)
  BY <1>1 DEF Accepts
<1>3. UsedOnce(L, kind, N2)
  BY <1>2 DEF UsedOnce
<1> QED
  BY <1>3 DEF L

LEMMA UsedAppended ==
  ASSUME NEW l \in Seq(Event), NEW ev \in Event, NEW kind, NEW N, NEW N2, N \subseteq N2,
         UsedOnce(l, kind, N), Signed[ev.by].nonce \notin N, Signed[ev.by].nonce \in N2
  PROVE  UsedOnce(Append(l, ev), kind, N2)
<1> DEFINE L == Append(l, ev)
<1>1. /\ Len(L) = Len(l) + 1 /\ Len(l) \in Nat /\ L[Len(l) + 1] = ev
      /\ \A k \in 1..Len(l) : L[k] = l[k]
      /\ \A k \in 1..Len(L) : k \in 1..Len(l) \/ k = Len(l) + 1
  BY Appended
<1> HIDE DEF L
<1>2. \A k \in 1..Len(L) :
        \/ k \in 1..Len(l) /\ L[k] = l[k] /\ (Accepts(L, k) <=> Accepts(l, k))
        \/ k = Len(l) + 1 /\ L[k] = ev
  BY <1>1 DEF Accepts
<1>3. \A k \in 1..Len(L) : Accepts(L, k) /\ Signed[L[k].by].kind = kind =>
        Signed[L[k].by].nonce \in N2
  BY <1>2 DEF UsedOnce
<1>4. ASSUME NEW j \in 1..Len(L), NEW k \in 1..Len(L), Accepts(L, j), Accepts(L, k), j # k,
             Signed[L[j].by].kind = kind, Signed[L[k].by].kind = kind,
             Signed[L[j].by].nonce = Signed[L[k].by].nonce
      PROVE  FALSE
  <2>1. CASE j \in 1..Len(l) /\ L[j] = l[j] /\ k \in 1..Len(l) /\ L[k] = l[k]
    BY <2>1, <1>4 DEF UsedOnce, Accepts
  <2>2. CASE j \in 1..Len(l) /\ L[j] = l[j] /\ L[k] = ev
    BY <2>2, <1>4 DEF UsedOnce, Accepts
  <2>3. CASE k \in 1..Len(l) /\ L[k] = l[k] /\ L[j] = ev
    BY <2>3, <1>4 DEF UsedOnce, Accepts
  <2> QED
    BY <2>1, <2>2, <2>3, <1>2, <1>4
<1>5. UsedOnce(L, kind, N2)
  BY <1>3, <1>4 DEF UsedOnce
<1> QED
  BY <1>5 DEF L

LEMMA AllUsedAppended ==
  ASSUME NEW l \in Seq(Event), NEW ev \in Event, NEW N, AllUsed(l, N), NEW N2,
         \A x \in N2 : x \notin N => /\ ev.type = "Accepted" /\ Signed[ev.by].kind = "outside"
                                   /\ x = Signed[ev.by].nonce
  PROVE  AllUsed(Append(l, ev), N2)
<1> DEFINE L == Append(l, ev)
<1>1. /\ Len(L) = Len(l) + 1 /\ Len(l) \in Nat /\ L[Len(l) + 1] = ev /\ Len(l) + 1 \in 1..Len(L)
      /\ \A k \in 1..Len(l) : L[k] = l[k] /\ k \in 1..Len(L)
  BY Appended
<1> HIDE DEF L
<1>2. AllUsed(L, N2)
  BY <1>1 DEF AllUsed, Accepts
<1> QED
  BY <1>2 DEF L

-----------------------------------------------------------------------------
\* Consistent states.

LEMMA ConsistentLater ==
  ASSUME NEW s, NEW n \in Nat, NEW n2 \in Nat, n <= n2, Consistent(s, n)
  PROVE  Consistent(s, n2)
<1>1. Below(n) \subseteq Below(n2)
  BY DEF Below
<1>2. UsedOnce(s.log, "transaction", Below(n2))
  BY <1>1 DEF Consistent, UsedOnce
<1> QED
  BY <1>2 DEF Consistent

LEMMA ClaimedAppended ==
  ASSUME NEW s \in State, Claimed(s), NEW t \in State, NEW ev \in Event,
         t.log = Append(s.log, ev), t.eth_address # Zero,
         ev.type = "Initialized" => s.eth_address = Zero
  PROVE  Claimed(t)
<1>1. s.log \in Seq(Event)
  BY DEF State
<1>2. /\ Len(t.log) = Len(s.log) + 1 /\ Len(s.log) \in Nat
      /\ t.log[Len(s.log) + 1] = ev
      /\ \A k \in 1..Len(s.log) : t.log[k] = s.log[k]
      /\ \A k \in 1..Len(t.log) : k \in 1..Len(s.log) \/ k = Len(s.log) + 1
  BY <1>1, Appended
<1>3. Len(t.log) # 0
  BY <1>2
<1>4. ASSUME NEW j \in 1..Len(t.log), t.log[j].type = "Initialized"
      PROVE  j = 1
  <2>1. CASE j \in 1..Len(s.log)
    BY <2>1, <1>2, <1>4 DEF Claimed
  <2>2. CASE j = Len(s.log) + 1
    BY <2>2, <1>2, <1>4 DEF Claimed
  <2> QED
    BY <2>1, <2>2, <1>2
<1> QED
  BY <1>3, <1>4 DEF Claimed

\* The owner or the class has changed, by an event that is no request's.
LEMMA ConsistentChanged ==
  ASSUME NEW s, NEW n \in Nat, Consistent(s, n), NEW t \in State, NEW ev \in Event,
         t.log = Append(s.log, ev), t.eth_address # Zero, t.SRC9_nonces = s.SRC9_nonces,
         ev.type = "Initialized" => s.eth_address = Zero,
         \/ /\ ev.type \in {"Initialized", "EthAddressChanged"}
            /\ ev.prev = s.eth_address /\ ev.next = t.eth_address
         \/ ev.type = "Upgraded" /\ t.eth_address = s.eth_address
  PROVE  Consistent(t, n)
<1>1. s \in State /\ Linked(s) /\ Claimed(s) /\ s.log \in Seq(Event)
  BY DEF Consistent, State
<1>2. ev.type # "Accepted"
  OBVIOUS
<1>3. Linked(t) /\ Claimed(t)
  BY <1>1, LinkedAppended, ClaimedAppended
<1>4. /\ UsedOnce(t.log, "outside", t.SRC9_nonces)
      /\ UsedOnce(t.log, "transaction", Below(n))
  BY <1>1, <1>2, UsedAppendedOther DEF Consistent
<1>5. AllUsed(t.log, t.SRC9_nonces)
  BY <1>1, AllUsedAppended DEF Consistent
<1> QED
  BY <1>3, <1>4, <1>5 DEF Consistent

\* A request has been accepted.
LEMMA ConsistentAccepted ==
  ASSUME NEW s, NEW n \in Nat, Consistent(s, n), NEW t \in State, NEW ev \in Event,
         NEW n2 \in Nat, t.log = Append(s.log, ev), ev.type = "Accepted", ev.by \in Requests,
         s.eth_address # Zero, t.eth_address = s.eth_address,
         Signed[ev.by].signer = s.eth_address, Signed[ev.by].nonce \in Nat,
         \/ /\ Signed[ev.by].kind = "outside" /\ Signed[ev.by].nonce \notin s.SRC9_nonces
            /\ t.SRC9_nonces = s.SRC9_nonces \cup {Signed[ev.by].nonce} /\ n2 = n
         \/ /\ Signed[ev.by].kind = "transaction" /\ Signed[ev.by].nonce = n
            /\ t.SRC9_nonces = s.SRC9_nonces /\ n2 = n + 1
  PROVE  Consistent(t, n2)
<1>1. s \in State /\ Linked(s) /\ Claimed(s) /\ s.log \in Seq(Event)
  BY DEF Consistent, State
<1>2. Linked(t) /\ Claimed(t)
  BY <1>1, LinkedAppended, ClaimedAppended
<1>3. CASE /\ Signed[ev.by].kind = "outside" /\ Signed[ev.by].nonce \notin s.SRC9_nonces
           /\ t.SRC9_nonces = s.SRC9_nonces \cup {Signed[ev.by].nonce} /\ n2 = n
  <2>1. UsedOnce(t.log, "outside", t.SRC9_nonces)
    BY <1>1, <1>3, UsedAppended DEF Consistent
  <2>2. UsedOnce(t.log, "transaction", Below(n))
    BY <1>1, <1>3, UsedAppendedOther DEF Consistent
  <2>3. AllUsed(t.log, t.SRC9_nonces)
    BY <1>1, <1>3, AllUsedAppended DEF Consistent
  <2> QED
    BY <2>1, <2>2, <2>3, <1>2, <1>3 DEF Consistent
<1>4. CASE /\ Signed[ev.by].kind = "transaction" /\ Signed[ev.by].nonce = n
           /\ t.SRC9_nonces = s.SRC9_nonces /\ n2 = n + 1
  <2>1. Below(n) \subseteq Below(n2) /\ n \notin Below(n) /\ n \in Below(n2)
    BY <1>4 DEF Below
  <2>2. UsedOnce(t.log, "transaction", Below(n2))
    BY <2>1, <1>1, <1>4, UsedAppended DEF Consistent
  <2>3. UsedOnce(t.log, "outside", t.SRC9_nonces)
    BY <1>1, <1>4, UsedAppendedOther DEF Consistent
  <2>4. AllUsed(t.log, t.SRC9_nonces)
    BY <1>1, <1>4, AllUsedAppended DEF Consistent
  <2> QED
    BY <2>2, <2>3, <2>4, <1>2 DEF Consistent
<1> QED
  BY <1>3, <1>4

-----------------------------------------------------------------------------
\* The stack.

StackOK(st, n) ==
  /\ st \in Seq(Frame)
  /\ \A i \in 1..Len(st) : Consistent(st[i].entry, n) /\ st[i].entry.eth_address # Zero

LEMMA StackTop ==
  ASSUME NEW n, StackOK(stack, n), stack # <<>>
  PROVE  /\ Len(stack) \in 1..Len(stack) /\ Len(stack) \in Nat /\ Len(stack) > 0
         /\ Top \in Frame /\ Top.request \in Requests
         /\ Consistent(Top.entry, n) /\ Top.entry.eth_address # Zero
<1>1. Len(stack) \in Nat /\ Len(stack) # 0
  BY EmptySeq, LenProperties DEF StackOK
<1>2. Len(stack) \in 1..Len(stack) /\ Len(stack) > 0
  BY <1>1
<1>3. Top \in Frame
  BY <1>2, ElementOfSeq DEF StackOK, Top
<1> QED
  BY <1>1, <1>2, <1>3 DEF StackOK, Top, Frame

LEMMA StackPopped ==
  ASSUME NEW n, StackOK(stack, n), stack # <<>>
  PROVE  StackOK(Pop, n)
<1>1. Len(stack) \in Nat /\ Len(stack) > 0 /\ stack \in Seq(Frame)
  BY StackTop DEF StackOK
<1> DEFINE h == Len(stack) - 1
<1>2. /\ h \in Nat /\ \A i \in 1..h : i \in 1..Len(stack)
      /\ 1..h \subseteq 1..Len(stack)
  BY <1>1
<1>3. /\ Pop \in Seq(Frame) /\ Len(Pop) = h
      /\ \A i \in 1..h : Pop[i] = stack[i]
  <2>1. Pop = SubSeq(stack, 1, h)
    BY DEF Pop
  <2> HIDE DEF h
  <2> QED
    BY <2>1, <1>1, <1>2
<1> QED
  BY <1>2, <1>3 DEF StackOK

LEMMA StackAdvanced ==
  ASSUME NEW n, StackOK(stack, n), stack # <<>>
  PROVE  StackOK(Advanced, n)
<1>1. Len(stack) \in 1..Len(stack) /\ Len(stack) \in Nat /\ stack \in Seq(Frame) /\ Top \in Frame
  BY StackTop DEF StackOK
<1> DEFINE f == [Top EXCEPT !.call = @ + 1]
<1>2. f \in Frame /\ f.entry = Top.entry
  BY <1>1 DEF Frame
<1>3. Advanced = [stack EXCEPT ![Len(stack)] = f]
  BY DEF Advanced, Top
<1> HIDE DEF f
<1>4. /\ Advanced \in Seq(Frame) /\ Len(Advanced) = Len(stack)
      /\ \A i \in 1..Len(stack) : Advanced[i] = IF i = Len(stack) THEN f ELSE stack[i]
  BY <1>1, <1>2, <1>3, ExceptSeq
<1>5. \A i \in 1..Len(stack) : Advanced[i].entry = stack[i].entry
  BY <1>2, <1>4 DEF Top
<1> QED
  BY <1>4, <1>5 DEF StackOK

LEMMA StackPushed ==
  ASSUME NEW n, StackOK(stack, n), NEW r \in Requests, NEW s, Consistent(s, n),
         s.eth_address # Zero
  PROVE  LET st == Append(stack, [request |-> r, call |-> 1, entry |-> s])
         IN StackOK(st, n) /\ st # <<>>
<1> DEFINE f  == [request |-> r, call |-> 1, entry |-> s]
           st == Append(stack, f)
<1>1. f \in Frame /\ f.entry = s
  BY DEF Frame, Consistent
<1> HIDE DEF f
<1>2. /\ st \in Seq(Frame) /\ Len(st) = Len(stack) + 1 /\ Len(stack) \in Nat
      /\ st[Len(stack) + 1] = f
      /\ \A k \in 1..Len(stack) : st[k] = stack[k]
  BY <1>1, AppendProperties, LenProperties DEF StackOK
<1>3. \A k \in 1..Len(st) : k \in 1..Len(stack) \/ k = Len(stack) + 1
  BY <1>2
<1>4. st # <<>>
  BY <1>2, EmptySeq
<1> HIDE DEF st
<1>5. StackOK(st, n)
  BY <1>1, <1>2, <1>3 DEF StackOK
<1> QED
  BY <1>4, <1>5 DEF st, f

LEMMA StackLater ==
  ASSUME NEW st, NEW n \in Nat, NEW n2 \in Nat, n <= n2, StackOK(st, n)
  PROVE  StackOK(st, n2)
BY ConsistentLater DEF StackOK

-----------------------------------------------------------------------------
\* The invariant.

LEMMA IInvParts ==
  IInv <=> /\ Now \in State /\ tx_nonce \in Nat /\ now \in 0..MaxTime
           /\ Consistent(Now, tx_nonce) /\ StackOK(stack, tx_nonce)
           /\ (stack # <<>> => eth_address # Zero)
BY DEF IInv, TypeOK, StackOK

LEMMA NewState ==
  ASSUME Now' \in State, tx_nonce' \in Nat, now' \in 0..MaxTime,
         Consistent(Now', tx_nonce'), StackOK(stack', tx_nonce'),
         stack' # <<>> => eth_address' # Zero
  PROVE  IInv'
BY DEF IInv, TypeOK, StackOK

LEMMA NowFields ==
  /\ Now.class = class /\ Now.eth_address = eth_address /\ Now.SRC9_nonces = SRC9_nonces
  /\ Now.src5 = src5 /\ Now.log = log
BY DEF Now

LEMMA Types ==
  ASSUME IInv
  PROVE  /\ class \in Classes /\ eth_address \in EthAddresses \cup {Zero}
         /\ SRC9_nonces \subseteq Nat /\ src5 \subseteq InterfaceIds /\ log \in Seq(Event)
<1>1. Now \in State
  BY IInvParts
<1> QED
  BY <1>1, NowFields DEF State

LEMMA SignedTypes ==
  ASSUME NEW r \in Requests
  PROVE  /\ Signed[r] \in Request /\ Signed[r].signer \in EthAddresses
         /\ Signed[r].nonce \in Nat /\ Signed[r].calls \in Seq(Call)
BY AccountAssumption DEF Request

LEMMA AdminCallTypes ==
  ASSUME NEW call \in AdminCalls
  PROVE  call \in Call
<1>1. PICK r \in Requests : \E i \in 1..Len(Signed[r].calls) : call = Signed[r].calls[i]
  BY DEF AdminCalls
<1> QED
  BY <1>1, SignedTypes, ElementOfSeq

LEMMA InitIInv == Init => IInv
<1> SUFFICES ASSUME Init PROVE IInv
  OBVIOUS
<1>1. /\ <<>> \in Seq(Event) /\ Len(<<>>) = 0 /\ <<>> \in Seq(Frame)
  OBVIOUS
<1>2. Now \in State
  BY <1>1 DEF Init, Now, State
<1>3. Linked(Now)
  BY <1>1 DEF Init, Now, Linked, OwnerIn
<1>4. Claimed(Now)
  BY <1>1 DEF Init, Now, Claimed
<1>5. /\ UsedOnce(Now.log, "outside", Now.SRC9_nonces) /\ AllUsed(Now.log, Now.SRC9_nonces)
      /\ UsedOnce(Now.log, "transaction", Below(tx_nonce))
  BY <1>1 DEF Init, Now, UsedOnce, AllUsed
<1>6. StackOK(stack, tx_nonce)
  BY <1>1 DEF Init, StackOK
<1> QED
  BY <1>2, <1>3, <1>4, <1>5, <1>6, AccountAssumption, IInvParts DEF Init, Consistent

LEMMA InitializeIInv ==
  ASSUME IInv, NEW caller \in Callers, NEW e \in EthAddresses, initialize(caller, e)
  PROVE  IInv'
<1> DEFINE ev == [type |-> "Initialized", by |-> caller, prev |-> Zero, next |-> e]
<1>1. /\ eth_address = Zero /\ eth_address' = e /\ src5' = src5 \cup {ISRC9_V2_ID, ISRC6_ID}
      /\ log' = Append(log, ev) /\ UNCHANGED <<class, SRC9_nonces, tx_nonce, now, stack>>
  BY DEF initialize, Record
<1>2. ev \in Event /\ e # Zero
  BY AccountAssumption DEF Event
<1>3. log' \in Seq(Event)
  BY <1>1, <1>2, Types, AppendProperties
<1>4. Now' \in State
  BY <1>1, <1>3, Types DEF Now, State, InterfaceIds
<1>5. /\ ev.type = "Initialized" /\ ev.prev = Zero /\ ev.next = e
  OBVIOUS
<1> HIDE DEF ev
<1>6. Consistent(Now', tx_nonce)
  <2>1. /\ Now'.log = Append(Now.log, ev) /\ Now'.eth_address = e
        /\ Now'.SRC9_nonces = Now.SRC9_nonces /\ Now.eth_address = Zero
    BY <1>1 DEF Now
  <2> QED
    BY <2>1, <1>2, <1>4, <1>5, IInvParts, ConsistentChanged
<1> QED
  BY <1>1, <1>2, <1>4, <1>6, IInvParts, NewState

LEMMA OutsideIInv ==
  ASSUME IInv, NEW r \in Requests, NEW caller \in Callers, execute_from_outside_v2(r, caller)
  PROVE  IInv'
<1> DEFINE ev == [type |-> "Accepted", by |-> r, prev |-> eth_address, next |-> eth_address]
<1>1. /\ Signed[r].kind = "outside" /\ Signed[r].nonce \notin SRC9_nonces
      /\ Signed[r].signer = eth_address /\ SRC9_nonces' = SRC9_nonces \cup {Signed[r].nonce}
      /\ log' = Append(log, ev)
      /\ stack' = Append(stack, [request |-> r, call |-> 1, entry |-> Now])
      /\ UNCHANGED <<class, eth_address, src5, tx_nonce, now>>
  BY DEF execute_from_outside_v2, is_valid_eth_signature, Record, MarkNonce
<1>2. eth_address \in EthAddresses /\ eth_address # Zero
  BY <1>1, SignedTypes, AccountAssumption
<1>3. ev \in Event
  BY <1>2 DEF Event
<1>4. log' \in Seq(Event)
  BY <1>1, <1>3, Types, AppendProperties
<1>5. Now' \in State
  <2>1. SRC9_nonces' \subseteq Nat
    BY <1>1, SignedTypes, Types
  <2> QED
    BY <2>1, <1>1, <1>4, Types DEF Now, State
<1>6. ev.type = "Accepted" /\ ev.by = r
  OBVIOUS
<1> HIDE DEF ev
<1>7. Consistent(Now', tx_nonce)
  <2>1. /\ Now'.log = Append(Now.log, ev) /\ Now'.eth_address = Now.eth_address
        /\ Now'.SRC9_nonces = Now.SRC9_nonces \cup {Signed[r].nonce}
        /\ Signed[r].signer = Now.eth_address /\ Signed[r].nonce \notin Now.SRC9_nonces
        /\ Now.eth_address # Zero
    BY <1>1, <1>2 DEF Now
  <2>2. Signed[r].nonce \in Nat
    BY SignedTypes
  <2> QED
    BY <2>1, <2>2, <1>1, <1>3, <1>5, <1>6, IInvParts, ConsistentAccepted
<1>8. StackOK(stack', tx_nonce)
  BY <1>1, <1>2, IInvParts, NowFields, StackPushed
<1> QED
  BY <1>1, <1>2, <1>5, <1>7, <1>8, IInvParts, NewState

LEMMA TransactIInv ==
  ASSUME IInv, NEW r \in Requests, Transact(r)
  PROVE  IInv'
<1> DEFINE ev == [type |-> "Accepted", by |-> r, prev |-> eth_address, next |-> eth_address]
<1>1. /\ Signed[r].kind = "transaction" /\ Signed[r].nonce = tx_nonce
      /\ Signed[r].signer = eth_address /\ tx_nonce' = tx_nonce + 1
      /\ UNCHANGED <<class, eth_address, SRC9_nonces, src5, now>>
      /\ \/ /\ log' = Append(log, ev)
            /\ stack' = Append(stack, [request |-> r, call |-> 1, entry |-> Now])
         \/ UNCHANGED <<log, stack>>
  BY DEF Transact, is_valid_eth_signature, Record
<1>2. eth_address \in EthAddresses /\ eth_address # Zero
  BY <1>1, SignedTypes, AccountAssumption
<1>3. tx_nonce \in Nat /\ tx_nonce' \in Nat /\ tx_nonce <= tx_nonce'
  BY <1>1, IInvParts
<1>4. Consistent(Now, tx_nonce') /\ StackOK(stack, tx_nonce')
  BY <1>3, IInvParts, ConsistentLater, StackLater
<1>5. CASE UNCHANGED <<log, stack>>
  <2>1. Now' = Now
    BY <1>1, <1>5 DEF Now
  <2> QED
    BY <2>1, <1>1, <1>2, <1>3, <1>4, <1>5, IInvParts, NewState
<1>6. CASE /\ log' = Append(log, ev)
           /\ stack' = Append(stack, [request |-> r, call |-> 1, entry |-> Now])
  <2>1. ev \in Event
    BY <1>2 DEF Event
  <2>2. log' \in Seq(Event)
    BY <2>1, <1>6, Types, AppendProperties
  <2>3. Now' \in State
    BY <2>2, <1>1, Types DEF Now, State
  <2>4. ev.type = "Accepted" /\ ev.by = r
    OBVIOUS
  <2> HIDE DEF ev
  <2>5. Consistent(Now', tx_nonce')
    <3>1. /\ Now'.log = Append(Now.log, ev) /\ Now'.eth_address = Now.eth_address
          /\ Now'.SRC9_nonces = Now.SRC9_nonces
          /\ Signed[r].signer = Now.eth_address /\ Now.eth_address # Zero
      BY <1>1, <1>2, <1>6 DEF Now
    <3> QED
      BY <3>1, <2>1, <2>3, <2>4, <1>1, <1>3, IInvParts, ConsistentAccepted
  <2>6. StackOK(stack', tx_nonce')
    BY <1>2, <1>4, <1>6, NowFields, StackPushed
  <2> QED
    BY <2>3, <2>5, <2>6, <1>1, <1>2, <1>3, IInvParts, NewState
<1> QED
  BY <1>1, <1>5, <1>6

\* An admin call is made by the account, in the innermost request.
LEMMA OnlySelf ==
  ASSUME IInv, NEW caller, NEW call, Invokes(caller, call), assert_only_self(caller)
  PROVE  /\ stack # <<>> /\ By(caller) \in Requests /\ eth_address # Zero
         /\ (Return(caller) => stack' = Advanced)
<1>1. caller = Self
  BY DEF assert_only_self
<1>2. stack # <<>>
  BY <1>1, AccountAssumption DEF Invokes, Calling
<1> QED
  BY <1>1, <1>2, IInvParts, StackTop DEF By, Return

LEMMA SetOwnerIInv ==
  ASSUME IInv, NEW caller, NEW call \in AdminCalls, set_eth_address(caller, call)
  PROVE  IInv'
<1> DEFINE ev == [type |-> "EthAddressChanged", by |-> By(caller), prev |-> eth_address,
                  next |-> call.eth]
<1>1. /\ eth_address' = call.eth /\ call.eth # Zero /\ log' = Append(log, ev)
      /\ UNCHANGED <<class, SRC9_nonces, src5, tx_nonce, now>>
      /\ Invokes(caller, call) /\ assert_only_self(caller) /\ Return(caller)
  BY DEF set_eth_address, NotZero, Record
<1>2. stack # <<>> /\ By(caller) \in Requests /\ stack' = Advanced
  BY <1>1, OnlySelf
<1>3. call.eth \in EthAddresses
  BY <1>1, AdminCallTypes DEF Call
<1>4. ev \in Event
  BY <1>2, <1>3, Types DEF Event
<1>5. log' \in Seq(Event)
  BY <1>1, <1>4, Types, AppendProperties
<1>6. Now' \in State
  BY <1>1, <1>3, <1>5, Types DEF Now, State
<1>7. ev.type = "EthAddressChanged" /\ ev.prev = eth_address /\ ev.next = call.eth
  OBVIOUS
<1> HIDE DEF ev
<1>8. Consistent(Now', tx_nonce)
  <2>1. /\ Now'.log = Append(Now.log, ev) /\ Now'.eth_address = call.eth
        /\ Now'.SRC9_nonces = Now.SRC9_nonces /\ Now.eth_address = eth_address
    BY <1>1 DEF Now
  <2> QED
    BY <2>1, <1>1, <1>4, <1>6, <1>7, IInvParts, ConsistentChanged
<1>9. StackOK(stack', tx_nonce)
  BY <1>2, IInvParts, StackAdvanced
<1> QED
  BY <1>1, <1>6, <1>8, <1>9, IInvParts, NewState

LEMMA UpgradeIInv ==
  ASSUME IInv, NEW caller, NEW call \in AdminCalls, upgrade(caller, call)
  PROVE  IInv'
<1> DEFINE ev == [type |-> "Upgraded", by |-> By(caller), prev |-> class, next |-> call.class]
<1>1. /\ class' = call.class /\ call.class # Undeclared /\ src5' = src5 \cup call.eic
      /\ log' = Append(log, ev) /\ UNCHANGED <<eth_address, SRC9_nonces, tx_nonce, now>>
      /\ Invokes(caller, call) /\ assert_only_self(caller) /\ Return(caller)
  BY DEF upgrade, Record
<1>2. stack # <<>> /\ By(caller) \in Requests /\ stack' = Advanced /\ eth_address # Zero
  BY <1>1, OnlySelf
<1>3. call.class \in Classes /\ call.eic \subseteq InterfaceIds
  BY <1>1, AdminCallTypes DEF Call
<1>4. ev \in Event
  BY <1>2, <1>3, Types DEF Event
<1>5. log' \in Seq(Event)
  BY <1>1, <1>4, Types, AppendProperties
<1>6. Now' \in State
  BY <1>1, <1>3, <1>5, Types DEF Now, State
<1>7. ev.type = "Upgraded"
  OBVIOUS
<1> HIDE DEF ev
<1>8. Consistent(Now', tx_nonce)
  <2>1. /\ Now'.log = Append(Now.log, ev) /\ Now'.eth_address = Now.eth_address
        /\ Now'.SRC9_nonces = Now.SRC9_nonces /\ Now.eth_address # Zero
    BY <1>1, <1>2 DEF Now
  <2> QED
    BY <2>1, <1>1, <1>4, <1>6, <1>7, IInvParts, ConsistentChanged
<1>9. StackOK(stack', tx_nonce)
  BY <1>2, IInvParts, StackAdvanced
<1> QED
  BY <1>1, <1>2, <1>6, <1>8, <1>9, IInvParts, NewState

\* Only the stack or the clock moves.
LEMMA ChainSame ==
  ASSUME IInv, UNCHANGED <<chain, tx_nonce>>, now' \in 0..MaxTime,
         StackOK(stack', tx_nonce), stack' # <<>> => eth_address # Zero
  PROVE  IInv'
<1>1. Now' = Now /\ eth_address' = eth_address
  BY DEF chain, Now
<1> QED
  BY <1>1, IInvParts, NewState

LEMMA FailsIInv == ASSUME IInv, RequestFails PROVE IInv'
<1>1. stack # <<>>
  BY DEF RequestFails, Calling
<1>2. /\ Top.entry \in State /\ Consistent(Top.entry, tx_nonce) /\ Top.entry.eth_address # Zero
  BY <1>1, IInvParts, StackTop DEF Frame
<1>3. /\ class' = Top.entry.class /\ eth_address' = Top.entry.eth_address
      /\ SRC9_nonces' = Top.entry.SRC9_nonces /\ src5' = Top.entry.src5
      /\ log' = Top.entry.log /\ stack' = Pop /\ UNCHANGED <<tx_nonce, now>>
  BY DEF RequestFails, RolledBack
<1>4. Now' = Top.entry
  BY <1>2, <1>3 DEF Now, State
<1>5. StackOK(stack', tx_nonce)
  BY <1>1, <1>3, IInvParts, StackPopped
<1> QED
  BY <1>2, <1>3, <1>4, <1>5, IInvParts, NewState

LEMMA NextIInv == IInv /\ [Next]_vars => IInv'
<1> SUFFICES ASSUME IInv, [Next]_vars PROVE IInv'
  OBVIOUS
<1>0. /\ now \in 0..MaxTime /\ StackOK(stack, tx_nonce)
      /\ (stack # <<>> => eth_address # Zero)
  BY IInvParts
<1>1. CASE \E caller \in Callers, e \in EthAddresses : initialize(caller, e)
  BY <1>1, InitializeIInv
<1>2. CASE \E r \in Requests, caller \in Callers : execute_from_outside_v2(r, caller)
  BY <1>2, OutsideIInv
<1>3. CASE \E r \in Requests : Transact(r)
  BY <1>3, TransactIInv
<1>4. CASE \E caller \in Callers \cup {Self}, call \in AdminCalls : set_eth_address(caller, call)
  BY <1>4, SetOwnerIInv
<1>5. CASE \E caller \in Callers \cup {Self}, call \in AdminCalls : upgrade(caller, call)
  BY <1>5, UpgradeIInv
<1>6. CASE ExternalReturns
  BY <1>0, <1>6, ChainSame, StackAdvanced DEF ExternalReturns, Calling
<1>7. CASE RequestFails
  BY <1>7, FailsIInv
<1>8. CASE RequestReturns
  BY <1>0, <1>8, ChainSame, StackPopped DEF RequestReturns
<1>9. CASE Tick
  <2>1. now' \in 0..MaxTime
    BY <1>0, <1>9, AccountAssumption DEF Tick
  <2> QED
    BY <2>1, <1>0, <1>9, ChainSame DEF Tick
<1>10. CASE UNCHANGED vars
  BY <1>0, <1>10, ChainSame DEF vars, chain
<1> QED
  BY <1>1, <1>2, <1>3, <1>4, <1>5, <1>6, <1>7, <1>8, <1>9, <1>10 DEF Next

-----------------------------------------------------------------------------
LEMMA LogDomain == IInv => DOMAIN log = 1..Len(log) /\ Len(log) \in Nat
BY Types, LenProperties

LEMMA InvNonces == IInv => NoncesExact
<1> SUFFICES ASSUME IInv PROVE NoncesExact
  OBVIOUS
<1>1. /\ UsedOnce(log, "outside", SRC9_nonces) /\ AllUsed(log, SRC9_nonces)
      /\ UsedOnce(log, "transaction", Below(tx_nonce)) /\ Linked(Now)
  BY IInvParts, NowFields DEF Consistent
<1>2. \A j \in 1..Len(log) : Accepts(log, j) => Signed[log[j].by].kind \in {"outside", "transaction"}
  BY <1>1, NowFields, SignedTypes DEF Linked, Request
<1>3. DOMAIN log = 1..Len(log)
  BY LogDomain
<1>4. \A j, k \in DOMAIN log :
        AcceptedAt(j) /\ AcceptedAt(k) /\ j # k =>
          LET a == Signed[log[j].by]  b == Signed[log[k].by]
          IN a.kind = b.kind => a.nonce # b.nonce
  BY <1>1, <1>2, <1>3 DEF UsedOnce, Accepts, AcceptedAt
<1>5. SRC9_nonces = {Signed[log[j].by].nonce :
                      j \in {k \in DOMAIN log : AcceptedAt(k) /\ Signed[log[k].by].kind = "outside"}}
  BY <1>1, <1>3 DEF UsedOnce, AllUsed, Accepts, AcceptedAt
<1> QED
  BY <1>4, <1>5 DEF NoncesExact

LEMMA InvOwners == IInv => OwnersChain
<1> SUFFICES ASSUME IInv PROVE OwnersChain
  OBVIOUS
<1>1. Linked(Now) /\ DOMAIN log = 1..Len(log)
  BY IInvParts, LogDomain DEF Consistent
<1>2. \A j, e : OwnerIn(log, j, e) <=> OwnerBefore(j, e)
  BY DEF OwnerIn, OwnerBefore, Sets, SetsOwner
<1>3. \A j : (Sets(log, j) <=> SetsOwner(j)) /\ (Accepts(log, j) <=> AcceptedAt(j))
  BY DEF Sets, SetsOwner, Accepts, AcceptedAt
<1> QED
  BY <1>1, <1>2, <1>3, NowFields DEF Linked, OwnersChain

LEMMA InvClaimed == IInv => ClaimedOnce
<1> SUFFICES ASSUME IInv PROVE ClaimedOnce
  OBVIOUS
<1>1. Claimed(Now) /\ DOMAIN log = 1..Len(log) /\ log \in Seq(Event)
  BY IInvParts, LogDomain, Types DEF Consistent
<1>2. (log = <<>>) <=> (Len(log) = 0)
  BY <1>1, EmptySeq
<1> QED
  BY <1>1, <1>2, NowFields DEF Claimed, ClaimedOnce

LEMMA SpecIInv == Spec => []IInv
BY InitIInv, NextIInv, PTL DEF Spec

\* The account's state keeps its types, with every state that a failed call, a
\* reverted transaction or a failed migration brings back.
THEOREM TypeCorrect == Spec => []TypeOK
<1>1. IInv => TypeOK
  BY DEF IInv
<1> QED
  BY <1>1, SpecIInv, PTL

\* No signed request takes effect twice, and the nonces marked as used are those of the
\* outside executions in effect, at every step of any nesting of requests.
THEOREM RequestsOnce == Spec => []NoncesExact
BY SpecIInv, InvNonces, PTL

\* The owners form one chain from the claim to the present owner, and each request in
\* effect was signed by the owner at its place in it.
THEOREM OwnersLinked == Spec => []OwnersChain
BY SpecIInv, InvOwners, PTL

\* initialize claims the account once, before anything else; from then on it has an
\* owner, whichever request is executed, upgraded through or rolled back.
THEOREM ClaimsOnce == Spec => []ClaimedOnce
BY SpecIInv, InvClaimed, PTL

-----------------------------------------------------------------------------
(* Under the owner's control.  What an interrupted request has done, and   *)
(* those that ran inside it, is a matter of the state it was entered in    *)
(* and the state at its level: the present one, or the one the next        *)
(* request was entered in.                                                 *)

WorldAt(st, w, i) == IF i = Len(st) THEN w ELSE st[i + 1].entry

\* The requests accepted from u to w.
New(u, w) == {w.log[j].by : j \in {k \in (Len(u.log) + 1)..Len(w.log) : Accepts(w.log, k)}}

Named(changes) == {changes[k] : k \in DOMAIN changes}
OwnersNamed(rs) == UNION {Named(OwnersOf(r)) : r \in rs}
ClassesNamed(rs) == UNION {Named(ClassesOf(r)) : r \in rs}

Extends(u, w) ==
  /\ Len(u.log) <= Len(w.log)
  /\ \A j \in 1..Len(u.log) : w.log[j] = u.log[j]

\* From u to w the account passed from key to key by what these had signed.
Adds(u, w) ==
  /\ Extends(u, w)
  /\ \A r \in New(u, w) : Signed[r].signer \in {u.eth_address} \cup OwnersNamed(New(u, w))
  /\ w.eth_address \in {u.eth_address} \cup OwnersNamed(New(u, w))
  /\ w.class \in {u.class} \cup ClassesNamed(New(u, w))

\* What the changes at positions below n leave.
LeavesBelow(changes, n, old, new) ==
  \/ (\A m \in DOMAIN changes : ~(m < n)) /\ new = old
  \/ \E k \in DOMAIN changes : /\ k < n /\ new = changes[k]
                               /\ \A m \in DOMAIN changes : m < n => m <= k

Accepted(u, w, r) ==
  LET j == Len(u.log) + 1
  IN j <= Len(w.log) /\ Accepts(w.log, j) /\ w.log[j].by = r

Proceeds(f, w) ==
  /\ Adds(f.entry, w)
  /\ f.call <= Len(Signed[f.request].calls) + 1
  /\ Accepted(f.entry, w, f.request) /\ Signed[f.request].signer = f.entry.eth_address
  /\ New(f.entry, w) = {f.request} =>
       /\ LeavesBelow(OwnersOf(f.request), f.call, f.entry.eth_address, w.eth_address)
       /\ LeavesBelow(ClassesOf(f.request), f.call, f.entry.class, w.class)

Levels(st, w) == \A i \in 1..Len(st) : Proceeds(st[i], WorldAt(st, w, i))

RInv == IInv /\ Levels(stack, Now)

-----------------------------------------------------------------------------
LEMMA StateLog ==
  ASSUME NEW s \in State
  PROVE  /\ s.log \in Seq(Event) /\ Len(s.log) \in Nat /\ DOMAIN s.log = 1..Len(s.log)
         /\ s.class \in Classes /\ s.eth_address \in EthAddresses \cup {Zero}
BY LenProperties DEF State

LEMMA ChangesTyped ==
  ASSUME NEW r \in Requests
  PROVE  /\ DOMAIN OwnersOf(r) \subseteq Nat \ {0} /\ DOMAIN ClassesOf(r) \subseteq Nat \ {0}
         /\ \A k \in 1..Len(Signed[r].calls) :
              /\ k \in DOMAIN OwnersOf(r) <=> Signed[r].calls[k].op = "set_eth_address"
              /\ k \in DOMAIN OwnersOf(r) => OwnersOf(r)[k] = Signed[r].calls[k].eth
              /\ k \in DOMAIN ClassesOf(r) <=> Signed[r].calls[k].op = "upgrade"
              /\ k \in DOMAIN ClassesOf(r) => ClassesOf(r)[k] = Signed[r].calls[k].class
         /\ \A k \in DOMAIN OwnersOf(r) : k <= Len(Signed[r].calls)
         /\ \A k \in DOMAIN ClassesOf(r) : k <= Len(Signed[r].calls)
<1>1. DOMAIN Signed[r].calls = 1..Len(Signed[r].calls) /\ Len(Signed[r].calls) \in Nat
  BY SignedTypes, LenProperties
<1> QED
  BY <1>1 DEF OwnersOf, ClassesOf

\* The next call's change comes after those below.
LEMMA LeavesNext ==
  ASSUME NEW changes, DOMAIN changes \subseteq Nat, NEW n \in Nat, NEW old, NEW new,
         LeavesBelow(changes, n, old, new), NEW now2,
         now2 = IF n \in DOMAIN changes THEN changes[n] ELSE new
  PROVE  LeavesBelow(changes, n + 1, old, now2)
<1>1. \A m \in DOMAIN changes : m \in Nat /\ (m < n + 1 <=> m < n \/ m = n)
  OBVIOUS
<1>2. CASE n \in DOMAIN changes
  <2>1. n < n + 1 /\ now2 = changes[n] /\ \A m \in DOMAIN changes : m < n + 1 => m <= n
    BY <1>1, <1>2
  <2> QED
    BY <1>2, <2>1 DEF LeavesBelow
<1>3. CASE n \notin DOMAIN changes
  <2>1. \A m \in DOMAIN changes : m < n + 1 <=> m < n
    BY <1>1, <1>3
  <2> QED
    BY <1>3, <2>1 DEF LeavesBelow
<1> QED
  BY <1>2, <1>3

LEMMA NewAppended ==
  ASSUME NEW u \in State, NEW w \in State, NEW t \in State, Extends(u, w), NEW ev \in Event,
         t.log = Append(w.log, ev)
  PROVE  /\ Extends(u, t)
         /\ ev.type = "Accepted" => New(u, t) = New(u, w) \cup {ev.by}
         /\ ev.type # "Accepted" => New(u, t) = New(u, w)
<1> DEFINE a == Len(u.log)
           b == Len(w.log)
<1>1. /\ a \in Nat /\ b \in Nat /\ a <= b /\ Len(t.log) = b + 1 /\ t.log[b + 1] = ev
      /\ \A k \in 1..b : t.log[k] = w.log[k]
  BY StateLog, Appended DEF Extends
<1>2. Extends(u, t)
  BY <1>1 DEF Extends
<1>3. \A k \in (a + 1)..b : t.log[k] = w.log[k] /\ (Accepts(t.log, k) <=> Accepts(w.log, k))
  BY <1>1 DEF Accepts
<1>4. Accepts(t.log, b + 1) <=> ev.type = "Accepted"
  BY <1>1 DEF Accepts
<1>5. (a + 1)..(b + 1) = (a + 1)..b \cup {b + 1}
  <2> HIDE DEF a, b
  <2> QED
    BY <1>1
<1>6. New(u, t) = {t.log[j].by : j \in {k \in (a + 1)..(b + 1) : Accepts(t.log, k)}}
      /\ New(u, w) = {w.log[j].by : j \in {k \in (a + 1)..b : Accepts(w.log, k)}}
  BY <1>1 DEF New
<1> HIDE DEF a, b
<1> QED
  BY <1>1, <1>2, <1>3, <1>4, <1>5, <1>6

LEMMA NewNone ==
  ASSUME NEW u \in State
  PROVE  Extends(u, u) /\ New(u, u) = {}
<1>1. Len(u.log) \in Nat
  BY StateLog
<1> QED
  BY <1>1 DEF Extends, New

LEMMA NewSplit ==
  ASSUME NEW u \in State, NEW v \in State, NEW w \in State, Extends(u, v), Extends(v, w)
  PROVE  Extends(u, w) /\ New(u, w) = New(u, v) \cup New(v, w)
<1> DEFINE a == Len(u.log)
           b == Len(v.log)
           c == Len(w.log)
<1>1. /\ a \in Nat /\ b \in Nat /\ c \in Nat /\ a <= b /\ b <= c
      /\ \A k \in 1..a : v.log[k] = u.log[k]
      /\ \A k \in 1..b : w.log[k] = v.log[k]
  BY StateLog DEF Extends
<1>2. Extends(u, w)
  BY <1>1 DEF Extends
<1>3. (a + 1)..c = (a + 1)..b \cup (b + 1)..c /\ (a + 1)..b \subseteq 1..b
  <2> HIDE DEF a, b, c
  <2> QED
    BY <1>1
<1>4. \A k \in (a + 1)..b : w.log[k] = v.log[k] /\ (Accepts(w.log, k) <=> Accepts(v.log, k))
  BY <1>1, <1>3 DEF Accepts
<1>5. /\ New(u, w) = {w.log[j].by : j \in {k \in (a + 1)..c : Accepts(w.log, k)}}
      /\ New(v, w) = {w.log[j].by : j \in {k \in (b + 1)..c : Accepts(w.log, k)}}
      /\ New(u, v) = {v.log[j].by : j \in {k \in (a + 1)..b : Accepts(v.log, k)}}
  BY DEF New
<1> HIDE DEF a, b, c
<1> QED
  BY <1>2, <1>3, <1>4, <1>5

LEMMA AddsTogether ==
  ASSUME NEW u \in State, NEW v \in State, NEW w \in State, Adds(u, v), Adds(v, w)
  PROVE  Adds(u, w) /\ New(u, w) = New(u, v) \cup New(v, w)
<1>1. Extends(u, w) /\ New(u, w) = New(u, v) \cup New(v, w)
  BY NewSplit DEF Adds
<1>2. /\ OwnersNamed(New(u, w)) = OwnersNamed(New(u, v)) \cup OwnersNamed(New(v, w))
      /\ ClassesNamed(New(u, w)) = ClassesNamed(New(u, v)) \cup ClassesNamed(New(v, w))
  BY <1>1 DEF OwnersNamed, ClassesNamed
<1> QED
  BY <1>1, <1>2 DEF Adds

LEMMA AcceptedNew ==
  ASSUME NEW u \in State, NEW w \in State, NEW r, Accepted(u, w, r)
  PROVE  r \in New(u, w)
<1>1. Len(u.log) \in Nat /\ Len(w.log) \in Nat
  BY StateLog
<1>2. Len(u.log) + 1 \in (Len(u.log) + 1)..Len(w.log)
  BY <1>1 DEF Accepted
<1> QED
  BY <1>2 DEF Accepted, New

LEMMA AcceptedKept ==
  ASSUME NEW u \in State, NEW w \in State, NEW t \in State, NEW r,
         Accepted(u, w, r), Extends(w, t)
  PROVE  Accepted(u, t, r)
<1>1. Len(u.log) \in Nat /\ Len(w.log) \in Nat /\ Len(t.log) \in Nat
  BY StateLog
<1>2. Len(u.log) + 1 \in 1..Len(w.log) /\ Len(u.log) + 1 <= Len(t.log)
  BY <1>1 DEF Accepted, Extends
<1>3. t.log[Len(u.log) + 1] = w.log[Len(u.log) + 1]
  BY <1>2 DEF Extends
<1> QED
  BY <1>2, <1>3 DEF Accepted, Accepts

-----------------------------------------------------------------------------
\* A request begins, makes a call, and goes on after one that ran inside it.

LEMMA ProceedsBegins ==
  ASSUME NEW u \in State, NEW w \in State, NEW r \in Requests, NEW ev \in Event,
         w.log = Append(u.log, ev), ev.type = "Accepted", ev.by = r,
         w.eth_address = u.eth_address, w.class = u.class,
         Signed[r].signer = u.eth_address, NEW f \in Frame,
         f.request = r, f.call = 1, f.entry = u
  PROVE  Proceeds(f, w)
<1>1. Extends(u, w) /\ New(u, w) = {r}
  BY NewNone, NewAppended
<1>2. Adds(u, w)
  BY <1>1 DEF Adds
<1>3. Accepted(u, w, r)
  <2>1. Len(w.log) = Len(u.log) + 1 /\ w.log[Len(u.log) + 1] = ev /\ Len(u.log) \in Nat
    BY StateLog, Appended
  <2> QED
    BY <2>1 DEF Accepted, Accepts
<1>4. 1 <= Len(Signed[r].calls) + 1
  BY SignedTypes, LenProperties
<1>5. /\ LeavesBelow(OwnersOf(r), 1, u.eth_address, w.eth_address)
      /\ LeavesBelow(ClassesOf(r), 1, u.class, w.class)
  <2>1. /\ \A m \in DOMAIN OwnersOf(r) : ~(m < 1)
        /\ \A m \in DOMAIN ClassesOf(r) : ~(m < 1)
    BY ChangesTyped
  <2> QED
    BY <2>1 DEF LeavesBelow
<1> QED
  BY <1>2, <1>3, <1>4, <1>5 DEF Proceeds

\* The next call, with what the log says of it, if anything.
LEMMA ProceedsOn ==
  ASSUME NEW f \in Frame, NEW g \in Frame, NEW w \in State, NEW t \in State, Proceeds(f, w),
         f.call <= Len(Signed[f.request].calls), g.call = f.call + 1,
         g.request = f.request, g.entry = f.entry,
         t.log = w.log \/ \E ev \in Event : t.log = Append(w.log, ev) /\ ev.type # "Accepted",
         t.eth_address = IF Signed[f.request].calls[f.call].op = "set_eth_address"
                         THEN Signed[f.request].calls[f.call].eth ELSE w.eth_address,
         t.class = IF Signed[f.request].calls[f.call].op = "upgrade"
                   THEN Signed[f.request].calls[f.call].class ELSE w.class
  PROVE  Proceeds(g, t)
<1> DEFINE r == f.request
           u == f.entry
           k == f.call
<1>1. r \in Requests /\ u \in State /\ k \in Nat \ {0} /\ k \in 1..Len(Signed[r].calls)
  <2>1. r \in Requests /\ u \in State /\ k \in Nat \ {0}
    BY DEF Frame
  <2> QED
    BY <2>1, SignedTypes, LenProperties
<1>2. /\ Adds(u, w) /\ Accepted(u, w, r) /\ Signed[r].signer = u.eth_address
      /\ New(u, w) = {r} => /\ LeavesBelow(OwnersOf(r), k, u.eth_address, w.eth_address)
                            /\ LeavesBelow(ClassesOf(r), k, u.class, w.class)
  BY DEF Proceeds
<1>3. Extends(u, t) /\ New(u, t) = New(u, w) /\ Accepted(u, t, r)
  <2>1. CASE t.log = w.log
    BY <1>2, <2>1 DEF Adds, Extends, New, Accepted
  <2>2. CASE \E ev \in Event : t.log = Append(w.log, ev) /\ ev.type # "Accepted"
    <3>1. PICK ev \in Event : t.log = Append(w.log, ev) /\ ev.type # "Accepted"
      BY <2>2
    <3>2. Extends(u, w) /\ ev \in Event /\ t.log = Append(w.log, ev) /\ ev.type # "Accepted"
      BY <1>2, <3>1 DEF Adds
    <3> HIDE DEF r, u, k
    <3>4. Extends(u, t) /\ New(u, t) = New(u, w)
      BY <1>1, <3>2, NewAppended
    <3>3. Extends(w, t)
      BY <3>1, NewNone, NewAppended
    <3> QED
      BY <1>1, <1>2, <3>3, <3>4, AcceptedKept
  <2> QED
    BY <2>1, <2>2
<1>4. r \in New(u, w)
  BY <1>1, <1>2, AcceptedNew
<1>5. /\ k \in DOMAIN OwnersOf(r) <=> Signed[r].calls[k].op = "set_eth_address"
      /\ k \in DOMAIN OwnersOf(r) => OwnersOf(r)[k] = Signed[r].calls[k].eth
      /\ k \in DOMAIN ClassesOf(r) <=> Signed[r].calls[k].op = "upgrade"
      /\ k \in DOMAIN ClassesOf(r) => ClassesOf(r)[k] = Signed[r].calls[k].class
      /\ DOMAIN OwnersOf(r) \subseteq Nat /\ DOMAIN ClassesOf(r) \subseteq Nat
  BY <1>1, ChangesTyped
<1>6. /\ t.eth_address = IF k \in DOMAIN OwnersOf(r) THEN OwnersOf(r)[k] ELSE w.eth_address
      /\ t.class = IF k \in DOMAIN ClassesOf(r) THEN ClassesOf(r)[k] ELSE w.class
  BY <1>5
<1>7. /\ k \in DOMAIN OwnersOf(r) => OwnersOf(r)[k] \in OwnersNamed(New(u, w))
      /\ k \in DOMAIN ClassesOf(r) => ClassesOf(r)[k] \in ClassesNamed(New(u, w))
  BY <1>4 DEF OwnersNamed, ClassesNamed, Named
<1> HIDE DEF r, u, k
<1>8. Adds(u, t)
  BY <1>2, <1>3, <1>6, <1>7 DEF Adds
<1>9. ASSUME New(u, w) = {r}
      PROVE  /\ LeavesBelow(OwnersOf(r), k + 1, u.eth_address, t.eth_address)
             /\ LeavesBelow(ClassesOf(r), k + 1, u.class, t.class)
  BY <1>1, <1>2, <1>5, <1>6, <1>9, LeavesNext
<1>10. k + 1 <= Len(Signed[r].calls) + 1
  BY <1>1, SignedTypes, LenProperties
<1> QED
  BY <1>2, <1>3, <1>8, <1>9, <1>10 DEF Proceeds, r, u, k

\* A request that ran inside has returned: this one is no longer alone.
LEMMA ProceedsAfter ==
  ASSUME NEW f \in Frame, NEW h \in Frame, NEW w \in State, NEW n, Consistent(w, n),
         Proceeds(f, h.entry), Proceeds(h, w)
  PROVE  Proceeds(f, w)
<1> DEFINE u == f.entry
           v == h.entry
<1>1. u \in State /\ v \in State /\ f.request \in Requests /\ h.request \in Requests
  BY DEF Frame
<1>2. Adds(u, w) /\ New(u, w) = New(u, v) \cup New(v, w)
  BY <1>1, AddsTogether DEF Proceeds
<1>3. Accepted(u, v, f.request) /\ Accepted(v, w, h.request) /\ Extends(v, w)
  BY DEF Proceeds, Adds
<1>4. Accepted(u, w, f.request)
  BY <1>1, <1>3, AcceptedKept
<1>5. h.request \in New(u, w)
  BY <1>1, <1>2, <1>3, AcceptedNew
<1>6. h.request # f.request
  <2> SUFFICES ASSUME h.request = f.request PROVE FALSE
    OBVIOUS
  <2> DEFINE j == Len(u.log) + 1
             k == Len(v.log) + 1
  <2>1. /\ Len(u.log) \in Nat /\ Len(v.log) \in Nat /\ Len(w.log) \in Nat
        /\ j <= Len(v.log) /\ k <= Len(w.log) /\ j <= Len(w.log)
    BY <1>1, <1>3, <1>4, StateLog DEF Accepted
  <2>2. j \in 1..Len(w.log) /\ k \in 1..Len(w.log) /\ j # k
    BY <2>1
  <2>3. Accepts(w.log, j) /\ Accepts(w.log, k) /\ w.log[j].by = w.log[k].by
        /\ w.log[k].by = h.request
    BY <1>3, <1>4 DEF Accepted
  <2>4. Signed[h.request].kind \in {"outside", "transaction"}
    BY <1>1, SignedTypes DEF Request
  <2> HIDE DEF j, k
  <2> QED
    BY <2>2, <2>3, <2>4 DEF Consistent, UsedOnce
<1> QED
  BY <1>2, <1>4, <1>5, <1>6 DEF Proceeds

-----------------------------------------------------------------------------
\* The levels when the innermost request goes on, begins or ends.

LEMMA LevelsTop ==
  ASSUME NEW st \in Seq(Frame), st # <<>>, NEW w, Levels(st, w)
  PROVE  /\ Len(st) \in Nat /\ Len(st) \in 1..Len(st) /\ st[Len(st)] \in Frame
         /\ Proceeds(st[Len(st)], w)
<1>1. Len(st) \in Nat /\ Len(st) \in 1..Len(st)
  BY EmptySeq, LenProperties
<1> QED
  BY <1>1, ElementOfSeq DEF Levels, WorldAt

LEMMA LevelsOn ==
  ASSUME NEW st \in Seq(Frame), st # <<>>, NEW w, NEW t, Levels(st, w),
         NEW g \in Frame, Proceeds(g, t), g.entry = st[Len(st)].entry
  PROVE  Levels([st EXCEPT ![Len(st)] = g], t)
<1> DEFINE st2 == [st EXCEPT ![Len(st)] = g]
           n == Len(st)
<1>1. /\ n \in Nat /\ n \in 1..n /\ Len(st2) = n
      /\ \A i \in 1..n : st2[i] = IF i = n THEN g ELSE st[i]
  BY LevelsTop, ExceptSeq
<1>2. \A i \in 1..n : i # n => i + 1 \in 1..n
  <2> HIDE DEF n
  <2> QED
    BY <1>1
<1>3. \A i \in 1..n : st2[i].entry = st[i].entry
  BY <1>1
<1>4. ASSUME NEW i \in 1..n
      PROVE  Proceeds(st2[i], WorldAt(st2, t, i))
  <2>1. CASE i = n
    BY <2>1, <1>1 DEF WorldAt
  <2>2. CASE i # n
    <3>1. WorldAt(st2, t, i) = WorldAt(st, w, i) /\ st2[i] = st[i]
      BY <2>2, <1>1, <1>2, <1>3 DEF WorldAt
    <3> QED
      BY <3>1 DEF Levels
  <2> QED
    BY <2>1, <2>2
<1> HIDE DEF st2
<1>5. Levels(st2, t)
  BY <1>1, <1>4 DEF Levels
<1> QED
  BY <1>5 DEF st2

LEMMA LevelsPush ==
  ASSUME NEW st \in Seq(Frame), NEW w, NEW t, Levels(st, w),
         NEW f \in Frame, Proceeds(f, t), f.entry = w
  PROVE  Levels(Append(st, f), t)
<1> DEFINE st2 == Append(st, f)
           n == Len(st)
<1>1. /\ n \in Nat /\ Len(st2) = n + 1 /\ st2[n + 1] = f
      /\ \A i \in 1..n : st2[i] = st[i]
  BY LenProperties, AppendProperties
<1>2. /\ \A i \in 1..(n + 1) : i \in 1..n \/ i = n + 1
      /\ \A i \in 1..n : i # n + 1 /\ (i = n \/ i + 1 \in 1..n)
  BY <1>1
<1> HIDE DEF st2
<1>3. ASSUME NEW i \in 1..(n + 1)
      PROVE  Proceeds(st2[i], WorldAt(st2, t, i))
  <2>1. CASE i = n + 1
    BY <2>1, <1>1 DEF WorldAt
  <2>2. CASE i \in 1..n
    <3>1. WorldAt(st2, t, i) = WorldAt(st, w, i) /\ st2[i] = st[i]
      BY <2>2, <1>1, <1>2 DEF WorldAt
    <3> QED
      BY <3>1, <2>2 DEF Levels
  <2> QED
    BY <2>1, <2>2, <1>2
<1>4. Levels(st2, t)
  BY <1>1, <1>3 DEF Levels
<1> QED
  BY <1>4 DEF st2

LEMMA LevelsPop ==
  ASSUME NEW st \in Seq(Frame), st # <<>>, NEW w, NEW t, Levels(st, w),
         Len(st) > 1 => Proceeds(st[Len(st) - 1], t)
  PROVE  Levels(SubSeq(st, 1, Len(st) - 1), t)
<1> DEFINE h == Len(st) - 1
           st2 == SubSeq(st, 1, h)
<1>1. Len(st) \in Nat /\ Len(st) > 0 /\ h + 1 = Len(st)
  BY LevelsTop
<1>2. /\ h \in Nat
      /\ \A i \in 1..h : /\ i \in 1..Len(st) /\ i + 1 \in 1..Len(st) /\ i # Len(st)
                         /\ (i = h \/ i + 1 \in 1..h) /\ Len(st) > 1
  <2>1. h \in Nat
    BY <1>1
  <2> HIDE DEF h
  <2> QED
    BY <2>1, <1>1
<1>3. Len(st2) = h /\ \A i \in 1..h : st2[i] = st[i]
  <2>1. 1..h \subseteq 1..Len(st)
    BY <1>2
  <2> HIDE DEF h
  <2> QED
    BY <2>1, <1>1, <1>2
<1>4. Len(st) > 1 => Proceeds(st[h], t)
  OBVIOUS
<1> HIDE DEF h, st2
<1>5. ASSUME NEW i \in 1..h
      PROVE  Proceeds(st2[i], WorldAt(st2, t, i))
  <2>1. CASE i = h
    BY <2>1, <1>2, <1>3, <1>4 DEF WorldAt
  <2>2. CASE i # h
    <3>1. WorldAt(st2, t, i) = WorldAt(st, w, i) /\ st2[i] = st[i]
      BY <2>2, <1>2, <1>3 DEF WorldAt
    <3> QED
      BY <3>1, <1>2 DEF Levels
  <2> QED
    BY <2>1, <2>2
<1>6. Levels(st2, t)
  BY <1>3, <1>5 DEF Levels
<1> QED
  BY <1>6 DEF st2, h

LEMMA LevelsUnder ==
  ASSUME NEW st \in Seq(Frame), st # <<>>, NEW w, Levels(st, w), Len(st) > 1
  PROVE  /\ st[Len(st) - 1] \in Frame /\ st[Len(st)] \in Frame
         /\ Proceeds(st[Len(st) - 1], st[Len(st)].entry)
<1> DEFINE h == Len(st) - 1
<1>1. Len(st) \in Nat /\ h + 1 = Len(st) /\ h # Len(st) /\ h \in 1..Len(st)
  BY LevelsTop
<1>2. Proceeds(st[h], WorldAt(st, w, h)) /\ WorldAt(st, w, h) = st[Len(st)].entry
  BY <1>1 DEF Levels, WorldAt
<1> QED
  BY <1>1, <1>2, LevelsTop, ElementOfSeq

-----------------------------------------------------------------------------
\* The levels hold at every step.

LEMMA LevelsEmpty == ASSUME NEW w PROVE Levels(<<>>, w)
BY DEF Levels

LEMMA BeginsLevels ==
  ASSUME IInv, IInv', Levels(stack, Now), NEW r \in Requests, eth_address \in EthAddresses,
         Signed[r].signer = eth_address, UNCHANGED <<class, eth_address>>,
         Record("Accepted", r, eth_address, eth_address),
         stack' = Append(stack, [request |-> r, call |-> 1, entry |-> Now])
  PROVE  Levels(stack', Now')
<1> DEFINE f  == [request |-> r, call |-> 1, entry |-> Now]
           ev == [type |-> "Accepted", by |-> r, prev |-> eth_address, next |-> eth_address]
<1>1. Now \in State /\ Now' \in State /\ stack \in Seq(Frame)
  BY IInvParts DEF StackOK, IInv, TypeOK
<1>2. f \in Frame /\ f.request = r /\ f.call = 1 /\ f.entry = Now
  BY <1>1 DEF Frame
<1>3. ev \in Event /\ ev.type = "Accepted" /\ ev.by = r
  BY DEF Event
<1>4. /\ Now'.log = Append(Now.log, ev) /\ Now'.eth_address = Now.eth_address
      /\ Now'.class = Now.class /\ Signed[r].signer = Now.eth_address
  BY DEF Record, Now
<1>5. stack' = Append(stack, f)
  OBVIOUS
<1> HIDE DEF f, ev
<1>6. Proceeds(f, Now')
  BY <1>1, <1>2, <1>3, <1>4, ProceedsBegins
<1> QED
  BY <1>1, <1>2, <1>5, <1>6, LevelsPush

LEMMA GoesOnLevels ==
  ASSUME IInv, IInv', Levels(stack, Now), Calling, stack' = Advanced,
         log' = log \/ \E ev \in Event : log' = Append(log, ev) /\ ev.type # "Accepted",
         eth_address' = IF NextCall.op = "set_eth_address" THEN NextCall.eth ELSE eth_address,
         class' = IF NextCall.op = "upgrade" THEN NextCall.class ELSE class
  PROVE  Levels(stack', Now')
<1> DEFINE f == Top
           g == [f EXCEPT !.call = @ + 1]
<1>1. Now \in State /\ Now' \in State /\ stack \in Seq(Frame) /\ stack # <<>>
  BY IInvParts DEF StackOK, IInv, TypeOK, Calling
<1>2. f \in Frame /\ f = stack[Len(stack)] /\ Proceeds(f, Now)
  BY <1>1, LevelsTop DEF Top
<1>3. /\ g \in Frame /\ g.request = f.request /\ g.entry = f.entry /\ g.call = f.call + 1
  BY <1>2 DEF Frame
<1>4. stack' = [stack EXCEPT ![Len(stack)] = g]
  BY DEF Advanced, Top
<1>5. /\ NextCall = Signed[f.request].calls[f.call]
      /\ f.call <= Len(Signed[f.request].calls)
  BY DEF NextCall, Calling
<1> HIDE DEF f, g
<1>6. /\ Now'.log = Now.log \/ \E ev \in Event : Now'.log = Append(Now.log, ev) /\ ev.type # "Accepted"
      /\ Now'.eth_address = IF Signed[f.request].calls[f.call].op = "set_eth_address"
                            THEN Signed[f.request].calls[f.call].eth ELSE Now.eth_address
      /\ Now'.class = IF Signed[f.request].calls[f.call].op = "upgrade"
                      THEN Signed[f.request].calls[f.call].class ELSE Now.class
  BY <1>5 DEF Now
<1>7. Proceeds(g, Now')
  BY <1>1, <1>2, <1>3, <1>5, <1>6, ProceedsOn
<1> QED
  BY <1>1, <1>2, <1>3, <1>4, <1>7, LevelsOn

LEMMA FailsLevels ==
  ASSUME IInv, Levels(stack, Now), RequestFails
  PROVE  Levels(stack', Now')
<1>1. stack # <<>> /\ stack \in Seq(Frame) /\ Top \in Frame /\ Top.entry \in State
  BY IInvParts, StackTop DEF RequestFails, Calling, Frame, StackOK
<1>2. stack' = SubSeq(stack, 1, Len(stack) - 1) /\ Now' = Top.entry /\ Top = stack[Len(stack)]
  BY <1>1 DEF RequestFails, RolledBack, Now, State, Pop, Top
<1>3. Len(stack) > 1 => Proceeds(stack[Len(stack) - 1], Now')
  BY <1>1, <1>2, LevelsUnder
<1>4. Levels(SubSeq(stack, 1, Len(stack) - 1), Now')
  BY <1>1, <1>3, LevelsPop
<1> QED
  BY <1>2, <1>4

LEMMA ReturnsLevels ==
  ASSUME IInv, Levels(stack, Now), RequestReturns
  PROVE  Levels(stack', Now')
<1>1. stack # <<>> /\ stack \in Seq(Frame) /\ Now \in State /\ Consistent(Now, tx_nonce)
  BY IInvParts DEF RequestReturns, StackOK
<1>2. stack' = SubSeq(stack, 1, Len(stack) - 1) /\ Now' = Now
  BY DEF RequestReturns, chain, Now, Pop
<1>3. ASSUME Len(stack) > 1
      PROVE  Proceeds(stack[Len(stack) - 1], Now)
  BY <1>1, <1>3, LevelsUnder, LevelsTop, ProceedsAfter
<1>4. Levels(SubSeq(stack, 1, Len(stack) - 1), Now)
  BY <1>1, <1>3, LevelsPop
<1> QED
  BY <1>2, <1>4

LEMMA InitLevels == Init => Levels(stack, Now)
BY LevelsEmpty DEF Init

LEMMA OwnerSigns ==
  ASSUME IInv, NEW r \in Requests, is_valid_eth_signature(r)
  PROVE  eth_address \in EthAddresses /\ Signed[r].signer = eth_address
BY SignedTypes DEF is_valid_eth_signature

LEMMA ByItself ==
  ASSUME NEW caller, NEW call, Invokes(caller, call), assert_only_self(caller), Return(caller)
  PROVE  Calling /\ NextCall = call /\ stack' = Advanced
BY AccountAssumption DEF assert_only_self, Invokes, Return

LEMMA NextLevels ==
  ASSUME IInv, IInv', Levels(stack, Now), [Next]_vars
  PROVE  Levels(stack', Now')
<1>1. CASE \E caller \in Callers, e \in EthAddresses : initialize(caller, e)
  <2>1. stack = <<>> /\ stack' = stack
    BY <1>1, IInvParts DEF initialize
  <2> QED
    BY <2>1, LevelsEmpty
<1>2. CASE \E r \in Requests, caller \in Callers : execute_from_outside_v2(r, caller)
  <2>1. PICK r \in Requests : \E caller \in Callers : execute_from_outside_v2(r, caller)
    BY <1>2
  <2>2. /\ is_valid_eth_signature(r) /\ Record("Accepted", r, eth_address, eth_address)
        /\ stack' = Append(stack, [request |-> r, call |-> 1, entry |-> Now])
        /\ UNCHANGED <<class, eth_address>>
    BY <2>1 DEF execute_from_outside_v2
  <2> QED
    BY <2>2, OwnerSigns, BeginsLevels
<1>3. CASE \E r \in Requests : Transact(r)
  <2>1. PICK r \in Requests : Transact(r)
    BY <1>3
  <2>2. /\ is_valid_eth_signature(r) /\ stack = <<>>
        /\ UNCHANGED <<class, eth_address>>
        /\ \/ /\ Record("Accepted", r, eth_address, eth_address)
              /\ stack' = Append(stack, [request |-> r, call |-> 1, entry |-> Now])
           \/ UNCHANGED <<log, stack>>
    BY <2>1 DEF Transact
  <2> QED
    BY <2>2, OwnerSigns, BeginsLevels, LevelsEmpty
<1>4. CASE \E caller \in Callers \cup {Self}, call \in AdminCalls : set_eth_address(caller, call)
  <2>1. PICK caller \in Callers \cup {Self}, call \in AdminCalls : set_eth_address(caller, call)
    BY <1>4
  <2> DEFINE ev == [type |-> "EthAddressChanged", by |-> By(caller), prev |-> eth_address,
                    next |-> call.eth]
  <2>2. /\ Calling /\ NextCall = call /\ stack' = Advanced /\ By(caller) \in Requests
        /\ call.op = "set_eth_address" /\ eth_address' = call.eth /\ call.eth # Zero
        /\ class' = class /\ log' = Append(log, ev)
    BY <2>1, ByItself, OnlySelf DEF set_eth_address, Record, NotZero
  <2>3. ev \in Event /\ ev.type # "Accepted"
    BY <2>2, AdminCallTypes, Types DEF Event, Call
  <2> HIDE DEF ev
  <2> QED
    BY <2>2, <2>3, GoesOnLevels
<1>5. CASE \E caller \in Callers \cup {Self}, call \in AdminCalls : upgrade(caller, call)
  <2>1. PICK caller \in Callers \cup {Self}, call \in AdminCalls : upgrade(caller, call)
    BY <1>5
  <2> DEFINE ev == [type |-> "Upgraded", by |-> By(caller), prev |-> class,
                    next |-> call.class]
  <2>2. /\ Calling /\ NextCall = call /\ stack' = Advanced /\ By(caller) \in Requests
        /\ call.op = "upgrade" /\ class' = call.class /\ call.class # Undeclared
        /\ eth_address' = eth_address /\ log' = Append(log, ev)
    BY <2>1, ByItself, OnlySelf DEF upgrade, Record
  <2>3. ev \in Event /\ ev.type # "Accepted"
    BY <2>2, AdminCallTypes, Types DEF Event, Call
  <2> HIDE DEF ev
  <2> QED
    BY <2>2, <2>3, GoesOnLevels
<1>6. CASE ExternalReturns
  BY <1>6, GoesOnLevels DEF ExternalReturns, chain
<1>7. CASE RequestFails
  BY <1>7, FailsLevels
<1>8. CASE RequestReturns
  BY <1>8, ReturnsLevels
<1>9. CASE Tick
  BY <1>9, LevelsEmpty DEF Tick
<1>10. CASE UNCHANGED vars
  <2>1. stack' = stack /\ Now' = Now
    BY <1>10 DEF vars, Now
  <2> QED
    BY <2>1
<1> QED
  BY <1>1, <1>2, <1>3, <1>4, <1>5, <1>6, <1>7, <1>8, <1>9, <1>10 DEF Next

LEMMA SpecRInv == Spec => []RInv
<1>1. Init => RInv
  BY InitIInv, InitLevels DEF RInv
<1>2. RInv /\ [Next]_vars => RInv'
  BY NextIInv, NextLevels DEF RInv
<1> QED
  BY <1>1, <1>2, PTL DEF Spec

-----------------------------------------------------------------------------
(* The steps of OwnerControl: between transactions it sees the present     *)
(* state, during one the state the transaction began in.                   *)

Base == IF stack = <<>> THEN Now ELSE stack[1].entry

LEMMA BaseFields ==
  /\ Committed(eth_address, stack[1].entry.eth_address) = Base.eth_address
  /\ Committed(class, stack[1].entry.class) = Base.class
  /\ Committed(ThroughIn(log), ThroughIn(stack[1].entry.log)) = ThroughIn(Base.log)
BY DEF Committed, Base, Now

LEMMA BaseFieldsNext ==
  /\ Committed(eth_address, stack[1].entry.eth_address)' = Base'.eth_address
  /\ Committed(class, stack[1].entry.class)' = Base'.class
  /\ Committed(ThroughIn(log), ThroughIn(stack[1].entry.log))' = ThroughIn(Base'.log)
BY DEF Committed, Base, Now, ThroughIn

\* The requests in effect in w that were not in u are those accepted in between.
LEMMA NewDone ==
  ASSUME NEW u \in State, NEW w \in State, NEW n, Extends(u, w), Consistent(w, n)
  PROVE  /\ ThroughIn(w.log) = ThroughIn(u.log) \cup New(u, w)
         /\ ThroughIn(w.log) \ ThroughIn(u.log) = New(u, w)
         /\ ThroughIn(w.log) \subseteq Requests
<1> DEFINE a == Len(u.log)
           b == Len(w.log)
<1>1. /\ a \in Nat /\ b \in Nat /\ a <= b
      /\ \A k \in 1..a : w.log[k] = u.log[k]
      /\ DOMAIN u.log = 1..a /\ DOMAIN w.log = 1..b
  BY StateLog DEF Extends
<1>2. /\ ThroughIn(w.log) = {w.log[j].by : j \in {k \in 1..b : Accepts(w.log, k)}}
      /\ ThroughIn(u.log) = {u.log[j].by : j \in {k \in 1..a : Accepts(u.log, k)}}
      /\ New(u, w) = {w.log[j].by : j \in {k \in (a + 1)..b : Accepts(w.log, k)}}
  BY <1>1 DEF ThroughIn, New, Accepts
<1> HIDE DEF a, b
<1>3. /\ 1..b = 1..a \cup (a + 1)..b
      /\ \A j \in 1..a, k \in (a + 1)..b : j \in 1..b /\ k \in 1..b /\ j # k
  BY <1>1
<1>4. \A k \in 1..a : w.log[k] = u.log[k] /\ (Accepts(w.log, k) <=> Accepts(u.log, k))
  BY <1>1 DEF Accepts
<1>5. ThroughIn(w.log) = ThroughIn(u.log) \cup New(u, w)
  BY <1>2, <1>3, <1>4
<1>6. \A j \in 1..b : Accepts(w.log, j) => w.log[j].by \in Requests
  BY DEF Consistent, Linked, b
<1>7. ASSUME NEW r \in New(u, w), r \in ThroughIn(u.log)
      PROVE  FALSE
  <2>1. PICK j \in 1..a : Accepts(w.log, j) /\ w.log[j].by = r
    BY <1>2, <1>4, <1>7
  <2>2. PICK k \in (a + 1)..b : Accepts(w.log, k) /\ w.log[k].by = r
    BY <1>2
  <2>3. j \in 1..b /\ k \in 1..b /\ j # k /\ r \in Requests
    BY <2>1, <2>2, <1>3, <1>6
  <2>4. Signed[r].kind \in {"outside", "transaction"}
    BY <2>3, SignedTypes DEF Request
  <2> QED
    BY <2>1, <2>2, <2>3, <2>4 DEF Consistent, UsedOnce, b
<1> QED
  BY <1>2, <1>5, <1>6, <1>7

\* Different requests in effect have used different nonces.
LEMMA SlotsDiffer ==
  ASSUME NEW w \in State, NEW n, Consistent(w, n),
         NEW b \in ThroughIn(w.log), NEW c \in ThroughIn(w.log), b # c
  PROVE  <<Signed[b].kind, Signed[b].nonce>> # <<Signed[c].kind, Signed[c].nonce>>
<1>1. DOMAIN w.log = 1..Len(w.log)
  BY StateLog
<1>2. PICK j \in 1..Len(w.log) : Accepts(w.log, j) /\ w.log[j].by = b
  BY <1>1 DEF ThroughIn, Accepts
<1>3. PICK k \in 1..Len(w.log) : Accepts(w.log, k) /\ w.log[k].by = c
  BY <1>1 DEF ThroughIn, Accepts
<1>4. b \in Requests /\ c \in Requests /\ j # k
  BY <1>2, <1>3 DEF Consistent, Linked
<1>5. Signed[b].kind \in {"outside", "transaction"} /\ Signed[c].kind \in {"outside", "transaction"}
  BY <1>4, SignedTypes DEF Request
<1>6. ~(Signed[b].kind = Signed[c].kind /\ Signed[b].nonce = Signed[c].nonce)
  BY <1>2, <1>3, <1>4, <1>5 DEF Consistent, UsedOnce
<1> QED
  BY <1>6

\* All calls made, the changes below the next are all of them.
LEMMA LeavesAll ==
  ASSUME NEW changes, NEW n \in Nat, NEW m \in Nat, n > m, DOMAIN changes \subseteq Nat,
         \A k \in DOMAIN changes : k <= m, NEW old, NEW new, LeavesBelow(changes, n, old, new)
  PROVE  Control!Leaves(changes, old, new)
<1>1. \A k \in DOMAIN changes : k \in Nat /\ k < n
  OBVIOUS
<1> QED
  BY <1>1 DEF LeavesBelow, Control!Leaves

LEMMA NamedOwners ==
  ASSUME NEW rs, rs \subseteq Requests
  PROVE  /\ UNION {Control!Named([r \in Requests |-> OwnersOf(r)][c]) : c \in rs} = OwnersNamed(rs)
         /\ UNION {Control!Named([r \in Requests |-> ClassesOf(r)][c]) : c \in rs} = ClassesNamed(rs)
<1>1. \A c \in rs : /\ Control!Named([r \in Requests |-> OwnersOf(r)][c]) = Named(OwnersOf(c))
                    /\ Control!Named([r \in Requests |-> ClassesOf(r)][c]) = Named(ClassesOf(c))
  BY DEF Control!Named, Named
<1> QED
  BY <1>1 DEF OwnersNamed, ClassesNamed

\* The outermost request has made all its calls: what lies between u and w is a
\* transaction of OwnerControl.
LEMMA ControlTransacts ==
  ASSUME NEW f \in Frame, NEW u \in State, NEW w \in State, NEW n, Consistent(w, n),
         f.entry = u, Proceeds(f, w), f.call > Len(Signed[f.request].calls),
         Base = u, Base' = w
  PROVE  Control!Next
<1> DEFINE new == New(u, w)
           r == f.request
<1>1. /\ Adds(u, w) /\ Extends(u, w) /\ Accepted(u, w, r) /\ Signed[r].signer = u.eth_address
      /\ r \in Requests /\ f.call \in Nat
  BY DEF Proceeds, Adds, Frame
<1>2. /\ ThroughIn(w.log) = ThroughIn(u.log) \cup new
      /\ ThroughIn(w.log) \ ThroughIn(u.log) = new
      /\ new \subseteq Requests /\ ThroughIn(w.log) \subseteq Requests
  BY <1>1, NewDone
<1>3. r \in new
  BY <1>1, AcceptedNew
<1>4. /\ \A b \in new : Signed[b].signer \in {u.eth_address} \cup OwnersNamed(new)
      /\ w.eth_address \in {u.eth_address} \cup OwnersNamed(new)
      /\ w.class \in {u.class} \cup ClassesNamed(new)
  BY <1>1 DEF Adds
<1>5. \A b \in new, c \in ThroughIn(w.log) : b # c =>
        <<Signed[b].kind, Signed[b].nonce>> # <<Signed[c].kind, Signed[c].nonce>>
  BY <1>2, SlotsDiffer
<1>6. ASSUME NEW b \in new, new = {b}
      PROVE  /\ Control!Leaves(OwnersOf(b), u.eth_address, w.eth_address)
             /\ Control!Leaves(ClassesOf(b), u.class, w.class)
  <2>1. b = r
    BY <1>3, <1>6
  <2>2. /\ LeavesBelow(OwnersOf(r), f.call, u.eth_address, w.eth_address)
        /\ LeavesBelow(ClassesOf(r), f.call, u.class, w.class)
    BY <2>1, <1>6 DEF Proceeds
  <2>3. Len(Signed[r].calls) \in Nat
    BY <1>1, SignedTypes, LenProperties
  <2>4. /\ DOMAIN OwnersOf(r) \subseteq Nat /\ DOMAIN ClassesOf(r) \subseteq Nat
        /\ \A k \in DOMAIN OwnersOf(r) : k <= Len(Signed[r].calls)
        /\ \A k \in DOMAIN ClassesOf(r) : k <= Len(Signed[r].calls)
    BY <1>1, ChangesTyped
  <2> QED
    BY <2>1, <2>2, <2>3, <2>4, <1>1, LeavesAll
<1>7. /\ UNION {Control!Named([x \in Requests |-> OwnersOf(x)][c]) : c \in new} = OwnersNamed(new)
      /\ UNION {Control!Named([x \in Requests |-> ClassesOf(x)][c]) : c \in new} = ClassesNamed(new)
  BY <1>2, NamedOwners
<1> HIDE DEF new, r
<1>8. Control!Transact(new)
  BY <1>1, <1>2, <1>3, <1>4, <1>5, <1>6, <1>7, BaseFields, BaseFieldsNext DEF Control!Transact
<1>9. Control!Transact(ThroughIn(Base'.log) \ ThroughIn(Base.log))
  BY <1>2, <1>8
<1> QED
  BY <1>9, BaseFields, BaseFieldsNext DEF Control!Next

ControlStep == [Control!Next]_(Control!vars)

LEMMA BaseStays == Base' = Base => ControlStep
BY BaseFields, BaseFieldsNext DEF ControlStep, Control!vars

LEMMA BaseClaimed ==
  ASSUME IInv, IInv', NEW caller \in Callers, NEW e \in EthAddresses, initialize(caller, e)
  PROVE  ControlStep
<1> DEFINE ev == [type |-> "Initialized", by |-> caller, prev |-> Zero, next |-> e]
<1>1. /\ stack = <<>> /\ stack' = <<>> /\ eth_address = Zero /\ eth_address' = e
      /\ class' = class /\ log' = Append(log, ev)
  BY IInvParts DEF initialize, Record
<1>2. Base = Now /\ Base' = Now'
  BY <1>1 DEF Base, Now
<1>3. Now \in State /\ Now' \in State /\ Consistent(Now', tx_nonce')
  BY DEF IInv, Consistent
<1>4. ev \in Event /\ ev.type # "Accepted"
  BY DEF Event
<1> HIDE DEF ev
<1>5. Extends(Now, Now') /\ New(Now, Now') = {}
  <2>1. Now'.log = Append(Now.log, ev)
    BY <1>1 DEF Now
  <2>2. Extends(Now, Now) /\ New(Now, Now) = {}
    BY <1>3, NewNone
  <2> QED
    BY <2>1, <2>2, <1>3, <1>4, NewAppended
<1>6. ThroughIn(Now'.log) = ThroughIn(Now.log) \cup {}
  BY <1>3, <1>5, NewDone
<1>7. ThroughIn(Now'.log) = ThroughIn(Now.log)
  BY <1>6
<1>8. /\ Now.eth_address = Zero /\ Now'.eth_address = e /\ Now'.class = Now.class
  BY <1>1 DEF Now
<1> QED
  BY <1>2, <1>7, <1>8, BaseFields, BaseFieldsNext DEF ControlStep, Control!Next, Control!Claim

LEMMA BaseBegins ==
  ASSUME IInv, NEW f, f.entry = Now, stack' = Append(stack, f)
  PROVE  Base' = Base
<1>1. stack \in Seq(Frame) /\ Len(stack) \in Nat
  BY IInvParts, LenProperties DEF StackOK
<1>2. CASE stack = <<>>
  <2>1. stack' = <<f>>
    BY <1>2
  <2> QED
    BY <2>1, <1>2 DEF Base
<1>3. CASE stack # <<>>
  <2>1. 1 \in 1..Len(stack)
    BY <1>1, <1>3, EmptySeq
  <2>2. stack'[1] = stack[1] /\ Len(stack') = Len(stack) + 1
    BY <2>1, <1>1
  <2>3. stack' # <<>>
    BY <2>2, <1>1
  <2> QED
    BY <2>2, <2>3, <1>3 DEF Base
<1> QED
  BY <1>2, <1>3

LEMMA BaseGoesOn ==
  ASSUME IInv, stack # <<>>, stack' = Advanced
  PROVE  Base' = Base
<1>1. /\ stack \in Seq(Frame) /\ Len(stack) \in 1..Len(stack) /\ Len(stack) \in Nat
      /\ Top \in Frame
  BY IInvParts, StackTop DEF StackOK
<1> DEFINE g == [Top EXCEPT !.call = @ + 1]
<1>2. g \in Frame /\ g.entry = Top.entry
  BY <1>1 DEF Frame
<1>3. stack' = [stack EXCEPT ![Len(stack)] = g]
  BY DEF Advanced, Top
<1> HIDE DEF g
<1>4. /\ Len(stack') = Len(stack) /\ 1 \in 1..Len(stack)
      /\ \A i \in 1..Len(stack) : stack'[i] = IF i = Len(stack) THEN g ELSE stack[i]
  BY <1>1, <1>2, <1>3, ExceptSeq
<1>5. stack'[1].entry = stack[1].entry
  BY <1>2, <1>4 DEF Top
<1>6. stack' # <<>>
  BY <1>1, <1>4
<1> QED
  BY <1>5, <1>6 DEF Base

LEMMA BasePopped ==
  ASSUME IInv, stack # <<>>, stack' = Pop
  PROVE  IF Len(stack) = 1 THEN Base = Top.entry /\ Base' = Now' ELSE Base' = Base
<1>1. stack \in Seq(Frame) /\ Len(stack) \in Nat /\ Len(stack) > 0
  BY IInvParts, StackTop DEF StackOK
<1> DEFINE h == Len(stack) - 1
<1>2. CASE Len(stack) = 1
  <2>1. stack' = <<>>
    BY <1>1, <1>2 DEF Pop
  <2>2. Base = Top.entry
    BY <1>2 DEF Base, Top
  <2>3. Base' = Now'
    BY <2>1 DEF Base, Now
  <2> QED
    BY <1>2, <2>2, <2>3
<1>3. CASE Len(stack) # 1
  <2>0. \A n \in Nat : n > 0 /\ n # 1 => n - 1 \in Nat /\ n - 1 > 0
    OBVIOUS
  <2>1. h \in Nat /\ h > 0
    BY <1>1, <1>3, <2>0
  <2>2. 1 \in 1..h /\ 1..h \subseteq 1..Len(stack)
    BY <1>1, <2>1
  <2>3. stack' = SubSeq(stack, 1, h)
    BY DEF Pop
  <2> HIDE DEF h
  <2>4. Len(stack') = h /\ stack'[1] = stack[1]
    BY <2>1, <2>2, <2>3, <1>1
  <2>5. stack' # <<>>
    BY <2>1, <2>4
  <2> QED
    BY <2>4, <2>5, <1>3 DEF Base
<1> QED
  BY <1>2, <1>3

LEMMA NextControl ==
  ASSUME RInv, RInv', [Next]_vars
  PROVE  ControlStep
<1>0. IInv /\ IInv' /\ Levels(stack, Now)
  BY DEF RInv
<1>1. CASE \E caller \in Callers, e \in EthAddresses : initialize(caller, e)
  BY <1>0, <1>1, BaseClaimed
<1>2. CASE \E r \in Requests, caller \in Callers : execute_from_outside_v2(r, caller)
  <2>1. PICK r \in Requests : stack' = Append(stack, [request |-> r, call |-> 1, entry |-> Now])
    BY <1>2 DEF execute_from_outside_v2
  <2> QED
    BY <2>1, <1>0, BaseBegins, BaseStays
<1>3. CASE \E r \in Requests : Transact(r)
  <2>1. PICK r \in Requests : Transact(r)
    BY <1>3
  <2>2. CASE stack' = Append(stack, [request |-> r, call |-> 1, entry |-> Now])
    BY <2>2, <1>0, BaseBegins, BaseStays
  <2>3. CASE UNCHANGED <<log, stack>>
    <3>1. Now' = Now
      BY <2>1, <2>3 DEF Transact, Now
    <3> QED
      BY <3>1, <2>3, BaseStays DEF Base
  <2> QED
    BY <2>1, <2>2, <2>3 DEF Transact
<1>4. CASE \E caller \in Callers \cup {Self}, call \in AdminCalls : set_eth_address(caller, call)
  BY <1>0, <1>4, OnlySelf, BaseGoesOn, BaseStays DEF set_eth_address
<1>5. CASE \E caller \in Callers \cup {Self}, call \in AdminCalls : upgrade(caller, call)
  BY <1>0, <1>5, OnlySelf, BaseGoesOn, BaseStays DEF upgrade
<1>6. CASE ExternalReturns
  BY <1>0, <1>6, BaseGoesOn, BaseStays DEF ExternalReturns, Calling
<1>7. CASE RequestFails
  <2>1. stack # <<>> /\ stack' = Pop /\ Top \in Frame
    BY <1>0, <1>7, IInvParts, StackTop DEF RequestFails, Calling
  <2>2. Now' = Top.entry
    BY <1>7, <2>1 DEF RequestFails, RolledBack, Now, State, Frame
  <2> QED
    BY <1>0, <2>1, <2>2, BasePopped, BaseStays
<1>8. CASE RequestReturns
  <2>1. stack # <<>> /\ ~Calling /\ stack' = Pop /\ Now' = Now /\ stack \in Seq(Frame)
    BY <1>0, <1>8, IInvParts DEF RequestReturns, chain, Now, StackOK
  <2>2. CASE Len(stack) = 1
    <3>1. Base = Top.entry /\ Base' = Now
      BY <1>0, <2>1, <2>2, BasePopped
    <3>2. Top \in Frame /\ Top.entry \in State /\ Top = stack[Len(stack)]
      BY <1>0, <2>1, IInvParts, StackTop DEF Top, Frame
    <3>3. Proceeds(Top, Now) /\ Now \in State /\ Consistent(Now, tx_nonce)
      BY <1>0, <2>1, <3>2, LevelsTop, IInvParts
    <3>4. Top.call > Len(Signed[Top.request].calls)
      <4>1. Len(Signed[Top.request].calls) \in Nat /\ Top.call \in Nat
        BY <3>2, SignedTypes, LenProperties DEF Frame
      <4> QED
        BY <4>1, <2>1 DEF Calling
    <3> QED
      BY <3>1, <3>2, <3>3, <3>4, ControlTransacts DEF ControlStep
  <2>3. CASE Len(stack) # 1
    BY <1>0, <2>1, <2>3, BasePopped, BaseStays
  <2> QED
    BY <2>2, <2>3
<1>9. CASE Tick
  <2>1. Now' = Now /\ stack' = stack
    BY <1>9 DEF Tick, chain, Now
  <2> QED
    BY <2>1, BaseStays DEF Base
<1>10. CASE UNCHANGED vars
  <2>1. Now' = Now /\ stack' = stack
    BY <1>10 DEF vars, Now
  <2> QED
    BY <2>1, BaseStays DEF Base
<1> QED
  BY <1>1, <1>2, <1>3, <1>4, <1>5, <1>6, <1>7, <1>8, <1>9, <1>10 DEF Next

LEMMA InitControl == Init => Control!Init
BY DEF Init, Control!Init, Committed, ThroughIn

\* The account stays under its owner's control: seen between transactions, it changes
\* hands and code only through requests its owner has signed, or keys the owner has handed
\* it to, whatever else is submitted while they run; each counts once, and one that runs
\* alone leaves what its last call of each kind sets.
THEOREM ControlImplemented == Spec => UnderOwnerControl
<1>1. RInv /\ RInv' /\ [Next]_vars => [Control!Next]_(Control!vars)
  BY NextControl DEF ControlStep
<1> QED
  BY <1>1, InitControl, SpecRInv, PTL DEF Spec, UnderOwnerControl, Control!Spec

-----------------------------------------------------------------------------
(* Whole batches.  Every state a failure may bring back tells, of the      *)
(* requests of the frames below it, the calls they had made by then.       *)

\* The admin calls of r made, where only the first n frames are running.
MadeBelow(st, n, r) ==
  {k \in DOMAIN Signed[r].calls :
     /\ IsAdmin(Signed[r].calls[k])
     /\ \A i \in 1..n : st[i].request = r => k < st[i].call}

ChangesIn(l, r) ==
  {j \in 1..Len(l) : l[j].type \in {"EthAddressChanged", "Upgraded"} /\ l[j].by = r}

Matches(l, C, calls, M) ==
  /\ Cardinality(C) = Cardinality(M)
  /\ \A j \in C, k \in M : Rank(C, j) = Rank(M, k) => Tells(l[j], calls[k])

Eics(r, M) ==
  UNION {Signed[r].calls[k].eic : k \in {m \in M : Signed[r].calls[m].op = "upgrade"}}

Interfaces(e) == IF e = Zero THEN {} ELSE {ISRC6_ID, ISRC9_V2_ID}

RequestWhole(l, r, M) ==
  IF r \in ThroughIn(l) THEN Matches(l, ChangesIn(l, r), Signed[r].calls, M)
                        ELSE ChangesIn(l, r) = {}

WholeAt(w, st, n) ==
  /\ \A i \in 1..n : st[i].request \in ThroughIn(w.log)
  /\ \A r \in Requests : RequestWhole(w.log, r, MadeBelow(st, n, r))
  /\ w.src5 = Interfaces(w.eth_address)
              \cup UNION {Eics(r, MadeBelow(st, n, r)) : r \in ThroughIn(w.log)}

\* The first n frames: no request runs twice, and each was entered in a whole state.
FramesWhole(st, n) ==
  /\ \A i \in 1..n : WholeAt(st[i].entry, st, i - 1)
  /\ \A i, j \in 1..n : i # j => st[i].request # st[j].request

Saved(st, w) == WholeAt(w, st, Len(st)) /\ FramesWhole(st, Len(st))

WInv == IInv /\ Saved(stack, Now)

-----------------------------------------------------------------------------
\* Ranks.

LEMMA RankLast ==
  ASSUME NEW S, IsFiniteSet(S), S \subseteq Nat, NEW p \in Nat, \A m \in S : m < p
  PROVE  /\ IsFiniteSet(S \cup {p}) /\ Cardinality(S \cup {p}) = Cardinality(S) + 1
         /\ Cardinality(S) \in Nat
         /\ Rank(S \cup {p}, p) = Cardinality(S)
         /\ \A j \in S : Rank(S \cup {p}, j) = Rank(S, j) /\ Rank(S, j) < Cardinality(S)
<1>1. p \notin S
  OBVIOUS
<1>2. IsFiniteSet(S \cup {p}) /\ Cardinality(S \cup {p}) = Cardinality(S) + 1 /\ Cardinality(S) \in Nat
  BY <1>1, FS_AddElement, FS_CardinalityType
<1>3. {m \in S \cup {p} : m < p} = S
  <2>1. \A m \in S \cup {p} : m < p <=> m \in S
    BY <1>1
  <2> QED
    BY <2>1
<1>4. ASSUME NEW j \in S
      PROVE  Rank(S \cup {p}, j) = Rank(S, j) /\ Rank(S, j) < Cardinality(S)
  <2> DEFINE B == {m \in S : m < j}
  <2>1. j \in Nat /\ j < p
    OBVIOUS
  <2>2. {m \in S \cup {p} : m < j} = B
    BY <2>1
  <2>3. B \in SUBSET S /\ j \notin B
    BY <2>1
  <2> HIDE DEF B
  <2>4. /\ Cardinality(B) <= Cardinality(S)
        /\ (Cardinality(S) = Cardinality(B) => S = B)
        /\ IsFiniteSet(B)
    BY <2>3, FS_Subset
  <2>5. Cardinality(B) \in Nat /\ Cardinality(B) # Cardinality(S)
    BY <2>3, <2>4, FS_CardinalityType
  <2>6. Cardinality(B) < Cardinality(S)
    BY <2>4, <2>5, <1>2
  <2> QED
    BY <2>2, <2>6 DEF Rank, B
<1> QED
  BY <1>2, <1>3, <1>4 DEF Rank

LEMMA MatchesAppended ==
  ASSUME NEW l \in Seq(Event), NEW ev \in Event, NEW C, C \subseteq 1..Len(l),
         NEW M, IsFiniteSet(M), M \subseteq Nat, NEW k0 \in Nat, \A m \in M : m < k0,
         NEW calls, Matches(l, C, calls, M), Tells(ev, calls[k0])
  PROVE  Matches(Append(l, ev), C \cup {Len(l) + 1}, calls, M \cup {k0})
<1> DEFINE L == Append(l, ev)
           p == Len(l) + 1
           C2 == C \cup {p}
           M2 == M \cup {k0}
<1>1. /\ Len(l) \in Nat /\ p \in Nat /\ L[p] = ev
      /\ \A k \in 1..Len(l) : L[k] = l[k] /\ k < p /\ k \in Nat
  BY Appended
<1>2. IsFiniteSet(C)
  <2>1. IsFiniteSet(1..Len(l))
    BY <1>1, FS_Interval
  <2> QED
    BY <2>1, FS_Subset
<1> HIDE DEF L, p
<1>3. C \subseteq Nat /\ \A m \in C : m < p
  BY <1>1
<1>4. /\ Cardinality(C2) = Cardinality(C) + 1 /\ Rank(C2, p) = Cardinality(C)
      /\ \A j \in C : Rank(C2, j) = Rank(C, j) /\ Rank(C, j) < Cardinality(C)
      /\ Cardinality(C) \in Nat
  BY <1>1, <1>2, <1>3, RankLast
<1>5. /\ Cardinality(M2) = Cardinality(M) + 1 /\ Rank(M2, k0) = Cardinality(M)
      /\ \A k \in M : Rank(M2, k) = Rank(M, k) /\ Rank(M, k) < Cardinality(M)
  BY RankLast
<1>6. Cardinality(C) = Cardinality(M)
  BY DEF Matches
<1>7. ASSUME NEW j \in C2, NEW k \in M2, Rank(C2, j) = Rank(M2, k)
      PROVE  Tells(L[j], calls[k])
  <2>1. CASE j \in C /\ k \in M
    <3>1. Rank(C, j) = Rank(M, k) /\ L[j] = l[j]
      BY <2>1, <1>1, <1>4, <1>5, <1>7
    <3> QED
      BY <3>1, <2>1 DEF Matches
  <2>2. CASE j \in C /\ k = k0
    BY <2>2, <1>4, <1>5, <1>6, <1>7
  <2>3. CASE j = p /\ k \in M
    BY <2>3, <1>4, <1>5, <1>6, <1>7
  <2>4. CASE j = p /\ k = k0
    BY <2>4, <1>1
  <2> QED
    BY <2>1, <2>2, <2>3, <2>4
<1>8. Cardinality(C2) = Cardinality(M2)
  BY <1>4, <1>5, <1>6
<1> HIDE DEF C2, M2
<1>9. Matches(L, C2, calls, M2)
  BY <1>7, <1>8 DEF Matches
<1> QED
  BY <1>9 DEF L, C2, M2, p

LEMMA ChangesAppended ==
  ASSUME NEW l \in Seq(Event), NEW ev \in Event, NEW r
  PROVE  /\ ChangesIn(l, r) \subseteq 1..Len(l)
         /\ IF ev.type \in {"EthAddressChanged", "Upgraded"} /\ ev.by = r
            THEN ChangesIn(Append(l, ev), r) = ChangesIn(l, r) \cup {Len(l) + 1}
            ELSE ChangesIn(Append(l, ev), r) = ChangesIn(l, r)
<1> DEFINE L == Append(l, ev)
<1>1. /\ Len(L) = Len(l) + 1 /\ L[Len(l) + 1] = ev
      /\ Len(l) + 1 \in 1..Len(L)
      /\ \A k \in 1..Len(l) : L[k] = l[k] /\ k \in 1..Len(L)
      /\ \A k \in 1..Len(L) : k \in 1..Len(l) \/ k = Len(l) + 1
  BY Appended
<1> HIDE DEF L
<1>2. ChangesIn(l, r) \subseteq 1..Len(l)
  BY DEF ChangesIn
<1>3. IF ev.type \in {"EthAddressChanged", "Upgraded"} /\ ev.by = r
      THEN ChangesIn(L, r) = ChangesIn(l, r) \cup {Len(l) + 1}
      ELSE ChangesIn(L, r) = ChangesIn(l, r)
  BY <1>1 DEF ChangesIn
<1> QED
  BY <1>2, <1>3 DEF L

LEMMA ThroughAppended ==
  ASSUME NEW l \in Seq(Event), NEW ev \in Event
  PROVE  /\ ev.type = "Accepted" => ThroughIn(Append(l, ev)) = ThroughIn(l) \cup {ev.by}
         /\ ev.type # "Accepted" => ThroughIn(Append(l, ev)) = ThroughIn(l)
<1> DEFINE L == Append(l, ev)
<1>1. /\ Len(L) = Len(l) + 1 /\ L[Len(l) + 1] = ev
      /\ DOMAIN l = 1..Len(l) /\ DOMAIN L = 1..Len(L)
      /\ Len(l) + 1 \in 1..Len(L)
      /\ \A k \in 1..Len(l) : L[k] = l[k] /\ k \in 1..Len(L)
      /\ \A k \in 1..Len(L) : k \in 1..Len(l) \/ k = Len(l) + 1
  BY Appended, LenProperties
<1> HIDE DEF L
<1>2. /\ ev.type = "Accepted" => ThroughIn(L) = ThroughIn(l) \cup {ev.by}
      /\ ev.type # "Accepted" => ThroughIn(L) = ThroughIn(l)
  BY <1>1 DEF ThroughIn
<1> QED
  BY <1>2 DEF L

LEMMA MatchesKept ==
  ASSUME NEW l \in Seq(Event), NEW ev \in Event, NEW C, C \subseteq 1..Len(l), NEW calls, NEW M
  PROVE  Matches(l, C, calls, M) => Matches(Append(l, ev), C, calls, M)
<1>1. \A k \in C : Append(l, ev)[k] = l[k]
  BY Appended
<1> QED
  BY <1>1 DEF Matches

\* What is recorded of a request stays as it is when the event is of another kind or of
\* another request.
LEMMA RequestKept ==
  ASSUME NEW l \in Seq(Event), NEW ev \in Event, NEW r, NEW M, RequestWhole(l, r, M),
         ~(ev.type \in {"Accepted", "EthAddressChanged", "Upgraded"} /\ ev.by = r)
  PROVE  RequestWhole(Append(l, ev), r, M) /\ (r \in ThroughIn(Append(l, ev)) <=> r \in ThroughIn(l))
<1>1. ChangesIn(Append(l, ev), r) = ChangesIn(l, r) /\ ChangesIn(l, r) \subseteq 1..Len(l)
  BY ChangesAppended
<1>2. r \in ThroughIn(Append(l, ev)) <=> r \in ThroughIn(l)
  BY ThroughAppended
<1> QED
  BY <1>1, <1>2, MatchesKept DEF RequestWhole

-----------------------------------------------------------------------------
\* Calls made.

LEMMA MadeTypes ==
  ASSUME NEW r \in Requests, NEW st, NEW n
  PROVE  /\ IsFiniteSet(MadeBelow(st, n, r)) /\ MadeBelow(st, n, r) \subseteq Nat
         /\ MadeBelow(st, n, r) \subseteq DOMAIN Signed[r].calls
         /\ DOMAIN Signed[r].calls = 1..Len(Signed[r].calls)
<1>1. DOMAIN Signed[r].calls = 1..Len(Signed[r].calls) /\ Len(Signed[r].calls) \in Nat
  BY SignedTypes, LenProperties
<1>2. IsFiniteSet(1..Len(Signed[r].calls)) /\ 1..Len(Signed[r].calls) \subseteq Nat
  BY <1>1, FS_Interval
<1>3. MadeBelow(st, n, r) \subseteq 1..Len(Signed[r].calls)
  BY <1>1 DEF MadeBelow
<1> QED
  BY <1>1, <1>2, <1>3, FS_Subset

\* The same calls made, the same account.
LEMMA WholeSame ==
  ASSUME NEW w, NEW st, NEW n, WholeAt(w, st, n), NEW st2, NEW n2,
         \A i \in 1..n2 : st2[i].request \in ThroughIn(w.log),
         \A r \in Requests : MadeBelow(st2, n2, r) = MadeBelow(st, n, r),
         ThroughIn(w.log) \subseteq Requests
  PROVE  WholeAt(w, st2, n2)
<1>1. \A r \in Requests : RequestWhole(w.log, r, MadeBelow(st2, n2, r))
  BY DEF WholeAt
<1>2. \A r \in ThroughIn(w.log) : Eics(r, MadeBelow(st2, n2, r)) = Eics(r, MadeBelow(st, n, r))
  OBVIOUS
<1>3. {Eics(r, MadeBelow(st2, n2, r)) : r \in ThroughIn(w.log)}
        = {Eics(r, MadeBelow(st, n, r)) : r \in ThroughIn(w.log)}
  BY <1>2
<1> QED
  BY <1>1, <1>3 DEF WholeAt

LEMMA WholeAgain ==
  ASSUME NEW w, NEW st, NEW n, WholeAt(w, st, n), NEW st2, ThroughIn(w.log) \subseteq Requests,
         \A i \in 1..n : st2[i].request = st[i].request /\ st2[i].call = st[i].call
  PROVE  WholeAt(w, st2, n)
<1>1. \A r \in Requests : MadeBelow(st2, n, r) = MadeBelow(st, n, r)
  BY DEF MadeBelow
<1>2. \A i \in 1..n : st2[i].request \in ThroughIn(w.log)
  BY DEF WholeAt
<1> QED
  BY <1>1, <1>2, WholeSame

\* A request that begins has made no call.
LEMMA WholeBegins ==
  ASSUME NEW u \in State, NEW w \in State, NEW st, NEW n \in Nat, WholeAt(u, st, n), NEW st2,
         \A i \in 1..n : st2[i].request = st[i].request /\ st2[i].call = st[i].call,
         NEW r \in Requests, r \notin ThroughIn(u.log), ThroughIn(u.log) \subseteq Requests,
         st2[n + 1].request = r, st2[n + 1].call = 1,
         NEW ev \in Event, ev.type = "Accepted", ev.by = r, w.log = Append(u.log, ev),
         w.src5 = u.src5, w.eth_address = u.eth_address
  PROVE  WholeAt(w, st2, n + 1)
<1> DEFINE T  == ThroughIn(u.log)
           T2 == ThroughIn(w.log)
           Ms(q) == MadeBelow(st, n, q)
           Ms2(q) == MadeBelow(st2, n + 1, q)
<1>1. u.log \in Seq(Event)
  BY StateLog
<1>2. T2 = T \cup {r}
  BY <1>1, ThroughAppended
<1>3. \A i \in 1..(n + 1) : i \in 1..n \/ i = n + 1
  OBVIOUS
<1>4. \A i \in 1..(n + 1) : st2[i].request \in T2
  BY <1>2, <1>3 DEF WholeAt
<1>5. \A i \in 1..n : i \in 1..(n + 1)
  OBVIOUS
<1>6. \A q \in Requests : q # r => Ms2(q) = Ms(q)
  BY <1>3, <1>5 DEF MadeBelow
<1>7. Ms2(r) = {}
  <2>1. Ms2(r) \subseteq 1..Len(Signed[r].calls) /\ n + 1 \in 1..(n + 1)
    BY MadeTypes
  <2>2. \A k \in Ms2(r) : k < 1
    BY <2>1 DEF MadeBelow
  <2> QED
    BY <2>1, <2>2
<1>8. ChangesIn(w.log, r) = {}
  <2>1. RequestWhole(u.log, r, Ms(r))
    BY DEF WholeAt
  <2>2. ChangesIn(u.log, r) = {}
    BY <2>1 DEF RequestWhole
  <2> QED
    BY <1>1, <2>2, ChangesAppended
<1> HIDE DEF T, T2, Ms, Ms2
<1>9. \A q \in Requests : RequestWhole(w.log, q, Ms2(q))
  <2>1. RequestWhole(w.log, r, Ms2(r))
    BY <1>2, <1>7, <1>8 DEF RequestWhole, Matches, T2
  <2>2. ASSUME NEW q \in Requests, q # r
        PROVE  RequestWhole(w.log, q, Ms2(q))
    <3>1. RequestWhole(u.log, q, Ms(q))
      BY DEF WholeAt, Ms
    <3>2. RequestWhole(w.log, q, Ms(q))
      BY <1>1, <2>2, <3>1, RequestKept
    <3> QED
      BY <3>2, <2>2, <1>6
  <2> QED
    BY <2>1, <2>2
<1>10. UNION {Eics(q, Ms2(q)) : q \in T2} = UNION {Eics(q, Ms(q)) : q \in T}
  <2>1. Eics(r, Ms2(r)) = {}
    BY <1>7 DEF Eics
  <2>2. \A q \in T : Eics(q, Ms2(q)) = Eics(q, Ms(q))
    BY <1>6 DEF T
  <2> QED
    BY <2>1, <2>2, <1>2
<1>11. w.src5 = Interfaces(w.eth_address) \cup UNION {Eics(q, Ms2(q)) : q \in T2}
  BY <1>10 DEF WholeAt, T, Ms
<1> QED
  BY <1>4, <1>9, <1>11 DEF WholeAt, T2, Ms2

\* The innermost request has made its next call, an admin call the log tells of.
OthersStand(st, st2, n, r) ==
  \A i \in 1..n : i # n => /\ st2[i].request = st[i].request /\ st2[i].call = st[i].call
                           /\ st[i].request # r

LEMMA WholeMade ==
  ASSUME NEW u \in State, NEW w \in State, NEW st, NEW n \in Nat \ {0}, WholeAt(u, st, n),
         ThroughIn(u.log) \subseteq Requests,
         NEW st2, NEW r \in Requests, NEW k0 \in 1..Len(Signed[r].calls),
         OthersStand(st, st2, n, r),
         st[n].request = r, st[n].call = k0, st2[n].request = r, st2[n].call = k0 + 1,
         IsAdmin(Signed[r].calls[k0]),
         NEW ev \in Event, ev.type \in {"EthAddressChanged", "Upgraded"}, ev.by = r,
         Tells(ev, Signed[r].calls[k0]), w.log = Append(u.log, ev),
         u.eth_address # Zero, w.eth_address # Zero,
         w.src5 = u.src5 \cup (IF Signed[r].calls[k0].op = "upgrade"
                               THEN Signed[r].calls[k0].eic ELSE {})
  PROVE  WholeAt(w, st2, n)
<1> DEFINE T  == ThroughIn(u.log)
           T2 == ThroughIn(w.log)
           Ms(q) == MadeBelow(st, n, q)
           Ms2(q) == MadeBelow(st2, n, q)
<1>1. u.log \in Seq(Event) /\ n \in 1..n
  BY StateLog
<1>2. T2 = T /\ r \in T
  BY <1>1, ThroughAppended DEF WholeAt
<1>3. \A i \in 1..n : st2[i].request \in T2
  BY <1>1, <1>2 DEF WholeAt, OthersStand
<1>4. \A q \in Requests : q # r => Ms2(q) = Ms(q)
  BY <1>1 DEF MadeBelow, OthersStand
<1>5. /\ IsFiniteSet(Ms(r)) /\ Ms(r) \subseteq Nat
      /\ DOMAIN Signed[r].calls = 1..Len(Signed[r].calls) /\ Len(Signed[r].calls) \in Nat
  BY MadeTypes, SignedTypes, LenProperties
<1>6. \A m \in Ms(r) : m < k0
  BY <1>1 DEF MadeBelow, OthersStand
<1>7. Ms2(r) = Ms(r) \cup {k0}
  <2>1. Ms(r) = {k \in DOMAIN Signed[r].calls : IsAdmin(Signed[r].calls[k]) /\ k < k0}
    BY <1>1 DEF MadeBelow, OthersStand
  <2>2. Ms2(r) = {k \in DOMAIN Signed[r].calls : IsAdmin(Signed[r].calls[k]) /\ k < k0 + 1}
    BY <1>1 DEF MadeBelow, OthersStand
  <2>3. \A k \in 1..Len(Signed[r].calls) : k < k0 + 1 <=> k < k0 \/ k = k0
    OBVIOUS
  <2> HIDE DEF Ms, Ms2
  <2> QED
    BY <1>5, <2>1, <2>2, <2>3
<1> HIDE DEF T, T2, Ms, Ms2
<1>8. \A q \in Requests : RequestWhole(w.log, q, Ms2(q))
  <2>1. RequestWhole(w.log, r, Ms2(r))
    <3>1. Matches(u.log, ChangesIn(u.log, r), Signed[r].calls, Ms(r))
      BY <1>2 DEF WholeAt, RequestWhole, Ms, T
    <3>2. /\ ChangesIn(u.log, r) \subseteq 1..Len(u.log)
          /\ ChangesIn(w.log, r) = ChangesIn(u.log, r) \cup {Len(u.log) + 1}
      BY <1>1, ChangesAppended
    <3>3. Matches(w.log, ChangesIn(u.log, r) \cup {Len(u.log) + 1}, Signed[r].calls, Ms(r) \cup {k0})
      <4> DEFINE C  == ChangesIn(u.log, r)
                 M  == Ms(r)
                 cs == Signed[r].calls
                 l  == u.log
      <4>1. /\ l \in Seq(Event) /\ C \subseteq 1..Len(l) /\ IsFiniteSet(M) /\ M \subseteq Nat
            /\ k0 \in Nat /\ (\A m \in M : m < k0) /\ Matches(l, C, cs, M) /\ Tells(ev, cs[k0])
            /\ w.log = Append(l, ev)
        BY <1>1, <1>5, <1>6, <3>1, <3>2
      <4> HIDE DEF C, M, cs, l
      <4>2. Matches(Append(l, ev), C \cup {Len(l) + 1}, cs, M \cup {k0})
        BY <4>1, MatchesAppended
      <4> QED
        BY <4>1, <4>2 DEF C, M, cs, l
    <3>4. Matches(w.log, ChangesIn(w.log, r), Signed[r].calls, Ms2(r))
      BY <3>2, <3>3, <1>7
    <3> QED
      BY <3>4, <1>2 DEF RequestWhole, T2, T
  <2>2. ASSUME NEW q \in Requests, q # r
        PROVE  RequestWhole(w.log, q, Ms2(q))
    <3>1. RequestWhole(u.log, q, Ms(q))
      BY DEF WholeAt, Ms
    <3>2. RequestWhole(w.log, q, Ms(q))
      BY <1>1, <2>2, <3>1, RequestKept
    <3> QED
      BY <3>2, <2>2, <1>4
  <2> QED
    BY <2>1, <2>2
<1>9. UNION {Eics(q, Ms2(q)) : q \in T2}
        = (UNION {Eics(q, Ms(q)) : q \in T})
            \cup (IF Signed[r].calls[k0].op = "upgrade" THEN Signed[r].calls[k0].eic ELSE {})
  <2>1. Eics(r, Ms2(r)) = Eics(r, Ms(r))
            \cup (IF Signed[r].calls[k0].op = "upgrade" THEN Signed[r].calls[k0].eic ELSE {})
    BY <1>7 DEF Eics
  <2>2. \A q \in T : q # r => Eics(q, Ms2(q)) = Eics(q, Ms(q))
    BY <1>4 DEF T
  <2> QED
    BY <2>1, <2>2, <1>2
<1>10. w.src5 = Interfaces(w.eth_address) \cup UNION {Eics(q, Ms2(q)) : q \in T2}
  <2>1. u.src5 = Interfaces(u.eth_address) \cup UNION {Eics(q, Ms(q)) : q \in T}
    BY DEF WholeAt, T, Ms
  <2>2. Interfaces(w.eth_address) = Interfaces(u.eth_address)
    BY DEF Interfaces
  <2> HIDE DEF Interfaces
  <2> QED
    BY <1>9, <2>1, <2>2
<1> QED
  BY <1>3, <1>8, <1>10 DEF WholeAt, T2, Ms2

-----------------------------------------------------------------------------
\* The saved states when the innermost request goes on, begins or ends.

LEMMA ThroughRequests ==
  ASSUME NEW s, NEW n, Consistent(s, n)
  PROVE  ThroughIn(s.log) \subseteq Requests
<1>1. DOMAIN s.log = 1..Len(s.log)
  BY StateLog DEF Consistent
<1> QED
  BY <1>1 DEF ThroughIn, Consistent, Linked, Accepts

Readable(st) == \A i \in 1..Len(st) : ThroughIn(st[i].entry.log) \subseteq Requests

LEMMA IInvReadable ==
  ASSUME IInv
  PROVE  Readable(stack) /\ ThroughIn(Now.log) \subseteq Requests
BY ThroughRequests DEF IInv, Readable

\* The first n frames are as they were, but for the next call of the last of them.
SameFrames(st, st2, n) ==
  /\ \A i \in 1..n : st2[i].request = st[i].request /\ st2[i].entry = st[i].entry
  /\ \A i \in 1..n : i < n => st2[i].call = st[i].call

LEMMA SavedUnder ==
  ASSUME NEW st, NEW w, Saved(st, w), Readable(st), Len(st) \in Nat, NEW n \in 0..Len(st),
         NEW st2, SameFrames(st, st2, n)
  PROVE  FramesWhole(st2, n)
<1>1. \A i \in 1..n : i \in 1..Len(st) /\ \A j \in 1..(i - 1) : j \in 1..n /\ j < n
  OBVIOUS
<1>2. ASSUME NEW i \in 1..n
      PROVE  WholeAt(st2[i].entry, st2, i - 1)
  <2>1. WholeAt(st[i].entry, st, i - 1) /\ ThroughIn(st[i].entry.log) \subseteq Requests
    BY <1>1 DEF Saved, FramesWhole, Readable
  <2>2. \A j \in 1..(i - 1) : st2[j].request = st[j].request /\ st2[j].call = st[j].call
    BY <1>1 DEF SameFrames
  <2>3. WholeAt(st[i].entry, st2, i - 1)
    BY <2>1, <2>2, WholeAgain
  <2> QED
    BY <2>3 DEF SameFrames
<1>3. \A i, j \in 1..n : i # j => st2[i].request # st2[j].request
  BY <1>1 DEF Saved, FramesWhole, SameFrames
<1> QED
  BY <1>2, <1>3 DEF FramesWhole

LEMMA BeginsSaved ==
  ASSUME IInv, IInv', Saved(stack, Now), NEW r \in Requests, r \notin ThroughIn(log),
         UNCHANGED <<eth_address, src5>>,
         Record("Accepted", r, eth_address, eth_address), eth_address \in EthAddresses,
         stack' = Append(stack, [request |-> r, call |-> 1, entry |-> Now])
  PROVE  Saved(stack', Now')
<1> DEFINE f  == [request |-> r, call |-> 1, entry |-> Now]
           ev == [type |-> "Accepted", by |-> r, prev |-> eth_address, next |-> eth_address]
           n  == Len(stack)
<1>1. /\ Now \in State /\ Now' \in State /\ stack \in Seq(Frame) /\ n \in Nat
      /\ Readable(stack) /\ ThroughIn(Now.log) \subseteq Requests
  BY IInvReadable, IInvParts, LenProperties DEF StackOK, IInv, TypeOK
<1>2. f.request = r /\ f.call = 1 /\ f.entry = Now
  OBVIOUS
<1>3. ev \in Event /\ ev.type = "Accepted" /\ ev.by = r
  BY DEF Event
<1>4. /\ Now'.log = Append(Now.log, ev) /\ Now'.eth_address = Now.eth_address
      /\ Now'.src5 = Now.src5 /\ r \notin ThroughIn(Now.log)
  BY DEF Record, Now
<1>5. stack' = Append(stack, f)
  OBVIOUS
<1>6. /\ Len(stack') = n + 1 /\ stack'[n + 1] = f
      /\ \A i \in 1..n : stack'[i] = stack[i]
  BY <1>1, <1>5, AppendProperties
<1> HIDE DEF f, ev
<1>7. WholeAt(Now, stack, n) /\ \A i \in 1..n : stack[i].request \in ThroughIn(Now.log)
  BY DEF Saved, WholeAt
<1>8. WholeAt(Now', stack', n + 1)
  <2>1. stack'[n + 1].request = r /\ stack'[n + 1].call = 1
    BY <1>2, <1>6
  <2>2. \A i \in 1..n :
          stack'[i].request = stack[i].request /\ stack'[i].call = stack[i].call
    BY <1>6
  <2>3. /\ Now \in State /\ Now' \in State /\ n \in Nat
        /\ WholeAt(Now, stack, n) /\ ThroughIn(Now.log) \subseteq Requests
    BY <1>1, <1>7
  <2> HIDE DEF n
  <2> QED
    BY <1>3, <1>4, <2>1, <2>2, <2>3, WholeBegins, ZenonT(60)
<1>9. WholeAt(Now, stack', n)
  BY <1>1, <1>6, <1>7, WholeAgain
<1>10. FramesWhole(stack', n)
  <2>1. n \in 0..Len(stack) /\ Len(stack) \in Nat
    BY <1>1
  <2>2. SameFrames(stack, stack', n)
    BY <1>6 DEF SameFrames
  <2> HIDE DEF n
  <2> QED
    BY <2>1, <2>2, <1>1, SavedUnder
<1> HIDE DEF n
<1>11. \A i \in 1..(n + 1) : i \in 1..n \/ i = n + 1
  BY <1>1
<1>12. (n + 1) - 1 = n
  BY <1>1
<1>13. \A i \in 1..(n + 1) : WholeAt(stack'[i].entry, stack', i - 1)
  BY <1>2, <1>6, <1>9, <1>10, <1>11, <1>12 DEF FramesWhole
<1>14. \A i, j \in 1..(n + 1) : i # j => stack'[i].request # stack'[j].request
  BY <1>2, <1>4, <1>6, <1>7, <1>10, <1>11 DEF FramesWhole
<1> QED
  BY <1>6, <1>8, <1>13, <1>14 DEF Saved, FramesWhole

\* The frames after the innermost request's next call.
LEMMA AdvancedFrames ==
  ASSUME stack \in Seq(Frame), stack # <<>>, stack' = Advanced
  PROVE  LET n == Len(stack)
         IN /\ n \in Nat \ {0} /\ n \in 1..n /\ Len(stack') = n /\ Top = stack[n]
            /\ Top \in Frame /\ stack'[n].request = Top.request /\ stack'[n].entry = Top.entry
            /\ stack'[n].call = Top.call + 1
            /\ \A i \in 1..n : i # n => stack'[i] = stack[i]
<1> DEFINE n == Len(stack)
           g == [Top EXCEPT !.call = @ + 1]
<1>1. n \in Nat \ {0} /\ n \in 1..n /\ Top = stack[n] /\ Top \in Frame
  <2>1. n \in Nat /\ n # 0
    BY EmptySeq, LenProperties
  <2> QED
    BY <2>1, ElementOfSeq DEF Top
<1>2. g \in Frame /\ g.request = Top.request /\ g.entry = Top.entry /\ g.call = Top.call + 1
  BY <1>1 DEF Frame
<1>3. stack' = [stack EXCEPT ![n] = g]
  BY DEF Advanced, Top
<1> HIDE DEF g
<1>4. /\ Len(stack') = n
      /\ \A i \in 1..n : stack'[i] = IF i = n THEN g ELSE stack[i]
  BY <1>1, <1>2, <1>3, ExceptSeq
<1> QED
  BY <1>1, <1>2, <1>4

LEMMA GoesOnSaved ==
  ASSUME IInv, Saved(stack, Now), Calling, stack' = Advanced,
         WholeAt(Now', stack', Len(stack))
  PROVE  Saved(stack', Now')
<1> DEFINE n == Len(stack)
<1>1. stack \in Seq(Frame) /\ stack # <<>> /\ Readable(stack)
  BY IInvReadable, IInvParts DEF StackOK, Calling
<1>2. /\ n \in Nat \ {0} /\ n \in 1..n /\ Len(stack') = n /\ Top = stack[n]
      /\ stack'[n].request = Top.request /\ stack'[n].entry = Top.entry
      /\ \A i \in 1..n : i # n => stack'[i] = stack[i]
  BY <1>1, AdvancedFrames
<1>3. \A i \in 1..n : i < n => i # n
  BY <1>2
<1>4. SameFrames(stack, stack', n)
  BY <1>2, <1>3 DEF SameFrames
<1>5. n \in 0..Len(stack) /\ Len(stack) \in Nat
  BY <1>2
<1> HIDE DEF n
<1>6. FramesWhole(stack', n)
  BY <1>1, <1>4, <1>5, SavedUnder
<1> QED
  BY <1>2, <1>6 DEF Saved, n

\* An admin call the log tells of.
LEMMA MadeWhole ==
  ASSUME IInv, IInv', Saved(stack, Now), Calling, stack' = Advanced, IsAdmin(NextCall),
         NEW ev \in Event, ev.type \in {"EthAddressChanged", "Upgraded"},
         ev.by = Top.request, Tells(ev, NextCall), log' = Append(log, ev),
         src5' = src5 \cup (IF NextCall.op = "upgrade" THEN NextCall.eic ELSE {})
  PROVE  WholeAt(Now', stack', Len(stack))
<1> DEFINE n == Len(stack)
           r == Top.request
           k == Top.call
<1>1. /\ stack \in Seq(Frame) /\ stack # <<>> /\ Now \in State /\ Now' \in State
      /\ ThroughIn(Now.log) \subseteq Requests /\ eth_address # Zero /\ eth_address' # Zero
  <2>1. stack' # <<>>
    BY IInvParts, StackAdvanced, AdvancedFrames, EmptySeq DEF Calling, StackOK
  <2> QED
    BY <2>1, IInvReadable, IInvParts DEF StackOK, Calling, IInv, TypeOK
<1>2. /\ n \in Nat \ {0} /\ n \in 1..n /\ Top = stack[n]
      /\ stack'[n].request = r /\ stack'[n].call = k + 1 /\ Top \in Frame
      /\ \A i \in 1..n : i # n => stack'[i] = stack[i]
  BY <1>1, AdvancedFrames
<1>3. r \in Requests /\ k \in Nat \ {0}
  BY <1>2 DEF Frame
<1>4. k \in 1..Len(Signed[r].calls) /\ NextCall = Signed[r].calls[k]
  <2>1. Len(Signed[r].calls) \in Nat
    BY <1>3, SignedTypes, LenProperties
  <2> QED
    BY <2>1, <1>3 DEF Calling, NextCall
<1>5. OthersStand(stack, stack', n, r)
  BY <1>2 DEF Saved, FramesWhole, OthersStand
<1>6. stack[n].request = r /\ stack[n].call = k
  BY <1>2
<1>7. /\ Now'.log = Append(Now.log, ev) /\ Now.eth_address # Zero /\ Now'.eth_address # Zero
      /\ Now'.src5 = Now.src5 \cup (IF Signed[r].calls[k].op = "upgrade"
                                    THEN Signed[r].calls[k].eic ELSE {})
  BY <1>1, <1>4 DEF Now
<1>8. WholeAt(Now, stack, n)
  BY DEF Saved
<1>9. ev.by = r /\ IsAdmin(Signed[r].calls[k]) /\ Tells(ev, Signed[r].calls[k])
  BY <1>4
<1> HIDE DEF n, r, k
<1>10. WholeAt(Now', stack', n)
  BY <1>1, <1>2, <1>3, <1>4, <1>5, <1>6, <1>7, <1>8, <1>9, WholeMade
<1> QED
  BY <1>10 DEF n

LEMMA ExternalSaved ==
  ASSUME IInv, Saved(stack, Now), ExternalReturns
  PROVE  Saved(stack', Now')
<1> DEFINE n == Len(stack)
           r == Top.request
           k == Top.call
<1>1. /\ stack \in Seq(Frame) /\ stack # <<>> /\ ThroughIn(Now.log) \subseteq Requests
      /\ Calling /\ NextCall.op = "external" /\ stack' = Advanced /\ Now' = Now
  BY IInvReadable, IInvParts DEF StackOK, Calling, ExternalReturns, chain, Now
<1>2. /\ n \in Nat \ {0} /\ n \in 1..n /\ Top = stack[n]
      /\ stack'[n].request = r /\ stack'[n].call = k + 1 /\ Top \in Frame
      /\ \A i \in 1..n : i # n => stack'[i] = stack[i]
  BY <1>1, AdvancedFrames
<1>3. r \in Requests /\ k \in Nat \ {0}
  BY <1>2 DEF Frame
<1>4. NextCall = Signed[r].calls[k] /\ ~IsAdmin(Signed[r].calls[k])
  BY <1>1 DEF NextCall, IsAdmin
<1>5. WholeAt(Now, stack, n)
  BY DEF Saved
<1>6. \A i \in 1..n : stack'[i].request = stack[i].request
  BY <1>2
<1>7. \A q \in Requests : MadeBelow(stack', n, q) = MadeBelow(stack, n, q)
  <2> SUFFICES ASSUME NEW q \in Requests, NEW m \in DOMAIN Signed[q].calls,
                      IsAdmin(Signed[q].calls[m]), NEW i \in 1..n, stack[i].request = q
               PROVE  m < stack'[i].call <=> m < stack[i].call
    BY <1>6 DEF MadeBelow
  <2>1. CASE i # n
    BY <2>1, <1>2
  <2>2. CASE i = n
    <3>1. q = r /\ m # k /\ m \in Nat
      BY <2>2, <1>2, <1>4, MadeTypes
    <3> QED
      BY <3>1, <2>2, <1>2, <1>3
  <2> QED
    BY <2>1, <2>2
<1>8. \A i \in 1..n : stack'[i].request \in ThroughIn(Now.log)
  BY <1>5, <1>6 DEF WholeAt
<1> HIDE DEF n, r, k
<1>9. WholeAt(Now, stack', n)
  BY <1>1, <1>5, <1>7, <1>8, WholeSame
<1> QED
  BY <1>1, <1>9, GoesOnSaved DEF n

\* The innermost frame is gone.
LEMMA PoppedFrames ==
  ASSUME IInv, Saved(stack, Now), stack # <<>>, stack' = Pop
  PROVE  LET h == Len(stack) - 1
         IN /\ h \in Nat /\ h + 1 = Len(stack) /\ Len(stack') = h
            /\ Top = stack[h + 1] /\ Top \in Frame
            /\ \A i \in 1..h : stack'[i] = stack[i]
            /\ FramesWhole(stack', h)
<1> DEFINE h == Len(stack) - 1
<1>1. /\ stack \in Seq(Frame) /\ Len(stack) \in Nat /\ Len(stack) > 0 /\ Top \in Frame
      /\ Readable(stack)
  BY IInvParts, IInvReadable, StackTop DEF StackOK
<1>2. h \in Nat /\ h + 1 = Len(stack) /\ Top = stack[h + 1]
  BY <1>1 DEF Top
<1>3. h \in 0..Len(stack) /\ 1..h \subseteq 1..Len(stack)
  BY <1>1, <1>2
<1>4. stack' = SubSeq(stack, 1, h)
  BY DEF Pop
<1> HIDE DEF h
<1>5. Len(stack') = h /\ \A i \in 1..h : stack'[i] = stack[i]
  BY <1>1, <1>2, <1>3, <1>4
<1>6. SameFrames(stack, stack', h)
  BY <1>5 DEF SameFrames
<1>7. FramesWhole(stack', h)
  BY <1>1, <1>3, <1>6, SavedUnder
<1> QED
  BY <1>1, <1>2, <1>5, <1>7 DEF h

LEMMA FailsSaved ==
  ASSUME IInv, Saved(stack, Now), RequestFails
  PROVE  Saved(stack', Now')
<1> DEFINE h == Len(stack) - 1
<1>1. stack # <<>> /\ stack' = Pop
  BY DEF RequestFails, Calling
<1>2. /\ h \in Nat /\ h + 1 = Len(stack) /\ Len(stack') = h
      /\ Top = stack[h + 1] /\ Top \in Frame
      /\ \A i \in 1..h : stack'[i] = stack[i]
      /\ FramesWhole(stack', h)
  BY <1>1, PoppedFrames
<1>3. Now' = Top.entry
  BY <1>2 DEF RequestFails, RolledBack, Now, State, Frame
<1> HIDE DEF h
<1>4. h + 1 \in 1..Len(stack) /\ (h + 1) - 1 = h
  BY <1>2
<1>5. WholeAt(Top.entry, stack, h) /\ ThroughIn(Top.entry.log) \subseteq Requests
  BY <1>2, <1>4, IInvReadable DEF Saved, FramesWhole, Readable
<1>6. WholeAt(Top.entry, stack', h)
  BY <1>2, <1>5, WholeAgain
<1> QED
  BY <1>2, <1>3, <1>6 DEF Saved

LEMMA ReturnsSaved ==
  ASSUME IInv, Saved(stack, Now), RequestReturns
  PROVE  Saved(stack', Now')
<1> DEFINE h == Len(stack) - 1
           r == Top.request
<1>1. stack # <<>> /\ ~Calling /\ stack' = Pop /\ Now' = Now
  BY DEF RequestReturns, chain, Now
<1>2. /\ h \in Nat /\ h + 1 = Len(stack) /\ Len(stack') = h
      /\ Top = stack[h + 1] /\ Top \in Frame
      /\ \A i \in 1..h : stack'[i] = stack[i]
      /\ FramesWhole(stack', h)
  BY <1>1, PoppedFrames
<1> HIDE DEF h
<1>3. r \in Requests /\ Top.call \in Nat /\ Len(Signed[r].calls) \in Nat
  BY <1>2, SignedTypes, LenProperties DEF Frame
<1>4. Top.call > Len(Signed[r].calls)
  BY <1>1, <1>3 DEF Calling
<1>5. WholeAt(Now, stack, h + 1) /\ ThroughIn(Now.log) \subseteq Requests
  BY <1>2, IInvReadable DEF Saved
<1>6. /\ \A i \in 1..(h + 1) : i \in 1..h \/ i = h + 1
      /\ \A i \in 1..h : i \in 1..(h + 1)
  BY <1>2
<1>7. \A i \in 1..h : stack'[i].request \in ThroughIn(Now.log)
  BY <1>2, <1>5, <1>6 DEF WholeAt
<1>8. \A q \in Requests : MadeBelow(stack', h, q) = MadeBelow(stack, h + 1, q)
  <2> SUFFICES ASSUME NEW q \in Requests, NEW m \in DOMAIN Signed[q].calls
               PROVE  (\A i \in 1..h : stack'[i].request = q => m < stack'[i].call)
                        <=> (\A i \in 1..(h + 1) : stack[i].request = q => m < stack[i].call)
    BY DEF MadeBelow
  <2>1. stack[h + 1].request = q => m < stack[h + 1].call
    BY <1>2, <1>3, <1>4, MadeTypes
  <2> QED
    BY <2>1, <1>2, <1>6
<1>9. WholeAt(Now, stack', h)
  BY <1>5, <1>7, <1>8, WholeSame
<1> QED
  BY <1>1, <1>2, <1>9 DEF Saved

\* A request that is accepted was not in effect.
LEMMA Fresh ==
  ASSUME IInv, NEW r \in Requests,
         \/ Signed[r].kind = "outside" /\ Signed[r].nonce \notin SRC9_nonces
         \/ Signed[r].kind = "transaction" /\ Signed[r].nonce = tx_nonce
  PROVE  r \notin ThroughIn(log)
<1>1. /\ UsedOnce(log, "outside", SRC9_nonces) /\ UsedOnce(log, "transaction", Below(tx_nonce))
      /\ tx_nonce \in Nat /\ DOMAIN log = 1..Len(log)
  BY IInvParts, NowFields, LogDomain DEF Consistent
<1>2. tx_nonce \notin Below(tx_nonce)
  BY <1>1 DEF Below
<1>3. \A j \in 1..Len(log) : Accepts(log, j) => log[j].by # r
  BY <1>1, <1>2 DEF UsedOnce
<1> QED
  BY <1>1, <1>3 DEF ThroughIn, Accepts

LEMMA NothingWhole ==
  ASSUME NEW w, w.log = <<>>, w.src5 = {}, w.eth_address = Zero, NEW st
  PROVE  WholeAt(w, st, 0) /\ FramesWhole(st, 0)
<1>1. ThroughIn(w.log) = {}
  BY DEF ThroughIn
<1>2. \A r \in Requests : ChangesIn(w.log, r) = {}
  BY DEF ChangesIn
<1>3. \A r \in Requests : RequestWhole(w.log, r, MadeBelow(st, 0, r))
  BY <1>1, <1>2 DEF RequestWhole
<1> QED
  BY <1>1, <1>3 DEF WholeAt, FramesWhole, Interfaces

\* The claim comes before any request.
LEMMA ClaimedSaved ==
  ASSUME IInv, IInv', Saved(stack, Now),
         NEW caller \in Callers, NEW e \in EthAddresses, initialize(caller, e)
  PROVE  Saved(stack', Now')
<1> DEFINE ev == [type |-> "Initialized", by |-> caller, prev |-> Zero, next |-> e]
<1>1. /\ stack = <<>> /\ stack' = <<>> /\ eth_address = Zero /\ eth_address' = e
      /\ src5' = src5 \cup {ISRC9_V2_ID, ISRC6_ID} /\ log' = Append(log, ev)
  BY IInvParts DEF initialize, Record
<1>2. ev \in Event /\ ev.type = "Initialized" /\ e # Zero
  BY AccountAssumption DEF Event
<1>3. log = <<>> /\ log \in Seq(Event)
  BY <1>1, InvClaimed, Types DEF ClaimedOnce
<1> HIDE DEF ev
<1>4. ThroughIn(log) = {} /\ ThroughIn(log') = {} /\ \A r \in Requests : ChangesIn(log', r) = {}
  <2>1. ThroughIn(log) = {} /\ \A r \in Requests : ChangesIn(log, r) = {}
    BY <1>3 DEF ThroughIn, ChangesIn
  <2>2. ev.type # "Accepted" /\ ev.type \notin {"EthAddressChanged", "Upgraded"}
    BY <1>2
  <2>3. ThroughIn(log') = {}
    BY <2>1, <2>2, <1>1, <1>2, <1>3, ThroughAppended
  <2>4. \A r \in Requests : ChangesIn(log', r) = ChangesIn(log, r)
    BY <2>2, <1>1, <1>2, <1>3, ChangesAppended
  <2> QED
    BY <2>1, <2>3, <2>4
<1>5. src5 = {}
  <2>1. Now.src5 = Interfaces(Zero) \cup UNION {Eics(r, MadeBelow(stack, Len(stack), r)) : r \in {}}
    BY <1>1, <1>4 DEF Saved, WholeAt, Now
  <2> QED
    BY <2>1 DEF Interfaces, Now
<1>6. \A r \in Requests : RequestWhole(log', r, MadeBelow(stack', 0, r))
  BY <1>4 DEF RequestWhole
<1>7. src5' = Interfaces(eth_address')
                \cup UNION {Eics(r, MadeBelow(stack', 0, r)) : r \in ThroughIn(log')}
  BY <1>1, <1>2, <1>4, <1>5 DEF Interfaces
<1>8. Len(stack') = 0
  BY <1>1
<1>9. WholeAt(Now', stack', 0)
  <2>1. Now'.log = log' /\ Now'.src5 = src5' /\ Now'.eth_address = eth_address'
    BY DEF Now
  <2> QED
    BY <2>1, <1>6, <1>7 DEF WholeAt
<1> QED
  BY <1>8, <1>9 DEF Saved, FramesWhole

LEMMA NextSaved ==
  ASSUME IInv, IInv', Saved(stack, Now), [Next]_vars
  PROVE  Saved(stack', Now')
<1>1. CASE \E caller \in Callers, e \in EthAddresses : initialize(caller, e)
  BY <1>1, ClaimedSaved
<1>2. CASE \E r \in Requests, caller \in Callers : execute_from_outside_v2(r, caller)
  <2>1. PICK r \in Requests : \E caller \in Callers : execute_from_outside_v2(r, caller)
    BY <1>2
  <2>2. /\ is_valid_eth_signature(r) /\ Record("Accepted", r, eth_address, eth_address)
        /\ stack' = Append(stack, [request |-> r, call |-> 1, entry |-> Now])
        /\ UNCHANGED <<eth_address, src5>>
        /\ Signed[r].kind = "outside" /\ Signed[r].nonce \notin SRC9_nonces
    BY <2>1 DEF execute_from_outside_v2
  <2> QED
    BY <2>2, OwnerSigns, Fresh, BeginsSaved
<1>3. CASE \E r \in Requests : Transact(r)
  <2>1. PICK r \in Requests : Transact(r)
    BY <1>3
  <2>2. /\ is_valid_eth_signature(r) /\ stack = <<>>
        /\ Signed[r].kind = "transaction" /\ Signed[r].nonce = tx_nonce
        /\ UNCHANGED <<class, eth_address, SRC9_nonces, src5>>
        /\ \/ /\ Record("Accepted", r, eth_address, eth_address)
              /\ stack' = Append(stack, [request |-> r, call |-> 1, entry |-> Now])
           \/ UNCHANGED <<log, stack>>
    BY <2>1 DEF Transact
  <2>3. CASE UNCHANGED <<log, stack>>
    <3>1. Now' = Now /\ stack' = stack
      BY <2>2, <2>3 DEF Now
    <3> QED
      BY <3>1
  <2> QED
    BY <2>2, <2>3, OwnerSigns, Fresh, BeginsSaved
<1>4. CASE \E caller \in Callers \cup {Self}, call \in AdminCalls : set_eth_address(caller, call)
  <2>1. PICK caller \in Callers \cup {Self}, call \in AdminCalls : set_eth_address(caller, call)
    BY <1>4
  <2> DEFINE ev == [type |-> "EthAddressChanged", by |-> By(caller), prev |-> eth_address,
                    next |-> call.eth]
  <2>2. /\ Calling /\ NextCall = call /\ stack' = Advanced /\ By(caller) \in Requests
        /\ call.op = "set_eth_address" /\ eth_address' = call.eth /\ call.eth # Zero
        /\ src5' = src5 /\ log' = Append(log, ev) /\ By(caller) = Top.request
    BY <2>1, ByItself, OnlySelf DEF set_eth_address, Record, NotZero, By, assert_only_self
  <2>3. /\ ev \in Event /\ ev.type = "EthAddressChanged" /\ ev.by = Top.request
        /\ Tells(ev, NextCall)
    BY <2>2, AdminCallTypes, Types DEF Event, Call, Tells
  <2>4. IsAdmin(NextCall) /\ NextCall.op # "upgrade"
    BY <2>2 DEF IsAdmin
  <2> HIDE DEF ev
  <2>5. src5' = src5 \cup (IF NextCall.op = "upgrade" THEN NextCall.eic ELSE {})
    BY <2>2, <2>4
  <2>6. WholeAt(Now', stack', Len(stack))
    BY <2>2, <2>3, <2>4, <2>5, MadeWhole
  <2> QED
    BY <2>2, <2>6, GoesOnSaved
<1>5. CASE \E caller \in Callers \cup {Self}, call \in AdminCalls : upgrade(caller, call)
  <2>1. PICK caller \in Callers \cup {Self}, call \in AdminCalls : upgrade(caller, call)
    BY <1>5
  <2> DEFINE ev == [type |-> "Upgraded", by |-> By(caller), prev |-> class,
                    next |-> call.class]
  <2>2. /\ Calling /\ NextCall = call /\ stack' = Advanced /\ By(caller) \in Requests
        /\ call.op = "upgrade" /\ class' = call.class /\ call.class # Undeclared
        /\ src5' = src5 \cup call.eic /\ log' = Append(log, ev) /\ By(caller) = Top.request
    BY <2>1, ByItself, OnlySelf DEF upgrade, Record, By, assert_only_self
  <2>3. /\ ev \in Event /\ ev.type = "Upgraded" /\ ev.by = Top.request
        /\ Tells(ev, NextCall)
    BY <2>2, AdminCallTypes, Types DEF Event, Call, Tells
  <2>4. IsAdmin(NextCall) /\ NextCall.op = "upgrade"
    BY <2>2 DEF IsAdmin
  <2> HIDE DEF ev
  <2>5. src5' = src5 \cup (IF NextCall.op = "upgrade" THEN NextCall.eic ELSE {})
    BY <2>2, <2>4
  <2>6. WholeAt(Now', stack', Len(stack))
    BY <2>2, <2>3, <2>4, <2>5, MadeWhole
  <2> QED
    BY <2>2, <2>6, GoesOnSaved
<1>6. CASE ExternalReturns
  BY <1>6, ExternalSaved
<1>7. CASE RequestFails
  BY <1>7, FailsSaved
<1>8. CASE RequestReturns
  BY <1>8, ReturnsSaved
<1>9. CASE Tick
  <2>1. stack' = stack /\ Now' = Now
    BY <1>9 DEF Tick, chain, Now
  <2> QED
    BY <2>1
<1>10. CASE UNCHANGED vars
  <2>1. stack' = stack /\ Now' = Now
    BY <1>10 DEF vars, Now
  <2> QED
    BY <2>1
<1> QED
  BY <1>1, <1>2, <1>3, <1>4, <1>5, <1>6, <1>7, <1>8, <1>9, <1>10 DEF Next

LEMMA InitSaved == Init => Saved(stack, Now)
<1> SUFFICES ASSUME Init PROVE Saved(stack, Now)
  OBVIOUS
<1>1. Now.log = <<>> /\ Now.src5 = {} /\ Now.eth_address = Zero /\ Len(stack) = 0
  BY DEF Init, Now
<1> QED
  BY <1>1, NothingWhole DEF Saved

-----------------------------------------------------------------------------
\* No transaction of an unsupported version is in the history, nor in one a failure
\* may bring back.

NoneOutdated(l) == \A j \in 1..Len(l) : Accepts(l, j) => ~Outdated(l[j].by)

VersionsIn(st) == \A i \in 1..Len(st) : NoneOutdated(st[i].entry.log)

VInv == IInv /\ NoneOutdated(log) /\ VersionsIn(stack)

LEMMA SupportedVersion ==
  ASSUME NEW r \in Requests, is_tx_version_valid(Signed[r].version)
  PROVE  ~Outdated(r)
<1>1. Signed[r].version \in Nat /\ QUERY_OFFSET \in Nat
  BY AccountAssumption, SignedTypes DEF Request
<1> QED
  BY <1>1 DEF Outdated, is_tx_version_valid, MIN_TRANSACTION_VERSION

LEMMA NoneOutdatedAppended ==
  ASSUME NEW l \in Seq(Event), NEW ev \in Event, NoneOutdated(l),
         ev.type = "Accepted" => ~Outdated(ev.by)
  PROVE  NoneOutdated(Append(l, ev))
<1>1. \A j \in 1..Len(Append(l, ev)) :
        \/ j \in 1..Len(l) /\ Append(l, ev)[j] = l[j]
        \/ Append(l, ev)[j] = ev
  BY AppendProperties, LenProperties
<1> QED
  BY <1>1 DEF NoneOutdated, Accepts

LEMMA VersionsPushed ==
  ASSUME IInv, VersionsIn(stack), NoneOutdated(log), NEW r \in Requests
  PROVE  VersionsIn(Append(stack, [request |-> r, call |-> 1, entry |-> Now]))
<1> DEFINE f == [request |-> r, call |-> 1, entry |-> Now]
<1>1. f \in Frame /\ f.entry.log = log
  BY IInvParts, NowFields DEF Frame
<1> HIDE DEF f
<1>2. \A i \in 1..Len(Append(stack, f)) :
        \/ i \in 1..Len(stack) /\ Append(stack, f)[i] = stack[i]
        \/ Append(stack, f)[i] = f
  BY <1>1, IInvParts, AppendProperties, LenProperties DEF StackOK
<1>3. VersionsIn(Append(stack, f))
  BY <1>1, <1>2 DEF VersionsIn
<1> QED
  BY <1>3 DEF f

LEMMA VersionsAdvanced ==
  ASSUME IInv, stack # <<>>, VersionsIn(stack)
  PROVE  VersionsIn(Advanced)
<1>1. Len(stack) \in 1..Len(stack) /\ stack \in Seq(Frame) /\ Top \in Frame
  BY IInvParts, StackTop DEF StackOK
<1> DEFINE f == [Top EXCEPT !.call = @ + 1]
<1>2. f \in Frame /\ f.entry = Top.entry
  BY <1>1 DEF Frame
<1>3. Advanced = [stack EXCEPT ![Len(stack)] = f]
  BY DEF Advanced, Top
<1> HIDE DEF f
<1>4. /\ Len(Advanced) = Len(stack)
      /\ \A i \in 1..Len(stack) : Advanced[i] = IF i = Len(stack) THEN f ELSE stack[i]
  BY <1>1, <1>2, <1>3, ExceptSeq
<1>5. \A i \in 1..Len(stack) : Advanced[i].entry = stack[i].entry
  BY <1>2, <1>4 DEF Top
<1> QED
  BY <1>4, <1>5 DEF VersionsIn

LEMMA VersionsPopped ==
  ASSUME IInv, stack # <<>>, VersionsIn(stack)
  PROVE  VersionsIn(Pop) /\ NoneOutdated(Top.entry.log)
<1>1. Len(stack) \in 1..Len(stack) /\ Len(stack) \in Nat /\ Len(stack) > 0
      /\ stack \in Seq(Frame)
  BY IInvParts, StackTop DEF StackOK
<1> DEFINE h == Len(stack) - 1
<1>2. h \in Nat /\ 1..h \subseteq 1..Len(stack)
  BY <1>1
<1>3. Pop = SubSeq(stack, 1, h)
  BY DEF Pop
<1> HIDE DEF h
<1>4. Len(Pop) = h /\ \A i \in 1..h : Pop[i] = stack[i]
  BY <1>1, <1>2, <1>3
<1> QED
  BY <1>1, <1>2, <1>4 DEF VersionsIn, Top

LEMMA NextVersions == VInv /\ [Next]_vars => VInv'
<1>a. SUFFICES ASSUME VInv, [Next]_vars PROVE NoneOutdated(log') /\ VersionsIn(stack')
  <2>1. VInv /\ [Next]_vars => IInv'
    BY NextIInv DEF VInv
  <2>2. NoneOutdated(log') /\ VersionsIn(stack') => NoneOutdated(log)' /\ VersionsIn(stack)'
    BY DEF NoneOutdated, VersionsIn, Accepts, Outdated
  <2> QED
    BY <2>1, <2>2, <1>a DEF VInv
<1>0. /\ IInv /\ NoneOutdated(log) /\ VersionsIn(stack)
      /\ log \in Seq(Event) /\ eth_address \in EthAddresses \cup {Zero}
  BY <1>a, Types DEF VInv
<1>1. ASSUME NEW caller \in Callers, NEW e \in EthAddresses, initialize(caller, e)
      PROVE  NoneOutdated(log') /\ VersionsIn(stack')
  <2> DEFINE ev == [type |-> "Initialized", by |-> caller, prev |-> Zero, next |-> e]
  <2>1. log' = Append(log, ev) /\ stack' = stack
    BY <1>1 DEF initialize, Record
  <2>2. ev \in Event /\ ev.type = "Initialized"
    BY DEF Event
  <2> HIDE DEF ev
  <2> QED
    BY <2>1, <2>2, <1>0, NoneOutdatedAppended
<1>2. ASSUME NEW r \in Requests,
             \/ \E caller \in Callers : execute_from_outside_v2(r, caller)
             \/ Transact(r)
      PROVE  NoneOutdated(log') /\ VersionsIn(stack')
  <2> DEFINE ev == [type |-> "Accepted", by |-> r, prev |-> eth_address, next |-> eth_address]
  <2>1. \/ UNCHANGED <<log, stack>>
        \/ /\ Signed[r].kind = "outside" \/ is_tx_version_valid(Signed[r].version)
           /\ log' = Append(log, ev) /\ is_valid_eth_signature(r)
           /\ stack' = Append(stack, [request |-> r, call |-> 1, entry |-> Now])
    BY <1>2 DEF execute_from_outside_v2, Transact, Record
  <2>2. CASE UNCHANGED <<log, stack>>
    BY <2>2, <1>0
  <2>3. CASE /\ Signed[r].kind = "outside" \/ is_tx_version_valid(Signed[r].version)
             /\ log' = Append(log, ev) /\ is_valid_eth_signature(r)
             /\ stack' = Append(stack, [request |-> r, call |-> 1, entry |-> Now])
    <3>1. ~Outdated(r)
      BY <2>3, SupportedVersion DEF Outdated
    <3>2. eth_address \in EthAddresses
      BY <2>3, SignedTypes DEF is_valid_eth_signature
    <3>3. ev \in Event /\ ev.by = r
      BY <3>2 DEF Event
    <3> HIDE DEF ev
    <3> QED
      BY <2>3, <3>1, <3>3, <1>0, NoneOutdatedAppended, VersionsPushed
  <2> QED
    BY <2>1, <2>2, <2>3
<1>3. ASSUME NEW caller \in Callers \cup {Self}, NEW call \in AdminCalls,
             set_eth_address(caller, call) \/ upgrade(caller, call)
      PROVE  NoneOutdated(log') /\ VersionsIn(stack')
  <2>1. Invokes(caller, call) /\ assert_only_self(caller) /\ Return(caller)
    BY <1>3 DEF set_eth_address, upgrade
  <2>2. stack # <<>> /\ By(caller) \in Requests /\ stack' = Advanced
    BY <2>1, <1>0, OnlySelf
  <2>3. \E ev \in Event : ev.type # "Accepted" /\ log' = Append(log, ev)
    <3>1. call \in Call
      BY AdminCallTypes
    <3>2. CASE set_eth_address(caller, call)
      <4> DEFINE ev == [type |-> "EthAddressChanged", by |-> By(caller), prev |-> eth_address,
                        next |-> call.eth]
      <4>1. log' = Append(log, ev) /\ call.eth # Zero
        BY <3>2 DEF set_eth_address, Record, NotZero
      <4>2. ev \in Event /\ ev.type # "Accepted"
        BY <4>1, <3>1, <2>2, <1>0 DEF Event, Call
      <4> HIDE DEF ev
      <4> QED
        BY <4>1, <4>2
    <3>3. CASE upgrade(caller, call)
      <4> DEFINE ev == [type |-> "Upgraded", by |-> By(caller), prev |-> class,
                        next |-> call.class]
      <4>1. log' = Append(log, ev) /\ call.class # Undeclared
        BY <3>3 DEF upgrade, Record
      <4>2. ev \in Event /\ ev.type # "Accepted"
        BY <4>1, <3>1, <2>2, <1>0, Types DEF Event, Call
      <4> HIDE DEF ev
      <4> QED
        BY <4>1, <4>2
    <3> QED
      BY <1>3, <3>2, <3>3
  <2> QED
    BY <2>2, <2>3, <1>0, NoneOutdatedAppended, VersionsAdvanced
<1>4. CASE ExternalReturns
  BY <1>4, <1>0, VersionsAdvanced DEF ExternalReturns, Calling, chain
<1>5. CASE RequestFails
  <2>1. stack # <<>> /\ stack' = Pop /\ log' = Top.entry.log
    BY <1>5 DEF RequestFails, RolledBack, Calling
  <2> QED
    BY <2>1, <1>0, VersionsPopped
<1>6. CASE RequestReturns
  BY <1>6, <1>0, VersionsPopped DEF RequestReturns, chain
<1>7. CASE Tick \/ UNCHANGED vars
  BY <1>7, <1>0 DEF Tick, vars, chain
<1> QED
  BY <1>a, <1>1, <1>2, <1>3, <1>4, <1>5, <1>6, <1>7 DEF Next

LEMMA InitVersions == Init => NoneOutdated(log) /\ VersionsIn(stack)
BY DEF Init, NoneOutdated, VersionsIn

LEMMA InvWhole == ASSUME WInv, NoneOutdated(log) PROVE BatchesWhole
<1>1. /\ IInv /\ WholeAt(Now, stack, Len(stack))
      /\ DOMAIN stack = 1..Len(stack) /\ DOMAIN log = 1..Len(log)
  BY IInvParts, LogDomain, LenProperties DEF WInv, Saved, StackOK
<1>2. \A r \in Requests : Made(r) = MadeBelow(stack, Len(stack), r)
  BY <1>1 DEF Made, MadeBelow
<1>3. Through = ThroughIn(log) /\ \A r \in Requests : Changes(r) = ChangesIn(log, r)
  BY <1>1 DEF Through, ThroughIn, AcceptedAt, Changes, ChangesIn
<1>4. ThroughIn(log) \subseteq Requests
  BY <1>1, IInvReadable, NowFields
<1>5. \A r \in Requests : RequestWhole(log, r, Made(r))
  BY <1>1, <1>2, NowFields DEF WholeAt
<1>6. {Eics(r, MadeBelow(stack, Len(stack), r)) : r \in ThroughIn(log)}
        = {UNION {Signed[r].calls[k].eic :
                    k \in {m \in Made(r) : Signed[r].calls[m].op = "upgrade"}} : r \in Through}
  BY <1>2, <1>3, <1>4 DEF Eics
<1>7. src5 = Interfaces(eth_address)
              \cup UNION {Eics(r, MadeBelow(stack, Len(stack), r)) : r \in ThroughIn(log)}
  BY <1>1, NowFields DEF WholeAt
<1>8. \A r \in Through : ~Outdated(r)
  BY <1>1 DEF Through, AcceptedAt, NoneOutdated, Accepts
<1> QED
  BY <1>3, <1>5, <1>6, <1>7, <1>8 DEF BatchesWhole, RequestWhole, Matches, Interfaces

\* Batches are whole: through nested, failed and repeated submissions, what the account has
\* recorded of a request are, in order, the admin calls it has made, and the interfaces it
\* declares are its own and those of the EICs of the upgrades in effect; of a transaction
\* of an unsupported version there is nothing.
THEOREM BatchesAreWhole == Spec => []BatchesWhole
<1>1. Init => WInv /\ VInv
  BY InitIInv, InitSaved, InitVersions DEF WInv, VInv
<1>2. WInv /\ VInv /\ [Next]_vars => WInv' /\ VInv'
  BY NextIInv, NextSaved, NextVersions DEF WInv
<1>3. WInv /\ VInv => BatchesWhole
  BY InvWhole DEF VInv
<1> QED
  BY <1>1, <1>2, <1>3, PTL DEF Spec

=============================================================================
