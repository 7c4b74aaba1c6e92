-------------------- MODULE GenerateTestSignaturesProofs --------------------
(***************************************************************************)
(* What is proved of generate_test_signatures.py, for any files, constants *)
(* and edits, and any number of runs that overlap as they like.            *)
(*                                                                         *)
(* Substituted and OutsideText go over a file from its end, as recursive   *)
(* functions.  The first part says what such a walk computes; the second   *)
(* gives both by equations on the first section or token of a file, from   *)
(* which the rest follows by induction on its length.                      *)
(***************************************************************************)
EXTENDS GenerateTestSignaturesProperties, FiniteSums, SequenceTheorems, TLAPS

Glued(s, t) == s \o t

\* d is s and then t.
IsGlued(d, s, t, S) ==
  /\ d \in Seq(S) /\ Len(d) = Len(s) + Len(t) /\ Len(s) \in Nat /\ Len(t) \in Nat
  /\ \A i \in 1..Len(s) : d[i] = s[i]
  /\ \A i \in 1..Len(t) : d[Len(s) + i] = t[i]

LEMMA GluedIs ==
  ASSUME NEW S, NEW s \in Seq(S), NEW t \in Seq(S)
  PROVE  IsGlued(Glued(s, t), s, t, S)
<1> DEFINE st == s \o t
           m == Len(s)
           n == Len(t)
<1>1. /\ st \in Seq(S) /\ Len(st) = m + n
      /\ \A i \in 1..m + n : st[i] = IF i <= m THEN s[i] ELSE t[i - m]
  BY ConcatProperties
<1>2. m \in Nat /\ n \in Nat
  BY LenProperties
<1> HIDE DEF st, m, n
<1>3. ASSUME NEW i \in 1..m
      PROVE  st[i] = s[i]
  BY <1>1, <1>2
<1>4. ASSUME NEW i \in 1..n
      PROVE  st[m + i] = t[i]
  <2>1. m + i \in 1..m + n /\ ~(m + i <= m) /\ (m + i) - m = i
    BY <1>2
  <2> QED  BY <1>1, <2>1
<1> QED  BY <1>1, <1>2, <1>3, <1>4 DEF IsGlued, Glued, st, m, n

LEMMA GluedType ==
  ASSUME NEW S, NEW s \in Seq(S), NEW t \in Seq(S)
  PROVE  /\ Glued(s, t) \in Seq(S) /\ Len(Glued(s, t)) = Len(s) + Len(t)
         /\ Len(s) \in Nat /\ Len(t) \in Nat
         /\ \A i \in 1..Len(s) : Glued(s, t)[i] = s[i]
         /\ \A i \in 1..Len(t) : Glued(s, t)[Len(s) + i] = t[i]
<1> DEFINE d == Glued(s, t)
<1>1. IsGlued(d, s, t, S)
  BY GluedIs
<1> HIDE DEF d
<1>2. /\ d \in Seq(S) /\ Len(d) = Len(s) + Len(t)
      /\ Len(s) \in Nat /\ Len(t) \in Nat
      /\ \A i \in 1..Len(s) : d[i] = s[i]
      /\ \A i \in 1..Len(t) : d[Len(s) + i] = t[i]
  BY <1>1 DEF IsGlued
<1> QED  BY <1>2 DEF d

LEMMA GluedEmpty ==
  ASSUME NEW S, NEW s \in Seq(S)
  PROVE  Glued(<<>>, s) = s /\ Glued(s, <<>>) = s
BY ConcatEmptySeq DEF Glued

\* Sequences are equal if they agree at each position.
LEMMA SameSequence ==
  ASSUME NEW S, NEW s \in Seq(S), NEW t \in Seq(S), Len(s) = Len(t),
         \A i \in 1..Len(s) : s[i] = t[i]
  PROVE  s = t
BY SeqEqual

-----------------------------------------------------------------------------
(* Walks.  g gives, for each position up to n, the piece there and what    *)
(* follows from the next position on.                                      *)

Walks(g, n, piece, next) ==
  /\ g = [i \in 1..n + 1 |-> g[i]]
  /\ g[n + 1] = <<>>
  /\ \A i \in 1..n : g[i] = Glued(piece[i], g[next[i]])

Ahead(n, next) == \A i \in 1..n : next[i] \in i + 1..n + 1

LEMMA WalkExists ==
  ASSUME NEW n \in Nat, NEW piece, NEW next, Ahead(n, next)
  PROVE  \E g : Walks(g, n, piece, next)
<1> DEFINE Good ==
             {m \in Nat : m <= n =>
                \E g : /\ g[n + 1] = <<>>
                       /\ \A i \in n + 1 - m..n : g[i] = Glued(piece[i], g[next[i]])}
<1>1. 0 \in Good
  <2>1. [i \in 1..n + 1 |-> <<>>][n + 1] = <<>>
    OBVIOUS
  <2>2. n + 1 - 0..n = {}
    OBVIOUS
  <2> QED  BY <2>1, <2>2
<1>2. ASSUME NEW m \in Nat, m \in Good
      PROVE  m + 1 \in Good
  <2> SUFFICES ASSUME m + 1 <= n
               PROVE  \E g : /\ g[n + 1] = <<>>
                             /\ \A i \in n + 1 - (m + 1)..n : g[i] = Glued(piece[i], g[next[i]])
    OBVIOUS
  <2>1. PICK g : /\ g[n + 1] = <<>>
                 /\ \A i \in n + 1 - m..n : g[i] = Glued(piece[i], g[next[i]])
    BY <1>2
  <2> DEFINE k == n - m
             G == [i \in 1..n + 1 |-> IF i = k THEN Glued(piece[k], g[next[k]]) ELSE g[i]]
  <2>2. k \in 1..n /\ n + 1 - (m + 1) = k /\ n + 1 - m = k + 1
    OBVIOUS
  <2> HIDE DEF k
  <2>3. \A i \in 1..n + 1 : i # k => G[i] = g[i]
    OBVIOUS
  <2>4. G[k] = Glued(piece[k], g[next[k]])
    BY <2>2
  <2>5. G[n + 1] = <<>>
    BY <2>1, <2>2, <2>3
  <2>6. ASSUME NEW i \in k..n
        PROVE  next[i] \in 1..n + 1 /\ next[i] # k
    <3>1. i \in 1..n
      BY <2>2
    <3>2. next[i] \in i + 1..n + 1
      BY <3>1 DEF Ahead
    <3> QED  BY <2>2, <3>2
  <2> HIDE DEF G
  <2>7. ASSUME NEW i \in k..n
        PROVE  G[i] = Glued(piece[i], G[next[i]])
    <3>1. G[next[i]] = g[next[i]]
      BY <2>3, <2>6
    <3>2. CASE i = k
      BY <2>4, <3>1, <3>2
    <3>3. CASE i # k
      <4>1. i \in k + 1..n /\ i \in 1..n + 1
        BY <2>2, <3>3
      <4> QED  BY <2>1, <2>2, <2>3, <3>1, <3>3, <4>1
    <3> QED  BY <3>2, <3>3
  <2> QED  BY <2>2, <2>5, <2>7
<1>3. n \in Good
  <2> HIDE DEF Good
  <2> QED  BY <1>1, <1>2, SetNatInduction
<1>4. PICK g : /\ g[n + 1] = <<>>
               /\ \A i \in n + 1 - n..n : g[i] = Glued(piece[i], g[next[i]])
  BY <1>3
<1> DEFINE G == [i \in 1..n + 1 |-> g[i]]
<1>5. \A i \in 1..n + 1 : G[i] = g[i]
  OBVIOUS
<1>6. n + 1 - n = 1 /\ n + 1 \in 1..n + 1 /\ \A i \in 1..n : i \in 1..n + 1 /\ next[i] \in 1..n + 1
  BY DEF Ahead
<1>7. G = [i \in 1..n + 1 |-> G[i]]
  OBVIOUS
<1> HIDE DEF G
<1>8. G[n + 1] = <<>>
  BY <1>4, <1>5, <1>6
<1>9. \A i \in 1..n : G[i] = Glued(piece[i], G[next[i]])
  BY <1>4, <1>5, <1>6
<1> QED  BY <1>7, <1>8, <1>9 DEF Walks

Shifted(m, k, piece, next, pieceH, nextH) ==
  \A i \in 1..m : pieceH[i] = piece[i + k] /\ nextH[i] + k = next[i + k]

\* Two walks that agree from some position on, shifted by k.
LEMMA WalksAgree ==
  ASSUME NEW m \in Nat, NEW k \in Nat, NEW g, NEW h, NEW piece, NEW next, NEW pieceH, NEW nextH,
         Walks(g, m + k, piece, next), Walks(h, m, pieceH, nextH), Ahead(m, nextH),
         Shifted(m, k, piece, next, pieceH, nextH)
  PROVE  h[1] = g[1 + k]
<1> DEFINE Good == {d \in Nat : \A i \in 1..m + 1 : m + 1 - i <= d => h[i] = g[i + k]}
<1>1. 0 \in Good
  <2>1. h[m + 1] = g[m + 1 + k]
    <3>1. m + 1 + k = m + k + 1
      OBVIOUS
    <3> QED  BY <3>1 DEF Walks
  <2> QED  BY <2>1
<1>2. ASSUME NEW d \in Nat, d \in Good
      PROVE  d + 1 \in Good
  <2> SUFFICES ASSUME NEW i \in 1..m + 1, m + 1 - i <= d + 1
               PROVE  h[i] = g[i + k]
    OBVIOUS
  <2>1. CASE m + 1 - i <= d
    BY <1>2, <2>1
  <2>2. CASE ~(m + 1 - i <= d)
    <3>1. i \in 1..m /\ i + k \in 1..m + k
      BY <2>2
    <3>2. nextH[i] \in i + 1..m + 1
      BY <3>1 DEF Ahead
    <3>3. nextH[i] \in 1..m + 1 /\ m + 1 - nextH[i] <= d
      BY <2>2, <3>1, <3>2
    <3>4. h[nextH[i]] = g[nextH[i] + k]
      BY <1>2, <3>3
    <3>5. h[i] = Glued(pieceH[i], h[nextH[i]])
      BY <3>1 DEF Walks
    <3>6. g[i + k] = Glued(piece[i + k], g[next[i + k]])
      BY <3>1 DEF Walks
    <3> QED  BY <3>1, <3>4, <3>5, <3>6 DEF Shifted
  <2> QED  BY <2>1, <2>2
<1>3. m \in Good
  <2> HIDE DEF Good
  <2> QED  BY <1>1, <1>2, SetNatInduction
<1>4. 1 \in 1..m + 1 /\ m + 1 - 1 <= m
  OBVIOUS
<1> QED  BY <1>3, <1>4

LEMMA WalkType ==
  ASSUME NEW S, NEW n \in Nat, NEW g, NEW piece, NEW next, Walks(g, n, piece, next), Ahead(n, next),
         \A i \in 1..n : piece[i] \in Seq(S)
  PROVE  \A i \in 1..n + 1 : g[i] \in Seq(S)
<1> DEFINE Good == {d \in Nat : \A i \in 1..n + 1 : n + 1 - i <= d => g[i] \in Seq(S)}
<1>1. 0 \in Good
  <2>1. g[n + 1] \in Seq(S)
    BY EmptySeq DEF Walks
  <2>2. \A i \in 1..n + 1 : n + 1 - i <= 0 => i = n + 1
    OBVIOUS
  <2> QED  BY <2>1, <2>2
<1>2. ASSUME NEW d \in Nat, d \in Good
      PROVE  d + 1 \in Good
  <2> SUFFICES ASSUME NEW i \in 1..n + 1, n + 1 - i <= d + 1
               PROVE  g[i] \in Seq(S)
    OBVIOUS
  <2>1. CASE n + 1 - i <= d
    BY <1>2, <2>1
  <2>2. CASE ~(n + 1 - i <= d)
    <3>1. i \in 1..n
      BY <2>2
    <3>2. next[i] \in i + 1..n + 1
      BY <3>1 DEF Ahead
    <3>3. next[i] \in 1..n + 1 /\ n + 1 - next[i] <= d
      BY <2>2, <3>1, <3>2
    <3>4. g[next[i]] \in Seq(S)
      BY <1>2, <3>3
    <3>5. g[i] = Glued(piece[i], g[next[i]])
      BY <3>1 DEF Walks
    <3> QED  BY <3>1, <3>4, <3>5, GluedType
  <2> QED  BY <2>1, <2>2
<1>3. n \in Good
  <2> HIDE DEF Good
  <2> QED  BY <1>1, <1>2, SetNatInduction
<1>4. \A i \in 1..n + 1 : n + 1 - i <= n
  OBVIOUS
<1> QED  BY <1>3, <1>4

\* A walk over nothing.
Empty(j, piece, next) == \A i \in 1..j : piece[i] = <<>> /\ next[i] = i + 1

LEMMA WalkSkips ==
  ASSUME NEW S, NEW n \in Nat, NEW g, NEW piece, NEW next, Walks(g, n, piece, next),
         \A i \in 1..n + 1 : g[i] \in Seq(S),
         NEW j \in 0..n, Empty(j, piece, next)
  PROVE  g[1] = g[j + 1]
<1> DEFINE Good == {d \in Nat : d <= j => g[1] = g[d + 1]}
<1>1. 0 \in Good
  OBVIOUS
<1>2. ASSUME NEW d \in Nat, d \in Good
      PROVE  d + 1 \in Good
  <2> SUFFICES ASSUME d + 1 <= j
               PROVE  g[1] = g[d + 1 + 1]
    OBVIOUS
  <2>1. d + 1 \in 1..j /\ d + 1 \in 1..n /\ d + 1 + 1 \in 1..n + 1
    OBVIOUS
  <2>2. g[d + 1] = Glued(<<>>, g[d + 1 + 1])
    BY <2>1 DEF Walks, Empty
  <2>3. g[d + 1] = g[d + 1 + 1]
    BY <2>1, <2>2, GluedEmpty
  <2> QED  BY <1>2, <2>3
<1>3. j \in Good
  <2> HIDE DEF Good
  <2> QED  BY <1>1, <1>2, SetNatInduction
<1> QED  BY <1>3

-----------------------------------------------------------------------------
(* Files.                                                                  *)

Drop(c, k) == SubSeq(c, k + 1, Len(c))

LEMMA Dropped ==
  ASSUME NEW S, NEW c \in Seq(S), NEW k \in 0..Len(c)
  PROVE  /\ Drop(c, k) \in Seq(S) /\ Len(c) \in Nat /\ Len(Drop(c, k)) = Len(c) - k
         /\ \A i \in 1..Len(c) - k : Drop(c, k)[i] = c[i + k]
<1> DEFINE n == Len(c)
           d == SubSeq(c, k + 1, n)
<1>1. n \in Nat
  BY LenProperties
<1>2. \A i \in k + 1..n : c[i] \in S
  BY ElementOfSeq
<1>3. /\ d \in Seq(S)
      /\ Len(d) = IF k + 1 <= n THEN n - (k + 1) + 1 ELSE 0
      /\ \A i \in 1..n - (k + 1) + 1 : d[i] = c[k + 1 + i - 1]
  BY <1>1, <1>2, SubSeqProperties
<1> HIDE DEF n, d
<1>4. k \in 0..n
  BY DEF n
<1>5. Len(d) = n - k
  BY <1>1, <1>3, <1>4
<1>6. ASSUME NEW i \in 1..n - k
      PROVE  d[i] = c[i + k]
  <2>1. i \in 1..n - (k + 1) + 1 /\ k + 1 + i - 1 = i + k
    BY <1>1, <1>4
  <2> QED  BY <1>3, <2>1
<1> QED  BY <1>1, <1>3, <1>5, <1>6 DEF Drop, n, d

\* The first end marker from i on.
EndOf(c, i) == CHOOSE j \in Ends(c, i) : \A k \in Ends(c, i) : j <= k

LEMMA EndFound ==
  ASSUME NEW c, Len(c) \in Nat, NEW i \in 1..Len(c), Ends(c, i) # {}
  PROVE  /\ EndOf(c, i) \in i..Len(c) /\ c[EndOf(c, i)] = MARKER_END
         /\ \A k \in i..EndOf(c, i) - 1 : c[k] # MARKER_END
<1> DEFINE j == EndOf(c, i)
<1>1. Ends(c, i) \in SUBSET Nat
  BY DEF Ends
<1>2. \E e \in Ends(c, i) : \A k \in Ends(c, i) : e <= k
  BY <1>1, LeastNatural
<1>3. j \in Ends(c, i) /\ \A k \in Ends(c, i) : j <= k
  BY <1>2 DEF EndOf
<1> HIDE DEF j
<1>4. j \in i..Len(c) /\ c[j] = MARKER_END
  BY <1>3 DEF Ends
<1>5. ASSUME NEW k \in i..j - 1
      PROVE  c[k] # MARKER_END
  <2>1. k \in i..Len(c) /\ ~(j <= k)
    BY <1>4
  <2> QED  BY <1>3, <2>1 DEF Ends
<1> QED  BY <1>4, <1>5 DEF j

LEMMA EndIsFirst ==
  ASSUME NEW c, Len(c) \in Nat, NEW i \in 1..Len(c), NEW j \in i..Len(c), c[j] = MARKER_END,
         \A k \in i..j - 1 : c[k] # MARKER_END
  PROVE  Ends(c, i) # {} /\ EndOf(c, i) = j
<1>1. j \in Ends(c, i)
  BY DEF Ends
<1> DEFINE e == EndOf(c, i)
<1>2. /\ e \in i..Len(c) /\ c[e] = MARKER_END
      /\ \A k \in i..e - 1 : c[k] # MARKER_END
  BY <1>1, EndFound
<1> HIDE DEF e
<1>3. ~(j < e) /\ ~(e < j)
  BY <1>2
<1>4. e = j
  BY <1>2, <1>3
<1> QED  BY <1>1, <1>4 DEF e

LEMMA SectionEndBy ==
  ASSUME NEW c, NEW i
  PROVE  SectionEnd(c, i) = OverLineEnd(c, EndOf(c, i))
BY DEF SectionEnd, EndOf

LEMMA SectionEndRange ==
  ASSUME NEW c, Len(c) \in Nat, NEW i \in 1..Len(c), IsSection(c, i)
  PROVE  SectionEnd(c, i) \in i..Len(c) /\ SectionEnd(c, i) >= EndOf(c, i)
<1>1. EndOf(c, i) \in i..Len(c)
  BY EndFound DEF IsSection
<1>2. SectionEnd(c, i) = OverLineEnd(c, EndOf(c, i))
  BY SectionEndBy
<1> QED  BY <1>1, <1>2 DEF OverLineEnd

\* What a section is does not depend on what is before it.
LEMMA SectionShifted ==
  ASSUME NEW S, NEW c \in Seq(S), NEW k \in 0..Len(c), NEW i \in 1..Len(c) - k
  PROVE  /\ IsSection(Drop(c, k), i) <=> IsSection(c, i + k)
         /\ IsSection(c, i + k) => SectionEnd(Drop(c, k), i) + k = SectionEnd(c, i + k)
<1> DEFINE d == Drop(c, k)
           n == Len(c)
<1>1. /\ n \in Nat /\ Len(d) = n - k /\ \A m \in 1..n - k : d[m] = c[m + k]
  BY Dropped
<1> HIDE DEF d, n
<1>2. k \in 0..n /\ i \in 1..n - k /\ i + k \in 1..n
  BY <1>1 DEF n
<1>3. ASSUME Ends(d, i) # {}
      PROVE  Ends(c, i + k) # {}
  <2>1. PICK j \in i..n - k : d[j] = MARKER_END
    BY <1>1, <1>3 DEF Ends
  <2>2. j + k \in i + k..n /\ c[j + k] = MARKER_END
    BY <1>1, <1>2, <2>1
  <2> QED  BY <2>2 DEF Ends, n
<1>4. ASSUME Ends(c, i + k) # {}
      PROVE  Ends(d, i) # {} /\ EndOf(d, i) + k = EndOf(c, i + k)
  <2> DEFINE e == EndOf(c, i + k)
  <2>1. e \in i + k..n /\ c[e] = MARKER_END /\ \A m \in i + k..e - 1 : c[m] # MARKER_END
    BY <1>1, <1>2, <1>4, EndFound DEF n
  <2> HIDE DEF e
  <2>2. e - k \in i..n - k /\ (e - k) + k = e
    BY <1>1, <1>2, <2>1
  <2>3. d[e - k] = MARKER_END
    BY <1>1, <1>2, <2>1, <2>2
  <2>4. ASSUME NEW m \in i..(e - k) - 1
        PROVE  d[m] # MARKER_END
    <3>1. m + k \in i + k..e - 1 /\ m \in 1..n - k
      BY <1>1, <1>2, <2>1
    <3> QED  BY <1>1, <2>1, <3>1
  <2>5. Ends(d, i) # {} /\ EndOf(d, i) = e - k
    <3> DEFINE j == e - k
    <3>1. j \in i..Len(d) /\ d[j] = MARKER_END /\ \A m \in i..j - 1 : d[m] # MARKER_END
      BY <1>1, <2>2, <2>3, <2>4
    <3>2. Len(d) \in Nat /\ i \in 1..Len(d)
      BY <1>1, <1>2
    <3> HIDE DEF j
    <3>3. Ends(d, i) # {} /\ EndOf(d, i) = j
      BY <3>1, <3>2, EndIsFirst
    <3> QED  BY <3>3 DEF j
  <2> QED  BY <2>2, <2>5 DEF e
<1>5. IsSection(d, i) <=> IsSection(c, i + k)
  BY <1>1, <1>2, <1>3, <1>4 DEF IsSection
<1>6. ASSUME IsSection(c, i + k)
      PROVE  SectionEnd(d, i) + k = SectionEnd(c, i + k)
  <2> DEFINE e == EndOf(c, i + k)
             f == EndOf(d, i)
  <2>1. f + k = e /\ e \in i + k..n
    BY <1>1, <1>2, <1>4, <1>6, EndFound DEF IsSection, n
  <2>2. Ends(d, i) # {}
    BY <1>4, <1>6 DEF IsSection
  <2>3. f \in i..n - k
    BY <1>1, <1>2, <2>2, EndFound
  <2> HIDE DEF e, f
  <2>4. e < n <=> f < n - k
    BY <1>1, <1>2, <2>1, <2>3
  <2>5. e < n => d[f + 1] = c[e + 1]
    <3> SUFFICES ASSUME e < n PROVE d[f + 1] = c[e + 1]
      OBVIOUS
    <3>1. f + 1 \in 1..n - k /\ (f + 1) + k = e + 1
      BY <1>1, <1>2, <2>1, <2>3
    <3> QED  BY <1>1, <3>1
  <2>6. OverLineEnd(d, f) + k = OverLineEnd(c, e)
    <3>1. OverLineEnd(d, f) = IF f < n - k /\ d[f + 1] = LineEnd THEN f + 1 ELSE f
      BY <1>1 DEF OverLineEnd
    <3>2. OverLineEnd(c, e) = IF e < n /\ c[e + 1] = LineEnd THEN e + 1 ELSE e
      BY DEF OverLineEnd, n
    <3> QED  BY <1>1, <1>2, <2>1, <2>3, <2>4, <2>5, <3>1, <3>2
  <2> QED  BY <2>6, SectionEndBy DEF e, f
<1> QED  BY <1>5, <1>6 DEF d

-----------------------------------------------------------------------------
(* The substitution, by the first section or token.                        *)

SubPiece(c, b) == [i \in 1..Len(c) |-> IF IsSection(c, i) THEN b ELSE <<c[i]>>]
SubNext(c) == [i \in 1..Len(c) |-> IF IsSection(c, i) THEN SectionEnd(c, i) + 1 ELSE i + 1]

IsFrom(g, c, b) ==
  g = [i \in 1..Len(c) + 1 |->
         IF i > Len(c) THEN <<>>
         ELSE IF IsSection(c, i) THEN b \o g[SectionEnd(c, i) + 1]
         ELSE <<c[i]>> \o g[i + 1]]

LEMMA SubAhead ==
  ASSUME NEW c, Len(c) \in Nat
  PROVE  Ahead(Len(c), SubNext(c))
<1> SUFFICES ASSUME NEW i \in 1..Len(c) PROVE SubNext(c)[i] \in i + 1..Len(c) + 1
  BY DEF Ahead
<1>1. SubNext(c)[i] = IF IsSection(c, i) THEN SectionEnd(c, i) + 1 ELSE i + 1
  BY DEF SubNext
<1>2. IsSection(c, i) => SectionEnd(c, i) \in i..Len(c)
  BY SectionEndRange
<1> QED  BY <1>1, <1>2

LEMMA FromWalks ==
  ASSUME NEW c, Len(c) \in Nat, NEW b, NEW g
  PROVE  IsFrom(g, c, b) <=> Walks(g, Len(c), SubPiece(c, b), SubNext(c))
<1> DEFINE n == Len(c)
           At(i) == IF i > n THEN <<>>
                    ELSE IF IsSection(c, i) THEN b \o g[SectionEnd(c, i) + 1]
                    ELSE <<c[i]>> \o g[i + 1]
<1>1. IsFrom(g, c, b) <=> g = [i \in 1..n + 1 |-> At(i)]
  BY DEF IsFrom
<1>2. ASSUME NEW i \in 1..n
      PROVE  At(i) = Glued(SubPiece(c, b)[i], g[SubNext(c)[i]])
  <2>1. ~(i > n)
    OBVIOUS
  <2>2. CASE IsSection(c, i)
    <3>1. SubPiece(c, b)[i] = b /\ SubNext(c)[i] = SectionEnd(c, i) + 1
      BY <2>2 DEF SubPiece, SubNext
    <3>2. At(i) = b \o g[SectionEnd(c, i) + 1]
      BY <2>1, <2>2
    <3> HIDE DEF At
    <3> QED  BY <3>1, <3>2 DEF Glued
  <2>3. CASE ~IsSection(c, i)
    <3>1. SubPiece(c, b)[i] = <<c[i]>> /\ SubNext(c)[i] = i + 1
      BY <2>3 DEF SubPiece, SubNext
    <3>2. At(i) = <<c[i]>> \o g[i + 1]
      BY <2>1, <2>3
    <3> HIDE DEF At
    <3> QED  BY <3>1, <3>2 DEF Glued
  <2> QED  BY <2>2, <2>3
<1>3. n \in Nat /\ At(n + 1) = <<>>
  OBVIOUS
<1> HIDE DEF At, n
<1>4. ASSUME IsFrom(g, c, b)
      PROVE  Walks(g, n, SubPiece(c, b), SubNext(c))
  <2>1. \A i \in 1..n + 1 : g[i] = At(i)
    BY <1>1, <1>4
  <2>2. g = [i \in 1..n + 1 |-> g[i]]
    BY <1>1, <1>4
  <2> QED  BY <1>2, <1>3, <2>1, <2>2 DEF Walks
<1>5. ASSUME Walks(g, n, SubPiece(c, b), SubNext(c))
      PROVE  IsFrom(g, c, b)
  <2>1. ASSUME NEW i \in 1..n + 1
        PROVE  g[i] = At(i)
    <3>1. i = n + 1 \/ i \in 1..n
      BY <1>3
    <3> QED  BY <1>2, <1>3, <1>5, <3>1 DEF Walks
  <2>2. g = [i \in 1..n + 1 |-> g[i]]
    BY <1>5 DEF Walks
  <2> QED  BY <1>1, <2>1, <2>2
<1> QED  BY <1>4, <1>5 DEF n

LEMMA SubWalk ==
  ASSUME NEW c, Len(c) \in Nat, NEW b
  PROVE  \E g : Walks(g, Len(c), SubPiece(c, b), SubNext(c)) /\ Substituted(c, b) = g[1]
<1> DEFINE g == CHOOSE f : IsFrom(f, c, b)
<1>1. \E f : IsFrom(f, c, b)
  BY WalkExists, SubAhead, FromWalks
<1>2. IsFrom(g, c, b)
  BY <1>1
<1>3. Substituted(c, b) = g[1]
  BY DEF Substituted, IsFrom
<1> HIDE DEF g
<1> QED  BY <1>2, <1>3, FromWalks

LEMMA SubType ==
  ASSUME NEW S, NEW c \in Seq(S), NEW b \in Seq(S)
  PROVE  /\ Substituted(c, b) \in Seq(S)
         /\ c = <<>> => Substituted(c, b) = <<>>
<1>1. Len(c) \in Nat
  BY LenProperties
<1>2. PICK g : Walks(g, Len(c), SubPiece(c, b), SubNext(c)) /\ Substituted(c, b) = g[1]
  BY <1>1, SubWalk
<1>3. \A i \in 1..Len(c) : SubPiece(c, b)[i] \in Seq(S)
  <2> SUFFICES ASSUME NEW i \in 1..Len(c) PROVE SubPiece(c, b)[i] \in Seq(S)
    OBVIOUS
  <2>1. c[i] \in S
    BY ElementOfSeq
  <2>2. <<c[i]>> \in Seq(S)
    BY <2>1
  <2> QED  BY <2>2 DEF SubPiece
<1>4. \A i \in 1..Len(c) + 1 : g[i] \in Seq(S)
  BY <1>1, <1>2, <1>3, SubAhead, WalkType
<1>5. 1 \in 1..Len(c) + 1
  BY <1>1
<1>6. c = <<>> => g[1] = <<>>
  <2> SUFFICES ASSUME c = <<>> PROVE g[1] = <<>>
    OBVIOUS
  <2>1. Len(c) = 0
    BY EmptySeq
  <2>2. g[0 + 1] = <<>>
    BY <1>2, <2>1 DEF Walks
  <2> QED  BY <2>2
<1> QED  BY <1>2, <1>4, <1>5, <1>6

LEMMA SubStep ==
  ASSUME NEW S, NEW c \in Seq(S), NEW b, c # <<>>
  PROVE  /\ Len(c) \in Nat \ {0} /\ 1 \in 1..Len(c)
         /\ IsSection(c, 1) => SectionEnd(c, 1) \in 1..Len(c)
         /\ IsSection(c, 1) =>
              Substituted(c, b) = Glued(b, Substituted(Drop(c, SectionEnd(c, 1)), b))
         /\ ~IsSection(c, 1) => Substituted(c, b) = Glued(<<c[1]>>, Substituted(Drop(c, 1), b))
<1> DEFINE n == Len(c)
<1>1. n \in Nat \ {0} /\ 1 \in 1..n /\ Len(c) \in Nat
  BY EmptySeq
<1> HIDE DEF n
<1>2. PICK g : Walks(g, n, SubPiece(c, b), SubNext(c)) /\ Substituted(c, b) = g[1]
  BY <1>1, SubWalk DEF n
<1>3. ASSUME NEW k \in 1..n
      PROVE  g[k + 1] = Substituted(Drop(c, k), b)
  <2> DEFINE d == Drop(c, k)
             m == n - k
  <2>1. /\ d \in Seq(S) /\ Len(d) = m /\ m \in Nat
        /\ \A i \in 1..m : d[i] = c[i + k]
    BY <1>1, Dropped DEF n
  <2>2. \A i \in 1..m :
          /\ IsSection(d, i) <=> IsSection(c, i + k)
          /\ IsSection(c, i + k) => SectionEnd(d, i) + k = SectionEnd(c, i + k)
    BY <1>1, SectionShifted DEF n
  <2>3. m + k = n /\ k \in Nat
    BY <1>1
  <2> HIDE DEF d, m
  <2>4. PICK h : Walks(h, m, SubPiece(d, b), SubNext(d)) /\ Substituted(d, b) = h[1]
    BY <2>1, SubWalk
  <2>5. Ahead(m, SubNext(d))
    BY <2>1, SubAhead
  <2>6. ASSUME NEW i \in 1..m
        PROVE  SubPiece(d, b)[i] = SubPiece(c, b)[i + k] /\ SubNext(d)[i] + k = SubNext(c)[i + k]
    <3>1. i + k \in 1..n
      BY <2>1, <2>3
    <3>2. /\ SubPiece(c, b)[i + k] = IF IsSection(c, i + k) THEN b ELSE <<c[i + k]>>
          /\ SubNext(c)[i + k] = IF IsSection(c, i + k) THEN SectionEnd(c, i + k) + 1 ELSE i + k + 1
      BY <3>1 DEF SubPiece, SubNext, n
    <3>3. /\ SubPiece(d, b)[i] = IF IsSection(d, i) THEN b ELSE <<d[i]>>
          /\ SubNext(d)[i] = IF IsSection(d, i) THEN SectionEnd(d, i) + 1 ELSE i + 1
      BY <2>1 DEF SubPiece, SubNext
    <3>4. IsSection(d, i) => SectionEnd(d, i) \in i..m
      BY <2>1, SectionEndRange
    <3>5. d[i] = c[i + k]
      BY <2>1
    <3>6. SubPiece(d, b)[i] = SubPiece(c, b)[i + k]
      BY <2>2, <3>2, <3>3, <3>5
    <3>7. CASE IsSection(d, i)
      <4>1. SectionEnd(d, i) + k = SectionEnd(c, i + k) /\ IsSection(c, i + k)
        BY <2>2, <3>7
      <4>2. SectionEnd(d, i) + 1 + k = SectionEnd(c, i + k) + 1
        BY <2>3, <3>4, <3>7, <4>1
      <4> QED  BY <3>2, <3>3, <3>6, <3>7, <4>1, <4>2
    <3>8. CASE ~IsSection(d, i)
      BY <2>2, <2>3, <3>2, <3>3, <3>6, <3>8
    <3> QED  BY <3>7, <3>8
  <2>7. h[1] = g[1 + k]
    <3> DEFINE pc == SubPiece(c, b)
               nc == SubNext(c)
               pd == SubPiece(d, b)
               nd == SubNext(d)
    <3>1. Walks(g, m + k, pc, nc) /\ Walks(h, m, pd, nd) /\ Ahead(m, nd) /\ m \in Nat /\ k \in Nat
      BY <1>2, <2>1, <2>3, <2>4, <2>5
    <3>2. Shifted(m, k, pc, nc, pd, nd)
      BY <2>6 DEF Shifted
    <3> HIDE DEF pc, nc, pd, nd
    <3> QED  BY <3>1, <3>2, WalksAgree
  <2>8. 1 + k = k + 1
    BY <2>3
  <2> QED  BY <2>4, <2>7, <2>8 DEF d
<1>4. g[1] = Glued(SubPiece(c, b)[1], g[SubNext(c)[1]])
  BY <1>1, <1>2 DEF Walks
<1>5. /\ SubPiece(c, b)[1] = IF IsSection(c, 1) THEN b ELSE <<c[1]>>
      /\ SubNext(c)[1] = IF IsSection(c, 1) THEN SectionEnd(c, 1) + 1 ELSE 1 + 1
  BY <1>1 DEF SubPiece, SubNext, n
<1>6. IsSection(c, 1) => SectionEnd(c, 1) \in 1..n
  BY <1>1, SectionEndRange DEF n
<1>7. g[1 + 1] = Substituted(Drop(c, 1), b)
  BY <1>1, <1>3
<1>8. IsSection(c, 1) => g[SectionEnd(c, 1) + 1] = Substituted(Drop(c, SectionEnd(c, 1)), b)
  BY <1>3, <1>6
<1> QED  BY <1>1, <1>2, <1>4, <1>5, <1>6, <1>7, <1>8 DEF n

-----------------------------------------------------------------------------
(* What the substitution makes of a file, it leaves alone.                 *)

IsBlock(b, S) ==
  /\ b \in Seq(S) /\ Len(b) \in Nat /\ Len(b) >= 3
  /\ b[1] = MARKER_START /\ b[Len(b) - 1] = MARKER_END /\ b[Len(b)] = LineEnd
  /\ \A k \in 1..Len(b) - 2 : b[k] # MARKER_END

HasEnd(c) == \E i \in 1..Len(c) : c[i] = MARKER_END

LEMMA MarkersDiffer == MARKER_START # MARKER_END /\ LineEnd # MARKER_END /\ LineEnd # MARKER_START
<1>1. "GENERATED-SIGNATURES-START" # "GENERATED-SIGNATURES-END"
  OBVIOUS
<1>2. MARKER_START.marker # MARKER_END.marker
  BY <1>1 DEF MARKER_START, MARKER_END
<1>3. "text" # "marker" /\ DOMAIN LineEnd = {"text"}
  BY DEF LineEnd
<1>4. DOMAIN MARKER_START = {"marker"} /\ DOMAIN MARKER_END = {"marker"}
  BY DEF MARKER_START, MARKER_END
<1> QED  BY <1>2, <1>3, <1>4

LEMMA DropGlued ==
  ASSUME NEW S, NEW s \in Seq(S), NEW t \in Seq(S)
  PROVE  Drop(Glued(s, t), Len(s)) = t
<1> DEFINE d == Glued(s, t)
           e == Drop(d, Len(s))
<1>1. /\ d \in Seq(S) /\ Len(d) = Len(s) + Len(t) /\ Len(s) \in Nat /\ Len(t) \in Nat
      /\ \A i \in 1..Len(t) : d[Len(s) + i] = t[i]
  BY GluedType
<1>2. Len(s) \in 0..Len(d)
  BY <1>1
<1> HIDE DEF d
<1>3. /\ e \in Seq(S) /\ Len(e) = Len(d) - Len(s)
      /\ \A i \in 1..Len(d) - Len(s) : e[i] = d[i + Len(s)]
  BY <1>1, <1>2, Dropped
<1> HIDE DEF e
<1>4. Len(e) = Len(t) /\ \A i \in 1..Len(t) : e[i] = t[i]
  <2>1. Len(d) - Len(s) = Len(t)
    BY <1>1
  <2>2. \A i \in 1..Len(t) : i + Len(s) = Len(s) + i
    BY <1>1
  <2> QED  BY <1>1, <1>3, <2>1, <2>2
<1>5. e = t
  BY <1>3, <1>4, SeqEqual
<1> QED  BY <1>5 DEF d, e

\* A block is a section of its own, whatever follows.
LEMMA BlockFirst ==
  ASSUME NEW S, NEW b, IsBlock(b, S), NEW t \in Seq(S)
  PROVE  /\ Glued(b, t) \in Seq(S) /\ Glued(b, t) # <<>>
         /\ IsSection(Glued(b, t), 1)
         /\ SectionEnd(Glued(b, t), 1) = Len(b)
         /\ Drop(Glued(b, t), Len(b)) = t
<1> DEFINE d == Glued(b, t)
           n == Len(b)
<1>1. /\ n \in Nat /\ n >= 3 /\ b \in Seq(S)
      /\ b[1] = MARKER_START /\ b[n - 1] = MARKER_END /\ b[n] = LineEnd
      /\ \A k \in 1..n - 2 : b[k] # MARKER_END
  BY DEF IsBlock
<1>2. /\ d \in Seq(S) /\ Len(d) = n + Len(t) /\ Len(t) \in Nat
      /\ \A i \in 1..n : d[i] = b[i]
  BY <1>1, GluedType
<1>3. Drop(d, n) = t
  BY <1>1, DropGlued
<1> HIDE DEF d, n
<1>4. Len(d) \in Nat /\ 1 \in 1..Len(d) /\ n - 1 \in 1..Len(d) /\ n - 1 < Len(d)
  BY <1>1, <1>2
<1>5. d[n - 1] = MARKER_END /\ d[1] = MARKER_START /\ \A k \in 1..(n - 1) - 1 : d[k] # MARKER_END
  <2>1. n - 1 \in 1..n /\ 1 \in 1..n
    BY <1>1
  <2>2. ASSUME NEW k \in 1..(n - 1) - 1
        PROVE  k \in 1..n /\ k \in 1..n - 2
    BY <1>1
  <2> QED  BY <1>1, <1>2, <2>1, <2>2
<1>6. Ends(d, 1) # {} /\ EndOf(d, 1) = n - 1
  <2> DEFINE j == n - 1
  <2>1. j \in 1..Len(d) /\ d[j] = MARKER_END /\ \A k \in 1..j - 1 : d[k] # MARKER_END
    BY <1>4, <1>5
  <2> HIDE DEF j
  <2>2. Ends(d, 1) # {} /\ EndOf(d, 1) = j
    BY <1>4, <2>1, EndIsFirst
  <2> QED  BY <2>2 DEF j
<1>7. IsSection(d, 1)
  BY <1>5, <1>6 DEF IsSection
<1>8. SectionEnd(d, 1) = n
  <2>1. SectionEnd(d, 1) = OverLineEnd(d, n - 1)
    BY <1>6, SectionEndBy
  <2>2. (n - 1) + 1 = n /\ n \in 1..n
    BY <1>1
  <2>3. d[n] = LineEnd
    BY <1>1, <1>2, <2>2
  <2> QED  BY <1>4, <2>1, <2>2, <2>3 DEF OverLineEnd
<1>9. d # <<>>
  BY <1>4, EmptySeq
<1> QED  BY <1>2, <1>3, <1>7, <1>8, <1>9 DEF d, n

\* A token that starts no section starts none before what has no end marker more.
LEMMA TokenFirst ==
  ASSUME NEW S, NEW c \in Seq(S), c # <<>>, ~IsSection(c, 1), NEW t \in Seq(S),
         HasEnd(t) => HasEnd(Drop(c, 1))
  PROVE  /\ Glued(<<c[1]>>, t) \in Seq(S) /\ Glued(<<c[1]>>, t) # <<>>
         /\ Glued(<<c[1]>>, t)[1] = c[1]
         /\ ~IsSection(Glued(<<c[1]>>, t), 1)
         /\ Drop(Glued(<<c[1]>>, t), 1) = t
         /\ HasEnd(Glued(<<c[1]>>, t)) => HasEnd(c)
<1> DEFINE x == <<c[1]>>
           d == Glued(x, t)
           e == Drop(c, 1)
<1>1. Len(c) \in Nat /\ 1 \in 1..Len(c) /\ 1 \in 0..Len(c)
  BY EmptySeq
<1>2. x \in Seq(S) /\ Len(x) = 1 /\ x[1] = c[1]
  BY <1>1, ElementOfSeq
<1> HIDE DEF x
<1>3. /\ d \in Seq(S) /\ Len(d) = 1 + Len(t) /\ Len(t) \in Nat
      /\ d[1] = c[1] /\ \A i \in 1..Len(t) : d[1 + i] = t[i]
  <2>1. /\ d \in Seq(S) /\ Len(d) = Len(x) + Len(t) /\ Len(t) \in Nat
        /\ \A i \in 1..Len(x) : d[i] = x[i]
        /\ \A i \in 1..Len(t) : d[Len(x) + i] = t[i]
    <3>1. IsGlued(d, x, t, S)
      BY <1>2, GluedIs
    <3> HIDE DEF d
    <3> QED  BY <3>1 DEF IsGlued
  <2> HIDE DEF d
  <2>2. 1 \in 1..Len(x)
    BY <1>2
  <2> QED  BY <1>2, <2>1, <2>2
<1>4. Drop(d, 1) = t
  BY <1>2, DropGlued
<1>5. /\ e \in Seq(S) /\ Len(e) = Len(c) - 1
      /\ \A i \in 1..Len(c) - 1 : e[i] = c[i + 1]
  BY <1>1, Dropped
<1> HIDE DEF d, e
<1>6. ASSUME HasEnd(e)
      PROVE  \E i \in 2..Len(c) : c[i] = MARKER_END
  <2>1. PICK i \in 1..Len(c) - 1 : e[i] = MARKER_END
    BY <1>5, <1>6 DEF HasEnd
  <2>2. i + 1 \in 2..Len(c) /\ c[i + 1] = MARKER_END
    BY <1>1, <1>5, <2>1
  <2> QED  BY <2>2
<1>7. ASSUME NEW i \in 1..Len(d), d[i] = MARKER_END, i # 1
      PROVE  \E j \in 2..Len(c) : c[j] = MARKER_END
  <2>1. i - 1 \in 1..Len(t) /\ 1 + (i - 1) = i
    BY <1>3, <1>7
  <2>2. t[i - 1] = MARKER_END
    BY <1>3, <1>7, <2>1
  <2>3. HasEnd(t)
    BY <2>1, <2>2 DEF HasEnd
  <2> QED  BY <1>6, <2>3 DEF e
<1>8. \A j \in 2..Len(c) : j \in 1..Len(c)
  BY <1>1
<1>9. ~IsSection(d, 1)
  <2> SUFFICES ASSUME IsSection(d, 1) PROVE FALSE
    OBVIOUS
  <2>1. c[1] = MARKER_START
    BY <1>3 DEF IsSection
  <2>2. PICK i \in 1..Len(d) : d[i] = MARKER_END
    BY DEF IsSection, Ends
  <2>3. i # 1
    BY <1>3, <2>1, <2>2, MarkersDiffer
  <2>4. Ends(c, 1) # {}
    BY <1>7, <1>8, <2>2, <2>3 DEF Ends
  <2> QED  BY <2>1, <2>4 DEF IsSection
<1>10. HasEnd(d) => HasEnd(c)
  <2> SUFFICES ASSUME HasEnd(d) PROVE HasEnd(c)
    OBVIOUS
  <2>1. PICK i \in 1..Len(d) : d[i] = MARKER_END
    BY DEF HasEnd
  <2>2. CASE i = 1
    BY <1>1, <1>3, <2>1, <2>2 DEF HasEnd
  <2>3. CASE i # 1
    BY <1>7, <1>8, <2>1, <2>3 DEF HasEnd
  <2> QED  BY <2>2, <2>3
<1>11. d # <<>>
  BY <1>3, EmptySeq
<1> QED  BY <1>3, <1>4, <1>9, <1>10, <1>11 DEF d, x

LEMMA SectionHasEnd ==
  ASSUME NEW c, IsSection(c, 1)
  PROVE  HasEnd(c)
BY DEF IsSection, Ends, HasEnd

LEMMA FoundLater ==
  ASSUME NEW S, NEW c \in Seq(S), NEW k \in 0..Len(c), Found(Drop(c, k))
  PROVE  Found(c)
<1>1. /\ Drop(c, k) \in Seq(S) /\ Len(c) \in Nat /\ Len(Drop(c, k)) = Len(c) - k
  BY Dropped
<1>2. PICK i \in 1..Len(c) - k : IsSection(Drop(c, k), i)
  BY <1>1, LenProperties DEF Found
<1>3. IsSection(c, i + k)
  BY <1>2, SectionShifted
<1>4. i + k \in DOMAIN c
  BY <1>1, LenProperties
<1> QED  BY <1>3, <1>4 DEF Found

LEMMA FoundFirst ==
  ASSUME NEW S, NEW c \in Seq(S), c # <<>>, Found(c), ~IsSection(c, 1)
  PROVE  Found(Drop(c, 1))
<1>1. Len(c) \in Nat /\ 1 \in 0..Len(c) /\ DOMAIN c = 1..Len(c)
  BY EmptySeq, LenProperties, SMTT(30)
<1>2. /\ Drop(c, 1) \in Seq(S) /\ Len(Drop(c, 1)) = Len(c) - 1
      /\ DOMAIN Drop(c, 1) = 1..Len(Drop(c, 1))
  <2>1. Drop(c, 1) \in Seq(S) /\ Len(Drop(c, 1)) = Len(c) - 1
    BY <1>1, Dropped
  <2> DEFINE d == Drop(c, 1)
  <2> HIDE DEF d
  <2>2. d \in Seq(S)
    BY <2>1 DEF d
  <2>3. DOMAIN d = 1..Len(d)
    BY <2>2, LenProperties
  <2> QED  BY <2>1, <2>3 DEF d
<1>3. PICK i \in 1..Len(c) : IsSection(c, i)
  BY <1>1 DEF Found
<1> DEFINE j == i - 1
<1>4. j \in 1..Len(c) - 1 /\ j + 1 = i
  BY <1>1, <1>3
<1> HIDE DEF j
<1>5. IsSection(Drop(c, 1), j)
  BY <1>1, <1>3, <1>4, SectionShifted
<1> QED  BY <1>2, <1>4, <1>5 DEF Found

\* What the substitution does to c, as the lemmas below need it.
Settled(c, b) ==
  /\ Substituted(Substituted(c, b), b) = Substituted(c, b)
  /\ HasEnd(Substituted(c, b)) => HasEnd(c)
  /\ Found(c) => Found(Substituted(c, b))

LEMMA SettledStep ==
  ASSUME NEW S, NEW b, IsBlock(b, S), NEW c \in Seq(S), c # <<>>,
         \A k \in 1..Len(c) : Settled(Drop(c, k), b)
  PROVE  Settled(c, b)
<1>1. /\ Len(c) \in Nat \ {0} /\ 1 \in 1..Len(c) /\ b \in Seq(S)
      /\ IsSection(c, 1) => SectionEnd(c, 1) \in 1..Len(c)
      /\ IsSection(c, 1) =>
           Substituted(c, b) = Glued(b, Substituted(Drop(c, SectionEnd(c, 1)), b))
      /\ ~IsSection(c, 1) => Substituted(c, b) = Glued(<<c[1]>>, Substituted(Drop(c, 1), b))
  BY SubStep DEF IsBlock
<1>2. ASSUME NEW k \in 1..Len(c)
      PROVE  /\ Substituted(Drop(c, k), b) \in Seq(S) /\ Drop(c, k) \in Seq(S)
             /\ Settled(Drop(c, k), b)
  <2>1. k \in 0..Len(c)
    BY <1>1
  <2> QED  BY <1>1, <2>1, Dropped, SubType
<1>3. CASE IsSection(c, 1)
  <2> DEFINE k == SectionEnd(c, 1)
             t == Substituted(Drop(c, k), b)
             d == Glued(b, t)
  <2>1. k \in 1..Len(c) /\ Substituted(c, b) = d
    BY <1>1, <1>3
  <2> HIDE DEF k
  <2>2. t \in Seq(S) /\ Substituted(t, b) = t
    BY <1>2, <2>1 DEF Settled
  <2> HIDE DEF t
  <2>3. /\ d \in Seq(S) /\ d # <<>> /\ IsSection(d, 1)
        /\ SectionEnd(d, 1) = Len(b) /\ Drop(d, Len(b)) = t
    BY <2>2, BlockFirst
  <2>4. Substituted(d, b) = Glued(b, Substituted(t, b))
    <3> HIDE DEF d
    <3> QED  BY <2>3, SubStep, ZenonT(60)
  <2>5. HasEnd(c)
    BY <1>3, SectionHasEnd
  <2>6. Found(d)
    <3>1. Len(d) \in Nat \ {0} /\ DOMAIN d = 1..Len(d)
      BY <2>3, EmptySeq, LenProperties
    <3>2. 1 \in DOMAIN d
      BY <3>1
    <3> QED  BY <2>3, <3>2 DEF Found
  <2> QED  BY <2>1, <2>2, <2>4, <2>5, <2>6 DEF Settled
<1>4. CASE ~IsSection(c, 1)
  <2> DEFINE t == Substituted(Drop(c, 1), b)
             d == Glued(<<c[1]>>, t)
  <2>1. Substituted(c, b) = d
    BY <1>1, <1>4
  <2>2. /\ t \in Seq(S) /\ Substituted(t, b) = t /\ (HasEnd(t) => HasEnd(Drop(c, 1)))
        /\ Found(Drop(c, 1)) => Found(t)
    BY <1>1, <1>2 DEF Settled
  <2> HIDE DEF t
  <2>3. /\ d \in Seq(S) /\ d # <<>> /\ d[1] = c[1] /\ ~IsSection(d, 1) /\ Drop(d, 1) = t
        /\ HasEnd(d) => HasEnd(c)
    BY <1>4, <2>2, TokenFirst
  <2>4. Substituted(d, b) = Glued(<<d[1]>>, Substituted(t, b))
    <3> HIDE DEF d
    <3> QED  BY <2>3, SubStep
  <2>5. Substituted(d, b) = d
    BY <2>2, <2>3, <2>4
  <2>6. Found(c) => Found(d)
    <3> SUFFICES ASSUME Found(c) PROVE Found(d)
      OBVIOUS
    <3>1. Found(t)
      BY <1>4, <2>2, FoundFirst
    <3>2. 1 \in 0..Len(d)
      <4> HIDE DEF d
      <4>1. Len(d) \in Nat \ {0}
        BY <2>3, EmptySeq
      <4> QED  BY <4>1
    <3> HIDE DEF d
    <3> QED  BY <2>3, <3>1, <3>2, FoundLater
  <2> HIDE DEF d
  <2> QED  BY <2>1, <2>3, <2>5, <2>6 DEF Settled
<1> QED  BY <1>3, <1>4

LEMMA SubSettled ==
  ASSUME NEW S, NEW b, IsBlock(b, S), NEW c \in Seq(S)
  PROVE  Settled(c, b)
<1> DEFINE Good == {n \in Nat : \A d \in Seq(S) : Len(d) <= n => Settled(d, b)}
<1>1. ASSUME NEW d \in Seq(S), d = <<>>
      PROVE  Settled(d, b)
  <2>1. Substituted(d, b) = d
    BY <1>1, SubType DEF IsBlock
  <2> QED  BY <2>1 DEF Settled
<1>2. \A d \in Seq(S) : Len(d) \in Nat /\ (d # <<>> => Len(d) > 0)
  BY EmptySeq, LenProperties
<1>3. 0 \in Good
  BY <1>1, <1>2
<1>4. ASSUME NEW n \in Nat, n \in Good
      PROVE  n + 1 \in Good
  <2> SUFFICES ASSUME NEW d \in Seq(S), Len(d) <= n + 1
               PROVE  Settled(d, b)
    OBVIOUS
  <2>1. CASE d = <<>>
    BY <1>1, <2>1
  <2>2. CASE d # <<>>
    <3>1. ASSUME NEW k \in 1..Len(d)
          PROVE  Settled(Drop(d, k), b)
      <4>1. k \in 0..Len(d)
        BY <1>2
      <4>2. Drop(d, k) \in Seq(S) /\ Len(Drop(d, k)) = Len(d) - k
        BY <4>1, Dropped
      <4>3. Len(Drop(d, k)) <= n
        BY <1>2, <4>2
      <4> QED  BY <1>4, <4>2, <4>3
    <3> QED  BY <2>2, <3>1, SettledStep
  <2> QED  BY <2>1, <2>2
<1>5. \A n \in Nat : n \in Good
  <2> HIDE DEF Good
  <2> QED  BY <1>3, <1>4, SetNatInduction
<1>6. Len(c) \in Good
  BY <1>2, <1>5
<1> QED  BY <1>2, <1>6

-----------------------------------------------------------------------------
(* The block the script writes.                                            *)

\* b is somewhere in c, in one piece.
Holds(c, b) == \E k \in 0..Len(c) : k + Len(b) <= Len(c) /\ \A i \in 1..Len(b) : c[k + i] = b[i]

IsFramed(b, x, fs, y, z, S) ==
  /\ b \in Seq(S) /\ Len(fs) \in Nat /\ Len(b) = Len(fs) + 3
  /\ b[1] = x /\ b[Len(fs) + 2] = y /\ b[Len(fs) + 3] = z
  /\ \A i \in 1..Len(fs) : b[1 + i] = fs[i]

LEMMA FramedIs ==
  ASSUME NEW S, NEW x \in S, NEW y \in S, NEW z \in S, NEW fs \in Seq(S)
  PROVE  IsFramed(Glued(Glued(<<x>>, fs), <<y, z>>), x, fs, y, z, S)
<1> DEFINE n == Len(fs)
           u == <<x>>
           v == <<y, z>>
           a == Glued(u, fs)
           b == Glued(a, v)
<1>1. /\ u \in Seq(S) /\ Len(u) = 1 /\ u[1] = x
      /\ v \in Seq(S) /\ Len(v) = 2 /\ v[1] = y /\ v[2] = z
  OBVIOUS
<1> HIDE DEF u, v
<1>2. /\ a \in Seq(S) /\ Len(a) = Len(u) + n /\ n \in Nat
      /\ \A i \in 1..Len(u) : a[i] = u[i]
      /\ \A i \in 1..n : a[Len(u) + i] = fs[i]
  <2>1. IsGlued(a, u, fs, S)
    BY <1>1, GluedIs
  <2> HIDE DEF a
  <2> QED  BY <2>1 DEF IsGlued
<1> HIDE DEF a, n
<1>3. /\ b \in Seq(S) /\ Len(b) = Len(a) + Len(v)
      /\ \A i \in 1..Len(a) : b[i] = a[i]
      /\ \A i \in 1..Len(v) : b[Len(a) + i] = v[i]
  <2>1. IsGlued(b, a, v, S)
    BY <1>1, <1>2, GluedIs
  <2> HIDE DEF b
  <2> QED  BY <2>1 DEF IsGlued
<1> HIDE DEF b
<1>4. Len(a) = n + 1 /\ Len(b) = n + 3
  BY <1>1, <1>2, <1>3
<1>5. b[1] = x
  <2>1. 1 \in 1..Len(a) /\ 1 \in 1..Len(u)
    BY <1>1, <1>2, <1>4
  <2> QED  BY <1>1, <1>2, <1>3, <2>1
<1>6. b[n + 2] = y /\ b[n + 3] = z
  <2>1. 1 \in 1..Len(v) /\ 2 \in 1..Len(v) /\ n + 2 = Len(a) + 1 /\ n + 3 = Len(a) + 2
    BY <1>1, <1>2, <1>4
  <2> QED  BY <1>1, <1>3, <2>1
<1>7. ASSUME NEW i \in 1..n
      PROVE  b[1 + i] = fs[i]
  <2>1. 1 + i \in 1..Len(a) /\ 1 + i = Len(u) + i
    BY <1>1, <1>2, <1>4
  <2>2. b[1 + i] = a[1 + i]
    BY <1>3, <2>1
  <2>3. a[Len(u) + i] = fs[i]
    BY <1>2
  <2> QED  BY <2>1, <2>2, <2>3
<1> QED  BY <1>2, <1>3, <1>4, <1>5, <1>6, <1>7 DEF IsFramed, b, a, u, v, n

IsBlockOf(b, fs, S) ==
  /\ IsBlock(b, S) /\ Len(fs) \in Nat
  /\ Len(b) = Len(fs) + 3
  /\ \A i \in 1..Len(fs) : b[1 + i] = fs[i]

NoEnd(fs) == \A i \in 1..Len(fs) : fs[i] # MARKER_END

LEMMA BlockMade ==
  ASSUME NEW S, NEW fs \in Seq(S), MARKER_START \in S, MARKER_END \in S, LineEnd \in S, NoEnd(fs)
  PROVE  IsBlockOf(build_generated_block(fs), fs, S)
<1> DEFINE n == Len(fs)
           b == build_generated_block(fs)
<1>1. /\ b \in Seq(S) /\ n \in Nat /\ Len(b) = n + 3
      /\ b[1] = MARKER_START /\ b[n + 2] = MARKER_END /\ b[n + 3] = LineEnd
      /\ \A i \in 1..n : b[1 + i] = fs[i]
  <2>1. b = Glued(Glued(<<MARKER_START>>, fs), <<MARKER_END, LineEnd>>)
    <3>1. b = <<MARKER_START>> \o fs \o <<MARKER_END, LineEnd>>
      BY DEF build_generated_block
    <3> HIDE DEF b
    <3> QED  BY <3>1 DEF Glued
  <2> HIDE DEF b
  <2> DEFINE x == MARKER_START
             y == MARKER_END
             z == LineEnd
  <2>2. x \in S /\ y \in S /\ z \in S
    OBVIOUS
  <2> HIDE DEF x, y, z
  <2>3. IsFramed(Glued(Glued(<<x>>, fs), <<y, z>>), x, fs, y, z, S)
    BY <2>2, FramedIs
  <2>4. b = Glued(Glued(<<x>>, fs), <<y, z>>)
    BY <2>1 DEF x, y, z
  <2> QED  BY <2>3, <2>4 DEF IsFramed, x, y, z
<1> HIDE DEF b
<1>2. ASSUME NEW k \in 1..Len(b) - 2
      PROVE  b[k] # MARKER_END
  <2>1. CASE k = 1
    BY <1>1, <2>1, MarkersDiffer
  <2>2. CASE k # 1
    <3>1. k - 1 \in 1..n /\ 1 + (k - 1) = k
      BY <1>1, <2>2
    <3> QED  BY <1>1, <3>1 DEF NoEnd
  <2> QED  BY <2>1, <2>2
<1>3. Len(b) - 1 = n + 2 /\ Len(b) >= 3 /\ Len(b) \in Nat
  BY <1>1
<1>4. IsBlock(b, S)
  BY <1>1, <1>2, <1>3 DEF IsBlock
<1>5. IsBlockOf(b, fs, S)
  BY <1>1, <1>4 DEF IsBlockOf
<1> QED  BY <1>5 DEF b

\* A function, as format_signature_cairo writes it, is no marker.
IsFunction(token) == \E sig, fn_name : token = format_signature_cairo(sig, fn_name)

LEMMA FunctionNoMarker ==
  ASSUME NEW token, IsFunction(token)
  PROVE  "fn" \in DOMAIN token /\ token # MARKER_START /\ token # MARKER_END /\ token # LineEnd
<1>1. DOMAIN token = {"fn", "felts"}
  BY DEF IsFunction, format_signature_cairo
<1>2. "fn" # "marker" /\ "fn" # "text"
  OBVIOUS
<1>3. /\ DOMAIN MARKER_START = {"marker"} /\ DOMAIN MARKER_END = {"marker"}
      /\ DOMAIN LineEnd = {"text"}
  BY DEF MARKER_START, MARKER_END, LineEnd
<1> QED  BY <1>1, <1>2, <1>3

LEMMA SignaturesMade ==
  ASSUME NEW p, NEW fs, fs = generate_all_signatures(p)
  PROVE  /\ Len(fs) = 13 /\ \A i \in 1..13 : IsFunction(fs[i])
         /\ fs = [i \in 1..13 |-> fs[i]]
<1>1. Len(fs) = 13 /\ fs = [i \in 1..13 |-> fs[i]]
  BY DEF generate_all_signatures
<1>2. \A i \in 1..13 : IsFunction(fs[i])
  BY DEF generate_all_signatures, IsFunction
<1> QED  BY <1>1, <1>2

-----------------------------------------------------------------------------
(* The tokens there are, and the type invariant.                           *)

BlockOf(p) == build_generated_block(generate_all_signatures(p))

TokensOf(content) == {content[i] : i \in DOMAIN content}
InitialTokens     == UNION {TokensOf(content) : content \in InitialFiles}
FunctionTokens    == UNION {TokensOf(generate_all_signatures(p)) : p \in Parameters}
OtherTokens       ==
  {[constants |-> p] : p \in Parameters}
    \cup {MARKER_START, MARKER_END, LineEnd, [text |-> "helper"]}

Token == InitialTokens \cup FunctionTokens \cup OtherTokens

LEMMA TokensAre ==
  /\ MARKER_START \in Token /\ MARKER_END \in Token /\ LineEnd \in Token
  /\ [text |-> "helper"] \in Token
  /\ \A p \in Parameters : [constants |-> p] \in Token
  /\ \A p \in Parameters : TokensOf(generate_all_signatures(p)) \subseteq Token
  /\ \A content \in InitialFiles : TokensOf(content) \subseteq Token
<1>1. /\ MARKER_START \in OtherTokens /\ MARKER_END \in OtherTokens /\ LineEnd \in OtherTokens
      /\ [text |-> "helper"] \in OtherTokens
  BY DEF OtherTokens
<1>2. \A p \in Parameters : [constants |-> p] \in OtherTokens
  BY DEF OtherTokens
<1>3. \A p \in Parameters : TokensOf(generate_all_signatures(p)) \subseteq FunctionTokens
  BY DEF FunctionTokens
<1>4. \A content \in InitialFiles : TokensOf(content) \subseteq InitialTokens
  BY DEF InitialTokens
<1> QED  BY <1>1, <1>2, <1>3, <1>4 DEF Token

LEMMA BlockType ==
  ASSUME NEW p \in Parameters
  PROVE  /\ IsBlock(BlockOf(p), Token) /\ Len(BlockOf(p)) = 16
         /\ \A i \in 1..13 : BlockOf(p)[1 + i] = generate_all_signatures(p)[i]
<1> DEFINE fs == generate_all_signatures(p)
<1>1. /\ Len(fs) = 13 /\ \A i \in 1..13 : IsFunction(fs[i])
      /\ fs = [i \in 1..13 |-> fs[i]]
  BY SignaturesMade
<1>2. \A i \in 1..13 : fs[i] \in Token
  <2>1. TokensOf(fs) \subseteq Token
    BY TokensAre
  <2> HIDE DEF fs
  <2>2. \A i \in 1..13 : fs[i] \in TokensOf(fs)
    BY <1>1 DEF TokensOf
  <2> QED  BY <2>1, <2>2
<1>3. MARKER_START \in Token /\ MARKER_END \in Token /\ LineEnd \in Token
  BY TokensAre
<1>4. BlockOf(p) = build_generated_block(fs)
  BY DEF BlockOf
<1> HIDE DEF fs
<1>5. fs \in Seq(Token)
  BY <1>1, <1>2
<1>6. NoEnd(fs)
  BY <1>1, FunctionNoMarker DEF NoEnd
<1>7. IsBlockOf(build_generated_block(fs), fs, Token)
  BY <1>3, <1>5, <1>6, BlockMade
<1> QED  BY <1>1, <1>4, <1>7 DEF IsBlockOf, fs

LEMMA InitialType ==
  ASSUME NEW content \in InitialFiles
  PROVE  content \in Seq(Token) /\ content # <<>>
<1> DEFINE T == {content[i] : i \in DOMAIN content}
<1>1. content \in Seq(T) /\ content # <<>>
  BY GeneratorAssumption
<1>2. T \subseteq Token
  BY TokensAre DEF TokensOf
<1> HIDE DEF T
<1>3. content \in Seq(Token)
  BY <1>1, <1>2
<1> QED  BY <1>1, <1>3

-----------------------------------------------------------------------------
(* After a substitution the block is in the file.                          *)

LEMMA HoldsFirst ==
  ASSUME NEW S, NEW b \in Seq(S), NEW t \in Seq(S)
  PROVE  Holds(Glued(b, t), b)
<1> DEFINE d == Glued(b, t)
<1>1. IsGlued(d, b, t, S)
  BY GluedIs
<1> HIDE DEF d
<1>2. /\ Len(b) \in Nat /\ 0 + Len(b) <= Len(d) /\ 0 \in 0..Len(d)
      /\ \A i \in 1..Len(b) : d[0 + i] = b[i]
  BY <1>1 DEF IsGlued
<1>3. Holds(d, b)
  BY <1>2 DEF Holds
<1> QED  BY <1>3 DEF d

LEMMA HoldsLater ==
  ASSUME NEW S, NEW s \in Seq(S), NEW t \in Seq(S), NEW b \in Seq(S), Holds(t, b)
  PROVE  Holds(Glued(s, t), b)
<1> DEFINE d == Glued(s, t)
           m == Len(s)
           n == Len(b)
<1>1. IsGlued(d, s, t, S)
  BY GluedIs
<1> HIDE DEF d
<1>2. PICK k \in 0..Len(t) : k + n <= Len(t) /\ \A i \in 1..n : t[k + i] = b[i]
  BY DEF Holds
<1>3. n \in Nat
  BY LenProperties
<1>4. /\ m \in Nat /\ Len(t) \in Nat /\ Len(d) = m + Len(t)
      /\ \A i \in 1..Len(t) : d[m + i] = t[i]
  BY <1>1 DEF IsGlued
<1> HIDE DEF m, n
<1>5. m + k \in 0..Len(d) /\ m + k + n <= Len(d)
  BY <1>2, <1>3, <1>4
<1>6. ASSUME NEW i \in 1..n
      PROVE  d[m + k + i] = b[i]
  <2>1. k + i \in 1..Len(t) /\ m + k + i = m + (k + i)
    BY <1>2, <1>3, <1>4
  <2> QED  BY <1>2, <1>4, <2>1
<1>7. Holds(d, b)
  BY <1>5, <1>6 DEF Holds, n
<1> QED  BY <1>7 DEF d

LEMMA SubHolds ==
  ASSUME NEW S, NEW b, IsBlock(b, S), NEW c \in Seq(S), Found(c)
  PROVE  Holds(Substituted(c, b), b)
<1> DEFINE Good == {n \in Nat : \A d \in Seq(S) :
                      Len(d) <= n /\ Found(d) => Holds(Substituted(d, b), b)}
<1>1. \A d \in Seq(S) : Len(d) \in Nat /\ (d = <<>> <=> Len(d) = 0)
  BY EmptySeq, LenProperties
<1>2. ASSUME NEW d \in Seq(S), Found(d)
      PROVE  Len(d) > 0 /\ d # <<>>
  <2>1. PICK i \in DOMAIN d : TRUE
    BY <1>2 DEF Found
  <2>2. i \in 1..Len(d)
    BY LenProperties
  <2> QED  BY <1>1, <2>2
<1>3. 0 \in Good
  BY <1>2
<1>4. ASSUME NEW n \in Nat, n \in Good
      PROVE  n + 1 \in Good
  <2> SUFFICES ASSUME NEW d \in Seq(S), Len(d) <= n + 1, Found(d)
               PROVE  Holds(Substituted(d, b), b)
    OBVIOUS
  <2>1. d # <<>> /\ b \in Seq(S)
    BY <1>2 DEF IsBlock
  <2>2. /\ Len(d) \in Nat \ {0}
        /\ IsSection(d, 1) => SectionEnd(d, 1) \in 1..Len(d)
        /\ IsSection(d, 1) =>
             Substituted(d, b) = Glued(b, Substituted(Drop(d, SectionEnd(d, 1)), b))
        /\ ~IsSection(d, 1) => Substituted(d, b) = Glued(<<d[1]>>, Substituted(Drop(d, 1), b))
    BY <2>1, SubStep
  <2>3. CASE IsSection(d, 1)
    <3> DEFINE k == SectionEnd(d, 1)
               t == Substituted(Drop(d, k), b)
    <3>1. k \in 0..Len(d)
      BY <2>2, <2>3
    <3> HIDE DEF k
    <3>2. t \in Seq(S)
      BY <2>1, <3>1, Dropped, SubType
    <3> HIDE DEF t
    <3>3. Holds(Glued(b, t), b)
      BY <2>1, <3>2, HoldsFirst
    <3> QED  BY <2>2, <2>3, <3>3 DEF t, k
  <2>4. CASE ~IsSection(d, 1)
    <3> DEFINE e == Drop(d, 1)
               s == <<d[1]>>
               t == Substituted(e, b)
    <3>1. 1 \in 0..Len(d) /\ 1 \in 1..Len(d)
      BY <2>2
    <3>2. e \in Seq(S) /\ Len(e) = Len(d) - 1
      BY <3>1, Dropped
    <3>3. Found(e)
      BY <2>1, <2>4, FoundFirst
    <3>4. s \in Seq(S)
      BY <3>1, ElementOfSeq
    <3> HIDE DEF e, s
    <3>5. Len(e) <= n
      BY <2>2, <3>2
    <3>6. Holds(t, b) /\ t \in Seq(S)
      BY <1>4, <2>1, <3>2, <3>3, <3>5, SubType
    <3> HIDE DEF t
    <3>7. Holds(Glued(s, t), b)
      BY <2>1, <3>4, <3>6, HoldsLater
    <3> QED  BY <2>2, <2>4, <3>7 DEF t, e, s
  <2> QED  BY <2>3, <2>4
<1>5. \A n \in Nat : n \in Good
  <2> HIDE DEF Good
  <2> QED  BY <1>3, <1>4, SetNatInduction
<1>6. Len(c) \in Good
  BY <1>1, <1>5
<1> QED  BY <1>1, <1>6

-----------------------------------------------------------------------------
(* The inductive invariant.                                                *)

GeneratedRun == [phase : {"generated"}, p : Parameters, quiet : BOOLEAN, block : Seq(Token)]
DoneRun      == [phase : {"refused", "unchanged", "updated"}, p : Parameters, quiet : BOOLEAN]
WritingRun   ==
  [phase : {"read", "opened"}, p : Parameters, quiet : BOOLEAN,
   content : Seq(Token), new : Seq(Token)]
KilledRun    == [phase : {"killed"}, quiet : BOOLEAN, cut : BOOLEAN]

RunType == {Idle} \cup GeneratedRun \cup DoneRun \cup WritingRun \cup KilledRun

TypeOK ==
  /\ script \in Parameters
  /\ file \in Seq(Token)
  /\ run \in [Runs -> RunType]
  /\ edits \in Nat

\* What a run has in its memory.
Prepared(state) ==
  /\ state.phase = "generated" => state.block = BlockOf(state.p)
  /\ state.phase \in {"read", "opened"} =>
       /\ Found(state.content)
       /\ state.new = Substituted(state.content, BlockOf(state.p))

\* What a run that nothing has disturbed finds in the file.
InPlace(state, content) ==
  state.phase # "idle" /\ state.quiet =>
    /\ state.phase = "opened" => content = <<>>
    /\ state.phase \in {"unchanged", "updated"} => Holds(content, BlockOf(state.p))

RunsInOrder == \A r \in Runs : Prepared(run[r]) /\ InPlace(run[r], file)

IInv == TypeOK /\ RunsInOrder /\ EmptyOnlyIfCut

\* While nobody has edited anything, whatever the runs did to content.
FromOne(content, state) ==
  /\ state.phase \in {"generated", "read", "opened"} => state.p = Committed
  /\ state.phase \in {"read", "opened"} =>
       state.new = Substituted(content, BlockOf(Committed))
  /\ state.phase = "opened" => file \in {<<>>, Substituted(content, BlockOf(Committed))}

Overlapping(content) ==
  edits = 0 =>
    /\ script = Committed
    /\ file \in {content, <<>>, Substituted(content, BlockOf(Committed))}
    /\ \A r \in Runs : FromOne(content, run[r])

OInv == \E content \in InitialFiles : Overlapping(content)

-----------------------------------------------------------------------------
\* state differs from old at most in its being quiet no more.
Quieted(state, old) ==
  /\ state \in RunType /\ state.phase = old.phase
  /\ old.phase # "idle" => state.quiet = FALSE
  /\ old.phase = "generated" => state.block = old.block
  /\ old.phase \in {"generated", "refused", "unchanged", "updated", "read", "opened"} =>
       state.p = old.p
  /\ old.phase \in {"read", "opened"} => state.content = old.content /\ state.new = old.new
  /\ old.phase = "killed" => state.cut = old.cut

LEMMA StaleIs ==
  ASSUME NEW old \in RunType
  PROVE  Quieted(Stale(old), old)
<1>1. CASE old = Idle
  BY <1>1 DEF Stale, Quieted, Idle, RunType
<1>2. CASE old \in GeneratedRun
  <2>1. old.phase = "generated" /\ old # Idle
    BY <1>2 DEF GeneratedRun, Idle
  <2>2. Stale(old) = [old EXCEPT !.quiet = FALSE]
    BY <2>1 DEF Stale
  <2>3. /\ Stale(old) \in GeneratedRun /\ Stale(old).quiet = FALSE
        /\ Stale(old).block = old.block /\ Stale(old).p = old.p
    BY <1>2, <2>2 DEF GeneratedRun
  <2>4. Stale(old).phase = "generated"
    BY <2>3 DEF GeneratedRun
  <2> QED  BY <2>1, <2>3, <2>4 DEF Quieted, RunType
<1>3. CASE old \in DoneRun
  <2>1. old.phase \in {"refused", "unchanged", "updated"} /\ old # Idle
    BY <1>3 DEF DoneRun, Idle
  <2>2. Stale(old) = [old EXCEPT !.quiet = FALSE]
    BY <2>1 DEF Stale
  <2>3. /\ Stale(old) \in DoneRun /\ Stale(old).quiet = FALSE
        /\ Stale(old).phase = old.phase /\ Stale(old).p = old.p
    BY <1>3, <2>2 DEF DoneRun
  <2> QED  BY <2>1, <2>3 DEF Quieted, RunType
<1>4. CASE old \in WritingRun
  <2>1. old.phase \in {"read", "opened"} /\ old # Idle
    BY <1>4 DEF WritingRun, Idle
  <2>2. Stale(old) = [old EXCEPT !.quiet = FALSE]
    BY <2>1 DEF Stale
  <2>3. /\ Stale(old) \in WritingRun /\ Stale(old).quiet = FALSE /\ Stale(old).phase = old.phase
        /\ Stale(old).p = old.p /\ Stale(old).content = old.content /\ Stale(old).new = old.new
    BY <1>4, <2>2 DEF WritingRun
  <2> QED  BY <2>1, <2>3 DEF Quieted, RunType
<1>5. CASE old \in KilledRun
  <2>1. old.phase = "killed" /\ old # Idle
    BY <1>5 DEF KilledRun, Idle
  <2>2. Stale(old) = [old EXCEPT !.quiet = FALSE]
    BY <2>1 DEF Stale
  <2>3. Stale(old) \in KilledRun /\ Stale(old).quiet = FALSE /\ Stale(old).cut = old.cut
    BY <1>5, <2>2 DEF KilledRun
  <2>4. Stale(old).phase = "killed"
    BY <2>3 DEF KilledRun
  <2> QED  BY <2>1, <2>3, <2>4 DEF Quieted, RunType
<1> QED  BY <1>1, <1>2, <1>3, <1>4, <1>5 DEF RunType

LEMMA QuietedPrepared ==
  ASSUME NEW state, NEW old, Quieted(state, old), Prepared(old), NEW content
  PROVE  Prepared(state) /\ InPlace(state, content)
<1>1. Prepared(state)
  BY DEF Quieted, Prepared
<1>2. state.phase = "idle" \/ ~state.quiet
  BY DEF Quieted
<1> QED  BY <1>1, <1>2 DEF InPlace

\* The three ways the runs change.
LEMMA GoesIs ==
  ASSUME TypeOK, NEW r \in Runs, NEW state \in RunType, Goes(r, state)
  PROVE  /\ run' \in [Runs -> RunType] /\ run'[r] = state
         /\ \A q \in Runs : q # r => run'[q] = run[q]
BY DEF TypeOK, Goes

LEMMA GoesAloneIs ==
  ASSUME TypeOK, NEW r \in Runs, NEW state \in RunType, GoesAlone(r, state)
  PROVE  /\ run' \in [Runs -> RunType] /\ run'[r] = state
         /\ \A q \in Runs : q # r => Quieted(run'[q], run[q])
<1>1. \A q \in Runs : run[q] \in RunType
  BY DEF TypeOK
<1>2. \A q \in Runs : Quieted(Stale(run[q]), run[q])
  BY <1>1, StaleIs
<1>3. \A q \in Runs : Stale(run[q]) \in RunType
  BY <1>2 DEF Quieted
<1>4. run' = [q \in Runs |-> IF q = r THEN state ELSE Stale(run[q])]
  BY DEF GoesAlone
<1> QED  BY <1>2, <1>3, <1>4

LEMMA EditsIs ==
  ASSUME TypeOK, Edits
  PROVE  /\ run' \in [Runs -> RunType] /\ edits' \in Nat /\ edits' # 0
         /\ \A q \in Runs : Quieted(run'[q], run[q])
<1>1. \A q \in Runs : run[q] \in RunType
  BY DEF TypeOK
<1>2. \A q \in Runs : Quieted(Stale(run[q]), run[q])
  BY <1>1, StaleIs
<1>3. \A q \in Runs : Stale(run[q]) \in RunType
  BY <1>2 DEF Quieted
<1>4. run' = [q \in Runs |-> Stale(run[q])]
  BY DEF Edits
<1>5. edits' \in Nat /\ edits' # 0
  BY DEF Edits, TypeOK
<1> QED  BY <1>2, <1>3, <1>4, <1>5

LEMMA FileType ==
  ASSUME NEW f \in Seq(Token), NEW new \in Seq(Token)
  PROVE  Overwritten(f, new) \in Seq(Token) /\ (f = <<>> => Overwritten(f, new) = new)
<1> DEFINE rest == SubSeq(f, Len(new) + 1, Len(f))
<1>1. Len(new) \in Nat /\ Len(f) \in Nat
  BY LenProperties
<1>2. rest \in Seq(Token)
  <2>1. \A i \in Len(new) + 1..Len(f) : i \in 1..Len(f)
    BY <1>1
  <2>2. \A i \in Len(new) + 1..Len(f) : f[i] \in Token
    BY <2>1, ElementOfSeq
  <2> QED  BY <1>1, <2>2, SubSeqProperties
<1>3. f = <<>> => rest = <<>>
  <2> SUFFICES ASSUME f = <<>> PROVE rest = <<>>
    OBVIOUS
  <2>1. Len(f) = 0
    BY EmptySeq
  <2>2. Len(new) + 1 > Len(f)
    BY <1>1, <2>1
  <2> QED  BY <1>1, <2>2, SubSeqEmpty
<1>4. Overwritten(f, new) = Glued(new, rest)
  BY DEF Overwritten, Glued
<1> HIDE DEF rest
<1>5. Glued(new, rest) \in Seq(Token) /\ Glued(new, <<>>) = new
  BY <1>2, GluedType, GluedEmpty
<1> QED  BY <1>3, <1>4, <1>5

\* What happens to the runs keeps what has been cut short.
LEMMA CutKept ==
  ASSUME LeftCut,
         \A r \in Runs : run[r].phase = "opened" =>
           run'[r].phase = "opened" \/ (run'[r].phase = "killed" /\ run'[r].cut),
         \A r \in Runs : run[r].phase = "killed" /\ run[r].cut =>
           run'[r].phase = "killed" /\ run'[r].cut
  PROVE  LeftCut'
BY DEF LeftCut

LEMMA GeneratesKeeps ==
  ASSUME IInv, NEW r \in Runs, Generates(r)
  PROVE  IInv' /\ \A content : Overlapping(content) => Overlapping(content)'
<1> DEFINE st == [phase |-> "generated", p |-> script, quiet |-> TRUE, block |-> BlockOf(script)]
<1>1. st \in RunType
  <2>1. script \in Parameters
    BY DEF IInv, TypeOK
  <2>2. BlockOf(script) \in Seq(Token)
    BY <2>1, BlockType DEF IsBlock
  <2> QED  BY <2>1, <2>2 DEF RunType, GeneratedRun
<1>2. /\ st.phase = "generated" /\ st.p = script /\ st.block = BlockOf(st.p)
  OBVIOUS
<1>3. Goes(r, st)
  BY DEF Generates, BlockOf
<1> HIDE DEF st
<1>4. /\ run' \in [Runs -> RunType] /\ run'[r] = st
      /\ \A q \in Runs : q # r => run'[q] = run[q]
  BY <1>1, <1>3, GoesIs DEF IInv
<1>5. UNCHANGED <<script, file, compiled, edits>>
  BY DEF Generates
<1>6. TypeOK'
  BY <1>4, <1>5 DEF TypeOK, IInv
<1>7. RunsInOrder'
  <2>1. Prepared(st) /\ InPlace(st, file)
    BY <1>2 DEF Prepared, InPlace
  <2>2. \A q \in Runs : Prepared(run'[q]) /\ InPlace(run'[q], file)
    BY <1>4, <2>1 DEF IInv, RunsInOrder
  <2> QED  BY <1>5, <2>2 DEF RunsInOrder
<1>8. EmptyOnlyIfCut'
  <2> SUFFICES ASSUME LeftCut PROVE LeftCut'
    BY <1>5 DEF IInv, EmptyOnlyIfCut
  <2>1. run[r].phase # "opened" /\ run[r].phase # "killed"
    BY DEF Generates
  <2> QED  BY <1>4, <2>1, CutKept
<1>9. ASSUME NEW content, Overlapping(content)
      PROVE  Overlapping(content)'
  <2> SUFFICES ASSUME edits = 0
               PROVE  \A q \in Runs : FromOne(content, run[q])'
    BY <1>5, <1>9 DEF Overlapping
  <2>1. script = Committed /\ \A q \in Runs : FromOne(content, run[q])
    BY <1>9 DEF Overlapping
  <2>2. FromOne(content, st)
    BY <1>2, <2>1 DEF FromOne
  <2>3. \A q \in Runs : FromOne(content, run'[q])
    BY <1>4, <2>1, <2>2
  <2> QED  BY <1>5, <2>3 DEF FromOne
<1> QED  BY <1>6, <1>7, <1>8, <1>9 DEF IInv

LEMMA ReadsKeeps ==
  ASSUME IInv, NEW r \in Runs, Reads(r)
  PROVE  IInv' /\ \A content \in InitialFiles : Overlapping(content) => Overlapping(content)'
<1> DEFINE p == run[r].p
           quiet == run[r].quiet
           new == Substituted(file, BlockOf(p))
           Refused == [phase |-> "refused", p |-> p, quiet |-> quiet]
           Unchanged == [phase |-> "unchanged", p |-> p, quiet |-> quiet]
           Read == [phase |-> "read", p |-> p, quiet |-> quiet, content |-> file, new |-> new]
<1>1. run[r].phase = "generated" /\ run[r] \in RunType /\ Prepared(run[r])
  BY DEF Reads, IInv, TypeOK, RunsInOrder
<1>2. run[r] \in GeneratedRun
  BY <1>1 DEF RunType, Idle, DoneRun, WritingRun, KilledRun
<1>3. p \in Parameters /\ quiet \in BOOLEAN /\ run[r].block = BlockOf(p)
  BY <1>1, <1>2 DEF GeneratedRun, Prepared
<1>4. file \in Seq(Token) /\ IsBlock(BlockOf(p), Token)
  BY <1>3, BlockType DEF IInv, TypeOK
<1>5. new \in Seq(Token) /\ (Found(file) => Holds(new, BlockOf(p)))
  BY <1>4, SubType, SubHolds DEF IsBlock
<1>6. /\ UNCHANGED <<script, file, compiled, edits>>
      /\ \/ ~Found(file) /\ Goes(r, Refused)
         \/ Found(file) /\ new = file /\ Goes(r, Unchanged)
         \/ Found(file) /\ Goes(r, Read)
  BY <1>3 DEF Reads
<1> HIDE DEF p, quiet, new
<1>7. PICK st \in RunType :
        /\ Goes(r, st) /\ Prepared(st) /\ InPlace(st, file)
        /\ st.phase \in {"refused", "unchanged", "read"}
        /\ st.phase = "read" => st.p = p /\ st.new = new /\ Found(file)
  <2>1. CASE ~Found(file) /\ Goes(r, Refused)
    <3>1. Refused \in RunType
      BY <1>3 DEF RunType, DoneRun
    <3>2. Prepared(Refused) /\ InPlace(Refused, file)
      BY DEF Prepared, InPlace
    <3> QED  BY <2>1, <3>1, <3>2
  <2>2. CASE Found(file) /\ new = file /\ Goes(r, Unchanged)
    <3>1. Unchanged \in RunType
      BY <1>3 DEF RunType, DoneRun
    <3>2. Prepared(Unchanged)
      BY DEF Prepared
    <3>3. Holds(file, BlockOf(p))
      BY <1>5, <2>2
    <3>4. InPlace(Unchanged, file)
      BY <3>3 DEF InPlace
    <3> QED  BY <2>2, <3>1, <3>2, <3>4
  <2>3. CASE Found(file) /\ Goes(r, Read)
    <3>1. Read \in RunType
      BY <1>3, <1>4, <1>5 DEF RunType, WritingRun
    <3>2. Prepared(Read) /\ InPlace(Read, file)
      BY <2>3 DEF Prepared, InPlace, new
    <3> QED  BY <2>3, <3>1, <3>2
  <2> QED  BY <1>6, <2>1, <2>2, <2>3
<1>8. /\ run' \in [Runs -> RunType] /\ run'[r] = st
      /\ \A q \in Runs : q # r => run'[q] = run[q]
  BY <1>7, GoesIs DEF IInv
<1>9. TypeOK'
  BY <1>6, <1>8 DEF TypeOK, IInv
<1>10. RunsInOrder'
  <2>1. \A q \in Runs : Prepared(run'[q]) /\ InPlace(run'[q], file)
    BY <1>7, <1>8 DEF IInv, RunsInOrder
  <2> QED  BY <1>6, <2>1 DEF RunsInOrder
<1>11. EmptyOnlyIfCut'
  <2> SUFFICES ASSUME LeftCut PROVE LeftCut'
    BY <1>6 DEF IInv, EmptyOnlyIfCut
  <2> QED  BY <1>1, <1>8, CutKept
<1>12. ASSUME NEW content \in InitialFiles, Overlapping(content)
       PROVE  Overlapping(content)'
  <2> DEFINE S == Substituted(content, BlockOf(Committed))
  <2> SUFFICES ASSUME edits = 0
               PROVE  \A q \in Runs : FromOne(content, run[q])'
    BY <1>6, <1>12 DEF Overlapping
  <2>1. file \in {content, <<>>, S} /\ \A q \in Runs : FromOne(content, run[q])
    BY <1>12 DEF Overlapping
  <2>2. p = Committed
    BY <1>1, <2>1 DEF FromOne, p
  <2>3. st.phase = "read" => new = S
    <3> SUFFICES ASSUME Found(file) PROVE new = S
      BY <1>7
    <3>1. file # <<>>
      BY DEF Found
    <3>2. file = content => new = S
      BY <2>2 DEF new
    <3>3. content \in Seq(Token)
      BY InitialType
    <3>4. Substituted(S, BlockOf(Committed)) = S
      BY <1>4, <2>2, <3>3, SubSettled DEF Settled
    <3>5. file = S => new = S
      BY <2>2, <3>4 DEF new
    <3> QED  BY <2>1, <3>1, <3>2, <3>5
  <2>4. FromOne(content, st)
    BY <1>7, <2>2, <2>3 DEF FromOne
  <2>5. \A q \in Runs : FromOne(content, run'[q])
    BY <1>8, <2>1, <2>4
  <2> QED  BY <1>6, <2>5 DEF FromOne
<1> QED  BY <1>9, <1>10, <1>11, <1>12 DEF IInv

\* What a writing run remembers.
LEMMA WritingIs ==
  ASSUME IInv, NEW r \in Runs, run[r].phase \in {"read", "opened"}
  PROVE  /\ run[r] \in WritingRun /\ Prepared(run[r])
         /\ run[r].p \in Parameters /\ run[r].quiet \in BOOLEAN
         /\ run[r].content \in Seq(Token) /\ run[r].new \in Seq(Token)
         /\ Holds(run[r].new, BlockOf(run[r].p)) /\ run[r].new # <<>>
<1>1. run[r] \in RunType /\ Prepared(run[r])
  BY DEF IInv, TypeOK, RunsInOrder
<1>2. run[r] \in WritingRun
  BY <1>1 DEF RunType, Idle, DoneRun, GeneratedRun, KilledRun
<1> DEFINE p == run[r].p
           c == run[r].content
           new == run[r].new
<1>3. p \in Parameters /\ run[r].quiet \in BOOLEAN /\ c \in Seq(Token) /\ new \in Seq(Token)
  BY <1>2 DEF WritingRun
<1>4. Found(c) /\ new = Substituted(c, BlockOf(p))
  BY <1>1 DEF Prepared
<1> HIDE DEF p, c, new
<1>5. IsBlock(BlockOf(p), Token)
  BY <1>3, BlockType
<1>6. Holds(new, BlockOf(p))
  BY <1>3, <1>4, <1>5, SubHolds
<1>7. new # <<>>
  <2>1. Len(BlockOf(p)) >= 3 /\ Len(BlockOf(p)) \in Nat
    BY <1>5 DEF IsBlock
  <2>2. new = <<>> => Len(new) = 0
    BY <1>3, EmptySeq
  <2>3. Len(new) \in Nat
    BY <1>3, LenProperties
  <2> QED  BY <1>6, <2>1, <2>2, <2>3 DEF Holds
<1> QED  BY <1>1, <1>2, <1>3, <1>6, <1>7 DEF p, c, new

LEMMA TruncatesKeeps ==
  ASSUME IInv, NEW r \in Runs, Truncates(r)
  PROVE  IInv' /\ \A content \in InitialFiles : Overlapping(content) => Overlapping(content)'
<1> DEFINE old == run[r]
           st == [old EXCEPT !.phase = "opened"]
<1>1. old.phase = "read" /\ old \in WritingRun /\ Prepared(old)
  BY WritingIs DEF Truncates
<1>2. /\ UNCHANGED <<script, compiled, edits>> /\ file' = <<>>
      /\ GoesAlone(r, st)
  BY DEF Truncates
<1>3. /\ st \in WritingRun /\ st.phase = "opened" /\ st.p = old.p
      /\ st.content = old.content /\ st.new = old.new
  BY <1>1 DEF WritingRun
<1> HIDE DEF old, st
<1>4. st \in RunType
  BY <1>3 DEF RunType
<1>5. /\ run' \in [Runs -> RunType] /\ run'[r] = st
      /\ \A q \in Runs : q # r => Quieted(run'[q], run[q])
  BY <1>2, <1>4, GoesAloneIs DEF IInv
<1>6. TypeOK'
  BY <1>2, <1>5, EmptySeq DEF TypeOK, IInv
<1>7. RunsInOrder'
  <2>1. Prepared(st) /\ InPlace(st, <<>>)
    BY <1>1, <1>3 DEF Prepared, InPlace
  <2>2. ASSUME NEW q \in Runs
        PROVE  Prepared(run'[q]) /\ InPlace(run'[q], <<>>)
    <3>1. Prepared(run[q])
      BY DEF IInv, RunsInOrder
    <3> QED  BY <1>5, <2>1, <3>1, QuietedPrepared
  <2> QED  BY <1>2, <2>2 DEF RunsInOrder
<1>8. EmptyOnlyIfCut'
  BY <1>3, <1>5 DEF EmptyOnlyIfCut, LeftCut
<1>9. ASSUME NEW content \in InitialFiles, Overlapping(content)
      PROVE  Overlapping(content)'
  <2> SUFFICES ASSUME edits = 0
               PROVE  \A q \in Runs : FromOne(content, run[q])'
    BY <1>2, <1>9 DEF Overlapping
  <2>1. \A q \in Runs : FromOne(content, run[q])
    BY <1>9 DEF Overlapping
  <2>2. ASSUME NEW q \in Runs
        PROVE  FromOne(content, run[q])'
    <3>1. CASE q = r
      BY <1>1, <1>2, <1>3, <1>5, <2>1, <3>1 DEF FromOne, old
    <3>2. CASE q # r
      BY <1>2, <1>5, <2>1, <3>2 DEF FromOne, Quieted
    <3> QED  BY <3>1, <3>2
  <2> QED  BY <2>2
<1> QED  BY <1>6, <1>7, <1>8, <1>9 DEF IInv

LEMMA WritesKeeps ==
  ASSUME IInv, NEW r \in Runs, Writes(r)
  PROVE  IInv' /\ \A content \in InitialFiles : Overlapping(content) => Overlapping(content)'
<1> DEFINE p == run[r].p
           new == run[r].new
           st == [phase |-> "updated", p |-> p, quiet |-> run[r].quiet]
<1>1. /\ run[r].phase = "opened" /\ p \in Parameters /\ run[r].quiet \in BOOLEAN
      /\ new \in Seq(Token) /\ Holds(new, BlockOf(p)) /\ new # <<>>
  BY WritingIs DEF Writes
<1>2. /\ UNCHANGED <<script, compiled, edits>> /\ file' = Overwritten(file, new)
      /\ GoesAlone(r, st)
  BY DEF Writes
<1>3. st \in RunType /\ st.phase = "updated" /\ st.p = p /\ st.quiet = run[r].quiet
  BY <1>1 DEF RunType, DoneRun
<1> HIDE DEF st
<1>4. /\ run' \in [Runs -> RunType] /\ run'[r] = st
      /\ \A q \in Runs : q # r => Quieted(run'[q], run[q])
  BY <1>2, <1>3, GoesAloneIs DEF IInv
<1>5. file \in Seq(Token) /\ file' \in Seq(Token) /\ (file = <<>> => file' = new)
  BY <1>1, <1>2, FileType DEF IInv, TypeOK
<1>6. TypeOK'
  BY <1>2, <1>4, <1>5 DEF TypeOK, IInv
<1>7. run[r].quiet => file = <<>>
  BY <1>1 DEF IInv, RunsInOrder, InPlace
<1>8. RunsInOrder'
  <2>1. Prepared(st)
    BY <1>3 DEF Prepared
  <2>2. InPlace(st, file')
    BY <1>1, <1>3, <1>5, <1>7 DEF InPlace
  <2>3. ASSUME NEW q \in Runs
        PROVE  Prepared(run'[q]) /\ InPlace(run'[q], file')
    <3>1. Prepared(run[q])
      BY DEF IInv, RunsInOrder
    <3> QED  BY <1>4, <2>1, <2>2, <3>1, QuietedPrepared
  <2> QED  BY <2>3 DEF RunsInOrder
<1>9. file' # <<>>
  <2> DEFINE rest == SubSeq(file, Len(new) + 1, Len(file))
  <2>1. file' = new \o rest /\ Len(rest) \in Nat /\ rest \in Seq(Token)
    <3>1. Len(new) \in Nat /\ Len(file) \in Nat
      BY <1>1, <1>5, LenProperties
    <3>2. \A i \in Len(new) + 1..Len(file) : i \in 1..Len(file)
      BY <3>1
    <3>3. \A i \in Len(new) + 1..Len(file) : file[i] \in Token
      BY <1>5, <3>2, ElementOfSeq
    <3>4. rest \in Seq(Token)
      BY <3>1, <3>3, SubSeqProperties
    <3> QED  BY <1>2, <3>4, LenProperties DEF Overwritten
  <2> HIDE DEF rest
  <2>2. IsGlued(file', new, rest, Token)
    BY <1>1, <2>1, GluedIs DEF Glued
  <2>3. Len(file') = Len(new) + Len(rest) /\ Len(new) \in Nat \ {0}
    BY <1>1, <2>2, EmptySeq DEF IsGlued
  <2>4. Len(file') # 0
    BY <2>1, <2>3
  <2> QED  BY <1>5, <2>4, EmptySeq
<1>10. EmptyOnlyIfCut'
  BY <1>9 DEF EmptyOnlyIfCut
<1>11. ASSUME NEW content \in InitialFiles, Overlapping(content)
       PROVE  Overlapping(content)'
  <2> DEFINE S == Substituted(content, BlockOf(Committed))
  <2> SUFFICES ASSUME edits = 0
               PROVE  file' = S /\ \A q \in Runs : FromOne(content, run[q])'
    BY <1>2, <1>11 DEF Overlapping
  <2>1. \A q \in Runs : FromOne(content, run[q])
    BY <1>11 DEF Overlapping
  <2>2. new = S /\ file \in {<<>>, S}
    BY <1>1, <2>1 DEF FromOne
  <2>3. file' = S
    <3>1. Overwritten(new, new) = new
      <4>1. Len(new) \in Nat
        BY <1>1, LenProperties
      <4>2. SubSeq(new, Len(new) + 1, Len(new)) = <<>>
        BY <1>1, <4>1, SubSeqEmpty
      <4>3. Overwritten(new, new) = Glued(new, <<>>)
        BY <4>2 DEF Overwritten, Glued
      <4> QED  BY <1>1, <4>3, GluedEmpty
    <3> QED  BY <1>2, <1>5, <2>2, <3>1
  <2>4. ASSUME NEW q \in Runs
        PROVE  FromOne(content, run[q])'
    <3>1. CASE q = r
      BY <1>3, <1>4, <3>1 DEF FromOne
    <3>2. CASE q # r
      BY <1>4, <2>1, <2>3, <3>2 DEF FromOne, Quieted
    <3> QED  BY <3>1, <3>2
  <2> QED  BY <2>3, <2>4
<1> QED  BY <1>6, <1>8, <1>10, <1>11 DEF IInv

LEMMA KilledKeeps ==
  ASSUME IInv, NEW r \in Runs, Killed(r)
  PROVE  IInv' /\ \A content \in InitialFiles : Overlapping(content) => Overlapping(content)'
<1> DEFINE old == run[r]
           st == [phase |-> "killed", quiet |-> old.quiet, cut |-> old.phase = "opened"]
<1>1. old.phase \in {"generated", "read", "opened"} /\ old \in RunType
  BY DEF Killed, IInv, TypeOK
<1>2. old.quiet \in BOOLEAN
  BY <1>1 DEF RunType, Idle, DoneRun, GeneratedRun, KilledRun, WritingRun
<1>3. UNCHANGED <<script, file, compiled, edits>> /\ Goes(r, st)
  BY DEF Killed
<1>4. /\ st \in RunType /\ st.phase = "killed"
      /\ old.phase = "opened" => st.cut
  <2>1. (old.phase = "opened") \in BOOLEAN
    OBVIOUS
  <2> QED  BY <1>2, <2>1 DEF RunType, KilledRun
<1> HIDE DEF st
<1>5. /\ run' \in [Runs -> RunType] /\ run'[r] = st
      /\ \A q \in Runs : q # r => run'[q] = run[q]
  BY <1>3, <1>4, GoesIs DEF IInv
<1>6. TypeOK'
  BY <1>3, <1>5 DEF TypeOK, IInv
<1>7. RunsInOrder'
  <2>1. Prepared(st) /\ InPlace(st, file)
    BY <1>4 DEF Prepared, InPlace
  <2>2. \A q \in Runs : Prepared(run'[q]) /\ InPlace(run'[q], file)
    BY <1>5, <2>1 DEF IInv, RunsInOrder
  <2> QED  BY <1>3, <2>2 DEF RunsInOrder
<1>8. EmptyOnlyIfCut'
  <2> SUFFICES ASSUME LeftCut PROVE LeftCut'
    BY <1>3 DEF IInv, EmptyOnlyIfCut
  <2> QED  BY <1>1, <1>4, <1>5, CutKept
<1>9. ASSUME NEW content \in InitialFiles, Overlapping(content)
      PROVE  Overlapping(content)'
  <2> SUFFICES ASSUME edits = 0
               PROVE  \A q \in Runs : FromOne(content, run[q])'
    BY <1>3, <1>9 DEF Overlapping
  <2>1. \A q \in Runs : FromOne(content, run[q])
    BY <1>9 DEF Overlapping
  <2>2. \A q \in Runs : FromOne(content, run'[q])
    BY <1>4, <1>5, <2>1 DEF FromOne
  <2> QED  BY <1>3, <2>2 DEF FromOne
<1> QED  BY <1>6, <1>7, <1>8, <1>9 DEF IInv

\* Any edit leaves a file of tokens, and an empty one only if it was empty.
LEMMA EditKeeps ==
  ASSUME IInv, Edits, script' \in Parameters, file' \in Seq(Token), file' = <<>> => file = <<>>
  PROVE  IInv' /\ \A content : Overlapping(content)'
<1>1. /\ run' \in [Runs -> RunType] /\ edits' \in Nat /\ edits' # 0
      /\ \A q \in Runs : Quieted(run'[q], run[q])
  BY EditsIs DEF IInv
<1>2. TypeOK'
  BY <1>1 DEF TypeOK, IInv
<1>3. RunsInOrder'
  <2>1. \A q \in Runs : Prepared(run[q])
    BY DEF IInv, RunsInOrder
  <2>2. \A q \in Runs : Prepared(run'[q]) /\ InPlace(run'[q], file')
    BY <1>1, <2>1, QuietedPrepared
  <2> QED  BY <2>2 DEF RunsInOrder
<1>4. EmptyOnlyIfCut'
  <2> SUFFICES ASSUME LeftCut PROVE LeftCut'
    BY DEF IInv, EmptyOnlyIfCut
  <2> QED  BY <1>1, CutKept DEF Quieted
<1> QED  BY <1>1, <1>2, <1>3, <1>4 DEF IInv, Overlapping

LEMMA EditsKeep ==
  ASSUME IInv,
         \/ \E p \in Parameters : EditsScript(p)
         \/ \E p \in Parameters : EditsConstants(p)
         \/ AddsText("helper")
         \/ \E content \in InitialFiles : Restores(content)
         \/ \E class_hash \in ClassHashes : Recompiles(class_hash)
  PROVE  IInv' /\ \A content : Overlapping(content)'
<1>1. script \in Parameters /\ file \in Seq(Token)
  BY DEF IInv, TypeOK
<1>2. CASE \E p \in Parameters : EditsScript(p)
  BY <1>1, <1>2, EditKeeps DEF EditsScript
<1>3. ASSUME NEW p \in Parameters, EditsConstants(p)
      PROVE  IInv' /\ \A content : Overlapping(content)'
  <2>1. /\ Edits /\ script' = script
        /\ file' = [i \in DOMAIN file |-> IF "constants" \in DOMAIN file[i] THEN [constants |-> p]
                                          ELSE file[i]]
    BY <1>3 DEF EditsConstants
  <2> DEFINE n == Len(file)
             f(i) == IF "constants" \in DOMAIN file[i] THEN [constants |-> p] ELSE file[i]
  <2>2. n \in Nat /\ DOMAIN file = 1..n /\ (file = <<>> <=> n = 0)
    BY <1>1, LenProperties, EmptySeq
  <2>3. \A i \in 1..n : f(i) \in Token
    BY <1>1, ElementOfSeq, TokensAre
  <2>4. file' = [i \in 1..n |-> f(i)]
    BY <2>1, <2>2
  <2> HIDE DEF n, f
  <2>5. file' \in Seq(Token) /\ Len(file') = n
    BY <2>2, <2>3, <2>4
  <2>6. file' = <<>> => file = <<>>
    BY <2>2, <2>5, EmptySeq
  <2> QED  BY <1>1, <2>1, <2>5, <2>6, EditKeeps
<1>4. CASE AddsText("helper")
  <2> DEFINE x == [text |-> "helper"]
             u == <<file[1], x>>
             rest == Tail(file)
  <2>1. Edits /\ script' = script /\ file # <<>> /\ file' = u \o rest
    BY <1>4 DEF AddsText
  <2>2. file[1] \in Token
    <3>1. 1 \in 1..Len(file)
      BY <1>1, <2>1, EmptySeq
    <3> QED  BY <1>1, <3>1, ElementOfSeq
  <2>3. x \in Token
    BY TokensAre
  <2> HIDE DEF x
  <2>4. u \in Seq(Token) /\ Len(u) = 2
    BY <2>2, <2>3
  <2>5. rest \in Seq(Token) /\ Len(rest) \in Nat
    BY <1>1, <2>1, HeadTailProperties, LenProperties
  <2>6. IsGlued(file', u, rest, Token)
    <3> HIDE DEF u, rest
    <3> QED  BY <2>1, <2>4, <2>5, GluedIs DEF Glued
  <2> HIDE DEF u, rest
  <2>7. file' \in Seq(Token) /\ Len(file') # 0
    BY <2>4, <2>5, <2>6 DEF IsGlued
  <2> QED  BY <1>1, <2>1, <2>7, EmptySeq, EditKeeps
<1>5. CASE \E content \in InitialFiles : Restores(content)
  BY <1>1, <1>5, InitialType, EditKeeps DEF Restores
<1>6. CASE \E class_hash \in ClassHashes : Recompiles(class_hash)
  BY <1>1, <1>6, EditKeeps DEF Recompiles
<1> QED  BY <1>2, <1>3, <1>4, <1>5, <1>6

LEMMA NextKeeps ==
  ASSUME IInv, Next
  PROVE  IInv' /\ \A content \in InitialFiles : Overlapping(content) => Overlapping(content)'
<1>1. CASE \E r \in Runs : Generates(r)
  BY <1>1, GeneratesKeeps
<1>2. CASE \E r \in Runs : Reads(r)
  BY <1>2, ReadsKeeps
<1>3. CASE \E r \in Runs : Truncates(r)
  BY <1>3, TruncatesKeeps
<1>4. CASE \E r \in Runs : Writes(r)
  BY <1>4, WritesKeeps
<1>5. CASE \E r \in Runs : Killed(r)
  BY <1>5, KilledKeeps
<1>6. CASE \/ \E p \in Parameters : EditsScript(p)
           \/ \E p \in Parameters : EditsConstants(p)
           \/ AddsText("helper")
           \/ \E content \in InitialFiles : Restores(content)
           \/ \E class_hash \in ClassHashes : Recompiles(class_hash)
  BY <1>6, EditsKeep
<1> QED  BY <1>1, <1>2, <1>3, <1>4, <1>5, <1>6 DEF Next

LEMMA StutterKeeps ==
  ASSUME IInv, UNCHANGED vars
  PROVE  IInv' /\ \A content \in InitialFiles : Overlapping(content) => Overlapping(content)'
<1>1. script' = script /\ file' = file /\ run' = run /\ edits' = edits
  BY DEF vars
<1>2. TypeOK' /\ RunsInOrder' /\ EmptyOnlyIfCut'
  BY <1>1 DEF IInv, TypeOK, RunsInOrder, EmptyOnlyIfCut, LeftCut
<1>3. \A content : Overlapping(content) => Overlapping(content)'
  BY <1>1 DEF Overlapping, FromOne
<1> QED  BY <1>2, <1>3 DEF IInv

LEMMA InitHolds ==
  ASSUME Init
  PROVE  IInv /\ OInv
<1>1. Committed \in Parameters /\ file \in Seq(Token) /\ file # <<>>
  BY GeneratorAssumption, InitialType DEF Init
<1>2. \A r \in Runs : run[r] = Idle /\ run[r].phase = "idle"
  BY DEF Init, Idle
<1>3. TypeOK
  BY <1>1 DEF Init, TypeOK, RunType
<1>4. RunsInOrder
  BY <1>2 DEF RunsInOrder, Prepared, InPlace
<1>5. Overlapping(file)
  BY <1>2 DEF Init, Overlapping, FromOne
<1>6. OInv
  BY <1>5 DEF OInv, Init
<1> QED  BY <1>1, <1>3, <1>4, <1>6 DEF IInv, EmptyOnlyIfCut

\* The invariant holds throughout: each run has in its memory what it prepared from what it
\* read, and finds in the file what it expects there unless something has disturbed it.
THEOREM InvariantHolds == Spec => [](IInv /\ OInv)
<1>1. Init => IInv /\ OInv
  BY InitHolds
<1>2. (IInv /\ OInv) /\ [Next]_vars => (IInv /\ OInv)'
  <2> SUFFICES ASSUME IInv, OInv, [Next]_vars
               PROVE  IInv' /\ OInv'
    OBVIOUS
  <2>1. IInv' /\ \A content \in InitialFiles : Overlapping(content) => Overlapping(content)'
    BY NextKeeps, StutterKeeps
  <2>2. OInv'
    BY <2>1 DEF OInv
  <2> QED  BY <2>1, <2>2
<1> QED  BY <1>1, <1>2, PTL DEF Spec

\* test_utils.cairo is empty only if a run was cut short between opening and writing it.
THEOREM EmptyFileMeansCut == Spec => []EmptyOnlyIfCut
<1>1. IInv => EmptyOnlyIfCut
  BY DEF IInv
<1> QED  BY <1>1, InvariantHolds, PTL

\* Runs that overlap leave what one of them would have left (write_signatures_to_file).
THEOREM OverlapsHarmless == Spec => []OverlapHarmless
<1>1. IInv /\ OInv => OverlapHarmless
  <2> SUFFICES ASSUME IInv, OInv, edits = 0, ~LeftCut
               PROVE  \E content \in InitialFiles :
                        file \in {content, Substituted(content, BlockOf(script))}
    BY DEF OverlapHarmless, BlockOf
  <2>1. file # <<>>
    BY DEF IInv, EmptyOnlyIfCut
  <2> QED  BY <2>1 DEF OInv, Overlapping
<1> QED  BY <1>1, InvariantHolds, PTL

\* Substituting a second time changes nothing, whatever the file and the constants
\* (pattern.sub in write_signatures_to_file).
THEOREM RewritingIdempotent == Spec => []Idempotent
<1>1. IInv => Idempotent
  <2> SUFFICES ASSUME file \in Seq(Token), NEW p \in Parameters, Found(file)
               PROVE  /\ Found(Substituted(file, BlockOf(p)))
                      /\ Substituted(Substituted(file, BlockOf(p)), BlockOf(p))
                           = Substituted(file, BlockOf(p))
    BY DEF IInv, TypeOK, Idempotent, BlockOf
  <2>1. IsBlock(BlockOf(p), Token)
    BY BlockType
  <2>2. Settled(file, BlockOf(p))
    BY <2>1, SubSettled
  <2> QED  BY <2>2 DEF Settled
<1> QED  BY <1>1, InvariantHolds, PTL

-----------------------------------------------------------------------------
(* The text outside of the markers, by the first section or token.         *)

Kept(token) == IF token \in {MARKER_END, LineEnd} THEN <<>> ELSE <<token>>

TextPiece(c) == [i \in 1..Len(c) |-> IF Inside(c, i) THEN <<>> ELSE Kept(c[i])]
TextNext(c) == [i \in 1..Len(c) |-> i + 1]

IsTextFrom(g, c) ==
  g = [i \in 1..Len(c) + 1 |->
         IF i > Len(c) THEN <<>>
         ELSE IF Inside(c, i) \/ c[i] \in {MARKER_END, LineEnd} THEN g[i + 1]
         ELSE <<c[i]>> \o g[i + 1]]

LEMMA TextAhead ==
  ASSUME NEW c, Len(c) \in Nat
  PROVE  Ahead(Len(c), TextNext(c))
<1> SUFFICES ASSUME NEW i \in 1..Len(c) PROVE TextNext(c)[i] \in i + 1..Len(c) + 1
  BY DEF Ahead
<1>1. TextNext(c)[i] = i + 1
  BY DEF TextNext
<1> QED  BY <1>1

LEMMA TextTyped ==
  ASSUME NEW S, NEW c \in Seq(S)
  PROVE  \A i \in 1..Len(c) : TextPiece(c)[i] \in Seq(S)
<1> SUFFICES ASSUME NEW i \in 1..Len(c) PROVE TextPiece(c)[i] \in Seq(S)
  OBVIOUS
<1>1. c[i] \in S
  BY ElementOfSeq
<1>2. <<c[i]>> \in Seq(S) /\ <<>> \in Seq(S)
  BY <1>1
<1> QED  BY <1>2 DEF TextPiece, Kept

\* A walk satisfies the equations of OutsideText.
LEMMA WalkFromText ==
  ASSUME NEW S, NEW c \in Seq(S), NEW g, Walks(g, Len(c), TextPiece(c), TextNext(c))
  PROVE  IsTextFrom(g, c)
<1> DEFINE n == Len(c)
           At(i) == IF i > n THEN <<>>
                    ELSE IF Inside(c, i) \/ c[i] \in {MARKER_END, LineEnd} THEN g[i + 1]
                    ELSE <<c[i]>> \o g[i + 1]
<1>1. n \in Nat
  BY LenProperties
<1>2. \A i \in 1..n + 1 : g[i] \in Seq(S)
  BY <1>1, TextAhead, TextTyped, WalkType
<1>3. ASSUME NEW i \in 1..n
      PROVE  g[i] = At(i)
  <2>1. g[i] = Glued(TextPiece(c)[i], g[i + 1]) /\ i + 1 \in 1..n + 1 /\ ~(i > n)
    <3>1. TextNext(c)[i] = i + 1
      BY DEF TextNext
    <3>2. g[i] = Glued(TextPiece(c)[i], g[TextNext(c)[i]])
      BY DEF Walks
    <3> QED  BY <1>1, <3>1, <3>2
  <2>2. CASE Inside(c, i) \/ c[i] \in {MARKER_END, LineEnd}
    <3>1. TextPiece(c)[i] = <<>>
      BY <2>2 DEF TextPiece, Kept
    <3>2. g[i] = g[i + 1]
      BY <1>2, <2>1, <3>1, GluedEmpty
    <3>3. At(i) = g[i + 1]
      BY <2>1, <2>2
    <3> HIDE DEF At
    <3> QED  BY <3>2, <3>3
  <2>3. CASE ~(Inside(c, i) \/ c[i] \in {MARKER_END, LineEnd})
    <3>1. TextPiece(c)[i] = <<c[i]>>
      BY <2>3 DEF TextPiece, Kept
    <3>2. At(i) = <<c[i]>> \o g[i + 1]
      BY <2>1, <2>3
    <3> HIDE DEF At
    <3> QED  BY <2>1, <3>1, <3>2 DEF Glued
  <2> QED  BY <2>2, <2>3
<1>4. At(n + 1) = <<>> /\ g[n + 1] = <<>>
  BY <1>1 DEF Walks
<1>5. IsTextFrom(g, c) <=> g = [i \in 1..n + 1 |-> At(i)]
  BY DEF IsTextFrom
<1>6. g = [i \in 1..n + 1 |-> g[i]]
  BY DEF Walks
<1> HIDE DEF At, n
<1>7. ASSUME NEW i \in 1..n + 1
      PROVE  g[i] = At(i)
  <2>1. i = n + 1 \/ i \in 1..n
    BY <1>1
  <2> QED  BY <1>3, <1>4, <2>1
<1> QED  BY <1>5, <1>6, <1>7

\* And the other way round.
LEMMA TextFromWalk ==
  ASSUME NEW S, NEW c \in Seq(S), NEW g, IsTextFrom(g, c)
  PROVE  Walks(g, Len(c), TextPiece(c), TextNext(c))
<1> DEFINE n == Len(c)
           At(i) == IF i > n THEN <<>>
                    ELSE IF Inside(c, i) \/ c[i] \in {MARKER_END, LineEnd} THEN g[i + 1]
                    ELSE <<c[i]>> \o g[i + 1]
<1>1. n \in Nat
  BY LenProperties
<1>2. g = [i \in 1..n + 1 |-> At(i)]
  BY DEF IsTextFrom
<1>3. \A i \in 1..n + 1 : g[i] = At(i)
  <2> HIDE DEF At
  <2> QED  BY <1>2
<1>4. \A i \in 1..n : i \in 1..n + 1 /\ i + 1 \in 1..n + 1 /\ ~(i > n)
  BY <1>1
<1>5. At(n + 1) = <<>> /\ n + 1 \in 1..n + 1
  BY <1>1
<1> DEFINE Good == {d \in Nat : \A i \in 1..n + 1 : n + 1 - i <= d => g[i] \in Seq(S)}
<1>6. ASSUME NEW i \in 1..n, g[i + 1] \in Seq(S)
      PROVE  g[i] = Glued(TextPiece(c)[i], g[i + 1]) /\ g[i] \in Seq(S)
  <2>1. TextPiece(c)[i] \in Seq(S)
    BY TextTyped
  <2>2. CASE Inside(c, i) \/ c[i] \in {MARKER_END, LineEnd}
    <3>1. TextPiece(c)[i] = <<>>
      BY <2>2 DEF TextPiece, Kept
    <3>2. At(i) = g[i + 1]
      BY <1>4, <2>2
    <3> HIDE DEF At
    <3> QED  BY <1>3, <1>4, <1>6, <3>1, <3>2, GluedEmpty
  <2>3. CASE ~(Inside(c, i) \/ c[i] \in {MARKER_END, LineEnd})
    <3>1. TextPiece(c)[i] = <<c[i]>>
      BY <2>3 DEF TextPiece, Kept
    <3>2. At(i) = <<c[i]>> \o g[i + 1]
      BY <1>4, <2>3
    <3> HIDE DEF At
    <3>3. g[i] = Glued(TextPiece(c)[i], g[i + 1])
      BY <1>3, <1>4, <3>1, <3>2 DEF Glued
    <3> QED  BY <1>6, <2>1, <3>3, GluedType
  <2> QED  BY <2>2, <2>3
<1> HIDE DEF At
<1>7. 0 \in Good
  <2>1. g[n + 1] \in Seq(S)
    BY <1>3, <1>5, EmptySeq
  <2>2. \A i \in 1..n + 1 : n + 1 - i <= 0 => i = n + 1
    BY <1>1
  <2> QED  BY <2>1, <2>2
<1>8. ASSUME NEW d \in Nat, d \in Good
      PROVE  d + 1 \in Good
  <2> SUFFICES ASSUME NEW i \in 1..n + 1, n + 1 - i <= d + 1
               PROVE  g[i] \in Seq(S)
    OBVIOUS
  <2>1. CASE n + 1 - i <= d
    BY <1>8, <2>1
  <2>2. CASE ~(n + 1 - i <= d)
    <3>1. i \in 1..n /\ i + 1 \in 1..n + 1 /\ n + 1 - (i + 1) <= d
      BY <1>1, <2>2
    <3> QED  BY <1>6, <1>8, <3>1
  <2> QED  BY <2>1, <2>2
<1>9. n \in Good
  <2>1. \A d \in Nat : d \in Good
    <3> HIDE DEF Good
    <3> QED  BY <1>7, <1>8, SetNatInduction
  <2> QED  BY <1>1, <2>1
<1>10. \A i \in 1..n : g[i + 1] \in Seq(S)
  <2>1. \A i \in 1..n : i + 1 \in 1..n + 1 /\ n + 1 - (i + 1) <= n
    BY <1>1
  <2> QED  BY <1>9, <2>1
<1>11. g = [i \in 1..n + 1 |-> g[i]]
  BY <1>2
<1>12. \A i \in 1..n : TextNext(c)[i] = i + 1
  BY DEF TextNext
<1>13. \A i \in 1..n : g[i] = Glued(TextPiece(c)[i], g[TextNext(c)[i]])
  BY <1>6, <1>10, <1>12
<1>14. g[n + 1] = <<>>
  BY <1>3, <1>5
<1> QED  BY <1>11, <1>13, <1>14 DEF Walks

LEMMA TextWalk ==
  ASSUME NEW S, NEW c \in Seq(S)
  PROVE  \E g : Walks(g, Len(c), TextPiece(c), TextNext(c)) /\ OutsideText(c) = g[1]
<1> DEFINE g == CHOOSE f : IsTextFrom(f, c)
<1>1. Len(c) \in Nat
  BY LenProperties
<1>2. \E f : IsTextFrom(f, c)
  BY <1>1, WalkExists, TextAhead, WalkFromText
<1>3. IsTextFrom(g, c)
  BY <1>2
<1>4. OutsideText(c) = g[1]
  BY DEF OutsideText, IsTextFrom
<1> HIDE DEF g
<1> QED  BY <1>3, <1>4, TextFromWalk

LEMMA TextStep ==
  ASSUME NEW S, NEW c \in Seq(S), NEW k \in 0..Len(c),
         \A i \in 1..Len(c) - k : Inside(Drop(c, k), i) <=> Inside(c, i + k)
  PROVE  \E g : /\ Walks(g, Len(c), TextPiece(c), TextNext(c)) /\ OutsideText(c) = g[1]
                /\ g[k + 1] = OutsideText(Drop(c, k))
<1> DEFINE n == Len(c)
           d == Drop(c, k)
           m == n - k
<1>1. PICK g : Walks(g, n, TextPiece(c), TextNext(c)) /\ OutsideText(c) = g[1]
  BY TextWalk
<1>2. /\ n \in Nat /\ d \in Seq(S) /\ Len(d) = m /\ m \in Nat /\ k \in Nat /\ m + k = n
      /\ \A i \in 1..m : d[i] = c[i + k]
  BY Dropped
<1>3. \A i \in 1..m : Inside(d, i) <=> Inside(c, i + k)
  OBVIOUS
<1> HIDE DEF d, m, n
<1>4. PICK h : Walks(h, Len(d), TextPiece(d), TextNext(d)) /\ OutsideText(d) = h[1]
  BY <1>2, TextWalk
<1>5. Ahead(m, TextNext(d))
  BY <1>2, TextAhead
<1>6. ASSUME NEW i \in 1..m
      PROVE  TextPiece(d)[i] = TextPiece(c)[i + k] /\ TextNext(d)[i] + k = TextNext(c)[i + k]
  <2>1. i + k \in 1..n
    BY <1>2
  <2>2. /\ TextPiece(c)[i + k] = IF Inside(c, i + k) THEN <<>> ELSE Kept(c[i + k])
        /\ TextNext(c)[i + k] = i + k + 1
    BY <2>1 DEF TextPiece, TextNext, n
  <2>3. /\ TextPiece(d)[i] = IF Inside(d, i) THEN <<>> ELSE Kept(d[i])
        /\ TextNext(d)[i] = i + 1
    BY <1>2 DEF TextPiece, TextNext
  <2>4. TextPiece(d)[i] = TextPiece(c)[i + k]
    BY <1>2, <1>3, <2>2, <2>3
  <2>5. i + 1 + k = i + k + 1
    BY <1>2
  <2> QED  BY <2>2, <2>3, <2>4, <2>5
<1>7. h[1] = g[1 + k]
  <2> DEFINE pc == TextPiece(c)
             nc == TextNext(c)
             pd == TextPiece(d)
             nd == TextNext(d)
  <2>1. Walks(g, m + k, pc, nc) /\ Walks(h, m, pd, nd) /\ Ahead(m, nd) /\ m \in Nat /\ k \in Nat
    BY <1>1, <1>2, <1>4, <1>5
  <2>2. Shifted(m, k, pc, nc, pd, nd)
    BY <1>6 DEF Shifted
  <2> HIDE DEF pc, nc, pd, nd
  <2> QED  BY <2>1, <2>2, WalksAgree
<1>8. 1 + k = k + 1
  BY <1>2
<1> QED  BY <1>1, <1>4, <1>7, <1>8 DEF d, n

\* The first section is no text.
LEMMA TextOfSection ==
  ASSUME NEW S, NEW c \in Seq(S), c # <<>>, IsSection(c, 1)
  PROVE  OutsideText(c) = OutsideText(Drop(c, SectionEnd(c, 1)))
<1> DEFINE n == Len(c)
           e == EndOf(c, 1)
           k == SectionEnd(c, 1)
           d == Drop(c, k)
<1>1. n \in Nat \ {0} /\ 1 \in 1..n
  BY EmptySeq
<1>2. c[1] = MARKER_START /\ Ends(c, 1) # {}
  BY DEF IsSection
<1>3. e \in 1..n /\ c[e] = MARKER_END /\ \A j \in 1..e - 1 : c[j] # MARKER_END
  BY <1>1, <1>2, EndFound
<1>4. k \in 1..n /\ (k = e \/ (k = e + 1 /\ c[k] = LineEnd))
  <2>1. k = OverLineEnd(c, e)
    BY SectionEndBy
  <2> HIDE DEF e, k
  <2> QED  BY <1>1, <1>3, <2>1 DEF OverLineEnd
<1>5. k \in 0..n
  BY <1>4
<1>6. n \in Nat /\ d \in Seq(S) /\ Len(d) = n - k /\ \A i \in 1..n - k : d[i] = c[i + k]
  BY <1>5, Dropped
<1> HIDE DEF n, e, k, d
<1>7. ASSUME NEW i \in 1..n - k
      PROVE  Inside(d, i) <=> Inside(c, i + k)
  <2>1. ASSUME Inside(d, i)
        PROVE  Inside(c, i + k)
    <3>1. PICK s \in 1..i : /\ d[s] = MARKER_START
                            /\ \A j \in s..i - 1 : d[j] # MARKER_END
                            /\ \E j \in i..n - k : d[j] = MARKER_END
      BY <1>6, <2>1 DEF Inside
    <3>2. s + k \in 1..i + k /\ s \in 1..n - k
      BY <1>4, <1>6
    <3>3. c[s + k] = MARKER_START
      BY <1>6, <3>1, <3>2
    <3>4. ASSUME NEW j \in s + k..(i + k) - 1
          PROVE  c[j] # MARKER_END
      <4>1. j - k \in s..i - 1 /\ j - k \in 1..n - k /\ (j - k) + k = j
        BY <1>4, <1>6
      <4> QED  BY <1>6, <3>1, <4>1
    <3>5. PICK j \in i..n - k : d[j] = MARKER_END
      BY <3>1
    <3>6. j + k \in i + k..n /\ c[j + k] = MARKER_END
      BY <1>4, <1>6, <3>5
    <3> QED  BY <3>2, <3>3, <3>4, <3>6 DEF Inside, n
  <2>2. ASSUME Inside(c, i + k)
        PROVE  Inside(d, i)
    <3>1. PICK s \in 1..i + k : /\ c[s] = MARKER_START
                                /\ \A j \in s..(i + k) - 1 : c[j] # MARKER_END
                                /\ \E j \in i + k..n : c[j] = MARKER_END
      BY <2>2 DEF Inside, n
    <3>2. ~(s <= e)
      <4> SUFFICES ASSUME s <= e PROVE FALSE
        OBVIOUS
      <4>1. e \in s..(i + k) - 1
        BY <1>3, <1>4, <1>6
      <4> QED  BY <1>3, <3>1, <4>1
    <3>3. s # k
      BY <1>4, <3>1, <3>2, MarkersDiffer
    <3>4. s - k \in 1..i /\ s - k \in 1..n - k /\ (s - k) + k = s
      BY <1>3, <1>4, <1>6, <3>2, <3>3
    <3>5. d[s - k] = MARKER_START
      BY <1>6, <3>1, <3>4
    <3>6. ASSUME NEW j \in s - k..i - 1
          PROVE  d[j] # MARKER_END
      <4>1. j + k \in s..(i + k) - 1 /\ j \in 1..n - k
        BY <1>4, <1>6, <3>4
      <4> QED  BY <1>6, <3>1, <4>1
    <3>7. PICK j \in i + k..n : c[j] = MARKER_END
      BY <3>1
    <3>8. j - k \in i..n - k /\ (j - k) + k = j
      BY <1>4, <1>6
    <3>9. d[j - k] = MARKER_END
      BY <1>6, <3>7, <3>8
    <3> QED  BY <1>6, <3>4, <3>5, <3>6, <3>8, <3>9 DEF Inside
  <2> QED  BY <2>1, <2>2
<1>8. PICK g : /\ Walks(g, n, TextPiece(c), TextNext(c)) /\ OutsideText(c) = g[1]
               /\ g[k + 1] = OutsideText(d)
  BY <1>5, <1>7, TextStep DEF n, d
<1>9. ASSUME NEW i \in 1..k
      PROVE  TextPiece(c)[i] = <<>> /\ TextNext(c)[i] = i + 1
  <2>1. i \in 1..n
    BY <1>4, <1>6
  <2>2. CASE i <= e
    <3>1. 1 \in 1..i /\ e \in i..n
      BY <1>3, <1>6, <2>2
    <3>2. \A j \in 1..i - 1 : j \in 1..e - 1
      BY <1>3, <2>2
    <3>3. Inside(c, i)
      BY <1>2, <1>3, <3>1, <3>2 DEF Inside, n
    <3> QED  BY <2>1, <3>3 DEF TextPiece, TextNext, n
  <2>3. CASE ~(i <= e)
    <3>1. i = k /\ c[i] = LineEnd
      BY <1>3, <1>4, <2>3
    <3> QED  BY <2>1, <3>1 DEF TextPiece, TextNext, Kept, n
  <2> QED  BY <2>2, <2>3
<1>10. \A i \in 1..n + 1 : g[i] \in Seq(S)
  BY <1>6, <1>8, TextAhead, TextTyped, WalkType DEF n
<1>11. g[1] = g[k + 1]
  <2> DEFINE pc == TextPiece(c)
             nc == TextNext(c)
  <2>1. Walks(g, n, pc, nc) /\ Empty(k, pc, nc)
    BY <1>8, <1>9 DEF Empty
  <2> HIDE DEF pc, nc
  <2> QED  BY <1>5, <1>6, <1>10, <2>1, WalkSkips
<1> QED  BY <1>8, <1>11 DEF d, k

\* A first token that starts no section is text, unless it is no text anywhere.
LEMMA TextOfToken ==
  ASSUME NEW S, NEW c \in Seq(S), c # <<>>, ~IsSection(c, 1)
  PROVE  OutsideText(c) = Glued(Kept(c[1]), OutsideText(Drop(c, 1)))
<1> DEFINE n == Len(c)
           d == Drop(c, 1)
<1>1. n \in Nat \ {0} /\ 1 \in 1..n /\ 1 \in 0..n
  BY EmptySeq
<1>2. d \in Seq(S) /\ Len(d) = n - 1 /\ \A i \in 1..n - 1 : d[i] = c[i + 1]
  BY <1>1, Dropped
<1> HIDE DEF n, d
<1>3. c[1] = MARKER_START => \A j \in 1..n : c[j] # MARKER_END
  BY DEF IsSection, Ends, n
<1>4. ASSUME NEW i \in 1..n - 1
      PROVE  Inside(d, i) <=> Inside(c, i + 1)
  <2>1. ASSUME Inside(d, i)
        PROVE  Inside(c, i + 1)
    <3>1. PICK s \in 1..i : /\ d[s] = MARKER_START
                            /\ \A j \in s..i - 1 : d[j] # MARKER_END
                            /\ \E j \in i..n - 1 : d[j] = MARKER_END
      BY <1>2, <2>1 DEF Inside
    <3>2. s + 1 \in 1..i + 1 /\ s \in 1..n - 1
      BY <1>1
    <3>3. c[s + 1] = MARKER_START
      BY <1>2, <3>1, <3>2
    <3>4. ASSUME NEW j \in s + 1..(i + 1) - 1
          PROVE  c[j] # MARKER_END
      <4>1. j - 1 \in s..i - 1 /\ j - 1 \in 1..n - 1 /\ (j - 1) + 1 = j
        BY <1>1
      <4> QED  BY <1>2, <3>1, <4>1
    <3>5. PICK j \in i..n - 1 : d[j] = MARKER_END
      BY <3>1
    <3>6. j + 1 \in i + 1..n /\ c[j + 1] = MARKER_END
      BY <1>1, <1>2, <3>5
    <3> QED  BY <3>2, <3>3, <3>4, <3>6 DEF Inside, n
  <2>2. ASSUME Inside(c, i + 1)
        PROVE  Inside(d, i)
    <3>1. PICK s \in 1..i + 1 : /\ c[s] = MARKER_START
                                /\ \A j \in s..(i + 1) - 1 : c[j] # MARKER_END
                                /\ \E j \in i + 1..n : c[j] = MARKER_END
      BY <2>2 DEF Inside, n
    <3>2. PICK j \in i + 1..n : c[j] = MARKER_END
      BY <3>1
    <3>3. s # 1
      <4>1. j \in 1..n
        BY <1>1
      <4> QED  BY <1>3, <3>1, <3>2, <4>1
    <3>4. s - 1 \in 1..i /\ s - 1 \in 1..n - 1 /\ (s - 1) + 1 = s
      BY <1>1, <3>3
    <3>5. d[s - 1] = MARKER_START
      BY <1>2, <3>1, <3>4
    <3>6. ASSUME NEW q \in s - 1..i - 1
          PROVE  d[q] # MARKER_END
      <4>1. q + 1 \in s..(i + 1) - 1 /\ q \in 1..n - 1
        BY <1>1, <3>4
      <4> QED  BY <1>2, <3>1, <4>1
    <3>7. j - 1 \in i..n - 1 /\ (j - 1) + 1 = j
      BY <1>1
    <3>8. d[j - 1] = MARKER_END
      BY <1>1, <1>2, <3>2, <3>7
    <3> QED  BY <1>2, <3>4, <3>5, <3>6, <3>7, <3>8 DEF Inside
  <2> QED  BY <2>1, <2>2
<1>5. PICK g : /\ Walks(g, n, TextPiece(c), TextNext(c)) /\ OutsideText(c) = g[1]
               /\ g[1 + 1] = OutsideText(d)
  BY <1>1, <1>4, TextStep DEF n, d
<1>6. ~Inside(c, 1)
  <2> SUFFICES ASSUME Inside(c, 1) PROVE FALSE
    OBVIOUS
  <2>1. c[1] = MARKER_START /\ \E j \in 1..n : c[j] = MARKER_END
    BY DEF Inside, n
  <2> QED  BY <1>3, <2>1
<1>7. TextPiece(c)[1] = Kept(c[1]) /\ TextNext(c)[1] = 1 + 1
  BY <1>1, <1>6 DEF TextPiece, TextNext, n
<1>8. g[1] = Glued(TextPiece(c)[1], g[TextNext(c)[1]])
  BY <1>1, <1>5 DEF Walks
<1> QED  BY <1>5, <1>7, <1>8 DEF d

\* The substitution changes nothing outside of the markers.
LEMMA SubKeepsText ==
  ASSUME NEW S, NEW b, IsBlock(b, S), NEW c \in Seq(S)
  PROVE  OutsideText(Substituted(c, b)) = OutsideText(c)
<1> DEFINE Good == {n \in Nat : \A d \in Seq(S) :
                      Len(d) <= n => OutsideText(Substituted(d, b)) = OutsideText(d)}
<1>1. \A d \in Seq(S) : Len(d) \in Nat /\ (d # <<>> => Len(d) > 0)
  BY EmptySeq, LenProperties
<1>2. ASSUME NEW d \in Seq(S), d = <<>>
      PROVE  OutsideText(Substituted(d, b)) = OutsideText(d)
  BY <1>2, SubType DEF IsBlock
<1>3. 0 \in Good
  BY <1>1, <1>2
<1>4. ASSUME NEW n \in Nat, n \in Good
      PROVE  n + 1 \in Good
  <2> SUFFICES ASSUME NEW d \in Seq(S), Len(d) <= n + 1
               PROVE  OutsideText(Substituted(d, b)) = OutsideText(d)
    OBVIOUS
  <2>1. CASE d = <<>>
    BY <1>2, <2>1
  <2>2. CASE d # <<>>
    <3>1. /\ Len(d) \in Nat \ {0} /\ b \in Seq(S)
          /\ IsSection(d, 1) => SectionEnd(d, 1) \in 1..Len(d)
          /\ IsSection(d, 1) =>
               Substituted(d, b) = Glued(b, Substituted(Drop(d, SectionEnd(d, 1)), b))
          /\ ~IsSection(d, 1) => Substituted(d, b) = Glued(<<d[1]>>, Substituted(Drop(d, 1), b))
      BY <2>2, SubStep DEF IsBlock
    <3>2. ASSUME NEW k \in 1..Len(d)
          PROVE  /\ Drop(d, k) \in Seq(S) /\ Substituted(Drop(d, k), b) \in Seq(S)
                 /\ OutsideText(Substituted(Drop(d, k), b)) = OutsideText(Drop(d, k))
                 /\ Settled(Drop(d, k), b)
      <4>1. k \in 0..Len(d)
        BY <3>1
      <4>2. Drop(d, k) \in Seq(S) /\ Len(Drop(d, k)) = Len(d) - k
        BY <4>1, Dropped
      <4>3. Len(Drop(d, k)) <= n
        BY <3>1, <4>2
      <4> QED  BY <1>4, <3>1, <4>2, <4>3, SubType, SubSettled
    <3>3. CASE IsSection(d, 1)
      <4> DEFINE k == SectionEnd(d, 1)
                 t == Substituted(Drop(d, k), b)
                 x == Glued(b, t)
      <4>1. k \in 1..Len(d) /\ Substituted(d, b) = x
        BY <3>1, <3>3
      <4>2. OutsideText(d) = OutsideText(Drop(d, k))
        BY <2>2, <3>3, TextOfSection
      <4> HIDE DEF k
      <4>3. t \in Seq(S) /\ OutsideText(t) = OutsideText(Drop(d, k))
        BY <3>2, <4>1
      <4> HIDE DEF t
      <4>4. /\ x \in Seq(S) /\ x # <<>> /\ IsSection(x, 1)
            /\ SectionEnd(x, 1) = Len(b) /\ Drop(x, Len(b)) = t
        BY <4>3, BlockFirst
      <4> HIDE DEF x
      <4>5. OutsideText(x) = OutsideText(t)
        BY <4>4, TextOfSection
      <4> QED  BY <4>1, <4>2, <4>3, <4>5
    <3>4. CASE ~IsSection(d, 1)
      <4> DEFINE t == Substituted(Drop(d, 1), b)
                 x == Glued(<<d[1]>>, t)
      <4>1. 1 \in 1..Len(d) /\ Substituted(d, b) = x
        BY <3>1, <3>4
      <4>2. OutsideText(d) = Glued(Kept(d[1]), OutsideText(Drop(d, 1)))
        BY <2>2, <3>4, TextOfToken
      <4>3. /\ t \in Seq(S) /\ OutsideText(t) = OutsideText(Drop(d, 1))
            /\ HasEnd(t) => HasEnd(Drop(d, 1))
        BY <3>2, <4>1 DEF Settled
      <4> HIDE DEF t
      <4>4. /\ x \in Seq(S) /\ x # <<>> /\ x[1] = d[1] /\ ~IsSection(x, 1) /\ Drop(x, 1) = t
        BY <2>2, <3>4, <4>3, TokenFirst
      <4> HIDE DEF x
      <4>5. OutsideText(x) = Glued(Kept(x[1]), OutsideText(Drop(x, 1)))
        BY <4>4, TextOfToken
      <4> QED  BY <4>1, <4>2, <4>3, <4>4, <4>5
    <3> QED  BY <3>3, <3>4
  <2> QED  BY <2>1, <2>2
<1>5. \A n \in Nat : n \in Good
  <2> HIDE DEF Good
  <2> QED  BY <1>3, <1>4, SetNatInduction
<1>6. Len(c) \in Good
  BY <1>1, <1>5
<1> QED  BY <1>1, <1>6

\* What a run is going to write has all of what it read that is outside of the markers
\* (pattern.sub in write_signatures_to_file).
THEOREM OutsideUnchanged == Spec => []OutsideKept
<1>1. IInv => OutsideKept
  <2> SUFFICES ASSUME IInv, NEW r \in Runs, run[r].phase \in {"read", "opened"}
               PROVE  OutsideText(run[r].new) = OutsideText(run[r].content)
    BY DEF OutsideKept
  <2>1. /\ run[r].p \in Parameters /\ run[r].content \in Seq(Token)
        /\ run[r].new = Substituted(run[r].content, BlockOf(run[r].p))
    BY WritingIs DEF Prepared
  <2>2. IsBlock(BlockOf(run[r].p), Token)
    BY <2>1, BlockType
  <2> QED  BY <2>1, <2>2, SubKeepsText
<1> QED  BY <1>1, InvariantHolds, PTL

-----------------------------------------------------------------------------
(* The account computes the hash the script has signed, and takes a        *)
(* signature for that hash alone.                                          *)

Chains == DOMAIN ChainIds

LEMMA AccountDomain ==
  ASSUME NEW chain \in Chains, NEW address, NEW evm
  PROVE  push_domain_separator(evm, ChainIds[chain], address) = domain_separator(chain, address, evm)
<1>1. felt_to_byte_array(ChainIds[chain]) = Text(chain)
  BY KeccakAssumption DEF felt_to_byte_array, Chains
<1> QED  BY <1>1 DEF push_domain_separator, push_felt, contract_address_low, domain_separator,
            keccak_ints, to_bytes32, LowHalf

LEMMA AccountCalls ==
  ASSUME NEW calls
  PROVE  push_call_array(calls) = hash_call_array(calls)
<1>1. \A i \in DOMAIN calls : push_call(calls[i]) = hash_call(calls[i])
  BY DEF push_call, push_felt_array, push_felt, hash_call, hash_felt_array, keccak_ints, to_bytes32
<1> QED  BY <1>1 DEF push_call_array, hash_call_array

LEMMA AccountOutsideHash ==
  ASSUME NEW oe, NEW chain \in Chains, NEW address, NEW evm
  PROVE  get_outside_execution_hash(oe, evm, ChainIds[chain], address)
           = outside_execution_msg_hash(oe, chain, address, evm)
<1>1. push_outside_execution(oe) = hash_outside_execution(oe)
  BY AccountCalls DEF push_outside_execution, push_felt, hash_outside_execution,
     keccak_ints, to_bytes32
<1> QED  BY <1>1, AccountDomain DEF get_outside_execution_hash, outside_execution_msg_hash

LEMMA AccountTransactionHash ==
  ASSUME NEW calls, NEW metadata, NEW chain \in Chains, NEW address, NEW evm
  PROVE  get_transaction_hash(calls, metadata, evm, ChainIds[chain], address)
           = transaction_msg_hash(calls, metadata, chain, address, evm)
<1>1. push_metadata(metadata) = hash_transaction_metadata(metadata)
  BY DEF push_metadata, push_felt_array, push_felt, hash_transaction_metadata, hash_felt_array,
     keccak_ints, to_bytes32
<1>2. push_transaction(calls, metadata) = hash_transaction(calls, metadata)
  BY <1>1, AccountCalls DEF push_transaction, hash_transaction, keccak_ints
<1> QED  BY <1>2, AccountDomain DEF get_transaction_hash, transaction_msg_hash

\* Presented with another EVM chain's id a signature is still one of its digest.
LEMMA SignatureValid ==
  ASSUME NEW digest, NEW key, NEW evm, NEW hash
  PROVE  LET s == sign_and_split(digest, key, evm)
         IN /\ IsSignature(s) /\ EvmChainOf(s) = evm
            /\ is_valid_eth_signature(hash, s, key) <=> hash = digest
            /\ IsSignature(Tampered(s)) /\ EvmChainOf(Tampered(s)) = 2
            /\ is_valid_eth_signature(hash, Tampered(s), key) => hash = digest
<1> DEFINE s == sign_and_split(digest, key, evm)
           t == Tampered(s)
<1>1. /\ Len(s) = 6
      /\ s[1] = Part("r_high", key, digest) /\ s[2] = Part("r_low", key, digest)
      /\ s[3] = Part("s_high", key, digest) /\ s[4] = Part("s_low", key, digest)
      /\ s[5] = Uint(IF IsYOdd(key, digest) THEN 28 ELSE 27) /\ s[6] = Uint(evm)
      /\ s = [i \in 1..6 |-> s[i]]
  BY DEF sign_and_split
<1>2. IsSignature(s) /\ EvmChainOf(s) = evm
  BY <1>1 DEF IsSignature, EvmChainOf, Uint
<1>3. (s[5].uint % 2 = 0) = IsYOdd(key, digest)
  BY <1>1 DEF Uint, IsYOdd
<1>4. t = [i \in 1..6 |-> IF i = 6 THEN Uint(2) ELSE s[i]]
  BY <1>1 DEF Tampered
<1> HIDE DEF s
<1>5. Len(t) = 6 /\ t[1] = s[1] /\ t[6] = Uint(2)
  BY <1>4
<1> HIDE DEF t
<1>6. IsSignature(t) /\ EvmChainOf(t) = 2
  BY <1>5 DEF IsSignature, EvmChainOf, Uint
<1>7. /\ is_valid_eth_signature(hash, s, key) => s[1] = Part("r_high", key, hash)
      /\ is_valid_eth_signature(hash, t, key) => t[1] = Part("r_high", key, hash)
  BY DEF is_valid_eth_signature, Recovers, extract_signature
<1>8. Part("r_high", key, digest) = Part("r_high", key, hash) => hash = digest
  BY DEF Part
<1>9. is_valid_eth_signature(digest, s, key)
  BY <1>1, <1>3 DEF is_valid_eth_signature, Recovers, extract_signature
<1> QED  BY <1>1, <1>2, <1>5, <1>6, <1>7, <1>8, <1>9 DEF s, t

LEMMA MainChain == "SN_MAIN" \in Chains
BY GeneratorAssumption DEF Chains, SN_CHAIN_ID

LEMMA OutsideAccepted ==
  ASSUME NEW p, NEW t, NEW oe, t.kind = "outside", t.request = oe, NEW signed, NEW address,
         NEW evm, NEW chain, NEW sig,
         sig = sign_outside_execution(signed, address, evm, chain)
  PROVE  /\ Accepts(p, t, sig) <=>
              outside_execution_msg_hash(oe, "SN_MAIN", p.address, evm)
                = outside_execution_msg_hash(signed, chain, address, evm)
         /\ Accepts(p, t, Tampered(sig)) =>
              outside_execution_msg_hash(oe, "SN_MAIN", p.address, 2)
                = outside_execution_msg_hash(signed, chain, address, evm)
<1> DEFINE digest == outside_execution_msg_hash(signed, chain, address, evm)
           Hash(e) == outside_execution_msg_hash(oe, "SN_MAIN", p.address, e)
<1>1. sig = sign_and_split(digest, PRIVATE_KEY, evm)
  BY DEF sign_outside_execution
<1>2. \A e : get_outside_execution_hash(oe, e, ChainIds["SN_MAIN"], p.address) = Hash(e)
  BY MainChain, AccountOutsideHash
<1>3. t.kind = "outside" /\ t.request = oe
  OBVIOUS
<1> HIDE DEF digest, Hash
<1>4. \A s : Accepts(p, t, s) <=>
               IsSignature(s) /\ is_valid_eth_signature(Hash(EvmChainOf(s)), s, PRIVATE_KEY)
  BY <1>2, <1>3 DEF Accepts
<1>5. /\ IsSignature(sig) /\ EvmChainOf(sig) = evm
      /\ is_valid_eth_signature(Hash(evm), sig, PRIVATE_KEY) <=> Hash(evm) = digest
  BY <1>1, SignatureValid
<1>6. /\ EvmChainOf(Tampered(sig)) = 2
      /\ is_valid_eth_signature(Hash(2), Tampered(sig), PRIVATE_KEY) => Hash(2) = digest
  BY <1>1, SignatureValid
<1> QED  BY <1>4, <1>5, <1>6 DEF digest, Hash

LEMMA ValidateAccepted ==
  ASSUME NEW p, NEW t, NEW calls, NEW nonce, t.kind = "validate", t.request.calls = calls,
         t.request.metadata = ValidateMetadata(nonce), NEW signed, NEW metadata, NEW address,
         NEW chain, NEW sig, sig = sign_transaction(signed, metadata, address, chain)
  PROVE  Accepts(p, t, sig) <=>
           transaction_msg_hash(calls, ValidateMetadata(nonce), "SN_MAIN", p.address, ETH_CHAIN_ID)
             = transaction_msg_hash(signed, metadata, chain, address, ETH_CHAIN_ID)
<1> DEFINE evm == ETH_CHAIN_ID
           digest == transaction_msg_hash(signed, metadata, chain, address, evm)
           Hash(e) == transaction_msg_hash(calls, ValidateMetadata(nonce), "SN_MAIN", p.address, e)
<1>1. sig = sign_and_split(digest, PRIVATE_KEY, evm)
  BY DEF sign_transaction
<1>2. \A e : get_transaction_hash(calls, ValidateMetadata(nonce), e, ChainIds["SN_MAIN"], p.address)
               = Hash(e)
  BY MainChain, AccountTransactionHash
<1>3. /\ t.kind = "validate" /\ t.request.calls = calls
      /\ t.request.metadata = ValidateMetadata(nonce)
  OBVIOUS
<1> HIDE DEF digest, Hash, evm
<1>4. \A s : Accepts(p, t, s) <=>
               IsSignature(s) /\ is_valid_eth_signature(Hash(EvmChainOf(s)), s, PRIVATE_KEY)
  <2>1. t.kind # "outside"
    BY <1>3
  <2> QED  BY <1>2, <1>3, <2>1 DEF Accepts
<1>5. /\ IsSignature(sig) /\ EvmChainOf(sig) = evm
      /\ is_valid_eth_signature(Hash(evm), sig, PRIVATE_KEY) <=> Hash(evm) = digest
  BY <1>1, SignatureValid
<1> QED  BY <1>4, <1>5 DEF digest, Hash, evm

\* Requests hashed for other domains have other hashes, and with another nonce, too.
LEMMA HashesApart ==
  ASSUME NEW m, NEW n, NEW a, NEW b, NEW e, NEW f
  PROVE  /\ \A o, q : outside_execution_msg_hash(o, m, a, e) = outside_execution_msg_hash(q, n, b, f)
              => m = n /\ LowHalf(a) = LowHalf(b) /\ e = f
         /\ \A c, d, x, y : transaction_msg_hash(c, x, m, a, e) = transaction_msg_hash(d, y, n, b, f)
              => m = n /\ x.nonce = y.nonce
<1>1. domain_separator(m, a, e) = domain_separator(n, b, f)
        => m = n /\ LowHalf(a) = LowHalf(b) /\ e = f
  BY DEF domain_separator, keccak_ints, keccak256, Text, to_bytes32, Uint
<1>2. ASSUME NEW o, NEW q,
             outside_execution_msg_hash(o, m, a, e) = outside_execution_msg_hash(q, n, b, f)
      PROVE  m = n /\ LowHalf(a) = LowHalf(b) /\ e = f
  BY <1>1, <1>2 DEF outside_execution_msg_hash, keccak256
<1>3. ASSUME NEW c, NEW d, NEW x, NEW y,
             transaction_msg_hash(c, x, m, a, e) = transaction_msg_hash(d, y, n, b, f)
      PROVE  m = n /\ x.nonce = y.nonce
  <2>1. /\ domain_separator(m, a, e) = domain_separator(n, b, f)
        /\ hash_transaction(c, x) = hash_transaction(d, y)
    BY <1>3 DEF transaction_msg_hash, keccak256
  <2>2. hash_transaction_metadata(x) = hash_transaction_metadata(y)
    BY <2>1 DEF hash_transaction, keccak_ints, keccak256
  <2>3. to_bytes32(x.nonce) = to_bytes32(y.nonce)
    BY <2>2 DEF hash_transaction_metadata, keccak_ints, keccak256
  <2> QED  BY <1>1, <2>1, <2>3 DEF to_bytes32, Uint
<1> QED  BY <1>2, <1>3

-----------------------------------------------------------------------------
(* The requests the tests build are those the script signs.                *)

LEMMA ResourcesRead == resource_bounds_as_felts(validate_resource_bounds) = VALIDATE_RESOURCE_BOUNDS
<1> DEFINE x == validate_resource_bounds
           g == resource_bounds_as_felts(x)
           h == VALIDATE_RESOURCE_BOUNDS
<1>1. /\ Len(x) = 3
      /\ x[1].resource = L1_GAS_ID /\ x[1].max_amount = 100 /\ x[1].max_price_per_unit = 1000
      /\ x[2].resource = L2_GAS_ID /\ x[2].max_amount = 200 /\ x[2].max_price_per_unit = 2000
      /\ x[3].resource = L1_DATA_ID /\ x[3].max_amount = 300 /\ x[3].max_price_per_unit = 3000
  BY DEF validate_resource_bounds
<1>2. /\ h = [i \in 1..9 |-> h[i]]
      /\ h[1] = L1_GAS_ID /\ h[2] = 100 /\ h[3] = 1000
      /\ h[4] = L2_GAS_ID /\ h[5] = 200 /\ h[6] = 2000
      /\ h[7] = L1_DATA_ID /\ h[8] = 300 /\ h[9] = 3000
  BY DEF VALIDATE_RESOURCE_BOUNDS, resource_bounds_to_felts
<1> HIDE DEF x, h
<1> DEFINE At(i) == LET b == x[((i - 1) \div 3) + 1]
                      IN CASE i % 3 = 1 -> b.resource
                           [] i % 3 = 2 -> b.max_amount
                           [] i % 3 = 0 -> b.max_price_per_unit
<1>4. g = [i \in 1..9 |-> At(i)]
  BY <1>1 DEF resource_bounds_as_felts
<1>5. /\ At(1) = x[1].resource /\ At(2) = x[1].max_amount /\ At(3) = x[1].max_price_per_unit
      /\ At(4) = x[2].resource /\ At(5) = x[2].max_amount /\ At(6) = x[2].max_price_per_unit
      /\ At(7) = x[3].resource /\ At(8) = x[3].max_amount /\ At(9) = x[3].max_price_per_unit
  OBVIOUS
<1> HIDE DEF At
<1>6. \A i \in 1..9 : At(i) = h[i]
  BY <1>1, <1>2, <1>5
<1> HIDE DEF g
<1>7. g = h
  BY <1>2, <1>4, <1>6
<1> QED  BY <1>7 DEF g, h, x

LEMMA MetadataRead ==
  ASSUME NEW nonce
  PROVE  ValidateMetadata(nonce) = build_validate_metadata(nonce)
BY ResourcesRead DEF ValidateMetadata, build_validate_metadata, SN_CHAIN_ID

LEMMA Halves ==
  ASSUME NEW amount \in 0..HALF - 1
  PROVE  amount % HALF = amount /\ amount \div HALF = 0
<1>1. HALF \in Nat /\ 0 < HALF
  BY KeccakAssumption
<1> QED  BY <1>1

LEMMA CallsRead ==
  ASSUME NEW p \in Parameters
  PROVE  /\ approve_call(p.token, TEST_SPENDER, p.approve_amount) = get_approve_call(p)
         /\ transfer_call(p.token, TEST_RECIPIENT, 100) = build_transfer_call(p, 100)
         /\ transfer_call(p.token, TEST_RECIPIENT, 1000 + 1) = build_transfer_call(p, 1000 + 1)
         /\ upgrade_call(p.address, p.class_hash) = UpgradeCall(p)
<1>1. p.approve_amount \in 0..HALF - 1 /\ 100 \in 0..HALF - 1 /\ 1000 + 1 \in 0..HALF - 1
  BY GeneratorAssumption, KeccakAssumption
<1>2. approve_call(p.token, TEST_SPENDER, p.approve_amount) = get_approve_call(p)
  BY <1>1, Halves DEF approve_call, AmountCall, get_approve_call, selector, TEST_SPENDER
<1>3. \A amount \in 0..HALF - 1 :
        transfer_call(p.token, TEST_RECIPIENT, amount) = build_transfer_call(p, amount)
  BY Halves DEF transfer_call, AmountCall, build_transfer_call, selector, TEST_RECIPIENT
<1>4. upgrade_call(p.address, p.class_hash) = UpgradeCall(p)
  BY DEF upgrade_call, UpgradeCall, selector
<1> QED  BY <1>1, <1>2, <1>3, <1>4

LEMMA OutsideRead ==
  ASSUME NEW p, NEW calls, NEW nonce, NEW caller
  PROVE  /\ build_outside_execution_with_calls(p, calls, nonce)
              = build_oe(p, calls, nonce, ANY_CALLER)
         /\ build_outside_execution_with_specific_caller(p, nonce, caller)
              = build_oe(p, <<>>, nonce, caller)
BY DEF build_outside_execution_with_calls, build_outside_execution_with_specific_caller, build_oe,
   EXECUTE_AFTER

\* Signed as asked for, a test that is meant to pass does.
LEMMA OutsidePasses ==
  ASSUME NEW p, NEW fn, NEW oe, NEW evm, NEW sig,
         evm # 2 \/ fn # "get_outside_execution_signature",
         sig = sign_outside_execution(oe, p.address, evm, SN_CHAIN_ID)
  PROVE  TestPasses(p, Outside(fn, oe, TRUE), sig)
<1> DEFINE t == Outside(fn, oe, TRUE)
<1> t.kind = "outside" /\ t.request = oe
  BY DEF Outside
<1> HIDE DEF t
<1>1. Accepts(p, t, sig)
  <2>1. sig = sign_outside_execution(oe, p.address, evm, "SN_MAIN")
    BY DEF SN_CHAIN_ID
  <2>2. Accepts(p, t, sig) <=>
          outside_execution_msg_hash(oe, "SN_MAIN", p.address, evm)
            = outside_execution_msg_hash(oe, "SN_MAIN", p.address, evm)
    BY <2>1, OutsideAccepted
  <2> QED  BY <2>2
<1>2. evm # 2 => ~Accepts(p, t, Tampered(sig))
  <2>1. Accepts(p, t, Tampered(sig)) =>
          outside_execution_msg_hash(oe, "SN_MAIN", p.address, 2)
            = outside_execution_msg_hash(oe, SN_CHAIN_ID, p.address, evm)
    BY OutsideAccepted
  <2>2. outside_execution_msg_hash(oe, "SN_MAIN", p.address, 2)
          = outside_execution_msg_hash(oe, SN_CHAIN_ID, p.address, evm) => 2 = evm
    BY HashesApart
  <2> QED  BY <2>1, <2>2
<1>3. t.valid = TRUE /\ t.fn = fn
  BY DEF Outside, t
<1>4. Accepts(p, t, sig) \in BOOLEAN
  BY DEF Accepts
<1> HIDE DEF t
<1>5. Accepts(p, t, sig) = TRUE
  BY <1>1, <1>4
<1> QED  BY <1>2, <1>3, <1>5 DEF TestPasses, t

\* Signed for another account or chain, it is refused.
LEMMA OutsideFails ==
  ASSUME NEW p, NEW fn, NEW oe, NEW signed, NEW address, NEW evm, NEW chain, NEW sig,
         fn # "get_outside_execution_signature",
         chain # "SN_MAIN" \/ LowHalf(address) # LowHalf(p.address),
         sig = sign_outside_execution(signed, address, evm, chain)
  PROVE  TestPasses(p, Outside(fn, oe, FALSE), sig)
<1> DEFINE t == Outside(fn, oe, FALSE)
<1> t.kind = "outside" /\ t.request = oe
  BY DEF Outside
<1> HIDE DEF t
<1>1. ~Accepts(p, t, sig)
  <2>1. Accepts(p, t, sig) =>
          outside_execution_msg_hash(oe, "SN_MAIN", p.address, evm)
            = outside_execution_msg_hash(signed, chain, address, evm)
    BY OutsideAccepted
  <2>2. outside_execution_msg_hash(oe, "SN_MAIN", p.address, evm)
          = outside_execution_msg_hash(signed, chain, address, evm) =>
            "SN_MAIN" = chain /\ LowHalf(p.address) = LowHalf(address)
    BY HashesApart
  <2> QED  BY <2>1, <2>2
<1>2. t.valid = FALSE /\ t.fn = fn /\ Accepts(p, t, sig) \in BOOLEAN
  BY DEF Outside, Accepts, t
<1> HIDE DEF t
<1>3. Accepts(p, t, sig) = FALSE
  BY <1>1, <1>2
<1> QED  BY <1>2, <1>3 DEF TestPasses, t

LEMMA ValidatePasses ==
  ASSUME NEW p, NEW fn, NEW calls, NEW nonce, NEW sig, fn # "get_outside_execution_signature",
         sig = sign_transaction(calls, build_validate_metadata(nonce), p.address, SN_CHAIN_ID)
  PROVE  TestPasses(p, Validate(fn, calls, nonce, TRUE), sig)
<1> DEFINE t == Validate(fn, calls, nonce, TRUE)
<1> DEFINE m == ValidateMetadata(nonce)
<1> t.kind = "validate" /\ t.request.calls = calls /\ t.request.metadata = m
  BY DEF Validate
<1> HIDE DEF t
<1>1. Accepts(p, t, sig)
  <2>1. sig = sign_transaction(calls, m, p.address, "SN_MAIN")
    BY MetadataRead DEF SN_CHAIN_ID
  <2>2. Accepts(p, t, sig) <=>
          transaction_msg_hash(calls, m, "SN_MAIN", p.address, ETH_CHAIN_ID)
            = transaction_msg_hash(calls, m, "SN_MAIN", p.address, ETH_CHAIN_ID)
    BY <2>1, ValidateAccepted
  <2> QED  BY <2>2
<1>2. t.valid = TRUE /\ t.fn = fn /\ Accepts(p, t, sig) \in BOOLEAN
  BY DEF Validate, Accepts, t
<1> HIDE DEF t
<1>3. Accepts(p, t, sig) = TRUE
  BY <1>1, <1>2
<1> QED  BY <1>2, <1>3 DEF TestPasses, t

LEMMA ValidateFails ==
  ASSUME NEW p, NEW fn, NEW calls, NEW nonce, NEW sig, fn # "get_outside_execution_signature",
         NEW signed, NEW used, NEW chain, chain # "SN_MAIN" \/ used # nonce,
         sig = sign_transaction(signed, build_validate_metadata(used), p.address, chain)
  PROVE  TestPasses(p, Validate(fn, calls, nonce, FALSE), sig)
<1> DEFINE t == Validate(fn, calls, nonce, FALSE)
           m == ValidateMetadata(nonce)
           u == build_validate_metadata(used)
<1>1. m.nonce = nonce /\ u.nonce = used
  BY DEF ValidateMetadata, build_validate_metadata
<1> /\ t.kind = "validate" /\ t.request.calls = calls /\ t.request.metadata = m
  BY DEF Validate
<1> HIDE DEF t
<1>2. ~Accepts(p, t, sig)
  <2>1. Accepts(p, t, sig) =>
          transaction_msg_hash(calls, m, "SN_MAIN", p.address, ETH_CHAIN_ID)
            = transaction_msg_hash(signed, u, chain, p.address, ETH_CHAIN_ID)
    BY ValidateAccepted
  <2> HIDE DEF m, u
  <2>2. transaction_msg_hash(calls, m, "SN_MAIN", p.address, ETH_CHAIN_ID)
          = transaction_msg_hash(signed, u, chain, p.address, ETH_CHAIN_ID) =>
            "SN_MAIN" = chain /\ m.nonce = u.nonce
    BY HashesApart
  <2> QED  BY <1>1, <2>1, <2>2
<1>3. t.valid = FALSE /\ t.fn = fn /\ Accepts(p, t, sig) \in BOOLEAN
  BY DEF Validate, Accepts, t
<1> HIDE DEF t
<1>4. Accepts(p, t, sig) = FALSE
  BY <1>2, <1>3
<1> QED  BY <1>3, <1>4 DEF TestPasses, t

-----------------------------------------------------------------------------
(* The tests find the functions of the block.                              *)

\* There is one function called name.
OneOf(content, name) == Cardinality({i \in Functions(content) : content[i].fn = name}) = 1

LEMMA FunctionFound ==
  ASSUME NEW p \in Parameters, NEW f \in Seq(Token), Holds(f, BlockOf(p)), NEW j \in 1..13,
         NEW t, OneOf(f, t.fn), generate_all_signatures(p)[j].fn = t.fn
  PROVE  SignatureOf(f, t) = generate_all_signatures(p)[j].felts
<1> DEFINE b == BlockOf(p)
           fs == generate_all_signatures(p)
           Called == {i \in Functions(f) : f[i].fn = t.fn}
<1>1. Len(b) = 16 /\ \A i \in 1..13 : b[1 + i] = fs[i]
  BY BlockType
<1>2. PICK k \in 0..Len(f) : k + Len(b) <= Len(f) /\ \A i \in 1..Len(b) : f[k + i] = b[i]
  BY DEF Holds
<1>3. Len(f) \in Nat /\ DOMAIN f = 1..Len(f)
  BY LenProperties
<1>4. "fn" \in DOMAIN fs[j]
  BY SignaturesMade, FunctionNoMarker
<1>5. fs[j].fn = t.fn
  OBVIOUS
<1> HIDE DEF b, fs
<1> DEFINE x == k + (1 + j)
<1>6. 1 + j \in 1..Len(b) /\ x \in 1..Len(f)
  BY <1>1, <1>2, <1>3, SMTT(30)
<1>7. f[x] = fs[j]
  BY <1>1, <1>2, <1>6
<1> HIDE DEF x
<1>8. x \in Called
  BY <1>3, <1>4, <1>5, <1>6, <1>7 DEF Functions
<1>9. IsFiniteSet(Called)
  <2>1. Called \subseteq 1..Len(f)
    BY <1>3 DEF Functions
  <2>2. IsFiniteSet(1..Len(f))
    BY <1>3, FS_Interval
  <2> QED  BY <2>1, <2>2, FS_Subset
<1>10. Cardinality(Called) = 1
  BY DEF OneOf
<1>11. \A i \in Called : i = x
  <2> HIDE DEF Called
  <2>1. PICK y : Called = {y}
    BY <1>9, <1>10, FS_Singleton
  <2> QED  BY <1>8, <2>1
<1>12. (CHOOSE i \in Functions(f) : f[i].fn = t.fn) = x
  BY <1>8, <1>11
<1> QED  BY <1>7, <1>12 DEF SignatureOf, fs

LEMMA OneOfEach ==
  ASSUME NEW f, Compiles(f)
  PROVE  \A p : \A t \in OutsideTests(p) \cup ValidateTests(p) \cup UpgradeTests(p) : OneOf(f, t.fn)
<1>1. \A t \in OutsideTests(Committed) \cup ValidateTests(Committed) \cup UpgradeTests(Committed) :
        OneOf(f, t.fn)
  BY DEF Compiles, OneOf
<1>2. ASSUME NEW p, NEW t \in OutsideTests(p)
      PROVE  \E u \in OutsideTests(Committed) : u.fn = t.fn
  BY DEF OutsideTests, Outside
<1>3. ASSUME NEW p, NEW t \in ValidateTests(p)
      PROVE  \E u \in ValidateTests(Committed) : u.fn = t.fn
  BY DEF ValidateTests, Validate
<1>4. ASSUME NEW p, NEW t \in UpgradeTests(p)
      PROVE  \E u \in UpgradeTests(Committed) : u.fn = t.fn
  BY DEF UpgradeTests, Outside, Validate
<1>5. ASSUME NEW p, NEW t \in OutsideTests(p) \cup ValidateTests(p) \cup UpgradeTests(p)
      PROVE  OneOf(f, t.fn)
  <2>1. \E u \in OutsideTests(Committed) \cup ValidateTests(Committed) \cup UpgradeTests(Committed) :
          u.fn = t.fn
    BY <1>2, <1>3, <1>4
  <2> QED  BY <1>1, <2>1
<1> QED  BY <1>5

Named(fs) ==
  /\ fs[1].fn = "get_outside_execution_signature"
  /\ fs[2].fn = "get_signature_evm_chain_id_2"
  /\ fs[3].fn = "get_signature_wrong_sn_chain_name"
  /\ fs[4].fn = "get_signature_wrong_contract_address"
  /\ fs[5].fn = "get_single_call_approve_signature"
  /\ fs[6].fn = "get_multi_call_signature"
  /\ fs[7].fn = "get_atomicity_test_signature"
  /\ fs[8].fn = "get_specific_caller_signature"
  /\ fs[9].fn = "get_validate_empty_calls_signature"
  /\ fs[10].fn = "get_validate_with_approve_signature"
  /\ fs[11].fn = "get_validate_wrong_chain_signature"
  /\ fs[12].fn = "get_efo_upgrade_signature"
  /\ fs[13].fn = "get_validate_upgrade_signature"

LEMMA Written ==
  ASSUME NEW p
  PROVE  Named(generate_all_signatures(p))
BY DEF Named, generate_all_signatures, format_signature_cairo

\* What the functions answer.
Request(p, calls, nonce) == build_outside_execution_with_calls(p, calls, nonce)

SignedRequest(p, calls, nonce) ==
  sign_outside_execution(Request(p, calls, nonce), p.address, 1, SN_CHAIN_ID)

SignedValidate(p, calls, nonce, chain) ==
  sign_transaction(calls, build_validate_metadata(nonce), p.address, chain)

Answers(p, fs) ==
  /\ fs[1].felts = SignedRequest(p, <<>>, 1)
  /\ fs[2].felts = sign_outside_execution(Request(p, <<>>, 1), p.address, 2, SN_CHAIN_ID)
  /\ fs[3].felts = sign_outside_execution(Request(p, <<>>, 1), p.address, 1, "SN_SEPOLIA")
  /\ fs[4].felts =
       sign_outside_execution(Request(p, <<>>, 1), WRONG_CONTRACT_ADDRESS, 1, SN_CHAIN_ID)
  /\ fs[5].felts = SignedRequest(p, <<get_approve_call(p)>>, 100)
  /\ fs[6].felts = SignedRequest(p, <<get_approve_call(p), build_transfer_call(p, 100)>>, 101)
  /\ fs[7].felts = SignedRequest(p, <<get_approve_call(p), build_transfer_call(p, 1000 + 1)>>, 102)
  /\ fs[8].felts =
       sign_outside_execution(build_outside_execution_with_specific_caller(p, 103, 51966),
                              p.address, 1, SN_CHAIN_ID)
  /\ fs[9].felts = SignedValidate(p, <<>>, 0, SN_CHAIN_ID)
  /\ fs[10].felts = SignedValidate(p, <<get_approve_call(p)>>, 1, SN_CHAIN_ID)
  /\ fs[11].felts = SignedValidate(p, <<>>, 0, "SN_SEPOLIA")
  /\ fs[12].felts = SignedRequest(p, <<UpgradeCall(p)>>, 200)
  /\ fs[13].felts = SignedValidate(p, <<UpgradeCall(p)>>, 2, SN_CHAIN_ID)

LEMMA Answered ==
  ASSUME NEW p \in Parameters
  PROVE  Answers(p, generate_all_signatures(p))
<1> DEFINE fs == generate_all_signatures(p)
           Oe(calls, nonce) == build_oe(p, calls, nonce, ANY_CALLER)
<1>1. /\ fs[1].felts = generate_basic_outside_execution(p, p.address, ETH_CHAIN_ID, SN_CHAIN_ID)
      /\ fs[2].felts = generate_basic_outside_execution(p, p.address, 2, SN_CHAIN_ID)
      /\ fs[3].felts = generate_wrong_sn_chain_name(p)
      /\ fs[4].felts = generate_wrong_contract_address(p)
      /\ fs[5].felts = generate_single_call_approve_test(p, p.approve_amount, 100)
      /\ fs[6].felts = generate_multi_call_test(p, p.approve_amount, 100, 101)
      /\ fs[7].felts = generate_atomicity_test(p, p.approve_amount, 1000 + 1, 102)
      /\ fs[8].felts = generate_specific_caller_test(p, SPECIFIC_CALLER, 103)
      /\ fs[9].felts = generate_validate_empty_calls(p)
      /\ fs[10].felts = generate_validate_with_approve(p, p.approve_amount, 1)
      /\ fs[11].felts = generate_validate_wrong_chain(p)
      /\ fs[12].felts = generate_efo_upgrade_test(p, 200)
      /\ fs[13].felts = generate_validate_upgrade(p, 2)
  BY DEF generate_all_signatures, format_signature_cairo
<1>2. \A calls, nonce : build_oe(p, calls, nonce, ANY_CALLER) = Request(p, calls, nonce)
  BY OutsideRead DEF Request
<1>3. /\ approve_call(p.token, TEST_SPENDER, p.approve_amount) = get_approve_call(p)
      /\ transfer_call(p.token, TEST_RECIPIENT, 100) = build_transfer_call(p, 100)
      /\ transfer_call(p.token, TEST_RECIPIENT, 1000 + 1) = build_transfer_call(p, 1000 + 1)
      /\ upgrade_call(p.address, p.class_hash) = UpgradeCall(p)
  BY CallsRead
<1>4. ETH_CHAIN_ID = 1 /\ TEST_NONCE = 1 /\ SPECIFIC_CALLER = 51966
  BY DEF ETH_CHAIN_ID, TEST_NONCE, SPECIFIC_CALLER
<1> HIDE DEF fs
<1>5. \A address, evm, chain :
        generate_basic_outside_execution(p, address, evm, chain)
          = sign_outside_execution(Request(p, <<>>, 1), address, evm, chain)
  BY <1>2, <1>4 DEF generate_basic_outside_execution
<1>6. \A calls, nonce : OutsideSignature(p, calls, nonce) = SignedRequest(p, calls, nonce)
  BY <1>2, <1>4 DEF OutsideSignature, SignedRequest
<1>7. /\ fs[1].felts = SignedRequest(p, <<>>, 1)
      /\ fs[2].felts = sign_outside_execution(Request(p, <<>>, 1), p.address, 2, SN_CHAIN_ID)
  BY <1>1, <1>4, <1>5 DEF SignedRequest
<1>8. /\ fs[3].felts = sign_outside_execution(Request(p, <<>>, 1), p.address, 1, "SN_SEPOLIA")
      /\ fs[4].felts =
           sign_outside_execution(Request(p, <<>>, 1), WRONG_CONTRACT_ADDRESS, 1, SN_CHAIN_ID)
  BY <1>1, <1>4, <1>5 DEF generate_wrong_sn_chain_name, generate_wrong_contract_address
<1>9. fs[5].felts = SignedRequest(p, <<get_approve_call(p)>>, 100)
  BY <1>1, <1>3, <1>6 DEF generate_single_call_approve_test
<1>10. fs[6].felts = SignedRequest(p, <<get_approve_call(p), build_transfer_call(p, 100)>>, 101)
  BY <1>1, <1>3, <1>6 DEF generate_multi_call_test
<1>11. fs[7].felts =
         SignedRequest(p, <<get_approve_call(p), build_transfer_call(p, 1000 + 1)>>, 102)
  BY <1>1, <1>3, <1>6 DEF generate_atomicity_test
<1>12. fs[8].felts =
         sign_outside_execution(build_outside_execution_with_specific_caller(p, 103, 51966),
                                p.address, 1, SN_CHAIN_ID)
  <2>1. build_outside_execution_with_specific_caller(p, 103, 51966) = build_oe(p, <<>>, 103, 51966)
    BY OutsideRead
  <2> QED  BY <1>1, <1>4, <2>1 DEF generate_specific_caller_test
<1>13. fs[12].felts = SignedRequest(p, <<UpgradeCall(p)>>, 200)
  BY <1>1, <1>3, <1>6 DEF generate_efo_upgrade_test
<1>14. /\ fs[9].felts = SignedValidate(p, <<>>, 0, SN_CHAIN_ID)
       /\ fs[10].felts = SignedValidate(p, <<get_approve_call(p)>>, 1, SN_CHAIN_ID)
       /\ fs[11].felts = SignedValidate(p, <<>>, 0, "SN_SEPOLIA")
       /\ fs[13].felts = SignedValidate(p, <<UpgradeCall(p)>>, 2, SN_CHAIN_ID)
  BY <1>1, <1>3 DEF generate_validate_empty_calls, generate_validate_with_approve,
     generate_validate_wrong_chain, generate_validate_upgrade, SignedValidate
<1>15. Answers(p, fs)
  BY <1>7, <1>8, <1>9, <1>10, <1>11, <1>12, <1>13, <1>14 DEF Answers
<1> QED  BY <1>15 DEF fs

\* A function of the block is called as t asks, and what it answers makes t come out well.
Covered(p, t) ==
  \E j \in 1..13 : /\ generate_all_signatures(p)[j].fn = t.fn
                   /\ TestPasses(p, t, generate_all_signatures(p)[j].felts)

LEMMA OutsideCovered ==
  ASSUME NEW p \in Parameters, NEW t \in OutsideTests(p)
  PROVE  Covered(p, t)
<1> DEFINE fs == generate_all_signatures(p)
           empty == build_outside_execution_with_calls(p, <<>>, 1)
           test1 == Outside("get_outside_execution_signature", empty, TRUE)
           test2 == Outside("get_signature_evm_chain_id_2", empty, TRUE)
           test3 == Outside("get_signature_wrong_sn_chain_name", empty, FALSE)
           test4 == Outside("get_signature_wrong_contract_address", empty, FALSE)
           test5 == Outside("get_single_call_approve_signature",
                      build_outside_execution_with_calls(p, <<get_approve_call(p)>>, 100), TRUE)
           test6 == Outside("get_multi_call_signature",
                      build_outside_execution_with_calls(
                        p, <<get_approve_call(p), build_transfer_call(p, 100)>>, 101), TRUE)
           test7 == Outside("get_atomicity_test_signature",
                      build_outside_execution_with_calls(
                        p, <<get_approve_call(p), build_transfer_call(p, 1000 + 1)>>, 102), TRUE)
           test8 == Outside("get_specific_caller_signature",
                      build_outside_execution_with_specific_caller(p, 103, 51966), TRUE)
<1> Answers(p, fs) /\ Named(fs)
  BY Answered, Written
<1>9. OutsideTests(p) = {test1, test2, test3, test4, test5, test6, test7, test8}
  BY DEF OutsideTests
<1> HIDE DEF fs, test1, test2, test3, test4, test5, test6, test7, test8
<1>0. \A j \in 1..13 : fs[j].fn = t.fn /\ TestPasses(p, t, fs[j].felts) => Covered(p, t)
  BY DEF Covered, fs
<1>1. CASE t = test1
  <2>1. fs[1].felts = SignedRequest(p, <<>>, 1)
    BY DEF Answers
  <2>2. TestPasses(p, t, fs[1].felts)
    <3>1. fs[1].felts = sign_outside_execution(empty, p.address, 1, SN_CHAIN_ID)
      BY <2>1 DEF SignedRequest, Request
    <3>2. 1 # 2
      OBVIOUS
    <3> HIDE DEF empty
    <3>3. TestPasses(p, Outside("get_outside_execution_signature", empty, TRUE), fs[1].felts)
      BY <3>1, <3>2, OutsidePasses
    <3> QED  BY <1>1, <3>3 DEF test1
  <2>3. fs[1].fn = t.fn
    BY <1>1 DEF test1, Named, Outside
  <2> QED  BY <1>0, <2>2, <2>3
<1>2. CASE t = test2
  <2>1. fs[2].felts = sign_outside_execution(Request(p, <<>>, 1), p.address, 2, SN_CHAIN_ID)
    BY DEF Answers
  <2>2. TestPasses(p, t, fs[2].felts)
    BY <1>2, <2>1, OutsidePasses DEF test2, Request
  <2>3. fs[2].fn = t.fn
    BY <1>2 DEF test2, Named, Outside
  <2> QED  BY <1>0, <2>2, <2>3
<1>3. CASE t = test3
  <2>1. fs[3].felts = sign_outside_execution(Request(p, <<>>, 1), p.address, 1, "SN_SEPOLIA")
    BY DEF Answers
  <2>2. TestPasses(p, t, fs[3].felts)
    <3>1. fs[3].felts = sign_outside_execution(empty, p.address, 1, "SN_SEPOLIA")
      BY <2>1 DEF Request
    <3>2. "SN_SEPOLIA" # "SN_MAIN"
      OBVIOUS
    <3> HIDE DEF empty
    <3>3. TestPasses(p, Outside("get_signature_wrong_sn_chain_name", empty, FALSE), fs[3].felts)
      BY <3>1, <3>2, OutsideFails
    <3> QED  BY <1>3, <3>3 DEF test3
  <2>3. fs[3].fn = t.fn
    BY <1>3 DEF test3, Named, Outside
  <2> QED  BY <1>0, <2>2, <2>3
<1>4. CASE t = test4
  <2>1. LowHalf(WRONG_CONTRACT_ADDRESS) # LowHalf(p.address)
    BY GeneratorAssumption
  <2>2. fs[4].felts =
         sign_outside_execution(Request(p, <<>>, 1), WRONG_CONTRACT_ADDRESS, 1, SN_CHAIN_ID)
    BY DEF Answers
  <2>3. TestPasses(p, t, fs[4].felts)
    BY <1>4, <2>1, <2>2, OutsideFails DEF test4, Request
  <2>4. fs[4].fn = t.fn
    BY <1>4 DEF test4, Named, Outside
  <2> QED  BY <1>0, <2>3, <2>4
<1>5. CASE t = test5
  <2>1. fs[5].felts = SignedRequest(p, <<get_approve_call(p)>>, 100)
    BY DEF Answers
  <2>2. TestPasses(p, t, fs[5].felts)
    BY <1>5, <2>1, OutsidePasses DEF test5, SignedRequest, Request
  <2>3. fs[5].fn = t.fn
    BY <1>5 DEF test5, Named, Outside
  <2> QED  BY <1>0, <2>2, <2>3
<1>6. CASE t = test6
  <2>1. fs[6].felts = SignedRequest(p, <<get_approve_call(p), build_transfer_call(p, 100)>>, 101)
    BY DEF Answers
  <2>2. TestPasses(p, t, fs[6].felts)
    BY <1>6, <2>1, OutsidePasses DEF test6, SignedRequest, Request
  <2>3. fs[6].fn = t.fn
    BY <1>6 DEF test6, Named, Outside
  <2> QED  BY <1>0, <2>2, <2>3
<1>7. CASE t = test7
  <2>1. fs[7].felts =
         SignedRequest(p, <<get_approve_call(p), build_transfer_call(p, 1000 + 1)>>, 102)
    BY DEF Answers
  <2>2. TestPasses(p, t, fs[7].felts)
    <3> DEFINE oe == build_outside_execution_with_calls(
                       p, <<get_approve_call(p), build_transfer_call(p, 1000 + 1)>>, 102)
    <3>1. fs[7].felts = sign_outside_execution(oe, p.address, 1, SN_CHAIN_ID)
      BY <2>1 DEF SignedRequest, Request
    <3>2. t = Outside("get_atomicity_test_signature", oe, TRUE)
      BY <1>7 DEF test7
    <3> HIDE DEF oe
    <3>3. TestPasses(p, Outside("get_atomicity_test_signature", oe, TRUE), fs[7].felts)
      BY <3>1, OutsidePasses
    <3> QED  BY <3>2, <3>3
  <2>3. fs[7].fn = t.fn
    BY <1>7 DEF test7, Named, Outside
  <2> QED  BY <1>0, <2>2, <2>3
<1>8. CASE t = test8
  <2>1. fs[8].felts =
         sign_outside_execution(build_outside_execution_with_specific_caller(p, 103, 51966),
                                p.address, 1, SN_CHAIN_ID)
    BY DEF Answers
  <2>2. TestPasses(p, t, fs[8].felts)
    <3> DEFINE oe == build_outside_execution_with_specific_caller(p, 103, 51966)
    <3>1. fs[8].felts = sign_outside_execution(oe, p.address, 1, SN_CHAIN_ID)
      BY <2>1
    <3>2. t = Outside("get_specific_caller_signature", oe, TRUE)
      BY <1>8 DEF test8
    <3> HIDE DEF oe
    <3>3. TestPasses(p, Outside("get_specific_caller_signature", oe, TRUE), fs[8].felts)
      BY <3>1, OutsidePasses
    <3> QED  BY <3>2, <3>3
  <2>3. fs[8].fn = t.fn
    BY <1>8 DEF test8, Named, Outside
  <2> QED  BY <1>0, <2>2, <2>3
<1> QED  BY <1>1, <1>2, <1>3, <1>4, <1>5, <1>6, <1>7, <1>8, <1>9

LEMMA ValidateCovered ==
  ASSUME NEW p \in Parameters, NEW t \in ValidateTests(p)
  PROVE  Covered(p, t)
<1> DEFINE fs == generate_all_signatures(p)
<1> Answers(p, fs) /\ Named(fs)
  BY Answered, Written
<1> HIDE DEF fs
<1>0. \A j \in 1..13 : fs[j].fn = t.fn /\ TestPasses(p, t, fs[j].felts) => Covered(p, t)
  BY DEF Covered, fs
<1>1. CASE t = Validate("get_validate_empty_calls_signature", <<>>, 0, TRUE)
  <2>1. fs[9].felts = SignedValidate(p, <<>>, 0, SN_CHAIN_ID)
    BY DEF Answers
  <2>2. TestPasses(p, t, fs[9].felts)
    BY <1>1, <2>1, ValidatePasses DEF SignedValidate
  <2>3. fs[9].fn = t.fn
    BY <1>1 DEF Named, Validate
  <2> QED  BY <1>0, <2>2, <2>3
<1>2. CASE t = Validate("get_validate_empty_calls_signature", <<>>, 999, FALSE)
  <2>1. fs[9].felts = SignedValidate(p, <<>>, 0, SN_CHAIN_ID)
    BY DEF Answers
  <2>2. TestPasses(p, t, fs[9].felts)
    <3> DEFINE fn == "get_validate_empty_calls_signature"
               none == <<>>
               used == 0
               asked == 999
    <3>1. used # asked /\ fn # "get_outside_execution_signature"
      OBVIOUS
    <3>2. fs[9].felts = sign_transaction(none, build_validate_metadata(used), p.address, SN_CHAIN_ID)
      BY <2>1 DEF SignedValidate
    <3>3. t = Validate(fn, none, asked, FALSE)
      BY <1>2
    <3> HIDE DEF fn, none, used, asked
    <3>4. TestPasses(p, Validate(fn, none, asked, FALSE), fs[9].felts)
      BY <3>1, <3>2, ValidateFails
    <3> QED  BY <3>3, <3>4
  <2>3. fs[9].fn = t.fn
    BY <1>2 DEF Named, Validate
  <2> QED  BY <1>0, <2>2, <2>3
<1>3. CASE t = Validate("get_validate_with_approve_signature", <<get_approve_call(p)>>, 1, TRUE)
  <2>1. fs[10].felts = SignedValidate(p, <<get_approve_call(p)>>, 1, SN_CHAIN_ID)
    BY DEF Answers
  <2>2. TestPasses(p, t, fs[10].felts)
    BY <1>3, <2>1, ValidatePasses DEF SignedValidate
  <2>3. fs[10].fn = t.fn
    BY <1>3 DEF Named, Validate
  <2> QED  BY <1>0, <2>2, <2>3
<1>4. CASE t = Validate("get_validate_wrong_chain_signature", <<>>, 0, FALSE)
  <2>1. fs[11].felts = SignedValidate(p, <<>>, 0, "SN_SEPOLIA")
    BY DEF Answers
  <2>2. TestPasses(p, t, fs[11].felts)
    BY <1>4, <2>1, ValidateFails DEF SignedValidate
  <2>3. fs[11].fn = t.fn
    BY <1>4 DEF Named, Validate
  <2> QED  BY <1>0, <2>2, <2>3
<1> QED  BY <1>1, <1>2, <1>3, <1>4, ZenonT(90) DEF ValidateTests

LEMMA UpgradeCovered ==
  ASSUME NEW p \in Parameters, NEW t \in UpgradeTests(p)
  PROVE  Covered(p, t)
<1> DEFINE fs == generate_all_signatures(p)
<1> Answers(p, fs) /\ Named(fs)
  BY Answered, Written
<1> HIDE DEF fs
<1>0. \A j \in 1..13 : fs[j].fn = t.fn /\ TestPasses(p, t, fs[j].felts) => Covered(p, t)
  BY DEF Covered, fs
<1>1. CASE t = Outside("get_efo_upgrade_signature",
                       build_outside_execution_with_calls(p, <<UpgradeCall(p)>>, 200), TRUE)
  <2>1. fs[12].felts = SignedRequest(p, <<UpgradeCall(p)>>, 200)
    BY DEF Answers
  <2>2. TestPasses(p, t, fs[12].felts)
    BY <1>1, <2>1, OutsidePasses DEF SignedRequest, Request
  <2>3. fs[12].fn = t.fn
    BY <1>1 DEF Named, Outside
  <2> QED  BY <1>0, <2>2, <2>3
<1>2. CASE t = Validate("get_validate_upgrade_signature", <<UpgradeCall(p)>>, 2, TRUE)
  <2>1. fs[13].felts = SignedValidate(p, <<UpgradeCall(p)>>, 2, SN_CHAIN_ID)
    BY DEF Answers
  <2>2. TestPasses(p, t, fs[13].felts)
    BY <1>2, <2>1, ValidatePasses DEF SignedValidate
  <2>3. fs[13].fn = t.fn
    BY <1>2 DEF Named, Validate
  <2> QED  BY <1>0, <2>2, <2>3
<1> QED  BY <1>1, <1>2 DEF UpgradeTests

\* A run of the script that comes to its end undisturbed leaves signatures with which the
\* account's tests come out as they should (write_signatures_to_file, test.cairo).
THEOREM RegeneratedTestsPass == Spec => []TestsPass
<1>1. IInv => TestsPass
  <2> SUFFICES ASSUME IInv, NEW r \in Runs, Regenerated(r)
               PROVE  \A t \in OutsideTests(run[r].p) \cup ValidateTests(run[r].p)
                                 \cup UpgradeTests(run[r].p) :
                        TestPasses(run[r].p, t, SignatureOf(file, t))
    BY DEF TestsPass
  <2> DEFINE p == run[r].p
  <2>1. run[r].phase \in {"unchanged", "updated"} /\ run[r].quiet /\ Compiles(file)
    BY DEF Regenerated
  <2>2. run[r] \in RunType /\ file \in Seq(Token) /\ InPlace(run[r], file)
    BY DEF IInv, TypeOK, RunsInOrder
  <2>3. run[r] \in DoneRun
    BY <2>1, <2>2 DEF RunType, Idle, GeneratedRun, WritingRun, KilledRun
  <2>4. p \in Parameters
    BY <2>3 DEF DoneRun
  <2>5. Holds(file, BlockOf(p))
    BY <2>1, <2>2 DEF InPlace
  <2> HIDE DEF p
  <2>6. ASSUME NEW t \in OutsideTests(p) \cup ValidateTests(p) \cup UpgradeTests(p)
        PROVE  TestPasses(p, t, SignatureOf(file, t))
    <3>1. OneOf(file, t.fn)
      BY <2>1, OneOfEach
    <3>2. Covered(p, t)
      BY <2>4, OutsideCovered, ValidateCovered, UpgradeCovered
    <3>3. PICK j \in 1..13 : /\ generate_all_signatures(p)[j].fn = t.fn
                             /\ TestPasses(p, t, generate_all_signatures(p)[j].felts)
      BY <3>2 DEF Covered
    <3>4. SignatureOf(file, t) = generate_all_signatures(p)[j].felts
      BY <2>2, <2>4, <2>5, <3>1, <3>3, FunctionFound
    <3> QED  BY <3>3, <3>4
  <2> QED  BY <2>6 DEF p
<1> QED  BY <1>1, InvariantHolds, PTL
=============================================================================
