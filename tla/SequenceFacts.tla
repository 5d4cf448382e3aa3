--------------------------- MODULE SequenceFacts ----------------------------
(***************************************************************************)
(* What the proofs say of queues: which elements are in a sequence, and    *)
(* which are before or after those of a kind, and what Append(), Tail()    *)
(* and \o do to that; and induction over numbers, with which recursive     *)
(* functions are reasoned about.                                           *)
(***************************************************************************)
EXTENDS Integers, Sequences, SequenceTheorems, WellFoundedInduction, TLAPS

InSeq(x, s) == \E i \in DOMAIN s : s[i] = x

\* An element of the kind k is in s.
Has(s, k) == \E i \in DOMAIN s : s[i].kind = k

\* The elements of s that have none of the kind k before them.
Ahead(s, k) == {s[i] : i \in {n \in DOMAIN s : \A j \in DOMAIN s : j < n => s[j].kind # k}}

\* The last element of s of the kind k, if there is one.
LastOf(s, k) == {s[i] : i \in {n \in DOMAIN s :
                 s[n].kind = k /\ \A j \in DOMAIN s : j > n => s[j].kind # k}}

\* What Append() does to these views of a sequence.
LEMMA AppendFacts ==
    ASSUME NEW S, NEW s \in Seq(S), NEW e \in S
    PROVE  /\ Append(s, e) \in Seq(S)
           /\ s \o <<e>> = Append(s, e)
           /\ \A x : InSeq(x, Append(s, e)) <=> (InSeq(x, s) \/ x = e)
           /\ \A k : Has(Append(s, e), k) <=> (Has(s, k) \/ e.kind = k)
  <1>1. PICK n \in Nat : n = Len(s)
    OBVIOUS
  <1>2. /\ Append(s, e) \in Seq(S) /\ DOMAIN s = 1..n
        /\ DOMAIN Append(s, e) = 1..(n + 1) /\ Append(s, e)[n + 1] = e
        /\ \A i \in 1..n : Append(s, e)[i] = s[i]
    BY <1>1
  <1>3. s \o <<e>> = Append(s, e)
    OBVIOUS
  <1>4. 1..(n + 1) = 1..n \cup {n + 1}
    OBVIOUS
  <1>5. \A x : InSeq(x, Append(s, e)) <=> (InSeq(x, s) \/ x = e)
    BY <1>2, <1>4 DEF InSeq
  <1>6. \A k : Has(Append(s, e), k) <=> (Has(s, k) \/ e.kind = k)
    BY <1>2, <1>4 DEF Has
  <1> QED
    BY <1>2, <1>3, <1>5, <1>6

\* What Append() does to the elements before and after those of a kind.
LEMMA AppendOrder ==
    ASSUME NEW S, NEW s \in Seq(S), NEW e \in S, NEW k
    PROVE  /\ \A x \in Ahead(Append(s, e), k) : x \in Ahead(s, k) \/ (x = e /\ ~Has(s, k))
           /\ \A x \in LastOf(Append(s, e), k) :
                  IF e.kind = k THEN x = e ELSE x \in LastOf(s, k)
  <1>1. PICK n \in Nat : n = Len(s)
    OBVIOUS
  <1>2. PICK t : t = Append(s, e)
    OBVIOUS
  <1>3. /\ DOMAIN s = 1..n
        /\ DOMAIN t = 1..(n + 1) /\ t[n + 1] = e
        /\ \A i \in 1..n : t[i] = s[i]
    BY <1>1, <1>2
  <1>4. ASSUME NEW x \in Ahead(t, k)
        PROVE  x \in Ahead(s, k) \/ (x = e /\ ~Has(s, k))
    <2>1. PICK i \in 1..(n + 1) : x = t[i] /\ \A j \in 1..(n + 1) : j < i => t[j].kind # k
      BY <1>3, <1>4 DEF Ahead
    <2>2. CASE i \in 1..n
      <3>1. x = s[i] /\ \A j \in 1..n : j < i => s[j].kind # k
        BY <1>3, <2>1, <2>2
      <3> QED
        BY <1>3, <2>2, <3>1 DEF Ahead
    <2>3. CASE i = n + 1
      <3>1. x = e /\ \A j \in 1..n : s[j].kind # k
        BY <1>3, <2>1, <2>3
      <3> QED
        BY <1>3, <3>1 DEF Has
    <2> QED
      BY <2>2, <2>3
  <1>5. ASSUME NEW x \in LastOf(t, k)
        PROVE  IF e.kind = k THEN x = e ELSE x \in LastOf(s, k)
    <2>1. PICK i \in 1..(n + 1) : x = t[i] /\ t[i].kind = k
                                  /\ \A j \in 1..(n + 1) : j > i => t[j].kind # k
      BY <1>3, <1>5 DEF LastOf
    <2>2. CASE i \in 1..n
      <3>1. e.kind # k
        BY <1>3, <2>1, <2>2
      <3>2. x = s[i] /\ s[i].kind = k /\ \A j \in 1..n : j > i => s[j].kind # k
        BY <1>3, <2>1, <2>2
      <3> QED
        BY <1>3, <2>2, <3>1, <3>2 DEF LastOf
    <2>3. CASE i = n + 1
      BY <1>3, <2>1, <2>3
    <2> QED
      BY <2>2, <2>3
  <1> QED
    BY <1>2, <1>4, <1>5

\* What Tail() does to these views of a sequence.
LEMMA TailFacts ==
    ASSUME NEW S, NEW s \in Seq(S), s # <<>>
    PROVE  /\ Head(s) \in S /\ Tail(s) \in Seq(S)
           /\ \A x : InSeq(x, s) <=> (x = Head(s) \/ InSeq(x, Tail(s)))
           /\ \A k : Has(s, k) <=> (Head(s).kind = k \/ Has(Tail(s), k))
  <1>1. PICK n \in Nat : n = Len(s)
    OBVIOUS
  <1>2. PICK t : t = Tail(s)
    OBVIOUS
  <1>3. n > 0 /\ Head(s) \in S /\ t \in Seq(S) /\ Head(s) = s[1]
    BY <1>1, <1>2, EmptySeq
  <1>4. DOMAIN s = 1..n /\ DOMAIN t = 1..(n - 1) /\ \A i \in 1..(n - 1) : t[i] = s[i + 1]
    BY <1>1, <1>2, <1>3, HeadTailProperties
  <1>5. \A i \in 1..n : i = 1 \/ (i - 1 \in 1..(n - 1) /\ t[i - 1] = s[i])
    BY <1>3, <1>4
  <1>6. \A x : InSeq(x, s) <=> (x = Head(s) \/ InSeq(x, t))
    <2>1. ASSUME NEW x, InSeq(x, s) PROVE x = Head(s) \/ InSeq(x, t)
      BY <1>3, <1>4, <1>5, <2>1 DEF InSeq
    <2>2. ASSUME NEW x, InSeq(x, t) PROVE InSeq(x, s)
      BY <1>3, <1>4, <2>2 DEF InSeq
    <2>3. InSeq(Head(s), s)
      BY <1>3, <1>4 DEF InSeq
    <2> QED
      BY <2>1, <2>2, <2>3
  <1>7. \A k : Has(s, k) <=> (Head(s).kind = k \/ Has(t, k))
    <2>1. ASSUME NEW k, Has(s, k) PROVE Head(s).kind = k \/ Has(t, k)
      BY <1>3, <1>4, <1>5, <2>1 DEF Has
    <2>2. ASSUME NEW k, Has(t, k) PROVE Has(s, k)
      BY <1>3, <1>4, <2>2 DEF Has
    <2>3. ASSUME NEW k, Head(s).kind = k PROVE Has(s, k)
      BY <1>3, <1>4, <2>3 DEF Has
    <2> QED
      BY <2>1, <2>2, <2>3
  <1> QED
    BY <1>2, <1>3, <1>6, <1>7

\* What Tail() does to the elements before and after those of a kind.
LEMMA TailOrder ==
    ASSUME NEW S, NEW s \in Seq(S), s # <<>>, NEW k
    PROVE  /\ Head(s) \in Ahead(s, k)
           /\ Head(s).kind # k => \A x \in Ahead(Tail(s), k) : x \in Ahead(s, k)
           /\ \A x \in LastOf(Tail(s), k) : x \in LastOf(s, k)
           /\ Head(s).kind = k /\ ~Has(Tail(s), k) => Head(s) \in LastOf(s, k)
  <1>1. PICK n \in Nat : n = Len(s)
    OBVIOUS
  <1>2. PICK t : t = Tail(s)
    OBVIOUS
  <1>3. n > 0 /\ t \in Seq(S) /\ Head(s) = s[1]
    BY <1>1, <1>2, EmptySeq
  <1>4. DOMAIN s = 1..n /\ DOMAIN t = 1..(n - 1) /\ \A i \in 1..(n - 1) : t[i] = s[i + 1]
    BY <1>1, <1>2, <1>3, HeadTailProperties
  <1>5. \A i \in 1..n : i = 1 \/ (i - 1 \in 1..(n - 1) /\ t[i - 1] = s[i])
    BY <1>3, <1>4
  <1>6. Head(s) \in Ahead(s, k)
    <2>1. 1 \in DOMAIN s /\ \A j \in DOMAIN s : j < 1 => s[j].kind # k
      BY <1>3, <1>4
    <2> QED
      BY <1>3, <2>1 DEF Ahead
  <1>7. ASSUME Head(s).kind # k, NEW x \in Ahead(t, k) PROVE x \in Ahead(s, k)
    <2>1. PICK i \in 1..(n - 1) : x = t[i] /\ \A j \in 1..(n - 1) : j < i => t[j].kind # k
      BY <1>4, <1>7 DEF Ahead
    <2>2. i + 1 \in 1..n /\ x = s[i + 1]
      BY <1>3, <1>4, <2>1
    <2>3. \A j \in 1..n : j < i + 1 => s[j].kind # k
      BY <1>3, <1>5, <1>7, <2>1
    <2> QED
      BY <1>4, <2>2, <2>3 DEF Ahead
  <1>8. ASSUME NEW x \in LastOf(t, k) PROVE x \in LastOf(s, k)
    <2>1. PICK i \in 1..(n - 1) : x = t[i] /\ t[i].kind = k
                                  /\ \A j \in 1..(n - 1) : j > i => t[j].kind # k
      BY <1>4, <1>8 DEF LastOf
    <2>2. i + 1 \in 1..n /\ x = s[i + 1]
      BY <1>3, <1>4, <2>1
    <2>3. ASSUME NEW j \in 1..n, j > i + 1 PROVE s[j].kind # k
      <3>1. j - 1 \in 1..(n - 1) /\ t[j - 1] = s[j] /\ j - 1 > i
        BY <1>3, <1>5, <2>1, <2>3
      <3> QED
        BY <2>1, <3>1
    <2> QED
      BY <1>4, <2>1, <2>2, <2>3 DEF LastOf
  <1>9. ASSUME Head(s).kind = k, ~Has(t, k) PROVE Head(s) \in LastOf(s, k)
    <2>1. ASSUME NEW j \in 1..n, j > 1 PROVE s[j].kind # k
      <3>1. j - 1 \in 1..(n - 1) /\ t[j - 1] = s[j]
        BY <1>3, <1>5, <2>1
      <3> QED
        BY <1>4, <1>9, <3>1 DEF Has
    <2>2. 1 \in 1..n
      BY <1>3
    <2> QED
      BY <1>3, <1>4, <1>9, <2>1, <2>2 DEF LastOf
  <1> QED
    BY <1>2, <1>6, <1>7, <1>8, <1>9

\* Nothing is in the empty sequence.
LEMMA EmptyFacts ==
    ASSUME NEW S
    PROVE  /\ <<>> \in Seq(S)
           /\ \A x : ~InSeq(x, <<>>)
           /\ \A k : ~Has(<<>>, k) /\ Ahead(<<>>, k) = {} /\ LastOf(<<>>, k) = {}
  BY DEF InSeq, Has, Ahead, LastOf

\* What \o does to these views of sequences.
LEMMA ConcatFacts ==
    ASSUME NEW S, NEW s \in Seq(S), NEW t \in Seq(S)
    PROVE  /\ s \o t \in Seq(S)
           /\ \A x : InSeq(x, s \o t) <=> (InSeq(x, s) \/ InSeq(x, t))
  <1>1. PICK m \in Nat, n \in Nat : m = Len(s) /\ n = Len(t)
    OBVIOUS
  <1>2. PICK u : u = s \o t
    OBVIOUS
  <1>3. u \in Seq(S) /\ Len(u) = m + n
    BY <1>1, <1>2
  <1>4. /\ DOMAIN s = 1..m /\ DOMAIN t = 1..n /\ DOMAIN u = 1..(m + n)
        /\ \A i \in 1..m : u[i] = s[i]
        /\ \A i \in 1..n : u[m + i] = t[i]
    BY <1>1, <1>2, <1>3
  <1>5. \A i \in 1..(m + n) : i \in 1..m \/ (i - m \in 1..n /\ m + (i - m) = i)
    OBVIOUS
  <1>6. ASSUME NEW x, InSeq(x, u) PROVE InSeq(x, s) \/ InSeq(x, t)
    BY <1>4, <1>5, <1>6 DEF InSeq
  <1>7. ASSUME NEW x, InSeq(x, s) PROVE InSeq(x, u)
    <2>1. PICK i \in 1..m : s[i] = x
      BY <1>4, <1>7 DEF InSeq
    <2>2. i \in 1..(m + n) /\ u[i] = x
      BY <1>4, <2>1
    <2> QED
      BY <1>4, <2>2 DEF InSeq
  <1>8. ASSUME NEW x, InSeq(x, t) PROVE InSeq(x, u)
    <2>1. PICK i \in 1..n : t[i] = x
      BY <1>4, <1>8 DEF InSeq
    <2>2. m + i \in 1..(m + n) /\ u[m + i] = x
      BY <1>4, <2>1
    <2> QED
      BY <1>4, <2>2 DEF InSeq
  <1> QED
    BY <1>2, <1>3, <1>6, <1>7, <1>8

\* The only element of <<e>>.
LEMMA OneFacts ==
    ASSUME NEW S, NEW e \in S
    PROVE  <<e>> \in Seq(S) /\ \A x : InSeq(x, <<e>>) <=> x = e
  <1>1. PICK t : t = <<e>>
    OBVIOUS
  <1>2. t \in Seq(S) /\ DOMAIN t = {1} /\ t[1] = e
    BY <1>1
  <1>3. \A x : InSeq(x, t) <=> x = e
    BY <1>2 DEF InSeq
  <1> QED
    BY <1>1, <1>2, <1>3

-----------------------------------------------------------------------------
(* Induction and recursion                                                 *)

\* The order of the natural numbers.
Less == {p \in Nat \X Nat : p[1] < p[2]}

\* It is well-founded.
LEMMA LessIsWellFounded == IsWellFoundedOn(Less, Nat)
  <1>1. IsWellFoundedOn(OpToRel(<, Nat), Nat)
    BY NatLessThanWellFounded, Zenon
  <1>2. OpToRel(<, Nat) = Less
    BY DEF OpToRel, Less
  <1> QED
    BY <1>1, <1>2, Zenon

\* Every set of natural numbers has a least element.
LEMMA LeastNumber ==
    ASSUME NEW S \in SUBSET Nat, S # {}
    PROVE  \E m \in S : \A n \in S : m <= n
  <1>1. PICK m \in S : \A n \in S : ~(<<n, m>> \in Less)
    BY LessIsWellFounded, WFMin
  <1>2. \A n \in S : ~(n < m)
    BY <1>1 DEF Less
  <1>3. \A n \in S : m <= n
    BY <1>2
  <1> QED
    BY <1>3

\* Induction up to n; the property is membership in S.
LEMMA SetInduction ==
    ASSUME NEW n \in Nat, NEW S, 0 \in S, \A i \in 1..n : i - 1 \in S => i \in S
    PROVE  0..n \subseteq S
  <1> SUFFICES ASSUME ~(0..n \subseteq S) PROVE FALSE
    OBVIOUS
  <1>1. PICK T : T = {i \in 0..n : i \notin S}
    OBVIOUS
  <1>2. T \in SUBSET Nat /\ T # {}
    BY <1>1
  <1>3. PICK m \in T : \A i \in T : m <= i
    BY <1>2, LeastNumber
  <1>4. m \in 1..n /\ m \notin S
    BY <1>1, <1>3
  <1>5. m - 1 \in 0..n /\ ~(m <= m - 1)
    BY <1>4
  <1>6. m - 1 \in S
    BY <1>1, <1>3, <1>5
  <1> QED
    BY <1>4, <1>6

\* g iterates F from s.
Iterates(g, n, S, s, F) ==
    /\ g \in [0..n -> S] /\ g[0] = s
    /\ \A i \in 1..n : g[i] = F[<<i, g[i - 1]>>]

\* There is a function that iterates another one.
LEMMA IterationExists ==
    ASSUME NEW n \in Nat, NEW S, NEW s \in S, NEW F \in [(1..n) \X S -> S]
    PROVE  \E g : Iterates(g, n, S, s, F)
  <1>1. PICK G : G = {m \in 0..n : \E g : Iterates(g, m, S, s, F)}
    OBVIOUS
  <1>2. 0 \in G
    <2>1. PICK g : g = [i \in 0..0 |-> s]
      OBVIOUS
    <2>2. Iterates(g, 0, S, s, F)
      BY <2>1 DEF Iterates
    <2> QED
      BY <1>1, <2>2
  <1>3. ASSUME NEW m \in 1..n, m - 1 \in G PROVE m \in G
    <2>1. PICK j \in Nat : j = m - 1
      OBVIOUS
    <2>2. PICK g : Iterates(g, j, S, s, F)
      BY <1>1, <1>3, <2>1
    <2>3. g \in [0..j -> S] /\ g[0] = s /\ \A i \in 1..j : g[i] = F[<<i, g[i - 1]>>]
      BY <2>2 DEF Iterates
    <2>4. g[j] \in S
      BY <2>3
    <2>5. PICK x \in S : x = F[<<m, g[j]>>]
      BY <2>4
    <2>6. PICK h : h = [i \in 0..m |-> IF i = m THEN x ELSE g[i]]
      OBVIOUS
    <2>7. /\ m \in Nat /\ m = j + 1 /\ \A i \in 0..m : i = m \/ i \in 0..j
          /\ \A i \in 1..m : i = m \/ i \in 1..j
          /\ \A i \in 0..j : i \in 0..m /\ i # m
          /\ \A i \in 1..j : i \in 0..j /\ i - 1 \in 0..j
      BY <2>1
    <2>8. h \in [0..m -> S]
      BY <2>3, <2>6, <2>7
    <2>9. h[m] = x /\ \A i \in 0..j : h[i] = g[i]
      BY <2>6, <2>7
    <2>10. ASSUME NEW i \in 1..m PROVE h[i] = F[<<i, h[i - 1]>>]
      <3>1. CASE i = m
        BY <2>1, <2>5, <2>7, <2>9, <3>1
      <3>2. CASE i \in 1..j
        BY <2>3, <2>7, <2>9, <3>2
      <3> QED
        BY <2>7, <3>1, <3>2
    <2>11. Iterates(h, m, S, s, F)
      BY <2>3, <2>7, <2>8, <2>9, <2>10 DEF Iterates
    <2> QED
      BY <1>1, <2>11
  <1>4. 0..n \subseteq G
    BY <1>2, <1>3, SetInduction
  <1> QED
    BY <1>1, <1>4
=============================================================================
