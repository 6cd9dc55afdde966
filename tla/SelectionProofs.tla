--------------------------- MODULE SelectionProofs ---------------------------
(***************************************************************************)
(* What Sifted() returns, for every sequence: lemmas for the components    *)
(* that drop elements out of the middle of a list.  Climb and Iterates are *)
(* the two ways to reason about loops: induction over a set of numbers,    *)
(* and that a recursive function over them exists.                         *)
(***************************************************************************)
EXTENDS Selection, SequenceTheorems, WellFoundedInduction, TLAPS

\* What holds of 0 and goes from each number to the next holds up to L: induction
\* over a set, for the library's rule takes an operator.
LEMMA Climb ==
  ASSUME NEW L \in Nat, NEW P, 0 \in P, \A n \in 1 .. L : n - 1 \in P => n \in P
  PROVE  \A n \in 0 .. L : n \in P
<1> DEFINE Bad == {n \in 0 .. L : n \notin P}
<1>1. SUFFICES ASSUME Bad # {} PROVE FALSE
  OBVIOUS
<1>2. PICK n \in Bad : \A m \in Bad : <<m, n>> \notin OpToRel(<, Nat)
  <2>1. Bad \in SUBSET Nat
    OBVIOUS
  <2> HIDE DEF Bad
  <2>2. QED
    BY <1>1, <2>1, WFMin, NatLessThanWellFounded
<1>3. n \in 1 .. L /\ n \notin P
  OBVIOUS
<1>4. \A m \in Bad : m \in Nat /\ ~(m < n)
  <2>1. n \in Nat /\ \A m \in Bad : m \in Nat
    OBVIOUS
  <2> HIDE DEF Bad
  <2>2. QED
    BY <1>2, <2>1 DEF OpToRel
<1>5. n - 1 \notin Bad
  BY <1>3, <1>4
<1>6. QED
  BY <1>3, <1>5

\* The recursive definition defines a function.
LEMMA SiftedRecurs ==
  ASSUME NEW T, NEW seq \in Seq(T), NEW S
  PROVE  \E G : /\ G = [n \in 0 .. Len(seq) |->
                         IF n = 0 THEN <<>>
                         ELSE IF seq[n] \in S THEN Append(G[n - 1], seq[n]) ELSE G[n - 1]]
                /\ Sifted(seq, S) = G[Len(seq)]
<1> DEFINE L == Len(seq)
           B(f, k) == IF k = 0 THEN <<>>
                      ELSE IF seq[k] \in S THEN Append(f[k - 1], seq[k]) ELSE f[k - 1]
           G == CHOOSE g : g = [n \in 0 .. L |->
                         IF n = 0 THEN <<>>
                         ELSE IF seq[n] \in S THEN Append(g[n - 1], seq[n]) ELSE g[n - 1]]
<1>1. L \in Nat
  OBVIOUS
<1> DEFINE P == {n \in 0 .. L : \E f : f = [k \in 0 .. n |-> B(f, k)]}
<1>2. L \in P
  <2>1. 0 \in P
    <3> DEFINE f == [k \in 0 .. 0 |-> <<>>]
    <3>1. f = [k \in 0 .. 0 |-> B(f, k)]
      OBVIOUS
    <3>2. \E h : h = [k \in 0 .. 0 |-> B(h, k)]
      BY <3>1
    <3>3. QED
      BY <1>1, <3>2
  <2>2. ASSUME NEW n \in 1 .. L, n - 1 \in P PROVE n \in P
    <3>1. PICK f : f = [k \in 0 .. n - 1 |-> B(f, k)]
      BY <2>2
    <3> DEFINE g == [k \in 0 .. n |-> IF k = n THEN B(f, n) ELSE f[k]]
    <3>2. ASSUME NEW k \in 0 .. n PROVE g[k] = B(g, k)
      <4>1. CASE k = n
        <5>1. g[k - 1] = f[k - 1]
          BY <4>1
        <5>2. QED
          BY <4>1, <5>1
      <4>2. CASE k # n
        <5>1. k \in 0 .. n - 1 /\ g[k] = f[k] /\ (k # 0 => g[k - 1] = f[k - 1])
          BY <4>2
        <5>2. f[k] = B(f, k)
          BY <3>1, <5>1
        <5>3. QED
          BY <5>1, <5>2
      <4>3. QED
        BY <4>1, <4>2
    <3>3. g = [k \in 0 .. n |-> B(g, k)]
      <4>1. g = [k \in 0 .. n |-> g[k]]
        OBVIOUS
      <4> HIDE DEF g
      <4>2. QED
        BY <3>2, <4>1
    <3>4. \E h : h = [k \in 0 .. n |-> B(h, k)]
      BY <3>3
    <3>5. n \in 0 .. L
      BY <1>1
    <3> HIDE DEF B
    <3>6. QED
      BY <3>4, <3>5
  <2> HIDE DEF P, L
  <2>3. \A n \in 0 .. L : n \in P
    BY <1>1, <2>1, <2>2, Climb
  <2>4. QED
    BY <1>1, <2>3
<1>3. G = [k \in 0 .. L |-> B(G, k)]
  <2>1. \E f : f = [k \in 0 .. L |-> B(f, k)]
    BY <1>2
  <2>2. QED
    BY <2>1
<1>4. Sifted(seq, S) = G[L]
  BY DEF Sifted
<1> HIDE DEF G
<1>5. QED
  BY <1>3, <1>4

\* What is kept, each element with its place in the sequence.
LEMMA SiftedPicks ==
  ASSUME NEW T, NEW seq \in Seq(T), NEW S
  PROVE  /\ Sifted(seq, S) \in Seq(T) /\ Len(Sifted(seq, S)) <= Len(seq)
         /\ \E e \in [1 .. Len(Sifted(seq, S)) -> 1 .. Len(seq)] :
              /\ \A i, j \in 1 .. Len(Sifted(seq, S)) : i < j => e[i] < e[j]
              /\ \A i \in 1 .. Len(Sifted(seq, S)) :
                   Sifted(seq, S)[i] = seq[e[i]] /\ seq[e[i]] \in S
              /\ \A k \in 1 .. Len(seq) :
                   seq[k] \in S => \E i \in 1 .. Len(Sifted(seq, S)) : e[i] = k
<1> DEFINE L == Len(seq)
<1>1. PICK G : /\ G = [n \in 0 .. L |->
                         IF n = 0 THEN <<>>
                         ELSE IF seq[n] \in S THEN Append(G[n - 1], seq[n]) ELSE G[n - 1]]
               /\ Sifted(seq, S) = G[L]
  BY SiftedRecurs
<1> DEFINE Keeps(n, r, e) ==
             /\ r \in Seq(T) /\ Len(r) <= n
             /\ e \in [1 .. Len(r) -> 1 .. n]
             /\ \A i, j \in 1 .. Len(r) : i < j => e[i] < e[j]
             /\ \A i \in 1 .. Len(r) : r[i] = seq[e[i]] /\ seq[e[i]] \in S
             /\ \A k \in 1 .. n : seq[k] \in S => \E i \in 1 .. Len(r) : e[i] = k
           P == {n \in 0 .. L : \E e : Keeps(n, G[n], e)}
<1>2. L \in Nat /\ \A n \in 1 .. L : seq[n] \in T
  OBVIOUS
<1>3. 0 \in P
  <2>1. G[0] = <<>>
    BY <1>1, <1>2
  <2>2. Keeps(0, <<>>, <<>>)
    OBVIOUS
  <2>3. Keeps(0, G[0], <<>>)
    BY <2>1, <2>2
  <2> HIDE DEF Keeps
  <2>4. QED
    BY <1>2, <2>3
<1>4. ASSUME NEW n \in 1 .. L, n - 1 \in P PROVE n \in P
  <2>1. PICK e : Keeps(n - 1, G[n - 1], e)
    BY <1>4
  <2> DEFINE r == G[n - 1]
  <2>2. G[n] = IF seq[n] \in S THEN Append(r, seq[n]) ELSE r
    <3>1. n \in 0 .. L /\ n # 0
      BY <1>2
    <3> HIDE DEF L
    <3>2. QED
      BY <1>1, <3>1
  <2>3. Keeps(n - 1, r, e)
    BY <2>1
  <2> HIDE DEF r
  <2>4. CASE seq[n] \notin S
    <3>1. Keeps(n, r, e)
      <4>1. n - 1 \in Nat /\ n \in Nat /\ Len(r) \in Nat
        BY <1>2, <2>3
      <4>2. e \in [1 .. Len(r) -> 1 .. n] /\ Len(r) <= n
        BY <2>3, <4>1
      <4>3. \A k \in 1 .. n : seq[k] \in S => k \in 1 .. n - 1
        BY <1>2, <2>4
      <4>4. QED
        BY <2>3, <4>2, <4>3
    <3> HIDE DEF Keeps
    <3>2. Keeps(n, G[n], e)
      BY <2>2, <2>4, <3>1
    <3>3. n \in 0 .. L
      BY <1>2
    <3>4. QED
      BY <3>2, <3>3
  <2>5. CASE seq[n] \in S
    <3> DEFINE q == Append(r, seq[n])
               d == [i \in 1 .. Len(r) + 1 |-> IF i = Len(r) + 1 THEN n ELSE e[i]]
    <3>1. /\ q \in Seq(T) /\ Len(q) = Len(r) + 1 /\ q[Len(r) + 1] = seq[n]
          /\ \A i \in 1 .. Len(r) : q[i] = r[i]
          /\ Len(r) \in Nat
      BY <1>2, <2>3
    <3>2. \A i \in 1 .. Len(r) : e[i] \in 1 .. n - 1 /\ d[i] = e[i]
      BY <2>3, <3>1
    <3>3. d[Len(r) + 1] = n
      BY <3>1
    <3>4. d \in [1 .. Len(q) -> 1 .. n] /\ Len(q) <= n
      BY <1>2, <2>3, <3>1, <3>2
    <3> HIDE DEF q, d
    <3>5. \A i, j \in 1 .. Len(q) : i < j => d[i] < d[j]
      <4> SUFFICES ASSUME NEW i \in 1 .. Len(q), NEW j \in 1 .. Len(q), i < j PROVE d[i] < d[j]
        OBVIOUS
      <4>1. i \in 1 .. Len(r) /\ d[i] = e[i] /\ e[i] \in 1 .. n - 1
        BY <3>1, <3>2
      <4>2. CASE j = Len(r) + 1
        BY <1>2, <3>3, <4>1, <4>2
      <4>3. CASE j # Len(r) + 1
        <5>1. j \in 1 .. Len(r) /\ d[j] = e[j]
          BY <3>1, <3>2, <4>3
        <5>2. QED
          BY <2>3, <4>1, <5>1
      <4>4. QED
        BY <4>2, <4>3
    <3>6. \A i \in 1 .. Len(q) : q[i] = seq[d[i]] /\ seq[d[i]] \in S
      <4> SUFFICES ASSUME NEW i \in 1 .. Len(q) PROVE q[i] = seq[d[i]] /\ seq[d[i]] \in S
        OBVIOUS
      <4>1. CASE i = Len(r) + 1
        BY <2>5, <3>1, <3>3, <4>1
      <4>2. CASE i # Len(r) + 1
        <5>1. i \in 1 .. Len(r)
          BY <3>1, <4>2
        <5>2. QED
          BY <2>3, <3>1, <3>2, <5>1
      <4>3. QED
        BY <4>1, <4>2
    <3>7. \A k \in 1 .. n : seq[k] \in S => \E i \in 1 .. Len(q) : d[i] = k
      <4> SUFFICES ASSUME NEW k \in 1 .. n, seq[k] \in S PROVE \E i \in 1 .. Len(q) : d[i] = k
        OBVIOUS
      <4>1. CASE k = n
        <5>1. Len(r) + 1 \in 1 .. Len(q)
          BY <3>1
        <5>2. QED
          BY <3>3, <4>1, <5>1
      <4>2. CASE k # n
        <5>1. k \in 1 .. n - 1
          BY <1>2, <4>2
        <5>2. PICK i \in 1 .. Len(r) : e[i] = k
          BY <2>3, <5>1
        <5>3. i \in 1 .. Len(q)
          BY <3>1
        <5>4. QED
          BY <3>2, <5>2, <5>3
      <4>3. QED
        BY <4>1, <4>2
    <3>8. Keeps(n, q, d)
      BY <3>1, <3>4, <3>5, <3>6, <3>7
    <3>9. G[n] = q
      BY <2>2, <2>5 DEF q
    <3> HIDE DEF Keeps
    <3>10. Keeps(n, G[n], d)
      BY <3>8, <3>9
    <3>11. n \in 0 .. L
      BY <1>2
    <3>12. QED
      BY <3>10, <3>11
  <2>6. QED
    BY <2>4, <2>5
<1>5. L \in P
  <2> HIDE DEF P, L
  <2>1. \A n \in 0 .. L : n \in P
    BY <1>2, <1>3, <1>4, Climb
  <2>2. QED
    BY <1>2, <2>1
<1>6. PICK e : Keeps(L, G[L], e)
  BY <1>5
<1>7. Keeps(L, Sifted(seq, S), e)
  BY <1>1, <1>6
<1>8. QED
  BY <1>7

LEMMA SiftedType ==
  ASSUME NEW T, NEW seq \in Seq(T), NEW S
  PROVE  /\ Sifted(seq, S) \in Seq(T)
         /\ Len(Sifted(seq, S)) \in Nat /\ Len(Sifted(seq, S)) <= Len(seq)
<1>1. Sifted(seq, S) \in Seq(T) /\ Len(Sifted(seq, S)) <= Len(seq)
  BY SiftedPicks
<1>2. QED
  BY <1>1

LEMMA SiftedEmpty == ASSUME NEW S PROVE Sifted(<<>>, S) = <<>>
<1>1. <<>> \in Seq({}) /\ Len(<<>>) = 0
  OBVIOUS
<1>2. Sifted(<<>>, S) \in Seq({}) /\ Len(Sifted(<<>>, S)) <= 0
  <2> HIDE DEF Sifted
  <2>1. QED
    BY <1>1, SiftedPicks
<1>3. QED
  BY <1>2

\* What is kept is what was there and is in S.
LEMMA SiftedElements ==
  ASSUME NEW T, NEW seq \in Seq(T), NEW S
  PROVE  /\ \A i \in 1 .. Len(Sifted(seq, S)) :
              /\ Sifted(seq, S)[i] \in S
              /\ \E k \in 1 .. Len(seq) : Sifted(seq, S)[i] = seq[k]
         /\ \A k \in 1 .. Len(seq) :
              seq[k] \in S => \E i \in 1 .. Len(Sifted(seq, S)) : Sifted(seq, S)[i] = seq[k]
<1> DEFINE r == Sifted(seq, S)
<1>1. PICK e \in [1 .. Len(r) -> 1 .. Len(seq)] :
        /\ \A i \in 1 .. Len(r) : r[i] = seq[e[i]] /\ seq[e[i]] \in S
        /\ \A k \in 1 .. Len(seq) : seq[k] \in S => \E i \in 1 .. Len(r) : e[i] = k
  BY SiftedPicks
<1> HIDE DEF r
<1>2. ASSUME NEW i \in 1 .. Len(r)
      PROVE  r[i] \in S /\ \E k \in 1 .. Len(seq) : r[i] = seq[k]
  <2>1. e[i] \in 1 .. Len(seq)
    BY <1>1
  <2>2. QED
    BY <1>1, <2>1
<1>3. ASSUME NEW k \in 1 .. Len(seq), seq[k] \in S
      PROVE  \E i \in 1 .. Len(r) : r[i] = seq[k]
  <2>1. PICK i \in 1 .. Len(r) : e[i] = k
    BY <1>1, <1>3
  <2>2. QED
    BY <1>1, <2>1
<1>4. QED
  BY <1>2, <1>3 DEF r

\* Nothing is doubled.
LEMMA SiftedOnce ==
  ASSUME NEW T, NEW seq \in Seq(T), NEW S,
         \A i, j \in 1 .. Len(seq) : seq[i] = seq[j] => i = j
  PROVE  \A i, j \in 1 .. Len(Sifted(seq, S)) : Sifted(seq, S)[i] = Sifted(seq, S)[j] => i = j
<1> DEFINE r == Sifted(seq, S)
<1>1. PICK e \in [1 .. Len(r) -> 1 .. Len(seq)] :
        /\ \A i, j \in 1 .. Len(r) : i < j => e[i] < e[j]
        /\ \A i \in 1 .. Len(r) : r[i] = seq[e[i]]
  BY SiftedPicks
<1>2. Len(r) \in Nat /\ Len(seq) \in Nat
  BY SiftedPicks
<1> HIDE DEF r
<1>3. ASSUME NEW i \in 1 .. Len(r), NEW j \in 1 .. Len(r), r[i] = r[j] PROVE i = j
  <2>1. e[i] = e[j] /\ e[i] \in 1 .. Len(seq)
    BY <1>1, <1>3
  <2>2. ~ i < j /\ ~ j < i
    BY <1>1, <1>2, <2>1
  <2>3. QED
    BY <1>2, <2>2
<1>4. QED
  BY <1>3 DEF r

\* What comes first in a sequence is sifted first.
LEMMA SiftedConcat ==
  ASSUME NEW T, NEW a \in Seq(T), NEW b \in Seq(T), NEW S
  PROVE  Sifted(a \o b, S) = Sifted(a, S) \o Sifted(b, S)
<1> DEFINE c == a \o b
           L == Len(a)
           M == Len(b)
           B(G, q, n) == IF n = 0 THEN <<>>
                         ELSE IF q[n] \in S THEN Append(G[n - 1], q[n]) ELSE G[n - 1]
<1>1. /\ L \in Nat /\ M \in Nat /\ c \in Seq(T) /\ Len(c) = L + M
      /\ \A n \in 1 .. L : c[n] = a[n]
      /\ \A n \in 1 .. M : c[L + n] = b[n]
  OBVIOUS
<1>2. PICK A : A = [n \in 0 .. L |-> B(A, a, n)] /\ Sifted(a, S) = A[L]
  BY SiftedRecurs
<1>3. PICK D : D = [n \in 0 .. M |-> B(D, b, n)] /\ Sifted(b, S) = D[M]
  BY SiftedRecurs
<1> HIDE DEF c
<1>4. PICK C : C = [n \in 0 .. Len(c) |-> B(C, c, n)] /\ Sifted(c, S) = C[Len(c)]
  BY <1>1, SiftedRecurs
<1> HIDE DEF L, M
<1>5. \A n \in 0 .. L : C[n] = A[n]
  <2> DEFINE P == {n \in 0 .. L : C[n] = A[n]}
  <2>1. 0 \in P
    BY <1>1, <1>2, <1>4
  <2>2. ASSUME NEW n \in 1 .. L, n - 1 \in P PROVE n \in P
    <3>1. n \in 0 .. L /\ n \in 0 .. Len(c) /\ n # 0
      BY <1>1
    <3>4. c[n] = a[n]
      BY <1>1
    <3>2. A[n] = B(A, a, n) /\ C[n] = B(C, c, n)
      BY <1>2, <1>4, <3>1
    <3>3. QED
      BY <2>2, <3>1, <3>2, <3>4
  <2> HIDE DEF P
  <2>3. \A n \in 0 .. L : n \in P
    BY <1>1, <2>1, <2>2, Climb
  <2>4. QED
    BY <2>3 DEF P
<1>6. A[L] \in Seq(T)
  BY <1>2, SiftedType
<1>7. \A n \in 0 .. M : D[n] \in Seq(T) /\ C[L + n] = A[L] \o D[n]
  <2> DEFINE P == {n \in 0 .. M : D[n] \in Seq(T) /\ C[L + n] = A[L] \o D[n]}
  <2>1. 0 \in P
    <3>1. D[0] = <<>> /\ C[L + 0] = A[L]
      BY <1>1, <1>3, <1>5
    <3>2. A[L] \o <<>> = A[L] /\ <<>> \in Seq(T) /\ 0 \in 0 .. M
      BY <1>1, <1>6
    <3>3. D[0] \in Seq(T) /\ C[L + 0] = A[L] \o D[0]
      BY <3>1, <3>2, Zenon
    <3>4. QED
      BY <3>2, <3>3, Zenon
  <2>2. ASSUME NEW n \in 1 .. M, n - 1 \in P PROVE n \in P
    <3>1. /\ n \in 0 .. M /\ n # 0 /\ L + n \in 0 .. Len(c) /\ L + n # 0
          /\ (L + n) - 1 = L + (n - 1)
          /\ c[L + n] = b[n] /\ b[n] \in T
      BY <1>1 DEF M
    <3>2. D[n] = B(D, b, n) /\ C[L + n] = B(C, c, L + n)
      BY <1>3, <1>4, <3>1
    <3>3. D[n - 1] \in Seq(T) /\ C[L + (n - 1)] = A[L] \o D[n - 1]
      BY <2>2
    <3>4. Append(A[L] \o D[n - 1], b[n]) = A[L] \o Append(D[n - 1], b[n])
      <4> DEFINE g == A[L]
                 h == D[n - 1]
                 x == b[n]
      <4>1. g \in Seq(T) /\ h \in Seq(T) /\ x \in T
        BY <1>6, <3>1, <3>3
      <4> HIDE DEF g, h, x
      <4>2. <<x>> \in Seq(T) /\ g \o h \in Seq(T)
        BY <4>1
      <4>3. Append(g \o h, x) = (g \o h) \o <<x>> /\ Append(h, x) = h \o <<x>>
        BY <4>1, <4>2, AppendIsConcat
      <4>4. (g \o h) \o <<x>> = g \o (h \o <<x>>)
        BY <4>1, <4>2, ConcatAssociative
      <4>5. QED
        BY <4>3, <4>4 DEF g, h, x
    <3>5. QED
      <4>1. CASE b[n] \in S
        <5>1. D[n] = Append(D[n - 1], b[n]) /\ C[L + n] = Append(C[L + (n - 1)], b[n])
          BY <3>1, <3>2, <4>1
        <5>2. D[n] \in Seq(T)
          BY <3>1, <3>3, <5>1
        <5>3. C[L + n] = A[L] \o D[n]
          BY <3>3, <3>4, <5>1
        <5>4. QED
          BY <3>1, <5>2, <5>3
      <4>2. CASE b[n] \notin S
        <5>1. D[n] = D[n - 1] /\ C[L + n] = C[L + (n - 1)]
          BY <3>1, <3>2, <4>2
        <5>2. QED
          BY <3>1, <3>3, <5>1
      <4>3. QED
        BY <4>1, <4>2
  <2> HIDE DEF P
  <2>3. \A n \in 0 .. M : n \in P
    BY <1>1, <2>1, <2>2, Climb
  <2>4. QED
    BY <2>3 DEF P
<1>8. C[L + M] = A[L] \o D[M]
  <2>1. M \in 0 .. M
    BY <1>1
  <2>2. QED
    BY <1>7, <2>1, Zenon
<1>9. QED
  BY <1>1, <1>2, <1>3, <1>4, <1>8 DEF c

\* A step taken again and again from a start, by number: what the recursive functions of
\* the models compute exists.
HasRun(L, X, x, H) ==
  \E f \in [0 .. L -> X] : f[0] = x /\ \A n \in 1 .. L : f[n] = H[n][f[n - 1]]

LEMMA Iterates ==
  ASSUME NEW L \in Nat, NEW X, NEW x \in X, NEW H, \A n \in 1 .. L : H[n] \in [X -> X]
  PROVE  HasRun(L, X, x, H)
<1> DEFINE Run(f, m) == f[0] = x /\ \A n \in 1 .. m : f[n] = H[n][f[n - 1]]
           P == {m \in 0 .. L : \E f \in [0 .. m -> X] : Run(f, m)}
<1>1. 0 \in P
  <2> DEFINE f == [k \in 0 .. 0 |-> x]
  <2>1. f \in [0 .. 0 -> X] /\ Run(f, 0)
    OBVIOUS
  <2>2. \E h \in [0 .. 0 -> X] : Run(h, 0)
    BY <2>1
  <2> HIDE DEF Run
  <2>3. QED
    BY <2>2
<1>2. ASSUME NEW m \in 1 .. L, m - 1 \in P PROVE m \in P
  <2>1. PICK f \in [0 .. m - 1 -> X] : Run(f, m - 1)
    BY <1>2
  <2>2. f[m - 1] \in X /\ H[m][f[m - 1]] \in X
    OBVIOUS
  <2> DEFINE g == [k \in 0 .. m |-> IF k = m THEN H[m][f[m - 1]] ELSE f[k]]
  <2>3. g \in [0 .. m -> X]
    BY <2>2
  <2>4. Run(g, m)
    <3>1. g[0] = x
      BY <2>1
    <3>2. ASSUME NEW n \in 1 .. m PROVE g[n] = H[n][g[n - 1]]
      <4>1. g[n - 1] = f[n - 1]
        OBVIOUS
      <4>2. CASE n = m
        BY <4>1, <4>2
      <4>3. CASE n # m
        <5>1. n \in 1 .. m - 1 /\ g[n] = f[n]
          BY <4>3
        <5>2. QED
          BY <2>1, <4>1, <5>1
      <4>4. QED
        BY <4>2, <4>3
    <3> HIDE DEF g
    <3>3. QED
      BY <3>1, <3>2
  <2>5. \E h \in [0 .. m -> X] : Run(h, m)
    <3> HIDE DEF g
    <3>1. QED
      BY <2>3, <2>4
  <2> HIDE DEF Run
  <2>6. QED
    BY <2>5
<1> HIDE DEF P
<1>3. \A m \in 0 .. L : m \in P
  BY <1>1, <1>2, Climb
<1>4. QED
  BY <1>3 DEF P, HasRun
=============================================================================
