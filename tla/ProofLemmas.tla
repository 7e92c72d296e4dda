----------------------------- MODULE ProofLemmas -----------------------------
(***************************************************************************)
(* Lemmas about numbers, sequences and functions defined by recursion that *)
(* the proofs of more than one component need.                             *)
(***************************************************************************)
EXTENDS SequenceTheorems, WellFoundedInduction, TLAPS

\* A set of natural numbers that is not empty has a least element.
LEMMA LeastNatural ==
  ASSUME NEW S \in SUBSET Nat, S # {}
  PROVE  \E n \in S : \A m \in S : n <= m
<1> DEFINE R == {ss \in Nat \X Nat : ss[1] < ss[2]}
<1>1. IsWellFoundedOn(R, Nat)
  BY NatLessThanWellFounded, Zenon DEF OpToRel
<1>2. PICK n \in S : \A m \in S : ~ (<<m, n>> \in R)
  BY <1>1, WFMin, Zenon
<1>3. ASSUME NEW m \in S PROVE n <= m
  <2>1. m \in Nat /\ n \in Nat
    OBVIOUS
  <2>2. ~ (m < n)
    <3> SUFFICES ASSUME m < n PROVE <<m, n>> \in R
      BY <1>2
    <3> QED BY <2>1
  <2> QED BY <2>1, <2>2
<1> QED BY <1>3

\* A function on 1 .. n is a sequence of length n.
LEMMA FunctionIsSequence ==
  ASSUME NEW S, NEW n \in Nat, NEW f \in [1 .. n -> S]
  PROVE  f \in Seq(S) /\ Len(f) = n
<1>1. f \in Seq(S)
  BY SeqDef
<1>2. 1 .. n = 1 .. Len(f) /\ Len(f) \in Nat
  BY <1>1, LenProperties
<1>3. QED
  BY <1>1, <1>2

-----------------------------------------------------------------------------
(* Beginnings of sequences.                                                *)

Prefix(s, t) == Len(s) <= Len(t) /\ \A k \in 1 .. Len(s) : s[k] = t[k]

\* A sequence is what its length cuts from whatever it is a beginning of.
LEMMA PrefixIsSubSeq ==
  ASSUME NEW S, NEW s \in Seq(S), NEW t \in Seq(S), Prefix(s, t)
  PROVE  Len(s) <= Len(t) /\ s = SubSeq(t, 1, Len(s))
<1> DEFINE u == SubSeq(t, 1, Len(s))
<1>1. Len(s) \in Nat /\ Len(t) \in Nat /\ Len(s) <= Len(t)
  BY LenProperties DEF Prefix
<1>2. \A i \in 1 .. Len(s) : t[i] \in S
  BY <1>1, LenProperties
<1>3. /\ u \in Seq(S)
      /\ Len(u) = IF 1 <= Len(s) THEN Len(s) - 1 + 1 ELSE 0
      /\ \A i \in 1 .. Len(s) - 1 + 1 : u[i] = t[1 + i - 1]
  BY <1>1, <1>2, SubSeqProperties
<1> HIDE DEF u
<1>4. Len(u) = Len(s) /\ \A i \in 1 .. Len(s) : s[i] = u[i]
  BY <1>1, <1>3 DEF Prefix
<1>5. s = u
  BY <1>3, <1>4, SeqEqual
<1>6. QED
  BY <1>1, <1>5 DEF u

\* What a length cuts from a sequence, and cutting twice.
LEMMA CutTwice ==
  ASSUME NEW S, NEW s \in Seq(S), NEW n \in 0 .. Len(s), NEW m \in 0 .. n
  PROVE  /\ SubSeq(s, 1, n) \in Seq(S)
         /\ Len(SubSeq(s, 1, n)) = n
         /\ SubSeq(SubSeq(s, 1, n), 1, m) = SubSeq(s, 1, m)
<1>1. Len(s) \in Nat /\ \A i \in 1 .. Len(s) : s[i] \in S
  BY LenProperties
<1>2. ASSUME NEW k \in 0 .. Len(s)
      PROVE  /\ SubSeq(s, 1, k) \in Seq(S)
             /\ Len(SubSeq(s, 1, k)) = k
             /\ \A i \in 1 .. k : SubSeq(s, 1, k)[i] = s[i]
  <2>1. k \in Int /\ 1 \in Int /\ \A i \in 1 .. k : s[i] \in S
    BY <1>1
  <2>2. /\ SubSeq(s, 1, k) \in Seq(S)
        /\ Len(SubSeq(s, 1, k)) = IF 1 <= k THEN k - 1 + 1 ELSE 0
        /\ \A i \in 1 .. k - 1 + 1 : SubSeq(s, 1, k)[i] = s[1 + i - 1]
    BY <2>1, SubSeqProperties
  <2>3. QED
    BY <1>1, <2>2
<1> DEFINE t == SubSeq(s, 1, n)
           u == SubSeq(s, 1, m)
           v == SubSeq(t, 1, m)
<1>3. m \in 0 .. Len(s) /\ n \in Nat /\ m \in Nat /\ m <= n
  BY <1>1
<1>4. /\ t \in Seq(S) /\ Len(t) = n /\ \A i \in 1 .. n : t[i] = s[i]
      /\ u \in Seq(S) /\ Len(u) = m /\ \A i \in 1 .. m : u[i] = s[i]
  BY <1>2, <1>3
<1> HIDE DEF t, u
<1>5. /\ v \in Seq(S) /\ Len(v) = m /\ \A i \in 1 .. m : v[i] = t[i]
  <2>1. m \in Int /\ 1 \in Int /\ \A i \in 1 .. m : t[i] \in S
    BY <1>1, <1>3, <1>4
  <2>2. /\ v \in Seq(S)
        /\ Len(v) = IF 1 <= m THEN m - 1 + 1 ELSE 0
        /\ \A i \in 1 .. m - 1 + 1 : v[i] = t[1 + i - 1]
    BY <2>1, SubSeqProperties
  <2>3. QED
    BY <1>3, <2>2
<1> HIDE DEF v
<1>6. \A i \in 1 .. Len(v) : v[i] = u[i]
  BY <1>3, <1>4, <1>5
<1>7. v = u
  BY <1>4, <1>5, <1>6, SeqEqual
<1>8. QED
  BY <1>4, <1>7 DEF t, u, v

\* Each part of a concatenation, place by place.
LEMMA Concatenation ==
  ASSUME NEW S, NEW s \in Seq(S), NEW t \in Seq(S)
  PROVE  /\ s \o t \in Seq(S) /\ Len(s) \in Nat /\ Len(t) \in Nat
         /\ Len(s \o t) = Len(s) + Len(t)
         /\ \A k \in 1 .. Len(s) : (s \o t)[k] = s[k]
         /\ Prefix(s, s \o t)
<1>1. /\ s \o t \in Seq(S) /\ Len(s \o t) = Len(s) + Len(t)
      /\ \A k \in 1 .. Len(s) + Len(t) :
           (s \o t)[k] = IF k <= Len(s) THEN s[k] ELSE t[k - Len(s)]
  BY ConcatProperties
<1>2. Len(s) \in Nat /\ Len(t) \in Nat
  BY LenProperties
<1>3. QED
  BY <1>1, <1>2 DEF Prefix

\* What is cut from a beginning, and what follows it.
LEMMA CutInTwo ==
  ASSUME NEW S, NEW t \in Seq(S), NEW b \in 0 .. Len(t), NEW a \in 0 .. b
  PROVE  /\ SubSeq(t, 1, a) \in Seq(S) /\ SubSeq(t, a + 1, b) \in Seq(S)
         /\ Len(SubSeq(t, a + 1, b)) = b - a
         /\ SubSeq(t, 1, a) \o SubSeq(t, a + 1, b) = SubSeq(t, 1, b)
<1> DEFINE u == SubSeq(t, 1, a)
           v == SubSeq(t, a + 1, b)
           w == SubSeq(t, 1, b)
<1>1. Len(t) \in Nat /\ \A i \in 1 .. Len(t) : t[i] \in S
  BY LenProperties
<1>2. a \in Nat /\ b \in Nat /\ a <= b /\ b <= Len(t)
  BY <1>1
<1>3. u \in Seq(S) /\ Len(u) = a /\ \A i \in 1 .. a : u[i] = t[i]
  <2>1. 1 \in Int /\ a \in Int /\ \A i \in 1 .. a : t[i] \in S
    BY <1>1, <1>2
  <2>2. /\ u \in Seq(S) /\ Len(u) = IF 1 <= a THEN a - 1 + 1 ELSE 0
        /\ \A i \in 1 .. a - 1 + 1 : u[i] = t[1 + i - 1]
    BY <2>1, SubSeqProperties
  <2>3. QED
    BY <1>2, <2>2
<1>4. w \in Seq(S) /\ Len(w) = b /\ \A i \in 1 .. b : w[i] = t[i]
  <2>1. 1 \in Int /\ b \in Int /\ \A i \in 1 .. b : t[i] \in S
    BY <1>1, <1>2
  <2>2. /\ w \in Seq(S) /\ Len(w) = IF 1 <= b THEN b - 1 + 1 ELSE 0
        /\ \A i \in 1 .. b - 1 + 1 : w[i] = t[1 + i - 1]
    BY <2>1, SubSeqProperties
  <2>3. QED
    BY <1>2, <2>2
<1>5. v \in Seq(S) /\ Len(v) = b - a /\ \A i \in 1 .. b - a : v[i] = t[a + i]
  <2>1. a + 1 \in Int /\ b \in Int /\ \A i \in a + 1 .. b : t[i] \in S
    BY <1>1, <1>2
  <2>2. /\ v \in Seq(S) /\ Len(v) = IF a + 1 <= b THEN b - (a + 1) + 1 ELSE 0
        /\ \A i \in 1 .. b - (a + 1) + 1 : v[i] = t[(a + 1) + i - 1]
    BY <2>1, SubSeqProperties
  <2>3. QED
    BY <1>2, <2>2
<1> HIDE DEF u, v, w
<1>6. /\ u \o v \in Seq(S) /\ Len(u \o v) = Len(u) + Len(v)
      /\ \A i \in 1 .. Len(u) + Len(v) :
           (u \o v)[i] = IF i <= Len(u) THEN u[i] ELSE v[i - Len(u)]
  BY <1>3, <1>5, ConcatProperties
<1>7. Len(u \o v) = b
  BY <1>2, <1>3, <1>5, <1>6
<1>8. ASSUME NEW i \in 1 .. b PROVE (u \o v)[i] = w[i]
  <2>1. (u \o v)[i] = IF i <= a THEN u[i] ELSE v[i - a]
    BY <1>2, <1>3, <1>5, <1>6
  <2>2. CASE i <= a
    BY <1>2, <1>3, <1>4, <2>1, <2>2
  <2>3. CASE ~ (i <= a)
    <3>1. i - a \in 1 .. b - a /\ a + (i - a) = i
      BY <1>2, <2>3
    <3>2. v[i - a] = t[i] /\ w[i] = t[i]
      BY <1>4, <1>5, <3>1
    <3>3. QED
      BY <2>1, <2>3, <3>2, Zenon
  <2>4. QED
    BY <2>2, <2>3
<1>9. u \o v = w
  BY <1>4, <1>6, <1>7, <1>8, SeqEqual
<1>10. QED
  BY <1>3, <1>5, <1>9 DEF u, v, w

-----------------------------------------------------------------------------
(* Putting pieces together one after the other.                            *)

\* f[n] is the concatenation of the first n of N pieces.
Accumulates(f, N, piece) ==
  f = [n \in 0 .. N |-> IF n = 0 THEN <<>> ELSE f[n - 1] \o piece[n]]

\* Such a function exists for every number of pieces.
LEMMA AccumulationExists ==
  ASSUME NEW N \in Nat, NEW piece
  PROVE  \E f : Accumulates(f, N, piece)
<1> DEFINE Missing == {m \in 0 .. N : ~ \E f : Accumulates(f, m, piece)}
<1> SUFFICES ASSUME Missing # {} PROVE FALSE
  OBVIOUS
<1>1. Missing \in SUBSET Nat
  OBVIOUS
<1>2. PICK m \in Missing : \A k \in Missing : m <= k
  BY <1>1, LeastNatural
<1>3. m \in 0 .. N /\ ~ \E f : Accumulates(f, m, piece)
  OBVIOUS
<1>4. CASE m = 0
  <2> DEFINE f == [n \in 0 .. 0 |-> <<>>]
  <2>1. f = [n \in 0 .. 0 |-> IF n = 0 THEN <<>> ELSE f[n - 1] \o piece[n]]
    OBVIOUS
  <2>2. Accumulates(f, 0, piece)
    BY <2>1 DEF Accumulates
  <2>3. QED
    BY <1>3, <1>4, <2>2
<1>5. CASE m # 0
  <2>1. m - 1 \in 0 .. N /\ m - 1 \notin Missing
    BY <1>2, <1>3, <1>5
  <2>2. PICK f : Accumulates(f, m - 1, piece)
    BY <2>1
  <2>3. f = [n \in 0 .. m - 1 |-> IF n = 0 THEN <<>> ELSE f[n - 1] \o piece[n]]
    BY <2>2 DEF Accumulates
  <2> DEFINE g == [n \in 0 .. m |-> IF n = 0 THEN <<>> ELSE f[n - 1] \o piece[n]]
  <2>4. \A n \in 0 .. m - 1 : n \in 0 .. m /\ g[n] = f[n]
    <3> TAKE n \in 0 .. m - 1
    <3>1. n \in 0 .. m
      BY <1>3
    <3>2. f[n] = IF n = 0 THEN <<>> ELSE f[n - 1] \o piece[n]
      BY <2>3, Zenon
    <3>3. g[n] = IF n = 0 THEN <<>> ELSE f[n - 1] \o piece[n]
      BY <3>1, Zenon
    <3>4. QED
      BY <3>1, <3>2, <3>3
  <2>5. \A n \in 0 .. m : n # 0 => n - 1 \in 0 .. m - 1
    BY <1>3
  <2>6. \A n \in 0 .. m :
          (IF n = 0 THEN <<>> ELSE f[n - 1] \o piece[n])
            = (IF n = 0 THEN <<>> ELSE g[n - 1] \o piece[n])
    BY <2>4, <2>5, Zenon
  <2>7. g = [n \in 0 .. m |-> IF n = 0 THEN <<>> ELSE g[n - 1] \o piece[n]]
    BY <2>6, Zenon
  <2>8. Accumulates(g, m, piece)
    BY <2>7 DEF Accumulates
  <2>9. QED
    BY <1>3, <2>8
<1>6. QED
  BY <1>4, <1>5

\* What is put together is a sequence, and each step only appends.
LEMMA AccumulationSteps ==
  ASSUME NEW S, NEW N \in Nat, NEW piece, \A n \in 1 .. N : piece[n] \in Seq(S),
         NEW f, Accumulates(f, N, piece)
  PROVE  /\ f[0] = <<>>
         /\ \A n \in 1 .. N : f[n] = f[n - 1] \o piece[n]
         /\ \A n \in 0 .. N : f[n] \in Seq(S)
<1>1. f = [n \in 0 .. N |-> IF n = 0 THEN <<>> ELSE f[n - 1] \o piece[n]]
  BY DEF Accumulates
<1>2. 0 \in 0 .. N /\ \A n \in 1 .. N : n \in 0 .. N /\ n # 0 /\ n - 1 \in 0 .. N
  OBVIOUS
<1>3. f[0] = <<>>
  BY <1>1, <1>2, Zenon
<1>4. \A n \in 1 .. N : f[n] = f[n - 1] \o piece[n]
  BY <1>1, <1>2, Zenon
<1>5. \A n \in 0 .. N : f[n] \in Seq(S)
  <2> DEFINE Bad == {n \in 0 .. N : f[n] \notin Seq(S)}
  <2> SUFFICES ASSUME Bad # {} PROVE FALSE
    OBVIOUS
  <2>1. Bad \in SUBSET Nat
    OBVIOUS
  <2>2. PICK n \in Bad : \A m \in Bad : n <= m
    BY <2>1, LeastNatural
  <2>3. CASE n = 0
    BY <1>3, <2>3, EmptySeq
  <2>4. CASE n # 0
    <3>1. n \in 1 .. N /\ n - 1 \in 0 .. N /\ n - 1 \notin Bad
      BY <2>2, <2>4
    <3>2. f[n - 1] \in Seq(S) /\ piece[n] \in Seq(S) /\ f[n] = f[n - 1] \o piece[n]
      BY <1>4, <3>1
    <3>3. f[n] \in Seq(S)
      BY <3>2, ConcatProperties
    <3>4. QED
      BY <3>3
  <2>5. QED
    BY <2>3, <2>4
<1>6. QED
  BY <1>3, <1>4, <1>5

\* Earlier stages are beginnings of later ones.
LEMMA AccumulationGrows ==
  ASSUME NEW S, NEW N \in Nat, NEW piece, \A n \in 1 .. N : piece[n] \in Seq(S),
         NEW f, Accumulates(f, N, piece),
         NEW m \in 0 .. N, NEW n \in m .. N
  PROVE  Prefix(f[m], f[n])
<1>1. /\ \A k \in 1 .. N : f[k] = f[k - 1] \o piece[k]
      /\ \A k \in 0 .. N : f[k] \in Seq(S) /\ Len(f[k]) \in Nat
  <2>1. /\ f[0] = <<>>
        /\ \A k \in 1 .. N : f[k] = f[k - 1] \o piece[k]
        /\ \A k \in 0 .. N : f[k] \in Seq(S)
    BY AccumulationSteps, Zenon
  <2>2. ASSUME NEW k \in 0 .. N PROVE Len(f[k]) \in Nat
    BY <2>1, LenProperties
  <2>3. QED
    BY <2>1, <2>2
<1> DEFINE Bad == {k \in m .. N : ~ Prefix(f[m], f[k])}
<1> SUFFICES ASSUME Bad # {} PROVE FALSE
  OBVIOUS
<1>2. Bad \in SUBSET Nat
  OBVIOUS
<1>3. PICK k \in Bad : \A j \in Bad : k <= j
  BY <1>2, LeastNatural
<1>4. CASE k = m
  <2>1. Prefix(f[m], f[m])
    BY <1>1 DEF Prefix
  <2>2. QED
    BY <1>4, <2>1
<1>5. CASE k # m
  <2>1. k \in 1 .. N /\ k - 1 \in m .. N /\ k - 1 \in 0 .. N /\ k - 1 \notin Bad
    BY <1>3, <1>5
  <2>2. Prefix(f[m], f[k - 1])
    BY <2>1
  <2>3. Prefix(f[k - 1], f[k])
    <3>1. f[k - 1] \in Seq(S) /\ piece[k] \in Seq(S) /\ f[k] = f[k - 1] \o piece[k]
      BY <1>1, <2>1
    <3>2. QED
      BY <3>1, Concatenation
  <2>4. Prefix(f[m], f[k])
    <3>1. Len(f[m]) \in Nat /\ Len(f[k - 1]) \in Nat /\ Len(f[k]) \in Nat
      BY <1>1, <2>1
    <3>2. QED
      BY <2>2, <2>3, <3>1 DEF Prefix
  <2>5. QED
    BY <2>4
<1>6. QED
  BY <1>4, <1>5

\* Nothing put together is nothing.
LEMMA AccumulationOfNothing ==
  ASSUME NEW N \in Nat, NEW piece, \A n \in 1 .. N : piece[n] = <<>>,
         NEW f, Accumulates(f, N, piece)
  PROVE  f[N] = <<>>
<1>1. \A n \in 1 .. N : piece[n] \in Seq({})
  BY EmptySeq
<1>2. /\ f[0] = <<>>
      /\ \A n \in 1 .. N : f[n] = f[n - 1] \o piece[n]
      /\ \A n \in 0 .. N : f[n] \in Seq({})
  BY <1>1, AccumulationSteps, Zenon
<1>3. N \in 0 .. N
  OBVIOUS
<1>4. f[N] \in Seq({})
  BY <1>2, <1>3
<1>5. QED
  <2>1. Len(f[N]) \in Nat /\ \A i \in 1 .. Len(f[N]) : f[N][i] \in {}
    BY <1>4, LenProperties
  <2>2. Len(f[N]) = 0
    BY <2>1
  <2>3. QED
    BY <1>4, <2>2, EmptySeq

\* p are N + M pieces, q the first N of them, and r the others.
Halves(S, N, M, p, q, r) ==
  /\ N \in Nat /\ M \in Nat
  /\ \A n \in 1 .. N + M : p[n] \in Seq(S)
  /\ \A n \in 1 .. N : q[n] = p[n]
  /\ \A n \in 1 .. M : r[n] = p[N + n]

\* The provers apply a lemma that says this by name more easily than one that
\* says the equation.
Joins(whole, s, t) == whole = s \o t

\* What is put together of N + M pieces is what is put together of the first N,
\* and behind it what is put together of the others.
LEMMA AccumulationSplits ==
  ASSUME NEW S, NEW N, NEW M, NEW p, NEW q, NEW r, NEW f, NEW g, NEW h,
         Halves(S, N, M, p, q, r),
         Accumulates(f, N + M, p), Accumulates(g, N, q), Accumulates(h, M, r)
  PROVE  Joins(f[N + M], g[N], h[M])
<1>0. /\ N \in Nat /\ M \in Nat
      /\ \A n \in 1 .. N + M : p[n] \in Seq(S)
      /\ \A n \in 1 .. N : q[n] = p[n]
      /\ \A n \in 1 .. M : r[n] = p[N + n]
  BY Zenon DEF Halves
<1>1. /\ N + M \in Nat
      /\ \A n \in 1 .. N : n \in 1 .. N + M
      /\ \A n \in 1 .. M : N + n \in 1 .. N + M
      /\ N \in 0 .. N /\ N \in 0 .. N + M /\ M \in 0 .. M
  BY <1>0
<1>2. /\ f[0] = <<>>
      /\ \A n \in 1 .. N + M : f[n] = f[n - 1] \o p[n]
      /\ \A n \in 0 .. N + M : f[n] \in Seq(S)
  BY <1>0, <1>1, AccumulationSteps, Zenon
<1>3. /\ g[0] = <<>>
      /\ \A n \in 1 .. N : g[n] = g[n - 1] \o q[n]
      /\ \A n \in 0 .. N : g[n] \in Seq(S)
  <2>1. \A n \in 1 .. N : q[n] \in Seq(S)
    BY <1>0, <1>1, Zenon
  <2>2. QED
    BY <1>0, <2>1, AccumulationSteps, Zenon
<1>4. /\ h[0] = <<>>
      /\ \A n \in 1 .. M : h[n] = h[n - 1] \o r[n]
      /\ \A n \in 0 .. M : h[n] \in Seq(S)
  <2>1. \A n \in 1 .. M : r[n] \in Seq(S)
    BY <1>0, <1>1, Zenon
  <2>2. QED
    BY <1>0, <2>1, AccumulationSteps, Zenon
<1>5. \A n \in 0 .. N : f[n] = g[n]
  <2> DEFINE Bad == {n \in 0 .. N : f[n] # g[n]}
  <2> SUFFICES ASSUME Bad # {} PROVE FALSE
    OBVIOUS
  <2>1. Bad \in SUBSET Nat
    BY <1>0
  <2>2. PICK n \in Bad : \A m \in Bad : n <= m
    BY <2>1, LeastNatural
  <2>3. n # 0 /\ n \in 0 .. N /\ f[n] # g[n]
    BY <1>2, <1>3
  <2>4. n \in 1 .. N /\ n - 1 \in 0 .. N /\ n - 1 \notin Bad
    BY <1>0, <2>2, <2>3
  <2>5. f[n] = f[n - 1] \o p[n] /\ g[n] = g[n - 1] \o p[n]
    BY <1>0, <1>1, <1>2, <1>3, <2>4, Zenon
  <2>6. QED
    BY <2>3, <2>4, <2>5
<1>6. PICK t : t = g[N]
  OBVIOUS
<1>7. t \in Seq(S) /\ f[N] = t
  BY <1>1, <1>3, <1>5, <1>6, Zenon
<1>8. \A n \in 0 .. M : f[N + n] = t \o h[n]
  <2> DEFINE Bad == {n \in 0 .. M : f[N + n] # t \o h[n]}
  <2> SUFFICES ASSUME Bad # {} PROVE FALSE
    BY Zenon
  <2>1. Bad \in SUBSET Nat
    BY <1>0
  <2>2. PICK n \in Bad : \A m \in Bad : n <= m
    BY <2>1, LeastNatural, Zenon
  <2>3. n \in 0 .. M /\ f[N + n] # t \o h[n]
    BY Zenon
  <2>4. CASE n = 0
    <3>1. t \o <<>> = t
      BY <1>7, ConcatEmptySeq, Zenon
    <3>2. N + 0 = N
      BY <1>0
    <3>3. t \o h[n] = t /\ f[N + n] = t
      BY <1>4, <1>7, <2>4, <3>1, <3>2, Zenon
    <3>4. QED
      BY <2>3, <3>3, Zenon
  <2>5. CASE n # 0
    <3>1. n \in 1 .. M /\ n - 1 \in 0 .. M /\ (N + n) - 1 = N + (n - 1) /\ ~ (n <= n - 1)
      BY <1>0, <2>3, <2>5
    <3>2. n - 1 \notin Bad
      BY <2>2, <3>1, Zenon
    <3>3. f[N + (n - 1)] = t \o h[n - 1]
      BY <3>1, <3>2, Zenon
    <3>4. f[N + n] = f[(N + n) - 1] \o p[N + n] /\ r[n] = p[N + n]
      <4>1. N + n \in 1 .. N + M
        BY <1>0, <1>1, <3>1, Zenon
      <4>2. f[N + n] = f[(N + n) - 1] \o p[N + n]
        BY <1>2, <4>1, Zenon
      <4>3. r[n] = p[N + n]
        BY <1>0, <3>1, Zenon
      <4>4. QED
        BY <4>2, <4>3, Zenon
    <3>5. h[n] = h[n - 1] \o r[n] /\ h[n - 1] \in Seq(S) /\ r[n] \in Seq(S)
      BY <1>0, <1>1, <1>4, <3>1, Zenon
    <3>6. (t \o h[n - 1]) \o r[n] = t \o (h[n - 1] \o r[n])
      <4> HIDE DEF Bad
      <4>1. PICK u, v : u = h[n - 1] /\ v = r[n]
        OBVIOUS
      <4>2. t \in Seq(S) /\ u \in Seq(S) /\ v \in Seq(S)
        BY <1>7, <3>5, <4>1, Zenon
      <4>3. (t \o u) \o v = t \o (u \o v)
        BY <4>2, ConcatAssociative
      <4>4. QED
        BY <4>1, <4>3, Zenon
    <3>7. f[N + n] = (t \o h[n - 1]) \o r[n]
      BY <3>1, <3>3, <3>4, Zenon
    <3>8. QED
      BY <2>3, <3>5, <3>6, <3>7, Zenon
  <2>6. QED
    BY <2>4, <2>5, Zenon
<1>9. QED
  BY <1>1, <1>6, <1>8, Zenon DEF Joins
=============================================================================
