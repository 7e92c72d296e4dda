----------------------------- MODULE SortProofs -----------------------------
(***************************************************************************)
(* What the sort does to an array, for any array of integers, thresholds   *)
(* and block size, with and without the branchless partition.              *)
(***************************************************************************)
EXTENDS Sort, FiniteSetTheorems, FunctionTheorems, ProofLemmas

-----------------------------------------------------------------------------
(* Induction and recursion on the numbers of an interval.                  *)

LEMMA Induction ==
  ASSUME NEW a \in Int, NEW m \in Int, NEW G, a \in G,
         \A i \in a + 1 .. m : i - 1 \in G => i \in G
  PROVE  \A i \in a .. m : i \in G
<1> DEFINE Bad == {k \in Nat : a + k <= m /\ a + k \notin G}
<1>1. CASE Bad = {}
  <2> SUFFICES ASSUME NEW i \in a .. m PROVE i \in G
    OBVIOUS
  <2>1. i - a \in Nat /\ a + (i - a) = i /\ i <= m
    OBVIOUS
  <2>2. i - a \notin Bad
    BY <1>1, Zenon
  <2> QED BY <2>1, <2>2
<1>2. CASE Bad # {}
  <2>1. PICK k \in Bad : \A j \in Bad : k <= j
    BY <1>2, LeastNatural
  <2>2. k # 0
    OBVIOUS
  <2>3. k - 1 \in Nat /\ k - 1 \notin Bad /\ a + k \in a + 1 .. m /\ (a + k) - 1 = a + (k - 1)
    BY <2>1, <2>2
  <2> QED BY <2>3
<1> QED BY <1>1, <1>2

\* f follows the recursion: it is `init' at the base, and what `step' makes of
\* the value at the next index elsewhere.
Follows(f, K, base, init, next, step) ==
  \A k \in K : f[k] = IF k \in base THEN init[k] ELSE step[k][f[next[k]]]

\* The recursion comes to its base within M steps, and keeps to the values T.
Recurs(K, T, M, rank, base, init, next, step) ==
  /\ M \in Nat /\ rank \in [K -> 0 .. M]
  /\ \A k \in K : IF k \in base THEN init[k] \in T
                  ELSE /\ next[k] \in K /\ rank[next[k]] < rank[k]
                       /\ \A t \in T : step[k][t] \in T

\* Such a function exists.
LEMMA RecursionExists ==
  ASSUME NEW K, NEW T, NEW M, NEW rank, NEW base, NEW init, NEW next, NEW step,
         Recurs(K, T, M, rank, base, init, next, step)
  PROVE  \E f \in [K -> T] : Follows(f, K, base, init, next, step)
<1> DEFINE Low(m) == {k \in K : rank[k] < m}
           G == {m \in Int : \E f \in [Low(m) -> T] : Follows(f, Low(m), base, init, next, step)}
<1>0. M \in Nat /\ rank \in [K -> 0 .. M]
  BY DEF Recurs
<1>1. 0 \in G
  <2>1. Low(0) = {}
    BY <1>0
  <2> DEFINE f == [k \in Low(0) |-> init[k]]
  <2>2. f \in [Low(0) -> T] /\ Follows(f, Low(0), base, init, next, step)
    BY <2>1 DEF Follows
  <2> QED BY <2>2
<1>2. ASSUME NEW m \in 1 .. M + 1, m - 1 \in G PROVE m \in G
  <2>1. PICK f \in [Low(m - 1) -> T] : Follows(f, Low(m - 1), base, init, next, step)
    BY <1>2
  <2> DEFINE g == [k \in Low(m) |-> IF k \in base THEN init[k] ELSE step[k][f[next[k]]]]
  <2>2. ASSUME NEW k \in Low(m), k \notin base PROVE next[k] \in Low(m - 1) /\ f[next[k]] \in T
    <3>1. next[k] \in K /\ rank[next[k]] < rank[k] /\ rank[k] < m
      BY <2>2 DEF Recurs
    <3>2. rank[next[k]] \in Int /\ rank[k] \in Int /\ m \in Int
      BY <1>0, <3>1
    <3> QED BY <3>1, <3>2
  <2>3. ASSUME NEW k \in Low(m - 1) PROVE k \in Low(m) /\ g[k] = f[k]
    <3>1. k \in Low(m)
      BY <1>0
    <3> QED BY <2>1, <3>1 DEF Follows
  <2>4. g \in [Low(m) -> T]
    BY <2>2 DEF Recurs
  <2>5. Follows(g, Low(m), base, init, next, step)
    <3> SUFFICES ASSUME NEW k \in Low(m)
                 PROVE  g[k] = IF k \in base THEN init[k] ELSE step[k][g[next[k]]]
      BY DEF Follows
    <3>1. g[k] = IF k \in base THEN init[k] ELSE step[k][f[next[k]]]
      OBVIOUS
    <3>2. CASE k \in base
      BY <3>1, <3>2
    <3>3. CASE k \notin base
      <4>1. g[next[k]] = f[next[k]]
        BY <2>2, <2>3, <3>3
      <4> QED BY <3>1, <3>3, <4>1
    <3> QED BY <3>2, <3>3
  <2> HIDE DEF g, Low
  <2>6. m \in Int /\ \E h \in [Low(m) -> T] : Follows(h, Low(m), base, init, next, step)
    BY <2>4, <2>5
  <2> QED BY <2>6, Zenon
<1>3. \A m \in 0 .. M + 1 : m \in G
  <2> HIDE DEF G
  <2>1. 0 \in Int /\ M + 1 \in Int /\ \A m \in 0 + 1 .. M + 1 : m - 1 \in G => m \in G
    BY <1>0, <1>2
  <2> QED BY <1>1, <2>1, Induction
<1>4. Low(M + 1) = K
  BY <1>0
<1>5. M + 1 \in G
  BY <1>0, <1>3, SMTT(60)
<1> QED BY <1>4, <1>5

\* Any other function that follows the recursion has the same values.
LEMMA RecursionKeepsTo ==
  ASSUME NEW K, NEW T, NEW M, NEW rank, NEW base, NEW init, NEW next, NEW step,
         Recurs(K, T, M, rank, base, init, next, step),
         NEW f,
         \A k \in K : IF k \in base THEN f[k] = init[k]
                      ELSE f[next[k]] \in T => f[k] = step[k][f[next[k]]]
  PROVE  \A k \in K : f[k] \in T
<1> DEFINE G == {m \in Int : \A k \in K : rank[k] < m => f[k] \in T}
<1>0. M \in Nat /\ rank \in [K -> 0 .. M]
  BY DEF Recurs
<1>1. 0 \in G
  BY <1>0
<1>2. ASSUME NEW m \in 1 .. M + 1, m - 1 \in G PROVE m \in G
  <2> SUFFICES ASSUME NEW k \in K, rank[k] < m PROVE f[k] \in T
    OBVIOUS
  <2>1. CASE k \in base
    BY <2>1 DEF Recurs
  <2>2. CASE k \notin base
    <3>1. next[k] \in K /\ rank[next[k]] < rank[k] /\ \A t \in T : step[k][t] \in T
      BY <2>2 DEF Recurs
    <3>2. rank[next[k]] < m - 1
      BY <1>0, <3>1
    <3>3. f[next[k]] \in T
      BY <1>2, <3>1, <3>2
    <3> QED BY <2>2, <3>1, <3>3
  <2> QED BY <2>1, <2>2
<1>3. M + 1 \in G
  <2> HIDE DEF G
  <2>1. 0 \in Int /\ M + 1 \in Int /\ M + 1 \in 0 .. M + 1 /\ \A m \in 0 + 1 .. M + 1 : m - 1 \in G => m \in G
    BY <1>0, <1>2
  <2>2. \A m \in 0 .. M + 1 : m \in G
    BY <1>1, <2>1, Induction
  <2> QED BY <2>1, <2>2
<1> QED BY <1>0, <1>3

-----------------------------------------------------------------------------
(* Rearranging a part of an array.                                         *)

Arrays(n) == [0 .. n - 1 -> Int]

\* p takes lo .. hi - 1 onto itself and leaves the other positions alone.
Permutes(p, n, lo, hi) ==
  /\ \A i \in 0 .. n - 1 : \E k \in 0 .. n - 1 : p[k] = i
  /\ \A k \in 0 .. n - 1 : IF lo <= k /\ k < hi THEN lo <= p[k] /\ p[k] < hi ELSE p[k] = k

Rearranged(n, s, t, lo, hi) ==
  /\ s \in Arrays(n) /\ t \in Arrays(n)
  /\ \E p \in [0 .. n - 1 -> 0 .. n - 1] :
       Permutes(p, n, lo, hi) /\ \A k \in 0 .. n - 1 : t[k] = s[p[k]]

\* No element before x is greater than one from x on.
Border(n, s, x) == \A i \in 0 .. x - 1, j \in x .. n - 1 : s[i] <= s[j]

LEMMA RearrangedRefl ==
  ASSUME NEW n \in Nat, NEW s \in Arrays(n), NEW lo \in Int, NEW hi \in Int
  PROVE  Rearranged(n, s, s, lo, hi)
<1> DEFINE p == [k \in 0 .. n - 1 |-> k]
<1>1. p \in [0 .. n - 1 -> 0 .. n - 1] /\ Permutes(p, n, lo, hi) /\ \A k \in 0 .. n - 1 : s[k] = s[p[k]]
  BY DEF Permutes
<1> QED BY <1>1 DEF Rearranged

LEMMA RearrangedTrans ==
  ASSUME NEW n \in Nat, NEW lo \in Int, NEW hi \in Int, NEW s, NEW t, NEW u,
         Rearranged(n, s, t, lo, hi), Rearranged(n, t, u, lo, hi)
  PROVE  Rearranged(n, s, u, lo, hi)
<1>1. PICK p \in [0 .. n - 1 -> 0 .. n - 1] : Permutes(p, n, lo, hi) /\ \A k \in 0 .. n - 1 : t[k] = s[p[k]]
  BY DEF Rearranged
<1>2. PICK q \in [0 .. n - 1 -> 0 .. n - 1] : Permutes(q, n, lo, hi) /\ \A k \in 0 .. n - 1 : u[k] = t[q[k]]
  BY DEF Rearranged
<1> DEFINE r == [k \in 0 .. n - 1 |-> p[q[k]]]
<1>3. r \in [0 .. n - 1 -> 0 .. n - 1] /\ \A k \in 0 .. n - 1 : u[k] = s[r[k]]
  BY <1>1, <1>2
<1>4. ASSUME NEW i \in 0 .. n - 1 PROVE \E k \in 0 .. n - 1 : r[k] = i
  <2>1. PICK j \in 0 .. n - 1 : p[j] = i
    BY <1>1 DEF Permutes
  <2>2. PICK k \in 0 .. n - 1 : q[k] = j
    BY <1>2 DEF Permutes
  <2> QED BY <2>1, <2>2
<1>5. ASSUME NEW k \in 0 .. n - 1
      PROVE  IF lo <= k /\ k < hi THEN lo <= r[k] /\ r[k] < hi ELSE r[k] = k
  <2>1. q[k] \in 0 .. n - 1
    OBVIOUS
  <2>2. IF lo <= k /\ k < hi THEN lo <= q[k] /\ q[k] < hi ELSE q[k] = k
    BY <1>2 DEF Permutes
  <2>3. IF lo <= q[k] /\ q[k] < hi THEN lo <= p[q[k]] /\ p[q[k]] < hi ELSE p[q[k]] = q[k]
    BY <1>1, <2>1 DEF Permutes
  <2> QED BY <2>2, <2>3
<1>6. Permutes(r, n, lo, hi)
  BY <1>4, <1>5 DEF Permutes
<1> QED BY <1>3, <1>6 DEF Rearranged

LEMMA RearrangedWider ==
  ASSUME NEW n \in Nat, NEW lo \in Int, NEW hi \in Int, NEW from \in Int, NEW to \in Int,
         from <= lo, hi <= to, NEW s, NEW t, Rearranged(n, s, t, lo, hi)
  PROVE  Rearranged(n, s, t, from, to)
<1>1. PICK p \in [0 .. n - 1 -> 0 .. n - 1] : Permutes(p, n, lo, hi) /\ \A k \in 0 .. n - 1 : t[k] = s[p[k]]
  BY DEF Rearranged
<1>2. Permutes(p, n, from, to)
  <2>1. ASSUME NEW k \in 0 .. n - 1
        PROVE  IF from <= k /\ k < to THEN from <= p[k] /\ p[k] < to ELSE p[k] = k
    <3>1. p[k] \in 0 .. n - 1
      OBVIOUS
    <3>2. IF lo <= k /\ k < hi THEN lo <= p[k] /\ p[k] < hi ELSE p[k] = k
      BY <1>1 DEF Permutes
    <3> QED BY <3>1, <3>2
  <2> QED BY <1>1, <2>1 DEF Permutes
<1> QED BY <1>1, <1>2 DEF Rearranged

\* The rest of the array is as it was.
SameOutside(n, s, t, lo, hi) == \A k \in 0 .. n - 1 : ~(lo <= k /\ k < hi) => t[k] = s[k]

LEMMA RearrangedOutside ==
  ASSUME NEW n \in Nat, NEW lo \in Int, NEW hi \in Int, NEW s, NEW t, Rearranged(n, s, t, lo, hi)
  PROVE  s \in Arrays(n) /\ t \in Arrays(n) /\ SameOutside(n, s, t, lo, hi)
<1>1. PICK p \in [0 .. n - 1 -> 0 .. n - 1] : Permutes(p, n, lo, hi) /\ \A k \in 0 .. n - 1 : t[k] = s[p[k]]
  BY DEF Rearranged
<1>2. ASSUME NEW k \in 0 .. n - 1, ~(lo <= k /\ k < hi) PROVE t[k] = s[k]
  BY <1>1, <1>2 DEF Permutes
<1> QED BY <1>2 DEF Rearranged, SameOutside

\* A border that is not within the part stays one.
LEMMA RearrangedBorder ==
  ASSUME NEW n \in Nat, NEW lo \in Int, NEW hi \in Int, NEW s, NEW t, Rearranged(n, s, t, lo, hi),
         NEW x \in Int, x <= lo \/ hi <= x, Border(n, s, x)
  PROVE  Border(n, t, x)
<1>1. PICK p \in [0 .. n - 1 -> 0 .. n - 1] : Permutes(p, n, lo, hi) /\ \A q \in 0 .. n - 1 : t[q] = s[p[q]]
  BY DEF Rearranged
<1>2. ASSUME NEW k \in 0 .. n - 1 PROVE p[k] \in 0 .. n - 1 /\ (k < x <=> p[k] < x)
  <2>1. IF lo <= k /\ k < hi THEN lo <= p[k] /\ p[k] < hi ELSE p[k] = k
    BY <1>1 DEF Permutes
  <2> QED BY <2>1, SMTT(60)
<1>3. ASSUME NEW i \in 0 .. x - 1, NEW j \in x .. n - 1 PROVE t[i] <= t[j]
  <2>0. CASE i >= n
    BY <1>3, <2>0
  <2>1. CASE i < n /\ 0 <= j
    <3>1. i \in 0 .. n - 1 /\ j \in 0 .. n - 1
      BY <2>1
    <3>2. p[i] \in 0 .. x - 1 /\ p[j] \in x .. n - 1
      BY <1>2, <3>1
    <3> QED BY <1>1, <3>1, <3>2 DEF Border
  <2> QED BY <2>0, <2>1
<1> QED BY <1>3 DEF Border

LEMMA SwapRearranges ==
  ASSUME NEW n \in Nat, NEW s \in Arrays(n), NEW lo \in Nat, NEW hi \in Nat, hi <= n,
         NEW i \in lo .. hi - 1, NEW j \in lo .. hi - 1
  PROVE  Rearranged(n, s, Swapped(s, i, j), lo, hi)
<1> DEFINE p == [k \in 0 .. n - 1 |-> IF k = i THEN j ELSE IF k = j THEN i ELSE k]
           t == Swapped(s, i, j)
<1>0. i \in 0 .. n - 1 /\ j \in 0 .. n - 1
  OBVIOUS
<1>1. t \in Arrays(n) /\ \A k \in 0 .. n - 1 : t[k] = s[p[k]]
  BY <1>0 DEF Arrays, Swapped
<1>2. p \in [0 .. n - 1 -> 0 .. n - 1]
  BY <1>0
<1>3. ASSUME NEW k \in 0 .. n - 1 PROVE \E q \in 0 .. n - 1 : p[q] = k
  <2>1. p[k] \in 0 .. n - 1 /\ p[p[k]] = k
    BY <1>0
  <2> QED BY <2>1
<1>4. Permutes(p, n, lo, hi)
  BY <1>0, <1>3 DEF Permutes
<1> HIDE DEF p, t
<1>5. Rearranged(n, s, t, lo, hi)
  BY <1>1, <1>2, <1>4 DEF Rearranged
<1> QED BY <1>5 DEF t

LEMMA SwapValues ==
  ASSUME NEW n \in Nat, NEW s \in Arrays(n), NEW i \in 0 .. n - 1, NEW j \in 0 .. n - 1
  PROVE  /\ Swapped(s, i, j) \in Arrays(n)
         /\ \A k \in 0 .. n - 1 : Swapped(s, i, j)[k] = IF k = i THEN s[j] ELSE IF k = j THEN s[i] ELSE s[k]
BY DEF Arrays, Swapped

\* How often x is in s.
TimesIn(n, s, x) == Cardinality({k \in 0 .. n - 1 : s[k] = x})

\* As often as before.
LEMMA RearrangedElements ==
  ASSUME NEW n \in Nat, NEW lo \in Int, NEW hi \in Int, NEW s, NEW t, Rearranged(n, s, t, lo, hi), NEW x
  PROVE  TimesIn(n, t, x) = TimesIn(n, s, x)
<1>1. PICK p \in [0 .. n - 1 -> 0 .. n - 1] : Permutes(p, n, lo, hi) /\ \A q \in 0 .. n - 1 : t[q] = s[p[q]]
  BY DEF Rearranged
<1>2. IsFiniteSet(0 .. n - 1)
  BY FS_Interval
<1>3. p \in Surjection(0 .. n - 1, 0 .. n - 1)
  BY <1>1, Fun_IsSurj DEF Permutes
<1>4. p \in Injection(0 .. n - 1, 0 .. n - 1)
  BY <1>2, <1>3, FS_Surjection
<1>5. \A i, j \in 0 .. n - 1 : p[i] = p[j] => i = j
  <2> DEFINE S == 0 .. n - 1
  <2>1. p \in Injection(S, S)
    BY <1>4
  <2> HIDE DEF S
  <2>2. \A i, j \in S : p[i] = p[j] => i = j
    BY <2>1, Fun_InjectionProperties
  <2> QED BY <2>2 DEF S
<1> DEFINE A == {k \in 0 .. n - 1 : t[k] = x}
           B == {k \in 0 .. n - 1 : s[k] = x}
           f == [k \in A |-> p[k]]
<1>6. f \in [A -> B] /\ \A i, j \in A : f[i] = f[j] => i = j
  BY <1>1, <1>5
<1>7. ASSUME NEW i \in B PROVE \E k \in A : f[k] = i
  <2>1. PICK k \in 0 .. n - 1 : p[k] = i
    BY <1>1 DEF Permutes
  <2>2. k \in A
    BY <1>1, <2>1
  <2> QED BY <2>1, <2>2
<1> HIDE DEF f
<1>8. f \in Bijection(A, B)
  BY <1>6, <1>7, Fun_IsBij
<1>9. IsFiniteSet(A)
  BY <1>2, FS_Subset
<1> HIDE DEF A, B
<1>10. ExistsBijection(A, B)
  BY <1>8 DEF ExistsBijection
<1>11. Cardinality(B) = Cardinality(A)
  BY <1>9, <1>10, FS_Bijection
<1> QED BY <1>11 DEF A, B, TimesIn

-----------------------------------------------------------------------------
(* Swapping pairs one after the other.                                     *)

Positions(n) == (0 .. n - 1) \X (0 .. n - 1)

\* The arrays that the swaps lead through.
SwapTrace(n, s, pairs, A) ==
  /\ A[0] = s /\ \A i \in 0 .. Len(pairs) : A[i] \in Arrays(n)
  /\ \A i \in 1 .. Len(pairs) : A[i] = Swapped(A[i - 1], pairs[i][1], pairs[i][2])
  /\ SwappedAll(s, pairs) = A[Len(pairs)]

LEMMA SwappedAllIs ==
  ASSUME NEW n \in Nat, NEW s \in Arrays(n), NEW pairs \in Seq(Positions(n))
  PROVE  \E A : SwapTrace(n, s, pairs, A)
<1> DEFINE m == Len(pairs)
           K == 0 .. m
           T == Arrays(n)
           rank == [k \in K |-> k]
           init == [k \in K |-> s]
           next == [k \in K |-> k - 1]
           step == [k \in K |-> [t \in T |-> Swapped(t, pairs[k][1], pairs[k][2])]]
           Solves(f) == f = [k \in 0 .. m |-> IF k = 0 THEN s ELSE Swapped(f[k - 1], pairs[k][1], pairs[k][2])]
           A == CHOOSE f : Solves(f)
<1>1. m \in Nat /\ \A k \in 1 .. m : pairs[k] \in Positions(n)
  BY LenProperties
<1>2. ASSUME NEW k \in 1 .. m, NEW t \in T PROVE Swapped(t, pairs[k][1], pairs[k][2]) \in T
  <2>1. pairs[k][1] \in 0 .. n - 1 /\ pairs[k][2] \in 0 .. n - 1
    BY <1>1 DEF Positions
  <2>2. t \in Arrays(n)
    OBVIOUS
  <2> DEFINE i == pairs[k][1]
             j == pairs[k][2]
  <2>3. i \in 0 .. n - 1 /\ j \in 0 .. n - 1
    BY <2>1
  <2> HIDE DEF i, j, T
  <2>4. Swapped(t, i, j) \in Arrays(n)
    BY <2>2, <2>3, SwapValues
  <2> QED BY <2>4 DEF i, j, T
<1>3. Recurs(K, T, m, rank, {0}, init, next, step)
  BY <1>1, <1>2 DEF Recurs
<1>4. PICK f \in [K -> T] : Follows(f, K, {0}, init, next, step)
  <2> HIDE DEF K, T, m, rank, init, next, step
  <2> QED BY <1>3, RecursionExists
<1>5. Solves(f)
  <2>1. ASSUME NEW k \in K PROVE f[k] = IF k = 0 THEN s ELSE Swapped(f[k - 1], pairs[k][1], pairs[k][2])
    <3>1. CASE k = 0
      BY <1>4, <3>1 DEF Follows
    <3>2. CASE k # 0
      <4>1. k - 1 \in K /\ f[k - 1] \in T
        BY <1>1, <3>2
      <4>2. f[k] = step[k][f[next[k]]]
        BY <1>4, <3>2 DEF Follows
      <4> QED BY <3>2, <4>1, <4>2
    <3> QED BY <3>1, <3>2
  <2> QED BY <2>1
<1>6. Solves(A)
  BY <1>5
<1>7. SwappedAll(s, pairs) = A[Len(pairs)]
  BY DEF SwappedAll
<1> HIDE DEF A
<1>8. /\ A[0] = s
      /\ \A k \in 1 .. m : A[k] = Swapped(A[k - 1], pairs[k][1], pairs[k][2])
  <2>1. 0 \in 0 .. m /\ \A k \in 1 .. m : k \in 0 .. m /\ k # 0
    BY <1>1
  <2> QED BY <1>6, <2>1, Zenon
<1>9. \A k \in 0 .. m : A[k] \in T
  <2> DEFINE G == {k \in 0 .. m : A[k] \in T}
  <2>1. 0 \in G
    BY <1>1, <1>8
  <2>2. \A k \in 0 + 1 .. m : k - 1 \in G => k \in G
    BY <1>1, <1>2, <1>8
  <2>3. 0 \in Int /\ m \in Int
    BY <1>1
  <2> HIDE DEF G, m
  <2>4. \A k \in 0 .. m : k \in G
    BY <2>1, <2>2, <2>3, Induction
  <2> QED BY <2>4 DEF G
<1> QED BY <1>7, <1>8, <1>9 DEF SwapTrace

\* Every swap is within lo .. mid - 1 or within mid + 1 .. hi - 1.
Aside(pair, lo, mid, hi) ==
  \/ pair[1] \in lo .. mid - 1 /\ pair[2] \in lo .. mid - 1
  \/ pair[1] \in mid + 1 .. hi - 1 /\ pair[2] \in mid + 1 .. hi - 1

LEMMA SwappedAllAside ==
  ASSUME NEW n \in Nat, NEW s \in Arrays(n), NEW pairs \in Seq(Positions(n)),
         NEW lo \in Nat, NEW mid \in Nat, NEW hi \in Nat, lo <= mid, mid < hi, hi <= n,
         \A i \in 1 .. Len(pairs) : Aside(pairs[i], lo, mid, hi),
         Border(n, s, mid), Border(n, s, mid + 1)
  PROVE  /\ Rearranged(n, s, SwappedAll(s, pairs), lo, hi)
         /\ Border(n, SwappedAll(s, pairs), mid) /\ Border(n, SwappedAll(s, pairs), mid + 1)
<1>1. PICK A : SwapTrace(n, s, pairs, A)
  BY SwappedAllIs
<1>2. Len(pairs) \in Nat
  BY LenProperties
<1> DEFINE Good(t) == Rearranged(n, s, t, lo, hi) /\ Border(n, t, mid) /\ Border(n, t, mid + 1)
           G == {i \in 0 .. Len(pairs) : Good(A[i])}
<1>3. 0 \in G
  BY <1>1, <1>2, RearrangedRefl DEF SwapTrace
<1>4. ASSUME NEW i \in 0 + 1 .. Len(pairs), i - 1 \in G PROVE i \in G
  <2> DEFINE t == A[i - 1]
             x == pairs[i][1]
             y == pairs[i][2]
             u == Swapped(t, x, y)
  <2>1. i \in 1 .. Len(pairs) /\ i - 1 \in 0 .. Len(pairs) /\ i \in 0 .. Len(pairs)
    BY <1>2
  <2>2. t \in Arrays(n) /\ A[i] = u /\ Good(t)
    BY <1>1, <1>4, <2>1 DEF SwapTrace
  <2> HIDE DEF t
  <2>3. ASSUME x \in lo .. mid - 1 /\ y \in lo .. mid - 1 PROVE Good(u)
    <3>1. Rearranged(n, t, u, lo, mid)
      BY <2>2, <2>3, SwapRearranges, SMTT(60)
    <3> HIDE DEF u, x, y
    <3>2. Border(n, u, mid) /\ Border(n, u, mid + 1)
      BY <2>2, <3>1, RearrangedBorder
    <3>3. Rearranged(n, t, u, lo, hi)
      BY <3>1, RearrangedWider
    <3> QED BY <2>2, <3>2, <3>3, RearrangedTrans
  <2>4. ASSUME x \in mid + 1 .. hi - 1 /\ y \in mid + 1 .. hi - 1 PROVE Good(u)
    <3>1. mid + 1 \in Nat
      OBVIOUS
    <3>2. Rearranged(n, t, u, mid + 1, hi)
      BY <2>2, <2>4, <3>1, SwapRearranges
    <3> HIDE DEF u, x, y
    <3>6. mid \in Int /\ mid <= mid + 1 /\ Border(n, t, mid)
      BY <2>2
    <3>3. Border(n, u, mid)
      BY <3>1, <3>2, <3>6, RearrangedBorder
    <3>7. mid + 1 \in Int /\ mid + 1 <= mid + 1 /\ Border(n, t, mid + 1)
      BY <2>2, <3>1
    <3>5. Border(n, u, mid + 1)
      BY <3>1, <3>2, <3>7, RearrangedBorder
    <3>4. Rearranged(n, t, u, lo, hi)
      BY <3>1, <3>2, RearrangedWider
    <3> QED BY <2>2, <3>3, <3>4, <3>5, RearrangedTrans
  <2>5. Good(A[i])
    <3> HIDE DEF Good, u, x, y
    <3>1. Aside(pairs[i], lo, mid, hi)
      BY <2>1
    <3>2. \/ x \in lo .. mid - 1 /\ y \in lo .. mid - 1
          \/ x \in mid + 1 .. hi - 1 /\ y \in mid + 1 .. hi - 1
      BY <3>1 DEF Aside, x, y
    <3>3. Good(u)
      BY <2>3, <2>4, <3>2
    <3> QED BY <2>2, <3>3
  <2> QED BY <2>1, <2>5
<1> HIDE DEF G
<1>5. \A i \in 0 .. Len(pairs) : i \in G
  <2>1. 0 \in Int /\ Len(pairs) \in Int
    BY <1>2
  <2> QED BY <1>3, <1>4, <2>1, Induction
<1>6. Good(A[Len(pairs)])
  BY <1>2, <1>5 DEF G
<1> QED BY <1>1, <1>6 DEF SwapTrace

-----------------------------------------------------------------------------
(* The searches.                                                           *)

\* x is the next of the stops above k, or below k.
IsAbove(n, stops, k, x) ==
  /\ x \in k + 1 .. n /\ (x < n => x \in stops)
  /\ \A j \in stops : k < j => x <= j
IsBelow(stops, k, x) ==
  /\ x \in -1 .. k - 1 /\ (0 <= x => x \in stops)
  /\ \A j \in stops : j < k => j <= x

LEMMA AboveIs ==
  ASSUME NEW n \in Nat, Size = n, NEW stops \in SUBSET (0 .. n - 1), NEW k \in 0 .. n - 1
  PROVE  IsAbove(n, stops, k, Above(stops, k))
<1> DEFINE found == {j \in stops : j > k}
<1>1. CASE found = {}
  <2>1. Above(stops, k) = n
    BY <1>1 DEF Above
  <2>2. \A j \in stops : ~(k < j)
    BY <1>1
  <2> QED BY <2>1, <2>2 DEF IsAbove
<1>2. CASE found # {}
  <2>1. found \in SUBSET Nat
    <3>1. \A j \in stops : j \in Nat
      OBVIOUS
    <3> QED BY <3>1
  <2>2. \E j \in found : \A i \in found : j <= i
    <3> HIDE DEF found
    <3> QED BY <1>2, <2>1, LeastNatural
  <2> DEFINE least == CHOOSE j \in found : \A i \in found : j <= i
  <2>3. least \in found /\ \A i \in found : least <= i
    <3> HIDE DEF found
    <3> QED BY <2>2
  <2>4. Above(stops, k) = least
    BY <1>2 DEF Above
  <2> HIDE DEF least
  <2> QED BY <2>3, <2>4 DEF IsAbove
<1> QED BY <1>1, <1>2

LEMMA BelowIs ==
  ASSUME NEW n \in Nat, NEW stops \in SUBSET (0 .. n - 1), NEW k \in Nat
  PROVE  IsBelow(stops, k, Below(stops, k))
<1> DEFINE found == {j \in stops : j < k}
           distances == {n - j : j \in found}
<1>1. CASE found = {}
  <2>1. Below(stops, k) = -1
    BY <1>1 DEF Below
  <2>2. \A j \in stops : ~(j < k)
    BY <1>1
  <2> QED BY <2>1, <2>2 DEF IsBelow
<1>2. CASE found # {}
  <2>1. distances \in SUBSET Nat /\ distances # {}
    <3>1. \A j \in stops : n - j \in Nat
      OBVIOUS
    <3> QED BY <1>2, <3>1
  <2>2. PICK d \in distances : \A i \in distances : d <= i
    <3> HIDE DEF distances
    <3> QED BY <2>1, LeastNatural
  <2>3. PICK g \in found : d = n - g
    OBVIOUS
  <2>4. ASSUME NEW i \in found PROVE g >= i
    <3>1. n - i \in distances
      OBVIOUS
    <3>2. d <= n - i
      BY <2>2, <3>1
    <3> QED BY <2>3, <3>2
  <2> DEFINE greatest == CHOOSE j \in found : \A i \in found : j >= i
  <2>5. greatest \in found /\ \A i \in found : greatest >= i
    <3> HIDE DEF found
    <3> QED BY <2>4
  <2>6. Below(stops, k) = greatest
    BY <1>2 DEF Below
  <2> HIDE DEF greatest
  <2> QED BY <2>5, <2>6 DEF IsBelow
<1> QED BY <1>1, <1>2

-----------------------------------------------------------------------------
(* The choice of the pivot.                                                *)

LEMMA Sort2Is ==
  ASSUME NEW n \in Nat, NEW s \in Arrays(n), NEW lo \in Nat, NEW hi \in Nat, hi <= n,
         NEW i \in lo .. hi - 1, NEW j \in lo .. hi - 1, i # j
  PROVE  /\ Rearranged(n, s, sort2(s, i, j), lo, hi) /\ sort2(s, i, j) \in Arrays(n)
         /\ LET t == sort2(s, i, j)
            IN  /\ t[i] <= t[j]
                /\ (t[i] = s[i] /\ t[j] = s[j]) \/ (t[i] = s[j] /\ t[j] = s[i])
                /\ \A k \in 0 .. n - 1 : k # i /\ k # j => t[k] = s[k]
<1>0. i \in 0 .. n - 1 /\ j \in 0 .. n - 1 /\ s[i] \in Int /\ s[j] \in Int
  BY DEF Arrays
<1>1. CASE s[j] < s[i]
  <2>1. sort2(s, i, j) = Swapped(s, i, j)
    BY <1>1 DEF sort2
  <2>2. Rearranged(n, s, Swapped(s, i, j), lo, hi)
    BY SwapRearranges
  <2>3. /\ Swapped(s, i, j) \in Arrays(n)
        /\ \A k \in 0 .. n - 1 : Swapped(s, i, j)[k] = IF k = i THEN s[j] ELSE IF k = j THEN s[i] ELSE s[k]
    BY <1>0, SwapValues
  <2> QED BY <1>0, <1>1, <2>1, <2>2, <2>3
<1>2. CASE ~(s[j] < s[i])
  <2>1. sort2(s, i, j) = s
    BY <1>2 DEF sort2
  <2>2. Rearranged(n, s, s, lo, hi)
    BY RearrangedRefl
  <2>3. s[i] <= s[j]
    BY <1>0, <1>2
  <2> QED BY <2>1, <2>2, <2>3
<1> QED BY <1>1, <1>2

LEMMA Sort3Is ==
  ASSUME NEW n \in Nat, NEW s \in Arrays(n), NEW lo \in Nat, NEW hi \in Nat, hi <= n,
         NEW i \in lo .. hi - 1, NEW j \in lo .. hi - 1, NEW k \in lo .. hi - 1, i # j, j # k, i # k
  PROVE  /\ Rearranged(n, s, sort3(s, i, j, k), lo, hi) /\ sort3(s, i, j, k) \in Arrays(n)
         /\ sort3(s, i, j, k)[j] <= sort3(s, i, j, k)[k]
<1> DEFINE t == sort2(s, i, j)
           u == sort2(t, j, k)
           v == sort2(u, i, j)
<1>0. i \in 0 .. n - 1 /\ j \in 0 .. n - 1 /\ k \in 0 .. n - 1
  OBVIOUS
<1>1. Rearranged(n, s, t, lo, hi) /\ t \in Arrays(n) /\ t[i] <= t[j]
  BY Sort2Is
<1> HIDE DEF t
<1>2. Rearranged(n, t, u, lo, hi) /\ u \in Arrays(n)
      /\ u[j] <= u[k] /\ ((u[j] = t[j] /\ u[k] = t[k]) \/ (u[j] = t[k] /\ u[k] = t[j])) /\ u[i] = t[i]
  BY <1>0, <1>1, Sort2Is
<1> HIDE DEF u
<1>3. Rearranged(n, u, v, lo, hi) /\ v \in Arrays(n)
      /\ ((v[i] = u[i] /\ v[j] = u[j]) \/ (v[i] = u[j] /\ v[j] = u[i])) /\ v[k] = u[k]
  BY <1>0, <1>2, Sort2Is
<1> HIDE DEF v
<1>4. Rearranged(n, s, v, lo, hi)
  <2>1. Rearranged(n, s, u, lo, hi)
    BY <1>1, <1>2, RearrangedTrans
  <2> QED BY <1>3, <2>1, RearrangedTrans
<1>5. v[j] <= v[k]
  <2>1. t[i] \in Int /\ t[j] \in Int /\ t[k] \in Int
    BY <1>0, <1>1 DEF Arrays
  <2> QED BY <1>1, <1>2, <1>3, <2>1
<1> QED BY <1>3, <1>4, <1>5 DEF sort3, t, u, v

\* The pivot is in front, and there is an element behind it that is not less.
LEMMA WithPivotIs ==
  ASSUME NEW n \in Nat, NEW s \in Arrays(n), NEW b \in Nat, NEW e \in Nat, e <= n, e - b >= 4,
         ThresholdAssumption
  PROVE  /\ Rearranged(n, s, WithPivot(s, b, e), b, e) /\ WithPivot(s, b, e) \in Arrays(n)
         /\ \E k \in b + 1 .. e - 1 : WithPivot(s, b, e)[b] <= WithPivot(s, b, e)[k]
<1> DEFINE m == b + (e - b) \div 2
<1> USE DEF ThresholdAssumption
<1>0. m \in b + 2 .. e - 2 /\ (e - b >= 9 => m \in b + 4 .. e - 5)
  OBVIOUS
<1> HIDE DEF m
<1>1. CASE ~(e - b > ninther_threshold)
  <2>1. WithPivot(s, b, e) = sort3(s, m, b, e - 1)
    BY <1>1 DEF WithPivot, m
  <2>2. m \in b .. e - 1 /\ b \in b .. e - 1 /\ e - 1 \in b .. e - 1 /\ m # b /\ b # e - 1 /\ m # e - 1 /\ e - 1 \in b + 1 .. e - 1
    BY <1>0
  <2>3. /\ Rearranged(n, s, sort3(s, m, b, e - 1), b, e) /\ sort3(s, m, b, e - 1) \in Arrays(n)
        /\ sort3(s, m, b, e - 1)[b] <= sort3(s, m, b, e - 1)[e - 1]
    BY <2>2, Sort3Is
  <2> QED BY <2>1, <2>2, <2>3
<1>2. CASE e - b > ninther_threshold
  <2>0. e - b >= 9
    BY <1>2
  <2> DEFINE s1 == sort3(s, b, m, e - 1)
             s2 == sort3(s1, b + 1, m - 1, e - 2)
             s3 == sort3(s2, b + 2, m + 1, e - 3)
             s4 == sort3(s3, m - 1, m, m + 1)
             s5 == Swapped(s4, b, m)
  <2>1. WithPivot(s, b, e) = s5
    BY <1>2 DEF WithPivot, m
  <2>2. Rearranged(n, s, s1, b, e) /\ s1 \in Arrays(n)
    <3>1. m \in b .. e - 1 /\ b \in b .. e - 1 /\ e - 1 \in b .. e - 1 /\ b # m /\ m # e - 1 /\ b # e - 1
      BY <1>0, <2>0
    <3> QED BY <3>1, Sort3Is
  <2> HIDE DEF s1
  <2>3. Rearranged(n, s1, s2, b, e) /\ s2 \in Arrays(n)
    <3>1. m - 1 \in b .. e - 1 /\ b + 1 \in b .. e - 1 /\ e - 2 \in b .. e - 1 /\ b + 1 # m - 1 /\ m - 1 # e - 2 /\ b + 1 # e - 2
      BY <1>0, <2>0
    <3> QED BY <2>2, <3>1, Sort3Is
  <2> HIDE DEF s2
  <2>4. Rearranged(n, s2, s3, b, e) /\ s3 \in Arrays(n)
    <3>1. m + 1 \in b .. e - 1 /\ b + 2 \in b .. e - 1 /\ e - 3 \in b .. e - 1 /\ b + 2 # m + 1 /\ m + 1 # e - 3 /\ b + 2 # e - 3
      BY <1>0, <2>0
    <3> QED BY <2>3, <3>1, Sort3Is
  <2> HIDE DEF s3
  <2>5. Rearranged(n, s3, s4, b, e) /\ s4 \in Arrays(n) /\ s4[m] <= s4[m + 1]
    <3>1. m - 1 \in b .. e - 1 /\ m \in b .. e - 1 /\ m + 1 \in b .. e - 1 /\ m - 1 # m /\ m # m + 1 /\ m - 1 # m + 1
      BY <1>0, <2>0
    <3> QED BY <2>4, <3>1, Sort3Is
  <2> HIDE DEF s4
  <2>6. Rearranged(n, s4, s5, b, e)
    <3>1. b \in b .. e - 1 /\ m \in b .. e - 1
      BY <1>0, <2>0
    <3> QED BY <2>5, <3>1, SwapRearranges
  <2>7. s5 \in Arrays(n) /\ s5[b] = s4[m] /\ s5[m + 1] = s4[m + 1] /\ m + 1 \in b + 1 .. e - 1
    <3>1. b \in 0 .. n - 1 /\ m \in 0 .. n - 1 /\ m + 1 \in 0 .. n - 1 /\ m + 1 # b /\ m + 1 # m /\ m + 1 \in b + 1 .. e - 1
      BY <1>0, <2>0
    <3>2. /\ s5 \in Arrays(n)
          /\ \A k \in 0 .. n - 1 : s5[k] = IF k = b THEN s4[m] ELSE IF k = m THEN s4[b] ELSE s4[k]
      BY <2>5, <3>1, SwapValues
    <3> HIDE DEF s5
    <3> QED BY <3>1, <3>2
  <2> HIDE DEF s5
  <2>8. Rearranged(n, s, s5, b, e)
    <3>1. Rearranged(n, s, s2, b, e)
      BY <2>2, <2>3, RearrangedTrans
    <3>2. Rearranged(n, s, s3, b, e)
      BY <2>4, <3>1, RearrangedTrans
    <3>3. Rearranged(n, s, s4, b, e)
      BY <2>5, <3>2, RearrangedTrans
    <3> QED BY <2>6, <3>3, RearrangedTrans
  <2> QED BY <2>1, <2>5, <2>7, <2>8
<1> QED BY <1>1, <1>2

-----------------------------------------------------------------------------
(* Insertion sort.                                                         *)

SortedRun(s, lo, hi) == \A i, j \in lo .. hi - 1 : i <= j => s[i] <= s[j]

LEMMA PlaceIs ==
  ASSUME NEW n \in Nat, NEW s \in Arrays(n), NEW from \in Nat, NEW cur \in from .. n - 1
  PROVE  /\ Place(s, from, cur) \in from .. cur
         /\ \A q \in Place(s, from, cur) .. cur - 1 : s[cur] < s[q]
         /\ Place(s, from, cur) = from \/ s[Place(s, from, cur) - 1] <= s[cur]
<1> DEFINE Fits(p) == \A q \in p .. cur - 1 : s[cur] < s[q]
           fits == {p \in from .. cur : Fits(p)}
           Right(p) == Fits(p) /\ (p = from \/ s[p - 1] <= s[cur])
<1>1. cur \in fits
  OBVIOUS
<1>2. fits \in SUBSET Nat
  OBVIOUS
<1>3. PICK p \in fits : \A q \in fits : p <= q
  <2> HIDE DEF fits
  <2> QED BY <1>1, <1>2, LeastNatural
<1>4. p = from \/ s[p - 1] <= s[cur]
  <2> SUFFICES ASSUME p # from, ~(s[p - 1] <= s[cur]) PROVE FALSE
    OBVIOUS
  <2>1. p - 1 \in from .. cur /\ p - 1 \in 0 .. n - 1 /\ cur \in 0 .. n - 1
    OBVIOUS
  <2>2. s[cur] < s[p - 1]
    BY <2>1 DEF Arrays
  <2>3. Fits(p - 1)
    <3> TAKE q \in p - 1 .. cur - 1
    <3>1. q = p - 1 \/ q \in p .. cur - 1
      OBVIOUS
    <3> QED BY <2>2, <3>1
  <2>4. p - 1 \in fits
    BY <2>1, <2>3
  <2> QED BY <1>3, <2>4
<1>5. p \in from .. cur /\ Right(p)
  BY <1>4
<1> DEFINE P == CHOOSE q \in from .. cur : Right(q)
<1>6. P \in from .. cur /\ Right(P)
  <2> HIDE DEF Right
  <2> QED BY <1>5
<1>7. Place(s, from, cur) = P
  BY DEF Place
<1> HIDE DEF P
<1> QED BY <1>6, <1>7

LEMMA InsertedIs ==
  ASSUME NEW n \in Nat, NEW s \in Arrays(n), NEW from \in Nat, NEW lo \in Nat, NEW hi \in Nat,
         NEW cur \in lo .. hi - 1, hi <= n, from <= lo, from = lo \/ s[lo - 1] <= s[cur]
  PROVE  /\ Rearranged(n, s, Inserted(s, from, cur), lo, hi) /\ Inserted(s, from, cur) \in Arrays(n)
         /\ SortedRun(s, lo, cur) => SortedRun(Inserted(s, from, cur), lo, cur + 1)
         /\ cur - Place(s, from, cur) \in Nat
<1> DEFINE p == Place(s, from, cur)
           t == Inserted(s, from, cur)
           x == [k \in 0 .. n - 1 |-> IF k = p THEN cur ELSE IF k \in p + 1 .. cur THEN k - 1 ELSE k]
<1>0. cur \in from .. n - 1 /\ cur \in 0 .. n - 1
  OBVIOUS
<1>1. p \in from .. cur /\ (\A q \in p .. cur - 1 : s[cur] < s[q]) /\ (p = from \/ s[p - 1] <= s[cur])
  BY <1>0, PlaceIs
<1>2. t = [k \in 0 .. n - 1 |-> IF k = p THEN s[cur] ELSE IF k \in p + 1 .. cur THEN s[k - 1] ELSE s[k]]
  BY DEF Inserted, Arrays
<1>3. \A k \in 0 .. n - 1 : s[k] \in Int
  BY DEF Arrays
<1> HIDE DEF p, t
<1>4. lo <= p
  <2> SUFFICES ASSUME p < lo PROVE FALSE
    BY <1>1
  <2>1. from # lo /\ lo - 1 \in p .. cur - 1 /\ lo - 1 \in 0 .. n - 1
    BY <1>1
  <2>2. s[cur] < s[lo - 1] /\ s[lo - 1] <= s[cur]
    BY <1>1, <2>1
  <2> QED BY <1>0, <1>3, <2>1, <2>2
<1>5. p \in lo .. cur /\ p \in 0 .. n - 1
  BY <1>1, <1>4
<1>6. t \in Arrays(n) /\ x \in [0 .. n - 1 -> 0 .. n - 1] /\ \A k \in 0 .. n - 1 : t[k] = s[x[k]]
  <2>1. \A k \in 0 .. n - 1 : k \in p + 1 .. cur => k - 1 \in 0 .. n - 1
    BY <1>5
  <2>2. x \in [0 .. n - 1 -> 0 .. n - 1]
    BY <1>0, <2>1
  <2>3. \A k \in 0 .. n - 1 : t[k] = s[x[k]]
    BY <1>2
  <2>4. t \in Arrays(n)
    BY <1>0, <1>2, <1>3, <2>1 DEF Arrays
  <2> QED BY <2>2, <2>3, <2>4
<1>7. ASSUME NEW i \in 0 .. n - 1 PROVE \E k \in 0 .. n - 1 : x[k] = i
  <2>1. CASE i = cur
    <3>1. x[p] = i
      BY <1>5, <2>1
    <3> QED BY <1>5, <3>1
  <2>2. CASE i \in p .. cur - 1
    <3>1. i + 1 \in 0 .. n - 1 /\ i + 1 \in p + 1 .. cur /\ i + 1 # p /\ (i + 1) - 1 = i
      BY <1>5, <2>2
    <3>2. x[i + 1] = i
      BY <3>1
    <3> QED BY <3>1, <3>2
  <2>3. CASE ~(i \in p .. cur)
    <3>1. x[i] = i
      BY <1>5, <2>3
    <3> QED BY <3>1
  <2> QED BY <1>5, <2>1, <2>2, <2>3
<1>8. Permutes(x, n, lo, hi)
  <2>1. ASSUME NEW k \in 0 .. n - 1
        PROVE  IF lo <= k /\ k < hi THEN lo <= x[k] /\ x[k] < hi ELSE x[k] = k
    BY <1>5
  <2> QED BY <1>7, <2>1 DEF Permutes
<1>9. Rearranged(n, s, t, lo, hi)
  <2> HIDE DEF x
  <2> QED BY <1>6, <1>8 DEF Rearranged
<1>10. ASSUME SortedRun(s, lo, cur), NEW i \in lo .. cur, NEW j \in lo .. cur, i <= j PROVE t[i] <= t[j]
  <2>1. i \in 0 .. n - 1 /\ j \in 0 .. n - 1
    OBVIOUS
  <2>2. /\ t[i] = IF i = p THEN s[cur] ELSE IF i \in p + 1 .. cur THEN s[i - 1] ELSE s[i]
        /\ t[j] = IF j = p THEN s[cur] ELSE IF j \in p + 1 .. cur THEN s[j - 1] ELSE s[j]
    BY <1>2, <2>1
  <2>3. CASE j < p
    <3>1. i \in lo .. cur - 1 /\ j \in lo .. cur - 1
      BY <1>5, <1>10, <2>3
    <3>2. s[i] <= s[j]
      BY <1>10, <3>1 DEF SortedRun
    <3> QED BY <1>5, <1>10, <2>2, <2>3, <3>2
  <2>4. CASE j = p /\ i < p
    <3>1. p - 1 \in lo .. cur - 1 /\ i \in lo .. cur - 1 /\ i <= p - 1 /\ p # from
      BY <1>5, <2>4
    <3>2. s[i] <= s[p - 1] /\ s[p - 1] <= s[cur]
      BY <1>1, <1>10, <3>1 DEF SortedRun
    <3>3. s[i] \in Int /\ s[p - 1] \in Int /\ s[cur] \in Int
      BY <1>3, <3>1
    <3>4. t[i] = s[i] /\ t[j] = s[cur]
      BY <1>5, <2>2, <2>4
    <3> QED BY <3>2, <3>3, <3>4
  <2>5. CASE i = j
    BY <1>6, <2>1, <2>5 DEF Arrays
  <2>6. CASE p < j /\ i = p
    <3>1. j - 1 \in p .. cur - 1 /\ j - 1 \in 0 .. n - 1
      BY <1>5, <2>6
    <3>2. s[cur] < s[j - 1]
      BY <1>1, <3>1
    <3>3. t[i] = s[cur] /\ t[j] = s[j - 1]
      BY <1>5, <2>2, <2>6
    <3> QED BY <1>0, <1>3, <3>1, <3>2, <3>3
  <2>7. CASE p < j /\ i < p
    <3>1. j - 1 \in lo .. cur - 1 /\ i \in lo .. cur - 1 /\ i <= j - 1
      BY <1>5, <2>7
    <3>2. s[i] <= s[j - 1]
      BY <1>10, <3>1 DEF SortedRun
    <3>3. t[i] = s[i] /\ t[j] = s[j - 1]
      BY <1>5, <2>2, <2>7
    <3> QED BY <3>2, <3>3
  <2>8. CASE p < i
    <3>1. j - 1 \in lo .. cur - 1 /\ i - 1 \in lo .. cur - 1 /\ i - 1 <= j - 1
      BY <1>5, <1>10, <2>8
    <3>2. s[i - 1] <= s[j - 1]
      BY <1>10, <3>1 DEF SortedRun
    <3>3. t[i] = s[i - 1] /\ t[j] = s[j - 1]
      BY <1>5, <1>10, <2>2, <2>8
    <3> QED BY <3>2, <3>3
  <2> QED BY <1>5, <2>3, <2>4, <2>5, <2>6, <2>7, <2>8
<1>11. SortedRun(s, lo, cur) => SortedRun(t, lo, cur + 1)
  <2>1. lo .. (cur + 1) - 1 = lo .. cur
    OBVIOUS
  <2> QED BY <1>10, <2>1 DEF SortedRun
<1>12. cur - p \in Nat
  BY <1>5
<1> QED BY <1>6, <1>9, <1>11, <1>12 DEF t, p

\* The first element of a part is a sentinel for it, or the part is the first.
Guarded(n, s, from, lo) == from = lo \/ (0 < lo /\ from <= lo /\ Border(n, s, lo))

LEMMA SentinelIs ==
  ASSUME NEW n \in Nat, NEW s, NEW t, NEW from \in Nat, NEW lo \in Nat, NEW hi \in Nat, hi <= n,
         Guarded(n, s, from, lo), Rearranged(n, s, t, lo, hi), NEW cur \in lo .. hi - 1
  PROVE  from <= lo /\ (from = lo \/ t[lo - 1] <= t[cur])
<1>1. CASE from = lo
  BY <1>1
<1>2. CASE 0 < lo /\ from <= lo /\ Border(n, s, lo)
  <2>1. Border(n, t, lo)
    BY <1>2, RearrangedBorder
  <2>2. lo - 1 \in 0 .. lo - 1 /\ cur \in lo .. n - 1
    BY <1>2
  <2> QED BY <1>2, <2>1, <2>2 DEF Border
<1> QED BY <1>1, <1>2 DEF Guarded

LEMMA InsertionSortedIs ==
  ASSUME NEW n \in Nat, NEW s \in Arrays(n), NEW from \in Nat, NEW b \in Nat, NEW e \in Nat,
         b <= e, e <= n, Guarded(n, s, from, b)
  PROVE  /\ Rearranged(n, s, InsertionSorted(s, from, b, e), b, e)
         /\ SortedRun(InsertionSorted(s, from, b, e), b, e)
<1>1. CASE b = e
  <2>1. InsertionSorted(s, from, b, e) = s
    BY <1>1 DEF InsertionSorted
  <2>2. SortedRun(s, b, e)
    BY <1>1 DEF SortedRun
  <2>3. Rearranged(n, s, s, b, e)
    BY RearrangedRefl
  <2> QED BY <2>1, <2>2, <2>3
<1>2. CASE b < e
  <2> DEFINE K == b .. e - 1
             T == {t \in Arrays(n) : Rearranged(n, s, t, b, e)}
             rank == [k \in K |-> k - b]
             init == [k \in K |-> s]
             next == [k \in K |-> k - 1]
             step == [k \in K |-> [t \in T |-> Inserted(t, from, k)]]
             Solves(f) == f = [k \in b .. e - 1 |-> IF k = b THEN s ELSE Inserted(f[k - 1], from, k)]
             A == CHOOSE f : Solves(f)
  <2>1. s \in T
    BY RearrangedRefl
  <2>2. ASSUME NEW k \in K, NEW t \in T
        PROVE  Inserted(t, from, k) \in T /\ (SortedRun(t, b, k) => SortedRun(Inserted(t, from, k), b, k + 1))
    <3>1. Rearranged(n, s, t, b, e) /\ t \in Arrays(n)
      OBVIOUS
    <3>2. from <= b /\ (from = b \/ t[b - 1] <= t[k])
      BY <3>1, SentinelIs
    <3>3. /\ Rearranged(n, t, Inserted(t, from, k), b, e) /\ Inserted(t, from, k) \in Arrays(n)
          /\ SortedRun(t, b, k) => SortedRun(Inserted(t, from, k), b, k + 1)
      BY <3>1, <3>2, InsertedIs
    <3>4. Rearranged(n, s, Inserted(t, from, k), b, e)
      BY <3>1, <3>3, RearrangedTrans
    <3> QED BY <3>3, <3>4
  <2> HIDE DEF T
  <2>3. Recurs(K, T, e - b, rank, {b}, init, next, step)
    BY <2>1, <2>2 DEF Recurs
  <2>4. PICK f \in [K -> T] : Follows(f, K, {b}, init, next, step)
    <3> HIDE DEF K, rank, init, next, step
    <3> QED BY <2>3, RecursionExists
  <2>5. Solves(f)
    <3>1. ASSUME NEW k \in K PROVE f[k] = IF k = b THEN s ELSE Inserted(f[k - 1], from, k)
      <4>1. CASE k = b
        BY <2>4, <4>1 DEF Follows
      <4>2. CASE k # b
        <5>1. k - 1 \in K /\ f[k - 1] \in T
          BY <4>2
        <5>2. f[k] = step[k][f[next[k]]]
          BY <2>4, <4>2 DEF Follows
        <5> QED BY <4>2, <5>1, <5>2
      <4> QED BY <4>1, <4>2
    <3> QED BY <3>1
  <2>6. Solves(A)
    BY <2>5
  <2>7. InsertionSorted(s, from, b, e) = A[e - 1]
    BY <1>2 DEF InsertionSorted
  <2> HIDE DEF A
  <2>8. A[b] = s /\ \A k \in b + 1 .. e - 1 : A[k] = Inserted(A[k - 1], from, k)
    <3>1. b \in b .. e - 1 /\ \A k \in b + 1 .. e - 1 : k \in b .. e - 1 /\ k # b
      BY <1>2
    <3> QED BY <2>6, <3>1, Zenon
  <2> DEFINE G == {k \in b .. e - 1 : A[k] \in T /\ SortedRun(A[k], b, k + 1)}
  <2>9. b \in G
    <3>1. SortedRun(s, b, b + 1)
      <4>1. ASSUME NEW i \in b .. (b + 1) - 1 , NEW j \in b .. (b + 1) - 1 PROVE s[i] <= s[j]
        <5>1. i = b /\ j = b /\ s[b] \in Int
          BY <1>2 DEF Arrays
        <5> QED BY <5>1
      <4> QED BY <4>1 DEF SortedRun
    <3> QED BY <1>2, <2>1, <2>8, <3>1
  <2>10. ASSUME NEW k \in b + 1 .. e - 1, k - 1 \in G PROVE k \in G
    <3>1. A[k - 1] \in T /\ SortedRun(A[k - 1], b, k) /\ k \in K /\ A[k] = Inserted(A[k - 1], from, k)
      BY <2>8, <2>10
    <3>2. A[k] \in T /\ SortedRun(A[k], b, k + 1)
      BY <2>2, <3>1
    <3> QED BY <3>2
  <2>11. A[e - 1] \in T /\ SortedRun(A[e - 1], b, e)
    <3>1. b \in Int /\ e - 1 \in Int /\ e - 1 \in b .. e - 1 /\ (e - 1) + 1 = e
      BY <1>2
    <3> HIDE DEF G
    <3>2. \A k \in b .. e - 1 : k \in G
      BY <2>9, <2>10, <3>1, Induction
    <3>3. e - 1 \in G
      BY <3>1, <3>2
    <3> QED BY <3>1, <3>3 DEF G
  <2> QED BY <2>7, <2>11 DEF T
<1> QED BY <1>1, <1>2

LEMMA PartiallySortedIs ==
  ASSUME NEW n \in Nat, NEW s \in Arrays(n), NEW b \in Nat, NEW e \in Nat, b <= e, e <= n
  PROVE  /\ Rearranged(n, s, PartiallySorted(s, b, e).arr, b, e)
         /\ ~GivesUp(PartiallySorted(s, b, e)) => SortedRun(PartiallySorted(s, b, e).arr, b, e)
<1> DEFINE First == [arr |-> s, moved |-> 0]
<1>0. partial_insertion_sort_limit \in Nat
  BY ThresholdAssumption DEF ThresholdAssumption
<1>1. CASE b = e
  <2>1. PartiallySorted(s, b, e) = First
    BY <1>1 DEF PartiallySorted
  <2>2. SortedRun(s, b, e)
    BY <1>1 DEF SortedRun
  <2>3. Rearranged(n, s, s, b, e)
    BY RearrangedRefl
  <2> QED BY <2>1, <2>2, <2>3
<1>2. CASE b < e
  <2> DEFINE K == b .. e - 1
             T == [arr : {t \in Arrays(n) : Rearranged(n, s, t, b, e)}, moved : Nat]
             After(r, k) == IF r.moved > partial_insertion_sort_limit THEN r
                            ELSE [arr |-> Inserted(r.arr, b, k), moved |-> r.moved + k - Place(r.arr, b, k)]
             rank == [k \in K |-> k - b]
             init == [k \in K |-> First]
             next == [k \in K |-> k - 1]
             step == [k \in K |-> [r \in T |-> After(r, k)]]
             Solves(f) == f = [k \in b .. e - 1 |-> IF k = b THEN First ELSE After(f[k - 1], k)]
             A == CHOOSE f : Solves(f)
             InOrder(r, k) == r.moved <= partial_insertion_sort_limit => SortedRun(r.arr, b, k)
  <2>1. First \in T
    BY RearrangedRefl
  <2>2. ASSUME NEW k \in K, NEW r \in T
        PROVE  After(r, k) \in T /\ (InOrder(r, k) => InOrder(After(r, k), k + 1))
    <3>0. CASE r.moved > partial_insertion_sort_limit
      <4>1. After(r, k) = r /\ r.moved \in Nat
        BY <3>0
      <4> QED BY <1>0, <3>0, <4>1
    <3>1. CASE ~(r.moved > partial_insertion_sort_limit)
      <4> DEFINE t == r.arr
                 u == Inserted(t, b, k)
      <4>1. Rearranged(n, s, t, b, e) /\ t \in Arrays(n) /\ r.moved \in Nat
        OBVIOUS
      <4>2. After(r, k) = [arr |-> u, moved |-> r.moved + k - Place(t, b, k)]
        BY <3>1
      <4> HIDE DEF t
      <4>3. /\ Rearranged(n, t, u, b, e) /\ u \in Arrays(n) /\ k - Place(t, b, k) \in Nat
            /\ SortedRun(t, b, k) => SortedRun(u, b, k + 1)
        BY <4>1, InsertedIs, SMTT(60)
      <4> HIDE DEF u
      <4>4. Rearranged(n, s, u, b, e)
        BY <4>1, <4>3, RearrangedTrans
      <4>5. r.moved + k - Place(t, b, k) \in Nat
        <5>1. t \in Arrays(n) /\ k \in b .. n - 1
          BY <4>1
        <5>2. Place(t, b, k) \in b .. k
          BY <5>1, PlaceIs
        <5> QED BY <4>1, <5>2
      <4>6. After(r, k) \in T
        BY <4>2, <4>3, <4>4, <4>5
      <4>7. InOrder(r, k) => SortedRun(t, b, k)
        BY <1>0, <3>1, <4>1 DEF t
      <4>8. After(r, k).arr = u
        BY <4>2
      <4> QED BY <4>3, <4>6, <4>7, <4>8
    <3> QED BY <3>0, <3>1
  <2> HIDE DEF T, After, First
  <2>3. Recurs(K, T, e - b, rank, {b}, init, next, step)
    BY <2>1, <2>2 DEF Recurs
  <2>4. PICK f \in [K -> T] : Follows(f, K, {b}, init, next, step)
    <3> HIDE DEF K, rank, init, next, step
    <3> QED BY <2>3, RecursionExists
  <2>5. Solves(f)
    <3>1. ASSUME NEW k \in K PROVE f[k] = IF k = b THEN First ELSE After(f[k - 1], k)
      <4>1. CASE k = b
        BY <2>4, <4>1 DEF Follows
      <4>2. CASE k # b
        <5>1. k - 1 \in K /\ f[k - 1] \in T
          BY <4>2
        <5>2. f[k] = step[k][f[next[k]]]
          BY <2>4, <4>2 DEF Follows
        <5> QED BY <4>2, <5>1, <5>2
      <4> QED BY <4>1, <4>2
    <3> QED BY <3>1
  <2>6. Solves(A)
    BY <2>5
  <2>7. PartiallySorted(s, b, e) = A[e - 1]
    BY <1>2 DEF PartiallySorted, After, First
  <2> HIDE DEF A
  <2>8. A[b] = First /\ \A k \in b + 1 .. e - 1 : A[k] = After(A[k - 1], k)
    <3>1. b \in b .. e - 1 /\ \A k \in b + 1 .. e - 1 : k \in b .. e - 1 /\ k # b
      BY <1>2
    <3> QED BY <2>6, <3>1, Zenon
  <2> DEFINE G == {k \in b .. e - 1 : A[k] \in T /\ InOrder(A[k], k + 1)}
  <2>9. b \in G
    <3>1. SortedRun(s, b, b + 1)
      <4>1. ASSUME NEW i \in b .. (b + 1) - 1 , NEW j \in b .. (b + 1) - 1 PROVE s[i] <= s[j]
        <5>1. i = b /\ j = b /\ s[b] \in Int
          BY <1>2 DEF Arrays
        <5> QED BY <5>1
      <4> QED BY <4>1 DEF SortedRun
    <3>2. First.arr = s
      BY DEF First
    <3> QED BY <1>2, <2>1, <2>8, <3>1, <3>2
  <2> HIDE DEF InOrder
  <2>10. ASSUME NEW k \in b + 1 .. e - 1, k - 1 \in G PROVE k \in G
    <3>1. A[k - 1] \in T /\ InOrder(A[k - 1], k) /\ k \in K /\ A[k] = After(A[k - 1], k)
      BY <2>8, <2>10
    <3>2. A[k] \in T /\ InOrder(A[k], k + 1)
      BY <2>2, <3>1
    <3> QED BY <3>2
  <2>11. A[e - 1] \in T /\ InOrder(A[e - 1], e)
    <3>1. b \in Int /\ e - 1 \in Int /\ e - 1 \in b .. e - 1 /\ (e - 1) + 1 = e
      BY <1>2
    <3> HIDE DEF G
    <3>2. \A k \in b .. e - 1 : k \in G
      BY <2>9, <2>10, <3>1, Induction
    <3>3. e - 1 \in G
      BY <3>1, <3>2
    <3> QED BY <3>1, <3>3 DEF G
  <2>12. A[e - 1].moved \in Nat /\ Rearranged(n, s, A[e - 1].arr, b, e)
    BY <2>11 DEF T
  <2> QED BY <1>0, <2>7, <2>11, <2>12 DEF InOrder, GivesUp
<1> QED BY <1>1, <1>2

-----------------------------------------------------------------------------
(* Heap sort, which does not sort but loses no element either.             *)

\* A change before a part that is rearranged.
LEMMA RearrangedBehind ==
  ASSUME NEW n \in Nat, NEW lo \in Int, NEW hi \in Int, NEW s, NEW t, Rearranged(n, s, t, lo, hi),
         NEW j \in 0 .. n - 1, j < lo, NEW x \in Int
  PROVE  Rearranged(n, [s EXCEPT ![j] = x], [t EXCEPT ![j] = x], lo, hi)
<1>1. PICK p \in [0 .. n - 1 -> 0 .. n - 1] : Permutes(p, n, lo, hi) /\ \A k \in 0 .. n - 1 : t[k] = s[p[k]]
  BY DEF Rearranged
<1>2. s \in Arrays(n) /\ t \in Arrays(n)
  BY DEF Rearranged
<1> DEFINE u == [s EXCEPT ![j] = x]
           v == [t EXCEPT ![j] = x]
<1>3. /\ u \in Arrays(n) /\ v \in Arrays(n)
      /\ \A k \in 0 .. n - 1 : /\ u[k] = IF k = j THEN x ELSE s[k]
                               /\ v[k] = IF k = j THEN x ELSE t[k]
  BY <1>2 DEF Arrays
<1> HIDE DEF u, v
<1>4. ASSUME NEW k \in 0 .. n - 1 PROVE v[k] = u[p[k]]
  <2>1. p[k] \in 0 .. n - 1 /\ IF lo <= k /\ k < hi THEN lo <= p[k] /\ p[k] < hi ELSE p[k] = k
    BY <1>1 DEF Permutes
  <2>2. k = j <=> p[k] = j
    BY <2>1
  <2> QED BY <1>1, <1>3, <2>1, <2>2
<1>5. Rearranged(n, u, v, lo, hi)
  BY <1>1, <1>3, <1>4 DEF Rearranged
<1> QED BY <1>5 DEF u, v

LEMMA SiftedDownIs ==
  ASSUME NEW n \in Nat, NEW s \in Arrays(n), NEW b \in Nat, NEW m \in Nat, b + m <= n,
         NEW start \in 0 .. m - 1
  PROVE  Rearranged(n, s, SiftedDown(s, b, m, start), b, b + m)
<1> DEFINE tmp == s[b + start]
           Child(root) == LET left == 2 * root + 1
                          IN  IF left + 1 < m /\ s[b + left] < s[b + left + 1] THEN left + 1 ELSE left
           Stops(root) == 2 * root + 1 >= m \/ ~(tmp < s[b + Child(root)])
           K == 0 .. m - 1
           T == Arrays(n)
           rank == [k \in K |-> m - k]
           base == {k \in K : Stops(k)}
           init == [k \in K |-> [s EXCEPT ![b + k] = tmp]]
           next == [k \in K |-> Child(k)]
           step == [k \in K |-> [t \in T |-> [t EXCEPT ![b + k] = s[b + Child(k)]]]]
           Solves(f) == f = [root \in 0 .. m - 1 |->
                               IF Stops(root) THEN [s EXCEPT ![b + root] = tmp]
                               ELSE [f[Child(root)] EXCEPT ![b + root] = s[b + Child(root)]]]
           A == CHOOSE f : Solves(f)
<1>0. \A k \in K : b + k \in 0 .. n - 1 /\ s[b + k] \in Int
  <2>1. \A k \in K : b + k \in 0 .. n - 1
    OBVIOUS
  <2> QED BY <2>1 DEF Arrays
<1>1. tmp \in Int
  BY <1>0
<1>2. ASSUME NEW k \in K, ~Stops(k) PROVE Child(k) \in k + 1 .. m - 1
  <2>1. ~(2 * k + 1 >= m) /\ k \in Nat
    BY <1>2
  <2>2. Child(k) = 2 * k + 1 \/ (Child(k) = 2 * k + 2 /\ 2 * k + 2 < m)
    BY <2>1
  <2> HIDE DEF Child
  <2> QED BY <2>1, <2>2
<1> HIDE DEF Stops, Child, tmp
<1>3. ASSUME NEW k \in K PROVE init[k] \in T
  BY <1>0, <1>1 DEF Arrays
<1>4. ASSUME NEW k \in K, ~Stops(k) PROVE next[k] \in K /\ next[k] = Child(k) /\ rank[next[k]] < rank[k]
  <2>1. Child(k) \in k + 1 .. m - 1
    BY <1>2, <1>4
  <2> QED BY <2>1
<1>5. ASSUME NEW k \in K, ~Stops(k), NEW t \in T PROVE [t EXCEPT ![b + k] = s[b + Child(k)]] \in T
  <2>1. Child(k) \in K
    BY <1>4, <1>5
  <2>2. s[b + Child(k)] \in Int
    BY <1>0, <2>1
  <2> QED BY <1>0, <2>2 DEF Arrays
<1>6. Recurs(K, T, m, rank, base, init, next, step)
  <2>1. rank \in [K -> 0 .. m]
    OBVIOUS
  <2>2. ASSUME NEW k \in K
        PROVE  IF k \in base THEN init[k] \in T
               ELSE next[k] \in K /\ rank[next[k]] < rank[k] /\ \A t \in T : step[k][t] \in T
    <3>1. CASE Stops(k)
      BY <1>3, <3>1
    <3>2. CASE ~Stops(k)
      <4>1. next[k] \in K /\ rank[next[k]] < rank[k]
        BY <1>4, <3>2
      <4>2. \A t \in T : step[k][t] \in T
        BY <1>5, <3>2
      <4> QED BY <3>2, <4>1, <4>2
    <3> QED BY <3>1, <3>2
  <2> HIDE DEF rank, base, init, next, step, T
  <2> QED BY <2>1, <2>2 DEF Recurs
<1>7. PICK f \in [K -> T] : Follows(f, K, base, init, next, step)
  <2> HIDE DEF K, T, rank, base, init, next, step
  <2> QED BY <1>6, RecursionExists
<1>8. Solves(f)
  <2>1. ASSUME NEW k \in K
        PROVE  f[k] = IF Stops(k) THEN [s EXCEPT ![b + k] = tmp] ELSE [f[Child(k)] EXCEPT ![b + k] = s[b + Child(k)]]
    <3>1. CASE Stops(k)
      BY <1>7, <3>1 DEF Follows
    <3>2. CASE ~Stops(k)
      <4>1. next[k] = Child(k) /\ Child(k) \in K
        BY <1>4, <3>2
      <4>2. f[Child(k)] \in T
        BY <4>1
      <4>3. f[k] = step[k][f[next[k]]]
        BY <1>7, <3>2 DEF Follows
      <4> QED BY <3>2, <4>1, <4>2, <4>3
    <3> QED BY <3>1, <3>2
  <2> QED BY <2>1
<1>9. Solves(A)
  BY <1>8
<1>10. SiftedDown(s, b, m, start) = A[start]
  BY DEF SiftedDown, Stops, Child, tmp
<1> HIDE DEF A
<1>11. \A k \in K : A[k] = IF Stops(k) THEN [s EXCEPT ![b + k] = tmp]
                           ELSE [A[Child(k)] EXCEPT ![b + k] = s[b + Child(k)]]
  BY <1>9, Zenon
<1> DEFINE Raised(k) == [s EXCEPT ![b + k] = tmp]
           Good(k) == Rearranged(n, Raised(k), A[k], b + k, b + m)
           G == {i \in Int : \A k \in K : m - k <= i => Good(k)}
<1>12. \A k \in K : Raised(k) \in Arrays(n) /\ \A i \in 0 .. n - 1 : Raised(k)[i] = IF i = b + k THEN tmp ELSE s[i]
  BY <1>0, <1>1 DEF Arrays
<1>13. 0 \in G
  OBVIOUS
<1>14. ASSUME NEW i \in 0 + 1 .. m, i - 1 \in G PROVE i \in G
  <2> SUFFICES ASSUME NEW k \in K, m - k <= i PROVE Good(k)
    OBVIOUS
  <2>1. CASE Stops(k)
    <3>1. A[k] = Raised(k)
      BY <1>11, <2>1
    <3>2. Raised(k) \in Arrays(n) /\ b + k \in Int /\ b + m \in Int
      <4>1. Raised(k) \in Arrays(n)
        BY <1>12
      <4> QED BY <1>0, <4>1
    <3> HIDE DEF Raised
    <3> QED BY <3>1, <3>2, RearrangedRefl
  <2>2. CASE ~Stops(k)
    <3> DEFINE c == Child(k)
               x == s[b + c]
               v == Raised(c)
               w == Raised(k)
               y == Swapped(w, b + k, b + c)
    <3>1. c \in K /\ k < c /\ m - c <= i - 1
      BY <1>2, <2>2
    <3>2. Rearranged(n, v, A[c], b + c, b + m)
      BY <1>14, <3>1
    <3>3. A[k] = [A[c] EXCEPT ![b + k] = x]
      BY <1>11, <2>2
    <3>4. x \in Int /\ b + k \in 0 .. n - 1 /\ b + c \in 0 .. n - 1 /\ b + k < b + c /\ b + c \in Int /\ b + m \in Int
      BY <1>0, <3>1
    <3>5. /\ v \in Arrays(n) /\ w \in Arrays(n)
          /\ \A j \in 0 .. n - 1 : /\ v[j] = IF j = b + c THEN tmp ELSE s[j]
                                   /\ w[j] = IF j = b + k THEN tmp ELSE s[j]
      BY <1>12, <3>1
    <3> HIDE DEF v, w, c
    <3>6. y \in Arrays(n) /\ \A j \in 0 .. n - 1 : y[j] = IF j = b + k THEN w[b + c] ELSE IF j = b + c THEN w[b + k] ELSE w[j]
      <4> DEFINE k1 == b + k
                 c1 == b + c
      <4>1. k1 \in 0 .. n - 1 /\ c1 \in 0 .. n - 1
        BY <3>4
      <4> HIDE DEF k1, c1
      <4>2. /\ Swapped(w, k1, c1) \in Arrays(n)
            /\ \A j \in 0 .. n - 1 : Swapped(w, k1, c1)[j] = IF j = k1 THEN w[c1] ELSE IF j = c1 THEN w[k1] ELSE w[j]
        BY <3>5, <4>1, SwapValues
      <4> QED BY <4>2, Zenon DEF k1, c1
    <3> HIDE DEF y
    <3>7. y = [v EXCEPT ![b + k] = x]
      <4>1. ASSUME NEW j \in 0 .. n - 1 PROVE y[j] = IF j = b + k THEN x ELSE v[j]
        BY <3>4, <3>5, <3>6
      <4> QED BY <3>5, <3>6, <4>1 DEF Arrays
    <3>8. Rearranged(n, y, A[k], b + c, b + m)
      <4> HIDE DEF x
      <4>1. Rearranged(n, [v EXCEPT ![b + k] = x], [A[c] EXCEPT ![b + k] = x], b + c, b + m)
        BY <3>2, <3>4, RearrangedBehind
      <4> QED BY <3>3, <3>7, <4>1
    <3>9. Rearranged(n, y, A[k], b + k, b + m)
      <4>1. b + k \in Int /\ b + k <= b + c /\ b + m <= b + m
        BY <3>4
      <4> QED BY <3>4, <3>8, <4>1, RearrangedWider
    <3>10. Rearranged(n, w, y, b + k, b + m)
      <4>1. b + k \in Nat /\ b + m \in Nat /\ b + k \in b + k .. (b + m) - 1 /\ b + c \in b + k .. (b + m) - 1
        BY <3>1, <3>4
      <4> QED BY <3>5, <4>1, SwapRearranges DEF y
    <3>11. Rearranged(n, w, A[k], b + k, b + m)
      BY <3>4, <3>9, <3>10, RearrangedTrans
    <3> QED BY <3>11 DEF w
  <2> QED BY <2>1, <2>2
<1>15. Good(start)
  <2>1. 0 \in Int /\ m \in Int /\ m \in 0 .. m /\ m - start <= m
    OBVIOUS
  <2> HIDE DEF G
  <2>2. \A i \in 0 .. m : i \in G
    BY <1>13, <1>14, <2>1, Induction
  <2>3. m \in G
    BY <2>1, <2>2
  <2> QED BY <2>1, <2>3 DEF G
<1>16. Raised(start) = s
  BY <1>12 DEF Arrays, tmp
<1>17. b + start \in Int /\ b + m \in Int /\ b <= b + start /\ b + m <= b + m
  OBVIOUS
<1> QED BY <1>10, <1>15, <1>16, <1>17, RearrangedWider

LEMMA MakeHeapIs ==
  ASSUME NEW n \in Nat, NEW s \in Arrays(n), NEW b \in Nat, NEW m \in Nat, b + m <= n
  PROVE  Rearranged(n, s, make_heap(s, b, m), b, b + m)
<1> DEFINE h == m \div 2
           K == 0 .. h
           T == {t \in Arrays(n) : Rearranged(n, s, t, b, b + m)}
           rank == [k \in K |-> h - k]
           init == [k \in K |-> s]
           next == [k \in K |-> k + 1]
           step == [k \in K |-> [t \in T |-> SiftedDown(t, b, m, k)]]
           Solves(f) == f = [i \in 0 .. m \div 2 |-> IF i = m \div 2 THEN s ELSE SiftedDown(f[i + 1], b, m, i)]
           A == CHOOSE f : Solves(f)
<1>0. h \in Nat /\ \A k \in 0 .. h - 1 : k \in 0 .. m - 1
  OBVIOUS
<1>1. s \in T
  BY RearrangedRefl
<1>2. ASSUME NEW k \in K, k # h, NEW t \in T PROVE SiftedDown(t, b, m, k) \in T
  <2>1. Rearranged(n, s, t, b, b + m) /\ t \in Arrays(n) /\ k \in 0 .. m - 1 /\ b + m \in Int
    BY <1>0, <1>2
  <2>2. Rearranged(n, t, SiftedDown(t, b, m, k), b, b + m)
    BY <2>1, SiftedDownIs
  <2>3. Rearranged(n, s, SiftedDown(t, b, m, k), b, b + m)
    BY <2>1, <2>2, RearrangedTrans
  <2> QED BY <2>3 DEF Rearranged
<1> HIDE DEF T, h
<1>3. Recurs(K, T, h, rank, {h}, init, next, step)
  BY <1>0, <1>1, <1>2 DEF Recurs
<1>4. PICK f \in [K -> T] : Follows(f, K, {h}, init, next, step)
  <2> HIDE DEF K, rank, init, next, step
  <2> QED BY <1>3, RecursionExists
<1>5. Solves(f)
  <2>1. ASSUME NEW k \in K PROVE f[k] = IF k = h THEN s ELSE SiftedDown(f[k + 1], b, m, k)
    <3>1. CASE k = h
      BY <1>4, <3>1 DEF Follows
    <3>2. CASE k # h
      <4>1. k + 1 \in K /\ f[k + 1] \in T
        BY <1>0, <3>2
      <4>2. f[k] = step[k][f[next[k]]]
        BY <1>4, <3>2 DEF Follows
      <4> QED BY <3>2, <4>1, <4>2
    <3> QED BY <3>1, <3>2
  <2> QED BY <2>1 DEF h
<1>6. Solves(A)
  BY <1>5
<1>7. make_heap(s, b, m) = A[0]
  BY DEF make_heap
<1> HIDE DEF A
<1>8. ASSUME NEW k \in K
      PROVE  IF k \in {h} THEN A[k] = init[k] ELSE A[next[k]] \in T => A[k] = step[k][A[next[k]]]
  <2>1. A[k] = IF k = h THEN s ELSE SiftedDown(A[k + 1], b, m, k)
    BY <1>6, Zenon DEF h
  <2> QED BY <2>1
<1>9. \A k \in K : A[k] \in T
  <2> HIDE DEF K, rank, init, next, step
  <2> QED BY <1>3, <1>8, RecursionKeepsTo
<1>10. A[0] \in T
  BY <1>0, <1>9
<1> QED BY <1>7, <1>10 DEF T

LEMMA SortHeapIs ==
  ASSUME NEW n \in Nat, NEW s \in Arrays(n), NEW b \in Nat, NEW m \in Nat \ {0}, b + m <= n
  PROVE  Rearranged(n, s, sort_heap(s, b, m), b, b + m)
<1> DEFINE K == 1 .. m
           T == {t \in Arrays(n) : Rearranged(n, s, t, b, b + m)}
           rank == [k \in K |-> m - k]
           init == [k \in K |-> s]
           next == [k \in K |-> k + 1]
           step == [k \in K |-> [t \in T |-> SiftedDown(Swapped(t, b, b + k), b, m, k)]]
           Solves(f) == f = [i \in 1 .. m |-> IF i = m THEN s ELSE SiftedDown(Swapped(f[i + 1], b, b + i), b, m, i)]
           A == CHOOSE f : Solves(f)
<1>1. s \in T
  BY RearrangedRefl
<1>2. ASSUME NEW k \in K, k # m, NEW t \in T PROVE SiftedDown(Swapped(t, b, b + k), b, m, k) \in T
  <2> DEFINE u == Swapped(t, b, b + k)
             v == SiftedDown(u, b, m, k)
  <2>1. /\ Rearranged(n, s, t, b, b + m) /\ t \in Arrays(n) /\ k \in 0 .. m - 1 /\ b + m \in Nat
        /\ b \in b .. (b + m) - 1 /\ b + k \in b .. (b + m) - 1
    BY <1>2
  <2>2. Rearranged(n, t, u, b, b + m)
    BY <2>1, SwapRearranges
  <2> HIDE DEF u
  <2>3. u \in Arrays(n)
    BY <2>2 DEF Rearranged
  <2>4. Rearranged(n, u, v, b, b + m)
    BY <2>1, <2>3, SiftedDownIs
  <2> HIDE DEF v
  <2>5. Rearranged(n, s, v, b, b + m)
    <3>1. Rearranged(n, s, u, b, b + m)
      BY <2>1, <2>2, RearrangedTrans
    <3> QED BY <2>1, <2>4, <3>1, RearrangedTrans
  <2>6. v \in T
    BY <2>5 DEF Rearranged
  <2> QED BY <2>6 DEF u, v
<1> HIDE DEF T
<1>3. Recurs(K, T, m, rank, {m}, init, next, step)
  BY <1>1, <1>2 DEF Recurs
<1>4. PICK f \in [K -> T] : Follows(f, K, {m}, init, next, step)
  <2> HIDE DEF K, rank, init, next, step
  <2> QED BY <1>3, RecursionExists
<1>5. Solves(f)
  <2>1. ASSUME NEW k \in K PROVE f[k] = IF k = m THEN s ELSE SiftedDown(Swapped(f[k + 1], b, b + k), b, m, k)
    <3>1. CASE k = m
      BY <1>4, <3>1 DEF Follows
    <3>2. CASE k # m
      <4>1. k + 1 \in K /\ f[k + 1] \in T
        BY <3>2
      <4>2. f[k] = step[k][f[next[k]]]
        BY <1>4, <3>2 DEF Follows
      <4> QED BY <3>2, <4>1, <4>2
    <3> QED BY <3>1, <3>2
  <2> QED BY <2>1
<1>6. Solves(A)
  BY <1>5
<1>7. sort_heap(s, b, m) = A[1]
  BY DEF sort_heap
<1> HIDE DEF A
<1>8. ASSUME NEW k \in K
      PROVE  IF k \in {m} THEN A[k] = init[k] ELSE A[next[k]] \in T => A[k] = step[k][A[next[k]]]
  <2>1. A[k] = IF k = m THEN s ELSE SiftedDown(Swapped(A[k + 1], b, b + k), b, m, k)
    BY <1>6, Zenon
  <2> QED BY <2>1
<1>9. \A k \in K : A[k] \in T
  <2> HIDE DEF K, rank, init, next, step
  <2> QED BY <1>3, <1>8, RecursionKeepsTo
<1>10. A[1] \in T
  BY <1>9
<1> QED BY <1>7, <1>10 DEF T

-----------------------------------------------------------------------------
(* Partitions to the right and to the left.                                *)

\* first and last are the next pair to exchange, or the partition is finished.
RightPart(s, b, e, first, last) ==
  /\ first \in b + 1 .. e - 1 /\ last \in b + 1 .. e - 1
  /\ \A k \in b + 1 .. first - 1 : s[k] < s[b]
  /\ first < last => /\ s[b] <= s[first] /\ s[last] < s[b]
                     /\ \A k \in last + 1 .. e - 1 : s[b] <= s[k]
  /\ last <= first => \A k \in first .. e - 1 : s[b] <= s[k]

LeftPart(s, b, e, first, last) ==
  /\ first \in b + 1 .. e - 1 /\ last \in b .. e - 1
  /\ \A k \in b .. e - 1 : s[b] <= s[k]
  /\ \A k \in b + 1 .. first - 1 : s[k] <= s[b]
  /\ \A k \in last + 1 .. e - 1 : s[b] < s[k]
  /\ s[last] <= s[b] /\ (first < last => s[b] < s[first])

\* The positions where a search for x stops.
NotLessThan(s, x) == {j \in DOMAIN s : s[j] >= x}
LessThan(s, x) == {j \in DOMAIN s : s[j] < x}
GreaterThan(s, x) == {j \in DOMAIN s : s[j] > x}
NotGreaterThan(s, x) == {j \in DOMAIN s : s[j] <= x}

LEMMA RightStart ==
  ASSUME NEW n \in Nat, NEW s \in Arrays(n), NEW b \in Nat, NEW e \in Nat, b + 4 <= e, e <= n,
         \E k \in b + 1 .. e - 1 : s[b] <= s[k],
         NEW up, IsAbove(n, NotLessThan(s, s[b]), b, up),
         NEW down, IsBelow(LessThan(s, s[b]), e, down)
  PROVE  RightPart(s, b, e, up, IF up - 1 = b /\ down < up THEN up ELSE down)
<1> DEFINE NotLess == NotLessThan(s, s[b])
           Less == LessThan(s, s[b])
<1>0. DOMAIN s = 0 .. n - 1 /\ \A k \in 0 .. n - 1 : s[k] \in Int
  BY DEF Arrays
<1>1. up \in b + 1 .. n /\ (up < n => up \in NotLess) /\ \A j \in NotLess : b < j => up <= j
  BY DEF IsAbove
<1>2. down \in -1 .. e - 1 /\ (0 <= down => down \in Less) /\ \A j \in Less : j < e => j <= down
  BY DEF IsBelow
<1>3. up \in b + 1 .. e - 1 /\ s[b] <= s[up]
  <2>1. PICK k \in b + 1 .. e - 1 : s[b] <= s[k]
    OBVIOUS
  <2>2. k \in 0 .. n - 1 /\ b \in 0 .. n - 1 /\ b < k
    OBVIOUS
  <2>3. k \in NotLess
    BY <1>0, <2>1, <2>2 DEF NotLessThan
  <2>4. up <= k
    BY <1>1, <2>2, <2>3
  <2>5. up \in b + 1 .. e - 1 /\ up < n
    BY <1>1, <2>4
  <2>6. up \in NotLess /\ up \in 0 .. n - 1
    BY <1>1, <2>5
  <2> QED BY <1>0, <2>2, <2>5, <2>6 DEF NotLessThan
<1>4. ASSUME NEW k \in b + 1 .. up - 1 PROVE s[k] < s[b]
  <2>1. k \in 0 .. n - 1 /\ b \in 0 .. n - 1 /\ b < k /\ ~(up <= k)
    BY <1>3
  <2>2. k \notin NotLess
    BY <1>1, <2>1
  <2> QED BY <1>0, <2>1, <2>2 DEF NotLessThan
<1>5. ASSUME NEW k \in b + 1 .. e - 1, down < k PROVE s[b] <= s[k]
  <2>1. k \in 0 .. n - 1 /\ b \in 0 .. n - 1 /\ k < e /\ ~(k <= down)
    BY <1>2, <1>5
  <2>2. k \notin Less
    BY <1>2, <2>1
  <2> QED BY <1>0, <2>1, <2>2 DEF LessThan
<1>6. b + 1 <= down => down \in b + 1 .. e - 1 /\ s[down] < s[b]
  BY <1>2 DEF LessThan
<1>7. b \in 0 .. n - 1 /\ s[b] \in Int /\ up \in 0 .. n - 1 /\ s[up] \in Int
  BY <1>0, <1>3
<1> HIDE DEF NotLess, Less
<1>8. CASE up - 1 = b /\ down < up
  <2>1. \A k \in up .. e - 1 : s[b] <= s[k]
    BY <1>2, <1>3, <1>5, <1>8
  <2> QED BY <1>3, <1>4, <1>8, <2>1 DEF RightPart
<1>9. CASE ~(up - 1 = b /\ down < up)
  <2>1. b + 1 <= down
    <3>1. CASE up - 1 = b
      BY <1>2, <1>3, <1>9, <3>1
    <3>2. CASE up - 1 # b
      <4>1. b + 1 \in b + 1 .. up - 1
        BY <1>3, <3>2
      <4>2. s[b + 1] < s[b] /\ b + 1 \in 0 .. n - 1 /\ b + 1 < e /\ b + 1 \in b + 1 .. e - 1 /\ s[b + 1] \in Int
        BY <1>0, <1>4, <4>1
      <4>3. ~(down < b + 1)
        BY <1>5, <1>7, <4>2
      <4> QED BY <1>2, <4>3
    <3> QED BY <3>1, <3>2
  <2>2. down \in b + 1 .. e - 1 /\ s[down] < s[b] /\ down \in 0 .. n - 1 /\ s[down] \in Int
    BY <1>0, <1>6, <2>1
  <2>3. down # up
    BY <1>3, <1>7, <2>2
  <2>4. ASSUME down <= up, NEW k \in up .. e - 1 PROVE s[b] <= s[k]
    BY <1>3, <1>5, <2>2, <2>3, <2>4
  <2>5. ASSUME NEW k \in down + 1 .. e - 1 PROVE s[b] <= s[k]
    BY <1>5, <2>2
  <2>6. RightPart(s, b, e, up, down)
    BY <1>3, <1>4, <2>2, <2>4, <2>5 DEF RightPart
  <2> QED BY <1>9, <2>6
<1> QED BY <1>8, <1>9

LEMMA RightTurn ==
  ASSUME NEW n \in Nat, NEW s \in Arrays(n), NEW b \in Nat, NEW e \in Nat, e <= n,
         NEW first, NEW last, RightPart(s, b, e, first, last), first < last,
         NEW t, t = Swapped(s, first, last),
         NEW up, IsAbove(n, NotLessThan(t, s[b]), first, up),
         NEW down, IsBelow(LessThan(t, s[b]), last, down)
  PROVE  /\ Rearranged(n, s, t, b, e) /\ t[b] = s[b]
         /\ RightPart(t, b, e, up, down) /\ first < up /\ down < last
<1> DEFINE NotLess == NotLessThan(t, s[b])
           Less == LessThan(t, s[b])
<1>0. /\ first \in b + 1 .. e - 1 /\ last \in b + 1 .. e - 1
      /\ first \in 0 .. n - 1 /\ last \in 0 .. n - 1 /\ b \in 0 .. n - 1 /\ first # b /\ last # b
      /\ \A k \in 0 .. n - 1 : s[k] \in Int
  BY DEF RightPart, Arrays
<1>1. /\ t \in Arrays(n)
      /\ \A k \in 0 .. n - 1 : t[k] = IF k = first THEN s[last] ELSE IF k = last THEN s[first] ELSE s[k]
  <2>1. PICK i \in 0 .. n - 1, j \in 0 .. n - 1 : i = first /\ j = last
    BY <1>0
  <2>2. /\ Swapped(s, i, j) \in Arrays(n)
        /\ \A k \in 0 .. n - 1 : Swapped(s, i, j)[k] = IF k = i THEN s[j] ELSE IF k = j THEN s[i] ELSE s[k]
    BY SwapValues
  <2> QED BY <2>1, <2>2, Zenon
<1>2. DOMAIN t = 0 .. n - 1 /\ \A k \in 0 .. n - 1 : t[k] \in Int
  BY <1>1 DEF Arrays
<1>3. t[b] = s[b] /\ t[first] < s[b] /\ s[b] <= t[last]
  BY <1>0, <1>1 DEF RightPart
<1>4. up \in first + 1 .. n /\ (up < n => up \in NotLess) /\ \A j \in NotLess : first < j => up <= j
  BY DEF IsAbove
<1>5. down \in -1 .. last - 1 /\ (0 <= down => down \in Less) /\ \A j \in Less : j < last => j <= down
  BY DEF IsBelow
<1>6. up \in first + 1 .. last /\ s[b] <= t[up] /\ up \in 0 .. n - 1
  <2>1. last \in NotLess
    BY <1>0, <1>2, <1>3 DEF NotLessThan
  <2>2. up <= last
    BY <1>0, <1>4, <2>1
  <2>3. up \in first + 1 .. last /\ up < n /\ up \in 0 .. n - 1
    BY <1>0, <1>4, <2>2
  <2>4. up \in NotLess
    BY <1>4, <2>3
  <2> QED BY <1>0, <1>2, <2>3, <2>4 DEF NotLessThan
<1>7. down \in first .. last - 1 /\ t[down] < s[b] /\ down \in 0 .. n - 1
  <2>1. first \in Less
    BY <1>0, <1>2, <1>3 DEF LessThan
  <2>2. first <= down
    BY <1>0, <1>5, <2>1
  <2>3. down \in first .. last - 1 /\ 0 <= down /\ down \in 0 .. n - 1
    BY <1>0, <1>5, <2>2
  <2>4. down \in Less
    BY <1>5, <2>3
  <2> QED BY <2>3, <2>4 DEF LessThan
<1>8. ASSUME NEW k \in b + 1 .. up - 1 PROVE t[k] < t[b]
  <2>1. k \in 0 .. n - 1
    BY <1>0, <1>6
  <2>2. CASE k < first
    <3>1. k \in b + 1 .. first - 1 /\ k # first /\ k # last
      BY <1>0, <2>2
    <3>2. s[k] < s[b] /\ t[k] = s[k]
      BY <1>1, <2>1, <3>1 DEF RightPart
    <3> QED BY <1>3, <3>2
  <2>3. CASE k = first
    BY <1>3, <2>3
  <2>4. CASE first < k
    <3>1. ~(up <= k)
      BY <1>6
    <3>2. k \notin NotLess
      BY <1>4, <2>4, <3>1
    <3> QED BY <1>0, <1>2, <1>3, <2>1, <3>2 DEF NotLessThan
  <2> QED BY <1>0, <2>2, <2>3, <2>4
<1>9. ASSUME NEW k \in down + 1 .. e - 1 PROVE t[b] <= t[k]
  <2>1. k \in 0 .. n - 1
    BY <1>0, <1>7
  <2>2. CASE last < k
    <3>1. k \in last + 1 .. e - 1 /\ k # first /\ k # last
      BY <1>0, <2>2
    <3>2. s[b] <= s[k] /\ t[k] = s[k]
      BY <1>1, <2>1, <3>1 DEF RightPart
    <3> QED BY <1>3, <3>2
  <2>3. CASE k = last
    BY <1>3, <2>3
  <2>4. CASE k < last
    <3>1. ~(k <= down)
      BY <1>7
    <3>2. k \notin Less
      BY <1>5, <2>4, <3>1
    <3> QED BY <1>0, <1>2, <1>3, <2>1, <3>2 DEF LessThan
  <2> QED BY <1>0, <2>2, <2>3, <2>4
<1>10. down # up
  <2>1. t[up] \in Int /\ t[down] \in Int /\ s[b] \in Int
    BY <1>0, <1>2, <1>6, <1>7
  <2> QED BY <1>6, <1>7, <2>1
<1> HIDE DEF NotLess, Less
<1>11. RightPart(t, b, e, up, down)
  <2>1. ASSUME down <= up, NEW k \in up .. e - 1 PROVE t[b] <= t[k]
    BY <1>6, <1>7, <1>9, <1>10, <2>1
  <2>2. up \in b + 1 .. e - 1 /\ down \in b + 1 .. e - 1
    BY <1>0, <1>6, <1>7
  <2> QED BY <1>3, <1>6, <1>7, <1>8, <1>9, <2>1, <2>2 DEF RightPart
<1>12. Rearranged(n, s, t, b, e)
  <2>1. PICK i \in b .. e - 1, j \in b .. e - 1 : i = first /\ j = last
    BY <1>0
  <2>2. Rearranged(n, s, Swapped(s, i, j), b, e)
    BY SwapRearranges
  <2> QED BY <2>1, <2>2, Zenon
<1> QED BY <1>0, <1>3, <1>6, <1>7, <1>11, <1>12

\* The pivot is put between the parts.
LEMMA RightEnd ==
  ASSUME NEW n \in Nat, NEW s \in Arrays(n), NEW b \in Nat, NEW e \in Nat, e <= n,
         NEW first, NEW last, RightPart(s, b, e, first, last), last <= first,
         Border(n, s, b), Border(n, s, e),
         NEW t, t = Swapped(s, b, first - 1)
  PROVE  Rearranged(n, s, t, b, e) /\ Border(n, t, first - 1) /\ Border(n, t, first)
<1>0. /\ first \in b + 1 .. e - 1
      /\ first - 1 \in b .. e - 1 /\ first - 1 \in 0 .. n - 1 /\ b \in b .. e - 1 /\ b \in 0 .. n - 1
      /\ \A k \in 0 .. n - 1 : s[k] \in Int
  BY DEF RightPart, Arrays
<1>1. /\ t \in Arrays(n)
      /\ \A k \in 0 .. n - 1 : t[k] = IF k = b THEN s[first - 1] ELSE IF k = first - 1 THEN s[b] ELSE s[k]
  BY <1>0, SwapValues
<1>2. Rearranged(n, s, t, b, e)
  BY <1>0, SwapRearranges
<1>3. Border(n, t, b) /\ Border(n, t, e)
  <2>1. Border(n, t, b)
    BY <1>2, RearrangedBorder
  <2>2. Border(n, t, e)
    BY <1>2, RearrangedBorder
  <2> QED BY <2>1, <2>2
<1>4. t[first - 1] = s[b]
  BY <1>0, <1>1
<1>5. ASSUME NEW k \in b .. first - 2 PROVE t[k] < s[b]
  <2>1. k \in 0 .. n - 1 /\ first - 1 \in b + 1 .. first - 1
    BY <1>0
  <2>2. CASE k = b
    BY <1>1, <2>1, <2>2 DEF RightPart
  <2>3. CASE k # b
    <3>1. k \in b + 1 .. first - 1 /\ k # first - 1
      BY <1>0, <2>3
    <3> QED BY <1>1, <2>1, <2>3, <3>1 DEF RightPart
  <2> QED BY <2>2, <2>3
<1>6. ASSUME NEW k \in first .. e - 1 PROVE s[b] <= t[k]
  <2>1. k \in 0 .. n - 1 /\ k # b /\ k # first - 1
    BY <1>0
  <2> QED BY <1>1, <2>1 DEF RightPart
<1>7. \A k \in 0 .. n - 1 : t[k] \in Int
  BY <1>1 DEF Arrays
<1>8. ASSUME NEW x \in {first - 1, first}, NEW i \in 0 .. x - 1, NEW j \in x .. n - 1 PROVE t[i] <= t[j]
  <2>0. i \in 0 .. n - 1 /\ j \in 0 .. n - 1 /\ t[i] \in Int /\ t[j] \in Int /\ s[b] \in Int
    <3>1. i \in 0 .. n - 1 /\ j \in 0 .. n - 1
      BY <1>0
    <3> QED BY <1>0, <1>7, <3>1
  <2>1. CASE i < b
    <3>1. i \in 0 .. b - 1 /\ j \in b .. n - 1
      BY <1>0, <2>1
    <3> QED BY <1>3, <3>1 DEF Border
  <2>2. CASE e <= j
    <3>1. i \in 0 .. e - 1 /\ j \in e .. n - 1
      BY <1>0, <2>2
    <3> QED BY <1>3, <3>1 DEF Border
  <2>3. CASE b <= i /\ j < e
    <3>1. t[i] <= s[b]
      <4>1. i \in b .. first - 2 \/ i = first - 1
        BY <1>0, <2>3
      <4> QED BY <1>4, <1>5, <2>0, <4>1
    <3>2. s[b] <= t[j]
      <4>1. j \in first .. e - 1 \/ j = first - 1
        BY <1>0, <2>3
      <4> QED BY <1>4, <1>6, <2>0, <4>1
    <3> QED BY <2>0, <3>1, <3>2
  <2> QED BY <2>0, <2>1, <2>2, <2>3
<1> QED BY <1>2, <1>8 DEF Border

LEMMA LeftStart ==
  ASSUME NEW n \in Nat, NEW s \in Arrays(n), NEW b \in Nat, NEW e \in Nat, b + 4 <= e, e <= n,
         \A k \in b .. e - 1 : s[b] <= s[k],
         NEW up, IsAbove(n, GreaterThan(s, s[b]), b, up),
         NEW down, IsBelow(NotGreaterThan(s, s[b]), e, down)
  PROVE  LeftPart(s, b, e, IF down + 1 = e /\ up > down THEN down ELSE up, down)
<1> DEFINE Greater == GreaterThan(s, s[b])
           NotGreater == NotGreaterThan(s, s[b])
<1>0. DOMAIN s = 0 .. n - 1 /\ (\A k \in 0 .. n - 1 : s[k] \in Int) /\ b \in 0 .. n - 1 /\ b < e
  BY DEF Arrays
<1>1. up \in b + 1 .. n /\ (up < n => up \in Greater) /\ \A j \in Greater : b < j => up <= j
  BY DEF IsAbove
<1>2. down \in -1 .. e - 1 /\ (0 <= down => down \in NotGreater) /\ \A j \in NotGreater : j < e => j <= down
  BY DEF IsBelow
<1>3. b <= down
  <2>1. b \in NotGreater
    BY <1>0 DEF NotGreaterThan
  <2> QED BY <1>0, <1>2, <2>1
<1>4. down \in b .. e - 1 /\ down \in 0 .. n - 1 /\ s[down] <= s[b]
  BY <1>2, <1>3 DEF NotGreaterThan
<1>5. ASSUME NEW k \in b + 1 .. e - 1, k < up PROVE s[k] <= s[b]
  <2>1. k \in 0 .. n - 1 /\ b < k /\ ~(up <= k)
    BY <1>1, <1>5
  <2>2. k \notin Greater
    BY <1>1, <2>1
  <2> QED BY <1>0, <2>1, <2>2 DEF GreaterThan
<1>6. ASSUME NEW k \in down + 1 .. e - 1 PROVE s[b] < s[k]
  <2>1. k \in 0 .. n - 1 /\ k < e /\ ~(k <= down)
    BY <1>4
  <2>2. k \notin NotGreater
    BY <1>2, <2>1
  <2> QED BY <1>0, <2>1, <2>2 DEF NotGreaterThan
<1>7. CASE down + 1 = e /\ up > down
  <2>1. down \in b + 1 .. e - 1 /\ ~(down < down)
    BY <1>4, <1>7
  <2>2. \A k \in b + 1 .. down - 1 : s[k] <= s[b]
    BY <1>1, <1>4, <1>5, <1>7
  <2> QED BY <1>4, <1>6, <1>7, <2>1, <2>2 DEF LeftPart
<1>8. CASE ~(down + 1 = e /\ up > down)
  <2>1. up \in b + 1 .. e - 1
    <3>1. CASE up <= down
      BY <1>1, <1>4, <3>1
    <3>2. CASE down + 1 # e
      <4>1. e - 1 \in down + 1 .. e - 1 /\ e - 1 \in 0 .. n - 1 /\ b < e - 1
        BY <1>4, <3>2
      <4>2. s[b] < s[e - 1]
        BY <1>6, <4>1
      <4>3. e - 1 \in Greater
        BY <1>0, <4>1, <4>2 DEF GreaterThan
      <4>4. up <= e - 1
        BY <1>1, <4>1, <4>3
      <4> QED BY <1>1, <4>4
    <3> QED BY <1>1, <1>4, <1>8, <3>1, <3>2
  <2>2. s[b] < s[up]
    BY <1>0, <1>1, <2>1 DEF GreaterThan
  <2>3. \A k \in b + 1 .. up - 1 : s[k] <= s[b]
    BY <1>5, <2>1
  <2>4. LeftPart(s, b, e, up, down)
    BY <1>4, <1>6, <2>1, <2>2, <2>3 DEF LeftPart
  <2> QED BY <1>8, <2>4
<1> QED BY <1>7, <1>8

LEMMA LeftTurn ==
  ASSUME NEW n \in Nat, NEW s \in Arrays(n), NEW b \in Nat, NEW e \in Nat, e <= n,
         NEW first, NEW last, LeftPart(s, b, e, first, last), first < last,
         NEW t, t = Swapped(s, first, last),
         NEW up, IsAbove(n, GreaterThan(t, s[b]), first, up),
         NEW down, IsBelow(NotGreaterThan(t, s[b]), last, down)
  PROVE  /\ Rearranged(n, s, t, b, e) /\ t[b] = s[b]
         /\ LeftPart(t, b, e, up, down) /\ first < up /\ down < last
<1> DEFINE Greater == GreaterThan(t, s[b])
           NotGreater == NotGreaterThan(t, s[b])
<1>0. /\ first \in b + 1 .. e - 1 /\ last \in b .. e - 1
      /\ first \in 0 .. n - 1 /\ last \in 0 .. n - 1 /\ b \in 0 .. n - 1 /\ first # b /\ last # b
      /\ \A k \in 0 .. n - 1 : s[k] \in Int
  BY DEF LeftPart, Arrays
<1>1. /\ t \in Arrays(n)
      /\ \A k \in 0 .. n - 1 : t[k] = IF k = first THEN s[last] ELSE IF k = last THEN s[first] ELSE s[k]
  <2>1. PICK i \in 0 .. n - 1, j \in 0 .. n - 1 : i = first /\ j = last
    BY <1>0
  <2>2. /\ Swapped(s, i, j) \in Arrays(n)
        /\ \A k \in 0 .. n - 1 : Swapped(s, i, j)[k] = IF k = i THEN s[j] ELSE IF k = j THEN s[i] ELSE s[k]
    BY SwapValues
  <2> QED BY <2>1, <2>2, Zenon
<1>2. DOMAIN t = 0 .. n - 1 /\ \A k \in 0 .. n - 1 : t[k] \in Int
  BY <1>1 DEF Arrays
<1>3. t[b] = s[b] /\ t[first] <= s[b] /\ s[b] < t[last] /\ s[b] \in Int
  BY <1>0, <1>1 DEF LeftPart
<1>4. up \in first + 1 .. n /\ (up < n => up \in Greater) /\ \A j \in Greater : first < j => up <= j
  BY DEF IsAbove
<1>5. down \in -1 .. last - 1 /\ (0 <= down => down \in NotGreater) /\ \A j \in NotGreater : j < last => j <= down
  BY DEF IsBelow
<1>6. up \in first + 1 .. last /\ s[b] < t[up] /\ up \in 0 .. n - 1
  <2>1. last \in Greater
    BY <1>0, <1>2, <1>3 DEF GreaterThan
  <2>2. up <= last
    BY <1>0, <1>4, <2>1
  <2>3. up \in first + 1 .. last /\ up < n /\ up \in 0 .. n - 1
    BY <1>0, <1>4, <2>2
  <2>4. up \in Greater
    BY <1>4, <2>3
  <2> QED BY <1>0, <1>2, <2>3, <2>4 DEF GreaterThan
<1>7. down \in first .. last - 1 /\ t[down] <= s[b] /\ down \in 0 .. n - 1
  <2>1. first \in NotGreater
    BY <1>0, <1>2, <1>3 DEF NotGreaterThan
  <2>2. first <= down
    BY <1>0, <1>5, <2>1
  <2>3. down \in first .. last - 1 /\ 0 <= down /\ down \in 0 .. n - 1
    BY <1>0, <1>5, <2>2
  <2>4. down \in NotGreater
    BY <1>5, <2>3
  <2> QED BY <2>3, <2>4 DEF NotGreaterThan
<1>8. ASSUME NEW k \in b + 1 .. up - 1 PROVE t[k] <= t[b]
  <2>1. k \in 0 .. n - 1
    BY <1>0, <1>6
  <2>2. CASE k < first
    <3>1. k \in b + 1 .. first - 1 /\ k # first /\ k # last
      BY <1>0, <2>2
    <3>2. s[k] <= s[b] /\ t[k] = s[k]
      BY <1>1, <2>1, <3>1 DEF LeftPart
    <3> QED BY <1>3, <3>2
  <2>3. CASE k = first
    BY <1>3, <2>3
  <2>4. CASE first < k
    <3>1. ~(up <= k)
      BY <1>6
    <3>2. k \notin Greater
      BY <1>4, <2>4, <3>1
    <3> QED BY <1>0, <1>2, <1>3, <2>1, <3>2 DEF GreaterThan
  <2> QED BY <1>0, <2>2, <2>3, <2>4
<1>9. ASSUME NEW k \in down + 1 .. e - 1 PROVE t[b] < t[k]
  <2>1. k \in 0 .. n - 1
    BY <1>0, <1>7
  <2>2. CASE last < k
    <3>1. k \in last + 1 .. e - 1 /\ k # first /\ k # last
      BY <1>0, <2>2
    <3>2. s[b] < s[k] /\ t[k] = s[k]
      BY <1>1, <2>1, <3>1 DEF LeftPart
    <3> QED BY <1>3, <3>2
  <2>3. CASE k = last
    BY <1>3, <2>3
  <2>4. CASE k < last
    <3>1. ~(k <= down)
      BY <1>7
    <3>2. k \notin NotGreater
      BY <1>5, <2>4, <3>1
    <3> QED BY <1>0, <1>2, <1>3, <2>1, <3>2 DEF NotGreaterThan
  <2> QED BY <1>0, <2>2, <2>3, <2>4
<1> HIDE DEF Greater, NotGreater
<1>10. ASSUME NEW k \in b .. e - 1 PROVE t[b] <= t[k]
  <2>1. k \in 0 .. n - 1
    BY <1>0
  <2>2. t[k] = s[k] \/ t[k] = s[last] \/ t[k] = s[first]
    BY <1>1, <2>1
  <2>3. s[b] <= s[k] /\ s[b] <= s[last] /\ s[b] <= s[first]
    BY <1>0 DEF LeftPart
  <2> QED BY <1>3, <2>2, <2>3
<1>11. LeftPart(t, b, e, up, down)
  <2>1. up \in b + 1 .. e - 1 /\ down \in b .. e - 1
    BY <1>0, <1>6, <1>7
  <2> QED BY <1>3, <1>6, <1>7, <1>8, <1>9, <1>10, <2>1 DEF LeftPart
<1>12. Rearranged(n, s, t, b, e)
  <2>1. PICK i \in b .. e - 1, j \in b .. e - 1 : i = first /\ j = last
    BY <1>0
  <2>2. Rearranged(n, s, Swapped(s, i, j), b, e)
    BY SwapRearranges
  <2> QED BY <2>1, <2>2, Zenon
<1> QED BY <1>0, <1>3, <1>6, <1>7, <1>11, <1>12

\* All that equal the pivot are in their places.
LEMMA LeftEnd ==
  ASSUME NEW n \in Nat, NEW s \in Arrays(n), NEW b \in Nat, NEW e \in Nat, e <= n,
         NEW first, NEW last, LeftPart(s, b, e, first, last), last <= first,
         Border(n, s, b), Border(n, s, e),
         NEW t, t = Swapped(s, b, last)
  PROVE  Rearranged(n, s, t, b, e) /\ last \in b .. e - 1 /\ \A x \in b .. last + 1 : Border(n, t, x)
<1>0. /\ first \in b + 1 .. e - 1 /\ last \in b .. e - 1 /\ b \in b .. e - 1
      /\ last \in 0 .. n - 1 /\ b \in 0 .. n - 1
      /\ \A k \in 0 .. n - 1 : s[k] \in Int
  BY DEF LeftPart, Arrays
<1>1. /\ t \in Arrays(n)
      /\ \A k \in 0 .. n - 1 : t[k] = IF k = b THEN s[last] ELSE IF k = last THEN s[b] ELSE s[k]
  BY <1>0, SwapValues
<1>2. Rearranged(n, s, t, b, e)
  BY <1>0, SwapRearranges
<1>3. Border(n, t, b) /\ Border(n, t, e)
  <2>1. Border(n, t, b)
    BY <1>2, RearrangedBorder
  <2>2. Border(n, t, e)
    BY <1>2, RearrangedBorder
  <2> QED BY <2>1, <2>2
<1>4. ASSUME NEW k \in b .. last PROVE t[k] <= s[b]
  <2>1. k \in 0 .. n - 1 /\ s[b] \in Int /\ s[last] <= s[b]
    BY <1>0 DEF LeftPart
  <2>2. CASE k = b \/ k = last
    BY <1>1, <2>1, <2>2
  <2>3. CASE k # b /\ k # last
    <3>1. k \in b + 1 .. first - 1
      BY <1>0, <2>3
    <3> QED BY <1>1, <2>1, <2>3, <3>1 DEF LeftPart
  <2> QED BY <2>2, <2>3
<1>5. ASSUME NEW k \in b .. e - 1 PROVE s[b] <= t[k]
  <2>1. k \in 0 .. n - 1
    BY <1>0
  <2>2. t[k] = s[k] \/ t[k] = s[last] \/ t[k] = s[b]
    BY <1>1, <2>1
  <2>3. s[b] <= s[k] /\ s[b] <= s[last] /\ s[b] <= s[b]
    BY <1>0 DEF LeftPart
  <2> QED BY <2>2, <2>3
<1>7. \A k \in 0 .. n - 1 : t[k] \in Int
  BY <1>1 DEF Arrays
<1>8. ASSUME NEW x \in b .. last + 1, NEW i \in 0 .. x - 1, NEW j \in x .. n - 1 PROVE t[i] <= t[j]
  <2>0. i \in 0 .. n - 1 /\ j \in 0 .. n - 1 /\ t[i] \in Int /\ t[j] \in Int /\ s[b] \in Int
    <3>1. i \in 0 .. n - 1 /\ j \in 0 .. n - 1
      BY <1>0
    <3> QED BY <1>0, <1>7, <3>1
  <2>1. CASE i < b
    <3>1. i \in 0 .. b - 1 /\ j \in b .. n - 1
      BY <1>0, <2>1
    <3> QED BY <1>3, <3>1 DEF Border
  <2>2. CASE e <= j
    <3>1. i \in 0 .. e - 1 /\ j \in e .. n - 1
      BY <1>0, <2>2
    <3> QED BY <1>3, <3>1 DEF Border
  <2>3. CASE b <= i /\ j < e
    <3>1. i \in b .. last /\ j \in b .. e - 1
      BY <1>0, <2>3
    <3> QED BY <1>4, <1>5, <2>0, <3>1
  <2> QED BY <2>0, <2>1, <2>2, <2>3
<1> QED BY <1>0, <1>2, <1>8 DEF Border

-----------------------------------------------------------------------------
(* The blocks of offsets of the branchless partition.                      *)

\* q lists the elements of S in order.
Lists(q, S) ==
  /\ q \in Seq(Nat) /\ Len(q) \in Nat
  /\ \A i, j \in 1 .. Len(q) : i < j => q[i] < q[j]
  /\ \A i \in 1 .. Len(q) : q[i] \in S
  /\ \A x \in S : \E i \in 1 .. Len(q) : q[i] = x

LEMMA ListsNothing == Lists(<<>>, {})
BY DEF Lists

OneMore(S, x) == S \cup {x}

LEMMA ListsOneMore ==
  ASSUME NEW S \in SUBSET Nat, NEW q, Lists(q, S), NEW x \in Nat, \A y \in S : y < x
  PROVE  Lists(Append(q, x), OneMore(S, x))
<1> DEFINE r == Append(q, x)
<1>1. q \in Seq(Nat) /\ Len(q) \in Nat
  BY DEF Lists
<1>2. /\ r \in Seq(Nat) /\ Len(r) = Len(q) + 1
      /\ \A i \in 1 .. Len(q) : r[i] = q[i]
      /\ r[Len(q) + 1] = x
  BY <1>1, AppendProperties
<1> HIDE DEF r
<1>3. ASSUME NEW i \in 1 .. Len(r), NEW j \in 1 .. Len(r), i < j PROVE r[i] < r[j]
  <2>1. i \in 1 .. Len(q) /\ r[i] = q[i] /\ q[i] \in S
    BY <1>1, <1>2, <1>3 DEF Lists
  <2>2. CASE j \in 1 .. Len(q)
    <3>1. q[i] < q[j]
      BY <1>3, <2>1, <2>2 DEF Lists
    <3> QED BY <1>2, <2>1, <2>2, <3>1
  <2>3. CASE j = Len(q) + 1
    BY <1>2, <2>1, <2>3
  <2> QED BY <1>1, <1>2, <2>2, <2>3
<1>4. ASSUME NEW i \in 1 .. Len(r) PROVE r[i] \in S \cup {x}
  <2>1. i \in 1 .. Len(q) \/ i = Len(q) + 1
    BY <1>1, <1>2
  <2> QED BY <1>2, <2>1 DEF Lists
<1>5. ASSUME NEW y \in S \cup {x} PROVE \E i \in 1 .. Len(r) : r[i] = y
  <2>1. CASE y = x
    <3>1. Len(q) + 1 \in 1 .. Len(r)
      BY <1>1, <1>2
    <3> QED BY <1>2, <2>1, <3>1
  <2>2. CASE y \in S
    <3>1. PICK i \in 1 .. Len(q) : q[i] = y
      BY <2>2 DEF Lists
    <3>2. i \in 1 .. Len(r) /\ r[i] = y
      BY <1>1, <1>2, <3>1
    <3> QED BY <3>2
  <2> QED BY <2>1, <2>2
<1>6. Lists(r, S \cup {x})
  BY <1>1, <1>2, <1>3, <1>4, <1>5 DEF Lists
<1> QED BY <1>6, Zenon DEF r, OneMore

UpTo(S, k) == {x \in S : x <= k}

LEMMA UpToEnds ==
  ASSUME NEW n \in Nat, NEW S \in SUBSET (0 .. n)
  PROVE  UpTo(S, -1) = {} /\ UpTo(S, n) = S
<1>1. \A x \in S : x \in Nat /\ x <= n
  OBVIOUS
<1>2. \A x : x \in UpTo(S, -1) => FALSE
  BY <1>1 DEF UpTo
<1>3. \A x : x \in UpTo(S, n) <=> x \in S
  BY <1>1 DEF UpTo
<1> QED BY <1>2, <1>3

LEMMA UpToBelow ==
  ASSUME NEW n \in Nat, NEW S \in SUBSET (0 .. n), NEW k \in 0 .. n
  PROVE  UpTo(S, k - 1) \in SUBSET Nat /\ \A y \in UpTo(S, k - 1) : y < k
<1>1. \A y \in UpTo(S, k - 1) : y \in Nat /\ y <= k - 1
  BY DEF UpTo
<1> QED BY <1>1

LEMMA UpToWithout ==
  ASSUME NEW n \in Nat, NEW S \in SUBSET (0 .. n), NEW k \in 0 .. n, k \notin S
  PROVE  UpTo(S, k) = UpTo(S, k - 1)
<1>1. \A x \in S : x <= k <=> x <= k - 1
  OBVIOUS
<1>2. \A x : x \in UpTo(S, k) <=> x \in UpTo(S, k - 1)
  BY <1>1, Zenon DEF UpTo
<1> QED BY <1>2

LEMMA UpToWith ==
  ASSUME NEW n \in Nat, NEW S \in SUBSET (0 .. n), NEW k \in 0 .. n, k \in S
  PROVE  UpTo(S, k) = OneMore(UpTo(S, k - 1), k)
<1>1. \A x \in S : x <= k <=> x <= k - 1 \/ x = k
  OBVIOUS
<1>2. \A x : x \in UpTo(S, k) <=> x \in UpTo(S, k - 1) \cup {k}
  BY <1>1, Zenon DEF UpTo
<1> QED BY <1>2 DEF OneMore

LEMMA AscendingIs ==
  ASSUME NEW n \in Nat, NEW S \in SUBSET (0 .. n)
  PROVE  Lists(Ascending(S, n), S)
<1> DEFINE K == -1 .. n
           T == Seq(Nat)
           rank == [k \in K |-> k + 1]
           base == {k \in K : k = -1}
           init == [k \in K |-> <<>>]
           next == [k \in K |-> k - 1]
           step == [k \in K |-> [q \in T |-> IF k \in S THEN Append(q, k) ELSE q]]
           Solves(f) == f = [i \in -1 .. n |-> IF i = -1 THEN <<>>
                                               ELSE IF i \in S THEN Append(f[i - 1], i) ELSE f[i - 1]]
           A == CHOOSE f : Solves(f)
<1>1. ASSUME NEW k \in K, k # -1, NEW q \in T PROVE (IF k \in S THEN Append(q, k) ELSE q) \in T
  <2>1. k \in Nat
    BY <1>1
  <2> QED BY <2>1, AppendProperties
<1>2. Recurs(K, T, n + 1, rank, base, init, next, step)
  <2>1. rank \in [K -> 0 .. n + 1] /\ n + 1 \in Nat
    OBVIOUS
  <2>2. ASSUME NEW k \in K
        PROVE  IF k \in base THEN init[k] \in T
               ELSE next[k] \in K /\ rank[next[k]] < rank[k] /\ \A t \in T : step[k][t] \in T
    <3>1. CASE k = -1
      <4>1. <<>> \in Seq(Nat)
        BY EmptySeq
      <4> QED BY <3>1, <4>1
    <3>2. CASE k # -1
      <4>1. next[k] \in K /\ rank[next[k]] < rank[k] /\ k \notin base
        BY <3>2
      <4>2. ASSUME NEW t \in T PROVE step[k][t] \in T
        <5>1. step[k][t] = IF k \in S THEN Append(t, k) ELSE t
          OBVIOUS
        <5> QED BY <1>1, <3>2, <5>1
      <4> QED BY <4>1, <4>2
    <3> QED BY <3>1, <3>2
  <2> HIDE DEF rank, base, init, next, step, T
  <2> QED BY <2>1, <2>2 DEF Recurs
<1>3. PICK f \in [K -> T] : Follows(f, K, base, init, next, step)
  <2> HIDE DEF K, T, rank, base, init, next, step
  <2> QED BY <1>2, RecursionExists
<1>4. Solves(f)
  <2>1. ASSUME NEW k \in K
        PROVE  f[k] = IF k = -1 THEN <<>> ELSE IF k \in S THEN Append(f[k - 1], k) ELSE f[k - 1]
    <3>1. CASE k = -1
      BY <1>3, <3>1 DEF Follows
    <3>2. CASE k # -1
      <4>1. k - 1 \in K /\ f[k - 1] \in T
        BY <3>2
      <4>2. f[k] = step[k][f[next[k]]]
        BY <1>3, <3>2 DEF Follows
      <4> QED BY <3>2, <4>1, <4>2
    <3> QED BY <3>1, <3>2
  <2> QED BY <2>1
<1>5. Solves(A)
  BY <1>4
<1>6. Ascending(S, n) = A[n]
  BY DEF Ascending
<1> HIDE DEF A
<1>7. A[-1] = <<>> /\ \A k \in 0 .. n : A[k] = IF k \in S THEN Append(A[k - 1], k) ELSE A[k - 1]
  <2>1. -1 \in -1 .. n /\ \A k \in 0 .. n : k \in -1 .. n /\ k # -1
    OBVIOUS
  <2> QED BY <1>5, <2>1, Zenon
<1> DEFINE G == {k \in -1 .. n : Lists(A[k], UpTo(S, k))}
<1>8. -1 \in G
  <2>1. UpTo(S, -1) = {}
    BY UpToEnds
  <2>3. -1 \in -1 .. n
    OBVIOUS
  <2>2. Lists(A[-1], UpTo(S, -1))
    BY <1>7, <2>1, ListsNothing, Zenon
  <2> QED BY <2>2, <2>3
<1>9. ASSUME NEW k \in -1 + 1 .. n, k - 1 \in G PROVE k \in G
  <2>1. k \in 0 .. n /\ k \in Nat /\ k \in -1 .. n
    OBVIOUS
  <2>2. Lists(A[k - 1], UpTo(S, k - 1))
    BY <1>9
  <2>5. UpTo(S, k - 1) \in SUBSET Nat /\ \A y \in UpTo(S, k - 1) : y < k
    BY UpToBelow, <2>1
  <2>3. CASE k \in S
    <3>1. A[k] = Append(A[k - 1], k)
      BY <1>7, <2>1, <2>3
    <3>2. UpTo(S, k) = OneMore(UpTo(S, k - 1), k)
      BY <2>1, <2>3, UpToWith
    <3>3. Lists(Append(A[k - 1], k), OneMore(UpTo(S, k - 1), k))
      BY <2>1, <2>2, <2>5, ListsOneMore
    <3>4. Lists(A[k], UpTo(S, k))
      BY <3>1, <3>2, <3>3
    <3> QED BY <2>1, <3>4
  <2>4. CASE k \notin S
    <3>1. A[k] = A[k - 1]
      BY <1>7, <2>1, <2>4
    <3>2. UpTo(S, k) = UpTo(S, k - 1)
      BY <2>1, <2>4, UpToWithout
    <3>3. Lists(A[k], UpTo(S, k))
      BY <2>2, <3>1, <3>2
    <3> QED BY <2>1, <3>3
  <2> QED BY <2>3, <2>4
<1>10. Lists(A[n], UpTo(S, n))
  <2>1. -1 \in Int /\ n \in Int /\ n \in -1 .. n
    OBVIOUS
  <2> HIDE DEF G
  <2>2. \A k \in -1 .. n : k \in G
    BY <1>8, <1>9, <2>1, Induction
  <2>3. n \in G
    BY <2>1, <2>2
  <2> QED BY <2>3 DEF G
<1>11. UpTo(S, n) = S
  BY UpToEnds
<1> QED BY <1>6, <1>10, <1>11

\* Some pairs change sides: what was on the left of each goes to the right, and
\* the other way round.
ChangeSides(n, s, t, l, r, m, lo, hi) ==
  /\ Rearranged(n, s, t, lo, hi)
  /\ \A i \in 1 .. m : \E j \in 1 .. m : t[l[i]] = s[r[j]]
  /\ \A i \in 1 .. m : \E j \in 1 .. m : t[r[i]] = s[l[j]]
  /\ \A k \in 0 .. n - 1 : (\A i \in 1 .. m : k # l[i] /\ k # r[i]) => t[k] = s[k]

\* The pairs are different positions in lo .. hi - 1.
Sides(n, l, r, m, lo, hi) ==
  /\ lo \in Nat /\ hi \in 0 .. n /\ m \in Nat
  /\ l \in [1 .. m -> lo .. hi - 1] /\ r \in [1 .. m -> lo .. hi - 1]
  /\ \A i, j \in 1 .. m : (i # j => l[i] # l[j] /\ r[i] # r[j]) /\ l[i] # r[j]

\* The i-th of l with the i-th of r.
Paired(l, r, m) == [i \in 1 .. m |-> <<l[i], r[i]>>]

LEMMA SwapsChangeSides ==
  ASSUME NEW n \in Nat, NEW s \in Arrays(n), NEW l, NEW r, NEW m, NEW lo, NEW hi, Sides(n, l, r, m, lo, hi)
  PROVE  ChangeSides(n, s, SwappedAll(s, Paired(l, r, m)), l, r, m, lo, hi)
<1> DEFINE pairs == Paired(l, r, m)
<1>1. /\ lo \in Nat /\ hi \in 0 .. n /\ m \in Nat
      /\ \A i \in 1 .. m : /\ l[i] \in lo .. hi - 1 /\ r[i] \in lo .. hi - 1
                           /\ l[i] \in 0 .. n - 1 /\ r[i] \in 0 .. n - 1
  BY DEF Sides
<1>2. pairs \in Seq(Positions(n)) /\ Len(pairs) = m
  <2>1. pairs \in [1 .. m -> Positions(n)]
    BY <1>1 DEF Positions, Paired
  <2> HIDE DEF pairs
  <2> QED BY <1>1, <2>1, FunctionIsSequence
<1>3. \A i \in 1 .. m : pairs[i][1] = l[i] /\ pairs[i][2] = r[i]
  BY DEF Paired
<1> HIDE DEF pairs
<1>4. PICK A : SwapTrace(n, s, pairs, A)
  BY <1>2, SwappedAllIs
<1>5. /\ A[0] = s /\ SwappedAll(s, pairs) = A[m]
      /\ \A i \in 1 .. m : A[i] = Swapped(A[i - 1], l[i], r[i])
      /\ \A i \in 0 .. m : A[i] \in Arrays(n)
  BY <1>2, <1>3, <1>4 DEF SwapTrace
<1> DEFINE Half(i) ==
             /\ Rearranged(n, s, A[i], lo, hi)
             /\ \A j \in 1 .. i : A[i][l[j]] = s[r[j]] /\ A[i][r[j]] = s[l[j]]
             /\ \A k \in 0 .. n - 1 : (\A j \in 1 .. i : k # l[j] /\ k # r[j]) => A[i][k] = s[k]
           G == {i \in 0 .. m : Half(i)}
<1>6. 0 \in G
  <2>1. Rearranged(n, s, s, lo, hi)
    BY <1>1, RearrangedRefl
  <2> QED BY <1>1, <1>5, <2>1
<1>7. ASSUME NEW i \in 0 + 1 .. m, i - 1 \in G PROVE i \in G
  <2> DEFINE t == A[i - 1]
             u == A[i]
             x == l[i]
             y == r[i]
  <2>1. /\ i \in 1 .. m /\ i \in 0 .. m /\ i - 1 \in 0 .. m
        /\ x \in lo .. hi - 1 /\ y \in lo .. hi - 1 /\ x \in 0 .. n - 1 /\ y \in 0 .. n - 1 /\ hi \in Nat /\ hi <= n
    BY <1>1
  <2>2. t \in Arrays(n) /\ u = Swapped(t, x, y)
    BY <1>5, <2>1
  <2>3. Half(i - 1)
    BY <1>7
  <2> HIDE DEF t, u
  <2>4. Rearranged(n, t, u, lo, hi)
    BY <1>1, <2>1, <2>2, SwapRearranges
  <2>5. /\ u \in Arrays(n)
        /\ \A k \in 0 .. n - 1 : u[k] = IF k = x THEN t[y] ELSE IF k = y THEN t[x] ELSE t[k]
    <3>1. PICK c \in 0 .. n - 1, d \in 0 .. n - 1 : c = x /\ d = y
      BY <2>1
    <3>2. /\ Swapped(t, c, d) \in Arrays(n)
          /\ \A k \in 0 .. n - 1 : Swapped(t, c, d)[k] = IF k = c THEN t[d] ELSE IF k = d THEN t[c] ELSE t[k]
      BY <2>2, SwapValues
    <3> QED BY <2>2, <3>1, <3>2, Zenon
  <2>6. Rearranged(n, s, u, lo, hi)
    <3>1. Rearranged(n, s, t, lo, hi) /\ lo \in Int /\ hi \in Int
      BY <1>1, <2>3 DEF t
    <3> QED BY <2>4, <3>1, RearrangedTrans
  <2>7. t[x] = s[x] /\ t[y] = s[y]
    <3>1. \A j \in 1 .. i - 1 : j \in 1 .. m /\ j # i
      BY <1>1
    <3>2. \A j \in 1 .. i - 1 : x # l[j] /\ x # r[j] /\ y # l[j] /\ y # r[j]
      BY <2>1, <3>1 DEF Sides
    <3> QED BY <2>1, <2>3, <3>2 DEF t
  <2>8. ASSUME NEW j \in 1 .. i PROVE u[l[j]] = s[r[j]] /\ u[r[j]] = s[l[j]]
    <3>1. CASE j = i
      <4>1. x # y
        BY <2>1 DEF Sides
      <4> QED BY <2>1, <2>5, <2>7, <3>1, <4>1
    <3>2. CASE j # i
      <4>1. j \in 1 .. m /\ j \in 1 .. i - 1
        BY <1>1, <3>2
      <4>2. l[j] # x /\ l[j] # y /\ r[j] # x /\ r[j] # y /\ l[j] \in 0 .. n - 1 /\ r[j] \in 0 .. n - 1
        BY <1>1, <2>1, <3>2, <4>1 DEF Sides
      <4>3. t[l[j]] = s[r[j]] /\ t[r[j]] = s[l[j]]
        BY <2>3, <4>1 DEF t
      <4> QED BY <2>5, <4>2, <4>3
    <3> QED BY <3>1, <3>2
  <2>9. ASSUME NEW k \in 0 .. n - 1, \A j \in 1 .. i : k # l[j] /\ k # r[j] PROVE u[k] = s[k]
    <3>1. i \in 1 .. i /\ \A j \in 1 .. i - 1 : j \in 1 .. i
      BY <2>1
    <3>2. k # x /\ k # y /\ \A j \in 1 .. i - 1 : k # l[j] /\ k # r[j]
      BY <2>9, <3>1
    <3>3. t[k] = s[k]
      BY <2>3, <3>2 DEF t
    <3> QED BY <2>5, <3>2, <3>3
  <2> QED BY <2>1, <2>6, <2>8, <2>9 DEF u
<1>8. Half(m)
  <2>1. 0 \in Int /\ m \in Int /\ m \in 0 .. m
    BY <1>1
  <2> HIDE DEF G
  <2>2. \A i \in 0 .. m : i \in G
    BY <1>6, <1>7, <2>1, Induction
  <2>3. m \in G
    BY <2>1, <2>2
  <2> QED BY <2>3 DEF G
<1>9. ChangeSides(n, s, A[m], l, r, m, lo, hi)
  BY <1>8 DEF ChangeSides
<1> QED BY <1>5, <1>9 DEF pairs

LEMMA NextInCycle ==
  ASSUME NEW m \in Nat, NEW i \in 1 .. m
  PROVE  (i % m) + 1 = IF i = m THEN 1 ELSE i + 1
<1>1. m \in Nat \ {0} /\ i \in Nat
  OBVIOUS
<1>2. CASE i = m
  <2>1. i % m = 0
    BY <1>1, <1>2
  <2> QED BY <1>2, <2>1
<1>3. CASE i # m
  <2>1. i % m = i
    BY <1>1, <1>3
  <2> QED BY <1>3, <2>1
<1> QED BY <1>2, <1>3

LEMMA ExchangedChangesSides ==
  ASSUME NEW n \in Nat, NEW s \in Arrays(n), NEW l, NEW r, NEW m, NEW lo, NEW hi, Sides(n, l, r, m, lo, hi)
  PROVE  ChangeSides(n, s, Exchanged(s, l, r), l, r, m, lo, hi)
<1> DEFINE t == Exchanged(s, l, r)
           D == 0 .. n - 1
           OnLeft(k) == \E i \in 1 .. m : l[i] = k
           OnRight(k) == \E i \in 1 .. m : r[i] = k
           L(k) == CHOOSE i \in 1 .. m : l[i] = k
           R(k) == CHOOSE i \in 1 .. m : r[i] = k
           next == [i \in 1 .. m |-> IF i = m THEN 1 ELSE i + 1]
           p == [k \in D |-> IF OnLeft(k) THEN r[L(k)] ELSE IF OnRight(k) THEN l[next[R(k)]] ELSE k]
<1>1. /\ lo \in Nat /\ hi \in 0 .. n /\ m \in Nat
      /\ \A i \in 1 .. m : /\ l[i] \in lo .. hi - 1 /\ r[i] \in lo .. hi - 1 /\ l[i] \in D /\ r[i] \in D
      /\ \A i, j \in 1 .. m : (i # j => l[i] # l[j] /\ r[i] # r[j]) /\ l[i] # r[j]
  BY DEF Sides
<1>2. DOMAIN l = 1 .. m /\ Len(l) = m
  <2>1. l \in [1 .. m -> lo .. hi - 1]
    BY DEF Sides
  <2> QED BY <1>1, <2>1, FunctionIsSequence
<1>3. /\ \A k \in D : OnLeft(k) => L(k) \in 1 .. m /\ l[L(k)] = k
      /\ \A k \in D : OnRight(k) => R(k) \in 1 .. m /\ r[R(k)] = k
  OBVIOUS
<1>4. \A i \in 1 .. m : /\ next[i] \in 1 .. m /\ (i % Len(l)) + 1 = next[i]
                        /\ OnLeft(l[i]) /\ L(l[i]) = i /\ OnRight(r[i]) /\ R(r[i]) = i /\ ~OnLeft(r[i])
  <2> SUFFICES ASSUME NEW i \in 1 .. m
               PROVE  /\ next[i] \in 1 .. m /\ (i % Len(l)) + 1 = next[i]
                      /\ OnLeft(l[i]) /\ L(l[i]) = i /\ OnRight(r[i]) /\ R(r[i]) = i /\ ~OnLeft(r[i])
    OBVIOUS
  <2>1. next[i] \in 1 .. m /\ (i % m) + 1 = next[i]
    <3>1. next[i] = IF i = m THEN 1 ELSE i + 1
      OBVIOUS
    <3>2. (i % m) + 1 = IF i = m THEN 1 ELSE i + 1
      BY <1>1, NextInCycle
    <3> HIDE DEF next
    <3>3. next[i] \in 1 .. m
      BY <1>1, <3>1
    <3> QED BY <3>1, <3>2, <3>3
  <2> HIDE DEF next
  <2>2. OnLeft(l[i]) /\ OnRight(r[i]) /\ ~OnLeft(r[i])
    BY <1>1
  <2>3. L(l[i]) = i /\ R(r[i]) = i
    BY <1>1, <1>3, <2>2
  <2> QED BY <1>2, <2>1, <2>2, <2>3
<1>5. t = [k \in D |-> IF OnLeft(k) THEN s[r[L(k)]] ELSE IF OnRight(k) THEN s[l[(R(k) % Len(l)) + 1]] ELSE s[k]]
  <2>1. DOMAIN s = D
    BY DEF Arrays
  <2> HIDE DEF D
  <2> QED BY <1>2, <2>1, Zenon DEF Exchanged
<1> HIDE DEF OnLeft, OnRight, L, R, t
<1>6. \A k \in D : p[k] \in D /\ t[k] = s[p[k]] /\ (OnLeft(k) \/ OnRight(k) => k \in lo .. hi - 1 /\ p[k] \in lo .. hi - 1)
  <2> SUFFICES ASSUME NEW k \in D
               PROVE  p[k] \in D /\ t[k] = s[p[k]] /\ (OnLeft(k) \/ OnRight(k) => k \in lo .. hi - 1 /\ p[k] \in lo .. hi - 1)
    OBVIOUS
  <2> HIDE DEF next
  <2>1. CASE OnLeft(k)
    BY <1>1, <1>3, <1>5, <2>1
  <2>2. CASE ~OnLeft(k) /\ OnRight(k)
    <3>1. R(k) \in 1 .. m
      BY <1>3, <2>2
    <3>2. next[R(k)] \in 1 .. m /\ (R(k) % Len(l)) + 1 = next[R(k)]
      BY <1>4, <3>1
    <3>3. p[k] = l[next[R(k)]]
      BY <2>2
    <3>4. t[k] = s[l[(R(k) % Len(l)) + 1]]
      BY <1>5, <2>2
    <3>5. t[k] = s[p[k]]
      BY <3>2, <3>3, <3>4, Zenon
    <3>6. k \in lo .. hi - 1
      BY <1>1, <1>3, <2>2, <3>1
    <3>7. p[k] \in lo .. hi - 1 /\ p[k] \in D
      <4>1. next[R(k)] \in 1 .. m
        BY <3>2
      <4> QED BY <1>1, <3>3, <4>1
    <3> QED BY <3>5, <3>6, <3>7
  <2>3. CASE ~OnLeft(k) /\ ~OnRight(k)
    BY <1>5, <2>3
  <2> QED BY <2>1, <2>2, <2>3
<1>7. /\ \A i \in 1 .. m : p[l[i]] = r[i] /\ p[r[i]] = l[next[i]]
      /\ \A k \in D : ~OnLeft(k) /\ ~OnRight(k) => p[k] = k
  <2> HIDE DEF next
  <2> QED BY <1>1, <1>4
<1>8. ASSUME NEW k \in D PROVE \E j \in D : p[j] = k
  <2> HIDE DEF p
  <2>1. CASE OnRight(k)
    <3>1. PICK i \in 1 .. m : r[i] = k
      BY <2>1 DEF OnRight
    <3>2. p[l[i]] = k /\ l[i] \in D
      BY <1>1, <1>7, <3>1
    <3> QED BY <3>2
  <2>2. CASE OnLeft(k)
    <3>1. PICK i \in 1 .. m : l[i] = k
      BY <2>2 DEF OnLeft
    <3> DEFINE before == IF i = 1 THEN m ELSE i - 1
    <3>2. before \in 1 .. m /\ next[before] = i
      BY <1>1
    <3> HIDE DEF before, next
    <3>3. p[r[before]] = k /\ r[before] \in D
      BY <1>1, <1>7, <3>1, <3>2
    <3> QED BY <3>3
  <2>3. CASE ~OnLeft(k) /\ ~OnRight(k)
    BY <1>7, <2>3
  <2> QED BY <2>1, <2>2, <2>3
<1>9. p \in [D -> D]
  <2> HIDE DEF next
  <2> QED BY <1>6
<1> HIDE DEF p
<1>10. Permutes(p, n, lo, hi)
  <2>1. ASSUME NEW k \in D PROVE IF lo <= k /\ k < hi THEN lo <= p[k] /\ p[k] < hi ELSE p[k] = k
    <3>1. CASE OnLeft(k) \/ OnRight(k)
      BY <1>1, <1>6, <3>1
    <3>2. CASE ~OnLeft(k) /\ ~OnRight(k)
      BY <1>1, <1>7, <3>2
    <3> QED BY <3>1, <3>2
  <2> QED BY <1>8, <2>1 DEF Permutes
<1>11. t \in Arrays(n)
  <2>1. \A k \in D : t[k] \in Int
    BY <1>6 DEF Arrays
  <2>2. DOMAIN t = D /\ t = [k \in DOMAIN t |-> t[k]]
    BY <1>5
  <2> QED BY <2>1, <2>2 DEF Arrays
<1>12. Rearranged(n, s, t, lo, hi)
  BY <1>6, <1>9, <1>10, <1>11 DEF Rearranged
<1>13. \A i \in 1 .. m : next[i] \in 1 .. m /\ t[l[i]] = s[r[i]] /\ t[r[i]] = s[l[next[i]]]
  <2> SUFFICES ASSUME NEW i \in 1 .. m
               PROVE  next[i] \in 1 .. m /\ t[l[i]] = s[r[i]] /\ t[r[i]] = s[l[next[i]]]
    OBVIOUS
  <2> HIDE DEF next
  <2>1. next[i] \in 1 .. m
    BY <1>4
  <2>2. l[i] \in D /\ r[i] \in D
    BY <1>1
  <2> QED BY <1>6, <1>7, <2>1, <2>2
<1>14. ASSUME NEW k \in D, \A i \in 1 .. m : k # l[i] /\ k # r[i] PROVE t[k] = s[k]
  <2>1. ~OnLeft(k) /\ ~OnRight(k)
    BY <1>14 DEF OnLeft, OnRight
  <2> QED BY <1>6, <1>7, <2>1
<1> HIDE DEF next
<1>15. ChangeSides(n, s, t, l, r, m, lo, hi)
  BY <1>12, <1>13, <1>14 DEF ChangeSides
<1> QED BY <1>15 DEF t

LEMMA ListsRest ==
  ASSUME NEW S, NEW q, Lists(q, S), NEW m \in 0 .. Len(q)
  PROVE  Lists(SubSeq(q, m + 1, Len(q)), {x \in S : \A i \in 1 .. m : q[i] # x})
<1> DEFINE c == Len(q)
           r == SubSeq(q, m + 1, c)
           T == {x \in S : \A i \in 1 .. m : q[i] # x}
<1>1. q \in Seq(Nat) /\ c \in Nat /\ m \in Nat /\ m <= c /\ \A i \in 1 .. c : q[i] \in Nat
  BY LenProperties DEF Lists
<1>2. r \in Seq(Nat) /\ Len(r) = c - m /\ \A i \in 1 .. c - m : r[i] = q[m + i]
  <2>1. m + 1 \in Int /\ c \in Int /\ \A i \in m + 1 .. c : q[i] \in Nat
    BY <1>1
  <2>2. /\ r \in Seq(Nat)
        /\ Len(r) = IF m + 1 <= c THEN c - (m + 1) + 1 ELSE 0
        /\ \A i \in 1 .. c - (m + 1) + 1 : r[i] = q[(m + 1) + i - 1]
    <3> HIDE DEF c
    <3> QED BY <2>1, SubSeqProperties
  <2>3. \A i \in 1 .. c - m : (m + 1) + i - 1 = m + i /\ i \in 1 .. c - (m + 1) + 1
    BY <1>1
  <2>4. Len(r) = c - m
    BY <1>1, <2>2
  <2>5. \A i \in 1 .. c - m : r[i] = q[m + i]
    BY <2>2, <2>3
  <2> QED BY <2>2, <2>4, <2>5
<1>3. \A i, j \in 1 .. c : i < j => q[i] < q[j]
  BY DEF Lists
<1> HIDE DEF r, c
<1>4. ASSUME NEW i \in 1 .. Len(r), NEW j \in 1 .. Len(r), i < j PROVE r[i] < r[j]
  BY <1>1, <1>2, <1>3, <1>4
<1>5. ASSUME NEW i \in 1 .. Len(r) PROVE r[i] \in T
  <2>1. m + i \in 1 .. c /\ r[i] = q[m + i]
    BY <1>1, <1>2
  <2>2. q[m + i] \in S
    BY <2>1 DEF Lists, c
  <2>3. ASSUME NEW j \in 1 .. m PROVE q[j] # q[m + i]
    <3>1. j \in 1 .. c /\ j < m + i
      BY <1>1
    <3>2. q[j] < q[m + i] /\ q[j] \in Nat /\ q[m + i] \in Nat
      BY <1>1, <1>3, <2>1, <3>1
    <3> QED BY <3>2
  <2> QED BY <2>1, <2>2, <2>3
<1>6. ASSUME NEW x \in T PROVE \E i \in 1 .. Len(r) : r[i] = x
  <2>1. PICK i \in 1 .. c : q[i] = x
    BY DEF Lists, c
  <2>2. i \notin 1 .. m
    BY <2>1
  <2>3. i - m \in 1 .. Len(r) /\ i - m \in 1 .. c - m /\ m + (i - m) = i
    BY <1>1, <1>2, <2>2
  <2>4. r[i - m] = x
    BY <1>2, <2>1, <2>3
  <2> QED BY <2>3, <2>4
<1> HIDE DEF T
<1>7. Len(r) \in Nat
  BY <1>1, <1>2
<1>8. Lists(r, T)
  BY <1>2, <1>4, <1>5, <1>6, <1>7 DEF Lists
<1> QED BY <1>8 DEF r, T, c

LEMMA ListsAll ==
  ASSUME NEW S, NEW q, Lists(q, S)
  PROVE  q = <<>> <=> S = {}
<1>1. q \in Seq(Nat) /\ Len(q) \in Nat
  BY DEF Lists
<1>2. CASE q = <<>>
  <2>1. Len(q) = 0
    BY <1>2
  <2> QED BY <1>2, <2>1 DEF Lists
<1>3. CASE q # <<>>
  <2>1. Len(q) # 0
    BY <1>1, <1>3, EmptySeq
  <2>2. 1 \in 1 .. Len(q)
    BY <1>1, <2>1
  <2> QED BY <1>3, <2>2 DEF Lists
<1> QED BY <1>2, <1>3

\* The offsets of the elements on the wrong side.
LeftOffsets(s, l_base, first, x) == {i \in 0 .. first - l_base - 1 : x <= s[l_base + i]}
RightOffsets(s, r_base, last, x) == {i \in 1 .. r_base - last : s[r_base - i] < x}

\* What is before l_base is less than the pivot and what is from r_base on is not;
\* what is before `first' and from `last' on is known.
BlockShape(s, b, e, first, last, l_base, r_base, l, r) ==
  /\ {first, last, l_base, r_base} \subseteq Int
  /\ b + 1 < l_base /\ l_base <= first /\ first <= last /\ last <= r_base /\ r_base < e
  /\ \A k \in b + 1 .. l_base - 1 : s[k] < s[b]
  /\ \A k \in r_base .. e - 1 : s[b] <= s[k]
  /\ Lists(l, LeftOffsets(s, l_base, first, s[b]))
  /\ Lists(r, RightOffsets(s, r_base, last, s[b]))

BlockPart(s, b, e, first, last, l_base, r_base, l, r) ==
  /\ BlockShape(s, b, e, first, last, l_base, r_base, l, r)
  /\ l = <<>> => l_base = first
  /\ r = <<>> => r_base = last
  /\ l = <<>> \/ r = <<>>

LEMMA FillLeft ==
  ASSUME NEW n \in Nat, NEW s \in Arrays(n), NEW b \in Nat, NEW e \in Nat, e <= n,
         NEW first, NEW last, NEW r_base, NEW r,
         BlockShape(s, b, e, first, last, first, r_base, <<>>, r),
         NEW m \in Nat, first + m <= last
  PROVE  BlockShape(s, b, e, first + m, last, first, r_base,
                    Ascending({i \in 0 .. m - 1 : s[first + i] >= s[b]}, m), r)
<1> DEFINE S == {i \in 0 .. m - 1 : s[first + i] >= s[b]}
<1>1. /\ first \in Int /\ last \in Int /\ r_base \in Int
      /\ b + 1 < first /\ last <= r_base /\ r_base < e
  BY DEF BlockShape
<1>2. S \in SUBSET (0 .. m)
  OBVIOUS
<1>3. S = LeftOffsets(s, first, first + m, s[b])
  <2>1. 0 .. m - 1 = 0 .. first + m - first - 1
    BY <1>1
  <2>2. ASSUME NEW i \in 0 .. m - 1 PROVE s[first + i] >= s[b] <=> s[b] <= s[first + i]
    <3>1. first + i \in 0 .. n - 1 /\ b \in 0 .. n - 1
      BY <1>1
    <3>2. s[first + i] \in Int /\ s[b] \in Int
      BY <3>1 DEF Arrays
    <3> QED BY <3>2
  <2>3. LeftOffsets(s, first, first + m, s[b]) = {i \in 0 .. m - 1 : s[b] <= s[first + i]}
    BY <1>1, <2>1 DEF LeftOffsets
  <2> QED BY <2>2, <2>3
<1> HIDE DEF S
<1>4. Lists(Ascending(S, m), LeftOffsets(s, first, first + m, s[b]))
  BY <1>2, <1>3, AscendingIs
<1>5. BlockShape(s, b, e, first + m, last, first, r_base, Ascending(S, m), r)
  BY <1>1, <1>4 DEF BlockShape
<1> QED BY <1>5 DEF S

LEMMA FillRight ==
  ASSUME NEW s, NEW b \in Nat, NEW e \in Nat, NEW first, NEW last, NEW l_base, NEW l,
         BlockShape(s, b, e, first, last, l_base, last, l, <<>>),
         NEW m \in Nat, first <= last - m
  PROVE  BlockShape(s, b, e, first, last - m, l_base, last, l,
                    Ascending({i \in 1 .. m : s[last - i] < s[b]}, m))
<1> DEFINE S == {i \in 1 .. m : s[last - i] < s[b]}
<1>1. first \in Int /\ last \in Int /\ l_base \in Int
  BY DEF BlockShape
<1>2. S \in SUBSET (0 .. m)
  OBVIOUS
<1>3. S = RightOffsets(s, last, last - m, s[b])
  <2>1. 1 .. m = 1 .. last - (last - m)
    BY <1>1
  <2> QED BY <2>1 DEF RightOffsets
<1> HIDE DEF S
<1>4. Lists(Ascending(S, m), RightOffsets(s, last, last - m, s[b]))
  BY <1>2, <1>3, AscendingIs
<1>5. BlockShape(s, b, e, first, last - m, l_base, last, l, Ascending(S, m))
  BY <1>1, <1>4 DEF BlockShape
<1> QED BY <1>5 DEF S

\* A side with nothing wrong in it is done.
LEMMA AdvanceLeft ==
  ASSUME NEW n \in Nat, NEW s \in Arrays(n), NEW b \in Nat, NEW e \in Nat, e <= n,
         NEW first, NEW last, NEW l_base, NEW r_base, NEW r,
         BlockShape(s, b, e, first, last, l_base, r_base, <<>>, r)
  PROVE  BlockShape(s, b, e, first, last, first, r_base, <<>>, r)
<1>1. /\ first \in Int /\ last \in Int /\ r_base \in Int /\ l_base \in Int
      /\ b + 1 < l_base /\ l_base <= first /\ first <= last /\ last <= r_base /\ r_base < e
  BY DEF BlockShape
<1>2. LeftOffsets(s, l_base, first, s[b]) = {}
  BY ListsAll DEF BlockShape
<1>3. \A k \in 0 .. n - 1 : s[k] \in Int
  BY DEF Arrays
<1>4. ASSUME NEW k \in b + 1 .. first - 1 PROVE s[k] < s[b]
  <2>1. CASE k < l_base
    <3>1. k \in b + 1 .. l_base - 1
      BY <1>1, <2>1
    <3> QED BY <3>1 DEF BlockShape
  <2>2. CASE l_base <= k
    <3>1. k - l_base \in 0 .. first - l_base - 1 /\ l_base + (k - l_base) = k /\ k \in 0 .. n - 1 /\ b \in 0 .. n - 1
      BY <1>1, <2>2
    <3>2. ~(s[b] <= s[k])
      BY <1>2, <3>1 DEF LeftOffsets
    <3> QED BY <1>3, <3>1, <3>2
  <2> QED BY <1>1, <2>1, <2>2
<1>5. LeftOffsets(s, first, first, s[b]) = {}
  BY <1>1 DEF LeftOffsets
<1> QED BY <1>1, <1>4, <1>5, ListsNothing DEF BlockShape

LEMMA AdvanceRight ==
  ASSUME NEW n \in Nat, NEW s \in Arrays(n), NEW b \in Nat, NEW e \in Nat, e <= n,
         NEW first, NEW last, NEW l_base, NEW r_base, NEW l,
         BlockShape(s, b, e, first, last, l_base, r_base, l, <<>>)
  PROVE  BlockShape(s, b, e, first, last, l_base, last, l, <<>>)
<1>1. /\ first \in Int /\ last \in Int /\ r_base \in Int /\ l_base \in Int
      /\ b + 1 < l_base /\ l_base <= first /\ first <= last /\ last <= r_base /\ r_base < e
  BY DEF BlockShape
<1>2. RightOffsets(s, r_base, last, s[b]) = {}
  BY ListsAll DEF BlockShape
<1>3. \A k \in 0 .. n - 1 : s[k] \in Int
  BY DEF Arrays
<1>4. ASSUME NEW k \in last .. e - 1 PROVE s[b] <= s[k]
  <2>1. CASE r_base <= k
    <3>1. k \in r_base .. e - 1
      BY <1>1, <2>1
    <3> QED BY <3>1 DEF BlockShape
  <2>2. CASE k < r_base
    <3>1. r_base - k \in 1 .. r_base - last /\ r_base - (r_base - k) = k /\ k \in 0 .. n - 1 /\ b \in 0 .. n - 1
      BY <1>1, <2>2
    <3>2. ~(s[k] < s[b])
      BY <1>2, <3>1 DEF RightOffsets
    <3> QED BY <1>3, <3>1, <3>2
  <2> QED BY <1>1, <2>1, <2>2
<1>5. RightOffsets(s, last, last, s[b]) = {}
  BY <1>1 DEF RightOffsets
<1> QED BY <1>1, <1>4, <1>5, ListsNothing DEF BlockShape

\* The positions of the first m offsets.
OffsetPositions(pl, pr, l_base, r_base, l, r, m) ==
  pl = [i \in 1 .. m |-> l_base + l[i]] /\ pr = [i \in 1 .. m |-> r_base - r[i]]

\* Changing the sides of the positions pl and pr leaves the rest of the blocks.
KeepsShape(n, s, b, e, first, last, l_base, r_base, l, r, m, pl, pr) ==
  \A t : ChangeSides(n, s, t, pl, pr, m, b, e) =>
    /\ Rearranged(n, s, t, b, e)
    /\ BlockShape(t, b, e, first, last, l_base, r_base,
                  SubSeq(l, m + 1, Len(l)), SubSeq(r, m + 1, Len(r)))

\* The first m elements of the two blocks change sides.
LEMMA BlocksExchange ==
  ASSUME NEW n \in Nat, NEW s \in Arrays(n), NEW b \in Nat, NEW e \in Nat, e <= n,
         NEW first, NEW last, NEW l_base, NEW r_base, NEW l, NEW r,
         BlockShape(s, b, e, first, last, l_base, r_base, l, r),
         NEW m \in Nat, m <= Len(l), m <= Len(r),
         NEW pl, NEW pr, OffsetPositions(pl, pr, l_base, r_base, l, r, m)
  PROVE  /\ Sides(n, pl, pr, m, b, e)
         /\ KeepsShape(n, s, b, e, first, last, l_base, r_base, l, r, m, pl, pr)
<1> DEFINE LS(t) == LeftOffsets(t, l_base, first, s[b])
           RS(t) == RightOffsets(t, r_base, last, s[b])
<1>0. pl = [i \in 1 .. m |-> l_base + l[i]] /\ pr = [i \in 1 .. m |-> r_base - r[i]]
  BY DEF OffsetPositions
<1>1. /\ first \in Int /\ last \in Int /\ r_base \in Int /\ l_base \in Int
      /\ b + 1 < l_base /\ l_base <= first /\ first <= last /\ last <= r_base /\ r_base < e
      /\ b \in 0 .. n - 1 /\ s[b] \in Int
  BY DEF BlockShape, Arrays
<1>2. Lists(l, LS(s)) /\ Lists(r, RS(s))
  BY DEF BlockShape
<1>3. Len(l) \in Nat /\ Len(r) \in Nat /\ m \in 0 .. Len(l) /\ m \in 0 .. Len(r)
  BY <1>2 DEF Lists
<1>4. \A k \in 0 .. n - 1 : s[k] \in Int
  BY DEF Arrays
<1>5. ASSUME NEW i \in 1 .. m
      PROVE  /\ l[i] \in 0 .. first - l_base - 1 /\ pl[i] = l_base + l[i] /\ pl[i] \in l_base .. first - 1 /\ pl[i] \in 0 .. n - 1
             /\ s[b] <= s[pl[i]] /\ pl[i] \in b .. e - 1 /\ pl[i] \in Int /\ l_base <= pl[i] /\ pl[i] < first /\ l[i] \in Int
  <2>1. l[i] \in LS(s) /\ pl[i] = l_base + l[i]
    BY <1>0, <1>2, <1>3 DEF Lists
  <2>2. l[i] \in 0 .. first - l_base - 1 /\ s[b] <= s[l_base + l[i]]
    BY <2>1 DEF LeftOffsets
  <2>3. \A x \in 0 .. first - l_base - 1 : \A y : y = l_base + x =>
          /\ y \in l_base .. first - 1 /\ y \in 0 .. n - 1 /\ y \in b .. e - 1
          /\ y \in Int /\ l_base <= y /\ y < first /\ x \in Int
    BY <1>1
  <2> QED BY <2>1, <2>2, <2>3, Zenon
<1>6. ASSUME NEW i \in 1 .. m
      PROVE  /\ r[i] \in 1 .. r_base - last /\ pr[i] = r_base - r[i] /\ pr[i] \in last .. r_base - 1 /\ pr[i] \in 0 .. n - 1
             /\ s[pr[i]] < s[b] /\ pr[i] \in b .. e - 1 /\ pr[i] \in Int /\ last <= pr[i] /\ pr[i] < r_base /\ r[i] \in Int
  <2>1. r[i] \in RS(s) /\ pr[i] = r_base - r[i]
    BY <1>0, <1>2, <1>3 DEF Lists
  <2>2. r[i] \in 1 .. r_base - last /\ s[r_base - r[i]] < s[b]
    BY <2>1 DEF RightOffsets
  <2>3. \A x \in 1 .. r_base - last : \A y : y = r_base - x =>
          /\ y \in last .. r_base - 1 /\ y \in 0 .. n - 1 /\ y \in b .. e - 1
          /\ y \in Int /\ last <= y /\ y < r_base /\ x \in Int
    BY <1>1
  <2> QED BY <2>1, <2>2, <2>3, Zenon
<1>7. Sides(n, pl, pr, m, b, e)
  <2>1. \A i \in 1 .. m : pl[i] \in b .. e - 1 /\ pr[i] \in b .. e - 1
    BY <1>5, <1>6, Zenon
  <2>2. pl \in [1 .. m -> b .. e - 1] /\ pr \in [1 .. m -> b .. e - 1]
    BY <1>0, <2>1
  <2>3. ASSUME NEW i \in 1 .. m, NEW j \in 1 .. m PROVE (i # j => pl[i] # pl[j] /\ pr[i] # pr[j]) /\ pl[i] # pr[j]
    <3>1. i # j => l[i] # l[j] /\ r[i] # r[j]
      <4>1. i \in 1 .. Len(l) /\ j \in 1 .. Len(l) /\ i \in 1 .. Len(r) /\ j \in 1 .. Len(r)
        BY <1>3
      <4>2. i # j => i < j \/ j < i
        OBVIOUS
      <4>3. /\ i < j => l[i] < l[j] /\ r[i] < r[j]
            /\ j < i => l[j] < l[i] /\ r[j] < r[i]
        BY <1>2, <4>1 DEF Lists
      <4>4. l[i] \in Int /\ l[j] \in Int /\ r[i] \in Int /\ r[j] \in Int
        BY <1>5, <1>6
      <4> QED BY <4>2, <4>3, <4>4, SMTT(60)
    <3>2. /\ l[i] \in Int /\ l[j] \in Int /\ pl[i] = l_base + l[i] /\ pl[j] = l_base + l[j] /\ pl[i] < first
      BY <1>5, Zenon
    <3>3. /\ r[i] \in Int /\ r[j] \in Int /\ pr[i] = r_base - r[i] /\ pr[j] = r_base - r[j] /\ last <= pr[j]
      BY <1>6, Zenon
    <3>4. pl[i] # pr[j]
      <4>1. pl[i] \in Int /\ pr[j] \in Int /\ pl[i] < first /\ last <= pr[j]
        BY <1>5, <1>6, Zenon
      <4> QED BY <1>1, <4>1
    <3>5. i # j => pl[i] # pl[j]
      <4>1. \A x, y \in Int : x # y => l_base + x # l_base + y
        BY <1>1
      <4> QED BY <3>1, <3>2, <4>1, Zenon
    <3>6. i # j => pr[i] # pr[j]
      <4>1. \A x, y \in Int : x # y => r_base - x # r_base - y
        BY <1>1
      <4> QED BY <3>1, <3>3, <4>1, Zenon
    <3> QED BY <3>4, <3>5, <3>6
  <2> QED BY <1>1, <2>2, <2>3, SMTT(60) DEF Sides
<1>8. ASSUME NEW t, ChangeSides(n, s, t, pl, pr, m, b, e)
      PROVE  /\ Rearranged(n, s, t, b, e)
             /\ BlockShape(t, b, e, first, last, l_base, r_base,
                           SubSeq(l, m + 1, Len(l)), SubSeq(r, m + 1, Len(r)))
  <2>1. /\ Rearranged(n, s, t, b, e)
        /\ \A i \in 1 .. m : \E j \in 1 .. m : t[pl[i]] = s[pr[j]]
        /\ \A i \in 1 .. m : \E j \in 1 .. m : t[pr[i]] = s[pl[j]]
        /\ \A k \in 0 .. n - 1 : (\A i \in 1 .. m : k # pl[i] /\ k # pr[i]) => t[k] = s[k]
    BY <1>8 DEF ChangeSides
  <2>2. \A i \in 1 .. m : t[pl[i]] < s[b] /\ s[b] <= t[pr[i]]
    BY <1>5, <1>6, <2>1
  <2>3. ASSUME NEW k \in 0 .. n - 1, k < l_base \/ r_base <= k PROVE t[k] = s[k]
    <3>1. \A i \in 1 .. m : k # pl[i] /\ k # pr[i]
      <4> SUFFICES ASSUME NEW i \in 1 .. m PROVE k # pl[i] /\ k # pr[i]
        OBVIOUS
      <4>1. pl[i] \in Int /\ l_base <= pl[i] /\ pl[i] < first /\ pr[i] \in Int /\ last <= pr[i] /\ pr[i] < r_base
        BY <1>5, <1>6, Zenon
      <4> QED BY <1>1, <2>3, <4>1, SMTT(60)
    <3> QED BY <2>1, <3>1
  <2>4. t[b] = s[b]
    BY <1>1, <2>3
  <2>5. \A k \in b + 1 .. l_base - 1 : t[k] < t[b]
    <3>1. \A k \in b + 1 .. l_base - 1 : k \in 0 .. n - 1 /\ k < l_base /\ s[k] < s[b]
      BY <1>1 DEF BlockShape
    <3> QED BY <2>3, <2>4, <3>1
  <2>6. \A k \in r_base .. e - 1 : t[b] <= t[k]
    <3>1. \A k \in r_base .. e - 1 : k \in 0 .. n - 1 /\ r_base <= k /\ s[b] <= s[k]
      BY <1>1 DEF BlockShape
    <3> QED BY <2>3, <2>4, <3>1
  <2>7. LS(t) = {x \in LS(s) : \A i \in 1 .. m : l[i] # x}
    <3>1. ASSUME NEW x \in 0 .. first - l_base - 1
          PROVE  s[b] <= t[l_base + x] <=> s[b] <= s[l_base + x] /\ \A i \in 1 .. m : l[i] # x
      <4>1. l_base + x \in 0 .. n - 1 /\ l_base + x < first
        BY <1>1
      <4>2. CASE \E i \in 1 .. m : l[i] = x
        <5>1. PICK i \in 1 .. m : l[i] = x
          BY <4>2
        <5>2. pl[i] = l_base + x /\ t[pl[i]] < s[b]
          BY <1>5, <2>2, <5>1
        <5>3. t[l_base + x] \in Int
          BY <2>1, <4>1 DEF Rearranged, Arrays
        <5>4. ~(s[b] <= t[l_base + x])
          BY <1>1, <5>2, <5>3
        <5> QED BY <5>1, <5>4
      <4>3. CASE \A i \in 1 .. m : l[i] # x
        <5>1. ASSUME NEW i \in 1 .. m PROVE l_base + x # pl[i] /\ l_base + x # pr[i]
          <6>1. l[i] \in Int /\ pl[i] = l_base + l[i] /\ l[i] # x
            BY <1>5, <4>3
          <6>2. last <= pr[i] /\ pr[i] \in Int
            BY <1>6
          <6> QED BY <1>1, <4>1, <6>1, <6>2, SMTT(60)
        <5>2. t[l_base + x] = s[l_base + x]
          BY <2>1, <4>1, <5>1
        <5> QED BY <4>3, <5>2
      <4> QED BY <4>2, <4>3
    <3> QED BY <3>1, Zenon DEF LeftOffsets
  <2>8. RS(t) = {x \in RS(s) : \A i \in 1 .. m : r[i] # x}
    <3>1. ASSUME NEW x \in 1 .. r_base - last
          PROVE  t[r_base - x] < s[b] <=> s[r_base - x] < s[b] /\ \A i \in 1 .. m : r[i] # x
      <4>1. r_base - x \in 0 .. n - 1 /\ last <= r_base - x
        BY <1>1
      <4>2. CASE \E i \in 1 .. m : r[i] = x
        <5>1. PICK i \in 1 .. m : r[i] = x
          BY <4>2
        <5>2. pr[i] = r_base - x /\ s[b] <= t[pr[i]]
          BY <1>6, <2>2, <5>1
        <5>3. t[r_base - x] \in Int
          BY <2>1, <4>1 DEF Rearranged, Arrays
        <5>4. ~(t[r_base - x] < s[b])
          BY <1>1, <5>2, <5>3
        <5> QED BY <5>1, <5>4
      <4>3. CASE \A i \in 1 .. m : r[i] # x
        <5>1. ASSUME NEW i \in 1 .. m PROVE r_base - x # pl[i] /\ r_base - x # pr[i]
          <6>1. r[i] \in Int /\ pr[i] = r_base - r[i] /\ r[i] # x
            BY <1>6, <4>3
          <6>2. pl[i] < first /\ pl[i] \in Int
            BY <1>1, <1>5
          <6> QED BY <1>1, <4>1, <6>1, <6>2, SMTT(60)
        <5>2. t[r_base - x] = s[r_base - x]
          BY <2>1, <4>1, <5>1
        <5> QED BY <4>3, <5>2
      <4> QED BY <4>2, <4>3
    <3> QED BY <3>1, Zenon DEF RightOffsets
  <2>9. Lists(SubSeq(l, m + 1, Len(l)), LS(t)) /\ Lists(SubSeq(r, m + 1, Len(r)), RS(t))
    <3> HIDE DEF LS, RS
    <3>1. Lists(SubSeq(l, m + 1, Len(l)), {x \in LS(s) : \A i \in 1 .. m : l[i] # x})
      BY <1>2, <1>3, ListsRest
    <3>2. Lists(SubSeq(r, m + 1, Len(r)), {x \in RS(s) : \A i \in 1 .. m : r[i] # x})
      BY <1>2, <1>3, ListsRest
    <3> QED BY <2>7, <2>8, <3>1, <3>2
  <2>10. {first, last, l_base, r_base} \subseteq Int
    BY <1>1
  <2>11. /\ Lists(SubSeq(l, m + 1, Len(l)), LeftOffsets(t, l_base, first, t[b]))
         /\ Lists(SubSeq(r, m + 1, Len(r)), RightOffsets(t, r_base, last, t[b]))
    BY <2>4, <2>9
  <2>12. BlockShape(t, b, e, first, last, l_base, r_base, SubSeq(l, m + 1, Len(l)), SubSeq(r, m + 1, Len(r)))
    BY <1>1, <2>5, <2>6, <2>10, <2>11 DEF BlockShape
  <2> QED BY <2>1, <2>12
<1> HIDE DEF LS, RS
<1> QED BY <1>7, <1>8 DEF KeepsShape

\* The farthest offset first.
LEMMA FarthestFirstIs ==
  ASSUME NEW S, NEW q, Lists(q, S)
  PROVE  /\ DOMAIN FarthestFirst(q) = 1 .. Len(q) /\ Len(FarthestFirst(q)) = Len(q)
         /\ \A i \in 1 .. Len(q) : FarthestFirst(q)[i] = q[Len(q) + 1 - i]
<1>1. q \in Seq(Nat) /\ Len(q) \in Nat /\ DOMAIN q = 1 .. Len(q) /\ \A i \in 1 .. Len(q) : q[i] \in Nat
  BY LenProperties DEF Lists
<1> DEFINE m == Len(q)
           w == [i \in 1 .. m |-> q[m + 1 - i]]
<1>2. FarthestFirst(q) = w
  BY <1>1 DEF FarthestFirst
<1>3. w \in [1 .. m -> Nat]
  <2>1. \A i \in 1 .. m : m + 1 - i \in 1 .. m
    BY <1>1
  <2> QED BY <1>1, <2>1
<1>4. Len(w) = m
  <2> HIDE DEF w
  <2> QED BY <1>1, <1>3, FunctionIsSequence
<1> QED BY <1>2, <1>4

\* What is wrong on the left goes next to the boundary.
LEMMA LastLeft ==
  ASSUME NEW n \in Nat, NEW s \in Arrays(n), NEW b \in Nat, NEW e \in Nat, e <= n,
         NEW last, NEW l_base, NEW l, l # <<>>,
         BlockShape(s, b, e, last, last, l_base, last, l, <<>>),
         NEW w, w = FarthestFirst(l),
         NEW t, t = SwappedAll(s, [i \in DOMAIN w |-> <<l_base + w[i], last - i>>])
  PROVE  Rearranged(n, s, t, b, e) /\ RightPart(t, b, e, last - Len(w), last - Len(w))
<1> DEFINE S == LeftOffsets(s, l_base, last, s[b])
           m == Len(l)
           pairs == [i \in 1 .. m |-> <<l_base + l[m + 1 - i], last - i>>]
<1>1. /\ last \in Int /\ l_base \in Int /\ b + 1 < l_base /\ l_base <= last /\ last < e
      /\ b \in 0 .. n - 1 /\ s[b] \in Int
      /\ Lists(l, S)
  BY DEF BlockShape, Arrays
<1>2. m \in Nat /\ m >= 1 /\ DOMAIN w = 1 .. m /\ Len(w) = m /\ \A i \in 1 .. m : w[i] = l[m + 1 - i]
  <2>1. l \in Seq(Nat) /\ m \in Nat
    BY <1>1 DEF Lists
  <2>2. m # 0
    BY <2>1, EmptySeq
  <2> QED BY <1>1, <2>1, <2>2, FarthestFirstIs, SMTT(60)
<1>3. \A i \in 1 .. m : l[i] \in 0 .. last - l_base - 1
  BY <1>1 DEF Lists, LeftOffsets
<1>4. \A i, j \in 1 .. m : i < j => l[i] < l[j]
  BY <1>1 DEF Lists
<1>5. \A k \in l_base .. last - 1 : s[b] <= s[k] <=> \E j \in 1 .. m : k = l_base + l[j]
  <2> SUFFICES ASSUME NEW k \in l_base .. last - 1
               PROVE  s[b] <= s[k] <=> \E j \in 1 .. m : k = l_base + l[j]
    OBVIOUS
  <2>1. k - l_base \in 0 .. last - l_base - 1 /\ l_base + (k - l_base) = k
    BY <1>1
  <2>2. s[b] <= s[k] <=> k - l_base \in S
    BY <2>1 DEF LeftOffsets
  <2>3. k - l_base \in S <=> \E j \in 1 .. m : l[j] = k - l_base
    BY <1>1 DEF Lists
  <2>4. \A j \in 1 .. m : l[j] = k - l_base <=> k = l_base + l[j]
    <3>1. \A x \in 0 .. last - l_base - 1 : x = k - l_base <=> k = l_base + x
      BY <1>1
    <3> QED BY <1>3, <3>1, Zenon
  <2> QED BY <2>2, <2>3, <2>4
<1>6. pairs = [i \in DOMAIN w |-> <<l_base + w[i], last - i>>]
  BY <1>2
\* The farthest of the first i, and how far it can be.
<1>7. \A i \in 1 .. m : l[m + 1 - i] <= last - l_base - i
  <2> DEFINE G == {i \in 1 .. m : l[m + 1 - i] <= last - l_base - i}
  <2>1. 1 \in G
    BY <1>1, <1>2, <1>3
  <2>2. ASSUME NEW i \in 1 + 1 .. m, i - 1 \in G PROVE i \in G
    <3>1. m + 1 - i \in 1 .. m /\ m + 1 - (i - 1) \in 1 .. m /\ m + 1 - i < m + 1 - (i - 1) /\ i \in 1 .. m
      BY <1>2
    <3>2. l[m + 1 - i] < l[m + 1 - (i - 1)] /\ l[m + 1 - i] \in Int /\ l[m + 1 - (i - 1)] \in Int
      BY <1>3, <1>4, <3>1
    <3>3. l[m + 1 - (i - 1)] <= last - l_base - (i - 1)
      BY <2>2
    <3> QED BY <1>1, <3>1, <3>2, <3>3, SMTT(60)
  <2>3. 1 \in Int /\ m \in Int
    BY <1>2
  <2> HIDE DEF G, m
  <2>4. \A i \in 1 .. m : i \in G
    BY <2>1, <2>2, <2>3, Induction
  <2> QED BY <2>4 DEF G
<1>8. \A i \in 1 .. m : /\ l_base + l[m + 1 - i] \in l_base .. last - i /\ last - i \in l_base .. last - 1
                        /\ l_base + l[m + 1 - i] \in l_base .. last - 1
                        /\ l_base + l[m + 1 - i] \in 0 .. n - 1 /\ last - i \in 0 .. n - 1
  <2> SUFFICES ASSUME NEW i \in 1 .. m
               PROVE  /\ l_base + l[m + 1 - i] \in l_base .. last - i /\ last - i \in l_base .. last - 1
                      /\ l_base + l[m + 1 - i] \in l_base .. last - 1
                      /\ l_base + l[m + 1 - i] \in 0 .. n - 1 /\ last - i \in 0 .. n - 1
    OBVIOUS
  <2>1. m + 1 - i \in 1 .. m
    BY <1>2
  <2>2. l[m + 1 - i] \in 0 .. last - l_base - 1 /\ l[m + 1 - i] <= last - l_base - i
    BY <1>3, <1>7, <2>1
  <2>3. \A x \in 0 .. last - l_base - 1 : x <= last - l_base - i =>
          /\ l_base + x \in l_base .. last - i /\ last - i \in l_base .. last - 1
          /\ l_base + x \in l_base .. last - 1 /\ l_base + x \in 0 .. n - 1 /\ last - i \in 0 .. n - 1
    BY <1>1
  <2> QED BY <2>2, <2>3, Zenon
<1>9. pairs \in Seq(Positions(n)) /\ Len(pairs) = m
  <2>1. pairs \in [1 .. m -> Positions(n)]
    BY <1>8 DEF Positions
  <2> HIDE DEF pairs, m
  <2> QED BY <1>2, <2>1, FunctionIsSequence
<1>10. \A i \in 1 .. m : pairs[i][1] = l_base + l[m + 1 - i] /\ pairs[i][2] = last - i
  OBVIOUS
<1> HIDE DEF pairs, m, S
<1>11. PICK A : SwapTrace(n, s, pairs, A)
  BY <1>9, SwappedAllIs
<1>12. /\ A[0] = s /\ t = A[m]
       /\ \A i \in 1 .. m : A[i] = Swapped(A[i - 1], l_base + l[m + 1 - i], last - i)
       /\ \A i \in 0 .. m : A[i] \in Arrays(n)
  BY <1>6, <1>9, <1>10, <1>11 DEF SwapTrace
<1> DEFINE Half(i) ==
             /\ Rearranged(n, s, A[i], l_base, last)
             /\ \A k \in last - i .. last - 1 : s[b] <= A[i][k]
             /\ \A k \in l_base .. last - i - 1 : s[b] <= A[i][k] <=> \E j \in 1 .. m - i : k = l_base + l[j]
           G == {i \in 0 .. m : Half(i)}
<1>13. 0 \in G
  <2>1. Rearranged(n, s, s, l_base, last)
    BY <1>1, RearrangedRefl
  <2>2. \A k \in last - 0 .. last - 1 : FALSE
    BY <1>1
  <2>3. l_base .. last - 0 - 1 = l_base .. last - 1 /\ 1 .. m - 0 = 1 .. m /\ 0 \in 0 .. m
    BY <1>1, <1>2
  <2> QED BY <1>5, <1>12, <2>1, <2>2, <2>3
<1>14. ASSUME NEW i \in 0 + 1 .. m, i - 1 \in G PROVE i \in G
  <2> DEFINE v == A[i - 1]
             u == A[i]
             h == m + 1 - i
             x == l_base + l[h]
             y == last - i
  <2>1. /\ i \in 1 .. m /\ i \in 0 .. m /\ i - 1 \in 0 .. m /\ h \in 1 .. m /\ h = m - (i - 1) /\ h - 1 = m - i /\ h \in Int
        /\ y \in Int /\ y = last - (i - 1) - 1
    BY <1>1, <1>2
  <2>2. x \in l_base .. y /\ y \in l_base .. last - 1 /\ x \in l_base .. last - 1 /\ x \in 0 .. n - 1 /\ y \in 0 .. n - 1
    BY <1>8, <2>1
  <2>3. v \in Arrays(n) /\ u = Swapped(v, x, y)
    BY <1>12, <2>1
  <2>4. Half(i - 1)
    BY <1>14
  <2>5. /\ Rearranged(n, s, v, l_base, last)
        /\ \A k \in last - (i - 1) .. last - 1 : s[b] <= v[k]
        /\ \A k \in l_base .. y : s[b] <= v[k] <=> \E j \in 1 .. h : k = l_base + l[j]
    BY <2>1, <2>4
  <2> HIDE DEF v, u, h, x, y
  <2>6. /\ u \in Arrays(n)
        /\ \A k \in 0 .. n - 1 : u[k] = IF k = x THEN v[y] ELSE IF k = y THEN v[x] ELSE v[k]
    <3>1. PICK c \in 0 .. n - 1, d \in 0 .. n - 1 : c = x /\ d = y
      BY <2>2
    <3>2. /\ Swapped(v, c, d) \in Arrays(n)
          /\ \A k \in 0 .. n - 1 : Swapped(v, c, d)[k] = IF k = c THEN v[d] ELSE IF k = d THEN v[c] ELSE v[k]
      BY <2>3, SwapValues
    <3> QED BY <2>3, <3>1, <3>2, Zenon
  <2>7. Rearranged(n, s, u, l_base, last)
    <3>1. Rearranged(n, v, u, l_base, last)
      <4>1. l_base \in Nat /\ last \in Nat /\ last <= n
        BY <1>1
      <4> QED BY <2>2, <2>3, <4>1, SwapRearranges
    <3> QED BY <1>1, <2>5, <3>1, RearrangedTrans
  <2>8. s[b] <= v[x]
    <3>1. h \in 1 .. h /\ x = l_base + l[h]
      BY <2>1 DEF x
    <3> QED BY <2>2, <2>5, <3>1
  <2>9. \A k \in 0 .. n - 1 : v[k] \in Int
    BY <2>3 DEF Arrays
  <2>10. \A j \in 1 .. h : j # h => l_base + l[j] < x
    <3> SUFFICES ASSUME NEW j \in 1 .. h, j # h PROVE l_base + l[j] < x
      OBVIOUS
    <3>1. j \in 1 .. m /\ j < h
      BY <1>2, <2>1
    <3>2. l[j] < l[h] /\ l[j] \in Int /\ l[h] \in Int
      BY <1>3, <1>4, <2>1, <3>1
    <3> QED BY <1>1, <3>2 DEF x
  <2>11. x # y => v[y] < s[b]
    <3> SUFFICES ASSUME x # y PROVE v[y] < s[b]
      OBVIOUS
    <3>1. y \in l_base .. y /\ x < y
      BY <1>1, <2>2
    <3>2. \A j \in 1 .. h : y # l_base + l[j]
      <4> SUFFICES ASSUME NEW j \in 1 .. h, y = l_base + l[j] PROVE FALSE
        OBVIOUS
      <4>1. CASE j = h
        BY <3>1, <4>1 DEF x
      <4>2. CASE j # h
        <5>1. y < x
          BY <2>10, <4>2
        <5> QED BY <2>2, <3>1, <5>1
      <4> QED BY <4>1, <4>2
    <3>3. ~(s[b] <= v[y])
      BY <2>5, <3>1, <3>2
    <3> QED BY <1>1, <2>2, <2>9, <3>3
  <2>12. ASSUME NEW k \in last - i .. last - 1 PROVE s[b] <= u[k]
    <3>1. k \in 0 .. n - 1
      BY <1>1, <2>2 DEF y
    <3>2. CASE k = y
      <4>1. u[k] = v[x]
        BY <2>2, <2>6, <3>1, <3>2
      <4> QED BY <2>8, <4>1
    <3>3. CASE k # y
      <4>1. k \in last - (i - 1) .. last - 1 /\ k # x
        BY <1>1, <2>2, <3>3 DEF y
      <4> QED BY <2>5, <2>6, <3>1, <3>3, <4>1
    <3> QED BY <3>2, <3>3
  <2>13. ASSUME NEW k \in l_base .. last - i - 1
         PROVE  s[b] <= u[k] <=> \E j \in 1 .. m - i : k = l_base + l[j]
    <3>1. k \in 0 .. n - 1 /\ k \in l_base .. y /\ k < y /\ 1 .. m - i = 1 .. h - 1
      BY <1>1, <2>1, <2>2 DEF y
    <3>2. CASE k = x
      <4>1. u[k] = v[y] /\ v[y] < s[b]
        BY <2>6, <2>11, <3>1, <3>2
      <4>2. ~(s[b] <= u[k])
        BY <1>1, <2>2, <2>9, <4>1
      <4>3. \A j \in 1 .. h - 1 : k # l_base + l[j]
        <5> SUFFICES ASSUME NEW j \in 1 .. h - 1, k = l_base + l[j] PROVE FALSE
          OBVIOUS
        <5>1. j \in 1 .. h /\ j # h
          BY <2>1
        <5>2. k < x
          BY <2>10, <5>1
        <5> QED BY <3>1, <3>2, <5>2
      <4> QED BY <3>1, <4>2, <4>3
    <3>3. CASE k # x
      <4>1. u[k] = v[k]
        BY <2>6, <3>1, <3>3
      <4>2. (\E j \in 1 .. h : k = l_base + l[j]) <=> \E j \in 1 .. h - 1 : k = l_base + l[j]
        <5>1. \A j \in 1 .. h : j = h \/ j \in 1 .. h - 1
          BY <2>1
        <5>2. \A j \in 1 .. h - 1 : j \in 1 .. h
          BY <2>1
        <5> QED BY <3>3, <5>1, <5>2 DEF x
      <4> QED BY <2>5, <3>1, <4>1, <4>2
    <3> QED BY <3>2, <3>3
  <2> QED BY <2>1, <2>7, <2>12, <2>13 DEF u
<1>15. Half(m)
  <2>1. 0 \in Int /\ m \in Int /\ m \in 0 .. m
    BY <1>2
  <2> HIDE DEF G
  <2>2. \A i \in 0 .. m : i \in G
    BY <1>13, <1>14, <2>1, Induction
  <2>3. m \in G
    BY <2>1, <2>2
  <2> QED BY <2>3 DEF G
<1>16. /\ Rearranged(n, s, t, l_base, last)
       /\ \A k \in last - m .. last - 1 : s[b] <= t[k]
       /\ \A k \in l_base .. last - m - 1 : ~(s[b] <= t[k])
  <2>1. \A j \in 1 .. m - m : FALSE
    BY <1>2
  <2> QED BY <1>12, <1>15, <2>1
<1>17. t \in Arrays(n) /\ \A k \in 0 .. n - 1 : k < l_base \/ last <= k => t[k] = s[k]
  <2>1. t \in Arrays(n) /\ SameOutside(n, s, t, l_base, last)
    BY <1>1, <1>16, RearrangedOutside
  <2> QED BY <1>1, <2>1 DEF SameOutside
<1>18. last - m \in l_base .. last - 1 /\ t[b] = s[b] /\ \A k \in 0 .. n - 1 : t[k] \in Int
  <2>1. m \in 1 .. m
    BY <1>2
  <2>2. last - m \in l_base .. last - 1
    BY <1>8, <2>1
  <2>3. t[b] = s[b]
    BY <1>1, <1>17
  <2>4. \A k \in 0 .. n - 1 : t[k] \in Int
    BY <1>17 DEF Arrays
  <2> QED BY <2>2, <2>3, <2>4
<1>19. ASSUME NEW k \in b + 1 .. last - m - 1 PROVE t[k] < t[b]
  <2>1. k \in 0 .. n - 1
    BY <1>1, <1>2
  <2>2. CASE k < l_base
    <3>1. k \in b + 1 .. l_base - 1
      BY <1>1, <2>2
    <3> QED BY <1>17, <1>18, <2>1, <2>2, <3>1 DEF BlockShape
  <2>3. CASE l_base <= k
    <3>1. k \in l_base .. last - m - 1
      BY <1>1, <2>3
    <3> QED BY <1>1, <1>16, <1>18, <2>1, <3>1
  <2> QED BY <1>1, <2>2, <2>3
<1>20. ASSUME NEW k \in last - m .. e - 1 PROVE t[b] <= t[k]
  <2>1. k \in 0 .. n - 1
    BY <1>1, <1>2, <1>18
  <2>2. CASE k < last
    <3>1. k \in last - m .. last - 1
      BY <1>1, <2>2
    <3> QED BY <1>16, <1>18, <3>1
  <2>3. CASE last <= k
    <3>1. k \in last .. e - 1
      BY <1>1, <2>3
    <3> QED BY <1>17, <1>18, <2>1, <2>3, <3>1 DEF BlockShape
  <2> QED BY <1>1, <2>2, <2>3
<1>21. RightPart(t, b, e, last - m, last - m)
  <2>1. last - m \in b + 1 .. e - 1 /\ ~(last - m < last - m)
    BY <1>1, <1>2, <1>18
  <2> QED BY <1>19, <1>20, <2>1 DEF RightPart
<1>22. Rearranged(n, s, t, b, e)
  <2>1. b \in Int /\ e \in Int /\ b <= l_base /\ last <= e
    BY <1>1
  <2> QED BY <1>1, <1>16, <2>1, RearrangedWider
<1> QED BY <1>2, <1>21, <1>22

\* What is wrong on the right goes next to the boundary.
LEMMA LastRight ==
  ASSUME NEW n \in Nat, NEW s \in Arrays(n), NEW b \in Nat, NEW e \in Nat, e <= n,
         NEW first, NEW r_base, NEW r, r # <<>>,
         BlockShape(s, b, e, first, first, first, r_base, <<>>, r),
         NEW w, w = FarthestFirst(r),
         NEW t, t = SwappedAll(s, [i \in DOMAIN w |-> <<r_base - w[i], first + i - 1>>])
  PROVE  Rearranged(n, s, t, b, e) /\ RightPart(t, b, e, first + Len(w), first + Len(w))
<1> DEFINE S == RightOffsets(s, r_base, first, s[b])
           m == Len(r)
           pairs == [i \in 1 .. m |-> <<r_base - r[m + 1 - i], first + i - 1>>]
<1>1. /\ first \in Int /\ r_base \in Int /\ b + 1 < first /\ first <= r_base /\ r_base < e
      /\ b \in 0 .. n - 1 /\ s[b] \in Int
      /\ Lists(r, S)
  BY DEF BlockShape, Arrays
<1>2. m \in Nat /\ m >= 1 /\ DOMAIN w = 1 .. m /\ Len(w) = m /\ \A i \in 1 .. m : w[i] = r[m + 1 - i]
  <2>1. r \in Seq(Nat) /\ m \in Nat
    BY <1>1 DEF Lists
  <2>2. m # 0
    BY <2>1, EmptySeq
  <2> QED BY <1>1, <2>1, <2>2, FarthestFirstIs, SMTT(60)
<1>3. \A i \in 1 .. m : r[i] \in 1 .. r_base - first
  BY <1>1 DEF Lists, RightOffsets
<1>4. \A i, j \in 1 .. m : i < j => r[i] < r[j]
  BY <1>1 DEF Lists
<1>5. \A k \in first .. r_base - 1 : s[k] < s[b] <=> \E j \in 1 .. m : k = r_base - r[j]
  <2> SUFFICES ASSUME NEW k \in first .. r_base - 1
               PROVE  s[k] < s[b] <=> \E j \in 1 .. m : k = r_base - r[j]
    OBVIOUS
  <2>1. r_base - k \in 1 .. r_base - first /\ r_base - (r_base - k) = k
    BY <1>1
  <2>2. s[k] < s[b] <=> r_base - k \in S
    BY <2>1 DEF RightOffsets
  <2>3. r_base - k \in S <=> \E j \in 1 .. m : r[j] = r_base - k
    BY <1>1 DEF Lists
  <2>4. \A j \in 1 .. m : r[j] = r_base - k <=> k = r_base - r[j]
    <3>1. \A x \in 1 .. r_base - first : x = r_base - k <=> k = r_base - x
      BY <1>1
    <3> QED BY <1>3, <3>1, Zenon
  <2> QED BY <2>2, <2>3, <2>4
<1>6. pairs = [i \in DOMAIN w |-> <<r_base - w[i], first + i - 1>>]
  BY <1>2
\* The farthest of the first i, and how far it can be.
<1>7. \A i \in 1 .. m : r[m + 1 - i] <= r_base - first - (i - 1)
  <2> DEFINE G == {i \in 1 .. m : r[m + 1 - i] <= r_base - first - (i - 1)}
  <2>1. 1 \in G
    BY <1>1, <1>2, <1>3
  <2>2. ASSUME NEW i \in 1 + 1 .. m, i - 1 \in G PROVE i \in G
    <3>1. m + 1 - i \in 1 .. m /\ m + 1 - (i - 1) \in 1 .. m /\ m + 1 - i < m + 1 - (i - 1) /\ i \in 1 .. m
      BY <1>2
    <3>2. r[m + 1 - i] < r[m + 1 - (i - 1)] /\ r[m + 1 - i] \in Int /\ r[m + 1 - (i - 1)] \in Int
      BY <1>3, <1>4, <3>1
    <3>3. r[m + 1 - (i - 1)] <= r_base - first - ((i - 1) - 1)
      BY <2>2
    <3> QED BY <1>1, <3>1, <3>2, <3>3, SMTT(60)
  <2>3. 1 \in Int /\ m \in Int
    BY <1>2
  <2> HIDE DEF G, m
  <2>4. \A i \in 1 .. m : i \in G
    BY <2>1, <2>2, <2>3, Induction
  <2> QED BY <2>4 DEF G
<1>8. \A i \in 1 .. m : /\ r_base - r[m + 1 - i] \in first + i - 1 .. r_base - 1 /\ first + i - 1 \in first .. r_base - 1
                        /\ r_base - r[m + 1 - i] \in first .. r_base - 1
                        /\ r_base - r[m + 1 - i] \in 0 .. n - 1 /\ first + i - 1 \in 0 .. n - 1
  <2> SUFFICES ASSUME NEW i \in 1 .. m
               PROVE  /\ r_base - r[m + 1 - i] \in first + i - 1 .. r_base - 1 /\ first + i - 1 \in first .. r_base - 1
                      /\ r_base - r[m + 1 - i] \in first .. r_base - 1
                      /\ r_base - r[m + 1 - i] \in 0 .. n - 1 /\ first + i - 1 \in 0 .. n - 1
    OBVIOUS
  <2>1. m + 1 - i \in 1 .. m
    BY <1>2
  <2>2. r[m + 1 - i] \in 1 .. r_base - first /\ r[m + 1 - i] <= r_base - first - (i - 1)
    BY <1>3, <1>7, <2>1
  <2>3. \A x \in 1 .. r_base - first : x <= r_base - first - (i - 1) =>
          /\ r_base - x \in first + i - 1 .. r_base - 1 /\ first + i - 1 \in first .. r_base - 1
          /\ r_base - x \in first .. r_base - 1 /\ r_base - x \in 0 .. n - 1 /\ first + i - 1 \in 0 .. n - 1
    BY <1>1
  <2> QED BY <2>2, <2>3, Zenon
<1>9. pairs \in Seq(Positions(n)) /\ Len(pairs) = m
  <2>1. pairs \in [1 .. m -> Positions(n)]
    BY <1>8 DEF Positions
  <2> HIDE DEF pairs, m
  <2> QED BY <1>2, <2>1, FunctionIsSequence
<1>10. \A i \in 1 .. m : pairs[i][1] = r_base - r[m + 1 - i] /\ pairs[i][2] = first + i - 1
  OBVIOUS
<1> HIDE DEF pairs, m, S
<1>11. PICK A : SwapTrace(n, s, pairs, A)
  BY <1>9, SwappedAllIs
<1>12. /\ A[0] = s /\ t = A[m]
       /\ \A i \in 1 .. m : A[i] = Swapped(A[i - 1], r_base - r[m + 1 - i], first + i - 1)
       /\ \A i \in 0 .. m : A[i] \in Arrays(n)
  BY <1>6, <1>9, <1>10, <1>11 DEF SwapTrace
<1> DEFINE Half(i) ==
             /\ Rearranged(n, s, A[i], first, r_base)
             /\ \A k \in first .. first + i - 1 : A[i][k] < s[b]
             /\ \A k \in first + i .. r_base - 1 : A[i][k] < s[b] <=> \E j \in 1 .. m - i : k = r_base - r[j]
           G == {i \in 0 .. m : Half(i)}
<1>13. 0 \in G
  <2>1. Rearranged(n, s, s, first, r_base)
    BY <1>1, RearrangedRefl
  <2>2. \A k \in first .. first + 0 - 1 : FALSE
    BY <1>1
  <2>3. first + 0 .. r_base - 1 = first .. r_base - 1 /\ 1 .. m - 0 = 1 .. m /\ 0 \in 0 .. m
    BY <1>1, <1>2
  <2> QED BY <1>5, <1>12, <2>1, <2>2, <2>3
<1>14. ASSUME NEW i \in 0 + 1 .. m, i - 1 \in G PROVE i \in G
  <2> DEFINE v == A[i - 1]
             u == A[i]
             h == m + 1 - i
             x == r_base - r[h]
             y == first + i - 1
  <2>1. /\ i \in 1 .. m /\ i \in 0 .. m /\ i - 1 \in 0 .. m /\ h \in 1 .. m /\ h = m - (i - 1) /\ h - 1 = m - i /\ h \in Int
        /\ y \in Int /\ y = first + (i - 1)
    BY <1>1, <1>2
  <2>2. x \in y .. r_base - 1 /\ y \in first .. r_base - 1 /\ x \in first .. r_base - 1 /\ x \in 0 .. n - 1 /\ y \in 0 .. n - 1
    BY <1>8, <2>1
  <2>3. v \in Arrays(n) /\ u = Swapped(v, x, y)
    BY <1>12, <2>1
  <2>4. Half(i - 1)
    BY <1>14
  <2>5. /\ Rearranged(n, s, v, first, r_base)
        /\ \A k \in first .. first + (i - 1) - 1 : v[k] < s[b]
        /\ \A k \in y .. r_base - 1 : v[k] < s[b] <=> \E j \in 1 .. h : k = r_base - r[j]
    BY <2>1, <2>4
  <2> HIDE DEF v, u, h, x, y
  <2>6. /\ u \in Arrays(n)
        /\ \A k \in 0 .. n - 1 : u[k] = IF k = x THEN v[y] ELSE IF k = y THEN v[x] ELSE v[k]
    <3>1. PICK c \in 0 .. n - 1, d \in 0 .. n - 1 : c = x /\ d = y
      BY <2>2
    <3>2. /\ Swapped(v, c, d) \in Arrays(n)
          /\ \A k \in 0 .. n - 1 : Swapped(v, c, d)[k] = IF k = c THEN v[d] ELSE IF k = d THEN v[c] ELSE v[k]
      BY <2>3, SwapValues
    <3> QED BY <2>3, <3>1, <3>2, Zenon
  <2>7. Rearranged(n, s, u, first, r_base)
    <3>1. Rearranged(n, v, u, first, r_base)
      <4>1. first \in Nat /\ r_base \in Nat /\ r_base <= n
        BY <1>1
      <4> QED BY <2>2, <2>3, <4>1, SwapRearranges
    <3> QED BY <1>1, <2>5, <3>1, RearrangedTrans
  <2>8. v[x] < s[b]
    <3>1. h \in 1 .. h /\ x = r_base - r[h]
      BY <2>1 DEF x
    <3> QED BY <2>2, <2>5, <3>1
  <2>9. \A k \in 0 .. n - 1 : v[k] \in Int
    BY <2>3 DEF Arrays
  <2>10. \A j \in 1 .. h : j # h => x < r_base - r[j]
    <3> SUFFICES ASSUME NEW j \in 1 .. h, j # h PROVE x < r_base - r[j]
      OBVIOUS
    <3>1. j \in 1 .. m /\ j < h
      BY <1>2, <2>1
    <3>2. r[j] < r[h] /\ r[j] \in Int /\ r[h] \in Int
      BY <1>3, <1>4, <2>1, <3>1
    <3> QED BY <1>1, <3>2 DEF x
  <2>11. x # y => s[b] <= v[y]
    <3> SUFFICES ASSUME x # y PROVE s[b] <= v[y]
      OBVIOUS
    <3>1. y \in y .. r_base - 1 /\ y < x
      BY <1>1, <2>2
    <3>2. \A j \in 1 .. h : y # r_base - r[j]
      <4> SUFFICES ASSUME NEW j \in 1 .. h, y = r_base - r[j] PROVE FALSE
        OBVIOUS
      <4>1. CASE j = h
        BY <3>1, <4>1 DEF x
      <4>2. CASE j # h
        <5>1. x < y
          BY <2>10, <4>2
        <5> QED BY <2>2, <3>1, <5>1
      <4> QED BY <4>1, <4>2
    <3>3. ~(v[y] < s[b])
      BY <2>5, <3>1, <3>2
    <3> QED BY <1>1, <2>2, <2>9, <3>3
  <2>12. ASSUME NEW k \in first .. first + i - 1 PROVE u[k] < s[b]
    <3>1. k \in 0 .. n - 1
      BY <1>1, <2>2 DEF y
    <3>2. CASE k = y
      <4>1. u[k] = v[x]
        BY <2>2, <2>6, <3>1, <3>2
      <4> QED BY <2>8, <4>1
    <3>3. CASE k # y
      <4>1. k \in first .. first + (i - 1) - 1 /\ k # x
        BY <1>1, <2>2, <3>3 DEF y
      <4> QED BY <2>5, <2>6, <3>1, <3>3, <4>1
    <3> QED BY <3>2, <3>3
  <2>13. ASSUME NEW k \in first + i .. r_base - 1
         PROVE  u[k] < s[b] <=> \E j \in 1 .. m - i : k = r_base - r[j]
    <3>1. k \in 0 .. n - 1 /\ k \in y .. r_base - 1 /\ y < k /\ 1 .. m - i = 1 .. h - 1
      BY <1>1, <2>1, <2>2 DEF y
    <3>2. CASE k = x
      <4>1. u[k] = v[y] /\ s[b] <= v[y]
        BY <2>6, <2>11, <3>1, <3>2
      <4>2. ~(u[k] < s[b])
        BY <1>1, <2>2, <2>9, <4>1
      <4>3. \A j \in 1 .. h - 1 : k # r_base - r[j]
        <5> SUFFICES ASSUME NEW j \in 1 .. h - 1, k = r_base - r[j] PROVE FALSE
          OBVIOUS
        <5>1. j \in 1 .. h /\ j # h
          BY <2>1
        <5>2. x < k
          BY <2>10, <5>1
        <5> QED BY <3>1, <3>2, <5>2
      <4> QED BY <3>1, <4>2, <4>3
    <3>3. CASE k # x
      <4>1. u[k] = v[k]
        BY <2>6, <3>1, <3>3
      <4>2. (\E j \in 1 .. h : k = r_base - r[j]) <=> \E j \in 1 .. h - 1 : k = r_base - r[j]
        <5>1. \A j \in 1 .. h : j = h \/ j \in 1 .. h - 1
          BY <2>1
        <5>2. \A j \in 1 .. h - 1 : j \in 1 .. h
          BY <2>1
        <5> QED BY <3>3, <5>1, <5>2 DEF x
      <4> QED BY <2>5, <3>1, <4>1, <4>2
    <3> QED BY <3>2, <3>3
  <2> QED BY <2>1, <2>7, <2>12, <2>13 DEF u
<1>15. Half(m)
  <2>1. 0 \in Int /\ m \in Int /\ m \in 0 .. m
    BY <1>2
  <2> HIDE DEF G
  <2>2. \A i \in 0 .. m : i \in G
    BY <1>13, <1>14, <2>1, Induction
  <2>3. m \in G
    BY <2>1, <2>2
  <2> QED BY <2>3 DEF G
<1>16. /\ Rearranged(n, s, t, first, r_base)
       /\ \A k \in first .. first + m - 1 : t[k] < s[b]
       /\ \A k \in first + m .. r_base - 1 : ~(t[k] < s[b])
  <2>1. \A j \in 1 .. m - m : FALSE
    BY <1>2
  <2> QED BY <1>12, <1>15, <2>1
<1>17. t \in Arrays(n) /\ \A k \in 0 .. n - 1 : k < first \/ r_base <= k => t[k] = s[k]
  <2>1. t \in Arrays(n) /\ SameOutside(n, s, t, first, r_base)
    BY <1>1, <1>16, RearrangedOutside
  <2> QED BY <1>1, <2>1 DEF SameOutside
<1>18. first + m \in first + 1 .. r_base /\ t[b] = s[b] /\ \A k \in 0 .. n - 1 : t[k] \in Int
  <2>1. m \in 1 .. m
    BY <1>2
  <2>2. first + m \in first + 1 .. r_base
    <3>1. first + m - 1 \in first .. r_base - 1
      BY <1>8, <2>1
    <3> QED BY <1>1, <1>2, <3>1
  <2>3. t[b] = s[b]
    BY <1>1, <1>17
  <2>4. \A k \in 0 .. n - 1 : t[k] \in Int
    BY <1>17 DEF Arrays
  <2> QED BY <2>2, <2>3, <2>4
<1>19. ASSUME NEW k \in b + 1 .. first + m - 1 PROVE t[k] < t[b]
  <2>1. k \in 0 .. n - 1
    BY <1>1, <1>2, <1>18
  <2>2. CASE k < first
    <3>1. k \in b + 1 .. first - 1
      BY <1>1, <2>2
    <3> QED BY <1>17, <1>18, <2>1, <2>2, <3>1 DEF BlockShape
  <2>3. CASE first <= k
    <3>1. k \in first .. first + m - 1
      BY <1>1, <2>3
    <3> QED BY <1>1, <1>16, <1>18, <2>1, <3>1
  <2> QED BY <1>1, <2>2, <2>3
<1>20. ASSUME NEW k \in first + m .. e - 1 PROVE t[b] <= t[k]
  <2>1. k \in 0 .. n - 1
    BY <1>1, <1>2, <1>18
  <2>2. CASE k < r_base
    <3>1. k \in first + m .. r_base - 1
      BY <1>1, <2>2
    <3> QED BY <1>1, <1>16, <1>18, <2>1, <3>1
  <2>3. CASE r_base <= k
    <3>1. k \in r_base .. e - 1
      BY <1>1, <2>3
    <3> QED BY <1>17, <1>18, <2>1, <2>3, <3>1 DEF BlockShape
  <2> QED BY <1>1, <2>2, <2>3
<1>21. RightPart(t, b, e, first + m, first + m)
  <2> DEFINE x == first + m
  <2>1. x \in b + 1 .. e - 1 /\ ~(x < x)
    BY <1>1, <1>2, <1>18
  <2>2. \A k \in b + 1 .. x - 1 : t[k] < t[b]
    BY <1>1, <1>2, <1>19
  <2>4. \A k \in x .. e - 1 : t[b] <= t[k]
    BY <1>20
  <2>3. RightPart(t, b, e, x, x)
    BY <2>1, <2>2, <2>4 DEF RightPart
  <2> QED BY <2>3 DEF x
<1>22. Rearranged(n, s, t, b, e)
  <2>1. b \in Int /\ e \in Int /\ b <= first /\ r_base <= e
    BY <1>1
  <2> QED BY <1>1, <1>16, <2>1, RearrangedWider
<1> QED BY <1>2, <1>21, <1>22

LEMMA FarthestFirstOfNothing ==
  ASSUME NEW S, NEW q, Lists(q, S)
  PROVE  FarthestFirst(q) = <<>> <=> q = <<>>
<1> DEFINE w == FarthestFirst(q)
<1>1. q \in Seq(Nat) /\ Len(q) \in Nat
  BY DEF Lists
<1>2. DOMAIN w = 1 .. Len(q) /\ Len(w) = Len(q)
  BY FarthestFirstIs
<1>3. q = <<>> <=> Len(q) = 0
  BY <1>1, EmptySeq
<1>4. CASE Len(q) = 0
  <2>1. q = <<>>
    BY <1>3, <1>4
  <2>2. w = <<>>
    BY <2>1 DEF FarthestFirst
  <2> QED BY <2>1, <2>2
<1>5. CASE Len(q) # 0
  <2>1. w # <<>>
    <3> HIDE DEF w
    <3>1. Len(<<>>) = 0
      OBVIOUS
    <3> QED BY <1>2, <1>5, <3>1
  <2> QED BY <1>3, <1>5, <2>1
<1> QED BY <1>4, <1>5

\* What is left in the blocks is moved, the farthest offset first.
RestMoved(s, first, last, l_base, r_base, l, r, v, w, boundary, t) ==
  /\ v = FarthestFirst(l) /\ w = FarthestFirst(r)
  /\ boundary = IF v # <<>> THEN last - Len(v) ELSE first + Len(w)
  /\ t = SwappedAll(s, IF v # <<>>
                       THEN [i \in DOMAIN v |-> <<l_base + v[i], last - i>>]
                       ELSE [i \in DOMAIN w |-> <<r_base - w[i], first + i - 1>>])

\* The last block leaves a partition as partition_right leaves it.
LEMMA LastBlockIs ==
  ASSUME NEW n \in Nat, NEW s \in Arrays(n), NEW b \in Nat, NEW e \in Nat, e <= n,
         NEW first, NEW last, NEW l_base, NEW r_base, NEW l, NEW r,
         BlockPart(s, b, e, first, last, l_base, r_base, l, r), last <= first,
         NEW v, NEW w, NEW boundary, NEW t,
         RestMoved(s, first, last, l_base, r_base, l, r, v, w, boundary, t)
  PROVE  Rearranged(n, s, t, b, e) /\ RightPart(t, b, e, boundary, boundary)
<1> SUFFICES ASSUME v = FarthestFirst(l), w = FarthestFirst(r),
                    boundary = IF v # <<>> THEN last - Len(v) ELSE first + Len(w),
                    t = SwappedAll(s, IF v # <<>>
                                      THEN [i \in DOMAIN v |-> <<l_base + v[i], last - i>>]
                                      ELSE [i \in DOMAIN w |-> <<r_base - w[i], first + i - 1>>])
             PROVE  Rearranged(n, s, t, b, e) /\ RightPart(t, b, e, boundary, boundary)
  BY Zenon DEF RestMoved
<1>1. BlockShape(s, b, e, first, last, l_base, r_base, l, r)
  BY DEF BlockPart
<1>2. first = last /\ first \in Int
  BY <1>1 DEF BlockShape
<1>3. (v = <<>> <=> l = <<>>) /\ (w = <<>> <=> r = <<>>)
  <2>1. Lists(l, LeftOffsets(s, l_base, first, s[b])) /\ Lists(r, RightOffsets(s, r_base, last, s[b]))
    BY <1>1 DEF BlockShape
  <2> QED BY <2>1, FarthestFirstOfNothing
<1>4. (l = <<>> => l_base = first) /\ (r = <<>> => r_base = last) /\ (l = <<>> \/ r = <<>>)
  BY DEF BlockPart
<1>5. CASE l # <<>>
  <2>1. r = <<>> /\ r_base = last /\ v # <<>>
    BY <1>3, <1>4, <1>5
  <2>2. BlockShape(s, b, e, last, last, l_base, last, l, <<>>)
    BY <1>1, <1>2, <2>1
  <2>3. t = SwappedAll(s, [i \in DOMAIN v |-> <<l_base + v[i], last - i>>]) /\ boundary = last - Len(v)
    BY <2>1
  <2>4. Rearranged(n, s, t, b, e) /\ RightPart(t, b, e, last - Len(v), last - Len(v))
    BY <1>5, <2>2, <2>3, LastLeft
  <2> QED BY <2>3, <2>4
<1>6. CASE l = <<>> /\ r # <<>>
  <2>1. l_base = first /\ v = <<>>
    BY <1>3, <1>4, <1>6
  <2>2. BlockShape(s, b, e, first, first, first, r_base, <<>>, r)
    BY <1>1, <1>2, <1>6, <2>1
  <2>3. t = SwappedAll(s, [i \in DOMAIN w |-> <<r_base - w[i], first + i - 1>>]) /\ boundary = first + Len(w)
    BY <2>1
  <2>4. Rearranged(n, s, t, b, e) /\ RightPart(t, b, e, first + Len(w), first + Len(w))
    BY <1>6, <2>2, <2>3, LastRight
  <2> QED BY <2>3, <2>4
<1>7. CASE l = <<>> /\ r = <<>>
  <2>1. l_base = first /\ r_base = first /\ v = <<>> /\ w = <<>>
    BY <1>2, <1>3, <1>4, <1>7
  <2> DEFINE pairs == [i \in DOMAIN w |-> <<r_base - w[i], first + i - 1>>]
  <2>2. pairs \in Seq(Positions(n)) /\ Len(pairs) = 0
    <3>1. DOMAIN w = 1 .. 0
      BY <2>1
    <3>2. pairs \in [1 .. 0 -> Positions(n)]
      BY <3>1
    <3> HIDE DEF pairs
    <3> QED BY <3>2, FunctionIsSequence
  <2>3. t = SwappedAll(s, pairs) /\ boundary = first
    <3>1. Len(w) = 0
      BY <2>1
    <3> QED BY <1>2, <2>1, <3>1
  <2> HIDE DEF pairs
  <2>4. PICK A : SwapTrace(n, s, pairs, A)
    BY <2>2, SwappedAllIs
  <2>5. t = s
    BY <2>2, <2>3, <2>4 DEF SwapTrace
  <2>6. RightPart(s, b, e, first, first)
    BY <1>1, <1>2, <2>1 DEF BlockShape, RightPart
  <2>7. Rearranged(n, s, s, b, e)
    BY RearrangedRefl
  <2> QED BY <2>3, <2>5, <2>6, <2>7
<1> QED BY <1>5, <1>6, <1>7

\* The first pair is swapped, and the blocks begin.
LEMMA BlockStart ==
  ASSUME NEW n \in Nat, NEW s \in Arrays(n), NEW b \in Nat, NEW e \in Nat, e <= n,
         NEW first, NEW last, RightPart(s, b, e, first, last), first < last,
         NEW t, t = Swapped(s, first, last)
  PROVE  /\ Rearranged(n, s, t, b, e)
         /\ BlockPart(t, b, e, first + 1, last, first + 1, last, <<>>, <<>>)
<1>0. /\ first \in b + 1 .. e - 1 /\ last \in b + 1 .. e - 1
      /\ first \in 0 .. n - 1 /\ last \in 0 .. n - 1 /\ b \in 0 .. n - 1 /\ first # b /\ last # b
      /\ first \in Int /\ last \in Int
  BY DEF RightPart
<1>1. PICK i \in b .. e - 1, j \in b .. e - 1 : i = first /\ j = last
  BY <1>0
<1>2. Rearranged(n, s, t, b, e)
  <2>1. Rearranged(n, s, Swapped(s, i, j), b, e)
    BY SwapRearranges
  <2> QED BY <1>1, <2>1, Zenon
<1>3. \A k \in 0 .. n - 1 : t[k] = IF k = first THEN s[last] ELSE IF k = last THEN s[first] ELSE s[k]
  <2>1. i \in 0 .. n - 1 /\ j \in 0 .. n - 1
    OBVIOUS
  <2>2. \A k \in 0 .. n - 1 : Swapped(s, i, j)[k] = IF k = i THEN s[j] ELSE IF k = j THEN s[i] ELSE s[k]
    BY <2>1, SwapValues
  <2> QED BY <1>1, <2>2, Zenon
<1>4. t[b] = s[b]
  BY <1>0, <1>3
<1>5. ASSUME NEW k \in b + 1 .. (first + 1) - 1 PROVE t[k] < t[b]
  <2>1. k \in 0 .. n - 1 /\ k # last
    BY <1>0
  <2>2. CASE k = first
    BY <1>3, <1>4, <2>1, <2>2 DEF RightPart
  <2>3. CASE k # first
    <3>1. k \in b + 1 .. first - 1
      BY <1>0, <2>3
    <3> QED BY <1>3, <1>4, <2>1, <2>3, <3>1 DEF RightPart
  <2> QED BY <2>2, <2>3
<1>6. ASSUME NEW k \in last .. e - 1 PROVE t[b] <= t[k]
  <2>1. k \in 0 .. n - 1 /\ k # first
    BY <1>0
  <2>2. CASE k = last
    BY <1>3, <1>4, <2>1, <2>2 DEF RightPart
  <2>3. CASE k # last
    <3>1. k \in last + 1 .. e - 1
      BY <1>0, <2>3
    <3> QED BY <1>3, <1>4, <2>1, <2>3, <3>1 DEF RightPart
  <2> QED BY <2>2, <2>3
<1>7. LeftOffsets(t, first + 1, first + 1, t[b]) = {} /\ RightOffsets(t, last, last, t[b]) = {}
  BY <1>0 DEF LeftOffsets, RightOffsets
<1>8. BlockShape(t, b, e, first + 1, last, first + 1, last, <<>>, <<>>)
  <2> DEFINE x == first + 1
  <2>1. x \in Int /\ b + 1 < x /\ x <= x /\ x <= last /\ last <= last /\ last < e /\ x \in Int /\ last \in Int
    BY <1>0
  <2>2. \A k \in b + 1 .. x - 1 : t[k] < t[b]
    BY <1>5
  <2>3. LeftOffsets(t, x, x, t[b]) = {} /\ RightOffsets(t, last, last, t[b]) = {}
    BY <1>7
  <2> HIDE DEF x
  <2>4. BlockShape(t, b, e, x, last, x, last, <<>>, <<>>)
    BY <1>6, <2>1, <2>2, <2>3, ListsNothing DEF BlockShape
  <2> QED BY <2>4 DEF x
<1> QED BY <1>2, <1>8 DEF BlockPart

LEMMA RestIsEmpty ==
  ASSUME NEW S, NEW q, Lists(q, S), NEW m \in 0 .. Len(q)
  PROVE  SubSeq(q, m + 1, Len(q)) = <<>> <=> m = Len(q)
<1>1. q \in Seq(Nat) /\ Len(q) \in Nat /\ m \in Nat /\ \A i \in 1 .. Len(q) : q[i] \in Nat
  BY LenProperties DEF Lists
<1>2. CASE m = Len(q)
  <2>1. m + 1 \in Int /\ Len(q) \in Int /\ Len(q) < m + 1
    BY <1>1, <1>2
  <2> QED BY <1>2, <2>1, SubSeqEmpty
<1>3. CASE m # Len(q)
  <2>1. m + 1 \in Int /\ Len(q) \in Int /\ m + 1 <= Len(q) /\ \A i \in m + 1 .. Len(q) : q[i] \in Nat
    BY <1>1, <1>3
  <2> DEFINE r == SubSeq(q, m + 1, Len(q))
  <2>2. Len(r) = Len(q) - (m + 1) + 1
    BY <2>1, SubSeqProperties
  <2> HIDE DEF r
  <2>3. Len(r) # 0
    BY <1>1, <2>1, <2>2
  <2>4. Len(<<>>) = 0
    OBVIOUS
  <2>5. r # <<>>
    BY <2>3, <2>4
  <2> QED BY <1>3, <2>5 DEF r
<1> QED BY <1>2, <1>3

\* An empty block is filled with the offsets among the next n_left or n_right.
BlocksFilled(s, b, first, last, before_l, before_r, n_left, n_right, l, r) ==
  /\ n_left \in Nat /\ n_right \in Nat /\ first + n_left <= last - n_right
  /\ before_l # <<>> => n_left = 0
  /\ before_r # <<>> => n_right = 0
  /\ l = IF before_l # <<>> THEN before_l
         ELSE Ascending({i \in 0 .. n_left - 1 : s[first + i] >= s[b]}, n_left)
  /\ r = IF before_r # <<>> THEN before_r
         ELSE Ascending({i \in 1 .. n_right : s[last - i] < s[b]}, n_right)

\* The first m pairs are exchanged.
BlocksExchanged(s, t, l_base, r_base, l, r, m, pl, pr) ==
  /\ m = Least(Len(l), Len(r))
  /\ pl = [i \in 1 .. m |-> l_base + l[i]]
  /\ pr = [i \in 1 .. m |-> r_base - r[i]]
  /\ t = IF Len(l) = Len(r) THEN SwappedAll(s, [i \in 1 .. m |-> <<pl[i], pr[i]>>])
         ELSE Exchanged(s, pl, pr)

LEMMA LeastIs ==
  ASSUME NEW i \in Nat, NEW j \in Nat
  PROVE  (Least(i, j) = i /\ i <= j) \/ (Least(i, j) = j /\ j <= i)
BY DEF Least

\* A turn of partition_right_branchless.
LEMMA BlockTurn ==
  ASSUME NEW n \in Nat, NEW s \in Arrays(n), NEW b \in Nat, NEW e \in Nat, e <= n,
         NEW first, NEW last, NEW l_base, NEW r_base, NEW before_l, NEW before_r,
         BlockPart(s, b, e, first, last, l_base, r_base, before_l, before_r),
         NEW n_left, NEW n_right, NEW l, NEW r, NEW m, NEW pl, NEW pr, NEW t,
         BlocksFilled(s, b, first, last, before_l, before_r, n_left, n_right, l, r),
         BlocksExchanged(s, t, l_base, r_base, l, r, m, pl, pr),
         NEW f, f = first + n_left, NEW g, g = last - n_right
  PROVE  /\ Rearranged(n, s, t, b, e)
         /\ BlockPart(t, b, e, f, g, IF m = Len(l) THEN f ELSE l_base, IF m = Len(r) THEN g ELSE r_base,
                      SubSeq(l, m + 1, Len(l)), SubSeq(r, m + 1, Len(r)))
<1> SUFFICES ASSUME n_left \in Nat, n_right \in Nat, first + n_left <= last - n_right,
                    before_l # <<>> => n_left = 0, before_r # <<>> => n_right = 0,
                    l = IF before_l # <<>> THEN before_l
                        ELSE Ascending({i \in 0 .. n_left - 1 : s[first + i] >= s[b]}, n_left),
                    r = IF before_r # <<>> THEN before_r
                        ELSE Ascending({i \in 1 .. n_right : s[last - i] < s[b]}, n_right),
                    m = Least(Len(l), Len(r)),
                    pl = [i \in 1 .. m |-> l_base + l[i]], pr = [i \in 1 .. m |-> r_base - r[i]],
                    t = IF Len(l) = Len(r) THEN SwappedAll(s, [i \in 1 .. m |-> <<pl[i], pr[i]>>])
                        ELSE Exchanged(s, pl, pr)
             PROVE  /\ Rearranged(n, s, t, b, e)
                    /\ BlockPart(t, b, e, f, g, IF m = Len(l) THEN f ELSE l_base, IF m = Len(r) THEN g ELSE r_base,
                                 SubSeq(l, m + 1, Len(l)), SubSeq(r, m + 1, Len(r)))
  BY Zenon DEF BlocksFilled, BlocksExchanged
<1>1. /\ BlockShape(s, b, e, first, last, l_base, r_base, before_l, before_r)
      /\ before_l = <<>> => l_base = first
      /\ before_r = <<>> => r_base = last
  BY DEF BlockPart
<1>2. first \in Int /\ last \in Int /\ f \in Int /\ g \in Int /\ first + n_left <= last /\ f <= last - n_right
  BY <1>1, SMTT(60) DEF BlockShape
<1>3. BlockShape(s, b, e, f, last, l_base, r_base, l, before_r)
  <2>1. CASE before_l # <<>>
    <3>1. l = before_l /\ f = first
      BY <1>2, <2>1
    <3> QED BY <1>1, <3>1
  <2>2. CASE before_l = <<>>
    <3>1. l = Ascending({i \in 0 .. n_left - 1 : s[first + i] >= s[b]}, n_left) /\ l_base = first
      BY <1>1, <2>2
    <3>2. BlockShape(s, b, e, first, last, first, r_base, <<>>, before_r)
      BY <1>1, <2>2, <3>1
    <3>3. BlockShape(s, b, e, first + n_left, last, first, r_base,
                     Ascending({i \in 0 .. n_left - 1 : s[first + i] >= s[b]}, n_left), before_r)
      BY <1>2, <3>2, FillLeft
    <3> QED BY <3>1, <3>3
  <2> QED BY <2>1, <2>2
<1>4. BlockShape(s, b, e, f, g, l_base, r_base, l, r)
  <2>1. CASE before_r # <<>>
    <3>1. r = before_r /\ g = last
      BY <1>2, <2>1
    <3> QED BY <1>3, <3>1
  <2>2. CASE before_r = <<>>
    <3>1. r = Ascending({i \in 1 .. n_right : s[last - i] < s[b]}, n_right) /\ r_base = last
      BY <1>1, <2>2
    <3>2. BlockShape(s, b, e, f, last, l_base, last, l, <<>>)
      BY <1>3, <2>2, <3>1
    <3>3. BlockShape(s, b, e, f, last - n_right, l_base, last, l,
                     Ascending({i \in 1 .. n_right : s[last - i] < s[b]}, n_right))
      BY <1>2, <3>2, FillRight
    <3> QED BY <3>1, <3>3
  <2> QED BY <2>1, <2>2
<1>5. Lists(l, LeftOffsets(s, l_base, f, s[b])) /\ Lists(r, RightOffsets(s, r_base, g, s[b]))
  BY <1>4 DEF BlockShape
<1>6. /\ Len(l) \in Nat /\ Len(r) \in Nat /\ m \in Nat /\ m <= Len(l) /\ m <= Len(r)
      /\ m \in 0 .. Len(l) /\ m \in 0 .. Len(r)
      /\ m = Len(l) \/ m = Len(r)
  <2>1. Len(l) \in Nat /\ Len(r) \in Nat
    BY <1>5 DEF Lists
  <2>2. (m = Len(l) /\ Len(l) <= Len(r)) \/ (m = Len(r) /\ Len(r) <= Len(l))
    <3> DEFINE i == Len(l)
               j == Len(r)
    <3> HIDE DEF i, j
    <3>1. i \in Nat /\ j \in Nat
      BY <2>1 DEF i, j
    <3>2. (Least(i, j) = i /\ i <= j) \/ (Least(i, j) = j /\ j <= i)
      BY <3>1, LeastIs
    <3>3. (m = i /\ i <= j) \/ (m = j /\ j <= i)
      BY <3>2, Zenon DEF i, j
    <3> QED BY <3>3, Zenon DEF i, j
  <2>3. m \in Nat /\ m <= Len(l) /\ m <= Len(r) /\ m \in 0 .. Len(l) /\ m \in 0 .. Len(r)
    BY <2>1, <2>2, SMTT(60)
  <2> QED BY <2>1, <2>2, <2>3, Zenon
<1> DEFINE rest_l == SubSeq(l, m + 1, Len(l))
           rest_r == SubSeq(r, m + 1, Len(r))
           l_now == IF m = Len(l) THEN f ELSE l_base
           r_now == IF m = Len(r) THEN g ELSE r_base
<1>7. /\ Sides(n, pl, pr, m, b, e)
      /\ \A u : ChangeSides(n, s, u, pl, pr, m, b, e) =>
           Rearranged(n, s, u, b, e) /\ BlockShape(u, b, e, f, g, l_base, r_base, rest_l, rest_r)
  <2>1. Sides(n, pl, pr, m, b, e) /\ KeepsShape(n, s, b, e, f, g, l_base, r_base, l, r, m, pl, pr)
    <3>1. OffsetPositions(pl, pr, l_base, r_base, l, r, m)
      BY Zenon DEF OffsetPositions
    <3>2. b \in Nat /\ e \in Nat /\ e <= n
      OBVIOUS
    <3>3. m \in Nat /\ m <= Len(l) /\ m <= Len(r)
      BY <1>6
    <3> QED BY <1>4, <3>1, <3>2, <3>3, BlocksExchange, ZenonT(60)
  <2> QED BY <2>1, Zenon DEF KeepsShape
<1>8. ChangeSides(n, s, t, pl, pr, m, b, e)
  <2>1. CASE Len(l) = Len(r)
    <3>1. t = SwappedAll(s, Paired(pl, pr, m))
      BY <2>1 DEF Paired
    <3>2. Sides(n, pl, pr, m, b, e)
      BY <1>7
    <3>3. ChangeSides(n, s, SwappedAll(s, Paired(pl, pr, m)), pl, pr, m, b, e)
      BY <3>2, SwapsChangeSides
    <3> QED BY <3>1, <3>3, Zenon
  <2>2. CASE Len(l) # Len(r)
    <3>1. t = Exchanged(s, pl, pr)
      BY <2>2
    <3>2. ChangeSides(n, s, Exchanged(s, pl, pr), pl, pr, m, b, e)
      BY <1>7, ExchangedChangesSides
    <3> QED BY <3>1, <3>2, Zenon
  <2> QED BY <2>1, <2>2
<1>9. Rearranged(n, s, t, b, e) /\ BlockShape(t, b, e, f, g, l_base, r_base, rest_l, rest_r)
  BY <1>7, <1>8
<1>10. (rest_l = <<>> <=> m = Len(l)) /\ (rest_r = <<>> <=> m = Len(r))
  BY <1>5, <1>6, RestIsEmpty
<1> HIDE DEF rest_l, rest_r
<1>11. t \in Arrays(n)
  BY <1>9 DEF Rearranged
<1>12. BlockShape(t, b, e, f, g, l_now, r_base, rest_l, rest_r)
  <2>1. CASE m = Len(l)
    <3>1. rest_l = <<>> /\ l_now = f
      BY <1>10, <2>1
    <3>2. BlockShape(t, b, e, f, g, l_base, r_base, <<>>, rest_r)
      BY <1>9, <3>1
    <3>3. BlockShape(t, b, e, f, g, f, r_base, <<>>, rest_r)
      BY <1>11, <3>2, AdvanceLeft
    <3> QED BY <3>1, <3>3
  <2>2. CASE m # Len(l)
    BY <1>9, <2>2
  <2> QED BY <2>1, <2>2
<1> HIDE DEF l_now
<1>13. BlockShape(t, b, e, f, g, l_now, r_now, rest_l, rest_r)
  <2>1. CASE m = Len(r)
    <3>1. rest_r = <<>> /\ r_now = g
      BY <1>10, <2>1
    <3>2. BlockShape(t, b, e, f, g, l_now, r_base, rest_l, <<>>)
      BY <1>12, <3>1
    <3>3. BlockShape(t, b, e, f, g, l_now, g, rest_l, <<>>)
      BY <1>11, <3>2, AdvanceRight
    <3> QED BY <3>1, <3>3
  <2>2. CASE m # Len(r)
    BY <1>12, <2>2
  <2> QED BY <2>1, <2>2
<1> HIDE DEF r_now
<1>14. BlockPart(t, b, e, f, g, l_now, r_now, rest_l, rest_r)
  <2>1. /\ rest_l = <<>> => l_now = f
        /\ rest_r = <<>> => r_now = g
        /\ rest_l = <<>> \/ rest_r = <<>>
    BY <1>6, <1>10 DEF l_now, r_now
  <2> QED BY <1>13, <2>1 DEF BlockPart
<1> QED BY <1>9, <1>14 DEF l_now, r_now, rest_l, rest_r

-----------------------------------------------------------------------------
(* The calls that are not finished.                                        *)

CallSet == [begin : Nat, end : Nat, bad_allowed : Int, leftmost : BOOLEAN]

GoodCall(n, s, call) ==
  /\ call \in CallSet /\ call.begin <= call.end /\ call.end <= n
  /\ ~call.leftmost => call.begin > 0
  /\ Border(n, s, call.begin) /\ Border(n, s, call.end)

\* The segments of the calls q are disjoint, the last one leftmost, and nothing is
\* ordered against what is in another one.
GoodCalls(n, s, q) ==
  /\ q \in Seq(CallSet)
  /\ \A c \in 1 .. Len(q) : GoodCall(n, s, q[c]) /\ \A d \in 1 .. c - 1 : q[c].end < q[d].begin

\* Where the array is not ordered a call is still to sort it.
Covered(n, s, q) ==
  \A x \in 1 .. n - 1 : Border(n, s, x) \/ \E c \in 1 .. Len(q) : q[c].begin < x /\ x < q[c].end

Top(q) == q[Len(q)]

LEMMA TopIs ==
  ASSUME NEW n, NEW s, NEW q, GoodCalls(n, s, q), q # <<>>
  PROVE  /\ Len(q) \in Nat /\ Len(q) \in 1 .. Len(q)
         /\ Top(q) \in CallSet /\ GoodCall(n, s, Top(q)) /\ Top(q).begin \in Nat /\ Top(q).end \in Nat
<1>1. q \in Seq(CallSet) /\ Len(q) \in Nat
  BY LenProperties DEF GoodCalls
<1>2. Len(q) # 0
  BY <1>1, EmptySeq
<1>3. Len(q) \in 1 .. Len(q)
  BY <1>1, <1>2
<1>4. GoodCall(n, s, Top(q))
  BY <1>3 DEF GoodCalls, Top
<1> QED BY <1>1, <1>3, <1>4 DEF GoodCall, CallSet

\* The segment of the current call is rearranged.
LEMMA CallsKept ==
  ASSUME NEW n \in Nat, NEW s, NEW t, NEW q, GoodCalls(n, s, q), q # <<>>,
         Rearranged(n, s, t, Top(q).begin, Top(q).end)
  PROVE  GoodCalls(n, t, q) /\ (Covered(n, s, q) => Covered(n, t, q))
<1> DEFINE b == Top(q).begin
           e == Top(q).end
<1>1. Len(q) \in Nat /\ Len(q) \in 1 .. Len(q) /\ b \in Nat /\ e \in Nat /\ GoodCall(n, s, Top(q)) /\ b <= e
  BY TopIs DEF GoodCall
<1>2. ASSUME NEW x \in Int, x <= b \/ e <= x, Border(n, s, x) PROVE Border(n, t, x)
  <2> HIDE DEF b, e
  <2>1. b \in Int /\ e \in Int
    BY <1>1
  <2>2. Rearranged(n, s, t, b, e)
    BY DEF b, e
  <2> QED BY <1>2, <2>1, <2>2, RearrangedBorder
<1>3. ASSUME NEW c \in 1 .. Len(q) PROVE GoodCall(n, t, q[c])
  <2>1. GoodCall(n, s, q[c])
    BY DEF GoodCalls
  <2>2. q[c].begin \in Nat /\ q[c].end \in Nat /\ q[c].begin <= q[c].end /\ Border(n, s, q[c].begin) /\ Border(n, s, q[c].end)
    BY <2>1 DEF GoodCall, CallSet
  <2>3. (q[c].begin <= b /\ e <= q[c].end) \/ e <= q[c].begin
    <3>1. CASE c = Len(q)
      BY <1>1, <2>2, <3>1 DEF Top
    <3>2. CASE c # Len(q)
      <4>1. c \in 1 .. Len(q) - 1
        BY <1>1, <3>2
      <4>2. q[Len(q)].end < q[c].begin
        BY <1>1, <4>1 DEF GoodCalls
      <4> QED BY <1>1, <2>2, <4>2 DEF Top
    <3> QED BY <3>1, <3>2
  <2> HIDE DEF b, e
  <2>4. Border(n, t, q[c].begin)
    BY <1>1, <1>2, <2>2, <2>3
  <2>5. e <= q[c].end
    BY <1>1, <2>2, <2>3
  <2>6. Border(n, t, q[c].end)
    BY <1>1, <1>2, <2>2, <2>5
  <2> QED BY <2>1, <2>4, <2>6 DEF GoodCall
<1>4. GoodCalls(n, t, q)
  BY <1>3 DEF GoodCalls
<1>5. ASSUME Covered(n, s, q), NEW x \in 1 .. n - 1
      PROVE  Border(n, t, x) \/ \E c \in 1 .. Len(q) : q[c].begin < x /\ x < q[c].end
  <2>1. CASE b < x /\ x < e
    BY <1>1, <2>1 DEF Top
  <2>2. CASE ~(b < x /\ x < e)
    <3>1. x <= b \/ e <= x
      BY <1>1, <2>2
    <3>2. Border(n, s, x) \/ \E c \in 1 .. Len(q) : q[c].begin < x /\ x < q[c].end
      BY <1>5 DEF Covered
    <3> HIDE DEF b, e
    <3> QED BY <1>2, <3>1, <3>2
  <2> QED BY <2>1, <2>2
<1> QED BY <1>4, <1>5 DEF Covered

WithoutTop(q) == SubSeq(q, 1, Len(q) - 1)

LEMMA BelowTop ==
  ASSUME NEW n, NEW s, NEW q, GoodCalls(n, s, q), q # <<>>
  PROVE  /\ WithoutTop(q) \in Seq(CallSet) /\ Len(WithoutTop(q)) = Len(q) - 1
         /\ \A c \in 1 .. Len(q) - 1 : WithoutTop(q)[c] = q[c]
<1>1. Len(q) \in Nat /\ Len(q) \in 1 .. Len(q) /\ q \in Seq(CallSet)
  BY TopIs DEF GoodCalls
<1> DEFINE m == Len(q)
<1>2. 1 \in Int /\ m - 1 \in Int /\ \A i \in 1 .. m - 1 : q[i] \in CallSet
  BY <1>1, LenProperties
<1>3. /\ SubSeq(q, 1, m - 1) \in Seq(CallSet)
      /\ Len(SubSeq(q, 1, m - 1)) = IF 1 <= m - 1 THEN (m - 1) - 1 + 1 ELSE 0
      /\ \A i \in 1 .. (m - 1) - 1 + 1 : SubSeq(q, 1, m - 1)[i] = q[1 + i - 1]
  <2> HIDE DEF m
  <2> QED BY <1>2, SubSeqProperties
<1>4. Len(SubSeq(q, 1, m - 1)) = m - 1
  <2>1. m \in Nat /\ m >= 1
    BY <1>1
  <2> HIDE DEF m
  <2>2. (IF 1 <= m - 1 THEN (m - 1) - 1 + 1 ELSE 0) = m - 1
    BY <2>1
  <2> QED BY <1>3, <2>2
<1>5. \A i \in 1 .. m - 1 : i \in 1 .. (m - 1) - 1 + 1 /\ 1 + i - 1 = i
  BY <1>1
<1>6. \A i \in 1 .. m - 1 : SubSeq(q, 1, m - 1)[i] = q[i]
  BY <1>3, <1>5
<1> QED BY <1>3, <1>4, <1>6 DEF WithoutTop

\* The current call returns: its segment is in order.
LEMMA CallReturns ==
  ASSUME NEW n \in Nat, NEW s, NEW q, GoodCalls(n, s, q), q # <<>>
  PROVE  /\ GoodCalls(n, s, WithoutTop(q))
         /\ Covered(n, s, q) /\ (\A x \in Top(q).begin .. Top(q).end : Border(n, s, x)) => Covered(n, s, WithoutTop(q))
<1>1. Len(q) \in Nat /\ Len(q) \in 1 .. Len(q) /\ Top(q).begin \in Nat /\ Top(q).end \in Nat
  BY TopIs
<1>2. /\ WithoutTop(q) \in Seq(CallSet) /\ Len(WithoutTop(q)) = Len(q) - 1
      /\ \A c \in 1 .. Len(q) - 1 : WithoutTop(q)[c] = q[c]
  BY BelowTop
<1>3. ASSUME NEW c \in 1 .. Len(q) - 1
      PROVE  GoodCall(n, s, WithoutTop(q)[c]) /\ \A d \in 1 .. c - 1 : WithoutTop(q)[c].end < WithoutTop(q)[d].begin
  <2>1. c \in 1 .. Len(q) /\ \A d \in 1 .. c - 1 : d \in 1 .. Len(q) - 1
    BY <1>1
  <2>2. GoodCall(n, s, q[c]) /\ \A d \in 1 .. c - 1 : q[c].end < q[d].begin
    BY <2>1 DEF GoodCalls
  <2> QED BY <1>2, <2>1, <2>2
<1>4. GoodCalls(n, s, WithoutTop(q))
  BY <1>2, <1>3 DEF GoodCalls
<1>5. ASSUME Covered(n, s, q), \A x \in Top(q).begin .. Top(q).end : Border(n, s, x), NEW x \in 1 .. n - 1
      PROVE  Border(n, s, x) \/ \E c \in 1 .. Len(WithoutTop(q)) : WithoutTop(q)[c].begin < x /\ x < WithoutTop(q)[c].end
  <2>1. CASE Border(n, s, x)
    BY <2>1
  <2>2. CASE \E c \in 1 .. Len(q) : q[c].begin < x /\ x < q[c].end
    <3>1. PICK c \in 1 .. Len(q) : q[c].begin < x /\ x < q[c].end
      BY <2>2
    <3>2. CASE c = Len(q)
      <4>1. x \in Top(q).begin .. Top(q).end
        BY <1>1, <3>1, <3>2 DEF Top
      <4> QED BY <1>5, <4>1
    <3>3. CASE c # Len(q)
      <4>1. c \in 1 .. Len(q) - 1
        BY <1>1, <3>3
      <4> QED BY <1>2, <3>1, <4>1
    <3> QED BY <3>2, <3>3
  <2> QED BY <1>5, <2>1, <2>2 DEF Covered
<1> QED BY <1>4, <1>5 DEF Covered

\* The current call sorts the part before `left', and calls itself for the part
\* from `right' on.
LEMMA CallSplits ==
  ASSUME NEW n \in Nat, NEW s, NEW q, GoodCalls(n, s, q), q # <<>>,
         NEW x, NEW y, GoodCall(n, s, x), GoodCall(n, s, y),
         x.begin = Top(q).begin, x.end < y.begin, y.end = Top(q).end
  PROVE  /\ GoodCalls(n, s, WithoutTop(q) \o <<y, x>>)
         /\ Covered(n, s, q) /\ y.begin = x.end + 1 => Covered(n, s, WithoutTop(q) \o <<y, x>>)
<1> DEFINE p == WithoutTop(q)
           r == p \o <<y, x>>
           m == Len(q)
<1>1. m \in Nat /\ m \in 1 .. m /\ Top(q).begin \in Nat /\ Top(q).end \in Nat
  BY TopIs
<1>2. p \in Seq(CallSet) /\ Len(p) = m - 1 /\ \A c \in 1 .. m - 1 : p[c] = q[c]
  BY BelowTop
<1>3. /\ x \in CallSet /\ x.begin \in Nat /\ x.end \in Nat /\ x.begin <= x.end
      /\ y \in CallSet /\ y.begin \in Nat /\ y.end \in Nat /\ y.begin <= y.end
  BY DEF GoodCall, CallSet
<1>4. /\ r \in Seq(CallSet) /\ Len(r) = m + 1
      /\ \A c \in 1 .. m - 1 : r[c] = q[c]
      /\ r[m] = y /\ r[m + 1] = x
  <2>1. <<y, x>> \in Seq(CallSet) /\ Len(<<y, x>>) = 2
    BY <1>3
  <2> DEFINE two == <<y, x>>
  <2>2. two[1] = y /\ two[2] = x
    OBVIOUS
  <2> HIDE DEF p, two, m
  <2>3. /\ p \o two \in Seq(CallSet) /\ Len(p \o two) = Len(p) + Len(two)
        /\ \A k \in 1 .. Len(p) + Len(two) : (p \o two)[k] = IF k <= Len(p) THEN p[k] ELSE two[k - Len(p)]
    BY <1>2, <2>1, ConcatProperties DEF two
  <2>4. Len(p) + Len(two) = m + 1
    BY <1>1, <1>2, <2>1 DEF two
  <2>5. \A c \in 1 .. m - 1 : (p \o two)[c] = q[c]
    BY <1>1, <1>2, <2>3, <2>4
  <2>6. (p \o two)[m] = two[1] /\ (p \o two)[m + 1] = two[2]
    <3>1. m \in 1 .. m + 1 /\ m + 1 \in 1 .. m + 1 /\ ~(m <= m - 1) /\ ~(m + 1 <= m - 1) /\ m - (m - 1) = 1 /\ m + 1 - (m - 1) = 2
      BY <1>1
    <3>2. (p \o two)[m] = two[m - Len(p)]
      BY <1>2, <2>3, <2>4, <3>1
    <3>3. (p \o two)[m + 1] = two[(m + 1) - Len(p)]
      <4>1. (p \o two)[m + 1] = IF m + 1 <= Len(p) THEN p[m + 1] ELSE two[(m + 1) - Len(p)]
        BY <2>3, <2>4, <3>1
      <4> QED BY <1>2, <3>1, <4>1
    <3>4. m - Len(p) = 1 /\ (m + 1) - Len(p) = 2
      BY <1>1, <1>2
    <3> QED BY <3>2, <3>3, <3>4
  <2>7. r = p \o two
    BY DEF two
  <2> HIDE DEF r
  <2> QED BY <2>2, <2>3, <2>4, <2>5, <2>6, <2>7
<1> HIDE DEF p, r, m
<1>5. \A d \in 1 .. m - 1 : Top(q).end < q[d].begin /\ q[d].begin \in Nat
  <2> SUFFICES ASSUME NEW d \in 1 .. m - 1 PROVE Top(q).end < q[d].begin /\ q[d].begin \in Nat
    OBVIOUS
  <2>1. q[m].end < q[d].begin
    BY <1>1 DEF GoodCalls, m
  <2>2. d \in 1 .. m
    BY <1>1
  <2>3. GoodCall(n, s, q[d])
    BY <2>2 DEF GoodCalls, m
  <2> QED BY <2>1, <2>3 DEF Top, m, GoodCall, CallSet
<1>6. ASSUME NEW c \in 1 .. m + 1
      PROVE  GoodCall(n, s, r[c]) /\ \A d \in 1 .. c - 1 : r[c].end < r[d].begin
  <2>1. CASE c \in 1 .. m - 1
    <3>1. c \in 1 .. m /\ \A d \in 1 .. c - 1 : d \in 1 .. m - 1
      BY <1>1, <2>1
    <3>2. GoodCall(n, s, q[c]) /\ \A d \in 1 .. c - 1 : q[c].end < q[d].begin
      BY <3>1 DEF GoodCalls, m
    <3> QED BY <1>4, <2>1, <3>1, <3>2
  <2>2. CASE c = m
    BY <1>4, <1>5, <2>2
  <2>3. CASE c = m + 1
    <3>1. ASSUME NEW d \in 1 .. m PROVE x.end < r[d].begin
      <4>1. CASE d = m
        BY <1>4, <4>1
      <4>2. CASE d # m
        <5>1. d \in 1 .. m - 1
          BY <1>1, <4>2
        <5> QED BY <1>1, <1>3, <1>4, <1>5, <5>1
      <4> QED BY <4>1, <4>2
    <3>2. c - 1 = m
      BY <1>1, <2>3
    <3> QED BY <1>4, <2>3, <3>1, <3>2
  <2> QED BY <1>1, <2>1, <2>2, <2>3
<1>7. GoodCalls(n, s, r)
  BY <1>4, <1>6 DEF GoodCalls
<1>8. ASSUME Covered(n, s, q), y.begin = x.end + 1, NEW k \in 1 .. n - 1
      PROVE  Border(n, s, k) \/ \E c \in 1 .. Len(r) : r[c].begin < k /\ k < r[c].end
  <2>1. CASE Border(n, s, k)
    BY <2>1
  <2>2. CASE \E c \in 1 .. m : q[c].begin < k /\ k < q[c].end
    <3>1. PICK c \in 1 .. m : q[c].begin < k /\ k < q[c].end
      BY <2>2
    <3>2. CASE c = m
      <4>1. x.begin < k /\ k < y.end
        BY <3>1, <3>2 DEF Top, m
      <4>2. k < x.end \/ k = x.end \/ k = y.begin \/ y.begin < k
        BY <1>3, <1>8
      <4>3. CASE k = x.end \/ k = y.begin
        BY <4>3 DEF GoodCall
      <4>4. m \in 1 .. Len(r) /\ m + 1 \in 1 .. Len(r)
        BY <1>1, <1>4
      <4> QED BY <1>4, <4>1, <4>2, <4>3, <4>4
    <3>3. CASE c # m
      <4>1. c \in 1 .. m - 1 /\ c \in 1 .. Len(r)
        BY <1>1, <1>4, <3>3
      <4> QED BY <1>4, <3>1, <4>1
    <3> QED BY <3>2, <3>3
  <2> QED BY <1>8, <2>1, <2>2 DEF Covered, m
<1>9. GoodCalls(n, s, r) /\ (Covered(n, s, q) /\ y.begin = x.end + 1 => Covered(n, s, r))
  BY <1>7, <1>8 DEF Covered
<1> QED BY <1>9 DEF r, p

Shrunk(q, k) == [q EXCEPT ![Len(q)].begin = k]

\* The current call goes on behind what is in its place.
LEMMA CallShrinks ==
  ASSUME NEW n \in Nat, NEW s, NEW q, GoodCalls(n, s, q), q # <<>>,
         NEW k \in Nat, Top(q).begin <= k, k <= Top(q).end, k > 0,
         \A x \in Top(q).begin .. k : Border(n, s, x),
         NEW r, r = Shrunk(q, k)
  PROVE  GoodCalls(n, s, r) /\ (Covered(n, s, q) => Covered(n, s, r))
<1> DEFINE m == Len(q)
<1>1. m \in Nat /\ m \in 1 .. m /\ Top(q) \in CallSet /\ Top(q).begin \in Nat /\ Top(q).end \in Nat /\ GoodCall(n, s, Top(q))
  BY TopIs
<1>2. q \in Seq(CallSet) /\ q \in [1 .. m -> CallSet]
  BY LenProperties DEF GoodCalls
<1> DEFINE call == [Top(q) EXCEPT !.begin = k]
<1>3. r = [q EXCEPT ![m] = call]
  BY DEF Shrunk, Top
<1>4. call \in CallSet /\ call.begin = k /\ call.end = Top(q).end /\ call.leftmost = Top(q).leftmost
  BY <1>1 DEF CallSet
<1> HIDE DEF call
<1>5. r \in [1 .. m -> CallSet] /\ \A c \in 1 .. m : r[c] = IF c = m THEN call ELSE q[c]
  BY <1>2, <1>3, <1>4
<1>6. r \in Seq(CallSet) /\ Len(r) = m
  <2> HIDE DEF m
  <2> QED BY <1>1, <1>5, FunctionIsSequence
<1>7. GoodCall(n, s, call)
  <2>1. Border(n, s, k)
    BY <1>1
  <2> QED BY <1>1, <1>4, <2>1 DEF GoodCall
<1>8. ASSUME NEW c \in 1 .. m PROVE GoodCall(n, s, r[c]) /\ \A d \in 1 .. c - 1 : r[c].end < r[d].begin
  <2>1. GoodCall(n, s, q[c]) /\ \A d \in 1 .. c - 1 : q[c].end < q[d].begin
    BY DEF GoodCalls
  <2>2. \A d \in 1 .. c - 1 : d \in 1 .. m /\ r[d] = q[d]
    BY <1>1, <1>5
  <2>3. r[c].end = q[c].end
    BY <1>4, <1>5 DEF Top
  <2>4. GoodCall(n, s, r[c])
    BY <1>5, <1>7, <2>1
  <2> QED BY <2>1, <2>2, <2>3, <2>4
<1>9. GoodCalls(n, s, r)
  BY <1>6, <1>8 DEF GoodCalls
<1>10. ASSUME Covered(n, s, q), NEW x \in 1 .. n - 1
       PROVE  Border(n, s, x) \/ \E c \in 1 .. Len(r) : r[c].begin < x /\ x < r[c].end
  <2>1. CASE Border(n, s, x)
    BY <2>1
  <2>2. CASE \E c \in 1 .. m : q[c].begin < x /\ x < q[c].end
    <3>1. PICK c \in 1 .. m : q[c].begin < x /\ x < q[c].end
      BY <2>2
    <3>2. CASE c = m
      <4>1. Top(q).begin < x /\ x < Top(q).end
        BY <3>1, <3>2 DEF Top
      <4>2. CASE x <= k
        <5>1. x \in Top(q).begin .. k
          BY <1>1, <4>1, <4>2
        <5> QED BY <5>1
      <4>3. CASE k < x
        BY <1>1, <1>4, <1>5, <1>6, <4>1, <4>3
      <4> QED BY <4>2, <4>3
    <3>3. CASE c # m
      BY <1>5, <1>6, <3>1, <3>3
    <3> QED BY <3>2, <3>3
  <2> QED BY <1>10, <2>1, <2>2 DEF Covered
<1> QED BY <1>9, <1>10 DEF Covered

-----------------------------------------------------------------------------
(* The invariant.                                                          *)

N == Cardinality(DOMAIN input)

\* What the partition p of the current call has done to the array s.
PartOf(s, call, p) ==
  \/ p = NoPartition
  \/ /\ p \in [kind : {"right"}, first : Int, last : Int, already : BOOLEAN]
     /\ RightPart(s, call.begin, call.end, p.first, p.last)
  \/ /\ p \in [kind : {"left"}, first : Int, last : Int, already : BOOLEAN]
     /\ LeftPart(s, call.begin, call.end, p.first, p.last) /\ ~call.leftmost
  \/ /\ p \in [kind : {"blocks"}, first : Int, last : Int, already : BOOLEAN, l_base : Int, r_base : Int,
               offsets_l : Seq(Nat), offsets_r : Seq(Nat)]
     /\ BlockPart(s, call.begin, call.end, p.first, p.last, p.l_base, p.r_base, p.offsets_l, p.offsets_r)

SortInv ==
  /\ N \in Nat /\ Branchless \in BOOLEAN /\ fallback \in BOOLEAN /\ outside = FALSE
  /\ Rearranged(N, input, arr, 0, N)
  /\ GoodCalls(N, arr, calls)
  /\ part = NoPartition \/ (calls # <<>> /\ PartOf(arr, Call, part))
  /\ ~fallback => Covered(N, arr, calls)

\* The invariant as it is at the end of a step.
LEMMA StepKeeps ==
  ASSUME SortInv, UNCHANGED <<input, Branchless>>, fallback' \in BOOLEAN, outside' = FALSE,
         NEW lo \in Nat, NEW hi \in Nat, hi <= N, Rearranged(N, arr, arr', lo, hi),
         GoodCalls(N, arr', calls'), part' = NoPartition \/ (calls' # <<>> /\ PartOf(arr', Call', part')),
         ~fallback' => Covered(N, arr', calls')
  PROVE  SortInv'
<1>1. N' = N
  BY DEF N
<1>2. N \in Nat /\ Rearranged(N, input, arr, 0, N)
  BY DEF SortInv
<1>3. Rearranged(N, arr, arr', 0, N)
  <2> HIDE DEF N
  <2>1. 0 \in Int /\ N \in Int /\ 0 <= lo
    BY <1>2
  <2> QED BY <1>2, <2>1, RearrangedWider
<1>4. Rearranged(N, input, arr', 0, N)
  <2>1. 0 \in Int /\ N \in Int
    BY <1>2
  <2> QED BY <1>2, <1>3, <2>1, RearrangedTrans
<1>5. Rearranged(N', input', arr', 0, N')
  BY <1>1, <1>4
<1>6. N' \in Nat /\ Branchless' \in BOOLEAN
  BY <1>1, <1>2 DEF SortInv
<1>7. GoodCalls(N', arr', calls') /\ (~fallback' => Covered(N', arr', calls'))
  BY <1>1
<1> QED BY <1>5, <1>6, <1>7 DEF SortInv

\* The current call.
LEMMA CallIs ==
  ASSUME SortInv, calls # <<>>
  PROVE  /\ N \in Nat /\ arr \in Arrays(N) /\ DOMAIN arr = 0 .. N - 1 /\ Size = N
         /\ Call = Top(calls) /\ Popped = WithoutTop(calls)
         /\ Call \in CallSet /\ GoodCall(N, arr, Call)
         /\ Call.begin \in Nat /\ Call.end \in Nat /\ Call.begin <= Call.end /\ Call.end <= N
         /\ Border(N, arr, Call.begin) /\ Border(N, arr, Call.end) /\ (~Call.leftmost => Call.begin > 0)
         /\ Segment = Call.begin .. Call.end - 1 /\ Cardinality(Segment) = Call.end - Call.begin
         /\ Call.bad_allowed \in Int /\ Call.leftmost \in BOOLEAN
<1>1. N \in Nat /\ arr \in Arrays(N)
  BY DEF SortInv, Rearranged
<1>2. DOMAIN arr = 0 .. N - 1
  BY <1>1 DEF Arrays
<1>3. Cardinality(0 .. N - 1) = N
  <2>1. 0 \in Int /\ N - 1 \in Int
    BY <1>1
  <2>2. Cardinality(0 .. N - 1) = IF 0 > N - 1 THEN 0 ELSE N - 1 - 0 + 1
    BY <2>1, FS_Interval
  <2> QED BY <1>1, <2>2
<1>4. Size = N
  BY <1>2, <1>3 DEF Size
<1>5. Call = Top(calls) /\ Popped = WithoutTop(calls)
  BY DEF Call, Top, Popped, WithoutTop
<1>6. GoodCalls(N, arr, calls)
  BY DEF SortInv
<1>7. Call \in CallSet /\ GoodCall(N, arr, Call)
  BY <1>5, <1>6, TopIs
<1>8. /\ Call.begin \in Nat /\ Call.end \in Nat /\ Call.begin <= Call.end /\ Call.end <= N
      /\ Border(N, arr, Call.begin) /\ Border(N, arr, Call.end) /\ (~Call.leftmost => Call.begin > 0)
      /\ Call.bad_allowed \in Int /\ Call.leftmost \in BOOLEAN
  BY <1>7 DEF GoodCall, CallSet
<1>9. Cardinality(Segment) = Call.end - Call.begin
  <2> DEFINE b == Call.begin
             e == Call.end - 1
  <2>1. b \in Int /\ e \in Int /\ b <= e + 1
    BY <1>8
  <2>2. Segment = b .. e
    BY DEF Segment
  <2>3. e - b + 1 = Call.end - Call.begin
    BY <1>8
  <2> HIDE DEF b, e
  <2>4. Cardinality(b .. e) = IF b > e THEN 0 ELSE e - b + 1
    BY <2>1, FS_Interval
  <2>5. Cardinality(b .. e) = e - b + 1
    BY <2>1, <2>4
  <2> QED BY <2>2, <2>3, <2>5
<1> QED BY <1>1, <1>2, <1>4, <1>5, <1>7, <1>8, <1>9 DEF Segment

\* The current call rearranges its segment and goes on.
LEMMA CallGoesOn ==
  ASSUME SortInv, calls # <<>>, UNCHANGED <<input, Branchless, calls, fallback>>, outside' = FALSE,
         Rearranged(N, arr, arr', Call.begin, Call.end), PartOf(arr', Call, part')
  PROVE  SortInv'
<1>1. GoodCalls(N, arr, calls) /\ fallback \in BOOLEAN /\ (~fallback => Covered(N, arr, calls))
  BY DEF SortInv
<1>2. N \in Nat /\ Call = Top(calls) /\ Call.begin \in Nat /\ Call.end \in Nat /\ Call.end <= N
  BY CallIs
<1>3. GoodCalls(N, arr', calls) /\ (Covered(N, arr, calls) => Covered(N, arr', calls))
  BY <1>1, <1>2, CallsKept
<1>4. Call' = Call
  BY DEF Call
<1>5. GoodCalls(N, arr', calls') /\ (~fallback' => Covered(N, arr', calls'))
  BY <1>1, <1>3
<1> QED BY <1>1, <1>2, <1>4, <1>5, StepKeeps

\* The current call returns: its segment is in order, or the array need not be.
LEMMA CallEnds ==
  ASSUME SortInv, calls # <<>>, UNCHANGED <<input, Branchless>>, outside' = FALSE, fallback' \in BOOLEAN,
         fallback => fallback',
         Rearranged(N, arr, arr', Call.begin, Call.end), calls' = Popped, part' = NoPartition,
         fallback' \/ \A x \in Call.begin .. Call.end : Border(N, arr', x)
  PROVE  SortInv'
<1>1. GoodCalls(N, arr, calls) /\ (~fallback => Covered(N, arr, calls))
  BY DEF SortInv
<1>2. N \in Nat /\ Call = Top(calls) /\ Call.begin \in Nat /\ Call.end \in Nat /\ Call.end <= N /\ Popped = WithoutTop(calls)
  BY CallIs
<1>3. GoodCalls(N, arr', calls) /\ (Covered(N, arr, calls) => Covered(N, arr', calls))
  BY <1>1, <1>2, CallsKept
<1>4. GoodCalls(N, arr', calls')
  BY <1>2, <1>3, CallReturns
<1>5. ~fallback' => Covered(N, arr', calls')
  BY <1>1, <1>2, <1>3, CallReturns
<1>6. part' = NoPartition \/ (calls' # <<>> /\ PartOf(arr', Call', part'))
  BY Zenon
<1>7. PICK lo \in Nat, hi \in Nat : hi <= N /\ Rearranged(N, arr, arr', lo, hi)
  BY <1>2
<1> QED BY <1>4, <1>5, <1>6, <1>7, StepKeeps

\* A segment that is sorted between two borders has borders everywhere.
LEMMA SortedIsInOrder ==
  ASSUME NEW n \in Nat, NEW s \in Arrays(n), NEW b \in Nat, NEW e \in Nat, b <= e, e <= n,
         Border(n, s, b), Border(n, s, e), SortedRun(s, b, e)
  PROVE  \A x \in b .. e : Border(n, s, x)
<1> SUFFICES ASSUME NEW x \in b .. e, NEW i \in 0 .. x - 1, NEW j \in x .. n - 1 PROVE s[i] <= s[j]
  BY DEF Border
<1>1. CASE i < b
  <2>1. i \in 0 .. b - 1 /\ j \in b .. n - 1
    BY <1>1
  <2> QED BY <2>1 DEF Border
<1>2. CASE e <= j
  <2>1. i \in 0 .. e - 1 /\ j \in e .. n - 1
    BY <1>2
  <2> QED BY <2>1 DEF Border
<1>3. CASE b <= i /\ j < e
  <2>1. i \in b .. e - 1 /\ j \in b .. e - 1 /\ i <= j
    BY <1>3
  <2> QED BY <2>1 DEF SortedRun
<1> QED BY <1>1, <1>2, <1>3

LEMMA InitHolds == Init => SortInv
<1> SUFFICES ASSUME Init PROVE SortInv
  OBVIOUS
<1>1. N \in Nat /\ input \in Arrays(N)
  BY InputsAssumption DEF Init, InputsAssumption, N, Arrays
<1>2. arr = input /\ Size = N /\ Branchless \in BOOLEAN
  BY InputsAssumption DEF Init, InputsAssumption, Size, N
<1>3. Rearranged(N, input, arr, 0, N)
  <2>1. 0 \in Int /\ N \in Int
    BY <1>1
  <2> QED BY <1>1, <1>2, <2>1, RearrangedRefl
<1>4. GoodCalls(N, arr, calls) /\ Covered(N, arr, calls)
  <2>1. CASE Size <= 1
    <3>1. calls = <<>>
      BY <2>1 DEF Init
    <3>2. \A x \in 1 .. N - 1 : FALSE
      BY <1>1, <1>2, <2>1
    <3>3. <<>> \in Seq(CallSet) /\ \A c \in 1 .. Len(<<>>) : FALSE
      BY EmptySeq
    <3> HIDE DEF N
    <3> QED BY <3>1, <3>2, <3>3 DEF GoodCalls, Covered
  <2>2. CASE ~(Size <= 1)
    <3> DEFINE call == [begin |-> 0, end |-> Size, bad_allowed |-> log2(Size), leftmost |-> TRUE]
    <3>1. calls = <<call>>
      BY <2>2 DEF Init
    <3>2. log2(Size) \in Int
      <4> DEFINE K == {k \in 1 .. Size \div 2 : 2 ^ k <= Size}
      <4>1. Size \in Nat /\ Size \div 2 \in Int /\ 1 \in Int
        BY <1>1, <1>2
      <4>2. IsFiniteSet(1 .. Size \div 2)
        BY <4>1, FS_Interval
      <4>3. K \subseteq 1 .. Size \div 2
        OBVIOUS
      <4> HIDE DEF K
      <4>4. IsFiniteSet(K)
        BY <4>2, <4>3, FS_Subset
      <4>5. Cardinality(K) \in Nat
        BY <4>4, FS_CardinalityType
      <4> QED BY <4>5 DEF K, log2
    <3>3. call \in CallSet /\ call.begin = 0 /\ call.end = N /\ call.leftmost
      BY <1>1, <1>2, <3>2 DEF CallSet
    <3> HIDE DEF call
    <3>4. Border(N, arr, 0) /\ Border(N, arr, N)
      BY <1>1 DEF Border
    <3>5. GoodCall(N, arr, call)
      BY <1>1, <3>3, <3>4 DEF GoodCall
    <3>6. <<call>> \in Seq(CallSet) /\ Len(<<call>>) = 1 /\ <<call>>[1] = call
      BY <3>3
    <3>7. GoodCalls(N, arr, calls)
      <4>1. ASSUME NEW c \in 1 .. Len(calls) PROVE GoodCall(N, arr, calls[c]) /\ \A d \in 1 .. c - 1 : calls[c].end < calls[d].begin
        <5>1. c = 1
          BY <3>1, <3>6
        <5> QED BY <3>1, <3>5, <3>6, <5>1
      <4> QED BY <3>1, <3>6, <4>1 DEF GoodCalls
    <3>8. Covered(N, arr, calls)
      <4>1. 1 \in 1 .. Len(calls) /\ calls[1].begin = 0 /\ calls[1].end = N
        BY <3>1, <3>3, <3>6
      <4>2. \A x \in 1 .. N - 1 : 0 < x /\ x < N
        BY <1>1
      <4> HIDE DEF N
      <4> QED BY <4>1, <4>2 DEF Covered
    <3> QED BY <3>7, <3>8
  <2> QED BY <2>1, <2>2
<1> QED BY <1>1, <1>2, <1>3, <1>4 DEF SortInv, Init

\* The kind of the partition says what it has done.
LEMMA KindIs ==
  ASSUME SortInv
  PROVE  /\ part.kind = "none" => part = NoPartition
         /\ part.kind = "right" => /\ part \in [kind : {"right"}, first : Int, last : Int, already : BOOLEAN]
                                  /\ RightPart(arr, Call.begin, Call.end, part.first, part.last)
         /\ part.kind = "left" => /\ part \in [kind : {"left"}, first : Int, last : Int, already : BOOLEAN]
                                 /\ LeftPart(arr, Call.begin, Call.end, part.first, part.last) /\ ~Call.leftmost
         /\ part.kind = "blocks" =>
              /\ part \in [kind : {"blocks"}, first : Int, last : Int, already : BOOLEAN, l_base : Int, r_base : Int,
                          offsets_l : Seq(Nat), offsets_r : Seq(Nat)]
              /\ BlockPart(arr, Call.begin, Call.end, part.first, part.last, part.l_base, part.r_base,
                           part.offsets_l, part.offsets_r)
<1>1. CASE part = NoPartition
  <2>1. part.kind = "none"
    BY <1>1 DEF NoPartition
  <2> QED BY <1>1, <2>1
<1>2. CASE part # NoPartition
  <2>1. PartOf(arr, Call, part)
    BY <1>2 DEF SortInv
  <2>2. CASE /\ part \in [kind : {"right"}, first : Int, last : Int, already : BOOLEAN]
             /\ RightPart(arr, Call.begin, Call.end, part.first, part.last)
    <3>1. part.kind = "right"
      BY <2>2
    <3> QED BY <2>2, <3>1
  <2>3. CASE /\ part \in [kind : {"left"}, first : Int, last : Int, already : BOOLEAN]
             /\ LeftPart(arr, Call.begin, Call.end, part.first, part.last) /\ ~Call.leftmost
    <3>1. part.kind = "left"
      BY <2>3
    <3> QED BY <2>3, <3>1
  <2>4. CASE /\ part \in [kind : {"blocks"}, first : Int, last : Int, already : BOOLEAN, l_base : Int, r_base : Int,
                         offsets_l : Seq(Nat), offsets_r : Seq(Nat)]
             /\ BlockPart(arr, Call.begin, Call.end, part.first, part.last, part.l_base, part.r_base,
                          part.offsets_l, part.offsets_r)
    <3>1. part.kind = "blocks"
      BY <2>4
    <3> QED BY <2>4, <3>1
  <2> QED BY <1>2, <2>1, <2>2, <2>3, <2>4 DEF PartOf
<1> QED BY <1>1, <1>2

\* The insertion sort of a small segment.
LEMMA SmallStep ==
  ASSUME SortInv, SortSmall
  PROVE  SortInv'
<1> DEFINE b == Call.begin
           e == Call.end
           from == IF Call.leftmost THEN b ELSE 0
           s == InsertionSorted(arr, from, b, e)
<1>1. calls # <<>> /\ part = NoPartition
  BY KindIs DEF SortSmall, Running
<1>2. /\ N \in Nat /\ arr \in Arrays(N) /\ b \in Nat /\ e \in Nat /\ b <= e /\ e <= N
      /\ Border(N, arr, b) /\ Border(N, arr, e) /\ (~Call.leftmost => b > 0) /\ Call.leftmost \in BOOLEAN
  BY <1>1, CallIs
<1>3. /\ arr' = s /\ outside' = (outside \/ \E k \in 0 .. b - 1 : s[k] # arr[k])
      /\ calls' = Popped /\ UNCHANGED <<input, Branchless, part, fallback>>
  BY DEF SortSmall
<1>4. from \in Nat /\ Guarded(N, arr, from, b)
  BY <1>2 DEF Guarded
<1> HIDE DEF from, b, e
<1>5. Rearranged(N, arr, s, b, e) /\ SortedRun(s, b, e)
  BY <1>2, <1>4, InsertionSortedIs
<1> HIDE DEF s
<1>6. s \in Arrays(N) /\ SameOutside(N, arr, s, b, e)
  <2>1. b \in Int /\ e \in Int
    BY <1>2
  <2> QED BY <1>2, <1>5, <2>1, RearrangedOutside
<1>7. outside' = FALSE
  <2>1. \A k \in 0 .. b - 1 : s[k] = arr[k]
    BY <1>2, <1>6 DEF SameOutside
  <2> QED BY <1>3, <2>1 DEF SortInv
<1>8. Border(N, s, b) /\ Border(N, s, e)
  <2>1. b \in Int /\ e \in Int /\ b <= b /\ e <= e
    BY <1>2
  <2> QED BY <1>2, <1>5, <2>1, RearrangedBorder
<1>9. \A x \in b .. e : Border(N, s, x)
  BY <1>2, <1>5, <1>6, <1>8, SortedIsInOrder
<1>10. fallback' = fallback /\ fallback \in BOOLEAN /\ part' = NoPartition /\ UNCHANGED <<input, Branchless>>
  BY <1>1, <1>3 DEF SortInv
<1>11. Rearranged(N, arr, arr', Call.begin, Call.end) /\ \A x \in Call.begin .. Call.end : Border(N, arr', x)
  BY <1>3, <1>5, <1>9 DEF b, e
<1>12. calls' = Popped
  BY <1>3
<1>13. fallback' \in BOOLEAN /\ (fallback => fallback')
  BY <1>10
<1> QED BY <1>1, <1>7, <1>10, <1>11, <1>12, <1>13, CallEnds

\* The first searches of a partition.
LEMMA StartStep ==
  ASSUME SortInv, StartPartition
  PROVE  SortInv' /\ (part'.kind = "blocks" \/ part'.kind = "left" \/ part'.kind = "right")
<1> DEFINE b == Call.begin
           e == Call.end
           s == WithPivot(arr, b, e)
           pivot == s[b]
           equal_left == ~Call.leftmost /\ s[b - 1] >= pivot
           up == Above(NotLessThan(s, pivot), b)
           down == Below(LessThan(s, pivot), e)
           down_left == Below(NotGreaterThan(s, pivot), e)
           up_left == Above(GreaterThan(s, pivot), b)
           first == IF ~equal_left THEN up
                    ELSE IF down_left + 1 = e /\ up_left > down_left THEN down_left ELSE up_left
           last == IF equal_left THEN down_left
                   ELSE IF up - 1 = b /\ down < up THEN up ELSE down
           done == first >= last
           begun == [kind |-> IF equal_left THEN "left" ELSE "right", first |-> first, last |-> last, already |-> done]
           blocks == [kind |-> "blocks", first |-> first + 1, last |-> last, already |-> FALSE,
                      l_base |-> first + 1, r_base |-> last, offsets_l |-> <<>>, offsets_r |-> <<>>]
<1>1. calls # <<>> /\ Cardinality(Segment) >= insertion_sort_threshold
  BY DEF StartPartition, Running
<1>2. /\ N \in Nat /\ arr \in Arrays(N) /\ b \in Nat /\ e \in Nat /\ b <= e /\ e <= N /\ Size = N
      /\ Border(N, arr, b) /\ Border(N, arr, e) /\ (~Call.leftmost => b > 0) /\ Call.leftmost \in BOOLEAN
      /\ Segment = b .. e - 1 /\ Cardinality(Segment) = e - b
  BY <1>1, CallIs
<1>3. /\ outside' = (outside \/ ~({first, last} \subseteq Segment))
      /\ IF ~equal_left /\ Branchless /\ ~done THEN arr' = Swapped(s, first, last) /\ part' = blocks
         ELSE arr' = s /\ part' = begun
      /\ UNCHANGED <<input, Branchless, calls, fallback>>
  BY DEF StartPartition, NotLessThan, LessThan, NotGreaterThan, GreaterThan
<1>4. e - b >= 4 /\ b + 4 <= e
  BY <1>1, <1>2, ThresholdAssumption DEF ThresholdAssumption
<1> HIDE DEF b, e
<1>5. /\ Rearranged(N, arr, s, b, e) /\ s \in Arrays(N)
      /\ \E k \in b + 1 .. e - 1 : s[b] <= s[k]
  BY <1>2, <1>4, ThresholdAssumption, WithPivotIs
<1> HIDE DEF s
<1>6. Border(N, s, b) /\ Border(N, s, e) /\ b \in 0 .. N - 1
  <2>1. b \in Int /\ e \in Int /\ b <= b /\ e <= e /\ b \in 0 .. N - 1
    BY <1>2, <1>4
  <2> QED BY <1>2, <1>5, <2>1, RearrangedBorder
<1>7. DOMAIN s = 0 .. N - 1 /\ \A k \in 0 .. N - 1 : s[k] \in Int
  BY <1>5 DEF Arrays
<1>12. /\ blocks.kind = "blocks" /\ (begun.kind = "left" \/ begun.kind = "right")
       /\ part' = blocks \/ part' = begun
  BY <1>3
<1> HIDE DEF pivot, begun, blocks
<1>8. /\ NotLessThan(s, pivot) \in SUBSET (0 .. N - 1) /\ LessThan(s, pivot) \in SUBSET (0 .. N - 1)
      /\ NotGreaterThan(s, pivot) \in SUBSET (0 .. N - 1) /\ GreaterThan(s, pivot) \in SUBSET (0 .. N - 1)
  BY <1>7 DEF NotLessThan, LessThan, NotGreaterThan, GreaterThan
<1>9. /\ IsAbove(N, NotLessThan(s, pivot), b, up) /\ IsBelow(LessThan(s, pivot), e, down)
      /\ IsAbove(N, GreaterThan(s, pivot), b, up_left) /\ IsBelow(NotGreaterThan(s, pivot), e, down_left)
  BY <1>2, <1>6, <1>8, AboveIs, BelowIs
<1> HIDE DEF up, down, up_left, down_left
<1>10. ASSUME ~equal_left PROVE SortInv'
  <2>1. first = up /\ last = IF up - 1 = b /\ down < up THEN up ELSE down
    BY <1>10
  <2>2. RightPart(s, b, e, up, IF up - 1 = b /\ down < up THEN up ELSE down)
    BY <1>2, <1>4, <1>5, <1>9, RightStart DEF pivot
  <2>3. RightPart(s, b, e, first, last)
    BY <2>1, <2>2
  <2> HIDE DEF first, last, equal_left
  <2>4. first \in b + 1 .. e - 1 /\ last \in b + 1 .. e - 1 /\ first \in Int /\ last \in Int /\ done \in BOOLEAN
    BY <1>2, <2>3 DEF RightPart
  <2>5. {first, last} \subseteq Segment
    BY <1>2, <2>4
  <2>6. outside' = FALSE
    BY <1>3, <2>5 DEF SortInv
  <2>7. CASE Branchless /\ ~done
    <3>1. arr' = Swapped(s, first, last) /\ part' = blocks
      BY <1>3, <1>10, <2>7
    <3>2. first < last
      BY <2>4, <2>7
    <3>3. /\ Rearranged(N, s, arr', b, e)
          /\ BlockPart(arr', b, e, first + 1, last, first + 1, last, <<>>, <<>>)
      BY <1>2, <1>5, <2>3, <3>1, <3>2, BlockStart
    <3>4. Rearranged(N, arr, arr', b, e)
      BY <1>2, <1>5, <3>3, RearrangedTrans
    <3>5. blocks \in [kind : {"blocks"}, first : Int, last : Int, already : BOOLEAN, l_base : Int, r_base : Int,
                      offsets_l : Seq(Nat), offsets_r : Seq(Nat)]
      <4>1. <<>> \in Seq(Nat) /\ first + 1 \in Int
        BY <2>4
      <4> QED BY <2>4, <4>1 DEF blocks
    <3>6. /\ blocks.first = first + 1 /\ blocks.last = last /\ blocks.l_base = first + 1 /\ blocks.r_base = last
          /\ blocks.offsets_l = <<>> /\ blocks.offsets_r = <<>>
      BY DEF blocks
    <3>7. PartOf(arr', Call, part')
      BY <3>1, <3>3, <3>5, <3>6 DEF PartOf, b, e
    <3>8. UNCHANGED <<input, Branchless, calls, fallback>>
      BY <1>3
    <3>9. Rearranged(N, arr, arr', Call.begin, Call.end)
      BY <3>4 DEF b, e
    <3> QED BY <1>1, <2>6, <3>7, <3>8, <3>9, CallGoesOn
  <2>8. CASE ~(Branchless /\ ~done)
    <3>1. arr' = s /\ part' = begun
      BY <1>3, <2>8
    <3>2. /\ begun \in [kind : {"right"}, first : Int, last : Int, already : BOOLEAN]
          /\ begun.first = first /\ begun.last = last
      BY <1>10, <2>4 DEF begun
    <3>3. PartOf(arr', Call, part')
      BY <2>3, <3>1, <3>2 DEF PartOf, b, e
    <3>4. UNCHANGED <<input, Branchless, calls, fallback>>
      BY <1>3
    <3>5. Rearranged(N, arr, arr', Call.begin, Call.end)
      BY <1>5, <3>1 DEF b, e
    <3> QED BY <1>1, <2>6, <3>3, <3>4, <3>5, CallGoesOn
  <2> QED BY <2>7, <2>8
<1>11. ASSUME equal_left PROVE SortInv'
  <2>1. /\ first = IF down_left + 1 = e /\ up_left > down_left THEN down_left ELSE up_left
        /\ last = down_left
    BY <1>11
  <2>2. \A k \in b .. e - 1 : s[b] <= s[k]
    <3> SUFFICES ASSUME NEW k \in b .. e - 1 PROVE s[b] <= s[k]
      OBVIOUS
    <3>1. b - 1 \in 0 .. b - 1 /\ k \in b .. N - 1 /\ b - 1 \in 0 .. N - 1 /\ k \in 0 .. N - 1
      BY <1>2, <1>6, <1>11
    <3>2. s[b - 1] <= s[k]
      BY <1>6, <3>1 DEF Border
    <3>3. s[b - 1] >= s[b] /\ s[b - 1] \in Int /\ s[b] \in Int /\ s[k] \in Int
      BY <1>6, <1>7, <1>11, <3>1 DEF pivot
    <3> QED BY <3>2, <3>3
  <2>3. LeftPart(s, b, e, IF down_left + 1 = e /\ up_left > down_left THEN down_left ELSE up_left, down_left)
    BY <1>2, <1>4, <1>5, <1>9, <2>2, LeftStart DEF pivot
  <2>4. LeftPart(s, b, e, first, last)
    BY <2>1, <2>3
  <2>9. ~Call.leftmost
    BY <1>11
  <2> HIDE DEF first, last, equal_left
  <2>5. first \in b + 1 .. e - 1 /\ last \in b .. e - 1 /\ first \in Int /\ last \in Int /\ done \in BOOLEAN
    BY <1>2, <2>4 DEF LeftPart
  <2>6. {first, last} \subseteq Segment
    BY <1>2, <2>5
  <2>7. outside' = FALSE
    BY <1>3, <2>6 DEF SortInv
  <2>8. arr' = s /\ part' = begun
    BY <1>3, <1>11
  <2>10. /\ begun \in [kind : {"left"}, first : Int, last : Int, already : BOOLEAN]
         /\ begun.first = first /\ begun.last = last
    BY <1>11, <2>5 DEF begun
  <2>11. PartOf(arr', Call, part')
    BY <2>4, <2>8, <2>9, <2>10 DEF PartOf, b, e
  <2>12. UNCHANGED <<input, Branchless, calls, fallback>>
    BY <1>3
  <2>13. Rearranged(N, arr, arr', Call.begin, Call.end)
    BY <1>5, <2>8 DEF b, e
  <2> QED BY <1>1, <2>7, <2>11, <2>12, <2>13, CallGoesOn
<1>13. SortInv'
  BY <1>10, <1>11
<1> QED BY <1>12, <1>13

\* A turn of a loop brings the ends of its partition closer.
Closer ==
  /\ part'.kind = part.kind /\ part.first < part.last
  /\ part'.last - part'.first < part.last - part.first

\* A turn of partition_right.
LEMMA RightTurnStep ==
  ASSUME SortInv, ExchangeRight
  PROVE  SortInv' /\ Closer
<1> DEFINE b == Call.begin
           e == Call.end
           s == Swapped(arr, part.first, part.last)
           first == Above(NotLessThan(s, arr[b]), part.first)
           last == Below(LessThan(s, arr[b]), part.last)
           moved == [part EXCEPT !.first = first, !.last = last]
<1>1. calls # <<>> /\ part.kind = "right" /\ part.first < part.last
  BY DEF ExchangeRight, Partitioning
<1>2. /\ N \in Nat /\ arr \in Arrays(N) /\ b \in Nat /\ e \in Nat /\ b <= e /\ e <= N /\ Size = N
      /\ Segment = b .. e - 1
  BY <1>1, CallIs
<1>3. /\ outside' = (outside \/ ~({first, last} \subseteq Segment))
      /\ arr' = s /\ part' = moved
      /\ UNCHANGED <<input, Branchless, calls, fallback>>
  BY DEF ExchangeRight, NotLessThan, LessThan, Pivot
<1>4. /\ part \in [kind : {"right"}, first : Int, last : Int, already : BOOLEAN]
      /\ RightPart(arr, b, e, part.first, part.last)
  BY <1>1, KindIs
<1>5. UNCHANGED <<input, Branchless, calls, fallback>>
  BY <1>3
<1> HIDE DEF b, e
<1>6. /\ part.first \in 0 .. N - 1 /\ part.last \in 0 .. N - 1 /\ part.last \in Nat
  BY <1>2, <1>4 DEF RightPart
<1>7. s \in Arrays(N)
  BY <1>2, <1>6, SwapValues
<1>8. DOMAIN s = 0 .. N - 1
  BY <1>7 DEF Arrays
<1> HIDE DEF s
<1>9. /\ NotLessThan(s, arr[b]) \in SUBSET (0 .. N - 1)
      /\ LessThan(s, arr[b]) \in SUBSET (0 .. N - 1)
  BY <1>8 DEF NotLessThan, LessThan
<1>10. IsAbove(N, NotLessThan(s, arr[b]), part.first, first)
  BY <1>2, <1>6, <1>9, AboveIs
<1>11. IsBelow(LessThan(s, arr[b]), part.last, last)
  BY <1>2, <1>6, <1>9, BelowIs
<1> HIDE DEF first, last
<1>12. s = Swapped(arr, part.first, part.last)
  BY DEF s
<1>13. /\ Rearranged(N, arr, s, b, e) /\ RightPart(s, b, e, first, last)
       /\ part.first < first /\ last < part.last
  <2>1. RightPart(arr, b, e, part.first, part.last) /\ part.first < part.last
    BY <1>1, <1>4
  <2>2. N \in Nat /\ arr \in Arrays(N) /\ b \in Nat /\ e \in Nat /\ e <= N
    BY <1>2
  <2> HIDE DEF N
  <2> QED BY <1>10, <1>11, <1>12, <2>1, <2>2, RightTurn
<1>14. first \in b .. e - 1 /\ last \in b .. e - 1 /\ first \in Int /\ last \in Int
  BY <1>2, <1>13 DEF RightPart
<1>15. outside' = FALSE
  <2>1. {first, last} \subseteq Segment
    BY <1>2, <1>14
  <2> QED BY <1>3, <2>1 DEF SortInv
<1>16. /\ moved \in [kind : {"right"}, first : Int, last : Int, already : BOOLEAN]
       /\ moved.first = first /\ moved.last = last
  BY <1>4, <1>14
<1> HIDE DEF moved
<1>17. PartOf(arr', Call, part')
  BY <1>3, <1>4, <1>13, <1>16 DEF PartOf, b, e
<1>18. Rearranged(N, arr, arr', Call.begin, Call.end)
  BY <1>3, <1>13 DEF b, e
<1>19. Closer
  <2>1. /\ part'.first = first /\ part'.last = last /\ part'.kind = "right"
        /\ part.first \in Int /\ part.last \in Int /\ first \in Int /\ last \in Int
    BY <1>3, <1>4, <1>14, <1>16
  <2> QED BY <1>1, <1>13, <2>1 DEF Closer
<1>20. SortInv'
  BY <1>1, <1>5, <1>15, <1>17, <1>18, CallGoesOn
<1> QED BY <1>19, <1>20

\* A turn of partition_left.
LEMMA LeftTurnStep ==
  ASSUME SortInv, ExchangeLeft
  PROVE  SortInv' /\ Closer
<1> DEFINE b == Call.begin
           e == Call.end
           s == Swapped(arr, part.first, part.last)
           first == Above(GreaterThan(s, arr[b]), part.first)
           last == Below(NotGreaterThan(s, arr[b]), part.last)
           moved == [part EXCEPT !.first = first, !.last = last]
<1>1. calls # <<>> /\ part.kind = "left" /\ part.first < part.last
  BY DEF ExchangeLeft, Partitioning
<1>2. /\ N \in Nat /\ arr \in Arrays(N) /\ b \in Nat /\ e \in Nat /\ b <= e /\ e <= N /\ Size = N
      /\ Segment = b .. e - 1
  BY <1>1, CallIs
<1>3. /\ outside' = (outside \/ ~({first, last} \subseteq Segment))
      /\ arr' = s /\ part' = moved
      /\ UNCHANGED <<input, Branchless, calls, fallback>>
  BY DEF ExchangeLeft, GreaterThan, NotGreaterThan, Pivot
<1>4. /\ part \in [kind : {"left"}, first : Int, last : Int, already : BOOLEAN]
      /\ LeftPart(arr, b, e, part.first, part.last) /\ ~Call.leftmost
  BY <1>1, KindIs
<1>5. UNCHANGED <<input, Branchless, calls, fallback>>
  BY <1>3
<1> HIDE DEF b, e
<1>6. /\ part.first \in 0 .. N - 1 /\ part.last \in 0 .. N - 1 /\ part.last \in Nat
  BY <1>2, <1>4 DEF LeftPart
<1>7. s \in Arrays(N)
  BY <1>2, <1>6, SwapValues
<1>8. DOMAIN s = 0 .. N - 1
  BY <1>7 DEF Arrays
<1> HIDE DEF s
<1>9. /\ GreaterThan(s, arr[b]) \in SUBSET (0 .. N - 1)
      /\ NotGreaterThan(s, arr[b]) \in SUBSET (0 .. N - 1)
  BY <1>8 DEF GreaterThan, NotGreaterThan
<1>10. IsAbove(N, GreaterThan(s, arr[b]), part.first, first)
  BY <1>2, <1>6, <1>9, AboveIs
<1>11. IsBelow(NotGreaterThan(s, arr[b]), part.last, last)
  BY <1>2, <1>6, <1>9, BelowIs
<1> HIDE DEF first, last
<1>12. s = Swapped(arr, part.first, part.last)
  BY DEF s
<1>13. /\ Rearranged(N, arr, s, b, e) /\ LeftPart(s, b, e, first, last)
       /\ part.first < first /\ last < part.last
  <2>1. LeftPart(arr, b, e, part.first, part.last) /\ part.first < part.last
    BY <1>1, <1>4
  <2>2. N \in Nat /\ arr \in Arrays(N) /\ b \in Nat /\ e \in Nat /\ e <= N
    BY <1>2
  <2> HIDE DEF N
  <2> QED BY <1>10, <1>11, <1>12, <2>1, <2>2, LeftTurn
<1>14. first \in b .. e - 1 /\ last \in b .. e - 1 /\ first \in Int /\ last \in Int
  BY <1>2, <1>13 DEF LeftPart
<1>15. outside' = FALSE
  <2>1. {first, last} \subseteq Segment
    BY <1>2, <1>14
  <2> QED BY <1>3, <2>1 DEF SortInv
<1>16. /\ moved \in [kind : {"left"}, first : Int, last : Int, already : BOOLEAN]
       /\ moved.first = first /\ moved.last = last
  BY <1>4, <1>14
<1> HIDE DEF moved
<1>17. PartOf(arr', Call, part')
  BY <1>3, <1>4, <1>13, <1>16 DEF PartOf, b, e
<1>18. Rearranged(N, arr, arr', Call.begin, Call.end)
  BY <1>3, <1>13 DEF b, e
<1>19. Closer
  <2>1. /\ part'.first = first /\ part'.last = last /\ part'.kind = "left"
        /\ part.first \in Int /\ part.last \in Int /\ first \in Int /\ last \in Int
    BY <1>3, <1>4, <1>14, <1>16
  <2> QED BY <1>1, <1>13, <2>1 DEF Closer
<1>20. SortInv'
  BY <1>1, <1>5, <1>15, <1>17, <1>18, CallGoesOn
<1> QED BY <1>19, <1>20

\* partition_left is done, and the loop goes on with what is greater.
LEMMA LeftDoneStep ==
  ASSUME SortInv, LeftDone
  PROVE  SortInv'
<1> DEFINE b == Call.begin
           e == Call.end
           first == part.first
           last == part.last
           s == Swapped(arr, b, last)
<1>1. calls # <<>> /\ part.kind = "left" /\ first >= last
  BY DEF LeftDone, Partitioning
<1>2. /\ N \in Nat /\ arr \in Arrays(N) /\ b \in Nat /\ e \in Nat /\ b <= e /\ e <= N
      /\ Border(N, arr, b) /\ Border(N, arr, e) /\ Call = Top(calls)
  BY <1>1, CallIs
<1>3. arr' = s /\ calls' = [calls EXCEPT ![Len(calls)].begin = last + 1]
  BY DEF LeftDone
<1>4. part' = NoPartition /\ UNCHANGED <<input, Branchless, outside, fallback>>
  BY DEF LeftDone
<1>5. LeftPart(arr, b, e, first, last) /\ first \in Int /\ last \in Int
  BY <1>1, KindIs
<1>6. GoodCalls(N, arr, calls) /\ fallback \in BOOLEAN /\ outside = FALSE /\ (~fallback => Covered(N, arr, calls))
  BY DEF SortInv
<1>7. b = Top(calls).begin /\ e = Top(calls).end
  BY <1>2
<1> HIDE DEF b, e, first, last
<1>8. last <= first
  BY <1>1, <1>5
<1>9. s = Swapped(arr, b, last)
  BY DEF s
<1> HIDE DEF s
<1>10. Rearranged(N, arr, s, b, e) /\ last \in b .. e - 1 /\ \A x \in b .. last + 1 : Border(N, s, x)
  <2> HIDE DEF N
  <2> QED BY <1>2, <1>5, <1>8, <1>9, LeftEnd
<1>11. GoodCalls(N, s, calls) /\ (Covered(N, arr, calls) => Covered(N, s, calls))
  <2>1. GoodCalls(N, arr, calls) /\ calls # <<>> /\ N \in Nat
    BY <1>1, <1>2, <1>6
  <2>2. Rearranged(N, arr, s, Top(calls).begin, Top(calls).end)
    BY <1>7, <1>10
  <2> HIDE DEF N
  <2> QED BY <2>1, <2>2, CallsKept
<1> DEFINE k == last + 1
           r == [calls EXCEPT ![Len(calls)].begin = k]
<1>12. k \in Nat /\ b <= k /\ k <= e /\ k > 0 /\ \A x \in b .. k : Border(N, s, x)
  BY <1>2, <1>10
<1>13. calls' = r
  BY <1>3
<1> HIDE DEF k
<1>14. r = Shrunk(calls, k)
  BY DEF Shrunk
<1> HIDE DEF r
<1>15. GoodCalls(N, s, r) /\ (Covered(N, s, calls) => Covered(N, s, r))
  <2> HIDE DEF N
  <2>1. GoodCalls(N, s, calls) /\ N \in Nat /\ calls # <<>>
    BY <1>1, <1>2, <1>11
  <2>2. k \in Nat /\ Top(calls).begin <= k /\ k <= Top(calls).end /\ k > 0
    BY <1>7, <1>12
  <2>3. \A x \in Top(calls).begin .. k : Border(N, s, x)
    BY <1>7, <1>12
  <2> QED BY <1>14, <2>1, <2>2, <2>3, CallShrinks
<1>16. GoodCalls(N, arr', calls')
  BY <1>3, <1>13, <1>15
<1>17. ~fallback' => Covered(N, arr', calls')
  BY <1>3, <1>4, <1>6, <1>11, <1>13, <1>15
<1>18. Rearranged(N, arr, arr', b, e)
  BY <1>3, <1>10
<1>19. fallback' \in BOOLEAN /\ outside' = FALSE /\ UNCHANGED <<input, Branchless>>
  BY <1>4, <1>6
<1> QED BY <1>2, <1>4, <1>16, <1>17, <1>18, <1>19, StepKeeps

\* A turn of partition_right_branchless.
LEMMA BlocksStep ==
  ASSUME SortInv, ExchangeBlocks
  PROVE  SortInv' /\ Closer
<1> DEFINE b == Call.begin
           e == Call.end
           before_l == part.offsets_l
           before_r == part.offsets_r
           l_base == part.l_base
           r_base == part.r_base
           unknown == part.last - part.first
           left_split == IF before_l # <<>> THEN 0
                         ELSE IF before_r = <<>> THEN unknown \div 2 ELSE unknown
           right_split == IF before_r # <<>> THEN 0 ELSE unknown - left_split
           n_left == Least(left_split, block_size)
           n_right == Least(right_split, block_size)
           l == IF before_l # <<>> THEN before_l
                ELSE Ascending({i \in 0 .. n_left - 1 : arr[part.first + i] >= arr[b]}, n_left)
           r == IF before_r # <<>> THEN before_r
                ELSE Ascending({i \in 1 .. n_right : arr[part.last - i] < arr[b]}, n_right)
           m == Least(Len(l), Len(r))
           first == part.first + n_left
           last == part.last - n_right
           pl == [i \in 1 .. m |-> l_base + l[i]]
           pr == [i \in 1 .. m |-> r_base - r[i]]
           s == IF Len(l) = Len(r) THEN SwappedAll(arr, [i \in 1 .. m |-> <<pl[i], pr[i]>>])
                ELSE Exchanged(arr, pl, pr)
           rest_l == SubSeq(l, m + 1, Len(l))
           rest_r == SubSeq(r, m + 1, Len(r))
           base_l == IF m = Len(l) THEN first ELSE l_base
           base_r == IF m = Len(r) THEN last ELSE r_base
           moved == [part EXCEPT !.first = first, !.last = last, !.offsets_l = rest_l, !.offsets_r = rest_r,
                                 !.l_base = base_l, !.r_base = base_r]
<1>1. calls # <<>> /\ part.kind = "blocks" /\ part.first < part.last
  BY DEF ExchangeBlocks, Partitioning
<1>2. /\ N \in Nat /\ arr \in Arrays(N) /\ b \in Nat /\ e \in Nat /\ b <= e /\ e <= N
  BY <1>1, CallIs
<1>3. arr' = s
  BY DEF ExchangeBlocks, Pivot, WrongLeft, WrongRight
<1>4. part' = moved
  BY DEF ExchangeBlocks, Pivot, WrongLeft, WrongRight
<1>5. UNCHANGED <<input, Branchless, calls, outside, fallback>>
  BY DEF ExchangeBlocks
<1>6. /\ part \in [kind : {"blocks"}, first : Int, last : Int, already : BOOLEAN, l_base : Int, r_base : Int,
                   offsets_l : Seq(Nat), offsets_r : Seq(Nat)]
      /\ BlockPart(arr, b, e, part.first, part.last, l_base, r_base, before_l, before_r)
  BY <1>1, KindIs
<1>7. unknown \in Nat /\ unknown > 0 /\ block_size > 0 /\ part.first \in Int /\ part.last \in Int /\ block_size \in Nat
  BY <1>1, <1>6, ThresholdAssumption DEF ThresholdAssumption
<1>8. left_split \in Nat /\ right_split \in Nat /\ left_split + right_split = unknown
  <2>1. before_l = <<>> \/ before_r = <<>>
    BY <1>6 DEF BlockPart
  <2> HIDE DEF unknown, before_l, before_r
  <2> QED BY <1>7, <2>1
<1>9. (before_l # <<>> => left_split = 0) /\ (before_r # <<>> => right_split = 0)
  OBVIOUS
<1> HIDE DEF left_split, right_split
<1>10. /\ n_left + n_right > 0 /\ n_left \in Nat /\ n_right \in Nat /\ n_left <= left_split /\ n_right <= right_split
       /\ (before_l # <<>> => n_left = 0) /\ (before_r # <<>> => n_right = 0)
  BY <1>7, <1>8, <1>9 DEF Least
<1> HIDE DEF n_left, n_right
<1>11. part.first + n_left <= part.last - n_right
  BY <1>7, <1>8, <1>10
<1> HIDE DEF b, e, before_l, before_r, l_base, r_base
<1>12. BlocksFilled(arr, b, part.first, part.last, before_l, before_r, n_left, n_right, l, r)
  BY <1>10, <1>11, Zenon DEF BlocksFilled
<1> HIDE DEF l, r
<1>13. BlocksExchanged(arr, s, l_base, r_base, l, r, m, pl, pr)
  BY Zenon DEF BlocksExchanged
<1> HIDE DEF m, pl, pr, s
<1>17. first = part.first + n_left /\ last = part.last - n_right
  OBVIOUS
<1> HIDE DEF first, last
<1>18. Rearranged(N, arr, s, b, e) /\ BlockPart(s, b, e, first, last, base_l, base_r, rest_l, rest_r)
  <2> HIDE DEF N
  <2>1. BlockPart(arr, b, e, part.first, part.last, l_base, r_base, before_l, before_r)
    BY <1>6
  <2> QED BY <1>2, <1>12, <1>13, <1>17, <2>1, BlockTurn
<1> HIDE DEF base_l, base_r, rest_l, rest_r
<1>19. BlockShape(s, b, e, first, last, base_l, base_r, rest_l, rest_r)
  BY <1>18 DEF BlockPart
<1>20. first \in Int /\ last \in Int /\ base_l \in Int /\ base_r \in Int /\ rest_l \in Seq(Nat) /\ rest_r \in Seq(Nat)
  BY <1>19 DEF BlockShape, Lists
<1>21. /\ moved \in [kind : {"blocks"}, first : Int, last : Int, already : BOOLEAN, l_base : Int, r_base : Int,
                     offsets_l : Seq(Nat), offsets_r : Seq(Nat)]
       /\ moved.first = first /\ moved.last = last /\ moved.l_base = base_l /\ moved.r_base = base_r
       /\ moved.offsets_l = rest_l /\ moved.offsets_r = rest_r
  BY <1>6, <1>20
<1> HIDE DEF moved
<1>22. PartOf(arr', Call, part')
  BY <1>3, <1>4, <1>18, <1>21 DEF PartOf, b, e
<1>23. Rearranged(N, arr, arr', Call.begin, Call.end)
  BY <1>3, <1>18 DEF b, e
<1>24. outside' = FALSE
  BY <1>5 DEF SortInv
<1>25. UNCHANGED <<input, Branchless, calls, fallback>>
  BY <1>5
<1>26. Closer
  <2>1. part'.first = first /\ part'.last = last /\ part'.kind = "blocks"
    BY <1>4, <1>21
  <2>2. last - first < part.last - part.first
    BY <1>7, <1>10, <1>17, SMTT(60)
  <2> QED BY <1>1, <2>1, <2>2 DEF Closer
<1>27. SortInv'
  BY <1>1, <1>22, <1>23, <1>24, <1>25, CallGoesOn
<1> QED BY <1>26, <1>27

\* What was left in one of the blocks is next to the boundary.
LEMMA LastBlockStep ==
  ASSUME SortInv, LastBlock
  PROVE  SortInv'
<1> DEFINE b == Call.begin
           e == Call.end
           v == FarthestFirst(part.offsets_l)
           w == FarthestFirst(part.offsets_r)
           boundary == IF v # <<>> THEN part.last - Len(v) ELSE part.first + Len(w)
           s == SwappedAll(arr, IF v # <<>>
                                THEN [i \in DOMAIN v |-> <<part.l_base + v[i], part.last - i>>]
                                ELSE [i \in DOMAIN w |-> <<part.r_base - w[i], part.first + i - 1>>])
           done == [kind |-> "right", first |-> boundary, last |-> boundary, already |-> FALSE]
<1>1. calls # <<>> /\ part.kind = "blocks" /\ part.first >= part.last
  BY DEF LastBlock, Partitioning
<1>2. /\ N \in Nat /\ arr \in Arrays(N) /\ b \in Nat /\ e \in Nat /\ b <= e /\ e <= N
  BY <1>1, CallIs
<1>3. arr' = s /\ part' = done
  BY DEF LastBlock
<1>4. UNCHANGED <<input, Branchless, calls, outside, fallback>>
  BY DEF LastBlock
<1>5. /\ part.first \in Int /\ part.last \in Int
      /\ BlockPart(arr, b, e, part.first, part.last, part.l_base, part.r_base, part.offsets_l, part.offsets_r)
  BY <1>1, KindIs
<1>6. part.last <= part.first
  BY <1>1, <1>5
<1> HIDE DEF b, e
<1>7. RestMoved(arr, part.first, part.last, part.l_base, part.r_base, part.offsets_l, part.offsets_r, v, w, boundary, s)
  BY Zenon DEF RestMoved
<1> HIDE DEF v, w, boundary, s
<1>9. Rearranged(N, arr, s, b, e) /\ RightPart(s, b, e, boundary, boundary)
  <2>1. BlockPart(arr, b, e, part.first, part.last, part.l_base, part.r_base, part.offsets_l, part.offsets_r)
    BY <1>5
  <2>2. N \in Nat /\ arr \in Arrays(N) /\ b \in Nat /\ e \in Nat /\ e <= N
    BY <1>2
  <2> HIDE DEF N
  <2> QED BY <1>6, <1>7, <2>1, <2>2, LastBlockIs
<1>10. boundary \in Int
  BY <1>2, <1>9 DEF RightPart
<1>11. /\ done \in [kind : {"right"}, first : Int, last : Int, already : BOOLEAN]
       /\ done.first = boundary /\ done.last = boundary
  BY <1>10
<1> HIDE DEF done
<1>12. PartOf(arr', Call, part')
  BY <1>3, <1>9, <1>11 DEF PartOf, b, e
<1>13. Rearranged(N, arr, arr', Call.begin, Call.end)
  BY <1>3, <1>9 DEF b, e
<1>14. outside' = FALSE
  BY <1>4 DEF SortInv
<1>15. UNCHANGED <<input, Branchless, calls, fallback>>
  BY <1>4
<1> QED BY <1>1, <1>12, <1>13, <1>14, <1>15, CallGoesOn

\* partition_right is done: the pivot is in its place between the two parts.
LEMMA RightDoneIs ==
  ASSUME SortInv, RightDone
  PROVE  /\ calls # <<>> /\ PivotPos \in Nat /\ Call.begin <= PivotPos /\ PivotPos < Call.end
         /\ Rearranged(N, arr, Partitioned, Call.begin, Call.end) /\ Partitioned \in Arrays(N)
         /\ Border(N, Partitioned, PivotPos) /\ Border(N, Partitioned, PivotPos + 1)
         /\ Border(N, Partitioned, Call.begin) /\ Border(N, Partitioned, Call.end)
<1> DEFINE b == Call.begin
           e == Call.end
           first == part.first
           last == part.last
           s == Swapped(arr, b, first - 1)
<1>1. calls # <<>> /\ part.kind = "right" /\ first >= last
  BY DEF RightDone, Partitioning
<1>2. /\ N \in Nat /\ arr \in Arrays(N) /\ b \in Nat /\ e \in Nat /\ b <= e /\ e <= N
      /\ Border(N, arr, b) /\ Border(N, arr, e)
  BY <1>1, CallIs
<1>3. RightPart(arr, b, e, first, last) /\ first \in Int /\ last \in Int
  BY <1>1, KindIs
<1>4. PivotPos = first - 1 /\ Partitioned = s
  BY DEF PivotPos, Partitioned
<1> HIDE DEF b, e, first, last
<1>5. last <= first /\ first \in b + 1 .. e - 1
  BY <1>1, <1>3 DEF RightPart
<1>6. s = Swapped(arr, b, first - 1)
  OBVIOUS
<1> HIDE DEF s
<1>7. Rearranged(N, arr, s, b, e) /\ Border(N, s, first - 1) /\ Border(N, s, first)
  <2> HIDE DEF N
  <2> QED BY <1>2, <1>3, <1>5, <1>6, RightEnd
<1>8. s \in Arrays(N)
  BY <1>7 DEF Rearranged
<1>9. Border(N, s, b) /\ Border(N, s, e)
  <2>1. b \in Int /\ e \in Int /\ b <= b /\ e <= e
    BY <1>2
  <2> QED BY <1>2, <1>7, <2>1, RearrangedBorder
<1>10. PivotPos \in Nat /\ b <= PivotPos /\ PivotPos < e /\ PivotPos + 1 = first
  BY <1>2, <1>4, <1>5
<1> QED BY <1>1, <1>4, <1>7, <1>8, <1>9, <1>10 DEF b, e

\* Too many bad partitions.
LEMMA HeapSortStep ==
  ASSUME SortInv, HeapSort
  PROVE  SortInv'
<1> DEFINE b == Call.begin
           e == Call.end
           n == e - b
           s == make_heap(Partitioned, b, n)
           t == sort_heap(s, b, n)
<1>1. RightDone
  BY DEF HeapSort
<1>2. arr' = t /\ calls' = Popped /\ part' = NoPartition /\ fallback' = TRUE
  BY DEF HeapSort
<1>3. UNCHANGED <<input, Branchless, outside>>
  BY DEF HeapSort
<1>4. /\ calls # <<>> /\ PivotPos \in Nat /\ b <= PivotPos /\ PivotPos < e
      /\ Rearranged(N, arr, Partitioned, b, e) /\ Partitioned \in Arrays(N)
  BY <1>1, RightDoneIs
<1>5. N \in Nat /\ b \in Nat /\ e \in Nat /\ e <= N
  BY <1>4, CallIs
<1> HIDE DEF b, e
<1>6. n \in Nat \ {0} /\ n \in Nat /\ b + n = e /\ b + n <= N
  BY <1>4, <1>5
<1> HIDE DEF n
<1>7. Rearranged(N, Partitioned, s, b, e)
  <2>1. Rearranged(N, Partitioned, s, b, b + n)
    BY <1>4, <1>5, <1>6, MakeHeapIs
  <2> QED BY <1>6, <2>1
<1> HIDE DEF s
<1>8. s \in Arrays(N)
  BY <1>7 DEF Rearranged
<1>9. Rearranged(N, s, t, b, e)
  <2>1. Rearranged(N, s, t, b, b + n)
    BY <1>5, <1>6, <1>8, SortHeapIs
  <2> QED BY <1>6, <2>1
<1> HIDE DEF t
<1>10. Rearranged(N, arr, t, b, e)
  <2>1. b \in Int /\ e \in Int
    BY <1>5
  <2>2. Rearranged(N, arr, s, b, e)
    BY <1>4, <1>5, <1>7, <2>1, RearrangedTrans
  <2> QED BY <1>5, <1>9, <2>1, <2>2, RearrangedTrans
<1>11. Rearranged(N, arr, arr', Call.begin, Call.end)
  BY <1>2, <1>10 DEF b, e
<1>12. outside' = FALSE /\ UNCHANGED <<input, Branchless>>
  BY <1>3 DEF SortInv
<1>13. fallback' \in BOOLEAN /\ (fallback => fallback')
  BY <1>2
<1>14. fallback' \/ \A x \in Call.begin .. Call.end : Border(N, arr', x)
  BY <1>2
<1>15. calls' = Popped
  BY <1>2
<1>16. part' = NoPartition
  BY <1>2
<1> QED BY <1>4, <1>11, <1>12, <1>13, <1>14, <1>15, <1>16, CallEnds

\* The call goes on with the part behind the pivot and calls itself for the part
\* before it.
LEMMA RecurseStep ==
  ASSUME SortInv, RightDone, NEW bad \in Int, Recurse(bad),
         Rearranged(N, arr, arr', Call.begin, Call.end),
         Border(N, arr', PivotPos), Border(N, arr', PivotPos + 1)
  PROVE  SortInv'
<1> DEFINE b == Call.begin
           e == Call.end
           pp == PivotPos
           call == [Call EXCEPT !.bad_allowed = bad]
           y == [call EXCEPT !.begin = pp + 1, !.leftmost = FALSE]
           x == [call EXCEPT !.end = pp]
<1>1. calls # <<>> /\ pp \in Nat /\ b <= pp /\ pp < e
  BY RightDoneIs
<1>2. /\ N \in Nat /\ Call = Top(calls) /\ Popped = WithoutTop(calls) /\ Call \in CallSet /\ b \in Nat /\ e \in Nat
      /\ b <= e /\ e <= N /\ Border(N, arr, b) /\ Border(N, arr, e) /\ (~Call.leftmost => b > 0)
  BY <1>1, CallIs
<1>3. calls' = WithoutTop(calls) \o <<y, x>> /\ part' = NoPartition
  BY <1>2 DEF Recurse
<1>4. UNCHANGED <<input, Branchless, outside, fallback>>
  BY DEF Recurse
<1>5. GoodCalls(N, arr, calls) /\ fallback \in BOOLEAN /\ outside = FALSE /\ (~fallback => Covered(N, arr, calls))
  BY DEF SortInv
<1>6. GoodCalls(N, arr', calls) /\ (Covered(N, arr, calls) => Covered(N, arr', calls))
  <2>1. Rearranged(N, arr, arr', Top(calls).begin, Top(calls).end)
    BY <1>2
  <2> HIDE DEF N
  <2> QED BY <1>1, <1>2, <1>5, <2>1, CallsKept
<1>7. Border(N, arr', b) /\ Border(N, arr', e)
  <2>1. b \in Int /\ e \in Int /\ b <= b /\ e <= e /\ Rearranged(N, arr, arr', b, e)
    BY <1>2
  <2> HIDE DEF N, b, e
  <2> QED BY <1>2, <2>1, RearrangedBorder
<1>8. /\ x \in CallSet /\ x.begin = b /\ x.end = pp /\ x.leftmost = Call.leftmost
      /\ y \in CallSet /\ y.begin = pp + 1 /\ y.end = e /\ y.leftmost = FALSE
  <2>1. call \in CallSet /\ call.begin = b /\ call.end = e /\ call.leftmost = Call.leftmost
    BY <1>2 DEF CallSet
  <2>2. pp + 1 \in Nat /\ pp \in Nat
    BY <1>1
  <2> HIDE DEF call, b, e, pp
  <2>3. x \in CallSet /\ x.begin = b /\ x.end = pp /\ x.leftmost = Call.leftmost
    BY <2>1, <2>2 DEF CallSet
  <2>4. y \in CallSet /\ y.begin = pp + 1 /\ y.end = e /\ y.leftmost = FALSE
    BY <2>1, <2>2 DEF CallSet
  <2> QED BY <2>3, <2>4
<1>9. b = Top(calls).begin /\ e = Top(calls).end
  BY <1>2
<1>10. Border(N, arr', pp) /\ Border(N, arr', pp + 1)
  OBVIOUS
<1> HIDE DEF x, y, b, e, pp
<1>11. GoodCall(N, arr', x)
  BY <1>1, <1>2, <1>7, <1>8, <1>10 DEF GoodCall
<1>12. GoodCall(N, arr', y)
  BY <1>1, <1>2, <1>7, <1>8, <1>10 DEF GoodCall
<1>13. /\ GoodCalls(N, arr', WithoutTop(calls) \o <<y, x>>)
       /\ Covered(N, arr', calls) => Covered(N, arr', WithoutTop(calls) \o <<y, x>>)
  <2>1. x.begin = Top(calls).begin /\ x.end < y.begin /\ y.end = Top(calls).end /\ y.begin = x.end + 1
    BY <1>1, <1>8, <1>9
  <2>2. GoodCalls(N, arr', calls) /\ calls # <<>> /\ N \in Nat
    BY <1>1, <1>2, <1>6
  <2> HIDE DEF N
  <2> QED BY <1>11, <1>12, <2>1, <2>2, CallSplits
<1>14. GoodCalls(N, arr', calls')
  BY <1>3, <1>13
<1>15. ~fallback' => Covered(N, arr', calls')
  BY <1>3, <1>4, <1>5, <1>6, <1>13
<1>16. fallback' \in BOOLEAN /\ outside' = FALSE /\ UNCHANGED <<input, Branchless>>
  BY <1>4, <1>5
<1>17. part' = NoPartition
  BY <1>3
<1>18. Rearranged(N, arr, arr', b, e)
  BY DEF b, e
<1> QED BY <1>2, <1>14, <1>15, <1>16, <1>17, <1>18, StepKeeps

\* Pairs of which each is on one side of mid.
AllAside(n, q, lo, mid, hi) ==
  q \in Seq(Positions(n)) /\ \A i \in 1 .. Len(q) : Aside(q[i], lo, mid, hi)

LEMMA AsideJoined ==
  ASSUME NEW n, NEW lo, NEW mid, NEW hi, NEW q, NEW r, AllAside(n, q, lo, mid, hi), AllAside(n, r, lo, mid, hi)
  PROVE  AllAside(n, q \o r, lo, mid, hi)
<1> DEFINE P == Positions(n)
<1>1. q \in Seq(P) /\ r \in Seq(P)
  BY DEF AllAside
<1> HIDE DEF P
<1>2. /\ q \o r \in Seq(P) /\ Len(q \o r) = Len(q) + Len(r)
      /\ \A i \in 1 .. Len(q) + Len(r) : (q \o r)[i] = IF i <= Len(q) THEN q[i] ELSE r[i - Len(q)]
  BY <1>1, ConcatProperties
<1>3. Len(q) \in Nat /\ Len(r) \in Nat
  BY <1>1, LenProperties
<1> DEFINE s == q \o r
<1> HIDE DEF s
<1>4. ASSUME NEW i \in 1 .. Len(s) PROVE Aside(s[i], lo, mid, hi)
  <2>1. i \in 1 .. Len(q) + Len(r) /\ s[i] = IF i <= Len(q) THEN q[i] ELSE r[i - Len(q)]
    BY <1>2, <1>4 DEF s
  <2>2. CASE i <= Len(q)
    <3>1. i \in 1 .. Len(q)
      BY <1>3, <2>1, <2>2
    <3> QED BY <2>1, <2>2, <3>1 DEF AllAside
  <2>3. CASE ~(i <= Len(q))
    <3>1. i - Len(q) \in 1 .. Len(r)
      BY <1>3, <2>1, <2>3
    <3> QED BY <2>1, <2>3, <3>1 DEF AllAside
  <2> QED BY <2>2, <2>3
<1> QED BY <1>2, <1>4 DEF s, P, AllAside

LEMMA AsideNothing ==
  ASSUME NEW n, NEW lo, NEW mid, NEW hi
  PROVE  AllAside(n, <<>>, lo, mid, hi)
<1>1. <<>> \in Seq(Positions(n)) /\ Len(<<>>) = 0
  OBVIOUS
<1>2. \A i \in 1 .. 0 : FALSE
  OBVIOUS
<1> QED BY <1>1, <1>2 DEF AllAside

LEMMA AsideOne ==
  ASSUME NEW n \in Nat, NEW lo \in Nat, NEW mid \in Nat, NEW hi \in Nat, lo <= mid, mid < hi, hi <= n,
         NEW i \in Int, NEW j \in Int,
         \/ lo <= i /\ i < mid /\ lo <= j /\ j < mid
         \/ mid < i /\ i < hi /\ mid < j /\ j < hi
  PROVE  AllAside(n, <<<<i, j>>>>, lo, mid, hi)
<1>1. <<i, j>> \in Positions(n)
  BY DEF Positions
<1>2. Aside(<<i, j>>, lo, mid, hi)
  BY DEF Aside
<1> DEFINE pair == <<i, j>>
<1> HIDE DEF pair
<1>3. <<pair>> \in Seq(Positions(n)) /\ Len(<<pair>>) = 1 /\ <<pair>>[1] = pair
  BY <1>1 DEF pair
<1>4. \A k \in 1 .. Len(<<pair>>) : <<pair>>[k] = pair
  BY <1>3
<1>5. Aside(pair, lo, mid, hi)
  BY <1>2 DEF pair
<1>6. AllAside(n, <<pair>>, lo, mid, hi)
  BY <1>3, <1>4, <1>5 DEF AllAside
<1> QED BY <1>6 DEF pair

LEMMA AsideTwo ==
  ASSUME NEW n, NEW lo, NEW mid, NEW hi, NEW x, NEW y,
         AllAside(n, <<x>>, lo, mid, hi), AllAside(n, <<y>>, lo, mid, hi)
  PROVE  AllAside(n, <<x, y>>, lo, mid, hi)
<1>1. <<x>> \in Seq(Positions(n)) /\ <<y>> \in Seq(Positions(n)) /\ Len(<<x>>) = 1 /\ Len(<<y>>) = 1
  BY DEF AllAside
<1>2. x \in Positions(n) /\ y \in Positions(n)
  <2>1. \A q \in Seq(Positions(n)) : 1 \in 1 .. Len(q) => q[1] \in Positions(n)
    OBVIOUS
  <2>2. <<x>>[1] = x /\ <<y>>[1] = y /\ 1 \in 1 .. 1
    OBVIOUS
  <2> QED BY <1>1, <2>1, <2>2
<1>3. Aside(x, lo, mid, hi) /\ Aside(y, lo, mid, hi)
  <2>1. <<x>>[1] = x /\ <<y>>[1] = y /\ 1 \in 1 .. 1
    OBVIOUS
  <2>2. Aside(<<x>>[1], lo, mid, hi) /\ Aside(<<y>>[1], lo, mid, hi)
    BY <1>1, <2>1 DEF AllAside
  <2> QED BY <2>1, <2>2
<1> DEFINE two == <<x, y>>
<1>4. two \in Seq(Positions(n)) /\ Len(two) = 2 /\ two[1] = x /\ two[2] = y
  BY <1>2
<1> HIDE DEF two
<1>5. \A i \in 1 .. Len(two) : i = 1 \/ i = 2
  BY <1>4
<1>6. \A i \in 1 .. Len(two) : Aside(two[i], lo, mid, hi)
  BY <1>3, <1>4, <1>5
<1>7. AllAside(n, two, lo, mid, hi)
  BY <1>4, <1>6 DEF AllAside
<1> QED BY <1>7 DEF two

LEMMA AsideFour ==
  ASSUME NEW n, NEW lo, NEW mid, NEW hi, NEW x, NEW y, NEW z, NEW w,
         AllAside(n, <<x>>, lo, mid, hi), AllAside(n, <<y>>, lo, mid, hi),
         AllAside(n, <<z>>, lo, mid, hi), AllAside(n, <<w>>, lo, mid, hi)
  PROVE  AllAside(n, <<x, y, z, w>>, lo, mid, hi)
<1>1. <<x, y, z, w>> = <<x, y>> \o <<z, w>>
  OBVIOUS
<1>2. AllAside(n, <<x, y>>, lo, mid, hi) /\ AllAside(n, <<z, w>>, lo, mid, hi)
  BY AsideTwo
<1> QED BY <1>1, <1>2, AsideJoined

\* The shuffle moves no element across the pivot.
LEMMA ShuffledIs ==
  ASSUME NEW n \in Nat, NEW s \in Arrays(n), Call.begin \in Nat, Call.end \in Nat, PivotPos \in Nat,
         Call.begin <= PivotPos, PivotPos < Call.end, Call.end <= n,
         Border(n, s, PivotPos), Border(n, s, PivotPos + 1)
  PROVE  /\ Rearranged(n, s, Shuffled(s), Call.begin, Call.end)
         /\ Border(n, Shuffled(s), PivotPos) /\ Border(n, Shuffled(s), PivotPos + 1)
<1> DEFINE p == PivotPos
           b == Call.begin
           e == Call.end
           l == LeftSize \div 4
           r == RightSize \div 4
           two_l == <<<<b, b + l>>, <<p - 1, p - l>>>>
           four_l == <<<<b + 1, b + l + 1>>, <<b + 2, b + l + 2>>, <<p - 2, p - (l + 1)>>, <<p - 3, p - (l + 2)>>>>
           two_r == <<<<p + 1, p + 1 + r>>, <<e - 1, e - r>>>>
           four_r == <<<<p + 2, p + 2 + r>>, <<p + 3, p + 3 + r>>, <<e - 2, e - (1 + r)>>, <<e - 3, e - (2 + r)>>>>
           q1 == IF LeftSize >= insertion_sort_threshold THEN two_l ELSE <<>>
           q2 == IF LeftSize > ninther_threshold THEN four_l ELSE <<>>
           q3 == IF RightSize >= insertion_sort_threshold THEN two_r ELSE <<>>
           q4 == IF RightSize > ninther_threshold THEN four_r ELSE <<>>
<1>1. Shuffled(s) = SwappedAll(s, q1 \o q2 \o q3 \o q4)
  BY DEF Shuffled
<1>2. /\ b \in Nat /\ e \in Nat /\ p \in Nat /\ b <= p /\ p < e /\ e <= n
      /\ LeftSize = p - b /\ RightSize = e - (p + 1) /\ LeftSize \in Nat /\ RightSize \in Nat
  BY DEF LeftSize, RightSize
<1>3. insertion_sort_threshold >= 4 /\ ninther_threshold >= 8 /\ insertion_sort_threshold \in Nat /\ ninther_threshold \in Nat
  BY ThresholdAssumption DEF ThresholdAssumption
<1> HIDE DEF b, e, p
<1>4. /\ l \in Nat /\ r \in Nat /\ 4 * l <= LeftSize /\ LeftSize < 4 * l + 4
      /\ 4 * r <= RightSize /\ RightSize < 4 * r + 4
  BY <1>2
<1> HIDE DEF l, r
<1>5. AllAside(n, q1, b, p, e)
  <2>1. CASE LeftSize >= insertion_sort_threshold
    <3>1. LeftSize >= 4 /\ l >= 1
      BY <1>2, <1>3, <1>4, <2>1
    <3>2. AllAside(n, <<<<b, b + l>>>>, b, p, e)
      BY <1>2, <1>4, <3>1, AsideOne, SMTT(60)
    <3>3. AllAside(n, <<<<p - 1, p - l>>>>, b, p, e)
      BY <1>2, <1>4, <3>1, AsideOne, SMTT(60)
    <3> QED BY <2>1, <3>2, <3>3, AsideTwo
  <2> QED BY <2>1, AsideNothing
<1>6. AllAside(n, q2, b, p, e)
  <2>1. CASE LeftSize > ninther_threshold
    <3>1. LeftSize >= 9 /\ l >= 2
      BY <1>2, <1>3, <1>4, <2>1
    <3>2. AllAside(n, <<<<b + 1, b + l + 1>>>>, b, p, e)
      BY <1>2, <1>4, <3>1, AsideOne, SMTT(60)
    <3>3. AllAside(n, <<<<b + 2, b + l + 2>>>>, b, p, e)
      BY <1>2, <1>4, <3>1, AsideOne, SMTT(60)
    <3>4. AllAside(n, <<<<p - 2, p - (l + 1)>>>>, b, p, e)
      BY <1>2, <1>4, <3>1, AsideOne, SMTT(60)
    <3>5. AllAside(n, <<<<p - 3, p - (l + 2)>>>>, b, p, e)
      BY <1>2, <1>4, <3>1, AsideOne, SMTT(60)
    <3> QED BY <2>1, <3>2, <3>3, <3>4, <3>5, AsideFour
  <2> QED BY <2>1, AsideNothing
<1>7. AllAside(n, q3, b, p, e)
  <2>1. CASE RightSize >= insertion_sort_threshold
    <3>1. RightSize >= 4 /\ r >= 1
      BY <1>2, <1>3, <1>4, <2>1
    <3>2. AllAside(n, <<<<p + 1, p + 1 + r>>>>, b, p, e)
      BY <1>2, <1>4, <3>1, AsideOne, SMTT(60)
    <3>3. AllAside(n, <<<<e - 1, e - r>>>>, b, p, e)
      BY <1>2, <1>4, <3>1, AsideOne, SMTT(60)
    <3> QED BY <2>1, <3>2, <3>3, AsideTwo
  <2> QED BY <2>1, AsideNothing
<1>8. AllAside(n, q4, b, p, e)
  <2>1. CASE RightSize > ninther_threshold
    <3>1. RightSize >= 9 /\ r >= 2
      BY <1>2, <1>3, <1>4, <2>1
    <3>2. AllAside(n, <<<<p + 2, p + 2 + r>>>>, b, p, e)
      BY <1>2, <1>4, <3>1, AsideOne, SMTT(60)
    <3>3. AllAside(n, <<<<p + 3, p + 3 + r>>>>, b, p, e)
      BY <1>2, <1>4, <3>1, AsideOne, SMTT(60)
    <3>4. AllAside(n, <<<<e - 2, e - (1 + r)>>>>, b, p, e)
      BY <1>2, <1>4, <3>1, AsideOne, SMTT(60)
    <3>5. AllAside(n, <<<<e - 3, e - (2 + r)>>>>, b, p, e)
      BY <1>2, <1>4, <3>1, AsideOne, SMTT(60)
    <3> QED BY <2>1, <3>2, <3>3, <3>4, <3>5, AsideFour
  <2> QED BY <2>1, AsideNothing
<1> HIDE DEF q1, q2, q3, q4
<1>9. AllAside(n, q1 \o q2 \o q3 \o q4, b, p, e)
  <2>1. AllAside(n, q1 \o q2, b, p, e)
    BY <1>5, <1>6, AsideJoined
  <2>2. AllAside(n, (q1 \o q2) \o q3, b, p, e)
    BY <1>7, <2>1, AsideJoined
  <2> QED BY <1>8, <2>2, AsideJoined
<1> DEFINE pairs == q1 \o q2 \o q3 \o q4
<1>10. AllAside(n, pairs, b, p, e) /\ Shuffled(s) = SwappedAll(s, pairs)
  BY <1>1, <1>9
<1> HIDE DEF pairs
<1>11. pairs \in Seq(Positions(n)) /\ \A i \in 1 .. Len(pairs) : Aside(pairs[i], b, p, e)
  BY <1>10 DEF AllAside
<1>12. Border(n, s, p) /\ Border(n, s, p + 1)
  BY DEF p
<1>13. /\ Rearranged(n, s, SwappedAll(s, pairs), b, e)
       /\ Border(n, SwappedAll(s, pairs), p) /\ Border(n, SwappedAll(s, pairs), p + 1)
  BY <1>2, <1>11, <1>12, SwappedAllAside
<1> QED BY <1>10, <1>13 DEF b, e, p

LEMMA ShuffledStep ==
  ASSUME SortInv, RecurseShuffled
  PROVE  SortInv'
<1> DEFINE b == Call.begin
           e == Call.end
           s == Partitioned
<1>1. RightDone /\ arr' = Shuffled(s) /\ Recurse(Call.bad_allowed - 1)
  BY DEF RecurseShuffled
<1>2. /\ calls # <<>> /\ PivotPos \in Nat /\ b <= PivotPos /\ PivotPos < e
      /\ Rearranged(N, arr, s, b, e) /\ s \in Arrays(N)
      /\ Border(N, s, PivotPos) /\ Border(N, s, PivotPos + 1)
  BY <1>1, RightDoneIs
<1>3. N \in Nat /\ b \in Nat /\ e \in Nat /\ e <= N /\ Call.bad_allowed \in Int
  BY <1>2, CallIs
<1>4. /\ Rearranged(N, s, Shuffled(s), b, e)
      /\ Border(N, Shuffled(s), PivotPos) /\ Border(N, Shuffled(s), PivotPos + 1)
  <2> HIDE DEF N, s
  <2> QED BY <1>2, <1>3, ShuffledIs
<1>5. Rearranged(N, arr, Shuffled(s), b, e)
  <2>1. b \in Int /\ e \in Int
    BY <1>3
  <2> HIDE DEF N, s, b, e
  <2> QED BY <1>2, <1>3, <1>4, <2>1, RearrangedTrans
<1>6. Rearranged(N, arr, arr', Call.begin, Call.end)
  BY <1>1, <1>5
<1>7. Border(N, arr', PivotPos) /\ Border(N, arr', PivotPos + 1)
  BY <1>1, <1>4
<1> DEFINE bad == Call.bad_allowed - 1
<1>8. bad \in Int /\ Recurse(bad)
  BY <1>1, <1>3
<1> HIDE DEF bad
<1> QED BY <1>1, <1>6, <1>7, <1>8, RecurseStep

\* The attempt to sort both parts by insertion.
LEMMA AttemptIs ==
  ASSUME SortInv, RightDone
  PROVE  /\ Rearranged(N, arr, SortedLeft.arr, Call.begin, Call.end)
         /\ Border(N, SortedLeft.arr, PivotPos) /\ Border(N, SortedLeft.arr, PivotPos + 1)
         /\ Rearranged(N, arr, SortedBoth.arr, Call.begin, Call.end)
         /\ Border(N, SortedBoth.arr, PivotPos) /\ Border(N, SortedBoth.arr, PivotPos + 1)
         /\ (~GivesUp(SortedLeft) /\ ~GivesUp(SortedBoth)) =>
              \A x \in Call.begin .. Call.end : Border(N, SortedBoth.arr, x)
<1> DEFINE b == Call.begin
           e == Call.end
           s == Partitioned
           p == PivotPos
           k == p + 1
           t == SortedLeft.arr
           u == SortedBoth.arr
<1>1. /\ calls # <<>> /\ p \in Nat /\ b <= p /\ p < e
      /\ Rearranged(N, arr, s, b, e) /\ s \in Arrays(N)
      /\ Border(N, s, p) /\ Border(N, s, k) /\ Border(N, s, b) /\ Border(N, s, e)
  BY RightDoneIs
<1>2. N \in Nat /\ b \in Nat /\ e \in Nat /\ e <= N
  BY <1>1, CallIs
<1>3. SortedLeft = PartiallySorted(s, b, p) /\ SortedBoth = PartiallySorted(t, k, e)
  BY DEF SortedLeft, SortedBoth
<1> HIDE DEF N, b, e, s, p, t, u
<1>4. k \in Nat /\ k <= e /\ b <= k /\ p <= N /\ p <= k
  BY <1>1, <1>2
<1>5. b \in Int /\ e \in Int /\ p \in Int /\ k \in Int
  BY <1>1, <1>2
<1>12. k = p + 1
  OBVIOUS
<1> HIDE DEF k
<1>6. Rearranged(N, s, PartiallySorted(s, b, p).arr, b, p)
  BY <1>1, <1>2, <1>4, PartiallySortedIs
<1>7. ~GivesUp(PartiallySorted(s, b, p)) => SortedRun(PartiallySorted(s, b, p).arr, b, p)
  BY <1>1, <1>2, <1>4, PartiallySortedIs
<1>8. Rearranged(N, s, t, b, p) /\ t \in Arrays(N) /\ (~GivesUp(SortedLeft) => SortedRun(t, b, p))
  <2>1. Rearranged(N, s, t, b, p)
    BY <1>3, <1>6 DEF t
  <2>2. ~GivesUp(SortedLeft) => SortedRun(t, b, p)
    BY <1>3, <1>7 DEF t
  <2> QED BY <2>1, <2>2 DEF Rearranged
<1>9. Rearranged(N, t, PartiallySorted(t, k, e).arr, k, e)
  BY <1>2, <1>4, <1>8, PartiallySortedIs
<1>10. ~GivesUp(PartiallySorted(t, k, e)) => SortedRun(PartiallySorted(t, k, e).arr, k, e)
  BY <1>2, <1>4, <1>8, PartiallySortedIs
<1>11. Rearranged(N, t, u, k, e) /\ u \in Arrays(N) /\ (~GivesUp(SortedBoth) => SortedRun(u, k, e))
  <2>1. Rearranged(N, t, u, k, e)
    BY <1>3, <1>9 DEF u
  <2>2. ~GivesUp(SortedBoth) => SortedRun(u, k, e)
    BY <1>3, <1>10 DEF u
  <2> QED BY <2>1, <2>2 DEF Rearranged
<1>13. Border(N, t, b) /\ Border(N, t, p) /\ Border(N, t, k) /\ Border(N, t, e)
  <2>1. b <= b /\ p <= p /\ p <= k /\ p <= e
    BY <1>1, <1>4, <1>5
  <2>2. ASSUME NEW x \in Int, x <= b \/ p <= x, Border(N, s, x) PROVE Border(N, t, x)
    BY <1>2, <1>5, <1>8, <2>2, RearrangedBorder
  <2> QED BY <1>1, <1>5, <2>1, <2>2
<1>14. Border(N, u, b) /\ Border(N, u, p) /\ Border(N, u, k) /\ Border(N, u, e)
  <2>1. b <= k /\ p <= k /\ k <= k /\ e <= e
    BY <1>4, <1>5
  <2>2. ASSUME NEW x \in Int, x <= k \/ e <= x, Border(N, t, x) PROVE Border(N, u, x)
    BY <1>2, <1>5, <1>11, <2>2, RearrangedBorder
  <2> QED BY <1>5, <1>13, <2>1, <2>2
<1>15. Rearranged(N, arr, t, b, e)
  <2>1. Rearranged(N, s, t, b, e)
    <3>1. b <= b /\ p <= e
      BY <1>1, <1>5
    <3> QED BY <1>2, <1>5, <1>8, <3>1, RearrangedWider
  <2> QED BY <1>1, <1>2, <1>5, <2>1, RearrangedTrans
<1>16. Rearranged(N, arr, u, b, e)
  <2>1. Rearranged(N, t, u, b, e)
    <3>1. b <= k /\ e <= e
      BY <1>4, <1>5
    <3> QED BY <1>2, <1>5, <1>11, <3>1, RearrangedWider
  <2> QED BY <1>2, <1>5, <1>15, <2>1, RearrangedTrans
<1>17. ASSUME ~GivesUp(SortedLeft), ~GivesUp(SortedBoth) PROVE \A x \in b .. e : Border(N, u, x)
  <2>1. SortedRun(t, b, p) /\ SortedRun(u, k, e)
    BY <1>8, <1>11, <1>17
  <2>2. SortedRun(u, b, p)
    <3>1. SameOutside(N, t, u, k, e)
      BY <1>2, <1>5, <1>11, RearrangedOutside
    <3>2. \A i \in b .. p - 1 : u[i] = t[i]
      BY <1>1, <1>2, <1>4, <1>12, <3>1 DEF SameOutside
    <3> QED BY <2>1, <3>2 DEF SortedRun
  <2>3. \A x \in b .. p : Border(N, u, x)
    BY <1>1, <1>2, <1>4, <1>11, <1>14, <2>2, SortedIsInOrder
  <2>4. \A x \in k .. e : Border(N, u, x)
    BY <1>2, <1>4, <1>11, <1>14, <2>1, SortedIsInOrder
  <2>5. \A x \in b .. e : x \in b .. p \/ x \in k .. e
    BY <1>5, <1>12
  <2> QED BY <2>3, <2>4, <2>5
<1>18. /\ Rearranged(N, arr, t, Call.begin, Call.end) /\ Border(N, t, PivotPos)
       /\ Rearranged(N, arr, u, Call.begin, Call.end) /\ Border(N, u, PivotPos)
  BY <1>13, <1>14, <1>15, <1>16 DEF b, e, p
<1>19. Border(N, t, PivotPos + 1) /\ Border(N, u, PivotPos + 1)
  BY <1>13, <1>14 DEF k, p
<1> QED BY <1>17, <1>18, <1>19 DEF t, u, b, e

LEMMA NearlySortedStep ==
  ASSUME SortInv, NearlySorted
  PROVE  SortInv'
<1>1. RightDone /\ ~GivesUp(SortedLeft) /\ ~GivesUp(SortedBoth)
  BY DEF NearlySorted
<1>2. arr' = SortedBoth.arr /\ calls' = Popped /\ part' = NoPartition /\ UNCHANGED <<input, Branchless, outside, fallback>>
  BY DEF NearlySorted
<1>3. /\ Rearranged(N, arr, arr', Call.begin, Call.end)
      /\ \A x \in Call.begin .. Call.end : Border(N, arr', x)
  BY <1>1, <1>2, AttemptIs
<1>4. outside' = FALSE /\ UNCHANGED <<input, Branchless>>
  BY <1>2 DEF SortInv
<1>5. fallback' \in BOOLEAN /\ (fallback => fallback')
  BY <1>2 DEF SortInv
<1>6. calls' = Popped
  BY <1>2
<1>7. part' = NoPartition
  BY <1>2
<1>8. calls # <<>>
  BY <1>1, RightDoneIs
<1> QED BY <1>3, <1>4, <1>5, <1>6, <1>7, <1>8, CallEnds

LEMMA BalancedStep ==
  ASSUME SortInv, RecurseBalanced
  PROVE  SortInv'
<1>1. RightDone /\ Recurse(Call.bad_allowed)
  BY DEF RecurseBalanced
<1>2. arr' = IF ~part.already THEN Partitioned
             ELSE IF GivesUp(SortedLeft) THEN SortedLeft.arr ELSE SortedBoth.arr
  BY DEF RecurseBalanced
<1>3. /\ Rearranged(N, arr, Partitioned, Call.begin, Call.end)
      /\ Border(N, Partitioned, PivotPos) /\ Border(N, Partitioned, PivotPos + 1) /\ calls # <<>>
  BY <1>1, RightDoneIs
<1>4. /\ Rearranged(N, arr, SortedLeft.arr, Call.begin, Call.end)
      /\ Border(N, SortedLeft.arr, PivotPos) /\ Border(N, SortedLeft.arr, PivotPos + 1)
      /\ Rearranged(N, arr, SortedBoth.arr, Call.begin, Call.end)
      /\ Border(N, SortedBoth.arr, PivotPos) /\ Border(N, SortedBoth.arr, PivotPos + 1)
  BY <1>1, AttemptIs
<1>5. /\ Rearranged(N, arr, arr', Call.begin, Call.end)
      /\ Border(N, arr', PivotPos) /\ Border(N, arr', PivotPos + 1)
  <2>1. arr' = Partitioned \/ arr' = SortedLeft.arr \/ arr' = SortedBoth.arr
    BY <1>2
  <2> QED BY <1>3, <1>4, <2>1
<1>6. Call.bad_allowed \in Int
  BY <1>3, CallIs
<1> QED BY <1>1, <1>5, <1>6, RecurseStep

LEMMA StepHolds == SortInv /\ [Next]_vars => SortInv'
<1> SUFFICES ASSUME SortInv, [Next]_vars PROVE SortInv'
  OBVIOUS
<1>1. CASE UNCHANGED vars
  BY <1>1 DEF vars, SortInv, N, PartOf, Call
<1>2. CASE SortSmall \/ StartPartition
  BY <1>2, SmallStep, StartStep
<1>3. CASE ExchangeRight \/ ExchangeLeft \/ LeftDone
  BY <1>3, RightTurnStep, LeftTurnStep, LeftDoneStep
<1>4. CASE ExchangeBlocks \/ LastBlock
  BY <1>4, BlocksStep, LastBlockStep
<1>5. CASE HeapSort \/ RecurseShuffled \/ NearlySorted \/ RecurseBalanced
  BY <1>5, HeapSortStep, ShuffledStep, NearlySortedStep, BalancedStep
<1> QED BY <1>1, <1>2, <1>3, <1>4, <1>5 DEF Next

-----------------------------------------------------------------------------
(* The theorems.                                                           *)

\* The array is always a rearrangement of the input, the segments of the calls
\* are bounded by borders, a partition has the form its loops rely on, and
\* unless heap sort was used every position without a border is inside the
\* segment of a call that is still to sort it (pdqsort_loop).
THEOREM SortInvHolds == Spec => []SortInv
<1>1. Init => SortInv
  BY InitHolds
<1>2. SortInv /\ [Next]_vars => SortInv'
  BY StepHolds
<1> QED BY <1>1, <1>2, PTL DEF Spec

\* Every element of the input is in the array as often as it was, after every
\* turn of every loop: insertion sorts, swaps, cycles of offsets and the
\* misplaced arguments of sift_down lose none.
THEOREM SameElementsTheorem == Spec => []SameElements
<1>1. SortInv => SameElements
  <2> SUFFICES ASSUME SortInv PROVE SameElements
    OBVIOUS
  <2>1. Rearranged(N, input, arr, 0, N) /\ N \in Nat
    BY DEF SortInv
  <2>2. DOMAIN input = 0 .. N - 1 /\ DOMAIN arr = 0 .. N - 1
    BY <2>1 DEF Rearranged, Arrays
  <2>3. 0 \in Int /\ N \in Int
    BY <2>1
  <2> HIDE DEF N
  <2>4. ASSUME NEW x
        PROVE  TimesIn(N, arr, x) = TimesIn(N, input, x)
    BY <2>1, <2>3, RearrangedElements
  <2> QED BY <2>2, <2>4 DEF SameElements, TimesIn
<1> QED BY <1>1, SortInvHolds, PTL

\* No loop without a bounds check leaves the segment it was called for: the
\* median guarantees what the first search of partition_right finds, an exchange
\* what the next ones find, and the element before a segment what an unguarded
\* insertion and the searches of partition_left find.
THEOREM StaysInsideTheorem == Spec => []StaysInside
<1>1. SortInv => StaysInside
  BY DEF SortInv, StaysInside
<1> QED BY <1>1, SortInvHolds, PTL

\* The unfinished calls have disjoint segments, the current one leftmost, and
\* no element is ordered against one of another segment.
THEOREM SeparatedTheorem == Spec => []Separated
<1>1. SortInv => Separated
  <2> SUFFICES ASSUME SortInv PROVE Separated
    OBVIOUS
  <2>1. GoodCalls(N, arr, calls) /\ N \in Nat /\ arr \in Arrays(N)
    BY DEF SortInv, Rearranged
  <2>2. Size = N
    <3>1. DOMAIN arr = 0 .. N - 1
      BY <2>1 DEF Arrays
    <3>2. DOMAIN input = 0 .. N - 1
      BY DEF SortInv, Rearranged, Arrays
    <3> QED BY <3>1, <3>2 DEF Size, N
  <2>3. Len(calls) \in Nat /\ DOMAIN calls = 1 .. Len(calls)
    BY <2>1, LenProperties DEF GoodCalls
  <2> HIDE DEF N
  <2> SUFFICES ASSUME NEW c \in DOMAIN calls
               PROVE  /\ c > 1 => calls[c].end < calls[c - 1].begin
                      /\ Border(N, arr, calls[c].begin) /\ Border(N, arr, calls[c].end)
    BY <2>2 DEF Separated, Border
  <2>4. c \in 1 .. Len(calls)
    BY <2>3
  <2>5. GoodCall(N, arr, calls[c]) /\ \A d \in 1 .. c - 1 : calls[c].end < calls[d].begin
    BY <2>1, <2>4 DEF GoodCalls
  <2>6. c > 1 => c - 1 \in 1 .. c - 1
    BY <2>3, <2>4
  <2> QED BY <2>5, <2>6 DEF GoodCall
<1> QED BY <1>1, SortInvHolds, PTL

\* When no call is left and heap sort was not used, the array is sorted.
THEOREM SortedTheorem == Spec => []SortedUnlessHeapSort
<1>1. SortInv => SortedUnlessHeapSort
  <2> SUFFICES ASSUME SortInv, calls = <<>>, ~fallback, NEW i \in DOMAIN arr, NEW j \in DOMAIN arr, i <= j
               PROVE  arr[i] <= arr[j]
    BY DEF SortedUnlessHeapSort, Finished
  <2>1. N \in Nat /\ arr \in Arrays(N) /\ Covered(N, arr, calls)
    BY DEF SortInv, Rearranged
  <2> HIDE DEF N
  <2>2. i \in 0 .. N - 1 /\ j \in 0 .. N - 1 /\ \A k \in 0 .. N - 1 : arr[k] \in Int
    BY <2>1 DEF Arrays
  <2>3. CASE i = j
    BY <2>2, <2>3
  <2>4. CASE i < j
    <3>1. j \in 1 .. N - 1 /\ i \in 0 .. j - 1 /\ j \in j .. N - 1
      BY <2>1, <2>2, <2>4
    <3>2. ~ \E c \in 1 .. Len(calls) : calls[c].begin < j /\ j < calls[c].end
      BY EmptySeq
    <3>3. Border(N, arr, j)
      BY <2>1, <3>1, <3>2 DEF Covered
    <3> QED BY <3>1, <3>3 DEF Border
  <2> QED BY <2>2, <2>3, <2>4
<1> QED BY <1>1, SortInvHolds, PTL

-----------------------------------------------------------------------------
(* The sort makes progress.                                                *)

\* What the calls q have left to do, as Work counts it.
WorkOf(q) ==
  LET upto[n \in 0 .. Len(q)] ==
        IF n = 0 THEN 0 ELSE upto[n - 1] + 2 * (q[n].end - q[n].begin) + 1
  IN  upto[Len(q)]

ShareOf(call) == 2 * (call.end - call.begin) + 1

\* A counts from the first call on.
WorkTrace(q, A) ==
  /\ A[0] = 0
  /\ \A c \in 1 .. Len(q) : A[c] = A[c - 1] + ShareOf(q[c])
  /\ \A c \in 0 .. Len(q) : A[c] \in Int

LEMMA WorkOfIs ==
  ASSUME NEW q \in Seq(CallSet)
  PROVE  \E A : WorkTrace(q, A) /\ WorkOf(q) = A[Len(q)]
<1> DEFINE m == Len(q)
           K == 0 .. m
           T == Int
           rank == [k \in K |-> k]
           base == {k \in K : k = 0}
           init == [k \in K |-> 0]
           next == [k \in K |-> k - 1]
           step == [k \in K |-> [t \in T |-> t + 2 * (q[k].end - q[k].begin) + 1]]
           Solves(f) == f = [n \in 0 .. m |-> IF n = 0 THEN 0 ELSE f[n - 1] + 2 * (q[n].end - q[n].begin) + 1]
           A == CHOOSE f : Solves(f)
<1>0. m \in Nat /\ \A c \in 1 .. m : q[c].end \in Int /\ q[c].begin \in Int
  <2>1. \A c \in 1 .. m : q[c] \in CallSet
    OBVIOUS
  <2> QED BY <2>1, LenProperties DEF CallSet
<1>1. WorkOf(q) = A[m]
  BY DEF WorkOf
<1> HIDE DEF m
<1>2. Recurs(K, T, m, rank, base, init, next, step)
  <2>1. rank \in [K -> 0 .. m]
    OBVIOUS
  <2>2. ASSUME NEW k \in K
        PROVE  IF k \in base THEN init[k] \in T
               ELSE next[k] \in K /\ rank[next[k]] < rank[k] /\ \A t \in T : step[k][t] \in T
    <3>1. CASE k = 0
      BY <3>1
    <3>2. CASE k # 0
      <4>1. next[k] \in K /\ rank[next[k]] < rank[k] /\ k \notin base /\ k \in 1 .. m
        BY <1>0, <3>2
      <4>2. \A t \in T : step[k][t] \in T
        BY <1>0, <4>1
      <4> QED BY <4>1, <4>2
    <3> QED BY <3>1, <3>2
  <2> HIDE DEF rank, base, init, next, step, T
  <2> QED BY <1>0, <2>1, <2>2 DEF Recurs
<1>3. PICK f \in [K -> T] : Follows(f, K, base, init, next, step)
  <2> HIDE DEF K, T, rank, base, init, next, step
  <2> QED BY <1>2, RecursionExists
<1>4. Solves(f)
  <2>1. ASSUME NEW k \in K
        PROVE  f[k] = IF k = 0 THEN 0 ELSE f[k - 1] + 2 * (q[k].end - q[k].begin) + 1
    <3>1. CASE k = 0
      BY <1>3, <3>1 DEF Follows
    <3>2. CASE k # 0
      <4>1. k - 1 \in K /\ f[k - 1] \in T
        BY <1>0, <3>2
      <4>2. f[k] = step[k][f[next[k]]]
        BY <1>3, <3>2 DEF Follows
      <4> QED BY <3>2, <4>1, <4>2
    <3> QED BY <3>1, <3>2
  <2> QED BY <2>1
<1>5. Solves(A)
  BY <1>4
<1> HIDE DEF A
<1>6. A[0] = 0 /\ \A c \in 1 .. m : A[c] = A[c - 1] + 2 * (q[c].end - q[c].begin) + 1
  <2>1. 0 \in 0 .. m /\ \A c \in 1 .. m : c \in 0 .. m /\ c # 0
    BY <1>0
  <2> QED BY <1>5, <2>1
<1>7. \A c \in 0 .. m : A[c] \in Int
  <2> DEFINE G == {c \in Int : A[c] \in Int}
  <2>1. 0 \in G
    BY <1>6
  <2>2. ASSUME NEW c \in 0 + 1 .. m, c - 1 \in G PROVE c \in G
    <3>1. c \in 1 .. m /\ A[c - 1] \in Int
      BY <2>2
    <3>2. A[c] = A[c - 1] + 2 * (q[c].end - q[c].begin) + 1
      BY <1>6, <3>1
    <3>3. q[c].end \in Int /\ q[c].begin \in Int
      BY <1>0, <3>1
    <3>4. A[c] \in Int
      BY <3>1, <3>2, <3>3
    <3>5. c \in Int
      BY <1>0
    <3> QED BY <3>4, <3>5
  <2> HIDE DEF G
  <2>3. 0 \in Int /\ m \in Int
    BY <1>0
  <2>4. \A c \in 0 .. m : c \in G
    BY <2>1, <2>2, <2>3, Induction
  <2> QED BY <2>4 DEF G
<1>8. \A c \in 1 .. m : A[c] = A[c - 1] + ShareOf(q[c])
  <2> SUFFICES ASSUME NEW c \in 1 .. m PROVE A[c] = A[c - 1] + ShareOf(q[c])
    OBVIOUS
  <2>1. c - 1 \in 0 .. m
    BY <1>0
  <2>2. A[c - 1] \in Int /\ q[c].end \in Int /\ q[c].begin \in Int
    BY <1>0, <1>7, <2>1
  <2> QED BY <1>6, <2>2 DEF ShareOf
<1>9. WorkTrace(q, A) /\ WorkOf(q) = A[Len(q)]
  BY <1>1, <1>6, <1>7, <1>8 DEF WorkTrace, m
<1> QED BY <1>9

\* One call more.
LEMMA WorkOfLonger ==
  ASSUME NEW q \in Seq(CallSet), NEW r \in Seq(CallSet), Len(r) = Len(q) + 1,
         \A c \in 1 .. Len(q) : r[c] = q[c]
  PROVE  WorkOf(q) \in Int /\ WorkOf(r) = WorkOf(q) + ShareOf(r[Len(r)])
<1> DEFINE m == Len(q)
<1>0. m \in Nat /\ m \in Int /\ 0 \in Int /\ Len(r) = m + 1 /\ \A c \in 1 .. m : r[c] = q[c]
  BY LenProperties
<1>1. PICK A : WorkTrace(q, A) /\ WorkOf(q) = A[m]
  BY WorkOfIs
<1>2. PICK B : WorkTrace(r, B) /\ WorkOf(r) = B[Len(r)]
  BY WorkOfIs
<1>3. /\ A[0] = 0 /\ \A c \in 1 .. m : A[c] = A[c - 1] + ShareOf(q[c])
      /\ \A c \in 0 .. m : A[c] \in Int
  BY <1>1 DEF WorkTrace
<1>4. B[0] = 0 /\ \A c \in 1 .. m + 1 : B[c] = B[c - 1] + ShareOf(r[c])
  BY <1>0, <1>2 DEF WorkTrace
<1> HIDE DEF m
<1> DEFINE G == {c \in Int : B[c] = A[c]}
<1>5. 0 \in G
  BY <1>3, <1>4
<1>6. ASSUME NEW c \in 0 + 1 .. m, c - 1 \in G PROVE c \in G
  <2>1. c \in 1 .. m /\ c \in 1 .. m + 1 /\ B[c - 1] = A[c - 1] /\ c \in Int
    BY <1>0, <1>6
  <2>2. B[c] = B[c - 1] + ShareOf(r[c]) /\ A[c] = A[c - 1] + ShareOf(q[c]) /\ r[c] = q[c]
    BY <1>0, <1>3, <1>4, <2>1
  <2> QED BY <2>1, <2>2
<1> HIDE DEF G
<1>7. \A c \in 0 .. m : c \in G
  BY <1>0, <1>5, <1>6, Induction
<1>8. B[m] = A[m]
  <2>1. m \in 0 .. m
    BY <1>0
  <2> QED BY <1>7, <2>1 DEF G
<1>9. B[m + 1] = B[m] + ShareOf(r[m + 1])
  <2>1. m + 1 \in 1 .. m + 1 /\ (m + 1) - 1 = m
    BY <1>0
  <2>2. B[m + 1] = B[(m + 1) - 1] + ShareOf(r[m + 1])
    BY <1>4, <2>1
  <2> QED BY <2>1, <2>2
<1>10. WorkOf(q) = A[m] /\ WorkOf(r) = B[m + 1] /\ A[m] \in Int
  <2>1. m \in 0 .. m
    BY <1>0
  <2> QED BY <1>0, <1>1, <1>2, <1>3, <2>1
<1> QED BY <1>0, <1>8, <1>9, <1>10

\* What the current call has left.
LEMMA WorkOfTop ==
  ASSUME NEW n, NEW s, NEW q, GoodCalls(n, s, q), q # <<>>
  PROVE  WorkOf(WithoutTop(q)) \in Int /\ WorkOf(q) = WorkOf(WithoutTop(q)) + ShareOf(Top(q))
<1> DEFINE p == WithoutTop(q)
<1>1. /\ p \in Seq(CallSet) /\ Len(p) = Len(q) - 1
      /\ \A c \in 1 .. Len(q) - 1 : p[c] = q[c]
  BY BelowTop
<1>2. q \in Seq(CallSet) /\ Len(q) \in Nat
  BY LenProperties DEF GoodCalls
<1> HIDE DEF p
<1>3. Len(q) = Len(p) + 1 /\ \A c \in 1 .. Len(p) : q[c] = p[c]
  BY <1>1, <1>2
<1>4. WorkOf(p) \in Int /\ WorkOf(q) = WorkOf(p) + ShareOf(q[Len(q)])
  BY <1>1, <1>2, <1>3, WorkOfLonger
<1> QED BY <1>4 DEF p, Top

\* A call that goes on with less.
LEMMA WorkOfShrunk ==
  ASSUME NEW n, NEW s, NEW q, GoodCalls(n, s, q), q # <<>>, NEW k \in Nat, Top(q).begin < k
  PROVE  WorkOf(q) \in Int /\ WorkOf(Shrunk(q, k)) \in Int /\ WorkOf(Shrunk(q, k)) < WorkOf(q)
<1> DEFINE p == WithoutTop(q)
           m == Len(q)
           call == [Top(q) EXCEPT !.begin = k]
           r == Shrunk(q, k)
<1>1. p \in Seq(CallSet) /\ Len(p) = m - 1 /\ \A c \in 1 .. m - 1 : p[c] = q[c]
  BY BelowTop
<1>2. m \in Nat /\ m \in 1 .. m /\ Top(q) \in CallSet /\ Top(q).begin \in Nat /\ Top(q).end \in Nat
  BY TopIs
<1>3. q \in Seq(CallSet) /\ q \in [1 .. m -> CallSet]
  BY LenProperties DEF GoodCalls
<1>4. r = [q EXCEPT ![m] = call]
  BY DEF Shrunk, Top
<1>5. call \in CallSet /\ call.begin = k /\ call.end = Top(q).end
  BY <1>2 DEF CallSet
<1>6. WorkOf(p) \in Int /\ WorkOf(q) = WorkOf(p) + ShareOf(Top(q))
  BY WorkOfTop
<1> HIDE DEF call, p, r
<1>7. r \in [1 .. m -> CallSet] /\ \A c \in 1 .. m : r[c] = IF c = m THEN call ELSE q[c]
  BY <1>3, <1>4, <1>5
<1> HIDE DEF m
<1>8. r \in Seq(CallSet) /\ Len(r) = m
  BY <1>2, <1>7, FunctionIsSequence
<1>9. Len(r) = Len(p) + 1 /\ \A c \in 1 .. Len(p) : r[c] = p[c]
  <2>1. \A c \in 1 .. m - 1 : c \in 1 .. m /\ c # m
    BY <1>2
  <2>2. Len(r) = Len(p) + 1 /\ 1 .. Len(p) = 1 .. m - 1
    BY <1>1, <1>2, <1>8
  <2> QED BY <1>1, <1>7, <2>1, <2>2
<1>10. WorkOf(r) = WorkOf(p) + ShareOf(call)
  <2>1. WorkOf(r) = WorkOf(p) + ShareOf(r[Len(r)])
    BY <1>1, <1>8, <1>9, WorkOfLonger
  <2> QED BY <1>2, <1>7, <1>8, <2>1
<1>11. ShareOf(call) < ShareOf(Top(q)) /\ ShareOf(call) \in Int /\ ShareOf(Top(q)) \in Int
  BY <1>2, <1>5 DEF ShareOf
<1> QED BY <1>6, <1>10, <1>11 DEF r

\* A call that is split at a pivot.
LEMMA WorkOfSplit ==
  ASSUME NEW n, NEW s, NEW q, GoodCalls(n, s, q), q # <<>>,
         NEW x \in CallSet, NEW y \in CallSet,
         x.begin = Top(q).begin, y.begin = x.end + 1, y.end = Top(q).end
  PROVE  /\ WorkOf(q) \in Int /\ WorkOf(WithoutTop(q) \o <<y, x>>) \in Int
         /\ WorkOf(WithoutTop(q) \o <<y, x>>) < WorkOf(q)
<1> DEFINE p == WithoutTop(q)
           m == Len(p)
           t == p \o <<y>>
           r == p \o <<y, x>>
<1>1. p \in Seq(CallSet) /\ m \in Nat
  BY BelowTop, LenProperties
<1>2. WorkOf(p) \in Int /\ WorkOf(q) = WorkOf(p) + ShareOf(Top(q))
  BY WorkOfTop
<1>3. Top(q).begin \in Nat /\ Top(q).end \in Nat
  BY TopIs
<1> HIDE DEF p
<1>4. t \in Seq(CallSet) /\ Len(t) = m + 1 /\ t[m + 1] = y /\ \A c \in 1 .. m : t[c] = p[c]
  <2>1. <<y>> \in Seq(CallSet) /\ Len(<<y>>) = 1 /\ <<y>>[1] = y
    OBVIOUS
  <2> DEFINE one == <<y>>
  <2> HIDE DEF one
  <2>2. one \in Seq(CallSet) /\ Len(one) = 1 /\ one[1] = y
    BY <2>1 DEF one
  <2>3. /\ p \o one \in Seq(CallSet) /\ Len(p \o one) = m + Len(one)
        /\ \A c \in 1 .. m + Len(one) : (p \o one)[c] = IF c <= m THEN p[c] ELSE one[c - m]
    BY <1>1, <2>2, ConcatProperties
  <2>4. m + 1 \in 1 .. m + Len(one) /\ ~(m + 1 <= m) /\ (m + 1) - m = 1
    BY <1>1, <2>2
  <2>5. \A c \in 1 .. m : c \in 1 .. m + Len(one) /\ c <= m
    BY <1>1, <2>2
  <2> HIDE DEF m
  <2>6. (p \o one)[m + 1] = y
    BY <2>2, <2>3, <2>4
  <2>7. \A c \in 1 .. m : (p \o one)[c] = p[c]
    BY <2>3, <2>5
  <2> QED BY <2>2, <2>3, <2>6, <2>7 DEF one
<1>5. r \in Seq(CallSet) /\ Len(r) = m + 2 /\ r[m + 1] = y /\ r[m + 2] = x /\ \A c \in 1 .. m : r[c] = p[c]
  <2>1. <<y, x>> \in Seq(CallSet) /\ Len(<<y, x>>) = 2 /\ <<y, x>>[1] = y /\ <<y, x>>[2] = x
    OBVIOUS
  <2> DEFINE two == <<y, x>>
  <2> HIDE DEF two
  <2>2. two \in Seq(CallSet) /\ Len(two) = 2 /\ two[1] = y /\ two[2] = x
    BY <2>1 DEF two
  <2>3. /\ p \o two \in Seq(CallSet) /\ Len(p \o two) = m + Len(two)
        /\ \A c \in 1 .. m + Len(two) : (p \o two)[c] = IF c <= m THEN p[c] ELSE two[c - m]
    BY <1>1, <2>2, ConcatProperties
  <2>4. /\ m + 1 \in 1 .. m + Len(two) /\ ~(m + 1 <= m) /\ (m + 1) - m = 1
        /\ m + 2 \in 1 .. m + Len(two) /\ ~(m + 2 <= m) /\ (m + 2) - m = 2
    BY <1>1, <2>2
  <2>5. \A c \in 1 .. m : c \in 1 .. m + Len(two) /\ c <= m
    BY <1>1, <2>2
  <2> HIDE DEF m
  <2>6. (p \o two)[m + 1] = y /\ (p \o two)[m + 2] = x
    BY <2>2, <2>3, <2>4
  <2>7. \A c \in 1 .. m : (p \o two)[c] = p[c]
    BY <2>3, <2>5
  <2> QED BY <2>2, <2>3, <2>6, <2>7 DEF two
<1> HIDE DEF t, r
<1>6. WorkOf(t) \in Int /\ WorkOf(r) = WorkOf(t) + ShareOf(x)
  <2>1. Len(r) = Len(t) + 1
    BY <1>1, <1>4, <1>5
  <2>2. ASSUME NEW c \in 1 .. Len(t) PROVE r[c] = t[c]
    <3>1. c \in 1 .. m \/ c = m + 1
      BY <1>1, <1>4
    <3> QED BY <1>4, <1>5, <3>1
  <2>3. WorkOf(t) \in Int /\ WorkOf(r) = WorkOf(t) + ShareOf(r[Len(r)])
    BY <1>4, <1>5, <2>1, <2>2, WorkOfLonger
  <2> QED BY <1>5, <2>3
<1>7. WorkOf(t) = WorkOf(p) + ShareOf(y)
  <2>1. WorkOf(t) = WorkOf(p) + ShareOf(t[Len(t)])
    BY <1>1, <1>4, WorkOfLonger
  <2> QED BY <1>4, <2>1
<1>8. /\ ShareOf(x) \in Int /\ ShareOf(y) \in Int /\ ShareOf(Top(q)) \in Int
      /\ ShareOf(x) + ShareOf(y) < ShareOf(Top(q))
  <2>1. x.begin \in Int /\ x.end \in Int /\ y.begin \in Int /\ y.end \in Int
    BY DEF CallSet
  <2> DEFINE b == Top(q).begin
             e == Top(q).end
             k == x.end
  <2>2. b \in Int /\ e \in Int /\ k \in Int /\ x.begin = b /\ y.begin = k + 1 /\ y.end = e
    BY <1>3, <2>1
  <2>3. /\ ShareOf(x) = 2 * (k - b) + 1 /\ ShareOf(y) = 2 * (e - (k + 1)) + 1
        /\ ShareOf(Top(q)) = 2 * (e - b) + 1
    BY <2>2 DEF ShareOf
  <2> HIDE DEF b, e, k
  <2> QED BY <2>2, <2>3
<1>9. WorkOf(q) \in Int /\ WorkOf(r) \in Int /\ WorkOf(r) < WorkOf(q)
  BY <1>2, <1>6, <1>7, <1>8
<1> QED BY <1>9 DEF r, p

LEMMA WorkIs == Work = WorkOf(calls) /\ Work' = WorkOf(calls')
<1>1. Work = WorkOf(calls)
  BY DEF Work, WorkOf
<1>2. Work' = WorkOf(calls')
  BY DEF Work, WorkOf
<1> QED BY <1>1, <1>2

\* One of the three ways to make progress.
Progress ==
  \/ Work' < Work
  \/ Work' = Work /\ Stage' < Stage
  \/ /\ Work' = Work /\ Stage' = Stage
     /\ part.first < part.last /\ part'.last - part'.first < part.last - part.first

LEMMA ReturnProgresses ==
  ASSUME SortInv, calls # <<>>, calls' = Popped
  PROVE  Progress
<1>1. GoodCalls(N, arr, calls)
  BY DEF SortInv
<1>2. /\ Call = Top(calls) /\ Popped = WithoutTop(calls)
      /\ Call.begin \in Nat /\ Call.end \in Nat /\ Call.begin <= Call.end
  BY CallIs
<1>3. WorkOf(WithoutTop(calls)) \in Int /\ WorkOf(calls) = WorkOf(WithoutTop(calls)) + ShareOf(Top(calls))
  BY <1>1, WorkOfTop
<1>4. ShareOf(Top(calls)) \in Int /\ ShareOf(Top(calls)) > 0
  BY <1>2 DEF ShareOf
<1>5. WorkOf(calls') < WorkOf(calls)
  BY <1>2, <1>3, <1>4
<1> QED BY <1>5, WorkIs DEF Progress

LEMMA LeftDoneProgresses ==
  ASSUME SortInv, LeftDone
  PROVE  Progress
<1> DEFINE k == part.last + 1
<1>1. calls # <<>> /\ part.kind = "left" /\ calls' = Shrunk(calls, k)
  BY DEF LeftDone, Partitioning, Shrunk
<1>2. GoodCalls(N, arr, calls)
  BY DEF SortInv
<1>3. Call = Top(calls) /\ Call.begin \in Nat /\ Call.end \in Nat
  BY <1>1, CallIs
<1>4. LeftPart(arr, Call.begin, Call.end, part.first, part.last)
  BY <1>1, KindIs
<1>5. k \in Nat /\ Top(calls).begin < k
  BY <1>3, <1>4 DEF LeftPart
<1> HIDE DEF k
<1>6. /\ WorkOf(calls) \in Int /\ WorkOf(Shrunk(calls, k)) \in Int
      /\ WorkOf(Shrunk(calls, k)) < WorkOf(calls)
  BY <1>1, <1>2, <1>5, WorkOfShrunk
<1>7. WorkOf(calls') < WorkOf(calls)
  BY <1>1, <1>6
<1> QED BY <1>7, WorkIs DEF Progress

LEMMA RecurseProgresses ==
  ASSUME SortInv, RightDone, NEW bad \in Int, Recurse(bad)
  PROVE  Progress
<1> DEFINE p == PivotPos
           call == [Call EXCEPT !.bad_allowed = bad]
           y == [call EXCEPT !.begin = p + 1, !.leftmost = FALSE]
           x == [call EXCEPT !.end = p]
<1>1. calls # <<>> /\ p \in Nat
  BY RightDoneIs
<1>2. Call = Top(calls) /\ Popped = WithoutTop(calls) /\ Call \in CallSet
  BY <1>1, CallIs
<1>3. calls' = WithoutTop(calls) \o <<y, x>>
  BY <1>2 DEF Recurse
<1>4. GoodCalls(N, arr, calls)
  BY DEF SortInv
<1>5. call \in CallSet /\ call.begin = Top(calls).begin /\ call.end = Top(calls).end
  BY <1>2 DEF CallSet
<1> HIDE DEF call, p
<1>6. x \in CallSet /\ x.begin = Top(calls).begin /\ x.end = p
  BY <1>1, <1>5 DEF CallSet
<1>7. y \in CallSet /\ y.begin = p + 1 /\ y.end = Top(calls).end
  <2>1. p + 1 \in Nat
    BY <1>1
  <2> QED BY <1>5, <2>1 DEF CallSet
<1> HIDE DEF x, y
<1>8. y.begin = x.end + 1
  BY <1>6, <1>7
<1>9. WorkOf(WithoutTop(calls) \o <<y, x>>) < WorkOf(calls)
  BY <1>1, <1>4, <1>6, <1>7, <1>8, WorkOfSplit
<1>10. WorkOf(calls') < WorkOf(calls)
  BY <1>3, <1>9
<1> QED BY <1>10, WorkIs DEF Progress

LEMMA StartProgresses ==
  ASSUME SortInv, StartPartition
  PROVE  Progress
<1>1. part.kind = "none" /\ calls' = calls
  BY DEF StartPartition, Running
<1>2. part'.kind = "blocks" \/ part'.kind = "left" \/ part'.kind = "right"
  BY StartStep
<1>3. Work' = Work
  BY <1>1, WorkIs
<1>4. Stage = 2
  BY <1>1 DEF Stage
<1>5. Stage' = 1 \/ Stage' = 0
  BY <1>2 DEF Stage
<1>6. Stage' < Stage
  BY <1>4, <1>5
<1> QED BY <1>3, <1>6 DEF Progress

LEMMA LastBlockProgresses ==
  ASSUME LastBlock
  PROVE  Progress
<1>1. part.kind = "blocks" /\ calls' = calls
  BY DEF LastBlock, Partitioning
<1>2. part'.kind = "right"
  BY DEF LastBlock
<1>3. Work' = Work
  BY <1>1, WorkIs
<1>4. Stage = 1
  BY <1>1 DEF Stage
<1>5. Stage' = 0
  BY <1>2 DEF Stage
<1>6. Stage' < Stage
  BY <1>4, <1>5
<1> QED BY <1>3, <1>6 DEF Progress

LEMMA CloserProgresses ==
  ASSUME Closer, calls' = calls
  PROVE  Progress
<1>1. Work' = Work
  BY WorkIs
<1>2. Stage' = Stage
  BY DEF Closer, Stage
<1> QED BY <1>1, <1>2 DEF Progress, Closer

\* The sort comes to an end: every step leaves less to sort, or begins a later
\* stage of a partition, or brings the ends of a partition closer.
THEOREM ProgressTheorem == Spec => EveryTurnProgresses
<1>1. ASSUME SortInv, Next PROVE Progress
  <2>1. CASE SortSmall
    <3>1. calls # <<>> /\ calls' = Popped
      BY <2>1 DEF SortSmall, Running
    <3> QED BY <1>1, <3>1, ReturnProgresses
  <2>2. CASE StartPartition
    BY <1>1, <2>2, StartProgresses
  <2>3. CASE ExchangeRight
    <3>1. calls' = calls
      BY <2>3 DEF ExchangeRight
    <3>2. Closer
      BY <1>1, <2>3, RightTurnStep
    <3> QED BY <3>1, <3>2, CloserProgresses
  <2>4. CASE ExchangeLeft
    <3>1. calls' = calls
      BY <2>4 DEF ExchangeLeft
    <3>2. Closer
      BY <1>1, <2>4, LeftTurnStep
    <3> QED BY <3>1, <3>2, CloserProgresses
  <2>5. CASE LeftDone
    BY <1>1, <2>5, LeftDoneProgresses
  <2>6. CASE ExchangeBlocks
    <3>1. calls' = calls
      BY <2>6 DEF ExchangeBlocks
    <3>2. Closer
      BY <1>1, <2>6, BlocksStep
    <3> QED BY <3>1, <3>2, CloserProgresses
  <2>7. CASE LastBlock
    BY <2>7, LastBlockProgresses
  <2>8. CASE HeapSort
    <3>1. RightDone /\ calls' = Popped
      BY <2>8 DEF HeapSort
    <3>2. calls # <<>>
      BY <1>1, <3>1, RightDoneIs
    <3> QED BY <1>1, <3>1, <3>2, ReturnProgresses
  <2>9. CASE RecurseShuffled
    <3> DEFINE bad == Call.bad_allowed - 1
    <3>1. RightDone /\ Recurse(bad)
      BY <2>9 DEF RecurseShuffled
    <3>2. calls # <<>>
      BY <1>1, <3>1, RightDoneIs
    <3>3. bad \in Int
      BY <1>1, <3>2, CallIs
    <3> HIDE DEF bad
    <3> QED BY <1>1, <3>1, <3>3, RecurseProgresses
  <2>10. CASE NearlySorted
    <3>1. RightDone /\ calls' = Popped
      BY <2>10 DEF NearlySorted
    <3>2. calls # <<>>
      BY <1>1, <3>1, RightDoneIs
    <3> QED BY <1>1, <3>1, <3>2, ReturnProgresses
  <2>11. CASE RecurseBalanced
    <3>1. RightDone /\ Recurse(Call.bad_allowed)
      BY <2>11 DEF RecurseBalanced
    <3>2. calls # <<>>
      BY <1>1, <3>1, RightDoneIs
    <3>3. Call.bad_allowed \in Int
      BY <1>1, <3>2, CallIs
    <3> QED BY <1>1, <3>1, <3>3, RecurseProgresses
  <2> QED BY <1>1, <2>1, <2>2, <2>3, <2>4, <2>5, <2>6, <2>7, <2>8, <2>9, <2>10, <2>11 DEF Next
<1>2. SortInv /\ [Next]_vars => [Progress]_vars
  BY <1>1
<1>3. Spec => [][Progress]_vars
  BY <1>2, SortInvHolds, PTL DEF Spec
<1> QED BY <1>3, PTL DEF EveryTurnProgresses, Progress
=============================================================================
